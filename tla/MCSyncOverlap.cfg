CONSTANTS
    Targets = {"windows", "linux"}
    Groups = {"all", "windows-custom"}
    Refs = {"main"}
    MaxSource = 2
    MaxRecipe = 2
    MaxManual = 1
    MaxFailures = 1
    ShaOf <- TwoShas
    Unpatchable <- BadSecondRecipe
    None = None
SPECIFICATION Spec
INVARIANTS
    SoundRecords
PROPERTIES
    RecordedNeverGoesBack
