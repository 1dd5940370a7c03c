CONSTANTS
    Targets = {"windows"}
    Groups = {"all"}
    Refs = {"main"}
    MaxSource = 1
    MaxRecipe = 1
    MaxManual = 0
    MaxFailures = 0
    ShaOf <- OneSha
    Unpatchable = {}
    None = None
SPECIFICATION Spec
INVARIANTS
    GreenMeansRecorded
