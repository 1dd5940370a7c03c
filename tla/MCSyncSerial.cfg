CONSTANTS
    Targets = {"windows", "linux"}
    Groups = {"all"}
    Refs = {"main", "tag"}
    MaxSource = 3
    MaxRecipe = 2
    MaxManual = 1
    MaxFailures = 1
    ShaOf <- MCShaOf
    Unpatchable <- BadSecondRecipe
    None = None
SPECIFICATION FairSpec
INVARIANTS
    RollingIsWhole
    LinuxGreenMeansRecorded
PROPERTIES
    EventuallyRecorded
