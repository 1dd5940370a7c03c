CONSTANTS
    lib = lib
    turn = turn
    cli = cli
    module = module
    Absent = Absent
    Targets = {"windows", "linux"}
    ToolsOf <- MCToolsOf
    EditsOf <- MCEditsOf
    Files = {lib, turn, cli, module}
    Created = {module}
    MaxFaults = 3
SPECIFICATION FairSpec
INVARIANTS
    AllOrNothing
    LosesOnlyUnseenEdits
PROPERTIES
    RecoversEventually
CHECK_DEADLOCK FALSE
