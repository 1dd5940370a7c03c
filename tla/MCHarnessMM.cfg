CONSTANTS
    c1 = c1
    c2 = c2
    bad = bad
    None = None
    Words <- MCWords
    Commands <- MCCommands
    Plans <- MCPlans
    MAX_NODES = 3
    MaxCalls = 2
    MaxEdits = 1
    MaxNested = 1
SPECIFICATION FairSpec
INVARIANTS
    SoundReuse
    DispatchedOnce
    ChangedTurnStopsGraph
    SuccessorsFollowLiteral
    ReusesOwnContext
PROPERTIES
    OrphanEndsReuse
    ImplementsContract
    CalmGraphsComplete
    ControlReturns
CHECK_DEADLOCK FALSE
