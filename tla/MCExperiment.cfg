CONSTANTS
    base = base
    cand = cand
    again = again
    stray = stray
    head = head
    foreign = foreign
    None = None
    Torn = Torn
    Altered = Altered
    Runs = {base, cand, again, stray}
    VariantOf <- MCVariantOf
    HeadOf <- MCHeadOf
    Wanted = head
    Cases = 1
    MaxStarts = 2
    MaxFaults = 2
SPECIFICATION FairSpec
PROPERTIES
    CoordinatorEnds
INVARIANTS
    
    TrialsRunOnce
    PauseStops
CHECK_DEADLOCK FALSE
