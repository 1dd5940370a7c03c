CONSTANTS
    s1 = s1
    s2 = s2
    p1 = p1
    p2 = p2
    p3 = p3
    p4 = p4
    None = None
    Sessions = {s1}
    WithContext = {s1}
    Pids = {p1, p2}
    Lines <- Talk
    Instances = {p1, p2, None}
    MaxFaults = 2
SPECIFICATION FairSpec

    
PROPERTIES
    ClosingEnds
CHECK_DEADLOCK FALSE
