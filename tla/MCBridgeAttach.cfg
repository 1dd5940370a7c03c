CONSTANTS
    s1 = s1
    s2 = s2
    p1 = p1
    p2 = p2
    p3 = p3
    p4 = p4
    None = None
    Sessions = {s1, s2}
    WithContext = {s1, s2}
    Pids = {p1, p2, p3, p4}
    Lines <- Greeting
    Instances = {None}
    MaxFaults = 1
SPECIFICATION Spec
PROPERTIES
    AttachesToLive
    AttachIsUnambiguous
SYMMETRY Symmetric
CHECK_DEADLOCK FALSE
