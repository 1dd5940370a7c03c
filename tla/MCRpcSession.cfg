CONSTANTS
    None = None
    Script <- MCScript
    MaxInbox = 2
    MaxReads = 3
SPECIFICATION FairSpec
INVARIANTS
    SoundSession
    NoServerLeft

    
CHECK_DEADLOCK FALSE
