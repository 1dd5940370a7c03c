CONSTANTS
    p1 = p1
    p2 = p2
    bundle = bundle
    manifest = manifest
    installer = installer
    oldBundle = oldBundle
    Earlier = Earlier
    None = None
    Publishers = {p1, p2}
    Leftovers = {oldBundle}
    FilesOf <- BothFiles
    MaxAttempts = 2
    MaxFaults <- MCMaxFaults
SPECIFICATION FairSpec
INVARIANTS
    SoundRelease
    FailureLosesOneFile
    PublishesItsFiles
PROPERTIES
    ImplementsPublication
    EventuallyPublishes
CHECK_DEADLOCK FALSE
