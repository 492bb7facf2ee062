SPECIFICATION FairSpec
CONSTANTS
    Children <- MCChildren
    Waited <- MCWaited
    Interrupts = {"group", "parent"}
    MaxExits = 3
INVARIANTS
    CleanShutdownLeavesNoChild
PROPERTIES
    ShutdownEnds
CHECK_DEADLOCK FALSE
