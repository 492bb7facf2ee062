SPECIFICATION FairSpec
CONSTANTS
    Children <- MCChildren
    Waited <- MCWaited
    Interrupts = {"parent"}
    MaxExits = 0
PROPERTIES
    InterruptEnds
CHECK_DEADLOCK FALSE
