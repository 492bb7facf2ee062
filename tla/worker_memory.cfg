SPECIFICATION MCSpec
CONSTANTS
    Chats <- MCChats
    Ids = {1,2,3}
    ChatOf <- MCChatOf
    TsOf <- MCTsOf
    SizeOf <- MCSizeOf
    Capacity = 2
    MaxClock = 2
    MaxSends = 3
    MaxCrashes = 1
    MaxSaveFaults = 1
    MaxReadFaults = 1
    MaxBacksteps = 1
    Backlog = 1
    MaxFaults = 1
INVARIANTS
    PathTypeOK
    NothingForgotten
    ConsideredIsCovered
    RecentInOrder
    MemoryIsOwn
PROPERTIES
    ImplementsChatMemory
    TakenIsHandled
    BacklogIsServed
CHECK_DEADLOCK FALSE
