SPECIFICATION FairSpec
CONSTANTS
    Chats <- MCChats
    Ids = {1,2,3}
    ChatOf <- MCChatOf
    RoleOf <- MCRoleOf
    TsOf <- MCTsOf
    Partitions <- MCPartitions
    PartitionOf <- MCPartitionOf
    WindowSize = 1
    MaxLog = 2
    MaxCrashes = 1
    MaxFaults = 1
    MaxDeletes = 0
INVARIANTS
    ConsumedIsPersisted
    LossIsBounded
    WindowIsLogTail
    FeedFollowsLog
PROPERTIES
    ProducedIsHandled
CHECK_DEADLOCK FALSE
