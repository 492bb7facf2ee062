SPECIFICATION Spec
CONSTANTS
    Chats <- MCChats
    Ids = {1,2}
    ChatOf <- MCChatOf
    RoleOf <- MCRoleOf
    TsOf <- MCTsOf
    Partitions <- MCPartitions
    PartitionOf <- MCPartitionOf
    WindowSize = 2
    MaxLog = 2
    MaxCrashes = 1
    MaxFaults = 0
    MaxDeletes = 0
INVARIANTS
    WindowKeepsLast
CHECK_DEADLOCK FALSE
