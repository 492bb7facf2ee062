SPECIFICATION Spec
CONSTANTS
    Chats <- MCChats
    Ids = {1,4}
    ChatOf <- MCChatOf
    RoleOf <- MCRoleOf
    TsOf <- MCTsOf
    Partitions <- MCPartitions
    PartitionOf <- MCPartitionOf
    WindowSize = 2
    MaxLog = 2
    MaxCrashes = 0
    MaxFaults = 1
    MaxDeletes = 1
INVARIANTS
    TornIsExplained
    QuietDeleteEmpties
PROPERTIES
    OnlyDeleteErases
CHECK_DEADLOCK FALSE
