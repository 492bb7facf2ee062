SPECIFICATION FairSpec
CONSTANTS
    Chats <- MCChats
    Ids = {1,2}
    ChatOf <- MCChatOf
    TsOf <- MCTsOf
    Capacity = 1
    MaxClock = 1
    MaxSends = 3
    MaxCrashes = 0
    MaxSaveFaults = 0
    MaxReadFaults = 0
    MaxBacksteps = 0
PROPERTIES
    HeardIsConsidered
CHECK_DEADLOCK FALSE
