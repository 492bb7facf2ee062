SPECIFICATION MCSpec
CONSTANTS
    Sockets = {"v", "w"}
    Devices = {"d", "e"}
    Summaries = {1, 2}
    AskerOf <- MCAskerOf
    MaxRegisters = 2
    MaxRefusals = 1
    Listeners = {"l"}
    ChatOf <- MCChatOf
    Capacity = 1
    MaxDrops = 1
    MaxMisreads = 1
    MaxFetchFaults = 1
INVARIANTS
    DeliveryTypeOK
    ClientsAreCurrent
    PushIsForDevice
    FeedIsGapless
    NothingMissed
    SummaryIsKept
PROPERTIES
    ShownIsStored
    LeftIsNoticed
    NewestIsFed
CHECK_DEADLOCK FALSE
