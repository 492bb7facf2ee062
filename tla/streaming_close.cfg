SPECIFICATION FairSpec
CONSTANTS
    Clients <- MCClients
    Backlog = 1
    MaxLines = 1
    MaxFailures = 1
    MaxHangs = 0
    MaxQuits = 0
PROPERTIES
    CloseIsSeen
CHECK_DEADLOCK FALSE
