SPECIFICATION FairSpec
CONSTANTS
    Clients <- MCClients
    Backlog = 1
    MaxLines = 1
    MaxFailures = 1
    MaxHangs = 1
    MaxQuits = 1
INVARIANTS
    TypeOK
    OneLiveRequest
    EndIsExplained
    AnsweredOnce
PROPERTIES
    RequestsEnd
CHECK_DEADLOCK FALSE
