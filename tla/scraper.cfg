SPECIFICATION FairSpec
CONSTANTS
    Searches = {1, 2}
    Take = 2
    HttpLimit = 2
    ClientLimit = 4
    MaxCrashes = 1
INVARIANTS
    AnswerIsDue
    AnswerIsWhole
PROPERTIES
    HandlerEnds
CHECK_DEADLOCK FALSE
