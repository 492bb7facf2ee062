SPECIFICATION FairSpec
CONSTANTS
    r1 = r1
    Requests <- OneRequest
    Answers <- LongAnswers
    MaxLost = 1
    MaxDeaths = 1
INVARIANTS
    TypeOK
    TokensInOrder
    AssistantComplete
PROPERTIES
    QuestionFirst
    AnswerIsSaved
CHECK_DEADLOCK FALSE
