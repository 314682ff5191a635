SPECIFICATION FairSpec
CONSTANTS
    Requests <- MCRequests
    Answers <- MCAnswers
    Size = 8
    PktSize = 4
    RxSize = 10
    TxSize = 2
    TxFifo = 8
    MaxFaults = 2
INVARIANT AcceptedIsSent
INVARIANT AckedIsTaken
INVARIANT AnswersMatch
PROPERTY RequestAnswered
PROPERTY ClosedEndsSession
CHECK_DEADLOCK FALSE
