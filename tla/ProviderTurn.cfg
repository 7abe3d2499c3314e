\* Both protocols, every cut into chunks, one restart, every timer.
SPECIFICATION FairSpec
CONSTANTS
    Outputs <- Printed
    Kind <- Kinds
    Size <- Sizes
    Wide <- WideAt
    Limit = 4
    AnswerLimit = 3
INVARIANTS TypeOK AnswerWhole VerdictHeeded
PROPERTIES TurnEnds
CHECK_DEADLOCK FALSE
