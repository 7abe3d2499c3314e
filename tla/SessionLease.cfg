\* Two workers, one session, one fault: crash, failed kill or lost transaction.
SPECIFICATION FairSpec
CONSTANTS
    w1 = w1
    w2 = w2
    s1 = s1
    Workers = {w1, w2}
    Sessions = {s1}
    NoWorker = NoWorker
    NoSession = NoSession
    MaxFaults = 1
INVARIANTS TypeOK OneRunner OneProcess AnswerIffSucceeded ProcessAttended
PROPERTIES FinalOutcome LiveLeaseProtected ImplementsExecution FinishesInTerminalState CancelStopsProvider
CHECK_DEADLOCK FALSE
