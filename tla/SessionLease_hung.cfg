\* One worker, one session: the exit of the process is missed.
SPECIFICATION FairSpec
CONSTANTS
    w1 = w1
    s1 = s1
    Workers = {w1}
    Sessions = {s1}
    NoWorker = NoWorker
    NoSession = NoSession
    MaxFaults = 0
PROPERTIES TimeoutEndsJob
CHECK_DEADLOCK FALSE
