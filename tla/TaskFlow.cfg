\* One review, two workers, two decisions, three faults.
SPECIFICATION FairSpec
CONSTANTS
    Requests = {"r1"}
    Purpose <- OneReview
    Deciders = {"d1", "d2"}
    Workers = {"w1", "w2"}
    NoSession = "no session"
    NoWorker = "no worker"
    MaxEdits = 2
    MaxFaults = 3
INVARIANTS TypeOK OneWorkerPerSession AcceptedIsFresh
PROPERTIES ClaimedEnds
CHECK_DEADLOCK FALSE
