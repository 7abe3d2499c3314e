\* One review, one worker, no fault.
SPECIFICATION Spec
CONSTANTS
    Requests = {"r1"}
    Purpose <- OneReview
    Deciders = {"d1"}
    Workers = {"w1"}
    NoSession = "no session"
    NoWorker = "no worker"
    MaxEdits = 0
    MaxFaults = 0
PROPERTIES EndedStaysEnded
CHECK_DEADLOCK FALSE
