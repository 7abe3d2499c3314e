\* Three sweeps, one event, two faults, fair; a sweep is faster than the recovery age.
SPECIFICATION FairSpec
CONSTANTS
    d1 = d1
    d2 = d2
    d3 = d3
    e1 = e1
    Dispatchers = {d1, d2, d3}
    Events = {e1}
    NoEvent = NoEvent
    MaxAttempts = 3
    MaxDelay = 2
    RecoverAge = 2
    MaxLag = 1
    MaxFaults = 2
INVARIANTS TypeOK QueuedHasPath OneHolder PublishedOnce
PROPERTIES SettledStays QueuedIsSettled
CHECK_DEADLOCK FALSE
