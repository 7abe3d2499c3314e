\* Three executions, two polls in flight, two lost requests; the user waits
\* for each send and retry.
SPECIFICATION FairSpec
CONSTANTS
    Slots = {"s1", "s2"}
    MaxExecutions = 3
    MaxFaults = 2
    Overlapping = FALSE
INVARIANTS TypeOK ShownBelongs
PROPERTIES PendingEnds
CHECK_DEADLOCK FALSE
