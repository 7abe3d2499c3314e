\* Two sessions one after another, crashes, a reused pid and a failed look-up or kill.
SPECIFICATION FairSpec
CONSTANTS
    Launchers = {"l1", "l2"}
    Stops = {}
    Strays = {"l1"}
    Forking = {}
    Restarting = {"l1"}
    Windows = TRUE
    Sequential = TRUE
    MaxReuse = 1
    MaxFaults = 1
    NoFile = NoFile
    NoProcess = NoProcess
INVARIANTS TypeOK NoOrphan
PROPERTIES NeverKillsStranger HalfSessionEnds
CHECK_DEADLOCK FALSE
