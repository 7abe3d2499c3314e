\* A provider's row, two workers, both timers, one request, one fault, one change.
CONSTANTS
  Workers = {w1, w2}
  Modes = {"refresh", "auth"}
  Candidates = 2
  Conditions = {"works", "denied"}
  MaxRequests = 1
  MaxFaults = 1
  MaxChanges = 1
SPECIFICATION FairSpec
INVARIANTS TypeOK ProbesExclude MarkIsHeld
CHECK_DEADLOCK FALSE
PROPERTY GoneIsNoticed
