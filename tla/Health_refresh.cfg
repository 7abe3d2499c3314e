\* One model, one worker, two requests, nothing fails.
CONSTANTS
  Workers = {w1}
  Modes = {"model"}
  Candidates = 1
  Conditions = {"works", "denied"}
  MaxRequests = 2
  MaxFaults = 0
  MaxChanges = 0
SPECIFICATION Spec
INVARIANT AskedIsQueued
