SPECIFICATION Spec
CONSTANTS
  Appenders = {a1, a2}
  Pieces = 2
  MaxAppends = 2
  MaxFaults = 0
  MaxCrashes = 0
INVARIANTS LoadsAtRest
CHECK_DEADLOCK FALSE
