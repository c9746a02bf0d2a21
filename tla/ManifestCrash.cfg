SPECIFICATION Spec
CONSTANTS
  Appenders = {a1, a2}
  Pieces = 2
  MaxAppends = 4
  MaxFaults = 1
  MaxCrashes = 2
INVARIANTS LoadExact FileIdsUnique
SYMMETRY Symmetry
CHECK_DEADLOCK FALSE
