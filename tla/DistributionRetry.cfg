CONSTANTS
  MaxPackages = 4
  MaxFaults = 3
SPECIFICATION Spec
INVARIANTS
  RecoveryCanBeRetried
CHECK_DEADLOCK FALSE
