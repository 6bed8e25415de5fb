CONSTANTS
  MaxRestarts = 2
  MaxFaults = 4
SPECIFICATION Spec
INVARIANT CrashFailsTheUnit
CHECK_DEADLOCK FALSE
