CONSTANTS
  Msgs = {m1}
  KeyCapable = FALSE
  MaxAttempts = 1
  MaxRuns = 1
SPECIFICATION Spec
INVARIANT KeyForwardedOnlyIfCapable
CHECK_DEADLOCK FALSE
