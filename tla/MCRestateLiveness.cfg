CONSTANTS
  Msgs = {m1}
  KeyCapable = TRUE
  MaxAttempts = 1
  MaxRuns = 3
SPECIFICATION FairSpec
PROPERTY AcceptedInvocationsEnd
CHECK_DEADLOCK FALSE
