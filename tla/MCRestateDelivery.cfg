CONSTANTS
  Msgs = {m1}
  KeyCapable = TRUE
  MaxAttempts = 2
  MaxRuns = 2
SPECIFICATION Spec
INVARIANTS
  TypeOK
  AtMostOneEmailPerKey
  OneLiveInvocationPerKey
  SuccessIsReal
  TerminalMeansOver
PROPERTIES
  JournalIsFinal
  ImplementsHandoff
CHECK_DEADLOCK FALSE
