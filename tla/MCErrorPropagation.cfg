CONSTANTS
  Faults <- MCFaults
  MaxHops = 3
SPECIFICATION Spec
INVARIANTS
  TypeOK
  TerminalStaysTerminal
  CallerMirrorsWorker
  UnmarkedConfusesOnlyInternal
CHECK_DEADLOCK FALSE
