CONSTANTS
  Sends = {s1}
  MaxInFlight = 1
  SmtpErrors <- MCSmtpErrors
SPECIFICATION Spec
INVARIANT TimeoutBoundsProviderCall
CHECK_DEADLOCK FALSE
