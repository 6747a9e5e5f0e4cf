CONSTANTS
  Sends = {s1, s2, s3}
  MaxInFlight = 2
  SmtpErrors <- MCSmtpErrors
SPECIFICATION Spec
INVARIANTS
  TypeOK
  PermitsConserved
  NoIdlePermit
  WaitersAgree
PROPERTY ImplementsHandoff
CHECK_DEADLOCK FALSE
