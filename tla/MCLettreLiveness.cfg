CONSTANTS
  Sends = {s1, s2, s3}
  MaxInFlight = 1
  SmtpErrors = {}
SPECIFICATION FairSpec
PROPERTIES
  TimedCallsReturn
  WaitersAreServed
CHECK_DEADLOCK FALSE
