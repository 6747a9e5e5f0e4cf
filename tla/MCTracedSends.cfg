SPECIFICATION FairSpec
CONSTANTS
    s1 = s1
    s2 = s2
    s3 = s3
    t1 = t1
    t2 = t2
    Sends = {s1, s2, s3}
    RawSends = {s2}
    Transports = {t1, t2}
    TransportOf <- MCTransportOf
    MaxIndex = 8
    Foreign = {2}
INVARIANTS
    ReportedPathsHold
    OneEnding
PROPERTIES
    NothingOverwritten
    NamingEnds
CHECK_DEADLOCK FALSE
