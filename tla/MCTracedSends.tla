----------------------------- MODULE MCTracedSends -----------------------------
EXTENDS TracedSends, TLC

CONSTANTS s1, s2, s3, t1, t2

MCTransportOf == (s1 :> t1) @@ (s2 :> t1) @@ (s3 :> t2)
=============================================================================
