----------------------- MODULE ErrorPropagation_proofs -----------------------
(***************************************************************************)
(* What holds of a failed send for every set of faults and every number of *)
(* Restate hops.  The lemmas say that the tables are total and that the    *)
(* caller's table undoes the worker's; the invariant carries the worker's  *)
(* side of that to the state in which the caller applies its own.          *)
(***************************************************************************)
EXTENDS ErrorPropagation, TLAPS

(* FromHttpStatus and the ingress table return a kind for any status. *)
LEMMA HttpKinds ==
  ASSUME NEW status \in Nat
  PROVE  /\ FromHttpStatus(status) \in ErrorKind
         /\ IngressErrorKind(status) \in ErrorKind
  BY DEF FromHttpStatus, IngressErrorKind, ErrorKind, RetryableKinds, TerminalKinds

(* Every adapter classifies each of its faults as some kind. *)
LEMMA ResendKinds ==
  ASSUME NEW error \in ResendFault
  PROVE  MapResendError(error) \in ErrorKind
  <1>1. CASE error.source = "Http"
    BY <1>1 DEF MapResendError, MapReqwestError, ResendFault, ReqwestFault,
                ErrorKind, RetryableKinds, TerminalKinds
  <1>2. CASE error.source = "Resend"
    <2>1. error.status \in Nat
      BY <1>2 DEF ResendFault
    <2> QED
      BY <1>2, <2>1, HttpKinds
         DEF MapResendError, ErrorKind, RetryableKinds, TerminalKinds
  <1>3. CASE error.source \in {"Parse", "Other", "RateLimit"}
    BY <1>3 DEF MapResendError, ErrorKind, RetryableKinds, TerminalKinds
  <1> QED
    BY <1>1, <1>2, <1>3 DEF ResendFault

LEMMA KindOfTotal ==
  ASSUME NEW f \in Fault
  PROVE  KindOf(f) \in ErrorKind
  <1>1. CASE f.by = "http"
    <2>1. f.status \in Nat
      BY <1>1 DEF Fault
    <2> QED
      BY <1>1, <2>1, HttpKinds DEF KindOf
  <1>2. CASE f.by = "resend"
    <2>1. f.error \in ResendFault
      BY <1>2 DEF Fault
    <2> QED
      BY <1>2, <2>1, ResendKinds DEF KindOf
  <1>3. CASE f.by = "smtp"
    BY <1>3 DEF KindOf, ClassifySmtpFacts, ErrorKind, RetryableKinds, TerminalKinds
  <1>4. CASE f.by = "cloudflare"
    <2>1. f.code \in CloudflareCode
      BY <1>4 DEF Fault
    <2> QED
      BY <1>4, <2>1 DEF KindOf, MapBindingError, CloudflareCode,
                        ErrorKind, RetryableKinds, TerminalKinds
  <1>5. CASE f.by = "attachment"
    BY <1>5 DEF KindOf, ClassifyOpendalError, FromResolveError,
                ErrorKind, RetryableKinds, TerminalKinds
  <1>6. CASE f.by \in {"lookup", "decode"}
    BY <1>6 DEF KindOf, ErrorKind, TerminalKinds
  <1> QED
    BY <1>1, <1>2, <1>3, <1>4, <1>5, <1>6 DEF Fault

(* The worker's terminal codes are 4xx codes of their own, or 500. *)
LEMMA TerminalCodesAreStatuses ==
  TerminalCodes \cup {NoCode} \subseteq Nat /\ NoCode \notin TerminalCodes
  BY DEF TerminalCodes, TransportTerminalCode, DecodeFailureCode,
         UnknownTransportCode, NoCode

(* The two tables of the Restate hop: what the caller makes of the worker's   *)
(* code for a kind that is not retried.                                       *)
LEMMA TablesMirror ==
  ASSUME NEW k \in TerminalKinds
  PROVE  /\ TransportTerminalCode(k) \in TerminalCodes
         /\ KindOfAnswer(TransportTerminalCode(k), TRUE)
              = IF k = "UnsupportedFeature" THEN "Validation" ELSE k
         /\ IsRetryable(KindOfAnswer(TransportTerminalCode(k), FALSE))
              => k = "Internal"
  BY DEF TerminalKinds, RetryableKinds, IsRetryable, TerminalCodes,
         TransportTerminalCode, KindOfAnswer, MapErrorResponse,
         TerminalInvocationKind, IngressErrorKind, FromHttpStatus, NoCode

LEMMA LookupMirrors ==
  /\ KindOfAnswer(UnknownTransportCode, TRUE) = "Validation"
  /\ ~IsRetryable(KindOfAnswer(UnknownTransportCode, FALSE))
  BY DEF UnknownTransportCode, KindOfAnswer, MapErrorResponse, NoCode,
         TerminalInvocationKind, IngressErrorKind, FromHttpStatus,
         IsRetryable, RetryableKinds

LEMMA AnswersAreKinds ==
  ASSUME NEW c \in Nat, NEW marked \in BOOLEAN
  PROVE  KindOfAnswer(c, marked) \in ErrorKind
  BY HttpKinds DEF KindOfAnswer, MapErrorResponse, TerminalInvocationKind,
                   ErrorKind, RetryableKinds, TerminalKinds

-------------------------------------------------------------------------------
(* A failed invocation waiting at the ingress carries the worker's code for   *)
(* a kind that is not retried, or the code of an unknown transport.           *)
CodeIsReported ==
  at \in {"ingress", "interrupted"} =>
    /\ reported \in TerminalKinds
    /\ \/ code = TransportTerminalCode(reported)
       \/ reported = "Validation" /\ code = UnknownTransportCode

IInv ==
  /\ TypeOK
  /\ CodeIsReported
  /\ TerminalStaysTerminal
  /\ CallerMirrorsWorker
  /\ UnmarkedConfusesOnlyInternal

(* What the caller makes of a code the invariant allows. *)
LEMMA AnswerOfReported ==
  ASSUME CodeIsReported, at = "ingress"
  PROVE  /\ KindOfAnswer(code, TRUE)
              = IF reported = "UnsupportedFeature" THEN "Validation" ELSE reported
         /\ ~IsRetryable(KindOfAnswer(code, TRUE))
         /\ IsRetryable(KindOfAnswer(code, FALSE)) => reported = "Internal"
  <1>1. reported \in TerminalKinds
    BY DEF CodeIsReported
  <1>2. CASE code = TransportTerminalCode(reported)
    <2>1. /\ KindOfAnswer(code, TRUE)
               = IF reported = "UnsupportedFeature" THEN "Validation" ELSE reported
          /\ IsRetryable(KindOfAnswer(code, FALSE)) => reported = "Internal"
      BY <1>1, <1>2, TablesMirror
    <2> QED
      BY <2>1, <1>1 DEF IsRetryable, RetryableKinds, TerminalKinds
  <1>3. CASE reported = "Validation" /\ code = UnknownTransportCode
    BY <1>3, LookupMirrors DEF IsRetryable, RetryableKinds
  <1> QED
    BY <1>2, <1>3 DEF CodeIsReported

LEMMA InitIInv == Init => IInv
  <1> SUFFICES ASSUME Init PROVE IInv
    OBVIOUS
  <1>1. fault \in Fault /\ kind \in ErrorKind
    BY KindOfTotal, FaultsAssumption DEF Init
  <1>2. CASE fault.by \in {"lookup", "decode"}
    <2>1. /\ at = "ingress" /\ code \in {400, 404} /\ kind = "Validation"
          /\ code = IF fault.by = "lookup" THEN 404 ELSE 400
      BY <1>2 DEF Init, WorkerCode, KindOf, UnknownTransportCode, DecodeFailureCode
    <2>2. TypeOK
      BY <1>1, <2>1 DEF Init, TypeOK, Place, TerminalCodes, UnknownTransportCode,
                        DecodeFailureCode, NoCode
    <2>3. CodeIsReported
      BY <2>1 DEF Init, CodeIsReported, TerminalKinds, TransportTerminalCode,
                  UnknownTransportCode
    <2> QED
      BY <2>1, <2>2, <2>3 DEF IInv, TerminalStaysTerminal, CallerMirrorsWorker,
                              UnmarkedConfusesOnlyInternal
  <1>3. CASE fault.by \notin {"lookup", "decode"}
    BY <1>1, <1>3 DEF Init, IInv, TypeOK, Place, CodeIsReported,
                      TerminalStaysTerminal, CallerMirrorsWorker,
                      UnmarkedConfusesOnlyInternal
  <1> QED
    BY <1>2, <1>3

LEMMA StepIInv == IInv /\ [Next]_vars => IInv'
  <1> SUFFICES ASSUME IInv, [Next]_vars PROVE IInv'
    OBVIOUS
  <1> USE DEF IInv
  <1>1. CASE WorkerRetries
    BY <1>1 DEF WorkerRetries, TypeOK, Place, CodeIsReported, TerminalStaysTerminal,
                CallerMirrorsWorker, UnmarkedConfusesOnlyInternal
  <1>2. CASE WorkerRunsAgain
    BY <1>2 DEF WorkerRunsAgain, TypeOK, Place, CodeIsReported,
                TerminalStaysTerminal, CallerMirrorsWorker,
                UnmarkedConfusesOnlyInternal
  <1>3. CASE WorkerFails
    <2>1. kind \in TerminalKinds
      BY <1>3 DEF WorkerFails, KeptByWorker, IsRetryable, TypeOK, ErrorKind
    <2>2. code' \in TerminalCodes /\ code' # NoCode
      BY <1>3, <2>1, TablesMirror, TerminalCodesAreStatuses DEF WorkerFails
    <2>3. TypeOK'
      BY <1>3, <2>1, <2>2 DEF WorkerFails, TypeOK, Place
    <2>4. CodeIsReported'
      BY <1>3, <2>1 DEF WorkerFails, CodeIsReported
    <2> QED
      BY <1>3, <2>3, <2>4 DEF WorkerFails, TerminalStaysTerminal,
                              CallerMirrorsWorker, UnmarkedConfusesOnlyInternal
  <1>4. CASE CallerClassifies
    <2>1. kind' \in ErrorKind
      BY <1>4, AnswersAreKinds, TerminalCodesAreStatuses DEF CallerClassifies, TypeOK
    <2>2. TypeOK'
      BY <1>4, <2>1 DEF CallerClassifies, TypeOK, Place
    <2>3. /\ TerminalStaysTerminal'
          /\ CallerMirrorsWorker'
          /\ UnmarkedConfusesOnlyInternal'
      BY <1>4, AnswerOfReported
         DEF CallerClassifies, TypeOK, TerminalStaysTerminal, CallerMirrorsWorker,
             UnmarkedConfusesOnlyInternal
    <2> QED
      BY <1>4, <2>2, <2>3 DEF CallerClassifies, CodeIsReported
  <1>5. CASE AnswerInterrupted
    BY <1>5 DEF AnswerInterrupted, MapReqwestError, TypeOK, Place, ErrorKind,
                RetryableKinds, CodeIsReported, TerminalStaysTerminal,
                CallerMirrorsWorker, UnmarkedConfusesOnlyInternal
  <1>6. CASE CallerAttachesAgain
    BY <1>6 DEF CallerAttachesAgain, TypeOK, Place, CodeIsReported,
                TerminalStaysTerminal, CallerMirrorsWorker,
                UnmarkedConfusesOnlyInternal
  <1>7. CASE NextHop
    BY <1>7 DEF NextHop, TypeOK, Place, CodeIsReported, TerminalStaysTerminal,
                CallerMirrorsWorker, UnmarkedConfusesOnlyInternal
  <1>8. CASE UNCHANGED vars
    BY <1>8 DEF vars, TypeOK, CodeIsReported, TerminalStaysTerminal,
                CallerMirrorsWorker, UnmarkedConfusesOnlyInternal
  <1> QED
    BY <1>1, <1>2, <1>3, <1>4, <1>5, <1>6, <1>7, <1>8 DEF Next

THEOREM Invariance == Spec => []IInv
  BY InitIInv, StepIInv, PTL DEF Spec

(* Every table is total: whatever a transport, the worker or the ingress      *)
(* reports, the failure always has a kind, and a failed invocation a code.    *)
THEOREM TypeCorrect == Spec => []TypeOK
  <1>1. IInv => TypeOK
    BY DEF IInv
  <1> QED
    BY <1>1, Invariance, PTL

(* A failure that no retry fixes (service.rs ends the invocation with a code) *)
(* is never handed back by RestateTransport as one to retry.                  *)
THEOREM TerminalRemains == Spec => []TerminalStaysTerminal
  <1>1. IInv => TerminalStaysTerminal
    BY DEF IInv
  <1> QED
    BY <1>1, Invariance, PTL

(* RestateTransport reports the kind the worker's transport reported, except  *)
(* for the unsupported features that share a code with validation failures.   *)
THEOREM MirrorsWorker == Spec => []CallerMirrorsWorker
  <1>1. IInv => CallerMirrorsWorker
    BY DEF IInv
  <1> QED
    BY <1>1, Invariance, PTL

(* Against a Restate that does not mark invocation errors, internal failures  *)
(* are the only terminal ones RestateTransport takes for transient.           *)
THEOREM UnmarkedIsClose == Spec => []UnmarkedConfusesOnlyInternal
  <1>1. IInv => UnmarkedConfusesOnlyInternal
    BY DEF IInv
  <1> QED
    BY <1>1, Invariance, PTL
===============================================================================
