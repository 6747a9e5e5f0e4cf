--------------------------- MODULE ErrorPropagation ---------------------------
(***************************************************************************)
(* One failed send on its way back to the application.  A transport of the *)
(* worker classifies the fault; the worker retries it inside Restate or    *)
(* fails the invocation with a terminal code; the caller's RestateTransport *)
(* turns the ingress answer into a kind again.  That caller may itself be  *)
(* the transport of another worker (a chained RestateTransport), so the    *)
(* same failure may cross several hops.                                    *)
(***************************************************************************)
EXTENDS ErrorKinds

CONSTANTS
  Faults,    \* the faults the first transport may meet
  MaxHops    \* bound: the number of chained Restate hops

(* A fault, by the adapter that meets it.  "lookup" and "decode" are the    *)
(* worker's own failures, which no transport classifies.                    *)
Fault ==
  [by : {"http"}, status : Nat]
    \cup [by : {"resend"}, error : ResendFault]
    \cup [by : {"smtp"}, facts : SUBSET SmtpFact, status : Nat]
    \cup [by : {"cloudflare"}, code : CloudflareCode]
    \cup [by : {"attachment"}, error : OpendalKind, temporary : BOOLEAN]
    \cup [by : {"lookup", "decode"}]

ASSUME FaultsAssumption == Faults \subseteq Fault
ASSUME HopsAssumption == MaxHops \in Nat

VARIABLES
  fault,     \* what went wrong, at the first transport
  tagged,    \* Restate marks invocation errors (1.7.4 and later)
  at,        \* where the failure is now
  kind,      \* the kind the current holder reports
  code,      \* the terminal code of the last invocation that failed
  reported,  \* the kind the last worker turned into that code
  hops       \* the Restate hops crossed so far

vars == <<fault, tagged, at, kind, code, reported, hops>>

Place == {"transport", "retrying", "ingress", "interrupted", "caller"}

KindOf(f) ==
  CASE f.by = "http"       -> FromHttpStatus(f.status)
    [] f.by = "resend"     -> MapResendError(f.error)
    [] f.by = "smtp"       -> ClassifySmtpFacts(f.facts, f.status)
    [] f.by = "cloudflare" -> MapBindingError(f.code)
    [] f.by = "attachment" ->
         FromResolveError(ClassifyOpendalError(f.error, f.temporary))
    [] f.by \in {"lookup", "decode"} -> "Validation"

(* Mutant: a failure to decode the request ends the invocation without a code. *)
CodesLookupsOnly(f) == IF f.by = "lookup" THEN UnknownTransportCode ELSE NoCode

WorkerCode(f) == IF f.by = "lookup" THEN UnknownTransportCode ELSE DecodeFailureCode

Init ==
  /\ fault \in Faults
  /\ tagged \in BOOLEAN
  /\ hops = 0
  /\ kind = KindOf(fault)
  /\ reported = kind
  /\ IF fault.by \in {"lookup", "decode"}
     THEN at = "ingress" /\ code = WorkerCode(fault)
     ELSE at = "transport" /\ code = NoCode

(* Mutant: the worker fails the invocation on any error. *)
KeepsNothing(k) == FALSE

(* The disposition test of the worker. *)
KeptByWorker(k) == IsRetryable(k)

(* transport_error_to_handler_error: a retryable failure stays with Restate, *)
(* which runs the invocation again.                                          *)
WorkerRetries ==
  /\ at = "transport"
  /\ KeptByWorker(kind)
  /\ at' = "retrying"
  /\ UNCHANGED <<fault, tagged, kind, code, reported, hops>>

(* The next run of the invocation may meet any fault. *)
WorkerRunsAgain ==
  /\ at = "retrying"
  /\ at' = "transport"
  /\ kind' \in ErrorKind
  /\ UNCHANGED <<fault, tagged, code, reported, hops>>

(* ... and any other failure ends the invocation with a terminal code. *)
WorkerFails ==
  /\ at = "transport"
  /\ ~KeptByWorker(kind)
  /\ at' = "ingress"
  /\ code' = TransportTerminalCode(kind)
  /\ reported' = kind
  /\ UNCHANGED <<fault, tagged, kind, hops>>

(* Mutant: the caller goes by the HTTP status even when the answer says that *)
(* the invocation failed.                                                    *)
ClassifiesByStatus(c, marked) == IngressErrorKind(c)

(* Mutant: a refused credential (401, 403) is taken for a transient failure. *)
RetriesUnmarkedCredentials(c, marked) ==
  IF ~marked /\ c \in {401, 403} THEN "TransientProvider"
  ELSE MapErrorResponse(c, c, marked)

(* The HTTP status of the answer is the terminal code. *)
KindOfAnswer(c, marked) == MapErrorResponse(c, c, marked)

CallerClassifies ==
  /\ at = "ingress"
  /\ at' = "caller"
  /\ kind' = KindOfAnswer(code, tagged)
  /\ hops' = hops + 1
  /\ UNCHANGED <<fault, tagged, code, reported>>

(* The answer's body cannot be read: the caller sees a network failure, and  *)
(* its next attempt (with an idempotency key) attaches to the same invocation. *)
AnswerInterrupted ==
  /\ at = "ingress"
  /\ at' = "interrupted"
  /\ \E f \in {"timeout", "other"} : kind' = MapReqwestError(f)
  /\ UNCHANGED <<fault, tagged, code, reported, hops>>

CallerAttachesAgain ==
  /\ at = "interrupted"
  /\ IsRetryable(kind)
  /\ at' = "ingress"
  /\ UNCHANGED <<fault, tagged, kind, code, reported, hops>>

(* The caller is the transport of a second worker. *)
NextHop ==
  /\ at = "caller"
  /\ hops < MaxHops
  /\ at' = "transport"
  /\ UNCHANGED <<fault, tagged, kind, code, reported, hops>>

Next ==
  \/ WorkerRetries
  \/ WorkerRunsAgain
  \/ WorkerFails
  \/ CallerClassifies
  \/ AnswerInterrupted
  \/ CallerAttachesAgain
  \/ NextHop

Spec == Init /\ [][Next]_vars

-------------------------------------------------------------------------------
TypeOK ==
  /\ fault \in Fault
  /\ tagged \in BOOLEAN
  /\ at \in Place
  /\ kind \in ErrorKind
  /\ reported \in ErrorKind
  /\ code \in TerminalCodes \cup {NoCode}
  /\ hops \in Nat
  /\ at \in {"ingress", "interrupted", "caller"} => code # NoCode

(* A failure that no retry fixes is never handed to the application as one    *)
(* to retry, however many Restate hops it crosses: the worker's code table    *)
(* (service.rs) and the caller's (email-transport-restate) are inverses as    *)
(* far as retrying goes.                                                      *)
TerminalStaysTerminal ==
  (tagged /\ at = "caller") => ~IsRetryable(kind)

(* The caller reports the kind the worker's transport reported, so the two    *)
(* tables mirror each other ("Mirrors the worker's terminal-code mapping"),   *)
(* except for an unsupported feature, which shares its code with validation   *)
(* failures.  A retryable kind never ends an invocation in the first place.   *)
CallerMirrorsWorker ==
  (tagged /\ at = "caller") =>
    kind = IF reported = "UnsupportedFeature" THEN "Validation" ELSE reported

(* Without the discriminator (Restate 1.7.0 to 1.7.3), where a caller goes by *)
(* the HTTP status, the only terminal failure it mistakes for a transient one *)
(* is an internal one.                                                        *)
UnmarkedConfusesOnlyInternal ==
  (~tagged /\ at = "caller" /\ IsRetryable(kind)) => reported = "Internal"
===============================================================================
