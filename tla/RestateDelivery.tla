--------------------------- MODULE RestateDelivery ---------------------------
(***************************************************************************)
(* One email queued through Restate: the caller's RestateTransport         *)
(* (email-transport-restate), Restate itself, the worker's Email.send      *)
(* handler (restate-email) and the provider behind the worker's transport. *)
(*                                                                         *)
(* Every hop may lose an answer.  The caller retries failed sends, and     *)
(* Restate runs an invocation again after a crash or a retryable error, so *)
(* an email may be asked for many times.  The idempotency key travels with *)
(* it: in the ingress header, where Restate recognises the caller's        *)
(* retries, and in the payload, where the provider recognises the worker's.*)
(*                                                                         *)
(* Restate and the provider are external: Restate journals the result of   *)
(* ctx.run, never runs a journaled step again, and remembers the           *)
(* invocation of a key until some time after it has completed.             *)
(***************************************************************************)
EXTENDS ErrorKinds, Sequences, FiniteSets

CONSTANTS
  Msgs,          \* emails, each with an idempotency key of its own or none
  KeyCapable,    \* the worker's transport advertises, and the provider honors, keys
  MaxAttempts,   \* bound: sends of one email by the application
  MaxRuns        \* bound: runs of one invocation

ASSUME MsgsAssumption == IsFiniteSet(Msgs)
ASSUME KeyCapableAssumption == KeyCapable \in BOOLEAN
ASSUME BoundsAssumption == MaxAttempts \in Nat \ {0} /\ MaxRuns \in Nat \ {0}

VARIABLES
  plan,       \* how each email is sent: mode, key, and defects of the send
  request,    \* the ingress request of each attempt
  boundTo,    \* the invocation an accepted request created or attached to
  outcome,    \* what each attempt returned
  inv,        \* the invocations, in the order of their creation
  known,      \* the invocation Restate remembers for the key of each email
  calls,      \* provider calls on their way to the provider
  taken,      \* provider calls the provider has answered positively
  delivered   \* those among them that made it send an email

restate == <<inv, known>>
provider == <<calls, taken, delivered>>
vars == <<plan, request, boundTo, outcome, restate, provider>>

Attempts == Msgs \X (1..MaxAttempts)
NoInvocation == 0
Success == 200

Plan ==
  [mode : {"queued", "sent"},
   keyed : BOOLEAN,
   defect : {"none", "unserializable", "unbuildable"}]
    \cup [mode : {"sent"}, keyed : BOOLEAN, defect : {"delayed"}]

Invocation ==
  [msg : Msgs,
   phase : {"ready", "calling", "journaled", "done"},
   runs : 0..MaxRuns,
   journal : TerminalCodes \cup {NoCode, Success}]

Invocations == 1..Len(inv)

(* A call of the worker's transport, with the key it was given. *)
ProviderCall(i) ==
  [inv : {i}, msg : {inv[i].msg}, run : 1..inv[i].runs, keyed : BOOLEAN]

TypeOK ==
  /\ plan \in [Msgs -> Plan]
  /\ request \in [Attempts -> {"none", "sent", "accepted", "refused", "lost"}]
  /\ inv \in Seq(Invocation)
  /\ boundTo \in [Attempts -> Invocations \cup {NoInvocation}]
  /\ outcome \in [Attempts -> ErrorKind \cup {"none", "ok", "dropped"}]
  /\ known \in [Msgs -> Invocations \cup {NoInvocation}]
  /\ calls \cup taken \subseteq UNION {ProviderCall(i) : i \in Invocations}
  /\ delivered \subseteq taken

Init ==
  /\ plan \in [Msgs -> Plan]
  /\ request = [a \in Attempts |-> "none"]
  /\ boundTo = [a \in Attempts |-> NoInvocation]
  /\ outcome = [a \in Attempts |-> "none"]
  /\ inv = <<>>
  /\ known = [m \in Msgs |-> NoInvocation]
  /\ calls = {}
  /\ taken = {}
  /\ delivered = {}

-------------------------------------------------------------------------------
(* The caller.  An attempt is one RestateTransport::send. *)

Open(a) == request[a] # "none" /\ outcome[a] = "none"

Ends(a, value) == outcome' = [outcome EXCEPT ![a] = value]

(* The application sends again after an error it may retry, or after it     *)
(* dropped the send.                                                        *)
MaySend(m, n) ==
  /\ request[<<m, n>>] = "none"
  /\ outcome[<<m, n>>] = "none"
  /\ n > 1 => \/ outcome[<<m, n - 1>>] = "dropped"
              \/ IsRetryable(outcome[<<m, n - 1>>])

(* endpoint_for, the serialization of the options, the request builder: a   *)
(* send they refuse reaches nobody.                                         *)
LocalError(defect) ==
  IF defect = "unserializable" THEN "Internal" ELSE "Validation"

RefuseLocally(m, n) ==
  /\ MaySend(m, n)
  /\ plan[m].defect # "none"
  /\ Ends(<<m, n>>, LocalError(plan[m].defect))
  /\ UNCHANGED <<plan, request, boundTo, restate, provider>>

Submit(m, n) ==
  /\ MaySend(m, n)
  /\ plan[m].defect = "none"
  /\ request' = [request EXCEPT ![<<m, n>>] = "sent"]
  /\ UNCHANGED <<plan, boundTo, outcome, restate, provider>>

(* Mutant: an answer that breaks off counts as a failure that is final. *)
InterruptionIsTerminal(a) ==
  /\ Open(a)
  /\ Ends(a, "Internal") \/ Ends(a, "dropped")
  /\ UNCHANGED <<plan, request, boundTo, restate, provider>>

(* The caller gives up on the answer: the HTTP client reports a failure, or  *)
(* the answer breaks off, or the send is dropped.  The request, if it is     *)
(* still on its way, stays there.                                            *)
StopWaiting(a) ==
  /\ Open(a)
  /\ \/ \E fault \in {"timeout", "other"} : Ends(a, MapReqwestError(fault))
     \/ Ends(a, "dropped")
  /\ UNCHANGED <<plan, request, boundTo, restate, provider>>

(* Mutant: a queued send reports success as soon as its request is out. *)
ReportsBeforeAcceptance(a) ==
  /\ Open(a)
  /\ plan[a[1]].mode = "queued"
  /\ Ends(a, "ok")
  /\ UNCHANGED <<plan, request, boundTo, restate, provider>>

(* 202: the report names the invocation. *)
ReceiveAccepted(a) ==
  /\ Open(a)
  /\ plan[a[1]].mode = "queued"
  /\ request[a] = "accepted"
  /\ Ends(a, "ok")
  /\ UNCHANGED <<plan, request, boundTo, restate, provider>>

(* Mutant: the caller of a finished invocation does not look at its status. *)
AnyAnswerIsReport(code) == "ok"

(* A finished invocation's answer: its report, or its terminal error. *)
WorkerAnswer(code) ==
  IF code = Success THEN "ok" ELSE MapErrorResponse(code, code, TRUE)

ReceiveWorkerAnswer(a) ==
  /\ Open(a)
  /\ plan[a[1]].mode = "sent"
  /\ request[a] = "accepted"
  /\ inv[boundTo[a]].phase = "done"
  /\ Ends(a, WorkerAnswer(inv[boundTo[a]].journal))
  /\ UNCHANGED <<plan, request, boundTo, restate, provider>>

(* A successful answer whose body is not the expected one. *)
ReceiveUnreadable(a) ==
  /\ Open(a)
  /\ request[a] = "accepted"
  /\ plan[a[1]].mode = "sent" =>
       inv[boundTo[a]].phase = "done" /\ inv[boundTo[a]].journal = Success
  /\ Ends(a, MapResponseDecodeError("invalid"))
  /\ UNCHANGED <<plan, request, boundTo, restate, provider>>

(* A refusal of the ingress itself: one kind to retry, one not to. *)
RefusalStatus == {401, 503}

ReceiveRefusal(a) ==
  /\ Open(a)
  /\ request[a] = "refused"
  /\ \E status \in RefusalStatus : Ends(a, MapErrorResponse(status, status, FALSE))
  /\ UNCHANGED <<plan, request, boundTo, restate, provider>>

-------------------------------------------------------------------------------
(* The ingress (external). *)

(* Mutant: the key is left out of the ingress header. *)
NoKeyInHeader(m) == FALSE

(* The caller sets the idempotency-key header iff the send has a key. *)
HeaderKey(m) == plan[m].keyed

NewInvocation(m) == [msg |-> m, phase |-> "ready", runs |-> 0, journal |-> NoCode]

Accept(a) ==
  LET m == a[1]
      replay == HeaderKey(m) /\ known[m] # NoInvocation
      id == IF replay THEN known[m] ELSE Len(inv) + 1
  IN
  /\ request[a] = "sent"
  /\ request' = [request EXCEPT ![a] = "accepted"]
  /\ boundTo' = [boundTo EXCEPT ![a] = id]
  /\ inv' = IF replay THEN inv ELSE Append(inv, NewInvocation(m))
  /\ known' = IF HeaderKey(m) THEN [known EXCEPT ![m] = id] ELSE known
  /\ UNCHANGED <<plan, outcome, provider>>

FailRequest(a) ==
  /\ request[a] = "sent"
  /\ \E fate \in {"refused", "lost"} : request' = [request EXCEPT ![a] = fate]
  /\ UNCHANGED <<plan, boundTo, outcome, restate, provider>>

(* The retention of the key ends, some time after the invocation did. *)
ForgetKey(m) ==
  /\ known[m] # NoInvocation
  /\ inv[known[m]].phase = "done"
  /\ known' = [known EXCEPT ![m] = NoInvocation]
  /\ UNCHANGED <<plan, request, boundTo, outcome, inv, provider>>

-------------------------------------------------------------------------------
(* The worker. *)

Advance(i, phase, code) ==
  inv' = [inv EXCEPT ![i].phase = phase, ![i].journal = code]

(* The request does not decode: the handler fails before ctx.run.  Decoding  *)
(* the same bytes again gives the same answer, so only a first run finds out. *)
DecodeFails(i) ==
  /\ inv[i].phase = "ready"
  /\ inv[i].runs = 0
  /\ Advance(i, "done", DecodeFailureCode)
  /\ UNCHANGED <<plan, request, boundTo, outcome, known, provider>>

(* The transport key is unknown: a terminal error of the ctx.run step. *)
LookupFails(i) ==
  /\ inv[i].phase = "ready"
  /\ Advance(i, "journaled", UnknownTransportCode)
  /\ UNCHANGED <<plan, request, boundTo, outcome, known, provider>>

(* Mutant: the worker strips the key from the options. *)
StripsKey(m) == FALSE

(* The queued options reach the transport unchanged; its capabilities are    *)
(* not consulted.                                                            *)
ForwardedKey(m) == plan[m].keyed

CallOf(i, run) ==
  [inv |-> i, msg |-> inv[i].msg, run |-> run, keyed |-> ForwardedKey(inv[i].msg)]

CurrentCall(i) == CallOf(i, inv[i].runs)

(* Mutant: the run is not counted before its call goes out. *)
StartsUncountedCall(i) ==
  /\ inv[i].phase = "ready"
  /\ inv[i].runs < MaxRuns
  /\ inv' = [inv EXCEPT ![i].phase = "calling"]
  /\ calls' = calls \cup {CallOf(i, inv[i].runs + 1)}
  /\ UNCHANGED <<plan, request, boundTo, outcome, known, taken, delivered>>

(* Mutant: an invocation is run only once. *)
StartsFirstCallOnly(i) ==
  /\ inv[i].phase = "ready"
  /\ inv[i].runs = 0
  /\ inv' = [inv EXCEPT ![i].phase = "calling", ![i].runs = @ + 1]
  /\ calls' = calls \cup {CallOf(i, inv[i].runs + 1)}
  /\ UNCHANGED <<plan, request, boundTo, outcome, known, taken, delivered>>

StartCall(i) ==
  /\ inv[i].phase = "ready"
  /\ inv[i].runs < MaxRuns
  /\ inv' = [inv EXCEPT ![i].phase = "calling", ![i].runs = @ + 1]
  /\ calls' = calls \cup {CallOf(i, inv[i].runs + 1)}
  /\ UNCHANGED <<plan, request, boundTo, outcome, known, taken, delivered>>

(* The end of a run with an error: Restate runs a retryable one again, any   *)
(* other is journaled with its code.  The last run the bound allows does not *)
(* end with a retryable error.                                               *)
RunFails(i, kind) ==
  \/ IsRetryable(kind) /\ inv[i].runs < MaxRuns /\ Advance(i, "ready", NoCode)
  \/ ~IsRetryable(kind) /\ Advance(i, "journaled", TransportTerminalCode(kind))

(* The provider answers that it did not take the message. *)
ProviderRejects(i) ==
  /\ inv[i].phase = "calling"
  /\ CurrentCall(i) \in calls
  /\ calls' = calls \ {CurrentCall(i)}
  /\ \E kind \in {"RateLimited", "PermanentProvider"} : RunFails(i, kind)
  /\ UNCHANGED <<plan, request, boundTo, outcome, known, taken, delivered>>

(* The worker does not learn what the provider did: its transport times out, *)
(* loses the connection, or fails inside.  The call may still arrive.        *)
CallUncertain(i) ==
  /\ inv[i].phase = "calling"
  /\ \E kind \in {"Timeout", "TransientNetwork", "Internal"} : RunFails(i, kind)
  /\ UNCHANGED <<plan, request, boundTo, outcome, known, provider>>

(* The worker crashes before the result of the run is journaled.             *)
CrashBeforeJournal(i) ==
  /\ inv[i].phase = "calling"
  /\ inv[i].runs < MaxRuns
  /\ Advance(i, "ready", NoCode)
  /\ UNCHANGED <<plan, request, boundTo, outcome, known, provider>>

JournalSuccess(i) ==
  /\ inv[i].phase = "calling"
  /\ CurrentCall(i) \in taken
  /\ Advance(i, "journaled", Success)
  /\ UNCHANGED <<plan, request, boundTo, outcome, known, provider>>

(* Mutant: an invocation that failed is scheduled again. *)
RerunsFailures(i) ==
  /\ inv[i].phase = "journaled"
  /\ IF inv[i].journal = Success
     THEN Advance(i, "done", Success)
     ELSE inv' = [inv EXCEPT ![i].phase = "ready", ![i].journal = NoCode]
  /\ UNCHANGED <<plan, request, boundTo, outcome, known, provider>>

(* The handler returns the journaled result; a crash in between replays it.  *)
Complete(i) ==
  /\ inv[i].phase = "journaled"
  /\ Advance(i, "done", inv[i].journal)
  /\ UNCHANGED <<plan, request, boundTo, outcome, known, provider>>

-------------------------------------------------------------------------------
(* The provider (external): a call may arrive long after the worker gave it  *)
(* up.  One that honors keys sends an email once per key.                    *)
ProviderTakes(c) ==
  /\ calls' = calls \ {c}
  /\ taken' = taken \cup {c}
  /\ delivered' =
       IF KeyCapable /\ c.keyed /\ \E d \in delivered : d.keyed /\ d.msg = c.msg
       THEN delivered
       ELSE delivered \cup {c}
  /\ UNCHANGED <<plan, request, boundTo, outcome, restate>>

WorkerStep(i) ==
  \/ StartCall(i)
  \/ JournalSuccess(i)
  \/ Complete(i)

WorkerFault(i) ==
  \/ DecodeFails(i)
  \/ LookupFails(i)
  \/ ProviderRejects(i)
  \/ CallUncertain(i)
  \/ CrashBeforeJournal(i)

Next ==
  \/ \E m \in Msgs, n \in 1..MaxAttempts : RefuseLocally(m, n) \/ Submit(m, n)
  \/ \E a \in Attempts :
       \/ StopWaiting(a)
       \/ ReceiveAccepted(a)
       \/ ReceiveWorkerAnswer(a)
       \/ ReceiveUnreadable(a)
       \/ ReceiveRefusal(a)
       \/ Accept(a)
       \/ FailRequest(a)
  \/ \E m \in Msgs : ForgetKey(m)
  \/ \E i \in Invocations : WorkerStep(i) \/ WorkerFault(i)
  \/ \E c \in calls : ProviderTakes(c)

Spec == Init /\ [][Next]_vars

(* Restate keeps running an accepted invocation, and the provider takes the  *)
(* calls that reach it; nothing is asked of the caller.                      *)
FairSpec ==
  /\ Spec
  /\ \A i \in 1..(Cardinality(Msgs) * MaxAttempts) :
       WF_vars(i \in Invocations /\ WorkerStep(i))
  /\ WF_vars(\E c \in calls : ProviderTakes(c))

-------------------------------------------------------------------------------
InvocationsOf(m) == {i \in Invocations : inv[i].msg = m}
EmailsOf(m) == {c \in delivered : c.msg = m}

(* ADR 0004: with a key that the provider honors, an email goes out at most   *)
(* once, across lost answers, dropped and repeated sends, crashes between the *)
(* provider's acceptance and the journal, calls that arrive late, and even    *)
(* the end of Restate's own retention of the key.                             *)
AtMostOneEmailPerKey ==
  KeyCapable => \A m \in Msgs : plan[m].keyed => Cardinality(EmailsOf(m)) <= 1

(* However often and in whatever order the requests of a keyed send arrive,   *)
(* it never has two invocations in progress.                                  *)
OneLiveInvocationPerKey ==
  \A m \in Msgs : plan[m].keyed =>
    \A i, j \in InvocationsOf(m) :
      i # j => inv[i].phase = "done" \/ inv[j].phase = "done"

(* What a successful send reports is true: a queued one names an invocation   *)
(* of this very email, one that waited for the worker was answered by an      *)
(* invocation of it whose message the provider took.                          *)
SuccessIsReal ==
  \A m \in Msgs, n \in 1..MaxAttempts : outcome[<<m, n>>] = "ok" =>
    LET i == boundTo[<<m, n>>]
    IN /\ i \in InvocationsOf(m)
       /\ plan[m].mode = "sent" =>
            inv[i].journal = Success /\ \E c \in taken : c.inv = i

(* A worker's failure that the caller was told is terminal stays the end of   *)
(* the invocation: it is not run again behind the caller's back.              *)
TerminalMeansOver ==
  \A a \in Attempts :
    /\ plan[a[1]].mode = "sent"
    /\ request[a] = "accepted"
    /\ outcome[a] \in TerminalKinds
    => inv[boundTo[a]].phase = "done" /\ inv[boundTo[a]].journal # Success

(* An invocation's result, once journaled, is not replaced, and the provider  *)
(* is not called again for it.                                                *)
JournalIsFinal ==
  [][\A i \in Invocations : inv[i].journal # NoCode =>
       inv'[i].journal = inv[i].journal /\ inv'[i].runs = inv[i].runs]_vars

(* An invocation Restate accepted runs to its end, whatever becomes of the    *)
(* caller.                                                                    *)
AcceptedInvocationsEnd ==
  \A i \in 1..(Cardinality(Msgs) * MaxAttempts) :
    (i \in Invocations) ~> (i \in Invocations /\ inv[i].phase = "done")

(* The documentation of Capabilities says that the worker reads them to       *)
(* decide whether to forward the key of the queued options.                   *)
KeyForwardedOnlyIfCapable ==
  \A c \in calls \cup taken : c.keyed => KeyCapable

-------------------------------------------------------------------------------
(* A queued send is a handoff to Restate, one hop before the provider's       *)
(* (ADR 0003): each attempt is a call, its request the handoff.               *)
HandoffCall ==
  [a \in Attempts |->
     CASE outcome[a] = "ok"      -> "ok"
       [] outcome[a] = "dropped" -> "dropped"
       [] outcome[a] \in ErrorKind -> "failed"
       [] OTHER -> IF request[a] = "none" THEN "idle" ELSE "open"]

HandoffState ==
  [a \in Attempts |->
     CASE request[a] = "none" -> "none"
       [] request[a] = "sent" -> "active"
       [] OTHER               -> "over"]

H == INSTANCE Handoff WITH
       Sends <- Attempts, MaxInFlight <- Cardinality(Attempts),
       call <- HandoffCall, handoff <- HandoffState,
       taken <- {a \in Attempts : request[a] = "accepted"}

(* RestateTransport keeps the contract of Transport::send towards Restate: no *)
(* report before the ingress accepted the request, a request that outlives    *)
(* its dropped or timed out send is accepted at most once, and a send that    *)
(* ended before its request went out never makes one.                         *)
ImplementsHandoff == H!Spec
===============================================================================
