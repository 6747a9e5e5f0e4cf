--------------------------- MODULE LettreTransport ---------------------------
(***************************************************************************)
(* email-transport-lettre: concurrent calls of one LettreTransport (or of  *)
(* its clones, which share the semaphore).  A call validates its message,  *)
(* waits for one of MAX_IN_FLIGHT_SENDS permits, and spawns a task that    *)
(* owns the permit and runs the SMTP transaction to its end.  The caller   *)
(* waits for the task until its deadline; when it stops waiting, by        *)
(* timeout or because its future is dropped, the task goes on detached.    *)
(*                                                                         *)
(* The semaphore is tokio's: fair, a released permit goes to the waiter    *)
(* that has waited longest.  It is never closed, so the "admission failed" *)
(* branch of deliver cannot be taken and is not modelled.                  *)
(***************************************************************************)
EXTENDS ErrorKinds, FiniteSets, SequencesExt

CONSTANTS
  Sends,         \* calls of send or send_raw
  MaxInFlight,   \* MAX_IN_FLIGHT_SENDS
  SmtpErrors     \* the kinds an SMTP failure may be classified as

ASSUME SendsAssumption == IsFiniteSet(Sends)
ASSUME MaxInFlightAssumption == MaxInFlight \in Nat \ {0}
ASSUME SmtpErrorsAssumption == SmtpErrors \subseteq ErrorKind

VARIABLES
  pc,          \* where each call is
  deadline,    \* its deadline: none, ahead, or passed
  result,      \* what it returned
  available,   \* permits of the semaphore that nobody holds
  queue,       \* calls waiting for a permit, in order
  granted,     \* waiting calls a permit was assigned to, not yet woken
  task,        \* the spawned task of each call: running, or how it ended
  taken        \* calls whose message the SMTP server took

semaphore == <<available, queue, granted>>
vars == <<pc, deadline, result, semaphore, task, taken>>

(* A call's message and options, by what deliver tells apart.  A raw send    *)
(* renders nothing.  derive_envelope cannot fail: an OutboundMessage has     *)
(* passed the same validation, but its envelope may still have no recipient  *)
(* (groups without members), which map_envelope refuses.                     *)
Request ==
  [renders : {"yes", "unsupported", "invalid"},
   deliverable : BOOLEAN,
   timed : BOOLEAN]

MapRenderError(fault) ==
  IF fault = "unsupported" THEN "UnsupportedFeature" ELSE "Validation"

Accepted(r) == r.renders = "yes" /\ r.deliverable

(* The error of a call that ends before it asks for a permit. *)
FrontError(r) ==
  IF r.renders # "yes" THEN MapRenderError(r.renders) ELSE "Validation"

TaskResult == SmtpErrors \cup {"ok", "panicked"}

TypeOK ==
  /\ pc \in [Sends -> {"idle", "waiting", "awaiting", "returned", "dropped"}]
  /\ deadline \in [Sends -> {"none", "ahead", "passed"}]
  /\ result \in [Sends -> ErrorKind \cup {"none", "ok"}]
  /\ available \in 0..MaxInFlight
  /\ queue \in Seq(Sends)
  /\ granted \subseteq Sends
  /\ task \in [Sends -> TaskResult \cup {"none", "running"}]
  /\ taken \subseteq Sends

Init ==
  /\ pc = [s \in Sends |-> "idle"]
  /\ deadline = [s \in Sends |-> "none"]
  /\ result = [s \in Sends |-> "none"]
  /\ available = MaxInFlight
  /\ queue = <<>>
  /\ granted = {}
  /\ task = [s \in Sends |-> "none"]
  /\ taken = {}

-------------------------------------------------------------------------------
(* The semaphore. *)

(* A permit is released: it goes to the first waiter, or back to the pool.   *)
(* `others` are the waiters that keep the permit they were granted.          *)
ReleasePermit(others) ==
  \/ /\ queue = <<>>
     /\ available' = available + 1
     /\ granted' = others
     /\ UNCHANGED queue
  \/ /\ queue # <<>>
     /\ granted' = others \cup {Head(queue)}
     /\ queue' = Tail(queue)
     /\ UNCHANGED available

(* The acquire future of a waiter is dropped: the waiter leaves the queue,   *)
(* and a permit assigned to it meanwhile is released.                        *)
LeaveAdmission(s) ==
  \/ /\ s \in granted
     /\ ReleasePermit(granted \ {s})
  \/ /\ s \notin granted
     /\ \E i \in DOMAIN queue : queue[i] = s /\ queue' = RemoveAt(queue, i)
     /\ UNCHANGED <<available, granted>>

-------------------------------------------------------------------------------
(* The caller's side: send, send_raw, deliver and await_send. *)

(* The deadline is a local of the call and ends with it. *)
Return(s, value) ==
  /\ pc' = [pc EXCEPT ![s] = "returned"]
  /\ result' = [result EXCEPT ![s] = value]
  /\ deadline' = [deadline EXCEPT ![s] = "none"]

SetDeadline(s, r) ==
  deadline' = [deadline EXCEPT ![s] = IF r.timed THEN "ahead" ELSE "none"]

(* tokio::spawn: the task owns the permit the call acquired. *)
SpawnTask(s) ==
  /\ task' = [task EXCEPT ![s] = "running"]
  /\ pc' = [pc EXCEPT ![s] = "awaiting"]

(* Rendering or the envelope fails: no permit is asked for. *)
Reject(s, r) ==
  /\ pc[s] = "idle"
  /\ ~Accepted(r)
  /\ Return(s, FrontError(r))
  /\ UNCHANGED <<semaphore, task, taken>>

(* A permit is free: nothing suspends the call before it awaits its task. *)
Admit(s, r) ==
  /\ pc[s] = "idle"
  /\ Accepted(r)
  /\ available > 0
  /\ SetDeadline(s, r)
  /\ available' = available - 1
  /\ SpawnTask(s)
  /\ UNCHANGED <<result, queue, granted, taken>>

Enqueue(s, r) ==
  /\ pc[s] = "idle"
  /\ Accepted(r)
  /\ available = 0
  /\ SetDeadline(s, r)
  /\ queue' = Append(queue, s)
  /\ pc' = [pc EXCEPT ![s] = "waiting"]
  /\ UNCHANGED <<result, available, granted, task, taken>>

(* The waiter is polled after its grant, even one whose deadline has passed: *)
(* timeout_at polls the acquire future before the timer.                     *)
StartGranted(s) ==
  /\ pc[s] = "waiting"
  /\ s \in granted
  /\ granted' = granted \ {s}
  /\ SpawnTask(s)
  /\ UNCHANGED <<deadline, result, available, queue, taken>>

DeadlinePasses(s) ==
  /\ pc[s] \in {"waiting", "awaiting"}
  /\ deadline[s] = "ahead"
  /\ deadline' = [deadline EXCEPT ![s] = "passed"]
  /\ UNCHANGED <<pc, result, semaphore, task, taken>>

(* Mutant: the deadline is armed only once the permit is there, so a call     *)
(* waiting for admission waits without bound.                                 *)
AdmissionNeverTimesOut(s) == FALSE /\ UNCHANGED vars

(* Mutant: the waiter that timed out stays in the queue. *)
StaysInQueue(s) ==
  /\ pc[s] = "waiting"
  /\ deadline[s] = "passed"
  /\ Return(s, "Timeout")
  /\ UNCHANGED <<semaphore, task, taken>>

(* The timer wins the race.  The grant may have come between the poll of the *)
(* acquire future and its drop.                                              *)
AdmissionTimeout(s) ==
  /\ pc[s] = "waiting"
  /\ deadline[s] = "passed"
  /\ LeaveAdmission(s)
  /\ Return(s, "Timeout")
  /\ UNCHANGED <<task, taken>>

(* Mutant: the caller holds the permit and releases it when it stops waiting. *)
TimeoutReleasesPermit(s) ==
  /\ pc[s] = "awaiting"
  /\ deadline[s] = "passed"
  /\ Return(s, "Timeout")
  /\ ReleasePermit(granted)
  /\ UNCHANGED <<task, taken>>

(* The timer wins the race: the task goes on without its caller. *)
CompletionTimeout(s) ==
  /\ pc[s] = "awaiting"
  /\ deadline[s] = "passed"
  /\ Return(s, "Timeout")
  /\ UNCHANGED <<semaphore, task, taken>>

(* Mutant: the panic of a task reaches the caller as a result of its own. *)
PassesPanicOn(ended) == ended

(* The JoinHandle's answer: a JoinError is an internal failure. *)
JoinedResult(ended) == IF ended = "panicked" THEN "Internal" ELSE ended

ObserveResult(s) ==
  /\ pc[s] = "awaiting"
  /\ task[s] \in TaskResult
  /\ Return(s, JoinedResult(task[s]))
  /\ UNCHANGED <<semaphore, task, taken>>

(* The caller drops the future of its call. *)
DropCall(s) ==
  /\ pc' = [pc EXCEPT ![s] = "dropped"]
  /\ deadline' = [deadline EXCEPT ![s] = "none"]
  /\ \/ pc[s] = "waiting" /\ LeaveAdmission(s)
     \/ pc[s] = "awaiting" /\ UNCHANGED semaphore
  /\ UNCHANGED <<result, task, taken>>

-------------------------------------------------------------------------------
(* The spawned task. *)

(* The SMTP server takes the message; its answer is still on the way. *)
ServerTakes(s) ==
  /\ task[s] = "running"
  /\ taken' = taken \cup {s}
  /\ UNCHANGED <<pc, deadline, result, semaphore, task>>

(* Mutant: a task that panics never gives its permit back. *)
PanicKeepsPermit(s, ended) ==
  /\ task[s] = "running"
  /\ ended = "ok" => s \in taken
  /\ task' = [task EXCEPT ![s] = ended]
  /\ IF ended = "panicked" THEN UNCHANGED semaphore ELSE ReleasePermit(granted)
  /\ UNCHANGED <<pc, deadline, result, taken>>

(* Mutant: the task counts its permit back itself and wakes nobody. *)
FinishesUnnoticed(s, ended) ==
  /\ task[s] = "running"
  /\ ended = "ok" => s \in taken
  /\ task' = [task EXCEPT ![s] = ended]
  /\ available' = available + 1
  /\ UNCHANGED <<pc, deadline, result, queue, granted, taken>>

(* The transaction ends: lettre reports success only for a positive answer   *)
(* of the server, and an error whether or not the server took the message    *)
(* (the answer may be lost).  The permit is dropped with the task's future,  *)
(* also when it panics, before the JoinHandle is ready.                      *)
FinishTask(s, ended) ==
  /\ task[s] = "running"
  /\ ended = "ok" => s \in taken
  /\ task' = [task EXCEPT ![s] = ended]
  /\ ReleasePermit(granted)
  /\ UNCHANGED <<pc, deadline, result, taken>>

TaskEnds(s) == \E ended \in TaskResult : FinishTask(s, ended)

Call(s) == \E r \in Request : Reject(s, r) \/ Admit(s, r) \/ Enqueue(s, r)

CallerStep(s) ==
  \/ StartGranted(s)
  \/ AdmissionTimeout(s)
  \/ CompletionTimeout(s)
  \/ ObserveResult(s)

Next ==
  \E s \in Sends :
    \/ Call(s)
    \/ CallerStep(s)
    \/ DeadlinePasses(s)
    \/ DropCall(s)
    \/ ServerTakes(s)
    \/ TaskEnds(s)

Spec == Init /\ [][Next]_vars

(* The runtime polls a woken future and fires the timers that are due. *)
FairSpec ==
  /\ Spec
  /\ \A s \in Sends : WF_vars(CallerStep(s)) /\ WF_vars(DeadlinePasses(s))

(* lettre bounds every SMTP command with its own timeout. *)
SmtpEnds == \A s \in Sends : WF_vars(TaskEnds(s))

-------------------------------------------------------------------------------
Running == {s \in Sends : task[s] = "running"}
Waiting == {s \in Sends : pc[s] = "waiting"}
InQueue == {queue[i] : i \in DOMAIN queue}

(* Every permit is free, assigned to a waiter, or owned by a running task:    *)
(* none is lost and none is forged, whatever callers do (time out, drop their *)
(* future while a grant is on its way) and however tasks end.                 *)
PermitsConserved ==
  available + Cardinality(granted) + Cardinality(Running) = MaxInFlight

(* No permit lies idle while a call waits for one. *)
NoIdlePermit == available > 0 => queue = <<>>

(* The semaphore and the calls agree on who waits: a call that gave up is not *)
(* in the queue, and a waiting call is there once or holds a grant.           *)
WaitersAgree ==
  /\ InQueue \cup granted = Waiting
  /\ InQueue \cap granted = {}
  /\ \A i, j \in DOMAIN queue : i # j => queue[i] # queue[j]

(* A task that was spawned belongs to a call that passed admission. *)
TaskOfAdmitted ==
  \A s \in Sends : pc[s] \in {"idle", "waiting"} => task[s] = "none"

(* A reported success was taken by the server. *)
SuccessIsTaken ==
  \A s \in Sends : result[s] = "ok" \/ task[s] = "ok" => s \in taken

(* SendOptions::timeout is documented as an "upper bound on provider-call     *)
(* duration", which transports that advertise the timeout, as this one does,  *)
(* "must honor".                                                              *)
TimeoutBoundsProviderCall ==
  \A s \in Sends :
    pc[s] = "returned" /\ result[s] = "Timeout" => task[s] # "running"

-------------------------------------------------------------------------------
(* The transport implements the handoff contract. *)
HandoffCall ==
  [s \in Sends |->
     CASE pc[s] = "idle"                   -> "idle"
       [] pc[s] \in {"waiting", "awaiting"} -> "open"
       [] pc[s] = "dropped"                -> "dropped"
       [] pc[s] = "returned" /\ result[s] = "ok" -> "ok"
       [] OTHER                            -> "failed"]

HandoffState ==
  [s \in Sends |->
     CASE task[s] = "none"    -> "none"
       [] task[s] = "running" -> "active"
       [] OTHER               -> "over"]

H == INSTANCE Handoff WITH call <- HandoffCall, handoff <- HandoffState

(* Transport::send is a handoff: no success without the server having taken   *)
(* the message, no handoff begun by a call that already ended, at most one    *)
(* per call, and never more than MaxInFlight at once, detached ones included. *)
ImplementsHandoff == H!Spec

(* A call with a timeout returns (or is dropped) even if every SMTP           *)
(* transaction hangs for ever and no permit ever comes back.                  *)
TimedCallsReturn ==
  \A s \in Sends :
    (pc[s] \in {"waiting", "awaiting"} /\ deadline[s] # "none")
      ~> pc[s] \in {"returned", "dropped"}

(* As long as SMTP transactions end, no call waits for admission for ever,    *)
(* timeout or not: every way a permit is let go hands it to the next waiter.  *)
WaitersAreServed ==
  SmtpEnds => \A s \in Sends : (pc[s] = "waiting") ~> (pc[s] # "waiting")
===============================================================================
