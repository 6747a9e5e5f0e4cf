----------------------------- MODULE TracedSends -----------------------------
(***************************************************************************)
(* TracingTransport over an AttachmentResolvingTransport over the          *)
(* FileTransports (email-transport, tracing.rs: trace_send).  The future   *)
(* of a send is polled by its caller, is pending while attachments are     *)
(* fetched, and may be dropped before its first poll or while it is        *)
(* pending; the process may die at any step.                               *)
(***************************************************************************)
EXTENDS FileTransport

VARIABLES
    future,     \* the future of each send
    guard,      \* the cancel guard of each send
    emitted     \* how often each event was emitted for a send

traceVars == <<future, guard, emitted>>
vars == <<nextIndex, dir, file, future, guard, emitted>>

Events == {"started", "succeeded", "failed", "cancelled"}
Futures == {"unpolled", "fetching", "writing", "recorded", "ok", "failed", "dropped", "panicked", "dead"}
Over == {"ok", "failed", "dropped", "panicked", "dead"}

-----------------------------------------------------------------------------
Emitting(s, events) ==
    emitted' = [emitted EXCEPT ![s] = [e \in Events |-> IF e \in events THEN @[e] + 1 ELSE @[e]]]

(* The guard speaks when the block of the future ends, however it ends. *)
GuardDropped(s) == IF guard[s] = "armed" THEN {"cancelled"} ELSE {}
Become(s, f) == future' = [future EXCEPT ![s] = f]

Init ==
    /\ FileInit
    /\ future = [s \in Sends |-> "unpolled"]
    /\ guard = [s \in Sends |-> "none"]
    /\ emitted = [s \in Sends |-> [e \in Events |-> 0]]

(* The first poll: the span, the guard, the event, and the inner call. *)
FirstPoll(s) ==
    /\ future[s] = "unpolled"
    /\ Emitting(s, {"started"})
    /\ \/ s \notin RawSends /\ Become(s, "fetching") /\ UNCHANGED fileVars
       \/ FileSend(s) /\ Become(s, "writing")
    /\ guard' = [guard EXCEPT ![s] = "armed"]

Fetched(s) ==
    /\ future[s] = "fetching"
    /\ FileSend(s) /\ Become(s, "writing")
    /\ UNCHANGED <<guard, emitted>>

Returned(s, event) ==
    /\ Emitting(s, {event})
    /\ guard' = [guard EXCEPT ![s] = "disarmed"]
    /\ Become(s, "recorded")

FetchFails(s) ==
    /\ future[s] = "fetching"
    /\ Returned(s, "failed")
    /\ UNCHANGED fileVars

RecordSuccess(s) ==
    /\ future[s] = "writing" /\ file[s].at = "ok"
    /\ Returned(s, "succeeded")
    /\ UNCHANGED fileVars

(* Without the disarming: a way to get this wrong. *)
FailsArmed(s) ==
    /\ future[s] = "writing" /\ file[s].at = "failed"
    /\ Emitting(s, {"failed"}) /\ Become(s, "recorded")
    /\ UNCHANGED <<nextIndex, dir, file, guard>>

RecordFailure(s) ==
    /\ future[s] = "writing" /\ file[s].at = "failed"
    /\ Returned(s, "failed")
    /\ UNCHANGED fileVars

(* The async block ends and drops its guard. *)
Return(s) ==
    /\ future[s] = "recorded"
    /\ Emitting(s, GuardDropped(s))
    /\ Become(s, IF file[s].at = "ok" THEN "ok" ELSE "failed")
    /\ UNCHANGED <<nextIndex, dir, file, guard>>

(* Only a future that is not being polled can be dropped; one that was     *)
(* never polled has no guard.                                              *)
DropFuture(s) ==
    /\ future[s] \in {"unpolled", "fetching"}
    /\ Emitting(s, GuardDropped(s))
    /\ Become(s, "dropped")
    /\ UNCHANGED <<nextIndex, dir, file, guard>>

(* A resolver panics inside a poll. *)
Panic(s) ==
    /\ future[s] = "fetching"
    /\ Emitting(s, GuardDropped(s))
    /\ Become(s, "panicked")
    /\ UNCHANGED <<nextIndex, dir, file, guard>>

(* The process of a transport dies with its sends; the next one makes a    *)
(* new FileTransport, which counts from 1.                                 *)
Lives(s) == future[s] \in {"fetching", "writing", "recorded"}
Restart(t) ==
    /\ \E s \in Sends : TransportOf[s] = t /\ Lives(s)
    /\ future' = [s \in Sends |-> IF TransportOf[s] = t /\ Lives(s) THEN "dead" ELSE future[s]]
    /\ nextIndex' = [nextIndex EXCEPT ![t] = 1]
    /\ UNCHANGED <<dir, file, guard, emitted>>

InnerStep(s) == future[s] = "writing" /\ FileStep(s) /\ UNCHANGED traceVars

Step(s) == InnerStep(s) \/ RecordSuccess(s) \/ RecordFailure(s) \/ Return(s)

Next ==
    \/ \E s \in Sends : FirstPoll(s) \/ Fetched(s) \/ FetchFails(s) \/ DropFuture(s) \/ Panic(s) \/ Step(s)
    \/ \E t \in Transports : Restart(t)

Spec == Init /\ [][Next]_vars

(* A poll that runs goes on: the body of FileTransport waits for nothing.  *)
(* Nothing is assumed of resolvers, callers or crashes.                    *)
FairSpec == Spec /\ \A s \in Sends : WF_vars(Step(s))

-----------------------------------------------------------------------------
TypeOK ==
    /\ nextIndex \in [Transports -> 1..(MaxIndex + 1)]
    /\ dir \in [Paths -> [by : Sends \cup {"foreign", "nobody"}, size : {"none", "part", "whole"}]]
    /\ file \in [Sends -> [at : Stages, path : 0..MaxIndex]]
    /\ future \in [Sends -> Futures]
    /\ guard \in [Sends -> {"none", "armed", "disarmed"}]
    /\ emitted \in [Sends -> [Events -> Nat]]

(* A path that send reported names the whole message of that very send,    *)
(* and goes on naming it: no other send, transport or restart takes it,    *)
(* and a failed or killed write is never mistaken for it.                  *)
ReportedPathsHold ==
    \A s \in Sends :
        future[s] = "ok" => file[s].path \in Paths /\ dir[file[s].path] = [by |-> s, size |-> "whole"]

(* "Existing files are never overwritten": whose a file is never changes,  *)
(* and a whole file stays whole.                                           *)
NothingOverwritten ==
    [][\A p \in Paths : dir[p] # Absent => dir'[p].by = dir[p].by /\ (dir[p].size = "whole" => dir'[p].size = "whole")]_vars

Endings(s) == emitted[s]["succeeded"] + emitted[s]["failed"] + emitted[s]["cancelled"]

(* A traced send tells its end once, and the end it had: nothing of a      *)
(* future that was never polled, one cancellation of one that was dropped  *)
(* or panicked, and no cancellation after a result.                        *)
OneEnding ==
    \A s \in Sends :
        /\ emitted[s]["started"] <= 1 /\ Endings(s) <= emitted[s]["started"]
        /\ future[s] \in {"ok", "failed", "panicked"} => Endings(s) = 1
        /\ future[s] = "dropped" => Endings(s) = emitted[s]["started"]
        /\ future[s] = "ok" => emitted[s]["succeeded"] = 1
        /\ future[s] = "failed" => emitted[s]["failed"] = 1
        /\ future[s] = "panicked" => emitted[s]["cancelled"] = 1

(* A send that looks for a free name finds one or fails, however many      *)
(* names are taken and however often others take the next one before it.   *)
NamingEnds ==
    \A s \in Sends : (future[s] = "writing" /\ file[s].at = "naming") ~> future[s] \in Over
=============================================================================
