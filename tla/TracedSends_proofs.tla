-------------------------- MODULE TracedSends_proofs --------------------------
(***************************************************************************)
(* What holds of traced FileTransports for any number of sends,            *)
(* transports, restarts and files that were there before.  A send owns the *)
(* file it created from create_new on, since nobody creates what exists;   *)
(* the guard of its future is armed exactly while it is polled or pending. *)
(***************************************************************************)
EXTENDS TracedSends, TLAPS

Owns(s) == file[s].path \in Paths /\ dir[file[s].path].by = s

(* The claim of a send on its path, by how far its body is. *)
Claim ==
    \A s \in Sends :
        /\ file[s].at = "opening" => file[s].path \in Paths
        /\ file[s].at = "writing" => Owns(s)
        /\ file[s].at = "ok" => Owns(s) /\ dir[file[s].path].size = "whole"

(* How the body of a send and its future go together. *)
Together ==
    \A s \in Sends :
        /\ future[s] \in {"unpolled", "fetching"} => file[s].at = "none"
        /\ future[s] = "recorded" => file[s].at \in {"none", "ok", "failed"}
        /\ future[s] = "ok" => file[s].at = "ok"

Count(s, started, succeeded, failed, cancelled) ==
    /\ emitted[s]["started"] = started /\ emitted[s]["succeeded"] = succeeded
    /\ emitted[s]["failed"] = failed /\ emitted[s]["cancelled"] = cancelled

Result(s) == IF file[s].at = "ok" THEN Count(s, 1, 1, 0, 0) ELSE Count(s, 1, 0, 1, 0)

(* What was told of a send, by what became of its future. *)
Told ==
    \A s \in Sends :
        /\ future[s] = "unpolled" => Count(s, 0, 0, 0, 0) /\ guard[s] = "none"
        /\ future[s] \in {"fetching", "writing"} => Count(s, 1, 0, 0, 0) /\ guard[s] = "armed"
        /\ future[s] = "recorded" => Result(s) /\ guard[s] = "disarmed"
        /\ future[s] = "ok" => Count(s, 1, 1, 0, 0)
        /\ future[s] = "failed" => Count(s, 1, 0, 1, 0)
        /\ future[s] = "panicked" => Count(s, 1, 0, 0, 1)
        /\ future[s] = "dropped" => Count(s, 0, 0, 0, 0) \/ Count(s, 1, 0, 0, 1)
        /\ future[s] = "dead" => Count(s, 1, 0, 0, 0) \/ Count(s, 1, 1, 0, 0) \/ Count(s, 1, 0, 1, 0)

Inv == TypeOK /\ Claim /\ Together /\ Told

-------------------------------------------------------------------------------
LEMMA EmittingCounts ==
    ASSUME emitted \in [Sends -> [Events -> Nat]], NEW s \in Sends, NEW E, Emitting(s, E)
    PROVE  /\ emitted' \in [Sends -> [Events -> Nat]]
           /\ \A r \in Sends : r # s => emitted'[r] = emitted[r]
           /\ \A e \in Events : emitted'[s][e] = IF e \in E THEN emitted[s][e] + 1 ELSE emitted[s][e]
    <1> DEFINE told == [e \in Events |-> IF e \in E THEN emitted[s][e] + 1 ELSE emitted[s][e]]
    <1>1. told \in [Events -> Nat] /\ emitted' = [emitted EXCEPT ![s] = told]
        BY DEF Emitting
    <1>2. emitted'[s] = told
        BY <1>1
    <1> QED  BY <1>1, <1>2

(* The body of FileTransport. *)

LEMMA FileStepKeeps ==
    ASSUME TypeOK, Claim, Together, Told, NEW s \in Sends, InnerStep(s)
    PROVE  TypeOK' /\ Claim' /\ Together' /\ Told'
    <1> USE TransportsAssumption, IndexAssumption DEF TypeOK
    <1>1. future[s] = "writing" /\ UNCHANGED <<future, guard, emitted>>
        BY DEF InnerStep, traceVars
    <1>a. FileStep(s)
        BY DEF InnerStep
    <1>b. \A r \in Sends : r # s => file'[r] = file[r]
        BY <1>a DEF FileStep, Moved, Render, RenderFails, NextPath, CreateNew, AlreadyExists, OpenFails, WriteAll, WriteFails
    <1>2. Told'
        <2>1. \A r \in Sends : future[r] = "recorded" => file'[r] = file[r]
            BY <1>1, <1>b
        <2> QED  BY <1>1, <2>1 DEF Told, Count, Result
    <1>3. Together'
        BY <1>1, <1>b DEF Together
    <1>4. CASE Render(s) \/ RenderFails(s) \/ AlreadyExists(s) \/ OpenFails(s) \/ WriteFails(s)
        <2>1. PICK to \in {"naming", "failed"} : file' = [file EXCEPT ![s].at = to]
            BY <1>4 DEF Render, RenderFails, AlreadyExists, OpenFails, WriteFails, Moved
        <2>2. UNCHANGED <<nextIndex, dir>>
            BY <1>4 DEF Render, RenderFails, AlreadyExists, OpenFails, WriteFails
        <2>3. TypeOK'
            <3>1. dir' \in [Paths -> [by : Sends \cup {"foreign", "nobody"}, size : {"none", "part", "whole"}]]
                BY <2>2
            <3>2. file' \in [Sends -> [at : Stages, path : 0..MaxIndex]]
                BY <2>1 DEF Stages
            <3> QED  BY <1>1, <2>2, <3>1, <3>2
        <2>4. Claim'
            BY <1>b, <2>1, <2>2 DEF Claim, Owns
        <2> QED  BY <1>2, <1>3, <2>3, <2>4
    <1>5. CASE NextPath(s)
        <2>1. TypeOK'
            BY <1>1, <1>5 DEF NextPath, Stages
        <2>2. Claim'
            BY <1>5 DEF NextPath, Claim, Owns, Paths
        <2> QED  BY <1>2, <1>3, <2>1, <2>2
    <1>6. CASE CreateNew(s)
        <2> DEFINE p == file[s].path
        <2>1. p \in Paths /\ dir[p] = Absent
            BY <1>6 DEF CreateNew, Moved, Claim
        <2>2. dir' = [dir EXCEPT ![p] = [by |-> s, size |-> "part"]] /\ file' = [file EXCEPT ![s].at = "writing"] /\ UNCHANGED nextIndex
            BY <1>6 DEF CreateNew, Moved
        <2>3. TypeOK'
            <3>1. [by |-> s, size |-> "part"] \in [by : Sends \cup {"foreign", "nobody"}, size : {"none", "part", "whole"}]
                OBVIOUS
            <3>2. dir' \in [Paths -> [by : Sends \cup {"foreign", "nobody"}, size : {"none", "part", "whole"}]]
                BY <2>1, <2>2, <3>1
            <3>3. file' \in [Sends -> [at : Stages, path : 0..MaxIndex]]
                BY <2>2 DEF Stages
            <3> QED  BY <1>1, <2>2, <3>2, <3>3
        <2>4. Claim'
            BY <1>b, <2>1, <2>2 DEF Claim, Owns, Absent
        <2> QED  BY <1>2, <1>3, <2>3, <2>4
    <1>7. CASE WriteAll(s)
        <2> DEFINE p == file[s].path
        <2>1. p \in Paths /\ dir[p].by = s
            BY <1>7 DEF WriteAll, Moved, Claim, Owns
        <2>2. dir' = [dir EXCEPT ![p].size = "whole"] /\ file' = [file EXCEPT ![s].at = "ok"] /\ UNCHANGED nextIndex
            BY <1>7 DEF WriteAll, Moved
        <2>3. TypeOK'
            <3>1. dir' \in [Paths -> [by : Sends \cup {"foreign", "nobody"}, size : {"none", "part", "whole"}]]
                BY <2>2
            <3>2. file' \in [Sends -> [at : Stages, path : 0..MaxIndex]]
                BY <2>2 DEF Stages
            <3> QED  BY <1>1, <2>2, <3>1, <3>2
        <2>4. Claim'
            BY <1>b, <2>1, <2>2 DEF Claim, Owns
        <2> QED  BY <1>2, <1>3, <2>3, <2>4
    <1> QED
        BY <1>a, <1>4, <1>5, <1>6, <1>7 DEF FileStep

(* What a step of a future does to the state that is not the files'. *)
LEMMA FutureKeeps ==
    ASSUME Inv, NEW s \in Sends, NEW f \in Futures, NEW g \in {"none", "armed", "disarmed"}, NEW E,
           Emitting(s, E), Become(s, f), guard' = [guard EXCEPT ![s] = g],
           \A r \in Sends : r # s => file'[r] = file[r],
           \/ f \in {"fetching", "writing"} /\ future[s] = "unpolled" /\ E = {"started"} /\ g = "armed"
           \/ f = "writing" /\ future[s] = "fetching" /\ E = {} /\ g = guard[s]
           \/ /\ f = "recorded" /\ future[s] \in {"fetching", "writing"} /\ g = "disarmed"
              /\ E = IF file'[s].at = "ok" THEN {"succeeded"} ELSE {"failed"}
           \/ /\ f = IF file[s].at = "ok" THEN "ok" ELSE "failed"
              /\ future[s] = "recorded" /\ E = {} /\ g = guard[s]
           \/ f = "dropped" /\ future[s] = "unpolled" /\ E = {} /\ g = guard[s]
           \/ f \in {"dropped", "panicked"} /\ future[s] = "fetching" /\ E = {"cancelled"} /\ g = guard[s]
    PROVE  /\ future' \in [Sends -> Futures] /\ guard' \in [Sends -> {"none", "armed", "disarmed"}]
           /\ emitted' \in [Sends -> [Events -> Nat]]
           /\ Told'
    <1>1. /\ future \in [Sends -> Futures] /\ guard \in [Sends -> {"none", "armed", "disarmed"}]
          /\ emitted \in [Sends -> [Events -> Nat]]
        BY DEF Inv, TypeOK
    <1>2. future' \in [Sends -> Futures] /\ guard' \in [Sends -> {"none", "armed", "disarmed"}]
        BY <1>1 DEF Become
    <1>3. /\ emitted' \in [Sends -> [Events -> Nat]]
          /\ \A r \in Sends : r # s => emitted'[r] = emitted[r]
          /\ \A e \in Events : emitted'[s][e] = IF e \in E THEN emitted[s][e] + 1 ELSE emitted[s][e]
        BY <1>1, EmittingCounts
    <1>4. /\ emitted'[s]["started"] = IF "started" \in E THEN emitted[s]["started"] + 1 ELSE emitted[s]["started"]
          /\ emitted'[s]["succeeded"] = IF "succeeded" \in E THEN emitted[s]["succeeded"] + 1 ELSE emitted[s]["succeeded"]
          /\ emitted'[s]["failed"] = IF "failed" \in E THEN emitted[s]["failed"] + 1 ELSE emitted[s]["failed"]
          /\ emitted'[s]["cancelled"] = IF "cancelled" \in E THEN emitted[s]["cancelled"] + 1 ELSE emitted[s]["cancelled"]
        BY <1>3 DEF Events
    <1>5. future'[s] = f /\ guard'[s] = g /\ \A r \in Sends : r # s => future'[r] = future[r] /\ guard'[r] = guard[r]
        BY <1>1 DEF Become
    <1>6. Told'
        <2> SUFFICES ASSUME NEW r \in Sends
                     PROVE  /\ future'[r] = "unpolled" => Count(r, 0, 0, 0, 0)' /\ guard'[r] = "none"
                            /\ future'[r] \in {"fetching", "writing"} => Count(r, 1, 0, 0, 0)' /\ guard'[r] = "armed"
                            /\ future'[r] = "recorded" => Result(r)' /\ guard'[r] = "disarmed"
                            /\ future'[r] = "ok" => Count(r, 1, 1, 0, 0)'
                            /\ future'[r] = "failed" => Count(r, 1, 0, 1, 0)'
                            /\ future'[r] = "panicked" => Count(r, 1, 0, 0, 1)'
                            /\ future'[r] = "dropped" => Count(r, 0, 0, 0, 0)' \/ Count(r, 1, 0, 0, 1)'
                            /\ future'[r] = "dead" =>
                                 Count(r, 1, 0, 0, 0)' \/ Count(r, 1, 1, 0, 0)' \/ Count(r, 1, 0, 1, 0)'
            BY DEF Told
        <2>1. CASE r # s
            BY <1>3, <1>5, <2>1 DEF Inv, Told, Count, Result
        <2>2. CASE r = s
            <3>1. /\ future[s] = "unpolled" => Count(s, 0, 0, 0, 0) /\ guard[s] = "none"
                  /\ future[s] \in {"fetching", "writing"} => Count(s, 1, 0, 0, 0) /\ guard[s] = "armed"
                  /\ future[s] = "recorded" => Result(s) /\ guard[s] = "disarmed"
                BY DEF Inv, Told
            <3> QED
                BY <1>4, <1>5, <2>2, <3>1 DEF Count, Result
        <2> QED  BY <2>1, <2>2
    <1> QED  BY <1>2, <1>3, <1>6

LEMMA StepKeeps ==
    ASSUME Inv, [Next]_vars
    PROVE  Inv'
    <1> USE TransportsAssumption, IndexAssumption
    <1>g. \A s \in Sends : guard = [guard EXCEPT ![s] = guard[s]]
        BY DEF Inv, TypeOK
    <1>1. CASE UNCHANGED vars
        BY <1>1 DEF vars, Inv, TypeOK, Claim, Owns, Together, Told, Count, Result
    <1>2. ASSUME NEW s \in Sends, FirstPoll(s) \/ Fetched(s)
          PROVE  Inv'
        <2>0. /\ file[s].at = "none" /\ UNCHANGED <<nextIndex, dir>>
              /\ future[s] \in {"unpolled", "fetching"} /\ file \in [Sends -> [at : Stages, path : 0..MaxIndex]]
              /\ \/ file' = file
                 \/ Become(s, "writing") /\ \E to \in {"naming", "rendering"} : file' = [file EXCEPT ![s].at = to]
            BY <1>2 DEF FirstPoll, Fetched, FileSend, Moved, fileVars, Inv, Together, TypeOK
        <2>1. file' \in [Sends -> [at : Stages, path : 0..MaxIndex]] /\ Claim'
            BY <2>0 DEF Stages, Inv, Claim, Owns
        <2>2. Together'
            BY <1>2, <2>0 DEF FirstPoll, Fetched, Become, Inv, TypeOK, Together
        <2>3. \A r \in Sends : r # s => file'[r] = file[r]
            BY <2>0
        <2>4. /\ future' \in [Sends -> Futures] /\ guard' \in [Sends -> {"none", "armed", "disarmed"}]
              /\ emitted' \in [Sends -> [Events -> Nat]] /\ Told'
            <3>1. CASE FirstPoll(s)
                <4>1. PICK f \in {"fetching", "writing"} : Become(s, f)
                    BY <3>1 DEF FirstPoll
                <4> QED  BY <2>3, <3>1, <4>1, FutureKeeps DEF FirstPoll, Futures
            <3>2. CASE Fetched(s)
                <4>1. Emitting(s, {}) /\ guard' = [guard EXCEPT ![s] = guard[s]]
                    <5>1. emitted \in [Sends -> [Events -> Nat]] /\ UNCHANGED <<emitted, guard>>
                        BY <3>2 DEF Fetched, Inv, TypeOK
                    <5>2. emitted[s] = [e \in Events |-> emitted[s][e]] /\ emitted = [emitted EXCEPT ![s] = emitted[s]]
                        BY <5>1
                    <5> QED  BY <1>g, <5>1, <5>2 DEF Emitting
                <4> QED  BY <2>3, <3>2, <4>1, FutureKeeps DEF Fetched, Futures, Inv, TypeOK
            <3> QED  BY <1>2, <3>1, <3>2
        <2> QED  BY <2>0, <2>1, <2>2, <2>4 DEF Inv, TypeOK
    <1>3. ASSUME NEW s \in Sends, FetchFails(s) \/ RecordSuccess(s) \/ RecordFailure(s)
          PROVE  Inv'
        <2>1. /\ UNCHANGED <<nextIndex, dir, file>> /\ Become(s, "recorded") /\ guard' = [guard EXCEPT ![s] = "disarmed"]
              /\ file[s].at \in {"none", "ok", "failed"} /\ future[s] \in {"fetching", "writing"}
              /\ Emitting(s, IF file'[s].at = "ok" THEN {"succeeded"} ELSE {"failed"})
            BY <1>3 DEF FetchFails, RecordSuccess, RecordFailure, Returned, fileVars, Inv, Together
        <2>2. /\ future' \in [Sends -> Futures] /\ guard' \in [Sends -> {"none", "armed", "disarmed"}]
              /\ emitted' \in [Sends -> [Events -> Nat]] /\ Told'
            BY <2>1, FutureKeeps DEF Futures
        <2>3. Claim' /\ Together'
            BY <2>1 DEF Become, Inv, TypeOK, Claim, Owns, Together
        <2> QED  BY <2>1, <2>2, <2>3 DEF Inv, TypeOK
    <1>4. ASSUME NEW s \in Sends, Return(s) \/ DropFuture(s) \/ Panic(s)
          PROVE  Inv'
        <2>1. UNCHANGED <<nextIndex, dir, file, guard>>
            BY <1>4 DEF Return, DropFuture, Panic
        <2>2. PICK f \in {"ok", "failed", "dropped", "panicked"} :
                /\ Become(s, f) /\ Emitting(s, GuardDropped(s))
                /\ \/ future[s] = "recorded" /\ f = IF file[s].at = "ok" THEN "ok" ELSE "failed"
                   \/ future[s] = "unpolled" /\ f = "dropped"
                   \/ future[s] = "fetching" /\ f \in {"dropped", "panicked"}
            BY <1>4 DEF Return, DropFuture, Panic
        <2>3. GuardDropped(s) = IF future[s] = "fetching" THEN {"cancelled"} ELSE {}
            BY <2>2 DEF GuardDropped, Inv, Told
        <2>4. /\ future' \in [Sends -> Futures] /\ guard' \in [Sends -> {"none", "armed", "disarmed"}]
              /\ emitted' \in [Sends -> [Events -> Nat]] /\ Told'
            <3>1. guard[s] \in {"none", "armed", "disarmed"} /\ guard' = [guard EXCEPT ![s] = guard[s]] /\ f \in Futures
                BY <1>g, <2>1 DEF Inv, TypeOK, Futures
            <3>2. \A r \in Sends : r # s => file'[r] = file[r]
                BY <2>1
            <3>3. CASE future[s] = "fetching"
                BY <2>2, <2>3, <3>1, <3>2, <3>3, FutureKeeps
            <3>4. CASE future[s] # "fetching"
                BY <2>2, <2>3, <3>1, <3>2, <3>4, FutureKeeps
            <3> QED  BY <3>3, <3>4
        <2>5. Claim' /\ Together'
            BY <2>1, <2>2 DEF Become, Inv, TypeOK, Claim, Owns, Together
        <2> QED  BY <2>1, <2>4, <2>5 DEF Inv, TypeOK
    <1>5. ASSUME NEW s \in Sends, InnerStep(s)
          PROVE  Inv'
        BY <1>5, FileStepKeeps DEF Inv
    <1>6. ASSUME NEW t \in Transports, Restart(t)
          PROVE  Inv'
        <2>1. TypeOK'
            BY <1>6 DEF Restart, Inv, TypeOK, Futures
        <2>2. Claim' /\ Together'
            BY <1>6 DEF Restart, Lives, Inv, Claim, Owns, Together
        <2>3. Told'
            <3>0. future' = [s \in Sends |-> IF TransportOf[s] = t /\ Lives(s) THEN "dead" ELSE future[s]]
                BY <1>6 DEF Restart
            <3>1. \A s \in Sends : \/ future'[s] = future[s]
                                   \/ future[s] \in {"fetching", "writing", "recorded"} /\ future'[s] = "dead"
                BY <3>0 DEF Lives
            <3>2. UNCHANGED <<file, guard, emitted>>
                BY <1>6 DEF Restart
            <3> QED  BY <3>1, <3>2 DEF Inv, Told, Count, Result
        <2> QED  BY <2>1, <2>2, <2>3 DEF Inv
    <1> QED
        BY <1>1, <1>2, <1>3, <1>4, <1>5, <1>6 DEF Next, Step

(* The inductive invariant of the proofs below. *)
THEOREM Invariance == Spec => []Inv
    <1>1. Init => Inv
        BY TransportsAssumption, IndexAssumption
        DEF Init, FileInit, Inv, TypeOK, Claim, Owns, Together, Told, Count, Paths, Absent, Stages, Futures, Events
    <1> QED
        BY <1>1, StepKeeps, PTL DEF Spec

(* The state of the FileTransports, of the futures and of their guards is  *)
(* always of its type.                                                     *)
THEOREM TypeCorrect == Spec => []TypeOK
    BY Invariance, PTL DEF Inv

(* Whatever path FileTransport::send reports names the whole message of    *)
(* that send, and goes on naming it.                                       *)
THEOREM ReportsHold == Spec => []ReportedPathsHold
    <1>1. Inv => ReportedPathsHold
        BY DEF Inv, TypeOK, Claim, Owns, Together, ReportedPathsHold
    <1> QED
        BY <1>1, Invariance, PTL

(* No step of create_next_file or write touches a file another send, or    *)
(* another program, has made, nor undoes a whole one.                      *)
THEOREM FilesAreSafe == Spec => NothingOverwritten
    <1> DEFINE Kept == \A p \in Paths : dir[p] # Absent => dir'[p].by = dir[p].by /\ (dir[p].size = "whole" => dir'[p].size = "whole")
    <1>1. ASSUME Inv, [Next]_vars
          PROVE  Kept
        <2>1. ASSUME NEW s \in Sends, FileStep(s)
              PROVE  Kept
            <3>1. CASE CreateNew(s)
                BY <1>1, <3>1 DEF CreateNew, Inv, TypeOK
            <3>2. CASE WriteAll(s)
                BY <1>1, <3>2 DEF WriteAll, Inv, TypeOK
            <3>3. CASE UNCHANGED dir
                BY <3>3
            <3> QED
                BY <2>1, <3>1, <3>2, <3>3 DEF FileStep, Render, RenderFails, NextPath, AlreadyExists, OpenFails, WriteFails
        <2>2. ASSUME UNCHANGED dir
              PROVE  Kept
            BY <2>2
        <2> QED
            BY <1>1, <2>1, <2>2 DEF Next, Step, InnerStep, FirstPoll, Fetched, FetchFails, DropFuture, Panic, Restart,
                RecordSuccess, RecordFailure, Return, FileSend, fileVars, vars
    <1> QED
        BY <1>1, Invariance, PTL DEF Spec, NothingOverwritten

(* trace_send tells the end of a send once, and the end it had. *)
THEOREM EndsAreTold == Spec => []OneEnding
    <1>1. Inv => OneEnding
        <2> SUFFICES ASSUME Inv, NEW s \in Sends
                     PROVE  /\ emitted[s]["started"] <= 1 /\ Endings(s) <= emitted[s]["started"]
                            /\ future[s] \in {"ok", "failed", "panicked"} => Endings(s) = 1
                            /\ future[s] = "dropped" => Endings(s) = emitted[s]["started"]
                            /\ future[s] = "ok" => emitted[s]["succeeded"] = 1
                            /\ future[s] = "failed" => emitted[s]["failed"] = 1
                            /\ future[s] = "panicked" => emitted[s]["cancelled"] = 1
            BY DEF OneEnding
        <2>1. future[s] \in Futures
            BY DEF Inv, TypeOK
        <2> QED
            BY <2>1 DEF Inv, Told, Count, Result, Futures, Endings
    <1> QED
        BY <1>1, Invariance, PTL
=============================================================================
