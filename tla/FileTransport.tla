---------------------------- MODULE FileTransport ----------------------------
(***************************************************************************)
(* email-transport-test's FileTransport: every send becomes one file of a  *)
(* directory that other transports, other processes and other programs     *)
(* write to as well.  The body of send has no await: once it runs, only a  *)
(* crash of its process stops it, but threads and processes interleave at  *)
(* the calls of the file system and at the lock of next_index.             *)
(***************************************************************************)
EXTENDS Naturals

CONSTANTS
    Sends,          \* calls of send and send_raw
    RawSends,       \* those of send_raw, which render nothing
    Transports,     \* FileTransports on the one directory
    TransportOf,    \* the transport of each send
    MaxIndex,       \* bound on next_index
    Foreign         \* files that were there before

ASSUME TransportsAssumption ==
    TransportOf \in [Sends -> Transports] /\ RawSends \subseteq Sends /\ "nobody" \notin Sends
ASSUME IndexAssumption == MaxIndex \in Nat /\ Foreign \subseteq 1..MaxIndex

VARIABLES
    nextIndex,      \* next_index of each transport
    dir,            \* the directory: what is under each name
    file            \* how far the body of each send is, and the path it claimed

fileVars == <<nextIndex, dir, file>>

Paths == 1..MaxIndex
Absent == [by |-> "nobody", size |-> "none"]
Stages == {"none", "rendering", "naming", "opening", "writing", "ok", "failed"}
Moved(s, from, to) == file[s].at = from /\ file' = [file EXCEPT ![s].at = to]

FileInit ==
    /\ nextIndex = [t \in Transports |-> 1]
    /\ dir = [p \in Paths |-> IF p \in Foreign THEN [by |-> "foreign", size |-> "whole"] ELSE Absent]
    /\ file = [s \in Sends |-> [at |-> "none", path |-> 0]]

FileSend(s) ==
    /\ Moved(s, "none", IF s \in RawSends THEN "naming" ELSE "rendering")
    /\ UNCHANGED <<nextIndex, dir>>

Render(s) == Moved(s, "rendering", "naming") /\ UNCHANGED <<nextIndex, dir>>
RenderFails(s) == Moved(s, "rendering", "failed") /\ UNCHANGED <<nextIndex, dir>>

(* A counter that is read and not advanced: a way to get this wrong. *)
KeepsIndex(s) ==
    /\ file[s].at = "naming" /\ nextIndex[TransportOf[s]] <= MaxIndex
    /\ file' = [file EXCEPT ![s] = [at |-> "opening", path |-> nextIndex[TransportOf[s]]]]
    /\ UNCHANGED <<dir, nextIndex>>

(* Under the lock: no two sends of one transport get the same index. *)
NextPath(s) ==
    LET t == TransportOf[s]
    IN  /\ file[s].at = "naming" /\ nextIndex[t] <= MaxIndex
        /\ file' = [file EXCEPT ![s] = [at |-> "opening", path |-> nextIndex[t]]]
        /\ nextIndex' = [nextIndex EXCEPT ![t] = @ + 1]
        /\ UNCHANGED dir

(* create in place of create_new, and an error of the write ignored: two   *)
(* more.                                                                   *)
OpensExisting(s) ==
    /\ Moved(s, "opening", "writing")
    /\ dir' = [dir EXCEPT ![file[s].path] = [by |-> s, size |-> "part"]]
    /\ UNCHANGED nextIndex
ReportsPartial(s) == Moved(s, "writing", "ok") /\ UNCHANGED <<nextIndex, dir>>

CreateNew(s) ==
    /\ Moved(s, "opening", "writing")
    /\ dir[file[s].path] = Absent
    /\ dir' = [dir EXCEPT ![file[s].path] = [by |-> s, size |-> "part"]]
    /\ UNCHANGED nextIndex

AlreadyExists(s) ==
    /\ Moved(s, "opening", "naming")
    /\ dir[file[s].path] # Absent
    /\ UNCHANGED <<nextIndex, dir>>

OpenFails(s) == Moved(s, "opening", "failed") /\ UNCHANGED <<nextIndex, dir>>

WriteAll(s) ==
    /\ Moved(s, "writing", "ok")
    /\ dir' = [dir EXCEPT ![file[s].path].size = "whole"]
    /\ UNCHANGED nextIndex

(* The file stays, with the part of the message that was written. *)
WriteFails(s) == Moved(s, "writing", "failed") /\ UNCHANGED <<nextIndex, dir>>

FileStep(s) ==
    \/ Render(s) \/ RenderFails(s) \/ NextPath(s) \/ CreateNew(s) \/ AlreadyExists(s)
    \/ OpenFails(s) \/ WriteAll(s) \/ WriteFails(s)

=============================================================================
