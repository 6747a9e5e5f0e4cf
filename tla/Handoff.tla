------------------------------- MODULE Handoff -------------------------------
(***************************************************************************)
(* What a transport promises about handing messages to its provider, seen  *)
(* from outside: Transport::send is a handoff contract.  A call returns a  *)
(* report only after the provider took the message; it may also fail or be *)
(* dropped while the handoff it began is still running, and the provider   *)
(* may take the message after that.  At most MaxInFlight handoffs run at   *)
(* any time, whether or not somebody waits for them, and a call that ended *)
(* before its handoff began never begins one.                              *)
(***************************************************************************)
EXTENDS Naturals, FiniteSets

CONSTANTS
  Sends,        \* calls of the transport
  MaxInFlight   \* the most handoffs running at once

VARIABLES
  call,         \* what the caller knows of each call
  handoff,      \* where the handoff of each call is
  taken         \* the calls whose message the provider took

vars == <<call, handoff, taken>>

Init ==
  /\ call = [s \in Sends |-> "idle"]
  /\ handoff = [s \in Sends |-> "none"]
  /\ taken = {}

Active == {s \in Sends : handoff[s] = "active"}

Begins(s) ==
  /\ handoff[s] = "none"
  /\ Cardinality(Active) < MaxInFlight
  /\ handoff' = [handoff EXCEPT ![s] = "active"]

(* The call is made; its handoff may begin at once. *)
Open(s) ==
  /\ call[s] = "idle"
  /\ call' = [call EXCEPT ![s] = "open"]
  /\ Begins(s) \/ UNCHANGED handoff
  /\ UNCHANGED taken

Begin(s) ==
  /\ call[s] = "open"
  /\ Begins(s)
  /\ UNCHANGED <<call, taken>>

Take(s) ==
  /\ handoff[s] = "active"
  /\ taken' = taken \cup {s}
  /\ UNCHANGED <<call, handoff>>

(* The provider may take the message in the very step that ends the handoff. *)
Finish(s) ==
  /\ handoff[s] = "active"
  /\ handoff' = [handoff EXCEPT ![s] = "over"]
  /\ taken' \in {taken, taken \cup {s}}
  /\ UNCHANGED call

Succeed(s) ==
  /\ call[s] = "open"
  /\ s \in taken
  /\ call' = [call EXCEPT ![s] = "ok"]
  /\ UNCHANGED <<handoff, taken>>

(* A rejected call fails without ever being open. *)
Fail(s) ==
  /\ call[s] \in {"idle", "open"}
  /\ call' = [call EXCEPT ![s] = "failed"]
  /\ UNCHANGED <<handoff, taken>>

Drop(s) ==
  /\ call[s] = "open"
  /\ call' = [call EXCEPT ![s] = "dropped"]
  /\ UNCHANGED <<handoff, taken>>

Next ==
  \E s \in Sends :
    \/ Open(s) \/ Begin(s) \/ Take(s) \/ Finish(s)
    \/ Succeed(s) \/ Fail(s) \/ Drop(s)

Spec == Init /\ [][Next]_vars
===============================================================================
