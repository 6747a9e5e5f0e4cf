------------------------ MODULE AttachmentPreparation ------------------------
(***************************************************************************)
(* email-attachment's AttachmentResolvingTransport over an OpendalResolver *)
(* (email-attachment-opendal): one send, from the size check of the bytes  *)
(* it came with, through the resolution of its references one after the    *)
(* other, to the handoff to the inner transport.                           *)
(*                                                                         *)
(* The store is external, and others write to it: what stat reports of an  *)
(* object need not be what a read then yields, and any call may fail.      *)
(* Sizes are all a body has here; MaxUsize is the largest usize.           *)
(***************************************************************************)
EXTENDS ErrorKinds, Integers, SequencesExt

CONSTANTS
  MaxParts,      \* bound: attachments of the message
  MaxUsize,      \* the largest usize
  BodySizes,     \* lengths of the bytes a message comes with
  MaxObject,     \* bound: bytes a read yields
  PartLimits,    \* values of max_attachment_bytes
  TotalLimits,   \* values of max_total_bytes
  ReadLimits     \* values of the resolver's max_bytes

NoLimit == -1

ASSUME PartsAssumption == MaxParts \in Nat
ASSUME UsizeAssumption == MaxUsize \in Nat
ASSUME SizesAssumption == BodySizes \subseteq 0..MaxUsize
(* A Vec never reaches usize::MAX bytes, nor does what it is read from. *)
ASSUME ObjectAssumption == MaxObject \in Nat /\ MaxObject < MaxUsize
ASSUME LimitsAssumption ==
  /\ PartLimits \cup TotalLimits \subseteq (0..MaxUsize) \cup {NoLimit}
  /\ ReadLimits \subseteq 0..MaxUsize

VARIABLES
  limits,    \* AttachmentLimits, and the resolver's max_bytes
  stats,     \* the store can stat
  message,   \* the message as it was passed to send
  pc,        \* where the send is
  at,        \* the attachment of the check, then of the preparation loop
  total,     \* total_bytes
  parts,     \* the attachments, references replaced by what they resolved to
  kept,      \* bytes the resolver retained of the current object
  yielded,   \* bytes the store yielded of it
  handed,    \* what the inner transport was called with, at most once
  failure    \* the kind of the failed resolution or check

config == <<limits, stats, message>>
vars == <<config, pc, at, total, parts, kept, yielded, handed, failure>>

Bytes(n) == [is |-> "bytes", size |-> n]
Reference == [is |-> "reference", size |-> 0]
Part == [is : {"bytes"}, size : 0..MaxUsize] \cup {Reference}
Messages == UNION {[1..n -> {Bytes(b) : b \in BodySizes} \cup {Reference}] : n \in 0..MaxParts}

References(m) == {i \in DOMAIN m : m[i].is = "reference"}

TypeOK ==
  /\ limits \in [part : PartLimits, total : TotalLimits, read : ReadLimits]
  /\ stats \in BOOLEAN
  /\ message \in Messages
  /\ pc \in {"check", "loop", "stat", "open", "read", "sent", "failed"}
  /\ at \in 1..(Len(message) + 1)
  /\ total \in 0..MaxUsize
  /\ parts \in Seq(Part) /\ Len(parts) = Len(message)
  /\ kept \in 0..MaxUsize
  /\ yielded \in 0..MaxObject
  /\ handed \in {<<>>, <<parts>>}
  /\ failure \in ResolveErrorKind \cup {"none"}

Init ==
  /\ limits \in [part : PartLimits, total : TotalLimits, read : ReadLimits]
  /\ stats \in BOOLEAN
  /\ message \in Messages
  /\ pc = "check"
  /\ at = 1
  /\ total = 0
  /\ parts = message
  /\ kept = 0
  /\ yielded = 0
  /\ handed = <<>>
  /\ failure = "none"

-------------------------------------------------------------------------------
(* The size policy. *)

Exceeds(n, limit) == limit # NoLimit /\ n > limit

(* What the first i of the sizes amount to, for each i. *)
PartialSums(sizes) ==
  LET upTo[i \in 0..Len(sizes)] == IF i = 0 THEN 0 ELSE upTo[i - 1] + sizes[i]
  IN upTo

Sum(sizes) == PartialSums(sizes)[Len(sizes)]

(* Mutant: the sum wraps instead of being checked. *)
WrappingTotal(current, additional) ==
  LET wrapped == (current + additional) % (MaxUsize + 1)
  IN IF Exceeds(additional, limits.part) \/ Exceeds(wrapped, limits.total)
     THEN {} ELSE {wrapped}

(* Mutant: only the limits are checked, and there may be none. *)
UncheckedTotal(current, additional) ==
  IF Exceeds(additional, limits.part) \/ Exceeds(current + additional, limits.total)
  THEN {} ELSE {current + additional}

(* Mutant: the limit itself is already too large. *)
ExclusiveLimit(current, additional) ==
  IF \/ Exceeds(additional, limits.part)
     \/ current + additional > MaxUsize
     \/ limits.total # NoLimit /\ current + additional >= limits.total
  THEN {} ELSE {current + additional}

(* enforce_attachment_limit, then checked_total: the new total, or nothing    *)
(* when a limit is exceeded or the sum overflows.                             *)
CheckedTotal(current, additional) ==
  IF \/ Exceeds(additional, limits.part)
     \/ current + additional > MaxUsize
     \/ Exceeds(current + additional, limits.total)
  THEN {} ELSE {current + additional}

-------------------------------------------------------------------------------
(* The transport. *)

Fail(kind) ==
  /\ pc' = "failed"
  /\ failure' = kind

(* The inner transport is called with the message as it is now. *)
HandOver(m) ==
  /\ pc' = "sent"
  /\ handed' = <<m>>

(* accumulate_byte_backed judges the bytes the message came with, one         *)
(* attachment after the other, whether it has references or not.              *)
CheckBytes ==
  /\ pc = "check"
  /\ at <= Len(message)
  /\ message[at].is = "bytes"
  /\ \/ /\ total' \in CheckedTotal(total, message[at].size)
        /\ at' = at + 1
        /\ UNCHANGED <<pc, failure>>
     \/ /\ CheckedTotal(total, message[at].size) = {}
        /\ Fail("TooLarge")
        /\ UNCHANGED <<at, total>>
  /\ UNCHANGED <<config, parts, kept, yielded, handed>>

PassReference ==
  /\ pc = "check"
  /\ at <= Len(message)
  /\ message[at].is = "reference"
  /\ at' = at + 1
  /\ UNCHANGED <<config, pc, total, parts, kept, yielded, handed, failure>>

SendUnchanged ==
  /\ pc = "check"
  /\ at > Len(message)
  /\ References(message) = {}
  /\ HandOver(message)
  /\ UNCHANGED <<config, at, total, parts, kept, yielded, failure>>

StartPreparation ==
  /\ pc = "check"
  /\ at > Len(message)
  /\ References(message) # {}
  /\ pc' = "loop"
  /\ at' = 1
  /\ UNCHANGED <<config, total, parts, kept, yielded, handed, failure>>

SkipBytes ==
  /\ pc = "loop"
  /\ at <= Len(parts)
  /\ parts[at].is = "bytes"
  /\ at' = at + 1
  /\ UNCHANGED <<config, pc, total, parts, kept, yielded, handed, failure>>

ResolveNext ==
  /\ pc = "loop"
  /\ at <= Len(parts)
  /\ parts[at].is = "reference"
  /\ pc' = IF stats THEN "stat" ELSE "open"
  /\ kept' = 0
  /\ yielded' = 0
  /\ UNCHANGED <<config, at, total, parts, handed, failure>>

(* Every reference is resolved.  The message was valid before, and its        *)
(* validation does not look at attachments, so it still is.                   *)
SendPrepared ==
  /\ pc = "loop"
  /\ at > Len(parts)
  /\ HandOver(parts)
  /\ UNCHANGED <<config, at, total, parts, kept, yielded, failure>>

(* Mutant: a reference that fails for good is left out and the rest is sent. *)
SkipsMissing(kind) ==
  /\ IF kind = "NotFound"
     THEN pc' = "loop" /\ at' = at + 1 /\ UNCHANGED failure
     ELSE Fail(kind) /\ UNCHANGED at
  /\ UNCHANGED <<config, total, parts, kept, yielded, handed>>

(* A failed resolution fails the send; the inner transport is not called. *)
ResolutionFails(kind) ==
  /\ Fail(kind)
  /\ UNCHANGED <<config, at, total, parts, kept, yielded, handed>>

(* The resolver's bytes, judged like the ones the message came with. *)
TakeResolved(n) ==
  \/ /\ CheckedTotal(total, n) # {}
     /\ total' \in CheckedTotal(total, n)
     /\ parts' = [parts EXCEPT ![at] = Bytes(n)]
     /\ pc' = "loop"
     /\ at' = at + 1
     /\ UNCHANGED <<config, kept, yielded, handed, failure>>
  \/ /\ CheckedTotal(total, n) = {}
     /\ ResolutionFails("TooLarge")

-------------------------------------------------------------------------------
(* OpendalResolver::resolve. *)

(* A path outside of the store's root: no call of the store. *)
PathRefused ==
  /\ pc = IF stats THEN "stat" ELSE "open"
  /\ ResolutionFails("UnsupportedReference")

StoreError ==
  \E kind \in OpendalKind, temporary \in BOOLEAN :
    ResolutionFails(ClassifyOpendalError(kind, temporary))

StoreFails == pc \in {"stat", "open", "read"} /\ StoreError

(* stat: an early rejection; its length is used for nothing else. *)
Stat ==
  /\ pc = "stat"
  /\ \E length \in 0..(MaxObject + 1) :
       \/ /\ length > limits.read
          /\ ResolutionFails("TooLarge")
       \/ /\ length <= limits.read
          /\ pc' = "open"
          /\ UNCHANGED <<config, at, total, parts, kept, yielded, handed, failure>>

OpenStream ==
  /\ pc = "open"
  /\ pc' = "read"
  /\ UNCHANGED <<config, at, total, parts, kept, yielded, handed, failure>>

(* Mutant: one byte past the limit is not asked for. *)
LimitWithoutSentinel == limits.read

(* max_bytes.saturating_add(1) *)
ReadLimit == IF limits.read = MaxUsize THEN MaxUsize ELSE limits.read + 1

(* Mutant: a whole buffer is retained before the length is looked at. *)
KeepsWholeBuffer(n) == kept + n

(* What is retained after a buffer of n bytes. *)
Retained(n) == IF n < ReadLimit - kept THEN kept + n ELSE ReadLimit

ReadBuffer ==
  /\ pc = "read"
  /\ kept < ReadLimit
  /\ \E n \in 1..(MaxObject - yielded) :
       /\ kept' = Retained(n)
       /\ yielded' = yielded + n
  /\ UNCHANGED <<config, pc, at, total, parts, handed, failure>>

(* The stream ends, or enough was read. *)
FinishRead ==
  /\ pc = "read"
  /\ \/ /\ kept > limits.read
        /\ ResolutionFails("TooLarge")
     \/ /\ kept <= limits.read
        /\ TakeResolved(kept)

Next ==
  \/ CheckBytes
  \/ PassReference
  \/ SendUnchanged
  \/ StartPreparation
  \/ SkipBytes
  \/ ResolveNext
  \/ SendPrepared
  \/ PathRefused
  \/ StoreFails
  \/ Stat
  \/ OpenStream
  \/ ReadBuffer
  \/ FinishRead

Spec == Init /\ [][Next]_vars

-------------------------------------------------------------------------------
Sizes(m) == [i \in DOMAIN m |-> m[i].size]

TooBig(m) ==
  \/ \E i \in DOMAIN m : Exceeds(m[i].size, limits.part)
  \/ Exceeds(Sum(Sizes(m)), limits.total)
  \/ Sum(Sizes(m)) > MaxUsize

(* What reaches the inner transport is the whole message, in its order: every *)
(* reference resolved, every byte-backed attachment as it was.  A send that   *)
(* failed half way through its references hands nothing over.                 *)
HandedOverWhole ==
  /\ handed # <<>> => pc = "sent"
  /\ pc = "sent" =>
       /\ References(handed[1]) = {}
       /\ Len(handed[1]) = Len(message)
       /\ \A i \in DOMAIN message \ References(message) : handed[1][i] = message[i]

(* No send gets around the size policy by carrying references, whatever the   *)
(* store reports of them, and none by making the sum overflow.                *)
LimitsHold ==
  pc = "sent" =>
    /\ ~TooBig(handed[1])
    /\ \A i \in References(message) : handed[1][i].size <= limits.read

(* ... nor is one refused for its size that has the right one: the attachments *)
(* resolved so far, or the object that is being read, are too large.           *)
RefusedOnlyForSize ==
  pc = "failed" /\ failure = "TooLarge" /\ ~stats =>
    \/ TooBig(parts)
    \/ yielded > limits.read
    \/ at <= Len(parts) /\ TooBig([parts EXCEPT ![at].size = yielded])

(* An attachment is never truncated: an object that grew past what stat said  *)
(* of it is refused or read to its end.                                       *)
NeverTruncated ==
  [][pc = "read" /\ pc' = "loop" => parts'[at].size = yielded]_vars

(* The resolver never holds more than one byte past its limit, however large  *)
(* the object has become since its stat.                                      *)
RetentionBounded == kept <= limits.read + 1
===============================================================================
