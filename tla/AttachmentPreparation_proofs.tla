--------------------- MODULE AttachmentPreparation_proofs ---------------------
(***************************************************************************)
(* What an AttachmentResolvingTransport over an OpendalResolver guarantees *)
(* for any message, any limits and any store.  The invariant follows the   *)
(* two passes over the attachments, ties what the resolver retained of an  *)
(* object to what the store yielded of it, and the running total to the    *)
(* sum of the sizes that were counted.                                     *)
(***************************************************************************)
EXTENDS AttachmentPreparation, WellFoundedInduction, TLAPS

(* A non-empty set of natural numbers has a least element. *)
LEMMA LeastNatural ==
    ASSUME NEW T, T \subseteq Nat, T # {}
    PROVE  \E x \in T : \A y \in T : x <= y
    <1> DEFINE R == OpToRel(<, Nat)
    <1>1. IsWellFoundedOn(R, Nat)
        BY NatLessThanWellFounded, Zenon
    <1>2. \A x, y \in Nat : y < x => <<y, x>> \in R
        BY DEF OpToRel
    <1> HIDE DEF R
    <1>3. PICK x \in T : \A y \in T : ~(<<y, x>> \in R)
        BY <1>1, WFMin
    <1>4. \A y \in T : ~(y < x)
        BY <1>2, <1>3
    <1> QED  BY <1>3, <1>4

(* A set that has 0 and with each natural number the next one has them all. *)
LEMMA SetInduction ==
    ASSUME NEW S, 0 \in S, \A n \in Nat : n \in S => n + 1 \in S
    PROVE  Nat \subseteq S
    <1> SUFFICES ASSUME Nat \ S # {} PROVE FALSE
        OBVIOUS
    <1>1. PICK x \in Nat \ S : \A y \in Nat \ S : x <= y
        BY LeastNatural
    <1>2. x # 0 /\ x - 1 \in Nat /\ x - 1 \in S
        BY <1>1
    <1> QED  BY <1>1, <1>2

(* The same up to a bound: each number may rely on the one before it. *)
LEMMA BoundedInduction ==
    ASSUME NEW S, NEW n \in Nat, 0 \in S, \A i \in 1..n : i - 1 \in S => i \in S
    PROVE  0..n \subseteq S
    <1> DEFINE T == {i \in Nat : i <= n => i \in S}
    <1>1. 0 \in T
        OBVIOUS
    <1>2. \A i \in Nat : i \in T => i + 1 \in T
        <2> TAKE i \in Nat
        <2> HAVE i \in T
        <2>1. CASE i + 1 <= n
            BY <2>1
        <2>2. CASE ~(i + 1 <= n)
            BY <2>2
        <2> QED  BY <2>1, <2>2
    <1> HIDE DEF T
    <1>3. Nat \subseteq T
        BY <1>1, <1>2, SetInduction
    <1> QED  BY <1>3 DEF T

(* What a recursive definition over 0..n asks of a function. *)
Recurs(f, n, base, step) ==
    f = [i \in 0..n |-> IF i = 0 THEN base ELSE step[i][f[i - 1]]]

(* There is such a function, with values of the type of its steps. *)
LEMMA RecursionExists ==
    ASSUME NEW T, NEW base \in T, NEW step \in [Nat -> [T -> T]], NEW n \in Nat
    PROVE  \E f \in [0..n -> T] : Recurs(f, n, base, step)
    <1> DEFINE S == {m \in Nat : \E f \in [0..m -> T] : Recurs(f, m, base, step)}
    <1>1. 0 \in S
        <2> DEFINE f == [i \in 0..0 |-> base]
        <2>1. f \in [0..0 -> T] /\ Recurs(f, 0, base, step)
            BY DEF Recurs
        <2> QED  BY <2>1
    <1>2. \A m \in Nat : m \in S => m + 1 \in S
        <2> TAKE m \in Nat
        <2> HAVE m \in S
        <2>1. PICK f \in [0..m -> T] : Recurs(f, m, base, step)
            OBVIOUS
        <2> DEFINE g == [i \in 0..(m + 1) |-> IF i = m + 1 THEN step[m + 1][f[m]] ELSE f[i]]
        <2>2. g \in [0..(m + 1) -> T]
            OBVIOUS
        <2>3. \A i \in 0..(m + 1) : g[i] = IF i = 0 THEN base ELSE step[i][g[i - 1]]
            <3> TAKE i \in 0..(m + 1)
            <3>1. CASE i = m + 1
                BY <3>1
            <3>2. CASE i \in 0..m
                <4>1. g[i] = f[i]
                    BY <3>2
                <4>2. i # 0 => g[i - 1] = f[i - 1]
                    BY <3>2
                <4> QED  BY <2>1, <3>2, <4>1, <4>2 DEF Recurs
            <3> QED  BY <3>1, <3>2
        <2>4. Recurs(g, m + 1, base, step)
            BY <2>2, <2>3 DEF Recurs
        <2> QED  BY <2>2, <2>4
    <1> HIDE DEF S
    <1>3. n \in S
        BY <1>1, <1>2, SetInduction
    <1> QED  BY <1>3 DEF S

-------------------------------------------------------------------------------
(* The inductive invariant. *)

Fits(part) == ~Exceeds(part.size, limits.part)

(* The pass over the bytes the message came with: everything up to at fits. *)
Checked ==
    /\ pc = "check" =>
         /\ parts = message
         /\ \A i \in 1..(at - 1) : message[i].is = "bytes" => Fits(message[i])
    /\ pc \in {"loop", "stat", "open", "read", "sent"} =>
         \A i \in DOMAIN message : parts[i].is = "bytes" => Fits(parts[i])

(* The pass over the references: everything up to at has bytes, and what had *)
(* bytes before has the same ones.                                           *)
Prepared ==
    /\ \A i \in DOMAIN message \ References(message) : parts[i] = message[i]
    /\ pc \in {"loop", "stat", "open", "read"} => \A i \in 1..(at - 1) : parts[i].is = "bytes"
    /\ pc \in {"stat", "open", "read"} => at <= Len(parts) /\ parts[at].is = "reference"
    /\ \A i \in References(message) : parts[i].is = "bytes" => parts[i].size <= limits.read

(* The bounded read: all that the store yielded, up to the bound. *)
RetainedUpToLimit == kept = IF yielded < ReadLimit THEN yielded ELSE ReadLimit

Delivered ==
    /\ handed # <<>> => pc = "sent"
    /\ pc = "sent" => handed = <<parts>> /\ References(parts) = {}

Inv == TypeOK /\ Checked /\ Prepared /\ RetainedUpToLimit /\ Delivered

-------------------------------------------------------------------------------
(* Sums of sizes. *)

(* The equation that defines them has a solution, in the natural numbers. *)
LEMMA PartialSumsAre ==
    ASSUME NEW sizes \in Seq(Nat)
    PROVE  /\ PartialSums(sizes) \in [0..Len(sizes) -> Nat]
           /\ PartialSums(sizes)[0] = 0
           /\ \A i \in 1..Len(sizes) : PartialSums(sizes)[i] = PartialSums(sizes)[i - 1] + sizes[i]
    <1> DEFINE n == Len(sizes)
               step == [i \in Nat |-> [x \in Nat |-> IF i \in 1..n THEN x + sizes[i] ELSE x]]
               Solves(f) == f = [i \in 0..n |-> IF i = 0 THEN 0 ELSE f[i - 1] + sizes[i]]
    <1>1. n \in Nat /\ \A i \in 1..n : sizes[i] \in Nat
        OBVIOUS
    <1> HIDE DEF n
    <1>2. step \in [Nat -> [Nat -> Nat]]
        BY <1>1
    <1>3. \A f \in [0..n -> Nat] : Recurs(f, n, 0, step) <=> Solves(f)
        <2> TAKE f \in [0..n -> Nat]
        <2>1. \A i \in 1..n : i \in Nat /\ i - 1 \in 0..n /\ f[i - 1] \in Nat
            BY <1>1
        <2>2. \A i \in 1..n : step[i][f[i - 1]] = f[i - 1] + sizes[i]
            BY <1>1, <2>1
        <2> HIDE DEF step
        <2>3. \A i \in 0..n : (IF i = 0 THEN 0 ELSE step[i][f[i - 1]]) = (IF i = 0 THEN 0 ELSE f[i - 1] + sizes[i])
            <3> TAKE i \in 0..n
            <3>1. i = 0 \/ i \in 1..n
                BY <1>1
            <3> QED  BY <2>2, <3>1
        <2> QED  BY <2>3, Zenon DEF Recurs
    <1> HIDE DEF step
    <1>4. PICK f \in [0..n -> Nat] : Recurs(f, n, 0, step)
        BY <1>1, <1>2, RecursionExists
    <1>5. Solves(f)
        BY <1>3, <1>4
    <1>6. PartialSums(sizes) = CHOOSE g : Solves(g)
        BY DEF PartialSums, n
    <1>7. Solves(PartialSums(sizes))
        <2> HIDE DEF Solves
        <2> QED  BY <1>5, <1>6
    <1> DEFINE g == PartialSums(sizes)
    <1> HIDE DEF g
    <1>8. \A i \in 0..n : g[i] = f[i]
        <2> DEFINE S == {i \in 0..n : g[i] = f[i]}
        <2>1. 0 \in S
            BY <1>1, <1>5, <1>7 DEF g
        <2>2. \A i \in 1..n : i - 1 \in S => i \in S
            BY <1>1, <1>5, <1>7 DEF g
        <2> HIDE DEF S
        <2>3. 0..n \subseteq S
            BY <1>1, <2>1, <2>2, BoundedInduction
        <2> QED  BY <2>3 DEF S
    <1>9. g \in [0..n -> Nat]
        BY <1>4, <1>7, <1>8 DEF g
    <1>10. g[0] = 0 /\ \A i \in 1..n : g[i] = g[i - 1] + sizes[i]
        BY <1>1, <1>7 DEF g
    <1> QED  BY <1>9, <1>10 DEF g, n

(* What the first attachments amount to is part of what all do. *)
LEMMA PartialSumsGrow ==
    ASSUME NEW sizes \in Seq(Nat), NEW i \in 0..Len(sizes)
    PROVE  PartialSums(sizes)[i] <= Sum(sizes)
    <1> DEFINE g == PartialSums(sizes)
               n == Len(sizes)
               S == {k \in 0..n : k <= n - i => g[i] <= g[i + k]}
    <1>1. n \in Nat /\ g \in [0..n -> Nat] /\ \A k \in 1..n : g[k] = g[k - 1] + sizes[k] /\ sizes[k] \in Nat
        BY PartialSumsAre
    <1>2. i \in 0..n
        OBVIOUS
    <1> HIDE DEF g, n
    <1>3. 0 \in S
        BY <1>1, <1>2
    <1>4. \A k \in 1..n : k - 1 \in S => k \in S
        <2> SUFFICES ASSUME NEW k \in 1..n, k - 1 \in S, k <= n - i PROVE k \in S
            BY <1>1
        <2>1. i + k \in 1..n /\ i + (k - 1) = (i + k) - 1 /\ k - 1 <= n - i
            BY <1>1, <1>2
        <2>2. g[i] <= g[(i + k) - 1] /\ g[i + k] = g[(i + k) - 1] + sizes[i + k] /\ sizes[i + k] \in Nat
            BY <1>1, <2>1
        <2>3. g[i] \in Nat /\ g[(i + k) - 1] \in Nat
            BY <1>1, <1>2, <2>1
        <2> QED  BY <1>1, <2>2, <2>3
    <1> HIDE DEF S
    <1>5. 0..n \subseteq S
        BY <1>1, <1>3, <1>4, BoundedInduction
    <1>6. n - i \in S /\ i + (n - i) = n
        BY <1>1, <1>2, <1>5
    <1> QED  BY <1>6 DEF S, g, n, Sum

(* An entry that was 0 adds what it becomes. *)
LEMMA OneMoreSize ==
    ASSUME NEW sizes \in Seq(Nat), NEW j \in 1..Len(sizes), NEW n \in Nat, sizes[j] = 0
    PROVE  /\ [sizes EXCEPT ![j] = n] \in Seq(Nat)
           /\ Sum([sizes EXCEPT ![j] = n]) = Sum(sizes) + n
    <1> DEFINE more == [sizes EXCEPT ![j] = n]
               f == PartialSums(sizes)
               g == PartialSums(more)
               l == Len(sizes)
               S == {i \in 0..l : g[i] = IF i < j THEN f[i] ELSE f[i] + n}
    <1>1. /\ more \in Seq(Nat) /\ Len(more) = l /\ l \in Nat /\ j \in 1..l
          /\ more[j] = n /\ \A i \in 1..l : sizes[i] \in Nat /\ (i # j => more[i] = sizes[i])
        OBVIOUS
    <1> HIDE DEF more
    <1>2. f \in [0..l -> Nat] /\ f[0] = 0 /\ \A i \in 1..l : f[i] = f[i - 1] + sizes[i]
        BY PartialSumsAre
    <1>3. g \in [0..l -> Nat] /\ g[0] = 0 /\ \A i \in 1..l : g[i] = g[i - 1] + more[i]
        BY <1>1, PartialSumsAre
    <1> HIDE DEF f, g, l
    <1>4. 0 \in S
        BY <1>1, <1>2, <1>3
    <1>5. \A i \in 1..l : i - 1 \in S => i \in S
        <2> SUFFICES ASSUME NEW i \in 1..l, i - 1 \in S PROVE i \in S
            OBVIOUS
        <2>1. i - 1 \in 0..l /\ f[i - 1] \in Nat /\ f[i] = f[i - 1] + sizes[i] /\ g[i] = g[i - 1] + more[i]
            BY <1>1, <1>2, <1>3
        <2>2. CASE i < j
            BY <1>1, <2>1, <2>2
        <2>3. CASE i = j
            BY <1>1, <2>1, <2>3
        <2>4. CASE i > j
            <3>1. g[i - 1] = f[i - 1] + n /\ more[i] = sizes[i] /\ sizes[i] \in Nat
                BY <1>1, <2>4
            <3>2. g[i] = f[i] + n
                BY <2>1, <3>1
            <3>3. ~(i < j)
                BY <1>1, <2>4
            <3> QED  BY <3>2, <3>3
        <2> QED  BY <1>1, <2>2, <2>3, <2>4
    <1> HIDE DEF S
    <1>6. 0..l \subseteq S
        BY <1>1, <1>4, <1>5, BoundedInduction
    <1>7. l \in S
        BY <1>1, <1>6
    <1> QED  BY <1>1, <1>7 DEF S, f, g, more, l, Sum

(* The attachments as sizes; a reference has none. *)
LEMMA SizesAre ==
    ASSUME NEW m \in Seq(Part)
    PROVE  /\ Sizes(m) \in Seq(Nat) /\ Len(Sizes(m)) = Len(m)
           /\ \A i \in 1..Len(m) : Sizes(m)[i] = m[i].size /\ (m[i].is = "reference" => m[i].size = 0)
    <1>1. \A i \in 1..Len(m) : m[i].size \in Nat /\ (m[i].is = "reference" => m[i].size = 0)
        BY UsizeAssumption DEF Part, Reference
    <1> QED  BY <1>1 DEF Sizes

-------------------------------------------------------------------------------
LEMMA MessagesAreSequences ==
    ASSUME NEW m \in Messages
    PROVE  m \in Seq(Part) /\ Len(m) \in 0..MaxParts /\ DOMAIN m = 1..Len(m)
    <1>1. PICK n \in 0..MaxParts : m \in [1..n -> {Bytes(b) : b \in BodySizes} \cup {Reference}]
        BY DEF Messages
    <1>2. {Bytes(b) : b \in BodySizes} \cup {Reference} \subseteq Part
        BY SizesAssumption DEF Bytes, Part
    <1>3. m \in [1..n -> Part]
        BY <1>1, <1>2
    <1> QED  BY <1>3, PartsAssumption

LEMMA TotalsFit ==
    ASSUME TypeOK, NEW n \in 0..MaxUsize
    PROVE  /\ CheckedTotal(total, n) \subseteq 0..MaxUsize
           /\ CheckedTotal(total, n) # {} => ~Exceeds(n, limits.part)
    BY UsizeAssumption DEF TypeOK, CheckedTotal

LEMMA ReadLimitBounds ==
    ASSUME TypeOK
    PROVE  /\ limits.read \in 0..MaxUsize
           /\ ReadLimit \in 0..MaxUsize
           /\ limits.read <= ReadLimit /\ ReadLimit <= limits.read + 1
           /\ limits.read = MaxUsize \/ ReadLimit = limits.read + 1
    <1>1. limits.read \in 0..MaxUsize
        BY LimitsAssumption DEF TypeOK
    <1> QED  BY <1>1, UsizeAssumption DEF ReadLimit

(* A read that may be taken has everything the store yielded. *)
LEMMA TakenIsYielded ==
    ASSUME TypeOK, RetainedUpToLimit, kept <= limits.read
    PROVE  kept = yielded
    BY ReadLimitBounds, ObjectAssumption, UsizeAssumption DEF TypeOK, RetainedUpToLimit

LEMMA Initially == Init => Inv
    <1> SUFFICES ASSUME Init PROVE Inv
        OBVIOUS
    <1>1. message \in Seq(Part) /\ Len(message) \in Nat /\ DOMAIN message = 1..Len(message)
        BY MessagesAreSequences DEF Init
    <1>2. TypeOK
        BY <1>1, UsizeAssumption, ObjectAssumption DEF Init, TypeOK
    <1>3. Checked /\ Delivered
        BY <1>1 DEF Init, Checked, Delivered
    <1>4. Prepared
        BY <1>1 DEF Init, Prepared, References
    <1>5. RetainedUpToLimit
        BY <1>2, ReadLimitBounds DEF Init, RetainedUpToLimit
    <1> QED  BY <1>2, <1>3, <1>4, <1>5 DEF Inv

-------------------------------------------------------------------------------
(* The steps. *)

LEMMA FailureKeeps ==
    ASSUME Inv, NEW kind \in ResolveErrorKind, pc # "sent", ResolutionFails(kind)
    PROVE  Inv'
    BY DEF Inv, TypeOK, Checked, Prepared, RetainedUpToLimit, Delivered, ResolutionFails, Fail,
           config, ReadLimit, Fits, Exceeds, References

LEMMA CheckKeeps ==
    ASSUME Inv, CheckBytes \/ PassReference
    PROVE  Inv'
    <1>1. message \in Seq(Part) /\ DOMAIN message = 1..Len(message) /\ Len(message) \in Nat
        BY MessagesAreSequences DEF Inv, TypeOK
    <1>2. at \in 1..Len(message) /\ pc = "check" /\ UNCHANGED <<limits, stats, message, parts, kept, yielded, handed>>
        BY <1>1 DEF Inv, TypeOK, CheckBytes, PassReference, config
    <1>3. message[at] \in Part
        BY <1>1, <1>2
    <1>4. RetainedUpToLimit' /\ Delivered'
        BY <1>2 DEF Inv, RetainedUpToLimit, ReadLimit, Delivered, CheckBytes, PassReference, Fail
    <1>5. CASE CheckBytes
        <2>1. message[at].size \in 0..MaxUsize
            BY <1>3, <1>5, UsizeAssumption DEF CheckBytes, Part, Reference
        <2>2. CASE CheckedTotal(total, message[at].size) = {}
            <3>1. UNCHANGED <<at, total>> /\ pc' = "failed" /\ failure' = "TooLarge"
                BY <1>5, <2>2 DEF CheckBytes, Fail
            <3> QED  BY <1>2, <1>4, <3>1 DEF Inv, TypeOK, Checked, Prepared, References, ResolveErrorKind
        <2>3. CASE CheckedTotal(total, message[at].size) # {}
            <3>1. total' \in CheckedTotal(total, message[at].size) /\ at' = at + 1 /\ UNCHANGED <<pc, failure>>
                BY <1>5, <2>3 DEF CheckBytes
            <3>2. total' \in 0..MaxUsize /\ ~Exceeds(message[at].size, limits.part)
                BY <2>1, <2>3, <3>1, TotalsFit DEF Inv
            <3>3. TypeOK'
                BY <1>1, <1>2, <3>1, <3>2 DEF Inv, TypeOK
            <3>4. Checked'
                BY <1>1, <1>2, <3>1, <3>2 DEF Inv, Checked, Fits, Exceeds
            <3>5. Prepared'
                BY <1>2, <3>1 DEF Inv, Prepared, References
            <3> QED  BY <1>4, <3>3, <3>4, <3>5 DEF Inv
        <2> QED  BY <2>2, <2>3
    <1>6. CASE PassReference
        <2>1. at' = at + 1 /\ UNCHANGED <<pc, total, failure>> /\ message[at].is = "reference"
            BY <1>6 DEF PassReference
        <2>2. TypeOK'
            BY <1>1, <1>2, <2>1 DEF Inv, TypeOK
        <2>3. Checked'
            BY <1>1, <1>2, <2>1 DEF Inv, Checked, Fits, Exceeds
        <2>4. Prepared'
            BY <1>2, <2>1 DEF Inv, Prepared, References
        <2> QED  BY <1>4, <2>2, <2>3, <2>4 DEF Inv
    <1> QED  BY <1>5, <1>6

(* Steps that move on without a verdict on any attachment. *)
LEMMA MovingOnKeeps ==
    ASSUME Inv, \/ StartPreparation \/ SkipBytes \/ ResolveNext
                \/ OpenStream \/ (Stat /\ pc' = "open")
    PROVE  Inv'
    <1>1. message \in Seq(Part) /\ DOMAIN message = 1..Len(message) /\ Len(message) \in Nat
        BY MessagesAreSequences DEF Inv, TypeOK
    <1>2. UNCHANGED <<limits, stats, message, total, parts, handed, failure>>
        BY DEF StartPreparation, SkipBytes, ResolveNext, Stat, OpenStream, ResolutionFails, Fail, config
    <1>3. /\ pc # "sent" /\ pc' \in {"loop", "stat", "open", "read"}
          /\ pc' # "loop" => at' <= Len(parts) /\ parts[at'].is = "reference"
        BY DEF Inv, Prepared, StartPreparation, SkipBytes, ResolveNext, Stat, OpenStream, ResolutionFails, config
    <1>4. /\ at' \in 1..(Len(message) + 1)
          /\ \A i \in 1..(at' - 1) : parts[i].is = "bytes"
        <2>1. CASE StartPreparation
            BY <1>1, <2>1 DEF StartPreparation
        <2>2. CASE SkipBytes
            <3>1. at \in 1..Len(message) /\ at' = at + 1 /\ parts[at].is = "bytes"
                BY <1>1, <2>2 DEF SkipBytes, Inv, TypeOK
            <3>2. \A i \in 1..(at - 1) : parts[i].is = "bytes"
                BY <2>2 DEF SkipBytes, Inv, Prepared
            <3> QED  BY <1>1, <3>1, <3>2
        <2>3. CASE ResolveNext \/ OpenStream \/ (Stat /\ pc' = "open")
            BY <2>3 DEF ResolveNext, OpenStream, Stat, ResolutionFails, Inv, TypeOK, Prepared
        <2> QED  BY <2>1, <2>2, <2>3
    <1>5. \/ UNCHANGED <<kept, yielded>>
          \/ kept' = 0 /\ yielded' = 0
        BY DEF StartPreparation, SkipBytes, ResolveNext, Stat, OpenStream, ResolutionFails
    <1>6. RetainedUpToLimit'
        BY <1>2, <1>5, ReadLimitBounds DEF Inv, RetainedUpToLimit, ReadLimit
    <1>7. TypeOK'
        BY <1>2, <1>3, <1>4, <1>5, UsizeAssumption, ObjectAssumption DEF Inv, TypeOK
    <1>8. Checked'
        <2>1. \A i \in DOMAIN message : parts[i].is = "bytes" => Fits(parts[i])
            BY <1>1 DEF Inv, TypeOK, Checked, StartPreparation, SkipBytes, ResolveNext, Stat, OpenStream
        <2> QED  BY <1>2, <1>3, <2>1 DEF Checked, Fits, Exceeds
    <1>9. Prepared'
        BY <1>2, <1>3, <1>4 DEF Inv, Prepared, References
    <1>10. Delivered'
        BY <1>2, <1>3 DEF Inv, Delivered
    <1> QED  BY <1>6, <1>7, <1>8, <1>9, <1>10 DEF Inv

LEMMA HandingOverKeeps ==
    ASSUME Inv, SendUnchanged \/ SendPrepared
    PROVE  Inv'
    <1>1. message \in Seq(Part) /\ DOMAIN message = 1..Len(message) /\ Len(message) \in Nat
        BY MessagesAreSequences DEF Inv, TypeOK
    <1>2. UNCHANGED <<limits, stats, message, at, total, parts, kept, yielded, failure>> /\ pc' = "sent"
        BY DEF SendUnchanged, SendPrepared, HandOver, config
    <1>3. handed' = <<parts>>
        BY DEF SendUnchanged, SendPrepared, HandOver, Inv, Checked
    <1>4. /\ References(parts) = {}
          /\ \A i \in DOMAIN message : parts[i].is = "bytes" => Fits(parts[i])
        <2>1. CASE SendUnchanged
            BY <1>1, <2>1 DEF SendUnchanged, Inv, TypeOK, Checked, References
        <2>2. CASE SendPrepared
            <3>1. at = Len(parts) + 1 /\ Len(parts) = Len(message) /\ parts \in Seq(Part)
                BY <1>1, <2>2 DEF SendPrepared, Inv, TypeOK
            <3> QED  BY <1>1, <2>2, <3>1 DEF SendPrepared, Inv, Checked, Prepared, References
        <2> QED  BY <2>1, <2>2
    <1>5. TypeOK' /\ RetainedUpToLimit'
        BY <1>2, <1>3 DEF Inv, TypeOK, RetainedUpToLimit, ReadLimit
    <1>6. Checked' /\ Delivered'
        BY <1>2, <1>3, <1>4 DEF Checked, Fits, Exceeds, Delivered, References
    <1>7. Prepared'
        BY <1>2 DEF Inv, Prepared, References
    <1> QED  BY <1>5, <1>6, <1>7 DEF Inv

LEMMA ReadingKeeps ==
    ASSUME Inv, ReadBuffer
    PROVE  Inv'
    <1>1. PICK n \in 1..(MaxObject - yielded) : kept' = Retained(n) /\ yielded' = yielded + n
        BY DEF ReadBuffer
    <1>2. UNCHANGED <<limits, stats, message, pc, at, total, parts, handed, failure>>
        BY DEF ReadBuffer, config
    <1>3. kept < ReadLimit /\ kept \in Nat /\ yielded \in Nat /\ yielded + n <= MaxObject
        BY <1>1, UsizeAssumption, ObjectAssumption DEF ReadBuffer, Inv, TypeOK
    <1>4. kept' = IF yielded' < ReadLimit THEN yielded' ELSE ReadLimit
        BY <1>1, <1>3, ReadLimitBounds, UsizeAssumption DEF Inv, RetainedUpToLimit, Retained
    <1>5. kept' \in 0..MaxUsize /\ yielded' \in 0..MaxObject
        BY <1>1, <1>3, <1>4, ReadLimitBounds, UsizeAssumption, ObjectAssumption DEF Inv
    <1>6. TypeOK' /\ RetainedUpToLimit'
        BY <1>2, <1>4, <1>5 DEF Inv, TypeOK, RetainedUpToLimit, ReadLimit
    <1>7. Checked' /\ Prepared' /\ Delivered'
        BY <1>2 DEF Inv, Checked, Prepared, Delivered, Fits, Exceeds, References
    <1> QED  BY <1>6, <1>7 DEF Inv

LEMMA FinishingKeeps ==
    ASSUME Inv, FinishRead
    PROVE  Inv'
    <1>1. message \in Seq(Part) /\ DOMAIN message = 1..Len(message) /\ Len(message) \in Nat
        BY MessagesAreSequences DEF Inv, TypeOK
    <1>2. /\ pc = "read" /\ at \in 1..Len(message) /\ parts[at].is = "reference"
          /\ parts \in Seq(Part) /\ Len(parts) = Len(message) /\ kept \in 0..MaxUsize
        BY <1>1 DEF FinishRead, Inv, TypeOK, Prepared
    <1>3. CASE \E kind \in ResolveErrorKind : ResolutionFails(kind)
        BY <1>2, <1>3, FailureKeeps
    <1>4. CASE kept <= limits.read /\ CheckedTotal(total, kept) # {} /\ TakeResolved(kept)
        <2>1. /\ total' \in CheckedTotal(total, kept) /\ parts' = [parts EXCEPT ![at] = Bytes(kept)]
              /\ pc' = "loop" /\ at' = at + 1
              /\ UNCHANGED <<limits, stats, message, kept, yielded, handed, failure>>
            BY <1>4 DEF TakeResolved, config
        <2>2. total' \in 0..MaxUsize /\ ~Exceeds(kept, limits.part)
            BY <1>2, <1>4, <2>1, TotalsFit DEF Inv
        <2>3. Bytes(kept) \in Part
            BY <1>2 DEF Bytes, Part
        <2>4. /\ parts' \in Seq(Part) /\ Len(parts') = Len(parts) /\ parts'[at] = Bytes(kept)
              /\ \A i \in DOMAIN message : i # at => parts'[i] = parts[i]
            BY <1>1, <1>2, <2>1, <2>3
        <2>5. handed = <<>>
            BY <1>2 DEF Inv, TypeOK, Delivered
        <2>6. TypeOK'
            BY <1>1, <1>2, <2>1, <2>2, <2>4, <2>5 DEF Inv, TypeOK
        <2>7. Checked'
            BY <1>2, <2>1, <2>2, <2>4 DEF Inv, Checked, Fits, Exceeds, Bytes
        <2>8. Prepared'
            <3>1. at \in References(message)
                BY <1>1, <1>2 DEF Inv, Prepared, References
            <3>2. \A i \in DOMAIN message \ References(message) : parts'[i] = message[i]
                BY <2>1, <2>4, <3>1 DEF Inv, Prepared
            <3>3. \A i \in 1..(at' - 1) : parts'[i].is = "bytes"
                BY <1>2, <1>1, <2>1, <2>4 DEF Inv, Prepared, Bytes
            <3>4. \A i \in References(message) : parts'[i].is = "bytes" => parts'[i].size <= limits.read
                BY <1>4, <2>1, <2>4 DEF Inv, Prepared, Bytes, References
            <3> QED  BY <2>1, <3>2, <3>3, <3>4 DEF Prepared, References
        <2>9. RetainedUpToLimit' /\ Delivered'
            BY <2>1, <2>5 DEF Inv, RetainedUpToLimit, ReadLimit, Delivered
        <2> QED  BY <2>6, <2>7, <2>8, <2>9 DEF Inv
    <1> QED  BY <1>3, <1>4 DEF FinishRead, TakeResolved, ResolveErrorKind

LEMMA ClassifiesAsResolveError ==
    ASSUME NEW kind \in OpendalKind, NEW temporary \in BOOLEAN
    PROVE  ClassifyOpendalError(kind, temporary) \in ResolveErrorKind
    BY DEF ClassifyOpendalError, ResolveErrorKind

LEMMA RefusalKeeps ==
    ASSUME Inv, PathRefused \/ StoreFails \/ (Stat /\ pc' # "open")
    PROVE  Inv'
    <1>1. pc # "sent"
        BY DEF PathRefused, StoreFails, Stat
    <1>2. \E kind \in ResolveErrorKind : ResolutionFails(kind)
        <2>1. CASE PathRefused
            BY <2>1 DEF PathRefused, ResolveErrorKind
        <2>2. CASE StoreFails
            BY <2>2, ClassifiesAsResolveError DEF StoreFails, StoreError
        <2>3. CASE Stat /\ pc' # "open"
            BY <2>3 DEF Stat, ResolveErrorKind
        <2> QED  BY <2>1, <2>2, <2>3
    <1> QED  BY <1>1, <1>2, FailureKeeps

LEMMA StepKeeps == Inv /\ [Next]_vars => Inv'
    <1> SUFFICES ASSUME Inv, [Next]_vars PROVE Inv'
        OBVIOUS
    <1>1. CASE CheckBytes \/ PassReference
        BY <1>1, CheckKeeps
    <1>2. CASE StartPreparation \/ SkipBytes \/ ResolveNext \/ OpenStream \/ (Stat /\ pc' = "open")
        BY <1>2, MovingOnKeeps
    <1>3. CASE SendUnchanged \/ SendPrepared
        BY <1>3, HandingOverKeeps
    <1>4. CASE PathRefused \/ StoreFails \/ (Stat /\ pc' # "open")
        BY <1>4, RefusalKeeps
    <1>5. CASE ReadBuffer
        BY <1>5, ReadingKeeps
    <1>6. CASE FinishRead
        BY <1>6, FinishingKeeps
    <1>7. CASE UNCHANGED vars
        BY <1>7 DEF vars, config, Inv, TypeOK, Checked, Prepared, RetainedUpToLimit, Delivered,
                    ReadLimit, Fits, Exceeds, References
    <1>8. CASE Stat
        BY <1>2, <1>4, <1>8
    <1> QED  BY <1>1, <1>2, <1>3, <1>4, <1>5, <1>6, <1>7, <1>8 DEF Next

-------------------------------------------------------------------------------
(* The invariant holds of every send of a resolving transport. *)
THEOREM Invariance == Spec => []Inv
    BY Initially, StepKeeps, PTL DEF Spec

(* The state of a send is what its fields can hold: no total of sizes that    *)
(* were checked overflows, and the resolver's buffer stays a buffer.          *)
THEOREM TypeCorrect == Spec => []TypeOK
    <1>1. Inv => TypeOK
        BY DEF Inv
    <1> QED  BY <1>1, Invariance, PTL

(* The inner transport is called with the whole message, every reference      *)
(* resolved and everything else as it was, or not at all.                     *)
THEOREM WholeOrNothing == Spec => []HandedOverWhole
    <1>1. Inv => HandedOverWhole
        <2> SUFFICES ASSUME Inv PROVE HandedOverWhole
            OBVIOUS
        <2>1. pc = "sent" => handed[1] = parts
            BY DEF Inv, Delivered
        <2> QED  BY <2>1 DEF Inv, TypeOK, Prepared, Delivered, HandedOverWhole
    <1> QED  BY <1>1, Invariance, PTL

(* The resolver holds at most one byte more than its limit, however large an  *)
(* object has become since it was asked for its size.                         *)
THEOREM RetentionStaysBounded == Spec => []RetentionBounded
    <1>1. Inv => RetentionBounded
        <2> SUFFICES ASSUME Inv PROVE RetentionBounded
            OBVIOUS
        <2>1. yielded \in Nat
            BY ObjectAssumption DEF Inv, TypeOK
        <2> QED  BY <2>1, ReadLimitBounds, UsizeAssumption DEF Inv, RetainedUpToLimit, RetentionBounded
    <1> QED  BY <1>1, Invariance, PTL

(* A resolved attachment is the object as the store yielded it, to its end. *)
THEOREM NoTruncation == Spec => NeverTruncated
    <1>1. Inv /\ [Next]_vars => [pc = "read" /\ pc' = "loop" => parts'[at].size = yielded]_vars
        <2> SUFFICES ASSUME Inv, Next, pc = "read", pc' = "loop" PROVE parts'[at].size = yielded
            OBVIOUS
        <2>1. FinishRead /\ kept <= limits.read /\ TakeResolved(kept)
            BY DEF Next, CheckBytes, PassReference, SendUnchanged, StartPreparation, SkipBytes, ResolveNext,
                   SendPrepared, PathRefused, StoreFails, StoreError, Stat, OpenStream, ReadBuffer, FinishRead,
                   ResolutionFails, Fail
        <2>2. parts' = [parts EXCEPT ![at] = Bytes(kept)]
            BY <2>1 DEF TakeResolved, ResolutionFails, Fail
        <2>3. at \in 1..Len(parts) /\ parts \in Seq(Part)
            <3>1. Len(message) \in Nat
                BY MessagesAreSequences DEF Inv, TypeOK
            <3> QED  BY <3>1 DEF Inv, TypeOK, Prepared
        <2> QED  BY <2>1, <2>2, <2>3, TakenIsYielded DEF Inv, Bytes
    <1> QED  BY <1>1, Invariance, PTL DEF Spec, NeverTruncated

(* Every attachment of a message that reaches the inner transport is within   *)
(* the limit for one, and a resolved one within the resolver's as well.       *)
THEOREM EachAttachmentFits ==
    Spec => [](pc = "sent" =>
                 /\ \A i \in DOMAIN message : ~Exceeds(handed[1][i].size, limits.part)
                 /\ \A i \in References(message) : handed[1][i].size <= limits.read)
    <1>1. Inv => (pc = "sent" =>
                    /\ \A i \in DOMAIN message : ~Exceeds(handed[1][i].size, limits.part)
                    /\ \A i \in References(message) : handed[1][i].size <= limits.read)
        <2> SUFFICES ASSUME Inv, pc = "sent"
                     PROVE /\ \A i \in DOMAIN message : ~Exceeds(handed[1][i].size, limits.part)
                           /\ \A i \in References(message) : handed[1][i].size <= limits.read
            OBVIOUS
        <2>1. DOMAIN message = 1..Len(message) /\ handed[1] = parts
            BY MessagesAreSequences DEF Inv, TypeOK, Delivered
        <2>2. parts \in Seq(Part) /\ Len(parts) = Len(message)
            BY DEF Inv, TypeOK
        <2>3. \A i \in DOMAIN message : parts[i].is = "bytes"
            BY <2>1, <2>2 DEF Inv, Delivered, References, Part, Reference
        <2> QED  BY <2>1, <2>3 DEF Inv, Checked, Prepared, Fits, References
    <1> QED  BY <1>1, Invariance, PTL
-------------------------------------------------------------------------------
(* The size policy, on top of the invariant: the total is what the            *)
(* attachments accepted so far amount to, and is within its limit; only a     *)
(* store that can stat is asked to.                                           *)
Counted ==
    /\ pc = "check" => total = PartialSums(Sizes(message))[at - 1]
    /\ pc \in {"loop", "stat", "open", "read", "sent"} => total = Sum(Sizes(parts))
    /\ ~Exceeds(total, limits.total)
    /\ pc = "stat" => stats

SizeInv == Counted /\ RefusedOnlyForSize

LEMMA CheckedTotalAdds ==
    ASSUME Inv, NEW n \in Nat, CheckedTotal(total, n) # {}
    PROVE  /\ CheckedTotal(total, n) = {total + n}
           /\ ~Exceeds(n, limits.part) /\ total + n <= MaxUsize /\ ~Exceeds(total + n, limits.total)
    <1>1. ~ \/ Exceeds(n, limits.part)
            \/ total + n > MaxUsize
            \/ Exceeds(total + n, limits.total)
        BY Zenon DEF CheckedTotal
    <1>2. CheckedTotal(total, n) = {total + n}
        BY <1>1, Zenon DEF CheckedTotal
    <1> QED  BY <1>1, <1>2, UsizeAssumption DEF Inv, TypeOK

LEMMA SizesInitially == Init => SizeInv
    <1> SUFFICES ASSUME Init PROVE SizeInv
        OBVIOUS
    <1>1. Sizes(message) \in Seq(Nat)
        BY MessagesAreSequences, SizesAre DEF Init
    <1>2. limits.total = NoLimit \/ limits.total \in Nat
        BY LimitsAssumption DEF Init
    <1> QED  BY <1>1, <1>2, PartialSumsAre DEF Init, SizeInv, Counted, RefusedOnlyForSize, Exceeds

(* The sum after the next attachment that came with the message. *)
LEMMA NextSum ==
    ASSUME Inv, pc = "check", at <= Len(message)
    PROVE  /\ at \in 1..Len(message) /\ message[at] \in Part
           /\ PartialSums(Sizes(message))[at] = PartialSums(Sizes(message))[at - 1] + message[at].size
           /\ PartialSums(Sizes(message))[at] <= Sum(Sizes(message))
    <1>1. message \in Seq(Part) /\ DOMAIN message = 1..Len(message) /\ Len(message) \in Nat
        BY MessagesAreSequences DEF Inv, TypeOK
    <1>2. at \in 1..Len(message) /\ message[at] \in Part
        BY <1>1 DEF Inv, TypeOK
    <1>3. Sizes(message) \in Seq(Nat) /\ Len(Sizes(message)) = Len(message) /\ Sizes(message)[at] = message[at].size
        BY <1>1, <1>2, SizesAre
    <1>4. at \in 0..Len(message)
        BY <1>1, <1>2
    <1> QED  BY <1>2, <1>3, <1>4, PartialSumsAre, PartialSumsGrow

LEMMA CheckCounts ==
    ASSUME Inv, SizeInv, CheckBytes \/ PassReference
    PROVE  SizeInv'
    <1>1. /\ pc = "check" /\ at <= Len(message) /\ parts = message
          /\ UNCHANGED <<limits, stats, message, parts>>
        BY DEF CheckBytes, PassReference, config, Inv, Checked
    <1>2. /\ at \in 1..Len(message) /\ message[at] \in Part
          /\ PartialSums(Sizes(message))[at] = total + message[at].size
          /\ PartialSums(Sizes(message))[at] <= Sum(Sizes(message))
        BY <1>1, NextSum DEF SizeInv, Counted
    <1>3. message \in Seq(Part) /\ DOMAIN message = 1..Len(message) /\ Len(message) \in Nat
        BY MessagesAreSequences DEF Inv, TypeOK
    <1>4. total \in Nat /\ message[at].size \in Nat
        BY <1>2, UsizeAssumption DEF Inv, TypeOK, Part, Reference
    <1>5. CASE PassReference
        <2>1. message[at].size = 0
            BY <1>2, <1>5 DEF PassReference, Part, Reference
        <2>2. pc' = "check" /\ at' - 1 = at /\ total' = total
            BY <1>2, <1>3, <1>5 DEF PassReference
        <2> QED  BY <1>1, <1>2, <1>4, <2>1, <2>2 DEF SizeInv, Counted, RefusedOnlyForSize, Exceeds
    <1>6. CASE CheckBytes /\ CheckedTotal(total, message[at].size) # {}
        <2>1. pc' = "check" /\ at' - 1 = at /\ total' = total + message[at].size
            BY <1>1, <1>2, <1>3, <1>4, <1>6, CheckedTotalAdds DEF CheckBytes
        <2> QED  BY <1>1, <1>2, <1>4, <1>6, <2>1, CheckedTotalAdds DEF SizeInv, Counted, RefusedOnlyForSize, Exceeds
    <1>7. CASE CheckBytes /\ CheckedTotal(total, message[at].size) = {}
        <2>1. pc' = "failed" /\ total' = total
            BY <1>7 DEF CheckBytes, Fail
        <2>2. \/ Exceeds(message[at].size, limits.part)
              \/ total + message[at].size > MaxUsize
              \/ Exceeds(total + message[at].size, limits.total)
            BY <1>7 DEF CheckedTotal
        <2>3. Sum(Sizes(message)) \in Nat
            <3>1. Sizes(message) \in Seq(Nat)
                BY <1>3, SizesAre
            <3>2. Len(Sizes(message)) \in Nat
                BY <3>1
            <3> QED  BY <3>1, <3>2, PartialSumsAre DEF Sum
        <2>4. limits.total = NoLimit \/ limits.total \in Nat
            BY LimitsAssumption DEF Inv, TypeOK
        <2>5. TooBig(message)
            BY <1>2, <1>3, <1>4, <2>2, <2>3, <2>4, UsizeAssumption DEF TooBig, Exceeds
        <2>6. TooBig(parts)'
            BY <1>1, <2>5 DEF TooBig, Exceeds
        <2> QED  BY <1>1, <2>1, <2>6 DEF SizeInv, Counted, RefusedOnlyForSize, Exceeds
    <1> QED  BY <1>5, <1>6, <1>7

(* When the check is over, all that came with the message is counted. *)
LEMMA CheckedWhole ==
    ASSUME Inv, SizeInv, SendUnchanged \/ StartPreparation
    PROVE  SizeInv'
    <1>1. /\ pc = "check" /\ at > Len(message) /\ parts = message /\ pc' \in {"loop", "sent"}
          /\ UNCHANGED <<limits, stats, message, parts, total>>
        BY DEF SendUnchanged, StartPreparation, HandOver, config, Inv, Checked
    <1>2. message \in Seq(Part) /\ Len(message) \in Nat
        BY MessagesAreSequences DEF Inv, TypeOK
    <1>3. at - 1 = Len(message)
        BY <1>1, <1>2 DEF Inv, TypeOK
    <1>4. total = Sum(Sizes(message))
        BY <1>1, <1>2, <1>3, SizesAre DEF SizeInv, Counted, Sum
    <1> QED  BY <1>1, <1>4 DEF SizeInv, Counted, RefusedOnlyForSize, Exceeds

LEMMA PreparationCounts ==
    ASSUME Inv, SizeInv, \/ SkipBytes \/ ResolveNext \/ SendPrepared \/ OpenStream
                         \/ (Stat /\ pc' = "open") \/ ReadBuffer
    PROVE  SizeInv'
    <1>1. /\ pc \in {"loop", "stat", "open", "read"} /\ pc' \in {"loop", "stat", "open", "read", "sent"}
          /\ UNCHANGED <<limits, stats, message, parts, total>>
          /\ pc' = "stat" => stats
        BY DEF SkipBytes, ResolveNext, SendPrepared, HandOver, OpenStream, Stat, ResolutionFails, ReadBuffer, config,
               SizeInv, Counted
    <1> QED  BY <1>1 DEF SizeInv, Counted, RefusedOnlyForSize, Exceeds

LEMMA RefusalCounts ==
    ASSUME Inv, SizeInv, PathRefused \/ StoreFails \/ (Stat /\ pc' # "open")
    PROVE  SizeInv'
    <1>1. UNCHANGED <<limits, stats, message, parts, total>> /\ pc' = "failed"
        BY DEF PathRefused, StoreFails, StoreError, Stat, ResolutionFails, Fail, config
    <1>2. failure' # "TooLarge" \/ stats
        <2>1. CASE StoreFails
            BY <2>1 DEF StoreFails, StoreError, ResolutionFails, Fail, ClassifyOpendalError
        <2> QED  BY <2>1 DEF PathRefused, Stat, ResolutionFails, Fail, SizeInv, Counted
    <1> QED  BY <1>1, <1>2 DEF SizeInv, Counted, RefusedOnlyForSize, Exceeds

LEMMA FinishingCounts ==
    ASSUME Inv, SizeInv, FinishRead
    PROVE  SizeInv'
    <1>1. message \in Seq(Part) /\ Len(message) \in Nat
        BY MessagesAreSequences DEF Inv, TypeOK
    <1>2. /\ pc = "read" /\ at \in 1..Len(parts) /\ at <= Len(parts) /\ parts[at].is = "reference"
          /\ parts \in Seq(Part) /\ total = Sum(Sizes(parts)) /\ kept \in Nat /\ yielded \in Nat
          /\ UNCHANGED <<limits, stats, message>>
        BY <1>1, UsizeAssumption, ObjectAssumption
        DEF FinishRead, TakeResolved, ResolutionFails, config, Inv, TypeOK, Prepared, SizeInv, Counted
    <1>3. /\ Sizes(parts) \in Seq(Nat) /\ Len(Sizes(parts)) = Len(parts) /\ Sizes(parts)[at] = 0
        BY <1>2, SizesAre
    <1>4. Sum([Sizes(parts) EXCEPT ![at] = kept]) = total + kept
        BY <1>2, <1>3, OneMoreSize
    <1>5. CASE kept > limits.read /\ ResolutionFails("TooLarge")
        <2>1. UNCHANGED <<parts, total, yielded, at>> /\ pc' = "failed"
            BY <1>5 DEF ResolutionFails, Fail
        <2>2. yielded > limits.read
            BY <1>2, <1>5, ReadLimitBounds DEF Inv, RetainedUpToLimit
        <2> QED  BY <1>2, <2>1, <2>2 DEF SizeInv, Counted, RefusedOnlyForSize, Exceeds
    <1>6. CASE kept <= limits.read /\ CheckedTotal(total, kept) = {} /\ ResolutionFails("TooLarge")
        <2>1. UNCHANGED <<parts, total, yielded, at>> /\ pc' = "failed"
            BY <1>6 DEF ResolutionFails, Fail
        <2>2. kept = yielded
            BY <1>6, TakenIsYielded DEF Inv
        <2> DEFINE grown == [parts EXCEPT ![at].size = yielded]
        <2>3. DOMAIN grown = DOMAIN parts /\ DOMAIN parts = 1..Len(parts)
            BY <1>2
        <2>4. grown[at].size = yielded /\ \A i \in DOMAIN parts : i # at => grown[i] = parts[i]
            <3>1. DOMAIN parts[at] = {"is", "size"}
                BY <1>2 DEF Part, Reference
            <3> QED  BY <1>2, <2>3, <3>1
        <2>5. Sizes(grown) = [Sizes(parts) EXCEPT ![at] = yielded]
            BY <2>3, <2>4 DEF Sizes
        <2> HIDE DEF grown
        <2>6. TooBig(grown)
            <3>1. at \in DOMAIN grown
                BY <1>2, <2>3
            <3> QED  BY <1>4, <1>6, <2>2, <2>4, <2>5, <3>1 DEF TooBig, CheckedTotal
        <2>7. TooBig([parts EXCEPT ![at].size = yielded])'
            BY <1>2, <2>1, <2>6 DEF TooBig, Exceeds, grown
        <2> QED  BY <1>2, <2>1, <2>7 DEF SizeInv, Counted, RefusedOnlyForSize, Exceeds
    <1>7. CASE CheckedTotal(total, kept) # {} /\ TakeResolved(kept)
        <2>1. /\ total' = total + kept /\ parts' = [parts EXCEPT ![at] = Bytes(kept)] /\ pc' = "loop"
              /\ ~Exceeds(total + kept, limits.total)
            BY <1>2, <1>7, CheckedTotalAdds DEF TakeResolved
        <2>2. Sizes(parts') = [Sizes(parts) EXCEPT ![at] = kept]
            BY <1>2, <2>1 DEF Sizes, Bytes
        <2> QED  BY <1>2, <1>4, <2>1, <2>2 DEF SizeInv, Counted, RefusedOnlyForSize, Exceeds
    <1> QED  BY <1>5, <1>6, <1>7 DEF FinishRead, TakeResolved

LEMMA SizesStep == Inv /\ SizeInv /\ [Next]_vars => SizeInv'
    <1> SUFFICES ASSUME Inv, SizeInv, [Next]_vars PROVE SizeInv'
        OBVIOUS
    <1>1. CASE CheckBytes \/ PassReference
        BY <1>1, CheckCounts
    <1>2. CASE SendUnchanged \/ StartPreparation
        BY <1>2, CheckedWhole
    <1>3. CASE SkipBytes \/ ResolveNext \/ SendPrepared \/ OpenStream \/ (Stat /\ pc' = "open") \/ ReadBuffer
        BY <1>3, PreparationCounts
    <1>4. CASE PathRefused \/ StoreFails \/ (Stat /\ pc' # "open")
        BY <1>4, RefusalCounts
    <1>5. CASE FinishRead
        BY <1>5, FinishingCounts
    <1>6. CASE UNCHANGED vars
        BY <1>6 DEF vars, config, SizeInv, Counted, RefusedOnlyForSize, Exceeds, TooBig
    <1> QED  BY <1>1, <1>2, <1>3, <1>4, <1>5, <1>6 DEF Next

(* No message reaches the inner transport that exceeds a limit for one        *)
(* attachment, for all of them, or what a usize can count, whatever it refers *)
(* to and whatever the store said of it.                                      *)
THEOREM SizePolicyHolds == Spec => []LimitsHold
    <1>1. Inv /\ SizeInv => LimitsHold
        <2> SUFFICES ASSUME Inv, SizeInv, pc = "sent" 
                     PROVE  ~TooBig(handed[1]) /\ \A i \in References(message) : handed[1][i].size <= limits.read
            BY DEF LimitsHold
        <2>1. DOMAIN message = 1..Len(message) /\ handed[1] = parts
            BY MessagesAreSequences DEF Inv, TypeOK, Delivered
        <2>2. parts \in Seq(Part) /\ Len(parts) = Len(message)
            BY DEF Inv, TypeOK
        <2>3. \A i \in DOMAIN message : parts[i].is = "bytes"
            BY <2>1, <2>2 DEF Inv, Delivered, References, Part, Reference
        <2>4. \A i \in DOMAIN parts : ~Exceeds(parts[i].size, limits.part)
            BY <2>1, <2>2, <2>3 DEF Inv, Checked, Fits
        <2>5. total = Sum(Sizes(parts)) /\ ~Exceeds(total, limits.total) /\ total <= MaxUsize /\ total \in Nat
            BY UsizeAssumption DEF Inv, TypeOK, SizeInv, Counted
        <2>6. ~TooBig(parts)
            BY <2>4, <2>5, UsizeAssumption DEF TooBig
        <2> QED  BY <2>1, <2>3, <2>6 DEF Inv, Prepared, References
    <1> QED  BY <1>1, Invariance, SizesInitially, SizesStep, PTL DEF Spec

(* A send refused for its size has the right one: what was counted so far,    *)
(* with what was read of the object at hand, is over a limit.                 *)
THEOREM NoFalseRefusal == Spec => []RefusedOnlyForSize
    <1>1. SizeInv => RefusedOnlyForSize
        BY DEF SizeInv
    <1> QED  BY <1>1, Invariance, SizesInitially, SizesStep, PTL DEF Spec
===============================================================================
