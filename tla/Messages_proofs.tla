--------------------------- MODULE Messages_proofs ---------------------------
(***************************************************************************)
(* What messages are made of, for every text and every JSON value: the     *)
(* normal forms of media types and message ids are stable; an address list *)
(* yields addresses whatever is in it; JSON that is written is read back   *)
(* as it was, and JSON that is read, whoever wrote it, gives values that   *)
(* the constructors would have made.                                       *)
(*                                                                         *)
(* It begins with induction over natural numbers, stated about sets rather *)
(* than about operators (to use it, define the set of the numbers that     *)
(* have the property), and with what sequences over no particular set have *)
(* in common.                                                              *)
(***************************************************************************)
EXTENDS MessageJson, SequenceTheorems, FiniteSetTheorems, WellFoundedInduction, TLAPS

(* A non-empty set of natural numbers has a least element. *)
LEMMA LeastNatural ==
    ASSUME NEW T, T \subseteq Nat, T # {}
    PROVE  \E x \in T : \A y \in T : x <= y
    <1> DEFINE R == OpToRel(<, Nat)
    <1>1. IsWellFoundedOn(R, Nat)
        BY NatLessThanWellFounded, Zenon
    <1>2. \A x, y \in Nat : y < x => <<y, x>> \in R
        BY DEF OpToRel
    <1> HIDE DEF R
    <1>3. PICK x \in T : \A y \in T : ~(<<y, x>> \in R)
        BY <1>1, WFMin
    <1>4. \A y \in T : ~(y < x)
        BY <1>2, <1>3
    <1> QED  BY <1>3, <1>4

(* A set that has 0 and with each natural number the next one has them all. *)
LEMMA SetInduction ==
    ASSUME NEW S, 0 \in S, \A n \in Nat : n \in S => n + 1 \in S
    PROVE  Nat \subseteq S
    <1> SUFFICES ASSUME Nat \ S # {} PROVE FALSE
        OBVIOUS
    <1>1. PICK x \in Nat \ S : \A y \in Nat \ S : x <= y
        BY LeastNatural
    <1>2. x # 0 /\ x - 1 \in Nat /\ x - 1 \in S
        BY <1>1
    <1> QED  BY <1>1, <1>2

(* ... the same up to a bound: each number may rely on the one before it. *)
LEMMA BoundedInduction ==
    ASSUME NEW S, NEW n \in Nat, 0 \in S, \A i \in 1..n : i - 1 \in S => i \in S
    PROVE  0..n \subseteq S
    <1> DEFINE T == {i \in Nat : i <= n => i \in S}
    <1>1. 0 \in T
        OBVIOUS
    <1>2. \A i \in Nat : i \in T => i + 1 \in T
        <2> TAKE i \in Nat
        <2> HAVE i \in T
        <2>1. CASE i + 1 <= n
            BY <2>1
        <2>2. CASE ~(i + 1 <= n)
            BY <2>2
        <2> QED  BY <2>1, <2>2
    <1> HIDE DEF T
    <1>3. Nat \subseteq T
        BY <1>1, <1>2, SetInduction
    <1> QED  BY <1>3 DEF T

(* ... and with reliance on all the numbers before. *)
LEMMA StrongInduction ==
    ASSUME NEW S, \A n \in Nat : 0..(n - 1) \subseteq S => n \in S
    PROVE  Nat \subseteq S
    <1> SUFFICES ASSUME Nat \ S # {} PROVE FALSE
        OBVIOUS
    <1>1. PICK x \in Nat \ S : \A y \in Nat \ S : x <= y
        BY LeastNatural
    <1>2. 0..(x - 1) \subseteq S
        BY <1>1
    <1> QED  BY <1>1, <1>2

(* The least and the greatest of some numbers. *)
LEMMA Least ==
    ASSUME NEW S, S \subseteq Nat, S # {}
    PROVE  Min(S) \in S /\ \A i \in S : Min(S) <= i
    <1>1. PICK k \in S : \A i \in S : k <= i
        BY LeastNatural
    <1> QED  BY <1>1 DEF Min

(* A bounded set of naturals has a greatest element. *)
LEMMA Greatest ==
    ASSUME NEW n \in Nat, NEW S, S \subseteq 0..n, S # {}
    PROVE  Max(S) \in S /\ \A i \in S : i <= Max(S)
    <1> DEFINE T == {n - i : i \in S}
    <1>1. T \subseteq Nat /\ T # {}
        <2>1. \A i \in S : n - i \in Nat
            OBVIOUS
        <2>2. PICK i \in S : TRUE
            OBVIOUS
        <2>3. n - i \in T
            BY <2>2
        <2>4. \A x \in T : x \in Nat
            BY <2>1
        <2> QED  BY <2>3, <2>4
    <1> HIDE DEF T
    <1>2. PICK x \in T : \A y \in T : x <= y
        BY <1>1, LeastNatural
    <1>3. PICK k \in S : x = n - k
        BY <1>2 DEF T
    <1>4. \A i \in S : k >= i
        <2> TAKE i \in S
        <2>1. n - k <= n - i
            BY <1>2, <1>3 DEF T
        <2> QED  BY <2>1
    <1> DEFINE most == Max(S)
    <1>5. most \in S /\ \A i \in S : most >= i
        BY <1>4 DEF Max
    <1> HIDE DEF most
    <1>6. \A i \in S : i <= most
        BY <1>5
    <1> QED  BY <1>5, <1>6 DEF most

-------------------------------------------------------------------------------
(* What a recursive definition over 0..n asks of a function. *)
Recurs(f, n, base, step) ==
    f = [i \in 0..n |-> IF i = 0 THEN base ELSE step[i][f[i - 1]]]

(* There is such a function, with values of the type of its steps. *)
LEMMA RecursionExists ==
    ASSUME NEW T, NEW base \in T, NEW step \in [Nat -> [T -> T]], NEW n \in Nat
    PROVE  \E f \in [0..n -> T] : Recurs(f, n, base, step)
    <1> DEFINE S == {m \in Nat : \E f \in [0..m -> T] : Recurs(f, m, base, step)}
    <1>1. 0 \in S
        <2> DEFINE f == [i \in 0..0 |-> base]
        <2>1. f \in [0..0 -> T] /\ Recurs(f, 0, base, step)
            BY DEF Recurs
        <2> QED  BY <2>1
    <1>2. \A m \in Nat : m \in S => m + 1 \in S
        <2> TAKE m \in Nat
        <2> HAVE m \in S
        <2>1. PICK f \in [0..m -> T] : Recurs(f, m, base, step)
            OBVIOUS
        <2> DEFINE g == [i \in 0..(m + 1) |-> IF i = m + 1 THEN step[m + 1][f[m]] ELSE f[i]]
        <2>2. g \in [0..(m + 1) -> T]
            OBVIOUS
        <2>3. \A i \in 0..(m + 1) : g[i] = IF i = 0 THEN base ELSE step[i][g[i - 1]]
            <3> TAKE i \in 0..(m + 1)
            <3>1. CASE i = m + 1
                BY <3>1
            <3>2. CASE i \in 0..m
                <4>1. g[i] = f[i]
                    BY <3>2
                <4>2. i # 0 => g[i - 1] = f[i - 1]
                    BY <3>2
                <4> QED  BY <2>1, <3>2, <4>1, <4>2 DEF Recurs
            <3> QED  BY <3>1, <3>2
        <2>4. Recurs(g, m + 1, base, step)
            BY <2>2, <2>3 DEF Recurs
        <2> QED  BY <2>2, <2>4
    <1> HIDE DEF S
    <1>3. n \in S
        BY <1>1, <1>2, SetInduction
    <1> QED  BY <1>3 DEF S

-------------------------------------------------------------------------------
(* Sequences of whatever: how they are taken apart and put together. *)

(* A sequence is a function on 1..Len. *)
LEMMA SeqFacts ==
    ASSUME NEW s, IsSeq(s)
    PROVE  Len(s) \in Nat /\ DOMAIN s = 1..Len(s) /\ s = [i \in 1..Len(s) |-> s[i]]
    BY DEF IsSeq

(* A sequence whose elements are in a set is one over that set.            *)
LEMMA SeqOver ==
    ASSUME NEW S, NEW s, IsSeq(s), \A i \in DOMAIN s : s[i] \in S
    PROVE  s \in Seq(S)
    BY DEF IsSeq

(* A function on 1..n is a sequence.                                       *)
LEMMA MakeSeq ==
    ASSUME NEW n \in Nat, NEW s, s = [i \in 1..n |-> s[i]]
    PROVE  IsSeq(s) /\ Len(s) = n /\ DOMAIN s = 1..n
    <1> DEFINE S == {s[i] : i \in DOMAIN s}
    <1>1. DOMAIN s = 1..n /\ \A i \in 1..n : s[i] \in S
        OBVIOUS
    <1> HIDE DEF S
    <1>2. s \in Seq(S) /\ Len(s) = n
        BY <1>1
    <1> QED  BY <1>1, <1>2 DEF IsSeq, S

(* A sequence over a set is a sequence.                                    *)
LEMMA ElementsIrrelevant ==
    ASSUME NEW S, NEW s \in Seq(S)
    PROVE  IsSeq(s)
    <1>1. Len(s) \in Nat /\ DOMAIN s = 1..Len(s) /\ s \in [1..Len(s) -> S]
        BY LenProperties
    <1>2. s = [i \in 1..Len(s) |-> s[i]]
        BY <1>1
    <1> QED  BY <1>1, <1>2, MakeSeq

(* Two sequences with the same elements are one.                           *)
LEMMA SameSeq ==
    ASSUME NEW s, NEW t, IsSeq(s), IsSeq(t), Len(s) = Len(t), \A i \in 1..Len(s) : s[i] = t[i]
    PROVE  s = t
    BY SeqFacts

(* The empty sequence is one, and the only one without elements.           *)
LEMMA EmptyIsSeq == IsSeq(<<>>) /\ Len(<<>>) = 0 /\ \A s : IsSeq(s) /\ Len(s) = 0 => s = <<>>
    <1>1. IsSeq(<<>>) /\ Len(<<>>) = 0
        BY DEF IsSeq
    <1> QED  BY <1>1, SameSeq

(* So is one of one element.                                               *)
LEMMA OneIsSeq == \A x : IsSeq(<<x>>) /\ Len(<<x>>) = 1 /\ <<x>>[1] = x
    BY DEF IsSeq

(* A sequence of length one is its first element.                          *)
LEMMA OneItem ==
    ASSUME NEW s, IsSeq(s), Len(s) = 1
    PROVE  s = <<s[1]>>
    <1> DEFINE t == <<s[1]>>
    <1>1. IsSeq(t) /\ Len(t) = 1 /\ t[1] = s[1]
        BY OneIsSeq
    <1> HIDE DEF t
    <1>2. \A i \in 1..Len(s) : s[i] = t[i]
        BY <1>1
    <1>3. s = t
        BY <1>1, <1>2, SameSeq
    <1> QED  BY <1>3 DEF t

(* A concatenation has the elements of both, one after the other.          *)
LEMMA Concat ==
    ASSUME NEW s, NEW t, IsSeq(s), IsSeq(t)
    PROVE  /\ IsSeq(s \o t) /\ Len(s \o t) = Len(s) + Len(t)
           /\ \A i \in 1..Len(s) : (s \o t)[i] = s[i]
           /\ \A i \in 1..Len(t) : (s \o t)[Len(s) + i] = t[i]
    <1> DEFINE S == {s[i] : i \in DOMAIN s} \cup {t[i] : i \in DOMAIN t}
    <1>1. (\A i \in DOMAIN s : s[i] \in S) /\ (\A i \in DOMAIN t : t[i] \in S)
        OBVIOUS
    <1> HIDE DEF S
    <1>2. s \in Seq(S) /\ t \in Seq(S)
        BY <1>1, SeqOver
    <1>3. s \o t \in Seq(S)
        BY <1>2
    <1>4. IsSeq(s \o t)
        BY <1>3, ElementsIrrelevant
    <1>5. /\ Len(s \o t) = Len(s) + Len(t)
          /\ \A i \in 1..Len(s) : (s \o t)[i] = s[i]
          /\ \A i \in 1..Len(t) : (s \o t)[Len(s) + i] = t[i]
        BY <1>2
    <1> QED  BY <1>4, <1>5

(* An appended element comes last.                                         *)
LEMMA Appended ==
    ASSUME NEW s, IsSeq(s), NEW x
    PROVE  /\ IsSeq(Append(s, x)) /\ Len(Append(s, x)) = Len(s) + 1
           /\ \A i \in 1..Len(s) : Append(s, x)[i] = s[i]
           /\ Append(s, x)[Len(s) + 1] = x
    <1> DEFINE S == {s[i] : i \in DOMAIN s} \cup {x}
    <1>1. (\A i \in DOMAIN s : s[i] \in S) /\ x \in S
        OBVIOUS
    <1> HIDE DEF S
    <1>2. s \in Seq(S)
        BY <1>1, SeqOver
    <1>3. Append(s, x) \in Seq(S)
        BY <1>1, <1>2
    <1>4. IsSeq(Append(s, x))
        BY <1>3, ElementsIrrelevant
    <1>5. /\ Len(Append(s, x)) = Len(s) + 1
          /\ \A i \in 1..Len(s) : Append(s, x)[i] = s[i]
          /\ Append(s, x)[Len(s) + 1] = x
        BY <1>1, <1>2
    <1> QED  BY <1>4, <1>5

(* Every item of a longer sequence comes from where it was put together.   *)
LEMMA ConcatFrom ==
    ASSUME NEW s, NEW t, IsSeq(s), IsSeq(t)
    PROVE  \A k \in DOMAIN (s \o t) : (\E i \in DOMAIN s : (s \o t)[k] = s[i]) \/ \E i \in DOMAIN t : (s \o t)[k] = t[i]
    <1> DEFINE all == s \o t
    <1>1. /\ Len(s) \in Nat /\ DOMAIN s = 1..Len(s) /\ Len(t) \in Nat /\ DOMAIN t = 1..Len(t)
          /\ IsSeq(all) /\ Len(all) = Len(s) + Len(t)
          /\ (\A i \in 1..Len(s) : all[i] = s[i]) /\ \A i \in 1..Len(t) : all[Len(s) + i] = t[i]
        BY SeqFacts, Concat
    <1> HIDE DEF all
    <1>2. DOMAIN all = 1..(Len(s) + Len(t))
        BY <1>1, SeqFacts
    <1>3. \A k \in 1..(Len(s) + Len(t)) : k \in 1..Len(s) \/ (k - Len(s) \in 1..Len(t) /\ Len(s) + (k - Len(s)) = k)
        BY <1>1
    <1>4. \A k \in DOMAIN all : (\E i \in DOMAIN s : all[k] = s[i]) \/ \E i \in DOMAIN t : all[k] = t[i]
        BY <1>1, <1>2, <1>3
    <1> QED  BY <1>4 DEF all

(* What is in an appended sequence was in it or is the new element. *)
LEMMA AppendedFrom ==
    ASSUME NEW s, IsSeq(s), NEW x
    PROVE  \A k \in DOMAIN Append(s, x) : Append(s, x)[k] = x \/ \E i \in DOMAIN s : Append(s, x)[k] = s[i]
    <1> DEFINE all == Append(s, x)
    <1>1. /\ Len(s) \in Nat /\ DOMAIN s = 1..Len(s) /\ IsSeq(all) /\ Len(all) = Len(s) + 1
          /\ (\A i \in 1..Len(s) : all[i] = s[i]) /\ all[Len(s) + 1] = x
        BY SeqFacts, Appended
    <1> HIDE DEF all
    <1>2. DOMAIN all = 1..(Len(s) + 1)
        BY <1>1, SeqFacts
    <1>3. \A k \in 1..(Len(s) + 1) : k \in 1..Len(s) \/ k = Len(s) + 1
        BY <1>1
    <1>4. \A k \in DOMAIN all : all[k] = x \/ \E i \in DOMAIN s : all[k] = s[i]
        BY <1>1, <1>2, <1>3
    <1> QED  BY <1>4 DEF all

(* A tail has elements of its sequence. *)
LEMMA TailFrom ==
    ASSUME NEW s, IsSeq(s), s # <<>>
    PROVE  IsSeq(Tail(s)) /\ \A k \in DOMAIN Tail(s) : \E i \in DOMAIN s : Tail(s)[k] = s[i]
    <1> DEFINE S == {s[i] : i \in DOMAIN s}
               rest == Tail(s)
    <1>1. s \in Seq(S) /\ \A x \in S : \E i \in DOMAIN s : x = s[i]
        BY DEF IsSeq
    <1> HIDE DEF S
    <1>2. rest \in Seq(S)
        BY <1>1
    <1> HIDE DEF rest
    <1>3. IsSeq(rest) /\ \A k \in DOMAIN rest : rest[k] \in S
        BY <1>2, ElementsIrrelevant
    <1> QED  BY <1>1, <1>3 DEF rest

(* A part of a sequence. *)
LEMMA PartOfSeq ==
    ASSUME NEW s, IsSeq(s), NEW m \in Nat, NEW n \in Nat, 1 <= m, n <= Len(s)
    PROVE  /\ IsSeq(SubSeq(s, m, n)) /\ Len(SubSeq(s, m, n)) = (IF m <= n THEN n - m + 1 ELSE 0)
           /\ \A i \in 1..Len(SubSeq(s, m, n)) : SubSeq(s, m, n)[i] = s[m + i - 1] /\ m + i - 1 \in DOMAIN s
    <1> DEFINE k == IF m <= n THEN n - m + 1 ELSE 0
               part == SubSeq(s, m, n)
               S == {s[i] : i \in DOMAIN s}
    <1>1. Len(s) \in Nat /\ DOMAIN s = 1..Len(s)
        BY SeqFacts
    <1>2. s \in Seq(S)
        BY <1>1 DEF IsSeq
    <1> HIDE DEF S
    <1>3. k \in Nat
        OBVIOUS
    <1>4. part = [i \in 1..k |-> s[m + i - 1]]
        BY <1>1, <1>2, SubSeqProperties
    <1>5. \A i \in 1..k : part[i] = s[m + i - 1]
        BY <1>4
    <1>6. part = [i \in 1..k |-> part[i]]
        BY <1>4
    <1> HIDE DEF part, k
    <1>7. IsSeq(part) /\ Len(part) = k /\ DOMAIN part = 1..k
        BY <1>3, <1>6, MakeSeq
    <1>8. \A i \in 1..k : m + i - 1 \in 1..Len(s)
        BY <1>1 DEF k
    <1> QED  BY <1>1, <1>5, <1>7, <1>8 DEF part, k

(* Explicit tuples, put together.                                          *)
LEMMA PutBefore ==
    /\ \A v, w : <<v>> \o <<w>> = <<v, w>>
    /\ \A u, v, w : <<u>> \o <<v, w>> = <<u, v, w>>
    <1>1. ASSUME NEW v, NEW w PROVE <<v>> \o <<w>> = <<v, w>>
        <2> DEFINE a == <<v>>
                   b == <<w>>
                   c == <<v, w>>
        <2>1. IsSeq(a) /\ IsSeq(b) /\ Len(a) = 1 /\ Len(b) = 1 /\ a[1] = v /\ b[1] = w
            BY OneIsSeq
        <2>2. c = [i \in 1..2 |-> c[i]] /\ c[1] = v /\ c[2] = w
            OBVIOUS
        <2> HIDE DEF a, b, c
        <2>3. IsSeq(c) /\ Len(c) = 2
            BY <2>2, MakeSeq
        <2>4. /\ IsSeq(a \o b) /\ Len(a \o b) = Len(a) + Len(b)
              /\ (\A i \in 1..Len(a) : (a \o b)[i] = a[i]) /\ \A i \in 1..Len(b) : (a \o b)[Len(a) + i] = b[i]
            <3>1. IsSeq(a) /\ IsSeq(b)
                BY <2>1
            <3> QED  BY ONLY <3>1, Concat
        <2>5. 1 \in 1..1 /\ Len(a \o b) = 2 /\ (a \o b)[1] = v /\ (a \o b)[1 + 1] = w
            BY <2>1, <2>4
        <2>6. \A i \in 1..2 : (a \o b)[i] = c[i]
            BY <2>2, <2>5
        <2>7. a \o b = c
            BY <2>3, <2>4, <2>5, <2>6, SameSeq
        <2> QED  BY <2>7 DEF a, b, c
    <1>2. ASSUME NEW u, NEW v, NEW w PROVE <<u>> \o <<v, w>> = <<u, v, w>>
        <2> DEFINE a == <<u>>
                   b == <<v, w>>
                   c == <<u, v, w>>
        <2>1. IsSeq(a) /\ Len(a) = 1 /\ a[1] = u
            BY OneIsSeq
        <2>2. /\ b = [i \in 1..2 |-> b[i]] /\ b[1] = v /\ b[2] = w
              /\ c = [i \in 1..3 |-> c[i]] /\ c[1] = u /\ c[2] = v /\ c[3] = w
            OBVIOUS
        <2> HIDE DEF a, b, c
        <2>3. IsSeq(b) /\ Len(b) = 2 /\ IsSeq(c) /\ Len(c) = 3
            BY <2>2, MakeSeq
        <2>4. /\ IsSeq(a \o b) /\ Len(a \o b) = Len(a) + Len(b)
              /\ (\A i \in 1..Len(a) : (a \o b)[i] = a[i]) /\ \A i \in 1..Len(b) : (a \o b)[Len(a) + i] = b[i]
            <3>1. IsSeq(a) /\ IsSeq(b)
                BY <2>1, <2>3
            <3> QED  BY ONLY <3>1, Concat
        <2>5. /\ 1 \in 1..1 /\ 1 \in 1..2 /\ 2 \in 1..2
              /\ Len(a \o b) = 3 /\ (a \o b)[1] = u /\ (a \o b)[1 + 1] = v /\ (a \o b)[1 + 2] = w
            BY <2>1, <2>2, <2>3, <2>4
        <2>6. \A i \in 1..3 : (a \o b)[i] = c[i]
            BY <2>2, <2>5
        <2>7. a \o b = c
            BY <2>3, <2>4, <2>5, <2>6, SameSeq
        <2> QED  BY <2>7 DEF a, b, c
    <1> QED  BY <1>1, <1>2

(* Nothing added is nothing changed.                                       *)
LEMMA ConcatEmpty == \A s : IsSeq(s) => s \o <<>> = s /\ <<>> \o s = s
    <1> SUFFICES ASSUME NEW s, IsSeq(s) PROVE s \o <<>> = s /\ <<>> \o s = s
        OBVIOUS
    <1>1. Len(s) \in Nat
        BY SeqFacts
    <1> QED  BY <1>1, EmptyIsSeq, Concat, SameSeq

(* Concatenation is associative.                                           *)
LEMMA ConcatAssoc ==
    ASSUME NEW r, NEW s, NEW t, IsSeq(r), IsSeq(s), IsSeq(t)
    PROVE  (r \o s) \o t = r \o (s \o t)
    <1> DEFINE S == {r[i] : i \in DOMAIN r} \cup {s[i] : i \in DOMAIN s} \cup {t[i] : i \in DOMAIN t}
    <1>1. (\A i \in DOMAIN r : r[i] \in S) /\ (\A i \in DOMAIN s : s[i] \in S) /\ (\A i \in DOMAIN t : t[i] \in S)
        OBVIOUS
    <1> HIDE DEF S
    <1>2. r \in Seq(S) /\ s \in Seq(S) /\ t \in Seq(S)
        BY <1>1, SeqOver
    <1> QED  BY <1>2

-------------------------------------------------------------------------------
(* FlattenSeq goes from left to right. *)

AllSeqs(ss) == IsSeq(ss) /\ \A i \in DOMAIN ss : IsSeq(ss[i])
Flattens(f, ss, n) == f = [i \in 1..n |-> IF i = 1 THEN ss[i] ELSE f[i - 1] \o ss[i]]
Firsts(ss, n) == [i \in 1..n |-> ss[i]]

(* FlattenSeq's recursive function exists ...                              *)
LEMMA FlattenExists ==
    ASSUME NEW ss, NEW n \in Nat
    PROVE  \E f : Flattens(f, ss, n)
    <1> DEFINE S == {m \in Nat : \E f : Flattens(f, ss, m)}
    <1>1. 0 \in S
        <2>1. Flattens([i \in 1..0 |-> <<>>], ss, 0)
            BY DEF Flattens
        <2> QED  BY <2>1
    <1>2. \A m \in Nat : m \in S => m + 1 \in S
        <2> TAKE m \in Nat
        <2> HAVE m \in S
        <2>1. PICK f : Flattens(f, ss, m)
            OBVIOUS
        <2> DEFINE g == [i \in 1..(m + 1) |-> IF i = 1 THEN ss[i] ELSE f[i - 1] \o ss[i]]
        <2>2. \A i \in 1..m : g[i] = f[i]
            <3> TAKE i \in 1..m
            <3>1. f[i] = IF i = 1 THEN ss[i] ELSE f[i - 1] \o ss[i]
                BY <2>1 DEF Flattens
            <3>2. i \in 1..(m + 1)
                OBVIOUS
            <3> QED  BY <3>1, <3>2
        <2>3. \A i \in 1..(m + 1) : g[i] = IF i = 1 THEN ss[i] ELSE g[i - 1] \o ss[i]
            <3> TAKE i \in 1..(m + 1)
            <3>1. i # 1 => i - 1 \in 1..m
                OBVIOUS
            <3>2. i # 1 => g[i - 1] = f[i - 1]
                BY <2>2, <3>1
            <3>3. g[i] = IF i = 1 THEN ss[i] ELSE f[i - 1] \o ss[i]
                OBVIOUS
            <3> HIDE DEF g
            <3> QED  BY <3>2, <3>3
        <2>4. g = [i \in 1..(m + 1) |-> g[i]]
            OBVIOUS
        <2> HIDE DEF g
        <2>5. Flattens(g, ss, m + 1)
            BY <2>3, <2>4, Zenon DEF Flattens
        <2> QED  BY <2>5
    <1> HIDE DEF S
    <1>3. n \in S
        BY <1>1, <1>2, SetInduction
    <1> QED  BY <1>3 DEF S

(* ... there is one only ...                                               *)
LEMMA FlattenUnique ==
    ASSUME NEW ss, NEW m \in Nat, NEW n \in Nat, NEW f, NEW g, Flattens(f, ss, m), Flattens(g, ss, n), NEW i \in 1..m, i <= n
    PROVE  f[i] = g[i]
    <1> DEFINE S == {k \in 0..i : k > 0 => f[k] = g[k]}
    <1>1. 0 \in S
        OBVIOUS
    <1>2. \A k \in 1..i : k - 1 \in S => k \in S
        <2> TAKE k \in 1..i
        <2>1. /\ f[k] = IF k = 1 THEN ss[k] ELSE f[k - 1] \o ss[k]
              /\ g[k] = IF k = 1 THEN ss[k] ELSE g[k - 1] \o ss[k]
            <3>1. k \in 1..m /\ k \in 1..n
                OBVIOUS
            <3> QED  BY <3>1 DEF Flattens
        <2>2. k # 1 => k - 1 > 0 /\ k - 1 \in 0..i /\ k \in 0..i
            OBVIOUS
        <2> QED  BY <2>1, <2>2
    <1> HIDE DEF S
    <1>3. 0..i \subseteq S
        BY <1>1, <1>2, BoundedInduction
    <1> QED  BY <1>3 DEF S

(* ... and FlattenSeq is its last value.                                   *)
LEMMA FlattenIs ==
    ASSUME NEW ss, NEW n \in Nat \ {0}, NEW f, Flattens(f, ss, n)
    PROVE  FlattenSeq(Firsts(ss, n)) = f[n]
    <1> DEFINE first == Firsts(ss, n)
    <1>1. Len(first) = n
        BY MakeSeq DEF Firsts
    <1>2. \A g : g = [i \in 1..n |-> IF i = 1 THEN first[i] ELSE g[i - 1] \o first[i]] <=> Flattens(g, ss, n)
        <2> TAKE g
        <2>1. \A i \in 1..n : (IF i = 1 THEN first[i] ELSE g[i - 1] \o first[i])
                               = (IF i = 1 THEN ss[i] ELSE g[i - 1] \o ss[i])
            BY DEF Firsts
        <2> HIDE DEF first
        <2> QED  BY <2>1, Zenon DEF Flattens
    <1>3. FlattenSeq(first) = (CHOOSE g : g = [i \in 1..n |-> IF i = 1 THEN first[i] ELSE g[i - 1] \o first[i]])[n]
        BY <1>1 DEF FlattenSeq
    <1> HIDE DEF first
    <1> DEFINE Solves(g) == g = [i \in 1..n |-> IF i = 1 THEN first[i] ELSE g[i - 1] \o first[i]]
               h == CHOOSE g : Solves(g)
    <1>4. Solves(f)
        BY <1>2
    <1>5. Solves(h)
        <2> HIDE DEF Solves
        <2> QED  BY <1>4
    <1>6. Flattens(h, ss, n)
        <2> HIDE DEF h
        <2> QED  BY <1>2, <1>5
    <1>7. FlattenSeq(first) = h[n]
        BY <1>3
    <1> HIDE DEF h
    <1>8. n \in 1..n /\ n \in Nat /\ n <= n
        OBVIOUS
    <1>9. h[n] = f[n]
        BY <1>6, <1>8, FlattenUnique
    <1> QED  BY <1>7, <1>9 DEF first

(* Flattening goes sequence by sequence.                                   *)
LEMMA FlattenSteps ==
    ASSUME NEW ss, AllSeqs(ss)
    PROVE  /\ FlattenSeq(Firsts(ss, 0)) = <<>> /\ FlattenSeq(Firsts(ss, Len(ss))) = FlattenSeq(ss)
           /\ \A n \in 1..Len(ss) : FlattenSeq(Firsts(ss, n)) = FlattenSeq(Firsts(ss, n - 1)) \o ss[n]
    <1>1. Len(ss) \in Nat /\ DOMAIN ss = 1..Len(ss) /\ Firsts(ss, Len(ss)) = ss
        BY SeqFacts DEF AllSeqs, Firsts
    <1>2. FlattenSeq(Firsts(ss, 0)) = <<>>
        <2>1. Firsts(ss, 0) = <<>>
            BY DEF Firsts
        <2> QED  BY <2>1 DEF FlattenSeq
    <1>3. ASSUME NEW n \in 1..Len(ss) PROVE FlattenSeq(Firsts(ss, n)) = FlattenSeq(Firsts(ss, n - 1)) \o ss[n]
        <2>1. n \in Nat \ {0} /\ n \in Nat /\ n - 1 \in Nat
            BY <1>1
        <2>2. PICK f : Flattens(f, ss, n)
            BY <2>1, FlattenExists
        <2>3. FlattenSeq(Firsts(ss, n)) = f[n]
            BY <2>1, <2>2, FlattenIs
        <2>4. f[n] = IF n = 1 THEN ss[n] ELSE f[n - 1] \o ss[n]
            <3>1. n \in 1..n
                BY <2>1
            <3> QED  BY <2>2, <3>1 DEF Flattens
        <2>5. CASE n = 1
            <3>1. <<>> \o ss[n] = ss[n]
                BY <1>1, ConcatEmpty DEF AllSeqs
            <3>2. FlattenSeq(Firsts(ss, n - 1)) = <<>>
                BY <1>2, <2>5
            <3> QED  BY <2>3, <2>4, <2>5, <3>1, <3>2
        <2>6. CASE n # 1
            <3>1. n - 1 \in Nat \ {0}
                BY <2>1, <2>6
            <3>2. PICK g : Flattens(g, ss, n - 1)
                BY <2>1, FlattenExists
            <3>3. FlattenSeq(Firsts(ss, n - 1)) = g[n - 1]
                BY <3>1, <3>2, FlattenIs
            <3>4. g[n - 1] = f[n - 1]
                <4>1. n - 1 \in 1..(n - 1) /\ n - 1 <= n
                    BY <3>1
                <4> QED  BY <2>1, <2>2, <3>2, <4>1, FlattenUnique
            <3> QED  BY <2>3, <2>4, <2>6, <3>3, <3>4
        <2> QED  BY <2>5, <2>6
    <1> QED  BY <1>1, <1>2, <1>3

(* Where the items of a flattened sequence come from. *)
LEMMA Flattened ==
    ASSUME NEW ss, AllSeqs(ss), NEW S, \A i \in DOMAIN ss : \A j \in DOMAIN ss[i] : ss[i][j] \in S
    PROVE  IsSeq(FlattenSeq(ss)) /\ FlattenSeq(ss) \in Seq(S)
    <1> DEFINE Good == {n \in 0..Len(ss) : FlattenSeq(Firsts(ss, n)) \in Seq(S)}
    <1>1. Len(ss) \in Nat /\ DOMAIN ss = 1..Len(ss)
        BY SeqFacts DEF AllSeqs
    <1>2. 0 \in Good
        <2>1. 0 \in 0..Len(ss) /\ <<>> \in Seq(S)
            BY <1>1, EmptySeq
        <2> QED  BY <2>1, FlattenSteps
    <1>3. \A n \in 1..Len(ss) : n - 1 \in Good => n \in Good
        <2> TAKE n \in 1..Len(ss)
        <2> HAVE n - 1 \in Good
        <2>1. ss[n] \in Seq(S)
            BY <1>1, SeqOver DEF AllSeqs
        <2>2. FlattenSeq(Firsts(ss, n)) = FlattenSeq(Firsts(ss, n - 1)) \o ss[n]
            BY FlattenSteps
        <2>3. FlattenSeq(Firsts(ss, n)) \in Seq(S)
            BY <2>1, <2>2, ConcatProperties
        <2>4. n \in 0..Len(ss)
            BY <1>1
        <2> QED  BY <2>3, <2>4
    <1> HIDE DEF Good
    <1>4. Len(ss) \in Good
        <2>1. 0..Len(ss) \subseteq Good
            BY <1>1, <1>2, <1>3, BoundedInduction
        <2> QED  BY <1>1, <2>1
    <1>5. FlattenSeq(ss) \in Seq(S)
        BY <1>4, FlattenSteps DEF Good
    <1> QED  BY <1>5, ElementsIrrelevant

(* A flattened sequence has elements of its parts. *)
LEMMA FlattenedFrom ==
    ASSUME NEW ss, AllSeqs(ss)
    PROVE  /\ IsSeq(FlattenSeq(ss))
           /\ \A k \in DOMAIN FlattenSeq(ss) : \E i \in DOMAIN ss : \E j \in DOMAIN ss[i] : FlattenSeq(ss)[k] = ss[i][j]
    <1> DEFINE S == UNION {{ss[i][j] : j \in DOMAIN ss[i]} : i \in DOMAIN ss}
               flat == FlattenSeq(ss)
    <1>1. /\ \A i \in DOMAIN ss : \A j \in DOMAIN ss[i] : ss[i][j] \in S
          /\ \A x \in S : \E i \in DOMAIN ss : \E j \in DOMAIN ss[i] : x = ss[i][j]
        OBVIOUS
    <1> HIDE DEF S
    <1>2. IsSeq(flat) /\ flat \in Seq(S)
        BY <1>1, Flattened
    <1> HIDE DEF flat
    <1>3. \A k \in DOMAIN flat : flat[k] \in S
        BY <1>2
    <1> QED  BY <1>1, <1>2, <1>3 DEF flat

(* Flattening two sequences one after the other. *)
LEMMA FlattenConcat ==
    ASSUME NEW ss, NEW tt, AllSeqs(ss), AllSeqs(tt)
    PROVE  AllSeqs(ss \o tt) /\ FlattenSeq(ss \o tt) = FlattenSeq(ss) \o FlattenSeq(tt)
    <1> DEFINE all == ss \o tt
               m == Len(ss)
               Good == {n \in 0..Len(tt) : FlattenSeq(Firsts(all, m + n)) = FlattenSeq(ss) \o FlattenSeq(Firsts(tt, n))}
               Part == {n \in 0..m : FlattenSeq(Firsts(all, n)) = FlattenSeq(Firsts(ss, n))}
    <1>1. /\ Len(ss) \in Nat /\ DOMAIN ss = 1..Len(ss) /\ Len(tt) \in Nat /\ DOMAIN tt = 1..Len(tt)
          /\ IsSeq(all) /\ Len(all) = Len(ss) + Len(tt)
          /\ (\A i \in 1..Len(ss) : all[i] = ss[i]) /\ (\A i \in 1..Len(tt) : all[Len(ss) + i] = tt[i])
        BY SeqFacts, Concat DEF AllSeqs
    <1> HIDE DEF all
    <1>2. AllSeqs(all)
        <2>1. DOMAIN all = 1..(Len(ss) + Len(tt))
            BY <1>1, SeqFacts
        <2>2. ASSUME NEW i \in DOMAIN all PROVE IsSeq(all[i])
            <3>1. CASE i <= Len(ss)
                <4>1. i \in 1..Len(ss)
                    BY <1>1, <2>1, <3>1
                <4> QED  BY <1>1, <4>1 DEF AllSeqs
            <3>2. CASE ~(i <= Len(ss))
                <4>1. i - Len(ss) \in 1..Len(tt) /\ Len(ss) + (i - Len(ss)) = i
                    BY <1>1, <2>1, <3>2
                <4>2. all[i] = tt[i - Len(ss)]
                    BY <1>1, <4>1
                <4> QED  BY <1>1, <4>1, <4>2 DEF AllSeqs
            <3> QED  BY <3>1, <3>2
        <2> QED  BY <1>1, <2>2 DEF AllSeqs
    <1>3. 0 \in Part
        <2>1. 0 \in 0..m
            BY <1>1
        <2>2. FlattenSeq(Firsts(all, 0)) = <<>> /\ FlattenSeq(Firsts(ss, 0)) = <<>>
            BY <1>2, FlattenSteps
        <2> QED  BY <2>1, <2>2
    <1>4. \A n \in 1..m : n - 1 \in Part => n \in Part
        <2> TAKE n \in 1..m
        <2> HAVE n - 1 \in Part
        <2>1. n \in 1..Len(all) /\ n \in 0..m /\ n \in 1..Len(ss)
            BY <1>1
        <2>2. /\ FlattenSeq(Firsts(all, n)) = FlattenSeq(Firsts(all, n - 1)) \o all[n]
              /\ FlattenSeq(Firsts(ss, n)) = FlattenSeq(Firsts(ss, n - 1)) \o ss[n]
            BY <1>2, <2>1, FlattenSteps
        <2> QED  BY <1>1, <2>1, <2>2
    <1>5. m \in Part
        <2> HIDE DEF Part
        <2>1. 0..m \subseteq Part
            BY <1>1, <1>3, <1>4, BoundedInduction
        <2> QED  BY <1>1, <2>1
    <1>6. FlattenSeq(Firsts(all, m)) = FlattenSeq(ss)
        BY <1>5, FlattenSteps
    <1>7. IsSeq(FlattenSeq(ss)) /\ AllSeqs(tt)
        <2> DEFINE S == UNION {{ss[i][j] : j \in DOMAIN ss[i]} : i \in DOMAIN ss}
        <2>1. \A i \in DOMAIN ss : \A j \in DOMAIN ss[i] : ss[i][j] \in S
            OBVIOUS
        <2> HIDE DEF S
        <2> QED  BY <2>1, Flattened
    <1>8. 0 \in Good
        <2>1. FlattenSeq(ss) \o FlattenSeq(Firsts(tt, 0)) = FlattenSeq(ss)
            BY <1>7, FlattenSteps, ConcatEmpty
        <2> QED  BY <1>1, <1>6, <2>1
    <1>9. \A n \in 0..Len(tt) : IsSeq(FlattenSeq(Firsts(tt, n)))
        <2> TAKE n \in 0..Len(tt)
        <2> DEFINE first == Firsts(tt, n)
                   S == UNION {{tt[i][j] : j \in DOMAIN tt[i]} : i \in DOMAIN tt}
        <2>1. IsSeq(first) /\ DOMAIN first = 1..n
            BY MakeSeq DEF Firsts
        <2>2. \A i \in 1..n : i \in DOMAIN tt /\ first[i] = tt[i]
            BY <1>1 DEF Firsts
        <2> HIDE DEF first
        <2>3. AllSeqs(first) /\ \A i \in DOMAIN first : \A j \in DOMAIN first[i] : first[i][j] \in S
            BY <2>1, <2>2 DEF AllSeqs
        <2> HIDE DEF S
        <2>4. IsSeq(FlattenSeq(first))
            BY <2>3, Flattened
        <2> QED  BY <2>4 DEF first
    <1>10. \A n \in 1..Len(tt) : n - 1 \in Good => n \in Good
        <2> TAKE n \in 1..Len(tt)
        <2> HAVE n - 1 \in Good
        <2>1. m + n \in 1..Len(all) /\ m + (n - 1) = (m + n) - 1 /\ n \in 0..Len(tt) /\ n - 1 \in 0..Len(tt)
            BY <1>1
        <2>2. /\ FlattenSeq(Firsts(all, m + n)) = FlattenSeq(Firsts(all, m + (n - 1))) \o all[m + n]
              /\ FlattenSeq(Firsts(tt, n)) = FlattenSeq(Firsts(tt, n - 1)) \o tt[n]
            BY <1>2, <2>1, FlattenSteps
        <2>3. all[m + n] = tt[n] /\ IsSeq(tt[n]) /\ IsSeq(FlattenSeq(Firsts(tt, n - 1)))
            BY <1>1, <1>9, <2>1 DEF AllSeqs
        <2>4. (FlattenSeq(ss) \o FlattenSeq(Firsts(tt, n - 1))) \o tt[n]
               = FlattenSeq(ss) \o (FlattenSeq(Firsts(tt, n - 1)) \o tt[n])
            <3> DEFINE r == FlattenSeq(ss)
                       t == FlattenSeq(Firsts(tt, n - 1))
                       u == tt[n]
            <3>1. IsSeq(r) /\ IsSeq(t) /\ IsSeq(u)
                BY <1>7, <2>3
            <3> HIDE DEF r, t, u
            <3>2. (r \o t) \o u = r \o (t \o u)
                BY <3>1, ConcatAssoc
            <3> QED  BY <3>2 DEF r, t, u
        <2> QED  BY <2>1, <2>2, <2>3, <2>4
    <1> HIDE DEF Good
    <1>11. Len(tt) \in Good
        <2>1. 0..Len(tt) \subseteq Good
            BY <1>1, <1>8, <1>10, BoundedInduction
        <2> QED  BY <1>1, <2>1
    <1>12. FlattenSeq(Firsts(all, m + Len(tt))) = FlattenSeq(ss) \o FlattenSeq(tt)
        BY <1>11, FlattenSteps DEF Good
    <1>13. FlattenSeq(all) = FlattenSeq(ss) \o FlattenSeq(tt)
        BY <1>1, <1>2, <1>12, FlattenSteps
    <1> QED  BY <1>2, <1>13 DEF all

(* Sequences of one item each make the sequence of the items. *)
LEMMA FlattenSingles ==
    ASSUME NEW s, IsSeq(s)
    PROVE  FlattenSeq([i \in DOMAIN s |-> <<s[i]>>]) = s
    <1> DEFINE ss == [i \in DOMAIN s |-> <<s[i]>>]
               Good == {n \in 0..Len(s) : FlattenSeq(Firsts(ss, n)) = Firsts(s, n)}
    <1>1. Len(s) \in Nat /\ DOMAIN s = 1..Len(s) /\ Firsts(s, Len(s)) = s /\ Firsts(s, 0) = <<>>
        BY SeqFacts DEF Firsts
    <1>2. IsSeq(ss) /\ Len(ss) = Len(s) /\ DOMAIN ss = 1..Len(s) /\ \A i \in 1..Len(s) : ss[i] = <<s[i]>>
        BY <1>1, MakeSeq
    <1> HIDE DEF ss
    <1>3. AllSeqs(ss)
        BY <1>2, OneIsSeq DEF AllSeqs
    <1>4. 0 \in Good
        <2>1. FlattenSeq(Firsts(ss, 0)) = <<>>
            BY <1>3, FlattenSteps
        <2> QED  BY <1>1, <2>1
    <1>5. \A n \in 1..Len(s) : n - 1 \in Good => n \in Good
        <2> TAKE n \in 1..Len(s)
        <2> HAVE n - 1 \in Good
        <2> DEFINE before == Firsts(s, n - 1)
                   one == <<s[n]>>
        <2>1. FlattenSeq(Firsts(ss, n)) = before \o one
            <3>1. FlattenSeq(Firsts(ss, n)) = FlattenSeq(Firsts(ss, n - 1)) \o ss[n]
                BY <1>2, <1>3, FlattenSteps
            <3>2. FlattenSeq(Firsts(ss, n - 1)) = before /\ ss[n] = one
                BY <1>2
            <3> QED  BY <3>1, <3>2
        <2>2. /\ IsSeq(before) /\ Len(before) = n - 1 /\ IsSeq(Firsts(s, n)) /\ Len(Firsts(s, n)) = n
              /\ (\A i \in 1..(n - 1) : before[i] = s[i]) /\ \A i \in 1..n : Firsts(s, n)[i] = s[i]
            BY <1>1, MakeSeq DEF Firsts
        <2>3. IsSeq(one) /\ Len(one) = 1 /\ one[1] = s[n]
            BY OneIsSeq
        <2> HIDE DEF before, one
        <2>4. /\ IsSeq(before \o one) /\ Len(before \o one) = n
              /\ (\A i \in 1..(n - 1) : (before \o one)[i] = before[i]) /\ (before \o one)[n] = s[n]
            <3>1. /\ IsSeq(before \o one) /\ Len(before \o one) = n - 1 + 1
                  /\ (\A i \in 1..(n - 1) : (before \o one)[i] = before[i])
                  /\ \A i \in 1..1 : (before \o one)[(n - 1) + i] = one[i]
                <4>1. /\ IsSeq(before \o one) /\ Len(before \o one) = Len(before) + Len(one)
                      /\ (\A i \in 1..Len(before) : (before \o one)[i] = before[i])
                      /\ \A i \in 1..Len(one) : (before \o one)[Len(before) + i] = one[i]
                    <5>1. IsSeq(before) /\ IsSeq(one)
                        BY <2>2, <2>3
                    <5> QED  BY ONLY <5>1, Concat
                <4> QED  BY <2>2, <2>3, <4>1
            <3>2. (n - 1) + 1 = n /\ 1 \in 1..1
                BY <1>1
            <3> QED  BY <2>3, <3>1, <3>2
        <2>5. \A i \in 1..n : (before \o one)[i] = Firsts(s, n)[i]
            BY <1>1, <2>2, <2>4
        <2>6. before \o one = Firsts(s, n)
            BY <2>2, <2>4, <2>5, SameSeq
        <2> QED  BY <1>1, <2>1, <2>6
    <1>6. Len(s) \in Good
        <2> HIDE DEF Good
        <2>1. 0..Len(s) \subseteq Good
            BY <1>1, <1>4, <1>5, BoundedInduction
        <2> QED  BY <1>1, <2>1
    <1>7. FlattenSeq(ss) = s
        BY <1>1, <1>2, <1>3, <1>6, FlattenSteps
    <1> QED  BY <1>7 DEF ss

-------------------------------------------------------------------------------

CharsTaken(f, s, text, n) ==
    f = [i \in 0..n |-> IF i = 0 THEN s ELSE TakeChar(f[i - 1], text[i])]

(* The scanner of a media type has a state for every number of characters *)
(* ...                                                                    *)
LEMMA CharsTakenExists ==
    ASSUME NEW s, NEW text, NEW n \in Nat
    PROVE  \E f : CharsTaken(f, s, text, n)
    <1> DEFINE S == {m \in Nat : \E f : CharsTaken(f, s, text, m)}
    <1>1. 0 \in S
        <2> DEFINE f == [i \in 0..0 |-> s]
        <2>1. \A i \in 0..0 : f[i] = IF i = 0 THEN s ELSE TakeChar(f[i - 1], text[i])
            OBVIOUS
        <2>2. f = [i \in 0..0 |-> f[i]]
            OBVIOUS
        <2> HIDE DEF f
        <2>3. CharsTaken(f, s, text, 0)
            BY <2>1, <2>2, Zenon DEF CharsTaken
        <2> QED  BY <2>3
    <1>2. \A m \in Nat : m \in S => m + 1 \in S
        <2> TAKE m \in Nat
        <2> HAVE m \in S
        <2>1. PICK f : CharsTaken(f, s, text, m)
            OBVIOUS
        <2> DEFINE g == [i \in 0..(m + 1) |-> IF i = 0 THEN s ELSE TakeChar(f[i - 1], text[i])]
        <2>2. \A i \in 0..m : g[i] = f[i]
            <3> TAKE i \in 0..m
            <3>1. f[i] = IF i = 0 THEN s ELSE TakeChar(f[i - 1], text[i])
                BY <2>1 DEF CharsTaken
            <3>2. i \in 0..(m + 1)
                OBVIOUS
            <3> QED  BY <3>1, <3>2
        <2>3. \A i \in 0..(m + 1) : g[i] = IF i = 0 THEN s ELSE TakeChar(g[i - 1], text[i])
            <3> TAKE i \in 0..(m + 1)
            <3>1. i # 0 => i - 1 \in 0..m
                OBVIOUS
            <3>2. i # 0 => g[i - 1] = f[i - 1]
                BY <2>2, <3>1
            <3>3. g[i] = IF i = 0 THEN s ELSE TakeChar(f[i - 1], text[i])
                OBVIOUS
            <3> HIDE DEF g
            <3> QED  BY <3>2, <3>3
        <2>4. g = [i \in 0..(m + 1) |-> g[i]]
            OBVIOUS
        <2> HIDE DEF g
        <2>5. CharsTaken(g, s, text, m + 1)
            BY <2>3, <2>4, Zenon DEF CharsTaken
        <2> QED  BY <2>5
    <1> HIDE DEF S
    <1>3. n \in S
        BY <1>1, <1>2, SetInduction
    <1> QED  BY <1>3 DEF S

(* ... and goes from character to character. *)
LEMMA CharsTakenSteps ==
    ASSUME NEW s, NEW text, Len(text) \in Nat
    PROVE  \E f : /\ f[0] = s
                  /\ \A i \in 1..Len(text) : f[i] = TakeChar(f[i - 1], text[i])
                  /\ Scanned(s, text) = f[Len(text)]
    <1> DEFINE n == Len(text)
               f == CHOOSE g : CharsTaken(g, s, text, n)
    <1>1. Scanned(s, text) = f[n]
        BY DEF Scanned, CharsTaken
    <1> HIDE DEF n
    <1>2. n \in Nat
        BY DEF n
    <1>3. CharsTaken(f, s, text, n)
        BY <1>2, CharsTakenExists
    <1> HIDE DEF f
    <1>4. f[0] = s /\ \A i \in 1..n : f[i] = TakeChar(f[i - 1], text[i])
        <2>1. 0 \in 0..n /\ \A i \in 1..n : i \in 0..n /\ i # 0
            BY <1>2
        <2> QED  BY <1>3, <2>1 DEF CharsTaken
    <1> QED  BY <1>1, <1>4 DEF n

QuotedCharsRead(f, text, n) ==
    f = [i \in 0..n |-> IF i = 0 THEN "open" ELSE ReadQuoted(f[i - 1], text[i + 1])]

(* The reader of a quoted value has a state for every number of characters *)
(* ...                                                                     *)
LEMMA QuotedCharsReadExists ==
    ASSUME NEW text, NEW n \in Nat
    PROVE  \E f : QuotedCharsRead(f, text, n)
    <1> DEFINE S == {m \in Nat : \E f : QuotedCharsRead(f, text, m)}
    <1>1. 0 \in S
        <2> DEFINE f == [i \in 0..0 |-> "open"]
        <2>1. \A i \in 0..0 : f[i] = IF i = 0 THEN "open" ELSE ReadQuoted(f[i - 1], text[i + 1])
            OBVIOUS
        <2>2. f = [i \in 0..0 |-> f[i]]
            OBVIOUS
        <2> HIDE DEF f
        <2>3. QuotedCharsRead(f, text, 0)
            BY <2>1, <2>2, Zenon DEF QuotedCharsRead
        <2> QED  BY <2>3
    <1>2. \A m \in Nat : m \in S => m + 1 \in S
        <2> TAKE m \in Nat
        <2> HAVE m \in S
        <2>1. PICK f : QuotedCharsRead(f, text, m)
            OBVIOUS
        <2> DEFINE g == [i \in 0..(m + 1) |-> IF i = 0 THEN "open" ELSE ReadQuoted(f[i - 1], text[i + 1])]
        <2>2. \A i \in 0..m : g[i] = f[i]
            <3> TAKE i \in 0..m
            <3>1. f[i] = IF i = 0 THEN "open" ELSE ReadQuoted(f[i - 1], text[i + 1])
                BY <2>1 DEF QuotedCharsRead
            <3>2. i \in 0..(m + 1)
                OBVIOUS
            <3> QED  BY <3>1, <3>2
        <2>3. \A i \in 0..(m + 1) : g[i] = IF i = 0 THEN "open" ELSE ReadQuoted(g[i - 1], text[i + 1])
            <3> TAKE i \in 0..(m + 1)
            <3>1. i # 0 => i - 1 \in 0..m
                OBVIOUS
            <3>2. i # 0 => g[i - 1] = f[i - 1]
                BY <2>2, <3>1
            <3>3. g[i] = IF i = 0 THEN "open" ELSE ReadQuoted(f[i - 1], text[i + 1])
                OBVIOUS
            <3> HIDE DEF g
            <3> QED  BY <3>2, <3>3
        <2>4. g = [i \in 0..(m + 1) |-> g[i]]
            OBVIOUS
        <2> HIDE DEF g
        <2>5. QuotedCharsRead(g, text, m + 1)
            BY <2>3, <2>4, Zenon DEF QuotedCharsRead
        <2> QED  BY <2>5
    <1> HIDE DEF S
    <1>3. n \in S
        BY <1>1, <1>2, SetInduction
    <1> QED  BY <1>3 DEF S

(* ... and goes from character to character. *)
LEMMA QuotedCharsReadSteps ==
    ASSUME NEW text, Len(text) - 2 \in Nat
    PROVE  \E f : /\ f[0] = "open"
                  /\ \A i \in 1..Len(text) - 2 : f[i] = ReadQuoted(f[i - 1], text[i + 1])
                  /\ IsQuotedValue(text) = (Len(text) >= 2 /\ text[Len(text)] = "quote" /\ f[Len(text) - 2] = "open")
    <1> DEFINE n == Len(text) - 2
               f == CHOOSE g : QuotedCharsRead(g, text, n)
    <1>1. IsQuotedValue(text) = (Len(text) >= 2 /\ text[Len(text)] = "quote" /\ f[n] = "open")
        BY DEF IsQuotedValue, QuotedCharsRead
    <1> HIDE DEF n
    <1>2. n \in Nat
        BY DEF n
    <1>3. QuotedCharsRead(f, text, n)
        BY <1>2, QuotedCharsReadExists
    <1> HIDE DEF f
    <1>4. f[0] = "open" /\ \A i \in 1..n : f[i] = ReadQuoted(f[i - 1], text[i + 1])
        <2>1. 0 \in 0..n /\ \A i \in 1..n : i \in 0..n /\ i # 0
            BY <1>2
        <2> QED  BY <1>3, <2>1 DEF QuotedCharsRead
    <1> QED  BY <1>1, <1>4 DEF n


-------------------------------------------------------------------------------
(* Lower case. *)

(* What is lower case stays as it is. *)
LEMMA LowerOnce == \A c : LowerChar(LowerChar(c)) = LowerChar(c)
    <1>1. DOMAIN Capitals = {"TEXT", "PLAIN", "A", "BASE64"} /\ \A c \in DOMAIN Capitals : Capitals[c] \in {"text", "plain", "a", "base64"}
        BY DEF Capitals
    <1>2. \A c \in DOMAIN Capitals : Capitals[c] \notin DOMAIN Capitals
        BY <1>1
    <1> QED  BY <1>2 DEF LowerChar

(* The marks that end a token have no case. *)
LEMMA LowerKeeps ==
    \A c : /\ LowerChar(c) \in NoTokenChars => c \in NoTokenChars /\ LowerChar(c) = c
           /\ c \in NoTokenChars => LowerChar(c) = c
    <1>1. DOMAIN Capitals = {"TEXT", "PLAIN", "A", "BASE64"} /\ \A c \in DOMAIN Capitals : Capitals[c] \in {"text", "plain", "a", "base64"}
        BY DEF Capitals
    <1>2. \A c \in DOMAIN Capitals : Capitals[c] \notin NoTokenChars /\ c \notin NoTokenChars
        BY <1>1 DEF NoTokenChars, White, Controls
    <1> QED  BY <1>2 DEF LowerChar

(* Lower case goes character by character, and once is enough. *)
LEMMA LowerIs ==
    ASSUME NEW text, IsSeq(text)
    PROVE  /\ IsSeq(Lower(text)) /\ Len(Lower(text)) = Len(text) /\ Lower(Lower(text)) = Lower(text)
           /\ \A i \in 1..Len(text) : Lower(text)[i] = LowerChar(text[i])
    <1> DEFINE low == Lower(text)
    <1>1. Len(text) \in Nat /\ DOMAIN text = 1..Len(text)
        BY SeqFacts
    <1>2. low = [i \in 1..Len(text) |-> LowerChar(text[i])]
        BY <1>1 DEF Lower
    <1>3. low = [i \in 1..Len(text) |-> low[i]] /\ \A i \in 1..Len(text) : low[i] = LowerChar(text[i])
        BY <1>2
    <1> HIDE DEF low
    <1>4. IsSeq(low) /\ Len(low) = Len(text) /\ DOMAIN low = 1..Len(text)
        BY <1>1, <1>3, MakeSeq
    <1>5. Lower(low) = [i \in 1..Len(text) |-> LowerChar(low[i])]
        BY <1>4 DEF Lower
    <1>6. \A i \in 1..Len(text) : LowerChar(low[i]) = low[i]
        BY <1>3, LowerOnce
    <1>7. Lower(low) = low
        BY <1>3, <1>5, <1>6
    <1> QED  BY <1>3, <1>4, <1>7 DEF low

(* A token is not empty and has none of the characters with a meaning.     *)
IsToken(text) == IsSeq(text) /\ text # <<>> /\ IsMimeToken(text)
IsSolid(text) == IsSeq(text) /\ Len(text) >= 1 /\ text[1] \notin White /\ text[Len(text)] \notin White

(* A token in lower case is a token. *)
LEMMA LowerToken ==
    ASSUME NEW text, IsToken(text)
    PROVE  IsToken(Lower(text)) /\ Lower(Lower(text)) = Lower(text)
    <1>1. IsSeq(text) /\ Len(text) \in Nat /\ DOMAIN text = 1..Len(text) /\ Len(text) # 0
        BY SeqFacts, EmptyIsSeq DEF IsToken
    <1>2. IsSeq(Lower(text)) /\ Len(Lower(text)) = Len(text) /\ Lower(Lower(text)) = Lower(text)
          /\ \A i \in 1..Len(text) : Lower(text)[i] = LowerChar(text[i])
        BY <1>1, LowerIs
    <1>3. DOMAIN Lower(text) = 1..Len(text) /\ Lower(text) # <<>>
        BY <1>1, <1>2, SeqFacts, EmptyIsSeq
    <1>4. \A i \in 1..Len(text) : Lower(text)[i] \notin NoTokenChars
        BY <1>1, <1>2, LowerKeeps DEF IsToken, IsMimeToken, In
    <1> QED  BY <1>2, <1>3, <1>4 DEF IsToken, IsMimeToken, In

(* A token has no blanks at its ends. *)
LEMMA TokenSolid ==
    ASSUME NEW text, IsToken(text)
    PROVE  IsSolid(text)
    <1>1. IsSeq(text) /\ Len(text) \in Nat /\ DOMAIN text = 1..Len(text) /\ Len(text) # 0
        BY SeqFacts, EmptyIsSeq DEF IsToken
    <1>2. \A i \in 1..Len(text) : text[i] \notin NoTokenChars
        BY <1>1 DEF IsToken, IsMimeToken, In
    <1>3. 1 \in 1..Len(text) /\ Len(text) \in 1..Len(text) /\ Len(text) >= 1
        BY <1>1
    <1>4. White \subseteq NoTokenChars
        BY DEF NoTokenChars
    <1> QED  BY <1>1, <1>2, <1>3, <1>4 DEF IsSolid

-------------------------------------------------------------------------------
(* Trimming and splitting. *)

(* What is trimmed is nothing, or has no blanks at its ends. *)
LEMMA TrimmedText ==
    ASSUME NEW text, IsSeq(text)
    PROVE  IsSeq(Trimmed(text)) /\ (Trimmed(text) = <<>> \/ IsSolid(Trimmed(text)))
    <1> DEFINE solid == {i \in DOMAIN text : text[i] \notin White}
               first == Min(solid)
               last == Max(solid)
               part == SubSeq(text, first, last)
    <1>1. Len(text) \in Nat /\ DOMAIN text = 1..Len(text)
        BY SeqFacts
    <1>2. Trimmed(text) = IF solid = {} THEN <<>> ELSE part
        BY DEF Trimmed
    <1>3. CASE solid = {}
        BY <1>2, <1>3, EmptyIsSeq
    <1>4. CASE solid # {}
        <2>1. solid \subseteq Nat /\ solid \subseteq 0..Len(text)
            BY <1>1
        <2>2. first \in solid /\ last \in solid /\ first <= last
            <3> HIDE DEF solid
            <3> QED  BY <1>1, <1>4, <2>1, Least, Greatest
        <2>3. first \in 1..Len(text) /\ last \in 1..Len(text) /\ text[first] \notin White /\ text[last] \notin White
            BY <1>1, <2>2
        <2> HIDE DEF solid, first, last
        <2>4. /\ IsSeq(part) /\ Len(part) = last - first + 1
              /\ \A i \in 1..Len(part) : part[i] = text[first + i - 1]
            BY <1>1, <2>2, <2>3, PartOfSeq
        <2>5. Len(part) >= 1 /\ part[1] = text[first] /\ part[Len(part)] = text[last]
            BY <2>2, <2>3, <2>4
        <2>6. IsSolid(part)
            BY <2>3, <2>4, <2>5 DEF IsSolid
        <2> QED  BY <1>2, <1>4, <2>4, <2>6
    <1> QED  BY <1>3, <1>4

(* All of a sequence is the sequence. *)
LEMMA WholePart ==
    ASSUME NEW s, IsSeq(s)
    PROVE  SubSeq(s, 1, Len(s)) = s
    <1> DEFINE part == SubSeq(s, 1, Len(s))
    <1>1. Len(s) \in Nat
        BY SeqFacts
    <1>2. IsSeq(part) /\ Len(part) = Len(s) /\ \A i \in 1..Len(part) : part[i] = s[1 + i - 1]
        BY <1>1, PartOfSeq
    <1>3. \A i \in 1..Len(s) : part[i] = s[i]
        BY <1>1, <1>2
    <1> QED  BY <1>2, <1>3, SameSeq

(* The least of a set, when it is known. *)
LEMMA MinIs ==
    ASSUME NEW S, S \subseteq Nat, NEW m \in S, \A i \in S : m <= i
    PROVE  Min(S) = m
    <1> DEFINE least == Min(S)
    <1>1. least \in S /\ \A i \in S : least <= i
        BY Least
    <1> HIDE DEF least
    <1>2. least \in Nat /\ m \in Nat /\ least <= m /\ m <= least
        BY <1>1
    <1>3. least = m
        BY <1>2
    <1> QED  BY <1>3 DEF least

(* The greatest of a set, when it is known. *)
LEMMA MaxIs ==
    ASSUME NEW n \in Nat, NEW S, S \subseteq 0..n, NEW m \in S, \A i \in S : i <= m
    PROVE  Max(S) = m
    <1> DEFINE greatest == Max(S)
    <1>1. greatest \in S /\ \A i \in S : i <= greatest
        BY Greatest
    <1> HIDE DEF greatest
    <1>2. greatest \in Nat /\ m \in Nat /\ greatest <= m /\ m <= greatest
        BY <1>1
    <1>3. greatest = m
        BY <1>2
    <1> QED  BY <1>3 DEF greatest

(* Where there are no blanks at the ends, trimming changes nothing. *)
LEMMA SolidTrimmed ==
    ASSUME NEW text, IsSolid(text)
    PROVE  Trimmed(text) = text
    <1> DEFINE solid == {i \in DOMAIN text : text[i] \notin White}
    <1>1. IsSeq(text) /\ Len(text) \in Nat /\ DOMAIN text = 1..Len(text) /\ Len(text) >= 1
        BY SeqFacts DEF IsSolid
    <1>2. 1 \in solid /\ Len(text) \in solid /\ solid \subseteq Nat /\ solid \subseteq 0..Len(text)
        BY <1>1 DEF IsSolid
    <1>3. (\A i \in solid : 1 <= i) /\ \A i \in solid : i <= Len(text)
        BY <1>1
    <1>4. Trimmed(text) = IF solid = {} THEN <<>> ELSE SubSeq(text, Min(solid), Max(solid))
        BY DEF Trimmed
    <1> HIDE DEF solid
    <1>5. Min(solid) = 1 /\ Max(solid) = Len(text)
        BY <1>1, <1>2, <1>3, MinIs, MaxIs
    <1> QED  BY <1>1, <1>2, <1>4, <1>5, WholePart

(* A blank in front is trimmed. *)
LEMMA BlankTrimmed ==
    ASSUME NEW text, IsSolid(text), NEW b, b \in White
    PROVE  Trimmed(<<b>> \o text) = text
    <1> DEFINE blank == <<b>>
               all == blank \o text
               solid == {i \in DOMAIN all : all[i] \notin White}
               n == Len(text)
               part == SubSeq(all, 2, n + 1)
    <1>1. IsSeq(text) /\ n \in Nat /\ DOMAIN text = 1..n /\ n >= 1
        BY SeqFacts DEF IsSolid
    <1>2. IsSeq(blank) /\ Len(blank) = 1 /\ blank[1] = b
        BY OneIsSeq
    <1> HIDE DEF blank
    <1>3. IsSeq(all) /\ Len(all) = n + 1 /\ all[1] = b /\ \A i \in 1..n : all[1 + i] = text[i]
        <2>1. /\ IsSeq(all) /\ Len(all) = Len(blank) + n /\ (\A i \in 1..Len(blank) : all[i] = blank[i])
              /\ \A i \in 1..n : all[Len(blank) + i] = text[i]
            <3>1. IsSeq(blank) /\ IsSeq(text)
                BY <1>1, <1>2
            <3> QED  BY ONLY <3>1, Concat
        <2> HIDE DEF all, n
        <2>2. Len(all) = 1 + n /\ 1 \in 1..1 /\ 1 + n = n + 1
            BY <1>1, <1>2, <2>1
        <2>3. all[1] = blank[1] /\ \A i \in 1..n : all[1 + i] = text[i]
            BY <1>2, <2>1, <2>2
        <2> QED  BY <1>2, <2>1, <2>2, <2>3
    <1>4. DOMAIN all = 1..(n + 1)
        BY <1>3, SeqFacts
    <1>5. all[1] \in White /\ all[2] = text[1] /\ all[n + 1] = text[n]
        <2> HIDE DEF all, n
        <2>1. 1 \in 1..n /\ n \in 1..n /\ 1 + n = n + 1 /\ 1 + 1 = 2
            BY <1>1
        <2> QED  BY <1>3, <2>1
    <1>6. Trimmed(all) = IF solid = {} THEN <<>> ELSE SubSeq(all, Min(solid), Max(solid))
        BY DEF Trimmed
    <1> HIDE DEF all
    <1>7. 2 \in solid /\ n + 1 \in solid /\ solid \subseteq Nat /\ solid \subseteq 0..(n + 1) /\ 1 \notin solid
        BY <1>1, <1>4, <1>5 DEF IsSolid
    <1>8. (\A i \in solid : 2 <= i) /\ \A i \in solid : i <= n + 1
        BY <1>1, <1>4, <1>7
    <1> HIDE DEF solid, n
    <1>9. Min(solid) = 2 /\ Max(solid) = n + 1
        BY <1>1, <1>7, <1>8, MinIs, MaxIs
    <1>10. IsSeq(part) /\ Len(part) = n /\ \A i \in 1..n : part[i] = all[2 + i - 1]
        <2>1. n + 1 \in Nat /\ 1 <= 2 /\ n + 1 <= Len(all) /\ 2 <= n + 1 /\ (n + 1) - 2 + 1 = n
            <3> HIDE DEF all, n
            <3> QED  BY <1>1, <1>3
        <2>2. /\ IsSeq(part) /\ Len(part) = (IF 2 <= n + 1 THEN (n + 1) - 2 + 1 ELSE 0)
              /\ \A i \in 1..Len(part) : part[i] = all[2 + i - 1] /\ 2 + i - 1 \in DOMAIN all
            BY <1>3, <2>1, PartOfSeq
        <2> HIDE DEF part
        <2> QED  BY <2>1, <2>2
    <1>11. \A i \in 1..n : part[i] = text[i]
        <2> HIDE DEF part
        <2>1. \A i \in 1..n : 2 + i - 1 = 1 + i
            BY <1>1
        <2> QED  BY <1>1, <1>3, <1>10, <2>1
    <1>12. part = text
        BY <1>1, <1>10, <1>11, SameSeq DEF n
    <1> QED  BY <1>6, <1>7, <1>9, <1>12 DEF all, blank

(* split_once, on a text that has the mark after a part without it.        *)
LEMMA SplitParts ==
    ASSUME NEW text, IsSeq(text), NEW c, SplitOnce(text, c) # <<>>
    PROVE  /\ IsSeq(SplitOnce(text, c)[1].before) /\ IsSeq(SplitOnce(text, c)[1].after)
           /\ \E m \in 1..Len(text) :
                /\ SplitOnce(text, c)[1].before = SubSeq(text, 1, m - 1)
                /\ SplitOnce(text, c)[1].after = SubSeq(text, m + 1, Len(text))
                /\ text[m] = c /\ \A i \in 1..(m - 1) : text[i] # c
    <1> DEFINE found == {i \in DOMAIN text : text[i] = c}
               m == Min(found)
               split == [before |-> SubSeq(text, 1, m - 1), after |-> SubSeq(text, m + 1, Len(text))]
    <1>1. Len(text) \in Nat /\ DOMAIN text = 1..Len(text)
        BY SeqFacts
    <1>2. found # {} /\ SplitOnce(text, c) = <<split>>
        BY DEF SplitOnce
    <1>3. m \in found /\ \A i \in found : m <= i
        <2>1. found \subseteq Nat
            BY <1>1
        <2> HIDE DEF found
        <2> QED  BY <1>2, <2>1, Least
    <1>4. m \in 1..Len(text) /\ text[m] = c /\ \A i \in 1..(m - 1) : text[i] # c
        BY <1>1, <1>3
    <1> HIDE DEF m
    <1>5. SplitOnce(text, c)[1].before = SubSeq(text, 1, m - 1) /\ SplitOnce(text, c)[1].after = SubSeq(text, m + 1, Len(text))
        BY <1>2
    <1>6. IsSeq(SubSeq(text, 1, m - 1)) /\ IsSeq(SubSeq(text, m + 1, Len(text)))
        BY <1>1, <1>4, PartOfSeq
    <1> QED  BY <1>4, <1>5, <1>6

(* A text is split at the first of its marks. *)
LEMMA SplitOnceAt ==
    ASSUME NEW a, NEW b, IsSeq(a), IsSeq(b), NEW c, \A i \in 1..Len(a) : a[i] # c
    PROVE  SplitOnce(a \o <<c>> \o b, c) = <<[before |-> a, after |-> b]>>
    <1> DEFINE one == <<c>>
               left == a \o one
               all == left \o b
               found == {i \in DOMAIN all : all[i] = c}
               m == Len(a) + 1
               n == Len(all)
               before == SubSeq(all, 1, m - 1)
               after == SubSeq(all, m + 1, n)
    <1>1. Len(a) \in Nat /\ Len(b) \in Nat
        BY SeqFacts
    <1>2. IsSeq(one) /\ Len(one) = 1 /\ one[1] = c
        BY OneIsSeq
    <1> HIDE DEF one
    <1>3. IsSeq(left) /\ Len(left) = Len(a) + 1 /\ (\A i \in 1..Len(a) : left[i] = a[i]) /\ left[Len(a) + 1] = c
        <2>1. /\ IsSeq(left) /\ Len(left) = Len(a) + Len(one) /\ (\A i \in 1..Len(a) : left[i] = a[i])
              /\ \A i \in 1..Len(one) : left[Len(a) + i] = one[i]
            <3>1. IsSeq(a) /\ IsSeq(one)
                BY <1>1, <1>2
            <3> QED  BY ONLY <3>1, Concat
        <2> HIDE DEF left
        <2> QED  BY <1>1, <1>2, <2>1
    <1> HIDE DEF left
    <1>4. /\ IsSeq(all) /\ n = m + Len(b) /\ (\A i \in 1..Len(b) : all[m + i] = b[i])
          /\ \A i \in 1..m : all[i] = left[i]
        BY <1>1, <1>3, Concat
    <1>5. DOMAIN all = 1..n
        BY <1>4, SeqFacts
    <1>6. SplitOnce(all, c) = IF found = {} THEN <<>> ELSE <<[before |-> SubSeq(all, 1, Min(found) - 1), after |-> SubSeq(all, Min(found) + 1, n)]>>
        BY DEF SplitOnce
    <1> HIDE DEF all, n
    <1>7. m \in found /\ found \subseteq Nat /\ \A i \in found : m <= i
        BY <1>1, <1>3, <1>4, <1>5
    <1> HIDE DEF found
    <1>8. Min(found) = m
        BY <1>7, MinIs
    <1>9. IsSeq(before) /\ Len(before) = Len(a) /\ \A i \in 1..Len(before) : before[i] = all[1 + i - 1]
        BY <1>1, <1>4, PartOfSeq DEF n
    <1>10. IsSeq(after) /\ Len(after) = Len(b) /\ \A i \in 1..Len(after) : after[i] = all[m + 1 + i - 1]
        BY <1>1, <1>4, PartOfSeq DEF n
    <1>11. before = a
        <2>1. \A i \in 1..Len(a) : before[i] = a[i]
            BY <1>1, <1>3, <1>4, <1>9
        <2> QED  BY <1>9, <2>1, SameSeq
    <1>12. after = b
        <2>1. \A i \in 1..Len(b) : after[i] = b[i]
            BY <1>1, <1>4, <1>10
        <2> QED  BY <1>10, <2>1, SameSeq
    <1>13. SplitOnce(all, c) = <<[before |-> before, after |-> after]>>
        BY <1>6, <1>7, <1>8
    <1> HIDE DEF before, after
    <1> QED  BY <1>11, <1>12, <1>13 DEF all, left, one


-------------------------------------------------------------------------------
(* The scanner that splits a text at its semicolons. *)
Yes == TRUE
No == FALSE
Scan(done, current, quoted, escaped) == [done |-> done, current |-> current, quoted |-> quoted, escaped |-> escaped]

(* The scanner, case by case, as take_char goes through them ... *)
LEMMA CharTaken ==
    ASSUME NEW done, NEW current, NEW quoted \in {Yes, No}, NEW escaped \in {Yes, No}, NEW c
    PROVE  /\ escaped = No /\ quoted = Yes /\ c = "backslash"
                => TakeChar(Scan(done, current, quoted, escaped), c) = Scan(done, Append(current, c), quoted, Yes)
           /\ escaped = No /\ quoted = No /\ c = "quote"
                => TakeChar(Scan(done, current, quoted, escaped), c) = Scan(done, Append(current, c), Yes, No)
           /\ escaped = No /\ quoted = Yes /\ c = "quote"
                => TakeChar(Scan(done, current, quoted, escaped), c) = Scan(done, Append(current, c), No, No)
           /\ escaped = No /\ quoted = No /\ c = "semicolon"
                => TakeChar(Scan(done, current, quoted, escaped), c) = Scan(Append(done, current), <<>>, quoted, escaped)
           /\ escaped = Yes => TakeChar(Scan(done, current, quoted, escaped), c) = Scan(done, Append(current, c), quoted, No)
           /\ quoted = No /\ c \notin {"quote", "semicolon"} => TakeChar(Scan(done, current, quoted, escaped), c) = Scan(done, Append(current, c), quoted, No)
           /\ escaped = No /\ quoted = Yes /\ c \notin {"quote", "backslash"} => TakeChar(Scan(done, current, quoted, escaped), c) = Scan(done, Append(current, c), quoted, No)
    <1> DEFINE s == Scan(done, current, quoted, escaped)
               more == Append(current, c)
               longer == Append(done, current)
               none == <<>>
               other == ~quoted
               taken == [s EXCEPT !.current = Append(@, c), !.escaped = No]
    <1>1. s = [done |-> done, current |-> current, quoted |-> quoted, escaped |-> escaped]
        BY DEF Scan
    <1> HIDE DEF s
    <1>2. taken = [done |-> done, current |-> more, quoted |-> quoted, escaped |-> No]
        <2> DEFINE t == [s EXCEPT !.current = more]
        <2>1. t = [done |-> done, current |-> more, quoted |-> quoted, escaped |-> escaped]
            <3> HIDE DEF more
            <3> QED  BY <1>1
        <2>2. taken = [t EXCEPT !.escaped = No]
            BY <1>1
        <2> HIDE DEF t, more
        <2>3. [t EXCEPT !.escaped = No] = [done |-> done, current |-> more, quoted |-> quoted, escaped |-> No]
            BY <2>1
        <2> QED  BY <2>2, <2>3
    <1>3. Taken(s, c) = taken
        BY Zenon DEF Taken, No
    <1>4. TakeChar(s, c) =
            CASE ~s.escaped /\ s.quoted /\ c = "backslash" -> [taken EXCEPT !.escaped = Yes]
              [] ~s.escaped /\ c = "quote" -> [taken EXCEPT !.quoted = ~@]
              [] ~s.escaped /\ ~s.quoted /\ c = "semicolon" -> [s EXCEPT !.done = Append(@, s.current), !.current = <<>>]
              [] OTHER -> taken
        BY <1>3, Zenon DEF TakeChar, Yes
    <1>5. s.done = done /\ s.current = current /\ s.quoted = quoted /\ s.escaped = escaped
        BY <1>1
    <1> HIDE DEF taken
    <1>6. taken.quoted = quoted /\ [taken EXCEPT !.escaped = Yes] = [done |-> done, current |-> more, quoted |-> quoted, escaped |-> Yes]
        <2> HIDE DEF more
        <2> QED  BY <1>2
    <1>7. [taken EXCEPT !.quoted = other] = [done |-> done, current |-> more, quoted |-> other, escaped |-> No]
        <2> HIDE DEF more, other
        <2> QED  BY <1>2
    <1>8. [s EXCEPT !.done = longer, !.current = none] = [done |-> longer, current |-> none, quoted |-> quoted, escaped |-> escaped]
        <2> DEFINE t == [s EXCEPT !.done = longer]
        <2> HIDE DEF longer, none
        <2>1. t = [done |-> longer, current |-> current, quoted |-> quoted, escaped |-> escaped]
            BY <1>1
        <2> HIDE DEF t
        <2>2. [t EXCEPT !.current = none] = [done |-> longer, current |-> none, quoted |-> quoted, escaped |-> escaped]
            BY <2>1
        <2> QED  BY <2>2 DEF t
    <1> DEFINE a == ~escaped /\ quoted /\ c = "backslash"
               b == ~escaped /\ c = "quote"
               d == ~escaped /\ ~quoted /\ c = "semicolon"
               va == [done |-> done, current |-> more, quoted |-> quoted, escaped |-> Yes]
               vb == [done |-> done, current |-> more, quoted |-> other, escaped |-> No]
               vd == [done |-> longer, current |-> none, quoted |-> quoted, escaped |-> escaped]
               ve == [done |-> done, current |-> more, quoted |-> quoted, escaped |-> No]
    <1>9. TakeChar(s, c) = CASE a -> va [] b -> vb [] d -> vd [] OTHER -> ve
        <2>1. [taken EXCEPT !.quoted = ~@] = [taken EXCEPT !.quoted = other]
            BY <1>2, <1>6
        <2>2. [s EXCEPT !.done = Append(@, s.current), !.current = <<>>] = [s EXCEPT !.done = longer, !.current = none]
            BY <1>1, <1>5
        <2> QED  BY ONLY <1>2, <1>4, <1>5, <1>6, <1>7, <1>8, <2>1, <2>2, Zenon
    <1>10. (a => ~b /\ ~d) /\ (b => ~a /\ ~d) /\ (d => ~a /\ ~b)
        OBVIOUS
    <1>11. /\ (escaped = Yes <=> escaped) /\ (escaped = No <=> ~escaped)
           /\ (quoted = Yes <=> quoted) /\ (quoted = No <=> ~quoted)
        BY DEF Yes, No
    <1>12. /\ va = Scan(done, Append(current, c), quoted, Yes) /\ ve = Scan(done, Append(current, c), quoted, No)
           /\ vd = Scan(Append(done, current), <<>>, quoted, escaped)
        BY DEF Scan
    <1>14. /\ quoted => vb = Scan(done, Append(current, c), No, No)
           /\ ~quoted => vb = Scan(done, Append(current, c), Yes, No)
        <2>1. (quoted => other = No) /\ (~quoted => other = Yes)
            BY DEF Yes, No
        <2> HIDE DEF other
        <2> QED  BY <2>1 DEF Scan
    <1>13. /\ a => TakeChar(s, c) = va
           /\ b => TakeChar(s, c) = vb
           /\ d => TakeChar(s, c) = vd
           /\ ~a /\ ~b /\ ~d => TakeChar(s, c) = ve
        <2> HIDE DEF a, b, d, va, vb, vd, ve
        <2> QED  BY <1>9, <1>10
    <1>15. /\ escaped = No /\ quoted = Yes /\ c = "backslash" => a
           /\ escaped = No /\ c = "quote" => b
           /\ escaped = No /\ quoted = No /\ c = "semicolon" => d
           /\ escaped = Yes => ~a /\ ~b /\ ~d
           /\ quoted = No /\ c \notin {"quote", "semicolon"} => ~a /\ ~b /\ ~d
           /\ escaped = No /\ quoted = Yes /\ c \notin {"quote", "backslash"} => ~a /\ ~b /\ ~d
        <2> DEFINE e1 == escaped = Yes
                   e0 == escaped = No
                   q1 == quoted = Yes
                   q0 == quoted = No
        <2>1. (e1 <=> escaped) /\ (e0 <=> ~escaped) /\ (q1 <=> quoted) /\ (q0 <=> ~quoted)
            BY <1>11
        <2>2. (a <=> e0 /\ q1 /\ c = "backslash") /\ (b <=> e0 /\ c = "quote") /\ (d <=> e0 /\ q0 /\ c = "semicolon")
            BY <2>1
        <2>3. (e1 <=> ~e0) /\ (q1 <=> ~q0)
            BY <2>1
        <2> HIDE DEF a, b, d, e0, e1, q0, q1
        <2>4. /\ e0 /\ q1 /\ c = "backslash" => a
              /\ e0 /\ c = "quote" => b
              /\ e0 /\ q0 /\ c = "semicolon" => d
              /\ e1 => ~a /\ ~b /\ ~d
              /\ q0 /\ c \notin {"quote", "semicolon"} => ~a /\ ~b /\ ~d
              /\ e0 /\ q1 /\ c \notin {"quote", "backslash"} => ~a /\ ~b /\ ~d
            BY <2>2, <2>3
        <2> QED  BY <2>4 DEF e0, e1, q0, q1
    <1>16. /\ quoted = Yes => vb = Scan(done, Append(current, c), No, No)
           /\ quoted = No => vb = Scan(done, Append(current, c), Yes, No)
        BY <1>11, <1>14
    <1> HIDE DEF a, b, d, va, vb, vd, ve
    <1>17. ~a /\ ~b /\ ~d => TakeChar(s, c) = ve
        BY ONLY <1>13
    <1>19. /\ escaped = Yes => TakeChar(s, c) = ve
           /\ quoted = No /\ c \notin {"quote", "semicolon"} => TakeChar(s, c) = ve
           /\ escaped = No /\ quoted = Yes /\ c \notin {"quote", "backslash"} => TakeChar(s, c) = ve
        BY ONLY <1>15, <1>17
    <1>20. /\ escaped = No /\ quoted = Yes /\ c = "backslash" => TakeChar(s, c) = va
           /\ escaped = No /\ c = "quote" => TakeChar(s, c) = vb
           /\ escaped = No /\ quoted = No /\ c = "semicolon" => TakeChar(s, c) = vd
        BY ONLY <1>13, <1>15
    <1> HIDE DEF s
    <1>21. /\ escaped = No /\ quoted = No /\ c = "quote" => TakeChar(s, c) = Scan(done, Append(current, c), Yes, No)
           /\ escaped = No /\ quoted = Yes /\ c = "quote" => TakeChar(s, c) = Scan(done, Append(current, c), No, No)
        BY ONLY <1>16, <1>20
    <1> QED  BY ONLY <1>12, <1>19, <1>20, <1>21 DEF s

(* The states the scanner can be in. *)
Unquoting(done, current) == Scan(done, current, No, No)
Quoting(done, current) == Scan(done, current, Yes, No)
Escaping(done, current) == Scan(done, current, Yes, Yes)

(* ... outside of quotes ... *)
LEMMA PlainCharCases ==
    ASSUME NEW done, NEW current, NEW c
    PROVE  /\ c \notin {"quote", "semicolon"} => TakeChar(Unquoting(done, current), c) = Unquoting(done, Append(current, c))
           /\ c = "quote" => TakeChar(Unquoting(done, current), c) = Quoting(done, Append(current, c))
           /\ c = "semicolon" => TakeChar(Unquoting(done, current), c) = Unquoting(Append(done, current), <<>>)
    <1>1. c \notin {"quote", "semicolon"} => TakeChar(Scan(done, current, No, No), c) = Scan(done, Append(current, c), No, No)
        BY CharTaken
    <1>2. c = "quote" => TakeChar(Scan(done, current, No, No), c) = Scan(done, Append(current, c), Yes, No)
        BY CharTaken
    <1>3. c = "semicolon" => TakeChar(Scan(done, current, No, No), c) = Scan(Append(done, current), <<>>, No, No)
        BY CharTaken
    <1> QED  BY <1>1, <1>2, <1>3 DEF Unquoting, Quoting

(* ... and inside of them. *)
LEMMA QuotingCharCases ==
    ASSUME NEW done, NEW current, NEW c
    PROVE  /\ c = "backslash" => TakeChar(Quoting(done, current), c) = Escaping(done, Append(current, c))
           /\ c \notin {"quote", "backslash"} => TakeChar(Quoting(done, current), c) = Quoting(done, Append(current, c))
           /\ c = "quote" => TakeChar(Quoting(done, current), c) = Unquoting(done, Append(current, c))
           /\ TakeChar(Escaping(done, current), c) = Quoting(done, Append(current, c))
    <1>1. c = "backslash" => TakeChar(Scan(done, current, Yes, No), c) = Scan(done, Append(current, c), Yes, Yes)
        BY CharTaken
    <1>2. c \notin {"quote", "backslash"} => TakeChar(Scan(done, current, Yes, No), c) = Scan(done, Append(current, c), Yes, No)
        BY CharTaken
    <1>3. c = "quote" => TakeChar(Scan(done, current, Yes, No), c) = Scan(done, Append(current, c), No, No)
        BY CharTaken
    <1>4. TakeChar(Scan(done, current, Yes, Yes), c) = Scan(done, Append(current, c), Yes, No)
        BY CharTaken
    <1> QED  BY <1>1, <1>2, <1>3, <1>4, Zenon DEF Unquoting, Quoting, Escaping

(* One character is one step of the scanner. *)
LEMMA ScanOne == \A s, c : Scanned(s, <<c>>) = TakeChar(s, c)
    <1> TAKE s, c
    <1> DEFINE text == <<c>>
    <1>1. Len(text) = 1 /\ text[1] = c
        BY OneIsSeq
    <1> HIDE DEF text
    <1>2. PICK f : /\ f[0] = s /\ (\A i \in 1..Len(text) : f[i] = TakeChar(f[i - 1], text[i]))
                   /\ Scanned(s, text) = f[Len(text)]
        BY <1>1, CharsTakenSteps
    <1>3. f[1] = TakeChar(f[1 - 1], text[1])
        BY <1>1, <1>2
    <1>4. Scanned(s, text) = TakeChar(s, c)
        BY <1>1, <1>2, <1>3
    <1> QED  BY <1>4 DEF text

(* Two texts are scanned one after the other. *)
LEMMA ScanConcat ==
    ASSUME NEW s, NEW a, NEW b, IsSeq(a), IsSeq(b)
    PROVE  Scanned(s, a \o b) = Scanned(Scanned(s, a), b)
    <1> DEFINE all == a \o b
               m == Len(a)
               n == Len(b)
               k == Len(all)
    <1>1. /\ IsSeq(all) /\ Len(all) = Len(a) + Len(b) /\ (\A i \in 1..Len(a) : all[i] = a[i])
          /\ \A i \in 1..Len(b) : all[Len(a) + i] = b[i]
        <2>1. IsSeq(a) /\ IsSeq(b)
            OBVIOUS
        <2> QED  BY ONLY <2>1, Concat
    <1>2. m \in Nat /\ n \in Nat
        BY SeqFacts
    <1> HIDE DEF all
    <1>3. k = m + n /\ k \in Nat
        BY <1>1, <1>2
    <1>4. PICK f : f[0] = s /\ (\A i \in 1..k : f[i] = TakeChar(f[i - 1], all[i])) /\ Scanned(s, all) = f[k]
        BY <1>3, CharsTakenSteps
    <1>5. PICK g : g[0] = s /\ (\A i \in 1..m : g[i] = TakeChar(g[i - 1], a[i])) /\ Scanned(s, a) = g[m]
        BY <1>2, CharsTakenSteps
    <1> DEFINE middle == Scanned(s, a)
    <1> HIDE DEF middle
    <1>6. PICK h : h[0] = middle /\ (\A i \in 1..n : h[i] = TakeChar(h[i - 1], b[i])) /\ Scanned(middle, b) = h[n]
        BY <1>2, CharsTakenSteps
    <1>7. (\A i \in 1..m : all[i] = a[i]) /\ \A i \in 1..n : all[m + i] = b[i]
        BY <1>1
    <1> HIDE DEF m, n, k
    <1> DEFINE First == {i \in 0..m : f[i] = g[i]}
               Second == {i \in 0..n : f[m + i] = h[i]}
    <1>8. 0..m \subseteq First
        <2>1. 0 \in First
            BY <1>2, <1>4, <1>5
        <2>2. \A i \in 1..m : i - 1 \in First => i \in First
            <3> TAKE i \in 1..m
            <3> HAVE i - 1 \in First
            <3>1. i \in 1..k /\ i \in 0..m
                BY <1>2, <1>3
            <3>2. f[i] = TakeChar(f[i - 1], all[i]) /\ g[i] = TakeChar(g[i - 1], a[i]) /\ f[i - 1] = g[i - 1] /\ all[i] = a[i]
                BY <1>4, <1>5, <1>7, <3>1
            <3> QED  BY <3>1, <3>2
        <2> HIDE DEF First
        <2> QED  BY <1>2, <2>1, <2>2, BoundedInduction
    <1>9. f[m] = h[0]
        <2>1. m \in First
            BY <1>2, <1>8
        <2> QED  BY <1>5, <1>6, <2>1 DEF middle
    <1>10. 0..n \subseteq Second
        <2>1. 0 \in Second
            BY <1>2, <1>9
        <2>2. \A i \in 1..n : i - 1 \in Second => i \in Second
            <3> TAKE i \in 1..n
            <3> HAVE i - 1 \in Second
            <3>1. m + i \in 1..k /\ i \in 0..n /\ m + (i - 1) = m + i - 1
                BY <1>2, <1>3
            <3>2. f[m + i] = TakeChar(f[m + i - 1], all[m + i]) /\ h[i] = TakeChar(h[i - 1], b[i])
                <4> DEFINE j == m + i
                <4>1. j \in 1..k /\ i \in 1..n /\ j - 1 = m + i - 1
                    BY <1>2, <3>1
                <4> HIDE DEF j
                <4>2. f[j] = TakeChar(f[j - 1], all[j]) /\ h[i] = TakeChar(h[i - 1], b[i])
                    BY <1>4, <1>6, <4>1
                <4>3. f[j] = TakeChar(f[m + i - 1], all[j])
                    BY <4>1, <4>2
                <4> QED  BY <4>2, <4>3 DEF j
            <3>3. f[m + i - 1] = h[i - 1] /\ all[m + i] = b[i]
                BY <1>7, <3>1
            <3> QED  BY <3>1, <3>2, <3>3
        <2> HIDE DEF Second
        <2> QED  BY <1>2, <2>1, <2>2, BoundedInduction
    <1>11. n \in Second
        BY <1>2, <1>10
    <1>12. f[k] = h[n]
        BY <1>3, <1>11
    <1> QED  BY <1>4, <1>6, <1>12 DEF all, middle

(* The part of a text that has been added to what was there before. *)
GrownBy(longer, base, text, n) ==
    /\ IsSeq(longer) /\ Len(longer) = Len(base) + n
    /\ (\A i \in 1..Len(base) : longer[i] = base[i]) /\ \A i \in 1..n : longer[Len(base) + i] = text[i]

(* A text that grows by what it reads grows by the next character ... *)
LEMMA ExtendsOne ==
    ASSUME NEW base, NEW text, IsSeq(base), IsSeq(text), NEW n \in 1..Len(text), NEW longer, GrownBy(longer, base, text, n - 1)
    PROVE  GrownBy(Append(longer, text[n]), base, text, n)
    <1> DEFINE x == text[n]
               more == Append(longer, x)
               m == Len(base)
    <1>1. m \in Nat /\ Len(text) \in Nat /\ n \in Nat
        BY SeqFacts
    <1>2. IsSeq(longer) /\ Len(longer) = m + (n - 1) /\ (\A i \in 1..m : longer[i] = base[i]) /\ \A i \in 1..(n - 1) : longer[m + i] = text[i]
        BY DEF GrownBy
    <1>3. /\ IsSeq(more) /\ Len(more) = Len(longer) + 1 /\ (\A i \in 1..Len(longer) : more[i] = longer[i])
          /\ more[Len(longer) + 1] = x
        <2>1. IsSeq(longer)
            BY <1>2
        <2> QED  BY ONLY <2>1, Appended
    <1> HIDE DEF more, m
    <1>4. Len(more) = m + n /\ Len(longer) + 1 = m + n
        BY <1>1, <1>2, <1>3
    <1>5. \A i \in 1..m : i \in 1..Len(longer)
        BY <1>1, <1>2
    <1>6. \A i \in 1..n : more[m + i] = text[i]
        <2> TAKE i \in 1..n
        <2>1. CASE i = n
            BY <1>3, <1>4, <2>1
        <2>2. CASE i # n
            <3>1. i \in 1..(n - 1) /\ m + i \in 1..Len(longer)
                BY <1>1, <1>2, <2>2
            <3> QED  BY <1>2, <1>3, <3>1
        <2> QED  BY <2>1, <2>2
    <1>7. \A i \in 1..m : more[i] = base[i]
        BY <1>2, <1>3, <1>5
    <1> QED  BY <1>3, <1>4, <1>6, <1>7 DEF GrownBy, more, m

(* ... up to all of them ... *)
LEMMA ExtendsWhole ==
    ASSUME NEW base, NEW text, IsSeq(base), IsSeq(text), NEW longer, GrownBy(longer, base, text, Len(text))
    PROVE  longer = base \o text
    <1> DEFINE all == base \o text
               m == Len(base)
               n == Len(text)
    <1>1. m \in Nat /\ n \in Nat
        BY SeqFacts
    <1>2. IsSeq(all) /\ Len(all) = m + n /\ (\A i \in 1..m : all[i] = base[i]) /\ \A i \in 1..n : all[m + i] = text[i]
        <2>1. IsSeq(base) /\ IsSeq(text)
            OBVIOUS
        <2> QED  BY ONLY <2>1, Concat
    <1>3. IsSeq(longer) /\ Len(longer) = m + n /\ (\A i \in 1..m : longer[i] = base[i]) /\ \A i \in 1..n : longer[m + i] = text[i]
        BY DEF GrownBy
    <1> HIDE DEF all, m, n
    <1>4. \A i \in 1..(m + n) : longer[i] = all[i]
        <2> TAKE i \in 1..(m + n)
        <2>1. CASE i \in 1..m
            BY <1>2, <1>3, <2>1
        <2>2. CASE i \notin 1..m
            <3>1. i - m \in 1..n /\ i = m + (i - m)
                BY <1>1, <2>2
            <3> DEFINE j == i - m
            <3> HIDE DEF j
            <3>2. j \in 1..n /\ i = m + j
                BY <3>1 DEF j
            <3>3. longer[m + j] = text[j] /\ all[m + j] = text[j]
                BY <1>2, <1>3, <3>2
            <3> QED  BY <3>2, <3>3
        <2> QED  BY <2>1, <2>2
    <1>5. longer = all
        BY <1>2, <1>3, <1>4, SameSeq
    <1> QED  BY <1>5 DEF all

(* ... from none. *)
LEMMA ExtendsNone ==
    ASSUME NEW base, IsSeq(base), NEW text
    PROVE  GrownBy(base, base, text, 0)
    <1>1. Len(base) \in Nat
        BY SeqFacts
    <1> QED  BY <1>1 DEF GrownBy


(* A text without quotes and semicolons only makes the current part longer. *)
LEMMA PlainScanned ==
    ASSUME NEW text, IsSeq(text), \A i \in 1..Len(text) : text[i] \notin {"semicolon", "quote"},
           NEW done, NEW current, IsSeq(current)
    PROVE  Scanned(Unquoting(done, current), text) = Unquoting(done, current \o text)
    <1> DEFINE s == Unquoting(done, current)
               n == Len(text)
    <1> HIDE DEF s
    <1>1. IsSeq(text) /\ n \in Nat /\ n >= 0
        BY SeqFacts
    <1>2. PICK f : f[0] = s /\ (\A i \in 1..n : f[i] = TakeChar(f[i - 1], text[i])) /\ Scanned(s, text) = f[n]
        BY ONLY <1>1, CharsTakenSteps
    <1>2a. \A i \in 1..n : text[i] \notin {"semicolon", "quote"} /\ i \in 1..Len(text)
        OBVIOUS
    <1>2b. n = Len(text)
        OBVIOUS
    <1> HIDE DEF n
    <1> DEFINE Plainly(i) == \E longer : GrownBy(longer, current, text, i) /\ f[i] = Unquoting(done, longer)
               Good == {i \in 0..n : Plainly(i)}
    <1>3. 0 \in Good
        <2>1. f[0] = Unquoting(done, current)
            BY <1>2 DEF s
        <2>2. Plainly(0)
            BY <2>1, ExtendsNone
        <2> HIDE DEF Plainly
        <2>3. 0 \in 0..n
            BY <1>1
        <2> QED  BY <2>2, <2>3, Zenon
    <1>4. \A i \in 1..n : i - 1 \in Good => i \in Good
        <2> TAKE i \in 1..n
        <2> HAVE i - 1 \in Good
        <2>1. Plainly(i - 1)
            <3> HIDE DEF Plainly
            <3> QED  OBVIOUS
        <2>2. PICK longer : GrownBy(longer, current, text, i - 1) /\ f[i - 1] = Unquoting(done, longer)
            BY <2>1
        <2> DEFINE c == text[i]
                   more == Append(longer, c)
        <2>3. GrownBy(more, current, text, i)
            BY <1>2a, <2>2, ExtendsOne
        <2>4. c \notin {"semicolon", "quote"}
            BY <1>2a
        <2>5. f[i] = TakeChar(f[i - 1], c)
            BY <1>2
        <2> HIDE DEF c
        <2>6. TakeChar(Unquoting(done, longer), c) = Unquoting(done, Append(longer, c))
            <3>1. c \notin {"backslash", "quote", "semicolon"} \/ c = "backslash"
                BY <2>4
            <3> QED  BY <3>1, PlainCharCases
        <2>7. f[i] = Unquoting(done, more)
            BY <2>2, <2>5, <2>6
        <2> HIDE DEF more
        <2>8. Plainly(i)
            BY <2>3, <2>7
        <2> HIDE DEF Plainly
        <2>9. i \in 0..n
            BY <1>1
        <2> QED  BY <2>8, <2>9, Zenon
    <1>5. n \in Good
        <2> HIDE DEF Good
        <2>1. 0..n \subseteq Good
            BY <1>1, <1>3, <1>4, BoundedInduction
        <2> QED  BY <1>1, <2>1
    <1>6. Plainly(n)
        <2> HIDE DEF Plainly
        <2> QED  BY <1>5
    <1>7. PICK longer : GrownBy(longer, current, text, n) /\ f[n] = Unquoting(done, longer)
        BY <1>6
    <1>8. longer = current \o text
        BY <1>2b, <1>7, ExtendsWhole
    <1>9. Scanned(s, text) = Unquoting(done, current \o text)
        BY <1>2, <1>7, <1>8
    <1> QED  BY <1>9 DEF s

(* So does a quoted value, whatever is between its quotes. *)
LEMMA QuotedScanned ==
    ASSUME NEW text, IsSeq(text), text[1] = "quote", IsQuotedValue(text), NEW done, NEW current, IsSeq(current)
    PROVE  Scanned(Unquoting(done, current), text) = Unquoting(done, current \o text)
    <1> DEFINE s == Unquoting(done, current)
               n == Len(text)
               body == n - 2
    <1> HIDE DEF s
    <1>1. n \in Nat /\ n >= 2 /\ text[n] = "quote"
        BY SeqFacts DEF IsQuotedValue
    <1>2. PICK f : f[0] = s /\ (\A i \in 1..n : f[i] = TakeChar(f[i - 1], text[i])) /\ Scanned(s, text) = f[n]
        BY <1>1, CharsTakenSteps
    <1>3. PICK g : /\ g[0] = "open" /\ (\A i \in 1..body : g[i] = ReadQuoted(g[i - 1], text[i + 1]))
                   /\ IsQuotedValue(text) = (n >= 2 /\ text[n] = "quote" /\ g[body] = "open")
        <2>1. Len(text) - 2 \in Nat
            BY <1>1
        <2> QED  BY <2>1, QuotedCharsReadSteps
    <1>4. g[body] = "open"
        BY <1>3
    <1> HIDE DEF n
    <1>5. body \in Nat /\ body + 1 \in 1..n /\ n = body + 2 /\ n - 1 = body + 1 /\ n \in 1..n
        BY <1>1
    <1> HIDE DEF body
    (* The reader of the value is never bad, since it ends open. *)
    <1>6. \A i \in 0..body : g[i] # "bad"
        <2> DEFINE Bad == {i \in 0..body : g[body - i] # "bad"}
        <2>1. 0 \in Bad
            BY <1>4, <1>5
        <2>2. \A i \in 1..body : i - 1 \in Bad => i \in Bad
            <3> TAKE i \in 1..body
            <3> HAVE i - 1 \in Bad
            <3> DEFINE j == body - (i - 1)
            <3>1. j \in 1..body /\ j - 1 = body - i /\ i \in 0..body /\ g[j] # "bad"
                BY <1>5
            <3> HIDE DEF j
            <3>2. g[j] = ReadQuoted(g[j - 1], text[j + 1])
                BY <1>3, <3>1
            <3>3. g[j - 1] # "bad"
                BY <3>1, <3>2 DEF ReadQuoted
            <3> QED  BY <3>1, <3>3
        <2> HIDE DEF Bad
        <2>3. 0..body \subseteq Bad
            BY <1>5, <2>1, <2>2, BoundedInduction
        <2> TAKE i \in 0..body
        <2>4. body - i \in 0..body /\ body - (body - i) = i
            BY <1>5
        <2>5. body - i \in Bad
            BY <2>3, <2>4
        <2> QED  BY <2>4, <2>5 DEF Bad
    <1>7. \A i \in 1..body : ReadQuoted(g[i - 1], text[i + 1]) # "bad"
        BY <1>3, <1>5, <1>6
    <1> DEFINE Inside(i) == \E longer : /\ GrownBy(longer, current, text, i + 1)
                                        /\ \/ g[i] = "open" /\ f[i + 1] = Quoting(done, longer)
                                           \/ g[i] = "escaped" /\ f[i + 1] = Escaping(done, longer)
               Good == {i \in 0..body : Inside(i)}
    <1>8. 0 \in Good
        <2> DEFINE c == text[1]
                   more == Append(current, c)
        <2>1. c = "quote" /\ 1 \in 1..n /\ 1 \in 1..Len(text)
            BY <1>1, <1>5 DEF n
        <2>2. f[1] = TakeChar(s, c)
            <3>1. f[1] = TakeChar(f[1 - 1], text[1])
                BY <1>2, <2>1
            <3> QED  BY <1>2, <3>1
        <2> HIDE DEF c
        <2>3. c = "quote" => TakeChar(Unquoting(done, current), c) = Quoting(done, Append(current, c))
            BY ONLY PlainCharCases
        <2>4. f[1] = Quoting(done, more)
            BY <2>1, <2>2, <2>3 DEF s
        <2>5. GrownBy(more, current, text, 1)
            <3>1. GrownBy(current, current, text, 1 - 1)
                BY ExtendsNone
            <3>2. GrownBy(Append(current, text[1]), current, text, 1)
                BY <2>1, <3>1, ExtendsOne
            <3> QED  BY <3>2 DEF c
        <2> HIDE DEF more
        <2>6. Inside(0)
            BY <1>3, <2>4, <2>5
        <2> HIDE DEF Inside
        <2> QED  BY <1>5, <2>6
    <1>9. \A i \in 1..body : i - 1 \in Good => i \in Good
        <2> TAKE i \in 1..body
        <2> HAVE i - 1 \in Good
        <2>1. Inside(i - 1)
            <3> HIDE DEF Inside
            <3> QED  OBVIOUS
        <2> DEFINE c == text[i + 1]
        <2>2. i + 1 \in 1..n /\ i + 1 \in 1..Len(text) /\ (i - 1) + 1 = i /\ (i + 1) - 1 = i /\ i \in 0..body
            BY <1>5 DEF n
        <2>3. PICK longer : /\ GrownBy(longer, current, text, i)
                            /\ \/ g[i - 1] = "open" /\ f[i] = Quoting(done, longer)
                               \/ g[i - 1] = "escaped" /\ f[i] = Escaping(done, longer)
            BY <2>1, <2>2
        <2> DEFINE more == Append(longer, c)
        <2>4. GrownBy(more, current, text, i + 1)
            <3>1. GrownBy(longer, current, text, (i + 1) - 1)
                BY <2>2, <2>3
            <3> QED  BY <2>2, <3>1, ExtendsOne
        <2>5. f[i + 1] = TakeChar(f[i], c)
            <3>1. f[i + 1] = TakeChar(f[(i + 1) - 1], text[i + 1])
                BY <1>2, <2>2
            <3> QED  BY <2>2, <3>1
        <2>6. g[i] = ReadQuoted(g[i - 1], c) /\ ReadQuoted(g[i - 1], c) # "bad"
            BY <1>3, <1>7
        <2> HIDE DEF c, more
        <2>7. CASE g[i - 1] = "open" /\ f[i] = Quoting(done, longer)
            <3>1. c # "quote"
                BY <2>6, <2>7 DEF ReadQuoted
            <3>2. CASE c = "backslash"
                <4>1. g[i] = "escaped"
                    BY <2>6, <2>7, <3>2 DEF ReadQuoted, Controls
                <4>2. c = "backslash" => TakeChar(Quoting(done, longer), c) = Escaping(done, Append(longer, c))
                    BY ONLY QuotingCharCases
                <4>3. f[i + 1] = Escaping(done, more)
                    BY <2>5, <2>7, <3>1, <3>2, <4>2 DEF more
                <4>4. Inside(i)
                    BY <2>4, <4>1, <4>3
                <4> HIDE DEF Inside
                <4> QED  BY <2>2, <4>4
            <3>3. CASE c # "backslash"
                <4>1. g[i] = "open"
                    BY <2>6, <2>7, <3>1, <3>3 DEF ReadQuoted
                <4>2. c \notin {"quote", "backslash"} => TakeChar(Quoting(done, longer), c) = Quoting(done, Append(longer, c))
                    BY ONLY QuotingCharCases
                <4>3. f[i + 1] = Quoting(done, more)
                    BY <2>5, <2>7, <3>1, <3>3, <4>2 DEF more
                <4>4. Inside(i)
                    BY <2>4, <4>1, <4>3
                <4> HIDE DEF Inside
                <4> QED  BY <2>2, <4>4
            <3> QED  BY <3>2, <3>3
        <2>8. CASE g[i - 1] = "escaped" /\ f[i] = Escaping(done, longer)
            <3>1. g[i] = "open"
                BY <2>6, <2>8 DEF ReadQuoted
            <3>2. TakeChar(Escaping(done, longer), c) = Quoting(done, Append(longer, c))
                BY QuotingCharCases
            <3>3. f[i + 1] = Quoting(done, more)
                BY <2>5, <2>8, <3>2 DEF more
            <3>4. Inside(i)
                BY <2>4, <3>1, <3>3
            <3> HIDE DEF Inside
            <3> QED  BY <2>2, <3>4
        <2> QED  BY <2>3, <2>7, <2>8
    <1>10. body \in Good
        <2> HIDE DEF Good
        <2> QED  BY <1>5, <1>8, <1>9, BoundedInduction
    <1>11. Inside(body)
        <2> HIDE DEF Inside
        <2> QED  BY <1>10
    <1>12. PICK longer : GrownBy(longer, current, text, body + 1) /\ f[body + 1] = Quoting(done, longer)
        BY <1>4, <1>11
    <1> DEFINE c == text[n]
               more == Append(longer, c)
    <1>13. GrownBy(more, current, text, n)
        <2>1. GrownBy(longer, current, text, n - 1) /\ n \in 1..Len(text)
            BY <1>5, <1>12 DEF n
        <2> QED  BY <2>1, ExtendsOne
    <1>14. f[n] = TakeChar(f[body + 1], c)
        BY <1>2, <1>5
    <1>15. c = "quote"
        BY <1>1
    <1> HIDE DEF c
    <1>16. c = "quote" => TakeChar(Quoting(done, longer), c) = Unquoting(done, Append(longer, c))
        BY ONLY QuotingCharCases
    <1>17. f[n] = Unquoting(done, more)
        BY <1>12, <1>14, <1>15, <1>16
    <1> HIDE DEF more
    <1>18. more = current \o text
        BY <1>13, ExtendsWhole DEF n
    <1>19. Scanned(s, text) = Unquoting(done, current \o text)
        BY <1>2, <1>17, <1>18
    <1> QED  BY <1>19 DEF s


-------------------------------------------------------------------------------
(* What split_once takes apart is the text; lower case goes part by part. *)
LEMMA SplitWhole ==
    ASSUME NEW text, IsSeq(text), NEW c, SplitOnce(text, c) # <<>>
    PROVE  /\ IsSeq(SplitOnce(text, c)[1].before) /\ IsSeq(SplitOnce(text, c)[1].after)
           /\ text = SplitOnce(text, c)[1].before \o <<c>> \o SplitOnce(text, c)[1].after
           /\ \A i \in 1..Len(SplitOnce(text, c)[1].before) : SplitOnce(text, c)[1].before[i] # c
    <1> DEFINE before == SplitOnce(text, c)[1].before
               after == SplitOnce(text, c)[1].after
               one == <<c>>
               left == before \o one
               all == left \o after
               n == Len(text)
    <1>1. IsSeq(before) /\ IsSeq(after)
        BY SplitParts
    <1>2. PICK m \in 1..n : before = SubSeq(text, 1, m - 1) /\ after = SubSeq(text, m + 1, n) /\ text[m] = c /\ \A i \in 1..(m - 1) : text[i] # c
        BY SplitParts
    <1>3. IsSeq(one) /\ Len(one) = 1 /\ one[1] = c
        BY OneIsSeq
    <1>4. n \in Nat
        BY SeqFacts
    <1> HIDE DEF before, after, one
    <1>5. Len(before) = m - 1 /\ \A i \in 1..(m - 1) : before[i] = text[i]
        <2>1. Len(before) = (IF 1 <= m - 1 THEN m - 1 - 1 + 1 ELSE 0) /\ \A i \in 1..Len(before) : before[i] = text[1 + i - 1]
            BY <1>2, <1>4, PartOfSeq
        <2>2. Len(before) = m - 1
            BY <1>4, <2>1
        <2> QED  BY <1>4, <2>1, <2>2
    <1>6. Len(after) = n - m /\ \A i \in 1..(n - m) : after[i] = text[m + i]
        <2>1. Len(after) = (IF m + 1 <= n THEN n - (m + 1) + 1 ELSE 0) /\ \A i \in 1..Len(after) : after[i] = text[m + 1 + i - 1]
            BY <1>2, <1>4, PartOfSeq
        <2>2. Len(after) = n - m
            BY <1>4, <2>1
        <2>3. \A i \in 1..(n - m) : m + 1 + i - 1 = m + i
            BY <1>4
        <2> QED  BY <2>1, <2>2, <2>3
    <1>7. IsSeq(left) /\ Len(left) = m /\ (\A i \in 1..(m - 1) : left[i] = before[i]) /\ left[m] = c
        <2>1. /\ IsSeq(left) /\ Len(left) = Len(before) + Len(one) /\ (\A i \in 1..Len(before) : left[i] = before[i])
              /\ \A i \in 1..Len(one) : left[Len(before) + i] = one[i]
            <3>1. IsSeq(before) /\ IsSeq(one)
                BY <1>1, <1>3
            <3> QED  BY ONLY <3>1, Concat
        <2> HIDE DEF left
        <2>2. 1 \in 1..Len(one) /\ m - 1 + 1 = m
            BY <1>3
        <2> QED  BY <1>3, <1>5, <2>1, <2>2
    <1> HIDE DEF left
    <1>8. /\ IsSeq(all) /\ Len(all) = m + Len(after) /\ (\A i \in 1..m : all[i] = left[i])
          /\ \A i \in 1..Len(after) : all[m + i] = after[i]
        <2>1. IsSeq(left) /\ IsSeq(after)
            BY <1>1, <1>7
        <2> QED  BY ONLY <1>7, <2>1, Concat
    <1> HIDE DEF all, n
    <1>9. Len(all) = n
        BY <1>4, <1>6, <1>8
    <1>10. \A i \in 1..n : text[i] = all[i]
        <2> TAKE i \in 1..n
        <2>1. CASE i \in 1..(m - 1)
            BY <1>4, <1>5, <1>7, <1>8, <2>1
        <2>2. CASE i = m
            BY <1>2, <1>4, <1>7, <1>8, <2>2
        <2>3. CASE i \in (m + 1)..n
            <3> DEFINE j == i - m
            <3>1. j \in 1..(n - m) /\ m + j = i
                BY <1>4, <2>3
            <3> HIDE DEF j
            <3> QED  BY <1>6, <1>8, <3>1
        <2> QED  BY <1>4, <2>1, <2>2, <2>3
    <1>11. text = all
        BY <1>8, <1>9, <1>10, SameSeq DEF n
    <1>12. \A i \in 1..Len(before) : before[i] # c
        BY <1>2, <1>5
    <1> QED  BY <1>1, <1>11, <1>12 DEF before, after, all, left, one

(* Lower case goes part by part. *)
LEMMA LowerConcat ==
    ASSUME NEW a, NEW b, IsSeq(a), IsSeq(b)
    PROVE  Lower(a \o b) = Lower(a) \o Lower(b)
    <1> DEFINE all == a \o b
               la == Lower(a)
               lb == Lower(b)
               low == Lower(all)
               lab == la \o lb
               m == Len(a)
               n == Len(b)
    <1>1. m \in Nat /\ n \in Nat
        BY SeqFacts
    <1>2. IsSeq(all) /\ Len(all) = m + n /\ (\A i \in 1..m : all[i] = a[i]) /\ \A i \in 1..n : all[m + i] = b[i]
        <2>1. IsSeq(a) /\ IsSeq(b)
            OBVIOUS
        <2> QED  BY ONLY <2>1, Concat
    <1>3. /\ IsSeq(la) /\ Len(la) = m /\ (\A i \in 1..m : la[i] = LowerChar(a[i]))
          /\ IsSeq(lb) /\ Len(lb) = n /\ (\A i \in 1..n : lb[i] = LowerChar(b[i]))
        BY LowerIs
    <1> HIDE DEF all
    <1>4. IsSeq(low) /\ Len(low) = Len(all) /\ \A i \in 1..Len(all) : low[i] = LowerChar(all[i])
        BY <1>2, LowerIs
    <1> HIDE DEF la, lb, low
    <1>5. IsSeq(lab) /\ Len(lab) = m + n /\ (\A i \in 1..m : lab[i] = la[i]) /\ \A i \in 1..n : lab[m + i] = lb[i]
        <2>1. IsSeq(la) /\ IsSeq(lb)
            BY <1>3
        <2> QED  BY ONLY <1>3, <2>1, Concat
    <1> HIDE DEF lab, m, n
    <1>6. \A i \in 1..(m + n) : low[i] = lab[i]
        <2> TAKE i \in 1..(m + n)
        <2>1. CASE i \in 1..m
            <3>1. low[i] = LowerChar(all[i]) /\ all[i] = a[i] /\ lab[i] = la[i] /\ la[i] = LowerChar(a[i])
                BY <1>2, <1>3, <1>4, <1>5, <2>1
            <3> QED  BY <3>1
        <2>2. CASE i \notin 1..m
            <3> DEFINE j == i - m
            <3>1. j \in 1..n /\ m + j = i
                BY <1>1, <2>2
            <3> HIDE DEF j
            <3>2. low[i] = LowerChar(all[i]) /\ all[m + j] = b[j] /\ lab[m + j] = lb[j] /\ lb[j] = LowerChar(b[j])
                BY <1>2, <1>3, <1>4, <1>5, <3>1
            <3> QED  BY <3>1, <3>2
        <2> QED  BY <2>1, <2>2
    <1>7. low = lab
        BY <1>2, <1>4, <1>5, <1>6, SameSeq
    <1> QED  BY <1>7 DEF low, lab, la, lb, all

(* A mark has no case. *)
LEMMA LowerMark ==
    ASSUME NEW c, c \in NoTokenChars
    PROVE  Lower(<<c>>) = <<c>>
    <1> DEFINE one == <<c>>
               low == Lower(one)
    <1>1. IsSeq(one) /\ Len(one) = 1 /\ one[1] = c
        BY OneIsSeq
    <1> HIDE DEF one
    <1>2. IsSeq(low) /\ Len(low) = 1 /\ low[1] = LowerChar(one[1])
        BY <1>1, LowerIs
    <1>3. low[1] = one[1]
        BY <1>1, <1>2, LowerKeeps
    <1> HIDE DEF low
    <1>4. low = one
        BY <1>1, <1>2, <1>3, SameSeq
    <1> QED  BY <1>4 DEF low, one

(* A text that begins and ends with something solid. *)
LEMMA SolidEnds ==
    ASSUME NEW a, NEW b, IsSeq(a), IsSeq(b), Len(a) >= 1, Len(b) >= 1, a[1] \notin White, b[Len(b)] \notin White
    PROVE  IsSolid(a \o b)
    <1> DEFINE all == a \o b
               m == Len(a)
               n == Len(b)
    <1>1. m \in Nat /\ n \in Nat /\ m >= 1 /\ n >= 1
        BY SeqFacts
    <1>2. IsSeq(all) /\ Len(all) = m + n /\ (\A i \in 1..m : all[i] = a[i]) /\ \A i \in 1..n : all[m + i] = b[i]
        <2>1. IsSeq(a) /\ IsSeq(b)
            OBVIOUS
        <2> QED  BY ONLY <2>1, Concat
    <1>3. a[1] \notin White /\ b[n] \notin White
        OBVIOUS
    <1> HIDE DEF all, m, n
    <1>4. 1 \in 1..m /\ n \in 1..n /\ m + n >= 1
        BY <1>1
    <1>5. all[1] = a[1] /\ all[m + n] = b[n]
        BY <1>2, <1>4
    <1>6. IsSolid(all)
        BY <1>2, <1>3, <1>4, <1>5 DEF IsSolid
    <1> QED  BY <1>6 DEF all

(* No character of a token ends it. *)
LEMMA TokenChars ==
    ASSUME NEW text, IsToken(text)
    PROVE  IsSeq(text) /\ Len(text) \in Nat /\ Len(text) >= 1 /\ \A i \in 1..Len(text) : text[i] \notin NoTokenChars
    <1>1. IsSeq(text) /\ Len(text) \in Nat /\ DOMAIN text = 1..Len(text) /\ Len(text) # 0
        BY SeqFacts, EmptyIsSeq DEF IsToken
    <1> QED  BY <1>1 DEF IsToken, IsMimeToken, In


-------------------------------------------------------------------------------
(* The first part of a media type, read again from its canonical spelling. *)
IsHead(text) == IsSolid(text) /\ \A i \in 1..Len(text) : text[i] \notin {"quote", "semicolon"}

(* A first part that is a token is spelled in lower case, and again the *)
(* same.                                                                *)
LEMMA NamedHead ==
    ASSUME NEW text, IsToken(text)
    PROVE  /\ CanonicalHead(text, FALSE) = <<Lower(text)>> /\ CanonicalHead(Lower(text), FALSE) = <<Lower(text)>>
           /\ IsHead(Lower(text))
    <1>1. IsToken(Lower(text)) /\ Lower(Lower(text)) = Lower(text)
        BY LowerToken
    <1>2. \A x : IsToken(x) => CanonicalHead(x, FALSE) = <<Lower(x)>>
        BY DEF CanonicalHead, IsToken
    <1>3. IsSolid(Lower(text))
        BY <1>1, TokenSolid
    <1>4. \A i \in 1..Len(Lower(text)) : Lower(text)[i] \notin {"quote", "semicolon"}
        BY <1>1, TokenChars DEF NoTokenChars
    <1> QED  BY <1>1, <1>2, <1>3, <1>4 DEF IsHead

(* So is one of a type and a subtype. *)
LEMMA TypedHead ==
    ASSUME NEW before, NEW after, IsToken(before), IsToken(after)
    PROVE  LET text == before \o <<"/">> \o after
               low == Lower(before) \o <<"/">> \o Lower(after) IN
           /\ CanonicalHead(text, TRUE) = <<low>> /\ CanonicalHead(low, TRUE) = <<low>> /\ IsHead(low)
    <1> DEFINE mark == "/"
               one == <<mark>>
               lb == Lower(before)
               la == Lower(after)
               left == before \o one
               text == left \o after
               lowleft == lb \o one
               low == lowleft \o la
    <1>1. /\ IsSeq(before) /\ Len(before) >= 1 /\ (\A i \in 1..Len(before) : before[i] \notin NoTokenChars)
          /\ IsSeq(after) /\ Len(after) >= 1 /\ \A i \in 1..Len(after) : after[i] \notin NoTokenChars
        BY TokenChars
    <1>2. IsToken(lb) /\ Lower(lb) = lb /\ IsToken(la) /\ Lower(la) = la
        BY LowerToken
    <1> HIDE DEF la, lb
    <1>3. /\ IsSeq(lb) /\ Len(lb) \in Nat /\ Len(lb) >= 1 /\ (\A i \in 1..Len(lb) : lb[i] \notin NoTokenChars)
          /\ IsSeq(la) /\ Len(la) \in Nat /\ Len(la) >= 1 /\ \A i \in 1..Len(la) : la[i] \notin NoTokenChars
        BY <1>2, TokenChars
    <1>4. mark \in NoTokenChars /\ mark \notin {"quote", "semicolon"}
        BY DEF NoTokenChars
    <1>5. IsSeq(one) /\ Len(one) = 1 /\ one[1] = mark /\ Lower(one) = one
        BY <1>4, OneIsSeq, LowerMark
    <1> HIDE DEF one
    <1>6. IsSeq(left) /\ Lower(left) = lowleft
        BY <1>1, <1>5, Concat, LowerConcat DEF lb
    <1>7. Lower(text) = low
        <2> HIDE DEF left, lowleft
        <2> QED  BY <1>1, <1>6, LowerConcat DEF la
    <1>8. IsSeq(lowleft) /\ Lower(lowleft) = lowleft
        <2>1. IsSeq(lb) /\ IsSeq(one)
            BY <1>3, <1>5
        <2>2. Lower(lowleft) = Lower(lb) \o Lower(one)
            BY ONLY <2>1, LowerConcat
        <2>3. IsSeq(lowleft)
            BY ONLY <2>1, Concat
        <2> QED  BY ONLY <1>2, <1>5, <2>2, <2>3
    <1>9. Lower(low) = low
        <2> HIDE DEF lowleft
        <2>1. IsSeq(lowleft) /\ IsSeq(la)
            BY <1>3, <1>8
        <2>2. Lower(low) = Lower(lowleft) \o Lower(la)
            BY ONLY <2>1, LowerConcat
        <2> QED  BY ONLY <1>2, <1>8, <2>2
    <1>10. \A x, y : IsToken(x) /\ IsToken(y) => CanonicalHead(x \o one \o y, TRUE) = <<Lower(x \o one \o y)>>
        <2> TAKE x, y
        <2> HAVE IsToken(x) /\ IsToken(y)
        <2> DEFINE t == x \o one \o y
        <2>1. \A i \in 1..Len(x) : x[i] # mark
            BY <1>4, TokenChars
        <2>2. SplitOnce(t, mark) = <<[before |-> x, after |-> y]>>
            BY <2>1, SplitOnceAt, TokenChars DEF one
        <2> HIDE DEF t
        <2>3. CanonicalHead(t, TRUE) = <<Lower(t)>>
            BY <2>2 DEF CanonicalHead, IsToken, mark
        <2> QED  BY <2>3 DEF t
    <1>11. CanonicalHead(text, TRUE) = <<low>> /\ CanonicalHead(low, TRUE) = <<low>>
        BY <1>2, <1>7, <1>9, <1>10
    <1>12. \A i \in 1..Len(low) : low[i] \notin {"quote", "semicolon"}
        <2>1. \A i \in DOMAIN lowleft : lowleft[i] \notin {"quote", "semicolon"}
            <3>1. \A k \in DOMAIN lowleft : (\E i \in DOMAIN lb : lowleft[k] = lb[i]) \/ \E i \in DOMAIN one : lowleft[k] = one[i]
                BY <1>3, <1>5, ConcatFrom
            <3>2. DOMAIN lb = 1..Len(lb) /\ DOMAIN one = 1..1
                BY <1>3, <1>5, SeqFacts
            <3> HIDE DEF lowleft
            <3> QED  BY <1>3, <1>4, <1>5, <3>1, <3>2 DEF NoTokenChars
        <2> HIDE DEF lowleft
        <2>2. \A k \in DOMAIN low : (\E i \in DOMAIN lowleft : low[k] = lowleft[i]) \/ \E i \in DOMAIN la : low[k] = la[i]
            BY <1>3, <1>8, ConcatFrom
        <2>3. DOMAIN la = 1..Len(la) /\ DOMAIN low = 1..Len(low)
            <3>1. IsSeq(low)
                BY <1>3, <1>8, Concat
            <3> QED  BY <1>3, <3>1, SeqFacts
        <2> HIDE DEF low
        <2> QED  BY <1>3, <2>1, <2>2, <2>3 DEF NoTokenChars
    <1>13. IsSolid(low)
        <2>1. Len(lowleft) >= 1 /\ lowleft[1] = lb[1]
            <3>1. /\ IsSeq(lowleft) /\ Len(lowleft) = Len(lb) + Len(one) /\ (\A i \in 1..Len(lb) : lowleft[i] = lb[i])
                <4>1. IsSeq(lb) /\ IsSeq(one)
                    BY <1>3, <1>5
                <4> QED  BY ONLY <4>1, Concat
            <3> HIDE DEF lowleft
            <3>2. 1 \in 1..Len(lb)
                BY <1>3
            <3> QED  BY <1>3, <1>5, <3>1, <3>2
        <2>2. lb[1] \notin White /\ la[Len(la)] \notin White
            <3>1. 1 \in 1..Len(lb) /\ Len(la) \in 1..Len(la)
                BY <1>3
            <3> QED  BY <1>3, <3>1 DEF NoTokenChars
        <2> HIDE DEF lowleft
        <2> QED  BY <1>3, <1>8, <2>1, <2>2, SolidEnds
    <1>14. IsHead(low)
        BY <1>12, <1>13 DEF IsHead
    <1> HIDE DEF text, low
    <1> QED  BY <1>11, <1>14 DEF text, low, left, lowleft, one, lb, la, mark

(* The canonical first part, read again, is the same. *)
LEMMA HeadBack ==
    ASSUME NEW text, IsSeq(text), NEW withSubtype \in BOOLEAN, CanonicalHead(text, withSubtype) # <<>>
    PROVE  \E head : /\ CanonicalHead(text, withSubtype) = <<head>> /\ CanonicalHead(head, withSubtype) = <<head>>
                     /\ IsHead(head)
    <1>1. CASE withSubtype
        <2> DEFINE split == SplitOnce(text, "/")
        <2>1. split # <<>> /\ split[1].before # <<>> /\ IsMimeToken(split[1].before) /\ split[1].after # <<>> /\ IsMimeToken(split[1].after)
            BY <1>1 DEF CanonicalHead
        <2>2. IsSeq(split[1].before) /\ IsSeq(split[1].after) /\ text = split[1].before \o <<"/">> \o split[1].after
            BY <2>1, SplitWhole
        <2> DEFINE before == split[1].before
                   after == split[1].after
        <2>3. IsToken(before) /\ IsToken(after)
            BY <2>1, <2>2 DEF IsToken
        <2> HIDE DEF before, after
        <2> DEFINE low == Lower(before) \o <<"/">> \o Lower(after)
        <2>4. CanonicalHead(text, TRUE) = <<low>> /\ CanonicalHead(low, TRUE) = <<low>> /\ IsHead(low)
            BY <2>2, <2>3, TypedHead DEF before, after
        <2>5. withSubtype = TRUE
            BY <1>1
        <2> HIDE DEF low
        <2> QED  BY <2>4, <2>5, Zenon
    <1>2. CASE ~withSubtype
        <2>1. IsToken(text)
            BY <1>2 DEF CanonicalHead, IsToken
        <2> DEFINE low == Lower(text)
        <2>2. CanonicalHead(text, FALSE) = <<low>> /\ CanonicalHead(low, FALSE) = <<low>> /\ IsHead(low)
            BY <2>1, NamedHead
        <2>3. withSubtype = FALSE
            BY <1>2
        <2> HIDE DEF low
        <2> QED  BY <2>2, <2>3, Zenon
    <1> QED  BY <1>1, <1>2


-------------------------------------------------------------------------------
(* A parameter of a media type, read again from its canonical spelling. *)
LEMMA ValueScanned ==
    ASSUME NEW value, IsSeq(value), IsParameterValue(value), NEW done, NEW current, IsSeq(current)
    PROVE  Scanned(Unquoting(done, current), value) = Unquoting(done, current \o value)
    <1>1. CASE value[1] = "quote"
        BY <1>1, QuotedScanned DEF IsParameterValue
    <1>2. CASE value[1] # "quote"
        <2>1. \A i \in 1..Len(value) : value[i] \notin {"semicolon", "quote"}
            BY <1>2, SeqFacts DEF IsParameterValue, IsMimeToken, In, NoTokenChars
        <2> QED  BY <2>1, PlainScanned
    <1> QED  BY <1>1, <1>2

Blank == " "
Semicolon == "semicolon"
Equals == "="
(* What is after the ";" of a canonical parameter, blank and all. *)
ParameterText(name, value) == (Lower(name) \o <<Equals>>) \o value
BlankBefore(body) == <<Blank>> \o body

(* What a parameter consists of, if it is one ... *)
LEMMA ParameterIs ==
    ASSUME NEW text, CanonicalParameter(text) # <<>>
    PROVE  /\ SplitOnce(text, Equals) # <<>>
           /\ LET name == Trimmed(SplitOnce(text, Equals)[1].before)
                  value == Trimmed(SplitOnce(text, Equals)[1].after) IN
              /\ name # <<>> /\ value # <<>> /\ IsMimeToken(name) /\ IsParameterValue(value)
              /\ CanonicalParameter(text) = <<(<<Semicolon, Blank>> \o Lower(name) \o <<Equals>> \o value)>>
    BY Zenon DEF CanonicalParameter, Semicolon, Blank, Equals

(* ... and what makes it one. *)
LEMMA ParameterGives ==
    ASSUME NEW text, NEW name, NEW value, SplitOnce(text, Equals) = <<[before |-> name, after |-> value]>>,
           Trimmed(name) = name, Trimmed(value) = value,
           name # <<>>, value # <<>>, IsMimeToken(name), IsParameterValue(value)
    PROVE  CanonicalParameter(text) = <<(<<Semicolon, Blank>> \o Lower(name) \o <<Equals>> \o value)>>
    <1> DEFINE split == SplitOnce(text, Equals)
    <1>1. split # <<>> /\ split[1].before = name /\ split[1].after = value
        OBVIOUS
    <1> HIDE DEF split
    <1>2. CanonicalParameter(text) =
            IF split = <<>> THEN <<>>
            ELSE LET n == Trimmed(split[1].before)
                     v == Trimmed(split[1].after) IN
                 IF n # <<>> /\ v # <<>> /\ IsMimeToken(n) /\ IsParameterValue(v)
                 THEN <<(<<Semicolon, Blank>> \o Lower(n) \o <<Equals>> \o v)>> ELSE <<>>
        BY Zenon DEF CanonicalParameter, Semicolon, Blank, Equals, split
    <1> QED  BY <1>1, <1>2, Zenon

(* A parameter as it is written: its text after a semicolon and a blank. *)
LEMMA BodySpelled ==
    ASSUME NEW name, NEW value, IsToken(name), IsSeq(value)
    PROVE  <<Semicolon, Blank>> \o Lower(name) \o <<Equals>> \o value = <<Semicolon>> \o BlankBefore(ParameterText(name, value))
    <1> DEFINE low == Lower(name)
               eq == <<Equals>>
               sc == <<Semicolon>>
               bl == <<Blank>>
               two == <<Semicolon, Blank>>
    <1>1. IsSeq(low) /\ IsSeq(eq) /\ IsSeq(sc) /\ IsSeq(bl)
        BY OneIsSeq, LowerToken DEF IsToken
    <1>2. two = sc \o bl
        OBVIOUS
    <1> HIDE DEF low, eq, sc, bl, two
    <1> DEFINE le == low \o eq
               lev == le \o value
               blev == bl \o lev
               sb == sc \o bl
    <1>3. IsSeq(sb) /\ IsSeq(le)
        BY <1>1, Concat
    <1>4. (sb \o low) \o eq = sb \o le
        <2> HIDE DEF sb
        <2>1. IsSeq(sb) /\ IsSeq(low) /\ IsSeq(eq)
            BY <1>1, <1>3
        <2> QED  BY ONLY <2>1, ConcatAssoc
    <1> HIDE DEF le
    <1>5. (sb \o le) \o value = sb \o lev /\ IsSeq(lev)
        <2> HIDE DEF sb
        <2> QED  BY <1>3, Concat, ConcatAssoc
    <1> HIDE DEF lev
    <1>6. sb \o lev = sc \o blev
        <2>1. IsSeq(sc) /\ IsSeq(bl) /\ IsSeq(lev)
            BY <1>1, <1>5
        <2> QED  BY ONLY <2>1, ConcatAssoc
    <1>7. two \o low \o eq \o value = sc \o blev
        <2>1. two = sb
            BY <1>2
        <2> HIDE DEF sb, blev
        <2> QED  BY <1>4, <1>5, <1>6, <2>1
    <1> QED  BY <1>7 DEF BlankBefore, ParameterText, low, eq, sc, bl, two, blev, lev, le

(* A parameter that is written is one segment of what is scanned. *)
LEMMA PartScanned ==
    ASSUME NEW name, NEW value, IsToken(name), IsSeq(value), IsParameterValue(value), NEW done, NEW current, IsSeq(current)
    PROVE  /\ IsSeq(BlankBefore(ParameterText(name, value)))
           /\ Scanned(Unquoting(done, current), <<Semicolon>> \o BlankBefore(ParameterText(name, value))) = Unquoting(Append(done, current), BlankBefore(ParameterText(name, value)))
    <1> DEFINE low == Lower(name)
               eq == <<Equals>>
               sc == <<Semicolon>>
               bl == <<Blank>>
               left == low \o eq
               body == left \o value
               part == bl \o body
               whole == sc \o part
               start == Unquoting(done, current)
               longer == Append(done, current)
               none == <<>>
               fresh == Unquoting(longer, none)
    <1>1. IsToken(low) /\ IsSeq(low) /\ IsSeq(eq) /\ IsSeq(sc) /\ IsSeq(bl) /\ eq[1] = Equals /\ Len(eq) = 1 /\ bl[1] = Blank /\ Len(bl) = 1
        BY OneIsSeq, LowerToken DEF IsToken
    <1>2. Scanned(start, sc) = fresh
        <2>1. Semicolon = "semicolon"
            BY DEF Semicolon
        <2> HIDE DEF start
        <2>2. Scanned(start, sc) = TakeChar(start, Semicolon)
            BY ScanOne DEF sc
        <2> QED  BY <2>1, <2>2, PlainCharCases DEF start
    <1> HIDE DEF low, eq, sc, bl
    <1>3. IsSeq(left)
        BY <1>1, Concat
    <1>4. \A i \in 1..Len(left) : left[i] \notin {"semicolon", "quote"}
        <2>1. \A k \in DOMAIN left : (\E i \in DOMAIN low : left[k] = low[i]) \/ \E i \in DOMAIN eq : left[k] = eq[i]
            BY <1>1, ConcatFrom
        <2>2. DOMAIN low = 1..Len(low) /\ DOMAIN eq = 1..1 /\ DOMAIN left = 1..Len(left)
            BY <1>1, <1>3, SeqFacts
        <2> HIDE DEF left
        <2>3. \A i \in 1..Len(low) : low[i] \notin {"semicolon", "quote"}
            BY <1>1, TokenChars DEF NoTokenChars
        <2> QED  BY <1>1, <2>1, <2>2, <2>3 DEF Equals
    <1> HIDE DEF left
    <1>5. IsSeq(body)
        BY <1>3, Concat
    <1>6. IsSeq(part)
        <2> HIDE DEF body
        <2> QED  BY <1>1, <1>5, Concat
    <1>7. Scanned(start, whole) = Scanned(fresh, part)
        <2> HIDE DEF part, start, fresh
        <2> QED  BY <1>1, <1>2, <1>6, ScanConcat
    <1>8. IsSeq(none) /\ none \o bl = bl
        BY <1>1, EmptyIsSeq, ConcatEmpty
    <1> HIDE DEF none, longer
    <1>9. Scanned(fresh, bl) = Unquoting(longer, bl)
        <2>1. \A i \in 1..Len(bl) : bl[i] \notin {"semicolon", "quote"}
            <3>1. Blank \notin {"semicolon", "quote"}
                BY DEF Blank
            <3> QED  BY <1>1, <3>1
        <2>2. Scanned(fresh, bl) = Unquoting(longer, none \o bl)
            BY <1>1, <1>8, <2>1, PlainScanned
        <2> QED  BY <1>8, <2>2
    <1>10. Scanned(Unquoting(longer, bl), left) = Unquoting(longer, bl \o left)
        BY <1>1, <1>3, <1>4, PlainScanned
    <1>11. Scanned(Unquoting(longer, bl \o left), value) = Unquoting(longer, (bl \o left) \o value)
        BY <1>1, <1>3, Concat, ValueScanned
    <1>12. Scanned(fresh, part) = Scanned(Unquoting(longer, bl), body)
        <2> HIDE DEF body, fresh
        <2>1. Scanned(fresh, part) = Scanned(Scanned(fresh, bl), body)
            BY <1>1, <1>5, ScanConcat
        <2> QED  BY <1>9, <2>1
    <1>13. Scanned(Unquoting(longer, bl), body) = Scanned(Unquoting(longer, bl \o left), value)
        <2>1. Scanned(Unquoting(longer, bl), body) = Scanned(Scanned(Unquoting(longer, bl), left), value)
            BY <1>1, <1>3, ScanConcat
        <2> QED  BY <1>10, <2>1
    <1>14. (bl \o left) \o value = part
        <2>1. IsSeq(bl) /\ IsSeq(left) /\ IsSeq(value)
            BY <1>1, <1>3
        <2> QED  BY ONLY <2>1, ConcatAssoc
    <1>15. Scanned(start, whole) = Unquoting(longer, part)
        BY <1>7, <1>11, <1>12, <1>13, <1>14
    <1> HIDE DEF whole, part
    <1> QED  BY <1>6, <1>15 DEF whole, part, body, left, low, eq, sc, bl, start, longer, BlankBefore, ParameterText

(* A canonical parameter, read again, is the same. *)
LEMMA ParameterTextBack ==
    ASSUME NEW name, NEW value, IsToken(name), IsSolid(value), IsParameterValue(value)
    PROVE  /\ IsSolid(ParameterText(name, value)) /\ Trimmed(BlankBefore(ParameterText(name, value))) = ParameterText(name, value)
           /\ CanonicalParameter(ParameterText(name, value)) = <<(<<Semicolon>> \o BlankBefore(ParameterText(name, value)))>>
    <1> DEFINE low == Lower(name)
               eq == <<Equals>>
               left == low \o eq
               body == left \o value
    <1>1. IsToken(low) /\ IsSeq(low) /\ Lower(low) = low /\ low # <<>> /\ IsMimeToken(low)
        BY LowerToken DEF IsToken
    <1>2. IsSeq(eq) /\ Len(eq) = 1
        BY OneIsSeq
    <1>3. IsSeq(value) /\ Len(value) >= 1 /\ value[Len(value)] \notin White /\ value # <<>>
        BY EmptyIsSeq DEF IsSolid
    <1> HIDE DEF low
    <1>4. Len(low) \in Nat /\ Len(low) >= 1 /\ low[1] \notin White /\ \A i \in 1..Len(low) : low[i] # Equals
        <2>1. Len(low) \in Nat /\ Len(low) >= 1 /\ \A i \in 1..Len(low) : low[i] \notin NoTokenChars
            BY <1>1, TokenChars
        <2>2. 1 \in 1..Len(low)
            BY <2>1
        <2> QED  BY <2>1, <2>2 DEF NoTokenChars, Equals
    <1>5. IsSolid(body)
        <2> HIDE DEF eq
        <2>1. IsSeq(left) /\ Len(left) = Len(low) + 1 /\ \A i \in 1..Len(low) : left[i] = low[i]
            <3>1. IsSeq(low) /\ IsSeq(eq)
                BY <1>1, <1>2
            <3>2. IsSeq(left) /\ Len(left) = Len(low) + Len(eq) /\ \A i \in 1..Len(low) : left[i] = low[i]
                BY ONLY <3>1, Concat
            <3> HIDE DEF left
            <3> QED  BY <1>2, <3>2
        <2>2. 1 \in 1..Len(low)
            BY <1>4
        <2> HIDE DEF left
        <2>3. Len(left) >= 1 /\ left[1] = low[1]
            BY <1>4, <2>1, <2>2
        <2> QED  BY <1>3, <1>4, <2>1, <2>3, SolidEnds
    <1>6. SplitOnce(body, Equals) = <<[before |-> low, after |-> value]>>
        BY <1>1, <1>3, <1>4, SplitOnceAt DEF eq, left
    <1>7. Trimmed(low) = low /\ Trimmed(value) = value
        BY <1>1, TokenSolid, SolidTrimmed
    <1> HIDE DEF left, body
    <1>8. CanonicalParameter(body) = <<(<<Semicolon, Blank>> \o Lower(low) \o <<Equals>> \o value)>>
        BY <1>1, <1>3, <1>6, <1>7, ParameterGives
    <1>9. <<Semicolon, Blank>> \o low \o <<Equals>> \o value = <<Semicolon>> \o BlankBefore(body)
        BY <1>3, BodySpelled DEF ParameterText, low, eq, left, body
    <1>10. CanonicalParameter(body) = <<(<<Semicolon>> \o BlankBefore(body))>>
        BY <1>1, <1>8, <1>9
    <1>11. Trimmed(BlankBefore(body)) = body
        <2>1. Blank \in White
            BY DEF Blank, White
        <2> QED  BY <1>5, <2>1, BlankTrimmed DEF BlankBefore
    <1>12. body = ParameterText(name, value)
        BY DEF body, left, low, eq, ParameterText
    <1> QED  BY <1>5, <1>10, <1>11, <1>12

(* Every parameter has a canonical spelling of a name and a value. *)
LEMMA ParameterBack ==
    ASSUME NEW text, IsSeq(text), CanonicalParameter(text) # <<>>
    PROVE  \E name, value : /\ IsToken(name) /\ IsSolid(value) /\ IsParameterValue(value)
                            /\ CanonicalParameter(text) = <<(<<Semicolon>> \o BlankBefore(ParameterText(name, value)))>>
    <1> DEFINE split == SplitOnce(text, Equals)
               name == Trimmed(split[1].before)
               value == Trimmed(split[1].after)
    <1>1. split # <<>> /\ name # <<>> /\ value # <<>> /\ IsMimeToken(name) /\ IsParameterValue(value)
          /\ CanonicalParameter(text) = <<(<<Semicolon, Blank>> \o Lower(name) \o <<Equals>> \o value)>>
        BY ParameterIs
    <1>2. IsSeq(split[1].before) /\ IsSeq(split[1].after)
        BY <1>1, SplitParts
    <1>3. IsSeq(name) /\ IsSolid(value) /\ IsSeq(value)
        BY <1>1, <1>2, TrimmedText
    <1> HIDE DEF name, value
    <1>4. IsToken(name)
        BY <1>1, <1>3 DEF IsToken
    <1>5. <<Semicolon, Blank>> \o Lower(name) \o <<Equals>> \o value = <<Semicolon>> \o BlankBefore(ParameterText(name, value))
        BY <1>3, <1>4, BodySpelled
    <1> QED  BY <1>1, <1>3, <1>4, <1>5


-------------------------------------------------------------------------------
(* Every text splits into segments. *)
IsScan(s) ==
    \E done, current : \E quoted \in {Yes, No}, escaped \in {Yes, No} :
        s = Scan(done, current, quoted, escaped) /\ AllSeqs(done) /\ IsSeq(current)

(* Segments, and one segment more. *)
LEMMA SeqsAppended ==
    ASSUME NEW done, AllSeqs(done), NEW current, IsSeq(current)
    PROVE  AllSeqs(Append(done, current))
    <1> DEFINE more == Append(done, current)
    <1>1. IsSeq(done) /\ Len(done) \in Nat /\ DOMAIN done = 1..Len(done)
        BY SeqFacts DEF AllSeqs
    <1>2. IsSeq(more)
        BY <1>1, Appended
    <1>3. \A k \in DOMAIN more : more[k] = current \/ \E i \in DOMAIN done : more[k] = done[i]
        BY <1>1, AppendedFrom
    <1> HIDE DEF more
    <1>4. \A k \in DOMAIN more : IsSeq(more[k])
        BY <1>3 DEF AllSeqs
    <1> QED  BY <1>2, <1>4 DEF AllSeqs, more

(* Whatever the scanner reads, it has a state. *)
LEMMA StillScan ==
    ASSUME NEW s, IsScan(s), NEW c
    PROVE  IsScan(TakeChar(s, c))
    <1> PICK done, current : \E quoted \in {Yes, No}, escaped \in {Yes, No} :
                               s = Scan(done, current, quoted, escaped) /\ AllSeqs(done) /\ IsSeq(current)
        BY Zenon DEF IsScan
    <1> PICK quoted \in {Yes, No}, escaped \in {Yes, No} :
               s = Scan(done, current, quoted, escaped) /\ AllSeqs(done) /\ IsSeq(current)
        OBVIOUS
    <1> DEFINE more == Append(current, c)
               longer == Append(done, current)
               none == <<>>
    <1>1. IsSeq(more) /\ AllSeqs(longer) /\ IsSeq(none)
        BY Appended, SeqsAppended, EmptyIsSeq
    <1>2. \A q \in {Yes, No}, e \in {Yes, No} : IsScan(Scan(done, more, q, e)) /\ IsScan(Scan(longer, none, q, e))
        <2> HIDE DEF more, longer, none
        <2> QED  BY <1>1, Zenon DEF IsScan
    <1> DEFINE next == TakeChar(s, c)
    <1>3. /\ escaped = No /\ quoted = Yes /\ c = "backslash" => next = Scan(done, more, quoted, Yes)
          /\ escaped = No /\ quoted = No /\ c = "quote" => next = Scan(done, more, Yes, No)
          /\ escaped = No /\ quoted = Yes /\ c = "quote" => next = Scan(done, more, No, No)
          /\ escaped = No /\ quoted = No /\ c = "semicolon" => next = Scan(longer, none, quoted, escaped)
          /\ escaped = Yes => next = Scan(done, more, quoted, No)
          /\ quoted = No /\ c \notin {"quote", "semicolon"} => next = Scan(done, more, quoted, No)
          /\ escaped = No /\ quoted = Yes /\ c \notin {"quote", "backslash"} => next = Scan(done, more, quoted, No)
        BY CharTaken
    <1>4. \E q \in {Yes, No}, e \in {Yes, No} : next = Scan(done, more, q, e) \/ next = Scan(longer, none, q, e)
        <2> HIDE DEF more, longer, none, next
        <2>1. CASE escaped = Yes
            BY <1>3, <2>1
        <2>2. CASE escaped = No /\ quoted = Yes
            <3>1. CASE c = "quote"
                BY <1>3, <2>2, <3>1
            <3>2. CASE c = "backslash"
                BY <1>3, <2>2, <3>2
            <3>3. CASE c \notin {"quote", "backslash"}
                BY <1>3, <2>2, <3>3
            <3> QED  BY <3>1, <3>2, <3>3
        <2>3. CASE escaped = No /\ quoted = No
            <3>1. CASE c = "quote"
                BY <1>3, <2>3, <3>1
            <3>2. CASE c = "semicolon"
                BY <1>3, <2>3, <3>2
            <3>3. CASE c \notin {"quote", "semicolon"}
                BY <1>3, <2>3, <3>3
            <3> QED  BY <3>1, <3>2, <3>3
        <2> QED  BY <2>1, <2>2, <2>3
    <1> HIDE DEF more, longer, none, next
    <1>5. IsScan(next)
        BY <1>2, <1>4
    <1> QED  BY <1>5 DEF next

(* Before it reads anything the scanner is outside of quotes. *)
LEMMA NothingScanned == NoSegments = Unquoting(<<>>, <<>>) /\ IsScan(NoSegments)
    <1>1. NoSegments = Unquoting(<<>>, <<>>)
        BY Zenon DEF NoSegments, Unquoting, Scan, No
    <1> DEFINE none == <<>>
    <1>2. AllSeqs(none) /\ IsSeq(none)
        BY EmptyIsSeq DEF AllSeqs
    <1>3. NoSegments = Scan(none, none, No, No) /\ No \in {Yes, No}
        BY <1>1 DEF Unquoting
    <1> HIDE DEF none
    <1>4. IsScan(NoSegments)
        BY <1>2, <1>3, Zenon DEF IsScan
    <1> QED  BY <1>1, <1>4

(* A text is read through states, from the first to the one its reading ends in. *)
IsRead(s, text) ==
    \E f : /\ f[0] = s
           /\ \A i \in 1..Len(text) : f[i] = TakeChar(f[i - 1], text[i])
           /\ Scanned(s, text) = f[Len(text)]

LEMMA TextIsRead ==
    ASSUME NEW s, NEW text, IsSeq(text)
    PROVE  IsRead(s, text)
    <1>1. Len(text) \in Nat
        BY SeqFacts
    <1>2. \E f : /\ f[0] = s
                 /\ \A i \in 1..Len(text) : f[i] = TakeChar(f[i - 1], text[i])
                 /\ Scanned(s, text) = f[Len(text)]
        BY <1>1, CharsTakenSteps
    <1> QED  BY <1>2, Zenon DEF IsRead

(* A text has at least one segment, and its segments are texts. *)
LEMMA SegmentsAre ==
    ASSUME NEW text, IsSeq(text)
    PROVE  AllSeqs(SplitSegments(text)) /\ Len(SplitSegments(text)) >= 1
    <1> DEFINE n == Len(text)
               end == Scanned(NoSegments, text)
    <1>1. n \in Nat
        BY SeqFacts
    <1>2. PICK f : f[0] = NoSegments /\ (\A i \in 1..n : f[i] = TakeChar(f[i - 1], text[i])) /\ end = f[n]
        <2>1. IsRead(NoSegments, text)
            BY TextIsRead, Zenon
        <2> QED  BY <2>1, Zenon DEF IsRead
    <1> HIDE DEF n, end
    <1> DEFINE Good == {i \in 0..n : IsScan(f[i])}
    <1>3. 0 \in Good
        BY <1>1, <1>2, NothingScanned
    <1>4. \A i \in 1..n : i - 1 \in Good => i \in Good
        <2> TAKE i \in 1..n
        <2> HAVE i - 1 \in Good
        <2>1. f[i] = TakeChar(f[i - 1], text[i]) /\ IsScan(f[i - 1]) /\ i \in 0..n
            BY <1>1, <1>2
        <2>2. IsScan(f[i])
            BY <2>1, StillScan
        <2> QED  BY <2>1, <2>2
    <1>5. n \in Good
        <2> HIDE DEF Good
        <2>1. 0..n \subseteq Good
            BY <1>1, <1>3, <1>4, BoundedInduction
        <2> QED  BY <1>1, <2>1
    <1>6. IsScan(end)
        BY <1>2, <1>5
    <1>7. PICK done, current : \E quoted \in {Yes, No}, escaped \in {Yes, No} :
                                 end = Scan(done, current, quoted, escaped) /\ AllSeqs(done) /\ IsSeq(current)
        BY <1>6, Zenon DEF IsScan
    <1>8. end.done = done /\ end.current = current
        BY <1>7 DEF Scan
    <1>9. SplitSegments(text) = Append(done, current)
        BY <1>8 DEF SplitSegments, end
    <1>10. AllSeqs(Append(done, current)) /\ Len(Append(done, current)) = Len(done) + 1 /\ Len(done) \in Nat
        BY <1>7, SeqsAppended, Appended, SeqFacts DEF AllSeqs
    <1> QED  BY <1>9, <1>10


-------------------------------------------------------------------------------
(* What is normalized once is normal. *)
CanonicalParts(text, withSubtype) ==
    LET segments == SplitSegments(Trimmed(text)) IN
    [i \in DOMAIN segments |-> IF i = 1 THEN CanonicalHead(Trimmed(segments[1]), withSubtype)
                                        ELSE CanonicalParameter(Trimmed(segments[i]))]
JoinedParts(all) == IF \E i \in DOMAIN all : all[i] = <<>> THEN <<>>
               ELSE <<FlattenSeq([i \in DOMAIN all |-> all[i][1]])>>

(* A normal form is its canonical parts, joined. *)
LEMMA NormalizedIs == \A text, withSubtype : Normalized(text, withSubtype) = JoinedParts(CanonicalParts(text, withSubtype))
    BY Zenon DEF Normalized, CanonicalParts, JoinedParts

IsPart(part, piece) ==
    \E name, value : /\ IsToken(name) /\ IsSolid(value) /\ IsParameterValue(value)
                     /\ part = BlankBefore(ParameterText(name, value)) /\ piece = <<Semicolon>> \o part

(* A part and the piece that it is written as. *)
LEMMA PartIs ==
    ASSUME NEW part, NEW piece, IsPart(part, piece)
    PROVE  /\ IsSeq(part) /\ IsSeq(piece) /\ Len(piece) >= 1 /\ piece[Len(piece)] \notin White
           /\ CanonicalParameter(Trimmed(part)) = <<piece>>
           /\ \A done, current : IsSeq(current) => Scanned(Unquoting(done, current), piece) = Unquoting(Append(done, current), part)
    <1> PICK name, value : /\ IsToken(name) /\ IsSolid(value) /\ IsParameterValue(value)
                           /\ part = BlankBefore(ParameterText(name, value)) /\ piece = <<Semicolon>> \o part
        BY Zenon DEF IsPart
    <1> DEFINE body == ParameterText(name, value)
               one == <<Semicolon>>
               bl == <<Blank>>
    <1>1. IsSeq(value)
        BY DEF IsSolid
    <1>2. IsSolid(body) /\ Trimmed(part) = body /\ CanonicalParameter(body) = <<piece>>
        BY ParameterTextBack
    <1>3. IsSeq(one) /\ IsSeq(bl) /\ Len(one) = 1 /\ Len(bl) = 1
        BY OneIsSeq
    <1> HIDE DEF body, one, bl
    <1>4. IsSeq(body) /\ Len(body) \in Nat /\ Len(body) >= 1 /\ body[Len(body)] \notin White
        BY <1>2, SeqFacts DEF IsSolid
    <1>5. part = bl \o body /\ piece = one \o part
        BY DEF BlankBefore, body, one, bl
    <1> DEFINE m == Len(body)
    <1>6. IsSeq(part) /\ Len(part) = m + 1 /\ part[m + 1] = body[m]
        <2> DEFINE all == bl \o body
        <2>1. /\ IsSeq(all) /\ Len(all) = Len(bl) + Len(body) /\ \A i \in 1..Len(body) : all[Len(bl) + i] = body[i]
            <3>1. IsSeq(bl) /\ IsSeq(body)
                BY <1>3, <1>4
            <3> QED  BY ONLY <3>1, Concat
        <2> HIDE DEF all
        <2>2. m \in 1..m /\ Len(bl) + m = m + 1
            BY <1>3, <1>4
        <2>3. all[m + 1] = body[m]
            BY <2>1, <2>2
        <2>4. IsSeq(all) /\ Len(all) = m + 1
            BY <2>1, <2>2
        <2> QED  BY <1>5, <2>3, <2>4 DEF all
    <1>7. IsSeq(piece) /\ Len(piece) = m + 2 /\ piece[m + 2] = part[m + 1]
        <2> DEFINE all == one \o part
        <2>1. /\ IsSeq(all) /\ Len(all) = Len(one) + Len(part) /\ \A i \in 1..Len(part) : all[Len(one) + i] = part[i]
            <3>1. IsSeq(one) /\ IsSeq(part)
                BY <1>3, <1>6
            <3> QED  BY ONLY <3>1, Concat
        <2> HIDE DEF all, m
        <2>2. m + 1 \in 1..Len(part) /\ Len(one) + (m + 1) = m + 2
            BY <1>3, <1>4, <1>6 DEF m
        <2>3. all[m + 2] = part[m + 1]
            BY <2>1, <2>2
        <2>4. IsSeq(all) /\ Len(all) = m + 2
            BY <1>6, <2>1, <2>2
        <2> QED  BY <1>5, <2>3, <2>4 DEF all
    <1>8. Len(piece) >= 1 /\ piece[Len(piece)] \notin White
        BY <1>4, <1>6, <1>7
    <1>9. ASSUME NEW done, NEW current, IsSeq(current)
          PROVE  Scanned(Unquoting(done, current), piece) = Unquoting(Append(done, current), part)
        BY <1>1, <1>9, PartScanned
    <1> QED  BY <1>2, <1>6, <1>7, <1>8, <1>9

(* The first n of a sequence, and the next one. *)
LEMMA FirstsAppended ==
    ASSUME NEW ss, NEW n \in Nat, IsSeq(ss), n + 1 <= Len(ss)
    PROVE  Append(Firsts(ss, n), ss[n + 1]) = Firsts(ss, n + 1) /\ IsSeq(Firsts(ss, n))
    <1> DEFINE first == Firsts(ss, n)
               next == Firsts(ss, n + 1)
               x == ss[n + 1]
               more == Append(first, x)
    <1>1. /\ first = [i \in 1..n |-> first[i]] /\ (\A i \in 1..n : first[i] = ss[i])
          /\ next = [i \in 1..(n + 1) |-> next[i]] /\ \A i \in 1..(n + 1) : next[i] = ss[i]
        BY DEF Firsts
    <1> HIDE DEF first, next
    <1>2. IsSeq(first) /\ Len(first) = n /\ IsSeq(next) /\ Len(next) = n + 1
        BY <1>1, MakeSeq
    <1>3. IsSeq(more) /\ Len(more) = Len(first) + 1 /\ (\A i \in 1..Len(first) : more[i] = first[i]) /\ more[Len(first) + 1] = x
        BY <1>2, Appended
    <1> HIDE DEF more
    <1>4. \A i \in 1..(n + 1) : more[i] = next[i]
        <2> TAKE i \in 1..(n + 1)
        <2>1. CASE i \in 1..n
            BY <1>1, <1>2, <1>3, <2>1
        <2>2. CASE i = n + 1
            BY <1>1, <1>2, <1>3, <2>2
        <2> QED  BY <2>1, <2>2
    <1>5. more = next
        BY <1>2, <1>3, <1>4, SameSeq
    <1> QED  BY <1>2, <1>5 DEF more, next, first

(* The canonical spelling splits into the parts it was joined from. *)
LEMMA JoinedSplits ==
    ASSUME NEW parts, NEW pieces, IsSeq(parts), IsSeq(pieces), Len(parts) = Len(pieces), Len(pieces) >= 1,
           parts[1] = pieces[1], IsHead(pieces[1]), \A i \in 2..Len(pieces) : IsPart(parts[i], pieces[i])
    PROVE  IsSolid(FlattenSeq(pieces)) /\ SplitSegments(FlattenSeq(pieces)) = parts
    <1> DEFINE n == Len(pieces)
               head == pieces[1]
               out == FlattenSeq(pieces)
    <1>1. n \in Nat /\ n >= 1 /\ DOMAIN pieces = 1..n /\ Len(parts) = n
        BY SeqFacts
    <1>2. IsSeq(head) /\ Len(head) \in Nat /\ Len(head) >= 1 /\ head[1] \notin White /\ head[Len(head)] \notin White
          /\ \A i \in 1..Len(head) : head[i] \notin {"semicolon", "quote"}
        BY SeqFacts DEF IsHead, IsSolid
    <1>3. \A i \in 2..n : /\ IsSeq(parts[i]) /\ IsSeq(pieces[i]) /\ Len(pieces[i]) >= 1 /\ pieces[i][Len(pieces[i])] \notin White
                          /\ \A done, current : IsSeq(current)
                                => Scanned(Unquoting(done, current), pieces[i]) = Unquoting(Append(done, current), parts[i])
        BY PartIs
    <1>4. AllSeqs(pieces)
        BY <1>1, <1>2, <1>3 DEF AllSeqs
    <1>5. /\ FlattenSeq(Firsts(pieces, 0)) = <<>> /\ FlattenSeq(Firsts(pieces, n)) = out
          /\ \A i \in 1..n : FlattenSeq(Firsts(pieces, i)) = FlattenSeq(Firsts(pieces, i - 1)) \o pieces[i]
        BY <1>4, FlattenSteps
    <1> DEFINE pre(i) == FlattenSeq(Firsts(pieces, i))
    <1>6. pre(0) = <<>> /\ pre(n) = out /\ \A i \in 1..n : pre(i) = pre(i - 1) \o pieces[i]
        BY <1>5
    <1> HIDE DEF pre, n, head, out
    <1> DEFINE Scans(i) == Scanned(NoSegments, pre(i)) = Unquoting(Firsts(parts, i - 1), parts[i])
               Ends(i) == IsSeq(pre(i)) /\ Len(pre(i)) >= 1 /\ pre(i)[1] = head[1] /\ pre(i)[Len(pre(i))] \notin White
               Good == {i \in 0..n : i > 0 => Scans(i) /\ Ends(i)}
    <1>7. Scans(1) /\ Ends(1)
        <2>1. pre(1) = head
            <3>1. 1 \in 1..n /\ 1 - 1 = 0
                BY <1>1
            <3>2. pre(1) = pre(0) \o head
                BY <1>6, <3>1 DEF head
            <3> QED  BY <1>2, <1>6, <3>2, ConcatEmpty
        <2>2. Ends(1)
            BY <1>2, <2>1
        <2> DEFINE none == <<>>
        <2>3. NoSegments = Unquoting(none, none) /\ IsSeq(none) /\ none \o head = head
            BY <1>2, NothingScanned, EmptyIsSeq, ConcatEmpty
        <2>4. Firsts(parts, 1 - 1) = none
            <3>1. Firsts(parts, 0) = none
                BY DEF Firsts
            <3> QED  BY <3>1
        <2> HIDE DEF none
        <2>5. Scanned(Unquoting(none, none), head) = Unquoting(none, none \o head)
            BY <1>2, <2>3, PlainScanned
        <2>6. parts[1] = head
            BY DEF head
        <2>7. Scans(1)
            BY <2>1, <2>3, <2>4, <2>5, <2>6
        <2> QED  BY <2>2, <2>7
    <1>8. ASSUME NEW i \in 2..n, Scans(i - 1), Ends(i - 1)
          PROVE  Scans(i) /\ Ends(i)
        <2> DEFINE before == pre(i - 1)
                   piece == pieces[i]
                   part == parts[i]
                   all == before \o piece
                   done == Firsts(parts, i - 2)
                   last == parts[i - 1]
        <2>1. i \in 1..n /\ i - 1 \in Nat /\ i - 2 \in Nat /\ (i - 2) + 1 = i - 1 /\ (i - 1) - 1 = i - 2 /\ i - 1 <= n
            BY <1>1
        <2>2. pre(i) = all
            BY <1>6, <2>1
        <2>3. /\ IsSeq(part) /\ IsSeq(piece) /\ Len(piece) >= 1 /\ piece[Len(piece)] \notin White
              /\ \A d, c : IsSeq(c) => Scanned(Unquoting(d, c), piece) = Unquoting(Append(d, c), part)
            BY <1>3
        <2>4. IsSeq(before) /\ Len(before) >= 1 /\ before[1] = head[1]
            BY <1>8
        <2>5. IsSeq(last)
            <3>1. CASE i = 2
                BY <1>2, <3>1 DEF head
            <3>2. CASE i # 2
                <4>1. i - 1 \in 2..n
                    BY <1>1, <3>2
                <4> QED  BY <1>3, <4>1
            <3> QED  BY <3>1, <3>2
        <2>6. Scanned(NoSegments, before) = Unquoting(done, last)
            BY <1>8, <2>1
        <2>7. Append(done, last) = Firsts(parts, i - 1)
            <3> DEFINE k == i - 2
            <3>1. k \in Nat /\ k + 1 = i - 1 /\ k + 1 <= Len(parts)
                BY <1>1, <2>1
            <3> HIDE DEF k
            <3>2. Append(Firsts(parts, k), parts[k + 1]) = Firsts(parts, k + 1)
                BY <3>1, FirstsAppended
            <3> QED  BY <3>1, <3>2 DEF k
        <2> HIDE DEF before, piece, part, done, last
        <2>8. Scanned(NoSegments, all) = Scanned(Scanned(NoSegments, before), piece)
            BY <2>3, <2>4, ScanConcat
        <2>9. Scanned(Unquoting(done, last), piece) = Unquoting(Append(done, last), part)
            BY <2>3, <2>5
        <2>10. Scanned(NoSegments, all) = Unquoting(Firsts(parts, i - 1), part)
            BY <2>6, <2>7, <2>8, <2>9
        <2>11. Scans(i)
            BY <2>2, <2>10 DEF part
        <2>12. IsSeq(all) /\ Len(all) = Len(before) + Len(piece) /\ (\A j \in 1..Len(before) : all[j] = before[j])
               /\ \A j \in 1..Len(piece) : all[Len(before) + j] = piece[j]
            <3>1. IsSeq(before) /\ IsSeq(piece)
                BY <2>3, <2>4
            <3> QED  BY ONLY <3>1, Concat
        <2> HIDE DEF all
        <2>13. Len(before) \in Nat /\ Len(piece) \in Nat /\ 1 \in 1..Len(before) /\ Len(piece) \in 1..Len(piece)
            BY <2>3, <2>4, SeqFacts
        <2>14. all[1] = head[1] /\ all[Len(all)] \notin White /\ Len(all) >= 1
            BY <2>3, <2>4, <2>12, <2>13
        <2>15. Ends(i)
            BY <2>2, <2>12, <2>14
        <2> QED  BY <2>11, <2>15
    <1>9. Scans(n) /\ Ends(n)
        <2>1. 0 \in Good
            BY <1>1
        <2>2. \A i \in 1..n : i - 1 \in Good => i \in Good
            <3> TAKE i \in 1..n
            <3> HAVE i - 1 \in Good
            <3>1. CASE i = 1
                <4> HIDE DEF Scans, Ends
                <4> QED  BY <1>1, <1>7, <3>1
            <3>2. CASE i # 1
                <4>1. i \in 2..n /\ i - 1 > 0 /\ i \in 0..n
                    BY <1>1, <3>2
                <4> HIDE DEF Scans, Ends
                <4>2. Scans(i - 1) /\ Ends(i - 1)
                    BY <4>1
                <4> QED  BY <1>8, <4>1, <4>2
            <3> QED  BY <3>1, <3>2
        <2>3. n \in Good
            <3> HIDE DEF Good
            <3>1. 0..n \subseteq Good
                BY <1>1, <2>1, <2>2, BoundedInduction
            <3> QED  BY <1>1, <3>1
        <2> HIDE DEF Scans, Ends
        <2> QED  BY <1>1, <2>3
    <1>10. IsSolid(out)
        BY <1>2, <1>6, <1>9 DEF IsSolid
    <1>11. SplitSegments(out) = parts
        <2>1. Scanned(NoSegments, out) = Unquoting(Firsts(parts, n - 1), parts[n])
            BY <1>6, <1>9
        <2>2. SplitSegments(out) = Append(Firsts(parts, n - 1), parts[n])
            BY <2>1 DEF SplitSegments, Unquoting, Scan
        <2> DEFINE k == n - 1
        <2>3. k \in Nat /\ k + 1 = n /\ k + 1 <= Len(parts)
            BY <1>1
        <2> HIDE DEF k
        <2>4. Append(Firsts(parts, k), parts[k + 1]) = Firsts(parts, k + 1)
            BY <2>3, FirstsAppended
        <2>5. Firsts(parts, n) = parts
            BY <1>1, SeqFacts DEF Firsts
        <2> QED  BY <2>2, <2>3, <2>4, <2>5 DEF k
    <1> QED  BY <1>10, <1>11 DEF out


(* A normal form is its own normal form. *)
LEMMA NormalizedBack ==
    ASSUME NEW text, IsSeq(text), NEW withSubtype \in BOOLEAN, Normalized(text, withSubtype) # <<>>
    PROVE  \E out : /\ Normalized(text, withSubtype) = <<out>> /\ IsSeq(out)
                    /\ Normalized(out, withSubtype) = <<out>>
    <1> DEFINE trimmed == Trimmed(text)
               segments == SplitSegments(trimmed)
               all == CanonicalParts(text, withSubtype)
               n == Len(segments)
    <1>1. IsSeq(trimmed)
        BY TrimmedText
    <1> HIDE DEF trimmed
    <1>2. IsSeq(segments) /\ n \in Nat /\ n >= 1 /\ DOMAIN segments = 1..n /\ \A i \in 1..n : IsSeq(segments[i])
        BY <1>1, SegmentsAre, SeqFacts DEF AllSeqs
    <1>3. all = [i \in 1..n |-> IF i = 1 THEN CanonicalHead(Trimmed(segments[1]), withSubtype)
                                         ELSE CanonicalParameter(Trimmed(segments[i]))]
        BY <1>2, Zenon DEF CanonicalParts, trimmed
    <1> HIDE DEF segments, n, all
    <1>4. DOMAIN all = 1..n /\ all = [i \in 1..n |-> all[i]]
        BY <1>3
    <1>5. Normalized(text, withSubtype) = JoinedParts(all)
        BY NormalizedIs DEF all
    <1>6. \A i \in 1..n : all[i] # <<>>
        BY <1>4, <1>5 DEF JoinedParts
    <1>7. all[1] = CanonicalHead(Trimmed(segments[1]), withSubtype) /\ 1 \in 1..n
        BY <1>2, <1>3
    <1>8. \A i \in 2..n : all[i] = CanonicalParameter(Trimmed(segments[i])) /\ i \in 1..n
        <2> TAKE i \in 2..n
        <2>1. i \in 1..n /\ i # 1
            BY <1>2
        <2> QED  BY <1>3, <2>1
    <1>9. PICK head : all[1] = <<head>> /\ CanonicalHead(head, withSubtype) = <<head>> /\ IsHead(head)
        <2>1. IsSeq(Trimmed(segments[1]))
            BY <1>2, <1>7, TrimmedText
        <2> DEFINE t == Trimmed(segments[1])
        <2>2. CanonicalHead(t, withSubtype) # <<>> /\ IsSeq(t)
            BY <1>6, <1>7, <2>1
        <2> HIDE DEF t
        <2>3. \E h : CanonicalHead(t, withSubtype) = <<h>> /\ CanonicalHead(h, withSubtype) = <<h>> /\ IsHead(h)
            BY <2>2, HeadBack
        <2> QED  BY <1>7, <2>3 DEF t
    <1> DEFINE pieces == [i \in 1..n |-> all[i][1]]
               parts == [i \in 1..n |-> IF i = 1 THEN head ELSE CHOOSE part : IsPart(part, pieces[i])]
    <1>10. /\ IsSeq(pieces) /\ Len(pieces) = n /\ pieces[1] = head /\ (\A i \in 1..n : pieces[i] = all[i][1])
        <2>1. pieces = [i \in 1..n |-> pieces[i]] /\ (\A i \in 1..n : pieces[i] = all[i][1])
            OBVIOUS
        <2> HIDE DEF pieces
        <2>2. IsSeq(pieces) /\ Len(pieces) = n
            BY <1>2, <2>1, MakeSeq
        <2>3. pieces[1] = all[1][1]
            BY <1>7, <2>1
        <2>4. all[1][1] = head
            BY ONLY <1>9
        <2> QED  BY <2>1, <2>2, <2>3, <2>4
    <1>11. pieces = [i \in DOMAIN all |-> all[i][1]]
        BY <1>4
    <1> HIDE DEF pieces
    <1>12. \A i \in 2..n : all[i] = <<(pieces[i])>> /\ \E part : IsPart(part, pieces[i])
        <2> TAKE i \in 2..n
        <2> DEFINE t == Trimmed(segments[i])
        <2>1. IsSeq(t) /\ CanonicalParameter(t) # <<>> /\ all[i] = CanonicalParameter(t) /\ i \in 1..n
            BY <1>2, <1>6, <1>8, TrimmedText
        <2> HIDE DEF t
        <2>2. PICK name, value : /\ IsToken(name) /\ IsSolid(value) /\ IsParameterValue(value)
                                 /\ CanonicalParameter(t) = <<(<<Semicolon>> \o BlankBefore(ParameterText(name, value)))>>
            BY <2>1, ParameterBack
        <2> DEFINE part == BlankBefore(ParameterText(name, value))
                   piece == <<Semicolon>> \o part
        <2>3. IsPart(part, piece)
            BY <2>2, Zenon DEF IsPart
        <2> HIDE DEF part
        <2>4. CanonicalParameter(t) = <<piece>>
            BY <2>2 DEF part
        <2> HIDE DEF piece
        <2>5. pieces[i] = piece
            BY <1>10, <2>1, <2>4
        <2> QED  BY <2>1, <2>3, <2>4, <2>5
    <1>13. IsSeq(parts) /\ Len(parts) = n /\ parts[1] = head /\ \A i \in 2..n : IsPart(parts[i], pieces[i])
        <2>1. parts = [i \in 1..n |-> parts[i]] /\ \A i \in 1..n : parts[i] = IF i = 1 THEN head ELSE CHOOSE part : IsPart(part, pieces[i])
            OBVIOUS
        <2> HIDE DEF parts
        <2>2. IsSeq(parts) /\ Len(parts) = n
            BY <1>2, <2>1, MakeSeq
        <2>3. parts[1] = head
            BY <1>7, <2>1
        <2>4. \A i \in 2..n : parts[i] = CHOOSE part : IsPart(part, pieces[i])
            <3> TAKE i \in 2..n
            <3>1. i \in 1..n /\ i # 1
                BY <1>2
            <3> QED  BY <2>1, <3>1
        <2>5. \A i \in 2..n : IsPart(parts[i], pieces[i])
            BY <1>12, <2>4
        <2> QED  BY <2>2, <2>3, <2>5
    <1> HIDE DEF parts
    <1> DEFINE out == FlattenSeq(pieces)
    <1>14. IsSolid(out) /\ SplitSegments(out) = parts
        BY <1>2, <1>9, <1>10, <1>13, JoinedSplits
    <1>15. Normalized(text, withSubtype) = <<out>>
        BY <1>4, <1>5, <1>6, <1>11 DEF JoinedParts
    <1> HIDE DEF out
    <1>16. Trimmed(out) = out /\ IsSeq(out)
        BY <1>14, SolidTrimmed DEF IsSolid
    <1>17. DOMAIN parts = 1..n
        BY <1>13, SeqFacts
    <1>18. CanonicalParts(out, withSubtype) = [i \in 1..n |-> IF i = 1 THEN CanonicalHead(Trimmed(parts[1]), withSubtype)
                                                                     ELSE CanonicalParameter(Trimmed(parts[i]))]
        BY <1>14, <1>16, <1>17, Zenon DEF CanonicalParts
    <1>19. CanonicalHead(Trimmed(parts[1]), withSubtype) = all[1]
        <2>1. Trimmed(head) = head
            BY <1>9, SolidTrimmed DEF IsHead
        <2> QED  BY <1>9, <1>13, <2>1
    <1>20. \A i \in 2..n : CanonicalParameter(Trimmed(parts[i])) = all[i]
        BY <1>12, <1>13, PartIs
    <1>21. \A i \in 1..n : (IF i = 1 THEN CanonicalHead(Trimmed(parts[1]), withSubtype) ELSE CanonicalParameter(Trimmed(parts[i]))) = all[i]
        <2> TAKE i \in 1..n
        <2>1. i = 1 \/ i \in 2..n
            BY <1>2
        <2> QED  BY <1>19, <1>20, <2>1
    <1>22. CanonicalParts(out, withSubtype) = all
        BY <1>4, <1>18, <1>21
    <1>23. Normalized(out, withSubtype) = <<out>>
        BY <1>5, <1>15, <1>22, NormalizedIs
    <1> QED  BY <1>15, <1>16, <1>23

(* A content type is read back as it is: what ContentType's from_str makes *)
(* of a text in any spelling, written and read again, is the same.         *)
THEOREM ContentTypeBack ==
    ASSUME NEW text, IsSeq(text), ContentTypeFromStr(text) # <<>>
    PROVE  \E out : ContentTypeFromStr(text) = <<out>> /\ IsSeq(out) /\ ContentTypeFromStr(out) = <<out>>
    <1> DEFINE yes == TRUE
    <1>1. yes \in BOOLEAN /\ \A t : ContentTypeFromStr(t) = Normalized(t, yes)
        BY Zenon DEF ContentTypeFromStr
    <1> HIDE DEF yes
    <1>2. \E out : Normalized(text, yes) = <<out>> /\ IsSeq(out) /\ Normalized(out, yes) = <<out>>
        BY <1>1, NormalizedBack
    <1> QED  BY <1>1, <1>2

(* So is a content disposition ... *)
THEOREM ContentDispositionBack ==
    ASSUME NEW text, IsSeq(text), ContentDispositionFromStr(text) # <<>>
    PROVE  \E out : /\ ContentDispositionFromStr(text) = <<out>> /\ IsSeq(out)
                    /\ ContentDispositionFromStr(out) = <<out>>
    <1> DEFINE no == FALSE
    <1>1. no \in BOOLEAN /\ \A t : ContentDispositionFromStr(t) = Normalized(t, no)
        BY Zenon DEF ContentDispositionFromStr
    <1> HIDE DEF no
    <1>2. \E out : Normalized(text, no) = <<out>> /\ IsSeq(out) /\ Normalized(out, no) = <<out>>
        BY <1>1, NormalizedBack
    <1> QED  BY <1>1, <1>2

(* ... and a transfer encoding. *)
THEOREM TransferEncodingBack ==
    ASSUME NEW text, IsSeq(text), TransferEncodingFromStr(text) # <<>>
    PROVE  \E out : /\ TransferEncodingFromStr(text) = <<out>> /\ IsSeq(out)
                    /\ TransferEncodingFromStr(out) = <<out>>
    <1> DEFINE token == Trimmed(text)
               out == Lower(token)
    <1>1. IsToken(token) /\ TransferEncodingFromStr(text) = <<out>>
        BY TrimmedText DEF TransferEncodingFromStr, IsToken
    <1> HIDE DEF token
    <1>2. IsToken(out) /\ Lower(out) = out
        BY <1>1, LowerToken
    <1> HIDE DEF out
    <1>3. Trimmed(out) = out
        BY <1>2, TokenSolid, SolidTrimmed
    <1>4. TransferEncodingFromStr(out) = <<out>>
        BY <1>2, <1>3 DEF TransferEncodingFromStr, IsToken
    <1> QED  BY <1>1, <1>2, <1>4 DEF IsToken

-------------------------------------------------------------------------------
(* Message ids. *)
IsBracketed(all, a, inner, b) ==
    /\ IsSeq(all) /\ Len(all) = Len(inner) + 2 /\ all[1] = a /\ all[Len(inner) + 2] = b
    /\ SubSeq(all, 2, Len(all) - 1) = inner
    /\ \A k \in DOMAIN all : all[k] = a \/ all[k] = b \/ \E i \in 1..Len(inner) : all[k] = inner[i]

(* Brackets around a text can be told from it. *)
LEMMA BracketsOff ==
    ASSUME NEW inner, IsSeq(inner), NEW a, NEW b
    PROVE  IsBracketed(<<a>> \o inner \o <<b>>, a, inner, b)
    <1> DEFINE open == <<a>>
               close == <<b>>
               left == open \o inner
               all == left \o close
               n == Len(inner)
               part == SubSeq(all, 2, n + 1)
    <1>1. n \in Nat
        BY SeqFacts
    <1>2. IsSeq(open) /\ Len(open) = 1 /\ open[1] = a /\ IsSeq(close) /\ Len(close) = 1 /\ close[1] = b
        BY OneIsSeq
    <1> HIDE DEF open, close
    <1>3. IsSeq(left) /\ Len(left) = n + 1 /\ left[1] = a /\ \A i \in 1..n : left[1 + i] = inner[i]
        <2>1. /\ IsSeq(left) /\ Len(left) = Len(open) + n /\ (\A i \in 1..Len(open) : left[i] = open[i])
              /\ \A i \in 1..n : left[Len(open) + i] = inner[i]
            <3>1. IsSeq(open) /\ IsSeq(inner)
                BY <1>2
            <3> QED  BY ONLY <3>1, Concat
        <2> HIDE DEF left, n
        <2>2. 1 \in 1..Len(open) /\ Len(open) + n = n + 1
            BY <1>1, <1>2
        <2>3. left[1] = a /\ \A i \in 1..n : left[1 + i] = inner[i]
            BY <1>2, <2>1, <2>2
        <2> QED  BY <2>1, <2>2, <2>3
    <1> HIDE DEF left, n
    <1>4. IsSeq(all) /\ Len(all) = n + 2 /\ (\A i \in 1..(n + 1) : all[i] = left[i]) /\ all[n + 2] = b
        <2>1. /\ IsSeq(all) /\ Len(all) = Len(left) + Len(close) /\ (\A i \in 1..Len(left) : all[i] = left[i])
              /\ \A i \in 1..Len(close) : all[Len(left) + i] = close[i]
            <3>1. IsSeq(left) /\ IsSeq(close)
                BY <1>2, <1>3
            <3> QED  BY ONLY <3>1, Concat
        <2> HIDE DEF all
        <2>2. 1 \in 1..Len(close) /\ Len(left) + 1 = n + 2 /\ Len(left) + Len(close) = n + 2
            BY <1>1, <1>2, <1>3
        <2>3. all[n + 2] = b
            BY <1>2, <2>1, <2>2
        <2> QED  BY <1>3, <2>1, <2>2, <2>3
    <1> HIDE DEF all
    <1>5. all[1] = a /\ \A i \in 1..n : all[1 + i] = inner[i]
        <2>1. 1 \in 1..(n + 1) /\ \A i \in 1..n : 1 + i \in 1..(n + 1)
            BY <1>1
        <2> QED  BY <1>3, <1>4, <2>1
    <1>6. part = inner
        <2>1. n + 1 \in Nat /\ n + 1 <= Len(all) /\ (IF 2 <= n + 1 THEN n + 1 - 2 + 1 ELSE 0) = n
            BY <1>1, <1>4
        <2>2. IsSeq(part) /\ Len(part) = n /\ \A i \in 1..Len(part) : part[i] = all[2 + i - 1]
            <3> DEFINE m == n + 1
            <3>1. IsSeq(all) /\ m \in Nat /\ m <= Len(all) /\ 2 \in Nat /\ 1 <= 2 /\ (IF 2 <= m THEN m - 2 + 1 ELSE 0) = n
                <4> HIDE DEF n
                <4> QED  BY <1>1, <1>4, <2>1
            <3> HIDE DEF m
            <3> DEFINE cut == SubSeq(all, 2, m)
            <3>2. IsSeq(cut) /\ Len(cut) = (IF 2 <= m THEN m - 2 + 1 ELSE 0) /\ \A i \in 1..Len(cut) : cut[i] = all[2 + i - 1]
                BY ONLY <3>1, PartOfSeq
            <3>3. part = cut
                BY DEF m
            <3> QED  BY <3>1, <3>2, <3>3
        <2> HIDE DEF part
        <2>3. \A i \in 1..n : 2 + i - 1 = 1 + i
            BY <1>1
        <2>4. \A i \in 1..n : part[i] = inner[i]
            BY <1>5, <2>2, <2>3
        <2> QED  BY <2>2, <2>4, SameSeq DEF n
    <1>7. \A k \in DOMAIN all : all[k] = a \/ all[k] = b \/ \E i \in 1..n : all[k] = inner[i]
        <2>1. DOMAIN all = 1..(n + 2)
            BY <1>4, SeqFacts
        <2> TAKE k \in DOMAIN all
        <2>2. CASE k = 1
            BY <1>5, <2>2
        <2>3. CASE k = n + 2
            BY <1>4, <2>3
        <2>4. CASE k # 1 /\ k # n + 2
            <3> DEFINE i == k - 1
            <3>1. i \in 1..n /\ 1 + i = k
                BY <1>1, <2>1, <2>4
            <3> HIDE DEF i
            <3>2. all[k] = inner[i]
                BY <1>5, <3>1
            <3> QED  BY <3>1, <3>2
        <2> QED  BY <2>2, <2>3, <2>4
    <1>8. Len(all) - 1 = n + 1
        BY <1>1, <1>4
    <1>9. SubSeq(all, 2, Len(all) - 1) = inner
        BY <1>6, <1>8
    <1> QED  BY <1>4, <1>5, <1>7, <1>9 DEF all, left, open, close, n, IsBracketed

InBrackets(before, domain) == <<"<">> \o (before \o <<"@">> \o domain) \o <<">">>
IsDomain(text) ==
    /\ IsSeq(text) /\ text # <<>> /\ ~In(text, White)
    /\ (text[1] = "[" /\ Last(text) = "]") \/ (IsMimeToken(text) /\ Lower(text) = text)

(* An id from the parts of its address. *)
LEMMA MessageIdGives ==
    ASSUME NEW before, NEW domain, IsToken(before), IsDomain(domain)
    PROVE  MessageIdFromStr(InBrackets(before, domain)) = <<InBrackets(before, domain)>>
    <1> DEFINE at == "@"
               one == <<at>>
               left == before \o one
               inner == left \o domain
               open == "<"
               close == ">"
               out == <<open>> \o inner \o <<close>>
               n == Len(inner)
    <1>1. /\ IsSeq(before) /\ Len(before) \in Nat /\ Len(before) >= 1
          /\ (\A i \in 1..Len(before) : before[i] \notin NoTokenChars) /\ IsSeq(domain)
        BY TokenChars DEF IsDomain
    <1>2. IsSeq(one) /\ Len(one) = 1 /\ one[1] = at
        BY OneIsSeq
    <1>3. open \notin White /\ close \notin White /\ at \notin White /\ at \in NoTokenChars /\ White \subseteq NoTokenChars
        BY DEF NoTokenChars, White
    <1> HIDE DEF one
    <1>4. IsSeq(left) /\ Len(left) = Len(before) + 1 /\ \A i \in 1..Len(before) : left[i] = before[i]
        <2>1. IsSeq(left) /\ Len(left) = Len(before) + Len(one) /\ \A i \in 1..Len(before) : left[i] = before[i]
            <3>1. IsSeq(before) /\ IsSeq(one)
                BY <1>1, <1>2
            <3> QED  BY ONLY <3>1, Concat
        <2> HIDE DEF left
        <2> QED  BY <1>2, <2>1
    <1>5. SplitOnce(inner, at) = <<[before |-> before, after |-> domain]>>
        <2>1. \A i \in 1..Len(before) : before[i] # at
            BY <1>1, <1>3
        <2> QED  BY <1>1, <2>1, SplitOnceAt DEF one, left
    <1>6. \A k \in DOMAIN left : left[k] \notin White
        <2>1. \A k \in DOMAIN left : (\E i \in DOMAIN before : left[k] = before[i]) \/ \E i \in DOMAIN one : left[k] = one[i]
            <3>1. IsSeq(before) /\ IsSeq(one)
                BY <1>1, <1>2
            <3> QED  BY ONLY <3>1, ConcatFrom
        <2>2. DOMAIN before = 1..Len(before) /\ DOMAIN one = 1..1
            BY <1>1, <1>2, SeqFacts
        <2> HIDE DEF left
        <2> QED  BY <1>1, <1>2, <1>3, <2>1, <2>2
    <1>7. 1 \in 1..Len(before) /\ 1 \in 1..Len(left)
        BY <1>1, <1>4
    <1> HIDE DEF left
    <1>8. IsSeq(inner) /\ n \in Nat /\ inner[1] = before[1] /\ \A k \in 1..n : inner[k] \notin White
        <2>1. IsSeq(inner) /\ \A i \in 1..Len(left) : inner[i] = left[i]
            <3>1. IsSeq(left) /\ IsSeq(domain)
                BY <1>1, <1>4
            <3> QED  BY ONLY <3>1, Concat
        <2>2. \A k \in DOMAIN inner : (\E i \in DOMAIN left : inner[k] = left[i]) \/ \E i \in DOMAIN domain : inner[k] = domain[i]
            BY <1>1, <1>4, ConcatFrom
        <2> HIDE DEF inner
        <2>3. DOMAIN inner = 1..n /\ n \in Nat
            BY <2>1, SeqFacts
        <2>4. \A k \in DOMAIN domain : domain[k] \notin White
            BY DEF IsDomain, In
        <2> QED  BY <1>4, <1>6, <1>7, <2>1, <2>2, <2>3, <2>4
    <1> HIDE DEF inner, n
    <1>9. /\ IsSeq(out) /\ Len(out) = n + 2 /\ out[1] = open /\ out[n + 2] = close
          /\ SubSeq(out, 2, Len(out) - 1) = inner
          /\ \A k \in DOMAIN out : out[k] = open \/ out[k] = close \/ \E i \in 1..n : out[k] = inner[i]
        <2> HIDE DEF open, close
        <2>1. IsSeq(inner)
            BY <1>8
        <2>2. /\ IsSeq(out) /\ Len(out) = Len(inner) + 2 /\ out[1] = open /\ out[Len(inner) + 2] = close
              /\ SubSeq(out, 2, Len(out) - 1) = inner
              /\ \A k \in DOMAIN out : out[k] = open \/ out[k] = close \/ \E i \in 1..Len(inner) : out[k] = inner[i]
            <3>1. IsBracketed(<<open>> \o inner \o <<close>>, open, inner, close)
                BY ONLY <2>1, BracketsOff
            <3> QED  BY <3>1 DEF IsBracketed
        <2> QED  BY <2>2 DEF n
    <1> HIDE DEF out
    <1>10. ~In(out, White)
        BY <1>3, <1>8, <1>9 DEF In
    <1>11. IsSolid(out) /\ Trimmed(out) = out /\ Len(out) >= 2 /\ Last(out) = close
        <2>1. IsSolid(out)
            BY <1>3, <1>8, <1>9 DEF IsSolid
        <2> QED  BY <1>8, <1>9, <2>1, SolidTrimmed DEF Last
    <1>12. inner[1] # "quote" /\ before # <<>> /\ domain # <<>>
        BY <1>1, <1>7, <1>8 DEF NoTokenChars, IsToken, IsDomain
    <1> DEFINE literal == domain[1] = "[" /\ Last(domain) = "]"
               split == [before |-> before, after |-> domain]
    <1>13. ~In(before, NoTokenChars)
        BY DEF IsToken, IsMimeToken
    <1>14. ~literal => ~In(domain, NoTokenChars) /\ Lower(domain) = domain
        BY DEF IsDomain, IsMimeToken
    <1>15. AddrSpecDomain(inner) = IF literal THEN "literal" ELSE "name"
        <2>1. SplitOnce(inner, "@")[1].before = before /\ SplitOnce(inner, "@")[1].after = domain
            BY <1>5
        <2> QED  BY <1>13, <1>14, <2>1 DEF AddrSpecDomain
    <1>16. MessageIdFromStr(out) =
             IF SplitOnce(inner, "@") # <<>> /\ inner[1] # "quote" /\ SplitOnce(inner, "@")[1].before # <<>> /\ SplitOnce(inner, "@")[1].after # <<>>
             THEN IF AddrSpecDomain(inner) = "invalid" THEN <<>>
                  ELSE <<(<<"<">> \o SplitOnce(inner, "@")[1].before \o <<"@">>
                          \o (IF AddrSpecDomain(inner) = "literal" THEN SplitOnce(inner, "@")[1].after
                              ELSE Lower(SplitOnce(inner, "@")[1].after)) \o <<">">>)>>
             ELSE <<>>
        BY <1>9, <1>10, <1>11, Zenon DEF MessageIdFromStr, open, close
    <1>17. MessageIdFromStr(out) = <<(<<"<">> \o before \o <<"@">> \o domain \o <<">">>)>>
        <2>1. SplitOnce(inner, "@") # <<>> /\ SplitOnce(inner, "@")[1].before = before /\ SplitOnce(inner, "@")[1].after = domain
            BY <1>5
        <2>2. CASE literal
            <3>1. AddrSpecDomain(inner) = "literal" /\ AddrSpecDomain(inner) # "invalid"
                BY <1>15, <2>2
            <3> QED  BY <1>12, <1>16, <2>1, <3>1, Zenon
        <2>3. CASE ~literal
            <3>1. AddrSpecDomain(inner) = "name" /\ AddrSpecDomain(inner) # "invalid" /\ AddrSpecDomain(inner) # "literal"
                BY <1>15, <2>3
            <3>2. Lower(SplitOnce(inner, "@")[1].after) = domain
                BY <1>14, <2>1, <2>3
            <3> QED  BY <1>12, <1>16, <2>1, <3>1, <3>2, Zenon
        <2> QED  BY <2>2, <2>3
    <1>18. <<"<">> \o before \o <<"@">> \o domain \o <<">">> = out
        <2> DEFINE o == <<"<">>
                   c == <<">">>
                   l == before \o one
        <2>1. IsSeq(o) /\ IsSeq(one) /\ IsSeq(l) /\ IsSeq(before) /\ IsSeq(domain)
            BY <1>1, <1>2, <1>4, OneIsSeq DEF left
        <2>2. (o \o before) \o one = o \o l
            <3> HIDE DEF o, one
            <3>1. IsSeq(o) /\ IsSeq(before) /\ IsSeq(one)
                BY <2>1
            <3>2. (o \o before) \o one = o \o (before \o one)
                BY ONLY <3>1, ConcatAssoc
            <3> QED  BY <3>2
        <2> HIDE DEF l
        <2>3. (o \o l) \o domain = o \o (l \o domain)
            <3> HIDE DEF o
            <3>1. IsSeq(o) /\ IsSeq(l) /\ IsSeq(domain)
                BY <2>1
            <3> QED  BY ONLY <3>1, ConcatAssoc
        <2>4. ((o \o before) \o one) \o domain \o c = (o \o (l \o domain)) \o c
            BY <2>2, <2>3
        <2> QED  BY <2>4 DEF o, c, l, out, inner, left, one, open, close, at
    <1> QED  BY <1>17, <1>18 DEF out, inner, left, one, open, close, at, InBrackets

(* A message id is read back as it is, with its brackets and without what *)
(* was around them.                                                       *)
THEOREM MessageIdBack ==
    ASSUME NEW text, IsSeq(text), MessageIdFromStr(text) # <<>>
    PROVE  \E out : MessageIdFromStr(text) = <<out>> /\ IsSeq(out) /\ MessageIdFromStr(out) = <<out>>
    <1> DEFINE value == Trimmed(text)
               inner == SubSeq(value, 2, Len(value) - 1)
               split == SplitOnce(inner, "@")
               before == split[1].before
               after == split[1].after
               kind == AddrSpecDomain(inner)
               domain == IF kind = "literal" THEN after ELSE Lower(after)
    <1>1. IsSeq(value)
        BY TrimmedText
    <1>2. /\ Len(value) >= 2 /\ ~In(value, White)
          /\ split # <<>> /\ before # <<>> /\ after # <<>> /\ kind # "invalid"
          /\ MessageIdFromStr(text) = <<(<<"<">> \o before \o <<"@">> \o domain \o <<">">>)>>
        BY Zenon DEF MessageIdFromStr
    <1> HIDE DEF value
    <1>3. Len(value) \in Nat /\ DOMAIN value = 1..Len(value)
        BY <1>1, SeqFacts
    <1>4. IsSeq(inner) /\ ~In(inner, White)
        <2> DEFINE n == Len(value) - 1
        <2>1. n \in Nat /\ n <= Len(value)
            BY <1>2, <1>3
        <2> HIDE DEF n
        <2>2. /\ IsSeq(SubSeq(value, 2, n))
              /\ \A i \in 1..Len(SubSeq(value, 2, n)) : SubSeq(value, 2, n)[i] = value[2 + i - 1] /\ 2 + i - 1 \in DOMAIN value
            <3> DEFINE two == 2
                       cut == SubSeq(value, two, n)
            <3>1. IsSeq(value) /\ two \in Nat /\ n \in Nat /\ 1 <= two /\ n <= Len(value)
                BY <1>1, <2>1
            <3> HIDE DEF two
            <3>2. IsSeq(cut) /\ \A i \in 1..Len(cut) : cut[i] = value[two + i - 1] /\ two + i - 1 \in DOMAIN value
                BY ONLY <3>1, PartOfSeq
            <3> QED  BY <3>2 DEF two
        <2>3. IsSeq(inner) /\ \A i \in 1..Len(inner) : inner[i] = value[2 + i - 1] /\ 2 + i - 1 \in DOMAIN value
            BY <2>2 DEF n
        <2> HIDE DEF inner
        <2>4. DOMAIN inner = 1..Len(inner)
            BY <2>3, SeqFacts
        <2> QED  BY <1>2, <2>3, <2>4 DEF In
    <1> HIDE DEF inner
    <1>5. IsSeq(before) /\ IsSeq(after) /\ inner = before \o <<"@">> \o after
        BY <1>2, <1>4, SplitWhole
    <1>6. ~In(after, White)
        <2> DEFINE left == before \o <<"@">>
        <2>1. IsSeq(left)
            BY <1>5, OneIsSeq, Concat
        <2> HIDE DEF split, before, after, left
        <2>2. \A i \in 1..Len(after) : (left \o after)[Len(left) + i] = after[i]
            BY <1>5, <2>1, Concat
        <2>3. Len(left \o after) = Len(left) + Len(after) /\ IsSeq(left \o after) /\ Len(left) \in Nat /\ Len(after) \in Nat
            BY <1>5, <2>1, Concat, SeqFacts
        <2>4. inner = left \o after
            BY <1>5 DEF left
        <2>5. DOMAIN after = 1..Len(after) /\ DOMAIN inner = 1..(Len(left) + Len(after))
            BY <1>4, <1>5, <2>3, <2>4, SeqFacts
        <2>6. \A i \in 1..Len(after) : inner[Len(left) + i] = after[i] /\ Len(left) + i \in DOMAIN inner
            BY <2>2, <2>3, <2>4, <2>5
        <2> QED  BY <1>4, <2>5, <2>6 DEF In
    <1> DEFINE literal == after[1] = "[" /\ Last(after) = "]"
    <1>7. /\ ~In(before, NoTokenChars) /\ (kind = "literal" <=> literal)
          /\ ~literal => ~In(after, NoTokenChars)
        BY <1>2 DEF AddrSpecDomain
    <1> HIDE DEF kind
    <1>8. IsToken(before)
        BY <1>2, <1>5, <1>7 DEF IsToken, IsMimeToken
    <1> HIDE DEF before, after, split
    <1>9. IsDomain(domain)
        <2>1. CASE literal
            BY <1>2, <1>5, <1>6, <1>7, <2>1 DEF IsDomain
        <2>2. CASE ~literal
            <3>1. IsToken(after) /\ domain = Lower(after)
                BY <1>2, <1>5, <1>7, <2>2 DEF IsToken, IsMimeToken
            <3>2. IsToken(domain) /\ Lower(domain) = domain
                BY <3>1, LowerToken
            <3> HIDE DEF domain, literal
            <3>3. ~In(domain, White)
                BY <3>2 DEF IsToken, IsMimeToken, In, NoTokenChars
            <3> QED  BY <3>2, <3>3 DEF IsDomain, IsToken
        <2> QED  BY <2>1, <2>2
    <1> HIDE DEF domain
    <1> DEFINE out == InBrackets(before, domain)
    <1>10. MessageIdFromStr(out) = <<out>>
        BY <1>8, <1>9, MessageIdGives
    <1>11. <<"<">> \o before \o <<"@">> \o domain \o <<">">> = out /\ IsSeq(out)
        <2> DEFINE o == <<"<">>
                   at == <<"@">>
                   c == <<">">>
                   l == before \o at
                   d == l \o domain
        <2>1. IsSeq(o) /\ IsSeq(c) /\ IsSeq(at) /\ IsSeq(before) /\ IsSeq(domain)
            BY <1>5, <1>9, OneIsSeq DEF IsDomain
        <2> HIDE DEF o, c, at
        <2>2. (o \o before) \o at = o \o l /\ IsSeq(l)
            <3>1. IsSeq(o) /\ IsSeq(before) /\ IsSeq(at)
                BY <2>1
            <3>2. (o \o before) \o at = o \o (before \o at)
                BY ONLY <3>1, ConcatAssoc
            <3>3. IsSeq(before \o at)
                BY ONLY <3>1, Concat
            <3> QED  BY <3>2, <3>3
        <2> HIDE DEF l
        <2>3. (o \o l) \o domain = o \o d /\ IsSeq(d)
            <3>1. IsSeq(o) /\ IsSeq(l) /\ IsSeq(domain)
                BY <2>1, <2>2
            <3>2. (o \o l) \o domain = o \o (l \o domain)
                BY ONLY <3>1, ConcatAssoc
            <3>3. IsSeq(l \o domain)
                BY ONLY <3>1, Concat
            <3> QED  BY <3>2, <3>3
        <2> HIDE DEF d
        <2>4. ((o \o before) \o at) \o domain \o c = (o \o d) \o c
            BY <2>2, <2>3
        <2>5. IsSeq(o \o d)
            BY <2>1, <2>3, Concat
        <2>6. IsSeq((o \o d) \o c)
            <3> DEFINE od == o \o d
            <3>1. IsSeq(od)
                BY <2>5
            <3> HIDE DEF od
            <3>2. IsSeq(od \o c)
                BY <2>1, <3>1, Concat
            <3> QED  BY <3>2 DEF od
        <2> QED  BY <2>4, <2>6 DEF o, c, at, l, d, out, InBrackets
    <1> QED  BY <1>2, <1>10, <1>11

-------------------------------------------------------------------------------
(* Addresses: what every list of a message has, wherever it comes from. *)

IsBox(mailbox) == mailbox.kind = "mailbox"

Shaped(address) ==
    \/ address.kind = "mailbox"
    \/ address.kind = "group" /\ IsList(address.members, IsBox)

EmailsOf(address) == [j \in DOMAIN Mailboxes(address) |-> Mailboxes(address)[j].email]

(* The mailboxes of an address are mailboxes, a list of them.              *)
LEMMA BoxesOf ==
    ASSUME NEW address, Shaped(address)
    PROVE  /\ IsList(Mailboxes(address), IsBox)
           /\ IsSeq(EmailsOf(address)) /\ DOMAIN EmailsOf(address) = DOMAIN Mailboxes(address)
    <1>1. IsList(Mailboxes(address), IsBox)
        <2>1. CASE address.kind = "mailbox"
            <3>1. Mailboxes(address) = <<address>>
                BY <2>1 DEF Mailboxes
            <3>2. DOMAIN <<address>> = {1} /\ <<address>>[1] = address
                OBVIOUS
            <3> QED  BY <2>1, <3>1, <3>2, OneIsSeq DEF IsList, IsBox
        <2>2. CASE address.kind = "group" /\ IsList(address.members, IsBox)
            BY <2>2 DEF Mailboxes
        <2> QED  BY <2>1, <2>2 DEF Shaped
    <1>2. LET boxes == Mailboxes(address) IN Len(boxes) \in Nat /\ DOMAIN boxes = 1..Len(boxes)
        BY <1>1, SeqFacts DEF IsList
    <1>3. IsSeq(EmailsOf(address)) /\ DOMAIN EmailsOf(address) = DOMAIN Mailboxes(address)
        BY <1>2, MakeSeq DEF EmailsOf
    <1> QED  BY <1>1, <1>3

(* RecipientEmails flattens the addresses' emails.                         *)
LEMMA EmailsAre ==
    ASSUME NEW list
    PROVE  RecipientEmails(list) = FlattenSeq([i \in DOMAIN list |-> EmailsOf(list[i])])
    BY DEF RecipientEmails, EmailsOf

(* The emails of a list of addresses are sequences.                        *)
LEMMA EmailLists ==
    ASSUME NEW list, IsList(list, Shaped)
    PROVE  LET emails == [i \in DOMAIN list |-> EmailsOf(list[i])]
           IN  AllSeqs(emails) /\ Len(emails) = Len(list) /\ IsSeq(RecipientEmails(list))
    <1> DEFINE emails == [i \in DOMAIN list |-> EmailsOf(list[i])]
               S == UNION {{emails[i][j] : j \in DOMAIN emails[i]} : i \in DOMAIN emails}
    <1>1. Len(list) \in Nat /\ DOMAIN list = 1..Len(list)
        BY SeqFacts DEF IsList
    <1>2. IsSeq(emails) /\ Len(emails) = Len(list) /\ DOMAIN emails = DOMAIN list
        BY <1>1, MakeSeq
    <1>3. \A i \in DOMAIN emails : IsSeq(emails[i])
        BY <1>1, <1>2, BoxesOf DEF IsList
    <1>4. AllSeqs(emails)
        BY <1>2, <1>3 DEF AllSeqs
    <1>5. RecipientEmails(list) = FlattenSeq(emails)
        BY EmailsAre
    <1>6. \A i \in DOMAIN emails : \A j \in DOMAIN emails[i] : emails[i][j] \in S
        OBVIOUS
    <1> HIDE DEF emails, S
    <1>7. IsSeq(FlattenSeq(emails))
        BY <1>4, <1>6, Flattened
    <1> QED  BY <1>2, <1>4, <1>5, <1>7 DEF emails

(* The emails of two lists are the emails of the one and of the other. *)
LEMMA EmailsConcat ==
    ASSUME NEW a, NEW b, IsList(a, Shaped), IsList(b, Shaped)
    PROVE  IsList(a \o b, Shaped) /\ RecipientEmails(a \o b) = RecipientEmails(a) \o RecipientEmails(b)
    <1> DEFINE c == a \o b
               ea == [i \in DOMAIN a |-> EmailsOf(a[i])]
               eb == [i \in DOMAIN b |-> EmailsOf(b[i])]
               ec == [i \in DOMAIN c |-> EmailsOf(c[i])]
    <1>1. /\ Len(a) \in Nat /\ DOMAIN a = 1..Len(a) /\ Len(b) \in Nat /\ DOMAIN b = 1..Len(b) /\ IsSeq(a) /\ IsSeq(b)
        BY SeqFacts DEF IsList
    <1>2. /\ IsSeq(c) /\ Len(c) = Len(a) + Len(b)
          /\ (\A i \in 1..Len(a) : c[i] = a[i]) /\ (\A i \in 1..Len(b) : c[Len(a) + i] = b[i])
        BY <1>1, Concat
    <1> HIDE DEF c
    <1>3. DOMAIN c = 1..(Len(a) + Len(b))
        BY <1>2, SeqFacts
    <1>4. \A i \in 1..(Len(a) + Len(b)) : i \in 1..Len(a) \/ (i - Len(a) \in 1..Len(b) /\ i = Len(a) + (i - Len(a)))
        BY <1>1
    <1>5. \A i \in DOMAIN c : Shaped(c[i])
        <2> TAKE i \in DOMAIN c
        <2>1. CASE i \in 1..Len(a)
            BY <1>1, <1>2, <2>1 DEF IsList
        <2>2. CASE i - Len(a) \in 1..Len(b) /\ i = Len(a) + (i - Len(a))
            <3>1. c[i] = b[i - Len(a)]
                BY <1>2, <2>2
            <3> QED  BY <1>1, <2>2, <3>1 DEF IsList
        <2> QED  BY <1>3, <1>4, <2>1, <2>2
    <1>6. IsList(c, Shaped)
        BY <1>2, <1>5 DEF IsList
    <1>7. /\ AllSeqs(ea) /\ AllSeqs(eb) /\ AllSeqs(ec)
          /\ Len(ea) = Len(a) /\ Len(eb) = Len(b) /\ Len(ec) = Len(a) + Len(b)
        BY <1>2, <1>6, EmailLists
    <1>8. /\ RecipientEmails(a) = FlattenSeq(ea) /\ RecipientEmails(b) = FlattenSeq(eb)
          /\ RecipientEmails(c) = FlattenSeq(ec)
        BY EmailsAre
    <1>9. /\ \A i \in 1..Len(a) : ea[i] = EmailsOf(a[i])
          /\ \A i \in 1..Len(b) : eb[i] = EmailsOf(b[i])
          /\ \A i \in 1..(Len(a) + Len(b)) : ec[i] = EmailsOf(c[i])
        BY <1>1, <1>3
    <1> HIDE DEF ea, eb, ec
    <1>10. /\ IsSeq(ea \o eb) /\ Len(ea \o eb) = Len(a) + Len(b)
           /\ (\A i \in 1..Len(a) : (ea \o eb)[i] = ea[i]) /\ (\A i \in 1..Len(b) : (ea \o eb)[Len(a) + i] = eb[i])
        BY <1>7, Concat DEF AllSeqs
    <1>11. \A i \in 1..(Len(a) + Len(b)) : ec[i] = (ea \o eb)[i]
        <2> TAKE i \in 1..(Len(a) + Len(b))
        <2>1. CASE i \in 1..Len(a)
            BY <1>2, <1>9, <1>10, <2>1
        <2>2. CASE i - Len(a) \in 1..Len(b) /\ i = Len(a) + (i - Len(a))
            <3>1. (ea \o eb)[i] = eb[i - Len(a)] /\ c[i] = b[i - Len(a)]
                BY <1>2, <1>10, <2>2
            <3> QED  BY <1>9, <2>2, <3>1
        <2> QED  BY <1>4, <2>1, <2>2
    <1>12. ec = ea \o eb
        BY <1>7, <1>10, <1>11, SameSeq DEF AllSeqs
    <1>13. FlattenSeq(ea \o eb) = FlattenSeq(ea) \o FlattenSeq(eb)
        BY <1>7, FlattenConcat
    <1>14. RecipientEmails(c) = RecipientEmails(a) \o RecipientEmails(b)
        BY <1>8, <1>12, <1>13
    <1> QED  BY <1>6, <1>14 DEF c

(* Of a list of mailboxes: one email each. *)
LEMMA EmailsOfBoxes ==
    ASSUME NEW boxes, IsList(boxes, IsBox)
    PROVE  IsList(boxes, Shaped) /\ RecipientEmails(boxes) = [i \in DOMAIN boxes |-> boxes[i].email]
    <1> DEFINE emails == [i \in DOMAIN boxes |-> boxes[i].email]
    <1>1. IsList(boxes, Shaped)
        BY DEF IsList, IsBox, Shaped
    <1>2. \A i \in DOMAIN boxes : EmailsOf(boxes[i]) = <<boxes[i].email>>
        <2> TAKE i \in DOMAIN boxes
        <2>1. Mailboxes(boxes[i]) = <<boxes[i]>>
            BY DEF IsList, IsBox, Mailboxes
        <2>2. DOMAIN <<boxes[i]>> = 1..1 /\ <<boxes[i]>>[1] = boxes[i]
            OBVIOUS
        <2>3. EmailsOf(boxes[i]) = [j \in 1..1 |-> <<boxes[i]>>[j].email]
            BY <2>1, <2>2 DEF EmailsOf
        <2>4. [j \in 1..1 |-> <<boxes[i]>>[j].email] = <<boxes[i].email>>
            BY <2>2
        <2> QED  BY <2>3, <2>4
    <1>3. Len(boxes) \in Nat /\ DOMAIN boxes = 1..Len(boxes)
        BY SeqFacts DEF IsList
    <1>4. IsSeq(emails) /\ DOMAIN emails = DOMAIN boxes /\ \A i \in DOMAIN boxes : emails[i] = boxes[i].email
        BY <1>3, MakeSeq
    <1> HIDE DEF emails
    <1>5. FlattenSeq([i \in DOMAIN emails |-> <<emails[i]>>]) = emails
        BY <1>4, FlattenSingles
    <1>6. [i \in DOMAIN emails |-> <<emails[i]>>] = [i \in DOMAIN boxes |-> EmailsOf(boxes[i])]
        BY <1>2, <1>4
    <1>7. RecipientEmails(boxes) = emails
        BY <1>5, <1>6, EmailsAre
    <1> QED  BY <1>1, <1>7 DEF emails

(* ... nor does it when the lists of a message are put together. *)
LEMMA ThreeLists ==
    ASSUME NEW a, NEW b, NEW c, IsList(a, Shaped), IsList(b, Shaped), IsList(c, Shaped)
    PROVE  RecipientEmails(a \o b \o c) = RecipientEmails(a) \o RecipientEmails(b) \o RecipientEmails(c)
    <1>1. IsList(a \o b, Shaped) /\ RecipientEmails(a \o b) = RecipientEmails(a) \o RecipientEmails(b)
        BY EmailsConcat
    <1> DEFINE ab == a \o b
    <1> HIDE DEF ab
    <1>2. IsList(ab, Shaped)
        BY <1>1 DEF ab
    <1>3. RecipientEmails(ab \o c) = RecipientEmails(ab) \o RecipientEmails(c)
        BY <1>2, EmailsConcat
    <1> QED  BY <1>1, <1>3 DEF ab

-------------------------------------------------------------------------------
(* Objects: what is written under a key is found under it, once. *)

AnOption(option) == option = <<>> \/ option = <<option[1]>>

IsMembers(members) ==
    /\ IsSeq(members) /\ \A i \in DOMAIN members : AnOption(members[i][2])
    /\ \A i, j \in DOMAIN members : members[i][1] = members[j][1] => i = j

IsField(field, member) == member[2] # <<>> /\ field = <<member[1], member[2][1]>>

(* The fields written for the first members: one for each that is there. *)
FieldsOf(fields, members, n) ==
    /\ IsSeq(fields)
    /\ \A i \in DOMAIN fields : \E m \in 1..n : IsField(fields[i], members[m])
    /\ \A m \in 1..n : members[m][2] # <<>> =>
         \E i \in DOMAIN fields : /\ IsField(fields[i], members[m])
                                  /\ \A j \in DOMAIN fields : fields[j][1] = members[m][1] => j = i

(* One more member that is there is one more field.                        *)
LEMMA OneMore ==
    ASSUME NEW members, IsMembers(members), NEW n \in 1..Len(members), NEW fields, FieldsOf(fields, members, n - 1),
           members[n][2] # <<>>
    PROVE  FieldsOf(fields \o <<(<<members[n][1], members[n][2][1]>>)>>, members, n)
    <1> DEFINE field == <<members[n][1], members[n][2][1]>>
               one == <<field>>
               more == fields \o one
    <1>1. Len(members) \in Nat /\ DOMAIN members = 1..Len(members)
        BY SeqFacts DEF IsMembers
    <1>2. IsSeq(one) /\ Len(one) = 1 /\ one[1] = field
        BY OneIsSeq
    <1>3. IsSeq(fields) /\ Len(fields) \in Nat /\ DOMAIN fields = 1..Len(fields)
        BY SeqFacts DEF FieldsOf
    <1>4. field[1] = members[n][1] /\ IsField(field, members[n])
        BY DEF IsField
    <1> HIDE DEF field, one
    <1>5. /\ IsSeq(more) /\ Len(more) = Len(fields) + Len(one)
          /\ (\A i \in 1..Len(fields) : more[i] = fields[i])
          /\ \A i \in 1..Len(one) : more[Len(fields) + i] = one[i]
        <2>1. IsSeq(fields) /\ IsSeq(one)
            BY <1>2, <1>3
        <2> QED  BY ONLY <2>1, Concat
    <1> HIDE DEF more
    <1>6. /\ Len(more) = Len(fields) + 1 /\ DOMAIN more = 1..(Len(fields) + 1) /\ more[Len(fields) + 1] = field
        BY <1>2, <1>3, <1>5, SeqFacts
    <1>7. \A i \in 1..(Len(fields) + 1) : i \in 1..Len(fields) \/ i = Len(fields) + 1
        BY <1>3
    <1>8. \A m \in 1..n : m \in 1..(n - 1) \/ m = n
        BY <1>1
    <1>9. 1..(n - 1) \subseteq 1..n /\ n \in 1..n /\ 1..n \subseteq DOMAIN members
          /\ \A m \in 1..(n - 1) : m # n
        BY <1>1
    <1>10. \A i \in DOMAIN more : \E m \in 1..n : IsField(more[i], members[m])
        <2> TAKE i \in DOMAIN more
        <2>1. CASE i \in 1..Len(fields)
            <3>1. PICK m \in 1..(n - 1) : IsField(fields[i], members[m])
                BY <1>3, <2>1 DEF FieldsOf
            <3> QED  BY <1>5, <1>9, <2>1, <3>1
        <2>2. CASE i = Len(fields) + 1
            BY <1>4, <1>6, <1>9, <2>2
        <2> QED  BY <1>6, <1>7, <2>1, <2>2
    <1>11. ASSUME NEW m \in 1..n, members[m][2] # <<>>
           PROVE  \E i \in DOMAIN more : /\ IsField(more[i], members[m])
                                         /\ \A j \in DOMAIN more : more[j][1] = members[m][1] => j = i
        <2>1. CASE m \in 1..(n - 1)
            <3>1. PICK i \in DOMAIN fields : /\ IsField(fields[i], members[m])
                                             /\ \A j \in DOMAIN fields : fields[j][1] = members[m][1] => j = i
                BY <1>11, <2>1 DEF FieldsOf
            <3>2. i \in DOMAIN more /\ more[i] = fields[i]
                BY <1>3, <1>5, <1>6
            <3>3. ASSUME NEW j \in DOMAIN more, more[j][1] = members[m][1] PROVE j = i
                <4>1. CASE j \in 1..Len(fields)
                    BY <1>3, <1>5, <3>1, <3>3, <4>1
                <4>2. CASE j = Len(fields) + 1
                    <5>1. members[n][1] = members[m][1]
                        BY <1>4, <1>6, <3>3, <4>2
                    <5> QED  BY <1>9, <2>1, <5>1 DEF IsMembers
                <4> QED  BY <1>6, <1>7, <4>1, <4>2
            <3> QED  BY <3>1, <3>2, <3>3
        <2>2. CASE m = n
            <3>1. ASSUME NEW j \in DOMAIN more, more[j][1] = members[m][1] PROVE j = Len(fields) + 1
                <4>1. CASE j \in 1..Len(fields)
                    <5>1. PICK k \in 1..(n - 1) : IsField(fields[j], members[k])
                        BY <1>3, <4>1 DEF FieldsOf
                    <5>2. members[k][1] = members[n][1]
                        <6>1. fields[j][1] = members[k][1]
                            BY <5>1 DEF IsField
                        <6> QED  BY <1>5, <2>2, <3>1, <4>1, <6>1
                    <5> QED  BY <1>9, <5>2 DEF IsMembers
                <4> QED  BY <1>6, <1>7, <4>1
            <3>2. Len(fields) + 1 \in DOMAIN more
                BY <1>3, <1>6
            <3> QED  BY <1>4, <1>6, <2>2, <3>1, <3>2
        <2> QED  BY <1>8, <2>1, <2>2
    <1>12. FieldsOf(more, members, n)
        BY <1>5, <1>10, <1>11 DEF FieldsOf
    <1> QED  BY <1>12 DEF more, one, field

(* An object has a field for every member that is there, in their order.   *)
LEMMA ObjectFields ==
    ASSUME NEW members, IsMembers(members)
    PROVE  FieldsOf(Object(members)[2], members, Len(members)) /\ Is("obj", Object(members))
    <1> DEFINE ss == [i \in DOMAIN members |-> Map(members[i][2], LAMBDA value : <<members[i][1], value>>)]
               Good == {n \in 0..Len(members) : FieldsOf(FlattenSeq(Firsts(ss, n)), members, n)}
    <1>1. Len(members) \in Nat /\ DOMAIN members = 1..Len(members)
        BY SeqFacts DEF IsMembers
    <1>2. IsSeq(ss) /\ Len(ss) = Len(members) /\ DOMAIN ss = 1..Len(members)
        BY <1>1, MakeSeq
    <1>3. ASSUME NEW i \in 1..Len(members)
          PROVE  /\ members[i][2] = <<>> => ss[i] = <<>>
                 /\ members[i][2] # <<>> => ss[i] = <<(<<members[i][1], members[i][2][1]>>)>>
        <2> DEFINE option == members[i][2]
                   part == ss[i]
        <2>1. part = [k \in DOMAIN option |-> <<members[i][1], option[k]>>] /\ AnOption(option)
            BY <1>1 DEF Map, IsMembers
        <2> HIDE DEF option, part
        <2>2. CASE option = <<>>
            <3>1. part = [k \in 1..0 |-> part[k]]
                BY <2>1, <2>2
            <3>2. part = <<>>
                BY <3>1, MakeSeq, EmptyIsSeq
            <3> QED  BY <2>2, <3>2 DEF option, part
        <2>3. CASE option # <<>>
            <3>1. option = <<option[1]>>
                BY <2>1, <2>3 DEF AnOption
            <3>2. DOMAIN option = 1..1
                BY <3>1
            <3>3. IsSeq(part) /\ Len(part) = 1 /\ part[1] = <<members[i][1], option[1]>>
                <4>1. part = [k \in 1..1 |-> part[k]] /\ part[1] = <<members[i][1], option[1]>>
                    BY <2>1, <3>2
                <4> QED  BY <4>1, MakeSeq
            <3>4. part = <<(<<members[i][1], option[1]>>)>>
                BY <3>3, OneItem
            <3> QED  BY <2>3, <3>4 DEF option, part
        <2> QED  BY <2>2, <2>3
    <1>4. AllSeqs(ss)
        <2>1. \A i \in 1..Len(members) : IsSeq(ss[i])
            BY <1>3, EmptyIsSeq, OneIsSeq
        <2> QED  BY <1>2, <2>1 DEF AllSeqs
    <1> HIDE DEF ss
    <1>5. 0 \in Good
        <2>1. FlattenSeq(Firsts(ss, 0)) = <<>> /\ 0 \in 0..Len(members)
            <3>1. FlattenSeq(Firsts(ss, 0)) = <<>>
                BY <1>4, FlattenSteps
            <3> QED  BY <1>1, <3>1
        <2>2. FieldsOf(<<>>, members, 0)
            BY EmptyIsSeq DEF FieldsOf
        <2> QED  BY <2>1, <2>2
    <1>6. \A n \in 1..Len(members) : n - 1 \in Good => n \in Good
        <2> TAKE n \in 1..Len(members)
        <2> HAVE n - 1 \in Good
        <2> DEFINE before == FlattenSeq(Firsts(ss, n - 1))
                   part == ss[n]
        <2>1. FlattenSeq(Firsts(ss, n)) = before \o part
            <3>1. FlattenSeq(Firsts(ss, n)) = FlattenSeq(Firsts(ss, n - 1)) \o ss[n]
                BY <1>2, <1>4, FlattenSteps
            <3> QED  BY <3>1
        <2>2. FieldsOf(before, members, n - 1) /\ n \in 0..Len(members)
            BY <1>1
        <2>3. /\ members[n][2] = <<>> => part = <<>>
              /\ members[n][2] # <<>> => part = <<(<<members[n][1], members[n][2][1]>>)>>
            BY <1>3
        <2> HIDE DEF before, part
        <2>4. CASE members[n][2] = <<>>
            <3>1. before \o part = before
                BY <2>2, <2>3, <2>4, ConcatEmpty DEF FieldsOf
            <3>2. FieldsOf(before, members, n)
                <4>1. \A m \in 1..n : m \in 1..(n - 1) \/ m = n
                    BY <1>1
                <4>2. 1..(n - 1) \subseteq 1..n
                    BY <1>1
                <4> QED  BY <2>2, <2>4, <4>1, <4>2 DEF FieldsOf
            <3> QED  BY <2>1, <2>2, <3>1, <3>2
        <2>5. CASE members[n][2] # <<>>
            <3>1. FieldsOf(before \o <<(<<members[n][1], members[n][2][1]>>)>>, members, n)
                BY <2>2, <2>5, OneMore
            <3> QED  BY <2>1, <2>2, <2>3, <2>5, <3>1
        <2> QED  BY <2>4, <2>5
    <1>7. Len(members) \in Good
        <2> HIDE DEF Good
        <2>1. 0..Len(members) \subseteq Good
            BY <1>1, <1>5, <1>6, BoundedInduction
        <2> QED  BY <1>1, <2>1
    <1>8. FieldsOf(FlattenSeq(ss), members, Len(members))
        BY <1>2, <1>4, <1>7, FlattenSteps
    <1>9. Object(members) = Obj(FlattenSeq(ss))
        BY DEF Object, ss
    <1>10. Object(members)[2] = FlattenSeq(ss) /\ Is("obj", Object(members))
        BY <1>9 DEF Obj, Is
    <1> QED  BY <1>8, <1>10

(* The member of a key, for its readers. *)
LEMMA ObjectMember ==
    ASSUME NEW members, IsMembers(members), NEW k \in DOMAIN members
    PROVE  /\ members[k][2] = <<>> => Found(Object(members), members[k][1]) = {}
           /\ members[k][2] # <<>> => /\ Found(Object(members), members[k][1]) # {}
                                      /\ Once(Object(members), members[k][1])
                                      /\ Value(Object(members), members[k][1]) = members[k][2][1]
    <1> DEFINE o == Object(members)
               key == members[k][1]
               fields == o[2]
    <1>1. FieldsOf(fields, members, Len(members)) /\ k \in 1..Len(members) /\ DOMAIN members = 1..Len(members)
        BY ObjectFields, SeqFacts DEF IsMembers
    <1>2. Found(o, key) = {i \in DOMAIN fields : fields[i][1] = key}
        BY DEF Found
    <1> HIDE DEF o, key
    <1>3. CASE members[k][2] = <<>>
        <2>1. ASSUME NEW i \in DOMAIN fields, fields[i][1] = key PROVE FALSE
            <3>1. PICK m \in 1..Len(members) : IsField(fields[i], members[m])
                BY <1>1 DEF FieldsOf
            <3>2. members[m][1] = members[k][1]
                BY <2>1, <3>1 DEF IsField, key
            <3>3. m = k
                BY <1>1, <3>2 DEF IsMembers
            <3> QED  BY <1>3, <3>1, <3>3 DEF IsField
        <2> QED  BY <1>2, <1>3, <2>1 DEF o, key
    <1>4. CASE members[k][2] # <<>>
        <2>1. PICK i \in DOMAIN fields : /\ IsField(fields[i], members[k])
                                         /\ \A j \in DOMAIN fields : fields[j][1] = key => j = i
            BY <1>1, <1>4 DEF FieldsOf, key
        <2>2. fields[i][1] = key /\ fields[i][2] = members[k][2][1]
            BY <2>1 DEF IsField, key
        <2>3. Found(o, key) = {i}
            BY <1>2, <2>1, <2>2
        <2>4. Once(o, key) /\ Found(o, key) # {}
            BY <2>1, <2>3 DEF Once
        <2>5. (CHOOSE j \in Found(o, key) : TRUE) = i
            BY <2>3
        <2>6. Value(o, key) = members[k][2][1]
            BY <2>2, <2>5 DEF Value
        <2> QED  BY <1>4, <2>4, <2>6 DEF o, key
    <1> QED  BY <1>3, <1>4

(* No field has another key. *)
LEMMA NoMember ==
    ASSUME NEW members, IsMembers(members), NEW key, \A k \in DOMAIN members : members[k][1] # key
    PROVE  Found(Object(members), key) = {} /\ Object(members) = Obj(Object(members)[2])
    <1> DEFINE o == Object(members)
               fields == o[2]
    <1>1. FieldsOf(fields, members, Len(members)) /\ DOMAIN members = 1..Len(members)
        BY ObjectFields, SeqFacts DEF IsMembers
    <1>2. \A i \in DOMAIN fields : fields[i][1] # key
        <2> SUFFICES ASSUME NEW i \in DOMAIN fields
                     PROVE  fields[i][1] # key
            OBVIOUS
        <2> HIDE DEF fields
        <2>1. PICK m \in 1..Len(members) : IsField(fields[i], members[m])
            BY <1>1 DEF FieldsOf
        <2>2. fields[i][1] = members[m][1]
            BY <2>1 DEF IsField
        <2> QED  BY <1>1, <2>2
    <1>3. Found(o, key) = {}
        <2> HIDE DEF o
        <2> QED  BY <1>2 DEF Found
    <1>4. o = Obj(o[2])
        BY DEF Object, Obj
    <1> QED  BY <1>3, <1>4

-------------------------------------------------------------------------------
(* Values that come back from what is written of them. *)

(* A character that is written as a piece is read from it. *)
LEMMA CharBack == \A c : AsChar(Char(c)) = c
    <1> TAKE c
    <1>1. DOMAIN Lookalikes = {"look", "empty", "qlook", "raw"}
        BY DEF Lookalikes
    <1>2. CASE c \notin DOMAIN Lookalikes
        BY <1>2 DEF Char, AsChar
    <1>3. CASE c \in DOMAIN Lookalikes
        <2>1. Char(c) = Lookalikes[c] /\ Lookalikes[c][1] # "char"
            BY <1>1, <1>3 DEF Char, Lookalikes
        <2>2. \A d, e \in DOMAIN Lookalikes : Lookalikes[d] = Lookalikes[e] => d = e
            <3>1. <<"a">> # <<>> /\ <<"a">>[1] = "a" /\ <<"nonascii">>[1] = "nonascii"
                OBVIOUS
            <3> QED  BY <1>1, <3>1 DEF Lookalikes
        <2>3. (CHOOSE d \in DOMAIN Lookalikes : Lookalikes[d] = Char(c)) = c
            BY <1>3, <2>1, <2>2
        <2> QED  BY <2>1, <2>3 DEF AsChar
    <1> QED  BY <1>2, <1>3

(* A text that is written is read back.                                    *)
LEMMA TextBack ==
    ASSUME NEW text, IsSeq(text)
    PROVE  AsText(Plain(text)) = text /\ IsSeq(Plain(text)) /\ ReadText(Text(text)) = <<text>> /\ Text(text) # Null
    <1>1. Len(text) \in Nat /\ DOMAIN text = 1..Len(text) /\ text = [i \in DOMAIN text |-> text[i]]
        BY SeqFacts
    <1>2. AsText(Plain(text)) = text
        BY <1>1, CharBack DEF AsText, Plain
    <1>3. IsSeq(Plain(text))
        BY <1>1, MakeSeq DEF Plain
    <1>4. Text(text)[1] = "str" /\ Text(text)[2] = Plain(text) /\ Null[1] = "null"
        BY DEF Text, Str, Null
    <1> QED  BY <1>2, <1>3, <1>4 DEF ReadText, Is

(* So is a word, if it is no lookalike of another piece.                   *)
LEMMA WordBack ==
    /\ \A word : Word(word) # Null /\ Is("str", Word(word))
    /\ \A word : IsName(word) => ReadWord(Word(word)) = <<word>>
    /\ \A word : word \notin DOMAIN Lookalikes => WordOf(Word(word)) = word
    <1>1. \A word : Word(word)[1] = "str" /\ Word(word)[2] = <<Char(word)>> /\ Null[1] = "null"
        BY DEF Word, Str, Null
    <1>2. \A word : IsName(word) => ReadWord(Word(word)) = <<word>>
        BY DEF ReadWord, IsName
    <1>3. ASSUME NEW word, word \notin DOMAIN Lookalikes PROVE WordOf(Word(word)) = word
        <2>1. Char(word) = <<"char", <<word>>>> /\ AsChar(Char(word)) = word
            BY <1>3, CharBack DEF Char
        <2>2. Len(<<Char(word)>>) = 1 /\ <<Char(word)>>[1] = Char(word) /\ Char(word)[1] = "char"
            BY <2>1
        <2> QED  BY <1>1, <2>1, <2>2 DEF WordOf, Is
    <1> QED  BY <1>1, <1>2, <1>3 DEF Is

(* An e-mail address that is written is read back.                         *)
LEMMA EmailBack ==
    ASSUME NEW email, IsEmail(email)
    PROVE  ReadEmail(WriteEmail(email)) = <<email>> /\ WriteEmail(email) # Null
    <1>1. WriteEmail(email)[1] = "str" /\ WriteEmail(email)[2] = <<Addr(email)>> /\ Null[1] = "null"
        BY DEF WriteEmail, Str, Null
    <1>2. EmailFromStr(<<Addr(email)>>).error = "none" /\ EmailFromStr(<<Addr(email)>>).item = email
        BY DEF IsEmail, Ok
    <1> QED  BY <1>1, <1>2 DEF ReadEmail, AsOption, Is

(* Options. *)
LEMMA Wrapped == \A x : [i \in DOMAIN <<x>> |-> <<(<<x>>[i])>>] = <<(<<x>>)>>
    OBVIOUS

(* Map keeps options: empty ones empty, others not.                        *)
LEMMA OptionImage ==
    ASSUME NEW option, AnOption(option), NEW image, image = [i \in DOMAIN option |-> image[i]]
    PROVE  AnOption(image) /\ (option = <<>> <=> image = <<>>) /\ (option # <<>> => image = <<image[1]>> /\ 1 \in DOMAIN option)
    <1>1. CASE option = <<>>
        <2>1. image = [k \in 1..0 |-> image[k]]
            BY <1>1
        <2>2. image = <<>>
            BY <2>1, MakeSeq, EmptyIsSeq
        <2> QED  BY <1>1, <2>2 DEF AnOption
    <1>2. CASE option # <<>>
        <2>1. option = <<option[1]>>
            BY <1>2 DEF AnOption
        <2>2. DOMAIN option = 1..1
            BY <2>1
        <2>3. image = <<image[1]>>
            BY <2>2, MakeSeq, OneItem
        <2>4. image # <<>>
            BY <2>3
        <2> QED  BY <1>2, <2>2, <2>3, <2>4 DEF AnOption
    <1> QED  BY <1>1, <1>2

(* What a reader finds in an object for a member. *)
IsObject(object) == Is("obj", object) /\ IsSeq(object[2])

Has(object, key, option) ==
    /\ option = <<>> => Found(object, key) = {}
    /\ option # <<>> => Found(object, key) # {} /\ Once(object, key) /\ Value(object, key) = option[1]

(* Objects of one, two, three and five members, from ObjectMember.         *)
LEMMA ObjectOf1 ==
    ASSUME NEW k1, NEW o1,
           AnOption(o1)
    PROVE  LET object == Object(<<(<<k1, o1>>)>>)
           IN  IsObject(object) /\ Has(object, k1, o1)
    <1> DEFINE members == <<(<<k1, o1>>)>>
               object == Object(members)
    <1>1. members = [i \in 1..1 |-> members[i]] /\ 1 \in Nat /\ Len(members) = 1
        OBVIOUS
    <1>2. IsSeq(members) /\ DOMAIN members = 1..1
        BY <1>1, MakeSeq
    <1>3. members[1] = <<k1, o1>>
        OBVIOUS
    <1> HIDE DEF members
    <1>4. IsMembers(members)
        <2>1. \A i \in 1..1 : i = 1
            OBVIOUS
        <2>2. \A i \in DOMAIN members : AnOption(members[i][2])
            BY <1>2, <1>3, <2>1
        <2>3. \A i, j \in DOMAIN members : members[i][1] = members[j][1] => i = j
            BY <1>2, <1>3, <2>1
        <2> QED  BY <1>2, <2>2, <2>3 DEF IsMembers
    <1>5. \A k \in 1..1 : Has(object, members[k][1], members[k][2])
        BY <1>2, <1>4, ObjectMember DEF Has
    <1>6. IsObject(object)
        BY <1>4, ObjectFields DEF FieldsOf, IsObject
    <1> HIDE DEF object
    <1>7. Has(object, k1, o1)
        BY <1>3, <1>5
    <1> QED  BY <1>6, <1>7 DEF object, members

(* ... of two members ... *)
LEMMA ObjectOf2 ==
    ASSUME NEW k1, NEW o1, NEW k2, NEW o2,
           AnOption(o1), AnOption(o2),
           k1 # k2
    PROVE  LET object == Object(<<(<<k1, o1>>), <<k2, o2>>>>)
           IN  IsObject(object) /\ Has(object, k1, o1) /\ Has(object, k2, o2)
    <1> DEFINE members == <<(<<k1, o1>>), <<k2, o2>>>>
               object == Object(members)
    <1>1. members = [i \in 1..2 |-> members[i]] /\ 2 \in Nat /\ Len(members) = 2
        OBVIOUS
    <1>2. IsSeq(members) /\ DOMAIN members = 1..2
        BY <1>1, MakeSeq
    <1>3. members[1] = <<k1, o1>> /\ members[2] = <<k2, o2>>
        OBVIOUS
    <1> HIDE DEF members
    <1>4. IsMembers(members)
        <2>1. \A i \in 1..2 : i = 1 \/ i = 2
            OBVIOUS
        <2>2. \A i \in DOMAIN members : AnOption(members[i][2])
            BY <1>2, <1>3, <2>1
        <2>3. \A i, j \in DOMAIN members : members[i][1] = members[j][1] => i = j
            BY <1>2, <1>3, <2>1
        <2> QED  BY <1>2, <2>2, <2>3 DEF IsMembers
    <1>5. \A k \in 1..2 : Has(object, members[k][1], members[k][2])
        BY <1>2, <1>4, ObjectMember DEF Has
    <1>6. IsObject(object)
        BY <1>4, ObjectFields DEF FieldsOf, IsObject
    <1> HIDE DEF object
    <1>7. Has(object, k1, o1) /\ Has(object, k2, o2)
        BY <1>3, <1>5
    <1> QED  BY <1>6, <1>7 DEF object, members

(* ... of three ... *)
LEMMA ObjectOf3 ==
    ASSUME NEW k1, NEW o1, NEW k2, NEW o2, NEW k3, NEW o3,
           AnOption(o1), AnOption(o2), AnOption(o3),
           k1 # k2 /\ k1 # k3 /\ k2 # k3
    PROVE  LET object == Object(<<(<<k1, o1>>), <<k2, o2>>, <<k3, o3>>>>)
           IN  IsObject(object) /\ Has(object, k1, o1) /\ Has(object, k2, o2) /\ Has(object, k3, o3)
    <1> DEFINE members == <<(<<k1, o1>>), <<k2, o2>>, <<k3, o3>>>>
               object == Object(members)
    <1>1. members = [i \in 1..3 |-> members[i]] /\ 3 \in Nat /\ Len(members) = 3
        OBVIOUS
    <1>2. IsSeq(members) /\ DOMAIN members = 1..3
        BY <1>1, MakeSeq
    <1>3. members[1] = <<k1, o1>> /\ members[2] = <<k2, o2>> /\ members[3] = <<k3, o3>>
        OBVIOUS
    <1> HIDE DEF members
    <1>4. IsMembers(members)
        <2>1. \A i \in 1..3 : i = 1 \/ i = 2 \/ i = 3
            OBVIOUS
        <2>2. \A i \in DOMAIN members : AnOption(members[i][2])
            BY <1>2, <1>3, <2>1
        <2>3. \A i, j \in DOMAIN members : members[i][1] = members[j][1] => i = j
            BY <1>2, <1>3, <2>1
        <2> QED  BY <1>2, <2>2, <2>3 DEF IsMembers
    <1>5. \A k \in 1..3 : Has(object, members[k][1], members[k][2])
        BY <1>2, <1>4, ObjectMember DEF Has
    <1>6. IsObject(object)
        BY <1>4, ObjectFields DEF FieldsOf, IsObject
    <1> HIDE DEF object
    <1>7. Has(object, k1, o1) /\ Has(object, k2, o2) /\ Has(object, k3, o3)
        BY <1>3, <1>5
    <1> QED  BY <1>6, <1>7 DEF object, members

(* ... and of five. *)
LEMMA ObjectOf5 ==
    ASSUME NEW k1, NEW o1, NEW k2, NEW o2, NEW k3, NEW o3, NEW k4, NEW o4, NEW k5, NEW o5,
           AnOption(o1), AnOption(o2), AnOption(o3), AnOption(o4), AnOption(o5),
           k1 # k2 /\ k1 # k3 /\ k1 # k4 /\ k1 # k5 /\ k2 # k3 /\ k2 # k4 /\ k2 # k5 /\ k3 # k4 /\ k3 # k5 /\ k4 # k5
    PROVE  LET object == Object(<<(<<k1, o1>>), <<k2, o2>>, <<k3, o3>>, <<k4, o4>>, <<k5, o5>>>>)
           IN  /\ IsObject(object) /\ object = Obj(object[2])
               /\ \A key : key \notin {k1, k2, k3, k4, k5} => Found(object, key) = {}
               /\ Has(object, k1, o1) /\ Has(object, k2, o2) /\ Has(object, k3, o3) /\ Has(object, k4, o4) /\ Has(object, k5, o5)
    <1> DEFINE members == <<(<<k1, o1>>), <<k2, o2>>, <<k3, o3>>, <<k4, o4>>, <<k5, o5>>>>
               object == Object(members)
    <1>1. members = [i \in 1..5 |-> members[i]] /\ 5 \in Nat /\ Len(members) = 5
        OBVIOUS
    <1>2. IsSeq(members) /\ DOMAIN members = 1..5
        BY <1>1, MakeSeq
    <1>3. members[1] = <<k1, o1>> /\ members[2] = <<k2, o2>> /\ members[3] = <<k3, o3>> /\ members[4] = <<k4, o4>> /\ members[5] = <<k5, o5>>
        OBVIOUS
    <1> HIDE DEF members
    <1>4. IsMembers(members)
        <2>1. \A i \in 1..5 : i = 1 \/ i = 2 \/ i = 3 \/ i = 4 \/ i = 5
            OBVIOUS
        <2>2. \A i \in DOMAIN members : AnOption(members[i][2])
            BY <1>2, <1>3, <2>1
        <2>3. \A i, j \in DOMAIN members : members[i][1] = members[j][1] => i = j
            BY <1>2, <1>3, <2>1
        <2> QED  BY <1>2, <2>2, <2>3 DEF IsMembers
    <1>5. \A k \in 1..5 : Has(object, members[k][1], members[k][2])
        BY <1>2, <1>4, ObjectMember DEF Has
    <1>6. IsObject(object)
        BY <1>4, ObjectFields DEF FieldsOf, IsObject
    <1>8. object = Obj(object[2]) /\ \A key : key \notin {k1, k2, k3, k4, k5} => Found(object, key) = {}
        <2>1. ASSUME NEW key, key \notin {k1, k2, k3, k4, k5} PROVE \A k \in DOMAIN members : members[k][1] # key
            <3>1. \A i \in 1..5 : i = 1 \/ i = 2 \/ i = 3 \/ i = 4 \/ i = 5
                OBVIOUS
            <3> QED  BY <1>2, <1>3, <2>1, <3>1
        <2>2. object = Obj(object[2])
            BY DEF Object, Obj
        <2> QED  BY <1>4, <2>1, <2>2, NoMember
    <1> HIDE DEF object
    <1>7. Has(object, k1, o1) /\ Has(object, k2, o2) /\ Has(object, k3, o3) /\ Has(object, k4, o4) /\ Has(object, k5, o5)
        BY <1>3, <1>5
    <1> QED  BY <1>6, <1>7, <1>8 DEF object, members

(* Options that are mapped, one reader and writer after the other. *)
Image(option, image) == AnOption(image) /\ (option = <<>> <=> image = <<>>)

(* Map of the writers of this module: the image has the written item.      *)
LEMMA Images ==
    ASSUME NEW option, AnOption(option)
    PROVE  /\ (option # <<>> => 1 \in DOMAIN option)
           /\ Image(option, Map(option, Text)) /\ (option # <<>> => Map(option, Text)[1] = Text(option[1]))
           /\ Image(option, Map(option, Word)) /\ (option # <<>> => Map(option, Word)[1] = Word(option[1]))
           /\ Image(option, Map(option, WriteEmail)) /\ (option # <<>> => Map(option, WriteEmail)[1] = WriteEmail(option[1]))
           /\ Image(option, Map(option, WriteMailboxJson)) /\ (option # <<>> => Map(option, WriteMailboxJson)[1] = WriteMailboxJson(option[1]))
           /\ Image(option, Map(option, WriteDate)) /\ (option # <<>> => Map(option, WriteDate)[1] = WriteDate(option[1]))
           /\ Image(option, Map(option, WriteEnvelope)) /\ (option # <<>> => Map(option, WriteEnvelope)[1] = WriteEnvelope(option[1]))
    <1>1. option # <<>> => 1 \in DOMAIN option
        BY OptionImage
    <1>2. Image(option, Map(option, Text)) /\ (option # <<>> => Map(option, Text)[1] = Text(option[1]))
        <2> DEFINE image == Map(option, Text)
        <2>1. image = [i \in DOMAIN option |-> image[i]] /\ (option # <<>> => image[1] = Text(option[1]))
            BY <1>1 DEF Map
        <2> HIDE DEF image
        <2>2. Image(option, image)
            BY <2>1, OptionImage DEF Image
        <2> QED  BY <2>1, <2>2 DEF image
    <1>3. Image(option, Map(option, Word)) /\ (option # <<>> => Map(option, Word)[1] = Word(option[1]))
        <2> DEFINE image == Map(option, Word)
        <2>1. image = [i \in DOMAIN option |-> image[i]] /\ (option # <<>> => image[1] = Word(option[1]))
            BY <1>1 DEF Map
        <2> HIDE DEF image
        <2>2. Image(option, image)
            BY <2>1, OptionImage DEF Image
        <2> QED  BY <2>1, <2>2 DEF image
    <1>4. Image(option, Map(option, WriteEmail)) /\ (option # <<>> => Map(option, WriteEmail)[1] = WriteEmail(option[1]))
        <2> DEFINE image == Map(option, WriteEmail)
        <2>1. image = [i \in DOMAIN option |-> image[i]] /\ (option # <<>> => image[1] = WriteEmail(option[1]))
            BY <1>1 DEF Map
        <2> HIDE DEF image
        <2>2. Image(option, image)
            BY <2>1, OptionImage DEF Image
        <2> QED  BY <2>1, <2>2 DEF image
    <1>5. Image(option, Map(option, WriteMailboxJson)) /\ (option # <<>> => Map(option, WriteMailboxJson)[1] = WriteMailboxJson(option[1]))
        <2> DEFINE image == Map(option, WriteMailboxJson)
        <2>1. image = [i \in DOMAIN option |-> image[i]] /\ (option # <<>> => image[1] = WriteMailboxJson(option[1]))
            BY <1>1 DEF Map
        <2> HIDE DEF image
        <2>2. Image(option, image)
            BY <2>1, OptionImage DEF Image
        <2> QED  BY <2>1, <2>2 DEF image
    <1>6. Image(option, Map(option, WriteDate)) /\ (option # <<>> => Map(option, WriteDate)[1] = WriteDate(option[1]))
        <2> DEFINE image == Map(option, WriteDate)
        <2>1. image = [i \in DOMAIN option |-> image[i]] /\ (option # <<>> => image[1] = WriteDate(option[1]))
            BY <1>1 DEF Map
        <2> HIDE DEF image
        <2>2. Image(option, image)
            BY <2>1, OptionImage DEF Image
        <2> QED  BY <2>1, <2>2 DEF image
    <1>7. Image(option, Map(option, WriteEnvelope)) /\ (option # <<>> => Map(option, WriteEnvelope)[1] = WriteEnvelope(option[1]))
        <2> DEFINE image == Map(option, WriteEnvelope)
        <2>1. image = [i \in DOMAIN option |-> image[i]] /\ (option # <<>> => image[1] = WriteEnvelope(option[1]))
            BY <1>1 DEF Map
        <2> HIDE DEF image
        <2>2. Image(option, image)
            BY <2>1, OptionImage DEF Image
        <2> QED  BY <2>1, <2>2 DEF image
    <1> QED  BY <1>1, <1>2, <1>3, <1>4, <1>5, <1>6, <1>7

(* A mailbox that is written is read back.                                 *)
LEMMA MailboxBack ==
    ASSUME NEW mailbox, IsMailbox(mailbox)
    PROVE  /\ ReadMailbox(WriteMailboxJson(mailbox)) = <<mailbox>> /\ WriteMailboxJson(mailbox) # Null
           /\ ReadTypedMailbox(WriteMailboxJson(mailbox)) = <<mailbox>> /\ Tag(WriteMailboxJson(mailbox)) = "mailbox"
           /\ IsObject(WriteMailboxJson(mailbox))
    <1> DEFINE name == Map(mailbox.name, Text)
               o == WriteMailboxJson(mailbox)
    <1>1. AnOption(mailbox.name) /\ (mailbox.name # <<>> => IsSeq(mailbox.name[1]) /\ mailbox.name = <<mailbox.name[1]>>)
        BY DEF IsMailbox, IsOption, AnOption
    <1>2. Image(mailbox.name, name) /\ (mailbox.name # <<>> => name[1] = Text(mailbox.name[1]))
        BY <1>1, Images
    <1> HIDE DEF name
    <1>3. /\ IsObject(o) /\ Has(o, "type", <<Word("mailbox")>>) /\ Has(o, "name", name)
          /\ Has(o, "email", <<WriteEmail(mailbox.email)>>)
        <2>1. AnOption(<<Word("mailbox")>>) /\ AnOption(<<WriteEmail(mailbox.email)>>) /\ AnOption(name)
            BY <1>2 DEF AnOption, Image
        <2>2. o = Object(<<(<<"type", <<Word("mailbox")>>>>), <<"name", name>>, <<"email", <<WriteEmail(mailbox.email)>>>>>>)
            BY DEF WriteMailboxJson, Always, name
        <2> HIDE DEF o
        <2> QED  BY <2>1, <2>2, ObjectOf3
    <1> HIDE DEF o
    <1>4. Tag(o) = "mailbox"
        <2>1. WordOf(Word("mailbox")) = "mailbox"
            BY WordBack DEF Lookalikes
        <2> QED  BY <1>3, <2>1 DEF Tag, Has, IsObject
    <1>5. Optional(o, "name", ReadText) = <<mailbox.name>>
        <2>1. CASE mailbox.name = <<>>
            BY <1>2, <1>3, <2>1 DEF Optional, OrDefault, Has, Image
        <2>2. CASE mailbox.name # <<>>
            <3>1. ReadText(name[1]) = mailbox.name /\ name[1] # Null
                BY <1>1, <1>2, <2>2, TextBack
            <3>2. Found(o, "name") # {} /\ Once(o, "name") /\ Value(o, "name") = name[1]
                BY <1>2, <1>3, <2>2 DEF Has, Image
            <3> QED  BY <1>1, <2>2, <3>1, <3>2, Wrapped DEF Optional, OrDefault, Required, Map
        <2> QED  BY <2>1, <2>2
    <1>6. Required(o, "email", ReadEmail) = <<mailbox.email>>
        BY <1>3, EmailBack DEF Required, Has, IsMailbox
    <1>7. ReadTypedMailbox(o) = <<mailbox>>
        <2> DEFINE raw == [name |-> Optional(o, "name", ReadText), email |-> Required(o, "email", ReadEmail)]
        <2>1. All(raw) = <<[name |-> mailbox.name, email |-> mailbox.email]>>
            BY <1>5, <1>6 DEF All
        <2>2. mailbox = Mailbox(mailbox.name, mailbox.email)
            BY DEF IsMailbox
        <2> QED  BY <1>4, <2>1, <2>2 DEF ReadTypedMailbox, Map
    <1>8. ReadMailbox(o) = <<mailbox>>
        BY <1>3, <1>7 DEF ReadMailbox, StringOr, IsObject, Is
    <1>9. o # Null
        BY <1>3 DEF IsObject, Is, Null
    <1> QED  BY <1>3, <1>4, <1>7, <1>8, <1>9 DEF o

(* Lists. *)
LEMMA AllOf ==
    ASSUME NEW items, IsSeq(items)
    PROVE  All([i \in DOMAIN items |-> <<items[i]>>]) = <<items>>
    <1> DEFINE fields == [i \in DOMAIN items |-> <<items[i]>>]
    <1>1. DOMAIN fields = DOMAIN items /\ \A i \in DOMAIN items : fields[i] # <<>> /\ fields[i][1] = items[i]
        OBVIOUS
    <1>2. items = [i \in DOMAIN items |-> items[i]]
        BY SeqFacts
    <1> HIDE DEF fields
    <1>3. [f \in DOMAIN fields |-> fields[f][1]] = items
        BY <1>1, <1>2
    <1>4. All(fields) = <<items>>
        BY <1>1, <1>3 DEF All
    <1> QED  BY <1>4 DEF fields

(* The members of a group. *)
LEMMA MailboxesBack ==
    ASSUME NEW items, IsList(items, IsMailbox)
    PROVE  LET option == IfMany(items, WriteMailboxJson)
           IN  /\ AnOption(option) /\ (items = <<>> <=> option = <<>>)
               /\ items # <<>> => ReadMany(option[1], ReadMailbox) = <<items>>
               /\ ReadMany(Many(items, WriteMailboxJson), ReadMailbox) = <<items>>
    <1> DEFINE many == Many(items, WriteMailboxJson)
               list == many[2]
    <1>1. many[1] = "arr" /\ list = [i \in DOMAIN items |-> WriteMailboxJson(items[i])]
        BY DEF Many, Arr
    <1>2. \A i \in DOMAIN items : ReadMailbox(WriteMailboxJson(items[i])) = <<items[i]>>
        BY MailboxBack DEF IsList
    <1> HIDE DEF many
    <1>3. [i \in DOMAIN list |-> ReadMailbox(list[i])] = [i \in DOMAIN items |-> <<items[i]>>]
        BY <1>1, <1>2
    <1>4. All([i \in DOMAIN items |-> <<items[i]>>]) = <<items>>
        BY AllOf DEF IsList
    <1>5. ReadMany(many, ReadMailbox) = <<items>>
        BY <1>1, <1>3, <1>4 DEF ReadMany, Is
    <1>6. IfMany(items, WriteMailboxJson) = IF items = <<>> THEN <<>> ELSE <<many>>
        BY DEF IfMany, many
    <1>7. many = Many(items, WriteMailboxJson)
        BY DEF many
    <1> QED  BY <1>5, <1>6, <1>7 DEF AnOption

(* A group that is written is read back.                                   *)
LEMMA GroupBack ==
    ASSUME NEW group, IsGroup(group)
    PROVE  ReadTypedGroup(WriteGroupJson(group)) = <<group>> /\ Tag(WriteGroupJson(group)) = "group"
           /\ IsObject(WriteGroupJson(group))
    <1> DEFINE members == IfMany(group.members, WriteMailboxJson)
               o == WriteGroupJson(group)
    <1>1. /\ AnOption(members) /\ (group.members = <<>> <=> members = <<>>)
          /\ group.members # <<>> => ReadMany(members[1], ReadMailbox) = <<group.members>>
        BY MailboxesBack DEF IsGroup
    <1> HIDE DEF members
    <1>2. /\ IsObject(o) /\ Has(o, "type", <<Word("group")>>) /\ Has(o, "name", <<Text(group.name)>>)
          /\ Has(o, "members", members)
        <2>1. AnOption(<<Word("group")>>) /\ AnOption(<<Text(group.name)>>)
            BY DEF AnOption
        <2>2. o = Object(<<(<<"type", <<Word("group")>>>>), <<"name", <<Text(group.name)>>>>, <<"members", members>>>>)
            BY DEF WriteGroupJson, Always, members
        <2> HIDE DEF o
        <2> QED  BY <1>1, <2>1, <2>2, ObjectOf3
    <1> HIDE DEF o
    <1>3. Tag(o) = "group"
        <2>1. WordOf(Word("group")) = "group"
            BY WordBack DEF Lookalikes
        <2> QED  BY <1>2, <2>1 DEF Tag, Has, IsObject
    <1>4. Required(o, "name", ReadText) = <<group.name>>
        BY <1>2, TextBack DEF Required, Has, IsGroup
    <1>5. OptionalMany(o, "members", ReadMailbox) = <<group.members>>
        BY <1>1, <1>2 DEF OptionalMany, OrDefault, Required, Has
    <1>6. ReadTypedGroup(o) = <<group>>
        <2> DEFINE raw == [name |-> Required(o, "name", ReadText), members |-> OptionalMany(o, "members", ReadMailbox)]
        <2>1. All(raw) = <<[name |-> group.name, members |-> group.members]>>
            BY <1>4, <1>5 DEF All
        <2>2. group = Group(group.name, group.members)
            BY DEF IsGroup
        <2> QED  BY <1>3, <2>1, <2>2 DEF ReadTypedGroup, Map
    <1> QED  BY <1>2, <1>3, <1>6 DEF o

(* An address that is written is read back, as whichever it is.            *)
LEMMA AddressBack ==
    ASSUME NEW address, IsAddress(address)
    PROVE  ReadAddress(WriteAddressJson(address)) = <<address>>
    <1> DEFINE o == WriteAddressJson(address)
    <1>1. CASE address.kind = "mailbox" /\ IsMailbox(address)
        <2>1. o = WriteMailboxJson(address)
            BY <1>1 DEF WriteAddressJson
        <2>2. ReadTypedMailbox(o) = <<address>> /\ Tag(o) = "mailbox" /\ IsObject(o)
            BY <1>1, <2>1, MailboxBack
        <2> HIDE DEF o
        <2>3. ReadAddress(o) = <<address>>
            BY <2>2 DEF ReadAddress, StringOr, IsObject, Is, ReadTypedAddress
        <2> QED  BY <2>3 DEF o
    <1>2. CASE address.kind = "group" /\ IsGroup(address)
        <2>1. o = WriteGroupJson(address)
            BY <1>2 DEF WriteAddressJson
        <2>2. ReadTypedGroup(o) = <<address>> /\ Tag(o) = "group" /\ IsObject(o)
            BY <1>2, <2>1, GroupBack
        <2> HIDE DEF o
        <2>3. ReadAddress(o) = <<address>>
            BY <2>2 DEF ReadAddress, StringOr, IsObject, Is, ReadTypedAddress
        <2> QED  BY <2>3 DEF o
    <1> QED  BY <1>1, <1>2 DEF IsAddress

(* The lists of a message. *)
LEMMA AddressesBack ==
    ASSUME NEW items, IsList(items, IsAddress)
    PROVE  LET option == IfMany(items, WriteAddressJson)
           IN  /\ AnOption(option) /\ (items = <<>> <=> option = <<>>)
               /\ items # <<>> => ReadMany(option[1], ReadAddress) = <<items>>
               /\ ReadMany(Many(items, WriteAddressJson), ReadAddress) = <<items>>
    <1> DEFINE many == Many(items, WriteAddressJson)
               list == many[2]
    <1>1. many[1] = "arr" /\ list = [i \in DOMAIN items |-> WriteAddressJson(items[i])]
        BY DEF Many, Arr
    <1>2. \A i \in DOMAIN items : ReadAddress(WriteAddressJson(items[i])) = <<items[i]>>
        BY AddressBack DEF IsList
    <1> HIDE DEF many
    <1>3. [i \in DOMAIN list |-> ReadAddress(list[i])] = [i \in DOMAIN items |-> <<items[i]>>]
        BY <1>1, <1>2
    <1>4. All([i \in DOMAIN items |-> <<items[i]>>]) = <<items>>
        BY AllOf DEF IsList
    <1>5. ReadMany(many, ReadAddress) = <<items>>
        BY <1>1, <1>3, <1>4 DEF ReadMany, Is
    <1>6. IfMany(items, WriteAddressJson) = IF items = <<>> THEN <<>> ELSE <<many>>
        BY DEF IfMany, many
    <1>7. many = Many(items, WriteAddressJson)
        BY DEF many
    <1> QED  BY <1>5, <1>6, <1>7 DEF AnOption

(* Recipients of an envelope or a report. *)
LEMMA EmailsBack ==
    ASSUME NEW items, IsList(items, IsEmail)
    PROVE  LET option == IfMany(items, WriteEmail)
           IN  /\ AnOption(option) /\ (items = <<>> <=> option = <<>>)
               /\ items # <<>> => ReadMany(option[1], ReadEmail) = <<items>>
               /\ ReadMany(Many(items, WriteEmail), ReadEmail) = <<items>>
    <1> DEFINE many == Many(items, WriteEmail)
               list == many[2]
    <1>1. many[1] = "arr" /\ list = [i \in DOMAIN items |-> WriteEmail(items[i])]
        BY DEF Many, Arr
    <1>2. \A i \in DOMAIN items : ReadEmail(WriteEmail(items[i])) = <<items[i]>>
        BY EmailBack DEF IsList
    <1> HIDE DEF many
    <1>3. [i \in DOMAIN list |-> ReadEmail(list[i])] = [i \in DOMAIN items |-> <<items[i]>>]
        BY <1>1, <1>2
    <1>4. All([i \in DOMAIN items |-> <<items[i]>>]) = <<items>>
        BY AllOf DEF IsList
    <1>5. ReadMany(many, ReadEmail) = <<items>>
        BY <1>1, <1>3, <1>4 DEF ReadMany, Is
    <1>6. IfMany(items, WriteEmail) = IF items = <<>> THEN <<>> ELSE <<many>>
        BY DEF IfMany, many
    <1>7. many = Many(items, WriteEmail)
        BY DEF many
    <1> QED  BY <1>5, <1>6, <1>7 DEF AnOption

(* An envelope that is written is read back.                               *)
LEMMA EnvelopeBack ==
    ASSUME NEW envelope, IsEnvelope(envelope)
    PROVE  /\ ReadEnvelope(WriteEnvelope(envelope)) = <<envelope>> /\ WriteEnvelope(envelope) # Null
           /\ IsObject(WriteEnvelope(envelope))
    <1> DEFINE from == Map(envelope.mailFrom, WriteEmail)
               to == IfMany(envelope.rcptTo, WriteEmail)
               o == WriteEnvelope(envelope)
    <1>1. AnOption(envelope.mailFrom) /\ (envelope.mailFrom # <<>> => IsEmail(envelope.mailFrom[1]) /\ envelope.mailFrom = <<envelope.mailFrom[1]>>)
        BY DEF IsEnvelope, IsOption, AnOption
    <1>2. Image(envelope.mailFrom, from) /\ (envelope.mailFrom # <<>> => from[1] = WriteEmail(envelope.mailFrom[1]))
        BY <1>1, Images
    <1>3. /\ AnOption(to) /\ (envelope.rcptTo = <<>> <=> to = <<>>)
          /\ envelope.rcptTo # <<>> => ReadMany(to[1], ReadEmail) = <<envelope.rcptTo>>
        BY EmailsBack DEF IsEnvelope
    <1> HIDE DEF from, to
    <1>4. IsObject(o) /\ Has(o, "mail_from", from) /\ Has(o, "rcpt_to", to)
        <2>1. o = Object(<<(<<"mail_from", from>>), <<"rcpt_to", to>>>>)
            BY DEF WriteEnvelope, from, to
        <2> HIDE DEF o
        <2> QED  BY <1>2, <1>3, <2>1, ObjectOf2 DEF Image
    <1> HIDE DEF o
    <1>5. Optional(o, "mail_from", ReadEmail) = <<envelope.mailFrom>>
        <2>1. CASE envelope.mailFrom = <<>>
            BY <1>2, <1>4, <2>1 DEF Optional, OrDefault, Has, Image
        <2>2. CASE envelope.mailFrom # <<>>
            <3>1. ReadEmail(from[1]) = envelope.mailFrom /\ from[1] # Null
                BY <1>1, <1>2, <2>2, EmailBack
            <3>2. Found(o, "mail_from") # {} /\ Once(o, "mail_from") /\ Value(o, "mail_from") = from[1]
                BY <1>2, <1>4, <2>2 DEF Has, Image
            <3> QED  BY <1>1, <2>2, <3>1, <3>2, Wrapped DEF Optional, OrDefault, Required, Map
        <2> QED  BY <2>1, <2>2
    <1>6. OptionalMany(o, "rcpt_to", ReadEmail) = <<envelope.rcptTo>>
        BY <1>3, <1>4 DEF OptionalMany, OrDefault, Required, Has
    <1>7. ReadEnvelope(o) = <<envelope>>
        <2> DEFINE raw == [mailFrom |-> Optional(o, "mail_from", ReadEmail), rcptTo |-> OptionalMany(o, "rcpt_to", ReadEmail)]
        <2>1. All(raw) = <<[mailFrom |-> envelope.mailFrom, rcptTo |-> envelope.rcptTo]>>
            BY <1>5, <1>6 DEF All
        <2> QED  BY <1>4, <2>1 DEF ReadEnvelope, IsObject, IsEnvelope
    <1>8. o # Null
        BY <1>4 DEF IsObject, Is, Null
    <1> QED  BY <1>4, <1>7, <1>8 DEF o

(* A header that is written is read back.                                  *)
LEMMA HeaderBack ==
    ASSUME NEW custom, IsHeader(custom)
    PROVE  ReadHeader(WriteHeader(custom)) = <<custom>>
    <1> DEFINE o == WriteHeader(custom)
    <1>1. IsObject(o) /\ Has(o, "name", <<Word(custom.name)>>) /\ Has(o, "value", <<Str(custom.value)>>)
        <2>1. AnOption(<<Word(custom.name)>>) /\ AnOption(<<Str(custom.value)>>)
            BY DEF AnOption
        <2>2. o = Object(<<(<<"name", <<Word(custom.name)>>>>), <<"value", <<Str(custom.value)>>>>>>)
            BY DEF WriteHeader, Always
        <2> HIDE DEF o
        <2> QED  BY <2>1, <2>2, ObjectOf2
    <1> HIDE DEF o
    <1>2. Required(o, "name", ReadWord) = <<custom.name>>
        BY <1>1, WordBack DEF Required, Has, IsHeader
    <1>3. Required(o, "value", ReadString) = <<custom.value>>
        <2>1. ReadString(Str(custom.value)) = <<custom.value>>
            BY DEF ReadString, Str, Is
        <2> QED  BY <1>1, <2>1 DEF Required, Has
    <1>4. ReadHeader(o) = <<custom>>
        <2> DEFINE raw == [name |-> Required(o, "name", ReadWord), value |-> Required(o, "value", ReadString)]
        <2>1. All(raw) = <<[name |-> custom.name, value |-> custom.value]>>
            BY <1>2, <1>3 DEF All
        <2>2. All(raw) = <<custom>> /\ ValidHeader(custom) = "none"
            BY <2>1 DEF IsHeader
        <2> QED  BY <1>1, <2>2 DEF ReadHeader, IsObject
    <1> QED  BY <1>4 DEF o

(* Custom headers. *)
LEMMA HeadersBack ==
    ASSUME NEW items, IsList(items, IsHeader)
    PROVE  LET option == IfMany(items, WriteHeader)
           IN  /\ AnOption(option) /\ (items = <<>> <=> option = <<>>)
               /\ items # <<>> => ReadMany(option[1], ReadHeader) = <<items>>
               /\ ReadMany(Many(items, WriteHeader), ReadHeader) = <<items>>
    <1> DEFINE many == Many(items, WriteHeader)
               list == many[2]
    <1>1. many[1] = "arr" /\ list = [i \in DOMAIN items |-> WriteHeader(items[i])]
        BY DEF Many, Arr
    <1>2. \A i \in DOMAIN items : ReadHeader(WriteHeader(items[i])) = <<items[i]>>
        BY HeaderBack DEF IsList
    <1> HIDE DEF many
    <1>3. [i \in DOMAIN list |-> ReadHeader(list[i])] = [i \in DOMAIN items |-> <<items[i]>>]
        BY <1>1, <1>2
    <1>4. All([i \in DOMAIN items |-> <<items[i]>>]) = <<items>>
        BY AllOf DEF IsList
    <1>5. ReadMany(many, ReadHeader) = <<items>>
        BY <1>1, <1>3, <1>4 DEF ReadMany, Is
    <1>6. IfMany(items, WriteHeader) = IF items = <<>> THEN <<>> ELSE <<many>>
        BY DEF IfMany, many
    <1>7. many = Many(items, WriteHeader)
        BY DEF many
    <1> QED  BY <1>5, <1>6, <1>7 DEF AnOption

(* The content of an attachment comes back, its bytes or its reference.    *)
LEMMA AttachmentBodyBack ==
    ASSUME NEW a, a.reference \in BOOLEAN
    PROVE  ReadAttachmentBody(WriteAttachmentBody(a)) = <<[reference |-> a.reference, content |-> a.content]>>
    <1> DEFINE o == WriteAttachmentBody(a)
    <1>1. CASE a.reference
        <2>1. IsObject(o) /\ Has(o, "type", <<Word("reference")>>) /\ Has(o, "reference", <<Str(a.content)>>)
            <3>1. AnOption(<<Word("reference")>>) /\ AnOption(<<Str(a.content)>>)
                BY DEF AnOption
            <3>2. o = Object(<<(<<"type", <<Word("reference")>>>>), <<"reference", <<Str(a.content)>>>>>>)
                BY <1>1 DEF WriteAttachmentBody, Always
            <3> HIDE DEF o
            <3> QED  BY <3>1, <3>2, ObjectOf2
        <2> HIDE DEF o
        <2>2. Tag(o) = "reference"
            <3>1. WordOf(Word("reference")) = "reference"
                BY WordBack DEF Lookalikes
            <3> QED  BY <2>1, <3>1 DEF Tag, Has, IsObject
        <2>3. ReadString(Str(a.content)) = <<a.content>>
            BY DEF ReadString, Str, Is
        <2>4. Required(o, "reference", ReadString) = <<a.content>>
            BY <2>1, <2>3 DEF Required, Has
        <2>5. ReadAttachmentBody(o) = <<[reference |-> TRUE, content |-> a.content]>>
            <3> DEFINE read == [i \in 1..1 |-> [reference |-> TRUE, content |-> <<a.content>>[i]]]
            <3>1. ReadAttachmentBody(o) = Map(<<a.content>>, LAMBDA r : [reference |-> TRUE, content |-> r])
                BY <2>2, <2>4 DEF ReadAttachmentBody
            <3>2. ReadAttachmentBody(o) = read
                BY <3>1 DEF Map
            <3>3. read[1] = [reference |-> TRUE, content |-> a.content] /\ read = [i \in 1..1 |-> read[i]]
                <4>1. <<a.content>>[1] = a.content /\ 1 \in 1..1
                    OBVIOUS
                <4> QED  BY <4>1, Zenon
            <3> HIDE DEF read
            <3>4. read = <<read[1]>>
                BY <3>3, MakeSeq, OneItem
            <3> QED  BY <3>2, <3>3, <3>4
        <2> QED  BY <1>1, <2>5 DEF o
    <1>2. CASE ~a.reference
        <2>1. IsObject(o) /\ Has(o, "type", <<Word("bytes")>>) /\ Has(o, "bytes", <<WriteBytes(a.content)>>)
            <3>1. AnOption(<<Word("bytes")>>) /\ AnOption(<<WriteBytes(a.content)>>)
                BY DEF AnOption
            <3>2. o = Object(<<(<<"type", <<Word("bytes")>>>>), <<"bytes", <<WriteBytes(a.content)>>>>>>)
                BY <1>2 DEF WriteAttachmentBody, Always
            <3> HIDE DEF o
            <3> QED  BY <3>1, <3>2, ObjectOf2
        <2> HIDE DEF o
        <2>2. Tag(o) = "bytes"
            <3>1. WordOf(Word("bytes")) = "bytes"
                BY WordBack DEF Lookalikes
            <3> QED  BY <2>1, <3>1 DEF Tag, Has, IsObject
        <2>3. ReadBytes(WriteBytes(a.content)) = <<a.content>>
            <3> DEFINE piece == <<"b64", a.content>>
                       pieces == <<piece>>
            <3>1. Len(pieces) = 1 /\ pieces[1] = piece /\ piece[1] = "b64" /\ piece[2] = a.content
                OBVIOUS
            <3>2. WriteBytes(a.content)[1] = "str" /\ WriteBytes(a.content)[2] = pieces
                BY DEF WriteBytes, Str
            <3> HIDE DEF piece, pieces
            <3> QED  BY <3>1, <3>2 DEF ReadBytes, Is
        <2>4. Required(o, "bytes", ReadBytes) = <<a.content>>
            BY <2>1, <2>3 DEF Required, Has
        <2>5. ReadAttachmentBody(o) = <<[reference |-> FALSE, content |-> a.content]>>
            <3> DEFINE read == [i \in 1..1 |-> [reference |-> FALSE, content |-> <<a.content>>[i]]]
            <3>1. ReadAttachmentBody(o) = Map(<<a.content>>, LAMBDA b : [reference |-> FALSE, content |-> b])
                BY <2>2, <2>4 DEF ReadAttachmentBody
            <3>2. ReadAttachmentBody(o) = read
                BY <3>1 DEF Map
            <3>3. read[1] = [reference |-> FALSE, content |-> a.content] /\ read = [i \in 1..1 |-> read[i]]
                <4>1. <<a.content>>[1] = a.content /\ 1 \in 1..1
                    OBVIOUS
                <4> QED  BY <4>1, Zenon
            <3> HIDE DEF read
            <3>4. read = <<read[1]>>
                BY <3>3, MakeSeq, OneItem
            <3> QED  BY <3>2, <3>3, <3>4
        <2> QED  BY <1>2, <2>5 DEF o
    <1> QED  BY <1>1, <1>2

(* An attachment that is written is read back; its disposition is a tag.   *)
LEMMA AttachmentBack ==
    ASSUME NEW a, IsAttachment(a)
    PROVE  ReadAttachment(WriteAttachment(a)) = <<a>>
    <1> DEFINE filename == Map(Named(a.filename), Word)
               cid == Map(Named(a.cid), Word)
               kind == Word(IF a.inline THEN "inline" ELSE "attachment")
               content == WriteAttachmentBody(a)
               o == WriteAttachment(a)
    <1>1. AnOption(Named(a.filename)) /\ AnOption(Named(a.cid))
        BY DEF Named, AnOption
    <1>2. /\ Image(Named(a.filename), filename) /\ (Named(a.filename) # <<>> => filename[1] = Word(Named(a.filename)[1]))
          /\ Image(Named(a.cid), cid) /\ (Named(a.cid) # <<>> => cid[1] = Word(Named(a.cid)[1]))
        BY <1>1, Images
    <1>3. ReadAttachmentBody(content) = <<[reference |-> a.reference, content |-> a.content]>>
        BY AttachmentBodyBack DEF IsAttachment
    <1>4. ReadDisposition(kind) = <<a.inline>>
        <2>1. WordOf(Word("inline")) = "inline" /\ WordOf(Word("attachment")) = "attachment"
            BY WordBack DEF Lookalikes
        <2>2. \A word : Word(word)[1] = "str"
            BY DEF Word, Str
        <2> QED  BY <2>1, <2>2 DEF ReadDisposition, Is, IsAttachment
    <1> HIDE DEF filename, cid, kind, content
    <1>5. /\ IsObject(o) /\ o = Obj(o[2]) /\ Found(o, "inline") = {}
          /\ Has(o, "filename", filename) /\ Has(o, "content_type", <<Text(a.type)>>) /\ Has(o, "content_id", cid)
          /\ Has(o, "disposition", <<kind>>) /\ Has(o, "body", <<content>>)
        <2>1. o = Object(<<(<<"filename", filename>>), <<"content_type", <<Text(a.type)>>>>, <<"content_id", cid>>,
                           <<"disposition", <<kind>>>>, <<"body", <<content>>>>>>)
            BY DEF WriteAttachment, Always, filename, cid, kind, content
        <2>2. AnOption(<<Text(a.type)>>) /\ AnOption(<<kind>>) /\ AnOption(<<content>>)
            BY DEF AnOption
        <2> HIDE DEF o
        <2> QED  BY <1>2, <2>1, <2>2, ObjectOf5 DEF Image
    <1> HIDE DEF o
    <1>6. Obj([i \in DOMAIN o[2] |-> IF o[2][i][1] = "inline" THEN <<"disposition", o[2][i][2]>> ELSE o[2][i]]) = o
        <2>1. \A i \in DOMAIN o[2] : o[2][i][1] # "inline"
            BY <1>5 DEF Found
        <2>2. o[2] = [i \in DOMAIN o[2] |-> o[2][i]]
            BY <1>5, SeqFacts DEF IsObject
        <2>3. [i \in DOMAIN o[2] |-> IF o[2][i][1] = "inline" THEN <<"disposition", o[2][i][2]>> ELSE o[2][i]]
               = [i \in DOMAIN o[2] |-> o[2][i]]
            BY <2>1
        <2> QED  BY <1>5, <2>2, <2>3
    <1>7. Optional(o, "filename", ReadWord) = <<Named(a.filename)>>
        <2>1. CASE Named(a.filename) = <<>>
            BY <1>2, <1>5, <2>1 DEF Optional, OrDefault, Has, Image
        <2>2. CASE Named(a.filename) # <<>>
            <3>1. Named(a.filename) = <<a.filename>>
                BY <2>2 DEF Named
            <3>2. ReadWord(filename[1]) = <<a.filename>> /\ filename[1] # Null
                BY <1>2, <2>2, <3>1, WordBack DEF IsAttachment
            <3>3. Found(o, "filename") # {} /\ Once(o, "filename") /\ Value(o, "filename") = filename[1]
                BY <1>2, <1>5, <2>2 DEF Has, Image
            <3> QED  BY <3>1, <3>2, <3>3, Wrapped DEF Optional, OrDefault, Required, Map
        <2> QED  BY <2>1, <2>2
    <1>8. Optional(o, "content_id", ReadWord) = <<Named(a.cid)>>
        <2>1. CASE Named(a.cid) = <<>>
            BY <1>2, <1>5, <2>1 DEF Optional, OrDefault, Has, Image
        <2>2. CASE Named(a.cid) # <<>>
            <3>1. Named(a.cid) = <<a.cid>>
                BY <2>2 DEF Named
            <3>2. ReadWord(cid[1]) = <<a.cid>> /\ cid[1] # Null
                BY <1>2, <2>2, <3>1, WordBack DEF IsAttachment
            <3>3. Found(o, "content_id") # {} /\ Once(o, "content_id") /\ Value(o, "content_id") = cid[1]
                BY <1>2, <1>5, <2>2 DEF Has, Image
            <3> QED  BY <3>1, <3>2, <3>3, Wrapped DEF Optional, OrDefault, Required, Map
        <2> QED  BY <2>1, <2>2
    <1>9. Required(o, "content_type", LAMBDA v : Parsed(v, ContentTypeFromStr)) = <<a.type>>
        <2>1. Parsed(Text(a.type), ContentTypeFromStr) = <<a.type>>
            <3>1. AsText(Plain(a.type)) = a.type /\ ContentTypeFromStr(a.type) = <<a.type>>
                BY TextBack DEF IsAttachment, IsParsed
            <3>2. Text(a.type)[1] = "str" /\ Text(a.type)[2] = Plain(a.type)
                BY DEF Text, Str
            <3> QED  BY <3>1, <3>2 DEF Parsed, Is
        <2> QED  BY <1>5, <2>1 DEF Required, Has
    <1>10. OrDefault(o, "disposition", FALSE, ReadDisposition) = <<a.inline>>
        BY <1>4, <1>5 DEF OrDefault, Required, Has
    <1>11. Required(o, "body", ReadAttachmentBody) = <<[reference |-> a.reference, content |-> a.content]>>
        BY <1>3, <1>5 DEF Required, Has
    <1>12. ReadAttachment(o) = <<a>>
        <2> DEFINE content2 == [reference |-> a.reference, content |-> a.content]
                   raw == [filename |-> Optional(o, "filename", ReadWord),
                           type |-> Required(o, "content_type", LAMBDA v : Parsed(v, ContentTypeFromStr)),
                           cid |-> Optional(o, "content_id", ReadWord),
                           inline |-> OrDefault(o, "disposition", FALSE, ReadDisposition),
                           body |-> Required(o, "body", ReadAttachmentBody)]
                   word(option) == IF option = <<>> THEN "none" ELSE option[1]
        <2>1. All(raw) = <<[filename |-> Named(a.filename), type |-> a.type, cid |-> Named(a.cid), inline |-> a.inline,
                            body |-> content2]>>
            <3>1. /\ raw.filename = <<Named(a.filename)>> /\ raw.type = <<a.type>> /\ raw.cid = <<Named(a.cid)>>
                  /\ raw.inline = <<a.inline>> /\ raw.body = <<content2>>
                BY <1>7, <1>8, <1>9, <1>10, <1>11
            <3>2. DOMAIN raw = {"filename", "type", "cid", "inline", "body"}
                OBVIOUS
            <3> HIDE DEF raw, content2
            <3> QED  BY <3>1, <3>2 DEF All
        <2>2. word(Named(a.filename)) = a.filename /\ word(Named(a.cid)) = a.cid
            BY DEF Named
        <2>3. a = [type |-> a.type, filename |-> a.filename, cid |-> a.cid, inline |-> a.inline, reference |-> a.reference,
                   content |-> a.content]
            BY DEF IsAttachment
        <2>4. ReadAttachment(o) = Map(All(raw), LAMBDA r : [type |-> r.type, filename |-> word(r.filename), cid |-> word(r.cid),
                               inline |-> r.inline, reference |-> r.body.reference, content |-> r.body.content])
            BY <1>5, <1>6 DEF ReadAttachment, IsObject
        <2> HIDE DEF raw, word
        <2>5. ReadAttachment(o) = <<[type |-> a.type, filename |-> word(Named(a.filename)), cid |-> word(Named(a.cid)),
                   inline |-> a.inline, reference |-> a.reference, content |-> a.content]>>
            BY <2>1, <2>4 DEF Map
        <2> QED  BY <2>2, <2>3, <2>5
    <1> QED  BY <1>12 DEF o

(* Attachments. *)
LEMMA AttachmentsBack ==
    ASSUME NEW items, IsList(items, IsAttachment)
    PROVE  LET option == IfMany(items, WriteAttachment)
           IN  /\ AnOption(option) /\ (items = <<>> <=> option = <<>>)
               /\ items # <<>> => ReadMany(option[1], ReadAttachment) = <<items>>
               /\ ReadMany(Many(items, WriteAttachment), ReadAttachment) = <<items>>
    <1> DEFINE many == Many(items, WriteAttachment)
               list == many[2]
    <1>1. many[1] = "arr" /\ list = [i \in DOMAIN items |-> WriteAttachment(items[i])]
        BY DEF Many, Arr
    <1>2. \A i \in DOMAIN items : ReadAttachment(WriteAttachment(items[i])) = <<items[i]>>
        BY AttachmentBack DEF IsList
    <1> HIDE DEF many
    <1>3. [i \in DOMAIN list |-> ReadAttachment(list[i])] = [i \in DOMAIN items |-> <<items[i]>>]
        BY <1>1, <1>2
    <1>4. All([i \in DOMAIN items |-> <<items[i]>>]) = <<items>>
        BY AllOf DEF IsList
    <1>5. ReadMany(many, ReadAttachment) = <<items>>
        BY <1>1, <1>3, <1>4 DEF ReadMany, Is
    <1>6. IfMany(items, WriteAttachment) = IF items = <<>> THEN <<>> ELSE <<many>>
        BY DEF IfMany, many
    <1>7. many = Many(items, WriteAttachment)
        BY DEF many
    <1> QED  BY <1>5, <1>6, <1>7 DEF AnOption

(* Bodies; a MIME part is left to the serde of its own. *)
LEMMA BodyBack ==
    ASSUME NEW content, IsBody(content)
    PROVE  ReadBodyJson(WriteBodyJson(content)) = <<content>>
    <1> DEFINE o == WriteBodyJson(content)
    <1>1. \A v, w : <<v>> \o <<w>> = <<v, w>>
        BY PutBefore
    <1>2. \A u, v, w : <<u>> \o <<v, w>> = <<u, v, w>>
        BY PutBefore
    <1>3. \A v : AnOption(<<v>>)
        BY DEF AnOption
    <1>4. \A v : ReadString(Str(v)) = <<v>>
        BY DEF ReadString, Str, Is
    <1>5. /\ WordOf(Word("text")) = "text" /\ WordOf(Word("html")) = "html"
          /\ WordOf(Word("text_and_html")) = "text_and_html" /\ WordOf(Word("mime")) = "mime"
        BY WordBack DEF Lookalikes
    <1>6. CASE content.kind = "text" /\ content = [kind |-> "text", text |-> content.text]
        <2>1. o = Object(<<(<<"type", <<Word("text")>>>>), <<"text", <<Str(content.text)>>>>>>)
            BY <1>6, <1>1, <1>2 DEF WriteBodyJson, Always
        <2> HIDE DEF o
        <2>2. IsObject(o) /\ Has(o, "type", <<Word("text")>>) /\ Has(o, "text", <<Str(content.text)>>)
            BY <2>1, <1>3, ObjectOf2
        <2>3. Tag(o) = "text"
            BY <1>5, <2>2 DEF Tag, Has, IsObject
        <2>4. Required(o, "text", ReadString) = <<content.text>>
            BY <1>4, <2>2 DEF Required, Has
        <2>5. ReadBodyJson(o) = All([kind |-> <<"text">>, text |-> Required(o, "text", ReadString)])
            BY <2>3 DEF ReadBodyJson
        <2>6. ReadBodyJson(o) = <<[kind |-> "text", text |-> content.text]>>
            BY <2>4, <2>5 DEF All
        <2> QED  BY <1>6, <2>6 DEF o
    <1>7. CASE content.kind = "html" /\ content = [kind |-> "html", html |-> content.html]
        <2>1. o = Object(<<(<<"type", <<Word("html")>>>>), <<"html", <<Str(content.html)>>>>>>)
            BY <1>7, <1>1, <1>2 DEF WriteBodyJson, Always
        <2> HIDE DEF o
        <2>2. IsObject(o) /\ Has(o, "type", <<Word("html")>>) /\ Has(o, "html", <<Str(content.html)>>)
            BY <2>1, <1>3, ObjectOf2
        <2>3. Tag(o) = "html"
            BY <1>5, <2>2 DEF Tag, Has, IsObject
        <2>4. Required(o, "html", ReadString) = <<content.html>>
            BY <1>4, <2>2 DEF Required, Has
        <2>5. ReadBodyJson(o) = All([kind |-> <<"html">>, html |-> Required(o, "html", ReadString)])
            BY <2>3 DEF ReadBodyJson
        <2>6. ReadBodyJson(o) = <<[kind |-> "html", html |-> content.html]>>
            BY <2>4, <2>5 DEF All
        <2> QED  BY <1>7, <2>6 DEF o
    <1>8. CASE content.kind = "both" /\ content = [kind |-> "both", text |-> content.text, html |-> content.html]
        <2>1. o = Object(<<(<<"type", <<Word("text_and_html")>>>>), <<"text", <<Str(content.text)>>>>, <<"html", <<Str(content.html)>>>>>>)
            BY <1>8, <1>1, <1>2 DEF WriteBodyJson, Always
        <2> HIDE DEF o
        <2>2. IsObject(o) /\ Has(o, "type", <<Word("text_and_html")>>) /\ Has(o, "text", <<Str(content.text)>>) /\ Has(o, "html", <<Str(content.html)>>)
            BY <2>1, <1>3, ObjectOf3
        <2>3. Tag(o) = "text_and_html"
            BY <1>5, <2>2 DEF Tag, Has, IsObject
        <2>4. Required(o, "text", ReadString) = <<content.text>> /\ Required(o, "html", ReadString) = <<content.html>>
            BY <1>4, <2>2 DEF Required, Has
        <2>5. ReadBodyJson(o) = All([kind |-> <<"both">>, text |-> Required(o, "text", ReadString), html |-> Required(o, "html", ReadString)])
            BY <2>3 DEF ReadBodyJson
        <2>6. ReadBodyJson(o) = <<[kind |-> "both", text |-> content.text, html |-> content.html]>>
            BY <2>4, <2>5 DEF All
        <2> QED  BY <1>8, <2>6 DEF o
    <1>9. CASE /\ content.kind = "mime" /\ content = [kind |-> "mime", part |-> content.part]
               /\ ReadMimePart(WriteMimePart(content.part)) = <<content.part>>
        <2>1. o = Object(<<(<<"type", <<Word("mime")>>>>), <<"part", <<WriteMimePart(content.part)>>>>>>)
            BY <1>9, <1>1 DEF WriteBodyJson, Always
        <2> HIDE DEF o
        <2>2. IsObject(o) /\ Has(o, "type", <<Word("mime")>>) /\ Has(o, "part", <<WriteMimePart(content.part)>>)
            BY <2>1, <1>3, ObjectOf2
        <2>3. Tag(o) = "mime"
            BY <1>5, <2>2 DEF Tag, Has, IsObject
        <2>4. Required(o, "part", ReadMimePart) = <<content.part>>
            BY <1>9, <2>2 DEF Required, Has
        <2>5. ReadBodyJson(o) = All([kind |-> <<"mime">>, part |-> Required(o, "part", ReadMimePart)])
            BY <2>3 DEF ReadBodyJson
        <2>6. ReadBodyJson(o) = <<[kind |-> "mime", part |-> content.part]>>
            BY <2>4, <2>5 DEF All
        <2> QED  BY <1>9, <2>6 DEF o
    <1> QED  BY <1>6, <1>7, <1>8, <1>9 DEF IsBody

(* A date that is written is read back.                                    *)
LEMMA DateBack == \A date : ReadDate(WriteDate(date)) = <<date>> /\ WriteDate(date) # Null
    <1> TAKE date
    <1> DEFINE items == <<(<<"num", date>>)>>
    <1>1. WriteDate(date)[1] = "arr" /\ WriteDate(date)[2] = items /\ Null[1] = "null"
        BY DEF WriteDate, Arr, Null
    <1>2. Len(items) = 1 /\ items[1][2] = date
        OBVIOUS
    <1> HIDE DEF items
    <1> QED  BY <1>1, <1>2 DEF ReadDate, Is

(* The object of a message has its twelve members.                         *)
LEMMA MessageObject ==
    ASSUME NEW o1, NEW o2, NEW o3, NEW o4, NEW o5, NEW o6, NEW o7, NEW o8, NEW o9, NEW o10, NEW o11, NEW o12,
           AnOption(o1), AnOption(o2), AnOption(o3), AnOption(o4), AnOption(o5), AnOption(o6), AnOption(o7), AnOption(o8), AnOption(o9), AnOption(o10), AnOption(o11), AnOption(o12)
    PROVE  LET object == Object(<<(<<"from", o1>>), <<"sender", o2>>, <<"to", o3>>, <<"cc", o4>>, <<"bcc", o5>>,
                  <<"reply_to", o6>>, <<"subject", o7>>, <<"date", o8>>, <<"message_id", o9>>, <<"headers", o10>>, <<"body", o11>>, <<"attachments", o12>>>>)
           IN  /\ IsObject(object)
               /\ Has(object, "from", o1) /\ Has(object, "sender", o2) /\ Has(object, "to", o3) /\ Has(object, "cc", o4) /\ Has(object, "bcc", o5)
               /\ Has(object, "reply_to", o6) /\ Has(object, "subject", o7) /\ Has(object, "date", o8) /\ Has(object, "message_id", o9)
               /\ Has(object, "headers", o10) /\ Has(object, "body", o11) /\ Has(object, "attachments", o12)
    <1> DEFINE members == <<(<<"from", o1>>), <<"sender", o2>>, <<"to", o3>>, <<"cc", o4>>, <<"bcc", o5>>,
                  <<"reply_to", o6>>, <<"subject", o7>>, <<"date", o8>>, <<"message_id", o9>>, <<"headers", o10>>, <<"body", o11>>, <<"attachments", o12>>>>
               object == Object(members)
    <1>1. members = [i \in 1..12 |-> members[i]] /\ 12 \in Nat /\ Len(members) = 12
        OBVIOUS
    <1>2. IsSeq(members) /\ DOMAIN members = 1..12
        BY <1>1, MakeSeq
    <1>3. /\ members[1] = <<"from", o1>> /\ members[2] = <<"sender", o2>> /\ members[3] = <<"to", o3>> /\ members[4] = <<"cc", o4>>
          /\ members[5] = <<"bcc", o5>> /\ members[6] = <<"reply_to", o6>> /\ members[7] = <<"subject", o7>> /\ members[8] = <<"date", o8>>
          /\ members[9] = <<"message_id", o9>> /\ members[10] = <<"headers", o10>> /\ members[11] = <<"body", o11>> /\ members[12] = <<"attachments", o12>>
        OBVIOUS
    <1> HIDE DEF members
    <1>4. IsMembers(members)
        <2>1. \A i \in 1..12 : i = 1 \/ i = 2 \/ i = 3 \/ i = 4 \/ i = 5 \/ i = 6 \/ i = 7 \/ i = 8 \/ i = 9 \/ i = 10 \/ i = 11 \/ i = 12
            OBVIOUS
        <2>2. \A i \in DOMAIN members : AnOption(members[i][2])
            BY <1>2, <1>3, <2>1
        <2>3. \A i, j \in DOMAIN members : members[i][1] = members[j][1] => i = j
            BY <1>2, <1>3, <2>1
        <2> QED  BY <1>2, <2>2, <2>3 DEF IsMembers
    <1>5. \A k \in 1..12 : Has(object, members[k][1], members[k][2])
        BY <1>2, <1>4, ObjectMember DEF Has
    <1>6. IsObject(object)
        BY <1>4, ObjectFields DEF FieldsOf, IsObject
    <1> HIDE DEF object
    <1>7. /\ Has(object, "from", o1) /\ Has(object, "sender", o2) /\ Has(object, "to", o3) /\ Has(object, "cc", o4) /\ Has(object, "bcc", o5)
               /\ Has(object, "reply_to", o6) /\ Has(object, "subject", o7) /\ Has(object, "date", o8) /\ Has(object, "message_id", o9)
               /\ Has(object, "headers", o10) /\ Has(object, "body", o11) /\ Has(object, "attachments", o12)
        BY <1>3, <1>5
    <1> QED  BY <1>6, <1>7 DEF object, members

(* A text that its constructor accepts is parsed back.                     *)
LEMMA ParsedBack ==
    /\ \A text : IsParsed(text, MessageIdFromStr) => Parsed(Text(text), MessageIdFromStr) = <<text>> /\ Text(text) # Null
    /\ \A text : IsParsed(text, NewtypeFromStr) => Parsed(Text(text), NewtypeFromStr) = <<text>> /\ Text(text) # Null
    <1>1. \A text : Is("str", Text(text)) /\ Text(text)[2] = Plain(text)
        BY DEF Text, Str, Is
    <1> QED  BY <1>1, TextBack DEF Parsed, IsParsed

(* A message that is written as JSON is read back as it was: every address,  *)
(* date, header, attachment and body, from the writers and readers of serde. *)
THEOREM MessageBack ==
    ASSUME NEW m, IsMessage(m)
    PROVE  ReadMessage(WriteMessage(m)) = <<m>> /\ IsObject(WriteMessage(m))
    <1> DEFINE o_from == Map(m.from, WriteMailboxJson)
               o_sender == Map(m.sender, WriteMailboxJson)
               o_subject == Map(m.subject, Text)
               o_date == Map(m.date, WriteDate)
               o_messageId == Map(m.messageId, Text)
               o_to == IfMany(m.to, WriteAddressJson)
               o_cc == IfMany(m.cc, WriteAddressJson)
               o_bcc == IfMany(m.bcc, WriteAddressJson)
               o_replyTo == IfMany(m.replyTo, WriteAddressJson)
               o_headers == IfMany(m.headers, WriteHeader)
               o_attachments == IfMany(m.attachments, WriteAttachment)
               o_body == <<WriteBodyJson(m.body)>>
               o == WriteMessage(m)
    <1>1. /\ AnOption(m.from) /\ (m.from # <<>> => m.from = <<m.from[1]>> /\ IsMailbox(m.from[1]))
          /\ AnOption(m.sender) /\ (m.sender # <<>> => m.sender = <<m.sender[1]>> /\ IsMailbox(m.sender[1]))
          /\ AnOption(m.subject) /\ (m.subject # <<>> => m.subject = <<m.subject[1]>> /\ IsSeq(m.subject[1]))
          /\ AnOption(m.date) /\ (m.date # <<>> => m.date = <<m.date[1]>>)
          /\ AnOption(m.messageId) /\ (m.messageId # <<>> => m.messageId = <<m.messageId[1]>> /\ IsParsed(m.messageId[1], MessageIdFromStr))
        BY DEF IsMessage, IsOption, AnOption
    <1>2. /\ Image(m.from, o_from) /\ (m.from # <<>> => o_from[1] = WriteMailboxJson(m.from[1]))
          /\ Image(m.sender, o_sender) /\ (m.sender # <<>> => o_sender[1] = WriteMailboxJson(m.sender[1]))
          /\ Image(m.subject, o_subject) /\ (m.subject # <<>> => o_subject[1] = Text(m.subject[1]))
          /\ Image(m.date, o_date) /\ (m.date # <<>> => o_date[1] = WriteDate(m.date[1]))
          /\ Image(m.messageId, o_messageId) /\ (m.messageId # <<>> => o_messageId[1] = Text(m.messageId[1]))
        BY <1>1, Images
    <1>3. /\ IsList(m.to, IsAddress)
          /\ IsList(m.cc, IsAddress)
          /\ IsList(m.bcc, IsAddress)
          /\ IsList(m.replyTo, IsAddress)
          /\ IsList(m.headers, IsHeader)
          /\ IsList(m.attachments, IsAttachment)
        <2>1. m["to"] = m.to /\ m["cc"] = m.cc /\ m["bcc"] = m.bcc /\ m["replyTo"] = m.replyTo
            OBVIOUS
        <2> QED  BY <2>1 DEF IsMessage
    <1>4. /\ AnOption(o_to) /\ (m.to = <<>> <=> o_to = <<>>)
          /\ m.to # <<>> => ReadMany(o_to[1], ReadAddress) = <<m.to>>
        BY <1>3, AddressesBack
    <1>5. /\ AnOption(o_cc) /\ (m.cc = <<>> <=> o_cc = <<>>)
          /\ m.cc # <<>> => ReadMany(o_cc[1], ReadAddress) = <<m.cc>>
        BY <1>3, AddressesBack
    <1>6. /\ AnOption(o_bcc) /\ (m.bcc = <<>> <=> o_bcc = <<>>)
          /\ m.bcc # <<>> => ReadMany(o_bcc[1], ReadAddress) = <<m.bcc>>
        BY <1>3, AddressesBack
    <1>7. /\ AnOption(o_replyTo) /\ (m.replyTo = <<>> <=> o_replyTo = <<>>)
          /\ m.replyTo # <<>> => ReadMany(o_replyTo[1], ReadAddress) = <<m.replyTo>>
        BY <1>3, AddressesBack
    <1>8. /\ AnOption(o_headers) /\ (m.headers = <<>> <=> o_headers = <<>>)
          /\ m.headers # <<>> => ReadMany(o_headers[1], ReadHeader) = <<m.headers>>
        BY <1>3, HeadersBack
    <1>9. /\ AnOption(o_attachments) /\ (m.attachments = <<>> <=> o_attachments = <<>>)
          /\ m.attachments # <<>> => ReadMany(o_attachments[1], ReadAttachment) = <<m.attachments>>
        BY <1>3, AttachmentsBack
    <1> HIDE DEF o_from, o_sender, o_subject, o_date, o_messageId, o_to, o_cc, o_bcc, o_replyTo, o_headers, o_attachments
    <1>10. /\ IsObject(o)
          /\ Has(o, "from", o_from) /\ Has(o, "sender", o_sender) /\ Has(o, "to", o_to)
          /\ Has(o, "cc", o_cc) /\ Has(o, "bcc", o_bcc) /\ Has(o, "reply_to", o_replyTo)
          /\ Has(o, "subject", o_subject) /\ Has(o, "date", o_date) /\ Has(o, "message_id", o_messageId)
          /\ Has(o, "headers", o_headers) /\ Has(o, "body", o_body) /\ Has(o, "attachments", o_attachments)
        <2>1. o = Object(<<(<<"from", o_from>>), <<"sender", o_sender>>, <<"to", o_to>>, <<"cc", o_cc>>, <<"bcc", o_bcc>>,
                           <<"reply_to", o_replyTo>>, <<"subject", o_subject>>, <<"date", o_date>>, <<"message_id", o_messageId>>, <<"headers", o_headers>>, <<"body", o_body>>, <<"attachments", o_attachments>>>>)
            BY DEF WriteMessage, Always, o_from, o_sender, o_subject, o_date, o_messageId, o_to, o_cc, o_bcc, o_replyTo, o_headers, o_attachments
        <2>2. AnOption(o_body) /\ AnOption(o_from) /\ AnOption(o_sender) /\ AnOption(o_subject) /\ AnOption(o_date) /\ AnOption(o_messageId)
            BY <1>2 DEF AnOption, Image
        <2> HIDE DEF o, o_body
        <2> QED  BY <2>1, <2>2, <1>4, <1>5, <1>6, <1>7, <1>8, <1>9, MessageObject
    <1> HIDE DEF o
    <1>11. Optional(o, "from", ReadMailbox) = <<m.from>>
        <2>1. CASE m.from = <<>>
            BY <1>2, <1>10, <2>1 DEF Optional, OrDefault, Has, Image
        <2>2. CASE m.from # <<>>
            <3>1. ReadMailbox(o_from[1]) = m.from /\ o_from[1] # Null
                BY <1>1, <1>2, <2>2, MailboxBack
            <3>2. Found(o, "from") # {} /\ Once(o, "from") /\ Value(o, "from") = o_from[1]
                BY <1>2, <1>10, <2>2 DEF Has, Image
            <3> QED  BY <1>1, <2>2, <3>1, <3>2, Wrapped DEF Optional, OrDefault, Required, Map
        <2> QED  BY <2>1, <2>2
    <1>12. Optional(o, "sender", ReadMailbox) = <<m.sender>>
        <2>1. CASE m.sender = <<>>
            BY <1>2, <1>10, <2>1 DEF Optional, OrDefault, Has, Image
        <2>2. CASE m.sender # <<>>
            <3>1. ReadMailbox(o_sender[1]) = m.sender /\ o_sender[1] # Null
                BY <1>1, <1>2, <2>2, MailboxBack
            <3>2. Found(o, "sender") # {} /\ Once(o, "sender") /\ Value(o, "sender") = o_sender[1]
                BY <1>2, <1>10, <2>2 DEF Has, Image
            <3> QED  BY <1>1, <2>2, <3>1, <3>2, Wrapped DEF Optional, OrDefault, Required, Map
        <2> QED  BY <2>1, <2>2
    <1>13. Optional(o, "subject", ReadText) = <<m.subject>>
        <2>1. CASE m.subject = <<>>
            BY <1>2, <1>10, <2>1 DEF Optional, OrDefault, Has, Image
        <2>2. CASE m.subject # <<>>
            <3>1. ReadText(o_subject[1]) = m.subject /\ o_subject[1] # Null
                BY <1>1, <1>2, <2>2, TextBack
            <3>2. Found(o, "subject") # {} /\ Once(o, "subject") /\ Value(o, "subject") = o_subject[1]
                BY <1>2, <1>10, <2>2 DEF Has, Image
            <3> QED  BY <1>1, <2>2, <3>1, <3>2, Wrapped DEF Optional, OrDefault, Required, Map
        <2> QED  BY <2>1, <2>2
    <1>14. Optional(o, "date", ReadDate) = <<m.date>>
        <2>1. CASE m.date = <<>>
            BY <1>2, <1>10, <2>1 DEF Optional, OrDefault, Has, Image
        <2>2. CASE m.date # <<>>
            <3>1. ReadDate(o_date[1]) = m.date /\ o_date[1] # Null
                BY <1>1, <1>2, <2>2, DateBack
            <3>2. Found(o, "date") # {} /\ Once(o, "date") /\ Value(o, "date") = o_date[1]
                BY <1>2, <1>10, <2>2 DEF Has, Image
            <3> QED  BY <1>1, <2>2, <3>1, <3>2, Wrapped DEF Optional, OrDefault, Required, Map
        <2> QED  BY <2>1, <2>2
    <1>15. Optional(o, "message_id", LAMBDA v : Parsed(v, MessageIdFromStr)) = <<m.messageId>>
        <2>1. CASE m.messageId = <<>>
            BY <1>2, <1>10, <2>1 DEF Optional, OrDefault, Has, Image
        <2>2. CASE m.messageId # <<>>
            <3>1. Parsed(o_messageId[1], MessageIdFromStr) = m.messageId /\ o_messageId[1] # Null
                BY <1>1, <1>2, <2>2, ParsedBack
            <3>2. Found(o, "message_id") # {} /\ Once(o, "message_id") /\ Value(o, "message_id") = o_messageId[1]
                BY <1>2, <1>10, <2>2 DEF Has, Image
            <3> QED  BY <1>1, <2>2, <3>1, <3>2, Wrapped DEF Optional, OrDefault, Required, Map
        <2> QED  BY <2>1, <2>2
    <1>16. OptionalMany(o, "to", ReadAddress) = <<m.to>>
        BY <1>4, <1>10 DEF OptionalMany, OrDefault, Required, Has
    <1>17. OptionalMany(o, "cc", ReadAddress) = <<m.cc>>
        BY <1>5, <1>10 DEF OptionalMany, OrDefault, Required, Has
    <1>18. OptionalMany(o, "bcc", ReadAddress) = <<m.bcc>>
        BY <1>6, <1>10 DEF OptionalMany, OrDefault, Required, Has
    <1>19. OptionalMany(o, "reply_to", ReadAddress) = <<m.replyTo>>
        BY <1>7, <1>10 DEF OptionalMany, OrDefault, Required, Has
    <1>20. OptionalMany(o, "headers", ReadHeader) = <<m.headers>>
        BY <1>8, <1>10 DEF OptionalMany, OrDefault, Required, Has
    <1>21. OptionalMany(o, "attachments", ReadAttachment) = <<m.attachments>>
        BY <1>9, <1>10 DEF OptionalMany, OrDefault, Required, Has
    <1>22. Required(o, "body", ReadBodyJson) = <<m.body>>
        BY <1>10, BodyBack DEF Required, Has, IsMessage
    <1>23. ReadMessage(o) = <<m>>
        <2> DEFINE raw == [from |-> Optional(o, "from", ReadMailbox),
                          sender |-> Optional(o, "sender", ReadMailbox),
                          to |-> OptionalMany(o, "to", ReadAddress),
                          cc |-> OptionalMany(o, "cc", ReadAddress),
                          bcc |-> OptionalMany(o, "bcc", ReadAddress),
                          replyTo |-> OptionalMany(o, "reply_to", ReadAddress),
                          subject |-> Optional(o, "subject", ReadText),
                          date |-> Optional(o, "date", ReadDate),
                          messageId |-> Optional(o, "message_id", LAMBDA v : Parsed(v, MessageIdFromStr)),
                          headers |-> OptionalMany(o, "headers", ReadHeader),
                          body |-> Required(o, "body", ReadBodyJson),
                          attachments |-> OptionalMany(o, "attachments", ReadAttachment)]
        <2>1. /\ raw.from = <<m.from>> /\ raw.sender = <<m.sender>> /\ raw.to = <<m.to>> /\ raw.cc = <<m.cc>>
              /\ raw.bcc = <<m.bcc>> /\ raw.replyTo = <<m.replyTo>> /\ raw.subject = <<m.subject>> /\ raw.date = <<m.date>>
              /\ raw.messageId = <<m.messageId>> /\ raw.headers = <<m.headers>> /\ raw.body = <<m.body>> /\ raw.attachments = <<m.attachments>>
            BY <1>11, <1>12, <1>16, <1>17, <1>18, <1>19, <1>13, <1>14, <1>15, <1>20, <1>22, <1>21
        <2>2. DOMAIN raw = {"from", "sender", "to", "cc", "bcc", "replyTo", "subject", "date", "messageId", "headers", "body", "attachments"}
            OBVIOUS
        <2>3. m = [from |-> m.from, sender |-> m.sender, to |-> m.to, cc |-> m.cc, bcc |-> m.bcc, replyTo |-> m.replyTo, subject |-> m.subject, date |-> m.date,
                   messageId |-> m.messageId, headers |-> m.headers, body |-> m.body, attachments |-> m.attachments]
            BY DEF IsMessage
        <2>4. ReadMessage(o) = All(raw)
            BY <1>10 DEF ReadMessage, IsObject
        <2> HIDE DEF raw
        <2>5. All(raw) = <<[from |-> m.from, sender |-> m.sender, to |-> m.to, cc |-> m.cc, bcc |-> m.bcc, replyTo |-> m.replyTo, subject |-> m.subject, date |-> m.date,
                   messageId |-> m.messageId, headers |-> m.headers, body |-> m.body, attachments |-> m.attachments]>>
            BY <2>1, <2>2 DEF All
        <2> QED  BY <2>3, <2>4, <2>5
    <1> QED  BY <1>10, <1>23 DEF o

-------------------------------------------------------------------------------
(* Recursive functions: that they exist, and how they go on. *)

(* An address list, piece by piece. *)
PiecesTaken(f, value, n) ==
    f = [i \in 0..n |-> IF i = 0 THEN [word |-> <<>>, name |-> <<>>, entries |-> <<>>, groups |-> <<>>] ELSE TakePiece(f[i - 1], value[i])]

(* The address parser has a state for every number of pieces ... *)
LEMMA PiecesTakenExists ==
    ASSUME NEW value, NEW n \in Nat
    PROVE  \E f : PiecesTaken(f, value, n)
    <1> DEFINE S == {m \in Nat : \E f : PiecesTaken(f, value, m)}
    <1>1. 0 \in S
        <2> DEFINE f == [i \in 0..0 |-> [word |-> <<>>, name |-> <<>>, entries |-> <<>>, groups |-> <<>>]]
        <2>1. \A i \in 0..0 : f[i] = IF i = 0 THEN [word |-> <<>>, name |-> <<>>, entries |-> <<>>, groups |-> <<>>] ELSE TakePiece(f[i - 1], value[i])
            OBVIOUS
        <2>2. f = [i \in 0..0 |-> f[i]]
            OBVIOUS
        <2> HIDE DEF f
        <2>3. PiecesTaken(f, value, 0)
            BY <2>1, <2>2, Zenon DEF PiecesTaken
        <2> QED  BY <2>3
    <1>2. \A m \in Nat : m \in S => m + 1 \in S
        <2> TAKE m \in Nat
        <2> HAVE m \in S
        <2>1. PICK f : PiecesTaken(f, value, m)
            OBVIOUS
        <2> DEFINE g == [i \in 0..(m + 1) |-> IF i = 0 THEN [word |-> <<>>, name |-> <<>>, entries |-> <<>>, groups |-> <<>>] ELSE TakePiece(f[i - 1], value[i])]
        <2>2. \A i \in 0..m : g[i] = f[i]
            <3> TAKE i \in 0..m
            <3>1. f[i] = IF i = 0 THEN [word |-> <<>>, name |-> <<>>, entries |-> <<>>, groups |-> <<>>] ELSE TakePiece(f[i - 1], value[i])
                BY <2>1 DEF PiecesTaken
            <3>2. i \in 0..(m + 1)
                OBVIOUS
            <3> QED  BY <3>1, <3>2
        <2>3. \A i \in 0..(m + 1) : g[i] = IF i = 0 THEN [word |-> <<>>, name |-> <<>>, entries |-> <<>>, groups |-> <<>>] ELSE TakePiece(g[i - 1], value[i])
            <3> TAKE i \in 0..(m + 1)
            <3>1. i # 0 => i - 1 \in 0..m
                OBVIOUS
            <3>2. i # 0 => g[i - 1] = f[i - 1]
                BY <2>2, <3>1
            <3>3. g[i] = IF i = 0 THEN [word |-> <<>>, name |-> <<>>, entries |-> <<>>, groups |-> <<>>] ELSE TakePiece(f[i - 1], value[i])
                OBVIOUS
            <3> HIDE DEF g
            <3> QED  BY <3>2, <3>3
        <2>4. g = [i \in 0..(m + 1) |-> g[i]]
            OBVIOUS
        <2> HIDE DEF g
        <2>5. PiecesTaken(g, value, m + 1)
            BY <2>3, <2>4, Zenon DEF PiecesTaken
        <2> QED  BY <2>5
    <1> HIDE DEF S
    <1>3. n \in S
        BY <1>1, <1>2, SetInduction
    <1> QED  BY <1>3 DEF S

(* ... and goes from piece to piece. *)
LEMMA PiecesTakenSteps ==
    ASSUME NEW value, Len(value) \in Nat
    PROVE  \E f : /\ f[0] = [word |-> <<>>, name |-> <<>>, entries |-> <<>>, groups |-> <<>>]
                  /\ \A i \in 1..Len(value) : f[i] = TakePiece(f[i - 1], value[i])
                  /\ ParsedGroups(value) = Closed(Flushed(f[Len(value)])).groups
    <1> DEFINE n == Len(value)
               f == CHOOSE g : PiecesTaken(g, value, n)
    <1>1. ParsedGroups(value) = Closed(Flushed(f[n])).groups
        BY DEF ParsedGroups, PiecesTaken
    <1> HIDE DEF n
    <1>2. n \in Nat
        BY DEF n
    <1>3. PiecesTaken(f, value, n)
        BY <1>2, PiecesTakenExists
    <1> HIDE DEF f
    <1>4. f[0] = [word |-> <<>>, name |-> <<>>, entries |-> <<>>, groups |-> <<>>] /\ \A i \in 1..n : f[i] = TakePiece(f[i - 1], value[i])
        <2>1. 0 \in 0..n /\ \A i \in 1..n : i \in 0..n /\ i # 0
            BY <1>2
        <2> QED  BY <1>3, <2>1 DEF PiecesTaken
    <1> QED  BY <1>1, <1>4 DEF n

-------------------------------------------------------------------------------
(* The sequence of a finite set. *)

(* SetToSeq has every element of a finite set once.                        *)
LEMMA InSequence ==
    ASSUME NEW S, IsFiniteSet(S)
    PROVE  LET s == SetToSeq(S)
           IN  /\ IsSeq(s) /\ \A i \in DOMAIN s : s[i] \in S
               /\ \A x \in S : \E i \in DOMAIN s : s[i] = x
               /\ \A i, j \in DOMAIN s : s[i] = s[j] => i = j
    <1> DEFINE n == Cardinality(S)
               s == SetToSeq(S)
    <1>1. n \in Nat /\ ExistsBijection(1..n, S)
        BY FS_CardinalityType
    <1>2. \E f \in [1..n -> S] : IsInjective(f)
        BY <1>1 DEF ExistsBijection, Bijection, Injection
    <1>3. s \in [1..n -> S] /\ IsInjective(s)
        BY <1>2 DEF SetToSeq
    <1> HIDE DEF n, s
    <1>4. s \in Injection(1..n, S)
        BY <1>3 DEF Injection
    <1>5. IsFiniteSet(1..n) /\ Cardinality(1..n) = n
        BY <1>1, FS_Interval
    <1>6. s \in Surjection(1..n, S)
        BY <1>4, <1>5, FS_Injection DEF n
    <1>7. \A x \in S : \E i \in 1..n : s[i] = x
        BY <1>6 DEF Surjection
    <1>8. IsSeq(s) /\ DOMAIN s = 1..n
        BY <1>1, <1>3, MakeSeq
    <1> QED  BY <1>3, <1>7, <1>8 DEF IsInjective, s

-------------------------------------------------------------------------------
(* Readers return options. *)

(* All returns an option ... *)
LEMMA AllIs == \A fields : AnOption(All(fields))
    BY DEF All, AnOption

(* An object whose fields are readable as those of a type with two levels. *)
Readable(value) ==
    Is("obj", value) => /\ IsSeq(value[2])
                        /\ \A i \in DOMAIN value[2] : Is("obj", value[2][i][2]) => IsSeq(value[2][i][2][2])

(* ... of what every field has. *)
LEMMA AllGives ==
    ASSUME NEW raw, All(raw) # <<>>
    PROVE  /\ All(raw) = <<[f \in DOMAIN raw |-> raw[f][1]]>>
           /\ All(raw)[1] = [f \in DOMAIN raw |-> raw[f][1]]
           /\ \A f \in DOMAIN raw : raw[f] # <<>>
    BY DEF All

-------------------------------------------------------------------------------
(* The JSON of other programs. *)

(* The JSON of another program has parts that can be read, too. *)
LEMMA JsonParts ==
    ASSUME NEW value \in JsonValues
    PROVE  /\ Is("obj", value) => IsSeq(value[2]) /\ \A i \in DOMAIN value[2] : value[2][i][2] \in JsonValues
           /\ Is("arr", value) => IsSeq(value[2]) /\ \A i \in DOMAIN value[2] : value[2][i] \in JsonValues
           /\ Is("str", value) => IsSeq(value[2])
           /\ \A key : Is("obj", value) /\ Once(value, key) => Value(value, key) \in JsonValues
           /\ Readable(value)
    <1>1. IsJson(value)
        BY JsonAssumption
    <1>2. /\ Is("obj", value) => IsSeq(value[2]) /\ \A i \in DOMAIN value[2] : value[2][i][2] \in JsonValues
          /\ Is("arr", value) => IsSeq(value[2]) /\ \A i \in DOMAIN value[2] : value[2][i] \in JsonValues
          /\ Is("str", value) => IsSeq(value[2])
        BY <1>1 DEF IsJson, IsList
    <1>3. ASSUME NEW key, Is("obj", value), Once(value, key) PROVE Value(value, key) \in JsonValues
        <2>1. PICK i \in DOMAIN value[2] : Found(value, key) = {i}
            BY <1>3 DEF Once
        <2>2. (CHOOSE j \in Found(value, key) : TRUE) = i
            BY <2>1
        <2> QED  BY <1>2, <1>3, <2>2 DEF Value
    <1>4. ASSUME Is("obj", value), NEW i \in DOMAIN value[2], Is("obj", value[2][i][2]) PROVE IsSeq(value[2][i][2][2])
        <2>1. value[2][i][2] \in JsonValues
            BY <1>2, <1>4
        <2>2. IsJson(value[2][i][2])
            BY <2>1, JsonAssumption
        <2> QED  BY <1>4, <2>2 DEF IsJson, IsList
    <1> QED  BY <1>2, <1>3, <1>4 DEF Readable

QuotesRemoved(f, value, n) ==
    f = [i \in 0..n |-> IF i = 0 THEN [quoted |-> FALSE, pair |-> FALSE, out |-> <<>>] ELSE UnquotePiece(f[i - 1], value[i])]

(* The remover of quotes has a state for every number of pieces ... *)
LEMMA QuotesRemovedExists ==
    ASSUME NEW value, NEW n \in Nat
    PROVE  \E f : QuotesRemoved(f, value, n)
    <1> DEFINE S == {m \in Nat : \E f : QuotesRemoved(f, value, m)}
    <1>1. 0 \in S
        <2> DEFINE f == [i \in 0..0 |-> [quoted |-> FALSE, pair |-> FALSE, out |-> <<>>]]
        <2>1. \A i \in 0..0 : f[i] = IF i = 0 THEN [quoted |-> FALSE, pair |-> FALSE, out |-> <<>>] ELSE UnquotePiece(f[i - 1], value[i])
            OBVIOUS
        <2>2. f = [i \in 0..0 |-> f[i]]
            OBVIOUS
        <2> HIDE DEF f
        <2>3. QuotesRemoved(f, value, 0)
            BY <2>1, <2>2, Zenon DEF QuotesRemoved
        <2> QED  BY <2>3
    <1>2. \A m \in Nat : m \in S => m + 1 \in S
        <2> TAKE m \in Nat
        <2> HAVE m \in S
        <2>1. PICK f : QuotesRemoved(f, value, m)
            OBVIOUS
        <2> DEFINE g == [i \in 0..(m + 1) |-> IF i = 0 THEN [quoted |-> FALSE, pair |-> FALSE, out |-> <<>>] ELSE UnquotePiece(f[i - 1], value[i])]
        <2>2. \A i \in 0..m : g[i] = f[i]
            <3> TAKE i \in 0..m
            <3>1. f[i] = IF i = 0 THEN [quoted |-> FALSE, pair |-> FALSE, out |-> <<>>] ELSE UnquotePiece(f[i - 1], value[i])
                BY <2>1 DEF QuotesRemoved
            <3>2. i \in 0..(m + 1)
                OBVIOUS
            <3> QED  BY <3>1, <3>2
        <2>3. \A i \in 0..(m + 1) : g[i] = IF i = 0 THEN [quoted |-> FALSE, pair |-> FALSE, out |-> <<>>] ELSE UnquotePiece(g[i - 1], value[i])
            <3> TAKE i \in 0..(m + 1)
            <3>1. i # 0 => i - 1 \in 0..m
                OBVIOUS
            <3>2. i # 0 => g[i - 1] = f[i - 1]
                BY <2>2, <3>1
            <3>3. g[i] = IF i = 0 THEN [quoted |-> FALSE, pair |-> FALSE, out |-> <<>>] ELSE UnquotePiece(f[i - 1], value[i])
                OBVIOUS
            <3> HIDE DEF g
            <3> QED  BY <3>2, <3>3
        <2>4. g = [i \in 0..(m + 1) |-> g[i]]
            OBVIOUS
        <2> HIDE DEF g
        <2>5. QuotesRemoved(g, value, m + 1)
            BY <2>3, <2>4, Zenon DEF QuotesRemoved
        <2> QED  BY <2>5
    <1> HIDE DEF S
    <1>3. n \in S
        BY <1>1, <1>2, SetInduction
    <1> QED  BY <1>3 DEF S

(* ... and goes from piece to piece. *)
LEMMA QuotesRemovedSteps ==
    ASSUME NEW value, Len(value) \in Nat
    PROVE  \E f : /\ f[0] = [quoted |-> FALSE, pair |-> FALSE, out |-> <<>>]
                  /\ \A i \in 1..Len(value) : f[i] = UnquotePiece(f[i - 1], value[i])
                  /\ Unquoted(value) = f[Len(value)].out
    <1> DEFINE n == Len(value)
               f == CHOOSE g : QuotesRemoved(g, value, n)
    <1>1. Unquoted(value) = f[n].out
        BY DEF Unquoted, QuotesRemoved
    <1> HIDE DEF n
    <1>2. n \in Nat
        BY DEF n
    <1>3. QuotesRemoved(f, value, n)
        BY <1>2, QuotesRemovedExists
    <1> HIDE DEF f
    <1>4. f[0] = [quoted |-> FALSE, pair |-> FALSE, out |-> <<>>] /\ \A i \in 1..n : f[i] = UnquotePiece(f[i - 1], value[i])
        <2>1. 0 \in 0..n /\ \A i \in 1..n : i \in 0..n /\ i # 0
            BY <1>2
        <2> QED  BY <1>3, <2>1 DEF QuotesRemoved
    <1> QED  BY <1>1, <1>4 DEF n

-------------------------------------------------------------------------------
(* What strings hold: pieces as they come in JSON. *)
IsText(value) == IsList(value, IsPiece)

(* Trimming a text leaves one.                                             *)
LEMMA TextTrimmed ==
    ASSUME NEW value, IsText(value)
    PROVE  IsText(TrimBlanks(value))
    <1> DEFINE ink == {i \in DOMAIN value : ~IsBlank(value[i])}
    <1>1. IsSeq(value) /\ Len(value) \in Nat /\ DOMAIN value = 1..Len(value) /\ \A i \in DOMAIN value : IsPiece(value[i])
        BY SeqFacts DEF IsText, IsList
    <1>2. TrimBlanks(value) = IF ink = {} THEN <<>> ELSE SubSeq(value, Min(ink), Max(ink))
        BY DEF TrimBlanks
    <1>3. ink \subseteq 1..Len(value) /\ ink \subseteq 0..Len(value) /\ ink \subseteq Nat
        BY <1>1
    <1> HIDE DEF ink
    <1>4. CASE ink = {}
        <2>1. IsSeq(<<>>) /\ DOMAIN <<>> = {} /\ TrimBlanks(value) = <<>>
            BY <1>2, <1>4, EmptyIsSeq
        <2> QED  BY <2>1 DEF IsText, IsList
    <1>5. CASE ink # {}
        <2> DEFINE first == Min(ink)
                   last == Max(ink)
                   part == SubSeq(value, first, last)
        <2>1. first \in ink /\ last \in ink
            BY <1>1, <1>3, <1>5, Least, Greatest
        <2>2. TrimBlanks(value) = part
            BY <1>2, <1>5
        <2> HIDE DEF first, last
        <2>3. first \in Nat /\ last \in Nat /\ 1 <= first /\ last <= Len(value)
            BY <1>1, <1>3, <2>1
        <2>4. IsSeq(part) /\ \A i \in 1..Len(part) : part[i] = value[first + i - 1] /\ first + i - 1 \in DOMAIN value
            BY <1>1, <2>3, PartOfSeq
        <2> HIDE DEF part
        <2>5. DOMAIN part = 1..Len(part)
            BY <2>4, SeqFacts
        <2>6. IsText(part)
            BY <1>1, <2>4, <2>5 DEF IsText, IsList
        <2> QED  BY <2>2, <2>6
    <1> QED  BY <1>4, <1>5

(* A text and one piece more is a text.                                    *)
LEMMA TextAppended ==
    ASSUME NEW value, IsText(value), NEW piece, IsPiece(piece)
    PROVE  IsText(Append(value, piece))
    <1> DEFINE more == Append(value, piece)
    <1>1. IsSeq(value) /\ \A i \in DOMAIN value : IsPiece(value[i])
        BY DEF IsText, IsList
    <1>2. IsSeq(more) /\ \A k \in DOMAIN more : more[k] = piece \/ \E i \in DOMAIN value : more[k] = value[i]
        BY <1>1, Appended, AppendedFrom
    <1> HIDE DEF more
    <1>3. IsText(more)
        BY <1>1, <1>2 DEF IsText, IsList
    <1> QED  BY <1>3 DEF more

(* The state of the reader of quoted strings: what it kept is a text. *)
IsUnquoting(s) == s = [quoted |-> s.quoted, pair |-> s.pair, out |-> s.out] /\ IsText(s.out)

(* It keeps the piece, or drops it.                                        *)
LEMMA PieceUnquoted ==
    ASSUME NEW s, IsUnquoting(s), NEW piece, IsPiece(piece)
    PROVE  IsUnquoting(UnquotePiece(s, piece))
    <1> DEFINE more == Append(s.out, piece)
               no == FALSE
               yes == TRUE
    <1>1. s = [quoted |-> s.quoted, pair |-> s.pair, out |-> s.out] /\ IsText(s.out)
        BY DEF IsUnquoting
    <1>2. IsText(more)
        BY <1>1, TextAppended
    <1>3. \/ UnquotePiece(s, piece) = [s EXCEPT !.pair = no, !.out = more]
          \/ UnquotePiece(s, piece) = [s EXCEPT !.pair = yes]
          \/ UnquotePiece(s, piece) = [s EXCEPT !.quoted = ~s.quoted]
          \/ UnquotePiece(s, piece) = [s EXCEPT !.out = more]
        BY DEF UnquotePiece
    <1> DEFINE other == ~s.quoted
               q == s.quoted
               p == s.pair
               o == s.out
    <1>4. s = [quoted |-> q, pair |-> p, out |-> o] /\ IsText(o)
        BY <1>1
    <1> HIDE DEF more, no, yes, other, q, p, o
    <1>5. /\ [s EXCEPT !.pair = no, !.out = more] = [quoted |-> q, pair |-> no, out |-> more]
          /\ [s EXCEPT !.pair = yes] = [quoted |-> q, pair |-> yes, out |-> o]
          /\ [s EXCEPT !.quoted = other] = [quoted |-> other, pair |-> p, out |-> o]
          /\ [s EXCEPT !.out = more] = [quoted |-> q, pair |-> p, out |-> more]
        <2>1. [s EXCEPT !.pair = no] = [quoted |-> q, pair |-> no, out |-> o]
            BY <1>4
        <2>2. [[s EXCEPT !.pair = no] EXCEPT !.out = more] = [quoted |-> q, pair |-> no, out |-> more]
            <3> DEFINE t == [s EXCEPT !.pair = no]
            <3>1. t = [quoted |-> q, pair |-> no, out |-> o]
                BY <2>1
            <3> HIDE DEF t
            <3>2. [t EXCEPT !.out = more] = [quoted |-> q, pair |-> no, out |-> more]
                BY <3>1
            <3> QED  BY <3>2 DEF t
        <2>3. [s EXCEPT !.pair = no, !.out = more] = [[s EXCEPT !.pair = no] EXCEPT !.out = more]
            OBVIOUS
        <2>4. [s EXCEPT !.pair = yes] = [quoted |-> q, pair |-> yes, out |-> o]
            BY <1>4
        <2>5. [s EXCEPT !.quoted = other] = [quoted |-> other, pair |-> p, out |-> o]
            BY <1>4
        <2>6. [s EXCEPT !.out = more] = [quoted |-> q, pair |-> p, out |-> more]
            BY <1>4
        <2> QED  BY <2>2, <2>3, <2>4, <2>5, <2>6
    <1>6. \A a, b, c : IsText(c) => IsUnquoting([quoted |-> a, pair |-> b, out |-> c])
        BY DEF IsUnquoting
    <1>7. \/ UnquotePiece(s, piece) = [s EXCEPT !.pair = no, !.out = more]
          \/ UnquotePiece(s, piece) = [s EXCEPT !.pair = yes]
          \/ UnquotePiece(s, piece) = [s EXCEPT !.quoted = other]
          \/ UnquotePiece(s, piece) = [s EXCEPT !.out = more]
        BY <1>3 DEF other
    <1> QED  BY <1>2, <1>4, <1>5, <1>6, <1>7

(* A text without its quotes is one.                                       *)
LEMMA TextUnquoted ==
    ASSUME NEW value, IsText(value)
    PROVE  IsText(Unquoted(value))
    <1> DEFINE n == Len(value)
    <1>1. n \in Nat /\ DOMAIN value = 1..n /\ \A i \in DOMAIN value : IsPiece(value[i])
        BY SeqFacts DEF IsText, IsList
    <1>2. PICK f : /\ f[0] = [quoted |-> FALSE, pair |-> FALSE, out |-> <<>>]
                   /\ \A i \in 1..n : f[i] = UnquotePiece(f[i - 1], value[i])
                   /\ Unquoted(value) = f[n].out
        BY <1>1, QuotesRemovedSteps
    <1> HIDE DEF n
    <1> DEFINE Good == {i \in 0..n : IsUnquoting(f[i])}
    <1>3. 0 \in Good
        <2>1. IsText(<<>>)
            BY EmptyIsSeq DEF IsText, IsList
        <2> QED  BY <1>1, <1>2, <2>1 DEF IsUnquoting
    <1>4. \A i \in 1..n : i - 1 \in Good => i \in Good
        <2> TAKE i \in 1..n
        <2> HAVE i - 1 \in Good
        <2> DEFINE before == f[i - 1]
                   piece == value[i]
        <2>1. IsUnquoting(before) /\ f[i] = UnquotePiece(before, piece) /\ i \in 0..n
            BY <1>1, <1>2
        <2>3. IsPiece(piece)
            BY <1>1
        <2> HIDE DEF before, piece
        <2>2. IsUnquoting(UnquotePiece(before, piece))
            BY <2>1, <2>3, PieceUnquoted
        <2> QED  BY <2>1, <2>2
    <1> HIDE DEF Good
    <1>5. n \in Good
        <2>1. 0..n \subseteq Good
            BY <1>1, <1>3, <1>4, BoundedInduction
        <2> QED  BY <1>1, <2>1
    <1> QED  BY <1>2, <1>5 DEF Good, IsUnquoting

(* A display name that is read is a sequence of characters.                *)
LEMMA PhraseParsed ==
    ASSUME NEW value, IsText(value)
    PROVE  IsSeq(ParsePhrase(value))
    <1> DEFINE s == Unquoted(value)
               decodes(i) == i \in DOMAIN s /\ s[i][1] \in {"B", "Q"}
               text(i) == CASE decodes(i) -> s[i][2]
                            [] s[i][1] = "escaped" -> <<AsChar(s[i][2])>>
                            [] IsBlank(s[i]) /\ decodes(i - 1) /\ decodes(i + 1) -> <<>>
                            [] OTHER -> <<AsChar(s[i])>>
               texts == [i \in DOMAIN s |-> text(i)]
    <1>1. ParsePhrase(value) = FlattenSeq(texts)
        BY DEF ParsePhrase
    <1>2. IsText(s)
        BY TextUnquoted
    <1> HIDE DEF s
    <1>3. Len(s) \in Nat /\ DOMAIN s = 1..Len(s) /\ \A i \in DOMAIN s : IsPiece(s[i])
        BY <1>2, SeqFacts DEF IsText, IsList
    <1>4. \A i \in DOMAIN s : IsSeq(text(i))
        <2> TAKE i \in DOMAIN s
        <2> DEFINE one == <<AsChar(s[i][2])>>
                   other == <<AsChar(s[i])>>
        <2>1. IsSeq(one) /\ IsSeq(other) /\ IsSeq(<<>>)
            BY OneIsSeq, EmptyIsSeq
        <2>2. decodes(i) => IsSeq(s[i][2])
            BY <1>3 DEF IsPiece, IsWord
        <2> DEFINE word == s[i][2]
                   escaped == s[i][1] = "escaped"
                   between == IsBlank(s[i]) /\ decodes(i - 1) /\ decodes(i + 1)
                   d == decodes(i)
        <2>3. text(i) = CASE d -> word [] escaped -> one [] between -> <<>> [] OTHER -> other
            OBVIOUS
        <2>5. d => IsSeq(word)
            BY <2>2
        <2> HIDE DEF one, other, text, decodes, word, escaped, between, d
        <2>4. (d /\ text(i) = word) \/ text(i) = one \/ text(i) = <<>> \/ text(i) = other
            BY <2>3
        <2> QED  BY <2>1, <2>4, <2>5
    <1>5. texts = [i \in 1..Len(s) |-> texts[i]] /\ \A i \in 1..Len(s) : IsSeq(texts[i])
        BY <1>3, <1>4
    <1> HIDE DEF texts
    <1>6. AllSeqs(texts)
        BY <1>3, <1>5, MakeSeq DEF AllSeqs
    <1> QED  BY <1>1, <1>6, FlattenedFrom

-------------------------------------------------------------------------------
(* Addresses read from text are addresses, whatever the text. *)

IsEntry(entry) == IsOption(entry.name, IsSeq) /\ IsText(entry.addr)

IsParsedGroup(group) == IsOption(group.name, IsSeq) /\ IsList(group.entries, IsEntry)

MailboxResult(r) == r.error = "none" => IsMailbox(r.item)

AddressResult(r) == r.error = "none" => IsAddress(r.item)

(* What is left of a text without its addresses is a text.                 *)
LEMMA OthersText ==
    ASSUME NEW value, IsText(value), NEW dropped
    PROVE  IsText(FlattenSeq([i \in DOMAIN value |-> IF i \in dropped THEN <<>> ELSE <<value[i]>>]))
    <1> DEFINE kept == [i \in DOMAIN value |-> IF i \in dropped THEN <<>> ELSE <<value[i]>>]
               flat == FlattenSeq(kept)
    <1>1. Len(value) \in Nat /\ DOMAIN value = 1..Len(value) /\ \A i \in DOMAIN value : IsPiece(value[i])
        BY SeqFacts DEF IsText, IsList
    <1>2. /\ kept = [i \in 1..Len(value) |-> kept[i]]
          /\ \A i \in 1..Len(value) : kept[i] = <<>> \/ kept[i] = <<value[i]>>
        BY <1>1
    <1> HIDE DEF kept
    <1>3. IsSeq(kept) /\ DOMAIN kept = 1..Len(value)
        BY <1>1, <1>2, MakeSeq
    <1>4. \A i \in DOMAIN kept : IsSeq(kept[i]) /\ \A j \in DOMAIN kept[i] : IsPiece(kept[i][j])
        <2> TAKE i \in DOMAIN kept
        <2> DEFINE piece == value[i]
                   part == kept[i]
        <2>1. IsPiece(piece) /\ (part = <<>> \/ part = <<piece>>)
            BY <1>1, <1>2, <1>3
        <2> HIDE DEF piece, part
        <2>2. IsSeq(<<>>) /\ DOMAIN <<>> = {} /\ IsSeq(<<piece>>) /\ \A j \in DOMAIN <<piece>> : <<piece>>[j] = piece
            BY EmptyIsSeq, OneIsSeq
        <2>3. IsSeq(part) /\ \A j \in DOMAIN part : IsPiece(part[j])
            BY <2>1, <2>2
        <2> QED  BY <2>3 DEF part
    <1>5. AllSeqs(kept)
        BY <1>3, <1>4 DEF AllSeqs
    <1>6. IsSeq(flat) /\ \A k \in DOMAIN flat : \E i \in DOMAIN kept : \E j \in DOMAIN kept[i] : flat[k] = kept[i][j]
        BY <1>5, FlattenedFrom
    <1> HIDE DEF flat
    <1>7. IsText(flat)
        BY <1>4, <1>6 DEF IsText, IsList
    <1> QED  BY <1>7 DEF flat, kept

(* What stands between two commas is read as an entry.                     *)
LEMMA EntryParsed ==
    ASSUME NEW value, IsText(value)
    PROVE  IsEntry(ParsedEntry(value))
    <1> DEFINE addrs == {i \in DOMAIN value : IsAddr(value[i])}
               others == FlattenSeq([i \in DOMAIN value |-> IF i \in addrs THEN <<>> ELSE <<value[i]>>])
               phrase == TrimBlanks(others)
               name == ParsePhrase(phrase)
               first == value[Min(addrs)]
               entry == ParsedEntry(value)
    <1>1. entry = [name |-> IF phrase = <<>> THEN <<>> ELSE <<name>>, addr |-> IF addrs = {} THEN <<>> ELSE <<first>>]
        BY DEF ParsedEntry
    <1>2. Len(value) \in Nat /\ DOMAIN value = 1..Len(value) /\ \A i \in DOMAIN value : IsPiece(value[i])
        BY SeqFacts DEF IsText, IsList
    <1>3. addrs \subseteq DOMAIN value /\ addrs \subseteq Nat
        BY <1>2
    <1> HIDE DEF addrs
    <1>4. IsText(others)
        BY OthersText
    <1> HIDE DEF others
    <1>5. IsSeq(name)
        BY <1>4, TextTrimmed, PhraseParsed
    <1> HIDE DEF name, phrase
    <1>6. addrs # {} => IsPiece(first)
        BY <1>2, <1>3, Least
    <1> HIDE DEF first
    <1>7. IsText(<<>>) /\ (IsPiece(first) => IsText(<<first>>))
        BY EmptyIsSeq, OneIsSeq DEF IsText, IsList
    <1>8. IsOption(entry.name, IsSeq)
        BY <1>1, <1>5 DEF IsOption
    <1>9. IsText(entry.addr)
        <2>1. entry.addr = <<>> \/ (addrs # {} /\ entry.addr = <<first>>)
            BY <1>1
        <2> QED  BY <1>6, <1>7, <2>1
    <1> QED  BY <1>8, <1>9 DEF IsEntry

(* The parser's state: the text so far, the name of the group that is      *)
(* open, its entries, and the groups that are closed. *)
IsParserState(s) ==
    /\ s = [word |-> s.word, name |-> s.name, entries |-> s.entries, groups |-> s.groups]
    /\ IsText(s.word) /\ IsOption(s.name, IsSeq) /\ IsList(s.entries, IsEntry) /\ IsList(s.groups, IsParsedGroup)

(* Lists and one item more.                                                *)
LEMMA EntryAppended ==
    ASSUME NEW entries, IsList(entries, IsEntry), NEW entry, IsEntry(entry)
    PROVE  IsList(Append(entries, entry), IsEntry)
    <1> DEFINE more == Append(entries, entry)
    <1>1. IsSeq(entries) /\ \A i \in DOMAIN entries : IsEntry(entries[i])
        BY DEF IsList
    <1>2. IsSeq(more) /\ \A k \in DOMAIN more : more[k] = entry \/ \E i \in DOMAIN entries : more[k] = entries[i]
        BY <1>1, Appended, AppendedFrom
    <1> HIDE DEF more
    <1>3. IsList(more, IsEntry)
        BY <1>1, <1>2 DEF IsList
    <1> QED  BY <1>3 DEF more

(* The same for groups.                                                    *)
LEMMA GroupAppended ==
    ASSUME NEW groups, IsList(groups, IsParsedGroup), NEW group, IsParsedGroup(group)
    PROVE  IsList(Append(groups, group), IsParsedGroup)
    <1> DEFINE more == Append(groups, group)
    <1>1. IsSeq(groups) /\ \A i \in DOMAIN groups : IsParsedGroup(groups[i])
        BY DEF IsList
    <1>2. IsSeq(more) /\ \A k \in DOMAIN more : more[k] = group \/ \E i \in DOMAIN groups : more[k] = groups[i]
        BY <1>1, Appended, AppendedFrom
    <1> HIDE DEF more
    <1>3. IsList(more, IsParsedGroup)
        BY <1>1, <1>2 DEF IsList
    <1> QED  BY <1>3 DEF more

(* Flushing keeps the parser's state one.                                  *)
LEMMA PieceFlushed ==
    ASSUME NEW s, IsParserState(s)
    PROVE  IsParserState(Flushed(s))
    <1> DEFINE entry == ParsedEntry(s.word)
               more == Append(s.entries, entry)
    <1>1. s = [word |-> s.word, name |-> s.name, entries |-> s.entries, groups |-> s.groups]
        BY DEF IsParserState
    <1>2. IsEntry(entry)
        BY EntryParsed DEF IsParserState
    <1>3. \/ Flushed(s) = [word |-> <<>>, name |-> s.name, entries |-> s.entries, groups |-> s.groups]
          \/ Flushed(s) = [word |-> <<>>, name |-> s.name, entries |-> more, groups |-> s.groups]
        BY <1>1 DEF Flushed
    <1> HIDE DEF entry
    <1>4. IsList(more, IsEntry)
        BY <1>2, EntryAppended DEF IsParserState
    <1> HIDE DEF more
    <1>5. IsText(<<>>)
        BY EmptyIsSeq DEF IsText, IsList
    <1> QED  BY <1>3, <1>4, <1>5 DEF IsParserState

(* So does closing a group.                                                *)
LEMMA GroupClosed ==
    ASSUME NEW s, IsParserState(s)
    PROVE  IsParserState(Closed(s))
    <1>1. s = [word |-> s.word, name |-> s.name, entries |-> s.entries, groups |-> s.groups]
        BY DEF IsParserState
    <1> DEFINE group == [name |-> s.name, entries |-> s.entries]
               more == Append(s.groups, group)
    <1>2. IsParsedGroup(group)
        BY DEF IsParserState, IsParsedGroup
    <1>3. \/ Closed(s) = s
          \/ Closed(s) = [word |-> s.word, name |-> <<>>, entries |-> <<>>, groups |-> more]
        BY <1>1 DEF Closed
    <1> HIDE DEF group
    <1>4. IsList(more, IsParsedGroup)
        BY <1>2, GroupAppended DEF IsParserState
    <1> HIDE DEF more
    <1>5. IsList(<<>>, IsEntry) /\ IsOption(<<>>, IsSeq)
        BY EmptyIsSeq DEF IsList, IsOption
    <1> QED  BY <1>3, <1>4, <1>5 DEF IsParserState

(* So does taking a piece.                                                 *)
LEMMA PieceTaken ==
    ASSUME NEW s, IsParserState(s), NEW piece, IsPiece(piece)
    PROVE  IsParserState(TakePiece(s, piece))
    <1> DEFINE closed == Closed(s)
               name == ParsePhrase(TrimBlanks(s.word))
               phrase == <<name>>
               word == Append(s.word, piece)
    <1>1. IsParserState(Flushed(s)) /\ IsParserState(closed)
        BY PieceFlushed, GroupClosed
    <1>2. IsParserState(Closed(Flushed(s)))
        BY <1>1, GroupClosed
    <1>3. \/ TakePiece(s, piece) = Flushed(s)
          \/ TakePiece(s, piece) = [closed EXCEPT !.name = phrase, !.word = <<>>]
          \/ TakePiece(s, piece) = Closed(Flushed(s))
          \/ TakePiece(s, piece) = [s EXCEPT !.word = word]
        BY DEF TakePiece
    <1>4. IsText(word)
        BY TextAppended DEF IsParserState
    <1>5. IsSeq(name)
        BY TextTrimmed, PhraseParsed DEF IsParserState
    <1>6. IsText(<<>>)
        BY EmptyIsSeq DEF IsText, IsList
    <1> HIDE DEF closed, name, word
    <1>7. IsOption(phrase, IsSeq)
        BY <1>5 DEF IsOption
    <1> HIDE DEF phrase
    <1>8. IsParserState([closed EXCEPT !.name = phrase, !.word = <<>>])
        <2> DEFINE w == closed.word
                   m == closed.name
                   e == closed.entries
                   g == closed.groups
                   none == <<>>
                   named == [closed EXCEPT !.name = phrase]
        <2>1. closed = [word |-> w, name |-> m, entries |-> e, groups |-> g] /\ IsList(e, IsEntry) /\ IsList(g, IsParsedGroup)
            BY <1>1 DEF IsParserState
        <2>2. [closed EXCEPT !.name = phrase, !.word = <<>>] = [named EXCEPT !.word = none]
            OBVIOUS
        <2>3. IsText(none)
            BY <1>6
        <2> HIDE DEF w, m, e, g, none
        <2>4. named = [word |-> w, name |-> phrase, entries |-> e, groups |-> g]
            BY <2>1
        <2> HIDE DEF named
        <2>5. [named EXCEPT !.word = none] = [word |-> none, name |-> phrase, entries |-> e, groups |-> g]
            BY <2>4
        <2> DEFINE after == [word |-> none, name |-> phrase, entries |-> e, groups |-> g]
        <2>6. IsParserState(after)
            BY <1>7, <2>1, <2>3 DEF IsParserState
        <2> QED  BY <2>2, <2>5, <2>6
    <1>9. IsParserState([s EXCEPT !.word = word])
        BY <1>4 DEF IsParserState
    <1> QED  BY <1>1, <1>2, <1>3, <1>8, <1>9

(* Every text is parsed into groups.                                       *)
LEMMA GroupsParsed ==
    ASSUME NEW value, IsText(value)
    PROVE  IsList(ParsedGroups(value), IsParsedGroup)
    <1> DEFINE n == Len(value)
    <1>1. n \in Nat /\ DOMAIN value = 1..n /\ \A i \in DOMAIN value : IsPiece(value[i])
        BY SeqFacts DEF IsText, IsList
    <1>2. PICK f : /\ f[0] = [word |-> <<>>, name |-> <<>>, entries |-> <<>>, groups |-> <<>>]
                   /\ \A i \in 1..n : f[i] = TakePiece(f[i - 1], value[i])
                   /\ ParsedGroups(value) = Closed(Flushed(f[n])).groups
        BY <1>1, PiecesTakenSteps
    <1> HIDE DEF n
    <1> DEFINE Good == {i \in 0..n : IsParserState(f[i])}
    <1>3. 0 \in Good
        <2>1. IsText(<<>>) /\ IsOption(<<>>, IsSeq) /\ IsList(<<>>, IsEntry) /\ IsList(<<>>, IsParsedGroup)
            BY EmptyIsSeq DEF IsText, IsList, IsOption
        <2>2. IsParserState(f[0])
            BY <1>2, <2>1 DEF IsParserState
        <2> QED  BY <1>1, <2>2
    <1>4. \A i \in 1..n : i - 1 \in Good => i \in Good
        <2> TAKE i \in 1..n
        <2> HAVE i - 1 \in Good
        <2> DEFINE before == f[i - 1]
                   piece == value[i]
        <2>1. IsParserState(before) /\ f[i] = TakePiece(before, piece) /\ i \in 0..n
            BY <1>1, <1>2
        <2>2. IsPiece(piece)
            BY <1>1
        <2> HIDE DEF before, piece
        <2>3. IsParserState(TakePiece(before, piece))
            BY <2>1, <2>2, PieceTaken
        <2> QED  BY <2>1, <2>3
    <1> HIDE DEF Good
    <1>5. n \in Good
        <2>1. 0..n \subseteq Good
            BY <1>1, <1>3, <1>4, BoundedInduction
        <2> QED  BY <1>1, <2>1
    <1> DEFINE last == f[n]
    <1>6. IsParserState(last)
        BY <1>5 DEF Good
    <1> HIDE DEF last
    <1>7. IsParserState(Closed(Flushed(last)))
        BY <1>6, PieceFlushed, GroupClosed
    <1> QED  BY <1>2, <1>7 DEF IsParserState, last

(* The constructors from strings keep what they return what it is when it  *)
(* is written: an email is one that is read back.                          *)
LEMMA EmailRead ==
    ASSUME NEW value, IsText(value), EmailFromStr(value).error = "none"
    PROVE  IsEmail(EmailFromStr(value).item)
    <1> DEFINE piece == value[1]
               email == piece[2]
               lower == [email EXCEPT !.caps = FALSE]
    <1>1. Len(value) = 1 /\ IsAddr(piece) /\ email.valid
          /\ EmailFromStr(value) = Ok(IF email.literal THEN email ELSE lower)
        BY DEF EmailFromStr, Err
    <1>2. IsPiece(piece)
        <2>1. DOMAIN value = 1..1
            BY <1>1, SeqFacts DEF IsText, IsList
        <2> QED  BY <2>1 DEF IsText, IsList
    <1>3. DOMAIN email = {"user", "host", "literal", "caps", "valid"}
        BY <1>1, <1>2 DEF IsPiece, IsAddressPiece
    <1> HIDE DEF piece
    <1> DEFINE back(e) == EmailFromStr(<<Addr(e)>>)
    <1>4. ASSUME NEW e PROVE back(e) = IF e.valid THEN Ok(IF e.literal THEN e ELSE [e EXCEPT !.caps = FALSE]) ELSE Err("InvalidAddrSpec")
        <2> DEFINE one == <<Addr(e)>>
        <2>1. Len(one) = 1 /\ one[1] = Addr(e)
            BY OneIsSeq
        <2> HIDE DEF one
        <2>2. IsAddr(one[1]) /\ one[1][2] = e
            BY <2>1 DEF IsAddr, Addr
        <2>3. EmailFromStr(one) = IF e.valid THEN Ok(IF e.literal THEN e ELSE [e EXCEPT !.caps = FALSE]) ELSE Err("InvalidAddrSpec")
            BY <2>1, <2>2 DEF EmailFromStr
        <2> QED  BY <2>3 DEF one
    <1> HIDE DEF back
    <1>5. CASE email.literal
        <2>1. back(email) = Ok(email)
            BY <1>1, <1>4, <1>5
        <2> QED  BY <1>1, <1>5, <2>1 DEF back, IsEmail, Ok
    <1>6. CASE ~email.literal
        <2>1. lower.valid = email.valid /\ lower.literal = email.literal /\ [lower EXCEPT !.caps = FALSE] = lower
            <3> HIDE DEF email
            <3>1. DOMAIN lower = DOMAIN email /\ lower = [f \in DOMAIN email |-> IF f = "caps" THEN FALSE ELSE email[f]]
                OBVIOUS
            <3> QED  BY <1>3, <3>1
        <2> HIDE DEF lower
        <2>2. back(lower) = Ok(lower)
            <3> DEFINE again == [lower EXCEPT !.caps = FALSE]
            <3> HIDE DEF email
            <3>1. back(lower) = IF lower.valid THEN Ok(IF lower.literal THEN lower ELSE again) ELSE Err("InvalidAddrSpec")
                BY <1>4
            <3>2. again = lower
                BY <2>1
            <3> HIDE DEF again
            <3> QED  BY <1>1, <1>6, <2>1, <3>1, <3>2
        <2>3. EmailFromStr(value).item = lower
            BY <1>1, <1>6 DEF Ok
        <2> QED  BY <2>2, <2>3 DEF back, IsEmail
    <1> QED  BY <1>5, <1>6

(* An entry that is converted is a mailbox, in a group or not.             *)
LEMMA MailboxConverted ==
    ASSUME NEW entry, IsEntry(entry)
    PROVE  MailboxResult(ConvertMailbox(entry)) /\ MailboxResult(InGroup(ConvertMailbox(entry)))
    <1> DEFINE email == EmailFromStr(entry.addr)
               mailbox == Mailbox(entry.name, email.item)
               r == ConvertMailbox(entry)
    <1>1. \/ r = Err("MissingAddrSpec")
          \/ email.error # "none" /\ r = email
          \/ email.error = "none" /\ r = Ok(mailbox)
        BY DEF ConvertMailbox
    <1>2. IsOption(entry.name, IsSeq) /\ (email.error = "none" => IsEmail(email.item))
        BY EmailRead DEF IsEntry
    <1> HIDE DEF email
    <1>3. email.error = "none" => IsMailbox(mailbox)
        <2> DEFINE name == entry.name
                   item == email.item
        <2>1. mailbox.name = name /\ mailbox.email = item /\ mailbox = Mailbox(name, item)
            BY DEF Mailbox
        <2> HIDE DEF mailbox
        <2> QED  BY <1>2, <2>1 DEF IsMailbox
    <1> HIDE DEF mailbox, r
    <1>4. MailboxResult(r)
        BY <1>1, <1>3 DEF MailboxResult, Err, Ok
    <1>5. MailboxResult(InGroup(r))
        BY <1>4 DEF MailboxResult, InGroup, Err
    <1> QED  BY <1>4, <1>5 DEF r

(* Results without an error are all taken.                                 *)
LEMMA CollectedIs ==
    ASSUME NEW results, IsSeq(results), Collected(results).error = "none"
    PROVE  /\ Collected(results).item = Items(results) /\ IsSeq(Items(results)) /\ DOMAIN Items(results) = DOMAIN results
           /\ \A i \in DOMAIN results : results[i].error = "none" /\ Items(results)[i] = results[i].item
    <1> DEFINE failed == {i \in DOMAIN results : results[i].error # "none"}
    <1>1. Len(results) \in Nat /\ DOMAIN results = 1..Len(results)
        BY SeqFacts
    <1>2. failed = {}
        <2> SUFFICES ASSUME failed # {} PROVE FALSE
            OBVIOUS
        <2>1. failed \subseteq Nat
            BY <1>1
        <2>2. \E x \in failed : \A y \in failed : x <= y
            <3> HIDE DEF failed
            <3> QED  BY <2>1, LeastNatural
        <2>3. Min(failed) \in failed
            <3> HIDE DEF failed
            <3> QED  BY <2>2 DEF Min
        <2>4. Collected(results) = results[Min(failed)]
            BY DEF Collected, FirstError
        <2> QED  BY <2>3, <2>4
    <1>3. Collected(results) = Ok(Items(results))
        BY <1>2 DEF Collected, FirstError
    <1>4. Items(results) = [i \in 1..Len(results) |-> results[i].item]
        BY <1>1 DEF Items
    <1> DEFINE items == Items(results)
    <1>5. items = [i \in 1..Len(results) |-> items[i]] /\ \A i \in 1..Len(results) : items[i] = results[i].item
        BY <1>4
    <1> HIDE DEF items
    <1>6. IsSeq(items) /\ DOMAIN items = 1..Len(results)
        BY <1>1, <1>5, MakeSeq
    <1> QED  BY <1>1, <1>2, <1>3, <1>5, <1>6 DEF items, Ok

(* A parsed group that is converted is a group of mailboxes.               *)
LEMMA GroupConverted ==
    ASSUME NEW group, IsParsedGroup(group), group.name # <<>>
    PROVE  AddressResult(ConvertGroup(group))
    <1> DEFINE entries == group.entries
               name == group.name[1]
               results == [i \in DOMAIN entries |-> InGroup(ConvertMailbox(entries[i]))]
               members == Collected(results)
    <1>1. IsSeq(entries) /\ Len(entries) \in Nat /\ DOMAIN entries = 1..Len(entries) /\ \A i \in DOMAIN entries : IsEntry(entries[i])
        BY SeqFacts DEF IsParsedGroup, IsList
    <1>2. results = [i \in 1..Len(entries) |-> results[i]] /\ \A i \in 1..Len(entries) : MailboxResult(results[i])
        <2>1. \A i \in DOMAIN entries : MailboxResult(InGroup(ConvertMailbox(entries[i])))
            BY <1>1, MailboxConverted
        <2> QED  BY <1>1, <2>1
    <1>3. ConvertGroup(group) = IF members.error # "none" THEN members ELSE Ok(Group(name, members.item))
        BY DEF ConvertGroup
    <1>4. IsSeq(name)
        BY DEF IsParsedGroup, IsOption
    <1> HIDE DEF results, entries, name
    <1>5. IsSeq(results) /\ DOMAIN results = 1..Len(entries)
        BY <1>1, <1>2, MakeSeq
    <1>6. CASE members.error # "none"
        BY <1>3, <1>6 DEF AddressResult
    <1>7. CASE members.error = "none"
        <2> DEFINE list == members.item
                   made == Group(name, list)
        <2>1. /\ list = Items(results) /\ IsSeq(Items(results)) /\ DOMAIN Items(results) = DOMAIN results
              /\ \A i \in DOMAIN results : results[i].error = "none" /\ Items(results)[i] = results[i].item
            BY <1>5, <1>7, CollectedIs
        <2> HIDE DEF list
        <2>2. \A i \in DOMAIN list : IsMailbox(list[i])
            BY <1>2, <1>5, <2>1 DEF MailboxResult
        <2>3. IsList(list, IsMailbox)
            BY <2>1, <2>2 DEF IsList
        <2>4. ConvertGroup(group) = Ok(made)
            BY <1>3, <1>7 DEF list
        <2>5. made.kind = "group" /\ made.name = name /\ made.members = list /\ made = Group(made.name, made.members)
            BY DEF Group
        <2> HIDE DEF made
        <2>6. IsAddress(made)
            BY <1>4, <2>3, <2>5 DEF IsAddress, IsGroup
        <2> QED  BY <2>4, <2>6 DEF AddressResult, Ok
    <1> QED  BY <1>6, <1>7

(* Results that are all addresses are a list of them.                      *)
LEMMA ItemsAre ==
    ASSUME NEW results, IsSeq(results), \A i \in DOMAIN results : AddressResult(results[i])
    PROVE  Collected(results).error = "none" => IsList(Collected(results).item, IsAddress)
    <1> SUFFICES ASSUME Collected(results).error = "none" PROVE IsList(Collected(results).item, IsAddress)
        OBVIOUS
    <1> DEFINE items == Items(results)
               collected == Collected(results)
    <1>1. /\ collected.item = items /\ IsSeq(items) /\ DOMAIN items = DOMAIN results
          /\ \A i \in DOMAIN results : results[i].error = "none" /\ items[i] = results[i].item
        BY CollectedIs
    <1> HIDE DEF items, collected
    <1>2. \A i \in DOMAIN items : IsAddress(items[i])
        BY <1>1 DEF AddressResult
    <1>3. IsList(collected.item, IsAddress)
        BY <1>1, <1>2 DEF IsList
    <1> QED  BY <1>3 DEF collected

Converted(group) ==
    IF group.name # <<>> THEN <<ConvertGroup(group)>> ELSE [i \in DOMAIN group.entries |-> ConvertMailbox(group.entries[i])]

(* A mailbox is an address.                                                *)
LEMMA MailboxAddress == \A mailbox : IsMailbox(mailbox) => IsAddress(mailbox)
    BY DEF IsMailbox, IsAddress, Mailbox

(* The results for a group are addresses, or errors.                       *)
LEMMA ConvertedIs ==
    ASSUME NEW group, IsParsedGroup(group)
    PROVE  IsSeq(Converted(group)) /\ \A i \in DOMAIN Converted(group) : AddressResult(Converted(group)[i])
    <1> DEFINE entries == group.entries
               results == [i \in DOMAIN entries |-> ConvertMailbox(entries[i])]
               one == ConvertGroup(group)
    <1>1. CASE group.name # <<>>
        <2>1. AddressResult(one)
            BY <1>1, GroupConverted
        <2>2. Converted(group) = <<one>>
            BY <1>1 DEF Converted
        <2> HIDE DEF one
        <2>3. IsSeq(<<one>>) /\ \A i \in DOMAIN <<one>> : <<one>>[i] = one
            BY OneIsSeq
        <2> QED  BY <2>1, <2>2, <2>3
    <1>2. CASE group.name = <<>>
        <2>1. Converted(group) = results
            BY <1>2 DEF Converted
        <2>2. Len(entries) \in Nat /\ DOMAIN entries = 1..Len(entries) /\ \A i \in DOMAIN entries : IsEntry(entries[i])
            BY SeqFacts DEF IsParsedGroup, IsList
        <2>3. results = [i \in 1..Len(entries) |-> results[i]] /\ \A i \in 1..Len(entries) : MailboxResult(results[i])
            BY <2>2, MailboxConverted
        <2> HIDE DEF results, entries
        <2>4. IsSeq(results) /\ DOMAIN results = 1..Len(entries)
            BY <2>2, <2>3, MakeSeq
        <2>5. \A i \in DOMAIN results : AddressResult(results[i])
            BY <2>3, <2>4, MailboxAddress DEF MailboxResult, AddressResult
        <2> QED  BY <2>1, <2>4, <2>5
    <1> QED  BY <1>1, <1>2

(* An address list that is parsed is one of addresses.                     *)
LEMMA AddressItemsAre ==
    ASSUME NEW value, IsText(value), ParseAddressItems(value).error = "none"
    PROVE  IsList(ParseAddressItems(value).item, IsAddress)
    <1> DEFINE groups == ParsedGroups(value)
               lists == [i \in DOMAIN groups |-> Converted(groups[i])]
               flat == FlattenSeq(lists)
    <1>1. IsSeq(groups) /\ \A i \in DOMAIN groups : IsParsedGroup(groups[i])
        BY GroupsParsed DEF IsList
    <1>2. ParseAddressItems(value) = Collected(flat)
        <2>1. ParseAddressItems(value) = IF groups = <<>> THEN Err("MissingAddress") ELSE Collected(flat)
            <3>1. \/ ParseAddressItems(value) = Err("InputTooLong")
                  \/ ParseAddressItems(value) = Err("InputContainsRawNewlines")
                  \/ ParseAddressItems(value) = IF groups = <<>> THEN Err("MissingAddress") ELSE Collected(flat)
                BY DEF ParseAddressItems, Converted
            <3>2. Err("InputTooLong").error # "none" /\ Err("InputContainsRawNewlines").error # "none"
                BY DEF Err
            <3> QED  BY <3>1, <3>2
        <2>2. Err("MissingAddress").error # "none"
            BY DEF Err
        <2> QED  BY <2>1, <2>2
    <1> HIDE DEF groups
    <1>3. Len(groups) \in Nat /\ DOMAIN groups = 1..Len(groups)
        BY <1>1, SeqFacts
    <1>4. lists = [i \in 1..Len(groups) |-> lists[i]] /\ \A i \in 1..Len(groups) : lists[i] = Converted(groups[i])
        BY <1>3
    <1> HIDE DEF lists
    <1>5. IsSeq(lists) /\ DOMAIN lists = 1..Len(groups)
        BY <1>3, <1>4, MakeSeq
    <1>6. \A i \in DOMAIN lists : IsSeq(lists[i]) /\ \A j \in DOMAIN lists[i] : AddressResult(lists[i][j])
        BY <1>1, <1>3, <1>4, <1>5, ConvertedIs
    <1>7. AllSeqs(lists)
        BY <1>5, <1>6 DEF AllSeqs
    <1>8. IsSeq(flat) /\ \A k \in DOMAIN flat : \E i \in DOMAIN lists : \E j \in DOMAIN lists[i] : flat[k] = lists[i][j]
        BY <1>7, FlattenedFrom
    <1> HIDE DEF flat
    <1>9. \A i \in DOMAIN flat : AddressResult(flat[i])
        BY <1>6, <1>8
    <1>10. Collected(flat).error = "none"
        BY <1>2
    <1>11. IsList(Collected(flat).item, IsAddress)
        BY <1>8, <1>9, <1>10, ItemsAre
    <1> QED  BY <1>2, <1>11

(* A single address that is parsed is one, and a mailbox where it has to be. *)
LEMMA SingleIs ==
    ASSUME NEW value, IsText(value), NEW kind, NEW missing, Single(value, kind, missing).error = "none", missing # "none"
    PROVE  /\ IsAddress(Single(value, kind, missing).item)
           /\ kind = "mailbox" => IsMailbox(Single(value, kind, missing).item)
    <1> DEFINE items == ParseAddressItems(value)
               result == Single(value, kind, missing)
               list == items.item
    <1>1. \/ items.error # "none" /\ result = items
          \/ items.error = "none" /\ Len(list) # 1 /\ result = Err(missing)
          \/ items.error = "none" /\ Len(list) = 1 /\ kind \in {list[1].kind, "any"} /\ result = Ok(list[1])
          \/ result = Err("UnexpectedAddressKind")
        BY DEF Single
    <1>2. Err(missing).error # "none" /\ Err("UnexpectedAddressKind").error # "none"
        BY DEF Err
    <1>3. items.error = "none" /\ Len(list) = 1 /\ kind \in {list[1].kind, "any"} /\ result = Ok(list[1])
        BY <1>1, <1>2
    <1>4. IsList(list, IsAddress)
        BY <1>3, AddressItemsAre
    <1> HIDE DEF result, items, list
    <1>5. DOMAIN list = 1..1
        BY <1>3, <1>4, SeqFacts DEF IsList
    <1>6. IsAddress(list[1])
        BY <1>4, <1>5 DEF IsList
    <1>7. result.item = list[1]
        BY <1>3 DEF Ok
    <1>8. IsAddress(result.item) /\ (kind = "mailbox" => IsMailbox(result.item))
        BY <1>3, <1>6, <1>7 DEF IsAddress
    <1> QED  BY <1>8 DEF result

(* What the constructors from strings accept is what it should be.         *)
LEMMA StringsRead ==
    ASSUME NEW value, IsText(value)
    PROVE  MailboxResult(MailboxFromStr(value)) /\ AddressResult(AddressFromStr(value))
    <1> DEFINE a == Single(value, "mailbox", "ExpectedSingleMailbox")
               b == Single(value, "any", "ExpectedSingleAddress")
               email == EmailFromStr(value)
               box == BareMailbox(value)
               bare == Ok(box)
    <1>1. a.error = "none" => IsMailbox(a.item)
        BY SingleIs
    <1>2. b.error = "none" => IsAddress(b.item)
        BY SingleIs
    <1>3. \/ MailboxFromStr(value) = a /\ AddressFromStr(value) = b
          \/ email.error = "none" /\ MailboxFromStr(value) = bare /\ AddressFromStr(value) = bare
        BY DEF MailboxFromStr, AddressFromStr
    <1>4. email.error = "none" => IsMailbox(box)
        <2> SUFFICES ASSUME email.error = "none" PROVE IsMailbox(box)
            OBVIOUS
        <2> DEFINE item == email.item
        <2>1. IsEmail(item)
            BY EmailRead
        <2>2. box = Mailbox(<<>>, item)
            BY DEF BareMailbox
        <2> HIDE DEF item, box
        <2>3. box.name = <<>> /\ box.email = item /\ box = Mailbox(box.name, box.email)
            BY <2>2 DEF Mailbox
        <2>4. IsOption(<<>>, IsSeq)
            BY DEF IsOption
        <2> QED  BY <2>1, <2>3, <2>4 DEF IsMailbox
    <1>5. bare.item = box
        BY DEF Ok
    <1> HIDE DEF a, b, email, box, bare
    <1> QED  BY <1>1, <1>2, <1>3, <1>4, <1>5, MailboxAddress DEF MailboxResult, AddressResult

-------------------------------------------------------------------------------
(* The same for JSON: whatever values another program posts. *)

(* A string of theirs is a text, and a text of characters if it is read as one. *)
LEMMA JsonText ==
    ASSUME NEW value \in JsonValues, Is("str", value)
    PROVE  IsText(value[2]) /\ IsSeq(value[2]) /\ IsSeq(AsText(value[2]))
    <1>1. IsText(value[2])
        BY JsonAssumption DEF IsJson, IsText
    <1> DEFINE text == value[2]
               chars == AsText(text)
    <1>2. IsSeq(text)
        BY <1>1 DEF IsText, IsList
    <1>3. chars = [i \in DOMAIN text |-> chars[i]]
        BY DEF AsText
    <1> HIDE DEF text, chars
    <1>4. Len(text) \in Nat /\ DOMAIN text = 1..Len(text)
        BY <1>2, SeqFacts
    <1>5. IsSeq(chars)
        BY <1>3, <1>4, MakeSeq
    <1> QED  BY <1>1, <1>2, <1>5 DEF text, chars

(* An item of a list, or the value under a key, is JSON as well; the same  *)
(* of an object whose keys were renamed.                                   *)
LEMMA FieldValue ==
    ASSUME NEW object, \A i \in DOMAIN object[2] : object[2][i][2] \in JsonValues, NEW key, Once(object, key)
    PROVE  Value(object, key) \in JsonValues
    <1>1. PICK i \in DOMAIN object[2] : Found(object, key) = {i}
        BY DEF Once
    <1>2. (CHOOSE j \in Found(object, key) : TRUE) = i
        BY <1>1
    <1> QED  BY <1>1, <1>2 DEF Value

(* A list all of whose items are read has them in their order.             *)
LEMMA ManyRead ==
    ASSUME NEW items, IsSeq(items), NEW image, image = [i \in DOMAIN items |-> image[i]], All(image) # <<>>
    PROVE  /\ All(image) = <<All(image)[1]>> /\ IsSeq(All(image)[1]) /\ DOMAIN All(image)[1] = DOMAIN items
           /\ \A i \in DOMAIN items : image[i] # <<>> /\ All(image)[1][i] = image[i][1]
    <1> DEFINE n == Len(items)
               list == [i \in DOMAIN image |-> image[i][1]]
    <1>1. n \in Nat /\ DOMAIN items = 1..n /\ DOMAIN image = 1..n
        <2>1. n \in Nat /\ DOMAIN items = 1..n
            BY SeqFacts
        <2> QED  BY <2>1
    <1>2. All(image) = <<list>> /\ \A i \in DOMAIN image : image[i] # <<>>
        BY AllGives
    <1>3. list = [i \in 1..n |-> list[i]] /\ \A i \in 1..n : list[i] = image[i][1]
        BY <1>1
    <1> HIDE DEF list, n
    <1>4. IsSeq(list) /\ DOMAIN list = 1..n
        BY <1>1, <1>3, MakeSeq
    <1>5. All(image)[1] = list
        BY <1>2
    <1> QED  BY <1>1, <1>2, <1>3, <1>4, <1>5

(* What Optional returns: nothing, or the item that was read under the key. *)
LEMMA OptionalIs ==
    ASSUME NEW option, NEW found, NEW read, AnOption(read), option # <<>>,
           \/ option = <<(<<>>)>>
           \/ option = <<>>
           \/ found /\ option = [i \in DOMAIN read |-> <<read[i]>>]
    PROVE  option[1] = <<>> \/ (found /\ read # <<>> /\ option[1] = <<read[1]>>)
    <1>1. CASE option = <<(<<>>)>>
        BY <1>1
    <1>2. CASE option # <<(<<>>)>>
        <2>1. found /\ option = [i \in DOMAIN read |-> <<read[i]>>]
            BY <1>2
        <2>2. read # <<>>
            BY <2>1
        <2>3. read = <<read[1]>>
            BY <2>2 DEF AnOption
        <2>4. 1 \in DOMAIN read
            BY <2>3
        <2>5. option[1] = <<read[1]>>
            BY <2>1, <2>4
        <2> QED  BY <2>1, <2>2, <2>5
    <1> QED  BY <1>1, <1>2

(* An email that is read comes back, a word as well.                       *)
LEMMA EmailJson == \A value \in JsonValues : ReadEmail(value) # <<>> => IsEmail(ReadEmail(value)[1])
    <1> TAKE value \in JsonValues
    <1> SUFFICES ASSUME ReadEmail(value) # <<>> PROVE IsEmail(ReadEmail(value)[1])
        OBVIOUS
    <1> DEFINE text == value[2]
               email == EmailFromStr(text)
    <1>1. Is("str", value) /\ ReadEmail(value) = AsOption(email)
        BY DEF ReadEmail
    <1>2. IsText(text)
        BY <1>1, JsonText
    <1> HIDE DEF text
    <1>3. email.error = "none" /\ ReadEmail(value) = <<email.item>>
        BY <1>1 DEF AsOption
    <1>4. IsEmail(email.item)
        BY <1>2, <1>3, EmailRead
    <1> HIDE DEF email
    <1> QED  BY <1>3, <1>4

(* A word that is read is a name. *)
LEMMA WordJson == \A value \in JsonValues : ReadWord(value) # <<>> => IsName(ReadWord(value)[1])
    <1> TAKE value \in JsonValues
    <1> SUFFICES ASSUME ReadWord(value) # <<>> PROVE IsName(ReadWord(value)[1])
        OBVIOUS
    <1> DEFINE word == WordOf(value)
               piece == value[2][1]
    <1>1. word # "" /\ ReadWord(value)[1] = word
        BY DEF ReadWord
    <1>2. Is("str", value) /\ Len(value[2]) = 1 /\ piece[1] = "char" /\ word = AsChar(piece)
        BY <1>1 DEF WordOf
    <1>3. word = piece[2][1]
        BY <1>2 DEF AsChar
    <1>4. IsText(value[2])
        BY <1>2, JsonText
    <1>5. DOMAIN value[2] = 1..1
        BY <1>2, <1>4, SeqFacts DEF IsText, IsList
    <1>6. IsPiece(piece)
        BY <1>4, <1>5 DEF IsText, IsList
    <1>7. piece = Char(word)
        BY <1>2, <1>3, <1>6 DEF IsPiece
    <1> HIDE DEF word, piece
    <1>8. WordOf(Word(word)) = word
        <2> DEFINE one == <<Char(word)>>
        <2>1. Word(word)[1] = "str" /\ Word(word)[2] = one
            BY DEF Word, Str
        <2>2. Len(one) = 1 /\ one[1] = Char(word)
            BY OneIsSeq
        <2> HIDE DEF one
        <2>3. AsChar(Char(word)) = word /\ Char(word)[1] = "char"
            BY <1>2, <1>7, CharBack
        <2> QED  BY <2>1, <2>2, <2>3 DEF WordOf, Is
    <1> QED  BY <1>1, <1>8 DEF IsName

(* Readers return options.                                                 *)
LEMMA MailboxOption == \A value : AnOption(ReadTypedMailbox(value)) /\ AnOption(ReadMailbox(value))
    <1> TAKE value
    <1> DEFINE raw == All([name |-> Optional(value, "name", ReadText), email |-> Required(value, "email", ReadEmail)])
               image == [i \in DOMAIN raw |-> Mailbox(raw[i].name, raw[i].email)]
               text == value[2]
               parsed == AsOption(MailboxFromStr(text))
               typed == ReadTypedMailbox(value)
               mailbox == ReadMailbox(value)
    <1>1. typed = IF Tag(value) # "mailbox" THEN <<>> ELSE image
        BY DEF ReadTypedMailbox, Map
    <1>2. AnOption(raw)
        BY AllIs
    <1>3. image = [i \in DOMAIN raw |-> image[i]]
        OBVIOUS
    <1> HIDE DEF raw, image
    <1>4. AnOption(image) /\ AnOption(<<>>)
        BY <1>2, <1>3, OptionImage DEF AnOption
    <1>5. AnOption(parsed)
        BY DEF AsOption, AnOption
    <1>6. mailbox = parsed \/ mailbox = typed
        BY DEF ReadMailbox, StringOr
    <1> HIDE DEF parsed, typed, mailbox
    <1>7. AnOption(typed) /\ AnOption(mailbox)
        BY <1>1, <1>4, <1>5, <1>6
    <1> QED  BY <1>7 DEF typed, mailbox

(* A mailbox that is read as an object is one.                             *)
LEMMA TypedMailboxRead ==
    \A value \in JsonValues : ReadTypedMailbox(value) # <<>> => IsMailbox(ReadTypedMailbox(value)[1])
    <1> TAKE value \in JsonValues
    <1> SUFFICES ASSUME ReadTypedMailbox(value) # <<>> PROVE IsMailbox(ReadTypedMailbox(value)[1])
        OBVIOUS
    <1> DEFINE name == Optional(value, "name", ReadText)
               email == Required(value, "email", ReadEmail)
               fields == [name |-> name, email |-> email]
               raw == All(fields)
               result == ReadTypedMailbox(value)
               text == ReadText(Value(value, "name"))
               found == Once(value, "name")
    <1>1. Tag(value) = "mailbox" /\ result = [i \in DOMAIN raw |-> Mailbox(raw[i].name, raw[i].email)]
        BY DEF ReadTypedMailbox, Map
    <1>2. Is("obj", value)
        BY <1>1 DEF Tag
    <1>3. /\ name = <<(<<>>)>> \/ name = <<>> \/ (found /\ name = [i \in DOMAIN text |-> <<text[i]>>])
          /\ email # <<>> => Once(value, "email") /\ email = ReadEmail(Value(value, "email"))
        BY DEF Optional, OrDefault, Required, Map
    <1>4. AnOption(text)
        BY DEF ReadText, AnOption
    <1>5. found /\ text # <<>> => IsSeq(text[1])
        <2> DEFINE item == Value(value, "name")
        <2>1. found => item \in JsonValues
            BY <1>2, JsonParts
        <2>2. text = ReadText(item)
            OBVIOUS
        <2> HIDE DEF item, text
        <2>3. text # <<>> => Is("str", item) /\ text = <<AsText(item[2])>>
            BY <2>2 DEF ReadText
        <2>4. found /\ text # <<>> => IsSeq(AsText(item[2]))
            BY <2>1, <2>3, JsonText
        <2> QED  BY <2>3, <2>4
    <1>6. email # <<>> => IsEmail(email[1])
        <2> DEFINE item == Value(value, "email")
        <2>1. Once(value, "email") => item \in JsonValues
            BY <1>2, JsonParts
        <2>2. email # <<>> => Once(value, "email") /\ email = ReadEmail(item)
            BY <1>3
        <2> HIDE DEF item, email
        <2> QED  BY <2>1, <2>2, EmailJson
    <1>7. fields.name = name /\ fields.email = email /\ DOMAIN fields = {"name", "email"}
        OBVIOUS
    <1> HIDE DEF name, email, fields, result, text, found
    <1>8. raw # <<>>
        <2> HIDE DEF raw
        <2>1. raw = <<>> => result = <<>>
            BY <1>1
        <2> QED  BY <2>1 DEF result
    <1>9. raw = <<raw[1]>> /\ raw[1].name = name[1] /\ raw[1].email = email[1] /\ name # <<>> /\ email # <<>>
        <2>1. raw = <<[f \in DOMAIN fields |-> fields[f][1]]>> /\ raw[1] = [f \in DOMAIN fields |-> fields[f][1]]
              /\ \A f \in DOMAIN fields : fields[f] # <<>>
            BY <1>8, AllGives
        <2> QED  BY <1>7, <2>1
    <1> HIDE DEF raw
    <1>10. result[1] = Mailbox(name[1], email[1])
        <2>1. 1 \in DOMAIN raw
            BY <1>9
        <2> QED  BY <1>1, <1>9, <2>1
    <1>11. IsOption(name[1], IsSeq)
        <2>1. name[1] = <<>> \/ (found /\ text # <<>> /\ name[1] = <<text[1]>>)
            BY <1>3, <1>4, <1>9, OptionalIs
        <2> QED  BY <1>5, <2>1 DEF IsOption
    <1>12. IsMailbox(result[1])
        <2> DEFINE n == name[1]
                   e == email[1]
                   mailbox == Mailbox(n, e)
        <2>1. IsOption(n, IsSeq) /\ IsEmail(e) /\ result[1] = mailbox
            BY <1>6, <1>9, <1>10, <1>11
        <2>2. mailbox.name = n /\ mailbox.email = e /\ mailbox = Mailbox(mailbox.name, mailbox.email)
            BY DEF Mailbox
        <2> HIDE DEF n, e, mailbox
        <2> QED  BY <2>1, <2>2 DEF IsMailbox
    <1> QED  BY <1>12 DEF result

(* Whatever is read as a mailbox is one.                                   *)
LEMMA MailboxRead == \A value \in JsonValues : ReadMailbox(value) # <<>> => IsMailbox(ReadMailbox(value)[1])
    <1> TAKE value \in JsonValues
    <1> DEFINE text == value[2]
               parsed == MailboxFromStr(text)
    <1>1. ReadMailbox(value) = IF StringCompat /\ Is("str", value) THEN AsOption(parsed) ELSE ReadTypedMailbox(value)
        BY DEF ReadMailbox, StringOr
    <1>2. CASE StringCompat /\ Is("str", value)
        <2>1. IsText(text)
            BY <1>2, JsonText
        <2>2. MailboxResult(parsed)
            BY <2>1, StringsRead
        <2> HIDE DEF parsed
        <2>3. AsOption(parsed) # <<>> => IsMailbox(AsOption(parsed)[1])
            BY <2>2 DEF AsOption, MailboxResult
        <2> QED  BY <1>1, <1>2, <2>3
    <1>3. CASE ~(StringCompat /\ Is("str", value))
        <2>1. ReadMailbox(value) = ReadTypedMailbox(value)
            BY <1>1, <1>3
        <2> QED  BY <2>1, TypedMailboxRead
    <1> QED  BY <1>2, <1>3

(* An optional list of an object is read as mailboxes that are ones.        *)
LEMMA MailboxesRead ==
    ASSUME NEW value, \A i \in DOMAIN value[2] : value[2][i][2] \in JsonValues, NEW key,
           OptionalMany(value, key, ReadMailbox) # <<>>
    PROVE  IsList(OptionalMany(value, key, ReadMailbox)[1], IsMailbox)
    <1> DEFINE option == OptionalMany(value, key, ReadMailbox)
               item == Value(value, key)
               items == item[2]
               image == [i \in DOMAIN items |-> ReadMailbox(items[i])]
    <1>1. \/ option = <<(<<>>)>>
          \/ Once(value, key) /\ Is("arr", item) /\ option = All(image)
        BY DEF OptionalMany, OrDefault, Required, ReadMany
    <1>2. CASE option = <<(<<>>)>>
        <2>1. option[1] = <<>> /\ IsSeq(<<>>) /\ DOMAIN <<>> = {}
            BY <1>2, EmptyIsSeq
        <2> HIDE DEF option
        <2>2. IsList(option[1], IsMailbox)
            BY <2>1 DEF IsList
        <2> QED  BY <2>2 DEF option
    <1>3. CASE Once(value, key) /\ Is("arr", item) /\ option = All(image)
        <2>1. item \in JsonValues
            BY <1>3, FieldValue
        <2>2. IsSeq(items) /\ \A i \in DOMAIN items : items[i] \in JsonValues
            <3> HIDE DEF item
            <3> QED  BY <1>3, <2>1, JsonParts
        <2>3. image = [i \in DOMAIN items |-> image[i]] /\ \A i \in DOMAIN items : image[i] = ReadMailbox(items[i])
            OBVIOUS
        <2> HIDE DEF image, items, option
        <2>4. All(image) # <<>>
            BY <1>3 DEF option
        <2>5. /\ All(image) = <<All(image)[1]>> /\ IsSeq(All(image)[1]) /\ DOMAIN All(image)[1] = DOMAIN items
              /\ \A i \in DOMAIN items : image[i] # <<>> /\ All(image)[1][i] = image[i][1]
            BY <2>2, <2>3, <2>4, ManyRead
        <2> DEFINE list == All(image)[1]
        <2> HIDE DEF list
        <2>6. \A i \in DOMAIN list : IsMailbox(list[i])
            <3> TAKE i \in DOMAIN list
            <3> DEFINE part == items[i]
            <3>1. part \in JsonValues /\ ReadMailbox(part) # <<>> /\ list[i] = ReadMailbox(part)[1]
                BY <2>2, <2>3, <2>5 DEF list
            <3> HIDE DEF part
            <3>2. IsMailbox(ReadMailbox(part)[1])
                BY <3>1, MailboxRead
            <3> QED  BY <3>1, <3>2
        <2>7. IsList(list, IsMailbox)
            BY <2>5, <2>6 DEF list, IsList
        <2>8. option[1] = list
            BY <1>3 DEF list
        <2> QED  BY <2>7, <2>8 DEF option
    <1> QED  BY <1>1, <1>2, <1>3

(* An object has JSON under its keys.                                      *)
LEMMA JsonFields == \A value \in JsonValues : Is("obj", value) => \A i \in DOMAIN value[2] : value[2][i][2] \in JsonValues
    BY JsonParts

(* Whatever is read as a group is one of mailboxes.                        *)
LEMMA GroupRead ==
    ASSUME NEW value \in JsonValues, ReadTypedGroup(value) # <<>>
    PROVE  IsAddress(ReadTypedGroup(value)[1])
    <1> DEFINE members == OptionalMany(value, "members", ReadMailbox)
               name == Required(value, "name", ReadText)
               fields == [name |-> name, members |-> members]
               raw == All(fields)
               result == ReadTypedGroup(value)
    <1>1. AnOption(raw)
        BY AllIs
    <1>2. Tag(value) = "group" /\ result = [i \in DOMAIN raw |-> Group(raw[i].name, raw[i].members)]
        BY DEF ReadTypedGroup, Map
    <1>3. Is("obj", value)
        BY <1>2 DEF Tag
    <1>4. members # <<>> => IsList(members[1], IsMailbox)
        <2>1. \A i \in DOMAIN value[2] : value[2][i][2] \in JsonValues
            BY <1>3, JsonFields
        <2> QED  BY <2>1, MailboxesRead
    <1>5. name # <<>> => IsSeq(name[1])
        <2> DEFINE item == Value(value, "name")
        <2>1. name # <<>> => Once(value, "name") /\ name = ReadText(item)
            BY DEF Required
        <2>2. Once(value, "name") => item \in JsonValues
            BY <1>3, JsonParts
        <2> HIDE DEF item, name
        <2>3. name # <<>> => Is("str", item) /\ name = <<AsText(item[2])>> /\ item \in JsonValues
            BY <2>1, <2>2 DEF ReadText
        <2>4. name # <<>> => IsSeq(AsText(item[2]))
            BY <2>3, JsonText
        <2> QED  BY <2>3, <2>4
    <1>6. fields.members = members /\ fields.name = name /\ DOMAIN fields = {"name", "members"}
        OBVIOUS
    <1> HIDE DEF members, fields, name
    <1>7. raw # <<>>
        <2> HIDE DEF raw
        <2>1. raw = <<>> => result = <<>>
            BY <1>2
        <2> QED  BY <2>1
    <1>8. raw = <<raw[1]>> /\ raw[1].members = members[1] /\ members # <<>> /\ raw[1].name = name[1] /\ name # <<>>
        <2>1. /\ raw = <<[f \in DOMAIN fields |-> fields[f][1]]>> /\ raw[1] = [f \in DOMAIN fields |-> fields[f][1]]
              /\ \A f \in DOMAIN fields : fields[f] # <<>>
            BY <1>7, AllGives
        <2> QED  BY <1>6, <2>1
    <1> HIDE DEF raw
    <1>9. result[1] = Group(name[1], members[1])
        <2>1. 1 \in DOMAIN raw
            BY <1>8
        <2> QED  BY <1>2, <1>8, <2>1
    <1>10. IsAddress(result[1])
        <2> DEFINE n == name[1]
                   m == members[1]
                   group == Group(n, m)
        <2>1. IsSeq(n) /\ IsList(m, IsMailbox) /\ result[1] = group
            BY <1>4, <1>5, <1>8, <1>9
        <2>2. group.kind = "group" /\ group.name = n /\ group.members = m /\ group = Group(group.name, group.members)
            BY DEF Group
        <2> HIDE DEF n, m, group
        <2> QED  BY <2>1, <2>2 DEF IsAddress, IsGroup
    <1> QED  BY <1>10

(* Whatever is read as an address is a mailbox or a group of mailboxes.    *)
LEMMA AddressRead == \A value \in JsonValues : ReadAddress(value) # <<>> => IsAddress(ReadAddress(value)[1])
    <1> TAKE value \in JsonValues
    <1> DEFINE text == value[2]
               parsed == AddressFromStr(text)
               typed == ReadTypedAddress(value)
    <1>1. ReadAddress(value) = IF StringCompat /\ Is("str", value) THEN AsOption(parsed) ELSE typed
        BY DEF ReadAddress, StringOr
    <1>2. CASE StringCompat /\ Is("str", value)
        <2>1. IsText(text)
            BY <1>2, JsonText
        <2>2. AddressResult(parsed)
            BY <2>1, StringsRead
        <2> HIDE DEF parsed
        <2>3. AsOption(parsed) # <<>> => IsAddress(AsOption(parsed)[1])
            BY <2>2 DEF AsOption, AddressResult
        <2> QED  BY <1>1, <1>2, <2>3
    <1>3. CASE ~(StringCompat /\ Is("str", value))
        <2>1. typed # <<>> => IsAddress(typed[1])
            <3>1. CASE Tag(value) = "group"
                <4>1. typed = ReadTypedGroup(value)
                    BY <3>1 DEF ReadTypedAddress
                <4> QED  BY <4>1, GroupRead
            <3>2. CASE Tag(value) # "group"
                <4>1. typed = ReadTypedMailbox(value)
                    BY <3>2 DEF ReadTypedAddress
                <4> QED  BY <4>1, TypedMailboxRead, MailboxAddress
            <3> QED  BY <3>1, <3>2
        <2> HIDE DEF typed
        <2> QED  BY <1>1, <1>3, <2>1
    <1> QED  BY <1>2, <1>3

(* An optional list is read as addresses that are ones.                    *)
LEMMA AddressesRead ==
    ASSUME NEW value, \A i \in DOMAIN value[2] : value[2][i][2] \in JsonValues, NEW key,
           OptionalMany(value, key, ReadAddress) # <<>>
    PROVE  IsList(OptionalMany(value, key, ReadAddress)[1], IsAddress)
    <1> DEFINE option == OptionalMany(value, key, ReadAddress)
               item == Value(value, key)
               items == item[2]
               image == [i \in DOMAIN items |-> ReadAddress(items[i])]
    <1>1. \/ option = <<(<<>>)>>
          \/ Once(value, key) /\ Is("arr", item) /\ option = All(image)
        BY DEF OptionalMany, OrDefault, Required, ReadMany
    <1>2. CASE option = <<(<<>>)>>
        <2>1. option[1] = <<>> /\ IsSeq(<<>>) /\ DOMAIN <<>> = {}
            BY <1>2, EmptyIsSeq
        <2> HIDE DEF option
        <2>2. IsList(option[1], IsAddress)
            BY <2>1 DEF IsList
        <2> QED  BY <2>2 DEF option
    <1>3. CASE Once(value, key) /\ Is("arr", item) /\ option = All(image)
        <2>1. item \in JsonValues
            BY <1>3, FieldValue
        <2>2. IsSeq(items) /\ \A i \in DOMAIN items : items[i] \in JsonValues
            <3> HIDE DEF item
            <3> QED  BY <1>3, <2>1, JsonParts
        <2>3. image = [i \in DOMAIN items |-> image[i]] /\ \A i \in DOMAIN items : image[i] = ReadAddress(items[i])
            OBVIOUS
        <2> HIDE DEF image, items, option
        <2>4. All(image) # <<>>
            BY <1>3 DEF option
        <2>5. /\ All(image) = <<All(image)[1]>> /\ IsSeq(All(image)[1]) /\ DOMAIN All(image)[1] = DOMAIN items
              /\ \A i \in DOMAIN items : image[i] # <<>> /\ All(image)[1][i] = image[i][1]
            BY <2>2, <2>3, <2>4, ManyRead
        <2> DEFINE list == All(image)[1]
        <2> HIDE DEF list
        <2>6. \A i \in DOMAIN list : IsAddress(list[i])
            <3> TAKE i \in DOMAIN list
            <3> DEFINE part == items[i]
            <3>1. part \in JsonValues /\ ReadAddress(part) # <<>> /\ list[i] = ReadAddress(part)[1]
                BY <2>2, <2>3, <2>5 DEF list
            <3> HIDE DEF part
            <3>2. IsAddress(ReadAddress(part)[1])
                BY <3>1, AddressRead
            <3> QED  BY <3>1, <3>2
        <2>7. IsList(list, IsAddress)
            BY <2>5, <2>6 DEF list, IsList
        <2>8. option[1] = list
            BY <1>3 DEF list
        <2> QED  BY <2>7, <2>8 DEF option
    <1> QED  BY <1>1, <1>2, <1>3

(* An optional list is read as emails that come back.                      *)
LEMMA EmailsRead ==
    ASSUME NEW value, \A i \in DOMAIN value[2] : value[2][i][2] \in JsonValues, NEW key,
           OptionalMany(value, key, ReadEmail) # <<>>
    PROVE  IsList(OptionalMany(value, key, ReadEmail)[1], IsEmail)
    <1> DEFINE option == OptionalMany(value, key, ReadEmail)
               item == Value(value, key)
               items == item[2]
               image == [i \in DOMAIN items |-> ReadEmail(items[i])]
    <1>1. \/ option = <<(<<>>)>>
          \/ Once(value, key) /\ Is("arr", item) /\ option = All(image)
        BY DEF OptionalMany, OrDefault, Required, ReadMany
    <1>2. CASE option = <<(<<>>)>>
        <2>1. option[1] = <<>> /\ IsSeq(<<>>) /\ DOMAIN <<>> = {}
            BY <1>2, EmptyIsSeq
        <2> HIDE DEF option
        <2>2. IsList(option[1], IsEmail)
            BY <2>1 DEF IsList
        <2> QED  BY <2>2 DEF option
    <1>3. CASE Once(value, key) /\ Is("arr", item) /\ option = All(image)
        <2>1. item \in JsonValues
            BY <1>3, FieldValue
        <2>2. IsSeq(items) /\ \A i \in DOMAIN items : items[i] \in JsonValues
            <3> HIDE DEF item
            <3> QED  BY <1>3, <2>1, JsonParts
        <2>3. image = [i \in DOMAIN items |-> image[i]] /\ \A i \in DOMAIN items : image[i] = ReadEmail(items[i])
            OBVIOUS
        <2> HIDE DEF image, items, option
        <2>4. All(image) # <<>>
            BY <1>3 DEF option
        <2>5. /\ All(image) = <<All(image)[1]>> /\ IsSeq(All(image)[1]) /\ DOMAIN All(image)[1] = DOMAIN items
              /\ \A i \in DOMAIN items : image[i] # <<>> /\ All(image)[1][i] = image[i][1]
            BY <2>2, <2>3, <2>4, ManyRead
        <2> DEFINE list == All(image)[1]
        <2> HIDE DEF list
        <2>6. \A i \in DOMAIN list : IsEmail(list[i])
            <3> TAKE i \in DOMAIN list
            <3> DEFINE part == items[i]
            <3>1. part \in JsonValues /\ ReadEmail(part) # <<>> /\ list[i] = ReadEmail(part)[1]
                BY <2>2, <2>3, <2>5 DEF list
            <3> HIDE DEF part
            <3>2. IsEmail(ReadEmail(part)[1])
                BY <3>1, EmailJson
            <3> QED  BY <3>1, <3>2
        <2>7. IsList(list, IsEmail)
            BY <2>5, <2>6 DEF list, IsList
        <2>8. option[1] = list
            BY <1>3 DEF list
        <2> QED  BY <2>7, <2>8 DEF option
    <1> QED  BY <1>1, <1>2, <1>3

-------------------------------------------------------------------------------
(* Headers, attachments, bodies and messages that are read. *)

(* A header that is read is a valid one.                                   *)
LEMMA HeaderRead == \A value \in JsonValues : ReadHeader(value) # <<>> => IsHeader(ReadHeader(value)[1])
    <1> TAKE value \in JsonValues
    <1> SUFFICES ASSUME ReadHeader(value) # <<>> PROVE IsHeader(ReadHeader(value)[1])
        OBVIOUS
    <1> DEFINE name == Required(value, "name", ReadWord)
               content == Required(value, "value", ReadString)
               fields == [name |-> name, value |-> content]
               raw == All(fields)
    <1>1. Is("obj", value) /\ raw # <<>> /\ ReadHeader(value) = raw /\ ValidHeader(raw[1]) = "none"
        BY DEF ReadHeader
    <1>2. name # <<>> => IsName(name[1])
        <2> DEFINE item == Value(value, "name")
        <2>1. name # <<>> => Once(value, "name") /\ name = ReadWord(item)
            BY DEF Required
        <2>2. Once(value, "name") => item \in JsonValues
            BY <1>1, JsonParts
        <2> HIDE DEF item, name
        <2> QED  BY <2>1, <2>2, WordJson
    <1>3. fields.name = name /\ fields.value = content /\ DOMAIN fields = {"name", "value"}
        OBVIOUS
    <1> HIDE DEF name, content, fields
    <1>4. raw[1] = [f \in DOMAIN fields |-> fields[f][1]] /\ \A f \in DOMAIN fields : fields[f] # <<>>
        BY <1>1, AllGives
    <1>5. raw[1] = [name |-> name[1], value |-> content[1]] /\ name # <<>>
        BY <1>3, <1>4
    <1> DEFINE made == raw[1]
    <1> HIDE DEF raw
    <1>6. made = [name |-> made.name, value |-> made.value] /\ made.name = name[1]
        BY <1>5
    <1> HIDE DEF made
    <1>7. IsHeader(made)
        BY <1>1, <1>2, <1>5, <1>6 DEF IsHeader, made
    <1> QED  BY <1>1, <1>7 DEF made

(* The body of an attachment is bytes or a reference.                      *)
LEMMA AttachmentBodyRead ==
    ASSUME NEW value, ReadAttachmentBody(value) # <<>>
    PROVE  ReadAttachmentBody(value)[1].reference \in BOOLEAN
    <1> DEFINE bytes == Required(value, "bytes", ReadBytes)
               ref == Required(value, "reference", ReadString)
               a == [i \in DOMAIN bytes |-> [reference |-> FALSE, content |-> bytes[i]]]
               b == [i \in DOMAIN ref |-> [reference |-> TRUE, content |-> ref[i]]]
               result == ReadAttachmentBody(value)
    <1>1. result = a \/ result = b
        BY DEF ReadAttachmentBody, Map
    <1>2. AnOption(bytes) /\ AnOption(ref)
        BY DEF Required, ReadBytes, ReadString, AnOption
    <1>3. a # <<>> => a[1].reference \in BOOLEAN
        <2> HIDE DEF bytes
        <2>1. bytes = <<>> => a = <<>>
            OBVIOUS
        <2>2. bytes # <<>> => 1 \in DOMAIN bytes
            <3>1. bytes # <<>> => bytes = <<bytes[1]>>
                BY <1>2 DEF AnOption
            <3> QED  BY <3>1
        <2> QED  BY <2>1, <2>2
    <1>4. b # <<>> => b[1].reference \in BOOLEAN
        <2> HIDE DEF ref
        <2>1. ref = <<>> => b = <<>>
            OBVIOUS
        <2>2. ref # <<>> => 1 \in DOMAIN ref
            <3>1. ref # <<>> => ref = <<ref[1]>>
                BY <1>2 DEF AnOption
            <3> QED  BY <3>1
        <2> QED  BY <2>1, <2>2
    <1> HIDE DEF a, b, result
    <1> QED  BY <1>1, <1>3, <1>4 DEF result

(* "none", which stands for no name, is a word, too.                       *)
LEMMA NoneIsName == IsName("none")
    <1> DEFINE none == "none"
               one == <<Char(none)>>
    <1>1. Word(none)[1] = "str" /\ Word(none)[2] = one
        BY DEF Word, Str
    <1>2. Len(one) = 1 /\ one[1] = Char(none)
        BY OneIsSeq
    <1> HIDE DEF one
    <1>3. Char(none)[1] = "char"
        BY DEF Char, Lookalikes
    <1>4. none # ""
        OBVIOUS
    <1> HIDE DEF none
    <1>5. AsChar(Char(none)) = none
        BY CharBack
    <1>6. IsName(none)
        BY <1>1, <1>2, <1>3, <1>4, <1>5 DEF WordOf, Is, IsName
    <1> QED  BY <1>6 DEF none

(* A content type that is parsed is one that is read back.                 *)
LEMMA TypeJson ==
    ASSUME NEW value \in JsonValues, Parsed(value, ContentTypeFromStr) # <<>>
    PROVE  IsParsed(Parsed(value, ContentTypeFromStr)[1], ContentTypeFromStr)
    <1> DEFINE text == AsText(value[2])
    <1>1. Is("str", value) /\ Parsed(value, ContentTypeFromStr) = ContentTypeFromStr(text)
        BY DEF Parsed
    <1>2. IsSeq(text)
        BY <1>1, JsonText
    <1> HIDE DEF text
    <1>3. PICK out : ContentTypeFromStr(text) = <<out>> /\ IsSeq(out) /\ ContentTypeFromStr(out) = <<out>>
        BY <1>1, <1>2, ContentTypeBack
    <1>4. IsParsed(out, ContentTypeFromStr)
        BY <1>3 DEF IsParsed
    <1> QED  BY <1>1, <1>3, <1>4

(* So is a message id.                                                     *)
LEMMA IdJson ==
    ASSUME NEW value \in JsonValues, Parsed(value, MessageIdFromStr) # <<>>
    PROVE  IsParsed(Parsed(value, MessageIdFromStr)[1], MessageIdFromStr)
    <1> DEFINE text == AsText(value[2])
    <1>1. Is("str", value) /\ Parsed(value, MessageIdFromStr) = MessageIdFromStr(text)
        BY DEF Parsed
    <1>2. IsSeq(text)
        BY <1>1, JsonText
    <1> HIDE DEF text
    <1>3. PICK out : MessageIdFromStr(text) = <<out>> /\ IsSeq(out) /\ MessageIdFromStr(out) = <<out>>
        BY <1>1, <1>2, MessageIdBack
    <1>4. IsParsed(out, MessageIdFromStr)
        BY <1>3 DEF IsParsed
    <1> QED  BY <1>1, <1>3, <1>4

(* And a transport key, a correlation id or an idempotency key.            *)
LEMMA NewtypeJson ==
    ASSUME NEW value \in JsonValues, Parsed(value, NewtypeFromStr) # <<>>
    PROVE  IsParsed(Parsed(value, NewtypeFromStr)[1], NewtypeFromStr)
    <1> DEFINE text == AsText(value[2])
    <1>1. Is("str", value) /\ Parsed(value, NewtypeFromStr) = NewtypeFromStr(text)
        BY DEF Parsed
    <1>2. IsSeq(text)
        BY <1>1, JsonText
    <1> HIDE DEF text
    <1>3. NewtypeFromStr(text) = <<text>>
        BY <1>1 DEF NewtypeFromStr
    <1>4. IsParsed(text, NewtypeFromStr)
        BY <1>2, <1>3 DEF IsParsed
    <1> QED  BY <1>1, <1>3, <1>4

(* An optional word is a name, or "none".                                  *)
LEMMA OptionalWord ==
    ASSUME NEW object, \A i \in DOMAIN object[2] : object[2][i][2] \in JsonValues, NEW key,
           Optional(object, key, ReadWord) # <<>>
    PROVE  LET option == Optional(object, key, ReadWord)[1]
           IN  IsName(IF option = <<>> THEN "none" ELSE option[1])
    <1> DEFINE option == Optional(object, key, ReadWord)
               item == Value(object, key)
               read == ReadWord(item)
               found == Once(object, key)
    <1>1. option = <<(<<>>)>> \/ option = <<>> \/ (found /\ option = [i \in DOMAIN read |-> <<read[i]>>])
        BY DEF Optional, OrDefault, Required, Map
    <1>2. AnOption(read)
        BY DEF ReadWord, AnOption
    <1>3. found => item \in JsonValues
        BY FieldValue
    <1> HIDE DEF option, item
    <1>4. found /\ read # <<>> => IsName(read[1])
        BY <1>3, WordJson
    <1> HIDE DEF read, found
    <1>5. option # <<>>
        BY DEF option
    <1>6. option[1] = <<>> \/ (found /\ read # <<>> /\ option[1] = <<read[1]>>)
        BY <1>1, <1>2, <1>5, OptionalIs
    <1> DEFINE first == option[1]
               w == read[1]
    <1>7. first = <<>> \/ (IsName(w) /\ first = <<w>>)
        BY <1>4, <1>6
    <1> HIDE DEF first, w
    <1>8. IsName(IF first = <<>> THEN "none" ELSE first[1])
        <2>1. CASE first = <<>>
            BY <2>1, NoneIsName
        <2>2. CASE first # <<>>
            <3>1. IsName(w) /\ first[1] = w
                BY <1>7, <2>2
            <3> QED  BY <2>2, <3>1
        <2> QED  BY <2>1, <2>2
    <1> QED  BY <1>8 DEF first, option

(* Whatever is read as an attachment is one.                               *)
LEMMA AttachmentRead == \A value \in JsonValues : ReadAttachment(value) # <<>> => IsAttachment(ReadAttachment(value)[1])
    <1> TAKE value \in JsonValues
    <1> SUFFICES ASSUME ReadAttachment(value) # <<>> PROVE IsAttachment(ReadAttachment(value)[1])
        OBVIOUS
    <1> DEFINE renamed == [i \in DOMAIN value[2] |->
                           IF value[2][i][1] = "inline" THEN <<"disposition", value[2][i][2]>> ELSE value[2][i]]
               object == Obj(renamed)
               filename == Optional(object, "filename", ReadWord)
               type == Required(object, "content_type", LAMBDA v : Parsed(v, ContentTypeFromStr))
               cid == Optional(object, "content_id", ReadWord)
               inline == OrDefault(object, "disposition", FALSE, ReadDisposition)
               content == Required(object, "body", ReadAttachmentBody)
               fields == [filename |-> filename, type |-> type, cid |-> cid, inline |-> inline, body |-> content]
               raw == All(fields)
               word(option) == IF option = <<>> THEN "none" ELSE option[1]
               result == ReadAttachment(value)
    <1>1. /\ Is("obj", value)
          /\ result = [i \in DOMAIN raw |-> [type |-> raw[i].type, filename |-> word(raw[i].filename), cid |-> word(raw[i].cid),
                                             inline |-> raw[i].inline, reference |-> raw[i].body.reference,
                                             content |-> raw[i].body.content]]
        BY DEF ReadAttachment, Map
    <1>2. \A i \in DOMAIN object[2] : object[2][i][2] \in JsonValues
        <2>1. \A i \in DOMAIN value[2] : value[2][i][2] \in JsonValues
            BY <1>1, JsonFields
        <2>2. \A i \in DOMAIN value[2] : renamed[i][2] = value[2][i][2]
            OBVIOUS
        <2>3. object[2] = renamed /\ DOMAIN renamed = DOMAIN value[2]
            BY DEF Obj
        <2> QED  BY <2>1, <2>2, <2>3
    <1> HIDE DEF object, renamed
    <1>3. filename # <<>> => IsName(word(filename[1]))
        BY <1>2, OptionalWord
    <1>4. cid # <<>> => IsName(word(cid[1]))
        BY <1>2, OptionalWord
    <1>5. type # <<>> => IsParsed(type[1], ContentTypeFromStr)
        <2> DEFINE item == Value(object, "content_type")
        <2>1. type # <<>> => Once(object, "content_type") /\ type = Parsed(item, ContentTypeFromStr)
            BY DEF Required
        <2>2. Once(object, "content_type") => item \in JsonValues
            BY <1>2, FieldValue
        <2> HIDE DEF item, type
        <2> QED  BY <2>1, <2>2, TypeJson
    <1>6. inline # <<>> => inline[1] \in BOOLEAN
        <2> DEFINE item == Value(object, "disposition")
        <2>1. inline # <<>> => inline[1] = FALSE \/ (Once(object, "disposition") /\ inline = ReadDisposition(item))
            BY DEF OrDefault, Required
        <2>2. Once(object, "disposition") => item \in JsonValues
            BY <1>2, FieldValue
        <2> HIDE DEF item, inline
        <2>3. item \in JsonValues /\ ReadDisposition(item) # <<>> => ReadDisposition(item)[1] \in BOOLEAN
            <3> DEFINE flag == WordOf(item) = "inline"
                       bit == item[2]
                       read == ReadDisposition(item)
            <3>1. item \in JsonValues /\ Is("bool", item) => bit \in BOOLEAN
                BY JsonAssumption DEF IsJson
            <3>2. (Is("bool", item) /\ read = <<bit>>) \/ read = <<flag>> \/ read = <<>>
                BY DEF ReadDisposition
            <3>3. flag \in BOOLEAN
                OBVIOUS
            <3> HIDE DEF flag, bit, read
            <3>4. item \in JsonValues /\ read # <<>> => read[1] \in BOOLEAN
                BY <3>1, <3>2, <3>3
            <3> QED  BY <3>4 DEF read
        <2> QED  BY <2>1, <2>2, <2>3
    <1>7. content # <<>> => content[1].reference \in BOOLEAN
        <2> DEFINE item == Value(object, "body")
        <2>1. content # <<>> => content = ReadAttachmentBody(item)
            BY DEF Required
        <2> HIDE DEF item, content
        <2> QED  BY <2>1, AttachmentBodyRead
    <1>8. /\ fields.filename = filename /\ fields.type = type /\ fields.cid = cid /\ fields.inline = inline
          /\ fields.body = content /\ DOMAIN fields = {"filename", "type", "cid", "inline", "body"}
        OBVIOUS
    <1> HIDE DEF filename, type, cid, inline, content, fields, word, result
    <1>9. raw # <<>>
        <2> HIDE DEF raw
        <2>1. raw = <<>> => result = <<>>
            BY <1>1
        <2> QED  BY <2>1 DEF result
    <1>10. /\ raw = <<raw[1]>> /\ raw[1].filename = filename[1] /\ raw[1].type = type[1] /\ raw[1].cid = cid[1]
           /\ raw[1].inline = inline[1] /\ raw[1].body = content[1]
           /\ filename # <<>> /\ type # <<>> /\ cid # <<>> /\ inline # <<>> /\ content # <<>>
        <2>1. /\ raw = <<[f \in DOMAIN fields |-> fields[f][1]]>> /\ raw[1] = [f \in DOMAIN fields |-> fields[f][1]]
              /\ \A f \in DOMAIN fields : fields[f] # <<>>
            BY <1>9, AllGives
        <2> QED  BY <1>8, <2>1
    <1> HIDE DEF raw
    <1> DEFINE t == type[1]
               f == word(filename[1])
               c == word(cid[1])
               d == inline[1]
               r == content[1].reference
               b == content[1].content
               made == [type |-> t, filename |-> f, cid |-> c, inline |-> d, reference |-> r, content |-> b]
    <1>11. result[1] = made
        <2>1. 1 \in DOMAIN raw
            BY <1>10
        <2> QED  BY <1>1, <1>10, <2>1
    <1>12. /\ IsParsed(t, ContentTypeFromStr) /\ IsName(f) /\ IsName(c) /\ d \in BOOLEAN /\ r \in BOOLEAN
        BY <1>3, <1>4, <1>5, <1>6, <1>7, <1>10
    <1> HIDE DEF t, f, c, d, r, b
    <1>13. /\ made = [type |-> made.type, filename |-> made.filename, cid |-> made.cid, inline |-> made.inline,
                      reference |-> made.reference, content |-> made.content]
           /\ made.type = t /\ made.filename = f /\ made.cid = c /\ made.inline = d /\ made.reference = r
        OBVIOUS
    <1> HIDE DEF made
    <1>14. IsAttachment(made)
        BY <1>12, <1>13 DEF IsAttachment
    <1> QED  BY <1>11, <1>14 DEF result

(* Whatever is read as a body is one.                                      *)
LEMMA BodyRead == \A value \in JsonValues : ReadBodyJson(value) # <<>> => IsBody(ReadBodyJson(value)[1])
    <1> TAKE value \in JsonValues
    <1> SUFFICES ASSUME ReadBodyJson(value) # <<>> PROVE IsBody(ReadBodyJson(value)[1])
        OBVIOUS
    <1> DEFINE text == Required(value, "text", ReadString)
               html == Required(value, "html", ReadString)
               part == Required(value, "part", ReadMimePart)
               a == [kind |-> <<"text">>, text |-> text]
               b == [kind |-> <<"html">>, html |-> html]
               c == [kind |-> <<"both">>, text |-> text, html |-> html]
               d == [kind |-> <<"mime">>, part |-> part]
               result == ReadBodyJson(value)
    <1>1. \/ result = All(a)
          \/ result = All(b)
          \/ result = All(c)
          \/ Tag(value) = "mime" /\ result = All(d)
        BY DEF ReadBodyJson
    <1>2. Tag(value) = "mime" /\ part # <<>> => ReadMimePart(WriteMimePart(part[1])) = <<part[1]>>
        <2> SUFFICES ASSUME Tag(value) = "mime", part # <<>> PROVE ReadMimePart(WriteMimePart(part[1])) = <<part[1]>>
            OBVIOUS
        <2> DEFINE item == Value(value, "part")
                   read == ReadMimePart(item)
        <2>1. Is("obj", value) /\ Once(value, "part") /\ part = read
            BY DEF Tag, Required
        <2>2. item \in JsonValues
            BY <2>1, JsonParts
        <2> HIDE DEF item
        <2>3. read = <<>> \/ (read = <<read[1]>> /\ ReadMimePart(WriteMimePart(read[1])) = <<read[1]>>)
            BY <2>2, PartsAssumption DEF IsOption
        <2> HIDE DEF read, part
        <2> QED  BY <2>1, <2>3
    <1>3. /\ a.kind = <<"text">> /\ a.text = text /\ DOMAIN a = {"kind", "text"}
          /\ b.kind = <<"html">> /\ b.html = html /\ DOMAIN b = {"kind", "html"}
          /\ c.kind = <<"both">> /\ c.text = text /\ c.html = html /\ DOMAIN c = {"kind", "text", "html"}
          /\ d.kind = <<"mime">> /\ d.part = part /\ DOMAIN d = {"kind", "part"}
        OBVIOUS
    <1> HIDE DEF text, html, part, a, b, c, d, result
    <1>4. result # <<>>
        BY DEF result
    <1>5. CASE result = All(a)
        <2>1. result[1] = [f \in DOMAIN a |-> a[f][1]]
            BY <1>4, <1>5, AllGives
        <2>2. result[1] = [kind |-> "text", text |-> text[1]]
            BY <1>3, <2>1
        <2> QED  BY <2>2 DEF IsBody, result
    <1>6. CASE result = All(b)
        <2>1. result[1] = [f \in DOMAIN b |-> b[f][1]]
            BY <1>4, <1>6, AllGives
        <2>2. result[1] = [kind |-> "html", html |-> html[1]]
            BY <1>3, <2>1
        <2> QED  BY <2>2 DEF IsBody, result
    <1>7. CASE result = All(c)
        <2>1. result[1] = [f \in DOMAIN c |-> c[f][1]]
            BY <1>4, <1>7, AllGives
        <2>2. result[1] = [kind |-> "both", text |-> text[1], html |-> html[1]]
            BY <1>3, <2>1
        <2> QED  BY <2>2 DEF IsBody, result
    <1>8. CASE Tag(value) = "mime" /\ result = All(d)
        <2>1. result[1] = [f \in DOMAIN d |-> d[f][1]] /\ \A f \in DOMAIN d : d[f] # <<>>
            BY <1>4, <1>8, AllGives
        <2> DEFINE p == part[1]
                   made == result[1]
        <2>2. made = [kind |-> "mime", part |-> p] /\ part # <<>>
            BY <1>3, <2>1
        <2>3. ReadMimePart(WriteMimePart(p)) = <<p>>
            BY <1>2, <1>8, <2>2
        <2> HIDE DEF p, made
        <2>4. made.kind = "mime" /\ made.part = p
            BY <2>2
        <2> QED  BY <2>2, <2>3, <2>4 DEF IsBody, made, result
    <1> QED  BY <1>1, <1>5, <1>6, <1>7, <1>8

(* An optional list is read as headers that are valid.                     *)
LEMMA HeadersRead ==
    ASSUME NEW value, \A i \in DOMAIN value[2] : value[2][i][2] \in JsonValues, NEW key,
           OptionalMany(value, key, ReadHeader) # <<>>
    PROVE  IsList(OptionalMany(value, key, ReadHeader)[1], IsHeader)
    <1> DEFINE option == OptionalMany(value, key, ReadHeader)
               item == Value(value, key)
               items == item[2]
               image == [i \in DOMAIN items |-> ReadHeader(items[i])]
    <1>1. \/ option = <<(<<>>)>>
          \/ Once(value, key) /\ Is("arr", item) /\ option = All(image)
        BY DEF OptionalMany, OrDefault, Required, ReadMany
    <1>2. CASE option = <<(<<>>)>>
        <2>1. option[1] = <<>> /\ IsSeq(<<>>) /\ DOMAIN <<>> = {}
            BY <1>2, EmptyIsSeq
        <2> HIDE DEF option
        <2>2. IsList(option[1], IsHeader)
            BY <2>1 DEF IsList
        <2> QED  BY <2>2 DEF option
    <1>3. CASE Once(value, key) /\ Is("arr", item) /\ option = All(image)
        <2>1. item \in JsonValues
            BY <1>3, FieldValue
        <2>2. IsSeq(items) /\ \A i \in DOMAIN items : items[i] \in JsonValues
            <3> HIDE DEF item
            <3> QED  BY <1>3, <2>1, JsonParts
        <2>3. image = [i \in DOMAIN items |-> image[i]] /\ \A i \in DOMAIN items : image[i] = ReadHeader(items[i])
            OBVIOUS
        <2> HIDE DEF image, items, option
        <2>4. All(image) # <<>>
            BY <1>3 DEF option
        <2>5. /\ All(image) = <<All(image)[1]>> /\ IsSeq(All(image)[1]) /\ DOMAIN All(image)[1] = DOMAIN items
              /\ \A i \in DOMAIN items : image[i] # <<>> /\ All(image)[1][i] = image[i][1]
            BY <2>2, <2>3, <2>4, ManyRead
        <2> DEFINE list == All(image)[1]
        <2> HIDE DEF list
        <2>6. \A i \in DOMAIN list : IsHeader(list[i])
            <3> TAKE i \in DOMAIN list
            <3> DEFINE part == items[i]
            <3>1. part \in JsonValues /\ ReadHeader(part) # <<>> /\ list[i] = ReadHeader(part)[1]
                BY <2>2, <2>3, <2>5 DEF list
            <3> HIDE DEF part
            <3>2. IsHeader(ReadHeader(part)[1])
                BY <3>1, HeaderRead
            <3> QED  BY <3>1, <3>2
        <2>7. IsList(list, IsHeader)
            BY <2>5, <2>6 DEF list, IsList
        <2>8. option[1] = list
            BY <1>3 DEF list
        <2> QED  BY <2>7, <2>8 DEF option
    <1> QED  BY <1>1, <1>2, <1>3

(* An optional list is read as attachments that are ones.                  *)
LEMMA AttachmentsRead ==
    ASSUME NEW value, \A i \in DOMAIN value[2] : value[2][i][2] \in JsonValues, NEW key,
           OptionalMany(value, key, ReadAttachment) # <<>>
    PROVE  IsList(OptionalMany(value, key, ReadAttachment)[1], IsAttachment)
    <1> DEFINE option == OptionalMany(value, key, ReadAttachment)
               item == Value(value, key)
               items == item[2]
               image == [i \in DOMAIN items |-> ReadAttachment(items[i])]
    <1>1. \/ option = <<(<<>>)>>
          \/ Once(value, key) /\ Is("arr", item) /\ option = All(image)
        BY DEF OptionalMany, OrDefault, Required, ReadMany
    <1>2. CASE option = <<(<<>>)>>
        <2>1. option[1] = <<>> /\ IsSeq(<<>>) /\ DOMAIN <<>> = {}
            BY <1>2, EmptyIsSeq
        <2> HIDE DEF option
        <2>2. IsList(option[1], IsAttachment)
            BY <2>1 DEF IsList
        <2> QED  BY <2>2 DEF option
    <1>3. CASE Once(value, key) /\ Is("arr", item) /\ option = All(image)
        <2>1. item \in JsonValues
            BY <1>3, FieldValue
        <2>2. IsSeq(items) /\ \A i \in DOMAIN items : items[i] \in JsonValues
            <3> HIDE DEF item
            <3> QED  BY <1>3, <2>1, JsonParts
        <2>3. image = [i \in DOMAIN items |-> image[i]] /\ \A i \in DOMAIN items : image[i] = ReadAttachment(items[i])
            OBVIOUS
        <2> HIDE DEF image, items, option
        <2>4. All(image) # <<>>
            BY <1>3 DEF option
        <2>5. /\ All(image) = <<All(image)[1]>> /\ IsSeq(All(image)[1]) /\ DOMAIN All(image)[1] = DOMAIN items
              /\ \A i \in DOMAIN items : image[i] # <<>> /\ All(image)[1][i] = image[i][1]
            BY <2>2, <2>3, <2>4, ManyRead
        <2> DEFINE list == All(image)[1]
        <2> HIDE DEF list
        <2>6. \A i \in DOMAIN list : IsAttachment(list[i])
            <3> TAKE i \in DOMAIN list
            <3> DEFINE part == items[i]
            <3>1. part \in JsonValues /\ ReadAttachment(part) # <<>> /\ list[i] = ReadAttachment(part)[1]
                BY <2>2, <2>3, <2>5 DEF list
            <3> HIDE DEF part
            <3>2. IsAttachment(ReadAttachment(part)[1])
                BY <3>1, AttachmentRead
            <3> QED  BY <3>1, <3>2
        <2>7. IsList(list, IsAttachment)
            BY <2>5, <2>6 DEF list, IsList
        <2>8. option[1] = list
            BY <1>3 DEF list
        <2> QED  BY <2>7, <2>8 DEF option
    <1> QED  BY <1>1, <1>2, <1>3

(* A text that is read is a sequence of characters.                        *)
LEMMA TextJson == \A value \in JsonValues : ReadText(value) # <<>> => IsSeq(ReadText(value)[1])
    <1> TAKE value \in JsonValues
    <1> SUFFICES ASSUME ReadText(value) # <<>> PROVE IsSeq(ReadText(value)[1])
        OBVIOUS
    <1> DEFINE text == AsText(value[2])
    <1>1. Is("str", value) /\ ReadText(value) = <<text>>
        BY DEF ReadText
    <1>2. IsSeq(text)
        BY <1>1, JsonText
    <1> HIDE DEF text
    <1> QED  BY <1>1, <1>2

(* Parsed returns an option for a message id.                              *)
LEMMA IdOption == \A value : AnOption(Parsed(value, MessageIdFromStr))
    BY DEF Parsed, MessageIdFromStr, AnOption

(* Whatever JSON another program posts, a message that is read from it is *)
(* one that the constructors would have made.                             *)
THEOREM MessageRead ==
    ASSUME NEW value \in JsonValues, ReadMessage(value) # <<>>
    PROVE  ReadMessage(value) = <<ReadMessage(value)[1]>> /\ IsMessage(ReadMessage(value)[1])
    <1> DEFINE from == Optional(value, "from", ReadMailbox)
               sender == Optional(value, "sender", ReadMailbox)
               to == OptionalMany(value, "to", ReadAddress)
               cc == OptionalMany(value, "cc", ReadAddress)
               bcc == OptionalMany(value, "bcc", ReadAddress)
               replyTo == OptionalMany(value, "reply_to", ReadAddress)
               subject == Optional(value, "subject", ReadText)
               date == Optional(value, "date", ReadDate)
               messageId == Optional(value, "message_id", LAMBDA v : Parsed(v, MessageIdFromStr))
               headers == OptionalMany(value, "headers", ReadHeader)
               content == Required(value, "body", ReadBodyJson)
               attachments == OptionalMany(value, "attachments", ReadAttachment)
               raw == [from |-> from, sender |-> sender, to |-> to, cc |-> cc, bcc |-> bcc, replyTo |-> replyTo,
                       subject |-> subject, date |-> date, messageId |-> messageId, headers |-> headers,
                       body |-> content, attachments |-> attachments]
               message == [from |-> from[1], sender |-> sender[1], to |-> to[1], cc |-> cc[1], bcc |-> bcc[1],
                           replyTo |-> replyTo[1], subject |-> subject[1], date |-> date[1], messageId |-> messageId[1],
                           headers |-> headers[1], body |-> content[1], attachments |-> attachments[1]]
               result == ReadMessage(value)
    <1>1. Is("obj", value) /\ result = All(raw)
        BY DEF ReadMessage
    <1>2. \A i \in DOMAIN value[2] : value[2][i][2] \in JsonValues
        BY <1>1, JsonFields
    <1>3. ASSUME to # <<>>, cc # <<>>, bcc # <<>>, replyTo # <<>>
          PROVE  IsList(to[1], IsAddress) /\ IsList(cc[1], IsAddress) /\ IsList(bcc[1], IsAddress) /\ IsList(replyTo[1], IsAddress)
        BY <1>2, <1>3, AddressesRead
    <1>4. headers # <<>> => IsList(headers[1], IsHeader)
        BY <1>2, HeadersRead
    <1>5. attachments # <<>> => IsList(attachments[1], IsAttachment)
        BY <1>2, AttachmentsRead
    <1>6. from # <<>> => IsOption(from[1], IsMailbox)
        <2> SUFFICES ASSUME from # <<>> PROVE IsOption(from[1], IsMailbox)
            OBVIOUS
        <2> DEFINE item == Value(value, "from")
                   read == ReadMailbox(item)
                   found == Once(value, "from")
        <2>1. from = <<(<<>>)>> \/ from = <<>> \/ (found /\ from = [i \in DOMAIN read |-> <<read[i]>>])
            BY DEF Optional, OrDefault, Required, Map
        <2>2. found => item \in JsonValues
            BY <1>1, JsonParts
        <2> HIDE DEF from, item
        <2>3. AnOption(read)
            BY MailboxOption
        <2>4. found /\ read # <<>> => IsMailbox(read[1])
            BY <2>2, MailboxRead
        <2> HIDE DEF read, found
        <2>5. from[1] = <<>> \/ (found /\ read # <<>> /\ from[1] = <<read[1]>>)
            BY <2>1, <2>3, OptionalIs
        <2> DEFINE option == from[1]
                   first == read[1]
        <2>6. option = <<>> \/ (IsMailbox(first) /\ option = <<first>>)
            BY <2>4, <2>5
        <2> HIDE DEF option, first
        <2>7. IsOption(option, IsMailbox)
            BY <2>6 DEF IsOption
        <2> QED  BY <2>7 DEF option
    <1>7. sender # <<>> => IsOption(sender[1], IsMailbox)
        <2> SUFFICES ASSUME sender # <<>> PROVE IsOption(sender[1], IsMailbox)
            OBVIOUS
        <2> DEFINE item == Value(value, "sender")
                   read == ReadMailbox(item)
                   found == Once(value, "sender")
        <2>1. sender = <<(<<>>)>> \/ sender = <<>> \/ (found /\ sender = [i \in DOMAIN read |-> <<read[i]>>])
            BY DEF Optional, OrDefault, Required, Map
        <2>2. found => item \in JsonValues
            BY <1>1, JsonParts
        <2> HIDE DEF sender, item
        <2>3. AnOption(read)
            BY MailboxOption
        <2>4. found /\ read # <<>> => IsMailbox(read[1])
            BY <2>2, MailboxRead
        <2> HIDE DEF read, found
        <2>5. sender[1] = <<>> \/ (found /\ read # <<>> /\ sender[1] = <<read[1]>>)
            BY <2>1, <2>3, OptionalIs
        <2> DEFINE option == sender[1]
                   first == read[1]
        <2>6. option = <<>> \/ (IsMailbox(first) /\ option = <<first>>)
            BY <2>4, <2>5
        <2> HIDE DEF option, first
        <2>7. IsOption(option, IsMailbox)
            BY <2>6 DEF IsOption
        <2> QED  BY <2>7 DEF option
    <1>8. subject # <<>> => IsOption(subject[1], IsSeq)
        <2> SUFFICES ASSUME subject # <<>> PROVE IsOption(subject[1], IsSeq)
            OBVIOUS
        <2> DEFINE item == Value(value, "subject")
                   read == ReadText(item)
                   found == Once(value, "subject")
        <2>1. subject = <<(<<>>)>> \/ subject = <<>> \/ (found /\ subject = [i \in DOMAIN read |-> <<read[i]>>])
            BY DEF Optional, OrDefault, Required, Map
        <2>2. found => item \in JsonValues
            BY <1>1, JsonParts
        <2> HIDE DEF subject, item
        <2>3. AnOption(read)
            BY DEF ReadText, AnOption
        <2>4. found /\ read # <<>> => IsSeq(read[1])
            BY <2>2, TextJson
        <2> HIDE DEF read, found
        <2>5. subject[1] = <<>> \/ (found /\ read # <<>> /\ subject[1] = <<read[1]>>)
            BY <2>1, <2>3, OptionalIs
        <2> DEFINE option == subject[1]
                   first == read[1]
        <2>6. option = <<>> \/ (IsSeq(first) /\ option = <<first>>)
            BY <2>4, <2>5
        <2> HIDE DEF option, first
        <2>7. IsOption(option, IsSeq)
            BY <2>6 DEF IsOption
        <2> QED  BY <2>7 DEF option
    <1>9. date # <<>> => IsOption(date[1], LAMBDA d : TRUE)
        <2> SUFFICES ASSUME date # <<>> PROVE IsOption(date[1], LAMBDA d : TRUE)
            OBVIOUS
        <2> DEFINE item == Value(value, "date")
                   read == ReadDate(item)
                   found == Once(value, "date")
        <2>1. date = <<(<<>>)>> \/ date = <<>> \/ (found /\ date = [i \in DOMAIN read |-> <<read[i]>>])
            BY DEF Optional, OrDefault, Required, Map
        <2>2. found => item \in JsonValues
            BY <1>1, JsonParts
        <2> HIDE DEF date, item
        <2>3. AnOption(read)
            BY DEF ReadDate, AnOption
        <2>4. found /\ read # <<>> => TRUE
            BY <2>2
        <2> HIDE DEF read, found
        <2>5. date[1] = <<>> \/ (found /\ read # <<>> /\ date[1] = <<read[1]>>)
            BY <2>1, <2>3, OptionalIs
        <2> DEFINE option == date[1]
                   first == read[1]
        <2>6. option = <<>> \/ (TRUE /\ option = <<first>>)
            BY <2>4, <2>5
        <2> HIDE DEF option, first
        <2>7. IsOption(option, LAMBDA d : TRUE)
            BY <2>6 DEF IsOption
        <2> QED  BY <2>7 DEF option
    <1>10. messageId # <<>> => IsOption(messageId[1], LAMBDA id : IsParsed(id, MessageIdFromStr))
        <2> SUFFICES ASSUME messageId # <<>> PROVE IsOption(messageId[1], LAMBDA id : IsParsed(id, MessageIdFromStr))
            OBVIOUS
        <2> DEFINE item == Value(value, "message_id")
                   read == Parsed(item, MessageIdFromStr)
                   found == Once(value, "message_id")
        <2>1. messageId = <<(<<>>)>> \/ messageId = <<>> \/ (found /\ messageId = [i \in DOMAIN read |-> <<read[i]>>])
            BY DEF Optional, OrDefault, Required, Map
        <2>2. found => item \in JsonValues
            BY <1>1, JsonParts
        <2> HIDE DEF messageId, item
        <2>3. AnOption(read)
            BY IdOption
        <2>4. found /\ read # <<>> => IsParsed(read[1], MessageIdFromStr)
            BY <2>2, IdJson
        <2> HIDE DEF read, found
        <2>5. messageId[1] = <<>> \/ (found /\ read # <<>> /\ messageId[1] = <<read[1]>>)
            BY <2>1, <2>3, OptionalIs
        <2> DEFINE option == messageId[1]
                   first == read[1]
        <2>6. option = <<>> \/ (IsParsed(first, MessageIdFromStr) /\ option = <<first>>)
            BY <2>4, <2>5
        <2> HIDE DEF option, first
        <2>7. IsOption(option, LAMBDA id : IsParsed(id, MessageIdFromStr))
            BY <2>6 DEF IsOption
        <2> QED  BY <2>7 DEF option
    <1>11. content # <<>> => IsBody(content[1])
        <2> DEFINE item == Value(value, "body")
        <2>1. content # <<>> => Once(value, "body") /\ content = ReadBodyJson(item)
            BY DEF Required
        <2>2. Once(value, "body") => item \in JsonValues
            BY <1>1, JsonParts
        <2> HIDE DEF item, content
        <2> QED  BY <2>1, <2>2, BodyRead
    <1> HIDE DEF from, sender, to, cc, bcc, replyTo, subject, date, messageId, headers, content, attachments
    <1>12. /\ raw.from = from /\ raw.sender = sender /\ raw.to = to /\ raw.cc = cc /\ raw.bcc = bcc /\ raw.replyTo = replyTo
           /\ raw.subject = subject /\ raw.date = date /\ raw.messageId = messageId /\ raw.headers = headers
           /\ raw.body = content /\ raw.attachments = attachments
           /\ DOMAIN raw = {"from", "sender", "to", "cc", "bcc", "replyTo", "subject", "date", "messageId", "headers", "body",
                            "attachments"}
        OBVIOUS
    <1> HIDE DEF raw, result
    <1>13. All(raw) # <<>>
        BY <1>1 DEF result
    <1>14. All(raw) = <<[f \in DOMAIN raw |-> raw[f][1]]>> /\ \A f \in DOMAIN raw : raw[f] # <<>>
        BY <1>13, AllGives
    <1>15. [f \in DOMAIN raw |-> raw[f][1]] = message
        BY <1>12
    <1>16. /\ from # <<>> /\ sender # <<>> /\ to # <<>> /\ cc # <<>> /\ bcc # <<>> /\ replyTo # <<>>
           /\ subject # <<>> /\ date # <<>> /\ messageId # <<>> /\ headers # <<>> /\ content # <<>> /\ attachments # <<>>
        BY <1>12, <1>14
    <1>17. /\ message.from = from[1] /\ message.sender = sender[1] /\ message.to = to[1] /\ message.cc = cc[1]
           /\ message.bcc = bcc[1] /\ message.replyTo = replyTo[1] /\ message.subject = subject[1] /\ message.date = date[1]
           /\ message.messageId = messageId[1] /\ message.headers = headers[1] /\ message.body = content[1]
           /\ message.attachments = attachments[1]
        OBVIOUS
    <1>18. message = [from |-> message.from, sender |-> message.sender, to |-> message.to, cc |-> message.cc, bcc |-> message.bcc,
                      replyTo |-> message.replyTo, subject |-> message.subject, date |-> message.date,
                      messageId |-> message.messageId, headers |-> message.headers, body |-> message.body,
                      attachments |-> message.attachments]
        OBVIOUS
    <1>19. \A field \in {"to", "cc", "bcc", "replyTo"} : IsList(message[field], IsAddress)
        <2>1. IsList(to[1], IsAddress) /\ IsList(cc[1], IsAddress) /\ IsList(bcc[1], IsAddress) /\ IsList(replyTo[1], IsAddress)
            BY <1>3, <1>16
        <2>2. message["to"] = to[1] /\ message["cc"] = cc[1] /\ message["bcc"] = bcc[1] /\ message["replyTo"] = replyTo[1]
            OBVIOUS
        <2> HIDE DEF message
        <2> QED  BY <2>1, <2>2
    <1> HIDE DEF message
    <1>20. IsOption(message.from, IsMailbox) /\ IsOption(message.sender, IsMailbox)
        BY <1>6, <1>7, <1>16, <1>17
    <1>21. IsOption(message.subject, IsSeq)
        BY <1>8, <1>16, <1>17
    <1>22. IsOption(message.date, LAMBDA d : TRUE)
        BY <1>9, <1>16, <1>17
    <1>23. IsOption(message.messageId, LAMBDA id : IsParsed(id, MessageIdFromStr))
        BY <1>10, <1>16, <1>17
    <1>24. IsList(message.headers, IsHeader) /\ IsBody(message.body) /\ IsList(message.attachments, IsAttachment)
        BY <1>4, <1>5, <1>11, <1>16, <1>17
    <1>25. IsMessage(message)
        BY <1>18, <1>19, <1>20, <1>21, <1>22, <1>23, <1>24 DEF IsMessage
    <1>26. result = <<message>> /\ result[1] = message
        BY <1>1, <1>14, <1>15
    <1> QED  BY <1>25, <1>26 DEF result

-------------------------------------------------------------------------------
(* Emails and envelopes. *)

(* The emails of valid addresses are valid.                                *)
LEMMA EmailsValid ==
    ASSUME NEW list, IsList(list, IsAddress)
    PROVE  IsList(RecipientEmails(list), IsEmail)
    <1> DEFINE emails == [i \in DOMAIN list |-> EmailsOf(list[i])]
               S == UNION {{emails[i][j] : j \in DOMAIN emails[i]} : i \in DOMAIN emails}
    <1>1. IsList(list, Shaped)
        <2>1. \A mailbox : IsMailbox(mailbox) => IsBox(mailbox)
            BY DEF IsMailbox, IsBox, Mailbox
        <2>2. \A address : IsAddress(address) => Shaped(address)
            BY <2>1 DEF IsAddress, IsGroup, Shaped, IsList
        <2> QED  BY <2>2 DEF IsList
    <1>2. AllSeqs(emails) /\ RecipientEmails(list) = FlattenSeq(emails)
        BY <1>1, EmailLists, EmailsAre
    <1>3. \A i \in DOMAIN emails : \A j \in DOMAIN emails[i] : IsEmail(emails[i][j])
        <2> TAKE i \in DOMAIN emails
        <2> DEFINE address == list[i]
        <2>1. IsAddress(address) /\ emails[i] = EmailsOf(address)
            BY DEF IsList
        <2> HIDE DEF address, emails
        <2>2. \A j \in DOMAIN Mailboxes(address) : IsEmail(Mailboxes(address)[j].email)
            <3>1. CASE address.kind = "mailbox" /\ IsMailbox(address)
                <4>1. Mailboxes(address) = <<address>> /\ IsEmail(address.email)
                    BY <3>1 DEF Mailboxes, IsMailbox
                <4> QED  BY <4>1
            <3>2. CASE address.kind = "group" /\ IsGroup(address)
                <4>1. Mailboxes(address) = address.members /\ IsList(address.members, IsMailbox)
                    BY <3>2 DEF Mailboxes, IsGroup
                <4> QED  BY <4>1 DEF IsList, IsMailbox
            <3> QED  BY <2>1, <3>1, <3>2 DEF IsAddress
        <2> QED  BY <2>1, <2>2 DEF EmailsOf
    <1>4. \A x \in S : IsEmail(x)
        BY <1>3
    <1>5. \A i \in DOMAIN emails : \A j \in DOMAIN emails[i] : emails[i][j] \in S
        OBVIOUS
    <1> HIDE DEF emails, S
    <1>6. FlattenSeq(emails) \in Seq(S) /\ IsSeq(FlattenSeq(emails))
        BY <1>2, <1>5, Flattened
    <1>7. \A i \in DOMAIN FlattenSeq(emails) : FlattenSeq(emails)[i] \in S
        BY <1>6, SeqFacts
    <1> QED  BY <1>2, <1>4, <1>6, <1>7 DEF IsList

(* Two lists of valid emails are one.                                      *)
LEMMA ValidConcat ==
    ASSUME NEW a, NEW b, IsList(a, IsEmail), IsList(b, IsEmail)
    PROVE  IsList(a \o b, IsEmail)
    <1>1. IsSeq(a) /\ IsSeq(b)
        BY DEF IsList
    <1>2. /\ Len(a) \in Nat /\ DOMAIN a = 1..Len(a) /\ Len(b) \in Nat /\ DOMAIN b = 1..Len(b)
        BY <1>1, SeqFacts
    <1> DEFINE c == a \o b
    <1>3. /\ IsSeq(c) /\ Len(c) = Len(a) + Len(b) /\ \A i \in 1..Len(a) : c[i] = a[i]
          /\ \A i \in 1..Len(b) : c[Len(a) + i] = b[i]
        BY <1>1, Concat
    <1> HIDE DEF c
    <1>4. DOMAIN c = 1..(Len(a) + Len(b))
        BY <1>3, SeqFacts
    <1>5. ASSUME NEW i \in DOMAIN c PROVE IsEmail(c[i])
        <2>1. CASE i <= Len(a)
            <3>1. i \in DOMAIN a /\ c[i] = a[i]
                BY <1>2, <1>3, <1>4, <2>1
            <3> QED  BY <3>1 DEF IsList
        <2>2. CASE ~(i <= Len(a))
            <3> DEFINE j == i - Len(a)
            <3>1. j \in DOMAIN b /\ i = Len(a) + j
                BY <1>2, <1>4, <2>2
            <3> HIDE DEF j
            <3>2. c[i] = b[j]
                BY <1>2, <1>3, <3>1
            <3> QED  BY <3>1, <3>2 DEF IsList
        <2> QED  BY <2>1, <2>2
    <1> QED  BY <1>3, <1>5 DEF IsList, c

(* An envelope that is read is one.                                        *)
LEMMA EnvelopeRead == \A value \in JsonValues : ReadEnvelope(value) # <<>> => IsEnvelope(ReadEnvelope(value)[1])
    <1> TAKE value \in JsonValues
    <1> SUFFICES ASSUME ReadEnvelope(value) # <<>> PROVE IsEnvelope(ReadEnvelope(value)[1])
        OBVIOUS
    <1> DEFINE from == Optional(value, "mail_from", ReadEmail)
               rcpt == OptionalMany(value, "rcpt_to", ReadEmail)
               fields == [mailFrom |-> from, rcptTo |-> rcpt]
               item == Value(value, "mail_from")
               read == ReadEmail(item)
               found == Once(value, "mail_from")
    <1>1. Is("obj", value) /\ ReadEnvelope(value) = All(fields)
        BY DEF ReadEnvelope
    <1>2. \A i \in DOMAIN value[2] : value[2][i][2] \in JsonValues
        BY <1>1, JsonFields
    <1>3. rcpt # <<>> => IsList(rcpt[1], IsEmail)
        BY <1>2, EmailsRead
    <1>4. from = <<(<<>>)>> \/ from = <<>> \/ (found /\ from = [i \in DOMAIN read |-> <<read[i]>>])
        BY DEF Optional, OrDefault, Required, Map
    <1>5. found => item \in JsonValues
        BY <1>1, JsonParts
    <1> HIDE DEF from, rcpt, item
    <1>6. AnOption(read)
        BY DEF ReadEmail, AsOption, AnOption
    <1>7. found /\ read # <<>> => IsEmail(read[1])
        BY <1>5, EmailJson
    <1> HIDE DEF read, found
    <1>8. ReadEnvelope(value)[1] = [f \in DOMAIN fields |-> fields[f][1]] /\ \A f \in DOMAIN fields : fields[f] # <<>>
        BY <1>1, AllGives
    <1> DEFINE a == from[1]
               b == rcpt[1]
               made == ReadEnvelope(value)[1]
    <1>9. made = [mailFrom |-> a, rcptTo |-> b] /\ from # <<>> /\ rcpt # <<>>
        BY <1>8
    <1>10. IsOption(a, IsEmail)
        <2>1. from[1] = <<>> \/ (found /\ read # <<>> /\ from[1] = <<read[1]>>)
            BY <1>4, <1>6, <1>9, OptionalIs
        <2> QED  BY <1>7, <2>1 DEF IsOption
    <1>11. IsList(b, IsEmail)
        BY <1>3, <1>9
    <1> HIDE DEF a, b, made
    <1>12. made.mailFrom = a /\ made.rcptTo = b /\ made = [mailFrom |-> made.mailFrom, rcptTo |-> made.rcptTo]
        BY <1>9
    <1>13. IsEnvelope(made)
        BY <1>10, <1>11, <1>12 DEF IsEnvelope
    <1> QED  BY <1>13 DEF made
===============================================================================
