------------------------- MODULE WireFields_proofs -------------------------
(***************************************************************************)
(* No line on the wire is longer than RFC 5322's hard limit: folding keeps *)
(* every value below it (PushedLinesFit), every value the renderer builds  *)
(* is one that folding is right for (RenderedLinesFit), and every message  *)
(* the parser reads is one the renderer is right for (ParsedIsWritten).    *)
(***************************************************************************)
EXTENDS WireFields, Messages_proofs

-------------------------------------------------------------------------------
(* The width of a value. *)

(* The bytes of a text, character by character. *)
LEMMA BytesCounted ==
    ASSUME NEW text, IsSeq(text)
    PROVE  \E f \in [0..Len(text) -> Nat] :
               /\ f[0] = 0 /\ \A i \in 1..Len(text) : f[i] = f[i - 1] + (IF text[i] \in NonAscii THEN 2 ELSE 1)
               /\ Bytes(text) = f[Len(text)]
    <1> DEFINE n == Len(text)
               T == Nat
               Solves(g) == g = [i \in 0..n |-> IF i = 0 THEN 0 ELSE g[i - 1] + (IF text[i] \in NonAscii THEN 2 ELSE 1)]
               step == [i \in Nat |-> [s \in T |-> IF i \in 1..n THEN s + (IF text[i] \in NonAscii THEN 2 ELSE 1) ELSE s]]
               h == CHOOSE g : Solves(g)
    <1>1. n \in Nat /\ 0 \in T /\ \A i \in 1..n : \A s \in T : s + (IF text[i] \in NonAscii THEN 2 ELSE 1) \in T
        BY SeqFacts
    <1>2. Bytes(text) = h[n]
        BY DEF Bytes
    <1> HIDE DEF n, T
    <1>3. step \in [Nat -> [T -> T]]
        BY <1>1
    <1>4. \A i \in 1..n : \A s \in T : step[i][s] = s + (IF text[i] \in NonAscii THEN 2 ELSE 1)
        BY <1>1
    <1> HIDE DEF step
    <1>5. PICK f \in [0..n -> T] : Recurs(f, n, 0, step)
        BY <1>1, <1>3, RecursionExists
    <1>6. f[0] = 0 /\ \A i \in 1..n : f[i] = f[i - 1] + (IF text[i] \in NonAscii THEN 2 ELSE 1)
        <2>1. \A i \in 1..n : i \in 0..n /\ i - 1 \in 0..n /\ i # 0
            BY <1>1
        <2>2. \A i \in 0..n : f[i] = IF i = 0 THEN 0 ELSE step[i][f[i - 1]]
            BY <1>5 DEF Recurs
        <2>3. \A i \in 1..n : f[i] = step[i][f[i - 1]] /\ f[i - 1] \in T
            BY <2>1, <2>2
        <2>4. f[0] = 0
            BY <1>1, <2>2
        <2> QED  BY <1>4, <2>3, <2>4
    <1>7. Solves(f)
        <2>1. \A i \in 0..n : f[i] = IF i = 0 THEN 0 ELSE f[i - 1] + (IF text[i] \in NonAscii THEN 2 ELSE 1)
            BY <1>1, <1>6
        <2>2. f = [i \in 0..n |-> f[i]]
            OBVIOUS
        <2> QED  BY <2>1, <2>2, Zenon
    <1>8. Solves(h)
        <2> HIDE DEF Solves
        <2> QED  BY <1>7
    <1> HIDE DEF h
    <1>9. h[0] = 0 /\ \A i \in 1..n : h[i] = h[i - 1] + (IF text[i] \in NonAscii THEN 2 ELSE 1)
        <2>1. 0 \in 0..n /\ \A i \in 1..n : i \in 0..n /\ i # 0
            BY <1>1
        <2>2. \A i \in 0..n : h[i] = IF i = 0 THEN 0 ELSE h[i - 1] + (IF text[i] \in NonAscii THEN 2 ELSE 1)
            BY <1>8
        <2> QED  BY <2>1, <2>2
    <1> DEFINE Same == {i \in 0..n : h[i] = f[i]}
    <1>10. 0 \in Same /\ \A i \in 1..n : i - 1 \in Same => i \in Same
        BY <1>1, <1>6, <1>9
    <1> HIDE DEF Same
    <1>11. 0..n \subseteq Same
        BY <1>1, <1>10, BoundedInduction
    <1>12. h[n] = f[n]
        BY <1>1, <1>11 DEF Same
    <1> QED  BY <1>2, <1>6, <1>12 DEF n, T

(* A piece of a header value: an encoded word has a text. *)
IsWirePiece(piece) == IsWord(piece) => IsSeq(piece[2])

(* A value is a sequence of pieces. *)
LEMMA ValueIs ==
    ASSUME NEW value
    PROVE  IsValue(value) <=> IsSeq(value) /\ \A i \in DOMAIN value : IsWirePiece(value[i])
    BY DEF IsValue, IsList, IsWirePiece

(* A piece takes columns. *)
LEMMA WidthIsNatural ==
    ASSUME NEW piece, IsWirePiece(piece)
    PROVE  Width(piece) \in Nat
    <1>1. CASE IsWord(piece)
        <2>1. Bytes(piece[2]) \in Nat
            <3> DEFINE text == piece[2]
            <3>1. IsSeq(text) /\ Len(text) \in Nat
                BY <1>1, SeqFacts DEF IsWirePiece
            <3> HIDE DEF text
            <3>2. PICK f \in [0..Len(text) -> Nat] : Bytes(text) = f[Len(text)]
                BY <3>1, BytesCounted
            <3>3. Bytes(text) \in Nat
                BY <3>1, <3>2
            <3> QED  BY <3>3 DEF text
        <2> DEFINE n == Bytes(piece[2]) + 2
        <2>2. n \in Nat
            BY <2>1
        <2> HIDE DEF n
        <2>3. n \div 3 \in Nat
            BY <2>2
        <2>4. WordOverhead + 4 * (n \div 3) \in Nat
            BY <2>3, EncodedWordsAssumption
        <2> QED  BY <1>1, <2>4 DEF Width, n
    <1>2. CASE ~IsWord(piece)
        BY <1>2 DEF Width
    <1> QED  BY <1>1, <1>2

(* The length of a value, piece by piece. *)
LEMMA LengthCounted ==
    ASSUME NEW value, IsValue(value)
    PROVE  \E f \in [0..Len(value) -> Nat] :
               /\ f[0] = 0 /\ \A i \in 1..Len(value) : f[i] = f[i - 1] + Width(value[i])
               /\ Length(value) = f[Len(value)]
    <1> DEFINE n == Len(value)
               T == Nat
               Solves(g) == g = [i \in 0..n |-> IF i = 0 THEN 0 ELSE g[i - 1] + Width(value[i])]
               step == [i \in Nat |-> [s \in T |-> IF i \in 1..n THEN s + Width(value[i]) ELSE s]]
               h == CHOOSE g : Solves(g)
    <1>1. n \in Nat /\ 0 \in T /\ \A i \in 1..n : \A s \in T : s + Width(value[i]) \in T
        <2>1. Len(value) \in Nat /\ DOMAIN value = 1..Len(value)
            BY ValueIs, SeqFacts
        <2>2. \A i \in 1..Len(value) : Width(value[i]) \in Nat
            BY <2>1, ValueIs, WidthIsNatural
        <2> QED  BY <2>1, <2>2
    <1>2. Length(value) = h[n]
        BY DEF Length
    <1> HIDE DEF n, T
    <1>3. step \in [Nat -> [T -> T]]
        BY <1>1
    <1>4. \A i \in 1..n : \A s \in T : step[i][s] = s + Width(value[i])
        BY <1>1
    <1> HIDE DEF step
    <1>5. PICK f \in [0..n -> T] : Recurs(f, n, 0, step)
        BY <1>1, <1>3, RecursionExists
    <1>6. f[0] = 0 /\ \A i \in 1..n : f[i] = f[i - 1] + Width(value[i])
        <2>1. \A i \in 1..n : i \in 0..n /\ i - 1 \in 0..n /\ i # 0
            BY <1>1
        <2>2. \A i \in 0..n : f[i] = IF i = 0 THEN 0 ELSE step[i][f[i - 1]]
            BY <1>5 DEF Recurs
        <2>3. \A i \in 1..n : f[i] = step[i][f[i - 1]] /\ f[i - 1] \in T
            BY <2>1, <2>2
        <2>4. f[0] = 0
            BY <1>1, <2>2
        <2> QED  BY <1>4, <2>3, <2>4
    <1>7. Solves(f)
        <2>1. \A i \in 0..n : f[i] = IF i = 0 THEN 0 ELSE f[i - 1] + Width(value[i])
            BY <1>1, <1>6
        <2>2. f = [i \in 0..n |-> f[i]]
            OBVIOUS
        <2> QED  BY <2>1, <2>2, Zenon
    <1>8. Solves(h)
        <2> HIDE DEF Solves
        <2> QED  BY <1>7
    <1> HIDE DEF h
    <1>9. h[0] = 0 /\ \A i \in 1..n : h[i] = h[i - 1] + Width(value[i])
        <2>1. 0 \in 0..n /\ \A i \in 1..n : i \in 0..n /\ i # 0
            BY <1>1
        <2>2. \A i \in 0..n : h[i] = IF i = 0 THEN 0 ELSE h[i - 1] + Width(value[i])
            BY <1>8
        <2> QED  BY <2>1, <2>2
    <1> DEFINE Same == {i \in 0..n : h[i] = f[i]}
    <1>10. 0 \in Same /\ \A i \in 1..n : i - 1 \in Same => i \in Same
        BY <1>1, <1>6, <1>9
    <1> HIDE DEF Same
    <1>11. 0..n \subseteq Same
        BY <1>1, <1>10, BoundedInduction
    <1>12. h[n] = f[n]
        BY <1>1, <1>11 DEF Same
    <1> QED  BY <1>2, <1>6, <1>12 DEF n, T

(* A value is as long as its pieces together: one piece more is so much longer. *)
LEMMA LengthIsNatural ==
    ASSUME NEW value, IsValue(value)
    PROVE  Length(value) \in Nat
    <1>1. Len(value) \in Nat
        BY ValueIs, SeqFacts
    <1>2. PICK f \in [0..Len(value) -> Nat] : Length(value) = f[Len(value)]
        BY LengthCounted
    <1> QED  BY <1>1, <1>2

(* Nothing takes no columns. *)
LEMMA EmptyLength == IsValue(<<>>) /\ Length(<<>>) = 0
    <1> DEFINE value == <<>>
    <1>1. IsSeq(value) /\ Len(value) = 0 /\ DOMAIN value = {}
        BY EmptyIsSeq
    <1> HIDE DEF value
    <1>2. IsValue(value)
        BY <1>1, ValueIs
    <1>3. PICK f \in [0..Len(value) -> Nat] : f[0] = 0 /\ Length(value) = f[Len(value)]
        BY <1>2, LengthCounted
    <1>4. Length(value) = 0
        BY <1>1, <1>3
    <1> QED  BY <1>2, <1>4 DEF value

(* A piece put before a value adds its width. *)
LEMMA LengthOfLonger ==
    ASSUME NEW piece, IsWirePiece(piece), NEW value, IsValue(value)
    PROVE  IsValue(<<piece>> \o value) /\ Length(<<piece>> \o value) = Width(piece) + Length(value)
    <1> DEFINE one == <<piece>>
               all == one \o value
    <1>1. IsSeq(one) /\ Len(one) = 1 /\ one[1] = piece
        BY OneIsSeq
    <1>2. IsSeq(value) /\ Len(value) \in Nat /\ DOMAIN value = 1..Len(value) /\ \A i \in 1..Len(value) : IsWirePiece(value[i])
        BY ValueIs, SeqFacts
    <1> HIDE DEF one
    <1>3. /\ IsSeq(all) /\ Len(all) = Len(one) + Len(value)
          /\ (\A i \in 1..Len(one) : all[i] = one[i]) /\ \A i \in 1..Len(value) : all[Len(one) + i] = value[i]
        <2>1. IsSeq(one) /\ IsSeq(value)
            BY <1>1, <1>2
        <2> QED  BY ONLY <2>1, Concat
    <1> HIDE DEF all
    <1>4. Len(all) = 1 + Len(value) /\ DOMAIN all = 1..Len(all) /\ all[1] = piece /\ \A i \in 1..Len(value) : all[1 + i] = value[i]
        BY <1>1, <1>2, <1>3, SeqFacts
    <1>5. IsValue(all)
        <2>1. ASSUME NEW i \in DOMAIN all PROVE IsWirePiece(all[i])
            <3>1. i = 1 \/ (i - 1 \in 1..Len(value) /\ 1 + (i - 1) = i)
                BY <1>2, <1>4
            <3> QED  BY <1>2, <1>4, <3>1
        <2> QED  BY <1>3, <2>1, ValueIs
    <1>6. PICK f \in [0..Len(all) -> Nat] : /\ f[0] = 0 /\ \A i \in 1..Len(all) : f[i] = f[i - 1] + Width(all[i])
                                           /\ Length(all) = f[Len(all)]
        BY <1>5, LengthCounted
    <1>7. PICK g \in [0..Len(value) -> Nat] : /\ g[0] = 0 /\ \A i \in 1..Len(value) : g[i] = g[i - 1] + Width(value[i])
                                             /\ Length(value) = g[Len(value)]
        BY LengthCounted
    <1>8. Width(piece) \in Nat
        BY WidthIsNatural
    <1> DEFINE Good == {i \in 0..Len(value) : f[1 + i] = Width(piece) + g[i]}
    <1>9. 0 \in Good
        <2>1. 1 \in 1..Len(all) /\ 0 \in 0..Len(value) /\ 1 - 1 = 0 /\ 1 + 0 = 1
            BY <1>2, <1>4
        <2>2. f[1] = f[1 - 1] + Width(all[1])
            BY <1>6, <2>1
        <2> QED  BY <1>4, <1>6, <1>7, <1>8, <2>1, <2>2
    <1>10. \A i \in 1..Len(value) : i - 1 \in Good => i \in Good
        <2> TAKE i \in 1..Len(value)
        <2> HAVE i - 1 \in Good
        <2>1. /\ 1 + i \in 1..Len(all) /\ (1 + i) - 1 = 1 + (i - 1) /\ i \in 0..Len(value) /\ i - 1 \in 0..Len(value)
              /\ all[1 + i] = value[i] /\ Width(value[i]) \in Nat
            BY <1>2, <1>4, WidthIsNatural
        <2>2. f[1 + i] = f[(1 + i) - 1] + Width(all[1 + i])
            BY <1>6, <2>1
        <2>3. g[i] = g[i - 1] + Width(value[i]) /\ g[i - 1] \in Nat
            BY <1>7, <2>1
        <2>4. f[1 + i] = (Width(piece) + g[i - 1]) + Width(value[i])
            BY <2>1, <2>2
        <2>5. f[1 + i] = Width(piece) + g[i]
            BY <1>8, <2>1, <2>3, <2>4
        <2> QED  BY <2>1, <2>5
    <1> HIDE DEF Good
    <1>11. Len(value) \in Good
        <2>1. 0..Len(value) \subseteq Good
            BY <1>2, <1>9, <1>10, BoundedInduction
        <2> QED  BY <1>2, <2>1
    <1>12. Length(all) = Width(piece) + Length(value)
        <2>1. f[1 + Len(value)] = Width(piece) + g[Len(value)]
            BY <1>11 DEF Good
        <2> QED  BY <1>4, <1>6, <1>7, <2>1
    <1> QED  BY <1>5, <1>12 DEF one, all

(* A part of a value is a value. *)
LEMMA PartOfValue ==
    ASSUME NEW value, IsValue(value), NEW m \in Nat, NEW n \in Nat, 1 <= m, n <= Len(value)
    PROVE  /\ IsValue(SubSeq(value, m, n)) /\ Len(SubSeq(value, m, n)) = (IF m <= n THEN n - m + 1 ELSE 0)
           /\ \A i \in 1..Len(SubSeq(value, m, n)) : SubSeq(value, m, n)[i] = value[m + i - 1]
    <1> DEFINE part == SubSeq(value, m, n)
    <1>1. IsSeq(value) /\ \A i \in DOMAIN value : IsWirePiece(value[i])
        BY ValueIs
    <1>2. /\ IsSeq(part) /\ Len(part) = (IF m <= n THEN n - m + 1 ELSE 0)
          /\ \A i \in 1..Len(part) : part[i] = value[m + i - 1] /\ m + i - 1 \in DOMAIN value
        BY <1>1, PartOfSeq
    <1> HIDE DEF part
    <1>3. DOMAIN part = 1..Len(part)
        BY <1>2, SeqFacts
    <1>4. IsValue(part)
        BY <1>1, <1>2, <1>3, ValueIs
    <1> QED  BY <1>2, <1>4 DEF part

-------------------------------------------------------------------------------
(* Folding a value into lines. *)

IsLimits(limits) == limits.hard \in Nat /\ limits.preferred \in Nat /\ limits.preferred <= limits.hard

(* The limits of a line whose name takes used columns leave room for it. *)
LEMMA LimitsAre ==
    ASSUME NEW used \in Nat, NEW soft \in Nat
    PROVE  /\ IsLimits(Limits(used, soft))
           /\ Limits(used, soft).hard > 0 => Limits(used, soft).hard + used = HardLineLen
    <1> DEFINE hard == Monus(HardLineLen, used)
               target == Monus(soft, used)
    <1>1. /\ hard \in Nat /\ target \in Nat
          /\ hard > 0 => hard + used = HardLineLen
        BY HeaderLinesAssumption DEF Monus
    <1> HIDE DEF hard, target
    <1>2. Min({target, hard}) \in {target, hard} /\ Min({target, hard}) <= hard
        <2> DEFINE two == {target, hard}
        <2>1. two \subseteq Nat /\ two # {} /\ hard \in two
            BY <1>1
        <2> HIDE DEF two
        <2>2. Min(two) \in two /\ Min(two) <= hard
            BY <2>1, Least
        <2> QED  BY <2>2 DEF two
    <1>3. Limits(used, soft) = [hard |-> hard, preferred |-> IF soft = NoFold THEN hard ELSE Min({target, hard})]
        BY DEF Limits, hard, target
    <1> DEFINE least == Min({target, hard})
    <1>4. least \in Nat /\ least <= hard
        BY <1>1, <1>2
    <1> HIDE DEF least
    <1>5. Limits(used, soft) = [hard |-> hard, preferred |-> IF soft = NoFold THEN hard ELSE least]
        BY <1>3 DEF least
    <1> QED  BY <1>1, <1>4, <1>5 DEF IsLimits

(* A boundary is a blank, and what comes before it is below the limit. *)
LEMMA BoundaryIs ==
    ASSUME NEW value, IsValue(value), NEW limit
    PROVE  /\ LastLwspBoundary(value, limit) \in 0..Len(value)
           /\ LastLwspBoundary(value, limit) # 0 =>
                /\ IsBlank(value[LastLwspBoundary(value, limit)])
                /\ Length(SubSeq(value, 1, LastLwspBoundary(value, limit) - 1)) < limit
    <1> DEFINE Starts(i) == IsBlank(value[i]) /\ Length(SubSeq(value, 1, i - 1)) < limit
               S == {0} \cup {i \in DOMAIN value : Starts(i)}
    <1>1. Len(value) \in Nat /\ DOMAIN value = 1..Len(value)
        BY ValueIs, SeqFacts
    <1>2. LastLwspBoundary(value, limit) = Max(S)
        BY DEF LastLwspBoundary
    <1> HIDE DEF Starts
    <1>3. S \subseteq 0..Len(value) /\ S # {}
        BY <1>1
    <1>4. \A i \in S : i # 0 => Starts(i)
        OBVIOUS
    <1> HIDE DEF S
    <1>5. Max(S) \in S
        BY <1>1, <1>3, Greatest
    <1> QED  BY <1>2, <1>3, <1>4, <1>5 DEF Starts

(* A value is split inside it, and where it is split at a blank the part before fits. *)
LEMMA SplitIs ==
    ASSUME NEW rest, IsValue(rest), NEW limits, IsLimits(limits)
    PROVE  /\ SplitAt(rest, limits) \in 0..Len(rest)
           /\ SplitAt(rest, limits) # 0 =>
                /\ IsBlank(rest[SplitAt(rest, limits)])
                /\ Length(SubSeq(rest, 1, SplitAt(rest, limits) - 1)) <= limits.hard
    <1> DEFINE soft == LastLwspBoundary(rest, limits.preferred)
               hard == LastLwspBoundary(rest, limits.hard)
               Before(i) == Length(SubSeq(rest, 1, i - 1))
    <1>1. Len(rest) \in Nat
        BY ValueIs, SeqFacts
    <1>2. /\ soft \in 0..Len(rest) /\ (soft # 0 => IsBlank(rest[soft]) /\ Before(soft) < limits.preferred)
          /\ hard \in 0..Len(rest) /\ (hard # 0 => IsBlank(rest[hard]) /\ Before(hard) < limits.hard)
        BY BoundaryIs
    <1>3. \A i \in 1..Len(rest) : Before(i) \in Nat
        <2> TAKE i \in 1..Len(rest)
        <2>1. i - 1 \in Nat /\ 1 \in Nat /\ 1 <= 1 /\ i - 1 <= Len(rest)
            BY <1>1
        <2>2. IsValue(SubSeq(rest, 1, i - 1))
            BY <2>1, PartOfValue
        <2> QED  BY <2>2, LengthIsNatural
    <1>4. SplitAt(rest, limits) \in {soft, hard, 0}
        BY DEF SplitAt
    <1> HIDE DEF soft, hard, Before
    <1>5. \A i \in {soft, hard, 0} : i \in 0..Len(rest) /\ (i # 0 => IsBlank(rest[i]) /\ Before(i) <= limits.hard)
        <2>1. CASE soft # 0 /\ hard # 0
            <3>1. soft \in 1..Len(rest) /\ hard \in 1..Len(rest)
                BY <1>1, <1>2, <2>1
            <3>2. Before(soft) \in Nat /\ Before(hard) \in Nat
                BY <1>3, <3>1
            <3> QED  BY <1>1, <1>2, <2>1, <3>2 DEF IsLimits
        <2>2. CASE soft = 0 /\ hard # 0
            <3>1. hard \in 1..Len(rest)
                BY <1>1, <1>2, <2>2
            <3>2. Before(hard) \in Nat
                BY <1>3, <3>1
            <3> QED  BY <1>1, <1>2, <2>2, <3>2 DEF IsLimits
        <2>3. CASE soft # 0 /\ hard = 0
            <3>1. soft \in 1..Len(rest)
                BY <1>1, <1>2, <2>3
            <3>2. Before(soft) \in Nat
                BY <1>3, <3>1
            <3> QED  BY <1>1, <1>2, <2>3, <3>2 DEF IsLimits
        <2>4. CASE soft = 0 /\ hard = 0
            BY <1>1, <2>4
        <2> QED  BY <2>1, <2>2, <2>3, <2>4
    <1> QED  BY <1>4, <1>5 DEF Before

(* What FoldRest makes of the rest from column start on; from is only      *)
(* asked for the columns after it.                                         *)
FoldStep(value, start, limits, from) ==
    LET rest == SubSeq(value, start, Len(value))
        at == SplitAt(rest, limits)
        part == SubSeq(rest, 1, at - 1)
    IN  /\ IsValue(rest) /\ Len(rest) = Len(value) + 1 - start
        /\ \A i \in 1..Len(rest) : rest[i] = value[start + i - 1]
        /\ \/ rest = <<>> /\ FoldRest(value, start, limits, from) = [ok |-> TRUE, lines |-> <<>>]
           \/ /\ at \in 1..Len(rest) /\ start + at \in (start + 1)..(Len(value) + 1) /\ IsBlank(rest[at])
              /\ limits.hard > 0 /\ Length(part) <= limits.hard
              /\ IsValue(part) /\ Len(part) = at - 1
              /\ \A i \in 1..(at - 1) : part[i] = rest[i]
              /\ FoldRest(value, start, limits, from) = [from[start + at] EXCEPT !.lines = <<part>> \o @]
           \/ /\ limits.hard > 0 /\ Length(rest) <= limits.hard
              /\ FoldRest(value, start, limits, from) = [ok |-> TRUE, lines |-> <<rest>>]
           \/ FoldRest(value, start, limits, from) = [ok |-> FALSE, lines |-> <<>>]

(* Every step of folding leaves parts that fit and a rest that is shorter. *)
LEMMA FoldRestIs ==
    ASSUME NEW value, IsValue(value), NEW start \in 1..(Len(value) + 1), NEW limits, IsLimits(limits), NEW from
    PROVE  FoldStep(value, start, limits, from)
    <1> DEFINE rest == SubSeq(value, start, Len(value))
               at == SplitAt(rest, limits)
               part == SubSeq(rest, 1, at - 1)
    <1>1. Len(value) \in Nat /\ start \in Nat /\ 1 <= start
        BY ValueIs, SeqFacts
    <1>2. /\ IsValue(rest) /\ Len(rest) = Len(value) + 1 - start
          /\ \A i \in 1..Len(rest) : rest[i] = value[start + i - 1]
        <2>1. /\ IsValue(rest) /\ Len(rest) = (IF start <= Len(value) THEN Len(value) - start + 1 ELSE 0)
              /\ \A i \in 1..Len(rest) : rest[i] = value[start + i - 1]
            BY <1>1, PartOfValue
        <2> QED  BY <1>1, <2>1
    <1>3. /\ at \in 0..Len(rest)
          /\ at # 0 => IsBlank(rest[at]) /\ Length(part) <= limits.hard
        BY <1>2, SplitIs
    <1>4. limits.hard \in Nat
        BY DEF IsLimits
    <1>5. \/ rest = <<>> /\ FoldRest(value, start, limits, from) = [ok |-> TRUE, lines |-> <<>>]
          \/ /\ limits.hard > 0 /\ at # 0
             /\ FoldRest(value, start, limits, from) = [from[start + at] EXCEPT !.lines = <<part>> \o @]
          \/ /\ limits.hard > 0 /\ Length(rest) <= limits.hard
             /\ FoldRest(value, start, limits, from) = [ok |-> TRUE, lines |-> <<rest>>]
          \/ FoldRest(value, start, limits, from) = [ok |-> FALSE, lines |-> <<>>]
        <2> DEFINE folded == FoldRest(value, start, limits, from)
                   Split == rest # <<>> /\ limits.hard > 0 /\ at # 0
                   Whole == rest # <<>> /\ limits.hard > 0 /\ at = 0 /\ Length(rest) <= limits.hard
        <2>1. folded = CASE rest = <<>> -> [ok |-> TRUE, lines |-> <<>>]
                         [] Split -> [from[start + at] EXCEPT !.lines = <<part>> \o @]
                         [] Whole -> [ok |-> TRUE, lines |-> <<rest>>]
                         [] OTHER -> [ok |-> FALSE, lines |-> <<>>]
            BY DEF FoldRest
        <2>2. ~(rest = <<>> /\ Split) /\ ~(rest = <<>> /\ Whole) /\ ~(Split /\ Whole)
            OBVIOUS
        <2> HIDE DEF folded, rest, at, part
        <2>3. CASE rest = <<>>
            BY <2>1, <2>3 DEF folded
        <2>4. CASE Split
            BY <2>1, <2>4 DEF folded
        <2>5. CASE Whole
            BY <2>1, <2>5 DEF folded
        <2>6. CASE ~(rest = <<>>) /\ ~Split /\ ~Whole
            <3> HIDE DEF Split, Whole
            <3> QED  BY <2>1, <2>6 DEF folded
        <2> QED  BY <2>3, <2>4, <2>5, <2>6
    <1>6. at # 0 => /\ at \in 1..Len(rest) /\ start + at \in (start + 1)..(Len(value) + 1)
                    /\ IsValue(part) /\ Len(part) = at - 1
                    /\ \A i \in 1..(at - 1) : part[i] = rest[i]
        <2> SUFFICES ASSUME at # 0
                     PROVE  /\ at \in 1..Len(rest) /\ start + at \in (start + 1)..(Len(value) + 1)
                            /\ IsValue(part) /\ Len(part) = at - 1
                            /\ \A i \in 1..(at - 1) : part[i] = rest[i]
            OBVIOUS
        <2> HIDE DEF rest, at
        <2>1. at \in 1..Len(rest) /\ at - 1 \in Nat /\ at - 1 <= Len(rest) /\ start + at \in (start + 1)..(Len(value) + 1)
            BY <1>1, <1>2, <1>3
        <2>2. /\ IsValue(part) /\ Len(part) = (IF 1 <= at - 1 THEN at - 1 - 1 + 1 ELSE 0)
              /\ \A i \in 1..Len(part) : part[i] = rest[1 + i - 1]
            BY <1>2, <2>1, PartOfValue
        <2> HIDE DEF part
        <2>3. Len(part) = at - 1
            BY <2>1, <2>2
        <2>4. \A i \in 1..(at - 1) : 1 + i - 1 = i
            BY <2>1
        <2> QED  BY <2>1, <2>2, <2>3, <2>4
    <1> HIDE DEF part
    <1>7. \/ rest = <<>> /\ FoldRest(value, start, limits, from) = [ok |-> TRUE, lines |-> <<>>]
          \/ /\ at \in 1..Len(rest) /\ start + at \in (start + 1)..(Len(value) + 1) /\ IsBlank(rest[at])
             /\ limits.hard > 0 /\ Length(part) <= limits.hard
             /\ IsValue(part) /\ Len(part) = at - 1
             /\ \A i \in 1..(at - 1) : part[i] = rest[i]
             /\ FoldRest(value, start, limits, from)
                  = [from[start + at] EXCEPT !.lines = <<part>> \o @]
          \/ /\ limits.hard > 0 /\ Length(rest) <= limits.hard
             /\ FoldRest(value, start, limits, from) = [ok |-> TRUE, lines |-> <<rest>>]
          \/ FoldRest(value, start, limits, from) = [ok |-> FALSE, lines |-> <<>>]
        <2> HIDE DEF rest, at
        <2> QED  BY <1>3, <1>5, <1>6
    <1> QED  BY <1>2, <1>7 DEF part, FoldStep

Limited(start, first, later) == IF start = 1 THEN first ELSE later
Folds(f, value, first, later, low) ==
    f = [start \in low..(Len(value) + 1) |-> FoldRest(value, start, Limited(start, first, later), f)]

(* SplitForFolding's recursive function exists. *)
LEMMA FoldingExists ==
    ASSUME NEW value, IsValue(value), NEW first, IsLimits(first), NEW later, IsLimits(later)
    PROVE  \E f : Folds(f, value, first, later, 1)
    <1> DEFINE n == Len(value) + 1
               S == {k \in 0..n : \E f : Folds(f, value, first, later, n + 1 - k)}
    <1>1. n \in Nat \ {0} /\ n = Len(value) + 1
        BY ValueIs, SeqFacts
    <1> HIDE DEF n
    <1>2. 0 \in S
        <2> DEFINE f == [start \in (n + 1 - 0)..n |-> start]
        <2>1. (n + 1 - 0)..n = {}
            BY <1>1
        <2>2. f = [start \in (n + 1 - 0)..n |-> FoldRest(value, start, Limited(start, first, later), f)]
            BY <2>1
        <2> HIDE DEF f
        <2>3. Folds(f, value, first, later, n + 1 - 0)
            BY <1>1, <2>2 DEF Folds
        <2> QED  BY <1>1, <2>3
    <1>3. \A k \in 1..n : k - 1 \in S => k \in S
        <2> TAKE k \in 1..n
        <2> HAVE k - 1 \in S
        <2> DEFINE low == n + 1 - k
        <2>1. PICK f : Folds(f, value, first, later, n + 1 - (k - 1))
            OBVIOUS
        <2>2. low \in 1..n /\ low \in Nat /\ n + 1 - (k - 1) = low + 1 /\ k \in 0..n
            BY <1>1
        <2> HIDE DEF low
        <2>3. f = [start \in (low + 1)..n |-> FoldRest(value, start, Limited(start, first, later), f)]
            BY <1>1, <2>1, <2>2 DEF Folds
        <2> DEFINE g == [start \in low..n |-> FoldRest(value, start, Limited(start, first, later), f)]
        <2>4. \A start \in (low + 1)..n : g[start] = f[start]
            <3> TAKE start \in (low + 1)..n
            <3>1. start \in low..n
                BY <1>1, <2>2
            <3>2. f[start] = FoldRest(value, start, Limited(start, first, later), f)
                BY <2>3
            <3> QED  BY <3>1, <3>2
        <2>5. g = [start \in low..n |-> g[start]] /\ \A start \in low..n : g[start] = FoldRest(value, start, Limited(start, first, later), f)
            OBVIOUS
        <2> HIDE DEF g
        <2>6. \A start \in low..n : FoldRest(value, start, Limited(start, first, later), f) = FoldRest(value, start, Limited(start, first, later), g)
            <3> TAKE start \in low..n
            <3> DEFINE limits == Limited(start, first, later)
                       rest == SubSeq(value, start, Len(value))
                       at == SplitAt(rest, limits)
            <3>1. IsLimits(limits) /\ start \in 1..(Len(value) + 1)
                BY <1>1, <2>2 DEF Limited
            <3> HIDE DEF limits
            <3>2. IsValue(rest) /\ Len(rest) = Len(value) + 1 - start
                BY <3>1, FoldRestIs DEF FoldStep
            <3>3. at \in 0..Len(rest)
                BY <3>1, <3>2, SplitIs
            <3>4. at # 0 => start + at \in (low + 1)..n
                <4> HIDE DEF at, rest
                <4> QED  BY <1>1, <2>2, <3>1, <3>2, <3>3
            <3>5. at # 0 => f[start + at] = g[start + at]
                BY <2>4, <3>4
            <3> HIDE DEF at, rest
            <3>6. FoldRest(value, start, limits, f) = FoldRest(value, start, limits, g)
                <4>1. CASE at # 0
                    BY <3>5, <4>1 DEF FoldRest, at, rest
                <4>2. CASE at = 0
                    BY <4>2 DEF FoldRest, at, rest
                <4> QED  BY <4>1, <4>2
            <3> QED  BY <3>6 DEF limits
        <2>7. \A start \in low..n : g[start] = FoldRest(value, start, Limited(start, first, later), g)
            BY <2>5, <2>6
        <2>8. Folds(g, value, first, later, low)
            <3>1. g = [start \in low..n |-> FoldRest(value, start, Limited(start, first, later), g)]
                BY <2>5, <2>7, Zenon
            <3> QED  BY <1>1, <3>1 DEF Folds
        <2> QED  BY <2>2, <2>8 DEF low
    <1> HIDE DEF S
    <1>4. n \in S
        <2>1. 0..n \subseteq S
            BY <1>1, <1>2, <1>3, BoundedInduction
        <2> QED  BY <1>1, <2>1
    <1>5. \E f : Folds(f, value, first, later, n + 1 - n)
        BY <1>4 DEF S
    <1> QED  BY <1>1, <1>5

FitsIn(line, limits) == limits.hard > 0 /\ Length(line) <= limits.hard
FitsFrom(folded, start, first, later) ==
    /\ folded = [ok |-> folded.ok, lines |-> folded.lines] /\ IsSeq(folded.lines)
    /\ \A i \in DOMAIN folded.lines :
         IsValue(folded.lines[i])
         /\ FitsIn(folded.lines[i], IF i = 1 THEN Limited(start, first, later) ELSE later)

(* Every line fits into what its name, or its leading blank, leaves of it. *)
LEMMA FoldedLinesFit ==
    ASSUME NEW value, IsValue(value), NEW first, IsLimits(first), NEW later, IsLimits(later),
           NEW f, Folds(f, value, first, later, 1), NEW start \in 1..(Len(value) + 1)
    PROVE  FitsFrom(f[start], start, first, later)
    <1> DEFINE n == Len(value) + 1
               S == {k \in Nat : k < n => FitsFrom(f[n - k], n - k, first, later)}
    <1>1. n \in Nat \ {0} /\ n = Len(value) + 1
        BY ValueIs, SeqFacts
    <1> HIDE DEF n
    <1>2. \A begin \in 1..n : f[begin] = FoldRest(value, begin, Limited(begin, first, later), f)
        BY <1>1 DEF Folds
    <1>3. \A k \in Nat : 0..(k - 1) \subseteq S => k \in S
        <2> TAKE k \in Nat
        <2> HAVE 0..(k - 1) \subseteq S
        <2> SUFFICES ASSUME k < n PROVE FitsFrom(f[n - k], n - k, first, later)
            OBVIOUS
        <2> DEFINE begin == n - k
                   limits == Limited(begin, first, later)
                   rest == SubSeq(value, begin, Len(value))
                   at == SplitAt(rest, limits)
                   part == SubSeq(rest, 1, at - 1)
        <2>1. begin \in 1..(Len(value) + 1) /\ begin \in 1..n /\ IsLimits(limits)
            BY <1>1 DEF Limited
        <2>2. \A after \in (begin + 1)..n : FitsFrom(f[after], after, first, later)
            <3> TAKE after \in (begin + 1)..n
            <3>1. n - after \in 0..(k - 1) /\ n - (n - after) = after /\ n - after < n
                BY <1>1, <2>1
            <3>2. n - after \in S
                BY <3>1
            <3> QED  BY <3>1, <3>2
        <2> HIDE DEF S, begin
        <2>3. f[begin] = FoldRest(value, begin, limits, f)
            BY <1>2, <2>1
        <2> HIDE DEF limits
        <2>4. /\ IsValue(rest)
              /\ \/ rest = <<>> /\ FoldRest(value, begin, limits, f) = [ok |-> TRUE, lines |-> <<>>]
                 \/ /\ at \in 1..Len(rest) /\ begin + at \in (begin + 1)..(Len(value) + 1)
                    /\ limits.hard > 0 /\ Length(part) <= limits.hard /\ IsValue(part)
                    /\ FoldRest(value, begin, limits, f) = [f[begin + at] EXCEPT !.lines = <<part>> \o @]
                 \/ /\ limits.hard > 0 /\ Length(rest) <= limits.hard
                    /\ FoldRest(value, begin, limits, f) = [ok |-> TRUE, lines |-> <<rest>>]
                 \/ FoldRest(value, begin, limits, f) = [ok |-> FALSE, lines |-> <<>>]
            <3>1. /\ IsValue(rest) /\ Len(rest) = Len(value) + 1 - begin
                  /\ \A i \in 1..Len(rest) : rest[i] = value[begin + i - 1]
                  /\ \/ rest = <<>> /\ FoldRest(value, begin, limits, f) = [ok |-> TRUE, lines |-> <<>>]
                     \/ /\ at \in 1..Len(rest) /\ begin + at \in (begin + 1)..(Len(value) + 1) /\ IsBlank(rest[at])
                        /\ limits.hard > 0 /\ Length(part) <= limits.hard
                        /\ IsValue(part) /\ Len(part) = at - 1
                        /\ \A i \in 1..(at - 1) : part[i] = rest[i]
                        /\ FoldRest(value, begin, limits, f) = [f[begin + at] EXCEPT !.lines = <<part>> \o @]
                     \/ /\ limits.hard > 0 /\ Length(rest) <= limits.hard
                        /\ FoldRest(value, begin, limits, f) = [ok |-> TRUE, lines |-> <<rest>>]
                     \/ FoldRest(value, begin, limits, f) = [ok |-> FALSE, lines |-> <<>>]
                <4>1. FoldStep(value, begin, limits, f)
                    BY <2>1, FoldRestIs
                <4> QED  BY <4>1 DEF FoldStep
            <3> HIDE DEF rest, at, part
            <3> QED  BY <3>1
        <2> HIDE DEF rest, at, part
        <2>5. CASE f[begin] \in {[ok |-> TRUE, lines |-> <<>>], [ok |-> FALSE, lines |-> <<>>]}
            <3>1. IsSeq(<<>>) /\ DOMAIN <<>> = {}
                BY EmptyIsSeq
            <3> QED  BY <2>5, <3>1 DEF FitsFrom, begin
        <2>6. CASE limits.hard > 0 /\ Length(rest) <= limits.hard /\ f[begin] = [ok |-> TRUE, lines |-> <<rest>>]
            <3> DEFINE one == <<rest>>
            <3>1. IsSeq(one) /\ DOMAIN one = {1} /\ one[1] = rest
                BY OneIsSeq
            <3> HIDE DEF one
            <3>2. f[begin] = [ok |-> TRUE, lines |-> one]
                BY <2>6 DEF one
            <3>3. \A i \in DOMAIN one : IsValue(one[i]) /\ FitsIn(one[i], IF i = 1 THEN limits ELSE later)
                BY <2>4, <2>6, <3>1 DEF FitsIn
            <3>4. FitsFrom(f[begin], begin, first, later)
                BY <3>1, <3>2, <3>3 DEF FitsFrom, limits
            <3> QED  BY <3>4 DEF begin
        <2>7. CASE /\ begin + at \in (begin + 1)..(Len(value) + 1)
                   /\ limits.hard > 0 /\ Length(part) <= limits.hard /\ IsValue(part)
                   /\ f[begin] = [f[begin + at] EXCEPT !.lines = <<part>> \o @]
            <3> DEFINE after == begin + at
                       one == <<part>>
                       lines == f[after].lines
                       all == one \o lines
            <3>1. after \in (begin + 1)..n /\ after # 1
                BY <1>1, <2>1, <2>7
            <3> HIDE DEF after
            <3>2. FitsFrom(f[after], after, first, later)
                BY <2>2, <3>1
            <3>3. /\ f[after] = [ok |-> f[after].ok, lines |-> lines] /\ IsSeq(lines)
                  /\ \A i \in DOMAIN lines : IsValue(lines[i]) /\ FitsIn(lines[i], later)
                BY <3>1, <3>2 DEF FitsFrom, Limited
            <3>4. IsSeq(one) /\ Len(one) = 1 /\ one[1] = part
                BY OneIsSeq
            <3>5. f[begin] = [f[after] EXCEPT !.lines = all]
                BY <2>7 DEF after
            <3> HIDE DEF one, lines
            <3>6. /\ IsSeq(all) /\ Len(all) = Len(one) + Len(lines)
                  /\ (\A i \in 1..Len(one) : all[i] = one[i]) /\ \A i \in 1..Len(lines) : all[Len(one) + i] = lines[i]
                <4>1. IsSeq(one) /\ IsSeq(lines)
                    BY <3>3, <3>4
                <4> QED  BY ONLY <4>1, Concat
            <3> HIDE DEF all
            <3>7. Len(lines) \in Nat /\ DOMAIN lines = 1..Len(lines) /\ DOMAIN all = 1..(1 + Len(lines))
                BY <3>3, <3>4, <3>6, SeqFacts
            <3>8. f[begin] = [ok |-> f[after].ok, lines |-> all]
                BY <3>3, <3>5
            <3>9. \A i \in DOMAIN all : IsValue(all[i]) /\ FitsIn(all[i], IF i = 1 THEN limits ELSE later)
                <4> TAKE i \in DOMAIN all
                <4>1. CASE i = 1
                    <5>1. all[i] = part
                        BY <3>4, <3>6, <4>1
                    <5> QED  BY <2>7, <4>1, <5>1 DEF FitsIn
                <4>2. CASE i # 1
                    <5>1. i - 1 \in DOMAIN lines /\ 1 + (i - 1) = i
                        BY <3>7, <4>2
                    <5>2. all[i] = lines[i - 1]
                        BY <3>4, <3>6, <3>7, <5>1
                    <5> QED  BY <3>3, <4>2, <5>1, <5>2
                <4> QED  BY <4>1, <4>2
            <3>10. FitsFrom(f[begin], begin, first, later)
                BY <3>6, <3>8, <3>9 DEF FitsFrom, limits
            <3> QED  BY <3>10 DEF begin
        <2> QED  BY <2>3, <2>4, <2>5, <2>6, <2>7
    <1> HIDE DEF S
    <1>4. n - start \in S
        <2>1. n - start \in Nat
            BY <1>1
        <2>2. Nat \subseteq S
            BY <1>3, StrongInduction
        <2> QED  BY <2>1, <2>2
    <1>5. n - start < n /\ n - (n - start) = start
        BY <1>1
    <1> QED  BY <1>4, <1>5 DEF S

(* All parts of a folded value fit. *)
LEMMA SplitFits ==
    ASSUME NEW value, IsValue(value), value # <<>>, NEW first, IsLimits(first), NEW later, IsLimits(later)
    PROVE  FitsFrom(SplitForFolding(value, first, later), 1, first, later)
    <1> DEFINE Solves(f) == f = [start \in 1..(Len(value) + 1) |->
                                  FoldRest(value, start, IF start = 1 THEN first ELSE later, f)]
               h == CHOOSE f : Solves(f)
    <1>1. SplitForFolding(value, first, later) = h[1]
        BY DEF SplitForFolding
    <1>2. \A f : Solves(f) <=> Folds(f, value, first, later, 1)
        BY DEF Folds, Limited
    <1> HIDE DEF Solves
    <1>3. \E f : Solves(f)
        BY <1>2, FoldingExists
    <1>4. Solves(h)
        BY <1>3
    <1> HIDE DEF h
    <1>5. 1 \in 1..(Len(value) + 1)
        BY ValueIs, SeqFacts
    <1>6. Folds(h, value, first, later, 1)
        BY <1>2, <1>4
    <1>7. FitsFrom(h[1], 1, first, later)
        BY <1>5, <1>6, FoldedLinesFit
    <1> QED  BY <1>1, <1>7

(* A physical line within the limit, or the line of a long name alone. *)
LineFits(line) ==
    \/ LineLength(line) <= HardLineLen
    \/ line.value = <<>> /\ NameLength[line.name] > HardLineLen - 2
LinesFit(lines) == IsLines(lines) /\ \A i \in DOMAIN lines : LineFits(lines[i])

(* Lines fit one by one. *)
LEMMA LinesAre ==
    ASSUME NEW lines
    PROVE  LinesFit(lines) <=> IsSeq(lines) /\ \A i \in DOMAIN lines : IsValue(lines[i].value) /\ LineFits(lines[i])
    BY DEF LinesFit, IsLines, IsList

(* A blank is a piece of width one. *)
LEMMA BlankIs == IsWirePiece(Char(" ")) /\ Width(Char(" ")) = 1 /\ IsBlank(Char(" "))
    <1> DEFINE text == <<" ">>
               c == Char(" ")
    <1>1. c = <<"char", text>>
        BY DEF Char, Lookalikes
    <1>2. text[1] = " "
        OBVIOUS
    <1> HIDE DEF text, c
    <1>3. c[1] = "char" /\ c[2] = text
        BY <1>1
    <1>4. ~IsWord(c) /\ IsBlank(c)
        BY <1>2, <1>3 DEF IsWord, IsBlank, Blanks
    <1>5. IsWirePiece(c) /\ Width(c) = 1
        BY <1>4 DEF IsWirePiece, Width
    <1> QED  BY <1>4, <1>5 DEF c

(* push_header_line writes no line over the hard limit, but for the one    *)
(* name that leaves no room for its empty value.                           *)
THEOREM PushedLinesFit ==
    ASSUME NEW name, NEW value, IsValue(value), NEW soft \in Nat
    PROVE  /\ PushHeaderLine(name, value, soft)
                = [error |-> PushHeaderLine(name, value, soft).error, lines |-> PushHeaderLine(name, value, soft).lines]
           /\ LinesFit(PushHeaderLine(name, value, soft).lines)
    <1> DEFINE first == Limits(NameLength[name] + 2, soft)
               later == Limits(1, soft)
               folded == SplitForFolding(value, first, later)
               written == [i \in DOMAIN folded.lines |->
                             IF i = 1 THEN [name |-> name, value |-> folded.lines[1]]
                             ELSE [name |-> "", value |-> <<Char(" ")>> \o folded.lines[i]]]
               pushed == PushHeaderLine(name, value, soft)
    <1>1. /\ pushed = [error |-> pushed.error, lines |-> pushed.lines]
          /\ \/ pushed.lines = <<>>
             \/ HeaderError(name, value) = "none" /\ folded.ok /\ pushed.lines = written
        <2> DEFINE bad == HeaderError(name, value) # "none"
                   long == HeaderError(name, value) = "none" /\ ~folded.ok
        <2>1. pushed = CASE bad -> [error |-> HeaderError(name, value), lines |-> <<>>]
                         [] long -> [error |-> "HeaderLineTooLong", lines |-> <<>>]
                         [] OTHER -> [error |-> "none", lines |-> written]
            BY DEF PushHeaderLine
        <2>2. ~(bad /\ long)
            OBVIOUS
        <2> HIDE DEF pushed, written, folded
        <2>3. CASE bad
            BY <2>1, <2>3
        <2>4. CASE long
            BY <2>1, <2>4
        <2>5. CASE ~bad /\ ~long
            <3>1. HeaderError(name, value) = "none" /\ folded.ok
                BY <2>5
            <3> HIDE DEF bad, long
            <3>2. pushed = [error |-> "none", lines |-> written]
                BY <2>1, <2>5
            <3> QED  BY <3>1, <3>2
        <2> QED  BY <2>3, <2>4, <2>5
    <1> HIDE DEF pushed
    <1>2. CASE pushed.lines = <<>>
        <2>1. IsSeq(<<>>) /\ DOMAIN <<>> = {}
            BY EmptyIsSeq
        <2>2. LinesFit(pushed.lines)
            BY <1>2, <2>1, LinesAre
        <2> QED  BY <1>1, <2>2 DEF pushed
    <1>3. CASE HeaderError(name, value) = "none" /\ folded.ok /\ pushed.lines = written
        <2>1. name \in DOMAIN NameLength
            BY <1>3 DEF HeaderError
        <2>2. NameLength[name] \in Nat \ {0} /\ HardLineLen \in Nat
            BY <2>1, HeaderLinesAssumption
        <2>3. /\ IsLimits(first) /\ (first.hard > 0 => first.hard + (NameLength[name] + 2) = HardLineLen)
              /\ IsLimits(later) /\ (later.hard > 0 => later.hard + 1 = HardLineLen)
            <3>1. NameLength[name] + 2 \in Nat /\ 1 \in Nat
                BY <2>2
            <3> QED  BY <3>1, LimitsAre
        <2> HIDE DEF first, later
        <2>4. CASE value = <<>>
            <3> DEFINE empty == <<>>
                       one == <<empty>>
            <3>1. folded.lines = one
                BY <2>4 DEF SplitForFolding
            <3>2. IsValue(empty) /\ Length(empty) = 0
                BY EmptyLength
            <3> HIDE DEF empty
            <3>3. IsSeq(one) /\ Len(one) = 1 /\ DOMAIN one = 1..1 /\ one[1] = empty
                BY OneIsSeq
            <3> HIDE DEF one, folded
            <3>4. \A i \in 1..1 : i = 1
                OBVIOUS
            <3>5. written = [i \in 1..1 |-> [name |-> name, value |-> empty]]
                BY <3>1, <3>3, <3>4
            <3>6. IsSeq(written) /\ DOMAIN written = 1..1 /\ \A i \in 1..1 : written[i] = [name |-> name, value |-> empty]
                <4>1. \A i \in 1..1 : written[i] = [name |-> name, value |-> empty]
                    BY <3>5
                <4>2. written = [i \in 1..1 |-> written[i]] /\ 1 \in Nat
                    BY <3>5
                <4> HIDE DEF written
                <4> QED  BY <4>1, <4>2, MakeSeq
            <3> HIDE DEF written
            <3>7. LineFits([name |-> name, value |-> empty])
                <4> DEFINE line == [name |-> name, value |-> empty]
                <4>1. line.name = name /\ line.value = empty /\ empty = <<>>
                    BY DEF empty
                <4> HIDE DEF line
                <4>3. LineLength(line) <= HardLineLen \/ NameLength[name] > HardLineLen - 2
                    <5>1. CASE name = ""
                        <6>1. LineLength(line) = 0 + Length(empty)
                            BY <4>1, <5>1 DEF LineLength
                        <6> QED  BY <2>2, <3>2, <6>1
                    <5>2. CASE name # ""
                        <6>1. LineLength(line) = (NameLength[name] + 2) + Length(empty)
                            BY <4>1, <5>2 DEF LineLength
                        <6> QED  BY <2>2, <3>2, <6>1
                    <5> QED  BY <5>1, <5>2
                <4>4. LineFits(line)
                    BY <4>1, <4>3 DEF LineFits
                <4> QED  BY <4>4 DEF line
            <3>8. LinesFit(written)
                BY <3>2, <3>6, <3>7, LinesAre
            <3> QED  BY <1>1, <1>3, <3>8 DEF pushed
        <2>5. CASE value # <<>>
            <3> DEFINE lines == folded.lines
            <3>1. FitsFrom(folded, 1, first, later)
                BY <2>3, <2>5, SplitFits
            <3> HIDE DEF folded
            <3>2. /\ IsSeq(lines)
                  /\ \A i \in DOMAIN lines : IsValue(lines[i]) /\ FitsIn(lines[i], IF i = 1 THEN first ELSE later)
                BY <3>1 DEF FitsFrom, Limited
            <3> HIDE DEF lines
            <3>3. Len(lines) \in Nat /\ DOMAIN lines = 1..Len(lines)
                BY <3>2, SeqFacts
            <3>4. /\ IsSeq(written) /\ DOMAIN written = 1..Len(lines)
                  /\ \A i \in 1..Len(lines) :
                       written[i] = IF i = 1 THEN [name |-> name, value |-> lines[1]]
                                    ELSE [name |-> "", value |-> <<Char(" ")>> \o lines[i]]
                <4>1. written = [i \in 1..Len(lines) |-> IF i = 1 THEN [name |-> name, value |-> lines[1]]
                                                         ELSE [name |-> "", value |-> <<Char(" ")>> \o lines[i]]]
                    BY <3>3 DEF lines
                <4> HIDE DEF written
                <4>2. written = [i \in 1..Len(lines) |-> written[i]]
                    BY <4>1
                <4> QED  BY <3>3, <4>1, <4>2, MakeSeq
            <3> HIDE DEF written
            <3>5. ASSUME NEW i \in 1..Len(lines) PROVE IsValue(written[i].value) /\ LineFits(written[i])
                <4>1. Length(lines[i]) \in Nat /\ IsValue(lines[i])
                    BY <3>2, <3>3, LengthIsNatural
                <4>2. CASE i = 1
                    <5>1. written[i] = [name |-> name, value |-> lines[i]]
                        BY <3>4, <4>2
                    <5>2. written[i].name = name /\ written[i].value = lines[i]
                        BY <5>1
                    <5>3. first.hard > 0 /\ Length(lines[i]) <= first.hard /\ first.hard \in Nat
                        BY <2>3, <3>2, <3>3, <4>2 DEF FitsIn, IsLimits
                    <5>4. LineLength(written[i]) <= HardLineLen
                        <6>1. CASE name = ""
                            <7>1. LineLength(written[i]) = 0 + Length(lines[i])
                                BY <5>2, <6>1 DEF LineLength
                            <7> QED  BY <2>2, <2>3, <4>1, <5>3, <7>1
                        <6>2. CASE name # ""
                            <7>1. LineLength(written[i]) = (NameLength[name] + 2) + Length(lines[i])
                                BY <5>2, <6>2 DEF LineLength
                            <7> QED  BY <2>2, <2>3, <4>1, <5>3, <7>1
                        <6> QED  BY <6>1, <6>2
                    <5> QED  BY <4>1, <5>2, <5>4 DEF LineFits
                <4>3. CASE i # 1
                    <5> DEFINE long == <<Char(" ")>> \o lines[i]
                    <5>1. IsValue(long) /\ Length(long) = 1 + Length(lines[i])
                        BY <4>1, BlankIs, LengthOfLonger
                    <5>5. written[i] = [name |-> "", value |-> long]
                        BY <3>4, <4>3
                    <5> HIDE DEF long
                    <5>2. written[i].name = "" /\ written[i].value = long
                        <6> DEFINE line == [name |-> "", value |-> long]
                        <6>1. line.name = "" /\ line.value = long
                            OBVIOUS
                        <6>2. written[i] = line
                            BY <5>5
                        <6> HIDE DEF line, written
                        <6> QED  BY <6>1, <6>2
                    <5>3. later.hard > 0 /\ Length(lines[i]) <= later.hard /\ later.hard \in Nat
                        BY <2>3, <3>2, <3>3, <4>3 DEF FitsIn, IsLimits
                    <5>4. LineLength(written[i]) <= HardLineLen
                        <6>1. LineLength(written[i]) = 0 + Length(long)
                            BY <5>2 DEF LineLength
                        <6> QED  BY <2>2, <2>3, <4>1, <5>1, <5>3, <6>1
                    <5> QED  BY <5>1, <5>2, <5>4 DEF LineFits
                <4> QED  BY <4>2, <4>3
            <3>6. LinesFit(written)
                BY <3>4, <3>5, LinesAre
            <3> QED  BY <1>1, <1>3, <3>6 DEF pushed
        <2> QED  BY <2>4, <2>5
    <1> QED  BY <1>1, <1>2, <1>3

-------------------------------------------------------------------------------
(* Values, put together. *)

(* A value of two values, of one piece, of many values. *)
LEMMA ValueConcat ==
    ASSUME NEW v, NEW w, IsValue(v), IsValue(w)
    PROVE  IsValue(v \o w)
    <1>1. IsSeq(v) /\ IsSeq(w) /\ (\A i \in DOMAIN v : IsWirePiece(v[i])) /\ \A i \in DOMAIN w : IsWirePiece(w[i])
        BY ValueIs
    <1> DEFINE all == v \o w
    <1>2. IsSeq(all) /\ \A k \in DOMAIN all : (\E i \in DOMAIN v : all[k] = v[i]) \/ \E i \in DOMAIN w : all[k] = w[i]
        BY <1>1, Concat, ConcatFrom
    <1> HIDE DEF all
    <1>3. IsValue(all)
        BY <1>1, <1>2, ValueIs
    <1> QED  BY <1>3 DEF all

(* One piece is a value. *)
LEMMA ValueOne ==
    ASSUME NEW piece, IsWirePiece(piece)
    PROVE  IsValue(<<piece>>)
    <1> DEFINE one == <<piece>>
    <1>1. IsSeq(one) /\ DOMAIN one = 1..1 /\ one[1] = piece
        BY OneIsSeq
    <1> HIDE DEF one
    <1>2. IsValue(one)
        BY <1>1, ValueIs
    <1> QED  BY <1>2 DEF one

(* So is a value with a piece more ... *)
LEMMA ValueMore ==
    ASSUME NEW value, IsValue(value), NEW piece, IsWirePiece(piece)
    PROVE  IsValue(Append(value, piece))
    <1> DEFINE all == Append(value, piece)
    <1>1. IsSeq(value) /\ \A i \in DOMAIN value : IsWirePiece(value[i])
        BY ValueIs
    <1>2. IsSeq(all) /\ \A k \in DOMAIN all : all[k] = piece \/ \E i \in DOMAIN value : all[k] = value[i]
        BY <1>1, Appended, AppendedFrom
    <1> HIDE DEF all
    <1>3. IsValue(all)
        BY <1>1, <1>2, ValueIs
    <1> QED  BY <1>3 DEF all

(* ... and values one after the other. *)
LEMMA ValuesFlattened ==
    ASSUME NEW values, IsSeq(values), \A i \in DOMAIN values : IsValue(values[i])
    PROVE  IsValue(FlattenSeq(values))
    <1> DEFINE flat == FlattenSeq(values)
    <1>1. \A i \in DOMAIN values : IsSeq(values[i]) /\ \A j \in DOMAIN values[i] : IsWirePiece(values[i][j])
        BY ValueIs
    <1>2. AllSeqs(values)
        BY <1>1 DEF AllSeqs
    <1>3. IsSeq(flat) /\ \A k \in DOMAIN flat : \E i \in DOMAIN values : \E j \in DOMAIN values[i] : flat[k] = values[i][j]
        BY <1>2, FlattenedFrom
    <1> HIDE DEF flat
    <1>4. IsValue(flat)
        BY <1>1, <1>3, ValueIs
    <1> QED  BY <1>4 DEF flat

(* A tuple of two, and pieces that are no encoded words. *)
LEMMA PairIs == \A a, b : <<a, b>>[1] = a /\ <<a, b>>[2] = b
    OBVIOUS

(* What is no encoded word is a piece whatever it holds. *)
LEMMA PlainPiece ==
    ASSUME NEW form, form \notin {"B", "Q", "raw"}, NEW x
    PROVE  IsWirePiece(<<form, x>>)
    <1> DEFINE piece == <<form, x>>
    <1>1. piece[1] = form
        BY PairIs
    <1> HIDE DEF piece
    <1>2. IsWirePiece(piece)
        BY <1>1 DEF IsWirePiece, IsWord
    <1> QED  BY <1>2 DEF piece

(* An encoded word of a text is a piece. *)
LEMMA WordPiece ==
    ASSUME NEW form, NEW text, IsSeq(text)
    PROVE  IsWirePiece(<<form, text>>)
    <1> DEFINE piece == <<form, text>>
    <1>1. piece[2] = text
        BY PairIs
    <1> HIDE DEF piece
    <1>2. IsWirePiece(piece)
        BY <1>1 DEF IsWirePiece
    <1> QED  BY <1>2 DEF piece

(* A character is a piece, a lookalike of an encoded word too. *)
LEMMA CharIsPiece == \A c : IsWirePiece(Char(c))
    <1> TAKE c
    <1>1. CASE c \in DOMAIN Lookalikes
        <2>1. c \in {"look", "empty", "qlook", "raw"}
            BY <1>1 DEF Lookalikes
        <2>2. IsSeq(<<"a">>) /\ IsSeq(<<>>) /\ IsSeq(<<"nonascii">>)
            BY OneIsSeq, EmptyIsSeq
        <2>3. Char(c) = Lookalikes[c]
            BY <1>1 DEF Char
        <2>4. Lookalikes[c] \in {<<"B", <<"a">>>>, <<"B", <<>>>>, <<"Q", <<"nonascii">>>>, <<"raw", <<"a">>>>}
            BY <2>1 DEF Lookalikes
        <2> DEFINE a == <<"a">>
                   e == <<>>
                   q == <<"nonascii">>
        <2>5. Char(c) \in {<<"B", a>>, <<"B", e>>, <<"Q", q>>, <<"raw", a>>}
            BY <2>3, <2>4
        <2>6. IsSeq(a) /\ IsSeq(e) /\ IsSeq(q)
            BY <2>2
        <2> HIDE DEF a, e, q
        <2>7. IsWirePiece(<<"B", a>>) /\ IsWirePiece(<<"B", e>>) /\ IsWirePiece(<<"Q", q>>) /\ IsWirePiece(<<"raw", a>>)
            BY <2>6, WordPiece
        <2> QED  BY <2>5, <2>7
    <1>2. CASE c \notin DOMAIN Lookalikes
        <2> DEFINE text == <<c>>
        <2>1. Char(c) = <<"char", text>>
            BY <1>2 DEF Char
        <2> HIDE DEF text
        <2> QED  BY <2>1, PlainPiece
    <1> QED  BY <1>1, <1>2

-------------------------------------------------------------------------------
(* Texts, written as values. *)

(* So a text written as it is makes a value. *)
LEMMA PlainIs ==
    ASSUME NEW text, IsSeq(text)
    PROVE  IsValue(Plain(text))
    <1> DEFINE value == Plain(text)
    <1>1. Len(text) \in Nat /\ value = [i \in 1..Len(text) |-> Char(text[i])]
        BY SeqFacts DEF Plain
    <1>2. value = [i \in 1..Len(text) |-> value[i]] /\ \A i \in 1..Len(text) : value[i] = Char(text[i])
        BY <1>1
    <1> HIDE DEF value
    <1>3. IsSeq(value) /\ DOMAIN value = 1..Len(text)
        BY <1>1, <1>2, MakeSeq
    <1>4. IsValue(value)
        BY <1>2, <1>3, CharIsPiece, ValueIs
    <1> QED  BY <1>4 DEF value

(* The chunk from a character on, and how the text is cut. *)
ChunkEnd(text, start) ==
    LET fitting == {n \in start..Len(text) : Bytes(SubSeq(text, start, n)) <= MaxChunkBytes}
    IN  IF fitting = {} THEN Len(text) ELSE Max(fitting)
ChunkStep(text, start, from) ==
    IF start > Len(text) THEN <<>>
    ELSE <<SubSeq(text, start, ChunkEnd(text, start))>> \o from[ChunkEnd(text, start) + 1]
Cuts(f, text, low) == f = [start \in low..(Len(text) + 1) |-> ChunkStep(text, start, f)]

(* A chunk of an encoded text has a character at least, and ends within the text. *)
LEMMA ChunkEndIs ==
    ASSUME NEW text, IsSeq(text), NEW start \in 1..Len(text)
    PROVE  ChunkEnd(text, start) \in start..Len(text)
    <1> DEFINE fitting == {n \in start..Len(text) : Bytes(SubSeq(text, start, n)) <= MaxChunkBytes}
    <1>1. Len(text) \in Nat
        BY SeqFacts
    <1>2. ChunkEnd(text, start) = IF fitting = {} THEN Len(text) ELSE Max(fitting)
        BY DEF ChunkEnd
    <1>3. fitting \subseteq start..Len(text) /\ fitting \subseteq 0..Len(text)
        BY <1>1
    <1> HIDE DEF fitting
    <1>4. CASE fitting = {}
        BY <1>1, <1>2, <1>4
    <1>5. CASE fitting # {}
        <2>1. Max(fitting) \in fitting
            BY <1>1, <1>3, <1>5, Greatest
        <2> QED  BY <1>2, <1>3, <1>5, <2>1
    <1> QED  BY <1>4, <1>5

(* The recursive function of Chunks exists. *)
LEMMA CuttingExists ==
    ASSUME NEW text, IsSeq(text)
    PROVE  \E f : Cuts(f, text, 1)
    <1> DEFINE n == Len(text) + 1
               S == {k \in 0..n : \E f : Cuts(f, text, n + 1 - k)}
    <1>1. n \in Nat \ {0} /\ n = Len(text) + 1 /\ Len(text) \in Nat
        BY SeqFacts
    <1> HIDE DEF n
    <1>2. 0 \in S
        <2> DEFINE f == [start \in (n + 1 - 0)..n |-> start]
        <2>1. (n + 1 - 0)..n = {}
            BY <1>1
        <2>2. f = [start \in (n + 1 - 0)..n |-> ChunkStep(text, start, f)]
            BY <2>1
        <2> HIDE DEF f
        <2>3. Cuts(f, text, n + 1 - 0)
            BY <1>1, <2>2 DEF Cuts
        <2> QED  BY <1>1, <2>3
    <1>3. \A k \in 1..n : k - 1 \in S => k \in S
        <2> TAKE k \in 1..n
        <2> HAVE k - 1 \in S
        <2> DEFINE low == n + 1 - k
        <2>1. PICK f : Cuts(f, text, n + 1 - (k - 1))
            OBVIOUS
        <2>2. low \in 1..n /\ low \in Nat /\ n + 1 - (k - 1) = low + 1 /\ k \in 0..n
            BY <1>1
        <2> HIDE DEF low
        <2>3. f = [start \in (low + 1)..n |-> ChunkStep(text, start, f)]
            BY <1>1, <2>1, <2>2 DEF Cuts
        <2> DEFINE g == [start \in low..n |-> ChunkStep(text, start, f)]
        <2>4. \A start \in (low + 1)..n : g[start] = f[start]
            <3> TAKE start \in (low + 1)..n
            <3>1. start \in low..n
                BY <1>1, <2>2
            <3>2. f[start] = ChunkStep(text, start, f)
                BY <2>3
            <3> QED  BY <3>1, <3>2
        <2>5. g = [start \in low..n |-> g[start]] /\ \A start \in low..n : g[start] = ChunkStep(text, start, f)
            OBVIOUS
        <2> HIDE DEF g
        <2>6. \A start \in low..n : ChunkStep(text, start, f) = ChunkStep(text, start, g)
            <3> TAKE start \in low..n
            <3> DEFINE end == ChunkEnd(text, start)
            <3>1. CASE start > Len(text)
                BY <3>1 DEF ChunkStep
            <3>2. CASE ~(start > Len(text))
                <4>1. end \in start..Len(text)
                    <5>1. start \in 1..Len(text)
                        BY <1>1, <2>2, <3>2
                    <5> QED  BY <5>1, ChunkEndIs
                <4> HIDE DEF end
                <4>2. end + 1 \in (low + 1)..n
                    BY <1>1, <2>2, <4>1
                <4>3. f[end + 1] = g[end + 1]
                    BY <2>4, <4>2
                <4> QED  BY <4>3 DEF ChunkStep, end
            <3> QED  BY <3>1, <3>2
        <2>7. \A start \in low..n : g[start] = ChunkStep(text, start, g)
            BY <2>5, <2>6
        <2>8. Cuts(g, text, low)
            <3>1. g = [start \in low..n |-> ChunkStep(text, start, g)]
                BY <2>5, <2>7, Zenon
            <3> QED  BY <1>1, <3>1 DEF Cuts
        <2> QED  BY <2>2, <2>8 DEF low
    <1> HIDE DEF S
    <1>4. n \in S
        <2>1. 0..n \subseteq S
            BY <1>1, <1>2, <1>3, BoundedInduction
        <2> QED  BY <1>1, <2>1
    <1>5. \E f : Cuts(f, text, n + 1 - n)
        BY <1>4 DEF S
    <1> QED  BY <1>1, <1>5

(* A text is cut into texts, and one that is not empty into some. *)
LEMMA ChunksAre ==
    ASSUME NEW text, IsSeq(text)
    PROVE  AllSeqs(Chunks(text)) /\ (text # <<>> => Chunks(text) # <<>>)
    <1> DEFINE Solves(f) == f = [start \in 1..(Len(text) + 1) |->
                                  IF start > Len(text) THEN <<>>
                                  ELSE <<SubSeq(text, start, ChunkEnd(text, start))>> \o f[ChunkEnd(text, start) + 1]]
               h == CHOOSE f : Solves(f)
               n == Len(text) + 1
    <1>1. Chunks(text) = h[1]
        BY DEF Chunks, ChunkEnd
    <1>2. \A f : Solves(f) <=> Cuts(f, text, 1)
        BY DEF Cuts, ChunkStep
    <1> HIDE DEF Solves
    <1>3. Solves(h)
        BY <1>2, CuttingExists
    <1> HIDE DEF h
    <1>4. n \in Nat \ {0} /\ n = Len(text) + 1 /\ Len(text) \in Nat
        BY SeqFacts
    <1>5. \A start \in 1..n : h[start] = ChunkStep(text, start, h)
        BY <1>2, <1>3 DEF Cuts
    <1> HIDE DEF n
    <1> DEFINE S == {k \in Nat : k < n => AllSeqs(h[n - k]) /\ (k > 0 => h[n - k] # <<>>)}
    <1>6. \A k \in Nat : 0..(k - 1) \subseteq S => k \in S
        <2> TAKE k \in Nat
        <2> HAVE 0..(k - 1) \subseteq S
        <2> SUFFICES ASSUME k < n PROVE AllSeqs(h[n - k]) /\ (k > 0 => h[n - k] # <<>>)
            OBVIOUS
        <2> DEFINE start == n - k
                   end == ChunkEnd(text, start)
                   one == SubSeq(text, start, end)
                   first == <<one>>
                   rest == h[end + 1]
                   all == first \o rest
        <2>1. start \in 1..n /\ h[start] = ChunkStep(text, start, h)
            BY <1>4, <1>5
        <2>2. CASE k = 0
            <3>1. start > Len(text)
                BY <1>4, <2>2
            <3>2. h[start] = <<>>
                BY <2>1, <3>1 DEF ChunkStep
            <3>3. IsSeq(<<>>) /\ DOMAIN <<>> = {}
                BY EmptyIsSeq
            <3>4. AllSeqs(<<>>)
                BY <3>3 DEF AllSeqs
            <3> QED  BY <2>2, <3>2, <3>4
        <2>3. CASE k # 0
            <3>1. start \in 1..Len(text) /\ ~(start > Len(text))
                BY <1>4, <2>3
            <3>2. h[start] = all
                BY <2>1, <3>1 DEF ChunkStep
            <3>3. end \in start..Len(text)
                <4> HIDE DEF start
                <4> QED  BY <3>1, ChunkEndIs
            <3> HIDE DEF end
            <3>4. IsSeq(one)
                <4>1. start \in Nat /\ end \in Nat /\ 1 <= start /\ end <= Len(text)
                    BY <1>4, <3>1, <3>3
                <4> HIDE DEF start
                <4> QED  BY <4>1, PartOfSeq
            <3> HIDE DEF one
            <3>5. AllSeqs(rest)
                <4>1. n - (end + 1) \in 0..(k - 1) /\ n - (end + 1) < n /\ n - (n - (end + 1)) = end + 1
                    BY <1>4, <3>1, <3>3
                <4> DEFINE j == n - (end + 1)
                <4>2. j \in S /\ j < n /\ n - j = end + 1
                    BY <4>1
                <4> HIDE DEF j
                <4> QED  BY <4>2
            <3> HIDE DEF rest, start
            <3>6. AllSeqs(first) /\ Len(first) = 1
                <4>1. IsSeq(first) /\ Len(first) = 1 /\ DOMAIN first = 1..1 /\ first[1] = one
                    BY OneIsSeq
                <4> HIDE DEF first
                <4>2. \A i \in 1..1 : i = 1
                    OBVIOUS
                <4> QED  BY <3>4, <4>1, <4>2 DEF AllSeqs
            <3> HIDE DEF first
            <3>7. AllSeqs(all)
                BY <3>5, <3>6, FlattenConcat
            <3>8. all # <<>>
                <4>1. Len(rest) \in Nat /\ Len(all) = Len(first) + Len(rest)
                    BY <3>5, <3>6, SeqFacts, Concat DEF AllSeqs
                <4>2. Len(all) # 0
                    BY <3>6, <4>1
                <4> HIDE DEF all
                <4> QED  BY <4>2
            <3> HIDE DEF all
            <3>9. AllSeqs(h[start]) /\ h[start] # <<>>
                BY <3>2, <3>7, <3>8
            <3> QED  BY <3>9 DEF start
        <2> QED  BY <2>2, <2>3
    <1> HIDE DEF S
    <1>7. n - 1 \in S
        <2>1. Nat \subseteq S
            BY <1>6, StrongInduction
        <2> QED  BY <1>4, <2>1
    <1>8. AllSeqs(h[1]) /\ (n - 1 > 0 => h[1] # <<>>)
        <2>1. n - 1 < n /\ n - (n - 1) = 1
            BY <1>4
        <2> QED  BY <1>7, <2>1 DEF S
    <1>9. text # <<>> => n - 1 > 0
        BY <1>4, EmptyIsSeq
    <1> QED  BY <1>1, <1>8, <1>9

(* Encoded words, and phrases, are values. *)
LEMMA WordsAreValue ==
    ASSUME NEW text, IsSeq(text), text # <<>>
    PROVE  IsValue(Base64Words(text))
    <1> DEFINE chunks == Chunks(text)
               word(i) == <<"B", chunks[i]>>
               spaced == [i \in DOMAIN chunks |-> <<Char(" "), word(i)>>]
               flat == FlattenSeq(spaced)
    <1>1. AllSeqs(chunks) /\ chunks # <<>>
        BY ChunksAre
    <1>2. Base64Words(text) = Tail(flat)
        BY DEF Base64Words
    <1> HIDE DEF chunks
    <1>3. IsSeq(chunks) /\ Len(chunks) \in Nat \ {0} /\ DOMAIN chunks = 1..Len(chunks) /\ \A i \in 1..Len(chunks) : IsSeq(chunks[i])
        BY <1>1, SeqFacts, EmptyIsSeq DEF AllSeqs
    <1>4. \A i \in 1..Len(chunks) : IsWirePiece(word(i))
        BY <1>3, WordPiece
    <1> HIDE DEF word
    <1>5. spaced = [i \in 1..Len(chunks) |-> spaced[i]] /\ \A i \in 1..Len(chunks) : spaced[i] = <<Char(" "), word(i)>>
        BY <1>3
    <1>6. \A i \in 1..Len(chunks) : IsValue(<<Char(" "), word(i)>>) /\ Len(<<Char(" "), word(i)>>) = 2
        <2> TAKE i \in 1..Len(chunks)
        <2> DEFINE a == Char(" ")
                   b == word(i)
                   one == <<b>>
        <2>1. IsWirePiece(a) /\ IsValue(one) /\ Len(one) = 1
            BY <1>4, CharIsPiece, ValueOne, OneIsSeq
        <2>2. <<a>> \o one = <<a, b>>
            BY PutBefore
        <2> HIDE DEF a, one
        <2>3. IsValue(<<a>>) /\ Len(<<a>>) = 1
            BY <2>1, ValueOne, OneIsSeq
        <2>4. IsValue(<<a>> \o one) /\ Len(<<a>> \o one) = 2
            <3> DEFINE first == <<a>>
            <3>1. IsValue(first) /\ Len(first) = 1
                BY <2>3
            <3> HIDE DEF first
            <3>2. IsValue(first \o one) /\ Len(first \o one) = Len(first) + Len(one)
                BY <2>1, <3>1, ValueConcat, Concat, ValueIs
            <3>3. Len(first \o one) = 2
                BY <2>1, <3>1, <3>2
            <3> QED  BY <3>2, <3>3 DEF first
        <2> QED  BY <2>2, <2>4 DEF a
    <1> HIDE DEF spaced
    <1>7. IsSeq(spaced) /\ Len(spaced) = Len(chunks) /\ DOMAIN spaced = 1..Len(chunks)
        BY <1>3, <1>5, MakeSeq
    <1>8. \A i \in 1..Len(chunks) : IsValue(spaced[i]) /\ Len(spaced[i]) = 2
        BY <1>5, <1>6
    <1>9. IsValue(flat)
        BY <1>7, <1>8, ValuesFlattened
    <1>10. flat # <<>>
        <2> DEFINE n == Len(chunks)
        <2>1. AllSeqs(spaced)
            BY <1>7, <1>8, ValueIs DEF AllSeqs
        <2>2. n \in 1..Len(spaced) /\ n - 1 \in 0..Len(spaced)
            BY <1>3, <1>7
        <2>3. flat = FlattenSeq(Firsts(spaced, n - 1)) \o spaced[n]
            BY <1>7, <2>1, <2>2, FlattenSteps
        <2> DEFINE before == FlattenSeq(Firsts(spaced, n - 1))
                   last == spaced[n]
        <2>4. IsSeq(before)
            <3> DEFINE some == Firsts(spaced, n - 1)
            <3>1. /\ n - 1 \in Nat /\ some = [i \in 1..(n - 1) |-> some[i]] /\ \A i \in 1..(n - 1) : some[i] = spaced[i]
                  /\ \A i \in 1..(n - 1) : i \in 1..Len(chunks)
                BY <1>3 DEF Firsts
            <3> HIDE DEF some
            <3>2. IsSeq(some) /\ DOMAIN some = 1..(n - 1)
                BY <3>1, MakeSeq
            <3>3. AllSeqs(some)
                BY <1>7, <2>1, <3>1, <3>2 DEF AllSeqs
            <3>4. IsSeq(FlattenSeq(some))
                BY <3>3, FlattenedFrom
            <3> QED  BY <3>4 DEF some
        <2>5. IsSeq(last) /\ Len(last) = 2
            BY <1>8, <1>7, <2>2, ValueIs
        <2>6. flat = before \o last
            BY <2>3
        <2> HIDE DEF before, last, flat
        <2>7. Len(flat) = Len(before) + 2 /\ Len(before) \in Nat
            <3>1. Len(before \o last) = Len(before) + Len(last)
                BY <2>4, <2>5, Concat
            <3>2. Len(before) \in Nat
                BY <2>4, SeqFacts
            <3> QED  BY <2>5, <2>6, <3>1, <3>2
        <2>8. Len(flat) # 0
            BY <2>7
        <2> QED  BY <2>8, EmptyIsSeq
    <1> HIDE DEF flat
    <1>11. IsSeq(flat) /\ \A i \in DOMAIN flat : IsWirePiece(flat[i])
        BY <1>9, ValueIs
    <1> DEFINE rest == Tail(flat)
    <1>12. IsSeq(rest) /\ \A k \in DOMAIN rest : \E i \in DOMAIN flat : rest[k] = flat[i]
        BY <1>10, <1>11, TailFrom
    <1> HIDE DEF rest
    <1>13. IsValue(rest)
        BY <1>11, <1>12, ValueIs
    <1> QED  BY <1>2, <1>13 DEF rest

(* Text that is not ASCII is not empty. *)
LEMMA NotEmpty ==
    ASSUME NEW text, ~IsAscii(text)
    PROVE  text # <<>>
    <1> SUFFICES ASSUME text = <<>> PROVE FALSE
        OBVIOUS
    <1>1. DOMAIN text = {}
        BY EmptyIsSeq
    <1> QED  BY <1>1 DEF IsAscii

(* A text in an unstructured header is a value, encoded or not. *)
LEMMA UnstructuredIs ==
    ASSUME NEW text, IsSeq(text)
    PROVE  IsValue(EncodeUnstructured(text))
    BY PlainIs, WordsAreValue, NotEmpty DEF EncodeUnstructured

(* So is a text in quotes ... *)
LEMMA QuoteIs ==
    ASSUME NEW text, IsSeq(text)
    PROVE  IsValue(QuotePhrase(text))
    <1> DEFINE escaped(c) == IF c \in {"quote", "backslash"} THEN <<Char("backslash"), Char(c)>> ELSE <<Char(c)>>
               inner == [i \in DOMAIN text |-> escaped(text[i])]
               quote == <<Char("quote")>>
    <1>1. QuotePhrase(text) = quote \o FlattenSeq(inner) \o quote
        BY DEF QuotePhrase
    <1>2. Len(text) \in Nat /\ DOMAIN text = 1..Len(text)
        BY SeqFacts
    <1>3. \A c : IsValue(escaped(c))
        <2> TAKE c
        <2> DEFINE a == Char("backslash")
                   b == Char(c)
        <2>1. IsWirePiece(a) /\ IsWirePiece(b)
            BY CharIsPiece
        <2>2. IsValue(<<a>>) /\ IsValue(<<b>>)
            BY <2>1, ValueOne
        <2>3. <<a>> \o <<b>> = <<a, b>>
            BY PutBefore
        <2>4. IsValue(<<a>> \o <<b>>)
            BY <2>2, ValueConcat
        <2>5. IsValue(<<a, b>>)
            BY <2>3, <2>4
        <2> QED  BY <2>2, <2>5
    <1>4. inner = [i \in 1..Len(text) |-> inner[i]] /\ \A i \in 1..Len(text) : inner[i] = escaped(text[i])
        BY <1>2
    <1>5. \A i \in 1..Len(text) : IsValue(inner[i])
        BY <1>3, <1>4
    <1>6. IsValue(quote)
        BY CharIsPiece, ValueOne
    <1> HIDE DEF inner, quote
    <1>7. IsSeq(inner) /\ DOMAIN inner = 1..Len(text)
        BY <1>2, <1>4, MakeSeq
    <1> DEFINE flat == FlattenSeq(inner)
    <1>8. IsValue(flat)
        BY <1>5, <1>7, ValuesFlattened
    <1> HIDE DEF flat
    <1>9. IsValue(quote \o flat)
        BY <1>6, <1>8, ValueConcat
    <1>10. IsValue((quote \o flat) \o quote)
        BY <1>6, <1>9, ValueConcat
    <1> QED  BY <1>1, <1>10 DEF flat

(* ... and a text in a phrase: a quoted string or encoded words. *)
LEMMA PhraseIs ==
    ASSUME NEW text, IsSeq(text)
    PROVE  IsValue(EncodePhrase(text))
    BY QuoteIs, WordsAreValue, NotEmpty DEF EncodePhrase

(* Values with a separator between them are a value. *)
LEMMA JoinedIs ==
    ASSUME NEW separator, IsValue(separator), NEW values, IsSeq(values), \A i \in DOMAIN values : IsValue(values[i])
    PROVE  IsValue(JoinedBy(separator, values))
    <1>1. Len(values) \in Nat /\ DOMAIN values = 1..Len(values)
        BY SeqFacts
    <1>2. CASE values = <<>>
        BY <1>2, EmptyLength DEF JoinedBy
    <1>3. CASE values # <<>>
        <2> DEFINE n == Len(values) - 1
                   others == [i \in 1..n |-> separator \o values[i + 1]]
                   first == values[1]
                   flat == FlattenSeq(others)
        <2>1. n \in Nat /\ 1 \in 1..Len(values) /\ \A i \in 1..n : i + 1 \in 1..Len(values)
            BY <1>1, <1>3, EmptyIsSeq
        <2>2. IsValue(first)
            BY <1>1, <2>1
        <2>3. JoinedBy(separator, values) = first \o flat
            BY <1>3 DEF JoinedBy
        <2> HIDE DEF n, first
        <2>4. others = [i \in 1..n |-> others[i]] /\ \A i \in 1..n : others[i] = separator \o values[i + 1]
            OBVIOUS
        <2> HIDE DEF others
        <2>5. IsSeq(others) /\ DOMAIN others = 1..n
            BY <2>1, <2>4, MakeSeq
        <2>6. \A i \in 1..n : IsValue(others[i])
            BY <1>1, <2>1, <2>4, ValueConcat
        <2>7. IsValue(flat)
            BY <2>5, <2>6, ValuesFlattened
        <2> HIDE DEF flat
        <2> QED  BY <2>2, <2>3, <2>7, ValueConcat
    <1> QED  BY <1>2, <1>3

-------------------------------------------------------------------------------
(* Mailboxes, groups and lists of them, written as values. *)

(* A mailbox is written as a value ... *)
LEMMA MailboxIs ==
    ASSUME NEW mailbox, IsNamed(mailbox)
    PROVE  IsValue(WriteMailbox(EncodePhrase, mailbox))
    <1> DEFINE addr == Addr(mailbox.email)
               blank == Char(" ")
               name == mailbox.name
               phrase == EncodePhrase(name[1])
    <1>1. IsWirePiece(addr) /\ IsWirePiece(blank)
        BY PlainPiece, CharIsPiece DEF Addr
    <1>2. CASE name = <<>>
        <2>1. WriteMailbox(EncodePhrase, mailbox) = <<addr>>
            BY <1>2 DEF WriteMailbox
        <2> HIDE DEF addr
        <2> QED  BY <1>1, <2>1, ValueOne
    <1>3. CASE name # <<>>
        <2>1. IsSeq(name[1])
            BY <1>3 DEF IsNamed, IsOption
        <2>2. WriteMailbox(EncodePhrase, mailbox) = phrase \o <<blank, addr>>
            BY <1>3 DEF WriteMailbox
        <2> HIDE DEF addr, blank, name
        <2>3. IsValue(phrase)
            BY <2>1, PhraseIs
        <2> HIDE DEF phrase
        <2>4. <<blank>> \o <<addr>> = <<blank, addr>>
            BY PutBefore
        <2>5. IsValue(<<blank>> \o <<addr>>)
            BY <1>1, ValueOne, ValueConcat
        <2>6. IsValue(<<blank, addr>>)
            BY <2>4, <2>5
        <2> DEFINE last == <<blank, addr>>
        <2> HIDE DEF last
        <2>7. IsValue(phrase \o last)
            BY <2>3, <2>6, ValueConcat DEF last
        <2> QED  BY <2>2, <2>7 DEF last
    <1> QED  BY <1>2, <1>3

(* ... a comma with its blank is one ... *)
LEMMA SeparatorIs == IsValue(CommaBlank)
    <1> DEFINE comma == Punct(",")
               blank == Char(" ")
    <1>1. IsWirePiece(comma) /\ IsWirePiece(blank)
        BY PlainPiece, CharIsPiece DEF Punct
    <1>2. CommaBlank = <<comma>> \o <<blank>>
        BY PutBefore DEF CommaBlank
    <1> HIDE DEF comma, blank
    <1>3. IsValue(<<comma>> \o <<blank>>)
        BY <1>1, ValueOne, ValueConcat
    <1> QED  BY <1>2, <1>3

(* ... so is a group ... *)
LEMMA GroupIs ==
    ASSUME NEW group, IsSeq(group.name), IsSeq(group.members), \A i \in DOMAIN group.members : IsNamed(group.members[i])
    PROVE  IsValue(WriteGroup(EncodePhrase, group))
    <1> DEFINE members == group.members
               boxes == [i \in DOMAIN members |-> WriteMailbox(EncodePhrase, members[i])]
               phrase == EncodePhrase(group.name)
               colon == <<Punct(":")>>
               joined == JoinedBy(CommaBlank, boxes)
               last == <<Punct(";")>>
    <1>1. WriteGroup(EncodePhrase, group) = phrase \o colon \o joined \o last
        BY DEF WriteGroup
    <1>2. IsValue(phrase) /\ IsValue(colon) /\ IsValue(last)
        BY PhraseIs, PlainPiece, ValueOne DEF Punct
    <1>3. Len(members) \in Nat /\ DOMAIN members = 1..Len(members) /\ \A i \in 1..Len(members) : IsNamed(members[i])
        BY SeqFacts
    <1> HIDE DEF members
    <1>4. boxes = [i \in 1..Len(members) |-> boxes[i]] /\ \A i \in 1..Len(members) : IsValue(boxes[i])
        BY <1>3, MailboxIs
    <1> HIDE DEF boxes
    <1>5. IsSeq(boxes) /\ DOMAIN boxes = 1..Len(members)
        BY <1>3, <1>4, MakeSeq
    <1>6. IsValue(joined)
        BY <1>4, <1>5, SeparatorIs, JoinedIs
    <1> HIDE DEF joined, phrase, colon, last
    <1>7. IsValue(phrase \o colon)
        BY <1>2, ValueConcat
    <1>8. IsValue((phrase \o colon) \o joined)
        BY <1>6, <1>7, ValueConcat
    <1>9. IsValue(((phrase \o colon) \o joined) \o last)
        BY <1>2, <1>8, ValueConcat
    <1> QED  BY <1>1, <1>9

(* ... an address, whichever of the two it is ... *)
LEMMA AddressIs ==
    ASSUME NEW address, IsAddressee(address)
    PROVE  IsValue(WriteAddress(EncodePhrase, address))
    <1>1. CASE address.kind = "mailbox"
        BY <1>1, MailboxIs DEF IsAddressee, WriteAddress
    <1>2. CASE address.kind # "mailbox"
        BY <1>2, GroupIs DEF IsAddressee, IsList, WriteAddress
    <1> QED  BY <1>1, <1>2

(* ... and a list of addresses. *)
LEMMA ListIs ==
    ASSUME NEW addresses, IsSeq(addresses), \A i \in DOMAIN addresses : IsAddressee(addresses[i])
    PROVE  IsValue(RenderAddressListHeader(addresses))
    <1> DEFINE written == [i \in DOMAIN addresses |-> WriteAddress(EncodePhrase, addresses[i])]
    <1>1. Len(addresses) \in Nat /\ DOMAIN addresses = 1..Len(addresses)
        BY SeqFacts
    <1>2. \A i \in 1..Len(addresses) : IsValue(WriteAddress(EncodePhrase, addresses[i]))
        BY <1>1, AddressIs
    <1>3. written = [i \in 1..Len(addresses) |-> written[i]] /\ \A i \in 1..Len(addresses) : IsValue(written[i])
        BY <1>1, <1>2
    <1>4. RenderAddressListHeader(addresses) = JoinedBy(CommaBlank, written)
        BY DEF RenderAddressListHeader
    <1> HIDE DEF written
    <1>5. IsSeq(written) /\ DOMAIN written = 1..Len(addresses)
        BY <1>1, <1>3, MakeSeq
    <1> QED  BY <1>3, <1>4, <1>5, SeparatorIs, JoinedIs

(* A custom header is written as it is, or its text is encoded. *)
LEMMA CustomIs ==
    ASSUME NEW header, IsValue(header.value)
    PROVE  IsValue(HeaderValue(header))
    <1> DEFINE value == header.value
               text == AsText(value)
    <1>1. Len(value) \in Nat /\ DOMAIN value = 1..Len(value)
        BY ValueIs, SeqFacts
    <1>2. text = [i \in 1..Len(value) |-> text[i]]
        BY <1>1 DEF AsText
    <1>3. HeaderValue(header) = value \/ HeaderValue(header) = EncodeUnstructured(text)
        BY DEF HeaderValue
    <1> HIDE DEF value, text
    <1>4. IsSeq(text)
        BY <1>1, <1>2, MakeSeq
    <1>5. IsValue(EncodeUnstructured(text))
        BY <1>4, UnstructuredIs
    <1> QED  BY <1>3, <1>5 DEF value

-------------------------------------------------------------------------------
(* The fields of a message, and the lines they are written on. *)

IsFields(fields) == IsSeq(fields) /\ \A i \in DOMAIN fields : IsValue(fields[i].value)

(* Fields one after the other are fields. *)
LEMMA FieldsConcat ==
    ASSUME NEW s, NEW t, IsFields(s), IsFields(t)
    PROVE  IsFields(s \o t)
    <1> DEFINE all == s \o t
    <1>1. IsSeq(all) /\ \A k \in DOMAIN all : (\E i \in DOMAIN s : all[k] = s[i]) \/ \E i \in DOMAIN t : all[k] = t[i]
        BY Concat, ConcatFrom DEF IsFields
    <1> HIDE DEF all
    <1>2. IsFields(all)
        BY <1>1 DEF IsFields
    <1> QED  BY <1>2 DEF all

(* One field with a value is a list of fields. *)
LEMMA FieldsOne ==
    ASSUME NEW name, NEW value, IsValue(value)
    PROVE  IsFields(<<Field(name, value)>>)
    <1> DEFINE field == Field(name, value)
               one == <<field>>
    <1>1. field.value = value
        BY DEF Field
    <1> HIDE DEF field
    <1>2. IsSeq(one) /\ DOMAIN one = 1..1 /\ one[1] = field
        BY OneIsSeq
    <1> HIDE DEF one
    <1>3. IsFields(one)
        BY <1>1, <1>2 DEF IsFields
    <1> QED  BY <1>3 DEF one, field

(* So is none. *)
LEMMA FieldsNone == IsFields(<<>>)
    <1>1. IsSeq(<<>>) /\ DOMAIN <<>> = {}
        BY EmptyIsSeq
    <1> QED  BY <1>1 DEF IsFields

(* A field that is left out when there is nothing to say. *)
LEMMA FieldsIfAny ==
    ASSUME NEW list, NEW name, NEW value, list # <<>> => IsValue(value)
    PROVE  IsFields(IfAny(list, <<Field(name, value)>>))
    BY FieldsOne, FieldsNone DEF IfAny

(* A token that is no encoded word is a value. *)
LEMMA TokenIs ==
    ASSUME NEW kind, kind \notin {"B", "Q", "raw"}, NEW x
    PROVE  IsValue(Token(kind, x))
    BY PlainPiece, ValueOne DEF Token

(* A blank that sets a parameter off. *)
LEMMA NextParameterIs == IsValue(NextParameter)
    <1> DEFINE a == Char(";")
               b == Char(" ")
    <1>1. IsWirePiece(a) /\ IsWirePiece(b)
        BY CharIsPiece
    <1>2. IsValue(<<a>>) /\ IsValue(<<b>>)
        BY <1>1, ValueOne
    <1>3. <<a>> \o <<b>> = <<a, b>>
        BY PutBefore
    <1>4. IsValue(<<a>> \o <<b>>)
        BY <1>2, ValueConcat
    <1>5. IsValue(<<a, b>>)
        BY <1>3, <1>4
    <1> QED  BY <1>5 DEF NextParameter

(* A media type with its parameters is a value. *)
LEMMA TypeTextIs == \A type : IsValue(TypeText(type))
    <1> TAKE type
    <1> DEFINE media == Token("type", type.media)
               charset == IF type.charset = "none" THEN <<>> ELSE NextParameter \o <<Char(type.charset)>>
               boundary == IF type.boundary = NoBoundary THEN <<>>
                           ELSE NextParameter \o Token("boundary", type.boundary)
    <1>1. TypeText(type) = media \o charset \o boundary
        BY DEF TypeText
    <1>2. IsValue(media)
        BY TokenIs
    <1>3. IsValue(charset)
        <2> DEFINE value == <<Char(type.charset)>>
        <2>1. IsValue(value)
            BY CharIsPiece, ValueOne
        <2> HIDE DEF value
        <2>2. IsValue(NextParameter \o value)
            BY <2>1, NextParameterIs, ValueConcat
        <2> QED  BY <2>2, EmptyLength DEF value
    <1>4. IsValue(boundary)
        <2> DEFINE value == Token("boundary", type.boundary)
        <2>1. IsValue(value)
            BY TokenIs
        <2> HIDE DEF value
        <2>2. IsValue(NextParameter \o value)
            BY <2>1, NextParameterIs, ValueConcat
        <2> QED  BY <2>2, EmptyLength DEF value
    <1> HIDE DEF media, charset, boundary
    <1>5. IsValue(media \o charset)
        BY <1>2, <1>3, ValueConcat
    <1>6. IsValue((media \o charset) \o boundary)
        BY <1>4, <1>5, ValueConcat
    <1> QED  BY <1>1, <1>6

(* So is a file name, with its bytes spelled out ... *)
LEMMA PercentIs ==
    ASSUME NEW text, IsSeq(text)
    PROVE  IsValue(PercentEncoded(text))
    <1> DEFINE n == Len(text)
               escaped(c) == [j \in 1..(3 * Bytes(<<c>>)) |-> <<"%XX", c>>]
               spelled(c) == IF c \in Unescaped THEN <<Char(c)>> ELSE escaped(c)
               inner == [i \in DOMAIN text |-> spelled(text[i])]
    <1>1. PercentEncoded(text) = FlattenSeq(inner)
        BY DEF PercentEncoded
    <1>2. n \in Nat /\ DOMAIN text = 1..n
        BY SeqFacts
    <1>3. \A c : IsValue(escaped(c))
        <2> TAKE c
        <2> DEFINE size == 3 * Bytes(<<c>>)
                   bytes == escaped(c)
                   byte == <<"%XX", c>>
        <2>1. size \in Nat
            <3> DEFINE one == <<c>>
            <3>1. IsSeq(one)
                BY OneIsSeq
            <3> HIDE DEF one
            <3>2. Len(one) \in Nat
                BY <3>1, SeqFacts
            <3>3. PICK f \in [0..Len(one) -> Nat] : Bytes(one) = f[Len(one)]
                BY <3>1, BytesCounted
            <3>4. Bytes(one) \in Nat
                BY <3>2, <3>3
            <3>5. 3 * Bytes(one) \in Nat
                BY <3>4
            <3> QED  BY <3>5 DEF one
        <2> HIDE DEF size
        <2>2. bytes = [j \in 1..size |-> bytes[j]] /\ \A j \in 1..size : bytes[j] = byte
            BY DEF size
        <2>3. IsWirePiece(byte)
            BY PlainPiece
        <2> HIDE DEF bytes, byte
        <2>4. IsSeq(bytes) /\ DOMAIN bytes = 1..size
            BY <2>1, <2>2, MakeSeq
        <2>5. IsValue(bytes)
            BY <2>2, <2>3, <2>4, ValueIs
        <2> QED  BY <2>5 DEF bytes
    <1>4. \A c : IsValue(spelled(c))
        <2> TAKE c
        <2> HIDE DEF escaped
        <2>1. IsValue(<<Char(c)>>)
            BY CharIsPiece, ValueOne
        <2> QED  BY <1>3, <2>1
    <1> HIDE DEF escaped, spelled
    <1>5. inner = [i \in 1..n |-> inner[i]] /\ \A i \in 1..n : IsValue(inner[i])
        BY <1>2, <1>4
    <1> HIDE DEF inner
    <1>6. IsSeq(inner) /\ DOMAIN inner = 1..n
        BY <1>2, <1>5, MakeSeq
    <1>7. IsValue(FlattenSeq(inner))
        BY <1>5, <1>6, ValuesFlattened
    <1> QED  BY <1>1, <1>7

(* ... or in quotes ... *)
LEMMA FilenameIs ==
    ASSUME NEW text, IsSeq(text)
    PROVE  IsValue(FilenameParameter(text))
    <1> DEFINE extended == Token("parameter", "filename*")
               plain == Token("parameter", "filename")
               spelled == PercentEncoded(text)
               quoted == QuotePhrase(text)
    <1>1. FilenameParameter(text) = extended \o spelled \/ FilenameParameter(text) = plain \o quoted
        BY DEF FilenameParameter
    <1>2. IsValue(extended) /\ IsValue(plain)
        BY TokenIs
    <1>3. IsValue(spelled) /\ IsValue(quoted)
        BY PercentIs, QuoteIs
    <1> HIDE DEF extended, plain, spelled, quoted
    <1>4. IsValue(extended \o spelled) /\ IsValue(plain \o quoted)
        BY <1>2, <1>3, ValueConcat
    <1> QED  BY <1>1, <1>4

(* ... and a disposition with it. *)
LEMMA DispositionTextIs == \A disposition : IsValue(DispositionText(disposition))
    <1> TAKE disposition
    <1> DEFINE kind == Token("disposition", disposition.kind)
               name == disposition.name
               given == NextParameter \o FilenameParameter(FileNames[name])
               rest == IF name \in DOMAIN FileNames THEN given ELSE <<>>
    <1>1. DispositionText(disposition) = kind \o rest
        BY DEF DispositionText
    <1>2. IsValue(kind)
        BY TokenIs
    <1>3. name \in DOMAIN FileNames => IsValue(given)
        <2> DEFINE value == FilenameParameter(FileNames[name])
        <2> SUFFICES ASSUME name \in DOMAIN FileNames PROVE IsValue(NextParameter \o value)
            OBVIOUS
        <2>1. IsValue(value)
            BY FilenameIs, MimeHeadersAssumption
        <2> HIDE DEF value
        <2> QED  BY <2>1, NextParameterIs, ValueConcat
    <1> HIDE DEF kind, given, name
    <1>4. IsValue(rest)
        BY <1>3, EmptyLength
    <1> HIDE DEF rest
    <1>5. IsValue(kind \o rest)
        BY <1>2, <1>4, ValueConcat
    <1> QED  BY <1>1, <1>5

(* The value of a MIME header is a value whatever the part says. *)
LEMMA HeaderTextIs ==
    ASSUME NEW kind, kind \notin {"B", "Q", "raw"}, NEW value
    PROVE  IsValue(HeaderText(kind, value))
    BY TypeTextIs, DispositionTextIs, TokenIs DEF HeaderText

(* The typed fields of a message. *)
LEMMA TypedFieldsAre ==
    ASSUME NEW m, IsWritten(m), NEW o
    PROVE  IsFields(TypedFields(m, o))
    <1> DEFINE from == IfAny(m.from, <<Field("From", RenderMailboxHeader(m.from[1]))>>)
               sender == IfAny(m.sender, <<Field("Sender", RenderMailboxHeader(m.sender[1]))>>)
               to == IfAny(m.to, <<Field("To", RenderAddressListHeader(m.to))>>)
               cc == IfAny(m.cc, <<Field("Cc", RenderAddressListHeader(m.cc))>>)
               bcc == IF o.bcc THEN IfAny(m.bcc, <<Field("Bcc", RenderAddressListHeader(m.bcc))>>) ELSE <<>>
               reply == IfAny(m.replyTo, <<Field("Reply-To", RenderAddressListHeader(m.replyTo))>>)
               subject == IfAny(m.subject, <<Field("Subject", EncodeUnstructured(m.subject[1]))>>)
    <1>1. TypedFields(m, o) = from \o sender \o to \o cc \o bcc \o reply \o subject
        BY DEF TypedFields
    <1>2. IsFields(from) /\ IsFields(sender)
        <2>1. (m.from # <<>> => IsNamed(m.from[1])) /\ (m.sender # <<>> => IsNamed(m.sender[1]))
            BY DEF IsWritten, IsOption
        <2>2. /\ m.from # <<>> => IsValue(RenderMailboxHeader(m.from[1]))
              /\ m.sender # <<>> => IsValue(RenderMailboxHeader(m.sender[1]))
            BY <2>1, MailboxIs DEF RenderMailboxHeader
        <2> QED  BY <2>2, FieldsIfAny
    <1>3. IsFields(to) /\ IsFields(cc) /\ IsFields(bcc) /\ IsFields(reply)
        <2>1. /\ IsSeq(m.to) /\ \A i \in DOMAIN m.to : IsAddressee(m.to[i])
              /\ IsSeq(m.cc) /\ \A i \in DOMAIN m.cc : IsAddressee(m.cc[i])
              /\ IsSeq(m.bcc) /\ \A i \in DOMAIN m.bcc : IsAddressee(m.bcc[i])
              /\ IsSeq(m.replyTo) /\ \A i \in DOMAIN m.replyTo : IsAddressee(m.replyTo[i])
            BY DEF IsWritten, IsList
        <2>2. /\ IsValue(RenderAddressListHeader(m.to)) /\ IsValue(RenderAddressListHeader(m.cc))
              /\ IsValue(RenderAddressListHeader(m.bcc)) /\ IsValue(RenderAddressListHeader(m.replyTo))
            BY <2>1, ListIs
        <2> QED  BY <2>2, FieldsIfAny, FieldsNone
    <1>4. IsFields(subject)
        <2>1. m.subject # <<>> => IsSeq(m.subject[1])
            BY DEF IsWritten, IsOption
        <2>2. m.subject # <<>> => IsValue(EncodeUnstructured(m.subject[1]))
            BY <2>1, UnstructuredIs
        <2> QED  BY <2>2, FieldsIfAny
    <1> HIDE DEF from, sender, to, cc, bcc, reply, subject
    <1>5. IsFields(from \o sender)
        BY <1>2, FieldsConcat
    <1>6. IsFields((from \o sender) \o to)
        BY <1>3, <1>5, FieldsConcat
    <1>7. IsFields(((from \o sender) \o to) \o cc)
        BY <1>3, <1>6, FieldsConcat
    <1>8. IsFields((((from \o sender) \o to) \o cc) \o bcc)
        BY <1>3, <1>7, FieldsConcat
    <1>9. IsFields(((((from \o sender) \o to) \o cc) \o bcc) \o reply)
        BY <1>3, <1>8, FieldsConcat
    <1>10. IsFields((((((from \o sender) \o to) \o cc) \o bcc) \o reply) \o subject)
        BY <1>4, <1>9, FieldsConcat
    <1> QED  BY <1>1, <1>10

(* The date and the message id are fields with values. *)
LEMMA DateFieldsAre == \A m : IsFields(DateFields(m))
    <1> TAKE m
    <1> DEFINE date == IfAny(m.date, <<Field("Date", Token("date", FormatDate(m.date[1])))>>)
               id == IfAny(m.messageId, <<Field("Message-ID", Token("msg-id", m.messageId[1]))>>)
    <1>1. IsFields(date) /\ IsFields(id)
        BY TokenIs, FieldsIfAny
    <1>2. DateFields(m) = date \o id
        BY DEF DateFields
    <1> HIDE DEF date, id
    <1> QED  BY <1>1, <1>2, FieldsConcat

(* So are the custom headers, left out, encoded or as they are. *)
LEMMA CustomFieldsAre ==
    ASSUME NEW m, IsWritten(m), NEW mime
    PROVE  IsFields(CustomFields(m, mime))
    <1> DEFINE headers == m.headers
               left(header) == IF mime /\ header.name \in MimeHeaderNames THEN <<>>
                               ELSE <<Field(header.name, HeaderValue(header))>>
               lists == [i \in DOMAIN headers |-> left(headers[i])]
               flat == FlattenSeq(lists)
    <1>1. IsSeq(headers) /\ \A i \in DOMAIN headers : IsValue(headers[i].value)
        BY DEF IsWritten, IsList
    <1>2. CustomFields(m, mime) = flat
        BY DEF CustomFields
    <1> HIDE DEF headers
    <1>3. Len(headers) \in Nat /\ DOMAIN headers = 1..Len(headers)
        BY <1>1, SeqFacts
    <1>4. \A i \in 1..Len(headers) : IsFields(left(headers[i]))
        BY <1>1, <1>3, CustomIs, FieldsOne, FieldsNone
    <1> HIDE DEF left
    <1>5. lists = [i \in 1..Len(headers) |-> lists[i]] /\ \A i \in 1..Len(headers) : IsFields(lists[i])
        BY <1>3, <1>4
    <1> HIDE DEF lists
    <1>6. IsSeq(lists) /\ DOMAIN lists = 1..Len(headers)
        BY <1>3, <1>5, MakeSeq
    <1>7. AllSeqs(lists) /\ \A i \in DOMAIN lists : \A j \in DOMAIN lists[i] : IsValue(lists[i][j].value)
        BY <1>5, <1>6 DEF AllSeqs, IsFields
    <1>8. IsSeq(flat) /\ \A k \in DOMAIN flat : \E i \in DOMAIN lists : \E j \in DOMAIN lists[i] : flat[k] = lists[i][j]
        BY <1>7, FlattenedFrom
    <1> HIDE DEF flat
    <1> QED  BY <1>2, <1>7, <1>8 DEF IsFields

(* So are the MIME headers. *)
LEMMA MimeFieldsAre == \A payload : IsFields(MimeFields(payload))
    <1> TAKE payload
    <1> DEFINE given(kind) == SelectSeq(payload.headers, LAMBDA h : h[1] = kind)
               field(kind) == IfAny(given(kind), <<Field(MimeFieldName[kind], HeaderText(kind, given(kind)[1][2]))>>)
               version == <<Field("MIME-Version", Token("version", "1.0"))>>
               type == field("type")
               encoding == field("encoding")
               disposition == field("disposition")
    <1>1. MimeFields(payload) = IF ~payload.mime THEN <<>> ELSE version \o type \o encoding \o disposition
        BY DEF MimeFields
    <1> HIDE DEF given
    <1>2. IsFields(version) /\ IsFields(type) /\ IsFields(encoding) /\ IsFields(disposition)
        BY TokenIs, HeaderTextIs, FieldsOne, FieldsIfAny
    <1> HIDE DEF version, type, encoding, disposition
    <1>3. IsFields(version \o type)
        BY <1>2, FieldsConcat
    <1>4. IsFields((version \o type) \o encoding)
        BY <1>2, <1>3, FieldsConcat
    <1>5. IsFields(((version \o type) \o encoding) \o disposition)
        BY <1>2, <1>4, FieldsConcat
    <1> QED  BY <1>1, <1>5, FieldsNone

(* Steps of a rendering that write lines that fit. *)
IsSteps(steps) == IsSeq(steps) /\ \A i \in DOMAIN steps : LinesFit(steps[i].lines)

(* Steps of the renderer one after the other are steps. *)
LEMMA StepsConcat ==
    ASSUME NEW s, NEW t, IsSteps(s), IsSteps(t)
    PROVE  IsSteps(s \o t)
    <1> DEFINE all == s \o t
    <1>1. IsSeq(all) /\ \A k \in DOMAIN all : (\E i \in DOMAIN s : all[k] = s[i]) \/ \E i \in DOMAIN t : all[k] = t[i]
        BY Concat, ConcatFrom DEF IsSteps
    <1> HIDE DEF all
    <1>2. IsSteps(all)
        BY <1>1 DEF IsSteps
    <1> QED  BY <1>2 DEF all

(* A check writes no lines. *)
LEMMA StepWritesNothing == \A error : IsSteps(<<[error |-> error, lines |-> <<>>]>>)
    <1> TAKE error
    <1> DEFINE step == [error |-> error, lines |-> <<>>]
               one == <<step>>
    <1>1. IsSeq(<<>>) /\ DOMAIN <<>> = {}
        BY EmptyIsSeq
    <1>2. LinesFit(<<>>)
        BY <1>1, LinesAre
    <1>3. step.lines = <<>>
        OBVIOUS
    <1> HIDE DEF step
    <1>4. IsSeq(one) /\ DOMAIN one = 1..1 /\ one[1] = step
        BY OneIsSeq
    <1> HIDE DEF one
    <1>5. IsSteps(one)
        BY <1>2, <1>3, <1>4 DEF IsSteps
    <1> QED  BY <1>5 DEF one, step

(* Fields pushed at any soft target write lines that fit. *)
LEMMA StepsPushed ==
    ASSUME NEW fields, IsFields(fields), NEW soft \in Nat
    PROVE  IsSteps(Pushed(fields, soft))
    <1> DEFINE steps == Pushed(fields, soft)
    <1>1. Len(fields) \in Nat /\ DOMAIN fields = 1..Len(fields)
        BY SeqFacts DEF IsFields
    <1>2. \A i \in 1..Len(fields) : LinesFit(PushHeaderLine(fields[i].name, fields[i].value, soft).lines)
        BY <1>1, PushedLinesFit DEF IsFields
    <1>3. /\ steps = [i \in 1..Len(fields) |-> steps[i]]
          /\ \A i \in 1..Len(fields) : steps[i] = PushHeaderLine(fields[i].name, fields[i].value, soft)
        BY <1>1 DEF Pushed
    <1> HIDE DEF steps
    <1>4. IsSeq(steps) /\ DOMAIN steps = 1..Len(fields)
        BY <1>1, <1>3, MakeSeq
    <1>5. IsSteps(steps)
        BY <1>2, <1>3, <1>4 DEF IsSteps
    <1> QED  BY <1>5 DEF steps

(* The lines of steps that write lines that fit, fit. *)
LEMMA StepsTogether ==
    ASSUME NEW steps, IsSteps(steps)
    PROVE  LinesFit(FlattenSeq([i \in DOMAIN steps |-> steps[i].lines]))
    <1> DEFINE lists == [i \in DOMAIN steps |-> steps[i].lines]
               flat == FlattenSeq(lists)
    <1>1. Len(steps) \in Nat /\ DOMAIN steps = 1..Len(steps) /\ \A i \in 1..Len(steps) : LinesFit(steps[i].lines)
        BY SeqFacts DEF IsSteps
    <1>2. lists = [i \in 1..Len(steps) |-> lists[i]] /\ \A i \in 1..Len(steps) : LinesFit(lists[i])
        BY <1>1
    <1> HIDE DEF lists
    <1>3. IsSeq(lists) /\ DOMAIN lists = 1..Len(steps)
        BY <1>1, <1>2, MakeSeq
    <1>4. \A i \in DOMAIN lists : IsSeq(lists[i]) /\ \A j \in DOMAIN lists[i] : IsValue(lists[i][j].value) /\ LineFits(lists[i][j])
        BY <1>2, <1>3, LinesAre
    <1>5. AllSeqs(lists)
        BY <1>3, <1>4 DEF AllSeqs
    <1>6. IsSeq(flat) /\ \A k \in DOMAIN flat : \E i \in DOMAIN lists : \E j \in DOMAIN lists[i] : flat[k] = lists[i][j]
        BY <1>5, FlattenedFrom
    <1> HIDE DEF flat
    <1>7. LinesFit(flat)
        BY <1>4, <1>6, LinesAre
    <1> QED  BY <1>7 DEF flat, lists

(* Whatever is rendered, no line of its header is over the hard limit, but *)
(* for a name that leaves no room for its empty value.                     *)
THEOREM RenderedLinesFit ==
    ASSUME NEW m, IsWritten(m), NEW o, o.soft \in Nat
    PROVE  LinesFit(RenderRfc822(m, o).lines)
    <1> DEFINE payload == RenderPayload(m.body, m.attachments, o.soft)
               step(error) == <<[error |-> error, lines |-> <<>>]>>
               valid == step(ValidateBasic(m))
               typed == Pushed(TypedFields(m, o), o.soft)
               format == step(IF m.date # <<>> /\ FormatDate(m.date[1]) = "none" THEN "DateFormat" ELSE "none")
               dates == Pushed(DateFields(m), o.soft)
               body == step(payload.error)
               custom == Pushed(CustomFields(m, payload.mime) \o MimeFields(payload), o.soft)
               all == valid \o typed \o format \o dates \o body \o custom
               lines == FlattenSeq([i \in DOMAIN all |-> all[i].lines])
    <1>1. RenderRfc822(m, o) = IF FirstError(all) # <<>> THEN Refused(FirstError(all)[1].error)
                               ELSE [error |-> "none", lines |-> lines, body |-> payload.body]
        BY DEF RenderRfc822
    <1>2. IsSteps(valid) /\ IsSteps(format) /\ IsSteps(body)
        BY StepWritesNothing
    <1>3. IsSteps(typed) /\ IsSteps(dates)
        BY TypedFieldsAre, DateFieldsAre, StepsPushed
    <1>4. IsSteps(custom)
        <2>1. IsFields(CustomFields(m, payload.mime)) /\ IsFields(MimeFields(payload))
            BY CustomFieldsAre, MimeFieldsAre
        <2> QED  BY <2>1, FieldsConcat, StepsPushed
    <1> HIDE DEF payload, valid, typed, format, dates, body, custom
    <1>5. IsSteps(valid \o typed)
        BY <1>2, <1>3, StepsConcat
    <1>6. IsSteps((valid \o typed) \o format)
        BY <1>2, <1>5, StepsConcat
    <1>7. IsSteps(((valid \o typed) \o format) \o dates)
        BY <1>3, <1>6, StepsConcat
    <1>8. IsSteps((((valid \o typed) \o format) \o dates) \o body)
        BY <1>2, <1>7, StepsConcat
    <1>9. IsSteps(((((valid \o typed) \o format) \o dates) \o body) \o custom)
        BY <1>4, <1>8, StepsConcat
    <1>10. IsSteps(all)
        BY <1>9
    <1> HIDE DEF all
    <1>11. LinesFit(lines)
        BY <1>10, StepsTogether
    <1> HIDE DEF lines
    <1>12. LinesFit(<<>>)
        <2>1. IsSeq(<<>>) /\ DOMAIN <<>> = {}
            BY EmptyIsSeq
        <2> QED  BY <2>1, LinesAre
    <1>13. RenderRfc822(m, o).lines = lines \/ RenderRfc822(m, o).lines = <<>>
        <2>1. CASE FirstError(all) # <<>>
            <3>1. RenderRfc822(m, o) = Refused(FirstError(all)[1].error)
                BY <1>1, <2>1
            <3> QED  BY <3>1 DEF Refused
        <2>2. CASE FirstError(all) = <<>>
            <3>1. RenderRfc822(m, o) = [error |-> "none", lines |-> lines, body |-> payload.body]
                BY <1>1, <2>2
            <3> QED  BY <3>1
        <2> QED  BY <2>1, <2>2
    <1> QED  BY <1>11, <1>12, <1>13

-------------------------------------------------------------------------------
(* Reading: the readers, step by step. *)
(* The recursive functions of the readers: they exist, and go step by step. *)
HeaderLinesRead(f, lines, n) ==
    f = [i \in 0..n |-> IF i = 0 THEN [ok |-> TRUE, fields |-> <<>>] ELSE ParseHeaderLine(f[i - 1], lines[i])]

(* The reader of header lines has a state for every number of lines ... *)
LEMMA HeaderLinesReadExists ==
    ASSUME NEW lines, NEW n \in Nat
    PROVE  \E f : HeaderLinesRead(f, lines, n)
    <1> DEFINE S == {m \in Nat : \E f : HeaderLinesRead(f, lines, m)}
    <1>1. 0 \in S
        <2> DEFINE f == [i \in 0..0 |-> [ok |-> TRUE, fields |-> <<>>]]
        <2>1. \A i \in 0..0 : f[i] = IF i = 0 THEN [ok |-> TRUE, fields |-> <<>>] ELSE ParseHeaderLine(f[i - 1], lines[i])
            OBVIOUS
        <2>2. f = [i \in 0..0 |-> f[i]]
            OBVIOUS
        <2> HIDE DEF f
        <2>3. HeaderLinesRead(f, lines, 0)
            BY <2>1, <2>2, Zenon DEF HeaderLinesRead
        <2> QED  BY <2>3
    <1>2. \A m \in Nat : m \in S => m + 1 \in S
        <2> TAKE m \in Nat
        <2> HAVE m \in S
        <2>1. PICK f : HeaderLinesRead(f, lines, m)
            OBVIOUS
        <2> DEFINE g == [i \in 0..(m + 1) |-> IF i = 0 THEN [ok |-> TRUE, fields |-> <<>>] ELSE ParseHeaderLine(f[i - 1], lines[i])]
        <2>2. \A i \in 0..m : g[i] = f[i]
            <3> TAKE i \in 0..m
            <3>1. f[i] = IF i = 0 THEN [ok |-> TRUE, fields |-> <<>>] ELSE ParseHeaderLine(f[i - 1], lines[i])
                BY <2>1 DEF HeaderLinesRead
            <3>2. i \in 0..(m + 1)
                OBVIOUS
            <3> QED  BY <3>1, <3>2
        <2>3. \A i \in 0..(m + 1) : g[i] = IF i = 0 THEN [ok |-> TRUE, fields |-> <<>>] ELSE ParseHeaderLine(g[i - 1], lines[i])
            <3> TAKE i \in 0..(m + 1)
            <3>1. i # 0 => i - 1 \in 0..m
                OBVIOUS
            <3>2. i # 0 => g[i - 1] = f[i - 1]
                BY <2>2, <3>1
            <3>3. g[i] = IF i = 0 THEN [ok |-> TRUE, fields |-> <<>>] ELSE ParseHeaderLine(f[i - 1], lines[i])
                OBVIOUS
            <3> HIDE DEF g
            <3> QED  BY <3>2, <3>3
        <2>4. g = [i \in 0..(m + 1) |-> g[i]]
            OBVIOUS
        <2> HIDE DEF g
        <2>5. HeaderLinesRead(g, lines, m + 1)
            BY <2>3, <2>4, Zenon DEF HeaderLinesRead
        <2> QED  BY <2>5
    <1> HIDE DEF S
    <1>3. n \in S
        BY <1>1, <1>2, SetInduction
    <1> QED  BY <1>3 DEF S

(* ... and goes from line to line. *)
LEMMA HeaderLinesReadSteps ==
    ASSUME NEW lines, Len(lines) \in Nat
    PROVE  \E f : /\ f[0] = [ok |-> TRUE, fields |-> <<>>]
                  /\ \A i \in 1..Len(lines) : f[i] = ParseHeaderLine(f[i - 1], lines[i])
                  /\ ParseHeaderLines(lines) = f[Len(lines)]
    <1> DEFINE n == Len(lines)
               f == CHOOSE g : HeaderLinesRead(g, lines, n)
    <1>1. ParseHeaderLines(lines) = f[n]
        BY DEF ParseHeaderLines, HeaderLinesRead
    <1> HIDE DEF n
    <1>2. n \in Nat
        BY DEF n
    <1>3. HeaderLinesRead(f, lines, n)
        BY <1>2, HeaderLinesReadExists
    <1> HIDE DEF f
    <1>4. f[0] = [ok |-> TRUE, fields |-> <<>>] /\ \A i \in 1..n : f[i] = ParseHeaderLine(f[i - 1], lines[i])
        <2>1. 0 \in 0..n /\ \A i \in 1..n : i \in 0..n /\ i # 0
            BY <1>2
        <2> QED  BY <1>3, <2>1 DEF HeaderLinesRead
    <1> QED  BY <1>1, <1>4 DEF n

FieldsRead(f, start, fields, n) ==
    f = [i \in 0..n |-> IF i = 0 THEN start ELSE ParseField(f[i - 1], fields[i].name, fields[i].value)]

(* The reader of fields has a state for every number of fields ... *)
LEMMA FieldsReadExists ==
    ASSUME NEW start, NEW fields, NEW n \in Nat
    PROVE  \E f : FieldsRead(f, start, fields, n)
    <1> DEFINE S == {m \in Nat : \E f : FieldsRead(f, start, fields, m)}
    <1>1. 0 \in S
        <2> DEFINE f == [i \in 0..0 |-> start]
        <2>1. \A i \in 0..0 : f[i] = IF i = 0 THEN start ELSE ParseField(f[i - 1], fields[i].name, fields[i].value)
            OBVIOUS
        <2>2. f = [i \in 0..0 |-> f[i]]
            OBVIOUS
        <2> HIDE DEF f
        <2>3. FieldsRead(f, start, fields, 0)
            BY <2>1, <2>2, Zenon DEF FieldsRead
        <2> QED  BY <2>3
    <1>2. \A m \in Nat : m \in S => m + 1 \in S
        <2> TAKE m \in Nat
        <2> HAVE m \in S
        <2>1. PICK f : FieldsRead(f, start, fields, m)
            OBVIOUS
        <2> DEFINE g == [i \in 0..(m + 1) |-> IF i = 0 THEN start ELSE ParseField(f[i - 1], fields[i].name, fields[i].value)]
        <2>2. \A i \in 0..m : g[i] = f[i]
            <3> TAKE i \in 0..m
            <3>1. f[i] = IF i = 0 THEN start ELSE ParseField(f[i - 1], fields[i].name, fields[i].value)
                BY <2>1 DEF FieldsRead
            <3>2. i \in 0..(m + 1)
                OBVIOUS
            <3> QED  BY <3>1, <3>2
        <2>3. \A i \in 0..(m + 1) : g[i] = IF i = 0 THEN start ELSE ParseField(g[i - 1], fields[i].name, fields[i].value)
            <3> TAKE i \in 0..(m + 1)
            <3>1. i # 0 => i - 1 \in 0..m
                OBVIOUS
            <3>2. i # 0 => g[i - 1] = f[i - 1]
                BY <2>2, <3>1
            <3>3. g[i] = IF i = 0 THEN start ELSE ParseField(f[i - 1], fields[i].name, fields[i].value)
                OBVIOUS
            <3> HIDE DEF g
            <3> QED  BY <3>2, <3>3
        <2>4. g = [i \in 0..(m + 1) |-> g[i]]
            OBVIOUS
        <2> HIDE DEF g
        <2>5. FieldsRead(g, start, fields, m + 1)
            BY <2>3, <2>4, Zenon DEF FieldsRead
        <2> QED  BY <2>5
    <1> HIDE DEF S
    <1>3. n \in S
        BY <1>1, <1>2, SetInduction
    <1> QED  BY <1>3 DEF S

(* ... and goes from field to field. *)
LEMMA FieldsReadSteps ==
    ASSUME NEW start, NEW fields, Len(fields) \in Nat
    PROVE  \E f : /\ f[0] = start
                  /\ \A i \in 1..Len(fields) : f[i] = ParseField(f[i - 1], fields[i].name, fields[i].value)
                  /\ ParseFields(start, fields) = f[Len(fields)]
    <1> DEFINE n == Len(fields)
               f == CHOOSE g : FieldsRead(g, start, fields, n)
    <1>1. ParseFields(start, fields) = f[n]
        BY DEF ParseFields, FieldsRead
    <1> HIDE DEF n
    <1>2. n \in Nat
        BY DEF n
    <1>3. FieldsRead(f, start, fields, n)
        BY <1>2, FieldsReadExists
    <1> HIDE DEF f
    <1>4. f[0] = start /\ \A i \in 1..n : f[i] = ParseField(f[i - 1], fields[i].name, fields[i].value)
        <2>1. 0 \in 0..n /\ \A i \in 1..n : i \in 0..n /\ i # 0
            BY <1>2
        <2> QED  BY <1>3, <2>1 DEF FieldsRead
    <1> QED  BY <1>1, <1>4 DEF n

WordsDecoded(f, value, n) ==
    f = [i \in 0..n |-> IF i = 0 THEN [out |-> <<>>, plain |-> <<>>, afterWord |-> FALSE, read |-> <<>>] ELSE DecodePiece(f[i - 1], value[i])]

(* The decoder of words has a state for every number of pieces ... *)
LEMMA WordsDecodedExists ==
    ASSUME NEW value, NEW n \in Nat
    PROVE  \E f : WordsDecoded(f, value, n)
    <1> DEFINE S == {m \in Nat : \E f : WordsDecoded(f, value, m)}
    <1>1. 0 \in S
        <2> DEFINE f == [i \in 0..0 |-> [out |-> <<>>, plain |-> <<>>, afterWord |-> FALSE, read |-> <<>>]]
        <2>1. \A i \in 0..0 : f[i] = IF i = 0 THEN [out |-> <<>>, plain |-> <<>>, afterWord |-> FALSE, read |-> <<>>] ELSE DecodePiece(f[i - 1], value[i])
            OBVIOUS
        <2>2. f = [i \in 0..0 |-> f[i]]
            OBVIOUS
        <2> HIDE DEF f
        <2>3. WordsDecoded(f, value, 0)
            BY <2>1, <2>2, Zenon DEF WordsDecoded
        <2> QED  BY <2>3
    <1>2. \A m \in Nat : m \in S => m + 1 \in S
        <2> TAKE m \in Nat
        <2> HAVE m \in S
        <2>1. PICK f : WordsDecoded(f, value, m)
            OBVIOUS
        <2> DEFINE g == [i \in 0..(m + 1) |-> IF i = 0 THEN [out |-> <<>>, plain |-> <<>>, afterWord |-> FALSE, read |-> <<>>] ELSE DecodePiece(f[i - 1], value[i])]
        <2>2. \A i \in 0..m : g[i] = f[i]
            <3> TAKE i \in 0..m
            <3>1. f[i] = IF i = 0 THEN [out |-> <<>>, plain |-> <<>>, afterWord |-> FALSE, read |-> <<>>] ELSE DecodePiece(f[i - 1], value[i])
                BY <2>1 DEF WordsDecoded
            <3>2. i \in 0..(m + 1)
                OBVIOUS
            <3> QED  BY <3>1, <3>2
        <2>3. \A i \in 0..(m + 1) : g[i] = IF i = 0 THEN [out |-> <<>>, plain |-> <<>>, afterWord |-> FALSE, read |-> <<>>] ELSE DecodePiece(g[i - 1], value[i])
            <3> TAKE i \in 0..(m + 1)
            <3>1. i # 0 => i - 1 \in 0..m
                OBVIOUS
            <3>2. i # 0 => g[i - 1] = f[i - 1]
                BY <2>2, <3>1
            <3>3. g[i] = IF i = 0 THEN [out |-> <<>>, plain |-> <<>>, afterWord |-> FALSE, read |-> <<>>] ELSE DecodePiece(f[i - 1], value[i])
                OBVIOUS
            <3> HIDE DEF g
            <3> QED  BY <3>2, <3>3
        <2>4. g = [i \in 0..(m + 1) |-> g[i]]
            OBVIOUS
        <2> HIDE DEF g
        <2>5. WordsDecoded(g, value, m + 1)
            BY <2>3, <2>4, Zenon DEF WordsDecoded
        <2> QED  BY <2>5
    <1> HIDE DEF S
    <1>3. n \in S
        BY <1>1, <1>2, SetInduction
    <1> QED  BY <1>3 DEF S

(* ... and goes from piece to piece. *)
LEMMA WordsDecodedSteps ==
    ASSUME NEW value, Len(value) \in Nat
    PROVE  \E f : /\ f[0] = [out |-> <<>>, plain |-> <<>>, afterWord |-> FALSE, read |-> <<>>]
                  /\ \A i \in 1..Len(value) : f[i] = DecodePiece(f[i - 1], value[i])
                  /\ DecodeWords(value) = f[Len(value)].out \o f[Len(value)].plain
    <1> DEFINE n == Len(value)
               f == CHOOSE g : WordsDecoded(g, value, n)
    <1>1. DecodeWords(value) = f[n].out \o f[n].plain
        BY DEF DecodeWords, WordsDecoded
    <1> HIDE DEF n
    <1>2. n \in Nat
        BY DEF n
    <1>3. WordsDecoded(f, value, n)
        BY <1>2, WordsDecodedExists
    <1> HIDE DEF f
    <1>4. f[0] = [out |-> <<>>, plain |-> <<>>, afterWord |-> FALSE, read |-> <<>>] /\ \A i \in 1..n : f[i] = DecodePiece(f[i - 1], value[i])
        <2>1. 0 \in 0..n /\ \A i \in 1..n : i \in 0..n /\ i # 0
            BY <1>2
        <2> QED  BY <1>3, <2>1 DEF WordsDecoded
    <1> QED  BY <1>1, <1>4 DEF n

WordsEscaped(f, value, n) ==
    f = [i \in 0..n |-> IF i = 0 THEN [quoted |-> FALSE, pair |-> FALSE, out |-> <<>>] ELSE EscapePiece(f[i - 1], value[i])]

(* The escaper of quoted words has a state for every number of pieces ... *)
LEMMA WordsEscapedExists ==
    ASSUME NEW value, NEW n \in Nat
    PROVE  \E f : WordsEscaped(f, value, n)
    <1> DEFINE S == {m \in Nat : \E f : WordsEscaped(f, value, m)}
    <1>1. 0 \in S
        <2> DEFINE f == [i \in 0..0 |-> [quoted |-> FALSE, pair |-> FALSE, out |-> <<>>]]
        <2>1. \A i \in 0..0 : f[i] = IF i = 0 THEN [quoted |-> FALSE, pair |-> FALSE, out |-> <<>>] ELSE EscapePiece(f[i - 1], value[i])
            OBVIOUS
        <2>2. f = [i \in 0..0 |-> f[i]]
            OBVIOUS
        <2> HIDE DEF f
        <2>3. WordsEscaped(f, value, 0)
            BY <2>1, <2>2, Zenon DEF WordsEscaped
        <2> QED  BY <2>3
    <1>2. \A m \in Nat : m \in S => m + 1 \in S
        <2> TAKE m \in Nat
        <2> HAVE m \in S
        <2>1. PICK f : WordsEscaped(f, value, m)
            OBVIOUS
        <2> DEFINE g == [i \in 0..(m + 1) |-> IF i = 0 THEN [quoted |-> FALSE, pair |-> FALSE, out |-> <<>>] ELSE EscapePiece(f[i - 1], value[i])]
        <2>2. \A i \in 0..m : g[i] = f[i]
            <3> TAKE i \in 0..m
            <3>1. f[i] = IF i = 0 THEN [quoted |-> FALSE, pair |-> FALSE, out |-> <<>>] ELSE EscapePiece(f[i - 1], value[i])
                BY <2>1 DEF WordsEscaped
            <3>2. i \in 0..(m + 1)
                OBVIOUS
            <3> QED  BY <3>1, <3>2
        <2>3. \A i \in 0..(m + 1) : g[i] = IF i = 0 THEN [quoted |-> FALSE, pair |-> FALSE, out |-> <<>>] ELSE EscapePiece(g[i - 1], value[i])
            <3> TAKE i \in 0..(m + 1)
            <3>1. i # 0 => i - 1 \in 0..m
                OBVIOUS
            <3>2. i # 0 => g[i - 1] = f[i - 1]
                BY <2>2, <3>1
            <3>3. g[i] = IF i = 0 THEN [quoted |-> FALSE, pair |-> FALSE, out |-> <<>>] ELSE EscapePiece(f[i - 1], value[i])
                OBVIOUS
            <3> HIDE DEF g
            <3> QED  BY <3>2, <3>3
        <2>4. g = [i \in 0..(m + 1) |-> g[i]]
            OBVIOUS
        <2> HIDE DEF g
        <2>5. WordsEscaped(g, value, m + 1)
            BY <2>3, <2>4, Zenon DEF WordsEscaped
        <2> QED  BY <2>5
    <1> HIDE DEF S
    <1>3. n \in S
        BY <1>1, <1>2, SetInduction
    <1> QED  BY <1>3 DEF S

(* ... and goes from piece to piece. *)
LEMMA WordsEscapedSteps ==
    ASSUME NEW value, Len(value) \in Nat
    PROVE  \E f : /\ f[0] = [quoted |-> FALSE, pair |-> FALSE, out |-> <<>>]
                  /\ \A i \in 1..Len(value) : f[i] = EscapePiece(f[i - 1], value[i])
                  /\ EscapeQuotedWords(value) = f[Len(value)].out
    <1> DEFINE n == Len(value)
               f == CHOOSE g : WordsEscaped(g, value, n)
    <1>1. EscapeQuotedWords(value) = f[n].out
        BY DEF EscapeQuotedWords, WordsEscaped
    <1> HIDE DEF n
    <1>2. n \in Nat
        BY DEF n
    <1>3. WordsEscaped(f, value, n)
        BY <1>2, WordsEscapedExists
    <1> HIDE DEF f
    <1>4. f[0] = [quoted |-> FALSE, pair |-> FALSE, out |-> <<>>] /\ \A i \in 1..n : f[i] = EscapePiece(f[i - 1], value[i])
        <2>1. 0 \in 0..n /\ \A i \in 1..n : i \in 0..n /\ i # 0
            BY <1>2
        <2> QED  BY <1>3, <2>1 DEF WordsEscaped
    <1> QED  BY <1>1, <1>4 DEF n

-------------------------------------------------------------------------------
(* Reading: what the readers return is made of values and texts again. *)

(* A value without its outer blanks is a value. *)
LEMMA TrimmedIs ==
    ASSUME NEW value, IsValue(value)
    PROVE  IsValue(TrimStart(value)) /\ IsValue(TrimBlanks(value))
    <1> DEFINE ink == {i \in DOMAIN value : ~IsBlank(value[i])}
    <1>1. IsSeq(value) /\ Len(value) \in Nat /\ DOMAIN value = 1..Len(value)
        BY ValueIs, SeqFacts
    <1>2. /\ TrimStart(value) = IF ink = {} THEN <<>> ELSE SubSeq(value, Min(ink), Len(value))
          /\ TrimBlanks(value) = IF ink = {} THEN <<>> ELSE SubSeq(value, Min(ink), Max(ink))
        BY DEF TrimStart, TrimBlanks
    <1>3. ink \subseteq 1..Len(value) /\ ink \subseteq 0..Len(value) /\ ink \subseteq Nat
        BY <1>1
    <1> HIDE DEF ink
    <1>4. CASE ink = {}
        BY <1>2, <1>4, EmptyLength
    <1>5. CASE ink # {}
        <2> DEFINE first == Min(ink)
                   last == Max(ink)
        <2>1. first \in ink /\ last \in ink
            BY <1>1, <1>3, <1>5, Least, Greatest
        <2>2. TrimStart(value) = SubSeq(value, first, Len(value)) /\ TrimBlanks(value) = SubSeq(value, first, last)
            BY <1>2, <1>5
        <2> HIDE DEF first, last
        <2>3. first \in Nat /\ last \in Nat /\ 1 <= first /\ last <= Len(value) /\ Len(value) <= Len(value)
            BY <1>1, <1>3, <2>1
        <2>4. IsValue(SubSeq(value, first, Len(value))) /\ IsValue(SubSeq(value, first, last))
            BY <1>1, <2>3, PartOfValue
        <2> QED  BY <2>2, <2>4
    <1> QED  BY <1>4, <1>5

IsWireField(field) == field = [name |-> field.name, value |-> field.value] /\ IsValue(field.value)
AreRead(fields) == IsSeq(fields) /\ \A i \in DOMAIN fields : IsWireField(fields[i])
IsReader(s) == s = [ok |-> s.ok, fields |-> s.fields] /\ AreRead(s.fields)

(* A line starts a field or continues the last one; the fields keep values. *)
LEMMA LineRead ==
    ASSUME NEW s, IsReader(s), NEW line, IsValue(line.value)
    PROVE  IsReader(ParseHeaderLine(s, line))
    <1> DEFINE fields == s.fields
               n == Len(fields)
               longer == [fields EXCEPT ![n].value = @ \o line.value]
               field == [name |-> line.name, value |-> TrimStart(line.value)]
               more == Append(fields, field)
    <1>1. s = [ok |-> s.ok, fields |-> fields] /\ AreRead(fields) /\ n \in Nat /\ DOMAIN fields = 1..n
        BY SeqFacts DEF IsReader, AreRead
    <1>2. \/ ParseHeaderLine(s, line) = s
          \/ fields # <<>> /\ ParseHeaderLine(s, line) = [s EXCEPT !.fields[n].value = @ \o line.value]
          \/ ParseHeaderLine(s, line) = [s EXCEPT !.fields = more]
          \/ ParseHeaderLine(s, line) = [s EXCEPT !.ok = FALSE]
        <2> DEFINE skipped == ~s.ok \/ (line.name = "" /\ line.value = <<>>)
                   folded == s.ok /\ line.value # <<>> /\ line.name = "" /\ ~Raw(line.value, NonAscii \cup {"ctl"}) /\ s.fields # <<>>
                   begun == s.ok /\ line.name \in DOMAIN NameLength /\ ~Raw(line.value, NonAscii \cup {"ctl"})
                   joined == [s EXCEPT !.fields[n].value = @ \o line.value]
                   added == [s EXCEPT !.fields = more]
                   failed == [s EXCEPT !.ok = FALSE]
        <2>1. ParseHeaderLine(s, line) = CASE skipped -> s [] folded -> joined [] begun -> added [] OTHER -> failed
            BY DEF ParseHeaderLine
        <2>2. folded => fields # <<>>
            OBVIOUS
        <2> HIDE DEF skipped, folded, begun, joined, added, failed
        <2>3. \/ ParseHeaderLine(s, line) = s
              \/ folded /\ ParseHeaderLine(s, line) = joined
              \/ ParseHeaderLine(s, line) = added
              \/ ParseHeaderLine(s, line) = failed
            BY <2>1
        <2> QED  BY <2>2, <2>3 DEF joined, added, failed
    <1>3. [s EXCEPT !.fields[n].value = @ \o line.value] = [s EXCEPT !.fields = longer]
        OBVIOUS
    <1>4. IsReader(s) /\ IsReader([s EXCEPT !.ok = FALSE])
        <2> DEFINE no == FALSE
                   failed == [s EXCEPT !.ok = no]
                   ok == s.ok
        <2>4. s = [ok |-> ok, fields |-> fields]
            BY <1>1
        <2> HIDE DEF fields, ok, no
        <2>1. failed = [ok |-> no, fields |-> fields]
            BY <2>4
        <2> HIDE DEF failed
        <2>2. failed.ok = no /\ failed.fields = fields
            BY <2>1
        <2>3. IsReader(failed)
            BY <1>1, <2>1, <2>2 DEF IsReader
        <2> QED  BY <2>3 DEF failed, no
    <1>5. fields # <<>> => AreRead(longer)
        <2> SUFFICES ASSUME fields # <<>> PROVE AreRead(longer)
            OBVIOUS
        <2>1. n \in 1..n /\ \A i \in 1..n : IsWireField(fields[i])
            BY <1>1, EmptyIsSeq DEF AreRead
        <2> DEFINE last == fields[n]
                   text == line.value
                   all == last.value \o text
                   wider == [last EXCEPT !.value = all]
        <2>2. last = [name |-> last.name, value |-> last.value] /\ IsValue(all)
            BY <2>1, ValueConcat DEF IsWireField
        <2>3. longer = [fields EXCEPT ![n] = wider]
            OBVIOUS
        <2> HIDE DEF all, last
        <2>4. wider = [name |-> last.name, value |-> all]
            BY <2>2
        <2> HIDE DEF wider
        <2>5. IsWireField(wider)
            BY <2>2, <2>4 DEF IsWireField
        <2> HIDE DEF fields, n
        <2>6. longer = [i \in 1..n |-> longer[i]] /\ \A i \in 1..n : longer[i] = IF i = n THEN wider ELSE fields[i]
            BY <1>1, <2>3
        <2> HIDE DEF longer
        <2>7. IsSeq(longer) /\ DOMAIN longer = 1..n
            BY <1>1, <2>6, MakeSeq
        <2>8. \A i \in 1..n : IsWireField(longer[i])
            BY <2>1, <2>5, <2>6
        <2> QED  BY <2>7, <2>8 DEF AreRead
    <1>6. AreRead(more)
        <2>1. IsWireField(field)
            BY TrimmedIs DEF IsWireField
        <2> HIDE DEF field, fields
        <2>2. IsSeq(more) /\ \A k \in DOMAIN more : more[k] = field \/ \E i \in DOMAIN fields : more[k] = fields[i]
            BY <1>1, Appended, AppendedFrom DEF AreRead
        <2> HIDE DEF more
        <2> QED  BY <1>1, <2>1, <2>2 DEF AreRead
    <1> HIDE DEF longer, more
    <1>7. AreRead(longer) => IsReader([s EXCEPT !.fields = longer])
        BY <1>1 DEF IsReader
    <1>8. IsReader([s EXCEPT !.fields = more])
        BY <1>1, <1>6 DEF IsReader
    <1> QED  BY <1>2, <1>3, <1>4, <1>5, <1>7, <1>8

(* All fields that lines unfold to have values. *)
LEMMA HeaderLinesAre ==
    ASSUME NEW lines, IsLines(lines)
    PROVE  AreRead(ParseHeaderLines(lines).fields)
    <1> DEFINE n == Len(lines)
    <1>1. n \in Nat /\ DOMAIN lines = 1..n /\ \A i \in 1..n : IsValue(lines[i].value)
        BY SeqFacts DEF IsLines, IsList
    <1>2. PICK f : /\ f[0] = [ok |-> TRUE, fields |-> <<>>]
                   /\ \A i \in 1..n : f[i] = ParseHeaderLine(f[i - 1], lines[i])
                   /\ ParseHeaderLines(lines) = f[n]
        BY <1>1, HeaderLinesReadSteps
    <1> HIDE DEF n
    <1> DEFINE Good == {i \in 0..n : IsReader(f[i])}
    <1>3. 0 \in Good
        <2>1. IsSeq(<<>>) /\ DOMAIN <<>> = {}
            BY EmptyIsSeq
        <2> QED  BY <1>1, <1>2, <2>1 DEF IsReader, AreRead
    <1>4. \A i \in 1..n : i - 1 \in Good => i \in Good
        <2> TAKE i \in 1..n
        <2> HAVE i - 1 \in Good
        <2> DEFINE before == f[i - 1]
                   line == lines[i]
        <2>1. IsReader(before) /\ f[i] = ParseHeaderLine(before, line) /\ i \in 0..n /\ IsValue(line.value)
            BY <1>1, <1>2
        <2> HIDE DEF before, line
        <2>2. IsReader(ParseHeaderLine(before, line))
            BY <2>1, LineRead
        <2> QED  BY <2>1, <2>2
    <1> HIDE DEF Good
    <1>5. n \in Good
        <2>1. 0..n \subseteq Good
            BY <1>1, <1>3, <1>4, BoundedInduction
        <2> QED  BY <1>1, <2>1
    <1>6. IsReader(f[n])
        BY <1>5 DEF Good
    <1> QED  BY <1>2, <1>6 DEF IsReader

IsDecoder(s) ==
    /\ s = [out |-> s.out, plain |-> s.plain, afterWord |-> s.afterWord, read |-> s.read]
    /\ IsSeq(s.out) /\ IsSeq(s.plain) /\ IsSeq(s.read)

(* The decoder keeps sequences of pieces, whatever piece comes. *)
LEMMA PieceDecoded ==
    ASSUME NEW s, IsDecoder(s), NEW piece, IsWirePiece(piece)
    PROVE  IsDecoder(DecodePiece(s, piece))
    <1> DEFINE base == IF s.out = <<>> THEN s.read ELSE s.out
               joined == s.afterWord /\ s.plain # <<>> /\ Decodable(piece)
                         /\ \A i \in DOMAIN s.plain : IsBlank(s.plain[i])
               gap == IF joined THEN <<>> ELSE s.plain
               start == IF joined /\ s.out = <<>> THEN s.read \o s.plain ELSE base
               word == piece[2]
               letters == [i \in DOMAIN word |-> <<"char", <<word[i]>>>>]
               text == IF Decodable(piece) THEN letters ELSE <<piece>>
               out == start \o gap \o text
               read == s.read \o s.plain \o <<piece>>
               more == Append(s.plain, piece)
               after == [out |-> out, plain |-> <<>>, afterWord |-> Decodable(piece), read |-> read]
    <1>1. DecodePiece(s, piece) = IF ~IsWord(piece) THEN [s EXCEPT !.plain = more] ELSE after
        BY DEF DecodePiece
    <1>2. IsSeq(s.out) /\ IsSeq(s.plain) /\ IsSeq(s.read)
        BY DEF IsDecoder
    <1>3. IsSeq(more)
        BY <1>2, Appended
    <1>4. IsDecoder([s EXCEPT !.plain = more])
        <2> HIDE DEF more
        <2> QED  BY <1>3 DEF IsDecoder
    <1>5. IsSeq(start) /\ IsSeq(gap)
        BY <1>2, Concat, EmptyIsSeq
    <1>6. IsSeq(text)
        <2>1. Decodable(piece) => IsSeq(letters)
            <3> SUFFICES ASSUME Decodable(piece) PROVE IsSeq(letters)
                OBVIOUS
            <3>1. IsSeq(word)
                BY DEF Decodable, IsWirePiece, IsWord
            <3> HIDE DEF word
            <3>2. Len(word) \in Nat /\ letters = [i \in 1..Len(word) |-> letters[i]]
                BY <3>1, SeqFacts
            <3> HIDE DEF letters
            <3> QED  BY <3>2, MakeSeq
        <2> QED  BY <2>1, OneIsSeq
    <1>7. IsSeq(read)
        <2> DEFINE one == <<piece>>
        <2>1. IsSeq(one)
            BY OneIsSeq
        <2> HIDE DEF one
        <2>2. IsSeq((s.read \o s.plain) \o one)
            BY <1>2, <2>1, Concat
        <2> QED  BY <2>2 DEF one
    <1> HIDE DEF start, gap, text, read
    <1>8. IsSeq(out)
        BY <1>5, <1>6, Concat
    <1> HIDE DEF out
    <1>9. IsDecoder(after)
        BY <1>7, <1>8, EmptyIsSeq DEF IsDecoder
    <1> QED  BY <1>1, <1>4, <1>9

(* Decoded words are a text. *)
LEMMA DecodedIs ==
    ASSUME NEW value, IsValue(value)
    PROVE  IsSeq(DecodeWords(value)) /\ IsSeq(AsText(DecodeWords(value)))
    <1> DEFINE n == Len(value)
    <1>1. n \in Nat /\ DOMAIN value = 1..n /\ \A i \in 1..n : IsWirePiece(value[i])
        BY ValueIs, SeqFacts
    <1>2. PICK f : /\ f[0] = [out |-> <<>>, plain |-> <<>>, afterWord |-> FALSE, read |-> <<>>]
                   /\ \A i \in 1..n : f[i] = DecodePiece(f[i - 1], value[i])
                   /\ DecodeWords(value) = f[n].out \o f[n].plain
        BY <1>1, WordsDecodedSteps
    <1> HIDE DEF n
    <1> DEFINE Good == {i \in 0..n : IsDecoder(f[i])}
    <1>3. 0 \in Good
        <2>1. IsDecoder(f[0])
            BY <1>2, EmptyIsSeq DEF IsDecoder
        <2> QED  BY <1>1, <2>1
    <1>4. \A i \in 1..n : i - 1 \in Good => i \in Good
        <2> TAKE i \in 1..n
        <2> HAVE i - 1 \in Good
        <2> DEFINE before == f[i - 1]
                   piece == value[i]
        <2>1. IsDecoder(before) /\ f[i] = DecodePiece(before, piece) /\ i \in 0..n /\ IsWirePiece(piece)
            BY <1>1, <1>2
        <2> HIDE DEF before, piece
        <2>2. IsDecoder(DecodePiece(before, piece))
            BY <2>1, PieceDecoded
        <2> QED  BY <2>1, <2>2
    <1> HIDE DEF Good
    <1>5. n \in Good
        <2>1. 0..n \subseteq Good
            BY <1>1, <1>3, <1>4, BoundedInduction
        <2> QED  BY <1>1, <2>1
    <1> DEFINE last == f[n]
               decoded == DecodeWords(value)
               text == AsText(decoded)
    <1>6. IsDecoder(last)
        BY <1>5 DEF Good
    <1>7. decoded = last.out \o last.plain
        BY <1>2
    <1> HIDE DEF last, decoded
    <1>8. IsSeq(decoded)
        BY <1>6, <1>7, Concat DEF IsDecoder
    <1>9. Len(decoded) \in Nat /\ text = [i \in 1..Len(decoded) |-> text[i]]
        BY <1>8, SeqFacts DEF AsText
    <1> HIDE DEF text
    <1>10. IsSeq(text)
        BY <1>9, MakeSeq
    <1> QED  BY <1>8, <1>10 DEF decoded, text

(* A scanner of quoted strings: what it has let through is a value. *)
IsScanner(s) == s = [quoted |-> s.quoted, pair |-> s.pair, out |-> s.out] /\ IsValue(s.out)

(* A scanner of quotes with a value for its output is one. *)
LEMMA ScannerMoves ==
    ASSUME NEW s, IsScanner(s), NEW quoted, NEW pair, NEW out, IsValue(out), NEW t, t = [quoted |-> quoted, pair |-> pair, out |-> out]
    PROVE  IsScanner(t)
    BY DEF IsScanner

(* So it stays when it sets a flag or adds to its output. *)
LEMMA ScannerSteps ==
    ASSUME NEW s, IsScanner(s), NEW more, IsValue(more), NEW flag
    PROVE  /\ IsScanner([s EXCEPT !.out = more]) /\ IsScanner([s EXCEPT !.pair = flag, !.out = more])
           /\ IsScanner([s EXCEPT !.quoted = flag, !.out = more])
           /\ IsScanner([s EXCEPT !.pair = flag]) /\ IsScanner([s EXCEPT !.quoted = flag])
    <1> DEFINE quoted == s.quoted
               pair == s.pair
               out == s.out
    <1>1. s = [quoted |-> quoted, pair |-> pair, out |-> out] /\ IsValue(out)
        BY DEF IsScanner
    <1> HIDE DEF quoted, pair, out
    <1>2. /\ [s EXCEPT !.out = more] = [quoted |-> quoted, pair |-> pair, out |-> more]
          /\ [s EXCEPT !.pair = flag] = [quoted |-> quoted, pair |-> flag, out |-> out]
          /\ [s EXCEPT !.quoted = flag] = [quoted |-> flag, pair |-> pair, out |-> out]
        BY <1>1
    <1>3. [s EXCEPT !.pair = flag, !.out = more] = [quoted |-> quoted, pair |-> flag, out |-> more]
        <2> DEFINE t == [s EXCEPT !.pair = flag]
        <2>1. t = [quoted |-> quoted, pair |-> flag, out |-> out]
            BY <1>2
        <2> HIDE DEF t
        <2>2. [t EXCEPT !.out = more] = [quoted |-> quoted, pair |-> flag, out |-> more]
            BY <2>1
        <2> QED  BY <2>2 DEF t
    <1>4. [s EXCEPT !.quoted = flag, !.out = more] = [quoted |-> flag, pair |-> pair, out |-> more]
        <2> DEFINE t == [s EXCEPT !.quoted = flag]
        <2>1. t = [quoted |-> flag, pair |-> pair, out |-> out]
            BY <1>2
        <2> HIDE DEF t
        <2>2. [t EXCEPT !.out = more] = [quoted |-> flag, pair |-> pair, out |-> more]
            BY <2>1
        <2> QED  BY <2>2 DEF t
    <1> QED  BY <1>1, <1>2, <1>3, <1>4, ScannerMoves

(* The escaper keeps a value, whatever piece comes. *)
LEMMA PieceEscaped ==
    ASSUME NEW s, IsScanner(s), NEW piece, IsWirePiece(piece)
    PROVE  IsScanner(EscapePiece(s, piece))
    <1> DEFINE more == Append(s.out, piece)
               word == <<"escaped", piece>>
               escaped == Append(s.out, word)
               no == FALSE
               yes == TRUE
               other == ~s.quoted
    <1>1. IsValue(more)
        BY ValueMore DEF IsScanner
    <1>2. IsValue(escaped)
        <2>1. IsWirePiece(word)
            BY PlainPiece
        <2> HIDE DEF word
        <2> QED  BY <2>1, ValueMore DEF IsScanner
    <1>3. EscapePiece(s, piece) \in
            {[s EXCEPT !.pair = no, !.out = more], [s EXCEPT !.out = escaped], [s EXCEPT !.pair = yes, !.out = more],
             [s EXCEPT !.quoted = other, !.out = more], [s EXCEPT !.out = more]}
        <2> DEFINE a == s.pair
                   b == ~s.pair /\ s.quoted /\ IsWord(piece)
                   c == ~s.pair /\ s.quoted /\ piece = Char("backslash")
                   d == ~s.pair /\ piece = Char("quote")
                   va == [s EXCEPT !.pair = FALSE, !.out = more]
                   vb == [s EXCEPT !.out = escaped]
                   vc == [s EXCEPT !.pair = TRUE, !.out = more]
                   vd == [s EXCEPT !.quoted = ~@, !.out = more]
                   ve == [s EXCEPT !.out = more]
        <2>1. EscapePiece(s, piece) = CASE a -> va [] b -> vb [] c -> vc [] d -> vd [] OTHER -> ve
            BY DEF EscapePiece
        <2>2. va = [s EXCEPT !.pair = no, !.out = more] /\ vc = [s EXCEPT !.pair = yes, !.out = more]
              /\ vd = [s EXCEPT !.quoted = other, !.out = more]
            OBVIOUS
        <2> HIDE DEF a, b, c, d, va, vb, vc, vd, ve
        <2>3. EscapePiece(s, piece) \in {va, vb, vc, vd, ve}
            BY <2>1
        <2> QED  BY <2>2, <2>3 DEF vb, ve
    <1> HIDE DEF more, escaped, no, yes, other
    <1>4. /\ IsScanner([s EXCEPT !.pair = no, !.out = more]) /\ IsScanner([s EXCEPT !.out = escaped])
          /\ IsScanner([s EXCEPT !.pair = yes, !.out = more]) /\ IsScanner([s EXCEPT !.quoted = other, !.out = more])
          /\ IsScanner([s EXCEPT !.out = more])
        BY <1>1, <1>2, ScannerSteps, Zenon
    <1> QED  BY <1>3, <1>4, Zenon

(* A value with its quoted words escaped is a value. *)
LEMMA EscapedIs ==
    ASSUME NEW value, IsValue(value)
    PROVE  IsValue(EscapeQuotedWords(value))
    <1> DEFINE n == Len(value)
    <1>1. n \in Nat /\ DOMAIN value = 1..n /\ \A i \in 1..n : IsWirePiece(value[i])
        BY ValueIs, SeqFacts
    <1>2. PICK f : /\ f[0] = [quoted |-> FALSE, pair |-> FALSE, out |-> <<>>]
                   /\ \A i \in 1..n : f[i] = EscapePiece(f[i - 1], value[i])
                   /\ EscapeQuotedWords(value) = f[n].out
        BY <1>1, WordsEscapedSteps
    <1> HIDE DEF n
    <1> DEFINE Good == {i \in 0..n : IsScanner(f[i])}
    <1>3. 0 \in Good
        <2>1. IsScanner(f[0])
            BY <1>2, EmptyLength DEF IsScanner
        <2> QED  BY <1>1, <2>1
    <1>4. \A i \in 1..n : i - 1 \in Good => i \in Good
        <2> TAKE i \in 1..n
        <2> HAVE i - 1 \in Good
        <2> DEFINE before == f[i - 1]
                   piece == value[i]
        <2>1. IsScanner(before) /\ f[i] = EscapePiece(before, piece) /\ i \in 0..n /\ IsWirePiece(piece)
            BY <1>1, <1>2
        <2> HIDE DEF before, piece
        <2>2. IsScanner(EscapePiece(before, piece))
            BY <2>1, PieceEscaped
        <2> QED  BY <2>1, <2>2
    <1> HIDE DEF Good
    <1>5. n \in Good
        <2>1. 0..n \subseteq Good
            BY <1>1, <1>3, <1>4, BoundedInduction
        <2> QED  BY <1>1, <2>1
    <1>6. IsScanner(f[n])
        BY <1>5 DEF Good
    <1> QED  BY <1>2, <1>6 DEF IsScanner

(* The remover of quotes keeps a value, whatever piece comes. *)
LEMMA WirePieceUnquoted ==
    ASSUME NEW s, IsScanner(s), NEW piece, IsWirePiece(piece)
    PROVE  IsScanner(UnquotePiece(s, piece))
    <1> DEFINE more == Append(s.out, piece)
               no == FALSE
               yes == TRUE
               other == ~s.quoted
    <1>1. IsValue(more)
        BY ValueMore DEF IsScanner
    <1>2. UnquotePiece(s, piece) \in
            {[s EXCEPT !.pair = no, !.out = more], [s EXCEPT !.pair = yes], [s EXCEPT !.quoted = other], [s EXCEPT !.out = more]}
        <2> DEFINE a == s.pair
                   c == ~s.pair /\ s.quoted /\ piece = Char("backslash")
                   d == ~s.pair /\ piece = Char("quote")
                   va == [s EXCEPT !.pair = FALSE, !.out = more]
                   vc == [s EXCEPT !.pair = TRUE]
                   vd == [s EXCEPT !.quoted = ~@]
                   ve == [s EXCEPT !.out = more]
        <2>1. UnquotePiece(s, piece) = CASE a -> va [] c -> vc [] d -> vd [] OTHER -> ve
            BY DEF UnquotePiece
        <2>2. va = [s EXCEPT !.pair = no, !.out = more] /\ vc = [s EXCEPT !.pair = yes] /\ vd = [s EXCEPT !.quoted = other]
            OBVIOUS
        <2> HIDE DEF a, c, d, va, vc, vd, ve
        <2>3. UnquotePiece(s, piece) \in {va, vc, vd, ve}
            BY <2>1
        <2> QED  BY <2>2, <2>3 DEF ve
    <1> HIDE DEF more, no, yes, other
    <1>3. /\ IsScanner([s EXCEPT !.pair = no, !.out = more]) /\ IsScanner([s EXCEPT !.pair = yes])
          /\ IsScanner([s EXCEPT !.quoted = other]) /\ IsScanner([s EXCEPT !.out = more])
        BY <1>1, ScannerSteps, Zenon
    <1> QED  BY <1>2, <1>3, Zenon

(* A value without its quotes is a value. *)
LEMMA UnquotedIs ==
    ASSUME NEW value, IsValue(value)
    PROVE  IsValue(Unquoted(value))
    <1> DEFINE n == Len(value)
    <1>1. n \in Nat /\ DOMAIN value = 1..n /\ \A i \in 1..n : IsWirePiece(value[i])
        BY ValueIs, SeqFacts
    <1>2. PICK f : /\ f[0] = [quoted |-> FALSE, pair |-> FALSE, out |-> <<>>]
                   /\ \A i \in 1..n : f[i] = UnquotePiece(f[i - 1], value[i])
                   /\ Unquoted(value) = f[n].out
        BY <1>1, QuotesRemovedSteps
    <1> HIDE DEF n
    <1> DEFINE Good == {i \in 0..n : IsScanner(f[i])}
    <1>3. 0 \in Good
        <2>1. IsScanner(f[0])
            BY <1>2, EmptyLength DEF IsScanner
        <2> QED  BY <1>1, <2>1
    <1>4. \A i \in 1..n : i - 1 \in Good => i \in Good
        <2> TAKE i \in 1..n
        <2> HAVE i - 1 \in Good
        <2> DEFINE before == f[i - 1]
                   piece == value[i]
        <2>1. IsScanner(before) /\ f[i] = UnquotePiece(before, piece) /\ i \in 0..n /\ IsWirePiece(piece)
            BY <1>1, <1>2
        <2> HIDE DEF before, piece
        <2>2. IsScanner(UnquotePiece(before, piece))
            BY <2>1, WirePieceUnquoted
        <2> QED  BY <2>1, <2>2
    <1> HIDE DEF Good
    <1>5. n \in Good
        <2>1. 0..n \subseteq Good
            BY <1>1, <1>3, <1>4, BoundedInduction
        <2> QED  BY <1>1, <2>1
    <1>6. IsScanner(f[n])
        BY <1>5 DEF Good
    <1> QED  BY <1>2, <1>6 DEF IsScanner

(* A phrase is read as a text. *)
LEMMA PhraseRead ==
    ASSUME NEW value, IsValue(value)
    PROVE  IsSeq(ParsePhrase(value))
    <1> DEFINE s == Unquoted(value)
               Decodes(i) == i \in DOMAIN s /\ s[i][1] \in {"B", "Q"}
               text(i) == CASE Decodes(i) -> s[i][2]
                            [] s[i][1] = "escaped" -> <<AsChar(s[i][2])>>
                            [] IsBlank(s[i]) /\ Decodes(i - 1) /\ Decodes(i + 1) -> <<>>
                            [] OTHER -> <<AsChar(s[i])>>
               texts == [i \in DOMAIN s |-> text(i)]
               flat == FlattenSeq(texts)
    <1>1. ParsePhrase(value) = flat
        BY DEF ParsePhrase
    <1>2. IsValue(s)
        BY UnquotedIs
    <1> HIDE DEF s
    <1>3. IsSeq(s) /\ Len(s) \in Nat /\ DOMAIN s = 1..Len(s) /\ \A i \in 1..Len(s) : IsWirePiece(s[i])
        BY <1>2, ValueIs, SeqFacts
    <1>4. \A i \in 1..Len(s) : IsSeq(text(i))
        <2> TAKE i \in 1..Len(s)
        <2> DEFINE a == s[i][2]
                   b == <<AsChar(s[i][2])>>
                   c == <<>>
                   d == <<AsChar(s[i])>>
                   p == s[i][1] = "escaped"
                   q == IsBlank(s[i]) /\ Decodes(i - 1) /\ Decodes(i + 1)
                   r == Decodes(i)
        <2>1. r => IsSeq(a)
            BY <1>3 DEF IsWirePiece, IsWord
        <2>2. IsSeq(b) /\ IsSeq(c) /\ IsSeq(d)
            BY OneIsSeq, EmptyIsSeq
        <2>3. text(i) = CASE r -> a [] p -> b [] q -> c [] OTHER -> d
            OBVIOUS
        <2> HIDE DEF a, b, c, d, p, q, r, text
        <2> QED  BY <2>1, <2>2, <2>3
    <1> HIDE DEF text
    <1>5. texts = [i \in 1..Len(s) |-> texts[i]] /\ \A i \in 1..Len(s) : IsSeq(texts[i])
        BY <1>3, <1>4
    <1> HIDE DEF texts
    <1>6. IsSeq(texts) /\ DOMAIN texts = 1..Len(s)
        BY <1>3, <1>5, MakeSeq
    <1>7. AllSeqs(texts)
        BY <1>5, <1>6 DEF AllSeqs
    <1>8. IsSeq(flat)
        BY <1>7, FlattenedFrom
    <1> QED  BY <1>1, <1>8

-------------------------------------------------------------------------------
(* Addresses read from text: names are texts, lists are sequences, whatever *)
(* the text.                                                                *)

(* An option of a text: a name read from a phrase, or none.                 *)
LEMMA NamedIs ==
    ASSUME NEW x, x.name = <<>> \/ \E text : IsSeq(text) /\ x.name = <<text>>
    PROVE  IsNamed(x)
    <1>1. CASE x.name = <<>>
        BY <1>1 DEF IsNamed, IsOption
    <1>2. CASE x.name # <<>>
        <2>1. PICK text : IsSeq(text) /\ x.name = <<text>>
            BY <1>2
        <2>2. <<text>>[1] = text
            BY OneIsSeq
        <2>3. x.name[1] = text
            BY <2>1, <2>2
        <2> QED  BY <2>1, <2>3 DEF IsNamed, IsOption
    <1> QED  BY <1>1, <1>2

(* An entry of a list has a name that is a text, or none. *)
LEMMA EntryIs ==
    ASSUME NEW value, IsValue(value)
    PROVE  IsNamed(ParsedEntry(value))
    <1> DEFINE addrs == {i \in DOMAIN value : IsAddr(value[i])}
               part(i) == IF i \in addrs THEN <<>> ELSE <<value[i]>>
               parts == [i \in DOMAIN value |-> part(i)]
               others == FlattenSeq(parts)
               phrase == TrimBlanks(others)
               text == ParsePhrase(phrase)
               named == IF phrase = <<>> THEN <<>> ELSE <<text>>
               addr == IF addrs = {} THEN <<>> ELSE <<value[Min(addrs)]>>
    <1>1. ParsedEntry(value) = [name |-> named, addr |-> addr]
        BY DEF ParsedEntry
    <1>2. Len(value) \in Nat /\ DOMAIN value = 1..Len(value) /\ \A i \in 1..Len(value) : IsWirePiece(value[i])
        BY ValueIs, SeqFacts
    <1> HIDE DEF addrs
    <1>3. \A i \in 1..Len(value) : IsValue(part(i))
        BY <1>2, ValueOne, EmptyLength
    <1> HIDE DEF part
    <1>4. parts = [i \in 1..Len(value) |-> parts[i]] /\ \A i \in 1..Len(value) : IsValue(parts[i])
        BY <1>2, <1>3
    <1> HIDE DEF parts
    <1>5. IsSeq(parts) /\ DOMAIN parts = 1..Len(value)
        BY <1>2, <1>4, MakeSeq
    <1>6. IsValue(others)
        BY <1>4, <1>5, ValuesFlattened
    <1> HIDE DEF others
    <1>7. IsValue(phrase)
        BY <1>6, TrimmedIs
    <1> HIDE DEF phrase
    <1>8. IsSeq(text)
        BY <1>7, PhraseRead
    <1> HIDE DEF text, addr
    <1>9. ParsedEntry(value).name = named
        BY <1>1
    <1>10. named = <<>> \/ named = <<text>>
        OBVIOUS
    <1> HIDE DEF named
    <1> QED  BY <1>8, <1>9, <1>10, NamedIs

(* The parser's state: words are values, names are texts. *)
AllNamed(entries) == IsSeq(entries) /\ \A i \in DOMAIN entries : IsNamed(entries[i])
AreGroups(groups) == IsSeq(groups) /\ \A i \in DOMAIN groups : IsNamed(groups[i]) /\ AllNamed(groups[i].entries)
IsWireParserState(s) ==
    /\ s = [word |-> s.word, name |-> s.name, entries |-> s.entries, groups |-> s.groups]
    /\ IsValue(s.word) /\ IsNamed(s) /\ AllNamed(s.entries) /\ AreGroups(s.groups)

(* At its start the address parser has read nothing. *)
LEMMA NothingRead == AllNamed(<<>>) /\ AreGroups(<<>>) /\ IsValue(<<>>)
    <1>1. IsSeq(<<>>) /\ DOMAIN <<>> = {}
        BY EmptyIsSeq
    <1> QED  BY <1>1, EmptyLength DEF AllNamed, AreGroups

(* A state of the address parser, put together ... *)
LEMMA ParserStateIs ==
    ASSUME NEW s, NEW word, NEW name, NEW entries, NEW groups,
           s = [word |-> word, name |-> name, entries |-> entries, groups |-> groups],
           IsValue(word), name = <<>> \/ \E text : IsSeq(text) /\ name = <<text>>, AllNamed(entries), AreGroups(groups)
    PROVE  IsWireParserState(s)
    <1>1. s.word = word /\ s.name = name /\ s.entries = entries /\ s.groups = groups
        OBVIOUS
    <1>2. IsNamed(s)
        BY <1>1, NamedIs
    <1> QED  BY <1>1, <1>2 DEF IsWireParserState

(* ... and taken apart. *)
LEMMA ParserStateHas ==
    ASSUME NEW s, IsWireParserState(s)
    PROVE  /\ s = [word |-> s.word, name |-> s.name, entries |-> s.entries, groups |-> s.groups]
           /\ IsValue(s.word) /\ AllNamed(s.entries) /\ AreGroups(s.groups)
           /\ s.name = <<>> \/ \E text : IsSeq(text) /\ s.name = <<text>>
    BY DEF IsWireParserState, IsNamed, IsOption

(* An entry that is closed is named. *)
LEMMA WirePieceFlushed ==
    ASSUME NEW s, IsWireParserState(s)
    PROVE  IsWireParserState(Flushed(s))
    <1> DEFINE word == s.word
               name == s.name
               entries == s.entries
               groups == s.groups
               entry == ParsedEntry(word)
               more == Append(entries, entry)
               none == <<>>
    <1>1. /\ s = [word |-> word, name |-> name, entries |-> entries, groups |-> groups]
          /\ IsValue(word) /\ AllNamed(entries) /\ AreGroups(groups)
          /\ name = <<>> \/ \E text : IsSeq(text) /\ name = <<text>>
        BY ParserStateHas
    <1>2. Flushed(s) = [s EXCEPT !.word = none] \/ Flushed(s) = [s EXCEPT !.word = none, !.entries = more]
        <2>1. Flushed(s) = IF TrimBlanks(s.word) = <<>> THEN [s EXCEPT !.word = none] ELSE [s EXCEPT !.word = none, !.entries = more]
            BY DEF Flushed
        <2> HIDE DEF more, none
        <2> QED  BY <2>1
    <1>3. IsValue(none)
        BY NothingRead
    <1> HIDE DEF word, name, entries, groups, none
    <1>4. AllNamed(more)
        <2>1. IsNamed(entry)
            BY <1>1, EntryIs
        <2> HIDE DEF entry
        <2>2. IsSeq(more) /\ \A k \in DOMAIN more : more[k] = entry \/ \E i \in DOMAIN entries : more[k] = entries[i]
            BY <1>1, Appended, AppendedFrom DEF AllNamed
        <2> HIDE DEF more
        <2> QED  BY <1>1, <2>1, <2>2 DEF AllNamed
    <1> HIDE DEF more
    <1> DEFINE t == [s EXCEPT !.word = none]
               u == [t EXCEPT !.entries = more]
    <1>5. t = [word |-> none, name |-> name, entries |-> entries, groups |-> groups]
        BY <1>1
    <1> HIDE DEF t
    <1>6. u = [word |-> none, name |-> name, entries |-> more, groups |-> groups]
        BY <1>5
    <1> HIDE DEF u
    <1>7. IsWireParserState(t) /\ IsWireParserState(u)
        BY <1>1, <1>3, <1>4, <1>5, <1>6, ParserStateIs
    <1> QED  BY <1>2, <1>7 DEF t, u

(* So are the entries of a group that is closed. *)
LEMMA WireGroupClosed ==
    ASSUME NEW s, IsWireParserState(s)
    PROVE  IsWireParserState(Closed(s))
    <1> DEFINE word == s.word
               name == s.name
               entries == s.entries
               groups == s.groups
               group == [name |-> name, entries |-> entries]
               more == Append(groups, group)
               none == <<>>
    <1>1. /\ s = [word |-> word, name |-> name, entries |-> entries, groups |-> groups]
          /\ IsValue(word) /\ AllNamed(entries) /\ AreGroups(groups)
          /\ name = <<>> \/ \E text : IsSeq(text) /\ name = <<text>>
        BY ParserStateHas
    <1>2. Closed(s) = s \/ Closed(s) = [s EXCEPT !.groups = more, !.name = none, !.entries = none]
        <2>1. Closed(s) = IF s.name = <<>> /\ s.entries = <<>> THEN s ELSE [s EXCEPT !.groups = more, !.name = none, !.entries = none]
            BY DEF Closed
        <2> HIDE DEF more, none
        <2> QED  BY <2>1
    <1>3. none = <<>> /\ AllNamed(none)
        BY NothingRead
    <1> HIDE DEF word, name, entries, groups, none
    <1>4. AreGroups(more)
        <2>1. group.name = name /\ group.entries = entries
            OBVIOUS
        <2> HIDE DEF group
        <2>2. IsNamed(group) /\ AllNamed(group.entries)
            BY <1>1, <2>1, NamedIs
        <2>3. IsSeq(more) /\ \A k \in DOMAIN more : more[k] = group \/ \E i \in DOMAIN groups : more[k] = groups[i]
            BY <1>1, Appended, AppendedFrom DEF AreGroups
        <2> HIDE DEF more
        <2> QED  BY <1>1, <2>2, <2>3 DEF AreGroups
    <1> HIDE DEF more
    <1> DEFINE t == [s EXCEPT !.groups = more]
               u == [t EXCEPT !.name = none]
               v == [u EXCEPT !.entries = none]
    <1>5. t = [word |-> word, name |-> name, entries |-> entries, groups |-> more]
        BY <1>1
    <1> HIDE DEF t
    <1>6. u = [word |-> word, name |-> none, entries |-> entries, groups |-> more]
        BY <1>5
    <1> HIDE DEF u
    <1>7. v = [word |-> word, name |-> none, entries |-> none, groups |-> more]
        BY <1>6
    <1> HIDE DEF v
    <1>8. IsWireParserState(v)
        BY <1>1, <1>3, <1>4, <1>7, ParserStateIs
    <1> QED  BY <1>2, <1>8 DEF t, u, v

(* The address parser keeps named entries, whatever piece comes. *)
LEMMA WirePieceTaken ==
    ASSUME NEW s, IsWireParserState(s), NEW piece, IsWirePiece(piece)
    PROVE  IsWireParserState(TakePiece(s, piece))
    <1> DEFINE closed == Closed(s)
               text == ParsePhrase(TrimBlanks(s.word))
               named == <<text>>
               longer == Append(s.word, piece)
               none == <<>>
    <1>1. IsWireParserState(Flushed(s)) /\ IsWireParserState(closed)
        BY WirePieceFlushed, WireGroupClosed
    <1>2. IsWireParserState(Closed(Flushed(s)))
        BY <1>1, WireGroupClosed
    <1>3. \/ TakePiece(s, piece) = Flushed(s)
          \/ TakePiece(s, piece) = [closed EXCEPT !.name = named, !.word = none]
          \/ TakePiece(s, piece) = Closed(Flushed(s))
          \/ TakePiece(s, piece) = [s EXCEPT !.word = longer]
        BY DEF TakePiece
    <1>4. IsValue(s.word) /\ IsSeq(text) /\ IsValue(longer) /\ IsValue(none)
        <2>1. IsValue(s.word)
            BY ParserStateHas
        <2>2. IsValue(TrimBlanks(s.word))
            BY <2>1, TrimmedIs
        <2> QED  BY <2>1, <2>2, PhraseRead, ValueMore, NothingRead
    <1> HIDE DEF closed, text, longer, none
    <1>5. IsWireParserState([closed EXCEPT !.name = named, !.word = none])
        <2> DEFINE w == closed.word
                   m == closed.name
                   e == closed.entries
                   g == closed.groups
                   t == [closed EXCEPT !.name = named]
                   u == [t EXCEPT !.word = none]
        <2>1. closed = [word |-> w, name |-> m, entries |-> e, groups |-> g] /\ AllNamed(e) /\ AreGroups(g)
            BY <1>1, ParserStateHas
        <2>2. \E x : IsSeq(x) /\ named = <<x>>
            BY <1>4
        <2> HIDE DEF w, m, e, g, named
        <2>3. t = [word |-> w, name |-> named, entries |-> e, groups |-> g]
            BY <2>1
        <2> HIDE DEF t
        <2>4. u = [word |-> none, name |-> named, entries |-> e, groups |-> g]
            BY <2>3
        <2> HIDE DEF u
        <2>5. IsWireParserState(u)
            BY <1>4, <2>1, <2>2, <2>4, ParserStateIs
        <2> QED  BY <2>5 DEF t, u
    <1>6. IsWireParserState([s EXCEPT !.word = longer])
        <2> DEFINE w == s.word
                   m == s.name
                   e == s.entries
                   g == s.groups
                   u == [s EXCEPT !.word = longer]
        <2>1. /\ s = [word |-> w, name |-> m, entries |-> e, groups |-> g] /\ AllNamed(e) /\ AreGroups(g)
              /\ m = <<>> \/ \E x : IsSeq(x) /\ m = <<x>>
            BY ParserStateHas
        <2> HIDE DEF w, m, e, g
        <2>2. u = [word |-> longer, name |-> m, entries |-> e, groups |-> g]
            BY <2>1
        <2> HIDE DEF u
        <2>3. IsWireParserState(u)
            BY <1>4, <2>1, <2>2, ParserStateIs
        <2> QED  BY <2>3 DEF u
    <1> QED  BY <1>1, <1>2, <1>3, <1>5, <1>6, Zenon

(* The groups of a header have named entries. *)
LEMMA GroupsAre ==
    ASSUME NEW value, IsValue(value)
    PROVE  AreGroups(ParsedGroups(value))
    <1> DEFINE n == Len(value)
    <1>1. n \in Nat /\ DOMAIN value = 1..n /\ \A i \in 1..n : IsWirePiece(value[i])
        BY ValueIs, SeqFacts
    <1>2. PICK f : /\ f[0] = [word |-> <<>>, name |-> <<>>, entries |-> <<>>, groups |-> <<>>]
                   /\ \A i \in 1..n : f[i] = TakePiece(f[i - 1], value[i])
                   /\ ParsedGroups(value) = Closed(Flushed(f[n])).groups
        BY <1>1, PiecesTakenSteps
    <1> HIDE DEF n
    <1> DEFINE Good == {i \in 0..n : IsWireParserState(f[i])}
    <1>3. 0 \in Good
        <2>1. IsWireParserState(f[0])
            BY <1>2, NothingRead, ParserStateIs
        <2> QED  BY <1>1, <2>1
    <1>4. \A i \in 1..n : i - 1 \in Good => i \in Good
        <2> TAKE i \in 1..n
        <2> HAVE i - 1 \in Good
        <2> DEFINE before == f[i - 1]
                   piece == value[i]
        <2>1. IsWireParserState(before) /\ f[i] = TakePiece(before, piece) /\ i \in 0..n /\ IsWirePiece(piece)
            BY <1>1, <1>2
        <2> HIDE DEF before, piece
        <2>2. IsWireParserState(TakePiece(before, piece))
            BY <2>1, WirePieceTaken
        <2> QED  BY <2>1, <2>2
    <1> HIDE DEF Good
    <1>5. n \in Good
        <2>1. 0..n \subseteq Good
            BY <1>1, <1>3, <1>4, BoundedInduction
        <2> QED  BY <1>1, <2>1
    <1> DEFINE last == f[n]
    <1>6. IsWireParserState(last)
        BY <1>5 DEF Good
    <1> HIDE DEF last
    <1>7. IsWireParserState(Closed(Flushed(last)))
        BY <1>6, WirePieceFlushed, WireGroupClosed
    <1> QED  BY <1>2, <1>7, ParserStateHas DEF last

BoxResult(r) == r.error = "none" => r.item.kind = "mailbox" /\ IsNamed(r.item)
ListedResult(r) == r.error = "none" => IsAddressee(r.item)

(* An entry that is converted is a mailbox, in a group or not.             *)
LEMMA WireMailboxConverted ==
    ASSUME NEW entry, IsNamed(entry)
    PROVE  BoxResult(ConvertMailbox(entry)) /\ BoxResult(InGroup(ConvertMailbox(entry)))
    <1>1. BoxResult(ConvertMailbox(entry))
        BY DEF BoxResult, ConvertMailbox, Err, Ok, Mailbox, IsNamed, IsOption
    <1> DEFINE r == ConvertMailbox(entry)
    <1> HIDE DEF r
    <1>2. BoxResult(r) => BoxResult(InGroup(r))
        BY DEF BoxResult, InGroup, Err
    <1> QED  BY <1>1, <1>2 DEF r

(* A group with a name is converted to an address or refused ... *)
LEMMA WireGroupConverted ==
    ASSUME NEW group, IsNamed(group), group.name # <<>>, AllNamed(group.entries)
    PROVE  ListedResult(ConvertGroup(group))
    <1> DEFINE entries == group.entries
               results == [i \in DOMAIN entries |-> InGroup(ConvertMailbox(entries[i]))]
               members == Collected(results)
               text == group.name[1]
               items == members.item
    <1>1. Len(entries) \in Nat /\ DOMAIN entries = 1..Len(entries) /\ \A i \in 1..Len(entries) : IsNamed(entries[i])
        BY SeqFacts DEF AllNamed
    <1>2. IsSeq(text)
        BY DEF IsNamed, IsOption
    <1>3. ConvertGroup(group) = IF members.error # "none" THEN members ELSE Ok(Group(text, items))
        BY DEF ConvertGroup
    <1> HIDE DEF entries, text
    <1>4. results = [i \in 1..Len(entries) |-> results[i]] /\ \A i \in 1..Len(entries) : BoxResult(results[i])
        BY <1>1, WireMailboxConverted
    <1> HIDE DEF results
    <1>5. IsSeq(results) /\ DOMAIN results = 1..Len(entries)
        BY <1>1, <1>4, MakeSeq
    <1>6. CASE members.error # "none"
        BY <1>3, <1>6 DEF ListedResult
    <1>7. CASE members.error = "none"
        <2>1. /\ members.item = Items(results) /\ IsSeq(Items(results)) /\ DOMAIN Items(results) = DOMAIN results
              /\ \A i \in DOMAIN results : results[i].error = "none" /\ Items(results)[i] = results[i].item
            BY <1>5, <1>7, CollectedIs
        <2>2. IsSeq(items) /\ \A i \in DOMAIN items : IsNamed(items[i])
            BY <1>4, <1>5, <2>1 DEF BoxResult
        <2>3. IsList(items, IsNamed)
            BY <2>2 DEF IsList
        <2>4. ConvertGroup(group) = Ok(Group(text, items))
            BY <1>3, <1>7
        <2> HIDE DEF items
        <2> DEFINE made == Group(text, items)
        <2>5. made.kind # "mailbox" /\ made.name = text /\ made.members = items
            BY DEF Group
        <2> HIDE DEF made
        <2>6. IsAddressee(made)
            BY <1>2, <2>3, <2>5 DEF IsAddressee
        <2>7. ConvertGroup(group).item = made
            BY <2>4 DEF Ok, made
        <2> QED  BY <2>6, <2>7 DEF ListedResult
    <1> QED  BY <1>6, <1>7

(* Results that are all addressees are a list of them.                     *)
LEMMA ItemsListed ==
    ASSUME NEW results, IsSeq(results), \A i \in DOMAIN results : ListedResult(results[i]), Collected(results).error = "none"
    PROVE  IsList(Collected(results).item, IsAddressee)
    <1> DEFINE items == Items(results)
               collected == Collected(results)
    <1>1. /\ collected.item = items /\ IsSeq(items) /\ DOMAIN items = DOMAIN results
          /\ \A i \in DOMAIN results : results[i].error = "none" /\ items[i] = results[i].item
        BY CollectedIs
    <1> HIDE DEF items, collected
    <1>2. \A i \in DOMAIN items : IsAddressee(items[i])
        BY <1>1 DEF ListedResult
    <1>3. IsList(collected.item, IsAddressee)
        BY <1>1, <1>2 DEF IsList
    <1> QED  BY <1>3 DEF collected

(* ... and one without to its mailboxes. *)
LEMMA WireConvertedIs ==
    ASSUME NEW group, IsNamed(group), AllNamed(group.entries)
    PROVE  IsSeq(Converted(group)) /\ \A i \in DOMAIN Converted(group) : ListedResult(Converted(group)[i])
    <1> DEFINE entries == group.entries
               results == [i \in DOMAIN entries |-> ConvertMailbox(entries[i])]
               one == ConvertGroup(group)
    <1>1. CASE group.name # <<>>
        <2>1. ListedResult(one)
            BY <1>1, WireGroupConverted
        <2>2. Converted(group) = <<one>>
            BY <1>1 DEF Converted
        <2> HIDE DEF one
        <2>3. IsSeq(<<one>>) /\ \A i \in DOMAIN <<one>> : <<one>>[i] = one
            BY OneIsSeq
        <2> QED  BY <2>1, <2>2, <2>3
    <1>2. CASE group.name = <<>>
        <2>1. Converted(group) = results
            BY <1>2 DEF Converted
        <2>2. Len(entries) \in Nat /\ DOMAIN entries = 1..Len(entries) /\ \A i \in 1..Len(entries) : IsNamed(entries[i])
            BY SeqFacts DEF AllNamed
        <2>3. results = [i \in 1..Len(entries) |-> results[i]] /\ \A i \in 1..Len(entries) : BoxResult(results[i])
            BY <2>2, WireMailboxConverted
        <2> HIDE DEF results, entries
        <2>4. IsSeq(results) /\ DOMAIN results = 1..Len(entries)
            BY <2>2, <2>3, MakeSeq
        <2>5. \A i \in DOMAIN results : ListedResult(results[i])
            BY <2>3, <2>4 DEF BoxResult, ListedResult, IsAddressee
        <2> QED  BY <2>1, <2>4, <2>5
    <1> QED  BY <1>1, <1>2

(* An address list that is parsed is one of addressees.                    *)
LEMMA ListRead ==
    ASSUME NEW value, IsValue(value), ParseAddressItems(value).error = "none"
    PROVE  IsList(ParseAddressItems(value).item, IsAddressee)
    <1> DEFINE groups == ParsedGroups(value)
               lists == [i \in DOMAIN groups |-> Converted(groups[i])]
               flat == FlattenSeq(lists)
    <1>1. AreGroups(groups)
        BY GroupsAre
    <1>2. ParseAddressItems(value) = Collected(flat)
        <2>1. ParseAddressItems(value) = IF groups = <<>> THEN Err("MissingAddress") ELSE Collected(flat)
            <3>1. \/ ParseAddressItems(value) = Err("InputTooLong")
                  \/ ParseAddressItems(value) = Err("InputContainsRawNewlines")
                  \/ ParseAddressItems(value) = IF groups = <<>> THEN Err("MissingAddress") ELSE Collected(flat)
                BY DEF ParseAddressItems, Converted
            <3>2. Err("InputTooLong").error # "none" /\ Err("InputContainsRawNewlines").error # "none"
                BY DEF Err
            <3> QED  BY <3>1, <3>2
        <2>2. Err("MissingAddress").error # "none"
            BY DEF Err
        <2> QED  BY <2>1, <2>2
    <1> HIDE DEF groups
    <1>3. /\ Len(groups) \in Nat /\ DOMAIN groups = 1..Len(groups)
          /\ \A i \in 1..Len(groups) : IsNamed(groups[i]) /\ AllNamed(groups[i].entries)
        BY <1>1, SeqFacts DEF AreGroups
    <1>4. lists = [i \in 1..Len(groups) |-> lists[i]] /\ \A i \in 1..Len(groups) : lists[i] = Converted(groups[i])
        BY <1>3
    <1> HIDE DEF lists
    <1>5. IsSeq(lists) /\ DOMAIN lists = 1..Len(groups)
        BY <1>3, <1>4, MakeSeq
    <1>6. \A i \in DOMAIN lists : IsSeq(lists[i]) /\ \A j \in DOMAIN lists[i] : ListedResult(lists[i][j])
        BY <1>3, <1>4, <1>5, WireConvertedIs
    <1>7. AllSeqs(lists)
        BY <1>5, <1>6 DEF AllSeqs
    <1>8. IsSeq(flat) /\ \A k \in DOMAIN flat : \E i \in DOMAIN lists : \E j \in DOMAIN lists[i] : flat[k] = lists[i][j]
        BY <1>7, FlattenedFrom
    <1> HIDE DEF flat
    <1>9. \A i \in DOMAIN flat : ListedResult(flat[i])
        BY <1>6, <1>8
    <1>10. Collected(flat).error = "none"
        BY <1>2
    <1>11. IsList(Collected(flat).item, IsAddressee)
        BY <1>8, <1>9, <1>10, ItemsListed
    <1> QED  BY <1>2, <1>11

(* A mailbox that is parsed has a text for a name, or none.                *)
LEMMA WireMailboxRead ==
    ASSUME NEW value, IsValue(value), MailboxFromStr(value).error = "none"
    PROVE  IsNamed(MailboxFromStr(value).item)
    <1> DEFINE items == ParseAddressItems(value)
               result == Single(value, "mailbox", "ExpectedSingleMailbox")
               list == items.item
    <1>1. CASE EmailFromStr(value).error = "none"
        <2>1. MailboxFromStr(value).item = BareMailbox(value)
            BY <1>1 DEF MailboxFromStr, Ok
        <2>2. BareMailbox(value).name = <<>>
            BY DEF BareMailbox, Mailbox
        <2> QED  BY <2>1, <2>2, NamedIs
    <1>2. CASE EmailFromStr(value).error # "none"
        <2>1. MailboxFromStr(value) = result
            BY <1>2 DEF MailboxFromStr
        <2>2. \/ items.error # "none" /\ result = items
              \/ items.error = "none" /\ Len(list) # 1 /\ result = Err("ExpectedSingleMailbox")
              \/ items.error = "none" /\ Len(list) = 1 /\ "mailbox" \in {list[1].kind, "any"} /\ result = Ok(list[1])
              \/ result = Err("UnexpectedAddressKind")
            BY DEF Single
        <2>3. Err("ExpectedSingleMailbox").error # "none" /\ Err("UnexpectedAddressKind").error # "none"
            BY DEF Err
        <2>4. items.error = "none" /\ Len(list) = 1 /\ list[1].kind = "mailbox" /\ result = Ok(list[1])
            BY <2>1, <2>2, <2>3
        <2>5. IsSeq(list) /\ \A i \in DOMAIN list : IsAddressee(list[i])
            BY <2>4, ListRead DEF IsList
        <2> HIDE DEF result, list
        <2>6. 1 \in DOMAIN list
            BY <2>4, <2>5, SeqFacts
        <2>7. IsNamed(list[1])
            BY <2>4, <2>5, <2>6 DEF IsAddressee
        <2>8. MailboxFromStr(value).item = list[1]
            BY <2>1, <2>4 DEF Ok
        <2> QED  BY <2>7, <2>8
    <1> QED  BY <1>1, <1>2

-------------------------------------------------------------------------------
(* A message read from a wire is one that Rust's types allow. *)

MessageKeys == {"from", "sender", "to", "cc", "bcc", "replyTo", "subject", "date", "messageId", "headers", "body", "attachments"}
Fits(key, v) ==
    /\ key \in {"from", "sender"} => IsOption(v, IsNamed)
    /\ key \in {"to", "cc", "bcc", "replyTo"} => IsList(v, IsAddressee)
    /\ key = "subject" => IsOption(v, IsSeq)
    /\ key = "headers" => IsSeq(v) /\ \A i \in DOMAIN v : IsValue(v[i].value)

(* A message is well typed when every field of it is. *)
LEMMA WrittenIs ==
    ASSUME NEW m
    PROVE  IsWritten(m) <=> DOMAIN m = MessageKeys /\ \A key \in MessageKeys : Fits(key, m[key])
    <1>1. DOMAIN EmptyMessage(m.body) = MessageKeys
        BY DEF EmptyMessage, MessageKeys
    <1>2. IsList(m.headers, LAMBDA header : IsValue(header.value)) <=> IsSeq(m.headers) /\ \A i \in DOMAIN m.headers : IsValue(m.headers[i].value)
        BY DEF IsList
    <1>3. (\A key \in MessageKeys : Fits(key, m[key])) <=>
            /\ Fits("from", m.from) /\ Fits("sender", m.sender)
            /\ Fits("to", m.to) /\ Fits("cc", m.cc) /\ Fits("bcc", m.bcc) /\ Fits("replyTo", m.replyTo)
            /\ Fits("subject", m.subject) /\ Fits("headers", m.headers)
        <2>1. \A v : Fits("date", v) /\ Fits("messageId", v) /\ Fits("body", v) /\ Fits("attachments", v)
            BY DEF Fits
        <2> QED  BY <2>1 DEF MessageKeys
    <1>4. /\ Fits("from", m.from) <=> IsOption(m.from, IsNamed)
          /\ Fits("sender", m.sender) <=> IsOption(m.sender, IsNamed)
          /\ Fits("to", m.to) <=> IsList(m.to, IsAddressee)
          /\ Fits("cc", m.cc) <=> IsList(m.cc, IsAddressee)
          /\ Fits("bcc", m.bcc) <=> IsList(m.bcc, IsAddressee)
          /\ Fits("replyTo", m.replyTo) <=> IsList(m.replyTo, IsAddressee)
          /\ Fits("subject", m.subject) <=> IsOption(m.subject, IsSeq)
          /\ Fits("headers", m.headers) <=> IsList(m.headers, LAMBDA header : IsValue(header.value))
        BY <1>2 DEF Fits
    <1>5. IsWritten(m) <=> (/\ DOMAIN m = MessageKeys
                            /\ Fits("from", m.from) /\ Fits("sender", m.sender)
                            /\ Fits("to", m.to) /\ Fits("cc", m.cc) /\ Fits("bcc", m.bcc) /\ Fits("replyTo", m.replyTo)
                            /\ Fits("subject", m.subject) /\ Fits("headers", m.headers))
        BY <1>1, <1>4 DEF IsWritten
    <1> QED  BY <1>3, <1>5

(* So it stays when a field is set to a value of its type. *)
LEMMA WrittenSet ==
    ASSUME NEW m, IsWritten(m), NEW key \in MessageKeys, NEW v, Fits(key, v)
    PROVE  IsWritten([m EXCEPT ![key] = v])
    <1> DEFINE n == [m EXCEPT ![key] = v]
    <1>1. DOMAIN m = MessageKeys /\ \A k \in MessageKeys : Fits(k, m[k])
        BY WrittenIs
    <1>2. DOMAIN n = MessageKeys /\ \A k \in MessageKeys : n[k] = IF k = key THEN v ELSE m[k]
        BY <1>1
    <1> HIDE DEF n
    <1>3. \A k \in MessageKeys : Fits(k, n[k])
        BY <1>1, <1>2
    <1>4. IsWritten(n)
        BY <1>2, <1>3, WrittenIs
    <1> QED  BY <1>4 DEF n

(* A message that has nothing yet is well typed. *)
LEMMA EmptyWritten == \A body : IsWritten(EmptyMessage(body))
    <1> TAKE body
    <1> DEFINE m == EmptyMessage(body)
    <1>1. /\ DOMAIN m = MessageKeys /\ m.from = <<>> /\ m.sender = <<>> /\ m.to = <<>> /\ m.cc = <<>> /\ m.bcc = <<>>
          /\ m.replyTo = <<>> /\ m.subject = <<>> /\ m.headers = <<>>
        BY DEF EmptyMessage, MessageKeys
    <1>2. DOMAIN EmptyMessage(m.body) = MessageKeys
        BY DEF EmptyMessage, MessageKeys
    <1> HIDE DEF m
    <1>3. IsSeq(<<>>) /\ DOMAIN <<>> = {}
        BY EmptyIsSeq
    <1>4. IsWritten(m)
        BY <1>1, <1>2, <1>3 DEF IsWritten, IsOption, IsList
    <1> QED  BY <1>4 DEF m

(* The state of the reader of fields. *)
IsParse(s) ==
    /\ s = [error |-> s.error, message |-> s.message, type |-> s.type, encoding |-> s.encoding]
    /\ IsWritten(s.message)

(* The reader of fields keeps its shape. *)
LEMMA ParseMoves ==
    ASSUME NEW s, IsParse(s), NEW v
    PROVE  /\ IsParse([s EXCEPT !.error = v]) /\ IsParse([s EXCEPT !.type = v]) /\ IsParse([s EXCEPT !.encoding = v])
           /\ IsWritten(v) => IsParse([s EXCEPT !.message = v])
    <1> DEFINE error == s.error
               message0 == s.message
               type == s.type
               encoding == s.encoding
               a == [s EXCEPT !.error = v]
               b == [s EXCEPT !.type = v]
               c == [s EXCEPT !.encoding = v]
               d == [s EXCEPT !.message = v]
    <1>1. s = [error |-> error, message |-> message0, type |-> type, encoding |-> encoding] /\ IsWritten(message0)
        BY DEF IsParse
    <1> HIDE DEF error, message0, type, encoding
    <1>2. /\ a = [error |-> v, message |-> message0, type |-> type, encoding |-> encoding]
          /\ b = [error |-> error, message |-> message0, type |-> v, encoding |-> encoding]
          /\ c = [error |-> error, message |-> message0, type |-> type, encoding |-> v]
          /\ d = [error |-> error, message |-> v, type |-> type, encoding |-> encoding]
        BY <1>1
    <1> HIDE DEF a, b, c, d
    <1>3. /\ a = [error |-> a.error, message |-> a.message, type |-> a.type, encoding |-> a.encoding] /\ a.message = message0
          /\ b = [error |-> b.error, message |-> b.message, type |-> b.type, encoding |-> b.encoding] /\ b.message = message0
          /\ c = [error |-> c.error, message |-> c.message, type |-> c.type, encoding |-> c.encoding] /\ c.message = message0
          /\ d = [error |-> d.error, message |-> d.message, type |-> d.type, encoding |-> d.encoding] /\ d.message = v
        BY <1>2
    <1>4. IsParse(a) /\ IsParse(b) /\ IsParse(c) /\ (IsWritten(v) => IsParse(d))
        BY <1>1, <1>3 DEF IsParse
    <1> QED  BY <1>4 DEF a, b, c, d

(* An address header sets a field of its kind. *)
LEMMA FieldOfIs ==
    /\ \A name \in {"From", "Sender"} : FieldOf[name] \in {"from", "sender"}
    /\ \A name \in {"To", "Cc", "Bcc", "Reply-To"} : FieldOf[name] \in {"to", "cc", "bcc", "replyTo"}
    <1>1. FieldOf["From"] = "from" /\ FieldOf["Sender"] = "sender"
        BY DEF FieldOf
    <1>2. FieldOf["To"] = "to" /\ FieldOf["Cc"] = "cc" /\ FieldOf["Bcc"] = "bcc"
        BY DEF FieldOf
    <1>3. FieldOf["Reply-To"] = "replyTo"
        BY DEF FieldOf
    <1> QED  BY <1>1, <1>2, <1>3

(* The reader sets a field of its message to a value of the field's type. *)
LEMMA MessageSet ==
    ASSUME NEW s, IsParse(s), NEW key \in MessageKeys, NEW v, Fits(key, v)
    PROVE  IsParse([s EXCEPT !.message[key] = v])
    <1> DEFINE m == [s.message EXCEPT ![key] = v]
    <1>1. IsWritten(m)
        BY WrittenSet DEF IsParse
    <1>2. [s EXCEPT !.message[key] = v] = [s EXCEPT !.message = m]
        OBVIOUS
    <1> HIDE DEF m
    <1>3. IsParse([s EXCEPT !.message = m])
        BY <1>1, ParseMoves
    <1> QED  BY <1>2, <1>3

(* A field of a wire leaves a message that Rust's types allow. *)
LEMMA MailboxFieldParsed ==
    ASSUME NEW s, IsParse(s), NEW value, IsValue(value), NEW name \in {"From", "Sender"}
    PROVE  LET mailbox == MailboxFromStr(EscapeQuotedWords(value))
           IN  /\ mailbox.error = "none" => IsParse([s EXCEPT !.message[FieldOf[name]] = <<mailbox.item>>])
               /\ IsParse([s EXCEPT !.error = "MailboxHeaderParse"])
    <1> DEFINE escaped == EscapeQuotedWords(value)
               mailbox == MailboxFromStr(escaped)
               key == FieldOf[name]
               item == mailbox.item
    <1>1. IsValue(escaped)
        BY EscapedIs
    <1>2. mailbox.error = "none" => IsNamed(item)
        <2> HIDE DEF escaped
        <2> QED  BY <1>1, WireMailboxRead
    <1>3. key \in {"from", "sender"} /\ key \in MessageKeys
        BY FieldOfIs DEF MessageKeys
    <1> HIDE DEF key, item
    <1>4. IsNamed(item) => Fits(key, <<item>>)
        <2> SUFFICES ASSUME IsNamed(item) PROVE Fits(key, <<item>>)
            OBVIOUS
        <2>1. IsOption(<<item>>, IsNamed)
            BY OneIsSeq DEF IsOption
        <2> QED  BY <1>3, <2>1 DEF Fits
    <1>5. IsNamed(item) => IsParse([s EXCEPT !.message[key] = <<item>>])
        BY <1>3, <1>4, MessageSet
    <1>6. IsParse([s EXCEPT !.error = "MailboxHeaderParse"])
        BY ParseMoves
    <1> QED  BY <1>2, <1>5, <1>6 DEF key, item

(* An address list adds its addresses to those of the message. *)
LEMMA ListFieldParsed ==
    ASSUME NEW s, IsParse(s), NEW value, IsValue(value), NEW name \in {"To", "Cc", "Bcc", "Reply-To"}
    PROVE  LET list == AddressListFromStr(EscapeQuotedWords(value))
           IN  /\ list.error = "none" => IsParse([s EXCEPT !.message[FieldOf[name]] = @ \o list.item])
               /\ IsParse([s EXCEPT !.error = "AddressHeaderParse"])
    <1> DEFINE escaped == EscapeQuotedWords(value)
               list == AddressListFromStr(escaped)
               key == FieldOf[name]
               items == list.item
               before == s.message[key]
               longer == before \o items
    <1>1. IsValue(escaped)
        BY EscapedIs
    <1>2. list.error = "none" => IsList(items, IsAddressee)
        <2> HIDE DEF escaped
        <2> QED  BY <1>1, ListRead DEF AddressListFromStr
    <1>3. key \in {"to", "cc", "bcc", "replyTo"} /\ key \in MessageKeys
        BY FieldOfIs DEF MessageKeys
    <1> HIDE DEF key, items
    <1>4. DOMAIN s.message = MessageKeys /\ Fits(key, s.message[key])
        BY <1>3, WrittenIs DEF IsParse
    <1>5. IsSeq(before) /\ \A i \in DOMAIN before : IsAddressee(before[i])
        BY <1>3, <1>4 DEF Fits, IsList
    <1> HIDE DEF before
    <1>6. IsList(items, IsAddressee) => Fits(key, longer)
        <2> SUFFICES ASSUME IsList(items, IsAddressee) PROVE Fits(key, longer)
            OBVIOUS
        <2>1. IsSeq(items) /\ \A i \in DOMAIN items : IsAddressee(items[i])
            BY DEF IsList
        <2>2. IsSeq(longer)
            BY <1>5, <2>1, Concat
        <2>3. \A k \in DOMAIN longer : (\E i \in DOMAIN before : longer[k] = before[i]) \/ \E i \in DOMAIN items : longer[k] = items[i]
            BY <1>5, <2>1, ConcatFrom
        <2> HIDE DEF longer
        <2>4. \A k \in DOMAIN longer : IsAddressee(longer[k])
            BY <1>5, <2>1, <2>3
        <2>5. IsList(longer, IsAddressee)
            BY <2>2, <2>4 DEF IsList
        <2> QED  BY <1>3, <2>5 DEF Fits
    <1>7. IsList(items, IsAddressee) => IsParse([s EXCEPT !.message[key] = longer])
        <2> HIDE DEF longer
        <2> QED  BY <1>3, <1>6, MessageSet
    <1>8. [s EXCEPT !.message[key] = @ \o items] = [s EXCEPT !.message[key] = longer]
        BY DEF before
    <1>9. IsParse([s EXCEPT !.error = "AddressHeaderParse"])
        BY ParseMoves
    <1>10. IsList(items, IsAddressee) => IsParse([s EXCEPT !.message[key] = @ \o items])
        BY <1>7, <1>8
    <1> QED  BY <1>2, <1>9, <1>10 DEF key, items

(* A date or a message id is any token. *)
LEMMA TokenFieldParsed ==
    ASSUME NEW s, IsParse(s), NEW key \in {"date", "messageId"}, NEW v
    PROVE  IsParse([s EXCEPT !.message[key] = v])
    <1>1. key \in MessageKeys /\ Fits(key, v)
        BY DEF MessageKeys, Fits
    <1> QED  BY <1>1, MessageSet

(* A header without a field of its own is kept, in its place. *)
LEMMA CustomFieldParsed ==
    ASSUME NEW s, IsParse(s), NEW value, IsValue(value), NEW name
    PROVE  IsParse([s EXCEPT !.message.headers = Append(@, Field(name, value))])
    <1> DEFINE field == Field(name, value)
               before == s.message.headers
               longer == Append(before, field)
    <1>1. field.value = value
        BY DEF Field
    <1> HIDE DEF field
    <1>2. Fits("headers", s.message.headers) /\ "headers" \in MessageKeys
        BY WrittenIs DEF IsParse, MessageKeys
    <1>3. IsSeq(before) /\ \A i \in DOMAIN before : IsValue(before[i].value)
        BY <1>2 DEF Fits
    <1> HIDE DEF before
    <1>4. IsSeq(longer)
        BY <1>3, Appended
    <1>5. \A k \in DOMAIN longer : longer[k] = field \/ \E i \in DOMAIN before : longer[k] = before[i]
        BY <1>3, AppendedFrom
    <1> HIDE DEF longer
    <1>6. \A k \in DOMAIN longer : IsValue(longer[k].value)
        BY <1>1, <1>3, <1>5
    <1>7. Fits("headers", longer)
        BY <1>4, <1>6 DEF Fits
    <1>8. IsParse([s EXCEPT !.message["headers"] = longer])
        BY <1>2, <1>7, MessageSet
    <1>9. [s EXCEPT !.message.headers = Append(@, field)] = [s EXCEPT !.message["headers"] = longer]
        BY DEF longer, before
    <1>10. IsParse([s EXCEPT !.message.headers = Append(@, field)])
        BY <1>8, <1>9
    <1> QED  BY <1>10 DEF field

(* A subject is the text of its decoded words. *)
LEMMA SubjectParsed ==
    ASSUME NEW s, IsParse(s), NEW value, IsValue(value)
    PROVE  IsParse([s EXCEPT !.message.subject = <<AsText(DecodeWords(value))>>])
    <1> DEFINE text == AsText(DecodeWords(value))
    <1>1. IsSeq(text)
        BY DecodedIs
    <1> HIDE DEF text
    <1>2. IsOption(<<text>>, IsSeq)
        BY <1>1, OneIsSeq DEF IsOption
    <1>3. "subject" \in MessageKeys /\ Fits("subject", <<text>>)
        BY <1>2 DEF MessageKeys, Fits
    <1>4. IsParse([s EXCEPT !.message["subject"] = <<text>>])
        BY <1>3, MessageSet
    <1> QED  BY <1>4 DEF text

(* Whatever a field of a wire says, the message read so far stays one that *)
(* Rust's types allow.                                                     *)
LEMMA FieldParsed ==
    ASSUME NEW s, IsParse(s), NEW value, IsValue(value), NEW name
    PROVE  IsParse(ParseField(s, name, value))
    <1> DEFINE c0 == s.error # "none"
               c1 == s.error = "none" /\ name \in {"From", "Sender"}
               c2 == s.error = "none" /\ name \in {"To", "Cc", "Bcc", "Reply-To"}
               c3 == s.error = "none" /\ name = "Subject"
               c4 == s.error = "none" /\ name = "Date"
               c5 == s.error = "none" /\ name = "Message-ID"
               c6 == s.error = "none" /\ name = "Content-Type"
               c7 == s.error = "none" /\ name = "Content-Transfer-Encoding"
               mailbox == MailboxFromStr(EscapeQuotedWords(value))
               list == AddressListFromStr(EscapeQuotedWords(value))
               v1 == IF mailbox.error = "none" THEN [s EXCEPT !.message[FieldOf[name]] = <<mailbox.item>>]
                                              ELSE [s EXCEPT !.error = "MailboxHeaderParse"]
               v2 == IF list.error = "none" THEN [s EXCEPT !.message[FieldOf[name]] = @ \o list.item]
                                            ELSE [s EXCEPT !.error = "AddressHeaderParse"]
               v3 == [s EXCEPT !.message.subject = <<AsText(DecodeWords(value))>>]
               v4 == IF TokenOf(value, "date") = <<>> THEN [s EXCEPT !.error = "Date"]
                     ELSE [s EXCEPT !.message["date"] = TokenOf(value, "date")]
               v5 == IF TokenOf(value, "msg-id") = <<>> THEN [s EXCEPT !.error = "MessageId"]
                     ELSE [s EXCEPT !.message["messageId"] = TokenOf(value, "msg-id")]
               v6 == [s EXCEPT !.type = TypeOf(value)]
               v7 == IF TokenOf(value, "encoding") = <<>> THEN [s EXCEPT !.error = "MimeBodyParse"]
                     ELSE [s EXCEPT !.encoding = TokenOf(value, "encoding")]
               v8 == [s EXCEPT !.message.headers = Append(@, Field(name, value))]
    <1>1. ParseField(s, name, value)
            = CASE c0 -> s [] c1 -> v1 [] c2 -> v2 [] c3 -> v3 [] c4 -> v4 [] c5 -> v5 [] c6 -> v6 [] c7 -> v7 [] OTHER -> v8
        BY DEF ParseField
    <1>2. c1 => IsParse(v1)
        <2> SUFFICES ASSUME c1 PROVE IsParse(v1)
            OBVIOUS
        <2>1. (mailbox.error = "none" => IsParse([s EXCEPT !.message[FieldOf[name]] = <<mailbox.item>>]))
              /\ IsParse([s EXCEPT !.error = "MailboxHeaderParse"])
            BY MailboxFieldParsed
        <2> HIDE DEF mailbox
        <2> QED  BY <2>1
    <1>3. c2 => IsParse(v2)
        <2> SUFFICES ASSUME c2 PROVE IsParse(v2)
            OBVIOUS
        <2>1. (list.error = "none" => IsParse([s EXCEPT !.message[FieldOf[name]] = @ \o list.item]))
              /\ IsParse([s EXCEPT !.error = "AddressHeaderParse"])
            BY ListFieldParsed
        <2> HIDE DEF list
        <2> QED  BY <2>1
    <1>4. IsParse(v3)
        BY SubjectParsed
    <1>5. IsParse(v4) /\ IsParse(v5)
        <2> DEFINE date == TokenOf(value, "date")
                   id == TokenOf(value, "msg-id")
        <2> HIDE DEF date, id
        <2>1. IsParse([s EXCEPT !.message["date"] = date]) /\ IsParse([s EXCEPT !.message["messageId"] = id])
            BY TokenFieldParsed
        <2>2. IsParse([s EXCEPT !.error = "Date"]) /\ IsParse([s EXCEPT !.error = "MessageId"])
            BY ParseMoves
        <2>3. /\ IsParse(IF date = <<>> THEN [s EXCEPT !.error = "Date"] ELSE [s EXCEPT !.message["date"] = date])
              /\ IsParse(IF id = <<>> THEN [s EXCEPT !.error = "MessageId"] ELSE [s EXCEPT !.message["messageId"] = id])
            BY <2>1, <2>2
        <2> QED  BY <2>3 DEF date, id
    <1>6. IsParse(v6) /\ IsParse(v7)
        <2> DEFINE type == TypeOf(value)
                   encoding == TokenOf(value, "encoding")
        <2> HIDE DEF type, encoding
        <2>1. /\ IsParse([s EXCEPT !.type = type]) /\ IsParse([s EXCEPT !.encoding = encoding])
              /\ IsParse([s EXCEPT !.error = "MimeBodyParse"])
            BY ParseMoves
        <2>2. IsParse(IF encoding = <<>> THEN [s EXCEPT !.error = "MimeBodyParse"] ELSE [s EXCEPT !.encoding = encoding])
            BY <2>1
        <2> QED  BY <2>1, <2>2 DEF type, encoding
    <1>7. IsParse(v8)
        BY CustomFieldParsed
    <1> DEFINE r == ParseField(s, name, value)
    <1>8. /\ c0 => ~c1 /\ ~c2 /\ ~c3 /\ ~c4 /\ ~c5 /\ ~c6 /\ ~c7
          /\ c1 => ~c2 /\ ~c3 /\ ~c4 /\ ~c5 /\ ~c6 /\ ~c7
          /\ c2 => ~c3 /\ ~c4 /\ ~c5 /\ ~c6 /\ ~c7
          /\ c3 => ~c4 /\ ~c5 /\ ~c6 /\ ~c7
          /\ c4 => ~c5 /\ ~c6 /\ ~c7
          /\ c5 => ~c6 /\ ~c7
          /\ c6 => ~c7
        OBVIOUS
    <1>9. r = CASE c0 -> s [] c1 -> v1 [] c2 -> v2 [] c3 -> v3 [] c4 -> v4 [] c5 -> v5 [] c6 -> v6 [] c7 -> v7 [] OTHER -> v8
        BY <1>1
    <1> HIDE DEF c0, c1, c2, c3, c4, c5, c6, c7, v1, v2, v3, v4, v5, v6, v7, v8, r
    <1>10. IsParse(r)
        <2>1. r = s \/ (c1 /\ r = v1) \/ (c2 /\ r = v2) \/ r = v3 \/ r = v4 \/ r = v5 \/ r = v6 \/ r = v7 \/ r = v8
            BY <1>8, <1>9
        <2> QED  BY <2>1, <1>2, <1>3, <1>4, <1>5, <1>6, <1>7
    <1> QED  BY <1>10 DEF r

(* So do all fields of a wire together. *)
LEMMA FieldsParsed ==
    ASSUME NEW start, IsParse(start), NEW fields, AreRead(fields)
    PROVE  IsParse(ParseFields(start, fields))
    <1> DEFINE n == Len(fields)
    <1>1. n \in Nat /\ DOMAIN fields = 1..n /\ \A i \in 1..n : IsValue(fields[i].value)
        BY SeqFacts DEF AreRead, IsWireField
    <1>2. PICK f : /\ f[0] = start
                   /\ \A i \in 1..n : f[i] = ParseField(f[i - 1], fields[i].name, fields[i].value)
                   /\ ParseFields(start, fields) = f[n]
        <2>1. Len(fields) \in Nat
            BY <1>1
        <2> DEFINE Reads(f, st, fs) ==
                       /\ f[0] = st
                       /\ \A i \in 1..Len(fs) : f[i] = ParseField(f[i - 1], fs[i].name, fs[i].value)
                       /\ ParseFields(st, fs) = f[Len(fs)]
        <2>2. ASSUME NEW st, NEW fs, Len(fs) \in Nat PROVE \E f : Reads(f, st, fs)
            BY <2>2, FieldsReadSteps
        <2> HIDE DEF Reads
        <2>3. \E f : Reads(f, start, fields)
            BY <2>1, <2>2
        <2> QED  BY <2>3 DEF Reads
    <1> HIDE DEF n
    <1> DEFINE Good == {i \in 0..n : IsParse(f[i])}
    <1>3. 0 \in Good
        BY <1>1, <1>2
    <1>4. \A i \in 1..n : i - 1 \in Good => i \in Good
        <2> SUFFICES ASSUME NEW i \in 1..n, IsParse(f[i - 1]) PROVE i \in 0..n /\ IsParse(f[i])
            OBVIOUS
        <2>1. IsParse(ParseField(f[i - 1], fields[i].name, fields[i].value))
            BY <1>1, FieldParsed
        <2> QED  BY <1>1, <1>2, <2>1
    <1> HIDE DEF Good
    <1>5. n \in Good
        <2>1. 0..n \subseteq Good
            BY <1>1, <1>3, <1>4, BoundedInduction
        <2> QED  BY <1>1, <2>1
    <1>6. IsParse(f[n])
        BY <1>5 DEF Good
    <1> QED  BY <1>2, <1>6

(* Parsing keeps a message well typed: whatever lines a wire has, the      *)
(* message that parse_rfc822 reads from them, and may hand back to         *)
(* render_rfc822, is one that Rust's types allow.                          *)
THEOREM ParsedIsWritten ==
    ASSUME NEW w, IsLines(w.lines), ParseRfc822(w).error = "none"
    PROVE  IsWritten(ParseRfc822(w).message)
    <1> DEFINE lines == ParseHeaderLines(w.lines)
               fields == lines.fields
               start == [error |-> IF lines.ok THEN "none" ELSE "InvalidHeaderLine", message |-> EmptyMessage(NoBody),
                         type |-> <<Type("text/plain")>>, encoding |-> <<"none">>]
               s == ParseFields(start, fields)
               body == ReadBody(w.body, s.type[1], s.encoding[1])
               failed(error) == [error |-> error, message |-> EmptyMessage(NoBody)]
               with == [s.message EXCEPT !.body = body]
               withBody == IF body.kind = "error" THEN failed(body.error)
                           ELSE [error |-> "none", message |-> with]
               c1 == s.error # "none"
               c2 == s.error = "none" /\ s.type = <<>>
               readFields == CASE c1 -> failed(s.error) [] c2 -> failed("MimeBodyParse") [] OTHER -> withBody
               read == IF WireSize(w) > MaxInput THEN failed("MimeBodyParse") ELSE readFields
    <1>1. ParseRfc822(w) = read
        BY DEF ParseRfc822
    <1>2. AreRead(fields)
        BY HeaderLinesAre
    <1>3. IsParse(start)
        <2> DEFINE m == EmptyMessage(NoBody)
                   error == IF lines.ok THEN "none" ELSE "InvalidHeaderLine"
                   type == <<Type("text/plain")>>
                   encoding == <<"none">>
        <2>1. start = [error |-> error, message |-> m, type |-> type, encoding |-> encoding]
            OBVIOUS
        <2>2. IsWritten(m)
            BY EmptyWritten
        <2> HIDE DEF m, error, type, encoding, start
        <2> QED  BY <2>1, <2>2 DEF IsParse
    <1> HIDE DEF start, fields
    <1>4. IsParse(s)
        BY <1>2, <1>3, FieldsParsed
    <1> HIDE DEF s
    <1>5. IsWritten(with)
        <2>1. "body" \in MessageKeys /\ Fits("body", body)
            BY DEF MessageKeys, Fits
        <2>2. IsWritten(s.message)
            BY <1>4 DEF IsParse
        <2> HIDE DEF body
        <2>3. IsWritten([s.message EXCEPT !["body"] = body])
            BY <2>1, <2>2, WrittenSet
        <2> QED  BY <2>3
    <1>6. \A error : IsWritten(failed(error).message)
        BY EmptyWritten
    <1> HIDE DEF body, with
    <1>7. IsWritten(read.message)
        <2>1. withBody.message = with \/ withBody = failed(body.error)
            OBVIOUS
        <2> HIDE DEF withBody
        <2>2. readFields = failed(s.error) \/ readFields = failed("MimeBodyParse") \/ readFields = withBody
            <3>1. c1 => ~c2
                OBVIOUS
            <3> HIDE DEF c1, c2, failed
            <3> QED  BY <3>1
        <2> HIDE DEF readFields
        <2>3. read = failed("MimeBodyParse") \/ read = readFields
            OBVIOUS
        <2> HIDE DEF read, failed
        <2> QED  BY <1>5, <1>6, <2>1, <2>2, <2>3
    <1> QED  BY <1>1, <1>7

-------------------------------------------------------------------------------
(* No line is too long, whatever crosses the wire and however often. *)

(* The inductive invariant: messages and wires are ones that Rust's types  *)
(* allow, and a wire in flight that this crate wrote fits.                 *)
Inv ==
    /\ options \in Options
    /\ IsWritten(message)
    /\ IsLines(wire.lines)
    /\ LinesWithinLimit

(* Where nothing is on the wire there are no lines. *)
LEMMA NoLines == IsLines(NoWire.lines) /\ DOMAIN NoWire.lines = {}
    <1>1. NoWire.lines = <<>>
        BY DEF NoWire, Refused
    <1>2. IsSeq(<<>>) /\ DOMAIN <<>> = {}
        BY EmptyIsSeq
    <1> DEFINE none == <<>>
    <1>3. NoWire.lines = none /\ IsSeq(none) /\ DOMAIN none = {}
        BY <1>1, <1>2
    <1> HIDE DEF none
    <1> QED  BY <1>3 DEF IsLines, IsList

(* The invariant holds before anything crosses the wire ... *)
LEMMA InvInit == Init => Inv
    <1> SUFFICES ASSUME Init PROVE Inv
        OBVIOUS
    <1>1. options \in Options
        BY DEF Init
    <1>2. CASE phase = "message" /\ message \in Messages /\ wire = NoWire
        <2>1. IsWritten(message) /\ IsLines(wire.lines) /\ DOMAIN wire.lines = {}
            BY <1>2, NoLines, WireFieldsAssumption
        <2> QED  BY <1>1, <2>1 DEF Inv, LinesWithinLimit
    <1>3. CASE /\ phase = "wire" /\ message = EmptyMessage(NoBody)
               /\ wire \in {[error |-> "none", lines |-> w.lines, body |-> w.body] : w \in Inbound}
        <2>1. IsWritten(message)
            BY <1>3, EmptyWritten
        <2>2. IsLines(wire.lines)
            <3>1. PICK w \in Inbound : wire = [error |-> "none", lines |-> w.lines, body |-> w.body]
                BY <1>3
            <3>2. wire.lines = w.lines
                BY <3>1
            <3> QED  BY <3>2, WireFieldsAssumption
        <2>3. ~Rendered822
            BY <1>3 DEF Rendered822, EmptyMessage
        <2> QED  BY <1>1, <2>1, <2>2, <2>3 DEF Inv, LinesWithinLimit
    <1> QED  BY <1>2, <1>3 DEF Init

(* ... and rendering and parsing keep it. *)
LEMMA InvStep == Inv /\ [Next]_vars => Inv'
    <1> SUFFICES ASSUME Inv, [Next]_vars PROVE Inv'
        OBVIOUS
    <1> USE DEF Inv
    <1>1. CASE Render
        <2>1. wire' = RenderRfc822(message, options) /\ message' = message /\ options' = options
            BY <1>1 DEF Render
        <2>2. options.soft \in Nat
            BY WireFieldsAssumption
        <2>3. LinesFit(wire'.lines)
            BY <2>1, <2>2, RenderedLinesFit
        <2> DEFINE lines == wire'.lines
        <2>4. IsLines(lines) /\ \A i \in DOMAIN lines : LineFits(lines[i])
            BY <2>3 DEF LinesFit
        <2>5. LinesWithinLimit'
            BY <2>4 DEF LinesWithinLimit, LineFits
        <2> QED  BY <2>1, <2>4, <2>5
    <1>2. CASE Parse
        <2>1. wire' = NoWire /\ options' = options
            BY <1>2 DEF Parse
        <2>2. IsWritten(message')
            <3> DEFINE parsed == ParseRfc822(wire)
            <3>1. message' = IF parsed.error = "none" THEN parsed.message ELSE message
                BY <1>2 DEF Parse
            <3>2. parsed.error = "none" => IsWritten(parsed.message)
                BY ParsedIsWritten
            <3> HIDE DEF parsed
            <3> QED  BY <3>1, <3>2
        <2>3. IsLines(wire'.lines) /\ DOMAIN wire'.lines = {}
            BY <2>1, NoLines
        <2> QED  BY <2>1, <2>2, <2>3 DEF LinesWithinLimit
    <1>3. CASE UNCHANGED vars
        BY <1>3 DEF vars, LinesWithinLimit, Rendered822
    <1> QED  BY <1>1, <1>2, <1>3 DEF Next

(* No physical line that render_rfc822 writes is longer than RFC 5322's    *)
(* hard limit, whatever messages callers render, whatever other programs   *)
(* put on the wire, and however often a message is relayed.                *)
THEOREM LinesWithinLimitHolds == Spec => []LinesWithinLimit
    <1>1. Inv => LinesWithinLimit
        BY DEF Inv
    <1> QED  BY InvInit, InvStep, <1>1, PTL DEF Spec

(* Every message that a caller may see, one it wrote or one that was read  *)
(* from a wire, is one that Rust's types allow.                            *)
THEOREM MessagesWritten == Spec => []IsWritten(message)
    <1>1. Inv => IsWritten(message)
        BY DEF Inv
    <1> QED  BY InvInit, InvStep, <1>1, PTL DEF Spec
===============================================================================
