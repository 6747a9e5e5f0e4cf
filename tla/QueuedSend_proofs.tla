-------------------------- MODULE QueuedSend_proofs --------------------------
(***************************************************************************)
(* What a queued send guarantees for every scenario: the worker reads what *)
(* the caller meant, what is posted is of the published schemas, and       *)
(* nobody a caller names, no field and no report is lost on the way to a   *)
(* provider.  Every variable is what the code makes of the one before it   *)
(* (IInv); the rest is about the functions it is made with.                *)
(***************************************************************************)
EXTENDS JsonSchemas, Messages_proofs

-------------------------------------------------------------------------------
(* Collecting mailboxes. *)

(* Collecting the mailboxes of a list loses nobody (collect_mailboxes,     *)
(* recipient_emails).                                                      *)
LEMMA CollectedEmails ==
    ASSUME NEW list, IsList(list, Shaped)
    PROVE  /\ IsList(CollectMailboxes(list), IsBox) /\ IsList(CollectMailboxes(list), Shaped)
           /\ RecipientEmails(CollectMailboxes(list)) = RecipientEmails(list)
    <1> DEFINE boxes == [i \in DOMAIN list |-> Mailboxes(list[i])]
               emails == [i \in DOMAIN list |-> EmailsOf(list[i])]
               all == UNION {{boxes[i][j] : j \in DOMAIN boxes[i]} : i \in DOMAIN boxes}
               T == {box \in all : IsBox(box)}
               Good == {n \in 0..Len(list) : /\ FlattenSeq(Firsts(boxes, n)) \in Seq(T)
                                             /\ RecipientEmails(FlattenSeq(Firsts(boxes, n))) = FlattenSeq(Firsts(emails, n))}
    <1>1. Len(list) \in Nat /\ DOMAIN list = 1..Len(list)
        BY SeqFacts DEF IsList
    <1>2. IsSeq(boxes) /\ Len(boxes) = Len(list) /\ DOMAIN boxes = 1..Len(list)
        BY <1>1, MakeSeq
    <1>3. \A i \in 1..Len(list) : Shaped(list[i]) /\ boxes[i] = Mailboxes(list[i]) /\ emails[i] = EmailsOf(list[i])
        BY <1>1 DEF IsList
    <1>4. \A i \in 1..Len(list) : IsSeq(boxes[i]) /\ boxes[i] \in Seq(T)
        <2> TAKE i \in 1..Len(list)
        <2>1. IsList(boxes[i], IsBox)
            BY <1>3, BoxesOf
        <2>2. \A j \in DOMAIN boxes[i] : boxes[i][j] \in all
            BY <1>2
        <2> HIDE DEF boxes, all
        <2>3. \A j \in DOMAIN boxes[i] : boxes[i][j] \in T
            BY <2>1, <2>2 DEF IsList
        <2> HIDE DEF T
        <2>4. IsSeq(boxes[i])
            BY <2>1 DEF IsList
        <2> DEFINE b == boxes[i]
        <2>5. IsSeq(b) /\ \A j \in DOMAIN b : b[j] \in T
            BY <2>3, <2>4
        <2> HIDE DEF b
        <2>6. b \in Seq(T)
            BY <2>5, SeqOver
        <2> QED  BY <2>4, <2>6 DEF b
    <1>5. AllSeqs(boxes)
        BY <1>2, <1>4 DEF AllSeqs
    <1>6. AllSeqs(emails) /\ Len(emails) = Len(list) /\ RecipientEmails(list) = FlattenSeq(emails)
        BY EmailLists, EmailsAre
    <1>7. \A box \in T : IsBox(box)
        OBVIOUS
    <1> HIDE DEF boxes, emails, T
    <1>8. ASSUME NEW b \in Seq(T) PROVE IsList(b, IsBox) /\ IsList(b, Shaped)
        <2>1. IsSeq(b) /\ \A i \in DOMAIN b : b[i] \in T
            BY ElementsIrrelevant, LenProperties
        <2> QED  BY <1>7, <2>1 DEF IsList, IsBox, Shaped
    <1>9. 0 \in Good
        <2>1. FlattenSeq(Firsts(boxes, 0)) = <<>> /\ FlattenSeq(Firsts(emails, 0)) = <<>>
            BY <1>5, <1>6, FlattenSteps
        <2>2. <<>> \in Seq(T)
            BY EmptySeq
        <2>3. RecipientEmails(<<>>) = [i \in DOMAIN <<>> |-> <<>>[i].email]
            BY <1>8, <2>2, EmailsOfBoxes
        <2>4. [i \in DOMAIN <<>> |-> <<>>[i].email] = <<>>
            OBVIOUS
        <2>5. 0 \in 0..Len(list)
            BY <1>1
        <2> QED  BY <2>1, <2>2, <2>3, <2>4, <2>5
    <1>10. \A n \in 1..Len(list) : n - 1 \in Good => n \in Good
        <2> TAKE n \in 1..Len(list)
        <2> HAVE n - 1 \in Good
        <2> DEFINE a == FlattenSeq(Firsts(boxes, n - 1))
                   b == boxes[n]
                   e == FlattenSeq(Firsts(emails, n - 1))
                   f == emails[n]
        <2>1. FlattenSeq(Firsts(boxes, n)) = a \o b /\ FlattenSeq(Firsts(emails, n)) = e \o f
            BY <1>2, <1>5, <1>6, FlattenSteps
        <2>2. a \in Seq(T) /\ b \in Seq(T) /\ RecipientEmails(a) = e
            BY <1>4
        <2>3. b = Mailboxes(list[n]) /\ f = EmailsOf(list[n])
            BY <1>3
        <2> HIDE DEF a, b, e, f
        <2>4. RecipientEmails(b) = f
            <3>1. RecipientEmails(b) = [i \in DOMAIN b |-> b[i].email]
                BY <1>8, <2>2, EmailsOfBoxes
            <3> QED  BY <2>3, <3>1 DEF EmailsOf
        <2>5. RecipientEmails(a \o b) = RecipientEmails(a) \o RecipientEmails(b)
            BY <1>8, <2>2, EmailsConcat
        <2>6. a \o b \in Seq(T)
            BY <2>2, ConcatProperties
        <2>7. n \in 0..Len(list)
            BY <1>1
        <2> QED  BY <2>1, <2>2, <2>4, <2>5, <2>6, <2>7
    <1>11. Len(list) \in Good
        <2> HIDE DEF Good
        <2>1. 0..Len(list) \subseteq Good
            BY <1>1, <1>9, <1>10, BoundedInduction
        <2> QED  BY <1>1, <2>1
    <1>12. FlattenSeq(boxes) \in Seq(T) /\ RecipientEmails(FlattenSeq(boxes)) = RecipientEmails(list)
        BY <1>2, <1>5, <1>6, <1>11, FlattenSteps
    <1>13. CollectMailboxes(list) = FlattenSeq(boxes)
        BY DEF CollectMailboxes, boxes
    <1> QED  BY <1>8, <1>12, <1>13

-------------------------------------------------------------------------------
(* Recursive functions: that they exist, and how they go on. *)

(* The option types of a worker, registered one after the other. *)
Registers(f, defaults, types, n) ==
    f = [i \in 0..n |-> IF i = 0 THEN (IF defaults THEN RegisterTransportOptions(NewRegistry).registry ELSE NewRegistry) ELSE Register(f[i - 1], types[i]).registry]

(* The registry has a state for every number of types ... *)
LEMMA RegistersExists ==
    ASSUME NEW defaults, NEW types, NEW n \in Nat
    PROVE  \E f : Registers(f, defaults, types, n)
    <1> DEFINE S == {m \in Nat : \E f : Registers(f, defaults, types, m)}
    <1>1. 0 \in S
        <2> DEFINE f == [i \in 0..0 |-> (IF defaults THEN RegisterTransportOptions(NewRegistry).registry ELSE NewRegistry)]
        <2>1. \A i \in 0..0 : f[i] = IF i = 0 THEN (IF defaults THEN RegisterTransportOptions(NewRegistry).registry ELSE NewRegistry) ELSE Register(f[i - 1], types[i]).registry
            OBVIOUS
        <2>2. f = [i \in 0..0 |-> f[i]]
            OBVIOUS
        <2> HIDE DEF f
        <2>3. Registers(f, defaults, types, 0)
            BY <2>1, <2>2, Zenon DEF Registers
        <2> QED  BY <2>3
    <1>2. \A m \in Nat : m \in S => m + 1 \in S
        <2> TAKE m \in Nat
        <2> HAVE m \in S
        <2>1. PICK f : Registers(f, defaults, types, m)
            OBVIOUS
        <2> DEFINE g == [i \in 0..(m + 1) |-> IF i = 0 THEN (IF defaults THEN RegisterTransportOptions(NewRegistry).registry ELSE NewRegistry) ELSE Register(f[i - 1], types[i]).registry]
        <2>2. \A i \in 0..m : g[i] = f[i]
            <3> TAKE i \in 0..m
            <3>1. f[i] = IF i = 0 THEN (IF defaults THEN RegisterTransportOptions(NewRegistry).registry ELSE NewRegistry) ELSE Register(f[i - 1], types[i]).registry
                BY <2>1 DEF Registers
            <3>2. i \in 0..(m + 1)
                OBVIOUS
            <3> QED  BY <3>1, <3>2
        <2>3. \A i \in 0..(m + 1) : g[i] = IF i = 0 THEN (IF defaults THEN RegisterTransportOptions(NewRegistry).registry ELSE NewRegistry) ELSE Register(g[i - 1], types[i]).registry
            <3> TAKE i \in 0..(m + 1)
            <3>1. i # 0 => i - 1 \in 0..m
                OBVIOUS
            <3>2. i # 0 => g[i - 1] = f[i - 1]
                BY <2>2, <3>1
            <3>3. g[i] = IF i = 0 THEN (IF defaults THEN RegisterTransportOptions(NewRegistry).registry ELSE NewRegistry) ELSE Register(f[i - 1], types[i]).registry
                OBVIOUS
            <3> HIDE DEF g
            <3> QED  BY <3>2, <3>3
        <2>4. g = [i \in 0..(m + 1) |-> g[i]]
            OBVIOUS
        <2> HIDE DEF g
        <2>5. Registers(g, defaults, types, m + 1)
            BY <2>3, <2>4, Zenon DEF Registers
        <2> QED  BY <2>5
    <1> HIDE DEF S
    <1>3. n \in S
        BY <1>1, <1>2, SetInduction
    <1> QED  BY <1>3 DEF S

(* ... and goes from type to type. *)
LEMMA RegistersSteps ==
    ASSUME NEW defaults, NEW types, Len(types) \in Nat
    PROVE  \E f : /\ f[0] = (IF defaults THEN RegisterTransportOptions(NewRegistry).registry ELSE NewRegistry)
                  /\ \A i \in 1..Len(types) : f[i] = Register(f[i - 1], types[i]).registry
                  /\ OptionRegistry(defaults, types) = f[Len(types)]
    <1> DEFINE n == Len(types)
               f == CHOOSE g : Registers(g, defaults, types, n)
    <1>1. OptionRegistry(defaults, types) = f[n]
        BY DEF OptionRegistry, Registers
    <1> HIDE DEF n
    <1>2. n \in Nat
        BY DEF n
    <1>3. Registers(f, defaults, types, n)
        BY <1>2, RegistersExists
    <1> HIDE DEF f
    <1>4. f[0] = (IF defaults THEN RegisterTransportOptions(NewRegistry).registry ELSE NewRegistry) /\ \A i \in 1..n : f[i] = Register(f[i - 1], types[i]).registry
        <2>1. 0 \in 0..n /\ \A i \in 1..n : i \in 0..n /\ i # 0
            BY <1>2
        <2> QED  BY <1>3, <2>1 DEF Registers
    <1> QED  BY <1>1, <1>4 DEF n

(* The options of the providers, hydrated one after the other. *)
Hydrates(f, registry, ignoreUnknown, value, n) ==
    f = [i \in 0..n |-> IF i = 0 THEN <<NoSlots>> ELSE ReadSlot(registry, ignoreUnknown, f[i - 1], value[2][i])]

(* The reader of the slots has a state for every number of fields ... *)
LEMMA HydratesExists ==
    ASSUME NEW registry, NEW ignoreUnknown, NEW value, NEW n \in Nat
    PROVE  \E f : Hydrates(f, registry, ignoreUnknown, value, n)
    <1> DEFINE S == {m \in Nat : \E f : Hydrates(f, registry, ignoreUnknown, value, m)}
    <1>1. 0 \in S
        <2> DEFINE f == [i \in 0..0 |-> <<NoSlots>>]
        <2>1. \A i \in 0..0 : f[i] = IF i = 0 THEN <<NoSlots>> ELSE ReadSlot(registry, ignoreUnknown, f[i - 1], value[2][i])
            OBVIOUS
        <2>2. f = [i \in 0..0 |-> f[i]]
            OBVIOUS
        <2> HIDE DEF f
        <2>3. Hydrates(f, registry, ignoreUnknown, value, 0)
            BY <2>1, <2>2, Zenon DEF Hydrates
        <2> QED  BY <2>3
    <1>2. \A m \in Nat : m \in S => m + 1 \in S
        <2> TAKE m \in Nat
        <2> HAVE m \in S
        <2>1. PICK f : Hydrates(f, registry, ignoreUnknown, value, m)
            OBVIOUS
        <2> DEFINE g == [i \in 0..(m + 1) |-> IF i = 0 THEN <<NoSlots>> ELSE ReadSlot(registry, ignoreUnknown, f[i - 1], value[2][i])]
        <2>2. \A i \in 0..m : g[i] = f[i]
            <3> TAKE i \in 0..m
            <3>1. f[i] = IF i = 0 THEN <<NoSlots>> ELSE ReadSlot(registry, ignoreUnknown, f[i - 1], value[2][i])
                BY <2>1 DEF Hydrates
            <3>2. i \in 0..(m + 1)
                OBVIOUS
            <3> QED  BY <3>1, <3>2
        <2>3. \A i \in 0..(m + 1) : g[i] = IF i = 0 THEN <<NoSlots>> ELSE ReadSlot(registry, ignoreUnknown, g[i - 1], value[2][i])
            <3> TAKE i \in 0..(m + 1)
            <3>1. i # 0 => i - 1 \in 0..m
                OBVIOUS
            <3>2. i # 0 => g[i - 1] = f[i - 1]
                BY <2>2, <3>1
            <3>3. g[i] = IF i = 0 THEN <<NoSlots>> ELSE ReadSlot(registry, ignoreUnknown, f[i - 1], value[2][i])
                OBVIOUS
            <3> HIDE DEF g
            <3> QED  BY <3>2, <3>3
        <2>4. g = [i \in 0..(m + 1) |-> g[i]]
            OBVIOUS
        <2> HIDE DEF g
        <2>5. Hydrates(g, registry, ignoreUnknown, value, m + 1)
            BY <2>3, <2>4, Zenon DEF Hydrates
        <2> QED  BY <2>5
    <1> HIDE DEF S
    <1>3. n \in S
        BY <1>1, <1>2, SetInduction
    <1> QED  BY <1>3 DEF S

(* ... and goes from field to field. *)
LEMMA HydratesSteps ==
    ASSUME NEW registry, NEW ignoreUnknown, NEW value, Len(value[2]) \in Nat
    PROVE  \E f : /\ f[0] = <<NoSlots>>
                  /\ \A i \in 1..Len(value[2]) : f[i] = ReadSlot(registry, ignoreUnknown, f[i - 1], value[2][i])
                  /\ ReadTransportOptions(registry, ignoreUnknown, value) = IF Is("obj", value) THEN f[Len(value[2])] ELSE <<>>
    <1> DEFINE n == Len(value[2])
               f == CHOOSE g : Hydrates(g, registry, ignoreUnknown, value, n)
    <1>1. ReadTransportOptions(registry, ignoreUnknown, value) = IF Is("obj", value) THEN f[n] ELSE <<>>
        BY DEF ReadTransportOptions, Hydrates
    <1> HIDE DEF n
    <1>2. n \in Nat
        BY DEF n
    <1>3. Hydrates(f, registry, ignoreUnknown, value, n)
        BY <1>2, HydratesExists
    <1> HIDE DEF f
    <1>4. f[0] = <<NoSlots>> /\ \A i \in 1..n : f[i] = ReadSlot(registry, ignoreUnknown, f[i - 1], value[2][i])
        <2>1. 0 \in 0..n /\ \A i \in 1..n : i \in 0..n /\ i # 0
            BY <1>2
        <2> QED  BY <1>3, <2>1 DEF Hydrates
    <1> QED  BY <1>1, <1>4 DEF n

(* The fields of the options. *)
ControlsRead(f, registry, ignoreUnknown, value, n) ==
    f = [i \in 0..n |-> IF i = 0 THEN <<NoSendOptions>> ELSE ReadControl(registry, ignoreUnknown, f[i - 1], value[2][i])]

(* The reader of the controls has a state for every number of fields ... *)
LEMMA ControlsReadExists ==
    ASSUME NEW registry, NEW ignoreUnknown, NEW value, NEW n \in Nat
    PROVE  \E f : ControlsRead(f, registry, ignoreUnknown, value, n)
    <1> DEFINE S == {m \in Nat : \E f : ControlsRead(f, registry, ignoreUnknown, value, m)}
    <1>1. 0 \in S
        <2> DEFINE f == [i \in 0..0 |-> <<NoSendOptions>>]
        <2>1. \A i \in 0..0 : f[i] = IF i = 0 THEN <<NoSendOptions>> ELSE ReadControl(registry, ignoreUnknown, f[i - 1], value[2][i])
            OBVIOUS
        <2>2. f = [i \in 0..0 |-> f[i]]
            OBVIOUS
        <2> HIDE DEF f
        <2>3. ControlsRead(f, registry, ignoreUnknown, value, 0)
            BY <2>1, <2>2, Zenon DEF ControlsRead
        <2> QED  BY <2>3
    <1>2. \A m \in Nat : m \in S => m + 1 \in S
        <2> TAKE m \in Nat
        <2> HAVE m \in S
        <2>1. PICK f : ControlsRead(f, registry, ignoreUnknown, value, m)
            OBVIOUS
        <2> DEFINE g == [i \in 0..(m + 1) |-> IF i = 0 THEN <<NoSendOptions>> ELSE ReadControl(registry, ignoreUnknown, f[i - 1], value[2][i])]
        <2>2. \A i \in 0..m : g[i] = f[i]
            <3> TAKE i \in 0..m
            <3>1. f[i] = IF i = 0 THEN <<NoSendOptions>> ELSE ReadControl(registry, ignoreUnknown, f[i - 1], value[2][i])
                BY <2>1 DEF ControlsRead
            <3>2. i \in 0..(m + 1)
                OBVIOUS
            <3> QED  BY <3>1, <3>2
        <2>3. \A i \in 0..(m + 1) : g[i] = IF i = 0 THEN <<NoSendOptions>> ELSE ReadControl(registry, ignoreUnknown, g[i - 1], value[2][i])
            <3> TAKE i \in 0..(m + 1)
            <3>1. i # 0 => i - 1 \in 0..m
                OBVIOUS
            <3>2. i # 0 => g[i - 1] = f[i - 1]
                BY <2>2, <3>1
            <3>3. g[i] = IF i = 0 THEN <<NoSendOptions>> ELSE ReadControl(registry, ignoreUnknown, f[i - 1], value[2][i])
                OBVIOUS
            <3> HIDE DEF g
            <3> QED  BY <3>2, <3>3
        <2>4. g = [i \in 0..(m + 1) |-> g[i]]
            OBVIOUS
        <2> HIDE DEF g
        <2>5. ControlsRead(g, registry, ignoreUnknown, value, m + 1)
            BY <2>3, <2>4, Zenon DEF ControlsRead
        <2> QED  BY <2>5
    <1> HIDE DEF S
    <1>3. n \in S
        BY <1>1, <1>2, SetInduction
    <1> QED  BY <1>3 DEF S

(* ... and goes from field to field. *)
LEMMA ControlsReadSteps ==
    ASSUME NEW registry, NEW ignoreUnknown, NEW value, Len(value[2]) \in Nat
    PROVE  \E f : /\ f[0] = <<NoSendOptions>>
                  /\ \A i \in 1..Len(value[2]) : f[i] = ReadControl(registry, ignoreUnknown, f[i - 1], value[2][i])
                  /\ ReadSendOptions(registry, ignoreUnknown, value) = IF Is("obj", value) THEN f[Len(value[2])] ELSE <<>>
    <1> DEFINE n == Len(value[2])
               f == CHOOSE g : ControlsRead(g, registry, ignoreUnknown, value, n)
    <1>1. ReadSendOptions(registry, ignoreUnknown, value) = IF Is("obj", value) THEN f[n] ELSE <<>>
        BY DEF ReadSendOptions, ControlsRead
    <1> HIDE DEF n
    <1>2. n \in Nat
        BY DEF n
    <1>3. ControlsRead(f, registry, ignoreUnknown, value, n)
        BY <1>2, ControlsReadExists
    <1> HIDE DEF f
    <1>4. f[0] = <<NoSendOptions>> /\ \A i \in 1..n : f[i] = ReadControl(registry, ignoreUnknown, f[i - 1], value[2][i])
        <2>1. 0 \in 0..n /\ \A i \in 1..n : i \in 0..n /\ i # 0
            BY <1>2
        <2> QED  BY <1>3, <2>1 DEF ControlsRead
    <1> QED  BY <1>1, <1>4 DEF n

(* Custom headers, name by name. *)
HeadersFolded(f, headers, n) ==
    f = [i \in 0..n |-> IF i = 0 THEN NoHeaders ELSE Insert(f[i - 1], Spelled(f[i - 1], headers[i].name), headers[i].value)]

(* The folding of header names has a state for every number of headers ... *)
LEMMA HeadersFoldedExists ==
    ASSUME NEW headers, NEW n \in Nat
    PROVE  \E f : HeadersFolded(f, headers, n)
    <1> DEFINE S == {m \in Nat : \E f : HeadersFolded(f, headers, m)}
    <1>1. 0 \in S
        <2> DEFINE f == [i \in 0..0 |-> NoHeaders]
        <2>1. \A i \in 0..0 : f[i] = IF i = 0 THEN NoHeaders ELSE Insert(f[i - 1], Spelled(f[i - 1], headers[i].name), headers[i].value)
            OBVIOUS
        <2>2. f = [i \in 0..0 |-> f[i]]
            OBVIOUS
        <2> HIDE DEF f
        <2>3. HeadersFolded(f, headers, 0)
            BY <2>1, <2>2, Zenon DEF HeadersFolded
        <2> QED  BY <2>3
    <1>2. \A m \in Nat : m \in S => m + 1 \in S
        <2> TAKE m \in Nat
        <2> HAVE m \in S
        <2>1. PICK f : HeadersFolded(f, headers, m)
            OBVIOUS
        <2> DEFINE g == [i \in 0..(m + 1) |-> IF i = 0 THEN NoHeaders ELSE Insert(f[i - 1], Spelled(f[i - 1], headers[i].name), headers[i].value)]
        <2>2. \A i \in 0..m : g[i] = f[i]
            <3> TAKE i \in 0..m
            <3>1. f[i] = IF i = 0 THEN NoHeaders ELSE Insert(f[i - 1], Spelled(f[i - 1], headers[i].name), headers[i].value)
                BY <2>1 DEF HeadersFolded
            <3>2. i \in 0..(m + 1)
                OBVIOUS
            <3> QED  BY <3>1, <3>2
        <2>3. \A i \in 0..(m + 1) : g[i] = IF i = 0 THEN NoHeaders ELSE Insert(g[i - 1], Spelled(g[i - 1], headers[i].name), headers[i].value)
            <3> TAKE i \in 0..(m + 1)
            <3>1. i # 0 => i - 1 \in 0..m
                OBVIOUS
            <3>2. i # 0 => g[i - 1] = f[i - 1]
                BY <2>2, <3>1
            <3>3. g[i] = IF i = 0 THEN NoHeaders ELSE Insert(f[i - 1], Spelled(f[i - 1], headers[i].name), headers[i].value)
                OBVIOUS
            <3> HIDE DEF g
            <3> QED  BY <3>2, <3>3
        <2>4. g = [i \in 0..(m + 1) |-> g[i]]
            OBVIOUS
        <2> HIDE DEF g
        <2>5. HeadersFolded(g, headers, m + 1)
            BY <2>3, <2>4, Zenon DEF HeadersFolded
        <2> QED  BY <2>5
    <1> HIDE DEF S
    <1>3. n \in S
        BY <1>1, <1>2, SetInduction
    <1> QED  BY <1>3 DEF S

(* ... and goes from header to header. *)
LEMMA HeadersFoldedSteps ==
    ASSUME NEW headers, Len(headers) \in Nat
    PROVE  \E f : /\ f[0] = NoHeaders
                  /\ \A i \in 1..Len(headers) : f[i] = Insert(f[i - 1], Spelled(f[i - 1], headers[i].name), headers[i].value)
                  /\ FoldHeaders(headers) = f[Len(headers)]
    <1> DEFINE n == Len(headers)
               f == CHOOSE g : HeadersFolded(g, headers, n)
    <1>1. FoldHeaders(headers) = f[n]
        BY DEF FoldHeaders, HeadersFolded
    <1> HIDE DEF n
    <1>2. n \in Nat
        BY DEF n
    <1>3. HeadersFolded(f, headers, n)
        BY <1>2, HeadersFoldedExists
    <1> HIDE DEF f
    <1>4. f[0] = NoHeaders /\ \A i \in 1..n : f[i] = Insert(f[i - 1], Spelled(f[i - 1], headers[i].name), headers[i].value)
        <2>1. 0 \in 0..n /\ \A i \in 1..n : i \in 0..n /\ i # 0
            BY <1>2
        <2> QED  BY <1>3, <2>1 DEF HeadersFolded
    <1> QED  BY <1>1, <1>4 DEF n

(* The slots of a caller, written one after the other. *)
SlotsWritten(f, slots, n) ==
    f = [i \in 0..n |-> IF i = 0 THEN <<(<<>>)>> ELSE WriteSlot(f[i - 1], slots, SetToSeq(DOMAIN slots)[i])]

(* The writer of the slots has a state for every number of slots ... *)
LEMMA SlotsWrittenExists ==
    ASSUME NEW slots, NEW n \in Nat
    PROVE  \E f : SlotsWritten(f, slots, n)
    <1> DEFINE S == {m \in Nat : \E f : SlotsWritten(f, slots, m)}
    <1>1. 0 \in S
        <2> DEFINE f == [i \in 0..0 |-> <<(<<>>)>>]
        <2>1. \A i \in 0..0 : f[i] = IF i = 0 THEN <<(<<>>)>> ELSE WriteSlot(f[i - 1], slots, SetToSeq(DOMAIN slots)[i])
            OBVIOUS
        <2>2. f = [i \in 0..0 |-> f[i]]
            OBVIOUS
        <2> HIDE DEF f
        <2>3. SlotsWritten(f, slots, 0)
            BY <2>1, <2>2, Zenon DEF SlotsWritten
        <2> QED  BY <2>3
    <1>2. \A m \in Nat : m \in S => m + 1 \in S
        <2> TAKE m \in Nat
        <2> HAVE m \in S
        <2>1. PICK f : SlotsWritten(f, slots, m)
            OBVIOUS
        <2> DEFINE g == [i \in 0..(m + 1) |-> IF i = 0 THEN <<(<<>>)>> ELSE WriteSlot(f[i - 1], slots, SetToSeq(DOMAIN slots)[i])]
        <2>2. \A i \in 0..m : g[i] = f[i]
            <3> TAKE i \in 0..m
            <3>1. f[i] = IF i = 0 THEN <<(<<>>)>> ELSE WriteSlot(f[i - 1], slots, SetToSeq(DOMAIN slots)[i])
                BY <2>1 DEF SlotsWritten
            <3>2. i \in 0..(m + 1)
                OBVIOUS
            <3> QED  BY <3>1, <3>2
        <2>3. \A i \in 0..(m + 1) : g[i] = IF i = 0 THEN <<(<<>>)>> ELSE WriteSlot(g[i - 1], slots, SetToSeq(DOMAIN slots)[i])
            <3> TAKE i \in 0..(m + 1)
            <3>1. i # 0 => i - 1 \in 0..m
                OBVIOUS
            <3>2. i # 0 => g[i - 1] = f[i - 1]
                BY <2>2, <3>1
            <3>3. g[i] = IF i = 0 THEN <<(<<>>)>> ELSE WriteSlot(f[i - 1], slots, SetToSeq(DOMAIN slots)[i])
                OBVIOUS
            <3> HIDE DEF g
            <3> QED  BY <3>2, <3>3
        <2>4. g = [i \in 0..(m + 1) |-> g[i]]
            OBVIOUS
        <2> HIDE DEF g
        <2>5. SlotsWritten(g, slots, m + 1)
            BY <2>3, <2>4, Zenon DEF SlotsWritten
        <2> QED  BY <2>5
    <1> HIDE DEF S
    <1>3. n \in S
        BY <1>1, <1>2, SetInduction
    <1> QED  BY <1>3 DEF S

(* ... and goes from slot to slot. *)
LEMMA SlotsWrittenSteps ==
    ASSUME NEW slots, Len(SetToSeq(DOMAIN slots)) \in Nat
    PROVE  \E f : /\ f[0] = <<(<<>>)>>
                  /\ \A i \in 1..Len(SetToSeq(DOMAIN slots)) : f[i] = WriteSlot(f[i - 1], slots, SetToSeq(DOMAIN slots)[i])
                  /\ WriteTransportOptions(slots) = Map(f[Len(SetToSeq(DOMAIN slots))], Obj)
    <1> DEFINE n == Len(SetToSeq(DOMAIN slots))
               f == CHOOSE g : SlotsWritten(g, slots, n)
    <1>1. WriteTransportOptions(slots) = Map(f[n], Obj)
        BY DEF WriteTransportOptions, SlotsWritten
    <1> HIDE DEF n
    <1>2. n \in Nat
        BY DEF n
    <1>3. SlotsWritten(f, slots, n)
        BY <1>2, SlotsWrittenExists
    <1> HIDE DEF f
    <1>4. f[0] = <<(<<>>)>> /\ \A i \in 1..n : f[i] = WriteSlot(f[i - 1], slots, SetToSeq(DOMAIN slots)[i])
        <2>1. 0 \in 0..n /\ \A i \in 1..n : i \in 0..n /\ i # 0
            BY <1>2
        <2> QED  BY <1>3, <2>1 DEF SlotsWritten
    <1> QED  BY <1>1, <1>4 DEF n

(* The headers of a message for Resend. *)
HeadersCollected(f, message, n) ==
    f = [i \in 0..n |-> IF i = 0 THEN NoHeaders ELSE Insert(f[i - 1], (StandardMessageHeaders(message) \o message.headers)[i].name, (StandardMessageHeaders(message) \o message.headers)[i].value)]

(* The collection of headers has a state for every number of them ... *)
LEMMA HeadersCollectedExists ==
    ASSUME NEW message, NEW n \in Nat
    PROVE  \E f : HeadersCollected(f, message, n)
    <1> DEFINE S == {m \in Nat : \E f : HeadersCollected(f, message, m)}
    <1>1. 0 \in S
        <2> DEFINE f == [i \in 0..0 |-> NoHeaders]
        <2>1. \A i \in 0..0 : f[i] = IF i = 0 THEN NoHeaders ELSE Insert(f[i - 1], (StandardMessageHeaders(message) \o message.headers)[i].name, (StandardMessageHeaders(message) \o message.headers)[i].value)
            OBVIOUS
        <2>2. f = [i \in 0..0 |-> f[i]]
            OBVIOUS
        <2> HIDE DEF f
        <2>3. HeadersCollected(f, message, 0)
            BY <2>1, <2>2, Zenon DEF HeadersCollected
        <2> QED  BY <2>3
    <1>2. \A m \in Nat : m \in S => m + 1 \in S
        <2> TAKE m \in Nat
        <2> HAVE m \in S
        <2>1. PICK f : HeadersCollected(f, message, m)
            OBVIOUS
        <2> DEFINE g == [i \in 0..(m + 1) |-> IF i = 0 THEN NoHeaders ELSE Insert(f[i - 1], (StandardMessageHeaders(message) \o message.headers)[i].name, (StandardMessageHeaders(message) \o message.headers)[i].value)]
        <2>2. \A i \in 0..m : g[i] = f[i]
            <3> TAKE i \in 0..m
            <3>1. f[i] = IF i = 0 THEN NoHeaders ELSE Insert(f[i - 1], (StandardMessageHeaders(message) \o message.headers)[i].name, (StandardMessageHeaders(message) \o message.headers)[i].value)
                BY <2>1 DEF HeadersCollected
            <3>2. i \in 0..(m + 1)
                OBVIOUS
            <3> QED  BY <3>1, <3>2
        <2>3. \A i \in 0..(m + 1) : g[i] = IF i = 0 THEN NoHeaders ELSE Insert(g[i - 1], (StandardMessageHeaders(message) \o message.headers)[i].name, (StandardMessageHeaders(message) \o message.headers)[i].value)
            <3> TAKE i \in 0..(m + 1)
            <3>1. i # 0 => i - 1 \in 0..m
                OBVIOUS
            <3>2. i # 0 => g[i - 1] = f[i - 1]
                BY <2>2, <3>1
            <3>3. g[i] = IF i = 0 THEN NoHeaders ELSE Insert(f[i - 1], (StandardMessageHeaders(message) \o message.headers)[i].name, (StandardMessageHeaders(message) \o message.headers)[i].value)
                OBVIOUS
            <3> HIDE DEF g
            <3> QED  BY <3>2, <3>3
        <2>4. g = [i \in 0..(m + 1) |-> g[i]]
            OBVIOUS
        <2> HIDE DEF g
        <2>5. HeadersCollected(g, message, m + 1)
            BY <2>3, <2>4, Zenon DEF HeadersCollected
        <2> QED  BY <2>5
    <1> HIDE DEF S
    <1>3. n \in S
        BY <1>1, <1>2, SetInduction
    <1> QED  BY <1>3 DEF S

(* ... and goes from header to header. *)
LEMMA HeadersCollectedSteps ==
    ASSUME NEW message, Len(StandardMessageHeaders(message) \o message.headers) \in Nat
    PROVE  \E f : /\ f[0] = NoHeaders
                  /\ \A i \in 1..Len(StandardMessageHeaders(message) \o message.headers) : f[i] = Insert(f[i - 1], (StandardMessageHeaders(message) \o message.headers)[i].name, (StandardMessageHeaders(message) \o message.headers)[i].value)
                  /\ CollectHeaders(message) = f[Len(StandardMessageHeaders(message) \o message.headers)]
    <1> DEFINE n == Len(StandardMessageHeaders(message) \o message.headers)
               f == CHOOSE g : HeadersCollected(g, message, n)
    <1>1. CollectHeaders(message) = f[n]
        BY DEF CollectHeaders, HeadersCollected
    <1> HIDE DEF n
    <1>2. n \in Nat
        BY DEF n
    <1>3. HeadersCollected(f, message, n)
        BY <1>2, HeadersCollectedExists
    <1> HIDE DEF f
    <1>4. f[0] = NoHeaders /\ \A i \in 1..n : f[i] = Insert(f[i - 1], (StandardMessageHeaders(message) \o message.headers)[i].name, (StandardMessageHeaders(message) \o message.headers)[i].value)
        <2>1. 0 \in 0..n /\ \A i \in 1..n : i \in 0..n /\ i # 0
            BY <1>2
        <2> QED  BY <1>3, <2>1 DEF HeadersCollected
    <1> QED  BY <1>1, <1>4 DEF n

-------------------------------------------------------------------------------
(* Functions that grow key by key. *)

(* What is inserted is found under its key, and all else as it was. *)
LEMMA Inserted ==
    ASSUME NEW f, NEW k, NEW v
    PROVE  /\ DOMAIN Insert(f, k, v) = DOMAIN f \cup {k} /\ Insert(f, k, v)[k] = v
           /\ \A j \in DOMAIN f : j # k => Insert(f, k, v)[j] = f[j]
           /\ Insert(f, k, v) = [j \in DOMAIN f \cup {k} |-> Insert(f, k, v)[j]]
    BY DEF Insert

-------------------------------------------------------------------------------
(* The options of a provider come back from what is written of them. *)

(* The same for the options of a provider. *)
LEMMA OptionImages ==
    ASSUME NEW option, AnOption(option)
    PROVE  /\ (option # <<>> => 1 \in DOMAIN option)
           /\ Image(option, Map(option, WriteDuration)) /\ (option # <<>> => Map(option, WriteDuration)[1] = WriteDuration(option[1]))
           /\ Image(option, Map(option, WriteTemplate)) /\ (option # <<>> => Map(option, WriteTemplate)[1] = WriteTemplate(option[1]))
    <1>1. option # <<>> => 1 \in DOMAIN option
        BY OptionImage
    <1>2. Image(option, Map(option, WriteDuration)) /\ (option # <<>> => Map(option, WriteDuration)[1] = WriteDuration(option[1]))
        <2> DEFINE image == Map(option, WriteDuration)
        <2>1. image = [i \in DOMAIN option |-> image[i]] /\ (option # <<>> => image[1] = WriteDuration(option[1]))
            BY <1>1 DEF Map
        <2> HIDE DEF image
        <2>2. Image(option, image)
            BY <2>1, OptionImage DEF Image
        <2> QED  BY <2>1, <2>2 DEF image
    <1>3. Image(option, Map(option, WriteTemplate)) /\ (option # <<>> => Map(option, WriteTemplate)[1] = WriteTemplate(option[1]))
        <2> DEFINE image == Map(option, WriteTemplate)
        <2>1. image = [i \in DOMAIN option |-> image[i]] /\ (option # <<>> => image[1] = WriteTemplate(option[1]))
            BY <1>1 DEF Map
        <2> HIDE DEF image
        <2>2. Image(option, image)
            BY <2>1, OptionImage DEF Image
        <2> QED  BY <2>1, <2>2 DEF image
    <1> QED  BY <1>1, <1>2, <1>3

(* A duration that is written is read back. *)
LEMMA DurationBack ==
    ASSUME NEW d, IsDuration(d)
    PROVE  ReadDuration(WriteDuration(d)) = <<d>> /\ WriteDuration(d) # Null /\ IsObject(WriteDuration(d))
    <1> DEFINE secs == <<"num", d.secs>>
               nanos == <<"num", d.nanos>>
               o == WriteDuration(d)
    <1>1. ReadNumber(secs) = <<d.secs>> /\ ReadNumber(nanos) = <<d.nanos>>
        BY DEF ReadNumber, Is
    <1>2. o = Object(<<(<<"secs", <<secs>>>>), <<"nanos", <<nanos>>>>>>)
        BY DEF WriteDuration, Always
    <1> HIDE DEF secs, nanos, o
    <1>3. IsObject(o) /\ Has(o, "secs", <<secs>>) /\ Has(o, "nanos", <<nanos>>)
        <2>1. AnOption(<<secs>>) /\ AnOption(<<nanos>>)
            BY DEF AnOption
        <2> QED  BY <1>2, <2>1, ObjectOf2
    <1>4. Required(o, "secs", ReadNumber) = <<d.secs>> /\ Required(o, "nanos", ReadNumber) = <<d.nanos>>
        BY <1>1, <1>3 DEF Required, Has
    <1>5. ReadDuration(o) = <<[secs |-> d.secs, nanos |-> d.nanos]>>
        BY <1>3, <1>4 DEF ReadDuration, IsObject, All
    <1>6. o # Null
        BY <1>3 DEF IsObject, Is, Null
    <1> QED  BY <1>3, <1>5, <1>6 DEF IsDuration, o

(* A tag that is written is read back.                                     *)
LEMMA TagBack ==
    ASSUME NEW tag, IsTag(tag)
    PROVE  ReadTag(WriteTag(tag)) = <<tag>>
    <1> DEFINE o == WriteTag(tag)
    <1>1. o = Object(<<(<<"name", <<Word(tag.name)>>>>), <<"value", <<Word(tag.value)>>>>>>)
        BY DEF WriteTag, Always
    <1> HIDE DEF o
    <1>2. IsObject(o) /\ Has(o, "name", <<Word(tag.name)>>) /\ Has(o, "value", <<Word(tag.value)>>)
        <2>1. AnOption(<<Word(tag.name)>>) /\ AnOption(<<Word(tag.value)>>)
            BY DEF AnOption
        <2> QED  BY <1>1, <2>1, ObjectOf2
    <1>3. Required(o, "name", ReadWord) = <<tag.name>> /\ Required(o, "value", ReadWord) = <<tag.value>>
        BY <1>2, WordBack DEF Required, Has, IsTag
    <1>4. ReadTag(o) = <<[name |-> tag.name, value |-> tag.value]>>
        BY <1>2, <1>3 DEF ReadTag, IsObject, All
    <1> QED  BY <1>4 DEF IsTag, o

(* Tags. *)
LEMMA TagsBack ==
    ASSUME NEW items, IsList(items, IsTag)
    PROVE  LET option == IfMany(items, WriteTag)
           IN  /\ AnOption(option) /\ (items = <<>> <=> option = <<>>)
               /\ items # <<>> => ReadMany(option[1], ReadTag) = <<items>>
               /\ ReadMany(Many(items, WriteTag), ReadTag) = <<items>>
    <1> DEFINE many == Many(items, WriteTag)
               list == many[2]
    <1>1. many[1] = "arr" /\ list = [i \in DOMAIN items |-> WriteTag(items[i])]
        BY DEF Many, Arr
    <1>2. \A i \in DOMAIN items : ReadTag(WriteTag(items[i])) = <<items[i]>>
        BY TagBack DEF IsList
    <1> HIDE DEF many
    <1>3. [i \in DOMAIN list |-> ReadTag(list[i])] = [i \in DOMAIN items |-> <<items[i]>>]
        BY <1>1, <1>2
    <1>4. All([i \in DOMAIN items |-> <<items[i]>>]) = <<items>>
        BY AllOf DEF IsList
    <1>5. ReadMany(many, ReadTag) = <<items>>
        BY <1>1, <1>3, <1>4 DEF ReadMany, Is
    <1>6. IfMany(items, WriteTag) = IF items = <<>> THEN <<>> ELSE <<many>>
        BY DEF IfMany, many
    <1>7. many = Many(items, WriteTag)
        BY DEF many
    <1> QED  BY <1>5, <1>6, <1>7 DEF AnOption

(* A template that is written is read back.                                *)
LEMMA TemplateBack ==
    ASSUME NEW t, IsTemplate(t)
    PROVE  ReadTemplate(WriteTemplate(t)) = <<t>> /\ WriteTemplate(t) # Null
    <1> DEFINE o == WriteTemplate(t)
               Read(v) == IF Is("obj", v) THEN <<v>> ELSE <<>>
    <1>1. o = Object(<<(<<"id", <<Word(t.id)>>>>), <<"variables", t.variables>>>>)
        BY DEF WriteTemplate, Always
    <1>2. /\ AnOption(t.variables)
          /\ t.variables # <<>> => t.variables = <<t.variables[1]>> /\ Is("obj", t.variables[1])
        BY DEF IsTemplate, IsOption, AnOption
    <1> HIDE DEF o
    <1>3. IsObject(o) /\ Has(o, "id", <<Word(t.id)>>) /\ Has(o, "variables", t.variables)
        <2>1. AnOption(<<Word(t.id)>>)
            BY DEF AnOption
        <2> QED  BY <1>1, <1>2, <2>1, ObjectOf2
    <1>4. Required(o, "id", ReadWord) = <<t.id>>
        BY <1>3, WordBack DEF Required, Has, IsTemplate
    <1>5. Optional(o, "variables", Read) = <<t.variables>>
        <2>1. CASE t.variables = <<>>
            BY <1>3, <2>1 DEF Optional, OrDefault, Has
        <2>2. CASE t.variables # <<>>
            <3>1. Read(t.variables[1]) = t.variables /\ t.variables[1] # Null
                BY <1>2, <2>2 DEF Is, Null
            <3>2. Found(o, "variables") # {} /\ Once(o, "variables") /\ Value(o, "variables") = t.variables[1]
                BY <1>3, <2>2 DEF Has
            <3> HIDE DEF Read
            <3> QED  BY <1>2, <2>2, <3>1, <3>2, Wrapped DEF Optional, OrDefault, Required, Map
        <2> QED  BY <2>1, <2>2
    <1>6. ReadTemplate(o) = <<[id |-> t.id, variables |-> t.variables]>>
        <2> DEFINE raw == [id |-> Required(o, "id", ReadWord), variables |-> Optional(o, "variables", Read)]
        <2>1. ReadTemplate(o) = All(raw)
            BY <1>3 DEF ReadTemplate, IsObject
        <2>2. DOMAIN raw = {"id", "variables"} /\ raw.id = <<t.id>> /\ raw.variables = <<t.variables>>
            BY <1>4, <1>5
        <2> HIDE DEF raw, Read
        <2> QED  BY <2>1, <2>2 DEF All
    <1>7. o # Null
        BY <1>3 DEF IsObject, Is, Null
    <1> QED  BY <1>6, <1>7 DEF IsTemplate, o

(* Options of Resend, of Restate and of the application. *)
LEMMA OptionBack ==
    ASSUME NEW type, NEW o, IsOptionOf(type, o)
    PROVE  ReadOption(type, WriteOption(type, o)) = <<o>>
    <1> DEFINE v == WriteOption(type, o)
    <1>1. CASE type = "ResendSendOptions"
        <2> DEFINE tags == IfMany(o.tags, WriteTag)
                   template == Map(o.template, WriteTemplate)
        <2>1. o = [tags |-> o.tags, template |-> o.template] /\ IsList(o.tags, IsTag) /\ IsOption(o.template, IsTemplate)
            BY <1>1 DEF IsOptionOf
        <2>2. /\ AnOption(tags) /\ (o.tags = <<>> <=> tags = <<>>)
              /\ o.tags # <<>> => ReadMany(tags[1], ReadTag) = <<o.tags>>
            BY <2>1, TagsBack
        <2>3. AnOption(o.template) /\ (o.template # <<>> => o.template = <<o.template[1]>> /\ IsTemplate(o.template[1]))
            BY <2>1 DEF IsOption, AnOption
        <2>4. Image(o.template, template) /\ (o.template # <<>> => template[1] = WriteTemplate(o.template[1]))
            BY <2>3, Images, OptionImages
        <2>5. v = Object(<<(<<"tags", tags>>), <<"template", template>>>>)
            BY <1>1 DEF WriteOption
        <2> HIDE DEF tags, template, v
        <2>6. IsObject(v) /\ Has(v, "tags", tags) /\ Has(v, "template", template)
            BY <2>2, <2>4, <2>5, ObjectOf2 DEF Image
        <2>7. OptionalMany(v, "tags", ReadTag) = <<o.tags>>
            BY <2>2, <2>6 DEF OptionalMany, OrDefault, Required, Has
        <2>8. Optional(v, "template", ReadTemplate) = <<o.template>>
            <3>1. CASE o.template = <<>>
                BY <2>4, <2>6, <3>1 DEF Optional, OrDefault, Has, Image
            <3>2. CASE o.template # <<>>
                <4>1. ReadTemplate(template[1]) = o.template /\ template[1] # Null
                    BY <2>3, <2>4, <3>2, TemplateBack
                <4>2. Found(v, "template") # {} /\ Once(v, "template") /\ Value(v, "template") = template[1]
                    BY <2>4, <2>6, <3>2 DEF Has, Image
                <4> QED  BY <2>3, <3>2, <4>1, <4>2, Wrapped DEF Optional, OrDefault, Required, Map
            <3> QED  BY <3>1, <3>2
        <2>9. ReadOption(type, v) = <<[tags |-> o.tags, template |-> o.template]>>
            <3> DEFINE raw == [tags |-> OptionalMany(v, "tags", ReadTag), template |-> Optional(v, "template", ReadTemplate)]
            <3>1. ReadOption(type, v) = All(raw)
                BY <1>1, <2>6 DEF ReadOption, IsObject
            <3>2. DOMAIN raw = {"tags", "template"} /\ raw.tags = <<o.tags>> /\ raw.template = <<o.template>>
                BY <2>7, <2>8
            <3> HIDE DEF raw
            <3> QED  BY <3>1, <3>2 DEF All
        <2> QED  BY <2>1, <2>9 DEF v
    <1>2. CASE type = "RestateSendOptions"
        <2> DEFINE mode == Map(o.mode, Word)
                   delay == Map(o.delay, WriteDuration)
        <2>1. /\ o = [mode |-> o.mode, delay |-> o.delay]
              /\ AnOption(o.mode) /\ (o.mode # <<>> => o.mode = <<o.mode[1]>> /\ o.mode[1] \in {"queued", "sent"})
              /\ AnOption(o.delay) /\ (o.delay # <<>> => o.delay = <<o.delay[1]>> /\ IsDuration(o.delay[1]))
            BY <1>2 DEF IsOptionOf, IsOption, AnOption
        <2>2. /\ Image(o.mode, mode) /\ (o.mode # <<>> => mode[1] = Word(o.mode[1]))
              /\ Image(o.delay, delay) /\ (o.delay # <<>> => delay[1] = WriteDuration(o.delay[1]))
            BY <2>1, Images, OptionImages
        <2>3. v = Object(<<(<<"invocation_mode", mode>>), <<"delay", delay>>>>)
            BY <1>2 DEF WriteOption
        <2> HIDE DEF mode, delay, v
        <2>4. IsObject(v) /\ Has(v, "invocation_mode", mode) /\ Has(v, "delay", delay)
            BY <2>2, <2>3, ObjectOf2 DEF Image
        <2>5. Optional(v, "invocation_mode", ReadMode) = <<o.mode>>
            <3>1. CASE o.mode = <<>>
                BY <2>2, <2>4, <3>1 DEF Optional, OrDefault, Has, Image
            <3>2. CASE o.mode # <<>>
                <4>1. ReadMode(mode[1]) = o.mode /\ mode[1] # Null
                    <5>1. WordOf(Word("queued")) = "queued" /\ WordOf(Word("sent")) = "sent"
                        BY WordBack DEF Lookalikes
                    <5>2. WordOf(mode[1]) = o.mode[1] /\ mode[1] # Null
                        BY <2>1, <2>2, <3>2, <5>1, WordBack
                    <5> QED  BY <2>1, <3>2, <5>2 DEF ReadMode
                <4>2. Found(v, "invocation_mode") # {} /\ Once(v, "invocation_mode") /\ Value(v, "invocation_mode") = mode[1]
                    BY <2>2, <2>4, <3>2 DEF Has, Image
                <4> QED  BY <2>1, <3>2, <4>1, <4>2, Wrapped DEF Optional, OrDefault, Required, Map
            <3> QED  BY <3>1, <3>2
        <2>6. Optional(v, "delay", ReadDuration) = <<o.delay>>
            <3>1. CASE o.delay = <<>>
                BY <2>2, <2>4, <3>1 DEF Optional, OrDefault, Has, Image
            <3>2. CASE o.delay # <<>>
                <4>1. ReadDuration(delay[1]) = o.delay /\ delay[1] # Null
                    BY <2>1, <2>2, <3>2, DurationBack
                <4>2. Found(v, "delay") # {} /\ Once(v, "delay") /\ Value(v, "delay") = delay[1]
                    BY <2>2, <2>4, <3>2 DEF Has, Image
                <4> QED  BY <2>1, <3>2, <4>1, <4>2, Wrapped DEF Optional, OrDefault, Required, Map
            <3> QED  BY <3>1, <3>2
        <2>7. ReadOption(type, v) = <<[mode |-> o.mode, delay |-> o.delay]>>
            <3> DEFINE raw == [mode |-> Optional(v, "invocation_mode", ReadMode), delay |-> Optional(v, "delay", ReadDuration)]
            <3>1. ReadOption(type, v) = All(raw)
                BY <1>2, <2>4 DEF ReadOption, IsObject
            <3>2. DOMAIN raw = {"mode", "delay"} /\ raw.mode = <<o.mode>> /\ raw.delay = <<o.delay>>
                BY <2>5, <2>6
            <3> HIDE DEF raw
            <3> QED  BY <3>1, <3>2 DEF All
        <2> QED  BY <2>1, <2>7 DEF v
    <1>3. CASE type \notin {"ResendSendOptions", "RestateSendOptions"}
        <2>1. IsName(o) /\ v = Object(<<(<<"value", <<Word(o)>>>>)>>)
            BY <1>3 DEF IsOptionOf, WriteOption, Always
        <2> HIDE DEF v
        <2>2. IsObject(v) /\ Has(v, "value", <<Word(o)>>)
            <3>1. AnOption(<<Word(o)>>)
                BY DEF AnOption
            <3> QED  BY <2>1, <3>1, ObjectOf1
        <2>3. ReadOption(type, v) = Required(v, "value", ReadWord)
            BY <1>3, <2>2 DEF ReadOption, IsObject
        <2>4. Required(v, "value", ReadWord) = <<o>>
            BY <2>1, <2>2, WordBack DEF Required, Has
        <2> QED  BY <2>3, <2>4 DEF v
    <1> QED  BY <1>1, <1>2, <1>3

-------------------------------------------------------------------------------
(* The registry of a worker: the first type to register a key owns it. *)

Owned(registry, types, n) ==
    /\ \A k \in 1..n : ProviderKey(types[k]) \in DOMAIN registry
    /\ \A key \in DOMAIN registry : \E k \in 1..n :
         /\ registry[key] = types[k] /\ ProviderKey(types[k]) = key
         /\ \A j \in 1..n : ProviderKey(types[j]) = key => k <= j

(* One more registration takes no key from its owner.                      *)
LEMMA OwnedMore ==
    ASSUME NEW registry, NEW types, NEW n \in Nat \ {0}, Owned(registry, types, n - 1)
    PROVE  Owned(Register(registry, types[n]).registry, types, n)
    <1> DEFINE type == types[n]
               own == ProviderKey(type)
               more == Register(registry, type).registry
    <1>1. \A k \in 1..n : k \in 1..(n - 1) \/ k = n
        OBVIOUS
    <1>2. 1..(n - 1) \subseteq 1..n /\ n \in 1..n /\ \A k \in 1..(n - 1) : k <= n
        OBVIOUS
    <1>3. more = IF own \in DOMAIN registry THEN registry ELSE Insert(registry, own, type)
        BY DEF Register
    <1> HIDE DEF more
    <1>4. CASE own \in DOMAIN registry
        <2>1. more = registry
            BY <1>3, <1>4
        <2>2. \A k \in 1..n : ProviderKey(types[k]) \in DOMAIN more
            BY <1>1, <1>4, <2>1 DEF Owned
        <2>3. ASSUME NEW key \in DOMAIN more
              PROVE  \E k \in 1..n : /\ more[key] = types[k] /\ ProviderKey(types[k]) = key
                                     /\ \A j \in 1..n : ProviderKey(types[j]) = key => k <= j
            <3>1. PICK k \in 1..(n - 1) : /\ more[key] = types[k] /\ ProviderKey(types[k]) = key
                                          /\ \A j \in 1..(n - 1) : ProviderKey(types[j]) = key => k <= j
                BY <2>1 DEF Owned
            <3> QED  BY <1>1, <1>2, <3>1
        <2>4. Owned(more, types, n)
            BY <2>2, <2>3 DEF Owned
        <2> QED  BY <2>4 DEF more
    <1>5. CASE own \notin DOMAIN registry
        <2>1. /\ more = Insert(registry, own, type) /\ DOMAIN more = DOMAIN registry \cup {own} /\ more[own] = type
              /\ \A key \in DOMAIN registry : more[key] = registry[key]
            <3>1. more = Insert(registry, own, type)
                BY <1>3, <1>5
            <3>2. /\ DOMAIN Insert(registry, own, type) = DOMAIN registry \cup {own} /\ Insert(registry, own, type)[own] = type
                  /\ \A j \in DOMAIN registry : j # own => Insert(registry, own, type)[j] = registry[j]
                <4> HIDE DEF own, type
                <4> QED  BY DEF Insert
            <3> QED  BY <1>5, <3>1, <3>2
        <2>2. \A k \in 1..n : ProviderKey(types[k]) \in DOMAIN more
            BY <1>1, <2>1 DEF Owned
        <2>3. ASSUME NEW key \in DOMAIN more
              PROVE  \E k \in 1..n : /\ more[key] = types[k] /\ ProviderKey(types[k]) = key
                                     /\ \A j \in 1..n : ProviderKey(types[j]) = key => k <= j
            <3>1. CASE key \in DOMAIN registry
                <4>1. PICK k \in 1..(n - 1) : /\ registry[key] = types[k] /\ ProviderKey(types[k]) = key
                                              /\ \A j \in 1..(n - 1) : ProviderKey(types[j]) = key => k <= j
                    BY <3>1 DEF Owned
                <4> QED  BY <1>1, <1>2, <2>1, <3>1, <4>1
            <3>2. CASE key = own
                <4>1. \A j \in 1..(n - 1) : ProviderKey(types[j]) # key
                    BY <1>5, <3>2 DEF Owned
                <4>2. \A j \in 1..n : ProviderKey(types[j]) = key => n <= j
                    BY <1>1, <4>1
                <4> QED  BY <1>2, <2>1, <3>2, <4>2
            <3> QED  BY <2>1, <3>1, <3>2
        <2>4. Owned(more, types, n)
            BY <2>2, <2>3 DEF Owned
        <2> QED  BY <2>4 DEF more
    <1> QED  BY <1>4, <1>5 DEF more

RegisteredTypes(defaults, types) == (IF defaults THEN <<"ResendSendOptions">> ELSE <<>>) \o types

(* The registry that is left has for each key the first type with it.      *)
LEMMA FirstOwner ==
    ASSUME NEW defaults, NEW types, IsSeq(types)
    PROVE  LET all == RegisteredTypes(defaults, types)
           IN  IsSeq(all) /\ Owned(OptionRegistry(defaults, types), all, Len(all))
    <1> DEFINE built == IF defaults THEN <<"ResendSendOptions">> ELSE <<>>
               d == Len(built)
               all == RegisteredTypes(defaults, types)
    <1>1. IsSeq(built) /\ d \in Nat /\ (defaults => d = 1 /\ built[1] = "ResendSendOptions") /\ (~defaults => d = 0)
        BY OneIsSeq, EmptyIsSeq
    <1>2. all = built \o types
        BY DEF RegisteredTypes
    <1> HIDE DEF built
    <1>3. Len(types) \in Nat /\ DOMAIN types = 1..Len(types)
        BY SeqFacts
    <1>4. /\ IsSeq(all) /\ Len(all) = d + Len(types)
          /\ (\A i \in 1..d : all[i] = built[i]) /\ \A i \in 1..Len(types) : all[d + i] = types[i]
        BY <1>1, <1>2, Concat
    <1> HIDE DEF all, d
    <1>5. PICK f : /\ f[0] = (IF defaults THEN RegisterTransportOptions(NewRegistry).registry ELSE NewRegistry)
                   /\ \A i \in 1..Len(types) : f[i] = Register(f[i - 1], types[i]).registry
                   /\ OptionRegistry(defaults, types) = f[Len(types)]
        BY <1>3, RegistersSteps
    <1>6. Owned(NewRegistry, all, 0)
        BY DEF Owned, NewRegistry
    <1> DEFINE Good == {i \in 0..Len(types) : Owned(f[i], all, d + i)}
    <1>7. 0 \in Good
        <2>1. CASE defaults
            <3>1. 1 \in 1..1 /\ 1 \in Nat \ {0} /\ d = 1 /\ 1 - 1 = 0
                BY <1>1, <2>1
            <3>2. Owned(Register(NewRegistry, all[1]).registry, all, 1)
                BY <1>6, <3>1, OwnedMore
            <3>3. f[0] = Register(NewRegistry, all[1]).registry
                BY <1>1, <1>4, <1>5, <2>1, <3>1 DEF RegisterTransportOptions
            <3> QED  BY <1>3, <3>1, <3>2, <3>3
        <2>2. CASE ~defaults
            BY <1>1, <1>3, <1>5, <1>6, <2>2
        <2> QED  BY <2>1, <2>2
    <1>8. \A i \in 1..Len(types) : i - 1 \in Good => i \in Good
        <2> TAKE i \in 1..Len(types)
        <2> HAVE i - 1 \in Good
        <2>1. d + i \in Nat \ {0} /\ (d + i) - 1 = d + (i - 1) /\ i \in 0..Len(types)
            BY <1>1, <1>3
        <2>2. Owned(f[i - 1], all, (d + i) - 1)
            BY <2>1
        <2>3. Owned(Register(f[i - 1], all[d + i]).registry, all, d + i)
            BY <2>1, <2>2, OwnedMore
        <2>4. f[i] = Register(f[i - 1], all[d + i]).registry
            BY <1>4, <1>5
        <2> QED  BY <2>1, <2>3, <2>4
    <1> HIDE DEF Good
    <1>9. Len(types) \in Good
        <2>1. 0..Len(types) \subseteq Good
            BY <1>3, <1>7, <1>8, BoundedInduction
        <2> QED  BY <1>3, <2>1
    <1>10. Owned(f[Len(types)], all, Len(all))
        BY <1>4, <1>9 DEF Good
    <1> QED  BY <1>4, <1>5, <1>10 DEF all

-------------------------------------------------------------------------------
(* What a caller writes of its slots: one field each, no key twice. *)

SlotField(slots, type) == <<ProviderKey(type), WriteOption(type, slots[type])>>

WrittenSlots(fields, slots, n) ==
    /\ IsSeq(fields) /\ Len(fields) = n
    /\ \A i \in 1..n : fields[i] = SlotField(slots, SetToSeq(DOMAIN slots)[i])
    /\ \A i, j \in 1..n : fields[i][1] = fields[j][1] => i = j

(* Slots are written one field each, or refused.                           *)
LEMMA WroteSlots ==
    ASSUME NEW slots, IsFiniteSet(DOMAIN slots)
    PROVE  \/ WriteTransportOptions(slots) = <<>>
           \/ \E fields : /\ WriteTransportOptions(slots) = <<Obj(fields)>>
                          /\ WrittenSlots(fields, slots, Len(SetToSeq(DOMAIN slots)))
    <1> DEFINE order == SetToSeq(DOMAIN slots)
               n == Len(order)
    <1>1. n \in Nat
        BY InSequence, SeqFacts
    <1>2. PICK f : /\ f[0] = <<(<<>>)>> /\ \A i \in 1..n : f[i] = WriteSlot(f[i - 1], slots, order[i])
                   /\ WriteTransportOptions(slots) = Map(f[n], Obj)
        BY <1>1, SlotsWrittenSteps
    <1> HIDE DEF n
    <1> DEFINE Good == {i \in 0..n : f[i] = <<>> \/ \E fields : f[i] = <<fields>> /\ WrittenSlots(fields, slots, i)}
    <1>3. 0 \in Good
        <2>1. WrittenSlots(<<>>, slots, 0)
            BY EmptyIsSeq DEF WrittenSlots
        <2> QED  BY <1>1, <1>2, <2>1
    <1>4. \A i \in 1..n : i - 1 \in Good => i \in Good
        <2> TAKE i \in 1..n
        <2> HAVE i - 1 \in Good
        <2> DEFINE type == order[i]
                   before == f[i - 1]
                   one == SlotField(slots, type)
        <2>1. f[i] = IF before = <<>> \/ \E j \in DOMAIN before[1] : before[1][j][1] = ProviderKey(type) THEN <<>>
                     ELSE <<Append(before[1], one)>>
            BY <1>2 DEF WriteSlot, SlotField
        <2>2. i \in 0..n /\ (before = <<>> \/ \E fields : before = <<fields>> /\ WrittenSlots(fields, slots, i - 1))
            BY <1>1
        <2>3. one[1] = ProviderKey(type)
            BY DEF SlotField
        <2> HIDE DEF before, one
        <2>4. CASE before = <<>> \/ \E j \in DOMAIN before[1] : before[1][j][1] = ProviderKey(type)
            BY <2>1, <2>2, <2>4
        <2>5. CASE ~(before = <<>> \/ \E j \in DOMAIN before[1] : before[1][j][1] = ProviderKey(type))
            <3>1. PICK fields : before = <<fields>> /\ WrittenSlots(fields, slots, i - 1)
                BY <2>2, <2>5
            <3>2. before[1] = fields
                BY <3>1
            <3> DEFINE more == Append(fields, one)
            <3>3. f[i] = <<more>>
                BY <2>1, <2>5, <3>2
            <3>4. /\ IsSeq(more) /\ Len(more) = i /\ (\A j \in 1..(i - 1) : more[j] = fields[j]) /\ more[i] = one
                <4>1. IsSeq(fields) /\ Len(fields) = i - 1 /\ i - 1 + 1 = i
                    BY <1>1, <3>1 DEF WrittenSlots
                <4> QED  BY <4>1, Appended
            <3>5. DOMAIN fields = 1..(i - 1)
                BY <3>1, SeqFacts DEF WrittenSlots
            <3> HIDE DEF more
            <3>6. \A j \in 1..i : j \in 1..(i - 1) \/ j = i
                BY <1>1
            <3>7. \A j \in 1..(i - 1) : fields[j][1] # ProviderKey(type)
                BY <2>5, <3>2, <3>5
            <3>8. \A j \in 1..i : more[j] = SlotField(slots, order[j])
                BY <3>1, <3>4, <3>6 DEF WrittenSlots, one
            <3>9. \A j, k \in 1..i : more[j][1] = more[k][1] => j = k
                BY <2>3, <3>1, <3>4, <3>6, <3>7 DEF WrittenSlots
            <3> QED  BY <2>2, <3>3, <3>4, <3>8, <3>9 DEF WrittenSlots
        <2> QED  BY <2>4, <2>5
    <1> HIDE DEF Good
    <1>5. n \in Good
        <2>1. 0..n \subseteq Good
            BY <1>1, <1>3, <1>4, BoundedInduction
        <2> QED  BY <1>1, <2>1
    <1>6. CASE f[n] = <<>>
        <2>1. Map(<<>>, Obj) = <<>>
            BY DEF Map
        <2> QED  BY <1>2, <1>6, <2>1
    <1>7. CASE f[n] # <<>>
        <2>1. PICK fields : f[n] = <<fields>> /\ WrittenSlots(fields, slots, n)
            BY <1>5, <1>7 DEF Good
        <2>2. Map(<<fields>>, Obj) = <<Obj(fields)>>
            BY DEF Map
        <2> QED  BY <1>2, <2>1, <2>2 DEF n
    <1> QED  BY <1>6, <1>7

-------------------------------------------------------------------------------
(* Readers return options. *)

(* Every reader of a control returns an option.                            *)
LEMMA ReadersReturnOptions ==
    /\ \A value : AnOption(ReadWord(value)) /\ AnOption(ReadEnvelope(value)) /\ AnOption(ReadDuration(value))
    /\ \A value : AnOption(Parsed(value, NewtypeFromStr))
    /\ \A type, value : AnOption(ReadOption(type, value))
    <1>1. \A value : AnOption(ReadWord(value))
        BY DEF ReadWord, AnOption
    <1>2. \A value : AnOption(ReadEnvelope(value)) /\ AnOption(ReadDuration(value))
        <2> TAKE value
        <2>1. AnOption(ReadEnvelope(value))
            <3> DEFINE raw == [mailFrom |-> Optional(value, "mail_from", ReadEmail),
                               rcptTo |-> OptionalMany(value, "rcpt_to", ReadEmail)]
            <3>1. ReadEnvelope(value) = IF ~Is("obj", value) THEN <<>> ELSE All(raw)
                BY DEF ReadEnvelope
            <3>2. AnOption(All(raw)) /\ AnOption(<<>>)
                <4> HIDE DEF raw
                <4> QED  BY AllIs DEF AnOption
            <3> HIDE DEF raw
            <3> QED  BY <3>1, <3>2
        <2>2. AnOption(ReadDuration(value))
            <3> DEFINE raw == [secs |-> Required(value, "secs", ReadNumber), nanos |-> Required(value, "nanos", ReadNumber)]
            <3>1. ReadDuration(value) = IF ~Is("obj", value) THEN <<>> ELSE All(raw)
                BY DEF ReadDuration
            <3>2. AnOption(All(raw)) /\ AnOption(<<>>)
                <4> HIDE DEF raw
                <4> QED  BY AllIs DEF AnOption
            <3> HIDE DEF raw
            <3> QED  BY <3>1, <3>2
        <2> QED  BY <2>1, <2>2
    <1>3. \A value : AnOption(Parsed(value, NewtypeFromStr))
        BY DEF Parsed, NewtypeFromStr, AnOption
    <1>4. ASSUME NEW type, NEW value PROVE AnOption(ReadOption(type, value))
        <2> DEFINE resend == [tags |-> OptionalMany(value, "tags", ReadTag),
                              template |-> Optional(value, "template", ReadTemplate)]
                   restate == [mode |-> Optional(value, "invocation_mode", ReadMode),
                               delay |-> Optional(value, "delay", ReadDuration)]
        <2>1. \/ ReadOption(type, value) = <<>>
              \/ ReadOption(type, value) = All(resend)
              \/ ReadOption(type, value) = All(restate)
              \/ ReadOption(type, value) = Required(value, "value", ReadWord)
            BY DEF ReadOption
        <2>2. AnOption(All(resend)) /\ AnOption(All(restate)) /\ AnOption(<<>>)
            <3> HIDE DEF resend, restate
            <3> QED  BY AllIs DEF AnOption
        <2>3. AnOption(Required(value, "value", ReadWord))
            <3>1. \/ Required(value, "value", ReadWord) = ReadWord(Value(value, "value"))
                  \/ Required(value, "value", ReadWord) = <<>>
                BY DEF Required
            <3> QED  BY <1>1, <2>2, <3>1
        <2> HIDE DEF resend, restate
        <2> QED  BY <2>1, <2>2, <2>3
    <1> QED  BY <1>1, <1>2, <1>3, <1>4

(* A slot is hydrated by the type that owns its key, or not at all.        *)
LEMMA HydrateIs ==
    ASSUME NEW registry, NEW key \in DOMAIN registry, NEW value, NEW slots
    PROVE  HydrateInto(registry, key, value, slots) =
             IF ReadOption(registry[key], value) = <<>> THEN <<>>
             ELSE <<Insert(slots, registry[key], ReadOption(registry[key], value)[1])>>
    <1> DEFINE type == registry[key]
               hydrated == ReadOption(type, value)
               image == HydrateInto(registry, key, value, slots)
    <1>1. image = [i \in DOMAIN hydrated |-> Insert(slots, type, hydrated[i])]
        BY DEF HydrateInto, Map
    <1>2. AnOption(hydrated)
        BY ReadersReturnOptions
    <1> HIDE DEF image, hydrated
    <1>3. image = [i \in DOMAIN hydrated |-> image[i]]
        BY <1>1
    <1>4. (hydrated = <<>> <=> image = <<>>) /\ (hydrated # <<>> => image = <<image[1]>> /\ 1 \in DOMAIN hydrated)
        BY <1>2, <1>3, OptionImage
    <1>5. hydrated # <<>> => image = <<Insert(slots, type, hydrated[1])>>
        BY <1>1, <1>4
    <1> QED  BY <1>4, <1>5 DEF image, hydrated

(* The options a worker hydrates are of types it registered, whatever was  *)
(* posted.                                                                 *)
TypesOf(registry) == {registry[key] : key \in DOMAIN registry}

(* Whatever slots are read, their types are registered.                    *)
LEMMA SlotsKnown ==
    ASSUME NEW registry, NEW ignoreUnknown, NEW value, Is("obj", value) => IsSeq(value[2])
    PROVE  \/ ReadTransportOptions(registry, ignoreUnknown, value) = <<>>
           \/ \E slots : /\ ReadTransportOptions(registry, ignoreUnknown, value) = <<slots>>
                         /\ DOMAIN slots \subseteq TypesOf(registry)
    <1>1. CASE ~Is("obj", value)
        BY <1>1 DEF ReadTransportOptions
    <1>2. CASE Is("obj", value)
        <2> DEFINE fields == value[2]
                   n == Len(fields)
        <2>1. n \in Nat
            BY <1>2, SeqFacts
        <2>2. \E f : /\ f[0] = <<NoSlots>>
                     /\ \A i \in 1..n : f[i] = ReadSlot(registry, ignoreUnknown, f[i - 1], fields[i])
                     /\ ReadTransportOptions(registry, ignoreUnknown, value) = IF Is("obj", value) THEN f[n] ELSE <<>>
            BY ONLY <2>1, HydratesSteps
        <2> HIDE DEF n, fields
        <2>3. PICK f : /\ f[0] = <<NoSlots>> /\ \A i \in 1..n : f[i] = ReadSlot(registry, ignoreUnknown, f[i - 1], fields[i])
                       /\ ReadTransportOptions(registry, ignoreUnknown, value) = f[n]
            BY <1>2, <2>2
        <2> DEFINE Good == {i \in 0..n : f[i] = <<>> \/ \E slots : f[i] = <<slots>> /\ DOMAIN slots \subseteq TypesOf(registry)}
        <2>4. 0 \in Good
            <3>1. DOMAIN NoSlots = {}
                BY DEF NoSlots
            <3> QED  BY <2>1, <2>3, <3>1
        <2>5. \A i \in 1..n : i - 1 \in Good => i \in Good
            <3> TAKE i \in 1..n
            <3> HAVE i - 1 \in Good
            <3> DEFINE before == f[i - 1]
                       field == fields[i]
                       key == field[1]
            <3>1. f[i] = ReadSlot(registry, ignoreUnknown, before, field) /\ i \in 0..n
                BY <2>1, <2>3
            <3>2. CASE before = <<>>
                <4>1. f[i] = <<>>
                    BY <3>1, <3>2 DEF ReadSlot
                <4> QED  BY <3>1, <4>1
            <3>3. CASE before # <<>>
                <4>1. PICK slots : before = <<slots>> /\ DOMAIN slots \subseteq TypesOf(registry)
                    BY <3>3
                <4>2. before[1] = slots
                    BY <4>1
                <4> HIDE DEF before, field
                <4>3. CASE key \in DOMAIN registry
                    <5> DEFINE type == registry[key]
                               hydrated == ReadOption(type, field[2])
                    <5>1. f[i] = HydrateInto(registry, key, field[2], slots)
                        BY <3>1, <3>3, <4>2, <4>3 DEF ReadSlot
                    <5>2. f[i] = IF hydrated = <<>> THEN <<>> ELSE <<Insert(slots, type, hydrated[1])>>
                        BY <4>3, <5>1, HydrateIs
                    <5>3. DOMAIN Insert(slots, type, hydrated[1]) = DOMAIN slots \cup {type} /\ type \in TypesOf(registry)
                        BY <4>3 DEF Insert, TypesOf
                    <5> HIDE DEF hydrated, type
                    <5> QED  BY <3>1, <4>1, <5>2, <5>3
                <4>4. CASE key \notin DOMAIN registry
                    <5>1. f[i] = before \/ f[i] = <<>>
                        BY <3>1, <3>3, <4>4 DEF ReadSlot
                    <5> QED  BY <3>1, <4>1, <5>1
                <4> QED  BY <4>3, <4>4
            <3> QED  BY <3>2, <3>3
        <2> HIDE DEF Good
        <2>6. n \in Good
            <3>1. 0..n \subseteq Good
                BY <2>1, <2>4, <2>5, BoundedInduction
            <3> QED  BY <2>1, <3>1
        <2> QED  BY <2>3, <2>6 DEF Good
    <1> QED  BY <1>1, <1>2

-------------------------------------------------------------------------------
(* How a worker reads the controls of a send, field by field. *)

ControlKeys == {"envelope", "transport_options", "timeout", "idempotency_key", "correlation_id"}

ControlName(key) ==
    CASE key = "envelope" -> "envelope"
      [] key = "transport_options" -> "slots"
      [] key = "timeout" -> "timeout"
      [] key = "idempotency_key" -> "key"
      [] key = "correlation_id" -> "correlation"

(* What a field says, an option. *)
Meaning(registry, ignoreUnknown, field) ==
    CASE field[1] = "envelope" -> OrNull(field[2], ReadEnvelope)
      [] field[1] = "transport_options" -> ReadTransportOptions(registry, ignoreUnknown, field[2])
      [] field[1] = "timeout" -> OrNull(field[2], ReadDuration)
      [] field[1] \in {"idempotency_key", "correlation_id"} -> ReadNewtype(field[2])

(* Nullable controls are read as options.                                  *)
LEMMA OrNullIs ==
    ASSUME NEW value
    PROVE  /\ AnOption(OrNull(value, ReadEnvelope)) /\ AnOption(OrNull(value, ReadDuration)) /\ AnOption(ReadNewtype(value))
    <1> DEFINE a == ReadEnvelope(value)
               b == ReadDuration(value)
               c == Parsed(value, NewtypeFromStr)
               wrapped(option) == [i \in DOMAIN option |-> <<option[i]>>]
    <1>1. AnOption(a) /\ AnOption(b) /\ AnOption(c)
        BY ReadersReturnOptions
    <1>2. /\ OrNull(value, ReadEnvelope) = IF value = Null THEN <<(<<>>)>> ELSE wrapped(a)
          /\ OrNull(value, ReadDuration) = IF value = Null THEN <<(<<>>)>> ELSE wrapped(b)
          /\ ReadNewtype(value) = IF value = Null THEN <<(<<>>)>> ELSE wrapped(c)
        BY DEF OrNull, ReadNewtype, Map
    <1> HIDE DEF a, b, c
    <1>3. ASSUME NEW option, AnOption(option) PROVE AnOption(wrapped(option))
        <2> DEFINE image == wrapped(option)
        <2>1. image = [i \in DOMAIN option |-> image[i]]
            OBVIOUS
        <2> HIDE DEF image
        <2>2. AnOption(image)
            BY <1>3, <2>1, OptionImage
        <2> QED  BY <2>2 DEF image
    <1> HIDE DEF wrapped
    <1>4. AnOption(<<(<<>>)>>)
        BY DEF AnOption
    <1> QED  BY <1>1, <1>2, <1>3, <1>4

(* So are the slots.                                                       *)
LEMMA TransportOptionsIs ==
    ASSUME NEW registry, NEW ignoreUnknown, NEW value, Is("obj", value) => IsSeq(value[2])
    PROVE  AnOption(ReadTransportOptions(registry, ignoreUnknown, value))
    BY SlotsKnown DEF AnOption

(* Setting a control under an option.                                      *)
LEMMA SetControl ==
    ASSUME NEW o, NEW name, NEW option, AnOption(option)
    PROVE  [i \in DOMAIN option |-> [o EXCEPT ![name] = option[i]]]
             = IF option = <<>> THEN <<>> ELSE <<[o EXCEPT ![name] = option[1]]>>
    <1> DEFINE image == [i \in DOMAIN option |-> [o EXCEPT ![name] = option[i]]]
    <1>1. image = [i \in DOMAIN option |-> image[i]]
        OBVIOUS
    <1>2. (option # <<>> /\ 1 \in DOMAIN option) => image[1] = [o EXCEPT ![name] = option[1]]
        OBVIOUS
    <1> HIDE DEF image
    <1>3. (option = <<>> <=> image = <<>>) /\ (option # <<>> => image = <<image[1]>> /\ 1 \in DOMAIN option)
        BY <1>1, OptionImage
    <1>4. image = IF option = <<>> THEN <<>> ELSE <<[o EXCEPT ![name] = option[1]]>>
        BY <1>2, <1>3
    <1> QED  BY <1>4 DEF image

With(o, name, item) == [o EXCEPT ![name] = item]

(* One field sets its control, refuses the options, or is skipped.         *)
LEMMA ControlStep ==
    ASSUME NEW registry, NEW ignoreUnknown, NEW options, options # <<>>, NEW field,
           Is("obj", field[2]) => IsSeq(field[2][2])
    PROVE  LET meaning == Meaning(registry, ignoreUnknown, field)
           IN  /\ field[1] \notin ControlKeys => ReadControl(registry, ignoreUnknown, options, field) = options
               /\ field[1] \in ControlKeys =>
                    /\ AnOption(meaning)
                    /\ ReadControl(registry, ignoreUnknown, options, field) =
                         IF meaning = <<>> THEN <<>> ELSE <<With(options[1], ControlName(field[1]), meaning[1])>>
    <1> DEFINE read == ReadControl(registry, ignoreUnknown, options, field)
               meaning == Meaning(registry, ignoreUnknown, field)
               name == ControlName(field[1])
               o == options[1]
    <1>1. CASE field[1] \notin ControlKeys
        BY <1>1 DEF ReadControl, ControlKeys
    <1>2. CASE field[1] \in ControlKeys
        <2>1. AnOption(meaning)
            <3>1. AnOption(ReadTransportOptions(registry, ignoreUnknown, field[2]))
                BY TransportOptionsIs
            <3>2. /\ AnOption(OrNull(field[2], ReadEnvelope)) /\ AnOption(OrNull(field[2], ReadDuration))
                  /\ AnOption(ReadNewtype(field[2]))
                BY OrNullIs
            <3> QED  BY <1>2, <3>1, <3>2 DEF Meaning, ControlKeys
        <2>2. read = [i \in DOMAIN meaning |-> [o EXCEPT ![name] = meaning[i]]]
            <3>1. CASE field[1] = "envelope"
                BY <3>1 DEF ReadControl, Meaning, Map, ControlName
            <3>2. CASE field[1] = "transport_options"
                BY <3>2 DEF ReadControl, Meaning, Map, ControlName
            <3>3. CASE field[1] = "timeout"
                BY <3>3 DEF ReadControl, Meaning, Map, ControlName
            <3>4. CASE field[1] = "idempotency_key"
                BY <3>4 DEF ReadControl, Meaning, Map, ControlName
            <3>5. CASE field[1] = "correlation_id"
                BY <3>5 DEF ReadControl, Meaning, Map, ControlName
            <3> QED  BY <1>2, <3>1, <3>2, <3>3, <3>4, <3>5 DEF ControlKeys
        <2> HIDE DEF meaning, name, o, read
        <2>3. read = IF meaning = <<>> THEN <<>> ELSE <<[o EXCEPT ![name] = meaning[1]]>>
            BY <2>1, <2>2, SetControl
        <2> QED  BY <1>2, <2>1, <2>3 DEF meaning, name, o, read, With
    <1> QED  BY <1>1, <1>2

(* The options that were read, name by name, after n fields. *)
OptionNames == {"envelope", "slots", "timeout", "key", "correlation"}

Sets(field, name) == field[1] \in ControlKeys /\ ControlName(field[1]) = name

ControlsAre(registry, ignoreUnknown, fields, o, n) ==
    /\ o = [name \in OptionNames |-> o[name]]
    /\ \A name \in OptionNames :
         \/ o[name] = NoSendOptions[name] /\ \A i \in 1..n : ~Sets(fields[i], name)
         \/ \E i \in 1..n : Sets(fields[i], name) /\ Meaning(registry, ignoreUnknown, fields[i]) = <<o[name]>>

(* The options read are what the last field for each control says.         *)
LEMMA ReadControls ==
    ASSUME NEW registry, NEW ignoreUnknown, NEW value, Is("obj", value), IsSeq(value[2]),
           \A i \in DOMAIN value[2] : Is("obj", value[2][i][2]) => IsSeq(value[2][i][2][2])
    PROVE  LET result == ReadSendOptions(registry, ignoreUnknown, value)
               fields == value[2]
           IN  \/ result = <<>> /\ \E i \in DOMAIN fields : fields[i][1] \in ControlKeys
                                                           /\ Meaning(registry, ignoreUnknown, fields[i]) = <<>>
               \/ \E o : result = <<o>> /\ ControlsAre(registry, ignoreUnknown, fields, o, Len(fields))
    <1> DEFINE result == ReadSendOptions(registry, ignoreUnknown, value)
               fields == value[2]
               n == Len(fields)
               means(i) == Meaning(registry, ignoreUnknown, fields[i])
               Are(o, i) == ControlsAre(registry, ignoreUnknown, fields, o, i)
               Fails(i) == \E j \in 1..i : fields[j][1] \in ControlKeys /\ means(j) = <<>>
    <1>1. n \in Nat /\ DOMAIN fields = 1..n
        BY SeqFacts
    <1>2. \E f : /\ f[0] = <<NoSendOptions>>
                 /\ \A i \in 1..n : f[i] = ReadControl(registry, ignoreUnknown, f[i - 1], fields[i])
                 /\ result = IF Is("obj", value) THEN f[n] ELSE <<>>
        BY ONLY <1>1, ControlsReadSteps
    <1>3. \A i \in 1..n : Is("obj", fields[i][2]) => IsSeq(fields[i][2][2])
        BY <1>1
    <1> HIDE DEF n, fields, result
    <1>4. PICK f : /\ f[0] = <<NoSendOptions>>
                   /\ \A i \in 1..n : f[i] = ReadControl(registry, ignoreUnknown, f[i - 1], fields[i])
                   /\ result = f[n]
        BY <1>2
    <1> DEFINE Good == {i \in 0..n : (f[i] = <<>> /\ Fails(i)) \/ \E o : f[i] = <<o>> /\ Are(o, i)}
    <1>5. 0 \in Good
        <2>1. Are(NoSendOptions, 0)
            BY DEF ControlsAre, NoSendOptions, OptionNames
        <2> QED  BY <1>1, <1>4, <2>1
    <1>6. \A i \in 1..n : i - 1 \in Good => i \in Good
        <2> TAKE i \in 1..n
        <2> HAVE i - 1 \in Good
        <2> DEFINE before == f[i - 1]
                   after == f[i]
                   field == fields[i]
                   meaning == Meaning(registry, ignoreUnknown, field)
        <2>1. i \in 0..n /\ i \in Nat /\ \A j \in 1..i : j \in 1..(i - 1) \/ j = i
            BY <1>1
        <2>2. (before = <<>> /\ Fails(i - 1)) \/ \E o : before = <<o>> /\ Are(o, i - 1)
            OBVIOUS
        <2>3. after = ReadControl(registry, ignoreUnknown, before, field)
            BY <1>4
        <2>4. Is("obj", field[2]) => IsSeq(field[2][2])
            BY <1>3
        <2>5. SUFFICES (after = <<>> /\ Fails(i)) \/ \E o : after = <<o>> /\ Are(o, i)
            BY <2>1
        <2>6. meaning = means(i)
            OBVIOUS
        <2> HIDE DEF before, after, meaning, means
        <2>7. CASE before = <<>>
            <3>1. after = <<>>
                BY <2>3, <2>7 DEF ReadControl
            <3>2. Fails(i - 1)
                BY <2>2, <2>7
            <3>3. Fails(i)
                <4>1. PICK j \in 1..(i - 1) : fields[j][1] \in ControlKeys /\ means(j) = <<>>
                    BY <3>2
                <4> QED  BY <2>1, <4>1
            <3> QED  BY <3>1, <3>3
        <2>8. CASE before # <<>>
            <3>1. PICK o : before = <<o>> /\ Are(o, i - 1)
                BY <2>2, <2>8
            <3>2. before[1] = o
                BY <3>1
            <3>3. /\ field[1] \notin ControlKeys => after = before
                  /\ field[1] \in ControlKeys =>
                       /\ AnOption(meaning)
                       /\ after = IF meaning = <<>> THEN <<>> ELSE <<With(o, ControlName(field[1]), meaning[1])>>
                <4> HIDE DEF field
                <4>1. LET said == Meaning(registry, ignoreUnknown, field)
                      IN  /\ field[1] \notin ControlKeys => ReadControl(registry, ignoreUnknown, before, field) = before
                          /\ field[1] \in ControlKeys =>
                               /\ AnOption(said)
                               /\ ReadControl(registry, ignoreUnknown, before, field) =
                                    IF said = <<>> THEN <<>> ELSE <<With(before[1], ControlName(field[1]), said[1])>>
                    BY ONLY <2>4, <2>8, ControlStep
                <4> QED  BY <2>3, <3>2, <4>1 DEF meaning
            <3>4. CASE field[1] \notin ControlKeys
                <4>1. \A name : ~Sets(fields[i], name)
                    BY <3>4 DEF Sets
                <4>2. Are(o, i)
                    BY <2>1, <3>1, <4>1 DEF ControlsAre
                <4> QED  BY <3>1, <3>3, <3>4, <4>2
            <3>5. CASE field[1] \in ControlKeys /\ meaning = <<>>
                <4>1. after = <<>>
                    BY <3>3, <3>5
                <4>2. fields[i][1] \in ControlKeys /\ means(i) = <<>> /\ i \in 1..i
                    BY <2>1, <2>6, <3>5
                <4> QED  BY <4>1, <4>2
            <3>6. CASE field[1] \in ControlKeys /\ meaning # <<>>
                <4> DEFINE name == ControlName(field[1])
                           new == With(o, name, meaning[1])
                <4>1. name \in OptionNames
                    BY <3>6 DEF ControlKeys, ControlName, OptionNames
                <4>2. meaning = <<meaning[1]>>
                    BY <3>3, <3>6 DEF AnOption
                <4>3. o = [k \in OptionNames |-> o[k]]
                    BY <3>1 DEF ControlsAre
                <4>4. \A k : Sets(fields[i], k) <=> k = name
                    BY <3>6 DEF Sets
                <4> HIDE DEF name
                <4>5. new = [k \in OptionNames |-> new[k]] /\ new[name] = meaning[1] /\ \A k \in OptionNames : k # name => new[k] = o[k]
                    BY <4>1, <4>3 DEF With
                <4> HIDE DEF new
                <4>6. Are(new, i)
                    <5>1. ASSUME NEW k \in OptionNames
                          PROVE  \/ new[k] = NoSendOptions[k] /\ \A j \in 1..i : ~Sets(fields[j], k)
                                 \/ \E j \in 1..i : Sets(fields[j], k) /\ Meaning(registry, ignoreUnknown, fields[j]) = <<new[k]>>
                        <6>1. CASE k = name
                            BY <2>1, <4>2, <4>4, <4>5, <6>1 DEF meaning
                        <6>2. CASE k # name
                            <7>1. \/ o[k] = NoSendOptions[k] /\ \A j \in 1..(i - 1) : ~Sets(fields[j], k)
                                  \/ \E j \in 1..(i - 1) : Sets(fields[j], k) /\ Meaning(registry, ignoreUnknown, fields[j]) = <<o[k]>>
                                BY <3>1 DEF ControlsAre
                            <7>2. \A j \in 1..(i - 1) : j \in 1..i
                                BY <2>1
                            <7> QED  BY <2>1, <4>4, <4>5, <6>2, <7>1, <7>2
                        <6> QED  BY <6>1, <6>2
                    <5> QED  BY <4>5, <5>1 DEF ControlsAre
                <4>7. after = <<new>>
                    BY <3>3, <3>6 DEF new, name
                <4> QED  BY <4>6, <4>7
            <3> QED  BY <3>4, <3>5, <3>6
        <2> QED  BY <2>7, <2>8
    <1> HIDE DEF Good
    <1>7. n \in Good
        <2>1. 0..n \subseteq Good
            BY <1>1, <1>5, <1>6, BoundedInduction
        <2> QED  BY <1>1, <2>1
    <1>8. (result = <<>> /\ Fails(n)) \/ \E o : result = <<o>> /\ Are(o, n)
        BY <1>4, <1>7 DEF Good
    <1> QED  BY <1>1, <1>8 DEF n, fields, result

-------------------------------------------------------------------------------
(* The options as a caller writes them. *)

SlotsOption(o) == IF DOMAIN o.slots = {} THEN <<>> ELSE WriteTransportOptions(o.slots)

(* What WriteSendOptions makes of the slots.                               *)
LEMMA WroteSlotsOption ==
    ASSUME NEW o, IsSendOptions(o)
    PROVE  /\ AnOption(SlotsOption(o))
           /\ SlotsOption(o) # <<>> =>
                \E fields : /\ SlotsOption(o)[1] = Obj(fields)
                            /\ WrittenSlots(fields, o.slots, Len(SetToSeq(DOMAIN o.slots)))
    <1> DEFINE slots == o.slots
    <1>1. IsFiniteSet(DOMAIN slots)
        BY DEF IsSendOptions
    <1>2. CASE DOMAIN slots = {}
        BY <1>2 DEF SlotsOption, AnOption
    <1>3. CASE DOMAIN slots # {}
        <2>1. SlotsOption(o) = WriteTransportOptions(slots)
            BY <1>3 DEF SlotsOption
        <2> HIDE DEF slots
        <2>2. \/ WriteTransportOptions(slots) = <<>>
              \/ \E fields : /\ WriteTransportOptions(slots) = <<Obj(fields)>>
                             /\ WrittenSlots(fields, slots, Len(SetToSeq(DOMAIN slots)))
            BY <1>1, WroteSlots
        <2>3. CASE WriteTransportOptions(slots) = <<>>
            BY <2>1, <2>3 DEF AnOption
        <2>4. CASE WriteTransportOptions(slots) # <<>>
            <3>1. PICK fields : /\ WriteTransportOptions(slots) = <<Obj(fields)>>
                                /\ WrittenSlots(fields, slots, Len(SetToSeq(DOMAIN slots)))
                BY <2>2, <2>4
            <3> DEFINE w == WrittenSlots(fields, slots, Len(SetToSeq(DOMAIN slots)))
            <3>2. AnOption(SlotsOption(o)) /\ SlotsOption(o)[1] = Obj(fields)
                BY <2>1, <3>1 DEF AnOption
            <3> QED  BY <3>1, <3>2 DEF slots
        <2> QED  BY <2>3, <2>4
    <1> QED  BY <1>2, <1>3

(* What WriteSendOptions makes of the other controls.                      *)
LEMMA ControlImages ==
    ASSUME NEW o, IsSendOptions(o)
    PROVE  /\ Image(o.envelope, Map(o.envelope, WriteEnvelope))
           /\ o.envelope # <<>> => /\ Map(o.envelope, WriteEnvelope)[1] = WriteEnvelope(o.envelope[1])
                                   /\ o.envelope = <<o.envelope[1]>> /\ IsEnvelope(o.envelope[1])
           /\ Image(o.timeout, Map(o.timeout, WriteDuration))
           /\ o.timeout # <<>> => /\ Map(o.timeout, WriteDuration)[1] = WriteDuration(o.timeout[1])
                                  /\ o.timeout = <<o.timeout[1]>> /\ IsDuration(o.timeout[1])
           /\ Image(o.key, Map(o.key, Text))
           /\ o.key # <<>> => /\ Map(o.key, Text)[1] = Text(o.key[1])
                              /\ o.key = <<o.key[1]>> /\ IsParsed(o.key[1], NewtypeFromStr)
           /\ Image(o.correlation, Map(o.correlation, Text))
           /\ o.correlation # <<>> => /\ Map(o.correlation, Text)[1] = Text(o.correlation[1])
                                      /\ o.correlation = <<o.correlation[1]>> /\ IsParsed(o.correlation[1], NewtypeFromStr)
    <1>1. /\ AnOption(o.envelope) /\ (o.envelope # <<>> => o.envelope = <<o.envelope[1]>> /\ IsEnvelope(o.envelope[1]))
          /\ AnOption(o.timeout) /\ (o.timeout # <<>> => o.timeout = <<o.timeout[1]>> /\ IsDuration(o.timeout[1]))
          /\ AnOption(o.key) /\ (o.key # <<>> => o.key = <<o.key[1]>> /\ IsParsed(o.key[1], NewtypeFromStr))
          /\ AnOption(o.correlation)
          /\ (o.correlation # <<>> => o.correlation = <<o.correlation[1]>> /\ IsParsed(o.correlation[1], NewtypeFromStr))
        BY DEF IsSendOptions, IsOption, AnOption
    <1> DEFINE a == o.envelope
               b == o.timeout
               c == o.key
               d == o.correlation
    <1>2. AnOption(a) /\ AnOption(b) /\ AnOption(c) /\ AnOption(d)
        BY <1>1
    <1> HIDE DEF a, b, c, d
    <1>3. /\ Image(a, Map(a, WriteEnvelope)) /\ (a # <<>> => Map(a, WriteEnvelope)[1] = WriteEnvelope(a[1]))
          /\ Image(b, Map(b, WriteDuration)) /\ (b # <<>> => Map(b, WriteDuration)[1] = WriteDuration(b[1]))
          /\ Image(c, Map(c, Text)) /\ (c # <<>> => Map(c, Text)[1] = Text(c[1]))
          /\ Image(d, Map(d, Text)) /\ (d # <<>> => Map(d, Text)[1] = Text(d[1]))
        BY <1>2, Images, OptionImages
    <1> QED  BY <1>1, <1>3 DEF a, b, c, d

(* What a caller's options are as JSON.                                    *)
LEMMA WrittenOptions ==
    ASSUME NEW o, IsSendOptions(o), WriteSendOptions(o) # <<>>
    PROVE  LET value == WriteSendOptions(o)[1]
           IN  /\ WriteSendOptions(o) = <<value>> /\ IsObject(value) /\ value = Obj(value[2]) /\ value # Null
               /\ Has(value, "envelope", Map(o.envelope, WriteEnvelope)) /\ Has(value, "timeout", Map(o.timeout, WriteDuration))
               /\ Has(value, "idempotency_key", Map(o.key, Text)) /\ Has(value, "correlation_id", Map(o.correlation, Text))
               /\ Has(value, "transport_options", SlotsOption(o)) /\ (DOMAIN o.slots # {} => SlotsOption(o) # <<>>)
               /\ \A i \in DOMAIN value[2] : value[2][i][1] \in ControlKeys
               /\ Readable(value)
    <1> DEFINE e == Map(o.envelope, WriteEnvelope)
               s == SlotsOption(o)
               t == Map(o.timeout, WriteDuration)
               k == Map(o.key, Text)
               c == Map(o.correlation, Text)
               value == WriteSendOptions(o)[1]
               object == Object(<<(<<"envelope", e>>), <<"transport_options", s>>, <<"timeout", t>>,
                                  <<"idempotency_key", k>>, <<"correlation_id", c>>>>)
    <1>1. WriteSendOptions(o) = <<object>> /\ (DOMAIN o.slots # {} => s # <<>>)
        BY DEF WriteSendOptions, SlotsOption
    <1>2. /\ AnOption(e) /\ AnOption(s) /\ AnOption(t) /\ AnOption(k) /\ AnOption(c)
          /\ (e # <<>> => IsObject(e[1])) /\ (t # <<>> => IsObject(t[1])) /\ (s # <<>> => IsObject(s[1]))
          /\ (k # <<>> => Is("str", k[1])) /\ (c # <<>> => Is("str", c[1]))
        <2>1. AnOption(e) /\ (e # <<>> => IsObject(e[1]))
            BY ControlImages, EnvelopeBack DEF Image
        <2>2. AnOption(t) /\ (t # <<>> => IsObject(t[1]))
            BY ControlImages, DurationBack DEF Image
        <2>3. AnOption(s) /\ (s # <<>> => IsObject(s[1]))
            <3>1. \A fields, n : WrittenSlots(fields, o.slots, n) => IsSeq(fields)
                BY DEF WrittenSlots
            <3>2. \A fields : IsSeq(fields) => IsObject(Obj(fields))
                BY DEF IsObject, Is, Obj
            <3> HIDE DEF s
            <3>3. AnOption(s) /\ (s # <<>> => \E fields, n : s[1] = Obj(fields) /\ WrittenSlots(fields, o.slots, n))
                BY WroteSlotsOption DEF s
            <3> QED  BY <3>1, <3>2, <3>3
        <2>4. (k # <<>> => Is("str", k[1])) /\ (c # <<>> => Is("str", c[1])) /\ AnOption(k) /\ AnOption(c)
            <3>1. \A text : Is("str", Text(text))
                BY DEF Is, Text, Str
            <3> QED  BY <3>1, ControlImages DEF Image
        <2> QED  BY <2>1, <2>2, <2>3, <2>4
    <1> HIDE DEF e, s, t, k, c
    <1>3. value = object
        BY <1>1
    <1> HIDE DEF value
    <1>4. /\ IsObject(value) /\ value = Obj(value[2])
          /\ \A key : key \notin ControlKeys => Found(value, key) = {}
          /\ Has(value, "envelope", e) /\ Has(value, "transport_options", s) /\ Has(value, "timeout", t)
          /\ Has(value, "idempotency_key", k) /\ Has(value, "correlation_id", c)
        <2> HIDE DEF object
        <2>1. object = Object(<<(<<"envelope", e>>), <<"transport_options", s>>, <<"timeout", t>>,
                                  <<"idempotency_key", k>>, <<"correlation_id", c>>>>)
            BY DEF object
        <2> QED  BY <1>2, <1>3, <2>1, ObjectOf5 DEF ControlKeys
    <1>5. ASSUME NEW i \in DOMAIN value[2]
          PROVE  /\ value[2][i][1] \in ControlKeys
                 /\ Is("obj", value[2][i][2]) => IsSeq(value[2][i][2][2])
        <2> DEFINE key == value[2][i][1]
                   item == value[2][i][2]
        <2>1. i \in Found(value, key)
            BY DEF Found
        <2>2. key \in ControlKeys
            BY <1>4, <2>1
        <2>3. ASSUME NEW option, Has(value, key, option)
              PROVE  option # <<>> /\ item = option[1]
            <3>1. Found(value, key) # {}
                BY <2>1
            <3>2. option # <<>> /\ Once(value, key) /\ Value(value, key) = option[1]
                BY <2>3, <3>1 DEF Has
            <3>3. Found(value, key) = {i}
                BY <2>1, <3>2 DEF Once
            <3>4. Value(value, key) = item
                BY <3>3 DEF Value
            <3> QED  BY <3>2, <3>4
        <2> HIDE DEF key, item
        <2>4. \/ key = "envelope" /\ Has(value, key, e)
              \/ key = "transport_options" /\ Has(value, key, s)
              \/ key = "timeout" /\ Has(value, key, t)
              \/ key = "idempotency_key" /\ Has(value, key, k)
              \/ key = "correlation_id" /\ Has(value, key, c)
            <3>1. key \in {"envelope", "transport_options", "timeout", "idempotency_key", "correlation_id"}
                BY <2>2 DEF ControlKeys
            <3>2. key = "envelope" => Has(value, key, e)
                BY <1>4, Zenon
            <3>3. key = "transport_options" => Has(value, key, s)
                BY <1>4, Zenon
            <3>4. key = "timeout" => Has(value, key, t)
                BY <1>4, Zenon
            <3>5. key = "idempotency_key" => Has(value, key, k)
                BY <1>4, Zenon
            <3>6. key = "correlation_id" => Has(value, key, c)
                BY <1>4, Zenon
            <3> QED  BY ONLY <3>1, <3>2, <3>3, <3>4, <3>5, <3>6, Zenon
        <2>5. IsObject(item) \/ Is("str", item)
            BY <1>2, <2>3, <2>4
        <2>6. Is("obj", item) => IsSeq(item[2])
            BY <2>5 DEF IsObject, Is
        <2> QED  BY <2>2, <2>6 DEF key, item
    <1>6. Readable(value) /\ value # Null
        BY <1>4, <1>5 DEF Readable, IsObject, Is, Null
    <1>7. WriteSendOptions(o) = <<value>>
        BY <1>1, <1>3
    <1> QED  BY <1>1, <1>4, <1>5, <1>6, <1>7 DEF e, s, t, k, c, value

-------------------------------------------------------------------------------
(* What a worker decodes from a request. *)

(* A request that is decoded consists of what its three fields say.        *)
LEMMA DecodedRequest ==
    ASSUME NEW registry, NEW value, ReadSendRequest(registry, value) # <<>>
    PROVE  LET r == ReadSendRequest(registry, value)[1]
           IN  /\ ReadSendRequest(registry, value) = <<r>> /\ Is("obj", value)
               /\ r = [transport |-> r.transport, message |-> r.message, options |-> r.options]
               /\ Once(value, "transport") /\ Parsed(Value(value, "transport"), NewtypeFromStr) # <<>>
               /\ r.transport = Parsed(Value(value, "transport"), NewtypeFromStr)[1]
               /\ Once(value, "message") /\ ReadOutbound(Value(value, "message")) # <<>>
               /\ r.message = ReadOutbound(Value(value, "message"))[1]
               /\ \/ Found(value, "options") = {} /\ r.options = NoSendOptions
                  \/ /\ Found(value, "options") # {} /\ Once(value, "options")
                     /\ ReadSendOptions(registry, TRUE, Value(value, "options")) # <<>>
                     /\ r.options = ReadSendOptions(registry, TRUE, Value(value, "options"))[1]
    <1> DEFINE a == Required(value, "transport", LAMBDA v : Parsed(v, NewtypeFromStr))
               b == Required(value, "message", ReadOutbound)
               c == OrDefault(value, "options", NoSendOptions, LAMBDA v : ReadSendOptions(registry, TRUE, v))
               raw == [transport |-> a, message |-> b, options |-> c]
               result == ReadSendRequest(registry, value)
               r == result[1]
    <1>1. a # <<>> => Once(value, "transport") /\ a = Parsed(Value(value, "transport"), NewtypeFromStr)
        BY DEF Required
    <1>2. b # <<>> => Once(value, "message") /\ b = ReadOutbound(Value(value, "message"))
        BY DEF Required
    <1>3. \/ Found(value, "options") = {} /\ c = <<NoSendOptions>>
          \/ c = <<>>
          \/ /\ Found(value, "options") # {} /\ Once(value, "options")
             /\ c = ReadSendOptions(registry, TRUE, Value(value, "options"))
        <2> DEFINE lenient == TRUE
        <2>1. c = OrDefault(value, "options", NoSendOptions, LAMBDA v : ReadSendOptions(registry, lenient, v))
            OBVIOUS
        <2> HIDE DEF lenient
        <2>2. \/ Found(value, "options") = {} /\ c = <<NoSendOptions>>
              \/ c = <<>>
              \/ /\ Found(value, "options") # {} /\ Once(value, "options")
                 /\ c = ReadSendOptions(registry, lenient, Value(value, "options"))
            BY <2>1 DEF OrDefault, Required
        <2> QED  BY <2>2 DEF lenient
    <1>4. Is("obj", value) /\ result = All(raw)
        BY DEF ReadSendRequest
    <1> HIDE DEF a, b, c
    <1>5. All(raw) # <<>>
        BY <1>4
    <1>6. /\ result = <<r>> /\ r = [transport |-> a[1], message |-> b[1], options |-> c[1]]
          /\ a # <<>> /\ b # <<>> /\ c # <<>>
        <2>1. raw.transport = a /\ raw.message = b /\ raw.options = c /\ DOMAIN raw = {"transport", "message", "options"}
            OBVIOUS
        <2> HIDE DEF raw
        <2>2. /\ All(raw) = <<[f \in DOMAIN raw |-> raw[f][1]]>>
              /\ \A f \in DOMAIN raw : raw[f] # <<>>
            BY <1>5, AllGives
        <2>3. [f \in DOMAIN raw |-> raw[f][1]] = [transport |-> a[1], message |-> b[1], options |-> c[1]]
            BY <2>1
        <2> HIDE DEF result
        <2> QED  BY <1>4, <2>1, <2>2, <2>3
    <1> HIDE DEF result
    <1>7. r.transport = a[1] /\ r.message = b[1] /\ r.options = c[1]
        BY <1>6
    <1>8. c[1] = c[1] /\ <<NoSendOptions>>[1] = NoSendOptions
        OBVIOUS
    <1>9. \/ Found(value, "options") = {} /\ r.options = NoSendOptions
          \/ /\ Found(value, "options") # {} /\ Once(value, "options")
             /\ ReadSendOptions(registry, TRUE, Value(value, "options")) # <<>>
             /\ r.options = ReadSendOptions(registry, TRUE, Value(value, "options"))[1]
        <2> HIDE DEF r
        <2> QED  BY <1>3, <1>6, <1>7, <1>8, Zenon
    <1>10. /\ result = <<r>> /\ Is("obj", value)
           /\ r = [transport |-> r.transport, message |-> r.message, options |-> r.options]
           /\ Once(value, "transport") /\ Parsed(Value(value, "transport"), NewtypeFromStr) # <<>>
           /\ r.transport = Parsed(Value(value, "transport"), NewtypeFromStr)[1]
           /\ Once(value, "message") /\ ReadOutbound(Value(value, "message")) # <<>>
           /\ r.message = ReadOutbound(Value(value, "message"))[1]
        <2> HIDE DEF r
        <2> QED  BY <1>1, <1>2, <1>4, <1>6, <1>7
    <1> QED  BY <1>9, <1>10 DEF result

(* Options that are decoded have five controls, and slots of registered    *)
(* types.                                                                  *)
LEMMA DecodedOptions ==
    ASSUME NEW registry, NEW ignoreUnknown, NEW value, Readable(value), ReadSendOptions(registry, ignoreUnknown, value) # <<>>
    PROVE  \E o : /\ ReadSendOptions(registry, ignoreUnknown, value) = <<o>>
                  /\ o = [name \in OptionNames |-> o[name]]
                  /\ DOMAIN o.slots \subseteq TypesOf(registry)
    <1> DEFINE result == ReadSendOptions(registry, ignoreUnknown, value)
               fields == value[2]
    <1>1. Is("obj", value)
        BY DEF ReadSendOptions
    <1>2. IsSeq(fields) /\ \A i \in DOMAIN fields : Is("obj", fields[i][2]) => IsSeq(fields[i][2][2])
        BY <1>1 DEF Readable
    <1>3. PICK o : result = <<o>> /\ ControlsAre(registry, ignoreUnknown, fields, o, Len(fields))
        BY <1>1, <1>2, ReadControls
    <1>4. DOMAIN fields = 1..Len(fields)
        BY <1>2, SeqFacts
    <1> HIDE DEF fields
    <1>5. o = [name \in OptionNames |-> o[name]]
        BY <1>3 DEF ControlsAre
    <1>6. DOMAIN o["slots"] \subseteq TypesOf(registry)
        <2>1. "slots" \in OptionNames
            BY DEF OptionNames
        <2>2. CASE o["slots"] = NoSendOptions["slots"]
            BY <2>2 DEF NoSendOptions, NoSlots
        <2>3. CASE o["slots"] # NoSendOptions["slots"]
            <3>1. PICK i \in 1..Len(fields) : /\ Sets(fields[i], "slots")
                                              /\ Meaning(registry, ignoreUnknown, fields[i]) = <<o["slots"]>>
                BY <1>3, <2>1, <2>3 DEF ControlsAre
            <3> DEFINE field == fields[i]
                       item == field[2]
            <3>2. Is("obj", item) => IsSeq(item[2])
                BY <1>2, <1>4
            <3>3. field[1] = "transport_options"
                BY <3>1 DEF Sets, ControlKeys, ControlName
            <3>4. Meaning(registry, ignoreUnknown, field) = ReadTransportOptions(registry, ignoreUnknown, item)
                BY <3>3 DEF Meaning
            <3> HIDE DEF field, item
            <3>5. \/ ReadTransportOptions(registry, ignoreUnknown, item) = <<>>
                  \/ \E slots : /\ ReadTransportOptions(registry, ignoreUnknown, item) = <<slots>>
                                /\ DOMAIN slots \subseteq TypesOf(registry)
                BY <3>2, SlotsKnown
            <3>6. ReadTransportOptions(registry, ignoreUnknown, item) = <<o["slots"]>>
                BY <3>1, <3>4 DEF field
            <3> QED  BY <3>5, <3>6
        <2> QED  BY <2>2, <2>3
    <1>7. o["slots"] = o.slots
        OBVIOUS
    <1> QED  BY <1>3, <1>5, <1>6, <1>7

(* An option whose type the registry owns is of the type that registered   *)
(* its key first.                                                          *)
LEMMA FirstType ==
    ASSUME NEW registry, NEW types, IsSeq(types), Owned(registry, types, Len(types)), NEW type \in TypesOf(registry)
    PROVE  types[Min({i \in DOMAIN types : ProviderKey(types[i]) = ProviderKey(type)})] = type
    <1> DEFINE n == Len(types)
               same == {i \in DOMAIN types : ProviderKey(types[i]) = ProviderKey(type)}
    <1>1. n \in Nat /\ DOMAIN types = 1..n
        BY SeqFacts
    <1>2. PICK key \in DOMAIN registry : registry[key] = type
        BY DEF TypesOf
    <1>3. PICK k \in 1..n : /\ registry[key] = types[k] /\ ProviderKey(types[k]) = key
                            /\ \A j \in 1..n : ProviderKey(types[j]) = key => k <= j
        BY <1>2 DEF Owned
    <1>4. k \in same /\ \A j \in same : k <= j
        BY <1>1, <1>2, <1>3
    <1>5. same \subseteq Int
        BY <1>1
    <1> HIDE DEF same
    <1>6. Min(same) = k
        <2>1. Min(same) \in same /\ \A j \in same : Min(same) <= j
            BY <1>4 DEF Min
        <2> DEFINE least == Min(same)
        <2>2. least \in Int /\ k \in Int /\ least <= k /\ k <= least
            BY <1>4, <1>5, <2>1
        <2> HIDE DEF least
        <2>3. least = k
            BY <2>2
        <2> QED  BY <2>3 DEF least
    <1> QED  BY <1>2, <1>3, <1>6 DEF same

-------------------------------------------------------------------------------
(* The inductive invariant: each variable is what the code makes of the    *)
(* one before it, and of the scenario.                                     *)

PostedAsWritten ==
    body # <<>> =>
      \/ IsForeign /\ body = scenario.foreign
      \/ /\ ~IsForeign /\ WriteSendRequest(scenario) # <<>>
         /\ body = <<[json |-> WriteSendRequest(scenario)[1], trailing |-> FALSE]>>
         /\ header = scenario.options.key

ReadAsPosted ==
    request # <<>> =>
      /\ body # <<>> /\ request = <<Deserialize(Registry, body[1])>>
      /\ request[1] = <<>> => outcome # <<>>

(* What a worker makes of a request it decoded, or could not decode. *)
Handed(s, r) ==
    LET found == ResolveTransport(s, r.transport)
    IN  IF found = <<>> THEN [error |-> "UnknownKey", report |-> <<>>, payload |-> <<>>] ELSE SendVia(found[1], r)

HandledAsRead ==
    outcome # <<>> =>
      /\ request # <<>>
      /\ outcome = <<IF request[1] = <<>> THEN [error |-> "InvalidRequest", report |-> <<>>, payload |-> <<>>]
                     ELSE Handed(scenario, request[1][1])>>

QueuedReport ==
    LET asserted == IF scenario.customEnvelope THEN {"custom_envelope"} ELSE {}
    IN  SendReport("restate", <<"invocation">>, StructuredAcceptedFor(scenario.message, scenario.options, asserted))

AnsweredAsHandled ==
    answer # <<>> =>
      /\ ~IsForeign
      /\ \/ answer[1].error # "none"
         \/ Mode = "queued" /\ answer[1].report = <<QueuedReport>>
         \/ /\ Mode = "sent" /\ outcome # <<>> /\ outcome[1].error = "none"
            /\ answer[1].report = ReadReport(WriteReport(outcome[1].report[1]))

IInv == scenario \in Scenarios /\ PostedAsWritten /\ ReadAsPosted /\ HandledAsRead /\ AnsweredAsHandled

(* Initially there is nothing to agree on.                                 *)
LEMMA InitIInv == Init => IInv
    BY DEF Init, IInv, PostedAsWritten, ReadAsPosted, HandledAsRead, AnsweredAsHandled

(* Each action fills in one variable from those before it.                 *)
LEMMA StepIInv == IInv /\ [Next]_vars => IInv'
    <1> SUFFICES ASSUME IInv, [Next]_vars PROVE IInv'
        OBVIOUS
    <1> USE DEF IInv
    <1>1. ASSUME NEW error \in {"Validation", "Internal"}, InvokeRefused(error) PROVE IInv'
        <2>1. answer' = <<[error |-> error, report |-> <<>>]>> /\ UNCHANGED <<scenario, body, header, request, outcome>> /\ ~IsForeign
            BY <1>1 DEF InvokeRefused
        <2>2. PostedAsWritten' /\ ReadAsPosted' /\ HandledAsRead'
            BY <2>1 DEF PostedAsWritten, ReadAsPosted, HandledAsRead, IsForeign, Registry
        <2>3. AnsweredAsHandled'
            <3>1. answer'[1].error # "none" /\ ~IsForeign'
                BY <2>1 DEF IsForeign
            <3> QED  BY <3>1 DEF AnsweredAsHandled
        <2> QED  BY <2>1, <2>2, <2>3
    <1>2. CASE Invoke
        <2>1. /\ body = <<>> /\ answer = <<>> /\ ~IsForeign /\ WriteSendRequest(scenario) # <<>>
              /\ body' = <<[json |-> WriteSendRequest(scenario)[1], trailing |-> FALSE]>>
              /\ header' = scenario.options.key /\ UNCHANGED <<scenario, request, outcome, answer>>
            BY <1>2 DEF Invoke
        <2>2. PostedAsWritten'
            BY <2>1 DEF PostedAsWritten, IsForeign
        <2>3. request = <<>> /\ outcome = <<>>
            BY <2>1 DEF ReadAsPosted, HandledAsRead
        <2> QED  BY <2>1, <2>2, <2>3 DEF ReadAsPosted, HandledAsRead, AnsweredAsHandled
    <1>3. CASE Arrive
        <2>1. /\ body = <<>> /\ IsForeign /\ body' = scenario.foreign /\ UNCHANGED <<scenario, header, request, outcome, answer>>
            BY <1>3 DEF Arrive
        <2>2. PostedAsWritten'
            BY <2>1 DEF PostedAsWritten, IsForeign
        <2>3. request = <<>> /\ outcome = <<>> /\ answer = <<>>
            BY <2>1 DEF ReadAsPosted, HandledAsRead, AnsweredAsHandled
        <2> QED  BY <2>1, <2>2, <2>3 DEF ReadAsPosted, HandledAsRead, AnsweredAsHandled
    <1>4. CASE Handle
        <2>1. /\ body # <<>> /\ request = <<>> /\ UNCHANGED <<scenario, body, header, answer>>
              /\ request' = <<Deserialize(OptionRegistry(scenario.defaults, scenario.types), body[1])>>
              /\ outcome' = IF request'[1] = <<>> THEN <<[error |-> "InvalidRequest", report |-> <<>>, payload |-> <<>>]>>
                            ELSE outcome
            BY <1>4 DEF Handle
        <2>2. outcome = <<>>
            BY <2>1 DEF HandledAsRead
        <2>3. PostedAsWritten'
            BY <2>1 DEF PostedAsWritten, IsForeign
        <2>4. ReadAsPosted'
            <3>1. request'[1] = <<>> => outcome' # <<>>
                BY <2>1
            <3> QED  BY <2>1, <3>1 DEF ReadAsPosted, Registry
        <2>5. HandledAsRead'
            BY <2>1, <2>2 DEF HandledAsRead
        <2>6. AnsweredAsHandled'
            <3>1. answer # <<>> => ~IsForeign /\ (answer[1].error # "none" \/ (Mode = "queued" /\ answer[1].report = <<QueuedReport>>))
                BY <2>2 DEF AnsweredAsHandled
            <3>2. IsForeign' = IsForeign /\ Mode' = Mode /\ QueuedReport' = QueuedReport
                BY <2>1 DEF IsForeign, Mode, RestateOptions, QueuedReport
            <3> QED  BY <2>1, <3>1, <3>2 DEF AnsweredAsHandled
        <2> QED  BY <2>1, <2>3, <2>4, <2>5, <2>6
    <1>5. CASE SendRequest
        <2>1. /\ request # <<>> /\ outcome = <<>> /\ UNCHANGED <<scenario, body, header, request, answer>>
              /\ outcome' = <<Handed(scenario, request[1][1])>>
            BY <1>5 DEF SendRequest, Handed
        <2>2. request[1] # <<>>
            BY <2>1 DEF ReadAsPosted
        <2>3. PostedAsWritten' /\ ReadAsPosted' /\ HandledAsRead'
            BY <2>1, <2>2 DEF PostedAsWritten, ReadAsPosted, HandledAsRead, IsForeign, Registry
        <2>4. AnsweredAsHandled'
            <3>1. answer # <<>> => ~IsForeign /\ (answer[1].error # "none" \/ (Mode = "queued" /\ answer[1].report = <<QueuedReport>>))
                BY <2>1 DEF AnsweredAsHandled
            <3>2. IsForeign' = IsForeign /\ Mode' = Mode /\ QueuedReport' = QueuedReport
                BY <2>1 DEF IsForeign, Mode, RestateOptions, QueuedReport
            <3> QED  BY <2>1, <3>1, <3>2 DEF AnsweredAsHandled
        <2> QED  BY <2>1, <2>3, <2>4
    <1>6. CASE AnswerQueued
        <2>1. /\ answer' = <<[error |-> "none", report |-> <<QueuedReport>>]>> /\ UNCHANGED <<scenario, body, header, request, outcome>>
              /\ ~IsForeign /\ Mode = "queued"
            BY <1>6 DEF AnswerQueued, QueuedReport
        <2>2. PostedAsWritten' /\ ReadAsPosted' /\ HandledAsRead'
            BY <2>1 DEF PostedAsWritten, ReadAsPosted, HandledAsRead, IsForeign, Registry
        <2>3. AnsweredAsHandled'
            <3>1. answer'[1].report = <<QueuedReport>>
                BY <2>1
            <3>2. IsForeign' = IsForeign /\ Mode' = Mode /\ QueuedReport' = QueuedReport
                BY <2>1 DEF IsForeign, Mode, RestateOptions, QueuedReport
            <3> QED  BY <2>1, <3>1, <3>2 DEF AnsweredAsHandled
        <2> QED  BY <2>1, <2>2, <2>3
    <1>7. CASE AnswerSent
        <2> DEFINE read == ReadReport(WriteReport(outcome[1].report[1]))
        <2>1. /\ ~IsForeign /\ Mode = "sent" /\ outcome # <<>> /\ UNCHANGED <<scenario, body, header, request, outcome>>
              /\ answer' = <<IF outcome[1].error # "none" THEN [error |-> outcome[1].error, report |-> <<>>]
                            ELSE [error |-> "none", report |-> read]>>
            BY <1>7 DEF AnswerSent
        <2>2. PostedAsWritten' /\ ReadAsPosted' /\ HandledAsRead'
            BY <2>1 DEF PostedAsWritten, ReadAsPosted, HandledAsRead, IsForeign, Registry
        <2>3. AnsweredAsHandled'
            <3>1. IsForeign' = IsForeign /\ Mode' = Mode
                BY <2>1 DEF IsForeign, Mode, RestateOptions
            <3>2. CASE outcome[1].error # "none"
                <4>1. answer'[1].error # "none"
                    BY <2>1, <3>2
                <4> QED  BY <2>1, <3>1, <4>1 DEF AnsweredAsHandled
            <3>3. CASE outcome[1].error = "none"
                <4>1. answer'[1].report = read
                    BY <2>1, <3>3
                <4>2. ReadReport(WriteReport(outcome'[1].report[1])) = read
                    BY <2>1
                <4> QED  BY <2>1, <3>1, <3>3, <4>1, <4>2 DEF AnsweredAsHandled
            <3> QED  BY <3>2, <3>3
        <2> QED  BY <2>1, <2>2, <2>3
    <1>8. CASE UNCHANGED vars
        <2>1. UNCHANGED <<scenario, body, header, request, outcome, answer>>
            BY <1>8 DEF vars
        <2>2. PostedAsWritten' /\ ReadAsPosted' /\ HandledAsRead'
            BY <2>1 DEF PostedAsWritten, ReadAsPosted, HandledAsRead, IsForeign, Registry
        <2>3. IsForeign' = IsForeign /\ Mode' = Mode /\ QueuedReport' = QueuedReport
            BY <2>1 DEF IsForeign, Mode, RestateOptions, QueuedReport
        <2> QED  BY <2>1, <2>2, <2>3 DEF AnsweredAsHandled
    <1> QED  BY <1>1, <1>2, <1>3, <1>4, <1>5, <1>6, <1>7, <1>8 DEF Next

(* What was posted, read, handed on and answered is each what the code     *)
(* makes of the one before, and of the scenario.                           *)
THEOREM ContentInvariant == Spec => []IInv
    <1>1. Init => IInv
        BY InitIInv
    <1>2. IInv /\ [Next]_vars => IInv'
        BY StepIInv
    <1> QED  BY <1>1, <1>2, PTL DEF Spec

-------------------------------------------------------------------------------
(* What was posted and what is decoded from it. *)

(* A request as it is written.                                             *)
LEMMA RequestWritten ==
    ASSUME NEW r, IsSendRequest(r)
    PROVE  LET posted == WriteSendRequest(r)[1]
               written == WriteSendOptions(r.options)
           IN  /\ written # <<>> <=> WriteSendRequest(r) # <<>>
               /\ WriteSendRequest(r) # <<>> =>
                    /\ WriteSendRequest(r) = <<posted>> /\ IsObject(posted)
                    /\ Once(posted, "options") /\ Found(posted, "options") # {} /\ Value(posted, "options") = written[1]
                    /\ Once(posted, "message") /\ Value(posted, "message") = WriteMessage(r.message)
                    /\ Once(posted, "transport") /\ Value(posted, "transport") = Text(r.transport)
    <1> DEFINE written == WriteSendOptions(r.options)
               posted == WriteSendRequest(r)[1]
               a == Text(r.transport)
               b == WriteMessage(r.message)
               result == WriteSendRequest(r)
    <1>1. result = [i \in DOMAIN written |-> Object(<<(<<"transport", <<a>>>>), <<"message", <<b>>>>, <<"options", <<written[i]>>>>>>)]
        BY DEF WriteSendRequest, Map, Always
    <1>2. IsSendOptions(r.options)
        BY DEF IsSendRequest
    <1>3. written # <<>> => written = <<written[1]>>
        BY <1>2, WrittenOptions
    <1> HIDE DEF written, a, b, result
    <1>4. result = [i \in DOMAIN written |-> result[i]] /\ AnOption(written)
        BY <1>1, <1>3 DEF AnOption
    <1>5. (written = <<>> <=> result = <<>>) /\ (written # <<>> => result = <<result[1]>> /\ 1 \in DOMAIN written)
        BY <1>4, OptionImage
    <1>6. CASE written = <<>>
        BY <1>5, <1>6 DEF result, written
    <1>7. CASE written # <<>>
        <2> DEFINE only == written[1]
                   json == result[1]
        <2>1. json = Object(<<(<<"transport", <<a>>>>), <<"message", <<b>>>>, <<"options", <<only>>>>>>)
            BY <1>1, <1>5, <1>7
        <2> HIDE DEF only, json
        <2>2. IsObject(json) /\ Has(json, "transport", <<a>>) /\ Has(json, "message", <<b>>) /\ Has(json, "options", <<only>>)
            <3>1. AnOption(<<a>>) /\ AnOption(<<b>>) /\ AnOption(<<only>>)
                BY DEF AnOption
            <3> QED  BY <2>1, <3>1, ObjectOf3
        <2>3. /\ Once(json, "options") /\ Found(json, "options") # {} /\ Value(json, "options") = only
              /\ Once(json, "message") /\ Value(json, "message") = b
              /\ Once(json, "transport") /\ Value(json, "transport") = a
            BY <2>2 DEF Has
        <2>4. result = <<json>> /\ result # <<>>
            BY <1>5, <1>7 DEF json
        <2> QED  BY <1>7, <2>2, <2>3, <2>4 DEF only, json, result, written, a, b
    <1> QED  BY <1>6, <1>7

(* What a caller posts, field by field. *)
LEMMA PostedOptions ==
    ASSUME IInv, body # <<>>, ~IsForeign
    PROVE  LET posted == body[1].json
               written == WriteSendOptions(scenario.options)
           IN  /\ IsSendRequest(scenario) /\ written # <<>> /\ IsObject(posted) /\ body[1].trailing = FALSE
               /\ Once(posted, "options") /\ Found(posted, "options") # {} /\ Value(posted, "options") = written[1]
               /\ Once(posted, "message") /\ Value(posted, "message") = WriteMessage(scenario.message)
               /\ Once(posted, "transport") /\ Value(posted, "transport") = Text(scenario.transport)
    <1> DEFINE posted == WriteSendRequest(scenario)[1]
    <1>1. IsSendRequest(scenario)
        BY ScenariosAssumption DEF IInv, IsForeign
    <1>2. WriteSendRequest(scenario) # <<>> /\ body = <<[json |-> posted, trailing |-> FALSE]>>
        BY DEF IInv, PostedAsWritten
    <1>3. /\ WriteSendOptions(scenario.options) # <<>> /\ IsObject(posted)
          /\ Once(posted, "options") /\ Found(posted, "options") # {} /\ Value(posted, "options") = WriteSendOptions(scenario.options)[1]
          /\ Once(posted, "message") /\ Value(posted, "message") = WriteMessage(scenario.message)
          /\ Once(posted, "transport") /\ Value(posted, "transport") = Text(scenario.transport)
        BY <1>1, <1>2, RequestWritten
    <1> HIDE DEF posted
    <1>4. body[1].json = posted /\ body[1].trailing = FALSE
        BY <1>2
    <1> QED  BY <1>1, <1>3, <1>4

(* What another program posts is one of its JSON values.                   *)
LEMMA PostedJson ==
    ASSUME IInv, body # <<>>, IsForeign
    PROVE  body[1].json \in JsonValues
    BY ScenariosAssumption DEF IInv, PostedAsWritten, IsForeign

(* A decoded request was read from the body.                               *)
LEMMA RequestDecoded ==
    ASSUME IInv, Decoded
    PROVE  LET read == ReadSendRequest(Registry, body[1].json)
           IN  body # <<>> /\ read # <<>> /\ request[1] = read /\ request[1][1] = read[1]
    BY DEF IInv, ReadAsPosted, Decoded, Deserialize

(* The slots of a decoded request are of registered types.                 *)
LEMMA DecodedSlots ==
    ASSUME IInv, Decoded
    PROVE  LET o == request[1][1].options
           IN  o = [name \in OptionNames |-> o[name]] /\ DOMAIN o.slots \subseteq TypesOf(Registry)
    <1> DEFINE json == body[1].json
               registry == Registry
               read == ReadSendRequest(registry, json)
               r == read[1]
               lenient == TRUE
    <1>1. body # <<>> /\ read # <<>> /\ request[1][1] = r
        BY RequestDecoded
    <1>2. /\ Is("obj", json)
          /\ \/ Found(json, "options") = {} /\ r.options = NoSendOptions
             \/ /\ Found(json, "options") # {} /\ Once(json, "options")
                /\ ReadSendOptions(registry, lenient, Value(json, "options")) # <<>>
                /\ r.options = ReadSendOptions(registry, lenient, Value(json, "options"))[1]
        <2> HIDE DEF json, registry
        <2> QED  BY <1>1, DecodedRequest
    <1>3. Once(json, "options") => Readable(Value(json, "options"))
        <2>1. CASE IsForeign
            <3>1. json \in JsonValues
                BY <1>1, <2>1, PostedJson
            <3> HIDE DEF json
            <3>2. Once(json, "options") => Value(json, "options") \in JsonValues
                BY <1>2, <3>1, JsonParts
            <3> QED  BY <3>2, JsonParts
        <2>2. CASE ~IsForeign
            <3>1. /\ IsSendOptions(scenario.options) /\ WriteSendOptions(scenario.options) # <<>>
                  /\ Value(json, "options") = WriteSendOptions(scenario.options)[1]
                BY <1>1, <2>2, PostedOptions DEF IsSendRequest
            <3>2. Readable(WriteSendOptions(scenario.options)[1])
                BY <3>1, WrittenOptions
            <3> QED  BY <3>1, <3>2
        <2> QED  BY <2>1, <2>2
    <1> HIDE DEF json, registry, read, lenient, r
    <1>4. r.options = [name \in OptionNames |-> r.options[name]] /\ DOMAIN r.options.slots \subseteq TypesOf(registry)
        <2>1. CASE r.options = NoSendOptions
            <3>1. NoSendOptions = [name \in OptionNames |-> NoSendOptions[name]] /\ NoSendOptions.slots = NoSlots
                BY DEF NoSendOptions, OptionNames
            <3>2. DOMAIN NoSlots = {}
                BY DEF NoSlots
            <3> QED  BY <2>1, <3>1, <3>2
        <2>2. CASE r.options # NoSendOptions
            <3> DEFINE value == Value(json, "options")
            <3>1. /\ Readable(value) /\ ReadSendOptions(registry, lenient, value) # <<>>
                  /\ r.options = ReadSendOptions(registry, lenient, value)[1]
                BY <1>2, <1>3, <2>2
            <3> HIDE DEF value
            <3>2. PICK o : /\ ReadSendOptions(registry, lenient, value) = <<o>>
                           /\ o = [name \in OptionNames |-> o[name]]
                           /\ DOMAIN o.slots \subseteq TypesOf(registry)
                BY <3>1, DecodedOptions
            <3>3. r.options = o
                BY <3>1, <3>2
            <3> QED  BY <3>2, <3>3
        <2> QED  BY <2>1, <2>2
    <1> QED  BY <1>1, <1>4 DEF registry

(* No request is posted with two options under one provider key, and in    *)
(* the worker an option has the type that registered its key first         *)
(* (TransportOptions::serialize, TransportOptionRegistry::register).       *)
THEOREM OneOptionPerKeyHolds == Spec => []OneOptionPerKey
    <1>1. ASSUME IInv, body # <<>>, ~IsForeign
          PROVE  LET options == Value(body[1].json, "options")
                 IN  \A field \in Found(options, "transport_options") : \A j, k \in DOMAIN options[2][field][2][2] :
                       options[2][field][2][2][j][1] = options[2][field][2][2][k][1] => j = k
        <2> DEFINE options == Value(body[1].json, "options")
                   slots == SlotsOption(scenario.options)
                   n == Len(SetToSeq(DOMAIN scenario.options.slots))
        <2>1. IsSendOptions(scenario.options) /\ WriteSendOptions(scenario.options) # <<>> /\ options = WriteSendOptions(scenario.options)[1]
            BY <1>1, PostedOptions DEF IsSendRequest
        <2>2. Has(options, "transport_options", slots)
            BY <2>1, WrittenOptions
        <2>3. AnOption(slots) /\ (slots # <<>> => \E fields : slots[1] = Obj(fields) /\ WrittenSlots(fields, scenario.options.slots, n))
            BY <2>1, WroteSlotsOption
        <2> HIDE DEF options, slots, n
        <2>4. ASSUME NEW field \in Found(options, "transport_options"), NEW j \in DOMAIN options[2][field][2][2],
                     NEW k \in DOMAIN options[2][field][2][2],
                     options[2][field][2][2][j][1] = options[2][field][2][2][k][1]
              PROVE  j = k
            <3>1. slots # <<>> /\ Once(options, "transport_options") /\ Value(options, "transport_options") = slots[1]
                BY <2>2, <2>4 DEF Has
            <3>2. Found(options, "transport_options") = {field}
                BY <2>4, <3>1 DEF Once
            <3>3. Value(options, "transport_options") = options[2][field][2]
                BY <3>2 DEF Value
            <3>4. PICK fields : slots[1] = Obj(fields) /\ WrittenSlots(fields, scenario.options.slots, n)
                BY <2>3, <3>1
            <3>5. options[2][field][2][2] = fields
                BY <3>1, <3>3, <3>4 DEF Obj
            <3>6. DOMAIN fields = 1..n
                BY <3>4, SeqFacts DEF WrittenSlots
            <3> QED  BY <2>4, <3>4, <3>5, <3>6 DEF WrittenSlots
        <2> QED  BY <2>4 DEF options
    <1>2. ASSUME IInv, Decoded, NEW type \in DOMAIN request[1][1].options.slots
          PROVE  LET types == (IF scenario.defaults THEN <<"ResendSendOptions">> ELSE <<>>) \o scenario.types
                 IN  types[Min({i \in DOMAIN types : ProviderKey(types[i]) = ProviderKey(type)})] = type
        <2> DEFINE types == RegisteredTypes(scenario.defaults, scenario.types)
        <2>1. IsSeq(scenario.types)
            BY <1>2, ScenariosAssumption DEF IInv
        <2>2. IsSeq(types) /\ Owned(Registry, types, Len(types))
            BY <2>1, FirstOwner DEF Registry
        <2>3. type \in TypesOf(Registry)
            BY <1>2, DecodedSlots
        <2> HIDE DEF types
        <2>4. types[Min({i \in DOMAIN types : ProviderKey(types[i]) = ProviderKey(type)})] = type
            BY <2>2, <2>3, FirstType
        <2> QED  BY <2>4 DEF types, RegisteredTypes
    <1>3. IInv => OneOptionPerKey
        BY <1>1, <1>2 DEF OneOptionPerKey
    <1> QED  BY <1>3, ContentInvariant, PTL

-------------------------------------------------------------------------------
(* The messages a worker decodes, its own callers' and those of others. *)

IsFile(a) ==
    a = [type |-> a.type, filename |-> a.filename, cid |-> a.cid, inline |-> a.inline, reference |-> a.reference,
         content |-> a.content]

SoundMessage(m) ==
    /\ m = [from |-> m.from, sender |-> m.sender, to |-> m.to, cc |-> m.cc, bcc |-> m.bcc, replyTo |-> m.replyTo,
            subject |-> m.subject, date |-> m.date, messageId |-> m.messageId, headers |-> m.headers,
            body |-> m.body, attachments |-> m.attachments]
    /\ IsList(m.to, Shaped) /\ IsList(m.cc, Shaped) /\ IsList(m.bcc, Shaped) /\ IsList(m.replyTo, Shaped)
    /\ AnOption(m.sender) /\ AnOption(m.date) /\ AnOption(m.messageId)
    /\ IsSeq(m.headers) /\ IsList(m.attachments, IsFile)

(* A caller's message is sound.                                            *)
LEMMA OwnMessageSound ==
    ASSUME NEW m, IsMessage(m)
    PROVE  SoundMessage(m)
    <1>1. \A mailbox : IsMailbox(mailbox) => IsBox(mailbox)
        BY DEF IsMailbox, IsBox, Mailbox
    <1>2. \A address : IsAddress(address) => Shaped(address)
        BY <1>1 DEF IsAddress, IsGroup, Shaped, IsList
    <1>3. \A list : IsList(list, IsAddress) => IsList(list, Shaped)
        BY <1>2 DEF IsList
    <1>4. m["to"] = m.to /\ m["cc"] = m.cc /\ m["bcc"] = m.bcc /\ m["replyTo"] = m.replyTo
        OBVIOUS
    <1>5. IsList(m.to, IsAddress) /\ IsList(m.cc, IsAddress) /\ IsList(m.bcc, IsAddress) /\ IsList(m.replyTo, IsAddress)
        BY <1>4 DEF IsMessage
    <1>6. IsSeq(m.headers) /\ IsList(m.attachments, IsFile)
        BY DEF IsMessage, IsList, IsAttachment, IsFile
    <1>7. AnOption(m.sender) /\ AnOption(m.date) /\ AnOption(m.messageId)
        BY DEF IsMessage, IsOption, AnOption
    <1>8. m = [from |-> m.from, sender |-> m.sender, to |-> m.to, cc |-> m.cc, bcc |-> m.bcc, replyTo |-> m.replyTo,
               subject |-> m.subject, date |-> m.date, messageId |-> m.messageId, headers |-> m.headers,
               body |-> m.body, attachments |-> m.attachments]
        BY DEF IsMessage
    <1> QED  BY <1>3, <1>5, <1>6, <1>7, <1>8 DEF SoundMessage

(* The message a worker decodes from a caller's request is the caller's;   *)
(* the transport key as well.                                              *)
LEMMA CallerDecoded ==
    ASSUME IInv, Decoded, ~IsForeign
    PROVE  request[1][1].message = scenario.message /\ request[1][1].transport = scenario.transport
    <1> DEFINE json == body[1].json
               registry == Registry
               message == scenario.message
               r == ReadSendRequest(registry, json)[1]
    <1>1. body # <<>> /\ ReadSendRequest(registry, json) # <<>> /\ request[1][1] = r
        BY RequestDecoded
    <1>2. /\ IsMessage(message) /\ ValidateBasic(message) = "none" /\ Value(json, "message") = WriteMessage(message)
          /\ IsParsed(scenario.transport, NewtypeFromStr) /\ Value(json, "transport") = Text(scenario.transport)
        BY <1>1, PostedOptions DEF IsSendRequest
    <1> HIDE DEF json, registry, r, message
    <1>3. /\ r.message = ReadOutbound(Value(json, "message"))[1]
          /\ r.transport = Parsed(Value(json, "transport"), NewtypeFromStr)[1]
        BY <1>1, DecodedRequest DEF r
    <1>4. ReadOutbound(WriteMessage(message)) = <<message>>
        <2>1. ReadMessage(WriteMessage(message)) = <<message>>
            BY <1>2, MessageBack
        <2> QED  BY <1>2, <2>1 DEF ReadOutbound, OutboundNew
    <1>5. Parsed(Text(scenario.transport), NewtypeFromStr) = <<scenario.transport>>
        BY <1>2, ParsedBack
    <1>6. r.message = message
        BY <1>2, <1>3, <1>4
    <1>7. r.transport = scenario.transport
        BY <1>2, <1>3, <1>5
    <1> QED  BY <1>1, <1>6, <1>7 DEF message

(* Whatever a worker decodes is a message that could be sent, under a key  *)
(* that is one: whoever posted it.                                         *)
LEMMA DecodedMessage ==
    ASSUME IInv, Decoded
    PROVE  LET r == request[1][1]
           IN  IsMessage(r.message) /\ ValidateBasic(r.message) = "none" /\ IsParsed(r.transport, NewtypeFromStr)
    <1>1. CASE ~IsForeign
        <2>1. IsSendRequest(scenario)
            BY <1>1, RequestDecoded, PostedOptions
        <2> QED  BY <1>1, <2>1, CallerDecoded DEF IsSendRequest
    <1>2. CASE IsForeign
        <2> DEFINE json == body[1].json
                   registry == Registry
                   r == ReadSendRequest(registry, json)[1]
                   value == Value(json, "message")
                   key == Value(json, "transport")
        <2>1. body # <<>> /\ ReadSendRequest(registry, json) # <<>> /\ request[1][1] = r
            BY RequestDecoded
        <2>2. json \in JsonValues
            BY <1>2, <2>1, PostedJson
        <2> HIDE DEF json, registry, r
        <2>3. /\ Is("obj", json) /\ Once(json, "message") /\ ReadOutbound(Value(json, "message")) # <<>>
              /\ r.message = ReadOutbound(Value(json, "message"))[1]
              /\ Once(json, "transport") /\ Parsed(Value(json, "transport"), NewtypeFromStr) # <<>>
              /\ r.transport = Parsed(Value(json, "transport"), NewtypeFromStr)[1]
            BY <2>1, DecodedRequest DEF r
        <2>4. value \in JsonValues /\ key \in JsonValues
            BY <2>2, <2>3, JsonParts
        <2>5. /\ ReadOutbound(value) # <<>> /\ r.message = ReadOutbound(value)[1]
              /\ Parsed(key, NewtypeFromStr) # <<>> /\ r.transport = Parsed(key, NewtypeFromStr)[1]
            BY <2>3
        <2> HIDE DEF value, key
        <2>6. ReadMessage(value) # <<>> /\ ReadOutbound(value)[1] = ReadMessage(value)[1]
              /\ ValidateBasic(ReadMessage(value)[1]) = "none"
            BY <2>5 DEF ReadOutbound, OutboundNew
        <2>7. IsMessage(ReadMessage(value)[1])
            BY <2>4, <2>6, MessageRead
        <2>8. IsParsed(r.transport, NewtypeFromStr)
            BY <2>4, <2>5, NewtypeJson
        <2>9. IsMessage(r.message) /\ ValidateBasic(r.message) = "none"
            BY <2>5, <2>6, <2>7
        <2> QED  BY <2>1, <2>8, <2>9
    <1> QED  BY <1>1, <1>2

(* So it is sound.                                                         *)
LEMMA DecodedMessageSound ==
    ASSUME IInv, Decoded
    PROVE  SoundMessage(request[1][1].message)
    BY DecodedMessage, OwnMessageSound

(* What a worker makes of a request. *)

Providers == {"resend", "cloudflare", "memory"}

(* A transport that is resolved is one of the scenario's.                  *)
LEMMA RouteFound ==
    ASSUME NEW s \in Scenarios, NEW key, ResolveTransport(s, key) # <<>>
    PROVE  ResolveTransport(s, key)[1].provider \in Providers
    <1> DEFINE routes == s.routes
               registry == CreateRegistry(routes)
    <1>1. /\ IsSeq(routes) /\ (s.catchAll => routes # <<>>)
          /\ \A i \in DOMAIN routes : routes[i][2].provider \in Providers
        BY ScenariosAssumption DEF Providers
    <1>2. Len(routes) \in Nat /\ DOMAIN routes = 1..Len(routes)
        BY <1>1, SeqFacts
    <1>3. CASE s.catchAll
        <2>1. ResolveTransport(s, key) = <<routes[1][2]>>
            BY <1>3 DEF ResolveTransport
        <2>2. 1 \in DOMAIN routes
            BY <1>1, <1>2, <1>3, EmptyIsSeq
        <2> HIDE DEF routes
        <2> QED  BY <1>1, <2>1, <2>2
    <1>4. CASE ~s.catchAll
        <2> DEFINE same == {i \in DOMAIN routes : routes[i][1] = key}
        <2>1. key \in DOMAIN registry /\ ResolveTransport(s, key) = <<registry[key]>>
            BY <1>4 DEF ResolveTransport
        <2> HIDE DEF routes
        <2>2. same # {} /\ registry[key] = routes[Max(same)][2]
            BY <2>1 DEF CreateRegistry
        <2>3. same \subseteq 0..Len(routes)
            BY <1>2
        <2>4. Max(same) \in same
            <3> HIDE DEF same
            <3> QED  BY <1>2, <2>2, <2>3, Greatest
        <2>5. Max(same) \in DOMAIN routes
            BY <2>4
        <2> QED  BY <1>1, <2>1, <2>2, <2>5
    <1> QED  BY <1>3, <1>4

(* The transport that sends is one of the scenario's. *)
LEMMA WorkerSends ==
    ASSUME IInv, Sent
    PROVE  /\ Decoded
           /\ \E transport : /\ transport.provider \in Providers /\ outcome[1] = SendVia(transport, request[1][1])
                             /\ outcome[1].error = "none"
    <1> DEFINE r == request[1][1]
               found == ResolveTransport(scenario, r.transport)
    <1>1. /\ scenario \in Scenarios /\ outcome # <<>> /\ outcome[1].error = "none" /\ request # <<>>
          /\ outcome = <<IF request[1] = <<>> THEN [error |-> "InvalidRequest", report |-> <<>>, payload |-> <<>>]
                         ELSE Handed(scenario, r)>>
        BY DEF IInv, HandledAsRead, Sent
    <1>2. request[1] # <<>> /\ outcome[1] = Handed(scenario, r)
        BY <1>1
    <1>3. found # <<>> /\ outcome[1] = SendVia(found[1], r)
        BY <1>1, <1>2 DEF Handed
    <1>4. found[1].provider \in Providers
        BY <1>1, <1>3, RouteFound
    <1> QED  BY <1>1, <1>2, <1>3, <1>4 DEF Decoded

(* A message with its attachments resolved is the same message otherwise.  *)
Same(m, sent) ==
    /\ SoundMessage(sent)
    /\ sent.from = m.from /\ sent.sender = m.sender /\ sent.to = m.to /\ sent.cc = m.cc /\ sent.bcc = m.bcc
    /\ sent.replyTo = m.replyTo /\ sent.subject = m.subject /\ sent.date = m.date /\ sent.messageId = m.messageId
    /\ sent.headers = m.headers /\ sent.body = m.body
    /\ DOMAIN sent.attachments = DOMAIN m.attachments
    /\ \A i \in DOMAIN m.attachments : /\ sent.attachments[i].type = m.attachments[i].type
                                       /\ sent.attachments[i].content = m.attachments[i].content

(* Resolving attachments changes nothing else.                             *)
LEMMA ResolvedSame ==
    ASSUME NEW m, SoundMessage(m)
    PROVE  Same(m, m) /\ Same(m, WithAttachments(m))
    <1> DEFINE files == m.attachments
               resolved == [i \in DOMAIN files |-> [files[i] EXCEPT !.reference = FALSE]]
               sent == [m EXCEPT !.attachments = resolved]
    <1>1. Same(m, m)
        BY DEF Same
    <1>2. IsSeq(files) /\ \A i \in DOMAIN files : IsFile(files[i])
        BY DEF SoundMessage, IsList
    <1>3. IsSeq(resolved) /\ DOMAIN resolved = DOMAIN files
        <2>1. Len(files) \in Nat /\ DOMAIN files = 1..Len(files)
            BY <1>2, SeqFacts
        <2>2. resolved = [i \in 1..Len(files) |-> resolved[i]]
            BY <2>1
        <2> HIDE DEF resolved, files
        <2> QED  BY <2>1, <2>2, MakeSeq
    <1>4. ASSUME NEW i \in DOMAIN files
          PROVE  IsFile(resolved[i]) /\ resolved[i].type = files[i].type /\ resolved[i].content = files[i].content
        <2> DEFINE file == files[i]
                   put == resolved[i]
        <2>1. file = [type |-> file.type, filename |-> file.filename, cid |-> file.cid, inline |-> file.inline,
                      reference |-> file.reference, content |-> file.content]
            BY <1>2 DEF IsFile
        <2>2. put = [file EXCEPT !.reference = FALSE]
            OBVIOUS
        <2> HIDE DEF file, put
        <2>3. put = [type |-> file.type, filename |-> file.filename, cid |-> file.cid, inline |-> file.inline,
                     reference |-> FALSE, content |-> file.content]
            BY <2>1, <2>2
        <2>4. IsFile(put) /\ put.type = file.type /\ put.content = file.content
            BY <2>3 DEF IsFile
        <2> QED  BY <2>4 DEF file, put
    <1>5. WithAttachments(m) = sent
        BY DEF WithAttachments
    <1>6. m = [from |-> m.from, sender |-> m.sender, to |-> m.to, cc |-> m.cc, bcc |-> m.bcc, replyTo |-> m.replyTo,
               subject |-> m.subject, date |-> m.date, messageId |-> m.messageId, headers |-> m.headers,
               body |-> m.body, attachments |-> m.attachments]
        BY DEF SoundMessage
    <1> HIDE DEF resolved
    <1>7. sent = [from |-> m.from, sender |-> m.sender, to |-> m.to, cc |-> m.cc, bcc |-> m.bcc, replyTo |-> m.replyTo,
                  subject |-> m.subject, date |-> m.date, messageId |-> m.messageId, headers |-> m.headers,
                  body |-> m.body, attachments |-> resolved]
        BY <1>6
    <1> HIDE DEF sent
    <1>8. /\ sent.from = m.from /\ sent.sender = m.sender /\ sent.to = m.to /\ sent.cc = m.cc /\ sent.bcc = m.bcc
          /\ sent.replyTo = m.replyTo /\ sent.subject = m.subject /\ sent.date = m.date /\ sent.messageId = m.messageId
          /\ sent.headers = m.headers /\ sent.body = m.body /\ sent.attachments = resolved
        BY <1>7
    <1>9. IsList(resolved, IsFile)
        BY <1>3, <1>4 DEF IsList
    <1>10. SoundMessage(sent)
        BY <1>7, <1>8, <1>9 DEF SoundMessage
    <1> QED  BY <1>1, <1>3, <1>4, <1>5, <1>8, <1>10 DEF Same

(* A transport that sends hands on the payload of the same message.        *)
LEMMA SentVia ==
    ASSUME NEW transport, NEW r, SoundMessage(r.message), SendVia(transport, r).error = "none"
    PROVE  \E m : LET built == Build(transport.provider, m, r.options)
                      report == SendReport(transport.provider, ProviderMessageId(transport.provider),
                                           StructuredAcceptedFor(m, r.options, Capabilities(transport.provider)))
                  IN  /\ Same(r.message, m) /\ built.error = "none" /\ SendVia(transport, r).payload = <<built.payload>>
                      /\ SendVia(transport, r).report = <<report>>
    <1> DEFINE m == IF transport.resolves THEN WithAttachments(r.message) ELSE r.message
               built == Build(transport.provider, m, r.options)
               accepted == StructuredAcceptedFor(m, r.options, Capabilities(transport.provider))
               report == SendReport(transport.provider, ProviderMessageId(transport.provider), accepted)
               result == SendVia(transport, r)
    <1>1. Same(r.message, m)
        BY ResolvedSame
    <1>2. result = IF built.error # "none" THEN [error |-> built.error, report |-> <<>>, payload |-> <<>>]
                   ELSE [error |-> "none", payload |-> <<built.payload>>, report |-> <<report>>]
        BY DEF SendVia
    <1>3. result.error = "none"
        OBVIOUS
    <1> HIDE DEF m, built, report, result
    <1>4. built.error = "none" /\ result.payload = <<built.payload>> /\ result.report = <<report>>
        BY <1>2, <1>3
    <1> QED  BY <1>1, <1>4 DEF built, report, result

-------------------------------------------------------------------------------
(* The payloads: the fields a provider is handed. *)

(* The fields of the payload for Resend. *)
LEMMA ResendPayload ==
    ASSUME NEW m, NEW o, BuildEmailOptions(m, o).error = "none"
    PROVE  LET options == Get(o.slots, "ResendSendOptions")
               resend == IF options = <<>> THEN ResendSendOptionsNew ELSE options[1]
               p == BuildEmailOptions(m, o).payload
           IN  /\ p.to = CollectMailboxes(m.to) /\ p.cc = CollectMailboxes(m.cc) /\ p.bcc = CollectMailboxes(m.bcc)
               /\ p.replyTo = CollectMailboxes(m.replyTo) /\ p.subject = SubjectOf(m)
               /\ p.text = TextOf(m.body) /\ p.html = HtmlOf(m.body) /\ p.headers = CollectHeaders(m)
               /\ p.tags = resend.tags /\ p.template = resend.template
               /\ p.attachments = [i \in DOMAIN m.attachments |-> ResendAttachment(m.attachments[i])]
               /\ {"to", "cc", "bcc", "replyTo", "text", "html", "headers", "attachments"} \subseteq DOMAIN p
    <1> DEFINE options == Get(o.slots, "ResendSendOptions")
               resend == IF options = <<>> THEN ResendSendOptionsNew ELSE options[1]
               error == FirstOf(<<
                 <<m.from = <<>>, "Validation">>,
                 <<Recipients(m) = <<>>, "Validation">>,
                 <<m.body.kind = "mime", "UnsupportedFeature">>,
                 <<m.date # <<>> /\ FormatDate(m.date[1]) = "none", "Validation">>,
                 <<HasReference(m), "UnsupportedFeature">>,
                 <<TextOf(m.body) = <<>> /\ HtmlOf(m.body) = <<>> /\ resend.template = <<>>, "Validation">>>>)
               payload == [from |-> m.from[1], to |-> CollectMailboxes(m.to), cc |-> CollectMailboxes(m.cc),
                           bcc |-> CollectMailboxes(m.bcc), replyTo |-> CollectMailboxes(m.replyTo),
                           subject |-> SubjectOf(m), text |-> TextOf(m.body), html |-> HtmlOf(m.body),
                           headers |-> CollectHeaders(m),
                           attachments |-> [i \in DOMAIN m.attachments |-> ResendAttachment(m.attachments[i])],
                           tags |-> resend.tags, template |-> resend.template, key |-> o.key, timeout |-> o.timeout]
    <1>1. BuildEmailOptions(m, o) = IF error # "none" THEN Wrong(error) ELSE Right(payload)
        BY DEF BuildEmailOptions
    <1> HIDE DEF error, payload
    <1>2. error = "none"
        BY <1>1 DEF Wrong
    <1>3. BuildEmailOptions(m, o).payload = payload
        BY <1>1, <1>2 DEF Right
    <1> DEFINE files == [i \in DOMAIN m.attachments |-> ResendAttachment(m.attachments[i])]
    <1> HIDE DEF files, resend
    <1>4. /\ payload.to = CollectMailboxes(m.to) /\ payload.cc = CollectMailboxes(m.cc) /\ payload.bcc = CollectMailboxes(m.bcc)
          /\ payload.replyTo = CollectMailboxes(m.replyTo) /\ payload.subject = SubjectOf(m)
          /\ payload.text = TextOf(m.body) /\ payload.html = HtmlOf(m.body) /\ payload.headers = CollectHeaders(m)
          /\ payload.tags = resend.tags /\ payload.template = resend.template /\ payload.attachments = files
          /\ {"to", "cc", "bcc", "replyTo", "text", "html", "headers", "attachments"} \subseteq DOMAIN payload
        BY DEF payload, files
    <1> QED  BY <1>3, <1>4 DEF files, resend

(* The payload for Cloudflare, before empty fields are left out.           *)
LEMMA CloudflarePayload ==
    ASSUME NEW m, BuildPayload(m).error = "none"
    PROVE  LET p == BuildPayload(m).payload
           IN  /\ p.to = CollectMailboxes(m.to) /\ p.cc = CollectMailboxes(m.cc) /\ p.bcc = CollectMailboxes(m.bcc)
               /\ p.replyTo = CollectMailboxes(m.replyTo) /\ p.subject = SubjectOf(m)
               /\ p.text = TextOf(m.body) /\ p.html = HtmlOf(m.body) /\ p.headers = FoldHeaders(m.headers)
               /\ p.attachments = [i \in DOMAIN m.attachments |-> MapAttachment(m.attachments[i], i)]
    <1> DEFINE replyTo == CollectMailboxes(m.replyTo)
               checks == <<
                 <<m.from = <<>>, "Validation">>,
                 <<Recipients(m) = <<>>, "Validation">>,
                 <<Len(replyTo) > 1, "UnsupportedFeature">>,
                 <<m.body.kind = "mime", "UnsupportedFeature">>,
                 <<TextOf(m.body) = <<>> /\ HtmlOf(m.body) = <<>>, "Validation">>>>
               attachments == [i \in DOMAIN m.attachments |->
                                 <<AttachmentError(m.attachments[i]) # "none", AttachmentError(m.attachments[i])>>]
               error == FirstOf(checks \o attachments)
               payload ==
                 [from |-> m.from[1], to |-> CollectMailboxes(m.to), cc |-> CollectMailboxes(m.cc),
                  bcc |-> CollectMailboxes(m.bcc), replyTo |-> replyTo, subject |-> SubjectOf(m),
                  text |-> TextOf(m.body), html |-> HtmlOf(m.body), headers |-> FoldHeaders(m.headers),
                  attachments |-> [i \in DOMAIN m.attachments |-> MapAttachment(m.attachments[i], i)],
                  tags |-> <<>>, template |-> <<>>, key |-> <<>>, timeout |-> <<>>]
    <1>1. BuildPayload(m) = IF error # "none" THEN Wrong(error) ELSE Right(payload)
        BY DEF BuildPayload
    <1> HIDE DEF error, payload
    <1>2. error = "none"
        BY <1>1 DEF Wrong
    <1>3. BuildPayload(m).payload = payload
        BY <1>1, <1>2 DEF Right
    <1> DEFINE files == [i \in DOMAIN m.attachments |-> MapAttachment(m.attachments[i], i)]
    <1> HIDE DEF files, replyTo
    <1>4. /\ payload.to = CollectMailboxes(m.to) /\ payload.cc = CollectMailboxes(m.cc) /\ payload.bcc = CollectMailboxes(m.bcc)
          /\ payload.replyTo = replyTo /\ payload.subject = SubjectOf(m)
          /\ payload.text = TextOf(m.body) /\ payload.html = HtmlOf(m.body) /\ payload.headers = FoldHeaders(m.headers)
          /\ payload.attachments = files
        BY DEF payload, files
    <1> QED  BY <1>3, <1>4 DEF files, replyTo

(* What is left out of the object for the binding is empty. *)
LEMMA BindingFields ==
    ASSUME NEW p, NEW f \in {"from", "to", "cc", "bcc", "replyTo", "subject", "text", "html", "headers", "attachments"}
    PROVE  PayloadField(BindingMessage(p), f) = p[f] /\ (f \in {"from", "subject"} => BindingMessage(p)[f] = p[f])
    BY DEF PayloadField, BindingMessage

(* A payload reaches the envelope, where it counts, or everyone the        *)
(* message names.                                                          *)
LEMMA AddressedBy ==
    ASSUME NEW m, SoundMessage(m), NEW o, NEW provider \in Providers, Build(provider, m, o).error = "none"
    PROVE  Reached(provider, Build(provider, m, o).payload)
             = IF provider = "memory" /\ o.envelope # <<>> THEN o.envelope[1].rcptTo ELSE AcceptedRecipientEmails(m)
    <1> DEFINE to == CollectMailboxes(m.to)
               cc == CollectMailboxes(m.cc)
               bcc == CollectMailboxes(m.bcc)
               payload == Build(provider, m, o).payload
    <1>1. IsList(m.to, Shaped) /\ IsList(m.cc, Shaped) /\ IsList(m.bcc, Shaped)
        BY DEF SoundMessage
    <1>2. RecipientEmails(to \o cc \o bcc) = AcceptedRecipientEmails(m)
        <2>1. /\ IsList(to, Shaped) /\ RecipientEmails(to) = RecipientEmails(m.to)
              /\ IsList(cc, Shaped) /\ RecipientEmails(cc) = RecipientEmails(m.cc)
              /\ IsList(bcc, Shaped) /\ RecipientEmails(bcc) = RecipientEmails(m.bcc)
            BY <1>1, CollectedEmails
        <2> HIDE DEF to, cc, bcc
        <2> QED  BY <2>1, ThreeLists DEF AcceptedRecipientEmails
    <1>3. CASE provider = "resend"
        <2>1. payload = BuildEmailOptions(m, o).payload /\ BuildEmailOptions(m, o).error = "none"
            BY <1>3 DEF Build
        <2> HIDE DEF payload
        <2>2. /\ payload.to = to /\ payload.cc = cc /\ payload.bcc = bcc
              /\ {"to", "cc", "bcc", "replyTo", "text", "html", "headers", "attachments"} \subseteq DOMAIN payload
            BY <2>1, ResendPayload
        <2> HIDE DEF to, cc, bcc
        <2>3. PayloadField(payload, "to") = to /\ PayloadField(payload, "cc") = cc /\ PayloadField(payload, "bcc") = bcc
            BY <2>2 DEF PayloadField
        <2>4. Reached(provider, payload) = RecipientEmails(to \o cc \o bcc)
            BY <1>3, <2>3 DEF Reached
        <2> QED  BY <1>2, <1>3, <2>4 DEF payload
    <1>4. CASE provider = "cloudflare"
        <2> DEFINE p == BuildPayload(m).payload
        <2>1. payload = BindingMessage(p) /\ BuildPayload(m).error = "none"
            BY <1>4 DEF Build, Right
        <2>2. p.to = to /\ p.cc = cc /\ p.bcc = bcc
            BY <2>1, CloudflarePayload
        <2> HIDE DEF payload, to, cc, bcc, p
        <2>3. PayloadField(payload, "to") = to /\ PayloadField(payload, "cc") = cc /\ PayloadField(payload, "bcc") = bcc
            BY <2>1, <2>2, BindingFields
        <2>4. Reached(provider, payload) = RecipientEmails(to \o cc \o bcc)
            BY <1>4, <2>3 DEF Reached
        <2> QED  BY <1>2, <1>4, <2>4 DEF payload
    <1>5. CASE provider = "memory"
        <2>1. payload.envelope = o.envelope /\ payload.message = m
            BY <1>5 DEF Build, Capture, Right
        <2>2. "to" \in DOMAIN m /\ "cc" \in DOMAIN m /\ "bcc" \in DOMAIN m
            BY DEF SoundMessage
        <2> HIDE DEF payload
        <2>3. PayloadField(m, "to") = m.to /\ PayloadField(m, "cc") = m.cc /\ PayloadField(m, "bcc") = m.bcc
            BY <2>2 DEF PayloadField
        <2>4. RecipientEmails(m.to \o m.cc \o m.bcc) = AcceptedRecipientEmails(m)
            BY <1>1, ThreeLists DEF AcceptedRecipientEmails
        <2>5. Reached(provider, payload) = IF o.envelope # <<>> THEN o.envelope[1].rcptTo ELSE RecipientEmails(m.to \o m.cc \o m.bcc)
            BY <1>5, <2>1, <2>3 DEF Reached
        <2> QED  BY <1>5, <2>4, <2>5 DEF payload
    <1> QED  BY <1>3, <1>4, <1>5 DEF Providers

(* What a worker that sent has sent: a provider's payload of the message   *)
(* it decoded, and a report of whom it reached.                            *)
LEMMA SentBySomeone ==
    ASSUME IInv, Sent
    PROVE  LET r == request[1][1]
           IN  \E provider, m :
                 /\ provider \in Providers
                 /\ LET built == Build(provider, m, r.options)
                        accepted == StructuredAcceptedFor(m, r.options, Capabilities(provider))
                    IN  /\ Same(r.message, m) /\ built.error = "none" /\ outcome[1].payload = <<built.payload>>
                        /\ outcome[1].report = <<SendReport(provider, ProviderMessageId(provider), accepted)>>
    <1> DEFINE r == request[1][1]
    <1>1. Decoded /\ SoundMessage(r.message)
        BY WorkerSends, DecodedMessageSound
    <1>2. PICK transport : /\ transport.provider \in Providers /\ outcome[1] = SendVia(transport, r)
                           /\ outcome[1].error = "none"
        BY WorkerSends
    <1> DEFINE provider == transport.provider
               result == outcome[1]
    <1> HIDE DEF r, result
    <1>3. result = SendVia(transport, r) /\ SendVia(transport, r).error = "none"
        BY <1>2 DEF r, result
    <1>4. PICK m : LET built == Build(provider, m, r.options)
                       report == SendReport(provider, ProviderMessageId(provider),
                                            StructuredAcceptedFor(m, r.options, Capabilities(provider)))
                   IN  /\ Same(r.message, m) /\ built.error = "none" /\ SendVia(transport, r).payload = <<built.payload>>
                       /\ SendVia(transport, r).report = <<report>>
        BY <1>1, <1>3, SentVia
    <1>5. provider \in Providers
        BY <1>2
    <1> HIDE DEF provider
    <1> QED  BY <1>3, <1>4, <1>5 DEF r, result

(* Whoever the message that was decoded names is in the payload of the     *)
(* provider and in the report; an envelope takes their place only where    *)
(* the transport can use it (build_email_options, build_payload,           *)
(* structured_accepted_for).                                               *)
THEOREM EveryoneAddressedHolds == Spec => []EveryoneAddressed
    <1>1. ASSUME IInv, Sent
          PROVE  LET report == outcome[1].report[1]
                     r == request[1][1]
                     meant == IF report.provider = "memory" /\ r.options.envelope # <<>> THEN r.options.envelope[1].rcptTo
                              ELSE DeriveEnvelope(r.message).rcptTo
                 IN  Reached(report.provider, outcome[1].payload[1]) = meant /\ report.accepted = meant
        <2> DEFINE r == request[1][1]
                   o == r.options
                   report == outcome[1].report[1]
                   payload == outcome[1].payload[1]
                   named == AcceptedRecipientEmails(r.message)
        <2>1. PICK provider, m :
                 /\ provider \in Providers
                 /\ LET built == Build(provider, m, o)
                        accepted == StructuredAcceptedFor(m, o, Capabilities(provider))
                    IN  /\ Same(r.message, m) /\ built.error = "none" /\ outcome[1].payload = <<built.payload>>
                        /\ outcome[1].report = <<SendReport(provider, ProviderMessageId(provider), accepted)>>
            BY <1>1, SentBySomeone
        <2> DEFINE meant == IF provider = "memory" /\ o.envelope # <<>> THEN o.envelope[1].rcptTo ELSE named
        <2>2. /\ SoundMessage(m) /\ Build(provider, m, o).error = "none" /\ payload = Build(provider, m, o).payload
              /\ report = SendReport(provider, ProviderMessageId(provider), StructuredAcceptedFor(m, o, Capabilities(provider)))
              /\ m.to = r.message.to /\ m.cc = r.message.cc /\ m.bcc = r.message.bcc /\ provider \in Providers
            BY <2>1 DEF Same
        <2> HIDE DEF o, payload, report
        <2>3. AcceptedRecipientEmails(m) = named
            BY <2>2 DEF AcceptedRecipientEmails
        <2>4. DeriveEnvelope(r.message).rcptTo = named
            BY DEF DeriveEnvelope, AcceptedRecipientEmails
        <2> HIDE DEF r, named
        <2>5. Reached(provider, payload) = meant
            BY <2>2, <2>3, AddressedBy
        <2>6. report.provider = provider /\ report.accepted = StructuredAcceptedFor(m, o, Capabilities(provider))
            BY <2>2 DEF SendReport
        <2>7. "custom_envelope" \in Capabilities(provider) <=> provider = "memory"
            BY <2>2 DEF Capabilities, Providers
        <2>8. report.accepted = meant
            BY <2>3, <2>6, <2>7 DEF StructuredAcceptedFor
        <2> QED  BY <2>4, <2>5, <2>6, <2>8 DEF r, o, payload, report
    <1>2. IInv => EveryoneAddressed
        BY <1>1 DEF EveryoneAddressed
    <1> QED  BY <1>2, ContentInvariant, PTL

-------------------------------------------------------------------------------
(* The options of a caller as a worker reads them. *)

(* A key that was written once has only the value that was written. *)
LEMMA FieldSays ==
    ASSUME NEW value, NEW key, NEW option, Has(value, key, option), NEW i \in DOMAIN value[2], value[2][i][1] = key
    PROVE  option # <<>> /\ value[2][i][2] = option[1]
    <1>1. i \in Found(value, key)
        BY DEF Found
    <1>2. option # <<>> /\ Once(value, key) /\ Value(value, key) = option[1]
        BY <1>1 DEF Has
    <1>3. PICK k \in DOMAIN value[2] : Found(value, key) = {k}
        BY <1>2 DEF Once
    <1>4. Found(value, key) = {i}
        BY <1>1, <1>3
    <1>5. (CHOOSE j \in Found(value, key) : TRUE) = i
        BY <1>4
    <1> QED  BY <1>2, <1>5 DEF Value

(* Each key sets a control of its own.                                     *)
LEMMA ControlNames ==
    /\ \A key \in ControlKeys : ControlName(key) \in OptionNames
    /\ \A key, other \in ControlKeys : ControlName(key) = ControlName(other) => key = other
    <1>1. /\ ControlName("envelope") = "envelope" /\ ControlName("transport_options") = "slots"
          /\ ControlName("timeout") = "timeout" /\ ControlName("idempotency_key") = "key"
          /\ ControlName("correlation_id") = "correlation"
        BY DEF ControlName
    <1>2. ASSUME NEW key \in ControlKeys, NEW other \in ControlKeys, ControlName(key) = ControlName(other)
          PROVE  key = other
        BY <1>1, <1>2 DEF ControlKeys
    <1>3. \A key \in ControlKeys : ControlName(key) \in OptionNames
        BY <1>1 DEF ControlKeys, OptionNames
    <1> QED  BY <1>2, <1>3

(* What the options written under a key, if there are any, mean to a       *)
(* reader.                                                                 *)
ControlSays(registry, ignoreUnknown, value, key, option, item) ==
    /\ Has(value, key, option) /\ (option = <<>> => item = NoSendOptions[ControlName(key)])
    /\ \A i \in DOMAIN value[2] : value[2][i][1] = key => Meaning(registry, ignoreUnknown, value[2][i]) = <<item>>

(* A control is what the field with its key says, and its default if there *)
(* is none.                                                                *)
LEMMA OneControl ==
    ASSUME NEW registry, NEW ignoreUnknown, NEW value, IsSeq(value[2]), NEW key \in ControlKeys, NEW option,
           NEW o, ControlsAre(registry, ignoreUnknown, value[2], o, Len(value[2])), NEW item,
           ControlSays(registry, ignoreUnknown, value, key, option, item)
    PROVE  o[ControlName(key)] = item
    <1> DEFINE name == ControlName(key)
               fields == value[2]
               n == Len(fields)
    <1>1. name \in OptionNames /\ n \in Nat /\ DOMAIN fields = 1..n
        BY ControlNames, SeqFacts
    <1>2. \/ o[name] = NoSendOptions[name] /\ \A i \in 1..n : ~Sets(fields[i], name)
          \/ \E i \in 1..n : Sets(fields[i], name) /\ Meaning(registry, ignoreUnknown, fields[i]) = <<o[name]>>
        BY <1>1 DEF ControlsAre
    <1>3. \A i \in 1..n : Sets(fields[i], name) <=> fields[i][1] = key
        BY ControlNames DEF Sets
    <1>4. CASE \E i \in 1..n : Sets(fields[i], name) /\ Meaning(registry, ignoreUnknown, fields[i]) = <<o[name]>>
        <2>1. PICK i \in 1..n : Sets(fields[i], name) /\ Meaning(registry, ignoreUnknown, fields[i]) = <<o[name]>>
            BY <1>4
        <2>2. Meaning(registry, ignoreUnknown, fields[i]) = <<item>>
            BY <1>1, <1>3, <2>1 DEF ControlSays
        <2>3. <<item>> = <<o[name]>>
            BY <2>1, <2>2
        <2> QED  BY <2>3
    <1>5. CASE o[name] = NoSendOptions[name] /\ \A i \in 1..n : ~Sets(fields[i], name)
        <2>1. \A i \in 1..n : fields[i][1] # key
            BY <1>3, <1>5
        <2>2. Found(value, key) = {}
            BY <1>1, <2>1 DEF Found
        <2>3. option = <<>>
            BY <2>2 DEF ControlSays, Has
        <2> QED  BY <1>5, <2>3 DEF ControlSays
    <1> QED  BY <1>2, <1>4, <1>5

(* What the fields that a caller writes mean to a worker. *)
LEMMA NullableBack ==
    /\ \A e : IsEnvelope(e) => OrNull(WriteEnvelope(e), ReadEnvelope) = <<(<<e>>)>>
    /\ \A d : IsDuration(d) => OrNull(WriteDuration(d), ReadDuration) = <<(<<d>>)>>
    /\ \A t : IsParsed(t, NewtypeFromStr) => ReadNewtype(Text(t)) = <<(<<t>>)>>
    <1>1. ASSUME NEW e, IsEnvelope(e) PROVE OrNull(WriteEnvelope(e), ReadEnvelope) = <<(<<e>>)>>
        <2>1. ReadEnvelope(WriteEnvelope(e)) = <<e>> /\ WriteEnvelope(e) # Null
            BY <1>1, EnvelopeBack
        <2>2. OrNull(WriteEnvelope(e), ReadEnvelope) = [i \in DOMAIN <<e>> |-> <<(<<e>>)[i]>>]
            BY <2>1 DEF OrNull, Map
        <2> QED  BY <2>2, Wrapped
    <1>2. ASSUME NEW d, IsDuration(d) PROVE OrNull(WriteDuration(d), ReadDuration) = <<(<<d>>)>>
        <2>1. ReadDuration(WriteDuration(d)) = <<d>> /\ WriteDuration(d) # Null
            BY <1>2, DurationBack
        <2>2. OrNull(WriteDuration(d), ReadDuration) = [i \in DOMAIN <<d>> |-> <<(<<d>>)[i]>>]
            BY <2>1 DEF OrNull, Map
        <2> QED  BY <2>2, Wrapped
    <1>3. ASSUME NEW t, IsParsed(t, NewtypeFromStr) PROVE ReadNewtype(Text(t)) = <<(<<t>>)>>
        <2>1. Parsed(Text(t), NewtypeFromStr) = <<t>> /\ Text(t) # Null
            BY <1>3, ParsedBack
        <2>2. ReadNewtype(Text(t)) = [i \in DOMAIN <<t>> |-> <<(<<t>>)[i]>>]
            BY <2>1 DEF ReadNewtype, OrNull, Map
        <2> QED  BY <2>2, Wrapped
    <1> QED  BY <1>1, <1>2, <1>3

(* Each field that a caller wrote means what the caller set.               *)
LEMMA WrittenMeanings ==
    ASSUME NEW registry, NEW ignoreUnknown, NEW o, IsSendOptions(o), WriteSendOptions(o) # <<>>,
           NEW i \in DOMAIN WriteSendOptions(o)[1][2]
    PROVE  LET field == WriteSendOptions(o)[1][2][i]
               meaning == Meaning(registry, ignoreUnknown, field)
           IN  /\ field[1] \in ControlKeys
               /\ field[1] = "envelope" => meaning = <<o.envelope>>
               /\ field[1] = "timeout" => meaning = <<o.timeout>>
               /\ field[1] = "idempotency_key" => meaning = <<o.key>>
               /\ field[1] = "correlation_id" => meaning = <<o.correlation>>
               /\ field[1] = "transport_options" =>
                    /\ SlotsOption(o) # <<>>
                    /\ meaning = ReadTransportOptions(registry, ignoreUnknown, SlotsOption(o)[1])
    <1> DEFINE value == WriteSendOptions(o)[1]
               field == value[2][i]
               meaning == Meaning(registry, ignoreUnknown, field)
    <1>1. /\ Has(value, "envelope", Map(o.envelope, WriteEnvelope)) /\ Has(value, "timeout", Map(o.timeout, WriteDuration))
          /\ Has(value, "idempotency_key", Map(o.key, Text)) /\ Has(value, "correlation_id", Map(o.correlation, Text))
          /\ Has(value, "transport_options", SlotsOption(o)) /\ \A k \in DOMAIN value[2] : value[2][k][1] \in ControlKeys
        BY WrittenOptions
    <1>2. i \in DOMAIN value[2]
        OBVIOUS
    <1> HIDE DEF value
    <1>3. ASSUME field[1] = "envelope" PROVE meaning = <<o.envelope>>
        <2> DEFINE image == Map(o.envelope, WriteEnvelope)
        <2>1. image # <<>> /\ field[2] = image[1]
            BY <1>1, <1>2, <1>3, FieldSays
        <2>2. /\ o.envelope # <<>> /\ image[1] = WriteEnvelope(o.envelope[1]) /\ o.envelope = <<o.envelope[1]>>
              /\ IsEnvelope(o.envelope[1])
            BY <2>1, ControlImages DEF Image
        <2>3. meaning = OrNull(field[2], ReadEnvelope)
            BY <1>3 DEF Meaning
        <2> HIDE DEF image, field, meaning
        <2> QED  BY <2>1, <2>2, <2>3, NullableBack
    <1>4. ASSUME field[1] = "timeout" PROVE meaning = <<o.timeout>>
        <2> DEFINE image == Map(o.timeout, WriteDuration)
        <2>1. image # <<>> /\ field[2] = image[1]
            BY <1>1, <1>2, <1>4, FieldSays
        <2>2. /\ o.timeout # <<>> /\ image[1] = WriteDuration(o.timeout[1]) /\ o.timeout = <<o.timeout[1]>>
              /\ IsDuration(o.timeout[1])
            BY <2>1, ControlImages DEF Image
        <2>3. meaning = OrNull(field[2], ReadDuration)
            BY <1>4 DEF Meaning
        <2> HIDE DEF image, field, meaning
        <2> QED  BY <2>1, <2>2, <2>3, NullableBack
    <1>5. ASSUME field[1] = "idempotency_key" PROVE meaning = <<o.key>>
        <2> DEFINE image == Map(o.key, Text)
        <2>1. image # <<>> /\ field[2] = image[1]
            BY <1>1, <1>2, <1>5, FieldSays
        <2>2. o.key # <<>> /\ image[1] = Text(o.key[1]) /\ o.key = <<o.key[1]>> /\ IsParsed(o.key[1], NewtypeFromStr)
            BY <2>1, ControlImages DEF Image
        <2>3. meaning = ReadNewtype(field[2])
            BY <1>5 DEF Meaning
        <2> HIDE DEF image, field, meaning
        <2> QED  BY <2>1, <2>2, <2>3, NullableBack
    <1>6. ASSUME field[1] = "correlation_id" PROVE meaning = <<o.correlation>>
        <2> DEFINE image == Map(o.correlation, Text)
        <2>1. image # <<>> /\ field[2] = image[1]
            BY <1>1, <1>2, <1>6, FieldSays
        <2>2. /\ o.correlation # <<>> /\ image[1] = Text(o.correlation[1]) /\ o.correlation = <<o.correlation[1]>>
              /\ IsParsed(o.correlation[1], NewtypeFromStr)
            BY <2>1, ControlImages DEF Image
        <2>3. meaning = ReadNewtype(field[2])
            BY <1>6 DEF Meaning
        <2> HIDE DEF image, field, meaning
        <2> QED  BY <2>1, <2>2, <2>3, NullableBack
    <1>7. ASSUME field[1] = "transport_options"
          PROVE  SlotsOption(o) # <<>> /\ meaning = ReadTransportOptions(registry, ignoreUnknown, SlotsOption(o)[1])
        <2>1. SlotsOption(o) # <<>> /\ field[2] = SlotsOption(o)[1]
            BY <1>1, <1>2, <1>7, FieldSays
        <2>2. meaning = ReadTransportOptions(registry, ignoreUnknown, field[2])
            BY <1>7 DEF Meaning
        <2> QED  BY <2>1, <2>2
    <1>8. field[1] \in ControlKeys
        BY <1>1, <1>2
    <1> QED  BY <1>3, <1>4, <1>5, <1>6, <1>7, <1>8 DEF value

(* What a worker makes of a caller's slots. *)
SlotsMean(registry, ignoreUnknown, o, slots) ==
    /\ SlotsOption(o) = <<>> => slots = NoSlots
    /\ SlotsOption(o) # <<>> => ReadTransportOptions(registry, ignoreUnknown, SlotsOption(o)[1]) = <<slots>>

(* An option of send options. *)
SomeOptions(read) == read = <<[name \in OptionNames |-> read[1][name]]>>

(* Nothing that a caller sets beside its slots is lost on the way.         *)
LEMMA ControlsBack ==
    ASSUME NEW registry, NEW ignoreUnknown, NEW o, IsSendOptions(o), WriteSendOptions(o) # <<>>
    PROVE  LET result == ReadSendOptions(registry, ignoreUnknown, WriteSendOptions(o)[1])
           IN
           /\ result # <<>> => /\ result[1].envelope = o.envelope /\ result[1].timeout = o.timeout /\ result[1].key = o.key
                               /\ result[1].correlation = o.correlation
                               /\ SomeOptions(result)
           /\ \A slots : SlotsMean(registry, ignoreUnknown, o, slots) => result # <<>> /\ result[1].slots = slots
    <1> DEFINE value == WriteSendOptions(o)[1]
               fields == value[2]
               result == ReadSendOptions(registry, ignoreUnknown, value)
    <1>1. /\ IsObject(value) /\ Readable(value)
          /\ Has(value, "envelope", Map(o.envelope, WriteEnvelope)) /\ Has(value, "timeout", Map(o.timeout, WriteDuration))
          /\ Has(value, "idempotency_key", Map(o.key, Text)) /\ Has(value, "correlation_id", Map(o.correlation, Text))
          /\ Has(value, "transport_options", SlotsOption(o))
        BY WrittenOptions
    <1>2. \A i \in DOMAIN fields :
            /\ fields[i][1] \in ControlKeys
            /\ fields[i][1] = "envelope" => Meaning(registry, ignoreUnknown, fields[i]) = <<o.envelope>>
            /\ fields[i][1] = "timeout" => Meaning(registry, ignoreUnknown, fields[i]) = <<o.timeout>>
            /\ fields[i][1] = "idempotency_key" => Meaning(registry, ignoreUnknown, fields[i]) = <<o.key>>
            /\ fields[i][1] = "correlation_id" => Meaning(registry, ignoreUnknown, fields[i]) = <<o.correlation>>
            /\ fields[i][1] = "transport_options" =>
                 /\ SlotsOption(o) # <<>>
                 /\ Meaning(registry, ignoreUnknown, fields[i]) = ReadTransportOptions(registry, ignoreUnknown, SlotsOption(o)[1])
        BY WrittenMeanings
    <1>3. result = ReadSendOptions(registry, ignoreUnknown, value)
        OBVIOUS
    <1>4. /\ Is("obj", value) /\ IsSeq(value[2])
          /\ \A i \in DOMAIN value[2] : Is("obj", value[2][i][2]) => IsSeq(value[2][i][2][2])
        BY <1>1 DEF IsObject, Readable
    <1> HIDE DEF value, result
    <1>5. \/ result = <<>> /\ \E i \in DOMAIN fields : fields[i][1] \in ControlKeys
                                                      /\ Meaning(registry, ignoreUnknown, fields[i]) = <<>>
          \/ \E r : result = <<r>> /\ ControlsAre(registry, ignoreUnknown, fields, r, Len(fields))
        BY <1>3, <1>4, ReadControls
    <1>6. ASSUME NEW slots, SlotsMean(registry, ignoreUnknown, o, slots) PROVE result # <<>>
        <2>1. \A i \in DOMAIN fields : fields[i][1] = "transport_options" =>
                Meaning(registry, ignoreUnknown, fields[i]) = <<slots>>
            BY <1>2, <1>6 DEF SlotsMean
        <2>2. \A i \in DOMAIN fields : Meaning(registry, ignoreUnknown, fields[i]) # <<>>
            <3> TAKE i \in DOMAIN fields
            <3> DEFINE key == fields[i][1]
                       meaning == Meaning(registry, ignoreUnknown, fields[i])
            <3>1. /\ key \in ControlKeys
                  /\ key = "envelope" => meaning = <<o.envelope>>
                  /\ key = "timeout" => meaning = <<o.timeout>>
                  /\ key = "idempotency_key" => meaning = <<o.key>>
                  /\ key = "correlation_id" => meaning = <<o.correlation>>
                  /\ key = "transport_options" => meaning = <<slots>>
                BY <1>2, <2>1
            <3> HIDE DEF key, meaning
            <3>2. \E x : meaning = <<x>>
                BY <3>1 DEF ControlKeys
            <3>3. meaning # <<>>
                BY <3>2
            <3> QED  BY <3>3 DEF meaning
        <2> QED  BY <1>5, <2>2
    <1>7. ASSUME result # <<>>
          PROVE  /\ result[1].envelope = o.envelope /\ result[1].timeout = o.timeout /\ result[1].key = o.key
                 /\ result[1].correlation = o.correlation
                 /\ SomeOptions(result)
                 /\ \A slots : SlotsMean(registry, ignoreUnknown, o, slots) => result[1].slots = slots
        <2>1. PICK r : result = <<r>> /\ ControlsAre(registry, ignoreUnknown, fields, r, Len(fields))
            BY <1>5, <1>7
        <2>2. /\ ControlName("envelope") = "envelope" /\ ControlName("transport_options") = "slots"
              /\ ControlName("timeout") = "timeout" /\ ControlName("idempotency_key") = "key"
              /\ ControlName("correlation_id") = "correlation"
            BY DEF ControlName
        <2>3. /\ "envelope" \in ControlKeys /\ "transport_options" \in ControlKeys /\ "timeout" \in ControlKeys
              /\ "idempotency_key" \in ControlKeys /\ "correlation_id" \in ControlKeys
            BY DEF ControlKeys
        <2>4. /\ NoSendOptions["envelope"] = <<>> /\ NoSendOptions["timeout"] = <<>> /\ NoSendOptions["key"] = <<>>
              /\ NoSendOptions["correlation"] = <<>> /\ NoSendOptions["slots"] = NoSlots
            BY DEF NoSendOptions
        <2>5. /\ Map(o.envelope, WriteEnvelope) = <<>> => o.envelope = <<>>
              /\ Map(o.timeout, WriteDuration) = <<>> => o.timeout = <<>>
              /\ Map(o.key, Text) = <<>> => o.key = <<>>
              /\ Map(o.correlation, Text) = <<>> => o.correlation = <<>>
            BY ControlImages DEF Image
        <2> DEFINE envelope == Map(o.envelope, WriteEnvelope)
                   timeout == Map(o.timeout, WriteDuration)
                   idempotency == Map(o.key, Text)
                   correlation == Map(o.correlation, Text)
                   posted == SlotsOption(o)
        <2> HIDE DEF envelope, timeout, idempotency, correlation, posted
        <2>6. IsSeq(value[2]) /\ ControlsAre(registry, ignoreUnknown, value[2], r, Len(value[2]))
            BY <1>4, <2>1
        <2>7. r["envelope"] = o.envelope
            <3> DEFINE control == "envelope"
            <3>1. ControlSays(registry, ignoreUnknown, value, control, envelope, o.envelope)
                BY <1>1, <1>2, <2>2, <2>4, <2>5 DEF ControlSays, envelope
            <3>2. control \in ControlKeys /\ r[ControlName(control)] = r["envelope"]
                BY <2>2, <2>3
            <3> HIDE DEF control
            <3>3. r[ControlName(control)] = o.envelope
                BY ONLY <2>6, <3>1, <3>2, OneControl
            <3> QED  BY <3>2, <3>3
        <2>8. r["timeout"] = o.timeout
            <3> DEFINE control == "timeout"
            <3>1. ControlSays(registry, ignoreUnknown, value, control, timeout, o.timeout)
                BY <1>1, <1>2, <2>2, <2>4, <2>5 DEF ControlSays, timeout
            <3>2. control \in ControlKeys /\ r[ControlName(control)] = r["timeout"]
                BY <2>2, <2>3
            <3> HIDE DEF control
            <3>3. r[ControlName(control)] = o.timeout
                BY ONLY <2>6, <3>1, <3>2, OneControl
            <3> QED  BY <3>2, <3>3
        <2>9. r["key"] = o.key
            <3> DEFINE control == "idempotency_key"
            <3>1. ControlSays(registry, ignoreUnknown, value, control, idempotency, o.key)
                BY <1>1, <1>2, <2>2, <2>4, <2>5 DEF ControlSays, idempotency
            <3>2. control \in ControlKeys /\ r[ControlName(control)] = r["key"]
                BY <2>2, <2>3
            <3> HIDE DEF control
            <3>3. r[ControlName(control)] = o.key
                BY ONLY <2>6, <3>1, <3>2, OneControl
            <3> QED  BY <3>2, <3>3
        <2>10. r["correlation"] = o.correlation
            <3> DEFINE control == "correlation_id"
            <3>1. ControlSays(registry, ignoreUnknown, value, control, correlation, o.correlation)
                BY <1>1, <1>2, <2>2, <2>4, <2>5 DEF ControlSays, correlation
            <3>2. control \in ControlKeys /\ r[ControlName(control)] = r["correlation"]
                BY <2>2, <2>3
            <3> HIDE DEF control
            <3>3. r[ControlName(control)] = o.correlation
                BY ONLY <2>6, <3>1, <3>2, OneControl
            <3> QED  BY <3>2, <3>3
        <2>11. ASSUME NEW slots, SlotsMean(registry, ignoreUnknown, o, slots) PROVE r["slots"] = slots
            <3> DEFINE control == "transport_options"
            <3>1. ControlSays(registry, ignoreUnknown, value, control, posted, slots)
                BY <1>1, <1>2, <2>2, <2>4, <2>11 DEF ControlSays, posted, SlotsMean
            <3>2. control \in ControlKeys /\ r[ControlName(control)] = r["slots"]
                BY <2>2, <2>3
            <3> HIDE DEF control
            <3>3. r[ControlName(control)] = slots
                BY ONLY <2>6, <3>1, <3>2, OneControl
            <3> QED  BY <3>2, <3>3
        <2>12. r = [name \in OptionNames |-> r[name]]
            BY <2>1 DEF ControlsAre
        <2>13. SomeOptions(result)
            <3>1. result[1] = r
                BY <2>1
            <3> QED  BY <2>1, <2>12, <3>1 DEF SomeOptions
        <2> QED  BY <2>1, <2>7, <2>8, <2>9, <2>10, <2>11, <2>13
    <1> QED  BY <1>6, <1>7 DEF result, value

-------------------------------------------------------------------------------
(* Reports, and the addresses in them. *)

IsReport(report) ==
    /\ report = [provider |-> report.provider, id |-> report.id, accepted |-> report.accepted]
    /\ IsName(report.provider) /\ (report.id = <<>> \/ (report.id = <<report.id[1]>> /\ IsName(report.id[1])))
    /\ IsList(report.accepted, IsEmail)

(* A report that is written is read back.                                  *)
LEMMA ReportBack ==
    ASSUME NEW report, IsReport(report)
    PROVE  ReadReport(WriteReport(report)) = <<report>>
    <1> DEFINE id == IF report.id = <<>> THEN Null ELSE Word(report.id[1])
               accepted == Many(report.accepted, WriteEmail)
               fields == Object(<<(<<"provider", Always(Word(report.provider))>>), <<"provider_message_id", Always(id)>>,
                                  <<"accepted", Always(accepted)>>>>)
               value == WriteReport(report)
    <1>1. value = Object(<<(<<"report", Always(fields)>>)>>)
        BY DEF WriteReport
    <1> HIDE DEF id, accepted, fields, value
    <1>2. /\ IsObject(fields) /\ Has(fields, "provider", <<Word(report.provider)>>)
          /\ Has(fields, "provider_message_id", <<id>>) /\ Has(fields, "accepted", <<accepted>>)
        <2>1. AnOption(<<Word(report.provider)>>) /\ AnOption(<<id>>) /\ AnOption(<<accepted>>)
            BY DEF AnOption
        <2>2. fields = Object(<<(<<"provider", <<Word(report.provider)>>>>), <<"provider_message_id", <<id>>>>,
                                <<"accepted", <<accepted>>>>>>)
            BY DEF fields, Always
        <2> QED  BY <2>1, <2>2, ObjectOf3
    <1>3. Once(value, "report") /\ Value(value, "report") = fields
        <2>1. AnOption(<<fields>>) /\ value = Object(<<(<<"report", <<fields>>>>)>>)
            BY <1>1 DEF AnOption, Always
        <2>2. Has(value, "report", <<fields>>)
            BY <2>1, ObjectOf1
        <2> QED  BY <2>2 DEF Has
    <1>4. Required(fields, "provider", ReadWord) = <<report.provider>>
        <2>1. ReadWord(Word(report.provider)) = <<report.provider>>
            BY WordBack DEF IsReport
        <2> QED  BY <1>2, <2>1 DEF Required, Has
    <1>5. Optional(fields, "provider_message_id", ReadWord) = <<report.id>>
        <2>1. Found(fields, "provider_message_id") # {} /\ Once(fields, "provider_message_id")
              /\ Value(fields, "provider_message_id") = id
            BY <1>2 DEF Has
        <2>2. CASE report.id = <<>>
            <3>1. id = Null
                BY <2>2 DEF id
            <3> QED  BY <2>1, <2>2, <3>1 DEF Optional, OrDefault, Required
        <2>3. CASE report.id # <<>>
            <3>1. id = Word(report.id[1]) /\ report.id = <<report.id[1]>> /\ IsName(report.id[1])
                BY <2>3 DEF id, IsReport
            <3>2. id # Null /\ ReadWord(id) = report.id
                BY <3>1, WordBack
            <3> QED  BY <2>1, <3>1, <3>2, Wrapped DEF Optional, OrDefault, Required, Map
        <2> QED  BY <2>2, <2>3
    <1>6. Required(fields, "accepted", LAMBDA v : ReadMany(v, ReadEmail)) = <<report.accepted>>
        <2>1. ReadMany(accepted, ReadEmail) = <<report.accepted>>
            BY EmailsBack DEF accepted, IsReport
        <2> QED  BY <1>2, <2>1 DEF Required, Has
    <1>7. ReadReport(value) = <<report>>
        <2> DEFINE first == Required(fields, "provider", ReadWord)
                   second == Optional(fields, "provider_message_id", ReadWord)
                   third == Required(fields, "accepted", LAMBDA v : ReadMany(v, ReadEmail))
                   raw == [provider |-> first, id |-> second, accepted |-> third]
        <2>1. All(raw) = <<[provider |-> report.provider, id |-> report.id, accepted |-> report.accepted]>>
            <3>1. first = <<report.provider>> /\ second = <<report.id>> /\ third = <<report.accepted>>
                BY <1>4, <1>5, <1>6
            <3> HIDE DEF first, second, third
            <3> QED  BY <3>1 DEF All
        <2>2. All(raw) = <<report>>
            BY <2>1 DEF IsReport
        <2>3. Is("obj", fields)
            BY <1>2 DEF IsObject
        <2>4. ReadReport(value) = All(raw)
            BY <1>3, <2>3 DEF ReadReport, Required
        <2> QED  BY <2>2, <2>4
    <1> QED  BY <1>7 DEF value

(* The options a worker decodes from a caller's request are the caller's,  *)
(* but for the slots.                                                      *)
LEMMA CallerOptions ==
    ASSUME IInv, Decoded, ~IsForeign
    PROVE  LET o == scenario.options
               read == request[1][1].options
           IN  /\ IsSendOptions(o) /\ WriteSendOptions(o) # <<>>
               /\ read.envelope = o.envelope /\ read.timeout = o.timeout /\ read.key = o.key
               /\ read.correlation = o.correlation
    <1> DEFINE json == body[1].json
               registry == Registry
               o == scenario.options
               r == ReadSendRequest(registry, json)[1]
               lenient == TRUE
               written == WriteSendOptions(o)[1]
               result == ReadSendOptions(registry, lenient, written)
    <1>1. body # <<>> /\ ReadSendRequest(registry, json) # <<>> /\ request[1][1] = r
        BY RequestDecoded
    <1>2. /\ IsSendOptions(o) /\ WriteSendOptions(o) # <<>> /\ Found(json, "options") # {}
          /\ Value(json, "options") = written
        BY <1>1, PostedOptions DEF IsSendRequest
    <1>3. result # <<>> /\ r.options = result[1]
        <2> HIDE DEF json, registry, written, o
        <2>1. /\ ReadSendOptions(registry, lenient, Value(json, "options")) # <<>>
              /\ r.options = ReadSendOptions(registry, lenient, Value(json, "options"))[1]
            BY <1>1, <1>2, DecodedRequest
        <2> QED  BY <1>2, <2>1
    <1>4. result = ReadSendOptions(registry, lenient, WriteSendOptions(o)[1])
        OBVIOUS
    <1> HIDE DEF json, registry, o, r, lenient, written, result
    <1>5. /\ result[1].envelope = o.envelope /\ result[1].timeout = o.timeout /\ result[1].key = o.key
          /\ result[1].correlation = o.correlation
        BY ONLY <1>2, <1>3, <1>4, ControlsBack
    <1> QED  BY <1>1, <1>2, <1>3, <1>5 DEF o

(* What a worker of a caller reports it can write and read back.           *)
LEMMA SentReportSound ==
    ASSUME IInv, Sent, ~IsForeign
    PROVE  outcome[1].report = <<outcome[1].report[1]>> /\ IsReport(outcome[1].report[1])
    <1> DEFINE r == request[1][1]
               o == r.options
    <1>1. PICK provider, m :
             /\ provider \in Providers
             /\ LET built == Build(provider, m, o)
                    accepted == StructuredAcceptedFor(m, o, Capabilities(provider))
                IN  /\ Same(r.message, m) /\ built.error = "none" /\ outcome[1].payload = <<built.payload>>
                    /\ outcome[1].report = <<SendReport(provider, ProviderMessageId(provider), accepted)>>
        BY SentBySomeone
    <1> DEFINE accepted == StructuredAcceptedFor(m, o, Capabilities(provider))
               report == SendReport(provider, ProviderMessageId(provider), accepted)
    <1>2. outcome[1].report = <<report>> /\ Same(r.message, m) /\ provider \in Providers
        BY <1>1
    <1>3. /\ r.message = scenario.message /\ o.envelope = scenario.options.envelope /\ IsSendOptions(scenario.options)
          /\ IsMessage(scenario.message)
        BY WorkerSends, CallerDecoded, CallerOptions, RequestDecoded, PostedOptions DEF IsSendRequest
    <1> HIDE DEF r, o
    <1>4. IsList(accepted, IsEmail)
        <2>1. /\ scenario.message["to"] = scenario.message.to /\ scenario.message["cc"] = scenario.message.cc
              /\ scenario.message["bcc"] = scenario.message.bcc
            OBVIOUS
        <2>2. IsList(m.to, IsAddress) /\ IsList(m.cc, IsAddress) /\ IsList(m.bcc, IsAddress)
            BY <1>2, <1>3, <2>1 DEF Same, IsMessage
        <2>3. IsList(AcceptedRecipientEmails(m), IsEmail)
            <3> DEFINE to == RecipientEmails(m.to)
                       cc == RecipientEmails(m.cc)
                       bcc == RecipientEmails(m.bcc)
            <3>1. IsList(to, IsEmail) /\ IsList(cc, IsEmail) /\ IsList(bcc, IsEmail)
                BY <2>2, EmailsValid
            <3> HIDE DEF to, cc, bcc
            <3>2. IsList(to \o cc, IsEmail)
                BY <3>1, ValidConcat
            <3>3. IsList((to \o cc) \o bcc, IsEmail)
                BY <3>1, <3>2, ValidConcat
            <3> QED  BY <3>3 DEF AcceptedRecipientEmails, to, cc, bcc
        <2>4. o.envelope # <<>> => IsList(o.envelope[1].rcptTo, IsEmail)
            BY <1>3 DEF IsSendOptions, IsOption, IsEnvelope
        <2> QED  BY <2>3, <2>4 DEF StructuredAcceptedFor
    <1>5. IsName(provider)
        BY <1>2, WordBack DEF Providers, Lookalikes, IsName
    <1> DEFINE id == ProviderMessageId(provider)
    <1>6. id = <<>> \/ (id = <<id[1]>> /\ IsName(id[1]))
        <2>1. id = <<>> \/ id = <<"id">>
            BY DEF ProviderMessageId
        <2>2. IsName("id")
            <3> DEFINE word == "id"
            <3>1. word \notin DOMAIN Lookalikes /\ word # ""
                BY DEF Lookalikes
            <3> HIDE DEF word
            <3>2. IsName(word)
                BY <3>1, WordBack DEF IsName
            <3> QED  BY <3>2 DEF word
        <2> HIDE DEF id
        <2> QED  BY <2>1, <2>2
    <1> HIDE DEF accepted, id
    <1>7. report = [provider |-> provider, id |-> id, accepted |-> accepted]
        BY DEF SendReport, id
    <1> HIDE DEF report
    <1>8. IsReport(report)
        BY <1>4, <1>5, <1>6, <1>7 DEF IsReport
    <1> QED  BY <1>2, <1>8

(* The report a queued send returned before the worker ran names whom the  *)
(* worker's transport then reached, if the caller asserted its capability  *)
(* for envelopes rightly; the report of a sent one is the worker's         *)
(* (RestateTransport::invoke, structured_accepted_for).                    *)
THEOREM ReportsAgreeHolds == Spec => []ReportsAgree
    <1>1. ASSUME IInv, EveryoneAddressed, Sent, answer # <<>>, answer[1].error = "none"
          PROVE  LET worker == outcome[1].report[1]
                     caller == answer[1].report
                 IN  IF Mode = "sent" THEN caller = outcome[1].report
                     ELSE scenario.customEnvelope = (worker.provider = "memory") =>
                            caller[1].accepted = Reached(worker.provider, outcome[1].payload[1])
        <2>1. ~IsForeign
            BY <1>1 DEF IInv, AnsweredAsHandled
        <2> DEFINE worker == outcome[1].report[1]
                   payload == outcome[1].payload[1]
                   caller == answer[1].report
                   r == request[1][1]
        <2>2. \/ Mode = "queued" /\ caller = <<QueuedReport>>
              \/ Mode = "sent" /\ caller = ReadReport(WriteReport(worker))
            BY <1>1 DEF IInv, AnsweredAsHandled
        <2>3. CASE Mode = "sent"
            <3>1. caller = ReadReport(WriteReport(worker))
                BY <2>2, <2>3
            <3>2. outcome[1].report = <<worker>> /\ IsReport(worker)
                BY <1>1, <2>1, SentReportSound
            <3> HIDE DEF worker, caller
            <3>3. ReadReport(WriteReport(worker)) = <<worker>>
                BY <3>2, ReportBack
            <3>4. caller = outcome[1].report
                BY <3>1, <3>2, <3>3
            <3> QED  BY <2>3, <3>4 DEF caller
        <2>4. CASE Mode # "sent"
            <3> SUFFICES ASSUME scenario.customEnvelope = (worker.provider = "memory")
                         PROVE  caller[1].accepted = Reached(worker.provider, payload)
                BY <2>4
            <3> DEFINE o == scenario.options
                       m == scenario.message
                       asserted == IF scenario.customEnvelope THEN {"custom_envelope"} ELSE {}
            <3>1. caller = <<QueuedReport>>
                BY <2>2, <2>4
            <3>2. QueuedReport.accepted = StructuredAcceptedFor(m, o, asserted)
                BY DEF QueuedReport, SendReport
            <3>3. /\ r.message = m /\ r.options.envelope = o.envelope
                BY <1>1, <2>1, WorkerSends, CallerDecoded, CallerOptions
            <3>4. Reached(worker.provider, payload)
                    = IF worker.provider = "memory" /\ r.options.envelope # <<>> THEN r.options.envelope[1].rcptTo
                      ELSE DeriveEnvelope(r.message).rcptTo
                BY <1>1 DEF EveryoneAddressed
            <3> HIDE DEF worker, payload, r, o, m
            <3>5. "custom_envelope" \in asserted <=> worker.provider = "memory"
                OBVIOUS
            <3> HIDE DEF asserted
            <3>6. StructuredAcceptedFor(m, o, asserted)
                    = IF worker.provider = "memory" /\ o.envelope # <<>> THEN o.envelope[1].rcptTo
                      ELSE DeriveEnvelope(m).rcptTo
                BY <3>5 DEF StructuredAcceptedFor, DeriveEnvelope, AcceptedRecipientEmails
            <3>7. Reached(worker.provider, payload) = QueuedReport.accepted
                BY <3>2, <3>3, <3>4, <3>6
            <3> QED  BY <3>1, <3>7
        <2> QED  BY <2>3, <2>4
    <1>2. IInv /\ EveryoneAddressed => ReportsAgree
        BY <1>1 DEF ReportsAgree
    <1> QED  BY <1>2, ContentInvariant, EveryoneAddressedHolds, PTL

-------------------------------------------------------------------------------
(* Headers: of a name that comes again the last value counts. *)

LastCounts(map, headers, n) ==
    \A i \in 1..n : (\A j \in (i + 1)..n : headers[j].name # headers[i].name) =>
      headers[i].name \in DOMAIN map /\ map[headers[i].name] = headers[i].value

(* One more header, and of its name the last value counts.                 *)
LEMMA HeaderInserted ==
    ASSUME NEW headers, NEW n \in Nat \ {0}, NEW map, LastCounts(map, headers, n - 1)
    PROVE  LastCounts(Insert(map, headers[n].name, headers[n].value), headers, n)
    <1> DEFINE key == headers[n].name
               value == headers[n].value
               after == Insert(map, key, value)
    <1> HIDE DEF key, value
    <1>1. /\ DOMAIN after = DOMAIN map \cup {key} /\ after[key] = value
          /\ \A j \in DOMAIN map : j # key => after[j] = map[j]
        BY DEF Insert
    <1> HIDE DEF after
    <1> USE DEF key, value
    <1>2. ASSUME NEW i \in 1..n, \A j \in (i + 1)..n : headers[j].name # headers[i].name
          PROVE  headers[i].name \in DOMAIN after /\ after[headers[i].name] = headers[i].value
        <2>1. CASE i = n
            BY <1>1, <2>1
        <2>2. CASE i # n
            <3> DEFINE name == headers[i].name
            <3>1. i \in 1..(n - 1) /\ n \in (i + 1)..n
                BY <2>2
            <3>2. \A j \in (i + 1)..(n - 1) : headers[j].name # headers[i].name
                <4> TAKE j \in (i + 1)..(n - 1)
                <4>1. j \in (i + 1)..n
                    OBVIOUS
                <4> QED  BY <1>2, <4>1
            <3>3. name # key
                BY <1>2, <3>1
            <3>4. name \in DOMAIN map /\ map[name] = headers[i].value
                BY <3>1, <3>2 DEF LastCounts
            <3> HIDE DEF name, key
            <3>5. name \in DOMAIN after /\ after[name] = headers[i].value
                BY <1>1, <3>3, <3>4
            <3> QED  BY <3>5 DEF name
        <2> QED  BY <2>1, <2>2
    <1> QED  BY <1>2 DEF LastCounts, after

(* The image of an option is a sequence.                                   *)
LEMMA OptionIsSeq ==
    ASSUME NEW option, AnOption(option), NEW image, image = [i \in DOMAIN option |-> image[i]]
    PROVE  IsSeq(image)
    <1>1. image = <<>> \/ image = <<image[1]>>
        BY OptionImage DEF AnOption
    <1> QED  BY <1>1, EmptyIsSeq, OneIsSeq

(* The standard headers are a sequence.                                    *)
LEMMA StandardIsSeq ==
    ASSUME NEW m, SoundMessage(m)
    PROVE  IsSeq(StandardMessageHeaders(m))
    <1> DEFINE sender == [i \in DOMAIN m.sender |-> [name |-> "Sender", value |-> DisplayMailbox(m.sender[i])]]
               date == [i \in DOMAIN m.date |-> [name |-> "Date", value |-> <<(<<"date", FormatDate(m.date[i])>>)>>]]
               id == [i \in DOMAIN m.messageId |-> [name |-> "Message-ID", value |-> Plain(m.messageId[i])]]
    <1>1. AnOption(m.sender) /\ AnOption(m.date) /\ AnOption(m.messageId)
        BY DEF SoundMessage
    <1>2. /\ sender = [i \in DOMAIN m.sender |-> sender[i]] /\ date = [i \in DOMAIN m.date |-> date[i]]
          /\ id = [i \in DOMAIN m.messageId |-> id[i]]
        OBVIOUS
    <1>3. StandardMessageHeaders(m) = sender \o date \o id
        BY DEF StandardMessageHeaders
    <1> HIDE DEF sender, date, id
    <1>4. IsSeq(sender) /\ IsSeq(date) /\ IsSeq(id)
        BY <1>1, <1>2, OptionIsSeq
    <1>5. IsSeq(sender \o date)
        BY <1>4, Concat
    <1>6. IsSeq((sender \o date) \o id)
        BY <1>4, <1>5, Concat
    <1> QED  BY <1>3, <1>6

(* Resend is handed the last value of every custom header.                 *)
LEMMA CollectedLast ==
    ASSUME NEW m, SoundMessage(m), NEW i \in DOMAIN m.headers,
           \A j \in (i + 1)..Len(m.headers) : m.headers[j].name # m.headers[i].name
    PROVE  LET name == m.headers[i].name
           IN  name \in DOMAIN CollectHeaders(m) /\ CollectHeaders(m)[name] = m.headers[i].value
    <1> DEFINE own == m.headers
               first == StandardMessageHeaders(m)
               headers == first \o own
               n == Len(headers)
    <1>1. IsSeq(own) /\ IsSeq(first)
        BY StandardIsSeq DEF SoundMessage
    <1> HIDE DEF first
    <1>2. /\ IsSeq(headers) /\ n = Len(first) + Len(own) /\ n \in Nat /\ Len(first) \in Nat /\ Len(own) \in Nat
          /\ DOMAIN own = 1..Len(own) /\ \A j \in 1..Len(own) : headers[Len(first) + j] = own[j]
        <2> HIDE DEF own
        <2>1. /\ IsSeq(headers) /\ n = Len(first) + Len(own)
              /\ \A j \in 1..Len(own) : headers[Len(first) + j] = own[j]
            BY <1>1, Concat
        <2>2. Len(first) \in Nat /\ Len(own) \in Nat /\ DOMAIN own = 1..Len(own)
            BY <1>1, SeqFacts
        <2> QED  BY <2>1, <2>2
    <1>3. PICK f : /\ f[0] = NoHeaders
                   /\ \A k \in 1..n : f[k] = Insert(f[k - 1], headers[k].name, headers[k].value)
                   /\ CollectHeaders(m) = f[n]
        BY <1>2, HeadersCollectedSteps DEF first
    <1> HIDE DEF headers
    <1> DEFINE Good == {k \in 0..n : LastCounts(f[k], headers, k)}
    <1>4. 0 \in Good
        BY <1>2 DEF LastCounts
    <1>5. ASSUME NEW k \in 1..n, k - 1 \in Good PROVE k \in Good
        <2>1. LastCounts(f[k - 1], headers, k - 1) /\ k \in Nat \ {0} /\ k \in 0..n
            BY <1>2, <1>5
        <2> DEFINE before == f[k - 1]
        <2> HIDE DEF before
        <2>2. LastCounts(Insert(before, headers[k].name, headers[k].value), headers, k)
            BY <2>1, HeaderInserted DEF before
        <2>3. f[k] = Insert(before, headers[k].name, headers[k].value)
            BY <1>3 DEF before
        <2> QED  BY <2>1, <2>2, <2>3
    <1> HIDE DEF Good, n
    <1>6. 0..n \subseteq Good
        BY <1>2, <1>4, <1>5, BoundedInduction
    <1>7. LastCounts(f[n], headers, n)
        <2>1. n \in 0..n
            BY <1>2
        <2>2. n \in Good
            BY <1>6, <2>1
        <2> QED  BY <2>2 DEF Good
    <1> DEFINE k == Len(first) + i
    <1>8. k \in 1..n /\ headers[k] = own[i]
        BY <1>2
    <1>9. \A j \in (k + 1)..n : headers[j].name # headers[k].name
        <2> TAKE j \in (k + 1)..n
        <2> DEFINE l == j - Len(first)
        <2>1. l \in (i + 1)..Len(own) /\ l \in 1..Len(own) /\ j = Len(first) + l
            BY <1>2
        <2> HIDE DEF l
        <2>2. headers[j] = own[l] /\ own[l].name # own[i].name
            BY <1>2, <2>1
        <2> QED  BY <1>8, <2>2
    <1> HIDE DEF k
    <1>10. headers[k].name \in DOMAIN f[n] /\ f[n][headers[k].name] = headers[k].value
        BY <1>7, <1>8, <1>9 DEF LastCounts
    <1> QED  BY <1>3, <1>8, <1>10

(* ... and of names that differ in case there is one. *)
OneSpelling(map, headers, n) ==
    /\ \A k, l \in DOMAIN map : FoldName(k) = FoldName(l) => k = l
    /\ \A i \in 1..n : (\A j \in (i + 1)..n : FoldName(headers[j].name) # FoldName(headers[i].name)) =>
         \E k \in DOMAIN map : FoldName(k) = FoldName(headers[i].name) /\ map[k] = headers[i].value

(* A name is spelled as the one it equals but for case, if there is one.   *)
LEMMA SpelledIs ==
    ASSUME NEW map, NEW name
    PROVE  LET key == Spelled(map, name)
           IN  /\ FoldName(key) = FoldName(name)
               /\ key \in DOMAIN map \/ \A k \in DOMAIN map : FoldName(k) # FoldName(name)
    <1> DEFINE same == {k \in DOMAIN map : FoldName(k) = FoldName(name)}
    <1>1. CASE same = {}
        BY <1>1 DEF Spelled
    <1>2. CASE same # {}
        <2>1. Spelled(map, name) = CHOOSE k \in same : TRUE
            BY <1>2 DEF Spelled
        <2>2. Spelled(map, name) \in same
            BY <1>2, <2>1
        <2> QED  BY <2>2
    <1> QED  BY <1>1, <1>2

(* One more header, and names stay one of a kind.                          *)
LEMMA HeaderFolded ==
    ASSUME NEW headers, NEW n \in Nat \ {0}, NEW map, OneSpelling(map, headers, n - 1)
    PROVE  OneSpelling(Insert(map, Spelled(map, headers[n].name), headers[n].value), headers, n)
    <1> DEFINE name == headers[n].name
               key == Spelled(map, name)
               value == headers[n].value
               after == Insert(map, key, value)
    <1>1. /\ FoldName(key) = FoldName(name)
          /\ key \in DOMAIN map \/ \A k \in DOMAIN map : FoldName(k) # FoldName(name)
        BY SpelledIs
    <1> HIDE DEF key, value
    <1>2. /\ DOMAIN after = DOMAIN map \cup {key} /\ after[key] = value
          /\ \A j \in DOMAIN map : j # key => after[j] = map[j]
        BY DEF Insert
    <1> HIDE DEF after
    <1>3. \A k, l \in DOMAIN map : FoldName(k) = FoldName(l) => k = l
        BY DEF OneSpelling
    <1>4. \A k, l \in DOMAIN after : FoldName(k) = FoldName(l) => k = l
        <2> HIDE DEF name
        <2> QED  BY <1>1, <1>2, <1>3
    <1>5. ASSUME NEW i \in 1..n, \A j \in (i + 1)..n : FoldName(headers[j].name) # FoldName(headers[i].name)
          PROVE  \E k \in DOMAIN after : FoldName(k) = FoldName(headers[i].name) /\ after[k] = headers[i].value
        <2>1. CASE i = n
            <3>1. key \in DOMAIN after /\ FoldName(key) = FoldName(headers[i].name) /\ after[key] = headers[i].value
                BY <1>1, <1>2, <2>1 DEF value
            <3> QED  BY <3>1
        <2>2. CASE i # n
            <3>1. i \in 1..(n - 1) /\ n \in (i + 1)..n
                BY <2>2
            <3>2. \A j \in (i + 1)..(n - 1) : FoldName(headers[j].name) # FoldName(headers[i].name)
                <4> TAKE j \in (i + 1)..(n - 1)
                <4>1. j \in (i + 1)..n
                    OBVIOUS
                <4> QED  BY <1>5, <4>1
            <3>3. FoldName(name) # FoldName(headers[i].name)
                BY <1>5, <3>1
            <3>4. PICK k \in DOMAIN map : FoldName(k) = FoldName(headers[i].name) /\ map[k] = headers[i].value
                BY <3>1, <3>2 DEF OneSpelling
            <3> HIDE DEF name
            <3>5. k # key
                BY <1>1, <3>3, <3>4
            <3>6. k \in DOMAIN after /\ after[k] = map[k]
                BY <1>2, <3>5
            <3> QED  BY <3>4, <3>6
        <2> QED  BY <2>1, <2>2
    <1> QED  BY <1>4, <1>5 DEF OneSpelling, after, key, value

(* Cloudflare is handed the last value of every header, under one          *)
(* spelling.                                                               *)
LEMMA FoldedOnce ==
    ASSUME NEW headers, IsSeq(headers)
    PROVE  OneSpelling(FoldHeaders(headers), headers, Len(headers))
    <1> DEFINE n == Len(headers)
    <1>1. n \in Nat
        BY SeqFacts
    <1>2. PICK f : /\ f[0] = NoHeaders
                   /\ \A k \in 1..n : f[k] = Insert(f[k - 1], Spelled(f[k - 1], headers[k].name), headers[k].value)
                   /\ FoldHeaders(headers) = f[n]
        BY <1>1, HeadersFoldedSteps
    <1> DEFINE Good == {k \in 0..n : OneSpelling(f[k], headers, k)}
    <1> HIDE DEF n
    <1>3. 0 \in Good
        <2>1. DOMAIN f[0] = {}
            BY <1>2 DEF NoHeaders
        <2>2. OneSpelling(f[0], headers, 0)
            BY <2>1 DEF OneSpelling
        <2> QED  BY <1>1, <2>2
    <1>4. ASSUME NEW k \in 1..n, k - 1 \in Good PROVE k \in Good
        <2>1. OneSpelling(f[k - 1], headers, k - 1) /\ k \in Nat \ {0} /\ k \in 0..n
            BY <1>1, <1>4
        <2> DEFINE before == f[k - 1]
        <2> HIDE DEF before
        <2>2. OneSpelling(Insert(before, Spelled(before, headers[k].name), headers[k].value), headers, k)
            BY <2>1, HeaderFolded DEF before
        <2>3. f[k] = Insert(before, Spelled(before, headers[k].name), headers[k].value)
            BY <1>2 DEF before
        <2> QED  BY <2>1, <2>2, <2>3
    <1> HIDE DEF Good
    <1>5. 0..n \subseteq Good
        BY <1>1, <1>3, <1>4, BoundedInduction
    <1>6. n \in 0..n
        BY <1>1
    <1>7. n \in Good
        BY <1>5, <1>6
    <1> QED  BY <1>2, <1>7 DEF Good, n

(* What a structured payload says of a message. *)
LEMMA PayloadSays ==
    ASSUME NEW m, NEW sent, Same(m, sent), NEW o, NEW provider \in {"resend", "cloudflare"},
           Build(provider, sent, o).error = "none"
    PROVE  LET p == Build(provider, sent, o).payload
               headers == PayloadField(p, "headers")
               files == PayloadField(p, "attachments")
           IN  /\ p.subject = SubjectOf(m) /\ PayloadField(p, "text") = TextOf(m.body)
               /\ PayloadField(p, "html") = HtmlOf(m.body) /\ PayloadField(p, "replyTo") = CollectMailboxes(m.replyTo)
               /\ provider = "resend" => headers = CollectHeaders(sent)
               /\ provider = "cloudflare" => headers = FoldHeaders(m.headers)
               /\ DOMAIN files = DOMAIN m.attachments
               /\ \A i \in DOMAIN files : files[i].type = m.attachments[i].type /\ files[i].content = m.attachments[i].content
               /\ provider = "resend" /\ Get(o.slots, "ResendSendOptions") # <<>> =>
                    /\ p.tags = Get(o.slots, "ResendSendOptions")[1].tags
                    /\ p.template = Get(o.slots, "ResendSendOptions")[1].template
    <1> DEFINE p == Build(provider, sent, o).payload
               options == Get(o.slots, "ResendSendOptions")
    <1>1. /\ sent.replyTo = m.replyTo /\ sent.subject = m.subject /\ sent.body = m.body /\ sent.headers = m.headers
          /\ DOMAIN sent.attachments = DOMAIN m.attachments
          /\ \A i \in DOMAIN m.attachments : /\ sent.attachments[i].type = m.attachments[i].type
                                             /\ sent.attachments[i].content = m.attachments[i].content
        BY DEF Same
    <1> DEFINE subject == SubjectOf(sent)
               text == TextOf(sent.body)
               html == HtmlOf(sent.body)
               replyTo == CollectMailboxes(sent.replyTo)
    <1>2. /\ subject = SubjectOf(m) /\ text = TextOf(m.body) /\ html = HtmlOf(m.body)
          /\ replyTo = CollectMailboxes(m.replyTo)
        BY <1>1 DEF SubjectOf
    <1> HIDE DEF subject, text, html, replyTo
    <1>3. CASE provider = "resend"
        <2> DEFINE files == [i \in DOMAIN sent.attachments |-> ResendAttachment(sent.attachments[i])]
                   headers == CollectHeaders(sent)
                   chosen == IF options = <<>> THEN ResendSendOptionsNew ELSE options[1]
        <2>1. p = BuildEmailOptions(sent, o).payload /\ BuildEmailOptions(sent, o).error = "none"
            BY <1>3 DEF Build
        <2> HIDE DEF p
        <2>2. /\ p.replyTo = replyTo /\ p.subject = subject /\ p.text = text /\ p.html = html /\ p.headers = headers
              /\ p.tags = chosen.tags /\ p.template = chosen.template /\ p.attachments = files
              /\ {"to", "cc", "bcc", "replyTo", "text", "html", "headers", "attachments"} \subseteq DOMAIN p
            BY <2>1, ResendPayload DEF subject, text, html, replyTo
        <2>3. /\ DOMAIN files = DOMAIN m.attachments
              /\ \A i \in DOMAIN files : files[i].type = m.attachments[i].type /\ files[i].content = m.attachments[i].content
            BY <1>1 DEF ResendAttachment
        <2> HIDE DEF files, headers, chosen
        <2>4. /\ PayloadField(p, "text") = text /\ PayloadField(p, "html") = html /\ PayloadField(p, "replyTo") = replyTo
              /\ PayloadField(p, "headers") = headers /\ PayloadField(p, "attachments") = files
            BY <2>2 DEF PayloadField
        <2>5. options # <<>> => chosen = options[1]
            BY DEF chosen
        <2> HIDE DEF options
        <2> QED  BY <1>2, <1>3, <2>2, <2>3, <2>4, <2>5 DEF p, headers, options
    <1>4. CASE provider = "cloudflare"
        <2> DEFINE q == BuildPayload(sent).payload
                   files == [i \in DOMAIN sent.attachments |-> MapAttachment(sent.attachments[i], i)]
                   headers == FoldHeaders(sent.headers)
        <2>1. p = BindingMessage(q) /\ BuildPayload(sent).error = "none"
            BY <1>4 DEF Build, Right
        <2> HIDE DEF p, q
        <2>2. /\ q.replyTo = replyTo /\ q.subject = subject /\ q.text = text /\ q.html = html /\ q.headers = headers
              /\ q.attachments = files
            BY <2>1, CloudflarePayload DEF q, subject, text, html, replyTo
        <2>3. /\ DOMAIN files = DOMAIN m.attachments
              /\ \A i \in DOMAIN files : files[i].type = m.attachments[i].type /\ files[i].content = m.attachments[i].content
            BY <1>1 DEF MapAttachment
        <2>4. headers = FoldHeaders(m.headers)
            BY <1>1
        <2> HIDE DEF files, headers
        <2>5. /\ PayloadField(p, "text") = text /\ PayloadField(p, "html") = html /\ PayloadField(p, "replyTo") = replyTo
              /\ PayloadField(p, "headers") = headers /\ PayloadField(p, "attachments") = files /\ p.subject = subject
            BY <2>1, <2>2, BindingFields
        <2> QED  BY <1>2, <1>4, <2>3, <2>4, <2>5 DEF p
    <1> QED  BY <1>3, <1>4

(* A structured payload leaves nothing out that its provider has a field   *)
(* for: subject, texts, reply-to, the last value of every custom header    *)
(* under one spelling, the attachments in their order, and Resend's tags   *)
(* and template (build_email_options, build_payload, build_message).       *)
THEOREM PayloadCompleteHolds == Spec => []PayloadComplete
    <1>1. ASSUME IInv, Sent, outcome[1].report[1].provider # "memory"
          PROVE  LET m == request[1][1].message
                     p == outcome[1].payload[1]
                     provider == outcome[1].report[1].provider
                     field(name) == PayloadField(p, name)
                     name(n) == IF provider = "cloudflare" THEN FoldName(n) ELSE n
                     last(i) == \A j \in (i + 1)..Len(m.headers) : name(m.headers[j].name) # name(m.headers[i].name)
                     resend == Get(request[1][1].options.slots, "ResendSendOptions")
                 IN  /\ p.subject = SubjectOf(m) /\ field("text") = TextOf(m.body) /\ field("html") = HtmlOf(m.body)
                     /\ field("replyTo") = CollectMailboxes(m.replyTo)
                     /\ \A i \in DOMAIN m.headers : last(i) =>
                          {field("headers")[n] : n \in {k \in DOMAIN field("headers") : name(k) = name(m.headers[i].name)}}
                            = {m.headers[i].value}
                     /\ provider = "cloudflare" => \A k, n \in DOMAIN field("headers") : FoldName(k) = FoldName(n) => k = n
                     /\ [i \in DOMAIN field("attachments") |-> <<field("attachments")[i].type, field("attachments")[i].content>>]
                          = [i \in DOMAIN m.attachments |-> <<m.attachments[i].type, m.attachments[i].content>>]
                     /\ resend # <<>> /\ provider = "resend" => p.tags = resend[1].tags /\ p.template = resend[1].template
        <2> DEFINE r == request[1][1]
                   m == r.message
                   o == r.options
                   p == outcome[1].payload[1]
                   report == outcome[1].report[1]
                   resend == Get(o.slots, "ResendSendOptions")
                   headers == PayloadField(p, "headers")
                   files == PayloadField(p, "attachments")
        <2>1. PICK provider, sent :
                 /\ provider \in Providers
                 /\ LET built == Build(provider, sent, o)
                        accepted == StructuredAcceptedFor(sent, o, Capabilities(provider))
                    IN  /\ Same(m, sent) /\ built.error = "none" /\ outcome[1].payload = <<built.payload>>
                        /\ outcome[1].report = <<SendReport(provider, ProviderMessageId(provider), accepted)>>
            BY <1>1, SentBySomeone
        <2>2. report.provider = provider
            BY <2>1 DEF SendReport
        <2>3. /\ Same(m, sent) /\ Build(provider, sent, o).error = "none" /\ p = Build(provider, sent, o).payload
              /\ provider \in {"resend", "cloudflare"}
            BY <1>1, <2>1, <2>2 DEF Providers
        <2> HIDE DEF p, report, m, o
        <2>4. /\ p.subject = SubjectOf(m) /\ PayloadField(p, "text") = TextOf(m.body)
              /\ PayloadField(p, "html") = HtmlOf(m.body) /\ PayloadField(p, "replyTo") = CollectMailboxes(m.replyTo)
              /\ provider = "resend" => headers = CollectHeaders(sent)
              /\ provider = "cloudflare" => headers = FoldHeaders(m.headers)
              /\ DOMAIN files = DOMAIN m.attachments
              /\ \A i \in DOMAIN files : files[i].type = m.attachments[i].type /\ files[i].content = m.attachments[i].content
              /\ provider = "resend" /\ resend # <<>> => p.tags = resend[1].tags /\ p.template = resend[1].template
            BY <2>3, PayloadSays
        <2> HIDE DEF headers, files, resend
        <2>5. SoundMessage(sent) /\ sent.headers = m.headers /\ IsSeq(m.headers) /\ DOMAIN m.headers = 1..Len(m.headers)
            <3>1. SoundMessage(sent) /\ sent.headers = m.headers
                BY <2>3 DEF Same
            <3>2. IsSeq(m.headers)
                BY <3>1 DEF SoundMessage
            <3> QED  BY <3>1, <3>2, SeqFacts
        <2> DEFINE name(n) == IF provider = "cloudflare" THEN FoldName(n) ELSE n
        <2>6. provider = "cloudflare" => OneSpelling(headers, m.headers, Len(m.headers))
            BY <2>4, <2>5, FoldedOnce
        <2>7. provider = "cloudflare" => \A k, n \in DOMAIN headers : FoldName(k) = FoldName(n) => k = n
            BY <2>6 DEF OneSpelling
        <2>8. ASSUME NEW i \in DOMAIN m.headers,
                     \A j \in (i + 1)..Len(m.headers) : name(m.headers[j].name) # name(m.headers[i].name)
              PROVE  {headers[n] : n \in {k \in DOMAIN headers : name(k) = name(m.headers[i].name)}} = {m.headers[i].value}
            <3> DEFINE key == m.headers[i].name
            <3>1. CASE provider = "cloudflare"
                <4>1. PICK k \in DOMAIN headers : FoldName(k) = FoldName(key) /\ headers[k] = m.headers[i].value
                    BY <2>5, <2>6, <2>8, <3>1 DEF OneSpelling
                <4>2. {n \in DOMAIN headers : name(n) = name(key)} = {k}
                    BY <2>7, <3>1, <4>1
                <4> QED  BY <4>1, <4>2
            <3>2. CASE provider = "resend"
                <4>1. \A j \in (i + 1)..Len(sent.headers) : sent.headers[j].name # sent.headers[i].name
                    BY <2>5, <2>8, <3>2
                <4>2. i \in DOMAIN sent.headers
                    BY <2>5
                <4>3. key \in DOMAIN CollectHeaders(sent) /\ CollectHeaders(sent)[key] = m.headers[i].value
                    BY <2>5, <4>1, <4>2, CollectedLast
                <4>4. {n \in DOMAIN headers : name(n) = name(key)} = {key}
                    BY <2>4, <3>2, <4>3
                <4> QED  BY <2>4, <3>2, <4>3, <4>4
            <3> QED  BY <2>3, <3>1, <3>2
        <2>9. [i \in DOMAIN files |-> <<files[i].type, files[i].content>>]
                = [i \in DOMAIN m.attachments |-> <<m.attachments[i].type, m.attachments[i].content>>]
            BY <2>4
        <2> QED  BY <2>2, <2>4, <2>7, <2>8, <2>9 DEF p, report, m, o, headers, files, resend
    <1>2. IInv => PayloadComplete
        BY <1>1 DEF PayloadComplete
    <1> QED  BY <1>2, ContentInvariant, PTL

-------------------------------------------------------------------------------
(* The slots of a caller as a worker reads them. *)

Unclaimed(registry, slots) ==
    \A type \in DOMAIN slots : ProviderKey(type) \in DOMAIN registry => registry[ProviderKey(type)] = type

KnownSlots(registry, slots) ==
    [type \in {t \in DOMAIN slots : ProviderKey(t) \in DOMAIN registry} |-> slots[type]]

(* A worker has hydrated those of the types it knows among the first ones. *)
Hydrated(registry, slots, n, read) ==
    LET order == SetToSeq(DOMAIN slots)
    IN  /\ \A type : type \in DOMAIN read <=> \E i \in 1..n : type = order[i] /\ ProviderKey(type) \in DOMAIN registry
        /\ \A type \in DOMAIN read : read[type] = slots[type]
        /\ read = [type \in DOMAIN read |-> read[type]]

(* One more slot is hydrated, or skipped if its type is unknown.           *)
LEMMA SlotHydrated ==
    ASSUME NEW registry, NEW slots, Unclaimed(registry, slots), NEW n \in Nat \ {0},
           SetToSeq(DOMAIN slots)[n] \in DOMAIN slots,
           \A type \in DOMAIN slots : IsOptionOf(type, slots[type]),
           NEW read, Hydrated(registry, slots, n - 1, read), NEW lenient, lenient
    PROVE  \E next : /\ ReadSlot(registry, lenient, <<read>>, SlotField(slots, SetToSeq(DOMAIN slots)[n])) = <<next>>
                     /\ Hydrated(registry, slots, n, next)
    <1> DEFINE order == SetToSeq(DOMAIN slots)
               type == order[n]
               key == ProviderKey(type)
               value == WriteOption(type, slots[type])
               field == SlotField(slots, type)
    <1>1. field[1] = key /\ field[2] = value
        BY DEF SlotField
    <1>2. type \in DOMAIN slots /\ ReadOption(type, value) = <<slots[type]>>
        <2>1. type \in DOMAIN slots /\ IsOptionOf(type, slots[type])
            OBVIOUS
        <2> HIDE DEF type
        <2> QED  BY <2>1, OptionBack
    <1>3. /\ \A t : t \in DOMAIN read <=> \E i \in 1..(n - 1) : t = order[i] /\ ProviderKey(t) \in DOMAIN registry
          /\ \A t \in DOMAIN read : read[t] = slots[t]
          /\ read = [t \in DOMAIN read |-> read[t]]
        BY DEF Hydrated
    <1>4. \A t : (\E i \in 1..n : t = order[i] /\ ProviderKey(t) \in DOMAIN registry) <=>
                   \/ \E i \in 1..(n - 1) : t = order[i] /\ ProviderKey(t) \in DOMAIN registry
                   \/ t = type /\ key \in DOMAIN registry
        <2> TAKE t
        <2>1. \A i : i \in 1..n <=> i \in 1..(n - 1) \/ i = n
            OBVIOUS
        <2> QED  BY <2>1
    <1>5. CASE key \in DOMAIN registry
        <2> DEFINE next == Insert(read, type, slots[type])
        <2>1. registry[key] = type
            BY <1>2, <1>5 DEF Unclaimed
        <2> HIDE DEF field, value
        <2>2. HydrateInto(registry, key, value, read) = <<next>>
            <3>1. ReadOption(registry[key], value) = <<slots[type]>>
                BY <1>2, <2>1
            <3> HIDE DEF key, type, value, order
            <3>2. HydrateInto(registry, key, value, read) = <<Insert(read, registry[key], ReadOption(registry[key], value)[1])>>
                BY <1>5, <3>1, HydrateIs
            <3> QED  BY <2>1, <3>1, <3>2
        <2>3. ReadSlot(registry, lenient, <<read>>, field) = <<next>>
            BY <1>1, <1>5, <2>2 DEF ReadSlot
        <2>4. /\ DOMAIN next = DOMAIN read \cup {type} /\ next[type] = slots[type]
              /\ \A t \in DOMAIN read : t # type => next[t] = read[t]
              /\ next = [t \in DOMAIN next |-> next[t]]
            BY DEF Insert
        <2> HIDE DEF next
        <2>5. \A t \in DOMAIN next : next[t] = slots[t]
            BY <1>3, <2>4
        <2>6. \A t : t \in DOMAIN next <=> \E i \in 1..n : t = order[i] /\ ProviderKey(t) \in DOMAIN registry
            BY <1>3, <1>4, <1>5, <2>4
        <2>7. Hydrated(registry, slots, n, next)
            BY <2>4, <2>5, <2>6 DEF Hydrated
        <2> QED  BY <2>3, <2>7 DEF field
    <1>6. CASE key \notin DOMAIN registry
        <2> HIDE DEF field
        <2>1. ReadSlot(registry, lenient, <<read>>, field) = <<read>>
            BY <1>1, <1>6 DEF ReadSlot
        <2>2. \A t : t \in DOMAIN read <=> \E i \in 1..n : t = order[i] /\ ProviderKey(t) \in DOMAIN registry
            BY <1>3, <1>4, <1>6
        <2>3. Hydrated(registry, slots, n, read)
            BY <1>3, <2>2 DEF Hydrated
        <2> QED  BY <2>1, <2>3 DEF field
    <1> QED  BY <1>5, <1>6

(* Of a caller's slots the worker reads those of the types it registered.  *)
LEMMA SlotsBack ==
    ASSUME NEW registry, NEW slots, Unclaimed(registry, slots), IsFiniteSet(DOMAIN slots),
           \A type \in DOMAIN slots : IsOptionOf(type, slots[type]),
           WriteTransportOptions(slots) # <<>>, NEW lenient, lenient
    PROVE  ReadTransportOptions(registry, lenient, WriteTransportOptions(slots)[1]) = <<KnownSlots(registry, slots)>>
    <1> DEFINE order == SetToSeq(DOMAIN slots)
               n == Len(order)
    <1>1. /\ IsSeq(order) /\ \A i \in DOMAIN order : order[i] \in DOMAIN slots
          /\ \A type \in DOMAIN slots : \E i \in DOMAIN order : order[i] = type
        BY InSequence
    <1>2. n \in Nat /\ DOMAIN order = 1..n
        BY <1>1, SeqFacts
    <1>3. PICK fields : WriteTransportOptions(slots) = <<Obj(fields)>> /\ WrittenSlots(fields, slots, n)
        BY WroteSlots
    <1> DEFINE value == Obj(fields)
    <1>4. /\ value[2] = fields /\ Is("obj", value) /\ Len(value[2]) = n
          /\ \A i \in 1..n : value[2][i] = SlotField(slots, order[i])
        BY <1>3 DEF Obj, Is, WrittenSlots
    <1> HIDE DEF value, n
    <1>5. PICK f : /\ f[0] = <<NoSlots>>
                   /\ \A i \in 1..n : f[i] = ReadSlot(registry, lenient, f[i - 1], value[2][i])
                   /\ ReadTransportOptions(registry, lenient, value) = f[n]
        <2>1. Len(value[2]) \in Nat
            BY <1>2, <1>4
        <2>2. PICK f : /\ f[0] = <<NoSlots>>
                       /\ \A i \in 1..Len(value[2]) : f[i] = ReadSlot(registry, lenient, f[i - 1], value[2][i])
                       /\ ReadTransportOptions(registry, lenient, value)
                            = IF Is("obj", value) THEN f[Len(value[2])] ELSE <<>>
            BY <2>1, HydratesSteps
        <2> QED  BY <1>4, <2>2
    <1> DEFINE Good == {i \in 0..n : \E read : f[i] = <<read>> /\ Hydrated(registry, slots, i, read)}
    <1>6. 0 \in Good
        <2>1. DOMAIN NoSlots = {} /\ NoSlots = [type \in DOMAIN NoSlots |-> NoSlots[type]]
            BY DEF NoSlots
        <2>2. Hydrated(registry, slots, 0, NoSlots)
            BY <2>1 DEF Hydrated
        <2> QED  BY <1>2, <1>5, <2>2
    <1>7. ASSUME NEW i \in 1..n, i - 1 \in Good PROVE i \in Good
        <2>1. PICK read : f[i - 1] = <<read>> /\ Hydrated(registry, slots, i - 1, read)
            BY <1>7
        <2>2. i \in Nat \ {0} /\ i \in 0..n /\ order[i] \in DOMAIN slots
            BY <1>1, <1>2
        <2>3. f[i] = ReadSlot(registry, lenient, <<read>>, SlotField(slots, order[i]))
            BY <1>4, <1>5, <2>1
        <2>4. PICK next : /\ ReadSlot(registry, lenient, <<read>>, SlotField(slots, SetToSeq(DOMAIN slots)[i])) = <<next>>
                          /\ Hydrated(registry, slots, i, next)
            BY <2>1, <2>2, SlotHydrated
        <2>5. f[i] = <<next>>
            BY <2>3, <2>4
        <2> QED  BY <2>2, <2>4, <2>5
    <1> HIDE DEF Good
    <1>8. 0..n \subseteq Good
        BY <1>2, <1>6, <1>7, BoundedInduction
    <1>9. n \in 0..n
        BY <1>2
    <1>10. n \in Good
        BY <1>8, <1>9
    <1>11. PICK read : f[n] = <<read>> /\ Hydrated(registry, slots, n, read)
        BY <1>10 DEF Good
    <1>12. read = KnownSlots(registry, slots)
        <2> DEFINE known == {t \in DOMAIN slots : ProviderKey(t) \in DOMAIN registry}
        <2>1. \A type : type \in DOMAIN read <=> \E i \in 1..n : type = order[i] /\ ProviderKey(type) \in DOMAIN registry
            BY <1>11 DEF Hydrated
        <2>2. DOMAIN read = known
            <3> HIDE DEF order
            <3>1. \A type : type \in DOMAIN read => type \in known
                BY <1>1, <1>2, <2>1
            <3>2. \A type : type \in known => type \in DOMAIN read
                BY <1>1, <1>2, <2>1
            <3> QED  BY <3>1, <3>2
        <2>3. read = [type \in DOMAIN read |-> read[type]] /\ \A type \in DOMAIN read : read[type] = slots[type]
            BY <1>11 DEF Hydrated
        <2> HIDE DEF known
        <2>4. read = [type \in known |-> slots[type]]
            BY <2>2, <2>3
        <2> QED  BY <2>4 DEF KnownSlots, known
    <1>13. WriteTransportOptions(slots)[1] = value
        BY <1>3 DEF value
    <1>14. ReadTransportOptions(registry, lenient, value) = <<read>>
        BY <1>5, <1>11
    <1> QED  BY <1>12, <1>13, <1>14

(* A request that is written is read back as it was, but for the options of *)
(* types that the worker does not know.                                     *)
THEOREM RequestBack ==
    ASSUME NEW registry, NEW r, IsSendRequest(r), WriteSendRequest(r) # <<>>, Unclaimed(registry, r.options.slots)
    PROVE  LET o == [r.options EXCEPT !.slots = KnownSlots(registry, r.options.slots)]
           IN  ReadSendRequest(registry, WriteSendRequest(r)[1])
                 = <<[transport |-> r.transport, message |-> r.message, options |-> o]>>
    <1> DEFINE json == WriteSendRequest(r)[1]
               o == r.options
               slots == o.slots
               kept == KnownSlots(registry, slots)
               lenient == TRUE
               message == r.message
               options == ReadSendOptions(registry, lenient, WriteSendOptions(o)[1])
    <1>1. /\ WriteSendOptions(o) # <<>> /\ IsObject(json)
          /\ Once(json, "options") /\ Found(json, "options") # {} /\ Value(json, "options") = WriteSendOptions(o)[1]
          /\ Once(json, "message") /\ Value(json, "message") = WriteMessage(message)
          /\ Once(json, "transport") /\ Value(json, "transport") = Text(r.transport)
        BY RequestWritten
    <1>2. IsMessage(message) /\ ValidateBasic(message) = "none" /\ IsParsed(r.transport, NewtypeFromStr) /\ IsSendOptions(o)
        BY DEF IsSendRequest
    <1>3. ReadOutbound(WriteMessage(message)) = <<message>>
        <2>1. ReadMessage(WriteMessage(message)) = <<message>>
            BY <1>2, MessageBack
        <2> QED  BY <1>2, <2>1 DEF ReadOutbound, OutboundNew
    <1>4. Parsed(Text(r.transport), NewtypeFromStr) = <<r.transport>>
        BY <1>2, ParsedBack
    <1>5. SlotsMean(registry, lenient, o, kept)
        <2>1. IsFiniteSet(DOMAIN slots) /\ \A type \in DOMAIN slots : IsOptionOf(type, slots[type])
            BY <1>2 DEF IsSendOptions
        <2>2. CASE DOMAIN slots = {}
            <3>1. SlotsOption(o) = <<>>
                BY <2>2 DEF SlotsOption
            <3>2. {t \in DOMAIN slots : ProviderKey(t) \in DOMAIN registry} = {}
                BY <2>2
            <3>3. kept = NoSlots
                BY <3>2 DEF NoSlots, KnownSlots
            <3> QED  BY <3>1, <3>3 DEF SlotsMean
        <2>3. CASE DOMAIN slots # {}
            <3>1. SlotsOption(o) = WriteTransportOptions(slots)
                BY <2>3 DEF SlotsOption
            <3>2. lenient /\ Unclaimed(registry, slots)
                OBVIOUS
            <3>3. SlotsOption(o) # <<>>
                BY <1>1, <1>2, <2>3, WrittenOptions
            <3> HIDE DEF slots, lenient, kept, o
            <3>4. ReadTransportOptions(registry, lenient, WriteTransportOptions(slots)[1]) = <<KnownSlots(registry, slots)>>
                BY <2>1, <3>1, <3>2, <3>3, SlotsBack
            <3> QED  BY <3>1, <3>3, <3>4 DEF SlotsMean, kept
        <2> QED  BY <2>2, <2>3
    <1>6. ReadSendOptions(registry, TRUE, WriteSendOptions(o)[1]) = options
        OBVIOUS
    <1> HIDE DEF json, slots, kept, lenient, message, o
    <1>7. options # <<>> /\ options[1].slots = kept
        BY ONLY <1>1, <1>2, <1>5, ControlsBack
    <1>8. /\ options[1].envelope = o.envelope /\ options[1].timeout = o.timeout /\ options[1].key = o.key
          /\ options[1].correlation = o.correlation /\ SomeOptions(options)
        BY ONLY <1>1, <1>2, <1>7, ControlsBack
    <1> HIDE DEF options
    <1> DEFINE left == [o EXCEPT !.slots = kept]
    <1>9. options = <<left>>
        <2>1. o = [envelope |-> o.envelope, slots |-> o.slots, timeout |-> o.timeout, key |-> o.key,
                   correlation |-> o.correlation]
            BY <1>2 DEF IsSendOptions
        <2>2. left = [envelope |-> o.envelope, slots |-> kept, timeout |-> o.timeout, key |-> o.key,
                      correlation |-> o.correlation]
            BY <2>1
        <2> DEFINE read == options[1]
        <2> HIDE DEF read
        <2>3. options = <<[name \in OptionNames |-> read[name]]>>
            BY <1>8 DEF SomeOptions, read
        <2>4. /\ read.envelope = o.envelope /\ read.timeout = o.timeout /\ read.key = o.key
              /\ read.correlation = o.correlation /\ read.slots = kept
            BY <1>7, <1>8 DEF read
        <2>5. [name \in OptionNames |-> read[name]]
                = [envelope |-> o.envelope, slots |-> kept, timeout |-> o.timeout, key |-> o.key,
                   correlation |-> o.correlation]
            BY <2>4 DEF OptionNames
        <2> QED  BY <2>2, <2>3, <2>5
    <1> HIDE DEF left
    <1> DEFINE first == Required(json, "transport", LAMBDA v : Parsed(v, NewtypeFromStr))
               second == Required(json, "message", ReadOutbound)
               third == OrDefault(json, "options", NoSendOptions, LAMBDA v : ReadSendOptions(registry, TRUE, v))
    <1>10. first = <<r.transport>> /\ second = <<message>> /\ third = <<left>>
        <2>1. first = <<r.transport>>
            BY <1>1, <1>4 DEF Required
        <2>2. second = <<message>>
            BY <1>1, <1>3 DEF Required, message
        <2>3. third = <<left>>
            BY <1>1, <1>6, <1>9 DEF OrDefault, Required
        <2> QED  BY <2>1, <2>2, <2>3
    <1>11. ReadSendRequest(registry, json) = All([transport |-> first, message |-> second, options |-> third])
        BY <1>1 DEF ReadSendRequest, IsObject
    <1> HIDE DEF first, second, third
    <1>12. ReadSendRequest(registry, json) = <<[transport |-> r.transport, message |-> message, options |-> left]>>
        BY <1>10, <1>11 DEF All
    <1> QED  BY <1>12 DEF json, message, left, kept, slots, o

(* What the worker reads of a caller's request is what the caller meant, but *)
(* for the options of types that it does not know.                           *)
LEMMA MeantRead ==
    ASSUME IInv
    PROVE  ReadAsMeant
    <1> DEFINE o == scenario.options
               slots == o.slots
               registry == Registry
               known == {type \in DOMAIN slots : ProviderKey(type) \in DOMAIN registry}
               kept == [type \in known |-> slots[type]]
               meant == [transport |-> scenario.transport, message |-> scenario.message,
                         options |-> [o EXCEPT !.slots = kept]]
    <1>1. SUFFICES ASSUME request # <<>>, ~IsForeign, ~\E type \in DOMAIN slots : Claimed(type)
                   PROVE  request[1] = <<meant>> /\ header = meant.options.key
        BY DEF ReadAsMeant
    <1>2. body # <<>> /\ request = <<Deserialize(registry, body[1])>>
        BY <1>1 DEF IInv, ReadAsPosted
    <1>3. /\ IsSendRequest(scenario) /\ WriteSendRequest(scenario) # <<>>
          /\ body[1] = [json |-> WriteSendRequest(scenario)[1], trailing |-> FALSE] /\ header = o.key
        <2>1. IsSendRequest(scenario)
            BY <1>1, ScenariosAssumption DEF IInv, IsForeign
        <2>2. body = <<[json |-> WriteSendRequest(scenario)[1], trailing |-> FALSE]>>
            BY <1>1, <1>2 DEF IInv, PostedAsWritten
        <2>3. WriteSendRequest(scenario) # <<>> /\ header = o.key
            BY <1>1, <1>2 DEF IInv, PostedAsWritten
        <2> DEFINE posted == [json |-> WriteSendRequest(scenario)[1], trailing |-> FALSE]
        <2>4. body = <<posted>>
            BY <2>2
        <2> HIDE DEF posted
        <2>5. body[1] = posted
            BY <2>4
        <2> QED  BY <2>1, <2>3, <2>5 DEF posted
    <1>4. request[1] = ReadSendRequest(registry, WriteSendRequest(scenario)[1])
        <2> DEFINE json == WriteSendRequest(scenario)[1]
        <2> HIDE DEF json
        <2>1. Deserialize(registry, [json |-> json, trailing |-> FALSE]) = ReadSendRequest(registry, json)
            BY DEF Deserialize
        <2> QED  BY <1>2, <1>3, <2>1 DEF json
    <1>5. kept = KnownSlots(registry, slots) /\ Unclaimed(registry, slots)
        BY <1>1 DEF KnownSlots, Unclaimed, Claimed
    <1>6. ReadSendRequest(registry, WriteSendRequest(scenario)[1]) = <<meant>>
        <2> HIDE DEF registry, kept
        <2>1. ReadSendRequest(registry, WriteSendRequest(scenario)[1])
                = <<[transport |-> scenario.transport, message |-> scenario.message,
                     options |-> [o EXCEPT !.slots = KnownSlots(registry, slots)]]>>
            BY <1>3, <1>5, RequestBack
        <2> QED  BY <1>5, <2>1
    <1>7. meant.options.key = o.key
        <2>1. o = [envelope |-> o.envelope, slots |-> o.slots, timeout |-> o.timeout, key |-> o.key,
                   correlation |-> o.correlation]
            BY <1>3 DEF IsSendRequest, IsSendOptions
        <2> HIDE DEF o, kept
        <2> QED  BY <2>1
    <1> QED  BY <1>3, <1>4, <1>6, <1>7

(* The worker reads every request a caller posts as what the caller meant: *)
(* the same key, message, envelope, timeout and ids, and of the options    *)
(* those of the types it registered; the key in the header is the one in   *)
(* the payload (RestateTransport::invoke, SendRequestSeed).                *)
THEOREM ReadAsMeantHolds == Spec => []ReadAsMeant
    <1>1. IInv => ReadAsMeant
        BY MeantRead
    <1> QED  BY <1>1, ContentInvariant, PTL

-------------------------------------------------------------------------------
(* Options that are read, whoever wrote them. *)

(* A duration that is read is one.                                         *)
LEMMA DurationRead == \A value : ReadDuration(value) # <<>> => IsDuration(ReadDuration(value)[1])
    <1> TAKE value
    <1> SUFFICES ASSUME ReadDuration(value) # <<>> PROVE IsDuration(ReadDuration(value)[1])
        OBVIOUS
    <1> DEFINE secs == Required(value, "secs", ReadNumber)
               nanos == Required(value, "nanos", ReadNumber)
               fields == [secs |-> secs, nanos |-> nanos]
    <1>1. ReadDuration(value) = All(fields)
        BY DEF ReadDuration
    <1> HIDE DEF secs, nanos
    <1>2. ReadDuration(value)[1] = [f \in DOMAIN fields |-> fields[f][1]]
        BY <1>1, AllGives
    <1>3. ReadDuration(value)[1] = [secs |-> secs[1], nanos |-> nanos[1]]
        BY <1>2
    <1> QED  BY <1>3 DEF IsDuration

(* A mode that is read is one.                                             *)
LEMMA ModeRead == \A value : ReadMode(value) # <<>> => ReadMode(value)[1] \in {"queued", "sent"}
    BY DEF ReadMode

(* A tag that is read is one.                                              *)
LEMMA TagRead == \A value \in JsonValues : ReadTag(value) # <<>> => IsTag(ReadTag(value)[1])
    <1> TAKE value \in JsonValues
    <1> SUFFICES ASSUME ReadTag(value) # <<>> PROVE IsTag(ReadTag(value)[1])
        OBVIOUS
    <1> DEFINE name == Required(value, "name", ReadWord)
               content == Required(value, "value", ReadWord)
               fields == [name |-> name, value |-> content]
    <1>1. Is("obj", value) /\ ReadTag(value) = All(fields)
        BY DEF ReadTag
    <1>2. name # <<>> => IsName(name[1])
        <2> DEFINE item == Value(value, "name")
        <2>1. name # <<>> => Once(value, "name") /\ name = ReadWord(item)
            BY DEF Required
        <2>2. Once(value, "name") => item \in JsonValues
            BY <1>1, JsonParts
        <2> HIDE DEF item, name
        <2> QED  BY <2>1, <2>2, WordJson
    <1>3. content # <<>> => IsName(content[1])
        <2> DEFINE item == Value(value, "value")
        <2>1. content # <<>> => Once(value, "value") /\ content = ReadWord(item)
            BY DEF Required
        <2>2. Once(value, "value") => item \in JsonValues
            BY <1>1, JsonParts
        <2> HIDE DEF item, content
        <2> QED  BY <2>1, <2>2, WordJson
    <1> HIDE DEF name, content
    <1>4. ReadTag(value)[1] = [f \in DOMAIN fields |-> fields[f][1]] /\ \A f \in DOMAIN fields : fields[f] # <<>>
        BY <1>1, AllGives
    <1> DEFINE made == ReadTag(value)[1]
    <1>5. made = [name |-> name[1], value |-> content[1]] /\ name # <<>> /\ content # <<>>
        BY <1>4
    <1> HIDE DEF made
    <1>6. made.name = name[1] /\ made.value = content[1] /\ made = [name |-> made.name, value |-> made.value]
        BY <1>5
    <1>7. IsTag(made)
        BY <1>2, <1>3, <1>5, <1>6 DEF IsTag
    <1> QED  BY <1>7 DEF made

(* An optional list is read as tags.                                       *)
LEMMA TagsRead ==
    ASSUME NEW value, \A i \in DOMAIN value[2] : value[2][i][2] \in JsonValues, NEW key,
           OptionalMany(value, key, ReadTag) # <<>>
    PROVE  IsList(OptionalMany(value, key, ReadTag)[1], IsTag)
    <1> DEFINE option == OptionalMany(value, key, ReadTag)
               item == Value(value, key)
               items == item[2]
               image == [i \in DOMAIN items |-> ReadTag(items[i])]
    <1>1. \/ option = <<(<<>>)>>
          \/ Once(value, key) /\ Is("arr", item) /\ option = All(image)
        BY DEF OptionalMany, OrDefault, Required, ReadMany
    <1>2. CASE option = <<(<<>>)>>
        <2>1. option[1] = <<>> /\ IsSeq(<<>>) /\ DOMAIN <<>> = {}
            BY <1>2, EmptyIsSeq
        <2> HIDE DEF option
        <2>2. IsList(option[1], IsTag)
            BY <2>1 DEF IsList
        <2> QED  BY <2>2 DEF option
    <1>3. CASE Once(value, key) /\ Is("arr", item) /\ option = All(image)
        <2>1. item \in JsonValues
            BY <1>3, FieldValue
        <2>2. IsSeq(items) /\ \A i \in DOMAIN items : items[i] \in JsonValues
            <3> HIDE DEF item
            <3> QED  BY <1>3, <2>1, JsonParts
        <2>3. image = [i \in DOMAIN items |-> image[i]] /\ \A i \in DOMAIN items : image[i] = ReadTag(items[i])
            OBVIOUS
        <2> HIDE DEF image, items, option
        <2>4. All(image) # <<>>
            BY <1>3 DEF option
        <2>5. /\ All(image) = <<All(image)[1]>> /\ IsSeq(All(image)[1]) /\ DOMAIN All(image)[1] = DOMAIN items
              /\ \A i \in DOMAIN items : image[i] # <<>> /\ All(image)[1][i] = image[i][1]
            BY <2>2, <2>3, <2>4, ManyRead
        <2> DEFINE list == All(image)[1]
        <2> HIDE DEF list
        <2>6. \A i \in DOMAIN list : IsTag(list[i])
            <3> TAKE i \in DOMAIN list
            <3> DEFINE part == items[i]
            <3>1. part \in JsonValues /\ ReadTag(part) # <<>> /\ list[i] = ReadTag(part)[1]
                BY <2>2, <2>3, <2>5 DEF list
            <3> HIDE DEF part
            <3>2. IsTag(ReadTag(part)[1])
                BY <3>1, TagRead
            <3> QED  BY <3>1, <3>2
        <2>7. IsList(list, IsTag)
            BY <2>5, <2>6 DEF list, IsList
        <2>8. option[1] = list
            BY <1>3 DEF list
        <2> QED  BY <2>7, <2>8 DEF option
    <1> QED  BY <1>1, <1>2, <1>3

ReadVariables(value) == IF Is("obj", value) THEN <<value>> ELSE <<>>

(* A template that is read is one.                                         *)
LEMMA TemplateRead == \A value \in JsonValues : ReadTemplate(value) # <<>> => IsTemplate(ReadTemplate(value)[1])
    <1> TAKE value \in JsonValues
    <1> SUFFICES ASSUME ReadTemplate(value) # <<>> PROVE IsTemplate(ReadTemplate(value)[1])
        OBVIOUS
    <1> DEFINE id == Required(value, "id", ReadWord)
               variables == Optional(value, "variables", LAMBDA v : IF Is("obj", v) THEN <<v>> ELSE <<>>)
               fields == [id |-> id, variables |-> variables]
               read == ReadVariables(Value(value, "variables"))
               found == Once(value, "variables")
    <1>1. Is("obj", value) /\ ReadTemplate(value) = All(fields)
        BY DEF ReadTemplate
    <1>2. id # <<>> => IsName(id[1])
        <2> DEFINE item == Value(value, "id")
        <2>1. id # <<>> => Once(value, "id") /\ id = ReadWord(item)
            BY DEF Required
        <2>2. Once(value, "id") => item \in JsonValues
            BY <1>1, JsonParts
        <2> HIDE DEF item, id
        <2> QED  BY <2>1, <2>2, WordJson
    <1>3. variables = <<(<<>>)>> \/ variables = <<>> \/ (found /\ variables = [i \in DOMAIN read |-> <<read[i]>>])
        BY DEF Optional, OrDefault, Required, Map, ReadVariables
    <1>4. AnOption(read) /\ (read # <<>> => Is("obj", read[1]))
        BY DEF ReadVariables, AnOption
    <1> HIDE DEF id, variables, read, found
    <1>5. ReadTemplate(value)[1] = [f \in DOMAIN fields |-> fields[f][1]] /\ \A f \in DOMAIN fields : fields[f] # <<>>
        BY <1>1, AllGives
    <1> DEFINE a == id[1]
               b == variables[1]
               made == ReadTemplate(value)[1]
    <1>6. made = [id |-> a, variables |-> b] /\ id # <<>> /\ variables # <<>>
        BY <1>5
    <1>7. IsOption(b, LAMBDA v : Is("obj", v))
        <2>1. variables[1] = <<>> \/ (found /\ read # <<>> /\ variables[1] = <<read[1]>>)
            BY <1>3, <1>4, <1>6, OptionalIs
        <2> QED  BY <1>4, <2>1 DEF IsOption
    <1>8. IsName(a)
        BY <1>2, <1>6
    <1> HIDE DEF a, b, made
    <1>9. made.id = a /\ made.variables = b /\ made = [id |-> made.id, variables |-> made.variables]
        BY <1>6
    <1>10. IsTemplate(made)
        BY <1>7, <1>8, <1>9 DEF IsTemplate
    <1> QED  BY <1>10 DEF made

IsMode(mode) == mode \in {"queued", "sent"}

(* Whatever is read as an option of a type is one.                         *)
LEMMA OptionJson ==
    ASSUME NEW type, NEW value \in JsonValues, ReadOption(type, value) # <<>>
    PROVE  IsOptionOf(type, ReadOption(type, value)[1])
    <1> DEFINE made == ReadOption(type, value)[1]
    <1>1. Is("obj", value)
        BY DEF ReadOption
    <1>2. \A i \in DOMAIN value[2] : value[2][i][2] \in JsonValues
        BY <1>1, JsonFields
    <1>3. CASE type = "ResendSendOptions"
        <2> DEFINE tags == OptionalMany(value, "tags", ReadTag)
                   template == Optional(value, "template", ReadTemplate)
                   fields == [tags |-> tags, template |-> template]
                   item == Value(value, "template")
                   read == ReadTemplate(item)
                   found == Once(value, "template")
        <2>1. ReadOption(type, value) = All(fields)
            BY <1>1, <1>3 DEF ReadOption
        <2>2. tags # <<>> => IsList(tags[1], IsTag)
            BY <1>2, TagsRead
        <2>3. template = <<(<<>>)>> \/ template = <<>> \/ (found /\ template = [i \in DOMAIN read |-> <<read[i]>>])
            BY DEF Optional, OrDefault, Required, Map
        <2>4. found => item \in JsonValues
            BY <1>1, JsonParts
        <2> HIDE DEF tags, template, item
        <2>5. AnOption(read)
            <3> DEFINE raw == [id |-> Required(item, "id", ReadWord),
                               variables |-> Optional(item, "variables", LAMBDA v : IF Is("obj", v) THEN <<v>> ELSE <<>>)]
            <3>1. read = IF ~Is("obj", item) THEN <<>> ELSE All(raw)
                BY DEF ReadTemplate
            <3>2. AnOption(All(raw)) /\ AnOption(<<>>)
                <4> HIDE DEF raw
                <4> QED  BY AllIs DEF AnOption
            <3> HIDE DEF raw, read
            <3> QED  BY <3>1, <3>2
        <2>6. found /\ read # <<>> => IsTemplate(read[1])
            BY <2>4, TemplateRead
        <2> HIDE DEF read, found
        <2>7. made = [f \in DOMAIN fields |-> fields[f][1]] /\ \A f \in DOMAIN fields : fields[f] # <<>>
            BY <2>1, AllGives
        <2> DEFINE a == tags[1]
                   b == template[1]
        <2>8. made = [tags |-> a, template |-> b] /\ tags # <<>> /\ template # <<>>
            BY <2>7
        <2>9. IsOption(b, IsTemplate)
            <3>1. template[1] = <<>> \/ (found /\ read # <<>> /\ template[1] = <<read[1]>>)
                BY <2>3, <2>5, <2>8, OptionalIs
            <3> QED  BY <2>6, <3>1 DEF IsOption
        <2>10. IsList(a, IsTag)
            BY <2>2, <2>8
        <2> HIDE DEF a, b, made
        <2>11. made.tags = a /\ made.template = b /\ made = [tags |-> made.tags, template |-> made.template]
            BY <2>8
        <2>12. IsOptionOf(type, made)
            BY <1>3, <2>9, <2>10, <2>11 DEF IsOptionOf
        <2> QED  BY <2>12 DEF made
    <1>4. CASE type = "RestateSendOptions"
        <2> DEFINE mode == Optional(value, "invocation_mode", ReadMode)
                   delay == Optional(value, "delay", ReadDuration)
                   fields == [mode |-> mode, delay |-> delay]
                   readM == ReadMode(Value(value, "invocation_mode"))
                   foundM == Once(value, "invocation_mode")
                   readD == ReadDuration(Value(value, "delay"))
                   foundD == Once(value, "delay")
        <2>1. ReadOption(type, value) = All(fields)
            BY <1>1, <1>4 DEF ReadOption
        <2>2. mode = <<(<<>>)>> \/ mode = <<>> \/ (foundM /\ mode = [i \in DOMAIN readM |-> <<readM[i]>>])
            BY DEF Optional, OrDefault, Required, Map
        <2>3. delay = <<(<<>>)>> \/ delay = <<>> \/ (foundD /\ delay = [i \in DOMAIN readD |-> <<readD[i]>>])
            BY DEF Optional, OrDefault, Required, Map
        <2>4. AnOption(readM) /\ (readM # <<>> => IsMode(readM[1]))
            BY ModeRead DEF ReadMode, AnOption, IsMode
        <2>5. AnOption(readD) /\ (readD # <<>> => IsDuration(readD[1]))
            BY ReadersReturnOptions, DurationRead
        <2> HIDE DEF mode, delay, readM, readD, foundM, foundD
        <2>7. made = [f \in DOMAIN fields |-> fields[f][1]] /\ \A f \in DOMAIN fields : fields[f] # <<>>
            BY <2>1, AllGives
        <2> DEFINE a == mode[1]
                   b == delay[1]
        <2>8. made = [mode |-> a, delay |-> b] /\ mode # <<>> /\ delay # <<>>
            BY <2>7
        <2>9. IsOption(a, IsMode)
            <3>1. mode[1] = <<>> \/ (foundM /\ readM # <<>> /\ mode[1] = <<readM[1]>>)
                BY <2>2, <2>4, <2>8, OptionalIs
            <3> QED  BY <2>4, <3>1 DEF IsOption
        <2>10. IsOption(b, IsDuration)
            <3>1. delay[1] = <<>> \/ (foundD /\ readD # <<>> /\ delay[1] = <<readD[1]>>)
                BY <2>3, <2>5, <2>8, OptionalIs
            <3> QED  BY <2>5, <3>1 DEF IsOption
        <2> HIDE DEF a, b, made
        <2>11. made.mode = a /\ made.delay = b /\ made = [mode |-> made.mode, delay |-> made.delay]
            BY <2>8
        <2>12. IsOptionOf(type, made)
            BY <1>4, <2>9, <2>10, <2>11 DEF IsOptionOf, IsOption, IsMode
        <2> QED  BY <2>12 DEF made
    <1>5. CASE type \notin {"ResendSendOptions", "RestateSendOptions"}
        <2> DEFINE item == Value(value, "value")
        <2>1. ReadOption(type, value) = Required(value, "value", ReadWord)
            BY <1>1, <1>5 DEF ReadOption
        <2>2. Once(value, "value") /\ ReadOption(type, value) = ReadWord(item)
            BY <2>1 DEF Required
        <2>3. item \in JsonValues
            BY <1>1, <2>2, JsonParts
        <2> HIDE DEF item
        <2>4. IsName(made)
            BY <2>2, <2>3, WordJson
        <2> HIDE DEF made
        <2>5. IsOptionOf(type, made)
            BY <1>5, <2>4 DEF IsOptionOf
        <2> QED  BY <2>5 DEF made
    <1> QED  BY <1>3, <1>4, <1>5

(* An object of one member has no field under another key.                 *)
LEMMA NothingElse1 ==
    ASSUME NEW k1, NEW o1, AnOption(o1), NEW key, key # k1
    PROVE  Found(Object(<<(<<k1, o1>>)>>), key) = {}
    <1> DEFINE members == <<(<<k1, o1>>)>>
    <1>1. members = [i \in 1..1 |-> members[i]] /\ 1 \in Nat
        OBVIOUS
    <1>2. IsSeq(members) /\ DOMAIN members = 1..1
        BY <1>1, MakeSeq
    <1>3. members[1] = <<k1, o1>>
        OBVIOUS
    <1> HIDE DEF members
    <1>4. \A i \in 1..1 : i = 1
        OBVIOUS
    <1>5. (\A i \in DOMAIN members : AnOption(members[i][2])) /\ \A i \in DOMAIN members : members[i][1] # key
        BY <1>2, <1>3, <1>4
    <1>6. \A i, j \in DOMAIN members : members[i][1] = members[j][1] => i = j
        BY <1>2, <1>3, <1>4
    <1>7. IsMembers(members)
        BY <1>2, <1>5, <1>6 DEF IsMembers
    <1>8. Found(Object(members), key) = {}
        BY <1>5, <1>7, NoMember
    <1> QED  BY <1>8 DEF members

(* Nor has one of two.                                                     *)
LEMMA NothingElse2 ==
    ASSUME NEW k1, NEW o1, NEW k2, NEW o2, AnOption(o1), AnOption(o2), k1 # k2, NEW key, key # k1, key # k2
    PROVE  Found(Object(<<(<<k1, o1>>), <<k2, o2>>>>), key) = {}
    <1> DEFINE members == <<(<<k1, o1>>), <<k2, o2>>>>
    <1>1. members = [i \in 1..2 |-> members[i]] /\ 2 \in Nat
        OBVIOUS
    <1>2. IsSeq(members) /\ DOMAIN members = 1..2
        BY <1>1, MakeSeq
    <1>3. members[1] = <<k1, o1>> /\ members[2] = <<k2, o2>>
        OBVIOUS
    <1> HIDE DEF members
    <1>4. \A i \in 1..2 : i = 1 \/ i = 2
        OBVIOUS
    <1>5. (\A i \in DOMAIN members : AnOption(members[i][2])) /\ \A i \in DOMAIN members : members[i][1] # key
        BY <1>2, <1>3, <1>4
    <1>6. \A i, j \in DOMAIN members : members[i][1] = members[j][1] => i = j
        BY <1>2, <1>3, <1>4
    <1>7. IsMembers(members)
        BY <1>2, <1>5, <1>6 DEF IsMembers
    <1>8. Found(Object(members), key) = {}
        BY <1>5, <1>7, NoMember
    <1> QED  BY <1>8 DEF members

BuiltIn == {"ResendSendOptions", "RestateSendOptions"}

KeysOf(type) ==
    CASE type = "ResendSendOptions" -> {"tags", "template"}
      [] type = "RestateSendOptions" -> {"invocation_mode", "delay"}
      [] OTHER -> {"value"}

(* A written option has the fields of its type, and no others.             *)
LEMMA OptionKeys ==
    ASSUME NEW type, NEW o, IsOptionOf(type, o), NEW key, key \notin KeysOf(type)
    PROVE  Found(WriteOption(type, o), key) = {}
    <1>1. CASE type = "ResendSendOptions"
        <2> DEFINE a == IfMany(o.tags, WriteTag)
                   b == Map(o.template, WriteTemplate)
        <2>1. IsList(o.tags, IsTag) /\ AnOption(o.template)
            BY <1>1 DEF IsOptionOf, IsOption, AnOption
        <2>2. AnOption(a) /\ AnOption(b)
            BY <2>1, TagsBack, Images, OptionImages DEF Image
        <2>3. WriteOption(type, o) = Object(<<(<<"tags", a>>), <<"template", b>>>>)
            BY <1>1 DEF WriteOption
        <2>4. key # "tags" /\ key # "template"
            BY <1>1 DEF KeysOf
        <2> HIDE DEF a, b
        <2> QED  BY <2>2, <2>3, <2>4, NothingElse2
    <1>2. CASE type = "RestateSendOptions"
        <2> DEFINE a == Map(o.mode, Word)
                   b == Map(o.delay, WriteDuration)
        <2>1. AnOption(o.mode) /\ AnOption(o.delay)
            BY <1>2 DEF IsOptionOf, IsOption, AnOption
        <2>2. AnOption(a) /\ AnOption(b)
            BY <2>1, Images, OptionImages DEF Image
        <2>3. WriteOption(type, o) = Object(<<(<<"invocation_mode", a>>), <<"delay", b>>>>)
            BY <1>2 DEF WriteOption
        <2>4. key # "invocation_mode" /\ key # "delay"
            BY <1>2 DEF KeysOf
        <2> HIDE DEF a, b
        <2> QED  BY <2>2, <2>3, <2>4, NothingElse2
    <1>3. CASE type \notin BuiltIn
        <2> DEFINE a == <<Word(o)>>
        <2>1. WriteOption(type, o) = Object(<<(<<"value", a>>)>>)
            BY <1>3 DEF WriteOption, Always, BuiltIn
        <2>2. AnOption(a)
            BY DEF AnOption
        <2>3. key # "value"
            BY <1>3 DEF KeysOf, BuiltIn
        <2> HIDE DEF a
        <2> QED  BY <2>1, <2>2, <2>3, NothingElse1
    <1> QED  BY <1>1, <1>2, <1>3 DEF BuiltIn

(* A caller's option that the worker reads under a type of its own is an   *)
(* option of that type.                                                    *)
LEMMA OptionOther ==
    ASSUME NEW written, NEW o, IsOptionOf(written, o), NEW type,
           ReadOption(type, WriteOption(written, o)) # <<>>
    PROVE  IsOptionOf(type, ReadOption(type, WriteOption(written, o))[1])
    <1> DEFINE v == WriteOption(written, o)
               made == ReadOption(type, v)[1]
    <1>1. CASE type = written
        BY <1>1, OptionBack
    <1>2. CASE type \notin BuiltIn /\ written \notin BuiltIn
        <2>1. IsOptionOf(type, o) /\ WriteOption(written, o) = WriteOption(type, o)
            BY <1>2 DEF IsOptionOf, WriteOption, BuiltIn
        <2> QED  BY <2>1, OptionBack
    <1>3. CASE type # written /\ type = "ResendSendOptions"
        <2> DEFINE tags == OptionalMany(v, "tags", ReadTag)
                   template == Optional(v, "template", ReadTemplate)
                   fields == [tags |-> tags, template |-> template]
        <2>1. "tags" \notin KeysOf(written) /\ "template" \notin KeysOf(written)
            BY <1>3 DEF KeysOf
        <2>2. Found(v, "tags") = {} /\ Found(v, "template") = {}
            BY <2>1, OptionKeys
        <2>3. ReadOption(type, v) = All(fields)
            BY <1>3 DEF ReadOption
        <2> HIDE DEF v
        <2>4. tags = <<(<<>>)>> /\ template = <<(<<>>)>>
            BY <2>2 DEF OptionalMany, Optional, OrDefault
        <2> HIDE DEF tags, template
        <2>5. made = [f \in DOMAIN fields |-> fields[f][1]]
            BY <2>3, AllGives DEF v
        <2>6. made = [tags |-> <<>>, template |-> <<>>]
            BY <2>4, <2>5
        <2>7. IsList(<<>>, IsTag)
            BY EmptyIsSeq DEF IsList
        <2> HIDE DEF made
        <2>8. IsOptionOf(type, made)
            BY <1>3, <2>6, <2>7 DEF IsOptionOf, IsOption
        <2> QED  BY <2>8 DEF made, v
    <1>4. CASE type # written /\ type = "RestateSendOptions"
        <2> DEFINE mode == Optional(v, "invocation_mode", ReadMode)
                   delay == Optional(v, "delay", ReadDuration)
                   fields == [mode |-> mode, delay |-> delay]
        <2>1. "invocation_mode" \notin KeysOf(written) /\ "delay" \notin KeysOf(written)
            BY <1>4 DEF KeysOf
        <2>2. Found(v, "invocation_mode") = {} /\ Found(v, "delay") = {}
            BY <2>1, OptionKeys
        <2>3. ReadOption(type, v) = All(fields)
            BY <1>4 DEF ReadOption
        <2> HIDE DEF v
        <2>4. mode = <<(<<>>)>> /\ delay = <<(<<>>)>>
            BY <2>2 DEF Optional, OrDefault
        <2> HIDE DEF mode, delay
        <2>5. made = [f \in DOMAIN fields |-> fields[f][1]]
            BY <2>3, AllGives DEF v
        <2>6. made = [mode |-> <<>>, delay |-> <<>>]
            BY <2>4, <2>5
        <2> HIDE DEF made
        <2>7. IsOptionOf(type, made)
            BY <1>4, <2>6 DEF IsOptionOf, IsOption
        <2> QED  BY <2>7 DEF made, v
    <1>5. CASE type \notin BuiltIn /\ written \in BuiltIn
        <2>1. "value" \notin KeysOf(written)
            BY <1>5 DEF KeysOf, BuiltIn
        <2>2. Found(v, "value") = {}
            BY <2>1, OptionKeys
        <2> HIDE DEF v
        <2>3. ~Once(v, "value")
            BY <2>2 DEF Once
        <2>4. ReadOption(type, v) = <<>>
            BY <1>5, <2>3 DEF ReadOption, Required, BuiltIn
        <2> QED  BY <2>4 DEF v
    <1> QED  BY <1>1, <1>2, <1>3, <1>4, <1>5 DEF BuiltIn

(* Slots that could be a caller's: options of registered types.            *)
AreSlots(registry, slots) ==
    /\ slots = [type \in DOMAIN slots |-> slots[type]]
    /\ IsFiniteSet(DOMAIN slots) /\ DOMAIN slots \subseteq TypesOf(registry)
    /\ \A type \in DOMAIN slots : IsOptionOf(type, slots[type])

SoundField(registry, field) ==
    LET hydrated == ReadOption(registry[field[1]], field[2])
    IN  field[1] \in DOMAIN registry /\ hydrated # <<>> => IsOptionOf(registry[field[1]], hydrated[1])

(* Inserting an option of a registered type leaves them so.                *)
LEMMA SlotInserted ==
    ASSUME NEW registry, NEW slots, AreSlots(registry, slots), NEW type \in TypesOf(registry), NEW o, IsOptionOf(type, o)
    PROVE  AreSlots(registry, Insert(slots, type, o))
    <1> DEFINE more == Insert(slots, type, o)
    <1>1. /\ DOMAIN more = DOMAIN slots \cup {type} /\ more[type] = o
          /\ (\A j \in DOMAIN slots : j # type => more[j] = slots[j])
          /\ more = [j \in DOMAIN more |-> more[j]]
        BY DEF Insert
    <1> HIDE DEF more
    <1>2. IsFiniteSet(DOMAIN more)
        BY <1>1, FS_AddElement DEF AreSlots
    <1>3. \A t \in DOMAIN more : IsOptionOf(t, more[t])
        BY <1>1 DEF AreSlots
    <1>4. AreSlots(registry, more)
        BY <1>1, <1>2, <1>3 DEF AreSlots
    <1> QED  BY <1>4 DEF more

(* The slots that are read could be a caller's, if each of them could.     *)
LEMMA SlotsSound ==
    ASSUME NEW registry, NEW ignoreUnknown, NEW value, Is("obj", value) => IsSeq(value[2]),
           \A i \in DOMAIN value[2] : SoundField(registry, value[2][i]),
           ReadTransportOptions(registry, ignoreUnknown, value) # <<>>
    PROVE  AreSlots(registry, ReadTransportOptions(registry, ignoreUnknown, value)[1])
    <1> DEFINE fields == value[2]
               n == Len(fields)
               result == ReadTransportOptions(registry, ignoreUnknown, value)
    <1>1. Is("obj", value) /\ IsSeq(fields)
        BY DEF ReadTransportOptions
    <1>2. n \in Nat /\ DOMAIN fields = 1..n
        BY <1>1, SeqFacts
    <1>3. \E f : /\ f[0] = <<NoSlots>>
                 /\ \A i \in 1..n : f[i] = ReadSlot(registry, ignoreUnknown, f[i - 1], fields[i])
                 /\ result = IF Is("obj", value) THEN f[n] ELSE <<>>
        BY ONLY <1>2, HydratesSteps
    <1>4. \A i \in 1..n : SoundField(registry, fields[i])
        BY <1>2
    <1>5. result # <<>>
        OBVIOUS
    <1> HIDE DEF n, fields, result
    <1>6. PICK f : /\ f[0] = <<NoSlots>> /\ \A i \in 1..n : f[i] = ReadSlot(registry, ignoreUnknown, f[i - 1], fields[i])
                   /\ result = f[n]
        BY <1>1, <1>3
    <1> DEFINE Good == {i \in 0..n : f[i] = <<>> \/ \E slots : f[i] = <<slots>> /\ AreSlots(registry, slots)}
    <1>7. 0 \in Good
        <2>1. DOMAIN NoSlots = {} /\ NoSlots = [type \in DOMAIN NoSlots |-> NoSlots[type]]
            BY DEF NoSlots
        <2>2. AreSlots(registry, NoSlots)
            BY <2>1, FS_EmptySet DEF AreSlots
        <2> QED  BY <1>2, <1>6, <2>2
    <1>8. \A i \in 1..n : i - 1 \in Good => i \in Good
        <2> TAKE i \in 1..n
        <2> HAVE i - 1 \in Good
        <2> DEFINE before == f[i - 1]
                   field == fields[i]
                   key == field[1]
        <2>1. f[i] = ReadSlot(registry, ignoreUnknown, before, field) /\ i \in 0..n /\ SoundField(registry, field)
            BY <1>2, <1>4, <1>6
        <2>2. CASE before = <<>>
            <3>1. f[i] = <<>>
                BY <2>1, <2>2 DEF ReadSlot
            <3> QED  BY <2>1, <3>1
        <2>3. CASE before # <<>>
            <3>1. PICK slots : before = <<slots>> /\ AreSlots(registry, slots)
                BY <2>3
            <3>2. before[1] = slots
                BY <3>1
            <3> HIDE DEF before, field
            <3>3. CASE key \in DOMAIN registry
                <4> DEFINE type == registry[key]
                           hydrated == ReadOption(type, field[2])
                <4>1. f[i] = HydrateInto(registry, key, field[2], slots)
                    BY <2>1, <2>3, <3>2, <3>3 DEF ReadSlot
                <4>2. f[i] = IF hydrated = <<>> THEN <<>> ELSE <<Insert(slots, type, hydrated[1])>>
                    BY <3>3, <4>1, HydrateIs
                <4>3. type \in TypesOf(registry) /\ (hydrated # <<>> => IsOptionOf(type, hydrated[1]))
                    BY <2>1, <3>3 DEF TypesOf, SoundField
                <4> HIDE DEF hydrated, type
                <4>4. hydrated # <<>> => AreSlots(registry, Insert(slots, type, hydrated[1]))
                    BY <3>1, <4>3, SlotInserted
                <4> QED  BY <2>1, <4>2, <4>4
            <3>4. CASE key \notin DOMAIN registry
                <4>1. f[i] = before \/ f[i] = <<>>
                    BY <2>1, <2>3, <3>4 DEF ReadSlot
                <4> QED  BY <2>1, <3>1, <4>1
            <3> QED  BY <3>3, <3>4
        <2> QED  BY <2>2, <2>3
    <1> HIDE DEF Good
    <1>9. n \in Good
        <2>1. 0..n \subseteq Good
            BY <1>2, <1>7, <1>8, BoundedInduction
        <2> QED  BY <1>2, <2>1
    <1>10. \E slots : result = <<slots>> /\ AreSlots(registry, slots)
        BY <1>5, <1>6, <1>9 DEF Good
    <1>11. AreSlots(registry, result[1])
        BY <1>10
    <1> QED  BY <1>11 DEF result

(* What a control may say. *)
SoundControl(registry, name, item) ==
    /\ name = "envelope" => IsOption(item, IsEnvelope)
    /\ name = "timeout" => IsOption(item, IsDuration)
    /\ name \in {"key", "correlation"} => IsOption(item, LAMBDA id : IsParsed(id, NewtypeFromStr))
    /\ name = "slots" => AreSlots(registry, item)

(* The options that are read could be a caller's, if each field could.     *)
LEMMA OptionsSound ==
    ASSUME NEW registry, NEW ignoreUnknown, NEW value, Readable(value), ReadSendOptions(registry, ignoreUnknown, value) # <<>>,
           \A i \in DOMAIN value[2] : LET meaning == Meaning(registry, ignoreUnknown, value[2][i])
                                      IN  value[2][i][1] \in ControlKeys /\ meaning # <<>> =>
                                            SoundControl(registry, ControlName(value[2][i][1]), meaning[1])
    PROVE  LET o == ReadSendOptions(registry, ignoreUnknown, value)[1]
           IN  IsSendOptions(o) /\ AreSlots(registry, o.slots)
    <1> DEFINE result == ReadSendOptions(registry, ignoreUnknown, value)
               fields == value[2]
               means(i) == Meaning(registry, ignoreUnknown, fields[i])
    <1>1. Is("obj", value)
        BY DEF ReadSendOptions
    <1>2. IsSeq(fields) /\ \A i \in DOMAIN fields : Is("obj", fields[i][2]) => IsSeq(fields[i][2][2])
        BY <1>1 DEF Readable
    <1>3. PICK o : result = <<o>> /\ ControlsAre(registry, ignoreUnknown, fields, o, Len(fields))
        BY <1>1, <1>2, ReadControls
    <1>4. DOMAIN fields = 1..Len(fields)
        BY <1>2, SeqFacts
    <1>5. \A i \in DOMAIN fields : fields[i][1] \in ControlKeys /\ means(i) # <<>> =>
                                     SoundControl(registry, ControlName(fields[i][1]), means(i)[1])
        OBVIOUS
    <1> HIDE DEF fields, means
    <1>6. ASSUME NEW name \in OptionNames PROVE SoundControl(registry, name, o[name])
        <2>1. CASE o[name] = NoSendOptions[name]
            <3>1. /\ NoSendOptions["envelope"] = <<>> /\ NoSendOptions["timeout"] = <<>> /\ NoSendOptions["key"] = <<>>
                  /\ NoSendOptions["correlation"] = <<>> /\ NoSendOptions["slots"] = NoSlots
                BY DEF NoSendOptions
            <3>2. DOMAIN NoSlots = {} /\ NoSlots = [type \in DOMAIN NoSlots |-> NoSlots[type]]
                BY DEF NoSlots
            <3>3. AreSlots(registry, NoSlots)
                BY <3>2, FS_EmptySet DEF AreSlots
            <3> QED  BY <2>1, <3>1, <3>3 DEF SoundControl, IsOption
        <2>2. CASE o[name] # NoSendOptions[name]
            <3>1. PICK i \in 1..Len(fields) : Sets(fields[i], name) /\ Meaning(registry, ignoreUnknown, fields[i]) = <<o[name]>>
                BY <1>3, <2>2 DEF ControlsAre
            <3>2. means(i) = <<o[name]>> /\ i \in DOMAIN fields
                BY <1>4, <3>1 DEF means
            <3>3. fields[i][1] \in ControlKeys /\ ControlName(fields[i][1]) = name
                BY <3>1 DEF Sets
            <3>4. means(i) # <<>> /\ means(i)[1] = o[name]
                BY <3>2
            <3> QED  BY <1>5, <3>2, <3>3, <3>4
        <2> QED  BY <2>1, <2>2
    <1>7. /\ SoundControl(registry, "envelope", o["envelope"]) /\ SoundControl(registry, "timeout", o["timeout"])
          /\ SoundControl(registry, "key", o["key"]) /\ SoundControl(registry, "correlation", o["correlation"])
          /\ SoundControl(registry, "slots", o["slots"])
        BY <1>6 DEF OptionNames
    <1>8. /\ IsOption(o.envelope, IsEnvelope) /\ IsOption(o.timeout, IsDuration)
          /\ IsOption(o.key, LAMBDA key : IsParsed(key, NewtypeFromStr))
          /\ IsOption(o.correlation, LAMBDA id : IsParsed(id, NewtypeFromStr))
          /\ AreSlots(registry, o.slots)
        <2>1. IsOption(o.envelope, IsEnvelope) /\ IsOption(o.timeout, IsDuration)
            BY <1>7 DEF SoundControl
        <2>2. IsOption(o.key, LAMBDA key : IsParsed(key, NewtypeFromStr))
            BY <1>7 DEF SoundControl
        <2>3. IsOption(o.correlation, LAMBDA id : IsParsed(id, NewtypeFromStr))
            BY <1>7 DEF SoundControl
        <2>4. AreSlots(registry, o.slots)
            BY <1>7 DEF SoundControl
        <2> QED  BY <2>1, <2>2, <2>3, <2>4
    <1>9. o = [envelope |-> o.envelope, slots |-> o.slots, timeout |-> o.timeout, key |-> o.key,
               correlation |-> o.correlation]
        <2>1. o = [name \in OptionNames |-> o[name]]
            BY <1>3 DEF ControlsAre
        <2> QED  BY <2>1 DEF OptionNames
    <1>10. IsSendOptions(o)
        BY <1>8, <1>9 DEF IsSendOptions, AreSlots
    <1>11. result[1] = o
        BY <1>3
    <1> QED  BY <1>8, <1>10, <1>11 DEF result

(* So could having none.                                                   *)
LEMMA NoOptionsSound == \A registry : IsSendOptions(NoSendOptions) /\ AreSlots(registry, NoSendOptions.slots)
    <1> TAKE registry
    <1>1. DOMAIN NoSlots = {} /\ NoSlots = [type \in DOMAIN NoSlots |-> NoSlots[type]]
        BY DEF NoSlots
    <1>2. AreSlots(registry, NoSlots)
        BY <1>1, FS_EmptySet DEF AreSlots
    <1>3. /\ NoSendOptions.envelope = <<>> /\ NoSendOptions.timeout = <<>> /\ NoSendOptions.key = <<>>
          /\ NoSendOptions.correlation = <<>> /\ NoSendOptions.slots = NoSlots
          /\ NoSendOptions = [envelope |-> NoSendOptions.envelope, slots |-> NoSendOptions.slots, timeout |-> NoSendOptions.timeout,
                              key |-> NoSendOptions.key, correlation |-> NoSendOptions.correlation]
        BY DEF NoSendOptions
    <1>4. IsSendOptions(NoSendOptions)
        BY <1>1, <1>2, <1>3 DEF IsSendOptions, IsOption, AreSlots
    <1> QED  BY <1>2, <1>3, <1>4

(* Whatever another program posts, a control that is read could be a       *)
(* caller's.                                                               *)
LEMMA ControlJson ==
    ASSUME NEW registry, NEW ignoreUnknown, NEW field, field[2] \in JsonValues, field[1] \in ControlKeys,
           Meaning(registry, ignoreUnknown, field) # <<>>
    PROVE  SoundControl(registry, ControlName(field[1]), Meaning(registry, ignoreUnknown, field)[1])
    <1> DEFINE value == field[2]
               meaning == Meaning(registry, ignoreUnknown, field)
               item == meaning[1]
               name == ControlName(field[1])
    <1>1. CASE field[1] = "envelope"
        <2> DEFINE read == ReadEnvelope(value)
                   found == value # Null
        <2>1. meaning = <<(<<>>)>> \/ meaning = <<>> \/ (found /\ meaning = [i \in DOMAIN read |-> <<read[i]>>])
            BY <1>1 DEF Meaning, OrNull, Map
        <2>2. AnOption(read) /\ (read # <<>> => IsEnvelope(read[1])) /\ name = "envelope"
            BY <1>1, ReadersReturnOptions, EnvelopeRead DEF ControlName
        <2> HIDE DEF read, found, meaning, name
        <2>3. meaning[1] = <<>> \/ (found /\ read # <<>> /\ meaning[1] = <<read[1]>>)
            BY <2>1, <2>2, OptionalIs DEF meaning
        <2>4. SoundControl(registry, name, meaning[1])
            BY <2>2, <2>3 DEF SoundControl, IsOption
        <2> QED  BY <2>4 DEF meaning, name
    <1>2. CASE field[1] = "timeout"
        <2> DEFINE read == ReadDuration(value)
                   found == value # Null
        <2>1. meaning = <<(<<>>)>> \/ meaning = <<>> \/ (found /\ meaning = [i \in DOMAIN read |-> <<read[i]>>])
            BY <1>2 DEF Meaning, OrNull, Map
        <2>2. AnOption(read) /\ (read # <<>> => IsDuration(read[1])) /\ name = "timeout"
            BY <1>2, ReadersReturnOptions, DurationRead DEF ControlName
        <2> HIDE DEF read, found, meaning, name
        <2>3. meaning[1] = <<>> \/ (found /\ read # <<>> /\ meaning[1] = <<read[1]>>)
            BY <2>1, <2>2, OptionalIs DEF meaning
        <2>4. SoundControl(registry, name, meaning[1])
            BY <2>2, <2>3 DEF SoundControl, IsOption
        <2> QED  BY <2>4 DEF meaning, name
    <1>3. CASE field[1] \in {"idempotency_key", "correlation_id"}
        <2> DEFINE read == Parsed(value, NewtypeFromStr)
                   found == value # Null
        <2>1. meaning = <<(<<>>)>> \/ meaning = <<>> \/ (found /\ meaning = [i \in DOMAIN read |-> <<read[i]>>])
            BY <1>3 DEF Meaning, ReadNewtype, OrNull, Map
        <2>2. AnOption(read) /\ (read # <<>> => IsParsed(read[1], NewtypeFromStr)) /\ name \in {"key", "correlation"}
            BY <1>3, ReadersReturnOptions, NewtypeJson DEF ControlName
        <2> HIDE DEF read, found, meaning, name
        <2>3. meaning[1] = <<>> \/ (found /\ read # <<>> /\ meaning[1] = <<read[1]>>)
            BY <2>1, <2>2, OptionalIs DEF meaning
        <2>4. SoundControl(registry, name, meaning[1])
            BY <2>2, <2>3 DEF SoundControl, IsOption
        <2> QED  BY <2>4 DEF meaning, name
    <1>4. CASE field[1] = "transport_options"
        <2>1. meaning = ReadTransportOptions(registry, ignoreUnknown, value) /\ name = "slots"
            BY <1>4 DEF Meaning, ControlName
        <2>2. Is("obj", value) => IsSeq(value[2]) /\ \A i \in DOMAIN value[2] : value[2][i][2] \in JsonValues
            BY JsonParts
        <2>3. Is("obj", value)
            BY <2>1 DEF ReadTransportOptions
        <2>4. \A i \in DOMAIN value[2] : SoundField(registry, value[2][i])
            <3> TAKE i \in DOMAIN value[2]
            <3> DEFINE part == value[2][i]
            <3>1. part[2] \in JsonValues
                BY <2>2, <2>3
            <3> HIDE DEF part
            <3>2. SoundField(registry, part)
                BY <3>1, OptionJson DEF SoundField
            <3> QED  BY <3>2 DEF part
        <2> HIDE DEF value, name
        <2>5. AreSlots(registry, ReadTransportOptions(registry, ignoreUnknown, value)[1])
            BY <2>1, <2>2, <2>4, SlotsSound
        <2>6. SoundControl(registry, name, meaning[1])
            BY <2>1, <2>5 DEF SoundControl
        <2> QED  BY <2>6 DEF name
    <1> QED  BY <1>1, <1>2, <1>3, <1>4 DEF ControlKeys

(* So could one that a caller of the code wrote, in any worker.            *)
LEMMA ControlWritten ==
    ASSUME NEW registry, NEW ignoreUnknown, NEW o, IsSendOptions(o), WriteSendOptions(o) # <<>>,
           NEW i \in DOMAIN WriteSendOptions(o)[1][2],
           Meaning(registry, ignoreUnknown, WriteSendOptions(o)[1][2][i]) # <<>>
    PROVE  LET field == WriteSendOptions(o)[1][2][i]
           IN  SoundControl(registry, ControlName(field[1]), Meaning(registry, ignoreUnknown, field)[1])
    <1> DEFINE field == WriteSendOptions(o)[1][2][i]
               meaning == Meaning(registry, ignoreUnknown, field)
               name == ControlName(field[1])
    <1>1. /\ field[1] \in ControlKeys
          /\ field[1] = "envelope" => meaning = <<o.envelope>>
          /\ field[1] = "timeout" => meaning = <<o.timeout>>
          /\ field[1] = "idempotency_key" => meaning = <<o.key>>
          /\ field[1] = "correlation_id" => meaning = <<o.correlation>>
          /\ field[1] = "transport_options" =>
               /\ SlotsOption(o) # <<>>
               /\ meaning = ReadTransportOptions(registry, ignoreUnknown, SlotsOption(o)[1])
        BY WrittenMeanings
    <1>2. meaning # <<>>
        OBVIOUS
    <1>3. /\ IsOption(o.envelope, IsEnvelope) /\ IsOption(o.timeout, IsDuration)
          /\ IsFiniteSet(DOMAIN o.slots) /\ \A type \in DOMAIN o.slots : IsOptionOf(type, o.slots[type])
        BY DEF IsSendOptions
    <1>4. IsOption(o.key, LAMBDA id : IsParsed(id, NewtypeFromStr))
        BY DEF IsSendOptions
    <1>5. IsOption(o.correlation, LAMBDA id : IsParsed(id, NewtypeFromStr))
        BY DEF IsSendOptions
    <1> SUFFICES SoundControl(registry, name, meaning[1])
        OBVIOUS
    <1> HIDE DEF field, meaning
    <1>6. CASE field[1] = "envelope"
        <2>1. name = "envelope" /\ meaning[1] = o.envelope
            BY <1>1, <1>6 DEF ControlName
        <2> HIDE DEF name
        <2> QED  BY <1>3, <2>1 DEF SoundControl
    <1>7. CASE field[1] = "timeout"
        <2>1. name = "timeout" /\ meaning[1] = o.timeout
            BY <1>1, <1>7 DEF ControlName
        <2> HIDE DEF name
        <2> QED  BY <1>3, <2>1 DEF SoundControl
    <1>8. CASE field[1] = "idempotency_key"
        <2>1. name = "key" /\ meaning[1] = o.key
            BY <1>1, <1>8 DEF ControlName
        <2> HIDE DEF name
        <2> QED  BY <1>4, <2>1 DEF SoundControl
    <1>9. CASE field[1] = "correlation_id"
        <2>1. name = "correlation" /\ meaning[1] = o.correlation
            BY <1>1, <1>9 DEF ControlName
        <2> HIDE DEF name
        <2> QED  BY <1>5, <2>1 DEF SoundControl
    <1>10. CASE field[1] = "transport_options"
        <2> DEFINE slots == o.slots
                   order == SetToSeq(DOMAIN slots)
                   written == SlotsOption(o)[1]
        <2>2. PICK fields : written = Obj(fields) /\ WrittenSlots(fields, slots, Len(order))
            BY <1>1, <1>10, WroteSlotsOption
        <2>3. IsSeq(order) /\ \A k \in DOMAIN order : order[k] \in DOMAIN slots
            BY <1>3, InSequence
        <2> HIDE DEF written
        <2>4. Is("obj", written) /\ written[2] = fields /\ IsSeq(fields) /\ DOMAIN fields = DOMAIN order
            <3>1. IsSeq(fields) /\ Len(fields) = Len(order)
                BY <2>2 DEF WrittenSlots
            <3>2. DOMAIN fields = 1..Len(fields) /\ DOMAIN order = 1..Len(order)
                BY <2>3, <3>1, SeqFacts
            <3> QED  BY <2>2, <3>1, <3>2 DEF Is, Obj
        <2>5. \A k \in DOMAIN fields : SoundField(registry, fields[k])
            <3> TAKE k \in DOMAIN fields
            <3> DEFINE type == order[k]
                       one == fields[k]
            <3>1. type \in DOMAIN slots /\ k \in 1..Len(order)
                BY <2>3, <2>4, SeqFacts
            <3>2. one = SlotField(slots, type)
                BY <2>2, <3>1 DEF WrittenSlots
            <3> HIDE DEF type, one, slots
            <3>3. one[2] = WriteOption(type, slots[type]) /\ IsOptionOf(type, slots[type])
                BY <1>3, <3>1, <3>2 DEF SlotField, slots
            <3>4. SoundField(registry, one)
                BY <3>3, OptionOther DEF SoundField
            <3> QED  BY <3>4 DEF one
        <2> DEFINE read == ReadTransportOptions(registry, ignoreUnknown, written)
        <2>6. meaning = read /\ read # <<>>
            BY <1>1, <1>2, <1>10 DEF written
        <2>7. AreSlots(registry, read[1])
            BY <2>4, <2>5, <2>6, SlotsSound
        <2>8. name = "slots"
            BY <1>10 DEF ControlName
        <2> HIDE DEF read, name
        <2> QED  BY <2>6, <2>7, <2>8 DEF SoundControl
    <1> QED  BY <1>1, <1>6, <1>7, <1>8, <1>9, <1>10 DEF ControlKeys

(* Whatever a worker decodes could be a caller's request, with options of  *)
(* types the worker registered.                                            *)
LEMMA DecodedSendRequest ==
    ASSUME IInv, Decoded
    PROVE  LET r == request[1][1]
           IN  /\ IsSendRequest(r) /\ AreSlots(Registry, r.options.slots)
               /\ r = [transport |-> r.transport, message |-> r.message, options |-> r.options]
    <1> DEFINE json == body[1].json
               registry == Registry
               read == ReadSendRequest(registry, json)
               r == read[1]
               lenient == TRUE
               value == Value(json, "options")
    <1>1. body # <<>> /\ read # <<>> /\ request[1][1] = r
        BY RequestDecoded
    <1>2. /\ Is("obj", json) /\ r = [transport |-> r.transport, message |-> r.message, options |-> r.options]
          /\ \/ Found(json, "options") = {} /\ r.options = NoSendOptions
             \/ /\ Found(json, "options") # {} /\ Once(json, "options")
                /\ ReadSendOptions(registry, lenient, value) # <<>>
                /\ r.options = ReadSendOptions(registry, lenient, value)[1]
        <2> HIDE DEF json, registry
        <2> QED  BY <1>1, DecodedRequest
    <1>3. ASSUME Once(json, "options"), ReadSendOptions(registry, lenient, value) # <<>>
          PROVE  LET o == ReadSendOptions(registry, lenient, value)[1] IN IsSendOptions(o) /\ AreSlots(registry, o.slots)
        <2> DEFINE means(i) == Meaning(registry, lenient, value[2][i])
        <2>1. Is("obj", value)
            BY <1>3 DEF ReadSendOptions
        <2>2. CASE IsForeign
            <3>1. json \in JsonValues
                BY <1>1, <2>2, PostedJson
            <3> HIDE DEF json
            <3>2. value \in JsonValues
                BY <1>2, <1>3, <3>1, JsonParts
            <3>3. Readable(value)
                BY <3>2, JsonParts
            <3> HIDE DEF value, registry, lenient
            <3>4. ASSUME NEW i \in DOMAIN value[2], value[2][i][1] \in ControlKeys, means(i) # <<>>
                  PROVE  SoundControl(registry, ControlName(value[2][i][1]), means(i)[1])
                <4> DEFINE field == value[2][i]
                <4>1. field[2] \in JsonValues
                    BY <2>1, <3>2, JsonFields
                <4>2. field[1] \in ControlKeys /\ Meaning(registry, lenient, field) # <<>>
                    BY <3>4
                <4> HIDE DEF field
                <4>3. SoundControl(registry, ControlName(field[1]), Meaning(registry, lenient, field)[1])
                    BY <4>1, <4>2, ControlJson
                <4> QED  BY <4>3 DEF field
            <3> QED  BY <1>3, <3>3, <3>4, OptionsSound
        <2>3. CASE ~IsForeign
            <3> DEFINE o == scenario.options
            <3>1. IsSendOptions(o) /\ WriteSendOptions(o) # <<>> /\ value = WriteSendOptions(o)[1]
                BY <1>1, <2>3, PostedOptions DEF IsSendRequest
            <3> HIDE DEF value, registry, lenient, o
            <3>2. Readable(value)
                BY <3>1, WrittenOptions
            <3>3. ASSUME NEW i \in DOMAIN value[2], value[2][i][1] \in ControlKeys, means(i) # <<>>
                  PROVE  SoundControl(registry, ControlName(value[2][i][1]), means(i)[1])
                BY <3>1, <3>3, ControlWritten
            <3> QED  BY <1>3, <3>2, <3>3, OptionsSound
        <2> QED  BY <2>2, <2>3
    <1>4. IsSendOptions(r.options) /\ AreSlots(registry, r.options.slots)
        <2> HIDE DEF json, registry, r, value, lenient
        <2>1. CASE r.options = NoSendOptions
            BY <2>1, NoOptionsSound
        <2>2. CASE r.options # NoSendOptions
            BY <1>2, <1>3, <2>2
        <2> QED  BY <2>1, <2>2
    <1>5. IsMessage(r.message) /\ ValidateBasic(r.message) = "none" /\ IsParsed(r.transport, NewtypeFromStr)
        BY <1>1, DecodedMessage
    <1> HIDE DEF r
    <1>6. IsSendRequest(r)
        BY <1>4, <1>5 DEF IsSendRequest
    <1> QED  BY <1>1, <1>2, <1>4, <1>6

-------------------------------------------------------------------------------
(* What was decoded can be posted again. *)

(* Every type the registry knows owns its own key.                         *)
OwnKeys(registry) ==
    \A type \in TypesOf(registry) : ProviderKey(type) \in DOMAIN registry /\ registry[ProviderKey(type)] = type

(* A registry the worker builds is such.                                   *)
LEMMA OwnedKeys ==
    ASSUME NEW registry, NEW types, NEW n, Owned(registry, types, n)
    PROVE  OwnKeys(registry)
    <1> SUFFICES ASSUME NEW type \in TypesOf(registry)
                 PROVE  ProviderKey(type) \in DOMAIN registry /\ registry[ProviderKey(type)] = type
        BY DEF OwnKeys
    <1>1. PICK key \in DOMAIN registry : registry[key] = type
        BY DEF TypesOf
    <1>2. PICK k \in 1..n : registry[key] = types[k] /\ ProviderKey(types[k]) = key
        BY <1>1 DEF Owned
    <1>3. ProviderKey(type) = key
        BY <1>1, <1>2
    <1> QED  BY <1>1, <1>3

(* Slots of types with keys of their own can be written.                   *)
LEMMA SlotsWritable ==
    ASSUME NEW slots, IsFiniteSet(DOMAIN slots), \A a, b \in DOMAIN slots : ProviderKey(a) = ProviderKey(b) => a = b
    PROVE  WriteTransportOptions(slots) # <<>>
    <1> DEFINE order == SetToSeq(DOMAIN slots)
               n == Len(order)
    <1>1. IsSeq(order) /\ n \in Nat /\ DOMAIN order = 1..n
        BY InSequence, SeqFacts
    <1>2. (\A i \in 1..n : order[i] \in DOMAIN slots) /\ \A i, j \in 1..n : order[i] = order[j] => i = j
        BY <1>1, InSequence
    <1>3. PICK f : /\ f[0] = <<(<<>>)>> /\ \A i \in 1..n : f[i] = WriteSlot(f[i - 1], slots, order[i])
                   /\ WriteTransportOptions(slots) = Map(f[n], Obj)
        BY <1>1, SlotsWrittenSteps
    <1> HIDE DEF n, order
    <1> DEFINE Keys(fields, i) == /\ IsSeq(fields) /\ Len(fields) = i
                                  /\ \A j \in 1..i : fields[j][1] = ProviderKey(order[j])
               Good == {i \in 0..n : \E fields : f[i] = <<fields>> /\ Keys(fields, i)}
    <1>4. 0 \in Good
        <2>1. Keys(<<>>, 0)
            BY EmptyIsSeq
        <2> HIDE DEF Keys
        <2> QED  BY <1>1, <1>3, <2>1
    <1>5. \A i \in 1..n : i - 1 \in Good => i \in Good
        <2> TAKE i \in 1..n
        <2> HAVE i - 1 \in Good
        <2> DEFINE type == order[i]
                   before == f[i - 1]
                   one == <<ProviderKey(type), WriteOption(type, slots[type])>>
        <2>1. f[i] = IF before = <<>> \/ \E j \in DOMAIN before[1] : before[1][j][1] = ProviderKey(type) THEN <<>>
                     ELSE <<Append(before[1], one)>>
            BY <1>3 DEF WriteSlot
        <2>2. PICK fields : before = <<fields>> /\ Keys(fields, i - 1)
            OBVIOUS
        <2>3. i \in 0..n /\ i \in Nat /\ i - 1 \in Nat /\ (\A j \in 1..(i - 1) : j \in 1..n /\ j # i)
            BY <1>1
        <2>4. before[1] = fields /\ before # <<>> /\ DOMAIN fields = 1..(i - 1)
            BY <2>2, SeqFacts
        <2>5. \A j \in DOMAIN fields : fields[j][1] # ProviderKey(type)
            <3> SUFFICES ASSUME NEW j \in DOMAIN fields, fields[j][1] = ProviderKey(type) PROVE FALSE
                OBVIOUS
            <3>1. fields[j][1] = ProviderKey(order[j]) /\ j \in 1..n /\ j # i
                BY <2>2, <2>3, <2>4
            <3>2. order[j] = order[i]
                BY <1>2, <3>1
            <3> QED  BY <1>2, <3>1, <3>2
        <2>6. one[1] = ProviderKey(order[i])
            OBVIOUS
        <2> HIDE DEF before, one
        <2> DEFINE more == Append(fields, one)
        <2>7. f[i] = <<more>>
            BY <2>1, <2>4, <2>5
        <2>8. /\ IsSeq(more) /\ Len(more) = i /\ (\A j \in 1..(i - 1) : more[j] = fields[j]) /\ more[i] = one
            <3>1. IsSeq(fields) /\ Len(fields) = i - 1 /\ i - 1 + 1 = i
                BY <2>2, <2>3
            <3> QED  BY <3>1, Appended
        <2> HIDE DEF more
        <2>9. \A j \in 1..i : j \in 1..(i - 1) \/ j = i
            BY <2>3
        <2>10. \A j \in 1..i : more[j][1] = ProviderKey(order[j])
            BY <2>2, <2>6, <2>8, <2>9
        <2>11. Keys(more, i)
            BY <2>8, <2>10
        <2> HIDE DEF Keys
        <2> QED  BY <2>3, <2>7, <2>11
    <1> HIDE DEF Good, Keys
    <1>6. n \in Good
        <2>1. 0..n \subseteq Good
            BY <1>1, <1>4, <1>5, BoundedInduction
        <2> QED  BY <1>1, <2>1
    <1>7. PICK fields : f[n] = <<fields>>
        BY <1>6 DEF Good
    <1>8. Map(<<fields>>, Obj) = <<Obj(fields)>>
        BY DEF Map
    <1> QED  BY <1>3, <1>7, <1>8

(* What the worker read it could post again, from whomever it came, and    *)
(* lose nothing.                                                           *)
LEMMA PostedAgain ==
    ASSUME IInv, Decoded
    PROVE  Map(WriteSendRequest(request[1][1]), LAMBDA json : ReadSendRequest(Registry, json)) = <<request[1]>>
    <1> DEFINE r == request[1][1]
               o == r.options
               slots == o.slots
               registry == Registry
    <1>1. /\ IsSendRequest(r) /\ AreSlots(registry, slots)
          /\ r = [transport |-> r.transport, message |-> r.message, options |-> o]
        BY DecodedSendRequest
    <1>2. OwnKeys(registry)
        <2>1. IsSeq(scenario.types)
            BY ScenariosAssumption DEF IInv
        <2> QED  BY <2>1, FirstOwner, OwnedKeys DEF Registry
    <1> HIDE DEF r, registry
    <1>3. \A type \in DOMAIN slots : ProviderKey(type) \in DOMAIN registry /\ registry[ProviderKey(type)] = type
        BY <1>1, <1>2 DEF AreSlots, OwnKeys
    <1>4. WriteSendOptions(o) # <<>>
        <2>1. CASE DOMAIN slots = {}
            BY <2>1 DEF WriteSendOptions
        <2>2. CASE DOMAIN slots # {}
            <3>1. \A a, b \in DOMAIN slots : ProviderKey(a) = ProviderKey(b) => a = b
                BY <1>3
            <3>2. WriteTransportOptions(slots) # <<>>
                BY <1>1, <3>1, SlotsWritable DEF AreSlots
            <3> QED  BY <2>2, <3>2 DEF WriteSendOptions
        <2> QED  BY <2>1, <2>2
    <1>5. WriteSendRequest(r) # <<>> /\ WriteSendRequest(r) = <<WriteSendRequest(r)[1]>>
        BY <1>1, <1>4, RequestWritten
    <1>6. Unclaimed(registry, slots)
        BY <1>3 DEF Unclaimed
    <1>7. KnownSlots(registry, slots) = slots
        <2>1. {t \in DOMAIN slots : ProviderKey(t) \in DOMAIN registry} = DOMAIN slots
            BY <1>3
        <2> QED  BY <1>1, <2>1 DEF KnownSlots, AreSlots
    <1>8. [o EXCEPT !.slots = slots] = o
        <2>1. o = [envelope |-> o.envelope, slots |-> o.slots, timeout |-> o.timeout, key |-> o.key,
                   correlation |-> o.correlation]
            BY <1>1 DEF IsSendRequest, IsSendOptions
        <2> QED  BY <2>1
    <1> DEFINE json == WriteSendRequest(r)[1]
    <1>9. ReadSendRequest(registry, json) = <<r>>
        <2>1. ReadSendRequest(registry, json)
                = <<[transport |-> r.transport, message |-> r.message,
                     options |-> [o EXCEPT !.slots = KnownSlots(registry, slots)]]>>
            BY <1>1, <1>5, <1>6, RequestBack
        <2> HIDE DEF json
        <2> QED  BY <1>1, <1>7, <1>8, <2>1
    <1> DEFINE w == WriteSendRequest(r)
    <1>10. Map(w, LAMBDA text : ReadSendRequest(registry, text)) = [i \in DOMAIN w |-> ReadSendRequest(registry, w[i])]
        BY DEF Map
    <1>11. w = <<json>>
        BY <1>5
    <1> HIDE DEF json, w
    <1>12. w[1] = json
        BY <1>11
    <1> DEFINE back == [i \in DOMAIN w |-> ReadSendRequest(registry, w[i])]
    <1>13. back = <<(<<r>>)>>
        <2>1. AnOption(w) /\ w # <<>>
            BY <1>11 DEF AnOption
        <2>2. back = [i \in DOMAIN w |-> back[i]] /\ (1 \in DOMAIN w => back[1] = ReadSendRequest(registry, w[1]))
            OBVIOUS
        <2> HIDE DEF back
        <2>3. back = <<back[1]>> /\ 1 \in DOMAIN w
            BY <2>1, <2>2, OptionImage
        <2> QED  BY <1>9, <1>12, <2>2, <2>3
    <1>14. Map(w, LAMBDA text : ReadSendRequest(registry, text)) = <<(<<r>>)>>
        BY <1>10, <1>13
    <1>15. request[1] = <<r>>
        <2>1. ReadSendRequest(Registry, body[1].json) # <<>> /\ request[1] = ReadSendRequest(Registry, body[1].json)
            BY RequestDecoded
        <2> DEFINE result == ReadSendRequest(Registry, body[1].json)
        <2>2. result = <<result[1]>>
            BY <2>1, DecodedRequest
        <2> HIDE DEF result
        <2> QED  BY <2>1, <2>2 DEF r, result
    <1> QED  BY <1>14, <1>15 DEF w, registry

(* What a worker read of the requests of its callers, and of all others,   *)
(* is what was meant, and what it could post again: from the encoding of a *)
(* message down to the least option, the reader undoes the writer.         *)
THEOREM WorkerSeesRequestHolds == Spec => []WorkerSeesRequest
    <1>1. IInv => ReadAsMeant
        BY MeantRead
    <1>2. IInv => WorkerSeesRequest
        BY <1>1, PostedAgain DEF WorkerSeesRequest
    <1> QED  BY <1>2, ContentInvariant, PTL

-------------------------------------------------------------------------------
(* What is posted is of the published schemas. *)

(* What is under a key of an object that was written is what was written.  *)
LEMMA WrittenUnder ==
    ASSUME NEW value, NEW key, NEW option, Has(value, key, option)
    PROVE  /\ option # <<>> => Found(value, key) # {}
           /\ \A i \in Found(value, key) : option # <<>> /\ value[2][i][2] = option[1]
    BY FieldSays DEF Has, Found

(* The same for a member that is always there. *)
LEMMA AlwaysUnder ==
    ASSUME NEW value, NEW key, NEW item, Has(value, key, <<item>>)
    PROVE  Found(value, key) # {} /\ \A i \in Found(value, key) : value[2][i][2] = item
    <1>1. <<item>> # <<>> /\ <<item>>[1] = item
        OBVIOUS
    <1> QED  BY <1>1, WrittenUnder

(* Exactly one of two alternatives ...                                     *)
LEMMA OneOfTwo ==
    ASSUME NEW a \in BOOLEAN, NEW b \in BOOLEAN, (a /\ ~b) \/ (~a /\ b)
    PROVE  OneOf(<<a, b>>)
    <1> DEFINE all == <<a, b>>
               these == {i \in DOMAIN all : all[i]}
    <1>1. DOMAIN all = {1, 2} /\ all[1] = a /\ all[2] = b
        OBVIOUS
    <1> HIDE DEF all
    <1>2. these = {1} \/ these = {2}
        BY <1>1
    <1>3. Cardinality(these) = 1
        BY <1>2, FS_Singleton
    <1> QED  BY <1>3 DEF OneOf, all

(* ... of three ...                                                        *)
LEMMA OneOfThree ==
    ASSUME NEW a \in BOOLEAN, NEW b \in BOOLEAN, NEW c \in BOOLEAN,
           (a /\ ~b /\ ~c) \/ (~a /\ b /\ ~c) \/ (~a /\ ~b /\ c)
    PROVE  OneOf(<<a, b, c>>)
    <1> DEFINE all == <<a, b, c>>
               these == {i \in DOMAIN all : all[i]}
    <1>1. DOMAIN all = {1, 2, 3} /\ all[1] = a /\ all[2] = b /\ all[3] = c
        OBVIOUS
    <1> HIDE DEF all
    <1>2. these = {1} \/ these = {2} \/ these = {3}
        BY <1>1
    <1>3. Cardinality(these) = 1
        BY <1>2, FS_Singleton
    <1> QED  BY <1>3 DEF OneOf, all

(* ... or of four.                                                         *)
LEMMA OneOfFour ==
    ASSUME NEW a \in BOOLEAN, NEW b \in BOOLEAN, NEW c \in BOOLEAN, NEW d \in BOOLEAN,
           (a /\ ~b /\ ~c /\ ~d) \/ (~a /\ b /\ ~c /\ ~d) \/ (~a /\ ~b /\ c /\ ~d) \/ (~a /\ ~b /\ ~c /\ d)
    PROVE  OneOf(<<a, b, c, d>>)
    <1> DEFINE all == <<a, b, c, d>>
               these == {i \in DOMAIN all : all[i]}
    <1>1. DOMAIN all = {1, 2, 3, 4} /\ all[1] = a /\ all[2] = b /\ all[3] = c /\ all[4] = d
        OBVIOUS
    <1> HIDE DEF all
    <1>2. these = {1} \/ these = {2} \/ these = {3} \/ these = {4}
        BY <1>1
    <1>3. Cardinality(these) = 1
        BY <1>2, FS_Singleton
    <1> QED  BY <1>3 DEF OneOf, all

(* Strings. *)
LEMMA StringsAdmitted ==
    /\ \A text : StringSchema(Text(text))
    /\ \A word : StringSchema(Word(word))
    /\ \A email : StringSchema(WriteEmail(email))
    /\ \A bytes : StringSchema(WriteBytes(bytes))
    /\ \A pieces : StringSchema(Str(pieces))
    /\ \A object : IsObject(object) => ~StringSchema(object)
    <1>1. \A pieces : StringSchema(Str(pieces))
        BY DEF StringSchema, Str, Is
    <1>2. \A object : IsObject(object) => ~StringSchema(object)
        BY DEF StringSchema, IsObject, Is
    <1> QED  BY <1>1, <1>2 DEF Text, Word, WriteEmail, WriteBytes

(* A text that is neither empty nor too long.                              *)
LEMMA NewtypesAdmitted ==
    ASSUME NEW text, IsParsed(text, NewtypeFromStr)
    PROVE  NonEmptyString(Text(text))
    <1> DEFINE wide == {i \in DOMAIN text : text[i] \in {"nonascii", "tag"}}
    <1>1. IsSeq(text) /\ NewtypeFromStr(text) = <<text>>
        BY DEF IsParsed
    <1>2. ValidateNewtype(text) = "none"
        BY <1>1 DEF NewtypeFromStr
    <1>3. text # <<>> /\ ~(ByteLength(text) > MaxNewtype)
        BY <1>2 DEF ValidateNewtype
    <1>4. Len(text) \in Nat /\ DOMAIN text = 1..Len(text)
        BY <1>1, SeqFacts
    <1>5. Cardinality(wide) \in Nat
        <2>1. IsFiniteSet(1..Len(text))
            BY <1>4, FS_Interval
        <2>2. wide \subseteq 1..Len(text)
            BY <1>4
        <2> HIDE DEF wide
        <2> QED  BY <2>1, <2>2, FS_Subset, FS_CardinalityType
    <1>6. Len(text) <= MaxNewtype
        <2>1. ByteLength(text) = Len(text) + Cardinality(wide)
            BY DEF ByteLength
        <2> HIDE DEF wide
        <2> QED  BY <1>3, <1>4, <1>5, <2>1, MediaTypesAssumption
    <1>7. Len(text) # 0
        <2> SUFFICES ASSUME Len(text) = 0 PROVE FALSE
            OBVIOUS
        <2>1. text = <<>>
            BY <1>1, EmptyIsSeq
        <2> QED  BY <1>3, <2>1
    <1>8. Len(Plain(text)) = Len(text)
        BY <1>1, <1>4, MakeSeq DEF Plain
    <1>9. Text(text)[2] = Plain(text) /\ Is("str", Text(text))
        BY DEF Text, Str, Is
    <1> QED  BY <1>4, <1>6, <1>7, <1>8, <1>9, MediaTypesAssumption DEF NonEmptyString

(* Words that tag objects. *)
LEMMA TagWords ==
    /\ WordOf(Word("mailbox")) = "mailbox" /\ WordOf(Word("group")) = "group" /\ WordOf(Word("bytes")) = "bytes"
    /\ WordOf(Word("reference")) = "reference" /\ WordOf(Word("inline")) = "inline"
    /\ WordOf(Word("attachment")) = "attachment" /\ WordOf(Word("text")) = "text" /\ WordOf(Word("html")) = "html"
    /\ WordOf(Word("text_and_html")) = "text_and_html" /\ WordOf(Word("mime")) = "mime"
    BY WordBack DEF Lookalikes

(* An object that is tagged with one word is not tagged with another.      *)
LEMMA TaggedOnce ==
    ASSUME NEW value, NEW word, Has(value, "type", <<Word(word)>>), WordOf(Word(word)) = word, NEW other, other # word
    PROVE  Tagged(word, value) /\ ~Tagged(other, value)
    <1>1. Found(value, "type") # {} /\ \A i \in Found(value, "type") : value[2][i][2] = Word(word)
        BY AlwaysUnder
    <1> QED  BY <1>1 DEF Tagged, Property, Const

-------------------------------------------------------------------------------
(* Addresses. *)

(* A mailbox that is written is of the schema of mailboxes, and not of the *)
(* one of groups.                                                          *)
LEMMA MailboxesAdmitted ==
    ASSUME NEW mailbox, IsMailbox(mailbox)
    PROVE  MailboxSchema(WriteMailboxJson(mailbox)) /\ AddressSchema(WriteMailboxJson(mailbox))
    <1> DEFINE name == Map(mailbox.name, Text)
               v == WriteMailboxJson(mailbox)
               asMailbox == MailboxTypedSchema(v)
               asGroup == GroupTypedSchema(v)
               asString == StringSchema(v)
    <1>1. AnOption(mailbox.name)
        BY DEF IsMailbox, IsOption, AnOption
    <1>2. Image(mailbox.name, name) /\ (mailbox.name # <<>> => name[1] = Text(mailbox.name[1]))
        BY <1>1, Images
    <1> HIDE DEF name
    <1>3. /\ IsObject(v) /\ Has(v, "type", <<Word("mailbox")>>) /\ Has(v, "name", name)
          /\ Has(v, "email", <<WriteEmail(mailbox.email)>>)
        <2>1. v = Object(<<(<<"type", <<Word("mailbox")>>>>), <<"name", name>>, <<"email", <<WriteEmail(mailbox.email)>>>>>>)
            BY DEF WriteMailboxJson, Always, name
        <2>2. AnOption(<<Word("mailbox")>>) /\ AnOption(<<WriteEmail(mailbox.email)>>)
            BY DEF AnOption
        <2> HIDE DEF v
        <2> QED  BY <1>2, <2>1, <2>2, ObjectOf3 DEF Image
    <1> HIDE DEF v
    <1>4. Tagged("mailbox", v) /\ ~Tagged("group", v)
        BY <1>3, TagWords, TaggedOnce
    <1>5. /\ Found(v, "type") # {} /\ Found(v, "email") # {}
          /\ \A i \in Found(v, "email") : StringSchema(v[2][i][2])
          /\ \A i \in Found(v, "name") : StringSchema(v[2][i][2])
        <2>1. Found(v, "type") # {}
            BY <1>3, AlwaysUnder
        <2>2. Found(v, "email") # {} /\ \A i \in Found(v, "email") : v[2][i][2] = WriteEmail(mailbox.email)
            BY <1>3, AlwaysUnder
        <2>3. \A i \in Found(v, "name") : name # <<>> /\ v[2][i][2] = name[1]
            BY <1>3, WrittenUnder
        <2> QED  BY <1>2, <2>1, <2>2, <2>3, StringsAdmitted DEF Image
    <1>6. asMailbox
        BY <1>3, <1>4, <1>5 DEF MailboxTypedSchema, ObjectOf, Optionally, Property, Nullable, IsObject
    <1>7. ~asGroup /\ ~asString
        BY <1>3, <1>4, StringsAdmitted DEF GroupTypedSchema
    <1>8. asMailbox \in BOOLEAN /\ asGroup \in BOOLEAN /\ asString \in BOOLEAN
        BY DEF MailboxTypedSchema, GroupTypedSchema, StringSchema, Is
    <1>9. /\ MailboxSchema(v) <=> IF StringCompat THEN OneOf(<<asMailbox, asString>>) ELSE asMailbox
          /\ AddressSchema(v) <=> OneOf(<<asMailbox, asGroup, StringCompat /\ asString>>)
        BY DEF MailboxSchema, AddressSchema
    <1> HIDE DEF asMailbox, asGroup, asString
    <1>10. OneOf(<<asMailbox, asString>>)
        BY <1>6, <1>7, <1>8, OneOfTwo
    <1>11. OneOf(<<asMailbox, asGroup, StringCompat /\ asString>>)
        <2> DEFINE compat == StringCompat /\ asString
        <2>1. compat \in BOOLEAN /\ ~compat
            BY <1>7, <1>8, MessageJsonAssumption
        <2> HIDE DEF compat
        <2>2. OneOf(<<asMailbox, asGroup, compat>>)
            BY <1>6, <1>7, <1>8, <2>1, OneOfThree
        <2> QED  BY <2>2 DEF compat
    <1> QED  BY <1>6, <1>9, <1>10, <1>11 DEF v

(* The members of a group, each of the schema of mailboxes.                *)
LEMMA MembersAdmitted ==
    ASSUME NEW items, IsList(items, IsMailbox)
    PROVE  ArrayOf(MailboxSchema, Many(items, WriteMailboxJson))
    <1> DEFINE list == [i \in DOMAIN items |-> WriteMailboxJson(items[i])]
    <1>1. \A i \in DOMAIN list : MailboxSchema(list[i])
        BY MailboxesAdmitted DEF IsList
    <1>2. Is("arr", Many(items, WriteMailboxJson)) /\ Many(items, WriteMailboxJson)[2] = list
        BY DEF Many, Arr, Is
    <1> HIDE DEF list
    <1> QED  BY <1>1, <1>2 DEF ArrayOf

(* A group that is written is of the schema of groups only. *)
LEMMA GroupsAdmitted ==
    ASSUME NEW group, IsGroup(group)
    PROVE  AddressSchema(WriteGroupJson(group))
    <1> DEFINE members == IfMany(group.members, WriteMailboxJson)
               v == WriteGroupJson(group)
               asMailbox == MailboxTypedSchema(v)
               asGroup == GroupTypedSchema(v)
               asString == StringSchema(v)
    <1>1. AnOption(members) /\ (members # <<>> => ArrayOf(MailboxSchema, members[1]))
        BY MembersAdmitted DEF IsGroup, IfMany, AnOption
    <1> HIDE DEF members
    <1>2. /\ IsObject(v) /\ Has(v, "type", <<Word("group")>>) /\ Has(v, "name", <<Text(group.name)>>)
          /\ Has(v, "members", members)
        <2>1. v = Object(<<(<<"type", <<Word("group")>>>>), <<"name", <<Text(group.name)>>>>, <<"members", members>>>>)
            BY DEF WriteGroupJson, Always, members
        <2>2. AnOption(<<Word("group")>>) /\ AnOption(<<Text(group.name)>>)
            BY DEF AnOption
        <2> HIDE DEF v
        <2> QED  BY <1>1, <2>1, <2>2, ObjectOf3
    <1> HIDE DEF v
    <1>3. Tagged("group", v) /\ ~Tagged("mailbox", v)
        BY <1>2, TagWords, TaggedOnce
    <1>4. /\ Found(v, "type") # {} /\ Found(v, "name") # {}
          /\ \A i \in Found(v, "name") : StringSchema(v[2][i][2])
          /\ \A i \in Found(v, "members") : ArrayOf(MailboxSchema, v[2][i][2])
        <2>1. Found(v, "type") # {}
            BY <1>2, AlwaysUnder
        <2>2. Found(v, "name") # {} /\ \A i \in Found(v, "name") : v[2][i][2] = Text(group.name)
            BY <1>2, AlwaysUnder
        <2>3. \A i \in Found(v, "members") : members # <<>> /\ v[2][i][2] = members[1]
            BY <1>2, WrittenUnder
        <2>4. \A i \in Found(v, "members") : ArrayOf(MailboxSchema, v[2][i][2])
            BY <1>1, <2>3
        <2> QED  BY <2>1, <2>2, <2>4, StringsAdmitted
    <1>5. asGroup
        BY <1>2, <1>3, <1>4 DEF GroupTypedSchema, ObjectOf, Property, Several, IsObject
    <1>6. ~asMailbox /\ ~asString
        BY <1>2, <1>3, StringsAdmitted DEF MailboxTypedSchema
    <1>7. asMailbox \in BOOLEAN /\ asGroup \in BOOLEAN /\ asString \in BOOLEAN
        BY DEF MailboxTypedSchema, GroupTypedSchema, StringSchema, Is
    <1>8. AddressSchema(v) <=> OneOf(<<asMailbox, asGroup, StringCompat /\ asString>>)
        BY DEF AddressSchema
    <1> HIDE DEF asMailbox, asGroup, asString
    <1>9. OneOf(<<asMailbox, asGroup, StringCompat /\ asString>>)
        <2> DEFINE compat == StringCompat /\ asString
        <2>1. compat \in BOOLEAN /\ ~compat
            BY <1>6, <1>7, MessageJsonAssumption
        <2> HIDE DEF compat
        <2>2. OneOf(<<asMailbox, asGroup, compat>>)
            BY <1>5, <1>6, <1>7, <2>1, OneOfThree
        <2> QED  BY <2>2 DEF compat
    <1> QED  BY <1>8, <1>9 DEF v

(* The addresses of a message. *)
LEMMA AddressesAdmitted ==
    ASSUME NEW items, IsList(items, IsAddress)
    PROVE  LET option == IfMany(items, WriteAddressJson)
           IN  AnOption(option) /\ (option # <<>> => ArrayOf(AddressSchema, option[1]))
    <1> DEFINE list == [i \in DOMAIN items |-> WriteAddressJson(items[i])]
    <1>1. \A address : IsAddress(address) => AddressSchema(WriteAddressJson(address))
        BY MailboxesAdmitted, GroupsAdmitted DEF IsAddress, WriteAddressJson
    <1>2. \A i \in DOMAIN list : AddressSchema(list[i])
        BY <1>1 DEF IsList
    <1>3. Is("arr", Many(items, WriteAddressJson)) /\ Many(items, WriteAddressJson)[2] = list
        BY DEF Many, Arr, Is
    <1> HIDE DEF list
    <1>4. ArrayOf(AddressSchema, Many(items, WriteAddressJson))
        BY <1>2, <1>3 DEF ArrayOf
    <1> QED  BY <1>4 DEF IfMany, AnOption

(* An envelope. *)
LEMMA EnvelopesAdmitted ==
    ASSUME NEW envelope, IsEnvelope(envelope)
    PROVE  EnvelopeSchema(WriteEnvelope(envelope))
    <1> DEFINE from == Map(envelope.mailFrom, WriteEmail)
               to == IfMany(envelope.rcptTo, WriteEmail)
               v == WriteEnvelope(envelope)
               list == [i \in DOMAIN envelope.rcptTo |-> WriteEmail(envelope.rcptTo[i])]
    <1>1. AnOption(envelope.mailFrom)
        BY DEF IsEnvelope, IsOption, AnOption
    <1>2. AnOption(from) /\ (from # <<>> => StringSchema(from[1]))
        <2> DEFINE option == envelope.mailFrom
        <2>1. Image(option, Map(option, WriteEmail)) /\ (option # <<>> => Map(option, WriteEmail)[1] = WriteEmail(option[1]))
            BY <1>1, Images
        <2>2. Image(option, from) /\ (option # <<>> => from[1] = WriteEmail(option[1]))
            BY <2>1
        <2> HIDE DEF option, from
        <2> QED  BY <2>2, StringsAdmitted DEF Image
    <1>3. AnOption(to) /\ (to # <<>> => ArrayOf(StringSchema, to[1]))
        <2>1. \A i \in DOMAIN list : StringSchema(list[i])
            BY StringsAdmitted
        <2>2. Is("arr", Many(envelope.rcptTo, WriteEmail)) /\ Many(envelope.rcptTo, WriteEmail)[2] = list
            BY DEF Many, Arr, Is
        <2> HIDE DEF list
        <2>3. ArrayOf(StringSchema, Many(envelope.rcptTo, WriteEmail))
            BY <2>1, <2>2 DEF ArrayOf
        <2> QED  BY <2>3 DEF IfMany, AnOption
    <1> HIDE DEF from, to
    <1>4. IsObject(v) /\ Has(v, "mail_from", from) /\ Has(v, "rcpt_to", to)
        <2>1. v = Object(<<(<<"mail_from", from>>), <<"rcpt_to", to>>>>)
            BY DEF WriteEnvelope, from, to
        <2> HIDE DEF v
        <2> QED  BY <1>2, <1>3, <2>1, ObjectOf2
    <1> HIDE DEF v
    <1>5. \A i \in Found(v, "mail_from") : StringSchema(v[2][i][2])
        BY <1>2, <1>4, WrittenUnder
    <1>6. \A i \in Found(v, "rcpt_to") : ArrayOf(StringSchema, v[2][i][2])
        BY <1>3, <1>4, WrittenUnder
    <1>7. EnvelopeSchema(v)
        BY <1>4, <1>5, <1>6 DEF EnvelopeSchema, ObjectOf, Optionally, Property, Nullable, Several, IsObject
    <1> QED  BY <1>7 DEF v

-------------------------------------------------------------------------------
(* Headers, attachments and bodies. *)

(* The headers of a message. *)
LEMMA HeadersAdmitted ==
    ASSUME NEW items, IsList(items, IsHeader)
    PROVE  LET option == IfMany(items, WriteHeader)
           IN  AnOption(option) /\ (option # <<>> => ArrayOf(HeaderSchema, option[1]))
    <1> DEFINE list == [i \in DOMAIN items |-> WriteHeader(items[i])]
    <1>1. ASSUME NEW h
          PROVE  HeaderSchema(WriteHeader(h))
        <2> DEFINE v == WriteHeader(h)
        <2>1. IsObject(v) /\ Has(v, "name", <<Word(h.name)>>) /\ Has(v, "value", <<Str(h.value)>>)
            <3>1. v = Object(<<(<<"name", <<Word(h.name)>>>>), <<"value", <<Str(h.value)>>>>>>)
                BY DEF WriteHeader, Always
            <3>2. AnOption(<<Word(h.name)>>) /\ AnOption(<<Str(h.value)>>)
                BY DEF AnOption
            <3> HIDE DEF v
            <3> QED  BY <3>1, <3>2, ObjectOf2
        <2> HIDE DEF v
        <2>2. Found(v, "name") # {} /\ \A i \in Found(v, "name") : v[2][i][2] = Word(h.name)
            BY <2>1, AlwaysUnder
        <2>3. Found(v, "value") # {} /\ \A i \in Found(v, "value") : v[2][i][2] = Str(h.value)
            BY <2>1, AlwaysUnder
        <2>4. HeaderSchema(v)
            BY <2>1, <2>2, <2>3, StringsAdmitted DEF HeaderSchema, ObjectOf, Property, IsObject
        <2> QED  BY <2>4 DEF v
    <1>2. \A i \in DOMAIN list : HeaderSchema(list[i])
        BY <1>1
    <1>3. Is("arr", Many(items, WriteHeader)) /\ Many(items, WriteHeader)[2] = list
        BY DEF Many, Arr, Is
    <1> HIDE DEF list
    <1>4. ArrayOf(HeaderSchema, Many(items, WriteHeader))
        BY <1>2, <1>3 DEF ArrayOf
    <1> QED  BY <1>4 DEF IfMany, AnOption

(* The body of an attachment: bytes or a reference, never both.            *)
LEMMA AttachmentBodiesAdmitted ==
    ASSUME NEW a
    PROVE  AttachmentBodySchema(WriteAttachmentBody(a))
    <1> DEFINE v == WriteAttachmentBody(a)
               asBytes == ObjectOf({"type", "bytes"}, v) /\ Tagged("bytes", v) /\ Property(v, "bytes", StringSchema)
               asReference == /\ ObjectOf({"type", "reference"}, v) /\ Tagged("reference", v)
                              /\ Property(v, "reference", StringSchema)
    <1>1. (asBytes /\ ~asReference) \/ (~asBytes /\ asReference)
        <2>1. CASE a.reference
            <3>1. IsObject(v) /\ Has(v, "type", <<Word("reference")>>) /\ Has(v, "reference", <<Str(a.content)>>)
                <4>1. v = Object(<<(<<"type", <<Word("reference")>>>>), <<"reference", <<Str(a.content)>>>>>>)
                    BY <2>1 DEF WriteAttachmentBody, Always
                <4>2. AnOption(<<Word("reference")>>) /\ AnOption(<<Str(a.content)>>)
                    BY DEF AnOption
                <4> HIDE DEF v
                <4> QED  BY <4>1, <4>2, ObjectOf2
            <3> HIDE DEF v
            <3>2. Tagged("reference", v) /\ ~Tagged("bytes", v)
                BY <3>1, TagWords, TaggedOnce
            <3>3. Found(v, "type") # {}
                BY <3>1, AlwaysUnder
            <3>4. Found(v, "reference") # {} /\ \A i \in Found(v, "reference") : v[2][i][2] = Str(a.content)
                BY <3>1, AlwaysUnder
            <3> QED  BY <3>1, <3>2, <3>3, <3>4, StringsAdmitted DEF ObjectOf, Property, IsObject
        <2>2. CASE ~a.reference
            <3>1. IsObject(v) /\ Has(v, "type", <<Word("bytes")>>) /\ Has(v, "bytes", <<WriteBytes(a.content)>>)
                <4>1. v = Object(<<(<<"type", <<Word("bytes")>>>>), <<"bytes", <<WriteBytes(a.content)>>>>>>)
                    BY <2>2 DEF WriteAttachmentBody, Always
                <4>2. AnOption(<<Word("bytes")>>) /\ AnOption(<<WriteBytes(a.content)>>)
                    BY DEF AnOption
                <4> HIDE DEF v
                <4> QED  BY <4>1, <4>2, ObjectOf2
            <3> HIDE DEF v
            <3>2. Tagged("bytes", v) /\ ~Tagged("reference", v)
                BY <3>1, TagWords, TaggedOnce
            <3>3. Found(v, "type") # {}
                BY <3>1, AlwaysUnder
            <3>4. Found(v, "bytes") # {} /\ \A i \in Found(v, "bytes") : v[2][i][2] = WriteBytes(a.content)
                BY <3>1, AlwaysUnder
            <3> QED  BY <3>1, <3>2, <3>3, <3>4, StringsAdmitted DEF ObjectOf, Property, IsObject
        <2> QED  BY <2>1, <2>2
    <1>2. asBytes \in BOOLEAN /\ asReference \in BOOLEAN
        OBVIOUS
    <1>3. AttachmentBodySchema(v) <=> OneOf(<<asBytes, asReference>>)
        BY DEF AttachmentBodySchema
    <1> HIDE DEF asBytes, asReference
    <1>4. OneOf(<<asBytes, asReference>>)
        BY <1>1, <1>2, OneOfTwo
    <1> QED  BY <1>3, <1>4 DEF v

(* An attachment. *)
LEMMA AttachmentsAdmitted ==
    ASSUME NEW items
    PROVE  LET option == IfMany(items, WriteAttachment)
           IN  AnOption(option) /\ (option # <<>> => ArrayOf(AttachmentSchema, option[1]))
    <1> DEFINE list == [i \in DOMAIN items |-> WriteAttachment(items[i])]
    <1>1. ASSUME NEW a
          PROVE  AttachmentSchema(WriteAttachment(a))
        <2> DEFINE filename == Map(Named(a.filename), Word)
                   cid == Map(Named(a.cid), Word)
                   kind == Word(IF a.inline THEN "inline" ELSE "attachment")
                   content == WriteAttachmentBody(a)
                   v == WriteAttachment(a)
        <2>1. AnOption(Named(a.filename)) /\ AnOption(Named(a.cid))
            BY DEF Named, AnOption
        <2>2. /\ Image(Named(a.filename), filename) /\ (Named(a.filename) # <<>> => filename[1] = Word(Named(a.filename)[1]))
              /\ Image(Named(a.cid), cid) /\ (Named(a.cid) # <<>> => cid[1] = Word(Named(a.cid)[1]))
            BY <2>1, Images
        <2>3. AttachmentBodySchema(content)
            BY AttachmentBodiesAdmitted
        <2>4. DispositionSchema(kind)
            <3> DEFINE attachment == Const("attachment", kind)
                       inline == Const("inline", kind)
            <3>1. (attachment /\ ~inline) \/ (~attachment /\ inline)
                BY TagWords DEF Const
            <3>2. attachment \in BOOLEAN /\ inline \in BOOLEAN
                BY DEF Const
            <3>3. DispositionSchema(kind) <=> OneOf(<<attachment, inline>>)
                BY DEF DispositionSchema
            <3> HIDE DEF attachment, inline
            <3>4. OneOf(<<attachment, inline>>)
                BY <3>1, <3>2, OneOfTwo
            <3> QED  BY <3>3, <3>4
        <2> HIDE DEF filename, cid, kind, content
        <2>5. /\ IsObject(v)
              /\ Has(v, "filename", filename) /\ Has(v, "content_type", <<Text(a.type)>>) /\ Has(v, "content_id", cid)
              /\ Has(v, "disposition", <<kind>>) /\ Has(v, "body", <<content>>)
            <3>1. v = Object(<<(<<"filename", filename>>), <<"content_type", <<Text(a.type)>>>>, <<"content_id", cid>>,
                               <<"disposition", <<kind>>>>, <<"body", <<content>>>>>>)
                BY DEF WriteAttachment, Always, filename, cid, kind, content
            <3>2. AnOption(<<Text(a.type)>>) /\ AnOption(<<kind>>) /\ AnOption(<<content>>)
                BY DEF AnOption
            <3> HIDE DEF v
            <3> QED  BY <2>2, <3>1, <3>2, ObjectOf5 DEF Image
        <2> HIDE DEF v
        <2>6. \A i \in Found(v, "filename") : StringSchema(v[2][i][2])
            BY <2>2, <2>5, WrittenUnder, StringsAdmitted DEF Image
        <2>7. \A i \in Found(v, "content_id") : StringSchema(v[2][i][2])
            BY <2>2, <2>5, WrittenUnder, StringsAdmitted DEF Image
        <2>8. Found(v, "content_type") # {} /\ \A i \in Found(v, "content_type") : v[2][i][2] = Text(a.type)
            BY <2>5, AlwaysUnder
        <2>9. \A i \in Found(v, "disposition") : DispositionSchema(v[2][i][2])
            BY <2>4, <2>5, AlwaysUnder
        <2>10. Found(v, "body") # {} /\ \A i \in Found(v, "body") : AttachmentBodySchema(v[2][i][2])
            BY <2>3, <2>5, AlwaysUnder
        <2>11. AttachmentSchema(v)
            BY <2>5, <2>6, <2>7, <2>8, <2>9, <2>10, StringsAdmitted
               DEF AttachmentSchema, ObjectOf, Optionally, Property, Nullable, IsObject
        <2> QED  BY <2>11 DEF v
    <1>2. \A i \in DOMAIN list : AttachmentSchema(list[i])
        BY <1>1
    <1>3. Is("arr", Many(items, WriteAttachment)) /\ Many(items, WriteAttachment)[2] = list
        BY DEF Many, Arr, Is
    <1> HIDE DEF list
    <1>4. ArrayOf(AttachmentSchema, Many(items, WriteAttachment))
        BY <1>2, <1>3 DEF ArrayOf
    <1> QED  BY <1>4 DEF IfMany, AnOption

(* A body is of the schema of its kind, and of no other.                   *)
LEMMA BodiesAdmitted ==
    ASSUME NEW content, IsBody(content), content.kind = "mime" => MimePartSchema(WriteMimePart(content.part))
    PROVE  BodySchema(WriteBodyJson(content))
    <1> DEFINE v == WriteBodyJson(content)
               asText == ObjectOf({"type", "text"}, v) /\ Tagged("text", v) /\ Property(v, "text", StringSchema)
               asHtml == ObjectOf({"type", "html"}, v) /\ Tagged("html", v) /\ Property(v, "html", StringSchema)
               asBoth == /\ ObjectOf({"type", "text", "html"}, v) /\ Tagged("text_and_html", v)
                         /\ Property(v, "text", StringSchema) /\ Property(v, "html", StringSchema)
               asPart == ObjectOf({"type", "part"}, v) /\ Tagged("mime", v) /\ Property(v, "part", MimePartSchema)
    <1>0. ASSUME \/ asText /\ ~asHtml /\ ~asBoth /\ ~asPart
                 \/ ~asText /\ asHtml /\ ~asBoth /\ ~asPart
                 \/ ~asText /\ ~asHtml /\ asBoth /\ ~asPart
                 \/ ~asText /\ ~asHtml /\ ~asBoth /\ asPart
          PROVE  BodySchema(v)
        <2>1. asText \in BOOLEAN /\ asHtml \in BOOLEAN /\ asBoth \in BOOLEAN /\ asPart \in BOOLEAN
            OBVIOUS
        <2>2. BodySchema(v) <=> OneOf(<<asText, asHtml, asBoth, asPart>>)
            BY DEF BodySchema
        <2> HIDE DEF asText, asHtml, asBoth, asPart
        <2>3. OneOf(<<asText, asHtml, asBoth, asPart>>)
            BY <1>0, <2>1, OneOfFour
        <2> QED  BY <2>2, <2>3
    <1>1. \A x, y : <<x>> \o <<y>> = <<x, y>>
        BY PutBefore
    <1>2. \A x, y, z : <<x>> \o <<y, z>> = <<x, y, z>>
        BY PutBefore
    <1>3. \A x : AnOption(<<x>>)
        BY DEF AnOption
    <1>4. CASE content.kind = "text"
        <2>1. v = Object(<<(<<"type", <<Word("text")>>>>), <<"text", <<Str(content.text)>>>>>>)
            BY <1>4, <1>1 DEF WriteBodyJson, Always
        <2> HIDE DEF v
        <2>2. IsObject(v) /\ Has(v, "type", <<Word("text")>>) /\ Has(v, "text", <<Str(content.text)>>)
            BY <2>1, <1>3, ObjectOf2
        <2>3. Tagged("text", v) /\ ~Tagged("html", v) /\ ~Tagged("text_and_html", v) /\ ~Tagged("mime", v)
            BY <2>2, TagWords, TaggedOnce
        <2>4. Found(v, "type") # {}
            BY <2>2, AlwaysUnder
        <2>5. Found(v, "text") # {} /\ \A i \in Found(v, "text") : v[2][i][2] = Str(content.text)
            BY <2>2, AlwaysUnder
        <2>6. asText /\ ~asHtml /\ ~asBoth /\ ~asPart
            BY <2>2, <2>3, <2>4, <2>5, StringsAdmitted DEF ObjectOf, Property, IsObject
        <2> HIDE DEF asText, asHtml, asBoth, asPart
        <2> QED  BY <1>0, <2>6 DEF v
    <1>5. CASE content.kind = "html"
        <2>1. v = Object(<<(<<"type", <<Word("html")>>>>), <<"html", <<Str(content.html)>>>>>>)
            BY <1>5, <1>1 DEF WriteBodyJson, Always
        <2> HIDE DEF v
        <2>2. IsObject(v) /\ Has(v, "type", <<Word("html")>>) /\ Has(v, "html", <<Str(content.html)>>)
            BY <2>1, <1>3, ObjectOf2
        <2>3. Tagged("html", v) /\ ~Tagged("text", v) /\ ~Tagged("text_and_html", v) /\ ~Tagged("mime", v)
            BY <2>2, TagWords, TaggedOnce
        <2>4. Found(v, "type") # {}
            BY <2>2, AlwaysUnder
        <2>5. Found(v, "html") # {} /\ \A i \in Found(v, "html") : v[2][i][2] = Str(content.html)
            BY <2>2, AlwaysUnder
        <2>6. ~asText /\ asHtml /\ ~asBoth /\ ~asPart
            BY <2>2, <2>3, <2>4, <2>5, StringsAdmitted DEF ObjectOf, Property, IsObject
        <2> HIDE DEF asText, asHtml, asBoth, asPart
        <2> QED  BY <1>0, <2>6 DEF v
    <1>6. CASE content.kind = "both"
        <2>1. v = Object(<<(<<"type", <<Word("text_and_html")>>>>), <<"text", <<Str(content.text)>>>>, <<"html", <<Str(content.html)>>>>>>)
            BY <1>6, <1>2 DEF WriteBodyJson, Always
        <2> HIDE DEF v
        <2>2. /\ IsObject(v) /\ Has(v, "type", <<Word("text_and_html")>>)
              /\ Has(v, "text", <<Str(content.text)>>) /\ Has(v, "html", <<Str(content.html)>>)
            BY <2>1, <1>3, ObjectOf3
        <2>3. Tagged("text_and_html", v) /\ ~Tagged("text", v) /\ ~Tagged("html", v) /\ ~Tagged("mime", v)
            BY <2>2, TagWords, TaggedOnce
        <2>4. Found(v, "type") # {}
            BY <2>2, AlwaysUnder
        <2>5. Found(v, "text") # {} /\ \A i \in Found(v, "text") : v[2][i][2] = Str(content.text)
            BY <2>2, AlwaysUnder
        <2>6. Found(v, "html") # {} /\ \A i \in Found(v, "html") : v[2][i][2] = Str(content.html)
            BY <2>2, AlwaysUnder
        <2>7. ~asText /\ ~asHtml /\ asBoth /\ ~asPart
            BY <2>2, <2>3, <2>4, <2>5, <2>6, StringsAdmitted DEF ObjectOf, Property, IsObject
        <2> HIDE DEF asText, asHtml, asBoth, asPart
        <2> QED  BY <1>0, <2>7 DEF v
    <1>7. CASE content.kind = "mime"
        <2>1. v = Object(<<(<<"type", <<Word("mime")>>>>), <<"part", <<WriteMimePart(content.part)>>>>>>)
            BY <1>7, <1>1 DEF WriteBodyJson, Always
        <2> HIDE DEF v
        <2>2. IsObject(v) /\ Has(v, "type", <<Word("mime")>>) /\ Has(v, "part", <<WriteMimePart(content.part)>>)
            BY <2>1, <1>3, ObjectOf2
        <2>3. Tagged("mime", v) /\ ~Tagged("text", v) /\ ~Tagged("html", v) /\ ~Tagged("text_and_html", v)
            BY <2>2, TagWords, TaggedOnce
        <2>4. Found(v, "type") # {}
            BY <2>2, AlwaysUnder
        <2>5. Found(v, "part") # {} /\ \A i \in Found(v, "part") : v[2][i][2] = WriteMimePart(content.part)
            BY <2>2, AlwaysUnder
        <2>6. \A i \in Found(v, "part") : MimePartSchema(v[2][i][2])
            BY <1>7, <2>5
        <2>7. ~asText /\ ~asHtml /\ ~asBoth /\ asPart
            BY <2>2, <2>3, <2>4, <2>5, <2>6 DEF ObjectOf, Property, IsObject
        <2> HIDE DEF asText, asHtml, asBoth, asPart
        <2> QED  BY <1>0, <2>7 DEF v
    <1> QED  BY <1>4, <1>5, <1>6, <1>7 DEF IsBody

-------------------------------------------------------------------------------
(* Messages, options and requests. *)

(* A message that is written is of the schema of messages, if its part is  *)
(* of the one of parts and it has no date.                                 *)
LEMMA MessagesAdmitted ==
    ASSUME NEW m, IsMessage(m), m.date = <<>>, m.body.kind = "mime" => MimePartSchema(WriteMimePart(m.body.part))
    PROVE  MessageSchema(WriteMessage(m))
    <1> DEFINE o_from == Map(m.from, WriteMailboxJson)
               o_sender == Map(m.sender, WriteMailboxJson)
               o_subject == Map(m.subject, Text)
               o_date == Map(m.date, WriteDate)
               o_messageId == Map(m.messageId, Text)
               o_to == IfMany(m.to, WriteAddressJson)
               o_cc == IfMany(m.cc, WriteAddressJson)
               o_bcc == IfMany(m.bcc, WriteAddressJson)
               o_replyTo == IfMany(m.replyTo, WriteAddressJson)
               o_headers == IfMany(m.headers, WriteHeader)
               o_attachments == IfMany(m.attachments, WriteAttachment)
               json == WriteBodyJson(m.body)
               v == WriteMessage(m)
    <1>1. /\ AnOption(m.from) /\ (m.from # <<>> => IsMailbox(m.from[1]))
          /\ AnOption(m.sender) /\ (m.sender # <<>> => IsMailbox(m.sender[1]))
          /\ AnOption(m.subject) /\ AnOption(m.date) /\ AnOption(m.messageId)
        BY DEF IsMessage, IsOption, AnOption
    <1>2. /\ Image(m.from, o_from) /\ (m.from # <<>> => o_from[1] = WriteMailboxJson(m.from[1]))
          /\ Image(m.sender, o_sender) /\ (m.sender # <<>> => o_sender[1] = WriteMailboxJson(m.sender[1]))
          /\ Image(m.subject, o_subject) /\ (m.subject # <<>> => o_subject[1] = Text(m.subject[1]))
          /\ Image(m.date, o_date)
          /\ Image(m.messageId, o_messageId) /\ (m.messageId # <<>> => o_messageId[1] = Text(m.messageId[1]))
        BY <1>1, Images
    <1>3. /\ IsList(m.to, IsAddress) /\ IsList(m.cc, IsAddress) /\ IsList(m.bcc, IsAddress) /\ IsList(m.replyTo, IsAddress)
          /\ IsList(m.headers, IsHeader)
        <2>1. m["to"] = m.to /\ m["cc"] = m.cc /\ m["bcc"] = m.bcc /\ m["replyTo"] = m.replyTo
            OBVIOUS
        <2> QED  BY <2>1 DEF IsMessage
    <1>4. /\ AnOption(o_to) /\ (o_to # <<>> => ArrayOf(AddressSchema, o_to[1]))
          /\ AnOption(o_cc) /\ (o_cc # <<>> => ArrayOf(AddressSchema, o_cc[1]))
          /\ AnOption(o_bcc) /\ (o_bcc # <<>> => ArrayOf(AddressSchema, o_bcc[1]))
          /\ AnOption(o_replyTo) /\ (o_replyTo # <<>> => ArrayOf(AddressSchema, o_replyTo[1]))
        BY <1>3, AddressesAdmitted
    <1>5. AnOption(o_headers) /\ (o_headers # <<>> => ArrayOf(HeaderSchema, o_headers[1]))
        BY <1>3, HeadersAdmitted
    <1>6. AnOption(o_attachments) /\ (o_attachments # <<>> => ArrayOf(AttachmentSchema, o_attachments[1]))
        BY AttachmentsAdmitted
    <1>7. BodySchema(json)
        BY BodiesAdmitted DEF IsMessage
    <1>8. AnOption(<<json>>)
        BY DEF AnOption
    <1> HIDE DEF o_from, o_sender, o_subject, o_date, o_messageId, o_to, o_cc, o_bcc, o_replyTo, o_headers, o_attachments, json
    <1>9. /\ IsObject(v)
          /\ Has(v, "from", o_from) /\ Has(v, "sender", o_sender) /\ Has(v, "to", o_to) /\ Has(v, "cc", o_cc) /\ Has(v, "bcc", o_bcc)
          /\ Has(v, "reply_to", o_replyTo) /\ Has(v, "subject", o_subject) /\ Has(v, "date", o_date)
          /\ Has(v, "message_id", o_messageId) /\ Has(v, "headers", o_headers) /\ Has(v, "body", <<json>>)
          /\ Has(v, "attachments", o_attachments)
        <2>1. v = Object(<<(<<"from", o_from>>), <<"sender", o_sender>>, <<"to", o_to>>, <<"cc", o_cc>>, <<"bcc", o_bcc>>,
                  <<"reply_to", o_replyTo>>, <<"subject", o_subject>>, <<"date", o_date>>, <<"message_id", o_messageId>>,
                  <<"headers", o_headers>>, <<"body", <<json>>>>, <<"attachments", o_attachments>>>>)
            BY DEF WriteMessage, Always, o_from, o_sender, o_subject, o_date, o_messageId, o_to, o_cc, o_bcc, o_replyTo,
                   o_headers, o_attachments, json
        <2> HIDE DEF v
        <2> QED  BY <1>2, <1>4, <1>5, <1>6, <1>8, <2>1, MessageObject DEF Image
    <1> HIDE DEF v
    <1>10. /\ \A i \in Found(v, "from") : MailboxSchema(v[2][i][2])
           /\ \A i \in Found(v, "sender") : MailboxSchema(v[2][i][2])
        <2>1. \A i \in Found(v, "from") : o_from # <<>> /\ v[2][i][2] = o_from[1]
            BY <1>9, WrittenUnder
        <2>2. \A i \in Found(v, "sender") : o_sender # <<>> /\ v[2][i][2] = o_sender[1]
            BY <1>9, WrittenUnder
        <2> QED  BY <1>1, <1>2, <2>1, <2>2, MailboxesAdmitted DEF Image
    <1>11. /\ \A i \in Found(v, "to") : ArrayOf(AddressSchema, v[2][i][2])
           /\ \A i \in Found(v, "cc") : ArrayOf(AddressSchema, v[2][i][2])
           /\ \A i \in Found(v, "bcc") : ArrayOf(AddressSchema, v[2][i][2])
           /\ \A i \in Found(v, "reply_to") : ArrayOf(AddressSchema, v[2][i][2])
        BY <1>4, <1>9, WrittenUnder
    <1>12. /\ \A i \in Found(v, "subject") : StringSchema(v[2][i][2])
           /\ \A i \in Found(v, "date") : StringSchema(v[2][i][2])
           /\ \A i \in Found(v, "message_id") : StringSchema(v[2][i][2])
        <2>1. \A i \in Found(v, "subject") : o_subject # <<>> /\ v[2][i][2] = o_subject[1]
            BY <1>9, WrittenUnder
        <2>2. \A i \in Found(v, "message_id") : o_messageId # <<>> /\ v[2][i][2] = o_messageId[1]
            BY <1>9, WrittenUnder
        <2>3. Found(v, "date") = {}
            BY <1>2, <1>9 DEF Image, Has
        <2> QED  BY <1>2, <2>1, <2>2, <2>3, StringsAdmitted DEF Image
    <1>13. /\ \A i \in Found(v, "headers") : ArrayOf(HeaderSchema, v[2][i][2])
           /\ \A i \in Found(v, "attachments") : ArrayOf(AttachmentSchema, v[2][i][2])
        BY <1>5, <1>6, <1>9, WrittenUnder
    <1>14. Found(v, "body") # {} /\ \A i \in Found(v, "body") : BodySchema(v[2][i][2])
        BY <1>7, <1>9, AlwaysUnder
    <1>15. MessageSchema(v)
        <2>1. ObjectOf({"body"}, v) /\ Property(v, "body", BodySchema)
            BY <1>9, <1>14 DEF ObjectOf, Property, IsObject
        <2>2. \A key \in {"from", "sender"} : Optionally(v, key, MailboxSchema)
            BY <1>10 DEF Optionally, Property, Nullable
        <2>3. \A key \in {"to", "cc", "bcc", "reply_to"} : Several(v, key, AddressSchema)
            BY <1>11 DEF Several, Property
        <2>4. \A key \in {"subject", "date", "message_id"} : Optionally(v, key, StringSchema)
            BY <1>12 DEF Optionally, Property, Nullable
        <2>5. Several(v, "headers", HeaderSchema) /\ Several(v, "attachments", AttachmentSchema)
            BY <1>13 DEF Several, Property
        <2> QED  BY <2>1, <2>2, <2>3, <2>4, <2>5 DEF MessageSchema
    <1> QED  BY <1>15 DEF v

(* A duration.                                                             *)
LEMMA DurationsAdmitted ==
    ASSUME NEW d
    PROVE  DurationSchema(WriteDuration(d))
    <1> DEFINE secs == <<"num", d.secs>>
               nanos == <<"num", d.nanos>>
               v == WriteDuration(d)
    <1>1. IntegerSchema(secs) /\ IntegerSchema(nanos)
        BY DEF IntegerSchema, Is
    <1>2. v = Object(<<(<<"secs", <<secs>>>>), <<"nanos", <<nanos>>>>>>)
        BY DEF WriteDuration, Always
    <1> HIDE DEF secs, nanos, v
    <1>3. IsObject(v) /\ Has(v, "secs", <<secs>>) /\ Has(v, "nanos", <<nanos>>)
        <2>1. AnOption(<<secs>>) /\ AnOption(<<nanos>>)
            BY DEF AnOption
        <2> QED  BY <1>2, <2>1, ObjectOf2
    <1>4. Found(v, "secs") # {} /\ \A i \in Found(v, "secs") : v[2][i][2] = secs
        BY <1>3, AlwaysUnder
    <1>5. Found(v, "nanos") # {} /\ \A i \in Found(v, "nanos") : v[2][i][2] = nanos
        BY <1>3, AlwaysUnder
    <1>6. DurationSchema(v)
        BY <1>1, <1>3, <1>4, <1>5 DEF DurationSchema, ObjectOf, Property, IsObject
    <1> QED  BY <1>6 DEF v

(* What a caller's options are written as.                                 *)
LEMMA OptionsAdmitted ==
    ASSUME NEW o, IsSendOptions(o), WriteSendOptions(o) # <<>>
    PROVE  SendOptionsSchema(WriteSendOptions(o)[1])
    <1> DEFINE v == WriteSendOptions(o)[1]
               envelope == Map(o.envelope, WriteEnvelope)
               timeout == Map(o.timeout, WriteDuration)
               keys == Map(o.key, Text)
               correlation == Map(o.correlation, Text)
               slots == SlotsOption(o)
    <1>1. /\ IsObject(v) /\ Has(v, "envelope", envelope) /\ Has(v, "timeout", timeout) /\ Has(v, "idempotency_key", keys)
          /\ Has(v, "correlation_id", correlation) /\ Has(v, "transport_options", slots)
        BY WrittenOptions
    <1>2. envelope # <<>> => EnvelopeSchema(envelope[1])
        BY ControlImages, EnvelopesAdmitted DEF Image
    <1>3. timeout # <<>> => DurationSchema(timeout[1])
        BY ControlImages, DurationsAdmitted DEF Image
    <1>4. keys # <<>> => NonEmptyString(keys[1])
        BY ControlImages, NewtypesAdmitted DEF Image
    <1>5. correlation # <<>> => NonEmptyString(correlation[1])
        BY ControlImages, NewtypesAdmitted DEF Image
    <1>6. slots # <<>> => AnyObject(slots[1])
        <2>1. slots # <<>> => \E fields : slots[1] = Obj(fields)
            BY WroteSlotsOption
        <2>2. \A fields : AnyObject(Obj(fields))
            BY DEF AnyObject, ObjectOf, Obj, Is
        <2> HIDE DEF slots
        <2> QED  BY <2>1, <2>2
    <1> HIDE DEF v, envelope, timeout, keys, correlation, slots
    <1>7. /\ \A i \in Found(v, "envelope") : EnvelopeSchema(v[2][i][2])
          /\ \A i \in Found(v, "timeout") : DurationSchema(v[2][i][2])
          /\ \A i \in Found(v, "idempotency_key") : NonEmptyString(v[2][i][2])
          /\ \A i \in Found(v, "correlation_id") : NonEmptyString(v[2][i][2])
          /\ \A i \in Found(v, "transport_options") : AnyObject(v[2][i][2])
        BY <1>1, <1>2, <1>3, <1>4, <1>5, <1>6, WrittenUnder
    <1>8. SendOptionsSchema(v)
        BY <1>1, <1>7 DEF SendOptionsSchema, ObjectOf, Property, Optionally, Nullable, IsObject
    <1> QED  BY <1>8 DEF v

(* A key that is found once has the value that its readers take. *)
LEMMA ValueUnder ==
    ASSUME NEW value, NEW key, Once(value, key)
    PROVE  Found(value, key) # {} /\ \A i \in Found(value, key) : value[2][i][2] = Value(value, key)
    <1>1. PICK k \in DOMAIN value[2] : Found(value, key) = {k}
        BY DEF Once
    <1>2. (CHOOSE j \in Found(value, key) : TRUE) = k
        BY <1>1
    <1> QED  BY <1>1, <1>2 DEF Value

(* What a caller posts, the published schema of SendRequest admits         *)
(* (RestateTransport::invoke, the JsonSchema implementations of            *)
(* email-message, email-transport and restate-email), whatever the message *)
(* and the options; but for a date, which is not written as the schema     *)
(* says.                                                                   *)
THEOREM SchemaAdmitsRequestsHolds == Spec => []SchemaAdmitsRequests
    <1>1. ASSUME IInv, scenario \in Scenarios, body # <<>>, ~IsForeign, scenario.message.date = <<>>
          PROVE  SendRequestSchema(body[1].json)
        <2> DEFINE v == body[1].json
                   m == scenario.message
                   o == WriteSendOptions(scenario.options)[1]
        <2>1. /\ IsSendRequest(scenario) /\ WriteSendOptions(scenario.options) # <<>> /\ IsObject(v)
              /\ Once(v, "options") /\ Value(v, "options") = o
              /\ Once(v, "message") /\ Value(v, "message") = WriteMessage(m)
              /\ Once(v, "transport") /\ Value(v, "transport") = Text(scenario.transport)
            BY <1>1, PostedOptions
        <2>2. m.body.kind = "mime" => MimePartSchema(WriteMimePart(m.body.part))
            BY <1>1, MimePartSchemaAssumption DEF IsForeign
        <2>3. MessageSchema(WriteMessage(m))
            BY <1>1, <2>1, <2>2, MessagesAdmitted DEF IsSendRequest
        <2>4. SendOptionsSchema(o)
            BY <2>1, OptionsAdmitted DEF IsSendRequest
        <2>5. NonEmptyString(Text(scenario.transport))
            BY <2>1, NewtypesAdmitted DEF IsSendRequest
        <2> HIDE DEF v, m, o
        <2>6. Found(v, "transport") # {} /\ \A i \in Found(v, "transport") : NonEmptyString(v[2][i][2])
            BY <2>1, <2>5, ValueUnder
        <2>7. Found(v, "message") # {} /\ \A i \in Found(v, "message") : MessageSchema(v[2][i][2])
            BY <2>1, <2>3, ValueUnder
        <2>8. \A i \in Found(v, "options") : SendOptionsSchema(v[2][i][2])
            BY <2>1, <2>4, ValueUnder
        <2>9. SendRequestSchema(v)
            BY <2>1, <2>6, <2>7, <2>8 DEF SendRequestSchema, ObjectOf, Property, IsObject
        <2> QED  BY <2>9 DEF v
    <1>2. IInv => SchemaAdmitsRequests
        BY <1>1 DEF SchemaAdmitsRequests, IInv
    <1> QED  BY <1>2, ContentInvariant, PTL
===============================================================================
