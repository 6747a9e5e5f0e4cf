----------------------- MODULE LettreTransport_proofs -----------------------
(***************************************************************************)
(* What holds of LettreTransport for any finite number of calls and any    *)
(* MAX_IN_FLIGHT_SENDS: its permits are conserved, the semaphore and the   *)
(* calls agree on who waits, no permit lies idle while a call waits, and   *)
(* a reported success was taken by the server.  The four need each other:  *)
(* counting permits needs the queue to hold each waiter once, and that     *)
(* needs the calls that left to have left the queue as well.               *)
(***************************************************************************)
EXTENDS LettreTransport, FiniteSetTheorems, SequenceTheorems, TLAPS

Elements(q) == {q[i] : i \in DOMAIN q}
Distinct(q) == \A i, j \in DOMAIN q : i # j => q[i] # q[j]

-------------------------------------------------------------------------------
(* Queues without repetitions. *)

LEMMA AppendDistinct ==
  ASSUME NEW S, NEW q \in Seq(S), NEW x \in S, Distinct(q), x \notin Elements(q)
  PROVE  /\ Append(q, x) \in Seq(S)
         /\ Elements(Append(q, x)) = Elements(q) \cup {x}
         /\ Distinct(Append(q, x))
  <1> DEFINE p == Append(q, x)
  <1>1. /\ p \in Seq(S)
        /\ DOMAIN p = 1..(Len(q) + 1) /\ DOMAIN q = 1..Len(q) /\ Len(q) \in Nat
        /\ \A i \in 1..Len(q) : p[i] = q[i]
        /\ p[Len(q) + 1] = x
    BY AppendProperties, LenProperties
  <1> HIDE DEF p
  <1>2. Elements(p) = Elements(q) \cup {x}
    BY <1>1 DEF Elements
  <1>3. Distinct(p)
    BY <1>1 DEF Distinct, Elements
  <1> QED
    BY <1>1, <1>2, <1>3 DEF p

LEMMA TailDistinct ==
  ASSUME NEW S, NEW q \in Seq(S), q # <<>>, Distinct(q)
  PROVE  /\ Head(q) \in Elements(q) /\ Head(q) \in S
         /\ Tail(q) \in Seq(S)
         /\ Elements(Tail(q)) = Elements(q) \ {Head(q)}
         /\ Distinct(Tail(q))
  <1> DEFINE p == Tail(q)
  <1>1. /\ Head(q) = q[1] /\ Head(q) \in S
        /\ p \in Seq(S)
        /\ Len(q) \in Nat /\ Len(q) > 0 /\ Len(p) = Len(q) - 1
        /\ DOMAIN q = 1..Len(q) /\ DOMAIN p = 1..(Len(q) - 1)
        /\ \A i \in 1..(Len(q) - 1) : p[i] = q[i + 1]
    BY HeadTailProperties, LenProperties, EmptySeq
  <1> HIDE DEF p
  <1>2. Head(q) \in Elements(q)
    BY <1>1 DEF Elements
  <1>3. Elements(p) \subseteq Elements(q) \ {Head(q)}
    BY <1>1 DEF Elements, Distinct
  <1>4. ASSUME NEW i \in 1..Len(q), i # 1
        PROVE  q[i] \in Elements(p)
    <2>1. i - 1 \in DOMAIN p
      BY <1>1, <1>4
    <2>2. p[i - 1] = q[(i - 1) + 1] /\ (i - 1) + 1 = i
      BY <1>1, <2>1
    <2> QED
      BY <2>1, <2>2 DEF Elements
  <1>5. Elements(q) \ {Head(q)} \subseteq Elements(p)
    BY <1>1, <1>4 DEF Elements
  <1>6. ASSUME NEW i \in DOMAIN p, NEW j \in DOMAIN p, i # j
        PROVE  p[i] # p[j]
    <2>1. /\ i + 1 \in DOMAIN q /\ j + 1 \in DOMAIN q /\ i + 1 # j + 1
          /\ p[i] = q[i + 1] /\ p[j] = q[j + 1]
      BY <1>1, <1>6
    <2> QED
      BY <2>1 DEF Distinct
  <1>7. Distinct(p)
    BY <1>6 DEF Distinct
  <1> QED
    BY <1>1, <1>2, <1>3, <1>5, <1>7 DEF p

LEMMA RemoveAtDistinct ==
  ASSUME NEW S, NEW q \in Seq(S), Distinct(q), NEW k \in DOMAIN q
  PROVE  /\ RemoveAt(q, k) \in Seq(S)
         /\ Elements(RemoveAt(q, k)) = Elements(q) \ {q[k]}
         /\ Distinct(RemoveAt(q, k))
  <1> DEFINE n == Len(q)
             a == SubSeq(q, 1, k - 1)
             b == SubSeq(q, k + 1, n)
             p == a \o b
  <1>1. n \in Nat /\ DOMAIN q = 1..n /\ k \in 1..n
    BY LenProperties
  <1>2. /\ a \in Seq(S) /\ Len(a) = k - 1
        /\ \A i \in 1..(k - 1) : a[i] = q[i]
    BY <1>1, SubSeqProperties
  <1>3. /\ b \in Seq(S) /\ Len(b) = n - k
        /\ \A i \in 1..(n - k) : b[i] = q[k + i]
    BY <1>1, SubSeqProperties
  <1> HIDE DEF a, b, n
  <1>4. /\ p \in Seq(S) /\ Len(p) = n - 1 /\ DOMAIN p = 1..(n - 1)
        /\ \A i \in 1..(n - 1) : p[i] = IF i < k THEN q[i] ELSE q[i + 1]
    <2>1. p \in Seq(S) /\ Len(p) = n - 1 /\ DOMAIN p = 1..(n - 1)
      BY <1>1, <1>2, <1>3, ConcatProperties, LenProperties
    <2>2. ASSUME NEW i \in 1..(n - 1)
          PROVE  p[i] = IF i < k THEN q[i] ELSE q[i + 1]
      <3>1. i \in 1..(Len(a) + Len(b))
        BY <1>1, <1>2, <1>3
      <3>2. p[i] = IF i <= Len(a) THEN a[i] ELSE b[i - Len(a)]
        BY <3>1, <1>2, <1>3, ConcatProperties
      <3>3. CASE i < k
        BY <3>2, <3>3, <1>1, <1>2
      <3>4. CASE i >= k
        <4>1. i - (k - 1) \in 1..(n - k) /\ k + (i - (k - 1)) = i + 1
          BY <3>4, <1>1
        <4>2. p[i] = b[i - (k - 1)]
          BY <3>2, <3>4, <1>1, <1>2
        <4>3. b[i - (k - 1)] = q[k + (i - (k - 1))]
          BY <4>1, <1>3
        <4> QED
          BY <3>4, <4>1, <4>2, <4>3, <1>1
      <3>5. i < k \/ i >= k
        BY <1>1
      <3> QED
        BY <3>3, <3>4, <3>5
    <2> QED
      BY <2>1, <2>2
  <1> DEFINE at(i) == IF i < k THEN i ELSE i + 1
  <1> HIDE DEF p
  <1>5. \A i \in DOMAIN p : at(i) \in DOMAIN q \ {k} /\ p[i] = q[at(i)]
    BY <1>1, <1>4
  <1>6. \A i, j \in DOMAIN p : i # j => at(i) # at(j)
    BY <1>1, <1>4
  <1> HIDE DEF at
  <1>7. Elements(p) \subseteq Elements(q) \ {q[k]}
    BY <1>5 DEF Elements, Distinct
  <1>8. Distinct(p)
    BY <1>5, <1>6 DEF Distinct
  <1>9. ASSUME NEW i \in 1..n, i # k
        PROVE  q[i] \in Elements(p)
    <2>1. CASE i < k
      BY <2>1, <1>1, <1>4 DEF Elements
    <2>2. CASE i > k
      <3>1. i - 1 \in DOMAIN p /\ p[i - 1] = q[i]
        BY <2>2, <1>1, <1>4
      <3> QED
        BY <3>1 DEF Elements
    <2> QED
      BY <2>1, <2>2, <1>9, <1>1
  <1>10. Elements(q) \ {q[k]} \subseteq Elements(p)
    BY <1>1, <1>9 DEF Elements
  <1> QED
    BY <1>4, <1>7, <1>8, <1>10 DEF RemoveAt, p, a, b, n

-------------------------------------------------------------------------------
(* The invariant. *)

IInv ==
  /\ TypeOK
  /\ WaitersAgree
  /\ NoIdlePermit
  /\ PermitsConserved
  /\ TaskOfAdmitted
  /\ SuccessIsTaken

(* What a step does to the semaphore's part of it. *)
SemaphoreOK ==
  /\ available \in 0..MaxInFlight
  /\ queue \in Seq(Sends)
  /\ granted \subseteq Sends
  /\ InQueue \cap granted = {}
  /\ Distinct(queue)
  /\ NoIdlePermit

LEMMA Kinds ==
  /\ "ok" \notin ErrorKind /\ "none" \notin ErrorKind /\ "running" \notin ErrorKind
  /\ "Timeout" \in ErrorKind /\ "Internal" \in ErrorKind
  /\ "none" \notin TaskResult /\ "running" \notin TaskResult /\ "ok" \in TaskResult
  /\ \A ended \in TaskResult : /\ JoinedResult(ended) \in ErrorKind \cup {"ok"}
                               /\ JoinedResult(ended) = "ok" => ended = "ok"
  BY SmtpErrorsAssumption
     DEF ErrorKind, RetryableKinds, TerminalKinds, TaskResult, JoinedResult

LEMMA FrontErrorIsKind ==
  ASSUME NEW r \in Request
  PROVE  FrontError(r) \in ErrorKind
  BY DEF FrontError, MapRenderError, ErrorKind, RetryableKinds, TerminalKinds

LEMMA SendsFinite ==
  ASSUME NEW T \in SUBSET Sends
  PROVE  IsFiniteSet(T) /\ Cardinality(T) \in Nat
  BY SendsAssumption, FS_Subset, FS_CardinalityType

LEMMA SemaphoreOfInv ==
  ASSUME IInv
  PROVE  SemaphoreOK /\ InQueue \cup granted = Waiting
  BY DEF IInv, TypeOK, WaitersAgree, SemaphoreOK, Distinct

LEMMA PcChange ==
  ASSUME TypeOK, NEW s \in Sends, NEW v, pc' = [pc EXCEPT ![s] = v]
  PROVE  Waiting' = IF v = "waiting" THEN Waiting \cup {s} ELSE Waiting \ {s}
  BY DEF TypeOK, Waiting

LEMMA TaskChange ==
  ASSUME TypeOK, NEW s \in Sends, NEW v, task' = [task EXCEPT ![s] = v]
  PROVE  Running' = IF v = "running" THEN Running \cup {s} ELSE Running \ {s}
  BY DEF TypeOK, Running

(* One permit more: with the pool, or with the first waiter. *)
LEMMA Release ==
  ASSUME SemaphoreOK, NEW others \in SUBSET granted,
         available + Cardinality(others) < MaxInFlight,
         ReleasePermit(others)
  PROVE  /\ SemaphoreOK'
         /\ (InQueue \cup granted)' = InQueue \cup others
         /\ available' + Cardinality(granted') = available + Cardinality(others) + 1
  <1>1. IsFiniteSet(others) /\ Cardinality(others) \in Nat
    BY SendsFinite DEF SemaphoreOK
  <1>2. CASE queue = <<>>
    <2>1. /\ available' = available + 1 /\ granted' = others /\ queue' = queue
          /\ InQueue' = InQueue
      BY <1>2 DEF ReleasePermit, InQueue
    <2>2. available' \in 0..MaxInFlight
      BY <2>1, <1>1, MaxInFlightAssumption DEF SemaphoreOK
    <2>3. SemaphoreOK'
      BY <1>2, <2>1, <2>2 DEF SemaphoreOK, NoIdlePermit, Distinct
    <2> QED
      BY <2>1, <2>3, <1>1 DEF SemaphoreOK
  <1>3. CASE queue # <<>>
    <2>1. /\ granted' = others \cup {Head(queue)} /\ queue' = Tail(queue)
          /\ available' = available
      BY <1>3 DEF ReleasePermit
    <2>2. /\ Head(queue) \in InQueue /\ Head(queue) \in Sends
          /\ queue' \in Seq(Sends)
          /\ InQueue' = InQueue \ {Head(queue)}
          /\ Distinct(queue')
      BY <1>3, <2>1, TailDistinct DEF SemaphoreOK, InQueue, Elements
    <2>3. Head(queue) \notin others
      BY <2>2 DEF SemaphoreOK
    <2>4. Cardinality(granted') = Cardinality(others) + 1
      BY <1>1, <2>1, <2>3, FS_AddElement
    <2>5. NoIdlePermit'
      BY <1>3, <2>1 DEF SemaphoreOK, NoIdlePermit
    <2>6. SemaphoreOK'
      BY <2>1, <2>2, <2>5 DEF SemaphoreOK
    <2> QED
      BY <2>1, <2>2, <2>4, <2>6, <1>1 DEF SemaphoreOK
  <1> QED
    BY <1>2, <1>3

(* A waiter leaves, with what it was granted or without. *)
LEMMA Leave ==
  ASSUME IInv, NEW s \in Sends, LeaveAdmission(s)
  PROVE  /\ SemaphoreOK'
         /\ (InQueue \cup granted)' = Waiting \ {s}
         /\ available' + Cardinality(granted') = available + Cardinality(granted)
  <1>1. SemaphoreOK /\ InQueue \cup granted = Waiting
    BY SemaphoreOfInv
  <1>2. /\ IsFiniteSet(granted) /\ Cardinality(granted) \in Nat
        /\ Cardinality(Running) \in Nat /\ available \in Nat
        /\ available + Cardinality(granted) <= MaxInFlight
    BY <1>1, SendsFinite, MaxInFlightAssumption
       DEF IInv, PermitsConserved, Running, SemaphoreOK
  <1>3. CASE s \in granted /\ ReleasePermit(granted \ {s})
    <2>1. Cardinality(granted \ {s}) = Cardinality(granted) - 1
      BY <1>2, <1>3, FS_RemoveElement
    <2>2. available + Cardinality(granted \ {s}) < MaxInFlight
      BY <1>2, <2>1, MaxInFlightAssumption
    <2>3. granted \ {s} \in SUBSET granted
      OBVIOUS
    <2>4. /\ SemaphoreOK'
          /\ (InQueue \cup granted)' = InQueue \cup (granted \ {s})
          /\ available' + Cardinality(granted')
               = available + Cardinality(granted \ {s}) + 1
      BY <1>1, <1>3, <2>2, <2>3, Release
    <2>5. InQueue \cup (granted \ {s}) = Waiting \ {s}
      BY <1>1, <1>3 DEF SemaphoreOK
    <2> QED
      BY <1>2, <2>1, <2>4, <2>5
  <1>4. CASE /\ s \notin granted
             /\ \E i \in DOMAIN queue : queue[i] = s /\ queue' = RemoveAt(queue, i)
             /\ UNCHANGED <<available, granted>>
    <2>1. PICK i \in DOMAIN queue : queue[i] = s /\ queue' = RemoveAt(queue, i)
      BY <1>4
    <2>2. /\ queue' \in Seq(Sends)
          /\ InQueue' = InQueue \ {s}
          /\ Distinct(queue')
      BY <1>1, <2>1, RemoveAtDistinct DEF SemaphoreOK, InQueue, Elements
    <2>3. queue # <<>>
      BY <2>1
    <2>4. NoIdlePermit'
      BY <1>1, <1>4, <2>3 DEF SemaphoreOK, NoIdlePermit
    <2>5. SemaphoreOK'
      BY <1>1, <1>4, <2>2, <2>4 DEF SemaphoreOK
    <2> QED
      BY <1>1, <1>4, <2>2, <2>5
  <1> QED
    BY <1>3, <1>4 DEF LeaveAdmission

-------------------------------------------------------------------------------
(* Every step keeps it. *)

(* The calls' part of the type invariant. *)
CallsOK ==
  /\ pc \in [Sends -> {"idle", "waiting", "awaiting", "returned", "dropped"}]
  /\ deadline \in [Sends -> {"none", "ahead", "passed"}]
  /\ result \in [Sends -> ErrorKind \cup {"none", "ok"}]
  /\ task \in [Sends -> TaskResult \cup {"none", "running"}]
  /\ taken \subseteq Sends

LEMMA CallsOfInv ==
  ASSUME IInv
  PROVE  CallsOK
  BY DEF IInv, TypeOK, CallsOK

LEMMA Assemble ==
  ASSUME CallsOK', SemaphoreOK', (InQueue \cup granted)' = Waiting',
         PermitsConserved', TaskOfAdmitted', SuccessIsTaken'
  PROVE  IInv'
  BY DEF IInv, TypeOK, WaitersAgree, CallsOK, SemaphoreOK, Distinct

(* The counts of the permits' holders. *)
LEMMA Counts ==
  ASSUME IInv
  PROVE  /\ IsFiniteSet(granted) /\ Cardinality(granted) \in Nat
         /\ IsFiniteSet(Running) /\ Cardinality(Running) \in Nat
         /\ available \in Nat /\ MaxInFlight \in Nat
         /\ available + Cardinality(granted) + Cardinality(Running) = MaxInFlight
  BY SendsFinite, MaxInFlightAssumption DEF IInv, TypeOK, PermitsConserved, Running

LEMMA SemaphoreUnchanged ==
  ASSUME SemaphoreOK, UNCHANGED semaphore
  PROVE  SemaphoreOK' /\ (InQueue \cup granted)' = InQueue \cup granted
  BY DEF SemaphoreOK, semaphore, NoIdlePermit, InQueue, Distinct

LEMMA RejectStep ==
  ASSUME IInv, NEW s \in Sends, NEW r \in Request, Reject(s, r)
  PROVE  IInv'
  <1>1. /\ pc[s] = "idle" /\ pc' = [pc EXCEPT ![s] = "returned"]
        /\ result' = [result EXCEPT ![s] = FrontError(r)]
        /\ deadline' = [deadline EXCEPT ![s] = "none"]
        /\ UNCHANGED semaphore /\ task' = task /\ taken' = taken
    BY DEF Reject, Return
  <1>2. CallsOK'
    BY <1>1, CallsOfInv, FrontErrorIsKind DEF CallsOK
  <1>3. SemaphoreOK' /\ (InQueue \cup granted)' = Waiting
    BY <1>1, SemaphoreOfInv, SemaphoreUnchanged
  <1>4. Waiting' = Waiting
    BY <1>1, PcChange DEF IInv, Waiting
  <1>5. PermitsConserved'
    BY <1>1 DEF IInv, PermitsConserved, semaphore, Running
  <1>6. TaskOfAdmitted' /\ SuccessIsTaken'
    BY <1>1, CallsOfInv, FrontErrorIsKind, Kinds
       DEF IInv, CallsOK, TaskOfAdmitted, SuccessIsTaken
  <1> QED
    BY <1>2, <1>3, <1>4, <1>5, <1>6, Assemble

LEMMA AdmitStep ==
  ASSUME IInv, NEW s \in Sends, NEW r \in Request, Admit(s, r)
  PROVE  IInv'
  <1>1. /\ pc[s] = "idle" /\ pc' = [pc EXCEPT ![s] = "awaiting"]
        /\ task' = [task EXCEPT ![s] = "running"]
        /\ available > 0 /\ available' = available - 1
        /\ deadline' = [deadline EXCEPT ![s] = IF r.timed THEN "ahead" ELSE "none"]
        /\ result' = result /\ queue' = queue /\ granted' = granted /\ taken' = taken
    BY DEF Admit, SetDeadline, SpawnTask
  <1>2. CallsOK'
    BY <1>1, CallsOfInv DEF CallsOK
  <1>3. SemaphoreOK' /\ (InQueue \cup granted)' = Waiting
    BY <1>1, SemaphoreOfInv, MaxInFlightAssumption
       DEF SemaphoreOK, NoIdlePermit, InQueue, Distinct
  <1>4. Waiting' = Waiting
    BY <1>1, PcChange DEF IInv, Waiting
  <1>5. PermitsConserved'
    <2>1. s \notin Running /\ Running' = Running \cup {s}
      BY <1>1, TaskChange DEF IInv, TaskOfAdmitted, Running
    <2>2. Cardinality(Running') = Cardinality(Running) + 1
      BY <2>1, Counts, FS_AddElement
    <2> QED
      BY <1>1, <2>2, Counts DEF PermitsConserved
  <1>6. TaskOfAdmitted' /\ SuccessIsTaken'
    BY <1>1, CallsOfInv DEF IInv, CallsOK, TaskOfAdmitted, SuccessIsTaken
  <1> QED
    BY <1>2, <1>3, <1>4, <1>5, <1>6, Assemble

LEMMA EnqueueStep ==
  ASSUME IInv, NEW s \in Sends, NEW r \in Request, Enqueue(s, r)
  PROVE  IInv'
  <1>1. /\ pc[s] = "idle" /\ pc' = [pc EXCEPT ![s] = "waiting"]
        /\ available = 0 /\ queue' = Append(queue, s)
        /\ deadline' = [deadline EXCEPT ![s] = IF r.timed THEN "ahead" ELSE "none"]
        /\ result' = result /\ available' = available /\ granted' = granted
        /\ task' = task /\ taken' = taken
    BY DEF Enqueue, SetDeadline
  <1>2. CallsOK'
    BY <1>1, CallsOfInv DEF CallsOK
  <1>3. s \notin Waiting /\ s \notin InQueue /\ s \notin granted
    BY <1>1, SemaphoreOfInv DEF Waiting
  <1>4. queue' \in Seq(Sends) /\ InQueue' = InQueue \cup {s} /\ Distinct(queue')
    BY <1>1, <1>3, SemaphoreOfInv, AppendDistinct DEF SemaphoreOK, InQueue, Elements
  <1>5. SemaphoreOK' /\ (InQueue \cup granted)' = Waiting \cup {s}
    BY <1>1, <1>3, <1>4, SemaphoreOfInv DEF SemaphoreOK, NoIdlePermit
  <1>6. Waiting' = Waiting \cup {s}
    BY <1>1, PcChange DEF IInv
  <1>7. PermitsConserved'
    BY <1>1 DEF IInv, PermitsConserved, Running
  <1>8. TaskOfAdmitted' /\ SuccessIsTaken'
    BY <1>1, CallsOfInv DEF IInv, CallsOK, TaskOfAdmitted, SuccessIsTaken
  <1> QED
    BY <1>2, <1>5, <1>6, <1>7, <1>8, Assemble

LEMMA StartGrantedStep ==
  ASSUME IInv, NEW s \in Sends, StartGranted(s)
  PROVE  IInv'
  <1>1. /\ pc[s] = "waiting" /\ pc' = [pc EXCEPT ![s] = "awaiting"]
        /\ s \in granted /\ granted' = granted \ {s}
        /\ task' = [task EXCEPT ![s] = "running"]
        /\ deadline' = deadline /\ result' = result /\ available' = available
        /\ queue' = queue /\ taken' = taken
    BY DEF StartGranted, SpawnTask
  <1>2. CallsOK'
    BY <1>1, CallsOfInv DEF CallsOK
  <1>3. SemaphoreOK' /\ (InQueue \cup granted)' = Waiting \ {s}
    BY <1>1, SemaphoreOfInv DEF SemaphoreOK, NoIdlePermit, InQueue, Distinct
  <1>4. Waiting' = Waiting \ {s}
    BY <1>1, PcChange DEF IInv
  <1>5. PermitsConserved'
    <2>1. s \notin Running /\ Running' = Running \cup {s}
      BY <1>1, TaskChange DEF IInv, TaskOfAdmitted, Running
    <2>2. /\ Cardinality(Running') = Cardinality(Running) + 1
          /\ Cardinality(granted') = Cardinality(granted) - 1
      BY <1>1, <2>1, Counts, FS_AddElement, FS_RemoveElement
    <2> QED
      BY <1>1, <2>2, Counts DEF PermitsConserved
  <1>6. TaskOfAdmitted' /\ SuccessIsTaken'
    BY <1>1, CallsOfInv DEF IInv, CallsOK, TaskOfAdmitted, SuccessIsTaken
  <1> QED
    BY <1>2, <1>3, <1>4, <1>5, <1>6, Assemble

(* A waiting call ends: AdmissionTimeout, or DropCall before admission. *)
LEMMA LeaveStep ==
  ASSUME IInv, NEW s \in Sends, NEW v \in {"returned", "dropped"},
         pc' = [pc EXCEPT ![s] = v],
         deadline' = [deadline EXCEPT ![s] = "none"],
         result' \in {result, [result EXCEPT ![s] = "Timeout"]},
         LeaveAdmission(s), task' = task, taken' = taken
  PROVE  IInv'
  <1>1. CallsOK'
    BY CallsOfInv, Kinds DEF CallsOK
  <1>2. /\ SemaphoreOK' /\ (InQueue \cup granted)' = Waiting \ {s}
        /\ available' + Cardinality(granted') = available + Cardinality(granted)
    BY Leave
  <1>3. Waiting' = Waiting \ {s}
    BY PcChange DEF IInv
  <1>4. PermitsConserved'
    <2>1. Running' = Running
      BY DEF Running
    <2>2. Cardinality(granted') \in Nat /\ available' \in Nat
      BY <1>2, SendsFinite DEF SemaphoreOK
    <2> QED
      BY <1>2, <2>1, <2>2, Counts DEF PermitsConserved
  <1>5. TaskOfAdmitted' /\ SuccessIsTaken'
    BY CallsOfInv, Kinds DEF IInv, CallsOK, TaskOfAdmitted, SuccessIsTaken
  <1> QED
    BY <1>1, <1>2, <1>3, <1>4, <1>5, Assemble

(* An admitted call ends: CompletionTimeout, ObserveResult, or DropCall. *)
LEMMA EndStep ==
  ASSUME IInv, NEW s \in Sends, NEW v \in {"returned", "dropped"},
         NEW value \in ErrorKind \cup {"none", "ok"},
         pc[s] = "awaiting", value = "ok" => task[s] = "ok",
         pc' = [pc EXCEPT ![s] = v],
         deadline' = [deadline EXCEPT ![s] = "none"],
         result' \in {result, [result EXCEPT ![s] = value]},
         UNCHANGED semaphore, task' = task, taken' = taken
  PROVE  IInv'
  <1>1. CallsOK'
    BY CallsOfInv DEF CallsOK
  <1>2. SemaphoreOK' /\ (InQueue \cup granted)' = Waiting
    BY SemaphoreOfInv, SemaphoreUnchanged
  <1>3. Waiting' = Waiting
    BY PcChange DEF IInv, Waiting
  <1>4. PermitsConserved'
    BY DEF IInv, PermitsConserved, semaphore, Running
  <1>5. TaskOfAdmitted' /\ SuccessIsTaken'
    BY CallsOfInv, Kinds DEF IInv, CallsOK, TaskOfAdmitted, SuccessIsTaken
  <1> QED
    BY <1>1, <1>2, <1>3, <1>4, <1>5, Assemble

(* Time passes, or the server takes a message. *)
LEMMA EnvironmentStep ==
  ASSUME IInv,
         deadline' \in [Sends -> {"none", "ahead", "passed"}],
         taken' \in SUBSET Sends, taken \subseteq taken',
         UNCHANGED <<pc, result, semaphore, task>>
  PROVE  IInv'
  <1>1. CallsOK'
    BY CallsOfInv DEF CallsOK
  <1>2. SemaphoreOK' /\ (InQueue \cup granted)' = Waiting /\ Waiting' = Waiting
    BY SemaphoreOfInv, SemaphoreUnchanged DEF Waiting
  <1>3. PermitsConserved' /\ TaskOfAdmitted' /\ SuccessIsTaken'
    BY DEF IInv, PermitsConserved, semaphore, Running, TaskOfAdmitted, SuccessIsTaken
  <1> QED
    BY <1>1, <1>2, <1>3, Assemble

LEMMA FinishTaskStep ==
  ASSUME IInv, NEW s \in Sends, NEW ended \in TaskResult, FinishTask(s, ended)
  PROVE  IInv'
  <1>1. /\ task[s] = "running"
        /\ ended = "ok" => s \in taken
        /\ task' = [task EXCEPT ![s] = ended]
        /\ ReleasePermit(granted)
        /\ pc' = pc /\ deadline' = deadline /\ result' = result /\ taken' = taken
    BY DEF FinishTask
  <1>2. CallsOK'
    BY <1>1, CallsOfInv DEF CallsOK
  <1>3. s \in Running /\ Running' = Running \ {s}
    <2>1. ended # "running"
      BY Kinds
    <2>2. TypeOK
      BY DEF IInv
    <2>3. Running' = Running \ {s}
      BY <1>1, <2>1, <2>2, TaskChange
    <2> QED
      BY <1>1, <2>3 DEF Running
  <1>4. /\ Cardinality(Running') = Cardinality(Running) - 1
        /\ Cardinality(Running') \in Nat
    BY <1>3, Counts, FS_RemoveElement, FS_CardinalityType
  <1>5. available + Cardinality(granted) < MaxInFlight
    BY <1>4, Counts
  <1>6. /\ SemaphoreOK' /\ (InQueue \cup granted)' = Waiting
        /\ available' + Cardinality(granted') = available + Cardinality(granted) + 1
    BY <1>1, <1>5, SemaphoreOfInv, Release
  <1>7. PermitsConserved'
    <2>1. Cardinality(granted') \in Nat /\ available' \in Nat
      BY <1>6, SendsFinite DEF SemaphoreOK
    <2> QED
      BY <1>4, <1>6, <2>1, Counts DEF PermitsConserved
  <1>8. TaskOfAdmitted'
    BY <1>1, CallsOfInv DEF IInv, CallsOK, TaskOfAdmitted
  <1>9. SuccessIsTaken'
    BY <1>1, CallsOfInv DEF IInv, CallsOK, SuccessIsTaken
  <1>10. Waiting' = Waiting
    BY <1>1 DEF Waiting
  <1> QED
    BY <1>2, <1>6, <1>7, <1>8, <1>9, <1>10, Assemble

LEMMA InitIInv == Init => IInv
  <1> SUFFICES ASSUME Init PROVE IInv
    OBVIOUS
  <1>1. TypeOK
    BY MaxInFlightAssumption, EmptySeq DEF Init, TypeOK
  <1>2. InQueue = {} /\ granted = {} /\ Waiting = {} /\ Running = {}
    BY DEF Init, InQueue, Waiting, Running
  <1>3. WaitersAgree /\ NoIdlePermit
    BY <1>2 DEF Init, WaitersAgree, NoIdlePermit
  <1>4. PermitsConserved
    BY <1>2, FS_EmptySet, MaxInFlightAssumption DEF Init, PermitsConserved
  <1>5. TaskOfAdmitted /\ SuccessIsTaken
    BY DEF Init, TaskOfAdmitted, SuccessIsTaken
  <1> QED
    BY <1>1, <1>3, <1>4, <1>5 DEF IInv

LEMMA StepIInv == IInv /\ [Next]_vars => IInv'
  <1> SUFFICES ASSUME IInv, [Next]_vars PROVE IInv'
    OBVIOUS
  <1>1. CASE UNCHANGED vars
    BY <1>1, EnvironmentStep, CallsOfInv DEF vars, CallsOK
  <1>2. ASSUME NEW s \in Sends, Call(s)
        PROVE  IInv'
    BY <1>2, RejectStep, AdmitStep, EnqueueStep DEF Call
  <1>3. ASSUME NEW s \in Sends, StartGranted(s)
        PROVE  IInv'
    BY <1>3, StartGrantedStep
  <1>4. ASSUME NEW s \in Sends, AdmissionTimeout(s)
        PROVE  IInv'
    BY <1>4, LeaveStep DEF AdmissionTimeout, Return
  <1>5. ASSUME NEW s \in Sends, CompletionTimeout(s)
        PROVE  IInv'
    BY <1>5, EndStep, Kinds DEF CompletionTimeout, Return
  <1>6. ASSUME NEW s \in Sends, ObserveResult(s)
        PROVE  IInv'
    BY <1>6, EndStep, Kinds DEF ObserveResult, Return
  <1>7. ASSUME NEW s \in Sends, DropCall(s)
        PROVE  IInv'
    <2>1. CASE pc[s] = "waiting" /\ LeaveAdmission(s)
      BY <1>7, <2>1, LeaveStep DEF DropCall
    <2>2. CASE pc[s] = "awaiting" /\ UNCHANGED semaphore
      BY <1>7, <2>2, EndStep DEF DropCall
    <2> QED
      BY <1>7, <2>1, <2>2 DEF DropCall
  <1>8. ASSUME NEW s \in Sends, DeadlinePasses(s) \/ ServerTakes(s)
        PROVE  IInv'
    <2>1. deadline' \in [Sends -> {"none", "ahead", "passed"}]
      BY <1>8, CallsOfInv DEF DeadlinePasses, ServerTakes, CallsOK
    <2>2. taken' \in SUBSET Sends /\ taken \subseteq taken'
      BY <1>8, CallsOfInv DEF DeadlinePasses, ServerTakes, CallsOK
    <2> QED
      BY <1>8, <2>1, <2>2, EnvironmentStep DEF DeadlinePasses, ServerTakes
  <1>9. ASSUME NEW s \in Sends, TaskEnds(s)
        PROVE  IInv'
    BY <1>9, FinishTaskStep DEF TaskEnds
  <1> QED
    BY <1>1, <1>2, <1>3, <1>4, <1>5, <1>6, <1>7, <1>8, <1>9 DEF Next, CallerStep

THEOREM Invariance == Spec => []IInv
  BY InitIInv, StepIInv, PTL DEF Spec

(* The states of calls, tasks and semaphore are always well-formed. *)
THEOREM TypeCorrect == Spec => []TypeOK
  <1>1. IInv => TypeOK
    BY DEF IInv
  <1> QED
    BY <1>1, Invariance, PTL

(* However calls time out and are dropped while a grant is on its way, and    *)
(* however tasks end, no permit of the semaphore is lost or forged.           *)
THEOREM PermitsNeverLeak == Spec => []PermitsConserved
  <1>1. IInv => PermitsConserved
    BY DEF IInv
  <1> QED
    BY <1>1, Invariance, PTL

(* No call waits for a permit that is free. *)
THEOREM NoPermitIdles == Spec => []NoIdlePermit
  <1>1. IInv => NoIdlePermit
    BY DEF IInv
  <1> QED
    BY <1>1, Invariance, PTL

(* The semaphore serves exactly the calls that still wait for it. *)
THEOREM WaitersAlwaysAgree == Spec => []WaitersAgree
  <1>1. IInv => WaitersAgree
    BY DEF IInv
  <1> QED
    BY <1>1, Invariance, PTL

(* The bound MAX_IN_FLIGHT_SENDS is kept on SMTP transactions, those whose    *)
(* callers are gone included.                                                 *)
THEOREM TasksBounded == Spec => [](Cardinality(Running) <= MaxInFlight)
  <1>1. IInv => Cardinality(Running) <= MaxInFlight
    BY Counts
  <1> QED
    BY <1>1, Invariance, PTL

-------------------------------------------------------------------------------
(***************************************************************************)
(* LettreTransport implements Handoff, for any finite number of calls and  *)
(* any MAX_IN_FLIGHT_SENDS.  A call is open from its admission wait to its *)
(* return, its handoff is its task.  That a task is only spawned below the *)
(* bound follows from the conservation of permits, that a success was      *)
(* taken from SuccessIsTaken; every other step maps by its definition.     *)
(***************************************************************************)

(* How a step that touches one call looks to the handoff contract. *)
LEMMA CallStep ==
  ASSUME CallsOK, NEW s \in Sends, NEW p, NEW v,
         pc' = [pc EXCEPT ![s] = p],
         result' = [result EXCEPT ![s] = v]
  PROVE  /\ p \in {"waiting", "awaiting"}
              => HandoffCall' = [HandoffCall EXCEPT ![s] = "open"]
         /\ p = "dropped" => HandoffCall' = [HandoffCall EXCEPT ![s] = "dropped"]
         /\ p = "returned" /\ v = "ok"
              => HandoffCall' = [HandoffCall EXCEPT ![s] = "ok"]
         /\ p = "returned" /\ v # "ok"
              => HandoffCall' = [HandoffCall EXCEPT ![s] = "failed"]
  <1>1. /\ \A t \in Sends \ {s} : pc'[t] = pc[t] /\ result'[t] = result[t]
        /\ pc'[s] = p /\ result'[s] = v
    BY DEF CallsOK
  <1> QED
    BY <1>1 DEF HandoffCall

LEMMA SameResult ==
  ASSUME CallsOK, NEW s \in Sends, result' = result
  PROVE  result' = [result EXCEPT ![s] = result[s]]
  BY DEF CallsOK

LEMMA TaskStep ==
  ASSUME CallsOK, NEW s \in Sends, NEW v, task' = [task EXCEPT ![s] = v]
  PROVE  /\ v = "running" => HandoffState' = [HandoffState EXCEPT ![s] = "active"]
         /\ v \in TaskResult => HandoffState' = [HandoffState EXCEPT ![s] = "over"]
  <1>1. (\A t \in Sends \ {s} : task'[t] = task[t]) /\ task'[s] = v
    BY DEF CallsOK
  <1> QED
    BY <1>1, Kinds DEF HandoffState

(* The instance of Handoff has a Cardinality of its own, with this definition. *)
LEMMA SameCardinality == \A T : H!Cardinality(T) = Cardinality(T)
  BY Zenon DEF H!Cardinality, Cardinality

LEMMA ActiveIsRunning == H!Active = Running
  BY DEF H!Active, HandoffState, Running

(* A call that is not admitted has begun no handoff, and a permit for it to  *)
(* take means that the bound is not reached.                                 *)
LEMMA SpawnBegins ==
  ASSUME IInv, NEW s \in Sends, pc[s] \in {"idle", "waiting"},
         available > 0 \/ granted # {}, SpawnTask(s)
  PROVE  H!Begins(s)
  <1>1. HandoffState[s] = "none"
    BY DEF IInv, TaskOfAdmitted, HandoffState
  <1>2. HandoffState' = [HandoffState EXCEPT ![s] = "active"]
    BY CallsOfInv, TaskStep DEF SpawnTask
  <1>3. granted # {} => Cardinality(granted) # 0
    BY Counts, FS_EmptySet
  <1>4. H!Cardinality(H!Active) < MaxInFlight
    BY <1>3, Counts, ActiveIsRunning, SameCardinality
  <1> QED
    BY <1>1, <1>2, <1>4 DEF H!Begins

LEMMA InitImplements == Init => H!Init
  BY DEF Init, H!Init, HandoffCall, HandoffState

LEMMA CallImplements ==
  ASSUME IInv, NEW s \in Sends, NEW r \in Request,
         Reject(s, r) \/ Admit(s, r) \/ Enqueue(s, r)
  PROVE  H!Next
  <1>1. CallsOK
    BY CallsOfInv
  <1>2. CASE Reject(s, r)
    <2>1. HandoffCall' = [HandoffCall EXCEPT ![s] = "failed"]
      <3>1. FrontError(r) # "ok"
        BY FrontErrorIsKind, Kinds
      <3> QED
        BY <1>1, <1>2, <3>1, CallStep DEF Reject, Return
    <2>2. HandoffCall[s] = "idle" /\ HandoffState' = HandoffState
      BY <1>2 DEF Reject, HandoffCall, HandoffState
    <2> QED
      BY <1>2, <2>1, <2>2 DEF Reject, H!Next, H!Fail
  <1>3. CASE Admit(s, r)
    <2>1. HandoffCall' = [HandoffCall EXCEPT ![s] = "open"]
      BY <1>1, <1>3, CallStep, SameResult DEF Admit, SpawnTask
    <2>2. HandoffCall[s] = "idle"
      BY <1>3 DEF Admit, HandoffCall
    <2>3. H!Begins(s)
      BY <1>3, SpawnBegins DEF Admit
    <2> QED
      BY <1>3, <2>1, <2>2, <2>3 DEF Admit, H!Next, H!Open
  <1>4. CASE Enqueue(s, r)
    <2>1. HandoffCall' = [HandoffCall EXCEPT ![s] = "open"]
      BY <1>1, <1>4, CallStep, SameResult DEF Enqueue
    <2>2. HandoffCall[s] = "idle" /\ HandoffState' = HandoffState
      BY <1>4 DEF Enqueue, HandoffCall, HandoffState
    <2> QED
      BY <1>4, <2>1, <2>2 DEF Enqueue, H!Next, H!Open
  <1> QED
    BY <1>2, <1>3, <1>4

LEMMA CallerImplements ==
  ASSUME IInv, NEW s \in Sends, CallerStep(s) \/ DropCall(s)
  PROVE  H!Next
  <1>1. CallsOK
    BY CallsOfInv
  <1>2. CASE StartGranted(s)
    <2>1. HandoffCall' = [HandoffCall EXCEPT ![s] = "open"]
      BY <1>1, <1>2, CallStep, SameResult DEF StartGranted, SpawnTask
    <2>2. HandoffCall[s] = "open" /\ HandoffCall \in [Sends -> {HandoffCall[t] : t \in Sends}]
      BY <1>2 DEF StartGranted, HandoffCall
    <2>3. HandoffCall' = HandoffCall
      BY <2>1, <2>2
    <2>4. H!Begins(s)
      BY <1>2, SpawnBegins DEF StartGranted
    <2> QED
      BY <1>2, <2>2, <2>3, <2>4 DEF StartGranted, H!Next, H!Begin
  <1>3. CASE AdmissionTimeout(s) \/ CompletionTimeout(s)
    <2>1. HandoffCall' = [HandoffCall EXCEPT ![s] = "failed"]
      BY <1>1, <1>3, CallStep DEF AdmissionTimeout, CompletionTimeout, Return
    <2>2. HandoffCall[s] = "open" /\ HandoffState' = HandoffState /\ taken' = taken
      BY <1>3 DEF AdmissionTimeout, CompletionTimeout, HandoffCall, HandoffState
    <2> QED
      BY <2>1, <2>2 DEF H!Next, H!Fail
  <1>4. CASE ObserveResult(s)
    <2>1. HandoffCall[s] = "open" /\ HandoffState' = HandoffState /\ taken' = taken
      BY <1>4 DEF ObserveResult, HandoffCall, HandoffState
    <2>2. CASE JoinedResult(task[s]) = "ok"
      <3>1. HandoffCall' = [HandoffCall EXCEPT ![s] = "ok"]
        BY <1>1, <1>4, <2>2, CallStep DEF ObserveResult, Return
      <3>2. s \in taken
        BY <1>4, <2>2, Kinds DEF ObserveResult, IInv, SuccessIsTaken
      <3> QED
        BY <2>1, <3>1, <3>2 DEF H!Next, H!Succeed
    <2>3. CASE JoinedResult(task[s]) # "ok"
      <3>1. HandoffCall' = [HandoffCall EXCEPT ![s] = "failed"]
        BY <1>1, <1>4, <2>3, CallStep DEF ObserveResult, Return
      <3> QED
        BY <2>1, <3>1 DEF H!Next, H!Fail
    <2> QED
      BY <2>2, <2>3
  <1>5. CASE DropCall(s)
    <2>1. HandoffCall' = [HandoffCall EXCEPT ![s] = "dropped"]
      BY <1>1, <1>5, CallStep, SameResult DEF DropCall
    <2>2. HandoffCall[s] = "open" /\ HandoffState' = HandoffState /\ taken' = taken
      BY <1>5 DEF DropCall, HandoffCall, HandoffState
    <2> QED
      BY <2>1, <2>2 DEF H!Next, H!Drop
  <1> QED
    BY <1>2, <1>3, <1>4, <1>5 DEF CallerStep

LEMMA TaskImplements ==
  ASSUME IInv, NEW s \in Sends, ServerTakes(s) \/ TaskEnds(s)
  PROVE  H!Next
  <1>1. HandoffState[s] = "active" /\ HandoffCall' = HandoffCall
    BY DEF ServerTakes, TaskEnds, FinishTask, HandoffState, HandoffCall
  <1>2. CASE ServerTakes(s)
    BY <1>1, <1>2 DEF ServerTakes, HandoffState, H!Next, H!Take
  <1>3. CASE TaskEnds(s)
    <2>1. PICK ended \in TaskResult : FinishTask(s, ended)
      BY <1>3 DEF TaskEnds
    <2>2. HandoffState' = [HandoffState EXCEPT ![s] = "over"]
      BY <2>1, CallsOfInv, TaskStep, Kinds DEF FinishTask
    <2> QED
      BY <1>1, <2>1, <2>2 DEF FinishTask, H!Next, H!Finish
  <1> QED
    BY <1>2, <1>3

LEMMA StepImplements == IInv /\ [Next]_vars => [H!Next]_(H!vars)
  <1> SUFFICES ASSUME IInv, [Next]_vars PROVE [H!Next]_(H!vars)
    OBVIOUS
  <1>1. CASE UNCHANGED vars
    BY <1>1 DEF vars, H!vars, HandoffCall, HandoffState
  <1>2. ASSUME NEW s \in Sends, DeadlinePasses(s)
        PROVE  UNCHANGED H!vars
    BY <1>2 DEF DeadlinePasses, H!vars, HandoffCall, HandoffState
  <1>3. ASSUME NEW s \in Sends, Call(s)
        PROVE  H!Next
    BY <1>3, CallImplements DEF Call
  <1> QED
    BY <1>1, <1>2, <1>3, CallerImplements, TaskImplements DEF Next

(* Transport::send of email-transport-lettre is a handoff: a report only      *)
(* after the server took the message, at most one handoff per call and none   *)
(* begun for a call that ended, at most MaxInFlight at once.                  *)
THEOREM LettreImplementsHandoff == Spec => ImplementsHandoff
  BY InitImplements, StepImplements, Invariance, PTL
     DEF Spec, ImplementsHandoff, H!Spec
===============================================================================
