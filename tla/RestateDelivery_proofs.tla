------------------------ MODULE RestateDelivery_proofs ------------------------
(***************************************************************************)
(* What holds of queued email for any emails, sends and runs.  The worker  *)
(* only moves an invocation forward (Forward), so that what an earlier     *)
(* answer told a caller stays true; Restate's memory of a key is what      *)
(* keeps its invocations from overlapping; the key in every call of the    *)
(* worker is what keeps the provider from sending twice.                   *)
(***************************************************************************)
EXTENDS RestateDelivery, FiniteSetTheorems, TLAPS

(* An accepted request is bound to an invocation of its own email. *)
Bound ==
    \A a \in Attempts : request[a] = "accepted" =>
        boundTo[a] \in Invocations /\ inv[boundTo[a]].msg = a[1]

(* Restate remembers, for a key, an invocation of its email, and every one  *)
(* that is not over.                                                        *)
Remembered ==
    /\ \A m \in Msgs : known[m] # NoInvocation => inv[known[m]].msg = m
    /\ \A i \in Invocations :
         plan[inv[i].msg].keyed /\ inv[i].phase # "done" => known[inv[i].msg] = i

(* The journal has the result of an invocation that was journaled, and a     *)
(* success was the provider's.                                              *)
Journaled ==
    \A i \in Invocations :
        /\ inv[i].journal # NoCode <=> inv[i].phase \in {"journaled", "done"}
        /\ inv[i].journal = Success => \E c \in taken : c.inv = i

(* The worker passes on the key of the plan, and the provider honors it. *)
KeysKept ==
    /\ \A c \in calls \cup taken : c.keyed = plan[c.msg].keyed
    /\ KeyCapable => \A c, d \in delivered : plan[c.msg].keyed /\ c.msg = d.msg => c = d

(* What a caller was told of an invocation is so, and stays so. *)
Told(a) ==
    /\ outcome[a] = "ok" =>
         /\ request[a] = "accepted"
         /\ plan[a[1]].mode = "sent" => inv[boundTo[a]].journal = Success
    /\ plan[a[1]].mode = "sent" /\ outcome[a] \in TerminalKinds =>
         \/ request[a] \in {"none", "refused"}
         \/ request[a] = "accepted" /\ inv[boundTo[a]].phase = "done" /\ inv[boundTo[a]].journal # Success

Answered == \A a \in Attempts : Told(a)

Inv == TypeOK /\ Bound /\ Remembered /\ Journaled /\ KeysKept /\ Answered

-------------------------------------------------------------------------------
LEMMA CodesAreNotZero ==
    /\ Success # NoCode
    /\ \A code \in TerminalCodes : code # NoCode /\ code # Success
    /\ \A kind \in ErrorKind \ RetryableKinds : TransportTerminalCode(kind) \in TerminalCodes
    /\ DecodeFailureCode \in TerminalCodes /\ UnknownTransportCode \in TerminalCodes
    BY DEF Success, NoCode, TerminalCodes, TransportTerminalCode, TerminalKinds, ErrorKind, RetryableKinds,
           DecodeFailureCode, UnknownTransportCode

LEMMA AnswersAreKinds ==
    /\ \A fault \in {"timeout", "other"} : MapReqwestError(fault) \in RetryableKinds
    /\ MapResponseDecodeError("invalid") \in RetryableKinds
    /\ \A code \in TerminalCodes : WorkerAnswer(code) \in ErrorKind
    /\ WorkerAnswer(Success) = "ok"
    /\ \A status \in RefusalStatus : MapErrorResponse(status, status, FALSE) \in ErrorKind
    /\ \A defect \in {"unserializable", "unbuildable", "delayed"} : LocalError(defect) \in ErrorKind
    BY CodesAreNotZero
       DEF MapReqwestError, MapResponseDecodeError, WorkerAnswer, MapErrorResponse, TerminalInvocationKind,
           IngressErrorKind, FromHttpStatus, RefusalStatus, LocalError, ErrorKind, RetryableKinds, TerminalKinds

LEMMA KindsAreApart ==
    /\ RetryableKinds \cap TerminalKinds = {}
    /\ "ok" \notin ErrorKind /\ "dropped" \notin ErrorKind /\ "none" \notin ErrorKind
    BY DEF ErrorKind, RetryableKinds, TerminalKinds

LEMMA Initially == Init => Inv
    <1> SUFFICES ASSUME Init PROVE Inv
        OBVIOUS
    <1>1. Invocations = {} /\ inv \in Seq(Invocation)
        BY DEF Init, Invocations
    <1>2. TypeOK
        BY <1>1 DEF Init, TypeOK
    <1>3. Bound /\ Remembered /\ Journaled /\ KeysKept
        BY <1>1 DEF Init, Bound, Remembered, Journaled, KeysKept
    <1>4. Answered
        BY KindsAreApart DEF Init, Answered, Told, ErrorKind
    <1> QED  BY <1>2, <1>3, <1>4 DEF Inv

-------------------------------------------------------------------------------
(* The caller. *)

LEMMA CallerKeeps ==
    ASSUME Inv, NEW a \in Attempts, NEW value \in ErrorKind \cup {"ok", "dropped"},
           Ends(a, value), UNCHANGED <<plan, request, boundTo, restate, provider>>,
           value = "ok" => /\ request[a] = "accepted"
                           /\ plan[a[1]].mode = "sent" => inv[boundTo[a]].journal = Success,
           value \in TerminalKinds /\ plan[a[1]].mode = "sent" =>
             \/ request[a] \in {"none", "refused"}
             \/ request[a] = "accepted" /\ inv[boundTo[a]].phase = "done" /\ inv[boundTo[a]].journal # Success
    PROVE  Inv'
    <1> USE DEF restate, provider
    <1>1. /\ outcome' \in [Attempts -> ErrorKind \cup {"none", "ok", "dropped"}]
          /\ outcome'[a] = value /\ \A b \in Attempts \ {a} : outcome'[b] = outcome[b]
        BY DEF Inv, TypeOK, Ends
    <1>2. UNCHANGED Invocations
        BY DEF Invocations
    <1>3. TypeOK'
        BY <1>1, <1>2 DEF Inv, TypeOK, ProviderCall
    <1>4. Bound' /\ Remembered' /\ Journaled' /\ KeysKept'
        BY <1>2 DEF Inv, Bound, Remembered, Journaled, KeysKept
    <1>5. Answered'
        BY <1>1 DEF Inv, Answered, Told
    <1> QED  BY <1>3, <1>4, <1>5 DEF Inv

LEMMA CallerStepKeeps ==
    ASSUME Inv, NEW a \in Attempts,
           \/ StopWaiting(a) \/ ReceiveAccepted(a) \/ ReceiveWorkerAnswer(a)
           \/ ReceiveUnreadable(a) \/ ReceiveRefusal(a)
    PROVE  Inv'
    <1>1. CASE StopWaiting(a)
        <2>1. PICK value \in RetryableKinds \cup {"dropped"} : Ends(a, value)
            BY <1>1, AnswersAreKinds DEF StopWaiting
        <2> QED  BY <1>1, <2>1, CallerKeeps, KindsAreApart DEF StopWaiting, ErrorKind
    <1>2. CASE ReceiveAccepted(a)
        BY <1>2, CallerKeeps, KindsAreApart DEF ReceiveAccepted, ErrorKind
    <1>3. CASE ReceiveWorkerAnswer(a)
        <2> DEFINE i == boundTo[a]
        <2>1. inv[i].phase = "done" /\ request[a] = "accepted" /\ Ends(a, WorkerAnswer(inv[i].journal))
            BY <1>3 DEF ReceiveWorkerAnswer
        <2>2. inv[i] \in Invocation /\ inv[i].journal # NoCode
            BY <2>1 DEF Inv, TypeOK, Bound, Journaled, Invocations
        <2>3. inv[i].journal \in TerminalCodes \cup {Success}
            BY <2>2 DEF Invocation
        <2>4. CASE inv[i].journal = Success
            BY <1>3, <2>1, <2>4, CallerKeeps, AnswersAreKinds, KindsAreApart DEF ReceiveWorkerAnswer, ErrorKind
        <2>5. CASE inv[i].journal \in TerminalCodes
            <3>1. WorkerAnswer(inv[i].journal) \in ErrorKind /\ inv[i].journal # Success
                BY <2>5, AnswersAreKinds, CodesAreNotZero
            <3> QED  BY <1>3, <2>1, <3>1, CallerKeeps, KindsAreApart DEF ReceiveWorkerAnswer
        <2> QED  BY <2>3, <2>4, <2>5
    <1>4. CASE ReceiveUnreadable(a)
        BY <1>4, CallerKeeps, AnswersAreKinds, KindsAreApart DEF ReceiveUnreadable, ErrorKind
    <1>5. CASE ReceiveRefusal(a)
        <2>1. PICK kind \in ErrorKind : Ends(a, kind)
            BY <1>5, AnswersAreKinds DEF ReceiveRefusal
        <2> QED  BY <1>5, <2>1, CallerKeeps, KindsAreApart DEF ReceiveRefusal
    <1> QED  BY <1>1, <1>2, <1>3, <1>4, <1>5

LEMMA RefuseLocallyKeeps ==
    ASSUME Inv, NEW m \in Msgs, NEW n \in 1..MaxAttempts, RefuseLocally(m, n)
    PROVE  Inv'
    <1>1. <<m, n>> \in Attempts /\ request[<<m, n>>] = "none"
        BY DEF Attempts, RefuseLocally, MaySend
    <1>2. plan[m].defect \in {"unserializable", "unbuildable", "delayed"}
        BY DEF Inv, TypeOK, Plan, RefuseLocally
    <1>3. LocalError(plan[m].defect) \in ErrorKind
        BY <1>2, AnswersAreKinds
    <1> QED  BY <1>1, <1>3, CallerKeeps, KindsAreApart DEF RefuseLocally

(* A request that is not accepted yet. *)
LEMMA RequestKeeps ==
    ASSUME Inv, NEW a \in Attempts, NEW fate \in {"sent", "refused", "lost"}, request[a] \in {"none", "sent"},
           request' = [request EXCEPT ![a] = fate], UNCHANGED <<plan, boundTo, outcome, restate, provider>>,
           plan[a[1]].mode = "sent" /\ fate # "refused" => outcome[a] \notin TerminalKinds
    PROVE  Inv'
    <1> USE DEF restate, provider
    <1>1. /\ request' \in [Attempts -> {"none", "sent", "accepted", "refused", "lost"}]
          /\ request'[a] = fate /\ \A b \in Attempts \ {a} : request'[b] = request[b]
        BY DEF Inv, TypeOK
    <1>2. UNCHANGED Invocations
        BY DEF Invocations
    <1>3. TypeOK'
        BY <1>1, <1>2 DEF Inv, TypeOK, ProviderCall
    <1>4. Bound' /\ Remembered' /\ Journaled' /\ KeysKept'
        BY <1>1, <1>2 DEF Inv, Bound, Remembered, Journaled, KeysKept
    <1>5. Answered'
        BY <1>1 DEF Inv, Answered, Told
    <1> QED  BY <1>3, <1>4, <1>5 DEF Inv

LEMMA SubmitKeeps ==
    ASSUME Inv, NEW m \in Msgs, NEW n \in 1..MaxAttempts, Submit(m, n)
    PROVE  Inv'
    <1>1. <<m, n>> \in Attempts /\ request[<<m, n>>] = "none" /\ outcome[<<m, n>>] = "none"
        BY DEF Attempts, Submit, MaySend
    <1>2. outcome[<<m, n>>] \notin TerminalKinds
        BY <1>1, KindsAreApart DEF ErrorKind
    <1> QED  BY <1>1, <1>2, RequestKeeps DEF Submit

LEMMA FailRequestKeeps ==
    ASSUME Inv, NEW a \in Attempts, FailRequest(a)
    PROVE  Inv'
    <1>1. plan[a[1]].mode = "sent" => outcome[a] \notin TerminalKinds
        BY DEF Inv, Answered, Told, FailRequest
    <1>2. PICK fate \in {"refused", "lost"} : request' = [request EXCEPT ![a] = fate]
        BY DEF FailRequest
    <1> QED  BY <1>1, <1>2, RequestKeeps DEF FailRequest

-------------------------------------------------------------------------------
(* Restate. *)

LEMMA InvocationTyped ==
    ASSUME TypeOK, NEW i \in Invocations
    PROVE  /\ inv[i] \in Invocation /\ inv[i].msg \in Msgs
           /\ inv[i].runs \in 0..MaxRuns /\ inv[i].runs \in Nat
    <1>1. inv[i] \in Invocation
        BY DEF TypeOK, Invocations
    <1> QED  BY <1>1, BoundsAssumption DEF Invocation

LEMMA CallsRemain ==
    ASSUME TypeOK, Invocations \subseteq Invocations',
           \A i \in Invocations : inv'[i].msg = inv[i].msg /\ inv'[i].runs \in Nat /\ inv'[i].runs >= inv[i].runs
    PROVE  calls \cup taken \subseteq UNION {ProviderCall(i) : i \in Invocations}'
    <1>1. ASSUME NEW i \in Invocations
          PROVE  ProviderCall(i) \subseteq ProviderCall(i)'
        BY InvocationTyped DEF ProviderCall
    <1> QED  BY <1>1 DEF TypeOK

LEMMA AcceptKeeps ==
    ASSUME Inv, NEW a \in Attempts, Accept(a)
    PROVE  Inv'
    <1> DEFINE m == a[1]
               replay == HeaderKey(m) /\ known[m] # NoInvocation
               id == IF replay THEN known[m] ELSE Len(inv) + 1
    <1>1. /\ request[a] = "sent" /\ request' = [request EXCEPT ![a] = "accepted"]
          /\ boundTo' = [boundTo EXCEPT ![a] = id]
          /\ inv' = IF replay THEN inv ELSE Append(inv, NewInvocation(m))
          /\ known' = IF HeaderKey(m) THEN [known EXCEPT ![m] = id] ELSE known
          /\ UNCHANGED <<plan, outcome, calls, taken, delivered>>
        BY DEF Accept, provider
    <1>2. m \in Msgs /\ plan[m].keyed \in BOOLEAN
        BY DEF Attempts, Inv, TypeOK, Plan
    <1>3. inv \in Seq(Invocation) /\ Len(inv) \in Nat
        BY DEF Inv, TypeOK
    <1>4. NewInvocation(m) \in Invocation
        BY <1>2, BoundsAssumption DEF NewInvocation, Invocation
    <1>5. /\ inv' \in Seq(Invocation) /\ Len(inv') \in Nat
          /\ Invocations' = IF replay THEN Invocations ELSE Invocations \cup {id}
          /\ \A i \in Invocations : inv'[i] = inv[i] /\ i \in Invocations'
          /\ ~replay => id \notin Invocations /\ inv'[id] = NewInvocation(m)
        <2>1. CASE replay
            BY <1>1, <1>3, <2>1 DEF Invocations
        <2>2. CASE ~replay
            <3>1. inv' = Append(inv, NewInvocation(m))
                BY <1>1, <2>2
            <3>2. /\ inv' \in Seq(Invocation) /\ Len(inv') = Len(inv) + 1
                  /\ inv'[Len(inv) + 1] = NewInvocation(m)
                  /\ \A i \in 1..Len(inv) : inv'[i] = inv[i]
                BY <1>3, <1>4, <3>1
            <3>3. Invocations' = Invocations \cup {Len(inv) + 1} /\ Len(inv) + 1 \notin Invocations
                BY <1>3, <3>2 DEF Invocations
            <3>4. id = Len(inv) + 1
                BY <2>2
            <3>5. \A i \in Invocations : inv'[i] = inv[i] /\ i \in Invocations'
                BY <3>2, <3>3 DEF Invocations
            <3> QED  BY <1>3, <2>2, <3>2, <3>3, <3>4, <3>5
        <2> QED  BY <2>1, <2>2
    <1>6. id \in Invocations' /\ inv'[id].msg = m
        <2>1. CASE replay
            <3>1. known[m] \in Invocations /\ inv[known[m]].msg = m
                BY <1>2, <2>1 DEF Inv, TypeOK, Remembered
            <3> QED  BY <1>5, <2>1, <3>1
        <2>2. CASE ~replay
            BY <1>5, <2>2 DEF NewInvocation
        <2> QED  BY <2>1, <2>2
    <1> HIDE DEF id, replay
    <1>7. TypeOK'
        <2>1. TypeOK
            BY DEF Inv
        <2>2. (calls \cup taken)' \subseteq UNION {ProviderCall(i) : i \in Invocations}'
            <3>1. \A i \in Invocations : inv[i].runs \in Nat
                BY <2>1, InvocationTyped
            <3>2. calls \cup taken \subseteq UNION {ProviderCall(i) : i \in Invocations}'
                BY <1>5, <2>1, <3>1, CallsRemain
            <3> QED  BY <1>1, <3>2
        <2>3. boundTo' \in [Attempts -> Invocations' \cup {NoInvocation}]
            BY <1>1, <1>5, <1>6 DEF Inv, TypeOK
        <2>4. known' \in [Msgs -> Invocations' \cup {NoInvocation}]
            BY <1>1, <1>5, <1>6 DEF Inv, TypeOK
        <2> QED  BY <1>1, <1>5, <2>2, <2>3, <2>4 DEF Inv, TypeOK
    <1>8. Bound'
        BY <1>1, <1>5, <1>6 DEF Inv, TypeOK, Bound
    <1>9. \A b \in Msgs : known'[b] = IF b = m /\ plan[m].keyed THEN id ELSE known[b]
        BY <1>1, <1>2 DEF Inv, TypeOK, HeaderKey
    <1>10. \A b \in Msgs : known[b] # NoInvocation => known[b] \in Invocations
        BY DEF Inv, TypeOK
    <1>11. Remembered'
        <2>1. \A b \in Msgs : known'[b] # NoInvocation => inv'[known'[b]].msg = b
            BY <1>5, <1>6, <1>9, <1>10 DEF Inv, Remembered
        <2>2. ASSUME NEW i \in Invocations', plan[inv'[i].msg].keyed, inv'[i].phase # "done"
              PROVE  known'[inv'[i].msg] = i
            <3>1. CASE i \in Invocations
                <4>1. inv'[i] = inv[i] /\ inv[i].msg \in Msgs /\ known[inv[i].msg] = i
                    BY <1>5, <2>2, <3>1, InvocationTyped DEF Inv, Remembered
                <4>2. i # NoInvocation
                    BY <3>1 DEF Invocations, NoInvocation
                <4>3. inv[i].msg = m => replay /\ id = i
                    BY <2>2, <4>1, <4>2 DEF replay, id, HeaderKey
                <4> QED  BY <1>9, <4>1, <4>3
            <3>2. CASE i \notin Invocations
                <4>1. ~replay /\ i = id /\ inv'[i].msg = m
                    BY <1>5, <1>6, <3>2
                <4> QED  BY <1>2, <1>9, <2>2, <4>1
            <3> QED  BY <3>1, <3>2
        <2> QED  BY <1>1, <2>1, <2>2 DEF Remembered
    <1>12. Journaled'
        <2>1. \A i \in Invocations' : \/ i \in Invocations /\ inv'[i] = inv[i]
                                      \/ inv'[i] = NewInvocation(m)
            BY <1>5
        <2>2. NewInvocation(m).phase = "ready" /\ NewInvocation(m).journal = NoCode
            BY DEF NewInvocation
        <2> QED  BY <1>1, <2>1, <2>2, CodesAreNotZero DEF Inv, Journaled
    <1>13. KeysKept'
        BY <1>1 DEF Inv, KeysKept
    <1>14. Answered'
        <2>1. \A b \in Attempts \ {a} : request'[b] = request[b] /\ boundTo'[b] = boundTo[b]
            BY <1>1 DEF Inv, TypeOK
        <2>2. \A b \in Attempts \ {a} : request[b] = "accepted" => inv'[boundTo[b]] = inv[boundTo[b]]
            BY <1>5 DEF Inv, Bound
        <2>3. outcome[a] # "ok" /\ (plan[a[1]].mode = "sent" => outcome[a] \notin TerminalKinds)
            BY <1>1 DEF Inv, Answered, Told
        <2>4. ASSUME NEW b \in Attempts \ {a}
              PROVE  Told(b)'
            <3>1. Told(b)
                BY DEF Inv, Answered, Told
            <3>2. /\ plan'[b[1]] = plan[b[1]] /\ outcome'[b] = outcome[b]
                  /\ request'[b] = request[b] /\ boundTo'[b] = boundTo[b]
                BY <1>1, <2>1
            <3>3. request[b] = "accepted" => inv'[boundTo'[b]] = inv[boundTo[b]]
                BY <2>2, <3>2
            <3> QED  BY <3>1, <3>2, <3>3 DEF Told
        <2>5. Told(a)'
            BY <1>1, <2>3 DEF Told
        <2> QED  BY <2>4, <2>5 DEF Answered
    <1> QED  BY <1>7, <1>8, <1>11, <1>12, <1>13, <1>14 DEF Inv

LEMMA ForgetKeyKeeps ==
    ASSUME Inv, NEW m \in Msgs, ForgetKey(m)
    PROVE  Inv'
    <1>1. /\ known[m] \in Invocations /\ inv[known[m]].phase = "done"
          /\ known' = [known EXCEPT ![m] = NoInvocation]
          /\ UNCHANGED <<plan, request, boundTo, outcome, inv, calls, taken, delivered>>
        BY DEF ForgetKey, Inv, TypeOK, provider
    <1>2. UNCHANGED Invocations
        BY <1>1 DEF Invocations
    <1>3. TypeOK'
        BY <1>1, <1>2 DEF Inv, TypeOK, ProviderCall
    <1>4. Remembered'
        <2>1. \A b \in Msgs \ {m} : known'[b] = known[b]
            BY <1>1 DEF Inv, TypeOK
        <2>2. known'[m] = NoInvocation
            BY <1>1 DEF Inv, TypeOK
        <2>3. \A i \in Invocations : inv[i].msg \in Msgs
            BY InvocationTyped DEF Inv
        <2>4. \A i \in Invocations : plan[inv[i].msg].keyed /\ inv[i].phase # "done" => inv[i].msg # m
            BY <1>1 DEF Inv, Remembered
        <2> QED  BY <1>1, <1>2, <2>1, <2>2, <2>3, <2>4 DEF Inv, Remembered
    <1>5. Bound' /\ Journaled' /\ KeysKept' /\ Answered'
        BY <1>1, <1>2 DEF Inv, Bound, Journaled, KeysKept, Answered, Told
    <1> QED  BY <1>3, <1>4, <1>5 DEF Inv

-------------------------------------------------------------------------------
(* The worker.  Every step of it moves one invocation forward. *)

Forward(i, r) ==
    /\ r \in Invocation
    /\ r.msg = inv[i].msg /\ r.runs >= inv[i].runs
    /\ inv[i].phase # "done"
    /\ inv[i].journal # NoCode => r.journal = inv[i].journal /\ r.runs = inv[i].runs
    /\ r.journal # NoCode <=> r.phase \in {"journaled", "done"}
    /\ r.journal = Success => \E c \in taken : c.inv = i

LEMMA ForwardKeeps ==
    ASSUME Inv, NEW i \in Invocations, NEW r, Forward(i, r),
           inv' = [inv EXCEPT ![i] = r],
           calls' \subseteq calls \cup {[CallOf(i, r.runs) EXCEPT !.run = n] : n \in 1..r.runs},
           UNCHANGED <<plan, request, boundTo, outcome, known, taken, delivered>>
    PROVE  Inv'
    <1>1. /\ inv' \in Seq(Invocation) /\ Invocations' = Invocations /\ inv'[i] = r
          /\ \A j \in Invocations \ {i} : inv'[j] = inv[j]
        BY DEF Inv, TypeOK, Forward, Invocations
    <1>2. TypeOK
        BY DEF Inv
    <1>3. inv[i].msg \in Msgs /\ r.runs \in Nat /\ r.msg = inv[i].msg /\ r.runs >= inv[i].runs
        BY <1>2, InvocationTyped, BoundsAssumption DEF Forward, Invocation
    <1>4. \A j \in Invocations : inv'[j].msg = inv[j].msg /\ inv'[j].runs \in Nat /\ inv'[j].runs >= inv[j].runs
        BY <1>1, <1>2, <1>3, InvocationTyped
    <1>5. /\ calls' \subseteq UNION {ProviderCall(j) : j \in Invocations}'
          /\ taken \subseteq UNION {ProviderCall(j) : j \in Invocations}'
        <2>1. calls \cup taken \subseteq UNION {ProviderCall(j) : j \in Invocations}'
            BY <1>1, <1>2, <1>4, CallsRemain
        <2>2. {[CallOf(i, r.runs) EXCEPT !.run = n] : n \in 1..r.runs} \subseteq ProviderCall(i)'
            <3>1. plan[inv[i].msg].keyed \in BOOLEAN
                BY <1>2, <1>3 DEF TypeOK, Plan
            <3> QED  BY <1>1, <1>3, <3>1 DEF CallOf, ForwardedKey, ProviderCall
        <2> QED  BY <1>1, <2>1, <2>2
    <1>6. TypeOK'
        BY <1>1, <1>2, <1>5 DEF TypeOK
    <1>7. Bound' /\ Remembered'
        BY <1>1, <1>3 DEF Inv, Bound, Remembered, Forward, TypeOK
    <1>8. Journaled'
        BY <1>1 DEF Inv, Journaled, Forward
    <1>9. KeysKept'
        BY DEF Inv, KeysKept, CallOf, ForwardedKey
    <1>10. Answered'
        <2> SUFFICES ASSUME NEW a \in Attempts PROVE Told(a)'
            BY DEF Answered
        <2>1. Told(a) /\ (request[a] = "accepted" => boundTo[a] \in Invocations)
            BY DEF Inv, Answered, Bound
        <2>2. CASE request[a] = "accepted" /\ boundTo[a] = i
            BY <1>1, <2>1, <2>2, CodesAreNotZero DEF Told, Forward
        <2>3. CASE request[a] = "accepted" /\ boundTo[a] # i
            BY <1>1, <2>1, <2>3 DEF Told
        <2>4. CASE request[a] # "accepted"
            BY <2>1, <2>4 DEF Told
        <2> QED  BY <2>2, <2>3, <2>4
    <1> QED  BY <1>6, <1>7, <1>8, <1>9, <1>10 DEF Inv

(* How the worker's steps are such moves. *)
LEMMA AdvanceIsForward ==
    ASSUME Inv, NEW i \in Invocations, NEW phase \in {"ready", "journaled", "done"},
           NEW code \in TerminalCodes \cup {NoCode, Success}, Advance(i, phase, code),
           inv[i].phase # "done", inv[i].journal # NoCode => code = inv[i].journal,
           code # NoCode <=> phase \in {"journaled", "done"},
           code = Success => \E c \in taken : c.inv = i,
           calls' \subseteq calls, UNCHANGED <<plan, request, boundTo, outcome, known, taken, delivered>>
    PROVE  Inv'
    <1> DEFINE r == [inv[i] EXCEPT !.phase = phase, !.journal = code]
    <1>1. inv[i] \in Invocation /\ inv \in Seq(Invocation) /\ inv[i].runs \in Nat
        BY InvocationTyped DEF Inv, TypeOK
    <1>2. r \in Invocation /\ r.msg = inv[i].msg /\ r.runs = inv[i].runs /\ r.phase = phase /\ r.journal = code
        BY <1>1 DEF Invocation
    <1>3. inv' = [inv EXCEPT ![i] = r]
        BY <1>1 DEF Advance, Invocation
    <1> HIDE DEF r
    <1>4. Forward(i, r)
        BY <1>1, <1>2 DEF Forward
    <1> QED  BY <1>3, <1>4, ForwardKeeps

LEMMA StartCallKeeps ==
    ASSUME Inv, NEW i \in Invocations, StartCall(i)
    PROVE  Inv'
    <1> DEFINE r == [inv[i] EXCEPT !.phase = "calling", !.runs = @ + 1]
    <1>1. inv[i] \in Invocation /\ inv \in Seq(Invocation) /\ inv[i].runs \in 0..MaxRuns /\ inv[i].runs < MaxRuns
        BY InvocationTyped DEF Inv, TypeOK, StartCall
    <1>2. /\ r \in Invocation /\ r.msg = inv[i].msg /\ r.runs = inv[i].runs + 1
          /\ r.phase = "calling" /\ r.journal = inv[i].journal
        <2>1. inv[i].runs + 1 \in 0..MaxRuns
            BY <1>1, BoundsAssumption
        <2> QED  BY <1>1, <2>1 DEF Invocation
    <1>3. inv' = [inv EXCEPT ![i] = r]
        BY <1>1 DEF StartCall, Invocation
    <1>4. calls' = calls \cup {[CallOf(i, r.runs) EXCEPT !.run = r.runs]}
        BY <1>2 DEF StartCall, CallOf
    <1>5. inv[i].journal = NoCode /\ inv[i].phase = "ready"
        BY DEF Inv, Journaled, StartCall
    <1> HIDE DEF r
    <1>6. Forward(i, r)
        BY <1>1, <1>2, <1>5, BoundsAssumption, CodesAreNotZero DEF Forward
    <1>7. r.runs \in 1..r.runs
        BY <1>1, <1>2, BoundsAssumption
    <1> QED  BY <1>3, <1>4, <1>6, <1>7, ForwardKeeps DEF StartCall

LEMMA RunFailsKeeps ==
    ASSUME Inv, NEW i \in Invocations, NEW kind \in ErrorKind, RunFails(i, kind), inv[i].phase = "calling",
           calls' \subseteq calls, UNCHANGED <<plan, request, boundTo, outcome, known, taken, delivered>>
    PROVE  Inv'
    <1>1. inv[i].journal = NoCode
        BY DEF Inv, Journaled
    <1>2. CASE IsRetryable(kind) /\ Advance(i, "ready", NoCode)
        BY <1>1, <1>2, AdvanceIsForward, CodesAreNotZero
    <1>3. CASE ~IsRetryable(kind) /\ Advance(i, "journaled", TransportTerminalCode(kind))
        <2>1. TransportTerminalCode(kind) \in TerminalCodes
            BY <1>3, CodesAreNotZero DEF IsRetryable
        <2> QED  BY <1>1, <1>3, <2>1, AdvanceIsForward, CodesAreNotZero
    <1> QED  BY <1>2, <1>3 DEF RunFails

LEMMA WorkerKeeps ==
    ASSUME Inv, NEW i \in Invocations, WorkerStep(i) \/ WorkerFault(i)
    PROVE  Inv'
    <1>1. inv[i].phase \in {"ready", "calling"} => inv[i].journal = NoCode
        BY DEF Inv, Journaled
    <1>2. CASE StartCall(i)
        BY <1>2, StartCallKeeps
    <1>3. CASE JournalSuccess(i)
        <2>1. \E c \in taken : c.inv = i
            BY <1>3 DEF JournalSuccess, CurrentCall, CallOf
        <2> QED  BY <1>1, <1>3, <2>1, AdvanceIsForward, CodesAreNotZero DEF JournalSuccess, provider
    <1>4. CASE Complete(i)
        <2>1. inv[i].journal \in TerminalCodes \cup {NoCode, Success} /\ inv[i].journal # NoCode
            BY <1>4, InvocationTyped DEF Inv, Journaled, Complete, Invocation
        <2>2. inv[i].journal = Success => \E c \in taken : c.inv = i
            BY DEF Inv, Journaled
        <2> QED  BY <1>4, <2>1, <2>2, AdvanceIsForward DEF Complete, provider
    <1>5. CASE DecodeFails(i)
        BY <1>1, <1>5, AdvanceIsForward, CodesAreNotZero DEF DecodeFails, provider
    <1>6. CASE LookupFails(i)
        BY <1>1, <1>6, AdvanceIsForward, CodesAreNotZero DEF LookupFails, provider
    <1>7. CASE ProviderRejects(i)
        <2>1. PICK kind \in ErrorKind : RunFails(i, kind)
            BY <1>7 DEF ProviderRejects, ErrorKind, RetryableKinds, TerminalKinds
        <2> QED  BY <1>7, <2>1, RunFailsKeeps DEF ProviderRejects
    <1>8. CASE CallUncertain(i)
        <2>1. PICK kind \in ErrorKind : RunFails(i, kind)
            BY <1>8 DEF CallUncertain, ErrorKind, RetryableKinds, TerminalKinds
        <2> QED  BY <1>8, <2>1, RunFailsKeeps DEF CallUncertain, provider
    <1>9. CASE CrashBeforeJournal(i)
        BY <1>1, <1>9, AdvanceIsForward, CodesAreNotZero DEF CrashBeforeJournal, provider
    <1> QED  BY <1>2, <1>3, <1>4, <1>5, <1>6, <1>7, <1>8, <1>9 DEF WorkerStep, WorkerFault

-------------------------------------------------------------------------------
(* The provider. *)

LEMMA TakenKeeps ==
    ASSUME Inv, NEW c \in calls, ProviderTakes(c)
    PROVE  Inv'
    <1>1. /\ calls' = calls \ {c} /\ taken' = taken \cup {c}
          /\ delivered' = delivered \/ delivered' = delivered \cup {c}
          /\ UNCHANGED <<plan, request, boundTo, outcome, inv, known>>
        BY DEF ProviderTakes, restate
    <1>2. UNCHANGED Invocations
        BY <1>1 DEF Invocations
    <1>3. TypeOK'
        BY <1>1, <1>2 DEF Inv, TypeOK, ProviderCall
    <1>4. Bound' /\ Remembered' /\ Journaled' /\ Answered'
        BY <1>1, <1>2 DEF Inv, Bound, Remembered, Journaled, Answered, Told
    <1>5. KeysKept'
        <2>1. \A d \in (calls \cup taken)' : d.keyed = plan'[d.msg].keyed
            BY <1>1 DEF Inv, KeysKept
        <2>2. ASSUME KeyCapable, NEW d \in delivered', NEW e \in delivered', plan'[d.msg].keyed, d.msg = e.msg
              PROVE  d = e
            <3>1. \A f \in delivered : f.keyed = plan[f.msg].keyed
                BY DEF Inv, TypeOK, KeysKept
            <3>2. c.keyed = plan[c.msg].keyed
                BY DEF Inv, KeysKept
            <3>3. CASE \E f \in delivered : f.keyed /\ f.msg = c.msg /\ c.keyed
                <4>1. delivered' = delivered
                    BY <2>2, <3>3 DEF ProviderTakes
                <4> QED  BY <1>1, <2>2, <4>1 DEF Inv, KeysKept
            <3>4. CASE ~\E f \in delivered : f.keyed /\ f.msg = c.msg /\ c.keyed
                BY <1>1, <2>2, <3>1, <3>2, <3>4 DEF Inv, KeysKept
            <3> QED  BY <3>3, <3>4
        <2> QED  BY <2>1, <2>2 DEF KeysKept
    <1> QED  BY <1>3, <1>4, <1>5 DEF Inv

LEMMA StepKeeps == Inv /\ [Next]_vars => Inv'
    <1> SUFFICES ASSUME Inv, [Next]_vars PROVE Inv'
        OBVIOUS
    <1>1. ASSUME NEW m \in Msgs, NEW n \in 1..MaxAttempts, RefuseLocally(m, n) \/ Submit(m, n)
          PROVE  Inv'
        BY <1>1, RefuseLocallyKeeps, SubmitKeeps
    <1>2. ASSUME NEW a \in Attempts,
                 \/ StopWaiting(a) \/ ReceiveAccepted(a) \/ ReceiveWorkerAnswer(a) \/ ReceiveUnreadable(a)
                 \/ ReceiveRefusal(a) \/ Accept(a) \/ FailRequest(a)
          PROVE  Inv'
        BY <1>2, CallerStepKeeps, AcceptKeeps, FailRequestKeeps
    <1>3. ASSUME NEW m \in Msgs, ForgetKey(m)
          PROVE  Inv'
        BY <1>3, ForgetKeyKeeps
    <1>4. ASSUME NEW i \in Invocations, WorkerStep(i) \/ WorkerFault(i)
          PROVE  Inv'
        BY <1>4, WorkerKeeps
    <1>5. ASSUME NEW c \in calls, ProviderTakes(c)
          PROVE  Inv'
        BY <1>5, TakenKeeps
    <1>6. CASE UNCHANGED vars
        <2>1. UNCHANGED Invocations
            BY <1>6 DEF vars, restate, Invocations
        <2>2. TypeOK'
            BY <1>6, <2>1 DEF vars, restate, provider, Inv, TypeOK, ProviderCall
        <2> QED  BY <1>6, <2>1, <2>2
                 DEF vars, restate, provider, Inv, Bound, Remembered, Journaled, KeysKept, Answered, Told
    <1> QED  BY <1>1, <1>2, <1>3, <1>4, <1>5, <1>6 DEF Next

-------------------------------------------------------------------------------
(* The invariant holds of every queued email. *)
THEOREM Invariance == Spec => []Inv
    BY Initially, StepKeeps, PTL DEF Spec

(* Requests, invocations, provider calls and answers are what they can be: a  *)
(* provider call is always one of a run that was counted.                     *)
THEOREM TypeCorrect == Spec => []TypeOK
    <1>1. Inv => TypeOK
        BY DEF Inv
    <1> QED  BY <1>1, Invariance, PTL

(* ADR 0004: one email at most goes out for a key that the provider honors,   *)
(* for any number of sends, runs, crashes and late calls.                     *)
THEOREM OneEmailPerKey == Spec => []AtMostOneEmailPerKey
    <1>1. Inv => AtMostOneEmailPerKey
        <2> SUFFICES ASSUME Inv, KeyCapable, NEW m \in Msgs, plan[m].keyed
                     PROVE  Cardinality(EmailsOf(m)) <= 1
            BY DEF AtMostOneEmailPerKey
        <2>1. CASE EmailsOf(m) = {}
            BY <2>1, FS_EmptySet
        <2>2. CASE EmailsOf(m) # {}
            <3>1. PICK c : c \in EmailsOf(m)
                BY <2>2
            <3>2. EmailsOf(m) = {c}
                BY <3>1 DEF EmailsOf, Inv, KeysKept
            <3> QED  BY <3>2, FS_Singleton
        <2> QED  BY <2>1, <2>2
    <1> QED  BY <1>1, Invariance, PTL

(* Repeated requests of a keyed send never overlap in Restate. *)
THEOREM InvocationsDoNotOverlap == Spec => []OneLiveInvocationPerKey
    <1>1. Inv => OneLiveInvocationPerKey
        BY DEF Inv, Remembered, OneLiveInvocationPerKey, InvocationsOf
    <1> QED  BY <1>1, Invariance, PTL

(* A report is true: of the invocation it names, of the message it says was   *)
(* taken.                                                                     *)
THEOREM ReportsAreTrue == Spec => []SuccessIsReal
    <1>1. Inv => SuccessIsReal
        BY DEF Inv, Bound, Journaled, Answered, Told, SuccessIsReal, InvocationsOf, Attempts
    <1> QED  BY <1>1, Invariance, PTL

(* A worker's failure that a caller takes for the end is the end. *)
THEOREM TerminalIsTheEnd == Spec => []TerminalMeansOver
    <1>1. Inv => TerminalMeansOver
        BY DEF Inv, Answered, Told, TerminalMeansOver
    <1> QED  BY <1>1, Invariance, PTL

(* A result in the journal is not replaced, nor is the provider called again  *)
(* for it.                                                                    *)
THEOREM JournalStays == Spec => JournalIsFinal
    <1> DEFINE Kept(i) == inv[i].journal # NoCode => inv'[i].journal = inv[i].journal /\ inv'[i].runs = inv[i].runs
    <1>1. ASSUME Inv, [Next]_vars, NEW i \in Invocations
          PROVE  Kept(i)
        <2>1. CASE UNCHANGED inv
            BY <2>1
        <2>2. ASSUME NEW a \in Attempts, Accept(a)
              PROVE  Kept(i)
            <3>1. inv \in Seq(Invocation) /\ i \in 1..Len(inv)
                BY <1>1 DEF Inv, TypeOK, Invocations
            <3>2. inv' = inv \/ inv' = Append(inv, NewInvocation(a[1]))
                BY <2>2 DEF Accept
            <3> QED  BY <3>1, <3>2
        <2>3. ASSUME NEW j \in Invocations, WorkerStep(j) \/ WorkerFault(j)
              PROVE  Kept(i)
            <3>1. inv \in Seq(Invocation) /\ inv[i] \in Invocation /\ inv[j] \in Invocation
                  /\ i \in 1..Len(inv) /\ j \in 1..Len(inv)
                BY <1>1, InvocationTyped DEF Inv, TypeOK, Invocations
            <3>2. i # j => inv'[i] = inv[i]
                BY <2>3, <3>1
                   DEF WorkerStep, StartCall, JournalSuccess, Complete, WorkerFault, DecodeFails, LookupFails,
                       ProviderRejects, CallUncertain, CrashBeforeJournal, RunFails, Advance
            <3>3. ASSUME i = j, inv[i].journal # NoCode
                  PROVE  Kept(i)
                <4>1. inv[i].phase \in {"journaled", "done"}
                    BY <1>1, <3>3 DEF Inv, Journaled
                <4>2. Complete(i)
                    BY <2>3, <3>3, <4>1
                       DEF WorkerStep, StartCall, JournalSuccess, WorkerFault, DecodeFails, LookupFails,
                           ProviderRejects, CallUncertain, CrashBeforeJournal
                <4> QED  BY <3>1, <4>2 DEF Complete, Advance, Invocation
            <3> QED  BY <3>2, <3>3
        <2> QED  BY <1>1, <2>1, <2>2, <2>3
                 DEF Next, vars, restate, RefuseLocally, Submit, StopWaiting, ReceiveAccepted, ReceiveWorkerAnswer,
                     ReceiveUnreadable, ReceiveRefusal, FailRequest, ForgetKey, ProviderTakes
    <1>2. Inv /\ [Next]_vars =>
            [\A i \in Invocations : inv[i].journal # NoCode =>
               inv'[i].journal = inv[i].journal /\ inv'[i].runs = inv[i].runs]_vars
        BY <1>1
    <1> QED  BY <1>2, Invariance, PTL DEF Spec, JournalIsFinal

-------------------------------------------------------------------------------
(***************************************************************************)
(* A queued send implements Handoff towards Restate, for any finite number *)
(* of emails and any number of sends and runs.  An attempt is open from    *)
(* the moment its request goes out, and its handoff is that request; what  *)
(* Restate, the worker and the provider do afterwards is invisible.        *)
(***************************************************************************)

Accepted == {a \in Attempts : request[a] = "accepted"}

LEMMA AttemptsAreFinite == IsFiniteSet(Attempts)
    <1>1. IsFiniteSet(1..MaxAttempts)
        BY FS_Interval, BoundsAssumption
    <1> QED  BY <1>1, FS_Product, MsgsAssumption DEF Attempts

(* The instance of Handoff has a Cardinality of its own, with this definition. *)
LEMMA SameCount == \A T : H!Cardinality(T) = Cardinality(T)
    BY Zenon DEF H!Cardinality, Cardinality

LEMMA InitImplements == Init => H!Init
    BY KindsAreApart DEF Init, H!Init, HandoffCall, HandoffState

(* How the caller's steps look to the handoff contract. *)
LEMMA EndStep ==
    ASSUME TypeOK, NEW a \in Attempts, NEW value, Ends(a, value), UNCHANGED request
    PROVE  /\ HandoffState' = HandoffState /\ Accepted' = Accepted
           /\ value = "ok" => HandoffCall' = [HandoffCall EXCEPT ![a] = "ok"]
           /\ value = "dropped" => HandoffCall' = [HandoffCall EXCEPT ![a] = "dropped"]
           /\ value \in ErrorKind => HandoffCall' = [HandoffCall EXCEPT ![a] = "failed"]
    <1>1. outcome'[a] = value /\ \A b \in Attempts \ {a} : outcome'[b] = outcome[b]
        BY DEF TypeOK, Ends
    <1> QED  BY <1>1, KindsAreApart DEF HandoffCall, HandoffState, Accepted

LEMMA OpenCall ==
    ASSUME NEW a \in Attempts, Open(a)
    PROVE  HandoffCall[a] = "open"
    BY KindsAreApart DEF Open, HandoffCall

LEMMA EndImplements ==
    ASSUME TypeOK, NEW a \in Attempts, Open(a), NEW value \in ErrorKind \cup {"ok", "dropped"}, Ends(a, value),
           UNCHANGED request, value = "ok" => request[a] = "accepted"
    PROVE  H!Next
    <1>1. CASE value = "ok"
        BY <1>1, EndStep, OpenCall DEF H!Next, H!Succeed, Accepted
    <1>2. CASE value = "dropped"
        BY <1>2, EndStep, OpenCall DEF H!Next, H!Drop, Accepted
    <1>3. CASE value \in ErrorKind
        BY <1>3, EndStep, OpenCall DEF H!Next, H!Fail, Accepted
    <1> QED  BY <1>1, <1>2, <1>3

LEMMA CallerImplements ==
    ASSUME Inv, NEW a \in Attempts,
           \/ StopWaiting(a) \/ ReceiveAccepted(a) \/ ReceiveWorkerAnswer(a)
           \/ ReceiveUnreadable(a) \/ ReceiveRefusal(a)
    PROVE  H!Next
    <1>1. TypeOK
        BY DEF Inv
    <1>2. CASE StopWaiting(a)
        <2>1. PICK value \in ErrorKind \cup {"dropped"} : Ends(a, value)
            BY <1>2, AnswersAreKinds DEF StopWaiting, ErrorKind
        <2> QED  BY <1>1, <1>2, <2>1, EndImplements, KindsAreApart DEF StopWaiting
    <1>3. CASE ReceiveAccepted(a)
        BY <1>1, <1>3, EndImplements DEF ReceiveAccepted
    <1>4. CASE ReceiveWorkerAnswer(a)
        <2>1. /\ boundTo[a] \in Invocations /\ inv[boundTo[a]].phase = "done"
              /\ request[a] = "accepted" /\ Ends(a, WorkerAnswer(inv[boundTo[a]].journal))
            BY <1>4 DEF ReceiveWorkerAnswer, Inv, Bound
        <2>2. inv[boundTo[a]] \in Invocation /\ inv[boundTo[a]].journal # NoCode
            BY <1>1, <2>1, InvocationTyped DEF Inv, Journaled
        <2>3. inv[boundTo[a]].journal \in TerminalCodes \cup {Success}
            BY <2>2 DEF Invocation
        <2>4. WorkerAnswer(inv[boundTo[a]].journal) \in ErrorKind \cup {"ok"}
            BY <2>3, AnswersAreKinds
        <2> QED  BY <1>1, <1>4, <2>1, <2>4, EndImplements DEF ReceiveWorkerAnswer
    <1>5. CASE ReceiveUnreadable(a)
        BY <1>1, <1>5, EndImplements, AnswersAreKinds DEF ReceiveUnreadable, ErrorKind
    <1>6. CASE ReceiveRefusal(a)
        <2>1. PICK kind \in ErrorKind : Ends(a, kind)
            BY <1>6, AnswersAreKinds DEF ReceiveRefusal
        <2> QED  BY <1>1, <1>6, <2>1, EndImplements, KindsAreApart DEF ReceiveRefusal
    <1> QED  BY <1>2, <1>3, <1>4, <1>5, <1>6

LEMMA RefusalImplements ==
    ASSUME Inv, NEW m \in Msgs, NEW n \in 1..MaxAttempts, RefuseLocally(m, n)
    PROVE  H!Next
    <1>1. <<m, n>> \in Attempts /\ plan[m].defect \in {"unserializable", "unbuildable", "delayed"}
        BY DEF Attempts, Inv, TypeOK, Plan, RefuseLocally
    <1>2. LocalError(plan[m].defect) \in ErrorKind
        BY <1>1, AnswersAreKinds
    <1>3. HandoffCall[<<m, n>>] = "idle"
        BY <1>1, KindsAreApart DEF RefuseLocally, MaySend, HandoffCall
    <1>4. /\ HandoffCall' = [HandoffCall EXCEPT ![<<m, n>>] = "failed"]
          /\ HandoffState' = HandoffState /\ Accepted' = Accepted
        BY <1>1, <1>2, EndStep DEF RefuseLocally, Inv
    <1> QED  BY <1>1, <1>3, <1>4 DEF H!Next, H!Fail, Accepted

(* The attempt that goes out was not counted among the active ones. *)
LEMMA SubmitImplements ==
    ASSUME Inv, NEW m \in Msgs, NEW n \in 1..MaxAttempts, Submit(m, n)
    PROVE  H!Next
    <1> DEFINE a == <<m, n>>
    <1>1. a \in Attempts /\ request[a] = "none" /\ outcome[a] = "none"
        BY DEF Attempts, Submit, MaySend
    <1>2. request'[a] = "sent" /\ (\A b \in Attempts \ {a} : request'[b] = request[b]) /\ UNCHANGED outcome
        BY <1>1 DEF Submit, Inv, TypeOK
    <1> HIDE DEF a
    <1>3. HandoffCall[a] = "idle" /\ HandoffState[a] = "none"
        BY <1>1, KindsAreApart DEF HandoffCall, HandoffState
    <1>4. HandoffCall' = [HandoffCall EXCEPT ![a] = "open"]
        BY <1>1, <1>2, KindsAreApart DEF HandoffCall
    <1>5. HandoffState' = [HandoffState EXCEPT ![a] = "active"]
        BY <1>1, <1>2 DEF HandoffState
    <1>6. Accepted' = Accepted
        BY <1>1, <1>2 DEF Accepted
    <1>7. Cardinality(H!Active) < Cardinality(Attempts)
        <2>1. H!Active \subseteq Attempts /\ H!Active # Attempts
            BY <1>1, <1>3 DEF H!Active
        <2>2. Cardinality(H!Active) <= Cardinality(Attempts) /\ Cardinality(H!Active) # Cardinality(Attempts)
            BY <2>1, AttemptsAreFinite, FS_Subset
        <2>3. Cardinality(H!Active) \in Nat /\ Cardinality(Attempts) \in Nat
            BY <2>1, AttemptsAreFinite, FS_Subset, FS_CardinalityType
        <2> QED  BY <2>2, <2>3
    <1> QED  BY <1>1, <1>3, <1>4, <1>5, <1>6, <1>7, SameCount DEF H!Next, H!Open, H!Begins, Accepted

LEMMA RequestImplements ==
    ASSUME Inv, NEW a \in Attempts, Accept(a) \/ FailRequest(a)
    PROVE  H!Next
    <1>1. PICK fate \in {"accepted", "refused", "lost"} : request' = [request EXCEPT ![a] = fate]
        BY DEF Accept, FailRequest
    <1>2. request[a] = "sent" /\ UNCHANGED outcome
        BY DEF Accept, FailRequest
    <1>3. request'[a] = fate /\ \A b \in Attempts \ {a} : request'[b] = request[b]
        BY <1>1 DEF Inv, TypeOK
    <1>4. HandoffCall' = HandoffCall
        BY <1>2, <1>3 DEF HandoffCall
    <1>5. HandoffState[a] = "active" /\ HandoffState' = [HandoffState EXCEPT ![a] = "over"]
        BY <1>2, <1>3 DEF HandoffState
    <1>6. Accepted' \in {Accepted, Accepted \cup {a}}
        BY <1>2, <1>3 DEF Accepted
    <1> QED  BY <1>4, <1>5, <1>6 DEF H!Next, H!Finish, Accepted

LEMMA StepImplements == Inv /\ [Next]_vars => [H!Next]_(H!vars)
    <1> SUFFICES ASSUME Inv, [Next]_vars PROVE [H!Next]_(H!vars)
        OBVIOUS
    <1>1. CASE UNCHANGED <<request, outcome>>
        BY <1>1 DEF H!vars, HandoffCall, HandoffState
    <1>2. ASSUME NEW m \in Msgs, NEW n \in 1..MaxAttempts, RefuseLocally(m, n) \/ Submit(m, n)
          PROVE  H!Next
        BY <1>2, RefusalImplements, SubmitImplements
    <1>3. ASSUME NEW a \in Attempts,
                 \/ StopWaiting(a) \/ ReceiveAccepted(a) \/ ReceiveWorkerAnswer(a) \/ ReceiveUnreadable(a)
                 \/ ReceiveRefusal(a) \/ Accept(a) \/ FailRequest(a)
          PROVE  H!Next
        BY <1>3, CallerImplements, RequestImplements
    <1>4. ASSUME NEW i \in Invocations, WorkerStep(i) \/ WorkerFault(i)
          PROVE  UNCHANGED <<request, outcome>>
        BY <1>4 DEF WorkerStep, StartCall, JournalSuccess, Complete, WorkerFault, DecodeFails, LookupFails,
                    ProviderRejects, CallUncertain, CrashBeforeJournal
    <1>5. ASSUME NEW m \in Msgs, ForgetKey(m)
          PROVE  UNCHANGED <<request, outcome>>
        BY <1>5 DEF ForgetKey
    <1>6. ASSUME NEW c \in calls, ProviderTakes(c)
          PROVE  UNCHANGED <<request, outcome>>
        BY <1>6 DEF ProviderTakes
    <1> QED  BY <1>1, <1>2, <1>3, <1>4, <1>5, <1>6 DEF Next, vars

(* Transport::send of email-transport-restate is a handoff to Restate: no     *)
(* report before the ingress accepted the request, one request per attempt,   *)
(* and none for an attempt that ended before.                                 *)
THEOREM RestateImplementsHandoff == Spec => ImplementsHandoff
    BY InitImplements, StepImplements, Invariance, PTL
       DEF Spec, ImplementsHandoff, H!Spec
===============================================================================
