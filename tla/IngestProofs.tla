---------------------------- MODULE IngestProofs ----------------------------
(***************************************************************************)
(* Theorems about Ingest, for every size of a batch, limit of deliveries,  *)
(* number of faults, messages and requests: every state has its type, no   *)
(* message is forgotten, a message is handled twice only when its          *)
(* acknowledgement was overdue, and messages are handled in their order.   *)
(*                                                                         *)
(* A step of the system is one of the queue's steps or leaves the queue    *)
(* alone; what the other theorems say is kept by each of the queue's       *)
(* steps.                                                                  *)
(***************************************************************************)
EXTENDS Ingest, SequenceTheorems, TLAPS

-----------------------------------------------------------------------------
(* Sequences in which nothing is twice. *)

Distinct(s) == \A i, j \in DOMAIN s : s[i] = s[j] => i = j

\* A function on 1 .. n is a sequence.
LEMMA FunctionIsSeq ==
  ASSUME NEW S, NEW n \in Nat, NEW s \in [1 .. n -> S]
  PROVE  s \in Seq(S)
PROOF
<1>1. s \in UNION {[1 .. k -> S] : k \in Nat}
  OBVIOUS
<1> QED
  BY <1>1, SeqDef

\* The tail of such a sequence is one, and the head is not in it.
LEMMA TailDistinct ==
  ASSUME NEW S, NEW s \in Seq(S), s # << >>, Distinct(s)
  PROVE  /\ Tail(s) \in Seq(S \ {Head(s)}) /\ Distinct(Tail(s))
         /\ \A i \in DOMAIN Tail(s) : i + 1 \in DOMAIN s /\ Tail(s)[i] = s[i + 1]
         /\ 1 \in DOMAIN s /\ Head(s) = s[1] /\ Len(s) \in Nat \ {0}
PROOF
<1>1. /\ Tail(s) \in Seq(S) /\ Len(Tail(s)) = Len(s) - 1 /\ Head(s) \in S
      /\ \A i \in 1 .. Len(Tail(s)) : Tail(s)[i] = s[i + 1]
  BY HeadTailProperties
<1>2. Len(s) \in Nat \ {0} /\ Head(s) = s[1]
  BY EmptySeq
<1>3. DOMAIN s = 1 .. Len(s) /\ DOMAIN Tail(s) = 1 .. Len(Tail(s))
  BY <1>1, LenProperties
<1>4. \A i \in DOMAIN Tail(s) : i \in Nat /\ i + 1 \in DOMAIN s /\ Tail(s)[i] = s[i + 1]
  BY <1>1, <1>2, <1>3
<1>5. Distinct(Tail(s))
  BY <1>4 DEF Distinct
<1>6. \A i \in 1 .. Len(Tail(s)) : Tail(s)[i] \in S \ {Head(s)}
  <2> TAKE i \in 1 .. Len(Tail(s))
  <2>1. Tail(s)[i] \in S
    BY <1>1, ElementOfSeq
  <2>2. i + 1 # 1 /\ i + 1 \in DOMAIN s /\ 1 \in DOMAIN s
    BY <1>2, <1>3, <1>4
  <2> QED
    BY <2>1, <2>2, <1>2, <1>3, <1>4 DEF Distinct
<1>7. Tail(s) \in [1 .. Len(Tail(s)) -> S \ {Head(s)}]
  BY <1>1, <1>3, <1>6, LenProperties
<1>8. Tail(s) \in Seq(S \ {Head(s)})
  <2>1. Len(Tail(s)) \in Nat
    BY <1>1, <1>2
  <2> QED
    BY <1>7, <2>1, FunctionIsSeq, Zenon
<1> QED
  BY <1>2, <1>3, <1>4, <1>5, <1>8

\* A new member is appended to such a sequence.
LEMMA AppendDistinct ==
  ASSUME NEW S, NEW s \in Seq(S), NEW e \in S, Distinct(s), \A i \in DOMAIN s : s[i] # e
  PROVE  /\ Append(s, e) \in Seq(S) /\ Distinct(Append(s, e))
         /\ \A i \in DOMAIN Append(s, e) :
              (i \in DOMAIN s /\ Append(s, e)[i] = s[i]) \/ Append(s, e)[i] = e
PROOF
<1>1. /\ Append(s, e) \in Seq(S) /\ Len(Append(s, e)) = Len(s) + 1
      /\ \A i \in 1 .. Len(s) : Append(s, e)[i] = s[i]
      /\ Append(s, e)[Len(s) + 1] = e
  BY AppendProperties
<1>2. DOMAIN s = 1 .. Len(s) /\ DOMAIN Append(s, e) = 1 .. Len(s) + 1 /\ Len(s) \in Nat
  BY <1>1, LenProperties
<1>3. \A i \in DOMAIN Append(s, e) :
        \/ i \in DOMAIN s /\ Append(s, e)[i] = s[i]
        \/ i = Len(s) + 1 /\ Append(s, e)[i] = e
  BY <1>1, <1>2
<1>4. Distinct(Append(s, e))
  BY <1>3 DEF Distinct
<1> QED
  BY <1>1, <1>3, <1>4

\* What is removed from such a sequence is no longer in it, and the rest is.
LEMMA RemoveDistinct ==
  ASSUME NEW S, NEW s \in Seq(S), NEW e, Distinct(s)
  PROVE  /\ RemoveFirst(s, e) \in Seq(S \ {e}) /\ Distinct(RemoveFirst(s, e))
         /\ \A i \in DOMAIN RemoveFirst(s, e) :
              \E j \in DOMAIN s : RemoveFirst(s, e)[i] = s[j]
PROOF
<1>1. DOMAIN s = 1 .. Len(s) /\ Len(s) \in Nat /\ s \in [1 .. Len(s) -> S]
  BY LenProperties
<1>2. CASE \A i \in 1 .. Len(s) : s[i] # e
  <2>1. RemoveFirst(s, e) = s
    BY <1>2 DEF RemoveFirst
  <2>2. s \in [1 .. Len(s) -> S \ {e}]
    BY <1>1, <1>2
  <2>3. s \in Seq(S \ {e})
    BY <1>1, <2>2, FunctionIsSeq
  <2> QED
    BY <2>1, <2>3
<1>3. ASSUME NEW k \in 1 .. Len(s), s[k] = e
      PROVE  /\ RemoveFirst(s, e) \in Seq(S \ {e}) /\ Distinct(RemoveFirst(s, e))
             /\ \A i \in DOMAIN RemoveFirst(s, e) :
                  \E j \in DOMAIN s : RemoveFirst(s, e)[i] = s[j]
  <2>1. {i \in 1 .. Len(s) : s[i] = e} = {k}
    BY <1>1, <1>3 DEF Distinct
  <2>2. Min({k}) = k
    BY DEF Min
  <2>3. SelectInSeq(s, LAMBDA v : v = e) = k
    BY <2>1, <2>2 DEF SelectInSeq
  <2>4. RemoveFirst(s, e) = RemoveAt(s, k)
    BY <1>3, <2>3 DEF RemoveFirst
  <2> DEFINE a == SubSeq(s, 1, k - 1)
             b == SubSeq(s, k + 1, Len(s))
             t == a \o b
  <2>5. RemoveFirst(s, e) = t
    BY <2>4 DEF RemoveAt
  <2>6. \A i \in (1 .. k - 1) \cup (k + 1 .. Len(s)) : s[i] \in S \ {e}
    BY <1>1, <1>3 DEF Distinct
  <2>7. /\ a \in Seq(S \ {e}) /\ Len(a) = k - 1
        /\ \A i \in 1 .. k - 1 : a[i] = s[i]
    <3>1. \A i \in 1 .. k - 1 : s[i] \in S \ {e}
      BY <2>6
    <3>2. /\ a \in Seq(S \ {e}) /\ Len(a) = IF 1 <= k - 1 THEN k - 1 - 1 + 1 ELSE 0
          /\ \A i \in 1 .. k - 1 - 1 + 1 : a[i] = s[1 + i - 1]
      BY <3>1, SubSeqProperties
    <3> QED
      BY <3>2
  <2>8. /\ b \in Seq(S \ {e}) /\ Len(b) = Len(s) - k
        /\ \A i \in 1 .. Len(s) - k : b[i] = s[i + k]
    <3>1. \A i \in k + 1 .. Len(s) : s[i] \in S \ {e}
      BY <2>6
    <3>2. /\ b \in Seq(S \ {e})
          /\ Len(b) = IF k + 1 <= Len(s) THEN Len(s) - (k + 1) + 1 ELSE 0
          /\ \A i \in 1 .. Len(s) - (k + 1) + 1 : b[i] = s[(k + 1) + i - 1]
      BY <1>1, <3>1, SubSeqProperties
    <3> QED
      BY <1>1, <3>2
  <2> HIDE DEF a, b
  <2>9. /\ t \in Seq(S \ {e}) /\ Len(t) = Len(s) - 1
        /\ \A i \in 1 .. Len(t) : t[i] = IF i <= k - 1 THEN a[i] ELSE b[i - (k - 1)]
    <3>1. /\ t \in Seq(S \ {e}) /\ Len(t) = Len(a) + Len(b)
          /\ \A i \in 1 .. Len(a) + Len(b) : t[i] = IF i <= Len(a) THEN a[i] ELSE b[i - Len(a)]
      BY <2>7, <2>8, ConcatProperties
    <3>2. Len(a) + Len(b) = Len(s) - 1
      BY <1>1, <2>7, <2>8
    <3> HIDE DEF t
    <3> QED
      BY <2>7, <3>1, <3>2
  <2>10. DOMAIN t = 1 .. Len(s) - 1
    BY <2>9, LenProperties
  <2> HIDE DEF t
  <2>11. \A i \in DOMAIN t : t[i] = s[IF i < k THEN i ELSE i + 1]
    <3> TAKE i \in DOMAIN t
    <3>1. CASE i < k
      BY <1>1, <2>7, <2>9, <2>10, <3>1
    <3>2. CASE ~(i < k)
      <4>1. i - (k - 1) \in 1 .. Len(s) - k
        BY <1>1, <2>10, <3>2
      <4>2. t[i] = b[i - (k - 1)]
        <5>1. i \in 1 .. Len(t) /\ ~(i <= k - 1)
          BY <1>1, <2>9, <2>10, <3>2
        <5>2. t[i] = IF i <= k - 1 THEN a[i] ELSE b[i - (k - 1)]
          BY <2>9, <5>1, Zenon
        <5> QED
          BY <5>1, <5>2, Zenon
      <4>3. b[i - (k - 1)] = s[(i - (k - 1)) + k]
        BY <2>8, <4>1
      <4>4. (i - (k - 1)) + k = i + 1
        BY <1>1, <2>10
      <4> QED
        BY <3>2, <4>2, <4>3, <4>4
    <3> QED
      BY <3>1, <3>2
  <2>12. \A i \in DOMAIN t : (IF i < k THEN i ELSE i + 1) \in DOMAIN s
    BY <1>1, <2>10
  <2>13. Distinct(t)
    <3> SUFFICES ASSUME NEW i \in DOMAIN t, NEW j \in DOMAIN t, t[i] = t[j]
                 PROVE  i = j
      BY DEF Distinct
    <3>1. (IF i < k THEN i ELSE i + 1) = (IF j < k THEN j ELSE j + 1)
      BY <2>11, <2>12 DEF Distinct
    <3> QED
      BY <1>1, <2>10, <3>1
  <2> QED
    BY <2>5, <2>9, <2>11, <2>12, <2>13
<1> QED
  BY <1>2, <1>3

-----------------------------------------------------------------------------
(* The steps of the queue's variables keep their types. *)

QueueMove ==
  \/ \E m \in Message : Store(m)
  \/ QueueStep
  \/ loop = "off" /\ Connect
  \/ Close
  \/ Gone /\ (Fault \/ UNCHANGED faults)
  \/ UNCHANGED queueVars

\* What the sequences of a typed state look like.
LEMMA TypedSequences ==
  ASSUME QueueTypeOK
  PROVE  /\ Len(stream) \in Nat /\ next \in Nat \ {0} /\ next - 1 <= Len(stream)
         /\ DOMAIN stream = Numbers /\ DOMAIN delivered = Numbers
         /\ delivered \in [Numbers -> 0 .. MaxDeliver]
         /\ pending \subseteq Numbers /\ 1 .. next - 1 \subseteq Numbers
         /\ rdq \in Seq(pending) /\ Distinct(rdq)
         /\ batch \in Seq(1 .. next - 1) /\ batch \in Seq(Numbers)
         /\ \A i \in DOMAIN rdq : rdq[i] \in pending
         /\ \A i \in DOMAIN batch : batch[i] \in 1 .. next - 1
         /\ Len(batch) \in Nat
PROOF
<1>1. Len(stream) \in Nat /\ DOMAIN stream = 1 .. Len(stream)
  BY LenProperties DEF QueueTypeOK
<1>2. delivered \in [1 .. Len(delivered) -> 0 .. MaxDeliver] /\ Len(delivered) = Len(stream)
  BY LenProperties DEF QueueTypeOK
<1>3. next \in Nat \ {0} /\ next - 1 <= Len(stream) /\ 1 .. next - 1 \subseteq Numbers
  BY <1>1 DEF QueueTypeOK, Numbers
<1>4. pending \subseteq 1 .. next - 1 /\ rdq \in Seq(pending) /\ batch \in Seq(1 .. next - 1)
  BY DEF QueueTypeOK
<1>5. Distinct(rdq)
  BY DEF QueueTypeOK, Distinct
<1>6. batch \in Seq(Numbers)
  BY <1>3, <1>4, SeqMonotonic
<1>7. \A i \in DOMAIN rdq : rdq[i] \in pending
  BY <1>4, ElementOfSeq, LenProperties
<1>8. (\A i \in DOMAIN batch : batch[i] \in 1 .. next - 1) /\ Len(batch) \in Nat
  BY <1>4, ElementOfSeq, LenProperties
<1> QED
  BY <1>1, <1>2, <1>3, <1>4, <1>5, <1>6, <1>7, <1>8 DEF Numbers

\* A larger bound makes a larger interval.
LEMMA IntervalGrows ==
  ASSUME NEW j \in Int, NEW k \in Int, j <= k
  PROVE  1 .. j - 1 \subseteq 1 .. k - 1
PROOF
<1> QED
  OBVIOUS

\* A sequence of numbers below a bound is one for any larger bound.
LEMMA SeqGrows ==
  ASSUME NEW j \in Int, NEW k \in Int, j <= k, NEW s \in Seq(1 .. j - 1)
  PROVE  s \in Seq(1 .. k - 1)
PROOF
<1>1. PICK S, T : S = 1 .. j - 1 /\ T = 1 .. k - 1
  OBVIOUS
<1>2. S \subseteq T
  BY <1>1, IntervalGrows
<1>3. s \in Seq(T)
  BY <1>1, <1>2, SeqMonotonic, Zenon
<1> QED
  BY <1>1, <1>3, Zenon

\* The number that is up next is one of the stream's, and what is left to deliver
\* again is without it.
LEMMA AdvanceTypes ==
  ASSUME QueueTypeOK, HasNext, Advance
  PROVE  /\ NextUp \in Numbers /\ NextUp \in 1 .. next' - 1
         /\ next' \in 1 .. Len(stream) + 1 /\ next <= next'
         /\ rdq' \in Seq(pending \ {NextUp}) /\ Distinct(rdq')
         /\ \A i \in DOMAIN rdq' : \E j \in DOMAIN rdq : rdq'[i] = rdq[j]
         /\ \/ NextUp = next /\ next' = next + 1
            \/ next' = next /\ \E j \in DOMAIN rdq : NextUp = rdq[j]
PROOF
<1>1. /\ Len(stream) \in Nat /\ next \in Nat \ {0} /\ next - 1 <= Len(stream)
      /\ pending \subseteq Numbers /\ 1 .. next - 1 \subseteq Numbers
      /\ rdq \in Seq(pending) /\ Distinct(rdq) /\ pending \subseteq 1 .. next - 1
  BY TypedSequences DEF QueueTypeOK
<1>2. CASE rdq = << >>
  <2>1. next <= Len(stream) /\ NextUp = next /\ next' = next + 1 /\ rdq' = << >>
    BY <1>2 DEF HasNext, NextUp, Advance
  <2>2. rdq' \in Seq(pending \ {NextUp}) /\ Distinct(rdq') /\ DOMAIN rdq' = {}
    BY <2>1, EmptySeq DEF Distinct
  <2> QED
    BY <1>1, <2>1, <2>2 DEF Numbers
<1>3. CASE rdq # << >>
  <2>1. NextUp = Head(rdq) /\ next' = next /\ rdq' = Tail(rdq)
    BY <1>3 DEF NextUp, Advance
  <2>2. /\ Tail(rdq) \in Seq(pending \ {Head(rdq)}) /\ Distinct(Tail(rdq))
        /\ \A i \in DOMAIN Tail(rdq) : i + 1 \in DOMAIN rdq /\ Tail(rdq)[i] = rdq[i + 1]
        /\ 1 \in DOMAIN rdq /\ Head(rdq) = rdq[1]
    BY <1>1, <1>3, TailDistinct
  <2>3. rdq[1] \in pending
    BY <2>2, TypedSequences
  <2>4. \A i \in DOMAIN rdq' : \E j \in DOMAIN rdq : rdq'[i] = rdq[j]
    BY <2>1, <2>2
  <2> QED
    BY <1>1, <2>1, <2>2, <2>3, <2>4
<1> QED
  BY <1>2, <1>3

\* Delivering.
LEMMA DeliversTypes ==
  ASSUME QueueTypeOK, Delivers
  PROVE  /\ next' \in 1 .. Len(stream) + 1 /\ next <= next' /\ NextUp \in 1 .. next' - 1
         /\ pending' \subseteq 1 .. next' - 1
         /\ rdq' \in Seq(pending') /\ Distinct(rdq')
         /\ delivered' \in Seq(0 .. MaxDeliver) /\ Len(delivered') = Len(stream)
PROOF
<1>1. HasNext /\ Advance
  BY DEF Delivers, Requested
<1>2. /\ NextUp \in Numbers /\ NextUp \in 1 .. next' - 1
      /\ next' \in 1 .. Len(stream) + 1 /\ next <= next'
      /\ rdq' \in Seq(pending \ {NextUp}) /\ Distinct(rdq')
  BY <1>1, AdvanceTypes
<1>3. Len(stream) \in Nat /\ next \in Nat \ {0} /\ pending \subseteq 1 .. next - 1
  BY TypedSequences DEF QueueTypeOK
<1>4. pending' = pending \cup {NextUp}
  BY DEF Delivers
<1>5. pending' \subseteq 1 .. next' - 1
  <2>1. next \in Int /\ next' \in Int
    BY <1>2, <1>3
  <2>2. 1 .. next - 1 \subseteq 1 .. next' - 1
    BY <1>2, <2>1, IntervalGrows
  <2> QED
    BY <1>2, <1>3, <1>4, <2>2
<1>6. rdq' \in Seq(pending')
  BY <1>2, <1>4, SeqMonotonic
<1>7. delivered' \in Seq(0 .. MaxDeliver) /\ Len(delivered') = Len(stream)
  <2>1. delivered \in Seq(0 .. MaxDeliver) /\ Len(delivered) = Len(stream)
    BY DEF QueueTypeOK
  <2>2. CASE consumer # "limited"
    BY <2>1, <2>2 DEF Delivers
  <2>3. CASE consumer = "limited"
    <3>1. delivered[NextUp] \in 0 .. MaxDeliver /\ delivered[NextUp] # MaxDeliver
      BY <1>2, <2>3, TypedSequences DEF Delivers, Exhausted
    <3>2. delivered[NextUp] + 1 \in 0 .. MaxDeliver
      BY <3>1, QueueAssumption
    <3>3. NextUp \in 1 .. Len(delivered)
      BY <1>2, <2>1 DEF Numbers
    <3>4. delivered' = [delivered EXCEPT ![NextUp] = delivered[NextUp] + 1]
      BY <2>3 DEF Delivers
    <3> QED
      BY <2>1, <3>2, <3>3, <3>4, ExceptSeq
  <2> QED
    BY <2>2, <2>3
<1> QED
  BY <1>2, <1>5, <1>6, <1>7

\* Skipping what the stream no longer has.
LEMMA SkipTypes ==
  ASSUME QueueTypeOK, Skip
  PROVE  /\ next' \in 1 .. Len(stream) + 1 /\ next <= next'
         /\ pending' \subseteq 1 .. next' - 1
         /\ rdq' \in Seq(pending') /\ Distinct(rdq')
         /\ givenUp' \subseteq Numbers
PROOF
<1>1. HasNext /\ Advance /\ pending' = pending \ {NextUp}
  BY DEF Skip, Requested
<1>2. /\ NextUp \in Numbers
      /\ next' \in 1 .. Len(stream) + 1 /\ next <= next'
      /\ rdq' \in Seq(pending \ {NextUp}) /\ Distinct(rdq')
  BY <1>1, AdvanceTypes
<1>3. Len(stream) \in Nat /\ next \in Nat \ {0} /\ pending \subseteq 1 .. next - 1
  BY TypedSequences DEF QueueTypeOK
<1>4. givenUp' \subseteq Numbers
  BY <1>2 DEF Skip, QueueTypeOK
<1>5. 1 .. next - 1 \subseteq 1 .. next' - 1
  <2>1. next \in Int /\ next' \in Int
    BY <1>2, <1>3
  <2> QED
    BY <1>2, <2>1, IntervalGrows
<1>6. pending' \subseteq 1 .. next' - 1
  BY <1>1, <1>3, <1>5
<1> QED
  BY <1>1, <1>2, <1>4, <1>6

\* What is delivered again.
LEMMA AgainTypes ==
  ASSUME QueueTypeOK, NEW n \in pending \ Queued
  PROVE  /\ Append(rdq, n) \in Seq(pending) /\ Distinct(Append(rdq, n))
         /\ \A i \in DOMAIN Append(rdq, n) :
              (i \in DOMAIN rdq /\ Append(rdq, n)[i] = rdq[i]) \/ Append(rdq, n)[i] = n
PROOF
<1>1. rdq \in Seq(pending) /\ Distinct(rdq)
  BY TypedSequences
<1>2. \A i \in DOMAIN rdq : rdq[i] # n
  BY DEF Queued
<1> QED
  BY <1>1, <1>2, AppendDistinct

\* What an answer does.
LEMMA ArrivesTypes ==
  ASSUME QueueTypeOK, NEW a \in acks, Arrives(a)
  PROVE  /\ pending' \subseteq pending
         /\ rdq' \in Seq(pending') /\ Distinct(rdq')
         /\ \A i \in DOMAIN rdq' :
              (\E j \in DOMAIN rdq : rdq'[i] = rdq[j]) \/ (~a.ok /\ rdq'[i] = a.number)
PROOF
<1>1. rdq \in Seq(pending) /\ Distinct(rdq)
  BY TypedSequences
<1>2. CASE a.ok
  <2>1. pending' = pending \ {a.number} /\ rdq' = RemoveFirst(rdq, a.number)
    BY <1>2 DEF Arrives
  <2> QED
    BY <1>1, <2>1, RemoveDistinct
<1>3. CASE ~a.ok /\ a.number \in pending \ Queued
  <2>1. pending' = pending /\ rdq' = Append(rdq, a.number)
    BY <1>3 DEF Arrives
  <2> QED
    BY <1>3, <2>1, AgainTypes
<1>4. CASE ~a.ok /\ a.number \notin pending \ Queued
  <2>1. pending' = pending /\ rdq' = rdq
    BY <1>4 DEF Arrives
  <2> QED
    BY <1>1, <2>1
<1> QED
  BY <1>2, <1>3, <1>4

\* A fault is counted within the bound.
LEMMA FaultsType ==
  ASSUME QueueTypeOK, Fault \/ UNCHANGED faults
  PROVE  faults' \in 0 .. MaxFaults
PROOF
<1>1. faults \in 0 .. MaxFaults
  BY Zenon DEF QueueTypeOK
<1> QED
  BY <1>1, QueueAssumption DEF Fault

\* A step of the queue keeps its types.
LEMMA QueueMoveTypes ==
  ASSUME QueueTypeOK, QueueMove
  PROVE  QueueTypeOK'
PROOF
<1>0. /\ Len(stream) \in Nat /\ next \in Nat \ {0} /\ next - 1 <= Len(stream)
      /\ DOMAIN stream = Numbers /\ 1 .. next - 1 \subseteq Numbers
      /\ batch \in Seq(1 .. next - 1) /\ batch \in Seq(Numbers) /\ Len(batch) \in Nat
      /\ rdq \in Seq(pending) /\ Distinct(rdq)
  BY TypedSequences
<1>1. CASE UNCHANGED queueVars
  BY <1>1 DEF queueVars, server, durable, client, history, QueueTypeOK, Numbers, Answer
<1>2. ASSUME NEW m \in Message, Store(m)
      PROVE  QueueTypeOK'
  <2>1. stream' \in Seq(Message) /\ Len(stream') = Len(stream) + 1
    BY <1>2, AppendProperties DEF Store, QueueTypeOK
  <2>2. 0 \in 0 .. MaxDeliver
    BY QueueAssumption
  <2>3. delivered' \in Seq(0 .. MaxDeliver) /\ Len(delivered') = Len(stream) + 1
    BY <1>2, <2>2, AppendProperties DEF Store, QueueTypeOK
  <2>4. Numbers \subseteq Numbers' /\ 1 .. Len(stream) + 1 \subseteq 1 .. Len(stream') + 1
    BY <1>0, <2>1 DEF Numbers
  <2>5. Answer \subseteq Answer'
    BY <2>4 DEF Answer
  <2> QED
    BY <1>2, <2>1, <2>3, <2>4, <2>5 DEF Store, client, history, QueueTypeOK
<1>3. ASSUME Delivers,
             UNCHANGED << server, consumer, givenUp, acks, conn, loop, history, overdue >>,
             batch' \in Seq(1 .. next' - 1), Len(batch') <= BatchSize,
             batch # << >> => batch' # << >>, faults' \in 0 .. MaxFaults
      PROVE  QueueTypeOK'
  <2>1. /\ next' \in 1 .. Len(stream) + 1
        /\ pending' \subseteq 1 .. next' - 1
        /\ rdq' \in Seq(pending') /\ Distinct(rdq')
        /\ delivered' \in Seq(0 .. MaxDeliver) /\ Len(delivered') = Len(stream)
    BY <1>3, DeliversTypes
  <2> QED
    BY <1>3, <2>1 DEF server, history, QueueTypeOK, Distinct, Numbers, Answer
<1>4. CASE Deliver
  <2>1. Delivers /\ Len(batch) < BatchSize /\ batch' = Append(batch, NextUp)
    BY <1>4 DEF Deliver, Delivers, Requested
  <2>2. next' \in 1 .. Len(stream) + 1 /\ next <= next' /\ NextUp \in 1 .. next' - 1
    BY <2>1, DeliversTypes
  <2>3. next \in Int /\ next' \in Int
    BY <1>0, <2>2
  <2>4. batch \in Seq(1 .. next' - 1)
    BY <1>0, <2>2, <2>3, SeqGrows, Zenon
  <2>5. batch' \in Seq(1 .. next' - 1) /\ Len(batch') = Len(batch) + 1 /\ batch' # << >>
    <3>1. PICK S : S = 1 .. next' - 1
      OBVIOUS
    <3>2. batch \in Seq(S) /\ NextUp \in S
      BY <2>2, <2>4, <3>1, Zenon
    <3>3. batch' \in Seq(S) /\ Len(batch') = Len(batch) + 1 /\ batch' # << >>
      BY <2>1, <3>2, AppendProperties
    <3> QED
      BY <3>1, <3>3, Zenon
  <2>6. Len(batch') <= BatchSize
    BY <1>0, <2>1, <2>5, QueueAssumption
  <2> QED
    BY <1>3, <1>4, <2>1, <2>5, <2>6 DEF Deliver, QueueTypeOK
<1>5. CASE DeliverLost
  <2>1. next' \in 1 .. Len(stream) + 1 /\ next <= next'
    BY <1>5, DeliversTypes DEF DeliverLost
  <2>2. next \in Int /\ next' \in Int
    BY <1>0, <2>1
  <2>3. batch' = batch /\ batch \in Seq(1 .. next' - 1)
    <3>1. batch \in Seq(1 .. next' - 1)
      BY <1>0, <2>1, <2>2, SeqGrows, Zenon
    <3> QED
      BY <1>5, <3>1, Zenon DEF DeliverLost, client
  <2>4. faults' \in 0 .. MaxFaults
    BY <1>5, FaultsType, Zenon DEF DeliverLost
  <2>5. Len(batch') <= BatchSize
    BY <2>3 DEF QueueTypeOK
  <2> QED
    BY <1>3, <1>5, <2>3, <2>4, <2>5 DEF DeliverLost, client
<1>6. CASE Skip
  <2>1. /\ next' \in 1 .. Len(stream) + 1 /\ next <= next'
        /\ pending' \subseteq 1 .. next' - 1
        /\ rdq' \in Seq(pending') /\ Distinct(rdq')
        /\ givenUp' \subseteq Numbers
    BY <1>6, SkipTypes
  <2>2. next \in Int /\ next' \in Int
    BY <1>0, <2>1
  <2>3. batch' = batch /\ batch \in Seq(1 .. next' - 1)
    <3>1. batch \in Seq(1 .. next' - 1)
      BY <1>0, <2>1, <2>2, SeqGrows, Zenon
    <3> QED
      BY <1>6, <3>1, Zenon DEF Skip, client
  <2> QED
    BY <1>6, <2>1, <2>3 DEF Skip, server, client, history, QueueTypeOK, Distinct, Numbers, Answer
<1>7. CASE Discard
  <2>1. first' \in 1 .. Len(stream) + 1
    BY <1>0, <1>7 DEF Discard, QueueTypeOK
  <2> QED
    BY <1>7, <2>1 DEF Discard, durable, client, history, QueueTypeOK, Numbers, Answer
<1>8. ASSUME NEW n \in pending, RunOut(n)
      PROVE  QueueTypeOK'
  <2>1. rdq' \in Seq(pending) /\ Distinct(rdq')
    BY <1>8, AgainTypes DEF RunOut
  <2>2. overdue' \subseteq Numbers
    BY <1>8, TypedSequences DEF RunOut, QueueTypeOK
  <2>3. faults' \in 0 .. MaxFaults
    <3>1. Fault \/ UNCHANGED faults
      BY <1>8, Zenon DEF RunOut
    <3> QED
      BY <3>1, FaultsType, Zenon
  <2> QED
    BY <1>8, <2>1, <2>2, <2>3 DEF RunOut, server, client, history, QueueTypeOK, Distinct, Numbers, Answer
<1>9. ASSUME NEW a \in acks, Arrives(a)
      PROVE  QueueTypeOK'
  <2>1. /\ pending' \subseteq pending
        /\ rdq' \in Seq(pending') /\ Distinct(rdq')
    BY <1>9, ArrivesTypes
  <2>2. pending' \subseteq Numbers /\ acks' \subseteq Answer
    <3>1. pending \subseteq Numbers /\ acks \subseteq Answer
      BY TypedSequences, Zenon DEF QueueTypeOK
    <3>2. acks' = acks \ {a}
      BY <1>9 DEF Arrives
    <3> QED
      BY <2>1, <3>1, <3>2
  <2>3. /\ UNCHANGED << stream, first, consumer, next, conn, loop, batch >>
        /\ UNCHANGED << delivered, handled, overdue, repeated, givenUp, faults >>
    BY <1>9 DEF Arrives, server, client, history
  <2> HIDE DEF QueueTypeOK
  <2> QED
    BY <2>1, <2>2, <2>3 DEF QueueTypeOK, Distinct, Numbers, Answer
<1>10. ASSUME NEW a \in acks, Lost(a)
       PROVE  QueueTypeOK'
  <2>1. faults' \in 0 .. MaxFaults
    BY <1>10, FaultsType, Zenon DEF Lost
  <2> QED
    BY <1>10, <2>1 DEF Lost, durable, server, client, history, QueueTypeOK, Numbers, Answer
<1>11. CASE Server
  BY <1>4, <1>5, <1>6, <1>7, <1>8, <1>9, <1>10, <1>11 DEF Server
<1>12. CASE Subscribe
  <2>1. consumer' \in {"none", "default", "limited"}
    BY <1>12 DEF Subscribe, PullSubscribe, PullSubscribeFails, AddConsumer, AddConsumerFails,
                 Defaulted, QueueTypeOK
  <2>2. \E l \in {"fetch", "add", "again", "failed"} : Goto(l)
    BY <1>12 DEF Subscribe, PullSubscribe, PullSubscribeFails, AddConsumer, AddConsumerFails
  <2> QED
    BY <2>1, <2>2 DEF Goto, server, history, QueueTypeOK, Numbers, Answer
<1>13. CASE Fetch \/ LoopEnds
  BY <1>13 DEF Fetch, LoopEnds, Goto, server, history, QueueTypeOK, Numbers, Answer
<1>14. CASE handleMessage
  <2>1. loop = "handle" /\ batch # << >>
    BY <1>14 DEF handleMessage, QueueTypeOK
  <2>2. Head(batch) \in Numbers
    BY <1>0, <2>1, HeadTailProperties
  <2>3. handled' = IF Handles(Head(batch)) THEN handled \cup {Head(batch)} ELSE handled
    BY <1>14 DEF handleMessage
  <2>4. repeated' = IF Head(batch) \in handled \ overdue THEN repeated \cup {Head(batch)}
                   ELSE repeated
    BY <1>14 DEF handleMessage
  <2>5. repeated' \subseteq handled' /\ handled' \subseteq Numbers
    BY <2>2, <2>3, <2>4 DEF QueueTypeOK
  <2> QED
    BY <1>14, <2>1, <2>5 DEF handleMessage, server, durable, QueueTypeOK, Numbers, Answer
<1>15. CASE AckOrNak
  <2>1. loop = "answer" /\ batch # << >>
    BY <1>15 DEF AckOrNak, Onward, QueueTypeOK
  <2>2. /\ Head(batch) \in Numbers /\ Tail(batch) \in Seq(1 .. next - 1)
        /\ Len(Tail(batch)) = Len(batch) - 1
    BY <1>0, <2>1, HeadTailProperties
  <2>3. acks' \subseteq Answer
    <3>1. Handles(Head(batch)) \in BOOLEAN
      <4>1. CASE Handles(Head(batch))
        BY <4>1 DEF Handles
      <4>2. CASE ~Handles(Head(batch))
        BY <4>2 DEF Handles
      <4> QED
        BY <4>1, <4>2 DEF Handles
    <3>2. [number |-> Head(batch), ok |-> Handles(Head(batch))] \in Answer
      BY <2>2, <3>1 DEF Answer
    <3> QED
      BY <1>15, <3>2 DEF AckOrNak, QueueTypeOK
  <2>4. batch' \in Seq(1 .. next - 1) /\ Len(batch') <= BatchSize
    BY <1>0, <1>15, <2>2, QueueAssumption DEF AckOrNak, Onward, QueueTypeOK
  <2>5. /\ loop' \in {"fetch", "handle"}
        /\ loop' = "handle" => batch' # << >>
    <3>1. Len(batch) # 1 => Len(Tail(batch)) # 0
      BY <1>0, <2>2
    <3>2. Len(batch) # 1 => Tail(batch) # << >>
      BY <3>1, EmptySeq
    <3> QED
      BY <1>15, <3>2 DEF AckOrNak, Onward
  <2> QED
    BY <1>15, <2>3, <2>4, <2>5 DEF AckOrNak, Onward, server, durable, history, QueueTypeOK, Numbers, Answer
<1>16. CASE Connect
  BY <1>16 DEF Connect, server, durable, history, QueueTypeOK, Numbers, Answer
<1>17. CASE Close
  BY <1>17 DEF Close, server, durable, history, QueueTypeOK, Numbers, Answer
<1>18. CASE Gone /\ (Fault \/ UNCHANGED faults)
  <2>1. << >> \in Seq(1 .. next - 1) /\ Len(<< >>) = 0
    BY EmptySeq
  <2>2. faults' \in 0 .. MaxFaults
    BY <1>18, FaultsType, Zenon
  <2>3. Len(<< >>) <= BatchSize
    BY <2>1, QueueAssumption
  <2> QED
    BY <1>18, <2>1, <2>2, <2>3 DEF Gone, server, durable, history, QueueTypeOK, Numbers, Answer
<1> QED
  BY <1>1, <1>2, <1>11, <1>12, <1>13, <1>14, <1>15, <1>16, <1>17, <1>18
     DEF QueueMove, QueueStep, processMessages

-----------------------------------------------------------------------------
(* Typing. *)

\* Every step of the system is one of the queue's, or leaves the queue alone.
LEMMA NextMoves ==
  ASSUME TypeOK, [Next]_vars
  PROVE  QueueMove
PROOF
<1>1. CASE UNCHANGED vars
  BY <1>1 DEF vars, QueueMove
<1>2. ASSUME NEW r \in Request, Handler(r)
      PROVE  QueueMove
  <2>1. r \in Message
    BY QueueAssumption, IngestAssumption
  <2>2. CASE PublishStored(r)
    BY <2>1, <2>2 DEF PublishStored, QueueMove
  <2>3. CASE ~PublishStored(r)
    BY <1>2, <2>3 DEF Handler, Receive, BadRequest, ProcessAlert, NoQueue, Publish, PublishAcked,
                      PublishFails, ClientGone, QueueMove
  <2> QED
    BY <2>2, <2>3
<1>3. CASE Foreign
  BY <1>3 DEF Foreign, QueueMove
<1>4. CASE Main
  <2>1. CASE Start
    BY <2>1 DEF Start, TypeOK, QueueMove
  <2>2. CASE Signal \/ CloseQueue
    BY <2>2 DEF Signal, CloseQueue, QueueMove
  <2>3. CASE Drained \/ DeadlinePassed \/ ServerFails \/ Crash
    BY <2>3 DEF Drained, DeadlinePassed, ServerFails, Crash, Exit, QueueMove
  <2> QED
    BY <1>4, <2>1, <2>2, <2>3 DEF Main
<1>5. CASE QueueStep
  BY <1>5 DEF QueueMove
<1> QED
  BY <1>1, <1>2, <1>3, <1>4, <1>5 DEF Next

\* What a step of the queue does to the connection and to a loop that is off.
LEMMA OffStaysOff ==
  ASSUME QueueStep
  PROVE  conn' = conn /\ (loop = "off" => loop' = "off" /\ batch' = batch)
PROOF
<1>1. CASE Server
  BY <1>1 DEF Server, Discard, Deliver, DeliverLost, Delivers, Requested, Skip, RunOut, Arrives,
              Lost, client
<1>2. CASE Subscribe
  BY <1>2 DEF Subscribe, PullSubscribe, PullSubscribeFails, AddConsumer, AddConsumerFails, Goto
<1>3. CASE processMessages
  BY <1>3 DEF processMessages, Fetch, LoopEnds, handleMessage, AckOrNak, Onward, Goto
<1> QED
  BY <1>1, <1>2, <1>3 DEF QueueStep

\* What TypeOK says of main and of the requests.
MainTypeOK ==
  /\ main \in {"down", "running", "cancelled", "draining"}
  /\ req \in [Request -> {"new", "processing", "publishing", "waiting", "done"}]
  /\ left \in [Request -> Nat]
  /\ gone \subseteq Active
  /\ main = "down" => conn = "none" /\ loop = "off" /\ batch = << >> /\ Active = {}
  /\ main = "draining" => conn # "open"

\* A request that moves on to p, at work or done.
LEMMA RequestMoves ==
  ASSUME MainTypeOK, NEW r \in Request,
         NEW p \in {"processing", "publishing", "waiting", "done"},
         To(r, p), p = "done" => gone' = gone \ {r}, p # "done" => gone' = gone
  PROVE  /\ req' \in [Request -> {"new", "processing", "publishing", "waiting", "done"}]
         /\ gone' \subseteq Active'
         /\ Active' \subseteq Active \cup {r}
         /\ p = "done" => Active' \subseteq Active
PROOF
<1>1. req' \in [Request -> {"new", "processing", "publishing", "waiting", "done"}]
  BY DEF MainTypeOK, To
<1>2. /\ req'[r] = p
      /\ \A q \in Request : q # r => req'[q] = req[q]
  BY DEF MainTypeOK, To
<1>3. Active \ {r} = Active' \ {r}
  BY <1>2 DEF Active
<1>4. p # "done" => r \in Active'
  BY <1>2 DEF Active
<1>5. p = "done" => r \notin Active'
  BY <1>2 DEF Active
<1>6. gone \subseteq Active
  BY DEF MainTypeOK
<1> QED
  BY <1>1, <1>3, <1>4, <1>5, <1>6

\* A step keeps them.
LEMMA MainTypes ==
  ASSUME MainTypeOK, [Next]_vars
  PROVE  MainTypeOK'
PROOF
<1>1. CASE UNCHANGED vars
  BY <1>1 DEF vars, queueVars, client, requests, MainTypeOK, Active
<1>2. ASSUME NEW r \in Request, Handler(r)
      PROVE  MainTypeOK'
  <2>0. CASE UNCHANGED << main, conn, loop, batch >> /\ left' \in [Request -> Nat] /\
             \E p \in {"processing", "publishing", "waiting", "done"} :
               /\ To(r, p)
               /\ p = "done" => gone' = gone \ {r}
               /\ p # "done" => gone' = gone
               /\ p # "done" => main # "down"
    BY <2>0, RequestMoves DEF MainTypeOK
  <2>1. CASE Receive(r)
    <3>1. left' \in [Request -> Nat]
      BY <2>1, IngestAssumption DEF Receive, MainTypeOK
    <3> QED
      BY <2>0, <2>1, <3>1 DEF Receive, queueVars, client
  <2>2. CASE BadRequest(r) \/ NoQueue(r) \/ PublishAcked(r) \/ PublishFails(r)
    <3>1. Returns(r) /\ UNCHANGED queueVars
      BY <2>2 DEF BadRequest, NoQueue, PublishAcked, PublishFails
    <3> QED
      BY <2>0, <3>1 DEF Returns, queueVars, client, MainTypeOK
  <2>3. CASE Publish(r) \/ PublishStored(r)
    <3>1. r \in Active
      BY <2>3 DEF Publish, PublishStored, Active
    <3>2. main # "down"
      BY <3>1 DEF MainTypeOK
    <3>3. UNCHANGED << main, conn, loop, batch, left, gone >>
      BY <2>3 DEF Publish, PublishStored, Store, queueVars, client
    <3> QED
      BY <2>0, <2>3, <3>2, <3>3 DEF Publish, PublishStored, MainTypeOK
  <2>4. CASE ProcessAlert(r)
    <3>1. left[r] \in Nat /\ left[r] > 0
      BY <2>4 DEF ProcessAlert, MainTypeOK
    <3>2. left[r] - 1 \in Nat
      BY <3>1
    <3>3. left' \in [Request -> Nat]
      BY <2>4, <3>2 DEF ProcessAlert, MainTypeOK
    <3> QED
      BY <2>4, <3>3 DEF ProcessAlert, queueVars, client, MainTypeOK, Active
  <2>5. CASE ClientGone(r)
    BY <2>5 DEF ClientGone, queueVars, client, MainTypeOK, Active
  <2> QED
    BY <1>2, <2>1, <2>2, <2>3, <2>4, <2>5 DEF Handler
<1>3. CASE Foreign
  BY <1>3 DEF Foreign, Store, client, requests, MainTypeOK, Active
<1>4. CASE Start
  BY <1>4 DEF Start, Connect, queueVars, client, requests, MainTypeOK, Active
<1>5. CASE Signal
  BY <1>5 DEF Signal, queueVars, client, requests, MainTypeOK, Active
<1>6. CASE CloseQueue
  BY <1>6 DEF CloseQueue, Close, requests, MainTypeOK, Active
<1>7. CASE Exit
  <2>1. req' \in [Request -> {"new", "processing", "publishing", "waiting", "done"}]
    BY <1>7 DEF Exit, MainTypeOK
  <2>2. Active' = {}
    BY <1>7 DEF Exit, Active
  <2>3. left' \in [Request -> Nat]
    BY <1>7 DEF Exit
  <2> QED
    BY <1>7, <2>1, <2>2, <2>3 DEF Exit, Gone, MainTypeOK
<1>8. CASE QueueStep /\ UNCHANGED << main, requests >>
  BY <1>8, OffStaysOff DEF requests, MainTypeOK, Active
<1> QED
  BY <1>1, <1>2, <1>3, <1>4, <1>5, <1>6, <1>7, <1>8
     DEF Next, Main, Drained, DeadlinePassed, ServerFails, Crash

\* Every variable has its type, a process that is down holds no work, and one
\* that drains has closed its connection.
THEOREM Typing == Spec => []TypeOK
PROOF
<1>1. Init => TypeOK
  <2> SUFFICES ASSUME Init PROVE TypeOK
    OBVIOUS
  <2>1. QueueTypeOK
    <3>1. Len(<< >>) = 0 /\ DOMAIN << >> = {}
      OBVIOUS
    <3>2. Len(<< >>) <= BatchSize /\ 0 \in 0 .. MaxFaults
      BY <3>1, QueueAssumption
    <3> QED
      BY <3>1, <3>2, EmptySeq DEF Init, QueueInit, QueueTypeOK, Numbers, Answer
  <2> QED
    BY <2>1 DEF Init, QueueInit, TypeOK, Active
<1>2. TypeOK /\ [Next]_vars => TypeOK'
  <2>1. TypeOK <=> QueueTypeOK /\ MainTypeOK
    BY DEF TypeOK, MainTypeOK
  <2>2. TypeOK' <=> QueueTypeOK' /\ MainTypeOK'
    BY DEF TypeOK, MainTypeOK
  <2> QED
    BY <2>1, <2>2, NextMoves, QueueMoveTypes, MainTypes
<1> QED
  BY <1>1, <1>2, PTL DEF Spec

-----------------------------------------------------------------------------
(* What is acknowledged was handled. *)

\* Ack is on its way only for what was handled and Nak only for what cannot be;
\* only what was delivered is handled.
AnswersInv ==
  /\ \A a \in acks : (a.ok => a.number \in handled) /\ (~a.ok => ~Handles(a.number))
  /\ loop = "answer" /\ Handles(Head(batch)) => Head(batch) \in handled
  /\ \A n \in handled : n < next /\ Handles(n)

\* A message stays what it is.
LEMMA HandlesStays ==
  ASSUME QueueTypeOK, QueueMove, NEW n \in Numbers
  PROVE  Handles(n)' <=> Handles(n)
PROOF
<1>1. ASSUME NEW m \in Message, Store(m)
      PROVE  stream'[n] = stream[n]
  <2>1. stream' = Append(stream, m) /\ stream \in Seq(Message) /\ n \in 1 .. Len(stream)
    BY <1>1 DEF Store, QueueTypeOK, Numbers
  <2> QED
    BY <2>1, AppendProperties
<1>2. CASE UNCHANGED stream
  BY <1>2 DEF Handles
<1>3. CASE QueueStep
  BY <1>2, <1>3 DEF QueueStep, Server, Discard, Deliver, DeliverLost, Skip, RunOut, Arrives, Lost,
     Subscribe, PullSubscribe, PullSubscribeFails, AddConsumer, AddConsumerFails, Goto,
     processMessages, Fetch, LoopEnds, handleMessage, AckOrNak, Onward, server
<1> QED
  BY <1>1, <1>2, <1>3 DEF QueueMove, Connect, Close, Gone, queueVars, server, Handles

\* A step of the queue keeps that.
LEMMA AnswersStep ==
  ASSUME QueueTypeOK, QueueMove, AnswersInv
  PROVE  AnswersInv'
PROOF
<1>0. /\ acks \subseteq Answer /\ handled \subseteq Numbers
      /\ loop \in {"handle", "answer"} => Head(batch) \in 1 .. next - 1 /\ batch # << >>
      /\ 1 .. next - 1 \subseteq Numbers /\ next \in Nat \ {0}
  <2>1. loop \in {"handle", "answer"} => batch # << >> /\ batch \in Seq(1 .. next - 1)
    BY DEF QueueTypeOK
  <2> QED
    BY <2>1, HeadTailProperties, TypedSequences DEF QueueTypeOK
<1>1. next \in Nat /\ next' \in Nat
  <2>1. QueueTypeOK'
    BY QueueMoveTypes
  <2>2. next' \in 1 .. Len(stream') + 1
    BY <2>1 DEF QueueTypeOK
  <2> QED
    BY <1>0, <2>2
<1>2. \A n \in Numbers : Handles(n)' <=> Handles(n)
  BY HandlesStays
<1>3. ASSUME acks' \subseteq acks, handled' = handled, next <= next',
             loop' # "answer" \/ (loop' = loop /\ batch' = batch)
      PROVE  AnswersInv'
  <2>1. \A a \in acks' : a.number \in Numbers
    BY <1>0, <1>3 DEF Answer
  <2>2. \A a \in acks' : (a.ok => a.number \in handled') /\ (~a.ok => ~Handles(a.number)')
    BY <1>2, <1>3, <2>1 DEF AnswersInv
  <2>3. \A n \in handled' : n < next' /\ Handles(n)'
    <3> TAKE n \in handled'
    <3>1. n \in Numbers /\ n \in Nat /\ n < next /\ Handles(n)
      BY <1>0, <1>3 DEF AnswersInv, Numbers
    <3>2. Handles(n)'
      BY <1>2, <3>1
    <3> QED
      BY <1>1, <1>3, <3>1, <3>2
  <2>4. loop' = "answer" /\ Handles(Head(batch))' => Head(batch)' \in handled'
    <3> SUFFICES ASSUME loop' = "answer", Handles(Head(batch))'
                 PROVE  Head(batch)' \in handled'
      OBVIOUS
    <3>1. loop = "answer" /\ batch' = batch
      BY <1>3
    <3>2. PICK b \in Numbers : b = Head(batch)
      BY <1>0, <3>1
    <3>3. b = Head(batch)'
      BY <3>1, <3>2
    <3>4. Handles(b)'
      BY <3>3 DEF Handles
    <3>5. Handles(b)
      BY <1>2, <3>4
    <3> QED
      BY <1>3, <3>1, <3>2, <3>5 DEF AnswersInv
  <2> QED
    BY <2>2, <2>3, <2>4 DEF AnswersInv
<1>5. CASE Deliver \/ DeliverLost \/ Skip
  <2>1. HasNext /\ Advance /\ loop = "fetch"
    BY <1>5 DEF Deliver, DeliverLost, Delivers, Skip, Requested
  <2>2. next <= next'
    BY <2>1, AdvanceTypes
  <2> QED
    BY <1>3, <1>5, <2>1, <2>2 DEF Deliver, DeliverLost, Skip, client, history
<1>6. CASE Server
  <2>1. CASE Discard \/ (\E n \in pending : RunOut(n)) \/ (\E a \in acks : Arrives(a) \/ Lost(a))
    BY <1>1, <1>3, <2>1 DEF Discard, RunOut, Arrives, Lost, durable, client, history
  <2> QED
    BY <1>5, <1>6, <2>1 DEF Server
<1>7. CASE Subscribe \/ Fetch \/ LoopEnds \/ Connect \/ Gone
  BY <1>1, <1>3, <1>7 DEF Subscribe, PullSubscribe, PullSubscribeFails, AddConsumer,
     AddConsumerFails, Fetch, LoopEnds, Goto, Connect, Gone, durable, history
<1>8. CASE (\E m \in Message : Store(m)) \/ Close \/ UNCHANGED queueVars
  BY <1>1, <1>3, <1>8 DEF Store, Close, queueVars, durable, client, history
<1>9. CASE handleMessage
  <2>1. /\ handled' = IF Handles(Head(batch)) THEN handled \cup {Head(batch)} ELSE handled
        /\ acks' = acks /\ next' = next /\ batch' = batch /\ loop = "handle"
    BY <1>9 DEF handleMessage, durable
  <2>2. Head(batch) \in Numbers /\ Head(batch) < next
    BY <1>0, <2>1
  <2>3. Handles(Head(batch)') <=> Handles(Head(batch))
    BY <2>1
  <2>4. \A a \in acks' : a.number \in Numbers
    BY <1>0, <2>1 DEF Answer
  <2>5. \A n \in handled' : n < next' /\ Handles(n)'
    BY <1>0, <1>2, <2>1, <2>2 DEF AnswersInv
  <2>6. \A a \in acks' : (a.ok => a.number \in handled') /\ (~a.ok => ~Handles(a.number)')
    BY <1>2, <2>1, <2>4 DEF AnswersInv
  <2>7. Handles(Head(batch))' => Head(batch)' \in handled'
    <3>1. Handles(Head(batch))' <=> Handles(Head(batch))
      BY <1>9, <2>1 DEF handleMessage, server, Handles
    <3> QED
      BY <2>1, <3>1
  <2> QED
    BY <2>5, <2>6, <2>7 DEF AnswersInv
<1>10. CASE AckOrNak
  <2>1. /\ acks' \subseteq acks \cup {[number |-> Head(batch), ok |-> Handles(Head(batch))]}
        /\ handled' = handled /\ next' = next /\ loop' # "answer" /\ loop = "answer"
    BY <1>10 DEF AckOrNak, Onward, durable, history
  <2>2. Head(batch) \in Numbers
    BY <1>0, <2>1
  <2>3. \A a \in acks : a.number \in Numbers
    BY <1>0 DEF Answer
  <2>4. \A a \in acks' : (a.ok => a.number \in handled') /\ (~a.ok => ~Handles(a.number)')
    <3> TAKE a \in acks'
    <3>1. CASE a \in acks
      BY <1>2, <2>1, <2>3, <3>1 DEF AnswersInv
    <3>2. CASE a = [number |-> Head(batch), ok |-> Handles(Head(batch))]
      <4>1. a.number = Head(batch) /\ (a.ok <=> Handles(Head(batch)))
        BY <3>2
      <4>2. ~Handles(Head(batch)) => ~Handles(a.number)'
        BY <1>2, <2>2, <4>1
      <4> QED
        BY <2>1, <4>1, <4>2 DEF AnswersInv
    <3> QED
      BY <2>1, <3>1, <3>2
  <2>5. \A n \in handled' : n < next' /\ Handles(n)'
    BY <1>0, <1>2, <2>1 DEF AnswersInv
  <2> QED
    BY <2>1, <2>4, <2>5 DEF AnswersInv
<1> QED
  BY <1>6, <1>7, <1>8, <1>9, <1>10 DEF QueueMove, QueueStep, processMessages

-----------------------------------------------------------------------------
(* At least once. *)

\* A step of the queue forgets no message: what it takes from the consumer was
\* handled, is discarded, or is given up.
LEMMA ForgottenStep ==
  ASSUME QueueTypeOK, QueueMove, AnswersInv, NothingIsForgotten
  PROVE  NothingIsForgotten'
PROOF
<1>0. /\ Len(stream) \in Nat /\ next \in Nat \ {0} /\ next - 1 <= Len(stream)
      /\ first \in 1 .. Len(stream) + 1
      /\ \A n \in Numbers : n \in Nat
  BY TypedSequences DEF QueueTypeOK, Numbers
<1>1. ASSUME stream' = stream, first' \in Nat, first <= first',
             handled \subseteq handled', givenUp \subseteq givenUp',
             next' \in Nat, next <= next',
             \A n \in Numbers : n >= next /\ n < next' => n \in pending' \/ n \in givenUp' \/ n < first,
             \A n \in pending : n \in pending' \/ n \in handled' \/ n \in givenUp' \/ n < first
      PROVE  NothingIsForgotten'
  <2>1. Numbers' = Numbers
    BY <1>1 DEF Numbers
  <2>2. SUFFICES ASSUME NEW n \in Numbers, n >= first', n \notin handled', n \notin givenUp',
                        ~(n >= next')
                 PROVE  n \in pending'
    BY <2>1 DEF NothingIsForgotten
  <2>3. n \in Nat /\ first \in Nat /\ n >= first /\ n \notin handled /\ n \notin givenUp
    BY <1>0, <1>1, <2>2
  <2>4. n >= next \/ n \in pending
    BY <2>3 DEF NothingIsForgotten
  <2>5. CASE n \in pending
    BY <1>0, <1>1, <2>2, <2>3, <2>5
  <2>6. CASE n >= next
    BY <1>0, <1>1, <2>2, <2>3, <2>6
  <2> QED
    BY <2>4, <2>5, <2>6
<1>2. ASSUME UNCHANGED << stream, next, pending, givenUp >>, handled \subseteq handled',
             first' \in Nat, first <= first'
      PROVE  NothingIsForgotten'
  BY <1>0, <1>1, <1>2
<1>3. CASE \E m \in Message : Store(m)
  <2>1. PICK m \in Message : Store(m)
    BY <1>3
  <2>2. /\ Len(stream') = Len(stream) + 1
        /\ UNCHANGED << first, next, pending, handled, givenUp >>
    BY <2>1, AppendProperties DEF Store, history, QueueTypeOK
  <2>3. \A n \in Numbers' : n \in Numbers \/ n >= next
    BY <1>0, <2>2 DEF Numbers
  <2> QED
    BY <2>2, <2>3 DEF NothingIsForgotten
<1>4. CASE Deliver \/ DeliverLost
  <2>1. /\ HasNext /\ Advance /\ pending' = pending \cup {NextUp}
        /\ UNCHANGED << stream, first, handled, givenUp >>
    BY <1>4 DEF Deliver, DeliverLost, Delivers, Requested, server, history
  <2>2. /\ next' \in 1 .. Len(stream) + 1 /\ next <= next'
        /\ (NextUp = next /\ next' = next + 1) \/ next' = next
    BY <2>1, AdvanceTypes
  <2>3. \A n \in Numbers : n >= next /\ n < next' => n \in pending'
    BY <1>0, <2>1, <2>2
  <2> QED
    BY <1>0, <1>1, <2>1, <2>2, <2>3
<1>5. CASE Skip
  <2>1. /\ HasNext /\ Advance /\ pending' = pending \ {NextUp}
        /\ NextUp < first \/ givenUp' = givenUp \cup {NextUp}
        /\ givenUp \subseteq givenUp'
        /\ UNCHANGED << stream, first, handled >>
    BY <1>5 DEF Skip, Requested, server, history
  <2>2. /\ next' \in 1 .. Len(stream) + 1 /\ next <= next'
        /\ (NextUp = next /\ next' = next + 1) \/ next' = next
    BY <2>1, AdvanceTypes
  <2>3. \A n \in Numbers : n >= next /\ n < next' => n \in givenUp' \/ n < first
    BY <1>0, <2>1, <2>2
  <2> QED
    BY <1>0, <1>1, <2>1, <2>2, <2>3
<1>6. ASSUME NEW a \in acks, Arrives(a)
      PROVE  NothingIsForgotten'
  <2>1. UNCHANGED << stream, first, next, handled, givenUp >>
    BY <1>6 DEF Arrives, server, history
  <2>2. \A n \in pending : n \in pending' \/ n \in handled'
    BY <1>6, <2>1 DEF Arrives, AnswersInv
  <2> QED
    BY <1>0, <1>1, <2>1, <2>2
<1>7. CASE Discard
  BY <1>0, <1>2, <1>7 DEF Discard, durable, history
<1>8. CASE (\E n \in pending : RunOut(n)) \/ (\E a \in acks : Lost(a))
  BY <1>0, <1>2, <1>8 DEF RunOut, Lost, server, durable, history
<1>9. CASE Subscribe \/ processMessages \/ Connect \/ Close \/ Gone \/ UNCHANGED queueVars
  <2>1. UNCHANGED << stream, first, next, pending, givenUp >> /\ handled \subseteq handled'
    BY <1>9 DEF Subscribe, PullSubscribe, PullSubscribeFails, AddConsumer, AddConsumerFails, Goto,
       processMessages, Fetch, LoopEnds, handleMessage, AckOrNak, Onward, Connect, Close, Gone,
       queueVars, server, durable, history
  <2> QED
    BY <1>0, <1>2, <2>1
<1> QED
  BY <1>3, <1>4, <1>5, <1>6, <1>7, <1>8, <1>9 DEF QueueMove, QueueStep, Server

-----------------------------------------------------------------------------
(* Twice only if overdue. *)

\* What is to be delivered again was overdue or fails for ever; what was handled
\* and never overdue is not fetched, or is what the loop is about to answer; and
\* what is fetched twice was overdue or fails for ever.
OverdueInv ==
  /\ HandledTwiceOnlyIfOverdue
  /\ \A n \in Queued \ overdue : ~Handles(n)
  /\ \A i \in DOMAIN batch, n \in handled \ overdue :
       batch[i] = n => loop = "answer" /\ i = 1
  /\ \A i, j \in DOMAIN batch, n \in Numbers \ overdue :
       batch[i] = n /\ batch[j] = n /\ Handles(n) => i = j

\* A step of the queue keeps that.
LEMMA OverdueStep ==
  ASSUME QueueTypeOK, QueueMove, AnswersInv, OverdueInv
  PROVE  OverdueInv'
PROOF
<1> DEFINE QueuedOK == \A n \in Queued \ overdue : ~Handles(n)
           BatchOK == \A i \in DOMAIN batch, n \in handled \ overdue :
                        batch[i] = n => loop = "answer" /\ i = 1
           OnceOK == \A i, j \in DOMAIN batch, n \in Numbers \ overdue :
                       batch[i] = n /\ batch[j] = n /\ Handles(n) => i = j
<1>a. repeated = {} /\ QueuedOK /\ BatchOK /\ OnceOK
  BY DEF OverdueInv, HandledTwiceOnlyIfOverdue
<1>b. repeated' = {} /\ QueuedOK' /\ BatchOK' /\ OnceOK' => OverdueInv'
  BY DEF OverdueInv, HandledTwiceOnlyIfOverdue
<1>0. /\ Queued \subseteq Numbers /\ pending \subseteq Numbers
      /\ \A i \in DOMAIN batch : batch[i] \in Numbers /\ batch[i] \in Nat /\ batch[i] < next
      /\ next \in Nat /\ handled \subseteq Numbers
      /\ batch \in Seq(1 .. next - 1) /\ batch \in Seq(Numbers)
      /\ DOMAIN batch = 1 .. Len(batch) /\ Len(batch) \in Nat
  <2>1. Queued \subseteq Numbers
    BY TypedSequences DEF Queued
  <2>2. DOMAIN batch = 1 .. Len(batch) /\ Len(batch) \in Nat
    BY TypedSequences, LenProperties
  <2>3. next \in Nat /\ \A i \in DOMAIN batch : batch[i] \in 1 .. next - 1
    BY TypedSequences
  <2>4. \A i \in DOMAIN batch : batch[i] \in Nat /\ batch[i] < next
    BY <2>3
  <2>5. handled \subseteq Numbers
    BY DEF QueueTypeOK
  <2> QED
    BY <2>1, <2>2, <2>3, <2>4, <2>5, TypedSequences
<1>1. \A n \in Numbers : Handles(n)' <=> Handles(n)
  BY HandlesStays
<1>2. ASSUME overdue \subseteq overdue', \A n \in Queued' : n \in Queued \/
                                            (n \in Numbers /\ (~Handles(n) \/ n \in overdue'))
      PROVE  QueuedOK'
  <2> SUFFICES ASSUME NEW n \in Queued', n \notin overdue'
               PROVE  ~Handles(n)'
    OBVIOUS
  <2>1. n \in Numbers /\ ~Handles(n)
    BY <1>a, <1>0, <1>2
  <2> QED
    BY <1>1, <2>1
<1>3. ASSUME overdue \subseteq overdue', batch' = batch
      PROVE  OnceOK'
  <2> SUFFICES ASSUME NEW i \in DOMAIN batch', NEW j \in DOMAIN batch',
                      NEW n \in Numbers' \ overdue',
                      batch'[i] = n, batch'[j] = n, Handles(n)'
               PROVE  i = j
    OBVIOUS
  <2>1. i \in DOMAIN batch /\ j \in DOMAIN batch /\ batch[i] = n /\ batch[j] = n
    BY <1>3
  <2>2. n \in Numbers \ overdue /\ Handles(n)
    BY <1>0, <1>1, <1>3, <2>1
  <2> QED
    BY <1>a, <2>1, <2>2
<1>4. ASSUME overdue \subseteq overdue', batch' = batch, handled' = handled,
             loop' = loop \/ loop # "answer"
      PROVE  BatchOK' /\ OnceOK'
  <2>1. BatchOK'
    BY <1>a, <1>4
  <2> QED
    BY <1>3, <1>4, <2>1
<1>5. ASSUME batch' = << >>
      PROVE  BatchOK' /\ OnceOK'
  BY <1>5
<1>6. CASE Deliver
  <2>1. /\ HasNext /\ Advance /\ batch' = Append(batch, NextUp)
        /\ UNCHANGED << handled, overdue, repeated, loop, stream >>
    BY <1>6 DEF Deliver, Delivers, Requested, server, history
  <2>2. /\ NextUp \in Numbers
        /\ \A i \in DOMAIN rdq' : \E j \in DOMAIN rdq : rdq'[i] = rdq[j]
        /\ NextUp = next \/ \E j \in DOMAIN rdq : NextUp = rdq[j]
    BY <2>1, AdvanceTypes
  <2>3. QueuedOK'
    BY <1>2, <2>1, <2>2 DEF Queued
  <2>4. NextUp \notin overdue /\ Handles(NextUp) =>
          NextUp \notin handled /\ \A i \in DOMAIN batch : batch[i] # NextUp
    <3>1. CASE NextUp = next
      BY <1>0, <3>1 DEF AnswersInv
    <3>2. CASE \E j \in DOMAIN rdq : NextUp = rdq[j]
      BY <1>a, <3>2 DEF Queued
    <3> QED
      BY <2>2, <3>1, <3>2
  <2>5. NextUp \in handled => Handles(NextUp)
    BY DEF AnswersInv
  <2>6. /\ DOMAIN batch' = 1 .. Len(batch) + 1
        /\ \A i \in 1 .. Len(batch) : batch'[i] = batch[i]
        /\ batch'[Len(batch) + 1] = NextUp
    <3>1. /\ batch' \in Seq(Numbers) /\ Len(batch') = Len(batch) + 1
          /\ \A i \in 1 .. Len(batch) : batch'[i] = batch[i]
          /\ batch'[Len(batch) + 1] = NextUp
      BY <1>0, <2>1, <2>2, AppendProperties
    <3> QED
      BY <3>1, LenProperties
  <2>7. \A i \in DOMAIN batch' : (i \in DOMAIN batch /\ batch'[i] = batch[i])
                               \/ (i = Len(batch) + 1 /\ batch'[i] = NextUp)
    BY <1>0, <2>6
  <2>8. BatchOK'
    BY <1>a, <2>1, <2>4, <2>5, <2>7
  <2>9. OnceOK'
    <3> SUFFICES ASSUME NEW i \in DOMAIN batch', NEW j \in DOMAIN batch',
                        NEW n \in Numbers' \ overdue',
                        batch'[i] = n, batch'[j] = n, Handles(n)'
                 PROVE  i = j
      OBVIOUS
    <3>1. n \in Numbers \ overdue /\ Handles(n)
      BY <1>1, <2>1 DEF Numbers
    <3> QED
      BY <1>a, <2>4, <2>7, <3>1
  <2> QED
    BY <1>a, <1>b, <2>1, <2>3, <2>8, <2>9
<1>7. CASE DeliverLost \/ Skip
  <2>1. HasNext /\ Advance /\ UNCHANGED << handled, overdue, repeated, loop, batch >>
    BY <1>7 DEF DeliverLost, Delivers, Skip, Requested, client, history
  <2>2. \A i \in DOMAIN rdq' : \E j \in DOMAIN rdq : rdq'[i] = rdq[j]
    BY <2>1, AdvanceTypes
  <2>3. QueuedOK'
    BY <1>2, <2>1, <2>2 DEF Queued
  <2> QED
    BY <1>a, <1>b, <1>4, <2>1, <2>3
<1>8. ASSUME NEW n \in pending, RunOut(n)
      PROVE  OverdueInv'
  <2>1. /\ n \in pending \ Queued /\ rdq' = Append(rdq, n)
        /\ Handles(n) => n \in overdue'
        /\ overdue \subseteq overdue'
        /\ UNCHANGED << handled, repeated, loop, batch >>
    BY <1>8 DEF RunOut, client, history
  <2>2. \A i \in DOMAIN rdq' : (i \in DOMAIN rdq /\ rdq'[i] = rdq[i]) \/ rdq'[i] = n
    BY <2>1, AgainTypes
  <2>3. QueuedOK'
    BY <1>0, <1>2, <2>1, <2>2 DEF Queued
  <2> QED
    BY <1>a, <1>b, <1>4, <2>1, <2>3
<1>9. ASSUME NEW a \in acks, Arrives(a)
      PROVE  OverdueInv'
  <2>1. UNCHANGED << handled, overdue, repeated, loop, batch >>
    BY <1>9 DEF Arrives, client, history
  <2>2. \A i \in DOMAIN rdq' :
          (\E j \in DOMAIN rdq : rdq'[i] = rdq[j]) \/ (~a.ok /\ rdq'[i] = a.number)
    BY <1>9, ArrivesTypes
  <2>3. a.number \in Numbers /\ (~a.ok => ~Handles(a.number))
    BY DEF QueueTypeOK, Answer, AnswersInv
  <2>4. QueuedOK'
    BY <1>2, <2>1, <2>2, <2>3 DEF Queued
  <2> QED
    BY <1>a, <1>b, <1>4, <2>1, <2>4
<1>10. ASSUME UNCHANGED << rdq, overdue, repeated, handled >>,
              batch' = << >> \/ (batch' = batch /\ (loop' = loop \/ loop # "answer"))
       PROVE  OverdueInv'
  <2>1. QueuedOK'
    BY <1>2, <1>10 DEF Queued
  <2> QED
    BY <1>a, <1>b, <1>4, <1>5, <1>10, <2>1
<1>11. CASE Discard \/ (\E a \in acks : Lost(a)) \/ Subscribe \/ Fetch \/ LoopEnds
  BY <1>10, <1>11 DEF Discard, Lost, Subscribe, PullSubscribe, PullSubscribeFails, AddConsumer,
     AddConsumerFails, Goto, Fetch, LoopEnds, server, durable, client, history
<1>12. CASE (\E m \in Message : Store(m)) \/ (loop = "off" /\ Connect) \/ Close \/ Gone
            \/ UNCHANGED queueVars
  BY <1>10, <1>12 DEF Store, Connect, Close, Gone, queueVars, server, durable, client, history
<1>13. CASE handleMessage
  <2>1. /\ loop = "handle" /\ loop' = "answer" /\ batch # << >>
        /\ handled' = IF Handles(Head(batch)) THEN handled \cup {Head(batch)} ELSE handled
        /\ repeated' = IF Head(batch) \in handled \ overdue THEN repeated \cup {Head(batch)}
                       ELSE repeated
        /\ UNCHANGED << stream, rdq, batch, overdue >>
    BY <1>13 DEF handleMessage, server, durable, QueueTypeOK
  <2>2. Head(batch) = batch[1] /\ 1 \in DOMAIN batch
    BY <1>0, <2>1, EmptySeq
  <2>3. Head(batch) \notin handled \ overdue
    BY <1>a, <2>1, <2>2
  <2>4. BatchOK'
    <3> SUFFICES ASSUME NEW i \in DOMAIN batch, NEW n \in handled' \ overdue, batch[i] = n
                 PROVE  i = 1
      BY <2>1
    <3>1. n = batch[1] /\ Handles(n)
      BY <1>a, <2>1, <2>2
    <3>2. n \in Numbers
      BY <1>0, <3>1, <2>2
    <3> QED
      BY <1>a, <2>2, <3>1, <3>2
  <2>5. OnceOK' /\ QueuedOK'
    BY <1>2, <1>3, <2>1 DEF Queued
  <2> QED
    BY <1>a, <1>b, <2>1, <2>3, <2>4, <2>5
<1>14. CASE AckOrNak
  <2>1. /\ loop = "answer" /\ batch # << >> /\ batch' = Tail(batch)
        /\ UNCHANGED << stream, rdq, handled, overdue, repeated >>
    BY <1>14 DEF AckOrNak, Onward, server, durable, history, QueueTypeOK
  <2>2. DOMAIN batch' = 1 .. Len(batch) - 1 /\ \A i \in 1 .. Len(batch) - 1 : batch'[i] = batch[i + 1]
    <3>1. /\ Tail(batch) \in Seq(Numbers) /\ Len(Tail(batch)) = Len(batch) - 1
          /\ \A i \in 1 .. Len(Tail(batch)) : Tail(batch)[i] = batch[i + 1]
      BY <1>0, <2>1, HeadTailProperties
    <3>2. DOMAIN Tail(batch) = 1 .. Len(batch) - 1
      BY <3>1, LenProperties
    <3> QED
      BY <2>1, <3>1, <3>2
  <2>3. \A i \in DOMAIN batch' :
          i \in Nat /\ i + 1 \in DOMAIN batch /\ i + 1 # 1 /\ batch'[i] = batch[i + 1]
    BY <1>0, <2>2
  <2>4. BatchOK'
    BY <1>a, <2>1, <2>3
  <2>5. OnceOK'
    <3> SUFFICES ASSUME NEW i \in DOMAIN batch', NEW j \in DOMAIN batch',
                        NEW n \in Numbers' \ overdue',
                        batch'[i] = n, batch'[j] = n, Handles(n)'
                 PROVE  i = j
      OBVIOUS
    <3>1. n \in Numbers \ overdue /\ Handles(n)
      BY <1>1, <2>1 DEF Numbers
    <3>2. i + 1 = j + 1
      BY <1>a, <2>3, <3>1
    <3> QED
      BY <2>3, <3>2
  <2>6. QueuedOK'
    BY <1>2, <2>1 DEF Queued
  <2> QED
    BY <1>a, <1>b, <2>1, <2>4, <2>5, <2>6
<1> QED
  BY <1>6, <1>7, <1>8, <1>9, <1>11, <1>12, <1>13, <1>14
     DEF QueueMove, QueueStep, Server, processMessages

-----------------------------------------------------------------------------
(* In order. *)

\* The queue's numbers and its history only grow.
LEMMA QueueGrows ==
  ASSUME QueueTypeOK, QueueMove
  PROVE  /\ Numbers \subseteq Numbers' /\ Numbers \subseteq Nat
         /\ first \in Nat /\ first' \in Nat /\ first <= first'
         /\ next \in Nat \ {0} /\ next' \in Nat /\ next <= next'
         /\ handled \subseteq handled' /\ overdue \subseteq overdue'
PROOF
<1>1. /\ Len(stream) \in Nat /\ next \in Nat \ {0} /\ first \in Nat
      /\ stream \in Seq(Message)
  BY TypedSequences DEF QueueTypeOK
<1>2. first' \in Nat /\ next' \in Nat
  <2>1. QueueTypeOK'
    BY QueueMoveTypes
  <2>2. stream' \in Seq(Message) /\ first' \in 1 .. Len(stream') + 1 /\ next' \in 1 .. Len(stream') + 1
    BY <2>1 DEF QueueTypeOK
  <2> QED
    BY <2>2
<1>3. ASSUME NEW m \in Message, Store(m)
      PROVE  Len(stream') = Len(stream) + 1
  BY <1>1, <1>3, AppendProperties DEF Store
<1>4. Numbers \subseteq Numbers'
  <2>1. CASE UNCHANGED stream
    BY <2>1 DEF Numbers
  <2>2. CASE \E m \in Message : Store(m)
    BY <1>1, <1>3, <2>2 DEF Numbers
  <2>3. CASE QueueStep
    BY <2>1, <2>3 DEF QueueStep, Server, Discard, Deliver, DeliverLost, Skip, RunOut, Arrives, Lost,
       Subscribe, PullSubscribe, PullSubscribeFails, AddConsumer, AddConsumerFails, Goto,
       processMessages, Fetch, LoopEnds, handleMessage, AckOrNak, Onward, server
  <2> QED
    BY <2>1, <2>2, <2>3 DEF QueueMove, Connect, Close, Gone, queueVars, server
<1>5. CASE Deliver \/ DeliverLost \/ Skip
  <2>1. HasNext /\ Advance /\ UNCHANGED << first, handled, overdue >>
    BY <1>5 DEF Deliver, DeliverLost, Delivers, Skip, Requested, server, history
  <2> QED
    BY <1>1, <1>2, <1>4, <2>1, AdvanceTypes DEF Numbers
<1>6. CASE Discard \/ (\E n \in pending : RunOut(n)) \/ (\E a \in acks : Arrives(a) \/ Lost(a))
  BY <1>1, <1>2, <1>4, <1>6 DEF Discard, RunOut, Arrives, Lost, server, durable, history, Numbers
<1>7. CASE Subscribe \/ processMessages
  BY <1>1, <1>2, <1>4, <1>7 DEF Subscribe, PullSubscribe, PullSubscribeFails, AddConsumer,
     AddConsumerFails, Goto, processMessages, Fetch, LoopEnds, handleMessage, AckOrNak, Onward,
     server, durable, history, Numbers
<1>8. CASE (\E m \in Message : Store(m)) \/ Connect \/ Close \/ Gone \/ UNCHANGED queueVars
  BY <1>1, <1>2, <1>4, <1>8 DEF Store, Connect, Close, Gone, queueVars, server, durable, history,
     Numbers
<1> QED
  BY <1>5, <1>6, <1>7, <1>8 DEF QueueMove, QueueStep, Server

\* What was never delivered counts no delivery and has no answer, so that only what
\* was overdue or fails for ever is given up.
NewInv ==
  /\ \A a \in acks : a.number < next
  /\ \A n \in Numbers : n >= next => delivered[n] = 0
  /\ \A n \in givenUp : Handles(n) => n \in overdue

\* In a batch a message comes after older ones only, until it was handled or overdue.
BatchInv ==
  \A i, j \in DOMAIN batch :
    (j < i /\ Handles(batch[i]) /\ batch[i] \notin handled \cup overdue) => batch[j] < batch[i]

\* A step of the queue keeps the first of these.
LEMMA NewStep ==
  ASSUME QueueTypeOK, QueueMove, OverdueInv, NewInv
  PROVE  NewInv'
PROOF
<1>0. /\ Numbers \subseteq Nat /\ next \in Nat \ {0} /\ next' \in Nat /\ next <= next'
      /\ overdue \subseteq overdue'
  BY QueueGrows
<1>1. \A n \in Numbers : Handles(n)' <=> Handles(n)
  BY HandlesStays
<1>2. acks \subseteq Answer /\ givenUp \subseteq Numbers /\ Len(stream) \in Nat
  BY TypedSequences DEF QueueTypeOK
<1>3. ASSUME \A a \in acks' : a \in acks \/ a.number \in 1 .. next - 1
      PROVE  \A a \in acks' : a.number < next'
  <2> TAKE a \in acks'
  <2>1. a.number < next /\ a.number \in Nat
    <3>1. CASE a \in acks
      BY <1>0, <1>2, <3>1 DEF NewInv, Answer
    <3> QED
      BY <1>0, <1>3, <3>1
  <2> QED
    BY <1>0, <2>1
<1>4. ASSUME stream' = stream, delivered' = delivered, givenUp' = givenUp,
             \A a \in acks' : a \in acks \/ a.number \in 1 .. next - 1
      PROVE  NewInv'
  <2>1. Numbers' = Numbers
    BY <1>4 DEF Numbers
  <2>2. \A n \in Numbers' : n >= next' => delivered'[n] = 0
    BY <1>0, <1>4, <2>1 DEF NewInv
  <2>3. \A n \in givenUp' : Handles(n)' => n \in overdue'
    BY <1>0, <1>1, <1>2, <1>4 DEF NewInv
  <2>4. \A a \in acks' : a.number < next'
    BY <1>3, <1>4
  <2> QED
    BY <2>2, <2>3, <2>4 DEF NewInv
<1>5. CASE \E m \in Message : Store(m)
  <2>1. /\ Len(stream') = Len(stream) + 1 /\ delivered' = Append(delivered, 0)
        /\ UNCHANGED << next, acks, givenUp, overdue >>
    BY <1>5, AppendProperties DEF Store, QueueTypeOK
  <2>2. delivered \in Seq(0 .. MaxDeliver) /\ Len(delivered) = Len(stream) /\ 0 \in 0 .. MaxDeliver
    BY QueueAssumption DEF QueueTypeOK
  <2>3. /\ \A n \in 1 .. Len(delivered) : delivered'[n] = delivered[n]
        /\ delivered'[Len(delivered) + 1] = 0
    BY <2>1, <2>2, AppendProperties
  <2>4. \A n \in Numbers' : n >= next' => delivered'[n] = 0
    <3> TAKE n \in Numbers'
    <3>1. n \in Numbers \/ n = Len(delivered) + 1
      BY <1>2, <2>1, <2>2 DEF Numbers
    <3> QED
      BY <2>1, <2>2, <2>3, <3>1 DEF NewInv, Numbers
  <2>5. \A n \in givenUp' : Handles(n)' => n \in overdue'
    BY <1>1, <1>2, <2>1 DEF NewInv
  <2> QED
    BY <2>1, <2>4, <2>5 DEF NewInv
<1>6. CASE Deliver \/ DeliverLost
  <2>1. /\ HasNext /\ Advance /\ UNCHANGED << stream, acks, givenUp, overdue >>
        /\ delivered' = IF consumer = "limited"
                        THEN [delivered EXCEPT ![NextUp] = delivered[NextUp] + 1] ELSE delivered
    BY <1>6 DEF Deliver, DeliverLost, Delivers, Requested, server, history
  <2>2. NextUp \in 1 .. next' - 1
    BY <2>1, AdvanceTypes
  <2>3. DOMAIN delivered = Numbers /\ Numbers' = Numbers
    BY <2>1, TypedSequences DEF Numbers
  <2>4. \A n \in Numbers : n # NextUp => delivered'[n] = delivered[n]
    BY <2>1, <2>3
  <2>5. \A n \in Numbers' : n >= next' => delivered'[n] = 0
    <3> TAKE n \in Numbers'
    <3> HAVE n >= next'
    <3>1. n \in Numbers /\ n \in Nat
      BY <1>0, <2>3
    <3>2. n >= next
      BY <1>0, <3>1
    <3>3. n # NextUp
      <4>1. PICK u : u = NextUp
        OBVIOUS
      <4>2. u \in 1 .. next' - 1
        BY <2>2, <4>1
      <4>3. PICK k \in Nat : k = next'
        BY <1>0
      <4>4. u \in 1 .. k - 1
        BY <4>2, <4>3, Zenon
      <4>5. u < k
        BY <4>4
      <4> QED
        BY <3>1, <4>1, <4>3, <4>5
    <3> QED
      BY <2>4, <3>1, <3>2, <3>3 DEF NewInv
  <2>6. \A n \in givenUp' : Handles(n)' => n \in overdue'
    BY <1>1, <1>2, <2>1 DEF NewInv
  <2> QED
    BY <1>3, <2>1, <2>5, <2>6 DEF NewInv
<1>7. CASE Skip
  <2>1. /\ HasNext /\ Advance /\ UNCHANGED << stream, acks, delivered, overdue >>
        /\ givenUp' = givenUp \/ (Exhausted(NextUp) /\ givenUp' = givenUp \cup {NextUp})
    BY <1>7 DEF Skip, Requested, server, history
  <2>2. /\ NextUp \in Numbers
        /\ NextUp = next \/ \E j \in DOMAIN rdq : NextUp = rdq[j]
    BY <2>1, AdvanceTypes
  <2>3. Exhausted(NextUp) => NextUp # next
    <3>1. MaxDeliver # 0
      BY QueueAssumption
    <3>2. \A n \in Numbers : n = next => delivered[n] = 0
      BY <1>0 DEF NewInv
    <3> QED
      BY <2>2, <3>1, <3>2 DEF Exhausted
  <2>4. Exhausted(NextUp) /\ Handles(NextUp) => NextUp \in overdue
    BY <2>2, <2>3 DEF OverdueInv, Queued
  <2>5. \A n \in givenUp' : Handles(n)' => n \in overdue'
    <3> TAKE n \in givenUp'
    <3>1. (n \in givenUp \/ (n = NextUp /\ Exhausted(n))) /\ n \in Numbers
      BY <1>2, <2>1, <2>2
    <3> QED
      BY <1>1, <2>1, <2>4, <3>1 DEF NewInv
  <2>6. \A n \in Numbers' : n >= next' => delivered'[n] = 0
    BY <1>0, <2>1 DEF NewInv, Numbers
  <2> QED
    BY <1>3, <2>1, <2>5, <2>6 DEF NewInv
<1>8. CASE Discard \/ (\E n \in pending : RunOut(n)) \/ (\E a \in acks : Arrives(a) \/ Lost(a))
  BY <1>4, <1>8 DEF Discard, RunOut, Arrives, Lost, server, durable
<1>9. CASE Subscribe
  BY <1>4, <1>9 DEF Subscribe, PullSubscribe, PullSubscribeFails, AddConsumer, AddConsumerFails,
     Goto, server
<1>10. CASE Fetch \/ LoopEnds \/ handleMessage
  BY <1>4, <1>10 DEF Fetch, LoopEnds, Goto, handleMessage, server, durable
<1>11. CASE AckOrNak
  <2>1. /\ acks' \subseteq acks \cup {[number |-> Head(batch), ok |-> Handles(Head(batch))]}
        /\ UNCHANGED << stream, delivered, givenUp >> /\ loop = "answer"
    BY <1>11 DEF AckOrNak, Onward, server, durable
  <2>2. batch # << >> /\ batch \in Seq(1 .. next - 1)
    BY <2>1 DEF QueueTypeOK
  <2>3. Head(batch) \in 1 .. next - 1
    BY <2>2, HeadTailProperties
  <2>4. \A a \in acks' : a \in acks \/ a.number \in 1 .. next - 1
    BY <1>0, <2>1, <2>3
  <2> QED
    BY <1>4, <2>1, <2>4
<1>12. CASE Connect \/ Close \/ Gone \/ UNCHANGED queueVars
  BY <1>4, <1>12 DEF Connect, Close, Gone, queueVars, server, durable
<1> QED
  BY <1>5, <1>6, <1>7, <1>8, <1>9, <1>10, <1>11, <1>12
     DEF QueueMove, QueueStep, Server, processMessages

\* A step of the queue keeps the order of a batch.
LEMMA BatchStep ==
  ASSUME QueueTypeOK, QueueMove, OverdueInv, BatchInv
  PROVE  BatchInv'
PROOF
<1>0. /\ handled \subseteq handled' /\ overdue \subseteq overdue' /\ next \in Nat \ {0}
  BY QueueGrows
<1>1. /\ \A i \in DOMAIN batch : batch[i] \in Numbers /\ batch[i] \in Nat /\ batch[i] < next
      /\ DOMAIN batch = 1 .. Len(batch) /\ Len(batch) \in Nat
      /\ batch \in Seq(Numbers)
  <2>1. DOMAIN batch = 1 .. Len(batch) /\ Len(batch) \in Nat
    BY TypedSequences, LenProperties
  <2>2. \A i \in DOMAIN batch : batch[i] \in 1 .. next - 1
    BY TypedSequences
  <2>3. \A i \in DOMAIN batch : batch[i] \in Nat /\ batch[i] < next
    BY <1>0, <2>2
  <2>4. 1 .. next - 1 \subseteq Numbers /\ batch \in Seq(Numbers)
    BY TypedSequences
  <2> QED
    BY <2>1, <2>2, <2>3, <2>4
<1>2. \A n \in Numbers : Handles(n)' <=> Handles(n)
  BY HandlesStays
<1>3. ASSUME batch' = batch
      PROVE  BatchInv'
  <2> SUFFICES ASSUME NEW i \in DOMAIN batch, NEW j \in DOMAIN batch, j < i,
                      stream'[batch'[i]] \in Valid, batch[i] \notin handled' \cup overdue'
               PROVE  batch[j] < batch[i]
    BY <1>3 DEF BatchInv, Handles
  <2>1. PICK n \in Numbers : n = batch[i]
    BY <1>1
  <2>2. Handles(n)'
    BY <1>3, <2>1 DEF Handles
  <2>3. Handles(n)
    BY <1>2, <2>2
  <2> QED
    BY <1>0, <2>1, <2>3 DEF BatchInv
<1>4. ASSUME batch' = << >>
      PROVE  BatchInv'
  BY <1>4 DEF BatchInv
<1>5. CASE Deliver
  <2>1. HasNext /\ Advance /\ batch' = Append(batch, NextUp)
        /\ UNCHANGED << handled, overdue, stream >>
    BY <1>5 DEF Deliver, Delivers, Requested, server, history
  <2>2. /\ NextUp \in Numbers
        /\ NextUp = next \/ \E j \in DOMAIN rdq : NextUp = rdq[j]
    BY <2>1, AdvanceTypes
  <2>3. /\ batch' \in Seq(Numbers) /\ Len(batch') = Len(batch) + 1
        /\ \A i \in 1 .. Len(batch) : batch'[i] = batch[i]
        /\ batch'[Len(batch) + 1] = NextUp
    BY <1>1, <2>1, <2>2, AppendProperties
  <2>4. DOMAIN batch' = 1 .. Len(batch) + 1
    BY <2>3, LenProperties
  <2>5. NextUp \notin overdue /\ Handles(NextUp) => NextUp = next
    BY <2>2 DEF OverdueInv, Queued
  <2> SUFFICES ASSUME NEW i \in DOMAIN batch', NEW j \in DOMAIN batch', j < i,
                      stream'[batch'[i]] \in Valid, batch'[i] \notin handled \cup overdue
               PROVE  batch'[j] < batch'[i]
    BY <2>1 DEF BatchInv, Handles
  <2>6. j \in DOMAIN batch /\ batch'[j] = batch[j]
    BY <1>1, <2>3, <2>4
  <2>7. PICK n \in Numbers : n = batch'[i]
    BY <1>1, <2>2, <2>3, <2>4
  <2>8. Handles(n)
    <3>1. Handles(n)'
      BY <2>7 DEF Handles
    <3> QED
      BY <1>2, <3>1
  <2>9. CASE i \in DOMAIN batch
    <3>1. n = batch[i]
      BY <1>1, <2>3, <2>7, <2>9
    <3> QED
      BY <2>6, <2>7, <2>8, <2>9, <3>1 DEF BatchInv
  <2>10. CASE i \notin DOMAIN batch
    <3>1. n = NextUp
      BY <1>1, <2>3, <2>4, <2>7, <2>10
    <3>2. n = next
      BY <2>5, <2>7, <2>8, <3>1
    <3> QED
      BY <1>1, <2>6, <2>7, <3>2
  <2> QED
    BY <2>9, <2>10
<1>6. CASE AckOrNak
  <2>1. /\ batch # << >> /\ batch' = Tail(batch) /\ UNCHANGED << stream, handled, overdue >>
    BY <1>6 DEF AckOrNak, Onward, server, durable, history, QueueTypeOK
  <2>2. /\ Tail(batch) \in Seq(Numbers) /\ Len(Tail(batch)) = Len(batch) - 1
        /\ \A i \in 1 .. Len(Tail(batch)) : Tail(batch)[i] = batch[i + 1]
    BY <1>1, <2>1, HeadTailProperties
  <2>3. DOMAIN Tail(batch) = 1 .. Len(batch) - 1
    BY <2>2, LenProperties
  <2>4. \A i \in DOMAIN batch' : i \in Nat /\ i + 1 \in DOMAIN batch /\ batch'[i] = batch[i + 1]
    BY <1>1, <2>1, <2>2, <2>3
  <2> SUFFICES ASSUME NEW i \in DOMAIN batch', NEW j \in DOMAIN batch', j < i,
                      stream'[batch'[i]] \in Valid, batch'[i] \notin handled \cup overdue
               PROVE  batch'[j] < batch'[i]
    BY <2>1 DEF BatchInv, Handles
  <2>5. PICK n \in Numbers : n = batch'[i] /\ n = batch[i + 1]
    BY <1>1, <2>4
  <2>6. Handles(n)
    <3>1. Handles(n)'
      BY <2>5 DEF Handles
    <3> QED
      BY <1>2, <3>1
  <2>7. j + 1 < i + 1
    BY <2>4
  <2>8. batch[j + 1] < batch[i + 1]
    BY <2>4, <2>5, <2>6, <2>7 DEF BatchInv
  <2> QED
    BY <2>4, <2>8
<1>7. CASE Server
  BY <1>3, <1>5, <1>7 DEF Server, Discard, DeliverLost, Skip, RunOut, Arrives, Lost, client
<1>8. CASE Subscribe \/ Fetch \/ LoopEnds \/ handleMessage
  BY <1>3, <1>8 DEF Subscribe, PullSubscribe, PullSubscribeFails, AddConsumer, AddConsumerFails,
     Goto, Fetch, LoopEnds, handleMessage
<1>9. CASE (\E m \in Message : Store(m)) \/ Connect \/ Close \/ Gone \/ UNCHANGED queueVars
  BY <1>3, <1>4, <1>9 DEF Store, Connect, Close, Gone, queueVars, client
<1> QED
  BY <1>6, <1>7, <1>8, <1>9 DEF QueueMove, QueueStep, processMessages

\* A step of the queue keeps the order: what is handled or answered now was the
\* first of its batch, and an earlier message that waits was not in it.
LEMMA InOrderStep ==
  ASSUME QueueTypeOK, QueueMove, AnswersInv, OverdueInv, NothingIsForgotten, NewInv, BatchInv,
         HandledInOrder
  PROVE  HandledInOrder'
PROOF
<1> DEFINE Seen == handled \cup {a.number : a \in acks}
           Waits(m) == /\ m \in Numbers /\ first <= m /\ Handles(m)
                       /\ m \notin handled \cup overdue
           Away(m) == m \in pending /\ ~OnItsWay(m)
<1>0. /\ Numbers \subseteq Numbers' /\ Numbers \subseteq Nat
      /\ first \in Nat /\ first' \in Nat /\ first <= first'
      /\ next \in Nat \ {0} /\ next' \in Nat /\ next <= next'
      /\ handled \subseteq handled' /\ overdue \subseteq overdue'
  BY QueueGrows
<1>1. \A n \in Numbers : Handles(n)' <=> Handles(n)
  BY HandlesStays
<1>2. /\ handled \subseteq Numbers /\ acks \subseteq Answer /\ Seen \subseteq Numbers
      /\ \A n \in Seen : n < next
  BY DEF QueueTypeOK, Answer, AnswersInv, NewInv
<1>3. \A n \in Seen : \A m : Waits(m) /\ m < n => Away(m)
  BY DEF HandledInOrder
<1>4. (\A n \in Seen' : \A m : Waits(m)' /\ m < n => Away(m)') => HandledInOrder'
  BY DEF HandledInOrder
<1>5. \A m \in Numbers : Waits(m)' => Waits(m)
  BY <1>0, <1>1
<1>6. \A n \in Seen : \A m : Waits(m)' /\ m < n => m \in Numbers /\ Waits(m) /\ Away(m)
  <2> TAKE n \in Seen
  <2> TAKE m
  <2> HAVE Waits(m)' /\ m < n
  <2>1. m \in Numbers' /\ n \in 1 .. Len(stream) /\ Len(stream) \in Nat
    BY <1>2, TypedSequences DEF Numbers
  <2>2. m \in 1 .. Len(stream)
    <3>1. stream' \in Seq(Message) /\ m \in 1 .. Len(stream')
      BY <2>1, QueueMoveTypes DEF Numbers, QueueTypeOK
    <3> QED
      BY <2>1, <3>1
  <2>3. m \in Numbers
    BY <2>2 DEF Numbers
  <2> QED
    BY <1>3, <1>5, <2>3
<1> HIDE DEF Waits, Away
<1>7. ASSUME Seen' \subseteq Seen, \A m \in Numbers : Waits(m) /\ Away(m) => Away(m)'
      PROVE  HandledInOrder'
  BY <1>4, <1>6, <1>7
<1>8. \A m \in Numbers : Waits(m) /\ m < next => m \in pending /\ m \notin {a.number : a \in acks}
  <2> TAKE m \in Numbers
  <2> HAVE Waits(m) /\ m < next
  <2>1. m \notin givenUp /\ m \notin handled /\ Handles(m) /\ first <= m
    BY DEF Waits, NewInv
  <2>2. m \in pending
    BY <1>0, <2>1 DEF NothingIsForgotten
  <2> QED
    BY <2>1, <2>2 DEF AnswersInv
<1>9. CASE (\E m \in Message : Store(m)) \/ Discard \/ (\E n \in pending : RunOut(n))
            \/ Subscribe \/ Fetch \/ LoopEnds \/ Connect \/ Close \/ Gone \/ UNCHANGED queueVars
  <2>1. /\ acks' = acks /\ handled' = handled /\ pending' = pending
        /\ batch' = batch \/ batch' = << >>
    BY <1>9 DEF Store, Discard, RunOut, Subscribe, PullSubscribe, PullSubscribeFails, AddConsumer,
       AddConsumerFails, Goto, Fetch, LoopEnds, Connect, Close, Gone, queueVars, server, durable,
       client, history
  <2>2. \A m \in Numbers : Waits(m) /\ Away(m) => Away(m)'
    BY <2>1 DEF Away, OnItsWay
  <2> QED
    BY <1>7, <2>1, <2>2
<1>10. CASE Deliver \/ DeliverLost \/ Skip
  <2>1. /\ HasNext /\ Advance /\ acks' = acks /\ handled' = handled
        /\ batch' = batch \/ batch' = Append(batch, NextUp)
        /\ pending \ {NextUp} \subseteq pending'
    BY <1>10 DEF Deliver, DeliverLost, Delivers, Skip, Requested, client, history
  <2>2. \A m \in Numbers : Waits(m) /\ m \in pending => m # NextUp
    <3> TAKE m \in Numbers
    <3> HAVE Waits(m) /\ m \in pending
    <3>1. m \notin Queued
      BY DEF Waits, OverdueInv
    <3>2. m < next
      BY <1>0 DEF QueueTypeOK
    <3> QED
      BY <1>0, <2>1, <3>1, <3>2, AdvanceTypes DEF Queued
  <2>3. \A i \in DOMAIN batch' : (i \in DOMAIN batch /\ batch'[i] = batch[i]) \/ batch'[i] = NextUp
    <3>1. CASE batch' = batch
      BY <3>1
    <3>2. CASE batch' = Append(batch, NextUp)
      <4>1. batch \in Seq(Numbers) /\ NextUp \in Numbers
        BY <2>1, AdvanceTypes, TypedSequences
      <4>2. /\ batch' \in Seq(Numbers) /\ Len(batch') = Len(batch) + 1
            /\ \A i \in 1 .. Len(batch) : batch'[i] = batch[i]
            /\ batch'[Len(batch) + 1] = NextUp
        BY <3>2, <4>1, AppendProperties
      <4>3. DOMAIN batch' = 1 .. Len(batch) + 1 /\ DOMAIN batch = 1 .. Len(batch)
            /\ Len(batch) \in Nat
        BY <4>1, <4>2, LenProperties
      <4> QED
        BY <4>2, <4>3
    <3> QED
      BY <2>1, <3>1, <3>2
  <2>4. \A m \in Numbers : Waits(m) /\ Away(m) => Away(m)'
    BY <2>1, <2>2, <2>3 DEF Away, OnItsWay
  <2> QED
    BY <1>7, <2>1, <2>4
<1>11. ASSUME NEW a \in acks, Arrives(a) \/ Lost(a)
       PROVE  HandledInOrder'
  <2>1. /\ acks' = acks \ {a} /\ handled' = handled /\ batch' = batch
        /\ pending \ {a.number} \subseteq pending'
    BY <1>11 DEF Arrives, Lost, durable, client, history
  <2>2. \A m \in Numbers : Waits(m) /\ Away(m) => Away(m)'
    BY <2>1 DEF Away, OnItsWay
  <2> QED
    BY <1>7, <2>1, <2>2
<1>12. \A m \in Numbers : (Waits(m) /\ m < Head(batch) /\ batch # << >>) => Away(m)
  <2> TAKE m \in Numbers
  <2> HAVE Waits(m) /\ m < Head(batch) /\ batch # << >>
  <2>1. /\ DOMAIN batch = 1 .. Len(batch) /\ Len(batch) \in Nat /\ Head(batch) = batch[1]
        /\ 1 \in DOMAIN batch /\ \A i \in DOMAIN batch : batch[i] \in 1 .. next - 1
    BY TypedSequences, LenProperties, EmptySeq
  <2>2. m < next /\ m \in Nat
    BY <1>0, <2>1
  <2>3. ASSUME NEW i \in DOMAIN batch, batch[i] = m
        PROVE  FALSE
    <3>1. i # 1 /\ batch[1] \in Nat
      BY <2>1, <2>2, <2>3
    <3>2. batch[1] < batch[i]
      BY <2>1, <2>3, <3>1 DEF BatchInv, Waits
    <3> QED
      BY <2>1, <2>2, <2>3, <3>1, <3>2
  <2> QED
    BY <1>8, <2>2, <2>3 DEF Away, OnItsWay
<1>13. ASSUME batch # << >>, Seen' \subseteq Seen \cup {Head(batch)},
              \A m \in Numbers : Waits(m) /\ Away(m) => Away(m)',
              stream' = stream
       PROVE  HandledInOrder'
  <2> SUFFICES ASSUME NEW n \in Seen', NEW m, Waits(m)', m < n
               PROVE  Away(m)'
    BY <1>4
  <2>1. CASE n \in Seen
    BY <1>6, <1>13, <2>1
  <2>2. CASE n = Head(batch)
    <3>1. m \in Numbers
      BY <1>13 DEF Waits, Numbers
    <3> QED
      BY <1>5, <1>12, <1>13, <2>2, <3>1
  <2> QED
    BY <1>13, <2>1, <2>2
<1>14. CASE handleMessage
  <2>1. /\ loop = "handle" /\ acks' = acks /\ batch' = batch /\ pending' = pending
        /\ handled' \subseteq handled \cup {Head(batch)} /\ stream' = stream
    BY <1>14 DEF handleMessage, server, durable
  <2>2. \A m \in Numbers : Waits(m) /\ Away(m) => Away(m)'
    BY <2>1 DEF Away, OnItsWay
  <2>3. batch # << >>
    BY <2>1 DEF QueueTypeOK
  <2> QED
    BY <1>13, <2>1, <2>2, <2>3
<1>15. CASE AckOrNak
  <2>1. /\ loop = "answer" /\ batch' = Tail(batch) /\ pending' = pending
        /\ acks' \subseteq acks \cup {[number |-> Head(batch), ok |-> Handles(Head(batch))]}
        /\ handled' = handled /\ stream' = stream
    BY <1>15 DEF AckOrNak, Onward, server, durable, history
  <2>2. batch # << >> /\ batch \in Seq(Numbers)
    BY <2>1, TypedSequences DEF QueueTypeOK
  <2>3. /\ Tail(batch) \in Seq(Numbers) /\ Len(Tail(batch)) = Len(batch) - 1
        /\ \A i \in 1 .. Len(Tail(batch)) : Tail(batch)[i] = batch[i + 1]
    BY <2>2, HeadTailProperties
  <2>4. /\ DOMAIN Tail(batch) = 1 .. Len(batch) - 1 /\ DOMAIN batch = 1 .. Len(batch)
        /\ Len(batch) \in Nat /\ Head(batch) = batch[1] /\ 1 \in DOMAIN batch
    BY <2>2, <2>3, LenProperties, EmptySeq
  <2>5. \A i \in DOMAIN batch' : i + 1 \in DOMAIN batch /\ batch'[i] = batch[i + 1]
    BY <2>1, <2>3, <2>4
  <2>6. \A m \in Numbers : Waits(m) /\ Away(m) => Away(m)'
    <3> TAKE m \in Numbers
    <3> HAVE Waits(m) /\ Away(m)
    <3>1. m \in pending' /\ m # Head(batch) /\ \A i \in DOMAIN batch' : batch'[i] # m
      BY <2>1, <2>4, <2>5 DEF Away, OnItsWay
    <3>2. \A a \in acks' : a.number # m
      BY <2>1, <3>1 DEF Away, OnItsWay
    <3> QED
      BY <3>1, <3>2 DEF Away, OnItsWay
  <2>7. Seen' \subseteq Seen \cup {Head(batch)}
    BY <2>1
  <2> QED
    BY <1>13, <2>1, <2>2, <2>6, <2>7
<1> QED
  BY <1>9, <1>10, <1>11, <1>14, <1>15 DEF QueueMove, QueueStep, Server, processMessages

-----------------------------------------------------------------------------
(* The theorems. *)

\* Nothing is lost between the stream and the handler: in every state a message
\* that is neither discarded, handled nor given up is still the consumer's.
THEOREM AtLeastOnce == Spec => []NothingIsForgotten
PROOF
<1> DEFINE Inv == AnswersInv /\ NothingIsForgotten
<1>1. Init => Inv
  <2>1. Len(<< >>) = 0
    OBVIOUS
  <2> QED
    BY <2>1 DEF Init, QueueInit, AnswersInv, NothingIsForgotten, Numbers
<1>2. TypeOK /\ Inv /\ [Next]_vars => Inv'
  BY NextMoves, AnswersStep, ForgottenStep DEF TypeOK
<1> QED
  BY <1>1, <1>2, Typing, PTL DEF Spec

\* What was acknowledged in time is never handled again, whatever is lost, late or
\* fetched in which order, in one process or after a crash in the next.
THEOREM TwiceOnlyIfOverdue == Spec => []HandledTwiceOnlyIfOverdue
PROOF
<1> DEFINE Inv == AnswersInv /\ OverdueInv
<1>1. Init => Inv
  <2>1. DOMAIN << >> = {}
    OBVIOUS
  <2> QED
    BY <2>1 DEF Init, QueueInit, AnswersInv, OverdueInv, HandledTwiceOnlyIfOverdue, Queued
<1>2. TypeOK /\ Inv /\ [Next]_vars => Inv'
  BY NextMoves, AnswersStep, OverdueStep DEF TypeOK
<1>3. Inv => HandledTwiceOnlyIfOverdue
  BY DEF OverdueInv
<1> QED
  BY <1>1, <1>2, <1>3, Typing, PTL DEF Spec

\* Messages are handled in the order of the stream, whatever is delivered again,
\* late or to which process: an earlier one that can be handled was, or its delivery
\* is lost or its timer has run out.
THEOREM InOrder == Spec => []HandledInOrder
PROOF
<1> DEFINE Inv == /\ AnswersInv /\ OverdueInv /\ NothingIsForgotten
                  /\ NewInv /\ BatchInv /\ HandledInOrder
<1>1. Init => Inv
  <2>1. DOMAIN << >> = {} /\ Len(<< >>) = 0
    OBVIOUS
  <2> QED
    BY <2>1 DEF Init, QueueInit, AnswersInv, OverdueInv, HandledTwiceOnlyIfOverdue, Queued,
       NothingIsForgotten, Numbers, NewInv, BatchInv, HandledInOrder
<1>2. TypeOK /\ Inv /\ [Next]_vars => Inv'
  BY NextMoves, AnswersStep, OverdueStep, ForgottenStep, NewStep, BatchStep, InOrderStep DEF TypeOK
<1> QED
  BY <1>1, <1>2, Typing, PTL DEF Spec
=============================================================================
