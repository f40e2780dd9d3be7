-------------------------- MODULE CorrelatorProofs --------------------------
(***************************************************************************)
(* Proofs about Correlator, for every set of deliveries, every labelling,  *)
(* every window and any number of concurrent calls.                        *)
(*                                                                         *)
(* None of the safety properties is inductive: each is about the store,    *)
(* and a call is about to overwrite the store with a copy it read earlier. *)
(* The invariants below say what those copies hold.                        *)
(***************************************************************************)
EXTENDS Correlator, IncidentsProofs, SequenceTheorems, TLAPS

\* The calls that hold or have held an incident of their own.
Written == {a \in Alert : pc[a] \in {"save", "ok"}}

\* The calls about to write.
Writing == {a \in Alert : pc[a] = "save"}

\* What a call writes is an open incident of the alert's key that holds it.
WrittenInv ==
  \A a \in Written :
    /\ inc[a] \in Incident
    /\ inc[a].id \in issued
    /\ inc[a].key = KeyOf(a)
    /\ inc[a].state = "open"
    /\ a \in Range(inc[a].alerts)

\* The store is a map from ids to open incidents.
StoreInv ==
  /\ \A i, j \in incidents : i.id = j.id => i = j
  /\ \A i \in incidents : i.id \in issued /\ i.state = "open"

\* The clock is past everything that was read from it.
ClockInv ==
  /\ \A t \in issued : t <= clock
  /\ \A a \in Alert : now[a] <= clock

\* Two calls of one key in flight are both recorded as overlapping.
RivalsInv ==
  \A a, b \in InFlight : (a # b /\ KeyOf(a) = KeyOf(b)) => a \in overlapped

\* The alerts of an incident are those of acknowledged calls, and have its id
\* and its key; a copy about to be written adds the alert of its own call.
AlertsInv ==
  /\ \A i \in incidents : \A a \in Range(i.alerts) :
       a \in Acknowledged /\ inc[a].id = i.id /\ KeyOf(a) = i.key
  /\ \A b \in Writing : \A a \in Range(inc[b].alerts) :
       /\ a \in Acknowledged \/ a = b
       /\ inc[a].id = inc[b].id
       /\ KeyOf(a) = inc[b].key

IInv0 ==
  TypeOK /\ WrittenInv /\ StoreInv /\ ClockInv /\ RivalsInv /\ AlertsInv

\* Under an id drawn once there are incidents of one key only.
KeyInv ==
  /\ \A i \in incidents : \A a \in Written :
       (i.id = inc[a].id /\ i.id \notin collided) => i.key = inc[a].key
  /\ \A a, b \in Written :
       (inc[a].id = inc[b].id /\ inc[a].id \notin collided)
          => inc[a].key = inc[b].key

\* An acknowledged alert that nothing overlapped is also in every copy that
\* will overwrite its incident.
CopiesKeepInv ==
  \A a \in Acknowledged \ overlapped, b \in Writing :
    (inc[a].id = inc[b].id /\ inc[a].id \notin collided)
      => a \in Range(inc[b].alerts)

\* Of a key that never overlapped: while a call is about to create an incident
\* the window of every stored one has passed, and what a call is about to write
\* replaces the last of them or comes a window after it.
ApartInv ==
  \A b \in Alert : \A i \in incidents :
    (i.key = KeyOf(b) /\ i.key \notin OverlappedKeys) =>
      /\ pc[b] = "create" => i.lastAlertAt + Window < clock
      /\ pc[b] = "save" =>
           \/ i.id = inc[b].id
           \/ i.id < inc[b].id /\ i.lastAlertAt + Window < inc[b].id

\* Of a key that never overlapped: a call in flight read the clock no earlier
\* than the calls of the alerts already stored.
NewestInv ==
  /\ \A b \in InFlight : \A i \in incidents :
       (i.key = KeyOf(b) /\ i.key \notin OverlappedKeys) =>
          \A a \in Range(i.alerts) : now[a] <= now[b]
  /\ \A b \in Writing :
       KeyOf(b) \notin OverlappedKeys =>
          \A a \in Range(inc[b].alerts) : now[a] <= inc[b].lastAlertAt

IInv == /\ IInv0
        /\ KeyInv /\ CopiesKeepInv /\ AcknowledgedAlertsAreKept
        /\ ApartInv /\ IncidentsAreAWindowApart
        /\ NewestInv /\ LastAlertAtIsNewest
-----------------------------------------------------------------------------
(* The operators. *)

LEMMA FoundIsCandidate ==
  ASSUME NEW store, NEW k, NEW t,
         NEW c \in FindOpenByCorrelationKey(store, k, t)
  PROVE  c \in store /\ c.key = k /\ t <= c.lastAlertAt + Window
  BY DEF FindOpenByCorrelationKey, Candidates

-----------------------------------------------------------------------------
(* Type correctness. *)

LEMMA TypeInit == Init => TypeOK
  BY IncidentsAssumption DEF Init, TypeOK, Time

LEMMA TypeStep == TypeOK /\ [Next]_vars => TypeOK'
  <1>. SUFFICES ASSUME TypeOK, [Next]_vars
                PROVE  TypeOK'
    OBVIOUS
  <1>. USE DEF TypeOK
  <1>1. CASE Tick
    BY <1>1, IncidentsAssumption DEF Tick, Time, history
  <1>2. ASSUME NEW a \in Alert, Receive(a)
        PROVE  TypeOK'
    <2>1. Rivals(a) \subseteq Alert
      BY DEF Rivals, InFlight
    <2>. QED  BY <1>2, <2>1 DEF Receive
  <1>3. ASSUME NEW a \in Alert, FindExisting(a)
        PROVE  TypeOK'
    <2>1. PICK c \in FindOpenByCorrelationKey(incidents, KeyOf(a), clock) :
            inc' = [inc EXCEPT ![a] = Joined(c, a, now[a])]
      BY <1>3 DEF FindExisting
    <2>2. Joined(c, a, now[a]) \in Incident
      BY FoundIsCandidate, JoinedType
    <2>. QED  BY <1>3, <2>1, <2>2 DEF FindExisting, history
  <1>4. ASSUME NEW a \in Alert, FindNothing(a)
        PROVE  TypeOK'
    BY <1>4 DEF FindNothing, history
  <1>5. ASSUME NEW a \in Alert, Fail(a)
        PROVE  TypeOK'
    BY <1>5, IncidentsAssumption DEF Fail, history, Time
  <1>6. ASSUME NEW a \in Alert, Create(a)
        PROVE  TypeOK'
    <2>1. NewIncident(a, clock, now[a]) \in Incident
      BY NewIncidentType
    <2>. QED  BY <1>6, <2>1 DEF Create
  <1>7. ASSUME NEW a \in Alert, SaveSucceeds(a)
        PROVE  TypeOK'
    BY <1>7 DEF SaveSucceeds, Save, history
  <1>8. CASE UNCHANGED vars
    BY <1>8 DEF vars
  <1>. QED
    BY <1>1, <1>2, <1>3, <1>4, <1>5, <1>6, <1>7, <1>8
    DEF Next, ProcessAlert, Find, FindFails, SaveFails

\* Every variable keeps its type.
THEOREM Typing == Spec => []TypeOK
  BY TypeInit, TypeStep, PTL DEF Spec
-----------------------------------------------------------------------------
(* Ids, keys and alerts of the incidents and of the copies. *)

LEMMA IInv0Init == Init => IInv0
  BY TypeInit
  DEF Init, IInv0, WrittenInv, StoreInv, ClockInv, RivalsInv, AlertsInv,
      Written, Writing, InFlight, Acknowledged

LEMMA IInv0Receive ==
  ASSUME IInv0, TypeOK', NEW a \in Alert, Receive(a)
  PROVE  IInv0'
  <1>. USE DEF IInv0, Receive, TypeOK
  <1>1. WrittenInv'
    BY DEF WrittenInv, Written
  <1>2. StoreInv'
    BY DEF StoreInv
  <1>3. ClockInv'
    BY DEF ClockInv, Time
  <1>4. RivalsInv'
    <2>1. InFlight' = InFlight \cup {a}
      BY DEF InFlight
    <2>. QED  BY <2>1 DEF RivalsInv, Rivals
  <1>5. AlertsInv'
    BY DEF AlertsInv, Acknowledged, Writing
  <1>. QED  BY <1>1, <1>2, <1>3, <1>4, <1>5

\* What the copy of call a is once its alert joined incident c.
JoinedCopy(a, c) ==
  /\ c.key = KeyOf(a)
  /\ clock <= c.lastAlertAt + Window
  /\ inc'[a] \in Incident
  /\ inc'[a].id = c.id
  /\ inc'[a].key = c.key
  /\ inc'[a].state = c.state
  /\ inc'[a].lastAlertAt = now[a]
  /\ Range(inc'[a].alerts) = Range(c.alerts) \cup {a}

LEMMA FoundAndJoined ==
  ASSUME TypeOK, NEW a \in Alert, FindExisting(a)
  PROVE  \E c \in incidents : JoinedCopy(a, c)
  <1>1. PICK c \in FindOpenByCorrelationKey(incidents, KeyOf(a), clock) :
          inc' = [inc EXCEPT ![a] = Joined(c, a, now[a])]
    BY DEF FindExisting
  <1>2. c \in incidents /\ c.key = KeyOf(a) /\ clock <= c.lastAlertAt + Window
    BY FoundIsCandidate
  <1>3. c \in Incident /\ now[a] \in Time /\ inc'[a] = Joined(c, a, now[a])
    BY <1>1, <1>2 DEF TypeOK
  <1>4. /\ inc'[a] \in Incident
        /\ inc'[a].id = c.id
        /\ inc'[a].key = c.key
        /\ inc'[a].state = c.state
        /\ inc'[a].lastAlertAt = now[a]
    BY <1>3, JoinedType
  <1>5. Range(inc'[a].alerts) = Range(c.alerts) \cup {a}
    BY <1>3, JoinedAlerts
  <1>. QED  BY <1>2, <1>4, <1>5 DEF JoinedCopy

LEMMA IInv0FindExisting ==
  ASSUME IInv0, TypeOK', NEW a \in Alert, FindExisting(a)
  PROVE  IInv0'
  <1>. USE DEF IInv0, TypeOK, history
  <1>1. PICK c \in incidents : JoinedCopy(a, c)
    BY FoundAndJoined
  <1>2. c \in Incident /\ c.key = KeyOf(a)
    BY <1>1 DEF JoinedCopy
  <1>3. /\ inc'[a] \in Incident
        /\ inc'[a].id = c.id
        /\ inc'[a].key = c.key
        /\ inc'[a].state = c.state
        /\ Range(inc'[a].alerts) = Range(c.alerts) \cup {a}
    BY <1>1 DEF JoinedCopy
  <1>4. /\ \A b \in Alert \ {a} : inc'[b] = inc[b] /\ pc'[b] = pc[b]
        /\ pc[a] = "find" /\ pc'[a] = "save"
        /\ UNCHANGED << clock, incidents, now, overlapped, issued, collided >>
    BY DEF FindExisting
  <1>5. Acknowledged' = Acknowledged /\ InFlight' = InFlight /\ a \notin Acknowledged
    BY <1>4 DEF Acknowledged, InFlight
  <1>6. WrittenInv'
    BY <1>2, <1>3, <1>4 DEF WrittenInv, Written, StoreInv
  <1>7. StoreInv'
    BY <1>4 DEF StoreInv
  <1>8. ClockInv'
    BY <1>4 DEF ClockInv
  <1>9. RivalsInv'
    BY <1>4, <1>5 DEF RivalsInv
  <1>10. AlertsInv'
    <2>1. ASSUME NEW i \in incidents', NEW b \in Range(i.alerts)
          PROVE  b \in Acknowledged' /\ inc'[b].id = i.id /\ KeyOf(b) = i.key
      BY <2>1, <1>4, <1>5 DEF AlertsInv, Acknowledged
    <2>2. ASSUME NEW b \in Writing', NEW d \in Range(inc'[b].alerts)
          PROVE  /\ d \in Acknowledged' \/ d = b
                 /\ inc'[d].id = inc'[b].id
                 /\ KeyOf(d) = inc'[b].key
      <3>1. CASE b = a
        BY <2>2, <3>1, <1>2, <1>3, <1>4, <1>5 DEF AlertsInv, Acknowledged
      <3>2. CASE b # a
        BY <2>2, <3>2, <1>4, <1>5 DEF AlertsInv, Writing, Acknowledged
      <3>. QED  BY <3>1, <3>2
    <2>. QED  BY <2>1, <2>2 DEF AlertsInv
  <1>. QED  BY <1>6, <1>7, <1>8, <1>9, <1>10

LEMMA IInv0FindNothing ==
  ASSUME IInv0, TypeOK', NEW a \in Alert, FindNothing(a)
  PROVE  IInv0'
  <1>. USE DEF IInv0, TypeOK, FindNothing, history
  <1>1. WrittenInv'
    BY DEF WrittenInv, Written
  <1>2. StoreInv' /\ ClockInv'
    BY DEF StoreInv, ClockInv
  <1>3. RivalsInv'
    BY DEF RivalsInv, InFlight
  <1>4. AlertsInv'
    BY DEF AlertsInv, Acknowledged, Writing
  <1>. QED  BY <1>1, <1>2, <1>3, <1>4

LEMMA IInv0Fail ==
  ASSUME IInv0, TypeOK', NEW a \in Alert, Fail(a), pc[a] \in {"find", "save"}
  PROVE  IInv0'
  <1>. USE DEF IInv0, TypeOK, Fail, history
  <1>1. WrittenInv'
    BY DEF WrittenInv, Written
  <1>2. StoreInv' /\ ClockInv'
    BY DEF StoreInv, ClockInv, Time
  <1>3. RivalsInv'
    BY DEF RivalsInv, InFlight
  <1>4. AlertsInv'
    BY DEF AlertsInv, Acknowledged, Writing
  <1>. QED  BY <1>1, <1>2, <1>3, <1>4

LEMMA IInv0Create ==
  ASSUME IInv0, TypeOK', NEW a \in Alert, Create(a)
  PROVE  IInv0'
  <1>. USE DEF IInv0, TypeOK
  <1>1. /\ inc'[a] = NewIncident(a, clock, now[a])
        /\ \A b \in Alert \ {a} : inc'[b] = inc[b] /\ pc'[b] = pc[b]
        /\ pc[a] = "create" /\ pc'[a] = "save"
        /\ issued' = issued \cup {clock}
        /\ UNCHANGED << clock, incidents, now, overlapped >>
    BY DEF Create
  <1>2. /\ inc'[a] \in Incident
        /\ inc'[a].id = clock
        /\ inc'[a].key = KeyOf(a)
        /\ inc'[a].state = "open"
        /\ Range(inc'[a].alerts) = {a}
    BY <1>1, NewIncidentType, NewIncidentAlerts DEF NewIncident
  <1>3. Acknowledged' = Acknowledged /\ InFlight' = InFlight
    BY <1>1 DEF Acknowledged, InFlight
  <1>4. WrittenInv'
    BY <1>1, <1>2 DEF WrittenInv, Written
  <1>5. StoreInv'
    BY <1>1 DEF StoreInv
  <1>6. ClockInv'
    BY <1>1 DEF ClockInv, Time
  <1>7. RivalsInv'
    BY <1>1, <1>3 DEF RivalsInv
  <1>8. AlertsInv'
    BY <1>1, <1>2, <1>3 DEF AlertsInv, Acknowledged, Writing
  <1>. QED  BY <1>4, <1>5, <1>6, <1>7, <1>8

LEMMA IInv0Save ==
  ASSUME IInv0, TypeOK', NEW a \in Alert, SaveSucceeds(a)
  PROVE  IInv0'
  <1>. USE DEF IInv0, TypeOK
  <1>1. /\ incidents' = {i \in incidents : i.id # inc[a].id} \cup {inc[a]}
        /\ \A b \in Alert \ {a} : pc'[b] = pc[b]
        /\ pc[a] = "save" /\ pc'[a] = "ok"
        /\ UNCHANGED << clock, now, inc, overlapped, issued, collided >>
    BY DEF SaveSucceeds, Save, history
  <1>2. /\ Acknowledged' = Acknowledged \cup {a}
        /\ InFlight' = InFlight \ {a}
        /\ Writing' = Writing \ {a}
        /\ Written' = Written
        /\ a \in Writing /\ a \in Written
    BY <1>1 DEF Acknowledged, InFlight, Writing, Written
  <1>3. WrittenInv'
    BY <1>1, <1>2 DEF WrittenInv
  <1>4. StoreInv'
    BY <1>1, <1>2 DEF StoreInv, WrittenInv
  <1>5. ClockInv'
    BY <1>1 DEF ClockInv
  <1>6. RivalsInv'
    BY <1>1, <1>2 DEF RivalsInv
  <1>7. AlertsInv'
    BY <1>1, <1>2 DEF AlertsInv
  <1>. QED  BY <1>3, <1>4, <1>5, <1>6, <1>7

LEMMA IInv0Tick ==
  ASSUME IInv0, TypeOK', Tick
  PROVE  IInv0'
  BY DEF Tick, history, IInv0, TypeOK, Time, WrittenInv, StoreInv, ClockInv,
         RivalsInv, AlertsInv, Written, Writing, InFlight, Acknowledged

LEMMA IInv0Step == IInv0 /\ [Next]_vars => IInv0'
  <1>. SUFFICES ASSUME IInv0, [Next]_vars
                PROVE  IInv0'
    OBVIOUS
  <1>1. TypeOK'
    BY TypeStep DEF IInv0
  <1>2. CASE UNCHANGED vars
    BY <1>1, <1>2
    DEF vars, IInv0, TypeOK, WrittenInv, StoreInv, ClockInv, RivalsInv,
        AlertsInv, Written, Writing, InFlight, Acknowledged
  <1>. QED
    BY <1>1, <1>2, IInv0Receive, IInv0FindExisting, IInv0FindNothing, IInv0Fail,
       IInv0Create, IInv0Save, IInv0Tick
    DEF Next, ProcessAlert, Find, FindFails, SaveFails

\* Every behaviour satisfies IInv0.
THEOREM CopiesAreSound == Spec => []IInv0
  BY IInv0Init, IInv0Step, PTL DEF Spec

\* An alert is in one incident at most.
THEOREM AlertInOneIncident == Spec => []OneIncidentPerAlert
  <1>1. IInv0 => OneIncidentPerAlert
    BY DEF IInv0, AlertsInv, StoreInv, OneIncidentPerAlert
  <1>. QED  BY <1>1, CopiesAreSound, PTL

(* Concatenation, for the correlation key. *)

LEMMA ConcatParts ==
  ASSUME NEW x \in Seq(Segment), NEW y \in Seq(Segment), Len(y) = 1
  PROVE  /\ \A n \in 1 .. Len(x) : (x \o y)[n] = x[n]
         /\ (x \o y)[Len(x) + 1] = y[1]
  <1>. DEFINE c == x \o y
  <1>1. \A n \in 1 .. Len(x) + Len(y) :
          c[n] = IF n <= Len(x) THEN x[n] ELSE y[n - Len(x)]
    BY ConcatProperties
  <1>. HIDE DEF c
  <1>2. Len(x) \in Nat
    OBVIOUS
  <1>3. \A n \in 1 .. Len(x) : c[n] = x[n]
    BY <1>1, <1>2
  <1>4. c[Len(x) + 1] = y[1]
    <2>1. /\ Len(x) + 1 \in 1 .. Len(x) + Len(y)
          /\ ~ (Len(x) + 1 <= Len(x)) /\ Len(x) + 1 - Len(x) = 1
      BY <1>2
    <2>. QED  BY <1>1, <2>1
  <1>. QED  BY <1>3, <1>4 DEF c

LEMMA SameConcat ==
  ASSUME NEW x \in Seq(Segment), NEW y \in Seq(Segment), NEW u \in Seq(Segment), NEW v \in Seq(Segment),
         Len(x) = Len(u), Len(y) = 1, Len(v) = 1, x \o y = u \o v
  PROVE  x = u /\ y = v
  <1>1. ASSUME NEW n \in 1 .. Len(x)
        PROVE  x[n] = u[n]
    <2>1. (x \o y)[n] = x[n]
      BY ConcatParts
    <2>2. (u \o v)[n] = u[n]
      BY ConcatParts
    <2>. QED  BY <2>1, <2>2
  <1>2. y[1] = v[1]
    <2>1. (x \o y)[Len(x) + 1] = y[1]
      BY ConcatParts
    <2>2. (u \o v)[Len(u) + 1] = v[1]
      BY ConcatParts
    <2>. QED  BY <2>1, <2>2
  <1>3. x = u
    BY <1>1, SeqEqual
  <1>4. y = v
    BY <1>2, SeqEqual
  <1>. QED  BY <1>3, <1>4

LEMMA PrimaryServiceType ==
  ASSUME NEW l \in Labels
  PROVE  primaryServiceFromLabels(l) \in Seq(Segment)
  <1>1. l.service \in Seq(Segment) /\ l.app \in Seq(Segment) /\ l.deployment \in Seq(Segment)
    BY DEF Labels, LabelValue
  <1>2. "unknown" \in Segment
    BY LabelAssumption
  <1>3. << "unknown" >> \in Seq(Segment)
    BY <1>2
  <1>. QED  BY <1>1, <1>3 DEF primaryServiceFromLabels

\* Without the separator in the labels the correlation key determines the
\* cluster, the namespace and the service.
LEMMA KeyDetermines ==
  ASSUME NEW l \in Labels, NEW m \in Labels, Plain(l), Plain(m),
         buildCorrelationKey(l) = buildCorrelationKey(m)
  PROVE  /\ l.cluster = m.cluster
         /\ l.namespace = m.namespace
         /\ primaryServiceFromLabels(l) = primaryServiceFromLabels(m)
  <1>1. ASSUME NEW x \in Labels, Plain(x)
        PROVE  /\ x.cluster \in Seq(Segment) /\ Len(x.cluster) = 1
               /\ x.namespace \in Seq(Segment) /\ Len(x.namespace) = 1
               /\ primaryServiceFromLabels(x) \in Seq(Segment)
               /\ Len(primaryServiceFromLabels(x)) = 1
    <2>1. x.cluster \in Seq(Segment) /\ x.namespace \in Seq(Segment)
      BY DEF Labels, LabelValue
    <2>. QED  BY <1>1, <2>1, PrimaryServiceType DEF Plain
  <1>2. PICK s, t : s = primaryServiceFromLabels(l) /\ t = primaryServiceFromLabels(m)
    OBVIOUS
  <1>3. /\ l.cluster \in Seq(Segment) /\ l.namespace \in Seq(Segment) /\ s \in Seq(Segment)
        /\ Len(l.cluster) = 1 /\ Len(l.namespace) = 1 /\ Len(s) = 1
    BY <1>1, <1>2
  <1>4. /\ m.cluster \in Seq(Segment) /\ m.namespace \in Seq(Segment) /\ t \in Seq(Segment)
        /\ Len(m.cluster) = 1 /\ Len(m.namespace) = 1 /\ Len(t) = 1
    BY <1>1, <1>2
  <1>. DEFINE p == l.cluster \o l.namespace  u == m.cluster \o m.namespace
  <1>5. p \o s = u \o t
    BY <1>2 DEF buildCorrelationKey
  <1>6. p \in Seq(Segment) /\ u \in Seq(Segment)
    BY <1>3, <1>4, ConcatProperties
  <1>7. Len(p) = Len(u)
    <2>1. Len(p) = Len(l.cluster) + Len(l.namespace)
      BY <1>3, ConcatProperties
    <2>2. Len(u) = Len(m.cluster) + Len(m.namespace)
      BY <1>4, ConcatProperties
    <2>. HIDE DEF p, u
    <2>. QED  BY <1>3, <1>4, <2>1, <2>2
  <1>8. p = u /\ s = t
    <2>. HIDE DEF p, u
    <2>. QED  BY <1>3, <1>4, <1>5, <1>6, <1>7, SameConcat, Zenon
  <1>9. Len(l.cluster) = Len(m.cluster)
    BY <1>3, <1>4
  <1>10. l.cluster = m.cluster /\ l.namespace = m.namespace
    BY ONLY <1>3, <1>4, <1>8, <1>9, SameConcat, Zenon
  <1>. QED  BY <1>2, <1>8, <1>10

\* No incident mixes the alerts of two services.
THEOREM ServicesNotMixed == Spec => []IncidentsDoNotMixServices
  <1>1. IInv0 => IncidentsDoNotMixServices
    <2>. SUFFICES ASSUME IInv0, NEW i \in incidents,
                         NEW a \in Range(i.alerts), NEW b \in Range(i.alerts),
                         Plain(LabelsOf[a]), Plain(LabelsOf[b])
                  PROVE  /\ LabelsOf[a].cluster = LabelsOf[b].cluster
                         /\ LabelsOf[a].namespace = LabelsOf[b].namespace
                         /\ ServiceOf(a) = ServiceOf(b)
      BY DEF IncidentsDoNotMixServices
    <2>1. a \in Alert /\ b \in Alert /\ KeyOf(a) = KeyOf(b)
      BY DEF IInv0, AlertsInv, Acknowledged
    <2>2. LabelsOf[a] \in Labels /\ LabelsOf[b] \in Labels
      BY <2>1, IncidentsAssumption
    <2>. QED  BY <2>1, <2>2, KeyDetermines DEF KeyOf, ServiceOf
  <1>. QED  BY <1>1, CopiesAreSound, PTL

-----------------------------------------------------------------------------
(* Acknowledged alerts are kept. *)

KeptInv == KeyInv /\ CopiesKeepInv /\ AcknowledgedAlertsAreKept

LEMMA KeptInit == Init => KeptInv
  BY DEF Init, KeptInv, KeyInv, CopiesKeepInv, AcknowledgedAlertsAreKept,
         Written, Writing, Acknowledged

\* Steps that change neither the store nor what a call holds to write.
LEMMA KeptQuiet ==
  ASSUME IInv0, KeptInv, UNCHANGED << incidents, collided >>,
         overlapped \subseteq overlapped',
         Acknowledged' = Acknowledged, Written' \subseteq Written,
         Writing' \subseteq Writing,
         \A b \in Written' : inc'[b] = inc[b]
  PROVE  KeptInv'
  <1>1. Acknowledged \subseteq Written' /\ Writing' \subseteq Written'
    BY DEF Acknowledged, Written, Writing
  <1>. QED
    BY <1>1 DEF KeptInv, KeyInv, CopiesKeepInv, AcknowledgedAlertsAreKept

LEMMA KeptFindExisting ==
  ASSUME IInv0, IInv0', KeptInv, NEW a \in Alert, FindExisting(a)
  PROVE  KeptInv'
  <1>1. PICK c \in incidents : JoinedCopy(a, c)
    BY FoundAndJoined DEF IInv0
  <1>2. /\ \A b \in Alert \ {a} : inc'[b] = inc[b]
        /\ Acknowledged' = Acknowledged /\ a \notin Acknowledged
        /\ Written' = Written \cup {a} /\ Writing' = Writing \cup {a}
        /\ UNCHANGED << clock, incidents, overlapped, issued, collided >>
    BY DEF FindExisting, history, IInv0, TypeOK, Acknowledged, Written, Writing
  <1>3. Acknowledged \subseteq Written /\ Written \subseteq Alert
    BY DEF Acknowledged, Written
  <1>4. KeyInv'
    BY <1>1, <1>2, <1>3
    DEF KeptInv, KeyInv, JoinedCopy, IInv0, StoreInv
  <1>5. CopiesKeepInv'
    <2>. SUFFICES ASSUME NEW d \in Acknowledged \ overlapped,
                         inc[d].id = inc'[a].id, inc[d].id \notin collided
                  PROVE  d \in Range(inc'[a].alerts)
      BY <1>2, <1>3 DEF KeptInv, CopiesKeepInv, Writing
    <2>1. PICK i \in incidents : i.id = inc[d].id /\ d \in Range(i.alerts)
      BY DEF KeptInv, AcknowledgedAlertsAreKept
    <2>2. i = c
      BY <1>1, <2>1 DEF JoinedCopy, IInv0, StoreInv
    <2>. QED  BY <1>1, <2>1, <2>2 DEF JoinedCopy
  <1>6. AcknowledgedAlertsAreKept'
    BY <1>2, <1>3 DEF KeptInv, AcknowledgedAlertsAreKept
  <1>. QED  BY <1>4, <1>5, <1>6 DEF KeptInv

LEMMA KeptCreate ==
  ASSUME IInv0, IInv0', KeptInv, NEW a \in Alert, Create(a)
  PROVE  KeptInv'
  <1>1. /\ \A b \in Alert \ {a} : inc'[b] = inc[b]
        /\ Acknowledged' = Acknowledged /\ a \notin Acknowledged
        /\ Written' = Written \cup {a} /\ Writing' = Writing \cup {a}
        /\ inc'[a].id = clock /\ a \in Alert
        /\ clock \in issued => clock \in collided'
        /\ collided \subseteq collided'
        /\ UNCHANGED << incidents, overlapped >>
    BY DEF Create, NewIncident, IInv0, TypeOK, Acknowledged, Written, Writing
  <1>2. Acknowledged \subseteq Written /\ Written \subseteq Alert /\ a \notin Written
    BY DEF Create, Acknowledged, Written
  <1>3. /\ \A b \in Written : inc[b].id \in issued
        /\ \A i \in incidents : i.id \in issued
    BY DEF IInv0, WrittenInv, StoreInv
  <1>4. KeyInv'
    BY <1>1, <1>2, <1>3 DEF KeptInv, KeyInv
  <1>5. CopiesKeepInv'
    BY <1>1, <1>2, <1>3 DEF KeptInv, CopiesKeepInv, Writing
  <1>6. AcknowledgedAlertsAreKept'
    BY <1>1, <1>2 DEF KeptInv, AcknowledgedAlertsAreKept
  <1>. QED  BY <1>4, <1>5, <1>6 DEF KeptInv

LEMMA KeptSave ==
  ASSUME IInv0, IInv0', KeptInv, NEW a \in Alert, SaveSucceeds(a)
  PROVE  KeptInv'
  <1>1. /\ incidents' = {i \in incidents : i.id # inc[a].id} \cup {inc[a]}
        /\ Acknowledged' = Acknowledged \cup {a}
        /\ Written' = Written /\ Writing' = Writing \ {a}
        /\ a \in Writing /\ a \in Written
        /\ UNCHANGED << inc, overlapped, collided >>
    BY DEF SaveSucceeds, Save, history, IInv0, TypeOK, Acknowledged, Writing, Written
  <1>2. Acknowledged \subseteq Written
    BY DEF Acknowledged, Written
  <1>3. KeyInv'
    BY <1>1 DEF KeptInv, KeyInv
  <1>4. CopiesKeepInv'
    <2>. SUFFICES ASSUME NEW b \in Writing', a \notin overlapped,
                         inc[a].id = inc[b].id, inc[a].id \notin collided
                  PROVE  FALSE
      BY <1>1 DEF KeptInv, CopiesKeepInv
    <2>1. b \in Written /\ b \in Writing /\ b # a
      BY <1>1 DEF Writing, Written
    <2>2. KeyOf(a) = KeyOf(b)
      BY <1>1, <2>1 DEF KeptInv, KeyInv, IInv0, WrittenInv
    <2>3. a \in InFlight /\ b \in InFlight
      BY <1>1, <2>1 DEF Writing, InFlight
    <2>. QED  BY <2>1, <2>2, <2>3 DEF IInv0, RivalsInv
  <1>5. AcknowledgedAlertsAreKept'
    <2>. SUFFICES ASSUME NEW d \in (Acknowledged \cup {a}) \ overlapped,
                         inc[d].id \notin collided
                  PROVE  \E i \in incidents' : i.id = inc[d].id /\ d \in Range(i.alerts)
      BY <1>1 DEF AcknowledgedAlertsAreKept
    <2>1. CASE d = a
      BY <1>1, <2>1 DEF IInv0, WrittenInv
    <2>2. CASE d # a /\ inc[d].id = inc[a].id
      BY <1>1, <2>2 DEF KeptInv, CopiesKeepInv
    <2>3. CASE d # a /\ inc[d].id # inc[a].id
      BY <1>1, <2>3 DEF KeptInv, AcknowledgedAlertsAreKept
    <2>. QED  BY <2>1, <2>2, <2>3
  <1>. QED  BY <1>3, <1>4, <1>5 DEF KeptInv

LEMMA KeptStep == IInv0 /\ IInv0' /\ KeptInv /\ [Next]_vars => KeptInv'
  <1>. SUFFICES ASSUME IInv0, IInv0', KeptInv, [Next]_vars
                PROVE  KeptInv'
    OBVIOUS
  <1>1. ASSUME NEW a \in Alert, Receive(a) \/ FindNothing(a)
        PROVE  KeptInv'
    <2>1. Acknowledged' = Acknowledged /\ Written' = Written /\ Writing' = Writing
      BY <1>1 DEF Receive, FindNothing, IInv0, TypeOK, Acknowledged, Written, Writing
    <2>. QED  BY <1>1, <2>1, KeptQuiet DEF Receive, FindNothing, history
  <1>2. ASSUME NEW a \in Alert, Fail(a), pc[a] \in {"find", "save"}
        PROVE  KeptInv'
    <2>1. /\ Acknowledged' = Acknowledged /\ Written' = Written \ {a}
          /\ Writing' = Writing \ {a}
          /\ \A b \in Written' : inc'[b] = inc[b]
      BY <1>2 DEF Fail, IInv0, TypeOK, Acknowledged, Written, Writing
    <2>. QED  BY <1>2, <2>1, KeptQuiet DEF Fail, history
  <1>3. CASE Tick
    <2>1. Acknowledged' = Acknowledged /\ Written' = Written /\ Writing' = Writing
      BY <1>3 DEF Tick, Acknowledged, Written, Writing
    <2>. QED  BY <1>3, <2>1, KeptQuiet DEF Tick, history
  <1>4. CASE UNCHANGED vars
    <2>1. Acknowledged' = Acknowledged /\ Written' = Written /\ Writing' = Writing
      BY <1>4 DEF vars, Acknowledged, Written, Writing
    <2>. QED  BY <1>4, <2>1, KeptQuiet DEF vars
  <1>. QED
    BY <1>1, <1>2, <1>3, <1>4, KeptFindExisting, KeptCreate, KeptSave
    DEF Next, ProcessAlert, Find, FindFails, SaveFails

\* What ProcessAlert acknowledged stays stored, for any number of concurrent
\* calls, if no call of the same key ran beside it and its incident's id was
\* drawn once.
THEOREM AcknowledgedAlertsKept == Spec => []AcknowledgedAlertsAreKept
  <1>1. Init => KeptInv
    BY KeptInit
  <1>2. IInv0 /\ IInv0' /\ KeptInv /\ [Next]_vars => KeptInv'
    BY KeptStep
  <1>3. KeptInv => AcknowledgedAlertsAreKept
    BY DEF KeptInv
  <1>. QED  BY <1>1, <1>2, <1>3, CopiesAreSound, PTL DEF Spec
-----------------------------------------------------------------------------
(* Incidents of a key are a window apart. *)

SpacedInv == ApartInv /\ IncidentsAreAWindowApart

LEMMA SpacedInit == Init => SpacedInv
  BY DEF Init, SpacedInv, ApartInv, IncidentsAreAWindowApart

\* The times a stored incident is compared by are numbers.
LEMMA Times ==
  ASSUME TypeOK
  PROVE  /\ clock \in Nat /\ Window \in Nat
         /\ \A i \in Incident : i.id \in Nat /\ i.lastAlertAt \in Nat
         /\ \A a \in Alert : now[a] \in Nat
  BY IncidentsAssumption DEF TypeOK, Incident, Time

\* A key that overlapped stays so.
LEMMA OverlapGrows ==
  ASSUME overlapped \subseteq overlapped'
  PROVE  OverlappedKeys \subseteq OverlappedKeys'
  BY DEF OverlappedKeys

\* No two calls of a key that never overlapped are in flight together.
LEMMA AloneInFlight ==
  ASSUME RivalsInv, NEW a \in InFlight, NEW b \in InFlight,
         KeyOf(a) = KeyOf(b), KeyOf(a) \notin OverlappedKeys
  PROVE  a = b
  BY DEF RivalsInv, OverlappedKeys

LEMMA SpacedFindExisting ==
  ASSUME IInv0, SpacedInv, NEW a \in Alert, FindExisting(a)
  PROVE  SpacedInv'
  <1>1. PICK c \in incidents : JoinedCopy(a, c)
    BY FoundAndJoined DEF IInv0
  <1>2. /\ \A b \in Alert \ {a} : inc'[b] = inc[b] /\ pc'[b] = pc[b]
        /\ pc'[a] = "save"
        /\ OverlappedKeys' = OverlappedKeys
        /\ UNCHANGED << clock, incidents >>
    BY DEF FindExisting, history, IInv0, TypeOK, OverlappedKeys
  <1>3. ASSUME NEW i \in incidents, i.key = KeyOf(a), i.key \notin OverlappedKeys
        PROVE  i.id = c.id \/ (i.id < c.id /\ i.lastAlertAt + Window < c.id)
    <2>1. c \in Incident /\ i \in Incident /\ c.key = i.key
      BY <1>1, <1>3 DEF JoinedCopy, IInv0, TypeOK
    <2>2. /\ i.id \in Nat /\ c.id \in Nat /\ clock \in Nat
          /\ i.lastAlertAt + Window \in Nat /\ c.lastAlertAt + Window \in Nat
      BY <2>1, Times DEF IInv0
    <2>3. CASE c.id < i.id
      <3>1. c.lastAlertAt + Window < i.id
        BY <1>3, <2>1, <2>3 DEF SpacedInv, IncidentsAreAWindowApart
      <3>2. i.id <= clock /\ clock <= c.lastAlertAt + Window
        BY <1>1 DEF JoinedCopy, IInv0, StoreInv, ClockInv
      <3>. QED  BY <2>2, <3>1, <3>2
    <2>4. CASE i.id < c.id
      BY <1>3, <2>1, <2>4 DEF SpacedInv, IncidentsAreAWindowApart
    <2>. QED  BY <2>2, <2>3, <2>4
  <1>4. ApartInv'
    BY <1>1, <1>2, <1>3 DEF SpacedInv, ApartInv, JoinedCopy
  <1>5. IncidentsAreAWindowApart'
    BY <1>2 DEF SpacedInv, IncidentsAreAWindowApart
  <1>. QED  BY <1>4, <1>5 DEF SpacedInv

LEMMA SpacedFindNothing ==
  ASSUME IInv0, SpacedInv, NEW a \in Alert, FindNothing(a)
  PROVE  SpacedInv'
  <1>1. ASSUME NEW i \in incidents, i.key = KeyOf(a)
        PROVE  i.lastAlertAt + Window < clock
    <2>1. i.state # "resolved"
      BY DEF IInv0, StoreInv
    <2>2. ~ (clock <= i.lastAlertAt + Window)
      BY <1>1, <2>1 DEF FindNothing, Candidates
    <2>3. clock \in Nat /\ i.lastAlertAt + Window \in Nat
      BY Times DEF IInv0, TypeOK
    <2>. QED  BY <2>2, <2>3
  <1>. QED
    BY <1>1
    DEF FindNothing, history, IInv0, TypeOK, SpacedInv, ApartInv,
        IncidentsAreAWindowApart, OverlappedKeys

LEMMA SpacedCreate ==
  ASSUME IInv0, SpacedInv, NEW a \in Alert, Create(a)
  PROVE  SpacedInv'
  <1>1. /\ \A b \in Alert \ {a} : inc'[b] = inc[b] /\ pc'[b] = pc[b]
        /\ pc[a] = "create" /\ pc'[a] = "save" /\ inc'[a].id = clock
        /\ OverlappedKeys' = OverlappedKeys
        /\ UNCHANGED << clock, incidents >>
    BY DEF Create, NewIncident, IInv0, TypeOK, OverlappedKeys
  <1>2. ASSUME NEW i \in incidents, i.key = KeyOf(a), i.key \notin OverlappedKeys
        PROVE  i.lastAlertAt + Window < clock /\ (i.id = clock \/ i.id < clock)
    <2>1. i.id <= clock
      BY DEF IInv0, StoreInv, ClockInv
    <2>2. i.id \in Nat /\ clock \in Nat
      BY Times DEF IInv0, TypeOK
    <2>. QED  BY <1>1, <1>2, <2>1, <2>2 DEF SpacedInv, ApartInv
  <1>3. ApartInv'
    BY <1>1, <1>2 DEF SpacedInv, ApartInv
  <1>4. IncidentsAreAWindowApart'
    BY <1>1 DEF SpacedInv, IncidentsAreAWindowApart
  <1>. QED  BY <1>3, <1>4 DEF SpacedInv

LEMMA SpacedSave ==
  ASSUME IInv0, SpacedInv, NEW a \in Alert, SaveSucceeds(a)
  PROVE  SpacedInv'
  <1>1. /\ incidents' = {i \in incidents : i.id # inc[a].id} \cup {inc[a]}
        /\ \A b \in Alert \ {a} : pc'[b] = pc[b]
        /\ pc[a] = "save" /\ pc'[a] = "ok"
        /\ OverlappedKeys' = OverlappedKeys
        /\ UNCHANGED << clock, inc >>
    BY DEF SaveSucceeds, Save, history, IInv0, TypeOK, OverlappedKeys
  <1>2. inc[a].key = KeyOf(a) /\ inc[a] \in Incident /\ a \in InFlight
    BY <1>1 DEF IInv0, WrittenInv, Written, InFlight
  <1>3. ApartInv'
    <2>1. ASSUME NEW b \in Alert, pc'[b] \in {"create", "save"},
                 KeyOf(b) = KeyOf(a), KeyOf(b) \notin OverlappedKeys
          PROVE  FALSE
      <3>1. b \in InFlight /\ b # a
        BY <1>1, <2>1 DEF InFlight
      <3>. QED  BY <1>2, <2>1, <3>1, AloneInFlight DEF IInv0
    <2>. QED  BY <1>1, <1>2, <2>1 DEF SpacedInv, ApartInv
  <1>4. IncidentsAreAWindowApart'
    <2>1. ASSUME NEW i \in incidents, i.id # inc[a].id,
                 i.key = inc[a].key, i.key \notin OverlappedKeys
          PROVE  i.id < inc[a].id /\ i.lastAlertAt + Window < inc[a].id
      BY <1>1, <1>2, <2>1 DEF SpacedInv, ApartInv
    <2>2. \A i \in incidents' : i.id \in Nat
      BY <1>1, <1>2, Times DEF IInv0, TypeOK
    <2>. QED
      BY <1>1, <2>1, <2>2 DEF SpacedInv, IncidentsAreAWindowApart
  <1>. QED  BY <1>3, <1>4 DEF SpacedInv

LEMMA SpacedStep == IInv0 /\ SpacedInv /\ [Next]_vars => SpacedInv'
  <1>. SUFFICES ASSUME IInv0, SpacedInv, [Next]_vars
                PROVE  SpacedInv'
    OBVIOUS
  <1>1. ASSUME NEW a \in Alert, Receive(a)
        PROVE  SpacedInv'
    <2>1. OverlappedKeys \subseteq OverlappedKeys'
      BY <1>1, OverlapGrows DEF Receive
    <2>. QED
      BY <1>1, <2>1
      DEF Receive, IInv0, TypeOK, SpacedInv, ApartInv, IncidentsAreAWindowApart
  <1>2. ASSUME NEW a \in Alert, Fail(a)
        PROVE  SpacedInv'
    BY <1>2 DEF Fail, history, IInv0, TypeOK, SpacedInv, ApartInv,
                IncidentsAreAWindowApart, OverlappedKeys
  <1>3. CASE Tick
    <2>1. \A i \in incidents :
            i.lastAlertAt + Window < clock => i.lastAlertAt + Window < clock'
      BY <1>3, Times DEF Tick, IInv0, TypeOK
    <2>. QED
      BY <1>3, <2>1 DEF Tick, history, SpacedInv, ApartInv,
                        IncidentsAreAWindowApart, OverlappedKeys
  <1>4. CASE UNCHANGED vars
    BY <1>4 DEF vars, SpacedInv, ApartInv, IncidentsAreAWindowApart, OverlappedKeys
  <1>. QED
    BY <1>1, <1>2, <1>3, <1>4, SpacedFindExisting, SpacedFindNothing,
       SpacedCreate, SpacedSave
    DEF Next, ProcessAlert, Find, FindFails, SaveFails

\* Incidents of a key whose calls never overlapped are a window apart.
THEOREM WindowApart == Spec => []IncidentsAreAWindowApart
  <1>1. SpacedInv => IncidentsAreAWindowApart
    BY DEF SpacedInv
  <1>. QED  BY <1>1, SpacedInit, SpacedStep, CopiesAreSound, PTL DEF Spec

\* At most one of them would be found by the next alert of the key.
THEOREM OneLive == Spec => []OneLiveIncidentPerKey
  <1>1. ASSUME IInv0, SpacedInv, NEW k \in Key \ OverlappedKeys,
               NEW i \in Candidates(incidents, k, clock),
               NEW j \in Candidates(incidents, k, clock)
        PROVE  ~ (i.id < j.id)
    <2>. SUFFICES ASSUME i.id < j.id
                  PROVE  FALSE
      OBVIOUS
    <2>1. /\ i \in incidents /\ j \in incidents /\ i.key = k /\ j.key = k
          /\ clock <= i.lastAlertAt + Window
      BY DEF Candidates
    <2>2. i.lastAlertAt + Window < j.id
      BY <1>1, <2>1 DEF SpacedInv, IncidentsAreAWindowApart
    <2>3. j.id <= clock
      BY <1>1, <2>1 DEF IInv0, StoreInv, ClockInv
    <2>4. clock \in Nat /\ j.id \in Nat /\ i.lastAlertAt + Window \in Nat
      BY <1>1, <2>1, Times DEF IInv0, TypeOK
    <2>. QED  BY <2>1, <2>2, <2>3, <2>4
  <1>2. ASSUME IInv0, SpacedInv, NEW k \in Key \ OverlappedKeys,
               NEW i \in Candidates(incidents, k, clock),
               NEW j \in Candidates(incidents, k, clock)
        PROVE  i = j
    <2>1. i \in incidents /\ j \in incidents
      BY DEF Candidates
    <2>2. i.id \in Nat /\ j.id \in Nat
      BY <1>2, <2>1, Times DEF IInv0, TypeOK
    <2>3. i.id = j.id
      BY <1>1, <1>2, <2>2
    <2>. QED  BY <1>2, <2>1, <2>3 DEF IInv0, StoreInv
  <1>3. IInv0 /\ SpacedInv => OneLiveIncidentPerKey
    BY <1>2 DEF OneLiveIncidentPerKey
  <1>. QED  BY <1>3, SpacedInit, SpacedStep, CopiesAreSound, PTL DEF Spec

-----------------------------------------------------------------------------
(* LastAlertAt is the newest of an incident's alerts. *)

RecentInv == NewestInv /\ LastAlertAtIsNewest

LEMMA RecentInit == Init => RecentInv
  BY DEF Init, RecentInv, NewestInv, LastAlertAtIsNewest, InFlight, Writing

LEMMA RecentReceive ==
  ASSUME IInv0, RecentInv, NEW a \in Alert, Receive(a)
  PROVE  RecentInv'
  <1>1. /\ InFlight' = InFlight \cup {a} /\ Writing' = Writing
        /\ a \notin Acknowledged /\ a \notin Writing
        /\ now'[a] = clock /\ \A b \in Alert \ {a} : now'[b] = now[b]
        /\ UNCHANGED << incidents, inc >>
    BY DEF Receive, IInv0, TypeOK, InFlight, Writing, Acknowledged
  <1>2. OverlappedKeys \subseteq OverlappedKeys'
    BY OverlapGrows DEF Receive
  <1>3. \A i \in incidents : \A d \in Range(i.alerts) :
          d \in Alert \ {a} /\ now[d] <= clock
    BY <1>1 DEF IInv0, AlertsInv, Acknowledged, ClockInv
  <1>4. \A b \in Writing : \A d \in Range(inc[b].alerts) : d \in Alert \ {a}
    BY <1>1 DEF IInv0, AlertsInv, Acknowledged, Writing
  <1>5. InFlight \subseteq Alert /\ a \notin InFlight
    BY DEF InFlight, Receive
  <1>. QED
    BY <1>1, <1>2, <1>3, <1>4, <1>5 DEF RecentInv, NewestInv, LastAlertAtIsNewest

LEMMA RecentFindExisting ==
  ASSUME IInv0, RecentInv, NEW a \in Alert, FindExisting(a)
  PROVE  RecentInv'
  <1>1. PICK c \in incidents : JoinedCopy(a, c)
    BY FoundAndJoined DEF IInv0
  <1>2. /\ InFlight' = InFlight /\ Writing' = Writing \cup {a} /\ a \in InFlight
        /\ \A b \in Alert \ {a} : inc'[b] = inc[b]
        /\ OverlappedKeys' = OverlappedKeys
        /\ Writing \subseteq Alert /\ a \notin Writing
        /\ UNCHANGED << incidents, now >>
    BY DEF FindExisting, history, IInv0, TypeOK, InFlight, Writing, OverlappedKeys
  <1>3. now[a] <= now[a]
    BY Times DEF IInv0
  <1>4. ASSUME KeyOf(a) \notin OverlappedKeys, NEW d \in Range(inc'[a].alerts)
        PROVE  now[d] <= inc'[a].lastAlertAt
    BY <1>1, <1>2, <1>3, <1>4 DEF JoinedCopy, RecentInv, NewestInv
  <1>. QED
    BY <1>2, <1>4 DEF RecentInv, NewestInv, LastAlertAtIsNewest

LEMMA RecentCreate ==
  ASSUME IInv0, RecentInv, NEW a \in Alert, Create(a)
  PROVE  RecentInv'
  <1>1. /\ InFlight' = InFlight /\ Writing' = Writing \cup {a}
        /\ \A b \in Alert \ {a} : inc'[b] = inc[b]
        /\ inc'[a].lastAlertAt = now[a] /\ Range(inc'[a].alerts) = {a}
        /\ OverlappedKeys' = OverlappedKeys
        /\ Writing \subseteq Alert /\ a \notin Writing
        /\ UNCHANGED << incidents, now >>
    BY NewIncidentAlerts
    DEF Create, NewIncident, IInv0, TypeOK, InFlight, Writing, OverlappedKeys
  <1>2. now[a] <= now[a]
    BY Times DEF IInv0
  <1>. QED
    BY <1>1, <1>2 DEF RecentInv, NewestInv, LastAlertAtIsNewest

LEMMA RecentSave ==
  ASSUME IInv0, RecentInv, NEW a \in Alert, SaveSucceeds(a)
  PROVE  RecentInv'
  <1>1. /\ incidents' = {i \in incidents : i.id # inc[a].id} \cup {inc[a]}
        /\ InFlight' = InFlight \ {a} /\ Writing' = Writing \ {a}
        /\ a \in InFlight /\ a \in Writing
        /\ OverlappedKeys' = OverlappedKeys
        /\ UNCHANGED << inc, now >>
    BY DEF SaveSucceeds, Save, history, IInv0, TypeOK, InFlight, Writing, OverlappedKeys
  <1>2. inc[a].key = KeyOf(a)
    BY <1>1 DEF IInv0, WrittenInv, Written, Writing
  <1>3. ASSUME NEW b \in InFlight', KeyOf(b) = KeyOf(a), KeyOf(b) \notin OverlappedKeys
        PROVE  FALSE
    BY <1>1, <1>3, AloneInFlight DEF IInv0
  <1>4. NewestInv'
    BY <1>1, <1>2, <1>3 DEF RecentInv, NewestInv
  <1>5. LastAlertAtIsNewest'
    BY <1>1, <1>2 DEF RecentInv, NewestInv, LastAlertAtIsNewest
  <1>. QED  BY <1>4, <1>5 DEF RecentInv

LEMMA RecentFail ==
  ASSUME IInv0, RecentInv, NEW a \in Alert, Fail(a), pc[a] \in {"find", "save"}
  PROVE  RecentInv'
  <1>1. /\ InFlight' = InFlight \ {a} /\ Writing' = Writing \ {a}
        /\ a \notin Acknowledged
        /\ \A b \in Alert \ {a} : inc'[b] = inc[b] /\ now'[b] = now[b]
        /\ OverlappedKeys' = OverlappedKeys
        /\ UNCHANGED incidents
    BY DEF Fail, history, IInv0, TypeOK, InFlight, Writing, Acknowledged, OverlappedKeys
  <1>2. \A i \in incidents : \A d \in Range(i.alerts) : d \in Alert \ {a}
    BY <1>1 DEF IInv0, AlertsInv, Acknowledged
  <1>3. \A b \in Writing \ {a} : \A d \in Range(inc[b].alerts) : d \in Alert \ {a}
    BY <1>1 DEF IInv0, AlertsInv, Acknowledged, Writing
  <1>4. InFlight \subseteq Alert /\ Writing \subseteq Alert
    BY DEF InFlight, Writing
  <1>. QED
    BY <1>1, <1>2, <1>3, <1>4 DEF RecentInv, NewestInv, LastAlertAtIsNewest

LEMMA RecentStep == IInv0 /\ RecentInv /\ [Next]_vars => RecentInv'
  <1>. SUFFICES ASSUME IInv0, RecentInv, [Next]_vars
                PROVE  RecentInv'
    OBVIOUS
  <1>1. ASSUME NEW a \in Alert, FindNothing(a)
        PROVE  RecentInv'
    BY <1>1 DEF FindNothing, history, IInv0, TypeOK, RecentInv, NewestInv,
                LastAlertAtIsNewest, InFlight, Writing, OverlappedKeys
  <1>2. CASE Tick
    BY <1>2 DEF Tick, history, RecentInv, NewestInv, LastAlertAtIsNewest,
                InFlight, Writing, OverlappedKeys
  <1>3. CASE UNCHANGED vars
    BY <1>3 DEF vars, RecentInv, NewestInv, LastAlertAtIsNewest,
                InFlight, Writing, OverlappedKeys
  <1>. QED
    BY <1>1, <1>2, <1>3, RecentReceive, RecentFindExisting, RecentCreate,
       RecentSave, RecentFail
    DEF Next, ProcessAlert, Find, FindFails, SaveFails

\* LastAlertAt is never earlier than an alert of the incident was received, for
\* a key whose calls never overlapped.
THEOREM LastAlertNewest == Spec => []LastAlertAtIsNewest
  <1>1. RecentInv => LastAlertAtIsNewest
    BY DEF RecentInv
  <1>. QED  BY <1>1, RecentInit, RecentStep, CopiesAreSound, PTL DEF Spec
=============================================================================
