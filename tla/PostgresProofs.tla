---------------------------- MODULE PostgresProofs ----------------------------
(***************************************************************************)
(* Proofs about PostgresStore, for any deliveries, labels, fingerprints,   *)
(* window and number of concurrent calls.                                  *)
(*                                                                         *)
(* The statements of concurrent Saves interleave, and a commit may come    *)
(* after its call was answered.  That the tables keep their keys needs the *)
(* lock (LostInv); that alerts stay needs only that a commit replaces the  *)
(* rows of the fingerprints it writes, and that it writes those of its     *)
(* call (HoldsInv).  Which incident an id stands for is in ClaimsInv, and  *)
(* what is true only of keys whose calls never overlapped in QInv.         *)
(***************************************************************************)
EXTENDS PostgresStore, IncidentsProofs, FiniteSetTheorems, SequenceTheorems, TLAPS

Positions ==
  {"pending", "find", "alerts", "create", "begin", "write", "lost", "ok", "error"}

DomainsInv ==
  pc \in [Alert -> Positions] /\ DOMAIN inc = Alert /\ isNew \in [Alert -> BOOLEAN]

RowFields ==
  {"id", "service", "key", "severity", "version", "state", "createdAt", "lastAlertAt"}

\* The rows, which TypeOK speaks of with the alerts added.
RowsInv == (\A r \in rows : DOMAIN r = RowFields) /\ IsFiniteSet(alerts)

\* The transactions that are not settled hold the locks on different rows, and an
\* insert among them finds no row.
LostInv ==
  \A a \in Alert : pc[a] = "lost" =>
    /\ isNew[a] => \A r \in rows : r.id # inc[a].id
    /\ \A b \in Alert : pc[b] = "lost" /\ b # a => inc[a].id # inc[b].id

\* A copy holds the alert of its call.
HoldsInv ==
  \A a \in Alert : pc[a] \in {"begin", "write", "lost"} => a \in Range(inc[a].alerts)

IInv ==
  TypeOK /\ DomainsInv /\ RowsInv /\ LostInv /\ HoldsInv /\ AcknowledgedAlertsAreStored

-----------------------------------------------------------------------------
(* The operators. *)

\* A row with no alerts is an incident if its columns have the right types.
LEMMA ColumnsMakeIncident ==
  ASSUME NEW r, r = [f \in RowFields |-> r[f]],
         r.id \in Time, r.service \in {ServiceOf(a) : a \in Alert}, r.key \in Key,
         r.severity \in Nat, r.version \in Nat, r.state \in IncidentState,
         r.createdAt \in Time, r.lastAlertAt \in Time
  PROVE  OfRow(r) \in Incident
PROOF
<1> DEFINE x == OfRow(r)
           y == [id |-> r.id, service |-> r.service, key |-> r.key,
                 severity |-> r.severity, alerts |-> << >>, version |-> r.version,
                 state |-> r.state, createdAt |-> r.createdAt,
                 lastAlertAt |-> r.lastAlertAt]
<1>1. DOMAIN r = RowFields
  OBVIOUS
<1>2. x = [f \in RowFields \cup {"alerts"} |-> IF f = "alerts" THEN << >> ELSE r[f]]
  BY <1>1 DEF OfRow
<1>3. x = y
  BY <1>2 DEF RowFields
<1>4. y \in Incident
  BY DEF Incident
<1> QED
  BY <1>3, <1>4

\* The columns of a row that is an incident, alerts aside.
LEMMA IncidentHasColumns ==
  ASSUME NEW r, DOMAIN r = RowFields, OfRow(r) \in Incident
  PROVE  /\ r.id \in Time /\ r.service \in {ServiceOf(a) : a \in Alert} /\ r.key \in Key
         /\ r.severity \in Nat /\ r.version \in Nat /\ r.state \in IncidentState
         /\ r.createdAt \in Time /\ r.lastAlertAt \in Time
PROOF
<1> DEFINE x == OfRow(r)
<1>1. \A f \in RowFields : x[f] = r[f]
  BY DEF OfRow, RowFields
<1>2. /\ x.id = r.id /\ x.service = r.service /\ x.key = r.key
      /\ x.severity = r.severity /\ x.version = r.version /\ x.state = r.state
      /\ x.createdAt = r.createdAt /\ x.lastAlertAt = r.lastAlertAt
  BY <1>1 DEF RowFields
<1> HIDE DEF x
<1>3. /\ x.id \in Time /\ x.service \in {ServiceOf(a) : a \in Alert} /\ x.key \in Key
      /\ x.severity \in Nat /\ x.version \in Nat /\ x.state \in IncidentState
      /\ x.createdAt \in Time /\ x.lastAlertAt \in Time
  BY DEF Incident, x
<1> QED
  BY <1>2, <1>3

\* The row that an incident is stored as, with its own time of creation or another.
LEMMA RowOfIncident ==
  ASSUME NEW i \in Incident, NEW t \in Time,
         NEW r \in {RowOf(i), [RowOf(i) EXCEPT !.createdAt = t]}
  PROVE  /\ r.id = i.id /\ r.key = i.key /\ DOMAIN r = RowFields
         /\ OfRow(r) \in Incident
PROOF
<1>1. DOMAIN i = RowFields \cup {"alerts"}
  BY DEF Incident, RowFields
<1>2. DOMAIN i \ {"alerts"} = RowFields
  BY <1>1 DEF RowFields
<1>3. RowOf(i) = [f \in RowFields |-> i[f]]
  BY <1>2 DEF RowOf
<1>4. r = [f \in RowFields |-> r[f]]
  BY <1>3
<1>5. /\ r.id = i.id /\ r.service = i.service /\ r.key = i.key
      /\ r.severity = i.severity /\ r.version = i.version /\ r.state = i.state
      /\ r.createdAt \in {i.createdAt, t} /\ r.lastAlertAt = i.lastAlertAt
  BY <1>3 DEF RowFields
<1>6. /\ i.id \in Time /\ i.service \in {ServiceOf(a) : a \in Alert} /\ i.key \in Key
      /\ i.severity \in Nat /\ i.version \in Nat /\ i.state \in IncidentState
      /\ i.createdAt \in Time /\ i.lastAlertAt \in Time
  BY DEF Incident
<1>7. OfRow(r) \in Incident
  BY <1>4, <1>5, <1>6, ColumnsMakeIncident
<1> QED
  BY <1>4, <1>5, <1>7

\* The alert upserted last with a fingerprint is one of the incident's, with that
\* fingerprint.
LEMMA LastHasFingerprint ==
  ASSUME NEW i \in Incident, NEW f \in Fingerprints(i)
  PROVE  /\ LastWith(i, f) \in Range(i.alerts) /\ LastWith(i, f) \in Alert
         /\ FingerprintOf[LastWith(i, f)] = f
PROOF
<1> DEFINE S == {n \in DOMAIN i.alerts : FingerprintOf[i.alerts[n]] = f}
           P(n) == /\ FingerprintOf[i.alerts[n]] = f
                   /\ \A m \in DOMAIN i.alerts : FingerprintOf[i.alerts[m]] = f => m <= n
           last == CHOOSE n \in DOMAIN i.alerts : P(n)
<1>1. i.alerts \in Seq(Alert)
  BY DEF Incident
<1>2. DOMAIN i.alerts = 1 .. Len(i.alerts) /\ Len(i.alerts) \in Nat
  BY <1>1
<1>3. S \in SUBSET (1 .. Len(i.alerts)) /\ S # {}
  BY <1>2 DEF Fingerprints, Range
<1>4. \E n \in S : \A m \in S : m <= n
  BY <1>2, <1>3, Largest
<1>5. \E n \in DOMAIN i.alerts : P(n)
  BY <1>4
<1> HIDE DEF P
<1>6. last \in DOMAIN i.alerts /\ P(last)
  BY <1>5
<1>7. LastWith(i, f) = i.alerts[last]
  BY DEF LastWith, P
<1>8. i.alerts[last] \in Alert
  BY <1>1, <1>2, <1>6, ElementOfSeq
<1> HIDE DEF last
<1> QED
  BY <1>6, <1>7, <1>8 DEF P, Range

\* The table of alerts after CreateAlerts.
LEMMA AlertsCreated ==
  ASSUME NEW i \in Incident, alerts \subseteq AlertRow, IsFiniteSet(alerts),
         \A r \in alerts : r.fingerprint = FingerprintOf[r.alert],
         \A r, q \in alerts :
           (r.incident = q.incident /\ r.fingerprint = q.fingerprint) => r = q
  PROVE  LET T == CreateAlerts(i)
         IN  /\ T \subseteq AlertRow /\ IsFiniteSet(T)
             /\ \A r \in T : r.fingerprint = FingerprintOf[r.alert]
             /\ \A r, q \in T :
                  (r.incident = q.incident /\ r.fingerprint = q.fingerprint) => r = q
             /\ \A r \in T : r \in alerts \/ (r.incident = i.id /\ r.alert \in Range(i.alerts))
             /\ \A r \in alerts : \E q \in T :
                  q.incident = r.incident /\ q.fingerprint = r.fingerprint
             /\ \A a \in Range(i.alerts) : \E q \in T :
                  q.incident = i.id /\ q.fingerprint = FingerprintOf[a]
PROOF
<1> DEFINE F == Fingerprints(i)
           row(f) == [incident |-> i.id, fingerprint |-> f, alert |-> LastWith(i, f)]
           Old == {r \in alerts : ~(r.incident = i.id /\ r.fingerprint \in F)}
           New == {row(f) : f \in F}
           T == CreateAlerts(i)
<1>1. T = Old \cup New
  BY DEF CreateAlerts
<1>2. i.alerts \in Seq(Alert) /\ i.id \in Time
  BY DEF Incident
<1>3. \A f \in F : /\ LastWith(i, f) \in Range(i.alerts) /\ LastWith(i, f) \in Alert
                   /\ FingerprintOf[LastWith(i, f)] = f
  BY LastHasFingerprint
<1>4. F \subseteq Fingerprint
  BY <1>3, FingerprintAssumption DEF FingerprintAssumption
<1>5. \A f \in F : /\ row(f) \in AlertRow /\ row(f).incident = i.id
                   /\ row(f).fingerprint = f /\ row(f).alert = LastWith(i, f)
  BY <1>2, <1>3, <1>4 DEF AlertRow
<1>6. IsFiniteSet(F)
  <2> DEFINE g == [n \in 1 .. Len(i.alerts) |-> FingerprintOf[i.alerts[n]]]
  <2>1. DOMAIN i.alerts = 1 .. Len(i.alerts) /\ Len(i.alerts) \in Nat
    BY <1>2
  <2>2. F = {FingerprintOf[i.alerts[n]] : n \in 1 .. Len(i.alerts)}
    BY <2>1 DEF Fingerprints, Range
  <2>3. g \in Surjection(1 .. Len(i.alerts), F)
    BY <2>2 DEF Surjection
  <2>4. IsFiniteSet(1 .. Len(i.alerts))
    BY <2>1, FS_Interval
  <2> QED
    BY <2>3, <2>4, FS_Surjection
<1>7. IsFiniteSet(New)
  <2> DEFINE h == [f \in F |-> row(f)]
  <2>1. h \in Surjection(F, New)
    BY DEF Surjection
  <2> QED
    BY <1>6, <2>1, FS_Surjection
<1>8. IsFiniteSet(T)
  <2>1. IsFiniteSet(Old)
    BY FS_Subset
  <2>2. IsFiniteSet(Old \cup New)
    BY <1>7, <2>1, FS_Union, Zenon
  <2> QED
    BY <1>1, <2>2, Zenon
<1> HIDE DEF F, T, row
<1>9. T \subseteq AlertRow /\ \A r \in T : r.fingerprint = FingerprintOf[r.alert]
  BY <1>1, <1>3, <1>5
<1>10. \A r, q \in T :
         (r.incident = q.incident /\ r.fingerprint = q.fingerprint) => r = q
  BY <1>1, <1>5
<1>11. \A r \in T : r \in alerts \/ (r.incident = i.id /\ r.alert \in Range(i.alerts))
  BY <1>1, <1>3, <1>5
<1>12. ASSUME NEW r \in alerts
       PROVE  \E q \in T : q.incident = r.incident /\ q.fingerprint = r.fingerprint
  <2>1. CASE r \in Old
    BY <1>1, <2>1
  <2>2. CASE r.incident = i.id /\ r.fingerprint \in F
    BY <1>1, <1>5, <2>2
  <2> QED
    BY <2>1, <2>2
<1>13. ASSUME NEW a \in Range(i.alerts)
       PROVE  \E q \in T : q.incident = i.id /\ q.fingerprint = FingerprintOf[a]
  <2>1. FingerprintOf[a] \in F
    BY DEF F, Fingerprints
  <2> QED
    BY <1>1, <1>5, <2>1
<1> QED
  BY <1>8, <1>9, <1>10, <1>11, <1>12, <1>13 DEF T

\* What GetAlerts returns are alerts stored under the id.
LEMMA AlertsRead ==
  ASSUME alerts \subseteq AlertRow, IsFiniteSet(alerts), NEW id
  PROVE  /\ GetAlerts(id) \in Seq(Alert)
         /\ \A a \in Range(GetAlerts(id)) : \E r \in alerts : r.incident = id /\ r.alert = a
PROOF
<1> DEFINE R == {x \in alerts : x.incident = id}
           S == {r.alert : r \in R}
           n == Cardinality(S)
<1>1. IsFiniteSet(S)
  <2> DEFINE h == [r \in R |-> r.alert]
  <2>1. h \in Surjection(R, S)
    BY DEF Surjection
  <2>2. IsFiniteSet(R)
    BY FS_Subset
  <2> QED
    BY <2>1, <2>2, FS_Surjection
<1>2. S \subseteq Alert
  BY DEF AlertRow
<1>3. n \in Nat /\ ExistsBijection(1 .. n, S)
  BY <1>1, FS_CardinalityType
<1>4. \E f \in [1 .. n -> S] : IsInjective(f)
  BY <1>3 DEF ExistsBijection, Bijection, Injection
<1>5. GetAlerts(id) \in [1 .. n -> S]
  <2>1. GetAlerts(id) = CHOOSE f \in [1 .. n -> S] : IsInjective(f)
    BY DEF GetAlerts, SetToSeq
  <2> HIDE DEF S, n
  <2> QED
    BY <1>4, <2>1
<1> HIDE DEF n
<1>6. GetAlerts(id) \in Seq(Alert)
  BY <1>2, <1>3, <1>5
<1>7. \A a \in Range(GetAlerts(id)) : a \in S
  BY <1>5 DEF Range
<1> QED
  BY <1>6, <1>7

-----------------------------------------------------------------------------
(* The steps. *)

\* A step that leaves the tables alone, and at most one call's position and locals
\* change, to such that fit.
LEMMA LocalStep ==
  ASSUME IInv, UNCHANGED database, NEW a \in Alert,
         clock' \in Time, now' \in [Alert -> Time],
         NEW p \in Positions \ {"ok", "lost"}, pc' = [pc EXCEPT ![a] = p],
         DOMAIN inc' = Alert, isNew' \in [Alert -> BOOLEAN],
         \A b \in Alert : b # a => inc'[b] = inc[b] /\ isNew'[b] = isNew[b],
         p \in {"alerts", "begin", "write"} => inc'[a] \in Incident,
         p \in {"begin", "write"} => a \in Range(inc'[a].alerts)
  PROVE  IInv'
PROOF
<1>1. /\ TypeOK /\ DomainsInv /\ RowsInv /\ LostInv /\ HoldsInv
      /\ AcknowledgedAlertsAreStored
  BY DEF IInv
<1>2. /\ rows' = rows /\ alerts' = alerts
      /\ \A b \in Alert : pc'[b] = IF b = a THEN p ELSE pc[b]
  BY <1>1 DEF DomainsInv, database
<1>3. DomainsInv' /\ RowsInv'
  BY <1>1, <1>2 DEF DomainsInv, RowsInv
<1>4. TypeOK'
  <2>1. ASSUME NEW b \in Alert, pc'[b] \in {"alerts", "begin", "write", "ok", "lost"}
        PROVE  inc'[b] \in Incident
    BY <1>1, <1>2, <2>1 DEF TypeOK
  <2>2. /\ \A r \in rows' : OfRow(r) \in Incident
        /\ \A r, q \in rows' : r.id = q.id => r = q
        /\ alerts' \subseteq AlertRow
        /\ \A r, q \in alerts' :
             (r.incident = q.incident /\ r.fingerprint = q.fingerprint) => r = q
        /\ \A r \in alerts' : r.fingerprint = FingerprintOf[r.alert]
    BY <1>1, <1>2 DEF TypeOK
  <2> QED
    BY <2>1, <2>2 DEF TypeOK
<1>5. LostInv'
  BY <1>1, <1>2 DEF LostInv
<1>6. HoldsInv'
  BY <1>1, <1>2 DEF HoldsInv
<1>7. AcknowledgedAlertsAreStored'
  BY <1>1, <1>2 DEF AcknowledgedAlertsAreStored
<1> QED
  BY <1>3, <1>4, <1>5, <1>6, <1>7 DEF IInv

\* The clock goes on.
LEMMA TickStep == ASSUME IInv, Tick PROVE IInv'
PROOF
<1>1. UNCHANGED << pc, now, inc, rows, alerts, isNew >> /\ clock' \in Time
  BY IncidentsAssumption DEF IncidentsAssumption, Tick, database, IInv, TypeOK, Time
<1> QED
  BY <1>1 DEF IInv, TypeOK, DomainsInv, RowsInv, LostInv, HoldsInv,
              AcknowledgedAlertsAreStored

\* What a Save writes to the table of incidents: the row of its incident, in the
\* place of the one with that id, if any.
LEMMA RowsWritten ==
  ASSUME IInv, NEW a \in Alert, inc[a] \in Incident, Commit(a), ~Duplicate(a)
  PROVE  /\ \A r \in rows' : DOMAIN r = RowFields /\ OfRow(r) \in Incident
         /\ \A r, q \in rows' : r.id = q.id => r = q
         /\ \A r \in rows' : r.id = inc[a].id \/ r \in rows
PROOF
<1> DEFINE i == inc[a]
<1>1. TypeOK /\ RowsInv
  BY DEF IInv
<1>2. \A r \in rows : DOMAIN r = RowFields /\ OfRow(r) \in Incident
  BY <1>1 DEF TypeOK, RowsInv
<1>3. CASE isNew[a]
  <2>1. rows' = rows \cup {RowOf(i)} /\ \A r \in rows : r.id # i.id
    BY <1>3 DEF Commit, CreateIncident, Duplicate
  <2>2. /\ RowOf(i).id = i.id /\ DOMAIN RowOf(i) = RowFields
        /\ OfRow(RowOf(i)) \in Incident
    <3>1. i.createdAt \in Time
      BY DEF Incident
    <3> HIDE DEF i
    <3> QED
      BY <3>1, RowOfIncident DEF i
  <2> HIDE DEF i
  <2> QED
    BY <1>1, <1>2, <2>1, <2>2 DEF TypeOK, i
<1>4. CASE ~isNew[a]
  <2> DEFINE new(r) == IF r.id = i.id THEN [RowOf(i) EXCEPT !.createdAt = r.createdAt]
                       ELSE r
  <2>1. rows' = {new(r) : r \in rows}
    BY <1>4 DEF Commit, UpdateIncident
  <2>2. ASSUME NEW r \in rows
        PROVE  /\ DOMAIN new(r) = RowFields /\ OfRow(new(r)) \in Incident
               /\ new(r).id = r.id
    <3>1. CASE r.id = i.id
      <4>1. r.createdAt \in Time
        BY <1>2, IncidentHasColumns
      <4>2. new(r) = [RowOf(i) EXCEPT !.createdAt = r.createdAt]
        BY <3>1
      <4> HIDE DEF new, i
      <4> QED
        BY <3>1, <4>1, <4>2, RowOfIncident DEF i
    <3>2. CASE r.id # i.id
      BY <1>2, <3>2
    <3> QED
      BY <3>1, <3>2
  <2>3. \A r \in rows : r.id # i.id => new(r) = r
    OBVIOUS
  <2> HIDE DEF new
  <2> QED
    BY <1>1, <2>1, <2>2, <2>3 DEF TypeOK
<1> QED
  BY <1>3, <1>4

\* A commit, in its call's time or later.
LEMMA CommitStep ==
  ASSUME IInv, NEW a \in Alert, pc[a] \in {"write", "lost"}, Commit(a), ~Duplicate(a),
         \A b \in Alert : pc[b] = "lost" /\ b # a => inc[b].id # inc[a].id,
         NEW p \in {"ok", "error"}, pc' = [pc EXCEPT ![a] = p],
         UNCHANGED << clock, now, inc, isNew >>
  PROVE  IInv'
PROOF
<1> DEFINE i == inc[a]
<1>1. /\ TypeOK /\ DomainsInv /\ RowsInv /\ LostInv /\ HoldsInv
      /\ AcknowledgedAlertsAreStored
  BY DEF IInv
<1>2. /\ i \in Incident /\ a \in Range(i.alerts)
      /\ \A b \in Alert : pc'[b] = IF b = a THEN p ELSE pc[b]
  BY <1>1 DEF TypeOK, DomainsInv, HoldsInv
<1>3. /\ \A r \in rows' : DOMAIN r = RowFields /\ OfRow(r) \in Incident
      /\ \A r, q \in rows' : r.id = q.id => r = q
      /\ \A r \in rows' : r.id = i.id \/ r \in rows
  BY <1>2, RowsWritten
<1>4. /\ alerts' \subseteq AlertRow /\ IsFiniteSet(alerts')
      /\ \A r \in alerts' : r.fingerprint = FingerprintOf[r.alert]
      /\ \A r, q \in alerts' :
           (r.incident = q.incident /\ r.fingerprint = q.fingerprint) => r = q
      /\ \A r \in alerts : \E q \in alerts' :
           q.incident = r.incident /\ q.fingerprint = r.fingerprint
      /\ \A b \in Range(i.alerts) : \E q \in alerts' :
           q.incident = i.id /\ q.fingerprint = FingerprintOf[b]
  <2>1. alerts' = CreateAlerts(i)
    BY DEF Commit
  <2>2. /\ alerts \subseteq AlertRow /\ IsFiniteSet(alerts)
        /\ \A r \in alerts : r.fingerprint = FingerprintOf[r.alert]
        /\ \A r, q \in alerts :
             (r.incident = q.incident /\ r.fingerprint = q.fingerprint) => r = q
    BY <1>1 DEF TypeOK, RowsInv
  <2> HIDE DEF i
  <2> QED
    BY <1>2, <2>1, <2>2, AlertsCreated
<1>5. DomainsInv' /\ RowsInv'
  BY <1>1, <1>2, <1>3, <1>4 DEF DomainsInv, RowsInv, Positions
<1>6. TypeOK'
  <2>1. \A b \in Alert :
          pc'[b] \in {"alerts", "begin", "write", "ok", "lost"} => inc'[b] \in Incident
    BY <1>1, <1>2 DEF TypeOK
  <2> QED
    BY <1>1, <1>3, <1>4, <2>1 DEF TypeOK
<1>7. LostInv'
  BY <1>1, <1>2, <1>3 DEF LostInv
<1>8. HoldsInv'
  BY <1>1, <1>2 DEF HoldsInv
<1>9. AcknowledgedAlertsAreStored'
  <2> SUFFICES ASSUME NEW b \in Alert, pc'[b] = "ok"
               PROVE  \E r \in alerts' :
                        r.incident = inc'[b].id /\ r.fingerprint = FingerprintOf[b]
    BY DEF AcknowledgedAlertsAreStored
  <2>1. CASE b = a
    BY <1>2, <1>4, <2>1
  <2>2. CASE b # a
    <3>1. PICK r \in alerts : r.incident = inc[b].id /\ r.fingerprint = FingerprintOf[b]
      BY <1>1, <1>2, <2>2 DEF AcknowledgedAlertsAreStored
    <3> QED
      BY <1>4, <3>1
  <2> QED
    BY <2>1, <2>2
<1> QED
  BY <1>5, <1>6, <1>7, <1>8, <1>9 DEF IInv

\* The answer to a commit is lost: the row stays locked.
LEMMA LostStep == ASSUME IInv, NEW a \in Alert, SaveLost(a) PROVE IInv'
PROOF
<1>1. /\ TypeOK /\ DomainsInv /\ RowsInv /\ LostInv /\ HoldsInv
      /\ AcknowledgedAlertsAreStored
  BY DEF IInv
<1>2. /\ UNCHANGED << clock, now, inc, isNew, rows, alerts >>
      /\ pc[a] = "write" /\ pc' = [pc EXCEPT ![a] = "lost"]
      /\ \A b \in Alert : pc[b] = "lost" => inc[b].id # inc[a].id
      /\ isNew[a] => \A r \in rows : r.id # inc[a].id
  BY DEF SaveLost, Writable, Locked, Duplicate, database
<1>3. \A b \in Alert : pc'[b] = IF b = a THEN "lost" ELSE pc[b]
  BY <1>1, <1>2 DEF DomainsInv
<1>4. DomainsInv' /\ RowsInv'
  BY <1>1, <1>2, <1>3 DEF DomainsInv, RowsInv, Positions
<1>5. TypeOK'
  BY <1>1, <1>2, <1>3 DEF TypeOK
<1>6. LostInv' /\ HoldsInv'
  BY <1>1, <1>2, <1>3 DEF LostInv, HoldsInv
<1>7. AcknowledgedAlertsAreStored'
  BY <1>1, <1>2, <1>3 DEF AcknowledgedAlertsAreStored
<1> QED
  BY <1>4, <1>5, <1>6, <1>7 DEF IInv

\* The tables are empty and nobody calls.
LEMMA InitInv == Init => IInv
PROOF
<1> SUFFICES ASSUME Init PROVE IInv
  OBVIOUS
<1>1. \A a \in Alert : pc[a] = "pending"
  BY DEF Init
<1>2. TypeOK
  BY <1>1, IncidentsAssumption DEF Init, TypeOK, IncidentsAssumption, Time
<1>3. DomainsInv /\ RowsInv
  BY FS_EmptySet DEF Init, DomainsInv, RowsInv, Positions
<1> QED
  BY <1>1, <1>2, <1>3 DEF IInv, LostInv, HoldsInv, AcknowledgedAlertsAreStored

\* The copy after FindRow is a row of the table, with the key of the alert.
LEMMA RowFound ==
  ASSUME TypeOK, NEW a \in Alert, FindRow(a)
  PROVE  \E r \in rows : /\ inc' = [inc EXCEPT ![a] = OfRow(r)]
                         /\ OfRow(r) \in Incident /\ r.key = KeyOf(a)
PROOF
<1>1. PICK t \in now[a] .. clock : \E r \in FindOpen(a, t) :
        inc' = [inc EXCEPT ![a] = OfRow(r)]
  BY DEF FindRow
<1>2. PICK r \in FindOpen(a, t) : inc' = [inc EXCEPT ![a] = OfRow(r)]
  BY <1>1
<1>3. r \in rows /\ r.key = KeyOf(a)
  BY DEF FindOpen
<1> QED
  BY <1>2, <1>3 DEF TypeOK

\* The copy after FindAlerts holds alerts of the table, and the alert of its call.
LEMMA AlertsFound ==
  ASSUME IInv, NEW a \in Alert, FindAlerts(a)
  PROVE  /\ inc'[a] \in Incident /\ inc'[a].id = inc[a].id /\ inc'[a].key = inc[a].key
         /\ a \in Range(inc'[a].alerts)
         /\ \A b \in Range(inc'[a].alerts) :
              b = a \/ \E r \in alerts : r.incident = inc[a].id /\ r.alert = b
         /\ inc' = [inc EXCEPT ![a] = inc'[a]]
PROOF
<1> DEFINE found == [inc[a] EXCEPT !.alerts = GetAlerts(inc[a].id)]
<1>1. /\ pc[a] = "alerts" /\ inc' = [inc EXCEPT ![a] = Joined(found, a, now[a])]
  BY DEF FindAlerts
<1>2. inc[a] \in Incident /\ now[a] \in Time /\ DOMAIN inc = Alert
  BY <1>1 DEF IInv, TypeOK, DomainsInv
<1>3. /\ GetAlerts(inc[a].id) \in Seq(Alert)
      /\ \A b \in Range(GetAlerts(inc[a].id)) :
           \E r \in alerts : r.incident = inc[a].id /\ r.alert = b
  BY AlertsRead DEF IInv, TypeOK, RowsInv
<1>4. /\ found \in Incident /\ found.id = inc[a].id /\ found.key = inc[a].key
      /\ found.alerts = GetAlerts(inc[a].id)
  BY <1>2, <1>3 DEF Incident
<1> HIDE DEF found
<1>5. inc'[a] = Joined(found, a, now[a])
  BY <1>1, <1>2
<1>6. /\ inc'[a] \in Incident /\ inc'[a].id = found.id /\ inc'[a].key = found.key
      /\ Range(inc'[a].alerts) = Range(found.alerts) \cup {a}
  BY <1>2, <1>4, <1>5, JoinedType, JoinedAlerts
<1>7. inc' = [inc EXCEPT ![a] = inc'[a]]
  BY <1>1, <1>5
<1> QED
  BY <1>3, <1>4, <1>6, <1>7

\* Each step keeps the invariant.
LEMMA NextStep == IInv /\ [Next]_vars => IInv'
PROOF
<1> SUFFICES ASSUME IInv, [Next]_vars PROVE IInv'
  OBVIOUS
<1>1. /\ clock \in Time /\ now \in [Alert -> Time]
      /\ pc \in [Alert -> Positions] /\ DOMAIN inc = Alert /\ isNew \in [Alert -> BOOLEAN]
  BY DEF IInv, TypeOK, DomainsInv
<1>2. ASSUME NEW a \in Alert, Receive(a) PROVE IInv'
  <2>1. /\ UNCHANGED << clock, inc, isNew, database >> /\ now' \in [Alert -> Time]
        /\ pc' = [pc EXCEPT ![a] = "find"]
    BY <1>1, <1>2 DEF Receive, database
  <2>2. "find" \in Positions \ {"ok", "lost"}
    BY DEF Positions
  <2> QED
    BY <1>1, <2>1, <2>2, LocalStep
<1>3. ASSUME NEW a \in Alert, FindRow(a) PROVE IInv'
  <2>1. PICK r \in rows : inc' = [inc EXCEPT ![a] = OfRow(r)] /\ OfRow(r) \in Incident
    BY <1>3, RowFound DEF IInv
  <2>2. /\ DOMAIN inc' = Alert /\ inc'[a] \in Incident
        /\ \A b \in Alert : b # a => inc'[b] = inc[b]
    BY <1>1, <2>1
  <2>3. /\ UNCHANGED << clock, now, isNew, database >>
        /\ pc' = [pc EXCEPT ![a] = "alerts"] /\ "alerts" \in Positions \ {"ok", "lost"}
    BY <1>3 DEF FindRow, Positions
  <2> QED
    BY <1>1, <2>2, <2>3, LocalStep
<1>4. ASSUME NEW a \in Alert, FindNoRow(a) PROVE IInv'
  <2>1. /\ UNCHANGED << clock, now, inc, isNew, database >>
        /\ pc' = [pc EXCEPT ![a] = "create"] /\ "create" \in Positions \ {"ok", "lost"}
    BY <1>4 DEF FindNoRow, Positions
  <2> QED
    BY <1>1, <2>1, LocalStep
<1>5. ASSUME NEW a \in Alert, FindAlerts(a) PROVE IInv'
  <2>1. /\ UNCHANGED << clock, now, isNew, database >>
        /\ pc' = [pc EXCEPT ![a] = "begin"] /\ "begin" \in Positions \ {"ok", "lost"}
    BY <1>5 DEF FindAlerts, Positions
  <2>2. /\ inc'[a] \in Incident /\ a \in Range(inc'[a].alerts)
        /\ inc' = [inc EXCEPT ![a] = inc'[a]]
    BY <1>5, AlertsFound
  <2>3. DOMAIN inc' = Alert /\ \A b \in Alert : b # a => inc'[b] = inc[b]
    BY <1>1, <2>2
  <2> QED
    BY <1>1, <2>1, <2>2, <2>3, LocalStep
<1>6. ASSUME NEW a \in Alert, Create(a) PROVE IInv'
  <2>1. /\ UNCHANGED << clock, now, isNew, database >>
        /\ inc' = [inc EXCEPT ![a] = NewIncident(a, clock, now[a])]
        /\ pc' = [pc EXCEPT ![a] = "begin"] /\ "begin" \in Positions \ {"ok", "lost"}
    BY <1>6 DEF Create, Positions
  <2>2. /\ NewIncident(a, clock, now[a]) \in Incident
        /\ a \in Range(NewIncident(a, clock, now[a]).alerts)
    <3>1. now[a] \in Time
      BY <1>1
    <3>2. Range(NewIncident(a, clock, now[a]).alerts) = {a}
      BY NewIncidentAlerts
    <3> QED
      BY <1>1, <3>1, <3>2, NewIncidentType
  <2>3. /\ DOMAIN inc' = Alert /\ inc'[a] = NewIncident(a, clock, now[a])
        /\ \A b \in Alert : b # a => inc'[b] = inc[b]
    BY <1>1, <2>1
  <2> QED
    BY <1>1, <2>1, <2>2, <2>3, LocalStep
<1>7. ASSUME NEW a \in Alert, SaveChecks(a) PROVE IInv'
  <2>1. /\ UNCHANGED << clock, now, inc, database >>
        /\ isNew' = [isNew EXCEPT ![a] = \A r \in rows : r.id # inc[a].id]
        /\ pc[a] = "begin"
        /\ pc' = [pc EXCEPT ![a] = "write"] /\ "write" \in Positions \ {"ok", "lost"}
    BY <1>7 DEF SaveChecks, Positions
  <2>2. /\ isNew' \in [Alert -> BOOLEAN]
        /\ \A b \in Alert : b # a => isNew'[b] = isNew[b]
    BY <1>1, <2>1
  <2>3. inc'[a] \in Incident /\ a \in Range(inc'[a].alerts)
    BY <2>1 DEF IInv, TypeOK, HoldsInv
  <2> QED
    BY <1>1, <2>1, <2>2, <2>3, LocalStep
<1>8. ASSUME NEW a \in Alert, SaveCommits(a) PROVE IInv'
  <2>1. /\ pc[a] = "write" /\ Commit(a) /\ ~Duplicate(a) /\ pc' = [pc EXCEPT ![a] = "ok"]
        /\ \A b \in Alert : pc[b] = "lost" /\ b # a => inc[b].id # inc[a].id
        /\ UNCHANGED << clock, now, inc, isNew >>
    BY <1>8 DEF SaveCommits, Writable, Locked
  <2> QED
    BY <2>1, CommitStep
<1>9. ASSUME NEW a \in Alert, SaveLost(a) PROVE IInv'
  BY <1>9, LostStep
<1>10. ASSUME NEW a \in Alert, CommitsLate(a) PROVE IInv'
  <2>1. /\ pc[a] = "lost" /\ Commit(a) /\ pc' = [pc EXCEPT ![a] = "error"]
        /\ UNCHANGED << clock, now, inc, isNew >>
    BY <1>10 DEF CommitsLate
  <2>2. /\ ~Duplicate(a)
        /\ \A b \in Alert : pc[b] = "lost" /\ b # a => inc[b].id # inc[a].id
    BY <2>1 DEF Duplicate, IInv, LostInv
  <2> QED
    BY <2>1, <2>2, CommitStep
<1>11. ASSUME NEW a \in Alert, Fails(a) PROVE IInv'
  <2>1. /\ UNCHANGED << clock, database >> /\ pc' = [pc EXCEPT ![a] = "error"]
        /\ "error" \in Positions \ {"ok", "lost"}
    BY <1>11 DEF Fails, Positions
  <2>2. now' \in [Alert -> Time]
    BY <1>1, <1>11, IncidentsAssumption DEF Fails, Time, IncidentsAssumption
  <2>3. DOMAIN inc' = Alert /\ \A b \in Alert : b # a => inc'[b] = inc[b]
    BY <1>1, <1>11 DEF Fails
  <2>4. isNew' = [isNew EXCEPT ![a] = FALSE]
    BY <1>11 DEF Fails
  <2>5. /\ isNew' \in [Alert -> BOOLEAN]
        /\ \A b \in Alert : b # a => isNew'[b] = isNew[b]
    BY <1>1, <2>4
  <2> QED
    BY <1>1, <2>1, <2>2, <2>3, <2>5, LocalStep
<1>12. CASE UNCHANGED vars
  <2>1. UNCHANGED << clock, pc, now, inc, rows, alerts, isNew >>
    BY <1>12 DEF vars, database
  <2> QED
    BY <2>1 DEF IInv, TypeOK, DomainsInv, RowsInv, LostInv, HoldsInv,
                AcknowledgedAlertsAreStored
<1> QED
  BY TickStep, <1>2, <1>3, <1>4, <1>5, <1>6, <1>7, <1>8, <1>9, <1>10, <1>11, <1>12
  DEF Next, ProcessAlert, Find, SaveIncident

-----------------------------------------------------------------------------
\* Every variable keeps its type, and however the statements of concurrent Saves
\* and late commits interleave, the tables keep their keys.
THEOREM Typing == Spec => []TypeOK
PROOF
<1>1. IInv => TypeOK
  BY DEF IInv
<1> QED
  BY <1>1, InitInv, NextStep, PTL DEF Spec

\* An alert whose call returned nil stays stored with its incident, whatever other
\* calls do beside it: no condition on overlaps is needed.
THEOREM AcknowledgedStored == Spec => []AcknowledgedAlertsAreStored
PROOF
<1>1. IInv => AcknowledgedAlertsAreStored
  BY DEF IInv
<1> QED
  BY <1>1, InitInv, NextStep, PTL DEF Spec

-----------------------------------------------------------------------------
(* Ids and keys. *)

\* The calls that hold a copy they may still write.
Holders == {a \in Alert : pc[a] \in {"alerts", "begin", "write", "lost"}}

\* Every place that relates an id to a key: copies, rows, stored alerts, and the
\* alerts in copies.
Claims ==
  {<< inc[a].id, KeyOf(a) >> : a \in Holders}
    \cup {<< r.id, r.key >> : r \in rows}
    \cup {<< x.incident, KeyOf(x.alert) >> : x \in alerts}
    \cup UNION {{<< inc[a].id, KeyOf(b) >> : b \in Range(inc[a].alerts)} : a \in Holders}

\* Every id was issued, and one issued once is for one key.
Consistent(C, drawn, twice) ==
  /\ \A c \in C : c[1] \in drawn
  /\ \A c, d \in C : c[1] = d[1] /\ c[1] \notin twice => c[2] = d[2]

ClaimsInv ==
  Consistent(Claims, issued, collided) /\ \A a \in Holders : inc[a].key = KeyOf(a)

\* A claim is for one of four reasons.
LEMMA ClaimReasons ==
  ASSUME NEW c
  PROVE  c \in Claims <=>
           \/ \E a \in Holders : c = << inc[a].id, KeyOf(a) >>
           \/ \E r \in rows : c = << r.id, r.key >>
           \/ \E x \in alerts : c = << x.incident, KeyOf(x.alert) >>
           \/ \E a \in Holders : \E b \in Range(inc[a].alerts) :
                c = << inc[a].id, KeyOf(b) >>
PROOF BY DEF Claims

\* One call's copy changes, to one that makes no claim but those there are, or one
\* under an id drawn now.
LEMMA CopyStep ==
  ASSUME ClaimsInv, NEW a \in Alert, UNCHANGED << rows, alerts >>,
         NEW C \in SUBSET {<< clock, KeyOf(a) >>},
         \A b \in Holders' : b # a => b \in Holders /\ inc'[b] = inc[b],
         a \in Holders' =>
           /\ inc'[a].key = KeyOf(a)
           /\ << inc'[a].id, KeyOf(a) >> \in Claims \cup C
           /\ \A b \in Range(inc'[a].alerts) : << inc'[a].id, KeyOf(b) >> \in Claims \cup C,
         \/ C = {} /\ UNCHANGED << issued, collided >>
         \/ /\ issued' = issued \cup {clock}
            /\ collided' = IF clock \in issued THEN collided \cup {clock} ELSE collided
  PROVE  ClaimsInv'
PROOF
<1>1. Claims' \subseteq Claims \cup C
  <2> SUFFICES ASSUME NEW c \in Claims' PROVE c \in Claims \cup C
    OBVIOUS
  <2>1. \/ \E b \in Holders' : c = << inc'[b].id, KeyOf(b) >>
        \/ \E r \in rows' : c = << r.id, r.key >>
        \/ \E x \in alerts' : c = << x.incident, KeyOf(x.alert) >>
        \/ \E b \in Holders' : \E d \in Range(inc'[b].alerts) :
             c = << inc'[b].id, KeyOf(d) >>
    BY DEF Claims
  <2>2. CASE \E b \in Holders' : c = << inc'[b].id, KeyOf(b) >>
    BY <2>2, ClaimReasons
  <2>3. CASE \/ \E r \in rows' : c = << r.id, r.key >>
             \/ \E x \in alerts' : c = << x.incident, KeyOf(x.alert) >>
    BY <2>3, ClaimReasons
  <2>4. CASE \E b \in Holders' : \E d \in Range(inc'[b].alerts) :
               c = << inc'[b].id, KeyOf(d) >>
    BY <2>4, ClaimReasons
  <2> QED
    BY <2>1, <2>2, <2>3, <2>4
<1>2. Consistent(Claims, issued, collided) /\ \A b \in Holders : inc[b].key = KeyOf(b)
  BY DEF ClaimsInv
<1>3. Consistent(Claims', issued', collided')
  <2>1. CASE C = {} /\ UNCHANGED << issued, collided >>
    BY <1>1, <1>2, <2>1 DEF Consistent
  <2>2. CASE /\ issued' = issued \cup {clock}
             /\ collided' = IF clock \in issued THEN collided \cup {clock} ELSE collided
    <3>1. \A c \in C : c[1] = clock /\ c[2] = KeyOf(a)
      OBVIOUS
    <3>2. \A c \in Claims' : c[1] \in issued'
      BY <1>1, <1>2, <2>2, <3>1 DEF Consistent
    <3>3. ASSUME NEW c \in Claims', NEW d \in Claims', c[1] = d[1], c[1] \notin collided'
          PROVE  c[2] = d[2]
      <4>1. CASE c \in Claims /\ d \in Claims
        BY <1>2, <2>2, <3>3, <4>1 DEF Consistent
      <4>2. CASE c[1] = clock
        <5>1. clock \notin issued
          BY <2>2, <3>3, <4>2
        <5>2. c \in C /\ d \in C
          BY <1>1, <1>2, <3>3, <4>2, <5>1 DEF Consistent
        <5> QED
          BY <3>1, <5>2
      <4> QED
        BY <1>1, <3>1, <3>3, <4>1, <4>2
    <3> QED
      BY <3>2, <3>3 DEF Consistent
  <2> QED
    BY <2>1, <2>2
<1>4. \A b \in Holders' : inc'[b].key = KeyOf(b)
  BY <1>2
<1> QED
  BY <1>3, <1>4 DEF ClaimsInv

\* A commit claims for the tables what its copy claimed.
LEMMA CommitClaims ==
  ASSUME IInv, ClaimsInv, NEW a \in Holders, pc[a] \in {"write", "lost"},
         Commit(a), ~Duplicate(a),
         UNCHANGED << inc, issued, collided >>, Holders' \subseteq Holders
  PROVE  ClaimsInv'
PROOF
<1> DEFINE i == inc[a]
<1>1. a \in Alert /\ i \in Incident /\ i.key = KeyOf(a)
  BY DEF Holders, IInv, TypeOK, ClaimsInv
<1>2. \A r \in rows' : (r.id = i.id /\ r.key = i.key) \/ r \in rows
  <2>1. i.createdAt \in Time
    BY <1>1 DEF Incident
  <2>2. CASE isNew[a]
    <3>1. rows' = rows \cup {RowOf(i)}
      BY <2>2 DEF Commit, CreateIncident
    <3> HIDE DEF i
    <3>2. RowOf(i).id = i.id /\ RowOf(i).key = i.key
      BY <1>1, <2>1, RowOfIncident
    <3> QED
      BY <3>1, <3>2
  <2>3. CASE ~isNew[a]
    <3>1. rows' = {IF r.id = i.id THEN [RowOf(i) EXCEPT !.createdAt = r.createdAt] ELSE r :
                     r \in rows}
      BY <2>3 DEF Commit, UpdateIncident
    <3> HIDE DEF i
    <3>2. ASSUME NEW r \in rows
          PROVE  LET s == [RowOf(i) EXCEPT !.createdAt = r.createdAt]
                 IN  s.id = i.id /\ s.key = i.key
      <4>1. r.createdAt \in Time
        BY IncidentHasColumns DEF IInv, TypeOK, RowsInv
      <4> QED
        BY <1>1, <4>1, RowOfIncident
    <3> QED
      BY <3>1, <3>2
  <2> QED
    BY <2>2, <2>3
<1>3. \A x \in alerts' : x \in alerts \/ (x.incident = i.id /\ x.alert \in Range(i.alerts))
  <2>1. alerts' = CreateAlerts(i)
    BY DEF Commit
  <2>2. /\ alerts \subseteq AlertRow /\ IsFiniteSet(alerts)
        /\ \A r \in alerts : r.fingerprint = FingerprintOf[r.alert]
        /\ \A r, q \in alerts :
             (r.incident = q.incident /\ r.fingerprint = q.fingerprint) => r = q
    BY DEF IInv, TypeOK, RowsInv
  <2> HIDE DEF i
  <2> QED
    BY <1>1, <2>1, <2>2, AlertsCreated
<1>4. Claims' \subseteq Claims
  <2> SUFFICES ASSUME NEW c \in Claims' PROVE c \in Claims
    OBVIOUS
  <2>1. \/ \E b \in Holders' : c = << inc'[b].id, KeyOf(b) >>
        \/ \E r \in rows' : c = << r.id, r.key >>
        \/ \E x \in alerts' : c = << x.incident, KeyOf(x.alert) >>
        \/ \E b \in Holders' : \E d \in Range(inc'[b].alerts) :
             c = << inc'[b].id, KeyOf(d) >>
    BY DEF Claims
  <2>2. CASE \/ \E b \in Holders' : c = << inc'[b].id, KeyOf(b) >>
             \/ \E b \in Holders' : \E d \in Range(inc'[b].alerts) :
                  c = << inc'[b].id, KeyOf(d) >>
    BY <2>2, ClaimReasons
  <2>3. CASE \E r \in rows' : c = << r.id, r.key >>
    BY <1>1, <1>2, <2>3, ClaimReasons
  <2>4. CASE \E x \in alerts' : c = << x.incident, KeyOf(x.alert) >>
    BY <1>1, <1>3, <2>4, ClaimReasons
  <2> QED
    BY <2>1, <2>2, <2>3, <2>4
<1>5. Consistent(Claims', issued', collided')
  BY <1>4 DEF ClaimsInv, Consistent
<1>6. \A b \in Holders' : inc'[b].key = KeyOf(b)
  BY DEF ClaimsInv
<1> QED
  BY <1>5, <1>6 DEF ClaimsInv

\* The same without a new id.
LEMMA OldClaims ==
  ASSUME ClaimsInv, NEW a \in Alert, UNCHANGED << rows, alerts, issued, collided >>,
         \A b \in Holders' : b # a => b \in Holders /\ inc'[b] = inc[b],
         a \in Holders' =>
           /\ inc'[a].key = KeyOf(a)
           /\ << inc'[a].id, KeyOf(a) >> \in Claims
           /\ \A b \in Range(inc'[a].alerts) : << inc'[a].id, KeyOf(b) >> \in Claims
  PROVE  ClaimsInv'
PROOF
<1>1. PICK C : C = {}
  OBVIOUS
<1>2. C \in SUBSET {<< clock, KeyOf(a) >>} /\ Claims \cup C = Claims
  BY <1>1
<1>3. a \in Holders' =>
        /\ inc'[a].key = KeyOf(a)
        /\ << inc'[a].id, KeyOf(a) >> \in Claims \cup C
        /\ \A b \in Range(inc'[a].alerts) : << inc'[a].id, KeyOf(b) >> \in Claims \cup C
  BY <1>2
<1> QED
  BY <1>1, <1>2, <1>3, CopyStep

\* Each step keeps the claims consistent.
LEMMA ClaimsStep == IInv /\ ClaimsInv /\ [Next]_vars => ClaimsInv'
PROOF
<1> SUFFICES ASSUME IInv, ClaimsInv, [Next]_vars PROVE ClaimsInv'
  OBVIOUS
<1> USE DEF history, database
<1>1. pc \in [Alert -> Positions] /\ DOMAIN inc = Alert
  BY DEF IInv, DomainsInv
<1>2. Holders \subseteq Alert /\ \A b \in Holders : pc[b] \in {"alerts", "begin", "write", "lost"}
  BY DEF Holders
<1>3. ASSUME NEW a \in Alert, a \notin Holders', UNCHANGED << rows, alerts, issued, collided >>,
             \A b \in Alert : b # a => pc'[b] = pc[b] /\ inc'[b] = inc[b]
      PROVE  ClaimsInv'
  <2>1. \A b \in Holders' : b # a => b \in Holders /\ inc'[b] = inc[b]
    BY <1>3 DEF Holders
  <2> QED
    BY <1>3, <2>1, OldClaims
<1>4. ASSUME NEW a \in Alert, UNCHANGED << rows, alerts, issued, collided >>,
             \A b \in Alert : b # a => pc'[b] = pc[b],
             a \in Holders, inc' = inc
      PROVE  ClaimsInv'
  <2>1. \A b \in Holders' : b # a => b \in Holders /\ inc'[b] = inc[b]
    BY <1>4 DEF Holders
  <2>2. /\ inc'[a].key = KeyOf(a) /\ << inc'[a].id, KeyOf(a) >> \in Claims
        /\ \A b \in Range(inc'[a].alerts) : << inc'[a].id, KeyOf(b) >> \in Claims
    BY <1>4, ClaimReasons DEF ClaimsInv
  <2> QED
    BY <1>4, <2>1, <2>2, OldClaims
<1>5. ASSUME NEW a \in Alert, Receive(a) \/ FindNoRow(a) \/ Fails(a) PROVE ClaimsInv'
  <2>1. /\ UNCHANGED << rows, alerts, issued, collided >>
        /\ pc' = [pc EXCEPT ![a] = pc'[a]] /\ pc'[a] \in {"find", "create", "error"}
        /\ \A b \in Alert : b # a => inc'[b] = inc[b]
    BY <1>1, <1>5 DEF Receive, FindNoRow, Fails
  <2>2. a \notin Holders' /\ \A b \in Alert : b # a => pc'[b] = pc[b]
    BY <1>1, <2>1 DEF Holders
  <2> QED
    BY <1>3, <2>1, <2>2
<1>6. ASSUME NEW a \in Alert, FindRow(a) PROVE ClaimsInv'
  <2>1. PICK r \in rows : /\ inc' = [inc EXCEPT ![a] = OfRow(r)]
                          /\ OfRow(r) \in Incident /\ r.key = KeyOf(a)
    BY <1>6, RowFound DEF IInv
  <2>2. DOMAIN r = RowFields
    BY DEF IInv, RowsInv
  <2>3. OfRow(r).id = r.id /\ OfRow(r).key = r.key /\ OfRow(r).alerts = << >>
    BY <2>2 DEF OfRow, RowFields
  <2>4. /\ UNCHANGED << rows, alerts, issued, collided >>
        /\ \A b \in Alert : b # a => pc'[b] = pc[b]
    BY <1>1, <1>6 DEF FindRow
  <2>5. \A b \in Holders' : b # a => b \in Holders /\ inc'[b] = inc[b]
    BY <1>1, <2>1, <2>4 DEF Holders
  <2>6. inc'[a] = OfRow(r) /\ << r.id, r.key >> \in Claims /\ Range(OfRow(r).alerts) = {}
    BY <1>1, <2>1, <2>3, ClaimReasons DEF Range
  <2> QED
    BY <2>1, <2>3, <2>4, <2>5, <2>6, OldClaims
<1>7. ASSUME NEW a \in Alert, FindAlerts(a) PROVE ClaimsInv'
  <2>1. /\ inc'[a].id = inc[a].id /\ inc'[a].key = inc[a].key
        /\ \A b \in Range(inc'[a].alerts) :
             b = a \/ \E r \in alerts : r.incident = inc[a].id /\ r.alert = b
        /\ inc' = [inc EXCEPT ![a] = inc'[a]]
    BY <1>7, AlertsFound
  <2>2. /\ UNCHANGED << rows, alerts, issued, collided >>
        /\ a \in Holders /\ \A b \in Alert : b # a => pc'[b] = pc[b]
    BY <1>1, <1>7 DEF FindAlerts, Holders
  <2>3. \A b \in Holders' : b # a => b \in Holders /\ inc'[b] = inc[b]
    BY <1>1, <2>1, <2>2 DEF Holders
  <2>4. inc'[a].key = KeyOf(a) /\ << inc[a].id, KeyOf(a) >> \in Claims
    BY <2>1, <2>2, ClaimReasons DEF ClaimsInv
  <2>5. \A b \in Range(inc'[a].alerts) : << inc[a].id, KeyOf(b) >> \in Claims
    BY <2>1, <2>4, ClaimReasons
  <2> QED
    BY <2>1, <2>2, <2>3, <2>4, <2>5, OldClaims
<1>8. ASSUME NEW a \in Alert, Create(a) PROVE ClaimsInv'
  <2> DEFINE i == NewIncident(a, clock, now[a])
  <2>1. /\ UNCHANGED << rows, alerts >> /\ inc' = [inc EXCEPT ![a] = i]
        /\ issued' = issued \cup {clock}
        /\ collided' = IF clock \in issued THEN collided \cup {clock} ELSE collided
        /\ \A b \in Alert : b # a => pc'[b] = pc[b]
    BY <1>1, <1>8 DEF Create
  <2>2. i.id = clock /\ i.key = KeyOf(a)
    BY DEF NewIncident
  <2>3. Range(i.alerts) = {a}
    BY NewIncidentAlerts
  <2> HIDE DEF i
  <2>4. inc'[a] = i /\ \A b \in Holders' : b # a => b \in Holders /\ inc'[b] = inc[b]
    BY <1>1, <2>1 DEF Holders
  <2> QED
    BY <2>1, <2>2, <2>3, <2>4, CopyStep
<1>9. ASSUME NEW a \in Alert, SaveChecks(a) \/ SaveLost(a) PROVE ClaimsInv'
  <2>1. /\ UNCHANGED << rows, alerts, issued, collided, inc >>
        /\ a \in Holders /\ \A b \in Alert : b # a => pc'[b] = pc[b]
    BY <1>1, <1>9 DEF SaveChecks, SaveLost, Writable, Holders
  <2> QED
    BY <1>4, <2>1
<1>10. ASSUME NEW a \in Alert, SaveCommits(a) \/ CommitsLate(a) PROVE ClaimsInv'
  <2>1. /\ UNCHANGED << inc, issued, collided >> /\ Commit(a)
        /\ pc[a] \in {"write", "lost"} /\ ~Duplicate(a)
        /\ pc' = [pc EXCEPT ![a] = pc'[a]] /\ pc'[a] \in {"ok", "error"}
    BY <1>1, <1>10 DEF SaveCommits, CommitsLate, Writable, Duplicate, IInv, LostInv
  <2>2. a \in Holders /\ Holders' \subseteq Holders
    BY <1>1, <2>1 DEF Holders
  <2> QED
    BY <2>1, <2>2, CommitClaims
<1>11. CASE Tick \/ UNCHANGED vars
  <2>1. UNCHANGED << pc, inc, rows, alerts, issued, collided >>
    BY <1>11 DEF Tick, vars
  <2> QED
    BY <2>1 DEF ClaimsInv, Claims, Holders, Consistent
<1> QED
  BY <1>5, <1>6, <1>7, <1>8, <1>9, <1>10, <1>11
  DEF Next, ProcessAlert, Find, SaveIncident

\* An incident holds alerts of its key only, in the tables as in the copies, unless
\* its id was drawn twice.
THEOREM KeysAreKept == Spec => []AlertsHaveTheKeyOfTheirIncident
PROOF
<1>1. Init => ClaimsInv
  BY DEF Init, ClaimsInv, Claims, Consistent, Holders
<1>2. ClaimsInv => AlertsHaveTheKeyOfTheirIncident
  <2> SUFFICES ASSUME ClaimsInv, NEW r \in rows, NEW x \in alerts,
                      x.incident = r.id, r.id \notin collided
               PROVE  KeyOf(x.alert) = r.key
    BY DEF AlertsHaveTheKeyOfTheirIncident
  <2>1. << r.id, r.key >> \in Claims /\ << x.incident, KeyOf(x.alert) >> \in Claims
    BY ClaimReasons
  <2> QED
    BY <2>1 DEF ClaimsInv, Consistent
<1> QED
  BY <1>1, <1>2, InitInv, NextStep, ClaimsStep, PTL DEF Spec

-----------------------------------------------------------------------------
(* Keys whose calls never overlapped. *)

\* The calls whose copy is what they will write.
Saving == {a \in Alert : pc[a] \in {"begin", "write", "lost"}}

SavedUnder(id) == {a \in committed : inc[a].id = id}

\* Two calls in flight for one key have overlapped.
RivalsInv ==
  \A a, b \in InFlight : KeyOf(a) = KeyOf(b) /\ a # b => KeyOf(a) \in OverlappedKeys

\* What was committed is over, and its fingerprint is stored with its incident;
\* alerts come into the table, and from there into copies, by commits only.
CommittedInv ==
  /\ IsFiniteSet(committed)
  /\ \A a \in committed :
       /\ a \in Alert /\ pc[a] \in {"ok", "error"}
       /\ \E x \in alerts : x.incident = inc[a].id /\ x.fingerprint = FingerprintOf[a]
  /\ \A x \in alerts : x.alert \in committed
  /\ \A a \in Saving : Range(inc[a].alerts) \subseteq committed \cup {a}

\* Calls for such a key come one after the other.
TimesInv ==
  /\ \A a \in Alert : now[a] <= clock
  /\ \A a \in committed, b \in InFlight :
       KeyOf(a) = KeyOf(b) /\ KeyOf(b) \notin OverlappedKeys => now[a] <= now[b]

\* A copy ends with the alert of its call; the others are still what is stored.
CopiesInv ==
  \A a \in Saving :
    /\ inc[a].alerts[Len(inc[a].alerts)] = a
    /\ KeyOf(a) \notin OverlappedKeys /\ inc[a].id \notin collided =>
         \A b \in Range(inc[a].alerts) :
           b = a \/ \E x \in alerts : x.incident = inc[a].id /\ x.alert = b

\* A copy's version counts the calls that saved its incident, and its own.
VersionsInv ==
  \A a \in Holders :
    KeyOf(a) \notin OverlappedKeys /\ inc[a].id \notin collided =>
      inc[a].version =
        Cardinality(SavedUnder(inc[a].id)) + (IF pc[a] = "alerts" THEN 0 ELSE 1)

\* No incident is resolved.
OpenInv ==
  /\ \A r \in rows : r.state # "resolved"
  /\ \A a \in Holders : inc[a].state # "resolved"

\* Beside the row a call is about to write, those of its key are no longer live.
LiveInv ==
  \A a \in Alert, r \in rows :
    /\ r.key = KeyOf(a) /\ KeyOf(a) \notin OverlappedKeys
    /\ pc[a] = "create" \/ (a \in Holders /\ r.id # inc[a].id)
    => r.lastAlertAt + Window <= clock

QInv ==
  /\ RivalsInv /\ CommittedInv /\ TimesInv /\ CopiesInv /\ VersionsInv /\ OpenInv /\ LiveInv
  /\ StoredAlertsAreNewest /\ VersionCountsSaves /\ OneLiveRowPerKey

-----------------------------------------------------------------------------
(* What a step does to all of these. *)

\* The steps that do not write the tables, and those that do.
Reads(a) ==
  \/ Receive(a) \/ FindRow(a) \/ FindNoRow(a) \/ FindAlerts(a) \/ Create(a)
  \/ SaveChecks(a) \/ SaveLost(a) \/ Fails(a)

Writes(a) == SaveCommits(a) \/ CommitsLate(a)

\* Nobody moves, and the clock may go on.
Waits == /\ UNCHANGED << pc, now, inc, overlapped, issued, collided, rows, alerts, committed >>
         /\ clock' = clock \/ clock' = clock + 1

\* A step is one of these.
LEMMA StepKinds ==
  ASSUME [Next]_vars PROVE Waits \/ \E a \in Alert : Reads(a) \/ Writes(a)
PROOF BY DEF Next, vars, history, database, Waits, Tick, ProcessAlert, Find, SaveIncident,
             Reads, Writes

\* What only grows: the clock, the overlapped keys and the ids drawn twice.
LEMMA OnlyGrows ==
  ASSUME TypeOK, [Next]_vars
  PROVE  /\ clock' \in Nat /\ clock \in Nat /\ clock <= clock'
         /\ OverlappedKeys \subseteq OverlappedKeys'
         /\ collided \subseteq collided'
PROOF
<1>0. clock \in Nat
  BY IncidentsAssumption DEF IncidentsAssumption, TypeOK, Time
<1>1. /\ clock' = clock \/ clock' = clock + 1
      /\ overlapped \subseteq overlapped' /\ collided \subseteq collided'
  BY DEF Next, vars, Tick, ProcessAlert, Receive, Find, FindRow, FindNoRow, FindAlerts, Create,
         SaveIncident, SaveChecks, SaveCommits, SaveLost, CommitsLate, Fails, history
<1>2. OverlappedKeys \subseteq OverlappedKeys'
  BY <1>1 DEF OverlappedKeys
<1> QED
  BY <1>0, <1>1, <1>2

\* A reading step changes its call's position, time and copy only; where the copy
\* may be saved, it comes from one of three places.
LEMMA ReadsOwn ==
  ASSUME IInv, NEW a \in Alert, Reads(a)
  PROVE  /\ \A b \in Alert : b # a => pc'[b] = pc[b] /\ now'[b] = now[b] /\ inc'[b] = inc[b]
         /\ UNCHANGED << clock, rows, alerts, committed >>
         /\ pc[a] \in Positions \ {"ok", "error"}
         /\ \/ Receive(a) \/ FindRow(a) \/ FindNoRow(a) \/ FindAlerts(a) \/ Create(a)
            \/ /\ pc[a] = "begin" /\ pc'[a] = "write" /\ UNCHANGED << now, inc >>
            \/ /\ pc[a] = "write" /\ pc'[a] = "lost" /\ UNCHANGED << now, inc >>
            \/ pc'[a] = "error" /\ now'[a] = 0
         /\ pc[a] = "pending" => Receive(a)
         /\ UNCHANGED << issued, collided >> \/ Create(a)
PROOF
<1>1. /\ pc \in [Alert -> Positions] /\ DOMAIN inc = Alert /\ now \in [Alert -> Time]
  BY DEF IInv, DomainsInv, TypeOK
<1>2. CASE Receive(a)
  BY <1>1, <1>2 DEF Receive, database
<1>3. CASE FindRow(a) \/ FindNoRow(a) \/ FindAlerts(a)
  BY <1>1, <1>3 DEF FindRow, FindNoRow, FindAlerts, database, history
<1>4. CASE Create(a)
  BY <1>1, <1>4 DEF Create, database
<1>5. CASE SaveChecks(a) \/ SaveLost(a)
  BY <1>1, <1>5 DEF SaveChecks, SaveLost, Writable, database, history
<1>6. CASE Fails(a)
  BY <1>1, <1>6 DEF Fails, database, history
<1> QED
  BY <1>2, <1>3, <1>4, <1>5, <1>6 DEF Reads

\* What reading changes of the sets of calls.
LEMMA ReadsSets ==
  ASSUME IInv, NEW a \in Alert, Reads(a)
  PROVE  /\ \A b \in Alert : b # a => /\ b \in Holders' <=> b \in Holders
                                      /\ b \in Saving' <=> b \in Saving
                                      /\ b \in InFlight' <=> b \in InFlight
         /\ a \in InFlight \/ Receive(a)
         /\ a \in InFlight' <=> pc'[a] # "error"
         /\ a \in Holders' => pc'[a] \in {"alerts", "begin", "write", "lost"}
         /\ a \in Saving' => pc'[a] \in {"begin", "write", "lost"}
PROOF
<1>1. /\ \A b \in Alert : b # a => pc'[b] = pc[b]
      /\ pc[a] \in Positions \ {"ok", "error"}
      /\ pc[a] = "pending" => Receive(a)
  BY ReadsOwn
<1>2. pc'[a] \in Positions \ {"pending", "ok"}
  <2>1. pc \in [Alert -> Positions]
    BY DEF IInv, DomainsInv
  <2> QED
    BY <2>1 DEF Reads, Receive, FindRow, FindNoRow, FindAlerts, Create, SaveChecks, SaveLost,
                Fails, Positions
<1>3. \A b \in Alert : b # a => /\ b \in Holders' <=> b \in Holders
                                /\ b \in Saving' <=> b \in Saving
                                /\ b \in InFlight' <=> b \in InFlight
  BY <1>1 DEF Holders, Saving, InFlight
<1>4. a \in InFlight \/ Receive(a)
  BY <1>1 DEF InFlight, Positions
<1>5. a \in InFlight' <=> pc'[a] # "error"
  BY <1>2 DEF InFlight
<1>6. /\ a \in Holders' => pc'[a] \in {"alerts", "begin", "write", "lost"}
      /\ a \in Saving' => pc'[a] \in {"begin", "write", "lost"}
  BY DEF Holders, Saving
<1> QED
  BY <1>3, <1>4, <1>5, <1>6

\* What a commit changes.
LEMMA CommitEffects ==
  ASSUME IInv, ClaimsInv, NEW a \in Alert, Writes(a)
  PROVE  /\ a \in Holders /\ a \in Saving /\ a \in InFlight /\ pc[a] # "alerts"
         /\ a \notin Holders' /\ a \notin Saving' /\ a \notin InFlight'
         /\ pc'[a] \in {"ok", "error"}
         /\ \A b \in Alert : b # a => /\ pc'[b] = pc[b]
                                      /\ b \in Holders' <=> b \in Holders
                                      /\ b \in Saving' <=> b \in Saving
                                      /\ b \in InFlight' <=> b \in InFlight
         /\ UNCHANGED << clock, now, inc, overlapped, issued, collided >>
         /\ committed' = committed \cup {a}
         /\ inc[a] \in Incident /\ inc[a].key = KeyOf(a) /\ a \in Range(inc[a].alerts)
         /\ \A r \in rows' :
              \/ /\ r.id = inc[a].id /\ r.key = KeyOf(a) /\ r.version = inc[a].version
                 /\ r.state = inc[a].state
              \/ r \in rows /\ r.id # inc[a].id
         /\ \A r, q \in rows' : r.id = q.id => r = q
         /\ \A x \in alerts' :
              \/ /\ x \in alerts
                 /\ ~(x.incident = inc[a].id /\ x.fingerprint \in Fingerprints(inc[a]))
              \/ /\ x.incident = inc[a].id /\ x.fingerprint \in Fingerprints(inc[a])
                 /\ x.alert = LastWith(inc[a], x.fingerprint)
         /\ \A x \in alerts : x.incident # inc[a].id => x \in alerts'
         /\ \A x \in alerts : \E y \in alerts' :
              y.incident = x.incident /\ y.fingerprint = x.fingerprint
         /\ \A b \in Range(inc[a].alerts) : \E y \in alerts' :
              y.incident = inc[a].id /\ y.fingerprint = FingerprintOf[b]
PROOF
<1> DEFINE i == inc[a]
<1>1. /\ TypeOK /\ RowsInv /\ HoldsInv /\ pc \in [Alert -> Positions]
      /\ \A b \in Alert : pc[b] = "lost" => (isNew[b] => \A r \in rows : r.id # inc[b].id)
  BY DEF IInv, DomainsInv, LostInv
<1>2. /\ Commit(a) /\ pc[a] \in {"write", "lost"} /\ ~Duplicate(a)
      /\ pc' = [pc EXCEPT ![a] = pc'[a]] /\ pc'[a] \in {"ok", "error"}
      /\ UNCHANGED << clock, now, inc, overlapped, issued, collided >>
  BY <1>1 DEF Writes, SaveCommits, CommitsLate, Writable, Duplicate, history
<1>3. \A b \in Alert : b # a => pc'[b] = pc[b]
  BY <1>1, <1>2
<1>4. /\ a \in Holders /\ a \in Saving /\ a \in InFlight /\ pc[a] # "alerts"
      /\ a \notin Holders' /\ a \notin Saving' /\ a \notin InFlight'
      /\ \A b \in Alert : b # a => /\ b \in Holders' <=> b \in Holders
                                   /\ b \in Saving' <=> b \in Saving
                                   /\ b \in InFlight' <=> b \in InFlight
  BY <1>2, <1>3 DEF Holders, Saving, InFlight
<1>5. i \in Incident /\ i.key = KeyOf(a) /\ a \in Range(i.alerts)
  BY <1>1, <1>2, <1>4 DEF TypeOK, ClaimsInv, HoldsInv
<1>6. /\ \A r, q \in rows' : r.id = q.id => r = q
      /\ \A r \in rows' : \/ /\ r.id = i.id /\ r.key = i.key /\ r.version = i.version
                             /\ r.state = i.state
                          \/ r \in rows /\ r.id # i.id
  <2>1. \A r, q \in rows' : r.id = q.id => r = q
    BY <1>2, <1>5, RowsWritten
  <2>2. DOMAIN i \ {"alerts"} = RowFields
    BY <1>5 DEF Incident, RowFields
  <2>3. RowOf(i) = [f \in RowFields |-> i[f]]
    BY <2>2 DEF RowOf
  <2>4. /\ RowOf(i).id = i.id /\ RowOf(i).key = i.key /\ RowOf(i).version = i.version
        /\ RowOf(i).state = i.state
    BY <2>3 DEF RowFields
  <2>5. CASE isNew[a]
    <3>1. rows' = rows \cup {RowOf(i)} /\ \A r \in rows : r.id # i.id
      BY <1>2, <2>5 DEF Commit, CreateIncident, Duplicate
    <3> HIDE DEF i
    <3> QED
      BY <2>1, <2>4, <3>1
  <2>6. CASE ~isNew[a]
    <3> DEFINE new(r) == IF r.id = i.id THEN [RowOf(i) EXCEPT !.createdAt = r.createdAt]
                         ELSE r
    <3>1. rows' = {new(r) : r \in rows}
      BY <1>2, <2>6 DEF Commit, UpdateIncident
    <3>2. ASSUME NEW r \in rows, r.id = i.id
          PROVE  /\ new(r).id = i.id /\ new(r).key = i.key /\ new(r).version = i.version
                 /\ new(r).state = i.state
      BY <2>3, <2>4, <3>2 DEF RowFields
    <3>3. \A r \in rows : r.id # i.id => new(r) = r
      OBVIOUS
    <3> HIDE DEF i, new
    <3> QED
      BY <2>1, <3>1, <3>2, <3>3
  <2> QED
    BY <2>5, <2>6
<1>7. alerts' = CreateAlerts(i)
  BY <1>2 DEF Commit
<1>8. /\ \A x \in alerts : \E y \in alerts' :
           y.incident = x.incident /\ y.fingerprint = x.fingerprint
      /\ \A b \in Range(i.alerts) : \E y \in alerts' :
           y.incident = i.id /\ y.fingerprint = FingerprintOf[b]
  <2>1. /\ alerts \subseteq AlertRow /\ IsFiniteSet(alerts)
        /\ \A r \in alerts : r.fingerprint = FingerprintOf[r.alert]
        /\ \A r, q \in alerts :
             (r.incident = q.incident /\ r.fingerprint = q.fingerprint) => r = q
    BY <1>1 DEF TypeOK, RowsInv
  <2> HIDE DEF i
  <2> QED
    BY <1>5, <1>7, <2>1, AlertsCreated
<1>9. /\ \A x \in alerts' :
           \/ x \in alerts /\ ~(x.incident = i.id /\ x.fingerprint \in Fingerprints(i))
           \/ /\ x.incident = i.id /\ x.fingerprint \in Fingerprints(i)
              /\ x.alert = LastWith(i, x.fingerprint)
      /\ \A x \in alerts : x.incident # i.id => x \in alerts'
  <2> HIDE DEF i
  <2> QED
    BY <1>7 DEF CreateAlerts
<1>10. committed' = committed \cup {a}
  BY <1>2 DEF Commit
<1> QED
  BY <1>2, <1>3, <1>4, <1>5, <1>6, <1>8, <1>9, <1>10

\* Two copies of one incident are for one key, so their calls have overlapped.
LEMMA NoRivalShares ==
  ASSUME ClaimsInv, RivalsInv, NEW a \in Holders, NEW b \in Holders, a # b,
         inc[a].id = inc[b].id, inc[a].id \notin collided
  PROVE  KeyOf(b) \in OverlappedKeys
PROOF
<1>1. << inc[a].id, KeyOf(a) >> \in Claims /\ << inc[b].id, KeyOf(b) >> \in Claims
  BY ClaimReasons
<1>2. KeyOf(a) = KeyOf(b)
  BY <1>1 DEF ClaimsInv, Consistent
<1>3. a \in InFlight /\ b \in InFlight
  BY DEF Holders, InFlight
<1> QED
  BY <1>2, <1>3 DEF RivalsInv

\* A committed call's incident is one that was issued, and claims its key.
LEMMA CommittedClaims ==
  ASSUME TypeOK, CommittedInv, ClaimsInv, NEW a \in committed
  PROVE  << inc[a].id, KeyOf(a) >> \in Claims /\ inc[a].id \in issued
PROOF
<1>1. a \in Alert
  BY DEF CommittedInv
<1>2. PICK x \in alerts : x.incident = inc[a].id /\ x.fingerprint = FingerprintOf[a]
  BY DEF CommittedInv
<1>3. x.alert \in Alert /\ FingerprintOf[x.alert] = FingerprintOf[a]
  BY <1>2 DEF TypeOK, AlertRow
<1>4. LabelsOf[x.alert] = LabelsOf[a]
  BY <1>1, <1>3, FingerprintAssumption DEF FingerprintAssumption
<1>5. KeyOf(x.alert) = KeyOf(a)
  BY <1>4 DEF KeyOf
<1>6. << inc[a].id, KeyOf(a) >> \in Claims
  BY <1>2, <1>5, ClaimReasons
<1> QED
  BY <1>6 DEF ClaimsInv, Consistent

-----------------------------------------------------------------------------
(* Each of them is kept. *)

\* A call that comes while another for its key is in flight overlaps with it.
LEMMA RivalsStep == ASSUME IInv, ClaimsInv, RivalsInv, [Next]_vars PROVE RivalsInv'
PROOF
<1> SUFFICES ASSUME NEW b \in InFlight', NEW c \in InFlight', KeyOf(b) = KeyOf(c), b # c
             PROVE  KeyOf(b) \in OverlappedKeys'
  BY DEF RivalsInv
<1>1. b \in Alert /\ c \in Alert /\ OverlappedKeys \subseteq OverlappedKeys'
  BY OnlyGrows DEF IInv, InFlight
<1>2. b \in InFlight /\ c \in InFlight => KeyOf(b) \in OverlappedKeys'
  BY <1>1 DEF RivalsInv
<1>3. CASE Waits
  <2>1. InFlight' = InFlight
    BY <1>3 DEF Waits, InFlight
  <2> QED
    BY <1>2, <2>1
<1>4. ASSUME NEW a \in Alert, Reads(a) PROVE KeyOf(b) \in OverlappedKeys'
  <2>1. CASE a \in InFlight
    BY <1>1, <1>2, <1>4, <2>1, ReadsSets
  <2>2. CASE Receive(a)
    <3>1. ASSUME NEW d \in InFlight, KeyOf(d) = KeyOf(a)
          PROVE  KeyOf(a) \in OverlappedKeys'
      <4>1. d \in Rivals(a)
        BY <3>1 DEF Rivals
      <4>2. overlapped' = overlapped \cup Rivals(a) \cup {a}
        BY <2>2, <4>1 DEF Receive
      <4> QED
        BY <4>2 DEF OverlappedKeys
    <3>2. \A d \in Alert : d # a => (d \in InFlight' <=> d \in InFlight)
      BY <1>4, ReadsSets
    <3>3. CASE b = a
      BY <1>1, <3>1, <3>2, <3>3
    <3>4. CASE c = a
      BY <1>1, <3>1, <3>2, <3>4
    <3> QED
      BY <1>1, <1>2, <3>2, <3>3, <3>4
  <2> QED
    BY <1>4, <2>1, <2>2, ReadsSets
<1>5. ASSUME NEW a \in Alert, Writes(a) PROVE KeyOf(b) \in OverlappedKeys'
  BY <1>1, <1>2, <1>5, CommitEffects
<1> QED
  BY <1>3, <1>4, <1>5, StepKinds

\* What a call in flight may come to hold.
LEMMA CopiesRead ==
  ASSUME IInv, NEW a \in Alert, Reads(a), a \in Saving'
  PROVE  \/ a \in Saving /\ inc'[a] = inc[a]
         \/ /\ pc[a] = "alerts" /\ inc'[a].id = inc[a].id
            /\ inc'[a].version = inc[a].version + 1 /\ inc'[a].state = inc[a].state
            /\ inc'[a].alerts[Len(inc'[a].alerts)] = a
            /\ \A b \in Range(inc'[a].alerts) :
                 b = a \/ \E r \in alerts : r.incident = inc[a].id /\ r.alert = b
         \/ /\ pc[a] = "create" /\ inc'[a].id = clock
            /\ inc'[a].version = 1 /\ inc'[a].state = "open"
            /\ inc'[a].alerts[Len(inc'[a].alerts)] = a
            /\ \A b \in Range(inc'[a].alerts) : b = a
            /\ collided' = IF clock \in issued THEN collided \cup {clock} ELSE collided
PROOF
<1>1. pc'[a] \in {"begin", "write", "lost"} /\ pc \in [Alert -> Positions] /\ DOMAIN inc = Alert
  BY ReadsSets DEF IInv, DomainsInv
<1>2. CASE Receive(a) \/ FindRow(a) \/ FindNoRow(a) \/ pc'[a] = "error"
  BY <1>1, <1>2 DEF Receive, FindRow, FindNoRow
<1>3. CASE pc[a] \in {"begin", "write"} /\ UNCHANGED inc
  BY <1>3 DEF Saving
<1>4. CASE FindAlerts(a)
  <2> DEFINE found == [inc[a] EXCEPT !.alerts = GetAlerts(inc[a].id)]
  <2>1. /\ inc[a] \in Incident /\ now[a] \in Time
        /\ pc[a] = "alerts" /\ inc' = [inc EXCEPT ![a] = Joined(found, a, now[a])]
    BY <1>4 DEF FindAlerts, IInv, TypeOK
  <2>2. GetAlerts(inc[a].id) \in Seq(Alert)
    BY AlertsRead DEF IInv, TypeOK, RowsInv
  <2>3. /\ found \in Incident /\ found.id = inc[a].id /\ found.version = inc[a].version
        /\ found.state = inc[a].state /\ found.alerts \in Seq(Alert)
    BY <2>1, <2>2 DEF Incident
  <2> HIDE DEF found
  <2>4. inc'[a] = Joined(found, a, now[a])
    BY <1>1, <2>1
  <2>5. /\ Joined(found, a, now[a]).alerts = Append(found.alerts, a)
        /\ Joined(found, a, now[a]).version = found.version + 1
    BY <2>3 DEF Joined, Incident
  <2>6. Append(found.alerts, a)[Len(Append(found.alerts, a))] = a
    BY <2>3, AppendProperties
  <2>7. inc'[a].id = found.id /\ inc'[a].state = found.state
    BY <2>1, <2>3, <2>4, JoinedType
  <2>8. \A b \in Range(inc'[a].alerts) :
          b = a \/ \E r \in alerts : r.incident = inc[a].id /\ r.alert = b
    BY <1>4, AlertsFound
  <2> QED
    BY <2>1, <2>3, <2>4, <2>5, <2>6, <2>7, <2>8
<1>5. CASE Create(a)
  <2> DEFINE i == NewIncident(a, clock, now[a])
  <2>1. /\ pc[a] = "create" /\ inc' = [inc EXCEPT ![a] = i]
        /\ collided' = IF clock \in issued THEN collided \cup {clock} ELSE collided
    BY <1>5 DEF Create
  <2>2. /\ i.id = clock /\ i.version = 1 /\ i.state = "open" /\ i.alerts = << a >>
    BY DEF NewIncident
  <2>3. Range(i.alerts) = {a}
    BY NewIncidentAlerts
  <2> HIDE DEF i
  <2>4. inc'[a] = i
    BY <1>1, <2>1
  <2>5. inc'[a].alerts[Len(inc'[a].alerts)] = a
    <3>1. PICK s : s = << a >>
      OBVIOUS
    <3>2. Len(s) = 1 /\ s[1] = a
      BY <3>1
    <3>3. inc'[a].alerts = s
      BY <2>2, <2>4, <3>1
    <3> QED
      BY <3>2, <3>3
  <2> QED
    BY <2>1, <2>2, <2>3, <2>4, <2>5
<1> QED
  BY <1>2, <1>3, <1>4, <1>5, ReadsOwn

\* A commit ends its call and leaves something for every fingerprint.
LEMMA CommittedStep ==
  ASSUME IInv, ClaimsInv, CommittedInv, [Next]_vars PROVE CommittedInv'
PROOF
<1>1. CASE Waits
  <2>1. Saving' = Saving
    BY <1>1 DEF Waits, Saving
  <2> QED
    BY <1>1, <2>1 DEF Waits, CommittedInv
<1>2. ASSUME NEW a \in Alert, Reads(a) PROVE CommittedInv'
  <2>1. /\ UNCHANGED << alerts, committed >>
        /\ \A b \in Alert : b # a => pc'[b] = pc[b] /\ inc'[b] = inc[b]
        /\ pc[a] \notin {"ok", "error"}
    BY <1>2, ReadsOwn
  <2>2. \A b \in committed : b # a /\ b \in Alert
    BY <2>1 DEF CommittedInv
  <2>3. ASSUME NEW b \in Saving' PROVE Range(inc'[b].alerts) \subseteq committed \cup {b}
    <3>1. CASE b = a
      <4>1. CASE a \in Saving /\ inc'[a] = inc[a]
        BY <3>1, <4>1 DEF CommittedInv
      <4>2. CASE \A d \in Range(inc'[a].alerts) :
                   d = a \/ \E r \in alerts : r.incident = inc[a].id /\ r.alert = d
        BY <3>1, <4>2 DEF CommittedInv
      <4> QED
        BY <1>2, <2>3, <3>1, <4>1, <4>2, CopiesRead
    <3>2. CASE b # a
      <4>1. b \in Alert
        BY DEF Saving
      <4> QED
        BY <1>2, <2>1, <3>2, <4>1, ReadsSets DEF CommittedInv
    <3> QED
      BY <3>1, <3>2
  <2> QED
    BY <2>1, <2>2, <2>3 DEF CommittedInv
<1>3. ASSUME NEW a \in Alert, Writes(a) PROVE CommittedInv'
  <2>1. /\ a \in Saving /\ a \notin Saving' /\ pc'[a] \in {"ok", "error"}
        /\ \A b \in Alert : b # a => pc'[b] = pc[b] /\ (b \in Saving' <=> b \in Saving)
        /\ inc' = inc /\ committed' = committed \cup {a}
        /\ inc[a] \in Incident /\ a \in Range(inc[a].alerts)
    BY <1>3, CommitEffects
  <2>2. IsFiniteSet(committed')
    BY <2>1, FS_AddElement DEF CommittedInv
  <2>3. ASSUME NEW b \in committed'
        PROVE  /\ b \in Alert /\ pc'[b] \in {"ok", "error"}
               /\ \E x \in alerts' : x.incident = inc'[b].id /\ x.fingerprint = FingerprintOf[b]
    <3>1. CASE b = a
      BY <1>3, <2>1, <3>1, CommitEffects
    <3>2. CASE b \in committed /\ b # a
      <4>1. b \in Alert /\ pc[b] \in {"ok", "error"}
        BY <3>2 DEF CommittedInv
      <4>2. PICK x \in alerts : x.incident = inc[b].id /\ x.fingerprint = FingerprintOf[b]
        BY <3>2 DEF CommittedInv
      <4>3. \E y \in alerts' : y.incident = x.incident /\ y.fingerprint = x.fingerprint
        BY <1>3, CommitEffects
      <4> QED
        BY <2>1, <3>2, <4>1, <4>2, <4>3
    <3> QED
      BY <2>1, <3>1, <3>2
  <2>4. Range(inc[a].alerts) \subseteq committed'
    BY <2>1 DEF CommittedInv
  <2>5. ASSUME NEW x \in alerts' PROVE x.alert \in committed'
    <3>1. CASE x \in alerts
      BY <2>1, <3>1 DEF CommittedInv
    <3>2. CASE x.fingerprint \in Fingerprints(inc[a]) /\ x.alert = LastWith(inc[a], x.fingerprint)
      BY <2>1, <2>4, <3>2, LastHasFingerprint
    <3> QED
      BY <1>3, <3>1, <3>2, CommitEffects
  <2>6. \A b \in Saving' : Range(inc'[b].alerts) \subseteq committed' \cup {b}
    <3>1. \A b \in Saving' : b \in Alert
      BY DEF Saving
    <3> QED
      BY <2>1, <3>1 DEF CommittedInv
  <2> QED
    BY <2>2, <2>3, <2>5, <2>6 DEF CommittedInv
<1> QED
  BY <1>1, <1>2, <1>3, StepKinds

\* A call of a key that never overlapped reads the clock after all that were saved.
LEMMA TimesStep ==
  ASSUME IInv, ClaimsInv, RivalsInv, CommittedInv, TimesInv, [Next]_vars PROVE TimesInv'
PROOF
<1>1. /\ clock' \in Nat /\ clock \in Nat /\ clock <= clock' /\ now \in [Alert -> Time]
      /\ OverlappedKeys \subseteq OverlappedKeys'
  BY OnlyGrows DEF IInv, TypeOK
<1>2. \A b \in Alert : now[b] \in Nat /\ now[b] <= clock
  BY <1>1, IncidentsAssumption DEF Time, IncidentsAssumption, TimesInv
<1>3. CASE Waits
  <2>1. UNCHANGED << now, committed >> /\ InFlight' = InFlight
    BY <1>3 DEF Waits, InFlight
  <2>2. \A b \in Alert : now'[b] <= clock'
    BY <1>1, <1>2, <2>1
  <2> QED
    BY <1>1, <2>1, <2>2 DEF TimesInv
<1>4. ASSUME NEW a \in Alert, Reads(a) PROVE TimesInv'
  <2>1. /\ UNCHANGED << clock, committed >>
        /\ \A b \in Alert : b # a => now'[b] = now[b]
        /\ pc[a] \notin {"ok", "error"}
    BY <1>4, ReadsOwn
  <2>2. now'[a] = now[a] \/ (Receive(a) /\ now'[a] = clock) \/ (pc'[a] = "error" /\ now'[a] = 0)
    <3>1. Receive(a) => now'[a] = clock
      BY <1>1 DEF Receive
    <3>2. FindRow(a) \/ FindNoRow(a) \/ FindAlerts(a) \/ Create(a) => now'[a] = now[a]
      BY DEF FindRow, FindNoRow, FindAlerts, Create
    <3> QED
      BY <1>4, <3>1, <3>2, ReadsOwn
  <2>3. \A b \in Alert : now'[b] <= clock'
    BY <1>1, <1>2, <2>1, <2>2
  <2>4. ASSUME NEW c \in committed', NEW b \in InFlight', KeyOf(c) = KeyOf(b),
               KeyOf(b) \notin OverlappedKeys'
        PROVE  now'[c] <= now'[b]
    <3>1. c \in committed /\ c \in Alert /\ c # a /\ b \in Alert /\ now'[c] = now[c]
      BY <2>1 DEF CommittedInv, InFlight
    <3>2. CASE b # a \/ now'[a] = now[a]
      <4>1. now'[b] = now[b]
        BY <2>1, <3>1, <3>2
      <4>2. CASE b \in InFlight
        BY <1>1, <2>4, <3>1, <4>1, <4>2 DEF TimesInv
      <4>3. CASE b = a /\ Receive(a)
        <5>1. now'[b] = clock
          BY <1>1, <4>3 DEF Receive
        <5> QED
          BY <1>2, <3>1, <5>1
      <4> QED
        BY <1>4, <3>1, <4>2, <4>3, ReadsSets
    <3>3. CASE b = a /\ Receive(a) /\ now'[a] = clock
      BY <1>2, <3>1, <3>3
    <3>4. CASE b = a /\ pc'[a] = "error"
      BY <1>4, <3>4, ReadsSets
    <3> QED
      BY <2>2, <3>2, <3>3, <3>4
  <2> QED
    BY <2>3, <2>4 DEF TimesInv
<1>5. ASSUME NEW a \in Alert, Writes(a) PROVE TimesInv'
  <2>1. /\ UNCHANGED << clock, now >> /\ committed' = committed \cup {a}
        /\ a \in InFlight /\ a \notin InFlight'
        /\ \A b \in Alert : b # a => (b \in InFlight' <=> b \in InFlight)
    BY <1>5, CommitEffects
  <2>2. ASSUME NEW c \in committed', NEW b \in InFlight', KeyOf(c) = KeyOf(b),
               KeyOf(b) \notin OverlappedKeys'
        PROVE  now[c] <= now[b]
    <3>1. b # a /\ b \in InFlight
      BY <2>1 DEF InFlight
    <3>2. c # a
      BY <1>1, <2>1, <2>2, <3>1 DEF RivalsInv
    <3> QED
      BY <1>1, <2>1, <2>2, <3>1, <3>2 DEF TimesInv
  <2> QED
    BY <1>2, <2>1, <2>2 DEF TimesInv
<1> QED
  BY <1>3, <1>4, <1>5, StepKinds

\* The stored alerts of a copy that nobody raced stay stored until it is saved.
LEMMA CopiesStep ==
  ASSUME IInv, ClaimsInv, RivalsInv, CopiesInv, [Next]_vars PROVE CopiesInv'
PROOF
<1>1. OverlappedKeys \subseteq OverlappedKeys' /\ collided \subseteq collided'
  BY OnlyGrows DEF IInv
<1>2. CASE Waits
  <2>1. UNCHANGED << inc, alerts >> /\ Saving' = Saving
    BY <1>2 DEF Waits, Saving
  <2> QED
    BY <1>1, <2>1 DEF CopiesInv
<1>3. ASSUME NEW a \in Alert, Reads(a) PROVE CopiesInv'
  <2>1. /\ UNCHANGED alerts /\ \A b \in Alert : b # a => inc'[b] = inc[b]
        /\ \A b \in Alert : b # a => (b \in Saving' <=> b \in Saving)
    BY <1>3, ReadsOwn, ReadsSets
  <2>2. ASSUME NEW b \in Saving', b \in Saving, inc'[b] = inc[b]
        PROVE  /\ inc'[b].alerts[Len(inc'[b].alerts)] = b
               /\ KeyOf(b) \notin OverlappedKeys' /\ inc'[b].id \notin collided' =>
                    \A d \in Range(inc'[b].alerts) :
                      d = b \/ \E x \in alerts' : x.incident = inc'[b].id /\ x.alert = d
    BY <1>1, <2>1, <2>2 DEF CopiesInv
  <2>3. ASSUME a \in Saving'
        PROVE  /\ inc'[a].alerts[Len(inc'[a].alerts)] = a
               /\ KeyOf(a) \notin OverlappedKeys' /\ inc'[a].id \notin collided' =>
                    \A d \in Range(inc'[a].alerts) :
                      d = a \/ \E x \in alerts' : x.incident = inc'[a].id /\ x.alert = d
    <3>1. CASE a \in Saving /\ inc'[a] = inc[a]
      BY <2>2, <2>3, <3>1
    <3>2. CASE /\ inc'[a].alerts[Len(inc'[a].alerts)] = a /\ inc'[a].id = inc[a].id
               /\ \A d \in Range(inc'[a].alerts) :
                    d = a \/ \E r \in alerts : r.incident = inc[a].id /\ r.alert = d
      BY <2>1, <3>2
    <3>3. CASE /\ inc'[a].alerts[Len(inc'[a].alerts)] = a
               /\ \A d \in Range(inc'[a].alerts) : d = a
      BY <3>3
    <3> QED
      BY <1>3, <2>3, <3>1, <3>2, <3>3, CopiesRead
  <2>4. ASSUME NEW b \in Saving'
        PROVE  /\ inc'[b].alerts[Len(inc'[b].alerts)] = b
               /\ KeyOf(b) \notin OverlappedKeys' /\ inc'[b].id \notin collided' =>
                    \A d \in Range(inc'[b].alerts) :
                      d = b \/ \E x \in alerts' : x.incident = inc'[b].id /\ x.alert = d
    <3>1. CASE b = a
      BY <2>3, <3>1
    <3>2. CASE b # a
      <4>1. b \in Alert
        BY DEF Saving
      <4> QED
        BY <2>1, <2>2, <3>2, <4>1
    <3> QED
      BY <3>1, <3>2
  <2> QED
    BY <2>4 DEF CopiesInv
<1>4. ASSUME NEW a \in Alert, Writes(a) PROVE CopiesInv'
  <2>1. /\ UNCHANGED << inc, collided, overlapped >> /\ a \in Holders /\ a \notin Saving'
        /\ \A b \in Alert : b # a => (b \in Saving' <=> b \in Saving)
        /\ \A x \in alerts : x.incident # inc[a].id => x \in alerts'
    BY <1>4, CommitEffects
  <2>2. ASSUME NEW b \in Saving'
        PROVE  /\ inc[b].alerts[Len(inc[b].alerts)] = b
               /\ KeyOf(b) \notin OverlappedKeys' /\ inc[b].id \notin collided' =>
                    \A d \in Range(inc[b].alerts) :
                      d = b \/ \E x \in alerts' : x.incident = inc[b].id /\ x.alert = d
    <3>1. b \in Saving /\ b # a /\ b \in Holders
      BY <2>1 DEF Saving, Holders
    <3>2. ASSUME KeyOf(b) \notin OverlappedKeys', inc[b].id \notin collided'
          PROVE  inc[a].id # inc[b].id
      BY <1>1, <2>1, <3>1, <3>2, NoRivalShares
    <3> QED
      BY <1>1, <2>1, <3>1, <3>2 DEF CopiesInv
  <2> QED
    BY <2>1, <2>2 DEF CopiesInv
<1> QED
  BY <1>2, <1>3, <1>4, StepKinds

\* The alert upserted last with the fingerprint of the alert at the end is that one.
LEMMA LastIsOwn ==
  ASSUME NEW i \in Incident, NEW a \in Range(i.alerts), i.alerts[Len(i.alerts)] = a
  PROVE  LastWith(i, FingerprintOf[a]) = a
PROOF
<1> DEFINE f == FingerprintOf[a]
           P(n) == /\ FingerprintOf[i.alerts[n]] = f
                   /\ \A m \in DOMAIN i.alerts : FingerprintOf[i.alerts[m]] = f => m <= n
           k == Len(i.alerts)
<1>1. i.alerts \in Seq(Alert)
  BY DEF Incident
<1>2. DOMAIN i.alerts = 1 .. k /\ k \in Nat
  BY <1>1
<1>3. k \in DOMAIN i.alerts
  BY <1>2 DEF Range
<1>4. P(k)
  BY <1>2
<1>5. \A n \in DOMAIN i.alerts : P(n) => n = k
  BY <1>2, <1>3
<1>6. LastWith(i, f) = i.alerts[CHOOSE n \in DOMAIN i.alerts : P(n)]
  BY DEF LastWith
<1> HIDE DEF P, k
<1>7. (CHOOSE n \in DOMAIN i.alerts : P(n)) = k
  BY <1>3, <1>4, <1>5
<1> QED
  BY <1>6, <1>7 DEF k

\* What a commit writes over an alert is not older than it.
LEMMA NewestStep ==
  ASSUME IInv, ClaimsInv, RivalsInv, CommittedInv, TimesInv, CopiesInv,
         StoredAlertsAreNewest, [Next]_vars
  PROVE  StoredAlertsAreNewest'
PROOF
<1>1. OverlappedKeys \subseteq OverlappedKeys' /\ collided \subseteq collided' /\ TypeOK
  BY OnlyGrows DEF IInv
<1>2. CASE Waits
  <2>1. UNCHANGED << inc, alerts, committed, now, overlapped, collided >>
    BY <1>2 DEF Waits
  <2> QED
    BY <2>1 DEF StoredAlertsAreNewest, OverlappedKeys
<1>3. ASSUME NEW a \in Alert, Reads(a) PROVE StoredAlertsAreNewest'
  <2>1. /\ UNCHANGED << alerts, committed >>
        /\ \A b \in Alert : b # a => inc'[b] = inc[b] /\ now'[b] = now[b]
        /\ pc[a] \notin {"ok", "error"}
    BY <1>3, ReadsOwn
  <2>2. \A c \in committed : inc'[c] = inc[c] /\ now'[c] = now[c]
    BY <2>1 DEF CommittedInv
  <2>3. \A x \in alerts : now'[x.alert] = now[x.alert]
    BY <2>2 DEF CommittedInv
  <2> QED
    BY <1>1, <2>1, <2>2, <2>3 DEF StoredAlertsAreNewest
<1>4. ASSUME NEW a \in Alert, Writes(a) PROVE StoredAlertsAreNewest'
  <2> DEFINE i == inc[a]
  <2>1. /\ UNCHANGED << inc, now, collided, overlapped >> /\ committed' = committed \cup {a}
        /\ a \in Holders /\ a \in Saving /\ a \in InFlight
        /\ i \in Incident /\ a \in Range(i.alerts)
        /\ \A x \in alerts' :
             \/ x \in alerts /\ ~(x.incident = i.id /\ x.fingerprint \in Fingerprints(i))
             \/ /\ x.incident = i.id /\ x.fingerprint \in Fingerprints(i)
                /\ x.alert = LastWith(i, x.fingerprint)
    BY <1>4, CommitEffects
  <2>2. OverlappedKeys' = OverlappedKeys /\ now \in [Alert -> Time]
    BY <1>1, <2>1 DEF OverlappedKeys, TypeOK
  <2>3. ASSUME NEW x \in alerts', NEW c \in committed',
               x.incident = inc[c].id, x.fingerprint = FingerprintOf[c],
               x.incident \notin collided, KeyOf(c) \notin OverlappedKeys
        PROVE  now[c] <= now[x.alert]
    <3>1. CASE x \in alerts /\ ~(x.incident = i.id /\ x.fingerprint \in Fingerprints(i))
      <4>1. FingerprintOf[a] \in Fingerprints(i)
        BY <2>1 DEF Fingerprints
      <4>2. c \in committed
        BY <2>1, <2>3, <3>1, <4>1
      <4> QED
        BY <2>3, <3>1, <4>2 DEF StoredAlertsAreNewest
    <3>2. CASE /\ x.incident = i.id /\ x.fingerprint \in Fingerprints(i)
               /\ x.alert = LastWith(i, x.fingerprint)
      <4>1. LastWith(i, FingerprintOf[a]) = a
        BY <2>1, LastIsOwn DEF CopiesInv
      <4>2. now[a] \in Nat
        BY <2>2, IncidentsAssumption DEF Time, IncidentsAssumption
      <4>3. CASE c = a
        BY <2>3, <3>2, <4>1, <4>2, <4>3
      <4>4. CASE c \in committed
        <5>1. << i.id, KeyOf(a) >> \in Claims /\ << inc[c].id, KeyOf(c) >> \in Claims
          BY <1>1, <2>1, <4>4, ClaimReasons, CommittedClaims
        <5>2. KeyOf(a) = KeyOf(c)
          BY <2>3, <3>2, <5>1 DEF ClaimsInv, Consistent
        <5>3. CASE x.fingerprint = FingerprintOf[a]
          <6>1. x.alert = a
            BY <3>2, <4>1, <5>3
          <6> QED
            BY <2>1, <2>3, <4>4, <5>2, <6>1 DEF TimesInv
        <5>4. CASE x.fingerprint # FingerprintOf[a]
          <6>1. /\ x.alert \in Range(i.alerts) /\ FingerprintOf[x.alert] = x.fingerprint
            BY <2>1, <3>2, LastHasFingerprint
          <6>2. PICK y \in alerts : y.incident = i.id /\ y.alert = x.alert
            BY <2>1, <2>3, <3>2, <5>2, <5>4, <6>1 DEF CopiesInv
          <6>3. y.fingerprint = FingerprintOf[c]
            BY <1>1, <2>3, <6>1, <6>2 DEF TypeOK
          <6> QED
            BY <2>3, <3>2, <4>4, <6>2, <6>3 DEF StoredAlertsAreNewest
        <5> QED
          BY <5>3, <5>4
      <4> QED
        BY <2>1, <4>3, <4>4
    <3> QED
      BY <2>1, <3>1, <3>2
  <2> QED
    BY <2>1, <2>2, <2>3 DEF StoredAlertsAreNewest
<1> QED
  BY <1>2, <1>3, <1>4, StepKinds

\* The calls that saved an incident, when a call reads and when it commits.
LEMMA SavedGrows ==
  ASSUME IInv, ClaimsInv, CommittedInv, NEW a \in Alert
  PROVE  /\ Reads(a) => \A id : SavedUnder(id)' = SavedUnder(id)
         /\ Writes(a) => \A id :
              Cardinality(SavedUnder(id)') =
                Cardinality(SavedUnder(id)) + (IF inc[a].id = id THEN 1 ELSE 0)
         /\ \A id : Cardinality(SavedUnder(id)) \in Nat
PROOF
<1>1. ASSUME NEW id PROVE IsFiniteSet(SavedUnder(id)) /\ Cardinality(SavedUnder(id)) \in Nat
  <2>1. SavedUnder(id) \subseteq committed
    BY DEF SavedUnder
  <2>2. IsFiniteSet(SavedUnder(id))
    BY <2>1, FS_Subset DEF CommittedInv
  <2> QED
    BY <2>2, FS_CardinalityType
<1>2. ASSUME Reads(a), NEW id PROVE SavedUnder(id)' = SavedUnder(id)
  <2>1. /\ committed' = committed /\ pc[a] \notin {"ok", "error"}
        /\ \A b \in Alert : b # a => inc'[b] = inc[b]
    BY <1>2, ReadsOwn
  <2>2. \A b \in committed : inc'[b] = inc[b]
    BY <2>1 DEF CommittedInv
  <2> QED
    BY <2>1, <2>2 DEF SavedUnder
<1>3. ASSUME Writes(a), NEW id
      PROVE  Cardinality(SavedUnder(id)') =
               Cardinality(SavedUnder(id)) + (IF inc[a].id = id THEN 1 ELSE 0)
  <2>1. inc' = inc /\ committed' = committed \cup {a} /\ a \in InFlight
    BY <1>3, CommitEffects
  <2>2. a \notin SavedUnder(id)
    BY <2>1 DEF CommittedInv, InFlight, SavedUnder
  <2>3. SavedUnder(id)' = IF inc[a].id = id THEN SavedUnder(id) \cup {a} ELSE SavedUnder(id)
    BY <2>1 DEF SavedUnder
  <2>4. /\ Cardinality(SavedUnder(id) \cup {a}) = Cardinality(SavedUnder(id)) + 1
        /\ Cardinality(SavedUnder(id)) \in Nat
    BY <1>1, <2>2, FS_AddElement
  <2>5. CASE inc[a].id = id
    BY <2>3, <2>4, <2>5
  <2>6. CASE inc[a].id # id
    BY <2>3, <2>4, <2>6
  <2> QED
    BY <2>5, <2>6
<1> QED
  BY <1>1, <1>2, <1>3

\* Each Save that nobody raced adds one to the version that it found.
LEMMA VersionsStep ==
  ASSUME IInv, ClaimsInv, RivalsInv, CommittedInv, VersionsInv, VersionCountsSaves, [Next]_vars
  PROVE  VersionsInv' /\ VersionCountsSaves'
PROOF
<1> DEFINE n(id) == Cardinality(SavedUnder(id))
<1>1. OverlappedKeys \subseteq OverlappedKeys' /\ collided \subseteq collided' /\ TypeOK
  BY OnlyGrows DEF IInv
<1>2. /\ \A r \in rows : r.key \notin OverlappedKeys /\ r.id \notin collided => r.version = n(r.id)
      /\ \A b \in Holders : KeyOf(b) \notin OverlappedKeys /\ inc[b].id \notin collided =>
           inc[b].version = n(inc[b].id) + (IF pc[b] = "alerts" THEN 0 ELSE 1)
  BY DEF VersionCountsSaves, VersionsInv, SavedUnder
<1>3. SUFFICES
        /\ \A r \in rows' : r.key \notin OverlappedKeys' /\ r.id \notin collided' =>
             r.version = n(r.id)'
        /\ \A b \in Holders' : KeyOf(b) \notin OverlappedKeys' /\ inc'[b].id \notin collided' =>
             inc'[b].version = Cardinality({c \in committed' : inc'[c].id = inc'[b].id})
                                 + (IF pc'[b] = "alerts" THEN 0 ELSE 1)
  BY DEF VersionCountsSaves, VersionsInv, SavedUnder
<1>4. CASE Waits
  <2>1. UNCHANGED << rows, inc, committed, pc >> /\ Holders' = Holders
    BY <1>4 DEF Waits, Holders
  <2> QED
    BY <1>1, <1>2, <2>1 DEF SavedUnder
<1>5. ASSUME NEW a \in Alert, Reads(a)
      PROVE  /\ \A r \in rows' : r.key \notin OverlappedKeys' /\ r.id \notin collided' =>
                  r.version = n(r.id)'
             /\ \A b \in Holders' : KeyOf(b) \notin OverlappedKeys' /\ inc'[b].id \notin collided' =>
                  inc'[b].version = Cardinality({c \in committed' : inc'[c].id = inc'[b].id})
                                      + (IF pc'[b] = "alerts" THEN 0 ELSE 1)
  <2>1. /\ UNCHANGED << rows, committed >> /\ pc[a] \notin {"ok", "error"}
        /\ \A b \in Alert : b # a => inc'[b] = inc[b] /\ pc'[b] = pc[b]
    BY <1>5, ReadsOwn
  <2>2. \A id : {c \in committed' : inc'[c].id = id} = SavedUnder(id)
    BY <1>5, SavedGrows DEF SavedUnder
  <2>3. ASSUME NEW b \in Holders', KeyOf(b) \notin OverlappedKeys', inc'[b].id \notin collided'
        PROVE  inc'[b].version = n(inc'[b].id) + (IF pc'[b] = "alerts" THEN 0 ELSE 1)
    <3>1. CASE b # a
      <4>1. b \in Holders
        BY <1>5, <3>1, ReadsSets DEF Holders
      <4> QED
        BY <1>1, <1>2, <2>1, <2>3, <3>1, <4>1 DEF Holders
    <3>2. CASE b = a
      <4>1. CASE a \in Saving'
        <5>1. pc'[a] # "alerts"
          BY <4>1 DEF Saving
        <5>2. CASE a \in Saving /\ inc'[a] = inc[a]
          BY <1>1, <1>2, <2>3, <3>2, <5>1, <5>2 DEF Saving, Holders
        <5>3. CASE /\ pc[a] = "alerts" /\ inc'[a].id = inc[a].id
                   /\ inc'[a].version = inc[a].version + 1
          <6>1. a \in Holders
            BY <5>3 DEF Holders
          <6>2. inc[a].version = n(inc[a].id)
            BY <1>1, <1>2, <2>3, <3>2, <5>3, <6>1, SavedGrows
          <6> QED
            BY <3>2, <5>1, <5>3, <6>2
        <5>4. CASE /\ inc'[a].id = clock /\ inc'[a].version = 1
                   /\ collided' = IF clock \in issued THEN collided \cup {clock} ELSE collided
          <6>1. clock \notin issued
            BY <2>3, <3>2, <5>4
          <6>2. \A c \in committed : inc[c].id # clock
            BY <1>1, <6>1, CommittedClaims
          <6>3. SavedUnder(clock) = {}
            BY <6>2 DEF SavedUnder
          <6>4. n(clock) = 0
            BY <6>3, FS_EmptySet
          <6> QED
            BY <3>2, <5>1, <5>4, <6>4
        <5> QED
          BY <1>5, <4>1, <5>2, <5>3, <5>4, CopiesRead
      <4>2. CASE a \notin Saving'
        <5>1. pc'[a] = "alerts"
          BY <1>5, <2>3, <3>2, <4>2, ReadsSets DEF Saving
        <5>2. FindRow(a)
          <6>1. DOMAIN pc = Alert
            BY DEF IInv, DomainsInv
          <6> QED
            BY <1>5, <5>1, <6>1 DEF Reads, Receive, FindNoRow, FindAlerts, Create, SaveChecks,
                                    SaveLost, Fails
        <5>3. PICK r \in rows : /\ inc' = [inc EXCEPT ![a] = OfRow(r)] /\ r.key = KeyOf(a)
          BY <1>1, <5>2, RowFound
        <5>4. DOMAIN r = RowFields /\ DOMAIN inc = Alert
          BY DEF IInv, RowsInv, DomainsInv
        <5>5. OfRow(r).id = r.id /\ OfRow(r).version = r.version /\ inc'[a] = OfRow(r)
          BY <5>3, <5>4 DEF OfRow, RowFields
        <5>6. inc'[a].version = n(r.id)
          BY <1>1, <1>2, <2>3, <3>2, <5>3, <5>5
        <5>7. n(r.id) \in Nat
          BY SavedGrows
        <5> QED
          BY <3>2, <5>1, <5>5, <5>6, <5>7
      <4> QED
        BY <4>1, <4>2
    <3> QED
      BY <3>1, <3>2
  <2>4. ASSUME NEW r \in rows', r.key \notin OverlappedKeys', r.id \notin collided'
        PROVE  r.version = n(r.id)'
    BY <1>1, <1>2, <1>5, <2>1, <2>4, SavedGrows
  <2> QED
    BY <2>2, <2>3, <2>4
<1>6. ASSUME NEW a \in Alert, Writes(a)
      PROVE  /\ \A r \in rows' : r.key \notin OverlappedKeys' /\ r.id \notin collided' =>
                  r.version = n(r.id)'
             /\ \A b \in Holders' : KeyOf(b) \notin OverlappedKeys' /\ inc'[b].id \notin collided' =>
                  inc'[b].version = Cardinality({c \in committed' : inc'[c].id = inc'[b].id})
                                      + (IF pc'[b] = "alerts" THEN 0 ELSE 1)
  <2>1. /\ UNCHANGED << inc, overlapped, collided >> /\ a \in Holders /\ a \notin Holders'
        /\ \A b \in Alert : b # a => pc'[b] = pc[b] /\ (b \in Holders' <=> b \in Holders)
        /\ \A r \in rows' :
              \/ r.id = inc[a].id /\ r.key = KeyOf(a) /\ r.version = inc[a].version
              \/ r \in rows /\ r.id # inc[a].id
        /\ pc[a] # "alerts"
    BY <1>6, CommitEffects
  <2>2. \A id : n(id)' = n(id) + (IF inc[a].id = id THEN 1 ELSE 0)
    BY <1>6, SavedGrows
  <2>3. \A id : n(id) \in Nat
    BY SavedGrows
  <2> HIDE DEF n
  <2>4. ASSUME NEW r \in rows', r.key \notin OverlappedKeys', r.id \notin collided'
        PROVE  r.version = n(r.id)'
    <3>1. CASE r.id = inc[a].id /\ r.key = KeyOf(a) /\ r.version = inc[a].version
      <4>1. r.version = n(inc[a].id) + 1
        BY <1>1, <1>2, <2>1, <2>4, <3>1
      <4> QED
        BY <2>2, <3>1, <4>1
    <3>2. CASE r \in rows /\ r.id # inc[a].id
      <4>1. r.version = n(r.id)
        BY <1>1, <1>2, <2>4, <3>2
      <4> QED
        BY <2>2, <2>3, <3>2, <4>1
    <3> QED
      BY <2>1, <3>1, <3>2
  <2>5. \A id : Cardinality({c \in committed' : inc'[c].id = id}) = n(id)'
    BY DEF n, SavedUnder
  <2>6. ASSUME NEW b \in Holders', KeyOf(b) \notin OverlappedKeys', inc'[b].id \notin collided'
        PROVE  inc'[b].version = Cardinality({c \in committed' : inc'[c].id = inc'[b].id})
                                   + (IF pc'[b] = "alerts" THEN 0 ELSE 1)
    <3>1. b \in Holders /\ b # a /\ pc'[b] = pc[b]
      BY <2>1 DEF Holders
    <3>2. inc[b].id # inc[a].id
      BY <1>1, <2>1, <2>6, <3>1, NoRivalShares
    <3>3. inc[b].version = n(inc[b].id) + (IF pc[b] = "alerts" THEN 0 ELSE 1)
      BY <1>1, <1>2, <2>1, <2>6, <3>1
    <3>4. Cardinality({c \in committed' : inc'[c].id = inc'[b].id}) = n(inc[b].id)
      BY <2>1, <2>2, <2>3, <2>5, <3>2
    <3> QED
      BY <2>1, <3>1, <3>3, <3>4
  <2> QED
    BY <2>4, <2>6
<1> QED
  BY <1>4, <1>5, <1>6, StepKinds

\* No copy is resolved when it is read, and none becomes so.
LEMMA OpenStep == ASSUME IInv, ClaimsInv, OpenInv, [Next]_vars PROVE OpenInv'
PROOF
<1>1. CASE Waits
  <2>1. UNCHANGED << rows, inc >> /\ Holders' = Holders
    BY <1>1 DEF Waits, Holders
  <2> QED
    BY <2>1 DEF OpenInv
<1>2. ASSUME NEW a \in Alert, Reads(a) PROVE OpenInv'
  <2>1. /\ rows' = rows /\ \A b \in Alert : b # a => inc'[b] = inc[b]
        /\ \A b \in Alert : b # a => (b \in Holders' <=> b \in Holders)
    BY <1>2, ReadsOwn, ReadsSets
  <2>2. ASSUME a \in Holders' PROVE inc'[a].state # "resolved"
    <3>1. CASE a \in Saving'
      <4>1. Saving \subseteq Holders /\ (pc[a] = "alerts" => a \in Holders)
        BY DEF Saving, Holders
      <4> QED
        BY <1>2, <3>1, <4>1, CopiesRead DEF OpenInv
    <3>2. CASE a \notin Saving'
      <4>1. FindRow(a)
        <5>1. pc'[a] = "alerts"
          BY <1>2, <2>2, <3>2, ReadsSets DEF Saving
        <5>2. DOMAIN pc = Alert
          BY DEF IInv, DomainsInv
        <5> QED
          BY <1>2, <5>1, <5>2 DEF Reads, Receive, FindNoRow, FindAlerts, Create, SaveChecks,
                                  SaveLost, Fails
      <4>2. PICK r \in rows : inc' = [inc EXCEPT ![a] = OfRow(r)]
        BY <4>1, RowFound DEF IInv
      <4>3. DOMAIN r = RowFields /\ DOMAIN inc = Alert
        BY DEF IInv, RowsInv, DomainsInv
      <4>4. OfRow(r).state = r.state /\ inc'[a] = OfRow(r)
        BY <4>2, <4>3 DEF OfRow, RowFields
      <4> QED
        BY <4>4 DEF OpenInv
    <3> QED
      BY <3>1, <3>2
  <2>3. ASSUME NEW b \in Holders', b # a PROVE inc'[b].state # "resolved"
    <3>1. b \in Alert
      BY DEF Holders
    <3> QED
      BY <2>1, <2>3, <3>1 DEF OpenInv
  <2> QED
    BY <2>1, <2>2, <2>3 DEF OpenInv
<1>3. ASSUME NEW a \in Alert, Writes(a) PROVE OpenInv'
  <2>1. /\ inc' = inc /\ a \in Holders /\ a \notin Holders'
        /\ \A b \in Alert : b # a => (b \in Holders' <=> b \in Holders)
        /\ \A r \in rows' : r.state = inc[a].state \/ r \in rows
    BY <1>3, CommitEffects
  <2>2. Holders' \subseteq Holders
    BY <2>1 DEF Holders
  <2> QED
    BY <2>1, <2>2 DEF OpenInv
<1> QED
  BY <1>1, <1>2, <1>3, StepKinds

\* The times of a row and the window, as numbers.
LEMMA RowTimes ==
  ASSUME TypeOK, RowsInv, NEW r \in rows
  PROVE  r.lastAlertAt \in Nat /\ Window \in Nat /\ r.lastAlertAt + Window \in Nat
PROOF
<1>1. r.lastAlertAt \in Time
  BY IncidentHasColumns DEF TypeOK, RowsInv
<1> QED
  BY <1>1, IncidentsAssumption DEF Time, IncidentsAssumption

\* A call that finds a row finds the live one, and one that finds none has none.
LEMMA LiveStep ==
  ASSUME IInv, ClaimsInv, RivalsInv, OpenInv, LiveInv, OneLiveRowPerKey, [Next]_vars
  PROVE  LiveInv' /\ OneLiveRowPerKey'
PROOF
<1>1. /\ OverlappedKeys \subseteq OverlappedKeys' /\ TypeOK
      /\ clock' \in Nat /\ clock \in Nat /\ clock <= clock'
  BY OnlyGrows DEF IInv
<1>2. \A r \in rows : r.lastAlertAt + Window \in Nat
  BY <1>1, RowTimes DEF IInv
<1>3. CASE Waits
  <2>1. UNCHANGED << rows, inc, pc, overlapped >> /\ Holders' = Holders
    BY <1>3 DEF Waits, Holders
  <2>2. LiveInv'
    BY <1>1, <1>2, <2>1 DEF LiveInv, OverlappedKeys
  <2> QED
    BY <1>1, <1>2, <2>1, <2>2 DEF OneLiveRowPerKey, OverlappedKeys
<1>4. ASSUME NEW a \in Alert, Reads(a) PROVE LiveInv' /\ OneLiveRowPerKey'
  <2>1. /\ UNCHANGED << rows, clock >>
        /\ \A b \in Alert : b # a => inc'[b] = inc[b] /\ pc'[b] = pc[b]
        /\ \A b \in Alert : b # a => (b \in Holders' <=> b \in Holders)
    BY <1>4, ReadsOwn, ReadsSets
  <2>2. OneLiveRowPerKey'
    BY <1>1, <2>1 DEF OneLiveRowPerKey
  <2>3. ASSUME NEW r \in rows, r.key = KeyOf(a), KeyOf(a) \notin OverlappedKeys,
               pc'[a] = "create" \/ (a \in Holders' /\ r.id # inc'[a].id)
        PROVE  r.lastAlertAt + Window <= clock
    <3>1. now[a] \in Nat
      BY <1>1, IncidentsAssumption DEF TypeOK, Time, IncidentsAssumption
    <3>2. DOMAIN pc = Alert /\ DOMAIN inc = Alert
      BY DEF IInv, DomainsInv
    <3>3. CASE FindRow(a)
      <4>1. PICK t \in now[a] .. clock : \E q \in FindOpen(a, t) :
              /\ \A p \in FindOpen(a, t) : p.lastAlertAt <= q.lastAlertAt
              /\ inc' = [inc EXCEPT ![a] = OfRow(q)]
        BY <3>3 DEF FindRow
      <4>2. PICK q \in FindOpen(a, t) :
              /\ \A p \in FindOpen(a, t) : p.lastAlertAt <= q.lastAlertAt
              /\ inc' = [inc EXCEPT ![a] = OfRow(q)]
        BY <4>1
      <4>3. q \in rows /\ q.key = KeyOf(a)
        BY DEF FindOpen
      <4>4. DOMAIN q = RowFields
        BY <4>3 DEF IInv, RowsInv
      <4>5. inc'[a].id = q.id
        BY <3>2, <4>2, <4>4 DEF OfRow, RowFields
      <4>6. pc'[a] = "alerts"
        BY <3>2, <3>3 DEF FindRow
      <4>7. r # q
        BY <2>3, <4>5, <4>6
      <4>8. ASSUME r.lastAlertAt + Window > clock PROVE FALSE
        <5>1. r \in FindOpen(a, t)
          BY <1>1, <1>2, <2>3, <3>1, <4>1, <4>8 DEF FindOpen, OpenInv
        <5>2. r.lastAlertAt <= q.lastAlertAt
          BY <4>2, <5>1
        <5>3. q.lastAlertAt + Window > clock
          BY <1>1, <4>3, <4>8, <5>2, RowTimes DEF IInv
        <5> QED
          BY <2>3, <4>3, <4>7, <4>8, <5>3 DEF OneLiveRowPerKey
      <4> QED
        BY <1>1, <1>2, <4>8
    <3>4. CASE FindNoRow(a)
      <4>1. PICK t \in now[a] .. clock : FindOpen(a, t) = {}
        BY <3>4 DEF FindNoRow
      <4>2. ~(r.lastAlertAt + Window > t)
        BY <2>3, <4>1 DEF FindOpen, OpenInv
      <4> QED
        BY <1>1, <1>2, <3>1, <4>1, <4>2
    <3>5. CASE pc[a] = "create"
      BY <2>3, <3>5 DEF LiveInv
    <3>6. CASE a \in Holders /\ inc'[a].id = inc[a].id
      <4>1. pc'[a] # "create"
        BY <1>4, <3>2, <3>6 DEF Reads, Receive, FindRow, FindNoRow, FindAlerts, Create,
                                SaveChecks, SaveLost, Fails, Holders
      <4> QED
        BY <2>3, <3>6, <4>1 DEF LiveInv
    <3>7. CASE Receive(a) \/ pc'[a] = "error"
      BY <2>3, <3>2, <3>7 DEF Receive, Holders
    <3>8. CASE FindAlerts(a)
      <4>1. a \in Holders /\ inc'[a].id = inc[a].id
        BY <3>8, AlertsFound DEF FindAlerts, Holders
      <4> QED
        BY <3>6, <4>1
    <3>9. CASE pc[a] \in {"begin", "write"} /\ UNCHANGED inc
      BY <3>6, <3>9 DEF Holders
    <3>10. CASE Create(a)
      BY <3>5, <3>10 DEF Create
    <3> QED
      BY <1>4, <3>3, <3>4, <3>7, <3>8, <3>9, <3>10, ReadsOwn
  <2>4. ASSUME NEW b \in Alert, NEW r \in rows',
               r.key = KeyOf(b), KeyOf(b) \notin OverlappedKeys',
               pc'[b] = "create" \/ (b \in Holders' /\ r.id # inc'[b].id)
        PROVE  r.lastAlertAt + Window <= clock'
    <3>1. CASE b = a
      BY <1>1, <2>1, <2>3, <2>4, <3>1
    <3>2. CASE b # a
      BY <1>1, <2>1, <2>4, <3>2 DEF LiveInv
    <3> QED
      BY <3>1, <3>2
  <2> QED
    BY <2>2, <2>4 DEF LiveInv
<1>5. ASSUME NEW a \in Alert, Writes(a) PROVE LiveInv' /\ OneLiveRowPerKey'
  <2>1. /\ UNCHANGED << clock, inc, overlapped >> /\ a \in Holders /\ a \in InFlight
        /\ a \notin Holders' /\ pc'[a] \in {"ok", "error"}
        /\ \A b \in Alert : b # a => pc'[b] = pc[b]
        /\ \A b \in Alert : b # a => (b \in Holders' <=> b \in Holders)
        /\ \A r \in rows' : \/ r.id = inc[a].id /\ r.key = KeyOf(a)
                            \/ r \in rows /\ r.id # inc[a].id
        /\ \A r, q \in rows' : r.id = q.id => r = q
    BY <1>5, CommitEffects
  <2>2. \A r \in rows : r.key = KeyOf(a) /\ KeyOf(a) \notin OverlappedKeys /\ r.id # inc[a].id =>
          r.lastAlertAt + Window <= clock
    BY <2>1 DEF LiveInv, Holders
  <2>3. OneLiveRowPerKey'
    <3> SUFFICES ASSUME NEW r \in rows', NEW q \in rows', r.key = q.key,
                        r.key \notin OverlappedKeys',
                        r.lastAlertAt + Window > clock', q.lastAlertAt + Window > clock'
                 PROVE  r = q
      BY DEF OneLiveRowPerKey
    <3>1. CASE r \in rows /\ q \in rows
      BY <1>1, <2>1, <3>1 DEF OneLiveRowPerKey
    <3>2. CASE r.id = inc[a].id /\ r.key = KeyOf(a) /\ q \in rows /\ q.id # inc[a].id
      <4>1. q.key = KeyOf(a) /\ KeyOf(a) \notin OverlappedKeys
        BY <1>1, <3>2
      <4>2. q.lastAlertAt + Window <= clock
        BY <2>2, <3>2, <4>1
      <4> QED
        BY <1>1, <1>2, <2>1, <3>2, <4>2
    <3>3. CASE q.id = inc[a].id /\ q.key = KeyOf(a) /\ r \in rows /\ r.id # inc[a].id
      <4>1. r.key = KeyOf(a) /\ KeyOf(a) \notin OverlappedKeys
        BY <1>1, <3>3
      <4>2. r.lastAlertAt + Window <= clock
        BY <2>2, <3>3, <4>1
      <4> QED
        BY <1>1, <1>2, <2>1, <3>3, <4>2
    <3>4. CASE r.id = inc[a].id /\ q.id = inc[a].id
      BY <2>1, <3>4
    <3> QED
      BY <2>1, <3>1, <3>2, <3>3, <3>4
  <2>4. ASSUME NEW b \in Alert, NEW r \in rows',
               r.key = KeyOf(b), KeyOf(b) \notin OverlappedKeys',
               pc'[b] = "create" \/ (b \in Holders' /\ r.id # inc'[b].id)
        PROVE  r.lastAlertAt + Window <= clock'
    <3>1. b # a /\ (pc[b] = "create" \/ (b \in Holders /\ r.id # inc[b].id))
      BY <2>1, <2>4
    <3>2. CASE r \in rows
      BY <1>1, <2>1, <2>4, <3>1, <3>2 DEF LiveInv
    <3>3. CASE r.key = KeyOf(a)
      <4>1. b \in InFlight
        BY <3>1 DEF InFlight, Holders
      <4> QED
        BY <1>1, <2>1, <2>4, <3>1, <3>3, <4>1 DEF RivalsInv
    <3> QED
      BY <2>1, <3>2, <3>3
  <2> QED
    BY <2>3, <2>4 DEF LiveInv
<1> QED
  BY <1>3, <1>4, <1>5, StepKinds

\* All of it together.
LEMMA QStep == IInv /\ ClaimsInv /\ QInv /\ [Next]_vars => QInv'
PROOF
<1> SUFFICES ASSUME IInv, ClaimsInv, QInv, [Next]_vars PROVE QInv'
  OBVIOUS
<1>1. /\ RivalsInv /\ CommittedInv /\ TimesInv /\ CopiesInv /\ VersionsInv /\ OpenInv
      /\ LiveInv /\ StoredAlertsAreNewest /\ VersionCountsSaves /\ OneLiveRowPerKey
  BY DEF QInv
<1>2. RivalsInv' /\ CommittedInv' /\ TimesInv' /\ CopiesInv'
  BY <1>1, RivalsStep, CommittedStep, TimesStep, CopiesStep
<1>3. VersionsInv' /\ VersionCountsSaves' /\ StoredAlertsAreNewest'
  BY <1>1, VersionsStep, NewestStep
<1>4. OpenInv' /\ LiveInv' /\ OneLiveRowPerKey'
  BY <1>1, OpenStep, LiveStep
<1> QED
  BY <1>2, <1>3, <1>4 DEF QInv

\* With empty tables and nobody calling, all of it holds.
LEMMA QInit == Init => ClaimsInv /\ QInv
PROOF
<1> SUFFICES ASSUME Init PROVE ClaimsInv /\ QInv
  OBVIOUS
<1>1. \A a \in Alert : pc[a] = "pending" /\ now[a] = 0
  BY DEF Init
<1>2. /\ clock = 0 /\ rows = {} /\ alerts = {} /\ committed = {}
      /\ Holders = {} /\ Saving = {} /\ InFlight = {}
  BY <1>1 DEF Init, Holders, Saving, InFlight
<1>3. ClaimsInv
  BY <1>2 DEF ClaimsInv, Claims, Consistent
<1>4. RivalsInv /\ TimesInv /\ CopiesInv /\ VersionsInv /\ OpenInv /\ LiveInv
  BY <1>1, <1>2 DEF RivalsInv, TimesInv, CopiesInv, VersionsInv, OpenInv, LiveInv
<1>5. CommittedInv
  BY <1>2, FS_EmptySet DEF CommittedInv
<1>6. StoredAlertsAreNewest /\ VersionCountsSaves /\ OneLiveRowPerKey
  BY <1>2 DEF StoredAlertsAreNewest, VersionCountsSaves, OneLiveRowPerKey
<1> QED
  BY <1>3, <1>4, <1>5, <1>6 DEF QInv

\* What is stored of an alert is what its last delivery said: a copy read before
\* another commit overwrites nothing, unless calls for the key overlapped or the id
\* was drawn twice.
THEOREM NewestStored == Spec => []StoredAlertsAreNewest
PROOF
<1>1. QInv => StoredAlertsAreNewest
  BY DEF QInv
<1> QED
  BY <1>1, InitInv, NextStep, ClaimsStep, QInit, QStep, PTL DEF Spec

\* The version counts the calls that saved the incident, those answered with an
\* error included, under the same conditions: no update is lost.
THEOREM VersionsCounted == Spec => []VersionCountsSaves
PROOF
<1>1. QInv => VersionCountsSaves
  BY DEF QInv
<1> QED
  BY <1>1, InitInv, NextStep, ClaimsStep, QInit, QStep, PTL DEF Spec

\* A key whose calls never overlapped has one live row at most, for any window and
\* however late a commit came.
THEOREM OneLiveRow == Spec => []OneLiveRowPerKey
PROOF
<1>1. QInv => OneLiveRowPerKey
  BY DEF QInv
<1> QED
  BY <1>1, InitInv, NextStep, ClaimsStep, QInit, QStep, PTL DEF Spec
=============================================================================
