--------------------------- MODULE IncidentsProofs ---------------------------
(***************************************************************************)
(* Lemmas about the incidents that ProcessAlert builds, for the proofs     *)
(* about the stores; and one about numbers, which CHOOSE needs where a     *)
(* definition speaks of the last place in a sequence.                      *)
(***************************************************************************)
EXTENDS Incidents, SequenceTheorems, WellFoundedInduction, NaturalsInduction, TLAPS

\* A severity is a number, or unknown's if the label is missing.
LEMMA SeverityIsNat ==
  ASSUME NEW a \in Alert
  PROVE  SeverityOf(a) \in Nat
  <1>1. LabelsOf[a].severity \in Nat
    BY IncidentsAssumption DEF Labels
  <1>. QED  BY <1>1, LabelAssumption DEF SeverityOf, severityFromLabels

\* A new incident is one.
LEMMA NewIncidentType ==
  ASSUME NEW a \in Alert, NEW id \in Time, NEW t \in Time
  PROVE  NewIncident(a, id, t) \in Incident
  <1>1. SeverityOf(a) \in Nat
    BY SeverityIsNat
  <1>. QED  BY <1>1 DEF NewIncident, Incident, IncidentState, Key

\* An incident an alert joined is one, with its id, key and state.
LEMMA JoinedType ==
  ASSUME NEW c \in Incident, NEW a \in Alert, NEW t \in Time
  PROVE  /\ Joined(c, a, t) \in Incident
         /\ Joined(c, a, t).id = c.id
         /\ Joined(c, a, t).key = c.key
         /\ Joined(c, a, t).state = c.state
         /\ Joined(c, a, t).lastAlertAt = t
  <1>1. SeverityOf(a) \in Nat
    BY SeverityIsNat
  <1>2. /\ c.alerts \in Seq(Alert)
        /\ c.severity \in Nat
        /\ c.version \in Nat
    BY DEF Incident
  <1>3. Append(c.alerts, a) \in Seq(Alert)
    BY <1>2
  <1>4. (IF SeverityOf(a) > c.severity THEN SeverityOf(a) ELSE c.severity) \in Nat
    BY <1>1, <1>2
  <1>5. c.version + 1 \in Nat
    BY <1>2
  <1>. HIDE DEF SeverityOf
  <1>. QED  BY <1>3, <1>4, <1>5 DEF Joined, Incident

\* The alerts of an incident after one joined it.
LEMMA JoinedAlerts ==
  ASSUME NEW c \in Incident, NEW a \in Alert, NEW t \in Time
  PROVE  Range(Joined(c, a, t).alerts) = Range(c.alerts) \cup {a}
  <1>1. c.alerts \in Seq(Alert)
    BY DEF Incident
  <1>2. Joined(c, a, t).alerts = Append(c.alerts, a)
    BY DEF Joined, Incident
  <1>3. Range(Append(c.alerts, a)) = Range(c.alerts) \cup {a}
    <2>1. /\ DOMAIN Append(c.alerts, a) = 1 .. Len(c.alerts) + 1
          /\ DOMAIN c.alerts = 1 .. Len(c.alerts)
          /\ Len(c.alerts) \in Nat
      BY <1>1
    <2>2. \A n \in 1 .. Len(c.alerts) + 1 :
            Append(c.alerts, a)[n] = IF n <= Len(c.alerts) THEN c.alerts[n] ELSE a
      BY <1>1
    <2>. QED  BY <2>1, <2>2 DEF Range
  <1>. QED  BY <1>2, <1>3

\* The alerts of a new one.
LEMMA NewIncidentAlerts ==
  ASSUME NEW a \in Alert, NEW id, NEW t
  PROVE  Range(NewIncident(a, id, t).alerts) = {a}
  BY DEF NewIncident, Range

\* A set of numbers up to k has a largest.
LEMMA Largest ==
  ASSUME NEW k \in Nat, NEW S \in SUBSET (1 .. k), S # {}
  PROVE  \E x \in S : \A y \in S : y <= x
PROOF
<1> DEFINE T == {k - i : i \in S}
<1>1. T \subseteq Nat /\ T # {}
  <2>1. \A i \in S : k - i \in Nat
    OBVIOUS
  <2>2. PICK i \in S : TRUE
    OBVIOUS
  <2> QED
    BY <2>1, <2>2
<1>2. PICK m \in T : \A y \in T : << y, m >> \notin OpToRel(<, Nat)
  BY <1>1, WFMin, NatLessThanWellFounded, Zenon
<1>3. \A y \in T : ~(y < m)
  BY <1>1, <1>2 DEF OpToRel
<1>4. PICK x \in S : m = k - x
  OBVIOUS
<1>5. \A y \in S : k - y \in T
  OBVIOUS
<1> HIDE DEF T
<1> QED
  BY <1>3, <1>4, <1>5
=============================================================================
