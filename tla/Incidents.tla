------------------------------ MODULE Incidents ------------------------------
(***************************************************************************)
(* Incidents and the contract of store.IncidentStore (internal/store),     *)
(* with the incidents held by value: what a caller reads is a copy nobody  *)
(* else can change.  MemoryStore shows how far the in-memory store keeps   *)
(* that contract.                                                          *)
(*                                                                         *)
(* An element of Alert is one delivery of an alert by a webhook, that is   *)
(* one call of ProcessAlert.  Time is counted in microseconds, the         *)
(* resolution of simpleIDSource, from 0 to the bound MaxTime; Window is    *)
(* the ExpansionWindow of the configuration in the same unit.              *)
(***************************************************************************)
EXTENDS AlertLabels, Functions

CONSTANTS Alert,      \* deliveries of alerts
          LabelsOf,   \* the labels of each
          Window,     \* ExpansionWindow
          MaxTime     \* bound on the clock

ASSUME IncidentsAssumption ==
  /\ LabelsOf \in [Alert -> Labels]
  /\ Window \in Nat
  /\ MaxTime \in Nat

Time == 0 .. MaxTime

KeyOf(a) == buildCorrelationKey(LabelsOf[a])
ServiceOf(a) == primaryServiceFromLabels(LabelsOf[a])
SeverityOf(a) == severityFromLabels(LabelsOf[a])

Key == {KeyOf(a) : a \in Alert}

IncidentState == {"open", "investigating", "mitigating", "monitoring", "resolved"}

\* simpleIDSource formats the clock down to the microsecond, so an id is a time.
Incident ==
  [id : Time, service : {ServiceOf(a) : a \in Alert}, key : Key,
   severity : Nat, alerts : Seq(Alert), version : Nat,
   state : IncidentState, createdAt : Time, lastAlertAt : Time]

-----------------------------------------------------------------------------
(* The store: a set of incidents, no two with the same id. *)

\* Save replaces whatever is stored under the id.
Save(store, inc) == {i \in store : i.id # inc.id} \cup {inc}

\* Mutant: the window excludes its last instant.
CandidatesStrict(store, key, t) ==
  {i \in store : /\ i.key = key
                 /\ i.state # "resolved"
                 /\ t < i.lastAlertAt + Window}

\* The incidents FindOpenByCorrelationKey considers when the store's clock
\* reads t: this key, not resolved, last alert at most a window ago.
Candidates(store, key, t) ==
  {i \in store : /\ i.key = key
                 /\ i.state # "resolved"
                 /\ t <= i.lastAlertAt + Window}

\* What it may return: a candidate with the latest LastAlertAt.  Go iterates
\* over a map in no fixed order, so among equals any one may be returned.
FindOpenByCorrelationKey(store, key, t) ==
  {i \in Candidates(store, key, t) :
     \A j \in Candidates(store, key, t) : j.lastAlertAt <= i.lastAlertAt}

-----------------------------------------------------------------------------
(* What ProcessAlert builds. *)

\* Mutant: a new incident starts in a state domain.IncidentState does not have.
NewIncidentBadState(a, id, t) ==
  [id |-> id, service |-> ServiceOf(a), key |-> KeyOf(a),
   severity |-> SeverityOf(a), alerts |-> << a >>, version |-> 1,
   state |-> "", createdAt |-> t, lastAlertAt |-> t]

\* The incident for an alert that belongs to none.
NewIncident(a, id, t) ==
  [id |-> id, service |-> ServiceOf(a), key |-> KeyOf(a),
   severity |-> SeverityOf(a), alerts |-> << a >>, version |-> 1,
   state |-> "open", createdAt |-> t, lastAlertAt |-> t]

\* Mutants: the alert replaces the others; the incident is written under a new
\* id; LastAlertAt is not refreshed.
JoinedReplacing(inc, a, t) ==
  [inc EXCEPT !.alerts = << a >>, !.lastAlertAt = t, !.version = @ + 1]

JoinedAsNew(inc, a, t) ==
  [inc EXCEPT !.id = t, !.alerts = Append(@, a), !.lastAlertAt = t,
              !.version = @ + 1]

JoinedNotRefreshed(inc, a, t) ==
  [inc EXCEPT !.alerts = Append(@, a), !.version = @ + 1]

\* The incident inc after alert a joined it at time t.
Joined(inc, a, t) ==
  [inc EXCEPT !.alerts = Append(@, a),
              !.lastAlertAt = t,
              !.severity = IF SeverityOf(a) > @ THEN SeverityOf(a) ELSE @,
              !.version = @ + 1]
=============================================================================
