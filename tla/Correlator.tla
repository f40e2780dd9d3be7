----------------------------- MODULE Correlator -----------------------------
(***************************************************************************)
(* internal/correlation: ProcessAlert, run by the goroutines of concurrent *)
(* webhook requests against one IncidentStore.                             *)
(*                                                                         *)
(* A call reads the clock, then the store (FindOpenByCorrelationKey), and  *)
(* then writes back the whole incident (Save).  Each store operation is    *)
(* atomic, but nothing holds the store from the read to the write.  Every  *)
(* store operation may fail, as the interface allows.                      *)
(*                                                                         *)
(* overlapped, issued and collided are history variables: no action reads  *)
(* them to decide anything.  The properties use them to say under which    *)
(* circumstances a promise holds.                                          *)
(***************************************************************************)
EXTENDS Incidents, FiniteSets

CONSTANTS MaxInFlight,   \* how many calls run at once
          NoIncident     \* Go's nil *domain.Incident

ASSUME CorrelatorAssumption ==
  /\ MaxInFlight \in Nat
  /\ NoIncident \notin Incident

VARIABLES clock,       \* time.Now(), in microseconds
          incidents,   \* the contents of the store
          pc,          \* where the call for each delivery is
          now,         \* its local now
          inc,         \* its local inc, kept as a record when it succeeds
          overlapped,  \* deliveries whose call ran beside another of their key
          issued,      \* the ids NewIncidentID returned so far
          collided     \* those it returned more than once

history == << overlapped, issued, collided >>
vars == << clock, incidents, pc, now, inc, overlapped, issued, collided >>

InFlight == {a \in Alert : pc[a] \in {"find", "create", "save"}}

\* The calls in flight for the key of a.
Rivals(a) == {b \in InFlight : KeyOf(b) = KeyOf(a)}

Init ==
  /\ clock = 0
  /\ incidents = {}
  /\ pc = [a \in Alert |-> "pending"]
  /\ now = [a \in Alert |-> 0]
  /\ inc = [a \in Alert |-> NoIncident]
  /\ overlapped = {}
  /\ issued = {}
  /\ collided = {}

\* The call returns an error and its locals are gone.
Fail(a) ==
  /\ pc' = [pc EXCEPT ![a] = "error"]
  /\ now' = [now EXCEPT ![a] = 0]
  /\ inc' = [inc EXCEPT ![a] = NoIncident]
  /\ UNCHANGED << clock, incidents, history >>

\* ProcessAlert(a) is called and reads the clock.
Receive(a) ==
  /\ pc[a] = "pending"
  /\ Cardinality(InFlight) < MaxInFlight
  /\ pc' = [pc EXCEPT ![a] = "find"]
  /\ now' = [now EXCEPT ![a] = clock]
  /\ overlapped' = IF Rivals(a) = {} THEN overlapped
                   ELSE overlapped \cup Rivals(a) \cup {a}
  /\ UNCHANGED << clock, incidents, inc, issued, collided >>

\* FindOpenByCorrelationKey returns an incident and the alert joins the copy.
FindExisting(a) ==
  /\ pc[a] = "find"
  /\ \E c \in FindOpenByCorrelationKey(incidents, KeyOf(a), clock) :
       inc' = [inc EXCEPT ![a] = Joined(c, a, now[a])]
  /\ pc' = [pc EXCEPT ![a] = "save"]
  /\ UNCHANGED << clock, incidents, now, history >>

\* Mutant: an incident is created whether or not one was found.
FindNothingUnchecked(a) ==
  /\ pc[a] = "find"
  /\ pc' = [pc EXCEPT ![a] = "create"]
  /\ UNCHANGED << clock, incidents, now, inc, history >>

\* FindOpenByCorrelationKey returns nil.
FindNothing(a) ==
  /\ pc[a] = "find"
  /\ Candidates(incidents, KeyOf(a), clock) = {}
  /\ pc' = [pc EXCEPT ![a] = "create"]
  /\ UNCHANGED << clock, incidents, now, inc, history >>

\* FindOpenByCorrelationKey returns an error, and so does the call.
FindFails(a) ==
  /\ pc[a] = "find"
  /\ Fail(a)

\* The id is drawn from the clock as it is now, the times from the earlier one.
Create(a) ==
  /\ pc[a] = "create"
  /\ inc' = [inc EXCEPT ![a] = NewIncident(a, clock, now[a])]
  /\ pc' = [pc EXCEPT ![a] = "save"]
  /\ issued' = issued \cup {clock}
  /\ collided' = IF clock \in issued THEN collided \cup {clock} ELSE collided
  /\ UNCHANGED << clock, incidents, now, overlapped >>

SaveSucceeds(a) ==
  /\ pc[a] = "save"
  /\ incidents' = Save(incidents, inc[a])
  /\ pc' = [pc EXCEPT ![a] = "ok"]
  /\ UNCHANGED << clock, now, inc, history >>

SaveFails(a) ==
  /\ pc[a] = "save"
  /\ Fail(a)

Tick ==
  /\ clock < MaxTime
  /\ clock' = clock + 1
  /\ UNCHANGED << incidents, pc, now, inc, history >>

Find(a) == FindExisting(a) \/ FindNothing(a) \/ FindFails(a)
ProcessAlert(a) == Receive(a) \/ Find(a) \/ Create(a) \/ SaveSucceeds(a) \/ SaveFails(a)

Next == Tick \/ \E a \in Alert : ProcessAlert(a)

Spec == Init /\ [][Next]_vars

-----------------------------------------------------------------------------
\* Every variable has its type, and a call that writes, or wrote, has an
\* incident to write: ProcessAlert never hands Save a nil pointer.
TypeOK ==
  /\ clock \in Time
  /\ incidents \subseteq Incident
  /\ pc \in [Alert -> {"pending", "find", "create", "save", "ok", "error"}]
  /\ now \in [Alert -> Time]
  /\ inc \in [Alert -> Incident \cup {NoIncident}]
  /\ \A a \in Alert : pc[a] \in {"save", "ok"} => inc[a] \in Incident
  /\ overlapped \subseteq Alert
  /\ issued \subseteq Time
  /\ collided \subseteq issued

\* The calls that wrote their incident and were told so.
Acknowledged == {a \in Alert : pc[a] = "ok"}

OverlappedKeys == {KeyOf(a) : a \in overlapped}

\* An alert is in one incident at most, whatever the interleaving, the errors
\* and the ids: ProcessAlert puts it in the copy it writes and no other call
\* carries it under another id.
OneIncidentPerAlert ==
  \A i, j \in incidents :
    Range(i.alerts) \cap Range(j.alerts) # {} => i = j

\* Labels whose values hold no "/".
Plain(l) ==
  Len(l.cluster) = 1 /\ Len(l.namespace) = 1 /\ Len(primaryServiceFromLabels(l)) = 1

\* The alerts of an incident are about one service of one namespace of one
\* cluster, as long as no label holds the separator of the correlation key.
IncidentsDoNotMixServices ==
  \A i \in incidents : \A a, b \in Range(i.alerts) :
    (Plain(LabelsOf[a]) /\ Plain(LabelsOf[b])) =>
      /\ LabelsOf[a].cluster = LabelsOf[b].cluster
      /\ LabelsOf[a].namespace = LabelsOf[b].namespace
      /\ ServiceOf(a) = ServiceOf(b)

\* An alert whose call returned nil stays in the incident the call wrote, for
\* as long as the program runs and whatever other calls do to that incident,
\* provided no call for the same key ran beside it and NewIncidentID drew the
\* incident's id once.
AcknowledgedAlertsAreKept ==
  \A a \in Acknowledged \ overlapped :
    inc[a].id \notin collided =>
      \E i \in incidents : i.id = inc[a].id /\ a \in Range(i.alerts)

\* Incidents of a key whose calls never overlapped are a window apart: the
\* later one was only created once the window after the last alert of the
\* earlier one had passed, and no later alert went back to the earlier one.
IncidentsAreAWindowApart ==
  \A i, j \in incidents :
    (i.key = j.key /\ i.key \notin OverlappedKeys /\ i.id < j.id)
      => i.lastAlertAt + Window < j.id

\* At any instant at most one stored incident of a key would be found by its
\* next alert, unless calls for the key overlapped.
OneLiveIncidentPerKey ==
  \A k \in Key \ OverlappedKeys :
    \A i, j \in Candidates(incidents, k, clock) : i = j

\* LastAlertAt is the time of the most recent of the incident's alerts, by the
\* clock of their calls, unless calls for the key overlapped.
LastAlertAtIsNewest ==
  \A i \in incidents :
    i.key \notin OverlappedKeys =>
      \A a \in Range(i.alerts) : now[a] <= i.lastAlertAt
-----------------------------------------------------------------------------
(* What the documentation says without a condition. *)

\* README.md:16 promises "Automatic incident creation and deduplication": a key
\* has one incident that is open and in its window.
IncidentsAreDeduplicated ==
  \A k \in Key : \A i, j \in Candidates(incidents, k, clock) : i = j

\* DATABASE.md:93 calls last_alert_at the "Timestamp of most recent alert".
LastAlertAtIsMostRecent ==
  \A i \in incidents : \A a \in Range(i.alerts) : now[a] <= i.lastAlertAt
=============================================================================
