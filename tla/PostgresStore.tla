---------------------------- MODULE PostgresStore ----------------------------
(***************************************************************************)
(* store.PostgresIncidentStore under ProcessAlert: the statements of its   *)
(* operations as steps, run by concurrent calls on one database.           *)
(*                                                                         *)
(* An incident is a row, its alerts are rows of another table, one for     *)
(* each fingerprint.  Find reads the row and then the alerts, outside a    *)
(* transaction.  Save is a transaction (read committed): it looks for the  *)
(* row, then inserts or updates it, upserts the alerts and commits.  The   *)
(* write locks the row until the commit and depends on nothing it reads,   *)
(* so writing and committing are one step here.                            *)
(*                                                                         *)
(* Any statement may fail, which rolls back.  When the connection is lost  *)
(* during the commit, the call returns an error while the database may     *)
(* still commit, now or later.                                             *)
(***************************************************************************)
EXTENDS Incidents, SequencesExt

CONSTANTS Fingerprint, FingerprintOf,   \* of each delivery
          MaxInFlight, NoIncident

\* Alertmanager's fingerprint is a hash of the labels.
ASSUME FingerprintAssumption ==
  /\ FingerprintOf \in [Alert -> Fingerprint]
  /\ \A a, b \in Alert : FingerprintOf[a] = FingerprintOf[b] => LabelsOf[a] = LabelsOf[b]

VARIABLES clock, pc, now, inc, overlapped, issued, collided,   \* as in Correlator
          rows,        \* the table incidents
          alerts,      \* the table alerts
          isNew,       \* whether the transaction of the call found no row
          committed    \* history: the deliveries whose Save was committed

history == << overlapped, issued, collided >>
database == << rows, alerts, committed >>
vars == << clock, pc, now, inc, history, database, isNew >>

\* A row of incidents is an incident without its alerts.
RowOf(i) == [f \in DOMAIN i \ {"alerts"} |-> i[f]]

\* The incident of a row, its alerts not read yet.
OfRow(r) == [f \in DOMAIN r \cup {"alerts"} |-> IF f = "alerts" THEN << >> ELSE r[f]]

AlertRow == [incident : Time, fingerprint : Fingerprint, alert : Alert]

\* Calls that may still change the database.
InFlight == {a \in Alert : pc[a] \notin {"pending", "ok", "error"}}
Rivals(a) == {b \in InFlight : KeyOf(b) = KeyOf(a)}

Init ==
  /\ clock = 0
  /\ pc = [a \in Alert |-> "pending"]
  /\ now = [a \in Alert |-> 0]
  /\ inc = [a \in Alert |-> NoIncident]
  /\ overlapped = {} /\ issued = {} /\ collided = {}
  /\ rows = {} /\ alerts = {} /\ committed = {}
  /\ isNew = [a \in Alert |-> FALSE]

-----------------------------------------------------------------------------
(* The statements. *)

\* Mutants: the key is not compared; the window is left out of the cutoff.
FindOpenAnyKey(a, t) ==
  {r \in rows : r.state # "resolved" /\ r.lastAlertAt + Window > t}

FindOpenNoWindow(a, t) ==
  {r \in rows : /\ r.key = KeyOf(a)
                /\ r.state # "resolved"
                /\ r.lastAlertAt > t}

\* The rows that match FindOpenByCorrelationKey with a cutoff a window before t.
FindOpen(a, t) ==
  {r \in rows : /\ r.key = KeyOf(a)
                /\ r.state # "resolved"
                /\ r.lastAlertAt + Window > t}

\* GetAlertsByIncidentID.  They come ordered by starts_at; no step depends on
\* the order, any will do.
GetAlerts(id) == SetToSeq({r.alert : r \in {x \in alerts : x.incident = id}})

Fingerprints(i) == {FingerprintOf[b] : b \in Range(i.alerts)}

\* Of the alerts of i with fingerprint f, the one upserted last.
LastWith(i, f) ==
  i.alerts[CHOOSE n \in DOMAIN i.alerts :
             /\ FingerprintOf[i.alerts[n]] = f
             /\ \A m \in DOMAIN i.alerts : FingerprintOf[i.alerts[m]] = f => m <= n]

\* Mutants: the alerts of the incident are replaced by those of the call; a row
\* that is there is left alone.
CreateAlertsReplacing(i) ==
  {r \in alerts : r.incident # i.id}
    \cup {[incident |-> i.id, fingerprint |-> f, alert |-> LastWith(i, f)] :
            f \in Fingerprints(i)}

CreateAlertsDoNothing(i) ==
  LET there == {r.fingerprint : r \in {x \in alerts : x.incident = i.id}}
  IN  alerts \cup {[incident |-> i.id, fingerprint |-> f, alert |-> LastWith(i, f)] :
                     f \in Fingerprints(i) \ there}

\* CreateAlert for each alert of i in turn: insert, on conflict update.
CreateAlerts(i) ==
  {r \in alerts : ~(r.incident = i.id /\ r.fingerprint \in Fingerprints(i))}
    \cup {[incident |-> i.id, fingerprint |-> f, alert |-> LastWith(i, f)] :
            f \in Fingerprints(i)}

CreateIncident(i) == rows \cup {RowOf(i)}

\* Mutant: correlation_version is not among the columns.
UpdateIncidentKeepingVersion(i) ==
  {IF r.id = i.id
   THEN [RowOf(i) EXCEPT !.createdAt = r.createdAt, !.version = r.version]
   ELSE r : r \in rows}

\* Every column but created_at.
UpdateIncident(i) ==
  {IF r.id = i.id THEN [RowOf(i) EXCEPT !.createdAt = r.createdAt] ELSE r :
     r \in rows}

-----------------------------------------------------------------------------
(* ProcessAlert. *)

Receive(a) ==
  /\ pc[a] = "pending"
  /\ Cardinality(InFlight) < MaxInFlight
  /\ pc' = [pc EXCEPT ![a] = "find"]
  /\ now' = [now EXCEPT ![a] = clock]
  /\ overlapped' = IF Rivals(a) = {} THEN overlapped
                   ELSE overlapped \cup Rivals(a) \cup {a}
  /\ UNCHANGED << clock, inc, issued, collided, database, isNew >>

\* The row with the latest last_alert_at.  Find read the clock for its cutoff
\* at some time t after ProcessAlert did.
FindRow(a) ==
  /\ pc[a] = "find"
  /\ \E t \in now[a] .. clock : \E r \in FindOpen(a, t) :
       /\ \A q \in FindOpen(a, t) : q.lastAlertAt <= r.lastAlertAt
       /\ inc' = [inc EXCEPT ![a] = OfRow(r)]
  /\ pc' = [pc EXCEPT ![a] = "alerts"]
  /\ UNCHANGED << clock, now, history, database, isNew >>

FindNoRow(a) ==
  /\ pc[a] = "find"
  /\ \E t \in now[a] .. clock : FindOpen(a, t) = {}
  /\ pc' = [pc EXCEPT ![a] = "create"]
  /\ UNCHANGED << clock, now, inc, history, database, isNew >>

\* The alerts as they are by now, and the alert joins the copy.
FindAlerts(a) ==
  /\ pc[a] = "alerts"
  /\ LET found == [inc[a] EXCEPT !.alerts = GetAlerts(inc[a].id)]
     IN  inc' = [inc EXCEPT ![a] = Joined(found, a, now[a])]
  /\ pc' = [pc EXCEPT ![a] = "begin"]
  /\ UNCHANGED << clock, now, history, database, isNew >>

Create(a) ==
  /\ pc[a] = "create"
  /\ inc' = [inc EXCEPT ![a] = NewIncident(a, clock, now[a])]
  /\ pc' = [pc EXCEPT ![a] = "begin"]
  /\ issued' = issued \cup {clock}
  /\ collided' = IF clock \in issued THEN collided \cup {clock} ELSE collided
  /\ UNCHANGED << clock, now, overlapped, database, isNew >>

\* Save begins its transaction and looks for the row.
SaveChecks(a) ==
  /\ pc[a] = "begin"
  /\ isNew' = [isNew EXCEPT ![a] = \A r \in rows : r.id # inc[a].id]
  /\ pc' = [pc EXCEPT ![a] = "write"]
  /\ UNCHANGED << clock, now, inc, history, database >>

\* A row written by a transaction that is not settled is locked.
Locked(id) == \E b \in Alert : pc[b] = "lost" /\ inc[b].id = id

\* An insert finds the row there: the primary key refuses it.
Duplicate(a) == isNew[a] /\ \E r \in rows : r.id = inc[a].id

Writable(a) == pc[a] = "write" /\ ~Locked(inc[a].id) /\ ~Duplicate(a)

Commit(a) ==
  /\ rows' = IF isNew[a] THEN CreateIncident(inc[a]) ELSE UpdateIncident(inc[a])
  /\ alerts' = CreateAlerts(inc[a])
  /\ committed' = committed \cup {a}

SaveCommits(a) ==
  /\ Writable(a)
  /\ Commit(a)
  /\ pc' = [pc EXCEPT ![a] = "ok"]
  /\ UNCHANGED << clock, now, inc, history, isNew >>

\* The connection is lost after COMMIT was sent.
SaveLost(a) ==
  /\ Writable(a)
  /\ pc' = [pc EXCEPT ![a] = "lost"]
  /\ UNCHANGED << clock, now, inc, history, database, isNew >>

\* The database commits on its own.
CommitsLate(a) ==
  /\ pc[a] = "lost"
  /\ Commit(a)
  /\ pc' = [pc EXCEPT ![a] = "error"]
  /\ UNCHANGED << clock, now, inc, history, isNew >>

\* A statement fails, or the database rolls back: nothing was written.
Fails(a) ==
  /\ pc[a] \in {"find", "alerts", "begin", "write", "lost"}
  /\ pc' = [pc EXCEPT ![a] = "error"]
  /\ now' = [now EXCEPT ![a] = 0]
  /\ inc' = [inc EXCEPT ![a] = NoIncident]
  /\ isNew' = [isNew EXCEPT ![a] = FALSE]
  /\ UNCHANGED << clock, history, database >>

Tick ==
  /\ clock < MaxTime
  /\ clock' = clock + 1
  /\ UNCHANGED << pc, now, inc, history, database, isNew >>

Find(a) == FindRow(a) \/ FindNoRow(a) \/ FindAlerts(a)
SaveIncident(a) == SaveChecks(a) \/ SaveCommits(a) \/ SaveLost(a) \/ CommitsLate(a)
ProcessAlert(a) == Receive(a) \/ Find(a) \/ Create(a) \/ SaveIncident(a) \/ Fails(a)

Next == Tick \/ \E a \in Alert : ProcessAlert(a)

Spec == Init /\ [][Next]_vars

-----------------------------------------------------------------------------
\* Every variable has its type, the tables keep their keys, and a call that
\* saves has an incident to save.
TypeOK ==
  /\ clock \in Time /\ now \in [Alert -> Time]
  /\ \A r \in rows : OfRow(r) \in Incident
  /\ \A r, q \in rows : r.id = q.id => r = q
  /\ alerts \subseteq AlertRow
  /\ \A r, q \in alerts :
       (r.incident = q.incident /\ r.fingerprint = q.fingerprint) => r = q
  /\ \A r \in alerts : r.fingerprint = FingerprintOf[r.alert]
  /\ \A a \in Alert :
       pc[a] \in {"alerts", "begin", "write", "ok", "lost"} => inc[a] \in Incident

OverlappedKeys == {KeyOf(a) : a \in overlapped}

\* An alert whose call returned nil is stored with its incident for ever, by
\* its fingerprint, whatever other calls did beside it: unlike the store in
\* memory this one never drops an alert that a racing call did not know of.
AcknowledgedAlertsAreStored ==
  \A a \in Alert : pc[a] = "ok" =>
    \E r \in alerts : r.incident = inc[a].id /\ r.fingerprint = FingerprintOf[a]

\* An incident holds no alert of another key, unless its id was drawn twice.
AlertsHaveTheKeyOfTheirIncident ==
  \A r \in rows : \A x \in alerts :
    (x.incident = r.id /\ r.id \notin collided) => KeyOf(x.alert) = r.key

\* What is stored of an alert is what its last delivery said, as long as no
\* calls for the key overlapped and no id was drawn twice: an older copy does
\* not overwrite a newer one.
StoredAlertsAreNewest ==
  \A x \in alerts : \A a \in committed :
    (/\ x.incident = inc[a].id /\ x.fingerprint = FingerprintOf[a]
     /\ x.incident \notin collided /\ KeyOf(a) \notin OverlappedKeys)
      => now[a] <= now[x.alert]

\* The version of an incident counts the calls that saved it, answered or not,
\* under the same conditions.
VersionCountsSaves ==
  \A r \in rows :
    (r.key \notin OverlappedKeys /\ r.id \notin collided) =>
      r.version = Cardinality({a \in committed : inc[a].id = r.id})

\* A key whose calls never overlapped has one row at most that the next alert
\* would join.
OneLiveRowPerKey ==
  \A r, q \in rows :
    (/\ r.key = q.key /\ r.key \notin OverlappedKeys
     /\ r.lastAlertAt + Window > clock /\ q.lastAlertAt + Window > clock) => r = q
=============================================================================
