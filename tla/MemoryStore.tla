----------------------------- MODULE MemoryStore -----------------------------
(***************************************************************************)
(* store.InMemoryIncidentStore under ProcessAlert, with Go's slices.       *)
(*                                                                         *)
(* Every operation of the store copies the Incident struct, and a copied   *)
(* struct shares the backing array of its Alerts.  append writes into that *)
(* array when it has room and moves to one of twice the size when not.     *)
(* Here an incident therefore holds a slice, heap holds the arrays, and    *)
(* finding an incident and appending to the copy are steps of their own.   *)
(* The store returns no errors.                                            *)
(*                                                                         *)
(* view is an incident the investigation loop got from GetByID and is      *)
(* still reading.  Correlator is the specification by value that Abstract  *)
(* below compares this one to.                                             *)
(***************************************************************************)
EXTENDS Incidents, FiniteSets

CONSTANTS MaxInFlight, NoIncident,
          NoAlert        \* the contents of an array cell not written yet

\* An incident as Go holds it, its alerts a slice of an array.
Struct ==
  [id : Time, service : {ServiceOf(a) : a \in Alert}, key : Key, severity : Nat,
   alerts : [array : Nat, len : Nat], version : Nat, state : IncidentState,
   createdAt : Time, lastAlertAt : Time]

ASSUME MemoryAssumption == NoIncident \notin Struct

VARIABLES clock, incidents, pc, now, inc, overlapped, issued, collided,
          shared,        \* history: the arrays two calls held at once
          heap,          \* the arrays allocated so far, each a sequence of cells
          view

history == << overlapped, issued, collided, shared >>
vars == << clock, incidents, pc, now, inc, history, heap, view >>

InFlight == {a \in Alert : pc[a] \in {"find", "found", "create", "save"}}
Rivals(a) == {b \in InFlight : KeyOf(b) = KeyOf(a)}

\* The arrays of the copies that calls have yet to append to or to save.
HeldArrays == {inc[a].alerts.array : a \in {b \in Alert : pc[b] \in {"found", "save"}}}

\* The incident i as a value: its slice read from the heap.
ByValue(i) == [i EXCEPT !.alerts = SubSeq(heap[i.alerts.array], 1, i.alerts.len)]

\* Mutants: the capacity is not checked; the last cell written is written again.
Append1Unchecked(s, a) ==
  [heap |-> [heap EXCEPT ![s.array] =
               IF s.len < Len(@) THEN [@ EXCEPT ![s.len + 1] = a] ELSE @],
   slice |-> [s EXCEPT !.len = @ + 1]]

Append1OffByOne(s, a) ==
  LET array == heap[s.array]
  IN  IF s.len < Len(array)
      THEN [heap |-> [heap EXCEPT ![s.array][s.len] = a], slice |-> s]
      ELSE [heap |-> Append(heap, Append(array, a) \o [n \in 1 .. Len(array) - 1 |-> NoAlert]),
            slice |-> [array |-> Len(heap) + 1, len |-> s.len + 1]]

\* append(s, a): the heap and the slice it leaves.
Append1(s, a) ==
  LET array == heap[s.array]
  IN  IF s.len < Len(array)
      THEN [heap |-> [heap EXCEPT ![s.array][s.len + 1] = a],
            slice |-> [s EXCEPT !.len = @ + 1]]
      ELSE [heap |-> Append(heap, Append(array, a) \o [n \in 1 .. Len(array) - 1 |-> NoAlert]),
            slice |-> [array |-> Len(heap) + 1, len |-> s.len + 1]]

Init ==
  /\ clock = 0
  /\ incidents = {}
  /\ pc = [a \in Alert |-> "pending"]
  /\ now = [a \in Alert |-> 0]
  /\ inc = [a \in Alert |-> NoIncident]
  /\ overlapped = {} /\ issued = {} /\ collided = {} /\ shared = {}
  /\ heap = << >>
  /\ view = NoIncident

Receive(a) ==
  /\ pc[a] = "pending"
  /\ Cardinality(InFlight) < MaxInFlight
  /\ pc' = [pc EXCEPT ![a] = "find"]
  /\ now' = [now EXCEPT ![a] = clock]
  /\ overlapped' = IF Rivals(a) = {} THEN overlapped
                   ELSE overlapped \cup Rivals(a) \cup {a}
  /\ UNCHANGED << clock, incidents, inc, issued, collided, shared, heap, view >>

\* FindOpenByCorrelationKey copies the struct it found.
FindExisting(a) ==
  /\ pc[a] = "find"
  /\ \E c \in FindOpenByCorrelationKey(incidents, KeyOf(a), clock) :
       /\ inc' = [inc EXCEPT ![a] = c]
       /\ shared' = shared \cup ({c.alerts.array} \cap HeldArrays)
  /\ pc' = [pc EXCEPT ![a] = "found"]
  /\ UNCHANGED << clock, incidents, now, overlapped, issued, collided, heap, view >>

\* inc.Alerts = append(inc.Alerts, alert), and the rest of the update.
Join(a) ==
  /\ pc[a] = "found"
  /\ LET appended == Append1(inc[a].alerts, a)
     IN  /\ heap' = appended.heap
         /\ inc' = [inc EXCEPT ![a] = [Joined(ByValue(@), a, now[a])
                                         EXCEPT !.alerts = appended.slice]]
  /\ pc' = [pc EXCEPT ![a] = "save"]
  /\ UNCHANGED << clock, incidents, now, history, view >>

FindNothing(a) ==
  /\ pc[a] = "find"
  /\ Candidates(incidents, KeyOf(a), clock) = {}
  /\ pc' = [pc EXCEPT ![a] = "create"]
  /\ UNCHANGED << clock, incidents, now, inc, history, heap, view >>

\* []domain.Alert{alert} allocates an array of one.
Create(a) ==
  /\ pc[a] = "create"
  /\ heap' = Append(heap, << a >>)
  /\ inc' = [inc EXCEPT ![a] = [NewIncident(a, clock, now[a])
                                  EXCEPT !.alerts = [array |-> Len(heap) + 1, len |-> 1]]]
  /\ pc' = [pc EXCEPT ![a] = "save"]
  /\ issued' = issued \cup {clock}
  /\ collided' = IF clock \in issued THEN collided \cup {clock} ELSE collided
  /\ UNCHANGED << clock, incidents, now, overlapped, shared, view >>

\* Mutant: what was stored under the id stays.
SaveAdding(a) ==
  /\ pc[a] = "save"
  /\ incidents' = incidents \cup {inc[a]}
  /\ pc' = [pc EXCEPT ![a] = "ok"]
  /\ UNCHANGED << clock, now, inc, history, heap, view >>

\* Save stores a copy of the struct.
SaveIncident(a) ==
  /\ pc[a] = "save"
  /\ incidents' = Save(incidents, inc[a])
  /\ pc' = [pc EXCEPT ![a] = "ok"]
  /\ UNCHANGED << clock, now, inc, history, heap, view >>

\* The investigation loop gets a copy of the struct.
GetByID ==
  /\ \E i \in incidents : view' = i
  /\ UNCHANGED << clock, incidents, pc, now, inc, history, heap >>

Tick ==
  /\ clock < MaxTime
  /\ clock' = clock + 1
  /\ UNCHANGED << incidents, pc, now, inc, history, heap, view >>

ProcessAlert(a) ==
  \/ Receive(a) \/ FindExisting(a) \/ Join(a) \/ FindNothing(a)
  \/ Create(a) \/ SaveIncident(a)

Next == Tick \/ GetByID \/ \E a \in Alert : ProcessAlert(a)

Spec == Init /\ [][Next]_vars

-----------------------------------------------------------------------------
Holders == incidents \cup {inc[a] : a \in Alert} \cup {view}

\* Every slice in use is within an allocated array whose cells up to its length
\* were written: append is never out of range and no reader meets an empty cell.
TypeOK ==
  \A i \in Holders \ {NoIncident} :
    /\ i.alerts.array \in DOMAIN heap
    /\ i.alerts.len \in 1 .. Len(heap[i.alerts.array])
    /\ ByValue(i) \in Incident

\* The store, and the copies the calls hold, read by value.  A call that found
\* an incident but has not appended yet is one that is ready to save by value.
StoreByValue == {ByValue(i) : i \in incidents}

PcByValue == [a \in Alert |-> IF pc[a] = "found" THEN "save" ELSE pc[a]]

IncByValue ==
  [a \in Alert |->
     CASE inc[a] = NoIncident -> NoIncident
       [] inc[a] # NoIncident /\ pc[a] = "found" -> Joined(ByValue(inc[a]), a, now[a])
       [] OTHER -> ByValue(inc[a])]

Abstract == INSTANCE Correlator WITH
  incidents <- StoreByValue, pc <- PcByValue, inc <- IncByValue

\* As long as no two calls held one array at once, the arrays cannot be observed:
\* however many calls run, the store with slices does what the store by value does.
ImplementsCorrelator ==
  Abstract!Init /\ [][shared' = {} => [Abstract!Next]_(Abstract!vars)]_vars

\* What the investigation loop got from GetByID does not change while it reads
\* it, though the next alerts are appended to the same array and other calls run,
\* unless two calls held that very array at once.
ViewIsStable ==
  [][(view' = view /\ view # NoIncident /\ view.alerts.array \notin shared')
       => ByValue(view)' = ByValue(view)]_vars

\* store_test.go:114 expects of a returned incident "Verify deep copy -
\* modifying returned incident shouldn't affect store": only Save changes what
\* the store holds.
OnlySaveChangesTheStore ==
  [][incidents' = incidents => StoreByValue' = StoreByValue]_vars
=============================================================================
