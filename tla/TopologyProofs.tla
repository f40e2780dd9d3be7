---------------------------- MODULE TopologyProofs ----------------------------
(***************************************************************************)
(* Proofs about Topology, for any objects and contents and any number of   *)
(* changes and broken watches.                                             *)
(*                                                                         *)
(* NeverBack is about one step, the handling of an event, and depends on   *)
(* how the events came to be queued: OrderInv says that those of an object *)
(* are in the order of its versions and not older than what is shown.      *)
(***************************************************************************)
EXTENDS Topology, SequenceTheorems, WellFoundedInduction, NaturalsInduction, TLAPS

\* v is a version of n, which was not a deletion.
VersionOf(n, v) ==
  v \in 1 .. Len(log) /\ log[v].name = n /\ log[v].content # Absent

\* What the events of an object speak of.
EventsInv ==
  \A n \in Name : \A i \in DOMAIN events[n] :
    LET e == events[n][i]
    IN  /\ e.kind \in {"add", "update"} => e.new # 0
        /\ \A v \in {e.old, e.new} \ {0} : v <= seen /\ VersionOf(n, v)

OrderInv ==
  /\ stage = "off" => ~informed /\ \A n \in Name : events[n] = << >>
  /\ (informed /\ shown # 0) => shown <= seen
  /\ \A n \in Name : \A i, j \in DOMAIN events[n] :
       (i < j /\ events[n][i].new # 0 /\ events[n][j].new # 0)
         => events[n][i].new <= events[n][j].new
  /\ \A n \in Name : \A i \in DOMAIN events[n] :
       (informed /\ shown # 0 /\ log[shown].name = n /\ events[n][i].new # 0)
         => shown <= events[n][i].new

\* events[n] is a sequence; TypeOK says what is in it.
EventsAreSequences ==
  events \in [Name -> Seq([kind : {"add", "update", "delete", "tombstone"},
                           old : Nat, new : Nat])]

\* What is deleted was there, so that a watch tells of it as a deletion.
DeletesInv ==
  \A i \in 1 .. Len(log) : log[i].content = Absent => At(log[i].name, i - 1) # 0

IInv ==
  /\ TypeOK /\ EventsAreSequences /\ DeletesInv /\ EventsInv /\ OrderInv
  /\ GraphIsOneVersion

\* A set of numbers up to k has a largest.
LEMMA Largest ==
  ASSUME NEW k \in Nat, NEW S \in SUBSET (1 .. k), S # {}
  PROVE  \E x \in S : \A y \in S : y <= x
PROOF
<1> DEFINE T == {k - i : i \in S}
<1>1. T \subseteq Nat /\ T # {}
  <2>1. \A i \in S : k - i \in Nat
    OBVIOUS
  <2>2. PICK i \in S : TRUE
    OBVIOUS
  <2> QED
    BY <2>1, <2>2
<1>2. PICK m \in T : \A y \in T : << y, m >> \notin OpToRel(<, Nat)
  BY <1>1, WFMin, NatLessThanWellFounded, Zenon
<1>3. \A y \in T : ~(y < m)
  BY <1>1, <1>2 DEF OpToRel
<1>4. PICK x \in S : m = k - x
  OBVIOUS
<1>5. \A y \in S : k - y \in T
  OBVIOUS
<1> HIDE DEF T
<1> QED
  BY <1>3, <1>4, <1>5

-----------------------------------------------------------------------------
\* The version of an object is the place of its last change, unless that deleted it.
LEMMA Versions ==
  ASSUME TypeOK, NEW n \in Name, NEW k \in 0 .. Len(log)
  PROVE  \/ At(n, k) = 0 /\ (k # 0 /\ log[k].name = n => log[k].content = Absent)
         \/ /\ At(n, k) \in 1 .. k /\ VersionOf(n, At(n, k))
            /\ \A i \in 1 .. k : log[i].name = n => i <= At(n, k)
PROOF
<1> DEFINE of == {i \in 1 .. k : log[i].name = n}
           last == CHOOSE i \in of : \A j \in of : j <= i
<1>1. CASE of = {}
  BY <1>1 DEF At
<1>2. CASE of # {}
  <2>1. k \in Nat /\ of \in SUBSET (1 .. k) /\ Len(log) \in Nat
    BY DEF TypeOK
  <2>2. \E i \in of : \A j \in of : j <= i
    BY <1>2, <2>1, Largest
  <2>3. last \in of /\ \A j \in of : j <= last
    BY <2>2
  <2>4. At(n, k) = IF log[last].content = Absent THEN 0 ELSE last
    BY <1>2 DEF At
  <2> HIDE DEF last
  <2> QED
    BY <2>1, <2>3, <2>4 DEF VersionOf
<1> QED
  BY <1>1, <1>2

-----------------------------------------------------------------------------
\* What a version that is loaded leaves: a readable one is shown, and nothing of
\* the graph before it stays.
LEMMA Updated ==
  ASSUME TypeOK, GraphIsOneVersion, UNCHANGED log,
         NEW v \in 1 .. Len(log), log[v].content # Absent, updateGraph(v)
  PROVE  /\ GraphIsOneVersion'
         /\ shown' = IF Readable(v) THEN v ELSE shown
         /\ shown' \in 0 .. Len(log)
         /\ shown' # 0 => log[shown'].content \in Contents \ {Malformed}
PROOF
<1>1. CASE Readable(v)
  <2>1. shown' = v /\ graph' = LoadFromServiceGraph(graph, log[v].content)
    BY <1>1 DEF updateGraph
  <2>2. GraphIsOneVersion'
    BY <2>1 DEF GraphIsOneVersion, LoadFromServiceGraph
  <2>3. log[v].content \in Contents \cup {Absent}
    <3>1. log \in Seq([name : Name, content : Contents \cup {Absent}])
      BY DEF TypeOK
    <3>2. log[v] \in [name : Name, content : Contents \cup {Absent}]
      BY <3>1, ElementOfSeq
    <3> QED
      BY <3>2
  <2> QED
    BY <1>1, <2>1, <2>2, <2>3 DEF Readable, TypeOK
<1>2. CASE ~Readable(v)
  BY <1>2 DEF updateGraph, GraphIsOneVersion, TypeOK
<1> QED
  BY <1>1, <1>2

\* A change leaves the versions before it as they are.
LEMMA ChangeStep == IInv /\ Change => IInv'
PROOF
<1> SUFFICES ASSUME IInv, Change PROVE IInv'
  OBVIOUS
<1>1. PICK n \in Name, c \in Contents \cup {Absent} :
        /\ log' = Append(log, [name |-> n, content |-> c])
        /\ c = Absent => At(n, Len(log)) # 0
  BY DEF Change
<1>2. /\ Len(log) < MaxChanges
      /\ UNCHANGED << stage, seen, events, graph, shown, informed, missed, breaks >>
  BY DEF Change
<1>3. /\ TypeOK /\ EventsAreSequences /\ DeletesInv /\ EventsInv /\ OrderInv
      /\ GraphIsOneVersion
  BY DEF IInv
<1>4. /\ log \in Seq([name : Name, content : Contents \cup {Absent}])
      /\ Len(log) \in Nat /\ seen \in 0 .. Len(log) /\ shown \in 0 .. Len(log)
  BY <1>3 DEF TypeOK
<1>5. /\ Len(log') = Len(log) + 1
      /\ \A i \in 1 .. Len(log) : log'[i] = log[i]
      /\ log' \in Seq([name : Name, content : Contents \cup {Absent}])
  BY <1>1, <1>4
<1>6. EventsAreSequences'
  BY <1>2, <1>3 DEF EventsAreSequences
<1>7. EventsInv'
  <2>1. \A m \in Name : \A v \in 1 .. Len(log) : VersionOf(m, v) => VersionOf(m, v)'
    BY <1>4, <1>5 DEF VersionOf
  <2>2. \A m \in Name : \A v : VersionOf(m, v) => VersionOf(m, v)'
    BY <2>1 DEF VersionOf
  <2> QED
    BY <1>2, <1>3, <2>2 DEF EventsInv
<1>8. OrderInv'
  BY <1>2, <1>3, <1>4, <1>5 DEF OrderInv
<1>9. GraphIsOneVersion'
  BY <1>2, <1>3, <1>4, <1>5 DEF GraphIsOneVersion
<1>10. TypeOK'
  <2>1. Len(log') \in Nat /\ seen' \in 0 .. Len(log') /\ Len(log') <= MaxChanges
    BY <1>2, <1>4, <1>5, TopologyAssumption DEF TopologyAssumption
  <2>2. \A m \in Name : \A i \in DOMAIN events'[m] :
          LET e == events'[m][i]
          IN  /\ e.kind \in {"add", "update", "delete", "tombstone"}
              /\ e.old \in 0 .. Len(log') /\ e.new \in 0 .. Len(log')
              /\ \A v \in {e.old, e.new} \ {0} : log'[v].name = m
    <3>1. ASSUME NEW m \in Name, NEW i \in DOMAIN events[m], NEW e, e = events[m][i]
          PROVE  /\ e.kind \in {"add", "update", "delete", "tombstone"}
                 /\ e.old \in 0 .. Len(log') /\ e.new \in 0 .. Len(log')
                 /\ \A v \in {e.old, e.new} \ {0} : log'[v].name = m
      <4>1. /\ e.kind \in {"add", "update", "delete", "tombstone"}
            /\ e.old \in 0 .. Len(log) /\ e.new \in 0 .. Len(log)
            /\ \A v \in {e.old, e.new} \ {0} : log[v].name = m
        BY <1>3, <3>1, Zenon DEF TypeOK
      <4>2. 0 .. Len(log) \subseteq 0 .. Len(log')
        BY <1>4, <1>5
      <4>3. ASSUME NEW v \in {e.old, e.new} \ {0} PROVE log'[v].name = m
        <5>1. v \in 0 .. Len(log) /\ v # 0 /\ log[v].name = m
          BY <4>1
        <5>2. v \in 1 .. Len(log)
          BY <1>4, <5>1
        <5> QED
          BY <1>5, <5>1, <5>2, Zenon
      <4> QED
        BY <4>1, <4>2, <4>3
    <3> QED
      BY <1>2, <3>1
  <2>3. /\ shown' \in 0 .. Len(log')
        /\ shown' # 0 => log'[shown'].content \in Contents \ {Malformed}
    BY <1>2, <1>3, <1>4, <1>5 DEF TypeOK
  <2>4. /\ stage' \in {"off", "local", "list", "watch"}
        /\ informed' \in BOOLEAN /\ missed' \in BOOLEAN /\ breaks' \in 0 .. MaxBreaks
    BY <1>2, <1>3 DEF TypeOK
  <2> QED
    BY <1>5, <2>1, <2>2, <2>3, <2>4 DEF TypeOK
<1>11. DeletesInv'
  <2>1. \A m : \A k \in 0 .. Len(log) : At(m, k)' = At(m, k)
    <3>1. SUFFICES ASSUME NEW m, NEW k \in 0 .. Len(log) PROVE At(m, k)' = At(m, k)
      OBVIOUS
    <3>2. \A i \in 1 .. k : log'[i] = log[i]
      BY <1>4, <1>5
    <3>3. {i \in 1 .. k : log'[i].name = m} = {i \in 1 .. k : log[i].name = m}
      BY <3>2
    <3> DEFINE S == {i \in 1 .. k : log[i].name = m}
               T == {i \in 1 .. k : log'[i].name = m}
               last(X) == CHOOSE i \in X : \A j \in X : j <= i
    <3>4. S # {} => log'[last(S)].content = log[last(S)].content
      <4>1. k \in Nat /\ S \in SUBSET (1 .. k)
        BY <1>4
      <4>2. S # {} => last(S) \in S
        BY <4>1, Largest
      <4> HIDE DEF last
      <4> QED
        BY <3>2, <4>2
    <3>5. At(m, k) = IF S = {} \/ log[last(S)].content = Absent THEN 0 ELSE last(S)
      BY DEF At
    <3>6. At(m, k)' = IF T = {} \/ log'[last(T)].content = Absent THEN 0 ELSE last(T)
      BY DEF At
    <3>7. T = S
      BY <3>3
    <3> HIDE DEF S, T, last
    <3> QED
      BY <3>4, <3>5, <3>6, <3>7
  <2>2. SUFFICES ASSUME NEW i \in 1 .. Len(log) + 1, log'[i].content = Absent
                 PROVE  At(log'[i].name, i - 1) # 0
    BY <1>4, <1>5, <2>1 DEF DeletesInv
  <2>3. CASE i \in 1 .. Len(log)
    BY <1>3, <1>5, <2>2, <2>3 DEF DeletesInv
  <2>4. CASE i = Len(log) + 1
    <3>1. log'[i] = [name |-> n, content |-> c]
      BY <1>1, <1>4, <2>4
    <3>2. log'[i].name = n /\ c = Absent
      BY <2>2, <3>1
    <3>3. At(n, Len(log)) # 0
      BY <1>1, <3>2
    <3> QED
      BY <1>4, <2>4, <3>2, <3>3
  <2> QED
    BY <1>4, <2>3, <2>4
<1> QED
  BY <1>3, <1>6, <1>7, <1>8, <1>9, <1>10, <1>11 DEF IInv

-----------------------------------------------------------------------------
\* What the informer tells of an object between two versions of the cluster.
Told(n, e, k) ==
  /\ e \in [kind : {"add", "update", "delete", "tombstone"}, old : Nat, new : Nat]
  /\ e.kind \in {"add", "update"} => e.new # 0
  /\ \A v \in {e.old, e.new} \ {0} : v <= k /\ VersionOf(n, v)
  /\ e.new # 0 => \A i \in 1 .. k : log[i].name = n => i <= e.new

\* Such an event at the end of each queue, or none, keeps the invariants.
LEMMA TellStep ==
  ASSUME IInv, UNCHANGED << log, graph, shown, informed >>,
         stage \in {"list", "watch"}, stage' \in {"list", "watch"},
         missed' \in BOOLEAN, breaks' \in 0 .. MaxBreaks,
         seen' \in seen .. Len(log), events' = [n \in Name |-> events'[n]],
         \A n \in Name : \/ events'[n] = events[n]
                        \/ \E e : Told(n, e, seen') /\ events'[n] = Append(events[n], e)
  PROVE  IInv'
PROOF
<1> DEFINE R == [kind : {"add", "update", "delete", "tombstone"}, old : Nat, new : Nat]
<1>1. /\ TypeOK /\ EventsAreSequences /\ DeletesInv /\ EventsInv /\ OrderInv
      /\ GraphIsOneVersion
  BY DEF IInv
<1>2. Len(log) \in Nat /\ seen \in 0 .. Len(log) /\ shown \in 0 .. Len(log)
  BY <1>1 DEF TypeOK
<1>3. \A n, v : VersionOf(n, v)' = VersionOf(n, v)
  BY DEF VersionOf
<1>4. ASSUME NEW n \in Name
      PROVE  /\ events'[n] \in Seq(R)
             /\ \A i \in DOMAIN events'[n] :
                  \/ i \in DOMAIN events[n] /\ events'[n][i] = events[n][i]
                  \/ Told(n, events'[n][i], seen') /\ \A j \in DOMAIN events'[n] : j <= i
  <2>1. events[n] \in Seq(R)
    BY <1>1 DEF EventsAreSequences
  <2>2. CASE events'[n] = events[n]
    BY <2>1, <2>2
  <2>3. CASE \E e : Told(n, e, seen') /\ events'[n] = Append(events[n], e)
    <3>1. PICK e : Told(n, e, seen') /\ events'[n] = Append(events[n], e)
      BY <2>3
    <3>2. e \in R
      BY <3>1 DEF Told
    <3>3. /\ events'[n] \in Seq(R)
          /\ Len(events'[n]) = Len(events[n]) + 1
          /\ \A i \in 1 .. Len(events[n]) : events'[n][i] = events[n][i]
          /\ events'[n][Len(events[n]) + 1] = e
      BY <2>1, <3>1, <3>2, AppendProperties
    <3>4. DOMAIN events[n] = 1 .. Len(events[n]) /\ DOMAIN events'[n] = 1 .. Len(events'[n])
      BY <2>1, <3>3
    <3>5. Len(events[n]) \in Nat
      BY <2>1
    <3> QED
      BY <3>1, <3>3, <3>4, <3>5
  <2> QED
    BY <2>2, <2>3
<1>5. EventsAreSequences'
  <2>1. \A n \in Name : events'[n] \in Seq(R)
    BY <1>4
  <2> QED
    BY <2>1 DEF EventsAreSequences
<1>6. EventsInv'
  <2> SUFFICES ASSUME NEW n \in Name, NEW i \in DOMAIN events'[n]
               PROVE  LET e == events'[n][i]
                      IN  /\ e.kind \in {"add", "update"} => e.new # 0
                          /\ \A v \in {e.old, e.new} \ {0} : v <= seen' /\ VersionOf(n, v)
    BY <1>3 DEF EventsInv
  <2>1. CASE i \in DOMAIN events[n] /\ events'[n][i] = events[n][i]
    <3>1. /\ events[n][i].kind \in {"add", "update"} => events[n][i].new # 0
          /\ \A v \in {events[n][i].old, events[n][i].new} \ {0} :
               v <= seen /\ VersionOf(n, v)
      BY <1>1, <2>1 DEF EventsInv
    <3>2. \A v : v <= seen /\ VersionOf(n, v) => v <= seen'
      BY <1>2 DEF VersionOf
    <3> QED
      BY <2>1, <3>1, <3>2
  <2>2. CASE Told(n, events'[n][i], seen')
    BY <2>2 DEF Told
  <2> QED
    BY <1>4, <2>1, <2>2
<1>7. OrderInv'
  <2>1. stage' # "off" /\ ((informed' /\ shown' # 0) => shown' <= seen')
    BY <1>1, <1>2 DEF OrderInv
  <2>2. ASSUME NEW n \in Name, NEW i \in DOMAIN events'[n], NEW j \in DOMAIN events'[n],
               i < j, events'[n][i].new # 0, events'[n][j].new # 0
        PROVE  events'[n][i].new <= events'[n][j].new
    <3>1. i \in Nat /\ j \in Nat
      BY <1>4
    <3>2. i \in DOMAIN events[n] /\ events'[n][i] = events[n][i]
      BY <1>4, <2>2, <3>1
    <3>3. events[n][i].new <= seen /\ VersionOf(n, events[n][i].new)
      BY <1>1, <2>2, <3>2 DEF EventsInv
    <3>4. CASE j \in DOMAIN events[n] /\ events'[n][j] = events[n][j]
      BY <1>1, <2>2, <3>2, <3>4 DEF OrderInv
    <3>5. CASE Told(n, events'[n][j], seen')
      BY <1>2, <2>2, <3>2, <3>3, <3>5 DEF Told, VersionOf
    <3> QED
      BY <1>4, <3>4, <3>5
  <2>3. ASSUME NEW n \in Name, NEW i \in DOMAIN events'[n],
               informed, shown # 0, log[shown].name = n, events'[n][i].new # 0
        PROVE  shown <= events'[n][i].new
    <3>1. CASE i \in DOMAIN events[n] /\ events'[n][i] = events[n][i]
      BY <1>1, <2>3, <3>1 DEF OrderInv
    <3>2. CASE Told(n, events'[n][i], seen')
      <4>1. shown \in 1 .. seen'
        BY <1>1, <1>2, <2>1, <2>3
      <4> QED
        BY <2>3, <3>2, <4>1 DEF Told
    <3> QED
      BY <1>4, <3>1, <3>2
  <2> QED
    BY <2>1, <2>2, <2>3 DEF OrderInv
<1>8. DeletesInv' /\ GraphIsOneVersion'
  <2>1. \A n, k : At(n, k)' = At(n, k)
    BY DEF At
  <2> QED
    BY <1>1, <2>1 DEF DeletesInv, GraphIsOneVersion
<1>9. TypeOK'
  <2>1. seen' \in 0 .. Len(log) /\ Len(log') = Len(log)
    BY <1>2
  <2>2. \A n \in Name : \A i \in DOMAIN events'[n] :
          LET e == events'[n][i]
          IN  /\ e.kind \in {"add", "update", "delete", "tombstone"}
              /\ e.old \in 0 .. Len(log) /\ e.new \in 0 .. Len(log)
              /\ \A v \in {e.old, e.new} \ {0} : log[v].name = n
    <3> TAKE n \in Name
    <3> TAKE i \in DOMAIN events'[n]
    <3>1. events'[n][i] \in R
      <4>1. i \in 1 .. Len(events'[n])
        BY <1>4
      <4> QED
        BY <1>4, <4>1, ElementOfSeq
    <3>2. \A v \in {events'[n][i].old, events'[n][i].new} \ {0} : VersionOf(n, v)
      BY <1>3, <1>6 DEF EventsInv
    <3> QED
      BY <1>2, <3>1, <3>2 DEF VersionOf
  <2> QED
    BY <1>1, <2>1, <2>2 DEF TypeOK
<1> QED
  BY <1>5, <1>6, <1>7, <1>8, <1>9 DEF IInv

\* A list tells of each object whose version differs from the one seen before.
LEMMA ListStep == ASSUME NEW k \in seen .. Len(log), IInv, List(k) PROVE IInv'
PROOF
<1>1. TypeOK /\ EventsAreSequences
  BY DEF IInv
<1>2. /\ UNCHANGED << log, graph, shown, informed, breaks >>
      /\ stage = "list" /\ stage' = "watch" /\ seen' = k
      /\ events' = [n \in Name |-> events[n] \o Listed(n, At(n, seen), At(n, k))]
  BY DEF List
<1>3. seen \in 0 .. Len(log) /\ Len(log) \in Nat /\ breaks \in 0 .. MaxBreaks
  BY <1>1 DEF TypeOK
<1>4. missed' \in BOOLEAN
  BY DEF List
<1>5. ASSUME NEW n \in Name
      PROVE  \/ events'[n] = events[n]
             \/ \E e : Told(n, e, seen') /\ events'[n] = Append(events[n], e)
  <2> DEFINE old == At(n, seen)
             new == At(n, k)
             tomb == [kind |-> "tombstone", old |-> old, new |-> 0]
  <2>1. /\ old = 0 \/ (old \in 1 .. seen /\ VersionOf(n, old))
        /\ new = 0 \/ (/\ new \in 1 .. k /\ VersionOf(n, new)
                        /\ \A i \in 1 .. k : log[i].name = n => i <= new)
    BY <1>1, <1>3, Versions
  <2>2. events'[n] = events[n] \o Listed(n, old, new)
    BY <1>2
  <2>3. events[n] \in Seq([kind : {"add", "update", "delete", "tombstone"},
                           old : Nat, new : Nat])
    BY <1>1 DEF EventsAreSequences
  <2> HIDE DEF old, new
  <2>4. CASE new # 0
    <3>1. Told(n, Event(n, old, new), k)
      BY <1>3, <2>1, <2>4 DEF Told, Event
    <3>2. events'[n] = events[n] \o << Event(n, old, new) >>
      BY <2>2, <2>4 DEF Listed
    <3>3. events'[n] = Append(events[n], Event(n, old, new))
      BY <2>3, <3>1, <3>2, AppendIsConcat DEF Told
    <3> QED
      BY <1>2, <3>1, <3>3
  <2>5. CASE new = 0 /\ old # 0
    <3>1. Told(n, tomb, k)
      BY <1>3, <2>1, <2>5 DEF Told
    <3>2. events'[n] = events[n] \o << tomb >>
      BY <2>2, <2>5 DEF Listed
    <3>3. events'[n] = Append(events[n], tomb)
      BY <2>3, <3>1, <3>2, AppendIsConcat DEF Told
    <3> QED
      BY <1>2, <3>1, <3>3
  <2>6. CASE new = 0 /\ old = 0
    <3>1. events'[n] = events[n] \o << >>
      BY <2>2, <2>6 DEF Listed
    <3> QED
      BY <2>3, <3>1, ConcatEmptySeq
  <2> QED
    BY <2>4, <2>5, <2>6
<1>6. events' = [n \in Name |-> events'[n]]
  BY <1>2
<1> QED
  BY <1>2, <1>3, <1>4, <1>5, <1>6, TellStep

\* The watch tells of one change, the next one.
LEMMA WatchStep == ASSUME IInv, Watch PROVE IInv'
PROOF
<1>1. TypeOK /\ EventsAreSequences /\ DeletesInv
  BY DEF IInv
<1> DEFINE n == log[seen + 1].name
           e == Event(n, At(n, seen), At(n, seen + 1))
<1>2. /\ UNCHANGED << log, graph, shown, informed, missed, breaks >>
      /\ stage = "watch" /\ stage' = "watch" /\ seen < Len(log) /\ seen' = seen + 1
      /\ events' = [events EXCEPT ![n] = Append(@, e)]
  BY DEF Watch
<1>3. /\ log \in Seq([name : Name, content : Contents \cup {Absent}])
      /\ seen \in 0 .. Len(log) /\ Len(log) \in Nat
      /\ breaks \in 0 .. MaxBreaks /\ missed \in BOOLEAN
  BY <1>1 DEF TypeOK
<1>4. n \in Name
  <2>1. log[seen + 1] \in [name : Name, content : Contents \cup {Absent}]
    <3>1. seen + 1 \in 1 .. Len(log)
      BY <1>2, <1>3
    <3> QED
      BY <1>3, <3>1, ElementOfSeq
  <2> QED
    BY <2>1
<1>5. Told(n, e, seen')
  <2>1. /\ At(n, seen) = 0 \/ (At(n, seen) \in 1 .. seen /\ VersionOf(n, At(n, seen)))
        /\ \/ At(n, seen + 1) = 0 /\ log[seen + 1].content = Absent
           \/ /\ At(n, seen + 1) \in 1 .. seen + 1 /\ VersionOf(n, At(n, seen + 1))
              /\ \A i \in 1 .. seen + 1 : log[i].name = n => i <= At(n, seen + 1)
    <3>1. seen + 1 \in 0 .. Len(log) /\ seen + 1 # 0
      BY <1>2, <1>3
    <3> HIDE DEF n
    <3>2. log[seen + 1].name = n
      BY DEF n
    <3> QED
      BY <1>1, <1>3, <1>4, <3>1, <3>2, Versions
  <2>2. log[seen + 1].content = Absent => At(n, seen) # 0
    <3>1. seen + 1 \in 1 .. Len(log) /\ (seen + 1) - 1 = seen
      BY <1>2, <1>3
    <3> QED
      BY <1>1, <3>1 DEF DeletesInv
  <2> HIDE DEF n
  <2> QED
    BY <1>2, <1>3, <2>1, <2>2 DEF Told, Event
<1>6. DOMAIN events = Name
  BY <1>1 DEF EventsAreSequences
<1> HIDE DEF n, e
<1>7. /\ events' = [m \in Name |-> events'[m]]
      /\ events'[n] = Append(events[n], e)
      /\ \A m \in Name : m # n => events'[m] = events[m]
  BY <1>2, <1>4, <1>6
<1>8. \A m \in Name : \/ events'[m] = events[m]
                      \/ \E f : Told(m, f, seen') /\ events'[m] = Append(events[m], f)
  BY <1>5, <1>7
<1>9. seen' \in seen .. Len(log)
  BY <1>2, <1>3
<1> QED
  BY <1>2, <1>3, <1>7, <1>8, <1>9, TellStep

\* A broken watch says nothing, and what was seen and queued stays.
LEMMA WatchBreaksStep == ASSUME IInv, WatchBreaks PROVE IInv'
PROOF
<1>1. TypeOK /\ EventsAreSequences
  BY DEF IInv
<1>2. /\ UNCHANGED << log, seen, events, graph, shown, informed, missed >>
      /\ stage = "watch" /\ stage' = "list" /\ breaks' = breaks + 1 /\ breaks < MaxBreaks
  BY DEF WatchBreaks
<1>3. /\ breaks' \in 0 .. MaxBreaks /\ seen' \in seen .. Len(log) /\ missed' \in BOOLEAN
  BY <1>1, <1>2, TopologyAssumption DEF TypeOK, TopologyAssumption
<1>4. events' = [n \in Name |-> events'[n]]
  BY <1>1, <1>2 DEF EventsAreSequences
<1> QED
  BY <1>2, <1>3, <1>4, TellStep

\* Before the informer there are no events and nothing is informed.
LEMMA InitializeStep == ASSUME IInv, Initialize \/ InitializeFails PROVE IInv'
PROOF
<1>1. /\ TypeOK /\ EventsAreSequences /\ DeletesInv /\ EventsInv /\ OrderInv
      /\ GraphIsOneVersion
  BY DEF IInv
<1>2. /\ UNCHANGED << log, seen, events, informed, missed, breaks >>
      /\ stage = "off" /\ stage' \in {"local", "list"}
  BY DEF Initialize, InitializeFails
<1>3. ~informed /\ \A n \in Name : events[n] = << >>
  BY <1>1, <1>2 DEF OrderInv
<1>4. Len(log) \in 0 .. Len(log)
  BY <1>1 DEF TypeOK
<1>5. \/ UNCHANGED << graph, shown >>
      \/ LET v == At(Default, Len(log)) IN v # 0 /\ updateGraph(v)
  BY DEF Initialize, InitializeFails
<1>6. /\ GraphIsOneVersion' /\ shown' \in 0 .. Len(log)
      /\ shown' # 0 => log[shown'].content \in Contents \ {Malformed}
  <2>1. CASE UNCHANGED << graph, shown >>
    BY <1>1, <1>2, <2>1 DEF GraphIsOneVersion, TypeOK
  <2>2. CASE LET v == At(Default, Len(log)) IN v # 0 /\ updateGraph(v)
    <3>1. PICK v : v = At(Default, Len(log)) /\ v # 0 /\ updateGraph(v)
      BY <2>2
    <3>2. v \in 1 .. Len(log) /\ log[v].content # Absent
      BY <1>1, <1>4, <3>1, Versions, TopologyAssumption DEF TopologyAssumption, VersionOf
    <3> QED
      BY <1>1, <1>2, <3>1, <3>2, Updated
  <2> QED
    BY <1>5, <2>1, <2>2
<1>7. EventsAreSequences' /\ EventsInv' /\ OrderInv'
  BY <1>1, <1>2, <1>3 DEF EventsAreSequences, EventsInv, OrderInv, VersionOf
<1>8. DeletesInv'
  <2>1. \A n, k : At(n, k)' = At(n, k)
    BY <1>2 DEF At
  <2> QED
    BY <1>1, <1>2, <2>1 DEF DeletesInv
<1>9. TypeOK'
  BY <1>1, <1>2, <1>6 DEF TypeOK
<1> QED
  BY <1>6, <1>7, <1>8, <1>9 DEF IInv

\* The first event of a queue is handled; it is not older than what is shown.
LEMMA HandleStep ==
  ASSUME IInv, NEW n \in Name, Handle(n)
  PROVE  /\ IInv'
         /\ (informed /\ shown # 0 /\ shown' # 0 /\ log[shown'].name = log[shown].name)
              => shown' >= shown
PROOF
<1> DEFINE R == [kind : {"add", "update", "delete", "tombstone"}, old : Nat, new : Nat]
           e == Head(events[n])
<1>1. /\ TypeOK /\ EventsAreSequences /\ DeletesInv /\ EventsInv /\ OrderInv
      /\ GraphIsOneVersion
  BY DEF IInv
<1>2. /\ UNCHANGED << log, stage, seen, missed, breaks >>
      /\ events[n] # << >> /\ events' = [events EXCEPT ![n] = Tail(@)]
      /\ OnUpdate(e) \/ OnDelete(e) \/ OnTombstone(e)
  BY DEF Handle
<1>3. events[n] \in Seq(R) /\ DOMAIN events = Name
  BY <1>1 DEF EventsAreSequences
<1>4. /\ Tail(events[n]) \in Seq(R)
      /\ Len(Tail(events[n])) = Len(events[n]) - 1
      /\ \A i \in 1 .. Len(Tail(events[n])) : Tail(events[n])[i] = events[n][i + 1]
  BY <1>2, <1>3, HeadTailProperties
<1>5. /\ Len(events[n]) \in Nat \ {0} /\ e = events[n][1] /\ 1 \in DOMAIN events[n] /\ e \in R
  <2>1. Len(events[n]) \in Nat \ {0} /\ e = events[n][1] /\ 1 \in 1 .. Len(events[n])
    BY <1>2, <1>3
  <2>2. events[n][1] \in R
    BY <1>3, <2>1, ElementOfSeq
  <2>3. DOMAIN events[n] = 1 .. Len(events[n])
    BY <1>3
  <2> QED
    BY <2>1, <2>2, <2>3
<1>6. /\ \A m \in Name : m # n => events'[m] = events[m]
      /\ \A i \in DOMAIN events'[n] :
           i \in Nat /\ i >= 1 /\ i + 1 \in DOMAIN events[n] /\ events'[n][i] = events[n][i + 1]
  <2>1. events'[n] = Tail(events[n])
    BY <1>2, <1>3
  <2>2. DOMAIN events[n] = 1 .. Len(events[n]) /\ DOMAIN events'[n] = 1 .. Len(events[n]) - 1
    BY <1>3, <1>4, <2>1
  <2> QED
    BY <1>2, <1>3, <1>4, <1>5, <2>1, <2>2
<1>7. /\ e.kind \in {"add", "update"} => e.new # 0
      /\ \A v \in {e.old, e.new} \ {0} : v <= seen /\ VersionOf(n, v)
  BY <1>1, <1>5 DEF EventsInv
<1>8. seen \in 0 .. Len(log) /\ Len(log) \in Nat /\ shown \in 0 .. Len(log)
  BY <1>1 DEF TypeOK
<1> HIDE DEF e, R
<1>9. \/ UNCHANGED << shown, informed >>
      \/ shown' = 0 /\ informed'
      \/ shown' = e.new /\ informed' /\ e.new # 0 /\ VersionOf(n, e.new) /\ e.new <= seen
  <2>1. CASE OnUpdate(e)
    <3>1. e.new # 0 /\ VersionOf(n, e.new) /\ e.new <= seen
      BY <1>7, <2>1 DEF OnUpdate
    <3>2. updateGraph(e.new) /\ informed' = (informed \/ Readable(e.new))
      BY <2>1 DEF OnUpdate
    <3>3. CASE Readable(e.new)
      BY <3>1, <3>2, <3>3 DEF updateGraph
    <3>4. CASE ~Readable(e.new)
      <4>1. shown' = shown
        BY <3>2, <3>4 DEF updateGraph
      <4>2. informed' = informed
        <5>1. informed \in BOOLEAN
          BY <1>1 DEF TypeOK
        <5> QED
          BY <3>2, <3>4, <5>1
      <4> QED
        BY <4>1, <4>2
    <3> QED
      BY <3>3, <3>4
  <2>2. CASE OnDelete(e)
    BY <2>2 DEF OnDelete
  <2>3. CASE OnTombstone(e)
    BY <2>3 DEF OnTombstone
  <2> QED
    BY <1>2, <2>1, <2>2, <2>3
<1>10. /\ GraphIsOneVersion' /\ shown' \in 0 .. Len(log) /\ informed' \in BOOLEAN
       /\ shown' # 0 => log[shown'].content \in Contents \ {Malformed}
  <2>1. CASE OnUpdate(e)
    <3>1. e.new \in 1 .. Len(log) /\ log[e.new].content # Absent
      BY <1>7, <2>1 DEF OnUpdate, VersionOf
    <3>2. updateGraph(e.new) /\ UNCHANGED log
      BY <1>2, <2>1 DEF OnUpdate
    <3>3. informed' \in BOOLEAN
      BY <2>1 DEF OnUpdate
    <3> QED
      BY <1>1, <3>1, <3>2, <3>3, Updated
  <2>2. CASE OnDelete(e)
    BY <1>8, <2>2 DEF OnDelete, GraphIsOneVersion
  <2>3. CASE OnTombstone(e)
    BY <1>1, <1>2, <2>3 DEF OnTombstone, GraphIsOneVersion, TypeOK
  <2> QED
    BY <1>2, <2>1, <2>2, <2>3
<1>11. EventsAreSequences'
  BY <1>1, <1>2, <1>4 DEF EventsAreSequences, R
<1>12. EventsInv'
  <2>1. \A m, v : VersionOf(m, v)' = VersionOf(m, v)
    BY <1>2 DEF VersionOf
  <2> SUFFICES ASSUME NEW m \in Name, NEW i \in DOMAIN events'[m]
               PROVE  LET f == events'[m][i]
                      IN  /\ f.kind \in {"add", "update"} => f.new # 0
                          /\ \A v \in {f.old, f.new} \ {0} : v <= seen /\ VersionOf(m, v)
    BY <1>2, <2>1 DEF EventsInv
  <2>2. CASE m = n
    BY <1>1, <1>6, <2>2 DEF EventsInv
  <2>3. CASE m # n
    BY <1>1, <1>6, <2>3 DEF EventsInv
  <2> QED
    BY <2>2, <2>3
<1>13. OrderInv'
  <2>1. stage' # "off"
    BY <1>1, <1>2 DEF OrderInv
  <2>2. (informed' /\ shown' # 0) => shown' <= seen'
    BY <1>1, <1>2, <1>9 DEF OrderInv
  <2>3. ASSUME NEW m \in Name, NEW i \in DOMAIN events'[m], NEW j \in DOMAIN events'[m],
               i < j, events'[m][i].new # 0, events'[m][j].new # 0
        PROVE  events'[m][i].new <= events'[m][j].new
    <3>1. CASE m = n
      <4>1. i + 1 < j + 1
        BY <1>6, <2>3, <3>1
      <4> QED
        BY <1>1, <1>6, <2>3, <3>1, <4>1 DEF OrderInv
    <3>2. CASE m # n
      BY <1>1, <1>6, <2>3, <3>2 DEF OrderInv
    <3> QED
      BY <3>1, <3>2
  <2>4. ASSUME NEW m \in Name, NEW i \in DOMAIN events'[m],
               informed', shown' # 0, log[shown'].name = m, events'[m][i].new # 0
        PROVE  shown' <= events'[m][i].new
    <3>0. shown' # 0 /\ log[shown'].name = m /\ events'[m][i].new # 0
      BY <2>4
    <3>1. PICK j \in DOMAIN events[m] :
            /\ events'[m][i] = events[m][j]
            /\ m = n => (j \in Nat /\ j > 1)
      BY <1>6, <2>4
    <3>2. CASE UNCHANGED << shown, informed >>
      <4>1. (informed /\ shown # 0 /\ log[shown].name = m /\ events[m][j].new # 0)
              => shown <= events[m][j].new
        BY <1>1, <3>1 DEF OrderInv
      <4>2. informed
        <5>1. informed' = informed
          BY <3>2
        <5> QED
          BY <2>4, <5>1, Zenon
      <4> QED
        BY <4>2, <3>0, <3>1, <3>2, <4>1
    <3>3. CASE shown' = e.new /\ e.new # 0 /\ VersionOf(n, e.new)
      <4>1. m = n
        BY <2>4, <3>3 DEF VersionOf
      <4>2. (1 < j /\ events[n][1].new # 0 /\ events[n][j].new # 0)
              => events[n][1].new <= events[n][j].new
        BY <1>1, <1>5, <3>1, <4>1 DEF OrderInv
      <4> QED
        BY <1>5, <3>0, <3>1, <3>3, <4>1, <4>2
    <3> QED
      BY <1>9, <2>4, <3>2, <3>3
  <2> QED
    BY <1>2, <2>1, <2>2, <2>3, <2>4 DEF OrderInv
<1>14. DeletesInv'
  <2>1. \A m, k : At(m, k)' = At(m, k)
    BY <1>2 DEF At
  <2> QED
    BY <1>1, <1>2, <2>1 DEF DeletesInv
<1>15. TypeOK'
  <2>1. seen' \in 0 .. Len(log') /\ Len(log') \in Nat
    BY <1>2, <1>8
  <2>2. \A m \in Name : \A i \in DOMAIN events'[m] :
          LET f == events'[m][i]
          IN  /\ f.kind \in {"add", "update", "delete", "tombstone"}
              /\ f.old \in 0 .. Len(log) /\ f.new \in 0 .. Len(log)
              /\ \A v \in {f.old, f.new} \ {0} : log[v].name = m
    <3> TAKE m \in Name
    <3> TAKE i \in DOMAIN events'[m]
    <3>1. PICK j \in DOMAIN events[m] : events'[m][i] = events[m][j]
      BY <1>6
    <3> QED
      BY <1>1, <3>1 DEF TypeOK
  <2> QED
    BY <1>1, <1>2, <1>10, <2>2 DEF TypeOK
<1>16. ASSUME informed, shown # 0, shown' # 0, log[shown'].name = log[shown].name
       PROVE  shown' >= shown
  <2>1. CASE UNCHANGED << shown, informed >>
    BY <1>8, <2>1
  <2>2. CASE shown' = e.new /\ e.new # 0 /\ VersionOf(n, e.new)
    BY <1>1, <1>5, <1>16, <2>2 DEF OrderInv, VersionOf
  <2> QED
    BY <1>9, <1>16, <2>1, <2>2
<1> QED
  BY <1>10, <1>11, <1>12, <1>13, <1>14, <1>15, <1>16 DEF IInv

-----------------------------------------------------------------------------
\* The graph starts empty and nothing is queued.
LEMMA InitInv == Init => IInv
PROOF
<1> SUFFICES ASSUME Init PROVE IInv
  OBVIOUS
<1>1. /\ log = << >> /\ stage = "off" /\ seen = 0
      /\ events = [n \in Name |-> << >>] /\ graph = NewInMemoryGraph
      /\ shown = 0 /\ informed = FALSE /\ missed = FALSE /\ breaks = 0
  BY DEF Init
<1>2. EventsAreSequences
  BY <1>1 DEF EventsAreSequences
<1>3. EventsInv /\ OrderInv
  BY <1>1 DEF EventsInv, OrderInv
<1>4. DeletesInv /\ GraphIsOneVersion
  BY <1>1 DEF DeletesInv, GraphIsOneVersion
<1>5. TypeOK
  <2>1. << >> \in Seq([name : Name, content : Contents \cup {Absent}]) /\ Len(<< >>) = 0
    BY EmptySeq
  <2>2. \A n \in Name : DOMAIN events[n] = {}
    BY <1>1
  <2> QED
    <3>1. /\ log \in Seq([name : Name, content : Contents \cup {Absent}])
          /\ Len(log) = 0
      BY <1>1, <2>1
    <3>2. 0 <= MaxChanges /\ 0 \in 0 .. MaxBreaks
      BY TopologyAssumption DEF TopologyAssumption
    <3>3. /\ Len(log) <= MaxChanges /\ seen \in 0 .. Len(log) /\ shown \in 0 .. Len(log)
          /\ breaks \in 0 .. MaxBreaks
      BY <1>1, <3>1, <3>2
    <3> QED
      BY <1>1, <2>2, <3>1, <3>3 DEF TypeOK
<1> QED
  BY <1>2, <1>3, <1>4, <1>5 DEF IInv

\* What is shown changes before the informer has spoken or by the handling of an
\* event.
Forward ==
  (informed /\ shown # 0 /\ shown' # 0 /\ log[shown'].name = log[shown].name)
    => shown' >= shown

\* Each step keeps the invariant and, where it handles an event, brings back nothing older.
LEMMA NextStep == IInv /\ [Next]_vars => IInv' /\ Forward
PROOF
<1> SUFFICES ASSUME IInv, [Next]_vars PROVE IInv' /\ Forward
  OBVIOUS
<1>1. shown \in Nat
  BY DEF IInv, TypeOK
<1>2. shown' = shown => Forward
  BY <1>1 DEF Forward
<1>3. CASE Change
  BY <1>2, <1>3, ChangeStep DEF Change
<1>4. CASE Initialize \/ InitializeFails
  <2>1. ~informed
    BY <1>4 DEF IInv, OrderInv, Initialize, InitializeFails
  <2> QED
    BY <1>4, <2>1, InitializeStep DEF Forward
<1>5. ASSUME NEW k \in seen .. Len(log), List(k) PROVE IInv' /\ Forward
  BY <1>2, <1>5, ListStep DEF List
<1>6. CASE Watch
  BY <1>2, <1>6, WatchStep DEF Watch
<1>7. CASE WatchBreaks
  BY <1>2, <1>7, WatchBreaksStep DEF WatchBreaks
<1>8. ASSUME NEW n \in Name, Handle(n) PROVE IInv' /\ Forward
  BY <1>8, HandleStep DEF Forward
<1>9. CASE UNCHANGED vars
  <2>1. UNCHANGED << log, stage, seen, events, graph, shown, informed, missed, breaks >>
    BY <1>9 DEF vars
  <2>2. /\ TypeOK' /\ EventsAreSequences' /\ EventsInv' /\ OrderInv' /\ GraphIsOneVersion'
    BY <2>1 DEF IInv, TypeOK, EventsAreSequences, EventsInv, OrderInv, GraphIsOneVersion,
                VersionOf
  <2>3. DeletesInv'
    <3>1. \A n, k : At(n, k)' = At(n, k)
      BY <2>1 DEF At
    <3> QED
      BY <2>1, <3>1 DEF IInv, DeletesInv
  <2>4. IInv'
    BY <2>2, <2>3 DEF IInv
  <2> QED
    BY <1>2, <2>1, <2>4
<1> QED
  BY <1>3, <1>4, <1>5, <1>6, <1>7, <1>8, <1>9 DEF Next, Informer

-----------------------------------------------------------------------------
(* Slices. *)

\* The loop that builds Taken, after n elements.
Loop(f, es, S, n) ==
  f = [i \in 0 .. n |-> IF i = 0 THEN << >>
                        ELSE IF i \in S THEN Append(f[i - 1], es[i])
                        ELSE f[i - 1]]

\* A set of numbers has a least.
LEMMA LeastNumber ==
  ASSUME NEW T \in SUBSET Nat, T # {}
  PROVE  \E x \in T : \A y \in T : x <= y
PROOF
<1>1. PICK m \in T : \A y \in T : << y, m >> \notin OpToRel(<, Nat)
  BY WFMin, NatLessThanWellFounded, Zenon
<1>2. \A y \in T : ~(y < m)
  BY <1>1 DEF OpToRel
<1> QED
  BY <1>2

\* The loop runs to its end, by the least number it would not reach.
LEMMA LoopExists ==
  ASSUME NEW es, NEW S, NEW n \in Nat
  PROVE  \E f : Loop(f, es, S, n)
PROOF
<1> DEFINE Failing == {k \in Nat : ~\E f : Loop(f, es, S, k)}
<1>1. SUFFICES ASSUME Failing # {} PROVE FALSE
  OBVIOUS
<1>2. PICK m \in Failing : \A k \in Failing : m <= k
  BY <1>1, LeastNumber
<1>3. CASE m = 0
  <2>1. PICK f : f = [i \in 0 .. 0 |-> << >>]
    OBVIOUS
  <2>2. Loop(f, es, S, 0)
    BY <2>1 DEF Loop
  <2> QED
    BY <1>2, <1>3, <2>2
<1>4. CASE m # 0
  <2>1. m - 1 \in Nat /\ m - 1 \notin Failing
    BY <1>2, <1>4
  <2>2. PICK f : Loop(f, es, S, m - 1)
    BY <2>1
  <2>3. PICK g : g = [i \in 0 .. m |-> IF i = m THEN IF m \in S THEN Append(f[m - 1], es[m])
                                                     ELSE f[m - 1]
                                       ELSE f[i]]
    OBVIOUS
  <2>4. DOMAIN g = 0 .. m /\ \A i \in 0 .. m - 1 : g[i] = f[i]
    BY <1>2, <2>3
  <2>5. \A i \in 0 .. m - 1 : f[i] = IF i = 0 THEN << >>
                                     ELSE IF i \in S THEN Append(f[i - 1], es[i])
                                     ELSE f[i - 1]
    BY <2>2 DEF Loop
  <2>6. \A i \in 0 .. m : g[i] = IF i = 0 THEN << >>
                                 ELSE IF i \in S THEN Append(g[i - 1], es[i])
                                 ELSE g[i - 1]
    <3>1. ASSUME NEW i \in 0 .. m - 1
          PROVE  g[i] = IF i = 0 THEN << >> ELSE IF i \in S THEN Append(g[i - 1], es[i]) ELSE g[i - 1]
      <4>1. i # 0 => i - 1 \in 0 .. m - 1
        BY <2>1
      <4> QED
        BY <2>4, <2>5, <4>1
    <3>2. g[m] = IF m \in S THEN Append(g[m - 1], es[m]) ELSE g[m - 1]
      BY <1>2, <1>4, <2>3, <2>4
    <3>3. \A i \in 0 .. m : i = m \/ i \in 0 .. m - 1
      BY <1>2
    <3> QED
      BY <1>4, <3>1, <3>2, <3>3
  <2>7. Loop(g, es, S, m)
    BY <2>3, <2>6 DEF Loop
  <2> QED
    BY <1>2, <2>7
<1> QED
  BY <1>3, <1>4

\* Taken is what it leaves.
LEMMA TakenByLoop ==
  ASSUME NEW es, NEW S, Len(es) \in Nat
  PROVE  \E f : Loop(f, es, S, Len(es)) /\ Taken(es, S) = f[Len(es)]
PROOF
<1> DEFINE f == CHOOSE f : Loop(f, es, S, Len(es))
<1>1. Loop(f, es, S, Len(es))
  BY LoopExists
<1>2. Taken(es, S) = f[Len(es)]
  BY Zenon DEF Taken, Loop
<1> QED
  BY <1>1, <1>2

\* s has the elements of es at the positions in S, in their order: those before
\* an element of s are before it in s, too.
InOrder(s, es, S) ==
  /\ \A i \in S : \E k \in 1 .. Len(s) : s[k] = es[i]
  /\ \A k \in 1 .. Len(s) : \E i \in S :
       /\ s[k] = es[i]
       /\ \A j \in S : j < i => \E m \in 1 .. k - 1 : s[m] = es[j]

\* One more turn of the loop.
LEMMA OneTaken ==
  ASSUME NEW E, NEW es \in Seq(E), NEW s \in Seq(E), NEW n \in 1 .. Len(es),
         NEW S \in SUBSET (1 .. n - 1), InOrder(s, es, S)
  PROVE  InOrder(Append(s, es[n]), es, S \cup {n})
PROOF
<1>1. PICK t : t = Append(s, es[n])
  OBVIOUS
<1>2. /\ t \in Seq(E) /\ Len(t) = Len(s) + 1 /\ t[Len(s) + 1] = es[n] /\ Len(s) \in Nat
      /\ \A k \in 1 .. Len(s) : t[k] = s[k]
  BY <1>1, AppendProperties
<1>3. ASSUME NEW i \in S \cup {n} PROVE \E k \in 1 .. Len(t) : t[k] = es[i]
  <2>1. CASE i = n
    BY <1>2, <2>1
  <2>2. CASE i \in S
    <3>1. PICK k \in 1 .. Len(s) : s[k] = es[i]
      BY <2>2 DEF InOrder
    <3> QED
      BY <1>2, <3>1
  <2> QED
    BY <2>1, <2>2
<1>4. ASSUME NEW k \in 1 .. Len(t)
      PROVE  \E i \in S \cup {n} :
               /\ t[k] = es[i]
               /\ \A j \in S \cup {n} : j < i => \E m \in 1 .. k - 1 : t[m] = es[j]
  <2>1. CASE k = Len(s) + 1
    <3>1. t[k] = es[n]
      BY <1>2, <2>1
    <3>2. ASSUME NEW j \in S \cup {n}, j < n
          PROVE  \E m \in 1 .. k - 1 : t[m] = es[j]
      <4>1. j \in S
        BY <3>2
      <4>2. PICK m \in 1 .. Len(s) : s[m] = es[j]
        BY <4>1 DEF InOrder
      <4> QED
        BY <1>2, <2>1, <4>2
    <3> QED
      BY <3>1, <3>2
  <2>2. CASE k \in 1 .. Len(s)
    <3>1. PICK i \in S : /\ s[k] = es[i]
                         /\ \A j \in S : j < i => \E m \in 1 .. k - 1 : s[m] = es[j]
      BY <2>2 DEF InOrder
    <3>2. t[k] = es[i] /\ i < n
      BY <1>2, <2>2, <3>1
    <3>3. ASSUME NEW j \in S \cup {n}, j < i
          PROVE  \E m \in 1 .. k - 1 : t[m] = es[j]
      <4>1. j \in S
        BY <3>2, <3>3
      <4>2. PICK m \in 1 .. k - 1 : s[m] = es[j]
        BY <3>1, <3>3, <4>1
      <4>3. m \in 1 .. Len(s)
        BY <1>2, <2>2, <4>2
      <4> QED
        BY <1>2, <4>2, <4>3
    <3> QED
      BY <3>2, <3>3
  <2>3. k = Len(s) + 1 \/ k \in 1 .. Len(s)
    BY <1>2
  <2> QED
    BY <2>1, <2>2, <2>3
<1>5. InOrder(t, es, S \cup {n})
  BY <1>3, <1>4 DEF InOrder
<1> QED
  BY <1>1, <1>5

\* By the least turn after which it would not be so, too.
LEMMA TakenInOrder ==
  ASSUME NEW E, NEW es \in Seq(E), NEW S \in SUBSET DOMAIN es
  PROVE  Taken(es, S) \in Seq(E) /\ InOrder(Taken(es, S), es, S)
PROOF
<1>1. Len(es) \in Nat /\ S \subseteq 1 .. Len(es)
  OBVIOUS
<1>2. PICK f : Loop(f, es, S, Len(es)) /\ Taken(es, S) = f[Len(es)]
  BY <1>1, TakenByLoop
<1>3. PICK N : N = Len(es)
  OBVIOUS
<1>4. \A i \in 0 .. N : f[i] = IF i = 0 THEN << >>
                               ELSE IF i \in S THEN Append(f[i - 1], es[i])
                               ELSE f[i - 1]
  BY <1>2, <1>3 DEF Loop
<1> DEFINE Before(n) == S \cap (1 .. n)
           Failing == {n \in 0 .. N : ~(f[n] \in Seq(E) /\ InOrder(f[n], es, Before(n)))}
<1>5. /\ Failing \subseteq 0 .. N
      /\ \A n \in 0 .. N : n \in Failing <=> ~(f[n] \in Seq(E) /\ InOrder(f[n], es, Before(n)))
  OBVIOUS
<1> HIDE DEF Failing
<1>6. ASSUME Failing # {} PROVE FALSE
  <2>1. Failing \subseteq Nat
    BY <1>1, <1>3, <1>5
  <2>2. PICK m \in Failing : \A n \in Failing : m <= n
    BY <1>6, <2>1, LeastNumber
  <2>3. CASE m = 0
    <3>1. f[0] = << >> /\ Before(0) = {}
      BY <1>1, <1>3, <1>4
    <3>2. << >> \in Seq(E) /\ InOrder(<< >>, es, {})
      BY DEF InOrder
    <3> QED
      BY <1>1, <1>3, <1>5, <2>2, <2>3, <3>1, <3>2
  <2>4. CASE m # 0
    <3>1. m \in 1 .. N /\ m - 1 \in 0 .. N /\ m - 1 \notin Failing
      BY <1>1, <1>3, <1>5, <2>2, <2>4
    <3>2. f[m - 1] \in Seq(E) /\ InOrder(f[m - 1], es, Before(m - 1))
      BY <3>1, <1>5
    <3>3. CASE m \in S
      <4>1. f[m] = Append(f[m - 1], es[m])
        <5>1. m \in 0 .. N /\ m # 0
          BY <1>1, <1>3, <3>1
        <5> QED
          BY <1>4, <3>3, <5>1, Zenon
      <4>2. Before(m) = Before(m - 1) \cup {m} /\ Before(m - 1) \in SUBSET (1 .. m - 1)
        BY <1>1, <1>3, <3>1, <3>3
      <4>3. es[m] \in E /\ m \in 1 .. Len(es)
        BY <1>3, <3>1
      <4> HIDE DEF Before
      <4>4. InOrder(Append(f[m - 1], es[m]), es, Before(m - 1) \cup {m})
        BY <3>2, <4>2, <4>3, OneTaken
      <4>5. f[m] \in Seq(E)
        BY <3>2, <4>1, <4>3, AppendProperties
      <4> QED
        BY <1>5, <2>2, <3>1, <4>1, <4>2, <4>4, <4>5
    <3>4. CASE m \notin S
      <4>1. f[m] = f[m - 1]
        BY <1>4, <3>1, <3>4
      <4>2. Before(m) = Before(m - 1)
        BY <1>1, <1>3, <3>1, <3>4
      <4> QED
        BY <1>5, <2>2, <3>1, <3>2, <4>1, <4>2
    <3> QED
      BY <3>3, <3>4
  <2> QED
    BY <2>3, <2>4
<1>7. f[N] \in Seq(E) /\ InOrder(f[N], es, Before(N))
  <2>1. N \in 0 .. N /\ N \notin Failing
    BY <1>1, <1>3, <1>6
  <2> HIDE DEF Before
  <2> QED
    BY <1>5, <2>1
<1>8. Before(N) = S
  BY <1>1, <1>3
<1> QED
  BY <1>2, <1>3, <1>7, <1>8

\* A sequence behind another.
LEMMA Behind ==
  ASSUME NEW S, NEW s \in Seq(S), NEW t \in Seq(S)
  PROVE  /\ s \o t \in Seq(S) /\ Len(s \o t) = Len(s) + Len(t)
         /\ \A k \in 1 .. Len(s) : (s \o t)[k] = s[k]
         /\ \A k \in 1 .. Len(t) : (s \o t)[Len(s) + k] = t[k]
PROOF
<1>1. PICK u : u = s \o t
  OBVIOUS
<1>2. /\ u \in Seq(S) /\ Len(u) = Len(s) + Len(t) /\ Len(s) \in Nat /\ Len(t) \in Nat
      /\ \A k \in 1 .. Len(s) + Len(t) : u[k] = IF k <= Len(s) THEN s[k] ELSE t[k - Len(s)]
  BY <1>1, ConcatProperties
<1>3. ASSUME NEW k \in 1 .. Len(s) PROVE u[k] = s[k]
  <2>1. k \in 1 .. Len(s) + Len(t) /\ k <= Len(s)
    BY <1>2
  <2> QED
    BY <1>2, <2>1
<1>4. ASSUME NEW k \in 1 .. Len(t) PROVE u[Len(s) + k] = t[k]
  <2>1. Len(s) + k \in 1 .. Len(s) + Len(t) /\ ~(Len(s) + k <= Len(s)) /\ Len(s) + k - Len(s) = k
    BY <1>2
  <2> QED
    BY <1>2, <2>1
<1> QED
  BY <1>1, <1>2, <1>3, <1>4

\* The places where id is left, and those where it is reached.
Splits(es, id, O, I) ==
  /\ O \subseteq DOMAIN es /\ I \subseteq DOMAIN es
  /\ \A i \in DOMAIN es : (i \in O <=> es[i].from = id) /\ (i \in I <=> es[i].to = id)

\* u is s, and t behind it.
Joins(u, s, t) ==
  /\ Len(u) = Len(s) + Len(t)
  /\ \A k \in 1 .. Len(s) : u[k] = s[k]
  /\ \A k \in 1 .. Len(t) : u[Len(s) + k] = t[k]

\* u has the edges of es at S, and of those with one pair of ends the first first.
FirstFirst(u, es, S) ==
  /\ \A k \in 1 .. Len(u) : \E i \in S : u[k] = es[i]
  /\ \A i \in S : \E k \in 1 .. Len(u) : u[k] = es[i]
  /\ \A k \in 1 .. Len(u) :
       (\A m \in 1 .. k - 1 : Ends(u[m]) # Ends(u[k]))
         => \E i \in S :
              /\ es[i] = u[k]
              /\ \A j \in S : Ends(es[j]) = Ends(u[k]) => i <= j

\* The edges by which id is left, then those by which it is reached.
LEMMA BothWays ==
  ASSUME NEW es \in Seq(GraphEdge), NEW id, NEW O, NEW I, Splits(es, id, O, I),
         NEW s \in Seq(GraphEdge), InOrder(s, es, O), NEW t \in Seq(GraphEdge), InOrder(t, es, I),
         NEW u \in Seq(GraphEdge), Joins(u, s, t)
  PROVE  FirstFirst(u, es, O \cup I)
PROOF
<1>1. Len(s) \in Nat /\ Len(t) \in Nat /\ Len(u) = Len(s) + Len(t)
  BY DEF Joins
<1>2. \A k \in 1 .. Len(s) : k \in 1 .. Len(u) /\ u[k] = s[k]
  BY <1>1 DEF Joins
<1>3. \A k \in 1 .. Len(t) : Len(s) + k \in 1 .. Len(u) /\ u[Len(s) + k] = t[k]
  BY <1>1 DEF Joins
<1>4. \A k \in 1 .. Len(u) : k \in 1 .. Len(s) \/ \E l \in 1 .. Len(t) : k = Len(s) + l
  <2>1. ASSUME NEW k \in 1 .. Len(u), k \notin 1 .. Len(s)
        PROVE  k - Len(s) \in 1 .. Len(t) /\ k = Len(s) + (k - Len(s))
    BY <1>1, <2>1
  <2> QED
    BY <2>1
<1>5. \A i \in O \cup I : i \in DOMAIN es /\ i \in Nat
  BY DEF Splits
<1>6. \A i \in DOMAIN es : (i \in O <=> es[i].from = id) /\ (i \in I <=> es[i].to = id)
  BY DEF Splits
<1>7. ASSUME NEW k \in 1 .. Len(u), \A m \in 1 .. k - 1 : Ends(u[m]) # Ends(u[k])
       PROVE  \E i \in O \cup I :
                /\ es[i] = u[k]
                /\ \A j \in O \cup I : Ends(es[j]) = Ends(u[k]) => i <= j
  <2>1. CASE k \in 1 .. Len(s)
    <3>1. PICK i \in O : /\ s[k] = es[i]
                         /\ \A j \in O : j < i => \E m \in 1 .. k - 1 : s[m] = es[j]
      BY <2>1 DEF InOrder
    <3>2. ASSUME NEW j \in O \cup I, Ends(es[j]) = Ends(u[k]), j < i
          PROVE  FALSE
      <4>1. es[j].from = es[i].from /\ es[i].from = id
        BY <1>2, <1>5, <1>6, <2>1, <3>1, <3>2 DEF Ends
      <4>2. j \in O
        BY <1>5, <1>6, <4>1
      <4>3. PICK m \in 1 .. k - 1 : s[m] = es[j]
        BY <3>1, <3>2, <4>2
      <4>4. m \in 1 .. Len(s)
        BY <1>1, <2>1, <4>3
      <4>5. u[m] = es[j]
        BY <1>2, <4>3, <4>4
      <4> QED
        BY <1>7, <3>2, <4>3, <4>5
    <3> QED
      BY <1>2, <1>5, <2>1, <3>1, <3>2
  <2>2. ASSUME NEW l \in 1 .. Len(t), k = Len(s) + l
        PROVE  \E i \in O \cup I :
                 /\ es[i] = u[k]
                 /\ \A j \in O \cup I : Ends(es[j]) = Ends(u[k]) => i <= j
    <3>1. PICK i \in I : /\ t[l] = es[i]
                         /\ \A j \in I : j < i => \E m \in 1 .. l - 1 : t[m] = es[j]
      BY <2>2 DEF InOrder
    <3>2. u[k] = es[i] /\ es[i].to = id
      BY <1>3, <1>5, <1>6, <2>2, <3>1
    <3>3. ASSUME NEW j \in O \cup I, Ends(es[j]) = Ends(u[k]), j < i
          PROVE  FALSE
      <4>1. es[j].to = id
        BY <3>2, <3>3 DEF Ends
      <4>2. j \in I
        BY <1>5, <1>6, <4>1
      <4>3. PICK m \in 1 .. l - 1 : t[m] = es[j]
        BY <3>1, <3>3, <4>2
      <4>4. m \in 1 .. Len(t) /\ Len(s) + m \in 1 .. k - 1
        BY <1>1, <2>2, <4>3
      <4>5. u[Len(s) + m] = es[j]
        BY <1>3, <4>3, <4>4
      <4> QED
        BY <1>7, <3>3, <4>4, <4>5
    <3> QED
      BY <1>5, <3>1, <3>2, <3>3
  <2> QED
    BY <1>4, <2>1, <2>2
<1>8. ASSUME NEW k \in 1 .. Len(u) PROVE \E i \in O \cup I : u[k] = es[i]
  <2>1. CASE k \in 1 .. Len(s)
    BY <1>2, <2>1 DEF InOrder
  <2>2. ASSUME NEW l \in 1 .. Len(t), k = Len(s) + l
        PROVE  \E i \in O \cup I : u[k] = es[i]
    <3>1. PICK i \in I : t[l] = es[i]
      BY DEF InOrder
    <3> QED
      BY <1>3, <2>2, <3>1
  <2> QED
    BY <1>4, <2>1, <2>2
<1>9. ASSUME NEW i \in O \cup I PROVE \E k \in 1 .. Len(u) : u[k] = es[i]
  <2>1. CASE i \in O
    <3>1. PICK k \in 1 .. Len(s) : s[k] = es[i]
      BY <2>1 DEF InOrder
    <3> QED
      BY <1>2, <3>1
  <2>2. CASE i \in I
    <3>1. PICK k \in 1 .. Len(t) : t[k] = es[i]
      BY <2>2 DEF InOrder
    <3> QED
      BY <1>3, <3>1
  <2> QED
    BY <2>1, <2>2
<1> QED
  BY <1>7, <1>8, <1>9 DEF FirstFirst

\* Of the edges from one node to another, the first is in SeenOnce.
LEMMA Seen ==
  ASSUME NEW u \in Seq(GraphEdge)
  PROVE  /\ \A e \in SeenOnce(u) : \E k \in 1 .. Len(u) :
              e = u[k] /\ \A m \in 1 .. k - 1 : Ends(u[m]) # Ends(u[k])
         /\ \A k \in 1 .. Len(u) : \E e \in SeenOnce(u) : Ends(e) = Ends(u[k])
PROOF
<1>1. ASSUME NEW k \in 1 .. Len(u)
      PROVE  \E e \in SeenOnce(u) : Ends(e) = Ends(u[k])
  <2> DEFINE Same == {m \in 1 .. Len(u) : Ends(u[m]) = Ends(u[k])}
  <2>1. Same \subseteq Nat /\ k \in Same
    OBVIOUS
  <2>2. PICK m \in Same : \A l \in Same : m <= l
    BY <2>1, LeastNumber
  <2>3. \A l \in 1 .. m - 1 : Ends(u[l]) # Ends(u[m])
    BY <2>2
  <2>4. u[m] \in SeenOnce(u)
    BY <2>2, <2>3 DEF SeenOnce, Ends
  <2> QED
    BY <2>2, <2>4
<1>2. \A e \in SeenOnce(u) : \E k \in 1 .. Len(u) :
        e = u[k] /\ \A m \in 1 .. k - 1 : Ends(u[m]) # Ends(u[k])
  BY DEF SeenOnce, Ends
<1> QED
  BY <1>1, <1>2

\* The slice of a node is its neighborhood, for any ServiceGraph: self-loops,
\* parallel and dangling edges and nodes listed twice included.
LEMMA Neighborhoods ==
  ASSUME NEW sg \in ServiceGraphs, NEW id \in Id, NEW g0
  PROVE  IsNeighborhood(GetSubgraphForService(LoadFromServiceGraph(g0, sg), id), sg, id)
PROOF
<1>1. PICK es : es = sg.edges
  OBVIOUS
<1>2. es \in Seq(GraphEdge)
  BY <1>1, ServiceGraphAssumption DEF ServiceGraphAssumption
<1>3. PICK O : O = {i \in DOMAIN es : es[i].from = id}
  OBVIOUS
<1>4. PICK I : I = {i \in DOMAIN es : es[i].to = id}
  OBVIOUS
<1>5. Splits(es, id, O, I) /\ O \in SUBSET DOMAIN es /\ I \in SUBSET DOMAIN es
  BY <1>3, <1>4 DEF Splits
<1>6. PICK s : s = Taken(es, O)
  OBVIOUS
<1>7. PICK t : t = Taken(es, I)
  OBVIOUS
<1>8. s \in Seq(GraphEdge) /\ InOrder(s, es, O) /\ t \in Seq(GraphEdge) /\ InOrder(t, es, I)
  BY <1>2, <1>5, <1>6, <1>7, TakenInOrder
<1>9. PICK u : u = s \o t
  OBVIOUS
<1>10. u \in Seq(GraphEdge) /\ Joins(u, s, t)
  BY <1>8, <1>9, Behind DEF Joins
<1>11. FirstFirst(u, es, O \cup I)
  BY <1>2, <1>5, <1>8, <1>10, BothWays
<1>12. Touching(sg, id) = O \cup I
  BY <1>1, <1>5 DEF Touching, Splits
<1>13. PICK g : g = LoadFromServiceGraph(g0, sg)
  OBVIOUS
<1>14. DOMAIN g.nodes = Declared(sg) /\ g.edges[id] = s /\ g.rev[id] = t
  BY <1>1, <1>3, <1>4, <1>6, <1>7, <1>13 DEF LoadFromServiceGraph, NodesOf, EdgesFrom, EdgesTo
<1>15. CASE id \notin Declared(sg)
  BY <1>13, <1>14, <1>15 DEF GetSubgraphForService, IsNeighborhood
<1>16. CASE id \in Declared(sg)
  <2>1. PICK c : c = GetSubgraphForService(g, id)
    OBVIOUS
  <2>2. /\ c.service = {id} /\ c.neighbors = Neighbors(g, id) \cap Declared(sg)
        /\ c.edges = SeenOnce(u)
    BY <1>9, <1>14, <1>16, <2>1 DEF GetSubgraphForService
  <2>3. ASSUME NEW n \in Declared(sg)
        PROVE  n \in Neighbors(g, id)
                 <=> \E i \in O \cup I : Ends(es[i]) \in {<< id, n >>, << n, id >>}
    <3>1. n \in Neighbors(g, id) <=> \/ \E k \in 1 .. Len(s) : s[k].to = n
                                     \/ \E k \in 1 .. Len(t) : t[k].from = n
      BY <1>8, <1>14 DEF Neighbors
    <3>2. (\E k \in 1 .. Len(s) : s[k].to = n) <=> \E i \in O : es[i].to = n
      <4>1. /\ \A i \in O : \E k \in 1 .. Len(s) : s[k] = es[i]
            /\ \A k \in 1 .. Len(s) : \E i \in O : s[k] = es[i]
        BY <1>8 DEF InOrder
      <4> QED
        BY <4>1
    <3>3. (\E k \in 1 .. Len(t) : t[k].from = n) <=> \E i \in I : es[i].from = n
      <4>1. /\ \A i \in I : \E k \in 1 .. Len(t) : t[k] = es[i]
            /\ \A k \in 1 .. Len(t) : \E i \in I : t[k] = es[i]
        BY <1>8 DEF InOrder
      <4> QED
        BY <4>1
    <3>4. \A i \in O : es[i].to = n <=> Ends(es[i]) = << id, n >>
      BY <1>5 DEF Ends, Splits
    <3>5. \A i \in I : es[i].from = n <=> Ends(es[i]) = << n, id >>
      BY <1>5 DEF Ends, Splits
    <3>6. \A i \in O \cup I : /\ Ends(es[i]) = << id, n >> => i \in O
                              /\ Ends(es[i]) = << n, id >> => i \in I
      BY <1>5 DEF Ends, Splits
    <3> QED
      BY <3>1, <3>2, <3>3, <3>4, <3>5, <3>6
  <2>4. c.neighbors = {n \in Declared(sg) : \E i \in Touching(sg, id) :
                         Ends(sg.edges[i]) \in {<< id, n >>, << n, id >>}}
    BY <1>1, <1>12, <2>2, <2>3
  <2>5. \A e \in c.edges : \E i \in O \cup I :
          es[i] = e /\ \A j \in O \cup I : Ends(es[j]) = Ends(e) => i <= j
    <3>1. ASSUME NEW e \in c.edges
          PROVE  \E i \in O \cup I :
                   es[i] = e /\ \A j \in O \cup I : Ends(es[j]) = Ends(e) => i <= j
      <4>1. PICK k \in 1 .. Len(u) : e = u[k] /\ \A m \in 1 .. k - 1 : Ends(u[m]) # Ends(u[k])
        BY <1>10, <2>2, Seen
      <4> QED
        BY <1>11, <4>1 DEF FirstFirst
    <3> QED
      BY <3>1
  <2>6. {Ends(e) : e \in c.edges} = {Ends(es[i]) : i \in O \cup I}
    <3>1. \A e \in c.edges : \E i \in O \cup I : Ends(e) = Ends(es[i])
      BY <2>5
    <3>2. \A i \in O \cup I : \E e \in c.edges : Ends(e) = Ends(es[i])
      BY <1>10, <1>11, <2>2, Seen DEF FirstFirst
    <3> QED
      BY <3>1, <3>2
  <2> QED
    BY <1>1, <1>12, <1>13, <1>16, <2>1, <2>2, <2>4, <2>5, <2>6 DEF IsNeighborhood
<1> QED
  BY <1>15, <1>16

\* A service is named by what follows "svc:", which has no colon.
ServicesHaveNames == \A id \in Id : Head(id) = "svc" => \E x : id = << "svc", x >>

\* It is found under its identifier and under its bare name.
LEMMA Names ==
  ASSUME ServicesHaveNames, NEW id \in Id, Head(id) = "svc"
  PROVE  ServiceID(id) = id /\ ServiceID(Tail(id)) = id
PROOF
<1>1. PICK x : id = << "svc", x >>
  BY DEF ServicesHaveNames
<1>2. Len(id) = 2
  BY <1>1
<1>3. Tail(id) = << x >>
  BY <1>1
<1>4. Len(Tail(id)) = 1
  <2>1. Len(<< x >>) = 1
    OBVIOUS
  <2> QED
    BY <1>3, <2>1, Zenon
<1>5. << "svc" >> \o << x >> = << "svc", x >>
  <2> DEFINE S == {"svc", x}
  <2>1. PICK p : p = << "svc" >>
    OBVIOUS
  <2>2. PICK q : q = << x >>
    OBVIOUS
  <2>3. PICK r : r = << "svc", x >>
    OBVIOUS
  <2>4. p \in Seq(S) /\ Len(p) = 1 /\ p[1] = "svc"
    BY <2>1
  <2>5. q \in Seq(S) /\ Len(q) = 1 /\ q[1] = x
    BY <2>2
  <2>6. r \in Seq(S) /\ Len(r) = 2 /\ r[1] = "svc" /\ r[2] = x
    BY <2>3
  <2> HIDE DEF S
  <2>7. /\ p \o q \in Seq(S) /\ Len(p \o q) = 2
        /\ (p \o q)[1] = "svc" /\ (p \o q)[2] = x
    <3>1. /\ p \o q \in Seq(S) /\ Len(p \o q) = Len(p) + Len(q)
          /\ \A k \in 1 .. Len(p) : (p \o q)[k] = p[k]
          /\ \A k \in 1 .. Len(q) : (p \o q)[Len(p) + k] = q[k]
      BY <2>4, <2>5, Behind
    <3>2. 1 \in 1 .. Len(p) /\ 1 \in 1 .. Len(q) /\ Len(p) + 1 = 2
      BY <2>4, <2>5
    <3> QED
      BY <2>4, <2>5, <3>1, <3>2
  <2>8. p \o q = r
    <3>1. PICK t : t = p \o q
      OBVIOUS
    <3>2. t \in Seq(S) /\ Len(t) = 2 /\ t[1] = "svc" /\ t[2] = x
      BY <2>7, <3>1, Zenon
    <3>3. t = r
      BY <2>6, <3>2, SeqEqual
    <3> QED
      BY <3>1, <3>3, Zenon
  <2> QED
    BY <2>1, <2>2, <2>3, <2>8
<1> QED
  BY <1>1, <1>2, <1>3, <1>4, <1>5 DEF ServiceID

\* So are the slices of all nodes of a graph that was loaded.
LEMMA LoadedSlices ==
  ASSUME ServicesHaveNames, NEW sg \in ServiceGraphs, NEW g0
  PROVE  SlicesAreNeighborhoods(LoadFromServiceGraph(g0, sg), sg)
PROOF
<1>1. ASSUME NEW id \in Id, Head(id) = "svc", NEW name \in {id, Tail(id)}, NEW g
      PROVE  SubgraphForService(g, name) = GetSubgraphForService(g, id)
  BY <1>1, Names DEF SubgraphForService
<1> QED
  BY <1>1, Neighborhoods DEF SlicesAreNeighborhoods

-----------------------------------------------------------------------------
\* Every variable keeps its type, and what is shown is a version that converts.
THEOREM Typing == Spec => []TypeOK
PROOF
<1>1. IInv => TypeOK
  BY DEF IInv
<1> QED
  BY <1>1, InitInv, NextStep, PTL DEF Spec

\* However often and in whatever order the first load, lists, watches and handlers
\* replace the graph, it is that of one version of one object, whole, or empty.
THEOREM OneVersion == Spec => []GraphIsOneVersion
PROOF
<1>1. IInv => GraphIsOneVersion
  BY DEF IInv
<1> QED
  BY <1>1, InitInv, NextStep, PTL DEF Spec

\* Once the informer has spoken, no event and no list brings an older version of
\* the object back that is shown, however often the watch breaks.
THEOREM NeverGoesBack == Spec => NeverBack
PROOF
<1>1. IInv /\ [Next]_vars => [Forward]_vars
  BY NextStep
<1> QED
  BY <1>1, InitInv, NextStep, PTL DEF Spec, NeverBack, Forward

\* The slice cut out around a node is its neighborhood in the ServiceGraph that is
\* shown, whatever the graph: the two indexes and the two rounds of removing
\* duplicates lose no neighbor and keep the first edge of each pair.
THEOREM Slices == ASSUME ServicesHaveNames PROVE Spec => []SliceIsNeighborhood
PROOF
<1>1. ASSUME IInv PROVE SliceIsNeighborhood
  <2>1. ASSUME shown # 0
        PROVE  SlicesAreNeighborhoods(graph, log[shown].content)
    <3>1. log[shown].content \in ServiceGraphs
      BY <1>1, <2>1, TopologyAssumption DEF IInv, TypeOK, TopologyAssumption
    <3>2. graph = LoadFromServiceGraph(NewInMemoryGraph, log[shown].content)
      BY <1>1, <2>1 DEF IInv, GraphIsOneVersion
    <3> QED
      BY <3>1, <3>2, LoadedSlices
  <2>2. \A sg \in ServiceGraphs : SlicesAreNeighborhoods(LoadFromServiceGraph(graph, sg), sg)
    BY LoadedSlices
  <2> QED
    BY <2>1, <2>2 DEF SliceIsNeighborhood
<1> QED
  BY <1>1, InitInv, NextStep, PTL DEF Spec
=============================================================================
