------------------------------- MODULE Topology -------------------------------
(***************************************************************************)
(* topology.Client: it reads the ServiceGraph "default" once, and then an  *)
(* informer tells it of every ServiceGraph of the namespace; any of them   *)
(* replaces the graph and the deletion of any empties it.                  *)
(*                                                                         *)
(* The cluster is a log of changes, a version being a place in it.  The    *)
(* informer is client-go's: a list, as old as the cache that answers it,   *)
(* then a watch from there; when the watch breaks, a list that is not      *)
(* older than what it has seen.  A deletion it did not see becomes a       *)
(* tombstone.  The events of one object stay in order; between objects     *)
(* they need not.                                                          *)
(***************************************************************************)
EXTENDS ServiceGraph

CONSTANTS Name,         \* of ServiceGraph objects
          Default,      \* "default"
          Absent,       \* in place of a content: the object is deleted
          Malformed,    \* a content that is no ServiceGraph
          Contents,     \* what objects are changed to
          MaxChanges,   \* bound on the changes in the cluster
          MaxBreaks     \* bound on broken watches

ASSUME TopologyAssumption ==
  /\ Default \in Name
  /\ Contents \subseteq ServiceGraphs \cup {Malformed}
  /\ Absent \notin ServiceGraphs \cup {Malformed} /\ Malformed \notin ServiceGraphs
  /\ MaxChanges \in Nat /\ MaxBreaks \in Nat

VARIABLES log,      \* the changes of the cluster
          stage,    \* where Initialize and the informer are
          seen,     \* up to where the informer knows the cluster
          events,   \* for each object, events on their way to the handlers
          graph,    \* the client's graph
          shown,    \* history: its version, 0 when it is empty,
          informed, \* whether a handler made it or one before,
          missed,   \* and whether a deletion passed unnoticed
          breaks    \* how many watches broke

vars == << log, stage, seen, events, graph, shown, informed, missed, breaks >>

\* The version of an object after the first k changes; 0 if there is none.
At(n, k) ==
  LET of == {i \in 1 .. k : log[i].name = n}
      last == CHOOSE i \in of : \A j \in of : j <= i
  IN  IF of = {} \/ log[last].content = Absent THEN 0 ELSE last

Init ==
  /\ log = << >>
  /\ stage = "off" /\ seen = 0
  /\ events = [n \in Name |-> << >>]
  /\ graph = NewInMemoryGraph
  /\ shown = 0 /\ informed = FALSE /\ missed = FALSE /\ breaks = 0

-----------------------------------------------------------------------------
\* Somebody creates, changes or deletes an object.
Change ==
  /\ Len(log) < MaxChanges
  /\ \E n \in Name, c \in Contents \cup {Absent} :
       /\ c = Absent => At(n, Len(log)) # 0
       /\ log' = Append(log, [name |-> n, content |-> c])
  /\ UNCHANGED << stage, seen, events, graph, shown, informed, missed, breaks >>

\* A content that does not convert is an error that is logged, and the graph
\* stays.  Mutant: the error is not looked at.
Readable(i) == log[i].content # Malformed

updateGraphUnchecked(i) ==
  /\ graph' = IF Readable(i) THEN LoadFromServiceGraph(graph, log[i].content)
              ELSE NewInMemoryGraph
  /\ shown' = i

updateGraph(i) ==
  IF Readable(i)
  THEN graph' = LoadFromServiceGraph(graph, log[i].content) /\ shown' = i
  ELSE UNCHANGED << graph, shown >>

\* Initialize outside of a cluster: main uses emptyGraph.
InitializeFails ==
  /\ stage = "off"
  /\ stage' = "local"
  /\ UNCHANGED << log, seen, events, graph, shown, informed, missed, breaks >>

\* Initialize: the first load may fail, and the watch starts all the same.
Initialize ==
  /\ stage = "off"
  /\ stage' = "list"
  /\ LET i == At(Default, Len(log))
     IN  (i # 0 /\ updateGraph(i)) \/ UNCHANGED << graph, shown >>
  /\ UNCHANGED << log, seen, events, informed, missed, breaks >>

-----------------------------------------------------------------------------
(* The informer. *)

Event(n, old, new) ==
  [kind |-> IF old = 0 THEN "add" ELSE IF new = 0 THEN "delete" ELSE "update",
   old |-> old, new |-> new]

\* What a list tells of an object, listed or missing.
Listed(n, old, new) ==
  IF new # 0 THEN << Event(n, old, new) >>
  ELSE IF old # 0 THEN << [kind |-> "tombstone", old |-> old, new |-> 0] >>
  ELSE << >>

List(k) ==
  /\ stage = "list"
  /\ stage' = "watch"
  /\ seen' = k
  /\ events' = [n \in Name |-> events[n] \o Listed(n, At(n, seen), At(n, k))]
  /\ missed' = \/ missed
               \/ \E n \in Name : At(n, seen) # 0 /\ At(n, k) = 0
               \* What the first load read is gone before the first list.
               \/ shown \in 1 .. k /\ ~informed /\ At(log[shown].name, k) = 0
  /\ UNCHANGED << log, graph, shown, informed, breaks >>

Watch ==
  /\ stage = "watch" /\ seen < Len(log)
  /\ seen' = seen + 1
  /\ LET n == log[seen'].name
     IN  events' = [events EXCEPT ![n] = Append(@, Event(n, At(n, seen), At(n, seen')))]
  /\ UNCHANGED << log, stage, graph, shown, informed, missed, breaks >>

WatchBreaks ==
  /\ stage = "watch" /\ breaks < MaxBreaks
  /\ stage' = "list"
  /\ breaks' = breaks + 1
  /\ UNCHANGED << log, seen, events, graph, shown, informed, missed >>

-----------------------------------------------------------------------------
(* The handlers. *)

\* Mutant: UpdateFunc loads its first argument.
OnUpdateOld(e) ==
  /\ e.kind \in {"add", "update"}
  /\ LET i == IF e.kind = "add" THEN e.new ELSE e.old
     IN  updateGraph(i) /\ informed' = (informed \/ Readable(i))

OnUpdate(e) ==
  /\ e.kind \in {"add", "update"}
  /\ updateGraph(e.new)
  /\ informed' = (informed \/ Readable(e.new))

OnDelete(e) ==
  /\ e.kind = "delete"
  /\ graph' = NewInMemoryGraph /\ shown' = 0
  /\ informed' = TRUE

\* It is not an object: nothing is done.
OnTombstone(e) == e.kind = "tombstone" /\ UNCHANGED << graph, shown, informed >>

\* Mutant: each handler runs in a goroutine of its own.
HandleAny(n) ==
  /\ \E i \in DOMAIN events[n] :
       /\ events' = [events EXCEPT ![n] = SubSeq(@, 1, i - 1) \o SubSeq(@, i + 1, Len(@))]
       /\ LET e == events[n][i] IN OnUpdate(e) \/ OnDelete(e) \/ OnTombstone(e)
  /\ UNCHANGED << log, stage, seen, missed, breaks >>

Handle(n) ==
  /\ events[n] # << >>
  /\ events' = [events EXCEPT ![n] = Tail(@)]
  /\ LET e == Head(events[n]) IN OnUpdate(e) \/ OnDelete(e) \/ OnTombstone(e)
  /\ UNCHANGED << log, stage, seen, missed, breaks >>

Informer ==
  \/ \E k \in seen .. Len(log) : List(k)
  \/ Watch
  \/ \E n \in Name : Handle(n)

Next == Change \/ InitializeFails \/ Initialize \/ Informer \/ WatchBreaks

\* The process gets through Initialize, and the informer goes on.
Fairness == WF_vars(InitializeFails \/ Initialize) /\ WF_vars(Informer)

Spec == Init /\ [][Next]_vars /\ Fairness

-----------------------------------------------------------------------------
\* Every variable has its type, and what is shown is a readable version.
TypeOK ==
  /\ log \in Seq([name : Name, content : Contents \cup {Absent}])
  /\ Len(log) <= MaxChanges
  /\ stage \in {"off", "local", "list", "watch"}
  /\ seen \in 0 .. Len(log)
  /\ \A n \in Name : \A i \in DOMAIN events[n] :
       LET e == events[n][i]
       IN  /\ e.kind \in {"add", "update", "delete", "tombstone"}
           /\ e.old \in 0 .. Len(log) /\ e.new \in 0 .. Len(log)
           /\ \A v \in {e.old, e.new} \ {0} : log[v].name = n
  /\ shown \in 0 .. Len(log)
  /\ shown # 0 => log[shown].content \in Contents \ {Malformed}
  /\ informed \in BOOLEAN /\ missed \in BOOLEAN /\ breaks \in 0 .. MaxBreaks

\* However often and in whatever order the graph is replaced, it is that of one
\* version of one object, whole.
GraphIsOneVersion ==
  graph = IF shown = 0 THEN NewInMemoryGraph
          ELSE LoadFromServiceGraph(NewInMemoryGraph, log[shown].content)

\* The slice of a node is its neighborhood in the version that is shown, one hop
\* wide, and, as long as there is none, in any content that might come: with
\* self-loops, parallel and dangling edges, nodes that are listed twice and
\* services that meet in a queue.
SlicesAreNeighborhoods(g, sg) ==
  \A id \in Id :
    /\ IsNeighborhood(GetSubgraphForService(g, id), sg, id)
    \* A service is found under its identifier and under its bare name.
    /\ Head(id) = "svc" =>
         \A name \in {id, Tail(id)} : SubgraphForService(g, name) = GetSubgraphForService(g, id)

SliceIsNeighborhood ==
  /\ shown # 0 => SlicesAreNeighborhoods(graph, log[shown].content)
  /\ log = << >> =>
       \A sg \in ServiceGraphs : SlicesAreNeighborhoods(LoadFromServiceGraph(graph, sg), sg)

\* Once the informer has spoken, the graph does not go back to an older version
\* of the same object, not even when the watch breaks.  (The first list may be
\* older than the first load.)
NeverBack ==
  [][(informed /\ shown # 0 /\ shown' # 0 /\ log[shown'].name = log[shown].name)
       => shown' >= shown]_vars

\* When only one object was ever there, its last version is readable, and no
\* deletion passed unnoticed, the graph is in the end that of the last version,
\* or empty after a deletion.
Last == At(Default, Len(log))
OnlyDefault == \A i \in DOMAIN log : log[i].name = Default

FollowsTheOnlyObject ==
  <>[]((/\ stage # "local" /\ OnlyDefault /\ ~missed
        /\ Last # 0 => Readable(Last)) => shown = Last)
=============================================================================
