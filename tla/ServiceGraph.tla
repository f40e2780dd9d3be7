----------------------------- MODULE ServiceGraph -----------------------------
(***************************************************************************)
(* topology.InMemoryGraph: what it keeps of a ServiceGraph and the slice   *)
(* it cuts out around a service.  Labels, metadata and weights are left    *)
(* out: nothing here reads them.                                           *)
(*                                                                         *)
(* An identifier is the sequence of the parts its colons separate:         *)
(* "svc:api" is << "svc", "api" >>.                                        *)
(***************************************************************************)
EXTENDS Sequences, Naturals

CONSTANTS Id,             \* identifiers of nodes
          ServiceGraphs   \* the contents of ServiceGraph objects

NodeType == {"service", "database", "queue", "cache", "external"}
EdgeType == {"depends_on", "calls", "publishes_to", "subscribes_to"}

GraphNode == [id : Id, type : NodeType]
GraphEdge == [from : Id, to : Id, type : EdgeType]

ASSUME ServiceGraphAssumption ==
  ServiceGraphs \subseteq [nodes : Seq(GraphNode), edges : Seq(GraphEdge)]

Declared(sg) == {sg.nodes[i].id : i \in DOMAIN sg.nodes}

\* Of two nodes with one identifier the last stays.
TypeOf(sg, id) ==
  LET i == CHOOSE i \in DOMAIN sg.nodes :
             /\ sg.nodes[i].id = id
             /\ \A j \in DOMAIN sg.nodes : sg.nodes[j].id = id => j <= i
  IN  sg.nodes[i].type

NewInMemoryGraph ==
  [nodes |-> << >>, edges |-> [id \in Id |-> << >>], rev |-> [id \in Id |-> << >>]]

NodesOf(sg) == [id \in Declared(sg) |-> TypeOf(sg, id)]

\* The elements of es at the positions in S: a loop that appends them one by one.
Taken(es, S) ==
  LET first[n \in 0 .. Len(es)] ==
        IF n = 0 THEN << >>
        ELSE IF n \in S THEN Append(first[n - 1], es[n])
        ELSE first[n - 1]
  IN  first[Len(es)]

EdgesFrom(sg, id) == Taken(sg.edges, {i \in DOMAIN sg.edges : sg.edges[i].from = id})
EdgesTo(sg, id) == Taken(sg.edges, {i \in DOMAIN sg.edges : sg.edges[i].to = id})

\* Mutants: the edges of the previous graph stay; the reverse index is built on
\* the wrong end.
LoadFromServiceGraphKeepsEdges(g, sg) ==
  [nodes |-> NodesOf(sg),
   edges |-> [id \in Id |-> g.edges[id] \o EdgesFrom(sg, id)],
   rev   |-> [id \in Id |-> g.rev[id] \o EdgesTo(sg, id)]]

LoadFromServiceGraphRevOfFrom(g, sg) ==
  [nodes |-> NodesOf(sg),
   edges |-> [id \in Id |-> EdgesFrom(sg, id)],
   rev   |-> [id \in Id |-> EdgesFrom(sg, id)]]

\* The graph g is cleared, then loaded.
LoadFromServiceGraph(g, sg) ==
  [nodes |-> NodesOf(sg),
   edges |-> [id \in Id |-> EdgesFrom(sg, id)],
   rev   |-> [id \in Id |-> EdgesTo(sg, id)]]

-----------------------------------------------------------------------------
\* Those at the other ends, declared or not.
Neighbors(g, id) ==
  {g.edges[id][i].to : i \in DOMAIN g.edges[id]} \cup
  {g.rev[id][i].from : i \in DOMAIN g.rev[id]}

\* Outgoing edges first; of the edges from one node to another only the first.
SeenOnce(es) ==
  {es[i] : i \in {i \in DOMAIN es : \A j \in 1 .. i - 1 :
                    << es[j].from, es[j].to >> # << es[i].from, es[i].to >>}}

EmptySlice == [service |-> {}, neighbors |-> {}, edges |-> {}]

\* The nodes of the slice are the service and then its neighbors, in any order:
\* a service that calls itself is in it twice.
GetSubgraphForService(g, id) ==
  IF id \notin DOMAIN g.nodes THEN EmptySlice
  ELSE [service   |-> {id},
        neighbors |-> Neighbors(g, id) \cap DOMAIN g.nodes,
        edges     |-> SeenOnce(g.edges[id] \o g.rev[id])]

\* Client.SubgraphForService: the identifier of a service, given with "svc:" or
\* without.
ServiceID(service) ==
  IF Len(service) > 1 /\ Head(service) = "svc" THEN service
  ELSE << "svc" >> \o service

SubgraphForService(g, service) == GetSubgraphForService(g, ServiceID(service))

-----------------------------------------------------------------------------
(* What a slice promises, in terms of the ServiceGraph alone: "the service itself
   + all 1-hop neighbors" (memory_graph.go:61).  Two services that meet in a queue
   or a database are two hops apart, and not in each other's slices. *)

Touching(sg, id) == {i \in DOMAIN sg.edges : id \in {sg.edges[i].from, sg.edges[i].to}}
Ends(e) == << e.from, e.to >>

IsNeighborhood(slice, sg, id) ==
  IF id \notin Declared(sg) THEN slice = EmptySlice
  ELSE
    /\ slice.service = {id}
    /\ slice.neighbors =
         {n \in Declared(sg) : \E i \in Touching(sg, id) :
            Ends(sg.edges[i]) \in {<< id, n >>, << n, id >>}}
    \* One edge for each pair of ends, of the type that is listed first.
    /\ {Ends(e) : e \in slice.edges} = {Ends(sg.edges[i]) : i \in Touching(sg, id)}
    /\ \A e \in slice.edges :
         \E i \in Touching(sg, id) :
           /\ sg.edges[i] = e
           /\ \A j \in Touching(sg, id) : Ends(sg.edges[j]) = Ends(e) => i <= j
=============================================================================
