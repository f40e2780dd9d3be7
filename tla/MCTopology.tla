------------------------------ MODULE MCTopology ------------------------------
(***************************************************************************)
(* Two objects that change between two contents and one that is no         *)
(* ServiceGraph.  Slices are cut from all contents of at most two nodes    *)
(* and two edges over three identifiers, too, and from two services that   *)
(* meet in a queue, which are two hops apart.                              *)
(***************************************************************************)
EXTENDS Topology

api == << "svc", "api" >>
hub == << "hub", "main" >>
pay == << "svc", "pay" >>
MCId == {api, hub, pay}

Node(id, type) == [id |-> id, type |-> type]
Edge(from, to, type) == [from |-> from, to |-> to, type |-> type]

Plain == [nodes |-> << Node(api, "service"), Node(hub, "database") >>,
          edges |-> << Edge(api, hub, "depends_on") >>]

\* A self-loop, a parallel edge, one back, one to a node that is not declared.
Tangled == [nodes |-> << Node(hub, "cache"), Node(api, "service"), Node(hub, "database") >>,
            edges |-> << Edge(api, hub, "calls"), Edge(api, api, "calls"),
                         Edge(hub, api, "publishes_to"), Edge(api, hub, "depends_on"),
                         Edge(pay, api, "calls") >>]

\* TestInMemoryGraph_ComplexTopology in small.
Queued == [nodes |-> << Node(api, "service"), Node(pay, "service"), Node(hub, "queue") >>,
           edges |-> << Edge(api, hub, "publishes_to"), Edge(pay, hub, "subscribes_to") >>]

Nodes == {<< >>} \cup {<< Node(x, "service") >> : x \in MCId}
         \cup {<< Node(x, "service"), Node(y, "cache") >> : x, y \in MCId}
Edges == {Edge(x, y, t) : x, y \in MCId, t \in {"calls", "depends_on"}}
EdgeLists == {<< >>} \cup {<< e >> : e \in Edges} \cup {<< e, f >> : e, f \in Edges}
MCServiceGraphs == {Plain, Tangled, Queued} \cup [nodes : Nodes, edges : EdgeLists]
MCContents == {Plain, Tangled, Malformed}
=============================================================================
