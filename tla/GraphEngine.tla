---------------------------- MODULE GraphEngine ----------------------------
(***************************************************************************)
(* core/protocol.py: what any graph backend promises.  A graph is a set of *)
(* nodes with attributes and a set of edges with attributes; adding an     *)
(* edge adds its endpoints, removing a node removes the edges at it.       *)
(***************************************************************************)
CONSTANTS NodeIds, NodeTypes, EdgeAttrs, NoType

VARIABLES
  nodes,   \* node -> its node_type, or NoType
  edges    \* <<source, target>> -> attributes

vars == <<nodes, edges>>

Init == /\ nodes = [n \in {} |-> NoType]
        /\ edges = [e \in {} |-> NoType]

(* The nodes ns exist from now on; those that did not have no attributes.  *)
With(ns) == [m \in DOMAIN nodes \cup ns |->
               IF m \in DOMAIN nodes THEN nodes[m] ELSE NoType]

AddNode(n, type) ==
  /\ nodes' = [With({n}) EXCEPT ![n] = IF type = NoType THEN @ ELSE type]
  /\ UNCHANGED edges

RemoveNode(n) ==
  /\ nodes' = [m \in DOMAIN nodes \ {n} |-> nodes[m]]
  /\ edges' = [e \in {d \in DOMAIN edges : d[1] # n /\ d[2] # n} |-> edges[e]]

AddEdge(s, t, attrs) ==
  /\ nodes' = With({s, t})
  /\ edges' = [e \in DOMAIN edges \cup {<<s, t>>} |->
                 IF e = <<s, t>> THEN attrs ELSE edges[e]]

RemoveEdge(s, t) ==
  /\ <<s, t>> \in DOMAIN edges
  /\ edges' = [e \in DOMAIN edges \ {<<s, t>>} |-> edges[e]]
  /\ UNCHANGED nodes

Next ==
  \/ \E n \in NodeIds, type \in NodeTypes \cup {NoType} : AddNode(n, type)
  \/ \E n \in NodeIds : RemoveNode(n)
  \/ \E s, t \in NodeIds : RemoveEdge(s, t)
  \/ \E s, t \in NodeIds, a \in EdgeAttrs : AddEdge(s, t, a)

Spec == Init /\ [][Next]_vars
=============================================================================
