-------------------------- MODULE DictGraphStore --------------------------
(***************************************************************************)
(* A DictGraph in use: any sequence of the calls of the GraphEngine        *)
(* protocol, and a copy through to_dict and from_dict (what JSON does to   *)
(* the attributes on the way to a file and back is ToolGraph's Reloaded).  *)
(* No such sequence makes the three dictionaries disagree, and the graph   *)
(* they stand for is the one the protocol promises (ToolGraphProofs).      *)
(***************************************************************************)
EXTENDS DictGraph

CONSTANTS NodeIds, NodeTypes, EdgeAttrs

VARIABLE store

EdgeMap == [e \in EdgesOf(store) |-> store.out[e[1]][e[2]]]

StoreInit == store = EmptyGraph

NodeAdded == \E n \in NodeIds, type \in NodeTypes \cup {NoType} :
               store' = AddNode(store, n, type)

NodeRemoved == \E n \in NodeIds : store' = RemoveNode(store, n)

EdgeAdded == \E s, t \in NodeIds, a \in EdgeAttrs : store' = AddEdge(store, s, t, a)

(* A missing edge is a KeyError.                                           *)
EdgeRemoved == \E s, t \in NodeIds : HasEdge(store, s, t) /\ store' = RemoveEdge(store, s, t)

StoreCopied == store' = Copied(store)

StoreNext == NodeAdded \/ NodeRemoved \/ EdgeAdded \/ EdgeRemoved \/ StoreCopied

StoreSpec == StoreInit /\ [][StoreNext]_store
----------------------------------------------------------------------------
StoreTypeOK ==
  /\ DOMAIN store.nodes \subseteq NodeIds
  /\ store.nodes \in [DOMAIN store.nodes -> NodeTypes \cup {NoType}]

(* Whatever the sequence of calls, the dictionaries agree: no call can end *)
(* in a KeyError, and an edge never survives a node it joined.             *)
MirrorsAgree == Consistent(store)

(* The store keeps the promise of the protocol: every call is one step of  *)
(* the abstract graph, and a copy is none.                                 *)
Engine == INSTANCE GraphEngine WITH nodes <- store.nodes, edges <- EdgeMap

KeepsGraphEngine == Engine!Spec
=============================================================================
