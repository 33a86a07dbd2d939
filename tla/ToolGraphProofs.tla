--------------------------- MODULE ToolGraphProofs ---------------------------
(***************************************************************************)
(* The dictionaries of a DictGraph agree after any sequence of calls and   *)
(* implement the graph of the protocol (DictGraphStore).  Over them, the   *)
(* graph and the tools of a ToolGraph tell the same story after any        *)
(* sequence of calls, and the engine that answers knows the tools there    *)
(* are, for all tools, batches, relations and answers of a model.          *)
(***************************************************************************)
EXTENDS ToolGraph, DictGraphStore, FiniteSetTheorems, TLAPS

-----------------------------------------------------------------------------
(* One lemma for each call that changes the dictionaries.                  *)
LEMMA AddNodeConsistent ==
  ASSUME NEW h, Consistent(h), NEW n, NEW type
  PROVE  Consistent(AddNode(h, n, type))
<1>1. CASE HasNode(h, n)
  BY <1>1 DEF Consistent, AddNode, HasNode, Put
<1>2. CASE ~HasNode(h, n)
  BY <1>2 DEF Consistent, AddNode, HasNode, Put, SetDefault, Nothing
<1> QED BY <1>1, <1>2

(* A node more is there.                                                   *)
LEMMA AddNodeHas ==
  ASSUME NEW h, Consistent(h), NEW n, NEW type
  PROVE  DOMAIN AddNode(h, n, type).nodes = DOMAIN h.nodes \cup {n}
BY DEF AddNode, HasNode, Put

(* It brings no edge, and takes none away.                                 *)
LEMMA AddNodeOut ==
  ASSUME NEW h, Consistent(h), NEW n, NEW type
  PROVE  /\ \A x \in DOMAIN h.nodes : AddNode(h, n, type).out[x] = h.out[x]
         /\ n \notin DOMAIN h.nodes => DOMAIN AddNode(h, n, type).out[n] = {}
BY DEF AddNode, HasNode, Put, SetDefault, Nothing, Consistent

(* The two entries of an edge are written for endpoints that exist.        *)
LEMMA AddEdgeConsistent ==
  ASSUME NEW h, Consistent(h), NEW s, NEW t, NEW attrs
  PROVE  Consistent(AddEdge(h, s, t, attrs))
<1> DEFINE k == AddNode(AddNode(h, s, NoType), t, NoType)
<1>1. Consistent(k)
  BY AddNodeConsistent
<1>2. s \in DOMAIN k.nodes /\ t \in DOMAIN k.nodes
  BY AddNodeConsistent, AddNodeHas
<1>3. AddEdge(h, s, t, attrs) =
        [nodes |-> k.nodes,
         out   |-> Put(k.out, s, Put(k.out[s], t, attrs)),
         inn   |-> Put(k.inn, t, Put(k.inn[t], s, attrs))]
  BY DEF AddEdge
<1> HIDE DEF k
<1> QED BY <1>1, <1>2, <1>3 DEF Consistent, Put

(* The two entries of an edge are dropped together.                        *)
LEMMA RemoveEdgeConsistent ==
  ASSUME NEW h, Consistent(h), NEW s, NEW t, HasEdge(h, s, t)
  PROVE  Consistent(RemoveEdge(h, s, t))
BY DEF Consistent, RemoveEdge, HasEdge, Keys, Put, Drop

(* What is left of the dictionaries when n and its mirrors are gone.       *)
LEMMA RemoveNodeEntries ==
  ASSUME NEW h, Consistent(h), NEW n
  PROVE  /\ DOMAIN RemoveNode(h, n).nodes = DOMAIN h.nodes \ {n}
         /\ DOMAIN RemoveNode(h, n).out = DOMAIN h.nodes \ {n}
         /\ DOMAIN RemoveNode(h, n).inn = DOMAIN h.nodes \ {n}
         /\ \A x \in DOMAIN h.nodes \ {n} :
              /\ RemoveNode(h, n).nodes[x] = h.nodes[x]
              /\ DOMAIN RemoveNode(h, n).out[x] = DOMAIN h.out[x] \ {n}
              /\ DOMAIN RemoveNode(h, n).inn[x] = DOMAIN h.inn[x] \ {n}
              /\ \A y \in DOMAIN h.out[x] \ {n} :
                   RemoveNode(h, n).out[x][y] = h.out[x][y]
              /\ \A y \in DOMAIN h.inn[x] \ {n} :
                   RemoveNode(h, n).inn[x][y] = h.inn[x][y]
<1> DEFINE inn == WithoutKey(h.inn, Keys(h.out, n), n)
           out == WithoutKey(h.out, Keys(inn, n), n)
<1>1. RemoveNode(h, n) =
        [nodes |-> Drop(h.nodes, n), out |-> Drop(out, n), inn |-> Drop(inn, n)]
  BY DEF RemoveNode
<1>2. /\ DOMAIN inn = DOMAIN h.nodes
      /\ \A x \in DOMAIN h.nodes :
           /\ DOMAIN inn[x] = DOMAIN h.inn[x] \ {n}
           /\ \A y \in DOMAIN h.inn[x] \ {n} : inn[x][y] = h.inn[x][y]
  BY DEF Consistent, WithoutKey, Keys, Drop
<1>3. \A x \in DOMAIN h.nodes :
        x # n => (n \in DOMAIN h.out[x] <=> x \in Keys(inn, n))
  BY <1>2 DEF Consistent, Keys
<1> HIDE DEF inn
<1>4. /\ DOMAIN out = DOMAIN h.nodes
      /\ \A x \in DOMAIN h.nodes \ {n} :
           /\ DOMAIN out[x] = DOMAIN h.out[x] \ {n}
           /\ \A y \in DOMAIN h.out[x] \ {n} : out[x][y] = h.out[x][y]
  BY <1>3 DEF Consistent, WithoutKey, Drop
<1> HIDE DEF out
<1> QED BY <1>1, <1>2, <1>4 DEF Drop

(* The entries of a node go from both ends of its edges.                   *)
LEMMA RemoveNodeConsistent ==
  ASSUME NEW h, Consistent(h), NEW n
  PROVE  Consistent(RemoveNode(h, n))
<1> DEFINE k == RemoveNode(h, n)
<1>1. /\ DOMAIN k.nodes = DOMAIN h.nodes \ {n}
      /\ DOMAIN k.out = DOMAIN h.nodes \ {n}
      /\ DOMAIN k.inn = DOMAIN h.nodes \ {n}
      /\ \A x \in DOMAIN h.nodes \ {n} :
           /\ DOMAIN k.out[x] = DOMAIN h.out[x] \ {n}
           /\ DOMAIN k.inn[x] = DOMAIN h.inn[x] \ {n}
           /\ \A y \in DOMAIN h.out[x] \ {n} : k.out[x][y] = h.out[x][y]
           /\ \A y \in DOMAIN h.inn[x] \ {n} : k.inn[x][y] = h.inn[x][y]
  BY RemoveNodeEntries
<1> HIDE DEF k
<1>2. Consistent(k)
  BY <1>1 DEF Consistent
<1> QED BY <1>2 DEF k

(* A copy of a graph holds together as before.                             *)
LEMMA CopiedConsistent ==
  ASSUME NEW h, Consistent(h)
  PROVE  Consistent(Copied(h))
BY DEF Consistent, Copied, Rebuilt, NodesOf, Keys

(* Every call leaves dictionaries behind.                                  *)
LEMMA PutIsDict ==
  ASSUME NEW d, NEW k, NEW v
  PROVE  IsDict(Put(d, k, v))
BY DEF IsDict, Put

(* What is left of a dictionary is one.                                    *)
LEMMA DropIsDict ==
  ASSUME NEW d, NEW k
  PROVE  IsDict(Drop(d, k))
BY DEF IsDict, Drop

(* So is one that loses a key in an inner dictionary.                      *)
LEMMA WithoutKeyIsDict ==
  ASSUME NEW d, NEW at, NEW k
  PROVE  IsDict(WithoutKey(d, at, k))
BY DEF IsDict, WithoutKey

(* The values of a dictionary that was written to.                         *)
LEMMA PutDicts ==
  ASSUME NEW d, \A x \in DOMAIN d : IsDict(d[x]), NEW k, NEW v, IsDict(v)
  PROVE  \A x \in DOMAIN Put(d, k, v) : IsDict(Put(d, k, v)[x])
BY DEF Put

(* The inner dictionaries that are left are unchanged.                     *)
LEMMA DropDicts ==
  ASSUME NEW d, \A x \in DOMAIN d : IsDict(d[x]), NEW k
  PROVE  \A x \in DOMAIN Drop(d, k) : IsDict(Drop(d, k)[x])
BY DEF Drop

(* The inner dictionaries stay dictionaries.                               *)
LEMMA WithoutKeyDicts ==
  ASSUME NEW d, \A x \in DOMAIN d : IsDict(d[x]), NEW at, NEW k
  PROVE  \A x \in DOMAIN WithoutKey(d, at, k) : IsDict(WithoutKey(d, at, k)[x])
BY DropIsDict DEF WithoutKey

(* A graph stays a graph under the calls that change it.                   *)
LEMMA AddNodeIsGraph ==
  ASSUME NEW h, IsGraph(h), NEW n, NEW type
  PROVE  IsGraph(AddNode(h, n, type))
<1> DEFINE k == AddNode(h, n, type)
<1>1. CASE HasNode(h, n)
  <2>1. k = [nodes |-> Put(h.nodes, n, Updated(h.nodes[n], type)), out |-> h.out, inn |-> h.inn]
    BY <1>1 DEF AddNode
  <2> HIDE DEF k
  <2>2. /\ k = [nodes |-> k.nodes, out |-> k.out, inn |-> k.inn]
        /\ IsDict(k.nodes) /\ k.out = h.out /\ k.inn = h.inn
    BY <2>1, PutIsDict
  <2>3. IsGraph(k)
    BY <2>2 DEF IsGraph
  <2> QED BY <2>3 DEF k
<1>2. CASE ~HasNode(h, n)
  <2>1. k = [nodes |-> Put(h.nodes, n, type),
             out   |-> SetDefault(h.out, n), inn |-> SetDefault(h.inn, n)]
    BY <1>2 DEF AddNode
  <2>2. ASSUME NEW d, IsDict(d), \A x \in DOMAIN d : IsDict(d[x])
        PROVE  /\ IsDict(SetDefault(d, n))
               /\ \A x \in DOMAIN SetDefault(d, n) : IsDict(SetDefault(d, n)[x])
    <3>1. IsDict(Nothing)
      BY DEF IsDict, Nothing
    <3>2. CASE n \in DOMAIN d
      BY <2>2, <3>2 DEF SetDefault
    <3>3. CASE n \notin DOMAIN d
      <4>1. SetDefault(d, n) = Put(d, n, Nothing)
        BY <3>3 DEF SetDefault
      <4> QED BY <2>2, <3>1, <4>1, PutIsDict, PutDicts
    <3> QED BY <3>2, <3>3
  <2>3. /\ k = [nodes |-> k.nodes, out |-> k.out, inn |-> k.inn]
        /\ k.nodes = Put(h.nodes, n, type)
        /\ k.out = SetDefault(h.out, n) /\ k.inn = SetDefault(h.inn, n)
    BY <2>1
  <2> HIDE DEF k
  <2>4. IsDict(k.nodes)
    BY <2>3, PutIsDict
  <2>5. /\ IsDict(k.out) /\ \A x \in DOMAIN k.out : IsDict(k.out[x])
        /\ IsDict(k.inn) /\ \A x \in DOMAIN k.inn : IsDict(k.inn[x])
    BY <2>2, <2>3 DEF IsGraph
  <2>6. IsGraph(k)
    BY <2>3, <2>4, <2>5 DEF IsGraph
  <2> QED BY <2>6 DEF k
<1> QED BY <1>1, <1>2

(* An edge more leaves a graph.                                            *)
LEMMA AddEdgeIsGraph ==
  ASSUME NEW h, IsGraph(h), Consistent(h), NEW s, NEW t, NEW attrs
  PROVE  IsGraph(AddEdge(h, s, t, attrs))
<1> DEFINE k == AddNode(AddNode(h, s, NoType), t, NoType)
           m == AddEdge(h, s, t, attrs)
<1>1. IsGraph(k) /\ Consistent(k)
  BY AddNodeIsGraph, AddNodeConsistent
<1>2. m = [nodes |-> k.nodes,
           out   |-> Put(k.out, s, Put(k.out[s], t, attrs)),
           inn   |-> Put(k.inn, t, Put(k.inn[t], s, attrs))]
  BY DEF AddEdge
<1> HIDE DEF k, m
<1>3. /\ m = [nodes |-> m.nodes, out |-> m.out, inn |-> m.inn]
      /\ m.nodes = k.nodes
      /\ m.out = Put(k.out, s, Put(k.out[s], t, attrs))
      /\ m.inn = Put(k.inn, t, Put(k.inn[t], s, attrs))
  BY <1>2
<1>4. /\ IsDict(m.nodes) /\ IsDict(m.out) /\ IsDict(m.inn)
  BY <1>1, <1>3, PutIsDict DEF IsGraph
<1>5. \A x \in DOMAIN m.out : IsDict(m.out[x])
  <2> DEFINE v == Put(k.out[s], t, attrs)
  <2>1. IsDict(v) /\ m.out = Put(k.out, s, v) /\ \A x \in DOMAIN k.out : IsDict(k.out[x])
    BY <1>1, <1>3, PutIsDict DEF IsGraph
  <2> HIDE DEF v
  <2> QED BY <2>1, PutDicts
<1>6. \A x \in DOMAIN m.inn : IsDict(m.inn[x])
  <2> DEFINE v == Put(k.inn[t], s, attrs)
  <2>1. IsDict(v) /\ m.inn = Put(k.inn, t, v) /\ \A x \in DOMAIN k.inn : IsDict(k.inn[x])
    BY <1>1, <1>3, PutIsDict DEF IsGraph
  <2> HIDE DEF v
  <2> QED BY <2>1, PutDicts
<1>7. IsGraph(m)
  BY <1>3, <1>4, <1>5, <1>6 DEF IsGraph
<1> QED BY <1>7 DEF m

(* A node less leaves a graph.                                             *)
LEMMA RemoveNodeIsGraph ==
  ASSUME NEW h, IsGraph(h), NEW n
  PROVE  IsGraph(RemoveNode(h, n))
<1> DEFINE inn == WithoutKey(h.inn, Keys(h.out, n), n)
           out == WithoutKey(h.out, Keys(inn, n), n)
           m == RemoveNode(h, n)
<1>1. m = [nodes |-> Drop(h.nodes, n), out |-> Drop(out, n), inn |-> Drop(inn, n)]
  BY DEF RemoveNode
<1>3. /\ IsDict(inn) /\ \A x \in DOMAIN inn : IsDict(inn[x])
      /\ IsDict(out) /\ \A x \in DOMAIN out : IsDict(out[x])
  BY WithoutKeyIsDict, WithoutKeyDicts DEF IsGraph
<1> HIDE DEF inn, out, m
<1>4. /\ m = [nodes |-> m.nodes, out |-> m.out, inn |-> m.inn]
      /\ m.nodes = Drop(h.nodes, n) /\ m.out = Drop(out, n) /\ m.inn = Drop(inn, n)
  BY <1>1
<1>5. /\ IsDict(m.nodes) /\ IsDict(m.out) /\ IsDict(m.inn)
      /\ \A x \in DOMAIN m.out : IsDict(m.out[x])
      /\ \A x \in DOMAIN m.inn : IsDict(m.inn[x])
  BY <1>3, <1>4, DropIsDict, DropDicts
<1>6. IsGraph(m)
  BY <1>4, <1>5 DEF IsGraph
<1> QED BY <1>6 DEF m

(* A graph whose dictionaries agree is copied as it is.                    *)
LEMMA CopiedSame ==
  ASSUME NEW h, IsGraph(h), Consistent(h)
  PROVE  Copied(h) = h
<1> DEFINE sources(t) == {s \in DOMAIN h.nodes : t \in Keys(h.out, s) \cap DOMAIN h.nodes}
<1>1. [n \in DOMAIN h.nodes |-> h.nodes[n]] = h.nodes
  BY DEF IsGraph, IsDict
<1>2. [s \in DOMAIN h.nodes |->
         [t \in Keys(h.out, s) \cap DOMAIN h.nodes |-> h.out[s][t]]] = h.out
  <2>1. ASSUME NEW s \in DOMAIN h.nodes
        PROVE  [t \in Keys(h.out, s) \cap DOMAIN h.nodes |-> h.out[s][t]] = h.out[s]
    <3>1. Keys(h.out, s) \cap DOMAIN h.nodes = DOMAIN h.out[s]
      BY DEF Consistent, Keys
    <3>2. h.out[s] = [t \in DOMAIN h.out[s] |-> h.out[s][t]]
      BY DEF IsGraph, IsDict, Consistent
    <3> QED BY <3>1, <3>2
  <2>2. h.out = [s \in DOMAIN h.nodes |-> h.out[s]]
    BY DEF IsGraph, IsDict, Consistent
  <2> QED BY <2>1, <2>2
<1>3. [t \in DOMAIN h.nodes |-> [s \in sources(t) |-> h.out[s][t]]] = h.inn
  <2>1. ASSUME NEW t \in DOMAIN h.nodes
        PROVE  [s \in sources(t) |-> h.out[s][t]] = h.inn[t]
    <3>1. sources(t) = DOMAIN h.inn[t]
      BY DEF Consistent, Keys
    <3>2. \A s \in DOMAIN h.inn[t] : h.out[s][t] = h.inn[t][s]
      BY DEF Consistent
    <3>3. h.inn[t] = [s \in DOMAIN h.inn[t] |-> h.inn[t][s]]
      BY DEF IsGraph, IsDict, Consistent
    <3> QED BY <3>1, <3>2, <3>3
  <2> HIDE DEF sources
  <2>2. h.inn = [t \in DOMAIN h.nodes |-> h.inn[t]]
    BY DEF IsGraph, IsDict, Consistent
  <2> QED BY <2>1, <2>2
<1>4. Copied(h) = [nodes |-> h.nodes, out |-> h.out, inn |-> h.inn]
  <2>1. DOMAIN h.nodes \cap DOMAIN h.nodes = DOMAIN h.nodes
    OBVIOUS
  <2>2. Copied(h) =
          [nodes |-> [n \in DOMAIN h.nodes |-> h.nodes[n]],
           out   |-> [s \in DOMAIN h.nodes |->
                        [t \in Keys(h.out, s) \cap DOMAIN h.nodes |-> h.out[s][t]]],
           inn   |-> [t \in DOMAIN h.nodes |-> [s \in sources(t) |-> h.out[s][t]]]]
    BY <2>1, Zenon DEF Copied, Rebuilt, NodesOf
  <2> HIDE DEF sources
  <2> QED BY <2>2, <1>1, <1>2, <1>3
<1> QED BY <1>4 DEF IsGraph

-----------------------------------------------------------------------------
(* MirrorsAgree: for every set of nodes and attributes, and every sequence *)
(* of calls, the three dictionaries agree.                                 *)
THEOREM MirrorsAlwaysAgree == StoreSpec => []MirrorsAgree
<1>1. StoreInit => MirrorsAgree
  BY DEF StoreInit, MirrorsAgree, Consistent, EmptyGraph, Nothing
<1>2. MirrorsAgree /\ [StoreNext]_store => MirrorsAgree'
  <2> SUFFICES ASSUME MirrorsAgree, [StoreNext]_store PROVE MirrorsAgree'
    OBVIOUS
  <2> USE DEF MirrorsAgree
  <2>1. CASE NodeAdded
    BY <2>1, AddNodeConsistent DEF NodeAdded
  <2>2. CASE NodeRemoved
    BY <2>2, RemoveNodeConsistent DEF NodeRemoved
  <2>3. CASE EdgeAdded
    BY <2>3, AddEdgeConsistent DEF EdgeAdded
  <2>4. CASE EdgeRemoved
    BY <2>4, RemoveEdgeConsistent DEF EdgeRemoved
  <2>5. CASE StoreCopied
    BY <2>5, CopiedConsistent DEF StoreCopied
  <2>6. CASE UNCHANGED store
    BY <2>6
  <2> QED BY <2>1, <2>2, <2>3, <2>4, <2>5, <2>6 DEF StoreNext
<1> QED BY <1>1, <1>2, PTL DEF StoreSpec

(* StoreTypeOK: nodes and their types stay among those the callers name.   *)
THEOREM StoreTyped == StoreSpec => []StoreTypeOK
<1>1. StoreInit => StoreTypeOK
  BY DEF StoreInit, StoreTypeOK, EmptyGraph, Nothing
<1>2. StoreTypeOK /\ MirrorsAgree /\ [StoreNext]_store => StoreTypeOK'
  <2> SUFFICES ASSUME StoreTypeOK, MirrorsAgree, [StoreNext]_store PROVE StoreTypeOK'
    OBVIOUS
  <2> USE DEF StoreTypeOK
  <2>a. ASSUME NEW h, NEW n \in NodeIds, NEW type \in NodeTypes \cup {NoType},
               DOMAIN h.nodes \subseteq NodeIds,
               h.nodes \in [DOMAIN h.nodes -> NodeTypes \cup {NoType}]
        PROVE  /\ DOMAIN AddNode(h, n, type).nodes \subseteq NodeIds
               /\ AddNode(h, n, type).nodes
                    \in [DOMAIN AddNode(h, n, type).nodes -> NodeTypes \cup {NoType}]
    BY <2>a DEF AddNode, HasNode, Put, Updated
  <2>1. CASE NodeAdded
    BY <2>1, <2>a DEF NodeAdded
  <2>2. CASE NodeRemoved
    BY <2>2 DEF NodeRemoved, RemoveNode, Drop
  <2>3. CASE EdgeAdded
    <3>1. PICK s \in NodeIds, t \in NodeIds, a \in EdgeAttrs : store' = AddEdge(store, s, t, a)
      BY <2>3 DEF EdgeAdded
    <3>2. store'.nodes = AddNode(AddNode(store, s, NoType), t, NoType).nodes
      BY <3>1 DEF AddEdge
    <3> QED BY <3>2, <2>a
  <2>4. CASE EdgeRemoved
    BY <2>4 DEF EdgeRemoved, RemoveEdge
  <2>5. CASE StoreCopied
    BY <2>5 DEF StoreCopied, Copied, Rebuilt, NodesOf
  <2>6. CASE UNCHANGED store
    BY <2>6
  <2> QED BY <2>1, <2>2, <2>3, <2>4, <2>5, <2>6 DEF StoreNext
<1> QED BY <1>1, <1>2, MirrorsAlwaysAgree, PTL DEF StoreSpec

(* The edges of a graph whose dictionaries agree.                          *)
LEMMA EdgesOfConsistent ==
  ASSUME NEW h, Consistent(h)
  PROVE  /\ EdgesOf(h) \subseteq (DOMAIN h.nodes) \X (DOMAIN h.nodes)
         /\ \A x, y : <<x, y>> \in EdgesOf(h) <=>
                      x \in DOMAIN h.nodes /\ y \in DOMAIN h.out[x]
<1>1. EdgesOf(h) = {e \in (DOMAIN h.nodes) \X (DOMAIN h.nodes) :
                      e[2] \in DOMAIN h.out[e[1]]}
  BY DEF Consistent, EdgesOf, HasEdge, Keys
<1>2. \A x \in DOMAIN h.nodes : DOMAIN h.out[x] \subseteq DOMAIN h.nodes
  BY DEF Consistent
<1> QED BY <1>1, <1>2

(* Sets of pairs are equal when they have the same pairs.                  *)
LEMMA PairsEqual ==
  ASSUME NEW S, NEW X, NEW Y, S \subseteq X \X Y,
         NEW T, NEW U, NEW V, T \subseteq U \X V,
         \A x, y : <<x, y>> \in S <=> <<x, y>> \in T
  PROVE  S = T
OBVIOUS

(* KeepsGraphEngine: every call on the dictionaries is the call of the     *)
(* protocol on the graph they stand for, and a copy changes nothing.       *)
THEOREM DictGraphIsAGraphEngine == StoreSpec => KeepsGraphEngine
<1>1. StoreInit => Engine!Init
  BY DEF StoreInit, Engine!Init, EdgeMap, EdgesOf, EmptyGraph, Nothing
<1>2. StoreTypeOK /\ MirrorsAgree /\ MirrorsAgree' /\ [StoreNext]_store => [Engine!Next]_(Engine!vars)
  <2> SUFFICES ASSUME StoreTypeOK, MirrorsAgree, MirrorsAgree', StoreNext
               PROVE  Engine!Next \/ UNCHANGED Engine!vars
    BY DEF Engine!vars, EdgeMap
  <2>0. /\ Consistent(store) /\ Consistent(store')
        /\ EdgesOf(store) \subseteq (DOMAIN store.nodes) \X (DOMAIN store.nodes)
        /\ EdgesOf(store') \subseteq (DOMAIN store'.nodes) \X (DOMAIN store'.nodes)
        /\ \A x, y : <<x, y>> \in EdgesOf(store) <=>
                     x \in DOMAIN store.nodes /\ y \in DOMAIN store.out[x]
        /\ \A x, y : <<x, y>> \in EdgesOf(store') <=>
                     x \in DOMAIN store'.nodes /\ y \in DOMAIN store'.out[x]
    BY EdgesOfConsistent DEF MirrorsAgree
  <2>1. CASE NodeAdded
    <3>1. PICK n \in NodeIds, type \in NodeTypes \cup {NoType} : store' = AddNode(store, n, type)
      BY <2>1 DEF NodeAdded
    <3>2. store'.nodes = [Engine!With({n}) EXCEPT ![n] = IF type = NoType THEN @ ELSE type]
      BY <3>1 DEF AddNode, HasNode, Put, Updated, Engine!With, StoreTypeOK
    <3>3. /\ DOMAIN store'.nodes = DOMAIN store.nodes \cup {n}
          /\ \A x \in DOMAIN store.nodes : store'.out[x] = store.out[x]
          /\ n \notin DOMAIN store.nodes => DOMAIN store'.out[n] = {}
      BY <3>1, <2>0, AddNodeHas, AddNodeOut
    <3>4. EdgesOf(store') = EdgesOf(store)
      <4>1. \A x, y : <<x, y>> \in EdgesOf(store') <=> <<x, y>> \in EdgesOf(store)
        BY <3>3, <2>0
      <4> QED BY <4>1, <2>0, PairsEqual
    <3>5. \A e \in EdgesOf(store) : store'.out[e[1]][e[2]] = store.out[e[1]][e[2]]
      BY <3>3, <2>0
    <3>6. EdgeMap' = EdgeMap
      BY <3>4, <3>5 DEF EdgeMap
    <3> QED BY <3>2, <3>6 DEF Engine!Next, Engine!AddNode
  <2>2. CASE NodeRemoved
    <3>1. PICK n \in NodeIds : store' = RemoveNode(store, n)
      BY <2>2 DEF NodeRemoved
    <3>2. store'.nodes = [m \in DOMAIN store.nodes \ {n} |-> store.nodes[m]]
      BY <3>1 DEF RemoveNode, Drop
    <3>3. /\ DOMAIN store'.nodes = DOMAIN store.nodes \ {n}
          /\ \A x \in DOMAIN store.nodes \ {n} :
               /\ DOMAIN store'.out[x] = DOMAIN store.out[x] \ {n}
               /\ \A y \in DOMAIN store.out[x] \ {n} : store'.out[x][y] = store.out[x][y]
      BY <3>1, <2>0, RemoveNodeEntries
    <3>4. EdgesOf(store') = {e \in EdgesOf(store) : e[1] # n /\ e[2] # n}
      <4>1. \A x, y : <<x, y>> \in EdgesOf(store') <=>
                     <<x, y>> \in {e \in EdgesOf(store) : e[1] # n /\ e[2] # n}
        <5>1. SUFFICES ASSUME NEW x, NEW y
                       PROVE  <<x, y>> \in EdgesOf(store') <=>
                                <<x, y>> \in EdgesOf(store) /\ x # n /\ y # n
          OBVIOUS
        <5>2. /\ <<x, y>> \in EdgesOf(store') <=> x \in DOMAIN store'.nodes /\ y \in DOMAIN store'.out[x]
              /\ <<x, y>> \in EdgesOf(store) <=> x \in DOMAIN store.nodes /\ y \in DOMAIN store.out[x]
          BY <2>0
        <5> QED BY <5>2, <3>3
      <4> QED BY <4>1, <2>0, PairsEqual
    <3>5. EdgeMap' = [e \in {d \in DOMAIN EdgeMap : d[1] # n /\ d[2] # n} |-> EdgeMap[e]]
      BY <3>3, <3>4, <2>0 DEF EdgeMap
    <3> QED BY <3>2, <3>5 DEF Engine!Next, Engine!RemoveNode
  <2>3. CASE EdgeAdded
    <3>1. PICK s \in NodeIds, t \in NodeIds, a \in EdgeAttrs : store' = AddEdge(store, s, t, a)
      BY <2>3 DEF EdgeAdded
    <3> DEFINE k == AddNode(AddNode(store, s, NoType), t, NoType)
    <3>2. /\ Consistent(k)
          /\ DOMAIN k.nodes = DOMAIN store.nodes \cup {s, t}
      BY <2>0, AddNodeConsistent, AddNodeHas
    <3>3. k.nodes = Engine!With({s, t})
      BY DEF AddNode, HasNode, Put, Updated, Engine!With, StoreTypeOK
    <3>4. /\ \A x \in DOMAIN store.nodes : k.out[x] = store.out[x]
          /\ \A x \in {s, t} : x \notin DOMAIN store.nodes => DOMAIN k.out[x] = {}
      <4> DEFINE k1 == AddNode(store, s, NoType)
      <4>1. /\ Consistent(k1)
            /\ DOMAIN k1.nodes = DOMAIN store.nodes \cup {s}
            /\ \A x \in DOMAIN store.nodes : k1.out[x] = store.out[x]
            /\ s \notin DOMAIN store.nodes => DOMAIN k1.out[s] = {}
        BY <2>0, AddNodeConsistent, AddNodeHas, AddNodeOut
      <4> HIDE DEF k1
      <4>2. /\ \A x \in DOMAIN k1.nodes : AddNode(k1, t, NoType).out[x] = k1.out[x]
            /\ t \notin DOMAIN k1.nodes => DOMAIN AddNode(k1, t, NoType).out[t] = {}
        BY <4>1, AddNodeOut
      <4>3. k = AddNode(k1, t, NoType)
        BY DEF k1
      <4> QED BY <4>1, <4>2, <4>3
    <3>5. store' = [nodes |-> k.nodes,
                out   |-> Put(k.out, s, Put(k.out[s], t, a)),
                inn   |-> Put(k.inn, t, Put(k.inn[t], s, a))]
      BY <3>1 DEF AddEdge
    <3> HIDE DEF k
    <3>6. /\ DOMAIN store'.nodes = DOMAIN store.nodes \cup {s, t}
          /\ \A x \in DOMAIN store'.nodes :
               DOMAIN store'.out[x] = IF x = s THEN DOMAIN k.out[x] \cup {t} ELSE DOMAIN k.out[x]
          /\ \A x \in DOMAIN store'.nodes : \A y \in DOMAIN store'.out[x] :
               store'.out[x][y] = IF x = s /\ y = t THEN a ELSE k.out[x][y]
      BY <3>2, <3>5 DEF Put, Consistent
    <3>7. EdgesOf(store') = EdgesOf(store) \cup {<<s, t>>}
      <4>1. \A x, y : <<x, y>> \in EdgesOf(store') <=> <<x, y>> \in EdgesOf(store) \cup {<<s, t>>}
        <5>1. SUFFICES ASSUME NEW x, NEW y
                       PROVE  <<x, y>> \in EdgesOf(store') <=>
                                <<x, y>> \in EdgesOf(store) \/ (x = s /\ y = t)
          OBVIOUS
        <5>2. x \in DOMAIN store'.nodes <=> x \in DOMAIN store.nodes \/ x = s \/ x = t
          BY <3>6
        <5>3. /\ <<x, y>> \in EdgesOf(store') <=> x \in DOMAIN store'.nodes /\ y \in DOMAIN store'.out[x]
              /\ <<x, y>> \in EdgesOf(store) <=> x \in DOMAIN store.nodes /\ y \in DOMAIN store.out[x]
          BY <2>0
        <5>4. x \in DOMAIN store'.nodes =>
                (y \in DOMAIN store'.out[x] <=> y \in DOMAIN k.out[x] \/ (x = s /\ y = t))
          <6>1. CASE x = s
            BY <6>1, <3>6
          <6>2. CASE x # s
            BY <6>2, <3>6
          <6> QED BY <6>1, <6>2
        <5>5. x \in DOMAIN store.nodes => k.out[x] = store.out[x]
          BY <3>4
        <5>6. x \in {s, t} /\ x \notin DOMAIN store.nodes => DOMAIN k.out[x] = {}
          BY <3>4
        <5> QED BY <5>2, <5>3, <5>4, <5>5, <5>6
      <4>2. EdgesOf(store) \cup {<<s, t>>} \subseteq (DOMAIN store'.nodes) \X (DOMAIN store'.nodes)
        BY <3>6, <2>0
      <4> QED BY <4>1, <4>2, <2>0, PairsEqual
    <3>8. \A e \in EdgesOf(store') : store'.out[e[1]][e[2]] =
             IF e = <<s, t>> THEN a ELSE store.out[e[1]][e[2]]
      BY <3>4, <3>6, <3>7, <2>0
    <3>9. EdgeMap' = [e \in DOMAIN EdgeMap \cup {<<s, t>>} |->
                        IF e = <<s, t>> THEN a ELSE EdgeMap[e]]
      BY <3>7, <3>8 DEF EdgeMap
    <3>10. store'.nodes = Engine!With({s, t})
      BY <3>3, <3>5
    <3> QED BY <3>9, <3>10 DEF Engine!Next, Engine!AddEdge
  <2>4. CASE EdgeRemoved
    <3>1. PICK s \in NodeIds, t \in NodeIds : HasEdge(store, s, t) /\ store' = RemoveEdge(store, s, t)
      BY <2>4 DEF EdgeRemoved
    <3>2. /\ store'.nodes = store.nodes
          /\ s \in DOMAIN store.nodes /\ t \in DOMAIN store.nodes /\ t \in DOMAIN store.out[s]
          /\ \A x \in DOMAIN store.nodes :
               /\ DOMAIN store'.out[x] = IF x = s THEN DOMAIN store.out[x] \ {t} ELSE DOMAIN store.out[x]
               /\ \A y \in DOMAIN store'.out[x] : store'.out[x][y] = store.out[x][y]
      BY <3>1, <2>0 DEF RemoveEdge, HasEdge, Keys, Put, Drop, Consistent
    <3>3. EdgesOf(store') = EdgesOf(store) \ {<<s, t>>} /\ <<s, t>> \in EdgesOf(store)
      <4>1. \A x, y : <<x, y>> \in EdgesOf(store') <=> <<x, y>> \in EdgesOf(store) \ {<<s, t>>}
        <5>1. SUFFICES ASSUME NEW x, NEW y
                       PROVE  <<x, y>> \in EdgesOf(store') <=>
                                <<x, y>> \in EdgesOf(store) /\ ~(x = s /\ y = t)
          OBVIOUS
        <5> QED BY <3>2, <2>0
      <4>2. EdgesOf(store) \ {<<s, t>>} \subseteq (DOMAIN store.nodes) \X (DOMAIN store.nodes)
        BY <2>0
      <4>3. <<s, t>> \in EdgesOf(store)
        BY <3>2, <2>0
      <4> QED BY <4>1, <4>2, <4>3, <2>0, PairsEqual
    <3>4. EdgeMap' = [e \in DOMAIN EdgeMap \ {<<s, t>>} |-> EdgeMap[e]]
      <4>1. ASSUME NEW e \in EdgesOf(store')
            PROVE  store'.out[e[1]][e[2]] = store.out[e[1]][e[2]]
        <5>1. /\ e = <<e[1], e[2]>> /\ e[1] \in DOMAIN store'.nodes
              /\ <<e[1], e[2]>> \in EdgesOf(store')
          BY <2>0
        <5>2. e[2] \in DOMAIN store'.out[e[1]]
          BY <5>1, <2>0
        <5> QED BY <5>1, <5>2, <3>2
      <4> QED BY <3>3, <4>1 DEF EdgeMap
    <3> QED BY <3>2, <3>3, <3>4 DEF Engine!Next, Engine!RemoveEdge, EdgeMap
  <2>5. CASE StoreCopied
    <3>1. store' = Copied(store)
      BY <2>5 DEF StoreCopied
    <3>2. store'.nodes = store.nodes
      BY <3>1 DEF Copied, Rebuilt, NodesOf, StoreTypeOK
    <3>3. \A x \in DOMAIN store.nodes :
            /\ DOMAIN store'.out[x] = DOMAIN store.out[x]
            /\ \A y \in DOMAIN store.out[x] : store'.out[x][y] = store.out[x][y]
      <4>1. store'.out = [x \in DOMAIN store.nodes |->
                        [y \in Keys(store.out, x) \cap DOMAIN store.nodes |-> store.out[x][y]]]
        BY <3>1 DEF Copied, Rebuilt, NodesOf
      <4>2. \A x \in DOMAIN store.nodes :
              Keys(store.out, x) \cap DOMAIN store.nodes = DOMAIN store.out[x]
        BY <2>0 DEF Keys, Consistent
      <4> QED BY <4>1, <4>2
    <3>4. EdgesOf(store') = EdgesOf(store)
      <4>1. \A x, y : <<x, y>> \in EdgesOf(store') <=> <<x, y>> \in EdgesOf(store)
        BY <3>2, <3>3, <2>0
      <4> QED BY <4>1, <2>0, PairsEqual
    <3>5. EdgeMap' = EdgeMap
      BY <3>3, <3>4, <2>0 DEF EdgeMap
    <3> QED BY <3>2, <3>5 DEF Engine!vars
  <2> QED BY <2>1, <2>2, <2>3, <2>4, <2>5 DEF StoreNext
<1> QED BY <1>1, <1>2, MirrorsAlwaysAgree, StoreTyped, PTL DEF StoreSpec, KeepsGraphEngine, Engine!Spec

-----------------------------------------------------------------------------
(* The graph h holds together and knows exactly the tools named in T.      *)
Fits(T, h) == /\ IsGraph(h) /\ Consistent(h)
              /\ T \subseteq NodesOf(h) /\ ToolNodes(h) \subseteq T

(* Relations and categories are added for any tools.                       *)
LEMMA AddNodeFits ==
  ASSUME NEW T, NEW h, Fits(T, h), NEW n, NEW type,
         type = NoType \/ type.value # "tool"
  PROVE  Fits(T, AddNode(h, n, type))
<1> DEFINE k == AddNode(h, n, type)
<1>1. IsGraph(k) /\ Consistent(k) /\ NodesOf(k) = NodesOf(h) \cup {n}
  BY AddNodeIsGraph, AddNodeConsistent, AddNodeHas DEF Fits, NodesOf
<1>2. ToolNodes(k) \subseteq ToolNodes(h)
  BY <1>1 DEF ToolNodes, NodesOf, AddNode, HasNode, Put, Updated
<1> QED BY <1>1, <1>2 DEF Fits

(* A tool's own node makes the name one of the tools.                      *)
LEMMA AddToolFits ==
  ASSUME NEW T, NEW h, Fits(T, h), NEW n
  PROVE  Fits(T \cup {n}, AddNode(h, n, Enum("tool")))
<1> DEFINE k == AddNode(h, n, Enum("tool"))
<1>1. IsGraph(k) /\ Consistent(k) /\ NodesOf(k) = NodesOf(h) \cup {n}
  BY AddNodeIsGraph, AddNodeConsistent, AddNodeHas DEF Fits, NodesOf
<1>2. ToolNodes(k) \subseteq ToolNodes(h) \cup {n}
  BY <1>1 DEF ToolNodes, NodesOf, AddNode, HasNode, Put, Updated
<1> QED BY <1>1, <1>2 DEF Fits

(* An edge creates its missing ends as nodes of no type.                   *)
LEMMA AddEdgeFits ==
  ASSUME NEW T, NEW h, Fits(T, h), NEW s, NEW t, NEW attrs
  PROVE  Fits(T, AddEdge(h, s, t, attrs))
<1> DEFINE k == AddNode(AddNode(h, s, NoType), t, NoType)
           m == AddEdge(h, s, t, attrs)
<1>1. Fits(T, k)
  BY AddNodeFits
<1>2. m.nodes = k.nodes
  BY DEF AddEdge
<1>3. IsGraph(m) /\ Consistent(m)
  BY AddEdgeIsGraph, AddEdgeConsistent DEF Fits
<1> HIDE DEF k, m
<1>4. Fits(T, m)
  BY <1>1, <1>2, <1>3 DEF Fits, NodesOf, ToolNodes
<1> QED BY <1>4 DEF m

(* A removed tool takes its node with it.                                  *)
LEMMA RemoveNodeFits ==
  ASSUME NEW T, NEW h, Fits(T, h), NEW n
  PROVE  Fits(T \ {n}, RemoveNode(h, n))
<1> DEFINE k == RemoveNode(h, n)
<1>1. IsGraph(k) /\ Consistent(k)
  BY RemoveNodeIsGraph, RemoveNodeConsistent DEF Fits
<1>2. k.nodes = Drop(h.nodes, n)
  BY DEF RemoveNode
<1> HIDE DEF k
<1>3. NodesOf(k) = NodesOf(h) \ {n} /\ ToolNodes(k) \subseteq ToolNodes(h) \ {n}
  BY <1>2 DEF NodesOf, ToolNodes, Drop
<1>4. Fits(T \ {n}, k)
  BY <1>1, <1>3 DEF Fits
<1> QED BY <1>4 DEF k

(* Assigning a category adds no tool.                                      *)
LEMMA AssignCategoryFits ==
  ASSUME NEW T, NEW h, Fits(T, h), NEW t, NEW c
  PROVE  Fits(T, AssignCategory(h, t, c))
BY AddNodeFits, AddEdgeFits DEF AssignCategory, AddCategory, Enum

(* Nor does adding one to a domain.                                        *)
LEMMA AddCategoryInFits ==
  ASSUME NEW T, NEW h, Fits(T, h), NEW c, NEW d
  PROVE  Fits(T, AddCategoryIn(h, c, d))
BY AddNodeFits, AddEdgeFits DEF AddCategoryIn, AddCategory, Enum

(* The graph of __init__ has no tools.                                     *)
LEMMA EmptyFits == Fits({}, EmptyGraph)
BY DEF Fits, IsGraph, IsDict, Consistent, NodesOf, ToolNodes, EmptyGraph, Nothing

(* A string read as text is itself.                                        *)
LEMMA TextOfText == \A a : Text(Text(a)) = Text(a)
<1> SUFFICES ASSUME NEW a PROVE Text(Text(a)) = Text(a)
  OBVIOUS
<1>1. CASE a = NoType
  BY <1>1 DEF Text
<1>2. CASE a # NoType
  <2> DEFINE b == [value |-> a.value, member |-> FALSE]
  <2>1. Text(a) = b
    BY <1>2 DEF Text
  <2>2. b.value = a.value
    OBVIOUS
  <2>3. Text(b) = IF b = NoType THEN b ELSE [value |-> b.value, member |-> FALSE]
    BY DEF Text
  <2> QED BY <2>1, <2>2, <2>3
<1> QED BY <1>1, <1>2

(* What InText makes of a graph.                                           *)
LEMMA InTextEntries ==
  ASSUME NEW h
  PROVE  /\ DOMAIN InText(h).nodes = DOMAIN h.nodes
         /\ \A n \in DOMAIN h.nodes : InText(h).nodes[n] = Text(h.nodes[n])
         /\ DOMAIN InText(h).out = DOMAIN h.out
         /\ DOMAIN InText(h).inn = DOMAIN h.inn
         /\ \A x \in DOMAIN h.out :
              /\ DOMAIN InText(h).out[x] = DOMAIN h.out[x]
              /\ \A y \in DOMAIN h.out[x] : InText(h).out[x][y] = Text(h.out[x][y])
         /\ \A x \in DOMAIN h.inn :
              /\ DOMAIN InText(h).inn[x] = DOMAIN h.inn[x]
              /\ \A y \in DOMAIN h.inn[x] : InText(h).inn[x][y] = Text(h.inn[x][y])
BY DEF InText

(* The attributes are read as text, and the dictionaries stay what they    *)
(* are.                                                                    *)
LEMMA InTextIsGraph ==
  ASSUME NEW h, Consistent(h)
  PROVE  IsGraph(InText(h)) /\ Consistent(InText(h))
<1>1. IsGraph(InText(h))
  BY DEF IsGraph, IsDict, InText
<1> DEFINE k == InText(h)
<1>2. /\ DOMAIN k.nodes = DOMAIN h.nodes
      /\ DOMAIN k.out = DOMAIN h.out /\ DOMAIN k.inn = DOMAIN h.inn
      /\ \A x \in DOMAIN h.out :
           /\ DOMAIN k.out[x] = DOMAIN h.out[x]
           /\ \A y \in DOMAIN h.out[x] : k.out[x][y] = Text(h.out[x][y])
      /\ \A x \in DOMAIN h.inn :
           /\ DOMAIN k.inn[x] = DOMAIN h.inn[x]
           /\ \A y \in DOMAIN h.inn[x] : k.inn[x][y] = Text(h.inn[x][y])
  BY InTextEntries
<1> HIDE DEF k
<1>3. Consistent(k)
  BY <1>2 DEF Consistent
<1> QED BY <1>1, <1>3 DEF k

(* A second reading changes nothing.                                       *)
LEMMA InTextTwice ==
  ASSUME NEW h
  PROVE  InText(InText(h)) = InText(h)
<1> DEFINE k == InText(h)
           texts(d) == [x \in DOMAIN d |-> [y \in DOMAIN d[x] |-> Text(d[x][y])]]
<1>1. ASSUME NEW d PROVE texts(texts(d)) = texts(d)
  <2>1. /\ DOMAIN texts(d) = DOMAIN d
        /\ \A x \in DOMAIN d : /\ DOMAIN texts(d)[x] = DOMAIN d[x]
                               /\ \A y \in DOMAIN d[x] : texts(d)[x][y] = Text(d[x][y])
    OBVIOUS
  <2>2. ASSUME NEW x \in DOMAIN d
        PROVE  [y \in DOMAIN texts(d)[x] |-> Text(texts(d)[x][y])]
                 = [y \in DOMAIN d[x] |-> Text(d[x][y])]
    BY <2>1, TextOfText
  <2>3. texts(texts(d)) = [x \in DOMAIN d |->
                             [y \in DOMAIN texts(d)[x] |-> Text(texts(d)[x][y])]]
    BY <2>1
  <2>4. texts(d) = [x \in DOMAIN d |-> [y \in DOMAIN d[x] |-> Text(d[x][y])]]
    OBVIOUS
  <2> HIDE DEF texts
  <2> QED BY <2>2, <2>3, <2>4
<1>2. \A g : InText(g) = [nodes |-> [n \in DOMAIN g.nodes |-> Text(g.nodes[n])],
                         out |-> texts(g.out), inn |-> texts(g.inn)]
  BY DEF InText
<1>3. [n \in DOMAIN k.nodes |-> Text(k.nodes[n])] = [n \in DOMAIN h.nodes |-> Text(h.nodes[n])]
  BY InTextEntries, TextOfText
<1>4. k.out = texts(h.out) /\ k.inn = texts(h.inn)
  BY <1>2
<1>5. InText(k) = [nodes |-> [n \in DOMAIN k.nodes |-> Text(k.nodes[n])],
                   out |-> texts(k.out), inn |-> texts(k.inn)]
  BY <1>2
<1>6. texts(k.out) = texts(h.out) /\ texts(k.inn) = texts(h.inn)
  BY <1>1, <1>4
<1> HIDE DEF texts, k
<1>7. InText(k) = InText(h)
  BY <1>2, <1>3, <1>5, <1>6
<1> QED BY <1>7 DEF k

(* load gives back the nodes with their types, as text.                    *)
LEMMA ReloadedFits ==
  ASSUME NEW T, NEW h, Fits(T, h)
  PROVE  Fits(T, Reloaded(h)) /\ InText(Reloaded(h)) = InText(h)
<1> DEFINE k == InText(h)
<1>1. Reloaded(h) = k
  BY CopiedSame DEF Fits, Reloaded
<1>2. IsGraph(k) /\ Consistent(k)
  BY InTextIsGraph DEF Fits
<1>3. /\ DOMAIN k.nodes = DOMAIN h.nodes
      /\ \A n \in DOMAIN h.nodes : k.nodes[n] = Text(h.nodes[n])
  BY InTextEntries
<1>4. InText(k) = k
  BY InTextTwice
<1> HIDE DEF k
<1>5. ToolNodes(k) \subseteq ToolNodes(h)
  <2>1. ASSUME NEW n \in DOMAIN h.nodes, k.nodes[n] # NoType, k.nodes[n].value = "tool"
        PROVE  h.nodes[n] # NoType /\ h.nodes[n].value = "tool"
    <3>1. k.nodes[n] = Text(h.nodes[n])
      BY <1>3
    <3>2. h.nodes[n] # NoType
      BY <2>1, <3>1 DEF Text
    <3>3. k.nodes[n] = [value |-> h.nodes[n].value, member |-> FALSE]
      BY <3>1, <3>2 DEF Text
    <3>4. k.nodes[n].value = h.nodes[n].value
      BY <3>3
    <3> QED BY <2>1, <3>2, <3>4
  <2> QED BY <2>1, <1>3 DEF ToolNodes, NodesOf
<1>6. Fits(T, k)
  BY <1>2, <1>3, <1>5 DEF Fits, NodesOf
<1> QED BY <1>1, <1>4, <1>6 DEF k
-----------------------------------------------------------------------------
(* The list SetToSeq makes of a finite set has its elements.               *)
LEMMA ListOfSet ==
  ASSUME NEW S, IsFiniteSet(S)
  PROVE  \E n \in Nat : /\ SetToSeq(S) \in [1 .. n -> S]
                        /\ \A x \in S : \E i \in 1 .. n : SetToSeq(S)[i] = x
<1> DEFINE n == Cardinality(S)
           f == SetToSeq(S)
<1>1. n \in Nat /\ ExistsBijection(1 .. n, S)
  BY FS_CardinalityType
<1>2. PICK b \in Bijection(1 .. n, S) : TRUE
  BY <1>1 DEF ExistsBijection
<1>3. b \in [1 .. n -> S] /\ IsInjective(b)
  BY <1>2 DEF Bijection, Injection, IsInjective
<1>4. f \in [1 .. n -> S] /\ IsInjective(f)
  BY <1>3 DEF SetToSeq
<1>5. f \in Injection(1 .. n, S)
  BY <1>4 DEF Injection, IsInjective
<1>6. Cardinality(1 .. n) = n
  BY <1>1, FS_Interval
<1> HIDE DEF f
<1>7. f \in Surjection(1 .. n, S)
  BY <1>5, <1>6, FS_Injection
<1>8. \A x \in S : \E i \in 1 .. n : f[i] = x
  BY <1>7 DEF Surjection
<1> QED BY <1>1, <1>4, <1>8 DEF f
-----------------------------------------------------------------------------
(* The loops of the source, each an instance of the induction over the     *)
(* list it runs along.                                                     *)
StillFits(T, i, h) == Fits(T, h)

RelateOne(T, h, r) == AddEdge(h, r.source, r.target, Relation(r.rel))
Relating == INSTANCE FoldInduction WITH Op <- RelateOne, Good <- StillFits

(* A list of relations adds no tool node.                                  *)
LEMMA AddRelationsFits ==
  ASSUME NEW T, NEW h, Fits(T, h), NEW rs, IsFiniteSet(rs)
  PROVE  Fits(T, AddRelations(h, rs))
<1>1. AddRelations(h, rs) = Relating!Result(T, h, SetToSeq(rs))
  BY DEF AddRelations, RelateOne, FoldLeft, MapThenFoldSet, Max,
         Relating!Result, Relating!MapThenFoldSet, Relating!Largest
<1>2. PICK n \in Nat : DOMAIN SetToSeq(rs) = 1 .. n
  BY ListOfSet
<1>3. \A i \in 1 .. n : \A acc :
        StillFits(T, i - 1, acc) => StillFits(T, i, RelateOne(T, acc, SetToSeq(rs)[i]))
  BY AddEdgeFits DEF StillFits, RelateOne
<1>4. StillFits(T, 0, h)
  BY DEF StillFits
<1>5. StillFits(T, n, Relating!Result(T, h, SetToSeq(rs)))
  BY <1>2, <1>3, <1>4, Relating!FoldInduction
<1> QED BY <1>1, <1>5 DEF StillFits

AssignOne(T, h, p) == AssignCategory(h, p[1], p[2])
Assigning == INSTANCE FoldInduction WITH Op <- AssignOne, Good <- StillFits

(* A list of categories adds none.                                         *)
LEMMA AssignAllFits ==
  ASSUME NEW T, NEW h, Fits(T, h), NEW pairs, IsFiniteSet(pairs)
  PROVE  Fits(T, AssignAll(h, pairs))
<1>1. AssignAll(h, pairs) = Assigning!Result(T, h, SetToSeq(pairs))
  BY DEF AssignAll, AssignOne, FoldLeft, MapThenFoldSet, Max,
         Assigning!Result, Assigning!MapThenFoldSet, Assigning!Largest
<1>2. PICK n \in Nat : DOMAIN SetToSeq(pairs) = 1 .. n
  BY ListOfSet
<1>3. \A i \in 1 .. n : \A acc :
        StillFits(T, i - 1, acc) => StillFits(T, i, AssignOne(T, acc, SetToSeq(pairs)[i]))
  BY AssignCategoryFits DEF StillFits, AssignOne
<1>4. StillFits(T, 0, h)
  BY DEF StillFits
<1>5. StillFits(T, n, Assigning!Result(T, h, SetToSeq(pairs)))
  BY <1>2, <1>3, <1>4, Assigning!FoldInduction
<1> QED BY <1>1, <1>5 DEF StillFits

PlaceOne(T, h, t) ==
  IF t.domain = NoDomain THEN h ELSE AssignCategory(h, t.name, t.domain)

Placing == INSTANCE FoldInduction WITH Op <- PlaceOne, Good <- StillFits

(* Nor do the domains of a batch.                                          *)
LEMMA AddDomainsFits ==
  ASSUME NEW T, NEW h, Fits(T, h), NEW batch \in Batches
  PROVE  Fits(T, AddDomains(h, batch))
<1>1. AddDomains(h, batch) = Placing!Result(T, h, batch)
  BY DEF AddDomains, PlaceOne, FoldLeft, MapThenFoldSet, Max,
         Placing!Result, Placing!MapThenFoldSet, Placing!Largest
<1>2. PICK n \in Nat : DOMAIN batch = 1 .. n
  BY DataIsFinite
<1>3. \A i \in 1 .. n : \A acc :
        StillFits(T, i - 1, acc) => StillFits(T, i, PlaceOne(T, acc, batch[i]))
  BY AssignCategoryFits DEF StillFits, PlaceOne
<1>4. StillFits(T, 0, h)
  BY DEF StillFits
<1>5. StillFits(T, n, Placing!Result(T, h, batch))
  BY <1>2, <1>3, <1>4, Placing!FoldInduction
<1> QED BY <1>1, <1>5 DEF StillFits

OrderOne(T, h, p) ==
  AddEdge(h, p[1], p[2], IF HasEdge(h, p[1], p[2])
                         THEN [h.out[p[1]][p[2]] EXCEPT !.value.arazzo = TRUE]
                         ELSE Enum([rel |-> "precedes", arazzo |-> TRUE]))

Sequencing == INSTANCE FoldInduction WITH Op <- OrderOne, Good <- StillFits

(* Nor does the order of a workflow.                                       *)
LEMMA OrderedFits ==
  ASSUME NEW T, NEW h, Fits(T, h), NEW pairs, IsFiniteSet(pairs)
  PROVE  Fits(T, Ordered(h, pairs))
<1>1. Ordered(h, pairs) = Sequencing!Result(T, h, SetToSeq(pairs))
  BY DEF Ordered, OrderOne, FoldLeft, MapThenFoldSet, Max,
         Sequencing!Result, Sequencing!MapThenFoldSet, Sequencing!Largest
<1>2. PICK n \in Nat : DOMAIN SetToSeq(pairs) = 1 .. n
  BY ListOfSet
<1>3. \A i \in 1 .. n : \A acc :
        StillFits(T, i - 1, acc) => StillFits(T, i, OrderOne(T, acc, SetToSeq(pairs)[i]))
  BY AddEdgeFits DEF StillFits, OrderOne
<1>4. StillFits(T, 0, h)
  BY DEF StillFits
<1>5. StillFits(T, n, Sequencing!Result(T, h, SetToSeq(pairs)))
  BY <1>2, <1>3, <1>4, Sequencing!FoldInduction
<1> QED BY <1>1, <1>5 DEF StillFits

(* apply_conflicts and apply_commerce_preset; c is [tools, bothWays].      *)
NewOne(c, h, r) ==
  IF \/ HasEdge(h, r.source, r.target)
     \/ c.bothWays /\ HasEdge(h, r.target, r.source)
  THEN h ELSE AddEdge(h, r.source, r.target, Relation(r.rel))

FitsTools(c, i, h) == Fits(c.tools, h)
Adding == INSTANCE FoldInduction WITH Op <- NewOne, Good <- FitsTools

(* Nor do the relations of a preset or of the conflicts.                   *)
LEMMA AddNewFits ==
  ASSUME NEW T, NEW h, Fits(T, h), NEW rs, IsFiniteSet(rs), NEW bothWays
  PROVE  Fits(T, AddNew(h, rs, bothWays))
<1> DEFINE c == [tools |-> T, bothWays |-> bothWays]
<1>0. c.tools = T /\ c.bothWays = bothWays
  OBVIOUS
<1> HIDE DEF c
<1>1. AddNew(h, rs, bothWays) = Adding!Result(c, h, SetToSeq(rs))
  BY <1>0 DEF AddNew, NewOne, FoldLeft, MapThenFoldSet, Max,
         Adding!Result, Adding!MapThenFoldSet, Adding!Largest
<1>2. PICK n \in Nat : DOMAIN SetToSeq(rs) = 1 .. n
  BY ListOfSet
<1>3. \A i \in 1 .. n : \A acc :
        FitsTools(c, i - 1, acc) => FitsTools(c, i, NewOne(c, acc, SetToSeq(rs)[i]))
  BY AddEdgeFits DEF FitsTools, NewOne
<1>4. FitsTools(c, 0, h)
  BY <1>0 DEF FitsTools
<1>5. FitsTools(c, n, Adding!Result(c, h, SetToSeq(rs)))
  BY <1>2, <1>3, <1>4, Adding!FoldInduction
<1> QED BY <1>0, <1>1, <1>5 DEF FitsTools

(* Removal; c is [tools, list], the names in list being those to remove.   *)
DropOne(c, h, n) == RemoveNode(h, n)
FitsRest(c, i, h) == Fits(c.tools \ {c.list[j] : j \in 1 .. i}, h)
Removing == INSTANCE FoldInduction WITH Op <- DropOne, Good <- FitsRest

(* Removing a set of tools leaves the other ones.                          *)
LEMMA RemoveAllFits ==
  ASSUME NEW T, NEW h, Fits(T, h), NEW names, IsFiniteSet(names)
  PROVE  Fits(T \ names, RemoveAll(h, names))
<1> DEFINE c == [tools |-> T, list |-> SetToSeq(names)]
<1>0. c.tools = T /\ c.list = SetToSeq(names)
  OBVIOUS
<1> HIDE DEF c
<1>1. RemoveAll(h, names) = Removing!Result(c, h, SetToSeq(names))
  BY DEF RemoveAll, DropOne, FoldLeft, MapThenFoldSet, Max,
         Removing!Result, Removing!MapThenFoldSet, Removing!Largest
<1>2. PICK n \in Nat : /\ SetToSeq(names) \in [1 .. n -> names]
                       /\ \A x \in names : \E i \in 1 .. n : SetToSeq(names)[i] = x
  BY ListOfSet
<1>3. ASSUME NEW i \in 1 .. n, NEW acc, FitsRest(c, i - 1, acc)
      PROVE  FitsRest(c, i, DropOne(c, acc, SetToSeq(names)[i]))
  <2> DEFINE gone(k) == {c.list[j] : j \in 1 .. k}
  <2>1. gone(i) = gone(i - 1) \cup {c.list[i]}
    <3>1. 1 .. i = (1 .. i - 1) \cup {i}
      OBVIOUS
    <3> QED BY <3>1
  <2>2. c.tools \ gone(i) = (c.tools \ gone(i - 1)) \ {c.list[i]}
    BY <2>1
  <2>3. Fits(c.tools \ gone(i - 1), acc)
    BY <1>3 DEF FitsRest
  <2> HIDE DEF gone
  <2>4. Fits(c.tools \ gone(i), RemoveNode(acc, c.list[i]))
    BY <2>2, <2>3, RemoveNodeFits
  <2> QED BY <2>4, <1>0 DEF FitsRest, DropOne, gone
<1>4. FitsRest(c, 0, h)
  <2>1. {c.list[j] : j \in 1 .. 0} = {}
    OBVIOUS
  <2>2. T \ {} = T
    OBVIOUS
  <2> QED BY <1>0, <2>1, <2>2 DEF FitsRest
<1>5. FitsRest(c, n, Removing!Result(c, h, SetToSeq(names)))
  <2>1. DOMAIN SetToSeq(names) = 1 .. n
    BY <1>2
  <2> QED BY <1>3, <1>4, <2>1, Removing!FoldInduction
<1>6. {c.list[j] : j \in 1 .. n} = names
  BY <1>0, <1>2
<1> QED BY <1>0, <1>1, <1>5, <1>6 DEF FitsRest

(* The names that the first k schemas of a batch bring.                    *)
NamesUpTo(batch, k) == {batch[j].name : j \in 1 .. k}

(* The names of a batch, one element at a time.                            *)
LEMMA OneNameMore ==
  ASSUME NEW batch, NEW i \in Nat \ {0}
  PROVE  NamesUpTo(batch, i) = NamesUpTo(batch, i - 1) \cup {batch[i].name}
<1>1. 1 .. i = (1 .. i - 1) \cup {i}
  OBVIOUS
<1> QED BY <1>1 DEF NamesUpTo

(* Before the first element there are none.                                *)
LEMMA NoNamesYet == \A batch : NamesUpTo(batch, 0) = {}
<1>1. 1 .. 0 = {}
  OBVIOUS
<1> QED BY <1>1 DEF NamesUpTo

(* The nodes of a batch; c is [tools, batch].                              *)
AddOneNode(c, h, t) == AddNode(h, t.name, Enum("tool"))
FitsSoFar(c, i, h) == Fits(c.tools \cup NamesUpTo(c.batch, i), h)
Naming == INSTANCE FoldInduction WITH Op <- AddOneNode, Good <- FitsSoFar

(* add_tools makes every name of the batch a tool.                         *)
LEMMA AddNodesFits ==
  ASSUME NEW T, NEW h, Fits(T, h), NEW batch \in Batches
  PROVE  Fits(T \cup {batch[i].name : i \in DOMAIN batch}, AddNodes(h, batch))
<1> DEFINE c == [tools |-> T, batch |-> batch]
<1>0. c.tools = T /\ c.batch = batch
  OBVIOUS
<1> HIDE DEF c
<1>1. AddNodes(h, batch) = Naming!Result(c, h, batch)
  BY DEF AddNodes, AddOneNode, FoldLeft, MapThenFoldSet, Max,
         Naming!Result, Naming!MapThenFoldSet, Naming!Largest
<1>2. PICK n \in Nat : DOMAIN batch = 1 .. n
  BY DataIsFinite
<1>3. ASSUME NEW i \in 1 .. n, NEW acc, FitsSoFar(c, i - 1, acc)
      PROVE  FitsSoFar(c, i, AddOneNode(c, acc, batch[i]))
  <2>1. c.tools \cup NamesUpTo(batch, i)
          = (c.tools \cup NamesUpTo(batch, i - 1)) \cup {batch[i].name}
    BY OneNameMore
  <2>2. Fits(c.tools \cup NamesUpTo(batch, i), AddNode(acc, batch[i].name, Enum("tool")))
    BY <1>0, <1>3, <2>1, AddToolFits DEF FitsSoFar
  <2> QED BY <1>0, <2>2 DEF FitsSoFar, AddOneNode
<1>4. FitsSoFar(c, 0, h)
  <2>1. T \cup NamesUpTo(batch, 0) = T
    BY NoNamesYet
  <2> QED BY <1>0, <2>1 DEF FitsSoFar
<1>5. FitsSoFar(c, n, Naming!Result(c, h, batch))
  BY <1>2, <1>3, <1>4, Naming!FoldInduction
<1> QED BY <1>0, <1>1, <1>2, <1>5 DEF FitsSoFar, NamesUpTo

(* The tools as a dictionary: finitely many, and what they hold.           *)
ToolsFine(ts) == /\ IsDict(ts) /\ IsFiniteSet(DOMAIN ts)
                 /\ \A n \in DOMAIN ts : IsFiniteSet(ts[n].schema.tags)

(* A schema is entered under its own name.                                 *)
LEMMA EnterFine ==
  ASSUME NEW ts, ToolsFine(ts), NEW t, IsFiniteSet(t.tags), NEW label
  PROVE  /\ ToolsFine(Put(ts, t.name, Entry(t, label)))
         /\ DOMAIN Put(ts, t.name, Entry(t, label)) = DOMAIN ts \cup {t.name}
<1> DEFINE d == Put(ts, t.name, Entry(t, label))
<1>1. DOMAIN d = DOMAIN ts \cup {t.name}
  BY DEF Put
<1>2. IsFiniteSet(DOMAIN d)
  BY <1>1, FS_AddElement DEF ToolsFine
<1>3. \A n \in DOMAIN d : IsFiniteSet(d[n].schema.tags)
  BY DEF ToolsFine, Put, Entry
<1>4. IsDict(d)
  BY PutIsDict
<1> HIDE DEF d
<1>5. ToolsFine(d)
  BY <1>2, <1>3, <1>4 DEF ToolsFine
<1> QED BY <1>1, <1>5 DEF d

EnterOne(c, d, t) == Put(d, t.name, Entry(t, NoLabel))
FineSoFar(c, i, d) == ToolsFine(d) /\ DOMAIN d = c.tools \cup NamesUpTo(c.batch, i)
Entering == INSTANCE FoldInduction WITH Op <- EnterOne, Good <- FineSoFar

(* add_tools enters just the names it made nodes of.                       *)
LEMMA EnteredFine ==
  ASSUME NEW ts, ToolsFine(ts), NEW batch \in Batches
  PROVE  /\ ToolsFine(Entered(ts, batch))
         /\ DOMAIN Entered(ts, batch)
              = DOMAIN ts \cup {batch[i].name : i \in DOMAIN batch}
<1> DEFINE c == [tools |-> DOMAIN ts, batch |-> batch]
<1>0. c.tools = DOMAIN ts /\ c.batch = batch
  OBVIOUS
<1> HIDE DEF c
<1>1. Entered(ts, batch) = Entering!Result(c, ts, batch)
  BY DEF Entered, EnterOne, FoldLeft, MapThenFoldSet, Max,
         Entering!Result, Entering!MapThenFoldSet, Entering!Largest
<1>2. PICK n \in Nat : DOMAIN batch = 1 .. n
  BY DataIsFinite
<1>3. ASSUME NEW i \in 1 .. n, NEW acc, FineSoFar(c, i - 1, acc)
      PROVE  FineSoFar(c, i, EnterOne(c, acc, batch[i]))
  <2>1. c.tools \cup NamesUpTo(batch, i)
          = (c.tools \cup NamesUpTo(batch, i - 1)) \cup {batch[i].name}
    BY OneNameMore
  <2>2. IsFiniteSet(batch[i].tags)
    BY <1>2, DataIsFinite DEF IsSchema
  <2>3. /\ ToolsFine(Put(acc, batch[i].name, Entry(batch[i], NoLabel)))
        /\ DOMAIN Put(acc, batch[i].name, Entry(batch[i], NoLabel))
             = DOMAIN acc \cup {batch[i].name}
    BY <1>3, <2>2, EnterFine DEF FineSoFar
  <2> QED BY <1>0, <1>3, <2>1, <2>3 DEF FineSoFar, EnterOne
<1>4. FineSoFar(c, 0, ts)
  <2>1. DOMAIN ts \cup NamesUpTo(batch, 0) = DOMAIN ts
    BY NoNamesYet
  <2> QED BY <1>0, <2>1 DEF FineSoFar
<1>5. FineSoFar(c, n, Entering!Result(c, ts, batch))
  BY <1>2, <1>3, <1>4, Entering!FoldInduction
<1> QED BY <1>0, <1>1, <1>2, <1>5 DEF FineSoFar, NamesUpTo

(* Tools and graph together, as every call finds and leaves them.          *)
Catalogued(ts, h) == ToolsFine(ts) /\ Fits(DOMAIN ts, h)

(* The loop of _register_tools_batch; c is [policy, label, tools].         *)
RegisterStep(c, s, schema) == RegisterOne(c.policy, c.label, s, schema)
RegisteredWell(c, i, s) ==
  /\ s = [tools |-> s.tools, graph |-> s.graph, names |-> s.names, failed |-> s.failed]
  /\ Catalogued(s.tools, s.graph)
  /\ IsFiniteSet(s.names)
  /\ s.names = {} => s.tools = c.tools
Registering == INSTANCE FoldInduction WITH Op <- RegisterStep, Good <- RegisteredWell

(* One tool of a batch: entered and a node, or neither.                    *)
LEMMA RegisterOneWell ==
  ASSUME NEW c, NEW s, NEW i, NEW j, RegisteredWell(c, i, s), NEW schema, IsSchema(schema)
  PROVE  RegisteredWell(c, j, RegisterStep(c, s, schema))
<1> DEFINE taken == schema.name \in DOMAIN s.tools
           t == Resolved(DOMAIN s.tools, schema, c.policy, c.label)
           g == AddNode(s.graph, t.name, Enum("tool"))
           g2 == IF t.domain = NoDomain THEN g ELSE AssignCategory(g, t.name, t.domain)
           ts == Put(s.tools, t.name, Entry(t, c.label))
           k == RegisterStep(c, s, schema)
<1>1. CASE s.failed \/ (taken /\ c.policy = "skip")
  <2>1. k = s
    BY <1>1 DEF RegisterStep, RegisterOne
  <2> QED BY <2>1 DEF RegisteredWell
<1>2. CASE ~(s.failed \/ (taken /\ c.policy = "skip")) /\ taken /\ c.policy = "error"
  <2>1. k = [s EXCEPT !.failed = TRUE]
    BY <1>2 DEF RegisterStep, RegisterOne
  <2>2. k = [tools |-> s.tools, graph |-> s.graph, names |-> s.names, failed |-> TRUE]
    BY <2>1 DEF RegisteredWell
  <2> HIDE DEF k
  <2>3. RegisteredWell(c, j, k)
    BY <2>2 DEF RegisteredWell
  <2> QED BY <2>3 DEF k
<1>3. CASE ~(s.failed \/ (taken /\ c.policy = "skip")) /\ ~(taken /\ c.policy = "error")
  <2>1. k = [s EXCEPT !.tools = ts, !.graph = g2, !.names = @ \cup {t.name}]
    BY <1>3 DEF RegisterStep, RegisterOne
  <2>2. k = [tools |-> ts, graph |-> g2, names |-> s.names \cup {t.name}, failed |-> s.failed]
    BY <2>1 DEF RegisteredWell
  <2>3. IsFiniteSet(t.tags)
    BY DEF IsSchema, Resolved
  <2> HIDE DEF k, t
  <2>4. ToolsFine(ts) /\ DOMAIN ts = DOMAIN s.tools \cup {t.name}
    BY <2>3, EnterFine DEF RegisteredWell, Catalogued
  <2>5. Fits(DOMAIN ts, g2)
    BY <2>4, AddToolFits, AssignCategoryFits DEF RegisteredWell, Catalogued
  <2>6. IsFiniteSet(s.names \cup {t.name}) /\ s.names \cup {t.name} # {}
    BY FS_AddElement DEF RegisteredWell
  <2> HIDE DEF ts, g2
  <2>7. RegisteredWell(c, j, k)
    BY <2>2, <2>4, <2>5, <2>6 DEF RegisteredWell, Catalogued
  <2> QED BY <2>7 DEF k
<1> QED BY <1>1, <1>2, <1>3

(* Whatever the policy, and wherever the batch stops.                      *)
LEMMA RegisteredBatch ==
  ASSUME NEW batch \in Batches, NEW policy, NEW label, Catalogued(tools, graph)
  PROVE  LET s == Registered(batch, policy, label)
         IN  /\ Catalogued(s.tools, s.graph)
             /\ IsFiniteSet(s.names)
             /\ s.names = {} => s.tools = tools
<1> DEFINE c == [policy |-> policy, label |-> label, tools |-> tools]
           first == [tools |-> tools, graph |-> graph, names |-> {}, failed |-> FALSE]
<1>0. c.policy = policy /\ c.label = label /\ c.tools = tools
  OBVIOUS
<1>1. RegisteredWell(c, 0, first)
  BY FS_EmptySet DEF RegisteredWell
<1> HIDE DEF c
<1>2. Registered(batch, policy, label) = Registering!Result(c, first, batch)
  BY <1>0 DEF Registered, RegisterStep, FoldLeft, MapThenFoldSet, Max,
     Registering!Result, Registering!MapThenFoldSet, Registering!Largest
<1> HIDE DEF first
<1>3. PICK n \in Nat : DOMAIN batch = 1 .. n
  BY DataIsFinite
<1>4. \A i \in 1 .. n : \A acc :
        RegisteredWell(c, i - 1, acc) => RegisteredWell(c, i, RegisterStep(c, acc, batch[i]))
  BY <1>3, RegisterOneWell, DataIsFinite
<1>5. RegisteredWell(c, n, Registering!Result(c, first, batch))
  BY <1>1, <1>3, <1>4, Registering!FoldInduction
<1> QED BY <1>0, <1>2, <1>5 DEF RegisteredWell

(* Merging: a tool is removed for one that is not removed yet, so the kept *)
(* names lead from each removed tool to one that is removed later, or      *)
(* stays; h numbers the removed tools in the order of their removal.       *)
Later(m, h) == /\ h \in [DOMAIN m -> Nat]
               /\ \A n \in DOMAIN m : 1 <= h[n] /\ h[n] <= Cardinality(DOMAIN m)
               /\ \A n \in DOMAIN m : m[n] \in DOMAIN m => h[n] < h[m[n]]

Chained(T, m) == /\ DOMAIN m \subseteq T /\ IsFiniteSet(DOMAIN m)
                 /\ \A n \in DOMAIN m : m[n] \in T
                 /\ \E h : Later(m, h)

(* Before the first pair nothing is removed.                               *)
LEMMA NothingChained == \A T : Chained(T, Nothing)
<1>1. DOMAIN Nothing = {}
  BY DEF Nothing
<1>2. Later(Nothing, [n \in {} |-> 0])
  BY <1>1 DEF Later
<1> QED BY <1>1, <1>2, FS_EmptySet DEF Chained

(* A pair of two tools of which neither was removed.                       *)
LEMMA PutChained ==
  ASSUME NEW T, NEW m, Chained(T, m), NEW a \in T \ DOMAIN m, NEW b \in T \ DOMAIN m,
         a # b
  PROVE  Chained(T, Put(m, a, b))
<1> DEFINE q == Put(m, a, b)
           k == Cardinality(DOMAIN m)
<1>1. PICK h : Later(m, h)
  BY DEF Chained
<1> DEFINE g == [n \in DOMAIN m \cup {a} |-> IF n = a THEN k + 1 ELSE h[n]]
<1>2. DOMAIN q = DOMAIN m \cup {a}
  BY DEF Put
<1>3. IsFiniteSet(DOMAIN q) /\ Cardinality(DOMAIN q) = k + 1 /\ k \in Nat
  BY <1>2, FS_AddElement, FS_CardinalityType DEF Chained
<1>4. q[a] = b /\ \A n \in DOMAIN m : q[n] = m[n]
  BY DEF Put
<1>5. \A n \in DOMAIN m : h[n] \in Nat /\ 1 <= h[n] /\ h[n] <= k
  BY <1>1 DEF Later
<1> HIDE DEF q
<1>6. g \in [DOMAIN q -> Nat] /\ g[a] = k + 1 /\ \A n \in DOMAIN m : g[n] = h[n]
  BY <1>2, <1>3, <1>5
<1> HIDE DEF g, k
<1>7. \A n \in DOMAIN q : 1 <= g[n] /\ g[n] <= Cardinality(DOMAIN q)
  BY <1>2, <1>3, <1>5, <1>6
<1>8. ASSUME NEW n \in DOMAIN q, q[n] \in DOMAIN q PROVE g[n] < g[q[n]]
  <2>1. n # a
    BY <1>2, <1>4, <1>8
  <2>2. n \in DOMAIN m /\ q[n] = m[n] /\ g[n] = h[n]
    BY <1>2, <1>4, <1>6, <2>1
  <2>3. CASE m[n] = a
    BY <1>3, <1>5, <1>6, <2>2, <2>3
  <2>4. CASE m[n] # a
    <3>1. m[n] \in DOMAIN m
      BY <1>2, <1>8, <2>2, <2>4
    <3> QED BY <1>1, <1>6, <2>2, <3>1 DEF Later
  <2> QED BY <2>3, <2>4
<1>9. Later(q, g)
  BY <1>6, <1>7, <1>8 DEF Later
<1>10. \A n \in DOMAIN q : q[n] \in T
  BY <1>2, <1>4 DEF Chained
<1>11. Chained(T, q)
  BY <1>2, <1>3, <1>9, <1>10 DEF Chained
<1> QED BY <1>11 DEF q

(* merge_duplicates; c is [known, strategy].                               *)
MergeStep(c, m, p) == MergeOne(c.known, c.strategy, m, p)
ChainedStill(c, i, m) == Chained(DOMAIN c.known, m)
Merging == INSTANCE FoldInduction WITH Op <- MergeStep, Good <- ChainedStill

(* So after all pairs the chains of kept names end.                        *)
LEMMA MergedChained ==
  ASSUME NEW ts, NEW pairs \in PairLists, NEW strategy
  PROVE  Chained(DOMAIN ts, Merged(ts, pairs, strategy))
<1> DEFINE c == [known |-> ts, strategy |-> strategy]
<1>0. c.known = ts /\ c.strategy = strategy
  OBVIOUS
<1> HIDE DEF c
<1>1. Merged(ts, pairs, strategy) = Merging!Result(c, Nothing, pairs)
  BY <1>0 DEF Merged, MergeStep, FoldLeft, MapThenFoldSet, Max,
         Merging!Result, Merging!MapThenFoldSet, Merging!Largest
<1>2. PICK n \in Nat : DOMAIN pairs = 1 .. n
  BY DataIsFinite
<1>3. ASSUME NEW i \in 1 .. n, NEW m, ChainedStill(c, i - 1, m)
      PROVE  ChainedStill(c, i, MergeStep(c, m, pairs[i]))
  <2>1. pairs[i][1] # pairs[i][2]
    BY <1>2, DuplicatesDiffer
  <2>2. Chained(DOMAIN ts, m)
    BY <1>0, <1>3 DEF ChainedStill
  <2>3. \/ MergeStep(c, m, pairs[i]) = m
        \/ /\ pairs[i][1] \in DOMAIN ts \ DOMAIN m /\ pairs[i][2] \in DOMAIN ts \ DOMAIN m
           /\ \/ MergeStep(c, m, pairs[i]) = Put(m, pairs[i][2], pairs[i][1])
              \/ MergeStep(c, m, pairs[i]) = Put(m, pairs[i][1], pairs[i][2])
    BY <1>0 DEF MergeStep, MergeOne
  <2>4. Chained(DOMAIN ts, MergeStep(c, m, pairs[i]))
    BY <2>1, <2>2, <2>3, PutChained
  <2> QED BY <1>0, <2>4 DEF ChainedStill
<1>4. ChainedStill(c, 0, Nothing)
  BY NothingChained DEF ChainedStill
<1>5. ChainedStill(c, n, Merging!Result(c, Nothing, pairs))
  BY <1>2, <1>3, <1>4, Merging!FoldInduction
<1> QED BY <1>0, <1>1, <1>5 DEF ChainedStill
-----------------------------------------------------------------------------
(* What auto_organize works from is finite.                                *)
LEMMA ImageFinite ==
  ASSUME NEW f, IsFiniteSet(DOMAIN f)
  PROVE  IsFiniteSet({f[x] : x \in DOMAIN f})
<1> DEFINE T == {f[x] : x \in DOMAIN f}
           g == [x \in DOMAIN f |-> f[x]]
<1>1. g \in Surjection(DOMAIN f, T)
  BY DEF Surjection
<1> QED BY <1>1, FS_Surjection

(* Organizing adds categories, no tools.                                   *)
LEMMA OrganizedFits ==
  ASSUME Catalogued(tools, graph), NEW clusters \in Clusterings \cup {{}},
         NEW answer \in LlmAnswers \cup {NoLlm}
  PROVE  Fits(DOMAIN tools, Organized(clusters, answer))
<1> DEFINE schemas == {tools[n].schema : n \in DOMAIN tools}
           tags(t) == {<<t.name, Lower[c]>> : c \in t.tags}
           tagged == UNION {tags(t) : t \in schemas}
           withDomain == {u \in schemas : u.domain # NoDomain}
           placed == {<<t.name, Lower[t.domain]>> : t \in withDomain}
           clustered == {p \in clusters : p[1] \in DOMAIN tools}
           base == AssignAll(AssignAll(AssignAll(graph, tagged), placed), clustered)
           related == {r \in answer.relations : /\ {r.source, r.target} \subseteq DOMAIN tools
                                                /\ r.source # r.target}
           known == {q \in answer.categories : q[1] \in DOMAIN tools}
           sorted == {<<p[1], Lower[p[2]]>> : p \in known}
<1>1. IsFiniteSet(DOMAIN tools) /\ Fits(DOMAIN tools, graph)
  BY DEF Catalogued, ToolsFine
<1>2. IsFiniteSet(schemas)
  <2> DEFINE f == [n \in DOMAIN tools |-> tools[n].schema]
  <2>1. schemas = {f[n] : n \in DOMAIN f} /\ DOMAIN f = DOMAIN tools
    OBVIOUS
  <2> HIDE DEF f, schemas
  <2> QED BY <1>1, <2>1, ImageFinite
<1>3. IsFiniteSet(tagged)
  <2>1. ASSUME NEW t \in schemas PROVE IsFiniteSet(tags(t))
    <3> DEFINE f == [c \in t.tags |-> <<t.name, Lower[c]>>]
    <3>1. tags(t) = {f[c] : c \in DOMAIN f} /\ DOMAIN f = t.tags
      OBVIOUS
    <3>2. IsFiniteSet(t.tags)
      BY DEF Catalogued, ToolsFine
    <3> HIDE DEF f, tags
    <3> QED BY <3>1, <3>2, ImageFinite
  <2> DEFINE f == [t \in schemas |-> tags(t)]
  <2>2. {tags(t) : t \in schemas} = {f[t] : t \in DOMAIN f} /\ DOMAIN f = schemas
    OBVIOUS
  <2> HIDE DEF f, schemas, tags
  <2>3. IsFiniteSet({tags(t) : t \in schemas})
    BY <1>2, <2>2, ImageFinite
  <2> QED BY <2>1, <2>3, FS_UNION
<1>4. IsFiniteSet(placed)
  <2> DEFINE f == [t \in withDomain |-> <<t.name, Lower[t.domain]>>]
  <2>1. placed = {f[t] : t \in DOMAIN f} /\ DOMAIN f = withDomain
    OBVIOUS
  <2>2. IsFiniteSet(withDomain)
    BY <1>2, FS_Subset
  <2> HIDE DEF f, placed, withDomain
  <2> QED BY <2>1, <2>2, ImageFinite
<1>8. IsFiniteSet(clustered)
  BY FS_Subset, FS_EmptySet, DataIsFinite
<1> HIDE DEF tagged, placed, clustered
<1>5. Fits(DOMAIN tools, base)
  BY <1>1, <1>3, <1>4, <1>8, AssignAllFits
<1>6. CASE answer = NoLlm
  <2>1. Organized(clusters, answer) = base
    BY <1>6 DEF Organized, tagged, placed, clustered
  <2> QED BY <1>5, <2>1
<1>7. CASE answer # NoLlm
  <2>1. IsFiniteSet(answer.relations) /\ IsFiniteSet(answer.categories)
    BY <1>7, DataIsFinite
  <2>2. IsFiniteSet(related) /\ IsFiniteSet(known)
    BY <2>1, FS_Subset
  <2>3. IsFiniteSet(sorted)
    <3> DEFINE f == [p \in known |-> <<p[1], Lower[p[2]]>>]
    <3>1. sorted = {f[p] : p \in DOMAIN f} /\ DOMAIN f = known
      OBVIOUS
    <3> HIDE DEF f, sorted, known
    <3> QED BY <2>2, <3>1, ImageFinite
  <2>4. Organized(clusters, answer) = AssignAll(AddRelations(base, related), sorted)
    BY <1>7 DEF Organized, tagged, placed, clustered
  <2> HIDE DEF base, related, sorted
  <2> QED BY <1>5, <2>2, <2>3, <2>4, AddRelationsFits, AssignAllFits
<1> QED BY <1>6, <1>7

(* What detect_dependencies finds in a scope is finite.                    *)
LEMMA DetectedFinite ==
  ASSUME NEW scope
  PROVE  IsFiniteSet(Detected(scope))
BY FS_Subset, DataIsFinite DEF Detected

(* The tools and the graph, in memory and in the file.                     *)
GraphInv == /\ Catalogued(tools, graph)
            /\ file # NoFile => Catalogued(file.tools, file.graph)

(* __init__ has no tools and no nodes.                                     *)
LEMMA InitGraphInv == Init => GraphInv
<1> SUFFICES ASSUME Init PROVE GraphInv
  OBVIOUS
<1>1. DOMAIN Nothing = {} /\ IsDict(Nothing)
  BY DEF Nothing, IsDict
<1>2. ToolsFine(Nothing)
  BY <1>1, FS_EmptySet DEF ToolsFine
<1> QED BY <1>1, <1>2, EmptyFits DEF Init, GraphInv, Catalogued

(* A call that leaves the tools alone.                                     *)
LEMMA SameTools ==
  ASSUME GraphInv, UNCHANGED <<tools, file>>, Fits(DOMAIN tools, graph')
  PROVE  GraphInv'
BY DEF GraphInv, Catalogued

(* Every call keeps tools and tool nodes the same.                         *)
LEMMA NextGraphInv ==
  ASSUME GraphInv, [Next]_vars
  PROVE  GraphInv'
<1>0. Catalogued(tools, graph) /\ ToolsFine(tools) /\ Fits(DOMAIN tools, graph)
  BY DEF GraphInv, Catalogued
<1>1. ASSUME NEW schema \in Schemas, AddTool(schema) PROVE GraphInv'
  <2>1. IsFiniteSet(schema.tags)
    BY DataIsFinite DEF IsSchema
  <2>2. ToolsFine(tools') /\ DOMAIN tools' = DOMAIN tools \cup {schema.name}
    BY <1>0, <1>1, <2>1, EnterFine DEF AddTool
  <2>3. Fits(DOMAIN tools', graph')
    BY <1>0, <1>1, <2>2, AddToolFits DEF AddTool
  <2> QED BY <1>1, <2>2, <2>3 DEF GraphInv, Catalogued, AddTool, Same
<1>2. ASSUME NEW batch \in Batches, NEW detect \in BOOLEAN, AddTools(batch, detect)
      PROVE  GraphInv'
  <2> DEFINE names == {batch[i].name : i \in DOMAIN batch}
             domains == AddDomains(AddNodes(graph, batch), batch)
  <2>1. tools' = Entered(tools, batch) /\ UNCHANGED file
    BY <1>2 DEF AddTools, Same
  <2>2. ToolsFine(tools') /\ DOMAIN tools' = DOMAIN tools \cup names
    BY <1>0, <2>1, EnteredFine
  <2>3. Fits(DOMAIN tools', domains)
    BY <1>0, <2>2, AddNodesFits, AddDomainsFits
  <2>4. graph' = domains \/ graph' = AddRelations(domains, Detected(names))
    BY <1>2 DEF AddTools
  <2> HIDE DEF names, domains
  <2>5. Fits(DOMAIN tools', graph')
    BY <2>3, <2>4, DetectedFinite, AddRelationsFits
  <2> QED BY <2>1, <2>2, <2>5 DEF GraphInv, Catalogued
<1>3. ASSUME NEW batch \in Batches, NEW policy \in Policies,
             NEW label \in Labels \cup {NoLabel}, NEW detect \in BOOLEAN,
             NEW relink \in BOOLEAN, RegisterBatch(batch, policy, label, detect, relink)
      PROVE  GraphInv'
  <2> DEFINE s == Registered(batch, policy, label)
             scope == Scope(s, relink)
  <2>1. Catalogued(s.tools, s.graph)
    BY <1>0, RegisteredBatch
  <2>2. /\ tools' = s.tools /\ UNCHANGED file
        /\ graph' = s.graph \/ graph' = AddRelations(s.graph, Detected(scope))
    BY <1>3 DEF RegisterBatch, Same
  <2> HIDE DEF s, scope
  <2>3. Fits(DOMAIN tools', graph')
    BY <2>1, <2>2, DetectedFinite, AddRelationsFits DEF Catalogued
  <2> QED BY <2>1, <2>2, <2>3 DEF GraphInv, Catalogued
<1>4. ASSUME NEW pairs \in Workflows, IngestArazzo(pairs) PROVE GraphInv'
  <2> DEFINE known == {p \in pairs : {p[1], p[2]} \subseteq DOMAIN tools}
  <2>1. IsFiniteSet(known)
    BY FS_Subset, DataIsFinite
  <2>2. graph' = Ordered(graph, known) /\ UNCHANGED <<tools, file>>
    BY <1>4 DEF IngestArazzo, Same
  <2> HIDE DEF known
  <2> QED BY <1>0, <2>1, <2>2, OrderedFits, SameTools
<1>5. ASSUME NEW r \in Declared, AddRelation(r) PROVE GraphInv'
  <2>1. IsFiniteSet({r})
    BY FS_Singleton
  <2> QED BY <1>0, <1>5, <2>1, AddRelationsFits, SameTools DEF AddRelation, Same
<1>6. ASSUME NEW n \in Names, AddDomain(n) \/ AddCategoryTo(n, NoDomain) PROVE GraphInv'
  <2>1. CASE AddDomain(n)
    BY <1>0, <2>1, AddNodeFits, SameTools DEF AddDomain, Same, Enum
  <2>2. CASE AddCategoryTo(n, NoDomain)
    BY <1>0, <2>2, AddCategoryInFits, SameTools DEF AddCategoryTo, Same
  <2> QED BY <1>6, <2>1, <2>2
<1>7. ASSUME NEW c, NEW d, AddCategoryTo(c, d) PROVE GraphInv'
  BY <1>0, <1>7, AddCategoryInFits, SameTools DEF AddCategoryTo, Same
<1>8. ASSUME NEW t, NEW c, Assign(t, c) PROVE GraphInv'
  BY <1>0, <1>8, AssignCategoryFits, SameTools DEF Assign, Same
<1>9. ASSUME NEW clusters \in Clusterings \cup {{}}, NEW answer \in LlmAnswers \cup {NoLlm},
             AutoOrganize(clusters, answer)
      PROVE  GraphInv'
  BY <1>0, <1>9, OrganizedFits, SameTools DEF AutoOrganize, Same
<1>10. ASSUME NEW pairs \in PairLists, NEW strategy \in Strategies,
              MergeDuplicates(pairs, strategy)
       PROVE  GraphInv'
  <2> DEFINE merged == Merged(tools, pairs, strategy)
             aliases == {[source |-> n, target |-> merged[n], rel |-> "similar_to"] :
                           n \in DOMAIN merged}
  <2>1. DOMAIN merged \subseteq DOMAIN tools /\ IsFiniteSet(DOMAIN merged)
    BY MergedChained DEF Chained
  <2>2. CASE strategy = "create_alias"
    <3> DEFINE f == [n \in DOMAIN merged |->
                       [source |-> n, target |-> merged[n], rel |-> "similar_to"]]
    <3>1. aliases = {f[n] : n \in DOMAIN f} /\ DOMAIN f = DOMAIN merged
      OBVIOUS
    <3>2. graph' = AddRelations(graph, aliases) /\ UNCHANGED <<tools, file>>
      BY <1>10, <2>2 DEF MergeDuplicates, Same
    <3> HIDE DEF f, merged, aliases
    <3>3. IsFiniteSet(aliases)
      BY <2>1, <3>1, ImageFinite
    <3> QED BY <1>0, <3>2, <3>3, AddRelationsFits, SameTools
  <2>3. CASE strategy # "create_alias"
    <3>1. /\ tools' = [n \in DOMAIN tools \ DOMAIN merged |-> tools[n]]
          /\ graph' = RemoveAll(graph, DOMAIN merged) /\ UNCHANGED file
      BY <1>10, <2>3 DEF MergeDuplicates, Same
    <3> HIDE DEF merged
    <3>2. ToolsFine(tools') /\ DOMAIN tools' = DOMAIN tools \ DOMAIN merged
      BY <1>0, <3>1, FS_Subset DEF ToolsFine, IsDict
    <3>3. Fits(DOMAIN tools', graph')
      BY <1>0, <2>1, <3>1, <3>2, RemoveAllFits
    <3> QED BY <3>1, <3>2, <3>3 DEF GraphInv, Catalogued
  <2> QED BY <2>2, <2>3
<1>11. ASSUME NEW label \in Labels, RemoveSource(label) PROVE GraphInv'
  <2> DEFINE victims == Victims(label)
  <2>1. victims \subseteq DOMAIN tools
    BY DEF Victims
  <2>2. /\ tools' = [n \in DOMAIN tools \ victims |-> tools[n]]
        /\ graph' = RemoveAll(graph, victims) /\ UNCHANGED file
    BY <1>11 DEF RemoveSource, Same
  <2> HIDE DEF victims
  <2>3. IsFiniteSet(victims)
    BY <1>0, <2>1, FS_Subset DEF ToolsFine
  <2>4. ToolsFine(tools') /\ DOMAIN tools' = DOMAIN tools \ victims
    BY <1>0, <2>2, FS_Subset DEF ToolsFine, IsDict
  <2>5. Fits(DOMAIN tools', graph')
    BY <1>0, <2>2, <2>3, <2>4, RemoveAllFits
  <2> QED BY <2>2, <2>4, <2>5 DEF GraphInv, Catalogued
<1>12. CASE Relink
  <2> DEFINE found == IF Cardinality(DOMAIN tools) < 2 THEN {} ELSE Detected(DOMAIN tools)
  <2>1. IsFiniteSet(found)
    BY DetectedFinite, FS_EmptySet
  <2>2. graph' = AddRelations(graph, found) /\ UNCHANGED <<tools, file>>
    BY <1>12 DEF Relink, Same
  <2> HIDE DEF found
  <2> QED BY <1>0, <2>1, <2>2, AddRelationsFits, SameTools
<1>13. ASSUME NEW rs, IsFiniteSet(rs), NEW bothWays, Apply(rs, bothWays) PROVE GraphInv'
  <2> DEFINE known == {r \in rs : {r.source, r.target} \subseteq DOMAIN tools}
  <2>1. IsFiniteSet(known)
    BY <1>13, FS_Subset
  <2>2. graph' = AddNew(graph, known, bothWays) /\ UNCHANGED <<tools, file>>
    BY <1>13 DEF Apply, Same
  <2> HIDE DEF known
  <2> QED BY <1>0, <2>1, <2>2, AddNewFits, SameTools
<1>14. CASE ApplyConflicts \/ ApplyPreset
  BY <1>13, <1>14, DataIsFinite DEF ApplyConflicts, ApplyPreset
<1>15. CASE UNCHANGED <<graph, tools, file>>
  BY <1>15 DEF GraphInv
<1>16. CASE Save
  <2>1. UNCHANGED <<graph, tools>> /\ file'.graph = graph /\ file'.tools = tools
    BY <1>16 DEF Save, Same
  <2> QED BY <1>0, <2>1 DEF GraphInv
<1>17. CASE Load
  <2>1. /\ file # NoFile /\ UNCHANGED file
        /\ graph' = Reloaded(file.graph) /\ tools' = file.tools
    BY <1>17 DEF Load, Same
  <2>2. Catalogued(file.tools, file.graph)
    BY <2>1 DEF GraphInv
  <2>3. Fits(DOMAIN file.tools, graph')
    BY <2>1, <2>2, ReloadedFits DEF Catalogued
  <2> QED BY <2>1, <2>2, <2>3 DEF GraphInv, Catalogued
<1>18. CASE \/ Configure \/ Retrieve \/ WorkerLooks \/ WorkerCreates \/ WorkerSets
            \/ WorkerTakes \/ WorkerSearches \/ WorkerIndexes \/ WorkerFails
  BY <1>15, <1>18 DEF Configure, Retrieve, WorkerLooks, WorkerCreates, WorkerSets,
     WorkerTakes, WorkerSearches, WorkerIndexes, WorkerFails, Same
<1>19. CASE UNCHANGED vars
  BY <1>15, <1>19 DEF vars
<1> QED
  BY <1>1, <1>2, <1>3, <1>4, <1>5, <1>6, <1>7, <1>8, <1>9, <1>10, <1>11, <1>12, <1>14,
     <1>16, <1>17, <1>18, <1>19 DEF Next

(* GraphMatchesTools: whatever is registered, removed, merged, organised   *)
(* or loaded, in whatever order, the dictionaries of the graph agree, and  *)
(* its tool nodes are the registered tools.                                *)
THEOREM GraphAlwaysMatchesTools == Spec => []GraphMatchesTools
<1>1. GraphInv => GraphMatchesTools
  BY DEF GraphInv, Catalogued, Fits, GraphMatchesTools, GraphAgrees, ToolsAreNodes, ToolNodes
<1> QED BY <1>1, InitGraphInv, NextGraphInv, PTL DEF Spec
-----------------------------------------------------------------------------
(* The engine: what it caches is of the tools there are, unless a batch    *)
(* stopped halfway, and its index has its tokenizer, unless it came late.  *)
(* Only the worker's new engine may be without the tokenizer.  A worker    *)
(* that is searching has an engine, its own or the one in use, and what it *)
(* builds for the one in use is of the tools there are; the settings in    *)
(* the file are those of the tools in it.                                  *)
EngineFields == {"index", "embedding", "prefilter", "diversity", "reranker", "manual",
                 "tokenizer"}

Cached(e) == /\ e.index # NoIndex => e.index.of = tools
             /\ e.embedding \in {NoIndex, tools}

Tokenized(e) == /\ e.tokenizer = tokenizer \/ (worker.at = "setting" /\ e.tokenizer = FALSE)
                /\ e.index # NoIndex => e.index.late \/ e.index.tokenizer = e.tokenizer

Current(e) == /\ DOMAIN e = EngineFields /\ e = [x \in EngineFields |-> e[x]]
              /\ ~halfway => Cached(e)
              /\ Tokenized(e)

WorkerOK(w) == /\ w = [at |-> w.at, own |-> w.own, built |-> w.built]
               /\ w.own \in BOOLEAN

Busy == worker.at \in {"searching", "indexing"} /\ ~worker.own

EngineInv ==
  /\ engine # NoEngine => Current(engine)
  /\ WorkerOK(worker)
  /\ Busy => engine # NoEngine
  /\ Busy /\ worker.at = "indexing" /\ ~halfway => worker.built.of = tools
  /\ halfway \in BOOLEAN /\ tokenizer \in BOOLEAN
  /\ file # NoFile => /\ file.halfway \in BOOLEAN
                      /\ file.state # NoEngine /\ ~file.halfway =>
                           file.state.embedding \in {NoIndex, file.tools}

(* An engine is no empty dictionary.                                       *)
LEMMA SomeEngine == \A e : DOMAIN e = EngineFields => e # NoEngine
BY DEF EngineFields, NoEngine, Nothing

(* A new engine has no index yet.                                          *)
LEMMA FreshIsCurrent ==
  ASSUME NEW tok
  PROVE  /\ DOMAIN Fresh(tok) = EngineFields
         /\ Fresh(tok) = [x \in EngineFields |-> Fresh(tok)[x]]
         /\ Fresh(tok).tokenizer = tok
         /\ Fresh(tok).index = NoIndex /\ Fresh(tok).embedding = NoIndex
BY DEF Fresh, EngineFields

(* The engine in use is current, or is made new.                           *)
LEMMA GetEngineIsCurrent == EngineInv => Current(GetEngine)
BY FreshIsCurrent DEF EngineInv, GetEngine, Current, Cached, Tokenized

(* __init__ has no engine.                                                 *)
LEMMA InitEngineInv == Init => EngineInv
<1> SUFFICES ASSUME Init PROVE EngineInv
  OBVIOUS
<1>1. worker = [at |-> "idle", own |-> FALSE, built |-> NoIndex]
  BY DEF Init, Idle
<1>2. worker.at = "idle" /\ worker.own = FALSE /\ worker.built = NoIndex
  BY <1>1
<1> QED BY <1>1, <1>2 DEF Init, EngineInv, WorkerOK, Busy

(* A worker that is searching goes on with the engine it took.             *)
LEMMA KeptWorker ==
  ASSUME EngineInv, worker' = Keeping(worker)
  PROVE  WorkerOK(worker') /\ worker'.at = worker.at /\ ~Busy'
<1> DEFINE b == worker.own \/ worker.at \in {"searching", "indexing"}
<1>0. worker = [at |-> worker.at, own |-> worker.own, built |-> worker.built]
      /\ worker.own \in BOOLEAN
  BY DEF EngineInv, WorkerOK
<1>1. worker' = [worker EXCEPT !.own = b]
  BY DEF Keeping
<1>2. b \in BOOLEAN /\ (worker.at \in {"searching", "indexing"} => b = TRUE)
  BY <1>0
<1> HIDE DEF b
<1>3. worker' = [at |-> worker.at, own |-> b, built |-> worker.built]
  BY <1>0, <1>1
<1>4. worker'.at = worker.at /\ worker'.own = b /\ worker'.built = worker.built
  BY <1>3
<1> QED BY <1>2, <1>3, <1>4 DEF WorkerOK, Busy

(* The worker goes on to another step.                                     *)
LEMMA MovedWorker ==
  ASSUME EngineInv, NEW at, worker' = [worker EXCEPT !.at = at]
  PROVE  WorkerOK(worker') /\ worker'.at = at /\ worker'.own = worker.own
<1>0. worker = [at |-> worker.at, own |-> worker.own, built |-> worker.built]
      /\ worker.own \in BOOLEAN
  BY DEF EngineInv, WorkerOK
<1>1. worker' = [at |-> at, own |-> worker.own, built |-> worker.built]
  BY <1>0
<1>2. worker'.at = at /\ worker'.own = worker.own /\ worker'.built = worker.built
  BY <1>1
<1> QED BY <1>0, <1>1, <1>2 DEF WorkerOK

(* Its query is over.                                                      *)
LEMMA IdleWorker ==
  ASSUME worker' = Idle
  PROVE  WorkerOK(worker') /\ worker'.at = "idle" /\ ~Busy'
<1>1. worker' = [at |-> "idle", own |-> FALSE, built |-> NoIndex]
  BY DEF Idle
<1>2. worker'.at = "idle" /\ worker'.own = FALSE /\ worker'.built = NoIndex
  BY <1>1
<1> QED BY <1>1, <1>2 DEF WorkerOK, Busy

(* A call that drops the engine.                                           *)
LEMMA DroppedEngine ==
  ASSUME EngineInv, UNCHANGED <<tokenizer, file>>, worker' = Keeping(worker),
         halfway' = FALSE, engine' = NoEngine
  PROVE  EngineInv'
BY KeptWorker DEF EngineInv

(* As _invalidate_retrieval does.                                          *)
LEMMA InvalidatedEngine ==
  ASSUME EngineInv, UNCHANGED <<tokenizer, file>>, Invalidate
  PROVE  EngineInv'
BY DroppedEngine DEF Invalidate

(* A call that leaves the engine and the tools as they are.                *)
LEMMA SameEngine ==
  ASSUME EngineInv, UNCHANGED <<tools, engine, tokenizer, file, worker, halfway>>
  PROVE  EngineInv'
BY DEF EngineInv, Current, Cached, Tokenized, WorkerOK, Busy

(* A call that changes the engine in use, or makes it.                     *)
LEMMA ChangedEngine ==
  ASSUME EngineInv, UNCHANGED <<tools, file, halfway>>, tokenizer' \in BOOLEAN,
         Current(engine)', worker' = worker \/ (WorkerOK(worker') /\ ~Busy')
  PROVE  EngineInv'
<1>1. engine' # NoEngine
  BY SomeEngine DEF Current
<1>2. CASE worker' = worker
  BY <1>1, <1>2 DEF EngineInv, WorkerOK, Busy
<1>3. CASE WorkerOK(worker') /\ ~Busy'
  BY <1>1, <1>3 DEF EngineInv
<1> QED BY <1>2, <1>3

(* Every call that changes the tools drops the engine.                     *)
LEMMA NextEngineInv ==
  ASSUME EngineInv, GraphInv, [Next]_vars
  PROVE  EngineInv'
<1>0. ToolsFine(tools) /\ Catalogued(tools, graph) /\ IsDict(tools)
  BY DEF GraphInv, Catalogued, ToolsFine
<1>1. ASSUME NEW schema \in Schemas, AddTool(schema) PROVE EngineInv'
  BY <1>1, InvalidatedEngine DEF AddTool, Same, settings
<1>2. ASSUME NEW batch \in Batches, NEW detect \in BOOLEAN, AddTools(batch, detect)
      PROVE  EngineInv'
  BY <1>2, InvalidatedEngine DEF AddTools, Same, settings
<1>3. ASSUME NEW batch \in Batches, NEW policy \in Policies,
             NEW label \in Labels \cup {NoLabel}, NEW detect \in BOOLEAN,
             NEW relink \in BOOLEAN, RegisterBatch(batch, policy, label, detect, relink)
      PROVE  EngineInv'
  <2> DEFINE s == Registered(batch, policy, label)
  <2>1. s.names = {} => s.tools = tools
    BY <1>0, RegisteredBatch
  <2>2. /\ tools' = s.tools /\ UNCHANGED <<tokenizer, adaptive, file>>
        /\ \/ halfway' = (halfway \/ s.names # {}) /\ UNCHANGED <<engine, worker>>
           \/ Invalidate
    BY <1>3 DEF RegisterBatch, Same, settings
  <2> HIDE DEF s
  <2>3. CASE Invalidate
    BY <2>2, <2>3, InvalidatedEngine
  <2>4. CASE halfway' = (halfway \/ s.names # {}) /\ UNCHANGED <<engine, worker>>
    <3>1. CASE s.names = {}
      <4>1. UNCHANGED <<tools, engine, tokenizer, file, worker, halfway>>
        BY <2>1, <2>2, <2>4, <3>1 DEF EngineInv
      <4> QED BY <4>1, SameEngine
    <3>2. CASE s.names # {}
      <4>1. halfway' = TRUE /\ UNCHANGED <<engine, worker, tokenizer, file>>
        BY <2>2, <2>4, <3>2
      <4> QED BY <4>1 DEF EngineInv, Current, Tokenized, WorkerOK, Busy
    <3> QED BY <3>1, <3>2
  <2> QED BY <2>2, <2>3, <2>4
<1>4. ASSUME NEW pairs \in Workflows, IngestArazzo(pairs) PROVE EngineInv'
  BY <1>4, InvalidatedEngine DEF IngestArazzo, Same, settings
<1>5. ASSUME NEW r \in Declared, AddRelation(r) PROVE EngineInv'
  BY <1>5, InvalidatedEngine DEF AddRelation, Same, settings
<1>6. ASSUME NEW n \in Names, AddDomain(n) \/ AddCategoryTo(n, NoDomain) PROVE EngineInv'
  BY <1>6, SameEngine DEF AddDomain, AddCategoryTo, Same, settings
<1>7. ASSUME NEW c, NEW d, AddCategoryTo(c, d) PROVE EngineInv'
  BY <1>7, SameEngine DEF AddCategoryTo, Same, settings
<1>8. ASSUME NEW t, NEW c, Assign(t, c) PROVE EngineInv'
  BY <1>8, InvalidatedEngine DEF Assign, Same, settings
<1>9. ASSUME NEW clusters \in Clusterings \cup {{}}, NEW answer \in LlmAnswers \cup {NoLlm},
             AutoOrganize(clusters, answer)
      PROVE  EngineInv'
  <2>1. /\ engine' = Reattached /\ worker' = Keeping(worker) /\ halfway' = FALSE
        /\ UNCHANGED <<tools, tokenizer, adaptive, file>>
    BY <1>9 DEF AutoOrganize, Same, settings
  <2>2. CASE engine # NoEngine /\ engine.embedding # NoIndex
    <3>1. engine' = [Fresh(tokenizer) EXCEPT !.embedding = tools]
      BY <2>1, <2>2 DEF Reattached
    <3>2. Current(engine)'
      BY <2>1, <3>1, FreshIsCurrent DEF Current, Cached, Tokenized, EngineFields
    <3>3. engine' # NoEngine
      BY <3>2, SomeEngine DEF Current
    <3> QED BY <2>1, <3>2, <3>3, KeptWorker DEF EngineInv
  <2>3. CASE ~(engine # NoEngine /\ engine.embedding # NoIndex)
    BY <2>1, <2>3, DroppedEngine DEF Reattached
  <2> QED BY <2>2, <2>3
<1>10. ASSUME NEW pairs \in PairLists, NEW strategy \in Strategies,
              MergeDuplicates(pairs, strategy)
       PROVE  EngineInv'
  <2> DEFINE merged == Merged(tools, pairs, strategy)
  <2>1. CASE merged # Nothing
    BY <1>10, <2>1, InvalidatedEngine DEF MergeDuplicates, Same, settings
  <2>2. CASE merged = Nothing
    <3>1. /\ UNCHANGED <<engine, worker, halfway, tokenizer, file>>
          /\ tools' = tools \/ tools' = [n \in DOMAIN tools \ DOMAIN merged |-> tools[n]]
      BY <1>10, <2>2 DEF MergeDuplicates, Same, settings
    <3>2. DOMAIN tools \ DOMAIN merged = DOMAIN tools
      BY <2>2 DEF Nothing
    <3> HIDE DEF merged
    <3>3. tools' = tools
      BY <1>0, <3>1, <3>2 DEF IsDict
    <3> QED BY <3>1, <3>3, SameEngine
  <2> QED BY <2>1, <2>2
<1>11. ASSUME NEW label \in Labels, RemoveSource(label) PROVE EngineInv'
  <2> DEFINE victims == Victims(label)
  <2>1. CASE victims # {}
    BY <1>11, <2>1, InvalidatedEngine DEF RemoveSource, Same, settings
  <2>2. CASE victims = {}
    <3>1. /\ UNCHANGED <<engine, worker, halfway, tokenizer, file>>
          /\ tools' = [n \in DOMAIN tools \ victims |-> tools[n]]
      BY <1>11, <2>2 DEF RemoveSource, Same, settings
    <3>2. DOMAIN tools \ victims = DOMAIN tools
      BY <2>2
    <3> HIDE DEF victims
    <3>3. tools' = tools
      BY <1>0, <3>1, <3>2 DEF IsDict
    <3> QED BY <3>1, <3>3, SameEngine
  <2> QED BY <2>1, <2>2
<1>12. CASE Relink
  BY <1>12, InvalidatedEngine, SameEngine DEF Relink, Same, settings
<1>13. CASE ApplyConflicts \/ ApplyPreset
  BY <1>13, InvalidatedEngine, SameEngine DEF ApplyConflicts, ApplyPreset, Apply, Same, settings
<1>14. CASE Configure
  <2>0. UNCHANGED <<tools, file, worker, halfway>>
    BY <1>14 DEF Configure, Same
  <2>4. tokenizer' \in BOOLEAN
    BY <1>14 DEF Configure, EnableEmbedding, EnableDiversity, EnableReranker, SetWeights,
       TuneForScale, SetTokenizer, EngineInv, Same
  <2>1. CASE EnableEmbedding
    <3>1. Current(engine)'
      BY <2>0, <2>1, GetEngineIsCurrent DEF EnableEmbedding, Current, Cached, Tokenized,
         EngineFields, Same
    <3> QED BY <2>0, <2>4, <3>1, ChangedEngine
  <2>2. CASE EnableDiversity \/ EnableReranker \/ SetWeights \/ TuneForScale
    <3>1. Current(engine)'
      BY <2>0, <2>2, GetEngineIsCurrent DEF EnableDiversity, EnableReranker, SetWeights,
         TuneForScale, Current, Cached, Tokenized, EngineFields, Same
    <3> QED BY <2>0, <2>4, <3>1, ChangedEngine
  <2>3. CASE SetTokenizer
    <3>1. CASE engine = NoEngine
      BY <2>0, <2>3, <3>1 DEF SetTokenizer, EngineInv, WorkerOK, Busy
    <3>2. CASE engine # NoEngine
      <4>1. Current(engine)'
        BY <2>0, <2>3, <3>2 DEF SetTokenizer, EngineInv, Current, Cached, Tokenized, EngineFields
      <4> QED BY <2>0, <2>4, <4>1, ChangedEngine
    <3> QED BY <3>1, <3>2
  <2> QED BY <1>14, <2>1, <2>2, <2>3 DEF Configure
<1>15. CASE Retrieve
  <2>1. UNCHANGED <<tools, file, worker, halfway, tokenizer>> /\ engine' = Indexed(GetEngine)
    BY <1>15 DEF Retrieve, Same, settings
  <2>2. Current(GetEngine)
    BY GetEngineIsCurrent
  <2>3. CASE GetEngine.index # NoIndex
    <3>1. engine' = GetEngine
      BY <2>1, <2>3 DEF Indexed
    <3>2. Current(engine)'
      BY <2>1, <2>2, <3>1 DEF Current, Cached, Tokenized
    <3> QED BY <2>1, <3>2, ChangedEngine DEF EngineInv
  <2>4. CASE GetEngine.index = NoIndex
    <3>1. engine' = [GetEngine EXCEPT !.index = Built(GetEngine)]
      BY <2>1, <2>4 DEF Indexed
    <3>2. Current(engine)'
      BY <2>1, <2>2, <3>1 DEF Built, Current, Cached, Tokenized, EngineFields
    <3> QED BY <2>1, <3>2, ChangedEngine DEF EngineInv
  <2> QED BY <2>3, <2>4
<1>16. CASE WorkerLooks \/ WorkerTakes
  <2>1. /\ UNCHANGED <<tools, engine, tokenizer, file, halfway>> /\ worker.at # "setting"
        /\ \E at \in {"creating", "taking", "failed", "searching"} :
             /\ worker' = [worker EXCEPT !.at = at]
             /\ at = "searching" => engine # NoEngine
    BY <1>16 DEF WorkerLooks, WorkerTakes, Same, settings
  <2>2. PICK at \in {"creating", "taking", "failed", "searching"} :
           worker' = [worker EXCEPT !.at = at] /\ (at = "searching" => engine # NoEngine)
    BY <2>1
  <2>3. WorkerOK(worker') /\ worker'.at = at
    BY <2>2, MovedWorker
  <2>4. engine # NoEngine => Current(engine)'
    BY <2>1 DEF EngineInv, Current, Cached, Tokenized
  <2> QED BY <2>1, <2>2, <2>3, <2>4 DEF EngineInv, Busy
<1>17. CASE WorkerFails
  <2>1. /\ UNCHANGED <<tools, engine, tokenizer, file, halfway>> /\ worker.at = "failed"
        /\ worker' = Idle
    BY <1>17 DEF WorkerFails, Same, settings
  <2>2. engine # NoEngine => Current(engine)'
    BY <2>1 DEF EngineInv, Current, Cached, Tokenized
  <2> QED BY <2>1, <2>2, IdleWorker DEF EngineInv
<1>18. CASE WorkerCreates
  <2>1. /\ UNCHANGED <<tools, file, halfway, tokenizer>> /\ engine' = Fresh(FALSE)
        /\ worker' = [worker EXCEPT !.at = "setting"]
    BY <1>18 DEF WorkerCreates, Same, settings
  <2>2. WorkerOK(worker') /\ worker'.at = "setting"
    BY <2>1, MovedWorker
  <2>3. Current(engine)'
    BY <2>1, <2>2, FreshIsCurrent DEF Current, Cached, Tokenized
  <2> QED BY <2>1, <2>2, <2>3, ChangedEngine DEF EngineInv, Busy
<1>22. CASE WorkerSets
  <2>1. /\ UNCHANGED <<tools, file, halfway, tokenizer>> /\ worker.at = "setting"
        /\ \E at \in {"taking", "failed"} : worker' = [worker EXCEPT !.at = at]
        /\ engine' = IF tokenizer /\ engine # NoEngine
                     THEN [engine EXCEPT !.tokenizer = TRUE, !.index = NoIndex] ELSE engine
    BY <1>22 DEF WorkerSets, Same, settings
  <2>2. PICK at \in {"taking", "failed"} : worker' = [worker EXCEPT !.at = at]
    BY <2>1
  <2>3. WorkerOK(worker') /\ worker'.at \in {"taking", "failed"} /\ ~Busy'
    BY <2>2, MovedWorker DEF Busy
  <2>4. tokenizer \in BOOLEAN
    BY DEF EngineInv
  <2>5. CASE engine = NoEngine
    BY <2>1, <2>3, <2>4, <2>5 DEF EngineInv
  <2>6. CASE engine # NoEngine
    <3>1. Current(engine)
      BY <2>6 DEF EngineInv
    <3>2. CASE tokenizer
      <4>1. engine' = [engine EXCEPT !.tokenizer = TRUE, !.index = NoIndex]
        BY <2>1, <2>6, <3>2
      <4>2. Current(engine)'
        BY <2>1, <2>4, <3>1, <3>2, <4>1 DEF Current, Cached, Tokenized, EngineFields
      <4> QED BY <2>1, <2>3, <2>4, <4>2, ChangedEngine
    <3>3. CASE ~tokenizer
      <4>1. engine' = engine /\ tokenizer = FALSE
        BY <2>1, <2>4, <3>3
      <4>2. Current(engine)'
        BY <2>1, <3>1, <4>1 DEF Current, Cached, Tokenized
      <4> QED BY <2>1, <2>3, <2>4, <4>2, ChangedEngine
    <3> QED BY <3>2, <3>3
  <2> QED BY <2>5, <2>6
<1>23. CASE WorkerSearches
  <2>1. /\ UNCHANGED <<tools, engine, tokenizer, file, halfway>> /\ worker.at = "searching"
        /\ worker' = IF worker.own \/ engine.index # NoIndex THEN Idle
                     ELSE [worker EXCEPT !.at = "indexing", !.built = Built(engine)]
    BY <1>23 DEF WorkerSearches, Same, settings
  <2>2. engine # NoEngine => Current(engine)'
    BY <2>1 DEF EngineInv, Current, Cached, Tokenized
  <2>3. CASE worker.own \/ engine.index # NoIndex
    BY <2>1, <2>2, <2>3, IdleWorker DEF EngineInv
  <2>4. CASE ~(worker.own \/ engine.index # NoIndex)
    <3>1. worker = [at |-> worker.at, own |-> worker.own, built |-> worker.built]
          /\ worker.own \in BOOLEAN
      BY DEF EngineInv, WorkerOK
    <3>2. worker' = [at |-> "indexing", own |-> worker.own, built |-> Built(engine)]
      BY <2>1, <2>4, <3>1
    <3>3. /\ worker'.at = "indexing" /\ worker'.own = worker.own
          /\ worker'.built = Built(engine)
      BY <3>2
    <3>4. worker'.built.of = tools
      BY <3>3 DEF Built
    <3>5. WorkerOK(worker')
      BY <3>1, <3>2, <3>3 DEF WorkerOK
    <3>6. engine # NoEngine
      BY <2>1, <2>4 DEF EngineInv, Busy
    <3> QED BY <2>1, <2>2, <3>3, <3>4, <3>5, <3>6 DEF EngineInv, Busy
  <2> QED BY <2>3, <2>4
<1>24. CASE WorkerIndexes
  <2> DEFINE late == worker.built.tokenizer # engine.tokenizer
             built == [of |-> worker.built.of, tokenizer |-> worker.built.tokenizer,
                       late |-> late]
  <2>1. /\ UNCHANGED <<tools, file, halfway, tokenizer>> /\ worker' = Idle
        /\ engine' = IF worker.own THEN engine ELSE [engine EXCEPT !.index = built]
        /\ worker.at = "indexing"
    BY <1>24 DEF WorkerIndexes, Same, settings
  <2>2. WorkerOK(worker') /\ worker'.at = "idle" /\ ~Busy'
    BY <2>1, IdleWorker
  <2>3. CASE worker.own
    <3>1. engine # NoEngine => Current(engine)'
      BY <2>1, <2>3 DEF EngineInv, Current, Cached, Tokenized
    <3> QED BY <2>1, <2>2, <2>3, <3>1 DEF EngineInv
  <2>4. CASE ~worker.own
    <3>1. Busy /\ Current(engine) /\ (~halfway => worker.built.of = tools)
      BY <2>1, <2>4 DEF EngineInv, Busy
    <3>2. /\ built.of = worker.built.of /\ built.tokenizer = worker.built.tokenizer
          /\ built.late \/ built.tokenizer = engine.tokenizer
      OBVIOUS
    <3>3. engine' = [engine EXCEPT !.index = built]
      BY <2>1, <2>4
    <3> HIDE DEF built
    <3>4. Current(engine)'
      BY <2>1, <3>1, <3>2, <3>3 DEF Current, Cached, Tokenized, EngineFields
    <3> QED BY <2>1, <2>2, <3>4, ChangedEngine DEF EngineInv
  <2> QED BY <2>3, <2>4
<1>19. CASE Save
  <2>1. /\ UNCHANGED <<graph, tools, engine, tokenizer, worker, halfway>>
        /\ file' = [graph |-> graph, tools |-> tools,
                    state |-> IF engine = NoEngine THEN NoEngine
                              ELSE [embedding |-> engine.embedding,
                                    diversity |-> engine.diversity],
                    halfway |-> halfway]
    BY <1>19 DEF Save, Same, settings
  <2>2. file'.halfway \in BOOLEAN /\ file'.tools = tools'
    BY <2>1 DEF EngineInv
  <2>3. file'.state # NoEngine /\ ~file'.halfway =>
          file'.state.embedding \in {NoIndex, file'.tools}
    BY <2>1 DEF EngineInv, Current, Cached
  <2> QED BY <2>1, <2>2, <2>3 DEF EngineInv, Current, Cached, Tokenized, WorkerOK, Busy
<1>20. CASE Load
  <2>1. /\ file # NoFile /\ UNCHANGED <<file, worker>> /\ worker = Idle
        /\ tools' = file.tools /\ halfway' = file.halfway /\ tokenizer' = FALSE
        /\ engine' = IF file.state = NoEngine THEN NoEngine
                     ELSE [Fresh(FALSE) EXCEPT !.embedding = file.state.embedding,
                                               !.diversity = file.state.diversity,
                                               !.manual = TRUE]
    BY <1>20 DEF Load, Same
  <2>2. WorkerOK(worker') /\ worker'.at = "idle" /\ ~Busy'
    BY <2>1, IdleWorker
  <2>3. engine' # NoEngine => Current(engine)'
    BY <2>1 DEF EngineInv, Current, Cached, Tokenized, Fresh, EngineFields
  <2>4. halfway' \in BOOLEAN /\ tokenizer' \in BOOLEAN
    BY <2>1 DEF EngineInv
  <2> QED BY <2>1, <2>2, <2>3, <2>4 DEF EngineInv
<1>21. CASE UNCHANGED vars
  BY <1>21, SameEngine DEF vars
<1> QED
  BY <1>1, <1>2, <1>3, <1>4, <1>5, <1>6, <1>7, <1>8, <1>9, <1>10, <1>11, <1>12, <1>13,
     <1>14, <1>15, <1>16, <1>17, <1>18, <1>19, <1>20, <1>21, <1>22, <1>23, <1>24 DEF Next

(* EngineIsCurrent: however often the engine is dropped and made again, by *)
(* whichever thread, and whatever was saved and loaded, its index and its  *)
(* embeddings are of the tools there are, unless a batch that failed       *)
(* halfway left it in place, and it has the tokenizer that was set, but    *)
(* for the engine a worker has not given it yet and the index a worker     *)
(* assigned after the tokenizer had changed.                               *)
THEOREM EngineAlwaysCurrent == Spec => []EngineIsCurrent
<1>1. EngineInv => EngineIsCurrent
  BY DEF EngineInv, Current, Cached, Tokenized, EngineIsCurrent, IndexIsCurrent,
     TokenizerSurvives
<1> QED BY <1>1, InitEngineInv, NextEngineInv, InitGraphInv, NextGraphInv, PTL DEF Spec

(* LoadRestores: what load makes of a file is the graph that was saved,    *)
(* its types and relations now as the strings they equal, the tools that   *)
(* were saved, and an embedding index, if any, of just these tools; only a *)
(* batch that failed halfway before save may have left it behind them.     *)
THEOREM LoadAlwaysRestores == Spec => LoadRestores
<1> DEFINE Restored == /\ InText(graph') = InText(file.graph)
                       /\ tools' = file.tools
                       /\ \/ engine' = NoEngine \/ file.halfway
                          \/ engine'.embedding \in {NoIndex, tools'}
<1>1. ASSUME GraphInv, EngineInv, Load PROVE Restored
  <2>1. /\ file # NoFile /\ graph' = Reloaded(file.graph) /\ tools' = file.tools
        /\ engine' = IF file.state = NoEngine THEN NoEngine
                     ELSE [Fresh(FALSE) EXCEPT !.embedding = file.state.embedding,
                                               !.diversity = file.state.diversity,
                                               !.manual = TRUE]
    BY <1>1 DEF Load
  <2>2. InText(graph') = InText(file.graph)
    BY <1>1, <2>1, ReloadedFits DEF GraphInv, Catalogued
  <2>3. engine' = NoEngine \/ engine'.embedding = file.state.embedding
    BY <2>1 DEF Fresh
  <2>4. file.state # NoEngine /\ ~file.halfway =>
          file.state.embedding \in {NoIndex, file.tools}
    BY <1>1, <2>1 DEF EngineInv
  <2> QED BY <2>1, <2>2, <2>3, <2>4
<1>2. GraphInv /\ EngineInv => [Load => Restored]_vars
  BY <1>1
<1> HIDE DEF Restored
<1>3. Spec => [][Load => Restored]_vars
  BY <1>2, InitEngineInv, NextEngineInv, InitGraphInv, NextGraphInv, PTL DEF Spec
<1> QED BY <1>3, PTL DEF LoadRestores, Restored
-----------------------------------------------------------------------------
(* The function Kept(m) is, along the first k kept names.                  *)
KeptStep(m, prior, n) == IF prior[n] \in DOMAIN m THEN m[prior[n]] ELSE prior[n]

KeptTo(m, f, k) ==
  f = [i \in 0 .. k |-> [n \in DOMAIN m |-> IF i = 0 THEN n
                                             ELSE IF f[i - 1][n] \in DOMAIN m THEN m[f[i - 1][n]]
                                             ELSE f[i - 1][n]]]

(* The recursive function Kept exists.                                     *)
LEMMA KeptExists ==
  ASSUME NEW m, NEW k \in Nat
  PROVE  \E f : KeptTo(m, f, k)
<1> DEFINE T == {j \in Nat : \E f : KeptTo(m, f, j)}
<1>1. 0 \in T
  <2> DEFINE f == [i \in 0 .. 0 |-> [n \in DOMAIN m |-> n]]
  <2>1. \A i \in 0 .. 0 : i = 0
    OBVIOUS
  <2>2. KeptTo(m, f, 0)
    BY <2>1 DEF KeptTo
  <2> HIDE DEF f
  <2> QED BY <2>2
<1>2. ASSUME NEW j \in T PROVE j + 1 \in T
  <2>1. PICK f : KeptTo(m, f, j)
    OBVIOUS
  <2> DEFINE top == [n \in DOMAIN m |-> KeptStep(m, f[j], n)]
             g == [i \in 0 .. j + 1 |-> IF i = j + 1 THEN top ELSE f[i]]
             at(i) == [n \in DOMAIN m |-> IF i = 0 THEN n ELSE KeptStep(m, g[i - 1], n)]
  <2>2. ASSUME NEW i \in 0 .. j + 1 PROVE g[i] = at(i)
    <3>1. CASE i = j + 1
      <4>1. i - 1 = j /\ i # 0 /\ g[j] = f[j] /\ g[i] = top
        BY <3>1
      <4> HIDE DEF g
      <4> QED BY <4>1
    <3>2. CASE i # j + 1
      <4>1. i \in 0 .. j /\ g[i] = f[i] /\ (i # 0 => g[i - 1] = f[i - 1])
        BY <3>2
      <4>2. f[i] = [n \in DOMAIN m |-> IF i = 0 THEN n ELSE KeptStep(m, f[i - 1], n)]
        BY <2>1, <4>1 DEF KeptTo, KeptStep
      <4> HIDE DEF g
      <4>3. CASE i = 0
        BY <4>1, <4>2, <4>3
      <4>4. CASE i # 0
        BY <4>1, <4>2, <4>4
      <4> QED BY <4>3, <4>4
    <3> QED BY <3>1, <3>2
  <2>3. g = [i \in 0 .. j + 1 |-> g[i]]
    OBVIOUS
  <2> HIDE DEF g
  <2>4. KeptTo(m, g, j + 1)
    BY <2>2, <2>3 DEF KeptTo, KeptStep
  <2> QED BY <2>4
<1> HIDE DEF T
<1>3. T = Nat
  BY <1>1, <1>2, Merging!SetInduction DEF T
<1> QED BY <1>3 DEF T

(* It follows the kept names one by one.                                   *)
LEMMA KeptIsKept ==
  ASSUME NEW m, Cardinality(DOMAIN m) \in Nat
  PROVE  KeptTo(m, Kept(m), Cardinality(DOMAIN m))
<1> DEFINE k == Cardinality(DOMAIN m)
<1>1. \E f : KeptTo(m, f, k)
  BY KeptExists
<1>2. Kept(m) = CHOOSE f : KeptTo(m, f, k)
  BY DEF Kept, KeptTo
<1> QED BY <1>1, <1>2

(* A chain visits no name twice, so it leaves the removed ones.            *)
LEMMA ChainsEnd ==
  ASSUME NEW T, NEW m, Chained(T, m), NEW n \in DOMAIN m
  PROVE  Kept(m)[Cardinality(DOMAIN m)][n] \in T \ DOMAIN m
<1> DEFINE k == Cardinality(DOMAIN m)
           f == Kept(m)
<1>1. k \in Nat
  BY FS_CardinalityType DEF Chained
<1>2. KeptTo(m, f, k)
  BY <1>1, KeptIsKept
<1>3. PICK h : Later(m, h)
  BY DEF Chained
<1> HIDE DEF k, f
<1> DEFINE On(i) == \/ f[i][n] \in T \ DOMAIN m
                    \/ f[i][n] \in DOMAIN m /\ h[f[i][n]] > i
           S == {i \in Nat : i <= k => On(i)}
<1>4. 0 \in S
  <2>1. 0 \in 0 .. k
    BY <1>1
  <2>2. f[0][n] = n
    BY <1>2, <2>1 DEF KeptTo
  <2>3. h[n] \in Nat /\ 1 <= h[n]
    BY <1>3 DEF Later
  <2> QED BY <2>2, <2>3
<1>5. ASSUME NEW i \in S PROVE i + 1 \in S
  <2> SUFFICES ASSUME i + 1 <= k PROVE On(i + 1)
    OBVIOUS
  <2>1. i \in Nat /\ On(i)
    BY <1>1
  <2>2. i + 1 \in 0 .. k /\ i + 1 # 0 /\ (i + 1) - 1 = i
    BY <1>1, <2>1
  <2>3. f[i + 1][n] = KeptStep(m, f[i], n)
    <3> DEFINE j == i + 1
    <3>1. j \in 0 .. k /\ j # 0 /\ j - 1 = i
      BY <2>2
    <3> HIDE DEF j
    <3>2. f[j] = [x \in DOMAIN m |-> IF j = 0 THEN x
                                     ELSE IF f[j - 1][x] \in DOMAIN m THEN m[f[j - 1][x]]
                                     ELSE f[j - 1][x]]
      BY <1>2, <3>1 DEF KeptTo
    <3>3. f[j][n] = KeptStep(m, f[i], n)
      BY <3>1, <3>2 DEF KeptStep
    <3> QED BY <3>3 DEF j
  <2>4. CASE f[i][n] \in T \ DOMAIN m
    BY <2>3, <2>4 DEF KeptStep
  <2>5. CASE f[i][n] \in DOMAIN m /\ h[f[i][n]] > i
    <3> DEFINE x == f[i][n]
    <3>1. f[i + 1][n] = m[x] /\ m[x] \in T
      BY <2>3, <2>5 DEF KeptStep, Chained
    <3>2. m[x] \in DOMAIN m => h[x] < h[m[x]] /\ h[x] \in Nat /\ h[m[x]] \in Nat
      BY <1>3, <2>5 DEF Later
    <3>3. m[x] \in DOMAIN m => h[m[x]] > i + 1
      BY <2>1, <2>5, <3>2
    <3> QED BY <3>1, <3>3
  <2> QED BY <2>1, <2>4, <2>5
<1> HIDE DEF S
<1>6. S = Nat
  BY <1>4, <1>5, Merging!SetInduction DEF S
<1>7. On(k)
  BY <1>1, <1>6 DEF S
<1>8. f[k][n] \in DOMAIN m => h[f[k][n]] \in Nat /\ h[f[k][n]] <= k
  BY <1>3 DEF Later, k
<1>9. f[k][n] \in T \ DOMAIN m
  BY <1>1, <1>7, <1>8
<1> QED BY <1>9 DEF k, f

(* MergeKeepsOne: whatever pairs are merged, with tools gone since they    *)
(* were found, the kept names lead from each removed tool to one that      *)
(* stays registered.                                                       *)
THEOREM MergingAlwaysKeepsOne == Spec => []MergeKeepsOne
<1>1. MergeKeepsOne
  BY MergedChained, ChainsEnd DEF MergeKeepsOne
<1> QED BY <1>1, PTL
=============================================================================
