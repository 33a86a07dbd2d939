----------------------------- MODULE DictGraph -----------------------------
(***************************************************************************)
(* core/dict_graph.py: a directed graph kept in three dictionaries, the    *)
(* nodes with their attributes and every edge twice, under its source in   *)
(* out and under its target in inn.  The three are updated one after       *)
(* another, so what could go wrong is that they come to disagree.          *)
(*                                                                         *)
(* A dictionary is a function on the keys it has.  Of a node's attributes  *)
(* the node_type is kept, of an edge's the value stored for it.            *)
(***************************************************************************)
EXTENDS Integers

CONSTANT NoType   \* a node that has no node_type attribute

(* Dictionaries: d[k] = v, del d[k], d.setdefault(k, {}).                  *)
Put(d, k, v) == [x \in DOMAIN d \cup {k} |-> IF x = k THEN v ELSE d[x]]
Drop(d, k)   == [x \in DOMAIN d \ {k} |-> d[x]]
Nothing      == [x \in {} |-> {}]
SetDefault(d, k) == IF k \in DOMAIN d THEN d ELSE Put(d, k, Nothing)
Keys(d, k) == IF k \in DOMAIN d THEN DOMAIN d[k] ELSE {}

EmptyGraph == [nodes |-> Nothing, out |-> Nothing, inn |-> Nothing]

HasNode(g, n) == n \in DOMAIN g.nodes
HasEdge(g, s, t) == t \in Keys(g.out, s)
NodesOf(g) == DOMAIN g.nodes
EdgesOf(g) == {e \in (DOMAIN g.out) \X (DOMAIN g.inn) : HasEdge(g, e[1], e[2])}

(* attrs.update: an attribute that is not given keeps its value.           *)
Updated(old, new) == IF new = NoType THEN old ELSE new

AddNode(g, n, type) ==
  IF HasNode(g, n)
  THEN [nodes |-> Put(g.nodes, n, Updated(g.nodes[n], type)),
        out   |-> g.out,
        inn   |-> g.inn]
  ELSE [nodes |-> Put(g.nodes, n, type),
        out   |-> SetDefault(g.out, n),
        inn   |-> SetDefault(g.inn, n)]

(* The mirrors of the edges that leave n are deleted first, then those of  *)
(* the edges that enter it: a self-loop is gone by then.                   *)
WithoutKey(d, at, k) ==
  [x \in DOMAIN d |-> IF x \in at THEN Drop(d[x], k) ELSE d[x]]

(* Mutant of RemoveNode: only the edges that leave the node are looked for.*)
RemoveNodeOutOnly(g, n) ==
  [nodes |-> Drop(g.nodes, n),
   out   |-> Drop(g.out, n),
   inn   |-> Drop(WithoutKey(g.inn, Keys(g.out, n), n), n)]

RemoveNode(g, n) ==
  LET inn == WithoutKey(g.inn, Keys(g.out, n), n)
      out == WithoutKey(g.out, Keys(inn, n), n)
  IN  [nodes |-> Drop(g.nodes, n), out |-> Drop(out, n), inn |-> Drop(inn, n)]

(* Endpoints that are missing are created, without attributes; the two     *)
(* entries share one attribute dictionary.                                 *)
AddEdge(g, s, t, attrs) ==
  LET h == AddNode(AddNode(g, s, NoType), t, NoType)
  IN  [nodes |-> h.nodes,
       out   |-> Put(h.out, s, Put(h.out[s], t, attrs)),
       inn   |-> Put(h.inn, t, Put(h.inn[t], s, attrs))]

RemoveEdge(g, s, t) ==
  [nodes |-> g.nodes,
   out   |-> Put(g.out, s, Drop(g.out[s], t)),
   inn   |-> Put(g.inn, t, Drop(g.inn[t], s))]

Neighbors(g, n, direction) ==
       (IF direction \in {"out", "both"} THEN Keys(g.out, n) ELSE {})
  \cup (IF direction \in {"in", "both"} THEN Keys(g.inn, n) ELSE {})

(* The nodes bfs reaches; their order within a depth is that of a set.     *)
Bfs(g, start, maxDepth) ==
  LET Ball[d \in 0..maxDepth] ==
        IF d = 0 THEN {start}
        ELSE Ball[d - 1] \cup UNION {Neighbors(g, n, "both") : n \in Ball[d - 1]}
  IN  IF HasNode(g, start) THEN Ball[maxDepth] ELSE {}

(* Mutant of Rebuilt: a node is written by its name, without attributes.   *)
RebuiltBare(g, keep) ==
  LET kept == NodesOf(g) \cap keep
  IN  [nodes |-> [n \in kept |-> NoType],
       out   |-> [s \in kept |-> [t \in Keys(g.out, s) \cap kept |-> g.out[s][t]]],
       inn   |-> [t \in kept |-> [s \in Keys(g.inn, t) \cap kept |-> g.inn[t][s]]]]

(* subgraph, and from_dict(to_dict(g)), in which the attributes are those  *)
(* of g: the nodes first, then every edge of out between two of them.      *)
Rebuilt(g, keep) ==
  LET kept == NodesOf(g) \cap keep
      targets(s) == Keys(g.out, s) \cap kept
      sources(t) == {s \in kept : t \in targets(s)}
  IN  [nodes |-> [n \in kept |-> g.nodes[n]],
       out   |-> [s \in kept |-> [t \in targets(s) |-> g.out[s][t]]],
       inn   |-> [t \in kept |-> [s \in sources(t) |-> g.out[s][t]]]]

Subgraph(g, ids) == Rebuilt(g, ids)
Copied(g) == Rebuilt(g, NodesOf(g))
----------------------------------------------------------------------------
(* The three dictionaries agree: each node has its two entries, every edge *)
(* joins nodes, and it is found from both ends with the same attributes.   *)
Consistent(g) ==
  /\ DOMAIN g.out = DOMAIN g.nodes
  /\ DOMAIN g.inn = DOMAIN g.nodes
  /\ \A n \in DOMAIN g.nodes :
       /\ DOMAIN g.out[n] \subseteq DOMAIN g.nodes
       /\ DOMAIN g.inn[n] \subseteq DOMAIN g.nodes
  /\ \A s, t \in DOMAIN g.nodes :
       /\ t \in DOMAIN g.out[s] <=> s \in DOMAIN g.inn[t]
       /\ t \in DOMAIN g.out[s] => g.out[s][t] = g.inn[t][s]
----------------------------------------------------------------------------
(* A value of the source's dict, and a graph made of them.                 *)
IsDict(d) == d = [x \in DOMAIN d |-> d[x]]

IsGraph(g) ==
  /\ g = [nodes |-> g.nodes, out |-> g.out, inn |-> g.inn]
  /\ IsDict(g.nodes) /\ IsDict(g.out) /\ IsDict(g.inn)
  /\ \A n \in DOMAIN g.out : IsDict(g.out[n])
  /\ \A n \in DOMAIN g.inn : IsDict(g.inn[n])
=============================================================================
