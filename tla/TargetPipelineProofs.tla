------------------------ MODULE TargetPipelineProofs ------------------------
(***************************************************************************)
(* Proofs about TargetPipeline, for every catalog, graph and request of    *)
(* finitely many tools.  The search of dependency_closure.py is a stack:   *)
(* VisitShape says what it may hold, and on it rest the arguments,         *)
(*   NoneForbidden : what the search adds or offers may be called;         *)
(*   RowsDealt     : the rows of a tool whose visit returned are dealt with*)
(*                   (served by the caller, a slot or a tool, or the bundle*)
(*                   has a gap or a cycle);                                *)
(*   FedByDone     : a tool waits only for tools whose visit returned, so  *)
(*                   these can be run one after the other;                 *)
(*   Admitting     : the schemas admitted are those of the chain, in order,*)
(*                   before any other;                                     *)
(*   Decided       : the admission and the verdict are those of the request*)
(*   Offering      : and so is what is offered around the target.          *)
(* The last two leave the work to the functions of TargetSelection: what   *)
(* is scored is a number (IsEvidence), the limit of an admission fits its  *)
(* order (LimitFits), the caps lose no name to keep and no group           *)
(* (KeepAlwaysKeeps, CappedCovers), the rounds give every group its turn   *)
(* (RoundsAreFair), and each hop feeds the tools it passed (HopCrosses).   *)
(***************************************************************************)
EXTENDS TargetPipeline, OrderingLemmas

(* Keys of four integers, as the rankings of the closure are.              *)
IsKey(k) == /\ k = <<k[1], k[2], k[3], k[4]>>
            /\ k[1] \in Int /\ k[2] \in Int /\ k[3] \in Int /\ k[4] \in Int

(* A set ranked by distinct keys is listed one by one.                     *)
LEMMA SortedIn ==
  ASSUME NEW S, NEW key, IsFiniteSet(S),
         \A s \in S : IsKey(key[s]),
         \A s, t \in S : key[s] = key[t] => s = t
  PROVE  /\ DOMAIN Sorted(S, key) = 1 .. Cardinality(S)
         /\ \A i \in 1 .. Cardinality(S) : Sorted(S, key)[i] \in S
<1>1. 4 \in Nat /\ \A s \in S : key[s] \in Key(4)
  <2>1. ASSUME NEW k, IsKey(k) PROVE k \in Key(4)
    BY <2>1 DEF IsKey, Key
  <2> QED BY <2>1
<1>2. PICK list : list = Sorted(S, key)
  OBVIOUS
<1>3. DOMAIN list = 1 .. Cardinality(S) /\ ToSet(list) = S
  BY <1>1, <1>2, SortedList
<1>4. \A i \in DOMAIN list : list[i] \in S
  BY <1>3 DEF ToSet
<1> QED BY <1>2, <1>3, <1>4

-----------------------------------------------------------------------------
(* What the closure chooses from.                                          *)

(* The catalog's order gives each tool a rank of its own.                  *)
LEMMA RankIsOwn ==
  ASSUME r \in Requests
  PROVE  /\ \A t \in r.tools : Rank(t) \in Nat
         /\ \A s, t \in r.tools : Rank(s) = Rank(t) => s = t
<1>1. \A t \in r.tools : \E i \in DOMAIN ToolOrder : ToolOrder[i] = t
  BY RequestsAssumption DEF IsRequest, ToSet
<1>2. \A t \in r.tools : Rank(t) \in DOMAIN ToolOrder /\ ToolOrder[Rank(t)] = t
  BY <1>1 DEF Rank, Place
<1>3. DOMAIN ToolOrder \subseteq Nat
  BY RequestsAssumption
<1> QED BY <1>2, <1>3

(* A flag in a key is a number.                                            *)
LEMMA BitIsInt == \A b : Bit(b) \in Int
BY DEF Bit

(* A neighbour in the graph is another tool of the catalog.                *)
LEMMA GraphCandidatesFit ==
  ASSUME r \in Requests, NEW consumer
  PROVE  /\ Len(GraphCandidates(consumer)) \in Nat
         /\ \A n \in 1 .. Len(GraphCandidates(consumer)) :
              GraphCandidates(consumer)[n].name \in r.tools \ {consumer}
<1> DEFINE usable == {i \in DOMAIN r.edges :
                        /\ Neighbour(consumer, r.edges[i]) \in r.tools \ {consumer}
                        /\ EdgeAuto(r.edges[i]) \/ EdgeHint(r.edges[i])}
           key == [i \in usable |->
                     LET t == Neighbour(consumer, r.edges[i]) IN
                     <<EdgeTier(r.edges[i]), Bit(t \in r.mutating), Rank(t), i>>]
           order == Sorted(usable, key)
<1>1. r.edges \in Seq(ToSet(r.edges))
  BY RequestsAssumption DEF IsRequest
<1>2. PICK m \in Nat : DOMAIN r.edges = 1 .. m
  BY <1>1
<1>3. usable \in SUBSET (1 .. m) /\ IsFiniteSet(usable)
  <2>1. IsFiniteSet(1 .. m)
    BY FS_Interval
  <2> QED BY <1>2, <2>1, FS_Subset
<1>4. ASSUME NEW i \in usable PROVE IsKey(key[i]) /\ key[i][4] = i
  <2>1. Neighbour(consumer, r.edges[i]) \in r.tools \ {consumer}
    OBVIOUS
  <2>2. key[i] = <<EdgeTier(r.edges[i]), Bit(Neighbour(consumer, r.edges[i]) \in r.mutating),
                   Rank(Neighbour(consumer, r.edges[i])), i>>
    OBVIOUS
  <2>3. EdgeTier(r.edges[i]) \in Int
    BY DEF EdgeTier
  <2>4. Rank(Neighbour(consumer, r.edges[i])) \in Int
    BY <2>1, RankIsOwn
  <2>5. i \in Int
    BY <1>3
  <2> HIDE DEF key, usable
  <2> QED BY <2>2, <2>3, <2>4, <2>5, BitIsInt DEF IsKey
<1>5. /\ DOMAIN order = 1 .. Cardinality(usable)
      /\ \A n \in 1 .. Cardinality(usable) : order[n] \in usable
  <2> HIDE DEF key, usable
  <2>1. \A i, j \in usable : key[i] = key[j] => i = j
    BY <1>4
  <2> QED BY <1>3, <1>4, <2>1, SortedIn DEF order
<1>6. Cardinality(usable) \in Nat
  BY <1>3, FS_CardinalityType
<1>7. GraphCandidates(consumer) =
        [n \in DOMAIN order |->
           [name |-> Neighbour(consumer, r.edges[order[n]]), auto |-> EdgeAuto(r.edges[order[n]]),
            sources |-> EvidenceOf(r.edges[order[n]]), fields |-> r.edges[order[n]].fields]]
  BY DEF GraphCandidates
<1>8. Len(GraphCandidates(consumer)) = Cardinality(usable)
  <2> HIDE DEF order, usable
  <2> QED BY <1>5, <1>6, <1>7
<1>9. \A i \in usable : Neighbour(consumer, r.edges[i]) \in r.tools \ {consumer}
  OBVIOUS
<1> HIDE DEF order, usable, key
<1> QED BY <1>5, <1>6, <1>7, <1>8, <1>9

(* So are the producers of a row, each with a product that yields it.      *)
LEMMA OffersFit ==
  ASSUME r \in Requests, NEW consumer, NEW c
  PROVE  /\ ContractCandidates(consumer, c) \in Seq(ToSet(ContractCandidates(consumer, c)))
         /\ \A x \in ToSet(ContractCandidates(consumer, c)) : x.name \in Yielders(consumer, c)
<1> DEFINE g == [t \in r.tools |-> GraphCandidate(consumer, t)]
           Y == Yielders(consumer, c)
           key == [t \in Y |->
                     <<Tier(c, t, g), Bit(t \in r.mutating), Bit(<<consumer, t>> \notin r.learned), Rank(t)>>]
           order == InTiers(consumer, c, g)
<1>1. Y \in SUBSET r.tools /\ IsFiniteSet(Y)
  <2>1. Y \in SUBSET r.tools
    BY DEF Yielders
  <2> QED BY <2>1, FS_Subset, RequestsAssumption DEF IsRequest
<1>2. ASSUME NEW t \in Y PROVE IsKey(key[t]) /\ key[t][4] = Rank(t)
  <2>1. Tier(c, t, g) \in Int
    <3> HIDE DEF g
    <3> QED BY DEF Tier, Bit
  <2>2. Rank(t) \in Int
    BY <1>1, RankIsOwn
  <2>3. key[t] = <<Tier(c, t, g), Bit(t \in r.mutating), Bit(<<consumer, t>> \notin r.learned), Rank(t)>>
    OBVIOUS
  <2> HIDE DEF key, Y, g
  <2> QED BY <2>1, <2>2, <2>3, BitIsInt DEF IsKey
<1>3. order = Sorted(Y, key)
  BY DEF InTiers
<1>4. /\ DOMAIN order = 1 .. Cardinality(Y)
      /\ \A n \in 1 .. Cardinality(Y) : order[n] \in Y
  <2> HIDE DEF key, Y, order
  <2>1. \A s, t \in Y : key[s] = key[t] => s = t
    BY <1>1, <1>2, RankIsOwn
  <2> QED BY <1>1, <1>2, <1>3, <2>1, SortedIn
<1>5. Cardinality(Y) \in Nat
  BY <1>1, FS_CardinalityType
<1> DEFINE offers == ContractCandidates(consumer, c)
           scoping == \E t \in r.tools : \E e \in g[t] : "api_contract" \in e.sources /\ Scoped(c, e)
<1>6. offers = OffersOf(c, g, order, scoping)
  BY DEF ContractCandidates, OffersFrom
<1>7. /\ DOMAIN offers = 1 .. Cardinality(Y)
      /\ \A n \in 1 .. Cardinality(Y) : offers[n].name = order[n]
  <2> HIDE DEF order, offers, g, scoping, Y
  <2> QED BY <1>4, <1>6 DEF OffersOf
<1>8. offers \in Seq(ToSet(offers))
  <2>1. offers = [n \in 1 .. Cardinality(Y) |-> offers[n]]
    <3> HIDE DEF order, g, scoping, Y
    <3> QED BY <1>4, <1>6 DEF OffersOf
  <2> HIDE DEF offers, Y
  <2> QED BY <1>5, <1>7, <2>1 DEF ToSet
<1>9. \A x \in ToSet(offers) : x.name \in Y
  <2> HIDE DEF offers, Y, order
  <2> QED BY <1>4, <1>7 DEF ToSet
<1> QED BY <1>8, <1>9

(* The offers for a row that may be chosen or shown.                       *)
Fit(consumer, c) == {x \in ToSet(ContractCandidates(consumer, c)) : ~Forbidden(x.name)}

(* What is chosen from, and what is kept, are offers that are not          *)
(* forbidden.                                                              *)
LEMMA RowOffersFit ==
  ASSUME r \in Requests, NEW consumer, NEW c, NEW o,
         o = Split(ContractCandidates(consumer, c))
  PROVE  /\ o.safe \in Seq(Fit(consumer, c))
         /\ o.auto \in Seq(Fit(consumer, c))
         /\ o.runnersUp \in Seq(Fit(consumer, c))
<1> DEFINE offers == ContractCandidates(consumer, c)
           F == Fit(consumer, c)
           safe == Filtered(offers, F)
           A == {x \in ToSet(safe) : x.auto}
           B == {x \in ToSet(safe) : ~x.auto}
           auto == Filtered(safe, A)
           rest == Filtered(safe, B)
<1>1. offers \in Seq(ToSet(offers))
  BY OffersFit
<1>2. safe \in Seq(F)
  <2> HIDE DEF offers, F
  <2> QED BY <1>1, FilteredIn
<1>3. ToSet(safe) \subseteq F
  <2> HIDE DEF safe, F
  <2> QED BY <1>2 DEF ToSet
<1>4. auto \in Seq(F)
  <2>1. auto \in Seq(A)
    <3> HIDE DEF safe, A, F
    <3> QED BY <1>2, FilteredIn
  <2>2. A \subseteq F
    BY <1>3
  <2> HIDE DEF A, auto, F
  <2> QED BY <2>1, <2>2, WiderSeq
<1>5. rest \in Seq(F)
  <2>1. rest \in Seq(B)
    <3> HIDE DEF safe, B, F
    <3> QED BY <1>2, FilteredIn
  <2>2. B \subseteq F
    BY <1>3
  <2> HIDE DEF B, rest, F
  <2> QED BY <2>1, <2>2, WiderSeq
<1>6. /\ o.safe = safe /\ o.auto = auto
      /\ o.runnersUp = (IF auto = <<>> THEN <<>> ELSE Tail(auto)) \o rest
  BY DEF Split, Offered, Fit
<1>7. o.runnersUp \in Seq(F)
  <2> HIDE DEF auto, rest, safe, F
  <2>1. (IF auto = <<>> THEN <<>> ELSE Tail(auto)) \in Seq(F)
    BY <1>4
  <2> QED BY <1>5, <1>6, <2>1
<1> QED BY <1>2, <1>4, <1>6, <1>7

(* The producer that is chained yields the row and is allowed.             *)
LEMMA ProducerFits ==
  ASSUME r \in Requests, NEW consumer, NEW c, NEW o,
         o = Split(ContractCandidates(consumer, c)), o.auto # <<>>
  PROVE  Producer(o) \in Yielders(consumer, c) /\ ~Forbidden(Producer(o))
<1> DEFINE F == Fit(consumer, c)
           A == {x \in ToSet(o.auto) : x.sources \cap Explicit # {}}
           B == {x \in ToSet(o.auto) : MutationsAllowed /\ x.name \in r.mutating}
<1>1. o.auto \in Seq(F)
  BY RowOffersFit
<1>2. ToSet(o.auto) \subseteq F
  <2> HIDE DEF F
  <2> QED BY <1>1 DEF ToSet
<1>3. Chosen(o) \in Seq(F)
  <2>1. Chosen(o) \in Seq(A)
    <3> HIDE DEF F
    <3> QED BY <1>1, FilteredIn DEF Chosen
  <2>2. A \subseteq F
    BY <1>2
  <2> HIDE DEF A, F
  <2> QED BY <2>1, <2>2, WiderSeq
<1>4. Mutations(o) \in Seq(F)
  <2>1. Mutations(o) \in Seq(B)
    <3> HIDE DEF F
    <3> QED BY <1>1, FilteredIn DEF Mutations
  <2>2. B \subseteq F
    BY <1>2
  <2> HIDE DEF B, F
  <2> QED BY <2>1, <2>2, WiderSeq
<1>5. PICK x \in F : Producer(o) = x.name
  <2> HIDE DEF F, A, B
  <2>1. CASE Chosen(o) # <<>>
    <3>1. Head(Chosen(o)) \in F
      BY <1>3, <2>1
    <3> QED BY <2>1, <3>1 DEF Producer
  <2>2. CASE Chosen(o) = <<>> /\ Mutations(o) # <<>>
    <3>1. Head(Mutations(o)) \in F
      BY <1>4, <2>2
    <3> QED BY <2>2, <3>1 DEF Producer
  <2>3. CASE Chosen(o) = <<>> /\ Mutations(o) = <<>>
    <3>1. Head(o.auto) \in F
      BY <1>1
    <3> QED BY <2>3, <3>1 DEF Producer
  <2> QED BY <2>1, <2>2, <2>3
<1>6. x \in ToSet(ContractCandidates(consumer, c)) /\ ~Forbidden(x.name)
  BY DEF Fit
<1> HIDE DEF F
<1> QED BY <1>5, <1>6, OffersFit

(* So are the names kept for the caller to choose from.                    *)
LEMMA KeptFits ==
  ASSUME r \in Requests, NEW consumer, NEW c, NEW o,
         o = Split(ContractCandidates(consumer, c))
  PROVE  \A n \in ToSet(Kept(o)) : ~Forbidden(n)
<1> DEFINE F == Fit(consumer, c)
           m == Min({Len(o.runnersUp), r.width})
<1>1. o.runnersUp \in Seq(F)
  BY RowOffersFit
<1>2. Len(o.runnersUp) \in Nat /\ r.width \in Nat
  <2>1. IsRequest(r)
    BY RequestsAssumption
  <2>2. r.width \in Nat
    BY <2>1 DEF IsRequest
  <2> HIDE DEF F
  <2> QED BY <1>1, <2>2
<1>3. m \in Nat /\ m <= Len(o.runnersUp)
  BY <1>2 DEF Min
<1>4. \A n \in ToSet(Kept(o)) : \E i \in 1 .. m : n = o.runnersUp[i].name
  BY DEF Kept, ToSet
<1>5. \A i \in 1 .. m : o.runnersUp[i] \in F
  <2> HIDE DEF F, m
  <2> QED BY <1>1, <1>3
<1>6. \A x \in F : ~Forbidden(x.name)
  BY DEF Fit
<1> HIDE DEF F, m
<1> QED BY <1>4, <1>5, <1>6

-----------------------------------------------------------------------------
(* A cycle or a gap was found: such a bundle is never ready.               *)
Unclean == cycles # {} \/ unresolved # {}

(* The search: what the stack, the required tools and the target are.      *)
Frames == [tool : r.tools, graph : Nat \ {0}, row : Nat \ {0}]

(* Inductive: lists of tools of the catalog, the tools on the stack are    *)
(* selected and no tool is on it twice; nothing has happened before a      *)
(* target is chosen.                                                       *)
VisitShape ==
  /\ r \in Requests
  /\ required \in Seq(r.tools) /\ optional \in Seq(r.tools) /\ stack \in Seq(Frames)
  /\ target = NoTool => /\ stack = <<>> /\ required = <<>>
                        /\ resolved = {} /\ paths = {}
  /\ stack # <<>> => target \in r.tools
  /\ \A i \in DOMAIN stack : stack[i].tool \in Selected
  /\ \A i, j \in DOMAIN stack : stack[i].tool = stack[j].tool => i = j

(* A frame that goes on to its next neighbour or row.                      *)
LEMMA AdvancedFits ==
  ASSUME stack \in Seq(Frames), stack # <<>>, NEW counter \in {"graph", "row"}
  PROVE  /\ Advanced(counter) \in Seq(Frames)
         /\ Len(Advanced(counter)) = Len(stack)
         /\ \A i \in DOMAIN stack :
              /\ Advanced(counter)[i].tool = stack[i].tool
              /\ Advanced(counter)[i].row =
                   IF counter = "row" /\ i = Len(stack) THEN stack[i].row + 1 ELSE stack[i].row
<1> DEFINE n == Len(stack)
           f == [stack[n] EXCEPT ![counter] = @ + 1]
<1>1. n \in Nat \ {0} /\ stack[n] \in Frames /\ DOMAIN stack = 1 .. n
  OBVIOUS
<1>2. /\ f \in Frames /\ f.tool = stack[n].tool
      /\ f.row = IF counter = "row" THEN stack[n].row + 1 ELSE stack[n].row
  <2>0. PICK u \in r.tools, g \in Nat \ {0}, w \in Nat \ {0} :
          stack[n] = [tool |-> u, graph |-> g, row |-> w]
    BY <1>1 DEF Frames
  <2>1. CASE counter = "graph"
    <3>1. f = [tool |-> u, graph |-> g + 1, row |-> w]
      BY <2>0, <2>1
    <3> QED BY <2>0, <2>1, <3>1 DEF Frames
  <2>2. CASE counter = "row"
    <3>1. f = [tool |-> u, graph |-> g, row |-> w + 1]
      BY <2>0, <2>2
    <3> QED BY <2>0, <2>2, <3>1 DEF Frames
  <2> QED BY <2>1, <2>2
<1>3. Advanced(counter) = [stack EXCEPT ![n] = f]
  BY DEF Advanced
<1> HIDE DEF f, n
<1>4. n = Len(stack)
  BY DEF n
<1> QED BY <1>1, <1>2, <1>3, <1>4

(* What _admit_candidate does to the search.                               *)
AdmittedSomehow(t, key, counter) ==
  \/ /\ Unclean' /\ stack' = Advanced(counter) /\ required' = required /\ paths' = paths
  \/ /\ t \in Selected \ OnStack /\ stack' = Advanced(counter) /\ required' = required
     /\ paths' = paths \cup {PathRow(t, key)} /\ UNCHANGED <<unresolved, cycles>>
  \/ /\ t \notin Selected /\ stack' = Append(Advanced(counter), Frame(t))
     /\ required' = Append(required, t)
     /\ paths' = paths \cup {PathRow(t, key)} /\ UNCHANGED <<unresolved, cycles>>

(* Each way _admit_candidate can go is one of the three.                   *)
LEMMA AdmitOutcome ==
  ASSUME NEW t, NEW key, NEW counter, Admit(t, key, counter)
  PROVE  AdmittedSomehow(t, key, counter)
BY DEF Admit, AdmittedSomehow, ClosesCycle, Unclean

(* A required tool that is added is selected.                              *)
LEMMA SelectedGrows ==
  ASSUME VisitShape, NEW t, required' = Append(required, t), target' = target
  PROVE  Selected' = Selected \cup {t}
<1>0. required \in Seq(r.tools)
  BY DEF VisitShape
<1>1. PICK n \in Nat : n = Len(required) /\ DOMAIN required = 1 .. n
  BY <1>0
<1>2. /\ DOMAIN required' = 1 .. n + 1 /\ required'[n + 1] = t
      /\ \A i \in 1 .. n : required'[i] = required[i]
  BY <1>0, <1>1
<1>3. ToSet(required') = ToSet(required) \cup {t}
  BY <1>1, <1>2 DEF ToSet
<1> QED BY <1>3 DEF Selected

(* _admit_candidate keeps the shape of the search: only a tool that is not *)
(* selected is entered.                                                    *)
LEMMA AdmitShape ==
  ASSUME VisitShape, stack # <<>>, NEW t \in r.tools, NEW key, NEW counter \in {"graph", "row"},
         AdmittedSomehow(t, key, counter), UNCHANGED <<r, target, optional>>
  PROVE  VisitShape'
<1>1. /\ Advanced(counter) \in Seq(Frames)
      /\ Len(Advanced(counter)) = Len(stack)
      /\ \A i \in DOMAIN stack : Advanced(counter)[i].tool = stack[i].tool
  BY AdvancedFits DEF VisitShape
<1>2. Frames' = Frames
  BY DEF Frames
<1>3. target # NoTool
  BY DEF VisitShape
<1>4. CASE stack' = Advanced(counter) /\ required' = required
  <2>1. Selected' = Selected
    BY <1>4 DEF Selected
  <2>2. DOMAIN stack' = DOMAIN stack /\ \A i \in DOMAIN stack : stack'[i].tool = stack[i].tool
    BY <1>1, <1>4 DEF VisitShape
  <2>3. stack' \in Seq(Frames)
    BY <1>1, <1>4
  <2> QED BY <1>2, <1>3, <1>4, <2>1, <2>2, <2>3 DEF VisitShape
<1>5. CASE t \notin Selected /\ stack' = Append(Advanced(counter), Frame(t)) /\ required' = Append(required, t)
  <2>1. Frame(t) \in Frames /\ Frame(t).tool = t
    BY DEF Frame, Frames
  <2>2. Selected' = Selected \cup {t}
    BY <1>5, SelectedGrows
  <2>3. \A i \in DOMAIN stack : stack'[i].tool = stack[i].tool /\ stack[i].tool # t
    BY <1>1, <1>5 DEF VisitShape
  <2>4. DOMAIN stack' = DOMAIN stack \cup {Len(stack) + 1} /\ stack'[Len(stack) + 1] = Frame(t)
    BY <1>1, <1>5 DEF VisitShape
  <2>5. stack' \in Seq(Frames) /\ required' \in Seq(r.tools)
    BY <1>1, <1>5, <2>1 DEF VisitShape
  <2> QED BY <1>2, <1>3, <2>1, <2>2, <2>3, <2>4, <2>5 DEF VisitShape
<1> QED BY <1>4, <1>5 DEF AdmittedSomehow

(* The shape holds before a target is chosen.                              *)
LEMMA InitShape == Init => VisitShape
BY DEF Init, BundleInit, ClosureInit, VisitShape

(* What moves the search.                                                  *)
LEMMA Steps ==
  [Next]_<<allVars, pipelineVars>> =>
    \/ SelectTarget
    \/ FollowGraph \/ FillFromCaller \/ AskForInput \/ ChainProducer \/ Return
    \/ UNCHANGED vars
BY DEF Next, Assemble, Visit, AdmitSchema, Finish, OfferCandidates, allVars

(* The frame on top of the stack is one of a selected tool of the catalog. *)
LEMMA TopFits ==
  ASSUME VisitShape, stack # <<>>
  PROVE  /\ Len(stack) \in Nat \ {0} /\ DOMAIN stack = 1 .. Len(stack)
         /\ Top = stack[Len(stack)]
         /\ Top.tool \in r.tools /\ Top.graph \in Nat \ {0} /\ Top.row \in Nat \ {0}
         /\ Top.tool \in Selected
<1>1. stack \in Seq(Frames)
  BY DEF VisitShape
<1>2. Len(stack) \in Nat \ {0} /\ stack[Len(stack)] \in Frames /\ DOMAIN stack = 1 .. Len(stack)
  BY <1>1
<1>3. Len(stack) \in DOMAIN stack
  BY <1>2
<1> QED BY <1>2, <1>3 DEF Top, Frames, VisitShape

(* The graph neighbour looked at, and how its admission is recorded.       *)
LEMMA NeighbourFits ==
  ASSUME VisitShape, GraphLeft
  PROVE  GraphCandidates(Top.tool)[Top.graph].name \in r.tools \ {Top.tool}
<1>1. stack # <<>> /\ Top.graph <= Len(GraphCandidates(Top.tool)) /\ r \in Requests
  BY DEF GraphLeft, VisitShape
<1>2. Top.graph \in Nat \ {0}
  BY <1>1, TopFits
<1>3. /\ Len(GraphCandidates(Top.tool)) \in Nat
      /\ \A n \in 1 .. Len(GraphCandidates(Top.tool)) :
           GraphCandidates(Top.tool)[n].name \in r.tools \ {Top.tool}
  BY <1>1, GraphCandidatesFit
<1> QED BY <1>1, <1>2, <1>3

(* What a step to a neighbour in the graph does: it may offer a tool as    *)
(* optional or admit one, and either is allowed.                           *)
LEMMA FollowedGraph ==
  ASSUME VisitShape, FollowGraph
  PROVE  /\ stack # <<>> /\ UNCHANGED <<r, target, resolved, slots, alternatives>>
         /\ \/ /\ stack' = Advanced("graph") /\ UNCHANGED <<required, unresolved, paths, cycles>>
               /\ \/ optional' = optional
                  \/ \E t \in r.tools : ~Forbidden(t) /\ optional' = Append(optional, t)
            \/ /\ optional' = optional
               /\ \E t \in r.tools \ {Top.tool} :
                    ~Forbidden(t) /\ AdmittedSomehow(t, GraphKey, "graph")
<1>1. PICK c : c = GraphCandidates(Top.tool)[Top.graph]
  OBVIOUS
<1>2. GraphLeft /\ stack # <<>> /\ UNCHANGED <<r, target>>
  BY DEF FollowGraph, GraphLeft
<1>3. c.name \in r.tools \ {Top.tool}
  BY <1>1, <1>2, NeighbourFits
<1>4. \/ stack' = Advanced("graph") /\ UNCHANGED found
      \/ stack' = Advanced("graph") /\ UNCHANGED <<required, optional, alternatives, resolved, unresolved, slots, paths, cycles>>
      \/ /\ ~Forbidden(c.name)
         /\ optional' = IF c.name \in ToSet(optional) \cup Selected THEN optional
                        ELSE Append(optional, c.name)
         /\ stack' = Advanced("graph")
         /\ UNCHANGED <<required, alternatives, resolved, unresolved, slots, paths, cycles, blocked>>
      \/ /\ ~Forbidden(c.name) /\ Admit(c.name, GraphKey, "graph")
         /\ UNCHANGED <<optional, alternatives, resolved, slots, blocked>>
  BY <1>1 DEF FollowGraph
<1>5. Admit(c.name, GraphKey, "graph") => AdmittedSomehow(c.name, GraphKey, "graph")
  BY AdmitOutcome
<1> QED BY <1>2, <1>3, <1>4, <1>5 DEF found

(* The row a producer is chained for.                                      *)
LEMMA ChainedProducer ==
  ASSUME VisitShape, ChainProducer
  PROVE  /\ stack # <<>> /\ UNCHANGED <<r, target, optional, slots>>
         /\ RecordOffers(RowOffers)
         /\ \E t \in Yielders(Top.tool, Row) :
              /\ ~Forbidden(t) /\ AdmittedSomehow(t, KeyOf(Row), "row")
              /\ resolved' = resolved \cup {[tool |-> Top.tool, key |-> KeyOf(Row), producer |-> t]}
<1>1. PICK o : o = RowOffers
  OBVIOUS
<1>2. /\ stack # <<>> /\ UNCHANGED <<r, target, optional, slots>>
      /\ o.auto # <<>> /\ Chain(o, Producer(o))
  BY <1>1 DEF ChainProducer, ChainIfChosen, NeedsProducer, AtRow
<1>3. /\ RecordOffers(o) /\ Admit(Producer(o), KeyOf(Row), "row")
      /\ resolved' = resolved \cup {[tool |-> Top.tool, key |-> KeyOf(Row), producer |-> Producer(o)]}
  BY <1>2 DEF Chain
<1>4. Producer(o) \in Yielders(Top.tool, Row) /\ ~Forbidden(Producer(o))
  BY <1>1, <1>2, ProducerFits DEF RowOffers, VisitShape
<1>5. AdmittedSomehow(Producer(o), KeyOf(Row), "row")
  BY <1>3, AdmitOutcome
<1> QED BY <1>1, <1>2, <1>3, <1>4, <1>5

(* A producer of a row is another tool, with a product that yields it.     *)
LEMMA YielderIsTool ==
  ASSUME NEW consumer, NEW c, NEW t \in Yielders(consumer, c)
  PROVE  /\ t \in r.tools \ {consumer}
         /\ \E p \in ToSet(r.produces[t]) : Yields(p, c)
BY DEF Yielders, ToSet

(* Going on to the next neighbour or row keeps the shape.                  *)
LEMMA AdvancedShape ==
  ASSUME VisitShape, stack # <<>>, NEW counter \in {"graph", "row"}, stack' = Advanced(counter),
         UNCHANGED <<r, target, required>>, optional' \in Seq(r.tools)
  PROVE  VisitShape'
<1>1. /\ stack' \in Seq(Frames)
      /\ DOMAIN stack' = DOMAIN stack /\ \A i \in DOMAIN stack : stack'[i].tool = stack[i].tool
  BY AdvancedFits DEF VisitShape
<1>2. Selected' = Selected /\ Frames' = Frames
  BY DEF Selected, Frames
<1> QED BY <1>1, <1>2 DEF VisitShape

(* Every step keeps the shape of the search.                               *)
LEMMA NextShape == VisitShape /\ [Next]_<<allVars, pipelineVars>> => VisitShape'
<1> SUFFICES ASSUME VisitShape, [Next]_<<allVars, pipelineVars>> PROVE VisitShape'
  OBVIOUS
<1>0. required \in Seq(r.tools) /\ optional \in Seq(r.tools) /\ stack \in Seq(Frames)
  BY DEF VisitShape
<1>1. CASE SelectTarget
  <2>1. /\ target = NoTool /\ stack = <<>> /\ required = <<>> /\ r \in Requests
        /\ resolved = {} /\ paths = {}
    BY <1>1 DEF SelectTarget, VisitShape
  <2>2. CASE UNCHANGED vars
    BY <2>2 DEF vars, found, VisitShape, Selected, Frames
  <2>3. CASE \E t : Begin(t)
    <3>1. PICK t : Begin(t)
      BY <2>3
    <3>2. UNCHANGED <<r, required, optional, resolved, paths>> /\ target' = t
      BY <3>1 DEF Begin
    <3>3. CASE t \in r.tools
      <4>1. stack' = <<Frame(t)>> /\ t # NoTool
        BY <2>1, <3>1, <3>3, RequestsAssumption DEF Begin, IsRequest, NoTool
      <4>2. Frame(t) \in Frames' /\ Frame(t).tool = t /\ t \in Selected'
        BY <3>2, <3>3 DEF Frame, Frames, Selected
      <4>3. stack' \in Seq(Frames') /\ DOMAIN stack' = {1} /\ stack'[1].tool = t
        BY <4>1, <4>2
      <4> QED BY <1>0, <2>1, <3>2, <3>3, <4>1, <4>2, <4>3 DEF VisitShape
    <3>4. CASE t \notin r.tools
      <4>1. stack' = <<>>
        BY <2>1, <3>1, <3>4 DEF Begin
      <4> QED BY <1>0, <2>1, <3>2, <4>1 DEF VisitShape
    <3> QED BY <3>3, <3>4
  <2> QED BY <1>1, <2>2, <2>3 DEF SelectTarget
<1>2. CASE FollowGraph
  <2>1. CASE /\ stack' = Advanced("graph") /\ UNCHANGED <<required, unresolved, paths, cycles>>
             /\ \/ optional' = optional
                \/ \E t \in r.tools : ~Forbidden(t) /\ optional' = Append(optional, t)
    <3>1. optional' \in Seq(r.tools)
      <4>1. CASE optional' = optional
        BY <1>0, <4>1
      <4>2. CASE \E t \in r.tools : optional' = Append(optional, t)
        BY <1>0, <4>2
      <4> QED BY <2>1, <4>1, <4>2
    <3> QED BY <1>2, <2>1, <3>1, FollowedGraph, AdvancedShape
  <2>2. CASE /\ optional' = optional
             /\ \E t \in r.tools \ {Top.tool} :
                  ~Forbidden(t) /\ AdmittedSomehow(t, GraphKey, "graph")
    BY <1>2, <2>2, FollowedGraph, AdmitShape
  <2> QED BY <1>2, <2>1, <2>2, FollowedGraph
<1>3. CASE FillFromCaller
  BY <1>0, <1>3, AdvancedShape DEF FillFromCaller, AtRow
<1>4. CASE AskForInput
  BY <1>0, <1>4, AdvancedShape DEF AskForInput, NeedsProducer, AtRow
<1>5. CASE ChainProducer
  BY <1>5, ChainedProducer, YielderIsTool, AdmitShape
<1>6. CASE Return
  <2>1. stack # <<>> /\ stack' = SubSeq(stack, 1, Len(stack) - 1) /\ UNCHANGED <<r, target, found>>
    BY <1>6 DEF Return
  <2>2. /\ stack' \in Seq(Frames) /\ DOMAIN stack' \subseteq DOMAIN stack
        /\ \A i \in DOMAIN stack' : stack'[i] = stack[i]
    BY <1>0, <2>1
  <2>3. Selected' = Selected /\ Frames' = Frames
    BY <2>1 DEF Selected, Frames, found
  <2> QED BY <2>1, <2>2, <2>3 DEF VisitShape, found
<1>7. CASE UNCHANGED vars
  BY <1>7 DEF vars, found, VisitShape, Selected, Frames
<1> QED BY <1>1, <1>2, <1>3, <1>4, <1>5, <1>6, <1>7, Steps

(* So the shape is invariant.                                              *)
LEMMA AlwaysShape == Spec => []VisitShape
BY InitShape, NextShape, PTL DEF Spec

-----------------------------------------------------------------------------
(* Mutations.  Inductive: no tool that is required, optional or kept as an *)
(* alternative is a forbidden mutation.                                    *)
NoneForbidden ==
  /\ \A t \in ToSet(required) \cup ToSet(optional) : ~Forbidden(t)
  /\ \A a \in alternatives : \A n \in ToSet(a.names) : ~Forbidden(n)

(* Appending adds one element.                                             *)
LEMMA OneMore ==
  ASSUME NEW S, NEW s \in Seq(S), NEW x
  PROVE  ToSet(Append(s, x)) = ToSet(s) \cup {x}
<1>1. PICK n \in Nat : n = Len(s) /\ DOMAIN s = 1 .. n
  OBVIOUS
<1>2. PICK b : b = Append(s, x)
  OBVIOUS
<1>3. /\ DOMAIN b = 1 .. n + 1 /\ b[n + 1] = x
      /\ \A i \in 1 .. n : b[i] = s[i]
  BY <1>1, <1>2
<1>4. ToSet(b) = ToSet(s) \cup {x}
  BY <1>1, <1>3 DEF ToSet
<1> QED BY <1>2, <1>4

(* No step adds or offers a forbidden mutation.                            *)
LEMMA NextNoneForbidden ==
  VisitShape /\ NoneForbidden /\ [Next]_<<allVars, pipelineVars>> => NoneForbidden'
<1> SUFFICES ASSUME VisitShape, NoneForbidden, [Next]_<<allVars, pipelineVars>>
             PROVE  NoneForbidden'
  OBVIOUS
<1>0. required \in Seq(r.tools) /\ optional \in Seq(r.tools) /\ r \in Requests
  BY DEF VisitShape
<1>1. ASSUME r' = r PROVE \A t : Forbidden(t)' = Forbidden(t)
  BY <1>1 DEF Forbidden, MutationsAllowed
<1>2. \A t : required' = Append(required, t) => ToSet(required') = ToSet(required) \cup {t}
  BY <1>0, OneMore
<1>3. \A t : optional' = Append(optional, t) => ToSet(optional') = ToSet(optional) \cup {t}
  BY <1>0, OneMore
<1>5. CASE UNCHANGED <<r, required, optional, alternatives>>
  BY <1>1, <1>5 DEF NoneForbidden
<1>6. ASSUME NEW t \in r.tools, NEW key, NEW counter, ~Forbidden(t), AdmittedSomehow(t, key, counter),
             r' = r
      PROVE  \A u \in ToSet(required') : ~Forbidden(u)'
  BY <1>1, <1>2, <1>6 DEF AdmittedSomehow, NoneForbidden
<1>7. ASSUME NEW o, o = RowOffers, RecordOffers(o), r' = r
      PROVE  \A a \in alternatives' : \A n \in ToSet(a.names) : ~Forbidden(n)'
  <2>1. \A n \in ToSet(Kept(o)) : ~Forbidden(n)
    BY <1>0, <1>7, KeptFits DEF RowOffers
  <2>2. \A a \in alternatives' : a \in alternatives \/ a = [tool |-> Top.tool, field |-> Label, names |-> Kept(o)]
    BY <1>7 DEF RecordOffers
  <2>3. \A a \in alternatives' : a \in alternatives \/ a.names = Kept(o)
    BY <2>2
  <2> QED BY <1>1, <1>7, <2>1, <2>3 DEF NoneForbidden
<1>8. CASE SelectTarget
  <2>1. UNCHANGED <<r, required, optional, alternatives>>
    BY <1>8 DEF SelectTarget, Begin, vars, found
  <2> QED BY <1>5, <2>1
<1>9. CASE FollowGraph
  <2>1. stack # <<>> /\ UNCHANGED <<r, target, alternatives>>
    BY <1>9, FollowedGraph
  <2>2. \A u \in ToSet(optional') : ~Forbidden(u)'
    <3>1. \/ optional' = optional
          \/ \E t \in r.tools : ~Forbidden(t) /\ optional' = Append(optional, t)
      BY <1>9, FollowedGraph
    <3> QED BY <1>1, <1>3, <2>1, <3>1 DEF NoneForbidden
  <2>3. \A u \in ToSet(required') : ~Forbidden(u)'
    <3>1. \/ required' = required
          \/ \E t \in r.tools : ~Forbidden(t) /\ AdmittedSomehow(t, GraphKey, "graph")
      BY <1>9, FollowedGraph
    <3> QED BY <1>1, <1>6, <2>1, <3>1 DEF NoneForbidden
  <2> QED BY <1>1, <2>1, <2>2, <2>3 DEF NoneForbidden
<1>10. CASE FillFromCaller
  BY <1>5, <1>10 DEF FillFromCaller
<1>11. CASE AskForInput
  <2>1. /\ stack # <<>> /\ UNCHANGED <<r, target, required, optional>> /\ RecordOffers(RowOffers)
    BY <1>11 DEF AskForInput, Ask, NeedsProducer, AtRow
  <2>2. \A a \in alternatives' : \A n \in ToSet(a.names) : ~Forbidden(n)'
    BY <1>7, <2>1
  <2> QED BY <1>1, <2>1, <2>2 DEF NoneForbidden
<1>12. CASE ChainProducer
  <2>1. /\ stack # <<>> /\ UNCHANGED <<r, target, optional>> /\ RecordOffers(RowOffers)
        /\ \E t \in r.tools : ~Forbidden(t) /\ AdmittedSomehow(t, KeyOf(Row), "row")
    BY <1>12, ChainedProducer, YielderIsTool
  <2>2. \A a \in alternatives' : \A n \in ToSet(a.names) : ~Forbidden(n)'
    BY <1>7, <2>1
  <2>3. \A u \in ToSet(required') : ~Forbidden(u)'
    BY <1>6, <2>1
  <2> QED BY <1>1, <2>1, <2>2, <2>3 DEF NoneForbidden
<1>13. CASE Return
  BY <1>5, <1>13 DEF Return, found
<1>14. CASE UNCHANGED vars
  BY <1>5, <1>14 DEF vars, found
<1> QED BY <1>8, <1>9, <1>10, <1>11, <1>12, <1>13, <1>14, Steps

(* MutationsAreAllowed: for every catalog and request, whatever the search *)
(* went through, nothing it added or offers in place of something changes  *)
(* data, unless the caller opted in and the query asks for a change.       *)
THEOREM MutationsAlwaysAllowed == Spec => []MutationsAreAllowed
<1>1. Init => NoneForbidden
  <2> SUFFICES ASSUME Init PROVE NoneForbidden
    OBVIOUS
  <2>1. required = <<>> /\ optional = <<>> /\ alternatives = {}
    BY DEF Init, BundleInit, ClosureInit
  <2> QED BY <2>1 DEF NoneForbidden, ToSet
<1>2. NoneForbidden => MutationsAreAllowed
  BY DEF NoneForbidden, MutationsAreAllowed, Forbidden
<1>3. Spec => []NoneForbidden
  BY <1>1, AlwaysShape, NextNoneForbidden, PTL DEF Spec
<1> QED BY <1>2, <1>3, PTL

-----------------------------------------------------------------------------
(* Rows.  What is dealt with stays so, and a tool leaves the stack only    *)
(* when all its rows are.                                                  *)
Dealt(t, c) ==
  RequiredData(c) =>
    \/ Unclean
    \/ KeyOf(c) \in r.available
    \/ \E s \in slots : s.tool = t /\ s.key = KeyOf(c)
    \/ \E u \in Selected \ {t} : \E p \in ToSet(r.produces[u]) : Yields(p, c)

(* The first k rows of a tool on the stack, every row of one that is done. *)
PassedRow(t, k) == \A i \in DOMAIN stack : stack[i].tool = t => k < stack[i].row

(* Inductive, on VisitShape: every row that was passed is dealt with.      *)
RowsDealt ==
  target \in r.tools =>
    \A t \in Selected : \A k \in DOMAIN r.consumes[t] :
      PassedRow(t, k) => Dealt(t, r.consumes[t][k])

(* A row that is dealt with stays so while what it rests on grows.         *)
LEMMA DealtStays ==
  ASSUME NEW t, NEW c, Dealt(t, c), r' = r, slots \subseteq slots', Selected \subseteq Selected',
         Unclean => Unclean'
  PROVE  Dealt(t, c)'
BY DEF Dealt

(* _admit_candidate forgets no gap or cycle, and selects the tool unless   *)
(* it records one.                                                         *)
LEMMA UncleanStays ==
  ASSUME VisitShape, NEW t, NEW key, NEW counter, AdmittedSomehow(t, key, counter), target' = target
  PROVE  /\ Unclean => Unclean'
         /\ Selected \subseteq Selected'
         /\ t \in Selected' \/ Unclean'
<1>1. required' = required => Selected' = Selected
  BY DEF Selected
<1>2. required' = Append(required, t) => Selected' = Selected \cup {t}
  BY SelectedGrows
<1>3. (UNCHANGED <<unresolved, cycles>>) => Unclean' = Unclean
  BY DEF Unclean
<1> QED BY <1>1, <1>2, <1>3 DEF AdmittedSomehow

(* Whatever is admitted, the frames of a visit stay below.                 *)
LEMMA FramesKept ==
  ASSUME stack \in Seq(Frames), stack # <<>>, NEW counter \in {"graph", "row"},
         NEW n, n = Len(stack)
  PROVE  /\ n \in Nat \ {0} /\ DOMAIN stack = 1 .. n
         /\ stack' = Advanced(counter) => DOMAIN stack' = 1 .. n
         /\ \A u : stack' = Append(Advanced(counter), Frame(u)) =>
                     DOMAIN stack' = 1 .. n + 1 /\ stack'[n + 1] = Frame(u)
         /\ (stack' = Advanced(counter) \/ \E u : stack' = Append(Advanced(counter), Frame(u))) =>
              \A i \in 1 .. n :
                /\ stack'[i].tool = stack[i].tool
                /\ stack'[i].row = IF counter = "row" /\ i = n THEN stack[i].row + 1 ELSE stack[i].row
<1>1. n \in Nat \ {0} /\ DOMAIN stack = 1 .. n
  OBVIOUS
<1>2. PICK adv \in Seq(Frames) :
        /\ adv = Advanced(counter) /\ Len(adv) = n
        /\ \A i \in 1 .. n :
             /\ adv[i].tool = stack[i].tool
             /\ adv[i].row = IF counter = "row" /\ i = n THEN stack[i].row + 1 ELSE stack[i].row
  BY <1>1, AdvancedFits
<1>3. DOMAIN adv = 1 .. n
  BY <1>2
<1>4. \A u : /\ DOMAIN Append(adv, Frame(u)) = 1 .. n + 1
             /\ Append(adv, Frame(u))[n + 1] = Frame(u)
             /\ \A i \in 1 .. n : Append(adv, Frame(u))[i] = adv[i]
  BY <1>1, <1>2
<1>5. stack' = adv \/ (\E u : stack' = Append(adv, Frame(u))) => \A i \in 1 .. n : stack'[i] = adv[i]
  BY <1>4
<1> QED BY <1>1, <1>2, <1>3, <1>4, <1>5

(* A row is passed: its frame goes on, the other ones stay.                *)
LEMMA RowPassed ==
  ASSUME VisitShape, RowsDealt, AtRow, r' = r, target' = target, Selected \subseteq Selected',
         slots \subseteq slots', Unclean => Unclean',
         NEW tt, tt = Top.tool, NEW c, c = Row, Dealt(tt, c)',
         \/ stack' = Advanced("row") /\ Selected' = Selected
         \/ \E t \in r.tools : /\ stack' = Append(Advanced("row"), Frame(t)) /\ t \notin Selected
                               /\ Selected' = Selected \cup {t}
  PROVE  RowsDealt'
<1> SUFFICES ASSUME NEW t \in Selected', NEW k \in DOMAIN r.consumes[t], PassedRow(t, k)'
             PROVE  Dealt(t, r.consumes[t][k])'
  BY DEF RowsDealt
<1> DEFINE n == Len(stack)
<1>0. stack # <<>> /\ stack \in Seq(Frames) /\ target \in r.tools
  BY DEF AtRow, VisitShape
<1>1. n \in Nat \ {0} /\ DOMAIN stack = 1 .. n /\ Top = stack[n] /\ Top.row \in Nat \ {0} /\ tt \in Selected
  BY <1>0, TopFits
<1>3. /\ 1 .. n \subseteq DOMAIN stack'
      /\ \A i \in 1 .. n : /\ stack'[i].tool = stack[i].tool
                           /\ stack'[i].row = IF i = n THEN stack[i].row + 1 ELSE stack[i].row
      /\ \A u : stack' = Append(Advanced("row"), Frame(u)) =>
                  n + 1 \in DOMAIN stack' /\ stack'[n + 1] = Frame(u)
  <2>1. stack' = Advanced("row") \/ \E u : stack' = Append(Advanced("row"), Frame(u))
    OBVIOUS
  <2>2. n = Len(stack)
    OBVIOUS
  <2> HIDE DEF n
  <2>3. \A i \in 1 .. n : /\ stack'[i].tool = stack[i].tool
                         /\ stack'[i].row = IF i = n THEN stack[i].row + 1 ELSE stack[i].row
    BY <1>0, <2>1, <2>2, FramesKept
  <2>4. 1 .. n \subseteq DOMAIN stack'
    <3>1. stack' = Advanced("row") => DOMAIN stack' = 1 .. n
      BY <1>0, <2>2, FramesKept
    <3>2. \A u : stack' = Append(Advanced("row"), Frame(u)) => DOMAIN stack' = 1 .. n + 1
      BY <1>0, <2>2, FramesKept
    <3> QED BY <1>1, <2>1, <3>1, <3>2
  <2>5. ASSUME NEW u, stack' = Append(Advanced("row"), Frame(u))
        PROVE  n + 1 \in DOMAIN stack' /\ stack'[n + 1] = Frame(u)
    BY <1>0, <1>1, <2>2, <2>5, FramesKept
  <2> QED BY <2>3, <2>4, <2>5
<1>4. r.consumes[t] \in Seq(ToSet(r.consumes[t])) \/ t \notin r.tools
  BY RequestsAssumption DEF IsRequest, VisitShape
<1>5. CASE t \in Selected /\ ~(t = tt /\ k = Top.row)
  <2>1. PassedRow(t, k)
    <3> SUFFICES ASSUME NEW i \in DOMAIN stack, stack[i].tool = t PROVE k < stack[i].row
      BY DEF PassedRow
    <3>1. k < stack'[i].row
      <4>1. i \in DOMAIN stack' /\ stack'[i].tool = t
        BY <1>1, <1>3
      <4> QED BY <4>1 DEF PassedRow
    <3>0. stack'[i].row = IF i = n THEN stack[i].row + 1 ELSE stack[i].row
      BY <1>1, <1>3
    <3>2. CASE i # n
      BY <3>0, <3>1, <3>2
    <3>3. CASE i = n
      <4>1. t = tt /\ k # Top.row /\ k < Top.row + 1 /\ stack[i].row = Top.row
        BY <1>1, <1>5, <3>0, <3>1, <3>3
      <4>2. t \in r.tools
        BY <1>0, <4>1, TopFits
      <4>3. k \in Nat
        BY <1>4, <4>2
      <4> QED BY <1>1, <4>1, <4>3
    <3> QED BY <3>2, <3>3
  <2>2. Dealt(t, r.consumes[t][k])
    BY <1>0, <1>5, <2>1 DEF RowsDealt
  <2>3. PICK cc : cc = r.consumes[t][k]
    OBVIOUS
  <2>4. Dealt(t, cc)'
    BY <2>2, <2>3, DealtStays
  <2> QED BY <2>3, <2>4
<1>6. CASE t = tt /\ k = Top.row
  <2>1. c = r.consumes[t][k]
    BY <1>6 DEF Row
  <2> QED BY <1>6, <2>1
<1>7. CASE t \notin Selected
  <2>1. stack' = Append(Advanced("row"), Frame(t)) /\ t \in r.tools
    BY <1>7
  <2>2. n + 1 \in DOMAIN stack' /\ stack'[n + 1] = Frame(t)
    BY <1>3, <2>1
  <2>3. k < 1
    BY <2>2 DEF PassedRow, Frame
  <2> QED BY <1>4, <2>1, <2>3
<1> QED BY <1>5, <1>6, <1>7

(* What _admit_candidate does to the frames.                               *)
LEMMA ShapeOfRows ==
  ASSUME VisitShape, RowsDealt, NEW t \in r.tools, NEW key, NEW counter \in {"graph", "row"},
         stack # <<>>, AdmittedSomehow(t, key, counter), target' = target
  PROVE  \/ stack' = Advanced(counter) /\ Selected' = Selected
         \/ /\ stack' = Append(Advanced(counter), Frame(t)) /\ t \notin Selected
            /\ Selected' = Selected \cup {t}
BY SelectedGrows DEF AdmittedSomehow, Selected

(* A neighbour in the graph is dealt with: no row is passed.               *)
LEMMA NoRowPassed ==
  ASSUME VisitShape, RowsDealt, stack # <<>>, r' = r, target' = target, slots \subseteq slots',
         Unclean => Unclean',
         \/ stack' = Advanced("graph") /\ Selected' = Selected
         \/ \E t \in r.tools : /\ stack' = Append(Advanced("graph"), Frame(t)) /\ t \notin Selected
                               /\ Selected' = Selected \cup {t}
  PROVE  RowsDealt'
<1> SUFFICES ASSUME NEW t \in Selected', NEW k \in DOMAIN r.consumes[t], PassedRow(t, k)'
             PROVE  Dealt(t, r.consumes[t][k])'
  BY DEF RowsDealt
<1> DEFINE n == Len(stack)
<1>0. stack \in Seq(Frames) /\ target \in r.tools
  BY DEF VisitShape
<1>1. n \in Nat \ {0} /\ DOMAIN stack = 1 .. n
  BY <1>0
<1>3. /\ 1 .. n \subseteq DOMAIN stack'
      /\ \A i \in 1 .. n : stack'[i].tool = stack[i].tool /\ stack'[i].row = stack[i].row
      /\ \A u : stack' = Append(Advanced("graph"), Frame(u)) =>
                  n + 1 \in DOMAIN stack' /\ stack'[n + 1] = Frame(u)
  <2>1. stack' = Advanced("graph") \/ \E u : stack' = Append(Advanced("graph"), Frame(u))
    OBVIOUS
  <2>2. n = Len(stack)
    OBVIOUS
  <2> HIDE DEF n
  <2> QED BY <1>0, <1>1, <2>1, <2>2, FramesKept
<1>4. r.consumes[t] \in Seq(ToSet(r.consumes[t])) \/ t \notin r.tools
  BY RequestsAssumption DEF IsRequest, VisitShape
<1>5. CASE t \in Selected
  <2>1. PassedRow(t, k)
    <3> SUFFICES ASSUME NEW i \in DOMAIN stack, stack[i].tool = t PROVE k < stack[i].row
      BY DEF PassedRow
    <3>1. i \in DOMAIN stack' /\ stack'[i].tool = t /\ stack'[i].row = stack[i].row
      BY <1>1, <1>3
    <3> QED BY <3>1 DEF PassedRow
  <2>2. Dealt(t, r.consumes[t][k])
    BY <1>0, <1>5, <2>1 DEF RowsDealt
  <2>3. PICK cc : cc = r.consumes[t][k]
    OBVIOUS
  <2>4. Dealt(t, cc)'
    BY <2>2, <2>3, DealtStays
  <2> QED BY <2>3, <2>4
<1>7. CASE t \notin Selected
  <2>1. stack' = Append(Advanced("graph"), Frame(t)) /\ t \in r.tools
    BY <1>7
  <2>2. n + 1 \in DOMAIN stack' /\ stack'[n + 1] = Frame(t)
    BY <1>3, <2>1
  <2>3. k < 1
    BY <2>2 DEF PassedRow, Frame
  <2> QED BY <1>4, <2>1, <2>3
<1> QED BY <1>5, <1>7

(* A tool that returns has passed its last row.                            *)
LEMMA ReturnRows ==
  ASSUME VisitShape, RowsDealt, Return
  PROVE  RowsDealt'
<1> SUFFICES ASSUME target \in r.tools, NEW t \in Selected, NEW k \in DOMAIN r.consumes[t],
                    PassedRow(t, k)'
             PROVE  Dealt(t, r.consumes[t][k])'
  BY DEF RowsDealt, Return, Selected, found
<1> DEFINE n == Len(stack)
<1>0. stack # <<>> /\ stack \in Seq(Frames) /\ UNCHANGED <<r, target, found>>
  BY DEF Return, VisitShape
<1>1. /\ n \in Nat \ {0} /\ DOMAIN stack = 1 .. n /\ Top = stack[n]
      /\ Top.tool \in r.tools /\ Top.row \in Nat \ {0}
  BY <1>0, TopFits
<1>2. DOMAIN stack' = 1 .. n - 1 /\ \A i \in 1 .. n - 1 : stack'[i] = stack[i]
  BY <1>0, <1>1 DEF Return
<1>3. r.consumes[Top.tool] \in Seq(ToSet(r.consumes[Top.tool])) /\ Top.row > Len(r.consumes[Top.tool])
  BY <1>1, RequestsAssumption DEF IsRequest, VisitShape, Return
<1>4. PassedRow(t, k)
  <2> SUFFICES ASSUME NEW i \in DOMAIN stack, stack[i].tool = t PROVE k < stack[i].row
    BY DEF PassedRow
  <2>1. CASE i = n
    BY <1>1, <1>3, <2>1
  <2>2. CASE i # n
    <3>1. i \in DOMAIN stack' /\ stack'[i] = stack[i]
      BY <1>1, <1>2, <2>2
    <3> QED BY <3>1 DEF PassedRow
  <2> QED BY <2>1, <2>2
<1>5. Dealt(t, r.consumes[t][k])
  BY <1>4 DEF RowsDealt
<1>6. PICK cc : cc = r.consumes[t][k]
  OBVIOUS
<1>7. slots' = slots /\ Selected' = Selected /\ Unclean' = Unclean /\ r' = r
  BY <1>0 DEF found, Selected, Unclean
<1>8. Dealt(t, cc)'
  BY <1>5, <1>6, <1>7, DealtStays
<1> QED BY <1>6, <1>7, <1>8

(* No step lets a tool return before its rows are dealt with.              *)
LEMMA NextRowsDealt ==
  VisitShape /\ RowsDealt /\ [Next]_<<allVars, pipelineVars>> => RowsDealt'
<1> SUFFICES ASSUME VisitShape, RowsDealt, [Next]_<<allVars, pipelineVars>>
             PROVE  RowsDealt'
  OBVIOUS
<1>1. CASE UNCHANGED vars
  BY <1>1 DEF RowsDealt, PassedRow, Dealt, Selected, Unclean, vars, found
<1>2. CASE SelectTarget
  <2>1. CASE UNCHANGED vars
    BY <1>1, <2>1
  <2>2. CASE \E t : Begin(t)
    <3>1. PICK t : Begin(t)
      BY <2>2
    <3>2. target = NoTool /\ required = <<>> /\ UNCHANGED <<r, required>> /\ target' = t
      BY <3>1 DEF Begin, VisitShape
    <3>3. CASE t \in r.tools
      <4>1. stack' = <<Frame(t)>> /\ Selected' = {t}
        BY <3>1, <3>2, <3>3 DEF Begin, Selected, ToSet
      <4>2. 1 \in DOMAIN stack' /\ stack'[1].tool = t /\ stack'[1].row = 1
        BY <4>1 DEF Frame
      <4>3. r.consumes[t] \in Seq(ToSet(r.consumes[t]))
        BY <3>3, RequestsAssumption DEF IsRequest, VisitShape
      <4>4. \A k \in DOMAIN r.consumes[t] : ~PassedRow(t, k)'
        BY <4>2, <4>3 DEF PassedRow
      <4> QED BY <3>2, <4>1, <4>4 DEF RowsDealt
    <3>4. CASE t \notin r.tools
      BY <3>2, <3>4 DEF RowsDealt
    <3> QED BY <3>3, <3>4
  <2> QED BY <1>2, <2>1, <2>2 DEF SelectTarget
<1>3. CASE FollowGraph
  <2>1. stack # <<>> /\ UNCHANGED <<r, target, slots>>
    BY <1>3, FollowedGraph
  <2>2. CASE stack' = Advanced("graph") /\ UNCHANGED <<required, unresolved, cycles>>
    <3>1. Selected' = Selected /\ Unclean' = Unclean
      BY <2>1, <2>2 DEF Selected, Unclean
    <3> QED BY <2>1, <2>2, <3>1, NoRowPassed
  <2>3. CASE \E t \in r.tools \ {Top.tool} : AdmittedSomehow(t, GraphKey, "graph")
    <3>1. PICK t \in r.tools : AdmittedSomehow(t, GraphKey, "graph")
      BY <2>3
    <3>2. \/ stack' = Advanced("graph") /\ Selected' = Selected
          \/ /\ stack' = Append(Advanced("graph"), Frame(t)) /\ t \notin Selected
             /\ Selected' = Selected \cup {t}
      BY <2>1, <3>1, ShapeOfRows
    <3>3. Unclean => Unclean'
      BY <2>1, <3>1, UncleanStays
    <3> QED BY <2>1, <3>2, <3>3, NoRowPassed
  <2> QED BY <1>3, <2>2, <2>3, FollowedGraph
<1>4. PICK tt, c : tt = Top.tool /\ c = Row
  OBVIOUS
<1>9. ASSUME NEW reason, slots' = slots \cup {Report(reason)} PROVE Dealt(tt, c)'
  <2>1. PICK s : s = Report(reason)
    OBVIOUS
  <2>2. s \in slots' /\ s.tool = tt /\ s.key = KeyOf(c)
    BY <1>4, <1>9, <2>1 DEF Report
  <2> QED BY <2>2 DEF Dealt
<1>5. CASE FillFromCaller
  <2>1. /\ AtRow /\ stack' = Advanced("row")
        /\ UNCHANGED <<r, target, required, unresolved, cycles>> /\ slots \subseteq slots'
    BY <1>5 DEF FillFromCaller
  <2>2. Selected' = Selected /\ Unclean' = Unclean
    BY <2>1 DEF Selected, Unclean
  <2>3. Dealt(tt, c)'
    <3>1. CASE ~RequiredData(c)
      BY <3>1 DEF Dealt
    <3>2. CASE KeyOf(c) \in r.available
      BY <2>1, <3>2 DEF Dealt
    <3>3. CASE slots' = slots \cup {Report("context_input_required")}
      BY <3>3, <1>9
    <3> QED BY <1>4, <1>5, <3>1, <3>2, <3>3 DEF FillFromCaller
  <2> QED BY <1>4, <2>1, <2>2, <2>3, RowPassed
<1>6. CASE AskForInput
  <2>1. /\ AtRow /\ stack' = Advanced("row") /\ UNCHANGED <<r, target, required, cycles>>
        /\ Ask(RowOffers)
    BY <1>6 DEF AskForInput, NeedsProducer
  <2>2. \/ \E reason : slots' = slots \cup {Report(reason)} /\ unresolved \subseteq unresolved'
        \/ \E reason : slots' = slots /\ unresolved' = unresolved \cup {Report(reason)}
    BY <2>1 DEF Ask
  <2>3. slots \subseteq slots' /\ unresolved \subseteq unresolved'
    BY <2>2
  <2>4. Selected' = Selected /\ (Unclean => Unclean')
    BY <2>1, <2>3 DEF Selected, Unclean
  <2>5. Dealt(tt, c)'
    <3>1. CASE \E reason : slots' = slots \cup {Report(reason)}
      BY <3>1, <1>9
    <3>2. CASE \E reason : unresolved' = unresolved \cup {Report(reason)}
      BY <3>2 DEF Dealt, Unclean
    <3> QED BY <2>2, <3>1, <3>2
  <2> QED BY <1>4, <2>1, <2>3, <2>4, <2>5, RowPassed
<1>7. CASE ChainProducer
  <2>1. AtRow /\ stack # <<>> /\ UNCHANGED <<r, target, slots>>
    BY <1>7 DEF ChainProducer, NeedsProducer, AtRow
  <2>2. PICK t \in Yielders(Top.tool, Row) : AdmittedSomehow(t, KeyOf(Row), "row")
    BY <1>7, ChainedProducer
  <2>3. t \in r.tools \ {tt} /\ \E p \in ToSet(r.produces[t]) : Yields(p, c)
    BY <1>4, <2>2, YielderIsTool
  <2>4. /\ Unclean => Unclean'
        /\ Selected \subseteq Selected' /\ (t \in Selected' \/ Unclean')
    BY <2>1, <2>2, UncleanStays
  <2>5. \/ stack' = Advanced("row") /\ Selected' = Selected
        \/ /\ stack' = Append(Advanced("row"), Frame(t)) /\ t \notin Selected
           /\ Selected' = Selected \cup {t}
    BY <2>1, <2>2, <2>3, ShapeOfRows
  <2>6. Dealt(tt, c)'
    BY <2>1, <2>3, <2>4 DEF Dealt
  <2> QED BY <1>4, <2>1, <2>3, <2>4, <2>5, <2>6, RowPassed
<1>8. CASE Return
  BY <1>8, ReturnRows
<1> QED BY <1>1, <1>2, <1>3, <1>5, <1>6, <1>7, <1>8, Steps

-----------------------------------------------------------------------------
(* Order.  A tool is fed by tools whose visit has returned, and while its  *)
(* own visit runs by the one just above it on the stack as well; so the    *)
(* tools that are done never wait for each other.                          *)
Done == Selected \ OnStack

(* Inductive, on VisitShape.                                               *)
FedByDone ==
  target \in r.tools =>
    \/ Unclean
    \/ /\ \A u, t \in r.tools : Feeds(u, t) => t \in Selected
       /\ \A t \in Done : \A u \in r.tools : Feeds(u, t) => u \in Done
       /\ \A i \in DOMAIN stack : \A u \in r.tools :
            Feeds(u, stack[i].tool) => u \in Done \/ (i < Len(stack) /\ u = stack[i + 1].tool)
       /\ Orderable(Done)

(* The tools that are done stay in order when no feed is added to them.    *)
LEMMA OrderableStays ==
  ASSUME NEW D, Orderable(D), \A u, t \in D : Feeds(u, t)' => Feeds(u, t)
  PROVE  Orderable(D)'
<1> SUFFICES ASSUME NEW s \in (SUBSET D) \ {{}} PROVE \E t \in s : \A u \in s : ~Feeds(u, t)'
  BY DEF Orderable
<1>1. PICK t \in s : \A u \in s : ~Feeds(u, t)
  BY DEF Orderable
<1> QED BY <1>1

(* A tool that none of those before waits for can be added to them.        *)
LEMMA OrderableGrows ==
  ASSUME NEW D, Orderable(D), NEW x, ~Feeds(x, x), \A t \in D : ~Feeds(x, t)
  PROVE  Orderable(D \cup {x})
<1> SUFFICES ASSUME NEW s \in SUBSET (D \cup {x}), s # {} PROVE \E t \in s : \A u \in s : ~Feeds(u, t)
  BY DEF Orderable
<1>1. CASE s = {x}
  BY <1>1
<1>2. CASE s # {x}
  <2>0. PICK y \in s : y # x
    BY <1>2
  <2>1. s \ {x} \in SUBSET D /\ y \in s \ {x}
    BY <2>0
  <2>2. PICK t \in s \ {x} : \A u \in s \ {x} : ~Feeds(u, t)
    BY <2>1 DEF Orderable
  <2> QED BY <2>1, <2>2
<1> QED BY <1>1, <1>2

(* The selected tools are tools of the catalog.                            *)
LEMMA SelectedAreTools ==
  ASSUME VisitShape, target \in r.tools
  PROVE  Selected \subseteq r.tools
BY DEF VisitShape, Selected, ToSet

(* A tool that was selected before is chained again, or none is.           *)
LEMMA FedStays ==
  ASSUME VisitShape, FedByDone, stack # <<>>, r' = r, target' = target, Selected' = Selected,
         Unclean => Unclean', NEW counter \in {"graph", "row"}, stack' = Advanced(counter),
         \A u, x \in r.tools : Feeds(u, x)' => Feeds(u, x) \/ (x = Top.tool /\ u \in Done)
  PROVE  FedByDone'
<1> SUFFICES ASSUME target \in r.tools, ~Unclean PROVE FedByDone'
  BY DEF FedByDone
<1> DEFINE n == Len(stack)
<1>1. n \in Nat \ {0} /\ DOMAIN stack = 1 .. n /\ Top = stack[n] /\ Top.tool \in Selected
  BY TopFits
<1>2. Len(stack') = n /\ DOMAIN stack' = 1 .. n /\ \A i \in 1 .. n : stack'[i].tool = stack[i].tool
  <2>1. stack' \in Seq(Frames) /\ Len(stack') = n /\ \A i \in DOMAIN stack : stack'[i].tool = stack[i].tool
    BY AdvancedFits DEF VisitShape
  <2> QED BY <1>1, <2>1
<1>3. OnStack' = OnStack
  BY <1>1, <1>2 DEF OnStack
<1>4. PICK D : D = Done /\ D = Done'
  BY <1>3 DEF Done
<1>5. Top.tool \notin D /\ D \subseteq r.tools
  BY <1>1, <1>4, SelectedAreTools DEF Done, OnStack
<1>6. /\ \A u, t \in r.tools : Feeds(u, t) => t \in Selected
      /\ \A t \in D : \A u \in r.tools : Feeds(u, t) => u \in D
      /\ \A i \in DOMAIN stack : \A u \in r.tools :
            Feeds(u, stack[i].tool) => u \in D \/ (i < n /\ u = stack[i + 1].tool)
      /\ Orderable(D)
  BY <1>4 DEF FedByDone
<1>7. \A u, t \in r.tools : Feeds(u, t)' => t \in Selected
  BY <1>1, <1>6
<1>8. \A t \in D : \A u \in r.tools : Feeds(u, t)' => u \in D
  BY <1>4, <1>5, <1>6
<1>9. ASSUME NEW i \in 1 .. n, NEW u \in r.tools, Feeds(u, stack[i].tool)'
      PROVE  u \in D \/ (i < n /\ u = stack'[i + 1].tool)
  <2>1. PICK x : x = stack[i].tool
    OBVIOUS
  <2>2. x \in r.tools /\ x = stack'[i].tool
    BY <1>1, <1>2, <2>1, SelectedAreTools DEF VisitShape
  <2>3. Feeds(u, x)'
    BY <1>9, <2>2 DEF Feeds
  <2>4. Feeds(u, x) \/ u \in D
    BY <1>4, <2>2, <2>3
  <2>5. i < n => stack'[i + 1].tool = stack[i + 1].tool
    BY <1>1, <1>2
  <2> QED BY <1>1, <1>6, <2>1, <2>4, <2>5
<1>10. Orderable(D)'
  BY <1>5, <1>6, OrderableStays
<1>11. Orderable(Done)'
  BY <1>4, <1>10 DEF Orderable
<1> QED BY <1>2, <1>4, <1>7, <1>8, <1>9, <1>11 DEF FedByDone

(* A tool that was not selected yet is visited first.                      *)
LEMMA FedPushes ==
  ASSUME VisitShape, FedByDone, stack # <<>>, r' = r, target' = target,
         Unclean => Unclean', NEW counter \in {"graph", "row"},
         NEW t \in r.tools, t \notin Selected, Selected' = Selected \cup {t},
         stack' = Append(Advanced(counter), Frame(t)),
         \A u, x \in r.tools : Feeds(u, x)' => Feeds(u, x) \/ (x = Top.tool /\ u = t)
  PROVE  FedByDone'
<1> SUFFICES ASSUME target \in r.tools, ~Unclean PROVE FedByDone'
  BY DEF FedByDone
<1> DEFINE n == Len(stack)
<1>1. n \in Nat \ {0} /\ DOMAIN stack = 1 .. n /\ Top = stack[n] /\ Top.tool \in Selected
  BY TopFits
<1>2. DOMAIN stack' = 1 .. n + 1 /\ stack'[n + 1].tool = t /\ \A i \in 1 .. n : stack'[i].tool = stack[i].tool
  <2>0. stack \in Seq(Frames)
    BY DEF VisitShape
  <2>1. DOMAIN stack' = 1 .. n + 1 /\ stack'[n + 1] = Frame(t)
    BY <2>0, FramesKept
  <2>2. \A i \in 1 .. n : stack'[i].tool = stack[i].tool
    BY <2>0, FramesKept
  <2> QED BY <2>1, <2>2 DEF Frame
<1>3. OnStack' = OnStack \cup {t}
  <2>1. OnStack' = {stack'[i].tool : i \in 1 .. n} \cup {stack'[n + 1].tool}
    BY <1>1, <1>2 DEF OnStack
  <2> QED BY <1>1, <1>2, <2>1 DEF OnStack
<1>4. PICK D : D = Done /\ D = Done'
  BY <1>3 DEF Done
<1>5. Top.tool \notin D /\ D \subseteq r.tools /\ t \notin D /\ t # Top.tool
  BY <1>1, <1>4, SelectedAreTools DEF Done, OnStack
<1>6. /\ \A u, x \in r.tools : Feeds(u, x) => x \in Selected
      /\ \A x \in D : \A u \in r.tools : Feeds(u, x) => u \in D
      /\ \A i \in DOMAIN stack : \A u \in r.tools :
            Feeds(u, stack[i].tool) => u \in D \/ (i < n /\ u = stack[i + 1].tool)
      /\ Orderable(D)
  BY <1>4 DEF FedByDone
<1>7. \A u, x \in r.tools : Feeds(u, x)' => x \in Selected
  BY <1>1, <1>6
<1>8. \A x \in D : \A u \in r.tools : Feeds(u, x)' => u \in D
  BY <1>4, <1>5, <1>6
<1>10. ASSUME NEW i \in 1 .. n + 1, NEW u \in r.tools, NEW x, x = stack'[i].tool, Feeds(u, x)'
       PROVE  u \in D \/ (i < n + 1 /\ u = stack'[i + 1].tool)
  <2>1. CASE i = n + 1
    <3>1. x = t /\ ~Feeds(u, x)
      BY <1>2, <1>6, <1>10, <2>1
    <3> QED BY <1>5, <1>10, <3>1
  <2>2. CASE i # n + 1
    <3>1. x \in r.tools /\ x = stack[i].tool /\ i \in 1 .. n
      BY <1>1, <1>2, <1>10, <2>2, SelectedAreTools DEF VisitShape
    <3>2. CASE Feeds(u, x)
      <4>1. u \in D \/ (i < n /\ u = stack[i + 1].tool)
        BY <1>1, <1>6, <3>1, <3>2
      <4>2. i < n => stack'[i + 1].tool = stack[i + 1].tool
        BY <1>1, <1>2, <3>1
      <4> HIDE DEF n
      <4>4. i < n + 1
        BY <1>1, <3>1
      <4> QED BY <4>1, <4>2, <4>4
    <3>3. CASE x = Top.tool /\ u = t
      <4>1. n \in DOMAIN stack /\ i \in DOMAIN stack /\ stack[i].tool = stack[n].tool
        BY <1>1, <3>1, <3>3
      <4>2. i = n
        BY <4>1 DEF VisitShape
      <4> QED BY <1>1, <1>2, <3>3, <4>2
    <3> QED BY <1>10, <3>1, <3>2, <3>3
  <2> QED BY <2>1, <2>2
<1>11. Orderable(D)'
  BY <1>5, <1>6, OrderableStays
<1>12. Orderable(Done)'
  BY <1>4, <1>11 DEF Orderable
<1>13. Len(stack') = n + 1
  <2>1. stack' \in Seq(Frames)
    <3>1. Advanced(counter) \in Seq(Frames)
      BY AdvancedFits DEF VisitShape
    <3>2. Frame(t) \in Frames
      BY DEF Frame, Frames
    <3> QED BY <3>1, <3>2
  <2> QED BY <1>1, <1>2, <2>1
<1>14. \A i \in DOMAIN stack' : \A u \in r'.tools :
         Feeds(u, stack[i].tool)' => u \in Done' \/ (i < Len(stack') /\ u = stack'[i + 1].tool)
  BY <1>2, <1>4, <1>10, <1>13 DEF Feeds
<1> QED BY <1>4, <1>7, <1>8, <1>12, <1>14 DEF FedByDone

(* A tool that returns joins those that are done.                          *)
LEMMA FedReturns ==
  ASSUME VisitShape, FedByDone, Return
  PROVE  FedByDone'
<1> SUFFICES ASSUME target \in r.tools, ~Unclean PROVE FedByDone'
  BY DEF FedByDone, Return, Unclean, found
<1> DEFINE n == Len(stack)
<1>0. stack # <<>> /\ stack \in Seq(Frames) /\ UNCHANGED <<r, target, found>>
  BY DEF Return, VisitShape
<1>1. /\ n \in Nat \ {0} /\ DOMAIN stack = 1 .. n /\ Top = stack[n]
      /\ Top.tool \in r.tools /\ Top.tool \in Selected
  BY <1>0, TopFits
<1>2. DOMAIN stack' = 1 .. n - 1 /\ Len(stack') = n - 1 /\ \A i \in 1 .. n - 1 : stack'[i] = stack[i]
  BY <1>0, <1>1 DEF Return
<1>3. PICK D, x : D = Done /\ x = Top.tool
  OBVIOUS
<1>4. Done' = D \cup {x} /\ x \notin D
  <2>1. Selected' = Selected
    BY <1>0 DEF Selected, found
  <2>2. OnStack = OnStack' \cup {x}
    <3>1. OnStack = {stack[i].tool : i \in 1 .. n - 1} \cup {stack[n].tool}
      BY <1>1 DEF OnStack
    <3> QED BY <1>1, <1>2, <1>3, <3>1 DEF OnStack
  <2>3. x \notin OnStack'
    <3>1. \A i \in 1 .. n - 1 : stack[i].tool # stack[n].tool
      <4>1. \A i \in 1 .. n - 1 : i \in DOMAIN stack /\ n \in DOMAIN stack /\ i # n
        <5> HIDE DEF n
        <5> QED BY <1>1
      <4> QED BY <4>1 DEF VisitShape
    <3> QED BY <1>1, <1>2, <1>3, <3>1 DEF OnStack
  <2> QED BY <1>1, <1>3, <2>1, <2>2, <2>3 DEF Done
<1>5. \A u, t : Feeds(u, t)' = Feeds(u, t)
  BY <1>0 DEF Feeds, found
<1>6. /\ \A u, t \in r.tools : Feeds(u, t) => t \in Selected
      /\ \A t \in D : \A u \in r.tools : Feeds(u, t) => u \in D
      /\ \A i \in DOMAIN stack : \A u \in r.tools :
            Feeds(u, stack[i].tool) => u \in D \/ (i < n /\ u = stack[i + 1].tool)
      /\ Orderable(D)
  BY <1>3 DEF FedByDone
<1>7. \A u \in r.tools : Feeds(u, x) => u \in D
  BY <1>1, <1>3, <1>6
<1>8. Orderable(D \cup {x})
  <2>1. ~Feeds(x, x)
    BY <1>1, <1>3, <1>4, <1>7
  <2>2. \A t \in D : ~Feeds(x, t)
    BY <1>1, <1>3, <1>4, <1>6
  <2> QED BY <1>6, <2>1, <2>2, OrderableGrows
<1>9. Orderable(Done)'
  <2>1. PICK d : d = D \cup {x}
    OBVIOUS
  <2>2. Orderable(d)'
    BY <1>5, <1>8, <2>1, OrderableStays
  <2> QED BY <1>4, <2>1, <2>2 DEF Orderable
<1>10. \A u, t \in r'.tools : Feeds(u, t)' => t \in Selected'
  <2>1. Selected' = Selected
    BY <1>0 DEF Selected, found
  <2> QED BY <1>0, <1>5, <1>6, <2>1
<1>11. \A t \in Done' : \A u \in r'.tools : Feeds(u, t)' => u \in Done'
  BY <1>0, <1>4, <1>5, <1>6, <1>7
<1>12. ASSUME NEW i \in DOMAIN stack', NEW u \in r'.tools, Feeds(u, stack[i].tool)'
       PROVE  u \in Done' \/ (i < Len(stack') /\ u = stack'[i + 1].tool)
  <2>1. i \in 1 .. n - 1 /\ stack'[i] = stack[i] /\ i \in DOMAIN stack
    BY <1>1, <1>2
  <2>2. Feeds(u, stack[i].tool)
    BY <1>0, <1>12, <2>1 DEF Feeds, found
  <2>3. u \in D \/ u = stack[i + 1].tool
    BY <1>0, <1>6, <2>1, <2>2
  <2>4. CASE i = n - 1
    BY <1>1, <1>3, <1>4, <2>3, <2>4
  <2>5. CASE i # n - 1
    <3>1. i < n - 1 /\ stack'[i + 1] = stack[i + 1]
      BY <1>1, <1>2, <2>1, <2>5
    <3> QED BY <1>2, <1>4, <2>3, <3>1
  <2> QED BY <2>4, <2>5
<1> QED BY <1>9, <1>10, <1>11, <1>12 DEF FedByDone

(* A producer that is admitted feeds the tool at the top, and no other.    *)
LEMMA AdmittedFeeds ==
  ASSUME VisitShape, FedByDone, stack # <<>>, UNCHANGED <<r, target>>,
         NEW t \in r.tools, NEW key, NEW counter \in {"graph", "row"},
         AdmittedSomehow(t, key, counter),
         NEW chained, chained.tool = Top.tool, chained.producer = t,
         resolved' = resolved \/ resolved' = resolved \cup {chained}
  PROVE  FedByDone'
<1>1. CASE Unclean'
  BY <1>1 DEF FedByDone
<1>2. PICK tt : tt = Top.tool
  OBVIOUS
<1>3. ASSUME paths' = paths \cup {PathRow(t, key)}, NEW u, NEW x, Feeds(u, x)'
      PROVE  Feeds(u, x) \/ (x = tt /\ u = t)
  <2>1. PathRow(t, key).consumer = tt /\ PathRow(t, key).producer = t
    BY <1>2 DEF PathRow
  <2>2. CASE \E f \in resolved' : f.tool = x /\ f.producer = u
    BY <1>2, <2>2 DEF Feeds
  <2>3. CASE \E q \in paths' : q.consumer = x /\ q.producer = u
    BY <1>3, <2>1, <2>3 DEF Feeds
  <2> QED BY <1>3, <2>2, <2>3 DEF Feeds
<1>4. CASE /\ t \in Selected \ OnStack /\ stack' = Advanced(counter) /\ required' = required
           /\ paths' = paths \cup {PathRow(t, key)} /\ UNCHANGED <<unresolved, cycles>>
  <2>1. Selected' = Selected /\ Unclean' = Unclean
    BY <1>4 DEF Selected, Unclean
  <2>2. \A u, x \in r.tools : Feeds(u, x)' => Feeds(u, x) \/ (x = Top.tool /\ u \in Done)
    BY <1>2, <1>3, <1>4 DEF Done
  <2> QED BY <1>4, <2>1, <2>2, FedStays
<1>5. CASE /\ t \notin Selected /\ stack' = Append(Advanced(counter), Frame(t))
           /\ required' = Append(required, t)
           /\ paths' = paths \cup {PathRow(t, key)} /\ UNCHANGED <<unresolved, cycles>>
  <2>1. Selected' = Selected \cup {t} /\ Unclean' = Unclean
    BY <1>5, SelectedGrows DEF Unclean
  <2>2. \A u, x \in r.tools : Feeds(u, x)' => Feeds(u, x) \/ (x = Top.tool /\ u = t)
    BY <1>2, <1>3, <1>5
  <2> QED BY <1>5, <2>1, <2>2, FedPushes
<1> QED BY <1>1, <1>4, <1>5 DEF AdmittedSomehow

(* No step lets a tool wait for one that is not done, or that waits for    *)
(* it.                                                                     *)
LEMMA NextFedByDone ==
  VisitShape /\ FedByDone /\ [Next]_<<allVars, pipelineVars>> => FedByDone'
<1> SUFFICES ASSUME VisitShape, FedByDone, [Next]_<<allVars, pipelineVars>>
             PROVE  FedByDone'
  OBVIOUS
<1>0. ASSUME UNCHANGED <<resolved, paths>> PROVE \A u, x : Feeds(u, x)' = Feeds(u, x)
  BY <1>0 DEF Feeds
<1>1. CASE UNCHANGED vars
  <2>1. UNCHANGED <<resolved, paths, stack, r, target, required, unresolved, cycles>>
    BY <1>1 DEF vars, found
  <2>2. Done' = Done /\ Selected' = Selected /\ Unclean' = Unclean
    BY <2>1 DEF Done, OnStack, Selected, Unclean
  <2>3. Orderable(Done) => Orderable(Done)'
    <3>1. PICK d : d = Done
      OBVIOUS
    <3>2. Orderable(d) => Orderable(d)'
      BY <1>0, <2>1, OrderableStays
    <3> QED BY <2>2, <3>1, <3>2 DEF Orderable
  <2> QED BY <1>0, <2>1, <2>2, <2>3 DEF FedByDone
<1>2. CASE SelectTarget
  <2>1. CASE \E t : Begin(t)
    <3>1. PICK t : Begin(t)
      BY <2>1
    <3>2. /\ required = <<>> /\ UNCHANGED <<r, required, resolved, paths>> /\ target' = t
          /\ resolved = {} /\ paths = {}
      BY <3>1 DEF Begin, VisitShape
    <3>3. CASE t \in r.tools
      <4>1. stack' = <<Frame(t)>> /\ Selected' = {t}
        BY <3>1, <3>2, <3>3 DEF Begin, Selected, ToSet
      <4>2. OnStack' = {t}
        BY <4>1 DEF OnStack, Frame
      <4>3. Done' = {}
        BY <4>1, <4>2 DEF Done
      <4>4. \A u, x : ~Feeds(u, x)'
        BY <3>2 DEF Feeds
      <4>5. Orderable(Done)'
        <5>1. \A s \in SUBSET Done' : s = {}
          BY <4>3
        <5> QED BY <5>1 DEF Orderable
      <4>6. \A i \in DOMAIN stack' : \A u \in r'.tools : ~Feeds(u, stack[i].tool)'
        BY <3>2 DEF Feeds
      <4> QED BY <4>3, <4>4, <4>5, <4>6 DEF FedByDone
    <3>4. CASE t \notin r.tools
      BY <3>2, <3>4 DEF FedByDone
    <3> QED BY <3>3, <3>4
  <2> QED BY <1>1, <1>2, <2>1 DEF SelectTarget
<1>3. CASE FollowGraph
  <2>1. stack # <<>> /\ UNCHANGED <<r, target, resolved>>
    BY <1>3, FollowedGraph
  <2>2. CASE stack' = Advanced("graph") /\ UNCHANGED <<required, unresolved, paths, cycles>>
    <3>1. Selected' = Selected /\ Unclean' = Unclean
      BY <2>1, <2>2 DEF Selected, Unclean
    <3> QED BY <1>0, <2>1, <2>2, <3>1, FedStays
  <2>3. CASE \E t \in r.tools \ {Top.tool} : AdmittedSomehow(t, GraphKey, "graph")
    <3>1. PICK t \in r.tools : AdmittedSomehow(t, GraphKey, "graph")
      BY <2>3
    <3>2. PICK chained : chained = [tool |-> Top.tool, producer |-> t]
      OBVIOUS
    <3> QED BY <2>1, <3>1, <3>2, AdmittedFeeds
  <2> QED BY <1>3, <2>2, <2>3, FollowedGraph
<1>4. CASE FillFromCaller
  <2>1. /\ stack # <<>> /\ stack' = Advanced("row") /\ UNCHANGED <<r, target, required, paths, unresolved, cycles>>
        /\ \/ resolved' = resolved
           \/ \E f : f.producer = Caller /\ resolved' = resolved \cup {f}
    BY <1>4 DEF FillFromCaller, AtRow
  <2>2. Selected' = Selected /\ Unclean' = Unclean
    BY <2>1 DEF Selected, Unclean
  <2>3. Caller \notin r.tools
    BY RequestsAssumption DEF IsRequest, VisitShape, Caller
  <2>4. \A u, x \in r.tools : Feeds(u, x)' => Feeds(u, x)
    BY <2>1, <2>3 DEF Feeds
  <2> QED BY <2>1, <2>2, <2>4, FedStays
<1>5. CASE AskForInput
  <2>1. /\ stack # <<>> /\ stack' = Advanced("row")
        /\ UNCHANGED <<r, target, required, resolved, paths, cycles>> /\ Ask(RowOffers)
    BY <1>5 DEF AskForInput, NeedsProducer, AtRow
  <2>2. unresolved \subseteq unresolved'
    BY <2>1 DEF Ask
  <2>3. Selected' = Selected /\ (Unclean => Unclean')
    BY <2>1, <2>2 DEF Selected, Unclean
  <2> QED BY <1>0, <2>1, <2>3, FedStays
<1>6. CASE ChainProducer
  <2>1. stack # <<>> /\ UNCHANGED <<r, target>>
    BY <1>6, ChainedProducer
  <2>2. PICK t \in Yielders(Top.tool, Row) :
          /\ AdmittedSomehow(t, KeyOf(Row), "row")
          /\ resolved' = resolved \cup {[tool |-> Top.tool, key |-> KeyOf(Row), producer |-> t]}
    BY <1>6, ChainedProducer
  <2>3. t \in r.tools
    BY <2>2, YielderIsTool
  <2>4. PICK chained : chained = [tool |-> Top.tool, key |-> KeyOf(Row), producer |-> t]
    OBVIOUS
  <2>5. chained.tool = Top.tool /\ chained.producer = t /\ resolved' = resolved \cup {chained}
    BY <2>2, <2>4
  <2> QED BY <2>1, <2>2, <2>3, <2>5, AdmittedFeeds
<1>7. CASE Return
  BY <1>7, FedReturns
<1> QED BY <1>1, <1>2, <1>3, <1>4, <1>5, <1>6, <1>7, Steps

-----------------------------------------------------------------------------
(* The verdict.  Inductive, on VisitShape.                                 *)
ReadyMeans ==
  /\ status \notin {"open", "no_target"} => Closed
  /\ status = "ready" => target \in r.tools /\ ~Unclean /\ Missing = {}

(* A bundle is given a verdict after the search has ended, and its parts   *)
(* stay.                                                                   *)
LEMMA NextReadyMeans ==
  VisitShape /\ ReadyMeans /\ [Next]_<<allVars, pipelineVars>> => ReadyMeans'
<1> SUFFICES ASSUME VisitShape, ReadyMeans, [Next]_<<allVars, pipelineVars>>
             PROVE  ReadyMeans'
  OBVIOUS
<1>1. CASE UNCHANGED <<vars, admitted, status>>
  BY <1>1 DEF ReadyMeans, Closed, Unclean, Missing, RequiredOrder, vars, found
<1>2. CASE SelectTarget
  BY <1>2 DEF SelectTarget, ReadyMeans
<1>3. CASE Visit /\ UNCHANGED bundleVars
  <2>1. stack # <<>> /\ status' = status
    BY <1>3 DEF Visit, FollowGraph, GraphLeft, FillFromCaller, AskForInput, NeedsProducer,
                AtRow, ChainProducer, Return, bundleVars
  <2> QED BY <2>1 DEF ReadyMeans, Closed
<1>4. CASE AdmitSchema
  BY <1>4 DEF AdmitSchema, ReadyMeans
<1>5. CASE Finish
  <2>1. Closed /\ UNCHANGED <<vars, admitted>>
    BY <1>5 DEF Finish
  <2>2. status' = "ready" => target \in r.tools /\ ~Unclean /\ Missing = {}
    BY <1>5 DEF Finish, Verdict, Unclean
  <2> QED BY <2>1, <2>2 DEF ReadyMeans, Closed, Unclean, Missing, RequiredOrder, vars, found
<1>6. CASE OfferCandidates
  BY <1>1, <1>6 DEF OfferCandidates, allVars, bundleVars
<1> QED BY <1>1, <1>2, <1>3, <1>4, <1>5, <1>6 DEF Next, Assemble, allVars, bundleVars

(* The required order lists the selected tools.                            *)
LEMMA RequiredOrderSet ==
  ASSUME VisitShape
  PROVE  ToSet(RequiredOrder) = Selected
<1>1. required \in Seq(r.tools)
  BY DEF VisitShape
<1>2. PICK n \in Nat : n = Len(required) /\ DOMAIN required = 1 .. n
  BY <1>1
<1>3. PICK b : b = <<target>> \o required
  OBVIOUS
<1>4. /\ DOMAIN b = 1 .. n + 1 /\ b[1] = target
      /\ \A i \in 1 .. n : b[i + 1] = required[i]
  BY <1>1, <1>2, <1>3
<1>5. \A j \in 1 .. n + 1 : j = 1 \/ (j - 1 \in 1 .. n /\ b[j] = required[j - 1])
  BY <1>2, <1>4
<1>6. ASSUME NEW x \in ToSet(b) PROVE x \in {target} \cup ToSet(required)
  <2>1. PICK j \in 1 .. n + 1 : x = b[j]
    BY <1>4 DEF ToSet
  <2> QED BY <1>2, <1>4, <1>5, <2>1 DEF ToSet
<1>7. ASSUME NEW x \in ToSet(required) PROVE x \in ToSet(b)
  <2>1. PICK i \in 1 .. n : x = required[i]
    BY <1>2 DEF ToSet
  <2>2. i + 1 \in DOMAIN b /\ x = b[i + 1]
    BY <1>4, <2>1
  <2> QED BY <2>2 DEF ToSet
<1>8. target \in ToSet(b)
  <2>1. 1 \in DOMAIN b
    BY <1>4
  <2> QED BY <1>4, <2>1 DEF ToSet
<1> QED BY <1>3, <1>6, <1>7, <1>8 DEF RequiredOrder, Selected

(* ReadyIsRunnable: for every catalog, graph and request, in a bundle that *)
(* is called ready each required input of the target and of the tools      *)
(* added for it is served, and no tools wait for each other.               *)
THEOREM ReadyIsAlwaysRunnable == Spec => []ReadyIsRunnable
<1>1. Init => RowsDealt /\ FedByDone /\ ReadyMeans
  <2> SUFFICES ASSUME Init PROVE RowsDealt /\ FedByDone /\ ReadyMeans
    OBVIOUS
  <2>1. target = NoTool /\ status = "open" /\ r \in Requests
    BY DEF Init, BundleInit, ClosureInit
  <2>2. target \notin r.tools
    BY <2>1, RequestsAssumption DEF IsRequest, NoTool
  <2> QED BY <2>1, <2>2 DEF RowsDealt, FedByDone, ReadyMeans
<1>2. VisitShape /\ RowsDealt /\ FedByDone /\ ReadyMeans => ReadyIsRunnable
  <2> SUFFICES ASSUME VisitShape, RowsDealt, FedByDone, ReadyMeans, status = "ready"
               PROVE  ReadyIsRunnable
    BY DEF ReadyIsRunnable
  <2>1. stack = <<>> /\ target \in r.tools /\ ~Unclean /\ Selected \subseteq ToSet(admitted)
    BY RequiredOrderSet DEF ReadyMeans, Closed, Missing
  <2>2. Done = Selected
    BY <2>1 DEF Done, OnStack
  <2>3. ASSUME NEW t \in Selected, NEW c \in ToSet(r.consumes[t]), RequiredData(c)
        PROVE  Served(t, c)
    <3>1. PICK k \in DOMAIN r.consumes[t] : c = r.consumes[t][k]
      BY DEF ToSet
    <3>2. Dealt(t, c)
      BY <2>1, <3>1 DEF RowsDealt, PassedRow
    <3> QED BY <2>1, <2>3, <3>2 DEF Dealt, Served
  <2>4. Orderable(Selected)
    BY <2>1, <2>2 DEF FedByDone
  <2> QED BY <2>3, <2>4, RequiredOrderSet DEF ReadyIsRunnable
<1>3. Spec => [](VisitShape /\ RowsDealt /\ FedByDone /\ ReadyMeans)
  BY <1>1, AlwaysShape, NextRowsDealt, NextFedByDone, NextReadyMeans, PTL DEF Spec
<1> QED BY <1>2, <1>3, PTL

-----------------------------------------------------------------------------
(* BudgetKeepsChain.  First, what is shown of an admission is a list: each *)
(* of the loops that build it keeps one.                                   *)
KeepOne(c, out, t) ==
  IF Len(out) < c.limit \/ {i \in DOMAIN out : out[i] \notin c.keep} = {} THEN Append(out, t)
  ELSE [out EXCEPT ![Max({i \in DOMAIN out : out[i] \notin c.keep})] = t]
GroupOne(c, chosen, i) == IF OverCap(c.p, c.all, chosen, i) THEN chosen ELSE Append(chosen, c.all[i])
BudgetOne(c, chosen, t) ==
  IF c.p.limit = NoTokens \/ Spent(c.p, Append(chosen, t)) <= c.p.limit
  THEN Append(chosen, t) ELSE chosen
Listed(c, k, out) == out \in Seq(c.names)
Keeping == INSTANCE FoldInduction WITH Op <- KeepOne, Good <- Listed
Grouping == INSTANCE FoldInduction WITH Op <- GroupOne, Good <- Listed
Budgeting == INSTANCE FoldInduction WITH Op <- BudgetOne, Good <- Listed

(* _ensure_always_keep returns a list of the candidates and the kept       *)
(* names.                                                                  *)
LEMMA KeepAlwaysLists ==
  ASSUME NEW U, NEW chosen \in Seq(U), NEW order \in Seq(U), NEW limit, NEW keep
  PROVE  KeepAlways(chosen, order, limit, keep) \in Seq(U \cup keep)
<1> DEFINE seq == Filtered(order, keep \ ToSet(chosen))
<1>1. PICK c : c = [limit |-> limit, keep |-> keep, names |-> U \cup keep]
  OBVIOUS
<1>2. KeepAlways(chosen, order, limit, keep) = Keeping!Result(c, chosen, seq)
  BY <1>1 DEF KeepAlways, KeepOne, FoldLeft, MapThenFoldSet, Max, Keeping!Result,
              Keeping!MapThenFoldSet, Keeping!Largest
<1>3. seq \in Seq(keep \ ToSet(chosen))
  BY FilteredIn
<1>4. PICK n \in Nat : DOMAIN seq = 1 .. n
  BY <1>3
<1>5. \A i \in 1 .. n : seq[i] \in U \cup keep
  BY <1>3, <1>4
<1> HIDE DEF seq
<1>6. ASSUME NEW i \in 1 .. n, NEW out, Listed(c, i - 1, out)
      PROVE  Listed(c, i, KeepOne(c, out, seq[i]))
  <2>1. out \in Seq(U \cup keep) /\ seq[i] \in U \cup keep
    BY <1>1, <1>5, <1>6 DEF Listed
  <2>2. Append(out, seq[i]) \in Seq(U \cup keep)
    BY <2>1
  <2>3. ASSUME NEW m PROVE [out EXCEPT ![m] = seq[i]] \in Seq(U \cup keep)
    <3>1. PICK l \in Nat : out \in [1 .. l -> U \cup keep]
      BY <2>1
    <3>2. PICK b : b = [out EXCEPT ![m] = seq[i]]
      OBVIOUS
    <3>3. b \in [1 .. l -> U \cup keep]
      BY <2>1, <3>1, <3>2
    <3>4. b \in Seq(U \cup keep)
      BY <3>3
    <3> QED BY <3>2, <3>4
  <2> QED BY <1>1, <2>2, <2>3 DEF Listed, KeepOne
<1>7. Listed(c, 0, chosen)
  BY <1>1 DEF Listed
<1>8. Listed(c, n, Keeping!Result(c, chosen, seq))
  BY <1>4, <1>6, <1>7, Keeping!FoldInduction
<1> QED BY <1>1, <1>2, <1>8 DEF Listed

(* So do the group caps: a list of what they are given.                    *)
LEMMA GroupedLists ==
  ASSUME NEW U, NEW all \in Seq(U), NEW p
  PROVE  Grouped(p, all) \in Seq(U)
<1> DEFINE seq == [i \in DOMAIN all |-> i]
<1>1. PICK c : c = [p |-> p, all |-> all, names |-> U]
  OBVIOUS
<1>2. Grouped(p, all) = Grouping!Result(c, <<>>, seq)
  BY <1>1 DEF Grouped, GroupOne, FoldLeft, MapThenFoldSet, Max, Grouping!Result,
              Grouping!MapThenFoldSet, Grouping!Largest
<1>3. PICK n \in Nat : DOMAIN all = 1 .. n
  OBVIOUS
<1>4. DOMAIN seq = 1 .. n /\ \A i \in 1 .. n : seq[i] = i /\ all[i] \in U
  BY <1>3
<1> HIDE DEF seq
<1>5. ASSUME NEW i \in 1 .. n, NEW out, Listed(c, i - 1, out)
      PROVE  Listed(c, i, GroupOne(c, out, seq[i]))
  <2>1. out \in Seq(U) /\ all[seq[i]] \in U
    BY <1>1, <1>4, <1>5 DEF Listed
  <2>2. Append(out, all[seq[i]]) \in Seq(U)
    BY <2>1
  <2> QED BY <1>1, <2>1, <2>2 DEF Listed, GroupOne
<1>6. Listed(c, 0, <<>>)
  BY DEF Listed
<1>7. Listed(c, n, Grouping!Result(c, <<>>, seq))
  BY <1>4, <1>5, <1>6, Grouping!FoldInduction
<1> QED BY <1>1, <1>2, <1>7 DEF Listed

(* And so does the token budget of the admission.                          *)
LEMMA BudgetedLists ==
  ASSUME NEW U, NEW grouped \in Seq(U), NEW p
  PROVE  Budgeted(p, grouped) \in Seq(U)
<1>1. PICK c : c = [p |-> p, names |-> U]
  OBVIOUS
<1>2. Budgeted(p, grouped) = Budgeting!Result(c, <<>>, grouped)
  BY <1>1 DEF Budgeted, BudgetOne, FoldLeft, MapThenFoldSet, Max, Budgeting!Result,
         Budgeting!MapThenFoldSet, Budgeting!Largest
<1>3. PICK n \in Nat : DOMAIN grouped = 1 .. n
  OBVIOUS
<1>4. ASSUME NEW i \in 1 .. n, NEW out, Listed(c, i - 1, out)
      PROVE  Listed(c, i, BudgetOne(c, out, grouped[i]))
  <2>1. out \in Seq(U) /\ grouped[i] \in U
    BY <1>1, <1>3, <1>4 DEF Listed
  <2>2. Append(out, grouped[i]) \in Seq(U)
    BY <2>1
  <2> QED BY <1>1, <2>1, <2>2 DEF Listed, BudgetOne
<1>5. Listed(c, 0, <<>>)
  BY DEF Listed
<1>6. Listed(c, n, Budgeting!Result(c, <<>>, grouped))
  BY <1>3, <1>4, <1>5, Budgeting!FoldInduction
<1> QED BY <1>1, <1>2, <1>6 DEF Listed

(* A list is one of its own elements.                                      *)
LEMMA ListOfOwn ==
  ASSUME NEW U, NEW s \in Seq(U)
  PROVE  s \in Seq(ToSet(s))
<1>1. PICK n \in Nat : s \in [1 .. n -> U]
  OBVIOUS
<1>2. \A i \in 1 .. n : s[i] \in ToSet(s)
  BY <1>1 DEF ToSet
<1>3. s \in [1 .. n -> ToSet(s)]
  BY <1>1, <1>2
<1> QED BY <1>3

(* A ranking is a function of the places.                                  *)
LEMMA SortedIsFunction ==
  ASSUME NEW S, NEW key
  PROVE  Sorted(S, key) = [i \in 1 .. Cardinality(S) |-> Sorted(S, key)[i]]
<1> DEFINE ranked(i) == CHOOSE s \in S : Cardinality({u \in S : Precedes(key[u], key[s])}) = i - 1
           f == [i \in 1 .. Cardinality(S) |-> ranked(i)]
<1>2. Sorted(S, key) = f
  BY DEF Sorted
<1> HIDE DEF ranked
<1>1. f = [i \in 1 .. Cardinality(S) |-> f[i]]
  OBVIOUS
<1> HIDE DEF f
<1> QED BY <1>1, <1>2

(* What is assumed of the candidates of a request.                         *)
LEMMA CaseOf ==
  ASSUME r \in Requests
  PROVE  /\ r.targets.names \in Seq(ToSet(r.targets.names))
         /\ r.targets.least \in Nat /\ r.targets.most \in Nat
         /\ IsFiniteSet(r.targets.query.terms) /\ r.targets.query.lastAction \in ActionNames
<1>1. IsCase(r.targets)
  BY TargetsAssumption
<1> QED BY <1>1 DEF IsCase

(* The names an adapter shows are a list of the candidates and of the      *)
(* names it must keep.                                                     *)
LEMMA ShownIsList ==
  ASSUME r \in Requests
  PROVE  Admission(r.targets).shown \in Seq(ToSet(Admission(r.targets).shown))
<1> DEFINE order == Ranked(r.targets, r.targets.names, AdmissionScore(r.targets))
           cliffs == Cliffs(r.targets, AdmissionScore(r.targets), order)
           limit == Limit(r.targets, cliffs, order)
           U == ToSet(order) \cup r.targets.keep
           eligible == KeepAlways(SubSeq(order, 1, limit), order, limit, r.targets.keep)
<1>1. order \in Seq(ToSet(order))
  <2> DEFINE known == {t \in ToSet(r.targets.names) : t \in DOMAIN r.targets.tool}
  <2>1. PICK n \in Nat : DOMAIN r.targets.names = 1 .. n
    BY CaseOf
  <2>2. IsFiniteSet(known)
    <3>1. IsFiniteSet(1 .. n)
      BY FS_Interval
    <3>2. r.targets.names \in Surjection(1 .. n, ToSet(r.targets.names))
      <4>1. PICK b : b = r.targets.names
        OBVIOUS
      <4>2. b \in Seq(ToSet(b)) /\ DOMAIN b = 1 .. n
        BY <2>1, <4>1, CaseOf
      <4>3. b \in [1 .. n -> ToSet(b)]
        BY <4>2
      <4>4. \A t \in ToSet(b) : \E i \in 1 .. n : b[i] = t
        BY <4>2 DEF ToSet
      <4> QED BY <4>1, <4>3, <4>4 DEF Surjection
    <3>3. IsFiniteSet(ToSet(r.targets.names))
      BY <3>1, <3>2, FS_Surjection
    <3> QED BY <3>3, FS_Subset
  <2>3. Cardinality(known) \in Nat /\ DOMAIN order = 1 .. Cardinality(known)
    BY <2>2, FS_CardinalityType DEF Ranked, Sorted
  <2>4. order = [i \in 1 .. Cardinality(known) |-> order[i]]
    BY SortedIsFunction DEF Ranked
  <2>5. \A i \in DOMAIN order : order[i] \in ToSet(order)
    BY DEF ToSet
  <2> HIDE DEF order, known
  <2> QED BY <2>3, <2>4, <2>5
<1> HIDE DEF order
<1>2. SubSeq(order, 1, limit) \in Seq(ToSet(order))
  <2>1. limit \in Nat /\ limit <= Len(order)
    <3>1. PICK l \in Nat : l = Len(order)
      BY <1>1
    <3>2. PICK most \in Nat, least \in Nat : most = r.targets.most /\ least = r.targets.least
      BY CaseOf
    <3>3. \A a, b \in Nat : Min({a, b}) \in {a, b} /\ Min({a, b}) <= a /\ Min({a, b}) <= b
      BY DEF Min
    <3>4. Min({most, l}) \in Nat /\ Min({most, l}) <= l
      BY <3>3
    <3>5. Min({least, Min({most, l})}) \in Nat
      BY <3>3, <3>4
    <3>6. \A b \in cliffs : b \in Nat /\ b <= l
      BY <3>1, <3>2, <3>4, <3>5 DEF Cliffs
    <3>7. cliffs # {} => Min(cliffs) \in cliffs
      <4> HIDE DEF cliffs
      <4> QED BY <3>6, LeastOf
    <3> HIDE DEF cliffs
    <3> QED BY <3>1, <3>2, <3>4, <3>6, <3>7 DEF Limit
  <2> HIDE DEF limit
  <2> QED BY <1>1, <2>1
<1>3. eligible \in Seq(U)
  BY <1>1, <1>2, KeepAlwaysLists
<1>4. Grouped(r.targets, eligible) \in Seq(U)
  BY <1>3, GroupedLists
<1>5. Budgeted(r.targets, Grouped(r.targets, eligible)) \in Seq(U)
  BY <1>4, BudgetedLists
<1> HIDE DEF eligible, U
<1>6. PICK b : b = Budgeted(r.targets, Grouped(r.targets, eligible))
  OBVIOUS
<1>7. b \in Seq(ToSet(b))
  BY <1>5, <1>6, ListOfOwn
<1>8. Admission(r.targets).shown = b
  BY <1>6 DEF Admission, AdmissionByScore, AdmissionInOrder, order, cliffs, limit, eligible
<1> QED BY <1>7, <1>8

(* The loop that sums the tokens: of no schemas they are 0.                *)
SumOne(cost, sum, t) == sum + cost[t]
NothingIsFree(cost, k, sum) == k = 0 => sum = 0
Summing == INSTANCE FoldInduction WITH Op <- SumOne, Good <- NothingIsFree

(* The tokens of a list of schemas are such a loop's result.               *)
LEMMA TokensOf == \A names : Tokens(names) = Summing!Result(r.cost, 0, names)
BY DEF Tokens, SumOne, FoldLeft, MapThenFoldSet, Max, Summing!Result,
       Summing!MapThenFoldSet, Summing!Largest

(* No schemas cost no tokens.                                              *)
LEMMA TokensOfNone == Tokens(<<>>) = 0
<1>1. DOMAIN <<>> = 1 .. 0
  OBVIOUS
<1>2. NothingIsFree(r.cost, 0, 0)
  BY DEF NothingIsFree
<1>3. \A i \in 1 .. 0 : \A sum : NothingIsFree(r.cost, i - 1, sum) =>
                                   NothingIsFree(r.cost, i, SumOne(r.cost, sum, <<>>[i]))
  OBVIOUS
<1>4. NothingIsFree(r.cost, 0, Summing!Result(r.cost, 0, <<>>))
  BY <1>1, <1>2, <1>3, Summing!FoldInduction
<1> QED BY <1>4, TokensOf DEF NothingIsFree

(* The tokens of the same names stay the same.                             *)
LEMMA TokensStay ==
  ASSUME r' = r
  PROVE  \A names : Tokens(names)' = Tokens(names)
<1>1. \A names : Tokens(names)' = Summing!Result(r'.cost, 0, names)
  BY DEF Tokens, SumOne, FoldLeft, MapThenFoldSet, Max, Summing!Result,
         Summing!MapThenFoldSet, Summing!Largest
<1> QED BY <1>1, TokensOf

(* One list after another starts with the first.                           *)
LEMMA JoinedLists ==
  ASSUME NEW U, NEW s \in Seq(U), NEW t \in Seq(U)
  PROVE  /\ s \o t \in Seq(U) /\ Len(s \o t) \in Nat /\ Len(s) <= Len(s \o t)
         /\ \A i \in 1 .. Len(s) : (s \o t)[i] = s[i]
<1>1. PICK b : b = s \o t
  OBVIOUS
<1>2. b \in Seq(U) /\ Len(b) = Len(s) + Len(t)
  BY <1>1
<1>3. Len(s) \in Nat /\ Len(t) \in Nat
  OBVIOUS
<1>4. \A i \in 1 .. Len(s) : b[i] = s[i]
  BY <1>1
<1> QED BY <1>1, <1>2, <1>3, <1>4

(* The candidate order starts with the required tools.                     *)
LEMMA RequiredFirst ==
  ASSUME VisitShape, others \in Seq(ToSet(others))
  PROVE  /\ Len(RequiredOrder) \in Nat \ {0} /\ Len(CandidateOrder) \in Nat
         /\ Len(RequiredOrder) <= Len(CandidateOrder)
         /\ DOMAIN RequiredOrder = 1 .. Len(RequiredOrder)
         /\ \A i \in DOMAIN RequiredOrder : CandidateOrder[i] = RequiredOrder[i]
<1>1. PICK lead : lead = Filtered(Others, ToSet(Others) \ ToSet(RequiredOrder))
  OBVIOUS
<1>2. PICK rest : rest = Filtered(optional, ToSet(optional) \ (ToSet(RequiredOrder) \cup ToSet(lead)))
  OBVIOUS
<1>3. CandidateOrder = RequiredOrder \o lead \o rest
  BY <1>1, <1>2 DEF CandidateOrder
<1>4. lead \in Seq(ToSet(Others) \ ToSet(RequiredOrder))
  <2>1. Others \in Seq(r.tools \ {target})
    BY FilteredIn DEF Others
  <2> QED BY <1>1, <2>1, FilteredIn
<1>5. rest \in Seq(ToSet(optional) \ (ToSet(RequiredOrder) \cup ToSet(lead)))
  BY <1>2, FilteredIn DEF VisitShape
<1>6. RequiredOrder \in Seq({target} \cup r.tools) /\ Len(RequiredOrder) = Len(required) + 1
  <2>1. required \in Seq(r.tools)
    BY DEF VisitShape
  <2>2. required \in Seq({target} \cup r.tools) /\ <<target>> \in Seq({target} \cup r.tools)
    BY <2>1
  <2> QED BY <2>1, <2>2 DEF RequiredOrder
<1>7. PICK U : U = {target} \cup r.tools \cup ToSet(Others) \cup ToSet(optional)
  OBVIOUS
<1>8. RequiredOrder \in Seq(U) /\ lead \in Seq(U) /\ rest \in Seq(U)
  <2>1. RequiredOrder \in Seq(U)
    BY <1>6, <1>7
  <2>2. lead \in Seq(U)
    BY <1>4, <1>7, WiderSeq
  <2>3. rest \in Seq(U)
    BY <1>5, <1>7, WiderSeq
  <2> QED BY <2>1, <2>2, <2>3
<1>9. PICK d : d = RequiredOrder \o lead
  OBVIOUS
<1>10. d \in Seq(U) /\ Len(d) \in Nat /\ Len(RequiredOrder) <= Len(d)
       /\ \A i \in 1 .. Len(RequiredOrder) : d[i] = RequiredOrder[i]
  BY <1>8, <1>9, JoinedLists
<1>11. PICK e : e = d \o rest
  OBVIOUS
<1>12. Len(e) \in Nat /\ Len(d) <= Len(e) /\ \A i \in 1 .. Len(d) : e[i] = d[i]
  BY <1>8, <1>10, <1>11, JoinedLists
<1>13. CandidateOrder = e
  BY <1>3, <1>9, <1>11
<1>14. DOMAIN RequiredOrder = 1 .. Len(RequiredOrder) /\ Len(RequiredOrder) \in Nat \ {0}
  <2>1. Len(required) \in Nat
    BY DEF VisitShape
  <2> QED BY <1>6, <2>1
<1> QED BY <1>10, <1>12, <1>13, <1>14

(* Inductive: the schemas admitted are the required ones up to the place   *)
(* that is next; past them none of the required is missing, or admission   *)
(* has ended.                                                              *)
Admitting ==
  /\ others \in Seq(ToSet(others)) /\ admitted \in Seq(ToSet(admitted)) /\ next \in Nat \ {0}
  /\ target = NoTool \/ stack # <<>> => admitted = <<>> /\ next = 1
  /\ Closed =>
       IF next <= Len(RequiredOrder)
       THEN ToSet(admitted) = {RequiredOrder[i] : i \in 1 .. next - 1}
       ELSE \/ Missing = {}
            \/ next > Len(CandidateOrder) /\ ToSet(admitted) \subseteq ToSet(RequiredOrder)
  /\ r.budget # NoLimit => Tokens(admitted) <= r.budget

(* It holds at the start.                                                  *)
LEMMA InitAdmitting == Init => Admitting
<1> SUFFICES ASSUME Init PROVE Admitting
  OBVIOUS
<1>1. others = <<>> /\ admitted = <<>> /\ next = 1 /\ target = NoTool /\ r \in Requests
  BY DEF Init, BundleInit, ClosureInit
<1>2. r.budget \in Nat
  BY <1>1, RequestsAssumption DEF IsRequest
<1>3. others \in Seq(ToSet(others)) /\ admitted \in Seq(ToSet(admitted))
  BY <1>1
<1>4. Tokens(admitted) = 0
  BY <1>1, TokensOfNone
<1> QED BY <1>1, <1>2, <1>3, <1>4 DEF Admitting, Closed

(* What is admitted and the two orders stay when their parts do.           *)
LEMMA AdmittingStays ==
  ASSUME Admitting, UNCHANGED <<r, target, stack, required, optional, others, admitted, next>>
  PROVE  Admitting'
<1>1. /\ RequiredOrder' = RequiredOrder /\ CandidateOrder' = CandidateOrder
      /\ Missing' = Missing /\ Closed' = Closed
  BY DEF RequiredOrder, CandidateOrder, Others, Missing, Closed
<1>2. Tokens(admitted)' = Tokens(admitted)
  <2>1. PICK a : a = admitted
    OBVIOUS
  <2>2. Tokens(a)' = Tokens(a)
    BY TokensStay
  <2> QED BY <2>1, <2>2, TokensOf DEF Tokens
<1> QED BY <1>1, <1>2 DEF Admitting

(* Before the admission starts nothing is spent.                           *)
LEMMA NothingAdmitted ==
  ASSUME VisitShape, VisitShape', r' = r, others' \in Seq(ToSet(others')),
         admitted' = <<>>, next' = 1
  PROVE  Admitting'
<1>0. r.budget # NoLimit => Tokens(admitted)' <= r.budget
  <2>1. r.budget \in Nat
    BY RequestsAssumption DEF IsRequest, VisitShape
  <2>2. Tokens(<<>>)' = Tokens(<<>>)
    BY TokensStay
  <2>3. Tokens(admitted)' = Tokens(<<>>)'
    BY DEF Tokens
  <2> QED BY <2>1, <2>2, <2>3, TokensOfNone
<1>1. Len(RequiredOrder') >= 1
  <2>1. required' \in Seq(r'.tools)
    BY DEF VisitShape
  <2>2. Len(<<target'>> \o required') >= 1
    BY <2>1
  <2> QED BY <2>2 DEF RequiredOrder
<1>2. ToSet(admitted') = {RequiredOrder'[i] : i \in 1 .. next' - 1}
  BY DEF ToSet
<1>3. admitted' \in Seq(ToSet(admitted'))
  OBVIOUS
<1> QED BY <1>0, <1>1, <1>2, <1>3 DEF Admitting

(* A schema is admitted, passed over, or ends the admission.               *)
LEMMA AdmitKeeps ==
  ASSUME VisitShape, Admitting, AdmitSchema
  PROVE  Admitting'
<1>0. Closed /\ UNCHANGED <<vars, others>> /\ next \in Nat \ {0}
  BY DEF AdmitSchema, Admitting
<1>1. UNCHANGED <<r, target, stack, required, optional, others>>
  BY <1>0 DEF vars, found
<1>2. RequiredOrder' = RequiredOrder /\ CandidateOrder' = CandidateOrder /\ Closed' = Closed
  BY <1>1 DEF RequiredOrder, CandidateOrder, Others, Closed
<1>3. PICK must, all : must = RequiredOrder /\ all = CandidateOrder
  OBVIOUS
<1>4. PICK n \in Nat \ {0}, m \in Nat :
        /\ n = Len(must) /\ m = Len(all) /\ n <= m /\ DOMAIN must = 1 .. n
        /\ \A i \in 1 .. n : all[i] = must[i]
  BY <1>3, RequiredFirst DEF Admitting
<1>5. target # NoTool /\ stack = <<>>
  BY <1>0 DEF Closed
<1>6. ToSet(must) = {must[i] : i \in 1 .. n}
  BY <1>4 DEF ToSet
<1>7. next <= m
  BY <1>3, <1>4 DEF AdmitSchema
<1>8. /\ next <= n => ToSet(admitted) = {must[i] : i \in 1 .. next - 1}
      /\ next > n => ToSet(must) \subseteq ToSet(admitted)
  <2>1. next > n => Missing = {}
    BY <1>0, <1>3, <1>4, <1>7 DEF Admitting
  <2> QED BY <1>0, <1>3, <1>4, <2>1 DEF Admitting, Missing
<1> DEFINE UpTo(k, names) ==
             IF k <= n THEN ToSet(names) = {must[i] : i \in 1 .. k - 1}
             ELSE ToSet(must) \subseteq ToSet(names) \/ (k > m /\ ToSet(names) \subseteq ToSet(must))
           AllStand == /\ admitted' \in Seq(ToSet(admitted')) /\ next' \in Nat \ {0}
                       /\ UpTo(next', admitted')
                       /\ r.budget # NoLimit => Tokens(admitted)' <= r.budget
<1>9. ASSUME ~Fits(all[next]) PROVE AllStand
  <2>1. admitted' = admitted /\ next' = IF all[next] \in ToSet(must) THEN m + 1 ELSE next + 1
    BY <1>3, <1>4, <1>9 DEF AdmitSchema
  <2>2. r.budget # NoLimit => Tokens(admitted)' <= r.budget
    <3>1. PICK a : a = admitted
      OBVIOUS
    <3>2. Tokens(a)' = Tokens(a)
      BY <1>1, TokensStay
    <3>3. Tokens(admitted)' = Tokens(a)'
      BY <2>1, <3>1 DEF Tokens
    <3> QED BY <3>1, <3>2, <3>3 DEF Admitting
  <2>3. next' \in Nat \ {0} /\ next' > n /\ (next <= n => next' > m)
    <3>1. next <= n => all[next] \in ToSet(must)
      BY <1>0, <1>4, <1>6
    <3>2. next > n => next + 1 > n
      BY <1>0, <1>4
    <3> QED BY <1>0, <1>4, <2>1, <3>1, <3>2
  <2>4. next <= n => ToSet(admitted) \subseteq ToSet(must)
    BY <1>0, <1>6, <1>8
  <2>5. UpTo(next', admitted')
    BY <1>0, <1>4, <1>8, <2>1, <2>3, <2>4
  <2> HIDE DEF UpTo
  <2> QED BY <2>1, <2>2, <2>3, <2>5 DEF Admitting
<1>10. ASSUME Fits(all[next]) PROVE AllStand
  <2>1. admitted' = Append(admitted, all[next]) /\ next' = next + 1
    BY <1>3, <1>10 DEF AdmitSchema
  <2>2. r.budget # NoLimit => Tokens(admitted)' <= r.budget
    <3>1. PICK a : a = Append(admitted, all[next])
      OBVIOUS
    <3>2. Tokens(a)' = Tokens(a)
      BY <1>1, TokensStay
    <3>3. Tokens(admitted)' = Tokens(a)'
      BY <2>1, <3>1 DEF Tokens
    <3> QED BY <1>10, <3>1, <3>2, <3>3 DEF Fits
  <2>3. admitted \in Seq(ToSet(admitted))
    BY DEF Admitting
  <2>4. ToSet(admitted') = ToSet(admitted) \cup {all[next]}
    BY <2>1, <2>3, OneMore
  <2>5. admitted' \in Seq(ToSet(admitted'))
    <3>1. PICK V : V = ToSet(admitted) \cup {all[next]}
      OBVIOUS
    <3>2. admitted \in Seq(V)
      BY <2>3, <3>1, WiderSeq
    <3>3. Append(admitted, all[next]) \in Seq(V)
      BY <3>1, <3>2
    <3> QED BY <2>1, <3>3, ListOfOwn
  <2>6. UpTo(next', admitted')
    <3>1. CASE next <= n
      <4>1. ToSet(admitted') = {must[i] : i \in 1 .. next}
        BY <1>0, <1>4, <1>8, <2>4, <3>1
      <4>2. next + 1 > n => next = n
        BY <1>0, <1>4, <3>1
      <4> QED BY <1>0, <1>6, <2>1, <4>1, <4>2
    <3>2. CASE next > n
      <4>1. ToSet(must) \subseteq ToSet(admitted') /\ ~(next + 1 <= n)
        BY <1>0, <1>4, <1>8, <2>4, <3>2
      <4> QED BY <2>1, <4>1
    <3> QED BY <1>0, <1>4, <3>1, <3>2
  <2> HIDE DEF UpTo
  <2> QED BY <1>0, <2>1, <2>2, <2>5, <2>6
<1>11. AllStand
  BY <1>9, <1>10
<1>12. others' \in Seq(ToSet(others'))
  BY <1>1 DEF Admitting
<1>13. IF next' <= Len(RequiredOrder')
       THEN ToSet(admitted') = {RequiredOrder'[i] : i \in 1 .. next' - 1}
       ELSE \/ Missing' = {}
            \/ next' > Len(CandidateOrder') /\ ToSet(admitted') \subseteq ToSet(RequiredOrder')
  <2>1. Missing' = ToSet(must) \ ToSet(admitted')
    BY <1>2, <1>3 DEF Missing
  <2>2. UpTo(next', admitted')
    BY <1>11
  <2> QED BY <1>2, <1>3, <1>4, <2>1, <2>2
<1>14. target' # NoTool /\ stack' = <<>> /\ r' = r
  BY <1>1, <1>5
<1>15. /\ admitted' \in Seq(ToSet(admitted')) /\ next' \in Nat \ {0}
       /\ r.budget # NoLimit => Tokens(admitted)' <= r.budget
  BY <1>11
<1> HIDE DEF UpTo, AllStand
<1> QED BY <1>12, <1>13, <1>14, <1>15 DEF Admitting

(* Every step keeps it.                                                    *)
LEMMA NextAdmitting ==
  VisitShape /\ Admitting /\ [Next]_<<allVars, pipelineVars>> => Admitting'
<1> SUFFICES ASSUME VisitShape, Admitting, [Next]_<<allVars, pipelineVars>>
             PROVE  Admitting'
  OBVIOUS
<1>1. CASE UNCHANGED <<vars, bundleVars>>
  BY <1>1, AdmittingStays DEF vars, bundleVars, found
<1>2. CASE SelectTarget
  <2>1. CASE UNCHANGED <<vars, others>>
    BY <1>2, <2>1, AdmittingStays DEF SelectTarget, vars, found
  <2>2. CASE (\E t : Begin(t)) /\ others' = admission'.shown
    <3>1. r' = r /\ target = NoTool
      BY <2>2 DEF Begin
    <3>2. admitted' = <<>> /\ next' = 1
      BY <1>2, <3>1 DEF SelectTarget, Admitting
    <3>3. PICK o : o = Admission(r.targets).shown
      OBVIOUS
    <3>4. o \in Seq(ToSet(o))
      BY <3>3, ShownIsList DEF VisitShape
    <3>5. others' = o
      BY <1>2, <2>2, <3>3 DEF SelectTarget
    <3> QED BY <3>1, <3>2, <3>4, <3>5, NextShape, NothingAdmitted
  <2> QED BY <1>2, <2>1, <2>2 DEF SelectTarget
<1>3. CASE Visit /\ UNCHANGED bundleVars
  <2>1. stack # <<>> /\ r' = r /\ target' = target
    BY <1>3 DEF Visit, FollowGraph, GraphLeft, FillFromCaller, AskForInput, NeedsProducer,
                AtRow, ChainProducer, Return
  <2>2. admitted' = <<>> /\ next' = 1 /\ others' = others
    BY <1>3, <2>1 DEF Admitting, bundleVars
  <2>3. others' \in Seq(ToSet(others'))
    BY <2>2 DEF Admitting
  <2> QED BY <2>1, <2>2, <2>3, NextShape, NothingAdmitted
<1>4. CASE AdmitSchema
  BY <1>4, AdmitKeeps
<1>5. CASE Finish
  BY <1>5, AdmittingStays DEF Finish, vars, found
<1>6. CASE OfferCandidates
  BY <1>1, <1>6 DEF OfferCandidates, allVars
<1> QED BY <1>1, <1>2, <1>3, <1>4, <1>5, <1>6 DEF Next, Assemble, allVars, bundleVars

(* BudgetKeepsChain: for every catalog, request and budget, a schema that  *)
(* is not required is admitted only when the target and every tool that is *)
(* required for it are, and the admitted schemas fit in the budget.        *)
THEOREM BudgetAlwaysKeepsChain == Spec => []BudgetKeepsChain
<1>1. VisitShape /\ Admitting => BudgetKeepsChain
  <2> SUFFICES ASSUME VisitShape, Admitting, ToSet(admitted) \ ToSet(RequiredOrder) # {}
               PROVE  Missing = {}
    BY DEF BudgetKeepsChain, Admitting
  <2>1. Closed
    <3>1. admitted # <<>>
      BY DEF ToSet
    <3> QED BY <3>1 DEF Admitting, Closed
  <2>2. CASE next <= Len(RequiredOrder)
    <3>1. ToSet(admitted) = {RequiredOrder[i] : i \in 1 .. next - 1}
      BY <2>1, <2>2 DEF Admitting
    <3>2. /\ Len(RequiredOrder) \in Nat /\ next \in Nat
          /\ DOMAIN RequiredOrder = 1 .. Len(RequiredOrder)
      BY RequiredFirst DEF Admitting
    <3>3. \A i \in 1 .. next - 1 : i \in DOMAIN RequiredOrder
      BY <2>2, <3>2
    <3> QED BY <3>1, <3>3 DEF ToSet
  <2>3. CASE ~(next <= Len(RequiredOrder))
    BY <2>1, <2>3 DEF Admitting
  <2> QED BY <2>2, <2>3
<1>2. Spec => [](VisitShape /\ Admitting)
  BY InitAdmitting, AlwaysShape, NextAdmitting, PTL DEF Spec
<1> QED BY <1>1, <1>2, PTL

-----------------------------------------------------------------------------
(* The sum of a set of evidence, as the fold defines it over its subsets.  *)
Sums(f, S) ==
  f = [s \in SUBSET S |->
         IF s = {} THEN 0 ELSE f[s \ {CHOOSE x \in s : TRUE}] + (CHOOSE x \in s : TRUE).score]

(* Without the element that is taken first a set is smaller by one.        *)
LEMMA OneLess ==
  ASSUME NEW S, IsFiniteSet(S), NEW s \in SUBSET S, s # {}
  PROVE  /\ (CHOOSE x \in s : TRUE) \in s /\ IsFiniteSet(s)
         /\ s \ {CHOOSE x \in s : TRUE} \in SUBSET S
         /\ Cardinality(s) \in Nat /\ Cardinality(s) > 0
         /\ Cardinality(s \ {CHOOSE x \in s : TRUE}) = Cardinality(s) - 1
<1>1. PICK e : e = CHOOSE x \in s : TRUE
  OBVIOUS
<1>2. e \in s
  BY <1>1
<1>3. IsFiniteSet(s)
  BY FS_Subset
<1>4. Cardinality(s) \in Nat /\ Cardinality(s) # 0
  BY <1>3, FS_CardinalityType, FS_EmptySet
<1>5. Cardinality(s \ {e}) = Cardinality(s) - 1
  BY <1>2, <1>3, FS_RemoveElement
<1> QED BY <1>1, <1>2, <1>3, <1>4, <1>5

(* What is evidence: finitely many pieces, each with a number.             *)
IsEvidence(S) == IsFiniteSet(S) /\ \A e \in S : e.score \in Int

(* The sum exists.                                                         *)
LEMMA SumsExist ==
  ASSUME NEW S, IsEvidence(S)
  PROVE  \E f : Sums(f, S)
<1> DEFINE F == [SUBSET S -> Int]
           first(s) == CHOOSE x \in s : TRUE
           upTo(f, k) == \A s \in SUBSET S : Cardinality(s) <= k =>
                           f[s] = IF s = {} THEN 0 ELSE f[s \ {first(s)}] + first(s).score
           T == {k \in Nat : \E f \in F : upTo(f, k)}
<1>0. IsFiniteSet(S) /\ \A e \in S : e.score \in Int
  BY DEF IsEvidence
<1>1. \A s \in SUBSET S : Cardinality(s) \in Nat /\ (Cardinality(s) = 0 <=> s = {})
  <2> TAKE s \in SUBSET S
  <2>1. IsFiniteSet(s)
    BY <1>0, FS_Subset
  <2> QED BY <2>1, FS_CardinalityType, FS_EmptySet
<1>2. 0 \in T
  <2> DEFINE f == [s \in SUBSET S |-> 0]
  <2>1. f \in F
    OBVIOUS
  <2>2. \A s \in SUBSET S : Cardinality(s) <= 0 => s = {}
    BY <1>1
  <2>3. upTo(f, 0)
    BY <2>2
  <2> HIDE DEF f, F, upTo
  <2> QED BY <2>1, <2>3
<1>3. ASSUME NEW k \in T PROVE k + 1 \in T
  <2> HIDE DEF upTo, first
  <2>1. PICK f \in F : upTo(f, k)
    OBVIOUS
  <2> DEFINE h == [s \in SUBSET S |->
                     IF Cardinality(s) <= k THEN f[s]
                     ELSE IF s = {} THEN 0 ELSE f[s \ {first(s)}] + first(s).score]
  <2>2. \A s \in SUBSET S : s # {} => first(s) \in s /\ s \ {first(s)} \in SUBSET S
                                       /\ Cardinality(s \ {first(s)}) = Cardinality(s) - 1
    BY <1>0, OneLess DEF first
  <2>3. h \in F
    <3> SUFFICES ASSUME NEW s \in SUBSET S PROVE h[s] \in Int
      OBVIOUS
    <3>1. s # {} => f[s \ {first(s)}] \in Int /\ first(s).score \in Int
      BY <2>2, <1>0
    <3> QED BY <3>1
  <2>4. ASSUME NEW s \in SUBSET S, Cardinality(s) <= k + 1
        PROVE  h[s] = IF s = {} THEN 0 ELSE h[s \ {first(s)}] + first(s).score
    <3>0. k \in Nat /\ Cardinality(s) \in Nat
      BY <1>1
    <3>1. s # {} => Cardinality(s \ {first(s)}) <= k /\ s \ {first(s)} \in SUBSET S
      BY <2>2, <2>4, <3>0
    <3>2. s # {} => h[s \ {first(s)}] = f[s \ {first(s)}]
      BY <3>1
    <3>3. CASE Cardinality(s) <= k
      <4>1. f[s] = IF s = {} THEN 0 ELSE f[s \ {first(s)}] + first(s).score
        BY <2>1, <3>3 DEF upTo
      <4>2. h[s] = f[s]
        BY <3>3
      <4> HIDE DEF h
      <4> QED BY <3>2, <4>1, <4>2
    <3>4. CASE ~(Cardinality(s) <= k)
      <4>1. h[s] = IF s = {} THEN 0 ELSE f[s \ {first(s)}] + first(s).score
        BY <3>4
      <4> HIDE DEF h
      <4> QED BY <3>2, <4>1
    <3> QED BY <3>3, <3>4
  <2>5. upTo(h, k + 1)
    <3> HIDE DEF h
    <3> QED BY <2>4 DEF upTo
  <2> HIDE DEF h, F
  <2> QED BY <2>3, <2>5
<1> HIDE DEF T
<1>4. T = Nat
  BY <1>2, <1>3, Filtering!SetInduction DEF T
<1>5. Cardinality(S) \in Nat
  BY <1>1
<1>6. PICK f \in F : upTo(f, Cardinality(S))
  BY <1>4, <1>5 DEF T
<1>7. \A s \in SUBSET S : Cardinality(s) <= Cardinality(S)
  BY <1>0, FS_Subset
<1>8. \A s \in SUBSET S : f[s] = IF s = {} THEN 0 ELSE f[s \ {first(s)}] + first(s).score
  BY <1>6, <1>7
<1>9. f = [s \in SUBSET S |-> f[s]]
  OBVIOUS
<1>10. f = [s \in SUBSET S |-> IF s = {} THEN 0 ELSE f[s \ {first(s)}] + first(s).score]
  <2> HIDE DEF F, upTo, first
  <2> QED BY <1>8, <1>9
<1> HIDE DEF F, upTo
<1> QED BY <1>10 DEF Sums

(* A sum is a number.                                                      *)
LEMMA SumsInInt ==
  ASSUME NEW S, IsEvidence(S), NEW f, Sums(f, S)
  PROVE  f[S] \in Int
<1> DEFINE T == {k \in Nat : \A s \in SUBSET S : Cardinality(s) <= k => f[s] \in Int}
<1>0. IsFiniteSet(S) /\ \A e \in S : e.score \in Int
  BY DEF IsEvidence
<1>1. \A s \in SUBSET S : Cardinality(s) \in Nat /\ (Cardinality(s) = 0 <=> s = {})
  <2> TAKE s \in SUBSET S
  <2>1. IsFiniteSet(s)
    BY <1>0, FS_Subset
  <2> QED BY <2>1, FS_CardinalityType, FS_EmptySet
<1>2. \A s \in SUBSET S :
        f[s] = IF s = {} THEN 0 ELSE f[s \ {CHOOSE x \in s : TRUE}] + (CHOOSE x \in s : TRUE).score
  BY DEF Sums
<1>7. f[{}] = 0
  <2>1. {} \in SUBSET S
    OBVIOUS
  <2> QED BY <1>2, <2>1, Zenon
<1>3. 0 \in T
  <2>1. \A s \in SUBSET S : Cardinality(s) <= 0 => s = {}
    BY <1>1
  <2> QED BY <1>7, <2>1
<1>4. ASSUME NEW k \in T PROVE k + 1 \in T
  <2> SUFFICES ASSUME NEW s \in SUBSET S, Cardinality(s) <= k + 1 PROVE f[s] \in Int
    OBVIOUS
  <2>1. CASE s = {}
    BY <1>7, <2>1
  <2>2. CASE s # {}
    <3>1. PICK e : e = CHOOSE x \in s : TRUE
      OBVIOUS
    <3>2. /\ e \in s /\ s \ {e} \in SUBSET S /\ Cardinality(s) \in Nat
          /\ Cardinality(s \ {e}) = Cardinality(s) - 1
      BY <2>2, <1>0, <3>1, OneLess
    <3>3. f[s \ {e}] \in Int
      <4>1. Cardinality(s \ {e}) <= k /\ k \in Nat
        BY <3>2
      <4> QED BY <3>2, <4>1
    <3>4. f[s] = f[s \ {e}] + e.score
      BY <1>2, <2>2, <3>1
    <3> QED BY <1>0, <3>2, <3>3, <3>4
  <2> QED BY <2>1, <2>2
<1> HIDE DEF T
<1>5. T = Nat
  BY <1>3, <1>4, Filtering!SetInduction DEF T
<1>6. Cardinality(S) \in Nat /\ Cardinality(S) <= Cardinality(S)
  BY <1>1
<1> QED BY <1>5, <1>6 DEF T

(* So the total of the evidence is one.                                    *)
LEMMA TotalIsInt ==
  ASSUME NEW S, IsEvidence(S)
  PROVE  Total(S) \in Int
<1>1. Total(S) = (CHOOSE f : Sums(f, S))[S]
  BY DEF Total, FoldSet, MapThenFoldSet, Sums
<1>2. Sums(CHOOSE f : Sums(f, S), S)
  BY SumsExist
<1> QED BY <1>1, <1>2, SumsInInt

(* The first rule that holds exists when the last one always does.         *)
LEMMA FirstRuleHolds ==
  ASSUME NEW rules, NEW n \in Nat, n > 0, DOMAIN rules = 1 .. n, rules[n].when
  PROVE  \E i \in 1 .. n : /\ rules[i].when /\ \A j \in 1 .. i - 1 : ~rules[j].when
                           /\ FirstRule(rules) = rules[i].gives
<1> DEFINE S == {i \in 1 .. n : rules[i].when}
           least == Min(S)
<1>1. S \in SUBSET Nat /\ S # {}
  OBVIOUS
<1>2. least \in S /\ \A j \in S : least <= j
  <2> HIDE DEF S
  <2> QED BY <1>1, LeastOf
<1>3. least \in 1 .. n /\ rules[least].when /\ \A j \in 1 .. least - 1 : ~rules[j].when
  <2>1. least \in 1 .. n /\ rules[least].when
    BY <1>2
  <2>2. ASSUME NEW j \in 1 .. least - 1, rules[j].when PROVE FALSE
    <3>1. j \in S
      BY <2>1, <2>2
    <3> HIDE DEF S, least
    <3> QED BY <1>2, <2>1, <3>1
  <2> QED BY <2>1, <2>2
<1>4. FirstRule(rules) =
        rules[CHOOSE i \in DOMAIN rules : rules[i].when /\ \A j \in 1 .. i-1 : ~rules[j].when].gives
  BY DEF FirstRule
<1>5. \E i \in DOMAIN rules : rules[i].when /\ \A j \in 1 .. i - 1 : ~rules[j].when
  <2> HIDE DEF least
  <2> QED BY <1>3
<1>6. PICK i \in DOMAIN rules : /\ rules[i].when /\ \A j \in 1 .. i - 1 : ~rules[j].when
                                /\ FirstRule(rules) = rules[i].gives
  BY <1>4, <1>5, Zenon
<1> QED BY <1>6

(* The rules of the order of actions, one by one.                         *)
LEMMA ActionRulesGive ==
  ASSUME NEW q, q.lastAction \in ActionNames
  PROVE  /\ DOMAIN ActionRules(q) = 1 .. 16 /\ ActionRules(q)[16].when
         /\ \A i \in 1 .. 16 : ActionRules(q)[i].when => ActionRules(q)[i].gives \in DOMAIN Priorities
<1>1. DOMAIN ActionRules(q) = 1 .. 16
  BY SMTT(60) DEF ActionRules
<1>2. ActionRules(q)[16].when
  BY Zenon DEF ActionRules, Rule
<1>3. /\ ActionRules(q)[1].gives = "read" /\ ActionRules(q)[2].gives = "notify"
      /\ ActionRules(q)[3].gives = "search" /\ ActionRules(q)[5].gives = "notify"
      /\ ActionRules(q)[6].gives = "delete" /\ ActionRules(q)[7].gives = "action"
  BY SMTT(60) DEF ActionRules, Rule
<1>4. /\ ActionRules(q)[8].gives = "read" /\ ActionRules(q)[9].gives = "update"
      /\ ActionRules(q)[10].gives = "create" /\ ActionRules(q)[11].gives = "search"
      /\ ActionRules(q)[12].gives = "read" /\ ActionRules(q)[13].gives = "none"
  BY SMTT(60) DEF ActionRules, Rule
<1>5. /\ ActionRules(q)[14].gives = "delete" /\ ActionRules(q)[15].gives = "action"
      /\ ActionRules(q)[16].gives = "read"
  BY SMTT(60) DEF ActionRules, Rule
<1>6. ActionRules(q)[4].when => ActionRules(q)[4].gives \in DOMAIN NoRanking
  <2>1. PICK rule : rule = ActionRules(q)[4]
    OBVIOUS
  <2>2. rule = Rule(q.directive /\ q.lastAction # "", q.lastAction)
    BY <2>1, Zenon DEF ActionRules
  <2>3. rule.when => q.lastAction # ""
    BY <2>2, Zenon DEF Rule
  <2>4. rule.gives = q.lastAction
    BY <2>2, Zenon DEF Rule
  <2> QED BY <2>1, <2>3, <2>4, Zenon DEF ActionNames
<1>7. DOMAIN NoRanking \subseteq DOMAIN Priorities
  BY DEF Priorities, NoRanking
<1>9. DOMAIN Priorities = {"search", "read", "create", "update", "action", "delete", "notify", "none"}
  BY DEF Priorities
<1>10. ASSUME NEW i \in 1 .. 16, ActionRules(q)[i].when
       PROVE  ActionRules(q)[i].gives \in DOMAIN Priorities
  <2>1. CASE i = 4
    BY <1>6, <1>7, <1>10, <2>1
  <2>2. CASE i # 4
    <3>1. \/ i = 1 \/ i = 2 \/ i = 3 \/ i = 5 \/ i = 6 \/ i = 7 \/ i = 8 \/ i = 9
          \/ i = 10 \/ i = 11 \/ i = 12 \/ i = 13 \/ i = 14 \/ i = 15 \/ i = 16
      BY <2>2
    <3> QED BY <1>3, <1>4, <1>5, <1>9, <3>1
  <2> QED BY <2>1, <2>2
<1> QED BY <1>1, <1>2, <1>10

(* What a query asks for is one of the orders of priority.                 *)
LEMMA ActionOrderIsNamed ==
  ASSUME NEW q, q.lastAction \in ActionNames
  PROVE  ActionOrder(q) \in DOMAIN Priorities
<1>1. PICK R : R = ActionRules(q)
  OBVIOUS
<1>2. /\ DOMAIN R = 1 .. 16 /\ R[16].when
      /\ \A i \in 1 .. 16 : R[i].when => R[i].gives \in DOMAIN Priorities
  BY <1>1, ActionRulesGive
<1>3. 16 \in Nat /\ 16 > 0
  OBVIOUS
<1>4. PICK i \in 1 .. 16 : R[i].when /\ FirstRule(R) = R[i].gives
  BY <1>2, <1>3, FirstRuleHolds, Zenon
<1> QED BY <1>1, <1>2, <1>4 DEF ActionOrder

(* The weight of an action is a number.                                    *)
LEMMA ActionWeightIsInt ==
  ASSUME NEW q, q.lastAction \in ActionNames, NEW a \in ActionNames
  PROVE  ActionWeight(q, a) \in Int
<1>1. PICK o \in DOMAIN Priorities : o = ActionOrder(q)
  BY ActionOrderIsNamed
<1>2. Priorities[o].max \in Nat /\ \A k \in DOMAIN NoRanking : Priorities[o].of[k] \in Nat
  BY DEF Priorities, Order, NoRanking
<1>3. CASE Priorities[o].max = 0 \/ a = ""
  <2>1. ActionWeight(q, a) = 0
    BY <1>1, <1>3, Zenon DEF ActionWeight
  <2> QED BY <2>1
<1>4. CASE ~(Priorities[o].max = 0 \/ a = "")
  <2>1. ActionWeight(q, a) = (One * Priorities[o].of[a]) \div Priorities[o].max
    BY <1>1, <1>4, Zenon DEF ActionWeight
  <2>2. a \in DOMAIN NoRanking /\ Priorities[o].max # 0
    BY <1>4, Zenon DEF ActionNames
  <2>3. PICK m, n \in Nat : m = Priorities[o].max /\ n = Priorities[o].of[a] /\ m # 0
    BY <1>2, <2>2
  <2>4. One \in Nat
    BY DEF One, Milli
  <2>5. (One * n) \div m \in Int
    BY <2>3, <2>4
  <2> QED BY <2>1, <2>3, <2>5
<1> QED BY <1>3, <1>4

(* The rules of the order of shapes, one by one.                           *)
LEMMA ShapeOrdersGive ==
  ASSUME NEW q
  PROVE  /\ DOMAIN ShapeOrders(q) = 1 .. 8 /\ ShapeOrders(q)[8].when
         /\ \A i \in 1 .. 8 : \A k \in DOMAIN NoShape : ShapeOrders(q)[i].gives[k] \in Nat
<1>1. DOMAIN ShapeOrders(q) = 1 .. 8
  BY SMTT(60) DEF ShapeOrders
<1>2. ShapeOrders(q)[8].when
  BY Zenon DEF ShapeOrders, Rule
<1> DEFINE Counts(o) == \A k \in DOMAIN NoShape : o[k] \in Nat
<1>3. Counts(ShapeOrders(q)[1].gives) /\ Counts(ShapeOrders(q)[2].gives)
      /\ Counts(ShapeOrders(q)[3].gives) /\ Counts(ShapeOrders(q)[4].gives)
  BY SMTT(60) DEF ShapeOrders, Rule, NoShape, SingleFirst
<1>4. Counts(ShapeOrders(q)[5].gives) /\ Counts(ShapeOrders(q)[6].gives)
      /\ Counts(ShapeOrders(q)[7].gives) /\ Counts(ShapeOrders(q)[8].gives)
  BY SMTT(60) DEF ShapeOrders, Rule, NoShape, SingleFirst
<1>5. \A i \in 1 .. 8 : Counts(ShapeOrders(q)[i].gives)
  <2> HIDE DEF Counts
  <2> QED BY <1>3, <1>4
<1> QED BY <1>1, <1>2, <1>5

(* The weights of the shapes are numbers.                                  *)
LEMMA ShapeOrderCounts ==
  ASSUME NEW q
  PROVE  \A k \in DOMAIN NoShape : ShapeOrder(q)[k] \in Nat
<1>1. PICK R : R = ShapeOrders(q)
  OBVIOUS
<1>2. /\ DOMAIN R = 1 .. 8 /\ R[8].when
      /\ \A i \in 1 .. 8 : \A k \in DOMAIN NoShape : R[i].gives[k] \in Nat
  BY <1>1, ShapeOrdersGive
<1>3. 8 \in Nat /\ 8 > 0
  OBVIOUS
<1>4. PICK i \in 1 .. 8 : FirstRule(R) = R[i].gives
  BY <1>2, <1>3, FirstRuleHolds
<1> QED BY <1>1, <1>2, <1>4 DEF ShapeOrder

(* So is the greatest of them.                                             *)
LEMMA ShapeMaxCounts ==
  ASSUME NEW q
  PROVE  ShapeMax(q) \in Nat
<1> DEFINE S == {ShapeOrder(q)[k] : k \in DOMAIN NoShape}
<1>1. S \in SUBSET Int /\ \A m \in S : m \in Nat
  BY ShapeOrderCounts
<1>2. DOMAIN NoShape = {"single", "list", "count", "mutation"}
  BY DEF NoShape
<1>3. IsFiniteSet(DOMAIN NoShape)
  <2>1. PICK a, b, c, d : DOMAIN NoShape = {a} \cup {b} \cup {c} \cup {d}
    <3>1. DOMAIN NoShape = {"single"} \cup {"list"} \cup {"count"} \cup {"mutation"}
      BY <1>2
    <3> QED BY <3>1
  <2>2. IsFiniteSet({a}) /\ IsFiniteSet({b}) /\ IsFiniteSet({c}) /\ IsFiniteSet({d})
    BY FS_Singleton
  <2>3. IsFiniteSet({a} \cup {b})
    BY <2>2, FS_Union
  <2>4. IsFiniteSet({a} \cup {b} \cup {c})
    BY <2>2, <2>3, FS_Union
  <2>5. IsFiniteSet({a} \cup {b} \cup {c} \cup {d})
    BY <2>2, <2>4, FS_Union
  <2> QED BY <2>1, <2>5, Zenon
<1>4. IsFiniteSet(S) /\ S # {}
  BY <1>2, <1>3, FiniteImage
<1> HIDE DEF S
<1>5. Max(S) \in S
  BY <1>1, <1>4, GreatestOf
<1> QED BY <1>1, <1>5 DEF ShapeMax, S

(* The weight of a shape is a number.                                      *)
LEMMA ShapeWeightIsInt ==
  ASSUME NEW q, NEW s \in ShapeNames
  PROVE  ShapeWeight(q, s) \in Int
<1>1. ShapeMax(q) \in Nat /\ \A k \in DOMAIN NoShape : ShapeOrder(q)[k] \in Nat
  BY ShapeMaxCounts, ShapeOrderCounts
<1>2. CASE ShapeMax(q) = 0 \/ s = ""
  <2>1. ShapeWeight(q, s) = 0
    BY <1>2, Zenon DEF ShapeWeight
  <2> QED BY <2>1
<1>3. CASE ~(ShapeMax(q) = 0 \/ s = "")
  <2>1. ShapeWeight(q, s) = (One * ShapeOrder(q)[s]) \div ShapeMax(q)
    BY <1>3, Zenon DEF ShapeWeight
  <2>2. s \in DOMAIN NoShape /\ ShapeMax(q) # 0
    BY <1>3, Zenon DEF ShapeNames
  <2>3. PICK m, n \in Nat : m = ShapeMax(q) /\ n = ShapeOrder(q)[s] /\ m # 0
    BY <1>1, <2>2
  <2>4. One \in Nat
    BY DEF One, Milli
  <2>5. (One * n) \div m \in Int
    BY <2>3, <2>4
  <2> QED BY <2>1, <2>3, <2>5
<1> QED BY <1>2, <1>3

(* The rules of the shape of a description, one by one.                    *)
LEMMA ShapeRulesGive ==
  ASSUME NEW d, d.shape \in ShapeNames
  PROVE  /\ DOMAIN ShapeRules(d) = 1 .. 7 /\ ShapeRules(d)[7].when
         /\ \A i \in 1 .. 7 : ShapeRules(d)[i].when => ShapeRules(d)[i].gives \in ShapeNames
<1>1. DOMAIN ShapeRules(d) = 1 .. 7
  BY SMTT(60) DEF ShapeRules
<1>2. ShapeRules(d)[7].when
  BY Zenon DEF ShapeRules, Rule
<1>3. /\ ShapeRules(d)[2].gives = "count" /\ ShapeRules(d)[3].gives = "list"
      /\ ShapeRules(d)[4].gives = "mutation" /\ ShapeRules(d)[5].gives = "single"
      /\ ShapeRules(d)[6].gives = "list"
  BY Zenon DEF ShapeRules, Rule
<1>4. DOMAIN NoShape = {"single", "list", "count", "mutation"}
  BY DEF NoShape
<1>5. DOMAIN NoShape \subseteq ShapeNames
  BY Zenon DEF ShapeNames
<1>6. ShapeRules(d)[1].gives \in ShapeNames
  <2>1. ShapeRules(d)[1].gives = d.shape
    BY Zenon DEF ShapeRules, Rule
  <2> QED BY <2>1
<1>7. ShapeRules(d)[7].gives \in ShapeNames
  <2>1. ShapeRules(d)[7].gives = ""
    BY Zenon DEF ShapeRules, Rule
  <2> QED BY <2>1, Zenon DEF ShapeNames
<1>8. ASSUME NEW i \in 1 .. 7 PROVE ShapeRules(d)[i].gives \in ShapeNames
  <2>1. PICK R : R = ShapeRules(d)
    OBVIOUS
  <2>2. i = 1 \/ i = 2 \/ i = 3 \/ i = 4 \/ i = 5 \/ i = 6 \/ i = 7
    OBVIOUS
  <2>3. R[2].gives \in ShapeNames /\ R[3].gives \in ShapeNames /\ R[4].gives \in ShapeNames
        /\ R[5].gives \in ShapeNames /\ R[6].gives \in ShapeNames
    BY <1>3, <1>4, <1>5, <2>1
  <2> QED BY <1>6, <1>7, <2>1, <2>2, <2>3
<1> QED BY <1>1, <1>2, <1>8

(* The shape of a description is one of the source, or none.               *)
LEMMA ShapeOfIsNamed ==
  ASSUME NEW d, d.shape \in ShapeNames
  PROVE  ShapeOf(d) \in ShapeNames
<1>1. PICK R : R = ShapeRules(d)
  OBVIOUS
<1>2. /\ DOMAIN R = 1 .. 7 /\ R[7].when
      /\ \A i \in 1 .. 7 : R[i].when => R[i].gives \in ShapeNames
  BY <1>1, ShapeRulesGive
<1>3. 7 \in Nat /\ 7 > 0
  OBVIOUS
<1>4. PICK i \in 1 .. 7 : R[i].when /\ FirstRule(R) = R[i].gives
  BY <1>2, <1>3, FirstRuleHolds, Zenon
<1> QED BY <1>1, <1>2, <1>4 DEF ShapeOf

(* The score of a scope is a number.                                       *)
LEMMA ScopeScoreIsInt ==
  ASSUME NEW asked, NEW has
  PROVE  ScopeScore(asked, has) \in Int
<1>1. PICK R : R = ScopeRules(asked, has)
  OBVIOUS
<1>2. DOMAIN R = 1 .. 5
  BY <1>1, SMTT(60) DEF ScopeRules
<1>3. R[5].when
  BY <1>1, Zenon DEF ScopeRules, Rule
<1>4. \A i \in 1 .. 5 : R[i].gives \in Int
  BY <1>1, SMTT(60) DEF ScopeRules, Rule, Milli
<1>5. 5 \in Nat /\ 5 > 0
  OBVIOUS
<1>6. PICK i \in 1 .. 5 : FirstRule(R) = R[i].gives
  BY <1>2, <1>3, <1>5, FirstRuleHolds
<1> QED BY <1>1, <1>4, <1>6 DEF ScopeScore

-----------------------------------------------------------------------------
(* A piece of evidence that may be there.                                  *)
LEMMA WhenIsEvidence ==
  ASSUME NEW holds, NEW source, NEW score, NEW about, holds => score \in Int
  PROVE  IsEvidence(When(holds, source, score, about))
<1>1. PICK e : e = Evidence(source, score, about)
  OBVIOUS
<1>2. e.score = score
  BY <1>1 DEF Evidence
<1>3. IsFiniteSet({e}) /\ IsFiniteSet({})
  BY FS_Singleton, FS_EmptySet
<1>4. When(holds, source, score, about) = IF holds THEN {e} ELSE {}
  BY <1>1, Zenon DEF When
<1> QED BY <1>2, <1>3, <1>4 DEF IsEvidence

(* Evidence of two kinds.                                                  *)
LEMMA BothAreEvidence ==
  ASSUME NEW A, NEW B, IsEvidence(A), IsEvidence(B)
  PROVE  IsEvidence(A \cup B)
<1>1. IsFiniteSet(A \cup B)
  BY FS_Union DEF IsEvidence
<1> QED BY <1>1 DEF IsEvidence

(* The numbers of the scores.                                              *)
LEMMA CappedNumbers ==
  /\ \A cap, x \in Int : AtMost(cap, x) \in Int
  /\ \A low, high, x \in Int : Clamp(low, high, x) \in Int
  /\ \A n \in Int : Milli(n) \in Int
  /\ One \in Int /\ Half \in Int
BY DEF AtMost, Clamp, Milli, One, Half

(* A score that grows with the terms it is about.                          *)
LEMMA CountedScore ==
  ASSUME NEW terms, IsFiniteSet(terms), NEW cap \in Int, NEW each \in Int, NEW base \in Int
  PROVE  /\ AtMost(cap, each * Cardinality(terms)) \in Int
         /\ AtMost(cap, base + each * Cardinality(terms)) \in Int
<1>1. PICK n \in Nat : n = Cardinality(terms)
  BY FS_CardinalityType
<1>2. each * n \in Int
  OBVIOUS
<1>3. base + each * n \in Int
  BY <1>2
<1> QED BY <1>1, <1>2, <1>3, CappedNumbers

(* What is assumed of a query and of a description.                        *)
IsQuery(q) == IsFiniteSet(q.terms) /\ q.lastAction \in ActionNames
IsDescription(d) == d.action \in ActionNames /\ d.shape \in ShapeNames /\ IsFiniteSet(d.brief)

(* The evidence of a candidate by itself, kind by kind.                    *)
LEMMA ActionIsEvidence ==
  ASSUME NEW q, IsQuery(q), NEW d, IsDescription(d)
  PROVE  IsEvidence(ActionEvidence(q, d))
<1>1. PICK w \in Int : w = ActionWeight(q, d.action)
  BY ActionWeightIsInt DEF IsQuery, IsDescription
<1>2. w \div 5 \in Int /\ -Milli(180) \in Int
  BY DEF Milli
<1>3. IsEvidence(When(w >= Half, "canonical_action", w \div 5, {d.action}))
  BY <1>2, WhenIsEvidence
<1>4. IsEvidence(When(~ActionFits(q, d.action), "action_mismatch", -Milli(180), {d.action}))
  BY <1>2, WhenIsEvidence
<1> QED BY <1>1, <1>3, <1>4, BothAreEvidence DEF ActionEvidence

(* What a description's shape gives.                                       *)
LEMMA ShapeIsEvidence ==
  ASSUME NEW q, IsQuery(q), NEW d, IsDescription(d)
  PROVE  IsEvidence(ShapeEvidence(q, d))
<1>1. PICK s \in ShapeNames : s = ShapeOf(d)
  BY ShapeOfIsNamed DEF IsDescription
<1>2. PICK w \in Int : w = ShapeWeight(q, s)
  BY ShapeWeightIsInt
<1>3. (18 * w) \div 100 \in Int /\ -Milli(140) \in Int
  BY DEF Milli
<1>4. PICK A : A = When(w >= Half, IF d.shape # "" THEN "result_shape" ELSE "inferred_result_shape",
                        (18 * w) \div 100, {s})
  OBVIOUS
<1>5. PICK B : B = When(w < Half /\ ShapeMax(q) > 0 /\ s # "", "result_shape_mismatch", -Milli(140), {s})
  OBVIOUS
<1>6. IsEvidence(A) /\ IsEvidence(B)
  BY <1>3, <1>4, <1>5, WhenIsEvidence, Zenon
<1>7. ShapeEvidence(q, d) = A \cup B
  BY <1>1, <1>2, <1>4, <1>5, Zenon DEF ShapeEvidence
<1> QED BY <1>6, <1>7, BothAreEvidence

(* What a detail surface gives.                                            *)
LEMMA DetailIsEvidence ==
  ASSUME NEW q, NEW d
  PROVE  IsEvidence(DetailEvidence(q, d))
<1>1. Milli(140) \in Int /\ -Milli(60) \in Int
  BY DEF Milli
<1> DEFINE detail == d.surface \cap DetailTerms # {}
<1>2. IsEvidence(When(StrictDetail(q) /\ detail, "detail_surface", Milli(140), {"detail"}))
  BY <1>1, WhenIsEvidence
<1>3. IsEvidence(When(StrictDetail(q) /\ ~detail /\ d.surface \cap GeneralTerms # {},
            "general_surface_penalty", -Milli(60), {"general"}))
  BY <1>1, WhenIsEvidence
<1> QED BY <1>2, <1>3, BothAreEvidence DEF DetailEvidence

(* What an identifier in the contract gives.                               *)
LEMMA IdentifierIsEvidence ==
  ASSUME NEW q, IsQuery(q), NEW d
  PROVE  IsEvidence(IdentifierEvidence(q, d))
<1> DEFINE ids == (q.terms \cap ContractTerms(d)) \cup (ContractTerms(d) \cap IdTerms)
           asked == StrictDetail(q) /\ HasIdentifier(q.terms)
<1>1. IsFiniteSet(ids)
  <2>1. IsFiniteSet(q.terms \cap ContractTerms(d))
    BY FS_Subset DEF IsQuery
  <2>2. IdTerms = {"id"} \cup {"number"}
    BY DEF IdTerms
  <2>3. IsFiniteSet(IdTerms)
    BY <2>2, FS_Singleton, FS_Union
  <2>4. IsFiniteSet(ContractTerms(d) \cap IdTerms)
    BY <2>3, FS_Subset
  <2> QED BY <2>1, <2>4, FS_Union
<1> HIDE DEF ids
<1>2. Milli(160) \in Int /\ Milli(80) \in Int /\ Milli(20) \in Int
  BY DEF Milli
<1>3. AtMost(Milli(160), Milli(80) + Milli(20) * Cardinality(ids)) \in Int
  BY <1>1, <1>2, CountedScore
<1>4. IsEvidence(When(asked /\ ids # {}, "identifier_detail_contract",
          AtMost(Milli(160), Milli(80) + Milli(20) * Cardinality(ids)), ids))
  BY <1>3, WhenIsEvidence
<1>5. IsEvidence(When(asked /\ ids = {} /\ HasIdentifier(d.surface) /\ d.surface \cap DetailTerms # {},
               "identifier_detail_surface", Milli(80), {"identifier"}))
  BY <1>2, WhenIsEvidence
<1> QED BY <1>4, <1>5, BothAreEvidence DEF IdentifierEvidence, ids

(* What the terms of a query give.                                         *)
LEMMA TermsAreEvidence ==
  ASSUME NEW q, IsQuery(q), NEW d
  PROVE  IsEvidence(TermEvidence(q, d))
<1> DEFINE overlap == q.terms \cap d.surface
           contract == q.terms \cap ContractTerms(d)
<1>1. IsFiniteSet(overlap) /\ IsFiniteSet(contract)
  BY FS_Subset DEF IsQuery
<1> HIDE DEF overlap, contract
<1>2. Milli(180) \in Int /\ Milli(40) \in Int /\ Milli(120) \in Int /\ Milli(35) \in Int /\ 0 \in Int
  BY DEF Milli
<1>3. /\ AtMost(Milli(180), Milli(40) * Cardinality(overlap)) \in Int
      /\ AtMost(Milli(120), Milli(35) * Cardinality(contract)) \in Int
  BY <1>1, <1>2, CountedScore
<1>4. IsEvidence(When(overlap # {}, "surface_terms",
                      AtMost(Milli(180), Milli(40) * Cardinality(overlap)), overlap))
  BY <1>3, WhenIsEvidence
<1>5. IsEvidence(When(contract # {}, "api_contract",
                      AtMost(Milli(120), Milli(35) * Cardinality(contract)), contract))
  BY <1>3, WhenIsEvidence
<1> QED BY <1>4, <1>5, BothAreEvidence DEF TermEvidence, overlap, contract

(* All that a candidate has by itself.                                     *)
LEMMA OwnIsEvidence ==
  ASSUME NEW q, IsQuery(q), NEW d, IsDescription(d)
  PROVE  IsEvidence(OwnEvidence(q, d))
<1>1. OwnEvidence(q, d) =
        ((((ActionEvidence(q, d) \cup ShapeEvidence(q, d)) \cup DetailEvidence(q, d))
             \cup IdentifierEvidence(q, d)) \cup TermEvidence(q, d))
  BY DEF OwnEvidence
<1>2. IsEvidence(ActionEvidence(q, d) \cup ShapeEvidence(q, d))
  BY ActionIsEvidence, ShapeIsEvidence, BothAreEvidence
<1>3. IsEvidence((ActionEvidence(q, d) \cup ShapeEvidence(q, d)) \cup DetailEvidence(q, d))
  BY <1>2, DetailIsEvidence, BothAreEvidence
<1>4. IsEvidence(((ActionEvidence(q, d) \cup ShapeEvidence(q, d)) \cup DetailEvidence(q, d))
                   \cup IdentifierEvidence(q, d))
  BY <1>3, IdentifierIsEvidence, BothAreEvidence
<1>5. IsEvidence(((((ActionEvidence(q, d) \cup ShapeEvidence(q, d)) \cup DetailEvidence(q, d))
             \cup IdentifierEvidence(q, d)) \cup TermEvidence(q, d)))
  BY <1>4, TermsAreEvidence, BothAreEvidence
<1> QED BY <1>1, <1>5

(* And what is known of its retrieval.                                     *)
IsSignal(s) == s.rank \in Nat /\ s.score \in Nat /\ s.learnt \in Nat

(* What is known of its retrieval.                                         *)
LEMMA SignalIsEvidence ==
  ASSUME NEW s, IsSignal(s)
  PROVE  IsEvidence(SignalEvidence(s))
<1>1. PICK rank \in Nat, score \in Nat, learnt \in Nat :
        rank = s.rank /\ score = s.score /\ learnt = s.learnt
  BY DEF IsSignal
<1>2. /\ Milli(220) - Milli(15) * AtMost(10, rank - 1) \in Int
      /\ AtMost(Milli(80), score) \in Int /\ AtMost(Milli(60), learnt) \in Int
  BY DEF Milli, AtMost
<1>3. IsEvidence(When(rank > 0, "retrieval_rank", Milli(220) - Milli(15) * AtMost(10, rank - 1), {}))
  BY <1>2, WhenIsEvidence
<1>4. IsEvidence(When(score > 0, "retrieval_score", AtMost(Milli(80), score), {}))
  BY <1>2, WhenIsEvidence
<1>5. IsEvidence(When(learnt > 0, "learning", AtMost(Milli(60), learnt), {}))
  BY <1>2, WhenIsEvidence
<1> QED BY <1>1, <1>3, <1>4, <1>5, BothAreEvidence DEF SignalEvidence

(* What sets a candidate apart from its peers.                             *)
LEMMA ContrastIsEvidence ==
  ASSUME NEW q, IsQuery(q), NEW d, IsDescription(d), NEW peers
  PROVE  IsEvidence(Contrast(q, d, peers))
<1>1. PICK asked, extra : asked = q.terms \cap Qualifiers(d, peers) /\ extra = Unrequested(q, d, peers)
  OBVIOUS
<1>2. PICK level : level = asked \cap {"large", "small"}
  OBVIOUS
<1>3. PICK sent, got : sent = q.terms \cap d.consumes /\ got = q.terms \cap d.produces
  OBVIOUS
<1>4. PICK scope : scope = IF Cardinality({Scope(p) : p \in peers}) > 1
               THEN ScopeScore(QueryScope(q), Scope(d)) ELSE 0
  OBVIOUS
<1>0. scope \in Int
  <2>1. 0 \in Int /\ ScopeScore(QueryScope(q), Scope(d)) \in Int
    BY ScopeScoreIsInt
  <2> QED BY <1>4, <2>1, Zenon
<1>5. IsFiniteSet(asked) /\ IsFiniteSet(sent) /\ IsFiniteSet(got)
  BY <1>1, <1>3, FS_Subset DEF IsQuery
<1>6. IsFiniteSet(extra)
  <2>1. extra \subseteq d.brief
    BY <1>1 DEF Unrequested, Specialities, Uncommon
  <2> QED BY <2>1, FS_Subset DEF IsDescription
<1>7. /\ Milli(240) \in Int /\ Milli(60) \in Int /\ Milli(20) \in Int /\ Milli(140) \in Int
      /\ Milli(70) \in Int /\ Milli(100) \in Int /\ Milli(50) \in Int /\ Milli(120) \in Int /\ 0 \in Int
  BY DEF Milli
<1>8. /\ AtMost(Milli(240), Milli(60) * Cardinality(asked)) \in Int
      /\ AtMost(Milli(140), Milli(70) * Cardinality(extra)) \in Int
      /\ AtMost(Milli(100), Milli(50) * Cardinality(sent)) \in Int
      /\ AtMost(Milli(120), Milli(60) * Cardinality(got)) \in Int
  BY <1>5, <1>6, <1>7, CountedScore
<1>9. -AtMost(Milli(140), Milli(70) * Cardinality(extra)) \in Int
  BY <1>8
<1>10. PICK A : A = When(asked # {}, "contrastive_qualifier_match",
                         AtMost(Milli(240), Milli(60) * Cardinality(asked)), asked)
  OBVIOUS
<1>11. PICK B : B = When(level # {}, "hierarchy_level_match", Milli(20), level)
  OBVIOUS
<1>12. PICK C : C = When(extra # {}, "contrastive_unrequested_qualifier",
                         -AtMost(Milli(140), Milli(70) * Cardinality(extra)), extra)
  OBVIOUS
<1>13. PICK D : D = When(sent # {}, "request_contract_fit",
                         AtMost(Milli(100), Milli(50) * Cardinality(sent)), sent)
  OBVIOUS
<1>14. PICK E : E = When(got # {}, "response_contract_fit",
                         AtMost(Milli(120), Milli(60) * Cardinality(got)), got)
  OBVIOUS
<1>15. PICK F : F = When(scope > 0, "scope_fit", scope, {Scope(d)})
  OBVIOUS
<1>16. PICK G : G = When(scope < 0, "scope_mismatch", scope, {Scope(d)})
  OBVIOUS
<1>17. Contrast(q, d, peers) = UNION {A, B, C, D, E, F, G}
  BY <1>1, <1>2, <1>3, <1>4, <1>10, <1>11, <1>12, <1>13, <1>14, <1>15, <1>16 DEF Contrast
<1>18. /\ IsEvidence(A) /\ IsEvidence(B) /\ IsEvidence(C) /\ IsEvidence(D) /\ IsEvidence(E)
       /\ IsEvidence(F) /\ IsEvidence(G)
  <2>1. IsEvidence(A)
    BY <1>8, <1>10, WhenIsEvidence
  <2>2. IsEvidence(B)
    BY <1>7, <1>11, WhenIsEvidence
  <2>3. IsEvidence(C)
    BY <1>9, <1>12, WhenIsEvidence
  <2>4. IsEvidence(D) /\ IsEvidence(E)
    BY <1>8, <1>13, <1>14, WhenIsEvidence
  <2>5. IsEvidence(F) /\ IsEvidence(G)
    BY <1>0, <1>15, <1>16, WhenIsEvidence
  <2> QED BY <2>1, <2>2, <2>3, <2>4, <2>5
<1>19. IsEvidence(A \cup B) /\ IsEvidence(C \cup D) /\ IsEvidence(E \cup F)
  BY <1>18, BothAreEvidence
<1>20. IsEvidence((A \cup B) \cup (C \cup D)) /\ IsEvidence((E \cup F) \cup G)
  BY <1>18, <1>19, BothAreEvidence
<1>21. IsEvidence(((A \cup B) \cup (C \cup D)) \cup ((E \cup F) \cup G))
  BY <1>20, BothAreEvidence
<1>22. UNION {A, B, C, D, E, F, G} = ((A \cup B) \cup (C \cup D)) \cup ((E \cup F) \cup G)
  OBVIOUS
<1> QED BY <1>17, <1>21, <1>22

(* What is assumed of a case.                                              *)
LEMMA CaseHas ==
  ASSUME NEW p, IsCase(p)
  PROVE  /\ p.names \in Seq(ToSet(p.names)) /\ p.least \in Nat /\ p.most \in Nat /\ IsQuery(p.query)
         /\ \A t \in DOMAIN p.tool :
              /\ IsDescription(p.tool[t]) /\ IsSignal(p.signal[t])
              /\ IsSignal([p.signal[t] EXCEPT !.learnt = 0])
<1>1. p.names \in Seq(ToSet(p.names)) /\ p.least \in Nat /\ p.most \in Nat /\ IsQuery(p.query)
  BY DEF IsCase, IsQuery
<1>2. ASSUME NEW t \in DOMAIN p.tool PROVE IsDescription(p.tool[t])
  BY DEF IsCase, IsDescription
<1>3. ASSUME NEW t \in DOMAIN p.tool
      PROVE  IsSignal(p.signal[t]) /\ IsSignal([p.signal[t] EXCEPT !.learnt = 0])
  <2>1. PICK s : s = p.signal[t]
    OBVIOUS
  <2>2. /\ s.rank \in Nat /\ s.score \in Nat /\ s.learnt \in Nat
        /\ DOMAIN s = {"rank", "score", "learnt"}
    BY <2>1 DEF IsCase
  <2>3. PICK u : u = [s EXCEPT !.learnt = 0]
    OBVIOUS
  <2>4. u.rank = s.rank /\ u.score = s.score /\ u.learnt = 0
    BY <2>2, <2>3
  <2>5. u.rank \in Nat /\ u.score \in Nat /\ u.learnt \in Nat
    BY <2>2, <2>4
  <2> QED BY <2>1, <2>2, <2>3, <2>5 DEF IsSignal
<1> QED BY <1>1, <1>2, <1>3

(* The score of the evidence a candidate has by itself is a number.        *)
LEMMA BaseScoreIsInt ==
  ASSUME NEW own, NEW learned, IsEvidence(own), IsEvidence(learned)
  PROVE  BaseScore(own, learned) \in Int
<1>1. Total(own) + Total(learned) \in Int
  <2>1. Total(own) \in Int /\ Total(learned) \in Int
    BY TotalIsInt
  <2> QED BY <2>1
<1>2. 0 \in Int
  OBVIOUS
<1> QED BY <1>1, <1>2, CappedNumbers DEF BaseScore

(* So are the scores of an admission.                                      *)
LEMMA AdmissionScoreIsInt ==
  ASSUME NEW p, IsCase(p)
  PROVE  DOMAIN AdmissionScore(p) = Known(p) /\ \A t \in Known(p) : AdmissionScore(p)[t] \in Int
<1>1. ASSUME NEW t \in Known(p)
      PROVE  AdmissionScore(p)[t] \in Int
  <2>1. t \in DOMAIN p.tool
    BY DEF Known
  <2>2. IsEvidence(OwnEvidence(p.query, p.tool[t]))
    BY <2>1, CaseHas, OwnIsEvidence
  <2>3. IsEvidence(SignalEvidence([p.signal[t] EXCEPT !.learnt = 0]))
    BY <2>1, CaseHas, SignalIsEvidence
  <2>4. BaseScore(OwnEvidence(p.query, p.tool[t]),
                  SignalEvidence([p.signal[t] EXCEPT !.learnt = 0])) \in Int
    BY <2>2, <2>3, BaseScoreIsInt
  <2> QED BY <2>4 DEF AdmissionScore
<1>2. DOMAIN AdmissionScore(p) = Known(p)
  BY DEF AdmissionScore
<1> QED BY <1>1, <1>2

(* And those of a selection.                                               *)
LEMMA RowsHaveScores ==
  ASSUME NEW p, IsCase(p), NEW names, ToSet(names) \subseteq DOMAIN p.tool
  PROVE  DOMAIN Rows(p, names) = ToSet(names) /\ \A t \in ToSet(names) : Rows(p, names)[t].score \in Int
<1>1. ASSUME NEW t \in ToSet(names)
      PROVE  Rows(p, names)[t].score \in Int
  <2>1. PICK own, learned, contrast :
          /\ own = OwnEvidence(p.query, p.tool[t]) /\ learned = SignalEvidence(p.signal[t])
          /\ contrast = Contrast(p.query, p.tool[t], Peers(p, names, t))
    OBVIOUS
  <2>2. IsEvidence(own) /\ IsEvidence(learned) /\ IsEvidence(contrast)
    BY <2>1, CaseHas, OwnIsEvidence, SignalIsEvidence, ContrastIsEvidence
  <2>3. Rows(p, names)[t].score = Clamp(0, One, BaseScore(own, learned) + Adjustment(contrast))
    BY <2>1 DEF Rows, Scored
  <2>4. -Milli(200) \in Int /\ Milli(280) \in Int /\ 0 \in Int
    BY DEF Milli
  <2>5. BaseScore(own, learned) \in Int /\ Adjustment(contrast) \in Int
    BY <2>2, <2>4, BaseScoreIsInt, TotalIsInt, CappedNumbers DEF Adjustment
  <2>6. BaseScore(own, learned) + Adjustment(contrast) \in Int
    BY <2>5
  <2> QED BY <2>3, <2>4, <2>6, CappedNumbers
<1>2. DOMAIN Rows(p, names) = ToSet(names)
  BY DEF Rows
<1> QED BY <1>1, <1>2

(* The key by which candidates are ranked.                                 *)
RankKey(p, names, t, score) == <<-score, RankOf(p, t), Place(names, t)>>

(* A candidate is ranked by three numbers.                                 *)
LEMMA RankKeyFits ==
  ASSUME NEW p, IsCase(p), NEW names, IsList(names), NEW t \in ToSet(names), t \in DOMAIN p.tool,
         NEW score \in Int
  PROVE  RankKey(p, names, t, score) \in Key(3) /\ RankKey(p, names, t, score)[3] = Place(names, t)
<1>1. RankOf(p, t) \in Int
  <2>1. p.signal[t].rank \in Nat
    BY CaseHas DEF IsSignal
  <2> QED BY <2>1 DEF RankOf
<1>2. Place(names, t) \in Int /\ -score \in Int
  BY PlaceOf
<1> QED BY <1>1, <1>2 DEF RankKey, Key

(* The best of a list of known names is one of them.                       *)
LEMMA BestIsOne ==
  ASSUME NEW p, IsCase(p), NEW names, IsList(names), ToSet(names) \subseteq DOMAIN p.tool,
         ToSet(names) # {}, NEW rows, \A t \in ToSet(names) : rows[t].score \in Int
  PROVE  Best(names, rows, p) \in ToSet(names)
<1> DEFINE key == [t \in ToSet(names) |-> RankKey(p, names, t, rows[t].score)]
<1>1. \A t \in ToSet(names) : key[t] \in Key(3) /\ key[t][3] = Place(names, t)
  BY RankKeyFits
<1>2. \A t, u \in ToSet(names) : key[t] = key[u] => t = u
  <2> HIDE DEF key
  <2> QED BY <1>1, PlaceOf
<1>3. 3 \in Nat /\ IsFiniteSet(ToSet(names))
  BY ListIsFinite
<1>4. PICK s \in ToSet(names) : \A t \in ToSet(names) \ {s} : Precedes(key[s], key[t])
  <2> HIDE DEF key
  <2> QED BY <1>1, <1>2, <1>3, LeastKey
<1>5. \A t \in ToSet(names) \ {s} :
        Precedes(<<-rows[s].score, RankOf(p, s), Place(names, s)>>,
                 <<-rows[t].score, RankOf(p, t), Place(names, t)>>)
  BY <1>4 DEF RankKey
<1>6. \E x \in ToSet(names) : \A t \in ToSet(names) \ {x} :
        Precedes(<<-rows[x].score, RankOf(p, x), Place(names, x)>>,
                 <<-rows[t].score, RankOf(p, t), Place(names, t)>>)
  BY <1>5
<1>7. Best(names, rows, p) = CHOOSE x \in ToSet(names) : \A t \in ToSet(names) \ {x} :
        Precedes(<<-rows[x].score, RankOf(p, x), Place(names, x)>>,
                 <<-rows[t].score, RankOf(p, t), Place(names, t)>>)
  BY Zenon DEF Best
<1> QED BY <1>6, <1>7, Zenon

(* A rival that comes near makes the margin of the winner small.           *)
LEMMA RivalIsNear ==
  ASSUME NEW p, NEW field, IsList(field), NEW rows, \A t \in ToSet(field) : rows[t].score \in Int,
         NEW w, rows[w].score \in Int,
         NEW t \in Rivals(p, field, w), rows[t].score >= rows[w].score - AmbiguityMargin
  PROVE  Margin(p, rows, field, w) < OverrideMargin
<1> DEFINE R == Rivals(p, field, w)
           f == [u \in ToSet(field) |-> rows[u].score]
           S == {f[u] : u \in R}
<1>1. R \subseteq ToSet(field) /\ t \in R
  BY DEF Rivals
<1>2. IsFiniteSet(S)
  <2>1. IsFiniteSet(R)
    BY <1>1, ListIsFinite, FS_Subset
  <2> HIDE DEF R, f
  <2> QED BY <2>1, FiniteImage
<1>3. S = {rows[u].score : u \in R}
  BY <1>1
<1>4. S \in SUBSET Int /\ rows[t].score \in S
  BY <1>1
<1> HIDE DEF S, f
<1>5. Max(S) \in Int /\ Max(S) >= rows[t].score
  BY <1>2, <1>4, GreatestOf
<1>6. Margin(p, rows, field, w) = rows[w].score - Max(S)
  BY <1>1, <1>3 DEF Margin
<1>7. AmbiguityMargin = 40000 /\ OverrideMargin = 120000
  BY DEF AmbiguityMargin, OverrideMargin, Milli
<1>8. rows[t].score \in Int
  BY <1>1
<1> QED BY <1>5, <1>6, <1>7, <1>8

(* A candidate as good as the target, or nearly, makes a verdict ambiguous.*)
LEMMA TieShows ==
  ASSUME NEW p, IsCase(p), NEW names, IsList(names), ToSet(names) \subseteq DOMAIN p.tool,
         NEW m, NEW v, v = Among(p, names, m),
         NEW t \in ToSet(IF v.overrode THEN Field(p, names, Rows(p, names), m) ELSE names) \ {v.target},
         ~SameOperation(p.tool[v.target], p.tool[t]),
         Rows(p, names)[t].score >= Rows(p, names)[v.target].score - AmbiguityMargin
  PROVE  v.ambiguous
<1>1. PICK rows : rows = Rows(p, names)
  OBVIOUS
<1>2. PICK field : field = Field(p, names, rows, m)
  OBVIOUS
<1>3. PICK w : w = Best(field, rows, p)
  OBVIOUS
<1>4. DOMAIN rows = ToSet(names) /\ \A u \in ToSet(names) : rows[u].score \in Int
  BY <1>1, RowsHaveScores
<1>5. /\ IsList(field) /\ ToSet(field) \subseteq ToSet(names)
      /\ field = names \/ SiblingsCompared(p, names, rows, m)
  <2>1. PICK kin : kin = Kin(p, names, m)
    OBVIOUS
  <2>2. IsList(kin) /\ ToSet(kin) \subseteq ToSet(names)
    BY <2>1, FilteredList DEF Kin
  <2> QED BY <1>2, <2>1, <2>2 DEF Field
<1>6. names # <<>>
  <2> SUFFICES ASSUME names = <<>> PROVE FALSE
    OBVIOUS
  <2>1. v.overrode = FALSE
    BY DEF Among, AmongRows
  <2>2. ToSet(names) = {}
    BY DEF ToSet
  <2> QED BY <2>1, <2>2
<1>7. v = Decision(p, names, rows, field, w, m)
  BY <1>1, <1>2, <1>3, <1>6 DEF Among, AmongRows, InField
<1> DEFINE here == m \in ToSet(names)
           over == here /\ MayOverride(p, rows, field, w, m)
           unclear == ~over /\ Len(names) > 1 /\ Margin(p, rows, field, w) < OverrideMargin
           unsettled == unclear \/ (here /\ ~over /\ w # m)
           chosen == IF over \/ ~here THEN w ELSE m
           tied == Ties(rows, field, w) \cup (IF unsettled THEN {chosen} ELSE {})
<1>10. /\ v.target = chosen /\ v.overrode = over
       /\ v.ambiguous = (unsettled \/ (~over /\ Cardinality(tied) > 1))
  <2>1. v = [target |-> chosen, overrode |-> over,
             ambiguous |-> unsettled \/ (~over /\ Cardinality(tied) > 1),
             expand |-> \/ unclear
                        \/ m # NoName /\ ~here
                        \/ here /\ ~over /\ w # m /\ Unsure(p, rows, field, w, m)]
    BY <1>7 DEF Decision
  <2> HIDE DEF here, over, unclear, unsettled, chosen, tied
  <2> QED BY <2>1
<1>8. here <=> m \in ToSet(names)
  OBVIOUS
<1>9. over => MayOverride(p, rows, field, w, m)
  OBVIOUS
<1>14. unclear \/ (here /\ ~over /\ w # m) => v.ambiguous
  BY <1>10
<1>15. chosen = IF over \/ ~here THEN w ELSE m
  OBVIOUS
<1>16. ~over /\ Len(names) > 1 /\ Margin(p, rows, field, w) < OverrideMargin => unclear
  OBVIOUS
<1> HIDE DEF here, over, unclear, unsettled, chosen, tied
<1>11. CASE over
  <2>1. v.target = w /\ t \in ToSet(field) \ {w}
    BY <1>1, <1>2, <1>10, <1>11, <1>15
  <2>2. t \in Rivals(p, field, w) /\ Rivals(p, field, w) # {}
    BY <2>1 DEF Rivals
  <2>3. ToSet(field) # {}
    BY <2>1
  <2>4. w \in ToSet(field)
    BY <1>3, <1>4, <1>5, <2>3, BestIsOne
  <2>5. Margin(p, rows, field, w) < OverrideMargin
    BY <1>1, <1>4, <1>5, <2>1, <2>2, <2>4, RivalIsNear
  <2>6. ~CloseToNext(p, rows, field, w)
    BY <1>9, <1>11 DEF MayOverride, Unsure
  <2> QED BY <2>2, <2>5, <2>6 DEF CloseToNext
<1>12. CASE ~over /\ here /\ w # m
  BY <1>12, <1>14
<1>13. CASE ~over /\ ~(here /\ w # m)
  <2>1. v.target = w /\ t \in ToSet(names) \ {w}
    BY <1>10, <1>13, <1>15
  <2>2. field = names
    <3>1. CASE ~here
      <4>1. ~SiblingsCompared(p, names, rows, m)
        BY <1>4, <1>8, <3>1 DEF SiblingsCompared
      <4> QED BY <1>5, <4>1
    <3>2. CASE w = m
      <4>1. ASSUME SiblingsCompared(p, names, rows, m) PROVE FALSE
        <5>1. field = Kin(p, names, m) /\ Best(Kin(p, names, m), rows, p) # m
          BY <1>2, <4>1 DEF Field, SiblingsCompared
        <5> QED BY <1>3, <3>2, <5>1
      <4> QED BY <1>5, <4>1
    <3> QED BY <1>13, <3>1, <3>2
  <2>3. w \in ToSet(names)
    <3>1. ToSet(names) # {}
      BY <2>1
    <3> QED BY <1>3, <1>4, <1>5, <2>2, <3>1, BestIsOne
  <2>4. t \in Rivals(p, field, w)
    BY <2>1, <2>2 DEF Rivals
  <2>5. Margin(p, rows, field, w) < OverrideMargin
    BY <1>1, <1>4, <1>5, <2>1, <2>2, <2>3, <2>4, RivalIsNear
  <2>6. Len(names) > 1
    <3>1. PICK i, j \in DOMAIN names : names[i] = t /\ names[j] = w
      BY <2>1, <2>3 DEF ToSet
    <3>2. i # j /\ Len(names) \in Nat /\ DOMAIN names = 1 .. Len(names)
      BY <2>1, <3>1, ListDomain
    <3> QED BY <3>1, <3>2
  <2> QED BY <1>13, <1>14, <1>16, <2>5, <2>6
<1> QED BY <1>11, <1>12, <1>13

(* What _ensure_always_keep has kept after some of its names.              *)
KeptAll(c, k, out) ==
  /\ out \in Seq(c.names)
  /\ \A x \in c.keep : x \in ToSet(c.chosen) \/ (\E j \in 1 .. k : c.seq[j] = x) => Holds(out, x)
KeepingAll == INSTANCE FoldInduction WITH Op <- KeepOne, Good <- KeptAll

(* Every candidate that must be kept is, whatever the limit.               *)
LEMMA KeepAlwaysKeeps ==
  ASSUME NEW U, NEW chosen \in Seq(U), NEW order \in Seq(U), NEW limit, NEW keep,
         NEW x \in keep, x \in ToSet(order)
  PROVE  Holds(KeepAlways(chosen, order, limit, keep), x)
<1>1. PICK seq : seq = Filtered(order, keep \ ToSet(chosen))
  OBVIOUS
<1>2. PICK c : c = [limit |-> limit, keep |-> keep, names |-> U, chosen |-> chosen, seq |-> seq]
  OBVIOUS
<1>3. KeepAlways(chosen, order, limit, keep) = KeepingAll!Result(c, chosen, seq)
  BY <1>1, <1>2 DEF KeepAlways, KeepOne, FoldLeft, MapThenFoldSet, Max, KeepingAll!Result,
              KeepingAll!MapThenFoldSet, KeepingAll!Largest
<1>4. IsList(seq) /\ ToSet(seq) = ToSet(order) \cap (keep \ ToSet(chosen))
  BY <1>1, ListFrom, FilteredList
<1>5. PICK n \in Nat : DOMAIN seq = 1 .. n
  BY <1>4, ListDomain
<1>6. \A i \in 1 .. n : seq[i] \in U /\ seq[i] \in keep
  <2>1. \A t \in ToSet(order) : t \in U
    BY DEF ToSet
  <2>2. \A i \in 1 .. n : seq[i] \in ToSet(seq)
    BY <1>5 DEF ToSet
  <2> QED BY <1>4, <2>1, <2>2
<1>7. ASSUME NEW i \in 1 .. n, NEW out, KeptAll(c, i - 1, out)
      PROVE  KeptAll(c, i, KeepOne(c, out, seq[i]))
  <2>1. out \in Seq(U) /\ seq[i] \in U
    BY <1>2, <1>6, <1>7 DEF KeptAll
  <2>2. PICK l \in Nat : out \in [1 .. l -> U] /\ Len(out) = l
    BY <2>1
  <2>3. 1 .. i = (1 .. i - 1) \cup {i}
    OBVIOUS
  <2>4. \A y \in keep : y \in ToSet(chosen) \/ (\E j \in 1 .. i : seq[j] = y)
                          => Holds(out, y) \/ y = seq[i]
    BY <1>2, <1>7, <2>3 DEF KeptAll
  <2>5. PICK free : free = {k \in DOMAIN out : out[k] \notin keep}
    OBVIOUS
  <2>6. CASE Len(out) < limit \/ free = {}
    <3>1. PICK new : new = Append(out, seq[i])
      OBVIOUS
    <3>2. KeepOne(c, out, seq[i]) = new
      BY <1>2, <2>5, <2>6, <3>1 DEF KeepOne
    <3>3. /\ new \in Seq(U) /\ DOMAIN new = 1 .. l + 1
          /\ \A k \in 1 .. l : new[k] = out[k]
          /\ new[l + 1] = seq[i] /\ l + 1 \in 1 .. l + 1 /\ 1 .. l \subseteq 1 .. l + 1
      BY <2>1, <2>2, <3>1
    <3>4. \A y : Holds(out, y) \/ y = seq[i] => Holds(new, y)
      BY <2>2, <3>3 DEF Holds
    <3> QED BY <1>2, <2>4, <3>2, <3>3, <3>4 DEF KeptAll
  <2>7. CASE ~(Len(out) < limit \/ free = {})
    <3>1. PICK m : m = Max(free)
      OBVIOUS
    <3>2. m \in free
      <4>1. free \in SUBSET Int /\ free \subseteq 1 .. l
        BY <2>2, <2>5
      <4>2. IsFiniteSet(1 .. l)
        BY FS_Interval
      <4>3. IsFiniteSet(free)
        BY <4>1, <4>2, FS_Subset
      <4> QED BY <2>7, <3>1, <4>1, <4>3, GreatestOf
    <3>3. PICK new : new = [out EXCEPT ![m] = seq[i]]
      OBVIOUS
    <3>4. KeepOne(c, out, seq[i]) = new
      BY <1>2, <2>5, <2>7, <3>1, <3>3 DEF KeepOne
    <3>5. /\ new \in [1 .. l -> U] /\ new[m] = seq[i] /\ m \in 1 .. l
          /\ \A k \in 1 .. l : k # m => new[k] = out[k]
      BY <2>1, <2>2, <2>5, <3>2, <3>3
    <3>6. new \in Seq(U)
      BY <3>5
    <3>7. \A y \in keep : Holds(out, y) \/ y = seq[i] => Holds(new, y)
      BY <2>2, <2>5, <3>2, <3>5 DEF Holds
    <3> QED BY <1>2, <2>4, <3>4, <3>6, <3>7 DEF KeptAll
  <2> QED BY <2>6, <2>7
<1>8. KeptAll(c, 0, chosen)
  BY <1>2 DEF KeptAll, Holds, ToSet
<1>9. KeptAll(c, n, KeepingAll!Result(c, chosen, seq))
  BY <1>5, <1>7, <1>8, KeepingAll!FoldInduction
<1>10. x \in ToSet(chosen) \/ \E j \in 1 .. n : seq[j] = x
  BY <1>4, <1>5 DEF ToSet
<1> QED BY <1>2, <1>3, <1>9, <1>10 DEF KeptAll

(* What the caps of the groups have passed after some of the names.        *)
KeptPassed(c, k, out) ==
  out \in Seq(c.names) /\ \A i \in 1 .. k : c.all[i] \in c.p.keep => Holds(out, c.all[i])
GroupingAll == INSTANCE FoldInduction WITH Op <- GroupOne, Good <- KeptPassed

(* No cap of a group drops a candidate that must be kept.                  *)
LEMMA GroupedKeeps ==
  ASSUME NEW U, NEW all \in Seq(U), NEW p, NEW x \in p.keep, Holds(all, x)
  PROVE  Holds(Grouped(p, all), x)
<1> DEFINE seq == [i \in DOMAIN all |-> i]
<1>1. PICK c : c = [p |-> p, all |-> all, names |-> U]
  OBVIOUS
<1>2. Grouped(p, all) = GroupingAll!Result(c, <<>>, seq)
  BY <1>1 DEF Grouped, GroupOne, FoldLeft, MapThenFoldSet, Max, GroupingAll!Result,
              GroupingAll!MapThenFoldSet, GroupingAll!Largest
<1>3. PICK n \in Nat : DOMAIN all = 1 .. n
  OBVIOUS
<1>4. DOMAIN seq = 1 .. n /\ \A i \in 1 .. n : seq[i] = i /\ all[i] \in U
  BY <1>3
<1> HIDE DEF seq
<1>5. ASSUME NEW i \in 1 .. n, NEW out, KeptPassed(c, i - 1, out)
      PROVE  KeptPassed(c, i, GroupOne(c, out, seq[i]))
  <2>1. out \in Seq(U) /\ all[i] \in U /\ seq[i] = i
    BY <1>1, <1>4, <1>5 DEF KeptPassed
  <2>2. PICK l \in Nat : out \in [1 .. l -> U] /\ Len(out) = l
    BY <2>1
  <2>3. PICK new : new = Append(out, all[i])
    OBVIOUS
  <2>4. /\ new \in Seq(U) /\ DOMAIN new = 1 .. l + 1
        /\ \A k \in 1 .. l : new[k] = out[k]
        /\ new[l + 1] = all[i] /\ l + 1 \in 1 .. l + 1 /\ 1 .. l \subseteq 1 .. l + 1
    BY <2>1, <2>2, <2>3
  <2>5. Holds(new, all[i]) /\ \A y : Holds(out, y) => Holds(new, y)
    BY <2>2, <2>4 DEF Holds
  <2>6. GroupOne(c, out, i) = IF OverCap(p, all, out, i) THEN out ELSE new
    BY <1>1, <2>3 DEF GroupOne
  <2>7. OverCap(p, all, out, i) => all[i] \notin p.keep
    BY DEF OverCap
  <2>8. 1 .. i = (1 .. i - 1) \cup {i}
    OBVIOUS
  <2>9. \A k \in 1 .. i - 1 : all[k] \in p.keep => Holds(out, all[k])
    BY <1>1, <1>5 DEF KeptPassed
  <2>10. PICK res : res = GroupOne(c, out, i)
    OBVIOUS
  <2>11. res \in Seq(U) /\ \A k \in 1 .. i : all[k] \in p.keep => Holds(res, all[k])
    BY <2>1, <2>4, <2>5, <2>6, <2>7, <2>8, <2>9, <2>10
  <2> QED BY <1>1, <2>1, <2>10, <2>11 DEF KeptPassed
<1>6. KeptPassed(c, 0, <<>>)
  BY DEF KeptPassed
<1>7. KeptPassed(c, n, GroupingAll!Result(c, <<>>, seq))
  BY <1>4, <1>5, <1>6, GroupingAll!FoldInduction
<1>8. PICK i \in 1 .. n : all[i] = x
  BY <1>3 DEF Holds
<1> QED BY <1>1, <1>2, <1>7, <1>8 DEF KeptPassed

(* The candidates best first are those the catalog knows, each once.       *)
LEMMA RankedLists ==
  ASSUME NEW p, IsCase(p)
  PROVE  /\ IsList(Ranked(p, p.names, AdmissionScore(p)))
         /\ ToSet(Ranked(p, p.names, AdmissionScore(p))) = Known(p)
<1> DEFINE known == {t \in ToSet(p.names) : t \in DOMAIN p.tool}
           score == AdmissionScore(p)
           key == [t \in known |-> RankKey(p, p.names, t, score[t])]
<1>1. IsList(p.names) /\ known = Known(p)
  BY CaseHas DEF IsList, Known
<1>2. IsFiniteSet(known)
  BY <1>1, ListIsFinite, FS_Subset
<1>3. \A t \in known : key[t] \in Key(3) /\ key[t][3] = Place(p.names, t)
  BY <1>1, RankKeyFits, AdmissionScoreIsInt
<1>4. \A t, u \in known : key[t] = key[u] => t = u
  <2> HIDE DEF key
  <2> QED BY <1>1, <1>3, PlaceOf
<1>5. 3 \in Nat
  OBVIOUS
<1>6. Ranked(p, p.names, score) = Sorted(known, key)
  BY DEF Ranked, RankKey
<1>7. IsList(Sorted(known, key)) /\ ToSet(Sorted(known, key)) = known
  <2> HIDE DEF key, known
  <2> QED BY <1>2, <1>3, <1>4, <1>5, SortedList
<1> HIDE DEF key, known, score
<1> QED BY <1>1, <1>6, <1>7 DEF score

(* The limit of an admission lies within the candidates.                   *)
LEMMA LimitFits ==
  ASSUME NEW p, IsCase(p), NEW score, NEW order, IsList(order)
  PROVE  /\ Limit(p, Cliffs(p, score, order), order) \in Nat
         /\ Limit(p, Cliffs(p, score, order), order) <= Len(order)
<1> DEFINE cliffs == Cliffs(p, score, order)
           limit == Limit(p, cliffs, order)
<1>1. PICK l \in Nat : l = Len(order)
  BY ListDomain
<1>2. PICK most \in Nat, least \in Nat : most = p.most /\ least = p.least
  BY CaseHas
<1>3. \A a, b \in Nat : Min({a, b}) \in {a, b} /\ Min({a, b}) <= a /\ Min({a, b}) <= b
  BY DEF Min
<1>4. Min({most, l}) \in Nat /\ Min({most, l}) <= l
  BY <1>3
<1>5. Min({least, Min({most, l})}) \in Nat
  BY <1>3, <1>4
<1>6. \A b \in cliffs : b \in Nat /\ b <= l
  BY <1>1, <1>2, <1>4, <1>5 DEF Cliffs
<1>7. cliffs # {} => Min(cliffs) \in cliffs
  <2> HIDE DEF cliffs
  <2> QED BY <1>6, LeastOf
<1> HIDE DEF cliffs
<1>8. limit \in Nat /\ limit <= Len(order)
  BY <1>1, <1>2, <1>4, <1>6, <1>7 DEF Limit
<1> QED BY <1>8 DEF cliffs

(* The last places of some names.                                          *)
LEMMA EndsOf ==
  ASSUME NEW l \in Nat, NEW S \in SUBSET (1 .. l), NEW k \in S
  PROVE  Min(S) \in Nat /\ Max(S) \in Nat /\ Min(S) <= k /\ k <= Max(S)
<1>1. IsFiniteSet(1 .. l)
  BY FS_Interval
<1>2. IsFiniteSet(S)
  BY <1>1, FS_Subset
<1>3. S \in SUBSET Nat /\ S \in SUBSET Int /\ S # {}
  OBVIOUS
<1>4. Min(S) \in S /\ Min(S) <= k
  BY <1>3, LeastOf
<1>5. Max(S) \in S /\ k <= Max(S)
  BY <1>2, <1>3, GreatestOf
<1> QED BY <1>3, <1>4, <1>5

(* When the boundary is not ambiguous nothing better was left out.         *)
LEMMA ClearBoundary ==
  ASSUME NEW p, NEW score, NEW order, IsList(order), NEW shown, ~Ambiguous(p, score, order, shown),
         NEW i \in DOMAIN order, NEW j \in DOMAIN order, i < j, Holds(shown, order[j])
  PROVE  Holds(shown, order[i])
<1> DEFINE in == {k \in DOMAIN order : Holds(shown, order[k])}
           out == DOMAIN order \ in
<1>1. Len(order) \in Nat /\ DOMAIN order = 1 .. Len(order)
  BY ListDomain
<1>2. ~(in # {} /\ out # {} /\ Min(out) < Max(in))
  BY DEF Ambiguous
<1> SUFFICES ASSUME ~Holds(shown, order[i]) PROVE FALSE
  OBVIOUS
<1>3. j \in in /\ i \in out /\ in \in SUBSET (1 .. Len(order)) /\ out \in SUBSET (1 .. Len(order))
  BY <1>1
<1> HIDE DEF in, out
<1>4. Max(in) \in Nat /\ j <= Max(in) /\ Min(out) \in Nat /\ Min(out) <= i
  BY <1>1, <1>3, EndsOf
<1>5. i \in Nat /\ j \in Nat
  BY <1>1
<1> QED BY <1>2, <1>3, <1>4, <1>5

(* The advice of an admission is sound.                                    *)
Sound(p, a) ==
  LET in(i) == Holds(a.shown, a.order[i]) IN
  /\ a.advice = "select_target" =>
       /\ \A i, j \in DOMAIN a.order : in(j) /\ i < j => in(i)
       /\ Len(a.shown) >= Min({p.least, Len(a.order)})
  /\ \A i \in DOMAIN a.order :
       LET t == a.order[i] IN
       t \in p.keep => in(i) \/ a.reasons[t] = "token_budget_exceeded"

(* What the admission promises of its advice and of the names to keep.     *)
LEMMA AdmissionIsSound ==
  ASSUME NEW p, IsCase(p)
  PROVE  Sound(p, Admission(p))
<1>1. PICK score : score = AdmissionScore(p)
  OBVIOUS
<1>2. PICK order : order = Ranked(p, p.names, score)
  OBVIOUS
<1>3. PICK cliffs : cliffs = Cliffs(p, score, order)
  OBVIOUS
<1>4. PICK limit : limit = Limit(p, cliffs, order)
  OBVIOUS
<1>5. PICK eligible : eligible = KeepAlways(SubSeq(order, 1, limit), order, limit, p.keep)
  OBVIOUS
<1>6. PICK grouped : grouped = Grouped(p, eligible)
  OBVIOUS
<1>7. PICK shown : shown = Budgeted(p, grouped)
  OBVIOUS
<1> DEFINE rules(t) ==
      <<Rule(Holds(shown, t), "admitted"),
        Rule(t \notin DOMAIN p.tool, "tool_metadata_missing"),
        Rule(Holds(grouped, t), "token_budget_exceeded"),
        Rule(Holds(eligible, t), "semantic_group_cap"),
        Rule(cliffs # {}, "score_cliff"),
        Rule(TRUE, "candidate_limit")>>
      reasons == [t \in ToSet(p.names) |-> FirstRule(rules(t))]
      expand == Ambiguous(p, score, order, shown) \/ Len(shown) < Min({p.least, Len(order)})
      advice == IF expand THEN "expand_candidates"
                ELSE IF \E t \in DOMAIN reasons : reasons[t] = "token_budget_exceeded"
                     THEN "increase_token_budget" ELSE "select_target"
<1>8. PICK a : a = Admission(p)
  OBVIOUS
<1>9. a = [order |-> order, shown |-> shown, reasons |-> reasons, advice |-> advice]
  BY <1>1, <1>2, <1>3, <1>4, <1>5, <1>6, <1>7, <1>8
     DEF Admission, AdmissionByScore, AdmissionInOrder
<1>10. a.order = order /\ a.shown = shown /\ a.reasons = reasons
  BY <1>9, Zenon
<1>11. advice = "select_target" => ~expand
  OBVIOUS
<1>12. a.advice = advice
  BY <1>9, Zenon
<1>13. \A t \in ToSet(p.names) : a.reasons[t] = FirstRule(rules(t))
  BY <1>10
<1> HIDE DEF rules, reasons, advice
<1>14. IsList(order) /\ ToSet(order) = Known(p)
  BY <1>1, <1>2, RankedLists
<1>15. a.advice = "select_target" =>
         ~Ambiguous(p, score, order, shown) /\ ~(Len(shown) < Min({p.least, Len(order)}))
  BY <1>11, <1>12
<1> HIDE DEF expand
<1>16. limit \in Nat /\ limit <= Len(order)
  BY <1>3, <1>4, <1>14, LimitFits
<1>17. PICK U : U = Known(p) \cup p.keep
  OBVIOUS
<1>18. order \in Seq(U) /\ SubSeq(order, 1, limit) \in Seq(U)
  <2>1. order \in Seq(U)
    BY <1>14, <1>17, WiderSeq DEF IsList
  <2> QED BY <1>16, <2>1
<1>19. eligible \in Seq(U) /\ grouped \in Seq(U) /\ shown \in Seq(U)
  <2>1. eligible \in Seq(U \cup p.keep) /\ U \cup p.keep = U
    BY <1>5, <1>17, <1>18, KeepAlwaysLists
  <2>2. grouped \in Seq(U)
    BY <1>6, <2>1, GroupedLists
  <2> QED BY <1>7, <2>1, <2>2, BudgetedLists
<1>20. ASSUME NEW i \in DOMAIN order, order[i] \in p.keep, ~Holds(shown, order[i])
       PROVE  a.reasons[order[i]] = "token_budget_exceeded"
  <2>1. PICK t : t = order[i]
    OBVIOUS
  <2>2. t \in ToSet(order) /\ t \in p.keep
    BY <1>20, <2>1 DEF ToSet
  <2>3. t \in ToSet(p.names) /\ t \in DOMAIN p.tool
    BY <1>14, <2>2 DEF Known
  <2>4. Holds(eligible, t)
    BY <1>5, <1>18, <2>2, KeepAlwaysKeeps
  <2>5. Holds(grouped, t)
    BY <1>6, <1>19, <2>2, <2>4, GroupedKeeps
  <2>6. PICK R : R = rules(t)
    OBVIOUS
  <2>7. DOMAIN R = 1 .. 6
    BY <2>6, SMTT(60) DEF rules
  <2>8. R[1].when = Holds(shown, t) /\ R[2].when = (t \notin DOMAIN p.tool)
        /\ R[3].when = Holds(grouped, t) /\ R[6].when = TRUE
    BY <2>6, Zenon DEF rules, Rule
  <2>9. R[3].gives = "token_budget_exceeded"
    BY <2>6, Zenon DEF rules, Rule
  <2>10. ~R[1].when /\ ~R[2].when /\ R[3].when /\ R[6].when
    BY <1>20, <2>1, <2>3, <2>5, <2>8, Zenon
  <2>11. 6 \in Nat /\ 6 > 0
    OBVIOUS
  <2>12. PICK k \in 1 .. 6 : /\ R[k].when /\ \A j \in 1 .. k - 1 : ~R[j].when
                             /\ FirstRule(R) = R[k].gives
    BY <2>7, <2>10, <2>11, FirstRuleHolds, Zenon
  <2>13. k = 3
    <3>1. k # 1 /\ k # 2
      BY <2>10, <2>12
    <3>2. ~(k > 3)
      <4> SUFFICES ASSUME k > 3 PROVE FALSE
        OBVIOUS
      <4>1. 3 \in 1 .. k - 1
        BY <2>12
      <4> QED BY <2>10, <2>12, <4>1
    <3> QED BY <3>1, <3>2
  <2> QED BY <1>13, <2>1, <2>3, <2>6, <2>9, <2>12, <2>13
<1>21. ASSUME a.advice = "select_target"
       PROVE  /\ \A i, j \in DOMAIN order : Holds(shown, order[j]) /\ i < j => Holds(shown, order[i])
              /\ Len(shown) >= Min({p.least, Len(order)})
  <2>1. \A i, j \in DOMAIN order : Holds(shown, order[j]) /\ i < j => Holds(shown, order[i])
    BY <1>14, <1>15, <1>21, ClearBoundary
  <2>2. PICK n \in Nat, m \in Nat : n = Len(shown) /\ m = Len(order)
    BY <1>14, <1>19, ListDomain
  <2>3. PICK least \in Nat : least = p.least
    BY CaseHas
  <2>4. Min({least, m}) \in Nat
    BY DEF Min
  <2>5. PICK b \in Nat : b = Min({least, m})
    BY <2>4
  <2>6. ~(n < b)
    BY <1>15, <1>21, <2>2, <2>3, <2>5
  <2>7. n >= b
    BY <2>6
  <2> QED BY <2>1, <2>2, <2>3, <2>5, <2>7
<1> QED BY <1>8, <1>10, <1>20, <1>21 DEF Sound

(* Inductive: the admission is that of the request, and the target is the  *)
(* one the verdict on what was shown names.                                *)
Decided ==
  /\ admission = NoAdmission \/ admission = Admission(r.targets)
  /\ target # NoTool => verdict = Selection(r.targets, others, llm) /\ verdict.target = target

(* It is kept by every step.                                               *)
LEMMA NextDecided ==
  Decided /\ [Next]_<<allVars, pipelineVars>> => Decided'
<1> SUFFICES ASSUME Decided, [Next]_<<allVars, pipelineVars>> PROVE Decided'
  OBVIOUS
<1>1. CASE SelectTarget
  <2>1. target = NoTool
    BY <1>1 DEF SelectTarget
  <2>2. CASE UNCHANGED <<vars, others>>
    BY <1>1, <2>1, <2>2 DEF Decided, SelectTarget, vars
  <2>3. CASE Begin(verdict'.target) /\ others' = admission'.shown
    <3>1. r' = r /\ target' = verdict'.target
      BY <2>3 DEF Begin
    <3>2. admission' = Admission(r.targets) /\ verdict' = Selection(r.targets, admission'.shown, llm')
      BY <1>1 DEF SelectTarget
    <3> QED BY <2>3, <3>1, <3>2 DEF Decided
  <2> QED BY <1>1, <2>2, <2>3 DEF SelectTarget
<1>2. CASE UNCHANGED <<r, target, others, admission, llm, verdict>>
  BY <1>2 DEF Decided
<1>3. CASE Assemble /\ UNCHANGED pipelineVars
  <2>1. CASE Visit /\ UNCHANGED bundleVars
    <3>1. r' = r /\ target' = target
      BY <2>1 DEF Visit, FollowGraph, GraphLeft, FillFromCaller, AskForInput, NeedsProducer,
                  AtRow, ChainProducer, Return
    <3> QED BY <1>2, <1>3, <2>1, <3>1 DEF bundleVars, pipelineVars
  <2>2. CASE AdmitSchema \/ Finish
    BY <1>2, <1>3, <2>2 DEF AdmitSchema, Finish, pipelineVars, vars
  <2> QED BY <1>3, <2>1, <2>2 DEF Assemble
<1>4. CASE OfferCandidates
  BY <1>2, <1>4 DEF OfferCandidates, allVars, vars, bundleVars
<1>5. CASE UNCHANGED <<allVars, pipelineVars>>
  BY <1>2, <1>5 DEF allVars, pipelineVars, vars, bundleVars
<1> QED BY <1>1, <1>3, <1>4, <1>5 DEF Next

(* What the advice says of an admission.                                   *)
LEMMA AdviceFollows ==
  VisitShape /\ Decided => AdviceIsSound
<1> SUFFICES ASSUME VisitShape, Decided PROVE AdviceIsSound
  OBVIOUS
<1>1. IsCase(r.targets)
  BY TargetsAssumption DEF VisitShape
<1>2. CASE admission = Admission(r.targets)
  <2>1. Sound(r.targets, admission)
    BY <1>1, <1>2, AdmissionIsSound
  <2> QED BY <2>1 DEF Sound, AdviceIsSound
<1>3. CASE admission = NoAdmission
  <2>1. admission.advice # "select_target"
    BY <1>3, Zenon DEF NoAdmission
  <2>2. admission.order = <<>>
    BY <1>3, Zenon DEF NoAdmission
  <2>3. DOMAIN admission.order = {}
    BY <2>2
  <2> QED BY <2>1, <2>3 DEF AdviceIsSound
<1> QED BY <1>2, <1>3 DEF Decided

(* What the verdict says of a target.                                      *)
LEMMA TieFollows ==
  VisitShape /\ Admitting /\ Decided => TieIsReported
<1> SUFFICES ASSUME VisitShape, Admitting, Decided, Settled, target \in DOMAIN r.targets.tool
             PROVE  TieAmong(AllContenders, Rows(r.targets, AllContenders))
  BY DEF TieIsReported
<1>1. PICK p : p = r.targets
  OBVIOUS
<1>2. PICK names : names = AllContenders
  OBVIOUS
<1>3. IsCase(p)
  BY <1>1, TargetsAssumption DEF VisitShape
<1>4. target # NoTool
  <2>1. stack # <<>>
    BY DEF Settled
  <2> QED BY <2>1 DEF VisitShape
<1>5. verdict = Among(p, names, llm) /\ verdict.target = target
  BY <1>1, <1>2, <1>4 DEF Decided, Selection, AllContenders
<1>6. IsList(names) /\ ToSet(names) \subseteq DOMAIN p.tool
  <2>1. PICK all : all = IF llm \in DOMAIN p.tool /\ ~Holds(others, llm) THEN Append(others, llm) ELSE others
    OBVIOUS
  <2>2. IsList(others)
    BY DEF Admitting, IsList
  <2>3. IsList(all)
    BY <2>1, <2>2, ListAppended
  <2>4. names = Filtered(all, DOMAIN p.tool)
    BY <1>1, <1>2, <2>1 DEF AllContenders, Contenders
  <2> QED BY <2>3, <2>4, FilteredList
<1>7. PICK rows : rows = Rows(p, names)
  OBVIOUS
<1> SUFFICES ASSUME NEW t \in Within(AmbiguityMargin, rows, Weighed(names, rows)) PROVE verdict.ambiguous
  BY <1>1, <1>2, <1>7 DEF TieAmong
<1>8. /\ t \in ToSet(IF verdict.overrode THEN Field(p, names, rows, llm) ELSE names) \ {target}
      /\ ~SameOperation(p.tool[target], p.tool[t])
      /\ rows[t].score >= rows[target].score - AmbiguityMargin
  BY <1>1 DEF Within, Weighed
<1> QED BY <1>3, <1>5, <1>6, <1>7, <1>8, TieShows

(* VerdictsAreSound: for every catalog and request, the advice to go on    *)
(* with the admitted candidates is given only when nothing better was left *)
(* out and the minimum is there, no name that must be kept is lost but to  *)
(* the token budget, and a target that another candidate comes near is     *)
(* reported as ambiguous.                                                  *)
THEOREM VerdictsAreAlwaysSound == Spec => []VerdictsAreSound
<1>1. Init => Decided
  BY DEF Init, BundleInit, ClosureInit, Decided
<1>2. VisitShape /\ Admitting /\ Decided => VerdictsAreSound
  BY AdviceFollows, TieFollows DEF VerdictsAreSound
<1>3. Spec => [](VisitShape /\ Admitting /\ Decided)
  BY <1>1, InitAdmitting, AlwaysShape, NextAdmitting, NextDecided, PTL DEF Spec
<1> QED BY <1>2, <1>3, PTL

(* What the caps of the surface have passed after some of the targets: the *)
(* seeds, and some member of each group.                                   *)
CapOne(c, out, t) ==
  IF c.k.cap = NoCap \/ GroupSize(c.p, out, Group(c.p, t)) < c.k.cap \/ Holds(c.k.seed, t)
  THEN Append(out, t) ELSE out
Covering(c, i, out) ==
  /\ IsList(out) /\ Distinct(out)
  /\ \A x \in ToSet(out) : \E j \in 1 .. i : c.seq[j] = x
  /\ \A j \in 1 .. i : Holds(c.k.seed, c.seq[j]) => c.seq[j] \in ToSet(out)
  /\ \A j \in 1 .. i : \E u \in ToSet(out) : Group(c.p, u) = Group(c.p, c.seq[j])
Surfacing == INSTANCE FoldInduction WITH Op <- CapOne, Good <- Covering

(* The caps drop no seed and no group.                                     *)
LEMMA CappedCovers ==
  ASSUME NEW p, NEW k, k.cap \in Nat, NEW names, IsList(names), Distinct(names)
  PROVE  /\ IsList(Capped(p, k, names)) /\ Distinct(Capped(p, k, names))
         /\ ToSet(Capped(p, k, names)) \subseteq ToSet(names)
         /\ \A x \in ToSet(names) : Holds(k.seed, x) => x \in ToSet(Capped(p, k, names))
         /\ Groups(p, Capped(p, k, names)) = Groups(p, names)
<1>1. PICK c : c = [p |-> p, k |-> k, seq |-> names]
  OBVIOUS
<1>2. Capped(p, k, names) = Surfacing!Result(c, <<>>, names)
  BY <1>1 DEF Capped, CapOne, FoldLeft, MapThenFoldSet, Max, Surfacing!Result,
              Surfacing!MapThenFoldSet, Surfacing!Largest
<1>3. PICK n \in Nat : DOMAIN names = 1 .. n
  BY ListDomain
<1>4. ASSUME NEW i \in 1 .. n, NEW out, Covering(c, i - 1, out)
      PROVE  Covering(c, i, CapOne(c, out, names[i]))
  <2>1. 1 .. i = (1 .. i - 1) \cup {i} /\ 1 .. i \subseteq 1 .. n /\ i \notin 1 .. i - 1
    OBVIOUS
  <2>2. PICK t : t = names[i]
    OBVIOUS
  <2>3. t \notin ToSet(out)
    <3>1. ASSUME t \in ToSet(out) PROVE FALSE
      <4>1. PICK j \in 1 .. i - 1 : names[j] = t
        BY <1>1, <1>4, <3>1 DEF Covering
      <4> QED BY <1>3, <2>1, <2>2, <4>1 DEF Distinct
    <3> QED BY <3>1
  <2>4. PICK new : new = Append(out, t)
    OBVIOUS
  <2>5. IsList(new) /\ ToSet(new) = ToSet(out) \cup {t} /\ Distinct(new)
    BY <1>4, <2>3, <2>4, OneAppended DEF Covering
  <2>6. CASE k.cap = NoCap \/ GroupSize(p, out, Group(p, t)) < k.cap \/ Holds(k.seed, t)
    <3>1. CapOne(c, out, t) = new
      BY <1>1, <2>4, <2>6 DEF CapOne
    <3>2. \A x \in ToSet(new) : \E j \in 1 .. i : c.seq[j] = x
      BY <1>1, <1>4, <2>1, <2>2, <2>5 DEF Covering
    <3>3. \A j \in 1 .. i : Holds(c.k.seed, c.seq[j]) => c.seq[j] \in ToSet(new)
      BY <1>1, <1>4, <2>1, <2>2, <2>5 DEF Covering
    <3>4. \A j \in 1 .. i : \E u \in ToSet(new) : Group(c.p, u) = Group(c.p, c.seq[j])
      BY <1>1, <1>4, <2>1, <2>2, <2>5 DEF Covering
    <3> QED BY <2>2, <2>5, <3>1, <3>2, <3>3, <3>4 DEF Covering
  <2>7. CASE ~(k.cap = NoCap \/ GroupSize(p, out, Group(p, t)) < k.cap \/ Holds(k.seed, t))
    <3>1. CapOne(c, out, t) = out
      BY <1>1, <2>7 DEF CapOne
    <3>2. \E u \in ToSet(out) : Group(p, u) = Group(p, t)
      <4>1. PICK S : S = {j \in DOMAIN out : Group(p, out[j]) = Group(p, t)}
        OBVIOUS
      <4>2. Cardinality(S) = GroupSize(p, out, Group(p, t))
        BY <4>1 DEF GroupSize
      <4>3. S # {}
        <5>1. Cardinality({}) = 0 /\ k.cap > 0
          BY <2>7, FS_EmptySet DEF NoCap
        <5> QED BY <2>7, <4>2, <5>1
      <4> QED BY <4>1, <4>3 DEF ToSet
    <3>3. /\ \A x \in ToSet(out) : \E j \in 1 .. i : c.seq[j] = x
          /\ \A j \in 1 .. i : Holds(c.k.seed, c.seq[j]) => c.seq[j] \in ToSet(out)
          /\ \A j \in 1 .. i : \E u \in ToSet(out) : Group(c.p, u) = Group(c.p, c.seq[j])
      BY <1>1, <1>4, <2>1, <2>2, <2>7, <3>2 DEF Covering
    <3> QED BY <1>4, <2>2, <3>1, <3>3 DEF Covering
  <2> QED BY <2>2, <2>6, <2>7
<1>5. Covering(c, 0, <<>>)
  <2>1. IsList(<<>>) /\ ToSet(<<>>) = {}
    BY DEF IsList, ToSet
  <2> QED BY <2>1 DEF Covering, Distinct
<1>6. Covering(c, n, Capped(p, k, names))
  BY <1>2, <1>3, <1>4, <1>5, Surfacing!FoldInduction
<1>7. PICK out : out = Capped(p, k, names)
  OBVIOUS
<1>8. ToSet(names) = {names[j] : j \in 1 .. n}
  BY <1>3 DEF ToSet
<1>9. /\ IsList(out) /\ Distinct(out) /\ ToSet(out) \subseteq ToSet(names)
      /\ \A x \in ToSet(names) : Holds(k.seed, x) => x \in ToSet(out)
      /\ \A x \in ToSet(names) : \E u \in ToSet(out) : Group(p, u) = Group(p, x)
  BY <1>1, <1>6, <1>7, <1>8 DEF Covering
<1>10. Groups(p, out) = Groups(p, names)
  BY <1>9 DEF Groups
<1> QED BY <1>7, <1>9, <1>10

-----------------------------------------------------------------------------
(* The rounds of a list of names: the members of a name's group, how many  *)
(* of them come before it, and the place of the first.                     *)
Fellows(p, names, t) == {u \in ToSet(names) : Group(p, u) = Group(p, t)}
Turn(p, names, t) == Cardinality({u \in Fellows(p, names, t) : Place(names, u) < Place(names, t)})
FirstPlace(p, names, t) == Min({Place(names, u) : u \in Fellows(p, names, t)})

(* The first of a group.                                                   *)
LEMMA FirstOfGroup ==
  ASSUME NEW p, NEW names, IsList(names), NEW t \in ToSet(names)
  PROVE  /\ FirstPlace(p, names, t) \in Nat
         /\ \E v \in Fellows(p, names, t) :
              Place(names, v) = FirstPlace(p, names, t) /\ Turn(p, names, v) = 0
<1> DEFINE S == {Place(names, u) : u \in Fellows(p, names, t)}
<1>1. t \in Fellows(p, names, t) /\ Fellows(p, names, t) \subseteq ToSet(names)
  BY DEF Fellows
<1>2. S \in SUBSET Nat /\ S # {}
  BY <1>1, PlaceOf
<1>3. FirstPlace(p, names, t) = Min(S)
  BY DEF FirstPlace
<1>4. Min(S) \in S /\ \A k \in S : Min(S) <= k
  <2> HIDE DEF S
  <2> QED BY <1>2, LeastOf
<1>5. PICK v \in Fellows(p, names, t) : Place(names, v) = Min(S)
  BY <1>4
<1>6. Fellows(p, names, v) = Fellows(p, names, t)
  BY <1>5 DEF Fellows
<1>7. {u \in Fellows(p, names, v) : Place(names, u) < Place(names, v)} = {}
  <2> SUFFICES ASSUME NEW u \in Fellows(p, names, t), Place(names, u) < Place(names, v) PROVE FALSE
    BY <1>6
  <2>1. Place(names, u) \in S /\ Place(names, u) \in Nat
    BY <1>2
  <2>2. Min(S) <= Place(names, u) /\ Min(S) \in Nat
    BY <1>2, <1>4, <2>1
  <2> HIDE DEF S
  <2> QED BY <1>5, <2>1, <2>2
<1>8. Turn(p, names, v) = 0
  BY <1>7, FS_EmptySet DEF Turn
<1> HIDE DEF S
<1> QED BY <1>2, <1>3, <1>4, <1>5, <1>8

(* Two members of a group have different turns.                            *)
LEMMA TurnsDiffer ==
  ASSUME NEW p, NEW names, IsList(names), NEW t \in ToSet(names), NEW u \in ToSet(names), t # u,
         Group(p, t) = Group(p, u)
  PROVE  Turn(p, names, t) # Turn(p, names, u)
<1> DEFINE Before(x) == {y \in Fellows(p, names, x) : Place(names, y) < Place(names, x)}
<1>1. \A x \in ToSet(names) : IsFiniteSet(Before(x)) /\ Cardinality(Before(x)) \in Nat
  <2> TAKE x \in ToSet(names)
  <2>1. Before(x) \subseteq ToSet(names)
    BY DEF Fellows
  <2>2. IsFiniteSet(Before(x))
    BY <2>1, ListIsFinite, FS_Subset
  <2> QED BY <2>2, FS_CardinalityType
<1>2. ASSUME NEW x \in ToSet(names), NEW y \in ToSet(names), Group(p, x) = Group(p, y),
             Place(names, x) < Place(names, y)
      PROVE  Cardinality(Before(x)) < Cardinality(Before(y))
  <2>1. \A z \in ToSet(names) : Place(names, z) \in Nat
    BY PlaceOf
  <2>2. Before(x) \in SUBSET Before(y)
    BY <1>2, <2>1 DEF Fellows
  <2>3. x \in Before(y) /\ x \notin Before(x)
    BY <1>2, <2>1 DEF Fellows
  <2>4. /\ Cardinality(Before(x)) <= Cardinality(Before(y))
        /\ Cardinality(Before(y)) = Cardinality(Before(x)) => Before(y) = Before(x)
    <3>1. IsFiniteSet(Before(y))
      BY <1>1
    <3> HIDE DEF Before
    <3> QED BY <2>2, <3>1, FS_Subset
  <2>5. Cardinality(Before(x)) \in Nat /\ Cardinality(Before(y)) \in Nat
    BY <1>1
  <2> HIDE DEF Before
  <2> QED BY <2>3, <2>4, <2>5
<1>3. Turn(p, names, t) = Cardinality(Before(t)) /\ Turn(p, names, u) = Cardinality(Before(u))
  BY DEF Turn
<1>4. Cardinality(Before(t)) \in Nat /\ Cardinality(Before(u)) \in Nat
  BY <1>1
<1>5. Place(names, t) < Place(names, u) \/ Place(names, u) < Place(names, t)
  BY PlaceOf
<1> HIDE DEF Before
<1> QED BY <1>2, <1>3, <1>4, <1>5

(* The rounds list every name once, and of two names of one group the      *)
(* later comes after the first of every group.                             *)
LEMMA RoundsAreFair ==
  ASSUME NEW p, NEW names, IsList(names)
  PROVE  /\ IsList(Rounds(p, names)) /\ Distinct(Rounds(p, names))
         /\ ToSet(Rounds(p, names)) = ToSet(names)
         /\ \A i, j \in DOMAIN Rounds(p, names) :
              i # j /\ Group(p, Rounds(p, names)[i]) = Group(p, Rounds(p, names)[j]) =>
                \A g \in Groups(p, names) : \E u \in DOMAIN Rounds(p, names) :
                  Group(p, Rounds(p, names)[u]) = g /\ (u < i \/ u < j)
<1> DEFINE key == [t \in ToSet(names) |-> <<Turn(p, names, t), FirstPlace(p, names, t)>>]
<1>1. Rounds(p, names) = Sorted(ToSet(names), key)
  BY DEF Rounds, Turn, FirstPlace, Fellows
<1>2. \A t \in ToSet(names) : FirstPlace(p, names, t) \in Nat /\ Turn(p, names, t) \in Nat
  <2> TAKE t \in ToSet(names)
  <2>1. FirstPlace(p, names, t) \in Nat
    BY FirstOfGroup
  <2>2. PICK S : S = {u \in Fellows(p, names, t) : Place(names, u) < Place(names, t)}
    OBVIOUS
  <2>3. S \subseteq ToSet(names)
    BY <2>2 DEF Fellows
  <2>4. IsFiniteSet(S)
    BY <2>3, ListIsFinite, FS_Subset
  <2>5. Turn(p, names, t) \in Nat
    BY <2>2, <2>4, FS_CardinalityType DEF Turn
  <2> QED BY <2>1, <2>5
<1>3. \A t \in ToSet(names) : /\ key[t] \in Key(2) /\ key[t][1] = Turn(p, names, t)
                              /\ key[t][2] = FirstPlace(p, names, t)
  BY <1>2 DEF Key
<1> HIDE DEF key
<1>4. ASSUME NEW t \in ToSet(names), NEW u \in ToSet(names), key[t] = key[u] PROVE t = u
  <2>1. Turn(p, names, t) = Turn(p, names, u) /\ FirstPlace(p, names, t) = FirstPlace(p, names, u)
    BY <1>3, <1>4
  <2>2. PICK v \in Fellows(p, names, t) : Place(names, v) = FirstPlace(p, names, t)
    BY FirstOfGroup
  <2>3. PICK w \in Fellows(p, names, u) : Place(names, w) = FirstPlace(p, names, u)
    BY FirstOfGroup
  <2>4. v = w
    BY <2>1, <2>2, <2>3, PlaceOf DEF Fellows
  <2>5. Group(p, t) = Group(p, u)
    BY <2>2, <2>3, <2>4 DEF Fellows
  <2> QED BY <2>1, <2>5, TurnsDiffer
<1>5. PICK list : list = Sorted(ToSet(names), key)
  OBVIOUS
<1>6. PICK n : n = Cardinality(ToSet(names))
  OBVIOUS
<1>7. 2 \in Nat /\ IsFiniteSet(ToSet(names))
  BY ListIsFinite
<1>8. /\ IsList(list) /\ DOMAIN list = 1 .. n /\ Distinct(list) /\ ToSet(list) = ToSet(names)
      /\ \A i, j \in 1 .. n : i < j => Precedes(key[list[i]], key[list[j]])
  BY <1>3, <1>4, <1>5, <1>6, <1>7, SortedList
<1>9. ASSUME NEW i \in 1 .. n, NEW j \in 1 .. n, Turn(p, names, list[i]) = 0,
             Turn(p, names, list[j]) > 0
      PROVE  i < j
  <2>1. list[i] \in ToSet(names) /\ list[j] \in ToSet(names)
    BY <1>8 DEF ToSet
  <2>2. PICK x, y : x = key[list[i]] /\ y = key[list[j]]
    OBVIOUS
  <2>3. x \in Key(2) /\ y \in Key(2) /\ x[1] = 0 /\ y[1] > 0
    BY <1>3, <1>9, <2>1, <2>2
  <2>4. ~Precedes(y, x)
    <3> SUFFICES ASSUME NEW m \in DOMAIN y, y[m] < x[m], \A l \in 1 .. m - 1 : y[l] = x[l] PROVE FALSE
      BY DEF Precedes
    <3>1. m \in 1 .. 2 /\ x[1] \in Int /\ y[1] \in Int
      BY <2>3 DEF Key
    <3>2. CASE m = 1
      BY <2>3, <3>1, <3>2
    <3>3. CASE m = 2
      <4>1. 1 \in 1 .. m - 1
        BY <3>3
      <4> QED BY <2>3, <3>1, <4>1
    <3> QED BY <3>1, <3>2, <3>3
  <2>5. ~(j < i) /\ i # j
    BY <1>8, <1>9, <2>2, <2>4
  <2>6. i \in Int /\ j \in Int
    OBVIOUS
  <2> QED BY <2>5, <2>6
<1>10. ASSUME NEW i \in 1 .. n, NEW j \in 1 .. n, i # j, Group(p, list[i]) = Group(p, list[j]),
              NEW g \in Groups(p, names)
       PROVE  \E u \in 1 .. n : Group(p, list[u]) = g /\ (u < i \/ u < j)
  <2>1. list[i] # list[j] /\ list[i] \in ToSet(names) /\ list[j] \in ToSet(names)
    BY <1>8, <1>10 DEF Distinct, ToSet
  <2>2. Turn(p, names, list[i]) # Turn(p, names, list[j])
    BY <1>10, <2>1, TurnsDiffer
  <2>3. Turn(p, names, list[i]) > 0 \/ Turn(p, names, list[j]) > 0
    BY <1>2, <2>1, <2>2
  <2>4. PICK t \in ToSet(names) : g = Group(p, t)
    BY DEF Groups
  <2>5. PICK v \in Fellows(p, names, t) : Turn(p, names, v) = 0
    BY FirstOfGroup
  <2>6. v \in ToSet(names) /\ Group(p, v) = g
    BY <2>4, <2>5 DEF Fellows
  <2>7. PICK u \in 1 .. n : list[u] = v
    BY <1>8, <2>6 DEF ToSet
  <2> QED BY <1>9, <2>3, <2>5, <2>6, <2>7
<1> QED BY <1>1, <1>5, <1>8, <1>10

(* With one name to keep the loop runs at most once.                       *)
KeptFirst(c, i, out) ==
  (i = 0 => out = c.chosen) /\ (i = 1 => out = KeepOne(c, c.chosen, c.first))
KeepingFirst == INSTANCE FoldInduction WITH Op <- KeepOne, Good <- KeptFirst

(* So the name is put in once, when it is listed and not there.            *)
LEMMA KeepsTheOne ==
  ASSUME NEW chosen, NEW order, IsList(order), Distinct(order), NEW limit, NEW x
  PROVE  KeepAlways(chosen, order, limit, {x}) =
           IF x \in ToSet(order) \ ToSet(chosen)
           THEN KeepOne([limit |-> limit, keep |-> {x}, chosen |-> chosen, first |-> x], chosen, x)
           ELSE chosen
<1>1. PICK seq : seq = Filtered(order, {x} \ ToSet(chosen))
  OBVIOUS
<1>2. PICK c : c = [limit |-> limit, keep |-> {x}, chosen |-> chosen, first |-> x]
  OBVIOUS
<1>3. KeepAlways(chosen, order, limit, {x}) = KeepingFirst!Result(c, chosen, seq)
  BY <1>1, <1>2 DEF KeepAlways, KeepOne, FoldLeft, MapThenFoldSet, Max, KeepingFirst!Result,
              KeepingFirst!MapThenFoldSet, KeepingFirst!Largest
<1>4. IsList(seq) /\ ToSet(seq) = ToSet(order) \cap ({x} \ ToSet(chosen)) /\ Distinct(seq)
  BY <1>1, FilteredList
<1>5. PICK n \in Nat : DOMAIN seq = 1 .. n
  BY <1>4, ListDomain
<1>6. \A i \in 1 .. n : seq[i] = x /\ x \in ToSet(order) \ ToSet(chosen)
  <2>1. \A i \in 1 .. n : seq[i] \in ToSet(seq)
    BY <1>5 DEF ToSet
  <2> QED BY <1>4, <2>1
<1>7. n = IF x \in ToSet(order) \ ToSet(chosen) THEN 1 ELSE 0
  <2>1. ~(n > 1)
    <3> SUFFICES ASSUME n > 1 PROVE FALSE
      OBVIOUS
    <3>1. 1 \in 1 .. n /\ 2 \in 1 .. n
      OBVIOUS
    <3>2. seq[1] = seq[2]
      BY <1>6, <3>1
    <3>3. 1 = 2
      BY <1>4, <1>5, <3>1, <3>2 DEF Distinct
    <3> QED BY <3>3
  <2>2. n = 0 => ToSet(seq) = {}
    BY <1>5 DEF ToSet
  <2>3. n = 1 => 1 \in 1 .. n
    OBVIOUS
  <2>4. n = 0 \/ n = 1
    BY <2>1
  <2> QED BY <1>4, <1>6, <2>2, <2>3, <2>4
<1>8. ASSUME NEW i \in 1 .. n, NEW out, KeptFirst(c, i - 1, out)
      PROVE  KeptFirst(c, i, KeepOne(c, out, seq[i]))
  <2>1. i = 1 /\ i - 1 = 0
    BY <1>7
  <2>2. out = chosen /\ seq[i] = x
    BY <1>2, <1>6, <1>8, <2>1 DEF KeptFirst
  <2> QED BY <1>2, <2>1, <2>2 DEF KeptFirst
<1>9. KeptFirst(c, 0, chosen)
  BY <1>2 DEF KeptFirst
<1>10. KeptFirst(c, n, KeepingFirst!Result(c, chosen, seq))
  BY <1>5, <1>8, <1>9, KeepingFirst!FoldInduction
<1> QED BY <1>2, <1>3, <1>7, <1>10 DEF KeptFirst

(* The targets by the priority of their action.                            *)
LEMMA RankedTargetsList ==
  ASSUME NEW p, IsCase(p), NEW k, IsRanking(k.ranking)
  PROVE  /\ IsList(RankedTargets(p, k)) /\ Distinct(RankedTargets(p, k))
         /\ ToSet(RankedTargets(p, k)) = ToSet(p.names)
<1> DEFINE key == [t \in ToSet(p.names) |-> <<-ActionRank(p, k, t), Place(p.names, t)>>]
<1>1. IsList(p.names)
  BY CaseHas DEF IsList
<1>2. ASSUME NEW t \in ToSet(p.names) PROVE key[t] \in Key(2) /\ key[t][2] = Place(p.names, t)
  <2>1. ActionRank(p, k, t) \in Int
    <3>1. CASE t \notin DOMAIN p.tool \/ p.tool[t].action = ""
      <4>1. ActionRank(p, k, t) = 0
        BY <3>1, Zenon DEF ActionRank
      <4> QED BY <4>1
    <3>2. CASE ~(t \notin DOMAIN p.tool \/ p.tool[t].action = "")
      <4>1. ActionRank(p, k, t) = k.ranking[p.tool[t].action]
        BY <3>2, Zenon DEF ActionRank
      <4>2. p.tool[t].action \in ActionNames
        BY <3>2, CaseHas, Zenon DEF IsDescription
      <4>3. p.tool[t].action \in DOMAIN NoRanking
        BY <3>2, <4>2, Zenon DEF ActionNames
      <4> QED BY <4>1, <4>3, Zenon DEF IsRanking
    <3> QED BY <3>1, <3>2
  <2>2. Place(p.names, t) \in Int
    BY <1>1, PlaceOf
  <2> QED BY <2>1, <2>2 DEF Key
<1> HIDE DEF key
<1>3. \A t, u \in ToSet(p.names) : key[t] = key[u] => t = u
  BY <1>1, <1>2, PlaceOf
<1>4. 2 \in Nat /\ IsFiniteSet(ToSet(p.names))
  BY <1>1, ListIsFinite
<1>5. RankedTargets(p, k) = Sorted(ToSet(p.names), key)
  BY DEF RankedTargets, key
<1>6. PICK list : list = Sorted(ToSet(p.names), key)
  OBVIOUS
<1>7. IsList(list) /\ Distinct(list) /\ ToSet(list) = ToSet(p.names)
  BY <1>2, <1>3, <1>4, <1>6, SortedList
<1> QED BY <1>5, <1>6, <1>7

(* With one name to keep, a bounded surface is the start of the line, with *)
(* at most that name besides.                                              *)
LEMMA StartIsKept ==
  ASSUME NEW lined, IsList(lined), Distinct(lined), NEW capped, IsList(capped), Distinct(capped),
         ToSet(lined) = ToSet(capped), NEW limit \in Nat, limit > 0, NEW x
  PROVE  LET out == KeepAlways(SubSeq(lined, 1, Min({limit, Len(lined)})), capped, limit, {x}) IN
         /\ Len(out) <= limit /\ ToSet(out) \subseteq ToSet(capped)
         /\ x \in ToSet(capped) => x \in ToSet(out)
         /\ \E m \in Nat : /\ \A t \in ToSet(out) \ {x} : \E i \in 1 .. m : lined[i] = t
                           /\ m <= Len(lined) /\ \A i \in 1 .. m : lined[i] \in ToSet(out)
<1>1. PICK l \in Nat : Len(lined) = l /\ DOMAIN lined = 1 .. l
  BY ListDomain
<1>2. PICK m \in Nat : m = Min({limit, l}) /\ m <= limit /\ m <= l /\ (m = limit \/ m = l)
  BY DEF Min
<1>3. PICK chosen : chosen = SubSeq(lined, 1, m)
  OBVIOUS
<1>4. /\ IsList(chosen) /\ Len(chosen) = m /\ DOMAIN chosen = 1 .. m
      /\ \A i \in 1 .. m : chosen[i] = lined[i]
  BY <1>1, <1>2, <1>3, StartOf
<1>5. ToSet(chosen) = {lined[i] : i \in 1 .. m}
  BY <1>4 DEF ToSet
<1>6. \A i \in 1 .. m : lined[i] \in ToSet(capped)
  <2>1. \A i \in 1 .. l : lined[i] \in ToSet(lined)
    BY <1>1 DEF ToSet
  <2>2. \A i \in 1 .. m : i \in 1 .. l
    BY <1>2
  <2> QED BY <2>1, <2>2
<1>7. PICK out : out = KeepAlways(chosen, capped, limit, {x})
  OBVIOUS
<1> SUFFICES /\ Len(out) <= limit /\ ToSet(out) \subseteq ToSet(capped)
             /\ x \in ToSet(capped) => x \in ToSet(out)
             /\ \E n \in Nat : /\ \A t \in ToSet(out) \ {x} : \E i \in 1 .. n : lined[i] = t
                               /\ n <= l /\ \A i \in 1 .. n : lined[i] \in ToSet(out)
  BY <1>1, <1>2, <1>3, <1>7
<1>8. CASE x \in ToSet(capped) \ ToSet(chosen)
  <2>1. PICK c : c = [limit |-> limit, keep |-> {x}, chosen |-> chosen, first |-> x]
    OBVIOUS
  <2>2. out = KeepOne(c, chosen, x)
    BY <1>7, <1>8, <2>1, KeepsTheOne
  <2>3. m # l
    <3>1. m = l => ToSet(chosen) = ToSet(lined)
      BY <1>1, <1>5 DEF ToSet
    <3> QED BY <1>8, <3>1
  <2>4. m = limit /\ m \in 1 .. m
    BY <1>2, <2>3
  <2>5. {i \in DOMAIN chosen : chosen[i] \notin c.keep} = 1 .. m
    <3>1. \A i \in 1 .. m : chosen[i] # x
      BY <1>4, <1>5, <1>8
    <3> QED BY <1>4, <2>1, <3>1
  <2>6. Max(1 .. m) = m
    BY <2>4 DEF Max
  <2>7. out = [chosen EXCEPT ![m] = x]
    <3>1. c.limit = limit /\ c.keep = {x}
      BY <2>1
    <3>2. ~(Len(chosen) < c.limit) /\ {i \in DOMAIN chosen : chosen[i] \notin c.keep} # {}
      BY <1>4, <2>4, <2>5, <3>1
    <3> QED BY <2>2, <2>5, <2>6, <3>2 DEF KeepOne
  <2>8. PICK changed : changed = [chosen EXCEPT ![m] = x]
    OBVIOUS
  <2>9. chosen \in Seq(ToSet(capped))
    BY <1>4, <1>5, <1>6 DEF IsList
  <2>10. x \in ToSet(capped)
    BY <1>8
  <2>11. /\ changed \in Seq(ToSet(capped)) /\ Len(changed) = m /\ DOMAIN changed = 1 .. m
         /\ changed[m] = x /\ \A i \in 1 .. m - 1 : changed[i] = lined[i]
    BY <1>4, <2>4, <2>8, <2>9, <2>10
  <2>12. ToSet(changed) \subseteq ToSet(capped) /\ \A i \in 1 .. m : changed[i] \in ToSet(changed)
    BY <2>11 DEF ToSet
  <2>13. \A t \in ToSet(changed) \ {x} : \E i \in 1 .. m - 1 : lined[i] = t
    <3> TAKE t \in ToSet(changed) \ {x}
    <3>1. PICK i \in 1 .. m : changed[i] = t
      BY <2>11 DEF ToSet
    <3>2. i \in 1 .. m - 1
      BY <2>11, <3>1
    <3> QED BY <2>11, <3>1, <3>2
  <2>14. x \in ToSet(changed)
    BY <2>4, <2>11, <2>12
  <2>15. \A i \in 1 .. m - 1 : lined[i] \in ToSet(changed)
    <3> TAKE i \in 1 .. m - 1
    <3>1. i \in 1 .. m
      OBVIOUS
    <3> QED BY <2>11, <2>12, <3>1
  <2>16. m - 1 \in Nat /\ m - 1 <= l
    BY <1>2, <2>4
  <2> QED BY <1>2, <2>7, <2>8, <2>11, <2>12, <2>13, <2>14, <2>15, <2>16
<1>9. CASE x \notin ToSet(capped) \ ToSet(chosen)
  <2>1. out = chosen
    BY <1>7, <1>9, KeepsTheOne
  <2> QED BY <1>2, <1>4, <1>5, <1>6, <1>9, <2>1
<1> QED BY <1>8, <1>9

(* What the surface around a seed promises.                                *)
Fair(p, k, x, out) ==
  /\ k.limit # NoCap => Len(out) <= k.limit
  /\ x \in ToSet(p.names) => x \in ToSet(out)
  /\ k.diverse /\ Groups(p, p.names) # Groups(p, out) =>
       \A g \in Groups(p, out) :
         Cardinality({t \in ToSet(out) : Group(p, t) = g} \ {x}) <= 1

(* The surface around one seed keeps its promise.                          *)
LEMMA SurfaceFair ==
  ASSUME NEW p, IsCase(p), NEW k, k.cap \in Nat, k.limit \in Nat, IsRanking(k.ranking),
         NEW x, k.seed = <<x>>
  PROVE  Fair(p, k, x, Surface(p, k))
<1>1. PICK names : names = RankedTargets(p, k)
  OBVIOUS
<1>2. IsList(names) /\ Distinct(names) /\ ToSet(names) = ToSet(p.names)
  BY <1>1, RankedTargetsList
<1>3. PICK capped : capped = Capped(p, k, names)
  OBVIOUS
<1>4. /\ IsList(capped) /\ Distinct(capped) /\ ToSet(capped) \subseteq ToSet(names)
      /\ \A y \in ToSet(names) : Holds(k.seed, y) => y \in ToSet(capped)
      /\ Groups(p, capped) = Groups(p, names)
  BY <1>2, <1>3, CappedCovers
<1>5. Holds(k.seed, x) /\ ToSet(k.seed) = {x}
  BY DEF Holds, ToSet
<1>6. Groups(p, capped) = Groups(p, p.names) /\ (x \in ToSet(p.names) => x \in ToSet(capped))
  BY <1>2, <1>4, <1>5 DEF Groups
<1>7. CASE k.limit = NoCap
  <2>1. Surface(p, k) = capped
    BY <1>1, <1>3, <1>7 DEF Surface
  <2> QED BY <1>6, <1>7, <2>1 DEF Fair
<1>8. CASE k.limit # NoCap
  <2>1. k.limit > 0
    BY <1>8 DEF NoCap
  <2>2. PICK lined : lined = Lined(p, k, capped)
    OBVIOUS
  <2>3. IsList(lined) /\ Distinct(lined) /\ ToSet(lined) = ToSet(capped)
    BY <1>4, <2>2, RoundsAreFair DEF Lined
  <2>4. PICK out : out = KeepAlways(SubSeq(lined, 1, Min({k.limit, Len(lined)})), capped, k.limit, {x})
    OBVIOUS
  <2>5. Surface(p, k) = out
    BY <1>1, <1>3, <1>5, <1>8, <2>2, <2>4 DEF Surface
  <2>6. /\ Len(out) <= k.limit /\ ToSet(out) \subseteq ToSet(capped)
        /\ x \in ToSet(capped) => x \in ToSet(out)
        /\ \E m \in Nat : /\ \A t \in ToSet(out) \ {x} : \E i \in 1 .. m : lined[i] = t
                          /\ m <= Len(lined) /\ \A i \in 1 .. m : lined[i] \in ToSet(out)
    <3>1. PICK limit \in Nat : limit = k.limit /\ limit > 0
      BY <2>1
    <3> QED BY <1>4, <2>3, <2>4, <3>1, StartIsKept
  <2>7. ASSUME k.diverse, Groups(p, p.names) # Groups(p, out), NEW g \in Groups(p, out)
        PROVE  Cardinality({t \in ToSet(out) : Group(p, t) = g} \ {x}) <= 1
    <3>1. PICK m \in Nat : /\ \A t \in ToSet(out) \ {x} : \E i \in 1 .. m : lined[i] = t
                           /\ m <= Len(lined) /\ \A i \in 1 .. m : lined[i] \in ToSet(out)
      BY <2>6
    <3>2. \A i \in 1 .. m : i \in DOMAIN lined
      <4>1. Len(lined) \in Nat /\ DOMAIN lined = 1 .. Len(lined)
        BY <2>3, ListDomain
      <4> QED BY <3>1, <4>1
    <3>3. lined = Rounds(p, capped)
      BY <2>2, <2>7 DEF Lined
    <3>4. \A i, j \in DOMAIN lined :
            i # j /\ Group(p, lined[i]) = Group(p, lined[j]) =>
              \A h \in Groups(p, capped) : \E u \in DOMAIN lined :
                Group(p, lined[u]) = h /\ (u < i \/ u < j)
      BY <1>4, <3>3, RoundsAreFair
    <3>5. ASSUME NEW t \in ToSet(out) \ {x}, NEW u \in ToSet(out) \ {x}, t # u,
                 Group(p, t) = Group(p, u)
          PROVE  FALSE
      <4>1. PICK i \in 1 .. m, j \in 1 .. m : lined[i] = t /\ lined[j] = u
        BY <3>1
      <4>2. i # j /\ i \in DOMAIN lined /\ j \in DOMAIN lined
        BY <3>2, <3>5, <4>1
      <4>3. ASSUME NEW h \in Groups(p, capped) PROVE h \in Groups(p, out)
        <5>1. PICK w \in DOMAIN lined : Group(p, lined[w]) = h /\ (w < i \/ w < j)
          BY <3>4, <3>5, <4>1, <4>2
        <5>2. w \in 1 .. m
          <6>1. Len(lined) \in Nat /\ DOMAIN lined = 1 .. Len(lined)
            BY <2>3, ListDomain
          <6> QED BY <5>1, <6>1
        <5> QED BY <3>1, <5>1, <5>2 DEF Groups
      <4>4. Groups(p, out) \subseteq Groups(p, capped)
        BY <2>6 DEF Groups
      <4> QED BY <1>6, <2>7, <4>3, <4>4
    <3>6. PICK S : S = {t \in ToSet(out) : Group(p, t) = g} \ {x}
      OBVIOUS
    <3>7. \A t, u \in S : t = u
      BY <3>5, <3>6
    <3>8. Cardinality(S) <= 1
      BY <3>7, AtMostOne
    <3> QED BY <3>6, <3>8
  <2> QED BY <1>6, <1>8, <2>5, <2>6, <2>7 DEF Fair
<1> QED BY <1>7, <1>8

(* A tool is fed by some tools when a required row of it that others yield *)
(* is yielded by one of them.                                              *)
RowFed(q, t, c, S) == Needed(c) /\ Producers(q, t, c) # {} => Producers(q, t, c) \cap S # {}
Fed(q, t, S) == t \in q.tools => \A c \in ToSet(q.consumes[t]) : RowFed(q, t, c, S)

ProducersFor(c, out, row) == out \o BestProducers(c.r, c.k, c.t, row, c.seen \cup ToSet(out))
Feeding(c, i, out) ==
  /\ IsList(out) /\ ToSet(out) \subseteq c.r.tools \ c.seen
  /\ \A j \in 1 .. i : RowFed(c.r, c.t, c.seq[j], c.seen \cup ToSet(out))
Producing == INSTANCE FoldInduction WITH Op <- ProducersFor, Good <- Feeding

(* Producers are tools of the catalog.                                     *)
LEMMA ProducersAreTools ==
  ASSUME NEW q, NEW t, NEW c
  PROVE  Producers(q, t, c) \subseteq q.tools
BY Zenon DEF Producers

(* The best of some tools by priority are a list of them, with one at      *)
(* least when there are any.                                               *)
LEMMA BestOfPool ==
  ASSUME NEW q, IsFiniteSet(q.tools), NEW k, IsOffer(k, q.tools), k.width > 0,
         NEW row, NEW pool, pool \subseteq q.tools
  PROVE  /\ IsList(FromPool(q, k, row, pool)) /\ ToSet(FromPool(q, k, row, pool)) \subseteq pool
         /\ pool # {} => ToSet(FromPool(q, k, row, pool)) # {}
<1> DEFINE key == [u \in pool |-> <<-k.worth[u], Bit(~Indexed(q, u, row.tag)), Place(k.order, u)>>]
<1>1. IsList(k.order) /\ q.tools \subseteq ToSet(k.order) /\ \A u \in q.tools : k.worth[u] \in Int
  BY Zenon DEF IsOffer
<1>2. PICK width \in Nat : width = k.width /\ width > 0
  <2>1. k.width \in Nat
    BY Zenon DEF IsOffer
  <2> QED BY <2>1
<1>3. \A u \in pool : Place(k.order, u) \in Nat
  BY <1>1, PlaceOf
<1>4. \A u \in pool : key[u] \in Key(3) /\ key[u][3] = Place(k.order, u)
  BY <1>1, <1>3, BitIsInt DEF Key
<1> HIDE DEF key
<1>5. \A u, v \in pool : key[u] = key[v] => u = v
  <2> TAKE u, v \in pool
  <2> HAVE key[u] = key[v]
  <2>1. Place(k.order, u) = Place(k.order, v)
    BY <1>4
  <2> QED BY <1>1, <2>1, PlaceOf
<1>6. IsFiniteSet(pool) /\ 3 \in Nat
  BY FS_Subset
<1>7. PICK best : best = Sorted(pool, key)
  OBVIOUS
<1>8. IsList(best) /\ ToSet(best) = pool
  BY <1>4, <1>5, <1>6, <1>7, SortedList
<1>9. PICK l \in Nat : Len(best) = l /\ DOMAIN best = 1 .. l
  BY <1>8, ListDomain
<1>10. PICK m \in Nat : m = Min({width, l}) /\ m <= l /\ (m = 0 => l = 0)
  BY <1>2 DEF Min
<1>11. PICK start : start = SubSeq(best, 1, m)
  OBVIOUS
<1>12. IsList(start) /\ DOMAIN start = 1 .. m /\ \A i \in 1 .. m : start[i] = best[i]
  BY <1>8, <1>9, <1>10, <1>11, StartOf
<1>13. ToSet(start) \subseteq pool
  <2>1. \A i \in 1 .. l : best[i] \in pool
    BY <1>8, <1>9 DEF ToSet
  <2>2. \A i \in 1 .. m : i \in 1 .. l
    BY <1>10
  <2>3. \A i \in 1 .. m : start[i] \in pool
    BY <1>12, <2>1, <2>2
  <2> QED BY <1>12, <2>3 DEF ToSet
<1>14. pool # {} => ToSet(start) # {}
  <2> HAVE pool # {}
  <2>1. l # 0
    BY <1>8, <1>9 DEF ToSet
  <2>2. 1 \in 1 .. m
    BY <1>10, <2>1
  <2> QED BY <1>12, <2>2 DEF ToSet
<1> QED BY <1>2, <1>7, <1>9, <1>10, <1>11, <1>12, <1>13, <1>14 DEF key, FromPool

(* What a tool brings in: tools that are not there yet, and with what is   *)
(* there they feed it.                                                     *)
LEMMA NewProducersFeed ==
  ASSUME NEW q, IsFiniteSet(q.tools), NEW k, IsOffer(k, q.tools), k.width > 0,
         NEW t, IsList(q.consumes[t]), NEW seen
  PROVE  /\ IsList(NewProducers(q, k, t, seen))
         /\ ToSet(NewProducers(q, k, t, seen)) \subseteq q.tools \ seen
         /\ Fed(q, t, seen \cup ToSet(NewProducers(q, k, t, seen)))
<1>1. PICK rows : rows = q.consumes[t]
  OBVIOUS
<1>2. PICK c : c = [r |-> q, k |-> k, t |-> t, seen |-> seen, seq |-> rows]
  OBVIOUS
<1>3. NewProducers(q, k, t, seen) = Producing!Result(c, <<>>, rows)
  BY <1>1, <1>2 DEF NewProducers, ProducersFor, FoldLeft, MapThenFoldSet, Max, Producing!Result,
              Producing!MapThenFoldSet, Producing!Largest
<1>4. PICK n \in Nat : DOMAIN rows = 1 .. n
  BY <1>1, ListDomain
<1>5. ASSUME NEW i \in 1 .. n, NEW out, Feeding(c, i - 1, out)
      PROVE  Feeding(c, i, ProducersFor(c, out, rows[i]))
  <2>1. PICK row : row = rows[i]
    OBVIOUS
  <2>2. PICK all : all = Producers(q, t, row)
    OBVIOUS
  <2>3. PICK pool : pool = IF Needed(row) THEN all \ (seen \cup ToSet(out)) ELSE {}
    OBVIOUS
  <2>4. pool \subseteq q.tools /\ pool \cap seen = {}
    BY <2>2, <2>3, ProducersAreTools
  <2>5. PICK start : start = FromPool(q, k, row, pool)
    OBVIOUS
  <2>6. ProducersFor(c, out, row) = out \o start
    BY <1>2, <2>2, <2>3, <2>5 DEF ProducersFor, BestProducers
  <2>8. IsList(start) /\ ToSet(start) \subseteq pool /\ (pool # {} => ToSet(start) # {})
    BY <2>4, <2>5, BestOfPool
  <2>9. IsList(out) /\ ToSet(out) \subseteq q.tools \ seen
    BY <1>2, <1>5 DEF Feeding
  <2>10. PICK new : new = out \o start
    OBVIOUS
  <2>11. IsList(new) /\ ToSet(new) = ToSet(out) \cup ToSet(start)
    BY <2>8, <2>9, <2>10, Joined
  <2>12. ToSet(new) \subseteq q.tools \ seen
    BY <2>4, <2>8, <2>9, <2>11
  <2>13. RowFed(q, t, row, seen \cup ToSet(new))
    <3>1. Needed(row) /\ all # {} => all \cap (seen \cup ToSet(new)) # {}
      BY <2>3, <2>8, <2>11
    <3> QED BY <2>2, <3>1 DEF RowFed
  <2>14. \A j \in 1 .. i - 1 : RowFed(q, t, rows[j], seen \cup ToSet(new))
    <3> TAKE j \in 1 .. i - 1
    <3>1. RowFed(q, t, rows[j], seen \cup ToSet(out))
      BY <1>2, <1>5 DEF Feeding
    <3> QED BY <2>11, <3>1 DEF RowFed
  <2>15. \A j \in 1 .. i : RowFed(q, t, rows[j], seen \cup ToSet(new))
    <3>1. \A j \in 1 .. i : j \in 1 .. i - 1 \/ j = i
      OBVIOUS
    <3> QED BY <2>1, <2>13, <2>14, <3>1
  <2> QED BY <1>2, <2>1, <2>6, <2>10, <2>11, <2>12, <2>15 DEF Feeding
<1>6. Feeding(c, 0, <<>>)
  <2>1. IsList(<<>>) /\ ToSet(<<>>) = {}
    BY DEF IsList, ToSet
  <2> QED BY <2>1 DEF Feeding
<1>7. Feeding(c, n, NewProducers(q, k, t, seen))
  BY <1>3, <1>4, <1>5, <1>6, Producing!FoldInduction
<1>8. PICK out : out = NewProducers(q, k, t, seen)
  OBVIOUS
<1>9. IsList(out) /\ ToSet(out) \subseteq q.tools \ seen
  BY <1>2, <1>7, <1>8 DEF Feeding
<1>10. \A row \in ToSet(rows) : RowFed(q, t, row, seen \cup ToSet(out))
  <2> TAKE row \in ToSet(rows)
  <2>1. PICK j \in 1 .. n : rows[j] = row
    BY <1>4 DEF ToSet
  <2> QED BY <1>2, <1>7, <1>8, <2>1 DEF Feeding
<1> QED BY <1>1, <1>8, <1>9, <1>10 DEF Fed

(* A hop passes over its frontier: the names grow from those of the hop    *)
(* before, by tools that are new, and what was passed is fed.              *)
GrowOne(c, names, t) ==
  names \o (IF t \in c.r.tools THEN NewProducers(c.r, c.k, t, ToSet(names)) ELSE <<>>)
Grown(c, i, names) ==
  /\ IsList(names) /\ ToSet(c.names) \subseteq ToSet(names) /\ ToSet(names) \subseteq c.r.tools
  /\ Len(c.names) <= Len(names) /\ \A j \in 1 .. Len(c.names) : names[j] = c.names[j]
  /\ Len(names) > Len(c.names) => ToSet(names) # ToSet(c.names)
  /\ i = 0 => names = c.names
  /\ \A j \in 1 .. i : Fed(c.r, c.seq[j], ToSet(names))
Growing == INSTANCE FoldInduction WITH Op <- GrowOne, Good <- Grown

(* What the offer is made from: a finite catalog, with rows in lists.      *)
IsCatalog(q) == IsFiniteSet(q.tools) /\ \A t \in q.tools : IsList(q.consumes[t])

(* The names of a hop.                                                     *)
GrownNames(q, k, state) ==
  FoldLeft(LAMBDA names, t : names \o
             (IF t \in q.tools THEN NewProducers(q, k, t, ToSet(names)) ELSE <<>>),
           state.names, state.frontier)

(* What is fed stays fed when more is there.                               *)
LEMMA FedByMore ==
  ASSUME NEW q, NEW t, NEW S, NEW T, S \subseteq T, Fed(q, t, S)
  PROVE  Fed(q, t, T)
BY DEF Fed, RowFed

(* What a hop over the frontier makes of the names.                        *)
LEMMA HopGrows ==
  ASSUME NEW q, IsCatalog(q), NEW k, IsOffer(k, q.tools), k.width > 0,
         NEW state, IsList(state.names), ToSet(state.names) \subseteq q.tools, IsList(state.frontier)
  PROVE  LET grown == GrownNames(q, k, state) IN
         /\ IsList(grown) /\ ToSet(state.names) \subseteq ToSet(grown) /\ ToSet(grown) \subseteq q.tools
         /\ Len(state.names) <= Len(grown)
         /\ \A j \in 1 .. Len(state.names) : grown[j] = state.names[j]
         /\ Len(grown) > Len(state.names) => ToSet(grown) # ToSet(state.names)
         /\ state.frontier = <<>> => grown = state.names
         /\ \A t \in ToSet(state.frontier) : Fed(q, t, ToSet(grown))
<1>1. PICK start, seq : start = state.names /\ seq = state.frontier
  OBVIOUS
<1>2. PICK c : c = [r |-> q, k |-> k, names |-> start, seq |-> seq]
  OBVIOUS
<1>3. GrownNames(q, k, state) = Growing!Result(c, start, seq)
  BY <1>1, <1>2 DEF GrownNames, GrowOne, FoldLeft, MapThenFoldSet, Max, Growing!Result,
              Growing!MapThenFoldSet, Growing!Largest
<1>4. PICK n \in Nat : DOMAIN seq = 1 .. n
  BY <1>1, ListDomain
<1>5. PICK l \in Nat : Len(start) = l
  BY <1>1, ListDomain
<1>6. ASSUME NEW i \in 1 .. n, NEW names, Grown(c, i - 1, names)
      PROVE  Grown(c, i, GrowOne(c, names, seq[i]))
  <2>1. PICK t : t = seq[i]
    OBVIOUS
  <2>2. PICK more : more = IF t \in q.tools THEN NewProducers(q, k, t, ToSet(names)) ELSE <<>>
    OBVIOUS
  <2>3. /\ IsList(more) /\ ToSet(more) \subseteq q.tools \ ToSet(names)
        /\ Fed(q, t, ToSet(names) \cup ToSet(more))
    <3>1. CASE t \in q.tools
      BY <2>2, <3>1, NewProducersFeed DEF IsCatalog
    <3>2. CASE t \notin q.tools
      <4>1. IsList(<<>>) /\ ToSet(<<>>) = {}
        BY DEF IsList, ToSet
      <4> QED BY <2>2, <3>2, <4>1 DEF Fed
    <3> QED BY <3>1, <3>2
  <2>4. /\ IsList(names) /\ ToSet(start) \subseteq ToSet(names) /\ ToSet(names) \subseteq q.tools
        /\ l <= Len(names) /\ \A j \in 1 .. l : names[j] = start[j]
        /\ Len(names) > l => ToSet(names) # ToSet(start)
        /\ \A j \in 1 .. i - 1 : Fed(q, seq[j], ToSet(names))
    BY <1>2, <1>5, <1>6 DEF Grown
  <2>5. PICK new : new = names \o more
    OBVIOUS
  <2>6. GrowOne(c, names, seq[i]) = new
    BY <1>2, <2>1, <2>2, <2>5 DEF GrowOne
  <2>7. /\ IsList(new) /\ ToSet(new) = ToSet(names) \cup ToSet(more)
        /\ Len(new) = Len(names) + Len(more) /\ Len(names) \in Nat /\ Len(more) \in Nat
        /\ \A j \in 1 .. Len(names) : new[j] = names[j]
    BY <2>3, <2>4, <2>5, Joined
  <2>8. l <= Len(new) /\ \A j \in 1 .. l : new[j] = start[j]
    <3>1. \A j \in 1 .. l : j \in 1 .. Len(names)
      BY <2>4, <2>7
    <3> QED BY <2>4, <2>7, <3>1
  <2>9. Len(new) > l => ToSet(new) # ToSet(start)
    <3> SUFFICES ASSUME Len(new) > l, ToSet(new) = ToSet(start) PROVE FALSE
      OBVIOUS
    <3>1. ToSet(more) = {}
      BY <2>3, <2>4, <2>7
    <3>2. Len(more) = 0
      <4>1. DOMAIN more = 1 .. Len(more)
        BY <2>3, ListDomain
      <4>2. DOMAIN more = {}
        BY <3>1 DEF ToSet
      <4> QED BY <2>7, <4>1, <4>2
    <3>3. Len(names) > l /\ ToSet(names) = ToSet(new)
      BY <2>7, <3>1, <3>2
    <3> QED BY <2>4, <3>3
  <2>10. \A j \in 1 .. i : Fed(q, seq[j], ToSet(new))
    <3> TAKE j \in 1 .. i
    <3>1. CASE j = i
      BY <2>1, <2>3, <2>7, <3>1
    <3>2. CASE j # i
      <4>1. Fed(q, seq[j], ToSet(names)) /\ ToSet(names) \subseteq ToSet(new)
        BY <2>4, <2>7, <3>2
      <4> QED BY <4>1, FedByMore
    <3> QED BY <3>1, <3>2
  <2>11. ToSet(start) \subseteq ToSet(new) /\ ToSet(new) \subseteq q.tools
    BY <2>3, <2>4, <2>7
  <2>12. c.r = q /\ c.names = start /\ c.seq = seq /\ i # 0
    BY <1>2
  <2>13. Grown(c, i, new)
    BY <1>5, <2>7, <2>8, <2>9, <2>10, <2>11, <2>12 DEF Grown
  <2> QED BY <2>6, <2>13
<1>7. Grown(c, 0, start)
  BY <1>1, <1>2, <1>5 DEF Grown
<1>8. Grown(c, n, GrownNames(q, k, state))
  BY <1>3, <1>4, <1>6, <1>7, Growing!FoldInduction
<1>9. PICK grown : grown = GrownNames(q, k, state)
  OBVIOUS
<1>10. seq = <<>> => n = 0
  BY <1>4
<1>11. \A t \in ToSet(seq) : \E j \in 1 .. n : seq[j] = t
  BY <1>4 DEF ToSet
<1> QED BY <1>1, <1>2, <1>5, <1>8, <1>9, <1>10, <1>11 DEF Grown

-----------------------------------------------------------------------------
(* After n hops every name but those of the frontier is fed, and as long   *)
(* as there is a frontier each hop brought in a tool.                      *)
HopOne(c, state, n) == Hop(c.r, c.k, state)
Crossed(c, n, state) ==
  /\ IsList(state.names) /\ IsList(state.frontier) /\ ToSet(state.names) \subseteq c.r.tools
  /\ \A t \in ToSet(state.names) \ ToSet(state.frontier) : Fed(c.r, t, ToSet(state.names))
  /\ state.frontier = <<>> \/ Cardinality(ToSet(state.names)) >= n + 1
Crossing == INSTANCE FoldInduction WITH Op <- HopOne, Good <- Crossed

(* One hop more.                                                           *)
LEMMA HopCrosses ==
  ASSUME NEW c, IsCatalog(c.r), IsOffer(c.k, c.r.tools), c.k.width > 0, NEW n \in Nat,
         NEW state, Crossed(c, n, state)
  PROVE  Crossed(c, n + 1, Hop(c.r, c.k, state))
<1>1. PICK q, k : q = c.r /\ k = c.k
  OBVIOUS
<1>2. PICK names, frontier : names = state.names /\ frontier = state.frontier
  OBVIOUS
<1>3. /\ IsList(names) /\ IsList(frontier) /\ ToSet(names) \subseteq q.tools
      /\ \A t \in ToSet(names) \ ToSet(frontier) : Fed(q, t, ToSet(names))
      /\ frontier = <<>> \/ Cardinality(ToSet(names)) >= n + 1
  BY <1>1, <1>2 DEF Crossed
<1>4. PICK grown : grown = GrownNames(q, k, state)
  OBVIOUS
<1>5. /\ IsList(grown) /\ ToSet(names) \subseteq ToSet(grown) /\ ToSet(grown) \subseteq q.tools
      /\ Len(names) <= Len(grown) /\ \A j \in 1 .. Len(names) : grown[j] = names[j]
      /\ Len(grown) > Len(names) => ToSet(grown) # ToSet(names)
      /\ frontier = <<>> => grown = names
      /\ \A t \in ToSet(frontier) : Fed(q, t, ToSet(grown))
  BY <1>1, <1>2, <1>3, <1>4, HopGrows
<1>6. PICK l \in Nat, m \in Nat : /\ Len(names) = l /\ DOMAIN names = 1 .. l
                                 /\ Len(grown) = m /\ DOMAIN grown = 1 .. m
  BY <1>3, <1>5, ListDomain
<1>7. PICK rest : rest = SubSeq(grown, l + 1, m)
  OBVIOUS
<1>8. IsList(rest) /\ ToSet(rest) = {grown[i] : i \in l + 1 .. m} /\ (rest = <<>> <=> l = m)
  BY <1>5, <1>6, <1>7, RestOf
<1>9. Hop(q, k, state) = [names |-> grown, frontier |-> rest]
  BY <1>2, <1>4, <1>6, <1>7 DEF Hop, GrownNames
<1>10. ASSUME NEW t \in ToSet(grown) \ ToSet(rest) PROVE Fed(q, t, ToSet(grown))
  <2>1. PICK i \in 1 .. m : grown[i] = t
    BY <1>6 DEF ToSet
  <2>2. i \in 1 .. l
    <3>1. i \notin l + 1 .. m
      BY <1>8, <1>10, <2>1
    <3> QED BY <3>1
  <2>3. t \in ToSet(names)
    BY <1>5, <1>6, <2>1, <2>2 DEF ToSet
  <2>4. CASE t \in ToSet(frontier)
    BY <1>5, <2>4
  <2>5. CASE t \notin ToSet(frontier)
    BY <1>3, <1>5, <2>3, <2>5, FedByMore
  <2> QED BY <2>4, <2>5
<1>11. ASSUME rest # <<>> PROVE Cardinality(ToSet(grown)) >= (n + 1) + 1
  <2>1. m > l
    BY <1>5, <1>6, <1>8, <1>11
  <2>2. ToSet(grown) # ToSet(names)
    BY <1>5, <1>6, <2>1
  <2>3. frontier # <<>>
    BY <1>5, <2>2
  <2>4. IsFiniteSet(ToSet(grown))
    BY <1>5, ListIsFinite
  <2>5. Cardinality(ToSet(names)) <= Cardinality(ToSet(grown))
        /\ (Cardinality(ToSet(grown)) = Cardinality(ToSet(names)) => ToSet(grown) = ToSet(names))
    <3>1. PICK S, T : S = ToSet(names) /\ T = ToSet(grown)
      OBVIOUS
    <3>2. S \in SUBSET T /\ IsFiniteSet(T)
      BY <1>5, <2>4, <3>1
    <3> QED BY <3>1, <3>2, FS_Subset
  <2>6. Cardinality(ToSet(names)) \in Nat /\ Cardinality(ToSet(grown)) \in Nat
    BY <1>3, <1>5, ListIsFinite, FS_CardinalityType
  <2> QED BY <1>3, <2>2, <2>3, <2>5, <2>6
<1>12. PICK new : new = Hop(q, k, state)
  OBVIOUS
<1>13. new.names = grown /\ new.frontier = rest
  BY <1>9, <1>12
<1> QED BY <1>1, <1>5, <1>8, <1>10, <1>11, <1>12, <1>13 DEF Crossed

(* With hops enough to cross the catalog, every tool that is offered is    *)
(* fed by those offered with it.                                           *)
LEMMA ExpandedIsFed ==
  ASSUME NEW q, IsCatalog(q), NEW k, IsOffer(k, q.tools), k.width > 0,
         k.hops >= Cardinality(q.tools) - 1, NEW x \in q.tools, k.seed = <<x>>
  PROVE  \A t \in ToSet(Expanded(q, k)) : Fed(q, t, ToSet(Expanded(q, k)))
<1>1. PICK hops \in Nat : hops = k.hops
  <2>1. k.hops \in Nat
    BY Zenon DEF IsOffer
  <2> QED BY <2>1
<1>2. PICK c : c = [r |-> q, k |-> k]
  OBVIOUS
<1>3. PICK start : start = [names |-> k.seed, frontier |-> k.seed]
  OBVIOUS
<1>4. PICK seq : seq = [n \in 1 .. k.hops |-> n]
  OBVIOUS
<1>5. Hops(q, k) = Crossing!Result(c, start, seq)
  BY <1>2, <1>3, <1>4 DEF Hops, HopOne, FoldLeft, MapThenFoldSet, Max, Crossing!Result,
              Crossing!MapThenFoldSet, Crossing!Largest
<1>6. c.r = q /\ c.k = k
  BY <1>2
<1>7. ASSUME NEW i \in 1 .. hops, NEW state, Crossed(c, i - 1, state)
      PROVE  Crossed(c, i, HopOne(c, state, seq[i]))
  <2>1. i - 1 \in Nat /\ (i - 1) + 1 = i
    OBVIOUS
  <2>2. Crossed(c, (i - 1) + 1, Hop(c.r, c.k, state))
    BY <1>6, <1>7, <2>1, HopCrosses
  <2> QED BY <2>1, <2>2 DEF HopOne
<1>8. Crossed(c, 0, start)
  <2>1. IsList(<<x>>) /\ ToSet(<<x>>) = {x}
    BY DEF IsList, ToSet
  <2>2. Cardinality({x}) = 1
    BY FS_Singleton
  <2>3. start.names = <<x>> /\ start.frontier = <<x>>
    BY <1>3
  <2> QED BY <1>6, <2>1, <2>2, <2>3 DEF Crossed
<1>9. DOMAIN seq = 1 .. hops
  BY <1>1, <1>4
<1>10. Crossed(c, hops, Hops(q, k))
  BY <1>5, <1>7, <1>8, <1>9, Crossing!FoldInduction
<1>11. PICK names, frontier : names = Hops(q, k).names /\ frontier = Hops(q, k).frontier
  OBVIOUS
<1>12. /\ IsList(names) /\ ToSet(names) \subseteq q.tools
       /\ \A t \in ToSet(names) \ ToSet(frontier) : Fed(q, t, ToSet(names))
       /\ frontier = <<>> \/ Cardinality(ToSet(names)) >= hops + 1
  BY <1>6, <1>10, <1>11 DEF Crossed
<1>13. CASE frontier = <<>>
  <2>1. ToSet(frontier) = {}
    BY <1>13 DEF ToSet
  <2> QED BY <1>11, <1>12, <2>1 DEF Expanded
<1>14. CASE Cardinality(ToSet(names)) >= hops + 1
  <2>1. IsFiniteSet(q.tools) /\ Cardinality(q.tools) \in Nat
    BY FS_CardinalityType DEF IsCatalog
  <2>2. PICK S : S = ToSet(names)
    OBVIOUS
  <2>3. /\ Cardinality(S) <= Cardinality(q.tools) /\ Cardinality(S) \in Nat
        /\ Cardinality(q.tools) = Cardinality(S) => q.tools = S
    <3>1. S \in SUBSET q.tools
      BY <1>12, <2>2
    <3>2. IsFiniteSet(S)
      BY <2>1, <3>1, FS_Subset
    <3> QED BY <2>1, <3>1, <3>2, FS_Subset, FS_CardinalityType
  <2>4. q.tools = S
    BY <1>1, <1>14, <2>1, <2>2, <2>3
  <2>5. ASSUME NEW t, NEW row PROVE RowFed(q, t, row, S)
    <3>1. Producers(q, t, row) \subseteq S
      BY <2>4, ProducersAreTools
    <3> QED BY <3>1 DEF RowFed
  <2> QED BY <1>11, <2>2, <2>5 DEF Expanded, Fed
<1> QED BY <1>12, <1>13, <1>14

(* What the seed leaves of an offer.                                       *)
LEMMA SeededFields ==
  ASSUME NEW q, q \in Requests, NEW x
  PROVE  LET k == [q.offer EXCEPT !.seed = <<x>>] IN
         /\ k.seed = <<x>> /\ IsOffer(k, q.tools)
         /\ k.hops = q.offer.hops /\ k.width = q.offer.width
         /\ k.limit = q.offer.limit /\ k.diverse = q.offer.diverse
<1>1. DOMAIN q.offer = OfferFields /\ IsOffer(q.offer, q.tools)
  BY TargetsAssumption
<1>2. PICK o : o = q.offer
  OBVIOUS
<1>3. PICK k : k = [o EXCEPT !.seed = <<x>>]
  OBVIOUS
<1>4. k.seed = <<x>>
  BY <1>1, <1>2, <1>3 DEF OfferFields
<1>5. /\ k.ranking = o.ranking /\ k.cap = o.cap /\ k.limit = o.limit /\ k.diverse = o.diverse
      /\ k.width = o.width /\ k.hops = o.hops /\ k.worth = o.worth /\ k.order = o.order
  BY <1>1, <1>2, <1>3 DEF OfferFields
<1>6. IsOffer(k, q.tools)
  BY <1>1, <1>2, <1>5 DEF IsOffer
<1> QED BY <1>2, <1>3, <1>4, <1>5, <1>6

(* Inductive, on ReadyMeans: a chain that is complete is that of a tool of *)
(* the catalog, and what was offered is what surrounds it.                 *)
Around(closure) == CandidatesAround(r, r.targets, SeededOffer, closure, required, optional)
Offering ==
  /\ status \in {"open", "no_target", "key_error"} \/ target \in r.tools
  /\ offered # NoOffer => /\ status \notin {"open", "no_target", "key_error"}
                          /\ \E closure \in BOOLEAN : offered = Around(closure)

(* It is kept by every step.                                               *)
LEMMA NextOffering ==
  ReadyMeans /\ Offering /\ [Next]_<<allVars, pipelineVars>> => Offering'
<1> SUFFICES ASSUME ReadyMeans, Offering, [Next]_<<allVars, pipelineVars>> PROVE Offering'
  OBVIOUS
<1>1. CASE UNCHANGED <<r, target, required, optional, status, offered>>
  BY <1>1 DEF Offering, Around, SeededOffer
<1>2. CASE status = "open" /\ UNCHANGED offered /\ status' \in {"open", "no_target", "key_error"}
  BY <1>2 DEF Offering
<1>3. CASE SelectTarget
  BY <1>2, <1>3 DEF SelectTarget
<1>4. CASE Assemble /\ UNCHANGED pipelineVars
  <2>1. CASE Visit /\ UNCHANGED bundleVars
    <3>1. r' = r /\ target' = target /\ stack # <<>>
      BY <2>1 DEF Visit, FollowGraph, GraphLeft, FillFromCaller, AskForInput, NeedsProducer,
                  AtRow, ChainProducer, Return
    <3>2. offered = NoOffer
      BY <3>1 DEF Offering, ReadyMeans, Closed
    <3>3. offered' = NoOffer /\ status' = status
      BY <1>4, <2>1, <3>2 DEF bundleVars, pipelineVars
    <3> QED BY <3>1, <3>3 DEF Offering
  <2>2. CASE AdmitSchema
    BY <1>1, <1>4, <2>2 DEF AdmitSchema, pipelineVars, vars, found
  <2>3. CASE Finish
    <3>1. CASE target \in r.tools
      <4>1. status = "open" /\ UNCHANGED <<r, target, offered>>
        BY <1>4, <2>3 DEF Finish, pipelineVars, vars
      <4> QED BY <3>1, <4>1 DEF Offering
    <3>2. CASE target \notin r.tools
      BY <1>2, <1>4, <2>3, <3>2 DEF Finish, pipelineVars
    <3> QED BY <3>1, <3>2
  <2> QED BY <1>4, <2>1, <2>2, <2>3 DEF Assemble
<1>5. CASE OfferCandidates
  <2>1. UNCHANGED <<r, target, required, optional, status>>
    BY <1>5 DEF OfferCandidates, allVars, vars, found, bundleVars
  <2>2. /\ status \notin {"open", "no_target", "key_error"}
        /\ \E closure \in BOOLEAN : offered' = Around(closure)
    BY <1>5 DEF OfferCandidates, Around
  <2>3. PICK closure \in BOOLEAN : offered' = Around(closure)
    BY <2>2
  <2>4. Around(closure)' = Around(closure)
    BY <2>1 DEF Around, SeededOffer
  <2> QED BY <2>1, <2>2, <2>3, <2>4 DEF Offering
<1>6. CASE UNCHANGED <<allVars, pipelineVars>>
  BY <1>1, <1>6 DEF allVars, pipelineVars, vars, found, bundleVars
<1> QED BY <1>3, <1>4, <1>5, <1>6 DEF Next

(* What a list is joined with is listed, and so is what it had.            *)
LEMMA ExtendedCovers ==
  ASSUME NEW names, IsList(names), NEW more, IsList(more)
  PROVE  /\ IsList(Extended(names, more))
         /\ ToSet(Extended(names, more)) = ToSet(names) \cup ToSet(more)
<1>1. PICK f : f = Filtered(more, ToSet(more) \ ToSet(names))
  OBVIOUS
<1>2. f \in Seq(ToSet(more) \ ToSet(names)) /\ ToSet(f) = ToSet(more) \ ToSet(names)
  BY <1>1, FilteredIn, FilteredList DEF IsList
<1>3. IsList(f)
  BY <1>1, FilteredList
<1>4. Extended(names, more) = names \o f
  BY <1>1 DEF Extended
<1>5. PICK b : b = names \o f
  OBVIOUS
<1>6. IsList(b) /\ ToSet(b) = ToSet(names) \cup ToSet(f)
  BY <1>3, <1>5, Joined
<1>7. ToSet(b) = ToSet(names) \cup ToSet(more)
  BY <1>2, <1>6
<1> QED BY <1>4, <1>5, <1>6, <1>7

(* What the closure found is offered whole.                                *)
LEMMA ChainIsListed ==
  ASSUME VisitShape, NEW k, k.seed = <<target>>
  PROVE  Selected \subseteq ToSet(Extended(Extended(k.seed, required), optional))
<1>1. IsList(required) /\ IsList(optional)
  BY DEF VisitShape, IsList, ToSet
<1>2. IsList(k.seed) /\ ToSet(k.seed) = {target}
  BY DEF IsList, ToSet
<1>3. PICK a : a = Extended(k.seed, required)
  OBVIOUS
<1>4. IsList(a) /\ ToSet(a) = {target} \cup ToSet(required)
  BY <1>1, <1>2, <1>3, ExtendedCovers
<1>5. ToSet(Extended(a, optional)) = ToSet(a) \cup ToSet(optional)
  BY <1>1, <1>4, ExtendedCovers
<1> QED BY <1>3, <1>4, <1>5 DEF Selected

(* What was offered around a target is enough, and fair.                   *)
LEMMA OfferFollows ==
  VisitShape /\ RowsDealt /\ ReadyMeans /\ Offering => OfferIsSound
<1> SUFFICES ASSUME VisitShape, RowsDealt, ReadyMeans, Offering PROVE OfferIsSound
  OBVIOUS
<1>0. CASE offered = NoOffer
  BY <1>0 DEF OfferIsSound, OfferIsClosed, OfferHasProducers, OfferHasChain, SurfaceIsFair, NoOffer
<1> SUFFICES ASSUME offered # NoOffer PROVE OfferIsSound
  BY <1>0
<1>1. PICK p, k : p = r.targets /\ k = SeededOffer
  OBVIOUS
<1>2. r \in Requests /\ target \in r.tools /\ stack = <<>>
  BY DEF VisitShape, Offering, ReadyMeans, Closed
<1>3. /\ k.seed = <<target>> /\ IsOffer(k, r.tools)
      /\ k.hops = r.offer.hops /\ k.width = r.offer.width
      /\ k.limit = r.offer.limit /\ k.diverse = r.offer.diverse
  BY <1>1, <1>2, SeededFields DEF SeededOffer
<1>4. PICK shown : shown = Surface(p, k)
  OBVIOUS
<1>5. PICK closure \in BOOLEAN : offered = CandidatesAround(r, p, k, closure, required, optional)
  BY <1>1 DEF Offering, Around
<1>6. /\ offered.targets = shown
      /\ ~offered.closure => offered.candidates = Expanded(r, k)
      /\ offered.closure => offered.candidates = Extended(Extended(k.seed, required), optional)
  BY <1>3, <1>4, <1>5 DEF CandidatesAround
<1>7. OfferHasProducers
  <2> SUFFICES ASSUME ~offered.closure,
                      r.offer.hops >= Cardinality(r.tools) - 1, r.offer.width > 0
               PROVE  OfferHasProducers
    BY DEF OfferHasProducers
  <2>1. IsCatalog(r)
    BY <1>2, RequestsAssumption DEF IsCatalog, IsRequest, IsList
  <2>2. PICK names : names = Expanded(r, k)
    OBVIOUS
  <2>3. \A u \in ToSet(names) : Fed(r, u, ToSet(names))
    BY <1>2, <1>3, <2>1, <2>2, ExpandedIsFed
  <2>4. offered.candidates = names
    BY <1>6, <2>2
  <2> QED BY <2>3, <2>4 DEF Fed, RowFed, OfferHasProducers
<1>8. OfferHasChain
  <2> SUFFICES ASSUME offered.closure, ~Unclean, NEW t \in Selected,
                      NEW c \in ToSet(r.consumes[t]), RequiredData(c)
               PROVE  \/ KeyOf(c) \in r.available
                      \/ \E s \in slots : s.tool = t /\ s.key = KeyOf(c)
                      \/ \E u \in ToSet(offered.candidates) \ {t} :
                           \E y \in ToSet(r.produces[u]) : Yields(y, c)
    BY RequiredOrderSet DEF OfferHasChain, Unclean
  <2>1. Selected \subseteq ToSet(offered.candidates)
    BY <1>3, <1>6, ChainIsListed
  <2>2. PICK i \in DOMAIN r.consumes[t] : c = r.consumes[t][i]
    BY DEF ToSet
  <2>3. Dealt(t, c)
    BY <1>2, <2>2 DEF RowsDealt, PassedRow
  <2> QED BY <2>1, <2>3 DEF Dealt
<1>9. SurfaceIsFair
  <2>1. k.cap \in Nat /\ k.limit \in Nat /\ IsRanking(k.ranking)
    BY <1>3 DEF IsOffer
  <2>2. IsCase(p)
    BY <1>1, <1>2, TargetsAssumption
  <2>3. Fair(p, k, target, shown)
    BY <1>3, <1>4, <2>1, <2>2, SurfaceFair
  <2> QED BY <1>1, <1>3, <1>6, <2>3 DEF Fair, SurfaceIsFair
<1> QED BY <1>7, <1>8, <1>9 DEF OfferIsSound, OfferIsClosed

(* OfferIsSound: for every catalog and call, what the planner is offered   *)
(* around the target is enough to chain: closed under the producers of its *)
(* required rows when they are looked up and the hops suffice, the whole   *)
(* chain when the closure is asked for; and the surface keeps its limit,   *)
(* the target and, when it is to be diverse, the turns of the groups.      *)
THEOREM OfferIsAlwaysSound == Spec => []OfferIsSound
<1>1. Init => RowsDealt /\ ReadyMeans /\ Offering
  <2> SUFFICES ASSUME Init PROVE RowsDealt /\ ReadyMeans /\ Offering
    OBVIOUS
  <2>1. target = NoTool /\ status = "open" /\ r \in Requests /\ offered = NoOffer
    BY DEF Init, BundleInit, ClosureInit
  <2>2. target \notin r.tools
    BY <2>1, RequestsAssumption DEF IsRequest, NoTool
  <2> QED BY <2>1, <2>2 DEF RowsDealt, ReadyMeans, Offering
<1>2. Spec => [](VisitShape /\ RowsDealt /\ ReadyMeans /\ Offering)
  BY <1>1, AlwaysShape, NextRowsDealt, NextReadyMeans, NextOffering, PTL DEF Spec
<1> QED BY <1>2, OfferFollows, PTL
=============================================================================
