------------------------- MODULE DependencyClosure -------------------------
(***************************************************************************)
(* graphify/dependency_closure.py: complete_target_dependencies, which     *)
(* adds to a selected target the tools that can produce its required       *)
(* inputs.  The recursive visit is a stack of frames, one per tool being   *)
(* visited; a frame counts the graph neighbours and the consumed rows it   *)
(* has dealt with.                                                         *)
(*                                                                         *)
(* A request r is a record of                                              *)
(*   tools               : the catalog                                     *)
(*   consumes, produces  : tool -> sequence of rows                        *)
(*   edges               : sequence of graph edges                         *)
(*   mutating, learned   : tools, pairs <<consumer, producer>>             *)
(*   available, context  : keys the caller has, keys of its context        *)
(*   query, intent       : "none" | "concrete" | "discovery"; its intent   *)
(*   allow, hops, width  : allow_mutation, max_hops, alternatives kept     *)
(* A row is [tag, field, type, kind, required, scope, sources]; "" is no   *)
(* tag, scope says that it is a header, a cookie or an "auth scope".       *)
(* An edge is [from, to, rel, strong, manual, sources, fields]; a name of  *)
(* an adjacency list is a strong manual edge "requires" without sources.   *)
(***************************************************************************)
EXTENDS Orderings

CONSTANTS
  ToolOrder,   \* every name, in the alphabetical order that breaks ties
  Requests     \* the requests to check

(* Catalogs and their rows are finite; "" names no tool.                   *)
IsRequest(q) ==
  /\ IsFiniteSet(q.tools) /\ q.tools \subseteq ToSet(ToolOrder) \ {""}
  /\ q.edges \in Seq(ToSet(q.edges))
  /\ \A t \in q.tools : /\ q.consumes[t] \in Seq(ToSet(q.consumes[t]))
                         /\ q.produces[t] \in Seq(ToSet(q.produces[t]))
  /\ {q.hops, q.width, q.budget} \subseteq Nat

ASSUME RequestsAssumption ==
  ToolOrder \in Seq(ToSet(ToolOrder)) /\ \A q \in Requests : IsRequest(q)

VARIABLES
  r,             \* the request
  target,        \* the tool whose dependencies are completed
  stack,         \* frames [tool, graph, row] of visit, the target's first
  required,      \* required_dependencies, in the order they were entered
  optional,      \* optional_dependencies
  alternatives,  \* rows [tool, field, names] of alternatives_by_field
  resolved,      \* rows [tool, key, producer]; the producer "" is the caller
  unresolved,    \* rows [tool, key, reason]
  slots,         \* rows [tool, key, reason] of user_input_slots
  paths,         \* rows [consumer, producer, key, depth]
  cycles,        \* cycles found, as sequences of tools
  blocked        \* rows [consumer, producer, key] of blocked mutations

found == <<required, optional, alternatives, resolved, unresolved, slots,
           paths, cycles, blocked>>
vars == <<r, target, stack, found>>

NoTool == ""
Caller == ""
GraphKey == "__graph__"

Rank(t) == Place(ToolOrder, t)

Explicit == {"manual", "openapi_link", "proven", "run"}
AutoEvidence == Explicit \cup {"api_contract"}

Selected == {target} \cup ToSet(required)
MutationsAllowed == r.allow /\ (r.query = "none" \/ r.intent \in {"write", "delete"})
(* Mutant of Forbidden: the opt-in alone is enough.                        *)
ForbiddenUnlessOptedIn(t) == t \in r.mutating /\ ~r.allow
Forbidden(t) == t \in r.mutating /\ ~MutationsAllowed

-----------------------------------------------------------------------------
(* Candidates.                                                             *)

(* _graph_edges_for_consumer: what the consumer points at, and what is     *)
(* known to feed it.                                                       *)
Neighbour(consumer, e) ==
  IF e.from = consumer /\ e.rel # "produces_for" THEN e.to
  ELSE IF e.to = consumer /\ (e.rel = "produces_for" \/ e.sources \cap {"run", "proven"} # {}) THEN e.from
  ELSE NoTool

Direct(e) == e.rel \in {"requires", "produces_for"}
ManualLike(e) == e.manual \/ e.sources \cap AutoEvidence # {}
EvidenceOf(e) == IF e.manual /\ e.sources = {} THEN {"manual"} ELSE e.sources
EdgeAuto(e) ==
  Direct(e) /\ (ManualLike(e) \/ (e.rel = "produces_for" /\ e.strong))
EdgeHint(e) ==
  e.rel \in {"complementary", "pairs_well_with", "precedes"} \/ (Direct(e) /\ e.strong)

EdgeTier(e) ==
  IF ~EdgeAuto(e) THEN 4 ELSE IF ManualLike(e) THEN 1 ELSE 2

(* _graph_dependency_candidates, best first.                               *)
GraphCandidates(consumer) ==
  LET usable == {i \in DOMAIN r.edges :
                   /\ Neighbour(consumer, r.edges[i]) \in r.tools \ {consumer}
                   /\ EdgeAuto(r.edges[i]) \/ EdgeHint(r.edges[i])}
      key == [i \in usable |->
                LET t == Neighbour(consumer, r.edges[i]) IN
                <<EdgeTier(r.edges[i]), Bit(t \in r.mutating), Rank(t), i>>]
      order == Sorted(usable, key)
  IN [n \in DOMAIN order |->
        LET e == r.edges[order[n]] IN
        [name |-> Neighbour(consumer, e), auto |-> EdgeAuto(e),
         sources |-> EvidenceOf(e), fields |-> e.fields]]

(* The candidate a name keeps when several edges lead to it: the last.     *)
GraphCandidate(consumer, t) ==
  LET all == GraphCandidates(consumer)
      its == {n \in DOMAIN all : all[n].name = t}
  IN  {all[n] : n \in {n \in its : \A m \in its : m <= n}}

FieldScoped(c) == "api_contract" \in c.sources /\ c.sources \cap Explicit = {}

Same(x, y) == x # "" /\ x = y
Compatible(x, y) == x = y \/ "any" \in {x, y}

Yields(p, c) == (Same(p.tag, c.tag) \/ Same(p.field, c.field)) /\ Compatible(c.type, p.type)
KeyOf(c) == IF c.tag # "" THEN c.tag ELSE c.field
KeysOf(c) == {c.tag, c.field} \ {""}

(* The first product of t that yields the row.                             *)
Product(t, c) ==
  LET fit == {i \in DOMAIN r.produces[t] : Yields(r.produces[t][i], c)}
  IN  r.produces[t][CHOOSE i \in fit : \A j \in fit : i <= j]

Scoped(c, e) == e.auto /\ e.fields \cap KeysOf(c) # {}
Yielders(consumer, c) ==
  {t \in r.tools \ {consumer} : \E i \in DOMAIN r.produces[t] : Yields(r.produces[t][i], c)}

(* What speaks for t as the producer of c; g is what the graph says of it. *)
SourcesOf(c, t, g) ==
  c.sources \cup Product(t, c).sources \cup UNION {e.sources : e \in g[t]}
Tier(c, t, g) ==
  (IF Same(Product(t, c).tag, c.tag) THEN 1 ELSE 2) + Bit(SourcesOf(c, t, g) \cap AutoEvidence = {})

(* The offers in order; once the graph names a producer for this field,    *)
(* only the producers it names are chosen by themselves.                   *)
OffersOf(c, g, order, scoping) ==
  [n \in DOMAIN order |->
     [name |-> order[n], sources |-> SourcesOf(c, order[n], g),
      auto |-> /\ SourcesOf(c, order[n], g) # {"name_based"}
               /\ scoping => \E e \in g[order[n]] : Scoped(c, e)]]

(* Best first: tier, reads before writes, learnt preferences, name.        *)
InTiers(consumer, c, g) ==
  Sorted(Yielders(consumer, c), [t \in Yielders(consumer, c) |->
    <<Tier(c, t, g), Bit(t \in r.mutating), Bit(<<consumer, t>> \notin r.learned), Rank(t)>>])

OffersFrom(consumer, c, g) ==
  OffersOf(c, g, InTiers(consumer, c, g),
           \E t \in r.tools : \E e \in g[t] : "api_contract" \in e.sources /\ Scoped(c, e))

(* _contract_producer_candidates                                           *)
ContractCandidates(consumer, c) ==
  OffersFrom(consumer, c, [t \in r.tools |-> GraphCandidate(consumer, t)])

(* _required_data_consumes: rows of the kinds context and auth are not     *)
(* looked at, so _is_context_input sees no row of the kind context.        *)
RequiredData(c) == c.required /\ c.kind = "data"
ContextInput(c) == c.scope \/ KeysOf(c) \cap r.context # {}

-----------------------------------------------------------------------------
(* visit                                                                   *)

Top == stack[Len(stack)]
Depth == Len(stack) - 1
OnStack == {stack[i].tool : i \in DOMAIN stack}
Advanced(counter) == [stack EXCEPT ![Len(stack)][counter] = @ + 1]
Frame(t) == [tool |-> t, graph |-> 1, row |-> 1]

CycleTo(t) ==
  LET i == CHOOSE i \in DOMAIN stack : stack[i].tool = t
  IN  [n \in 1 .. Len(stack) - i + 2 |->
         IF n = Len(stack) - i + 2 THEN t ELSE stack[i + n - 1].tool]

PathRow(t, key) == [consumer |-> Top.tool, producer |-> t, key |-> key, depth |-> Depth + 1]

(* Mutant of ClosesCycle: only a tool that depends on itself is a cycle.   *)
ClosesCycleHere(t) == t = Top.tool
ClosesCycle(t) == t \in OnStack

(* _admit_candidate: a cycle is recorded, the hop limit makes the field    *)
(* unresolved, and a tool that is not selected yet is entered.             *)
Admit(t, key, counter) ==
  \/ /\ ClosesCycle(t)
     /\ cycles' = cycles \cup {CycleTo(t)}
     /\ stack' = Advanced(counter)
     /\ UNCHANGED <<required, unresolved, paths>>
  \/ /\ ~ClosesCycle(t) /\ Depth >= r.hops
     /\ unresolved' = unresolved \cup {[tool |-> Top.tool, key |-> key, reason |-> "max_depth"]}
     /\ stack' = Advanced(counter)
     /\ UNCHANGED <<required, paths, cycles>>
  \/ /\ ~ClosesCycle(t) /\ Depth < r.hops
     /\ paths' = paths \cup {PathRow(t, key)}
     /\ IF t \in Selected
        THEN required' = required /\ stack' = Advanced(counter)
        ELSE /\ required' = Append(required, t)
             /\ stack' = Append(Advanced(counter), Frame(t))
     /\ UNCHANGED <<unresolved, cycles>>

GraphLeft == stack # <<>> /\ Top.graph <= Len(GraphCandidates(Top.tool))

(* One graph neighbour: field-scoped contract edges are left to the rows,  *)
(* a forbidden mutation is recorded, weak evidence is only a hint.         *)
FollowGraph ==
  /\ GraphLeft
  /\ LET c == GraphCandidates(Top.tool)[Top.graph] IN
     \/ /\ FieldScoped(c)
        /\ stack' = Advanced("graph")
        /\ UNCHANGED found
     \/ /\ ~FieldScoped(c) /\ Forbidden(c.name)
        /\ blocked' = blocked \cup {[consumer |-> Top.tool, producer |-> c.name, key |-> GraphKey]}
        /\ stack' = Advanced("graph")
        /\ UNCHANGED <<required, optional, alternatives, resolved, unresolved, slots, paths, cycles>>
     \/ /\ ~FieldScoped(c) /\ ~Forbidden(c.name) /\ ~c.auto
        /\ optional' = IF c.name \in ToSet(optional) \cup Selected THEN optional
                       ELSE Append(optional, c.name)
        /\ stack' = Advanced("graph")
        /\ UNCHANGED <<required, alternatives, resolved, unresolved, slots, paths, cycles, blocked>>
     \/ /\ ~FieldScoped(c) /\ ~Forbidden(c.name) /\ c.auto
        /\ Admit(c.name, GraphKey, "graph")
        /\ UNCHANGED <<optional, alternatives, resolved, slots, blocked>>
  /\ UNCHANGED <<r, target>>

Row == r.consumes[Top.tool][Top.row]
AtRow == stack # <<>> /\ ~GraphLeft /\ Top.row <= Len(r.consumes[Top.tool])
Report(reason) == [tool |-> Top.tool, key |-> KeyOf(Row), reason |-> reason]

(* A row that needs no producer: not required data, already available, or  *)
(* a context value the user is asked for.                                  *)
FillFromCaller ==
  /\ AtRow
  /\ \/ ~RequiredData(Row) /\ UNCHANGED <<resolved, slots>>
     \/ /\ RequiredData(Row) /\ KeyOf(Row) \in r.available
        /\ resolved' = resolved \cup {[tool |-> Top.tool, key |-> KeyOf(Row), producer |-> Caller]}
        /\ UNCHANGED slots
     \/ /\ RequiredData(Row) /\ KeyOf(Row) \notin r.available /\ ContextInput(Row)
        /\ slots' = slots \cup {Report("context_input_required")}
        /\ UNCHANGED resolved
  /\ stack' = Advanced("row")
  /\ UNCHANGED <<r, target, required, optional, alternatives, unresolved, paths, cycles, blocked>>

NeedsProducer ==
  /\ AtRow /\ RequiredData(Row)
  /\ KeyOf(Row) \notin r.available /\ ~ContextInput(Row)

(* The offers for a row: those that are allowed, and among them those with *)
(* evidence enough to be chosen by themselves; the names in their place    *)
(* of alternatives; what only a forbidden mutation could have given.       *)
Offered(safe, blockedHere) ==
  LET auto == Filtered(safe, {c \in ToSet(safe) : c.auto})
      rest == Filtered(safe, {c \in ToSet(safe) : ~c.auto})
  IN [safe |-> safe, auto |-> auto, blocked |-> blockedHere,
      runnersUp |-> (IF auto = <<>> THEN <<>> ELSE Tail(auto)) \o rest]
Split(offers) ==
  Offered(Filtered(offers, {c \in ToSet(offers) : ~Forbidden(c.name)}),
          {c.name : c \in {c \in ToSet(offers) : Forbidden(c.name) /\ c.auto}})
RowOffers == Split(ContractCandidates(Top.tool, Row))

(* Evidence that lets a query that asks for no discovery chain a producer. *)
Chosen(o) == Filtered(o.auto, {c \in ToSet(o.auto) : c.sources \cap Explicit # {}})
Mutations(o) ==
  Filtered(o.auto, {c \in ToSet(o.auto) : MutationsAllowed /\ c.name \in r.mutating})
NotRequested(o) == r.query = "concrete" /\ Chosen(o) = <<>> /\ Mutations(o) = <<>>
OnlyBlocked(o) == o.blocked # {} /\ o.safe = <<>>

Kept(o) ==
  [i \in 1 .. Min({Len(o.runnersUp), r.width}) |-> o.runnersUp[i].name]
Label == IF Row.field # "" THEN Row.field ELSE Row.tag

(* Alternatives and blocked producers are recorded whatever is decided.    *)
RecordOffers(o) ==
  /\ alternatives' = IF Kept(o) = <<>> THEN alternatives
                     ELSE {a \in alternatives : <<a.tool, a.field>> # <<Top.tool, Label>>}
                          \cup {[tool |-> Top.tool, field |-> Label, names |-> Kept(o)]}
  /\ blocked' = blocked \cup {[consumer |-> Top.tool, producer |-> t, key |-> KeyOf(Row)] : t \in o.blocked}

(* No producer is chained: the row becomes a slot, or stays unresolved, or *)
(* both when only mutations that are not allowed could produce it.         *)
Ask(o) ==
  /\ RecordOffers(o)
  /\ \/ /\ OnlyBlocked(o)
        /\ slots' = slots \cup {Report("mutation_not_allowed")}
        /\ unresolved' = unresolved \cup {Report("mutation_not_allowed")}
     \/ /\ ~OnlyBlocked(o) /\ NotRequested(o)
        /\ slots' = slots \cup {Report("query_input_required")}
        /\ UNCHANGED unresolved
     \/ /\ ~OnlyBlocked(o) /\ ~NotRequested(o) /\ o.auto = <<>>
        /\ unresolved' = unresolved \cup
             {Report(IF o.safe = <<>> THEN "no_producer" ELSE "ambiguous_producer")}
        /\ UNCHANGED slots

AskForInput ==
  /\ NeedsProducer
  /\ Ask(RowOffers)
  /\ stack' = Advanced("row")
  /\ UNCHANGED <<r, target, required, optional, resolved, paths, cycles>>

(* The producer chained: explicit evidence first, then an allowed mutation.*)
Producer(o) ==
  IF Chosen(o) # <<>> THEN Head(Chosen(o)).name
  ELSE IF Mutations(o) # <<>> THEN Head(Mutations(o)).name ELSE Head(o.auto).name

Chain(o, t) ==
  /\ RecordOffers(o)
  /\ resolved' = resolved \cup {[tool |-> Top.tool, key |-> KeyOf(Row), producer |-> t]}
  /\ Admit(t, KeyOf(Row), "row")

ChainIfChosen(o) ==
  /\ ~OnlyBlocked(o) /\ ~NotRequested(o) /\ o.auto # <<>>
  /\ Chain(o, Producer(o))

ChainProducer ==
  /\ NeedsProducer
  /\ ChainIfChosen(RowOffers)
  /\ UNCHANGED <<r, target, optional, slots>>

(* The visit of a tool returns to its consumer.                            *)
Return ==
  /\ stack # <<>> /\ ~GraphLeft /\ Top.row > Len(r.consumes[Top.tool])
  /\ stack' = SubSeq(stack, 1, Len(stack) - 1)
  /\ UNCHANGED <<r, target, found>>

-----------------------------------------------------------------------------
(* complete_target_dependencies: an unknown target ends at once.           *)
Begin(t) ==
  /\ target = NoTool
  /\ target' = t
  /\ IF t \in r.tools
     THEN stack' = <<Frame(t)>> /\ UNCHANGED unresolved
     ELSE /\ unresolved' = {[tool |-> t, key |-> "", reason |-> "unknown_target"]}
          /\ UNCHANGED stack
  /\ UNCHANGED <<r, required, optional, alternatives, resolved, slots, paths, cycles, blocked>>

ClosureInit ==
  /\ r \in Requests
  /\ target = NoTool /\ stack = <<>> /\ required = <<>> /\ optional = <<>>
  /\ alternatives = {} /\ resolved = {} /\ unresolved = {} /\ slots = {}
  /\ paths = {} /\ cycles = {} /\ blocked = {}

Visit == FollowGraph \/ FillFromCaller \/ AskForInput \/ ChainProducer \/ Return

Closed == target # NoTool /\ stack = <<>>
-----------------------------------------------------------------------------
(* graphify/dependency_closure.py: assemble_tool_bundle, which completes   *)
(* the dependencies of a target and then admits the schemas a model will   *)
(* see, within a token budget: the target, its required tools, the other   *)
(* targets, the optional tools.  Beyond DependencyClosure a request has    *)
(*   cost    : tool -> tokens of its projected schema                      *)
(*   budget  : token_budget; NoLimit when there is none                    *)
VARIABLES
  others,     \* target_alternatives, in order
  admitted,   \* admitted_tools, in order
  next,       \* the place in the candidate order of the schema to admit
  status      \* "open" | "ready" | "budget_insufficient" | "cycle" | "incomplete"

bundleVars == <<others, admitted, next, status>>
allVars == <<vars, bundleVars>>

NoLimit == 0

RequiredOrder == <<target>> \o required
Others == Filtered(others, r.tools \ {target})
(* Mutant of CandidateOrder: the other targets come before the chain.      *)
CandidateOrderOthersFirst ==
  LET lead == Filtered(Others, ToSet(Others) \ ToSet(RequiredOrder))
      rest == Filtered(optional, ToSet(optional) \ (ToSet(RequiredOrder) \cup ToSet(lead)))
  IN  <<target>> \o lead \o required \o rest

(* candidate_order                                                         *)
CandidateOrder ==
  LET lead == Filtered(Others, ToSet(Others) \ ToSet(RequiredOrder))
      rest == Filtered(optional, ToSet(optional) \ (ToSet(RequiredOrder) \cup ToSet(lead)))
  IN  RequiredOrder \o lead \o rest

Tokens(names) == FoldLeft(LAMBDA sum, t : sum + r.cost[t], 0, names)

Fits(t) == r.budget = NoLimit \/ Tokens(Append(admitted, t)) <= r.budget

(* _admit_projected_schemas: a schema that does not fit is passed over; if *)
(* it is a required one, no later schema is admitted either.               *)
AdmitSchema ==
  /\ Closed /\ status = "open" /\ target \in r.tools
  /\ next <= Len(CandidateOrder)
  /\ LET t == CandidateOrder[next] IN
     IF Fits(t)
     THEN admitted' = Append(admitted, t) /\ next' = next + 1
     ELSE /\ UNCHANGED admitted
          /\ next' = IF t \in ToSet(RequiredOrder) THEN Len(CandidateOrder) + 1 ELSE next + 1
  /\ UNCHANGED <<vars, others, status>>

Missing == ToSet(RequiredOrder) \ ToSet(admitted)

(* closure_status: a missing schema, then a cycle, then a gap.             *)
Verdict ==
  IF Missing # {} THEN "budget_insufficient"
  ELSE IF cycles # {} THEN "cycle"
  ELSE IF unresolved # {} THEN "incomplete" ELSE "ready"

(* user_input_slots of the bundle: the closure's, and the rows that no     *)
(* producer was chained for.                                               *)
BundleSlots ==
  slots \cup {u \in unresolved :
                u.reason \in {"no_producer", "ambiguous_producer", "mutation_not_allowed"}}

(* A target that is not in the catalog has no schema to project: the       *)
(* lookup of its name fails.                                               *)
Finish ==
  /\ Closed /\ status = "open"
  /\ \/ /\ target \in r.tools /\ next > Len(CandidateOrder)
        /\ status' = Verdict
     \/ /\ target \notin r.tools
        /\ status' = "key_error"
  /\ UNCHANGED <<vars, others, admitted, next>>

BundleInit == ClosureInit /\ others = <<>> /\ admitted = <<>> /\ next = 1 /\ status = "open"

Assemble == (Visit /\ UNCHANGED bundleVars) \/ AdmitSchema \/ Finish
=============================================================================
