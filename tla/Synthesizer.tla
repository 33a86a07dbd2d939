---------------------------- MODULE Synthesizer ----------------------------
(***************************************************************************)
(* plan/synthesizer.py: PathSynthesizer._resolve and _find_producer, the   *)
(* backward chaining from a target tool through the produces / consumes    *)
(* schemas of the graph.                                                   *)
(*                                                                         *)
(* A graph g is a record of                                                *)
(*   consumes, produces : tool -> sequence of rows (schema order)          *)
(*   edges    : planning-direction workflow edges [from, to, conf]         *)
(*   action   : tool -> canonical_action ("" when not enriched)            *)
(*   outside  : pairs <<target, producer>> whose primary_resource is       *)
(*              outside the target's domain                                *)
(*   pairs    : pairs <<target, producer>> of pairs_well_with              *)
(*   enums, defaults : enum_field_names, keys of context_defaults          *)
(*   prefer   : (tool, row key) -> producer named by a dependency closure  *)
(*   maxDepth : max_depth                                                  *)
(* Rows have a field name, a semantic tag and a description alias (the     *)
(* empty string when there is none).                                       *)
(***************************************************************************)
EXTENDS Integers, Sequences, FiniteSets, SequencesExt

CONSTANTS
  ToolOrder,   \* the tools, in the alphabetical order that breaks ties
  Fold(_)      \* _normalize_field_name: case and separators folded

AllTools == ToSet(ToolOrder)
NoProducer == ""

Position(t) == CHOOSE i \in DOMAIN ToolOrder : ToolOrder[i] = t

Rows(seq) == ToSet(seq)

NamesOf(rows, key) == {row[key] : row \in rows} \ {""}

(* The echo-back filter: rows the tool creates rather than relays.         *)
Created(g, t) ==
  LET in == Rows(g.consumes[t]) IN
  {p \in Rows(g.produces[t]) :
     /\ p.field \notin NamesOf(in, "field")
     /\ p.tag \notin NamesOf(in, "tag")
     /\ p.alias \notin NamesOf(in, "alias")}

Same(x, y) == x # "" /\ x = y

(* The four indexes of _build_producer_indexes.                            *)
BySemantic(g, row) == {t \in AllTools : \E p \in Created(g, t) : Same(p.tag, row.tag)}
ByField(g, row) == {t \in AllTools : \E p \in Created(g, t) : Same(p.field, row.field)}
ByAlias(g, row) == {t \in AllTools : \E p \in Created(g, t) : Same(p.alias, row.alias)}
(* A name already in folded form is not entered in the loose index.        *)
ByLooseField(g, row) ==
  {t \in AllTools : \E p \in Created(g, t) :
     Fold(p.field) # p.field /\ Same(Fold(p.field), Fold(row.field))}

Matches(p, row) ==
  \/ Same(p.tag, row.tag) \/ Same(p.field, row.field)
  \/ Same(Fold(p.field), Fold(row.field)) \/ Same(p.alias, row.alias)

(* Confidences of the workflow edges from a tool to a candidate that has a *)
(* matching product.                                                       *)
EdgeConfidences(g, tool, cand, row) ==
  IF \E p \in Created(g, cand) : Matches(p, row)
  THEN {e.conf : e \in {e \in g.edges : e.from = tool /\ e.to = cand}}
  ELSE {}

Signals(g, tool, cand, row) ==
  LET exact == (IF cand \in BySemantic(g, row) THEN {"semantic_exact"} ELSE {})
               \cup (IF cand \in ByField(g, row) THEN {"field_exact"} ELSE {})
      loose == IF exact = {} /\ cand \in ByLooseField(g, row) THEN {"field_loose"} ELSE {}
      alias == IF exact \cup loose = {} /\ cand \in ByAlias(g, row)
               THEN {"description_alias"} ELSE {}
  IN  IF cand = tool THEN {}
      ELSE exact \cup loose \cup alias \cup EdgeConfidences(g, tool, cand, row)

Weight(signal) ==
  CASE signal = "semantic_exact" -> 100 [] signal = "EXTRACTED" -> 50
    [] signal = "field_exact" -> 40     [] signal = "INFERRED" -> 20
    [] signal = "description_alias" -> 15 [] signal = "field_loose" -> 10
    [] signal = "AMBIGUOUS" -> 5

Score(signals) == FoldSet(LAMBDA s, sum : sum + Weight(s), 0, signals)

Candidates(g, tool, row) == {t \in AllTools : Signals(g, tool, t, row) # {}}

(* _producer_satisfies_target_contract (data rows of the target only).     *)
SatisfiesContract(g, producer, tool) ==
  \E p \in Rows(g.produces[producer]), c \in Rows(g.consumes[tool]) :
     c.kind = "data" /\ Matches(p, c)

(* Mutant of ChainEligible: a side-effecting tool may be chained.          *)
ChainEligibleAny(g, producer, tool) == TRUE

(* _is_chain_eligible                                                      *)
ChainEligible(g, producer, tool) ==
  \/ /\ \E e \in g.edges : e.from = tool /\ e.to = producer
     /\ SatisfiesContract(g, producer, tool)
  \/ g.action[producer] = ""
  \/ g.action[producer] \in {"search", "read"} /\ <<tool, producer>> \notin g.outside

(* _rank_producers: entity affinity, pair hint, action preference; then    *)
(* the signal score; then the name.                                        *)
Rank(g, ents, tool, row, t) ==
  LET affine == {i \in DOMAIN g.consumes[t] :
                   {g.consumes[t][i].tag, g.consumes[t][i].field} \cap (ents \ {""}) # {}}
  IN <<Cardinality(affine),
       IF <<tool, t>> \in g.pairs THEN 1 ELSE 0,
       CASE g.action[t] = "search" -> 3 [] g.action[t] = "read" -> 2
         [] g.action[t] = "action" -> 1 [] OTHER -> 0,
       Score(Signals(g, tool, t, row)),
       -Position(t)>>

Above(x, y) == \E i \in DOMAIN x : x[i] > y[i] /\ \A j \in 1 .. i-1 : x[j] = y[j]

Preferred(g, tool, row) ==
  LET keys == {k \in {row.tag, row.field} \ {""} : <<tool, Fold(k)>> \in DOMAIN g.prefer}
  IN  IF keys = {} THEN NoProducer
      ELSE IF row.tag \in keys THEN g.prefer[<<tool, Fold(row.tag)>>]
      ELSE g.prefer[<<tool, Fold(row.field)>>]

Best(g, ents, tool, row, fit) ==
  IF fit = {} THEN NoProducer
  ELSE CHOOSE t \in fit : \A u \in fit \ {t} :
         Above(Rank(g, ents, tool, row, t), Rank(g, ents, tool, row, u))

(* Mutant of FindProducer: the best candidate is taken or none, without    *)
(* rerouting through the next one.                                         *)
FindProducerTopOnly(g, ents, avoid, tool, row) ==
  LET top == Best(g, ents, tool, row, Candidates(g, tool, row)) IN
  IF top \notin avoid /\ top # NoProducer /\ ChainEligible(g, top, tool)
  THEN top ELSE NoProducer

(* _find_producer: the closure's choice when it is a usable candidate,     *)
(* else the best ranked usable one.                                        *)
FindProducer(g, ents, avoid, tool, row) ==
  LET fit == {t \in Candidates(g, tool, row) \ avoid : ChainEligible(g, t, tool)}
  IN  IF Preferred(g, tool, row) \in fit THEN Preferred(g, tool, row)
      ELSE Best(g, ents, tool, row, fit)

(* _match_entity, _lookup_context_default                                  *)
Known(keys, row) == {row.tag, row.field} \cap (keys \ {""}) # {}

(* _is_producer_simple_callable                                            *)
SimpleCallable(g, ents, t) ==
  \A c \in Rows(g.consumes[t]) :
    c.required => Known(ents, c) \/ (c.kind = "ambient" /\ Known(g.defaults, c))

(* The product row a binding to the producer reads: by tag, else by field, *)
(* else by alias.                                                          *)
First(g, t, P(_)) ==
  LET hits == {i \in DOMAIN g.produces[t] : P(g.produces[t][i])} IN
  IF hits = {} THEN <<>>
  ELSE <<g.produces[t][CHOOSE i \in hits : \A j \in hits : i <= j]>>

MatchedRow(g, producer, row) ==
  LET tag   == First(g, producer, LAMBDA p : Same(p.tag, row.tag))
      field == First(g, producer, LAMBDA p : Same(p.field, row.field))
      alias == First(g, producer, LAMBDA p : Same(p.alias, row.alias))
  IN  IF tag # <<>> THEN tag ELSE IF field # <<>> THEN field ELSE alias

(* _producer_jsonpath: the matched row's path, else body.<field_name> of   *)
(* the consumer.                                                           *)
BindingField(g, producer, row) ==
  LET hit == MatchedRow(g, producer, row) IN
  IF hit = <<>> THEN row.field ELSE hit[1].field

(* The producer is a plain read whose response lists the options: a popup. *)
DynamicOption(g, ents, producer, row) ==
  /\ g.action[producer] = "read"
  /\ SimpleCallable(g, ents, producer)
  /\ \E p \in Rows(MatchedRow(g, producer, row)) : p.many
----------------------------------------------------------------------------
(* How one consumed row is to be filled; kinds "raise" and "chain" name    *)
(* the error and the producer in "from".                                   *)
Fill(kind, from) == [kind |-> kind, from |-> from]

FillFor(g, ents, excl, visiting, tool, row) ==
  IF Known(ents, row) THEN Fill("entity", "")
  ELSE IF row.kind = "ambient"
  THEN Fill(IF Known(g.defaults, row) THEN "default" ELSE "omit", "")
  ELSE IF ~row.required THEN Fill("omit", "")
  ELSE IF row.field \in g.enums THEN Fill("raise", "enum_required")
  ELSE IF g.action[tool] = "search" THEN Fill("slot", "search_filter")
  ELSE LET producer == FindProducer(g, ents, visiting \cup excl, tool, row) IN
       IF producer = NoProducer THEN Fill("slot", "")
       ELSE IF DynamicOption(g, ents, producer, row) THEN Fill("raise", "dynamic_option")
       ELSE Fill("chain", producer)

(* A synthesis in progress: steps_by_tool in insertion order, visiting, and*)
(* the pending exception.                                                  *)
Fresh == [steps |-> <<>>, visiting |-> {}, err |-> ""]

(* Mutant of Planned: tools that already have a step are resolved again.   *)
PlannedNone(st) == {}

Planned(st) == {st.steps[i].tool : i \in DOMAIN st.steps}

Raise(st, err) == [st EXCEPT !.err = err]

(* args: field name -> how it was filled; a later row of the same name     *)
(* overwrites an earlier one.                                              *)
Put(args, field, value) ==
  [f \in DOMAIN args \cup {field} |-> IF f = field THEN value ELSE args[f]]

Insert(st, tool, args) ==
  [st EXCEPT !.steps = Append(@, [tool |-> tool, args |-> args]),
             !.visiting = @ \ {tool}]

RECURSIVE Resolve(_, _, _, _, _, _), FillRows(_, _, _, _, _, _, _, _)

(* _resolve: the depth is checked first, then reuse, then the cycle.       *)
Resolve(g, ents, excl, tool, depth, st) ==
  IF depth > g.maxDepth THEN Raise(st, "max_depth")
  ELSE IF tool \in Planned(st) THEN st
  ELSE IF tool \in st.visiting THEN Raise(st, "cycle")
  ELSE FillRows(g, ents, excl, tool, depth, 1, <<>>,
                [st EXCEPT !.visiting = @ \cup {tool}])

(* The loop over the tool's consumes, in order; the step is inserted after *)
(* those of its producers.                                                 *)
FillRows(g, ents, excl, tool, depth, k, args, st) ==
  IF k > Len(g.consumes[tool])
  THEN Insert(st, tool, args)
  ELSE
    LET row  == g.consumes[tool][k]
        fill == FillFor(g, ents, excl, st.visiting, tool, row)
        Continue(value, next) ==
          FillRows(g, ents, excl, tool, depth, k + 1, Put(args, row.field, value), next)
    IN CASE fill.kind = "omit" -> FillRows(g, ents, excl, tool, depth, k + 1, args, st)
         [] fill.kind = "raise" -> Raise(st, fill.from)
         [] fill.kind \in {"entity", "default", "slot"} -> Continue(fill, st)
         [] fill.kind = "chain" ->
              LET sub == Resolve(g, ents, excl, fill.from, depth + 1, st) IN
              IF sub.err \in {"max_depth", "cycle"} THEN Continue(Fill("slot", sub.err), st)
              ELSE IF sub.err # "" THEN sub
              ELSE Continue([kind |-> "bind", from |-> fill.from,
                             field |-> BindingField(g, fill.from, row)], sub)

(* synthesize: the steps in insertion order, or the error it raises.       *)
Synthesize(g, target, ents, excl) ==
  IF target \notin AllTools THEN Raise(Fresh, "unknown_target")
  ELSE Resolve(g, ents, excl, target, 0, Fresh)
============================================================================
