-------------------------- MODULE TargetSelection --------------------------
(***************************************************************************)
(* graphify/catalog.py: the scores by which candidate targets are ranked,  *)
(* which candidates a model is shown (admit_target_candidates, the group   *)
(* caps of build_candidate_set) and which one becomes the target           *)
(* (select_target_candidate).                                              *)
(*                                                                         *)
(* Scores are in millionths, quotients rounded down.                       *)
(* A query q is [terms, lastAction, lastShape, directive, intent]: its     *)
(* selector terms, the action and the shape it names last ("" for none),   *)
(* whether it is worded as a command, the intent of classify_intent.       *)
(* A candidate d is [name, action, resource, module, shape, operation,     *)
(* surface, prose, brief, consumes, produces]: the surface is the terms of *)
(* its name, operation, summary and path, prose those of its descriptions, *)
(* brief those of its summary; consumes and produces the terms of its      *)
(* contract rows.  A signal s is [rank, score, learnt]; rank 0 is none.    *)
(*                                                                         *)
(* A case p is a record of                                                 *)
(*   names      : the candidates in retrieval order                        *)
(*   tool       : name -> candidate, for the names the catalog knows       *)
(*   query      : the query;  signal : name -> retrieval and learning      *)
(*   keep       : names to keep whatever their score (always_keep)         *)
(*   least, most, cap, cliff, near : min_candidates, max_candidates,       *)
(*                max_candidates_per_group (NoCap), score_cliff,           *)
(*                boundary_margin                                          *)
(*   tokens     : name -> tokens of its schema;  limit : token_budget      *)
(***************************************************************************)
EXTENDS Integers, Sequences, FiniteSets, SequencesExt, Orderings

(* Word classes; a term stands for every word the source lists.            *)
SearchTerms == {"list", "search"}     ReadTerms == {"get", "detail"}
DetailTerms == {"detail"}             SingleTerms == {"detail", "info"}
ListTerms == {"list", "search"}       CountTerms == {"count"}
IdTerms == {"id", "number"}           GeneralTerms == {"general"}
AllTerms == {"all"}                   FilterTerms == {"matching", "search"}
CreateTerms == {"create"}             UpdateTerms == {"update"}
DeleteTerms == {"delete"}             ActTerms == {"send", "approve"}
AuditTerms == {"log"}                 NoticeTerms == {"alert"}
SendTerms == {"send"}
CommonWords == {"api", "data", "for"}

Generic == UNION {SearchTerms, ReadTerms, SingleTerms, ListTerms, CountTerms,
                  CreateTerms, UpdateTerms, ActTerms, DeleteTerms}

Milli(n) == 1000 * n
One == Milli(1000)
Clamp(low, high, x) == IF x < low THEN low ELSE IF x > high THEN high ELSE x
AtMost(cap, x) == IF x > cap THEN cap ELSE x

(* Priorities by canonical action; actions not named have priority 0.      *)
Order(most, create, update, delete, act, read, search) ==
  [max |-> most,
   of |-> [create |-> create, update |-> update, delete |-> delete,
           action |-> act, read |-> read, search |-> search]]
Priorities ==
  [search |-> Order(6, 0, 0, 0, 2, 4, 6), read   |-> Order(6, 0, 0, 0, 2, 6, 4),
   create |-> Order(6, 6, 3, 0, 5, 2, 1), update |-> Order(6, 3, 6, 0, 5, 2, 1),
   action |-> Order(6, 3, 4, 0, 6, 2, 1), delete |-> Order(6, 0, 3, 6, 5, 1, 1),
   notify |-> Order(7, 7, 3, 0, 6, 2, 1), none   |-> Order(0, 0, 0, 0, 0, 0, 0)]

Rule(when, gives) == [when |-> when, gives |-> gives]
FirstRule(rules) ==
  rules[CHOOSE i \in DOMAIN rules : rules[i].when /\ \A j \in 1 .. i-1 : ~rules[j].when].gives

Mentions(terms, class) == terms \cap class # {}
Notice(q) == Mentions(q.terms, NoticeTerms) /\ Mentions(q.terms, SendTerms)

(* target_action_priority_for_query: the name of the priority order.       *)
ActionRules(q) ==
  <<Rule(Mentions(q.terms, ReadTerms) /\ Mentions(q.terms, AuditTerms), "read"),
    Rule(q.directive /\ q.lastAction = "action" /\ Notice(q), "notify"),
    Rule(/\ q.directive /\ q.lastAction = "read"
         /\ Mentions(q.terms, SearchTerms) /\ ~Mentions(q.terms, DetailTerms), "search"),
    Rule(q.directive /\ q.lastAction # "", q.lastAction),
    Rule(Notice(q), "notify"),
    Rule(Mentions(q.terms, DeleteTerms), "delete"),
    Rule(Mentions(q.terms, ActTerms), "action"),
    Rule(Mentions(q.terms, ReadTerms) /\ Mentions(q.terms, DetailTerms), "read"),
    Rule(Mentions(q.terms, UpdateTerms), "update"),
    Rule(Mentions(q.terms, CreateTerms), "create"),
    Rule(Mentions(q.terms, SearchTerms), "search"),
    Rule(Mentions(q.terms, ReadTerms), "read"),
    Rule(q.intent = "neutral", "none"),
    Rule(q.intent = "delete", "delete"),
    Rule(q.intent = "write", "action"),
    Rule(TRUE, "read")>>
ActionOrder(q) == FirstRule(ActionRules(q))

HasIdentifier(terms) == terms \cap IdTerms # {}
StrictDetail(q) == q.terms \cap DetailTerms # {}

NoShape == [single |-> 0, list |-> 0, count |-> 0, mutation |-> 0]
SingleFirst == [single |-> 6, list |-> 2, count |-> 1, mutation |-> 0]

(* _result_shape_priority_for_query                                        *)
ShapeOrders(q) ==
  LET audit == Mentions(q.terms, AuditTerms) IN
  <<Rule(q.lastShape = "count", [single |-> 1, list |-> 3, count |-> 6, mutation |-> 0]),
    Rule(q.lastShape = "single", SingleFirst),
    Rule(q.lastShape = "list", [single |-> 1, list |-> 6, count |-> 3, mutation |-> 0]),
    Rule(audit /\ HasIdentifier(q.terms), SingleFirst),
    Rule(audit, [single |-> 2, list |-> 6, count |-> 1, mutation |-> 0]),
    Rule(q.lastAction = "read" /\ HasIdentifier(q.terms), SingleFirst),
    Rule(q.lastAction \in {"create", "update", "delete", "action"},
         [single |-> 1, list |-> 0, count |-> 0, mutation |-> 5]),
    Rule(TRUE, NoShape)>>
ShapeOrder(q) == FirstRule(ShapeOrders(q))

ActionWeight(q, action) ==
  LET o == Priorities[ActionOrder(q)] IN
  IF o.max = 0 \/ action = "" THEN 0 ELSE (One * o.of[action]) \div o.max
ShapeMax(q) == Max({ShapeOrder(q)[k] : k \in DOMAIN NoShape})
ShapeWeight(q, shape) ==
  IF ShapeMax(q) = 0 \/ shape = "" THEN 0 ELSE (One * ShapeOrder(q)[shape]) \div ShapeMax(q)
Half == One \div 2

(* _action_priority_compatible                                             *)
ActionFits(q, action) ==
  ActionOrder(q) = "none" \/ action = "" \/ ActionWeight(q, action) >= Half

(* _infer_result_shape_from_surface, for a tool that declares none.        *)
ShapeRules(d) ==
  <<Rule(d.shape # "", d.shape),
    Rule(Mentions(d.surface, CountTerms), "count"),
    Rule(Mentions(d.surface, ListTerms), "list"),
    Rule(d.action \in {"create", "update", "delete", "action"}, "mutation"),
    Rule(Mentions(d.surface, DetailTerms \cup SingleTerms) \/ d.action = "read", "single"),
    Rule(d.action = "search", "list"),
    Rule(TRUE, "")>>
ShapeOf(d) == FirstRule(ShapeRules(d))

Evidence(source, score, about) == [source |-> source, score |-> score, about |-> about]
When(holds, source, score, about) ==
  IF holds THEN {Evidence(source, score, about)} ELSE {}
Total(evidence) == FoldSet(LAMBDA e, sum : sum + e.score, 0, evidence)

-----------------------------------------------------------------------------
(* _score_target_candidate: the evidence of a candidate by itself.         *)
ActionEvidence(q, d) ==
  When(ActionWeight(q, d.action) >= Half, "canonical_action",
       ActionWeight(q, d.action) \div 5, {d.action})
  \cup When(~ActionFits(q, d.action), "action_mismatch", -Milli(180), {d.action})

ShapeEvidence(q, d) ==
  LET w == ShapeWeight(q, ShapeOf(d)) IN
  When(w >= Half, IF d.shape # "" THEN "result_shape" ELSE "inferred_result_shape",
       (18 * w) \div 100, {ShapeOf(d)})
  \cup When(w < Half /\ ShapeMax(q) > 0 /\ ShapeOf(d) # "",
            "result_shape_mismatch", -Milli(140), {ShapeOf(d)})

DetailEvidence(q, d) ==
  LET detail == d.surface \cap DetailTerms # {} IN
  When(StrictDetail(q) /\ detail, "detail_surface", Milli(140), {"detail"})
  \cup When(StrictDetail(q) /\ ~detail /\ d.surface \cap GeneralTerms # {},
            "general_surface_penalty", -Milli(60), {"general"})

ContractTerms(d) == d.consumes \cup d.produces

IdentifierEvidence(q, d) ==
  LET ids == (q.terms \cap ContractTerms(d)) \cup (ContractTerms(d) \cap IdTerms)
      asked == StrictDetail(q) /\ HasIdentifier(q.terms)
  IN When(asked /\ ids # {}, "identifier_detail_contract",
          AtMost(Milli(160), Milli(80) + Milli(20) * Cardinality(ids)), ids)
     \cup When(asked /\ ids = {} /\ HasIdentifier(d.surface) /\ d.surface \cap DetailTerms # {},
               "identifier_detail_surface", Milli(80), {"identifier"})

TermEvidence(q, d) ==
  LET overlap == q.terms \cap d.surface
      contract == q.terms \cap ContractTerms(d)
  IN When(overlap # {}, "surface_terms", AtMost(Milli(180), Milli(40) * Cardinality(overlap)), overlap)
     \cup When(contract # {}, "api_contract", AtMost(Milli(120), Milli(35) * Cardinality(contract)), contract)

SignalEvidence(s) ==
  When(s.rank > 0, "retrieval_rank", Milli(220) - Milli(15) * AtMost(10, s.rank - 1), {})
  \cup When(s.score > 0, "retrieval_score", AtMost(Milli(80), s.score), {})
  \cup When(s.learnt > 0, "learning", AtMost(Milli(60), s.learnt), {})

OwnEvidence(q, d) ==
  UNION {ActionEvidence(q, d), ShapeEvidence(q, d), DetailEvidence(q, d),
         IdentifierEvidence(q, d), TermEvidence(q, d)}

(* The score of the evidence of a candidate by itself.                     *)
BaseScore(own, learned) == Clamp(0, One, Total(own) + Total(learned))

StrongSources == {"surface_terms", "detail_surface", "api_contract", "result_shape",
                  "inferred_result_shape", "identifier_detail_contract", "identifier_detail_surface"}
Sources(evidence) == {e.source : e \in evidence}
StrongBase(own, learned) ==
  BaseScore(own, learned) >= Milli(450) /\ Sources(own) \cap StrongSources # {}

-----------------------------------------------------------------------------
(* contrast_target_candidates: a candidate d against its peers, the        *)
(* candidates of the same resource (of the same module without one).       *)
Family(d) == IF d.resource # "" THEN d.resource ELSE IF d.module # "" THEN d.module ELSE "unknown"

QueryScope(q) ==
  IF q.terms \cap AllTerms # {} THEN "all"
  ELSE IF q.terms \cap FilterTerms # {} THEN "filtered" ELSE "bounded"

(* _candidate_scope                                                        *)
Scope(d) ==
  LET words == d.surface \cup d.prose IN
  IF d.action # "search" /\ d.shape # "list" THEN "bounded"
  ELSE IF words \cap AllTerms # {} THEN "all"
  ELSE IF words \cap FilterTerms # {} \/ d.consumes # {} THEN "filtered" ELSE "bounded"

(* _scope_adjustment                                                       *)
ScopeRules(asked, has) ==
  <<Rule(asked = has, IF asked = "bounded" THEN 0 ELSE Milli(160)),
    Rule(has = "all", IF asked = "filtered" THEN -Milli(160) ELSE -Milli(120)),
    Rule(asked = "all", -Milli(100)),
    Rule(asked = "filtered" /\ has = "bounded", Milli(40)),
    Rule(TRUE, 0)>>
ScopeScore(asked, has) == FirstRule(ScopeRules(asked, has))

Uncommon(words, d, shared) ==
  {w \in words : w \notin shared \cup Generic \cup CommonWords \cup IdTerms \cup {d.resource, d.module}}
SharedBy(sets) == {w \in UNION sets : \A set \in sets : w \in set}

Words(d) == d.surface \cup d.prose
Qualifiers(d, peers) == Uncommon(Words(d), d, SharedBy({Words(p) : p \in peers}))
Specialities(d, peers) == Uncommon(d.brief, d, SharedBy({p.brief : p \in peers}))

Unrequested(q, d, peers) ==
  LET size(p) == Cardinality(Qualifiers(p, peers)) IN
  IF /\ Cardinality(peers) > 1
     /\ q.terms \cap Qualifiers(d, peers) = {}
     /\ \E p \in peers : size(d) > size(p)
  THEN Specialities(d, peers) ELSE {}

Contrast(q, d, peers) ==
  LET asked == q.terms \cap Qualifiers(d, peers)
      extra == Unrequested(q, d, peers)
      scope == IF Cardinality({Scope(p) : p \in peers}) > 1
               THEN ScopeScore(QueryScope(q), Scope(d)) ELSE 0
      level == asked \cap {"large", "small"}
      sent == q.terms \cap d.consumes
      got == q.terms \cap d.produces
  IN UNION {
       When(asked # {}, "contrastive_qualifier_match", AtMost(Milli(240), Milli(60) * Cardinality(asked)), asked),
       When(level # {}, "hierarchy_level_match", Milli(20), level),
       When(extra # {}, "contrastive_unrequested_qualifier",
            -AtMost(Milli(140), Milli(70) * Cardinality(extra)), extra),
       When(sent # {}, "request_contract_fit", AtMost(Milli(100), Milli(50) * Cardinality(sent)), sent),
       When(got # {}, "response_contract_fit", AtMost(Milli(120), Milli(60) * Cardinality(got)), got),
       When(scope > 0, "scope_fit", scope, {Scope(d)}),
       When(scope < 0, "scope_mismatch", scope, {Scope(d)})}

Adjustment(evidence) == Clamp(-Milli(200), Milli(280), Total(evidence))

-----------------------------------------------------------------------------
NoCap == 0
NoTokens == 0

Holds(seq, x) == \E i \in DOMAIN seq : seq[i] = x

Known(p) == {t \in ToSet(p.names) : t \in DOMAIN p.tool}
RankOf(p, t) == IF p.signal[t].rank = 0 THEN 9999 ELSE p.signal[t].rank

(* Best first: score, retrieval rank, order of the candidates.             *)
Ranked(p, names, score) ==
  LET known == {t \in ToSet(names) : t \in DOMAIN p.tool} IN
  Sorted(known, [t \in known |-> <<-score[t], RankOf(p, t), Place(names, t)>>])

-----------------------------------------------------------------------------
(* Admission.  An admission is built in steps, each from the ones before:  *)
(* score, order (best first), limit, eligible, grouped, admitted.          *)
AdmissionScore(p) ==
  [t \in Known(p) |-> BaseScore(OwnEvidence(p.query, p.tool[t]),
                                 SignalEvidence([p.signal[t] EXCEPT !.learnt = 0]))]

(* _adaptive_admission_limit: after the minimum, up to the first cliff.    *)
Cliffs(p, score, order) ==
  LET upper == Min({p.most, Len(order)}) IN
  {b \in Min({p.least, upper}) .. upper - 1 : score[order[b]] - score[order[b + 1]] >= p.cliff}
Limit(p, cliffs, order) == IF cliffs = {} THEN Min({p.most, Len(order)}) ELSE Min(cliffs)

(* _ensure_always_keep: a kept name takes a free place, else the place of  *)
(* the last name that is not kept, else one beyond the limit.              *)
KeepAlways(chosen, order, limit, keep) ==
  FoldLeft(LAMBDA out, t :
             LET free == {i \in DOMAIN out : out[i] \notin keep} IN
             IF Len(out) < limit \/ free = {} THEN Append(out, t)
             ELSE [out EXCEPT ![Max(free)] = t],
           chosen, Filtered(order, keep \ ToSet(chosen)))

(* _target_group_key; a tag stands in for a missing resource.              *)
Group(p, t) ==
  IF t \notin DOMAIN p.tool \/ p.tool[t].resource = "" THEN <<"name", t>>
  ELSE <<p.tool[t].resource, p.tool[t].action>>

GroupSize(p, chosen, g) == Cardinality({i \in DOMAIN chosen : Group(p, chosen[i]) = g})

(* Past the minimum a name of a full group gives way to a group further on.*)
OverCap(p, all, chosen, i) ==
  /\ p.cap # NoCap /\ all[i] \notin p.keep
  /\ Len(chosen) >= Min({p.least, Len(all)})
  /\ GroupSize(p, chosen, Group(p, all[i])) >= p.cap
  /\ \E j \in i + 1 .. Len(all) :
        /\ Group(p, all[j]) # Group(p, all[i])
        /\ GroupSize(p, chosen, Group(p, all[j])) < p.cap

Grouped(p, all) ==
  FoldLeft(LAMBDA chosen, i : IF OverCap(p, all, chosen, i) THEN chosen ELSE Append(chosen, all[i]),
           <<>>, [i \in DOMAIN all |-> i])

Spent(p, chosen) == FoldLeft(LAMBDA sum, t : sum + p.tokens[t], 0, chosen)

(* What the budget holds: a name that does not fit is passed over.         *)
Budgeted(p, grouped) ==
  FoldLeft(LAMBDA chosen, t :
             IF p.limit = NoTokens \/ Spent(p, Append(chosen, t)) <= p.limit
             THEN Append(chosen, t) ELSE chosen,
           <<>>, grouped)

(* Mutant of Ambiguous: only a full catalog is looked at.                  *)
AmbiguousAtLimit(p, score, order, admitted) ==
  LET in == {i \in DOMAIN order : Holds(admitted, order[i])}
      out == DOMAIN order \ in
  IN /\ in # {} /\ out # {}
     /\ Cardinality(in) >= Min({p.most, Len(order)})
     /\ score[order[Max(in)]] - score[order[Min(out)]] <= p.near

(* _admission_boundary_is_ambiguous: a name was dropped above an admitted  *)
(* one, or the limit cuts through scores that are close.                   *)
Ambiguous(p, score, order, admitted) ==
  LET in == {i \in DOMAIN order : Holds(admitted, order[i])}
      out == DOMAIN order \ in
  IN /\ in # {} /\ out # {}
     /\ \/ Min(out) < Max(in)
        \/ /\ Cardinality(in) >= Min({p.most, Len(order)})
           /\ score[order[Max(in)]] - score[order[Min(out)]] <= p.near

(* admit_target_candidates: the order, what is admitted, why the others    *)
(* are not (drop_reasons) and recommended_action.                          *)
AdmissionInOrder(p, score, order) ==
  LET cliffs == Cliffs(p, score, order)
      limit == Limit(p, cliffs, order)
      eligible == KeepAlways(SubSeq(order, 1, limit), order, limit, p.keep)
      grouped == Grouped(p, eligible)
      admitted == Budgeted(p, grouped)
      reason(t) == FirstRule(<<
        Rule(Holds(admitted, t), "admitted"),
        Rule(t \notin DOMAIN p.tool, "tool_metadata_missing"),
        Rule(Holds(grouped, t), "token_budget_exceeded"),
        Rule(Holds(eligible, t), "semantic_group_cap"),
        Rule(cliffs # {}, "score_cliff"),
        Rule(TRUE, "candidate_limit")>>)
      reasons == [t \in ToSet(p.names) |-> reason(t)]
      expand == \/ Ambiguous(p, score, order, admitted)
                \/ Len(admitted) < Min({p.least, Len(order)})
  IN [order |-> order, shown |-> admitted, reasons |-> reasons,
      advice |-> IF expand THEN "expand_candidates"
                 ELSE IF \E t \in DOMAIN reasons : reasons[t] = "token_budget_exceeded"
                      THEN "increase_token_budget" ELSE "select_target"]
AdmissionByScore(p, score) == AdmissionInOrder(p, score, Ranked(p, p.names, score))
Admission(p) == AdmissionByScore(p, AdmissionScore(p))

-----------------------------------------------------------------------------
(* Selection                                                               *)

OverrideMargin == Milli(120)
AmbiguityMargin == Milli(40)
NoName == ""

(* The candidates of the selector: the model's target is added to them     *)
(* when the catalog knows it.                                              *)
Contenders(p, names, llm) ==
  Filtered(IF llm \in DOMAIN p.tool /\ ~Holds(names, llm) THEN Append(names, llm) ELSE names,
           DOMAIN p.tool)

Peers(p, names, t) == {p.tool[u] : u \in {u \in ToSet(names) : Family(p.tool[u]) = Family(p.tool[t])}}

(* A scored row of a selection: what a candidate has by itself, what is    *)
(* known of its retrieval, and what sets it apart from its peers.          *)
Scored(own, learned, contrast) ==
  [score |-> Clamp(0, One, BaseScore(own, learned) + Adjustment(contrast)),
   strong |-> StrongBase(own, learned) \/ \E e \in contrast : e.score >= Milli(80),
   evidence |-> UNION {own, learned, contrast}]
Rows(p, names) ==
  [t \in ToSet(names) |->
     Scored(OwnEvidence(p.query, p.tool[t]), SignalEvidence(p.signal[t]),
            Contrast(p.query, p.tool[t], Peers(p, names, t)))]

(* _same_selector_sibling_family                                           *)
Siblings(d, e) ==
  IF d.resource # "" THEN d.resource = e.resource ELSE d.module # "" /\ d.module = e.module

SameOperation(d, e) == d.operation # "" /\ d.operation = e.operation

Decisive == {"api_contract", "contrastive_qualifier_match", "contrastive_unrequested_qualifier",
             "detail_surface", "identifier_detail_contract", "identifier_detail_surface",
             "hierarchy_level_match", "request_contract_fit", "response_contract_fit",
             "scope_fit", "scope_mismatch"}
OfFamily == {"contrastive_qualifier_match", "contrastive_unrequested_qualifier",
             "scope_fit", "scope_mismatch"}
Qualified == {"contrastive_qualifier_match", "contrastive_unrequested_qualifier"}

Of(evidence, source) == {e \in evidence : e.source = source}
Worth(evidence, source) == Total(Of(evidence, source))
(* _decisive_evidence_signature                                            *)
Signature(evidence, source) ==
  (UNION {e.about : e \in Of(evidence, source)})
    \ (IF source \in Qualified THEN Generic \cup AllTerms \cup FilterTerms ELSE {})

(* _pairwise_decisive_evidence: the sources that speak for d against e.    *)
Speaks(p, rows, for, against) ==
  {s \in Decisive :
     LET x == Worth(rows[for].evidence, s)
         y == Worth(rows[against].evidence, s)
     IN /\ Signature(rows[for].evidence, s) # Signature(rows[against].evidence, s)
        /\ x - y >= Milli(40)
        /\ x >= Milli(60) \/ y <= -Milli(60)}
Supporting(p, rows, t, u) ==
  {s \in Speaks(p, rows, t, u) : s \in OfFamily => Siblings(p.tool[t], p.tool[u])}
Contradicting(p, rows, t, u) ==
  {s \in Speaks(p, rows, u, t) : s \in OfFamily => Siblings(p.tool[t], p.tool[u])}

(* The first of the names by score.                                        *)
Best(names, rows, p) ==
  CHOOSE t \in ToSet(names) : \A u \in ToSet(names) \ {t} :
    Precedes(<<-rows[t].score, RankOf(p, t), Place(names, t)>>,
          <<-rows[u].score, RankOf(p, u), Place(names, u)>>)

(* The field is that of the siblings of the model's target when decisive   *)
(* evidence prefers the best of them to it; its best is the winner.        *)
Kin(p, names, llm) ==
  Filtered(names, {t \in ToSet(names) : Siblings(p.tool[t], p.tool[llm])})
SiblingsCompared(p, names, rows, llm) ==
  /\ llm \in DOMAIN rows /\ Kin(p, names, llm) # <<>>
  /\ LET b == Best(Kin(p, names, llm), rows, p) IN
     b # llm /\ Supporting(p, rows, b, llm) # {} /\ Contradicting(p, rows, b, llm) = {}

Field(p, names, rows, llm) ==
  IF SiblingsCompared(p, names, rows, llm) THEN Kin(p, names, llm) ELSE names

(* The margin of the winner w to the next candidate of the field that is   *)
(* not the same operation.                                                 *)
Rivals(p, field, w) == {t \in ToSet(field) \ {w} : ~SameOperation(p.tool[w], p.tool[t])}
Margin(p, rows, field, w) ==
  rows[w].score - (IF Rivals(p, field, w) = {} THEN 0
                   ELSE Max({rows[t].score : t \in Rivals(p, field, w)}))

(* Only a penalty of the model's target speaks for the winner, and it is   *)
(* small, or the target fits the words of the query better.                *)
PenaltyOnly(p, rows, w, llm) ==
  /\ Supporting(p, rows, w, llm) = {"contrastive_unrequested_qualifier"}
  /\ \/ -Worth(rows[llm].evidence, "contrastive_unrequested_qualifier") < Milli(120)
     \/ Worth(rows[llm].evidence, "surface_terms")
          > Worth(rows[w].evidence, "surface_terms") + Milli(15)

CloseToNext(p, rows, field, w) ==
  Rivals(p, field, w) # {} /\ Margin(p, rows, field, w) < OverrideMargin

(* Why a model's target may have to be kept although more is needed        *)
(* (needs_expansion of the assessment).                                    *)
Unsure(p, rows, field, w, llm) ==
  \/ CloseToNext(p, rows, field, w)
  \/ rows[w].score - rows[llm].score < OverrideMargin
  \/ Supporting(p, rows, w, llm) = {} \/ PenaltyOnly(p, rows, w, llm)
  \/ Contradicting(p, rows, w, llm) # {}

(* _risk_limited_override_assessment                                       *)
MayOverride(p, rows, field, w, llm) ==
  /\ w # llm
  /\ ActionFits(p.query, p.tool[llm].action) => ActionFits(p.query, p.tool[w].action)
  /\ ~Unsure(p, rows, field, w, llm)
  /\ rows[w].strong

Ties(rows, field, w) == {t \in ToSet(field) : rows[w].score - rows[t].score \in 0 .. AmbiguityMargin}

(* select_target_candidate: llm is the model's target, NoName for none, w  *)
(* the winner among the rows of the field.                                 *)
Decision(p, names, rows, field, w, llm) ==
  LET here == llm \in ToSet(names)
      over == here /\ MayOverride(p, rows, field, w, llm)
      chosen == IF over \/ ~here THEN w ELSE llm
      unclear == ~over /\ Len(names) > 1 /\ Margin(p, rows, field, w) < OverrideMargin
      unsettled == unclear \/ (here /\ ~over /\ w # llm)
      tied == Ties(rows, field, w) \cup (IF unsettled THEN {chosen} ELSE {})
  IN [target |-> chosen, overrode |-> over,
      ambiguous |-> unsettled \/ (~over /\ Cardinality(tied) > 1),
      expand |-> \/ unclear
                 \/ llm # NoName /\ ~here
                 \/ here /\ ~over /\ w # llm /\ Unsure(p, rows, field, w, llm)]

InField(p, names, rows, field, llm) ==
  Decision(p, names, rows, field, Best(field, rows, p), llm)
AmongRows(p, names, rows, llm) ==
  IF names = <<>>
  THEN [target |-> llm, overrode |-> FALSE, ambiguous |-> FALSE, expand |-> TRUE]
  ELSE InField(p, names, rows, Field(p, names, rows, llm), llm)
Among(p, names, llm) == AmongRows(p, names, Rows(p, names), llm)
Selection(p, shown, llm) == Among(p, Contenders(p, shown, llm), llm)
-----------------------------------------------------------------------------
(* graphify/catalog.py: build_candidate_set, the targets and producers a   *)
(* planner is offered around a seed.  A description k of the call has      *)
(*   seed    : expansion_seed, which is kept whatever its place            *)
(*   ranking : action -> target_action_priority; NoRanking for none        *)
(*   cap, limit, diverse : max_targets_per_group, max_target_candidates    *)
(*             (NoCap for none), diversify_target_groups                   *)
(*   width, hops : max_producers_per_field, max_hops                       *)
(*   worth, order : tool -> priority of its action; the catalog's order    *)
(*   alike   : pairs of tools whose surfaces are equivalent                *)
(*             (_surface_equivalence_evidence)                             *)
(* A catalog r has tools, consumes and produces as in DependencyClosure.   *)
NoRanking == [search |-> 0, read |-> 0, create |-> 0, update |-> 0, delete |-> 0, action |-> 0]

(* _rank_target_candidates: by the priority of the action, else as found.  *)
ActionRank(p, k, t) ==
  IF t \notin DOMAIN p.tool \/ p.tool[t].action = "" THEN 0 ELSE k.ranking[p.tool[t].action]
RankedTargets(p, k) ==
  Sorted(ToSet(p.names), [t \in ToSet(p.names) |-> <<-ActionRank(p, k, t), Place(p.names, t)>>])

Groups(p, names) == {Group(p, t) : t \in ToSet(names)}

(* _cap_targets_per_group                                                  *)
Capped(p, k, names) ==
  FoldLeft(LAMBDA out, t :
             IF k.cap = NoCap \/ GroupSize(p, out, Group(p, t)) < k.cap \/ Holds(k.seed, t)
             THEN Append(out, t) ELSE out, <<>>, names)

(* _diverse_target_candidates: the first of every group, then the seconds; *)
(* groups in the order of their first member.                              *)
Rounds(p, names) ==
  LET fellows(t) == {u \in ToSet(names) : Group(p, u) = Group(p, t)}
      turn(t) == Cardinality({u \in fellows(t) : Place(names, u) < Place(names, t)})
      first(t) == Min({Place(names, u) : u \in fellows(t)})
  IN  Sorted(ToSet(names), [t \in ToSet(names) |-> <<turn(t), first(t)>>])

Lined(p, k, names) == IF k.diverse THEN Rounds(p, names) ELSE names

(* _target_candidates_with_group_cap                                       *)
Surface(p, k) ==
  LET capped == Capped(p, k, RankedTargets(p, k))
      lined == Lined(p, k, capped)
  IN  IF k.limit = NoCap THEN capped
      ELSE KeepAlways(SubSeq(lined, 1, Min({k.limit, Len(lined)})), capped, k.limit, ToSet(k.seed))

-----------------------------------------------------------------------------
(* expand_candidates_with_producers                                        *)

Named(x, y) == x # "" /\ x = y

(* _build_producer_index: a name a tool also consumes does not count as    *)
(* its product; a tag and a field are looked up in one index, and a field  *)
(* named like its tag counts as the tag only.                              *)
Indexed(r, t, key) ==
  \E i \in DOMAIN r.produces[t] :
    LET y == r.produces[t][i] IN
    \/ Named(y.tag, key) /\ ~\E j \in DOMAIN r.consumes[t] : r.consumes[t][j].tag = key
    \/ /\ Named(y.field, key) /\ y.field # y.tag
       /\ ~\E j \in DOMAIN r.consumes[t] : r.consumes[t][j].field = key

Producers(r, t, c) ==
  {u \in r.tools \ {t} : \E key \in {c.tag, c.field} \ {""} : Indexed(r, u, key)}

Needed(c) == c.required /\ c.kind = "data"

(* _producers_for_required_inputs: at most width new producers of each     *)
(* required row, by the priority of their action (worth: tool -> its       *)
(* _producer_score), those found by the tag first, in catalog order.       *)
FromPool(r, k, c, pool) ==
  LET best == Sorted(pool, [u \in pool |->
                <<-k.worth[u], Bit(~Indexed(r, u, c.tag)), Place(k.order, u)>>])
  IN  SubSeq(best, 1, Min({k.width, Len(best)}))
BestProducers(r, k, t, c, seen) ==
  FromPool(r, k, c, IF Needed(c) THEN Producers(r, t, c) \ seen ELSE {})
NewProducers(r, k, t, seen) ==
  FoldLeft(LAMBDA out, c : out \o BestProducers(r, k, t, c, seen \cup ToSet(out)),
           <<>>, r.consumes[t])

(* Mutant of Hop: every hop starts from the seed again.                    *)
HopFromSeed(r, k, state) ==
  LET grown == FoldLeft(LAMBDA names, t : names \o
                          (IF t \in r.tools THEN NewProducers(r, k, t, ToSet(names)) ELSE <<>>),
                        state.names, k.seed)
  IN  [names |-> grown, frontier |-> k.seed]

(* One hop: the frontier's producers become the next frontier.             *)
Hop(r, k, state) ==
  LET grown == FoldLeft(LAMBDA names, t : names \o
                          (IF t \in r.tools THEN NewProducers(r, k, t, ToSet(names)) ELSE <<>>),
                        state.names, state.frontier)
  IN  [names |-> grown, frontier |-> SubSeq(grown, Len(state.names) + 1, Len(grown))]

Hops(r, k) ==
  FoldLeft(LAMBDA state, n : Hop(r, k, state),
           [names |-> k.seed, frontier |-> k.seed], [n \in 1 .. k.hops |-> n])
Expanded(r, k) == Hops(r, k).names

-----------------------------------------------------------------------------
(* build_tool_equivalence_groups: the connected members of the alike       *)
(* relation, in the order of the candidates.                               *)
Reached(k, names, seed) ==
  FoldLeft(LAMBDA set, n : set \cup {u \in names : \E t \in set : {t, u} \in k.alike},
           {seed}, [n \in 1 .. Cardinality(names) |-> n])
Equivalents(p, k) ==
  {g \in {Reached(k, ToSet(p.names), t) : t \in ToSet(p.names)} : Cardinality(g) > 1}

(* Without the names already listed; neither list repeats one.             *)
Extended(names, more) == names \o Filtered(more, ToSet(more) \ ToSet(names))

(* build_candidate_set; with use_dependency_closure (closure) chain and    *)
(* hints are the required and the optional dependencies of the seed, else  *)
(* the producers around it are looked up.                                  *)
CandidatesAround(r, p, k, closure, chain, hints) ==
  [targets |-> Surface(p, k),
   candidates |-> IF closure /\ k.seed # <<>> THEN Extended(Extended(k.seed, chain), hints)
                  ELSE Expanded(r, k),
   groups |-> Equivalents(p, k), suppressed |-> ToSet(p.names) \ ToSet(Surface(p, k)),
   closure |-> closure /\ k.seed # <<>>]
=============================================================================
