--------------------------- MODULE TargetPipeline ---------------------------
(***************************************************************************)
(* From a query to the tools a planner works with, as an adapter calls     *)
(* graphify: admit_target_candidates bounds the candidates a model sees,   *)
(* the model names one of them (or another tool, or none),                 *)
(* select_target_candidate settles on the target, assemble_tool_bundle     *)
(* completes its dependencies and admits the schemas.  Beyond              *)
(* DependencyClosure a request has targets, a case of TargetSelection, and *)
(* guesses, names the model may give that it was not shown.  Once the      *)
(* chain of the target is known, build_candidate_set offers the planner    *)
(* what surrounds it: offer is a description k of TargetSelection, whose   *)
(* seed the target will be.                                                *)
(***************************************************************************)
EXTENDS DependencyClosure, TargetSelection

ActionNames == DOMAIN NoRanking \cup {""}
ShapeNames == DOMAIN NoShape \cup {""}

(* The candidates are a list, and the limits of an admission numbers; what *)
(* a query and a description name are the actions and shapes of the source *)
(* ("" for none), in finitely many terms.                                  *)
IsCase(p) ==
  /\ p.names \in Seq(ToSet(p.names)) /\ {p.least, p.most} \subseteq Nat
  /\ IsFiniteSet(p.query.terms) /\ p.query.lastAction \in ActionNames
  /\ \A t \in DOMAIN p.tool :
       /\ p.tool[t].action \in ActionNames /\ p.tool[t].shape \in ShapeNames
       /\ IsFiniteSet(p.tool[t].brief)
       /\ {p.signal[t].rank, p.signal[t].score, p.signal[t].learnt} \subseteq Nat
       /\ DOMAIN p.signal[t] = {"rank", "score", "learnt"}

(* A call of build_candidate_set, whose seed is yet to come: limits that   *)
(* are numbers, and priorities, in an order that lists every tool.         *)
IsRanking(ranking) == \A a \in DOMAIN NoRanking : ranking[a] \in Int
OfferFields ==
  {"seed", "ranking", "cap", "limit", "diverse", "width", "hops", "worth", "order", "alike"}
IsOffer(k, tools) ==
  /\ {k.cap, k.limit, k.width, k.hops} \subseteq Nat /\ IsRanking(k.ranking)
  /\ IsList(k.order) /\ tools \subseteq ToSet(k.order)
  /\ \A t \in tools : k.worth[t] \in Int

ASSUME TargetsAssumption ==
  \A q \in Requests :
    IsCase(q.targets) /\ DOMAIN q.offer = OfferFields /\ IsOffer(q.offer, q.tools)

VARIABLES
  admission, \* the result of admit_target_candidates
  llm,       \* the model's target, NoName for none
  verdict,   \* the result of select_target_candidate
  offered    \* the result of build_candidate_set

pipelineVars == <<admission, llm, verdict, offered>>
NoOffer == [targets |-> <<>>, candidates |-> <<>>, groups |-> {}, suppressed |-> {},
            closure |-> FALSE]
NoVerdict == [target |-> NoName, overrode |-> FALSE, ambiguous |-> FALSE, expand |-> FALSE]

(* The model is shown the admitted candidates and names its target.        *)
SelectTarget ==
  /\ target = NoTool /\ status = "open"
  /\ admission' = Admission(r.targets)
  /\ llm' \in ToSet(admission'.shown) \cup r.guesses \cup {NoName}
  /\ verdict' = Selection(r.targets, admission'.shown, llm')
  /\ IF verdict'.target = NoName
     THEN status' = "no_target" /\ UNCHANGED <<vars, others>>
     ELSE /\ Begin(verdict'.target)
          /\ others' = admission'.shown
          /\ UNCHANGED status
  /\ UNCHANGED <<admitted, next, offered>>

(* The planner's candidates are built around the target.  A call that asks *)
(* for the closure completes the target's dependencies once more: with the *)
(* limits of the first time it finds the same chain.                       *)
SeededOffer == [r.offer EXCEPT !.seed = <<target>>]
SameLimits == r.offer.hops = r.hops /\ r.offer.width = r.width
OfferCandidates ==
  /\ status \notin {"open", "no_target", "key_error"} /\ offered = NoOffer
  /\ \E closure \in BOOLEAN :
       /\ closure => SameLimits
       /\ offered' = CandidatesAround(r, r.targets, SeededOffer, closure, required, optional)
  /\ UNCHANGED <<allVars, admission, llm, verdict>>

NoAdmission == [order |-> <<>>, shown |-> <<>>, reasons |-> <<>>, advice |-> ""]

Init == BundleInit /\ admission = NoAdmission /\ llm = NoName
        /\ verdict = NoVerdict /\ offered = NoOffer

Next == SelectTarget \/ (Assemble /\ UNCHANGED pipelineVars) \/ OfferCandidates

Spec == Init /\ [][Next]_<<allVars, pipelineVars>>

-----------------------------------------------------------------------------
(* A required row is served by the caller, by a value the user is asked    *)
(* for, or by another tool of the bundle that yields it.                   *)
Served(t, c) ==
  \/ KeyOf(c) \in r.available
  \/ \E s \in slots : s.tool = t /\ s.key = KeyOf(c)
  \/ \E u \in ToSet(admitted) \ {t} : \E p \in ToSet(r.produces[u]) : Yields(p, c)

(* The tools of a set can be run one after the other: none of its subsets  *)
(* waits only for itself.                                                  *)
Feeds(u, t) ==
  \/ \E f \in resolved : f.tool = t /\ f.producer = u
  \/ \E q \in paths : q.consumer = t /\ q.producer = u
Orderable(ts) ==
  \A s \in (SUBSET ts) \ {{}} : \E t \in s : \A u \in s : ~Feeds(u, t)

(* A bundle called ready can be run: every required input of its target    *)
(* and of the tools added for it is served within the bundle, and no tools *)
(* wait for each other (closure_status = "ready" is what a planner acts    *)
(* on; a gap, a cycle or a schema the budget left out must show).          *)
ReadyIsRunnable ==
  status = "ready" =>
    /\ \A t \in ToSet(RequiredOrder) : \A c \in ToSet(r.consumes[t]) :
         RequiredData(c) => Served(t, c)
    /\ Orderable(ToSet(RequiredOrder))

(* The budget never trades the chain for something else: a schema that is  *)
(* not required is only admitted when the target and every tool required   *)
(* for it are, and no more tokens are spent than allowed.                  *)
BudgetKeepsChain ==
  /\ r.budget # NoLimit => Tokens(admitted) <= r.budget
  /\ ToSet(admitted) \ ToSet(RequiredOrder) # {} => Missing = {}

(* A tool that changes something is added to a plan, or offered in place   *)
(* of one that is, only when the caller opted in and the query itself asks *)
(* for a change; an opt-in left on does not let a question write.          *)
MutationsAreAllowed ==
  \/ MutationsAllowed
  \/ /\ (ToSet(required) \cup ToSet(optional)) \cap r.mutating = {}
     /\ \A a \in alternatives : ToSet(a.names) \cap r.mutating = {}

(* The advice to go on with the admitted candidates is sound: nothing that *)
(* scored better was left out, the minimum is there, and the names the     *)
(* caller insists on were not lost to the score, the limit or a group.     *)
AdviceIsSound ==
  LET in(i) == Holds(admission.shown, admission.order[i]) IN
  /\ admission.advice = "select_target" =>
       /\ \A i, j \in DOMAIN admission.order : in(j) /\ i < j => in(i)
       /\ Len(admission.shown) >= Min({r.targets.least, Len(admission.order)})
  /\ \A i \in DOMAIN admission.order :
       LET t == admission.order[i] IN
       t \in r.targets.keep => in(i) \/ admission.reasons[t] = "token_budget_exceeded"

(* A choice that could have gone the other way is reported: when another   *)
(* candidate that is not the same operation scored as well as the target,  *)
(* or nearly, the caller is told that the target is ambiguous, whether the *)
(* model or the score made the choice.  An override is weighed against the *)
(* field it was made in: the siblings of the model's target when only they *)
(* were compared.                                                          *)
Settled == Len(stack) = 1 /\ stack[1].graph = 1 /\ stack[1].row = 1
Weighed(names, rows) ==
  ToSet(IF verdict.overrode THEN Field(r.targets, names, rows, llm) ELSE names)
Within(margin, rows, among) ==
  {t \in among \ {target} :
     /\ ~SameOperation(r.targets.tool[target], r.targets.tool[t])
     /\ rows[t].score >= rows[target].score - margin}
TieAmong(names, rows) ==
  Within(AmbiguityMargin, rows, Weighed(names, rows)) # {} => verdict.ambiguous
AllContenders == Contenders(r.targets, others, llm)
TieIsReported ==
  Settled /\ target \in DOMAIN r.targets.tool => TieAmong(AllContenders, Rows(r.targets, AllContenders))

(* What the documentation promises of an override: the winner has a clear  *)
(* margin over the model's target and over the runner-up.                  *)
OverrideIsClear ==
  Settled /\ target \in DOMAIN r.targets.tool /\ verdict.overrode =>
    Within(OverrideMargin - 1, Rows(r.targets, AllContenders), ToSet(AllContenders)) = {}

(* The two verdicts a caller acts on without looking further, to go on     *)
(* with the admitted candidates and to take the target as settled, are     *)
(* given only when they are so.                                            *)
VerdictsAreSound == AdviceIsSound /\ TieIsReported

(* What the planner is offered around the target is enough to chain.  By   *)
(* the producers looked up around it: with hops enough to cross the        *)
(* catalog and a producer allowed for a row, a required row of an offered  *)
(* tool that some other tool yields is yielded by an offered one.          *)
OfferHasProducers ==
  /\ offered # NoOffer /\ ~offered.closure
  /\ r.offer.hops >= Cardinality(r.tools) - 1 /\ r.offer.width > 0
  => \A t \in ToSet(offered.candidates) \cap r.tools : \A c \in ToSet(r.consumes[t]) :
      Needed(c) /\ Producers(r, t, c) # {} =>
        Producers(r, t, c) \cap ToSet(offered.candidates) # {}

(* By the closure: when it found no gap and no cycle, a required row of    *)
(* the target or of a tool it requires is the caller's, asked of the user, *)
(* or yielded by another offered tool.                                     *)
OfferHasChain ==
  offered.closure /\ unresolved = {} /\ cycles = {} =>
    \A t \in ToSet(RequiredOrder) : \A c \in ToSet(r.consumes[t]) :
      RequiredData(c) =>
        \/ KeyOf(c) \in r.available
        \/ \E s \in slots : s.tool = t /\ s.key = KeyOf(c)
        \/ \E u \in ToSet(offered.candidates) \ {t} : \E p \in ToSet(r.produces[u]) : Yields(p, c)
OfferIsClosed == OfferHasProducers /\ OfferHasChain

(* The surface keeps its limit, the target, and, when groups are to be     *)
(* diverse, shows no second tool of a group while another group has none.  *)
SurfaceIsFair ==
  offered # NoOffer =>
    LET shown == ToSet(offered.targets)
        members(g) == {t \in shown : Group(r.targets, t) = g} IN
    /\ r.offer.limit # NoCap => Len(offered.targets) <= r.offer.limit
    /\ target \in ToSet(r.targets.names) => target \in shown
    /\ r.offer.diverse /\ Groups(r.targets, r.targets.names) # Groups(r.targets, offered.targets) =>
         \A g \in Groups(r.targets, offered.targets) : Cardinality(members(g) \ {target}) <= 1

(* What the planner is offered is enough, and fair.                        *)
OfferIsSound == OfferIsClosed /\ SurfaceIsFair

(* The roles of a bundle are separate: no tool is both required and        *)
(* optional.                                                               *)
RolesAreSeparate == Closed => ToSet(required) \cap ToSet(optional) = {}
=============================================================================
