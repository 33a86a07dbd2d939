--------------------------- MODULE PlanExecution ---------------------------
(***************************************************************************)
(* The runner, the repairer and the synthesizer together: PlanRunner       *)
(* executes plans that Synthesizer built from a graph, and a repair        *)
(* extracts entities from real outputs (plan/extraction.py) and goes back  *)
(* to the synthesizer.                                                     *)
(***************************************************************************)
EXTENDS PlanRunner

CONSTANTS
  Graph,       \* the graph, see Synthesizer
  ToolOrder,
  Fold(_),
  IdOf(_),     \* the id of the n-th step: "s" followed by n
  Requests     \* records [target, ents] of the plans synthesized at the start

Syn == INSTANCE Synthesizer

Rows(tool) == Syn!Rows(Graph.produces[tool])

(* Rewriting of tool names to step ids (_rewrite_tool_refs) and of user    *)
(* slots; entities and defaults are literals.                              *)
Placeholder(steps, fill, field) ==
  CASE fill.kind = "slot" -> {[head |-> "user_input", field |-> field]}
    [] fill.kind = "bind" ->
         {[head |-> IdOf(CHOOSE i \in DOMAIN steps : steps[i].tool = fill.from),
           field |-> fill.field]}
    [] OTHER -> {}

FinalStep(steps, i) ==
  [id |-> IdOf(i), tool |-> steps[i].tool, retryable |-> FALSE,
   args |-> UNION {Placeholder(steps, steps[i].args[f], f) : f \in DOMAIN steps[i].args}]

(* The Plan built at the end of synthesize, or NoPlan when it raises.      *)
PlanOf(target, ents, r) ==
  IF r.err # "" THEN NoPlan
  ELSE [steps    |-> [i \in DOMAIN r.steps |-> FinalStep(r.steps, i)],
        out      |-> {[head |-> IdOf(Len(r.steps)), field |-> Whole]},
        target   |-> target,
        entities |-> ents]

SynthesizedPlan(target, ents, excl) ==
  PlanOf(target, ents, Syn!Synthesize(Graph, target, ents, excl))

(* extract_produced_entities: a declared row is found at its path, or by   *)
(* name anywhere in the response, the first hit winning; its value is      *)
(* registered under the row's field name and its tag.                      *)
ExtractedEntities(tool, shape) ==
  UNION {{p.field, p.tag} \ {""} : p \in {p \in Rows(tool) : shape[p.field] # "absent"}}

(* What the tools may answer: each declared field anywhere or nowhere; a   *)
(* name the tool does not declare is at most found under another spelling. *)
DeclaredFields(tool) == {p.field : p \in Rows(tool)}

NearPlace(tool, shape, f) ==
  LET near == {h \in DeclaredFields(tool) : Fold(h) = Fold(f) /\ shape[h] # "absent"} IN
  IF near = {} THEN "absent"
  ELSE IF Cardinality(near) > 1 \/ \E h \in near : shape[h] = "ambiguous" THEN "ambiguous"
  ELSE "moved"

PossibleResponses(tool) ==
  {s \in Shape : \A f \in Fields \ DeclaredFields(tool) : s[f] = NearPlace(tool, s, f)}

SynthesizedPlans ==
  {SynthesizedPlan(r.target, r.ents, {}) : r \in Requests} \ {NoPlan}
----------------------------------------------------------------------------
Consumers(tool, head) ==
  {row \in UNION {Syn!Rows(Graph.consumes[plan.steps[i].tool]) : i \in DOMAIN plan.steps} :
     \E i \in DOMAIN plan.steps :
       /\ row \in Syn!Rows(Graph.consumes[plan.steps[i].tool])
       /\ \E b \in plan.steps[i].args : b.head = head /\ Fold(b.field) = Fold(row.field)}

(* A tool that completed is chained again by a repair only to obtain a     *)
(* value its first output did not yield under the name the consumer asks   *)
(* for: what was extracted once is never fetched twice, even two repairs   *)
(* later (entities are folded in cumulatively by PlanRepairer).            *)
RerunOnlyForLostValue ==
  \A k \in DOMAIN calls : \A i \in DOMAIN plan.steps :
    calls[k].ok /\ calls[k].gen < repairsDone /\ plan.steps[i].tool = calls[k].tool =>
      \E row \in Consumers(calls[k].tool, plan.steps[i].id) :
        {row.field, row.tag} \cap calls[k].got = {}

(* "Won't re-chain the producers that already ran": a tool whose output    *)
(* yielded every value it declares is not called again for a later plan.   *)
CompletedNotRerun ==
  \A k \in DOMAIN calls : \A m \in DOMAIN calls :
    /\ calls[k].ok /\ DeclaredFields(calls[k].tool) \subseteq calls[k].got
    /\ calls[k].gen < calls[m].gen
    => calls[m].tool # calls[k].tool

(* The runner detects a user_input placeholder at step-start and asks for  *)
(* the value: a missing one does not end the run.                          *)
MissingInputIsAsked ==
  outcome.kind = "binding" =>
    \A b \in current.args : b.head = "user_input" => Resolves(b, context)
============================================================================
