------------------------------- MODULE Plans -------------------------------
(***************************************************************************)
(* The plan artifact, the static questions asked of it and its repair:     *)
(* plan/schema.py (PlanStep, Plan), plan/binding.py (resolve_bindings),    *)
(* plan/deps.py (binding_heads, is_output_consumed), plan/repair.py        *)
(* (PlanRepairer).                                                         *)
(*                                                                         *)
(* A plan is a sequence of steps.  The arguments of a step are abstracted  *)
(* to the set of ${head.path} placeholders they contain (a literal can     *)
(* never fail to resolve).  A path is abstracted to the field it ends in,  *)
(* a tool's output to where each field sits relative to the path the plan  *)
(* declares for it.                                                        *)
(***************************************************************************)
EXTENDS Naturals, Sequences, FiniteSets

CONSTANTS
  Tools,    \* names of the tools of the graph
  Fields,   \* response fields a binding path may end in
  Keys,     \* keys of the entities dict: field names and semantic tags
  Ids,      \* step ids ("s1", "s2", ...)
  Whole,    \* the empty path: ${s1} is the whole output of s1
  NoTool    \* metadata without a "target" (a hand-written plan)

InputHeads == {"input", "user_input"}

ASSUME PlansAssumption ==
  /\ Ids \cap InputHeads = {}
  /\ Whole \notin Fields
  /\ Fields \subseteq Keys
  /\ NoTool \notin Tools

Heads == Ids \cup InputHeads

Binding == [head : Heads, field : Fields \cup {Whole}]

Step == [id : Ids, tool : Tools, args : SUBSET Binding, retryable : BOOLEAN]

(* out is the output_binding: a set of at most one binding.                *)
Plan == [steps    : Seq(Step),
         out      : SUBSET Binding,
         target   : Tools \cup {NoTool},
         entities : SUBSET Keys]

(* Where a response holds a field: at the declared path; elsewhere, with a *)
(* single best candidate; elsewhere, at several equally good places; not   *)
(* at all.                                                                 *)
Place == {"declared", "moved", "ambiguous", "absent"}
Shape == [Fields -> Place]

(* An entry of the runtime context.  by and gen are history: the tool that *)
(* was called and the number of the plan it was called for.                *)
Output == [by : Tools \cup {NoTool}, gen : Nat, at : Shape]

(* The dict the caller supplies under input / user_input; a repair updates *)
(* it with the entities of the new plan.  An empty dict is left out.       *)
NoInput == [f \in Fields |-> "absent"]

UpdateInput(base, entities) ==
  [f \in Fields |-> IF f \in entities THEN "declared" ELSE base[f]]

InputContext(shape, gen) ==
  [h \in InputHeads |-> [by |-> NoTool, gen |-> gen, at |-> shape]]

EmptyContext == [h \in {} |-> [by |-> NoTool, gen |-> 0, at |-> NoInput]]
----------------------------------------------------------------------------
(* _lookup: the head must be a key of the context and every segment of the *)
(* path must exist.                                                        *)
Resolves(b, context) ==
  /\ b.head \in DOMAIN context
  /\ b.field # Whole => context[b.head].at[b.field] = "declared"

(* _recover_one_binding: the head is known, the path names a field, and    *)
(* find_value_paths has one clear winner.                                  *)
Recoverable(b, context) ==
  /\ b.head \in DOMAIN context
  /\ b.field # Whole
  /\ context[b.head].at[b.field] \in {"declared", "moved"}

BindingHeads(bindings) == {b.head : b \in bindings}

(* Mutant of IsOutputConsumed: the final answer is forgotten.              *)
IsOutputConsumedLaterOnly(plan, i) ==
  \E j \in i+1 .. Len(plan.steps) :
     plan.steps[i].id \in BindingHeads(plan.steps[j].args)

(* Is the output of step i used by a later step or by the final answer?    *)
IsOutputConsumed(plan, i) ==
  \/ \E j \in i+1 .. Len(plan.steps) :
        plan.steps[i].id \in BindingHeads(plan.steps[j].args)
  \/ plan.steps[i].id \in BindingHeads(plan.out)

(* The ids of a plan name its steps one to one (s1..sN).                   *)
DistinctIds(plan) ==
  \A i, j \in DOMAIN plan.steps :
     plan.steps[i].id = plan.steps[j].id => i = j

(* A plan with metadata.target ends in the one step that calls the target  *)
(* and answers with its output; only the synthesizer writes that metadata. *)
EndsInTarget(plan) ==
  plan.target # NoTool =>
    LET n == Len(plan.steps) IN
    /\ n > 0
    /\ \A i \in 1 .. n : plan.steps[i].tool = plan.target <=> i = n
    /\ plan.out = {[head |-> plan.steps[n].id, field |-> Whole]}
----------------------------------------------------------------------------
(* plan/repair.py: PlanRepairer re-synthesizes a plan around a failed step.*)
(* The synthesizer and the extraction of entities from an output are       *)
(* parameters here, with the part of their contract the runner relies on;  *)
(* module PlanExecution supplies the real ones.                            *)
CONSTANTS
  Resynthesize(_, _, _),  \* (target, entities, excluded): a plan or NoPlan
  Extract(_, _),          \* (tool, shape of its output): set of keys
  NoPlan                  \* synthesis raised PlanSynthesisError

(* What PathSynthesizer.synthesize guarantees of a plan it returns: it is  *)
(* for the requested target and entities, its steps have distinct ids, and *)
(* no step but the target's calls an excluded tool.                        *)
ResynthesizeContract(t, ents, excl) ==
  LET p == Resynthesize(t, ents, excl) IN
  p # NoPlan =>
    /\ p \in Plan
    /\ p.target = t
    /\ p.entities = ents
    /\ DistinctIds(p)
    /\ EndsInTarget(p)
    /\ \A i \in DOMAIN p.steps : p.steps[i].tool \notin excl \ {t}

ASSUME RepairAssumption ==
  /\ NoPlan \notin Plan
  /\ \A t \in Tools : \A s \in Shape : Extract(t, s) \in SUBSET Keys
  /\ \A t \in Tools : \A ents \in SUBSET Keys : \A excl \in SUBSET Tools :
        ResynthesizeContract(t, ents, excl)
----------------------------------------------------------------------------
(* The outputs of the completed steps before position i.                   *)
CompletedSteps(plan, i, context) ==
  {j \in 1 .. i-1 : plan.steps[j].id \in DOMAIN context}

(* Mutant of Augmented: what earlier repairs learnt is forgotten.          *)
AugmentedAfresh(plan, completed, context) ==
  UNION {Extract(plan.steps[j].tool, context[plan.steps[j].id].at) : j \in completed}

(* augmented_entities: the plan's own entities and those of the outputs.   *)
Augmented(plan, completed, context) ==
  plan.entities \cup
    UNION {Extract(plan.steps[j].tool, context[plan.steps[j].id].at) : j \in completed}

(* Mutant of ExcludedAfter: forgets the tools excluded by earlier repairs. *)
ExcludedOnlyFailed(plan, i, excluded) == {plan.steps[i].tool}

ExcludedAfter(plan, i, excluded) == excluded \cup {plan.steps[i].tool}

(* Mutant of RepairedPlan: repairs a failed target as well.                *)
RepairedPlanOfAny(plan, i, context, excluded) ==
  IF plan.target = NoTool
  THEN NoPlan
  ELSE Resynthesize(plan.target,
                    Augmented(plan, CompletedSteps(plan, i, context), context),
                    ExcludedAfter(plan, i, excluded))

(* repair(): declined when the plan names no target or the target itself   *)
(* failed; otherwise a new synthesis of the same target.                   *)
RepairedPlan(plan, i, context, excluded) ==
  IF plan.target \in {NoTool, plan.steps[i].tool}
  THEN NoPlan
  ELSE Resynthesize(plan.target,
                    Augmented(plan, CompletedSteps(plan, i, context), context),
                    ExcludedAfter(plan, i, excluded))
============================================================================
