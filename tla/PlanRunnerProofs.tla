-------------------------- MODULE PlanRunnerProofs --------------------------
(***************************************************************************)
(* Proofs about PlanRunner, for every synthesizer that keeps its contract  *)
(* (RepairAssumption), every configuration, every set of initial plans and *)
(* every behaviour of the tools.                                           *)
(***************************************************************************)
EXTENDS ObservedRun, FiniteSetTheorems, WellFoundedInduction, TLAPS

(* Folding the entities of completed steps into the plan's own keeps them  *)
(* keys (PlanRepairer.repair, augmented_entities).                         *)
LEMMA AugmentedType ==
  ASSUME NEW p \in Plan, NEW i \in DOMAIN p.steps, NEW ctx,
         ctx \in [DOMAIN ctx -> Output]
  PROVE  Augmented(p, CompletedSteps(p, i, ctx), ctx) \in SUBSET Keys
<1>1. \A j \in CompletedSteps(p, i, ctx) :
         Extract(p.steps[j].tool, ctx[p.steps[j].id].at) \in SUBSET Keys
  <2> TAKE j \in CompletedSteps(p, i, ctx)
  <2>1. j \in DOMAIN p.steps /\ p.steps[j].id \in DOMAIN ctx
    BY DEF CompletedSteps, Plan
  <2>2. p.steps[j] \in Step
    BY <2>1 DEF Plan
  <2>3. ctx[p.steps[j].id].at \in Shape
    BY <2>1 DEF Output
  <2> QED
    BY <2>2, <2>3, RepairAssumption DEF Step
<1>2. p.entities \in SUBSET Keys
  BY DEF Plan
<1> QED
  BY <1>1, <1>2 DEF Augmented

(* What a replacement for the plan being executed looks like: a well-typed *)
(* plan for the same target, none of whose steps calls an excluded tool.   *)
LEMMA ReplacementContract ==
  ASSUME TypeOK, pc = "raised", Replacement # NoPlan
  PROVE  /\ Replacement \in Plan
         /\ DistinctIds(Replacement)
         /\ EndsInTarget(Replacement)
         /\ Replacement.target = plan.target
         /\ plan.target \in Tools
         /\ plan.target # current.tool
         /\ \A i \in DOMAIN Replacement.steps :
              Replacement.steps[i].tool \notin
                ExcludedAfter(plan, idx, excluded) \ {plan.target}
<1> DEFINE ents == Augmented(plan, CompletedSteps(plan, idx, context), context)
           excl == ExcludedAfter(plan, idx, excluded)
<1>1. idx \in DOMAIN plan.steps /\ plan \in Plan
  BY DEF TypeOK, Plan
<1>2. ents \in SUBSET Keys
  BY <1>1, AugmentedType DEF TypeOK
<1>3. plan.steps[idx] \in Step
  BY <1>1 DEF Plan
<1>4. excl \in SUBSET Tools
  BY <1>3 DEF ExcludedAfter, TypeOK, Step
<1>5. Replacement = RepairedPlan(plan, idx, context, excluded)
  BY DEF Replacement
<1>6. /\ plan.target \notin {NoTool, current.tool}
      /\ Replacement = Resynthesize(plan.target, ents, excl)
  BY <1>5 DEF RepairedPlan, current
<1>7. plan.target \in Tools
  BY <1>1, <1>6 DEF Plan
<1>8. ResynthesizeContract(plan.target, ents, excl)
  BY <1>2, <1>4, <1>7, RepairAssumption
<1> HIDE DEF ents, excl
<1>9. excl = ExcludedAfter(plan, idx, excluded)
  BY DEF excl
<1> QED
  BY <1>6, <1>7, <1>8, <1>9 DEF ResynthesizeContract
----------------------------------------------------------------------------
LEMMA InitTypeOK == Init => TypeOK
<1> SUFFICES ASSUME Init PROVE TypeOK
  OBVIOUS
<1>1. plan \in Plan /\ DistinctIds(plan)
  BY RunnerAssumption DEF Init
<1>2. Len(plan.steps) \in Nat
  BY <1>1 DEF Plan
<1>3. 1 \in 1 .. Len(plan.steps) + 1
  BY <1>2
<1>4. DOMAIN context = {} /\ context \in [DOMAIN context -> Output]
  BY DEF Init, EmptyContext
<1>5. calls \in Seq([tool : Tools, gen : Nat, step : Nat, ok : BOOLEAN,
                     got : SUBSET Keys])
  BY DEF Init
<1> QED
  BY <1>1, <1>3, <1>4, <1>5 DEF Init, TypeOK, Terminal

(* The dict the caller or a repair binds under input and user_input is a   *)
(* well-typed context.                                                     *)
LEMMA InputContextType ==
  ASSUME NEW shape \in Shape, NEW gen \in Nat
  PROVE  /\ DOMAIN InputContext(shape, gen) = InputHeads
         /\ InputContext(shape, gen) \in [InputHeads -> Output]
<1>1. [by |-> NoTool, gen |-> gen, at |-> shape] \in Output
  BY DEF Output
<1> QED
  BY <1>1 DEF InputContext

LEMMA ConfType ==
  ASSUME TypeOK
  PROVE  conf \in Configuration
BY RunnerAssumption DEF TypeOK

(* What the step being executed is, when there is one.                     *)
LEMMA CurrentType ==
  ASSUME TypeOK, idx <= Len(plan.steps)
  PROVE  /\ idx \in DOMAIN plan.steps
         /\ idx \in Nat
         /\ current \in Step
         /\ Len(plan.steps) \in Nat
         /\ DOMAIN plan.steps = 1 .. Len(plan.steps)
<1>1. plan.steps \in Seq(Step)
  BY DEF TypeOK, Plan
<1>2. idx \in 1 .. Len(plan.steps)
  BY <1>1 DEF TypeOK
<1> QED
  BY <1>1, <1>2 DEF current

LEMMA NextTypeOK == TypeOK /\ [Next]_vars => TypeOK'
<1> SUFFICES ASSUME TypeOK, [Next]_vars PROVE TypeOK'
  OBVIOUS
<1>1. CASE Start
  <2>1. conf.input \in Shape
    BY ConfType DEF Configuration
  <2>2. /\ DOMAIN InputContext(conf.input, 0) = InputHeads
        /\ InputContext(conf.input, 0) \in [InputHeads -> Output]
    BY <2>1, InputContextType
  <2>3. DOMAIN EmptyContext = {} /\ EmptyContext \in [{} -> Output]
    BY DEF EmptyContext
  <2>4. DOMAIN context' \subseteq Heads /\ context' \in [DOMAIN context' -> Output]
    BY <1>1, <2>2, <2>3 DEF Start, Heads
  <2> QED
    BY <1>1, <2>4 DEF Start, TypeOK, Terminal
<1>2. CASE StartStep
  BY <1>2 DEF StartStep, TypeOK, Terminal
<1>3. CASE BindingAbort
  BY <1>3 DEF BindingAbort, TypeOK, Terminal
<1>4. CASE CallReturns
  <2>1. pc = "calling" /\ idx <= Len(plan.steps)
    BY <1>4 DEF CallReturns, TypeOK
  <2> USE CurrentType, <2>1
  <2>2. PICK shape \in Responses(current.tool) :
           context' = ContextWith(shape) /\ Record(TRUE, Extract(current.tool, shape))
    BY <1>4 DEF CallReturns
  <2>3. current.tool \in Tools /\ current.id \in Ids /\ shape \in Shape
    BY RunnerAssumption DEF Step
  <2>4. [by |-> current.tool, gen |-> repairsDone, at |-> shape] \in Output
    BY <2>3 DEF TypeOK, Output
  <2>5. DOMAIN context' \subseteq Heads /\ context' \in [DOMAIN context' -> Output]
    BY <2>2, <2>3, <2>4 DEF ContextWith, TypeOK, Heads
  <2>6. Extract(current.tool, shape) \in SUBSET Keys
    BY <2>3, RepairAssumption
  <2>7. calls' \in Seq([tool : Tools, gen : Nat, step : Nat, ok : BOOLEAN,
                        got : SUBSET Keys])
    BY <2>2, <2>3, <2>6 DEF Record, TypeOK
  <2>8. idx' \in 1 .. Len(plan'.steps) + 1 /\ attempts' \in Nat
    BY <1>4 DEF CallReturns, TypeOK
  <2> QED
    BY <1>4, <2>5, <2>7, <2>8 DEF CallReturns, TypeOK, Terminal
<1>5. CASE CallRaises
  <2>1. pc = "calling" /\ idx <= Len(plan.steps)
    BY <1>5 DEF CallRaises, TypeOK
  <2>2. calls' \in Seq([tool : Tools, gen : Nat, step : Nat, ok : BOOLEAN,
                        got : SUBSET Keys])
    BY <1>5, <2>1, CurrentType DEF CallRaises, Record, TypeOK, Step
  <2> QED
    BY <1>5, <2>1, <2>2 DEF CallRaises, TypeOK, Terminal
<1>6. CASE Retry
  BY <1>6 DEF Retry, TypeOK, Terminal
<1>7. CASE Skip
  <2>1. pc = "raised" /\ idx <= Len(plan.steps)
    BY <1>7 DEF Skip, Exhausted, TypeOK
  <2>2. idx' \in 1 .. Len(plan'.steps) + 1
    BY <1>7, <2>1, CurrentType DEF Skip, TypeOK
  <2> QED
    BY <1>7, <2>2 DEF Skip, TypeOK, Terminal
<1>8. CASE Repair
  <2>1. pc = "raised" /\ idx <= Len(plan.steps) /\ Replacement # NoPlan
    BY <1>8 DEF Repair, Exhausted, TypeOK
  <2>2. plan' \in Plan /\ DistinctIds(plan')
    BY <1>8, <2>1, ReplacementContract DEF Repair
  <2>3. Len(plan'.steps) \in Nat
    BY <2>2 DEF Plan
  <2>4. idx' \in 1 .. Len(plan'.steps) + 1
    BY <1>8, <2>3 DEF Repair, IndexAfterRepair
  <2>5. UpdateInput(conf.input, Replacement.entities) \in Shape
    BY ConfType DEF Configuration, UpdateInput, Shape, Place
  <2>6. repairsDone' = repairsDone + 1 /\ repairsDone + 1 \in Nat
    BY <1>8 DEF Repair, TypeOK
  <2>7. context' = InputContext(UpdateInput(conf.input, Replacement.entities), repairsDone + 1)
    BY <1>8 DEF Repair, ContextAfterRepair
  <2>8. DOMAIN context' \subseteq Heads /\ context' \in [DOMAIN context' -> Output]
    BY <2>5, <2>6, <2>7, InputContextType DEF Heads
  <2>9. excluded' \subseteq Tools
    BY <1>8, <2>1, CurrentType DEF Repair, ExcludedAfter, TypeOK, Step, current
  <2> QED
    BY <1>8, <2>2, <2>4, <2>6, <2>8, <2>9 DEF Repair, TypeOK, Terminal
<1>9. CASE CallAbort
  BY <1>9 DEF CallAbort, TypeOK, Terminal
<1>10. CASE Complete
  BY <1>10 DEF Complete, TypeOK, Terminal
<1>11. CASE OutputAbort
  BY <1>11 DEF OutputAbort, TypeOK, Terminal
<1>12. CASE Close
  BY <1>12 DEF Close, TypeOK, Terminal
<1>13. CASE UNCHANGED vars
  BY <1>13 DEF vars, TypeOK, DistinctIds
<1> QED
  BY <1>1, <1>2, <1>3, <1>4, <1>5, <1>6, <1>7, <1>8, <1>9, <1>10, <1>11, <1>12,
     <1>13 DEF Next, Advance, Done

(* Every variable of run_stream keeps its type and idx stays within the    *)
(* plan, whatever the plans, the repairs and the tools do.                 *)
THEOREM TypeCorrect == Spec => []TypeOK
<1> QED
  BY InitTypeOK, NextTypeOK, PTL DEF Spec
----------------------------------------------------------------------------
(* The strengthening behind ExcludedNeverCalled: the plan being executed   *)
(* names no excluded tool, and the target is never excluded (the repairer  *)
(* declines a failed target).                                              *)
PlanAvoidsExcluded ==
  /\ plan.target \notin excluded
  /\ \A i \in DOMAIN plan.steps : plan.steps[i].tool \notin excluded

LEMMA NextPlanAvoidsExcluded ==
  TypeOK /\ PlanAvoidsExcluded /\ [Next]_vars => PlanAvoidsExcluded'
<1> SUFFICES ASSUME TypeOK, PlanAvoidsExcluded, [Next]_vars
             PROVE  PlanAvoidsExcluded'
  OBVIOUS
<1>1. CASE Repair
  <2>1. pc = "raised" /\ Replacement # NoPlan
    BY <1>1 DEF Repair, Exhausted
  <2>2. plan' = Replacement /\ excluded' = ExcludedAfter(plan, idx, excluded)
    BY <1>1 DEF Repair
  <2>3. excluded' = excluded \cup {current.tool}
    BY <2>2 DEF ExcludedAfter, current
  <2>4. plan'.target \notin excluded'
    BY <2>1, <2>2, <2>3, ReplacementContract DEF PlanAvoidsExcluded
  <2>5. \A i \in DOMAIN plan'.steps : plan'.steps[i].tool \notin excluded'
    BY <2>1, <2>2, <2>4, ReplacementContract
  <2> QED
    BY <2>4, <2>5 DEF PlanAvoidsExcluded
<1>2. CASE UNCHANGED <<plan, excluded>>
  BY <1>2 DEF PlanAvoidsExcluded
<1> QED
  BY <1>1, <1>2 DEF Next, Advance, Done, vars, Start, StartStep, BindingAbort,
     CallReturns, CallRaises, Retry, Skip, CallAbort, Complete, OutputAbort, Close

LEMMA AlwaysPlanAvoidsExcluded == Spec => []PlanAvoidsExcluded
<1>1. Init => PlanAvoidsExcluded
  BY DEF Init, PlanAvoidsExcluded
<1> QED
  BY <1>1, TypeCorrect, NextPlanAvoidsExcluded, PTL DEF Spec

(* A call is always a call of the current step's tool.                     *)
LEMMA CallsCurrent ==
  ASSUME TypeOK, [Next]_vars, calls' # calls
  PROVE  idx \in DOMAIN plan.steps /\ calls'[Len(calls')].tool = current.tool
<1>1. CallReturns \/ CallRaises
  BY DEF Next, Advance, Done, vars, Start, StartStep, BindingAbort, Retry, Skip,
     Repair, CallAbort, Complete, OutputAbort, Close
<1>2. \E ok, got : Record(ok, got)
  BY <1>1 DEF CallReturns, CallRaises
<1>3. idx <= Len(plan.steps)
  BY <1>1 DEF CallReturns, CallRaises, TypeOK
<1>4. PICK c : calls' = Append(calls, c) /\ c.tool = current.tool
  BY <1>2 DEF Record
<1>5. calls'[Len(calls')] = c
  BY <1>4 DEF TypeOK
<1> QED
  BY <1>3, <1>4, <1>5, CurrentType

(* A tool excluded by a repair is never called again in the run.           *)
THEOREM ExcludedStaysUncalled == Spec => ExcludedNeverCalled
<1>1. TypeOK /\ PlanAvoidsExcluded /\ [Next]_vars
        => [calls' # calls => calls'[Len(calls')].tool \notin excluded]_vars
  BY CallsCurrent DEF PlanAvoidsExcluded, current
<1> QED
  BY <1>1, TypeCorrect, AlwaysPlanAvoidsExcluded, PTL DEF Spec, ExcludedNeverCalled
----------------------------------------------------------------------------
LEMMA NextContextFresh == TypeOK /\ ContextFresh /\ [Next]_vars => ContextFresh'
<1> SUFFICES ASSUME TypeOK, ContextFresh, [Next]_vars PROVE ContextFresh'
  OBVIOUS
<1>1. CASE Start
  BY <1>1 DEF Start, ContextFresh, InputContext, EmptyContext
<1>2. CASE CallReturns
  <2>1. pc = "calling" /\ idx <= Len(plan.steps)
    BY <1>2 DEF CallReturns, TypeOK
  <2>2. PICK shape : context' = ContextWith(shape)
    BY <1>2 DEF CallReturns
  <2>3. idx' = idx + 1 /\ UNCHANGED <<plan, repairsDone>>
    BY <1>2 DEF CallReturns
  <2> SUFFICES ASSUME NEW h \in DOMAIN context' \ InputHeads
               PROVE  \E i \in 1 .. idx'-1 :
                        /\ i \in DOMAIN plan'.steps
                        /\ plan'.steps[i].id = h
                        /\ context'[h].by = plan'.steps[i].tool
                        /\ context'[h].gen = repairsDone'
    BY DEF ContextFresh
  <2>4. CASE h = current.id
    <3>1. context'[h] = [by |-> current.tool, gen |-> repairsDone, at |-> shape]
      BY <2>2, <2>4 DEF ContextWith
    <3> QED
      BY <2>1, <2>3, <2>4, <3>1, CurrentType DEF current
  <2>5. CASE h # current.id
    <3>1. h \in DOMAIN context \ InputHeads /\ context'[h] = context[h]
      BY <2>2, <2>5 DEF ContextWith
    <3>2. PICK i \in 1 .. idx-1 :
             /\ i \in DOMAIN plan.steps
             /\ plan.steps[i].id = h
             /\ context[h].by = plan.steps[i].tool
             /\ context[h].gen = repairsDone
      BY <3>1 DEF ContextFresh
    <3>3. i \in 1 .. idx'-1
      BY <2>1, <2>3, CurrentType
    <3> QED
      BY <2>3, <3>1, <3>2, <3>3
  <2> QED
    BY <2>4, <2>5
<1>3. CASE Skip
  <2>1. idx' = idx + 1 /\ UNCHANGED <<plan, context, repairsDone>>
    BY <1>3 DEF Skip
  <2>2. idx \in Nat
    BY <1>3, CurrentType DEF Skip, Exhausted, TypeOK
  <2>3. 1 .. idx-1 \subseteq 1 .. idx'-1
    BY <2>1, <2>2
  <2> QED
    BY <2>1, <2>3 DEF ContextFresh
<1>4. CASE Repair
  BY <1>4 DEF Repair, ContextFresh, ContextAfterRepair, InputContext
<1>5. CASE UNCHANGED <<plan, idx, context, repairsDone>>
  BY <1>5 DEF ContextFresh
<1> QED
  BY <1>1, <1>2, <1>3, <1>4, <1>5 DEF Next, Advance, Done, vars, StartStep,
     BindingAbort, CallRaises, Retry, CallAbort, Complete, OutputAbort, Close

(* An output bindings can resolve against was always returned by the step  *)
(* of the current plan whose id it is stored under.                        *)
THEOREM ContextStaysFresh == Spec => []ContextFresh
<1>1. Init => ContextFresh
  BY DEF Init, ContextFresh, EmptyContext
<1> QED
  BY <1>1, TypeCorrect, NextContextFresh, PTL DEF Spec
----------------------------------------------------------------------------
(* The strengthening behind SkipIsSafe: a step passed over without an      *)
(* output is consumed by no later step of the plan and not by its answer.  *)
SkippedUnused ==
  \A i \in 1 .. idx-1 :
    i \in DOMAIN plan.steps /\ plan.steps[i].id \notin DOMAIN context
      => ~IsOutputConsumed(plan, i)

(* A run starts on its first step, a terminal event is the last thing that *)
(* happens, and a binding error is that of a step of the plan.             *)
RunPhases ==
  /\ pc = "new" => idx = 1
  /\ outcome.kind # "none" => pc \in Terminal
  /\ outcome.kind = "binding" => idx <= Len(plan.steps)

LEMMA NextRunPhases == TypeOK /\ RunPhases /\ [Next]_vars => RunPhases'
<1> SUFFICES ASSUME TypeOK, RunPhases, [Next]_vars PROVE RunPhases'
  OBVIOUS
<1>1. CASE BindingAbort
  BY <1>1 DEF BindingAbort, RunPhases, Terminal
<1>2. CASE CallAbort
  BY <1>2 DEF CallAbort, Outcome, NoOutcome, RunPhases, Terminal
<1>3. CASE OutputAbort
  BY <1>3 DEF OutputAbort, Outcome, NoOutcome, RunPhases, Terminal
<1>4. CASE Complete
  <2>1. outcome'.kind = "completed"
    BY <1>4 DEF Complete, Outcome, NoOutcome
  <2> QED
    BY <1>4, <2>1 DEF Complete, RunPhases, Terminal
<1>5. CASE /\ UNCHANGED outcome
           /\ pc \notin Terminal
           /\ pc' # "new"
  BY <1>5 DEF RunPhases
<1>6. CASE UNCHANGED vars
  BY <1>6 DEF vars, RunPhases
<1> QED
  BY <1>1, <1>2, <1>3, <1>4, <1>5, <1>6 DEF Next, Advance, Done, Start, StartStep,
     CallReturns, CallRaises, Retry, Skip, Repair, Close, Exhausted, Terminal

LEMMA NextSkippedUnused ==
  TypeOK /\ RunPhases /\ SkippedUnused /\ [Next]_vars => SkippedUnused'
<1> SUFFICES ASSUME TypeOK, RunPhases, SkippedUnused, [Next]_vars
             PROVE  SkippedUnused'
  OBVIOUS
<1>1. CASE Start
  BY <1>1 DEF Start, RunPhases, SkippedUnused
<1>2. CASE CallReturns
  <2>1. /\ idx <= Len(plan.steps) /\ idx' = idx + 1 /\ plan' = plan
        /\ DOMAIN context' = DOMAIN context \cup {current.id}
    BY <1>2 DEF CallReturns, TypeOK, ContextWith
  <2> SUFFICES ASSUME NEW i \in 1 .. idx'-1, i \in DOMAIN plan'.steps,
                      plan'.steps[i].id \notin DOMAIN context'
               PROVE  ~IsOutputConsumed(plan', i)
    BY DEF SkippedUnused
  <2>2. i # idx
    BY <2>1 DEF current
  <2>3. i \in 1 .. idx-1
    BY <2>1, <2>2, CurrentType
  <2> QED
    BY <2>1, <2>3 DEF SkippedUnused
<1>3. CASE Skip
  <2>1. /\ idx <= Len(plan.steps) /\ idx' = idx + 1 /\ UNCHANGED <<plan, context>>
        /\ ~IsOutputConsumed(plan, idx)
    BY <1>3 DEF Skip, Exhausted, Skippable, TypeOK
  <2> SUFFICES ASSUME NEW i \in 1 .. idx'-1, i \in DOMAIN plan'.steps,
                      plan'.steps[i].id \notin DOMAIN context'
               PROVE  ~IsOutputConsumed(plan', i)
    BY DEF SkippedUnused
  <2>2. i = idx \/ i \in 1 .. idx-1
    BY <2>1, CurrentType
  <2> QED
    BY <2>1, <2>2 DEF SkippedUnused
<1>4. CASE Repair
  BY <1>4 DEF Repair, IndexAfterRepair, SkippedUnused
<1>5. CASE UNCHANGED <<plan, idx, context>>
  BY <1>5 DEF SkippedUnused
<1> QED
  BY <1>1, <1>2, <1>3, <1>4, <1>5 DEF Next, Advance, Done, vars, StartStep,
     BindingAbort, CallRaises, Retry, CallAbort, Complete, OutputAbort, Close

LEMMA AlwaysSkippedUnused == Spec => [](RunPhases /\ SkippedUnused)
<1>1. Init => RunPhases /\ SkippedUnused
  BY DEF Init, RunPhases, SkippedUnused, NoOutcome
<1> QED
  BY <1>1, TypeCorrect, NextRunPhases, NextSkippedUnused, PTL DEF Spec

(* A safe skip is safe: no run is aborted over a binding to a skipped step.*)
THEOREM SkippingIsSafe == Spec => []SkipIsSafe
<1>1. TypeOK /\ RunPhases /\ SkippedUnused => SkipIsSafe
  <2> SUFFICES ASSUME TypeOK, RunPhases, SkippedUnused PROVE SkipIsSafe
    OBVIOUS
  <2> SUFFICES ASSUME NEW h \in SkippedIds
               PROVE  /\ outcome.kind = "binding" => h \notin BindingHeads(current.args)
                      /\ h \notin BindingHeads(plan.out)
    BY DEF SkipIsSafe
  <2>1. PICK i \in 1 .. idx-1 :
           /\ i \in DOMAIN plan.steps
           /\ plan.steps[i].id \notin DOMAIN context
           /\ plan.steps[i].id = h
    BY DEF SkippedIds
  <2>2. ~IsOutputConsumed(plan, i)
    BY <2>1 DEF SkippedUnused
  <2>3. h \notin BindingHeads(plan.out)
    BY <2>1, <2>2 DEF IsOutputConsumed
  <2>4. ASSUME outcome.kind = "binding" PROVE h \notin BindingHeads(current.args)
    <3>1. idx <= Len(plan.steps)
      BY <2>4 DEF RunPhases
    <3>2. idx \in i+1 .. Len(plan.steps)
      BY <2>1, <3>1, CurrentType
    <3> QED
      BY <2>1, <2>2, <3>2 DEF IsOutputConsumed, current
  <2> QED
    BY <2>3, <2>4
<1> QED
  BY <1>1, TypeCorrect, AlwaysSkippedUnused, PTL
----------------------------------------------------------------------------
(* run_stream implements EventStream: it settles each step it opens before *)
(* it opens the next, each repair bans exactly one more tool, and nothing  *)
(* follows the terminal event.                                             *)
THEOREM StreamRefined == Spec => StreamContract
<1>1. Init => Stream!Init
  BY DEF Init, Stream!Init, Terminal
<1>2. TypeOK /\ PlanAvoidsExcluded /\ [Next]_vars => [Stream!Next]_(Stream!vars)
  <2> SUFFICES ASSUME TypeOK, PlanAvoidsExcluded, [Next]_vars
               PROVE  [Stream!Next]_(Stream!vars)
    OBVIOUS
  <2>1. CASE Start
    BY <2>1 DEF Start, Stream!vars, Terminal
  <2>2. CASE StartStep
    <3>1. current.id \in Ids /\ current.id # NoId
      BY <2>2, CurrentType, RunnerAssumption DEF StartStep, Step
    <3>2. current' = current
      BY <2>2 DEF StartStep, current
    <3> QED
      BY <2>2, <3>1, <3>2 DEF StartStep, Stream!Next, Stream!Open, Terminal
  <2>3. CASE BindingAbort
    BY <2>3 DEF BindingAbort, Stream!Next, Stream!End, Stream!Ends, Terminal
  <2>4. ASSUME pc \in {"calling", "raised"}
        PROVE  current.id \in Ids /\ current.id # NoId /\ current.tool \in Tools \ excluded
    BY <2>4, CurrentType, RunnerAssumption DEF TypeOK, Step, PlanAvoidsExcluded, current
  <2>5. CASE CallReturns
    BY <2>5, <2>4 DEF CallReturns, Stream!Next, Stream!Settle, Terminal
  <2>6. CASE CallRaises
    <3>1. current' = current
      BY <2>6 DEF CallRaises, current
    <3> QED
      BY <2>6, <3>1 DEF CallRaises, Stream!vars, Terminal
  <2>7. CASE Retry
    <3>1. current' = current
      BY <2>7 DEF Retry, current
    <3> QED
      BY <2>7, <3>1 DEF Retry, Stream!vars, Terminal
  <2>8. CASE Skip
    BY <2>8, <2>4 DEF Skip, Exhausted, Stream!Next, Stream!Settle, Terminal
  <2>9. CASE Repair
    <3>1. excluded' = excluded \cup {current.tool}
      BY <2>9 DEF Repair, ExcludedAfter, current
    <3> QED
      BY <2>9, <3>1, <2>4 DEF Repair, Exhausted, Stream!Next, Stream!Replace, Terminal
  <2>10. CASE CallAbort
    BY <2>10, <2>4 DEF CallAbort, Exhausted, Stream!Next, Stream!End, Stream!Ends, Terminal
  <2>11. CASE Complete
    BY <2>11 DEF Complete, Stream!Next, Stream!End, Stream!Ends, Terminal
  <2>12. CASE OutputAbort
    BY <2>12 DEF OutputAbort, Stream!Next, Stream!End, Stream!Ends, Terminal
  <2>13. CASE Close
    BY <2>13, <2>4 DEF Close, Stream!Next, Stream!End, Stream!Ends, Terminal
  <2>14. CASE UNCHANGED vars
    <3>1. current' = current
      BY <2>14 DEF vars, current
    <3> QED
      BY <2>14, <3>1 DEF vars, Stream!vars
  <2> QED
    BY <2>1, <2>2, <2>3, <2>5, <2>6, <2>7, <2>8, <2>9, <2>10, <2>11, <2>12, <2>13,
       <2>14 DEF Next, Advance, Done
<1> QED
  BY <1>1, <1>2, TypeCorrect, AlwaysPlanAvoidsExcluded, PTL
     DEF Spec, StreamContract, Stream!Spec
----------------------------------------------------------------------------
(* The calls of a history that were made for one step of one plan.         *)
CallsOf(s, gen, i) == {k \in DOMAIN s : s[k].gen = gen /\ s[k].step = i}

LEMMA CallsOfFinite ==
  ASSUME NEW T, NEW s \in Seq(T), NEW gen, NEW i
  PROVE  /\ IsFiniteSet(CallsOf(s, gen, i))
         /\ Cardinality(CallsOf(s, gen, i)) \in Nat
         /\ CallsOf(s, gen, i) \subseteq 1 .. Len(s)
<1>1. CallsOf(s, gen, i) \in SUBSET (1 .. Len(s)) /\ Len(s) \in Nat
  BY DEF CallsOf
<1>2. IsFiniteSet(1 .. Len(s))
  BY <1>1, FS_Interval
<1> QED
  BY <1>1, <1>2, FS_Subset, FS_CardinalityType

(* A call adds itself to the calls of its own step and to no other's.      *)
LEMMA CallsOfAppend ==
  ASSUME NEW T, NEW s \in Seq(T), NEW c \in T, NEW gen, NEW i
  PROVE  LET new == CallsOf(Append(s, c), gen, i)
             old == CallsOf(s, gen, i)
         IN  IF c.gen = gen /\ c.step = i
             THEN /\ new = old \cup {Len(s) + 1}
                  /\ Cardinality(new) = Cardinality(old) + 1
             ELSE new = old
<1>1. /\ Append(s, c) \in Seq(T) /\ Len(s) \in Nat
      /\ DOMAIN Append(s, c) = 1 .. Len(s) + 1 /\ DOMAIN s = 1 .. Len(s)
      /\ \A k \in 1 .. Len(s) : Append(s, c)[k] = s[k]
      /\ Append(s, c)[Len(s) + 1] = c
  OBVIOUS
<1>2. CASE c.gen = gen /\ c.step = i
  <2>1. CallsOf(Append(s, c), gen, i) = CallsOf(s, gen, i) \cup {Len(s) + 1}
    BY <1>1, <1>2 DEF CallsOf
  <2>2. Len(s) + 1 \notin CallsOf(s, gen, i)
    BY <1>1 DEF CallsOf
  <2>3. IsFiniteSet(CallsOf(s, gen, i))
    BY CallsOfFinite
  <2>4. Cardinality(CallsOf(s, gen, i) \cup {Len(s) + 1}) = Cardinality(CallsOf(s, gen, i)) + 1
    BY <2>2, <2>3, FS_AddElement
  <2> QED
    BY <1>2, <2>1, <2>4
<1>3. CASE ~(c.gen = gen /\ c.step = i)
  BY <1>1, <1>3 DEF CallsOf
<1> QED
  BY <1>2, <1>3


(* The strengthening behind CallBudgets, first what is called: no call is  *)
(* ahead of the run, those of the plan being executed called its steps'    *)
(* tools, and no plan that was replaced had called the target.             *)
CallsKeepPlace ==
  /\ EndsInTarget(plan)
  /\ \A k \in DOMAIN calls :
       /\ calls[k].gen <= repairsDone
       /\ calls[k].gen = repairsDone =>
            /\ calls[k].step <= idx
            /\ calls[k].step \in DOMAIN plan.steps
            /\ calls[k].tool = plan.steps[calls[k].step].tool
       /\ calls[k].gen # repairsDone => calls[k].tool # plan.target

(* Then how often: attempts counts the calls of the step being executed,   *)
(* none of which returned; every step of the plan is within its budget and *)
(* a call that returned was the step's last.                               *)
CallsCounted ==
  /\ pc \in {"new", "next"} => CallsOf(calls, repairsDone, idx) = {}
  /\ pc \in {"calling", "raised"} =>
       /\ pc = "raised" \/ attempts < MaxAttemptsFor(current)
       /\ Cardinality(CallsOf(calls, repairsDone, idx)) = attempts
       /\ \A k \in CallsOf(calls, repairsDone, idx) : ~calls[k].ok
  /\ \A i \in DOMAIN plan.steps :
       /\ Cardinality(CallsOf(calls, repairsDone, i)) <= MaxAttemptsFor(plan.steps[i])
       /\ \A k, m \in CallsOf(calls, repairsDone, i) : calls[k].ok => m <= k

LEMMA CallsType ==
  ASSUME TypeOK
  PROVE  /\ idx \in Nat /\ repairsDone \in Nat
         /\ \A k \in DOMAIN calls : /\ calls[k].gen \in Nat /\ calls[k].step \in Nat
                                    /\ calls[k].tool \in Tools
<1> DEFINE T == [tool : Tools, gen : Nat, step : Nat, ok : BOOLEAN, got : SUBSET Keys]
<1>1. calls \in Seq(T)
  BY DEF TypeOK
<1>2. \A c \in T : c.gen \in Nat /\ c.step \in Nat /\ c.tool \in Tools
  OBVIOUS
<1> HIDE DEF T
<1>3. \A k \in DOMAIN calls : calls[k] \in T
  BY <1>1
<1>4. Len(plan.steps) \in Nat
  BY DEF TypeOK, Plan
<1> QED
  BY <1>2, <1>3, <1>4 DEF TypeOK

LEMMA BudgetType ==
  ASSUME TypeOK, NEW step
  PROVE  MaxAttemptsFor(step) \in Nat /\ MaxAttemptsFor(step) >= 1
BY ConfType DEF MaxAttemptsFor, Configuration

(* What a call adds to the history: one record, of the step being executed.*)
LEMMA CallRecorded ==
  ASSUME TypeOK, CallReturns \/ CallRaises
  PROVE  LET n == Len(calls) + 1 IN
         /\ pc = "calling" /\ idx \in DOMAIN plan.steps
         /\ UNCHANGED <<conf, plan, repairsDone>>
         /\ attempts' = attempts + 1
         /\ DOMAIN calls = 1 .. Len(calls) /\ Len(calls) \in Nat
         /\ DOMAIN calls' = 1 .. n
         /\ \A k \in DOMAIN calls : calls'[k] = calls[k]
         /\ calls'[n].tool = current.tool
         /\ calls'[n].gen = repairsDone
         /\ calls'[n].step = idx
         /\ CallRaises => ~calls'[n].ok
         /\ \A gen, i : gen # repairsDone \/ i # idx =>
              CallsOf(calls', gen, i) = CallsOf(calls, gen, i)
         /\ CallsOf(calls', repairsDone, idx) = CallsOf(calls, repairsDone, idx) \cup {n}
         /\ Cardinality(CallsOf(calls', repairsDone, idx)) =
              Cardinality(CallsOf(calls, repairsDone, idx)) + 1
<1>1. /\ pc = "calling" /\ UNCHANGED <<conf, plan, repairsDone>>
      /\ attempts' = attempts + 1
  BY DEF CallReturns, CallRaises
<1>2. idx \in DOMAIN plan.steps /\ idx \in Nat /\ current \in Step
  BY <1>1, CurrentType DEF TypeOK
<1>3. PICK ok \in BOOLEAN, got \in SUBSET Keys : Record(ok, got) /\ (CallRaises => ~ok)
  <2>1. CASE CallRaises
    BY <2>1 DEF CallRaises
  <2>2. CASE CallReturns
    <3>1. PICK shape \in Responses(current.tool) : Record(TRUE, Extract(current.tool, shape))
      BY <2>2 DEF CallReturns
    <3>2. Extract(current.tool, shape) \in SUBSET Keys
      BY <1>2, RunnerAssumption, RepairAssumption DEF Step
    <3>3. pc' = "next"
      BY <2>2 DEF CallReturns
    <3>4. ~CallRaises
      BY <3>3 DEF CallRaises
    <3> QED
      BY <3>1, <3>2, <3>4
  <2> QED
    BY <2>1, <2>2
<1> DEFINE c == [tool |-> current.tool, gen |-> repairsDone, step |-> idx, ok |-> ok, got |-> got]
           T == [tool : Tools, gen : Nat, step : Nat, ok : BOOLEAN, got : SUBSET Keys]
<1>4. c \in T /\ calls \in Seq(T) /\ calls' = Append(calls, c)
  BY <1>2, <1>3 DEF Record, TypeOK, Step
<1>5. c.tool = current.tool /\ c.gen = repairsDone /\ c.step = idx /\ c.ok = ok
  OBVIOUS
<1> HIDE DEF c, T
<1>6. /\ DOMAIN calls = 1 .. Len(calls) /\ Len(calls) \in Nat
      /\ DOMAIN calls' = 1 .. Len(calls) + 1
      /\ \A k \in DOMAIN calls : calls'[k] = calls[k]
      /\ calls'[Len(calls) + 1] = c
  BY <1>4
<1>7. \A gen, i : gen # repairsDone \/ i # idx =>
              CallsOf(calls', gen, i) = CallsOf(calls, gen, i)
  BY <1>4, <1>5, CallsOfAppend
<1>8. /\ CallsOf(calls', repairsDone, idx) = CallsOf(calls, repairsDone, idx) \cup {Len(calls) + 1}
      /\ Cardinality(CallsOf(calls', repairsDone, idx)) =
              Cardinality(CallsOf(calls, repairsDone, idx)) + 1
  BY <1>4, <1>5, CallsOfAppend
<1> QED
  BY <1>1, <1>2, <1>3, <1>5, <1>6, <1>7, <1>8

LEMMA NextCallsKeepPlace ==
  TypeOK /\ CallsKeepPlace /\ [Next]_vars => CallsKeepPlace'
<1> SUFFICES ASSUME TypeOK, CallsKeepPlace, [Next]_vars PROVE CallsKeepPlace'
  OBVIOUS
<1>1. CASE CallReturns \/ CallRaises
  <2>1. idx \in Nat /\ idx' \in Nat /\ idx <= idx'
    <3>1. idx' = idx \/ idx' = idx + 1
      BY <1>1 DEF CallReturns, CallRaises
    <3> QED
      BY <3>1, CallsType
  <2>2. EndsInTarget(plan)'
    BY <1>1, CallRecorded DEF CallsKeepPlace, EndsInTarget
  <2> SUFFICES ASSUME NEW k \in DOMAIN calls'
               PROVE  /\ calls'[k].gen <= repairsDone'
                      /\ calls'[k].gen = repairsDone' =>
                           /\ calls'[k].step <= idx'
                           /\ calls'[k].step \in DOMAIN plan'.steps
                           /\ calls'[k].tool = plan'.steps[calls'[k].step].tool
                      /\ calls'[k].gen # repairsDone' => calls'[k].tool # plan'.target
    BY <2>2 DEF CallsKeepPlace
  <2>3. CASE k \in DOMAIN calls
    <3>1. calls'[k] = calls[k] /\ UNCHANGED <<plan, repairsDone>>
      BY <1>1, <2>3, CallRecorded
    <3>2. calls[k].step \in Nat
      BY <2>3, CallsType
    <3> QED
      BY <2>1, <2>3, <3>1, <3>2 DEF CallsKeepPlace
  <2>4. CASE k = Len(calls) + 1
    <3>1. /\ calls'[k].gen = repairsDone' /\ calls'[k].step = idx
          /\ calls'[k].tool = current.tool
          /\ idx \in DOMAIN plan.steps /\ UNCHANGED <<plan, repairsDone>>
      BY <1>1, <2>4, CallRecorded
    <3> QED
      BY <2>1, <3>1, CallsType DEF current
  <2> QED
    BY <1>1, <2>3, <2>4, CallRecorded
<1>2. CASE Skip
  <2>1. idx' = idx + 1 /\ UNCHANGED <<plan, repairsDone, calls>>
    BY <1>2 DEF Skip
  <2> QED
    BY <2>1, CallsType DEF CallsKeepPlace, EndsInTarget
<1>3. CASE Repair
  <2>1. pc = "raised" /\ Replacement # NoPlan /\ idx <= Len(plan.steps)
    BY <1>3 DEF Repair, Exhausted, TypeOK
  <2>2. plan' = Replacement /\ repairsDone' = repairsDone + 1 /\ calls' = calls
    BY <1>3 DEF Repair
  <2>3. /\ EndsInTarget(Replacement) /\ Replacement.target = plan.target
        /\ plan.target \in Tools /\ plan.target # current.tool
    BY <2>1, ReplacementContract
  <2>4. \A i \in DOMAIN plan.steps : i <= idx => plan.steps[i].tool # plan.target
    <3>1. plan.target # NoTool
      BY <2>3, PlansAssumption
    <3>2. /\ Len(plan.steps) \in Nat /\ DOMAIN plan.steps = 1 .. Len(plan.steps)
          /\ idx \in DOMAIN plan.steps
      BY <2>1, CurrentType
    <3>3. \A i \in DOMAIN plan.steps : plan.steps[i].tool = plan.target <=> i = Len(plan.steps)
      BY <3>1, <3>2 DEF CallsKeepPlace, EndsInTarget
    <3> QED
      BY <2>3, <3>2, <3>3 DEF current
  <2>5. ASSUME NEW k \in DOMAIN calls
        PROVE  calls[k].gen < repairsDone' /\ calls[k].tool # plan.target
    <3>1. calls[k].gen <= repairsDone
      BY DEF CallsKeepPlace
    <3>2. calls[k].gen < repairsDone'
      BY <2>2, <3>1, CallsType
    <3>3. CASE calls[k].gen = repairsDone
      BY <2>4, <3>2, <3>3 DEF CallsKeepPlace
    <3>4. CASE calls[k].gen # repairsDone
      BY <3>2, <3>4 DEF CallsKeepPlace
    <3> QED
      BY <3>3, <3>4
  <2> QED
    BY <2>2, <2>3, <2>5, CallsType DEF CallsKeepPlace, EndsInTarget
<1>4. CASE UNCHANGED <<plan, idx, repairsDone, calls>>
  BY <1>4 DEF CallsKeepPlace, EndsInTarget
<1> QED
  BY <1>1, <1>2, <1>3, <1>4 DEF Next, Advance, Done, vars, Start, StartStep,
     BindingAbort, Retry, CallAbort, Complete, OutputAbort, Close

(* No call was made for a step the run has yet to reach.                   *)
LEMMA UnreachedUncalled ==
  ASSUME TypeOK, CallsKeepPlace, NEW gen \in Nat, NEW i \in Nat,
         gen > repairsDone \/ (gen = repairsDone /\ i > idx)
  PROVE  CallsOf(calls, gen, i) = {} /\ Cardinality(CallsOf(calls, gen, i)) = 0
<1>1. \A k \in DOMAIN calls : ~(calls[k].gen = gen /\ calls[k].step = i)
  <2> TAKE k \in DOMAIN calls
  <2>1. /\ calls[k].gen <= repairsDone
        /\ calls[k].gen = repairsDone => calls[k].step <= idx
    BY DEF CallsKeepPlace
  <2> QED
    BY <2>1, CallsType
<1>2. CallsOf(calls, gen, i) = {}
  BY <1>1 DEF CallsOf
<1> QED
  BY <1>2, FS_EmptySet

LEMMA NextCallsCounted ==
  TypeOK /\ RunPhases /\ CallsKeepPlace /\ CallsCounted /\ [Next]_vars => CallsCounted'
<1> SUFFICES ASSUME TypeOK, RunPhases, CallsKeepPlace, CallsCounted, [Next]_vars
             PROVE  CallsCounted'
  OBVIOUS
<1>1. CASE StartStep
  <2>1. /\ pc = "next" /\ pc' = "calling" /\ attempts' = 0 /\ current' = current
        /\ UNCHANGED <<conf, plan, idx, repairsDone, calls>>
    BY <1>1 DEF StartStep, current
  <2>2. CallsOf(calls', repairsDone', idx') = {}
    BY <2>1 DEF CallsCounted
  <2>3. MaxAttemptsFor(current)' = MaxAttemptsFor(current)
    BY <2>1 DEF MaxAttemptsFor
  <2>4. attempts' < MaxAttemptsFor(current)'
    BY <2>1, <2>3, BudgetType
  <2>5. \A i \in DOMAIN plan.steps :
          MaxAttemptsFor(plan.steps[i])' = MaxAttemptsFor(plan.steps[i])
    BY <2>1 DEF MaxAttemptsFor
  <2>6. Cardinality(CallsOf(calls', repairsDone', idx')) = attempts'
    BY <2>1, <2>2, FS_EmptySet
  <2> QED
    BY <2>1, <2>2, <2>4, <2>5, <2>6 DEF CallsCounted
<1>2. CASE CallReturns \/ CallRaises
  <2> DEFINE n == Len(calls) + 1
             old == CallsOf(calls, repairsDone, idx)
             new == CallsOf(calls', repairsDone, idx)
  <2>1. /\ pc = "calling" /\ attempts < MaxAttemptsFor(current)
        /\ Cardinality(old) = attempts
        /\ \A k \in old : ~calls[k].ok
    BY <1>2, CallRecorded DEF CallsCounted
  <2>2. /\ UNCHANGED <<conf, plan, repairsDone>>
        /\ idx \in DOMAIN plan.steps
        /\ attempts' = attempts + 1
        /\ new = old \cup {n}
        /\ Cardinality(new) = attempts'
        /\ \A i : i # idx => CallsOf(calls', repairsDone, i) = CallsOf(calls, repairsDone, i)
    BY <1>2, <2>1, CallRecorded
  <2>3. \A k \in old : k \in Nat /\ k < n /\ ~calls'[k].ok
    <3>1. old \subseteq DOMAIN calls
      BY DEF CallsOf
    <3> QED
      BY <1>2, <2>1, <3>1, CallRecorded
  <2>4. n \in Nat
    BY <1>2, CallRecorded
  <2> HIDE DEF n, old, new
  <2>5. \A i \in DOMAIN plan.steps :
          MaxAttemptsFor(plan.steps[i])' = MaxAttemptsFor(plan.steps[i])
    BY <2>2 DEF MaxAttemptsFor
  <2>6. ASSUME NEW i \in DOMAIN plan'.steps
        PROVE  /\ Cardinality(CallsOf(calls', repairsDone', i))
                    <= MaxAttemptsFor(plan.steps[i])'
               /\ \A k, m \in CallsOf(calls', repairsDone', i) : calls'[k].ok => m <= k
    <3>1. CASE i = idx
      <4>1. attempts' <= MaxAttemptsFor(current)
        BY <2>1, <2>2, BudgetType DEF TypeOK
      <4>2. CallsOf(calls', repairsDone', i) = new
        BY <2>2, <3>1 DEF new
      <4>3. MaxAttemptsFor(plan.steps[i])' = MaxAttemptsFor(current)
        BY <2>2, <2>5, <3>1 DEF current
      <4>4. \A k, m \in new : calls'[k].ok => m <= k
        BY <2>2, <2>3, <2>4
      <4> QED
        BY <2>2, <4>1, <4>2, <4>3, <4>4
    <3>2. CASE i # idx
      <4>1. CallsOf(calls', repairsDone', i) = CallsOf(calls, repairsDone, i)
        BY <2>2, <3>2
      <4>2. \A k \in CallsOf(calls, repairsDone, i) : calls'[k] = calls[k]
        BY <1>2, CallRecorded DEF CallsOf
      <4> QED
        BY <2>2, <2>5, <4>1, <4>2 DEF CallsCounted
    <3> QED
      BY <3>1, <3>2
  <2>7. CASE CallReturns
    <3>1. pc' = "next" /\ idx' = idx + 1
      BY <2>7 DEF CallReturns
    <3>2. CallsOf(calls', repairsDone', idx') = CallsOf(calls, repairsDone, idx')
      BY <2>2, <3>1, CallsType
    <3>3. CallsOf(calls, repairsDone, idx') = {}
      <4>1. idx' \in Nat /\ idx' > idx /\ repairsDone \in Nat
        BY <3>1, CallsType
      <4> QED
        BY <4>1, UnreachedUncalled
    <3> QED
      BY <2>6, <3>1, <3>2, <3>3 DEF CallsCounted
  <2>8. CASE CallRaises
    <3>1. pc' = "raised" /\ idx' = idx
      BY <2>8 DEF CallRaises
    <3>2. CallsOf(calls', repairsDone', idx') = new
      BY <2>2, <3>1 DEF new
    <3>3. ~calls'[n].ok
      BY <2>8, CallRecorded DEF n
    <3>4. \A k \in new : ~calls'[k].ok
      BY <2>2, <2>3, <3>3
    <3> QED
      BY <2>2, <2>6, <3>1, <3>2, <3>4 DEF CallsCounted
  <2> QED
    BY <1>2, <2>7, <2>8
<1>3. CASE Retry
  <2>1. /\ pc = "raised" /\ pc' = "calling" /\ attempts < MaxAttemptsFor(current)
        /\ UNCHANGED <<conf, plan, idx, attempts, repairsDone, calls>>
    BY <1>3 DEF Retry
  <2>2. MaxAttemptsFor(current)' = MaxAttemptsFor(current)
    BY <2>1 DEF MaxAttemptsFor, current
  <2>3. \A i \in DOMAIN plan.steps :
          MaxAttemptsFor(plan.steps[i])' = MaxAttemptsFor(plan.steps[i])
    BY <2>1 DEF MaxAttemptsFor
  <2> QED
    BY <2>1, <2>2, <2>3 DEF CallsCounted
<1>4. CASE Skip
  <2>1. /\ pc' = "next" /\ idx' = idx + 1
        /\ UNCHANGED <<conf, plan, repairsDone, calls>>
    BY <1>4 DEF Skip
  <2>2. idx' \in Nat /\ idx' > idx /\ repairsDone \in Nat
    BY <2>1, CallsType
  <2>3. CallsOf(calls', repairsDone', idx') = {}
    BY <2>1, <2>2, UnreachedUncalled
  <2>4. \A i \in DOMAIN plan.steps :
          MaxAttemptsFor(plan.steps[i])' = MaxAttemptsFor(plan.steps[i])
    BY <2>1 DEF MaxAttemptsFor
  <2> QED
    BY <2>1, <2>3, <2>4 DEF CallsCounted
<1>5. CASE Repair
  <2>1. /\ pc' = "next" /\ repairsDone' = repairsDone + 1 /\ idx' = 1
        /\ UNCHANGED <<conf, calls>>
    BY <1>5 DEF Repair, IndexAfterRepair
  <2>2. repairsDone' \in Nat /\ repairsDone' > repairsDone
    BY <2>1, CallsType
  <2>3. \A i \in Nat : /\ CallsOf(calls', repairsDone', i) = {}
                       /\ Cardinality(CallsOf(calls', repairsDone', i)) = 0
    BY <2>1, <2>2, UnreachedUncalled
  <2>4. TypeOK'
    BY NextTypeOK
  <2>5. DOMAIN plan'.steps \subseteq Nat
    BY <2>4 DEF TypeOK, Plan
  <2>6. \A step : MaxAttemptsFor(step)' = MaxAttemptsFor(step)
    BY <2>1 DEF MaxAttemptsFor
  <2>7. \A i \in DOMAIN plan'.steps : 0 <= MaxAttemptsFor(plan.steps[i])'
    <3> TAKE i \in DOMAIN plan'.steps
    <3>1. MaxAttemptsFor(plan.steps[i])' = MaxAttemptsFor(plan'.steps[i])
      BY <2>1 DEF MaxAttemptsFor
    <3>2. MaxAttemptsFor(plan'.steps[i]) \in Nat
      BY BudgetType
    <3> QED
      BY <3>1, <3>2
  <2> QED
    BY <2>1, <2>3, <2>5, <2>7 DEF CallsCounted
<1>6. CASE /\ UNCHANGED <<conf, plan, idx, repairsDone, calls>>
           /\ pc' \in Terminal \/ (pc = "new" /\ pc' = "next")
  <2>1. \A i \in DOMAIN plan.steps :
          MaxAttemptsFor(plan.steps[i])' = MaxAttemptsFor(plan.steps[i])
    BY <1>6 DEF MaxAttemptsFor
  <2> QED
    BY <1>6, <2>1 DEF CallsCounted, Terminal
<1>7. CASE UNCHANGED vars
  <2>1. \A i \in DOMAIN plan.steps :
          MaxAttemptsFor(plan.steps[i])' = MaxAttemptsFor(plan.steps[i])
    BY <1>7 DEF MaxAttemptsFor, vars
  <2>2. MaxAttemptsFor(current)' = MaxAttemptsFor(current)
    BY <1>7 DEF MaxAttemptsFor, current, vars
  <2> QED
    BY <1>7, <2>1, <2>2 DEF CallsCounted, vars
<1> QED
  BY <1>1, <1>2, <1>3, <1>4, <1>5, <1>6, <1>7 DEF Next, Advance, Done, Start,
     BindingAbort, CallAbort, Complete, OutputAbort, Close, Terminal

LEMMA AlwaysCallsCounted == Spec => [](RunPhases /\ CallsKeepPlace /\ CallsCounted)
<1>1. Init => RunPhases /\ CallsKeepPlace /\ CallsCounted
  <2> SUFFICES ASSUME Init PROVE RunPhases /\ CallsKeepPlace /\ CallsCounted
    OBVIOUS
  <2>1. RunPhases
    BY DEF Init, RunPhases, NoOutcome
  <2>2. CallsKeepPlace
    BY RunnerAssumption DEF Init, CallsKeepPlace
  <2>3. \A gen, i : CallsOf(calls, gen, i) = {}
    BY DEF Init, CallsOf
  <2>4. \A i \in DOMAIN plan.steps : 0 <= MaxAttemptsFor(plan.steps[i])
    BY InitTypeOK, BudgetType
  <2>5. CallsCounted
    BY <2>3, <2>4, FS_EmptySet DEF Init, CallsCounted
  <2> QED
    BY <2>1, <2>2, <2>5
<1> QED
  BY <1>1, TypeCorrect, NextRunPhases, NextCallsKeepPlace, NextCallsCounted, PTL DEF Spec

(* No step is called more often than its policy and its opt-in allow, nor  *)
(* again once a call of it returned, and the target, the side effect the   *)
(* user asked for, no more often than one step may be and never again once *)
(* it succeeded, however many plans the run goes through.                  *)
THEOREM CallBudgetsKept == Spec => []CallBudgets
<1>1. TypeOK /\ CallsKeepPlace /\ CallsCounted => CallBudgets
  <2> SUFFICES ASSUME TypeOK, CallsKeepPlace, CallsCounted PROVE CallBudgets
    OBVIOUS
  <2>1. \A gen, i : CallsFor(gen, i) = CallsOf(calls, gen, i)
    BY DEF CallsFor, CallsOf
  <2>2. ASSUME NEW i \in DOMAIN plan.steps,
               Cardinality(CallsFor(repairsDone, i)) > 1
        PROVE  /\ Cardinality(CallsFor(repairsDone, i)) <= conf.maxAttempts
               /\ conf.onError # "abort"
               /\ plan.steps[i].retryable \/ conf.retryAll
    <3>1. Cardinality(CallsFor(repairsDone, i)) <= MaxAttemptsFor(plan.steps[i])
      BY <2>1 DEF CallsCounted
    <3>2. Cardinality(CallsFor(repairsDone, i)) \in Nat
      BY <2>1, CallsOfFinite DEF TypeOK
    <3>3. MaxAttemptsFor(plan.steps[i]) # 1
      BY <2>2, <3>1, <3>2
    <3> QED
      BY <3>1, <3>3 DEF MaxAttemptsFor
  <2>3. RetryBudget
    BY <2>1, <2>2 DEF RetryBudget, CallsCounted
  <2>4. CASE plan.target = NoTool
    <3>1. TargetCalls = {}
      BY <2>4, CallsType, PlansAssumption DEF TargetCalls
    <3> QED
      BY <2>3, <3>1, FS_EmptySet DEF CallBudgets, TargetBudget
  <2>5. CASE plan.target # NoTool
    <3> DEFINE n == Len(plan.steps)
    <3>1. n \in DOMAIN plan.steps /\ \A i \in DOMAIN plan.steps :
             plan.steps[i].tool = plan.target <=> i = n
      BY <2>5 DEF CallsKeepPlace, EndsInTarget, TypeOK, Plan
    <3>2. TargetCalls = CallsFor(repairsDone, n)
      BY <3>1 DEF TargetCalls, CallsFor, CallsKeepPlace
    <3> QED
      BY <2>3, <3>1, <3>2 DEF CallBudgets, TargetBudget, RetryBudget
  <2> QED
    BY <2>4, <2>5
<1> QED
  BY <1>1, TypeCorrect, AlwaysCallsCounted, PTL
----------------------------------------------------------------------------
(* A row of trace_steps, with its history.                                 *)
Row == [id : Ids, tool : Tools, err : {"none", "tool", "binding"},
        retries : Int, gen : Nat, step : Nat]

(* The strengthening behind TraceAccountsForCalls: the rows are of steps   *)
(* the run has left, or of the one it was aborted at.                      *)
RowsKeepPlace ==
  /\ trace \in Seq(Row)
  /\ \A k \in DOMAIN trace :
       /\ trace[k].gen <= repairsDone
       /\ trace[k].gen = repairsDone =>
            trace[k].step < idx \/ (trace[k].step = idx /\ pc \in Terminal)

(* A row of the trace is one of the step being left.                       *)
LEMMA RowAdded ==
  ASSUME TypeOK, idx \in DOMAIN plan.steps, NEW err \in {"none", "tool", "binding"},
         NEW retries \in Int, RowsKeepPlace
  PROVE  /\ Append(trace, TraceEntry(err, retries)) \in Seq(Row)
         /\ DOMAIN trace = 1 .. Len(trace) /\ Len(trace) \in Nat
         /\ DOMAIN Append(trace, TraceEntry(err, retries)) = 1 .. Len(trace) + 1
         /\ \A k \in DOMAIN trace : Append(trace, TraceEntry(err, retries))[k] = trace[k]
         /\ Append(trace, TraceEntry(err, retries))[Len(trace) + 1] = TraceEntry(err, retries)
         /\ TraceEntry(err, retries).err = err
         /\ TraceEntry(err, retries).retries = retries
         /\ TraceEntry(err, retries).gen = repairsDone
         /\ TraceEntry(err, retries).step = idx
<1>1. current \in Step /\ idx \in Nat /\ repairsDone \in Nat
  BY CallsType DEF current, TypeOK, Plan
<1>2. TraceEntry(err, retries) \in Row
  BY <1>1 DEF TraceEntry, Row, Step
<1>3. trace \in Seq(Row)
  BY DEF RowsKeepPlace
<1>4. /\ Append(trace, TraceEntry(err, retries)) \in Seq(Row)
      /\ DOMAIN trace = 1 .. Len(trace) /\ Len(trace) \in Nat
      /\ DOMAIN Append(trace, TraceEntry(err, retries)) = 1 .. Len(trace) + 1
      /\ \A k \in DOMAIN trace : Append(trace, TraceEntry(err, retries))[k] = trace[k]
      /\ Append(trace, TraceEntry(err, retries))[Len(trace) + 1] = TraceEntry(err, retries)
  BY <1>2, <1>3
<1>5. /\ TraceEntry(err, retries).err = err
      /\ TraceEntry(err, retries).retries = retries
      /\ TraceEntry(err, retries).gen = repairsDone
      /\ TraceEntry(err, retries).step = idx
  BY DEF TraceEntry
<1> QED
  BY <1>4, <1>5

LEMMA NextRowsKeepPlace == TypeOK /\ RowsKeepPlace /\ [Next]_vars => RowsKeepPlace'
<1> SUFFICES ASSUME TypeOK, RowsKeepPlace, [Next]_vars PROVE RowsKeepPlace'
  OBVIOUS
<1>1. ASSUME NEW err \in {"none", "tool", "binding"}, NEW retries \in Int,
             idx \in DOMAIN plan.steps,
             trace' = Append(trace, TraceEntry(err, retries)),
             pc \notin Terminal,
             \/ repairsDone' = repairsDone /\ idx' = idx + 1
             \/ repairsDone' = repairsDone /\ idx' = idx /\ pc' \in Terminal
             \/ repairsDone' = repairsDone + 1
      PROVE  RowsKeepPlace'
  <2>1. trace' \in Seq(Row)
    BY <1>1, RowAdded
  <2> SUFFICES ASSUME NEW k \in DOMAIN trace'
               PROVE  /\ trace'[k].gen <= repairsDone'
                      /\ trace'[k].gen = repairsDone' =>
                           trace'[k].step < idx' \/ (trace'[k].step = idx' /\ pc' \in Terminal)
    BY <2>1 DEF RowsKeepPlace
  <2>2. CASE k \in DOMAIN trace
    <3>1. trace'[k] = trace[k]
      BY <1>1, <2>2, RowAdded
    <3>2. trace[k].gen \in Nat /\ trace[k].step \in Nat
      <4>1. trace[k] \in Row
        BY <2>2 DEF RowsKeepPlace
      <4>2. \A row \in Row : row.gen \in Nat /\ row.step \in Nat
        BY DEF Row
      <4> QED
        BY <4>1, <4>2
    <3>3. trace[k].gen <= repairsDone /\ (trace[k].gen = repairsDone => trace[k].step < idx)
      BY <1>1, <2>2 DEF RowsKeepPlace
    <3> QED
      BY <1>1, <3>1, <3>2, <3>3, CallsType
  <2>3. CASE k = Len(trace) + 1
    <3>1. trace'[k].gen = repairsDone /\ trace'[k].step = idx
      BY <1>1, <2>3, RowAdded
    <3> QED
      BY <1>1, <3>1, CallsType
  <2> QED
    BY <1>1, <2>2, <2>3, RowAdded
<1>2. attempts \in Int /\ attempts - 1 \in Int /\ 0 \in Int
  BY DEF TypeOK
<1>3. CASE BindingAbort
  <2>1. idx \in DOMAIN plan.steps
    BY <1>3, CurrentType DEF BindingAbort
  <2> QED
    BY <1>1, <1>2, <1>3, <2>1 DEF BindingAbort, Terminal
<1>4. CASE CallReturns
  <2>1. idx \in DOMAIN plan.steps
    BY <1>4, CallRecorded
  <2> QED
    BY <1>1, <1>2, <1>4, <2>1 DEF CallReturns, Terminal
<1>5. CASE Skip \/ Repair \/ CallAbort
  <2>1. pc = "raised" /\ trace' = Append(trace, TraceEntry("tool", attempts - 1))
    BY <1>5 DEF Skip, Repair, CallAbort, Exhausted, TraceAfterRepair
  <2>2. idx \in DOMAIN plan.steps
    BY <2>1, CurrentType DEF TypeOK
  <2>3. \/ repairsDone' = repairsDone /\ idx' = idx + 1
        \/ repairsDone' = repairsDone /\ idx' = idx /\ pc' \in Terminal
        \/ repairsDone' = repairsDone + 1
    BY <1>5 DEF Skip, Repair, CallAbort, Terminal
  <2> QED
    BY <1>1, <1>2, <2>1, <2>2, <2>3 DEF Terminal
<1>6. CASE UNCHANGED <<trace, idx, repairsDone>> /\ (pc \notin Terminal \/ pc' = pc)
  BY <1>6 DEF RowsKeepPlace
<1> QED
  BY <1>3, <1>4, <1>5, <1>6 DEF Next, Advance, Done, vars, Start, StartStep, CallRaises,
     Retry, Complete, OutputAbort, Close, Terminal

(* While a run goes on, no row of the trace is of the step being executed. *)
LEMMA OpenStepHasNoRow ==
  ASSUME TypeOK, RowsKeepPlace, pc \notin Terminal, NEW k \in DOMAIN trace
  PROVE  trace[k].gen # repairsDone \/ trace[k].step # idx
BY CallsType DEF RowsKeepPlace

LEMMA NextTraceAccounts ==
  TypeOK /\ CallsCounted /\ RowsKeepPlace /\ TraceAccountsForCalls /\ [Next]_vars
    => TraceAccountsForCalls'
<1> SUFFICES ASSUME TypeOK, CallsCounted, RowsKeepPlace, TraceAccountsForCalls, [Next]_vars
             PROVE  TraceAccountsForCalls'
  OBVIOUS
<1> DEFINE Counted(row, s) ==
             Cardinality(CallsOf(s, row.gen, row.step)) =
               IF row.err = "binding" THEN 0 ELSE row.retries + 1
           Told(c, rows, gen, i) ==
             \/ \E m \in DOMAIN rows : rows[m].gen = c.gen /\ rows[m].step = c.step
             \/ c.gen = gen /\ c.step = i
<1>1. /\ TraceAccountsForCalls <=>
           /\ \A k \in DOMAIN trace : Counted(trace[k], calls)
           /\ \A k \in DOMAIN calls : Told(calls[k], trace, repairsDone, idx)
      /\ TraceAccountsForCalls' <=>
           /\ \A k \in DOMAIN trace' : Counted(trace'[k], calls')
           /\ \A k \in DOMAIN calls' : Told(calls'[k], trace', repairsDone', idx')
  BY DEF TraceAccountsForCalls, CallsFor, CallsOf
<1>2. ASSUME NEW err \in {"none", "tool", "binding"}, NEW retries \in Int,
             idx \in DOMAIN plan.steps, pc \notin Terminal,
             trace' = Append(trace, TraceEntry(err, retries)),
             \A gen, i : gen # repairsDone \/ i # idx =>
               CallsOf(calls', gen, i) = CallsOf(calls, gen, i),
             Cardinality(CallsOf(calls', repairsDone, idx)) =
               IF err = "binding" THEN 0 ELSE retries + 1,
             \A k \in DOMAIN calls' :
               \/ k \in DOMAIN calls /\ calls'[k] = calls[k]
               \/ calls'[k].gen = repairsDone /\ calls'[k].step = idx
      PROVE  TraceAccountsForCalls'
  <2> DEFINE n == Len(trace) + 1
  <2>1. /\ DOMAIN trace' = DOMAIN trace \cup {n}
        /\ \A k \in DOMAIN trace : trace'[k] = trace[k]
        /\ trace'[n].err = err /\ trace'[n].retries = retries
        /\ trace'[n].gen = repairsDone /\ trace'[n].step = idx
    BY <1>2, RowAdded
  <2> HIDE DEF n
  <2>2. ASSUME NEW k \in DOMAIN trace' PROVE Counted(trace'[k], calls')
    <3>1. CASE k \in DOMAIN trace
      <4>1. CallsOf(calls', trace[k].gen, trace[k].step) = CallsOf(calls, trace[k].gen, trace[k].step)
        BY <1>2, <3>1, OpenStepHasNoRow
      <4>2. Counted(trace[k], calls)
        BY <1>1, <3>1
      <4> QED
        BY <2>1, <3>1, <4>1, <4>2
    <3>2. CASE k = n
      BY <1>2, <2>1, <3>2
    <3> QED
      BY <2>1, <3>1, <3>2
  <2>3. ASSUME NEW k \in DOMAIN calls'
        PROVE  \E m \in DOMAIN trace' : trace'[m].gen = calls'[k].gen /\ trace'[m].step = calls'[k].step
    <3>1. CASE calls'[k].gen = repairsDone /\ calls'[k].step = idx
      BY <2>1, <3>1
    <3>2. CASE ~(calls'[k].gen = repairsDone /\ calls'[k].step = idx)
      <4>1. k \in DOMAIN calls /\ calls'[k] = calls[k]
        BY <1>2, <3>2
      <4>2. PICK m \in DOMAIN trace : trace[m].gen = calls[k].gen /\ trace[m].step = calls[k].step
        BY <1>1, <3>2, <4>1
      <4> QED
        BY <2>1, <4>1, <4>2
    <3> QED
      BY <3>1, <3>2
  <2> QED
    BY <1>1, <2>2, <2>3
<1>3. attempts \in Int /\ attempts - 1 \in Int /\ 0 \in Int /\ (attempts - 1) + 1 = attempts
  BY DEF TypeOK
<1> HIDE DEF Counted, Told
<1>4. CASE BindingAbort
  <2>1. /\ idx \in DOMAIN plan.steps /\ pc = "next" /\ calls' = calls
        /\ trace' = Append(trace, TraceEntry("binding", 0))
    BY <1>4, CurrentType DEF BindingAbort
  <2>2. Cardinality(CallsOf(calls, repairsDone, idx)) = 0
    BY <2>1, FS_EmptySet DEF CallsCounted
  <2> QED
    BY <1>2, <1>3, <2>1, <2>2 DEF Terminal
<1>5. CASE CallReturns
  <2>1. Cardinality(CallsOf(calls', repairsDone, idx)) = attempts + 1
    BY <1>5, CallRecorded DEF CallsCounted
  <2>2. trace' = Append(trace, TraceEntry("none", attempts)) /\ pc = "calling"
    BY <1>5 DEF CallReturns
  <2>3. idx \in DOMAIN plan.steps
    BY <1>5, CallRecorded
  <2>4. \A gen, i : gen # repairsDone \/ i # idx =>
          CallsOf(calls', gen, i) = CallsOf(calls, gen, i)
    BY <1>5, CallRecorded
  <2>5. \A k \in DOMAIN calls' :
          \/ k \in DOMAIN calls /\ calls'[k] = calls[k]
          \/ calls'[k].gen = repairsDone /\ calls'[k].step = idx
    BY <1>5, CallRecorded
  <2> QED
    BY <1>2, <1>3, <2>1, <2>2, <2>3, <2>4, <2>5 DEF Terminal
<1>6. CASE CallRaises
  <2>1. UNCHANGED <<trace, idx, repairsDone>> /\ pc = "calling"
    BY <1>6 DEF CallRaises
  <2>2. \A k \in DOMAIN trace : Counted(trace[k], calls')
    <3> TAKE k \in DOMAIN trace
    <3>1. trace[k].gen # repairsDone \/ trace[k].step # idx
      BY <2>1, OpenStepHasNoRow DEF Terminal
    <3>2. CallsOf(calls', trace[k].gen, trace[k].step) = CallsOf(calls, trace[k].gen, trace[k].step)
      BY <1>6, <3>1, CallRecorded
    <3>3. Counted(trace[k], calls)
      BY <1>1
    <3> QED
      BY <3>2, <3>3 DEF Counted
  <2>3. ASSUME NEW k \in DOMAIN calls' PROVE Told(calls'[k], trace, repairsDone, idx)
    <3>1. \/ k \in DOMAIN calls /\ calls'[k] = calls[k]
          \/ calls'[k].gen = repairsDone /\ calls'[k].step = idx
      BY <1>6, CallRecorded
    <3> QED
      BY <1>1, <3>1 DEF Told
  <2> QED
    BY <1>1, <2>1, <2>2, <2>3
<1>7. CASE Skip \/ Repair \/ CallAbort
  <2>1. /\ pc = "raised" /\ trace' = Append(trace, TraceEntry("tool", attempts - 1))
        /\ calls' = calls
    BY <1>7 DEF Skip, Repair, CallAbort, Exhausted, TraceAfterRepair
  <2>2. idx \in DOMAIN plan.steps
    BY <2>1, CurrentType DEF TypeOK
  <2>3. Cardinality(CallsOf(calls, repairsDone, idx)) = attempts
    BY <2>1 DEF CallsCounted
  <2> QED
    BY <1>2, <1>3, <2>1, <2>2, <2>3 DEF Terminal
<1>8. CASE UNCHANGED <<trace, idx, repairsDone, calls>>
  BY <1>1, <1>8
<1> QED
  BY <1>4, <1>5, <1>6, <1>7, <1>8 DEF Next, Advance, Done, vars, Start, StartStep,
     Retry, Complete, OutputAbort, Close

(* The trace handed to the caller accounts for every call of the run: each *)
(* step that was called, the one still open aside, has a row whose retries *)
(* are its calls after the first, in all the plans the run went through.   *)
THEOREM TraceAccounts == Spec => []TraceAccountsForCalls
<1>1. Init => RowsKeepPlace /\ TraceAccountsForCalls
  BY DEF Init, RowsKeepPlace, TraceAccountsForCalls
<1> QED
  BY <1>1, TypeCorrect, AlwaysCallsCounted, NextRowsKeepPlace, NextTraceAccounts, PTL
     DEF Spec
----------------------------------------------------------------------------
(* What is shown of a run.  A step returned when a call of it did.         *)
(* The strengthening behind FlowIsTrue: while no repair happened the rows  *)
(* are the steps passed, in order, without an error exactly if they        *)
(* returned; one more if the run was aborted at a step.                    *)
RowsInOrder ==
  /\ outcome.kind \in {"tool", "binding"} => pc = "aborted"
  /\ pc = "completed" => idx > Len(plan.steps)
  /\ repairsDone = 0 =>
       /\ Len(trace) = idx - 1 \/ (Len(trace) = idx /\ pc = "aborted")
       /\ \A k \in DOMAIN trace :
            /\ trace[k].gen = 0 /\ trace[k].step = k
            /\ k \in DOMAIN plan.steps /\ trace[k].id = plan.steps[k].id
            /\ trace[k].err = "none" <=> Returned(k)

(* What a call leaves of what returned before: only its own step can have  *)
(* returned since.                                                         *)
LEMMA ReturnedElsewhere ==
  ASSUME TypeOK, CallReturns \/ CallRaises, NEW i, i # idx
  PROVE  Returned(i)' <=> Returned(i)
<1>1. /\ CallsOf(calls', repairsDone, i) = CallsOf(calls, repairsDone, i)
      /\ repairsDone' = repairsDone
      /\ \A k \in DOMAIN calls : calls'[k] = calls[k]
  BY CallRecorded
<1>2. /\ CallsFor(repairsDone, i) = CallsOf(calls, repairsDone, i)
      /\ CallsFor(repairsDone, i)' = CallsOf(calls', repairsDone', i)
      /\ CallsOf(calls, repairsDone, i) \subseteq DOMAIN calls
  BY DEF CallsFor, CallsOf
<1> QED BY <1>1, <1>2 DEF Returned

(* A call that returns is recorded as one that did.                        *)
LEMMA ReturnIsOk ==
  ASSUME TypeOK, CallReturns
  PROVE  calls'[Len(calls) + 1].ok
<1>1. PICK shape : Record(TRUE, Extract(current.tool, shape))
  BY DEF CallReturns
<1> DEFINE c == [tool |-> current.tool, gen |-> repairsDone, step |-> idx, ok |-> TRUE,
                 got |-> Extract(current.tool, shape)]
<1>2. calls' = Append(calls, c) /\ c.ok
  BY <1>1 DEF Record
<1> HIDE DEF c
<1>3. calls'[Len(calls) + 1] = c
  BY <1>2 DEF TypeOK
<1> QED BY <1>2, <1>3

(* A row more keeps them in order.                                         *)
LEMMA RowKeepsOrder ==
  ASSUME TypeOK, RowsInOrder, RowsKeepPlace, pc \notin Terminal,
         idx \in DOMAIN plan.steps,
         NEW err \in {"none", "tool", "binding"}, NEW retries \in Int,
         trace' = Append(trace, TraceEntry(err, retries)),
         UNCHANGED <<plan, repairsDone>>,
         \/ idx' = idx + 1 /\ pc' = "next"
         \/ idx' = idx /\ pc' = "aborted",
         \A i : i = idx => (err = "none" <=> Returned(i)'),
         \A i : i # idx => (Returned(i)' <=> Returned(i))
  PROVE  repairsDone' = 0 =>
           /\ Len(trace') = idx' - 1 \/ (Len(trace') = idx' /\ pc' = "aborted")
           /\ \A k \in DOMAIN trace' :
                /\ trace'[k].gen = 0 /\ trace'[k].step = k
                /\ k \in DOMAIN plan'.steps /\ trace'[k].id = plan'.steps[k].id
                /\ trace'[k].err = "none" <=> Returned(k)'
<1> SUFFICES ASSUME repairsDone = 0
             PROVE  /\ Len(trace') = idx' - 1 \/ (Len(trace') = idx' /\ pc' = "aborted")
                    /\ \A k \in DOMAIN trace' :
                         /\ trace'[k].gen = 0 /\ trace'[k].step = k
                         /\ k \in DOMAIN plan.steps /\ trace'[k].id = plan.steps[k].id
                         /\ trace'[k].err = "none" <=> Returned(k)'
  OBVIOUS
<1>1. /\ DOMAIN trace = 1 .. Len(trace) /\ Len(trace) \in Nat
      /\ DOMAIN trace' = 1 .. Len(trace) + 1
      /\ \A k \in DOMAIN trace : trace'[k] = trace[k]
      /\ trace'[Len(trace) + 1] = TraceEntry(err, retries)
      /\ trace' \in Seq(Row)
  BY RowAdded
<1>2. Len(trace) = idx - 1 /\ idx \in Nat
  BY CallsType DEF RowsInOrder, Terminal
<1>3. Len(trace') = Len(trace) + 1
  BY <1>1
<1>4. ASSUME NEW k \in DOMAIN trace'
      PROVE  /\ trace'[k].gen = 0 /\ trace'[k].step = k
             /\ k \in DOMAIN plan.steps /\ trace'[k].id = plan.steps[k].id
             /\ trace'[k].err = "none" <=> Returned(k)'
  <2>1. CASE k = idx
    <3>1. trace'[k] = TraceEntry(err, retries)
      BY <1>1, <1>2, <2>1
    <3>2. /\ TraceEntry(err, retries).id = current.id /\ TraceEntry(err, retries).err = err
          /\ TraceEntry(err, retries).gen = repairsDone /\ TraceEntry(err, retries).step = idx
      BY DEF TraceEntry
    <3> QED BY <2>1, <3>1, <3>2 DEF current
  <2>2. CASE k # idx
    <3>1. k \in DOMAIN trace /\ trace'[k] = trace[k]
      BY <1>1, <1>2, <2>2
    <3> QED BY <2>2, <3>1 DEF RowsInOrder
  <2> QED BY <2>1, <2>2
<1> QED BY <1>2, <1>3, <1>4

LEMMA NextRowsInOrder ==
  TypeOK /\ RunPhases /\ RowsKeepPlace /\ CallsCounted /\ RowsInOrder /\ [Next]_vars
    => RowsInOrder'
<1> SUFFICES ASSUME TypeOK, RunPhases, RowsKeepPlace, CallsCounted, RowsInOrder, [Next]_vars
             PROVE  RowsInOrder'
  OBVIOUS
<1>0. /\ attempts \in Int /\ attempts - 1 \in Int /\ 0 \in Int /\ idx \in Nat
      /\ \A i : CallsFor(repairsDone, i) = CallsOf(calls, repairsDone, i)
  BY CallsType DEF TypeOK, CallsFor, CallsOf
<1>1. CASE CallReturns
  <2>1. /\ trace' = Append(trace, TraceEntry("none", attempts)) /\ idx' = idx + 1
        /\ pc' = "next" /\ pc = "calling" /\ UNCHANGED <<plan, repairsDone, outcome>>
    BY <1>1 DEF CallReturns
  <2>2. idx \in DOMAIN plan.steps
    BY <1>1, CallRecorded
  <2>3. ASSUME NEW i, i = idx PROVE Returned(i)'
    <3>1. Len(calls) + 1 \in DOMAIN calls' /\ calls'[Len(calls) + 1].gen = repairsDone'
          /\ calls'[Len(calls) + 1].step = idx
      BY <1>1, <2>1, CallRecorded
    <3>2. calls'[Len(calls) + 1].ok
      BY <1>1, ReturnIsOk
    <3>3. Len(calls) + 1 \in CallsFor(repairsDone, i)'
      BY <2>3, <3>1 DEF CallsFor
    <3> QED BY <3>2, <3>3 DEF Returned
  <2>4. \A i : i # idx => (Returned(i)' <=> Returned(i))
    BY <1>1, ReturnedElsewhere
  <2>5. repairsDone' = 0 =>
           /\ Len(trace') = idx' - 1 \/ (Len(trace') = idx' /\ pc' = "aborted")
           /\ \A k \in DOMAIN trace' :
                /\ trace'[k].gen = 0 /\ trace'[k].step = k
                /\ k \in DOMAIN plan'.steps /\ trace'[k].id = plan'.steps[k].id
                /\ trace'[k].err = "none" <=> Returned(k)'
    BY <1>0, <2>1, <2>2, <2>3, <2>4, RowKeepsOrder DEF Terminal
  <2>6. outcome'.kind \notin {"tool", "binding"}
    BY <2>1 DEF RowsInOrder
  <2> QED BY <2>1, <2>5, <2>6 DEF RowsInOrder
<1>2. CASE BindingAbort \/ Skip \/ CallAbort
  <2>1. /\ pc \in {"next", "raised"} /\ UNCHANGED <<plan, repairsDone, calls>>
        /\ \/ idx' = idx + 1 /\ pc' = "next" /\ outcome' = outcome
           \/ idx' = idx /\ pc' = "aborted"
    BY <1>2 DEF BindingAbort, Skip, CallAbort, Exhausted
  <2>2. idx \in DOMAIN plan.steps
    <3>1. idx <= Len(plan.steps)
      BY <1>2 DEF BindingAbort, Skip, CallAbort, Exhausted, TypeOK
    <3> QED BY <3>1, CurrentType
  <2>3. PICK err \in {"tool", "binding"}, retries \in {0, attempts - 1} :
          trace' = Append(trace, TraceEntry(err, retries))
    BY <1>2 DEF BindingAbort, Skip, CallAbort
  <2>4. \A i : Returned(i)' <=> Returned(i)
    BY <2>1 DEF Returned, CallsFor
  <2>5. \A i : i = idx => ~Returned(i)'
    BY <1>0, <2>1, <2>4 DEF Returned, CallsCounted
  <2>6. repairsDone' = 0 =>
           /\ Len(trace') = idx' - 1 \/ (Len(trace') = idx' /\ pc' = "aborted")
           /\ \A k \in DOMAIN trace' :
                /\ trace'[k].gen = 0 /\ trace'[k].step = k
                /\ k \in DOMAIN plan'.steps /\ trace'[k].id = plan'.steps[k].id
                /\ trace'[k].err = "none" <=> Returned(k)'
    <3>1. retries \in Int /\ err \in {"none", "tool", "binding"} /\ err # "none"
      BY <1>0, <2>3
    <3> QED BY <2>1, <2>2, <2>3, <2>4, <2>5, <3>1, RowKeepsOrder DEF Terminal
  <2>7. pc' # "completed" /\ (outcome'.kind \in {"tool", "binding"} => pc' = "aborted")
    BY <2>1 DEF RowsInOrder
  <2> QED BY <2>6, <2>7 DEF RowsInOrder
<1>3. CASE Repair
  <2>1. repairsDone' = repairsDone + 1 /\ pc' = "next" /\ outcome' = outcome /\ pc = "raised"
    BY <1>3 DEF Repair, Exhausted
  <2>2. repairsDone' # 0
    BY <2>1, CallsType
  <2> QED BY <2>1, <2>2 DEF RowsInOrder
<1>4. CASE CallRaises
  <2>1. /\ UNCHANGED <<plan, idx, trace, repairsDone, outcome>>
        /\ pc = "calling" /\ pc' = "raised"
    BY <1>4 DEF CallRaises
  <2>2. ASSUME NEW k \in DOMAIN trace, repairsDone = 0 PROVE Returned(k)' <=> Returned(k)
    <3>1. trace[k].gen = 0 /\ trace[k].step = k
      BY <2>2 DEF RowsInOrder
    <3>2. k # idx
      BY <2>1, <2>2, <3>1, OpenStepHasNoRow DEF Terminal
    <3> QED BY <1>4, <3>2, ReturnedElsewhere
  <2> QED BY <2>1, <2>2 DEF RowsInOrder
<1>5. CASE Start \/ StartStep \/ Retry \/ Close
  <2>1. /\ UNCHANGED <<plan, idx, trace, repairsDone, outcome, calls>>
        /\ pc \notin Terminal /\ pc' \in {"next", "calling", "closed"}
    BY <1>5 DEF Start, StartStep, Retry, Close, Terminal
  <2>2. \A i : Returned(i)' <=> Returned(i)
    BY <2>1 DEF Returned, CallsFor
  <2> QED BY <2>1, <2>2 DEF RowsInOrder, Terminal
<1>6. CASE Complete \/ OutputAbort
  <2>1. /\ UNCHANGED <<plan, idx, trace, repairsDone, calls>>
        /\ pc = "next" /\ idx > Len(plan.steps)
        /\ pc' \in {"completed", "aborted"}
    BY <1>6 DEF Complete, OutputAbort
  <2>3. outcome'.kind = "completed" \/ outcome'.kind = "output_binding"
    <3>1. CASE Complete
      BY <3>1 DEF Complete, Outcome, NoOutcome
    <3>2. CASE OutputAbort
      BY <3>2 DEF OutputAbort, Outcome, NoOutcome
    <3> QED BY <1>6, <3>1, <3>2
  <2>2. \A i : Returned(i)' <=> Returned(i)
    BY <2>1 DEF Returned, CallsFor
  <2> QED BY <2>1, <2>2, <2>3 DEF RowsInOrder
<1>7. CASE UNCHANGED vars
  <2>1. \A i : Returned(i)' <=> Returned(i)
    BY <1>7 DEF vars, Returned, CallsFor
  <2> QED BY <1>7, <2>1 DEF vars, RowsInOrder
<1> QED
  BY <1>1, <1>2, <1>3, <1>4, <1>5, <1>6, <1>7 DEF Next, Advance, Done

LEMMA AlwaysRowsInOrder == Spec => [](RowsKeepPlace /\ RowsInOrder)
<1>1. Init => RowsKeepPlace /\ RowsInOrder
  BY DEF Init, RowsKeepPlace, RowsInOrder, NoOutcome
<1> QED
  BY <1>1, TypeCorrect, AlwaysCallsCounted, NextRowsKeepPlace, NextRowsInOrder, PTL DEF Spec

(* A call that returned, before the n-th, of the step of the plan with id. *)
Came(id, n) ==
  \E k \in DOMAIN calls :
    /\ k < n /\ calls[k].ok /\ calls[k].gen = repairsDone
    /\ plan.steps[calls[k].step].id = id

(* The strengthening behind ProvenEdgesHappened: what a call of the plan   *)
(* being executed is bound to is input or had come from a call before it.  *)
ArgumentsCame ==
  /\ \A m \in DOMAIN calls : calls[m].gen = repairsDone =>
       \A h \in BindingHeads(plan.steps[calls[m].step].args) \ InputHeads : Came(h, m)
  /\ \A h \in DOMAIN context \ InputHeads : Came(h, Len(calls) + 1)
  /\ pc \in {"calling", "raised"} => BindingHeads(current.args) \subseteq DOMAIN context

(* What had come before a call has come after one more.                    *)
LEMMA StillCame ==
  ASSUME TypeOK, CallsKeepPlace, CallReturns \/ CallRaises, NEW id, NEW n, Came(id, n)
  PROVE  Came(id, n)'
<1>1. PICK k \in DOMAIN calls :
        /\ k < n /\ calls[k].ok /\ calls[k].gen = repairsDone
        /\ plan.steps[calls[k].step].id = id
  BY DEF Came
<1>2. k \in DOMAIN calls' /\ calls'[k] = calls[k] /\ UNCHANGED <<plan, repairsDone>>
  BY CallRecorded
<1> QED BY <1>1, <1>2 DEF Came

LEMMA NextArgumentsCame ==
  TypeOK /\ CallsKeepPlace /\ ArgumentsCame /\ [Next]_vars => ArgumentsCame'
<1> SUFFICES ASSUME TypeOK, CallsKeepPlace, ArgumentsCame, [Next]_vars PROVE ArgumentsCame'
  OBVIOUS
<1>1. CASE CallReturns \/ CallRaises
  <2>1. /\ pc = "calling" /\ idx \in DOMAIN plan.steps /\ UNCHANGED <<plan, repairsDone>>
        /\ DOMAIN calls = 1 .. Len(calls) /\ Len(calls) \in Nat
        /\ DOMAIN calls' = 1 .. Len(calls) + 1
        /\ \A k \in DOMAIN calls : calls'[k] = calls[k]
        /\ calls'[Len(calls) + 1].gen = repairsDone
        /\ calls'[Len(calls) + 1].step = idx
    BY <1>1, CallRecorded
  <2>2. Len(calls') = Len(calls) + 1
    BY <1>1, <2>1 DEF CallReturns, CallRaises, Record, TypeOK
  <2>3. ASSUME NEW m \in DOMAIN calls', calls'[m].gen = repairsDone',
               NEW h \in BindingHeads(plan'.steps[calls'[m].step].args) \ InputHeads
        PROVE  Came(h, m)'
    <3>1. Came(h, m)
      <4>1. CASE m \in DOMAIN calls
        BY <2>1, <2>3, <4>1 DEF ArgumentsCame
      <4>2. CASE m = Len(calls) + 1
        <5>1. h \in DOMAIN context \ InputHeads
          BY <2>1, <2>3, <4>2 DEF ArgumentsCame, current
        <5> QED BY <4>2, <5>1 DEF ArgumentsCame
      <4> QED BY <2>1, <4>1, <4>2
    <3> QED BY <1>1, <3>1, StillCame
  <2>4. ASSUME NEW h \in DOMAIN context' \ InputHeads PROVE Came(h, Len(calls) + 1)'
    <3>1. CASE h \in DOMAIN context
      <4>1. PICK k \in DOMAIN calls :
              /\ k < Len(calls) + 1 /\ calls[k].ok /\ calls[k].gen = repairsDone
              /\ plan.steps[calls[k].step].id = h
        BY <3>1 DEF ArgumentsCame, Came
      <4>2. k \in DOMAIN calls' /\ calls'[k] = calls[k]
        BY <2>1
      <4>3. k < Len(calls') + 1
        BY <2>1, <2>2, <4>1
      <4> QED BY <2>1, <4>1, <4>2, <4>3 DEF Came
    <3>2. CASE h \notin DOMAIN context
      <4>1. CallReturns /\ h = current.id
        BY <1>1, <3>2 DEF CallReturns, CallRaises, ContextWith
      <4>2. calls'[Len(calls) + 1].ok
        BY <4>1, ReturnIsOk
      <4> QED BY <2>1, <2>2, <4>1, <4>2 DEF Came, current
    <3> QED BY <3>1, <3>2
  <2>5. ASSUME pc' \in {"calling", "raised"} PROVE BindingHeads(current.args)' \subseteq DOMAIN context'
    <3>1. CallRaises
      BY <1>1, <2>5 DEF CallReturns
    <3> QED BY <2>1, <3>1 DEF CallRaises, ArgumentsCame, current
  <2> QED BY <2>2, <2>3, <2>4, <2>5 DEF ArgumentsCame
<1>2. CASE StartStep
  <2>1. UNCHANGED <<plan, context, calls, repairsDone, idx>>
    BY <1>2 DEF StartStep
  <2>2. BindingHeads(current.args) \subseteq DOMAIN context
    BY <1>2 DEF StartStep, ArgumentsAvailable, Resolves, Recoverable, BindingHeads
  <2> QED BY <2>1, <2>2 DEF ArgumentsCame, Came, current
<1>3. CASE Start
  BY <1>3 DEF Start, ArgumentsCame, InputContext, EmptyContext, Came
<1>4. CASE Repair
  <2>1. /\ repairsDone' = repairsDone + 1 /\ pc' = "next" /\ calls' = calls
        /\ DOMAIN context' = InputHeads
    BY <1>4 DEF Repair, ContextAfterRepair, InputContext
  <2>2. \A m \in DOMAIN calls' : calls'[m].gen # repairsDone'
    BY <2>1, CallsType DEF CallsKeepPlace
  <2> QED BY <2>1, <2>2 DEF ArgumentsCame
<1>5. CASE /\ UNCHANGED <<plan, context, calls, repairsDone>>
           /\ pc' \in {"calling", "raised"} => pc \in {"calling", "raised"} /\ idx' = idx
  BY <1>5 DEF ArgumentsCame, Came, current
<1> QED
  BY <1>1, <1>2, <1>3, <1>4, <1>5 DEF Next, Advance, Done, vars, BindingAbort,
     Retry, Skip, CallAbort, Complete, OutputAbort, Close, Exhausted

LEMMA AlwaysArgumentsCame == Spec => [](CallsKeepPlace /\ ArgumentsCame)
<1>1. Init => ArgumentsCame
  BY DEF Init, ArgumentsCame, EmptyContext
<1> QED
  BY <1>1, TypeCorrect, AlwaysCallsCounted, NextArgumentsCame, PTL DEF Spec
----------------------------------------------------------------------------
(* In a run that was not repaired, a step whose row has no error returned. *)
LEMMA RowTells ==
  ASSUME TypeOK, RowsInOrder, repairsDone = 0, NEW i \in DOMAIN plan.steps,
         NEW k \in DOMAIN trace, trace[k].id = plan.steps[i].id
  PROVE  /\ k = i
         /\ trace[k].err = "none" <=> Returned(i)
         /\ k < idx \/ (k = idx /\ pc = "aborted")
<1>1. k \in DOMAIN plan.steps /\ trace[k].id = plan.steps[k].id
  BY DEF RowsInOrder
<1>2. k = i
  BY <1>1 DEF TypeOK, DistinctIds
<1>3. trace[k].err = "none" <=> Returned(k)
  BY DEF RowsInOrder
<1>4. Len(trace) = idx - 1 \/ (Len(trace) = idx /\ pc = "aborted")
  BY DEF RowsInOrder
<1> QED BY <1>2, <1>3, <1>4, CallsType

(* An edge a run is taken to have proven is a data flow that took place.   *)
LEMMA EdgesHappened ==
  ASSUME TypeOK, RowsInOrder, CallsKeepPlace, ArgumentsCame
  PROVE  ProvenEdgesHappened
<1> SUFFICES ASSUME repairsDone = 0 \/ (\A i \in DOMAIN plan.steps : Returned(i)),
                    NEW e \in Flows!TraceEdgesOf(FlowSteps, TraceRows)
             PROVE  \E k, m \in DOMAIN calls :
                      /\ k < m /\ calls[k].ok /\ calls[m].ok
                      /\ calls[k].gen = repairsDone /\ calls[m].gen = repairsDone
                      /\ calls[k].tool = e.source /\ calls[m].tool = e.target
  BY DEF ProvenEdgesHappened
<1>1. PICK i \in DOMAIN plan.steps, j \in DOMAIN plan.steps : \E b \in plan.steps[j].args :
        /\ e.source = plan.steps[i].tool /\ e.target = plan.steps[j].tool
        /\ b.head \notin InputHeads /\ b.head = plan.steps[i].id
        /\ {b.head, plan.steps[j].id} \subseteq Flows!CompletedIds(TraceRows)
  <2>1. PICK i \in DOMAIN FlowSteps, j \in DOMAIN FlowSteps :
          e \in {Flows!Observation(FlowSteps[i].tool, FlowSteps[j].tool, b) :
            b \in {b \in Flows!BindingRows(FlowSteps[j]) :
                     /\ b.head = FlowSteps[i].id /\ FlowSteps[i].tool # FlowSteps[j].tool
                     /\ {b.head, FlowSteps[j].id} \subseteq Flows!CompletedIds(TraceRows)}}
    BY DEF Flows!TraceEdgesOf
  <2>2. /\ i \in DOMAIN plan.steps /\ j \in DOMAIN plan.steps
        /\ FlowSteps[i].tool = plan.steps[i].tool /\ FlowSteps[j].tool = plan.steps[j].tool
        /\ FlowSteps[i].id = plan.steps[i].id /\ FlowSteps[j].id = plan.steps[j].id
        /\ FlowSteps[j].bindings = FlowBindings(plan.steps[j].args)
    BY DEF FlowSteps
  <2>3. PICK b \in Flows!BindingRows(FlowSteps[j]) :
          /\ b.head = FlowSteps[i].id
          /\ {b.head, FlowSteps[j].id} \subseteq Flows!CompletedIds(TraceRows)
          /\ e = Flows!Observation(FlowSteps[i].tool, FlowSteps[j].tool, b)
    BY <2>1
  <2>4. e.source = FlowSteps[i].tool /\ e.target = FlowSteps[j].tool
    BY <2>3 DEF Flows!Observation
  <2>5. b \in FlowBindings(plan.steps[j].args) /\ b.head \notin InputHeads
    BY <2>2, <2>3 DEF Flows!BindingRows, Flows!UserHeads, InputHeads
  <2>6. PICK a \in plan.steps[j].args : a.head = b.head
    BY <2>5 DEF FlowBindings
  <2> QED BY <2>2, <2>3, <2>4, <2>5, <2>6
<1>2. PICK b \in plan.steps[j].args :
        /\ b.head \notin InputHeads /\ b.head = plan.steps[i].id
        /\ {b.head, plan.steps[j].id} \subseteq Flows!CompletedIds(TraceRows)
  BY <1>1
<1>3. Returned(j)
  <2>1. CASE repairsDone = 0
    <3>1. PICK k \in DOMAIN TraceRows : ~TraceRows[k].failed /\ TraceRows[k].id = plan.steps[j].id
      BY <1>2 DEF Flows!CompletedIds
    <3>2. k \in DOMAIN trace /\ trace[k].err = "none" /\ trace[k].id = plan.steps[j].id
      BY <3>1 DEF TraceRows
    <3> QED BY <2>1, <3>2, RowTells
  <2> QED BY <2>1
<1>4. PICK m \in DOMAIN calls : calls[m].gen = repairsDone /\ calls[m].step = j /\ calls[m].ok
  BY <1>3 DEF Returned, CallsFor
<1>5. b.head \in BindingHeads(plan.steps[calls[m].step].args) \ InputHeads
  BY <1>4, <1>2 DEF BindingHeads
<1>6. PICK k \in DOMAIN calls :
        /\ k < m /\ calls[k].ok /\ calls[k].gen = repairsDone
        /\ plan.steps[calls[k].step].id = b.head
  BY <1>4, <1>5 DEF ArgumentsCame, Came
<1>7. calls[k].step \in DOMAIN plan.steps /\ calls[k].step = i
  BY <1>6, <1>2 DEF CallsKeepPlace, TypeOK, DistinctIds
<1>8. calls[k].tool = plan.steps[i].tool /\ calls[m].tool = plan.steps[j].tool
  BY <1>4, <1>6, <1>7 DEF CallsKeepPlace
<1> QED BY <1>1, <1>4, <1>6, <1>8
----------------------------------------------------------------------------
(* The last of some places of a list is one of them.                       *)
LEMMA LastPlace ==
  ASSUME NEW n \in Nat, NEW S \in SUBSET (1 .. n), S # {}
  PROVE  Flows!Max(S) \in S
<1> DEFINE Less == {ss \in Nat \X Nat : ss[1] < ss[2]}
           T == {n - x : x \in S}
<1>1. IsWellFoundedOn(Less, Nat)
  BY NatLessThanWellFounded DEF OpToRel
<1>2. T \subseteq Nat /\ T # {}
  <2>1. \A x \in S : x \in 1 .. n
    OBVIOUS
  <2>2. \A x \in 1 .. n : n - x \in Nat
    OBVIOUS
  <2> QED BY <2>1, <2>2
<1>3. PICK t \in T : \A u \in T : <<u, t>> \notin Less
  <2> HIDE DEF Less, T
  <2> QED BY <1>1, <1>2, WFMin
<1>4. PICK x \in S : t = n - x
  OBVIOUS
<1>5. ASSUME NEW y \in S PROVE x >= y
  <2>1. n - y \in T /\ n - y \in Nat /\ n - x \in Nat
    OBVIOUS
  <2>2. ~(n - y < n - x)
    BY <1>3, <1>4, <2>1
  <2> QED BY <2>2
<1> QED BY <1>4, <1>5 DEF Flows!Max

(* The events of the rows, told one row after the other, are events of the *)
(* rows.                                                                   *)
TellOne(c, told, events) == told \o events

ToldFrom(c, k, told) == told \in Seq(c)

Telling == INSTANCE FoldInduction WITH Op <- TellOne, Good <- ToldFrom

LEMMA AllToldFrom ==
  ASSUME NEW E, NEW n \in Nat, NEW rows \in [1 .. n -> Seq(E)]
  PROVE  InOrder(rows) \in Seq(E)
<1>1. InOrder(rows) = Telling!Result(E, <<>>, rows)
  BY DEF InOrder, TellOne, Flows!FoldLeft, Flows!MapThenFoldSet, Flows!Max, Telling!Result,
         Telling!MapThenFoldSet, Telling!Largest
<1>2. ToldFrom(E, 0, <<>>)
  BY DEF ToldFrom
<1>3. ASSUME NEW i \in 1 .. n, NEW acc, ToldFrom(E, i - 1, acc)
      PROVE  ToldFrom(E, i, TellOne(E, acc, rows[i]))
  <2>1. acc \in Seq(E) /\ rows[i] \in Seq(E)
    BY <1>3 DEF ToldFrom
  <2> QED BY <2>1 DEF ToldFrom, TellOne
<1>4. ToldFrom(E, n, Telling!Result(E, <<>>, rows))
  <2>1. DOMAIN rows = 1 .. n
    OBVIOUS
  <2> QED BY <2>1, <1>2, <1>3, Telling!FoldInduction
<1> QED BY <1>1, <1>4 DEF ToldFrom

(* What the events of a row, of the open step and of the end may say.      *)
RowSays(row, ended) ==
  {Event("step.started", row.id), Event("step.retrying", row.id)}
    \cup (IF row.err = "none" THEN {Event("step.completed", row.id)} ELSE {})
    \cup (IF row.err # "none" /\ ended THEN {Event("step.failed", row.id)} ELSE {})

OpenSays ==
  IF pc \in {"calling", "raised"}
  THEN {Event("step.started", current.id), Event("step.retrying", current.id)} ELSE {}

AllSay ==
  (UNION {RowSays(trace[k], EndedAt(k)) : k \in DOMAIN trace}) \cup OpenSays
    \cup (IF pc = "completed" THEN {Event("plan.completed", NoId)} ELSE {})
    \cup (IF pc = "aborted" THEN {Event("plan.aborted", NoId)} ELSE {})

(* One list after another, of a single item, or of an item repeated.       *)
LEMMA ListOfEvents ==
  ASSUME NEW E
  PROVE  /\ <<>> \in Seq(E)
         /\ \A e \in E : <<e>> \in Seq(E)
         /\ \A e \in E, m \in Int : [n \in 1 .. m |-> e] \in Seq(E)
         /\ \A s, t \in Seq(E) : s \o t \in Seq(E)
<1>1. ASSUME NEW e \in E, NEW m \in Int PROVE [n \in 1 .. m |-> e] \in Seq(E)
  <2>1. CASE m \in Nat
    BY <2>1
  <2>2. CASE m \notin Nat
    <3>1. 1 .. m = 1 .. 0
      BY <2>2
    <3> QED BY <3>1
  <2> QED BY <2>1, <2>2
<1>2. /\ <<>> \in Seq(E)
      /\ \A e \in E : <<e>> \in Seq(E)
      /\ \A s, t \in Seq(E) : s \o t \in Seq(E)
  OBVIOUS
<1> QED BY <1>1, <1>2

LEMMA RowEventsSay ==
  ASSUME NEW row, row.retries \in Int, NEW ended, NEW E, RowSays(row, ended) \subseteq E
  PROVE  EventsOfRow(row, ended) \in Seq(E)
<1>1. Event("step.started", row.id) \in E /\ Event("step.retrying", row.id) \in E
  BY DEF RowSays
<1>2. (IF row.err = "binding" THEN <<>> ELSE <<Event("step.started", row.id)>>) \in Seq(E)
  BY <1>1, ListOfEvents
<1>3. [n \in 1 .. row.retries |-> Event("step.retrying", row.id)] \in Seq(E)
  BY <1>1, ListOfEvents
<1>4. (IF row.err = "none" THEN <<Event("step.completed", row.id)>>
       ELSE IF ended THEN <<Event("step.failed", row.id)>> ELSE <<>>) \in Seq(E)
  <2>1. row.err = "none" => Event("step.completed", row.id) \in E
    BY DEF RowSays
  <2>2. row.err # "none" /\ ended => Event("step.failed", row.id) \in E
    BY DEF RowSays
  <2> QED BY <2>1, <2>2, ListOfEvents
<1> QED BY <1>2, <1>3, <1>4, ListOfEvents DEF EventsOfRow

LEMMA EventsSay ==
  ASSUME TypeOK, RowsKeepPlace
  PROVE  EventsSoFar \in Seq(AllSay)
<1>1. PICK n \in Nat : DOMAIN trace = 1 .. n
  BY DEF RowsKeepPlace
<1>2. \A k \in DOMAIN trace : RowEvents[k] \in Seq(AllSay)
  <2> TAKE k \in DOMAIN trace
  <2>1. trace[k].retries \in Int
    <3>1. trace[k] \in Row
      BY DEF RowsKeepPlace
    <3> QED BY <3>1 DEF Row
  <2>2. RowSays(trace[k], EndedAt(k)) \subseteq AllSay
    BY DEF AllSay
  <2>3. EventsOfRow(trace[k], EndedAt(k)) \in Seq(AllSay)
    BY <2>1, <2>2, RowEventsSay
  <2> QED BY <2>3 DEF RowEvents
<1>3. RowEvents \in [1 .. n -> Seq(AllSay)]
  BY <1>1, <1>2 DEF RowEvents
<1>4. InOrder(RowEvents) \in Seq(AllSay)
  BY <1>3, AllToldFrom
<1>5. OpenEvents \in Seq(AllSay)
  <2>1. CASE pc \in {"calling", "raised"}
    <3>1. Event("step.started", current.id) \in AllSay /\ Event("step.retrying", current.id) \in AllSay
      BY <2>1 DEF AllSay, OpenSays
    <3>2. attempts - 1 \in Int
      BY DEF TypeOK
    <3>3. [m \in 1 .. attempts - 1 |-> Event("step.retrying", current.id)] \in Seq(AllSay)
      BY <3>1, <3>2, ListOfEvents
    <3>4. <<Event("step.started", current.id)>> \in Seq(AllSay)
      BY <3>1, ListOfEvents
    <3> QED BY <2>1, <3>3, <3>4, ListOfEvents DEF OpenEvents
  <2>2. CASE pc \notin {"calling", "raised"}
    BY <2>2, ListOfEvents DEF OpenEvents
  <2> QED BY <2>1, <2>2
<1>6. EndEvents \in Seq(AllSay)
  <2>1. pc = "completed" => Event("plan.completed", NoId) \in AllSay
    BY DEF AllSay
  <2>2. pc = "aborted" => Event("plan.aborted", NoId) \in AllSay
    BY DEF AllSay
  <2> QED BY <2>1, <2>2, ListOfEvents DEF EndEvents
<1> QED BY <1>4, <1>5, <1>6, ListOfEvents DEF EventsSoFar

(* What an event of a step says is true of it.                             *)
LEMMA EventTells ==
  ASSUME TypeOK, RowsKeepPlace, NEW e \in AllSay, e.type \in Flows!StepEvents
  PROVE  \/ \E k \in DOMAIN trace :
              /\ trace[k].id = e.step
              /\ e.type = "step.completed" => trace[k].err = "none"
              /\ e.type = "step.failed" =>
                   trace[k].err # "none" /\ outcome.kind = trace[k].err
         \/ /\ pc \in {"calling", "raised"} /\ e.step = current.id
            /\ e.type \in {"step.started", "step.retrying"}
<1>1. \A type, id : Event(type, id).type = type /\ Event(type, id).step = id
  BY DEF Event
<1>2. CASE \E k \in DOMAIN trace : e \in RowSays(trace[k], EndedAt(k))
  <2>1. PICK k \in DOMAIN trace : e \in RowSays(trace[k], EndedAt(k))
    BY <1>2
  <2>2. \/ e = Event("step.started", trace[k].id) \/ e = Event("step.retrying", trace[k].id)
        \/ e = Event("step.completed", trace[k].id) /\ trace[k].err = "none"
        \/ e = Event("step.failed", trace[k].id) /\ trace[k].err # "none" /\ EndedAt(k)
    BY <2>1 DEF RowSays
  <2> QED BY <1>1, <2>2 DEF EndedAt
<1>3. CASE e \in OpenSays
  BY <1>1, <1>3 DEF OpenSays
<1>4. CASE e = Event("plan.completed", NoId) \/ e = Event("plan.aborted", NoId)
  BY <1>1, <1>4 DEF Flows!StepEvents
<1> QED BY <1>2, <1>3, <1>4 DEF AllSay

(* So is the status shown for a step, from the events or from the trace.   *)
LEMMA StatusTells ==
  ASSUME TypeOK, RowsKeepPlace, NEW id, NEW rows \in {<<>>, TraceRows},
         NEW s, s = Flows!StepStatus(id, EventsSoFar, rows)
  PROVE  /\ s = "completed" => \E k \in DOMAIN trace : trace[k].id = id /\ trace[k].err = "none"
         /\ s = "failed" =>
              \E k \in DOMAIN trace :
                /\ trace[k].id = id /\ trace[k].err # "none"
                /\ rows # <<>> \/ outcome.kind = trace[k].err
         /\ s \in Flows!Reached =>
              \/ \E k \in DOMAIN trace : trace[k].id = id
              \/ pc \in {"calling", "raised"} /\ current.id = id
<1> DEFINE mine == {k \in DOMAIN EventsSoFar :
                      EventsSoFar[k].step = id /\ EventsSoFar[k].type \in Flows!StepEvents}
           told == {k \in DOMAIN rows : rows[k].id = id}
<1>1. CASE told = {} /\ mine = {}
  <2>1. s = "planned"
    BY <1>1 DEF Flows!StepStatus, Flows!EventStatus
  <2> QED BY <2>1 DEF Flows!Reached
<1>2. CASE told = {} /\ mine # {}
  <2>1. EventsSoFar \in Seq(AllSay)
    BY EventsSay
  <2>2. mine \in SUBSET (1 .. Len(EventsSoFar)) /\ Len(EventsSoFar) \in Nat
    BY <2>1
  <2> DEFINE k == Flows!Max(mine)
  <2>3. k \in mine
    <3> HIDE DEF mine
    <3> QED BY <1>2, <2>2, LastPlace
  <2>4. s = Flows!StatusOfEvent(EventsSoFar[k].type)
    BY <1>2 DEF Flows!StepStatus, Flows!EventStatus
  <2> HIDE DEF k
  <2>5. EventsSoFar[k] \in AllSay /\ EventsSoFar[k].step = id /\ EventsSoFar[k].type \in Flows!StepEvents
    BY <2>1, <2>3
  <2>6. PICK e : e = EventsSoFar[k]
    OBVIOUS
  <2>7. /\ e.type = "step.started" => s = "running"
        /\ e.type = "step.retrying" => s = "retrying"
        /\ e.type = "step.completed" => s = "completed"
        /\ e.type = "step.failed" => s = "failed"
    BY <2>4, <2>6 DEF Flows!StatusOfEvent
  <2>8. e \in AllSay /\ e.step = id /\ e.type \in Flows!StepEvents
    BY <2>5, <2>6
  <2> QED BY <2>7, <2>8, EventTells DEF Flows!StepEvents
<1>3. CASE told # {}
  <2>1. rows = TraceRows /\ DOMAIN rows = DOMAIN trace /\ rows # <<>>
    BY <1>3 DEF TraceRows
  <2>2. told \in SUBSET (1 .. Len(trace)) /\ Len(trace) \in Nat
    BY <2>1 DEF RowsKeepPlace
  <2> DEFINE k == Flows!Max(told)
  <2>3. k \in told
    <3> HIDE DEF told
    <3> QED BY <1>3, <2>2, LastPlace
  <2>4. s = IF rows[k].failed THEN "failed" ELSE "completed"
    BY <1>3 DEF Flows!StepStatus
  <2> HIDE DEF k
  <2>5. k \in DOMAIN trace /\ trace[k].id = id /\ rows[k].failed = (trace[k].err # "none")
    BY <2>1, <2>3 DEF TraceRows
  <2> QED BY <2>1, <2>4, <2>5
<1> QED BY <1>1, <1>2, <1>3

(* A transition leads into a step of the plan.                             *)
LEMMA TransitionsLeadToSteps ==
  ASSUME NEW x \in Flows!Transitions(FlowSteps)
  PROVE  \E i \in DOMAIN plan.steps : x.to = plan.steps[i].id
<1>1. PICK i \in DOMAIN FlowSteps : x \in Flows!TransitionsInto(FlowSteps, i)
  BY DEF Flows!Transitions
<1> DEFINE t == FlowSteps[i]
           rows == Flows!BindingRows(t)
           flows == {[from |-> b.head, to |-> t.id, relation |-> "data_flow", field |-> b.field] :
                       b \in rows}
           waits == {[from |-> d, to |-> t.id, relation |-> "depends_on", field |-> ""] :
                       d \in t.depends \ {b.head : b \in rows}}
           linked == {y \in flows \cup waits : y.from # t.id}
           before == IF i > 1 THEN {FlowSteps[i-1].id} \ ({y.from : y \in linked} \cup {t.id})
                     ELSE {}
<1>2. x.to = FlowSteps[i].id
  <2>1. x \in linked \cup {[from |-> p, to |-> t.id, relation |-> "precedes", field |-> ""] :
                            p \in before}
    BY <1>1 DEF Flows!TransitionsInto
  <2>2. \A y \in flows : y.to = t.id
    OBVIOUS
  <2>3. \A y \in waits : y.to = t.id
    <3> TAKE y \in waits
    <3>1. PICK d : y = [from |-> d, to |-> t.id, relation |-> "depends_on", field |-> ""]
      BY Zenon
    <3> HIDE DEF t
    <3> QED BY <3>1
  <2>4. CASE x \in linked
    <3> HIDE DEF flows, waits
    <3> QED BY <2>2, <2>3, <2>4
  <2>5. CASE x \in {[from |-> p, to |-> t.id, relation |-> "precedes", field |-> ""] :
                    p \in before}
    <3>1. PICK p : x = [from |-> p, to |-> t.id, relation |-> "precedes", field |-> ""]
      BY <2>5, Zenon
    <3>2. x.to = t.id
      <4> HIDE DEF t
      <4> QED BY <3>1
    <3> QED BY <3>2
  <2> HIDE DEF linked, before
  <2> QED BY <2>1, <2>4, <2>5
<1>3. i \in DOMAIN plan.steps /\ FlowSteps[i].id = plan.steps[i].id
  BY <1>1 DEF FlowSteps
<1> QED BY <1>2, <1>3

(* The flow shown of a run that was not repaired is true.                  *)
LEMMA ShownFlowIsTrue ==
  ASSUME TypeOK, RowsKeepPlace, RowsInOrder
  PROVE  FlowIsTrue
<1> SUFFICES ASSUME repairsDone = 0, NEW rows \in {<<>>, TraceRows}
             PROVE  TrueFlow(Flows!Flow(FlowSteps, EventsSoFar, rows), rows)
  BY DEF FlowIsTrue
<1> DEFINE status == Flows!Statuses(FlowSteps, EventsSoFar, rows)
           f == Flows!Flow(FlowSteps, EventsSoFar, rows)
<1>1. /\ DOMAIN FlowSteps = DOMAIN plan.steps
      /\ \A i \in DOMAIN plan.steps : FlowSteps[i].id = plan.steps[i].id
  BY DEF FlowSteps
<1>2. /\ DOMAIN status = {plan.steps[i].id : i \in DOMAIN plan.steps}
      /\ \A i \in DOMAIN plan.steps :
           status[plan.steps[i].id] = Flows!StepStatus(plan.steps[i].id, EventsSoFar, rows)
  BY <1>1 DEF Flows!Statuses
<1>3. /\ f.observed = {x \in Flows!Transitions(FlowSteps) : Flows!Observed(x, status)}
      /\ f.status = Flows!FlowStatus(FlowSteps, status, EventsSoFar)
  BY DEF Flows!Flow, Flows!FlowWith
<1> HIDE DEF status, f
<1>4. \A i \in DOMAIN plan.steps : StepOf(plan.steps[i].id) = i
  BY DEF StepOf, TypeOK, DistinctIds
<1>5. ASSUME NEW i \in DOMAIN plan.steps
      PROVE  /\ status[plan.steps[i].id] = "completed" => Returned(i)
             /\ status[plan.steps[i].id] = "failed" =>
                  pc = "aborted" \/ (rows # <<>> /\ Passed(i))
             /\ status[plan.steps[i].id] \in Flows!Reached => i <= idx
  <2>1. PICK s : s = Flows!StepStatus(plan.steps[i].id, EventsSoFar, rows)
    OBVIOUS
  <2>2. s = status[plan.steps[i].id]
    BY <1>2, <2>1
  <2>3. /\ s = "completed" =>
              \E k \in DOMAIN trace : trace[k].id = plan.steps[i].id /\ trace[k].err = "none"
        /\ s = "failed" =>
              \E k \in DOMAIN trace :
                /\ trace[k].id = plan.steps[i].id /\ trace[k].err # "none"
                /\ rows # <<>> \/ outcome.kind = trace[k].err
        /\ s \in Flows!Reached =>
              \/ \E k \in DOMAIN trace : trace[k].id = plan.steps[i].id
              \/ pc \in {"calling", "raised"} /\ current.id = plan.steps[i].id
    BY <2>1, StatusTells
  <2>4. s = "completed" => Returned(i)
    BY <2>3, RowTells
  <2>5. ASSUME s = "failed" PROVE pc = "aborted" \/ (rows # <<>> /\ Passed(i))
    <3>1. PICK k \in DOMAIN trace :
            /\ trace[k].id = plan.steps[i].id /\ trace[k].err # "none"
            /\ rows # <<>> \/ outcome.kind = trace[k].err
      BY <2>5, <2>3
    <3>2. ~Returned(i) /\ (i < idx \/ pc = "aborted")
      BY <3>1, RowTells
    <3>3. trace[k].err \in {"none", "tool", "binding"}
      <4>1. trace[k] \in Row
        BY DEF RowsKeepPlace
      <4> QED BY <4>1 DEF Row
    <3> QED BY <3>1, <3>2, <3>3 DEF Passed, RowsInOrder
  <2>6. ASSUME s \in Flows!Reached PROVE i <= idx
    <3>1. CASE \E k \in DOMAIN trace : trace[k].id = plan.steps[i].id
      BY <3>1, RowTells, CallsType
    <3>2. CASE pc \in {"calling", "raised"} /\ current.id = plan.steps[i].id
      <4>1. idx \in DOMAIN plan.steps
        BY <3>2, CurrentType DEF TypeOK
      <4>2. i = idx
        BY <3>2, <4>1 DEF current, TypeOK, DistinctIds
      <4> QED BY <4>2, CallsType
    <3> QED BY <2>6, <2>3, <3>1, <3>2
  <2> QED BY <2>2, <2>4, <2>5, <2>6
<1>6. ASSUME NEW x \in f.observed PROVE Returned(StepOf(x.from)) /\ StepOf(x.to) <= idx
  <2>1. /\ x \in Flows!Transitions(FlowSteps) /\ x.from \in DOMAIN status
        /\ status[x.from] = "completed" /\ status[x.to] \in Flows!Reached
    BY <1>3 DEF Flows!Observed
  <2>2. PICK i \in DOMAIN plan.steps : x.from = plan.steps[i].id
    BY <1>2, <2>1
  <2>3. PICK j \in DOMAIN plan.steps : x.to = plan.steps[j].id
    BY <2>1, TransitionsLeadToSteps
  <2> QED BY <1>4, <1>5, <2>1, <2>2, <2>3
<1>7. \A e \in AllSay : /\ e.type = "plan.completed" => pc = "completed"
                        /\ e.type = "plan.aborted" => pc = "aborted"
  <2> TAKE e \in AllSay
  <2>1. \A type, id : Event(type, id).type = type
    BY DEF Event
  <2>2. CASE \E k \in DOMAIN trace : e \in RowSays(trace[k], EndedAt(k))
    BY <2>1, <2>2 DEF RowSays
  <2>3. CASE e \in OpenSays
    BY <2>1, <2>3 DEF OpenSays
  <2>4. CASE e = Event("plan.completed", NoId) /\ pc = "completed"
    BY <2>1, <2>4
  <2>5. CASE e = Event("plan.aborted", NoId) /\ pc = "aborted"
    BY <2>1, <2>5
  <2> QED BY <2>2, <2>3, <2>4, <2>5 DEF AllSay
<1>8. \A k \in DOMAIN EventsSoFar : EventsSoFar[k] \in AllSay
  BY EventsSay
<1>9. ASSUME f.status = "completed", NEW i \in DOMAIN plan.steps PROVE Returned(i) \/ Passed(i)
  <2>1. \/ \E k \in DOMAIN EventsSoFar : EventsSoFar[k].type = "plan.completed"
        \/ \A j \in DOMAIN FlowSteps : status[FlowSteps[j].id] = "completed"
    BY <1>3, <1>9 DEF Flows!FlowStatus
  <2>2. CASE pc = "completed"
    <3>1. idx > Len(plan.steps) /\ i \in 1 .. Len(plan.steps) /\ Len(plan.steps) \in Nat
      BY <2>2 DEF RowsInOrder, TypeOK, Plan
    <3> QED BY <3>1, CallsType DEF Passed
  <2> QED BY <1>1, <1>5, <1>7, <1>8, <2>1, <2>2
<1>10. ASSUME f.status = "failed"
       PROVE  pc = "aborted" \/ (rows # <<>> /\ \E i \in DOMAIN plan.steps : Passed(i))
  <2>1. \/ \E k \in DOMAIN EventsSoFar : EventsSoFar[k].type = "plan.aborted"
        \/ \E id \in DOMAIN status : status[id] = "failed"
    BY <1>3, <1>10 DEF Flows!FlowStatus
  <2> QED BY <1>2, <1>5, <1>7, <1>8, <2>1
<1> QED BY <1>6, <1>9, <1>10 DEF TrueFlow, f

(* What is told of a run is what happened in it, as far as it can be told: *)
(* of a run that was not repaired, the flow an adapter shows, from the     *)
(* events or from the trace, claims no transition, no completion and no    *)
(* failure that the calls do not bear out; a data flow is learnt only from *)
(* a producer that returned before its consumer, if the run was not        *)
(* repaired or every step of its last plan returned.  Nothing is said of   *)
(* what is shown after a repair.                                           *)
THEOREM RunShownTruly == Spec => []RunIsShownTruly
<1>1. /\ TypeOK /\ RowsKeepPlace /\ RowsInOrder /\ CallsKeepPlace /\ ArgumentsCame
      => RunIsShownTruly
  BY ShownFlowIsTrue, EdgesHappened DEF RunIsShownTruly
<1> QED
  BY <1>1, TypeCorrect, AlwaysRowsInOrder, AlwaysArgumentsCame, PTL
=============================================================================
