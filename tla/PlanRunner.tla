----------------------------- MODULE PlanRunner -----------------------------
(***************************************************************************)
(* plan/runner.py: PlanRunner.run_stream, the generator that executes a    *)
(* plan step by step, retries a failed call, and in "recover" mode skips a *)
(* step nobody needs or swaps the whole plan for a repaired one.           *)
(*                                                                         *)
(* The consumer drives the generator and may stop at any yield (Close).    *)
(* The tools are the environment: each call returns an output of any shape *)
(* or raises.                                                              *)
(***************************************************************************)
EXTENDS Plans

CONSTANTS
  Configurations,  \* the PlanRunner constructor arguments to consider
  InitialPlans,    \* the plans handed to run_stream
  Responses(_),    \* the shapes a tool's (unwrapped) output may take
  NoId             \* no step: "<output_binding>" or a completed run

(* policy: a RetryPolicy was given; repairer: a PlanRepairer was given;    *)
(* recovery: binding_recovery; input: the input_context.                   *)
Configuration ==
  [onError : {"abort", "retry", "recover"},
   policy : BOOLEAN, retryAll : BOOLEAN, maxAttempts : Nat,
   repairer : BOOLEAN, maxRepairs : Nat,
   recovery : BOOLEAN, input : Shape]

ASSUME RunnerAssumption ==
  /\ Configurations \subseteq Configuration
  /\ InitialPlans \subseteq Plan
  /\ \A p \in InitialPlans : DistinctIds(p) /\ EndsInTarget(p)
  /\ \A t \in Tools : Responses(t) \subseteq Shape
  /\ NoId \notin Ids

VARIABLES
  conf,         \* the configuration, fixed
  pc,           \* where the generator is suspended
  plan,         \* the plan being executed (the local "plan", swapped by a repair)
  idx,          \* the step being executed, 1-based
  attempts,     \* calls made for it so far
  context,      \* source name -> output, what bindings resolve against
  trace,        \* trace_steps
  repairsDone,
  excluded,     \* excluded_tools
  outcome,      \* the terminal event
  calls         \* history: every call_tool made

vars == <<conf, pc, plan, idx, attempts, context, trace, repairsDone,
          excluded, outcome, calls>>

Terminal == {"completed", "aborted", "closed"}

NoOutcome == [kind |-> "none", step |-> NoId, by |-> NoTool, gen |-> 0]

current == plan.steps[idx]
----------------------------------------------------------------------------
(* _max_attempts_for: one try unless the mode, the policy and the step's   *)
(* own opt-in (or retry_all) all allow more.                               *)
MaxAttemptsFor(step) ==
  IF /\ conf.onError \in {"retry", "recover"}
     /\ conf.policy
     /\ step.retryable \/ conf.retryAll
     /\ conf.maxAttempts > 1
  THEN conf.maxAttempts
  ELSE 1

(* step_trace of the current step; gen and step are history (an id is      *)
(* reused by the plans that replace one another).                          *)
TraceEntry(err, retries) ==
  [id |-> current.id, tool |-> current.tool, err |-> err, retries |-> retries,
   gen |-> repairsDone, step |-> idx]

Outcome(kind, step) == [NoOutcome EXCEPT !.kind = kind, !.step = step]

(* got: the entities a repair would extract from what the call returned.   *)
Record(ok, got) ==
  calls' = Append(calls, [tool |-> current.tool, gen |-> repairsDone,
                          step |-> idx, ok |-> ok, got |-> got])
----------------------------------------------------------------------------
Init ==
  /\ conf \in Configurations
  /\ plan \in InitialPlans
  /\ pc = "new"
  /\ idx = 1
  /\ attempts = 0
  /\ context = EmptyContext
  /\ trace = <<>>
  /\ repairsDone = 0
  /\ excluded = {}
  /\ outcome = NoOutcome
  /\ calls = <<>>

(* plan.started; the input dict is bound only when it is not empty.        *)
Start ==
  /\ pc = "new"
  /\ pc' = "next"
  /\ context' = IF conf.input = NoInput THEN EmptyContext
                ELSE InputContext(conf.input, 0)
  /\ UNCHANGED <<conf, plan, idx, attempts, trace, repairsDone, excluded,
                 outcome, calls>>

(* The bindings resolve as declared, or each one that does not is          *)
(* relocated: either way the step has all its arguments.                   *)
ArgumentsAvailable ==
  \/ \A b \in current.args : Resolves(b, context)
  \/ /\ conf.recovery
     /\ \A b \in current.args : Resolves(b, context) \/ Recoverable(b, context)

(* step.started                                                            *)
StartStep ==
  /\ pc = "next" /\ idx <= Len(plan.steps)
  /\ ArgumentsAvailable
  /\ pc' = "calling"
  /\ attempts' = 0
  /\ UNCHANGED <<conf, plan, idx, context, trace, repairsDone, excluded,
                 outcome, calls>>

(* A binding error is never retried, skipped or repaired.                  *)
BindingAbort ==
  /\ pc = "next" /\ idx <= Len(plan.steps)
  /\ ~ArgumentsAvailable
  /\ pc' = "aborted"
  /\ trace' = Append(trace, TraceEntry("binding", 0))
  /\ outcome' = Outcome("binding", current.id)
  /\ UNCHANGED <<conf, plan, idx, attempts, context, repairsDone, excluded, calls>>
----------------------------------------------------------------------------
ContextWith(shape) ==
  [h \in DOMAIN context \cup {current.id} |->
     IF h = current.id
     THEN [by |-> current.tool, gen |-> repairsDone, at |-> shape]
     ELSE context[h]]

(* call_tool returns: the output (one envelope layer peeled) is stored     *)
(* under the step's id, step.completed.                                    *)
CallReturns ==
  /\ pc = "calling"
  /\ attempts' = attempts + 1
  /\ \E shape \in Responses(current.tool) :
       /\ context' = ContextWith(shape)
       /\ Record(TRUE, Extract(current.tool, shape))
  /\ trace' = Append(trace, TraceEntry("none", attempts))
  /\ idx' = idx + 1
  /\ pc' = "next"
  /\ UNCHANGED <<conf, plan, repairsDone, excluded, outcome>>

(* call_tool raises; the handlers below decide what becomes of the step.   *)
CallRaises ==
  /\ pc = "calling"
  /\ Record(FALSE, {})
  /\ attempts' = attempts + 1
  /\ pc' = "raised"
  /\ UNCHANGED <<conf, plan, idx, context, trace, repairsDone, excluded, outcome>>

(* step.retrying, then the backoff sleep.                                  *)
Retry ==
  /\ pc = "raised" /\ attempts < MaxAttemptsFor(current)
  /\ pc' = "calling"
  /\ UNCHANGED <<conf, plan, idx, attempts, context, trace, repairsDone,
                 excluded, outcome, calls>>

Exhausted == pc = "raised" /\ attempts >= MaxAttemptsFor(current)

Skippable == conf.onError = "recover" /\ ~IsOutputConsumed(plan, idx)

(* step.skipped: nothing downstream binds to the step, go on without it.   *)
Skip ==
  /\ Exhausted /\ Skippable
  /\ trace' = Append(trace, TraceEntry("tool", attempts - 1))
  /\ idx' = idx + 1
  /\ pc' = "next"
  /\ UNCHANGED <<conf, plan, attempts, context, repairsDone, excluded,
                 outcome, calls>>

(* What the cascade swaps in for the failed plan, if anything.             *)
Replacement ==
  IF conf.onError = "recover" /\ conf.repairer /\ repairsDone < conf.maxRepairs
  THEN RepairedPlan(plan, idx, context, excluded)
  ELSE NoPlan

(* Mutant of ContextAfterRepair: the outputs of the old plan stay.         *)
ContextKept(newPlan) ==
  [h \in DOMAIN context \cup InputHeads |->
     IF h \in InputHeads
     THEN InputContext(UpdateInput(conf.input, newPlan.entities), repairsDone + 1)[h]
     ELSE context[h]]

ContextAfterRepair(newPlan) ==
  InputContext(UpdateInput(conf.input, newPlan.entities), repairsDone + 1)

(* Mutant of TraceAfterRepair: the step that triggered the repair is lost. *)
TraceWithoutTrigger == trace

TraceAfterRepair == Append(trace, TraceEntry("tool", attempts - 1))

IndexAfterRepair == 1

(* plan.repaired: start over on the new plan with a fresh context.         *)
Repair ==
  /\ Exhausted /\ ~Skippable
  /\ \E newPlan \in {Replacement} \ {NoPlan} :
       /\ plan' = newPlan
       /\ context' = ContextAfterRepair(newPlan)
  /\ trace' = TraceAfterRepair
  /\ repairsDone' = repairsDone + 1
  /\ excluded' = ExcludedAfter(plan, idx, excluded)
  /\ idx' = IndexAfterRepair
  /\ pc' = "next"
  /\ UNCHANGED <<conf, attempts, outcome, calls>>

(* step.failed and plan.aborted: abort / retry mode, or recovery is out of *)
(* options.                                                                *)
CallAbort ==
  /\ Exhausted /\ ~Skippable
  /\ Replacement = NoPlan
  /\ trace' = Append(trace, TraceEntry("tool", attempts - 1))
  /\ outcome' = Outcome("tool", current.id)
  /\ pc' = "aborted"
  /\ UNCHANGED <<conf, plan, idx, attempts, context, repairsDone, excluded, calls>>
----------------------------------------------------------------------------
(* The final answer: what output_binding names, else the last step's       *)
(* output, else None for an empty plan.                                    *)
AnswerSource ==
  IF plan.out # {} THEN {b.head : b \in plan.out}
  ELSE IF plan.steps # <<>> THEN {plan.steps[Len(plan.steps)].id}
  ELSE {}

(* Mutant of Unanswered: only an explicit output_binding can fail.         *)
UnansweredBinding == \E b \in plan.out : ~Resolves(b, context)

Unanswered ==
  \/ \E b \in plan.out : ~Resolves(b, context)
  \/ plan.out = {} /\ AnswerSource \ DOMAIN context # {}

(* plan.completed                                                          *)
Complete ==
  /\ pc = "next" /\ idx > Len(plan.steps)
  /\ ~ \E b \in plan.out : ~Resolves(b, context)
  /\ AnswerSource \subseteq DOMAIN context
  /\ pc' = "completed"
  /\ outcome' =
       IF AnswerSource = {} THEN Outcome("completed", NoId)
       ELSE LET h == CHOOSE h \in AnswerSource : TRUE IN
            [kind |-> "completed", step |-> NoId,
             by |-> context[h].by, gen |-> context[h].gen]
  /\ UNCHANGED <<conf, plan, idx, attempts, context, trace, repairsDone,
                 excluded, calls>>

(* plan.aborted with failed_step "<output_binding>".                       *)
OutputAbort ==
  /\ pc = "next" /\ idx > Len(plan.steps)
  /\ Unanswered
  /\ pc' = "aborted"
  /\ outcome' = Outcome("output_binding", NoId)
  /\ UNCHANGED <<conf, plan, idx, attempts, context, trace, repairsDone,
                 excluded, calls>>

(* The consumer stops iterating: GeneratorExit at the current yield.       *)
Close ==
  /\ pc \in {"new", "next", "calling"}
  /\ pc' = "closed"
  /\ UNCHANGED <<conf, plan, idx, attempts, context, trace, repairsDone,
                 excluded, outcome, calls>>
----------------------------------------------------------------------------
Advance ==
  \/ Start \/ StartStep \/ BindingAbort
  \/ CallReturns
  \/ CallRaises \/ Retry \/ Skip \/ Repair \/ CallAbort
  \/ Complete \/ OutputAbort

(* The stream has ended; the generator stays exhausted.                    *)
Done == pc \in Terminal /\ UNCHANGED vars

Next == Advance \/ Close \/ Done

Spec == Init /\ [][Next]_vars

(* PlanRunner.run and an SSE handler iterate the generator to its end.     *)
FairSpec == Spec /\ WF_vars(Advance)
----------------------------------------------------------------------------
(* Type invariant: every variable of run_stream keeps its type, and idx    *)
(* stays within the plan being executed or one past its end.               *)
TypeOK ==
  /\ conf \in Configurations
  /\ plan \in Plan
  /\ pc \in Terminal \cup {"new", "next", "calling", "raised"}
  /\ idx \in 1 .. Len(plan.steps) + 1
  /\ pc \in {"calling", "raised"} => idx <= Len(plan.steps)
  /\ attempts \in Nat
  /\ DOMAIN context \subseteq Heads
  /\ context \in [DOMAIN context -> Output]
  /\ calls \in Seq([tool : Tools, gen : Nat, step : Nat, ok : BOOLEAN,
                    got : SUBSET Keys])
  /\ repairsDone \in Nat
  /\ excluded \subseteq Tools
  /\ DistinctIds(plan)

CallsFor(gen, i) == {k \in DOMAIN calls : calls[k].gen = gen /\ calls[k].step = i}

(* A step is called more than once only if the mode and the step's opt-in  *)
(* (or retry_all) say so, never more often than max_attempts, and never    *)
(* again after a call that succeeded (RetryPolicy, _max_attempts_for).     *)
RetryBudget ==
  \A i \in DOMAIN plan.steps :
    LET mine == CallsFor(repairsDone, i) IN
    /\ Cardinality(mine) > 1 =>
         /\ Cardinality(mine) <= conf.maxAttempts
         /\ conf.onError # "abort"
         /\ plan.steps[i].retryable \/ conf.retryAll
    /\ \A k, m \in mine : calls[k].ok => m <= k

(* The outputs bindings resolve against are those of the current plan:     *)
(* although every repaired plan numbers its steps s1, s2, ... again, an    *)
(* output stored under such an id was returned by that very step's tool,   *)
(* called for this plan (re-seeding of the context after plan.repaired).   *)
ContextFresh ==
  \A h \in DOMAIN context \ InputHeads :
    \E i \in 1 .. idx-1 :
      /\ i \in DOMAIN plan.steps
      /\ plan.steps[i].id = h
      /\ context[h].by = plan.steps[i].tool
      /\ context[h].gen = repairsDone

(* Steps of the current plan that were passed over without an output.      *)
SkippedIds ==
  {plan.steps[i].id : i \in {j \in 1 .. idx-1 :
      j \in DOMAIN plan.steps /\ plan.steps[j].id \notin DOMAIN context}}

(* A safe skip is safe: the run is never aborted because a binding, of a   *)
(* later step or of the final answer, names a step that was skipped        *)
(* (is_output_consumed: "a False result means the step is a safe skip").   *)
SkipIsSafe ==
  /\ outcome.kind = "binding" => BindingHeads(current.args) \cap SkippedIds = {}
  /\ outcome.kind = "output_binding" => BindingHeads(plan.out) \cap SkippedIds = {}

(* The trace handed to the caller accounts for every call that was made,   *)
(* in all the plans of the run: each step that was called, the one still   *)
(* open aside, has one entry and its retries are the calls after the first.*)
TraceAccountsForCalls ==
  /\ \A k \in DOMAIN trace :
       Cardinality(CallsFor(trace[k].gen, trace[k].step)) =
         IF trace[k].err = "binding" THEN 0 ELSE trace[k].retries + 1
  /\ \A k \in DOMAIN calls :
       \/ \E m \in DOMAIN trace : trace[m].gen = calls[k].gen /\ trace[m].step = calls[k].step
       \/ calls[k].gen = repairsDone /\ calls[k].step = idx

(* The target, the side effect the user asked for, is called at most       *)
(* max_attempts times and succeeds at most once in a whole run: a repair   *)
(* replaces prerequisites only (PlanRepairer declines a failed target).    *)
TargetCalls == {k \in DOMAIN calls : calls[k].tool = plan.target}

TargetBudget ==
  /\ Cardinality(TargetCalls) > 1 => Cardinality(TargetCalls) <= conf.maxAttempts
  /\ \A k, m \in TargetCalls : calls[k].ok => m <= k

(* No step is called more often than its policy allows, and the target no  *)
(* more often than one step may be, however many plans the run goes through.*)
CallBudgets == RetryBudget /\ TargetBudget

(* A tool excluded by a repair is never called again in the run, however   *)
(* many repairs follow (excluded_tools is cumulative).                     *)
ExcludedNeverCalled ==
  [][calls' # calls => calls'[Len(calls')].tool \notin excluded]_vars

(* run_stream delivers what EventStream promises its consumers.            *)
Stream == INSTANCE EventStream WITH
  ToolNames <- Tools,
  StepIds   <- Ids,
  NoStep    <- NoId,
  status    <- IF pc \in Terminal THEN pc ELSE "running",
  open      <- IF pc \in {"calling", "raised"} THEN current.id ELSE NoId,
  banned    <- excluded

StreamContract == Stream!Spec

(* Every run reaches a terminal event once the consumer keeps iterating    *)
(* and every call returns or raises: retries and repairs cannot go on      *)
(* forever, and no step is left without a handler.                         *)
Terminates == <>(pc \in Terminal)
============================================================================
