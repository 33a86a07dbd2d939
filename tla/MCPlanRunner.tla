---------------------------- MODULE MCPlanRunner ----------------------------
(***************************************************************************)
(* A small world for PlanRunner: the target t needs field g, which b and c *)
(* produce; b needs field f, which a produces.  The initial plans are the  *)
(* synthesized one and hand-written ones: with opt-in retries, without an  *)
(* output_binding, with a step nobody consumes, with a dangling binding.   *)
(***************************************************************************)
EXTENDS ObservedRun

CONSTANTS MaxAttempts, MaxRepairs

At(head, field) == [head |-> head, field |-> field]

PlanStep(id, tool, args, retryable) ==
  [id |-> id, tool |-> tool, args |-> args, retryable |-> retryable]

Synthesized(steps, ents) ==
  [steps |-> steps, target |-> "t", entities |-> ents,
   out |-> {At(steps[Len(steps)].id, Whole)}]

HandWritten(steps, out) ==
  [steps |-> steps, target |-> NoTool, entities |-> {}, out |-> out]

ProducedBy(tool) == CASE tool = "a" -> {"f"} [] tool \in {"b", "c"} -> {"g"}
                      [] OTHER -> {}

MCResponses(tool) ==
  {s \in Shape : \A f \in Fields \ ProducedBy(tool) : s[f] = "absent"}

MCExtract(tool, shape) == {f \in ProducedBy(tool) : shape[f] # "absent"}

Call(id, tool, args) == PlanStep(id, tool, args, FALSE)

Tail2(x, firstId, secondId) ==
  <<Call(firstId, x.tool, x.args),
    Call(secondId, "t", {At(firstId, "g")})>>

MCResynthesize(t, ents, excl) ==
  IF t # "t" THEN NoPlan
  ELSE IF "g" \in ents
  THEN Synthesized(<<Call("s1", "t", {})>>, ents)
  ELSE IF "b" \notin excl /\ "f" \notin ents /\ "a" \notin excl
  THEN Synthesized(<<Call("s1", "a", {}), Call("s2", "b", {At("s1", "f")}),
                     Call("s3", "t", {At("s2", "g")})>>, ents)
  ELSE IF "b" \notin excl
  THEN Synthesized(Tail2([tool |-> "b", args |-> IF "f" \in ents THEN {}
                            ELSE {At("user_input", "f")}], "s1", "s2"), ents)
  ELSE IF "c" \notin excl
  THEN Synthesized(Tail2([tool |-> "c", args |-> {}], "s1", "s2"), ents)
  ELSE Synthesized(<<Call("s1", "t", {At("user_input", "g")})>>, ents)

MCInitialPlans ==
  {MCResynthesize("t", {}, {}),
   \* an opted-in step, and one that is not; the first one's output unused
   HandWritten(<<PlanStep("s1", "a", {At("input", "f")}, TRUE),
                 PlanStep("s2", "c", {}, FALSE)>>, {At("s2", "g")}),
   \* no output_binding; s1 consumed by s3 only
   HandWritten(<<PlanStep("s1", "a", {}, FALSE), PlanStep("s2", "c", {}, TRUE),
                 PlanStep("s3", "b", {At("s1", "f")}, TRUE)>>, {}),
   \* the answer is an earlier step; a binding to an unknown id
   HandWritten(<<PlanStep("s1", "c", {}, TRUE), PlanStep("s2", "a", {At("s1", Whole)}, FALSE)>>,
               {At("s1", Whole)}),
   HandWritten(<<PlanStep("s1", "a", {At("s3", "f")}, FALSE)>>, {}),
   HandWritten(<<>>, {})}

InputF == [NoInput EXCEPT !["f"] = "declared"]
InputNearF == [NoInput EXCEPT !["f"] = "moved"]

MCConfigurations ==
  [onError : {"abort", "retry", "recover"},
   policy : BOOLEAN, retryAll : BOOLEAN, maxAttempts : {MaxAttempts},
   repairer : BOOLEAN, maxRepairs : {MaxRepairs},
   recovery : BOOLEAN, input : {NoInput, InputF, InputNearF}]
============================================================================
