---------------------------- MODULE EventStream ----------------------------
(***************************************************************************)
(* What a consumer of PlanRunner.run_stream may rely on, whatever the      *)
(* plan: one step is open at a time, an opened step is settled before the  *)
(* next one opens, a replan bans one more tool and never unbans any, and   *)
(* the stream ends once, after which nothing more is emitted.              *)
(***************************************************************************)
CONSTANTS ToolNames, StepIds, NoStep

VARIABLES
  status,   \* "running", then how the stream ended
  open,     \* the step whose step.started has no closing event yet
  banned    \* tools named by the plan.repaired events so far

vars == <<status, open, banned>>

Ends == {"completed", "aborted", "closed"}

TypeOK ==
  /\ status \in {"running"} \cup Ends
  /\ open \in StepIds \cup {NoStep}
  /\ banned \subseteq ToolNames

Init ==
  /\ status = "running"
  /\ open = NoStep
  /\ banned = {}

(* step.started                                                            *)
Open ==
  /\ status = "running" /\ open = NoStep
  /\ open' \in StepIds
  /\ UNCHANGED <<status, banned>>

(* step.completed or step.skipped                                          *)
Settle ==
  /\ status = "running" /\ open # NoStep
  /\ open' = NoStep
  /\ UNCHANGED <<status, banned>>

(* plan.repaired: exactly one tool joins the banned ones                   *)
Replace ==
  /\ status = "running" /\ open # NoStep
  /\ open' = NoStep
  /\ \E t \in ToolNames \ banned : banned' = banned \cup {t}
  /\ UNCHANGED status

(* plan.completed (no step left open), plan.aborted, or the consumer stops *)
(* iterating                                                               *)
End ==
  /\ status = "running"
  /\ status' \in Ends
  /\ status' = "completed" => open = NoStep
  /\ open' = NoStep
  /\ UNCHANGED banned

Next == Open \/ Settle \/ Replace \/ End

Spec == Init /\ [][Next]_vars
============================================================================
