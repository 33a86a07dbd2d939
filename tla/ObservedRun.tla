---------------------------- MODULE ObservedRun ----------------------------
(***************************************************************************)
(* What is told about a run of PlanRunner: the flow an adapter shows of it *)
(* (derive_execution_flow, given the plan being run, the events so far and *)
(* the trace) and the edges it is taken to have proven                     *)
(* (derive_plan_trace_edges).  The calls PlanRunner records are the truth. *)
(***************************************************************************)
EXTENDS PlanRunner

Flows == INSTANCE ExecutionFlow

FlowBindings(args) ==
  {[head |-> b.head, field |-> IF b.field = Whole THEN Flows!Absent ELSE b.field] : b \in args}

FlowSteps == [i \in DOMAIN plan.steps |->
  [id |-> plan.steps[i].id, tool |-> plan.steps[i].tool,
   bindings |-> FlowBindings(plan.steps[i].args), depends |-> {}]]

(* The rows of trace_steps, of every plan of the run.                      *)
TraceRows == [k \in DOMAIN trace |-> [id |-> trace[k].id, failed |-> trace[k].err # "none"]]

Event(type, id) == [type |-> type, step |-> id]

(* The events of a step that has its row: only a failure that ends the run *)
(* is reported as one (a skipped or replaced step has an event of its own).*)
EventsOfRow(row, ended) ==
  (IF row.err = "binding" THEN <<>> ELSE <<Event("step.started", row.id)>>)
  \o [n \in 1 .. row.retries |-> Event("step.retrying", row.id)]
  \o (IF row.err = "none" THEN <<Event("step.completed", row.id)>>
      ELSE IF ended THEN <<Event("step.failed", row.id)>>
      ELSE <<>>)

OpenEvents ==
  IF pc \notin {"calling", "raised"} THEN <<>>
  ELSE <<Event("step.started", current.id)>>
    \o [n \in 1 .. attempts - 1 |-> Event("step.retrying", current.id)]

EndEvents ==
  IF pc = "completed" THEN <<Event("plan.completed", NoId)>>
  ELSE IF pc = "aborted" THEN <<Event("plan.aborted", NoId)>>
  ELSE <<>>

EndedAt(k) == k = Len(trace) /\ outcome.kind = trace[k].err

RowEvents == [k \in DOMAIN trace |-> EventsOfRow(trace[k], EndedAt(k))]

InOrder(rows) == Flows!FoldLeft(LAMBDA told, events : told \o events, <<>>, rows)

(* The stream so far.                                                      *)
EventsSoFar == InOrder(RowEvents) \o OpenEvents \o EndEvents
-----------------------------------------------------------------------------
Returned(i) == \E k \in CallsFor(repairsDone, i) : calls[k].ok

StepOf(id) == CHOOSE i \in DOMAIN plan.steps : plan.steps[i].id = id

Passed(i) == i < idx /\ ~Returned(i)

TrueFlow(f, rows) ==
  /\ \A x \in f.observed : Returned(StepOf(x.from)) /\ StepOf(x.to) <= idx
  /\ f.status = "completed" => \A i \in DOMAIN plan.steps : Returned(i) \/ Passed(i)
  /\ f.status = "failed" =>
       pc = "aborted" \/ (rows # <<>> /\ \E i \in DOMAIN plan.steps : Passed(i))

(* The flow shown for a run that was not repaired is true at any moment,   *)
(* from the events or from the trace: a transition shown as observed left  *)
(* a step that returned for one that was reached; a flow shown as          *)
(* completed misses no step but skipped ones; one shown as failed was      *)
(* aborted, or skipped a step and is shown from the trace.                 *)
FlowIsTrue ==
  repairsDone = 0 =>
    \A rows \in {<<>>, TraceRows} : TrueFlow(Flows!Flow(FlowSteps, EventsSoFar, rows), rows)

(* An edge a run is taken to have proven, when it was not repaired or      *)
(* every step of its last plan returned, is a data flow that took place:   *)
(* the producer returned, then the consumer it was bound to did.  (After a *)
(* repair, a step that was skipped or not reached passes for completed if  *)
(* a step of a replaced plan completed under its id.)                      *)
ProvenEdgesHappened ==
  repairsDone = 0 \/ (\A i \in DOMAIN plan.steps : Returned(i)) =>
    \A e \in Flows!TraceEdgesOf(FlowSteps, TraceRows) :
      \E k, m \in DOMAIN calls :
        /\ k < m /\ calls[k].ok /\ calls[m].ok
        /\ calls[k].gen = repairsDone /\ calls[m].gen = repairsDone
        /\ calls[k].tool = e.source /\ calls[m].tool = e.target

(* What is shown and learnt of a run is what happened in it.               *)
RunIsShownTruly == FlowIsTrue /\ ProvenEdgesHappened

(* A run that reached its end is not shown as failed.                      *)
CompletedIsNotFailed ==
  pc = "completed" => Flows!Flow(FlowSteps, EventsSoFar, TraceRows).status = "completed"
=============================================================================
