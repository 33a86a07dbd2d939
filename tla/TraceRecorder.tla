--------------------------- MODULE TraceRecorder ---------------------------
(***************************************************************************)
(* observability/recorder.py and schema.py: the spans of one request.      *)
(* A span is started with a parent of its own or under the innermost       *)
(* active one, is active while a with-block of it is open, and is          *)
(* completed when it is finished or when its block is left; the trace is   *)
(* finished once, as the envelope that is stored, replayed (replay_trace)  *)
(* and exported (otel.py).  Blocks of concurrent tasks may be left in any  *)
(* order.                                                                  *)
(***************************************************************************)
EXTENDS Integers, Sequences, FiniteSets, SequencesExt, Orderings

CONSTANTS Stages, MaxSpans

VARIABLES
  handles,   \* the TraceSpanRecorders, in the order of their sequence
  active,    \* _active: the spans whose with-block is open, innermost last
  spans,     \* _spans, in the order of completion
  envelope   \* _finished

recorderVars == <<handles, active, spans, envelope>>

None == 0

NoEnvelope == [status |-> "none", named |-> FALSE, spans |-> <<>>]

(* entered and raised are history: a block of the span was entered; an     *)
(* exception left one while the span was not finished.  Both count what    *)
(* happened before the trace was finished: a span may be started before    *)
(* and entered after, and is then in no envelope.                          *)
NewHandle(stage, parent) ==
  [stage |-> stage, parent |-> parent, status |-> "ok",
   inside |-> FALSE, entered |-> FALSE, finished |-> FALSE, raised |-> FALSE]

RecorderInit ==
  /\ handles = <<>> /\ active = <<>> /\ spans = <<>>
  /\ envelope = NoEnvelope

Open == envelope = NoEnvelope

DefaultParent == IF active = <<>> THEN None ELSE Last(active)

(* start_span: a finished trace takes no more spans.                       *)
StartSpan ==
  /\ Open /\ Len(handles) < MaxSpans
  /\ \E stage \in Stages, parent \in {DefaultParent} \cup DOMAIN handles :
       handles' = Append(handles, NewHandle(stage, parent))
  /\ UNCHANGED <<active, spans, envelope>>

(* __enter__                                                               *)
EnterSpan ==
  \E h \in DOMAIN handles :
    /\ ~handles[h].inside
    /\ handles' = [handles EXCEPT ![h].inside = TRUE, ![h].entered = @ \/ Open]
    /\ active' = IF h \in ToSet(active) THEN active ELSE Append(active, h)
    /\ UNCHANGED <<spans, envelope>>

(* What is left of a handle when it is finished: a copy.                   *)
SpanOf(h, handle) ==
  [sequence |-> h, parent |-> handle.parent, stage |-> handle.stage, status |-> handle.status]

(* finish: a second call changes nothing.                                  *)
Completed(h, handle) ==
  IF handle.finished
  THEN handles' = [handles EXCEPT ![h] = handle] /\ UNCHANGED <<active, spans>>
  ELSE /\ handles' = [handles EXCEPT ![h] = [handle EXCEPT !.finished = TRUE]]
       /\ active' = Filtered(active, ToSet(active) \ {h})
       /\ spans' = Append(spans, SpanOf(h, handle))

(* finish(status): without one the span keeps its own.                     *)
FinishSpan ==
  \E h \in DOMAIN handles : \E status \in {handles[h].status, "error"} :
    /\ Completed(h, IF handles[h].finished THEN handles[h]
                    ELSE [handles[h] EXCEPT !.status = status])
    /\ UNCHANGED envelope

Failed(handle) ==
  [handle EXCEPT !.status = "error", !.raised = @ \/ (Open /\ ~handle.finished)]

(* __exit__, with or without an exception (raised stands for the event an  *)
(* exception adds to the span).                                            *)
ExitSpan ==
  \E h \in DOMAIN handles, failed \in BOOLEAN :
    /\ handles[h].inside
    /\ LET left == [handles[h] EXCEPT !.inside = FALSE] IN
       Completed(h, IF failed THEN Failed(left) ELSE left)
    /\ UNCHANGED envelope

(* set_status (of a finished span it reaches no copy)                      *)
SetStatus ==
  /\ \E h \in DOMAIN handles, status \in {"ok", "error"} :
       /\ ~handles[h].finished
       /\ handles' = [handles EXCEPT ![h].status = status]
  /\ UNCHANGED <<active, spans, envelope>>

Outcome == IF \E i \in DOMAIN spans : spans[i].status = "error" THEN "error" ELSE "ok"

(* finish(status) of the trace: refused while a span is active.            *)
FinishTrace ==
  /\ Open /\ active = <<>>
  /\ \E named \in BOOLEAN :
       envelope' = [status |-> IF named THEN "named" ELSE Outcome,
                    named |-> named, spans |-> spans]
  /\ UNCHANGED <<handles, active, spans>>

Record ==
  \/ StartSpan \/ EnterSpan \/ FinishSpan \/ ExitSpan \/ SetStatus \/ FinishTrace
-----------------------------------------------------------------------------
(* Mutant of ExportOrder: in the order the spans were completed.           *)
ExportOrderAsCompleted == envelope.spans

(* The order of to_dict, replay_trace and export.                          *)
ExportOrder ==
  LET exported == ToSet(envelope.spans)
  IN  Sorted(exported, [s \in exported |-> <<s.sequence>>])

(* The parent a span is exported under: the span of that id if it was      *)
(* exported before, else the root.                                         *)
ExportedParent(i) ==
  LET earlier == {ExportOrder[j].sequence : j \in 1 .. i - 1} IN
  IF ExportOrder[i].parent \in earlier THEN ExportOrder[i].parent ELSE None
-----------------------------------------------------------------------------
(* The tree of the spans survives the export: a span started under one     *)
(* that was entered hangs under it in the stored and exported trace, in    *)
(* whatever order the blocks were left or the spans finished.              *)
TreeIsExported ==
  \A i \in DOMAIN ExportOrder :
    LET p == ExportOrder[i].parent IN
    p # None /\ handles[p].entered => ExportedParent(i) = p

(* A failure shows in the trace: when an exception left a block whose span *)
(* was still open, even if a block around it caught it, the trace does not *)
(* end as ok unless the caller named the status.                           *)
ErrorsAreReported ==
  ~Open /\ ~envelope.named /\ (\E h \in DOMAIN handles : handles[h].raised)
    => envelope.status = "error"

(* What is exported of a trace is what was traced: its tree and its errors.*)
TraceIsExported == TreeIsExported /\ ErrorsAreReported

(* A trace whose blocks have all been left can be finished.                *)
TraceCanFinish == (\A h \in DOMAIN handles : ~handles[h].inside) => active = <<>>
=============================================================================
