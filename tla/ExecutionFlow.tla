--------------------------- MODULE ExecutionFlow ---------------------------
(***************************************************************************)
(* graphify/execution_flow.py: the flow shown for a plan or a tool.        *)
(* A step is [id, tool, bindings, depends] with bindings a set of          *)
(* [head, field], field Absent for a whole output; an event [type, step];  *)
(* a trace row [id, failed]; an edge [source, target, relation, kind,      *)
(* explicit, sources, conf, flow], where explicit is "" or a direction and *)
(* flow, if stated, its data_flow.                                         *)
(***************************************************************************)
EXTENDS Integers, Sequences, FiniteSets, SequencesExt, Orderings

(* What is left out of a flow, a link or a binding.                        *)
Absent == ""

NoFlow == [count |-> 0, from |-> Absent, field |-> Absent, link |-> FALSE, stated |-> FALSE]

ForwardRelations ==
  {"data_flow", "precedes", "prerequisite_for", "produces_consumes", "produces_for",
   "run_observed"}
ReverseRelations == {"consumes_from", "depends_on"}
UndirectedRelations ==
  {"complementary", "pairs_with", "pairs_well_with", "related", "similar", "similar_to"}

UserHeads == {"input", "user_input"}

FromContract(e) == e.sources \cap {"api_contract", "openapi_link"} # {}

(* _edge_direction: what the edge says of itself, then what its relation   *)
(* means; requires runs from the producer when it carries data, from the   *)
(* consumer when it is structural.                                         *)
Direction(e) ==
  IF e.explicit # "" THEN e.explicit
  ELSE IF e.relation \in UndirectedRelations THEN "undirected"
  ELSE IF e.relation = "requires"
       THEN IF e.flow # NoFlow \/ FromContract(e) THEN "forward" ELSE "reverse"
  ELSE IF e.relation \in ReverseRelations THEN "reverse"
  ELSE IF e.relation \in ForwardRelations \/ e.kind = "data" \/ FromContract(e) THEN "forward"
  ELSE "unknown"

(* _evidence_type, as the rank of _candidate_sort_key, which has none for  *)
(* the type "workflow": it comes last.                                     *)
EvidenceRank(e) ==
  IF e.sources \cap {"proven", "run", "run_observed"} # {} THEN 0
  ELSE IF FromContract(e) THEN 1
  ELSE IF "arazzo" \in e.sources THEN 4
  ELSE IF e.sources \cap {"manual", "llm_curated", "llm_validated"} # {} THEN 2
  ELSE 3

Counterpart(e, tool) == IF tool = e.source THEN e.target ELSE e.source

(* classify_execution_edge: the role of the other end.                     *)
Role(e, tool) ==
  IF Direction(e) \in {"undirected", "unknown"} THEN "related"
  ELSE IF (Direction(e) = "forward") = (Counterpart(e, tool) = e.source) THEN "predecessor"
  ELSE "successor"

Touching(edges, tool) == {i \in DOMAIN edges : tool \in {edges[i].source, edges[i].target}}

With(edges, tool, role) ==
  {i \in Touching(edges, tool) : Role(edges[i], tool) = role}

Others(edges, tool, role) == {Counterpart(edges[i], tool) : i \in With(edges, tool, role)}

(* Mutant of Conflicting: only edges of the same relation are compared.    *)
ConflictingSameRelation(edges, tool) ==
  {t \in Others(edges, tool, "predecessor") \cap Others(edges, tool, "successor") :
     \E i \in With(edges, tool, "predecessor"), j \in With(edges, tool, "successor") :
       /\ Counterpart(edges[i], tool) = t /\ Counterpart(edges[j], tool) = t
       /\ edges[i].relation = edges[j].relation}

(* Tools that some edge puts before and some edge after: ambiguous.        *)
Conflicting(edges, tool) ==
  Others(edges, tool, "predecessor") \cap Others(edges, tool, "successor")

CandidateKey(edges, tool, i, names) ==
  <<EvidenceRank(edges[i]), 0 - edges[i].conf, 0 - edges[i].flow.count,
    Place(names, Counterpart(edges[i], tool)), i>>

UpTo(seq, max) == SubSeq(seq, 1, IF Len(seq) < max THEN Len(seq) ELSE max)

(* The best edge to each tool of a role, in order, at most max of them;    *)
(* names are the tools in the order of their names.                        *)
Group(edges, tool, role, max, names) ==
  LET key == [i \in Touching(edges, tool) |-> CandidateKey(edges, tool, i, names)]
      skip == IF role = "related" THEN {} ELSE Conflicting(edges, tool)
      best == {i \in With(edges, tool, role) :
                 /\ Counterpart(edges[i], tool) \notin skip
                 /\ \A j \in With(edges, tool, role) \ {i} :
                      Counterpart(edges[j], tool) = Counterpart(edges[i], tool)
                        => Precedes(key[i], key[j])}
      order == Sorted(best, key)
  IN  UpTo([k \in DOMAIN order |-> Counterpart(edges[order[k]], tool)], max)

(* _candidate_groups: the ambiguous ones in the order of their names, and  *)
(* no more of them than of the others.                                     *)
Candidates(edges, tool, max, names) ==
  [predecessors |-> Group(edges, tool, "predecessor", max, names),
   successors   |-> Group(edges, tool, "successor", max, names),
   related      |-> Group(edges, tool, "related", max, names),
   ambiguous    |-> UpTo(Filtered(names, Conflicting(edges, tool)), max)]
-----------------------------------------------------------------------------
StatusOfEvent(type) ==
  CASE type = "step.started" -> "running" [] type = "step.retrying" -> "retrying"
    [] type = "step.completed" -> "completed" [] type = "step.failed" -> "failed"

StepEvents == {"step.started", "step.retrying", "step.completed", "step.failed"}

(* The last event of a step that says something of its status.             *)
EventStatus(id, events) ==
  LET mine == {k \in DOMAIN events : events[k].step = id /\ events[k].type \in StepEvents} IN
  IF mine = {} THEN "planned" ELSE StatusOfEvent(events[Max(mine)].type)

(* The trace, when it has the step, overrides the events; its last row     *)
(* wins.                                                                   *)
StepStatus(id, events, traces) ==
  LET rows == {k \in DOMAIN traces : traces[k].id = id} IN
  IF rows = {} THEN EventStatus(id, events)
  ELSE IF traces[Max(rows)].failed THEN "failed" ELSE "completed"

Reached == {"completed", "failed", "retrying", "running"}

(* _step_bindings, and the bindings derive_plan_trace_edges reads: those   *)
(* to user input name no step, and neither pattern matches a whole output. *)
BindingRows(step) ==
  {b \in step.bindings : b.head \notin UserHeads /\ b.field # Absent}

(* _plan_transitions, into the i-th step: its data flows, the steps it     *)
(* only waits for, and the step before it when nothing else links them.    *)
TransitionsInto(steps, i) ==
  LET s == steps[i]
      flows == {[from |-> b.head, to |-> s.id, relation |-> "data_flow", field |-> b.field] :
                  b \in BindingRows(s)}
      waits == {[from |-> d, to |-> s.id, relation |-> "depends_on", field |-> ""] :
                  d \in s.depends \ {b.head : b \in BindingRows(s)}}
      linked == {x \in flows \cup waits : x.from # s.id}
      before == IF i > 1 THEN {steps[i-1].id} \ ({x.from : x \in linked} \cup {s.id}) ELSE {}
  IN  linked \cup {[from |-> p, to |-> s.id, relation |-> "precedes", field |-> ""] : p \in before}

Transitions(steps) == UNION {TransitionsInto(steps, i) : i \in DOMAIN steps}

(* _transition_observed                                                    *)
Observed(x, status) ==
  /\ x.from \in DOMAIN status /\ status[x.from] = "completed"
  /\ status[x.to] \in Reached

(* _flow_status                                                            *)
FlowStatus(steps, status, events) ==
  LET saw(type) == \E k \in DOMAIN events : events[k].type = type
      all(st) == \A i \in DOMAIN steps : status[steps[i].id] = st
      some(sts) == \E id \in DOMAIN status : status[id] \in sts
  IN  IF saw("plan.aborted") \/ some({"failed"}) THEN "failed"
      ELSE IF saw("plan.completed") \/ (steps # <<>> /\ all("completed")) THEN "completed"
      ELSE IF some({"running", "retrying"}) THEN "running"
      ELSE IF steps # <<>> THEN "planned"
      ELSE "inferred"

Statuses(steps, events, traces) ==
  [id \in {steps[i].id : i \in DOMAIN steps} |-> StepStatus(id, events, traces)]

FlowWith(steps, events, traces, status) ==
  [mode |-> IF steps = <<>> THEN "inferred"
            ELSE IF events # <<>> \/ traces # <<>> THEN "observed" ELSE "planned",
   status |-> FlowStatus(steps, status, events),
   steps |-> status,
   observed |-> {x \in Transitions(steps) : Observed(x, status)}]

(* derive_execution_flow, of a plan and the evidence of its run.           *)
Flow(steps, events, traces) ==
  FlowWith(steps, events, traces, Statuses(steps, events, traces))
-----------------------------------------------------------------------------
(* graphify/edges.py: edges in one shape, whatever they come from, the     *)
(* merge of two edges of the same pair, and the edges a run has shown.     *)
(* Such an edge also has strength (the confidence label),                  *)
(* layer, manual and deleted; conf is in hundredths.                       *)
DataRelations == {"requires", "precedes", "produces_for"}

KindOf(relation) == IF relation \in DataRelations THEN "data" ELSE "semantic"

(* normalize_graph_edge: a raw edge gets the source its layer stands for.  *)
Normalized(e, layer, default) ==
  IF e.sources # {} THEN e
  ELSE [e EXCEPT !.kind = KindOf(e.relation),
                 !.sources = {IF layer = 2 THEN "name_based" ELSE default}]

StrengthRank(strength) ==
  CASE strength = "AMBIGUOUS" -> 1 [] strength = "INFERRED" -> 2
    [] strength = "EXTRACTED" -> 3 [] OTHER -> 0

Stronger(x, y) == IF StrengthRank(y) > StrengthRank(x) THEN y ELSE x

(* Mutant of MergedFlow: every flow keeps where it reads from.             *)
MergedFlowKeepingSource(x, y) ==
  IF x = NoFlow THEN y
  ELSE IF y = NoFlow THEN x
  ELSE [count |-> IF y.count = 0 THEN x.count ELSE y.count,
        from  |-> IF x.from = Absent THEN y.from ELSE x.from,
        field |-> IF y.field = Absent THEN x.field ELSE y.field,
        link  |-> x.link \/ y.link, stated |-> TRUE]

(* _merge_data_flow: what the newer flow knows replaces what was known,    *)
(* but for where an explicit link reads from.                              *)
MergedFlow(x, y) ==
  IF x = NoFlow THEN y
  ELSE IF y = NoFlow THEN x
  ELSE LET keep == x.link /\ ~y.link IN
       [count |-> IF y.count = 0 THEN x.count ELSE y.count,
        from  |-> IF y.from = Absent \/ (keep /\ x.from # Absent) THEN x.from ELSE y.from,
        field |-> IF y.field = Absent THEN x.field ELSE y.field,
        link  |-> x.link \/ y.link, stated |-> TRUE]

Greater(x, y) == IF x > y THEN x ELSE y
Least(x, y) == IF x < y THEN x ELSE y

(* Two or more sources raise the score, at every merge.                    *)
MergedScore(x, y, n) ==
  LET best == Greater(x, y) IN IF n > 1 THEN Least(100, best + 5 * (n - 1)) ELSE best

MergedMarks(x, y) == [manual |-> x.manual \/ y.manual, deleted |-> x.deleted \/ y.deleted]

(* merge_graph_edges                                                       *)
MergedEdge(x, y) ==
  LET data == "data" \in {x.kind, y.kind} IN
  [x EXCEPT !.strength = Stronger(x.strength, y.strength),
            !.sources = x.sources \cup y.sources,
            !.conf = MergedScore(x.conf, y.conf, Cardinality(x.sources \cup y.sources)),
            !.flow = MergedFlow(x.flow, y.flow),
            !.kind = IF data THEN "data" ELSE x.kind,
            !.relation = IF data /\ "proven" \in y.sources /\ y.relation # "" THEN y.relation
                         ELSE x.relation,
            !.manual = MergedMarks(x, y).manual,
            !.deleted = MergedMarks(x, y).deleted]
-----------------------------------------------------------------------------
(* Mutant of CompletedIds: a row is enough, with or without an error.      *)
CompletedIdsAny(traces) == {traces[k].id : k \in DOMAIN traces}

(* _completed_step_ids                                                     *)
CompletedIds(traces) == {traces[k].id : k \in {k \in DOMAIN traces : ~traces[k].failed}}

Observation(source, target, b) ==
  [source |-> source, target |-> target, relation |-> "requires", kind |-> "data",
   explicit |-> "", sources |-> {"run"}, conf |-> 50, strength |-> "INFERRED", layer |-> 5,
   flow |-> [count |-> 1, from |-> b.field, field |-> b.field, link |-> FALSE,
            stated |-> TRUE],
   manual |-> FALSE, deleted |-> FALSE]

(* derive_plan_trace_edges: the bindings between completed steps of        *)
(* different tools.                                                        *)
TraceEdgesOf(steps, traces) ==
  UNION {{Observation(steps[i].tool, steps[j].tool, b) :
            b \in {b \in BindingRows(steps[j]) :
                     /\ b.head = steps[i].id /\ steps[i].tool # steps[j].tool
                     /\ {b.head, steps[j].id} \subseteq CompletedIds(traces)}} :
          i, j \in DOMAIN steps}
=============================================================================
