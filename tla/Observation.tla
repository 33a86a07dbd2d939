----------------------------- MODULE Observation -----------------------------
(***************************************************************************)
(* A collection in use: its graph is built (GraphIngest), requests run on  *)
(* it, the first of them traced (TraceRecorder), and what they show is     *)
(* kept as the adapter of learning/shadow-promotion.md keeps it:           *)
(* suggestions are derived when a request ends and merged into the stored  *)
(* ones later, when other requests and the operator have been at them.     *)
(* Some requests derive as learning/suggestions.md has it, handing over    *)
(* the stored suggestions as well (handing).                               *)
(***************************************************************************)
EXTENDS GraphIngest, TraceLearning, TraceRecorder

CONSTANTS
  Runs,          \* what a request may run: [family, target, steps, handing]
  MaxCandidates, \* max_candidates of the flow shown for a tool
  MaxAttempts,   \* bound: requests made
  MaxDecisions,  \* bound: decisions of the operator
  Deletable      \* bound: the edges the user may delete

(* A plan is a finite list of steps, each with finitely many bindings.     *)
ASSUME RunsAssumption ==
  /\ MaxCandidates \in Nat
  /\ \A run \in Runs :
       IsList(run.steps) /\ \A i \in DOMAIN run.steps : IsFiniteSet(run.steps[i].bindings)

VARIABLES
  attempts,   \* the attempts kept, oldest first
  store,      \* the suggestions of the collection
  held,       \* what ended requests derived and have not merged yet
  decided,    \* history: the operator's word on a suggestion while it is kept
  removed     \* history: the edges the user deleted

learningVars == <<attempts, store, held, decided, removed>>

vars == <<ingestVars, recorderVars, learningVars>>

Init ==
  /\ IngestInit /\ RecorderInit
  /\ attempts = <<>> /\ store = <<>> /\ held = <<>>
  /\ decided = <<>> /\ removed = {}

Ready == stage = "ready"

Made == Len(attempts) + Len(held)

EdgeRow(e) == [source |-> e.source, target |-> e.target, field |-> e.flow.field]

ToolsOf(steps) == [i \in DOMAIN steps |-> steps[i].tool]

(* The rows of a run that failed at its step f (0: at none).               *)
RowsOf(steps, f) ==
  [i \in 1 .. (IF f = 0 THEN Len(steps) ELSE f) |-> [id |-> steps[i].id, failed |-> i = f]]

(* build_trace_learning_record of a run that failed at step f; handing is  *)
(* not of the record, it says how its suggestions were derived.            *)
AttemptOf(run, f) ==
  LET seen == TraceEdgesOf(run.steps, RowsOf(run.steps, f)) IN
  [family |-> run.family, target |-> run.target, path |-> ToolsOf(run.steps),
   success |-> f = 0, at |-> Made + 1, observed |-> seen, handing |-> run.handing,
   edges |-> SetToSeq({EdgeRow(e) : e \in seen})]

(* A request before which, or in which, nothing was traced, or whose trace *)
(* was finished and says how it went.                                      *)
Untraced == handles = <<>>

OutcomeAllowed(f) == Untraced \/ (~Open /\ (envelope.status = "error" => f # 0))

(* A request ends: its record is built, its suggestions derived.  Bound:    *)
(* two requests at a time.                                                 *)
Run ==
  /\ Ready /\ Made < MaxAttempts /\ Len(held) < 2
  /\ \E run \in Runs, f \in 0 .. 2 :
       /\ f <= Len(run.steps) /\ OutcomeAllowed(f)
       /\ held' = Append(held, [attempt |-> AttemptOf(run, f),
                                incoming |-> Learned(AttemptOf(run, f), attempts,
                                                     IF run.handing THEN store ELSE <<>>)])
  /\ handles' = <<>> /\ active' = <<>> /\ spans' = <<>> /\ envelope' = NoEnvelope
  /\ UNCHANGED <<ingestVars, attempts, store, decided, removed>>

(* Its record and its suggestions are stored, the edges it showed merged   *)
(* into the graph.                                                         *)
KeepAll(h) ==
  LET known == Append(attempts, h.attempt)
      merged == Merge(store, h.incoming, known)
  IN  /\ attempts' = known
      /\ store' = merged
      /\ decided' = [id \in {id \in DOMAIN decided : Find(merged, id) # 0} |-> decided[id]]
      /\ graph' = FoldLeft(MergeEdge, graph, SetToSeq(h.attempt.observed))

Keep ==
  /\ \E k \in DOMAIN held : KeepAll(held[k]) /\ held' = RemoveAt(held, k)
  /\ UNCHANGED <<collection, schemas, stage, recorderVars, removed>>

(* The operator promotes or rejects a suggestion that awaits a decision.   *)
Decide ==
  /\ Cardinality(DOMAIN decided) < MaxDecisions
  /\ \E k \in DOMAIN store, word \in {"promoted", "rejected"} :
       /\ store[k].status \notin {"promoted", "rejected"}
       /\ store' = [store EXCEPT ![k].status = word]
       /\ decided' = Updated(decided, store[k].id, word)
  /\ UNCHANGED <<ingestVars, recorderVars, attempts, held, removed>>

(* The user deletes an edge of the graph.                                  *)
DeleteEdge ==
  /\ Ready /\ removed = {}
  /\ \E p \in Deletable \cap DOMAIN graph :
       /\ graph' = [graph EXCEPT ![p].deleted = TRUE]
       /\ removed' = {p}
  /\ UNCHANGED <<collection, schemas, stage, recorderVars, attempts, store, held, decided>>

(* The first request is traced; blocks left after its trace was finished   *)
(* change nothing that is read again.                                      *)
Trace ==
  /\ Ready /\ Made = 0 /\ removed = {} /\ Open
  /\ Record
  /\ UNCHANGED <<ingestVars, learningVars>>

Build == Ingest /\ UNCHANGED <<recorderVars, learningVars>>

Next == Build \/ Trace \/ Run \/ Keep \/ Decide \/ DeleteEdge

Spec == Init /\ [][Next]_vars
-----------------------------------------------------------------------------
(* The operator has the last word: while a suggestion the operator         *)
(* promoted or rejected is kept, its status is the operator's, whatever    *)
(* attempts end meanwhile or were derived before; nothing else is ever     *)
(* promoted, so no other suggestion changes a ranking.                     *)
OperatorDecides ==
  /\ \A k \in DOMAIN store :
       store[k].id \in DOMAIN decided => store[k].status = decided[store[k].id]
  /\ \A family \in {r.family : r \in Runs} :
       DOMAIN Signals(family, store, "promoted") \subseteq
         {store[k].target : k \in {k \in DOMAIN store :
             store[k].id \in DOMAIN decided /\ decided[store[k].id] = "promoted"}}

Shows(attempt, id) == \E i \in DOMAIN Suggested(attempt, <<>>) : Suggested(attempt, <<>>)[i].id = id

Showing(id) == {i \in DOMAIN attempts : Shows(attempts[i], id)}

Earned(s) == s.observations <= Cardinality(Showing(s.id))

(* A suggestion counts no more observations than there are successful      *)
(* attempts that showed it, as long as none of these was derived with the  *)
(* stored suggestions handed over.                                         *)
CountsAreEarned ==
  \A k \in DOMAIN store :
    (\A i \in Showing(store[k].id) : ~attempts[i].handing) => Earned(store[k])

(* What holds of no suggestion of a request that derived with the stored   *)
(* ones handed over, as learning/suggestions.md has it: they are in what   *)
(* it derives, and the merge counts them a second time.                    *)
CountsAreAlwaysEarned == \A k \in DOMAIN store : Earned(store[k])

(* An edge the user deleted stays deleted, however often runs show it.     *)
DeletedStaysDeleted == \A p \in removed : graph[p].deleted

(* What the operator decided, of a suggestion or of an edge, outlives all  *)
(* that is learnt later.                                                   *)
OperatorRules == OperatorDecides /\ DeletedStaysDeleted
-----------------------------------------------------------------------------
(* The edges, by the names of their tools.                                 *)
EdgesFrom(s) ==
  LET targets == Filtered(Names, {t \in ToSet(Names) : <<s, t>> \in DOMAIN graph})
  IN  [i \in DOMAIN targets |-> graph[<<s, targets[i]>>]]

GraphEdges == FoldLeft(LAMBDA edges, s : edges \o EdgesFrom(s), <<>>, Names)

Shown(edges, tool) == Candidates(edges, tool, MaxCandidates, Names)

(* No two tools are shown each before the other: what one tool's flow      *)
(* lists as its predecessor does not list that tool as its own.            *)
OrderIsOneWay ==
  Ready => LET edges == GraphEdges
               before == [t \in NamesOf(schemas) |-> ToSet(Shown(edges, t).predecessors)]
           IN  \A t, u \in NamesOf(schemas) : u \in before[t] => t \notin before[u]

Full(list) == Len(list) = MaxCandidates

(* A tool that an explicit workflow runs before another is shown before    *)
(* it, or the two as ambiguous, whatever detectors, contracts and runs say,*)
(* unless as many others are shown as the limit allows.                    *)
WorkflowsAreFollowed ==
  Ready => \A i \in DOMAIN collection.workflows :
    LET r == collection.workflows[i]
        shown == Shown(GraphEdges, r.target)
    IN  \/ r.source \in ToSet(shown.predecessors) \cup ToSet(shown.ambiguous)
        \/ Full(shown.predecessors) \/ Full(shown.ambiguous)

(* What does not hold at that limit: the evidence of a workflow ranks last,*)
(* so its source is the first that is not shown.                           *)
WorkflowsAreShown ==
  Ready => \A i \in DOMAIN collection.workflows :
    LET r == collection.workflows[i]
        shown == Shown(GraphEdges, r.target)
    IN  r.source \in ToSet(shown.predecessors) \cup ToSet(shown.ambiguous)

(* The order shown between tools is one order, and it is the stated one.   *)
OrderIsSound == OrderIsOneWay /\ WorkflowsAreFollowed

(* What is stated about the values one tool gets from another, as pairs of *)
(* the path they are read at and the field they fill: by rows of the two   *)
(* contracts indexed under a common key, by the first binding of a         *)
(* workflow, by the bindings of the runs that were merged.                 *)
IndexKeys(row) ==
  {k \in {<<"semantic", row.sem>>, <<"field", row.field>>, <<"loose", LooseKey[row.field]>>,
          <<"description", row.alias>>} : k[2] # Absent}

ContractFlows(tools, p) ==
  LET called(name) == {i \in DOMAIN tools : tools[i].name = name}
      produced == UNION {ToSet(tools[i].produces) : i \in called(p[2])}
      consumed == UNION {ToSet(tools[i].consumes) : i \in called(p[1])}
  IN  {<<FromPath(x[1]), x[2].field>> :
         x \in {x \in produced \X consumed : IndexKeys(x[1]) \cap IndexKeys(x[2]) # {}}}

WorkflowFlows(flows, p) ==
  {<<Head(flows[i].bindings).from, Head(flows[i].bindings).field>> :
     i \in {i \in DOMAIN flows : /\ <<flows[i].source, flows[i].target>> = p
                                 /\ flows[i].bindings # <<>>}}

PairOf(e) == <<e.source, e.target>>
FlowOf(e) == <<e.flow.from, e.flow.field>>

RunFlows(known, p) ==
  UNION {{FlowOf(e) : e \in {e \in known[i].observed : PairOf(e) = p}} : i \in DOMAIN known}

Written == [tools |-> schemas, workflows |-> collection.workflows, attempts |-> attempts]

Stated(w, p) ==
  ContractFlows(w.tools, p) \cup WorkflowFlows(w.workflows, p) \cup RunFlows(w.attempts, p)

(* The flow of an edge is one that was stated, path and field together, if *)
(* all that was stated about its tools gives both; an edge that a contract *)
(* or a run put has one.  A link keeps its path when others name a field.  *)
FlowIsStated(w, p, e) ==
  "openapi_link" \notin e.sources /\ (\A f \in Stated(w, p) : f[1] # Absent /\ f[2] # Absent) =>
    \/ FlowOf(e) \in Stated(w, p)
    \/ FlowOf(e) = <<Absent, Absent>> /\ e.sources \cap {"api_contract", "run"} = {}

Only(link, tool, tools) ==
  \A i \in DOMAIN tools : tools[i].operation = link.operation => tools[i].name = tool.name

Named(link, tool, tools) ==
  \/ link.ref # Absent /\ link.ref = tool.ref
  \/ /\ link.operation # Absent
     /\ \/ tool.operation = link.operation /\ Only(link, tool, tools)
        \/ tool.name = link.operation /\ tool.operation # link.operation

(* A response link leads to the tool it names, by place, by the name it    *)
(* was given, or by an operation id no other tool has.                     *)
LinkNeverGuesses(w, p, e) ==
  "openapi_link" \in e.sources =>
    \E i, k \in DOMAIN w.tools :
      /\ w.tools[i].name = p[2] /\ w.tools[k].name = p[1]
      /\ \E n \in DOMAIN w.tools[i].links : Named(w.tools[i].links[n], w.tools[k], w.tools)

(* An edge states what a document or a run states, however many of them    *)
(* were merged into it: a binding of one row, a link to the tool it names. *)
EdgesAreGrounded ==
  \A p \in DOMAIN graph :
    FlowIsStated(Written, p, graph[p]) /\ LinkNeverGuesses(Written, p, graph[p])
-----------------------------------------------------------------------------
(* The tool that yields what another needs, by a link or a contract, is    *)
(* not shown to come after it.                                             *)
ProducersComeFirst ==
  Ready => \A p \in DOMAIN graph :
    graph[p].sources \cap {"api_contract", "openapi_link"} # {} =>
      p[2] \notin ToSet(Shown(GraphEdges, p[1]).successors)

(* An attempt makes a suggestion promotable only when no more than the     *)
(* allowed share of the attempts on it failed.                             *)
FailuresKeepOut ==
  [][\A k \in DOMAIN store' :
       /\ store'[k].status = "promotable"
       /\ \A j \in DOMAIN store : store[j].id = store'[k].id => store[j].status # "promotable"
       => FailureRatioAllowed(store'[k], attempts')]_vars
=============================================================================
