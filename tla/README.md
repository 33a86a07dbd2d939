# A TLA+ model of graph-tool-call

graph-tool-call turns an API description into a graph of tools, finds the tools
a request needs, chains the ones that supply each other's inputs into a plan,
and runs the plan.  This directory holds TLA+ specifications of its core, the
TLC configurations that check them and machine-checked proofs about them.

Run everything from this directory:

    tlc -workers 4 -config PlanRunner.cfg MCPlanRunner    # model-check one run
    tlapm PlanRunnerProofs.tla                            # check the proofs

## 1. The system

Paths are below `src/graph_tool_call/`.

| Component | State it keeps | Operations | Works with |
|---|---|---|---|
| Specification ingest `ingest/openapi.py`, `io_contract.py`, `normalizer.py` | per-document caches, names in use, tools | `ingest_openapi` | gives tools with contracts to the tool graph and to graphify |
| Tool graph `tool_graph.py`, `core/dict_graph.py`, `ontology/`, `analyze/` | tools, nodes, edges, the retrieval engine | ingest, relate, categorize, remove, relink, merge, configure, save, load, retrieve | every entry point |
| Graphify ingest `graphify/ingest.py`, `edges.py`, `execution_flow.py` | the edges of a collection | detect, pair, link, contract, workflow, merge run evidence, derive the flow shown | run traces, learning, the synthesizer |
| Retrieval engine `retrieval/` | indexes | the stages of a search | tool graph, proxy |
| Workflow planner `workflow.py` | a plan being edited | plan, enhance, edit, map, save, load | retrieval, the graph |
| Target selection `graphify/catalog.py` | none | admit candidates, select the target, build the candidate set | a language model's choice |
| Dependency closure `graphify/dependency_closure.py` | per-call work lists under budgets | complete dependencies, assemble a bundle | gives the synthesizer producer preferences |
| Path synthesizer `plan/synthesizer.py` | producer indexes; per-call `visiting`, `steps_by_tool`, and diagnostics kept on the instance | `synthesize` | reads the graph; its plans go to the runner |
| Plan runner `plan/runner.py`, `binding.py`, `deps.py` | the plan, the step index, the context of outputs, the trace, repairs done, excluded tools | `run_stream` (a generator the consumer drives), `run` | calls the tools, the repairer, the consumer of events |
| Plan repairer `plan/repair.py`, extraction `plan/extraction.py` | none | `repair`, `find_value_paths`, `extract_produced_entities` | called by the runner, calls the synthesizer |
| HTTP executor `execute/http_executor.py` | none between calls | validate, build, send, view the answer | called for every tool of a specification |
| Trace recorder and export `observability/` | open spans, finished spans, the envelope | start, enter, leave, finish, replay, export | wraps the stages of a request |
| Learning `learning/__init__.py` | suggestions with status and counts | record, merge, promote, reject, signal | biases retrieval and selection |
| MCP proxy `mcp_proxy.py` | backends, routing table, exposed tools, call history, the cache files | connect, search, schema, call, shutdown | MCP clients and backends, tool graph |
| Gateway, middleware, MCP server, coercion, prompts, compressor, evaluation, interfaces | little or none | conversions and adapters | the components above |

What is hard in it, and so what the properties are about:

* a run mixes four ways to survive a failed call (retry, skip, recover a
  binding, swap the plan) and may combine them in any order, and a repaired
  plan reuses the ids of the plan it replaces;
* a repair decides from data that earlier calls happened to return, and what is
  shown and learnt of a run is read back from its events and trace;
* the synthesizer, the closure and the planner walk graphs with cycles, under
  depth limits and budgets, with tools to avoid;
* the engine of a tool graph caches what some fifteen operations change, and a
  query may run in another thread meanwhile;
* the operations of a document share caches and a space of names;
* the executor sorts the same arguments twice, once to check and once to send;
* scores are adjusted by a dozen stages in turn, each of which may undo what an
  earlier one promised;
* suggestions are derived when a request ends and merged when others, and the
  operator, have changed the store;
* the proxy gives names to tools of backends it does not control, some of them
  down, and keeps a cache over restarts and one exposed set for all sessions.

What makes each component correct is the list of properties in section 3;
every hazard is in `PROJECT.json` at the line where it bites.

## 2. Modules

| Module | Models | Notes |
|---|---|---|
| `Plans` | `plan/schema.py`, `binding.py`, `deps.py`, `plan/repair.py` | data types, the static questions asked of a plan, and its repair, in which synthesizer and extraction are operator constants with the contract the runner relies on (`RepairAssumption`) |
| `EventStream` | what a consumer of `run_stream` may rely on | abstract specification |
| `PlanRunner`, `PlanRunnerProofs` | `plan/runner.py` | one action per handler; its theorems |
| `ObservedRun` | the flow and the proven edges drawn from a run | `PlanRunner` with `ExecutionFlow` |
| `Synthesizer`, `Synthesis` | `plan/synthesizer.py`; one call of `synthesize` | one operator per method; the result checked against statements that do not mention how it is computed |
| `PlanExecution` | runner, repairer, extraction and synthesizer together | instantiates the constants of `Plans` with `Synthesizer` |
| `GraphEngine`, `DictGraph`, `DictGraphStore` | `core/protocol.py`; `core/dict_graph.py`; its operations in any order | abstract specification, operators, detailed specification |
| `ToolGraph`, `ToolGraphProofs` | `tool_graph.py` with `ontology/`, `analyze/` as they change the graph | over `DictGraph`; the theorems about both |
| `TargetSelection`, `Orderings` | `graphify/catalog.py`: evidence, admission, selection, candidate set | operators |
| `DependencyClosure` | `graphify/dependency_closure.py` | the recursive visit as a stack |
| `TargetPipeline`, `TargetPipelineProofs` | selection, closure, bundle and offer in a row | composition; its theorems |
| `HttpValues`, `HttpPreflight`, `HttpRequest`, `HttpRequestProofs` | `execute/http_executor.py` | values and their encodings; the check; the request in stages; its theorems |
| `SpecSchemas`, `SpecIngest` | `ingest/io_contract.py`, `ingest/openapi.py`, `ingest/normalizer.py` | schemas, leaves, bodies and parameters; contracts and the document |
| `Retrieval` | `retrieval/graph_search.py`, `prefilter.py`, `diversity.py`, `engine.py` | the search over the graph as operators, the engine as one action per stage |
| `WorkflowPlans` | `workflow.py` | extends `Retrieval` |
| `GraphIngest`, `ExecutionFlow` | `graphify/ingest.py`, `io_contract.py`; `execution_flow.py`, `edges.py` | edges and what is drawn from them |
| `TraceLearning`, `TraceRecorder` | `learning/__init__.py`; `observability/` | |
| `Observation`, `ObservationProofs` | a collection built, used, traced, learnt from and corrected by its operator | composes the four above; its theorems |
| `MCPProxy`, `MCPProxyProofs` | `mcp_proxy.py` | processes one after another over the same cache files; its theorems |
| `OrderingLemmas`, `FoldInduction` | | for the proofs: lists, sorting and filtering; what every loop over a list keeps |
| `MC*` | | small worlds for TLC |

### Plan runner

`run_stream` is a generator: it runs between two yields without interruption
and the consumer may close it at any yield.  `pc` is where it is suspended:
`new` (before the first `next`), `next` (at the head of the `while` loop),
`calling` (about to call the tool), `raised` (the call raised and no handler
has run yet) and the three ways it ends.

| Action | Code (`runner.py`) |
|---|---|
| `Start` | 317-336, `plan.started`, seeding of the context |
| `StartStep` | 347-404, bindings resolved or recovered, `step.started` |
| `BindingAbort` | 350-378 |
| `CallReturns` | 405-410 and 517-540, envelope, context, `step.completed` |
| `CallRaises` | 405-416 |
| `Retry` | 417-431, `step.retrying` and the sleep |
| `Skip` | 439-454, `step.skipped` |
| `Repair` | 456-495, `plan.repaired` and the new context |
| `CallAbort` | 497-515 |
| `Complete`, `OutputAbort` | 547-578 |
| `Close` | the consumer drops the generator |

`calls`, the fields `by` and `gen` of an output and `gen` and `step` of a trace
entry are history variables: no guard reads them.  `gen` counts the plans of a
run, since a repaired plan numbers its steps from `s1` again.

A binding `${s1.body.x[0].id}` is the pair of its head and the field it ends
in.  A tool's output is where each field sits relative to the declared path:
`declared`, `moved` (elsewhere, one best candidate, which binding recovery
finds), `ambiguous` (elsewhere, no single best), `absent`.  Left out: argument
coercion (it changes values, not control), previews, durations, event
metadata.  The two events of an abort (`step.failed`, `plan.aborted`) are one
action: nothing changes between them.

### Synthesizer

A graph is a record of what each tool consumes and produces, the workflow
edges, and the enrichment that ranks or admits a producer.  `FillFor` is the
cascade of `_resolve` for one consumed field (entity, ambient default, optional,
enum, search leaf, producer, dynamic option), `FindProducer` is
`_find_producer` with its signals, ranking and gates, `Resolve` and `FillRows`
are the recursion with `visiting` and `steps_by_tool`.  A depth or cycle error
in a producer turns the field into a `user_input` slot; the other errors end
the synthesis.  Rationales, diagnostics and label hints are left out.

### The composition

`PlanExecution` lets the runner execute plans the synthesizer built and lets
repairs go back to it: `SynthesizedPlan` assigns ids by insertion order and
rewrites producer names to step ids, `ExtractedEntities` registers what
`extract_produced_entities` would find in an output.

### MCP proxy

A name is the sequence of its parts between `__`, so that prefixing is
concatenation and `split("__", 1)[1]` is `Tail`.  A process is `down`,
`connecting` (one backend at a time; each connects or fails, whatever the
others did), saving the cache (`saveMeta`, `saveGraph`) or `serving`.  Memory is
lost when it stops; `meta` and `stored`, the two cache files, stay.  A write that
fails leaves its file as it was or unreadable.  Between processes the backends
may list other tools.  `routes` stands for `_tool_to_backend` and `_all_tools`,
which are always assigned together; `graph` is the tool graph's dictionary,
keyed by bare names.

`search()` contains no `await`, so `Search` is one action; when it changes the
exposed set the answer waits in `pending` for the notification, and other
requests run meanwhile.  Which tools match is any set of at most `TopK`: ranking,
and the call history that biases it, are left out, as are `get_tool_schema`
(it changes nothing), compression and the transports.  `workflow` is
`_last_workflow`, the order the last search suggested, as the set of the tools it
lists; it is one for all requests, and an answer that waited reads it late.  A failed notification is
the closed stream of its session.  `delivered` is a history variable.

### Graph storage and tool graph

`DictGraph` is a record of three functions (`nodes`, `out`, `inn`), as the class
keeps three dictionaries, and its operators are the methods; `DictGraphStore`
applies them in any order and maps to `GraphEngine`, a set of nodes with one
attribute record per ordered pair.  `ToolGraph` keeps `tools`, `graph`, the
`engine` (what it indexed, embedded, and how it was configured), the `file` and
the `worker`, the thread of `aretrieve`: it looks at the engine, creates one,
gives it the tokenizer, takes it, searches, and assigns the index it had to build,
in six steps between which the thread that registers tools may do anything.  The
new engine is the graph's before it has its tokenizer (`tool_graph.py:1039-1041`).
A call of the registering thread is one step, and there is one worker.  Every
public operation is an action and ends with the invalidation it calls
(`Invalidate`) or does not.  What the detectors find of a set of tools
(`Related`, `Conflicting`), what clustering by embeddings finds (`Clusterings`)
and what a language model answers are inputs.  Node types and relations are
members of an enum (`Enum`) until a file is loaded, and then the strings JSON made
of them (`Text`): the two are equal, but `str()` tells them apart.

### From a query to a bundle

`TargetSelection` computes the evidence of a candidate in millionths, the
quotients rounded down; the tables of words behind it are classes of terms.  It
holds the bounded admission (limit, score cliff, group cap,
token budget, names to keep), the settlement against a model's proposal and the
candidate set, by the producer index (which a row's tag enters only where it is not
the field's own name) or, with `use_dependency_closure`, by the closure.  The offer
by closure is modelled where the offer's limits are those of the request
(`SameLimits`), so that one closure serves both.  A graph given as a dictionary of
names is one of `requires` edges marked manual.  In `DependencyClosure` a frame of `stack` counts the graph
neighbours and the consumed rows of one visited tool; `FollowGraph`,
`FillFromCaller`, `NeedsProducer`, `AskForInput`, `ChainProducer` and `Return`
are the branches of the visit; `AdmitSchema` and `Finish` fill the token budget
and give the verdict.

### HTTP executor

`pc` names the stage: defaults are filled, the arguments checked (when asked),
sorted, put in their locations, the body encoded, and the request sent or shown.
Check and building sort the arguments by operators of their own, as the code
does.  A value is null, a leaf, a list or an object; a body, path or parameter
is the pieces it consists of, in each of the styles.  The transport is an input:
it answers with a status and a tree, or not at all.

### Specification ingest

`Normalize` reads Swagger 2 as OpenAPI 3; `OpenPath` resolves one path item
through `refCache`; `IngestOperation` makes a tool, through `fieldCache` and
`used`; `Categorize` gives domains.  A schema is a record whose children keep
the order of its keys.  Cut-off of a component that refers to itself is part of
`SpecSchemas`.  The examples of a media type are values of the same shape, and
what they show is merged into the rows of bodies and responses (`ExampleFields`,
`ExampleSlots`); how many items and rows of an example are read is left out.
Nullability, texts and limits are left out, and `anyOf` is read as `oneOf`.

### Retrieval and workflow plans

A query carries what the word, intent, embedding and annotation channels would
score; everything the engine makes of them is computed: pool, expansion over
the graph, fusion by reciprocal rank, injections, boosts, the guard of lexical
winners, reranking, diversity, relations, summary.  Ranks, weights and bonuses
are integers scaled by a power of ten.  `WorkflowPlans` adds the chain builder,
the topological order, the trimming and all edits of a plan; iteration over a
Python set is an input (`HashOrders`).

### Graph of a collection and what is learnt from it

`GraphIngest` builds the edges stage by stage (`Detect`, `Pair`, `Link`,
`Contract`, `Workflow`).  `TraceRecorder` lets the spans of the first request be
started, entered, left and finished in any order.  A request ends with a record
and derived suggestions (`Run`), which are merged later (`Keep`), two at a time
and in either order, while the operator promotes, rejects (`Decide`) and deletes
edges (`DeleteEdge`).  Requests marked `handing` derive with the stored suggestions
as `existing_suggestions`, as `website/docs/learning/suggestions.md` shows.  A row
one tool produces and another needs meet by semantic tag, field name, loose name or
described alias, the four indexes of `graphify/ingest.py`.  The flow shown for a
tool lists at most `MaxCandidates` of each group.  `ExecutionFlow` is used twice: on these edges, and, in
`ObservedRun`, on the steps, events and trace of `PlanRunner`.

## 3. Runs and what they show

| Run | Instance | States |
|---|---|---|
| `PlanRunner` | 4 tools, 2 fields, 6 plans, all 144 configurations, `max_attempts` 2, `max_repairs` 3 | 100,329 |
| `Synthesis` | 3 tools; every wiring of two fields (cycles included) with depth 1 and 5, and every combination of the signals about one field | 153,600 |
| `PlanExecution` | 5 tools, 4 fields, 3 repairs | 3,080 |
| `CompletedNotRerun` | the same; a finding of section 6 | |
| `ToolGraph` | 5 names, 4 schemas, 3 calls of any kind, one query in a worker thread | 217,791 |
| `TargetPipeline` | 4 tools; 1,296 requests that vary contracts, edges and settings and 2,160 that vary descriptions, limits and signals, with every answer of the model | 140,751 |
| `HttpRequest` | 10 operations, each with every choice from a menu of arguments | 36,741 |
| `SpecIngest` | documents of up to 3 path items out of 11, in every order, with both options | 1,904 |
| `Retrieval` | 8 nodes, 3 graphs, 4 engines, 128 queries; 4 goals, 2 edits of a plan | 28,322 |
| `DominantIsVisible` | the same; a finding of section 6 | |
| `Observation` | 4 collections, 2 kinds of request (one derives with the stored suggestions), 3 requests, 2 spans, 1 decision, 1 deletion | 63,683 |
| `MCPProxy` | 2 backends sharing a name, 3 deployments in any order, 3 processes, one session with 2 requests, results of up to 2 tools | 317,200 |

`PlanRunner`:

* `ContextFresh` - an output under an id was returned by that step of the current plan.
* `SkipIsSafe` - no abort is ever due to a binding to a skipped step.
* `TraceAccountsForCalls` - the trace agrees with the calls made, across all plans of the run.
* `CallBudgets` - calls of one step respect the mode, the opt-in and the budget, and none follows a success; the target is called at most `max_attempts` times and succeeds at most once in a whole run.
* `RunIsShownTruly` - of a run without a repair, the flow derived from events and trace gives every step the status it had; the edges learnt are data flows that happened, after a repair only where every step of the last plan returned.
* `StreamContract` - the events refine `EventStream`.
* `Terminates` - a run ends.

`Synthesis`: `PlanIsExecutable`, `ChainedAreFit`, `AskedOnlyWhenNeeded`.
`PlanExecution`: `RerunOnlyForLostValue`.

`ToolGraph`:

* `GraphMatchesTools` - the dictionaries mirror one another, and every tool is a node.
* `EngineIsCurrent` - the engine that answers indexed the tools there are and has the tokenizer that was set, but for three exceptions the code has: what a half-way batch left, a worker's new engine before its tokenizer is set, and an index the worker was building when the tokenizer changed (section 6).
* `MergeKeepsOne` - overlapping pairs never merge the last of a group away.
* `LoadRestores` - the nodes, relations and tools of a saved graph come back, their enum members as strings, with an embedding index of these tools.

`TargetPipeline`: `ReadyIsRunnable` (a bundle called ready supplies every
required input and can be ordered), `BudgetKeepsChain`, `MutationsAreAllowed`,
`VerdictsAreSound` (advice to go on, and a target reported unambiguous, are so),
`OfferIsSound` (looked up in the index with enough hops, the candidate set is
closed under what its members need; taken from a closure without gap or cycle, every
input of its chain is served, available or asked; a diverse surface lets no group
starve another).

`HttpRequest`: `RequestIsComplete` (what passed the check can be built, and its
path, query, headers and cookies hold the required parameters and the keys),
`UsedAsReported` (both sortings agree), `ArgumentsArrive` (the body that was built
holds its required fields, and every field is found again where its path says),
`ValuesAreWritten` (no style loses a member).

`SpecIngest`: `ContractIsLocal` (a tool of a document has the contract it would
have alone), `EveryOperationIsATool`, `AskedIsCallers` (no read-only field is asked of the
caller and no write-only one promised, except where an example of the document shows
it or it is a discriminator no branch declares, which section 6 is about; credentials
are never data).

`Retrieval`: `PrefilterKeepsKeywords`, `LeaderIsNotBuried`, `UseIsTold`,
`PlanEndsInTarget`.

`Observation`: `TraceIsExported`, `OperatorRules`, `CountsAreEarned` (a suggestion
that only requests which derived without the stored ones have shown counts no more
than the successful requests that showed it), `OrderIsSound` (the order shown is
one-way, and a workflow's source is shown before its target or as ambiguous, unless
the limit filled the list with others), `EdgesAreGrounded`.

`MCPProxy`: `EveryToolHasOneName`, `CallReachesItsTool`, `OfferedIsRouted`,
`ToldOfChanges`.

Each is stated in words above its definition; several are conjunctions of named
parts, each with its own comment.

Bounds.  Two attempts separate "may retry" from "budget exhausted".  Three
repairs exceed what the largest world can use (its two producers of `g`), so
every chain of repairs is explored to its natural end; a run is finite without
any bound on time.  Three ids are as many as the longest plan has steps.  In
`Synthesis` three tools suffice for a cycle, a diamond and a producer of a
producer; depth 1 makes the limit bite.  Three calls of `ToolGraph` are the
fewest in which something is registered, an engine made, and what it indexed
changed; the worker's steps come in addition.  Four tools give the closure a chain of
three, a diamond and a cycle, with hop limits from 1 to 3 and budgets of 3 to 5
tokens for 5 tokens of schemas.  Three path items are the fewest in which one is
read between two that share a component.  Retrieval's limits are lowered
(`KeywordTop` 2, `MinPool` = `MaxPool` 3, `PrefilterFrom` 6, `DominantHead` 2) so
that eight nodes exceed them.  Three requests, two of them unmerged at a time,
give every order of two merges around a third; `MaxSuggestions` 3 and
`MaxCandidates` 1 make their caps bite (the code shows 6 candidates of a group by
default, and cuts the list the same way).  In `MCPProxy` two backends with a common name give every kind of proxy
name, the threshold puts some deployments in either mode, and three processes
are the fewest in which a cache is written, replaced and read again.  Its run
takes what three findings are about out of the world: no name contains
the separator, there is one session (as under stdio), and the process does not
die inside `saveGraph`.  It still dies at every other point, and the first cache
file may be torn.

Fairness.  Only `PlanRunner` states some: `WF_vars(Advance)`, since whoever
iterates the generator (`PlanRunner.run`, a server's event handler) keeps asking
for the next event, and a call of a tool returns or raises.  Which of the two,
and with what, is never constrained, and `Close` is not fair.  `Terminates`
needs nothing else.  No liveness is stated of `MCPProxy`, since nothing in the
code makes a backend answer, nor of the worker of `ToolGraph`, whose queries may
fail; the other modules compute and stop.

Deadlock is checked where the code runs on (`PlanRunner`, `PlanExecution`,
`Synthesis`, `MCPProxy`, `ToolGraph`); the other runs model one call, or a
bounded number of requests, and end.

## 4. Proofs

Every theorem holds for all values of the constants that satisfy the named
assumptions.  TLC evaluates those assumptions for the worlds of section 3.

### Plan runner (`PlanRunnerProofs`)

For every set of tools, fields and plans, every configuration, every behaviour
of the tools and every synthesizer:

* `TypeCorrect` - `TypeOK`.
* `ExcludedStaysUncalled` - `ExcludedNeverCalled`.  The property is about calls;
  it is inductive only with `PlanAvoidsExcluded`: no step of the current plan
  names an excluded tool, and the target is not excluded.  The second half is
  needed because a synthesized plan may name its target even if excluded, and it
  holds because a failed target is never repaired.
* `ContextStaysFresh` - `ContextFresh`, inductive with `TypeOK`.
* `SkippingIsSafe` - `SkipIsSafe`, from `SkippedUnused` (a step passed over
  without an output is consumed by nothing after it) and `RunPhases`.
* `CallBudgetsKept` - `CallBudgets`.  A count of calls is inductive only when it
  is known which calls it counts: `CallsKeepPlace` puts every call at a step the
  run has reached, under the plan it belongs to, and the target's calls in the
  current plan alone; `CallsCounted` then says that `attempts` is the number of
  calls of the step being executed, that none of them returned, and that every
  step is within its budget.
* `TraceAccounts` - `TraceAccountsForCalls`, from `CallsCounted` and
  `RowsKeepPlace`: rows are of steps the run has left, or was aborted at.
* `RunShownTruly` - `RunIsShownTruly`, about the flow `ExecutionFlow` derives from
  events and trace.  `RowsInOrder` gives every row of the trace its place among the
  rows, `ArgumentsCame` says that a call made with a bound argument came after one
  that returned it.  After a repair the property says nothing of a plan with a step
  that was skipped or not reached: such a step passes for completed if a step of
  the replaced plan completed under its id (section 6).
* `StreamRefined` - `PlanRunner` implements `EventStream`.  A repair maps to a
  step that bans a tool not banned before, which is `PlanAvoidsExcluded` again.

Assumptions: `PlansAssumption` (ids are not the input heads, and the like),
`RunnerAssumption` (what is handed to the runner is well formed, step ids are
distinct) and `RepairAssumption`, the contract of `synthesize`: the plan is for
the requested target and entities, ids are distinct, no step but the target's
calls an excluded tool.  TLC evaluates them for `MCPlanRunner`'s table
and, in `PlanExecution`, for the modelled synthesizer itself.

### Proxy (`MCPProxyProofs`)

For any backends, lists, sessions, failures and interleavings, under
`ProxyAssumption` (backends are distinct and list distinct tools):

* `RoutesLeadToTools` - `TypeOK`: `call_tool` looks up a backend's connection
  unchecked, and finds one.  Inductive with `LoopState`: the list being
  registered is that of the backend just connected.
* `CallsReachTheirTools` - `CallReachesItsTool`, if no name contains the
  separator (`PlainNames`; without it the second world of section 6 refutes it).
  Inductive with `KeysNameTools`: a proxy name is the tool's name, bare or
  prefixed; `PrefixIsCut` does the rest.
* `AggregationIsOneToOne` - `EveryToolHasOneName`, under `PlainNames`.  While the
  backends connect one after the other, `RegisteredOnce` says what the table
  holds so far and `LoopOrder` which of them come before which.
* `OffersAreRouted` - `OfferedIsRouted`, if no crash comes between the two cache
  writes (`WritesTogether`, and section 6 for what happens otherwise).  The graph
  searched may be one another process saved: `FilesFit` relates the two files to
  each other, `ListedIsRouted` the graph to the table, `AnswersRouted` what is
  still to be delivered.
* `ClientsAreTold` - `ToldOfChanges`, with one session (`OneSession`, as under
  stdio), from `ClientState`.

### Graph and tool graph (`ToolGraphProofs`)

For any names, kinds and attributes and every order of operations of
`DictGraphStore`:

* `MirrorsAlwaysAgree` - every edge is found from both ends with the same
  attributes and joins nodes that exist, although `remove_node`, `remove_edge`
  and loading each mend the dictionaries their own way.  Every operator
  preserves `Consistent`, one lemma each; removal of a node rests on a lemma that
  says which entries are left.
* `StoreTyped` - the dictionaries keep their shape.
* `DictGraphIsAGraphEngine` - they implement `GraphEngine`: the pairs of `out`
  are the edges, and consistency is what makes the operations on `in` agree.

`ToolGraph` drives the same operators through loops: a batch of tools, its
detected relations, an ontology, a list of duplicates.  Each loop is a
`FoldLeft`, and what it keeps comes from `FoldInduction` (below).

* `GraphAlwaysMatchesTools` - `GraphMatchesTools`, from `GraphInv`, which says of
  the saved file what it says of the graph, since a load replaces one by the other.
* `EngineAlwaysCurrent` - `EngineIsCurrent`, with its three exceptions, from
  `EngineInv`, which follows an engine through the six steps of a query in another
  thread.
* `LoadAlwaysRestores` - `LoadRestores`: what comes back equals what was saved, as
  strings.  Attempting this proof showed that a file
  saved after a batch had failed half-way was restored with an index of tools not
  in it, beyond the bound of the run; the file records that half-way state now.
* `MergingAlwaysKeepsOne` - `MergeKeepsOne`, for lists of duplicates of any length
  and overlap.  `Chained`: following what each removed tool was merged into never
  ends in a removed tool.

They assume that catalogues are finite (`DataIsFinite`) and that a duplicate pair is
of two tools (`DuplicatesDiffer`).

### From a query to a bundle (`TargetPipelineProofs`)

For every catalog, graph and request, any depth and any budgets.  The visit of
`_visit` is a stack of frames; `VisitShape` says what a frame may be at each
point, and every proof rests on it.

* `MutationsAlwaysAllowed` - `MutationsAreAllowed`, with `NoneForbidden`, which says
  it of the tools still on the stack and of the alternatives not yet written.
* `ReadyIsAlwaysRunnable` - `ReadyIsRunnable`.  `RowsDealt`: the rows of a visited
  tool before the frame's counter are satisfied, or the tool's trouble is known;
  `FedByDone`: a tool that another feeds comes out of the visit after it, so that
  the order in which tools leave the stack is one in which they can run.
* `BudgetAlwaysKeepsChain` - `BudgetKeepsChain`, with `Admitting`, which follows the
  spent tokens through the two passes.
* `VerdictsAreAlwaysSound` - `VerdictsAreSound`, from `Decided`: advice, order,
  target and verdict are those of the request's own candidates.  The rest is about
  `TargetSelection`.  A score is a sum of integers (`IsEvidence`), so that a list
  ranked by it has its best first; the limit of an admission fits its order
  (`LimitFits`), whatever the group cap and the token budget leave out.  An
  override is weighed against the field it was made in (`Field`): when only the
  siblings of the model's target were compared, a tie outside them is not
  reported, and section 6 says so.
* `OfferIsAlwaysSound` - `OfferIsSound`, from `Offering`: target, rankings and
  candidates of an offer are those of the request, or those of its closure.  Of the
  latter, `ReadyIsAlwaysRunnable`'s `RowsDealt` says that each required row of the
  chain was dealt with, and a feeder of the chain is among the offered.  For the index:  The caps lose no name to keep
  and no group (`KeepAlwaysKeeps`, `CappedCovers`).  The interleaving of groups is
  fair (`RoundsAreFair`): the key of a name is how many of its group come before
  it, then the group's first place, and sorting by that gives every group its
  turn before any has a second.  The expansion feeds every tool it passed
  (`HopCrosses`), and a hop that adds nothing has passed them all; one that adds
  something makes the offer longer, so that as many hops as there are tools to add
  leave none unfed.  That argument needs a width above zero: with `width` 0 no
  producer is ever taken, which is now in the guard of `OfferHasProducers`.

Assumptions: `RequestsAssumption` and `TargetsAssumption` (catalogs and requests
are finite and of the shape the code builds: scores and worths are integers,
actions and shapes among those the source names, the order lists every tool).

What these proofs need of lists in general - that distinct keys of integers put
every element of a set at one place, that a filtered list keeps its order - is in
`OrderingLemmas`.

### HTTP executor (`HttpRequestProofs`)

For every description of an operation, all arguments and every session.  The check
and the building of a request read the same description twice, by operators of
their own, several stages apart.  `Stages` is inductive and says what each stage
leaves to the next: the arguments are those given with the defaults added; after a
check the diagnosis is of exactly these and does not block; the parts hold every
known argument at its location; a call that failed lacked a path argument; the body is the one encoded
from its part.  Without it nothing connects the diagnosis to the request built.

* `AlwaysUsedAsReported` - `UsedAsReported`: `PlacedAsUsed` shows the two sortings of
  the arguments to agree whatever is declared twice, and `SentAsReported` that what
  is in the request is in the part it was reported under.
* `ChecksAlwaysComplete` - `RequestIsComplete`.  Names are collected by a loop that
  skips those met before, under another location too: `OnceLosesNothing` (by
  `FoldInduction`) shows that none is lost, and `EveryNameIsKnown` that the executor
  knows every parameter the check demands.  `PlacedUnlessShadowed` then says where
  it goes, and `CompleteWhenChecked` draws the conclusion for path, parameters and keys.

They assume that what an operation declares are finite lists
(`OperationsAssumption`).

### A collection in use (`ObservationProofs`)

For any collection, any runs, any interleaving of requests, merges, decisions and
deletions, and any limits.

* `CountsAlwaysEarned` - `CountsAreEarned`, from `LearningIsSound`.  A count is
  inductive with what it will be added to: `AttemptsKept` says that every result
  still held back of a request that was not handed the store suggests each thing
  its attempt showed once, with one observation; merging it then adds one
  observation and one attempt that shows it.  A request that was handed the store
  is excepted with every suggestion it shows: what it derives holds the stored
  count, which the merge adds again (section 6).  `Counted` is the property in a
  form that does not recompute an attempt's suggestions.
* `OperatorAlwaysRules` - `OperatorRules`, with `DecisionsStand` (the ids of a store
  are distinct, so that a merge finds the decided one; the cap may cut it, and with
  it the decision) and `StaysRemoved`.
* `OrderAlwaysSound` - `OrderIsSound`, from `GraphIsSound`: every stage of `Ingest`
  and every merge leaves edges between two different tools at the place that names
  them (`IsGraph`), and never takes back a workflow's stated direction (`Followed`).
  That no two tools are shown each before the other is then an argument about
  `Candidates`: an edge that makes t a predecessor of u, seen from t, makes u a
  successor of t, so that u could be a predecessor of t only if another edge said
  so, and then the two are `Conflicting` and shown as ambiguous on both sides.  The
  limit shortens lists and adds to none; a list it cut is full.
* `EdgesAlwaysGrounded` - `EdgesAreGrounded`, also from `GraphIsSound`: an edge has
  the flow of a link only if it has a link's source, its flow is one statement, and
  its link leads to the tool it names (`Grounded`).  Two edges of which each is so
  merge to one that is (`MergedGrounds`): a statement that gives both path and field
  replaces both, one that gives neither replaces none.  The contract's statements are all pairs of rows under a common key of the four;
  `FirstMatch` takes one of them.  Hence the condition of the
  property, that what is written about the two tools gives both.  A link keeps its
  path when others name the field, so that of an edge with a link only the target is
  claimed (section 6).  What is written grows meanwhile - aliases of workflows are
  added to what tools produce, records of runs are appended - and what was stated
  stays so (`Wider`, `Grown`).
* `TraceAlwaysExported` - `TraceIsExported`, from `TraceInv`: a handle's parent was
  started before it, a completed span is the copy of one finished handle and no
  handle has two, a block entered is open or its span finished, and a block left by
  an exception left an error span.  The envelope keeps all that once the trace is
  closed, while handles may still be started and finished (`CopiesStay`).  Export sorts by
  sequence, and a parent has the lower one; that is why it comes first in whatever
  order the spans were completed.

They assume `LimitAssumption` (the cap is a natural number), `RunsAssumption` (a plan
is a finite list of steps with finitely many bindings) and `CollectionsAssumption`:
names are listed once, detectors and workflows relate two different tools
(`analyze/dependency.py`, `ingest/arazzo.py:239`), workflows only registered ones,
and a workflow's bindings are a list (line 255 there).  `SortSeq` does
not occur: the sorted lists are `Sorted` by keys, and `SortedList` shows that
distinct keys put every element at one place.

### Induction (`FoldInduction`)

The induction theorems of the library take the induction hypothesis as an
operator parameter, which no prover here can instantiate.  `FoldInduction` has
the loop's body and its invariant as CONSTANT operators instead, proves once that
what the body keeps holds at the end of the fold over any sequence, and is
instantiated once for every loop.  The fold is written out (`MapThenFoldSet`), as
`FoldLeft` is defined; every use begins with the step that says so.  `SelectSeq` and `SortSeq` are opaque to the
prover; where a proof needs the first, the model uses `Filtered` (`Orderings`).

### Only model-checked

* `Terminates`: liveness under fairness is out of the prover's reach.
* Everything of `Synthesis`, `PlanExecution`, `Retrieval`, `WorkflowPlans` and
  `SpecIngest`: they reach RECURSIVE operators, in whose presence the prover has
  no SMT backend.  `PlanExecution` gets the theorems of `PlanRunner` for the
  synthesizers that satisfy `RepairAssumption`, which its run evaluates.
* `ArgumentsArrive` and `ValuesAreWritten` of `HttpRequest`: what
  a body holds at a path is the result of assignments that recurse over the path,
  so that each is an induction over data.  `ValuesAreWritten` is besides about values that
  have something to write: an empty object in `deepObject` style writes nothing.

The type invariants (`TypeOK` of `PlanRunner` and `MCPProxy`, `StoreTypeOK`) and
`ExcludedNeverCalled` are proved and therefore not repeated in the runs.

## 5. Not modelled, and the plan

Left out inside modelled components (and why):

* texts: labels, rationales, reasons, diagnostics, previews, prompts - nothing
  branches on them;
* values behind decisions: the word tables of selection, BM25 and embedding
  scores, JSON-path similarity - inputs, or classes of terms;
* `get_tool_schema`, compression, call history and the transports of the proxy;
* how much of an example is read, and the order within a suggested workflow;
* ingestion of formats other than OpenAPI, artefact files of graphify, the
  guessing of semantic tags;
* quoting, multipart bytes, hosts and redirects of the executor;
* nullability and limits of schemas.

Components not modelled: argument coercion (pure conversion), intent and
response prompts, gateway, middleware and MCP server (one call of a modelled
operation each, no state), response compressor, evaluation, interfaces
(input and output only).

Still planned:

1. Two concurrent syntheses over one synthesizer instance (its diagnostics and
   per-call preferences live on the instance): `Synthesize` would be split at
   each read of them.
2. `DependencyClosure` feeding `Synthesizer` through `prefer`.
3. The recursions of `Retrieval` as recursive functions, so that what it promises of
   its stages can be proved.

## 6. Findings

Two runs end in a violation, each of a statement the repository makes:

* `CompletedNotRerun` - `plan/repair.py:12` says producers that already ran are
  not re-chained; those of a loose match are.
* `DominantIsVisible` - `retrieval/engine.py:983` says strong lexical winners
  stay visible; lifting a runner-up can push the leader itself out of the head.

The following were met while modelling.  Where a definition is named, adding it
as an INVARIANT to the configuration named (or to that of its module) gives a
counterexample; the others were read off the code while it was translated.

Planning and running:

* `LooseNamesMatch` (`Synthesis.cfg`) - `synthesizer.py:199` says `ordNo` matches
  producers of `ordno`; line 680 keeps names already in folded form out of the
  index.
* `BindingYieldsField` (`Synthesis.cfg`) - `_producer_jsonpath` says its path
  yields the desired field; for a loosely matched producer it is built from the
  consumer's name.
* `MissingInputIsAsked` (`PlanExecution.cfg`) - `synthesizer.py:516` says the
  runner asks for an unfilled slot; `runner.py:350` aborts.
* After a repair, an aborted run may "prove" an edge that never happened: the
  trace still holds the steps of the replaced plan, whose ids the new one reuses
  (`edges.py:151`); with no trace at all every binding is counted.
* `_BINDING_RE` of `edges.py` refuses step ids with a hyphen; a skipped step is
  left "running" by the events and is "failed" by the trace.

Proxy:

* `WorkflowIsOfTheAnswer` (`MCPProxy.cfg` as a PROPERTY) - `search_tools` reads
  `_last_workflow` (`mcp_proxy.py:691`) after the `await` at line 678: when another
  search ran meanwhile, the answer suggests an order of that one's tools.
* `CallReachesItsTool` with `Offerings <- NestedOfferings` - `mcp_proxy.py:428`
  promises routing to the correct backend; line 449 cuts a prefix off names that
  never had one, such as those listed by a backend that is itself a proxy.
* `ResultNamesItsTool` - line 401 overrides with the prefixed name "if needed";
  when two backends share a name, the result describes the second one's tool and
  names the first one's.
* `ToldOfChanges` with `Sessions` of two and `SessionOf <- MCTwo` - clients are notified "after the gateway's
  visible tools change" (line 745); only the session that searched is.
* `GraphIsCurrent` with `"saveGraph"` among `Interruptible` - the
  fingerprint is there "for cache invalidation" (line 281); written before the
  graph, it validates an older one.

Tool graph:

* `EngineIsTaken` - `tool_graph.py:1042` reads `self._retrieval` twice; a
  registration between the reads makes the query of another thread fail.
* `EngineAlwaysTokenizes`, `IndexAlwaysTokenizes` (`ToolGraph.cfg`) -
  `tool_graph.py:1039` makes the new engine the graph's before line 1041 gives it the
  tokenizer, so that the other thread may search without; and an index that a query
  was building when `set_tokenizer` cleared it is assigned afterwards
  (`retrieval/engine.py:205`).
* `IndexAlwaysCurrent` (`ToolGraph.cfg`) - a batch of policy `error` raises at the
  first collision and leaves what it had registered, without the invalidation at its
  end (`tool_graph.py:1047-1105`): the index knows nothing of these tools.
* `LoadRestoresMembers` (`ToolGraph.cfg` as a PROPERTY) - relations and node types
  come back as plain strings (`serialization.py:55`, 100), whose `str()` is another
  than that of the members they were; see the workflow plans below.
* `RelinkKeepsRelations` (`ToolGraph.cfg` as a PROPERTY) - relinking overwrites
  declared relations.
* `add_category` does not invalidate the
  engine's cached index of categories.

Selection and closure:

* `OverrideIsClear` (`TargetPipeline.cfg`) - `docs/api-reference.md:693` says a winner
  replaces the model's target only with a clear margin over the runner-up; once the
  comparison has narrowed to siblings of that target (`catalog.py:774`), a candidate
  outside them that scores as well or better is overlooked.
* `RolesAreSeparate` (`TargetPipeline.cfg`) - `docs/api-reference.md:779` says
  required and optional tools are returned separately; a tool may be both.
* A tool first visited deep keeps that depth (`dependency_closure.py:423`): with
  `max_hops` 3 and T to A to B to C, the input of C stays unresolved although T
  to C to D is two hops.  `assemble_tool_bundle` raises `KeyError` for an unknown
  target.

HTTP executor:

* `RequiredIsSent` (`HttpRequest.cfg`) - one name for a path parameter and a
  required body field (`http_executor.py:1683`): it goes to the path alone.
  `RequestIsComplete` and `ArgumentsArrive` except such names (`Shadowed`).
* Defaults of the preselected content type can change the type of a request whose
  arguments name another; field arguments are ignored when a whole `body` is
  given; body arguments of a DELETE are reported used and never sent; joined
  lists write null items as text while exploded ones drop them.

Specification ingest:

* `WrappersAreDropped`, `ContractIsLocalInCycles` (`SpecIngest.cfg`) - a query
  wrapper is kept when all its fields are siblings, and components that refer to
  each other are cached as they were cut off first, so that contracts depend on
  the order of paths.
* `ExamplesKeepMarks` (`SpecIngest.cfg`) - what an example shows is merged into the
  rows of a body or response without its schema's marks (`openapi.py:424-444`,
  2797-2812): a read-only field that an example of the request shows is asked of the
  caller, a write-only one that an example of the response shows is promised.
* `DiscriminatorsKeepMarks` (`SpecIngest.cfg`) - a discriminator no branch declares is
  added without the marks of what is around the union (`io_contract.py:614-630`).
* A unique operationId may lose its name to a generated one, although the
  docstring of `_unique_operation_name` speaks of preserving it.
* With `required_only`, a required wrapper of optional leaves becomes itself the
  parameter; a required body field is dropped from the contract when an optional
  nested field of its name comes first; a leaf required by its parent counts as
  required under an optional object; a field read-only in one branch of a `oneOf`
  is no longer consumed though still a parameter.
* `_flatten_top_level_allof` and `_resolve_combinators` extend a schema's own
  `oneOf` list in place, so that it grows at every read (no such schema is among
  the inputs).

Retrieval and workflow plans:

* `GraphNeverDisplaces` (`Retrieval.cfg`) - graph candidates are injected below
  the rest (`engine.py:798`), and then boosted over them.
* `PlanIsOrdered` - a plan may call a tool before what it requires
  (`workflow.py:256`).
* A reloaded graph plans no prerequisites, since relations are compared in upper
  case; steps of a language model are numbered with gaps when one is unknown;
  `set_diversity(0.0)` leaves the pool no larger than the result; the history
  and semantic factors run after the guard.

Observation and learning:

* `ProducersComeFirst` (`Observation.cfg`) - `execution_flow.py:210` reads
  `requires` edges as producer to consumer, detectors write them the other way.
* `FailuresKeepOut` (`Observation.cfg` as a PROPERTY, with `Runs <- MCOneRun`,
  `Collections <- MCOneTool` and `MaxAttempts = 6`) - a suggestion's own count
  makes it promotable before the failure ratio is looked at
  (`learning/__init__.py:382`); `website/docs/learning/suggestions.md:172` says
  that a ratio above 0.5 should keep it out of promotion.
* `CountsAreAlwaysEarned` (`Observation.cfg`) - `website/docs/learning/suggestions.md:104-130`
  derives with `existing_suggestions=current_suggestions` and then merges the result
  into `current_suggestions`; what is derived then holds the stored suggestions
  (`learning/__init__.py:197-203`), and the merge adds their counts a second time
  (line 254), so that it more than doubles with each such run.
* `WorkflowsAreShown` (`Observation.cfg`) - a group is cut to `max_candidates` after
  sorting by evidence (`execution_flow.py:322-325`), and the evidence of a workflow
  has no rank there (line 348): the source a workflow states is the first to go.
* The cap orders suggestions by the name of their status and cuts promoted ones
  first (line 266); `attempt_id` is not used, so a record delivered twice counts
  twice; `max_attempts` is not enforced.
* `TraceCanFinish` - a finished span entered again keeps its trace from finishing;
  one finished after its trace is in no envelope.
* Merging a run's flow into a structural `requires` edge can turn its direction;
  merging a link with a contract mixes the path of one row with the field of
  another; a manual pair overwrites a detected edge; deleted edges are still
  shown.
