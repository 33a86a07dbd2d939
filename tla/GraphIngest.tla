---------------------------- MODULE GraphIngest ----------------------------
(***************************************************************************)
(* graphify/ingest.py and graphify/workflow_evidence.py: the graph of a    *)
(* collection.  The relations the detectors found, the pairs its metadata  *)
(* name, the links of its OpenAPI documents, the data flows of its         *)
(* contracts and the workflows of its Arazzo descriptions are put into one *)
(* graph, each on what the stages before it left.                          *)
(*                                                                         *)
(* A tool is [name, operation, ref, action, pairs, links, consumes,        *)
(* produces]; a pair [tool, manual]; a link [operation, ref, success,      *)
(* params]; its parameter [field, from, source]; a consume [field, sem,    *)
(* alias, required, kind]; a produce [field, sem, alias, path, only,       *)
(* score, guessed], alias being its description_alias_key and only the     *)
(* consumers it was aligned with (AnyConsumer: all); a workflow relation   *)
(* [source, target, kind, bindings].  An edge is one of ExecutionFlow; the *)
(* graph maps the pairs (source, target) to their edges.                   *)
(***************************************************************************)
EXTENDS ExecutionFlow

CONSTANTS
  Collections,   \* the collections ingested: [tools, detected, workflows]
  Names,         \* the tool names, in order
  LooseKey,      \* _contract_field_key of every field name
  MaxProducers   \* max_contract_producers_per_field

IsTool(t) ==
  /\ DOMAIN t = {"name", "operation", "ref", "action", "pairs", "links", "consumes", "produces"}
  /\ t.name \in ToSet(Names)
  /\ IsList(t.pairs) /\ IsList(t.links) /\ IsList(t.consumes) /\ IsList(t.produces)
  /\ \A i \in DOMAIN t.links : IsList(t.links[i].params)
  /\ \A i \in DOMAIN t.produces : t.produces[i].score \in Int

(* Every name is listed once.  The detectors and the workflow reader relate*)
(* only tools of different names (dependency.py, arazzo.py:239), workflows *)
(* only registered ones (arazzo.py:241), with their bindings in a list     *)
(* (arazzo.py:255).                                                        *)
ASSUME CollectionsAssumption ==
  /\ IsList(Names) /\ \A i, j \in DOMAIN Names : Names[i] = Names[j] => i = j
  /\ MaxProducers \in Nat
  /\ \A c \in Collections :
       /\ IsList(c.tools) /\ IsList(c.detected) /\ IsList(c.workflows)
       /\ \A i \in DOMAIN c.tools : IsTool(c.tools[i])
       /\ \A i \in DOMAIN c.detected :
            c.detected[i].source # c.detected[i].target /\ c.detected[i].conf \in Int
       /\ \A i \in DOMAIN c.workflows :
            /\ c.workflows[i].source # c.workflows[i].target /\ IsList(c.workflows[i].bindings)
            /\ {c.workflows[i].source, c.workflows[i].target} \subseteq ToSet(Names)

VARIABLES collection, schemas, graph, stage

ingestVars == <<collection, schemas, graph, stage>>

AnyConsumer == {"*"}

NamesOf(tools) == {tools[i].name : i \in DOMAIN tools}

(* The dictionary d once k has the value v.                                *)
Updated(d, k, v) == [x \in DOMAIN d \cup {k} |-> IF x = k THEN v ELSE d[x]]

PutEdge(g, e) == Updated(g, <<e.source, e.target>>, e)

RawEdge(source, target, relation, strength, conf, layer) ==
  [source |-> source, target |-> target, relation |-> relation, kind |-> "",
   explicit |-> "", sources |-> {}, conf |-> conf, strength |-> strength, layer |-> layer,
   flow |-> NoFlow, manual |-> FALSE, deleted |-> FALSE]

(* bucket_confidence with the default thresholds, in hundredths.           *)
Bucket(layer, conf) ==
  IF conf >= 85 THEN IF layer = 1 THEN "EXTRACTED" ELSE "INFERRED"
  ELSE IF conf >= 70 THEN "AMBIGUOUS" ELSE "dropped"

(* The relations the detectors found: a pair has one edge, the last one.   *)
PutDetected(g, r) ==
  IF Bucket(r.layer, r.conf) = "dropped" THEN g
  ELSE PutEdge(g, RawEdge(r.source, r.target, r.relation, Bucket(r.layer, r.conf),
                          r.conf, r.layer))

(* _apply_pair_hints: an operator's pair replaces what was detected.       *)
PutPair(g, tool, pair, tools) ==
  IF \/ pair.tool = tool.name \/ pair.tool \notin NamesOf(tools)
     \/ <<tool.name, pair.tool>> \in DOMAIN g /\ ~pair.manual
  THEN g
  ELSE PutEdge(g, RawEdge(tool.name, pair.tool, "complementary",
                          IF pair.manual THEN "EXTRACTED" ELSE "INFERRED", 0, 2))

WithPairs(g, tools) ==
  FoldLeft(LAMBDA acc, tool :
             FoldLeft(LAMBDA h, pair : PutPair(h, tool, pair, tools), acc, tool.pairs),
           g, tools)

(* Put e, or merge it with the edge of its pair.                           *)
MergeEdge(g, e) ==
  IF <<e.source, e.target>> \notin DOMAIN g THEN PutEdge(g, e)
  ELSE LET old == g[<<e.source, e.target>>]
       IN  PutEdge(g, MergedEdge(Normalized(old, old.layer, "structural"), e))
-----------------------------------------------------------------------------
(* _openapi_contract_links, _response_link_parameters                      *)
LinksOf(tool) == Filtered(tool.links, {k \in ToSet(tool.links) : k.success})
FromResponse(link) ==
  Filtered(link.params,
           {p \in ToSet(link.params) : p.source \in {"response_body", "response_header"}})

Produce(field, path) ==
  [field |-> field, sem |-> Absent, alias |-> Absent, path |-> path, only |-> AnyConsumer,
   score |-> 0, guessed |-> FALSE]

HasRow(produces, field, path) ==
  \E i \in DOMAIN produces : produces[i].field = field /\ produces[i].path = path

(* _promote_openapi_link_signals: the parameters of the links of a tool    *)
(* become aliases of what it produces.                                     *)
AddAlias(rows, p) ==
  IF p.field = Absent \/ p.from = Absent \/ HasRow(rows, p.field, p.from) THEN rows
  ELSE Append(rows, Produce(p.field, p.from))

WithLinkAliases(tool) ==
  FoldLeft(LAMBDA acc, link : FoldLeft(AddAlias, acc, FromResponse(link)),
           tool.produces, LinksOf(tool))

Promoted(tool) == [tool EXCEPT !.produces = WithLinkAliases(tool)]

(* ambiguous_operation_ids                                                 *)
SharedOperation(id, tools) ==
  \E i, j \in DOMAIN tools :
    tools[i].operation = id /\ tools[j].operation = id /\ tools[i].name # tools[j].name

(* _operation_target_index: the tools an id leads to, the last one stays.  *)
Carriers(id, tools) ==
  {i \in DOMAIN tools :
     \/ tools[i].operation = id /\ ~SharedOperation(id, tools)
     \/ /\ tools[i].name = id
        /\ tools[i].operation # id \/ ~SharedOperation(id, tools)}

At(ref, tools) == {i \in DOMAIN tools : ref # Absent /\ tools[i].ref = ref}

LastOf(indices, tools) ==
  tools[CHOOSE i \in indices : \A j \in indices : j <= i].name

NoConsumer == ""

(* _resolve_openapi_link_target                                            *)
LinkTarget(link, tools) ==
  IF link.operation # Absent /\ Carriers(link.operation, tools) # {}
  THEN LastOf(Carriers(link.operation, tools), tools)
  ELSE IF At(link.ref, tools) # {} THEN LastOf(At(link.ref, tools), tools) ELSE NoConsumer

Primary(link) ==
  IF FromResponse(link) # <<>> THEN Head(FromResponse(link))
  ELSE IF link.params # <<>> THEN Head(link.params)
  ELSE [field |-> Absent, from |-> Absent, source |-> Absent]

LinkRelation(link) == IF FromResponse(link) = <<>> THEN "precedes" ELSE "requires"

LinkEdge(consumer, producer, link) ==
  [RawEdge(consumer, producer, LinkRelation(link), "EXTRACTED",
           IF LinkRelation(link) = "requires" THEN 95 ELSE 90, 1)
     EXCEPT !.kind = IF LinkRelation(link) = "requires" THEN "data" ELSE "semantic",
            !.sources = {"openapi_link"},
            !.flow = [count |-> 0, from |-> Primary(link).from, field |-> Primary(link).field,
                      link |-> TRUE, stated |-> TRUE]]

(* _add_or_merge_openapi_link_edge                                         *)
PutLink(g, producer, link, tools) ==
  LET consumer == LinkTarget(link, tools)
      e == LinkEdge(consumer, producer, link)
      merged == MergeEdge(g, e)
  IN  IF consumer \in {NoConsumer, producer} THEN g
      ELSE IF e.relation = "requires"
           THEN [merged EXCEPT ![<<consumer, producer>>].relation = "requires"]
           ELSE merged

WithLinks(g, tools) ==
  FoldLeft(LAMBDA acc, tool :
             FoldLeft(LAMBDA h, link : PutLink(h, tool.name, link, tools), acc, LinksOf(tool)),
           g, tools)
-----------------------------------------------------------------------------
(* The test _matching_produce and _is_echo_producer share: by tag, by      *)
(* name, by the name's letters and digits, by the description.             *)
SameField(p, c) ==
  \/ p.sem # Absent /\ p.sem = c.sem
  \/ p.field # Absent /\ p.field = c.field
  \/ LooseKey[p.field] # Absent /\ LooseKey[p.field] = LooseKey[c.field]
  \/ p.alias # Absent /\ p.alias = c.alias

FirstMatch(tool, c) == SelectInSeq(tool.produces, LAMBDA p : SameField(p, c))

(* _is_echo_producer                                                       *)
Echo(tool, p) == \E i \in DOMAIN tool.consumes : SameField(p, tool.consumes[i])

(* _produce_supports_consumer                                              *)
Supports(p, consumer) == p.only = AnyConsumer \/ consumer.name \in p.only

(* The tools a consumed row can come from: by the first row that matches.  *)
Yielders(consumer, c, tools) ==
  {i \in DOMAIN tools :
     LET k == FirstMatch(tools[i], c) IN
     /\ tools[i].name # consumer.name /\ k # 0
     /\ Supports(tools[i].produces[k], consumer)
     /\ ~Echo(tools[i], tools[i].produces[k])}

(* _contract_edge_score                                                    *)
ContractScore(tool, p) ==
  p.score
  + (CASE tool.action = "search" -> 4 [] tool.action = "read" -> 3
       [] tool.action \in {"list", "lookup"} -> 2 [] OTHER -> 0)
  + IF p.guessed THEN 0 ELSE 2

BestYielders(consumer, c, tools) ==
  LET yielders == Yielders(consumer, c, tools)
      key == [i \in yielders |->
                <<0 - ContractScore(tools[i], tools[i].produces[FirstMatch(tools[i], c)]),
                  Place(Names, tools[i].name), i>>]
      order == Sorted(yielders, key)
  IN  SubSeq(order, 1, Least(Len(order), MaxProducers))

FromPath(p) == IF p.path # Absent THEN p.path ELSE p.field

ContractEdge(consumer, producer, c, p) ==
  [RawEdge(consumer.name, producer.name, "requires", "INFERRED", 82, 2)
     EXCEPT !.kind = "data", !.sources = {"api_contract"},
            !.flow = [count |-> 0, from |-> FromPath(p), field |-> c.field, link |-> FALSE,
                      stated |-> TRUE]]

(* _add_or_merge_contract_edge: the pair requires, whatever it was.        *)
PutContract(g, consumer, producer, c) ==
  LET e == ContractEdge(consumer, producer, c, producer.produces[FirstMatch(producer, c)])
  IN  [MergeEdge(g, e) EXCEPT ![<<e.source, e.target>>].relation = "requires"]

NeedsData(tool) ==
  Filtered(tool.consumes, {c \in ToSet(tool.consumes) : c.required /\ c.kind = "data"})

PutRow(g, consumer, c, tools) ==
  FoldLeft(LAMBDA h, i : PutContract(h, consumer, tools[i], c), g,
           BestYielders(consumer, c, tools))

(* _apply_contract_data_flow_edges                                         *)
WithContracts(g, tools) ==
  FoldLeft(LAMBDA acc, tool :
             FoldLeft(LAMBDA h, c : PutRow(h, tool, c, tools), acc, NeedsData(tool)),
           g, tools)
-----------------------------------------------------------------------------
FirstBinding(r) ==
  IF r.bindings = <<>> THEN [from |-> Absent, field |-> Absent] ELSE Head(r.bindings)

WorkflowEdge(r) ==
  [RawEdge(r.source, r.target, "precedes", "EXTRACTED",
           IF r.kind = "sequential" THEN 95 ELSE 100, 1)
     EXCEPT !.kind = IF r.bindings = <<>> THEN "workflow" ELSE "data",
            !.explicit = "forward", !.sources = {"arazzo"},
            !.flow = [count |-> 0, from |-> FirstBinding(r).from,
                      field |-> FirstBinding(r).field, link |-> FALSE, stated |-> TRUE]]

(* apply_arazzo_relations: an explicit workflow says which tool is first.  *)
PutWorkflow(g, r) ==
  [MergeEdge(g, WorkflowEdge(r)) EXCEPT ![<<r.source, r.target>>].explicit = "forward"]

(* _promote_binding_alias: what a workflow binds comes first of what its   *)
(* source produces; _consumer_contract_row gives it the consumer's tag.    *)
TagOf(target, field, tools) ==
  LET i == SelectInSeq(tools, LAMBDA t : t.name = target)
      k == IF i = 0 THEN 0 ELSE SelectInSeq(tools[i].consumes, LAMBDA c : c.field = field)
  IN  IF k = 0 THEN Absent ELSE tools[i].consumes[k].sem

Aliased(tool, r, b, tools) ==
  IF \/ tool.name # r.source \/ b.field = Absent \/ b.from = Absent
     \/ HasRow(tool.produces, b.field, b.from)
  THEN tool
  ELSE [tool EXCEPT !.produces =
          <<[Produce(b.field, b.from) EXCEPT !.sem = TagOf(r.target, b.field, tools)]>> \o @]

WithAliases(tools, r) ==
  FoldLeft(LAMBDA acc, b : [i \in DOMAIN acc |-> Aliased(acc[i], r, b, acc)], tools, r.bindings)
-----------------------------------------------------------------------------
IngestInit ==
  /\ collection \in Collections
  /\ schemas = collection.tools
  /\ graph = <<>>
  /\ stage = "detect"

(* ingest_openapi_graphify, stage by stage.                                *)
Detect ==
  /\ stage = "detect"
  /\ schemas' = [i \in DOMAIN schemas |-> Promoted(schemas[i])]
  /\ graph' = IF Len(schemas) < 2 THEN graph
              ELSE FoldLeft(PutDetected, graph, collection.detected)
  /\ stage' = IF Len(schemas) < 2 THEN "link" ELSE "pair"
  /\ UNCHANGED collection

Pair ==
  /\ stage = "pair" /\ stage' = "link"
  /\ graph' = WithPairs(graph, schemas)
  /\ UNCHANGED <<collection, schemas>>

Link ==
  /\ stage = "link" /\ stage' = "contract"
  /\ graph' = WithLinks(graph, schemas)
  /\ UNCHANGED <<collection, schemas>>

Contract ==
  /\ stage = "contract" /\ stage' = "workflow"
  /\ graph' = WithContracts(graph, schemas)
  /\ UNCHANGED <<collection, schemas>>

(* apply_arazzo_workflows                                                  *)
Workflow ==
  /\ stage = "workflow" /\ stage' = "ready"
  /\ graph' = FoldLeft(PutWorkflow, graph, collection.workflows)
  /\ schemas' = FoldLeft(WithAliases, schemas, collection.workflows)
  /\ UNCHANGED collection

Ingest == Detect \/ Pair \/ Link \/ Contract \/ Workflow
=============================================================================
