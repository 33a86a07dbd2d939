----------------------------- MODULE ToolGraph -----------------------------
(***************************************************************************)
(* tool_graph.py: the registered tools, the ontology graph over their      *)
(* names (ontology/builder.py) and the retrieval engine that answers       *)
(* queries from both.  Tools come one by one, in batches of a source, or   *)
(* from a saved file; relations are detected, declared or taken from a     *)
(* workflow.  The engine is built when first asked for and dropped         *)
(* whenever the tools or relations changed; aretrieve runs it in a worker  *)
(* thread beside the thread that registers tools.                          *)
(*                                                                         *)
(* Tools, categories and domains share the names of the graph's nodes.     *)
(***************************************************************************)
EXTENDS DictGraph, FiniteSets, Sequences, SequencesExt

CONSTANTS
  Names,        \* of tools, categories and domains
  Schemas,      \* tool schemas: records [name, domain, tags]
  Batches,      \* what a source may deliver: sequences of schemas
  Labels,       \* source labels
  Prefixed,     \* <<label or NoLabel, name>> -> "label.name"
  Lower,        \* name -> name.lower().strip()
  Related,      \* what detect_dependencies finds: records [source, target, rel]
  Conflicting,  \* what detect_conflicts finds
  Staged,       \* what detect_commerce_patterns finds
  Workflows,    \* what an Arazzo description orders: sets of <<source, target>>
  Declared,     \* relations a user may add
  Clusterings,  \* what clustering by embedding may find: sets of <<tool, category>>
  LlmAnswers,   \* LLM's [relations, categories]; NoLlm: none is configured
  PairLists,    \* what find_duplicates may return: lists of pairs of names
  Before,       \* the order of names, <<a, b>> with a < b
  Quality,      \* schema -> quality score
  MaxOps,       \* bound on the calls that change something
  NoDomain, NoLabel, NoLlm, NoIndex, NoFile

(* Schemas are records, and data comes in finite lists.                    *)
IsSchema(t) == DOMAIN t = {"name", "domain", "tags"} /\ IsFiniteSet(t.tags)

ASSUME DataIsFinite ==
  /\ \A t \in Schemas : IsSchema(t)
  /\ \A b \in Batches : b \in Seq(ToSet(b)) /\ \A i \in DOMAIN b : IsSchema(b[i])
  /\ \A a \in LlmAnswers : IsFiniteSet(a.relations) /\ IsFiniteSet(a.categories)
  /\ \A w \in Workflows : IsFiniteSet(w)
  /\ \A c \in Clusterings : IsFiniteSet(c)
  /\ \A ps \in PairLists : ps \in Seq(ToSet(ps))
  /\ IsFiniteSet(Related) /\ IsFiniteSet(Conflicting) /\ IsFiniteSet(Staged)

(* Duplicates are found between two tools, never between one and itself.   *)
ASSUME DuplicatesDiffer ==
  \A ps \in PairLists : \A i \in DOMAIN ps : ps[i][1] # ps[i][2]

VARIABLES
  graph,      \* _graph: a DictGraph
  tools,      \* _tools: name -> [schema, label]
  engine,     \* _retrieval: NoEngine, or what it caches and is set to
  tokenizer,  \* _tokenizer is set
  adaptive,   \* _adaptive_k_default
  file,       \* the saved graph, or NoFile
  worker,     \* the thread of aretrieve
  halfway,    \* history: a batch failed after it had registered some tools
  ops         \* calls so far (bound)

vars == <<graph, tools, engine, tokenizer, adaptive, file, worker, halfway, ops>>

(* No engine, and no settings of one: None.                                *)
NoEngine == Nothing

(* A node_type or a relation is a member of an enum that is also a string; *)
(* JSON writes the string, and the string is what is read (Text).  The two *)
(* are equal, but str() of them is not.                                    *)
Enum(v) == [value |-> v, member |-> TRUE]
Text(a) == IF a = NoType THEN a ELSE [value |-> a.value, member |-> FALSE]

Relation(rel) == Enum([rel |-> rel, arazzo |-> FALSE])

Fresh(tok) == [index |-> NoIndex, embedding |-> NoIndex, prefilter |-> FALSE,
               diversity |-> FALSE, reranker |-> FALSE, manual |-> FALSE,
               tokenizer |-> tok]

Idle == [at |-> "idle", own |-> FALSE, built |-> NoIndex]

Init ==
  /\ graph = EmptyGraph /\ tools = Nothing
  /\ engine = NoEngine /\ tokenizer = FALSE /\ adaptive = FALSE
  /\ file = NoFile /\ worker = Idle /\ halfway = FALSE /\ ops = 0
----------------------------------------------------------------------------
(* ontology/builder.py on a graph.  Assigning a category that is no node   *)
(* makes it one; a name that is a node already is taken as it is.          *)
AddCategory(g, c) == AddNode(g, c, Enum("category"))

AddCategoryIn(g, c, d) ==
  LET h == AddCategory(g, c)
      k == IF HasNode(h, d) THEN h ELSE AddNode(h, d, Enum("domain"))
  IN  IF d = NoDomain THEN h ELSE AddEdge(k, c, d, Relation("belongs_to"))

AssignCategory(g, t, c) ==
  LET h == IF HasNode(g, c) THEN g ELSE AddCategory(g, c)
  IN  AddEdge(h, t, c, Relation("belongs_to"))

AddRelations(g, rs) ==
  FoldLeft(LAMBDA h, r : AddEdge(h, r.source, r.target, Relation(r.rel)), g, SetToSeq(rs))

AssignAll(g, pairs) ==
  FoldLeft(LAMBDA h, p : AssignCategory(h, p[1], p[2]), g, SetToSeq(pairs))

RemoveAll(g, names) == FoldLeft(RemoveNode, g, SetToSeq(names))

(* detect_dependencies(scope): the relations between the tools in it.      *)
Detected(scope) == {r \in Related : {r.source, r.target} \subseteq scope}

GetEngine == IF engine = NoEngine THEN Fresh(tokenizer) ELSE engine

(* Mutant of Invalidate: the engine is kept.                               *)
InvalidateNothing == /\ engine' = engine
                     /\ worker' = worker
                     /\ halfway' = FALSE

(* _invalidate_retrieval.  A worker that took the engine keeps it.         *)
Keeping(w) == [w EXCEPT !.own = @ \/ w.at \in {"searching", "indexing"}]

Invalidate == /\ engine' = NoEngine
              /\ worker' = Keeping(worker)
              /\ halfway' = FALSE

Call == ops < MaxOps /\ ops' = ops + 1

Same(xs) == UNCHANGED xs
settings == <<tokenizer, adaptive>>
----------------------------------------------------------------------------
(* Registration.                                                           *)
Entry(schema, label) == [schema |-> schema, label |-> label]

AddTool(schema) ==
  /\ Call
  /\ tools' = Put(tools, schema.name, Entry(schema, NoLabel))
  /\ graph' = AddNode(graph, schema.name, Enum("tool"))
  /\ Invalidate
  /\ Same(<<settings, file>>)

AddNodes(g, batch) == FoldLeft(LAMBDA h, t : AddNode(h, t.name, Enum("tool")), g, batch)

AddDomains(g, batch) ==
  FoldLeft(LAMBDA h, t : IF t.domain = NoDomain THEN h
                         ELSE AssignCategory(h, t.name, t.domain),
           g, batch)

Entered(d, batch) == FoldLeft(LAMBDA e, t : Put(e, t.name, Entry(t, NoLabel)), d, batch)

(* add_tools: every tool, then their domains, then the relations within    *)
(* the batch.                                                              *)
AddTools(batch, detect) ==
  LET names == {batch[i].name : i \in DOMAIN batch}
      domains == AddDomains(AddNodes(graph, batch), batch)
  IN  /\ Call
      /\ tools' = Entered(tools, batch)
      /\ graph' = IF detect /\ Len(batch) >= 2
                  THEN AddRelations(domains, Detected(names)) ELSE domains
      /\ Invalidate
      /\ Same(<<settings, file>>)

(* _resolve_conflict: the name to register a schema under.                 *)
Resolved(known, schema, policy, label) ==
  IF schema.name \in known /\ policy = "prefix"
  THEN [schema EXCEPT !.name = Prefixed[<<label, schema.name>>]]
  ELSE schema

(* _register_tools_batch, the part of ingest_openapi, ingest_mcp_tools and *)
(* ingest_functions that changes the graph.  A step of the loop registers  *)
(* one tool, or stops the batch at the first collision of policy "error".  *)
RegisterOne(policy, label, s, schema) ==
  LET taken == schema.name \in DOMAIN s.tools
      t == Resolved(DOMAIN s.tools, schema, policy, label)
      g == AddNode(s.graph, t.name, Enum("tool"))
  IN  IF s.failed \/ (taken /\ policy = "skip") THEN s
      ELSE IF taken /\ policy = "error" THEN [s EXCEPT !.failed = TRUE]
      ELSE [s EXCEPT
              !.tools = Put(@, t.name, Entry(t, label)),
              !.graph = IF t.domain = NoDomain THEN g
                        ELSE AssignCategory(g, t.name, t.domain),
              !.names = @ \cup {t.name}]

Registered(batch, policy, label) ==
  FoldLeft(LAMBDA s, schema : RegisterOne(policy, label, s, schema),
           [tools |-> tools, graph |-> graph, names |-> {}, failed |-> FALSE], batch)

(* Dependencies are looked for in the new tools, or, with relink_existing, *)
(* in all of them, unless these are the first.                             *)
Scope(s, relink) ==
  IF tools # Nothing /\ relink /\ Cardinality(DOMAIN s.tools) >= 2
  THEN DOMAIN s.tools ELSE s.names

RegisterBatch(batch, policy, label, detect, relink) ==
  LET s == Registered(batch, policy, label)
      scope == Scope(s, relink)
  IN  /\ Call
      /\ tools' = s.tools
      /\ graph' = IF ~s.failed /\ detect /\ s.names # {} /\ Cardinality(scope) >= 2
                  THEN AddRelations(s.graph, Detected(scope)) ELSE s.graph
      /\ IF s.failed THEN /\ halfway' = (halfway \/ s.names # {})
                          /\ Same(<<engine, worker>>)
         ELSE Invalidate
      /\ Same(<<settings, file>>)

(* ingest_arazzo: an edge that exists keeps its relation and gains the     *)
(* workflow as evidence.                                                   *)
Ordered(g, pairs) ==
  FoldLeft(LAMBDA h, p : AddEdge(h, p[1], p[2],
                                 IF HasEdge(h, p[1], p[2])
                                 THEN [h.out[p[1]][p[2]] EXCEPT !.value.arazzo = TRUE]
                                 ELSE Enum([rel |-> "precedes", arazzo |-> TRUE])),
           g, SetToSeq(pairs))

IngestArazzo(pairs) ==
  LET known == {p \in pairs : {p[1], p[2]} \subseteq DOMAIN tools}
  IN  /\ Call
      /\ graph' = Ordered(graph, known)
      /\ Invalidate
      /\ Same(<<tools, settings, file>>)

(* Ontology.  Domains and categories leave the engine as it is.            *)
AddRelation(r) ==
  /\ Call
  /\ graph' = AddRelations(graph, {r})
  /\ Invalidate
  /\ Same(<<tools, settings, file>>)

AddDomain(n) ==
  /\ Call
  /\ graph' = AddNode(graph, n, Enum("domain"))
  /\ Same(<<tools, engine, worker, halfway, settings, file>>)

AddCategoryTo(c, d) ==
  /\ Call
  /\ graph' = AddCategoryIn(graph, c, d)
  /\ Same(<<tools, engine, worker, halfway, settings, file>>)

Assign(t, c) ==
  /\ Call
  /\ graph' = AssignCategory(graph, t, c)
  /\ Invalidate
  /\ Same(<<tools, settings, file>>)

(* auto_organize (ontology/auto.py): by tags, by domain, by clusters of at *)
(* least three tools (none without an embedding model), then with what the *)
(* LLM answers; names that are no tools are ignored.  Of the engine only   *)
(* an embedding index is made again.                                       *)
Organized(clusters, answer) ==
  LET schemas == {tools[n].schema : n \in DOMAIN tools}
      tagged == UNION {{<<t.name, Lower[c]>> : c \in t.tags} : t \in schemas}
      placed == {<<t.name, Lower[t.domain]>> : t \in {u \in schemas : u.domain # NoDomain}}
      clustered == {p \in clusters : p[1] \in DOMAIN tools}
      base == AssignAll(AssignAll(AssignAll(graph, tagged), placed), clustered)
      related == {r \in answer.relations : /\ {r.source, r.target} \subseteq DOMAIN tools
                                           /\ r.source # r.target}
      sorted == {<<p[1], Lower[p[2]]>> : p \in {q \in answer.categories : q[1] \in DOMAIN tools}}
  IN  IF answer = NoLlm THEN base ELSE AssignAll(AddRelations(base, related), sorted)

(* The engine auto_organize leaves behind: the index is remade from the    *)
(* tools as they are, the other settings are gone.                         *)
Reattached ==
  IF engine # NoEngine /\ engine.embedding # NoIndex
  THEN [Fresh(tokenizer) EXCEPT !.embedding = tools]
  ELSE NoEngine

AutoOrganize(clusters, answer) ==
  /\ Call
  /\ clusters # {} => Cardinality(DOMAIN tools) >= 3
  /\ graph' = Organized(clusters, answer)
  /\ engine' = Reattached
  /\ worker' = Keeping(worker)
  /\ halfway' = FALSE
  /\ Same(<<tools, settings, file>>)
----------------------------------------------------------------------------
(* Mutant of MergeOne: a pair is passed over when both tools are gone.     *)
MergeOneStale(known, strategy, m, p) ==
  LET keepFirst == IF strategy = "keep_best" /\ {p[1], p[2]} \subseteq DOMAIN known
                   THEN Quality[known[p[1]].schema] >= Quality[known[p[2]].schema]
                   ELSE <<p[2], p[1]>> \notin Before
  IN  IF \/ p[1] \in DOMAIN m \/ p[2] \in DOMAIN m
         \/ p[1] \notin DOMAIN known /\ p[2] \notin DOMAIN known
      THEN m
      ELSE IF keepFirst THEN Put(m, p[2], p[1]) ELSE Put(m, p[1], p[2])

(* analyze/similarity.py merge_duplicates: removed name -> kept name.  A   *)
(* pair of which one was removed already is passed over.                   *)
MergeOne(known, strategy, m, p) ==
  LET keepFirst == IF strategy = "keep_best"
                   THEN Quality[known[p[1]].schema] >= Quality[known[p[2]].schema]
                   ELSE <<p[2], p[1]>> \notin Before
  IN  IF \/ p[1] \in DOMAIN m \/ p[2] \in DOMAIN m
         \/ p[1] \notin DOMAIN known \/ p[2] \notin DOMAIN known
      THEN m
      ELSE IF keepFirst THEN Put(m, p[2], p[1]) ELSE Put(m, p[1], p[2])

Merged(known, pairs, strategy) ==
  FoldLeft(LAMBDA m, p : MergeOne(known, strategy, m, p), Nothing, pairs)

MergeDuplicates(pairs, strategy) ==
  LET merged == Merged(tools, pairs, strategy)
      aliases == {[source |-> n, target |-> merged[n], rel |-> "similar_to"] :
                    n \in DOMAIN merged}
  IN  /\ Call
      /\ IF strategy = "create_alias"
         THEN /\ graph' = AddRelations(graph, aliases)
              /\ Same(tools)
         ELSE /\ tools' = [n \in DOMAIN tools \ DOMAIN merged |-> tools[n]]
              /\ graph' = RemoveAll(graph, DOMAIN merged)
      /\ IF merged = Nothing THEN Same(<<engine, worker, halfway>>) ELSE Invalidate
      /\ Same(<<settings, file>>)

(* remove_source: the tools of a label and their nodes.                    *)
Victims(label) == {n \in DOMAIN tools : tools[n].label = label}

RemoveSource(label) ==
  LET victims == Victims(label)
  IN  /\ Call
      /\ tools' = [n \in DOMAIN tools \ victims |-> tools[n]]
      /\ graph' = RemoveAll(graph, victims)
      /\ IF victims = {} THEN Same(<<engine, worker, halfway>>) ELSE Invalidate
      /\ Same(<<settings, file>>)

(* relink: whatever relation was on a detected pair is written over.       *)
Relink ==
  LET found == IF Cardinality(DOMAIN tools) < 2 THEN {} ELSE Detected(DOMAIN tools)
  IN  /\ Call
      /\ graph' = AddRelations(graph, found)
      /\ IF found = {} THEN Same(<<engine, worker, halfway>>) ELSE Invalidate
      /\ Same(<<tools, settings, file>>)

(* apply_conflicts and apply_commerce_preset add a relation only where     *)
(* there is no edge yet, of either direction or of their own.              *)
AddNew(g, rs, bothWays) ==
  FoldLeft(LAMBDA h, r : IF \/ HasEdge(h, r.source, r.target)
                            \/ bothWays /\ HasEdge(h, r.target, r.source)
                         THEN h
                         ELSE AddEdge(h, r.source, r.target, Relation(r.rel)),
           g, SetToSeq(rs))

Apply(rs, bothWays) ==
  LET known == {r \in rs : {r.source, r.target} \subseteq DOMAIN tools}
      g == AddNew(graph, known, bothWays)
  IN  /\ Call
      /\ graph' = g
      /\ IF g = graph THEN Same(<<engine, worker, halfway>>) ELSE Invalidate
      /\ Same(<<tools, settings, file>>)

ApplyConflicts == Apply(Conflicting, TRUE)
ApplyPreset    == Apply(Staged, FALSE)
----------------------------------------------------------------------------
(* Settings of the engine, which is built for them if need be.             *)
EnableEmbedding == /\ engine' = [GetEngine EXCEPT !.embedding = tools]
                   /\ Same(<<adaptive, tokenizer>>)

EnableDiversity == /\ engine' = [GetEngine EXCEPT !.diversity = TRUE]
                   /\ Same(<<adaptive, tokenizer>>)

EnableReranker == /\ engine' = [GetEngine EXCEPT !.reranker = TRUE]
                  /\ Same(<<adaptive, tokenizer>>)

SetWeights == /\ engine' = [GetEngine EXCEPT !.manual = TRUE]
              /\ Same(<<adaptive, tokenizer>>)

TuneForScale == /\ engine' = [GetEngine EXCEPT !.prefilter = TRUE, !.diversity = TRUE]
                /\ adaptive' = TRUE
                /\ Same(tokenizer)

(* Kept on the graph, so that it survives the engine; the index is rebuilt.*)
SetTokenizer ==
  /\ tokenizer' = TRUE
  /\ engine' = IF engine = NoEngine THEN engine
               ELSE [engine EXCEPT !.tokenizer = TRUE, !.index = NoIndex]
  /\ Same(adaptive)

Configure ==
  /\ Call
  /\ \/ EnableEmbedding \/ EnableDiversity \/ EnableReranker
     \/ SetWeights \/ TuneForScale \/ SetTokenizer
  /\ Same(<<graph, tools, file, worker, halfway>>)

(* The engine's keyword index, built from the tools with its tokenizer     *)
(* when there is none; late is a history of WorkerIndexes.                 *)
Built(e) == [of |-> tools, tokenizer |-> e.tokenizer, late |-> FALSE]

Indexed(e) == IF e.index = NoIndex THEN [e EXCEPT !.index = Built(e)] ELSE e

(* A query of the calling thread.                                          *)

Retrieve == /\ engine' = Indexed(GetEngine)
            /\ Same(<<graph, tools, settings, file, worker, halfway, ops>>)

(* A query of the worker thread.  _get_retrieval_engine looks for an       *)
(* engine, makes one, gives it the tokenizer, and returns what is there    *)
(* then; the other thread may run between any two of these.                *)
WorkerLooks ==
  /\ worker.at = "idle"
  /\ worker' = [worker EXCEPT !.at = IF engine = NoEngine THEN "creating" ELSE "taking"]
  /\ Same(<<graph, tools, engine, settings, file, halfway, ops>>)

WorkerCreates ==
  /\ worker.at = "creating"
  /\ engine' = Fresh(FALSE)
  /\ worker' = [worker EXCEPT !.at = "setting"]
  /\ Same(<<graph, tools, settings, file, halfway, ops>>)

(* The tokenizer goes to the engine that is there by now, if there is one. *)
WorkerSets ==
  /\ worker.at = "setting"
  /\ worker' = [worker EXCEPT !.at = IF tokenizer /\ engine = NoEngine
                                     THEN "failed" ELSE "taking"]
  /\ engine' = IF tokenizer /\ engine # NoEngine
               THEN [engine EXCEPT !.tokenizer = TRUE, !.index = NoIndex] ELSE engine
  /\ Same(<<graph, tools, settings, file, halfway, ops>>)

WorkerTakes ==
  /\ worker.at = "taking"
  /\ worker' = [worker EXCEPT !.at = IF engine = NoEngine THEN "failed" ELSE "searching"]
  /\ Same(<<graph, tools, engine, settings, file, halfway, ops>>)

(* The search, in the engine that was taken: with the index it has, or one *)
(* that is built now and assigned to it afterwards.  What becomes of an    *)
(* engine that was dropped no longer matters.                              *)
WorkerSearches ==
  /\ worker.at = "searching"
  /\ worker' = IF worker.own \/ engine.index # NoIndex THEN Idle
               ELSE [worker EXCEPT !.at = "indexing", !.built = Built(engine)]
  /\ Same(<<graph, tools, engine, settings, file, halfway, ops>>)

WorkerIndexes ==
  /\ worker.at = "indexing"
  /\ engine' = IF worker.own THEN engine
               ELSE [engine EXCEPT !.index =
                       [of |-> worker.built.of, tokenizer |-> worker.built.tokenizer,
                        late |-> worker.built.tokenizer # engine.tokenizer]]
  /\ worker' = Idle
  /\ Same(<<graph, tools, settings, file, halfway, ops>>)

(* The engine was dropped before it could be taken: an AttributeError.     *)
WorkerFails ==
  /\ worker.at = "failed"
  /\ worker' = Idle
  /\ Same(<<graph, tools, engine, settings, file, halfway, ops>>)
----------------------------------------------------------------------------
(* save: the engine's settings only while there is an engine.              *)
Save ==
  /\ Call
  /\ file' = [graph |-> graph, tools |-> tools,
              state |-> IF engine = NoEngine THEN NoEngine
                        ELSE [embedding |-> engine.embedding, diversity |-> engine.diversity],
              halfway |-> halfway]
  /\ Same(<<graph, tools, engine, settings, worker, halfway>>)

(* What JSON makes of a graph: every attribute is the string it was.       *)
InText(g) ==
  LET texts(d) == [x \in DOMAIN d |-> [y \in DOMAIN d[x] |-> Text(d[x][y])]]
  IN  [nodes |-> [n \in DOMAIN g.nodes |-> Text(g.nodes[n])],
       out   |-> texts(g.out),
       inn   |-> texts(g.inn)]

Reloaded(g) == InText(Copied(g))

(* load makes a new ToolGraph; queries of the old one are over.            *)
Load ==
  /\ file # NoFile /\ worker = Idle
  /\ Call
  /\ graph' = Reloaded(file.graph)
  /\ tools' = file.tools
  /\ engine' = IF file.state = NoEngine THEN NoEngine
               ELSE [Fresh(FALSE) EXCEPT !.embedding = file.state.embedding,
                                         !.diversity = file.state.diversity,
                                         !.manual = TRUE]
  /\ tokenizer' = FALSE /\ adaptive' = FALSE /\ halfway' = file.halfway
  /\ Same(<<file, worker>>)

Policies == {"overwrite", "prefix", "skip", "error"}
Strategies == {"keep_first", "keep_best", "create_alias"}

Next ==
  \/ \E schema \in Schemas : AddTool(schema)
  \/ \E batch \in Batches, detect \in BOOLEAN : AddTools(batch, detect)
  \/ \E batch \in Batches, policy \in Policies, label \in Labels \cup {NoLabel} :
       \E detect, relink \in BOOLEAN : RegisterBatch(batch, policy, label, detect, relink)
  \/ \E pairs \in Workflows : IngestArazzo(pairs)
  \/ \E r \in Declared : AddRelation(r)
  \/ \E n \in Names : AddDomain(n) \/ AddCategoryTo(n, NoDomain)
  \/ \E c, d \in Range(Lower) : AddCategoryTo(c, d)
  \/ \E t \in DOMAIN tools, c \in Range(Lower) : Assign(t, c)
  \/ \E clusters \in Clusterings \cup {{}}, answer \in LlmAnswers \cup {NoLlm} :
       AutoOrganize(clusters, answer)
  \/ \E pairs \in PairLists, strategy \in Strategies : MergeDuplicates(pairs, strategy)
  \/ \E label \in Labels : RemoveSource(label)
  \/ Relink \/ ApplyConflicts \/ ApplyPreset \/ Configure \/ Retrieve
  \/ WorkerLooks \/ WorkerCreates \/ WorkerSets \/ WorkerTakes
  \/ WorkerSearches \/ WorkerIndexes \/ WorkerFails
  \/ Save \/ Load

Spec == Init /\ [][Next]_vars
----------------------------------------------------------------------------
TypeOK ==
  /\ NodesOf(graph) \subseteq Names /\ DOMAIN tools \subseteq Names
  /\ \A n \in NodesOf(graph) :
       graph.nodes[n] \in {NoType} \cup
         [value : {"tool", "category", "domain"}, member : BOOLEAN]
  /\ \A n \in DOMAIN tools : tools[n].schema.name = n
  /\ worker.at \in {"idle", "creating", "setting", "taking", "searching", "indexing", "failed"}

(* Whatever is registered, merged, removed or loaded, the graph's own      *)
(* dictionaries agree: no call ends in a KeyError, and no edge leads to a  *)
(* tool that was removed.                                                  *)
GraphAgrees == Consistent(graph)

(* The tools and the graph tell the same story: every tool is a node, and  *)
(* what the graph search may return as a tool is one that is registered.   *)
ToolNodes(g) == {n \in NodesOf(g) : g.nodes[n] # NoType /\ g.nodes[n].value = "tool"}

ToolsAreNodes == DOMAIN tools \subseteq NodesOf(graph) /\ ToolNodes(graph) \subseteq DOMAIN tools

(* The graph, in itself and beside the tools, holds together.              *)
GraphMatchesTools == GraphAgrees /\ ToolsAreNodes

(* A query is answered from the tools as they are: neither the keyword     *)
(* index nor the embeddings of the engine in use are of earlier ones.      *)
(* Only a batch that fails after it registered a tool leaves them behind.  *)
IndexIsCurrent ==
  engine # NoEngine /\ ~halfway =>
    /\ engine.index # NoIndex => engine.index.of = tools
    /\ engine.embedding \in {NoIndex, tools}

(* A tokenizer, once set, is that of every engine and of its index,        *)
(* however often the engine is dropped and made again.  Two moments of the *)
(* worker thread are excepted: its new engine is in use before it has the  *)
(* tokenizer, and an index it was building may be assigned after another   *)
(* tokenizer was set.                                                      *)
TokenizerSurvives ==
  engine # NoEngine /\ worker.at # "setting" =>
    /\ engine.tokenizer = tokenizer
    /\ engine.index # NoIndex => engine.index.late \/ engine.index.tokenizer = tokenizer

(* The engine that answers, however often it was dropped and made again,   *)
(* knows the tools and the tokenizer there are, but for the three          *)
(* exceptions named (_invalidate_retrieval, _get_retrieval_engine,         *)
(* set_tokenizer).                                                         *)
EngineIsCurrent == IndexIsCurrent /\ TokenizerSurvives

(* Without the exceptions: what a batch that failed leaves, the engine     *)
(* before its tokenizer, the index that comes late.                        *)
IndexAlwaysCurrent ==
  engine # NoEngine /\ engine.index # NoIndex => engine.index.of = tools

EngineAlwaysTokenizes == engine # NoEngine => engine.tokenizer = tokenizer

IndexAlwaysTokenizes ==
  engine # NoEngine /\ engine.index # NoIndex => engine.index.tokenizer = engine.tokenizer

(* Where i kept names in a row lead from each removed tool.                *)
Kept(m) ==
  LET K[i \in 0 .. Cardinality(DOMAIN m)] ==
        [n \in DOMAIN m |-> IF i = 0 THEN n
                            ELSE IF K[i - 1][n] \in DOMAIN m THEN m[K[i - 1][n]]
                            ELSE K[i - 1][n]]
  IN  K

(* However the pairs of duplicates overlap, and although tools may be gone *)
(* since they were found, merging never removes the last of them: from     *)
(* each removed tool the kept names lead to a tool that stays.             *)
MergeKeepsOne ==
  \A pairs \in PairLists, strategy \in Strategies :
    LET m == Merged(tools, pairs, strategy)
    IN  \A n \in DOMAIN m :
          Kept(m)[Cardinality(DOMAIN m)][n] \in DOMAIN tools \ DOMAIN m

(* A saved graph comes back: every node with its type and every relation,  *)
(* as strings that equal what was saved, every tool, and an embedding      *)
(* index of just these tools, but for what a batch that failed halfway     *)
(* left in the file.                                                       *)
LoadRestores ==
  [][Load => /\ InText(graph') = InText(file.graph)
             /\ tools' = file.tools
             /\ engine' = NoEngine \/ file.halfway \/ engine'.embedding \in {NoIndex, tools'}]_vars

(* The enum members themselves, which str() tells from the strings         *)
(* (workflow.py, graph_search.py), do not come back.                       *)
LoadRestoresMembers == [][Load => graph' = file.graph]_vars

(* relink finds relations again; those that are there stay what they are.  *)
RelinkKeepsRelations ==
  [][Relink => \A e \in EdgesOf(graph) :
       graph'.out[e[1]][e[2]].value.rel = graph.out[e[1]][e[2]].value.rel]_vars

(* The thread of aretrieve gets an engine, whatever the thread of the      *)
(* event loop does to the graph meanwhile.                                 *)
EngineIsTaken == worker.at # "failed"
=============================================================================
