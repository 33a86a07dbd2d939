----------------------------- MODULE SpecIngest -----------------------------
(***************************************************************************)
(* ingest_openapi (ingest/openapi.py): a specification is normalized       *)
(* (ingest/normalizer.py), its path items are resolved one by one through  *)
(* one reference cache, every live operation becomes a tool with a name of *)
(* its own, and the tools are put into domains.  The caches, the names in  *)
(* use and the tools are what one operation leaves to the next.            *)
(***************************************************************************)
EXTENDS SpecSchemas

-----------------------------------------------------------------------------
(* The contract a tool carries for planning and execution: what it         *)
(* consumes and produces, the credentials among what it consumes, the      *)
(* links of its responses, its server, and the tool itself                 *)
(* (_operation_to_tool).                                                   *)

CONSTANTS
  SuccessCodes,   \* the numeric success codes, ascending
  ErrorCodes,     \* the other numeric codes, ascending
  SuffixSlug      \* the slug _operation_name_suffix makes of a path

Undeclared == [content |-> <<>>, headers |-> <<>>, links |-> <<>>]

Preferred == SuccessCodes \o <<"2XX", "default">>

AllCodes == SuccessCodes \o ErrorCodes \o <<"2XX", "default">>

Declared(responses, codes) == SelectSeq(codes, LAMBDA c : c \in DOMAIN responses)

(* _pick_response_schema_with_status_and_type: the first that has a schema. *)
Usable(responses) ==
  SelectSeq(Declared(responses, Preferred),
            LAMBDA c : PickContent(responses[c].content).schema # Empty)

PickedOf(status, picked) == [status |-> status, type |-> picked.type, schema |-> picked.schema]

FirstUsable(codes, responses) ==
  IF codes = <<>> THEN PickedOf(NoType, NoContent)
  ELSE PickedOf(codes[1], PickContent(responses[codes[1]].content))

PickResponse(responses) == FirstUsable(Usable(responses), responses)

(* _openapi_response_rows: every declared response in the order of its code *)
ResponseRow(code, response) ==
  [status |-> code, success |-> code \in Range(SuccessCodes) \cup {"2XX"},
   type |-> PickContent(response.content).type, links |-> response.links]

RowsOfCodes(codes, responses) ==
  [i \in DOMAIN codes |-> ResponseRow(codes[i], responses[codes[i]])]

ResponseRows(responses) == RowsOfCodes(Declared(responses, AllCodes), responses)

(* _response_body_root_row: a scalar or a map answers as a whole.           *)
ResponseRoot(s) ==
  LET map == s.type = "object" /\ Kids(s, "map") # <<>>
  IN  IF s = Empty \/ (TypeOf(s) \in {"object", "array"} /\ ~map) THEN <<>>
      ELSE <<[Row("body", <<>>, TypeOf(s), FALSE) EXCEPT !.root = TRUE]>>

Headers(responses, status) ==
  IF status = NoType THEN <<>> ELSE responses[status].headers

(* The produces of the contract: the picked response and its headers.       *)
OrResponseRoot(fields, s) == IF fields = <<>> THEN ResponseRoot(s) ELSE fields

ProduceRows(rows, headers) ==
  [i \in DOMAIN rows |-> [name |-> rows[i].name, path |-> rows[i].path]]
  \o [i \in DOMAIN headers |-> [name |-> headers[i], path |-> <<"headers", headers[i]>>]]

(* response_example_rows: what the examples of the picked response show,    *)
(* under whichever media type.                                             *)
ExamplesOf(responses, status) ==
  IF status = NoType THEN <<>>
  ELSE FlattenSeq([i \in DOMAIN responses[status].content |->
                     ExampleFields(responses[status].content[i].examples)])

ProducedFields(picked, responses, cache) ==
  MergeFields(FieldRows(picked.schema, "response", cache) \o ExamplesOf(responses, picked.status))

ProducesOf(picked, responses, cache) ==
  ProduceRows(OrResponseRoot(ProducedFields(picked, responses, cache), picked.schema),
              Headers(responses, picked.status))

Produces(responses, cache) == ProducesOf(PickResponse(responses), responses, cache)

Consume(name, location, required, path) ==
  [name |-> name, location |-> location, required |-> required, path |-> path, kind |-> "data",
   secure |-> FALSE, schemes |-> {}, asked |-> FALSE]

Identity(row) == <<row.name, row.location>>

(* _api_contract_rows: the first row of a name and a location is kept.      *)
DataConsumes(parameterRows, fields) ==
  FoldLeft(LAMBDA acc, row :
             IF \E i \in DOMAIN acc : Identity(acc[i]) = Identity(row) THEN acc
             ELSE Append(acc, row),
           <<>>,
           [i \in DOMAIN parameterRows |->
              Consume(parameterRows[i].name, parameterRows[i].in, parameterRows[i].required,
                      parameterRows[i].path)]
           \o [i \in DOMAIN fields |->
                 Consume(fields[i].name, "body", fields[i].required, fields[i].path)])

(* _security_scheme_contract_row: where the credential of a scheme goes.    *)
CredentialPlace(name, scheme) ==
  IF scheme.type = "apiKey"
  THEN <<IF scheme.name = NoName THEN name ELSE scheme.name,
         IF scheme.in \in {"query", "header", "cookie"} THEN scheme.in ELSE "auth">>
  ELSE IF scheme.type \in {"http", "basic", "oauth2", "openIdConnect"}
  THEN <<"Authorization", "header">>
  ELSE <<IF scheme.name = NoName THEN name ELSE scheme.name, "auth">>

Anonymous(requirements) == <<>> \in Range(requirements)

Credential(name, scheme, secure) ==
  [Consume(CredentialPlace(name, scheme)[1], CredentialPlace(name, scheme)[2], FALSE, <<>>)
   EXCEPT !.kind = "auth", !.secure = secure, !.schemes = {name}]

MergedCredential(old, new) ==
  [old EXCEPT !.secure = @ \/ new.secure, !.schemes = @ \cup new.schemes]

(* _api_contract_security_rows: a row per place; a scheme nobody declared   *)
(* is passed over.                                                         *)
WithCredential(acc, row) ==
  IF \E i \in DOMAIN acc : Identity(acc[i]) = Identity(row)
  THEN [i \in DOMAIN acc |-> IF Identity(acc[i]) = Identity(row)
                             THEN MergedCredential(acc[i], row) ELSE acc[i]]
  ELSE Append(acc, row)

SecurityRows(requirements, schemes) ==
  FoldLeft(LAMBDA acc, name :
             WithCredential(acc, Credential(name, schemes[name], ~Anonymous(requirements))),
           <<>>, SelectSeq(FlattenSeq(requirements), LAMBDA n : n \in DOMAIN schemes))

(* A data row at the place of a credential becomes the credential.          *)
Claimed(row, credential) ==
  MergedCredential([row EXCEPT !.asked = row.required, !.required = FALSE, !.kind = "auth"],
                   credential)

(* _merge_security_consumes                                                 *)
WithCredentials(consumes, credentials) ==
  FoldLeft(LAMBDA acc, c :
             IF \E i \in DOMAIN acc : Identity(acc[i]) = Identity(c)
             THEN [i \in DOMAIN acc |->
                     IF Identity(acc[i]) = Identity(c) THEN Claimed(acc[i], c) ELSE acc[i]]
             ELSE Append(acc, c),
           consumes, credentials)

Inherited == <<<<"(inherited)">>>>

(* _security_metadata: an operation that says nothing has the document's.   *)
Requirements(op, spec) == IF op.security = Inherited THEN spec.security ELSE op.security

Consumes(op, spec, rows, fields) ==
  WithCredentials(DataConsumes(rows, fields), SecurityRows(Requirements(op, spec), spec.schemes))

FirstServer(rows) == IF rows = <<>> THEN <<>> ELSE <<rows[1]>>

(* _server_metadata: the operation's servers, the path's, the document's;   *)
(* a variable without a default stays unresolved.                          *)
ServerRow(server, source) ==
  [source |-> source, url |-> server.url,
   unresolved |-> {v \in DOMAIN server.variables : server.variables[v] = NoName}]

ServerRows(servers, source) == [i \in DOMAIN servers |-> ServerRow(servers[i], source)]

Server(op, item, spec) ==
  FirstServer(ServerRows(op.servers, "operation") \o ServerRows(item.servers, "path")
              \o ServerRows(spec.servers, "spec"))

(* _api_contract_link_rows                                                  *)
Links(rows, id) ==
  FlattenSeq([i \in DOMAIN rows |->
    [j \in DOMAIN rows[i].links |->
       [link |-> rows[i].links[j], source |-> id, success |-> rows[i].success]]])

Locations == {"path", "query", "header", "cookie", "body"}

(* _input_locations                                                         *)
InputLocations(parameterRows, slots, fields) ==
  [l \in Locations |->
     {parameterRows[i].name : i \in {j \in DOMAIN parameterRows : parameterRows[j].in = l}}
     \cup IF l = "body" THEN {r.name : r \in Range(slots \o fields)} ELSE {}]

(* What one operation reads through the field cache: the bodies, then every *)
(* response.                                                               *)
FieldsOf(content, location, cache) ==
  FoldLeft(LAMBDA acc, m : WithFields(acc, m.schema, location), cache, content)

BodiesRead(op, cache) == FieldsOf(op.body.content, "body", cache)

ResponsesRead(op, cache) ==
  FoldLeft(LAMBDA acc, c : FieldsOf(op.responses[c].content, "response", acc), cache,
           Declared(op.responses, AllCodes))

(* Swagger 2.0 declares the body among the parameters.                      *)
SwaggerBody(bodies) ==
  IF bodies = <<>> THEN [content |-> <<>>, required |-> FALSE]
  ELSE [content |-> <<[type |-> "application/json", schema |-> bodies[1].schema,
                       examples |-> <<>>]>>,
        required |-> bodies[1].required]

BodyOf(spec, op, params) ==
  IF spec.swagger2 THEN SwaggerBody(SelectSeq(params, LAMBDA p : p.in = "body")) ELSE op.body

(* _operation_to_tool                                                       *)
ToolOf(name, op, item, spec, parameters, rows, fields, slots, cache) ==
  [name |-> name, id |-> op.id, path |-> item.path, tags |-> op.tags,
   parameters |-> parameters,
   consumes |-> Consumes(op, spec, rows, fields),
   produces |-> Produces(op.responses, cache),
   links |-> Links(ResponseRows(op.responses), op.id),
   locations |-> InputLocations(rows, slots, fields),
   server |-> Server(op, item, spec),
   bodyType |-> PickContent(op.body.content).type,
   response |-> PickResponse(op.responses).status]

ToolWith(name, op, item, spec, requiredOnly, params, content, cache) ==
  ToolOf(name, op, item, spec,
         ParametersOf(spec.swagger2, params, op.body, content, requiredOnly),
         ParameterRows(params), BodyFields(op.body, content, cache), BodySlots(op.body, content),
         cache)

Tool(name, op, item, spec, requiredOnly, params, cache) ==
  ToolWith(name, op, item, spec, requiredOnly, params,
           ContentRows(op.body.content, op.body.required, cache), cache)

-----------------------------------------------------------------------------
(* The ingest of a document.                                               *)

CONSTANTS
  Specs,          \* the specifications given: [swagger2, items, schemas, ...]
  PathSlug,       \* the slug _slugify_path makes of a path
  Segment         \* the first literal segment of a path, or NoName

VARIABLES
  spec,           \* the specification, normalized once stage is past "load"
  requiredOnly, skipDeprecated,   \* the options of the call
  stage,          \* "load", "paths" or "done"
  items,          \* the path items not yet opened
  item,           \* the resolved path item being read, or NoItem
  refCache,       \* ref_cache: component -> resolved schema
  fieldCache,     \* schema_field_cache: <<schema, location>> -> rows
  seen,           \* operation_seen: operation id -> operations that had it
  used,           \* used_tool_names
  tools,          \* the tools made
  domains         \* tool name -> domain

vars == <<spec, requiredOnly, skipDeprecated, stage, items, item, refCache, fieldCache, seen,
          used, tools, domains>>

NoItem == [path |-> NoName, params |-> <<>>, servers |-> <<>>, ops |-> <<>>]

Init ==
  /\ spec \in Specs /\ requiredOnly \in BOOLEAN /\ skipDeprecated \in BOOLEAN
  /\ stage = "load" /\ items = <<>> /\ item = NoItem
  /\ refCache = <<>> /\ fieldCache = <<>> /\ seen = <<>> /\ used = {}
  /\ tools = <<>> /\ domains = <<>>

(* _ensure_operation_ids                                                    *)
WithId(op, path) ==
  [op EXCEPT !.id = IF @ = NoName THEN op.method \o "_" \o PathSlug[path] ELSE @]

WithIds(i) == [i EXCEPT !.ops = [k \in DOMAIN @ |-> WithId(@[k], i.path)]]

Normalize ==
  /\ stage = "load"
  /\ stage' = "paths"
  /\ items' = [k \in DOMAIN spec.items |-> WithIds(spec.items[k])]
  /\ UNCHANGED <<spec, requiredOnly, skipDeprecated, item, refCache, fieldCache, seen, used,
                 tools, domains>>

(* _resolve_refs of a path item, in the order it is written.                *)
WithMedia(acc, m, r) ==
  [it |-> Append(acc.it, [m EXCEPT !.schema = r.schema]), cache |-> r.cache]

ResolvedContent(content, comps, cache) ==
  FoldLeft(LAMBDA acc, m : WithMedia(acc, m, Resolve(m.schema, comps, {}, acc.cache)),
           [it |-> <<>>, cache |-> cache], content)

WithParameter(acc, p, s, c) ==
  [it |-> Append(acc.it, [p EXCEPT !.schema = s, !.content = c.it]), cache |-> c.cache]

ParameterWith(acc, p, s, comps) ==
  WithParameter(acc, p, s.schema, ResolvedContent(p.content, comps, s.cache))

ResolvedParameters(params, comps, cache) ==
  FoldLeft(LAMBDA acc, p : ParameterWith(acc, p, Resolve(p.schema, comps, {}, acc.cache), comps),
           [it |-> <<>>, cache |-> cache], params)

WithResponse(acc, code, c) ==
  [it |-> [acc.it EXCEPT ![code].content = c.it], cache |-> c.cache]

ResolvedResponses(responses, comps, cache) ==
  FoldLeft(LAMBDA acc, code :
             WithResponse(acc, code, ResolvedContent(acc.it[code].content, comps, acc.cache)),
           [it |-> responses, cache |-> cache], Declared(responses, AllCodes))

OperationWith(op, params, body, r) ==
  [it |-> [op EXCEPT !.params = params, !.body.content = body, !.responses = r.it],
   cache |-> r.cache]

BodyThenResponses(op, params, b, comps) ==
  OperationWith(op, params, b.it, ResolvedResponses(op.responses, comps, b.cache))

ParametersThenBody(op, p, comps) ==
  BodyThenResponses(op, p.it, ResolvedContent(op.body.content, comps, p.cache), comps)

ResolvedOperation(op, comps, cache) ==
  ParametersThenBody(op, ResolvedParameters(op.params, comps, cache), comps)

WithOperation(acc, r) ==
  [it |-> [acc.it EXCEPT !.ops = Append(@, r.it)], cache |-> r.cache]

OperationsAfter(i, shared, comps) ==
  FoldLeft(LAMBDA acc, op : WithOperation(acc, ResolvedOperation(op, comps, acc.cache)),
           [it |-> [i EXCEPT !.params = shared.it, !.ops = <<>>], cache |-> shared.cache], i.ops)

ResolvedItem(i, comps, cache) ==
  OperationsAfter(i, ResolvedParameters(i.params, comps, cache), comps)

Opened(r) ==
  /\ item' = r.it
  /\ refCache' = r.cache

OpenPath ==
  /\ stage = "paths" /\ item.ops = <<>> /\ items # <<>>
  /\ Opened(ResolvedItem(items[1], spec.schemas, refCache))
  /\ items' = Tail(items)
  /\ UNCHANGED <<spec, requiredOnly, skipDeprecated, stage, fieldCache, seen, used, tools, domains>>

Skipped(op) == skipDeprecated /\ op.deprecated

SkipOperation ==
  /\ item.ops # <<>> /\ Skipped(item.ops[1])
  /\ item' = [item EXCEPT !.ops = Tail(@)]
  /\ UNCHANGED <<spec, requiredOnly, skipDeprecated, stage, items, refCache, fieldCache, seen,
                 used, tools, domains>>

SeenBefore(id) == IF id \in DOMAIN seen THEN seen[id] ELSE 0

(* Bound: no more than Len(tools) + 2 numbers are tried.                    *)
FreeNumber(base, index) ==
  LET Free(n) == base \o "_" \o ToString(n) \notin used
  IN  CHOOSE n \in index + 2 .. index + 2 + Cardinality(used) :
        Free(n) /\ \A m \in index + 2 .. n - 1 : ~Free(m)

(* Mutant of UniqueName: the name made for a repeated id is not looked up.  *)
UniqueNameOnce(id, method, path, index) ==
  IF id \notin used THEN id ELSE id \o "__" \o method \o SuffixSlug[path]

(* _unique_operation_name                                                   *)
UniqueName(id, method, path, index) ==
  LET base == id \o "__" \o method \o SuffixSlug[path] IN
  IF id \notin used THEN id
  ELSE IF base \notin used THEN base
  ELSE base \o "_" \o ToString(FreeNumber(base, index))

(* One operation becomes a tool; the rows it reads stay in the cache.       *)
AddTool(name, op, params, cache) ==
  /\ tools' = Append(tools, Tool(name, op, item, spec, requiredOnly, params, cache))
  /\ fieldCache' = ResponsesRead(op, cache)
  /\ used' = used \cup {name}

AddRead(name, op, params) == AddTool(name, op, params, BodiesRead(op, fieldCache))

WithBody(op, params) == [op EXCEPT !.body = BodyOf(spec, op, params)]

AddMerged(name, op, params) == AddRead(name, WithBody(op, params), params)

Ingested(op, name) == AddMerged(name, op, MergedParameters(item.params, op.params))

Counted(op) == (op.id :> SeenBefore(op.id) + 1) @@ seen

IngestOperation ==
  /\ item.ops # <<>> /\ ~Skipped(item.ops[1])
  /\ Ingested(item.ops[1], UniqueName(item.ops[1].id, item.ops[1].method, item.path,
                                      SeenBefore(item.ops[1].id)))
  /\ seen' = Counted(item.ops[1])
  /\ item' = [item EXCEPT !.ops = Tail(@)]
  /\ UNCHANGED <<spec, requiredOnly, skipDeprecated, stage, items, refCache, domains>>

(* _auto_categorize: the first tag, else the first literal path segment,    *)
(* which of the root path is the empty one.                                *)
Domain(tool) ==
  IF tool.tags # <<>> THEN tool.tags[1]
  ELSE IF tool.path = "/" THEN ""
  ELSE IF Segment[tool.path] # NoName THEN Segment[tool.path] ELSE "general"

ToolNamed(n) == CHOOSE t \in Range(tools) : t.name = n

Categorize ==
  /\ stage = "paths" /\ items = <<>> /\ item.ops = <<>>
  /\ stage' = "done"
  /\ domains' = [n \in used |-> Domain(ToolNamed(n))]
  /\ item' = NoItem
  /\ UNCHANGED <<spec, requiredOnly, skipDeprecated, items, refCache, fieldCache, seen, used, tools>>

Next == Normalize \/ OpenPath \/ SkipOperation \/ IngestOperation \/ Categorize

Spec == Init /\ [][Next]_vars

-----------------------------------------------------------------------------
Done == stage = "done"

LiveOps(i) == SelectSeq(WithIds(i).ops, LAMBDA op : ~Skipped(op))

(* The operations a call turns into tools, with their path items.           *)
Live ==
  FlattenSeq([k \in DOMAIN spec.items |->
    LET ops == LiveOps(spec.items[k])
    IN  [j \in DOMAIN ops |-> [item |-> spec.items[k], op |-> ops[j]]]])

(* Every live operation becomes one tool and no two tools share a name,     *)
(* whatever ids the operations repeat, lack or have in common with a name   *)
(* made for another; each tool gets a domain (ingest_openapi,               *)
(* _unique_operation_name).                                                *)
EveryOperationIsATool ==
  Done => /\ [i \in DOMAIN tools |-> <<tools[i].path, tools[i].id>>]
               = [i \in DOMAIN Live |-> <<Live[i].item.path, Live[i].op.id>>]
          /\ \A i, j \in DOMAIN tools : i # j => tools[i].name # tools[j].name
          /\ DOMAIN domains = {t.name : t \in Range(tools)}

(* An operation read as the only one of the document, with empty caches.    *)
AloneWith(live, name, op, params) ==
  Tool(name, WithBody(op, params), live.item, spec, requiredOnly, params, <<>>)

AloneRead(live, name, shared, op) ==
  AloneWith(live, name, op, MergedParameters(shared, op.params))

Alone(live, name) ==
  AloneRead(live, name, ResolvedParameters(live.item.params, spec.schemas, <<>>).it,
            ResolvedOperation(live.op, spec.schemas, <<>>).it)

RECURSIVE References(_)
References(s) ==
  ({s.ref} \ {NoName}) \cup UNION {References(k.schema) : k \in Range(s.kids)}

RECURSIVE ReachedFrom(_, _)
ReachedFrom(refs, n) ==
  IF n = 0 THEN refs
  ELSE ReachedFrom(refs \cup UNION {References(spec.schemas[r]) : r \in refs}, n - 1)

Cyclic(c) == c \in ReachedFrom(References(spec.schemas[c]), Cardinality(DOMAIN spec.schemas))

RequestBodies(live) ==
  IF spec.swagger2
  THEN {p.schema : p \in {q \in Range(live.item.params \o live.op.params) : q.in = "body"}}
  ELSE {m.schema : m \in Range(live.op.body.content)}

ResponseBodies(live) ==
  UNION {{m.schema : m \in Range(live.op.responses[c].content)} : c \in DOMAIN live.op.responses}

WithoutCycles(live) ==
  \A s \in RequestBodies(live) \cup ResponseBodies(live) :
    \A c \in ReachedFrom(References(s), Cardinality(DOMAIN spec.schemas)) : ~Cyclic(c)

(* What a tool accepts and returns is decided by its own operation alone:   *)
(* the caches the operations of a document share never carry anything from  *)
(* one to another.  Only for operations whose schemas reach no cycle (a     *)
(* component of a cycle is cached as it was cut off the first time).        *)
ContractIsLocal ==
  \A i \in DOMAIN tools :
    WithoutCycles(Live[i]) => tools[i] = Alone(Live[i], tools[i].name)

(* The same of every document; the code's cache does not keep it.           *)
ContractIsLocalInCycles ==
  \A i \in DOMAIN tools : tools[i] = Alone(Live[i], tools[i].name)

(* The raw schemas that stand at a path below another, none of them in      *)
(* something that has one of the marks.                                    *)
Follows(k, path) ==
  \/ k.role \in {"allOf", "oneOf"}
  \/ /\ path # <<>>
     /\ \/ k.role = "prop" /\ path[1] = k.name
        \/ k.role = "items" /\ path[1] = "[*]"
        \/ k.role = "map" /\ path[1] = "*"

After(k, path) == IF k.role \in {"allOf", "oneOf"} THEN path ELSE Tail(path)

RECURSIVE StandsAt(_, _, _)
StandsAt(s, path, marks) ==
  IF s.ref \in DOMAIN spec.schemas THEN StandsAt(spec.schemas[s.ref], path, marks)
  ELSE IF s.ref # NoName \/ \E m \in marks : s[m] THEN {}
  ELSE {t \in {s} : path = <<>>}
       \cup UNION {StandsAt(k.schema, After(k, path), marks) :
                     k \in {c \in Range(s.kids) : Follows(c, path)}}

Reached(bodies, path, marks) == UNION {StandsAt(s, path, marks) : s \in bodies}

(* A discriminator no part of its union declares.                          *)
TagsUnion(bodies, path, marks) ==
  /\ path # <<>> /\ Reached(bodies, path, {}) = {}
  /\ \E u \in Reached(bodies, Front(path), marks) : u.disc = Last(path)

ShownBy(examples, path) == \E e \in examples : \E r \in Range(ExampleFields(e)) : r.path = path

RequestExamples(live) ==
  IF spec.swagger2 THEN {} ELSE {m.examples : m \in Range(live.op.body.content)}

ResponseExamples(live) ==
  UNION {{m.examples : m \in Range(live.op.responses[c].content)} : c \in DOMAIN live.op.responses}

(* The rows of the bodies of an operation.                                 *)
Asked(tool) == {r \in Range(tool.consumes) : r.location = "body" /\ r.kind = "data"}

Returned(tool) == {r \in Range(tool.produces) : r.path # <<"headers", r.name>>}

MayBeShown(bodies, examples, path, mark) ==
  \/ Reached(bodies, path, {mark}) # {}
  \/ TagsUnion(bodies, path, {})
  \/ ShownBy(examples, path)

(* What a tool asks of its caller for a body can be written, and what it    *)
(* says it returns can be read: no field that is read-only, or lies in      *)
(* something read-only or in a part of such, is an input, and no write-only *)
(* one an output (extract_leaves, _flatten_top_level_allof,                 *)
(* _schema_field_rows).  Except what an example shows, whose rows are added *)
(* whatever the schema says of them, and a discriminator no branch of its   *)
(* union declares, which is added without the marks of what it lies in.     *)
AskedIsWritable ==
  \A i \in DOMAIN tools : i \in DOMAIN Live =>
    /\ \A row \in Asked(tools[i]) :
         MayBeShown(RequestBodies(Live[i]), RequestExamples(Live[i]), row.path, "readOnly")
    /\ \A row \in Returned(tools[i]) :
         MayBeShown(ResponseBodies(Live[i]), ResponseExamples(Live[i]), row.path, "writeOnly")

Marked(bodies, path, mark) ==
  /\ Reached(bodies, path, {}) # {} \/ TagsUnion(bodies, path, {})
  /\ Reached(bodies, path, {mark}) = {} /\ ~TagsUnion(bodies, path, {mark})

(* The same without the exception for examples; the rows of an example are  *)
(* not looked up in the schema (_content_type_rows, _operation_to_tool).    *)
ExamplesKeepMarks ==
  \A i \in DOMAIN tools : i \in DOMAIN Live =>
    /\ \A row \in Asked(tools[i]) :
         Marked(RequestBodies(Live[i]), row.path, "readOnly") =>
           TagsUnion(RequestBodies(Live[i]), row.path, {})
    /\ \A row \in Returned(tools[i]) :
         Marked(ResponseBodies(Live[i]), row.path, "writeOnly") =>
           TagsUnion(ResponseBodies(Live[i]), row.path, {})

(* The same without the exception for discriminators                        *)
(* (_apply_discriminator_leaf_metadata).                                    *)
DiscriminatorsKeepMarks ==
  \A i \in DOMAIN tools : i \in DOMAIN Live =>
    /\ \A row \in Asked(tools[i]) :
         Marked(RequestBodies(Live[i]), row.path, "readOnly") =>
           ShownBy(RequestExamples(Live[i]), row.path)
    /\ \A row \in Returned(tools[i]) :
         Marked(ResponseBodies(Live[i]), row.path, "writeOnly") =>
           ShownBy(ResponseExamples(Live[i]), row.path)

Schemes(requirements) ==
  {n \in UNION {Range(requirements[i]) : i \in DOMAIN requirements} : n \in DOMAIN spec.schemes}

(* No credential is asked of the caller as data: each scheme an operation   *)
(* is under has one row where its credential goes, that row is never        *)
(* required, also where the operation declares the same header as a         *)
(* required parameter, and it is secure unless the operation may be called  *)
(* anonymously (_api_contract_security_rows, _merge_security_consumes).     *)
AuthIsAmbient ==
  \A i \in DOMAIN tools : i \in DOMAIN Live =>
    LET rows == tools[i].consumes
        requirements == Requirements(Live[i].op, spec)
    IN  /\ \A n \in Schemes(requirements) :
             LET at == {j \in DOMAIN rows :
                          Identity(rows[j]) = CredentialPlace(n, spec.schemes[n])} IN
             /\ Cardinality(at) = 1
             /\ \A j \in at : /\ rows[j].kind = "auth" /\ ~rows[j].required
                              /\ n \in rows[j].schemes
                              /\ rows[j].secure = ~Anonymous(requirements)
        /\ \A j \in DOMAIN rows : rows[j].kind = "auth" => rows[j].schemes # {}

(* A caller is asked only for what it can give: neither fields the schemas   *)
(* leave to the server alone, unless an example shows them or they are an    *)
(* undeclared discriminator, nor credentials.                               *)
AskedIsCallers == AskedIsWritable /\ AuthIsAmbient

(* Object wrappers whose fields the operation also declares one by one are   *)
(* dropped (the docstring of _extract_params_openapi3).                     *)
WrappersAreDropped ==
  \A i \in DOMAIN tools : i \in DOMAIN Live =>
    \A p \in Range(Live[i].op.params) :
      IsWrapper(p, SchemaOf(p)) /\ Props(p.schema) # <<>>
      /\ PropNames(p.schema) \subseteq {q.name : q \in Range(Live[i].op.params)} =>
        \A t \in Range(tools[i].parameters) : t.name # p.name
=============================================================================
