---------------------------- MODULE SpecSchemas ----------------------------
(***************************************************************************)
(* JSON schemas of an API specification: references resolved through a     *)
(* cache all path items share (ingest/openapi.py), and the leaf fields a   *)
(* schema offers (ingest/io_contract.py).  A schema is a record whose      *)
(* children keep the order of its keys; nullability, texts and limits of   *)
(* a schema are left out.  anyOf is read as oneOf is.                      *)
(* The bodies of an operation are made of them: which of the declared      *)
(* media types is used, the top-level slots a request body offers to a     *)
(* caller, and the leaf rows of each.  Content is a sequence of            *)
(* [type, schema, examples]; Empty stands for "no schema".  An example is  *)
(* a value, written as a schema of its shape; how many of them, of their   *)
(* items and of their rows are read at most (5, 3 and 128) is left out, as *)
(* encodings are.                                                          *)
(***************************************************************************)
EXTENDS Integers, Sequences, FiniteSets, FiniteSetsExt, SequencesExt

CONSTANTS
  MaxDepth,   \* _DEFAULT_MAX_DEPTH
  JsonLike    \* the media types that end in +json

NoName == ""

Node(type) ==
  [type |-> type, ref |-> NoName, from |-> NoName, kids |-> <<>>, required |-> {},
   disc |-> NoName, values |-> <<>>, readOnly |-> FALSE, writeOnly |-> FALSE]

Kid(role, name, s) == [role |-> role, name |-> name, schema |-> s]

Empty == Node(NoName)

Stub == Node("object")

Kids(s, role) == SelectSeq(s.kids, LAMBDA k : k.role = role)

Props(s) == Kids(s, "prop")

PropNames(s) == {k.name : k \in Range(Props(s))}

PropNamed(s, n) == (CHOOSE k \in Range(Props(s)) : k.name = n).schema

Child(s, role) == IF Kids(s, role) = <<>> THEN Empty ELSE Kids(s, role)[1].schema

(* $ref resolution: a reference met inside itself becomes a stub, a         *)
(* component is cached as it was resolved the first time.                  *)
RECURSIVE Resolve(_, _, _, _)

WithKid(acc, k, r) ==
  [kids |-> Append(acc.kids, [k EXCEPT !.schema = r.schema]), cache |-> r.cache]

ResolveKids(s, comps, seen, cache) ==
  FoldLeft(LAMBDA acc, k : WithKid(acc, k, Resolve(k.schema, comps, seen, acc.cache)),
           [kids |-> <<>>, cache |-> cache], s.kids)

Named(s, ref) == [s EXCEPT !.from = IF @ = NoName THEN ref ELSE @]

Remembered(s, ref, cache) == [schema |-> s, cache |-> (ref :> s) @@ cache]

Component(r, ref) == Remembered(Named(r.schema, ref), ref, r.cache)

Walked(s, r) == [schema |-> [s EXCEPT !.kids = r.kids], cache |-> r.cache]

Resolve(s, comps, seen, cache) ==
  IF s.ref \in seen THEN [schema |-> Stub, cache |-> cache]
  ELSE IF s.ref \in DOMAIN cache THEN [schema |-> cache[s.ref], cache |-> cache]
  ELSE IF s.ref \in DOMAIN comps
  THEN Component(Resolve(comps[s.ref], comps, seen \cup {s.ref}, cache), s.ref)
  ELSE Walked(s, ResolveKids(s, comps, seen, cache))

(* dict.update: a property keeps its place and takes the later schema.     *)
UpdateProps(props, more) ==
  FoldLeft(LAMBDA acc, k :
             IF \E i \in DOMAIN acc : acc[i].name = k.name
             THEN [i \in DOMAIN acc |-> IF acc[i].name = k.name THEN k ELSE acc[i]]
             ELSE Append(acc, k),
           props, more)

(* _flatten_top_level_allof; keepMap is the additionalProperties that       *)
(* _resolve_combinators keeps besides.                                     *)
RECURSIVE Flatten(_, _)

ValuesOf(out, sub, keepMap) ==
  IF keepMap /\ Kids(out, "map") = <<>> THEN Kids(sub, "map") ELSE Kids(out, "map")

Combined(out, sub, props, map) ==
  [out EXCEPT !.type = IF props = <<>> THEN @ ELSE "object",
              !.kids = props \o Kids(out, "oneOf") \o Kids(sub, "oneOf")
                       \o Kids(out, "items") \o map,
              !.required = @ \cup sub.required,
              !.readOnly = @ \/ sub.readOnly, !.writeOnly = @ \/ sub.writeOnly]

FlattenInto(out, sub, keepMap) ==
  Combined(out, sub, UpdateProps(Props(out), Props(sub)), ValuesOf(out, sub, keepMap))

Flatten(s, keepMap) ==
  IF Kids(s, "allOf") = <<>> THEN s
  ELSE FoldLeft(LAMBDA out, k : FlattenInto(out, Flatten(k.schema, keepMap), keepMap),
                [s EXCEPT !.kids = SelectSeq(@, LAMBDA k : k.role # "allOf"),
                          !.type = IF Props(s) = <<>> THEN @ ELSE "object"],
                Kids(s, "allOf"))

(* Path segments: a property, "*" for a map value, "[*]" for an item.       *)
RECURSIVE TextOfLast(_)
TextOfLast(path) ==
  IF path = <<>> THEN "$"
  ELSE IF Last(path) = "[*]" THEN TextOfLast(Front(path)) \o "[*]"
  ELSE Last(path)

(* _last_path_segment: of several "[*]" only the last is taken off.         *)
LastName(path) ==
  IF path = <<>> THEN NoName
  ELSE IF Last(path) = "[*]" THEN TextOfLast(Front(path)) ELSE Last(path)

(* What a walk knows of the schemas above: required is the parent's word.  *)
TopContext ==
  [required |-> FALSE, readOnly |-> FALSE, writeOnly |-> FALSE, branch |-> FALSE,
   branches |-> {}, depth |-> 0]

LeafOf(path, name, type, ctx) ==
  [path |-> path, name |-> name, type |-> type, required |-> ctx.required /\ ~ctx.branch,
   inBranch |-> ctx.required /\ ctx.branch, readOnly |-> ctx.readOnly,
   writeOnly |-> ctx.writeOnly, branches |-> ctx.branches, map |-> FALSE]

(* Mutant of MarkedBy: the parts of something read-only are not read-only. *)
MarkedAlone(ctx, s) == [ctx EXCEPT !.readOnly = s.readOnly, !.writeOnly = s.writeOnly]

MarkedBy(ctx, s) ==
  [ctx EXCEPT !.readOnly = @ \/ s.readOnly, !.writeOnly = @ \/ s.writeOnly]

Below(ctx) == [ctx EXCEPT !.depth = @ + 1]

MergedLeaf(old, new) ==
  [old EXCEPT !.required = @ \/ new.required, !.inBranch = @ \/ new.inBranch,
              !.readOnly = @ \/ new.readOnly, !.writeOnly = @ \/ new.writeOnly,
              !.branches = @ \cup new.branches]

(* _merge_duplicate_leaves: one leaf for a path.                           *)
MergeLeaves(leaves) ==
  FoldLeft(LAMBDA acc, leaf :
             IF \E i \in DOMAIN acc : acc[i].path = leaf.path /\ acc[i].name = leaf.name
             THEN [i \in DOMAIN acc |-> IF acc[i].path = leaf.path /\ acc[i].name = leaf.name
                                        THEN MergedLeaf(acc[i], leaf) ELSE acc[i]]
             ELSE Append(acc, leaf),
           <<>>, leaves)

(* The discriminator is a field of the union even if no branch declares it. *)
WithDiscriminator(leaves, disc, path, count) ==
  IF disc = NoName \/ \E i \in DOMAIN leaves : leaves[i].name = disc THEN leaves
  ELSE Append(leaves, [LeafOf(Append(path, disc), disc, "string", TopContext)
                       EXCEPT !.inBranch = TRUE, !.branches = 0 .. count - 1])

(* _has_extractable_shape: what stands beside the branches is read too.    *)
HasShape(s, path) ==
  \/ Props(s) # <<>> \/ Kids(s, "map") # <<>>
  \/ s.type = "array" /\ Kids(s, "items") # <<>>
  \/ path # <<>> /\ s.type \notin {NoName, "object", "array"}

RECURSIVE Leaves(_, _, _)

OpaqueType(s) == IF s.type = NoName THEN "object" ELSE s.type

(* A property without leaves of its own is a leaf.                         *)
OrItself(found, k, path, ctx) ==
  IF found # <<>> THEN found
  ELSE <<LeafOf(path, k.name, OpaqueType(k.schema), MarkedBy(ctx, k.schema))>>

PropLeavesAt(k, path, ctx) == OrItself(Leaves(k.schema, path, ctx), k, path, ctx)

PropLeaves(s, k, path, ctx) ==
  PropLeavesAt(k, Append(path, k.name), [Below(ctx) EXCEPT !.required = k.name \in s.required])

(* _walk_additional_properties: a value stands for every key of the map.   *)
MapValue(l, owner) ==
  [l EXCEPT !.name = IF @ = "*" THEN owner ELSE @, !.required = FALSE, !.inBranch = FALSE,
            !.map = TRUE]

OwnedBy(leaves, owner) ==
  SelectSeq(leaves, LAMBDA l : l.name # "*" \/ owner # NoName)

MapValues(leaves, owner) == [i \in DOMAIN leaves |-> MapValue(leaves[i], owner)]

OrValue(found, extra, path, owner, ctx) ==
  IF found = <<>> /\ owner # NoName
  THEN <<LeafOf(path, owner, OpaqueType(extra), MarkedBy(ctx, extra))>>
  ELSE found

MapLeavesAt(extra, path, owner, ctx) ==
  MapValues(OwnedBy(OrValue(Leaves(extra, path, Below(ctx)), extra, path, owner, ctx), owner),
            owner)

MapLeaves(s, path, ctx) ==
  IF Kids(s, "map") = <<>> THEN <<>>
  ELSE MapLeavesAt(Child(s, "map"), Append(path, "*"), LastName(path), ctx)

InBranch(ctx, i) == [Below(ctx) EXCEPT !.branch = TRUE, !.branches = {i - 1}]

Base(s) == [s EXCEPT !.kids = SelectSeq(@, LAMBDA k : k.role # "oneOf"), !.disc = NoName]

BaseLeaves(base, path, ctx) == IF HasShape(base, path) THEN Leaves(base, path, ctx) ELSE <<>>

LeavesOfBranches(branches, path, ctx) ==
  FlattenSeq([i \in DOMAIN branches |-> Leaves(branches[i].schema, path, InBranch(ctx, i))])

(* _extract_alternative_leaves                                             *)
BranchLeaves(s, path, ctx) ==
  MergeLeaves(WithDiscriminator(BaseLeaves(Base(s), path, ctx)
                                \o LeavesOfBranches(Kids(s, "oneOf"), path, ctx),
                                s.disc, path, Len(Kids(s, "oneOf"))))

Shaped(s, path, ctx) ==
  IF Kids(s, "oneOf") # <<>> THEN BranchLeaves(s, path, ctx)
  ELSE IF s.type = "object" \/ Props(s) # <<>>
  THEN FlattenSeq([i \in DOMAIN Props(s) |-> PropLeaves(s, Props(s)[i], path, ctx)])
       \o MapLeaves(s, path, ctx)
  ELSE IF s.type = "array"
  THEN Leaves(Child(s, "items"), Append(path, "[*]"), Below(ctx))
  ELSE IF LastName(path) = NoName THEN <<>>
  ELSE <<LeafOf(path, LastName(path), IF s.type = NoName THEN "string" ELSE s.type, ctx)>>

LeavesOfFlat(flat, path, ctx) == Shaped(flat, path, MarkedBy(ctx, flat))

(* extract_leaves                                                          *)
Leaves(s, path, ctx) ==
  IF ctx.depth > MaxDepth THEN <<>> ELSE LeavesOfFlat(Flatten(s, TRUE), path, ctx)

SchemaLeaves(s) == Leaves(s, <<>>, TopContext)
-----------------------------------------------------------------------------
(* Bodies.                                                                 *)

NoType == "(none)"

NoContent == [type |-> NoType, schema |-> Empty, examples |-> <<>>]

Schemed(content) == SelectSeq(content, LAMBDA m : m.schema # Empty)

OfType(content, T) == SelectSeq(content, LAMBDA m : m.type \in T)

(* _pick_content_schema_with_type: application/json, +json, */*, the first  *)
ByPreference(usable) ==
  OfType(usable, {"application/json"}) \o OfType(usable, JsonLike)
  \o OfType(usable, {"*/*"}) \o usable

FirstOf(order, content) ==
  IF order # <<>> THEN order[1]
  ELSE IF OfType(content, {"application/json"}) # <<>>
  THEN [NoContent EXCEPT !.type = "application/json"]
  ELSE NoContent

PickContent(content) == FirstOf(ByPreference(Schemed(content)), content)

(* _iter_request_body_schemas: the picked one, then the others in order.    *)
PickedFirst(picked, usable) ==
  (IF picked.schema = Empty THEN <<>> ELSE <<picked>>)
  \o SelectSeq(usable, LAMBDA m : m.type # picked.type)

BodySchemas(content) == PickedFirst(PickContent(content), Schemed(content))

Row(name, path, type, required) ==
  [name |-> name, path |-> path, type |-> type, required |-> required, inBranch |-> FALSE,
   branches |-> {}, root |-> FALSE, leaf |-> FALSE]

TypeOf(s) == IF s.type = NoName THEN "string" ELSE s.type

(* One slot per writable property of a schema without alternatives.         *)
PropertyRow(k, required) ==
  Row(k.name, <<k.name>>, TypeOf(k.schema), k.name \in required)

RowsOfProperties(props, required) == [i \in DOMAIN props |-> PropertyRow(props[i], required)]

PropertyRows(s) ==
  RowsOfProperties(SelectSeq(Props(s), LAMBDA k : ~k.schema.readOnly), s.required)

BranchRow(row, branch) ==
  [row EXCEPT !.inBranch = @ \/ row.required, !.required = FALSE, !.branches = {branch}]

MergedRow(old, new) ==
  [old EXCEPT !.required = @ \/ new.required, !.inBranch = @ \/ new.inBranch,
              !.branches = IF new.branches = {} THEN @ ELSE @ \cup new.branches]

(* _merge_top_level_rows: one slot per name.                                *)
MergeRows(rows) ==
  FoldLeft(LAMBDA acc, row :
             IF \E i \in DOMAIN acc : acc[i].name = row.name
             THEN [i \in DOMAIN acc |->
                     IF acc[i].name = row.name THEN MergedRow(acc[i], row) ELSE acc[i]]
             ELSE Append(acc, row),
           <<>>, rows)

(* _apply_discriminator_row_metadata                                        *)
WithDiscriminatorRow(rows, disc, count) ==
  IF disc = NoName THEN rows
  ELSE IF \A i \in DOMAIN rows : rows[i].name # disc
  THEN Append(rows, [Row(disc, <<disc>>, "string", FALSE)
                     EXCEPT !.inBranch = TRUE, !.branches = 0 .. count - 1])
  ELSE [i \in DOMAIN rows |->
          IF rows[i].name = disc /\ rows[i].branches = {}
          THEN [rows[i] EXCEPT !.branches = 0 .. count - 1] ELSE rows[i]]

RECURSIVE TopLevelRows(_)

BaseRows(base) == IF Props(base) = <<>> THEN <<>> ELSE TopLevelRows(base)

BranchRows(rows, branch) == [j \in DOMAIN rows |-> BranchRow(rows[j], branch)]

RowsOfBranches(branches) ==
  FlattenSeq([i \in DOMAIN branches |-> BranchRows(TopLevelRows(branches[i].schema), i - 1)])

(* _alternative_top_level_rows: nothing a branch asks for is required.      *)
AlternativeRows(s) ==
  MergeRows(WithDiscriminatorRow(BaseRows(Base(s)) \o RowsOfBranches(Kids(s, "oneOf")),
                                 s.disc, Len(Kids(s, "oneOf"))))

(* _request_body_top_level_rows                                             *)
RowsOfFlat(flat) ==
  IF Kids(flat, "oneOf") # <<>> THEN AlternativeRows(flat) ELSE PropertyRows(flat)

TopLevelRows(s) == IF s = Empty THEN <<>> ELSE RowsOfFlat(Flatten(s, FALSE))

(* _needs_request_body_root_slot: an array, a scalar or an opaque object.   *)
Rootless(flat) ==
  \/ Kids(flat, "oneOf") # <<>> /\ AlternativeRows(flat) # <<>>
  \/ TypeOf(flat) = "object" /\ Props(flat) # <<>>

NeedsRoot(s) == s # Empty /\ ~Rootless(Flatten(s, FALSE))

RootRow(s, required) ==
  IF NeedsRoot(s)
  THEN <<[Row("body", <<>>, TypeOf(s), required) EXCEPT !.root = TRUE]>>
  ELSE <<>>

(* What a caller fills: the root slot only where there is nothing else.     *)
OrRoot(rows, s, required) == IF rows = <<>> THEN RootRow(s, required) ELSE rows

Slots(s, required) == OrRoot(TopLevelRows(s), s, required)

LeafRow(l) ==
  [Row(l.name, l.path, l.type, l.required)
   EXCEPT !.inBranch = l.inBranch, !.branches = l.branches, !.leaf = TRUE]

RowsOfLeaves(leaves) == [i \in DOMAIN leaves |-> LeafRow(leaves[i])]

(* What a location may show of a schema: a body is written, a response read. *)
Shown(leaves, location) ==
  RowsOfLeaves(SelectSeq(leaves, LAMBDA l : IF location = "body" THEN ~l.readOnly
                                            ELSE ~l.writeOnly))

(* Mutant of FieldKey: the cache is asked by the schema alone.              *)
FieldKeyOfSchema(s, location) == s

(* _schema_field_rows through the cache of an ingest: by schema and location *)
FieldKey(s, location) == <<s, location>>

FieldRows(s, location, cache) ==
  IF s = Empty THEN <<>>
  ELSE IF FieldKey(s, location) \in DOMAIN cache THEN cache[FieldKey(s, location)]
  ELSE Shown(SchemaLeaves(s), location)

WithFields(cache, s, location) ==
  IF s = Empty \/ FieldKey(s, location) \in DOMAIN cache THEN cache
  ELSE (FieldKey(s, location) :> Shown(SchemaLeaves(s), location)) @@ cache

(* _copy_row_hints: the later row's hints win; a leaf row states inBranch    *)
(* even where it is false, any other only where it is true.                 *)
Hinted(old, new) ==
  [old EXCEPT !.required = @ \/ new.required, !.leaf = @ \/ new.leaf,
              !.inBranch = IF new.leaf THEN new.inBranch ELSE @ \/ new.inBranch,
              !.branches = IF new.branches = {} THEN @ ELSE new.branches,
              !.root = @ \/ new.root]

SameField(r, s) == r.name = s.name /\ r.path = s.path

(* _merge_field_rows: by name and path; a field any row requires is required *)
MergeFields(rows) ==
  FoldLeft(LAMBDA acc, row :
             IF \E i \in DOMAIN acc : SameField(acc[i], row)
             THEN [i \in DOMAIN acc |->
                     IF SameField(acc[i], row) THEN Hinted(acc[i], row) ELSE acc[i]]
             ELSE Append(acc, row),
           <<>>, rows)

FirstOfName(slots) ==
  FoldLeft(LAMBDA acc, s : IF \E i \in DOMAIN acc : acc[i].name = s.name THEN acc
                           ELSE Append(acc, s),
           <<>>, slots)

(* What the examples show (ingest/example_fields.py).  An item has no name   *)
(* of its own there.                                                       *)
RECURSIVE ValueRows(_, _)

KeysIn(path) == SelectSeq(path, LAMBDA n : n # "[*]")

ScalarRow(v, path) ==
  IF KeysIn(path) = <<>> THEN <<>> ELSE <<Row(Last(KeysIn(path)), path, v.type, FALSE)>>

Children(v) ==
  [i \in DOMAIN v.kids |->
     <<v.kids[i].schema, IF v.type = "array" THEN "[*]" ELSE v.kids[i].name>>]

(* _walk_example_leaves: its _MAX_DEPTH is extract_leaves' own.              *)
ValueRows(v, path) ==
  IF Len(path) > MaxDepth THEN <<>>
  ELSE IF v.type \in {"object", "array"}
  THEN FlattenSeq([i \in DOMAIN Children(v) |->
                     ValueRows(Children(v)[i][1], Append(path, Children(v)[i][2]))])
  ELSE ScalarRow(v, path)

(* example_leaf_rows *)
ExampleFields(examples) ==
  MergeFields(FlattenSeq([i \in DOMAIN examples |-> ValueRows(examples[i], <<>>)]))

(* example_top_level_rows *)
ExampleSlots(examples) ==
  FirstOfName(FlattenSeq([i \in DOMAIN examples |-> RowsOfProperties(Props(examples[i]), {})]))

(* _content_type_rows of a request body: what the examples show is added.    *)
ContentRow(m, required, cache) ==
  [type |-> m.type, slots |-> MergeFields(Slots(m.schema, required) \o ExampleSlots(m.examples)),
   fields |-> MergeFields(FieldRows(m.schema, "body", cache) \o ExampleFields(m.examples))]

ContentRows(content, required, cache) ==
  [i \in DOMAIN content |-> ContentRow(content[i], required, cache)]

AllSlots(rows) == FlattenSeq([i \in DOMAIN rows |-> rows[i].slots])

AllFields(rows) == FlattenSeq([i \in DOMAIN rows |-> rows[i].fields])

(* all_body_leaf_rows: the picked schema, the rows of its media type, then   *)
(* of every one.                                                           *)
FieldsOfBody(picked, rows, required, cache) ==
  MergeFields(RootRow(picked.schema, required) \o FieldRows(picked.schema, "body", cache)
              \o AllFields(OfType(rows, {picked.type})) \o AllFields(rows))

BodyFields(body, rows, cache) ==
  FieldsOfBody(PickContent(body.content), rows, body.required, cache)

(* all_body_top_level_rows                                                  *)
SlotsOfBody(picked, rows, required) ==
  OrRoot(MergeFields(TopLevelRows(picked.schema) \o AllSlots(OfType(rows, {picked.type}))
                     \o AllSlots(rows)),
         picked.schema, required)

BodySlots(body, rows) == SlotsOfBody(PickContent(body.content), rows, body.required)
-----------------------------------------------------------------------------
(* The parameters of an operation (ingest/openapi.py): path and operation  *)
(* level merged, object wrappers in the query replaced by their fields,    *)
(* as rows of the metadata and as the parameters of the tool.  A parameter *)
(* is [name, in, required, style, schema, content].                        *)
SameParameter(p, q) == p.in = q.in /\ p.name = q.name

(* _merged_parameters: the operation's own word replaces the path's.        *)
MergedParameters(shared, own) ==
  FoldLeft(LAMBDA acc, p :
             IF \E i \in DOMAIN acc : SameParameter(acc[i], p)
             THEN [i \in DOMAIN acc |-> IF SameParameter(acc[i], p) THEN p ELSE acc[i]]
             ELSE Append(acc, p),
           <<>>, shared \o own)

Effective(s) == Flatten(s, FALSE)

(* _parameter_sibling_names: a content parameter counts, it has no schema.  *)
SiblingNames(params) ==
  {params[i].name : i \in {j \in DOMAIN params :
     params[j].in = "body" \/ TypeOf(Effective(params[j].schema)) # "object"}}

SchemaOf(p) == Effective(IF p.schema # Empty THEN p.schema ELSE PickContent(p.content).schema)

FromContent(p) == PickContent(p.content).type # NoType

(* _expandable_parameter_properties                                         *)
Expandable(s) ==
  IF TypeOf(s) = "object" THEN s
  ELSE IF Child(s, "items").type = "object" THEN Child(s, "items") ELSE Empty

Executable(leaves) ==
  SelectSeq(leaves, LAMBDA l : ~l.readOnly /\ l.type \notin {"object", "array"})

FieldLeaves(props) ==
  FlattenSeq([i \in DOMAIN props |-> Leaves(props[i].schema, <<props[i].name>>, TopContext)])

WrapperLeaves(p, s) ==
  Executable(IF FromContent(p) THEN SchemaLeaves(s) ELSE FieldLeaves(Props(Expandable(s))))

(* required_by_leaf_name: by the name of a leaf, wherever it stands.        *)
RequiredNames(p, s, leaves) ==
  IF FromContent(p) THEN {}
  ELSE {n \in Expandable(s).required :
          \E i \in DOMAIN leaves : leaves[i].name = n /\ leaves[i].path = <<n>>}

LeafParameter(p, l, named) ==
  [name |-> l.name, in |-> p.in, required |-> l.required \/ l.name \in named, type |-> l.type,
   path |-> l.path, wrapper |-> p.name]

(* _expanded_parameter_leaf_rows: nothing where the siblings say it all.    *)
RowsOfWrapper(p, leaves, named) == [i \in DOMAIN leaves |-> LeafParameter(p, leaves[i], named)]

Kept(rows, requiredOnly) == SelectSeq(rows, LAMBDA r : requiredOnly => r.required)

ExpandedLeaves(p, s, leaves, siblings, requiredOnly) ==
  Kept(RowsOfWrapper(p, SelectSeq(leaves, LAMBDA l : l.name \notin siblings),
                     RequiredNames(p, s, leaves)),
       requiredOnly)

ExpandedRows(p, s, siblings, requiredOnly) ==
  ExpandedLeaves(p, s, WrapperLeaves(p, s), siblings, requiredOnly)

IsWrapper(p, s) == TypeOf(s) \in {"object", "array"} /\ p.in = "query" /\ p.style # "deepObject"

(* A path parameter is required whatever it says.                          *)
OwnRow(p, s) ==
  [name |-> p.name, in |-> p.in, required |-> p.required \/ p.in = "path", type |-> TypeOf(s),
   path |-> <<>>, wrapper |-> NoName]

OrOwn(expanded, p, s, requiredOnly) ==
  IF expanded # <<>> THEN expanded ELSE Kept(<<OwnRow(p, s)>>, requiredOnly)

RowsOfParameter(p, s, siblings, requiredOnly) ==
  OrOwn(IF IsWrapper(p, s) THEN ExpandedRows(p, s, siblings, requiredOnly) ELSE <<>>,
        p, s, requiredOnly)

RowsOfParameters(params, siblings, requiredOnly) ==
  FlattenSeq([i \in DOMAIN params |->
                RowsOfParameter(params[i], SchemaOf(params[i]), siblings, requiredOnly)])

(* _openapi_parameter_rows                                                  *)
ParameterRows(params) ==
  RowsOfParameters(SelectSeq(params, LAMBDA p : p.in # "body"), SiblingNames(params), FALSE)

ToolParameter(row) == [name |-> row.name, type |-> row.type, required |-> row.required]

ToolParameters(rows) == [i \in DOMAIN rows |-> ToolParameter(rows[i])]

(* The slots of every body schema, then those of every media type, the first *)
(* of a name; required_only is asked after a name is taken.                 *)
SlotsOfSchemas(schemas, required) ==
  FlattenSeq([i \in DOMAIN schemas |-> Slots(schemas[i].schema, required)])

BodyParameters(body, rows, requiredOnly) ==
  ToolParameters(Kept(FirstOfName(SlotsOfSchemas(BodySchemas(body.content), body.required)
                                  \o AllSlots(rows)),
                      requiredOnly))

(* _extract_params_openapi3                                                 *)
Parameters3(params, body, rows, requiredOnly) ==
  ToolParameters(RowsOfParameters(params, SiblingNames(params), requiredOnly))
  \o BodyParameters(body, rows, requiredOnly)

SwaggerRows(p) ==
  IF p.in = "body" THEN Slots(p.schema, p.required) ELSE <<OwnRow(p, p.schema)>>

(* _extract_params_swagger2: no parameter is taken apart.                   *)
Parameters2(params, requiredOnly) ==
  Kept(FlattenSeq([i \in DOMAIN params |-> ToolParameters(SwaggerRows(params[i]))]), requiredOnly)

ParametersOf(swagger2, params, body, rows, requiredOnly) ==
  IF swagger2 THEN Parameters2(params, requiredOnly)
  ELSE Parameters3(params, body, rows, requiredOnly)
=============================================================================
