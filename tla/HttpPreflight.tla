---------------------------- MODULE HttpPreflight ----------------------------
(***************************************************************************)
(* What execute/http_executor.py derives from the OpenAPI description of a *)
(* tool and the arguments of a call before it builds the request: where an *)
(* argument goes, which content type is meant, which defaults fill in, and *)
(* what is missing or wrong.                                               *)
(*                                                                         *)
(* An operation declares its parameters and the rows of its request body   *)
(* alike, as contracts: name, location (in), path within the body, whether *)
(* required, default, kind and allowed values.  Arguments are a function   *)
(* from the names that were given to JSON values.                          *)
(***************************************************************************)
EXTENDS HttpValues, Orderings

CONSTANTS NoName, NoDefault, NoPath, NoType, NoLocation

Given(args, n) == n \in DOMAIN args
Set(args, n)   == Given(args, n) /\ args[n] # Null
Bodied(op)     == op.method \in {"POST", "PUT", "PATCH"}
First(s, P(_)) == SelectInSeq(s, P)
Once(names) ==
  FoldLeft(LAMBDA s, n : IF n \in ToSet(s) THEN s ELSE Append(s, n), <<>>, names)
Locations == {"path", "query", "header", "cookie", "body"}
NamesOf(rows) == [i \in DOMAIN rows |-> rows[i].name]
----------------------------------------------------------------------------
(* _body_rows: those of the content type first, then the common ones; with *)
(* none selected, the common ones and then those of every type.            *)
TypeRows(op, ct) ==
  LET i == First(op.types, LAMBDA t : t.type = ct) IN IF i = 0 THEN <<>> ELSE op.types[i].rows

Rows(op, ct) == IF op.hasBody THEN TypeRows(op, ct) \o op.rows ELSE <<>>

AllRows(op) ==
  IF op.hasBody THEN FoldLeft(LAMBDA s, t : s \o t.rows, op.rows, op.types) ELSE <<>>

IsRoot(row) == row.root /\ row.path = <<>>
IsJson(ct) == ct \in {"json", "*/*"}

(* A body of JSON may be given as a whole, under the name body, unless the *)
(* description uses that name or has a root row of its own.                *)
RawSupported(op, rows) ==
  /\ op.hasBody
  /\ \A row \in ToSet(rows) : row.name # "body" /\ ~IsRoot(row)
  /\ \E t \in {op.types[i].type : i \in DOMAIN op.types} \cup {op.selected} : IsJson(t)

(* _security_api_key_locations                                             *)
KeyPlaces == {"query", "header", "cookie"}
KeySchemes(op) == {s \in op.schemes : s.type = "apikey" /\ s.in \in KeyPlaces}
KeyLocations(op) == [n \in {s.key : s \in KeySchemes(op)} |->
                       (CHOOSE s \in KeySchemes(op) : s.key = n).in]

(* _iter_known_argument_names, in order.                                   *)
Known(op) ==
  Once(op.placeholders \o NamesOf(op.tool) \o NamesOf(op.params) \o NamesOf(AllRows(op))
           \o (IF RawSupported(op, AllRows(op)) THEN <<"body">> ELSE <<>>)
           \o SetToSeq(DOMAIN KeyLocations(op)))

(* _location_by_param: the last parameter of a name, then the body, then   *)
(* the key of a security scheme.                                           *)
LocationOf(op, n) ==
  LET declared == {i \in DOMAIN op.params : op.params[i].name = n}
  IN  IF declared # {} THEN op.params[CHOOSE i \in declared : \A j \in declared : j <= i].in
      ELSE IF n \in ToSet(NamesOf(AllRows(op))) THEN "body"
      ELSE IF n = "body" /\ RawSupported(op, AllRows(op)) THEN "body"
      ELSE IF n \in DOMAIN KeyLocations(op) THEN KeyLocations(op)[n] ELSE NoLocation

(* _used_arguments_by_location: a null is used only in a body; a location  *)
(* that is none of the five counts as not declared.                        *)
UsedWhere(op, args, n, at) ==
  IF ~Set(args, n) THEN IF Given(args, n) /\ at = "body" THEN "body" ELSE NoLocation
  ELSE IF n \in ToSet(op.placeholders) THEN "path"
  ELSE IF at \in Locations THEN at
  ELSE IF op.method \in {"GET", "DELETE", "HEAD", "OPTIONS"} THEN "query" ELSE "body"

UsedAt(op, args, n) == UsedWhere(op, args, n, LocationOf(op, n))

Used(op, args, location) == {n \in ToSet(Known(op)) : UsedAt(op, args, n) = location}
----------------------------------------------------------------------------
(* _request_content_type: the type whose fields the arguments name best,   *)
(* if that is better than the preselected one; multipart for a file.       *)
Score(op, ct, args) ==
  Cardinality({n \in DOMAIN args : Set(args, n)} \cap ToSet(NamesOf(TypeRows(op, ct))))

Declared(op) ==
  LET types == [i \in DOMAIN op.types |-> op.types[i].type]
  IN  IF op.selected = NoType \/ op.selected \in ToSet(types) THEN types ELSE <<op.selected>> \o types

BestOf(op, scores) ==
  LET scored == {i \in DOMAIN op.types : op.types[i].type # "*/*" /\ scores[i] > 0}
      better(i, j) == scores[i] > scores[j] \/ (scores[i] = scores[j] /\ i <= j)
  IN  IF scored = {} THEN NoType
      ELSE op.types[CHOOSE i \in scored : \A j \in scored : better(i, j)].type

BestType(op, args) == BestOf(op, [i \in DOMAIN op.types |-> Score(op, op.types[i].type, args)])

HasFile(op, args) == \E n \in DOMAIN args : args[n] \in op.files

TypeFrom(op, args, best, declared) ==
  LET json == First(declared, IsJson)
  IN  IF HasFile(op, args) /\ First(declared, LAMBDA t : t = "multipart") # 0 THEN "multipart"
      ELSE IF op.selected \notin {NoType, "*/*"}
      THEN IF best # NoType /\ Score(op, best, args) > Score(op, op.selected, args)
           THEN best ELSE op.selected
      ELSE IF best # NoType THEN best
      ELSE IF json # 0 THEN declared[json]
      ELSE IF declared # <<>> THEN declared[1] ELSE "json"

ContentType(op, args) == TypeFrom(op, args, BestType(op, args), Declared(op))

TypeFor(op, args) ==
  IF Bodied(op)
  THEN ContentType(op, [n \in Used(op, args, "body") |-> args[n]]) ELSE NoType
----------------------------------------------------------------------------
(* _arguments_with_openapi_defaults: parameters first, then, of the type   *)
(* the arguments mean by now, the body.  Neither paths, nor keys, nor what *)
(* sounds like a secret has a default.                                     *)
Defaulted(op, args, row, location) ==
  IF \/ location = "path" \/ Given(args, row.name) \/ row.secret \/ row.default = NoDefault
     \/ (row.name \in DOMAIN KeyLocations(op) /\ KeyLocations(op)[row.name] = location)
  THEN args
  ELSE [n \in DOMAIN args \cup {row.name} |-> IF n = row.name THEN row.default ELSE args[n]]

BodyDefaults(op, given) ==
  LET body == {n \in DOMAIN given : LocationOf(op, n) = "body"}
      ct == IF Bodied(op) THEN ContentType(op, [n \in body |-> given[n]]) ELSE NoType
  IN  FoldLeft(LAMBDA a, row : Defaulted(op, a, row, "body"), given, Rows(op, ct))

WithDefaults(op, args) ==
  LET params == SelectSeq(op.params, LAMBDA p : p.in \in {"query", "header", "cookie"})
  IN  BodyDefaults(op, FoldLeft(LAMBDA a, p : Defaulted(op, a, p, p.in), args, params))
----------------------------------------------------------------------------
(* Mutant of Present: a null is a value.                                   *)
PresentAsGiven(session, args, n, location) ==
  \/ Given(args, n)
  \/ (location = "header" /\ n \in session.headers)
  \/ (location = "cookie" /\ n \in session.cookies)

(* A value for a location: an argument, or what the executor sends anyway. *)
Present(session, args, n, location) ==
  \/ Set(args, n)
  \/ (location = "header" /\ n \in session.headers)
  \/ (location = "cookie" /\ n \in session.cookies)

Provided(session, args, n, location) ==
  (location = "body" /\ Given(args, n)) \/ Present(session, args, n, location)

(* The body that was given as a whole, if one was.                         *)
WholeNames(op, rows) ==
  Once(NamesOf(SelectSeq(rows, IsRoot))
           \o (IF RawSupported(op, rows) THEN <<"body">> ELSE <<>>))

FirstGiven(names, args) ==
  LET i == First(names, LAMBDA n : Given(args, n)) IN IF i = 0 THEN NoBody ELSE args[names[i]]

Whole(op, rows, args) == FirstGiven(WholeNames(op, rows), args)

(* _body_row_required_present, _body_row_values: a row has a value of its  *)
(* own, or one in the whole body.                                          *)
RowPresent(whole, args, row) ==
  \/ Given(args, row.name)
  \/ whole # NoBody /\ row.path # NoPath /\ RequiredPresent(whole, row.path)

Many(row, v) == IsArr(v) /\ row.kind # "array" /\ row.path # NoPath /\ SelectsMany(row.path)

RowValues(whole, args, row) ==
  IF Given(args, row.name)
  THEN IF Many(row, args[row.name]) THEN ToSet(args[row.name].items) ELSE {args[row.name]}
  ELSE IF whole = NoBody \/ row.path = NoPath THEN {}
  ELSE ToSet(PathValues(whole, row.path))

(* _body_container_fields_satisfied_by_leaf_args                           *)
FilledByLeaves(rows, args, row) ==
  /\ row.kind \in {"array", "object"} /\ row.path # NoPath /\ ~Given(args, row.name)
  /\ \E leaf \in ToSet(rows) : Given(args, leaf.name) /\ leaf.path # NoPath
                               /\ IsUnder(leaf.path, row.path)

(* _missing_required_array_leaf_indexes: of two lists for the fields of    *)
(* the same items, the required one is as long as the other.               *)
ArrayOf(row) == IF row.path # NoPath /\ Cardinality({i \in DOMAIN row.path : row.path[i] = "[*]"}) = 1
                THEN SubSeq(row.path, 1, ArrayAt(row.path)) ELSE NoPath

Count(row, args) == IF ~Set(args, row.name) THEN 0
                    ELSE IF Many(row, args[row.name]) THEN Len(args[row.name].items) ELSE 1

ShortLists(rows, args) ==
  {row \in ToSet(rows) : /\ row.required /\ ArrayOf(row) # NoPath
                         /\ \E other \in ToSet(rows) :
                              /\ ArrayOf(other) = ArrayOf(row)
                              /\ Count(other, args) > 1 /\ Count(other, args) > Count(row, args)}

(* _selected_discriminator: the first that has a value; its rows say which *)
(* branch each belongs to.                                                 *)
DiscriminatorRows(rows, whole, args) ==
  SelectSeq(rows, LAMBDA row : row.disc # NoName /\
    (Set(args, row.disc) \/
       \E r \in ToSet(rows) : r.name = row.disc /\
         \E v \in RowValues(whole, args, r) : v # Null))

NoChoice == [name |-> NoName, value |-> Null]

ChosenBy(name, rows, whole, args) ==
  [name |-> name,
   value |-> IF Set(args, name) THEN args[name]
             ELSE CHOOSE v \in UNION {RowValues(whole, args, r) :
                                        r \in {q \in ToSet(rows) : q.name = name}} : v # Null]

ChosenFrom(discriminators, rows, whole, args) ==
  IF discriminators = <<>> THEN NoChoice ELSE ChosenBy(discriminators[1].disc, rows, whole, args)

Chosen(rows, whole, args) == ChosenFrom(DiscriminatorRows(rows, whole, args), rows, whole, args)

InBranch(row, c) == row.disc = c.name /\ c.value \in row.branch

MissingInBranch(rows, whole, args, c) ==
  {row \in ToSet(rows) : /\ c # NoChoice /\ row.branchRequired /\ InBranch(row, c) /\ row.name # c.name
                         /\ ~RowPresent(whole, args, row)}

(* _missing_required_inputs, as pairs of location and name.                *)
MissingBody(op, session, args, rows, whole) ==
  LET bodyGiven == Used(op, args, "body") # {}
      excused(row) == \/ FilledByLeaves(rows, args, row)
                      \/ (IsRoot(row) /\ bodyGiven)
                      \/ (~IsRoot(row) /\ whole # NoBody /\ RowPresent(whole, args, row))
      required == {row \in ToSet(rows) : row.required}
      absent == {row \in {r \in required : ~excused(r)}
                          \cup MissingInBranch(rows, whole, args, Chosen(rows, whole, args)) :
                   ~Provided(session, args, row.name, "body")}
      short == IF whole # NoBody THEN {} ELSE ShortLists(rows, args)
      empty == Bodied(op) /\ op.hasBody /\ op.bodyRequired /\ ~bodyGiven /\ required = {}
  IN  {row.name : row \in absent \cup short} \cup (IF empty THEN {"body"} ELSE {})

ToolLocation(op, n) ==
  IF n \in ToSet(op.placeholders) /\ LocationOf(op, n) = NoLocation THEN "path"
  ELSE IF LocationOf(op, n) # NoLocation THEN LocationOf(op, n)
  ELSE IF op.method \in {"GET", "DELETE", "HEAD", "OPTIONS"} THEN "query" ELSE "body"

ExcusedTool(op, args, rows, whole, n) ==
  /\ ToolLocation(op, n) = "body"
  /\ \E row \in ToSet(rows) : row.name = n /\
       \/ (row.required /\ FilledByLeaves(rows, args, row))
       \/ (RawSupported(op, rows) /\ RowPresent(whole, args, row))
       \/ (IsRoot(row) /\ Used(op, args, "body") # {})

MissingTool(op, session, args, rows, whole) ==
  LET needed == {p \in ToSet(op.tool) : p.required /\ ~ExcusedTool(op, args, rows, whole, p.name)}
      absent(at) == \A d \in ToSet(op.params) : <<d.in, d.name>> # at
  IN  {at \in {<<ToolLocation(op, p.name), p.name>> : p \in needed} :
         absent(at) /\ ~Provided(session, args, at[2], at[1])}

MissingRequired(op, session, args, rows, whole) ==
     {<<"path", n>> : n \in {m \in ToSet(op.placeholders) : ~Present(session, args, m, "path")}}
  \cup {<<p.in, p.name>> : p \in {q \in ToSet(op.params) :
          q.required /\ ~Provided(session, args, q.name, q.in)}}
  \cup {<<"body", n>> : n \in MissingBody(op, session, args, rows, whole)}
  \cup MissingTool(op, session, args, rows, whole)
----------------------------------------------------------------------------
(* _validation_issues of a value against its contract.                     *)
KindFits(v, kind) ==
  CASE kind = "array" -> IsArr(v) [] kind = "object" -> IsObj(v) [] kind = "leaf" -> ~IsArr(v) /\ ~IsObj(v)
    [] OTHER -> TRUE

Wrong(row, location, v) ==
  IF v = Null THEN location = "body" /\ ~row.nullable
  ELSE ~KindFits(v, row.kind) \/ (row.allowed # {} /\ v \notin row.allowed)

(* Of several rows of a name the first is the contract.                    *)
FirstOf(rows) == {rows[i] : i \in {j \in DOMAIN rows : \A k \in 1..(j - 1) :
                    <<rows[k].in, rows[k].name>> # <<rows[j].in, rows[j].name>>}}

(* Fields of a branch that was not chosen.                                 *)
Foreign(rows, whole, args, c) ==
  LET hinted == {row \in ToSet(rows) : row.disc = c.name /\ row.branch # {}}
  IN  {row \in hinted : /\ c # NoChoice /\ (\E other \in hinted : InBranch(other, c))
                        /\ ~InBranch(row, c) /\ row.name # c.name
                        /\ RowValues(whole, args, row) # {}}

InvalidArguments(op, args, rows, whole) ==
  LET values(row) == IF row.in = "body" /\ row.path # NoPath THEN RowValues(whole, args, row)
                     ELSE IF Set(args, row.name) \/ (row.in = "body" /\ Given(args, row.name))
                     THEN {args[row.name]} ELSE {}
      tool == [i \in DOMAIN op.tool |->
                 [op.tool[i] EXCEPT !.in = ToolLocation(op, op.tool[i].name), !.path = NoPath]]
  IN  {<<row.in, row.name>> : row \in Foreign(rows, whole, args, Chosen(rows, whole, args)) \cup
         {r \in FirstOf(op.params \o rows \o tool) : \E v \in values(r) : Wrong(r, r.in, v)}}

(* _missing_security_requirements: one alternative has to be met in full.  *)
SchemeMet(s, session, args) ==
  CASE s.type = "apikey" -> s.in \in KeyPlaces /\ Present(session, args, s.key, s.in)
    [] s.type \in {"bearer", "basic"} -> session.authorization = s.type
    [] OTHER -> "Authorization" \in session.headers

SecurityMet(op, session, args) ==
  \/ op.requirements = <<>>
  \/ \E i \in DOMAIN op.requirements : \A name \in op.requirements[i] :
       \E s \in op.schemes : s.name = name /\ SchemeMet(s, session, args)

(* validate_request: with the arguments, then the type they mean, then the *)
(* body given as a whole.                                                  *)
Findings(op, session, args, ct, rows, whole) ==
  [missing  |-> MissingRequired(op, session, args, rows, whole),
   secured  |-> SecurityMet(op, session, args),
   invalid  |-> InvalidArguments(op, args, rows, whole),
   used     |-> [l \in Locations |-> Used(op, args, l)],
   unused   |-> {n \in DOMAIN args : Set(args, n) /\ n \notin ToSet(Known(op))},
   type     |-> ct]

DiagnosisAs(op, session, args, ct) ==
  Findings(op, session, args, ct, Rows(op, ct), Whole(op, Rows(op, ct), args))

DiagnosisOf(op, session, args) == DiagnosisAs(op, session, args, TypeFor(op, args))

Diagnosis(op, session, given, defaults) ==
  DiagnosisOf(op, session, IF defaults THEN WithDefaults(op, given) ELSE given)
=============================================================================
