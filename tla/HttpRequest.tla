----------------------------- MODULE HttpRequest -----------------------------
(***************************************************************************)
(* execute/http_executor.py: one call of a tool that was ingested from an  *)
(* OpenAPI description, from its arguments to the answer.  The executor    *)
(* fills in defaults, checks the call before any traffic, sorts the        *)
(* arguments by location, builds path, headers and body, sends the request *)
(* and matches the response with the declared ones.                        *)
(*                                                                         *)
(* The check and the building read the description separately; what has to *)
(* hold is that they agree.                                                *)
(***************************************************************************)
EXTENDS HttpPreflight

CONSTANTS
  Operations, \* from the tools' names to their descriptions
  Calls,      \* [op, given, session, validate, values, defaults, dry, reply]
  Unreachable \* the reply of a host that does not answer

(* Every call is of an operation, and what an operation declares is listed.*)
ASSUME OperationsAssumption ==
  /\ \A c \in Calls : c.op \in DOMAIN Operations
  /\ \A o \in DOMAIN Operations :
       LET d == Operations[o] IN
       /\ IsList(d.placeholders) /\ IsList(d.tool) /\ IsList(d.params)
       /\ IsList(d.rows) /\ IsList(d.types) /\ \A i \in DOMAIN d.types : IsList(d.types[i].rows)
       /\ IsFiniteSet(d.schemes)

VARIABLES call, pc, args, diagnosis, parts, missingPath, query, body, result

vars == <<call, pc, args, diagnosis, parts, missingPath, query, body, result>>

Nothing == [nothing |-> TRUE]
Empty == [n \in {} |-> Null]
NoParts == [l \in Locations |-> {}]

Init ==
  /\ call \in Calls
  /\ pc = "called" /\ args = call.given /\ diagnosis = Nothing
  /\ parts = NoParts /\ missingPath = {} /\ query = Empty /\ body = NoBody /\ result = Nothing

op == Operations[call.op]

(* build_request: defaults, and the check, unless it is switched off.      *)
FillDefaults ==
  /\ pc = "called"
  /\ args' = IF call.defaults THEN WithDefaults(op, args) ELSE args
  /\ pc' = IF call.validate THEN "checking" ELSE "sorting"
  /\ UNCHANGED <<call, diagnosis, parts, missingPath, query, body, result>>

Blocks(d) == d.missing # {} \/ ~d.secured \/ (call.values /\ d.invalid # {})

Check ==
  /\ pc = "checking"
  /\ diagnosis' = Diagnosis(op, call.session, call.given, call.defaults)
  /\ pc' = IF Blocks(diagnosis') THEN "refused" ELSE "sorting"
  /\ UNCHANGED <<call, args, parts, missingPath, query, body, result>>

(* Mutant of Placed: a null is never sent.                                 *)
PlacedWithoutNull(n) ==
  IF ~Set(args, n) THEN NoLocation
  ELSE CASE n \in ToSet(op.placeholders) \/ LocationOf(op, n) = "path" -> "path"
         [] OTHER -> IF LocationOf(op, n) # NoLocation THEN LocationOf(op, n)
                     ELSE IF op.method \in {"GET", "DELETE", "HEAD", "OPTIONS"}
                     THEN "query" ELSE "body"

(* Where the arguments go.  A name in the path template is a path          *)
(* parameter, whatever else is declared of it.                             *)
Placed(n) ==
  IF ~Given(args, n) THEN NoLocation
  ELSE IF args[n] = Null THEN IF LocationOf(op, n) = "body" THEN "body" ELSE NoLocation
  ELSE CASE n \in ToSet(op.placeholders) \/ LocationOf(op, n) = "path" -> "path"
         [] OTHER -> IF LocationOf(op, n) \in {"query", "header", "cookie", "body"}
                     THEN LocationOf(op, n)
                     ELSE IF op.method \in {"GET", "DELETE", "HEAD", "OPTIONS"}
                     THEN "query" ELSE "body"

Sort ==
  /\ pc = "sorting"
  /\ parts' = [l \in DOMAIN parts |-> {n \in ToSet(Known(op)) : Placed(n) = l}]
  /\ pc' = "locating"
  /\ UNCHANGED <<call, args, diagnosis, missingPath, query, body, result>>

(* _group_expanded_query_content_parameters: parameters that stand for the *)
(* fields of one JSON value are put together again, unless that value is   *)
(* itself an argument.                                                     *)
Contract(n) ==
  LET at == {i \in DOMAIN op.params : op.params[i].name = n}
  IN  op.params[CHOOSE i \in at : \A j \in at : j <= i]

Wrapped(n) == /\ \E i \in DOMAIN op.params : op.params[i].name = n
              /\ Contract(n).wrapper # NoName

Grouped(names) ==
  LET Under(d, k, x) == [j \in DOMAIN d \cup {k} |-> IF j = k THEN x ELSE d[j]]
      direct == {n \in ToSet(names) : ~Wrapped(n)}
      Gather(d, n) ==
        LET w == Contract(n).wrapper
            old == IF w \in DOMAIN d THEN d[w] ELSE EmptyObj
        IN  IF n \in direct THEN Under(d, n, args[n])
            ELSE IF w \in direct THEN d
            ELSE Under(d, w, IF Assignable(Contract(n).path)
                             THEN AssignValue(old, Contract(n).path, args[n])
                             ELSE With(old, n, args[n]))
  IN  FoldLeft(Gather, Empty, names)

(* The URL.  The path is complete when every placeholder was replaced.     *)
Locate ==
  /\ pc = "locating"
  /\ missingPath' = ToSet(op.placeholders) \ parts["path"]
  /\ query' = Grouped(Filtered(Known(op), parts["query"]))
  /\ pc' = IF missingPath' # {} THEN "failed" ELSE "encoding"
  /\ UNCHANGED <<call, args, diagnosis, parts, body, result>>

(* _body_field_paths_from_rows: the first row of a name; a map's values    *)
(* have no place of their own.                                             *)
PlacedRow(rows, n) ==
  First(rows, LAMBDA row : row.name = n /\ row.path # NoPath /\ (row.map => IsRoot(row)))

FieldPath(rows, n) ==
  LET i == PlacedRow(rows, n)
  IN  IF i # 0 THEN rows[i].path
      ELSE IF n = "body" /\ RawSupported(op, rows) THEN <<>> ELSE Unplaced

BodyNames == Filtered(Known(op), parts["body"])

(* The body in the type the arguments mean.  Other methods send none.      *)
EncodedAt(ct, rows, paths) ==
  LET whole == \E n \in parts["body"] : paths[n] = <<>>
      top == {row \in ToSet(rows) : row.path # NoPath /\ Len(row.path) = 1 /\ Plain(row.path)}
      files == {n \in parts["body"] : args[n] \in op.files}
  IN  CASE ct = "form" -> [as |-> ct, of |-> [n \in {m \in parts["body"] : args[m] # Null} |-> args[n]]]
        [] ct = "multipart" -> [as |-> ct, of |-> Multipart(BodyNames, args, paths, top, files)]
        [] OTHER -> [as |-> ct, of |-> IF ~IsJson(ct) /\ ~whole /\ Cardinality(parts["body"]) = 1
                                       THEN args[BodyNames[1]]
                                       ELSE BuildBody(BodyNames, args, paths, op.schemaType)]

EncodedIn(ct, rows) == EncodedAt(ct, rows, [n \in parts["body"] |-> FieldPath(rows, n)])

EncodedAs(ct) == EncodedIn(ct, Rows(op, ct))

Encoded == EncodedAs(ContentType(op, [n \in parts["body"] |-> args[n]]))

Encode ==
  /\ pc = "encoding"
  /\ body' = IF parts["body"] # {} /\ Bodied(op) THEN Encoded ELSE NoBody
  /\ pc' = IF call.dry THEN "showing" ELSE "sending"
  /\ UNCHANGED <<call, args, diagnosis, parts, missingPath, query, result>>

(* dry_run: the check is made again, beside the request.                   *)
Show ==
  /\ pc = "showing"
  /\ diagnosis' = Diagnosis(op, call.session, call.given, call.defaults)
  /\ pc' = "shown"
  /\ UNCHANGED <<call, args, parts, missingPath, query, body, result>>
----------------------------------------------------------------------------
(* _match_response_metadata: a status is its class and the rest, <<4, 4>>; *)
(* a class <<4>>, a default <<>>.  The first that is declared for a status, *)
(* else the last of its class, else the last default.                      *)
Matched(status) ==
  LET at(s) == {i \in DOMAIN op.responses : op.responses[i].status = s}
      least(S) == CHOOSE i \in S : \A j \in S : i <= j
      most(S) == CHOOSE i \in S : \A j \in S : j <= i
  IN  IF at(status) # {} THEN op.responses[least(at(status))]
      ELSE IF at(<<status[1]>>) # {} THEN op.responses[most(at(<<status[1]>>))]
      ELSE IF at(<<>>) # {} THEN op.responses[most(at(<<>>))] ELSE Nothing

(* _response_body_view: the collection, else the envelope's content, else  *)
(* its metadata with the body as it is; none of a declared failure.        *)
Found(answer, p) == PathValues(answer, p) # <<>> \/ (SelectsMany(p) /\ PathExists(answer, p))

ViewOf(answer, response) ==
  LET paths == SelectSeq(op.envelope.paths, LAMBDA p : Found(answer, p))
  IN  IF ~IsObj(answer) /\ ~IsArr(answer) THEN Nothing
      ELSE IF response # Nothing /\ ~response.success THEN Nothing
      ELSE IF paths # <<>>
      THEN [at |-> paths[1],
            value |-> IF SelectsMany(paths[1]) THEN Arr(PathValues(answer, paths[1]))
                      ELSE PathValues(answer, paths[1])[1]]
      ELSE IF \E k \in op.envelope.metadata : Has(answer, k) THEN [at |-> <<>>, value |-> answer]
      ELSE Nothing

(* An answer, of success or not; nothing catches a host that has none.     *)
Answer ==
  /\ pc = "sending" /\ call.reply # Unreachable
  /\ LET matched == Matched(call.reply.status)
     IN  result' = [ok |-> call.reply.status[1] = 2, matched |-> matched,
                    view |-> ViewOf(call.reply.body, matched)]
  /\ pc' = "answered"
  /\ UNCHANGED <<call, args, diagnosis, parts, missingPath, query, body>>

NoAnswer ==
  /\ pc = "sending" /\ call.reply = Unreachable
  /\ pc' = "raised"
  /\ UNCHANGED <<call, args, diagnosis, parts, missingPath, query, body, result>>

Next == FillDefaults \/ Check \/ Sort \/ Locate \/ Encode \/ Show \/ Answer \/ NoAnswer

Spec == Init /\ [][Next]_vars
----------------------------------------------------------------------------
Built == pc \in {"sending", "showing", "shown", "answered", "raised"}

(* A request that passed the check can be built: the path is never         *)
(* incomplete afterwards.                                                  *)
CheckCoversPath == pc = "failed" => ~call.validate

(* The check and the building, each of which sorts the arguments itself,   *)
(* put every argument in the same place and the body in the same type.     *)
UsedAsReported ==
  Built /\ call.validate =>
    /\ \A l \in DOMAIN parts : diagnosis.used[l] = parts[l]
    /\ body # NoBody => body.as = diagnosis.type

(* A name that is declared for one location and taken for another, or for  *)
(* one the executor does not know.                                         *)
Shadowed(n, location) ==
  \/ location \notin Locations \/ location # LocationOf(op, n)
  \/ n \in ToSet(op.placeholders) /\ location # "path"

SentParameter(p) ==
  \/ p.in \in Locations /\ p.name \in parts[p.in]
  \/ p.in = "header" /\ p.name \in call.session.headers
  \/ p.in = "cookie" /\ p.name \in call.session.cookies

(* Every required parameter of a checked call is at its location, unless   *)
(* its name is declared twice and taken for the other.                     *)
ParametersAreSent ==
  Built /\ call.validate => \A p \in ToSet(op.params) :
    p.required => SentParameter(p) \/ Shadowed(p.name, p.in)

(* A key that satisfied the security requirement is in the request.        *)
KeysAreSent ==
  Built /\ call.validate /\ op.requirements # <<>> =>
    \E i \in DOMAIN op.requirements : \A name \in op.requirements[i] :
      \E s \in op.schemes : /\ s.name = name
                            /\ s.type = "apikey" => \/ SentParameter([name |-> s.key, in |-> s.in])
                                                    \/ Shadowed(s.key, s.in)

(* What passed the check can be built, and its path, query, headers and    *)
(* cookies hold all that the operation requires of them.                   *)
RequestIsComplete == CheckCoversPath /\ ParametersAreSent /\ KeysAreSent

(* The body was given as a whole and in fields: the whole one is sent.     *)
Mixed == Whole(op, Rows(op, body.as), args) # NoBody /\ Cardinality(parts["body"]) > 1

InBody(row) ==
  IF IsJson(body.as) THEN row.path # NoPath => RequiredPresent(body.of, row.path)
  ELSE \/ row.name \in DOMAIN body.of
       \/ \E leaf \in ToSet(Rows(op, body.as)) : leaf.name \in parts["body"] /\ IsUnder(leaf.path, row.path)
       \/ \E top \in ToSet(Rows(op, body.as)) : top.name \in DOMAIN body.of /\ IsUnder(row.path, top.path)

(* Every required field of a checked call is in the body that was built,   *)
(* whichever way the arguments were put together, but for names declared   *)
(* twice and bodies given twice.                                           *)
BodyIsComplete ==
  Built /\ call.validate /\ body # NoBody /\ ~Mixed =>
    \A row \in ToSet(Rows(op, body.as)) : row.required => InBody(row) \/ Shadowed(row.name, "body")

(* Both without these exceptions.                                          *)
RequiredIsSent ==
  Built /\ call.validate /\ Bodied(op) =>
    /\ \A p \in ToSet(op.params) : p.required => SentParameter(p)
    /\ body # NoBody => \A row \in ToSet(Rows(op, body.as)) : row.required => InBody(row)

(* Values of arguments can be read back from where they were put: from the *)
(* JSON body at their path, from their part of a form, and from the query. *)
Overlaid(n, paths) == \E m \in parts["body"] \ {n} :
  IsUnder(paths[m], paths[n]) \/ IsUnder(paths[n], paths[m]) \/ paths[m] = paths[n]

FieldReadsBack(n, paths) ==
  IF Assignable(paths[n])
  THEN PathValues(body.of, paths[n]) = IF Plain(paths[n]) THEN <<args[n]>> ELSE Items(args[n])
  ELSE op.schemaType = "array" \/ (Has(body.of, n) /\ body.of.fields[n] = args[n])

ArgumentsReadBack ==
  /\ Built /\ body # NoBody /\ IsJson(body.as) =>
       LET paths == [n \in parts["body"] |-> FieldPath(Rows(op, body.as), n)]
       IN  \/ \E n \in parts["body"] : paths[n] = <<>> /\ body.of = args[n]
           \/ \A n \in parts["body"] : Overlaid(n, paths) \/ FieldReadsBack(n, paths)
  /\ Built => \A n \in parts["query"] :
       \/ n \in DOMAIN query /\ query[n] = args[n]
       \/ /\ Wrapped(n)
          /\ \/ Contract(n).wrapper \in parts["query"]
             \/ PathValues(query[Contract(n).wrapper], Contract(n).path) = <<args[n]>>

(* What was given arrives: nothing that a body requires is missing from it *)
(* after a check, and every value is where the contract puts it.           *)
ArgumentsArrive == BodyIsComplete /\ ArgumentsReadBack

(* No member of a parameter's value is lost in the style it is written in. *)
ValuesAreWritten ==
  Built => \A l \in {"path", "query", "header", "cookie"} :
    \A n \in parts[l] :
      (\E p \in ToSet(op.params) : p.name = n) => WritesAll(l, n, args[n], Contract(n))
=============================================================================
