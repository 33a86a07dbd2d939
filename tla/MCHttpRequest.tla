--------------------------- MODULE MCHttpRequest ---------------------------
(***************************************************************************)
(* Ten operations, each with the descriptions that make the check and the  *)
(* building differ most easily, and for each every choice of arguments     *)
(* from a small menu.                                                      *)
(***************************************************************************)
EXTENDS HttpRequest

CONSTANTS one, two, dog, cat, file1   \* plain values

L(x) == Leaf(x)
Pair2(x, y) == Arr(<<L(x), L(y)>>)

Field(n, in, path, kind) ==
  [name |-> n, in |-> in, path |-> path, kind |-> kind, required |-> FALSE,
   default |-> NoDefault, allowed |-> {}, nullable |-> FALSE, secret |-> FALSE, map |-> FALSE,
   root |-> FALSE, disc |-> NoName, branch |-> {}, branchRequired |-> FALSE,
   style |-> NoStyle, explode |-> NoStyle, json |-> FALSE, wrapper |-> NoName]

Req(row) == [row EXCEPT !.required = TRUE]
Row(path, kind) == Field(path[Len(path)], "body", path, kind)
Param(n, in, kind) == Field(n, in, NoPath, kind)

MCResponses == <<[status |-> <<>>, success |-> FALSE], [status |-> <<2>>, success |-> TRUE],
                 [status |-> <<2, 4>>, success |-> TRUE], [status |-> <<4>>, success |-> FALSE]>>

Base(method) ==
  [method |-> method, placeholders |-> <<>>, tool |-> <<>>, params |-> <<>>, rows |-> <<>>,
   types |-> <<>>, selected |-> NoType, hasBody |-> FALSE, bodyRequired |-> FALSE,
   schemaType |-> "object", schemes |-> {}, requirements |-> <<>>, files |-> {L(file1)},
   responses |-> MCResponses, envelope |-> [paths |-> <<>>, metadata |-> {}]]

WithBody(o, ct, rows) ==
  [o EXCEPT !.hasBody = TRUE, !.rows = rows, !.types = <<[type |-> ct, rows |-> rows]>>,
             !.selected = ct]

(* A path and a body that both have an id.                                 *)
Rename ==
  [WithBody(Base("PUT"), "json", <<Req(Row(<<"id">>, "leaf")), Req(Row(<<"name">>, "leaf"))>>)
    EXCEPT !.placeholders = <<"id">>, !.params = <<Req(Param("id", "path", "leaf"))>>,
           !.bodyRequired = TRUE]

(* A list of items whose fields are given apart, or a whole body.          *)
Order ==
  [WithBody(Base("POST"), "json",
     <<Req(Row(<<"items">>, "array")), Req(Field("sku", "body", <<"items", "[*]", "sku">>, "leaf")),
       Req(Field("qty", "body", <<"items", "[*]", "qty">>, "leaf")),
       [Row(<<"note">>, "leaf") EXCEPT !.default = L(two), !.nullable = TRUE],
       Row(<<"to", "city">>, "leaf")>>)
    EXCEPT !.tool = <<Req(Param("items", NoLocation, "array"))>>, !.bodyRequired = TRUE,
           !.envelope = [paths |-> <<<<"data", "[*]">>, <<"data">>>>, metadata |-> {"total"}]]

(* Two content types, of which the first has a default.                    *)
JsonRows == <<Row(<<"title">>, "leaf"), [Row(<<"lang">>, "leaf") EXCEPT !.default = L(one)]>>
Upload ==
  [Base("POST") EXCEPT !.hasBody = TRUE, !.rows = JsonRows, !.selected = "json",
    !.types = <<[type |-> "json", rows |-> JsonRows],
                [type |-> "form", rows |-> <<Row(<<"q">>, "leaf"), Row(<<"title">>, "leaf"), Row(<<"size">>, "leaf")>>]>>]

(* Styles, keys and secrets.                                               *)
Search ==
  [Base("GET") EXCEPT
    !.placeholders = <<"site">>,
    !.params = <<Req([Param("site", "path", "array") EXCEPT !.style = "matrix", !.explode = TRUE]),
                 [Param("filter", "query", "object") EXCEPT !.style = "deepObject"],
                 [Param("ids", "query", "array") EXCEPT !.explode = FALSE],
                 [Param("key", "header", "leaf") EXCEPT !.secret = TRUE, !.default = L(one)],
                 [Param("page", "query", "leaf") EXCEPT !.default = L(one), !.allowed = {L(one)}]>>,
    !.schemes = {[name |-> "k", type |-> "apikey", key |-> "key", in |-> "header"],
                 [name |-> "b", type |-> "bearer", key |-> NoName, in |-> "header"]},
    !.requirements = <<{"k"}, {"b"}>>]

(* A parameter that has the name of the key of another location.           *)
Keyed ==
  [Base("GET") EXCEPT
    !.params = <<[Param("key", "query", "object") EXCEPT !.explode = TRUE],
                 Req([Param("tags", "cookie", "array") EXCEPT !.explode = TRUE])>>,
    !.schemes = {[name |-> "k", type |-> "apikey", key |-> "key", in |-> "header"]},
    !.requirements = <<{"k"}>>]

(* One of two kinds of a thing.                                            *)
Branch(row, v) == [row EXCEPT !.disc = "kind", !.branch = {L(v)}]
Adopt ==
  WithBody(Base("POST"), "json",
    <<[Req(Row(<<"kind">>, "leaf")) EXCEPT !.allowed = {L(dog), L(cat)}],
      Branch([Row(<<"barks">>, "leaf") EXCEPT !.branchRequired = TRUE], dog),
      Branch([Row(<<"meows">>, "leaf") EXCEPT !.branchRequired = TRUE], cat)>>)

(* A body that is an array.                                                *)
Bulk ==
  [WithBody(Base("POST"), "json",
     <<Req(Field("a", "body", <<"[*]", "a">>, "leaf")), Req(Field("b", "body", <<"[*]", "b">>, "leaf"))>>)
    EXCEPT !.schemaType = "array"]

(* A form of parts: a file, an object and a list.                          *)
Attach ==
  WithBody(Base("PATCH"), "multipart",
    <<Req(Row(<<"blob">>, "leaf")), Row(<<"meta">>, "object"), Req(Row(<<"meta", "title">>, "leaf")),
      Row(<<"tags">>, "array"), Field("label", "body", <<"tags", "[*]", "label">>, "leaf"),
      [Row(<<"extra">>, "leaf") EXCEPT !.map = TRUE]>>)

(* A body of a method that sends none.                                     *)
Purge ==
  [WithBody(Base("DELETE"), "json", <<Req(Row(<<"reason">>, "leaf")), Row(<<"id">>, "leaf")>>)
    EXCEPT !.placeholders = <<"id">>, !.requirements = <<{"k"}>>,
           !.schemes = {[name |-> "k", type |-> "apikey", key |-> "token", in |-> "header"]}, !.tool = <<Param("force", NoLocation, "leaf")>>]

(* Query parameters that are the fields of one JSON value.                 *)
Content(n) == [Param(n, "query", "leaf") EXCEPT !.path = <<n>>, !.wrapper = "where", !.json = TRUE]
Query2 == [Base("GET") EXCEPT !.params =
             <<Req(Content("from")), Content("upto"),
               [Param("where", "query", "object") EXCEPT !.json = TRUE]>>]

(* The menus: for each operation the values an argument may have.          *)
Obj1(k, x) == Obj([j \in {k} |-> x])
Whole1 == Obj([items |-> Arr(<<Obj([sku |-> L(one), qty |-> L(two)])>>)])
Whole2 == Obj([items |-> Arr(<<Obj([sku |-> L(one)])>>)])

Menus ==
  [rename |-> [id |-> {L(one)}, name |-> {L(two), Null}, body |-> {Obj1("name", L(two))}],
   order |-> [sku |-> {L(one), Pair2(one, two)}, qty |-> {L(one), Pair2(one, two)},
                       items |-> {Arr(<<Obj([sku |-> L(one), qty |-> L(one)])>>)},
                       note |-> {L(one), Null}, city |-> {L(one)}, body |-> {Whole1, Whole2}],
   upload |-> [title |-> {L(one)}, lang |-> {L(two)}, q |-> {L(one)}, size |-> {L(one)}, other |-> {L(one)}],
   search |-> [site |-> {Pair2(one, two)},
                       filter |-> {Obj([a |-> L(one), b |-> Obj1("c", Pair2(one, two)), d |-> Null]), L(one)},
                       ids |-> {Pair2(one, two), Arr(<<L(one), Null>>)}, key |-> {L(one)},
                       page |-> {L(one), L(two)}],
   keyed |-> [key |-> {Obj1("k", L(one)), L(one)}, tags |-> {Pair2(one, two), Null}],
   adopt |-> [kind |-> {L(dog), L(cat)}, barks |-> {L(one)}, meows |-> {L(one)},
                       body |-> {Obj([kind |-> L(dog)]), Obj([kind |-> L(dog), barks |-> L(one)]),
                                 Obj([kind |-> L(cat), barks |-> L(one), meows |-> L(one)])}],
   bulk |-> [a |-> {L(one), Pair2(one, two)}, b |-> {L(two), Pair2(two, one)},
                       body |-> {Arr(<<Obj([a |-> L(one), b |-> L(one)]), Obj([a |-> L(one)])>>)}],
   attach |-> [blob |-> {L(file1), L(one)}, meta |-> {Obj1("x", L(one))}, title |-> {L(one)},
                       label |-> {L(one), Pair2(one, two)}, extra |-> {L(one)}],
   purge |-> [id |-> {L(one)}, reason |-> {L(one)}, token |-> {L(two)}, force |-> {L(one)}],
   query2 |-> [from |-> {L(one)}, upto |-> {L(two), Null}, where |-> {Obj1("from", L(two))}]]

MCOperations ==
  [rename |-> Rename, order |-> Order, upload |-> Upload, search |-> Search, keyed |-> Keyed,
   adopt |-> Adopt, bulk |-> Bulk, attach |-> Attach, purge |-> Purge, query2 |-> Query2]

Pick(menu) ==
  FoldLeft(LAMBDA S, n : S \cup {[m \in DOMAIN f \cup {n} |-> IF m = n THEN v ELSE f[m]] :
                                   f \in S, v \in menu[n]},
           {Empty}, SetToSeq(DOMAIN menu))

Anonymous == [headers |-> {}, cookies |-> {}, authorization |-> NoName]
LoggedIn  == [headers |-> {"Authorization"}, cookies |-> {"tags", "token"}, authorization |-> "bearer"]

Reply(status, b) == [status |-> status, body |-> b]
MCReplies == {Reply(<<2, 4>>, Obj([data |-> Arr(<<L(one)>>), total |-> L(two)])),
              Reply(<<2, 0>>, Obj([total |-> L(two)])), Reply(<<4, 4>>, Arr(<<>>)),
              Reply(<<5, 0>>, L(one)), Unreachable}

Modes == {<<TRUE, TRUE, TRUE>>, <<TRUE, FALSE, TRUE>>, <<FALSE, FALSE, FALSE>>}

CallsOf(o) ==
  {[op |-> o, given |-> f, session |-> s, validate |-> m[1], values |-> m[2], defaults |-> m[3],
    dry |-> d, reply |-> r] :
     f \in Pick(Menus[o]), s \in {Anonymous, LoggedIn}, m \in Modes, d \in {TRUE}, r \in {Unreachable}}
  \cup
  {[op |-> o, given |-> f, session |-> LoggedIn, validate |-> TRUE, values |-> TRUE, defaults |-> TRUE,
    dry |-> FALSE, reply |-> r] : f \in Pick(Menus[o]), r \in MCReplies}

MCCalls == UNION {CallsOf(o) : o \in DOMAIN MCOperations}
=============================================================================
