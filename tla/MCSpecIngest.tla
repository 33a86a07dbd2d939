---------------------------- MODULE MCSpecIngest ----------------------------
(***************************************************************************)
(* Documents of one, two and three path items out of a pool of eleven, in  *)
(* every order: a schema used as body and as answer, parts, alternatives   *)
(* with a declared and an undeclared discriminator, the latter in          *)
(* something read-only, examples that show marked and undeclared fields,   *)
(* maps, arrays and scalars as roots, a pair of schemas that refer to each *)
(* other, wrappers in the query, repeated, missing and colliding ids,      *)
(* credentials declared as parameters.                                     *)
(***************************************************************************)
EXTENDS SpecIngest

Obj(kids, required) == [Node("object") EXCEPT !.kids = kids, !.required = required]
Str == Node("string")
RefTo(n) == [Empty EXCEPT !.ref = n]
Prop(n, s) == Kid("prop", n, s)
ArrayOf(s) == [Node("array") EXCEPT !.kids = <<Kid("items", "", s)>>]
MapOf(s) == [Node("object") EXCEPT !.kids = <<Kid("map", "", s)>>]
ReadOnly(s) == [s EXCEPT !.readOnly = TRUE]
WriteOnly(s) == [s EXCEPT !.writeOnly = TRUE]

Card == Obj(<<Prop("kind", Str), Prop("number", Str)>>, {"kind", "number"})
Bank == Obj(<<Prop("iban", Str)>>, {"iban"})
Payment == [Empty EXCEPT !.kids = <<Prop("amount", Str), Kid("oneOf", "", Card),
                                    Kid("oneOf", "", RefTo("Bank"))>>, !.disc = "kind"]

Audit == ReadOnly(Obj(<<Prop("by", Str), Prop("at", Obj(<<Prop("day", Str)>>, {}))>>, {}))

Refund ==
  Obj(<<Prop("note", Str),
        Prop("paid", ReadOnly([Empty EXCEPT !.kids = <<Kid("oneOf", "", RefTo("Bank")),
                                                       Kid("oneOf", "", Card)>>,
                                            !.disc = "method"]))>>, {"note"})

MCSchemas ==
  [Pet |-> Obj(<<Prop("id", ReadOnly(Str)), Prop("name", Str), Prop("pin", WriteOnly(Str)),
                 Prop("audit", RefTo("Audit"))>>, {"id", "name"}),
   Audit |-> Audit,
   Page |-> Obj(<<Prop("items", ArrayOf(RefTo("Pet"))), Prop("total", Str)>>, {}),
   Named |-> [Empty EXCEPT !.kids = <<Kid("allOf", "", RefTo("Pet")),
                                      Kid("allOf", "", Obj(<<Prop("tag", Str)>>, {"tag"}))>>],
   Bank |-> Bank,
   Refund |-> Refund,
   Payment |-> Payment,
   Order |-> Obj(<<Prop("no", Str), Prop("buyer", RefTo("Customer"))>>, {"no"}),
   Customer |-> Obj(<<Prop("mail", Str), Prop("orders", ArrayOf(RefTo("Order")))>>, {})]

Media(type, s) == [type |-> type, schema |-> s, examples |-> <<>>]
Json(s) == <<Media("application/json", s)>>
JsonLikeThis(s, value) == <<[Media("application/json", s) EXCEPT !.examples = <<value>>]>>
NoBody == [content |-> <<>>, required |-> FALSE]
Answers(s) == [Undeclared EXCEPT !.content = Json(s)]

Op(id, method) ==
  [id |-> id, method |-> method, deprecated |-> FALSE, tags |-> <<>>, params |-> <<>>,
   body |-> NoBody, responses |-> <<>>, security |-> Inherited, servers |-> <<>>]

Param(name, in, required) ==
  [name |-> name, in |-> in, required |-> required, style |-> "", schema |-> Str,
   content |-> <<>>]

Item(path, ops) == [path |-> path, params |-> <<>>, servers |-> <<>>, ops |-> ops]

Server1(url, values) == <<[url |-> url, variables |-> values]>>

(* An example of a Pet: a read-only, a write-only and undeclared fields.    *)
NewPet ==
  Obj(<<Prop("id", Str), Prop("pin", Str),
        Prop("toys", ArrayOf(Obj(<<Prop("sort", Str)>>, {})))>>, {})

Pets ==
  Item("/pets",
    <<[Op("list", "get") EXCEPT
         !.tags = <<"pets">>, !.params = <<Param("limit", "query", FALSE)>>,
         !.responses = [c \in {"200", "404"} |->
            IF c = "200" THEN [Answers(RefTo("Page")) EXCEPT !.headers = <<"next">>,
                                                             !.links = <<"getPet">>]
            ELSE Undeclared]],
      [Op("create", "post") EXCEPT
         !.body = [content |-> JsonLikeThis(RefTo("Pet"), NewPet), required |-> TRUE],
         !.responses = [c \in {"201", "default"} |->
                          [Undeclared EXCEPT !.content = JsonLikeThis(RefTo("Pet"), NewPet)]]]>>)

Pet ==
  [Item("/pets/{id}",
    <<[Op("list", "get") EXCEPT
         !.responses = [c \in {"200"} |-> Answers(RefTo("Named"))],
         !.params = <<[Param("id", "path", TRUE) EXCEPT !.schema = Node("integer")]>>],
      [Op("", "put") EXCEPT
         !.body = [content |-> Json(RefTo("Named")), required |-> TRUE], !.security = <<>>],
      [Op("drop", "delete") EXCEPT !.deprecated = TRUE]>>)
   EXCEPT !.params = <<Param("id", "path", FALSE), Param("trace", "header", FALSE)>>,
          !.servers = Server1("pets", [v \in {} |-> NoName])]

Payments ==
  Item("/payments",
    <<[Op("pay", "post") EXCEPT
         !.body = [content |-> <<[Media("text/csv", Empty) EXCEPT !.examples = <<Card, Str>>],
                                 Media("*/*", Bank),
                                 Media("application/hal+json", RefTo("Payment"))>>,
                   required |-> TRUE],
         !.security = << <<"key">>, <<"key", "login">> >>,
         !.params = <<Param("X-Key", "header", TRUE)>>],
      [Op("refund", "post") EXCEPT
         !.body = [content |-> Json(RefTo("Refund")), required |-> TRUE]]>>)

Wrapper == [Param("filter", "query", TRUE) EXCEPT
              !.schema = Obj(<<Prop("q", Str), Prop("page", Obj(<<Prop("no", Str)>>, {"no"}))>>, {"q"})]

Search ==
  Item("/search",
    <<[Op("search", "get") EXCEPT
         !.params = <<Wrapper,
                      [Param("sort", "query", FALSE) EXCEPT !.schema = ArrayOf(Bank),
                                                            !.style = "deepObject"],
                      [Param("json", "query", FALSE) EXCEPT !.schema = Empty,
                                                            !.content = Json(RefTo("Bank"))]>>,
         !.servers = Server1("search", [v \in {"zone"} |-> NoName]),
         !.security = << <<"login">>, <<>> >>,
         !.responses = [c \in {"2XX"} |-> Answers(MapOf(Str))]]>>)

Siblings ==
  Item("/search",
    <<[Op("find", "get") EXCEPT
         !.params = <<[Wrapper EXCEPT !.schema = Obj(<<Prop("q", Str)>>, {})],
                      Param("q", "query", FALSE)>>]>>)

Flags ==
  Item("/{flags}",
    <<[Op("flags", "put") EXCEPT
         !.body = [content |-> Json(ArrayOf(RefTo("Bank"))), required |-> TRUE],
         !.responses = [c \in {"200", "default"} |->
                          IF c = "200" THEN Undeclared ELSE Answers(Str)]],
      [Op("limits", "patch") EXCEPT
         !.body = [content |-> Json(MapOf(RefTo("Pet"))), required |-> FALSE],
         !.responses = [c \in {"200"} |-> Answers(MapOf(RefTo("Bank")))]]>>)

Orders == Item("/orders", <<[Op("order", "get") EXCEPT
                               !.responses = [c \in {"200"} |-> Answers(RefTo("Order"))]]>>)
Customers == Item("/customers", <<[Op("customer", "get") EXCEPT
                               !.responses = [c \in {"200"} |-> Answers(RefTo("Customer"))]]>>)

A == Item("/a", <<Op("getA", "get"), Op("getA", "post")>>)
B == Item("/b", <<Op("getA", "get"), Op("getA", "head")>>)
C == Item("/b/", <<Op("getA", "get"), Op("getA__get_b", "post")>>)

MCSlug == [p \in {"/pets", "/pets/{id}", "/payments", "/search", "/{flags}", "/orders",
                  "/customers", "/a", "/b", "/b/"} |->
  CASE p = "/pets" -> "pets" [] p = "/pets/{id}" -> "pets_by_id" [] p = "/payments" -> "payments"
    [] p = "/search" -> "search" [] p = "/{flags}" -> "by_flags" [] p = "/orders" -> "orders"
    [] p = "/customers" -> "customers" [] p = "/a" -> "a" [] OTHER -> "b"]
MCSuffix == [p \in DOMAIN MCSlug |-> "_" \o MCSlug[p]]
MCSegment == [p \in DOMAIN MCSlug |->
  IF p = "/{flags}" THEN NoName ELSE IF p = "/pets/{id}" THEN "pets" ELSE MCSlug[p]]

Pool == {Pets, Pet, Payments, Search, Flags, Orders, Customers}
Names == {A, B, C}

MCSchemes ==
  [key |-> [type |-> "apiKey", in |-> "header", name |-> "X-Key"],
   login |-> [type |-> "oauth2", in |-> "", name |-> ""]]

Document(its, security) ==
  [swagger2 |-> FALSE, items |-> its, schemas |-> MCSchemas, schemes |-> MCSchemes,
   security |-> security, servers |-> Server1("api", [v \in {} |-> NoName])]

BodyParam == [Param("pet", "body", TRUE) EXCEPT !.schema = RefTo("Pet")]

Old ==
  [Document(<<Item("/pets", <<[Op("create", "post") EXCEPT
                !.params = <<BodyParam, [Param("ids", "query", FALSE) EXCEPT
                                           !.schema = ArrayOf(Str)]>>,
                !.responses = [c \in {"200"} |-> Answers(RefTo("Pet"))]]>>)>>, <<>>)
   EXCEPT !.swagger2 = TRUE]

Secured == << <<"key">>, <<"nobody">> >>

MCSpecs ==
  {Document(s, Secured) : s \in {t \in Pool \X Pool : t[1] # t[2]}}
  \cup {Document(s, <<>>) : s \in {t \in Names \X Names \X Names :
                                     Cardinality({t[1], t[2], t[3]}) = 3}}
  \cup {Document(<<x>>, <<>>) : x \in Pool \cup {Siblings}} \cup {Old}

MCSuccess == <<"200", "201">>
MCErrors == <<"404">>
=============================================================================
