--------------------------- MODULE MCObservation ---------------------------
EXTENDS Observation

Binding(head, field) == [head |-> head, field |-> field]

Step(id, tool, bindings) == [id |-> id, tool |-> tool, bindings |-> bindings, depends |-> {}]

FindThenPay ==
  <<Step("s1", "find", {}), Step("s2", "pay", {Binding("s1", "order_id")})>>

MCDeletable == {<<"find", "pay">>}

(* Two targets asked for alike, reached in one step or two.                *)
MCRuns ==
  {[family |-> "pay", target |-> "pay", steps |-> FindThenPay, handing |-> FALSE],
   [family |-> "pay", target |-> "read", steps |-> <<Step("s1", "read", {})>>,
    handing |-> TRUE]}

MCNames == <<"find", "pay", "pay__2", "read">>

MCLooseKey ==
  [f \in {"orderId", "order_id", "shopId", "shopNo", "token"} |->
     IF f \in {"orderId", "order_id"} THEN "orderid" ELSE f]

Consume(field, sem) ==
  [field |-> field, sem |-> sem, alias |-> "", required |-> TRUE, kind |-> "data"]
Described(row, alias) == [row EXCEPT !.alias = alias]

Row(field, sem, path) ==
  [field |-> field, sem |-> sem, alias |-> "", path |-> path, only |-> AnyConsumer, score |-> 1,
   guessed |-> FALSE]

Tool(name, operation, consumes, produces, links, pairs) ==
  [name |-> name, operation |-> operation, ref |-> "/" \o name, action |-> "read",
   pairs |-> pairs, links |-> links, consumes |-> consumes, produces |-> produces]

Relation(source, target, relation, layer, conf) ==
  [source |-> source, target |-> target, relation |-> relation, layer |-> layer, conf |-> conf]

FindTool(links, pairs) == Tool("find", "find", <<>>,
  <<Row("orderId", "order", "$.id"), Described(Row("shopNo", "", ""), "shop number")>>,
  links, pairs)

Pay == Tool("pay", "pay",
  <<Consume("order_id", ""), Described(Consume("shopId", ""), "shop number")>>,
  <<Row("token", "", "$.token")>>, <<>>, <<>>)

Read == Tool("read", "read", <<Consume("orderId", "order")>>,
  <<Row("orderId", "order", "$.id"), [Row("token", "", "$.t") EXCEPT !.only = {"pay"}]>>,
  <<>>, <<[tool |-> "pay", manual |-> FALSE], [tool |-> "find", manual |-> TRUE]>>)

Workflow1(kind, bindings) ==
  [source |-> "find", target |-> "pay", kind |-> kind, bindings |-> bindings]

PayThenRead == [source |-> "pay", target |-> "read", kind |-> "sequential", bindings |-> <<>>]

Bound == <<[from |-> "$.id", field |-> "order_id", source |-> ""]>>

LinkTo(operation, ref, params) ==
  [operation |-> operation, ref |-> ref, success |-> TRUE, params |-> params]

FromBody(field, from) == [field |-> field, from |-> from, source |-> "response_body"]

MCCollections ==
  { \* contracts and workflows on what detectors found, in either order
    [tools |-> <<FindTool(<<>>, <<>>), Pay, Read>>,
     detected |-> <<Relation("find", "pay", "complementary", 1, 90),
                    Relation("pay", "find", "precedes", 2, 75),
                    Relation("read", "pay", "requires", 1, 95),
                    Relation("read", "find", "similar_to", 2, 50)>>,
     workflows |-> <<Workflow1("explicit_binding", Bound)>>],
    [tools |-> <<Read, Pay, FindTool(<<>>, <<[tool |-> "pay", manual |-> TRUE]>>)>>,
     detected |-> <<>>, workflows |-> <<Workflow1("sequential", <<>>)>>],
    \* links, by an id two tools share and by the place of one of them;
    \* two tools before another, at the limit of one
    [tools |-> <<FindTool(<<LinkTo("pay", "", <<FromBody("order_id", "$.id")>>),
                        LinkTo("", "/read", <<>>),
                        LinkTo("read", "", <<FromBody("orderId", "$.id")>>)>>, <<>>),
                 Pay, [Pay EXCEPT !.name = "pay__2", !.ref = "/pay__2"], Read>>,
     detected |-> <<Relation("pay__2", "read", "precedes", 2, 75)>>,
     workflows |-> <<PayThenRead>>],
    \* one tool
    [tools |-> <<Pay>>, detected |-> <<>>, workflows |-> <<>>] }

(* One flow and one tool, for long series of attempts.                     *)
MCOneRun == {r \in MCRuns : r.target = "pay"}

MCOneTool == {c \in MCCollections : Len(c.tools) = 1}
=============================================================================
