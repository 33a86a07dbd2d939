---------------------------- MODULE MCRetrieval ----------------------------
(* Searches and plans over a shop of six tools in two categories.           *)
EXTENDS WorkflowPlans

Names == <<"cancelOrder", "getCart", "getOrder", "listOrders", "orders", "payOrder",
           "refundOrder", "shop">>

Word(name, text, parts, method, verbs) ==
  [name |-> name, text |-> text, parts |-> parts, method |-> method, verbs |-> verbs]

WordsOf ==
  [cancelOrder |-> Word({"cancelorder"}, {"cancel"}, {"cancel", "order"}, "DELETE", {"write", "delete"}),
   getCart |-> Word({"getcart"}, {"cart"}, {"get", "cart"}, "GET", {"read", "get"}),
   getOrder |-> Word({"getorder"}, {"order", "status"}, {"get", "order"}, "GET", {"read", "get"}),
   listOrders |-> Word({"listorders"}, {"order", "all"}, {"list", "orders"}, "GET", {"read", "get"}),
   orders |-> Word({"orders", "order"}, {}, {}, "", {}),
   payOrder |-> Word({"payorder"}, {"pay", "money"}, {"pay", "order"}, "POST", {"create"}),
   refundOrder |-> Word({"refundorder"}, {"money"}, {"refund", "order"}, "POST", {}),
   shop |-> Word({"shop"}, {"cart", "status"}, {}, "", {})]

Kinds == [n \in ToSet(Names) |-> IF n \in {"orders", "shop"} THEN "category" ELSE "tool"]

Edge(a, r, b) == [from |-> a, to |-> b, relation |-> r]

Belongs == <<Edge("refundOrder", "belongs_to", "orders"), Edge("getOrder", "belongs_to", "orders"),
             Edge("payOrder", "belongs_to", "orders"), Edge("cancelOrder", "belongs_to", "orders"),
             Edge("listOrders", "belongs_to", "shop"), Edge("getCart", "belongs_to", "shop")>>

Shop(edges, members) ==
  [nodes |-> <<"refundOrder", "getOrder", "listOrders", "getCart", "payOrder", "cancelOrder",
               "orders", "shop">>,
   kind |-> Kinds, edges |-> edges \o Belongs, members |-> members]

Chained == <<Edge("refundOrder", "requires", "getOrder"), Edge("refundOrder", "requires", "listOrders"),
             Edge("payOrder", "precedes", "refundOrder"), Edge("getOrder", "requires", "listOrders"),
             Edge("payOrder", "requires", "getCart"), Edge("cancelOrder", "conflicts_with", "refundOrder")>>

Circular == <<Edge("payOrder", "precedes", "refundOrder"), Edge("refundOrder", "precedes", "payOrder"),
              Edge("refundOrder", "requires", "getOrder"), Edge("cancelOrder", "requires", "refundOrder"),
              Edge("getOrder", "complementary", "listOrders"), Edge("listOrders", "precedes", "getOrder")>>

GraphsOf == {Shop(Chained, TRUE), Shop(Circular, TRUE), Shop(Chained, FALSE)}

ToolNames == {n \in ToSet(Names) : Kinds[n] = "tool"}

Plain == [words |-> {"order"}, intent |-> "neutral",
          keyword |-> [getOrder |-> 80, listOrders |-> 70, refundOrder |-> 30],
          clauses |-> <<>>, semantic |-> <<>>, embedding |-> <<>>, annotation |-> <<>>,
          similarity |-> [n \in ToolNames |-> 0], factor |-> [n \in ToolNames |-> 100],
          phrase |-> [n \in ToolNames |-> 100], mention |-> [n \in ToolNames |-> "none"],
          near |-> {}, history |-> <<>>, diverse |-> FALSE, expansions |-> <<>>]

KeywordsOf == {Plain.keyword, [cancelOrder |-> 90, payOrder |-> 62], [getCart |-> 20],
               [getOrder |-> 75, payOrder |-> 74, listOrders |-> 73]}

Pull == [payOrder |-> 100, cancelOrder |-> 40, listOrders |-> 20]

Asked ==
  {[Plain EXCEPT !.keyword = k, !.words = w.words, !.intent = w.intent, !.clauses = c,
                 !.history = h, !.diverse = (c # <<>> /\ h # <<>>),
                 !.semantic = s, !.mention = m, !.near = IF c = <<>> THEN {} ELSE {"getCart"},
                 !.factor = IF s = <<>> THEN [n \in ToolNames |-> 100]
                            ELSE [n \in ToolNames |-> IF n = "getCart" THEN 140 ELSE 90],
                 !.annotation = IF w.intent = "neutral" THEN <<>> ELSE [cancelOrder |-> 90, getOrder |-> 10],
                 !.embedding = [getCart |-> 80, refundOrder |-> 60, cancelOrder |-> 59],
                 !.expansions = IF m = Plain.mention THEN <<>> ELSE << <<[payOrder |-> 50], 7000>> >>] :
     k \in KeywordsOf, c \in {<<>>, Pull}, s \in {<<>>, [getCart |-> 70, payOrder |-> 20]},
     w \in {[words |-> {"order", "status"}, intent |-> "neutral"],
            [words |-> {"money", "refund"}, intent |-> "write"]},
     h \in {<<>>, <<"getOrder">>},
     m \in {Plain.mention, [Plain.mention EXCEPT !["refundOrder"] = "whole", !["payOrder"] = "two",
                                                  !["getCart"] = "same", !["cancelOrder"] = "one"]}}

Engine == [weights |-> Adaptive(FALSE), topK |-> 2, depth |-> 2, prefilter |-> FALSE,
           embedding |-> FALSE, diversity |-> <<>>, reranker |-> <<>>]

EnginesOf ==
  {Engine, [Engine EXCEPT !.topK = 3, !.prefilter = TRUE],
   [Engine EXCEPT !.weights = Adaptive(TRUE), !.embedding = TRUE, !.topK = 3, !.diversity = <<50>>],
   [Engine EXCEPT !.topK = 4, !.embedding = TRUE, !.weights = Adaptive(TRUE), !.prefilter = TRUE,
                  !.reranker = <<"payOrder", "refundOrder", "getOrder", "listOrders", "getCart", "cancelOrder">>]}

Alike == [n \in ToolNames |-> [m \in ToolNames |-> IF WordsOf[n].parts \cap WordsOf[m].parts = {}
                                                   THEN 0 ELSE 33]]

Orders == {Names, Reverse(Names)}

GoalsOf == {[words |-> {"refund"}, intent |-> "write"], [words |-> {"status", "shop"}, intent |-> "read"],
            [words |-> {"pay", "money"}, intent |-> "neutral"], [words |-> {"weather"}, intent |-> "read"]}

AnswersOf == {<<[tool |-> "getOrder", from |-> {}], [tool |-> "unknown", from |-> {}],
                [tool |-> "refundOrder", from |-> {"id"}]>>,
              <<[tool |-> "unknown", from |-> {}]>>}

EditsOf == {<<"refundOrder", "getOrder">>, <<"payOrder">>}
=============================================================================
