-------------------------- MODULE MCTargetPipeline --------------------------
(***************************************************************************)
(* Small catalogs for TargetPipeline: one family of requests varies what   *)
(* the tools need and produce, the other what their descriptions say.      *)
(***************************************************************************)
EXTENDS TargetPipeline

MCToolOrder == <<"a", "b", "c", "t">>
Four == ToSet(MCToolOrder)

-----------------------------------------------------------------------------
(* Contracts.                                                              *)
Contract == {"api_contract"}
Needs(key) == [tag |-> key, field |-> key, type |-> "string", kind |-> "data",
               required |-> TRUE, scope |-> FALSE, sources |-> Contract]
Gives(key) == [tag |-> key, field |-> key, type |-> "string", sources |-> Contract]
GivesNumber(key) == [Gives(key) EXCEPT !.type = "number"]
NeedsAs(tag, field) == [Needs(tag) EXCEPT !.field = field]
GivesAs(tag, field) == [Gives(tag) EXCEPT !.field = field]
Optionally(key) == [Needs(key) EXCEPT !.required = FALSE]
Header(key) == [Needs(key) EXCEPT !.scope = TRUE]

(* t needs x, perhaps y; a gives x and needs y; b gives y, may need z or x *)
(* and may give x under another tag; c gives z, may need x under another   *)
(* field and may pass it on: chains, diamonds and cycles.                  *)
OfTarget == <<<<Needs("x")>>, <<Needs("x"), Needs("y")>>, <<Header("w"), Needs("y"), Needs("x")>>>>
OfB == <<<<Optionally("w")>>, <<Needs("z")>>, <<Needs("x")>>>>
OfC == <<<<>>, <<NeedsAs("x", "w")>>>>
Produces ==
  <<[t |-> <<>>, a |-> <<Gives("x")>>, b |-> <<Gives("y")>>, c |-> <<Gives("z")>>],
    [t |-> <<>>, a |-> <<Gives("x")>>, b |-> <<Gives("y"), GivesAs("w", "x")>>, c |-> <<Gives("z")>>],
    [t |-> <<>>, a |-> <<Gives("x")>>, b |-> <<Gives("y")>>, c |-> <<GivesNumber("z"), Gives("x")>>]>>

Edge(from, to, rel, strong, sources, fields) ==
  [from |-> from, to |-> to, rel |-> rel, strong |-> strong, manual |-> FALSE,
   sources |-> sources, fields |-> fields]
Manual(e) == [e EXCEPT !.manual = TRUE]
Edges == <<<<>>,
          <<Manual(Edge("t", "c", "requires", TRUE, {}, {}))>>,
          <<Manual(Edge("t", "b", "requires", FALSE, {"name_based"}, {})), Edge("a", "t", "precedes", FALSE, {"proven"}, {})>>,
          <<Edge("b", "t", "produces_for", TRUE, Contract, {"x"}), Edge("t", "a", "requires", TRUE, {}, {})>>>>

Setting(query, intent, allow, mutating, available, hops, budget) ==
  [query |-> query, intent |-> intent, allow |-> allow, mutating |-> mutating,
   available |-> available, hops |-> hops, budget |-> budget]
Settings ==
  <<Setting("none", "read", FALSE, {}, {}, 3, NoLimit), Setting("none", "read", FALSE, {}, {}, 1, 4),
   Setting("discovery", "read", TRUE, {"b"}, {}, 2, 3), Setting("discovery", "write", TRUE, {"b"}, {"z"}, 3, 3),
   Setting("concrete", "delete", TRUE, {"a"}, {}, 2, 5), Setting("concrete", "read", FALSE, {"c"}, {"y"}, 3, NoLimit)>>

-----------------------------------------------------------------------------
(* Descriptions.                                                           *)
Query(terms, action, shape, directive) ==
  [terms |-> terms, lastAction |-> action, lastShape |-> shape, directive |-> directive,
   intent |-> "neutral"]
Tool(name, action, resource, shape, surface, brief, consumes, produces) ==
  [name |-> name, action |-> action, resource |-> resource, module |-> "shop", shape |-> shape,
   operation |-> name, surface |-> surface, prose |-> {}, brief |-> brief,
   consumes |-> consumes, produces |-> produces]
Signal(rank, score, learnt) ==
  [rank |-> rank, score |-> Milli(score), learnt |-> Milli(learnt)]

Around(ranking, cap, limit, diverse, width, hops, alike) ==
  [seed |-> <<>>, ranking |-> ranking, cap |-> cap, limit |-> limit, diverse |-> diverse, width |-> width,
   hops |-> hops, worth |-> [n \in Four |-> IF n = "c" THEN 2 ELSE 3], order |-> MCToolOrder,
   alike |-> alike]
Wide == Around(NoRanking, NoCap, NoCap, FALSE, 1, 3, {})
Near == Around([NoRanking EXCEPT !.search = 6, !.read = 4], NoCap, 3, TRUE, 3, 1, {{"t", "a"}, {"a", "c"}})
Capping == Around([NoRanking EXCEPT !.delete = 6], 1, 2, FALSE, 1, 1, {})

Plain == [names |-> <<"t", "c">>,
          tool |-> [n \in {"t", "c"} |-> Tool(n, "read", "", "", {n}, {}, {}, {})],
          query |-> Query({"t"}, "", "", FALSE),
          signal |-> [n \in Four |-> Signal(1, 0, 0)],
          keep |-> {}, least |-> 2, most |-> 2, cap |-> NoCap, cliff |-> Milli(80),
          near |-> Milli(40), tokens |-> [n \in Four |-> 1], limit |-> NoTokens]

(* Every combination of the choices above, one for each i.                 *)
Pick(seq, i, below) == seq[(((i - 1) \div below) % Len(seq)) + 1]
ContractRequest(i) ==
  LET s == Pick(Settings, i, 1) IN
     [tools |-> Four,
      consumes |-> [t |-> Pick(OfTarget, i, 6), a |-> <<Needs("y")>>,
                    b |-> Pick(OfB, i, 18), c |-> Pick(OfC, i, 54)],
      produces |-> Pick(Produces, i, 108), edges |-> Pick(Edges, i, 324),
      mutating |-> s.mutating, learned |-> {<<"t", "b">>}, available |-> s.available,
      context |-> {}, query |-> s.query, intent |-> s.intent, allow |-> s.allow,
      hops |-> s.hops, width |-> 1, cost |-> [n \in Four |-> IF n = "a" THEN 2 ELSE 1],
      budget |-> s.budget, targets |-> Plain, guesses |-> {}, offer |-> Wide]

Queries == <<Query({"list", "refund"}, "search", "list", TRUE),
            Query({"get", "detail", "id", "refund"}, "read", "single", TRUE),
            Query({"list", "all", "large"}, "search", "list", FALSE),
            Query({"list", "matching", "day", "refund"}, "search", "list", FALSE),
            Query({"delete", "order"}, "delete", "", TRUE)>>
Detail(resource) ==
  Tool("b", "read", resource, "single", {"detail", "refund"}, {}, {"id"}, {"refund"})
Foreign == Tool("b", "read", "refund", "", {"list", "refund"}, {}, {"id"}, {"refund"})
Catalog(st, bt, aa, sa, b) ==
  [t |-> Tool("t", "search", "order", "list", {"list", "order"} \cup st, bt, {"day", "refund"}, {}),
   a |-> Tool("a", aa, "order", "", {"order", "list"} \cup sa, sa, {"day"}, {"refund"}),
   b |-> b]
Limits ==
  <<[least |-> 1, most |-> 2, cap |-> NoCap, near |-> Milli(40), limit |-> NoTokens, keep |-> {"b"}],
   [least |-> 2, most |-> 3, cap |-> 1, near |-> 0, limit |-> 3, keep |-> {}],
   [least |-> 1, most |-> 3, cap |-> 1, near |-> 0, limit |-> NoTokens, keep |-> {"a", "c"}]>>
Signals == <<[t |-> Signal(1, 50, 0), a |-> Signal(2, 0, 60), b |-> Signal(3, 0, 0), c |-> Signal(4, 0, 0)],
            [t |-> Signal(0, 0, 0), a |-> Signal(9, 0, 0), b |-> Signal(1, 90, 0), c |-> Signal(2, 0, 0)]>>

Simple == [n \in Four |-> <<>>]
SelectionRequest(i) ==
  LET l == Pick(Limits, i, 5)
         d == Catalog(Pick(<<{}, {"refund"}, {"all"}>>, i, 30), Pick(<<{}, {"large", "day"}>>, i, 90),
                      Pick(<<"search", "read", "delete">>, i, 180),
                      Pick(<<{"large"}, {"refund", "day"}>>, i, 540), Pick(<<Detail("order"), Detail(""), Foreign>>, i, 1080))
     IN [tools |-> {"a", "b", "t"}, consumes |-> Simple, produces |-> Simple, edges |-> <<>>,
         mutating |-> {}, learned |-> {}, available |-> {}, context |-> {}, query |-> "none",
         intent |-> "read", allow |-> FALSE, hops |-> 1, width |-> 1,
         cost |-> [n \in Four |-> 1], budget |-> NoLimit,
         targets |-> [names |-> <<"t", "a", "b", "c">>, tool |-> d, query |-> Pick(Queries, i, 1),
                      signal |-> Pick(Signals, i, 15), keep |-> l.keep, least |-> l.least,
                      most |-> l.most, cap |-> l.cap, cliff |-> Milli(250), near |-> l.near,
                      tokens |-> [n \in Four |-> IF n = "a" THEN 2 ELSE 1], limit |-> l.limit],
         guesses |-> {"b", "elsewhere"}, offer |-> IF l.cap = 1 THEN Near ELSE Capping]

MCRequests == {ContractRequest(i) : i \in 1 .. 3 * 3 * 2 * 3 * 4 * 6}
              \cup {SelectionRequest(i) : i \in 1 .. 5 * 3 * 2 * 3 * 2 * 3 * 2 * 3}
=============================================================================
