-------------------------- MODULE MCPlanExecution --------------------------
(***************************************************************************)
(* An order lookup.  t needs an order number, which a returns, and a stock *)
(* count, from c or d; both need a warehouse, which e spells differently.  *)
(***************************************************************************)
EXTENDS PlanExecution

MCToolOrder == <<"a", "c", "d", "e", "t">>
MCFold(name) == CASE name = "ordNo" -> "ordno" [] name = "w_h" -> "wh" [] OTHER -> name
MCIdOf(n) == <<"s1", "s2", "s3", "s4", "s5">>[n]

In(field) == [field |-> field, tag |-> "", alias |-> "", required |-> TRUE, kind |-> "data"]
Out(field) == [field |-> field, tag |-> "", alias |-> "", many |-> FALSE]

MCGraph ==
  [consumes |-> [a |-> <<>>, c |-> <<In("wh")>>, d |-> <<In("wh")>>, e |-> <<>>,
                 t |-> <<In("ordNo"), In("stock")>>],
   produces |-> [a |-> <<Out("ordNo")>>, c |-> <<Out("stock")>>,
                 d |-> <<Out("stock")>>, e |-> <<Out("w_h")>>, t |-> <<>>],
   edges |-> {}, outside |-> {}, pairs |-> {<<"t", "c">>}, enums |-> {},
   defaults |-> {}, prefer |-> <<>>, maxDepth |-> 5,
   action |-> [x \in Tools |-> ""]]

MCRequests == [target : {"t"}, ents : {{}, {"wh"}, {"stock"}}]

MCConfigurations ==
  {[onError |-> "recover", policy |-> FALSE, retryAll |-> FALSE, maxAttempts |-> 1,
    repairer |-> TRUE, maxRepairs |-> 3, recovery |-> r, input |-> i] :
      r \in BOOLEAN, i \in {NoInput, [NoInput EXCEPT !["stock"] = "declared"]}}
============================================================================
