---------------------------- MODULE MCSynthesis ----------------------------
(***************************************************************************)
(* Requests over the tools a, b, t.  "Shapes" is every way to wire two     *)
(* fields, cycles included; "signals" varies everything that ranks, admits *)
(* or refuses a producer of one field.                                     *)
(***************************************************************************)
EXTENDS Synthesis

In(field) == [field |-> field, tag |-> "", alias |-> "", required |-> TRUE, kind |-> "data"]
Out(field) == [field |-> field, tag |-> "", alias |-> "", many |-> FALSE]

MCToolOrder == <<"a", "b", "t">>

MCFold(name) == IF name \in {"ordNo", "ord_no", "ordno"} THEN "ordno" ELSE name

Plain == [edges |-> {}, outside |-> {}, pairs |-> {}, enums |-> {}, defaults |-> {},
          prefer |-> <<>>, maxDepth |-> 5, action |-> [t \in AllTools |-> ""]]

Graph(base, consumes, produces) ==
  [consumes |-> consumes, produces |-> produces, edges |-> base.edges,
   outside |-> base.outside, pairs |-> base.pairs, enums |-> base.enums,
   defaults |-> base.defaults, prefer |-> base.prefer,
   maxDepth |-> base.maxDepth, action |-> base.action]

Inputs == {<<>>, <<In("f")>>, <<In("g")>>, <<In("f"), In("g")>>, <<In("g"), In("f")>>}
Outputs == {<<>>, <<Out("f")>>, <<Out("g")>>, <<Out("f"), Out("g")>>}

ShapeGraphs ==
  {Graph([Plain EXCEPT !.maxDepth = d], [a |-> ia, b |-> ib, t |-> it],
         [a |-> oa, b |-> ob, t |-> <<>>]) :
     ia \in Inputs, ib \in Inputs, it \in Inputs \ {<<>>},
     oa \in Outputs, ob \in Outputs, d \in {1, 5}}

ShapeRequests ==
  [g : ShapeGraphs, target : {"t"}, ents : {{}, {"f"}}, excl : {{}, {"a"}, {"a", "b"}}]

Row == {[In("ordNo") EXCEPT !.tag = tag, !.required = req, !.kind = kind] :
          tag \in {"", "order"}, req \in BOOLEAN, kind \in {"data", "ambient"}}
Product == {[Out(f) EXCEPT !.tag = tag, !.many = many, !.alias = alias] :
              f \in {"ordNo", "ord_no", "ordno"}, tag \in {"", "order"},
              many \in BOOLEAN, alias \in {"", "no"}}
Edges == {{}, {[from |-> "t", to |-> "b", conf |-> "EXTRACTED"]},
          {[from |-> "t", to |-> "b", conf |-> "AMBIGUOUS"]}}

SignalBases ==
  {[Plain EXCEPT !.edges = e, !.action = [a |-> "search", b |-> act, t |-> tact],
                 !.enums = en, !.outside = o, !.pairs = p] :
     e \in Edges, act \in {"", "read", "create"}, tact \in {"", "search"},
     en \in {{}, {"ordNo"}}, o \in {{}, {<<"t", "b">>}}, p \in {{}, {<<"t", "b">>}}}

SignalGraphs ==
  {Graph(base, [a |-> <<In("f")>>, b |-> ib, t |-> <<row>>],
         [a |-> <<Out("ordNo")>>, b |-> <<product>>, t |-> <<>>]) :
     base \in SignalBases, ib \in {<<>>, <<In("ordNo")>>}, row \in Row, product \in Product}

SignalRequests ==
  [g : SignalGraphs, target : {"t"}, ents : {{}}, excl : {{}}]
    \cup [g : {Graph([Plain EXCEPT !.prefer = <<"t", "ordno">> :> "b",
                                   !.defaults = {"order"}],
                     [a |-> <<>>, b |-> <<>>, t |-> <<row>>],
                     [a |-> <<Out("ordNo")>>, b |-> <<product>>, t |-> <<>>]) :
                row \in Row, product \in Product},
          target : {"t", "x"}, ents : {{}, {"ordNo"}}, excl : {{}, {"a"}, {"b"}}]

(* One name per row, in different spellings, for the two violation runs.   *)
SpellingRequests ==
  [g : {Graph(Plain, [a |-> <<>>, b |-> <<In(f)>>, t |-> <<In(f)>>],
              [a |-> <<Out(p)>>, b |-> <<Out(p), Out("g")>>, t |-> <<>>]) :
          f \in {"ordNo", "ord_no", "ordno"}, p \in {"ordNo", "ord_no", "ordno"}},
   target : {"t", "b"}, ents : {{}, {"g"}, {"ordNo"}, {"ord_no"}},
   excl : {{}, {"a"}, {"b"}}]

MCRequests == ShapeRequests \cup SignalRequests
============================================================================
