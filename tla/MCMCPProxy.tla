----------------------------- MODULE MCMCPProxy -----------------------------
(***************************************************************************)
(* Two backends that share a tool name and are redeployed between starts:  *)
(* plain names, and the names of a backend that is itself a proxy.         *)
(***************************************************************************)
EXTENDS MCPProxy

MCBackends == <<<<"A">>, <<"B">>>>

Listing(a, b) == [x \in Range(MCBackends) |-> IF x = <<"A">> THEN a ELSE b]

Plain(a, b) == Listing([i \in DOMAIN a |-> <<a[i]>>], [i \in DOMAIN b |-> <<b[i]>>])

\* A name in common, over and under the threshold; a tool that comes and
\* goes, one with the name of a meta tool; A and B alone list the same
PlainOfferings ==
  {Plain(<<"read", "search_tools">>, <<"read">>),
   Plain(<<"read", "list">>, <<"read">>),
   Plain(<<"read">>, <<"read">>)}

NestedOfferings ==
  {Listing(<<<<"A", "read">>, <<"list">>>>, <<<<"list">>, <<"read">>>>)}

OneSession(r) == "s1"
TwoSessions(r) == IF r = "r1" THEN "s1" ELSE "s2"
MCOne == [r \in Requests |-> OneSession(r)]
MCTwo == [r \in Requests |-> TwoSessions(r)]

MCMeta == {<<"search_tools">>, <<"get_tool_schema">>, <<"call_backend_tool">>}
============================================================================
