---------------------------- MODULE MCToolGraph ----------------------------
(***************************************************************************)
(* Three tools of two sources; one of them has the name of a domain, and   *)
(* one comes in two versions.                                              *)
(***************************************************************************)
EXTENDS ToolGraph

MCSchema(n, d, ts) == [name |-> n, domain |-> d, tags |-> ts]
MCList   == MCSchema("list", "Pets", {})
MCGet    == MCSchema("get", "pets", {"Pets"})
MCGetTwo == MCSchema("get", NoDomain, {})
MCPets   == MCSchema("pets", NoDomain, {})

MCNames == {"list", "get", "pets", "Pets", "new.get"}
MCSchemas == {MCGetTwo, MCPets}
MCBatches == {<<MCList, MCGet>>, <<MCPets, MCGetTwo>>}
MCLabels == {"new"}
MCPrefixed == [p \in (MCLabels \cup {NoLabel}) \X MCNames |-> "new.get"]
MCLower == [n \in {"Pets", "pets"} |-> "pets"]

MCRel(s, t, r) == [source |-> s, target |-> t, rel |-> r]
MCRelated == {MCRel("get", "list", "requires"), MCRel("new.get", "list", "requires")}
MCConflicting == {MCRel("get", "pets", "conflicts_with"), MCRel("pets", "get", "conflicts_with")}
MCStaged == {MCRel("list", "get", "precedes")}
MCWorkflows == {{<<"get", "list">>}}
MCDeclared == {MCRel("get", "list", "complementary"), MCRel("list", "list", "similar_to")}
MCLlmAnswers == {[relations |-> {MCRel("list", "get", "precedes")},
                  categories |-> {<<"list", "Pets">>, <<"gone", "Pets">>}]}
MCClusterings == {{<<"get", "Pets">>, <<"list", "Pets">>}}
MCPairLists == {<<<<"get", "list">>, <<"get", "pets">>>>,
                <<<<"get", "new.get">>, <<"get", "list">>, <<"list", "new.get">>>>}
MCBefore == {<<"get", "list">>, <<"get", "new.get">>, <<"get", "pets">>,
             <<"list", "new.get">>, <<"list", "pets">>, <<"new.get", "pets">>}
MCQuality == [s \in {MCList, MCGet, MCGetTwo, MCPets} \cup
                    {[t EXCEPT !.name = "new.get"] : t \in {MCGet, MCGetTwo, MCList, MCPets}} |->
                IF s.name = "list" THEN 2 ELSE IF s = MCGetTwo THEN 3 ELSE 1]
=============================================================================
