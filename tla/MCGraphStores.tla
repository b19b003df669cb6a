----------------------------- MODULE MCGraphStores -----------------------------
(* Small instances of GraphStores for TLC: two curations of a group, and   *)
(* an observation that is dated back, with overlapping knowledge.          *)
EXTENDS GraphStores

MCGroupOf == [w \in Writers |-> "g1"]
MCSectionsOf == [w \in Writers |-> CASE w = "c1" -> <<"reflection">>
                                     [] w = "c2" -> <<"causal_reflection", "reflection">>
                                     [] OTHER -> <<"raw">>]
MCDateOf == [w \in Writers |-> IF w = "o" THEN 1 ELSE NoDate]
MCSourceOf == [w \in Writers |-> IF w = "c1" THEN {<<"o", 1>>} ELSE {}]
MCEntriesOf == [w \in Writers |-> CASE w = "c2" -> <<"x", "y">>
                                    [] w = "o" -> <<"x2">>
                                    [] OTHER -> <<>>]
Contents == {"x", "x2", "y"}
MCDuplicates == {p \in Contents \X Contents : p[1] = p[2] \/ "y" \notin {p[1], p[2]}}
MCSimilars == Contents \X Contents
===============================================================================
