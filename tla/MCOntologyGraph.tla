---------------------------- MODULE MCOntologyGraph ----------------------------
(* Small instances of OntologyGraph for TLC: two entities, two claims that *)
(* meet in one of them, a symmetric predicate and an inverse pair.         *)
EXTENDS OntologyGraph

MCCauseOf == [c \in Claims |-> IF c = "ab" THEN "a" ELSE "b"]
MCEffectOf == [c \in Claims |-> IF c = "ab" THEN "b" ELSE "a"]
MCExtracted == [c \in Claims |-> IF c = "ab" THEN 10 ELSE 9]

MCAddTo == [a \in Adds |-> "ab"]
MCSupports == {}
MCWeightOf == [a \in Adds |-> 19]
MCSourceOf == [a \in Adds |-> "k" \o a]

MCKindOf == [r \in Runs |-> CASE r = "R1" -> "full" [] r = "R2" -> "fast" [] OTHER -> "causals"]
MCEpisodesOf == [r \in Runs |-> CASE r = "R1" -> <<"e1", "e2">>
                                  [] r = "R2" -> <<"e3", "e4">>
                                  [] OTHER -> <<"e1">>]
MCTrust == [r \in Runs |-> IF r = "R1" THEN 1 ELSE 2]

\* A part of Schema.org: member and memberOf are declared inverses.
MCParents == [c \in Classes |-> CASE c = "Thing" -> {}
                                  [] c = "NGO" -> {"Organization"}
                                  [] OTHER -> {"Thing"}]
MCDomain == [p \in Properties |-> IF p = "member" THEN {"Organization"} ELSE {"Person"}]
MCRangeOf == [p \in Properties |-> IF p = "memberOf" THEN {"Organization"} ELSE {"Person"}]
MCInverseOf == [p \in {"member", "memberOf"} |-> IF p = "member" THEN "memberOf" ELSE "member"]
MCManual == [p \in {} |-> p]
MCSpelling == [w \in {"belongs-to", "charity"} |-> IF w = "charity" THEN "NGO" ELSE "memberOf"]

\* The second episode of a group mentions what the first does.
MCEntitiesIn(B) == CASE B = {"e1", "e2"} -> {"a", "b"}
                     [] B \in {{"e1"}, {"e2"}, {"e3", "e4"}} -> {"a"}
                     [] OTHER -> {}
\* One relation of the second group is dropped: a fallback predicate whose
\* range a charity is not in.
MCRelationsIn(B) == CASE B = {"e1", "e2"} -> {<<"a", "charity", "member", "b", "Person">>}
                      [] B = {"e3", "e4"} -> {<<"b", "Person", "belongs-to", "a", "Organization">>,
                                              <<"b", "Person", "supports", "a", "charity">>}
                      [] OTHER -> {}
MCClaimsIn(B) == IF B = {"e1"} \/ B = {"e1", "e2"} THEN {"ab"}
                 ELSE IF B = {"e3", "e4"} THEN {"ba"} ELSE {}
MCSimilar == {<<"e3", "a">>}

\* R1, and at most one of the other two: R3 is the causals worker.  Nothing is
\* assumed of the start of a run, so this leaves the fairness as it is.
MCOneOther == \E r \in {"R2", "R3"} : pc[r] = "new"
MCFairSpec == Init /\ [][Next /\ MCOneOther']_vars /\ \A r \in Runs : WF_vars(RunStep(r))
===============================================================================
