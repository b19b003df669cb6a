--------------------------- MODULE MCSessionObserve ---------------------------
(* Small instances of SessionObserve for TLC: a session and its parent. *)
EXTENDS SessionObserve

MCSessionOf == [c \in Calls |-> "child"]
MCParentOf == [c \in Calls |-> IF c = "c1" THEN "root" ELSE NoSession]
MCModesOf == [c \in Calls |-> IF c = "c1" THEN {"observe"} ELSE Modes]

\* The parent has an episode with a reflection and a fact, the child an artifact
\* and a node of the ontology that a third session shares, and that session a
\* reflection and a causal claim.
MCItemKind == [i \in Items |-> CASE i = "k" -> "knowledge"
                                 [] i = "o" -> "ontology"
                                 [] i = "a" -> "artifact"
                                 [] i = "l" -> "claim"
                                 [] i \in {"r", "x"} -> "reflection"
                                 [] OTHER -> "episode"]
MCItemGroups == [i \in Items |-> CASE i = "o" -> {"child", "other"}
                                   [] i = "a" -> {"child"}
                                   [] i \in {"x", "l"} -> {"other"}
                                   [] OTHER -> {"root"}]
MCItemEdges == {<<"r", "e">>}
===============================================================================
