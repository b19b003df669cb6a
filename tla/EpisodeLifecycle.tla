--------------------------- MODULE EpisodeLifecycle ---------------------------
(***************************************************************************)
(* What consolidation promises about a raw episode, whoever does the work: *)
(* it is stored as pending; it is retired once, by what its content or the *)
(* content of a similar episode went into, and never becomes pending       *)
(* again; only retired episodes are summarised.                            *)
(***************************************************************************)
CONSTANTS Episodes, GroupOf, Similar

VARIABLES status,      \* consolidation_status of each episode
          processed,   \* episodes whose content was learned from
          summarised   \* episodes that have gone into a compressed one

vars == <<status, processed, summarised>>

Stored == {e \in Episodes : status[e] # "absent"}
Retired == {e \in Episodes : status[e] \in {"consolidated", "duplicate"}}

\* o can stand for e: an episode of the same group with a similar content.
StandsFor(o, e) == GroupOf[o] = GroupOf[e] /\ (o = e \/ <<e, o>> \in Similar)

SetStatus(S, s) == status' = [e \in Episodes |-> IF e \in S THEN s ELSE status[e]]

Init ==
    /\ status \in [Episodes -> {"absent", "pending"}]
    /\ processed \in SUBSET Episodes
    /\ summarised = {}

Store(e) ==
    /\ e \notin Stored
    /\ SetStatus({e}, "pending")
    /\ UNCHANGED <<processed, summarised>>

Process(S) ==
    /\ processed' = processed \cup S
    /\ UNCHANGED <<status, summarised>>

\* The workers race: an episode that is retired may be retired again, under
\* the other status too.
Consolidate(S) ==
    /\ S \subseteq Stored \cap processed
    /\ SetStatus(S, "consolidated")
    /\ UNCHANGED <<processed, summarised>>

Deduplicate(S) ==
    /\ S \subseteq Stored
    /\ \A e \in S : \E o \in processed : StandsFor(o, e)
    /\ SetStatus(S, "duplicate")
    /\ UNCHANGED <<processed, summarised>>

Summarise(S) ==
    /\ S \subseteq Retired
    /\ summarised' = summarised \cup S
    /\ UNCHANGED <<status, processed>>

Next ==
    \/ \E e \in Episodes : Store(e)
    \/ \E S \in SUBSET Episodes :
          Process(S) \/ Consolidate(S) \/ Deduplicate(S) \/ Summarise(S)

Spec == Init /\ [][Next]_vars
===============================================================================
