---------------------------- MODULE MCConsolidation ----------------------------
(* Small instances of Consolidation for TLC. *)
EXTENDS Consolidation, TLC

\* Two episodes of one group, or of a group each.
MCGroupsApart == [e \in Episodes |-> IF e = 1 THEN "g1" ELSE "g2"]
MCOneGroup == [e \in Episodes |-> "g1"]
MCCreatedAt == [e \in Episodes |-> e]
MCSimilar == {<<1, 2>>, <<2, 1>>} \cap (Episodes \X Episodes)
MCAllSimilar == {p \in Episodes \X Episodes : p[1] # p[2]}

\* The workers alone: every episode has been stored, its background task has
\* finished with or without a slot, and its message waits in the stream.
MCStoredInit ==
    /\ status = [e \in Episodes |-> "pending"]
    /\ stream = [e \in Episodes |-> "queued"]
    /\ harvested \in SUBSET Episodes
    /\ extracted = harvested
    /\ duplicateOf = {} /\ summarised = {} /\ curated = {}
    /\ faults = 0
    /\ hyd = [e \in Episodes |-> "done"] /\ slots = HydrateSlots
    /\ CurationInit /\ RemInit

MCStoredSpec == MCStoredInit /\ [][Next]_vars
MCStoredFairSpec == MCStoredSpec /\ Fairness

JobSymmetry == Permutations(Jobs)
===============================================================================
