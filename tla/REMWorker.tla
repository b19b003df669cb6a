------------------------------- MODULE REMWorker -------------------------------
(***************************************************************************)
(* workers/rem_worker.py as workers/rem_sweep_worker.py runs it when NATS  *)
(* is enabled: a timer publishes sweep triggers, and each trigger runs     *)
(* _run_cycle on a fresh REMWorker, so that _last_sweep_ts is 0 and every  *)
(* pending episode is a candidate.  There is one sweep at a time.          *)
(***************************************************************************)
EXTENDS EpisodeStore

CONSTANTS BatchSize,      \* rem_worker batch_size: groups per cycle
          SweepMin,       \* min_episodes of the sweep
          FetchLimit      \* LIMIT of the query for a group's pending episodes

ASSUME REMAssumption ==
    /\ BatchSize \in Nat \ {0}
    /\ SweepMin \in Nat
    /\ FetchLimit \in Nat \ {0}

VARIABLES rem,     \* the cycle: program counter and local variables
          about    \* groups with an ABOUT edge to an OntologyNode

remVars == <<rem, about>>

RemPC == {"idle", "normal", "next", "dedup", "markdup", "curate", "ontology",
          "mark", "compress"}

Rem == [pc : RemPC,
        priority : SUBSET Groups,   \* groups without ontology, still to do
        normal : SUBSET Groups,     \* groups with ontology, still to do
        fast : BOOLEAN,             \* is_priority of the group being consolidated
        batch : SUBSET Episodes,    \* fetched episodes not yet deduplicated
        unique : SUBSET Episodes,   \* unique_episodes
        dups : SUBSET Episodes]     \* duplicate_uuids

RemTypeOK ==
    /\ rem \in Rem
    /\ about \in SUBSET Groups

RemIdle == [pc |-> "idle", priority |-> {}, normal |-> {}, fast |-> FALSE,
            batch |-> {}, unique |-> {}, dups |-> {}]

RemInit == rem = RemIdle /\ about = {}

\* The cycle goes on with the next group.
NextGroup == rem' = [RemIdle EXCEPT !.pc = "next", !.priority = rem.priority,
                                    !.normal = rem.normal]

(***************************************************************************)
(* _find_pending_groups: two runs of _query_pending_groups.                *)
(***************************************************************************)
\* Mutant: min_episodes is compared with > instead of >=.
CandidatesBug == {g \in Groups : Cardinality(PendingIn(g)) > SweepMin}

Candidates == {g \in Groups : /\ PendingIn(g) # {}
                              /\ Cardinality(PendingIn(g)) >= SweepMin}

\* ORDER BY raw_count DESC LIMIT n, any order among equal counts.
TopGroups(n) ==
    {T \in SUBSET Candidates :
        /\ Cardinality(T) = (IF Cardinality(Candidates) < n
                             THEN Cardinality(Candidates) ELSE n)
        /\ \A t \in T, c \in Candidates \ T :
              Cardinality(PendingIn(t)) >= Cardinality(PendingIn(c))}

\* The ontology filter is applied to the rows the LIMIT has left.  If the
\* query for ABOUT edges fails every group counts as one without ontology; if
\* the query for pending groups fails there are none.
PendingGroups(has_ontology, n, result) ==
    \/ /\ Succeeds
       /\ \E T \in TopGroups(n) : result = {g \in T : (g \in about) = has_ontology}
    \/ /\ Fails
       /\ \/ \E T \in TopGroups(n) : result = {g \in T : ~ has_ontology}
          \/ result = {}

\* Phase 1, groups without ontology; phase 2 is skipped when the batch is full.
FindPriorityGroups ==
    /\ rem.pc = "idle"
    /\ \E P \in SUBSET Groups :
          /\ PendingGroups(FALSE, BatchSize, P)
          /\ rem' = [rem EXCEPT !.priority = P,
                        !.pc = IF Cardinality(P) >= BatchSize THEN "next" ELSE "normal"]
    /\ UNCHANGED <<about, graphVars, stream, history>>

FindNormalGroups ==
    /\ rem.pc = "normal"
    /\ \E N \in SUBSET Groups :
          /\ PendingGroups(TRUE, BatchSize - Cardinality(rem.priority), N)
          /\ rem' = [rem EXCEPT !.normal = N, !.pc = "next"]
    /\ UNCHANGED <<about, graphVars, stream, history>>

(***************************************************************************)
(* _consolidate_group.  A failure ends the group, not the cycle.           *)
(***************************************************************************)

\* Priority groups come first.
Chosen == IF rem.priority # {} THEN rem.priority ELSE rem.normal

\* The cycle without group g, which it has begun.
Begun(g) == IF rem.priority # {}
            THEN [rem EXCEPT !.priority = @ \ {g}, !.fast = TRUE]
            ELSE [rem EXCEPT !.normal = @ \ {g}, !.fast = FALSE]

\* With no pending episode left the group is skipped.
FetchPending ==
    /\ rem.pc = "next"
    /\ \E g \in Chosen :
          \/ /\ Succeeds
             /\ \E B \in Oldest(PendingIn(g), FetchLimit) :
                   rem' = IF B = {} THEN Begun(g)
                          ELSE [Begun(g) EXCEPT !.pc = "dedup", !.batch = B]
          \/ Fails /\ rem' = Begun(g)
    /\ UNCHANGED <<about, graphVars, stream, history>>

\* The deduplication loop after its turn for e.
Turned(e) == [rem EXCEPT !.batch = @ \ {e},
                         !.pc = IF rem.batch = {e} THEN "markdup" ELSE "dedup"]

AsUnique(e) == rem' = [Turned(e) EXCEPT !.unique = @ \cup {e}]
AsDuplicate(e) == rem' = [Turned(e) EXCEPT !.dups = @ \cup {e}]

\* One turn of the loop, oldest episode first: a similarity query that fails
\* means "unique", an edge that cannot be written is skipped.  The batch was
\* read earlier: its episodes may no longer be pending.
DedupEpisode ==
    /\ rem.pc = "dedup"
    /\ \E O \in Oldest(rem.batch, 1) : \E e \in O :
          \/ /\ SimilarConsolidated(e) = {}
             /\ Succeeds
             /\ AsUnique(e)
             /\ UNCHANGED duplicateOf
          \/ \E o \in SimilarConsolidated(e) :
                /\ AsDuplicate(e)
                /\ \/ Succeeds /\ duplicateOf' = duplicateOf \cup {<<e, o>>}
                   \/ Fails /\ UNCHANGED duplicateOf
          \/ /\ Fails
             /\ AsUnique(e)
             /\ UNCHANGED duplicateOf
    /\ UNCHANGED <<about, status, extracted, summarised, stream, history>>

\* _mark_episodes_duplicate, whose failure is only logged.
MarkDuplicates ==
    /\ rem.pc = "markdup"
    /\ \/ Succeeds /\ SetStatus(rem.dups, "duplicate")
       \/ rem.dups # {} /\ Fails /\ UNCHANGED status
    /\ IF rem.unique = {} THEN NextGroup ELSE rem' = [rem EXCEPT !.pc = "curate"]
    /\ UNCHANGED <<about, extracted, duplicateOf, summarised, stream, history>>

\* run_curation gets every unique episode as a source.
CurateUnique ==
    /\ rem.pc = "curate"
    /\ curated' = curated \cup rem.unique
    /\ rem' = [rem EXCEPT !.pc = "ontology"]
    /\ UNCHANGED <<about, graphVars, stream, faults, harvested>>

\* _update_ontology.  update_group_ontology raises when an extraction fails,
\* which ends the group and leaves its episodes pending;
\* fast_coverage_ontology, for priority groups, logs and goes on.  Either way
\* ABOUT edges may have been written: both store their results as they go.
UpdateOntology ==
    /\ rem.pc = "ontology"
    /\ about' \in {about, about \cup {GroupOf[e] : e \in rem.unique}}
    /\ \/ /\ Succeeds \/ (Fails /\ rem.fast)
          /\ rem' = [rem EXCEPT !.pc = "mark"]
       \/ Fails /\ ~ rem.fast /\ NextGroup
    /\ UNCHANGED <<graphVars, stream, history>>

\* Mutant: a failed mark is only logged.
MarkUniqueBug ==
    /\ rem.pc = "mark"
    /\ \/ Succeeds /\ mark_episodes_consolidated(rem.unique)
       \/ Fails /\ UNCHANGED status
    /\ rem' = [rem EXCEPT !.pc = "compress"]
    /\ UNCHANGED <<about, extracted, duplicateOf, summarised, stream, history>>

MarkUnique ==
    /\ rem.pc = "mark"
    /\ \/ /\ Succeeds
          /\ mark_episodes_consolidated(rem.unique)
          /\ rem' = [rem EXCEPT !.pc = "compress"]
       \/ Fails /\ NextGroup /\ UNCHANGED status
    /\ UNCHANGED <<about, extracted, duplicateOf, summarised, stream, history>>

CompressUnique ==
    /\ rem.pc = "compress"
    /\ IF Cardinality(rem.unique) >= 2
       THEN compress_raw_episodes(rem.unique)
       ELSE UNCHANGED <<summarised, faults>>
    /\ NextGroup
    /\ UNCHANGED <<about, status, extracted, duplicateOf, stream, history>>

\* The cycle ends; Hebbian decay does not touch this state.
EndCycle ==
    /\ rem.pc = "next"
    /\ rem.priority = {} /\ rem.normal = {}
    /\ rem' = RemIdle
    /\ UNCHANGED <<about, storeVars>>

\* The ontology pipeline worker handles a stage that run_curation dispatched.
AsyncOntology ==
    /\ \E e \in curated : about' = about \cup {GroupOf[e]}
    /\ UNCHANGED <<rem, storeVars>>

SweepStep ==
    \/ FindPriorityGroups
    \/ FindNormalGroups
    \/ FetchPending
    \/ DedupEpisode
    \/ MarkDuplicates
    \/ CurateUnique
    \/ UpdateOntology
    \/ MarkUnique
    \/ CompressUnique
    \/ EndCycle

RemCrash == rem' = RemIdle /\ UNCHANGED about
===============================================================================
