----------------------------- MODULE EpisodeStore -----------------------------
(***************************************************************************)
(* What outlives the service process: the raw Episode nodes of FalkorDB    *)
(* and the JetStream messages that announce them.  The background workers  *)
(* (BackgroundHydrate, CurationWorker, REMWorker) share this state and     *)
(* nothing else.                                                           *)
(*                                                                         *)
(* An episode is an element of Episodes; its content and its embedding are *)
(* abstracted to the pairs the vector index finds similar enough to be     *)
(* duplicates.  Every query is one atomic step: FalkorDB runs a query      *)
(* atomically and the workers await each one.                              *)
(***************************************************************************)
EXTENDS Naturals, FiniteSets

CONSTANTS Episodes,    \* the raw episodes clients submit
          Groups,      \* the group_ids
          GroupOf,     \* the group_id each episode is stored under
          CreatedAt,   \* created_at: store time, or the date_time of the metadata
          Similar,     \* pairs whose cosine similarity reaches the dedup threshold
          MaxFaults    \* bound: failed calls and crashes in one behaviour

ASSUME EpisodeAssumption ==
    /\ IsFiniteSet(Episodes)
    /\ GroupOf \in [Episodes -> Groups]
    /\ CreatedAt \in [Episodes -> Nat]
    /\ Similar \in SUBSET (Episodes \X Episodes)
    /\ MaxFaults \in Nat

VARIABLES
    status,       \* consolidation_status of the node, "absent" before CREATE
    extracted,    \* episodes whose knowledge_extracted flag is set
    duplicateOf,  \* DUPLICATE_OF edges <<duplicate, original>>
    summarised,   \* episodes a compressed episode is DERIVED_FROM
    stream,       \* where the episode.stored message of each episode is
    faults,       \* failures so far
    \* History: what was really done with an episode's content.
    harvested,    \* background_hydrate stored knowledge extracted from it
    curated       \* it was a source of a run_curation that has finished

graphVars  == <<status, extracted, duplicateOf, summarised>>
history    == <<harvested, curated>>
storeVars  == <<status, extracted, duplicateOf, summarised, stream, faults,
                harvested, curated>>

Status == {"absent", "pending", "consolidated", "duplicate"}

\* A message is created by the publisher task, waits in the stream, is in the
\* hands of the consumer ("added": in the accumulator, not acknowledged;
\* "threshold": the same, and its group has reached min_episodes), and ends
\* acknowledged, or lost (never published, or out of deliveries).
Stream == {"none", "publishing", "queued", "added", "threshold", "acked", "lost"}

StoreTypeOK ==
    /\ status \in [Episodes -> Status]
    /\ extracted \in SUBSET Episodes
    /\ duplicateOf \in SUBSET (Episodes \X Episodes)
    /\ summarised \in SUBSET Episodes
    /\ stream \in [Episodes -> Stream]
    /\ faults \in 0..MaxFaults
    /\ harvested \in SUBSET Episodes
    /\ curated \in SUBSET Episodes

StoreInit ==
    /\ status = [e \in Episodes |-> "absent"]
    /\ extracted = {}
    /\ duplicateOf = {}
    /\ summarised = {}
    /\ stream = [e \in Episodes |-> "none"]
    /\ faults = 0
    /\ harvested = {}
    /\ curated = {}

(***************************************************************************)
(* Outcomes of an awaited call.                                            *)
(***************************************************************************)
Succeeds == UNCHANGED faults

Fails == /\ faults < MaxFaults
         /\ faults' = faults + 1

(***************************************************************************)
(* Queries.                                                                *)
(***************************************************************************)
PendingIn(g) == {e \in Episodes : GroupOf[e] = g /\ status[e] = "pending"}

\* Mutant: the vector query is not restricted to the group.
SimilarConsolidatedBug(e) ==
    {o \in Episodes : status[o] = "consolidated" /\ (o = e \/ <<e, o>> \in Similar)}

\* Mutant: the vector query does not look at consolidation_status.
SimilarConsolidatedAny(e) ==
    {o \in Episodes : /\ GroupOf[o] = GroupOf[e]
                      /\ status[o] # "absent"
                      /\ o = e \/ <<e, o>> \in Similar}

\* _find_similar_consolidated: nothing in the query excludes e itself.
SimilarConsolidated(e) ==
    {o \in Episodes : /\ GroupOf[o] = GroupOf[e]
                      /\ status[o] = "consolidated"
                      /\ o = e \/ <<e, o>> \in Similar}

\* ORDER BY created_at ASC LIMIT n: the sets of at most n oldest elements of S.
Oldest(S, n) ==
    {T \in SUBSET S : /\ Cardinality(T) = (IF Cardinality(S) < n
                                           THEN Cardinality(S) ELSE n)
                      /\ \A t \in T, s \in S \ T : CreatedAt[t] <= CreatedAt[s]}

(***************************************************************************)
(* Writes.                                                                 *)
(***************************************************************************)

\* SET e.consolidation_status = s on the nodes of S that exist, whatever
\* their status is by now.
SetStatus(S, s) ==
    status' = [e \in Episodes |-> IF e \in S /\ status[e] # "absent"
                                  THEN s ELSE status[e]]

mark_episodes_consolidated(S) == SetStatus(S, "consolidated")

\* compress_raw_episodes: the embedding may fail, and so may each
\* DERIVED_FROM edge (which is only logged).
compress_raw_episodes(S) ==
    \/ Succeeds /\ summarised' = summarised \cup S
    \/ Fails /\ \E L \in (SUBSET S) \ {S} : summarised' = summarised \cup L

\* EpisodeEventPublisher.episode_stored: a publish error is only logged.
episode_stored(e) ==
    /\ stream[e] = "publishing"
    /\ \/ Succeeds /\ stream' = [stream EXCEPT ![e] = "queued"]
       \/ Fails /\ stream' = [stream EXCEPT ![e] = "lost"]
    /\ UNCHANGED <<graphVars, history>>

(***************************************************************************)
(* What it means that e is not forgotten.                                  *)
(***************************************************************************)
Processed == harvested \cup curated

\* e itself, or an episode of its group the vector index calls similar, was
\* processed.
Represented(e) ==
    \E o \in Processed : /\ GroupOf[o] = GroupOf[e]
                         /\ o = e \/ <<e, o>> \in Similar
===============================================================================
