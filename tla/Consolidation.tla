----------------------------- MODULE Consolidation -----------------------------
(***************************************************************************)
(* The life of a raw episode when NATS is enabled: the background task of  *)
(* observe stores it, the CurationWorker and the REM sweep race to         *)
(* consolidate it, any call may fail and the process may die and restart.  *)
(***************************************************************************)
EXTENDS BackgroundHydrate, CurationWorker, REMWorker

vars == <<storeVars, hydrateVars, curationVars, remVars>>

Init == StoreInit /\ HydrateInit /\ CurationInit /\ RemInit

\* The service process dies and is started again by supervisord.
Crash ==
    /\ Fails
    /\ HydrateCrash /\ CurationCrash /\ RemCrash
    /\ stream' = StreamAfterCrash
    /\ UNCHANGED <<graphVars, history>>

Hydrate == \E e \in Episodes : HydrateStep(e) /\ UNCHANGED <<curationVars, remVars>>
Curation == CurationStep /\ UNCHANGED <<hydrateVars, remVars>>
Sweep == (SweepStep \/ AsyncOntology) /\ UNCHANGED <<hydrateVars, curationVars>>

Next == Hydrate \/ Curation \/ Sweep \/ Crash

Spec == Init /\ [][Next]_vars

(***************************************************************************)
(* Fairness.  The event loop runs every ready coroutine, the timer of the  *)
(* sweep fires for ever and every call returns, with a result or an error; *)
(* whether a client ever calls observe is up to the client.                *)
(***************************************************************************)
Fairness ==
    /\ WF_vars(SweepStep /\ UNCHANGED <<hydrateVars, curationVars>>)
    /\ \A j \in Jobs : WF_vars(JobStep(j) /\ UNCHANGED <<hydrateVars, remVars>>)
    /\ \A e \in Episodes :
          WF_vars(AckEvent(e) /\ UNCHANGED <<hydrateVars, remVars>>)
    /\ \A g \in Groups :
          WF_vars(CheckTimeouts(g) /\ UNCHANGED <<hydrateVars, remVars>>)

FairSpec == Spec /\ Fairness

(***************************************************************************)
(* Properties.                                                             *)
(***************************************************************************)

\* Every variable of the composed workers stays in its type.
TypeOK == StoreTypeOK /\ HydrateTypeOK /\ CurationTypeOK /\ RemTypeOK

\* No observation falls between the workers: an episode that none of them will
\* look at again (its status is no longer pending) had its knowledge stored or
\* was a source of a finished curation, or a similar episode of its group did.
\* The REM sweep works on statuses it read before several awaits, the
\* CurationWorker skips curation on the strength of flags, and either may fail
\* or die anywhere.
NoEpisodeForgotten ==
    \A e \in Episodes : status[e] \in {"consolidated", "duplicate"} => Represented(e)

\* The semaphore of the CurationWorker is released exactly once by every way
\* out of its "async with" block, so that at most max_concurrent curations run.
CurationPermits ==
    permits + Cardinality({j \in Jobs : job[j].pc \in Guarded}) = MaxConcurrent

\* _release_hydrate_slot runs exactly when _try_acquire_hydrate_slot took a
\* slot: the hand-made counter never drifts.
HydratePermits ==
    slots + Cardinality({e \in Episodes : hyd[e] \in HoldsSlot}) = HydrateSlots

\* A compressed episode never summarises an episode that is still pending and
\* would be curated and summarised again.
SummariesAreFinal == \A e \in summarised : status[e] # "pending"

\* Events that wait below min_episodes are never forgotten by the timeout
\* loop: a group that has events has its time of arrival too.
AccumulatedIsTimed == \A g \in Groups : acc[g] # << >> => g \in firstSeen

\* Tenants are kept apart: a DUPLICATE_OF edge joins episodes of one group, and
\* a curation task, or the sweep, never mixes the episodes of two groups into
\* one reflection.
GroupsAreIsolated ==
    /\ \A d \in duplicateOf : GroupOf[d[1]] = GroupOf[d[2]]
    /\ \A j \in Jobs : \A e \in Sources(j) : GroupOf[e] = job[j].group
    /\ \A d, e \in rem.batch \cup rem.unique \cup rem.dups : GroupOf[d] = GroupOf[e]

\* Every stored episode leaves "pending": whatever the CurationWorker drops
\* (lost messages, failed or killed tasks) the sweep picks up.
PendingIsTransient ==
    \A e \in Episodes : status[e] = "pending" ~> status[e] # "pending"

\* The events of a group never wait in the accumulator for ever.
AccumulatorDrains == \A g \in Groups : acc[g] # << >> ~> acc[g] = << >>

(***************************************************************************)
(* The inductive invariant behind NoEpisodeForgotten: what each worker     *)
(* carries across its awaits about the episodes it is going to mark.       *)
(***************************************************************************)

\* The flag is only set on episodes whose knowledge was stored.
FlagsAreTrue ==
    /\ extracted \subseteq harvested
    /\ \A e \in Episodes : hyd[e] = "flag" => e \in harvested

\* A task that is about to mark its sources has processed them.
JobsHaveProcessed == \A j \in Jobs : job[j].pc = "mark" => Sources(j) \subseteq Processed

\* The sweep marks what it has curated, and as duplicates what it has found
\* an original for.
SweepHasProcessed ==
    /\ rem.pc \in {"ontology", "mark"} => rem.unique \subseteq curated
    /\ \A e \in rem.dups : Represented(e)

ConsolidatedIsProcessed ==
    \A e \in Episodes : status[e] = "consolidated" => e \in Processed

ContentInv ==
    /\ FlagsAreTrue
    /\ JobsHaveProcessed
    /\ SweepHasProcessed
    /\ ConsolidatedIsProcessed
    /\ NoEpisodeForgotten

(***************************************************************************)
(* The promise the workers keep together.                                  *)
(***************************************************************************)
Lifecycle == INSTANCE EpisodeLifecycle WITH processed <- Processed

(***************************************************************************)
(* The inductive invariant behind SummariesAreFinal and ImplementsLifecycle. *)
(***************************************************************************)

\* Whatever a worker, the accumulator or the stream carries has a node, and an
\* episode that is not stored yet is carried by nobody: storing it makes no
\* episode pending again.
CarriedIsStored ==
    /\ \A e \in Episodes : hyd[e] = "new" => e \notin Lifecycle!Stored
    /\ \A e \in Episodes : stream[e] # "none" => e \in Lifecycle!Stored
    /\ \A g \in Groups : \A i \in DOMAIN acc[g] : acc[g][i] \in Lifecycle!Stored
    /\ \A j \in Jobs : Sources(j) \subseteq Lifecycle!Stored
    /\ rem.batch \cup rem.unique \cup rem.dups \subseteq Lifecycle!Stored

\* A worker that is about to summarise its sources has retired them.
SummarisesRetired ==
    /\ \A j \in Jobs : job[j].pc = "compress" => Sources(j) \subseteq Lifecycle!Retired
    /\ rem.pc = "compress" => rem.unique \subseteq Lifecycle!Retired
    /\ summarised \subseteq Lifecycle!Retired

LifeInv == CarriedIsStored /\ SummarisesRetired

(***************************************************************************)
(* The inductive invariant behind GroupsAreIsolated.                       *)
(***************************************************************************)
\* The accumulator keeps the events of a group under its group_id, and the
\* sweep begins a group without anything left of the one before.
GroupInv ==
    /\ GroupsAreIsolated
    /\ \A g \in Groups : \A i \in DOMAIN acc[g] : GroupOf[acc[g][i]] = g
    /\ rem.pc \in {"idle", "normal", "next"} => rem.batch \cup rem.unique \cup rem.dups = {}

\* The composed workers implement the life cycle of an episode: no failure,
\* restart or race of theirs makes a step that it does not allow, such as
\* returning a retired episode to pending or summarising one that is pending.
ImplementsLifecycle == Lifecycle!Spec
===============================================================================
