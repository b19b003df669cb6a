-------------------------- MODULE ConsolidationProofs --------------------------
(***************************************************************************)
(* Proofs about Consolidation, for every set of episodes, groups and tasks *)
(* and every bound: types, the permits of the two semaphores, the          *)
(* separation of the groups, and what becomes of an episode: none is       *)
(* forgotten, and the composed workers implement EpisodeLifecycle.         *)
(***************************************************************************)
EXTENDS Consolidation, FiniteSetTheorems, TLAPS

(***************************************************************************)
(* Type correctness.                                                       *)
(***************************************************************************)

\* The writes of EpisodeStore keep the types of what they write.
LEMMA FailsType == ASSUME StoreTypeOK, Fails \/ Succeeds PROVE faults' \in 0..MaxFaults
  BY EpisodeAssumption DEF StoreTypeOK, Fails, Succeeds

\* Writing a status keeps the type of status.
LEMMA SetStatusType ==
    ASSUME StoreTypeOK, NEW S, NEW s \in Status, SetStatus(S, s)
    PROVE  status' \in [Episodes -> Status]
  BY DEF StoreTypeOK, SetStatus

\* Compression only adds sources and counts its failure.
LEMMA CompressType ==
    ASSUME StoreTypeOK, NEW S \in SUBSET Episodes, compress_raw_episodes(S)
    PROVE  summarised' \in SUBSET Episodes /\ faults' \in 0..MaxFaults
  BY FailsType DEF StoreTypeOK, compress_raw_episodes

\* The episodes of a task's events are episodes.
LEMMA SourcesType ==
    ASSUME CurationTypeOK, NEW j \in Jobs
    PROVE  Sources(j) \in SUBSET Episodes
  BY DEF CurationTypeOK, Sources, Job, NoJob

\* The background task of observe.
LEMMA HydrateType == TypeOK /\ Hydrate => TypeOK'
  <1>. SUFFICES ASSUME TypeOK, NEW e \in Episodes, HydrateStep(e),
                       UNCHANGED <<curationVars, remVars>>
                PROVE  TypeOK'
    BY DEF Hydrate
  <1>. USE DEF TypeOK, HydrateTypeOK, HydratePC
  <1>1. CurationTypeOK' /\ RemTypeOK'
    BY DEF curationVars, remVars, CurationTypeOK, RemTypeOK
  <1>2. StoreTypeOK' /\ HydrateTypeOK'
    <2>1. CASE HydrateStore(e)
      BY <2>1, FailsType DEF HydrateStore, StoreTypeOK, Status, Stream, history
    <2>2. CASE HydrateGate(e)
      BY <2>2 DEF HydrateGate, StoreTypeOK, storeVars
    <2>3. CASE HydrateExtract(e)
      BY <2>3 DEF HydrateExtract, StoreTypeOK, graphVars
    <2>4. CASE HydrateFlag(e)
      BY <2>4, FailsType DEF HydrateFlag, StoreTypeOK, history
    <2>5. CASE HydrateFinish(e)
      BY <2>5 DEF HydrateFinish, StoreTypeOK, storeVars
    <2>6. CASE episode_stored(e) /\ UNCHANGED hydrateVars
      BY <2>6, FailsType DEF episode_stored, hydrateVars, StoreTypeOK, Stream,
                             graphVars, history
    <2>. QED BY <2>1, <2>2, <2>3, <2>4, <2>5, <2>6 DEF HydrateStep
  <1>. QED BY <1>1, <1>2

\* A task that ends, or moves on, is still a task.
LEMMA JobType ==
    ASSUME CurationTypeOK, NEW j \in Jobs
    PROVE  /\ Release(j) => job' \in [Jobs -> Job] /\ permits' \in Nat
           /\ \A pc \in JobPC \ {"idle"} :
                 job[j].pc # "idle" /\ Goto(j, pc) => job' \in [Jobs -> Job]
           /\ \A g \in Groups : Spawn(g) => job' \in [Jobs -> Job]
  <1>1. NoJob \in Job
    BY DEF Job, NoJob
  <1>2. Release(j) => job' \in [Jobs -> Job] /\ permits' \in Nat
    BY <1>1 DEF CurationTypeOK, Release
  <1>3. ASSUME NEW pc \in JobPC \ {"idle"}, job[j].pc # "idle", Goto(j, pc)
        PROVE  job' \in [Jobs -> Job]
    <2>1. job[j] \in [pc : JobPC \ {"idle"}, group : Groups, uuids : Seq(Episodes)]
      BY <1>3 DEF CurationTypeOK, Job, NoJob
    <2>2. [job[j] EXCEPT !.pc = pc] \in Job
      BY <2>1 DEF Job
    <2>. QED BY <1>3, <2>2 DEF Goto, CurationTypeOK
  <1>4. ASSUME NEW g \in Groups, Spawn(g) PROVE job' \in [Jobs -> Job]
    <2>1. [pc |-> "spawned", group |-> g, uuids |-> << >>] \in Job
      BY DEF Job, JobPC
    <2>. QED BY <1>4, <2>1 DEF Spawn, CurationTypeOK
  <1>. QED BY <1>2, <1>3, <1>4

\* The message loop, the timeout loop and the curation tasks.
LEMMA CurationType == TypeOK /\ Curation => TypeOK'
  <1>. SUFFICES ASSUME TypeOK, CurationStep, UNCHANGED <<hydrateVars, remVars>>
                PROVE  TypeOK'
    BY DEF Curation
  <1>. USE CurationAssumption DEF TypeOK
  <1>1. HydrateTypeOK' /\ RemTypeOK'
    BY DEF hydrateVars, remVars, HydrateTypeOK, RemTypeOK
  <1>2. ASSUME NEW e \in Episodes, AddEvent(e) PROVE StoreTypeOK' /\ CurationTypeOK'
    <2>1. GroupOf[e] \in Groups
      BY EpisodeAssumption
    <2>2. acc' \in [Groups -> Seq(Episodes)]
      BY <1>2, <2>1 DEF AddEvent, CurationTypeOK
    <2>3. deliveries' \in [Episodes -> 0..MaxDeliver]
      BY <1>2 DEF AddEvent, CurationTypeOK
    <2>. QED BY <1>2, <2>1, <2>2, <2>3
         DEF AddEvent, StoreTypeOK, CurationTypeOK, Stream, graphVars, history
  <1>3. ASSUME NEW e \in Episodes, AckEvent(e) PROVE StoreTypeOK' /\ CurationTypeOK'
    <2>1. job' \in [Jobs -> Job]
      <3>1. CASE UNCHANGED job
        BY <3>1 DEF CurationTypeOK
      <3>2. CASE Spawn(GroupOf[e])
        <4>1. PICK j \in Jobs : TRUE
          BY <3>2 DEF Spawn
        <4>. QED BY <3>2, <4>1, JobType, EpisodeAssumption
      <3>. QED BY <1>3, <3>1, <3>2 DEF AckEvent
    <2>. QED BY <1>3, <2>1
         DEF AckEvent, StoreTypeOK, CurationTypeOK, Stream, graphVars, history, accVars
  <1>4. ASSUME NEW e \in Episodes, NakEvent(e) PROVE StoreTypeOK' /\ CurationTypeOK'
    BY <1>4, FailsType
       DEF NakEvent, StoreTypeOK, CurationTypeOK, Stream, curationVars, graphVars, history
  <1>5. ASSUME NEW g \in Groups, CheckTimeouts(g) PROVE StoreTypeOK' /\ CurationTypeOK'
    <2>1. PICK j \in Jobs : TRUE
      BY <1>5 DEF CheckTimeouts, Spawn
    <2>2. job' \in [Jobs -> Job]
      BY <1>5, <2>1, JobType DEF CheckTimeouts
    <2>. QED BY <1>5, <2>2 DEF CheckTimeouts, StoreTypeOK, CurationTypeOK, storeVars, accVars
  <1>6. ASSUME NEW j \in Jobs, JobStep(j) PROVE StoreTypeOK' /\ CurationTypeOK'
    <2>. USE <1>6
    <2>0. Sources(j) \in SUBSET Episodes
      BY SourcesType
    <2>1. CASE PopGroup(j)
      <3>1. job[j].group \in Groups /\ acc[job[j].group] \in Seq(Episodes)
        BY <2>1 DEF PopGroup, CurationTypeOK, Job, NoJob
      <3>2. job' \in [Jobs -> Job]
        <4>1. NoJob \in Job
          BY DEF Job
        <4>2. [pc |-> "waiting", group |-> job[j].group,
               uuids |-> acc[job[j].group]] \in Job
          BY <3>1 DEF Job, JobPC
        <4>. QED BY <2>1, <4>1, <4>2 DEF PopGroup, CurationTypeOK
      <3>. QED BY <2>1, <3>1, <3>2 DEF PopGroup, StoreTypeOK, CurationTypeOK, storeVars
    <2>2. CASE AcquireCuration(j)
      <3>1. job' \in [Jobs -> Job]
        BY <2>2, JobType DEF AcquireCuration, JobPC
      <3>. QED BY <2>2, <3>1
           DEF AcquireCuration, StoreTypeOK, CurationTypeOK, storeVars, accVars
    <2>3. CASE FetchContents(j)
      <3>1. job' \in [Jobs -> Job] /\ permits' \in Nat
        BY <2>3, JobType DEF FetchContents, JobPC, CurationTypeOK
      <3>. QED BY <2>3, <3>1, FailsType
           DEF FetchContents, StoreTypeOK, CurationTypeOK, accVars, graphVars, history
    <2>4. CASE RunCuration(j)
      <3>1. job' \in [Jobs -> Job]
        BY <2>4, JobType DEF RunCuration, JobPC
      <3>. QED BY <2>0, <2>4, <3>1
           DEF RunCuration, StoreTypeOK, CurationTypeOK, accVars, graphVars
    <2>5. CASE MarkConsolidated(j)
      <3>1. job' \in [Jobs -> Job] /\ permits' \in Nat
        BY <2>5, JobType DEF MarkConsolidated, JobPC, CurationTypeOK
      <3>2. status' \in [Episodes -> Status]
        BY <2>5, SetStatusType
           DEF MarkConsolidated, mark_episodes_consolidated, StoreTypeOK, Status
      <3>. QED BY <2>5, <3>1, <3>2, FailsType
           DEF MarkConsolidated, StoreTypeOK, CurationTypeOK, accVars, history
    <2>6. CASE CompressAndFinish(j)
      <3>1. job' \in [Jobs -> Job] /\ permits' \in Nat
        BY <2>6, JobType DEF CompressAndFinish
      <3>2. summarised' \in SUBSET Episodes /\ faults' \in 0..MaxFaults
        BY <2>0, <2>6, CompressType DEF CompressAndFinish, StoreTypeOK
      <3>. QED BY <2>6, <3>1, <3>2
           DEF CompressAndFinish, StoreTypeOK, CurationTypeOK, accVars, history
    <2>. QED BY <2>1, <2>2, <2>3, <2>4, <2>5, <2>6 DEF JobStep
  <1>. QED BY <1>1, <1>2, <1>3, <1>4, <1>5, <1>6 DEF CurationStep

\* Choosing the oldest elements of a set chooses elements of it.
LEMMA OldestType == ASSUME NEW S, NEW n, NEW T \in Oldest(S, n) PROVE T \subseteq S
  BY DEF Oldest

\* Going on with the next group keeps the type of the cycle.
LEMMA NextGroupType == ASSUME RemTypeOK, NextGroup PROVE rem' \in Rem
  BY DEF RemTypeOK, NextGroup, RemIdle, Rem, RemPC

\* Group discovery returns groups and counts its failures.
LEMMA PendingGroupsType ==
    ASSUME StoreTypeOK, NEW h, NEW n, NEW R, PendingGroups(h, n, R)
    PROVE  R \in SUBSET Groups /\ faults' \in 0..MaxFaults
  BY FailsType DEF PendingGroups, TopGroups, Candidates

\* The REM sweep.
LEMMA SweepType == TypeOK /\ Sweep => TypeOK'
  <1>. SUFFICES ASSUME TypeOK, SweepStep \/ AsyncOntology,
                       UNCHANGED <<hydrateVars, curationVars>>
                PROVE  TypeOK'
    BY DEF Sweep
  <1>. USE DEF TypeOK
  <1>1. HydrateTypeOK' /\ CurationTypeOK'
    BY DEF hydrateVars, curationVars, HydrateTypeOK, CurationTypeOK
  <1>2. CASE FindPriorityGroups
    <2>1. PICK P \in SUBSET Groups :
             /\ PendingGroups(FALSE, BatchSize, P)
             /\ rem' = [rem EXCEPT !.priority = P,
                           !.pc = IF Cardinality(P) >= BatchSize THEN "next" ELSE "normal"]
      BY <1>2 DEF FindPriorityGroups
    <2>2. faults' \in 0..MaxFaults
      BY <2>1, PendingGroupsType
    <2>3. rem' \in Rem
      BY <2>1 DEF RemTypeOK, Rem, RemPC
    <2>. QED BY <1>1, <1>2, <2>2, <2>3
         DEF FindPriorityGroups, StoreTypeOK, RemTypeOK, graphVars, history
  <1>3. CASE FindNormalGroups
    <2>1. PICK N \in SUBSET Groups :
             /\ PendingGroups(TRUE, BatchSize - Cardinality(rem.priority), N)
             /\ rem' = [rem EXCEPT !.normal = N, !.pc = "next"]
      BY <1>3 DEF FindNormalGroups
    <2>2. faults' \in 0..MaxFaults
      BY <2>1, PendingGroupsType
    <2>3. rem' \in Rem
      BY <2>1 DEF RemTypeOK, Rem, RemPC
    <2>. QED BY <1>1, <1>3, <2>2, <2>3
         DEF FindNormalGroups, StoreTypeOK, RemTypeOK, graphVars, history
  <1>4. CASE FetchPending
    <2>1. PICK g \in Chosen :
             \/ /\ Succeeds
                /\ \E B \in Oldest(PendingIn(g), FetchLimit) :
                      rem' = IF B = {} THEN Begun(g)
                             ELSE [Begun(g) EXCEPT !.pc = "dedup", !.batch = B]
             \/ Fails /\ rem' = Begun(g)
      BY <1>4 DEF FetchPending
    <2>2. Begun(g) \in Rem
      BY DEF RemTypeOK, Rem, Begun
    <2>3. \A B \in Oldest(PendingIn(g), FetchLimit) : B \in SUBSET Episodes
      BY OldestType DEF PendingIn
    <2>4. ASSUME NEW B \in SUBSET Episodes
          PROVE  [Begun(g) EXCEPT !.pc = "dedup", !.batch = B] \in Rem
      BY <2>2 DEF Rem, RemPC
    <2>5. rem' \in Rem
      BY <2>1, <2>2, <2>3, <2>4
    <2>6. faults' \in 0..MaxFaults
      BY <2>1, FailsType
    <2>. QED BY <1>1, <1>4, <2>5, <2>6
         DEF FetchPending, StoreTypeOK, RemTypeOK, graphVars, history
  <1>5. CASE DedupEpisode
    <2>1. PICK e \in rem.batch :
             /\ AsUnique(e) \/ AsDuplicate(e)
             /\ \/ UNCHANGED duplicateOf
                \/ \E o \in SimilarConsolidated(e) :
                      duplicateOf' = duplicateOf \cup {<<e, o>>}
             /\ Fails \/ Succeeds
      BY <1>5, OldestType DEF DedupEpisode
    <2>2. e \in Episodes /\ Turned(e) \in Rem
      BY DEF RemTypeOK, Rem, RemPC, Turned
    <2>3. rem' \in Rem
      BY <2>1, <2>2 DEF AsUnique, AsDuplicate, Rem
    <2>4. duplicateOf' \in SUBSET (Episodes \X Episodes)
      <3>1. CASE UNCHANGED duplicateOf
        BY <3>1 DEF StoreTypeOK
      <3>2. ASSUME NEW o \in SimilarConsolidated(e),
                   duplicateOf' = duplicateOf \cup {<<e, o>>}
            PROVE  duplicateOf' \in SUBSET (Episodes \X Episodes)
        <4>1. <<e, o>> \in Episodes \X Episodes
          BY <2>2 DEF SimilarConsolidated
        <4>2. {<<e, o>>} \in SUBSET (Episodes \X Episodes)
          BY <4>1
        <4>3. duplicateOf \in SUBSET (Episodes \X Episodes)
          BY DEF StoreTypeOK
        <4>. QED BY <3>2, <4>2, <4>3, Zenon
      <3>. QED BY <2>1, <3>1, <3>2, Zenon
    <2>5. faults' \in 0..MaxFaults
      BY <2>1, FailsType
    <2>. QED BY <1>1, <1>5, <2>3, <2>4, <2>5
         DEF DedupEpisode, StoreTypeOK, RemTypeOK, history
  <1>6. CASE MarkDuplicates
    <2>1. rem' \in Rem
      BY <1>6, NextGroupType DEF MarkDuplicates, RemTypeOK, Rem, RemPC
    <2>2. status' \in [Episodes -> Status] /\ faults' \in 0..MaxFaults
      BY <1>6, FailsType, SetStatusType DEF MarkDuplicates, StoreTypeOK, Status
    <2>. QED BY <1>1, <1>6, <2>1, <2>2
         DEF MarkDuplicates, StoreTypeOK, RemTypeOK, history
  <1>7. CASE CurateUnique
    <2>1. rem' \in Rem /\ rem.unique \in SUBSET Episodes
      BY <1>7 DEF CurateUnique, RemTypeOK, Rem, RemPC
    <2>. QED BY <1>1, <1>7, <2>1 DEF CurateUnique, StoreTypeOK, RemTypeOK, graphVars
  <1>8. CASE UpdateOntology
    <2>1. rem' \in Rem
      BY <1>8, NextGroupType DEF UpdateOntology, RemTypeOK, Rem, RemPC
    <2>2. rem.unique \in SUBSET Episodes
      BY DEF RemTypeOK, Rem
    <2>3. about' \in SUBSET Groups
      BY <1>8, <2>2, EpisodeAssumption DEF UpdateOntology, RemTypeOK
    <2>4. faults' \in 0..MaxFaults
      BY <1>8, FailsType DEF UpdateOntology
    <2>. QED BY <1>1, <1>8, <2>1, <2>3, <2>4
         DEF UpdateOntology, StoreTypeOK, RemTypeOK, graphVars, history
  <1>9. CASE MarkUnique
    <2>1. rem' \in Rem
      BY <1>9, NextGroupType DEF MarkUnique, RemTypeOK, Rem, RemPC
    <2>2. status' \in [Episodes -> Status] /\ faults' \in 0..MaxFaults
      BY <1>9, FailsType, SetStatusType
         DEF MarkUnique, mark_episodes_consolidated, StoreTypeOK, Status
    <2>. QED BY <1>1, <1>9, <2>1, <2>2 DEF MarkUnique, StoreTypeOK, RemTypeOK, history
  <1>10. CASE CompressUnique
    <2>1. rem' \in Rem /\ rem.unique \in SUBSET Episodes
      BY <1>10, NextGroupType DEF CompressUnique, RemTypeOK, Rem
    <2>2. summarised' \in SUBSET Episodes /\ faults' \in 0..MaxFaults
      BY <1>10, <2>1, CompressType DEF CompressUnique, StoreTypeOK
    <2>. QED BY <1>1, <1>10, <2>1, <2>2
         DEF CompressUnique, StoreTypeOK, RemTypeOK, history
  <1>11. CASE EndCycle
    BY <1>1, <1>11 DEF EndCycle, RemIdle, Rem, RemPC, RemTypeOK, StoreTypeOK, storeVars
  <1>12. CASE AsyncOntology
    BY <1>1, <1>12, EpisodeAssumption DEF AsyncOntology, RemTypeOK, StoreTypeOK, storeVars
  <1>. QED BY <1>2, <1>3, <1>4, <1>5, <1>6, <1>7, <1>8, <1>9, <1>10, <1>11, <1>12
       DEF SweepStep

\* Death and restart of the process.
LEMMA CrashType == TypeOK /\ Crash => TypeOK'
  <1>. SUFFICES ASSUME TypeOK, Crash PROVE TypeOK'
    OBVIOUS
  <1>. USE DEF TypeOK, Crash
  <1>1. HydrateTypeOK'
    BY HydrateAssumption DEF HydrateCrash, HydrateTypeOK, HydratePC
  <1>2. CurationTypeOK'
    BY CurationAssumption DEF CurationCrash, CurationTypeOK, Job, NoJob
  <1>3. RemTypeOK'
    BY DEF RemCrash, RemTypeOK, RemIdle, Rem, RemPC
  <1>4. stream' \in [Episodes -> Stream]
    BY DEF StreamAfterCrash, StoreTypeOK, Stream
  <1>5. StoreTypeOK'
    BY <1>4, FailsType DEF StoreTypeOK, graphVars, history
  <1>. QED BY <1>1, <1>2, <1>3, <1>5

\* TypeOK holds in every state of every behaviour of the composed workers.
THEOREM TypeCorrect == Spec => []TypeOK
  <1>1. Init => TypeOK
    <2>1. StoreInit => StoreTypeOK
      BY EpisodeAssumption DEF StoreInit, StoreTypeOK, Status, Stream
    <2>2. HydrateInit => HydrateTypeOK
      BY HydrateAssumption DEF HydrateInit, HydrateTypeOK, HydratePC
    <2>3. CurationInit => CurationTypeOK
      BY CurationAssumption DEF CurationInit, CurationTypeOK, Job, NoJob
    <2>4. RemInit => RemTypeOK
      BY DEF RemInit, RemTypeOK, RemIdle, Rem, RemPC
    <2>. QED BY <2>1, <2>2, <2>3, <2>4 DEF Init, TypeOK
  <1>2. TypeOK /\ UNCHANGED vars => TypeOK'
    BY DEF TypeOK, StoreTypeOK, HydrateTypeOK, CurationTypeOK, RemTypeOK, vars,
           storeVars, hydrateVars, curationVars, remVars
  <1>3. TypeOK /\ [Next]_vars => TypeOK'
    BY <1>2, HydrateType, CurationType, SweepType, CrashType DEF Next
  <1>. QED BY <1>1, <1>3, PTL DEF Spec

(***************************************************************************)
(* The two semaphores never drift: Spec => []HydratePermits and            *)
(* Spec => []CurationPermits.  Both counters are inductive given TypeOK:   *)
(* each action moves at most one task into or out of the guarded steps and *)
(* changes the counter by the opposite amount.                             *)
(***************************************************************************)

Holders == {e \in Episodes : hyd[e] \in HoldsSlot}
Guardians == {j \in Jobs : job[j].pc \in Guarded}

\* Only finitely many tasks can hold a slot.
LEMMA HoldersFinite == IsFiniteSet(Holders) /\ Cardinality(Holders) \in Nat
  BY EpisodeAssumption, FS_Subset, FS_CardinalityType DEF Holders

\* Only finitely many tasks can hold a permit.
LEMMA GuardiansFinite == IsFiniteSet(Guardians) /\ Cardinality(Guardians) \in Nat
  BY CurationAssumption, FS_Subset, FS_CardinalityType DEF Guardians

(***************************************************************************)
(* The hydration slots.                                                    *)
(***************************************************************************)
LEMMA HydrateKeepsSlots == TypeOK /\ HydratePermits /\ Hydrate => HydratePermits'
  <1>. SUFFICES ASSUME TypeOK, slots + Cardinality(Holders) = HydrateSlots,
                       NEW e \in Episodes, HydrateStep(e)
                PROVE  slots' + Cardinality(Holders') = HydrateSlots
    BY DEF Hydrate, HydratePermits, Holders
  <1>. USE HoldersFinite, HydrateAssumption DEF TypeOK, HydrateTypeOK
  <1>1. CASE HydrateStore(e)
    <2>1. Holders' = Holders
      BY <1>1 DEF HydrateStore, Holders, HoldsSlot
    <2>. QED BY <1>1, <2>1 DEF HydrateStore
  <1>2. CASE HydrateGate(e)
    <2>1. CASE slots > 0 /\ slots' = slots - 1 /\ hyd' = [hyd EXCEPT ![e] = "extract"]
      <3>1. Holders' = Holders \cup {e} /\ e \notin Holders
        BY <1>2, <2>1 DEF HydrateGate, Holders, HoldsSlot
      <3>2. Cardinality(Holders') = Cardinality(Holders) + 1
        BY <3>1, FS_AddElement
      <3>. QED BY <2>1, <3>2
    <2>2. CASE slots' = slots /\ hyd' = [hyd EXCEPT ![e] = "done"]
      <3>1. Holders' = Holders
        BY <1>2, <2>2 DEF HydrateGate, Holders, HoldsSlot
      <3>. QED BY <2>2, <3>1
    <2>. QED BY <1>2, <2>1, <2>2 DEF HydrateGate
  <1>3. CASE HydrateExtract(e)
    <2>1. Holders' = Holders
      BY <1>3 DEF HydrateExtract, Holders, HoldsSlot
    <2>. QED BY <1>3, <2>1 DEF HydrateExtract
  <1>4. CASE HydrateFlag(e)
    <2>1. Holders' = Holders
      BY <1>4 DEF HydrateFlag, Holders, HoldsSlot
    <2>. QED BY <1>4, <2>1 DEF HydrateFlag
  <1>5. CASE HydrateFinish(e)
    <2>1. Holders' = Holders \ {e} /\ e \in Holders
      BY <1>5 DEF HydrateFinish, Holders, HoldsSlot
    <2>2. Cardinality(Holders') = Cardinality(Holders) - 1
      BY <2>1, FS_RemoveElement
    <2>. QED BY <1>5, <2>2 DEF HydrateFinish
  <1>6. CASE episode_stored(e) /\ UNCHANGED hydrateVars
    BY <1>6 DEF hydrateVars, Holders
  <1>. QED BY <1>1, <1>2, <1>3, <1>4, <1>5, <1>6 DEF HydrateStep

\* _release_hydrate_slot runs exactly as often as a slot was taken, on every
\* path through background_hydrate, in every behaviour.
THEOREM HydrateSlotsSafe == Spec => []HydratePermits
  <1>1. Init => HydratePermits
    <2>. SUFFICES ASSUME Init PROVE HydratePermits
      OBVIOUS
    <2>1. {e \in Episodes : hyd[e] \in HoldsSlot} = {}
      BY DEF Init, HydrateInit, HoldsSlot
    <2>. QED BY <2>1, FS_EmptySet, HydrateAssumption DEF Init, HydrateInit, HydratePermits
  <1>2. TypeOK /\ HydratePermits /\ Crash => HydratePermits'
    <2>. SUFFICES ASSUME Crash PROVE HydratePermits'
      OBVIOUS
    <2>1. {e \in Episodes : hyd'[e] \in HoldsSlot} = {}
      BY DEF Crash, HydrateCrash, HoldsSlot
    <2>. QED BY <2>1, FS_EmptySet, HydrateAssumption DEF Crash, HydrateCrash, HydratePermits
  <1>3. HydratePermits /\ UNCHANGED hydrateVars => HydratePermits'
    BY DEF HydratePermits, hydrateVars
  <1>4. TypeOK /\ HydratePermits /\ [Next]_vars => HydratePermits'
    BY <1>2, <1>3, HydrateKeepsSlots DEF Next, Curation, Sweep, vars
  <1>. QED BY <1>1, <1>4, TypeCorrect, PTL DEF Spec

(***************************************************************************)
(* The permits of the CurationWorker.                                      *)
(***************************************************************************)

\* The program counter of a task after Goto.
LEMMA GotoPC ==
    ASSUME CurationTypeOK, NEW j \in Jobs, NEW pc, job[j].pc # "idle", Goto(j, pc)
    PROVE  job'[j].pc = pc /\ \A i \in Jobs \ {j} : job'[i] = job[i]
  <1>1. job[j] \in [pc : JobPC \ {"idle"}, group : Groups, uuids : Seq(Episodes)]
    BY DEF CurationTypeOK, Job, NoJob
  <1>. QED BY <1>1 DEF Goto, CurationTypeOK

\* A task that goes from one step to another on the same side of the semaphore.
LEMMA GuardKept ==
    ASSUME CurationTypeOK, NEW j \in Jobs, NEW pc, job[j].pc # "idle", Goto(j, pc),
           job[j].pc \in Guarded <=> pc \in Guarded
    PROVE  Guardians' = Guardians
  BY GotoPC DEF Guardians

\* A task inside the block that leaves it gives its permit back.
LEMMA GuardReleased ==
    ASSUME CurationTypeOK, permits + Cardinality(Guardians) = MaxConcurrent,
           NEW j \in Jobs, job[j].pc \in Guarded, Release(j)
    PROVE  permits' + Cardinality(Guardians') = MaxConcurrent
  <1>1. Guardians' = Guardians \ {j} /\ j \in Guardians
    BY DEF Release, NoJob, Guardians, Guarded, CurationTypeOK
  <1>2. Cardinality(Guardians') = Cardinality(Guardians) - 1
    BY <1>1, GuardiansFinite, FS_RemoveElement
  <1>. QED BY <1>2, GuardiansFinite, CurationAssumption DEF Release, CurationTypeOK

\* Acquire takes one permit, every way out of the block gives one back.
LEMMA CurationKeepsPermits == TypeOK /\ CurationPermits /\ Curation => CurationPermits'
  <1>. SUFFICES ASSUME CurationTypeOK, permits + Cardinality(Guardians) = MaxConcurrent,
                       CurationStep
                PROVE  permits' + Cardinality(Guardians') = MaxConcurrent
    BY DEF Curation, CurationPermits, Guardians, TypeOK
  <1>. USE GuardiansFinite, CurationAssumption
  <1>1. ASSUME NEW g, Spawn(g) PROVE Guardians' = Guardians
    BY <1>1 DEF Spawn, Guardians, Guarded, CurationTypeOK
  <1>2. ASSUME NEW e \in Episodes, AddEvent(e) \/ AckEvent(e) \/ NakEvent(e)
        PROVE  permits' + Cardinality(Guardians') = MaxConcurrent
    <2>1. UNCHANGED permits
      BY <1>2 DEF AddEvent, AckEvent, NakEvent, curationVars
    <2>2. UNCHANGED job \/ Spawn(GroupOf[e])
      BY <1>2 DEF AddEvent, AckEvent, NakEvent, curationVars
    <2>3. Guardians' = Guardians
      BY <1>1, <2>2 DEF Guardians
    <2>. QED BY <2>1, <2>3
  <1>3. ASSUME NEW g \in Groups, CheckTimeouts(g)
        PROVE  permits' + Cardinality(Guardians') = MaxConcurrent
    BY <1>1, <1>3 DEF CheckTimeouts
  <1>4. ASSUME NEW j \in Jobs, JobStep(j)
        PROVE  permits' + Cardinality(Guardians') = MaxConcurrent
    <2>1. CASE PopGroup(j)
      <3>1. Guardians' = Guardians
        BY <2>1 DEF PopGroup, Guardians, Guarded, NoJob, CurationTypeOK
      <3>. QED BY <2>1, <3>1 DEF PopGroup
    <2>2. CASE AcquireCuration(j)
      <3>1. Guardians' = Guardians \cup {j} /\ j \notin Guardians
        BY <2>2, GotoPC DEF AcquireCuration, Guardians, Guarded
      <3>2. Cardinality(Guardians') = Cardinality(Guardians) + 1
        BY <3>1, FS_AddElement
      <3>. QED BY <2>2, <3>2 DEF AcquireCuration, CurationTypeOK
    <2>3. CASE FetchContents(j)
      <3>1. CASE UNCHANGED permits /\ \E pc \in {"mark", "curate"} : Goto(j, pc)
        <4>1. Guardians' = Guardians
          BY <2>3, <3>1, GuardKept DEF FetchContents, Guarded
        <4>. QED BY <3>1, <4>1
      <3>2. CASE Release(j)
        BY <2>3, <3>2, GuardReleased DEF FetchContents, Guarded
      <3>. QED BY <2>3, <3>1, <3>2 DEF FetchContents
    <2>4. CASE RunCuration(j)
      <3>1. Guardians' = Guardians
        BY <2>4, GuardKept DEF RunCuration, Guarded
      <3>. QED BY <2>4, <3>1 DEF RunCuration
    <2>5. CASE MarkConsolidated(j)
      <3>1. CASE UNCHANGED permits /\ Goto(j, "compress")
        <4>1. Guardians' = Guardians
          BY <2>5, <3>1, GuardKept DEF MarkConsolidated, Guarded
        <4>. QED BY <3>1, <4>1
      <3>2. CASE Release(j)
        BY <2>5, <3>2, GuardReleased DEF MarkConsolidated, Guarded
      <3>. QED BY <2>5, <3>1, <3>2 DEF MarkConsolidated
    <2>6. CASE CompressAndFinish(j)
      BY <2>6, GuardReleased DEF CompressAndFinish, Guarded
    <2>. QED BY <1>4, <2>1, <2>2, <2>3, <2>4, <2>5, <2>6 DEF JobStep
  <1>. QED BY <1>2, <1>3, <1>4 DEF CurationStep

\* At most max_concurrent curations run, and every way out of the guarded
\* block (a failed fetch, a failed mark, the end) gives the permit back.
THEOREM CurationPermitsSafe == Spec => []CurationPermits
  <1>1. Init => CurationPermits
    <2>. SUFFICES ASSUME Init PROVE CurationPermits
      OBVIOUS
    <2>1. {j \in Jobs : job[j].pc \in Guarded} = {}
      BY DEF Init, CurationInit, NoJob, Guarded
    <2>2. permits = MaxConcurrent /\ MaxConcurrent \in Nat
      BY CurationAssumption DEF Init, CurationInit
    <2>. QED BY <2>1, <2>2, FS_EmptySet DEF CurationPermits
  <1>2. TypeOK /\ CurationPermits /\ Crash => CurationPermits'
    <2>. SUFFICES ASSUME Crash PROVE CurationPermits'
      OBVIOUS
    <2>1. {j \in Jobs : job'[j].pc \in Guarded} = {}
      BY DEF Crash, CurationCrash, NoJob, Guarded
    <2>2. permits' = MaxConcurrent /\ MaxConcurrent \in Nat
      BY CurationAssumption DEF Crash, CurationCrash
    <2>. QED BY <2>1, <2>2, FS_EmptySet DEF CurationPermits
  <1>3. CurationPermits /\ UNCHANGED curationVars => CurationPermits'
    BY DEF CurationPermits, curationVars
  <1>4. TypeOK /\ CurationPermits /\ [Next]_vars => CurationPermits'
    BY <1>2, <1>3, CurationKeepsPermits DEF Next, Hydrate, Sweep, vars
  <1>. QED BY <1>1, <1>4, TypeCorrect, PTL DEF Spec

(***************************************************************************)
(* AccumulatedIsTimed is inductive: events and time of arrival are added   *)
(* and popped together, across a failed acknowledgement too.               *)
(***************************************************************************)
THEOREM EventsAreTimed == Spec => []AccumulatedIsTimed
  <1>1. Init => AccumulatedIsTimed
    BY DEF Init, CurationInit, AccumulatedIsTimed
  <1>2. TypeOK /\ AccumulatedIsTimed /\ [Next]_vars => AccumulatedIsTimed'
    <2>. SUFFICES ASSUME TypeOK, AccumulatedIsTimed, [Next]_vars PROVE AccumulatedIsTimed'
      OBVIOUS
    <2>. USE DEF AccumulatedIsTimed
    <2>1. CASE UNCHANGED accVars
      BY <2>1 DEF accVars
    <2>2. ASSUME NEW e \in Episodes, AddEvent(e) PROVE AccumulatedIsTimed'
      BY <2>2 DEF AddEvent, TypeOK, CurationTypeOK
    <2>3. ASSUME NEW j \in Jobs, PopGroup(j) PROVE AccumulatedIsTimed'
      BY <2>3 DEF PopGroup, TypeOK, CurationTypeOK
    <2>4. CASE Crash
      BY <2>4 DEF Crash, CurationCrash
    <2>5. CASE Hydrate \/ Sweep \/ UNCHANGED vars
      BY <2>1, <2>5 DEF Hydrate, Sweep, vars, curationVars, accVars
    <2>6. CASE Curation
      <3>1. CASE \/ \E e \in Episodes : AckEvent(e) \/ NakEvent(e)
                 \/ \E g \in Groups : CheckTimeouts(g)
        BY <2>1, <3>1 DEF AckEvent, NakEvent, CheckTimeouts, curationVars, accVars
      <3>2. ASSUME NEW j \in Jobs, JobStep(j) PROVE AccumulatedIsTimed'
        BY <2>1, <2>3, <3>2 DEF JobStep, AcquireCuration, FetchContents, RunCuration,
                                MarkConsolidated, CompressAndFinish
      <3>. QED BY <2>2, <2>6, <3>1, <3>2 DEF Curation, CurationStep
    <2>. QED BY <2>4, <2>5, <2>6 DEF Next
  <1>. QED BY <1>1, <1>2, TypeCorrect, PTL DEF Spec

(***************************************************************************)
(* GroupInv by the component that each part is about.                      *)
(***************************************************************************)
EdgesGrouped == \A d \in duplicateOf : GroupOf[d[1]] = GroupOf[d[2]]
AccGrouped == \A g \in Groups : \A i \in DOMAIN acc[g] : GroupOf[acc[g][i]] = g
JobGrouped(j) == \A e \in Sources(j) : GroupOf[e] = job[j].group
JobsGrouped == \A j \in Jobs : JobGrouped(j)
Carried == rem.batch \cup rem.unique \cup rem.dups
SweepGrouped ==
    /\ \A d, e \in Carried : GroupOf[d] = GroupOf[e]
    /\ rem.pc \in {"idle", "normal", "next"} => Carried = {}

\* GroupInv is the conjunction of the parts.
LEMMA GroupParts == GroupInv <=> EdgesGrouped /\ AccGrouped /\ JobsGrouped /\ SweepGrouped
  BY DEF GroupInv, GroupsAreIsolated, EdgesGrouped, AccGrouped, JobsGrouped, JobGrouped,
         SweepGrouped, Carried

\* The same in the next state.
LEMMA GroupPartsNext ==
    ASSUME EdgesGrouped', AccGrouped', JobsGrouped', SweepGrouped'
    PROVE  GroupInv'
  BY DEF GroupInv, GroupsAreIsolated, EdgesGrouped, AccGrouped, JobsGrouped, JobGrouped,
         SweepGrouped, Carried

\* A step that leaves a part's variables alone.
LEMMA GroupFrame ==
    /\ EdgesGrouped /\ UNCHANGED duplicateOf => EdgesGrouped'
    /\ AccGrouped /\ UNCHANGED acc => AccGrouped'
    /\ JobsGrouped /\ UNCHANGED job => JobsGrouped'
    /\ SweepGrouped /\ UNCHANGED rem => SweepGrouped'
  BY DEF EdgesGrouped, AccGrouped, JobsGrouped, JobGrouped, Sources, SweepGrouped, Carried

(***************************************************************************)
(* The curation worker.                                                    *)
(***************************************************************************)
\* A task that goes on, ends, or is new holds episodes of its own group.
LEMMA JobKeepsGroup ==
    ASSUME CurationTypeOK, JobsGrouped, NEW j \in Jobs,
           \/ Release(j)
           \/ \E pc \in JobPC \ {"idle"} : job[j].pc # "idle" /\ Goto(j, pc)
    PROVE  JobsGrouped'
  <1>1. CASE Release(j)
    <2>1. \A i \in Jobs : job'[i] = job[i] \/ job'[i] = NoJob
      BY <1>1 DEF Release, CurationTypeOK
    <2>2. \A i \in Jobs : job'[i] = NoJob => JobGrouped(i)'
      BY DEF NoJob, JobGrouped, Sources
    <2>3. \A i \in Jobs : job'[i] = job[i] => JobGrouped(i)'
      BY DEF JobsGrouped, JobGrouped, Sources
    <2>. QED BY <2>1, <2>2, <2>3 DEF JobsGrouped
  <1>2. ASSUME NEW pc \in JobPC \ {"idle"}, job[j].pc # "idle", Goto(j, pc)
        PROVE  JobsGrouped'
    <2>1. job'[j].group = job[j].group /\ job'[j].uuids = job[j].uuids
      BY <1>2 DEF Goto, CurationTypeOK, Job, NoJob
    <2>2. \A i \in Jobs : i # j => job'[i] = job[i]
      BY <1>2 DEF Goto, CurationTypeOK
    <2>. QED BY <2>1, <2>2 DEF JobsGrouped, JobGrouped, Sources
  <1>. QED BY <1>1, <1>2

\* A new task holds nothing yet.
LEMMA SpawnGrouped ==
    ASSUME CurationTypeOK, JobsGrouped, NEW g, Spawn(g)
    PROVE  JobsGrouped'
  <1>1. PICK j \in Jobs : job' = [job EXCEPT ![j] = [pc |-> "spawned", group |-> g,
                                                     uuids |-> << >>]]
    BY DEF Spawn
  <1>2. job'[j].uuids = << >>
    BY <1>1 DEF CurationTypeOK
  <1>3. JobGrouped(j)'
    BY <1>2 DEF JobGrouped, Sources
  <1>4. \A i \in Jobs : i # j => job'[i] = job[i]
    BY <1>1 DEF CurationTypeOK
  <1>5. \A i \in Jobs : job'[i] = job[i] => JobGrouped(i)'
    BY DEF JobsGrouped, JobGrouped, Sources
  <1>. QED BY <1>3, <1>4, <1>5 DEF JobsGrouped

\* The accumulator hands a task the events of the task's own group.
LEMMA CurationGrouped == TypeOK /\ GroupInv /\ Curation => GroupInv'
  <1>. SUFFICES ASSUME TypeOK, GroupInv, CurationStep, UNCHANGED <<hydrateVars, remVars>>
                PROVE  GroupInv'
    BY DEF Curation
  <1>. USE DEF TypeOK
  <1>0. EdgesGrouped /\ AccGrouped /\ JobsGrouped /\ SweepGrouped
    BY GroupParts
  <1>1. EdgesGrouped' /\ SweepGrouped'
    <2>1. UNCHANGED duplicateOf /\ UNCHANGED rem
      BY DEF remVars, CurationStep, AddEvent, AckEvent, NakEvent, CheckTimeouts, JobStep,
             PopGroup, AcquireCuration, FetchContents, RunCuration, MarkConsolidated,
             CompressAndFinish, storeVars, graphVars
    <2>. QED BY <1>0, <2>1, GroupFrame
  <1>2. ASSUME NEW e \in Episodes, AddEvent(e) PROVE AccGrouped' /\ JobsGrouped'
    <2>1. AccGrouped'
      <3>. SUFFICES ASSUME NEW g \in Groups, NEW i \in DOMAIN acc'[g]
                    PROVE  GroupOf[acc'[g][i]] = g
        BY DEF AccGrouped
      <3>1. acc[g] \in Seq(Episodes)
        BY DEF CurationTypeOK
      <3>2. acc'[g] = acc[g] \/ (g = GroupOf[e] /\ acc'[g] = Append(acc[g], e))
        BY <1>2 DEF AddEvent, CurationTypeOK
      <3>3. \/ g = GroupOf[e] /\ acc'[g][i] = e
            \/ i \in DOMAIN acc[g] /\ acc'[g][i] = acc[g][i]
        BY <3>1, <3>2
      <3>. QED BY <1>0, <3>3 DEF AccGrouped
    <2>. QED BY <1>0, <1>2, <2>1, GroupFrame DEF AddEvent
  <1>3. ASSUME NEW e \in Episodes, AckEvent(e) \/ NakEvent(e) PROVE AccGrouped' /\ JobsGrouped'
    BY <1>0, <1>3, GroupFrame, SpawnGrouped DEF AckEvent, NakEvent, curationVars, accVars
  <1>4. ASSUME NEW g \in Groups, CheckTimeouts(g) PROVE AccGrouped' /\ JobsGrouped'
    BY <1>0, <1>4, GroupFrame, SpawnGrouped DEF CheckTimeouts, accVars
  <1>5. ASSUME NEW j \in Jobs, JobStep(j) PROVE AccGrouped' /\ JobsGrouped'
    <2>1. CASE PopGroup(j)
      <3>1. job[j].group \in Groups
        BY <2>1 DEF PopGroup, CurationTypeOK, Job, NoJob
      <3>2. AccGrouped'
        BY <1>0, <2>1 DEF PopGroup, CurationTypeOK, AccGrouped
      <3>3. JobGrouped(j)'
        BY <1>0, <2>1, <3>1 DEF PopGroup, CurationTypeOK, NoJob, Sources, AccGrouped, JobGrouped
      <3>4. \A i \in Jobs : i # j => job'[i] = job[i]
        BY <2>1 DEF PopGroup, CurationTypeOK
      <3>. QED BY <1>0, <3>2, <3>3, <3>4 DEF JobsGrouped, JobGrouped, Sources
    <2>2. CASE \/ AcquireCuration(j) \/ FetchContents(j) \/ RunCuration(j)
               \/ MarkConsolidated(j) \/ CompressAndFinish(j)
      <3>1. UNCHANGED acc
        BY <2>2 DEF AcquireCuration, FetchContents, RunCuration, MarkConsolidated,
                    CompressAndFinish, accVars
      <3>2. JobsGrouped'
        BY <1>0, <2>2, JobKeepsGroup DEF AcquireCuration, FetchContents, RunCuration,
                    MarkConsolidated, CompressAndFinish, JobPC
      <3>. QED BY <1>0, <3>1, <3>2, GroupFrame
    <2>. QED BY <1>5, <2>1, <2>2 DEF JobStep
  <1>. QED BY <1>1, <1>2, <1>3, <1>4, <1>5, GroupPartsNext DEF CurationStep

(***************************************************************************)
(* The sweep.                                                              *)
(***************************************************************************)
\* An episode and the original that the similarity query has found for it are
\* of one group, and the sweep begins a group with empty hands.
LEMMA SweepKeepsGroup == TypeOK /\ GroupInv /\ Sweep => GroupInv'
  <1>. SUFFICES ASSUME TypeOK, GroupInv, SweepStep \/ AsyncOntology,
                       UNCHANGED <<hydrateVars, curationVars>>
                PROVE  GroupInv'
    BY DEF Sweep
  <1>0. EdgesGrouped /\ AccGrouped /\ JobsGrouped /\ SweepGrouped /\ rem \in Rem
    BY GroupParts DEF TypeOK, RemTypeOK
  <1>1. AccGrouped' /\ JobsGrouped'
    BY <1>0, GroupFrame DEF curationVars
  <1>2. ASSUME NextGroup \/ rem' = RemIdle PROVE SweepGrouped'
    <2>1. rem'.batch = {} /\ rem'.unique = {} /\ rem'.dups = {}
      <3>1. CASE NextGroup
        BY <3>1 DEF NextGroup, RemIdle
      <3>2. CASE rem' = RemIdle
        BY <3>2 DEF RemIdle
      <3>. QED BY <1>2, <3>1, <3>2
    <2>. QED BY <2>1 DEF SweepGrouped, Carried
  \* A step that holds no more than it held.
  <1>3. ASSUME Carried' \subseteq Carried,
               rem'.pc \in {"idle", "normal", "next"} => rem.pc \in {"idle", "normal", "next"}
        PROVE  SweepGrouped'
    BY <1>0, <1>3 DEF SweepGrouped
  <1>4. CASE FindPriorityGroups \/ FindNormalGroups
    <2>1. rem.pc \in {"idle", "normal", "next"} /\ Carried' = Carried
      BY <1>0, <1>4 DEF FindPriorityGroups, FindNormalGroups, Rem, Carried
    <2>2. EdgesGrouped'
      BY <1>0, <1>4, GroupFrame DEF FindPriorityGroups, FindNormalGroups, graphVars
    <2>. QED BY <1>1, <1>3, <2>1, <2>2, GroupPartsNext
  <1>5. CASE FetchPending
    <2>1. PICK g \in Chosen : \/ rem' = Begun(g)
                              \/ \E B \in Oldest(PendingIn(g), FetchLimit) :
                                    rem' = [Begun(g) EXCEPT !.pc = "dedup", !.batch = B]
      BY <1>5 DEF FetchPending
    <2>2. /\ Begun(g) \in Rem /\ Begun(g).pc = "next"
          /\ Begun(g).batch = {} /\ Begun(g).unique = {} /\ Begun(g).dups = {}
      <3>1. rem.pc = "next" /\ Carried = {}
        BY <1>0, <1>5 DEF FetchPending, SweepGrouped
      <3>2. rem.batch = {} /\ rem.unique = {} /\ rem.dups = {}
        BY <3>1 DEF Carried
      <3>. QED BY <1>0, <3>1, <3>2 DEF Begun, Rem
    <2>3. SweepGrouped'
      <3>1. CASE rem' = Begun(g)
        BY <2>2, <3>1 DEF SweepGrouped, Carried
      <3>2. ASSUME NEW B \in Oldest(PendingIn(g), FetchLimit),
                   rem' = [Begun(g) EXCEPT !.pc = "dedup", !.batch = B]
            PROVE  SweepGrouped'
        <4>1. rem'.pc = "dedup" /\ rem'.batch = B /\ rem'.unique = {} /\ rem'.dups = {}
          BY <2>2, <3>2 DEF Rem
        <4>2. \A e \in B : GroupOf[e] = g
          BY OldestType DEF PendingIn
        <4>. QED BY <4>1, <4>2 DEF SweepGrouped, Carried
      <3>. QED BY <2>1, <3>1, <3>2
    <2>4. EdgesGrouped'
      BY <1>0, <1>5, GroupFrame DEF FetchPending, graphVars
    <2>. QED BY <1>1, <2>3, <2>4, GroupPartsNext
  <1>6. CASE DedupEpisode
    <2>1. PICK e \in rem.batch :
             /\ AsUnique(e) \/ AsDuplicate(e)
             /\ \/ UNCHANGED duplicateOf
                \/ \E o \in SimilarConsolidated(e) : duplicateOf' = duplicateOf \cup {<<e, o>>}
      BY <1>6, OldestType DEF DedupEpisode
    <2>2. rem'.pc \in {"markdup", "dedup"} /\ Carried' \subseteq Carried
      <3>1. /\ rem'.pc \in {"markdup", "dedup"} /\ rem'.batch \subseteq rem.batch
            /\ rem'.unique \subseteq rem.unique \cup {e} /\ rem'.dups \subseteq rem.dups \cup {e}
        <4>1. CASE AsUnique(e)
          BY <1>0, <4>1 DEF AsUnique, Turned, Rem
        <4>2. CASE AsDuplicate(e)
          BY <1>0, <4>2 DEF AsDuplicate, Turned, Rem
        <4>. QED BY <2>1, <4>1, <4>2
      <3>. QED BY <3>1 DEF Carried
    <2>3. EdgesGrouped'
      <3>1. ASSUME NEW o \in SimilarConsolidated(e), duplicateOf' = duplicateOf \cup {<<e, o>>}
            PROVE  EdgesGrouped'
        <4>1. GroupOf[o] = GroupOf[e]
          BY <3>1 DEF SimilarConsolidated
        <4>. QED BY <1>0, <3>1, <4>1 DEF EdgesGrouped
      <3>. QED BY <1>0, <2>1, <3>1, GroupFrame
    <2>. QED BY <1>1, <1>3, <2>2, <2>3, GroupPartsNext
  <1>7. CASE \/ MarkDuplicates \/ CurateUnique \/ UpdateOntology \/ MarkUnique
             \/ CompressUnique \/ EndCycle
    <2>1. EdgesGrouped'
      BY <1>0, <1>7, GroupFrame DEF MarkDuplicates, CurateUnique, UpdateOntology, MarkUnique,
              CompressUnique, EndCycle, storeVars, graphVars
    <2>2. \/ NextGroup \/ rem' = RemIdle
          \/ \E pc \in {"curate", "ontology", "mark", "compress"} : rem' = [rem EXCEPT !.pc = pc]
      BY <1>7 DEF MarkDuplicates, CurateUnique, UpdateOntology, MarkUnique, CompressUnique,
                  EndCycle
    <2>3. ASSUME NEW pc \in {"curate", "ontology", "mark", "compress"},
                 rem' = [rem EXCEPT !.pc = pc]
          PROVE  SweepGrouped'
      <3>1. rem'.pc = pc /\ Carried' = Carried
        BY <1>0, <2>3 DEF Rem, Carried
      <3>. QED BY <1>3, <3>1
    <2>. QED BY <1>1, <1>2, <2>1, <2>2, <2>3, GroupPartsNext
  <1>8. CASE AsyncOntology
    <2>1. UNCHANGED duplicateOf /\ UNCHANGED rem
      BY <1>8 DEF AsyncOntology, storeVars
    <2>. QED BY <1>0, <1>1, <2>1, GroupFrame, GroupPartsNext
  <1>. QED BY <1>4, <1>5, <1>6, <1>7, <1>8 DEF SweepStep

\* No edge, curation task or sweep batch ever mixes the episodes of two groups.
THEOREM GroupsStayApart == Spec => []GroupsAreIsolated
  <1>1. Init => GroupInv
    BY DEF Init, StoreInit, CurationInit, RemInit, RemIdle, NoJob, Sources, GroupInv,
           GroupsAreIsolated
  <1>2. TypeOK /\ GroupInv /\ Hydrate => GroupInv'
    <2>. SUFFICES ASSUME TypeOK, GroupInv, NEW e \in Episodes, HydrateStep(e),
                         UNCHANGED <<curationVars, remVars>>
                  PROVE  GroupInv'
      BY DEF Hydrate
    <2>1. UNCHANGED duplicateOf /\ UNCHANGED acc /\ UNCHANGED job /\ UNCHANGED rem
      BY DEF curationVars, remVars, HydrateStep, HydrateStore, HydrateGate, HydrateExtract,
             HydrateFlag, HydrateFinish, episode_stored, storeVars, graphVars
    <2>. QED BY <2>1, GroupParts, GroupFrame, GroupPartsNext
  <1>3. TypeOK /\ GroupInv /\ Crash => GroupInv'
    <2>. SUFFICES ASSUME TypeOK, GroupInv, Crash PROVE GroupInv'
      OBVIOUS
    <2>1. EdgesGrouped'
      BY GroupParts, GroupFrame DEF Crash, graphVars
    <2>2. AccGrouped' /\ JobsGrouped' /\ SweepGrouped'
      BY DEF Crash, CurationCrash, RemCrash, RemIdle, NoJob, Sources, AccGrouped, JobsGrouped,
             JobGrouped, SweepGrouped, Carried
    <2>. QED BY <2>1, <2>2, GroupPartsNext
  <1>4. GroupInv /\ UNCHANGED vars => GroupInv'
    <2>. SUFFICES ASSUME GroupInv, UNCHANGED vars PROVE GroupInv'
      OBVIOUS
    <2>1. UNCHANGED duplicateOf /\ UNCHANGED acc /\ UNCHANGED job /\ UNCHANGED rem
      BY DEF vars, storeVars, curationVars, remVars
    <2>. QED BY <2>1, GroupParts, GroupFrame, GroupPartsNext
  <1>5. TypeOK /\ GroupInv /\ [Next]_vars => GroupInv'
    BY <1>2, <1>3, <1>4, CurationGrouped, SweepKeepsGroup DEF Next
  <1>6. GroupInv => GroupsAreIsolated
    BY DEF GroupInv
  <1>. QED BY <1>1, <1>5, <1>6, TypeCorrect, PTL DEF Spec

(***************************************************************************)
(* No observation is lost: Spec => []NoEpisodeForgotten, from the inductive *)
(* invariant ContentInv.  NoEpisodeForgotten alone is not inductive, because *)
(* both workers mark episodes on the strength of what they did or read     *)
(* several awaits earlier; ContentInv says what that was.                  *)
(***************************************************************************)

(***************************************************************************)
(* What was processed stays processed, so what a step leaves alone keeps   *)
(* its part of the invariant.                                              *)
(***************************************************************************)
Grows == harvested \subseteq harvested' /\ curated \subseteq curated'

\* An episode once represented stays so.
LEMMA RepresentedGrows ==
    ASSUME Grows, NEW e, Represented(e)
    PROVE  Represented(e)'
  BY DEF Grows, Represented, Processed

\* A step that leaves the curation tasks alone.
LEMMA JobsFrame ==
    ASSUME JobsHaveProcessed, Grows, UNCHANGED job
    PROVE  JobsHaveProcessed'
  BY DEF JobsHaveProcessed, Grows, Processed, Sources

\* A step that leaves the sweep alone.
LEMMA SweepFrame ==
    ASSUME SweepHasProcessed, Grows, UNCHANGED rem
    PROVE  SweepHasProcessed'
  <1>1. \A e \in rem.dups : Represented(e)'
    BY RepresentedGrows DEF SweepHasProcessed
  <1>. QED BY <1>1 DEF SweepHasProcessed, Grows

\* A step that retires no episode.
LEMMA StatusFrame ==
    ASSUME ConsolidatedIsProcessed, NoEpisodeForgotten, Grows,
           \A e \in Episodes : status'[e] = status[e] \/ status'[e] = "pending"
    PROVE  ConsolidatedIsProcessed' /\ NoEpisodeForgotten'
  <1>1. ConsolidatedIsProcessed'
    BY DEF ConsolidatedIsProcessed, Grows, Processed
  <1>2. NoEpisodeForgotten'
    <2>. SUFFICES ASSUME NEW e \in Episodes, status'[e] \in {"consolidated", "duplicate"}
                  PROVE  Represented(e)'
      BY DEF NoEpisodeForgotten
    <2>1. Represented(e)
      BY DEF NoEpisodeForgotten
    <2>. QED BY <2>1, RepresentedGrows
  <1>. QED BY <1>1, <1>2

\* A step that leaves the flags and their background tasks alone.
LEMMA FlagsFrame ==
    ASSUME FlagsAreTrue, Grows, UNCHANGED <<extracted, hyd>>
    PROVE  FlagsAreTrue'
  BY DEF FlagsAreTrue, Grows

\* Marking processed episodes consolidated loses nothing.
LEMMA MarkIsSafe ==
    ASSUME ConsolidatedIsProcessed, NoEpisodeForgotten, UNCHANGED history,
           NEW S, S \subseteq Processed, mark_episodes_consolidated(S)
    PROVE  ConsolidatedIsProcessed' /\ NoEpisodeForgotten'
  <1>1. Processed' = Processed
    BY DEF Processed, history
  <1>2. \A e \in Episodes : \/ status'[e] = status[e]
                            \/ e \in S /\ status'[e] = "consolidated"
    BY DEF mark_episodes_consolidated, SetStatus
  <1>3. ConsolidatedIsProcessed'
    BY <1>1, <1>2 DEF ConsolidatedIsProcessed
  <1>4. \A e \in Episodes : Represented(e) \/ e \in Processed => Represented(e)'
    BY <1>1 DEF Represented
  <1>5. NoEpisodeForgotten'
    BY <1>2, <1>4 DEF NoEpisodeForgotten
  <1>. QED BY <1>3, <1>5

\* So does marking duplicates of what was processed.
LEMMA MarkDuplicatesIsSafe ==
    ASSUME ConsolidatedIsProcessed, NoEpisodeForgotten, UNCHANGED history,
           NEW S, \A e \in S : Represented(e), SetStatus(S, "duplicate")
    PROVE  ConsolidatedIsProcessed' /\ NoEpisodeForgotten'
  <1>1. Processed' = Processed
    BY DEF Processed, history
  <1>2. \A e \in Episodes : \/ status'[e] = status[e]
                            \/ e \in S /\ status'[e] = "duplicate"
    BY DEF SetStatus
  <1>3. ConsolidatedIsProcessed'
    BY <1>1, <1>2 DEF ConsolidatedIsProcessed
  <1>4. \A e \in Episodes : Represented(e) => Represented(e)'
    BY <1>1 DEF Represented
  <1>5. NoEpisodeForgotten'
    BY <1>2, <1>4 DEF NoEpisodeForgotten
  <1>. QED BY <1>3, <1>5

(***************************************************************************)
(* The background task: only HydrateExtract and HydrateFlag touch what the *)
(* flags mean.                                                             *)
(***************************************************************************)
LEMMA HydrateContent == TypeOK /\ ContentInv /\ Hydrate => ContentInv'
  <1>. SUFFICES ASSUME TypeOK, ContentInv, NEW e \in Episodes, HydrateStep(e),
                       UNCHANGED <<curationVars, remVars>>
                PROVE  ContentInv'
    BY DEF Hydrate
  <1>1. UNCHANGED job /\ UNCHANGED rem
    BY DEF curationVars, remVars
  <1>2. Grows
    BY DEF HydrateStep, HydrateStore, HydrateGate, HydrateExtract, HydrateFlag,
           HydrateFinish, episode_stored, storeVars, history, Grows
  <1>3. \A d \in Episodes : status'[d] = status[d] \/ status'[d] = "pending"
    BY DEF HydrateStep, HydrateStore, HydrateGate, HydrateExtract, HydrateFlag,
           HydrateFinish, episode_stored, storeVars, graphVars, TypeOK, StoreTypeOK
  <1>4. FlagsAreTrue'
    <2>. USE DEF FlagsAreTrue, ContentInv, TypeOK, HydrateTypeOK
    <2>1. CASE HydrateStore(e)
      BY <2>1 DEF HydrateStore, history
    <2>2. CASE HydrateGate(e)
      BY <2>2 DEF HydrateGate, storeVars
    <2>3. CASE HydrateExtract(e)
      BY <2>3 DEF HydrateExtract, graphVars
    <2>4. CASE HydrateFlag(e)
      BY <2>4 DEF HydrateFlag, history
    <2>5. CASE HydrateFinish(e)
      BY <2>5 DEF HydrateFinish, storeVars
    <2>6. CASE episode_stored(e) /\ UNCHANGED hydrateVars
      BY <2>6 DEF episode_stored, hydrateVars, graphVars, history
    <2>. QED BY <2>1, <2>2, <2>3, <2>4, <2>5, <2>6 DEF HydrateStep
  <1>. QED BY <1>1, <1>2, <1>3, <1>4, JobsFrame, SweepFrame, StatusFrame DEF ContentInv

(***************************************************************************)
(* The curation tasks.  A task gets to "mark" through FetchContents, when  *)
(* every flag is set, or through RunCuration.                              *)
(***************************************************************************)
LEMMA JobsKept ==
    ASSUME JobsHaveProcessed, Grows,
           \A j \in Jobs : job'[j].pc = "mark" => job'[j] = job[j]
    PROVE  JobsHaveProcessed'
  BY DEF JobsHaveProcessed, Grows, Processed, Sources

\* A task that goes on to "mark" has processed what it holds.
LEMMA JobToMark ==
    ASSUME JobsHaveProcessed, Grows, CurationTypeOK, NEW j \in Jobs,
           Goto(j, "mark"), Sources(j) \subseteq Processed'
    PROVE  JobsHaveProcessed'
  <1>. SUFFICES ASSUME NEW i \in Jobs, job'[i].pc = "mark"
                PROVE  Sources(i)' \subseteq Processed'
    BY DEF JobsHaveProcessed
  <1>1. CASE i = j
    <2>1. job'[j].uuids = job[j].uuids
      BY DEF Goto, CurationTypeOK, Job, NoJob
    <2>. QED BY <1>1, <2>1 DEF Sources
  <1>2. CASE i # j
    BY <1>2 DEF Goto, CurationTypeOK, JobsHaveProcessed, Sources, Grows, Processed
  <1>. QED BY <1>1, <1>2

\* A task that ends, starts or goes elsewhere does not get to "mark".
LEMMA JobElsewhere ==
    ASSUME CurationTypeOK, NEW j \in Jobs,
           \/ Release(j)
           \/ \E g \in Groups : Spawn(g)
           \/ \E pc \in JobPC \ {"idle", "mark"} : job[j].pc # "idle" /\ Goto(j, pc)
    PROVE  \A i \in Jobs : job'[i].pc = "mark" => job'[i] = job[i]
  <1>1. CASE Release(j)
    BY <1>1 DEF Release, NoJob, CurationTypeOK
  <1>2. CASE \E g \in Groups : Spawn(g)
    BY <1>2 DEF Spawn, CurationTypeOK
  <1>3. ASSUME NEW pc \in JobPC \ {"idle", "mark"}, job[j].pc # "idle", Goto(j, pc)
        PROVE  \A i \in Jobs : job'[i].pc = "mark" => job'[i] = job[i]
    <2>1. job[j] \in [pc : JobPC \ {"idle"}, group : Groups, uuids : Seq(Episodes)]
      BY <1>3 DEF CurationTypeOK, Job, NoJob
    <2>2. job'[j].pc = pc
      BY <1>3, <2>1 DEF Goto, CurationTypeOK
    <2>3. \A i \in Jobs : i # j => job'[i] = job[i]
      BY <1>3 DEF Goto, CurationTypeOK
    <2>. QED BY <2>2, <2>3
  <1>. QED BY <1>1, <1>2, <1>3
LEMMA CurationContent == TypeOK /\ ContentInv /\ Curation => ContentInv'
  <1>. SUFFICES ASSUME TypeOK, ContentInv, CurationStep,
                       UNCHANGED <<hydrateVars, remVars>>
                PROVE  ContentInv'
    BY DEF Curation
  <1>. USE DEF TypeOK, ContentInv
  <1>1. UNCHANGED hyd /\ UNCHANGED rem
    BY DEF hydrateVars, remVars
  \* Steps that leave the graph and the history alone and take no task to "mark".
  <1>2. ASSUME UNCHANGED <<graphVars, history>>,
               \A i \in Jobs : job'[i].pc = "mark" => job'[i] = job[i]
        PROVE  ContentInv'
    <2>1. Grows /\ UNCHANGED <<status, extracted>>
      BY <1>2 DEF Grows, graphVars, history
    <2>. QED BY <1>1, <1>2, <2>1, FlagsFrame, JobsKept, SweepFrame, StatusFrame
  <1>3. ASSUME NEW e \in Episodes, AddEvent(e) \/ NakEvent(e) PROVE ContentInv'
    BY <1>2, <1>3 DEF AddEvent, NakEvent, curationVars
  <1>4. ASSUME NEW e \in Episodes, AckEvent(e) PROVE ContentInv'
    <2>1. CASE UNCHANGED job
      BY <1>2, <1>4, <2>1 DEF AckEvent
    <2>2. CASE Spawn(GroupOf[e])
      <3>1. GroupOf[e] \in Groups
        BY EpisodeAssumption
      <3>2. \A i \in Jobs : job'[i].pc = "mark" => job'[i] = job[i]
        BY <2>2, <3>1, JobElsewhere DEF Spawn
      <3>. QED BY <1>2, <1>4, <3>2 DEF AckEvent
    <2>. QED BY <1>4, <2>1, <2>2 DEF AckEvent
  <1>5. ASSUME NEW g \in Groups, CheckTimeouts(g) PROVE ContentInv'
    <2>1. \A i \in Jobs : job'[i].pc = "mark" => job'[i] = job[i]
      BY <1>5, JobElsewhere DEF CheckTimeouts, Spawn
    <2>. QED BY <1>2, <1>5, <2>1 DEF CheckTimeouts, storeVars, graphVars, history
  <1>6. ASSUME NEW j \in Jobs, JobStep(j) PROVE ContentInv'
    <2>1. CASE PopGroup(j)
      <3>1. \A i \in Jobs : job'[i].pc = "mark" => job'[i] = job[i]
        BY <2>1 DEF PopGroup, CurationTypeOK, NoJob
      <3>. QED BY <1>2, <2>1, <3>1 DEF PopGroup, storeVars, graphVars, history
    <2>2. CASE AcquireCuration(j)
      <3>1. \A i \in Jobs : job'[i].pc = "mark" => job'[i] = job[i]
        BY <2>2, JobElsewhere DEF AcquireCuration, JobPC
      <3>. QED BY <1>2, <2>2, <3>1 DEF AcquireCuration, storeVars, graphVars, history
    <2>3. CASE FetchContents(j)
      <3>1. CASE Goto(j, "mark") /\ AllExtracted(j)
        <4>1. Grows /\ UNCHANGED <<status, extracted>>
          BY <2>3 DEF FetchContents, Grows, graphVars, history
        <4>2. Sources(j) \subseteq Processed'
          BY <3>1, <4>1 DEF AllExtracted, FlagsAreTrue, Processed, Grows
        <4>3. JobsHaveProcessed'
          BY <3>1, <4>1, <4>2, JobToMark
        <4>. QED BY <1>1, <4>1, <4>3, FlagsFrame, SweepFrame, StatusFrame
      <3>2. CASE Goto(j, "curate") \/ Release(j)
        <4>1. \A i \in Jobs : job'[i].pc = "mark" => job'[i] = job[i]
          BY <2>3, <3>2, JobElsewhere DEF FetchContents, JobPC
        <4>. QED BY <1>2, <2>3, <4>1 DEF FetchContents
      <3>. QED BY <2>3, <3>1, <3>2 DEF FetchContents
    <2>4. CASE RunCuration(j)
      <3>1. Grows /\ UNCHANGED <<status, extracted>> /\ Sources(j) \subseteq Processed'
        BY <2>4 DEF RunCuration, Grows, graphVars, Processed
      <3>2. JobsHaveProcessed'
        BY <2>4, <3>1, JobToMark DEF RunCuration
      <3>. QED BY <1>1, <3>1, <3>2, FlagsFrame, SweepFrame, StatusFrame
    <2>5. CASE MarkConsolidated(j)
      <3>1. Grows /\ UNCHANGED extracted /\ UNCHANGED history
        BY <2>5 DEF MarkConsolidated, Grows, history
      <3>2. \A i \in Jobs : job'[i].pc = "mark" => job'[i] = job[i]
        BY <2>5, JobElsewhere DEF MarkConsolidated, JobPC
      <3>3. ConsolidatedIsProcessed' /\ NoEpisodeForgotten'
        <4>1. Sources(j) \subseteq Processed
          BY <2>5 DEF MarkConsolidated, JobsHaveProcessed
        <4>2. CASE UNCHANGED status
          BY <3>1, <4>2, StatusFrame
        <4>3. CASE mark_episodes_consolidated(Sources(j))
          BY <3>1, <4>1, <4>3, MarkIsSafe
        <4>. QED BY <2>5, <4>2, <4>3 DEF MarkConsolidated
      <3>. QED BY <1>1, <3>1, <3>2, <3>3, FlagsFrame, JobsKept, SweepFrame
    <2>6. CASE CompressAndFinish(j)
      <3>1. Grows /\ UNCHANGED <<status, extracted>>
        BY <2>6 DEF CompressAndFinish, Grows, history
      <3>2. \A i \in Jobs : job'[i].pc = "mark" => job'[i] = job[i]
        BY <2>6, JobElsewhere DEF CompressAndFinish
      <3>. QED BY <1>1, <3>1, <3>2, FlagsFrame, JobsKept, SweepFrame, StatusFrame
    <2>. QED BY <1>6, <2>1, <2>2, <2>3, <2>4, <2>5, <2>6 DEF JobStep
  <1>. QED BY <1>3, <1>4, <1>5, <1>6 DEF CurationStep

(***************************************************************************)
(* The sweep.  An original it finds is consolidated at that moment, so it  *)
(* was processed, and processed episodes stay so.                          *)
(***************************************************************************)
LEMMA SweepContent == TypeOK /\ ContentInv /\ Sweep => ContentInv'
  <1>. SUFFICES ASSUME TypeOK, ContentInv, SweepStep \/ AsyncOntology,
                       UNCHANGED <<hydrateVars, curationVars>>
                PROVE  ContentInv'
    BY DEF Sweep
  <1>. USE DEF TypeOK, ContentInv
  <1>1. UNCHANGED hyd /\ UNCHANGED job
    BY DEF hydrateVars, curationVars
  <1>2. rem \in Rem
    BY DEF RemTypeOK
  \* Steps that leave status, flags and history alone.
  <1>3. ASSUME UNCHANGED <<status, extracted, history>>, SweepHasProcessed'
        PROVE  ContentInv'
    <2>1. Grows
      BY <1>3 DEF Grows, history
    <2>. QED BY <1>1, <1>3, <2>1, FlagsFrame, JobsFrame, StatusFrame
  \* Steps that give up or finish the group.
  <1>4. ASSUME NextGroup PROVE SweepHasProcessed'
    BY <1>4 DEF NextGroup, RemIdle, SweepHasProcessed
  <1>5. \A e \in Episodes : UNCHANGED history => Represented(e)' = Represented(e)
    BY DEF Represented, Processed, history
  <1>6. CASE FindPriorityGroups \/ FindNormalGroups \/ FetchPending
    <2>1. UNCHANGED <<status, extracted, history>>
      BY <1>6 DEF FindPriorityGroups, FindNormalGroups, FetchPending, graphVars
    <2>2. rem'.dups = rem.dups /\ rem'.pc \notin {"ontology", "mark"}
      BY <1>2, <1>6 DEF FindPriorityGroups, FindNormalGroups, FetchPending, Begun, Rem
    <2>3. SweepHasProcessed'
      BY <1>2, <1>5, <2>1, <2>2 DEF SweepHasProcessed, Rem
    <2>. QED BY <1>3, <2>1, <2>3
  <1>7. CASE DedupEpisode
    <2>1. UNCHANGED <<status, extracted, history>>
      BY <1>7 DEF DedupEpisode
    <2>2. PICK e \in rem.batch : \/ AsUnique(e)
                                 \/ AsDuplicate(e) /\ SimilarConsolidated(e) # {}
      BY <1>7, OldestType DEF DedupEpisode
    <2>3. rem'.pc \in {"markdup", "dedup"}
      BY <1>2, <2>2 DEF AsUnique, AsDuplicate, Turned, Rem
    <2>4. CASE AsUnique(e)
      <3>1. rem'.dups = rem.dups
        BY <1>2, <2>4 DEF AsUnique, Turned, Rem
      <3>2. SweepHasProcessed'
        BY <1>2, <1>5, <2>1, <2>3, <3>1 DEF SweepHasProcessed, Rem
      <3>. QED BY <1>3, <2>1, <3>2
    <2>5. CASE AsDuplicate(e) /\ SimilarConsolidated(e) # {}
      <3>1. e \in Episodes /\ rem'.dups = rem.dups \cup {e}
        BY <1>2, <2>5 DEF AsDuplicate, Turned, Rem
      <3>2. Represented(e)
        BY <2>5 DEF SimilarConsolidated, ConsolidatedIsProcessed, Represented
      <3>3. SweepHasProcessed'
        BY <1>2, <1>5, <2>1, <2>3, <3>1, <3>2 DEF SweepHasProcessed, Rem
      <3>. QED BY <1>3, <2>1, <3>3
    <2>. QED BY <2>2, <2>4, <2>5
  <1>8. CASE MarkDuplicates
    <2>1. Grows /\ UNCHANGED <<extracted, history>>
      BY <1>8 DEF MarkDuplicates, Grows, history
    <2>2. SweepHasProcessed'
      <3>1. CASE NextGroup
        BY <1>4, <3>1
      <3>2. CASE rem' = [rem EXCEPT !.pc = "curate"]
        <4>1. rem'.pc = "curate" /\ rem'.dups = rem.dups
          BY <1>2, <3>2 DEF Rem
        <4>. QED BY <1>2, <1>5, <2>1, <4>1 DEF SweepHasProcessed, Rem
      <3>. QED BY <1>8, <3>1, <3>2 DEF MarkDuplicates
    <2>3. ConsolidatedIsProcessed' /\ NoEpisodeForgotten'
      <3>1. CASE SetStatus(rem.dups, "duplicate")
        BY <2>1, <3>1, MarkDuplicatesIsSafe DEF SweepHasProcessed
      <3>2. CASE UNCHANGED status
        BY <2>1, <3>2, StatusFrame
      <3>. QED BY <1>8, <3>1, <3>2 DEF MarkDuplicates
    <2>. QED BY <1>1, <2>1, <2>2, <2>3, FlagsFrame, JobsFrame
  <1>9. CASE CurateUnique
    <2>1. Grows /\ UNCHANGED <<status, extracted>>
      BY <1>9 DEF CurateUnique, Grows, graphVars
    <2>2. rem'.unique \subseteq curated' /\ rem'.dups = rem.dups
      BY <1>2, <1>9 DEF CurateUnique, Rem
    <2>3. SweepHasProcessed'
      BY <2>1, <2>2, RepresentedGrows DEF SweepHasProcessed
    <2>. QED BY <1>1, <2>1, <2>3, FlagsFrame, JobsFrame, StatusFrame
  <1>10. CASE UpdateOntology
    <2>1. UNCHANGED <<status, extracted, history>>
      BY <1>10 DEF UpdateOntology, graphVars
    <2>2. SweepHasProcessed'
      <3>1. CASE NextGroup
        BY <1>4, <3>1
      <3>2. CASE rem' = [rem EXCEPT !.pc = "mark"]
        <4>1. rem'.unique = rem.unique /\ rem'.dups = rem.dups
          BY <1>2, <3>2 DEF Rem
        <4>. QED BY <1>2, <1>5, <1>10, <2>1, <4>1
             DEF UpdateOntology, SweepHasProcessed, Rem, history
      <3>. QED BY <1>10, <3>1, <3>2 DEF UpdateOntology
    <2>. QED BY <1>3, <2>1, <2>2
  <1>11. CASE MarkUnique
    <2>1. Grows /\ UNCHANGED <<extracted, history>>
      BY <1>11 DEF MarkUnique, Grows, history
    <2>2. SweepHasProcessed'
      <3>1. CASE NextGroup
        BY <1>4, <3>1
      <3>2. CASE rem' = [rem EXCEPT !.pc = "compress"]
        <4>1. rem'.pc = "compress" /\ rem'.dups = rem.dups
          BY <1>2, <3>2 DEF Rem
        <4>. QED BY <1>2, <1>5, <2>1, <4>1 DEF SweepHasProcessed, Rem
      <3>. QED BY <1>11, <3>1, <3>2 DEF MarkUnique
    <2>3. ConsolidatedIsProcessed' /\ NoEpisodeForgotten'
      <3>1. rem.unique \subseteq Processed
        BY <1>11 DEF MarkUnique, SweepHasProcessed, Processed
      <3>2. CASE mark_episodes_consolidated(rem.unique)
        BY <2>1, <3>1, <3>2, MarkIsSafe
      <3>3. CASE UNCHANGED status
        BY <2>1, <3>3, StatusFrame
      <3>. QED BY <1>11, <3>2, <3>3 DEF MarkUnique
    <2>. QED BY <1>1, <2>1, <2>2, <2>3, FlagsFrame, JobsFrame
  <1>12. CASE CompressUnique
    <2>1. UNCHANGED <<status, extracted, history>> /\ NextGroup
      BY <1>12 DEF CompressUnique
    <2>. QED BY <1>3, <1>4, <2>1
  <1>13. CASE EndCycle
    <2>1. UNCHANGED <<status, extracted, history>> /\ rem' = RemIdle
      BY <1>13 DEF EndCycle, storeVars, history
    <2>2. SweepHasProcessed'
      BY <2>1 DEF SweepHasProcessed, RemIdle
    <2>. QED BY <1>3, <2>1, <2>2
  <1>14. CASE AsyncOntology
    <2>1. UNCHANGED <<status, extracted, history>> /\ UNCHANGED rem
      BY <1>14 DEF AsyncOntology, storeVars, history
    <2>2. Grows
      BY <2>1 DEF Grows, history
    <2>. QED BY <1>3, <2>1, <2>2, SweepFrame
  <1>. QED BY <1>6, <1>7, <1>8, <1>9, <1>10, <1>11, <1>12, <1>13, <1>14 DEF SweepStep

\* A crash forgets what the workers were about to do, never what was done.
LEMMA CrashContent == TypeOK /\ ContentInv /\ Crash => ContentInv'
  <1>. SUFFICES ASSUME TypeOK, ContentInv, Crash PROVE ContentInv'
    OBVIOUS
  <1>. USE DEF ContentInv, Crash
  <1>1. Grows /\ UNCHANGED <<status, extracted>>
    BY DEF Grows, graphVars, history
  <1>2. FlagsAreTrue'
    BY <1>1 DEF FlagsAreTrue, Grows, HydrateCrash
  <1>3. JobsHaveProcessed'
    BY DEF JobsHaveProcessed, CurationCrash, NoJob
  <1>4. SweepHasProcessed'
    BY DEF SweepHasProcessed, RemCrash, RemIdle
  <1>. QED BY <1>1, <1>2, <1>3, <1>4, StatusFrame

\* ContentInv is an invariant: it holds initially and every step keeps it.
LEMMA ContentCorrect == Spec => []ContentInv
  <1>1. Init => ContentInv
    BY DEF Init, StoreInit, HydrateInit, CurationInit, RemInit, RemIdle, NoJob, ContentInv,
           FlagsAreTrue, JobsHaveProcessed, SweepHasProcessed, ConsolidatedIsProcessed,
           NoEpisodeForgotten
  <1>2. ContentInv /\ UNCHANGED vars => ContentInv'
    <2>. SUFFICES ASSUME ContentInv, UNCHANGED vars PROVE ContentInv'
      OBVIOUS
    <2>1. UNCHANGED <<status, extracted, hyd, job, rem>> /\ Grows
      BY DEF vars, storeVars, hydrateVars, curationVars, remVars, Grows
    <2>. QED BY <2>1, FlagsFrame, JobsFrame, SweepFrame, StatusFrame DEF ContentInv
  <1>3. TypeOK /\ ContentInv /\ [Next]_vars => ContentInv'
    BY <1>2, HydrateContent, CurationContent, SweepContent, CrashContent DEF Next
  <1>. QED BY <1>1, <1>3, TypeCorrect, PTL DEF Spec

\* In every behaviour of the composed workers, with any failures and crashes,
\* an episode that is no longer pending was processed, or one similar to it was.
THEOREM NothingForgotten == Spec => []NoEpisodeForgotten
  <1>1. ContentInv => NoEpisodeForgotten
    BY DEF ContentInv
  <1>. QED BY <1>1, ContentCorrect, PTL

(***************************************************************************)
(* Spec => ImplementsLifecycle.  Besides ContentInv, which says what was   *)
(* processed, this takes LifeInv: nobody carries an episode that is not    *)
(* stored, and who summarises has retired.                                 *)
(***************************************************************************)

Stored == Lifecycle!Stored
Retired == Lifecycle!Retired

(***************************************************************************)
(* What a worker has stored or retired stays so.                           *)
(***************************************************************************)
Advances == Stored \subseteq Stored' /\ Retired \subseteq Retired'

\* A step that leaves the statuses alone takes nothing back.
LEMMA StatusKept == UNCHANGED status => Advances /\ UNCHANGED <<Stored, Retired>>
  BY DEF Advances, Stored, Retired, Lifecycle!Stored, Lifecycle!Retired

\* Retiring episodes that are stored takes nothing back.
LEMMA MarkAdvances ==
    ASSUME NEW S \in SUBSET Stored, NEW s \in {"consolidated", "duplicate"}, SetStatus(S, s)
    PROVE  Advances /\ S \subseteq Retired'
  <1>1. \A e \in S : e \in Episodes /\ status'[e] = s
    BY DEF Stored, Lifecycle!Stored, SetStatus
  <1>2. \A e \in Episodes : status'[e] = s \/ status'[e] = status[e]
    BY DEF SetStatus
  <1>. QED BY <1>1, <1>2 DEF Advances, Stored, Retired, Lifecycle!Stored, Lifecycle!Retired

(***************************************************************************)
(* Frames: the parts of LifeInv under a step that leaves their owner alone. *)
(***************************************************************************)
AccStored == \A g \in Groups : \A i \in DOMAIN acc[g] : acc[g][i] \in Stored
StreamStored == /\ \A e \in Episodes : hyd[e] = "new" => e \notin Stored
                /\ \A e \in Episodes : stream[e] # "none" => e \in Stored
JobsLife == \A j \in Jobs : /\ Sources(j) \subseteq Stored
                            /\ job[j].pc = "compress" => Sources(j) \subseteq Retired
SweepLife == /\ rem.batch \cup rem.unique \cup rem.dups \subseteq Stored
             /\ rem.pc = "compress" => rem.unique \subseteq Retired

\* LifeInv by the component that each part is about.
LEMMA LifeParts ==
    LifeInv <=> /\ StreamStored /\ AccStored /\ JobsLife /\ SweepLife
                /\ summarised \subseteq Retired
  BY DEF LifeInv, CarriedIsStored, SummarisesRetired, AccStored, StreamStored, JobsLife,
         SweepLife, Stored, Retired

\* The same in the next state.
LEMMA LifePartsNext ==
    ASSUME StreamStored', AccStored', JobsLife', SweepLife', summarised' \subseteq Retired'
    PROVE  LifeInv'
  BY DEF LifeInv, CarriedIsStored, SummarisesRetired, AccStored, StreamStored, JobsLife,
         SweepLife, Stored, Retired

\* A step that leaves the accumulator alone.
LEMMA AccFrame == ASSUME AccStored, Advances, UNCHANGED acc PROVE AccStored'
  BY DEF AccStored, Advances

\* A step that leaves the curation tasks alone.
LEMMA JobsLifeFrame == ASSUME JobsLife, Advances, UNCHANGED job PROVE JobsLife'
  BY DEF JobsLife, Advances, Sources

\* A step that leaves the sweep alone.
LEMMA SweepLifeFrame == ASSUME SweepLife, Advances, UNCHANGED rem PROVE SweepLife'
  BY DEF SweepLife, Advances

\* A step that retires, or leaves statuses alone, and announces nothing new.
LEMMA StreamFrame ==
    ASSUME StreamStored, Advances, Stored' \subseteq Stored, UNCHANGED hyd,
           \A e \in Episodes : stream'[e] # "none" => stream[e] # "none"
    PROVE  StreamStored'
  BY DEF StreamStored, Advances

\* Marking makes no node.
LEMMA MarkStores ==
    ASSUME NEW S, NEW s, SetStatus(S, s)
    PROVE  Stored' \subseteq Stored
  BY DEF Stored, Lifecycle!Stored, SetStatus

(***************************************************************************)
(* LifeInv is inductive.                                                   *)
(***************************************************************************)
\* The background task of observe: only a new episode is stored.
LEMMA HydrateLife == TypeOK /\ LifeInv /\ Hydrate => LifeInv'
  <1>. SUFFICES ASSUME TypeOK, LifeInv, NEW e \in Episodes, HydrateStep(e),
                       UNCHANGED <<curationVars, remVars>>
                PROVE  LifeInv'
    BY DEF Hydrate
  <1>1. UNCHANGED <<acc, job, rem, summarised>>
    BY DEF curationVars, remVars, HydrateStep, HydrateStore, HydrateGate, HydrateExtract,
           HydrateFlag, HydrateFinish, episode_stored, storeVars, graphVars
  <1>2. Advances /\ StreamStored'
    <2>0. StreamStored
      BY LifeParts
    <2>1. CASE HydrateStore(e) /\ Succeeds /\ status' = [status EXCEPT ![e] = "pending"]
               /\ stream' = [stream EXCEPT ![e] = "publishing"]
      <3>1. e \notin Stored
        BY <2>0, <2>1 DEF HydrateStore, StreamStored
      <3>2. Stored' = Stored \cup {e} /\ Retired' = Retired
        BY <2>1, <3>1 DEF TypeOK, StoreTypeOK, Stored, Retired, Lifecycle!Stored,
                          Lifecycle!Retired
      <3>. QED BY <2>0, <2>1, <3>2 DEF Advances, HydrateStore, StreamStored, TypeOK,
                                       StoreTypeOK, HydrateTypeOK
    <2>2. CASE UNCHANGED status
      <3>1. Advances /\ UNCHANGED Stored
        BY <2>2, StatusKept
      <3>2. \A d \in Episodes : hyd'[d] = "new" => hyd[d] = "new"
        BY DEF HydrateStep, HydrateStore, HydrateGate, HydrateExtract, HydrateFlag,
               HydrateFinish, hydrateVars, TypeOK, HydrateTypeOK
      <3>3. \A d \in Episodes : stream'[d] # "none" => stream[d] # "none" \/ d \in Stored'
        BY <2>2 DEF HydrateStep, HydrateStore, HydrateGate, HydrateExtract, HydrateFlag,
               HydrateFinish, episode_stored, storeVars, TypeOK, StoreTypeOK, Stored,
               Lifecycle!Stored
      <3>. QED BY <2>0, <3>1, <3>2, <3>3 DEF StreamStored
    <2>. QED BY <2>1, <2>2 DEF HydrateStep, HydrateStore, HydrateGate, HydrateExtract,
                  HydrateFlag, HydrateFinish, episode_stored, storeVars, graphVars
  <1>3. summarised' \subseteq Retired'
    BY <1>1, <1>2, LifeParts DEF Advances
  <1>. QED BY <1>1, <1>2, <1>3, LifeParts, LifePartsNext, AccFrame, JobsLifeFrame, SweepLifeFrame

\* What a task does between two of its steps keeps what it holds.
LEMMA JobMoves ==
    ASSUME CurationTypeOK, JobsLife, Advances, NEW j \in Jobs,
           \/ Release(j)
           \/ \E pc \in JobPC \ {"idle"} :
                 /\ job[j].pc # "idle" /\ Goto(j, pc)
                 /\ pc = "compress" => Sources(j) \subseteq Retired'
    PROVE  JobsLife'
  <1>1. CASE Release(j)
    <2>1. \A i \in Jobs : job'[i] = job[i] \/ job'[i] = NoJob
      BY <1>1 DEF Release, CurationTypeOK
    <2>2. NoJob.pc # "compress" /\ {NoJob.uuids[i] : i \in DOMAIN NoJob.uuids} = {}
      BY DEF NoJob
    <2>. QED BY <2>1, <2>2 DEF JobsLife, Sources, Advances
  <1>2. ASSUME NEW pc \in JobPC \ {"idle"}, job[j].pc # "idle", Goto(j, pc),
               pc = "compress" => Sources(j) \subseteq Retired'
        PROVE  JobsLife'
    <2>1. job'[j].pc = pc /\ job'[j].uuids = job[j].uuids
      BY <1>2 DEF Goto, CurationTypeOK, Job, NoJob
    <2>2. \A i \in Jobs : i # j => job'[i] = job[i]
      BY <1>2 DEF Goto, CurationTypeOK
    <2>. QED BY <1>2, <2>1, <2>2 DEF JobsLife, Sources, Advances
  <1>. QED BY <1>1, <1>2

\* A new task holds nothing yet.
LEMMA SpawnLife ==
    ASSUME CurationTypeOK, JobsLife, Advances, NEW g, Spawn(g)
    PROVE  JobsLife'
  <1>1. PICK j \in Jobs : job' = [job EXCEPT ![j] = [pc |-> "spawned", group |-> g,
                                                     uuids |-> << >>]]
    BY DEF Spawn
  <1>2. job'[j].pc = "spawned" /\ job'[j].uuids = << >>
    BY <1>1 DEF CurationTypeOK
  <1>3. Sources(j)' = {}
    BY <1>2 DEF Sources
  <1>4. \A i \in Jobs : i # j => job'[i] = job[i]
    BY <1>1 DEF CurationTypeOK
  <1>. QED BY <1>2, <1>3, <1>4 DEF JobsLife, Sources, Advances

\* Compression adds sources of the worker only.
LEMMA CompressAdds ==
    ASSUME NEW S, compress_raw_episodes(S)
    PROVE  summarised \subseteq summarised' /\ summarised' \subseteq summarised \cup S
  BY DEF compress_raw_episodes

\* The curation worker.
LEMMA CurationLife == TypeOK /\ LifeInv /\ Curation => LifeInv'
  <1>. SUFFICES ASSUME TypeOK, LifeInv, CurationStep, UNCHANGED <<hydrateVars, remVars>>
                PROVE  LifeInv'
    BY DEF Curation
  <1>. USE DEF TypeOK
  <1>0. StreamStored /\ AccStored /\ JobsLife /\ SweepLife /\ summarised \subseteq Retired
    BY LifeParts
  <1>1. UNCHANGED hyd /\ UNCHANGED rem
    BY DEF hydrateVars, remVars
  \* Steps that leave the graph alone.
  <1>2. ASSUME UNCHANGED <<status, summarised>>, AccStored', JobsLife',
               \A e \in Episodes : stream'[e] # "none" => stream[e] # "none"
        PROVE  LifeInv'
    <2>1. Advances /\ UNCHANGED <<Stored, Retired>>
      BY <1>2, StatusKept
    <2>2. StreamStored' /\ SweepLife'
      BY <1>0, <1>1, <1>2, <2>1, StreamFrame, SweepLifeFrame
    <2>. QED BY <1>0, <1>2, <2>1, <2>2, LifePartsNext
  <1>3. ASSUME UNCHANGED status PROVE Advances /\ UNCHANGED <<Stored, Retired>>
    BY <1>3, StatusKept
  <1>4. ASSUME NEW e \in Episodes, AddEvent(e) PROVE LifeInv'
    <2>1. UNCHANGED <<status, summarised, job>> /\ Advances /\ UNCHANGED Stored
      BY <1>3, <1>4 DEF AddEvent, graphVars
    <2>2. e \in Stored /\ \A d \in Episodes : stream'[d] # "none" => stream[d] # "none"
      BY <1>0, <1>4 DEF AddEvent, StreamStored, StoreTypeOK
    <2>3. AccStored'
      <3>. SUFFICES ASSUME NEW g \in Groups, NEW i \in DOMAIN acc'[g]
                    PROVE  acc'[g][i] \in Stored
        BY <2>1 DEF AccStored
      <3>1. acc'[g] = acc[g] \/ acc'[g] = Append(acc[g], e)
        BY <1>4 DEF AddEvent, CurationTypeOK
      <3>2. acc[g] \in Seq(Episodes)
        BY DEF CurationTypeOK
      <3>3. acc'[g][i] = e \/ (i \in DOMAIN acc[g] /\ acc'[g][i] = acc[g][i])
        BY <3>1, <3>2
      <3>. QED BY <1>0, <2>2, <3>3 DEF AccStored
    <2>. QED BY <1>0, <1>2, <2>1, <2>2, <2>3, JobsLifeFrame
  <1>5. ASSUME NEW e \in Episodes, AckEvent(e) \/ NakEvent(e) PROVE LifeInv'
    <2>1. UNCHANGED <<status, summarised, acc>> /\ Advances
      BY <1>3, <1>5 DEF AckEvent, NakEvent, graphVars, accVars, curationVars
    <2>2. \A d \in Episodes : stream'[d] # "none" => stream[d] # "none"
      BY <1>5 DEF AckEvent, NakEvent, StoreTypeOK
    <2>3. JobsLife'
      BY <1>0, <1>5, <2>1, SpawnLife, JobsLifeFrame DEF AckEvent, NakEvent, curationVars
    <2>. QED BY <1>0, <1>2, <2>1, <2>2, <2>3, AccFrame
  <1>6. ASSUME NEW g \in Groups, CheckTimeouts(g) PROVE LifeInv'
    <2>1. UNCHANGED <<status, summarised, acc, stream>> /\ Advances
      BY <1>3, <1>6 DEF CheckTimeouts, storeVars, accVars
    <2>2. JobsLife'
      BY <1>0, <1>6, <2>1, SpawnLife DEF CheckTimeouts
    <2>. QED BY <1>0, <1>2, <2>1, <2>2, AccFrame
  <1>7. ASSUME NEW j \in Jobs, JobStep(j) PROVE LifeInv'
    <2>1. CASE PopGroup(j)
      <3>1. UNCHANGED <<status, summarised, stream>> /\ Advances
        BY <1>3, <2>1 DEF PopGroup, storeVars
      <3>2. AccStored'
        BY <1>0, <2>1, <3>1 DEF PopGroup, CurationTypeOK, AccStored, Advances
      <3>3. job[j].group \in Groups
        BY <2>1 DEF PopGroup, CurationTypeOK, Job, NoJob
      <3>4. job'[j].pc # "compress" /\ Sources(j)' \subseteq Stored
        BY <1>0, <2>1, <3>3 DEF PopGroup, CurationTypeOK, NoJob, Sources, AccStored
      <3>5. \A i \in Jobs : i # j => job'[i] = job[i]
        BY <2>1 DEF PopGroup, CurationTypeOK
      <3>6. JobsLife'
        BY <1>0, <3>1, <3>4, <3>5 DEF JobsLife, Sources, Advances
      <3>. QED BY <1>2, <3>1, <3>2, <3>6
    <2>2. CASE AcquireCuration(j) \/ FetchContents(j) \/ RunCuration(j)
      <3>1. UNCHANGED <<status, summarised, stream, acc>> /\ Advances
        BY <1>3, <2>2 DEF AcquireCuration, FetchContents, RunCuration, storeVars, graphVars,
                          accVars
      <3>2. JobsLife'
        BY <1>0, <2>2, <3>1, JobMoves DEF AcquireCuration, FetchContents, RunCuration, JobPC
      <3>. QED BY <1>0, <1>2, <3>1, <3>2, AccFrame
    <2>3. CASE MarkConsolidated(j)
      <3>1. Sources(j) \in SUBSET Stored
        BY <1>0 DEF JobsLife
      <3>2. Advances /\ Stored' \subseteq Stored /\ (Goto(j, "compress") => Sources(j) \subseteq Retired')
        <4>1. CASE UNCHANGED status /\ Release(j)
          <5>1. ~ Goto(j, "compress")
            BY <2>3, <4>1 DEF MarkConsolidated, Goto, Release, CurationTypeOK, NoJob
          <5>. QED BY <1>3, <4>1, <5>1
        <4>2. CASE mark_episodes_consolidated(Sources(j))
          BY <3>1, <4>2, MarkAdvances, MarkStores DEF mark_episodes_consolidated
        <4>. QED BY <2>3, <4>1, <4>2 DEF MarkConsolidated
      <3>3. UNCHANGED <<summarised, stream, acc>>
        BY <2>3 DEF MarkConsolidated, accVars
      <3>4. JobsLife'
        BY <1>0, <2>3, <3>2, JobMoves DEF MarkConsolidated, JobPC
      <3>5. StreamStored' /\ AccStored' /\ SweepLife'
        BY <1>0, <1>1, <3>2, <3>3, StreamFrame, AccFrame, SweepLifeFrame
      <3>. QED BY <1>0, <3>2, <3>3, <3>4, <3>5, LifePartsNext DEF Advances
    <2>4. CASE CompressAndFinish(j)
      <3>1. UNCHANGED <<status, stream, acc>> /\ Advances /\ UNCHANGED <<Stored, Retired>>
        BY <1>3, <2>4 DEF CompressAndFinish, accVars
      <3>2. Sources(j) \subseteq Retired
        BY <1>0, <2>4 DEF JobsLife, CompressAndFinish
      <3>3. summarised' \subseteq Retired'
        BY <1>0, <2>4, <3>1, <3>2, CompressAdds DEF CompressAndFinish
      <3>4. JobsLife'
        BY <1>0, <2>4, <3>1, JobMoves DEF CompressAndFinish
      <3>5. StreamStored' /\ AccStored' /\ SweepLife'
        BY <1>0, <1>1, <3>1, StreamFrame, AccFrame, SweepLifeFrame
      <3>. QED BY <3>3, <3>4, <3>5, LifePartsNext
    <2>. QED BY <1>7, <2>1, <2>2, <2>3, <2>4 DEF JobStep
  <1>. QED BY <1>4, <1>5, <1>6, <1>7 DEF CurationStep

\* The sweep.  What it fetches is pending, and so stored; what it is about to
\* compress it has marked.
LEMMA SweepKeepsLife == TypeOK /\ LifeInv /\ Sweep => LifeInv'
  <1>. SUFFICES ASSUME TypeOK, LifeInv, SweepStep \/ AsyncOntology,
                       UNCHANGED <<hydrateVars, curationVars>>
                PROVE  LifeInv'
    BY DEF Sweep
  <1>. USE DEF TypeOK
  <1>0. StreamStored /\ AccStored /\ JobsLife /\ SweepLife /\ summarised \subseteq Retired
    BY LifeParts
  <1>1. UNCHANGED hyd /\ UNCHANGED acc /\ UNCHANGED job /\ rem \in Rem
    BY DEF hydrateVars, curationVars, RemTypeOK
  \* What the other components rely on.
  <1>2. ASSUME Advances, Stored' \subseteq Stored, UNCHANGED stream, SweepLife',
               summarised' \subseteq Retired'
        PROVE  LifeInv'
    <2>1. StreamStored' /\ AccStored' /\ JobsLife'
      BY <1>0, <1>1, <1>2, StreamFrame, AccFrame, JobsLifeFrame
    <2>. QED BY <1>2, <2>1, LifePartsNext
  <1>3. ASSUME UNCHANGED <<status, summarised, stream>>, SweepLife' PROVE LifeInv'
    <2>1. Advances /\ UNCHANGED <<Stored, Retired>>
      BY <1>3, StatusKept
    <2>. QED BY <1>0, <1>2, <1>3, <2>1
  <1>4. ASSUME NextGroup \/ rem' = RemIdle PROVE SweepLife'
    <2>1. rem'.pc # "compress" /\ rem'.batch = {} /\ rem'.unique = {} /\ rem'.dups = {}
      <3>1. CASE NextGroup
        BY <3>1 DEF NextGroup, RemIdle
      <3>2. CASE rem' = RemIdle
        BY <3>2 DEF RemIdle
      <3>. QED BY <1>4, <3>1, <3>2
    <2>. QED BY <2>1 DEF SweepLife
  \* A step that holds what it held, or pending episodes.
  <1>6. ASSUME UNCHANGED status, rem'.pc # "compress",
               \A e \in rem'.batch \cup rem'.unique \cup rem'.dups :
                   \/ e \in rem.batch \cup rem.unique \cup rem.dups
                   \/ e \in Episodes /\ status[e] = "pending"
        PROVE  SweepLife'
    <2>1. Stored' = Stored
      BY <1>6, StatusKept
    <2>2. \A e \in Episodes : status[e] = "pending" => e \in Stored
      BY DEF Stored, Lifecycle!Stored
    <2>3. rem.batch \cup rem.unique \cup rem.dups \subseteq Stored
      BY <1>0 DEF SweepLife
    <2>4. rem'.batch \cup rem'.unique \cup rem'.dups \subseteq Stored
      BY <1>6, <2>2, <2>3
    <2>. QED BY <1>6, <2>1, <2>4 DEF SweepLife
  <1>7. CASE FindPriorityGroups \/ FindNormalGroups
    <2>1. UNCHANGED <<status, summarised, stream>>
      BY <1>7 DEF FindPriorityGroups, FindNormalGroups, graphVars
    <2>2. rem'.pc # "compress" /\ rem'.batch = rem.batch /\ rem'.unique = rem.unique
          /\ rem'.dups = rem.dups
      BY <1>1, <1>7 DEF FindPriorityGroups, FindNormalGroups, Rem
    <2>. QED BY <1>3, <1>6, <2>1, <2>2
  <1>8. CASE FetchPending
    <2>1. UNCHANGED <<status, summarised, stream>>
      BY <1>8 DEF FetchPending, graphVars
    <2>2. PICK g \in Chosen : \/ rem' = Begun(g)
                              \/ \E B \in Oldest(PendingIn(g), FetchLimit) :
                                    rem' = [Begun(g) EXCEPT !.pc = "dedup", !.batch = B]
      BY <1>8 DEF FetchPending
    <2>3. /\ Begun(g) \in Rem /\ Begun(g).pc = "next"
          /\ Begun(g).batch = rem.batch /\ Begun(g).unique = rem.unique
          /\ Begun(g).dups = rem.dups
      BY <1>1, <1>8 DEF Begun, Rem, FetchPending
    <2>4. SweepLife'
      <3>1. CASE rem' = Begun(g)
        BY <1>6, <2>1, <2>3, <3>1
      <3>2. ASSUME NEW B \in Oldest(PendingIn(g), FetchLimit),
                   rem' = [Begun(g) EXCEPT !.pc = "dedup", !.batch = B]
            PROVE  SweepLife'
        <4>1. rem'.pc = "dedup" /\ rem'.batch = B /\ rem'.unique = rem.unique
              /\ rem'.dups = rem.dups
          BY <2>3, <3>2 DEF Rem
        <4>2. \A e \in B : e \in Episodes /\ status[e] = "pending"
          BY <3>2, OldestType DEF PendingIn
        <4>. QED BY <1>6, <2>1, <4>1, <4>2
      <3>. QED BY <2>2, <3>1, <3>2
    <2>. QED BY <1>3, <2>1, <2>4
  <1>9. CASE DedupEpisode
    <2>1. UNCHANGED <<status, summarised, stream>>
      BY <1>9 DEF DedupEpisode
    <2>2. PICK e \in rem.batch : AsUnique(e) \/ AsDuplicate(e)
      BY <1>9, OldestType DEF DedupEpisode
    <2>3. /\ rem'.pc # "compress" /\ rem'.batch \subseteq rem.batch
          /\ rem'.unique \subseteq rem.unique \cup {e} /\ rem'.dups \subseteq rem.dups \cup {e}
      BY <1>1, <2>2 DEF AsUnique, AsDuplicate, Turned, Rem
    <2>. QED BY <1>3, <1>6, <2>1, <2>2, <2>3
  <1>10. CASE MarkDuplicates
    <2>1. Advances /\ Stored' \subseteq Stored
      BY <1>0, <1>10, StatusKept, MarkAdvances, MarkStores DEF MarkDuplicates, SweepLife
    <2>2. SweepLife'
      <3>1. CASE rem' = [rem EXCEPT !.pc = "curate"]
        <4>1. rem'.pc = "curate" /\ rem'.batch = rem.batch /\ rem'.unique = rem.unique
              /\ rem'.dups = rem.dups
          BY <1>1, <3>1 DEF Rem
        <4>. QED BY <1>0, <2>1, <4>1 DEF SweepLife, Advances
      <3>. QED BY <1>4, <1>10, <3>1 DEF MarkDuplicates
    <2>. QED BY <1>0, <1>2, <1>10, <2>1, <2>2 DEF MarkDuplicates, Advances
  <1>11. CASE CurateUnique
    <2>1. UNCHANGED <<status, summarised, stream>>
      BY <1>11 DEF CurateUnique, graphVars
    <2>2. rem'.pc = "ontology" /\ rem'.batch = rem.batch /\ rem'.unique = rem.unique
          /\ rem'.dups = rem.dups
      BY <1>1, <1>11 DEF CurateUnique, Rem
    <2>. QED BY <1>3, <1>6, <2>1, <2>2
  <1>12. CASE UpdateOntology
    <2>1. UNCHANGED <<status, summarised, stream>>
      BY <1>12 DEF UpdateOntology, graphVars
    <2>2. CASE rem' = [rem EXCEPT !.pc = "mark"]
      <3>1. rem'.pc = "mark" /\ rem'.batch = rem.batch /\ rem'.unique = rem.unique
            /\ rem'.dups = rem.dups
        BY <1>1, <2>2 DEF Rem
      <3>. QED BY <1>3, <1>6, <2>1, <3>1
    <2>. QED BY <1>3, <1>4, <1>12, <2>1, <2>2 DEF UpdateOntology
  <1>13. CASE MarkUnique
    <2>1. UNCHANGED <<summarised, stream>>
      BY <1>13 DEF MarkUnique
    <2>2. CASE mark_episodes_consolidated(rem.unique) /\ rem' = [rem EXCEPT !.pc = "compress"]
      <3>1. Advances /\ Stored' \subseteq Stored /\ rem.unique \subseteq Retired'
        BY <1>0, <2>2, MarkAdvances, MarkStores DEF mark_episodes_consolidated, SweepLife
      <3>2. rem'.batch = rem.batch /\ rem'.unique = rem.unique /\ rem'.dups = rem.dups
        BY <1>1, <2>2 DEF Rem
      <3>3. SweepLife'
        BY <1>0, <3>1, <3>2 DEF SweepLife, Advances
      <3>. QED BY <1>0, <1>2, <2>1, <3>1, <3>3 DEF Advances
    <2>. QED BY <1>3, <1>4, <1>13, <2>1, <2>2 DEF MarkUnique
  <1>14. CASE CompressUnique
    <2>1. UNCHANGED <<status, stream>> /\ Advances /\ UNCHANGED <<Stored, Retired>>
      BY <1>14, StatusKept DEF CompressUnique
    <2>2. summarised' \subseteq summarised \cup rem.unique /\ rem.unique \subseteq Retired
      BY <1>0, <1>14, CompressAdds DEF CompressUnique, SweepLife
    <2>3. SweepLife'
      BY <1>4, <1>14 DEF CompressUnique
    <2>. QED BY <1>0, <1>2, <2>1, <2>2, <2>3
  <1>15. CASE EndCycle
    BY <1>3, <1>4, <1>15 DEF EndCycle, storeVars
  <1>16. CASE AsyncOntology
    <2>1. UNCHANGED <<status, summarised, stream>> /\ UNCHANGED rem
      BY <1>16 DEF AsyncOntology, storeVars
    <2>. QED BY <1>0, <1>3, <2>1, StatusKept, SweepLifeFrame
  <1>. QED BY <1>7, <1>8, <1>9, <1>10, <1>11, <1>12, <1>13, <1>14, <1>15, <1>16
       DEF SweepStep

\* A crash leaves the graph, and announces nothing.
LEMMA CrashLife == TypeOK /\ LifeInv /\ Crash => LifeInv'
  <1>. SUFFICES ASSUME TypeOK, LifeInv, Crash PROVE LifeInv'
    OBVIOUS
  <1>. USE DEF Crash
  <1>0. StreamStored /\ summarised \subseteq Retired
    BY LifeParts
  <1>1. UNCHANGED <<status, summarised>> /\ Advances /\ UNCHANGED <<Stored, Retired>>
    BY StatusKept DEF graphVars
  <1>2. \A e \in Episodes : /\ hyd'[e] = "new" => hyd[e] = "new"
                            /\ stream'[e] # "none" => stream[e] # "none"
    BY DEF HydrateCrash, StreamAfterCrash, TypeOK, StoreTypeOK
  <1>3. StreamStored'
    BY <1>0, <1>1, <1>2 DEF StreamStored
  <1>4. AccStored' /\ JobsLife' /\ SweepLife'
    BY DEF CurationCrash, RemCrash, AccStored, JobsLife, SweepLife, NoJob, RemIdle, Sources
  <1>. QED BY <1>0, <1>1, <1>3, <1>4, LifePartsNext

\* LifeInv is an invariant.
LEMMA LifeCorrect == Spec => []LifeInv
  <1>1. Init => LifeInv
    BY DEF Init, StoreInit, HydrateInit, CurationInit, RemInit, RemIdle, NoJob, Sources,
           LifeInv, CarriedIsStored, SummarisesRetired, Lifecycle!Stored, Lifecycle!Retired
  <1>2. LifeInv /\ UNCHANGED vars => LifeInv'
    BY DEF LifeInv, CarriedIsStored, SummarisesRetired, Lifecycle!Stored, Lifecycle!Retired,
           Sources, vars, storeVars, hydrateVars, curationVars, remVars
  <1>3. TypeOK /\ LifeInv /\ [Next]_vars => LifeInv'
    BY <1>2, HydrateLife, CurationLife, SweepKeepsLife, CrashLife DEF Next
  <1>. QED BY <1>1, <1>3, TypeCorrect, PTL DEF Spec

\* Only retired episodes are ever summarised: no compressed episode is derived
\* from one that is still pending and would be curated and summarised again.
THEOREM OnlyRetiredSummarised == Spec => []SummariesAreFinal
  <1>1. LifeInv => SummariesAreFinal
    BY DEF LifeInv, SummarisesRetired, SummariesAreFinal, Lifecycle!Retired
  <1>. QED BY <1>1, LifeCorrect, PTL

(***************************************************************************)
(* The refinement.  Each action of a worker is one action of the life      *)
(* cycle, on the episodes the worker holds, or leaves its variables alone. *)
(***************************************************************************)
LifeStep == [Lifecycle!Next]_Lifecycle!vars

\* Steps that neither write the graph nor learn anything.
LEMMA Stutters ==
    ASSUME UNCHANGED <<status, summarised, harvested, curated>>
    PROVE  LifeStep
  BY DEF LifeStep, Lifecycle!vars, Processed

\* Learning from the content of some episodes.
LEMMA Learns ==
    ASSUME NEW S \in SUBSET Episodes, UNCHANGED <<status, summarised>>,
           Processed' = Processed \cup S
    PROVE  LifeStep
  BY DEF LifeStep, Lifecycle!Next, Lifecycle!Process

\* Marking stored episodes, all of them processed, as consolidated.
LEMMA Consolidates ==
    ASSUME NEW S \in SUBSET Stored, S \subseteq Processed, mark_episodes_consolidated(S),
           UNCHANGED <<summarised, harvested, curated>>
    PROVE  LifeStep
  <1>1. S \in SUBSET Episodes /\ \A e \in S : status[e] # "absent"
    BY DEF Stored, Lifecycle!Stored
  <1>2. Lifecycle!SetStatus(S, "consolidated")
    BY <1>1 DEF mark_episodes_consolidated, SetStatus, Lifecycle!SetStatus
  <1>3. Lifecycle!Consolidate(S)
    BY <1>2 DEF Lifecycle!Consolidate, Processed, Stored
  <1>. QED BY <1>1, <1>3 DEF LifeStep, Lifecycle!Next

\* Marking stored episodes, all of them represented, as duplicates.
LEMMA Deduplicates ==
    ASSUME NEW S \in SUBSET Stored, \A e \in S : Represented(e), SetStatus(S, "duplicate"),
           UNCHANGED <<summarised, harvested, curated>>
    PROVE  LifeStep
  <1>1. S \in SUBSET Episodes /\ \A e \in S : status[e] # "absent"
    BY DEF Stored, Lifecycle!Stored
  <1>2. Lifecycle!SetStatus(S, "duplicate")
    BY <1>1 DEF SetStatus, Lifecycle!SetStatus
  <1>3. \A e \in S : \E o \in Processed : Lifecycle!StandsFor(o, e)
    BY DEF Represented, Lifecycle!StandsFor
  <1>4. Lifecycle!Deduplicate(S)
    BY <1>2, <1>3 DEF Lifecycle!Deduplicate, Processed, Stored
  <1>. QED BY <1>1, <1>4 DEF LifeStep, Lifecycle!Next

\* Summarising some of the retired episodes that a worker holds.
LEMMA Summarises ==
    ASSUME NEW S \in SUBSET Retired, compress_raw_episodes(S),
           UNCHANGED <<status, harvested, curated>>
    PROVE  LifeStep
  <1>1. PICK L \in SUBSET S : summarised' = summarised \cup L
    BY DEF compress_raw_episodes
  <1>2. L \in SUBSET Episodes
    BY DEF Retired, Lifecycle!Retired
  <1>3. Lifecycle!Summarise(L)
    BY <1>1 DEF Lifecycle!Summarise, Processed, Retired
  <1>. QED BY <1>2, <1>3 DEF LifeStep, Lifecycle!Next

\* The background task stores its episode once, and then learns from it.
LEMMA HydrateRefines == TypeOK /\ LifeInv /\ Hydrate => LifeStep
  <1>. SUFFICES ASSUME TypeOK, LifeInv, NEW e \in Episodes, HydrateStep(e)
                PROVE  LifeStep
    BY DEF Hydrate
  <1>1. CASE HydrateStore(e)
    <2>1. CASE status' = [status EXCEPT ![e] = "pending"]
      <3>1. e \notin Lifecycle!Stored
        BY <1>1 DEF HydrateStore, LifeInv, CarriedIsStored
      <3>2. Lifecycle!SetStatus({e}, "pending")
        BY <2>1 DEF Lifecycle!SetStatus, TypeOK, StoreTypeOK
      <3>3. Lifecycle!Store(e)
        BY <1>1, <3>1, <3>2 DEF Lifecycle!Store, HydrateStore, history, Processed
      <3>. QED BY <3>3 DEF LifeStep, Lifecycle!Next
    <2>2. CASE UNCHANGED status
      BY <1>1, <2>2, Stutters DEF HydrateStore, history
    <2>. QED BY <1>1, <2>1, <2>2 DEF HydrateStore
  <1>2. CASE HydrateExtract(e)
    <2>1. UNCHANGED <<status, summarised>>
      BY <1>2 DEF HydrateExtract, graphVars
    <2>2. \E S \in {{}, {e}} : Processed' = Processed \cup S
      BY <1>2 DEF HydrateExtract, Processed
    <2>3. {} \in SUBSET Episodes /\ {e} \in SUBSET Episodes
      OBVIOUS
    <2>. QED BY <2>1, <2>2, <2>3, Learns
  <1>3. CASE HydrateGate(e) \/ HydrateFlag(e) \/ HydrateFinish(e) \/ episode_stored(e)
    BY <1>3, Stutters
       DEF HydrateGate, HydrateFlag, HydrateFinish, episode_stored, storeVars, graphVars, history
  <1>. QED BY <1>1, <1>2, <1>3 DEF HydrateStep

\* The curation tasks: curate, mark, compress.
LEMMA CurationRefines == TypeOK /\ ContentInv /\ LifeInv /\ Curation => LifeStep
  <1>. SUFFICES ASSUME TypeOK, ContentInv, LifeInv, CurationStep PROVE LifeStep
    BY DEF Curation
  <1>0. JobsLife
    BY LifeParts
  <1>1. CASE \/ \E e \in Episodes : AddEvent(e) \/ AckEvent(e) \/ NakEvent(e)
             \/ \E g \in Groups : CheckTimeouts(g)
    BY <1>1, Stutters DEF AddEvent, AckEvent, NakEvent, CheckTimeouts, storeVars, graphVars, history
  <1>2. ASSUME NEW j \in Jobs, JobStep(j) PROVE LifeStep
    <2>1. CASE PopGroup(j) \/ AcquireCuration(j) \/ FetchContents(j)
      BY <2>1, Stutters DEF PopGroup, AcquireCuration, FetchContents, storeVars, graphVars, history
    <2>2. CASE RunCuration(j)
      <3>1. Sources(j) \in SUBSET Episodes
        BY SourcesType DEF TypeOK
      <3>2. UNCHANGED <<status, summarised>> /\ Processed' = Processed \cup Sources(j)
        BY <2>2 DEF RunCuration, graphVars, Processed
      <3>. QED BY <3>1, <3>2, Learns
    <2>3. CASE MarkConsolidated(j)
      <3>1. Sources(j) \in SUBSET Stored
        BY <1>0 DEF JobsLife
      <3>2. Sources(j) \subseteq Processed
        BY <2>3 DEF MarkConsolidated, ContentInv, JobsHaveProcessed
      <3>3. UNCHANGED <<summarised, harvested, curated>>
        BY <2>3 DEF MarkConsolidated, history
      <3>. QED BY <2>3, <3>1, <3>2, <3>3, Consolidates, Stutters DEF MarkConsolidated
    <2>4. CASE CompressAndFinish(j)
      <3>1. Sources(j) \in SUBSET Retired
        BY <1>0, <2>4 DEF JobsLife, CompressAndFinish
      <3>2. UNCHANGED <<status, harvested, curated>>
        BY <2>4 DEF CompressAndFinish, history
      <3>. QED BY <2>4, <3>1, <3>2, Summarises, Stutters DEF CompressAndFinish
    <2>. QED BY <1>2, <2>1, <2>2, <2>3, <2>4 DEF JobStep
  <1>. QED BY <1>1, <1>2 DEF CurationStep

\* The sweep: curate, mark duplicates, mark, compress.
LEMMA SweepRefines == TypeOK /\ ContentInv /\ LifeInv /\ Sweep => LifeStep
  <1>. SUFFICES ASSUME TypeOK, ContentInv, LifeInv, SweepStep \/ AsyncOntology PROVE LifeStep
    BY DEF Sweep
  <1>0. SweepLife
    BY LifeParts
  <1>1. CASE \/ FindPriorityGroups \/ FindNormalGroups \/ FetchPending \/ DedupEpisode
             \/ UpdateOntology \/ EndCycle \/ AsyncOntology
    BY <1>1, Stutters DEF FindPriorityGroups, FindNormalGroups, FetchPending, DedupEpisode,
                          UpdateOntology, EndCycle, AsyncOntology, storeVars, graphVars, history
  <1>2. CASE MarkDuplicates
    <2>1. rem.dups \in SUBSET Stored /\ \A e \in rem.dups : Represented(e)
      BY <1>0 DEF SweepLife, ContentInv, SweepHasProcessed
    <2>2. UNCHANGED <<summarised, harvested, curated>>
      BY <1>2 DEF MarkDuplicates, history
    <2>. QED BY <1>2, <2>1, <2>2, Deduplicates, Stutters DEF MarkDuplicates
  <1>3. CASE CurateUnique
    <2>1. rem.unique \in SUBSET Episodes
      BY DEF TypeOK, RemTypeOK, Rem
    <2>2. UNCHANGED <<status, summarised>> /\ Processed' = Processed \cup rem.unique
      BY <1>3 DEF CurateUnique, graphVars, Processed
    <2>. QED BY <2>1, <2>2, Learns
  <1>4. CASE MarkUnique
    <2>1. rem.unique \in SUBSET Stored
      BY <1>0 DEF SweepLife
    <2>2. rem.unique \subseteq Processed
      BY <1>4 DEF MarkUnique, ContentInv, SweepHasProcessed, Processed
    <2>3. UNCHANGED <<summarised, harvested, curated>>
      BY <1>4 DEF MarkUnique, history
    <2>. QED BY <1>4, <2>1, <2>2, <2>3, Consolidates, Stutters DEF MarkUnique
  <1>5. CASE CompressUnique
    <2>1. rem.unique \in SUBSET Retired
      BY <1>0, <1>5 DEF SweepLife, CompressUnique
    <2>2. UNCHANGED <<status, harvested, curated>>
      BY <1>5 DEF CompressUnique, history
    <2>. QED BY <1>5, <2>1, <2>2, Summarises, Stutters DEF CompressUnique
  <1>. QED BY <1>1, <1>2, <1>3, <1>4, <1>5 DEF SweepStep

\* The composed workers implement the life cycle of an episode: whatever fails,
\* restarts or races, an episode is stored once, retired only by what was
\* learned from it or from one that stands for it, never made pending again,
\* and summarised only when retired.
THEOREM WorkersRefineLifecycle == Spec => ImplementsLifecycle
  <1>1. Init => Lifecycle!Init
    BY DEF Init, StoreInit, Lifecycle!Init, Processed
  <1>2. TypeOK /\ ContentInv /\ LifeInv /\ [Next]_vars => LifeStep
    <2>1. Crash => LifeStep
      BY Stutters DEF Crash, graphVars, history
    <2>2. UNCHANGED vars => LifeStep
      BY Stutters DEF vars, storeVars
    <2>. QED BY <2>1, <2>2, HydrateRefines, CurationRefines, SweepRefines DEF Next
  <1>. QED BY <1>1, <1>2, TypeCorrect, ContentCorrect, LifeCorrect, PTL
       DEF Spec, ImplementsLifecycle, Lifecycle!Spec, LifeStep
===============================================================================
