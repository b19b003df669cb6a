---------------------------- MODULE CurationWorker ----------------------------
(***************************************************************************)
(* workers/curation_worker.py: the consumer of memory.episode.stored.*     *)
(* that accumulates events per group and starts a curation task when a     *)
(* group is full or has waited too long.                                   *)
(*                                                                         *)
(* Time is abstracted: a group in first_seen may be found timed out at any *)
(* moment.  The accumulator's lock never blocks, because no coroutine      *)
(* awaits while it holds it.                                               *)
(***************************************************************************)
EXTENDS EpisodeStore, Sequences

CONSTANTS Jobs,           \* bound: curation tasks alive at the same time
          MinEpisodes,    \* curation_min_episodes
          MaxConcurrent,  \* curation_max_concurrent
          MaxDeliver      \* max_deliver of the JetStream consumer

ASSUME CurationAssumption ==
    /\ IsFiniteSet(Jobs)
    /\ MinEpisodes \in Nat \ {0}
    /\ MaxConcurrent \in Nat
    /\ MaxDeliver \in Nat

VARIABLES acc,         \* GroupAccumulator._groups: the events of each group
          firstSeen,   \* the keys of GroupAccumulator._first_seen
          deliveries,  \* how often JetStream has delivered each message
          permits,     \* _curation_semaphore._value
          job          \* the _trigger_curation tasks

accVars      == <<acc, firstSeen>>
curationVars == <<acc, firstSeen, deliveries, permits, job>>

JobPC == {"idle", "spawned", "waiting", "fetch", "curate", "mark", "compress"}

\* The steps a task takes inside "async with self._curation_semaphore".
Guarded == {"fetch", "curate", "mark", "compress"}

NoJob == [pc |-> "idle", group |-> "none", uuids |-> << >>]

Job == [pc : JobPC \ {"idle"}, group : Groups, uuids : Seq(Episodes)] \cup {NoJob}

CurationTypeOK ==
    /\ acc \in [Groups -> Seq(Episodes)]
    /\ firstSeen \in SUBSET Groups
    /\ deliveries \in [Episodes -> 0..MaxDeliver]
    /\ permits \in Nat
    /\ job \in [Jobs -> Job]

CurationInit ==
    /\ acc = [g \in Groups |-> << >>]
    /\ firstSeen = {}
    /\ deliveries = [e \in Episodes |-> 0]
    /\ permits = MaxConcurrent
    /\ job = [j \in Jobs |-> NoJob]

\* The distinct episodes among the events a task has popped.
Sources(j) == {job[j].uuids[i] : i \in DOMAIN job[j].uuids}

Goto(j, pc) == job' = [job EXCEPT ![j].pc = pc]

\* asyncio.create_task(self._trigger_curation(group_id, reason))
Spawn(g) ==
    \E j \in Jobs : /\ job[j].pc = "idle"
                    /\ job' = [job EXCEPT ![j] = [pc |-> "spawned", group |-> g,
                                                  uuids |-> << >>]]

\* Leaving the "async with" block, normally or by an exception.
Release(j) ==
    /\ permits' = permits + 1
    /\ job' = [job EXCEPT ![j] = NoJob]

(***************************************************************************)
(* The message loop and the timeout loop.                                  *)
(***************************************************************************)

\* _process_messages, up to the await of msg.ack(): messages are handled one
\* after the other.  A redelivered message is appended a second time.
AddEvent(e) ==
    LET g == GroupOf[e] IN
    /\ stream[e] = "queued"
    /\ \A d \in Episodes : stream[d] \notin {"added", "threshold"}
    /\ deliveries[e] < MaxDeliver
    /\ deliveries' = [deliveries EXCEPT ![e] = @ + 1]
    /\ acc' = [acc EXCEPT ![g] = Append(@, e)]
    /\ firstSeen' = firstSeen \cup {g}
    /\ stream' = [stream EXCEPT
                    ![e] = IF Len(acc'[g]) >= MinEpisodes THEN "threshold" ELSE "added"]
    /\ UNCHANGED <<permits, job, graphVars, faults, history>>

\* msg.ack() returns; the task is created only now.
AckEvent(e) ==
    /\ \/ stream[e] = "added" /\ UNCHANGED job
       \/ stream[e] = "threshold" /\ Spawn(GroupOf[e])
    /\ stream' = [stream EXCEPT ![e] = "acked"]
    /\ UNCHANGED <<accVars, deliveries, permits, graphVars, faults, history>>

\* msg.ack() fails: the message is nak'ed (or its ack_wait runs out), no task
\* is created, and the event stays in the accumulator.
NakEvent(e) ==
    /\ stream[e] \in {"added", "threshold"}
    /\ Fails
    /\ stream' = [stream EXCEPT
                    ![e] = IF deliveries[e] < MaxDeliver THEN "queued" ELSE "lost"]
    /\ UNCHANGED <<curationVars, graphVars, history>>

\* Mutant: get_timed_out_groups forgets the groups it returns.
CheckTimeoutsForgets(g) ==
    /\ g \in firstSeen
    /\ acc[g] # << >>
    /\ Spawn(g)
    /\ firstSeen' = firstSeen \ {g}
    /\ UNCHANGED <<acc, deliveries, permits, storeVars>>

\* Mutant: the timeout only looks at full groups.
CheckTimeoutsFull(g) ==
    /\ g \in firstSeen
    /\ Len(acc[g]) >= MinEpisodes
    /\ Spawn(g)
    /\ UNCHANGED <<accVars, deliveries, permits, storeVars>>

\* _check_timeouts for one group of get_timed_out_groups().
CheckTimeouts(g) ==
    /\ g \in firstSeen
    /\ acc[g] # << >>
    /\ Spawn(g)
    /\ UNCHANGED <<accVars, deliveries, permits, storeVars>>

(***************************************************************************)
(* _trigger_curation.                                                      *)
(***************************************************************************)

\* pop_group; a task that finds nothing returns.
PopGroup(j) ==
    LET g == job[j].group IN
    /\ job[j].pc = "spawned"
    /\ acc' = [acc EXCEPT ![g] = << >>]
    /\ firstSeen' = firstSeen \ {g}
    /\ job' = [job EXCEPT ![j] = IF acc[g] = << >> THEN NoJob
                                 ELSE [pc |-> "waiting", group |-> g, uuids |-> acc[g]]]
    /\ UNCHANGED <<deliveries, permits, storeVars>>

\* Mutant: the task does not wait for the semaphore.
AcquireCurationBug(j) ==
    /\ job[j].pc = "waiting"
    /\ permits' = permits - 1
    /\ Goto(j, "fetch")
    /\ UNCHANGED <<accVars, deliveries, storeVars>>

\* async with self._curation_semaphore
AcquireCuration(j) ==
    /\ job[j].pc = "waiting"
    /\ permits > 0
    /\ permits' = permits - 1
    /\ Goto(j, "fetch")
    /\ UNCHANGED <<accVars, deliveries, storeVars>>

\* all_knowledge_extracted: with every flag set, run_curation is skipped.
AllExtracted(j) == Sources(j) \subseteq extracted

\* Mutant: a failed fetch leaves the block without releasing the semaphore.
FetchContentsBug(j) ==
    /\ job[j].pc = "fetch"
    /\ \/ /\ Succeeds
          /\ Goto(j, IF AllExtracted(j) THEN "mark" ELSE "curate")
       \/ Fails /\ job' = [job EXCEPT ![j] = NoJob]
    /\ UNCHANGED <<permits, accVars, deliveries, graphVars, stream, history>>

\* Fetch the contents and the knowledge_extracted flags.
FetchContents(j) ==
    /\ job[j].pc = "fetch"
    /\ \/ /\ Succeeds
          /\ Goto(j, IF AllExtracted(j) THEN "mark" ELSE "curate")
          /\ UNCHANGED permits
       \/ Fails /\ Release(j)
    /\ UNCHANGED <<accVars, deliveries, graphVars, stream, history>>

\* run_curation logs the failures of its parts and does not raise.  All the
\* events are its sources.
RunCuration(j) ==
    /\ job[j].pc = "curate"
    /\ curated' = curated \cup Sources(j)
    /\ Goto(j, "mark")
    /\ UNCHANGED <<accVars, deliveries, permits, graphVars, stream, faults, harvested>>

\* Mutant: a failed mark is only logged.
MarkConsolidatedBug(j) ==
    /\ job[j].pc = "mark"
    /\ \/ Succeeds /\ mark_episodes_consolidated(Sources(j))
       \/ Fails /\ UNCHANGED status
    /\ Goto(j, "compress")
    /\ UNCHANGED <<permits, accVars, deliveries, extracted, duplicateOf, summarised,
                   stream, history>>

\* A failed mark ends the task before it compresses.
MarkConsolidated(j) ==
    /\ job[j].pc = "mark"
    /\ \/ /\ Succeeds
          /\ mark_episodes_consolidated(Sources(j))
          /\ Goto(j, "compress")
          /\ UNCHANGED permits
       \/ Fails /\ Release(j) /\ UNCHANGED status
    /\ UNCHANGED <<accVars, deliveries, extracted, duplicateOf, summarised, stream, history>>

\* Compression counts events, not distinct episodes; then
\* curation_completed is published (errors are logged) and the task ends.
CompressAndFinish(j) ==
    /\ job[j].pc = "compress"
    /\ IF Len(job[j].uuids) >= 2
       THEN compress_raw_episodes(Sources(j))
       ELSE UNCHANGED <<summarised, faults>>
    /\ Release(j)
    /\ UNCHANGED <<accVars, deliveries, status, extracted, duplicateOf, stream, history>>

JobStep(j) ==
    \/ PopGroup(j)
    \/ AcquireCuration(j)
    \/ FetchContents(j)
    \/ RunCuration(j)
    \/ MarkConsolidated(j)
    \/ CompressAndFinish(j)

CurationStep ==
    \/ \E e \in Episodes : AddEvent(e) \/ AckEvent(e) \/ NakEvent(e)
    \/ \E g \in Groups : CheckTimeouts(g)
    \/ \E j \in Jobs : JobStep(j)

\* The process dies: the accumulator and the tasks are gone; an
\* unacknowledged message is redelivered after ack_wait.
CurationCrash ==
    /\ acc' = [g \in Groups |-> << >>]
    /\ firstSeen' = {}
    /\ permits' = MaxConcurrent
    /\ job' = [j \in Jobs |-> NoJob]
    /\ UNCHANGED deliveries

StreamAfterCrash ==
    [e \in Episodes |->
        CASE stream[e] = "publishing" -> "lost"
          [] stream[e] \in {"added", "threshold"} ->
                IF deliveries[e] < MaxDeliver THEN "queued" ELSE "lost"
          [] OTHER -> stream[e]]
===============================================================================
