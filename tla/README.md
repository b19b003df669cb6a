# A TLA+ development of the Segnog memory service

Segnog (`src/`) is an asyncio service that keeps the long-term memory of language
model agents. A client calls *observe*; the text becomes an **episode** node in
FalkorDB, and background workers later reduce episodes to reflections, knowledge,
artifacts, causal claims and an ontology. Nearly all of its difficulty is in what runs
beside what: workers and requests share one graph, one DragonflyDB client and one NATS
JetStream server, hold no locks over them, `await` between every read and the write
that depends on it, log most errors and go on, and die together when the process dies.
The repository has no tests.

The modules here model the service, TLC checks them on small instances, and TLAPS
proves the main results for every instance. Paths below are relative to
`src/src/memory_service/` unless they start with `docs/` (which is `src/docs/`).

1. Inventory
2. Modules and their correspondence to the code
3. Runs, bounds and fairness
4. Findings
5. Proofs
6. Abstractions, and what is not modelled
7. Plan

## 1. Inventory

| Part | State | Operations | What is hard | What makes it correct |
|---|---|---|---|---|
| Episode lifecycle, `storage/long_term/episode_store.py` | Episode nodes: `consolidation_status`, `knowledge_extracted`, `created_at`; edges DUPLICATE_OF, DERIVED_FROM, FOLLOWS | store, mark consolidated or duplicate, compress, search | statuses are written whatever they are by now | nothing leaves *pending* unprocessed |
| Background task of observe, `services/observe.py` | `_HYDRATE_SEMAPHORE._value`, task locals | store, gate, extract knowledge, set the flag, hydrate, release | partial failure between store, extraction and flag; a hand-made semaphore | the flag is true only of extracted episodes; the counter does not drift |
| Event publisher, `messaging/publisher.py` | none | `episode_stored`, `curation_completed` | errors are swallowed | a lost event does not lose the episode |
| CurationWorker, `workers/curation_worker.py` | accumulator per group, `_first_seen`, semaphore, tasks | consume and acknowledge, time out, pop, curate, mark, compress | ack failure and redelivery, several tasks for a group, in-memory state lost on a crash | permits balance, no event waits for ever, groups are not mixed |
| REM sweep, `workers/rem_worker.py`, `rem_sweep_worker.py` | none across cycles in NATS mode; `_last_sweep_ts` in polling mode | find groups, fetch, deduplicate, curate, ontology, mark, compress | works on a batch read many awaits earlier, beside the CurationWorker | every pending episode is eventually retired, and only after processing |
| `run_curation`, `services/memory_service.py`; engine, `workflows/` | local results of one call | walk the curation workflow, publish async stages, store the results | every stage may time out or fail, and is only logged | it returns; it publishes each stage at most once |
| Pipeline workers, `workers/pipeline_worker.py` | durable consumers with `max_ack_pending=1`; one message in hand | fetch, handle, ack, nak; strict priority for the ontology | `ack_wait` against slow handlers, crash between handling and ack, starvation | order, at least once, bounded repetition, progress |
| Ontology pipeline, `intelligence/graph/`, `storage/long_term/ontology_store.py` | OntologyNodes, ABOUT edges | extract, upsert, merge summaries, relate | raising in one variant, logging in the other | a group is consolidated only with its ontology |
| Causal claims, `storage/long_term/causal_store.py` | claims with confidence, status, evidence; CAUSES edges | upsert, add evidence, revise beliefs, chain, search | one query at a time beside other runs and REST requests | refuted stays refuted; evidence is counted; claims that meet are chained |
| Knowledge and artifact stores, `storage/long_term/` | nodes with embeddings; DERIVED_FROM, REINFORCES, SIMILAR_TO edges | check-then-create, connect, search | concurrent duplicates; redelivered artifacts | what is learnt is kept; duplicates only from a race |
| Hebbian learning and scoring, `storage/retrieval/` | activation counts, CO_ACTIVATED edges | activate, reinforce, decay, prune, rank | one query per result, each may fail, beside the decay | edges are earned; feedback reaches the scores |
| Short-term memory, `storage/short_term/` | DragonflyDB event log, session hashes, key scope | append, read, hash get and set, compress | one client whose scope every request sets | no cross-talk between groups |
| Observe and startup pipelines, `services/observe.py`, `services/memory_service.py` | session hash, hierarchy of sessions | cold prefill, warm read, hydration, searches, answer | two first observations at once; the link to the parent is made in a task of its own; the answer precedes the store | memory stays in scope; somebody prefills; an answer is stored |
| Tool statistics; span aggregation, `workers/span_aggregator.py` | counters; open spans, a cursor | update; match starts and ends | read-modify-write over awaits; late or missing ends | counts are lost only to races; a span is measured once |
| Schema.org vocabulary, `ontology/schema_org.py` | tables | canonical names, validation, inverses | what happens to a relation nothing fits | an edge has its opposite |
| LLM calls, transports, configuration, client, UI | none of their own | – | – | outside the model |

**How the parts interact.** `observe_core` answers the client and spawns the
background task. The task stores the episode and publishes
`memory.episode.stored.<group>`. The CurationWorker consumes these events; the sweep
polls the graph on a timer. Both call `run_curation`, whose engine runs the
reflection and knowledge stages in place and publishes artifacts, causals and
ontology to the `PIPELINES` stream for the pipeline workers, which write to the graph.
Shared are the graph, the two streams, the DragonflyDB client with its scope and the
in-process semaphores.

## 2. Modules and their correspondence to the code

```
 client calls                    consolidation                    pipeline
 ------------                    -------------                    --------
 SessionObserve              EpisodeLifecycle (abstract)       PipelineWorkers (PipeSpec)
 ServiceState                       ^ implements                      ^ implements
   |                          Consolidation                     CurationPipeline
 SpanTiming                  /      |       \
                BackgroundHydrate  CurationWorker  REMWorker     writers of the graph
                             \      |       /                    --------------------
 polling without NATS          EpisodeStore                      OntologyGraph
 --------------------                                             /         \
 REMPolling - Hebbian                                      CausalBeliefs  SchemaOrg
                                                           GraphStores

 proofs:  ConsolidationProofs   PipelineProofs   SessionProofs
          GraphProofs   StoresProofs   StateProofs   PollingProofs  (these four use SumLemmas)
```

A module below another is extended by it; a proof module extends the models it is about; `MC…` modules give instances to TLC.

### Consolidation

**EpisodeLifecycle** is the abstract promise about a raw episode, whoever does the
work: `Store`, `Process`, `Consolidate`, `Deduplicate`, `Summarise`. An episode is
retired only when its content was processed or a similar, processed episode stands for
it; it never becomes pending again; only retired episodes are summarised.
Consolidation implements it, with what was harvested or curated as `processed`.

**EpisodeStore** holds what survives a restart: `status`, `extracted` (the flag),
`duplicateOf`, `summarised` (DERIVED_FROM of compression) and `stream`, the position
of each episode's event. `PendingIn`, `SimilarConsolidated` and `Oldest` are the
Cypher queries with their `WHERE`, `ORDER BY` and `LIMIT`; `SetStatus`,
`compress_raw_episodes` and `episode_stored` are the writes. `harvested` and `curated`
are history variables: what was really done with an episode's content, which the code
does not record. `Fails` counts a failed call against `MaxFaults`.

**BackgroundHydrate** is `background_hydrate`: one action per awaited part (store,
gate, extract, flag, finish), a program counter per episode, and `slots`, the
`_value` the code edits by hand.

**CurationWorker** is the message loop (`AddEvent` up to the await of `msg.ack()`,
then `AckEvent` or `NakEvent`), the timeout loop (`CheckTimeouts`) and
`_trigger_curation` (`PopGroup` … `CompressAndFinish`), one action between two awaits
that matter. `Jobs` are the task slots. Every failure inside the `async with` block
ends in `Release`.

**REMWorker** is one `_run_cycle` with its local variables in the record `rem`: the two
phases of `_find_pending_groups`, then for each group `FetchPending`, one
`DedupEpisode` per turn of the loop, `MarkDuplicates`, `CurateUnique`,
`UpdateOntology`, `MarkUnique`, `CompressUnique`. `about` is which groups have ABOUT
edges; `AsyncOntology` is the ontology worker adding them later.

**Consolidation** composes the three with `Crash`, which empties all in-memory state at
once and leaves graph and stream.

**REMPolling** is the same worker as it runs without NATS: `_last_sweep_ts` decides
what a cycle looks at (`Window`, `SweepTimestamp`), while observations go on storing.
How a group is consolidated is one step here: its duplicates are marked, or stay pending
because the query failed, which is only logged; the others are consolidated, or an
exception leaves them pending. The record `cycle` keeps, besides the worker's own
variables, the history of the cycle: the episodes its first query has seen (`window`),
those it has retired (`taken`), the duplicates it failed to mark (`kept`), whether a LIMIT
has cut groups off (`cut`) and whether a query for groups has failed (`blind`). It extends **Hebbian**: the activation
counts and CO_ACTIVATED edges that the task of an observation reinforces one query
after another, and that the cycle decays and prunes.

### Client calls

**SessionObserve** is `observe_core` with its three modes, `startup_pipeline` and the two
searches, one action per awaited call: ensure the session, count, add the own entry,
prefill if cold, hydrate, answer, store. `session` is the DragonflyDB hash of each
session with where each entry came from; `parents` is the hierarchy in the graph, from
which a search takes its groups. `ItemGroups` gives a memory its group, and a node of the
ontology, which is merged by its name alone, or a causal claim the groups that wrote to
it. Searches return any part of what their filter admits; the one of causal claims has no
filter. `searched` is history: the calls that searched the graph before they answered.

**ServiceState** is the state in DragonflyDB that all requests share: `scope`, the
`group_id` of the one client object; the event streams; `compress_events` as REST, gRPC
and `run_curation` call it; `update_tool_stats` split at its awaits. It extends
**SpanTiming**: the tasks that write the start and end of a span to a stream in any
order, and the aggregator that matches them from its cursor.

### Pipeline

**PipelineWorkers** is `pipeline_worker.py` with the JetStream consumers as the code
configures them (`Publish`, `Deliver`, `Requeue`, `Remove`, `AckWait`; external), and the
limits of the stream, `max_age` and `max_msgs`, which take the oldest message whether or
not it was handled (`Discard`; `discarded` is the history of it).
`look` is the place in the loop of `PriorityAsyncWorker`. `PipeSpec` runs the workers
under an arbitrary publisher that sends each message of `Traffic` once: it is the
abstract specification the next module implements.

**CurationPipeline** is `MemoryService.run_curation` with `WorkflowEngine.execute`:
`RunSync` (a result, an empty result, or none), `QueueAsync` (published, or lost),
then the writes of `run_curation`, each of which may fail and is only logged.

### Writers of the graph

**GraphStores** is `store_episode` with the FOLLOWS chain it extends, `store_knowledge`
with its search for a duplicate before each create, as `run_curation` and the background
task of an observation call it, and the artifacts worker under
redelivery, each query a step; and the REST deletion of an artifact.

**OntologyGraph** is a run of the ontology pipeline: the full variant (per-episode and
windowed batches, read-merge-write of summaries, relations with their opposites, ABOUT
edges), the fast one, and the causals worker. **SchemaOrg** is the vocabulary that
types and predicates are brought into. **CausalBeliefs** is `causal_store.py`: `MergeClaim`,
the two queries of evidence, `revise_beliefs` (the rows of its Cypher match as the code
writes it, sums over a cross product included), `auto_chain` and the searches.

`PROJECT.json` maps every definition to its lines. Definitions whose comment begins
with *Mutant* are deliberately wrong versions of the definition that follows; no
specification uses them. They record that each property can be broken by a plausible
error in the code it is about.

## 3. Runs, bounds and fairness

| Run | Instance | Checks | Shows |
|---|---|---|---|
| `lifecycle` | 2 similar episodes of two groups from the client's call on, 1 task, 1 fault | `HydratePermits`, `AccumulatedIsTimed`, `GroupsAreIsolated` | two background tasks (one slot), the CurationWorker and the sweep together |
| `race` | 2 stored episodes of one group, 2 tasks, 1 fault | `TypeOK`, `NoEpisodeForgotten`, `CurationPermits`, `SummariesAreFinal`, `ImplementsLifecycle` | curation tasks and the sweep on the same episodes |
| `liveness` | 2 stored episodes, 1 task, 1 fault, fair | `PendingIsTransient`, `AccumulatorDrains` | the sweep finishes what the CurationWorker loses |
| `pipeline_workers` | the ontology worker with 2 normal and 1 fast message, an AsyncWorker with 1, 2 faults, 1 message taken by the limits, fair | `TypeOK`, `FIFO`, `AtLeastOnce`, `RunsPerMessage`, `EverythingSettles` | redelivery, nak, late acks, restarts, priority, a stream at its limits |
| `curation_call` | 1 call, all workers and queues, 1 fault, 1 message taken by the limits, fair | `CallTypeOK`, `ImplementsPipe`, `CallsReturn`, `StagesReachWorkers` | the refinement, and that a call returns and its stages are handled |
| `observe` | a child session with a parent and a stranger, 2 concurrent calls, the second in every mode, 7 memories, a shared node of the ontology and a claim of the stranger among them, 1 fault, fair | `TypeOK`, `MemoriesInScope`, `SomeoneWasCold`, `LocalStaysLocal`, `AnswersAreStored` | what answers may contain, whatever the order of links, counts and hydration |
| `graph_writers` | a full run, with it a fast run or the causals worker, 1 addition of evidence, 2 entities, 2 claims that meet, 1 fault, fair | `TypeOK`, `RelationsAreMutual`, `StoredIsReachable`, `EvidenceIsCounted`, `FactsAreLostToRaces`, `RefutedIsFinal`, `MeetingClaimsAreChained` | interleaved writers of entities, relations and claims |
| `graph_stores` | 2 curations and an observation with an old date, one group, all with knowledge, 2 deliveries of an artifacts message, 1 fault | `TypeOK`, `FollowsLatest`, `EntriesAreKept`, `DuplicatesRaced` | check-then-create under concurrent stores |
| `service_state` | 2 groups, a REST and another compression, 3 reports on a tool in two states, 1 span, 1 fault | `RestCompressesItsGroup`, `CountsAreLostToRaces`, `MeasuredOnce` | what the shared client and the lost updates can and cannot do |
| `polling` | 3 episodes of two groups, one dated back, 5 readings of the clock, 1 fault | `BondsWereEarned`, `FailuresAreRetried` | the polling worker beside observations |
| `compress`, `feedback` | small instances without faults | one each | counterexamples; see section 4 |

**The properties of consolidation.** `NoEpisodeForgotten`: an episode that is
consolidated or a duplicate – so that no worker will look at it again – had its
knowledge stored, or was a source of a finished curation, or has a similar episode in
its group that had. It relates statuses to what was done several awaits before, by
other tasks. `ImplementsLifecycle`: every step is one of EpisodeLifecycle or changes
nothing there. `SummariesAreFinal`: a compressed episode is never derived from an
episode that is still pending. `AccumulatedIsTimed`: a group with accumulated events has
a time of arrival, so the timeout finds it. `CurationPermits`, `HydratePermits`: free
permits and holders add up. `GroupsAreIsolated`: no edge, task or batch mixes groups.
`BondsWereEarned`: the counts on the edges to an episode never exceed its activations,
unless it is at the cap, though each is written by a query of its own.
`FailuresAreRetried`: the polling cursor moves past an episode of an unconsolidated
group only for reasons the code has (it was stored after the worker had asked, its group
is too small or too large, or a LIMIT has cut groups off), or because a query for the
groups or the mark of the group's duplicates failed, both of which are only logged; never
because a consolidation raised an exception.

**Of the pipeline.** `RunsPerMessage`: a handler, which is not idempotent, runs no more
often than its message was delivered. `FIFO`: a worker never goes back to an older
message. `AtLeastOnce`: a message that left its queue was handled to the end, used up
its deliveries, or was taken by the limits of the stream. `ImplementsPipe`: `PipeSpec` itself.

**Of client calls.** `MemoriesInScope`: whatever a session holds or an answer shows comes
from the session or an ancestor, but for what the code shares on purpose or lets through:
nodes of the ontology that several groups have episodes about, the causal claims of every
group in the answers to observations, the reflections of every group in a search of
knowledge, and with `AllowGlobal` what global searches find. `SomeoneWasCold`: as long as
an observation is in the hash, one of its calls found it empty, and unless something fails
has searched the graph before it answered, or has still to do both: two first calls may
both, but not neither. `LocalStaysLocal`: hydration does not replace an
observation's own entry. `AnswersAreStored`: an answered observation becomes an episode,
unless something fails. `RestCompressesItsGroup`: though the scope is shared, no await
comes between a REST request's setting it and its use. `CountsAreLostToRaces`: a count
falls short only if two updates overlapped or a call failed, and never exceeds the
reports. `MeasuredOnce`: the duration of a span is recorded if both events came in order
before the minute was up, and once per life of the process.

**Of the graph.** `FollowsLatest`: an episode has at most one predecessor, the latest of
those that were there and dated before it. `EntriesAreKept`, `DuplicatesRaced`: each
entry of a finished curation or observation has a node of its content with an edge to its
reflection or episode, and two nodes of nearly one content exist only if their searches overlapped.
`RelationsAreMutual`: an edge and its opposite agree, but between their two writes.
`FactsAreLostToRaces`: a summary loses what it knew only to the fast variant or to a run
that was overtaken. `StoredIsReachable`: an entity stored by a finished run has an ABOUT
edge from one of its episodes. `RefutedIsFinal`: a refuted claim never comes back into a
search, although upserts reset its confidence. `EvidenceIsCounted`: the counter lags the
edges by no more than the additions in flight. `MeetingClaimsAreChained`: claims that
meet are chained in the end, whichever run ends last.

**Bounds.** The constants scale the configuration and keep its order: `FetchLimit` 2
stands for `LIMIT 20`; `MinEpisodes` 2, so that there are groups below and at the
threshold; one hydration slot and one permit for two contenders; `MaxDeliver` 2, so that a first and a last delivery differ; `MaxDiscards` 1, so that a message may be gone in any
state of its queue and its worker; `BatchSize` 1, so that a full batch skips phase 2.
`Jobs` bounds the curation tasks alive at once: two, since all but the first of a
group's tasks find an empty accumulator, and the question is what two that hold events
do to each other. `MaxFaults` bounds failed calls and crashes. Two similar episodes are
enough for a duplicate and its original. Runs on `MCStoredSpec` start from stored
episodes with or without extracted knowledge, states that the full specification
reaches, which leaves room for faults. Isolation needs two groups and a similar episode
in the other one. Two calls of one session are what races for a cold start; a third
session is there to leak from. In `graph_writers` the claim `ab` starts at 0.5 and takes
evidence of weight 19 against it, which crosses both thresholds of the status;
`MCOneOther` keeps one of the two other runs from starting, which about halves the
instance, and pairs of writers are what the properties are about. Three reports on a
tool give a lost update and a third after it. Three episodes let a batch of one group
be larger than `FetchLimit` while a second group waits. `JobSymmetry` is used for safety
only.

Deadlock is checked where some step (the sweep, the timeout of a fetch) is always
possible: `lifecycle`, `race`, `liveness`, `pipeline_workers`, `curation_call`. The other
instances have a finite number of calls and stop when all have ended.

**Fairness.** The event loop eventually runs every ready coroutine, and every awaited
call returns with a result or an error: weak fairness of each curation task
(`JobStep`), of the acknowledgement, of each worker, of each call, of each started call
of a client and the session task it spawned, and of each run of a graph pipeline
(`RunStep`). The timer of the sweep and the timeout loop run for ever: weak fairness of
`SweepStep` and `CheckTimeouts`. JetStream's `ack_wait` always runs out: weak fairness of
`AckWait`. Nothing is assumed of clients, of the delivery of new events, of the start of
a graph run, or of the absence of faults. `PendingIsTransient` therefore rests on the
sweep alone. That faults are finite (`MaxFaults`) is part of it: a store that never works
again consolidates nothing.

## 4. Findings

Each is a run that ends in a counterexample to what the repository says.

1. `compress` – step 7 of `run_curation` (`services/memory_service.py:789`) compresses the
   recent events of whatever scope the last request has left on the shared client; only
   the REST smart route sets a scope first. `intelligence/synthesis/compress.py:32`
   speaks of the "Workflow run ID whose events to compress". The passing counterpart is
   `RestCompressesItsGroup`.
2. `feedback` – the trigger of a reinforcement (`services/observe.py:431`) and of the look-up
   of weights (`:163`) is the episode being stored, which has no edges yet: the weights
   found are always empty, though the activation counts of the results still raise their
   scores. `docs/observe-sequence.md:294-295` says that stronger CO_ACTIVATED edges are what
   "boosts their score in future retrievals".

Seen while reading, without a run of their own. In consolidation and the pipeline:

- the similarity query of the sweep does not exclude the episode it is asked about
  (`workers/rem_worker.py:352`): one that was consolidated since the fetch becomes a
  duplicate of itself, where `docs/REFERENCE.md:217` says "against an older one"; nothing
  is lost (`NoEpisodeForgotten`, and the proof shows why);
- a batch whose flags are all set skips all of `run_curation` and with it the ontology
  stage (`workers/curation_worker.py:246`, `docs/REFERENCE.md:421`); a batch in which some
  are set is curated as a whole, flagged episodes again (`:198`);
- the sweep reads `unique_episodes[:10]` and marks up to twenty
  (`workers/rem_worker.py:267`, `docs/REFERENCE.md:381`);
- "failure halts consolidation" (`workers/rem_worker.py:287`) does not hold for priority
  groups, whose ontology update logs and goes on;
- a stage runs after one it depends on has timed out (`workflows/engine.py:69`;
  `workflows/base.py:19` says "must complete");
- in polling mode the LIMIT of phase 2 precedes the ontology filter, so that a group may be
  crowded out while the cursor passes it (`docs/REFERENCE.md:375`); a failed discovery of
  groups advances the cursor too, and episodes dated back are never found;
- the mark of a group's duplicates swallows its failure (`workers/rem_worker.py:398`), so
  that in polling mode the cursor passes episodes that are still pending, where the comment
  at `:88-89` says "On failure, episodes stay 'pending' and will be retried next cycle";
  `FailuresAreRetried` states the exception;
- `PriorityAsyncWorker` "Always drains fast_subject", but a failed fast fetch falls
  through to the normal queue (`workers/pipeline_worker.py:165`, `:248`);
- the async stages are published before the reflection is stored, against the order
  of `docs/API.md:732`;
- `import asyncio` inside `PipelineWorker.run` makes the name local to the function,
  so the `except asyncio.CancelledError` before it cannot resolve it
  (`workers/pipeline_worker.py:94`).

In the calls of clients:

- `search_knowledge` adds the reflections of every group even when
  `get_allow_global_search` is off, whose comment says "False = enforce isolation";
  `MemoriesInScope` states the exception;
- causal claims of every session are shown in the answers to observations
  (`services/observe.py:1005-1033`), and a node of the ontology carries the summary that all
  groups have written to it (`storage/long_term/ontology_store.py:106`), where
  `docs/REFERENCE.md:225` says "All FalkorDB queries filter by `group_id`" and "without data
  leakage"; `MemoriesInScope` states both exceptions;
- after a failed prefill, or a crash before it, the hash is not empty any more, and no later
  call of the session searches the graph before it answers;
- `get_adjacent_episodes` filters neither by group nor by status; MENTIONS edges are never
  written (`link_entities` has no caller), so the search by entities finds nothing;
- "Implies read_only" of a minimal observe (`services/observe.py:719`) does not keep it from
  creating the session (`:775`); the first observe of a child does not see its parent;
- "cold: reuse pre-fill" (`:622`): what is passed on is always `None`, so that a cold call
  searches twice;
- `services/observe.py:496` says "At most 2" of what line 504 limits to 1;
- `get_recent_events` applies its count before the filter by type; of two concurrent
  deletions of an artifact both report success; the aggregator records all spans
  again after a restart; a tool whose name contains a colon is cut off by
  `get_tool_stats`; `hash()` of a state differs from process to process.

In the graph:

- the Laplace formula of the comment at `storage/long_term/causal_store.py:217` is computed
  over the cross product of supports and contradictions; a claim that was extracted with
  confidence 0 is refuted without evidence; no claim gets a `group_id`, so that queries
  by group and `auto_chain_embedding` find none;
- an entity that only the second pass finds, or that an earlier batch has stored, gets no
  ABOUT edge from the later episode (`docs/REFERENCE.md:359` says all it mentions);
- the fallback predicate `relatedTo` has the domain and range Person in Schema.org, so that
  relations it is meant for are dropped; the alias "founded" keeps its direction while
  its predicate reverses it (`ontology/schema_org.py:183`);
- the fast ontology variant overwrites summaries; `upsert_node` merges by name only;
- `docs/ARCHITECTURE.md:620` has artifacts derived from episodes and `:649` REINFORCES
  between knowledge nodes; the code writes neither: REINFORCES goes to the episode.

## 5. Proofs

TLAPS proves 40 theorems in seven modules, on 332 lemmas, for all constants that satisfy the
named assumptions of the models: types; finiteness of the sets that are counted or summed
over (episodes, groups, calls, updates); positive limits; an opposite that is the opposite
of its opposite (`SchemaAssumption`); a symmetric relation of near duplicates, which cosine similarity is (`StoresAssumption`); a model that names the
ends of the relations it finds (`OntologyAssumption`). TLC evaluates each of them on the
instances of section 3. An eighth module, SumLemmas, has the lemmas on sums.

| Module | Theorem | Statement |
|---|---|---|
| ConsolidationProofs | `TypeCorrect` | `Spec => []TypeOK` |
| ConsolidationProofs | `HydrateSlotsSafe`, `CurationPermitsSafe` | `Spec => []HydratePermits`, `Spec => []CurationPermits` |
| ConsolidationProofs | `EventsAreTimed`, `GroupsStayApart` | `Spec => []AccumulatedIsTimed`, `Spec => []GroupsAreIsolated` |
| ConsolidationProofs | `NothingForgotten`, `OnlyRetiredSummarised` | `Spec => []NoEpisodeForgotten`, `Spec => []SummariesAreFinal` |
| ConsolidationProofs | `WorkersRefineLifecycle` | `Spec => ImplementsLifecycle`, the refinement of EpisodeLifecycle |
| PipelineProofs | `PipeInvariant`, `PipeTypeCorrect`, `StagesAreHandled` | `PipeSpec => []PipeInv`, hence `[]TypeOK` and `[]AtLeastOnce` |
| PipelineProofs | `StagesInOrder`, `RunsAreDelivered` | `PipeSpec => []FIFO`, `PipeSpec => []RunsPerMessage` |
| PipelineProofs | `PipelineRefines`, `PublishedStagesAreHandled` | `Spec => PipeSpec`, hence `Spec => []AtLeastOnce` for the whole pipeline |
| PipelineProofs | `CallTypeCorrect` | `Spec => []CallTypeOK` |
| PipelineProofs | `OnlyFailuresAreGivenUp` | without faults, a published message is in its queue, handled, in hand, or taken by the limits of the stream |
| PipelineProofs | `ReturnedCallsAreCarriedOut` | without faults, so is each async stage of a call that has returned |
| SessionProofs | `ObserveTypeCorrect`, `MemoryIsScoped` | `Spec => []TypeOK`, `Spec => []MemoriesInScope` |
| SessionProofs | `ColdStartHappened`, `OwnEntriesStay` | `Spec => []SomeoneWasCold`, `Spec => LocalStaysLocal` |
| SessionProofs | `EndedCallsAreStored` | without faults, a call that has ended is answered and its observation stored |
| GraphProofs | `RefutedStaysRefuted`, `NoEvidenceIsMissed` | `Spec => RefutedIsFinal`, `Spec => []EvidenceIsCounted` |
| GraphProofs | `OppositesAgree`, `MergesKeepFacts`, `StoredEntitiesAreReachable` | `Spec => []RelationsAreMutual`, `Spec => FactsAreLostToRaces`, `Spec => []StoredIsReachable` |
| GraphProofs | `GraphTypeCorrect` | `Spec => []TypeOK` |
| GraphProofs | `QuietGraphIsChained` | without faults and with no run under way, claims that meet are chained |
| StoresProofs | `StoresTypeCorrect`, `DuplicatesComeOfRaces` | `Spec => []TypeOK`, `Spec => []DuplicatesRaced` |
| StoresProofs | `KnowledgeIsKept`, `ChainFollowsLatest` | `Spec => []EntriesAreKept`, `Spec => []FollowsLatest` |
| StateProofs | `RestScopeHolds`, `SpansAreMeasuredOnce` | `Spec => []RestCompressesItsGroup`, `Spec => []MeasuredOnce` |
| StateProofs | `OnlyRacesLoseCounts` | `Spec => []CountsAreLostToRaces` |
| PollingProofs | `PollingTypeCorrect`, `BondsAreAlwaysEarned` | `Spec => []PollType`, `Spec => []BondsWereEarned` |
| PollingProofs | `FailuresAreAlwaysRetried` | `Spec => FailuresAreRetried` |

**NothingForgotten.** `NoEpisodeForgotten` is not inductive: both workers mark episodes
because of what they did or read earlier. `ContentInv` adds what they carry across
their awaits: a flag is set only on harvested episodes (`FlagsAreTrue`); a task at
*mark* has processed its sources, by curation or through the flags it read
(`JobsHaveProcessed`); the sweep at *ontology* or *mark* has curated its unique
episodes, and each of its duplicates is represented (`SweepHasProcessed`); a
consolidated episode was itself processed (`ConsolidatedIsProcessed`), which is what
makes it a sound original. The last part is the point: an episode that becomes a
duplicate of itself is harmless only because the query is restricted to consolidated
episodes.

**WorkersRefineLifecycle.** A step that marks maps to `Consolidate` or `Deduplicate`, whose
guards are what `ContentInv` knows of the batch in hand; one that compresses maps to
`Summarise`, which needs that the sources are retired. `LifeInv` says so of every task
and of the sweep: what they carry past *mark* is stored and retired (`CarriedIsStored`,
`SummarisesRetired`), whoever else has marked it meanwhile.

**GroupsStayApart.** `GroupInv` says of each place where an episode waits (accumulator,
task, batch, edge) which group it belongs to; the group id and the events of a task
travel separately, so that this is an invariant of the pop and the accumulator together.

**Permits.** Each action moves at most one task into or out of the guarded steps and
changes the counter by the opposite amount; the proofs are by cardinality of the set
of holders, using `TypeOK` for the one-at-a-time part.

**PipeInv** = `TypeOK`, `QueueInv`, `AckAfterHandling`, `AtLeastOnce`. `TypeOK` contains
`deliveries <= MaxDeliver`, which is not inductive: `QueueInv` adds that the messages
of a queue are distinct and published, that only the first was ever delivered, and
that it is in flight or has a delivery left. `AckAfterHandling` is what lets a late
acknowledgement remove a message without losing it. What the limits of the stream take may
be in the hands of a worker; `discarded` records it, and no other step loses a message.

**StagesInOrder, RunsAreDelivered.** `TurnInv` on top of it: a queue is a suffix of what was
published to it, nothing behind its front was ever handled, a message in hand is not
before a handled one; and the runs of a handler, the one in hand included, are at most
the deliveries. Both need that a queue has one worker.

**OnlyFailuresAreGivenUp.** `AtLeastOnce` leaves open that a message used up its deliveries
because its handler is slow and `ack_wait` runs out. It cannot: `TakenInv` says that
without faults every delivery is in the hands of a worker or handled, as a fetched message
leaves a worker only through `Handle` and then `Acknowledge`. With `WalkInv`, that a call
has published the async stages it is past, this gives `ReturnedCallsAreCarriedOut`, the
safety half of `StagesReachWorkers`.

**PipelineRefines.** The mapping is the identity on the variables of PipelineWorkers. A
step of a call is a `Publish` of the environment, a fault, or a stutter; that no stage
is published twice needs `PublishedInOrder`: a call that has not come to a stage has
not published it.

**MemoryIsScoped.** `ScopeInv` follows a memory from the search to the answer: the scope a
call has read, what it has found and holds, and the entries of its session lie within
the sessions above its own, or are shared nodes its session has episodes about (`Mine`). It
is inductive because links between sessions are only
added: `Above` grows, so that what was in scope when it was read is in scope when it is
used, however late.

**ColdStartHappened, OwnEntriesStay.** `ColdInv`: a session that has an entry, or that an
observation has counted, was found empty by one of its calls, and only observations add
entries; so a call that finds the hash filled owes its cold start to an earlier one. `PrefillInv`:
while nothing has failed, a cold call that is past *find* or has answered has searched.
`LocalInv`: while nothing has failed, an observation is in the graph only after it was
added to its session, the searches find none that is not, and a call holds nothing for
hydration that its session has as its own. **EndedCallsAreStored.** `AnswerInv`: a call that
is past its answer was answered, and an answered observation is stored or about to be.
It is the safety half of `AnswersAreStored`.

**CallTypeCorrect.** `StoredInv`: a call stores its reflection only when it is past the
last stage, so that a stage it walks to always exists.

**Claims.** `RefutedIsFinal` needs only that an upsert leaves the status of a claim that
exists and that a revision looks at active and weakened ones. `CountInv`, for the
evidence: only knowledge that some addition gives stands at the end of an evidence edge,
none of it before the claim exists, and the edges of a claim are at most its count plus
the additions that have made theirs and not yet counted it; by cardinality of both sets,
since a revision sets the count to that of the edges.

**OppositesAgree.** `MutualInv`: of a relation and its opposite, the one with the higher
confidence has a run that is about to write the other with at least that confidence. It
is inductive because MERGE keeps the maximum. **MergesKeepFacts.** `FactsInv`: what a run
that was not overtaken has read of a summary is still all of it when it writes.
**StoredEntitiesAreReachable.** `ReachInv` keeps each entity of a batch either to be linked
or linked already.

**QuietGraphIsChained.** Two claims that meet may be found by two runs, each of which ends
its `auto_chain` before the other has stored its claim. `ChainInv`: while two claims that meet are
not chained, some run still has its `auto_chain` ahead of it, since each run ends with one
that chains all claims; only a causals worker leaves early, and only if it stored no claim. It is
the safety half of `MeetingClaimsAreChained`. **GraphTypeCorrect.** What a run has in hand is
of its batch and from the vocabulary (`Hands`), edges end at nodes (`NodeTypes`), and the
sums of `revise_beliefs` over rows and weights stay in the bounds of a confidence
(`ClaimTypes`); this is where the lemmas on sums come in.

**GraphStores.** `PlaceInv` says where a writer is in its episodes and entries.
`DupInv`: a writer that is about to create a node has raced with every near duplicate that
exists by now, because its search found none. `KeptInv`: each entry a writer is past has
its node and edge; nothing deletes knowledge. `ChainInv` holds of each episode that has a
place in the chain and all that were there before it; that a latest of them exists is
induction over the clock (WellFoundedInduction).

**Spans.** `OnceInv`: an event is in the stream or still to be sent, never both, and no end
precedes the end of its span. `MeasureInv` relates the cursor to the rest: a span is
measured once per life only if its end was read, a start without an end that was read is
pending, and both read in order are measured, unless there was a fault.

**Sums.** Totals in the models are folds of the community modules over sets whose size is not
known. Induction over data needs no operator parameter if it is turned round: of the sets
for which a claim about sums fails, one has no element that can be taken away without its
holding, by well-foundedness of `<` on cardinalities, and that one gives the contradiction.
SumLemmas shows first that the recursive function behind `SumFunctionOnSet` exists and
satisfies its equation; then that a sum of naturals is one, grows by what one value grows
by, and is monotone; and that the sum of the sizes of the parts of a set is its size.

**OnlyRacesLoseCounts.** `KeyInv`, for each tool, state and life of the process: what is in the
hash, or was read to be written, is at most the calls reported under that key; without
faults an update that is not marked as raced has read what still stands there, and a count
below the reports has an update that was raced. The theorem sums this over the keys.

**BondsAreAlwaysEarned.** `Covered`: the counts on the edges to an episode, plus the
reinforcements that owe it an edge, are at most its activations, unless those are at the
cap. Its own activation is written first, so a query that fails leaves the edge owed and
never made. **FailuresAreAlwaysRetried.** `CycleInv` says what a cycle that was cut off by
nothing knows at each stage: before phase 2 the window is pending and new since the last
sweep; at *groups*, each group of the window that is large enough was chosen, or is no
longer pending, or exceeds the batch; a group that ends without an exception leaves
pending only the duplicates in `kept`. The cursor moves only from there.

**Only model-checked.** All liveness (`PendingIsTransient`, `AccumulatorDrains`,
`EverythingSettles`, `CallsReturn`, `StagesReachWorkers`, `AnswersAreStored`,
`MeetingClaimsAreChained`): fairness and ENABLED are out of the prover's reach. The safety
half of three of them is proved (`ReturnedCallsAreCarriedOut`, `EndedCallsAreStored`,
`QuietGraphIsChained`): that the step which remains is taken is what TLC adds. Every
invariant, action property and refinement of the passing runs is stated by a theorem.

## 6. Abstractions, and what is not modelled

- Content and embeddings are reduced to a relation of similarity; where the code takes
  the best match above a threshold the model takes any. A search returns any part of
  what its filter admits, which covers thresholds, LIMIT and ranking.
- A query is atomic, as it is in FalkorDB. The two queries of `_query_pending_groups`
  (pending groups, groups with ABOUT edges) are one step.
- Time is abstracted: an accumulated group may time out, an `ack_wait` may run out, a
  stage may exceed its timeout at any moment. Where `created_at` matters (GraphStores,
  REMPolling) the clock is a counter: no two readings of it are equal, and a date in
  the metadata comes before all of them.
- In REMWorker the episodes of a batch beyond the ten whose contents are read count as
  curated with it; what that leaves out is named in section 4.
- The limits of the PIPELINES stream are `Discard`. The MEMORY_EVENTS stream has the same
  ones (`messaging/client.py:45-46`); that it may lose an event is not an action of its own,
  as the lifecycle has a lost event already, the failed publish, and the sweep finds the
  episode. The span stream is cut at 20000 entries (`maxlen`), which SpanTiming leaves out:
  an aggregator that far behind would miss spans.
- The key of an event stream is `events:{group}:{workflow}`; ServiceState keeps the group,
  which is what its properties are about.
- A message that was delivered in a batch but not looked at when the process died has
  used up a delivery; the model counts a delivery when the message is handled. A
  message out of deliveries is gone, as far as the consumer is concerned.
- What a language model returns is a choice (something, nothing, or an error); in
  OntologyGraph it is a constant of the batch, and a failed call is a fault.
- Confidences of claims are in twentieths, rounded down; both thresholds of the status
  are multiples of that. Weights of CO_ACTIVATED edges are in levels that decay one by
  one. Paths such as `PARENT_OF*1..20` and `CAUSES*0..10` are closures without a limit of
  length.
- A summary in OntologyGraph is the set of the runs whose text went into it.
- Nothing under `src/` publishes to the fast ontology queue; `PipeSpec` allows any
  publisher, so the priority worker is checked with messages on both queues. An
  endless flow of fast messages starves the normal queue by design; `Ids` is finite.
- Episodes stored or curated through the REST and gRPC endpoints take the same writes
  and are not separate actions.

Not modelled, and why:

- prompts, the parsing of model answers, and the synthesis and truncation of context
  texts: no state, and no property here tells the texts apart;
- `scoring.py` and ranking: real-valued formulas whose result is an order that the
  searches here leave open;
- the loading of the Schema.org file, its texts and its embedding index; configuration;
  the connection handling of the clients of FalkorDB, DragonflyDB and NATS;
- `SyncWorker`, `build_chain`, `link_entities` and `auto_chain_embedding`, which nothing uses
  or which find nothing;
- the in-process fallback of the engine and of `run_curation` without NATS: the same steps
  in one coroutine;
- REST and gRPC handlers that parse a request and call one method; the client library,
  the installer (`setup.py`) and the UI.

## 7. Plan

Done: the lifecycle of an episode (EpisodeStore, BackgroundHydrate, CurationWorker,
REMWorker, Consolidation) with its abstract specification; the pipeline
(PipelineWorkers, CurationPipeline); the calls of clients (SessionObserve, ServiceState);
the writers of the graph (OntologyGraph, CausalBeliefs, GraphStores); the polling worker
with Hebbian learning; theorems about all of them, and about every property of the passing
runs that is not liveness.

Next: the engine for an arbitrary workflow graph, with its in-process fallback, as the
abstract specification of the curation workflow; and the safety half of
`PendingIsTransient`, that an idle sweep which met no fault leaves no full batch pending.
