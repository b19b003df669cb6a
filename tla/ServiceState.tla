----------------------------- MODULE ServiceState -----------------------------
(***************************************************************************)
(* The state the service keeps in DragonflyDB: the events of each group,   *)
(* written and read through one client object whose scope every request    *)
(* sets; the compression of events into an episode; the statistics of      *)
(* tools, which are read, added to and written back; and the timing spans. *)
(***************************************************************************)
EXTENDS SpanTiming, Functions

CONSTANTS Groups,
          DefaultGroup,    \* the scope of a new client
          Events,          \* requests that log an event
          EventGroup,      \* the group of each
          Compressions,    \* calls of compress_events
          CompressionGroup,
          ViaRest,         \* the ones that are REST requests; the others are gRPC
                           \* requests or the last step of run_curation
          MinEvents,       \* fewer events are not compressed (10)
          Updates,         \* calls of update_tool_stats
          ToolOf, StateOf, SuccessOf,
          NoState          \* no state_description

ASSUME StateAssumption ==
    /\ DefaultGroup \in Groups
    /\ EventGroup \in [Events -> Groups]
    /\ CompressionGroup \in [Compressions -> Groups] /\ ViaRest \in SUBSET Compressions
    /\ MinEvents \in Nat \ {0}
    /\ IsFiniteSet(Updates) /\ SuccessOf \in [Updates -> BOOLEAN]

VARIABLES
    scope,       \* group_id of the shared DragonflyClient
    asked,       \* events a request has come for
    logged,      \* the events in the streams
    compress,    \* compressions: where each is, and the events it has read
    summaries,   \* compressed episodes <<compression, events>>
    stats,       \* the tool_stats of the hash "state"
    update,      \* updates: where each is, and what it has read
    saved,       \* history: updates whose record was written
    raced,       \* history: updates that read before another one wrote
    life         \* how often the process was restarted

eventVars == <<scope, asked, logged, compress, summaries>>
toolVars == <<stats, update, saved, raced>>
vars == <<spanVars, eventVars, toolVars, life, faults>>

(***************************************************************************)
(* Events and their compression.                                           *)
(***************************************************************************)

InScope(g) == {v \in logged : EventGroup[v] = g}

\* log_event: nothing is awaited between set_scope and the key of the stream.
LogEvent(v) ==
    /\ v \notin asked
    /\ asked' = asked \cup {v}
    /\ scope' = EventGroup[v]
    /\ \/ Succeeds /\ logged' = logged \cup {v}
       \/ Fails /\ UNCHANGED logged
    /\ UNCHANGED <<spanVars, compress, summaries, toolVars, life>>

\* Any request that reads events: recent ones, a search, or the context.
ReadRecent(g) ==
    /\ scope' = g
    /\ UNCHANGED <<spanVars, asked, logged, compress, summaries, toolVars, life, faults>>

\* Mutant: the REST handler does not set the scope either.
ScopeForBug(c) == scope

\* Only the REST handler sets the scope before it compresses.
ScopeFor(c) == IF c \in ViaRest THEN CompressionGroup[c] ELSE scope

\* get("recent_events:50"): an error reads as no events.
ReadEvents(c) ==
    LET events == InScope(ScopeFor(c))
    IN /\ compress[c].at = "new"
       /\ scope' = ScopeFor(c)
       /\ \/ /\ Succeeds
             /\ compress' = [compress EXCEPT ![c] =
                    IF Cardinality(events) >= MinEvents THEN [at |-> "store", events |-> events]
                                                        ELSE [at |-> "done", events |-> {}]]
          \/ Fails /\ compress' = [compress EXCEPT ![c].at = "done"]
       /\ UNCHANGED <<spanVars, asked, logged, summaries, toolVars, life>>

\* The summary of the LLM is stored in the group of the call.
StoreSummary(c) ==
    /\ compress[c].at = "store"
    /\ compress' = [compress EXCEPT ![c] = [at |-> "done", events |-> {}]]
    /\ \/ Succeeds /\ summaries' = summaries \cup {<<c, compress[c].events>>}
       \/ Fails /\ UNCHANGED summaries
    /\ UNCHANGED <<spanVars, scope, asked, logged, toolVars, life>>

(***************************************************************************)
(* Tool statistics.                                                        *)
(***************************************************************************)

\* hash() of a string differs from one process to the next.
Key(u) == <<ToolOf[u], StateOf[u], IF StateOf[u] = NoState THEN 0 ELSE life>>

Keys == {<<ToolOf[u], StateOf[u], n>> : u \in Updates, n \in 0..MaxFaults}

NoStats == [attempts |-> 0, successes |-> 0, failures |-> 0]

\* Mutant: what is there is not added to.
AddedBug(u, existing) ==
    [attempts |-> 1, successes |-> IF SuccessOf[u] THEN 1 ELSE 0,
     failures |-> IF SuccessOf[u] THEN 0 ELSE 1]

Added(u, existing) ==
    [attempts |-> existing.attempts + 1,
     successes |-> existing.successes + (IF SuccessOf[u] THEN 1 ELSE 0),
     failures |-> existing.failures + (IF SuccessOf[u] THEN 0 ELSE 1)]

\* HGETALL of the hash "state", an error of which reads as an empty hash.
hgetall(result) ==
    \/ Succeeds /\ result = stats
    \/ Fails /\ result = [k \in Keys |-> NoStats]

\* HSET of one field of it.
hset(k, record) == stats' = [stats EXCEPT ![k] = record]

\* short_term.get: the statistics as they are, or none.
ReadStats(u) ==
    /\ update[u].at = "new"
    /\ \E state \in {stats, [k \in Keys |-> NoStats]} :
          /\ hgetall(state)
          /\ update' = [update EXCEPT ![u] = [at |-> "save", read |-> state[Key(u)]]]
    /\ UNCHANGED <<spanVars, eventVars, stats, saved, raced, life>>

\* short_term.save: an error is only logged.
SaveStats(u) ==
    /\ update[u].at = "save"
    /\ update' = [update EXCEPT ![u].at = "done"]
    /\ \/ /\ Succeeds
          /\ hset(Key(u), Added(u, update[u].read))
          /\ saved' = saved \cup {<<u, Key(u)>>}
          /\ raced' = raced \cup {<<v, Key(v)>> : v \in {v \in Updates \ {u} :
                                        update[v].at = "save" /\ Key(v) = Key(u)}}
       \/ Fails /\ UNCHANGED <<stats, saved, raced>>
    /\ UNCHANGED <<spanVars, eventVars, life>>

\* The handlers of REST and of gRPC, and MemoryService.
UpdateToolStats(u) == ReadStats(u) \/ SaveStats(u)

\* get_tool_stats
ToolStats(t) == SumFunction([k \in {k \in Keys : k[1] = t} |-> stats[k].attempts])

(***************************************************************************)
(* The specification.                                                      *)
(***************************************************************************)

Init ==
    /\ SpanInit
    /\ scope = DefaultGroup
    /\ asked = {} /\ logged = {} /\ summaries = {} /\ saved = {} /\ raced = {}
    /\ compress = [c \in Compressions |-> [at |-> "new", events |-> {}]]
    /\ stats = [k \in Keys |-> NoStats]
    /\ update = [u \in Updates |-> [at |-> "new", read |-> NoStats]]
    /\ life = 0 /\ faults = 0

Crash ==
    /\ Fails
    /\ SpanCrash
    /\ scope' = DefaultGroup
    /\ compress' = [c \in Compressions |->
                       IF compress[c].at = "new" THEN compress[c] ELSE [at |-> "done", events |-> {}]]
    /\ update' = [u \in Updates |->
                     IF update[u].at = "new" THEN update[u] ELSE [update[u] EXCEPT !.at = "done"]]
    /\ life' = life + 1
    /\ UNCHANGED <<asked, logged, summaries, stats, saved, raced>>

Next ==
    \/ \E v \in Events : LogEvent(v)
    \/ \E g \in Groups : ReadRecent(g)
    \/ \E c \in Compressions : ReadEvents(c) \/ StoreSummary(c)
    \/ \E u \in Updates : UpdateToolStats(u)
    \/ SpanStep /\ UNCHANGED <<eventVars, toolVars, life>>
    \/ Crash

Spec == Init /\ [][Next]_vars

(***************************************************************************)
(* Properties.                                                             *)
(***************************************************************************)

\* Though all requests share one scope, an episode that a REST request has
\* compressed is made of events of the group it is stored in.
RestCompressesItsGroup ==
    \A m \in summaries : m[1] \in ViaRest =>
        \A v \in m[2] : EventGroup[v] = CompressionGroup[m[1]]

\* The statistics of a tool never count more calls than were reported, over all
\* of its states and restarts; fewer only if a report was made while another
\* one was between its reading and its writing, or a call failed.
CountsAreLostToRaces ==
    \A t \in {ToolOf[u] : u \in Updates} :
        LET calls == {r \in saved : ToolOf[r[1]] = t}
        IN /\ ToolStats(t) <= Cardinality(calls)
           /\ ToolStats(t) < Cardinality(calls) => calls \cap raced # {} \/ faults > 0

(***************************************************************************)
(* A claim of the documentation that the code does not keep.               *)
(***************************************************************************)

\* intelligence/synthesis/compress.py: the events are those of "Workflow run ID
\* whose events to compress": so of no other group than the call's.
CompressesOwnEvents ==
    \A m \in summaries : \A v \in m[2] : EventGroup[v] = CompressionGroup[m[1]]
===============================================================================
