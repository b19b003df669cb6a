------------------------------ MODULE REMPolling ------------------------------
(***************************************************************************)
(* The REM worker as it runs without NATS: one worker polls for groups     *)
(* with enough pending episodes, and remembers in _last_sweep_ts what it   *)
(* has already looked at, while observations store episodes.  How a group  *)
(* is consolidated is the matter of REMWorker; here it is one step.        *)
(***************************************************************************)
EXTENDS Hebbian

CONSTANTS DatedBack,    \* episodes whose metadata has a date before all others
          BatchSize,    \* groups per cycle
          SweepMin,     \* min_episodes
          FetchLimit,   \* episodes that are fetched of a group
          MaxClock      \* bound: readings of the clock in one behaviour

ASSUME PollingAssumption ==
    /\ DatedBack \in SUBSET Episodes
    /\ BatchSize \in Nat \ {0} /\ SweepMin \in Nat \ {0} /\ FetchLimit \in Nat \ {0}
    /\ MaxClock \in Nat

VARIABLES
    clock,       \* time.time()
    stamp,       \* created_at
    lastSweep,   \* _last_sweep_ts
    cycle,       \* _run_cycle: where it is, and its local variables; and history: the
                 \* episodes its first query has seen, those it has retired, the
                 \* duplicates it failed to mark, and whether the LIMIT of a query cut
                 \* groups off or a query failed
    about        \* groups with an ABOUT edge

pollVars == <<clock, stamp, lastSweep, cycle, about>>
vars == <<status, bondVars, task, pollVars, faults>>

IdleCycle == [at |-> "idle", start |-> 0, window |-> {}, priority |-> {}, normal |-> {},
              taken |-> {}, kept |-> {}, failed |-> FALSE, cut |-> FALSE, blind |-> FALSE]

Init ==
    /\ HebbianInit
    /\ clock = 1
    /\ stamp = [e \in Episodes |-> 0]
    /\ lastSweep = 0
    /\ cycle = IdleCycle
    /\ about = {}

(***************************************************************************)
(* Observations.                                                           *)
(***************************************************************************)

\* created_at is fixed before the node is created.
StampEpisode(e) ==
    /\ task[e].at = "new"
    /\ task' = [task EXCEPT ![e].at = "store"]
    /\ IF e \in DatedBack
       THEN stamp' = [stamp EXCEPT ![e] = 1] /\ UNCHANGED clock
       ELSE clock < MaxClock /\ clock' = clock + 1 /\ stamp' = [stamp EXCEPT ![e] = clock']
    /\ UNCHANGED <<status, bondVars, lastSweep, cycle, about, faults>>

\* A failed store is logged; the task goes on.
StoreEpisode(e) ==
    /\ task[e].at = "store"
    /\ task' = [task EXCEPT ![e].at = "search"]
    /\ \/ Succeeds /\ status' = [status EXCEPT ![e] = "pending"]
       \/ Fails /\ UNCHANGED status
    /\ UNCHANGED <<bondVars, pollVars>>

(***************************************************************************)
(* The cycle.                                                              *)
(***************************************************************************)
PendingIn(g) == {e \in Episodes : status[e] = "pending" /\ GroupOf[e] = g}

\* Pending episodes since the last sweep.
Window(g) == {e \in PendingIn(g) : stamp[e] > lastSweep}

Candidates == {g \in Groups : Cardinality(Window(g)) >= SweepMin}

\* ORDER BY raw_count DESC LIMIT n
Rows(n) ==
    {T \in SUBSET Candidates :
        /\ Cardinality(T) = (IF Cardinality(Candidates) < n THEN Cardinality(Candidates) ELSE n)
        /\ \A t \in T, c \in Candidates \ T : Cardinality(Window(t)) >= Cardinality(Window(c))}

\* _query_pending_groups: the rows are filtered after the LIMIT; a failed query for
\* the groups finds none, one for the ABOUT edges finds no edges.
Found(has_ontology, n, result) ==
    \/ Succeeds /\ \E T \in Rows(n) : result = {g \in T : (g \in about) = has_ontology}
    \/ Fails /\ result = {}
    \/ Fails /\ \E T \in Rows(n) : result = {g \in T : ~ has_ontology}

\* cycle_start, then the groups without ontology.
FindPriority ==
    /\ cycle.at = "idle"
    /\ clock < MaxClock
    /\ clock' = clock + 1
    /\ \E P \in SUBSET Groups :
          /\ Found(FALSE, BatchSize, P)
          /\ cycle' = [IdleCycle EXCEPT
                !.at = IF Cardinality(P) >= BatchSize THEN "groups" ELSE "normal",
                !.start = clock', !.window = UNION {Window(g) : g \in Groups}, !.priority = P,
                !.cut = Cardinality(Candidates) > BatchSize, !.blind = faults' # faults]
    /\ UNCHANGED <<status, bondVars, task, stamp, lastSweep, about>>

FindNormal ==
    /\ cycle.at = "normal"
    /\ \E N \in SUBSET Groups : LET n == BatchSize - Cardinality(cycle.priority) IN
          /\ Found(TRUE, n, N)
          /\ cycle' = [cycle EXCEPT !.at = "groups", !.normal = N,
                !.cut = @ \/ Cardinality(Candidates) > n, !.blind = @ \/ faults' # faults]
    /\ UNCHANGED <<status, bondVars, task, clock, stamp, lastSweep, about>>

Oldest(S, n) == {T \in SUBSET S : /\ Cardinality(T) = (IF Cardinality(S) < n THEN Cardinality(S) ELSE n)
                                  /\ \A t \in T, s \in S \ T : stamp[t] <= stamp[s]}

\* _consolidate_group of the batch T: the duplicates D are marked, then the rest is
\* curated and marked.  A mark of the duplicates that fails is only logged, and the
\* episodes in kept stay pending; any other failure is raised, with the rest done or,
\* in undone, still pending.
ConsolidateBatch(g, T, D, kept, undone, failed) ==
    /\ D # {} => \E e \in Episodes : GroupOf[e] = g /\ status[e] = "consolidated"
    /\ undone # {} => failed
    /\ failed => D # T \/ T = {}
    /\ IF failed \/ kept # {} THEN Fails ELSE Succeeds
    /\ status' = [e \in Episodes |-> IF e \in D \ kept THEN "duplicate"
                                     ELSE IF e \in T \ (D \cup undone) THEN "consolidated"
                                     ELSE status[e]]
    /\ cycle' = [cycle EXCEPT !.priority = @ \ {g}, !.normal = @ \ {g},
                      !.taken = @ \cup (T \ (kept \cup undone)), !.kept = @ \cup kept,
                      !.failed = @ \/ failed]

ConsolidateGroup(g) ==
    /\ cycle.at = "groups"
    /\ g \in IF cycle.priority # {} THEN cycle.priority ELSE cycle.normal
    /\ \E T \in Oldest(PendingIn(g), FetchLimit) : \E D \in SUBSET T :
       \E kept \in {{}, D}, undone \in {{}, T \ D}, failed \in BOOLEAN :
          ConsolidateBatch(g, T, D, kept, undone, failed)
    /\ about' \in {about, about \cup {g}}
    /\ UNCHANGED <<bondVars, task, clock, stamp, lastSweep>>

\* Mutant: the timestamp is advanced after a failure too.
SweepTimestampBug == cycle.start

\* "Only advance sweep timestamp if all consolidations succeeded."
SweepTimestamp == IF cycle.failed THEN lastSweep ELSE cycle.start

\* The groups are done; the decay query.
EndGroups ==
    /\ cycle.at = "groups" /\ cycle.priority = {} /\ cycle.normal = {}
    /\ lastSweep' = SweepTimestamp
    /\ Decay
    /\ cycle' = [IdleCycle EXCEPT !.at = IF faults' = faults THEN "prune" ELSE "idle"]
    /\ UNCHANGED <<status, activation, together, task, clock, stamp, about>>

PruneEdges ==
    /\ cycle.at = "prune"
    /\ Prune
    /\ cycle' = IdleCycle
    /\ UNCHANGED <<status, activation, task, clock, stamp, lastSweep, about>>

CycleStep ==
    \/ FindPriority
    \/ FindNormal
    \/ \E g \in Groups : ConsolidateGroup(g)
    \/ EndGroups
    \/ PruneEdges

\* _last_sweep_ts is not persisted.
Crash ==
    /\ Fails
    /\ HebbianCrash
    /\ cycle' = IdleCycle
    /\ lastSweep' = 0
    /\ UNCHANGED <<status, bondVars, clock, stamp, about>>

Next ==
    \/ \E e \in Episodes : StampEpisode(e) \/ StoreEpisode(e)
    \/ \E e \in Episodes : TaskStep(e) /\ UNCHANGED pollVars
    \/ CycleStep
    \/ Crash

Spec == Init /\ [][Next]_vars

(***************************************************************************)
(* Properties.                                                             *)
(***************************************************************************)

\* Episodes that are pending when the worker puts them behind it.
PassedOver == {e \in Episodes : status[e] = "pending" /\ lastSweep < stamp[e] /\ stamp[e] <= lastSweep'}

\* What a cycle may leave behind although it found no error: an episode that was
\* written after the worker had asked, one of a group that was too small or too
\* large, and any episode when there were more groups than a query had rows.
Excused(e) ==
    LET g == GroupOf[e]
        asked == {d \in cycle.window : GroupOf[d] = g}
    IN \/ e \notin cycle.window
       \/ Cardinality(asked) < SweepMin
       \/ Cardinality(PendingIn(g) \cup (cycle.taken \cap {d \in Episodes : GroupOf[d] = g})) > FetchLimit
       \/ cycle.cut

\* An episode is put behind with its group not consolidated only for these
\* reasons, because a query for the groups failed in this very cycle, or because
\* the query that marks duplicates did, which is only logged: a consolidation that
\* raises an exception is tried again, and so is one the process died in.
FailuresAreRetried ==
    [][\A e \in PassedOver : Excused(e) \/ cycle.blind \/ e \in cycle.kept]_vars
===============================================================================
