-------------------------------- MODULE Hebbian --------------------------------
(***************************************************************************)
(* Hebbian learning: the background task of an observation searches for    *)
(* episodes, scores them with the weights of its CO_ACTIVATED edges, and   *)
(* then activates what it found and strengthens the edges, one query after *)
(* the other; the REM cycle weakens and prunes them.                       *)
(***************************************************************************)
EXTENDS Naturals, FiniteSets, Functions

CONSTANTS Episodes,
          Groups,
          GroupOf,
          Reach,       \* what the search of each observation may find: the episodes
                       \* in the scope of its session, and along the graph from them
          Cap,         \* hebbian activation cap
          MaxPairs,    \* results that are reinforced
          Levels,      \* weights are abstracted to levels: 1 is near zero
          NewLevel,    \* the level of the learning rate
          MaxFaults    \* bound: failed queries in one behaviour

ASSUME HebbianAssumption ==
    /\ IsFiniteSet(Episodes) /\ IsFiniteSet(Groups)
    /\ GroupOf \in [Episodes -> Groups]
    /\ Reach \in [Episodes -> SUBSET Episodes]
    /\ Cap \in Nat \ {0} /\ MaxPairs \in Nat \ {0} /\ MaxFaults \in Nat
    /\ Levels \in Nat /\ NewLevel \in 2..Levels

VARIABLES
    status,      \* consolidation_status, or "none" before the node is created
    activation,  \* activation_count
    weight,      \* the level of a CO_ACTIVATED edge <<trigger, result>>, 0 without one
    together,    \* its co_activation_count
    task,        \* the background task of each observation
    faults

bondVars == <<activation, weight, together>>

Pairs == Episodes \X Episodes

HebbianInit ==
    /\ status = [e \in Episodes |-> "none"]
    /\ activation = [e \in Episodes |-> 0]
    /\ weight = [p \in Pairs |-> 0]
    /\ together = [p \in Pairs |-> 0]
    /\ task = [e \in Episodes |-> [at |-> "new", todo |-> {}, result |-> {}, seen |-> {}, ready |-> {}]]
    /\ faults = 0

Succeeds == UNCHANGED faults
Fails == faults < MaxFaults /\ faults' = faults + 1

Stored == {e \in Episodes : status[e] # "none"}

\* Results whose co-activation weight the scoring gets: get_co_activation_weights
\* with the observed episode as the trigger.
WeightsOf(e, results) == {r \in results : weight[<<e, r>>] > 0}

\* Episodes that were retrieved together with some episode before.
Bonded(results) == {r \in results : \E t \in Episodes : weight[<<t, r>>] > 0}

\* What is reinforced of the results: result_uuids[:max_pairs].
FirstOf(results) ==
    {T \in SUBSET results :
        Cardinality(T) = (IF Cardinality(results) < MaxPairs THEN Cardinality(results) ELSE MaxPairs)}

\* _search_falkordb; then reinforcement begins.
Search(e) ==
    /\ task[e].at = "search"
    /\ \E results \in SUBSET ((Reach[e] \cap Stored) \ {e}) :
       \E first \in FirstOf(results) :
          task' = [task EXCEPT ![e].at = IF results = {} THEN "done" ELSE "trigger",
                               ![e].todo = first,
                               ![e].seen = WeightsOf(e, results),
                               ![e].ready = Bonded(results)]
    /\ UNCHANGED <<status, bondVars, faults>>

Activate(e) ==
    activation' = [activation EXCEPT ![e] = IF e \in Stored /\ @ < Cap THEN @ + 1 ELSE @]

\* The trigger's own count; an error is logged.
ActivateTrigger(e) ==
    /\ task[e].at = "trigger"
    /\ task' = [task EXCEPT ![e].at = "result"]
    /\ \/ Succeeds /\ Activate(e)
       \/ Fails /\ UNCHANGED activation
    /\ UNCHANGED <<status, weight, together>>

\* Mutant: an edge is strengthened although its result was not activated.
ActivateResultBug(e) ==
    /\ task[e].at = "result"
    /\ \E r \in task[e].todo :
          /\ \/ Succeeds /\ Activate(r)
             \/ Fails /\ UNCHANGED activation
          /\ task' = [task EXCEPT ![e].at = "edge", ![e].todo = @ \ {r}, ![e].result = {r}]
    /\ UNCHANGED <<status, weight, together>>

\* The next result; an error skips its edge.
ActivateResult(e) ==
    /\ task[e].at = "result"
    /\ \E r \in task[e].todo :
          \/ /\ Succeeds /\ Activate(r)
             /\ task' = [task EXCEPT ![e].at = "edge", ![e].todo = @ \ {r}, ![e].result = {r}]
          \/ /\ Fails /\ UNCHANGED activation
             /\ task' = [task EXCEPT ![e].todo = @ \ {r}]
    /\ UNCHANGED <<status, weight, together>>

\* MERGE (trigger)-[r:CO_ACTIVATED]->(result): only between nodes that exist.
Reinforce(e) ==
    LET edges == ({e} \cap Stored) \X task[e].result
    IN /\ task[e].at = "edge"
       /\ task' = [task EXCEPT ![e].at = "result", ![e].result = {}]
       /\ \/ /\ Succeeds
             /\ weight' = [p \in Pairs |-> IF p \notin edges THEN weight[p]
                                           ELSE IF weight[p] = 0 THEN NewLevel
                                           ELSE IF weight[p] < Levels THEN weight[p] + 1
                                           ELSE Levels]
             /\ together' = [p \in Pairs |-> together[p] + (IF p \in edges THEN 1 ELSE 0)]
          \/ Fails /\ UNCHANGED <<weight, together>>
       /\ UNCHANGED <<status, activation>>

EndTask(e) ==
    /\ task[e].at = "result" /\ task[e].todo = {}
    /\ task' = [task EXCEPT ![e].at = "done"]
    /\ UNCHANGED <<status, bondVars, faults>>

\* The process dies, and its tasks with it.
HebbianCrash ==
    task' = [e \in Episodes |-> IF task[e].at = "new" THEN task[e]
                                ELSE [task[e] EXCEPT !.at = "done", !.todo = {}, !.result = {}]]

TaskStep(e) == Search(e) \/ ActivateTrigger(e) \/ ActivateResult(e) \/ Reinforce(e) \/ EndTask(e)

(***************************************************************************)
(* _decay_hebbian_weights.                                                 *)
(***************************************************************************)

\* Edges that were not used for decay_interval_hours: any of them may be stale.
Decay ==
    \/ /\ Succeeds
       /\ \E stale \in SUBSET {p \in Pairs : weight[p] > 1} :
             weight' = [p \in Pairs |-> IF p \in stale THEN weight[p] - 1 ELSE weight[p]]
    \/ Fails /\ UNCHANGED weight

\* Edges with a weight near zero are deleted.
Prune ==
    \/ /\ Succeeds
       /\ weight' = [p \in Pairs |-> IF weight[p] = 1 THEN 0 ELSE weight[p]]
       /\ together' = [p \in Pairs |-> IF weight[p] = 1 THEN 0 ELSE together[p]]
    \/ Fails /\ UNCHANGED <<weight, together>>

(***************************************************************************)
(* Properties.                                                             *)
(***************************************************************************)

\* Every co-activation was an activation of its result too, whatever fails and
\* however tasks and the decay interleave: the counts on the edges to an episode
\* never add up to more than its own, unless it has reached the cap.
BondsWereEarned ==
    \A r \in Episodes :
        \/ activation[r] = Cap
        \/ SumFunction([t \in Episodes |-> together[<<t, r>>]]) <= activation[r]

\* docs/observe-sequence.md: "Episodes that are frequently co-retrieved get
\* stronger CO_ACTIVATED edges, which boosts their score in future retrievals":
\* a search that finds episodes with such edges gets the weight of one.
FeedbackReachesScores == \A e \in Episodes : task[e].ready # {} => task[e].seen # {}
===============================================================================
