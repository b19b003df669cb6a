----------------------------- MODULE PollingProofs -----------------------------
(***************************************************************************)
(* Proofs about REMPolling, for any episodes, groups and limits: types,    *)
(* what co-activation counts rest on, and what a cycle leaves behind it.   *)
(***************************************************************************)
EXTENDS REMPolling, SumLemmas

(***************************************************************************)
(* Types.                                                                  *)
(***************************************************************************)
TaskType ==
    [at : {"new", "store", "search", "trigger", "result", "edge", "done"},
     todo : SUBSET Episodes, result : SUBSET Episodes,
     seen : SUBSET Episodes, ready : SUBSET Episodes]

CycleType ==
    [at : {"idle", "normal", "groups", "prune"}, start : Nat, window : SUBSET Episodes,
     priority : SUBSET Groups, normal : SUBSET Groups, taken : SUBSET Episodes,
     kept : SUBSET Episodes, failed : BOOLEAN, cut : BOOLEAN, blind : BOOLEAN]

PollType ==
    /\ faults \in 0..MaxFaults
    /\ status \in [Episodes -> {"none", "pending", "consolidated", "duplicate"}]
    /\ activation \in [Episodes -> 0..Cap]
    /\ weight \in [Pairs -> 0..Levels]
    /\ together \in [Pairs -> Nat]
    /\ task \in [Episodes -> TaskType]
    /\ clock \in Nat /\ lastSweep \in Nat /\ stamp \in [Episodes -> Nat]
    /\ cycle \in CycleType
    /\ about \in SUBSET Groups

\* What ConsolidateGroup(g) does with its batch T: D are the duplicates, kept those
\* that stay pending because the mark failed, undone the rest if that stays pending.
Consolidation(g, T, D, kept, undone, failed) ==
    /\ T \in Oldest(PendingIn(g), FetchLimit) /\ D \subseteq T
    /\ kept \subseteq D /\ undone \subseteq T \ D
    /\ undone # {} => failed
    /\ Succeeds \/ Fails
    /\ status' = [e \in Episodes |-> IF e \in D \ kept THEN "duplicate"
                                     ELSE IF e \in T \ (D \cup undone) THEN "consolidated"
                                     ELSE status[e]]
    /\ cycle' = [cycle EXCEPT !.priority = @ \ {g}, !.normal = @ \ {g},
                      !.taken = @ \cup (T \ (kept \cup undone)), !.kept = @ \cup kept,
                      !.failed = @ \/ failed]

LEMMA ConsolidationOf ==
    ASSUME NEW g \in Groups, ConsolidateGroup(g)
    PROVE  \E T \in SUBSET Episodes, D \in SUBSET Episodes, kept \in SUBSET Episodes,
              undone \in SUBSET Episodes, failed \in BOOLEAN :
              Consolidation(g, T, D, kept, undone, failed)
<1>1. PICK T \in Oldest(PendingIn(g), FetchLimit) : \E D \in SUBSET T :
         \E kept \in {{}, D}, undone \in {{}, T \ D}, failed \in BOOLEAN :
            ConsolidateBatch(g, T, D, kept, undone, failed)
  BY DEF ConsolidateGroup
<1>2. PICK D \in SUBSET T : \E kept \in {{}, D}, undone \in {{}, T \ D}, failed \in BOOLEAN :
         ConsolidateBatch(g, T, D, kept, undone, failed)
  BY <1>1
<1>3. PICK kept \in {{}, D}, undone \in {{}, T \ D}, failed \in BOOLEAN :
         ConsolidateBatch(g, T, D, kept, undone, failed)
  BY <1>2
<1>4. T \in SUBSET Episodes
  BY DEF Oldest, PendingIn
<1>5. /\ D \in SUBSET Episodes /\ kept \in SUBSET Episodes /\ undone \in SUBSET Episodes
      /\ D \subseteq T /\ kept \subseteq D /\ undone \subseteq T \ D
  BY <1>4
<1>6. Succeeds \/ Fails
  BY <1>3 DEF ConsolidateBatch
<1>7. Consolidation(g, T, D, kept, undone, failed)
  BY <1>3, <1>5, <1>6 DEF Consolidation, ConsolidateBatch
<1> QED BY <1>4, <1>5, <1>7

LEMMA FaultsType ==
    ASSUME faults \in 0..MaxFaults, Succeeds \/ Fails
    PROVE  faults' \in 0..MaxFaults
BY HebbianAssumption DEF Succeeds, Fails

\* A task changes to what is still one.
LEMMA TaskChanges ==
    ASSUME task \in [Episodes -> TaskType], NEW e \in Episodes, NEW u \in TaskType,
           task' = [task EXCEPT ![e] = u]
    PROVE  task' \in [Episodes -> TaskType]
OBVIOUS

\* What an EXCEPT of a task may set.
LEMMA TaskWith ==
    ASSUME NEW t \in TaskType,
           NEW p \in {"new", "store", "search", "trigger", "result", "edge", "done"},
           NEW todo \in SUBSET Episodes, NEW result \in SUBSET Episodes,
           NEW seen \in SUBSET Episodes, NEW ready \in SUBSET Episodes
    PROVE  /\ [t EXCEPT !.at = p, !.todo = todo, !.result = result] \in TaskType
           /\ [t EXCEPT !.at = p, !.result = result] \in TaskType
           /\ [t EXCEPT !.todo = todo] \in TaskType
           /\ [t EXCEPT !.at = p, !.todo = todo, !.seen = seen, !.ready = ready] \in TaskType
           /\ t.todo \subseteq Episodes
BY DEF TaskType

LEMMA TaskMoves ==
    ASSUME task \in [Episodes -> TaskType], NEW e \in Episodes,
           NEW p \in {"new", "store", "search", "trigger", "result", "edge", "done"},
           task' = [task EXCEPT ![e].at = p]
    PROVE  task' \in [Episodes -> TaskType]
<1>1. [task[e] EXCEPT !.at = p] \in TaskType
  BY DEF TaskType
<1> QED BY <1>1, TaskChanges

LEMMA ObservationTypes ==
    ASSUME PollType, NEW e \in Episodes, StampEpisode(e) \/ StoreEpisode(e)
    PROVE  PollType'
<1>1. CASE StampEpisode(e)
  <2>1. task' \in [Episodes -> TaskType]
    BY <1>1, TaskMoves DEF StampEpisode, PollType
  <2> QED BY <1>1, <2>1 DEF StampEpisode, PollType, bondVars
<1>2. CASE StoreEpisode(e)
  <2>1. faults' \in 0..MaxFaults
    BY <1>2, FaultsType DEF StoreEpisode, PollType
  <2>2. task' \in [Episodes -> TaskType]
    BY <1>2, TaskMoves DEF StoreEpisode, PollType
  <2> QED BY <1>2, <2>1, <2>2 DEF StoreEpisode, PollType, bondVars, pollVars
<1> QED BY <1>1, <1>2

LEMMA ActivateType ==
    ASSUME PollType, NEW e \in Episodes, Activate(e)
    PROVE  activation' \in [Episodes -> 0..Cap]
BY HebbianAssumption DEF Activate, PollType

LEMMA TaskTypes ==
    ASSUME PollType, NEW e \in Episodes, TaskStep(e), UNCHANGED pollVars
    PROVE  PollType'
<1>1. CASE Search(e)
  <2>1. WeightsOf(e, Episodes) \subseteq Episodes
    BY DEF WeightsOf
  <2>2. PICK results \in SUBSET ((Reach[e] \cap Stored) \ {e}) :
            \E first \in FirstOf(results) :
          task' = [task EXCEPT ![e].at = IF results = {} THEN "done" ELSE "trigger",
                               ![e].todo = first,
                               ![e].seen = WeightsOf(e, results),
                               ![e].ready = Bonded(results)]
    BY <1>1 DEF Search
  <2>3. results \subseteq Episodes /\ WeightsOf(e, results) \subseteq Episodes /\ Bonded(results) \subseteq Episodes
    BY DEF Stored, WeightsOf, Bonded
  <2>4. \A first \in FirstOf(results) : first \subseteq Episodes
    BY <2>3 DEF FirstOf
  <2>5. PICK first \in FirstOf(results) :
          task' = [task EXCEPT ![e].at = IF results = {} THEN "done" ELSE "trigger",
                               ![e].todo = first,
                               ![e].seen = WeightsOf(e, results),
                               ![e].ready = Bonded(results)]
    BY <2>2
  <2>6. [task[e] EXCEPT !.at = IF results = {} THEN "done" ELSE "trigger", !.todo = first,
                        !.seen = WeightsOf(e, results), !.ready = Bonded(results)] \in TaskType
    BY <2>3, <2>4, TaskWith DEF PollType
  <2>7. task' \in [Episodes -> TaskType]
    BY <2>5, <2>6, TaskChanges DEF PollType
  <2> QED BY <1>1, <2>7 DEF Search, PollType, bondVars, pollVars
<1>2. CASE ActivateTrigger(e)
  <2>1. faults' \in 0..MaxFaults /\ activation' \in [Episodes -> 0..Cap]
    BY <1>2, FaultsType, ActivateType DEF ActivateTrigger, PollType
  <2>2. task' \in [Episodes -> TaskType]
    BY <1>2, TaskMoves DEF ActivateTrigger, PollType
  <2> QED BY <1>2, <2>1, <2>2 DEF ActivateTrigger, PollType, pollVars
<1>3. CASE ActivateResult(e)
  <2>1. PICK r \in task[e].todo :
          \/ /\ Succeeds /\ Activate(r)
             /\ task' = [task EXCEPT ![e].at = "edge", ![e].todo = @ \ {r}, ![e].result = {r}]
          \/ /\ Fails /\ UNCHANGED activation
             /\ task' = [task EXCEPT ![e].todo = @ \ {r}]
    BY <1>3 DEF ActivateResult
  <2>2. r \in Episodes
    BY DEF PollType, TaskType
  <2>3. faults' \in 0..MaxFaults /\ activation' \in [Episodes -> 0..Cap]
    BY <2>1, <2>2, FaultsType, ActivateType DEF PollType
  <2>4. /\ [task[e] EXCEPT !.at = "edge", !.todo = @ \ {r}, !.result = {r}] \in TaskType
        /\ [task[e] EXCEPT !.todo = @ \ {r}] \in TaskType
    <3>1. task[e] \in TaskType /\ task[e].todo \ {r} \subseteq Episodes
      BY TaskWith DEF PollType
    <3> DEFINE rest == task[e].todo \ {r}
    <3>2. rest \in SUBSET Episodes /\ {r} \in SUBSET Episodes
      BY <2>2, <3>1
    <3> HIDE DEF rest
    <3>3. /\ [task[e] EXCEPT !.at = "edge", !.todo = rest, !.result = {r}] \in TaskType
          /\ [task[e] EXCEPT !.todo = rest] \in TaskType
      BY <3>1, <3>2, TaskWith
    <3> QED BY <3>3 DEF rest
  <2>5. task' \in [Episodes -> TaskType]
    BY <2>1, <2>4, TaskChanges DEF PollType
  <2> QED BY <1>3, <2>3, <2>5 DEF ActivateResult, PollType, pollVars
<1>4. CASE Reinforce(e)
  <2>1. faults' \in 0..MaxFaults
    BY <1>4, FaultsType DEF Reinforce, PollType
  <2>2. task' \in [Episodes -> TaskType]
    <3>1. [task[e] EXCEPT !.at = "result", !.result = {}] \in TaskType
      BY TaskWith DEF PollType
    <3> QED BY <1>4, <3>1, TaskChanges DEF Reinforce, PollType
  <2>3. weight' \in [Pairs -> 0..Levels] /\ together' \in [Pairs -> Nat]
    BY <1>4, HebbianAssumption DEF Reinforce, PollType
  <2> QED BY <1>4, <2>1, <2>2, <2>3 DEF Reinforce, PollType, pollVars
<1>5. CASE EndTask(e)
  <2>1. task' \in [Episodes -> TaskType]
    BY <1>5, TaskMoves DEF EndTask, PollType
  <2> QED BY <1>5, <2>1 DEF EndTask, PollType, pollVars, bondVars
<1> QED BY <1>1, <1>2, <1>3, <1>4, <1>5 DEF TaskStep

LEMMA CycleTypes == ASSUME PollType, CycleStep PROVE PollType'
<1>1. CASE FindPriority
  <2>1. PICK P \in SUBSET Groups :
          /\ Found(FALSE, BatchSize, P)
          /\ cycle' = [IdleCycle EXCEPT
                !.at = IF Cardinality(P) >= BatchSize THEN "groups" ELSE "normal",
                !.start = clock', !.window = UNION {Window(g) : g \in Groups}, !.priority = P,
                !.cut = Cardinality(Candidates) > BatchSize, !.blind = faults' # faults]
    BY <1>1 DEF FindPriority
  <2>2. faults' \in 0..MaxFaults /\ clock' \in Nat
    BY <1>1, <2>1, FaultsType DEF FindPriority, Found, PollType
  <2>3. UNION {Window(g) : g \in Groups} \subseteq Episodes
    BY DEF Window, PendingIn
  <2>4. (Cardinality(Candidates) > BatchSize) \in BOOLEAN /\ (faults' # faults) \in BOOLEAN
    OBVIOUS
  <2>5. cycle' \in CycleType
    BY <2>1, <2>2, <2>3, <2>4 DEF IdleCycle, CycleType
  <2> QED BY <1>1, <2>2, <2>5 DEF FindPriority, PollType, bondVars
<1>2. CASE FindNormal
  <2> DEFINE n == BatchSize - Cardinality(cycle.priority)
  <2>1. PICK N \in SUBSET Groups :
          /\ Found(TRUE, n, N)
          /\ cycle' = [cycle EXCEPT !.at = "groups", !.normal = N,
                !.cut = @ \/ Cardinality(Candidates) > n, !.blind = @ \/ faults' # faults]
    BY <1>2 DEF FindNormal
  <2>2. faults' \in 0..MaxFaults
    BY <2>1, FaultsType DEF Found, PollType
  <2> HIDE DEF n
  <2>3. cycle' \in CycleType
    BY <2>1 DEF PollType, CycleType
  <2> QED BY <1>2, <2>2, <2>3 DEF FindNormal, PollType, bondVars
<1>3. ASSUME NEW g \in Groups, ConsolidateGroup(g) PROVE PollType'
  <2>1. PICK T \in SUBSET Episodes, D \in SUBSET Episodes, kept \in SUBSET Episodes,
             undone \in SUBSET Episodes, failed \in BOOLEAN : Consolidation(g, T, D, kept, undone, failed)
    BY <1>3, ConsolidationOf
  <2>2. faults' \in 0..MaxFaults
    BY <2>1, FaultsType DEF Consolidation, PollType
  <2>3. status' \in [Episodes -> {"none", "pending", "consolidated", "duplicate"}]
    BY <2>1 DEF Consolidation, PollType
  <2>4. cycle' \in CycleType
    BY <2>1 DEF Consolidation, PollType, CycleType
  <2>5. about' \in SUBSET Groups
    BY <1>3 DEF ConsolidateGroup, PollType
  <2> QED BY <1>3, <2>2, <2>3, <2>4, <2>5 DEF ConsolidateGroup, PollType, bondVars
<1>4. CASE EndGroups
  <2>1. faults' \in 0..MaxFaults
    BY <1>4, FaultsType DEF EndGroups, Decay, PollType
  <2>2. weight' \in [Pairs -> 0..Levels]
    BY <1>4, HebbianAssumption DEF EndGroups, Decay, PollType
  <2>3. lastSweep' \in Nat
    BY <1>4 DEF EndGroups, SweepTimestamp, PollType, CycleType
  <2>4. cycle' \in CycleType
    BY <1>4 DEF EndGroups, IdleCycle, CycleType
  <2> QED BY <1>4, <2>1, <2>2, <2>3, <2>4 DEF EndGroups, PollType
<1>5. CASE PruneEdges
  <2>1. faults' \in 0..MaxFaults
    BY <1>5, FaultsType DEF PruneEdges, Prune, PollType
  <2>2. weight' \in [Pairs -> 0..Levels] /\ together' \in [Pairs -> Nat]
    BY <1>5, HebbianAssumption DEF PruneEdges, Prune, PollType
  <2>3. cycle' \in CycleType
    BY <1>5 DEF PruneEdges, IdleCycle, CycleType
  <2> QED BY <1>5, <2>1, <2>2, <2>3 DEF PruneEdges, PollType
<1> QED BY <1>1, <1>2, <1>3, <1>4, <1>5 DEF CycleStep

LEMMA CrashTypes == ASSUME PollType, Crash PROVE PollType'
<1>1. faults' \in 0..MaxFaults
  BY FaultsType DEF Crash, PollType
<1>2. task' \in [Episodes -> TaskType]
  <2>1. \A e \in Episodes : [task[e] EXCEPT !.at = "done", !.todo = {}, !.result = {}] \in TaskType
    BY TaskWith DEF PollType
  <2> QED BY <2>1 DEF Crash, HebbianCrash, PollType
<1>3. cycle' \in CycleType
  BY DEF Crash, IdleCycle, CycleType
<1> QED BY <1>1, <1>2, <1>3 DEF Crash, PollType, bondVars

LEMMA InitTypes == Init => PollType
BY HebbianAssumption DEF Init, HebbianInit, IdleCycle, PollType, TaskType, CycleType

LEMMA TypesKept == PollType /\ [Next]_vars => PollType'
<1> SUFFICES ASSUME PollType, [Next]_vars PROVE PollType'
  OBVIOUS
<1>1. CASE UNCHANGED vars
  BY <1>1 DEF vars, bondVars, pollVars, PollType
<1> QED BY <1>1, ObservationTypes, TaskTypes, CycleTypes, CrashTypes DEF Next

\* The tasks of the observations and the cycle of the worker keep to their
\* types: no weight or count leaves its bounds, whatever fails.
THEOREM PollingTypeCorrect == Spec => []PollType
BY InitTypes, TypesKept, PTL DEF Spec

(***************************************************************************)
(* What the counts on the edges rest on.  BondsWereEarned is not           *)
(* inductive: between the activation of a result and the query that        *)
(* strengthens its edge, the task owes the edge one.  What the edges to an *)
(* episode count and what tasks still owe them is covered by its own       *)
(* activations, and only episodes that exist are ever owed an edge.        *)
(***************************************************************************)
Bonds(r) == SumFunction([t \in Episodes |-> together[<<t, r>>]])

Owed(r) == {e \in Episodes : task[e].at = "edge" /\ task[e].result = {r}}

Covered(r) == activation[r] = Cap \/ Bonds(r) + Cardinality(Owed(r)) <= activation[r]

BondInv ==
    /\ \A e \in Episodes : task[e].todo \subseteq Stored
    /\ \A e \in Episodes : task[e].at = "edge" => \E r \in Stored : task[e].result = {r}
    /\ \A r \in Episodes : Covered(r)

LEMMA BondsSum ==
    ASSUME NEW r \in Episodes
    PROVE  /\ Bonds(r) = SumFunctionOnSet([t \in Episodes |-> together[<<t, r>>]], Episodes)
           /\ Bonds(r)' = SumFunctionOnSet([t \in Episodes |-> together'[<<t, r>>]], Episodes)
BY DEF Bonds, SumFunction

LEMMA BondsType == ASSUME PollType, NEW r \in Episodes PROVE Bonds(r) \in Nat
<1>1. \A t \in Episodes : [t_1 \in Episodes |-> together[<<t_1, r>>]][t] \in Nat
  BY DEF PollType, Pairs
<1> QED BY <1>1, BondsSum, SumType, HebbianAssumption

LEMMA OwedType ==
    ASSUME NEW r \in Episodes
    PROVE  IsFiniteSet(Owed(r)) /\ Cardinality(Owed(r)) \in Nat
BY HebbianAssumption, FS_Subset, FS_CardinalityType DEF Owed

\* Nothing is lost by a step that takes no activation back and adds neither to
\* the counts nor to what is owed.
LEMMA CoveredKept ==
    ASSUME PollType, PollType', NEW r \in Episodes, Covered(r),
           activation[r] <= activation'[r], Owed(r)' \subseteq Owed(r),
           \A t \in Episodes : together'[<<t, r>>] <= together[<<t, r>>]
    PROVE  Covered(r)'
<1>1. Bonds(r)' <= Bonds(r)
  <2> DEFINE f == [t \in Episodes |-> together[<<t, r>>]]
             g == [t \in Episodes |-> together'[<<t, r>>]]
  <2>1. \A t \in Episodes : f[t] \in Nat /\ g[t] \in Nat /\ g[t] <= f[t]
    BY DEF PollType, Pairs
  <2> HIDE DEF f, g
  <2>2. SumFunctionOnSet(g, Episodes) <= SumFunctionOnSet(f, Episodes)
    BY <2>1, SumGrows, HebbianAssumption
  <2> QED BY <2>2, BondsSum DEF f, g
<1>2. Cardinality(Owed(r)') <= Cardinality(Owed(r))
  BY OwedType, FS_Subset
<1>3. Bonds(r) \in Nat /\ Bonds(r)' \in Nat /\ Cardinality(Owed(r)) \in Nat
  <2>1. Bonds(r)' \in Nat
    <3>1. \A t \in Episodes : [t_1 \in Episodes |-> together'[<<t_1, r>>]][t] \in Nat
      BY DEF PollType, Pairs
    <3> QED BY <3>1, BondsSum, SumType, HebbianAssumption
  <2> QED BY <2>1, BondsType, OwedType
<1>4. Cardinality(Owed(r)') \in Nat
  BY OwedType, FS_Subset, FS_CardinalityType
<1>5. activation[r] \in 0..Cap /\ activation'[r] \in 0..Cap
  BY DEF PollType
<1> QED BY <1>1, <1>2, <1>3, <1>4, <1>5, HebbianAssumption DEF Covered

LEMMA ActivateGrows ==
    ASSUME PollType, NEW e \in Episodes, Activate(e)
    PROVE  \A r \in Episodes : activation[r] <= activation'[r]
BY HebbianAssumption DEF Activate, PollType

\* Steps that touch neither the edges nor a task between activation and edge.
LEMMA BondUntouched ==
    ASSUME PollType, PollType', BondInv, Stored \subseteq Stored', NEW e \in Episodes,
           \A d \in Episodes \ {e} : task'[d] = task[d],
           task[e].at # "edge", task'[e].at # "edge", task'[e].todo \subseteq Stored',
           \A r \in Episodes : activation[r] <= activation'[r],
           together' = together
    PROVE  BondInv'
<1>1. \A r \in Episodes : Owed(r)' \subseteq Owed(r)
  BY DEF Owed
<1>2. \A t, r \in Episodes : together'[<<t, r>>] <= together[<<t, r>>]
  BY DEF PollType, Pairs
<1>3. \A r \in Episodes : Covered(r)'
  BY <1>1, <1>2, CoveredKept DEF BondInv
<1> QED BY <1>3 DEF BondInv

LEMMA BondObservation ==
    ASSUME PollType, PollType', BondInv, NEW e \in Episodes, StampEpisode(e) \/ StoreEpisode(e)
    PROVE  BondInv'
<1>1. \A r \in Episodes : activation[r] <= activation'[r]
  BY DEF StampEpisode, StoreEpisode, bondVars, PollType
<1>2. Stored \subseteq Stored'
  BY DEF StampEpisode, StoreEpisode, Stored, PollType
<1>3. /\ \A d \in Episodes \ {e} : task'[d] = task[d]
      /\ task[e].at # "edge" /\ task'[e].at # "edge" /\ task'[e].todo = task[e].todo
  BY DEF StampEpisode, StoreEpisode, PollType, TaskType
<1>4. together' = together
  BY DEF StampEpisode, StoreEpisode, bondVars
<1>5. task'[e].todo \subseteq Stored'
  BY <1>2, <1>3 DEF BondInv
<1> QED BY <1>1, <1>2, <1>3, <1>4, <1>5, BondUntouched

LEMMA BondSearch ==
    ASSUME PollType, PollType', BondInv, NEW e \in Episodes, Search(e)
    PROVE  BondInv'
<1>1. Stored' = Stored
  BY DEF Search, Stored
<1>2. \A results \in SUBSET ((Reach[e] \cap Stored) \ {e}) :
          \A first \in FirstOf(results) : first \subseteq Stored
  BY DEF FirstOf
<1>3. PICK results \in SUBSET ((Reach[e] \cap Stored) \ {e}) :
      \E first \in FirstOf(results) :
          task' = [task EXCEPT ![e].at = IF results = {} THEN "done" ELSE "trigger",
                               ![e].todo = first,
                               ![e].seen = WeightsOf(e, results),
                               ![e].ready = Bonded(results)]
  BY DEF Search
<1>4. PICK first \in FirstOf(results) :
          task' = [task EXCEPT ![e].at = IF results = {} THEN "done" ELSE "trigger",
                               ![e].todo = first,
                               ![e].seen = WeightsOf(e, results),
                               ![e].ready = Bonded(results)]
  BY <1>3
<1>5. /\ \A d \in Episodes \ {e} : task'[d] = task[d]
      /\ task'[e].at # "edge" /\ task'[e].todo = first
  <2> DEFINE at == IF results = {} THEN "done" ELSE "trigger"
             seen == WeightsOf(e, results)
             ready == Bonded(results)
  <2>1. at # "edge"
    OBVIOUS
  <2> HIDE DEF at, seen, ready
  <2>2. task' = [task EXCEPT ![e].at = at, ![e].todo = first, ![e].seen = seen, ![e].ready = ready]
    BY <1>4 DEF at, seen, ready
  <2> QED BY <2>1, <2>2 DEF PollType, TaskType
<1>6. task[e].at # "edge" /\ together' = together /\ activation' = activation
  BY DEF Search, bondVars
<1>7. \A r \in Episodes : activation[r] <= activation'[r]
  BY <1>6 DEF PollType
<1> QED BY <1>1, <1>2, <1>4, <1>5, <1>6, <1>7, BondUntouched

LEMMA BondActivate ==
    ASSUME PollType, PollType', BondInv, NEW e \in Episodes, ActivateTrigger(e)
    PROVE  BondInv'
<1>1. Stored' = Stored /\ together' = together
  BY DEF ActivateTrigger, Stored
<1>2. /\ \A d \in Episodes \ {e} : task'[d] = task[d]
      /\ task[e].at # "edge" /\ task'[e].at # "edge" /\ task'[e].todo = task[e].todo
  BY DEF ActivateTrigger, PollType, TaskType
<1>3. \A r \in Episodes : activation[r] <= activation'[r]
  <2>1. CASE Activate(e)
    BY <2>1, ActivateGrows
  <2>2. CASE UNCHANGED activation
    BY <2>2 DEF PollType
  <2> QED BY <2>1, <2>2 DEF ActivateTrigger
<1>4. task'[e].todo \subseteq Stored'
  BY <1>1, <1>2 DEF BondInv
<1> QED BY <1>1, <1>2, <1>3, <1>4, BondUntouched

\* The result earns its edge in the step that makes the task owe it.
LEMMA BondResult ==
    ASSUME PollType, PollType', BondInv, NEW e \in Episodes, ActivateResult(e)
    PROVE  BondInv'
<1>1. PICK q \in task[e].todo :
        \/ /\ Succeeds /\ Activate(q)
           /\ task' = [task EXCEPT ![e].at = "edge", ![e].todo = @ \ {q}, ![e].result = {q}]
        \/ /\ Fails /\ UNCHANGED activation
           /\ task' = [task EXCEPT ![e].todo = @ \ {q}]
  BY DEF ActivateResult
<1>2. Stored' = Stored /\ together' = together /\ task[e].at = "result"
  BY DEF ActivateResult, Stored
<1>3. q \in Stored /\ q \in Episodes
  BY <1>1 DEF BondInv, Stored
<1>4. CASE Activate(q) /\ task' = [task EXCEPT ![e].at = "edge", ![e].todo = @ \ {q}, ![e].result = {q}]
  <2>1. /\ \A d \in Episodes \ {e} : task'[d] = task[d]
        /\ task'[e].at = "edge" /\ task'[e].todo = task[e].todo \ {q} /\ task'[e].result = {q}
    BY <1>4 DEF PollType, TaskType
  <2>2. \A r \in Episodes : activation[r] <= activation'[r]
    BY <1>4, <1>3, ActivateGrows
  <2>3. \A r \in Episodes \ {q} : Owed(r)' = Owed(r)
    BY <1>2, <2>1 DEF Owed
  <2>4. \A r \in Episodes \ {q} : Covered(r)'
    <3>1. \A t, r \in Episodes : together'[<<t, r>>] <= together[<<t, r>>]
      BY <1>2 DEF PollType, Pairs
    <3> QED BY <2>2, <2>3, <3>1, CoveredKept DEF BondInv
  <2>5. Covered(q)'
    <3>1. Owed(q)' = Owed(q) \cup {e} /\ e \notin Owed(q)
      BY <1>2, <2>1 DEF Owed
    <3>2. Cardinality(Owed(q)') = Cardinality(Owed(q)) + 1
      BY <1>3, <3>1, OwedType, FS_AddElement
    <3>3. Bonds(q)' = Bonds(q)
      BY <1>2, <1>3, BondsSum
    <3>4. activation'[q] = IF activation[q] < Cap THEN activation[q] + 1 ELSE activation[q]
      BY <1>3, <1>4 DEF Activate, PollType
    <3>5. activation[q] \in 0..Cap /\ Bonds(q) \in Nat /\ Cardinality(Owed(q)) \in Nat
      BY <1>3, BondsType, OwedType DEF PollType
    <3>6. Covered(q)
      BY <1>3 DEF BondInv
    <3> QED BY <3>2, <3>3, <3>4, <3>5, <3>6, HebbianAssumption DEF Covered
  <2>6. \A d \in Episodes : task'[d].todo \subseteq Stored'
    BY <1>2, <2>1 DEF BondInv
  <2>7. \A d \in Episodes : task'[d].at = "edge" => \E r \in Stored' : task'[d].result = {r}
    BY <1>2, <1>3, <2>1 DEF BondInv
  <2> QED BY <2>4, <2>5, <2>6, <2>7 DEF BondInv
<1>5. CASE UNCHANGED activation /\ task' = [task EXCEPT ![e].todo = @ \ {q}]
  <2>1. /\ \A d \in Episodes \ {e} : task'[d] = task[d]
        /\ task'[e].at = task[e].at /\ task'[e].todo = task[e].todo \ {q}
    BY <1>5 DEF PollType, TaskType
  <2>2. \A r \in Episodes : activation[r] <= activation'[r]
    BY <1>5 DEF PollType
  <2>3. task'[e].todo \subseteq Stored'
    BY <1>2, <2>1 DEF BondInv
  <2> QED BY <1>2, <2>1, <2>2, <2>3, BondUntouched
<1> QED BY <1>1, <1>4, <1>5

\* The edge is strengthened, or not: the task owes it no longer.
LEMMA BondReinforce ==
    ASSUME PollType, PollType', BondInv, NEW e \in Episodes, Reinforce(e)
    PROVE  BondInv'
<1>1. /\ task[e].at = "edge" /\ Stored' = Stored /\ activation' = activation
      /\ task' = [task EXCEPT ![e].at = "result", ![e].result = {}]
  BY DEF Reinforce, Stored
<1>2. /\ \A d \in Episodes \ {e} : task'[d] = task[d]
      /\ task'[e].at = "result" /\ task'[e].todo = task[e].todo
  BY <1>1 DEF PollType, TaskType
<1>3. PICK q \in Stored : task[e].result = {q}
  BY <1>1 DEF BondInv
<1>3a. q \in Episodes
  BY DEF Stored
<1>4. \A t, r \in Episodes : /\ together[<<t, r>>] \in Nat /\ together'[<<t, r>>] \in Nat
                             /\ <<t, r>> # <<e, q>> => together'[<<t, r>>] = together[<<t, r>>]
  <2>1. CASE together' = together
    BY <2>1 DEF PollType, Pairs
  <2>2. CASE together' = [p \in Pairs |-> together[p]
                              + (IF p \in ({e} \cap Stored) \X task[e].result THEN 1 ELSE 0)]
    BY <2>2, <1>3 DEF PollType, Pairs
  <2> QED BY <2>1, <2>2 DEF Reinforce
<1>5. together'[<<e, q>>] = together[<<e, q>>] \/ together'[<<e, q>>] = together[<<e, q>>] + 1
  BY <1>3, <1>3a DEF Reinforce, PollType, Pairs
<1>6. \A r \in Episodes : activation[r] <= activation'[r]
  BY <1>1 DEF PollType
<1>7. \A r \in Episodes \ {q} : Covered(r)'
  <2>1. \A r \in Episodes \ {q} : Owed(r)' \subseteq Owed(r)
    BY <1>2 DEF Owed
  <2>2. ASSUME NEW t \in Episodes, NEW r \in Episodes \ {q}
        PROVE  together'[<<t, r>>] <= together[<<t, r>>]
    <3>1. <<t, r>> # <<e, q>>
      OBVIOUS
    <3> QED BY <1>4, <3>1
  <2> QED BY <1>6, <2>1, <2>2, CoveredKept DEF BondInv
<1>8. Covered(q)'
  <2>1. Owed(q)' = Owed(q) \ {e} /\ e \in Owed(q)
    BY <1>1, <1>2, <1>3 DEF Owed
  <2>2. Cardinality(Owed(q)') = Cardinality(Owed(q)) - 1
    BY <1>3a, <2>1, OwedType, FS_RemoveElement
  <2>3. Bonds(q)' = Bonds(q) \/ Bonds(q)' = Bonds(q) + 1
    <3> DEFINE f == [t \in Episodes |-> together[<<t, q>>]]
               g == [t \in Episodes |-> together'[<<t, q>>]]
    <3>1. \A t \in Episodes : f[t] \in Nat /\ (t # e => g[t] = f[t])
      BY <1>4, <1>3a
    <3>2. \E d \in {0, 1} : g[e] = f[e] + d
      BY <1>5, <1>4, <1>3a
    <3>3. Bonds(q) = SumFunctionOnSet(f, Episodes) /\ Bonds(q)' = SumFunctionOnSet(g, Episodes)
      BY <1>3a, BondsSum
    <3> HIDE DEF f, g
    <3>4. PICK d \in {0, 1} : g[e] = f[e] + d
      BY <3>2
    <3>5. SumFunctionOnSet(g, Episodes) = SumFunctionOnSet(f, Episodes) + d
      BY <3>1, <3>4, SumAdds, HebbianAssumption
    <3>6. SumFunctionOnSet(f, Episodes) \in Nat
      BY <3>1, SumType, HebbianAssumption
    <3> QED BY <3>3, <3>5, <3>6
  <2>4. Covered(q) /\ activation'[q] = activation[q] /\ activation[q] \in 0..Cap
    BY <1>1, <1>3a DEF BondInv, PollType
  <2>5. Bonds(q) \in Nat /\ Cardinality(Owed(q)) \in Nat
    BY <1>3a, BondsType, OwedType
  <2> QED BY <2>2, <2>3, <2>4, <2>5, HebbianAssumption DEF Covered
<1>9. /\ \A d \in Episodes : task'[d].todo \subseteq Stored'
      /\ \A d \in Episodes : task'[d].at = "edge" => \E r \in Stored' : task'[d].result = {r}
  BY <1>1, <1>2 DEF BondInv
<1> QED BY <1>7, <1>8, <1>9 DEF BondInv

LEMMA BondTask ==
    ASSUME PollType, PollType', BondInv, NEW e \in Episodes, TaskStep(e)
    PROVE  BondInv'
<1>1. CASE EndTask(e)
  <2>1. Stored' = Stored /\ together' = together /\ activation' = activation
    BY <1>1 DEF EndTask, Stored, bondVars
  <2>2. /\ \A d \in Episodes \ {e} : task'[d] = task[d]
        /\ task[e].at # "edge" /\ task'[e].at # "edge" /\ task'[e].todo = task[e].todo
    BY <1>1 DEF EndTask, PollType, TaskType
  <2>3. \A r \in Episodes : activation[r] <= activation'[r]
    BY <2>1 DEF PollType
  <2>4. task'[e].todo \subseteq Stored'
    BY <2>1, <2>2 DEF BondInv
  <2> QED BY <2>1, <2>2, <2>3, <2>4, BondUntouched
<1> QED BY <1>1, BondSearch, BondActivate, BondResult, BondReinforce DEF TaskStep

\* The cycle, and a crash: the counts only shrink, and tasks owe nothing more.
LEMMA BondOthers ==
    ASSUME PollType, PollType', BondInv, CycleStep \/ Crash \/ UNCHANGED vars
    PROVE  BondInv'
<1>0. \A t, r \in Episodes : <<t, r>> \in Pairs /\ together[<<t, r>>] \in Nat
  BY DEF PollType, Pairs
<1>1. /\ activation' = activation /\ Stored \subseteq Stored'
      /\ \A t, r \in Episodes : together'[<<t, r>>] <= together[<<t, r>>]
  <2>1. CASE CycleStep
    <3>1. CASE FindPriority \/ FindNormal \/ EndGroups
      <4>1. activation' = activation /\ together' = together /\ status' = status
        BY <3>1 DEF FindPriority, FindNormal, EndGroups, bondVars
      <4> QED BY <1>0, <4>1 DEF Stored
    <3>2. ASSUME NEW g \in Groups, ConsolidateGroup(g)
          PROVE  activation' = activation /\ together' = together /\ Stored \subseteq Stored'
      <4>1. PICK T \in SUBSET Episodes, D \in SUBSET Episodes, kept \in SUBSET Episodes,
                 undone \in SUBSET Episodes, failed \in BOOLEAN :
                    Consolidation(g, T, D, kept, undone, failed)
        BY <3>2, ConsolidationOf
      <4>2. Stored \subseteq Stored'
        BY <4>1 DEF Consolidation, Stored
      <4> QED BY <3>2, <4>2 DEF ConsolidateGroup, bondVars
    <3>3. CASE PruneEdges
      <4>1. activation' = activation /\ Stored' = Stored
        BY <3>3 DEF PruneEdges, Stored
      <4>2. together' = together
            \/ together' = [p \in Pairs |-> IF weight[p] = 1 THEN 0 ELSE together[p]]
        BY <3>3 DEF PruneEdges, Prune
      <4>3. ASSUME NEW t \in Episodes, NEW r \in Episodes
            PROVE  together'[<<t, r>>] <= together[<<t, r>>]
        <5>1. <<t, r>> \in Pairs
          BY <1>0
        <5>2. together'[<<t, r>>] = together[<<t, r>>] \/ together'[<<t, r>>] = 0
          BY <4>2, <5>1
        <5>3. together[<<t, r>>] \in Nat
          BY <1>0
        <5> QED BY <5>2, <5>3
      <4> QED BY <4>1, <4>3
    <3> QED BY <1>0, <2>1, <3>1, <3>2, <3>3 DEF CycleStep
  <2>2. CASE Crash
    BY <1>0, <2>2 DEF Crash, bondVars, Stored
  <2>3. CASE UNCHANGED vars
    BY <1>0, <2>3 DEF vars, bondVars, Stored
  <2> QED BY <2>1, <2>2, <2>3
<1>2. \A e \in Episodes :
        task'[e] = task[e] \/ (task'[e].at # "edge" /\ task'[e].todo \subseteq task[e].todo)
  <2>1. CASE task' = task
    BY <2>1
  <2>2. CASE HebbianCrash
    <3> TAKE e \in Episodes
    <3>1. task[e] \in TaskType
      BY DEF PollType
    <3>2. task'[e] = IF task[e].at = "new" THEN task[e]
                     ELSE [task[e] EXCEPT !.at = "done", !.todo = {}, !.result = {}]
      BY <2>2 DEF HebbianCrash
    <3> QED BY <3>1, <3>2 DEF TaskType
  <2>3. task' = task \/ HebbianCrash
    BY DEF CycleStep, FindPriority, FindNormal, ConsolidateGroup, EndGroups, PruneEdges, Crash, vars
  <2> QED BY <2>1, <2>2, <2>3
<1>3. \A r \in Episodes : Owed(r)' \subseteq Owed(r)
  BY <1>2 DEF Owed
<1>4. \A r \in Episodes : activation[r] <= activation'[r]
  BY <1>1 DEF PollType
<1>5. \A r \in Episodes : Covered(r)'
  BY <1>1, <1>3, <1>4, CoveredKept DEF BondInv
<1>6. \A e \in Episodes : task'[e].todo \subseteq Stored'
  BY <1>1, <1>2 DEF BondInv
<1>7. \A e \in Episodes : task'[e].at = "edge" => \E r \in Stored' : task'[e].result = {r}
  BY <1>1, <1>2 DEF BondInv
<1> QED BY <1>5, <1>6, <1>7 DEF BondInv

LEMMA BondInit == Init => BondInv
<1> SUFFICES ASSUME Init PROVE BondInv
  OBVIOUS
<1>1. \A r \in Episodes : Bonds(r) = 0
  <2> TAKE r \in Episodes
  <2> DEFINE f == [t \in Episodes |-> together[<<t, r>>]]
  <2>1. \A t \in Episodes : f[t] = 0
    BY DEF Init, HebbianInit, Pairs
  <2>2. Bonds(r) = SumFunctionOnSet(f, Episodes)
    BY BondsSum
  <2> HIDE DEF f
  <2> QED BY <2>1, <2>2, SumOfZeros, HebbianAssumption
<1>2. \A r \in Episodes : Owed(r) = {} /\ Cardinality(Owed(r)) = 0 /\ activation[r] = 0
  BY FS_EmptySet DEF Init, HebbianInit, Owed
<1> QED BY <1>1, <1>2 DEF Init, HebbianInit, BondInv, Covered

LEMMA BondKept == PollType /\ BondInv /\ [Next]_vars => PollType' /\ BondInv'
<1> SUFFICES ASSUME PollType, BondInv, [Next]_vars PROVE PollType' /\ BondInv'
  OBVIOUS
<1>1. PollType'
  BY TypesKept
<1> QED BY <1>1, BondObservation, BondTask, BondOthers DEF Next

\* Every co-activation was an activation of its result too, whatever fails,
\* however the tasks of observations and the decay of the REM cycle interleave,
\* and wherever the process dies.
THEOREM BondsAreAlwaysEarned == Spec => []BondsWereEarned
<1>1. PollType /\ BondInv => BondsWereEarned
  <2> SUFFICES ASSUME PollType, BondInv, NEW r \in Episodes
               PROVE  activation[r] = Cap \/ Bonds(r) <= activation[r]
    BY DEF BondsWereEarned, Bonds
  <2>1. Covered(r) /\ activation[r] \in Nat
    BY HebbianAssumption DEF BondInv, PollType
  <2> QED BY <2>1, BondsType, OwedType DEF Covered
<1> QED BY <1>1, InitTypes, BondInit, BondKept, PTL DEF Spec

(***************************************************************************)
(* What a cycle leaves behind it.  The timestamp moves only when a cycle   *)
(* ends, so the invariant follows the episodes of its window from the      *)
(* queries to that end: a group that had enough of them is still to be     *)
(* consolidated, or they are no longer pending, or it was too large.       *)
(***************************************************************************)
Asked(g) == {d \in cycle.window : GroupOf[d] = g}

\* What a group has, and had before the cycle took of it.
Whole(g) == PendingIn(g) \cup (cycle.taken \cap {d \in Episodes : GroupOf[d] = g})

\* Neither a LIMIT nor an error hid a group from the cycle.
SawAll == ~ cycle.cut /\ ~ cycle.blind

CycleInv ==
    /\ \A e \in Episodes : task[e].at \in {"new", "store"} => status[e] = "none"
    /\ \A e \in cycle.window : status[e] # "none"
    /\ cycle.at = "normal" =>
          \A e \in cycle.window : status[e] = "pending" /\ lastSweep < stamp[e]
    /\ cycle.at = "normal" /\ SawAll =>
          \A g \in Groups : Cardinality(Asked(g)) >= SweepMin => g \in cycle.priority \cup about
    /\ cycle.at = "groups" /\ SawAll /\ ~ cycle.failed =>
          \A e \in cycle.window : Cardinality(Asked(GroupOf[e])) >= SweepMin =>
              \/ GroupOf[e] \in cycle.priority \cup cycle.normal
              \/ status[e] # "pending"
              \/ e \in cycle.kept
              \/ Cardinality(Whole(GroupOf[e])) > FetchLimit

\* A LIMIT that cuts nothing off returns every candidate.
LEMMA UncutRows ==
    ASSUME NEW n \in Int, ~ (Cardinality(Candidates) > n), NEW T \in Rows(n)
    PROVE  T = Candidates
<1>1. IsFiniteSet(Candidates) /\ Cardinality(Candidates) \in Nat
  BY HebbianAssumption, FS_Subset, FS_CardinalityType DEF Candidates
<1>2. T \in SUBSET Candidates
      /\ Cardinality(T) = IF Cardinality(Candidates) < n THEN Cardinality(Candidates) ELSE n
  BY DEF Rows
<1>3. Cardinality(T) = Cardinality(Candidates)
  BY <1>1, <1>2
<1> QED BY <1>1, <1>2, <1>3, FS_Subset

LEMMA WholeType ==
    ASSUME NEW g \in Groups
    PROVE  IsFiniteSet(PendingIn(g)) /\ IsFiniteSet(Whole(g)) /\ Cardinality(Whole(g)) \in Nat
<1>1. PendingIn(g) \subseteq Episodes /\ Whole(g) \subseteq Episodes
  BY DEF PendingIn, Whole
<1> QED BY <1>1, HebbianAssumption, FS_Subset, FS_CardinalityType

\* A query that no limit cuts and no error spoils returns each candidate it is for.
LEMMA FoundAll ==
    ASSUME PollType, NEW n \in Int, ~ (Cardinality(Candidates) > n), faults' = faults,
           NEW P, Found(FALSE, n, P) \/ Found(TRUE, n, P)
    PROVE  /\ Found(FALSE, n, P) => P = Candidates \ about
           /\ Found(TRUE, n, P) => P = Candidates \cap about
<1>1. ~ Fails
  BY HebbianAssumption DEF Fails, PollType
<1>2. ASSUME NEW T \in Rows(n) PROVE T = Candidates
  BY UncutRows
<1>3. ASSUME Found(FALSE, n, P) PROVE P = Candidates \ about
  <2>1. PICK T \in Rows(n) : P = {g \in T : (g \in about) = FALSE}
    BY <1>1, <1>3 DEF Found
  <2> QED BY <1>2, <2>1
<1>4. ASSUME Found(TRUE, n, P) PROVE P = Candidates \cap about
  <2>1. PICK T \in Rows(n) : P = {g \in T : (g \in about) = TRUE}
    BY <1>1, <1>4 DEF Found
  <2> QED BY <1>2, <2>1
<1> QED BY <1>3, <1>4

\* The episodes go their way; the cycle sees no more of them than before.
LEMMA CycleOthers ==
    ASSUME PollType, PollType', CycleInv, cycle' = cycle, lastSweep' = lastSweep, about' = about,
           \A e \in Episodes : task'[e].at \in {"new", "store"} => status'[e] = "none",
           \A e \in Episodes : status[e] # "none" => status'[e] = status[e] /\ stamp'[e] = stamp[e]
    PROVE  CycleInv'
<1>1. cycle.window \subseteq Episodes
  BY DEF PollType, CycleType
<1>2. \A e \in cycle.window : status'[e] = status[e] /\ stamp'[e] = stamp[e] /\ status'[e] # "none"
  BY <1>1 DEF CycleInv
<1>3. \A g \in Groups : Asked(g)' = Asked(g) /\ Cardinality(Asked(g)') = Cardinality(Asked(g))
  BY DEF Asked
<1>4. ASSUME NEW g \in Groups, Cardinality(Whole(g)) > FetchLimit
      PROVE  Cardinality(Whole(g)') > FetchLimit
  <2>1. Whole(g) \subseteq Whole(g)'
    BY DEF Whole, PendingIn
  <2>2. IsFiniteSet(Whole(g)')
    <3>1. Whole(g)' \subseteq Episodes
      BY DEF Whole, PendingIn
    <3> QED BY <3>1, HebbianAssumption, FS_Subset
  <2>3. Cardinality(Whole(g)) <= Cardinality(Whole(g)')
    BY <2>1, <2>2, FS_Subset
  <2>4. Cardinality(Whole(g)') \in Nat /\ Cardinality(Whole(g)) \in Nat
    BY <2>2, WholeType, FS_CardinalityType
  <2> QED BY <1>4, <2>3, <2>4, PollingAssumption
<1>5. SawAll' = SawAll
  BY DEF SawAll
<1>6. \A e \in cycle.window : GroupOf[e] \in Groups
  BY <1>1, HebbianAssumption
<1>7. cycle'.at = "normal" => \A e \in cycle'.window : status'[e] = "pending" /\ lastSweep' < stamp'[e]
  BY <1>2 DEF CycleInv
<1>8. cycle'.at = "normal" /\ SawAll' =>
        \A g \in Groups : Cardinality(Asked(g)') >= SweepMin => g \in cycle'.priority \cup about'
  BY <1>3, <1>5 DEF CycleInv
<1>9. cycle'.at = "groups" /\ SawAll' /\ ~ cycle'.failed =>
        \A e \in cycle'.window : Cardinality(Asked(GroupOf[e])') >= SweepMin =>
            \/ GroupOf[e] \in cycle'.priority \cup cycle'.normal
            \/ status'[e] # "pending"
            \/ e \in cycle'.kept
            \/ Cardinality(Whole(GroupOf[e])') > FetchLimit
  <2> SUFFICES ASSUME cycle.at = "groups", SawAll, ~ cycle.failed, NEW e \in cycle.window,
                      Cardinality(Asked(GroupOf[e])) >= SweepMin
               PROVE  \/ GroupOf[e] \in cycle.priority \cup cycle.normal
                      \/ status'[e] # "pending"
                      \/ e \in cycle.kept
                      \/ Cardinality(Whole(GroupOf[e])') > FetchLimit
    BY <1>3, <1>5, <1>6
  <2>1. \/ GroupOf[e] \in cycle.priority \cup cycle.normal
        \/ status[e] # "pending"
        \/ e \in cycle.kept
        \/ Cardinality(Whole(GroupOf[e])) > FetchLimit
    BY DEF CycleInv
  <2> QED BY <1>2, <1>4, <1>6, <2>1
<1> QED BY <1>2, <1>7, <1>8, <1>9 DEF CycleInv

LEMMA CycleObservation ==
    ASSUME PollType, PollType', CycleInv,
           NEW e \in Episodes,
           StampEpisode(e) \/ StoreEpisode(e) \/ (TaskStep(e) /\ UNCHANGED pollVars)
    PROVE  CycleInv'
<1>1. cycle' = cycle /\ lastSweep' = lastSweep /\ about' = about
  BY DEF StampEpisode, StoreEpisode, pollVars
<1>2. CASE StampEpisode(e)
  <2>1. status[e] = "none" /\ status' = status /\ \A d \in Episodes \ {e} : stamp'[d] = stamp[d]
    BY <1>2 DEF StampEpisode, CycleInv, PollType
  <2>2. \A d \in Episodes : task'[d].at \in {"new", "store"} => task[d].at \in {"new", "store"}
    BY <1>2 DEF StampEpisode, PollType, TaskType
  <2>3. \A d \in Episodes : task'[d].at \in {"new", "store"} => status'[d] = "none"
    BY <2>1, <2>2 DEF CycleInv
  <2> QED BY <1>1, <2>1, <2>3, CycleOthers
<1>3. CASE StoreEpisode(e)
  <2>1. status[e] = "none" /\ stamp' = stamp /\ \A d \in Episodes \ {e} : status'[d] = status[d]
    BY <1>3 DEF StoreEpisode, CycleInv, PollType, pollVars
  <2>2. \A d \in Episodes : task'[d].at \in {"new", "store"} => d # e /\ task[d].at \in {"new", "store"}
    BY <1>3 DEF StoreEpisode, PollType, TaskType
  <2>3. \A d \in Episodes : task'[d].at \in {"new", "store"} => status'[d] = "none"
    BY <2>1, <2>2 DEF CycleInv
  <2> QED BY <1>1, <2>1, <2>3, CycleOthers
<1>4. CASE TaskStep(e) /\ UNCHANGED pollVars
  <2>1. status' = status /\ stamp' = stamp
    BY <1>4 DEF TaskStep, Search, ActivateTrigger, ActivateResult, Reinforce, EndTask, pollVars
  <2>2. \A d \in Episodes : task'[d].at \in {"new", "store"} => task[d].at \in {"new", "store"}
    <3>1. CASE Search(e)
      <4>1. PICK results \in SUBSET ((Reach[e] \cap Stored) \ {e}) :
            \E first \in FirstOf(results) :
                task' = [task EXCEPT ![e].at = IF results = {} THEN "done" ELSE "trigger",
                                     ![e].todo = first,
                                     ![e].seen = WeightsOf(e, results),
                                     ![e].ready = Bonded(results)]
        BY <3>1 DEF Search
      <4> DEFINE at == IF results = {} THEN "done" ELSE "trigger"
                 seen == WeightsOf(e, results)
                 ready == Bonded(results)
      <4>2. at \notin {"new", "store"}
        OBVIOUS
      <4> HIDE DEF at, seen, ready
      <4>3. PICK first :
              task' = [task EXCEPT ![e].at = at, ![e].todo = first, ![e].seen = seen, ![e].ready = ready]
        BY <4>1 DEF at, seen, ready
      <4> QED BY <4>2, <4>3 DEF PollType, TaskType
    <3>2. CASE ActivateTrigger(e) \/ EndTask(e)
      BY <3>2 DEF ActivateTrigger, EndTask, PollType, TaskType
    <3>3. CASE ActivateResult(e)
      BY <3>3 DEF ActivateResult, PollType, TaskType
    <3>4. CASE Reinforce(e)
      BY <3>4 DEF Reinforce, PollType, TaskType
    <3> QED BY <1>4, <3>1, <3>2, <3>3, <3>4 DEF TaskStep
  <2> QED BY <1>1, <2>1, <2>2, CycleOthers DEF CycleInv
<1> QED BY <1>2, <1>3, <1>4

\* What the first query found, and what it says of each group of the window.
LEMMA CyclePriority ==
    ASSUME PollType, PollType', CycleInv, FindPriority
    PROVE  CycleInv'
<1>1. PICK P \in SUBSET Groups :
        /\ Found(FALSE, BatchSize, P)
        /\ cycle' = [IdleCycle EXCEPT
              !.at = IF Cardinality(P) >= BatchSize THEN "groups" ELSE "normal",
              !.start = clock', !.window = UNION {Window(g) : g \in Groups}, !.priority = P,
              !.cut = Cardinality(Candidates) > BatchSize, !.blind = faults' # faults]
  BY DEF FindPriority
<1>2. /\ cycle'.at = (IF Cardinality(P) >= BatchSize THEN "groups" ELSE "normal")
      /\ cycle'.window = UNION {Window(g) : g \in Groups} /\ cycle'.priority = P
      /\ SawAll' => ~ (Cardinality(Candidates) > BatchSize) /\ faults' = faults
  BY <1>1 DEF IdleCycle, SawAll
<1>3. /\ status' = status /\ stamp' = stamp /\ lastSweep' = lastSweep
      /\ task' = task /\ about' = about
  BY DEF FindPriority
<1>4. \A e \in cycle'.window : status[e] = "pending" /\ lastSweep < stamp[e] /\ GroupOf[e] \in Groups
  BY <1>2, HebbianAssumption DEF Window, PendingIn
<1>5. \A g \in Groups : Asked(g)' = Window(g)
  BY <1>2 DEF Asked, Window, PendingIn
<1>6. ASSUME SawAll' PROVE P = Candidates \ about
  <2>1. faults' = faults /\ ~ (Cardinality(Candidates) > BatchSize)
    BY <1>2, <1>6
  <2>2. BatchSize \in Int
    BY PollingAssumption
  <2> QED BY <1>1, <2>1, <2>2, FoundAll
<1>7. ASSUME SawAll', NEW g \in Groups, Cardinality(Asked(g)') >= SweepMin
      PROVE  g \in P \cup about
  <2>1. g \in Candidates
    BY <1>5, <1>7 DEF Candidates
  <2> QED BY <1>6, <1>7, <2>1
<1>8. ASSUME SawAll', Cardinality(P) >= BatchSize, NEW g \in Groups, Cardinality(Asked(g)') >= SweepMin
      PROVE  g \in P
  <2>1. g \in Candidates
    BY <1>5, <1>8 DEF Candidates
  <2>2. P \subseteq Candidates /\ IsFiniteSet(Candidates) /\ Cardinality(Candidates) \in Nat
    BY <1>6, <1>8, HebbianAssumption, FS_Subset, FS_CardinalityType DEF Candidates
  <2>3. Cardinality(Candidates) <= BatchSize
    BY <1>2, <1>8, <2>2, PollingAssumption
  <2>4. Cardinality(P) <= Cardinality(Candidates) /\ Cardinality(P) \in Nat
    BY <2>2, FS_Subset, FS_CardinalityType
  <2>5. P = Candidates
    BY <1>8, <2>2, <2>3, <2>4, FS_Subset, PollingAssumption
  <2> QED BY <2>1, <2>5
<1>9. \A e \in Episodes : task'[e].at \in {"new", "store"} => status'[e] = "none"
  BY <1>3 DEF CycleInv
<1>10. \A e \in cycle'.window : status'[e] # "none"
  BY <1>3, <1>4
<1>11. \A e \in cycle'.window : status'[e] = "pending" /\ lastSweep' < stamp'[e]
  BY <1>3, <1>4
<1>12. cycle'.at = "normal" /\ SawAll' =>
         \A g \in Groups : Cardinality(Asked(g)') >= SweepMin => g \in cycle'.priority \cup about'
  BY <1>2, <1>3, <1>7
<1>13. cycle'.at = "groups" => Cardinality(P) >= BatchSize
  BY <1>2
<1>14. cycle'.at = "groups" /\ SawAll' =>
         \A e \in cycle'.window : Cardinality(Asked(GroupOf[e])') >= SweepMin =>
             GroupOf[e] \in cycle'.priority \cup cycle'.normal
  BY <1>2, <1>4, <1>8, <1>13
<1> QED BY <1>9, <1>10, <1>11, <1>12, <1>14 DEF CycleInv

\* In the meantime groups have only gained candidates.
LEMMA CycleNormal ==
    ASSUME PollType, PollType', CycleInv, FindNormal
    PROVE  CycleInv'
<1> DEFINE n == BatchSize - Cardinality(cycle.priority)
<1>1. PICK N \in SUBSET Groups :
        /\ Found(TRUE, n, N)
        /\ cycle' = [cycle EXCEPT !.at = "groups", !.normal = N,
              !.cut = @ \/ Cardinality(Candidates) > n, !.blind = @ \/ faults' # faults]
  BY DEF FindNormal
<1>2. n \in Int
  <2>1. IsFiniteSet(cycle.priority)
    BY HebbianAssumption, FS_Subset DEF PollType, CycleType
  <2> QED BY <2>1, FS_CardinalityType, PollingAssumption
<1> HIDE DEF n
<1>3. /\ cycle'.at = "groups" /\ cycle'.window = cycle.window /\ cycle'.priority = cycle.priority
      /\ cycle'.normal = N
      /\ SawAll' => SawAll /\ ~ (Cardinality(Candidates) > n) /\ faults' = faults
  BY <1>1 DEF PollType, CycleType, SawAll
<1>4. /\ status' = status /\ stamp' = stamp /\ lastSweep' = lastSweep
      /\ task' = task /\ about' = about /\ cycle.at = "normal"
  BY DEF FindNormal
<1>5. cycle.window \subseteq Episodes
  BY DEF PollType, CycleType
<1>6. ASSUME SawAll', NEW g \in Groups, Cardinality(Asked(g)') >= SweepMin
      PROVE  g \in cycle'.priority \cup cycle'.normal
  <2>1. SawAll /\ faults' = faults /\ ~ (Cardinality(Candidates) > n)
    BY <1>3, <1>6
  <2>2. N = Candidates \cap about
    BY <1>1, <1>2, <2>1, FoundAll
  <2>3. Asked(g)' = Asked(g)
    BY <1>3 DEF Asked
  <2>4. g \in cycle.priority \cup about
    BY <1>4, <1>6, <2>1, <2>3 DEF CycleInv
  <2>5. Asked(g) \subseteq Window(g)
    BY <1>4, <1>5 DEF Asked, Window, PendingIn, CycleInv
  <2>6. IsFiniteSet(Window(g))
    <3>1. Window(g) \subseteq Episodes
      BY DEF Window, PendingIn
    <3> QED BY <3>1, HebbianAssumption, FS_Subset
  <2>7. Cardinality(Asked(g)) <= Cardinality(Window(g))
        /\ Cardinality(Asked(g)) \in Nat /\ Cardinality(Window(g)) \in Nat
    BY <2>5, <2>6, FS_Subset, FS_CardinalityType
  <2>8. g \in Candidates
    BY <1>6, <2>3, <2>7, PollingAssumption DEF Candidates
  <2> QED BY <1>3, <2>2, <2>4, <2>8
<1>7. \A e \in cycle'.window : GroupOf[e] \in Groups
  BY <1>3, <1>5, HebbianAssumption
<1>8. \A e \in Episodes : task'[e].at \in {"new", "store"} => status'[e] = "none"
  BY <1>4 DEF CycleInv
<1>9. \A e \in cycle'.window : status'[e] # "none"
  BY <1>3, <1>4 DEF CycleInv
<1> QED BY <1>3, <1>6, <1>7, <1>8, <1>9 DEF CycleInv

\* A group is taken from the list when it is consolidated: all of it, or a full
\* batch of a group that is larger.
LEMMA CycleGroup ==
    ASSUME PollType, PollType', CycleInv, NEW h \in Groups, ConsolidateGroup(h)
    PROVE  CycleInv'
<1>1. /\ cycle.at = "groups" /\ cycle'.at = "groups" /\ cycle'.window = cycle.window
      /\ cycle'.priority = cycle.priority \ {h} /\ cycle'.normal = cycle.normal \ {h}
      /\ SawAll' = SawAll
  <2>1. PICK T \in SUBSET Episodes, D \in SUBSET Episodes, kept \in SUBSET Episodes,
             undone \in SUBSET Episodes, failed \in BOOLEAN :
             Consolidation(h, T, D, kept, undone, failed)
    BY ConsolidationOf
  <2> QED BY <2>1 DEF Consolidation, ConsolidateGroup, PollType, CycleType, SawAll
<1>2. lastSweep' = lastSweep /\ stamp' = stamp /\ task' = task
  BY DEF ConsolidateGroup
<1>3. cycle.window \subseteq Episodes /\ \A e \in cycle.window : GroupOf[e] \in Groups
  BY HebbianAssumption DEF PollType, CycleType
<1>6. PICK T \in SUBSET Episodes, D \in SUBSET Episodes, kept \in SUBSET Episodes,
           undone \in SUBSET Episodes, failed \in BOOLEAN :
              Consolidation(h, T, D, kept, undone, failed)
  BY ConsolidationOf
<1>7. /\ cycle'.taken = cycle.taken \cup (T \ (kept \cup undone))
      /\ cycle'.kept = cycle.kept \cup kept
      /\ cycle'.failed = (cycle.failed \/ failed)
  BY <1>6 DEF Consolidation, PollType, CycleType
<1>8. \A e \in Episodes : status'[e] = status[e]
         \/ (e \in T \ (kept \cup undone) /\ status'[e] \in {"consolidated", "duplicate"})
  BY <1>6 DEF Consolidation
<1>9. T \subseteq PendingIn(h)
      /\ Cardinality(T) = (IF Cardinality(PendingIn(h)) < FetchLimit
                           THEN Cardinality(PendingIn(h)) ELSE FetchLimit)
  BY <1>6 DEF Consolidation, Oldest
<1>10. \A e \in Episodes : task'[e].at \in {"new", "store"} => status'[e] = "none"
  BY <1>2, <1>8, <1>9 DEF CycleInv, PendingIn
<1>11. \A e \in cycle'.window : status'[e] # "none"
  BY <1>1, <1>3, <1>8 DEF CycleInv
<1>4. CASE failed
  BY <1>1, <1>4, <1>7, <1>10, <1>11 DEF CycleInv
<1>5. CASE ~ failed
  <2>1. undone = {}
    BY <1>5, <1>6 DEF Consolidation
  <2>2. cycle'.taken = cycle.taken \cup (T \ kept) /\ (cycle'.failed <=> cycle.failed)
    BY <1>5, <1>7, <2>1
  <2>3. \A g \in Groups : Asked(g)' = Asked(g) /\ Cardinality(Asked(g)') = Cardinality(Asked(g))
    BY <1>1 DEF Asked
  <2>4. \A e \in Episodes : status'[e] = status[e] \/ (e \in T \ kept /\ status'[e] # "pending")
    BY <1>8, <2>1
  <2>5. \A g \in Groups : Whole(g) \subseteq Whole(g)'
    <3> SUFFICES ASSUME NEW g \in Groups, NEW e \in Whole(g) PROVE e \in Whole(g)'
      OBVIOUS
    <3>1. e \in Episodes /\ GroupOf[e] = g
      BY DEF Whole, PendingIn
    <3>2. CASE e \in T \ kept
      BY <2>2, <3>1, <3>2 DEF Whole
    <3>3. CASE e \notin T \ kept
      <4>1. status'[e] = status[e]
        BY <2>4, <3>1, <3>3
      <4> QED BY <2>2, <3>1, <4>1 DEF Whole, PendingIn
    <3> QED BY <3>2, <3>3
  <2>6. \A g \in Groups : /\ IsFiniteSet(Whole(g)') /\ Cardinality(Whole(g)') \in Nat
                          /\ Cardinality(Whole(g)) <= Cardinality(Whole(g)')
                          /\ Cardinality(Whole(g)) \in Nat
    <3> TAKE g \in Groups
    <3>1. Whole(g)' \subseteq Episodes
      BY DEF Whole, PendingIn
    <3>2. IsFiniteSet(Whole(g)')
      BY <3>1, HebbianAssumption, FS_Subset
    <3> QED BY <2>5, <3>2, WholeType, FS_Subset, FS_CardinalityType
  <2>7. ASSUME NEW e \in cycle.window, GroupOf[e] = h, status'[e] = "pending", e \notin kept
        PROVE  Cardinality(Whole(h)') > FetchLimit
    <3>1. e \in PendingIn(h) /\ e \notin T
      <4>1. e \in Episodes
        BY <1>3
      <4>2. e \notin T
        <5>1. e \in T => status'[e] # "pending"
          BY <1>6, <2>1, <2>7, <4>1 DEF Consolidation
        <5> QED BY <2>7, <5>1
      <4>3. status[e] = "pending"
        BY <2>4, <2>7, <4>1, <4>2
      <4> QED BY <2>7, <4>1, <4>2, <4>3 DEF PendingIn
    <3>2. Cardinality(PendingIn(h)) \in Nat /\ Cardinality(T) # Cardinality(PendingIn(h))
      BY <1>9, <3>1, WholeType, FS_Subset, FS_CardinalityType
    <3>3. Cardinality(T) = FetchLimit
      BY <1>9, <3>2
    <3>4. Cardinality(T) <= Cardinality(PendingIn(h))
      BY <1>9, WholeType, FS_Subset
    <3>5. Cardinality(PendingIn(h)) <= Cardinality(Whole(h))
      BY WholeType, FS_Subset DEF Whole
    <3>6. Cardinality(Whole(h)) <= Cardinality(Whole(h)')
      BY <2>6
    <3> QED BY <2>6, <3>2, <3>3, <3>4, <3>5, <3>6, PollingAssumption
  <2>8. ASSUME SawAll, ~ cycle.failed, NEW e \in cycle.window,
               Cardinality(Asked(GroupOf[e])) >= SweepMin
        PROVE  \/ GroupOf[e] \in cycle'.priority \cup cycle'.normal
               \/ status'[e] # "pending"
               \/ e \in cycle'.kept
               \/ Cardinality(Whole(GroupOf[e])') > FetchLimit
    <3>1. CASE GroupOf[e] = h
      BY <1>7, <2>7, <3>1
    <3>2. CASE GroupOf[e] # h
      <4>1. \/ GroupOf[e] \in cycle.priority \cup cycle.normal
            \/ status[e] # "pending"
            \/ e \in cycle.kept
            \/ Cardinality(Whole(GroupOf[e])) > FetchLimit
        BY <1>1, <2>8 DEF CycleInv
      <4>2. status[e] # "pending" => status'[e] # "pending"
        BY <1>3, <2>4
      <4>3. Cardinality(Whole(GroupOf[e])) > FetchLimit => Cardinality(Whole(GroupOf[e])') > FetchLimit
        BY <1>3, <2>6, PollingAssumption
      <4> QED BY <1>1, <1>7, <3>2, <4>1, <4>2, <4>3
    <3> QED BY <3>1, <3>2
  <2>9. cycle'.at = "groups" /\ SawAll' /\ ~ cycle'.failed =>
           \A e \in cycle'.window : Cardinality(Asked(GroupOf[e])') >= SweepMin =>
               \/ GroupOf[e] \in cycle'.priority \cup cycle'.normal
               \/ status'[e] # "pending"
               \/ e \in cycle'.kept
               \/ Cardinality(Whole(GroupOf[e])') > FetchLimit
    BY <1>1, <1>3, <2>2, <2>3, <2>8
  <2> QED BY <1>1, <1>10, <1>11, <2>9 DEF CycleInv
<1> QED BY <1>4, <1>5

\* The cycle is over, pruned, or lost in a crash.
LEMMA CycleEnds ==
    ASSUME PollType, PollType', CycleInv, EndGroups \/ PruneEdges \/ Crash
    PROVE  CycleInv'
<1>1. cycle'.at \in {"idle", "prune"} /\ cycle'.window = {} /\ status' = status
  BY DEF EndGroups, PruneEdges, Crash, IdleCycle
<1>2. \A e \in Episodes : task'[e].at \in {"new", "store"} => task[e].at \in {"new", "store"}
  <2>1. CASE task' = task
    BY <2>1
  <2>2. CASE HebbianCrash
    <3> TAKE e \in Episodes
    <3>1. task[e] \in TaskType
      BY DEF PollType
    <3>2. task'[e] = IF task[e].at = "new" THEN task[e]
                     ELSE [task[e] EXCEPT !.at = "done", !.todo = {}, !.result = {}]
      BY <2>2 DEF HebbianCrash
    <3> QED BY <3>1, <3>2 DEF TaskType
  <2> QED BY <2>1, <2>2 DEF EndGroups, PruneEdges, Crash
<1> QED BY <1>1, <1>2 DEF CycleInv

LEMMA CycleInit == Init => CycleInv
BY DEF Init, HebbianInit, IdleCycle, CycleInv

LEMMA CycleKept == PollType /\ CycleInv /\ [Next]_vars => CycleInv'
<1> SUFFICES ASSUME PollType, CycleInv, [Next]_vars PROVE CycleInv'
  OBVIOUS
<1>1. PollType'
  BY TypesKept
<1>2. CASE UNCHANGED vars
  <2>1. /\ cycle' = cycle /\ lastSweep' = lastSweep /\ about' = about
        /\ status' = status /\ stamp' = stamp /\ task' = task
    BY <1>2 DEF vars, pollVars
  <2> QED BY <1>1, <2>1, CycleOthers DEF CycleInv
<1> QED BY <1>1, <1>2, CycleObservation, CyclePriority, CycleNormal, CycleGroup, CycleEnds
        DEF Next, CycleStep

\* What the end of a cycle puts behind the worker.
LEMMA EndExcuses ==
    ASSUME PollType, CycleInv, EndGroups, NEW e \in PassedOver
    PROVE  Excused(e) \/ cycle.blind \/ e \in cycle.kept
<1>1. lastSweep' # lastSweep /\ status[e] = "pending" /\ e \in Episodes
  BY DEF PassedOver, PollType
<1>2. ~ cycle.failed
  BY <1>1 DEF EndGroups, SweepTimestamp
<1>3. SUFFICES ASSUME ~ cycle.blind, ~ cycle.cut, e \in cycle.window, e \notin cycle.kept,
                      ~ (Cardinality(Asked(GroupOf[e])) < SweepMin)
               PROVE  Cardinality(Whole(GroupOf[e])) > FetchLimit
  BY DEF Excused, Asked, Whole
<1>4. Cardinality(Asked(GroupOf[e])) >= SweepMin
  <2>1. IsFiniteSet(Asked(GroupOf[e]))
    <3>1. Asked(GroupOf[e]) \subseteq Episodes
      BY DEF Asked, PollType, CycleType
    <3> QED BY <3>1, HebbianAssumption, FS_Subset
  <2> QED BY <1>3, <2>1, FS_CardinalityType, PollingAssumption
<1> QED BY <1>1, <1>2, <1>3, <1>4 DEF CycleInv, SawAll, EndGroups

\* An episode the worker has put behind it unconsolidated came too late, or its group
\* was too small, too large or behind the LIMIT of a query, or a query for the groups
\* or the mark of the duplicates failed in that cycle, both of which are only logged:
\* a consolidation that raises, or that the process died in, is tried again.
THEOREM FailuresAreAlwaysRetried == Spec => FailuresAreRetried
<1>1. ASSUME PollType, CycleInv, [Next]_vars, NEW e \in PassedOver
      PROVE  Excused(e) \/ cycle.blind \/ e \in cycle.kept
  <2>1. lastSweep < lastSweep' /\ lastSweep \in Nat /\ lastSweep' \in Nat
    <3>1. lastSweep' \in Nat
      BY <1>1, TypesKept DEF PollType
    <3> QED BY <3>1, <1>1 DEF PassedOver, PollType
  <2>2. lastSweep' = lastSweep \/ lastSweep' = 0 \/ EndGroups
    BY <1>1 DEF Next, StampEpisode, StoreEpisode, CycleStep, FindPriority, FindNormal,
                ConsolidateGroup, PruneEdges, Crash, pollVars, vars
  <2> QED BY <1>1, <2>1, <2>2, EndExcuses
<1>2. PollType /\ CycleInv /\ [Next]_vars => [\A e \in PassedOver : Excused(e) \/ cycle.blind \/ e \in cycle.kept]_vars
  BY <1>1
<1> QED BY <1>2, InitTypes, CycleInit, TypesKept, CycleKept, PTL DEF Spec, FailuresAreRetried
===============================================================================
