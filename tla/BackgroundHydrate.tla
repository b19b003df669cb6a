--------------------------- MODULE BackgroundHydrate ---------------------------
(***************************************************************************)
(* The background task of observe (services/observe.py): it stores the     *)
(* episode, then, if one of the hydration slots is free, extracts          *)
(* knowledge, sets the knowledge_extracted flag and hydrates the session.  *)
(***************************************************************************)
EXTENDS EpisodeStore

CONSTANT HydrateSlots   \* initial value of _HYDRATE_SEMAPHORE

ASSUME HydrateAssumption == HydrateSlots \in Nat

VARIABLES hyd,     \* program counter of the task of each episode
          slots    \* _HYDRATE_SEMAPHORE._value

hydrateVars == <<hyd, slots>>

HydratePC == {"new", "gate", "extract", "flag", "tail", "done"}

HoldsSlot == {"extract", "flag", "tail"}

HydrateTypeOK ==
    /\ hyd \in [Episodes -> HydratePC]
    /\ slots \in Nat

HydrateInit ==
    /\ hyd = [e \in Episodes |-> "new"]
    /\ slots = HydrateSlots

\* 1. Store in FalkorDB.  A failure is logged and the task goes on; without
\* the node nothing is published.
HydrateStore(e) ==
    /\ hyd[e] = "new"
    /\ hyd' = [hyd EXCEPT ![e] = "gate"]
    /\ \/ /\ Succeeds
          /\ status' = [status EXCEPT ![e] = "pending"]
          /\ stream' = [stream EXCEPT ![e] = "publishing"]
       \/ /\ Fails
          /\ UNCHANGED <<status, stream>>
    /\ UNCHANGED <<slots, extracted, duplicateOf, summarised, history>>

\* Mutant: a task without a slot runs the finally clause all the same.
HydrateGateBug(e) ==
    /\ hyd[e] = "gate"
    /\ \/ /\ slots > 0
          /\ slots' = slots - 1
          /\ hyd' = [hyd EXCEPT ![e] = "extract"]
       \/ /\ slots = 0
          /\ hyd' = [hyd EXCEPT ![e] = "tail"]
          /\ UNCHANGED slots
    /\ UNCHANGED storeVars

\* _try_acquire_hydrate_slot: without a slot the task returns here.
HydrateGate(e) ==
    /\ hyd[e] = "gate"
    /\ \/ /\ slots > 0
          /\ slots' = slots - 1
          /\ hyd' = [hyd EXCEPT ![e] = "extract"]
       \/ /\ slots = 0
          /\ hyd' = [hyd EXCEPT ![e] = "done"]
          /\ UNCHANGED slots
    /\ UNCHANGED storeVars

\* 1b. Extract and store knowledge.  Only a non-empty result is stored; a
\* failure, or extraction switched off, leaves the flag unset.
HydrateExtract(e) ==
    /\ hyd[e] = "extract"
    /\ \/ /\ harvested' = harvested \cup {e}
          /\ hyd' = [hyd EXCEPT ![e] = "flag"]
       \/ /\ hyd' = [hyd EXCEPT ![e] = "tail"]
          /\ UNCHANGED harvested
    /\ UNCHANGED <<slots, graphVars, stream, faults, curated>>

\* SET e.knowledge_extracted = true, on the node if it exists.
HydrateFlag(e) ==
    /\ hyd[e] = "flag"
    /\ hyd' = [hyd EXCEPT ![e] = "tail"]
    /\ \/ /\ Succeeds
          /\ extracted' = extracted \cup {d \in {e} : status[d] # "absent"}
       \/ /\ Fails
          /\ UNCHANGED extracted
    /\ UNCHANGED <<slots, status, duplicateOf, summarised, stream, history>>

\* 2-4. Hydration, Hebbian reinforcement and judge, then the finally clause.
HydrateFinish(e) ==
    /\ hyd[e] = "tail"
    /\ hyd' = [hyd EXCEPT ![e] = "done"]
    /\ slots' = slots + 1
    /\ UNCHANGED storeVars

HydrateStep(e) ==
    \/ HydrateStore(e)
    \/ HydrateGate(e)
    \/ HydrateExtract(e)
    \/ HydrateFlag(e)
    \/ HydrateFinish(e)
    \/ episode_stored(e) /\ UNCHANGED hydrateVars

\* The process dies: running tasks are gone and the semaphore is rebuilt.
\* A task that had not stored its episode leaves no trace.
HydrateCrash ==
    /\ hyd' = [e \in Episodes |-> IF hyd[e] = "new" THEN "new" ELSE "done"]
    /\ slots' = HydrateSlots
===============================================================================
