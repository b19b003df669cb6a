--------------------------- MODULE CurationPipeline ---------------------------
(***************************************************************************)
(* MemoryService.run_curation with a workflow engine: WorkflowEngine walks *)
(* the curation workflow, runs the sync stages itself and publishes the    *)
(* async ones for the pipeline workers; then run_curation writes what the  *)
(* sync stages returned.  Every part of it may fail and is only logged.    *)
(***************************************************************************)
EXTENDS PipelineWorkers

CONSTANT Curations     \* calls of run_curation

\* What the calls may publish; the fast queue is not for them.
CurationTraffic == {"artifacts", "causals", "normal"} \X Curations

ASSUME CurationsAssumption ==
    /\ Curations \subseteq Ids
    /\ Queues = AllQueues
    /\ CurationTraffic \subseteq Traffic

VARIABLES call,        \* each call: program counter and local variables
          stored,      \* calls whose reflection is stored as an episode
          known        \* calls whose knowledge entries are stored

callVars == <<call, stored, known>>

vars == <<pipeVars, callVars>>

\* curation_workflow() in topological order.
Stages == <<"reflection", "knowledge", "artifacts", "causals", "ontology">>

SyncStages == {"reflection", "knowledge"}

DependsOn == [s \in {Stages[i] : i \in DOMAIN Stages} |->
                CASE s = "reflection" -> {}
                  [] s = "knowledge" -> {"reflection"}
                  [] OTHER -> {"knowledge"}]

\* The subject a stage is published on, by the worker that takes it.
SubjectOf(s) == IF s = "ontology" THEN "normal" ELSE s

\* "stage" walks the workflow; the others are the writes of run_curation.
CallPC == {"new", "stage", "reflection", "knowledge", "compress", "done", "dead"}

Call == [pc : CallPC,
         next : 1..(Len(Stages) + 1),       \* the next stage
         results : SUBSET SyncStages,       \* results of execute
         empty : SUBSET SyncStages]         \* the ones with nothing to store

NewCall == [pc |-> "new", next |-> 1, results |-> {}, empty |-> {}]

Init ==
    /\ PipeInit
    /\ call = [c \in Curations |-> NewCall]
    /\ stored = {}
    /\ known = {}

Begin(c) ==
    /\ call[c].pc = "new"
    /\ call' = [call EXCEPT ![c].pc = "stage"]
    /\ UNCHANGED <<pipeVars, stored, known>>

Stage(c) == Stages[call[c].next]

InStage(c) == call[c].pc = "stage" /\ call[c].next <= Len(Stages)

\* A sync stage: a result, a result with nothing in it (the handler caught an
\* error, or found nothing), or a timeout and no result at all.
RunSync(c) ==
    /\ InStage(c) /\ Stage(c) \in SyncStages
    /\ \E results, empty \in SUBSET {Stage(c)} :
          /\ empty \subseteq results
          /\ call' = [call EXCEPT ![c].next = @ + 1, ![c].results = @ \cup results,
                                  ![c].empty = @ \cup empty]
    /\ UNCHANGED <<pipeVars, stored, known>>

\* Mutant: a publish that seemed to fail is tried again.
QueueAsyncRetry(c) ==
    /\ InStage(c) /\ Stage(c) \notin SyncStages
    /\ \/ Works /\ call' = [call EXCEPT ![c].next = @ + 1]
       \/ Fault /\ UNCHANGED call
    /\ Publish(SubjectOf(Stage(c)), c)
    /\ UNCHANGED <<workerVars, stored, known>>

\* Mutant: a stage is dropped when a stage it depends on gave no result.
QueueAsyncStrict(c) ==
    /\ InStage(c) /\ Stage(c) \notin SyncStages
    /\ call' = [call EXCEPT ![c].next = @ + 1]
    /\ \/ Works /\ IF DependsOn[Stage(c)] \subseteq call[c].results
                    THEN Publish(SubjectOf(Stage(c)), c) ELSE UNCHANGED queueVars
       \/ Fault /\ UNCHANGED queueVars
    /\ UNCHANGED <<workerVars, stored, known>>

\* _queue_async: a failed publish is logged, and the stage is lost.
QueueAsync(c) ==
    /\ InStage(c) /\ Stage(c) \notin SyncStages
    /\ call' = [call EXCEPT ![c].next = @ + 1]
    /\ \/ Works /\ Publish(SubjectOf(Stage(c)), c)
       \/ Fault /\ UNCHANGED queueVars
    /\ UNCHANGED <<workerVars, stored, known>>

\* Mutant: a call without a reflection stops after the workflow.
EndWorkflowBug(c) ==
    /\ call[c].pc = "stage" /\ ~ InStage(c)
    /\ "reflection" \in call[c].results
    /\ call' = [call EXCEPT ![c].pc = "reflection"]
    /\ UNCHANGED <<pipeVars, stored, known>>

\* execute returns.
EndWorkflow(c) ==
    /\ call[c].pc = "stage" /\ ~ InStage(c)
    /\ call' = [call EXCEPT ![c].pc = "reflection"]
    /\ UNCHANGED <<pipeVars, stored, known>>

\* The stage returned something that is worth storing.
HasResult(c, s) == s \in call[c].results \ call[c].empty

\* Steps 2 and 2b: store the sections, and link the reflection to its sources.
StoreReflection(c) ==
    /\ call[c].pc = "reflection"
    /\ call' = [call EXCEPT ![c].pc = "knowledge"]
    /\ \/ /\ Works
          /\ stored' = stored \cup {d \in {c} : HasResult(d, "reflection")}
       \/ Fault /\ UNCHANGED stored
    /\ UNCHANGED <<queueVars, workerVars, known>>

\* Mutant: what to store is not looked at.
StoreKnowledgeBug(c) ==
    /\ call[c].pc = "knowledge"
    /\ call' = [call EXCEPT ![c].pc = "compress"]
    /\ \/ Works /\ known' = known \cup {c}
       \/ Fault /\ UNCHANGED known
    /\ UNCHANGED <<queueVars, workerVars, stored>>

\* Step 4.
StoreKnowledge(c) ==
    /\ call[c].pc = "knowledge"
    /\ call' = [call EXCEPT ![c].pc = "compress"]
    /\ \/ /\ Works
          /\ known' = known \cup {d \in {c} : HasResult(d, "knowledge")}
       \/ Fault /\ UNCHANGED known
    /\ UNCHANGED <<queueVars, workerVars, stored>>

\* Step 7: compress old events, whatever comes of it; then return.
Return(c) ==
    /\ call[c].pc = "compress"
    /\ call' = [call EXCEPT ![c].pc = "done"]
    /\ UNCHANGED <<pipeVars, stored, known>>

CallStep(c) ==
    \/ Begin(c)
    \/ RunSync(c)
    \/ QueueAsync(c)
    \/ EndWorkflow(c)
    \/ StoreReflection(c)
    \/ StoreKnowledge(c)
    \/ Return(c)

\* The process dies and is restarted; the calls it was running are gone.
Crash ==
    /\ Fault
    /\ PipeCrash
    /\ call' = [c \in Curations |->
                  IF call[c].pc \in {"new", "done"} THEN call[c]
                  ELSE [call[c] EXCEPT !.pc = "dead"]]
    /\ UNCHANGED <<stored, known>>

Next ==
    \/ \E c \in Curations : CallStep(c)
    \/ \E w \in Workers : WorkerStep(w) /\ UNCHANGED callVars
    \/ \E q \in Queues : (AckWait(q) \/ Discard(q)) /\ UNCHANGED callVars
    \/ Crash

Spec == Init /\ [][Next]_vars

\* As for the workers; a call, once made, runs on.
FairSpec ==
    /\ Spec
    /\ \A c \in Curations : WF_vars(CallStep(c))
    /\ \A w \in Workers : WF_vars(WorkerStep(w) /\ UNCHANGED callVars)
    /\ \A q \in Queues : WF_vars(AckWait(q) /\ UNCHANGED callVars)

(***************************************************************************)
(* Properties.                                                             *)
(***************************************************************************)

\* The program counters and variables of the calls; and what a call has stored
\* is the result of a stage that returned one, of a walk that has ended.
CallTypeOK ==
    /\ call \in [Curations -> Call]
    /\ stored \subseteq {c \in Curations : HasResult(c, "reflection")}
    /\ known \subseteq {c \in Curations : HasResult(c, "knowledge")}
    /\ \A c \in stored \cup known : call[c].next > Len(Stages)

\* Whatever fails in a call of run_curation, it publishes each async stage at
\* most once and leaves the workers as the workers' own specification allows:
\* what holds of PipeSpec holds of the whole pipeline.
ImplementsPipe == PipeSpec

\* Why it does: a call that has not come to a stage has not published it.
PublishedInOrder ==
    \A c \in Curations : \A i \in call[c].next..Len(Stages) :
        Stages[i] \notin SyncStages => c \notin Elements(published[SubjectOf(Stages[i])])

\* run_curation waits for nothing but its own timeouts: every call returns,
\* however the stages, the stream and the workers fare.
CallsReturn == \A c \in Curations : call[c].pc = "stage" ~> call[c].pc \in {"done", "dead"}

\* The async stages do not depend on how the sync ones fared: unless a call of
\* the stream fails, the process dies, or the stage waits until the limits of the
\* stream take it, a worker handles each of them.
StagesReachWorkers ==
    \A c \in Curations :
        call[c].pc = "done" ~> \/ faults > 0
                               \/ \A q \in {"artifacts", "causals", "normal"} :
                                     c \in Elements(handled[q]) \/ <<q, c>> \in discarded
===============================================================================
