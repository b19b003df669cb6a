---------------------------- MODULE PipelineWorkers ----------------------------
(***************************************************************************)
(* workers/pipeline_worker.py: the workers of the PIPELINES stream.  Each  *)
(* queue has one durable pull consumer with max_deliver and                *)
(* max_ack_pending=1.  The AsyncWorkers take one queue each; the           *)
(* PriorityAsyncWorker of the ontology takes the fast and the normal one.  *)
(*                                                                         *)
(* A message is the identity of the curation (or of the fast request) that *)
(* published it; its payload plays no part here.                           *)
(***************************************************************************)
EXTENDS Naturals, Sequences, FiniteSets

CONSTANTS Ids,         \* identities of messages
          Queues,      \* the queues of the instance, among AllQueues
          Traffic,     \* the pairs <<queue, message>> that may be published
          MaxDeliver,  \* max_deliver of the consumers
          MaxFaults,   \* bound: failed calls and crashes in one behaviour
          MaxDiscards  \* bound: messages the limits of the stream take

AllQueues == {"artifacts", "causals", "fast", "normal"}

\* The AsyncWorkers have a queue each, the PriorityAsyncWorker has two.
WorkerOf(q) == IF q \in {"fast", "normal"} THEN "ontology" ELSE q

ASSUME PipelineAssumption ==
    /\ MaxDeliver \in Nat \ {0}
    /\ MaxFaults \in Nat
    /\ MaxDiscards \in Nat
    /\ Queues \subseteq AllQueues
    /\ "fast" \in Queues <=> "normal" \in Queues
    /\ Traffic \in SUBSET (Queues \X Ids)

VARIABLES queue,       \* undelivered and unacknowledged messages, oldest first
          inflight,    \* queues whose first message is delivered, not acknowledged
          deliveries,  \* deliveries of each message
          worker,      \* what each worker holds
          look,        \* which queue the PriorityAsyncWorker tries next
          faults,      \* failures so far
          published,   \* history: the messages of each queue, in order
          discarded,   \* history: what the limits of the stream took, and from where
          handled      \* history: finished handler calls of each queue, in order

queueVars  == <<queue, inflight, deliveries, published, discarded>>
workerVars == <<worker, look, handled>>
pipeVars   == <<queueVars, workerVars, faults>>

Workers == {WorkerOf(q) : q \in Queues}

Idle == [pc |-> "idle"]

Busy == [pc : {"handle", "ack"}, queue : Queues, msg : Ids]

TypeOK ==
    /\ queue \in [Queues -> Seq(Ids)]
    /\ inflight \in SUBSET Queues
    /\ deliveries \in [Queues -> [Ids -> 0..MaxDeliver]]
    /\ worker \in [Workers -> Busy \cup {Idle}]
    /\ look \in {"fast", "normal"}
    /\ faults \in 0..MaxFaults
    /\ published \in [Queues -> Seq(Ids)]
    /\ discarded \in SUBSET (Queues \X Ids)
    /\ handled \in [Queues -> Seq(Ids)]

PipeInit ==
    /\ queue = [q \in Queues |-> << >>]
    /\ inflight = {}
    /\ deliveries = [q \in Queues |-> [m \in Ids |-> 0]]
    /\ worker = [w \in Workers |-> Idle]
    /\ look = "fast"
    /\ faults = 0
    /\ published = [q \in Queues |-> << >>]
    /\ discarded = {}
    /\ handled = [q \in Queues |-> << >>]

Works == UNCHANGED faults

Fault == faults < MaxFaults /\ faults' = faults + 1

(***************************************************************************)
(* JetStream, as the workers use it.                                       *)
(***************************************************************************)
Publish(q, m) ==
    /\ queue' = [queue EXCEPT ![q] = Append(@, m)]
    /\ published' = [published EXCEPT ![q] = Append(@, m)]
    /\ UNCHANGED <<inflight, deliveries, discarded>>

\* With max_ack_pending=1 nothing more is delivered while a message is unacked.
Deliverable(q) == queue[q] # << >> /\ q \notin inflight

Deliver(q) ==
    /\ Deliverable(q)
    /\ inflight' = inflight \cup {q}
    /\ deliveries' = [deliveries EXCEPT ![q][Head(queue[q])] = @ + 1]
    /\ UNCHANGED <<queue, published, discarded>>

IsPending(q, m) == queue[q] # << >> /\ Head(queue[q]) = m

\* Mutant: a message that was not acknowledged goes to the end of its queue.
RequeueBug(q) ==
    /\ inflight' = inflight \ {q}
    /\ queue' = [queue EXCEPT ![q] = IF deliveries[q][Head(@)] < MaxDeliver
                                     THEN Append(Tail(@), Head(@)) ELSE Tail(@)]
    /\ UNCHANGED <<deliveries, published, discarded>>

\* Mutant: no max_deliver; a message goes back as often as it takes.
RequeueForever(q) ==
    /\ inflight' = inflight \ {q}
    /\ UNCHANGED <<queue, deliveries, published, discarded>>

\* The first message goes back, or is given up when it has no deliveries left.
Requeue(q) ==
    /\ inflight' = inflight \ {q}
    /\ queue' = [queue EXCEPT ![q] = IF deliveries[q][Head(@)] < MaxDeliver
                                     THEN @ ELSE Tail(@)]
    /\ UNCHANGED <<deliveries, published, discarded>>

Remove(q) ==
    /\ inflight' = inflight \ {q}
    /\ queue' = [queue EXCEPT ![q] = Tail(@)]
    /\ UNCHANGED <<deliveries, published, discarded>>

\* ack_wait runs out: because nobody holds the message any more, or because
\* its handler takes longer.
AckWait(q) ==
    /\ q \in inflight
    /\ Requeue(q)
    /\ UNCHANGED <<workerVars, faults>>

\* The limits of the stream, max_age and max_msgs, take the oldest message,
\* whether it was delivered or not: a backlog behind a slow handler.
Discard(q) ==
    /\ Cardinality(discarded) < MaxDiscards
    /\ queue[q] # << >>
    /\ queue' = [queue EXCEPT ![q] = Tail(@)]
    /\ inflight' = inflight \ {q}
    /\ discarded' = discarded \cup {<<q, Head(queue[q])>>}
    /\ UNCHANGED <<deliveries, published, workerVars, faults>>

(***************************************************************************)
(* The fetch loops.                                                        *)
(***************************************************************************)

\* Mutant: the message is acknowledged on receipt, before its handler runs.
FetchBug(w, q) ==
    /\ worker[w] = Idle
    /\ Deliverable(q)
    /\ Remove(q)
    /\ Works
    /\ worker' = [worker EXCEPT ![w] = [pc |-> "handle", queue |-> q,
                                        msg |-> Head(queue[q])]]
    /\ UNCHANGED handled

\* sub.fetch(batch=1) returns a message, or fails after the server sent it.
Fetch(w, q) ==
    /\ worker[w] = Idle
    /\ Deliver(q)
    /\ \/ /\ Works
          /\ worker' = [worker EXCEPT ![w] = [pc |-> "handle", queue |-> q,
                                              msg |-> Head(queue[q])]]
       \/ /\ Fault
          /\ UNCHANGED worker
    /\ UNCHANGED handled

\* PipelineWorker.run
RunAsync(w) ==
    /\ w \in {"artifacts", "causals"}
    /\ Fetch(w, w)
    /\ UNCHANGED look

\* PriorityAsyncWorker.run, the fast half: after a message the loop starts
\* again ("continue"); after a failed fetch it goes on with the normal queue.
RunFast ==
    /\ look = "fast"
    /\ Fetch("ontology", "fast")
    /\ look' = IF faults' = faults THEN "fast" ELSE "normal"

\* Mutant: a fetch without a message starts the loop again as well.
FastEmptyBug ==
    /\ look = "fast"
    /\ worker["ontology"] = Idle
    /\ Deliverable("fast") => Fault
    /\ ~ Deliverable("fast") => Works
    /\ UNCHANGED <<queueVars, workerVars>>

\* The fetch times out, or fails before anything was delivered.
FastEmpty ==
    /\ look = "fast"
    /\ worker["ontology"] = Idle
    /\ Deliverable("fast") => Fault
    /\ ~ Deliverable("fast") => Works
    /\ look' = "normal"
    /\ UNCHANGED <<queueVars, worker, handled>>

RunNormal ==
    /\ look = "normal"
    /\ Fetch("ontology", "normal")
    /\ look' = "fast"

NormalEmpty ==
    /\ look = "normal"
    /\ worker["ontology"] = Idle
    /\ Deliverable("normal") => Fault
    /\ ~ Deliverable("normal") => Works
    /\ look' = "fast"
    /\ UNCHANGED <<queueVars, worker, handled>>

(***************************************************************************)
(* _process and _process_msg.                                              *)
(***************************************************************************)

\* Mutant: a worker that tries a handler again before it answers the server.
HandleBug(w) ==
    LET q == worker[w].queue IN
    /\ worker[w].pc = "handle"
    /\ handled' = [handled EXCEPT ![q] = Append(@, worker[w].msg)]
    /\ \/ worker' = [worker EXCEPT ![w].pc = "ack"] /\ Works
       \/ UNCHANGED worker /\ Fault
    /\ UNCHANGED <<queueVars, look>>

\* The handler returns: the handlers of the stages catch their exceptions.
Handle(w) ==
    LET q == worker[w].queue IN
    /\ worker[w].pc = "handle"
    /\ handled' = [handled EXCEPT ![q] = Append(@, worker[w].msg)]
    /\ worker' = [worker EXCEPT ![w].pc = "ack"]
    /\ UNCHANGED <<queueVars, look, faults>>

\* msg.ack(), which the server accepts after ack_wait too.
Acknowledge(w) ==
    LET q == worker[w].queue IN
    /\ worker[w].pc = "ack"
    /\ worker' = [worker EXCEPT ![w] = Idle]
    /\ IF IsPending(q, worker[w].msg) THEN Remove(q) ELSE UNCHANGED queueVars
    /\ UNCHANGED <<look, handled, faults>>

\* The handler or msg.ack() raises: msg.nak(), unless that fails as well and
\* ack_wait has to run out.
Nak(w) ==
    LET q == worker[w].queue IN
    /\ worker[w] # Idle
    /\ Fault
    /\ worker' = [worker EXCEPT ![w] = Idle]
    /\ \/ IsPending(q, worker[w].msg) /\ q \in inflight /\ Requeue(q)
       \/ UNCHANGED queueVars
    /\ UNCHANGED <<look, handled>>

WorkerStep(w) ==
    \/ RunAsync(w)
    \/ w = "ontology" /\ (RunFast \/ FastEmpty \/ RunNormal \/ NormalEmpty)
    \/ Handle(w)
    \/ Acknowledge(w)
    \/ Nak(w)

\* The process dies: the workers lose what they hold, the stream keeps it.
PipeCrash ==
    /\ worker' = [w \in Workers |-> Idle]
    /\ look' = "fast"
    /\ UNCHANGED <<queueVars, handled>>

(***************************************************************************)
(* The workers with any publisher that sends each message once, and with   *)
(* failures elsewhere in the process.                                      *)
(***************************************************************************)
Elements(s) == {s[i] : i \in 1..Len(s)}

Environment ==
    \/ \E q \in Queues, m \in Ids :
          /\ <<q, m>> \in Traffic
          /\ m \notin Elements(published[q])
          /\ Publish(q, m)
          /\ UNCHANGED <<workerVars, faults>>
    \/ Fault /\ UNCHANGED <<queueVars, workerVars>>

PipeNext ==
    \/ Environment
    \/ \E w \in Workers : WorkerStep(w)
    \/ \E q \in Queues : AckWait(q) \/ Discard(q)
    \/ Fault /\ PipeCrash

PipeSpec == PipeInit /\ [][PipeNext]_pipeVars

\* The event loop runs every ready coroutine, the fetch loops run for ever, and
\* the server's ack_wait always runs out.
PipeFairness ==
    /\ \A w \in Workers : WF_pipeVars(WorkerStep(w))
    /\ \A q \in Queues : WF_pipeVars(AckWait(q))

PipeFairSpec == PipeSpec /\ PipeFairness

(***************************************************************************)
(* Properties.                                                             *)
(***************************************************************************)

\* Where a message stands in the order of publication of its queue.
Position(q, m) == CHOOSE i \in DOMAIN published[q] : published[q][i] = m

\* README: the pipeline workers "process them FIFO": whatever is redelivered,
\* nak'ed or given up on the way, a worker never goes back to an older message.
FIFO ==
    \A q \in Queues : \A i, j \in DOMAIN handled[q] :
        i < j => Position(q, handled[q][i]) <= Position(q, handled[q][j])

\* Between the stream and its handler a stage is lost only to the stream's own
\* limits: a message is gone only after its handler has run to the end, after
\* max_deliver deliveries, or because it was the oldest when max_age or max_msgs
\* were reached; no ack, nak, redelivery or restart loses one.
AtLeastOnce ==
    \A q \in Queues : \A m \in Elements(published[q]) \ Elements(queue[q]) :
        \/ m \in Elements(handled[q])
        \/ deliveries[q][m] = MaxDeliver
        \/ <<q, m>> \in discarded

\* A handler runs no more often for a message than the message was delivered:
\* the handlers are not idempotent, so every extra run is a duplicate in the
\* graph, and ack_wait, nak and restarts together cost at most max_deliver - 1.
RunsPerMessage ==
    \A q \in Queues : \A m \in Elements(published[q]) :
        Cardinality({i \in DOMAIN handled[q] : handled[q][i] = m}) <= deliveries[q][m]

\* Nothing waits for ever: a message held by a dead worker is redelivered, and
\* the normal ontology queue gets its turn once the fast one is drained.
EverythingSettles ==
    \A q \in Queues : \A m \in Ids :
        m \in Elements(queue[q]) ~> m \notin Elements(queue[q])

(***************************************************************************)
(* The inductive invariant behind TypeOK and AtLeastOnce.                  *)
(***************************************************************************)

\* A queue with messages s, of which p were published and d delivered: only
\* the first message is ever delivered; it is in flight or has deliveries left.
QueueOK(s, p, d, flying) ==
    /\ \A i, j \in 1..Len(s) : s[i] = s[j] => i = j
    /\ Elements(s) \subseteq Elements(p)
    /\ \A m \in Ids : d[m] > 0 => m \in Elements(p)
    /\ \A i \in 2..Len(s) : d[s[i]] = 0
    /\ flying => s # << >>
    /\ ~ flying /\ s # << >> => d[s[1]] < MaxDeliver

QueueInv ==
    \A q \in Queues : QueueOK(queue[q], published[q], deliveries[q], q \in inflight)

\* A worker acknowledges what it has handled.
AckAfterHandling ==
    \A w \in Workers : worker[w].pc = "ack" =>
        worker[w].msg \in Elements(handled[worker[w].queue])

PipeInv == TypeOK /\ QueueInv /\ AckAfterHandling /\ AtLeastOnce
===============================================================================
