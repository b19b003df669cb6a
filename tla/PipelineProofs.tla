----------------------------- MODULE PipelineProofs -----------------------------
(***************************************************************************)
(* Proofs about the pipeline workers, which keep their types and lose a    *)
(* stage only to max_deliver or to the limits of the stream, and about     *)
(* run_curation with them: every call of it is a publisher that sends each *)
(* message once, so what is proved of PipeSpec holds of the whole pipeline.*)
(***************************************************************************)
EXTENDS CurationPipeline, FiniteSetTheorems, TLAPS

\* The part of TypeOK that is about the stream.
QueueTypeOK ==
    /\ queue \in [Queues -> Seq(Ids)]
    /\ inflight \in SUBSET Queues
    /\ deliveries \in [Queues -> [Ids -> 0..MaxDeliver]]
    /\ published \in [Queues -> Seq(Ids)]
    /\ discarded \in SUBSET (Queues \X Ids)

\* Appending to a sequence adds one element.
LEMMA ElementsAppend ==
    ASSUME NEW S, NEW s \in Seq(S), NEW e \in S
    PROVE  Elements(Append(s, e)) = Elements(s) \cup {e}
<1>1. /\ Len(Append(s, e)) = Len(s) + 1 /\ Len(s) \in Nat
      /\ \A i \in 1..Len(s) : Append(s, e)[i] = s[i]
      /\ Append(s, e)[Len(s) + 1] = e
  OBVIOUS
<1>2. ASSUME NEW x \in Elements(Append(s, e)) PROVE x \in Elements(s) \cup {e}
  <2>1. PICK i \in 1..(Len(s) + 1) : x = Append(s, e)[i]
    BY <1>1 DEF Elements
  <2>2. CASE i = Len(s) + 1
    BY <2>1, <2>2, <1>1
  <2>3. CASE i # Len(s) + 1
    <3>1. i \in 1..Len(s) /\ x = s[i]
      BY <2>1, <2>3, <1>1
    <3> QED BY <3>1 DEF Elements
  <2> QED BY <2>2, <2>3
<1>3. ASSUME NEW x \in Elements(s) \cup {e} PROVE x \in Elements(Append(s, e))
  <2>1. CASE x = e
    <3>1. Len(s) + 1 \in 1..Len(Append(s, e)) /\ x = Append(s, e)[Len(s) + 1]
      BY <2>1, <1>1
    <3> QED BY <3>1 DEF Elements
  <2>2. CASE x \in Elements(s)
    <3>1. PICK i \in 1..Len(s) : x = s[i]
      BY <2>2 DEF Elements
    <3>2. i \in 1..Len(Append(s, e)) /\ x = Append(s, e)[i]
      BY <3>1, <1>1
    <3> QED BY <3>2 DEF Elements
  <2> QED BY <1>3, <2>1, <2>2
<1> QED BY <1>2, <1>3

\* A sequence without its first element keeps all the others.
LEMMA ElementsTail ==
    ASSUME NEW S, NEW s \in Seq(S), s # << >>
    PROVE  /\ Tail(s) \in Seq(S)
           /\ Head(s) = s[1]
           /\ Head(s) \in S
           /\ Elements(s) = Elements(Tail(s)) \cup {Head(s)}
<1>1. /\ Tail(s) \in Seq(S) /\ Head(s) = s[1] /\ Head(s) \in S
      /\ Len(Tail(s)) = Len(s) - 1
      /\ \A i \in 1..Len(Tail(s)) : Tail(s)[i] = s[i + 1]
  OBVIOUS
<1>2. ASSUME NEW x \in Elements(s) PROVE x \in Elements(Tail(s)) \cup {Head(s)}
  <2>1. PICK i \in 1..Len(s) : x = s[i]
    BY DEF Elements
  <2>2. CASE i = 1
    BY <2>1, <2>2, <1>1
  <2>3. CASE i # 1
    <3>1. i - 1 \in 1..Len(Tail(s)) /\ Tail(s)[i - 1] = x
      BY <2>1, <2>3, <1>1
    <3> QED BY <3>1, <1>1 DEF Elements
  <2> QED BY <2>2, <2>3
<1>3. ASSUME NEW x \in Elements(Tail(s)) \cup {Head(s)} PROVE x \in Elements(s)
  <2>1. CASE x = Head(s)
    BY <2>1, <1>1 DEF Elements
  <2>2. CASE x \in Elements(Tail(s))
    <3>1. PICK i \in 1..Len(Tail(s)) : x = Tail(s)[i]
      BY <2>2, <1>1 DEF Elements
    <3>2. i + 1 \in 1..Len(s) /\ x = s[i + 1]
      BY <3>1, <1>1
    <3> QED BY <3>2 DEF Elements
  <2> QED BY <1>3, <2>1, <2>2
<1> QED BY <1>1, <1>2, <1>3
(***************************************************************************)
(* What the stream does to one queue.                                      *)
(***************************************************************************)

\* A new message goes to the end of its queue.
LEMMA PublishKeeps ==
    ASSUME NEW s \in Seq(Ids), NEW p \in Seq(Ids), NEW d \in [Ids -> 0..MaxDeliver],
           NEW flying \in BOOLEAN, QueueOK(s, p, d, flying),
           NEW m \in Ids, m \notin Elements(p)
    PROVE  QueueOK(Append(s, m), Append(p, m), d, flying)
<1> DEFINE t == Append(s, m)
<1>1. /\ t \in Seq(Ids) /\ t # << >> /\ Len(t) = Len(s) + 1 /\ Len(s) \in Nat
      /\ \A i \in 1..Len(s) : t[i] = s[i]
      /\ t[Len(s) + 1] = m
  OBVIOUS
<1>2. /\ Elements(t) = Elements(s) \cup {m}
      /\ Elements(Append(p, m)) = Elements(p) \cup {m}
  BY ElementsAppend
<1>3. \A i \in 1..Len(s) : s[i] \in Elements(s)
  BY DEF Elements
<1>4. d[m] = 0 /\ m \notin Elements(s)
  BY DEF QueueOK
<1>5. \A i, j \in 1..Len(t) : t[i] = t[j] => i = j
  <2> SUFFICES ASSUME NEW i \in 1..Len(t), NEW j \in 1..Len(t), t[i] = t[j]
               PROVE  i = j
    OBVIOUS
  <2>1. \A k \in 1..Len(t) : (k \in 1..Len(s) /\ t[k] # m) \/ (k = Len(s) + 1 /\ t[k] = m)
    BY <1>1, <1>3, <1>4
  <2>2. CASE i \in 1..Len(s) /\ j \in 1..Len(s)
    BY <2>2, <1>1 DEF QueueOK
  <2> QED BY <2>1, <2>2
<1>6. \A i \in 2..Len(t) : d[t[i]] = 0
  <2> SUFFICES ASSUME NEW i \in 2..Len(t) PROVE d[t[i]] = 0
    OBVIOUS
  <2>1. CASE i \in 2..Len(s)
    BY <2>1, <1>1 DEF QueueOK
  <2>2. CASE i = Len(s) + 1
    BY <2>2, <1>1, <1>4
  <2> QED BY <2>1, <2>2, <1>1
<1>7. ~ flying => d[t[1]] < MaxDeliver
  <2>1. CASE s = << >>
    BY <2>1, <1>1, <1>4, PipelineAssumption
  <2>2. CASE s # << >>
    BY <2>2, <1>1 DEF QueueOK
  <2> QED BY <2>1, <2>2
<1> HIDE DEF t
<1>8. /\ Elements(t) \subseteq Elements(Append(p, m))
      /\ \A x \in Ids : d[x] > 0 => x \in Elements(Append(p, m))
  BY <1>2 DEF QueueOK
<1> QED BY <1>1, <1>5, <1>6, <1>7, <1>8 DEF QueueOK, t

\* A delivery counts for the first message, which had one left.
LEMMA DeliverKeeps ==
    ASSUME NEW s \in Seq(Ids), NEW p \in Seq(Ids), NEW d \in [Ids -> 0..MaxDeliver],
           QueueOK(s, p, d, FALSE), s # << >>
    PROVE  LET e == [d EXCEPT ![Head(s)] = @ + 1]
           IN  e \in [Ids -> 0..MaxDeliver] /\ QueueOK(s, p, e, TRUE)
<1> DEFINE e == [d EXCEPT ![Head(s)] = @ + 1]
<1>1. Head(s) = s[1] /\ Head(s) \in Ids /\ Len(s) \in Nat /\ 1 \in 1..Len(s)
      /\ \A i \in 1..Len(s) : s[i] \in Ids
  OBVIOUS
<1>2. d[Head(s)] < MaxDeliver
  BY <1>1 DEF QueueOK
<1>3. e \in [Ids -> 0..MaxDeliver]
  BY <1>1, <1>2, PipelineAssumption
<1>4. \A x \in Ids : x # Head(s) => e[x] = d[x]
  BY <1>1
<1>5. Head(s) \in Elements(p)
  BY <1>1 DEF QueueOK, Elements
<1>6. \A x \in Ids : e[x] > 0 => x \in Elements(p)
  BY <1>4, <1>5 DEF QueueOK
<1>7. \A i \in 2..Len(s) : e[s[i]] = 0
  <2> SUFFICES ASSUME NEW i \in 2..Len(s) PROVE e[s[i]] = 0
    OBVIOUS
  <2>1. i \in 1..Len(s) /\ i # 1 /\ d[s[i]] = 0
    BY <1>1 DEF QueueOK
  <2>2. s[i] # s[1]
    BY <2>1, <1>1 DEF QueueOK
  <2> QED BY <2>1, <2>2, <1>1, <1>4
<1>8. QueueOK(s, p, e, TRUE)
  <2> HIDE DEF e
  <2> QED BY <1>6, <1>7 DEF QueueOK
<1> QED BY <1>3, <1>8

\* A message with deliveries left goes back to the head of its queue.
LEMMA StayKeeps ==
    ASSUME NEW s \in Seq(Ids), NEW p \in Seq(Ids), NEW d \in [Ids -> 0..MaxDeliver],
           NEW flying \in BOOLEAN, QueueOK(s, p, d, flying), s # << >>,
           d[Head(s)] < MaxDeliver
    PROVE  QueueOK(s, p, d, FALSE)
<1>1. Head(s) = s[1]
  OBVIOUS
<1> QED BY <1>1 DEF QueueOK

\* The first message is gone: the next one has all its deliveries left.
LEMMA TailKeeps ==
    ASSUME NEW s \in Seq(Ids), NEW p \in Seq(Ids), NEW d \in [Ids -> 0..MaxDeliver],
           NEW flying \in BOOLEAN, QueueOK(s, p, d, flying), s # << >>
    PROVE  QueueOK(Tail(s), p, d, FALSE)
<1> DEFINE t == Tail(s)
<1>1. /\ Len(t) = Len(s) - 1 /\ Len(s) \in Nat \ {0} /\ t \in Seq(Ids)
      /\ \A i \in 1..Len(t) : t[i] = s[i + 1]
  OBVIOUS
<1>2. \A i \in 1..Len(t) : i + 1 \in 1..Len(s) /\ i + 1 \in 2..Len(s)
  BY <1>1
<1>3. \A i, j \in 1..Len(t) : t[i] = t[j] => i = j
  <2> SUFFICES ASSUME NEW i \in 1..Len(t), NEW j \in 1..Len(t), t[i] = t[j]
               PROVE  i = j
    OBVIOUS
  <2>1. s[i + 1] = s[j + 1]
    BY <1>1
  <2>2. i + 1 = j + 1
    BY <2>1, <1>2 DEF QueueOK
  <2> QED BY <2>2
<1>4. \A i \in 1..Len(t) : d[t[i]] = 0
  BY <1>1, <1>2 DEF QueueOK
<1>5. Elements(t) \subseteq Elements(p)
  BY ElementsTail DEF QueueOK
<1>6. t # << >> => 1 \in 1..Len(t)
  BY <1>1
<1> HIDE DEF t
<1>7. t # << >> => d[t[1]] < MaxDeliver
  BY <1>4, <1>6, PipelineAssumption
<1>8. \A i \in 2..Len(t) : d[t[i]] = 0
  BY <1>4, <1>1
<1> QED BY <1>3, <1>5, <1>7, <1>8 DEF QueueOK, t
(***************************************************************************)
(* What the stream does to all queues.  HandledGrows: in every step, what  *)
(* was handled stays handled.                                              *)
(***************************************************************************)
HandledGrows == \A r \in Queues : Elements(handled[r]) \subseteq Elements(handled'[r])

StreamInv == QueueTypeOK /\ QueueInv /\ AtLeastOnce

\* Publishing a new message keeps the invariant of the stream.
LEMMA PublishStep ==
    ASSUME StreamInv, HandledGrows, NEW q \in Queues,
           NEW m \in Ids \ Elements(published[q]), Publish(q, m)
    PROVE  StreamInv'
<1>1. QueueTypeOK'
  BY DEF StreamInv, QueueTypeOK, Publish
<1>2. ASSUME NEW r \in Queues
      PROVE  /\ QueueOK(queue[r], published[r], deliveries[r], r \in inflight)'
             /\ Elements(published'[r]) \ Elements(queue'[r])
                   \subseteq Elements(published[r]) \ Elements(queue[r])
  <2>1. /\ queue[r] \in Seq(Ids) /\ published[r] \in Seq(Ids)
        /\ deliveries[r] \in [Ids -> 0..MaxDeliver] /\ (r \in inflight) \in BOOLEAN
        /\ QueueOK(queue[r], published[r], deliveries[r], r \in inflight)
        /\ deliveries' = deliveries /\ inflight' = inflight
    BY DEF StreamInv, QueueTypeOK, QueueInv, Publish
  <2>2. CASE r = q
    <3>1. queue'[r] = Append(queue[r], m) /\ published'[r] = Append(published[r], m)
      BY <2>2 DEF StreamInv, QueueTypeOK, Publish
    <3>2. QueueOK(Append(queue[r], m), Append(published[r], m), deliveries[r], r \in inflight)
      BY <2>1, <2>2, PublishKeeps
    <3>3. /\ Elements(Append(queue[r], m)) = Elements(queue[r]) \cup {m}
          /\ Elements(Append(published[r], m)) = Elements(published[r]) \cup {m}
      BY <2>1, ElementsAppend
    <3> QED BY <2>1, <3>1, <3>2, <3>3
  <2>3. CASE r # q
    <3>1. queue'[r] = queue[r] /\ published'[r] = published[r]
      BY <2>3 DEF StreamInv, QueueTypeOK, Publish
    <3> QED BY <2>1, <3>1
  <2> QED BY <2>2, <2>3
<1>3. QueueInv'
  BY <1>2 DEF QueueInv
<1>4. AtLeastOnce'
  BY <1>2 DEF StreamInv, AtLeastOnce, HandledGrows, Publish
<1> QED BY <1>1, <1>3, <1>4 DEF StreamInv

\* So does a delivery.
LEMMA DeliverStep ==
    ASSUME StreamInv, HandledGrows, NEW q \in Queues, Deliver(q)
    PROVE  StreamInv'
<1> DEFINE h == Head(queue[q])
<1>1. /\ queue[q] \in Seq(Ids) /\ queue[q] # << >> /\ q \notin inflight
      /\ published[q] \in Seq(Ids) /\ deliveries[q] \in [Ids -> 0..MaxDeliver]
      /\ QueueOK(queue[q], published[q], deliveries[q], FALSE)
      /\ queue' = queue /\ published' = published /\ inflight' = inflight \cup {q}
      /\ discarded' = discarded
  BY DEF StreamInv, QueueTypeOK, QueueInv, QueueOK, Deliver, Deliverable
<1>2. h \in Ids /\ h \in Elements(queue[q])
  BY <1>1, ElementsTail
<1>3. LET e == [deliveries[q] EXCEPT ![h] = @ + 1]
      IN  e \in [Ids -> 0..MaxDeliver] /\ QueueOK(queue[q], published[q], e, TRUE)
  BY <1>1, DeliverKeeps
<1>4. deliveries' = [deliveries EXCEPT ![q] = [deliveries[q] EXCEPT ![h] = @ + 1]]
  BY <1>1, <1>2 DEF StreamInv, QueueTypeOK, Deliver
<1> HIDE DEF h
<1>5. QueueTypeOK'
  BY <1>1, <1>3, <1>4 DEF StreamInv, QueueTypeOK
<1>6. QueueInv'
  <2> SUFFICES ASSUME NEW r \in Queues
               PROVE  QueueOK(queue'[r], published'[r], deliveries'[r], r \in inflight')
    BY DEF QueueInv
  <2>1. CASE r = q
    <3>1. deliveries'[r] = [deliveries[q] EXCEPT ![h] = @ + 1] /\ (r \in inflight') = TRUE
      BY <2>1, <1>1, <1>4 DEF StreamInv, QueueTypeOK
    <3> QED BY <3>1, <2>1, <1>1, <1>3 DEF QueueOK
  <2>2. CASE r # q
    <3>1. deliveries'[r] = deliveries[r] /\ (r \in inflight' <=> r \in inflight)
      BY <2>2, <1>1, <1>4 DEF StreamInv, QueueTypeOK
    <3>2. QueueOK(queue[r], published[r], deliveries[r], r \in inflight)
      BY DEF StreamInv, QueueInv
    <3> QED BY <3>1, <3>2, <1>1 DEF QueueOK
  <2> QED BY <2>1, <2>2
<1>7. AtLeastOnce'
  <2> SUFFICES ASSUME NEW r \in Queues,
                      NEW m \in Elements(published[r]) \ Elements(queue[r])
               PROVE  \/ m \in Elements(handled'[r])
                      \/ deliveries'[r][m] = MaxDeliver
                      \/ <<r, m>> \in discarded'
    BY <1>1 DEF AtLeastOnce
  <2>1. \/ m \in Elements(handled[r])
        \/ deliveries[r][m] = MaxDeliver
        \/ <<r, m>> \in discarded
    BY DEF StreamInv, AtLeastOnce
  <2>2. m \in Ids
    BY DEF StreamInv, QueueTypeOK, Elements
  <2>3. deliveries'[r][m] = deliveries[r][m]
    BY <1>1, <1>2, <1>4, <2>2 DEF StreamInv, QueueTypeOK
  <2> QED BY <1>1, <2>1, <2>3 DEF HandledGrows
<1> QED BY <1>5, <1>6, <1>7 DEF StreamInv

\* So does the end of a delivery: the first message of q goes, or stays; if it
\* goes it was handled, has no deliveries left, or the limits of the stream took it.
LEMMA SettleStep ==
    ASSUME StreamInv, HandledGrows, NEW q \in Queues, queue[q] # << >>,
           \/ Requeue(q)
           \/ Remove(q) /\ Head(queue[q]) \in Elements(handled[q])
           \/ Discard(q)
    PROVE  StreamInv'
<1> DEFINE h == Head(queue[q])
<1>1. /\ queue[q] \in Seq(Ids) /\ published[q] \in Seq(Ids)
      /\ deliveries[q] \in [Ids -> 0..MaxDeliver] /\ (q \in inflight) \in BOOLEAN
      /\ QueueOK(queue[q], published[q], deliveries[q], q \in inflight)
      /\ deliveries' = deliveries /\ published' = published
      /\ inflight' = inflight \ {q}
  BY DEF StreamInv, QueueTypeOK, QueueInv, Requeue, Remove, Discard
<1>2. /\ Tail(queue[q]) \in Seq(Ids) /\ h \in Ids
      /\ Elements(queue[q]) = Elements(Tail(queue[q])) \cup {h}
  BY <1>1, ElementsTail
<1>3. \A r \in Queues : r # q => queue'[r] = queue[r]
  BY DEF StreamInv, QueueTypeOK, Requeue, Remove, Discard
<1>4. \/ queue'[q] = queue[q] /\ deliveries[q][h] < MaxDeliver
      \/ /\ queue'[q] = Tail(queue[q])
         /\ \/ h \in Elements(handled[q])
            \/ deliveries[q][h] = MaxDeliver
            \/ <<q, h>> \in discarded'
  <2>1. deliveries[q][h] \in 0..MaxDeliver
    BY <1>1, <1>2
  <2> QED BY <2>1, PipelineAssumption DEF StreamInv, QueueTypeOK, Requeue, Remove, Discard
<1>8. discarded' = discarded \/ discarded' = discarded \cup {<<q, h>>}
  BY DEF Requeue, Remove, Discard
<1>5. QueueTypeOK'
  <2>1. queue' \in [Queues -> Seq(Ids)]
    BY <1>1, <1>2 DEF StreamInv, QueueTypeOK, Requeue, Remove, Discard
  <2>2. discarded' \in SUBSET (Queues \X Ids)
    BY <1>2, <1>8 DEF StreamInv, QueueTypeOK
  <2> QED BY <2>1, <2>2, <1>1 DEF StreamInv, QueueTypeOK
<1>6. QueueInv'
  <2> SUFFICES ASSUME NEW r \in Queues
               PROVE  QueueOK(queue'[r], published'[r], deliveries'[r], r \in inflight')
    BY DEF QueueInv
  <2>1. CASE r = q
    <3>1. QueueOK(queue'[q], published[q], deliveries[q], FALSE)
      BY <1>1, <1>4, StayKeeps, TailKeeps
    <3> QED BY <3>1, <2>1, <1>1 DEF QueueOK
  <2>2. CASE r # q
    <3>1. QueueOK(queue[r], published[r], deliveries[r], r \in inflight)
      BY DEF StreamInv, QueueInv
    <3> QED BY <3>1, <2>2, <1>1, <1>3 DEF QueueOK
  <2> QED BY <2>1, <2>2
<1> HIDE DEF h
<1>7. AtLeastOnce'
  <2> SUFFICES ASSUME NEW r \in Queues,
                      NEW m \in Elements(published[r]) \ Elements(queue'[r])
               PROVE  \/ m \in Elements(handled'[r])
                      \/ deliveries[r][m] = MaxDeliver
                      \/ <<r, m>> \in discarded'
    BY <1>1 DEF AtLeastOnce
  <2>1. CASE m \notin Elements(queue[r])
    BY <2>1, <1>8 DEF StreamInv, AtLeastOnce, HandledGrows
  <2>2. CASE m \in Elements(queue[r])
    <3>1. r = q /\ m = h /\ queue'[q] = Tail(queue[q])
      BY <2>2, <1>2, <1>3, <1>4
    <3> QED BY <3>1, <1>4, <1>2, <2>2 DEF HandledGrows
  <2> QED BY <2>1, <2>2
<1> QED BY <1>5, <1>6, <1>7 DEF StreamInv

\* So does a step that leaves the stream alone.
LEMMA QuietStep ==
    ASSUME StreamInv, HandledGrows, UNCHANGED queueVars
    PROVE  StreamInv'
<1>1. /\ queue' = queue /\ inflight' = inflight
      /\ deliveries' = deliveries /\ published' = published /\ discarded' = discarded
  BY DEF queueVars
<1>2. QueueTypeOK' /\ QueueInv'
  BY <1>1 DEF StreamInv, QueueTypeOK, QueueInv, QueueOK
<1>3. AtLeastOnce'
  BY <1>1 DEF StreamInv, AtLeastOnce, HandledGrows
<1> QED BY <1>2, <1>3 DEF StreamInv
(***************************************************************************)
(* The workers.                                                            *)
(***************************************************************************)
WorkerInv ==
    /\ worker \in [Workers -> Busy \cup {Idle}]
    /\ look \in {"fast", "normal"}
    /\ faults \in 0..MaxFaults
    /\ handled \in [Queues -> Seq(Ids)]
    /\ AckAfterHandling

\* The invariant is the one of the stream and the one of the workers.
LEMMA InvParts ==
    /\ PipeInv => StreamInv /\ WorkerInv
    /\ StreamInv' /\ WorkerInv' => PipeInv'
BY DEF PipeInv, TypeOK, StreamInv, WorkerInv, QueueTypeOK

\* A worker that is not idle holds a message of a queue.
LEMMA BusyWorker ==
    ASSUME WorkerInv, NEW w \in Workers, worker[w] # Idle
    PROVE  /\ worker[w] \in Busy
           /\ worker[w].queue \in Queues /\ worker[w].msg \in Ids
BY DEF WorkerInv, Busy

\* A step that fails or works keeps the count of failures in its bounds.
LEMMA FaultBound ==
    ASSUME faults \in 0..MaxFaults, Works \/ Fault
    PROVE  faults' \in 0..MaxFaults
BY PipelineAssumption DEF Works, Fault

\* The subscriptions of the workers.
LEMMA WorkerQueues ==
    /\ "ontology" \in Workers => "fast" \in Queues /\ "normal" \in Queues
    /\ \A w \in Workers : w \in {"artifacts", "causals"} => w \in Queues
BY PipelineAssumption DEF Workers, WorkerOf, AllQueues

\* A fetch, with or without a message.
LEMMA FetchStep ==
    ASSUME PipeInv, NEW w \in Workers, NEW q \in Queues, Fetch(w, q),
           look' \in {"fast", "normal"}
    PROVE  PipeInv'
<1>1. StreamInv /\ WorkerInv
  BY InvParts
<1>2. Deliver(q) /\ handled' = handled /\ (Works \/ Fault)
  BY DEF Fetch
<1>3. HandledGrows
  BY <1>2 DEF HandledGrows
<1>4. StreamInv'
  BY <1>1, <1>2, <1>3, DeliverStep
<1>5. Head(queue[q]) \in Ids
  BY <1>1, <1>2, ElementsTail DEF StreamInv, QueueTypeOK, Deliver, Deliverable
<1>6. \/ worker' = worker
      \/ worker' = [worker EXCEPT ![w] = [pc |-> "handle", queue |-> q, msg |-> Head(queue[q])]]
  BY DEF Fetch
<1>7. worker' \in [Workers -> Busy \cup {Idle}]
  BY <1>1, <1>5, <1>6 DEF WorkerInv, Busy
<1>8. AckAfterHandling'
  BY <1>1, <1>2, <1>6 DEF WorkerInv, AckAfterHandling
<1>9. faults' \in 0..MaxFaults
  BY <1>1, <1>2, FaultBound DEF WorkerInv
<1> QED BY <1>1, <1>2, <1>4, <1>7, <1>8, <1>9, InvParts DEF WorkerInv

\* A handler has run to its end.
LEMMA HandleStep ==
    ASSUME PipeInv, NEW w \in Workers, Handle(w)
    PROVE  PipeInv'
<1> DEFINE q == worker[w].queue
           m == worker[w].msg
<1>1. StreamInv /\ WorkerInv /\ worker[w] # Idle
  BY InvParts DEF Handle, Idle
<1>2. worker[w] \in Busy /\ q \in Queues /\ m \in Ids
  BY <1>1, BusyWorker
<1>3. /\ UNCHANGED queueVars /\ look' = look /\ faults' = faults
      /\ handled' = [handled EXCEPT ![q] = Append(@, m)]
      /\ worker' = [worker EXCEPT ![w].pc = "ack"]
  BY DEF Handle
<1>4. handled[q] \in Seq(Ids) /\ Elements(Append(handled[q], m)) = Elements(handled[q]) \cup {m}
  BY <1>1, <1>2, ElementsAppend DEF WorkerInv
<1>5. /\ handled' \in [Queues -> Seq(Ids)]
      /\ handled'[q] = Append(handled[q], m)
      /\ \A r \in Queues : r # q => handled'[r] = handled[r]
  BY <1>1, <1>2, <1>3, <1>4 DEF WorkerInv
<1>6. HandledGrows /\ m \in Elements(handled'[q])
  BY <1>4, <1>5 DEF HandledGrows
<1>7. StreamInv'
  BY <1>1, <1>3, <1>6, QuietStep
<1>8. /\ worker'[w] = [worker[w] EXCEPT !.pc = "ack"]
      /\ \A v \in Workers : v # w => worker'[v] = worker[v]
      /\ worker' \in [Workers -> Busy \cup {Idle}]
  BY <1>1, <1>2, <1>3 DEF WorkerInv, Busy
<1>9. worker'[w].queue = q /\ worker'[w].msg = m
  BY <1>2, <1>8 DEF Busy
<1>10. AckAfterHandling'
  <2> SUFFICES ASSUME NEW v \in Workers, worker'[v].pc = "ack"
               PROVE  worker'[v].msg \in Elements(handled'[worker'[v].queue])
    BY DEF AckAfterHandling
  <2>1. CASE v = w
    BY <2>1, <1>6, <1>9
  <2>2. CASE v # w
    <3>1. worker[v].pc = "ack" /\ worker'[v] = worker[v]
      BY <2>2, <1>8
    <3>2. worker[v] # Idle
      BY <3>1 DEF Idle
    <3>3. worker[v].queue \in Queues /\ worker[v].msg \in Elements(handled[worker[v].queue])
      BY <1>1, <3>1, <3>2, BusyWorker DEF WorkerInv, AckAfterHandling
    <3> QED BY <3>1, <3>3, <1>6 DEF HandledGrows
  <2> QED BY <2>1, <2>2
<1> QED BY <1>1, <1>3, <1>5, <1>7, <1>8, <1>10, InvParts DEF WorkerInv

\* A worker lets go of its message, acknowledged or not.
LEMMA LetGoStep ==
    ASSUME PipeInv, NEW w \in Workers, Acknowledge(w) \/ Nak(w)
    PROVE  PipeInv'
<1> DEFINE q == worker[w].queue
           m == worker[w].msg
<1>1. StreamInv /\ WorkerInv /\ worker[w] # Idle
  BY InvParts DEF Acknowledge, Nak, Idle
<1>2. q \in Queues /\ m \in Ids
  BY <1>1, BusyWorker
<1>3. /\ worker' = [worker EXCEPT ![w] = Idle] /\ look' = look /\ handled' = handled
      /\ Works \/ Fault
  BY DEF Acknowledge, Nak, Works
<1>4. HandledGrows
  BY <1>3 DEF HandledGrows
<1>5. StreamInv'
  <2>1. CASE UNCHANGED queueVars
    BY <2>1, <1>1, <1>4, QuietStep
  <2>2. CASE Nak(w) /\ IsPending(q, m) /\ Requeue(q)
    BY <2>2, <1>1, <1>2, <1>4, SettleStep DEF IsPending
  <2>3. CASE Acknowledge(w) /\ IsPending(q, m) /\ Remove(q)
    <3>1. m \in Elements(handled[q])
      BY <2>3, <1>1 DEF Acknowledge, WorkerInv, AckAfterHandling
    <3> QED BY <3>1, <2>3, <1>1, <1>2, <1>4, SettleStep DEF IsPending
  <2> QED BY <2>1, <2>2, <2>3 DEF Acknowledge, Nak
<1>6. WorkerInv'
  <2>1. worker' \in [Workers -> Busy \cup {Idle}]
    BY <1>1, <1>3 DEF WorkerInv
  <2>2. AckAfterHandling'
    BY <1>1, <1>3 DEF WorkerInv, AckAfterHandling, Idle
  <2>3. faults' \in 0..MaxFaults
    BY <1>1, <1>3, FaultBound DEF WorkerInv
  <2> QED BY <1>1, <1>3, <2>1, <2>2, <2>3 DEF WorkerInv
<1> QED BY <1>5, <1>6, InvParts

\* Every step of a worker keeps the invariant.
LEMMA WorkerKeeps ==
    ASSUME PipeInv, NEW w \in Workers, WorkerStep(w)
    PROVE  PipeInv'
<1>1. CASE RunAsync(w)
  <2>1. w \in Queues /\ Fetch(w, w) /\ look' = look
    BY <1>1, WorkerQueues DEF RunAsync
  <2>2. look' \in {"fast", "normal"}
    BY <2>1 DEF PipeInv, TypeOK
  <2> QED BY <2>1, <2>2, FetchStep
<1>2. CASE w = "ontology" /\ RunFast
  <2>1. "fast" \in Queues /\ Fetch(w, "fast") /\ look' \in {"fast", "normal"}
    BY <1>2, WorkerQueues DEF RunFast
  <2> QED BY <2>1, FetchStep
<1>3. CASE w = "ontology" /\ RunNormal
  <2>1. "normal" \in Queues /\ Fetch(w, "normal") /\ look' \in {"fast", "normal"}
    BY <1>3, WorkerQueues DEF RunNormal
  <2> QED BY <2>1, FetchStep
<1>4. CASE FastEmpty \/ NormalEmpty
  <2>1. /\ UNCHANGED queueVars /\ worker' = worker /\ handled' = handled
        /\ look' \in {"fast", "normal"}
        /\ Works \/ Fault
    BY <1>4 DEF FastEmpty, NormalEmpty
  <2>2. StreamInv /\ WorkerInv /\ HandledGrows
    BY <2>1, InvParts DEF HandledGrows
  <2>3. StreamInv'
    BY <2>1, <2>2, QuietStep
  <2>4. faults' \in 0..MaxFaults
    BY <2>1, <2>2, FaultBound DEF WorkerInv
  <2>5. AckAfterHandling'
    BY <2>1, <2>2 DEF WorkerInv, AckAfterHandling
  <2>6. WorkerInv'
    BY <2>1, <2>2, <2>4, <2>5 DEF WorkerInv
  <2> QED BY <2>3, <2>6, InvParts
<1>5. CASE Handle(w)
  BY <1>5, HandleStep
<1>6. CASE Acknowledge(w) \/ Nak(w)
  BY <1>6, LetGoStep
<1> QED BY <1>1, <1>2, <1>3, <1>4, <1>5, <1>6 DEF WorkerStep

\* The workers, the stream, the publisher and a restart keep the invariant.
LEMMA PipeStep == PipeInv /\ [PipeNext]_pipeVars => PipeInv'
<1> SUFFICES ASSUME PipeInv, [PipeNext]_pipeVars PROVE PipeInv'
  OBVIOUS
<1>1. StreamInv /\ WorkerInv
  BY InvParts
<1>2. ASSUME UNCHANGED workerVars, Works \/ Fault, StreamInv' PROVE PipeInv'
  <2>1. worker' = worker /\ look' = look /\ handled' = handled
    BY <1>2 DEF workerVars
  <2>2. faults' \in 0..MaxFaults
    BY <1>1, <1>2, FaultBound DEF WorkerInv
  <2> QED BY <1>1, <1>2, <2>1, <2>2, InvParts DEF WorkerInv, AckAfterHandling
<1>3. ASSUME UNCHANGED workerVars PROVE HandledGrows
  BY <1>3 DEF workerVars, HandledGrows
<1>4. CASE Environment
  <2>1. ASSUME NEW q \in Queues, NEW m \in Ids, m \notin Elements(published[q]),
               Publish(q, m), UNCHANGED <<workerVars, faults>>
        PROVE  PipeInv'
    BY <2>1, <1>1, <1>2, <1>3, PublishStep DEF Works
  <2>2. CASE Fault /\ UNCHANGED <<queueVars, workerVars>>
    BY <2>2, <1>1, <1>2, <1>3, QuietStep
  <2> QED BY <1>4, <2>1, <2>2 DEF Environment
<1>5. ASSUME NEW w \in Workers, WorkerStep(w) PROVE PipeInv'
  BY <1>5, WorkerKeeps
<1>6. ASSUME NEW q \in Queues, AckWait(q) \/ Discard(q) PROVE PipeInv'
  <2>1. /\ Requeue(q) \/ Discard(q)
        /\ UNCHANGED workerVars /\ Works /\ queue[q] # << >>
    BY <1>1, <1>6 DEF AckWait, Discard, Works, StreamInv, QueueInv, QueueOK
  <2> QED BY <2>1, <1>1, <1>2, <1>3, SettleStep
<1>7. CASE Fault /\ PipeCrash
  <2>1. /\ UNCHANGED queueVars /\ handled' = handled /\ look' = "fast"
        /\ worker' = [w \in Workers |-> Idle]
    BY <1>7 DEF PipeCrash
  <2>2. HandledGrows
    BY <2>1 DEF HandledGrows
  <2>3. StreamInv'
    BY <1>1, <2>1, <2>2, QuietStep
  <2>4. faults' \in 0..MaxFaults
    BY <1>1, <1>7, FaultBound DEF WorkerInv
  <2>5. WorkerInv'
    BY <1>1, <2>1, <2>4 DEF WorkerInv, AckAfterHandling, Idle
  <2> QED BY <2>3, <2>5, InvParts
<1>8. CASE UNCHANGED pipeVars
  <2>1. UNCHANGED queueVars /\ UNCHANGED workerVars /\ Works
    BY <1>8 DEF pipeVars, Works
  <2> QED BY <2>1, <1>1, <1>2, <1>3, QuietStep
<1> QED BY <1>4, <1>5, <1>6, <1>7, <1>8 DEF PipeNext

\* Nothing has been published in the initial state.
LEMMA PipeStart == PipeInit => PipeInv
<1> SUFFICES ASSUME PipeInit PROVE PipeInv
  OBVIOUS
<1>1. TypeOK
  BY PipelineAssumption DEF PipeInit, TypeOK
<1>2. QueueInv /\ AtLeastOnce
  BY PipelineAssumption DEF PipeInit, QueueInv, QueueOK, AtLeastOnce, Elements
<1>3. AckAfterHandling
  BY DEF PipeInit, AckAfterHandling, Idle
<1> QED BY <1>1, <1>2, <1>3 DEF PipeInv

\* The invariant holds in every state of the workers, under any publisher.
THEOREM PipeInvariant == PipeSpec => []PipeInv
BY PipeStart, PipeStep, PTL DEF PipeSpec

\* Type correctness; in particular no message is delivered more often than
\* max_deliver allows, however ack_wait, nak and restarts interleave.
THEOREM PipeTypeCorrect == PipeSpec => []TypeOK
<1>1. PipeInv => TypeOK
  BY DEF PipeInv
<1> QED BY <1>1, PipeInvariant, PTL

\* Between the stream and its handler a stage is lost only to the stream's limits:
\* a published message that is gone was handled to the end, delivered max_deliver
\* times, or taken by max_age or max_msgs.
THEOREM StagesAreHandled == PipeSpec => []AtLeastOnce
<1>1. PipeInv => AtLeastOnce
  BY DEF PipeInv
<1> QED BY <1>1, PipeInvariant, PTL

(***************************************************************************)
(* The order of handling: facts about the sequences of one queue, with     *)
(* messages s waiting, p published and h handled.                          *)
(***************************************************************************)
Distinct(p) == \A i, j \in 1..Len(p) : p[i] = p[j] => i = j

Pos(p, m) == CHOOSE i \in DOMAIN p : p[i] = m

\* The messages that wait are the last that were published.
Suffix(s, p) ==
    /\ Len(s) <= Len(p)
    /\ \A i \in 1..Len(s) : s[i] = p[Len(p) - Len(s) + i]

\* The first position that waits, if any does.
Front(s, p) == Len(p) - Len(s) + 1

\* The messages are handled in their order, and not before they are at the front.
OrderOK(s, p, h) ==
    /\ Distinct(p) /\ Suffix(s, p)
    /\ \A i \in 1..Len(h) : h[i] \in Elements(p) /\ Pos(p, h[i]) <= Front(s, p)
    /\ \A i, j \in 1..Len(h) : i < j => Pos(p, h[i]) <= Pos(p, h[j])

\* A message that may be handled next.
NextOK(s, p, h, m) ==
    /\ m \in Elements(p) /\ Pos(p, m) <= Front(s, p)
    /\ \A i \in 1..Len(h) : Pos(p, h[i]) <= Pos(p, m)

\* A message has one position.
LEMMA PosIs ==
    ASSUME NEW p \in Seq(Ids), Distinct(p), NEW m \in Elements(p)
    PROVE  /\ Pos(p, m) \in 1..Len(p) /\ p[Pos(p, m)] = m
           /\ \A i \in 1..Len(p) : p[i] = m => i = Pos(p, m)
<1>1. PICK k \in 1..Len(p) : p[k] = m
  BY DEF Elements
<1>2. DOMAIN p = 1..Len(p)
  OBVIOUS
<1>3. Pos(p, m) \in DOMAIN p /\ p[Pos(p, m)] = m
  BY <1>1, <1>2 DEF Pos
<1> QED BY <1>2, <1>3 DEF Distinct

\* The first message leaves a queue.
LEMMA TailOrder ==
    ASSUME NEW s \in Seq(Ids), NEW p \in Seq(Ids), NEW h \in Seq(Ids), OrderOK(s, p, h),
           s # << >>
    PROVE  /\ OrderOK(Tail(s), p, h)
           /\ \A m : NextOK(s, p, h, m) => NextOK(Tail(s), p, h, m)
<1>1. /\ Len(Tail(s)) = Len(s) - 1 /\ Len(s) \in Nat \ {0} /\ Len(p) \in Nat
      /\ \A i \in 1..Len(Tail(s)) : Tail(s)[i] = s[i + 1]
  OBVIOUS
<1>2. Suffix(Tail(s), p)
  BY <1>1 DEF OrderOK, Suffix
<1>3. Front(Tail(s), p) = Front(s, p) + 1 /\ Front(s, p) \in Nat
  BY <1>1 DEF Front, OrderOK, Suffix
<1>4. ASSUME NEW m \in Elements(p), Pos(p, m) <= Front(s, p)
      PROVE  Pos(p, m) <= Front(Tail(s), p)
  <2>1. Pos(p, m) \in Nat
    BY PosIs DEF OrderOK
  <2> QED BY <1>3, <1>4, <2>1
<1> QED BY <1>2, <1>4 DEF OrderOK, NextOK

\* The first message may be handled next.
LEMMA HeadOrder ==
    ASSUME NEW s \in Seq(Ids), NEW p \in Seq(Ids), NEW h \in Seq(Ids), OrderOK(s, p, h),
           s # << >>
    PROVE  NextOK(s, p, h, Head(s))
<1>1. Len(s) \in Nat \ {0} /\ Len(p) \in Nat /\ Len(s) <= Len(p) /\ Head(s) = s[1]
  BY DEF OrderOK, Suffix
<1>2. Front(s, p) \in 1..Len(p) /\ p[Front(s, p)] = Head(s)
  BY <1>1 DEF Front, OrderOK, Suffix
<1>3. Head(s) \in Elements(p)
  BY <1>2 DEF Elements
<1>4. Pos(p, Head(s)) = Front(s, p)
  BY <1>2, <1>3, PosIs DEF OrderOK
<1> QED BY <1>2, <1>3, <1>4 DEF OrderOK, NextOK

\* It is handled.
LEMMA HandledOrder ==
    ASSUME NEW s \in Seq(Ids), NEW p \in Seq(Ids), NEW h \in Seq(Ids), OrderOK(s, p, h),
           NEW m \in Ids, NextOK(s, p, h, m)
    PROVE  OrderOK(s, p, Append(h, m))
<1> DEFINE n == Append(h, m)
<1>1. /\ Len(h) \in Nat /\ Len(n) = Len(h) + 1 /\ n[Len(h) + 1] = m
      /\ \A i \in 1..Len(h) : n[i] = h[i]
  OBVIOUS
<1> HIDE DEF n
<1>2. ASSUME NEW i \in 1..Len(n) PROVE n[i] \in Elements(p) /\ Pos(p, n[i]) <= Front(s, p)
  <2>1. i \in 1..Len(h) \/ i = Len(h) + 1
    BY <1>1
  <2> QED BY <1>1, <2>1 DEF OrderOK, NextOK
<1>3. ASSUME NEW i \in 1..Len(n), NEW j \in 1..Len(n), i < j
      PROVE  Pos(p, n[i]) <= Pos(p, n[j])
  <2>1. i \in 1..Len(h) /\ (j \in 1..Len(h) \/ j = Len(h) + 1)
    BY <1>1, <1>3
  <2> QED BY <1>1, <1>3, <2>1 DEF OrderOK, NextOK
<1>4. OrderOK(s, p, n)
  BY <1>2, <1>3 DEF OrderOK
<1> QED BY <1>4 DEF n

\* A message is published.
LEMMA PublishedOrder ==
    ASSUME NEW s \in Seq(Ids), NEW p \in Seq(Ids), NEW h \in Seq(Ids), OrderOK(s, p, h),
           NEW m \in Ids, m \notin Elements(p)
    PROVE  /\ OrderOK(Append(s, m), Append(p, m), h)
           /\ \A x : NextOK(s, p, h, x) => NextOK(Append(s, m), Append(p, m), h, x)
<1> DEFINE t == Append(s, m)
           r == Append(p, m)
<1>1. /\ Len(p) \in Nat /\ Len(s) \in Nat /\ Len(r) = Len(p) + 1 /\ Len(t) = Len(s) + 1
      /\ \A i \in 1..Len(p) : r[i] = p[i]
      /\ \A i \in 1..Len(s) : t[i] = s[i]
      /\ r[Len(p) + 1] = m /\ t[Len(s) + 1] = m
      /\ r \in Seq(Ids)
  OBVIOUS
<1> HIDE DEF t, r
<1>2. Distinct(r)
  <2>1. \A i \in 1..Len(p) : p[i] # m
    BY DEF Elements
  <2> QED BY <1>1, <2>1 DEF OrderOK, Distinct
<1>3. Suffix(t, r)
  <2>1. Suffix(s, p) /\ Len(s) <= Len(p)
    BY DEF OrderOK, Suffix
  <2>2. Len(r) - Len(t) = Len(p) - Len(s) /\ Len(t) <= Len(r)
    BY <1>1, <2>1
  <2>3. ASSUME NEW i \in 1..Len(t) PROVE t[i] = r[Len(p) - Len(s) + i]
    <3>1. CASE i = Len(s) + 1
      <4>1. Len(p) - Len(s) + i = Len(p) + 1
        BY <1>1, <3>1
      <4> QED BY <1>1, <3>1, <4>1
    <3>2. CASE i # Len(s) + 1
      <4>1. i \in 1..Len(s) /\ Len(p) - Len(s) + i \in 1..Len(p)
        BY <1>1, <2>1, <3>2
      <4> QED BY <1>1, <2>1, <4>1 DEF Suffix
    <3> QED BY <3>1, <3>2
  <2> QED BY <2>2, <2>3 DEF Suffix
<1>4. Front(t, r) = Front(s, p)
  BY <1>1 DEF Front
<1>5. ASSUME NEW x \in Elements(p) PROVE x \in Elements(r) /\ Pos(r, x) = Pos(p, x)
  <2>1. Pos(p, x) \in 1..Len(p) /\ p[Pos(p, x)] = x
    BY PosIs DEF OrderOK
  <2>2. Pos(p, x) \in 1..Len(r) /\ r[Pos(p, x)] = x
    BY <1>1, <2>1
  <2>3. x \in Elements(r)
    BY <2>2 DEF Elements
  <2> QED BY <1>1, <1>2, <2>2, <2>3, PosIs
<1>6. OrderOK(t, r, h) /\ \A x : NextOK(s, p, h, x) => NextOK(t, r, h, x)
  BY <1>2, <1>3, <1>4, <1>5 DEF OrderOK, NextOK
<1> QED BY <1>6 DEF t, r

\* How often message m is in a sequence.
Runs(h, m) == Cardinality({i \in 1..Len(h) : h[i] = m})

\* Appending a message adds one to its runs.
LEMMA RunsAppend ==
    ASSUME NEW h \in Seq(Ids), NEW m \in Ids, NEW x \in Ids
    PROVE  /\ Runs(h, x) \in Nat
           /\ Runs(Append(h, m), x) = Runs(h, x) + (IF x = m THEN 1 ELSE 0)
<1> DEFINE old == {i \in 1..Len(h) : h[i] = x}
           new == {i \in 1..Len(Append(h, m)) : Append(h, m)[i] = x}
<1>1. IsFiniteSet(old) /\ Cardinality(old) \in Nat
  <2>1. Len(h) \in Nat /\ IsFiniteSet(1..Len(h))
    BY FS_Interval
  <2> QED BY <2>1, FS_Subset, FS_CardinalityType
<1>2. new = old \cup (IF x = m THEN {Len(h) + 1} ELSE {}) /\ Len(h) + 1 \notin old
  OBVIOUS
<1> HIDE DEF old, new
<1>3. Cardinality(new) = Cardinality(old) + (IF x = m THEN 1 ELSE 0)
  <2>1. CASE x = m
    BY <1>1, <1>2, <2>1, FS_AddElement
  <2>2. CASE x # m
    BY <1>1, <1>2, <2>2
  <2> QED BY <2>1, <2>2
<1> QED BY <1>1, <1>3 DEF Runs, old, new

(***************************************************************************)
(* The workers keep to the order, and to the deliveries.                   *)
(***************************************************************************)
Handling(q, m) ==
    /\ worker[WorkerOf(q)].pc = "handle"
    /\ worker[WorkerOf(q)].queue = q /\ worker[WorkerOf(q)].msg = m

\* A worker holds messages of its own queues.
OwnQueue == \A w \in Workers : worker[w] # Idle => WorkerOf(worker[w].queue) = w

\* Every run of a handler had a delivery, the one that goes on included.
RunInv ==
    \A q \in Queues, m \in Ids :
        Runs(handled[q], m) + (IF Handling(q, m) THEN 1 ELSE 0) <= deliveries[q][m]

OrderInv == \A q \in Queues : OrderOK(queue[q], published[q], handled[q])

MayHandle(q, m) == NextOK(queue[q], published[q], handled[q], m)

\* What a worker is handling does not come before what it has handled.
NextInv == \A w \in Workers : worker[w].pc = "handle" => MayHandle(worker[w].queue, worker[w].msg)

TurnInv == OwnQueue /\ RunInv /\ OrderInv /\ NextInv

\* Types of one queue and of the workers.
LEMMA QueueTypes ==
    ASSUME PipeInv
    PROVE  /\ \A q \in Queues : queue[q] \in Seq(Ids) /\ published[q] \in Seq(Ids)
                                /\ handled[q] \in Seq(Ids)
           /\ \A q \in Queues, m \in Ids : deliveries[q][m] \in Nat /\ Runs(handled[q], m) \in Nat
           /\ \A w \in Workers : worker[w] # Idle =>
                 worker[w] \in Busy /\ worker[w].queue \in Queues /\ worker[w].msg \in Ids
           /\ \A w \in Workers : worker[w].pc # "idle" => worker[w] # Idle
<1>1. \A q \in Queues : queue[q] \in Seq(Ids) /\ published[q] \in Seq(Ids) /\ handled[q] \in Seq(Ids)
  BY DEF PipeInv, TypeOK
<1>2. \A q \in Queues, m \in Ids : deliveries[q][m] \in Nat
  BY PipelineAssumption DEF PipeInv, TypeOK
<1>3. \A q \in Queues, m \in Ids : Runs(handled[q], m) \in Nat
  BY <1>1, RunsAppend
<1>4. \A w \in Workers : worker[w] # Idle =>
                 worker[w] \in Busy /\ worker[w].queue \in Queues /\ worker[w].msg \in Ids
  BY InvParts, BusyWorker
<1>5. \A w \in Workers : worker[w].pc # "idle" => worker[w] # Idle
  BY DEF Idle
<1> QED BY <1>1, <1>2, <1>3, <1>4, <1>5

\* A step that handles nothing and takes nothing in hand: messages may leave
\* their queues, be delivered, or fall out of the workers' hands.
LEMMA QuietTurn ==
    ASSUME PipeInv, PipeInv', TurnInv, published' = published, handled' = handled,
           \A r \in Queues : \/ queue'[r] = queue[r]
                             \/ queue[r] # << >> /\ queue'[r] = Tail(queue[r]),
           \A r \in Queues, m \in Ids : deliveries[r][m] <= deliveries'[r][m],
           \A v \in Workers : worker'[v] = worker[v] \/ worker'[v] = Idle
    PROVE  TurnInv'
<1>1. OwnQueue'
  BY DEF TurnInv, OwnQueue
<1>2. RunInv'
  <2> SUFFICES ASSUME NEW q \in Queues, NEW m \in Ids
               PROVE  Runs(handled[q], m) + (IF Handling(q, m)' THEN 1 ELSE 0) <= deliveries'[q][m]
    BY DEF RunInv
  <2>1. Handling(q, m)' => Handling(q, m)
    BY DEF Handling, Idle, Workers
  <2>2. /\ Runs(handled[q], m) \in Nat /\ deliveries[q][m] \in Nat
        /\ deliveries[q][m] <= deliveries'[q][m]
    BY QueueTypes
  <2>3. deliveries'[q][m] \in Nat
    BY PipelineAssumption DEF PipeInv, TypeOK
  <2>4. Runs(handled[q], m) + (IF Handling(q, m) THEN 1 ELSE 0) <= deliveries[q][m]
    BY DEF TurnInv, RunInv
  <2> QED BY <2>1, <2>2, <2>3, <2>4
<1>3. ASSUME NEW q \in Queues
      PROVE  /\ OrderOK(queue'[q], published'[q], handled'[q])
             /\ \A m : MayHandle(q, m) => NextOK(queue'[q], published'[q], handled'[q], m)
  <2>1. OrderOK(queue[q], published[q], handled[q])
    BY DEF TurnInv, OrderInv
  <2> QED BY <2>1, QueueTypes, TailOrder DEF MayHandle
<1>4. NextInv'
  <2> SUFFICES ASSUME NEW w \in Workers, worker'[w].pc = "handle"
               PROVE  MayHandle(worker[w].queue, worker[w].msg)'
    BY DEF NextInv
  <2>1. worker'[w] = worker[w] /\ worker[w].queue \in Queues
    BY QueueTypes DEF Idle
  <2>2. MayHandle(worker[w].queue, worker[w].msg)
    BY <2>1 DEF TurnInv, NextInv
  <2> QED BY <1>3, <2>1, <2>2 DEF MayHandle
<1> QED BY <1>1, <1>2, <1>3, <1>4 DEF TurnInv, OrderInv

\* A fetch hands the first message of a queue to an idle worker.
LEMMA FetchTurn ==
    ASSUME PipeInv, PipeInv', TurnInv, NEW w \in Workers, NEW q \in Queues, WorkerOf(q) = w,
           Fetch(w, q)
    PROVE  TurnInv'
<1> DEFINE h == Head(queue[q])
<1>1. /\ worker[w] = Idle /\ queue[q] # << >> /\ queue' = queue /\ published' = published
      /\ handled' = handled /\ deliveries' = [deliveries EXCEPT ![q][h] = @ + 1]
  BY DEF Fetch, Deliver, Deliverable
<1>2. h \in Ids /\ MayHandle(q, h)
  BY <1>1, QueueTypes, HeadOrder DEF TurnInv, OrderInv, MayHandle
<1>3. \A r \in Queues, m \in Ids :
         deliveries'[r][m] = deliveries[r][m] + (IF r = q /\ m = h THEN 1 ELSE 0)
  <2>1. deliveries \in [Queues -> [Ids -> 0..MaxDeliver]]
    BY DEF PipeInv, TypeOK
  <2>2. \A r \in Queues, m \in Ids : deliveries[r][m] \in Nat
    BY QueueTypes
  <2> HIDE DEF h
  <2> QED BY <1>1, <1>2, <2>1, <2>2
<1> HIDE DEF h
<1>4. CASE worker' = worker
  <2>1. \A r \in Queues, m \in Ids : deliveries[r][m] <= deliveries'[r][m]
    BY <1>3, QueueTypes
  <2> QED BY <1>1, <1>4, <2>1, QuietTurn
<1>5. CASE worker' = [worker EXCEPT ![w] = [pc |-> "handle", queue |-> q, msg |-> h]]
  <2>1. /\ worker'[w] = [pc |-> "handle", queue |-> q, msg |-> h]
        /\ \A v \in Workers \ {w} : worker'[v] = worker[v]
    BY <1>5 DEF PipeInv, TypeOK
  <2>2. OwnQueue'
    BY <2>1 DEF TurnInv, OwnQueue
  <2>3. RunInv'
    <3> SUFFICES ASSUME NEW r \in Queues, NEW m \in Ids
                 PROVE  Runs(handled[r], m) + (IF Handling(r, m)' THEN 1 ELSE 0)
                           <= deliveries'[r][m]
      BY <1>1 DEF RunInv
    <3>1. Runs(handled[r], m) + (IF Handling(r, m) THEN 1 ELSE 0) <= deliveries[r][m]
      BY DEF TurnInv, RunInv
    <3>2. Runs(handled[r], m) \in Nat /\ deliveries[r][m] \in Nat
      BY QueueTypes
    <3>3. CASE WorkerOf(r) = w
      <4>1. ~ Handling(r, m) /\ (Handling(r, m)' <=> r = q /\ m = h)
        BY <1>1, <2>1, <3>3 DEF Handling, Idle
      <4> QED BY <1>3, <3>1, <3>2, <4>1
    <3>4. CASE WorkerOf(r) # w
      <4>1. r # q /\ (Handling(r, m)' <=> Handling(r, m))
        BY <2>1, <3>4 DEF Handling, Workers
      <4> QED BY <1>3, <3>1, <3>2, <4>1
    <3> QED BY <3>3, <3>4
  <2>4. NextInv'
    <3>1. \A r, m : MayHandle(r, m)' <=> MayHandle(r, m)
      BY <1>1 DEF MayHandle
    <3> QED BY <1>2, <2>1, <3>1 DEF TurnInv, NextInv
  <2>5. OrderInv'
    BY <1>1 DEF TurnInv, OrderInv
  <2> QED BY <2>2, <2>3, <2>4, <2>5 DEF TurnInv
<1> QED BY <1>4, <1>5 DEF Fetch, h

\* A handler that ends adds the message in hand to what was handled.
LEMMA HandleTurn ==
    ASSUME PipeInv, PipeInv', TurnInv, NEW w \in Workers, Handle(w)
    PROVE  TurnInv'
<1> DEFINE q == worker[w].queue
           m == worker[w].msg
<1>1. /\ worker[w] \in Busy /\ worker[w].pc = "handle" /\ q \in Queues /\ m \in Ids
      /\ WorkerOf(q) = w /\ MayHandle(q, m)
  <2>1. worker[w].pc = "handle" /\ worker[w] # Idle
    BY DEF Handle, Idle
  <2> QED BY <2>1, QueueTypes DEF TurnInv, OwnQueue, NextInv
<1>2. /\ queue' = queue /\ published' = published /\ deliveries' = deliveries
      /\ handled' = [handled EXCEPT ![q] = Append(@, m)]
      /\ worker' = [worker EXCEPT ![w].pc = "ack"]
  BY DEF Handle, queueVars
<1>3. /\ handled'[q] = Append(handled[q], m)
      /\ \A r \in Queues \ {q} : handled'[r] = handled[r]
  BY <1>1, <1>2 DEF PipeInv, TypeOK
<1>4. /\ worker'[w].pc = "ack" /\ worker'[w].queue = q
      /\ \A v \in Workers \ {w} : worker'[v] = worker[v]
  BY <1>1, <1>2 DEF PipeInv, TypeOK, Busy
<1> HIDE DEF q, m
<1>5. OwnQueue'
  <2> SUFFICES ASSUME NEW v \in Workers, worker'[v] # Idle PROVE WorkerOf(worker'[v].queue) = v
    BY DEF OwnQueue
  <2>1. CASE v = w
    BY <1>1, <1>4, <2>1
  <2>2. CASE v # w
    BY <1>4, <2>2 DEF TurnInv, OwnQueue
  <2> QED BY <2>1, <2>2
<1>6. RunInv'
  <2> SUFFICES ASSUME NEW r \in Queues, NEW x \in Ids
               PROVE  Runs(handled'[r], x) + (IF Handling(r, x)' THEN 1 ELSE 0) <= deliveries[r][x]
    BY <1>2 DEF RunInv
  <2>1. /\ Runs(handled[r], x) + (IF Handling(r, x) THEN 1 ELSE 0) <= deliveries[r][x]
        /\ deliveries[r][x] \in Nat /\ Runs(handled[r], x) \in Nat
    BY QueueTypes DEF TurnInv, RunInv
  <2>2. CASE r = q
    <3>1. Runs(handled'[r], x) = Runs(handled[r], x) + (IF x = m THEN 1 ELSE 0)
      <4>1. handled[q] \in Seq(Ids)
        BY <1>1, QueueTypes
      <4>2. Runs(Append(handled[q], m), x) = Runs(handled[q], x) + (IF x = m THEN 1 ELSE 0)
        BY <1>1, <4>1, RunsAppend
      <4> QED BY <1>3, <2>2, <4>2
    <3>2. ~ Handling(r, x)' /\ (Handling(r, x) <=> x = m)
      BY <1>1, <1>4, <2>2 DEF Handling, q, m
    <3> QED BY <2>1, <3>1, <3>2
  <2>3. CASE r # q
    <3>1. Handling(r, x)' => Handling(r, x)
      <4>1. CASE WorkerOf(r) = w
        BY <1>4, <4>1 DEF Handling
      <4>2. CASE WorkerOf(r) # w
        BY <1>4, <4>2 DEF Handling, Workers
      <4> QED BY <4>1, <4>2
    <3> QED BY <1>3, <2>1, <2>3, <3>1
  <2> QED BY <2>2, <2>3
<1>7. OrderInv'
  <2>1. OrderOK(queue[q], published[q], Append(handled[q], m))
    BY <1>1, QueueTypes, HandledOrder DEF TurnInv, OrderInv, MayHandle
  <2> QED BY <1>2, <1>3, <2>1 DEF TurnInv, OrderInv
<1>8. NextInv'
  <2> SUFFICES ASSUME NEW v \in Workers, worker'[v].pc = "handle"
               PROVE  MayHandle(worker[v].queue, worker[v].msg)'
    BY DEF NextInv
  <2>1. v # w /\ worker'[v] = worker[v] /\ worker[v] # Idle
    BY <1>4, QueueTypes
  <2>2. /\ worker[v].queue \in Queues \ {q}
        /\ MayHandle(worker[v].queue, worker[v].msg)
    BY <1>1, <2>1, QueueTypes DEF TurnInv, OwnQueue, NextInv
  <2> QED BY <1>2, <1>3, <2>1, <2>2 DEF MayHandle
<1> QED BY <1>5, <1>6, <1>7, <1>8 DEF TurnInv

\* A new message goes to the end of its queue.
LEMMA PublishTurn ==
    ASSUME PipeInv, PipeInv', TurnInv, NEW q \in Queues, NEW m \in Ids,
           m \notin Elements(published[q]), Publish(q, m), UNCHANGED workerVars
    PROVE  TurnInv'
<1>1. /\ worker' = worker /\ handled' = handled /\ deliveries' = deliveries
      /\ queue'[q] = Append(queue[q], m) /\ published'[q] = Append(published[q], m)
      /\ \A r \in Queues \ {q} : queue'[r] = queue[r] /\ published'[r] = published[r]
  BY DEF Publish, workerVars, PipeInv, TypeOK
<1>2. OwnQueue' /\ RunInv'
  BY <1>1 DEF TurnInv, OwnQueue, RunInv, Handling
<1>3. ASSUME NEW r \in Queues
      PROVE  /\ OrderOK(queue'[r], published'[r], handled'[r])
             /\ \A x : MayHandle(r, x) => NextOK(queue'[r], published'[r], handled'[r], x)
  <2>1. OrderOK(queue[r], published[r], handled[r])
    BY DEF TurnInv, OrderInv
  <2> QED BY <1>1, <2>1, QueueTypes, PublishedOrder DEF MayHandle
<1>4. NextInv'
  <2> SUFFICES ASSUME NEW w \in Workers, worker[w].pc = "handle"
               PROVE  MayHandle(worker[w].queue, worker[w].msg)'
    BY <1>1 DEF NextInv
  <2>1. worker[w].queue \in Queues /\ MayHandle(worker[w].queue, worker[w].msg)
    BY QueueTypes DEF TurnInv, NextInv
  <2> QED BY <1>1, <1>3, <2>1 DEF MayHandle
<1> QED BY <1>2, <1>3, <1>4 DEF TurnInv, OrderInv

\* Every step of a worker keeps the order.
LEMMA WorkerTurn ==
    ASSUME PipeInv, PipeInv', TurnInv, NEW w \in Workers, WorkerStep(w)
    PROVE  TurnInv'
<1>1. CASE RunAsync(w)
  <2>1. w \in Queues /\ Fetch(w, w) /\ WorkerOf(w) = w
    BY <1>1, WorkerQueues DEF RunAsync, WorkerOf
  <2> QED BY <2>1, FetchTurn
<1>2. CASE w = "ontology" /\ (RunFast \/ RunNormal)
  <2>1. PICK q \in {"fast", "normal"} : q \in Queues /\ Fetch(w, q) /\ WorkerOf(q) = w
    BY <1>2, WorkerQueues DEF RunFast, RunNormal, WorkerOf
  <2> QED BY <2>1, FetchTurn
<1>3. CASE FastEmpty \/ NormalEmpty
  <2>1. UNCHANGED <<queueVars, worker, handled>>
    BY <1>3 DEF FastEmpty, NormalEmpty
  <2>2. \A r \in Queues, m \in Ids : deliveries[r][m] <= deliveries'[r][m]
    BY <2>1, QueueTypes DEF queueVars
  <2> QED BY <2>1, <2>2, QuietTurn DEF queueVars
<1>4. CASE Handle(w)
  BY <1>4, HandleTurn
<1>5. CASE Acknowledge(w) \/ Nak(w)
  <2>1. /\ worker' = [worker EXCEPT ![w] = Idle] /\ handled' = handled
        /\ published' = published /\ deliveries' = deliveries
    BY <1>5 DEF Acknowledge, Nak, Remove, Requeue, queueVars
  <2>2. \A r \in Queues : \/ queue'[r] = queue[r]
                          \/ queue[r] # << >> /\ queue'[r] = Tail(queue[r])
    BY <1>5 DEF Acknowledge, Nak, Remove, Requeue, queueVars, IsPending, PipeInv, TypeOK
  <2>3. \A r \in Queues, m \in Ids : deliveries[r][m] <= deliveries'[r][m]
    BY <2>1, QueueTypes
  <2>4. \A v \in Workers : worker'[v] = worker[v] \/ worker'[v] = Idle
    BY <2>1 DEF PipeInv, TypeOK
  <2> QED BY <2>1, <2>2, <2>3, <2>4, QuietTurn
<1> QED BY <1>1, <1>2, <1>3, <1>4, <1>5 DEF WorkerStep

\* So does every other step.
LEMMA TurnStep == PipeInv /\ TurnInv /\ [PipeNext]_pipeVars => TurnInv'
<1> SUFFICES ASSUME PipeInv, TurnInv, [PipeNext]_pipeVars PROVE TurnInv'
  OBVIOUS
<1>1. PipeInv'
  BY PipeStep
<1>2. \A r \in Queues, m \in Ids : deliveries[r][m] <= deliveries[r][m]
  BY QueueTypes
<1>3. ASSUME UNCHANGED <<queueVars, handled>>,
             \A v \in Workers : worker'[v] = worker[v] \/ worker'[v] = Idle
      PROVE  TurnInv'
  BY <1>1, <1>2, <1>3, QuietTurn DEF queueVars
<1>4. CASE Environment
  BY <1>1, <1>3, <1>4, PublishTurn DEF Environment, workerVars
<1>5. ASSUME NEW w \in Workers, WorkerStep(w) PROVE TurnInv'
  BY <1>1, <1>5, WorkerTurn
<1>6. ASSUME NEW q \in Queues, AckWait(q) \/ Discard(q) PROVE TurnInv'
  <2>1. /\ worker' = worker /\ handled' = handled /\ published' = published
        /\ deliveries' = deliveries
    BY <1>6 DEF AckWait, Requeue, Discard, workerVars
  <2>2. queue[q] # << >>
    BY <1>6 DEF AckWait, Discard, PipeInv, QueueInv, QueueOK
  <2>3. \A r \in Queues : \/ queue'[r] = queue[r]
                          \/ queue[r] # << >> /\ queue'[r] = Tail(queue[r])
    BY <1>6, <2>2 DEF AckWait, Requeue, Discard, PipeInv, TypeOK
  <2> QED BY <1>1, <1>2, <2>1, <2>3, QuietTurn
<1>7. CASE Fault /\ PipeCrash
  BY <1>3, <1>7 DEF PipeCrash
<1>8. CASE UNCHANGED pipeVars
  BY <1>3, <1>8 DEF pipeVars, workerVars
<1> QED BY <1>4, <1>5, <1>6, <1>7, <1>8 DEF PipeNext

\* Nothing was handled in the initial state.
LEMMA TurnStart == PipeInit => TurnInv
<1> SUFFICES ASSUME PipeInit PROVE TurnInv
  OBVIOUS
<1>1. \A m : Runs(<< >>, m) = 0
  <2>1. \A m : {i \in 1..Len(<< >>) : << >>[i] = m} = {}
    OBVIOUS
  <2> QED BY <2>1, FS_EmptySet DEF Runs
<1>2. \A q \in Queues, m \in Ids : ~ Handling(q, m)
  BY DEF PipeInit, Handling, Idle, Workers
<1>3. RunInv
  BY <1>1, <1>2 DEF PipeInit, RunInv
<1>4. OwnQueue /\ NextInv
  BY DEF PipeInit, OwnQueue, NextInv, Idle
<1>5. OrderInv
  BY DEF PipeInit, OrderInv, OrderOK, Distinct, Suffix
<1> QED BY <1>3, <1>4, <1>5 DEF TurnInv

\* What the workers do keeps to the order of the queues.
LEMMA TurnCorrect == PipeSpec => [](PipeInv /\ TurnInv)
<1>1. PipeInv /\ TurnInv /\ [PipeNext]_pipeVars => (PipeInv /\ TurnInv)'
  BY PipeStep, TurnStep
<1> QED BY <1>1, PipeStart, TurnStart, PTL DEF PipeSpec

\* Whatever is redelivered, nak'ed, acknowledged late or lost with the process:
\* a worker never goes back to a message older than one it has handled.
THEOREM StagesInOrder == PipeSpec => []FIFO
<1>1. ASSUME PipeInv, TurnInv PROVE FIFO
  <2> SUFFICES ASSUME NEW q \in Queues, NEW i \in DOMAIN handled[q], NEW j \in DOMAIN handled[q],
                      i < j
               PROVE  Position(q, handled[q][i]) <= Position(q, handled[q][j])
    BY DEF FIFO
  <2>1. DOMAIN handled[q] = 1..Len(handled[q])
    BY <1>1, QueueTypes
  <2>2. \A m : Position(q, m) = Pos(published[q], m)
    BY DEF Position, Pos
  <2> QED BY <1>1, <2>1, <2>2 DEF TurnInv, OrderInv, OrderOK
<1> QED BY <1>1, TurnCorrect, PTL

\* A handler, which is not idempotent, never runs more often for a message than
\* the message was delivered.
THEOREM RunsAreDelivered == PipeSpec => []RunsPerMessage
<1>1. ASSUME PipeInv, TurnInv PROVE RunsPerMessage
  <2> SUFFICES ASSUME NEW q \in Queues, NEW m \in Elements(published[q])
               PROVE  Cardinality({i \in DOMAIN handled[q] : handled[q][i] = m}) <= deliveries[q][m]
    BY DEF RunsPerMessage
  <2>1. m \in Ids /\ DOMAIN handled[q] = 1..Len(handled[q])
    BY <1>1, QueueTypes DEF Elements
  <2>2. Runs(handled[q], m) \in Nat /\ deliveries[q][m] \in Nat
    BY <1>1, <2>1, QueueTypes
  <2>3. Runs(handled[q], m) <= deliveries[q][m]
    BY <1>1, <2>1, <2>2 DEF TurnInv, RunInv
  <2> QED BY <2>1, <2>3 DEF Runs
<1> QED BY <1>1, TurnCorrect, PTL

(***************************************************************************)
(* run_curation and the workers together implement PipeSpec.               *)
(***************************************************************************)
CallInv ==
    /\ call \in [Curations -> Call]
    /\ published \in [Queues -> Seq(Ids)]
    /\ PublishedInOrder

\* The walk of the workflow, stage by stage.
LEMMA StageFacts ==
    /\ Len(Stages) = 5
    /\ Stages[3] = "artifacts" /\ Stages[4] = "causals" /\ Stages[5] = "ontology"
    /\ \A i \in 1..5 : Stages[i] \notin SyncStages <=> i \in 3..5
    /\ \A i \in 3..5 : SubjectOf(Stages[i]) \in AllQueues \ {"fast"}
    /\ \A i, j \in 3..5 : SubjectOf(Stages[i]) = SubjectOf(Stages[j]) => i = j
BY DEF Stages, SyncStages, SubjectOf, AllQueues

\* A step of a call that publishes nothing keeps the invariant of the calls.
LEMMA WalkOn ==
    ASSUME CallInv, published' = published, call' \in [Curations -> Call],
           \A c \in Curations : call'[c].next >= call[c].next
    PROVE  CallInv'
<1>1. \A c \in Curations : call[c].next \in Nat /\ call'[c].next \in Nat
  BY StageFacts DEF CallInv, Call
<1>2. PublishedInOrder'
  BY <1>1, StageFacts DEF CallInv, PublishedInOrder
<1> QED BY <1>2 DEF CallInv

\* A call that only moves its program counter.
LEMMA Moves ==
    ASSUME CallInv, NEW c \in Curations, NEW p \in CallPC,
           call' = [call EXCEPT ![c].pc = p]
    PROVE  /\ call' \in [Curations -> Call]
           /\ \A d \in Curations : call'[d].next >= call[d].next
<1>1. \A d \in Curations : call[d] \in Call /\ call[d].next \in Nat
  BY StageFacts DEF CallInv, Call
<1>2. [call[c] EXCEPT !.pc = p] \in Call
  BY <1>1 DEF Call
<1>3. call' = [call EXCEPT ![c] = [call[c] EXCEPT !.pc = p]]
  OBVIOUS
<1>4. call' \in [Curations -> Call]
  BY <1>2, <1>3 DEF CallInv
<1>5. \A d \in Curations : call'[d].next = call[d].next
  BY <1>1, <1>3 DEF CallInv, Call
<1> QED BY <1>1, <1>4, <1>5

\* A stage moves its call on to the next one, and no other call.
LEMMA StageMoves ==
    ASSUME CallInv, NEW c \in Curations, RunSync(c) \/ QueueAsync(c)
    PROVE  /\ call' \in [Curations -> Call]
           /\ call[c].pc = "stage" /\ call[c].next \in 1..5
           /\ call'[c].pc = "stage" /\ call'[c].next = call[c].next + 1
           /\ \A d \in Curations : d # c => call'[d] = call[d]
<1>1. call \in [Curations -> Call] /\ call[c] \in Call
  BY DEF CallInv
<1>2. InStage(c)
  BY DEF RunSync, QueueAsync
<1>3. call[c].pc = "stage" /\ call[c].next \in 1..5 /\ call[c].next + 1 \in 1..(Len(Stages) + 1)
  BY <1>1, <1>2, StageFacts DEF InStage, Call
<1>4. PICK results \in SUBSET SyncStages, empty \in SUBSET SyncStages :
         call' = [call EXCEPT ![c].next = @ + 1, ![c].results = @ \cup results,
                              ![c].empty = @ \cup empty]
  <2>1. CASE RunSync(c)
    BY <2>1 DEF RunSync
  <2>2. CASE QueueAsync(c)
    <3>1. call[c].results \cup {} = call[c].results /\ call[c].empty \cup {} = call[c].empty
      OBVIOUS
    <3>2. call' = [call EXCEPT ![c].next = @ + 1, ![c].results = @ \cup {}, ![c].empty = @ \cup {}]
      BY <1>1, <2>2, <3>1 DEF QueueAsync, Call
    <3> QED BY <3>2
  <2> QED BY <2>1, <2>2
<1> DEFINE r == [call[c] EXCEPT !.next = @ + 1, !.results = @ \cup results,
                                !.empty = @ \cup empty]
<1>5. r \in Call /\ r.next = call[c].next + 1 /\ r.pc = "stage"
  BY <1>1, <1>3 DEF Call
<1>6. call' = [call EXCEPT ![c] = r]
  BY <1>4
<1> HIDE DEF r
<1> QED BY <1>1, <1>3, <1>5, <1>6

\* _queue_async: the stage goes to a queue that does not have it yet.
LEMMA QueueAsyncStep ==
    ASSUME CallInv, NEW c \in Curations, QueueAsync(c)
    PROVE  CallInv' /\ Environment
<1> DEFINE n == call[c].next
           q == SubjectOf(Stages[n])
<1>1. call[c] \in Call /\ n \in 3..5 /\ q \in Queues /\ c \in Ids
  BY StageFacts, CurationsAssumption DEF QueueAsync, InStage, Stage, CallInv, Call
<1>7. <<q, c>> \in Traffic
  BY <1>1, StageFacts, CurationsAssumption DEF CurationTraffic, AllQueues
<1>2. c \notin Elements(published[q])
  BY <1>1, StageFacts DEF CallInv, PublishedInOrder
<1>3. /\ call' \in [Curations -> Call]
      /\ call'[c].next = n + 1
      /\ \A d \in Curations : d # c => call'[d] = call[d]
  BY StageMoves
<1>4. \A d \in Curations : call'[d].next >= call[d].next /\ call[d].next \in Nat
  BY <1>1, <1>3, StageFacts DEF CallInv, Call
<1>5. CASE Works /\ Publish(q, c)
  <2>1. published' = [published EXCEPT ![q] = Append(@, c)]
    BY <1>5 DEF Publish
  <2>2. published[q] \in Seq(Ids) /\ published' \in [Queues -> Seq(Ids)]
    BY <1>1, <2>1 DEF CallInv
  <2>3. /\ \A r \in Queues : r # q => published'[r] = published[r]
        /\ Elements(published'[q]) = Elements(published[q]) \cup {c}
    BY <1>1, <2>1, <2>2, ElementsAppend DEF CallInv
  <2>4. PublishedInOrder'
    <3> SUFFICES ASSUME NEW d \in Curations, NEW i \in call'[d].next..Len(Stages),
                        Stages[i] \notin SyncStages
                 PROVE  d \notin Elements(published'[SubjectOf(Stages[i])])
      BY DEF PublishedInOrder
    <3>1. i \in call[d].next..Len(Stages) /\ i \in 1..5
      BY <1>3, <1>4, StageFacts DEF Call
    <3>2. i \in 3..5 /\ SubjectOf(Stages[i]) \in Queues
      BY <3>1, StageFacts, CurationsAssumption
    <3>3. d \notin Elements(published[SubjectOf(Stages[i])])
      BY <3>1 DEF CallInv, PublishedInOrder
    <3>4. CASE d = c
      <4>1. i # n
        BY <3>4, <1>1, <1>3
      <4>2. SubjectOf(Stages[i]) # q
        BY <4>1, <3>2, <1>1, StageFacts
      <4> QED BY <4>2, <3>2, <3>3, <2>3
    <3>5. CASE d # c
      BY <3>5, <3>2, <3>3, <2>3
    <3> QED BY <3>4, <3>5
  <2>5. Environment
    BY <1>1, <1>2, <1>5, <1>7 DEF QueueAsync, Environment, Works
  <2> QED BY <1>3, <2>2, <2>4, <2>5 DEF CallInv
<1>6. CASE Fault /\ UNCHANGED queueVars
  <2>1. Environment
    BY <1>6 DEF QueueAsync, Environment
  <2>2. published' = published
    BY <1>6 DEF queueVars
  <2> QED BY <1>3, <1>4, <2>1, <2>2, WalkOn
<1> QED BY <1>5, <1>6 DEF QueueAsync, Stage

\* Every step of a call is one the workers' specification allows.
LEMMA CallKeeps ==
    ASSUME CallInv, NEW c \in Curations, CallStep(c)
    PROVE  CallInv' /\ [PipeNext]_pipeVars
<1>1. call[c] \in Call /\ \A d \in Curations : call[d] \in Call /\ call[d].next \in Nat
  BY StageFacts DEF CallInv, Call
<1>2. ASSUME published' = published, call' \in [Curations -> Call],
             \A d \in Curations : call'[d].next >= call[d].next
      PROVE  CallInv'
  BY <1>2, WalkOn
<1>3. CASE Begin(c) \/ EndWorkflow(c) \/ Return(c)
  <2>1. UNCHANGED pipeVars /\ published' = published
    BY <1>3 DEF Begin, EndWorkflow, Return, pipeVars, queueVars
  <2>2. PICK p \in CallPC : call' = [call EXCEPT ![c].pc = p]
    BY <1>3 DEF Begin, EndWorkflow, Return, CallPC
  <2> QED BY <1>2, <2>1, <2>2, Moves
<1>4. CASE RunSync(c)
  <2>1. UNCHANGED pipeVars /\ published' = published
    BY <1>4 DEF RunSync, pipeVars, queueVars
  <2>2. /\ call' \in [Curations -> Call] /\ call'[c].next = call[c].next + 1
        /\ \A d \in Curations : d # c => call'[d] = call[d]
    BY <1>4, StageMoves
  <2>3. \A d \in Curations : call'[d].next >= call[d].next
    BY <1>1, <2>2
  <2> QED BY <1>2, <2>1, <2>2, <2>3
<1>5. CASE QueueAsync(c)
  BY <1>5, QueueAsyncStep DEF PipeNext
<1>6. CASE StoreReflection(c) \/ StoreKnowledge(c)
  <2>1. UNCHANGED <<queueVars, workerVars>> /\ (Works \/ Fault) /\ published' = published
    BY <1>6 DEF StoreReflection, StoreKnowledge, queueVars
  <2>2. [PipeNext]_pipeVars
    BY <2>1 DEF PipeNext, Environment, pipeVars, Works
  <2>3. PICK p \in CallPC : call' = [call EXCEPT ![c].pc = p]
    BY <1>6 DEF StoreReflection, StoreKnowledge, CallPC
  <2> QED BY <1>2, <2>1, <2>2, <2>3, Moves
<1> QED BY <1>3, <1>4, <1>5, <1>6 DEF CallStep

\* A step that leaves the calls and what was published alone.
LEMMA OthersKeep ==
    ASSUME CallInv, call' = call, published' = published
    PROVE  CallInv'
BY DEF CallInv, PublishedInOrder

\* Every step of the pipeline is a step of the workers and their publisher, or
\* does not concern them.
LEMMA PipelineStep == CallInv /\ [Next]_vars => CallInv' /\ [PipeNext]_pipeVars
<1> SUFFICES ASSUME CallInv, [Next]_vars PROVE CallInv' /\ [PipeNext]_pipeVars
  OBVIOUS
<1>1. ASSUME NEW c \in Curations, CallStep(c) PROVE CallInv' /\ [PipeNext]_pipeVars
  BY <1>1, CallKeeps
<1>2. ASSUME NEW w \in Workers, WorkerStep(w) /\ UNCHANGED callVars
      PROVE  CallInv' /\ [PipeNext]_pipeVars
  <2>1. call' = call /\ published' = published
    BY <1>2 DEF callVars, WorkerStep, RunAsync, RunFast, RunNormal, FastEmpty, NormalEmpty,
       Fetch, Deliver, Handle, Acknowledge, Nak, Remove, Requeue, queueVars
  <2> QED BY <1>2, <2>1, OthersKeep DEF PipeNext
<1>3. ASSUME NEW q \in Queues, (AckWait(q) \/ Discard(q)) /\ UNCHANGED callVars
      PROVE  CallInv' /\ [PipeNext]_pipeVars
  <2>1. call' = call /\ published' = published
    BY <1>3 DEF callVars, AckWait, Requeue, Discard
  <2> QED BY <1>3, <2>1, OthersKeep DEF PipeNext
<1>4. CASE Crash
  <2>1. published' = published /\ Fault /\ PipeCrash
    BY <1>4 DEF Crash, PipeCrash, queueVars
  <2>2. /\ call' \in [Curations -> Call]
        /\ \A c \in Curations : call'[c].next = call[c].next /\ call[c].next \in Nat
    <3> DEFINE dead(c) == [call[c] EXCEPT !.pc = "dead"]
    <3>1. \A c \in Curations : call[c] \in Call /\ call[c].next \in Nat
      BY StageFacts DEF CallInv, Call
    <3>2. \A c \in Curations : dead(c) \in Call /\ dead(c).next = call[c].next
      BY <3>1 DEF Call, CallPC
    <3>3. call' = [c \in Curations |->
                     IF call[c].pc \in {"new", "done"} THEN call[c] ELSE dead(c)]
      BY <1>4 DEF Crash
    <3> HIDE DEF dead
    <3> QED BY <3>1, <3>2, <3>3
  <2> QED BY <2>1, <2>2, WalkOn DEF PipeNext
<1>5. CASE UNCHANGED vars
  <2>1. call' = call /\ published' = published /\ UNCHANGED pipeVars
    BY <1>5 DEF vars, callVars, pipeVars, queueVars
  <2> QED BY <2>1, OthersKeep
<1> QED BY <1>1, <1>2, <1>3, <1>4, <1>5 DEF Next

\* Nothing is published before the first call.
LEMMA PipelineStart == Init => CallInv /\ PipeInit
<1> SUFFICES ASSUME Init PROVE CallInv
  BY DEF Init
<1>1. call \in [Curations -> Call] /\ published \in [Queues -> Seq(Ids)]
  BY StageFacts DEF Init, PipeInit, NewCall, Call, CallPC
<1>2. PublishedInOrder
  <2> SUFFICES ASSUME NEW c \in Curations, NEW i \in call[c].next..Len(Stages),
                      Stages[i] \notin SyncStages
               PROVE  c \notin Elements(published[SubjectOf(Stages[i])])
    BY DEF PublishedInOrder
  <2>1. i \in 3..5
    BY StageFacts DEF Init, NewCall
  <2>2. published[SubjectOf(Stages[i])] = << >>
    BY <2>1, StageFacts, CurationsAssumption DEF Init, PipeInit
  <2> QED BY <2>2 DEF Elements
<1> QED BY <1>1, <1>2 DEF CallInv

\* Whatever fails, run_curation uses the workers as PipeSpec allows.
THEOREM PipelineRefines == Spec => ImplementsPipe
<1>1. Spec => []CallInv
  BY PipelineStart, PipelineStep, PTL DEF Spec
<1>2. Spec => PipeInit /\ [][PipeNext]_pipeVars
  BY <1>1, PipelineStart, PipelineStep, PTL DEF Spec
<1> QED BY <1>2 DEF ImplementsPipe, PipeSpec

\* Hence an async stage that run_curation has published is lost on the way to its
\* handler only after max_deliver deliveries, or to the limits of the stream.
THEOREM PublishedStagesAreHandled == Spec => []AtLeastOnce
BY PipelineRefines, StagesAreHandled, PTL DEF ImplementsPipe

(***************************************************************************)
(* Type correctness, and the origin of what is stored.                     *)
(***************************************************************************)

\* A call that stores has ended its walk, so nothing is taken from under it.
StoredInv ==
    /\ CallTypeOK
    /\ \A c \in Curations : call[c].pc \in {"reflection", "knowledge", "compress"}
                               => call[c].next > Len(Stages)

\* A step that moves one call and changes no result.
LEMMA StoredMoves ==
    ASSUME StoredInv, call' \in [Curations -> Call],
           \A d \in Curations : /\ call'[d].next = call[d].next
                               /\ call'[d].results = call[d].results
                               /\ call'[d].empty = call[d].empty
                               /\ \/ call'[d].pc \notin {"reflection", "knowledge", "compress"}
                                  \/ call[d].next > Len(Stages),
           stored' \subseteq stored \cup {c \in Curations : HasResult(c, "reflection")
                                                         /\ call[c].next > Len(Stages)},
           known' \subseteq known \cup {c \in Curations : HasResult(c, "knowledge")
                                                       /\ call[c].next > Len(Stages)}
    PROVE  StoredInv'
<1>1. \A c \in Curations, s \in SyncStages : HasResult(c, s)' <=> HasResult(c, s)
  BY DEF HasResult
<1>2. "reflection" \in SyncStages /\ "knowledge" \in SyncStages
  BY DEF SyncStages
<1> QED BY <1>1, <1>2 DEF StoredInv, CallTypeOK

\* A new record in place of one call.
LEMMA OneCall ==
    ASSUME CallInv, NEW c \in Curations, NEW p \in CallPC, call' = [call EXCEPT ![c].pc = p]
    PROVE  /\ call'[c].pc = p
           /\ \A d \in Curations : /\ call'[d].next = call[d].next
                                   /\ call'[d].results = call[d].results
                                   /\ call'[d].empty = call[d].empty
                                   /\ d # c => call'[d].pc = call[d].pc
<1>1. \A d \in Curations : call[d] \in Call
  BY DEF CallInv
<1> QED BY <1>1 DEF CallInv, Call

LEMMA StoredStep == CallInv /\ CallInv' /\ StoredInv /\ [Next]_vars => StoredInv'
<1> SUFFICES ASSUME CallInv, CallInv', StoredInv, [Next]_vars PROVE StoredInv'
  OBVIOUS
<1>1. call \in [Curations -> Call] /\ call' \in [Curations -> Call]
  BY DEF CallInv
<1>2. ASSUME NEW c \in Curations, Begin(c) \/ EndWorkflow(c) \/ Return(c) PROVE StoredInv'
  <2>1. PICK p \in CallPC : call' = [call EXCEPT ![c].pc = p]
    BY <1>2 DEF Begin, EndWorkflow, Return, CallPC
  <2>2. EndWorkflow(c) \/ call'[c].pc \in {"stage", "done"}
    <3>1. {"stage", "done"} \subseteq CallPC
      BY DEF CallPC
    <3>2. CASE Begin(c)
      BY <3>1, <3>2, OneCall DEF Begin
    <3>3. CASE Return(c)
      BY <3>1, <3>3, OneCall DEF Return
    <3> QED BY <1>2, <3>2, <3>3
  <2>3. call[c].next \in Nat /\ (EndWorkflow(c) => call[c].next > Len(Stages))
    BY <1>1, StageFacts DEF Call, EndWorkflow, InStage
  <2>4. UNCHANGED <<stored, known>>
    BY <1>2 DEF Begin, EndWorkflow, Return
  <2> QED BY <1>1, <2>1, <2>2, <2>3, <2>4, OneCall, StoredMoves DEF StoredInv
<1>3. ASSUME NEW c \in Curations, StoreReflection(c) PROVE StoredInv'
  <2>1. "knowledge" \in CallPC /\ call' = [call EXCEPT ![c].pc = "knowledge"]
    BY <1>3 DEF StoreReflection, CallPC
  <2>2. call[c].next > Len(Stages)
    BY <1>3 DEF StoreReflection, StoredInv
  <2>3. known' = known /\ stored' \subseteq stored \cup {d \in {c} : HasResult(d, "reflection")}
    BY <1>3 DEF StoreReflection
  <2> QED BY <1>1, <2>1, <2>2, <2>3, OneCall, StoredMoves DEF StoredInv
<1>4. ASSUME NEW c \in Curations, StoreKnowledge(c) PROVE StoredInv'
  <2>1. "compress" \in CallPC /\ call' = [call EXCEPT ![c].pc = "compress"]
    BY <1>4 DEF StoreKnowledge, CallPC
  <2>2. call[c].next > Len(Stages)
    BY <1>4 DEF StoreKnowledge, StoredInv
  <2>3. stored' = stored /\ known' \subseteq known \cup {d \in {c} : HasResult(d, "knowledge")}
    BY <1>4 DEF StoreKnowledge
  <2> QED BY <1>1, <2>1, <2>2, <2>3, OneCall, StoredMoves DEF StoredInv
<1>5. ASSUME NEW c \in Curations, RunSync(c) \/ QueueAsync(c) PROVE StoredInv'
  <2>1. /\ call[c].pc = "stage" /\ call[c].next <= Len(Stages)
        /\ UNCHANGED <<stored, known>>
        /\ call'[c].pc = "stage"
        /\ \A d \in Curations \ {c} : call'[d] = call[d]
    <3>1. UNCHANGED <<stored, known>>
      BY <1>5 DEF RunSync, QueueAsync
    <3> QED BY <1>5, <3>1, StageMoves, StageFacts
  <2>2. c \notin stored \cup known
    BY <1>1, <2>1, StageFacts DEF StoredInv, CallTypeOK, Call
  <2>3. \A d \in Curations \ {c}, s \in SyncStages : HasResult(d, s)' <=> HasResult(d, s)
    BY <2>1 DEF HasResult
  <2>4. "reflection" \in SyncStages /\ "knowledge" \in SyncStages
    BY DEF SyncStages
  <2>5. CallTypeOK'
    BY <1>1, <2>1, <2>2, <2>3, <2>4 DEF StoredInv, CallTypeOK
  <2> QED BY <2>1, <2>5 DEF StoredInv
<1>6. CASE UNCHANGED callVars
  BY <1>6 DEF callVars, StoredInv, CallTypeOK, HasResult
<1>7. CASE Crash
  <2>1. \A d \in Curations : /\ call'[d].next = call[d].next
                              /\ call'[d].results = call[d].results
                              /\ call'[d].empty = call[d].empty
                              /\ call'[d].pc \notin {"reflection", "knowledge", "compress"}
    BY <1>1, <1>7 DEF Crash, Call
  <2> QED BY <1>1, <1>7, <2>1, StoredMoves DEF Crash
<1> QED BY <1>2, <1>3, <1>4, <1>5, <1>6, <1>7 DEF Next, CallStep, vars

LEMMA StoredStart == Init => StoredInv
<1> SUFFICES ASSUME Init PROVE StoredInv
  OBVIOUS
<1>1. \A c \in Curations : call[c].pc = "new"
  BY DEF Init, NewCall
<1> QED BY <1>1, PipelineStart DEF Init, CallInv, StoredInv, CallTypeOK

\* A call of run_curation stores a reflection or knowledge only when its walk has
\* ended and only what a stage returned; and its variables keep their types.
THEOREM CallTypeCorrect == Spec => []CallTypeOK
<1>1. StoredInv => CallTypeOK
  BY DEF StoredInv
<1> QED BY <1>1, PipelineStart, PipelineStep, StoredStart, StoredStep, PTL DEF Spec

(***************************************************************************)
(* Without faults.                                                         *)
(***************************************************************************)

\* A worker has the message in hand, whether the stream still waits for it or not.
InHand(q, m) == \E w \in Workers : worker[w] # Idle /\ worker[w].queue = q /\ worker[w].msg = m

\* While nothing fails, what is delivered is handled or in hand.
TakenInv == faults = 0 =>
    \A q \in Queues, m \in Ids : deliveries[q][m] > 0 => m \in Elements(handled[q]) \/ InHand(q, m)

\* A step that delivers nothing and takes nothing out of the workers' hands but
\* what is handled.
LEMMA NothingDropped ==
    ASSUME TakenInv, faults' = 0 => faults = 0, deliveries' = deliveries,
           \A q \in Queues : Elements(handled[q]) \subseteq Elements(handled'[q]),
           \A q \in Queues, m \in Ids : InHand(q, m) => InHand(q, m)' \/ m \in Elements(handled'[q])
    PROVE  TakenInv'
BY DEF TakenInv

LEMMA FetchTaken ==
    ASSUME PipeInv, TakenInv, NEW w \in Workers, NEW q \in Queues, Fetch(w, q)
    PROVE  TakenInv'
<1>1. /\ worker[w] = Idle /\ handled' = handled /\ faults \in Nat
      /\ deliveries' = [deliveries EXCEPT ![q][Head(queue[q])] = @ + 1]
  BY DEF Fetch, Deliver, PipeInv, TypeOK
<1>2. CASE Fault
  BY <1>1, <1>2 DEF Fault, TakenInv
<1>3. CASE Works /\ worker' = [worker EXCEPT ![w] = [pc |-> "handle", queue |-> q,
                                                     msg |-> Head(queue[q])]]
  <2>1. PICK n \in Ids : n = Head(queue[q])
    BY ElementsTail DEF Fetch, Deliver, Deliverable, PipeInv, TypeOK
  <2>2. \A p \in Queues, m \in Ids : (p = q /\ m = n) \/ deliveries'[p][m] = deliveries[p][m]
    BY <1>1, <2>1 DEF PipeInv, TypeOK
  <2>3. /\ worker'[w] # Idle /\ worker'[w].queue = q /\ worker'[w].msg = n
        /\ \A v \in Workers : v # w => worker'[v] = worker[v]
    BY <1>3, <2>1 DEF PipeInv, TypeOK, Idle
  <2>4. InHand(q, n)'
    BY <2>3 DEF InHand
  <2>5. \A p \in Queues, m \in Ids : InHand(p, m) => InHand(p, m)'
    BY <1>1, <2>3 DEF InHand
  <2>6. faults' = faults
    BY <1>3 DEF Works
  <2> QED BY <1>1, <2>2, <2>4, <2>5, <2>6 DEF TakenInv
<1> QED BY <1>2, <1>3 DEF Fetch

LEMMA TakenStep == PipeInv /\ TakenInv /\ [PipeNext]_pipeVars => TakenInv'
<1> SUFFICES ASSUME PipeInv, TakenInv, [PipeNext]_pipeVars PROVE TakenInv'
  OBVIOUS
<1>0. faults \in Nat
  BY DEF PipeInv, TypeOK
<1>1. CASE Fault
  BY <1>0, <1>1 DEF Fault, TakenInv
<1>2. CASE worker' = worker /\ handled' = handled /\ deliveries' = deliveries /\ faults' = faults
  BY <1>2, NothingDropped DEF InHand
<1>3. CASE Environment
  BY <1>1, <1>2, <1>3 DEF Environment, Publish, workerVars
<1>4. ASSUME NEW w \in Workers, RunAsync(w) PROVE TakenInv'
  BY <1>4, WorkerQueues, FetchTaken DEF RunAsync
<1>5. CASE "ontology" \in Workers /\ (RunFast \/ RunNormal)
  BY <1>5, WorkerQueues, FetchTaken DEF RunFast, RunNormal
<1>6. CASE FastEmpty \/ NormalEmpty
  BY <1>1, <1>2, <1>6 DEF FastEmpty, NormalEmpty, queueVars, Works
<1>7. ASSUME NEW w \in Workers, Handle(w) PROVE TakenInv'
  <2>1. /\ worker[w] \in Busy /\ worker[w].queue \in Queues /\ worker[w].msg \in Ids
        /\ deliveries' = deliveries /\ faults' = faults
        /\ handled' = [handled EXCEPT ![worker[w].queue] = Append(@, worker[w].msg)]
        /\ worker' = [worker EXCEPT ![w].pc = "ack"]
    BY <1>7, InvParts, BusyWorker DEF Handle, Idle, queueVars
  <2>2. \A q \in Queues : handled[q] \in Seq(Ids)
    BY DEF PipeInv, TypeOK
  <2>3. \A q \in Queues : Elements(handled[q]) \subseteq Elements(handled'[q])
    <3>1. Elements(Append(handled[worker[w].queue], worker[w].msg)) =
             Elements(handled[worker[w].queue]) \cup {worker[w].msg}
      BY <2>1, <2>2, ElementsAppend
    <3>2. \A q \in Queues : q # worker[w].queue => handled'[q] = handled[q]
      BY <2>1 DEF PipeInv, TypeOK
    <3>3. handled'[worker[w].queue] = Append(handled[worker[w].queue], worker[w].msg)
      BY <2>1 DEF PipeInv, TypeOK
    <3> QED BY <3>1, <3>2, <3>3
  <2>4. /\ worker'[w] # Idle /\ worker'[w].queue = worker[w].queue
        /\ worker'[w].msg = worker[w].msg
        /\ \A v \in Workers : v # w => worker'[v] = worker[v]
    BY <2>1 DEF PipeInv, TypeOK, Busy, Idle
  <2>5. \A q \in Queues, m \in Ids : InHand(q, m) => InHand(q, m)'
    BY <2>4 DEF InHand
  <2> QED BY <2>1, <2>3, <2>5, NothingDropped
<1>8. ASSUME NEW w \in Workers, Acknowledge(w) PROVE TakenInv'
  <2>1. /\ worker[w].pc = "ack" /\ worker' = [worker EXCEPT ![w] = Idle]
        /\ handled' = handled /\ deliveries' = deliveries /\ faults' = faults
    BY <1>8 DEF Acknowledge, Remove, queueVars
  <2>2. worker[w].msg \in Elements(handled[worker[w].queue])
    BY <2>1 DEF PipeInv, AckAfterHandling
  <2>3. \A v \in Workers : v # w => worker'[v] = worker[v]
    BY <2>1 DEF PipeInv, TypeOK
  <2>4. \A q \in Queues, m \in Ids : InHand(q, m) => InHand(q, m)' \/ m \in Elements(handled'[q])
    BY <2>1, <2>2, <2>3 DEF InHand
  <2> QED BY <2>1, <2>4, NothingDropped
<1>9. ASSUME NEW w \in Workers, Nak(w) PROVE TakenInv'
  BY <1>1, <1>9 DEF Nak
<1>10. ASSUME NEW q \in Queues, AckWait(q) \/ Discard(q) PROVE TakenInv'
  BY <1>2, <1>10 DEF AckWait, Requeue, Discard, workerVars
<1>11. CASE UNCHANGED pipeVars
  BY <1>2, <1>11 DEF pipeVars, queueVars, workerVars
<1> QED
  BY <1>1, <1>3, <1>4, <1>5, <1>6, <1>7, <1>8, <1>9, <1>10, <1>11 DEF PipeNext, WorkerStep

\* What becomes of a published message: it waits in its queue, a worker has it in
\* hand or has handled it, or the limits of the stream took it.
KeptUnlessDiscarded(q, m) ==
    \/ m \in Elements(queue[q]) \cup Elements(handled[q])
    \/ InHand(q, m)
    \/ <<q, m>> \in discarded

NothingGivenUp ==
    \A q \in Queues : \A m \in Elements(published[q]) : KeptUnlessDiscarded(q, m)

\* However slow a handler is and however often ack_wait runs out: while no call
\* fails, a message that is neither handled nor in the hands of a worker is still
\* in its queue, or the stream's max_age or max_msgs took it: max_deliver gives up
\* nothing but what keeps failing.
THEOREM OnlyFailuresAreGivenUp == PipeSpec => [](faults = 0 => NothingGivenUp)
<1>1. PipeInit => TakenInv
  BY DEF PipeInit, TakenInv
<1>2. ASSUME PipeInv, TakenInv, faults = 0 PROVE NothingGivenUp
  <2> SUFFICES ASSUME NEW q \in Queues, NEW m \in Elements(published[q])
               PROVE  KeptUnlessDiscarded(q, m)
    BY DEF NothingGivenUp
  <2>1. m \in Ids
    BY <1>2, QueueTypes DEF Elements
  <2>2. CASE deliveries[q][m] = MaxDeliver
    <3>1. deliveries[q][m] > 0
      BY <2>2, PipelineAssumption
    <3> QED BY <1>2, <2>1, <3>1 DEF TakenInv, KeptUnlessDiscarded
  <2> QED BY <1>2, <2>2 DEF PipeInv, AtLeastOnce, KeptUnlessDiscarded
<1>3. PipeInv /\ TakenInv => (faults = 0 => NothingGivenUp)
  BY <1>2
<1> QED BY <1>1, <1>3, PipeStart, PipeStep, TakenStep, PTL DEF PipeSpec

\* A call publishes the stages it walks past, unless a publish fails.
WalkInv ==
    /\ \A c \in Curations : call[c].pc = "done" => call[c].next > Len(Stages)
    /\ faults = 0 => \A c \in Curations : \A i \in 3..5 :
          i < call[c].next => c \in Elements(published[SubjectOf(Stages[i])])

\* A step that publishes nothing and walks past nothing.
LEMMA WalkStays ==
    ASSUME CallInv, WalkInv, faults' = 0 => faults = 0, published' = published,
           call' \in [Curations -> Call],
           \A c \in Curations : call'[c].next = call[c].next,
           \A c \in Curations : call'[c].pc = "done" => call[c].next > Len(Stages)
    PROVE  WalkInv'
BY DEF WalkInv

LEMMA WalkStep == CallInv /\ StoredInv /\ WalkInv /\ faults \in Nat /\ [Next]_vars => WalkInv'
<1> SUFFICES ASSUME CallInv, StoredInv, WalkInv, faults \in Nat, [Next]_vars PROVE WalkInv'
  OBVIOUS
<1>1. call \in [Curations -> Call] /\ call' \in [Curations -> Call]
      /\ published' \in [Queues -> Seq(Ids)]
  BY PipelineStep DEF CallInv
<1>2. \A c \in Curations : call[c] \in Call /\ call[c].next \in 1..6
  BY <1>1, StageFacts DEF Call
<1>3. ASSUME NEW c \in Curations, Begin(c) \/ EndWorkflow(c) \/ StoreReflection(c)
                                  \/ StoreKnowledge(c) \/ Return(c)
      PROVE  WalkInv'
  <2>1. published' = published /\ (faults' = 0 => faults = 0)
    BY <1>3 DEF Begin, EndWorkflow, StoreReflection, StoreKnowledge, Return, pipeVars, queueVars,
       Works, Fault
  <2>2. PICK p \in CallPC : call' = [call EXCEPT ![c].pc = p] /\ (p = "done" => Return(c))
    BY <1>3 DEF Begin, EndWorkflow, StoreReflection, StoreKnowledge, Return, CallPC
  <2>3. p = "done" => call[c].next > Len(Stages)
    BY <2>2 DEF Return, StoredInv
  <2>4. \A d \in Curations : call'[d].pc = "done" => call[d].next > Len(Stages)
    BY <2>2, <2>3, OneCall DEF WalkInv
  <2> QED BY <1>1, <2>1, <2>2, <2>4, OneCall, WalkStays
<1>4. ASSUME NEW c \in Curations, RunSync(c) \/ QueueAsync(c) PROVE WalkInv'
  <2>1. /\ call[c].pc = "stage" /\ call[c].next \in 1..5
        /\ call'[c].pc = "stage" /\ call'[c].next = call[c].next + 1
        /\ \A d \in Curations : d # c => call'[d] = call[d]
    BY <1>4, StageMoves
  <2>2. \A d \in Curations : call'[d].pc = "done" => call'[d].next > Len(Stages)
    BY <2>1 DEF WalkInv
  <2>3. ASSUME faults' = 0, NEW d \in Curations, NEW i \in 3..5, i < call'[d].next
        PROVE  d \in Elements(published'[SubjectOf(Stages[i])])
    <3>1. SubjectOf(Stages[i]) \in Queues
      BY StageFacts, CurationsAssumption
    <3>2. CASE RunSync(c)
      <4>1. published' = published /\ faults' = faults /\ call[c].next \notin 3..5
        BY <1>4, <2>1, <3>2, StageFacts DEF RunSync, Stage, pipeVars, queueVars
      <4>2. i < call[d].next
        BY <1>2, <2>1, <2>3, <4>1
      <4> QED BY <2>3, <4>1, <4>2 DEF WalkInv
    <3>3. CASE QueueAsync(c)
      <4> DEFINE q == SubjectOf(Stages[call[c].next])
      <4>1. /\ published' = [published EXCEPT ![q] = Append(@, c)] /\ faults = 0
            /\ call[c].next \in 3..5 /\ q \in Queues /\ c \in Ids
        <5>1. call[c].next \in 3..5 /\ q \in Queues /\ c \in Ids
          BY <2>1, <3>3, StageFacts, CurationsAssumption DEF QueueAsync, Stage
        <5>2. Works /\ Publish(q, c) /\ faults = 0
          BY <2>3, <3>3 DEF QueueAsync, Stage, Works, Fault
        <5> QED BY <5>1, <5>2 DEF Publish
      <4>2. /\ published[q] \in Seq(Ids) /\ published'[q] = Append(published[q], c)
            /\ \A r \in Queues : r # q => published'[r] = published[r]
        BY <4>1 DEF CallInv
      <4>3. Elements(published'[q]) = Elements(published[q]) \cup {c}
        BY <4>1, <4>2, ElementsAppend
      <4>4. \A r \in Queues : Elements(published[r]) \subseteq Elements(published'[r])
        BY <4>2, <4>3
      <4>5. CASE i < call[d].next
        BY <3>1, <4>1, <4>4, <4>5 DEF WalkInv
      <4>6. CASE ~ (i < call[d].next)
        <5>1. d = c /\ i = call[c].next
          BY <1>2, <2>1, <2>3, <4>6
        <5> QED BY <4>3, <5>1
      <4> QED BY <4>5, <4>6
    <3> QED BY <1>4, <3>2, <3>3
  <2> QED BY <2>2, <2>3 DEF WalkInv
<1>5. CASE UNCHANGED <<callVars, published>> /\ (faults' = 0 => faults = 0)
  BY <1>1, <1>5, WalkStays DEF callVars, WalkInv
<1>6. ASSUME NEW w \in Workers, WorkerStep(w) /\ UNCHANGED callVars PROVE WalkInv'
  <2>1. published' = published /\ (faults' = 0 => faults = 0)
    BY <1>6 DEF WorkerStep, RunAsync, RunFast, RunNormal, FastEmpty, NormalEmpty, Fetch, Deliver,
       Handle, Acknowledge, Nak, Remove, Requeue, queueVars, Works, Fault
  <2> QED BY <1>5, <1>6, <2>1
<1>7. ASSUME NEW q \in Queues, (AckWait(q) \/ Discard(q)) /\ UNCHANGED callVars
      PROVE  WalkInv'
  BY <1>5, <1>7 DEF AckWait, Requeue, Discard
<1>8. CASE Crash
  <2>1. published' = published /\ (faults' = 0 => faults = 0)
    BY <1>8 DEF Crash, PipeCrash, queueVars, Fault
  <2>2. \A d \in Curations : /\ call'[d].next = call[d].next
                              /\ (call'[d].pc = "done" => call[d].pc = "done")
    BY <1>2, <1>8 DEF Crash, Call
  <2>3. \A d \in Curations : call'[d].pc = "done" => call[d].next > Len(Stages)
    BY <2>2 DEF WalkInv
  <2> QED BY <1>1, <2>1, <2>2, <2>3, WalkStays
<1>9. CASE UNCHANGED vars
  BY <1>5, <1>9 DEF vars, pipeVars, queueVars
<1> QED BY <1>3, <1>4, <1>6, <1>7, <1>8, <1>9 DEF Next, CallStep

\* The same of the async stages of the calls that have returned.
CarriedOut ==
    \A c \in Curations : call[c].pc = "done" =>
        \A q \in {"artifacts", "causals", "normal"} : KeptUnlessDiscarded(q, c)

\* When run_curation has returned and no call has failed, each async stage of it is
\* handled, in hand or in its queue, whatever the sync stages returned and however
\* slow the workers are, but for the stages that waited until the limits of the
\* stream took them.
THEOREM ReturnedCallsAreCarriedOut == Spec => [](faults = 0 => CarriedOut)
<1>1. Init => WalkInv
  BY StageFacts DEF Init, NewCall, WalkInv
<1>2. PipeInv => faults \in Nat
  BY DEF PipeInv, TypeOK
<1>3. Spec => []PipeInv /\ [](faults = 0 => NothingGivenUp)
  BY PipelineRefines, PipeInvariant, OnlyFailuresAreGivenUp, PTL DEF ImplementsPipe
<1>4. Spec => [](CallInv /\ WalkInv)
  BY <1>1, <1>2, <1>3, PipelineStart, PipelineStep, StoredStart, StoredStep, WalkStep, PTL DEF Spec
<1>5. ASSUME CallInv, NothingGivenUp, WalkInv, faults = 0 PROVE CarriedOut
  <2> SUFFICES ASSUME NEW c \in Curations, call[c].pc = "done",
                      NEW q \in {"artifacts", "causals", "normal"}
               PROVE  KeptUnlessDiscarded(q, c)
    BY DEF CarriedOut
  <2>1. q \in Queues
    BY CurationsAssumption DEF AllQueues
  <2>2. PICK i \in 3..5 : SubjectOf(Stages[i]) = q
    <3>1. SubjectOf(Stages[3]) = "artifacts" /\ SubjectOf(Stages[4]) = "causals"
          /\ SubjectOf(Stages[5]) = "normal"
      BY StageFacts DEF SubjectOf
    <3> QED BY <3>1
  <2>3. call[c].next \in Nat /\ call[c].next > 5
    <3>1. call[c] \in Call /\ call[c].next > Len(Stages)
      BY <1>5 DEF CallInv, WalkInv
    <3> QED BY <3>1, StageFacts DEF Call
  <2>4. i < call[c].next
    BY <2>3
  <2>5. c \in Elements(published[q])
    BY <1>5, <2>2, <2>4 DEF WalkInv
  <2> QED BY <1>5, <2>1, <2>5 DEF NothingGivenUp
<1>6. CallInv /\ WalkInv /\ (faults = 0 => NothingGivenUp) => (faults = 0 => CarriedOut)
  BY <1>5
<1> QED BY <1>3, <1>4, <1>6, PTL
===============================================================================
