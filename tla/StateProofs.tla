------------------------------ MODULE StateProofs ------------------------------
(***************************************************************************)
(* Proofs about ServiceState, for any requests, spans and failures: what   *)
(* a REST compression is made of, and how often a span is measured.        *)
(***************************************************************************)
EXTENDS ServiceState, SumLemmas

(***************************************************************************)
(* Compression through the shared scope.                                   *)
(***************************************************************************)

\* What a REST compression has read is of its group.
CompressInv ==
    /\ compress \in [Compressions -> [at : {"new", "store", "done"}, events : SUBSET Events]]
    /\ logged \in SUBSET Events
    /\ \A c \in ViaRest : \A v \in compress[c].events : EventGroup[v] = CompressionGroup[c]
    /\ RestCompressesItsGroup

\* Reading sets the scope to the group of the call, and reads in the same step.
LEMMA ReadInGroup ==
    ASSUME CompressInv, NEW c \in Compressions, ReadEvents(c)
    PROVE  CompressInv'
<1> DEFINE events == InScope(ScopeFor(c))
<1>1. /\ events \in SUBSET Events
      /\ c \in ViaRest => \A v \in events : EventGroup[v] = CompressionGroup[c]
  BY DEF InScope, ScopeFor, CompressInv
<1>2. UNCHANGED <<logged, summaries>>
  BY DEF ReadEvents
<1>3. \/ compress' = [compress EXCEPT ![c] = [at |-> "store", events |-> events]]
      \/ compress' = [compress EXCEPT ![c] = [at |-> "done", events |-> {}]]
      \/ compress' = [compress EXCEPT ![c].at = "done"]
  BY DEF ReadEvents
<1> HIDE DEF events
<1>4. /\ compress' \in [Compressions -> [at : {"new", "store", "done"}, events : SUBSET Events]]
      /\ \A d \in Compressions : d # c => compress'[d] = compress[d]
      /\ compress'[c].events \in {events, {}, compress[c].events}
  BY <1>1, <1>3 DEF CompressInv
<1>5. \A d \in ViaRest : \A v \in compress'[d].events : EventGroup[v] = CompressionGroup[d]
  BY <1>1, <1>4, StateAssumption DEF CompressInv
<1> QED BY <1>2, <1>4, <1>5 DEF CompressInv, RestCompressesItsGroup

LEMMA StoredInGroup ==
    ASSUME CompressInv, NEW c \in Compressions, StoreSummary(c)
    PROVE  CompressInv'
<1>1. /\ compress' = [compress EXCEPT ![c] = [at |-> "done", events |-> {}]]
      /\ logged' = logged /\ summaries' \subseteq summaries \cup {<<c, compress[c].events>>}
  BY DEF StoreSummary
<1>2. /\ compress' \in [Compressions -> [at : {"new", "store", "done"}, events : SUBSET Events]]
      /\ \A d \in Compressions : compress'[d].events \subseteq compress[d].events
  BY <1>1 DEF CompressInv
<1>3. RestCompressesItsGroup'
  BY <1>1 DEF CompressInv, RestCompressesItsGroup
<1> QED BY <1>1, <1>2, <1>3, StateAssumption DEF CompressInv

LEMMA CompressStep == CompressInv /\ [Next]_vars => CompressInv'
<1> SUFFICES ASSUME CompressInv, [Next]_vars PROVE CompressInv'
  OBVIOUS
<1>1. ASSUME NEW v \in Events, LogEvent(v) PROVE CompressInv'
  <2>1. UNCHANGED <<compress, summaries>> /\ logged' \in SUBSET Events
    BY <1>1 DEF LogEvent, CompressInv
  <2> QED BY <2>1 DEF CompressInv, RestCompressesItsGroup
<1>2. ASSUME UNCHANGED <<logged, compress, summaries>> PROVE CompressInv'
  BY <1>2 DEF CompressInv, RestCompressesItsGroup
<1>3. ASSUME NEW u \in Updates, UpdateToolStats(u) PROVE CompressInv'
  BY <1>2, <1>3 DEF UpdateToolStats, ReadStats, SaveStats, eventVars
<1>4. CASE Crash
  <2>1. /\ UNCHANGED <<logged, summaries>>
        /\ compress' = [c \in Compressions |-> IF compress[c].at = "new" THEN compress[c]
                                               ELSE [at |-> "done", events |-> {}]]
    BY <1>4 DEF Crash
  <2>2. /\ compress' \in [Compressions -> [at : {"new", "store", "done"}, events : SUBSET Events]]
        /\ \A d \in Compressions : compress'[d].events \subseteq compress[d].events
    BY <2>1 DEF CompressInv
  <2> QED BY <2>1, <2>2, StateAssumption DEF CompressInv, RestCompressesItsGroup
<1>5. ASSUME NEW g \in Groups, ReadRecent(g) PROVE CompressInv'
  BY <1>2, <1>5 DEF ReadRecent
<1>6. CASE SpanStep /\ UNCHANGED <<eventVars, toolVars, life>>
  BY <1>2, <1>6 DEF eventVars
<1>7. CASE UNCHANGED vars
  BY <1>2, <1>7 DEF vars, eventVars
<1> QED
  BY <1>1, <1>3, <1>4, <1>5, <1>6, <1>7, ReadInGroup, StoredInGroup DEF Next

LEMMA CompressStart == Init => CompressInv
BY StateAssumption DEF Init, CompressInv, RestCompressesItsGroup

\* Whatever scope other requests leave behind, an episode that a REST request has
\* compressed is made of events of the group it is stored in.
THEOREM RestScopeHolds == Spec => []RestCompressesItsGroup
<1>1. CompressInv => RestCompressesItsGroup
  BY DEF CompressInv
<1> QED BY <1>1, CompressStart, CompressStep, PTL DEF Spec

(***************************************************************************)
(* Spans: each event is written once.                                      *)
(***************************************************************************)

Written(m) == \E i \in DOMAIN stream : stream[i] = m

SpanType ==
    /\ faults \in Nat
    /\ span \in [Spans -> {"new", "open", "closed", "dead"}]
    /\ emits \in SUBSET Message
    /\ stream \in Seq(Message)
    /\ cursor \in Nat /\ cursor <= Len(stream)
    /\ pending \in SUBSET Spans /\ records \in SUBSET Spans
    /\ measured \in [Spans -> Nat]

OnceInv ==
    /\ \A i, k \in DOMAIN stream : stream[i] = stream[k] => i = k
    /\ \A m \in emits : ~ Written(m)
    /\ \A s \in Spans : span[s] # "closed" => <<"end", s>> \notin emits /\ ~ Written(<<"end", s>>)
    /\ \A s \in Spans : span[s] = "new" => <<"start", s>> \notin emits /\ ~ Written(<<"start", s>>)

\* The end of the span has been read in this life of the process.
EndRead(s) == \E k \in DOMAIN stream : k <= cursor /\ stream[k] = <<"end", s>>
StartRead(s) == \E i \in DOMAIN stream : i <= cursor /\ stream[i] = <<"start", s>>

One(b) == IF b THEN 1 ELSE 0

MeasureInv ==
    \A s \in Spans :
        /\ measured[s] > 0 \/ s \in records => InOrder(s)
        /\ measured[s] + One(s \in records) <= faults + One(EndRead(s))
        /\ s \in pending => StartRead(s)
        /\ faults = 0 /\ s \notin old =>
              /\ StartRead(s) /\ ~ EndRead(s) => s \in pending
              /\ InOrder(s) /\ EndRead(s) => measured[s] > 0 \/ s \in records

SpanInv == SpanType /\ OnceInv /\ MeasureInv

LEMMA SpanStart == Init => SpanInv
<1> SUFFICES ASSUME Init PROVE SpanInv
  OBVIOUS
<1>1. SpanType
  BY DEF Init, SpanInit, SpanType
<1>2. OnceInv
  BY DEF Init, SpanInit, OnceInv, Written
<1>3. MeasureInv
  BY DEF Init, SpanInit, MeasureInv, StartRead, EndRead, InOrder, One
<1> QED BY <1>1, <1>2, <1>3 DEF SpanInv

\* The next events of the stream, as far as there are.
LEMMA BatchReads ==
    ASSUME SpanType, ReadBatch
    PROVE  /\ cursor' \in Nat /\ cursor' <= Len(stream)
           /\ \A i \in DOMAIN stream : i <= cursor' <=> i <= cursor \/ i \in Batch
<1> DEFINE top == IF Len(stream) < cursor + BatchSize THEN Len(stream) ELSE cursor + BatchSize
<1>1. cursor \in Nat /\ Len(stream) \in Nat /\ BatchSize \in Nat \ {0} /\ DOMAIN stream = 1..Len(stream)
      /\ cursor <= Len(stream)
  BY SpanAssumption DEF SpanType
<1>2. Batch = (cursor + 1)..top
  BY <1>1 DEF Batch
<1>3. top \in Nat /\ cursor <= top /\ top <= Len(stream)
  BY <1>1
<1>4. Cardinality((cursor + 1)..top) = top - cursor
  <2>1. cursor + 1 \in Int /\ top \in Int
    BY <1>1, <1>3
  <2> HIDE DEF top
  <2>2. Cardinality((cursor + 1)..top) = IF cursor + 1 > top THEN 0 ELSE top - (cursor + 1) + 1
    BY <2>1, FS_Interval
  <2> QED BY <1>1, <1>3, <2>2
<1>5. cursor' = cursor + Cardinality(Batch)
  BY DEF ReadBatch
<1> HIDE DEF top
<1>6. cursor' = top
  BY <1>1, <1>2, <1>3, <1>4, <1>5
<1> QED BY <1>1, <1>2, <1>3, <1>6

LEMMA AppendPlaces ==
    ASSUME SpanType, NEW m \in Message, stream' = Append(stream, m)
    PROVE  /\ stream' \in Seq(Message) /\ Len(stream) \in Nat /\ Len(stream') = Len(stream) + 1
           /\ DOMAIN stream' = DOMAIN stream \cup {Len(stream) + 1}
           /\ DOMAIN stream = 1..Len(stream)
           /\ stream'[Len(stream) + 1] = m
           /\ \A i \in DOMAIN stream : stream'[i] = stream[i]
BY DEF SpanType

\* A step that leaves the stream and what is read of it.
LEMMA StreamStays ==
    ASSUME stream' = stream, cursor' = cursor
    PROVE  \A s : /\ InOrder(s)' <=> InOrder(s)
                  /\ EndRead(s)' <=> EndRead(s)
                  /\ StartRead(s)' <=> StartRead(s)
BY DEF InOrder, EndRead, StartRead

LEMMA StartStep == ASSUME SpanInv, NEW s \in Spans, Start(s) PROVE SpanInv'
<1>1. UNCHANGED <<stream, cursor, pending, records, old, measured, faults>>
  BY DEF Start, aggregatorVars
<1>2. /\ <<"start", s>> \in Message /\ emits' = emits \cup {<<"start", s>>}
      /\ span[s] = "new" /\ span' = [span EXCEPT ![s] = "open"]
  BY DEF Start, Message
<1>3. SpanType'
  BY <1>1, <1>2 DEF SpanInv, SpanType
<1>4. OnceInv'
  <2>1. span'[s] = "open" /\ \A t \in Spans : t # s => span'[t] = span[t]
    BY <1>2 DEF SpanInv, SpanType
  <2>2. \A m : Written(m)' <=> Written(m)
    BY <1>1 DEF Written
  <2> QED BY <1>1, <1>2, <2>1, <2>2 DEF SpanInv, OnceInv
<1>5. MeasureInv'
  <2>1. \A t \in Spans : One(EndRead(t))' = One(EndRead(t)) /\ One(t \in records)' = One(t \in records)
    BY <1>1, StreamStays DEF One
  <2> QED BY <1>1, <2>1, StreamStays DEF SpanInv, MeasureInv
<1> QED BY <1>3, <1>4, <1>5 DEF SpanInv

LEMMA EndStep == ASSUME SpanInv, NEW s \in Spans, End(s) PROVE SpanInv'
<1>1. UNCHANGED <<stream, cursor, pending, records, old, measured, faults>>
  BY DEF End, aggregatorVars
<1>2. /\ <<"end", s>> \in Message /\ emits' = emits \cup {<<"end", s>>}
      /\ span[s] = "open" /\ span' = [span EXCEPT ![s] = "closed"]
  BY DEF End, Message
<1>3. SpanType'
  BY <1>1, <1>2 DEF SpanInv, SpanType
<1>4. OnceInv'
  <2>1. span'[s] = "closed" /\ \A t \in Spans : t # s => span'[t] = span[t]
    BY <1>2 DEF SpanInv, SpanType
  <2>2. \A m : Written(m)' <=> Written(m)
    BY <1>1 DEF Written
  <2> QED BY <1>1, <1>2, <2>1, <2>2 DEF SpanInv, OnceInv
<1>5. MeasureInv'
  <2>1. \A t \in Spans : One(EndRead(t))' = One(EndRead(t)) /\ One(t \in records)' = One(t \in records)
    BY <1>1, StreamStays DEF One
  <2> QED BY <1>1, <2>1, StreamStays DEF SpanInv, MeasureInv
<1> QED BY <1>3, <1>4, <1>5 DEF SpanInv

\* An event is added to the stream: nobody has read it.
LEMMA EmitStep == ASSUME SpanInv, NEW m \in Message, Emit(m) PROVE SpanInv'
<1>1. /\ UNCHANGED <<span, cursor, pending, records, old, measured>>
      /\ m \in emits /\ emits' = emits \ {m} /\ faults \in Nat
  BY DEF Emit, aggregatorVars, SpanInv, SpanType
<1>2. CASE Fails /\ stream' = stream
  <2>1. faults' = faults + 1
    BY <1>2 DEF Fails
  <2>2. SpanType'
    BY <1>1, <1>2, <2>1 DEF SpanInv, SpanType
  <2>3. OnceInv'
    <3>1. \A n : Written(n)' <=> Written(n)
      BY <1>2 DEF Written
    <3> QED BY <1>1, <1>2, <3>1 DEF SpanInv, OnceInv
  <2>4. MeasureInv'
    <3>1. \A s \in Spans : measured[s] \in Nat /\ One(s \in records) \in Nat /\ One(EndRead(s)) \in Nat
      BY DEF SpanInv, SpanType, One
    <3>2. \A s \in Spans : One(EndRead(s))' = One(EndRead(s)) /\ One(s \in records)' = One(s \in records)
      BY <1>1, <1>2, StreamStays DEF One
    <3> QED BY <1>1, <1>2, <2>1, <3>1, <3>2, StreamStays DEF SpanInv, MeasureInv
  <2> QED BY <2>2, <2>3, <2>4 DEF SpanInv
<1>3. CASE Succeeds /\ stream' = Append(stream, m)
  <2>1. faults' = faults
    BY <1>3 DEF Succeeds
  <2>2. /\ stream' \in Seq(Message) /\ Len(stream) \in Nat /\ Len(stream') = Len(stream) + 1
        /\ DOMAIN stream' = DOMAIN stream \cup {Len(stream) + 1}
        /\ DOMAIN stream = 1..Len(stream)
        /\ stream'[Len(stream) + 1] = m
        /\ \A i \in DOMAIN stream : stream'[i] = stream[i]
    BY <1>3, AppendPlaces DEF SpanInv
  <2>3. SpanType'
    BY <1>1, <2>1, <2>2 DEF SpanInv, SpanType
  <2>4. \A n : Written(n)' <=> Written(n) \/ n = m
    BY <2>2 DEF Written
  <2>5. \A i, k \in DOMAIN stream' : stream'[i] = stream'[k] => i = k
    <3>1. ~ Written(m)
      BY <1>1 DEF SpanInv, OnceInv
    <3> QED BY <2>2, <3>1 DEF SpanInv, OnceInv, Written
  <2>6. OnceInv'
    BY <1>1, <2>4, <2>5 DEF SpanInv, OnceInv
  <2>7. cursor \in Nat /\ cursor <= Len(stream) /\ cursor' = cursor
    BY <1>1 DEF SpanInv, SpanType
  <2>8. \A s \in Spans : (EndRead(s)' <=> EndRead(s)) /\ (StartRead(s)' <=> StartRead(s))
    BY <2>2, <2>7 DEF EndRead, StartRead
  <2>9. \A s \in Spans : InOrder(s) => InOrder(s)'
    BY <2>2 DEF InOrder
  <2>10. \A s \in Spans : InOrder(s)' /\ EndRead(s) => InOrder(s)
    <3> SUFFICES ASSUME NEW s \in Spans, InOrder(s)', EndRead(s) PROVE InOrder(s)
      OBVIOUS
    <3>1. PICK i, k \in DOMAIN stream' : i < k /\ stream'[i] = <<"start", s>> /\ stream'[k] = <<"end", s>>
      BY DEF InOrder
    <3>2. PICK j \in DOMAIN stream : stream[j] = <<"end", s>>
      BY DEF EndRead
    <3>3. k = j
      BY <2>2, <2>5, <3>1, <3>2
    <3>4. i \in DOMAIN stream
      BY <2>2, <3>1, <3>2, <3>3
    <3> QED BY <2>2, <3>1, <3>2, <3>3, <3>4 DEF InOrder
  <2>11. MeasureInv'
    <3>1. \A s \in Spans : One(EndRead(s))' = One(EndRead(s)) /\ One(s \in records)' = One(s \in records)
      BY <1>1, <2>8 DEF One
    <3> QED BY <1>1, <2>1, <2>8, <2>9, <2>10, <3>1 DEF SpanInv, MeasureInv
  <2> QED BY <2>3, <2>6, <2>11 DEF SpanInv
<1> QED BY <1>2, <1>3 DEF Emit

LEMMA AgeStep == ASSUME SpanInv, NEW s \in Spans, Age(s) PROVE SpanInv'
<1>1. /\ UNCHANGED <<span, emits, stream, cursor, pending, records, measured, faults>>
      /\ old \subseteq old'
  BY DEF Age, tracerVars, aggregatorVars
<1>2. SpanType' /\ OnceInv'
  BY <1>1 DEF SpanInv, SpanType, OnceInv, Written
<1>3. MeasureInv'
  <2>1. \A t \in Spans : One(EndRead(t))' = One(EndRead(t)) /\ One(t \in records)' = One(t \in records)
    BY <1>1, StreamStays DEF One
  <2> QED BY <1>1, <2>1, StreamStays DEF SpanInv, MeasureInv
<1> QED BY <1>2, <1>3 DEF SpanInv

\* A batch: what is matched has both events in order, and was not matched before.
LEMMA BatchStep == ASSUME SpanInv, ReadBatch PROVE SpanInv'
<1>1. /\ UNCHANGED <<span, emits, stream, old, measured, faults>>
      /\ records' = records \cup Finished
      /\ pending' = ((pending \cup Begun) \ Finished) \ old
  BY DEF ReadBatch, tracerVars
<1>2. /\ cursor' \in Nat /\ cursor' <= Len(stream) /\ cursor \in Nat
      /\ \A i \in DOMAIN stream : i <= cursor' <=> i <= cursor \/ i \in Batch
      /\ DOMAIN stream = 1..Len(stream)
  BY BatchReads DEF SpanInv, SpanType
<1>3. SpanType'
  BY <1>1, <1>2 DEF SpanInv, SpanType, Finished, Begun
<1>4. OnceInv'
  BY <1>1 DEF SpanInv, OnceInv, Written
<1>5. \A i \in Batch : i \in DOMAIN stream /\ i > cursor
  BY <1>2 DEF Batch
<1>6. ASSUME NEW s \in Spans
      PROVE  /\ EndRead(s) => EndRead(s)'
             /\ s \in Finished => EndRead(s)' /\ ~ EndRead(s) /\ InOrder(s)
             /\ StartRead(s)' <=> StartRead(s) \/ s \in Begun
             /\ InOrder(s)' <=> InOrder(s)
  <2>1. EndRead(s) => EndRead(s)'
    BY <1>1, <1>2 DEF EndRead
  <2>2. StartRead(s)' <=> StartRead(s) \/ s \in Begun
    BY <1>1, <1>2, <1>5 DEF StartRead, Begun
  <2>3. ASSUME s \in Finished PROVE EndRead(s)' /\ ~ EndRead(s) /\ InOrder(s)
    <3>1. PICK k \in Batch : /\ stream[k] = <<"end", s>>
                             /\ s \in pending \/ \E i \in Batch : i < k /\ stream[i] = <<"start", s>>
      BY <2>3 DEF Finished
    <3>2. k \in DOMAIN stream /\ k > cursor /\ k <= cursor'
      BY <1>2, <1>5
    <3>3. EndRead(s)'
      BY <1>1, <3>1, <3>2 DEF EndRead
    <3>4. ~ EndRead(s)
      BY <1>2, <3>1, <3>2 DEF EndRead, SpanInv, OnceInv
    <3>5. CASE s \in pending
      <4>1. PICK i \in DOMAIN stream : i <= cursor /\ stream[i] = <<"start", s>>
        BY <3>5 DEF SpanInv, MeasureInv, StartRead
      <4>2. i < k
        BY <1>2, <3>2, <4>1
      <4> QED BY <3>1, <3>2, <3>3, <3>4, <4>1, <4>2 DEF InOrder
    <3>6. CASE \E i \in Batch : i < k /\ stream[i] = <<"start", s>>
      BY <1>5, <3>1, <3>2, <3>3, <3>4, <3>6 DEF InOrder
    <3> QED BY <3>1, <3>5, <3>6
  <2>4. InOrder(s)' <=> InOrder(s)
    BY <1>1 DEF InOrder
  <2> QED BY <2>1, <2>2, <2>3, <2>4
<1>7. ASSUME NEW s \in Spans
      PROVE  /\ measured'[s] > 0 \/ s \in records' => InOrder(s)'
             /\ measured'[s] + One(s \in records)' <= faults' + One(EndRead(s))'
             /\ s \in pending' => StartRead(s)'
  <2>1. measured'[s] > 0 \/ s \in records' => InOrder(s)'
    BY <1>1, <1>6 DEF SpanInv, MeasureInv
  <2>2. s \in pending' => StartRead(s)'
    BY <1>1, <1>6 DEF SpanInv, MeasureInv
  <2>3. /\ measured[s] + One(s \in records) <= faults + One(EndRead(s))
        /\ measured[s] \in Nat /\ faults \in Nat /\ measured'[s] = measured[s] /\ faults' = faults
    BY <1>1 DEF SpanInv, SpanType, MeasureInv
  <2>4. CASE s \in Finished
    <3>1. One(s \in records)' = 1 /\ One(EndRead(s))' = 1 /\ One(EndRead(s)) = 0
      BY <1>1, <1>6, <2>4 DEF One
    <3>2. One(s \in records) \in {0, 1}
      BY DEF One
    <3> QED BY <2>1, <2>2, <2>3, <3>1, <3>2
  <2>5. CASE s \notin Finished
    <3>1. One(s \in records)' = One(s \in records)
      BY <1>1, <2>5 DEF One
    <3>2. One(EndRead(s))' \in {0, 1} /\ One(EndRead(s)) \in {0, 1} /\ One(s \in records) \in {0, 1}
      BY DEF One
    <3>3. One(EndRead(s)) <= One(EndRead(s))'
      BY <1>6 DEF One
    <3> QED BY <2>1, <2>2, <2>3, <3>1, <3>2, <3>3
  <2> QED BY <2>4, <2>5
<1>8. ASSUME NEW s \in Spans, faults' = 0, s \notin old'
      PROVE  /\ StartRead(s)' /\ ~ EndRead(s)' => s \in pending'
             /\ InOrder(s)' /\ EndRead(s)' => measured'[s] > 0 \/ s \in records'
  <2>1. /\ StartRead(s) /\ ~ EndRead(s) => s \in pending
        /\ InOrder(s) /\ EndRead(s) => measured[s] > 0 \/ s \in records
    BY <1>1, <1>8 DEF SpanInv, MeasureInv
  <2>2. StartRead(s)' /\ ~ EndRead(s)' => s \in pending'
    BY <1>1, <1>6, <1>8, <2>1
  <2>3. ASSUME InOrder(s), EndRead(s)', ~ EndRead(s) PROVE s \in Finished
    <3>1. PICK i, k \in DOMAIN stream : i < k /\ stream[i] = <<"start", s>> /\ stream[k] = <<"end", s>>
      BY <2>3 DEF InOrder
    <3>2. PICK j \in DOMAIN stream : j <= cursor' /\ stream[j] = <<"end", s>>
      BY <1>1, <2>3 DEF EndRead
    <3>3. k = j
      BY <3>1, <3>2 DEF SpanInv, OnceInv
    <3>4. k \in Batch
      BY <1>2, <2>3, <3>2, <3>3 DEF EndRead
    <3>5. i <= cursor \/ i \in Batch
      BY <1>2, <3>1, <3>2, <3>3
    <3>6. s \in pending \/ i \in Batch
      BY <2>1, <2>3, <3>1, <3>5 DEF StartRead
    <3> QED BY <3>1, <3>4, <3>6 DEF Finished
  <2> QED BY <1>1, <1>6, <2>1, <2>2, <2>3
<1> QED BY <1>3, <1>4, <1>7, <1>8 DEF SpanInv, MeasureInv

LEMMA RecordStep == ASSUME SpanInv, NEW s \in Spans, RecordLatency(s) PROVE SpanInv'
<1>1. /\ UNCHANGED <<span, emits, stream, cursor, pending, old>> /\ s \in records
      /\ records' = records \ {s} /\ faults \in Nat
      /\ \/ faults' = faults /\ measured' = [measured EXCEPT ![s] = @ + 1]
         \/ faults' = faults + 1 /\ measured' = measured
  BY DEF RecordLatency, tracerVars, Succeeds, Fails, SpanInv, SpanType
<1>2. SpanType'
  BY <1>1 DEF SpanInv, SpanType
<1>3. OnceInv'
  BY <1>1 DEF SpanInv, OnceInv, Written
<1>4. ASSUME NEW t \in Spans
      PROVE  /\ measured'[t] > 0 \/ t \in records' => InOrder(t)'
             /\ measured'[t] + One(t \in records)' <= faults' + One(EndRead(t))'
             /\ t \in pending' => StartRead(t)'
             /\ faults' = 0 /\ t \notin old' =>
                   /\ StartRead(t)' /\ ~ EndRead(t)' => t \in pending'
                   /\ InOrder(t)' /\ EndRead(t)' => measured'[t] > 0 \/ t \in records'
  <2>1. /\ measured[t] > 0 \/ t \in records => InOrder(t)
        /\ measured[t] + One(t \in records) <= faults + One(EndRead(t))
        /\ t \in pending => StartRead(t)
        /\ faults = 0 /\ t \notin old =>
              /\ StartRead(t) /\ ~ EndRead(t) => t \in pending
              /\ InOrder(t) /\ EndRead(t) => measured[t] > 0 \/ t \in records
    BY DEF SpanInv, MeasureInv
  <2>2. measured[t] \in Nat /\ measured \in [Spans -> Nat]
    BY DEF SpanInv, SpanType
  <2>3. One(EndRead(t))' = One(EndRead(t)) /\ One(EndRead(t)) \in {0, 1}
    BY <1>1, StreamStays DEF One
  <2>4. CASE t = s
    <3>1. One(t \in records) = 1 /\ One(t \in records)' = 0
      BY <1>1, <2>4 DEF One
    <3>2. \/ faults' = faults /\ measured'[t] = measured[t] + 1
          \/ faults' = faults + 1 /\ measured'[t] = measured[t]
      BY <1>1, <2>2, <2>4
    <3> QED BY <1>1, <2>1, <2>2, <2>3, <2>4, <3>1, <3>2, StreamStays
  <2>5. CASE t # s
    <3>1. One(t \in records)' = One(t \in records) /\ One(t \in records) \in {0, 1}
      BY <1>1, <2>5 DEF One
    <3>2. measured'[t] = measured[t] /\ (faults' = faults \/ faults' = faults + 1)
      BY <1>1, <2>2, <2>5
    <3> QED BY <1>1, <2>1, <2>2, <2>3, <2>5, <3>1, <3>2, StreamStays
  <2> QED BY <2>4, <2>5
<1> QED BY <1>2, <1>3, <1>4 DEF SpanInv, MeasureInv

\* A restart reads the stream again, which may measure a span once more.
LEMMA SpanCrashStep == ASSUME SpanInv, Fails, SpanCrash PROVE SpanInv'
<1>1. /\ UNCHANGED <<stream, measured, old>> /\ faults' = faults + 1 /\ faults \in Nat
      /\ emits' = {} /\ pending' = {} /\ records' = {} /\ cursor' = 0
      /\ \A s \in Spans : span'[s] = IF span[s] = "open" THEN "dead" ELSE span[s]
      /\ span' \in [Spans -> {"new", "open", "closed", "dead"}]
  BY DEF SpanCrash, Fails, SpanInv, SpanType
<1>2. SpanType'
  BY <1>1 DEF SpanInv, SpanType
<1>3. OnceInv'
  BY <1>1 DEF SpanInv, OnceInv, Written
<1>4. \A s \in Spans : ~ EndRead(s)' /\ ~ StartRead(s)' /\ (InOrder(s)' <=> InOrder(s))
  BY <1>1 DEF EndRead, StartRead, InOrder, SpanInv, SpanType
<1>5. \A s \in Spans : One(s \in records)' = 0 /\ One(EndRead(s))' = 0
  BY <1>1, <1>4 DEF One
<1>6. \A s \in Spans : measured'[s] <= faults'
  <2> SUFFICES ASSUME NEW s \in Spans PROVE measured[s] <= faults + 1
    BY <1>1
  <2>1. measured[s] + One(s \in records) <= faults + One(EndRead(s)) /\ measured[s] \in Nat
    BY DEF SpanInv, MeasureInv, SpanType
  <2>2. One(s \in records) \in {0, 1} /\ One(EndRead(s)) \in {0, 1}
    BY DEF One
  <2> QED BY <1>1, <2>1, <2>2
<1>7. MeasureInv'
  <2>1. \A s \in Spans : measured'[s] + 0 <= faults' + 0
    BY <1>1, <1>2, <1>6 DEF SpanType
  <2> QED BY <1>1, <1>4, <1>5, <2>1 DEF SpanInv, MeasureInv
<1> QED BY <1>2, <1>3, <1>7 DEF SpanInv

\* Steps of the other parts of the service.
LEMMA OtherStep ==
    ASSUME SpanInv, UNCHANGED spanVars, faults' \in {faults, faults + 1}
    PROVE  SpanInv'
<1>1. UNCHANGED <<span, emits, stream, cursor, pending, records, old, measured>> /\ faults \in Nat
  BY DEF spanVars, tracerVars, aggregatorVars, SpanInv, SpanType
<1>2. SpanType' /\ OnceInv'
  BY <1>1 DEF SpanInv, SpanType, OnceInv, Written
<1>3. MeasureInv'
  <2>1. \A s \in Spans : One(EndRead(s))' = One(EndRead(s)) /\ One(s \in records)' = One(s \in records)
    BY <1>1, StreamStays DEF One
  <2>2. \A s \in Spans : /\ measured[s] \in Nat /\ One(EndRead(s)) \in {0, 1}
                         /\ One(s \in records) \in {0, 1}
    BY DEF SpanInv, SpanType, One
  <2> QED BY <1>1, <2>1, <2>2, StreamStays DEF SpanInv, MeasureInv
<1> QED BY <1>2, <1>3 DEF SpanInv

LEMMA SpansStep == SpanInv /\ [Next]_vars => SpanInv'
<1> SUFFICES ASSUME SpanInv, [Next]_vars PROVE SpanInv'
  OBVIOUS
<1>1. CASE SpanStep
  BY <1>1, StartStep, EndStep, AgeStep, RecordStep, EmitStep, BatchStep DEF SpanStep
<1>2. CASE Crash
  BY <1>2, SpanCrashStep DEF Crash
<1>3. ASSUME NEW v \in Events, LogEvent(v) PROVE SpanInv'
  BY <1>3, OtherStep DEF LogEvent, Succeeds, Fails
<1>4. ASSUME NEW g \in Groups, ReadRecent(g) PROVE SpanInv'
  BY <1>4, OtherStep DEF ReadRecent
<1>5. ASSUME NEW c \in Compressions, ReadEvents(c) \/ StoreSummary(c) PROVE SpanInv'
  BY <1>5, OtherStep DEF ReadEvents, StoreSummary, Succeeds, Fails
<1>6. ASSUME NEW u \in Updates, UpdateToolStats(u) PROVE SpanInv'
  BY <1>6, OtherStep DEF UpdateToolStats, ReadStats, SaveStats, hgetall, Succeeds, Fails
<1>7. CASE UNCHANGED vars
  BY <1>7, OtherStep DEF vars
<1> QED BY <1>1, <1>2, <1>3, <1>4, <1>5, <1>6, <1>7 DEF Next

\* Each span is measured once in each life of the process, only from a start and a
\* later end, and none is missed that the aggregator has read within the minute.
THEOREM SpansAreMeasuredOnce == Spec => []MeasuredOnce
<1>1. ASSUME SpanInv, NEW s \in Spans
      PROVE  /\ measured[s] > 0 => InOrder(s)
             /\ measured[s] + Cardinality(records \cap {s}) <= 1 + faults
             /\ InOrder(s) /\ cursor = Len(stream) /\ s \notin records /\ s \notin old /\ faults = 0
                    => measured[s] = 1
  <2>1. /\ measured[s] > 0 \/ s \in records => InOrder(s)
        /\ measured[s] + One(s \in records) <= faults + One(EndRead(s))
        /\ faults = 0 /\ s \notin old => (InOrder(s) /\ EndRead(s) => measured[s] > 0 \/ s \in records)
        /\ measured[s] \in Nat /\ faults \in Nat
    BY <1>1 DEF SpanInv, SpanType, MeasureInv
  <2>2. One(s \in records) \in {0, 1} /\ One(EndRead(s)) \in {0, 1}
    BY DEF One
  <2>3. Cardinality(records \cap {s}) = One(s \in records)
    <3>1. CASE s \in records
      <4>1. records \cap {s} = {s}
        BY <3>1
      <4> QED BY <3>1, <4>1, FS_Singleton DEF One
    <3>2. CASE s \notin records
      <4>1. records \cap {s} = {}
        BY <3>2
      <4> QED BY <3>2, <4>1, FS_EmptySet DEF One
    <3> QED BY <3>1, <3>2
  <2>4. InOrder(s) /\ cursor = Len(stream) => EndRead(s)
    BY <1>1 DEF InOrder, EndRead, SpanInv, SpanType
  <2> QED BY <2>1, <2>2, <2>3, <2>4
<1>2. SpanInv => MeasuredOnce
  BY <1>1 DEF MeasuredOnce
<1> QED BY <1>2, SpanStart, SpansStep, PTL DEF Spec

(***************************************************************************)
(* Tool statistics.  CountsAreLostToRaces is about the sum over the keys   *)
(* of a tool; the invariant says the same of each key, and of what an      *)
(* update has read of it: while its key is at no risk, that is what the    *)
(* key holds.                                                              *)
(***************************************************************************)
Record == [attempts : Nat, successes : Nat, failures : Nat]

\* The calls whose record was written under a key.
Calls(k) == {r \in saved : r[2] = k}

ToolType ==
    /\ faults \in 0..MaxFaults /\ life \in Nat /\ life <= faults
    /\ stats \in [Keys -> Record]
    /\ update \in [Updates -> [at : {"new", "save", "done"}, read : Record]]
    /\ saved \in SUBSET (Updates \X Keys)

KeyInv ==
    /\ \A r \in saved : r[2][1] = ToolOf[r[1]] /\ update[r[1]].at = "done"
    /\ \A k \in Keys : stats[k].attempts <= Cardinality(Calls(k))
    /\ \A u \in Updates : update[u].at = "save" =>
           update[u].read.attempts <= Cardinality(Calls(Key(u)))
    /\ faults = 0 =>
          /\ \A k \in Keys : stats[k].attempts < Cardinality(Calls(k)) => Calls(k) \cap raced # {}
          /\ \A u \in Updates : update[u].at = "save" /\ <<u, Key(u)>> \notin raced =>
                 update[u].read.attempts = stats[Key(u)].attempts

ToolInv == ToolType /\ KeyInv

LEMMA KeyType ==
    ASSUME ToolType, NEW u \in Updates
    PROVE  Key(u) \in Keys /\ Key(u)[1] = ToolOf[u]
<1>1. (IF StateOf[u] = NoState THEN 0 ELSE life) \in 0..MaxFaults
  BY SpanAssumption DEF ToolType
<1> QED BY <1>1 DEF Key, Keys

LEMMA KeysAreFinite == IsFiniteSet(Keys)
<1> DEFINE D == Updates \X (0..MaxFaults)
           f == [d \in D |-> <<ToolOf[d[1]], StateOf[d[1]], d[2]>>]
<1>1. IsFiniteSet(D)
  <2>1. IsFiniteSet(0..MaxFaults)
    BY SpanAssumption, FS_Interval
  <2>2. IsFiniteSet(Updates)
    BY StateAssumption
  <2> QED BY <2>1, <2>2, FS_Product
<1>2. f \in [D -> Keys]
  BY DEF Keys
<1>3. \A k \in Keys : \E d \in D : f[d] = k
  <2>1. ASSUME NEW u \in Updates, NEW n \in 0..MaxFaults
        PROVE  \E d \in D : f[d] = <<ToolOf[u], StateOf[u], n>>
    <3>1. <<u, n>> \in D
      OBVIOUS
    <3>2. f[<<u, n>>] = <<ToolOf[u], StateOf[u], n>>
      BY <3>1
    <3> QED BY <3>1, <3>2
  <2> HIDE DEF f, D
  <2> QED BY <2>1 DEF Keys
<1>4. f \in Surjection(D, Keys)
  <2> HIDE DEF f, D
  <2> QED BY <1>2, <1>3 DEF Surjection
<1> HIDE DEF f, D
<1> QED BY <1>1, <1>4, FS_Surjection

LEMMA CallsType ==
    ASSUME ToolType
    PROVE  /\ IsFiniteSet(saved)
           /\ \A k : IsFiniteSet(Calls(k)) /\ Cardinality(Calls(k)) \in Nat
<1>1. IsFiniteSet(saved)
  BY KeysAreFinite, StateAssumption, FS_Product, FS_Subset DEF ToolType
<1> QED BY <1>1, FS_Subset, FS_CardinalityType DEF Calls

LEMMA ToolStart == Init => ToolInv
<1> SUFFICES ASSUME Init PROVE ToolInv
  OBVIOUS
<1>1. ToolType
  BY SpanAssumption DEF Init, ToolType, NoStats, Record
<1>2. \A k : Calls(k) = {}
  BY DEF Init, Calls
<1>3. \A k : Cardinality(Calls(k)) = 0
  BY <1>2, FS_EmptySet
<1> QED BY <1>1, <1>3 DEF Init, ToolInv, KeyInv, NoStats

LEMMA ReadStep == ASSUME ToolInv, NEW u \in Updates, ReadStats(u) PROVE ToolInv'
<1>1. PICK state \in {stats, [k \in Keys |-> NoStats]} :
        hgetall(state) /\ update' = [update EXCEPT ![u] = [at |-> "save", read |-> state[Key(u)]]]
  BY DEF ReadStats
<1>2. life' = life /\ stats' = stats /\ saved' = saved /\ raced' = raced /\ update[u].at = "new"
  BY DEF ReadStats
<1>3. Key(u) \in Keys
  BY KeyType DEF ToolInv
<1>4. state[Key(u)] \in Record
  BY <1>3 DEF ToolInv, ToolType, NoStats, Record
<1>5. faults' \in 0..MaxFaults /\ life <= faults'
  BY <1>1, SpanAssumption DEF hgetall, Succeeds, Fails, ToolInv, ToolType
<1>6. ToolType'
  BY <1>1, <1>2, <1>4, <1>5 DEF ToolInv, ToolType
<1>7. /\ \A v \in Updates \ {u} : update'[v] = update[v]
      /\ update'[u].at = "save" /\ update'[u].read = state[Key(u)]
  BY <1>1 DEF ToolInv, ToolType
<1>8. \A k : Calls(k)' = Calls(k) /\ Cardinality(Calls(k)') = Cardinality(Calls(k))
  BY <1>2 DEF Calls
<1>9. \A v \in Updates : Key(v)' = Key(v)
  BY <1>2 DEF Key
<1>10. state[Key(u)].attempts <= Cardinality(Calls(Key(u)))
  <2>1. CASE state = stats
    BY <1>3, <2>1 DEF ToolInv, KeyInv
  <2>2. CASE state = [k \in Keys |-> NoStats]
    <3>1. Cardinality(Calls(Key(u))) \in Nat
      BY CallsType DEF ToolInv
    <3> QED BY <1>3, <2>2, <3>1 DEF NoStats
  <2> QED BY <2>1, <2>2
<1>11. faults' = 0 => faults = 0 /\ state = stats
  BY <1>1 DEF hgetall, Succeeds, Fails, ToolInv, ToolType
<1>12. \A r \in saved' : r[2][1] = ToolOf[r[1]] /\ update'[r[1]].at = "done"
  <2> TAKE r \in saved'
  <2>1. r[1] \in Updates /\ r[2][1] = ToolOf[r[1]] /\ update[r[1]].at = "done"
    BY <1>2 DEF ToolInv, KeyInv, ToolType
  <2> QED BY <1>2, <1>7, <2>1
<1>13. \A v \in Updates : Cardinality(Calls(Key(v)))' = Cardinality(Calls(Key(v)))
  BY <1>2 DEF Calls, Key
<1>14. \A v \in Updates : update'[v].at = "save" =>
         update'[v].read.attempts <= Cardinality(Calls(Key(v)))
  BY <1>7, <1>10 DEF ToolInv, KeyInv
<1>15. ASSUME faults' = 0
       PROVE  /\ \A k \in Keys : stats[k].attempts < Cardinality(Calls(k)) => Calls(k) \cap raced # {}
              /\ \A v \in Updates : update'[v].at = "save" /\ <<v, Key(v)>> \notin raced =>
                     update'[v].read.attempts = stats[Key(v)].attempts
  BY <1>3, <1>7, <1>11, <1>15 DEF ToolInv, KeyInv
<1> QED BY <1>2, <1>6, <1>8, <1>9, <1>12, <1>13, <1>14, <1>15 DEF ToolInv, KeyInv

LEMMA SaveStep == ASSUME ToolInv, NEW u \in Updates, SaveStats(u) PROVE ToolInv'
<1>1. /\ update[u].at = "save" /\ update' = [update EXCEPT ![u].at = "done"] /\ life' = life
      /\ Key(u) \in Keys /\ Key(u)[1] = ToolOf[u]
  BY KeyType DEF SaveStats, ToolInv
<1>2. /\ \A v \in Updates \ {u} : update'[v] = update[v]
      /\ update'[u].at = "done"
      /\ update' \in [Updates -> [at : {"new", "save", "done"}, read : Record]]
  BY <1>1 DEF ToolInv, ToolType
<1>3. \A k, l : Calls(k) = {r \in saved : r[2] = k} /\ Calls(l)' = {r \in saved' : r[2] = l}
  BY DEF Calls
<1>4. \A v \in Updates : Key(v)' = Key(v)
  BY <1>1 DEF Key
<1>5. faults' \in 0..MaxFaults /\ life <= faults' /\ (faults' = 0 => faults = 0)
  BY SpanAssumption DEF SaveStats, Succeeds, Fails, ToolInv, ToolType
<1>6. CASE Fails /\ UNCHANGED <<stats, saved, raced>>
  <2>1. ToolType'
    BY <1>1, <1>2, <1>5, <1>6 DEF ToolInv, ToolType
  <2>2. \A r \in saved : update'[r[1]].at = "done"
    BY <1>2 DEF ToolInv, KeyInv, ToolType
  <2>3. \A k : Calls(k)' = Calls(k)
    BY <1>3, <1>6
  <2>4. faults' # 0
    BY <1>6 DEF Fails, ToolInv, ToolType
  <2>5. \A v \in Updates : Cardinality(Calls(Key(v)))' = Cardinality(Calls(Key(v)))
    BY <1>1, <1>6 DEF Key, Calls
  <2>6. \A v \in Updates : update'[v].at = "save" =>
           update'[v].read.attempts <= Cardinality(Calls(Key(v)))
    BY <1>2 DEF ToolInv, KeyInv
  <2>7. \A k \in Keys : stats'[k].attempts <= Cardinality(Calls(k)')
    BY <1>6, <2>3 DEF ToolInv, KeyInv
  <2>8. Keys' = Keys
    BY DEF Keys
  <2> QED BY <1>6, <2>1, <2>2, <2>4, <2>5, <2>6, <2>7 DEF ToolInv, KeyInv
<1>7. CASE /\ Succeeds /\ hset(Key(u), Added(u, update[u].read))
           /\ saved' = saved \cup {<<u, Key(u)>>}
           /\ raced' = raced \cup {<<v, Key(v)>> : v \in {v \in Updates \ {u} :
                                     update[v].at = "save" /\ Key(v) = Key(u)}}
  <2>0. PICK key \in Keys : key = Key(u)
    BY <1>1
  <2> DEFINE read == update[u].read
  <2>1. read \in Record /\ Added(u, read) \in Record /\ Added(u, read).attempts = read.attempts + 1
    <3>1. SuccessOf[u] \in BOOLEAN /\ read \in Record
      BY StateAssumption DEF ToolInv, ToolType
    <3> QED BY <3>1 DEF Added, Record
  <2>2. /\ stats' \in [Keys -> Record] /\ stats'[key].attempts = read.attempts + 1
        /\ \A k \in Keys \ {key} : stats'[k] = stats[k]
    BY <1>7, <2>0, <2>1 DEF hset, ToolInv, ToolType
  <2>3. saved' \in SUBSET (Updates \X Keys)
    BY <1>1, <1>7 DEF ToolInv, ToolType
  <2>4. ToolType'
    BY <1>1, <1>2, <1>5, <2>2, <2>3 DEF ToolInv, ToolType
  <2>5. <<u, key>> \notin saved
    BY <1>1, <2>0 DEF ToolInv, KeyInv
  <2>6. \A r \in saved' : r[2][1] = ToolOf[r[1]] /\ update'[r[1]].at = "done"
    <3> SUFFICES ASSUME NEW r \in saved' PROVE r[2][1] = ToolOf[r[1]] /\ update'[r[1]].at = "done"
      OBVIOUS
    <3>1. CASE r = <<u, key>>
      BY <1>1, <1>2, <2>0, <3>1
    <3>2. CASE r \in saved
      BY <1>2, <3>2 DEF ToolInv, KeyInv, ToolType
    <3> QED BY <1>7, <2>0, <3>1, <3>2
  <2>7. /\ Calls(key)' = Calls(key) \cup {<<u, key>>} /\ <<u, key>> \notin Calls(key)
        /\ \A k : k # key => Calls(k)' = Calls(k)
    <3>1. saved' = saved \cup {<<u, key>>}
      BY <1>7, <2>0
    <3> QED BY <2>5, <3>1 DEF Calls
  <2>8. \A k : Cardinality(Calls(k)) \in Nat
    BY CallsType DEF ToolInv
  <2>9. Cardinality(Calls(key)') = Cardinality(Calls(key)) + 1
    BY <2>7, CallsType, FS_AddElement DEF ToolInv
  <2>10. \A v \in Updates : Key(v) # key =>
            Cardinality(Calls(Key(v)))' = Cardinality(Calls(Key(v))) /\ stats'[Key(v)] = stats[Key(v)]
    <3> TAKE v \in Updates
    <3>1. PICK k \in Keys : k = Key(v)
      BY KeyType DEF ToolInv
    <3>2. k # key => Calls(k)' = Calls(k) /\ stats'[k] = stats[k]
      BY <2>2, <2>7
    <3>3. Calls(Key(v))' = Calls(k)'
      BY <1>4, <3>1 DEF Calls
    <3> QED BY <3>1, <3>2, <3>3
  <2>11. \A v \in Updates : Key(v) = key => Cardinality(Calls(Key(v)))' = Cardinality(Calls(key)) + 1
    <3> TAKE v \in Updates
    <3>1. Key(v) = key => Calls(Key(v))' = Calls(key)'
      BY <1>4 DEF Calls
    <3> QED BY <2>9, <3>1
  <2>12. read.attempts <= Cardinality(Calls(key))
    BY <1>1, <2>0 DEF ToolInv, KeyInv
  <2>13. \A k \in Keys : stats'[k].attempts <= Cardinality(Calls(k)')
    <3> TAKE k \in Keys
    <3>1. CASE k = key
      BY <2>1, <2>2, <2>8, <2>9, <2>12, <3>1 DEF Record
    <3>2. CASE k # key
      BY <2>2, <2>7, <3>2 DEF ToolInv, KeyInv
    <3> QED BY <3>1, <3>2
  <2>14. \A v \in Updates : update'[v].at = "save" =>
            update'[v].read.attempts <= Cardinality(Calls(Key(v)))'
    <3> SUFFICES ASSUME NEW v \in Updates, update'[v].at = "save"
                 PROVE  update'[v].read.attempts <= Cardinality(Calls(Key(v)))'
      OBVIOUS
    <3>1. v # u /\ update'[v] = update[v] /\ update[v].read.attempts <= Cardinality(Calls(Key(v)))
      BY <1>2 DEF ToolInv, KeyInv
    <3>2. update[v].read.attempts \in Nat
      BY DEF ToolInv, ToolType, Record
    <3>3. CASE Key(v) = key
      BY <2>8, <2>11, <3>1, <3>2, <3>3
    <3>4. CASE Key(v) # key
      BY <2>10, <3>1, <3>4
    <3> QED BY <3>3, <3>4
  <2>15. faults' = 0 =>
            \A k \in Keys : stats'[k].attempts < Cardinality(Calls(k)') => Calls(k)' \cap raced' # {}
    <3> SUFFICES ASSUME faults = 0, NEW k \in Keys, stats'[k].attempts < Cardinality(Calls(k)')
                 PROVE  Calls(k)' \cap raced' # {}
      BY <1>5
    <3>1. CASE k # key
      <4>1. Calls(k)' = Calls(k) /\ stats'[k] = stats[k]
        BY <2>2, <2>7, <3>1
      <4> QED BY <1>7, <4>1 DEF ToolInv, KeyInv
    <3>2. CASE k = key /\ <<u, key>> \in raced
      BY <1>7, <2>7, <3>2
    <3>3. CASE k = key /\ <<u, key>> \notin raced
      <4>1. read.attempts = stats[key].attempts
        BY <1>1, <2>0, <3>3 DEF ToolInv, KeyInv
      <4>2. stats[key].attempts < Cardinality(Calls(key))
        BY <2>1, <2>2, <2>8, <2>9, <3>3, <4>1 DEF Record
      <4>3. Calls(key) \cap raced # {}
        BY <4>2 DEF ToolInv, KeyInv
      <4> QED BY <1>7, <2>7, <3>3, <4>3
    <3> QED BY <3>1, <3>2, <3>3
  <2>16. faults' = 0 =>
            \A v \in Updates : update'[v].at = "save" /\ <<v, Key(v)>> \notin raced' =>
                update'[v].read.attempts = stats'[Key(v)].attempts
    <3> SUFFICES ASSUME faults = 0, NEW v \in Updates, update'[v].at = "save",
                        <<v, Key(v)>> \notin raced'
                 PROVE  update'[v].read.attempts = stats'[Key(v)].attempts
      BY <1>5
    <3>1. v # u /\ update'[v] = update[v] /\ update[v].at = "save"
      BY <1>2
    <3>2. Key(v) # key /\ <<v, Key(v)>> \notin raced
      BY <1>7, <2>0, <3>1
    <3> QED BY <2>10, <3>1, <3>2 DEF ToolInv, KeyInv
  <2> QED BY <1>4, <2>4, <2>6, <2>13, <2>14, <2>15, <2>16 DEF ToolInv, KeyInv
<1> QED BY <1>6, <1>7 DEF SaveStats

\* A restart: no update that has read is left to write.
LEMMA ToolCrash == ASSUME ToolInv, Crash PROVE ToolInv'
<1>1. stats' = stats /\ saved' = saved /\ faults' = faults + 1 /\ life' = life + 1
  BY DEF Crash, Fails
<1>2. faults' \in 0..MaxFaults /\ faults' # 0 /\ life' \in Nat /\ life' <= faults'
  BY <1>1, SpanAssumption DEF Crash, Fails, ToolInv, ToolType
<1>3. /\ update' \in [Updates -> [at : {"new", "save", "done"}, read : Record]]
      /\ \A u \in Updates : update'[u].at # "save"
      /\ \A u \in Updates : update[u].at = "done" => update'[u].at = "done"
  <2> SUFFICES ASSUME NEW u \in Updates
               PROVE  /\ update'[u] \in [at : {"new", "save", "done"}, read : Record]
                      /\ update'[u].at # "save"
                      /\ update[u].at = "done" => update'[u].at = "done"
    BY DEF Crash
  <2>1. update[u] \in [at : {"new", "save", "done"}, read : Record]
    BY DEF ToolInv, ToolType
  <2>2. update'[u] = IF update[u].at = "new" THEN update[u] ELSE [update[u] EXCEPT !.at = "done"]
    BY DEF Crash
  <2> QED BY <2>1, <2>2
<1>4. \A k : Calls(k)' = Calls(k)
  BY <1>1 DEF Calls
<1>5. \A k \in Keys : stats'[k].attempts <= Cardinality(Calls(k)')
  BY <1>1, <1>4 DEF ToolInv, KeyInv
<1>6. \A r \in saved' : r[2][1] = ToolOf[r[1]] /\ update'[r[1]].at = "done"
  BY <1>1, <1>3 DEF ToolInv, KeyInv, ToolType
<1>7. ToolType'
  BY <1>1, <1>2, <1>3 DEF ToolInv, ToolType
<1> QED BY <1>2, <1>3, <1>5, <1>6, <1>7 DEF ToolInv, KeyInv

\* The rest of the service does not touch the statistics; it may fail.
LEMMA ToolOthers ==
    ASSUME ToolInv, UNCHANGED <<stats, update, saved, raced, life>>,
           Succeeds \/ Fails \/ UNCHANGED faults
    PROVE  ToolInv'
<1>1. faults' \in 0..MaxFaults /\ faults <= faults'
  BY SpanAssumption DEF Succeeds, Fails, ToolInv, ToolType
<1>2. ToolType'
  BY <1>1 DEF ToolInv, ToolType
<1>3. faults' = 0 => faults = 0
  BY <1>1 DEF ToolInv, ToolType
<1> QED BY <1>2, <1>3 DEF ToolInv, KeyInv, Calls, Key

LEMMA ToolStep == ToolInv /\ [Next]_vars => ToolInv'
<1> SUFFICES ASSUME ToolInv, [Next]_vars PROVE ToolInv'
  OBVIOUS
<1>1. ASSUME NEW v \in Events, LogEvent(v) PROVE ToolInv'
  BY <1>1, ToolOthers DEF LogEvent, toolVars
<1>2. ASSUME NEW g \in Groups, ReadRecent(g) PROVE ToolInv'
  BY <1>2, ToolOthers DEF ReadRecent, toolVars
<1>3. ASSUME NEW c \in Compressions, ReadEvents(c) \/ StoreSummary(c) PROVE ToolInv'
  BY <1>3, ToolOthers DEF ReadEvents, StoreSummary, toolVars
<1>4. CASE SpanStep /\ UNCHANGED <<eventVars, toolVars, life>>
  <2>1. Succeeds \/ Fails \/ UNCHANGED faults
    BY <1>4 DEF SpanStep, Start, End, Emit, Age, ReadBatch, RecordLatency, Succeeds
  <2> QED BY <1>4, <2>1, ToolOthers DEF toolVars
<1>5. CASE UNCHANGED vars
  BY <1>5, ToolOthers DEF vars, toolVars
<1> QED BY <1>1, <1>2, <1>3, <1>4, <1>5, ReadStep, SaveStep, ToolCrash DEF Next, UpdateToolStats

\* What is said of each key, added up over those of a tool.
LEMMA ToolTotal ==
    ASSUME ToolInv, NEW t
    PROVE  LET calls == {r \in saved : ToolOf[r[1]] = t}
           IN /\ ToolStats(t) <= Cardinality(calls)
              /\ ToolStats(t) < Cardinality(calls) => calls \cap raced # {} \/ faults > 0
<1> DEFINE calls == {r \in saved : ToolOf[r[1]] = t}
           K == {k \in Keys : k[1] = t}
           counts == [k \in K |-> stats[k].attempts]
           written == [k \in K |-> Cardinality(Calls(k))]
           key == [r \in saved |-> r[2]]
<1>1. IsFiniteSet(K) /\ IsFiniteSet(saved)
  BY KeysAreFinite, CallsType, FS_Subset DEF ToolInv
<1>2. calls = Parts(saved, key, K)
  <2> SUFFICES ASSUME NEW r \in saved PROVE ToolOf[r[1]] = t <=> key[r] \in K
    BY DEF Parts
  <2> QED BY DEF ToolInv, KeyInv, ToolType
<1>3. \A k \in K : counts[k] \in Nat /\ written[k] \in Nat /\ counts[k] <= written[k]
  BY CallsType DEF ToolInv, ToolType, KeyInv, Record
<1>3a. \A k \in K : written[k] = Cardinality(Part(saved, key, k))
  <2> TAKE k \in K
  <2>1. Part(saved, key, k) = Calls(k)
    BY DEF Calls, Part
  <2> QED BY <2>1
<1>4. ToolStats(t) = SumFunctionOnSet(counts, K)
  BY DEF ToolStats, SumFunction
<1>5. \A k \in K : Calls(k) \subseteq calls
  BY DEF Calls, ToolInv, KeyInv
<1>6. faults = 0 => \A k \in K : counts[k] < written[k] => Calls(k) \cap raced # {}
  BY DEF ToolInv, KeyInv
<1>7. faults \in Nat
  BY SpanAssumption DEF ToolInv, ToolType
<1> HIDE DEF K, counts, written, key
<1>8. SumFunctionOnSet(written, K) = Cardinality(calls)
  <2> HIDE DEF calls
  <2>1. SumFunctionOnSet(written, K) = Cardinality(Parts(saved, key, K))
    BY <1>1, <1>3a, SumOfParts
  <2> QED BY <1>2, <2>1
<1>9. /\ SumFunctionOnSet(counts, K) <= SumFunctionOnSet(written, K)
      /\ SumFunctionOnSet(counts, K) \in Nat /\ SumFunctionOnSet(written, K) \in Nat
  BY <1>1, <1>3, SumGrows, SumType
<1>10. ASSUME SumFunctionOnSet(counts, K) < SumFunctionOnSet(written, K)
       PROVE  \E k \in K : counts[k] < written[k]
  <2> SUFFICES ASSUME \A k \in K : ~ (counts[k] < written[k]) PROVE FALSE
    OBVIOUS
  <2>1. \A k \in K : written[k] \in Nat /\ counts[k] \in Nat /\ written[k] <= counts[k]
    BY <1>3
  <2>2. SumFunctionOnSet(written, K) <= SumFunctionOnSet(counts, K)
    BY <1>1, <2>1, SumGrows
  <2> QED BY <1>9, <1>10, <2>2
<1> HIDE DEF calls
<1>11. ToolStats(t) < Cardinality(calls) => calls \cap raced # {} \/ faults > 0
  BY <1>4, <1>5, <1>6, <1>7, <1>8, <1>10
<1>12. ToolStats(t) <= Cardinality(calls)
  BY <1>4, <1>8, <1>9
<1> QED BY <1>11, <1>12 DEF calls

\* The statistics of a tool never count more calls than were reported and
\* written, over all of its states and all restarts; and where nothing has
\* failed, they count fewer only if a report was made while another one of the
\* same key was between its reading and its writing.
THEOREM OnlyRacesLoseCounts == Spec => []CountsAreLostToRaces
<1>1. ToolInv => CountsAreLostToRaces
  BY ToolTotal DEF CountsAreLostToRaces
<1> QED BY <1>1, ToolStart, ToolStep, PTL DEF Spec
===============================================================================
