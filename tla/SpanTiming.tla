------------------------------ MODULE SpanTiming ------------------------------
(***************************************************************************)
(* Latency telemetry: SpanTracer writes the start and the end of a step to *)
(* a stream of DragonflyDB, each in a task of its own; SpanAggregator      *)
(* reads the stream, matches them, and records the durations.              *)
(***************************************************************************)
EXTENDS Naturals, Sequences, FiniteSets

CONSTANTS Spans,        \* timed steps
          EndpointOf,   \* operation:step
          BatchSize,    \* _BATCH_SIZE
          MaxSamples,   \* samples that are kept of an endpoint (200)
          MaxFaults     \* bound: failed calls and restarts in one behaviour

ASSUME SpanAssumption ==
    /\ BatchSize \in Nat \ {0} /\ MaxSamples \in Nat \ {0} /\ MaxFaults \in Nat
    /\ EndpointOf \in [Spans -> STRING]

Endpoints == {EndpointOf[s] : s \in Spans}

VARIABLES
    span,       \* where the timed code is
    emits,      \* tasks that will write to the stream
    stream,     \* timing:spans
    cursor,     \* last_id
    pending,    \* starts without an end
    records,    \* tasks that will record a duration
    latency,    \* latency:{endpoint}, newest first
    old,        \* spans that started more than _STALE_SPAN_TTL ago
    measured,   \* history: how often the duration of a span was recorded
    faults

tracerVars == <<span, emits>>
aggregatorVars == <<cursor, pending, records>>
spanVars == <<tracerVars, stream, aggregatorVars, latency, old, measured>>

Message == {"start", "end"} \X Spans

SpanInit ==
    /\ span = [s \in Spans |-> "new"]
    /\ emits = {} /\ stream = <<>> /\ cursor = 0 /\ pending = {} /\ records = {} /\ old = {}
    /\ latency = [p \in Endpoints |-> <<>>]
    /\ measured = [s \in Spans |-> 0]

Succeeds == UNCHANGED faults
Fails == faults < MaxFaults /\ faults' = faults + 1

\* SpanTracer.start
Start(s) ==
    /\ span[s] = "new"
    /\ span' = [span EXCEPT ![s] = "open"]
    /\ emits' = emits \cup {<<"start", s>>}
    /\ UNCHANGED <<stream, aggregatorVars, latency, old, measured, faults>>

\* SpanTracer.end
End(s) ==
    /\ span[s] = "open"
    /\ span' = [span EXCEPT ![s] = "closed"]
    /\ emits' = emits \cup {<<"end", s>>}
    /\ UNCHANGED <<stream, aggregatorVars, latency, old, measured, faults>>

\* _emit_span: the two tasks of a span may use different connections.
Emit(m) ==
    /\ m \in emits
    /\ emits' = emits \ {m}
    /\ \/ Succeeds /\ stream' = Append(stream, m)
       \/ Fails /\ UNCHANGED stream
    /\ UNCHANGED <<span, aggregatorVars, latency, old, measured>>

\* More than a minute passes.
Age(s) ==
    /\ span[s] # "new" /\ s \notin old
    /\ old' = old \cup {s}
    /\ UNCHANGED <<tracerVars, stream, aggregatorVars, latency, measured, faults>>

Batch == {i \in DOMAIN stream : cursor < i /\ i <= cursor + BatchSize}

Begun == {s \in Spans : \E i \in Batch : stream[i] = <<"start", s>>}

\* Mutant: an end is matched with a start that comes after it.
FinishedBug == {s \in Spans : \E k \in Batch : stream[k] = <<"end", s>> /\ s \in pending \cup Begun}

\* _process_span_event: an end whose start has not been seen is dropped.
Finished ==
    {s \in Spans : \E k \in Batch :
        /\ stream[k] = <<"end", s>>
        /\ s \in pending \/ \E i \in Batch : i < k /\ stream[i] = <<"start", s>>}

\* A batch that is not empty; then the stale starts are discarded.
ReadBatch ==
    /\ Batch # {}
    /\ cursor' = cursor + Cardinality(Batch)
    /\ records' = records \cup Finished
    /\ pending' = ((pending \cup Begun) \ Finished) \ old
    /\ UNCHANGED <<tracerVars, stream, latency, old, measured, faults>>

\* record_latency: pushed and trimmed in one pipeline; an error loses the sample.
RecordLatency(s) ==
    LET p == EndpointOf[s]
        samples == <<s>> \o latency[p]
    IN /\ s \in records
       /\ records' = records \ {s}
       /\ \/ /\ Succeeds
             /\ latency' = [latency EXCEPT ![p] = SubSeq(samples, 1, IF Len(samples) < MaxSamples
                                                                    THEN Len(samples)
                                                                    ELSE MaxSamples)]
             /\ measured' = [measured EXCEPT ![s] = @ + 1]
          \/ Fails /\ UNCHANGED <<latency, measured>>
       /\ UNCHANGED <<tracerVars, stream, cursor, pending, old>>

SpanStep ==
    \/ \E s \in Spans : Start(s) \/ End(s) \/ Age(s) \/ RecordLatency(s)
    \/ \E m \in Message : Emit(m)
    \/ ReadBatch

\* The process dies.  The next aggregator starts from the beginning of the stream.
SpanCrash ==
    /\ span' = [s \in Spans |-> IF span[s] = "open" THEN "dead" ELSE span[s]]
    /\ emits' = {} /\ pending' = {} /\ records' = {} /\ cursor' = 0
    /\ UNCHANGED <<stream, latency, old, measured>>

\* The start of a span was written before its end.
InOrder(s) == \E i, k \in DOMAIN stream : i < k /\ stream[i] = <<"start", s>> /\ stream[k] = <<"end", s>>

\* Only the durations of spans with both events in their order are recorded, once
\* in each life of the process; and all of them are, when the aggregator has read
\* what there is, except those it has forgotten after a minute.
MeasuredOnce ==
    \A s \in Spans :
        /\ measured[s] > 0 => InOrder(s)
        /\ measured[s] + Cardinality(records \cap {s}) <= 1 + faults
        /\ InOrder(s) /\ cursor = Len(stream) /\ s \notin records /\ s \notin old /\ faults = 0
               => measured[s] = 1
===============================================================================
