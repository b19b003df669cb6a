---------------------------- MODULE MCServiceState ----------------------------
(* A small instance of ServiceState for TLC: one event of each of two       *)
(* groups, a compression by REST and one by run_curation, three reports of  *)
(* a tool and one timed step.                                               *)
EXTENDS ServiceState

MCEndpointOf == [s \in Spans |-> "observe:embed"]
MCEventGroup == [v \in Events |-> v]
MCCompressionGroup == [c \in Compressions |-> "g1"]
MCToolOf == [u \in Updates |-> "search"]
MCStateOf == [u \in Updates |-> IF u = 3 THEN "started" ELSE NoState]
MCSuccessOf == [u \in Updates |-> u # 2]
===============================================================================
