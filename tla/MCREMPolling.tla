----------------------------- MODULE MCREMPolling -----------------------------
(* A small instance of REMPolling for TLC: two episodes of one group, which  *)
(* can find each other, and one of another group.                            *)
EXTENDS REMPolling

MCGroupOf == [e \in Episodes |-> IF e = 3 THEN "g2" ELSE "g1"]
MCOneGroup == [e \in Episodes |-> "g1"]
MCOwnGroup == [e \in Episodes |-> {d \in Episodes : MCGroupOf[d] = MCGroupOf[e]}]
MCAnywhere == [e \in Episodes |-> Episodes]
===============================================================================
