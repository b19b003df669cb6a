--------------------------- MODULE MCPipelineWorkers ---------------------------
(* A small instance of PipelineWorkers for TLC. *)
EXTENDS PipelineWorkers

CONSTANTS c1, c2

\* Two messages of the normal queue, for their order, compete with a fast one;
\* one message is enough for an AsyncWorker, which shares nothing with them.
MCTraffic == {<<"normal", c1>>, <<"normal", c2>>, <<"fast", c1>>, <<"artifacts", c1>>}
===============================================================================
