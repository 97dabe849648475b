-------------------------- MODULE MCParserPipeline --------------------------
(* Instances of ParserPipeline for TLC.                                      *)
EXTENDS ParserPipeline

CONSTANTS u1, u2, u3, w1, w2

\* Two works of one source and one of a source without a worker.
OneWorkerOf == [u \in Uuid |-> IF u = u3 THEN NoWorker ELSE w1]

\* Works of two sources.
TwoWorkersOf == [u \in Uuid |-> IF u = u2 THEN w2 ELSE w1]
=============================================================================
