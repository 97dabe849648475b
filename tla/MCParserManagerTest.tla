------------------------ MODULE MCParserManagerTest ------------------------
(* What test/parsers/parser_manager_test.cc expects of ParserManager, of an *)
(* instance of ParserPipeline with one work.                                *)
EXTENDS ParserPipeline

CONSTANTS u1, w1

TestWorkerOf == [u \in Uuid |-> w1]

VARIABLE fresh  \* history: the keys the RunOnce under way has routed

TestInit == Init /\ fresh = {}

TestNext ==
  /\ Next
  /\ fresh' = IF manager.at = "loop" THEN {}
              ELSE IF Len(job_queue') < Len(job_queue)
                   THEN fresh \cup {Head(job_queue)}
                   ELSE fresh

TestSpec == TestInit /\ [][TestNext]_<<vars, fresh>>

\* When the RunOnce that took a job from the manager's queue returns, the job
\* is JOB_WORKER_QUEUED: the test requires it after its first RunOnce.
RoutedIsWorkerQueued ==
  [][manager.at = "results" /\ manager'.at = "loop"
       => \A k \in fresh : current_jobs[k] = "JOB_WORKER_QUEUED"]_<<vars, fresh>>
=============================================================================
