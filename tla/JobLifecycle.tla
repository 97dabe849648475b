---------------------------- MODULE JobLifecycle ----------------------------
(***************************************************************************)
(* What the parser pipeline promises about a job, and nothing about how.   *)
(*                                                                         *)
(* ParserManager keeps one job_status_t per (uuid, is_error_job) pair in   *)
(* current_jobs_.  A pair is put there when a job for it is accepted, its  *)
(* status only ever moves forward, and the pair leaves the board in one    *)
(* way: its parse ended well, and then the library is told of it once.     *)
(* A job that fails is kept on the board: parser_manager_test.cc asks for  *)
(* it to be listed still, as JOB_ERROR.                                    *)
(***************************************************************************)
EXTENDS Naturals

CONSTANT Key            \* the (uuid, is_error_job) pairs

VARIABLES current_jobs, \* the board: the status of every pair, or "NONE"
          accepted,     \* how many jobs were accepted for a pair
          reported      \* how many results of a pair reached the library

vars == <<current_jobs, accepted, reported>>

\* job_status_t, and "NONE" for a pair the map does not hold.
Status == {"NONE", "JOB_MANAGER_QUEUED", "JOB_WORKER_QUEUED", "JOB_WORKING",
           "JOB_FINISHED", "JOB_ERROR"}

Init ==
  /\ current_jobs = [k \in Key |-> "NONE"]
  /\ accepted = [k \in Key |-> 0]
  /\ reported = [k \in Key |-> 0]

Become(k, from, to) ==
  /\ current_jobs[k] = from
  /\ current_jobs' = [current_jobs EXCEPT ![k] = to]

Accept(k) ==
  /\ Become(k, "NONE", "JOB_MANAGER_QUEUED")
  /\ accepted' = [accepted EXCEPT ![k] = @ + 1]
  /\ UNCHANGED reported

Advance(k) ==
  /\ \/ Become(k, "JOB_MANAGER_QUEUED", "JOB_WORKER_QUEUED")
     \/ Become(k, "JOB_WORKER_QUEUED", "JOB_WORKING")
     \/ Become(k, "JOB_WORKING", "JOB_FINISHED")
     \/ Become(k, "JOB_WORKING", "JOB_ERROR")
  /\ UNCHANGED <<accepted, reported>>

Release(k) ==
  /\ Become(k, "JOB_FINISHED", "NONE")
  /\ UNCHANGED <<accepted, reported>>

\* The report follows the release, and a new job for the pair may be
\* accepted in between: what is owed is one report per released job.
Owed(k) == accepted[k] - (IF current_jobs[k] = "NONE" THEN 0 ELSE 1)

Report(k) ==
  /\ reported[k] < Owed(k)
  /\ reported' = [reported EXCEPT ![k] = @ + 1]
  /\ UNCHANGED <<current_jobs, accepted>>

Next == \E k \in Key : Accept(k) \/ Advance(k) \/ Release(k) \/ Report(k)

Spec == Init /\ [][Next]_vars
=============================================================================
