--------------------------- MODULE ParserPipeline ---------------------------
(***************************************************************************)
(* ParserManager, its ParserWorkers, and the tasks in the workers' pools.  *)
(*                                                                         *)
(* Four kinds of threads move a job: the main thread adds it (AddJob), the *)
(* manager thread of BlackLibrary carries it from queue to queue and       *)
(* collects results (RunOnce, once a second, then Stop), a pool thread     *)
(* runs it, and beside every running parser a done_thread waits to stop    *)
(* it.  They share current_jobs_, the queues and the futures; each access  *)
(* to a BlockingQueue or BlockingUnorderedMap is one atomic step here.     *)
(*                                                                         *)
(* Abstracted: a job is its key, the pair current_jobs_ is indexed by; the *)
(* url of a uuid decides its worker (WorkerOf).  Urls and uuids are never  *)
(* empty here, as they are in every call BlackLibrary makes.               *)
(***************************************************************************)
EXTENDS Naturals, Sequences, FiniteSets, SequencesExt

CONSTANTS Uuid,       \* uuids of works
          Worker,     \* the parser types AddWorker was called for
          NoWorker,   \* a url of no known source, or of one without a worker
          WorkerOf,   \* the worker a uuid's url is routed to, or NoWorker
          PoolSize,   \* manager_worker_count: threads of each worker's pool
          MaxAddJobs  \* bound: calls of AddJob

ASSUME PipelineAssumption ==
  /\ NoWorker \notin Worker
  /\ WorkerOf \in [Uuid -> Worker \cup {NoWorker}]
  /\ PoolSize \in Nat \ {0}
  /\ MaxAddJobs \in Nat

VARIABLES
  done,          \* BlackLibrary::done_
  app,           \* the main thread inside AddJob: the step it is at, its job
  adds,          \* calls of AddJob so far, for the bound
  current_jobs,  \* current_jobs_: the status of every key, "NONE" if absent
  job_queue,     \* ParserManager::job_queue_
  result_queue,  \* ParserManager::result_queue_
  manager,       \* the manager thread: where it is in RunOnce or Stop
  worker_queue,  \* ParserWorker::job_queue_
  pool_results,  \* ParserWorker::pool_results_, each future with its task
  pool_erases,   \* ParserWorker::pool_erases_
  worker_done,   \* ParserWorker::done_
  accepted,      \* history: jobs accepted, by key
  reported       \* history: calls of database_status_callback_, by key

appVars    == <<app, adds>>
workerVars == <<worker_queue, pool_results, pool_erases, worker_done>>
historyVars == <<accepted, reported>>
vars == <<done, appVars, current_jobs, job_queue, result_queue, manager,
          workerVars, historyVars>>

----------------------------------------------------------------------------
\* CurrentJobPairHash's key: the uuid and whether the job retries an error.
Key == Uuid \X BOOLEAN

Status == {"NONE", "JOB_MANAGER_QUEUED", "JOB_WORKER_QUEUED", "JOB_WORKING",
           "JOB_FINISHED", "JOB_ERROR"}

\* A task of a pool and the future that watches it.  "queued": in the pool's
\* task queue; "setup": taken by a pool thread, before the done_thread exists;
\* "working": the done_thread runs, Parse has not cleared the parser's done_;
\* "parsing": inside Parse; "joining": Parse returned; "ready": the task
\* returned and its future is ready.
Phase == {"queued", "setup", "working", "parsing", "joining", "ready"}

Task == [key : Key, phase : Phase,
         has_error : BOOLEAN,                   \* ParserJobResult::has_error
         stop : BOOLEAN,                        \* Parser::done_
         parser_error : BOOLEAN,                \* the task's parser_error
         watcher : {"none", "watching", "ended"}] \* the done_thread

NewTask(k) == [key |-> k, phase |-> "queued", has_error |-> TRUE,
               stop |-> FALSE, parser_error |-> FALSE, watcher |-> "none"]

Running == {"setup", "working", "parsing", "joining"}

RunningTasks(w) ==
  {i \in DOMAIN pool_results[w] : pool_results[w][i].phase \in Running}

NoKey == <<>>

ManagerStep == {"loop", "jobs", "workers", "scan", "erase", "enqueue",
                "results", "report", "stop", "wait", "stopped"}

\* at: the manager thread's step; todo: the workers RunOnce or Stop still has
\* to visit; w: the worker it is at; pos: the future it is at; key: the job
\* whose result it holds.
ManagerRecord ==
  [at : ManagerStep, todo : SUBSET Worker, w : Worker \cup {NoWorker},
   pos : Nat \ {0}, key : Key \cup {NoKey}]

At(step) == [manager EXCEPT !.at = step]

Init ==
  /\ done = FALSE
  /\ app = [at |-> "idle", key |-> NoKey]
  /\ adds = 0
  /\ current_jobs = [k \in Key |-> "NONE"]
  /\ job_queue = <<>>
  /\ result_queue = <<>>
  /\ manager = [at |-> "loop", todo |-> {}, w |-> NoWorker, pos |-> 1,
                key |-> NoKey]
  /\ worker_queue = [w \in Worker |-> <<>>]
  /\ pool_results = [w \in Worker |-> <<>>]
  /\ pool_erases = [w \in Worker |-> {}]
  /\ worker_done = [w \in Worker |-> FALSE]
  /\ accepted = [k \in Key |-> 0]
  /\ reported = [k \in Key |-> 0]

\* BlockingUnorderedMap::find_and_replace: a key that is not there stays out.
FindAndReplace(k, status) ==
  current_jobs' = IF current_jobs[k] = "NONE" THEN current_jobs
                  ELSE [current_jobs EXCEPT ![k] = status]

----------------------------------------------------------------------------
(* The main thread.  A signal runs BlackLibrary::Stop on it: it joins the   *)
(* manager thread inside the handler, and goes on with what it was doing    *)
(* when that has ended.                                                     *)

MainRuns == ~done \/ manager.at = "stopped"

\* Mutant: AddJob does not look whether the key is on the board.
AddJobUnchecked(k) ==
  /\ MainRuns
  /\ app.at = "idle"
  /\ adds < MaxAddJobs
  /\ adds' = adds + 1
  /\ app' = [at |-> "emplace", key |-> k]
  /\ UNCHANGED <<done, current_jobs, job_queue, result_queue, manager,
                 workerVars, historyVars>>

\* AddJob, its check: a job whose key is on the board is dropped.
AddJobCheck(k) ==
  /\ MainRuns
  /\ app.at = "idle"
  /\ adds < MaxAddJobs
  /\ adds' = adds + 1
  /\ app' = IF current_jobs[k] = "NONE" THEN [at |-> "emplace", key |-> k]
            ELSE app
  /\ UNCHANGED <<done, current_jobs, job_queue, result_queue, manager,
                 workerVars, historyVars>>

\* unordered_map::emplace leaves a key that is there already alone.
AddJobEmplace ==
  /\ MainRuns
  /\ app.at = "emplace"
  /\ app' = [app EXCEPT !.at = "push"]
  /\ current_jobs' = IF current_jobs[app.key] # "NONE" THEN current_jobs
                     ELSE [current_jobs EXCEPT
                             ![app.key] = "JOB_MANAGER_QUEUED"]
  /\ accepted' = [accepted EXCEPT ![app.key] = @ + 1]
  /\ UNCHANGED <<done, adds, job_queue, result_queue, manager, workerVars,
                 reported>>

AddJobPush ==
  /\ MainRuns
  /\ app.at = "push"
  /\ job_queue' = Append(job_queue, app.key)
  /\ app' = [at |-> "idle", key |-> NoKey]
  /\ UNCHANGED <<done, adds, current_jobs, result_queue, manager, workerVars,
                 historyVars>>

\* BlackLibrary::Stop, up to the join.
LibraryStop ==
  /\ ~done
  /\ done' = TRUE
  /\ UNCHANGED <<appVars, current_jobs, job_queue, result_queue, manager,
                 workerVars, historyVars>>

Main == \/ \E k \in Key : AddJobCheck(k)
        \/ AddJobEmplace
        \/ AddJobPush
        \/ LibraryStop

----------------------------------------------------------------------------
(* The manager thread: while (!done_) RunOnce(), then Stop().               *)

LoopHead ==
  /\ manager.at = "loop"
  /\ manager' = IF done THEN [At("stop") EXCEPT !.todo = Worker]
                ELSE At("jobs")
  /\ UNCHANGED <<done, appVars, current_jobs, job_queue, result_queue,
                 workerVars, historyVars>>

\* ParserManager::RunOnce pops a job and gives it to the worker of its url
\* (ParserWorker::AddJob); a url without one is dropped there, its key stays.
RouteJob ==
  /\ manager.at = "jobs"
  /\ job_queue # <<>>
  /\ job_queue' = Tail(job_queue)
  /\ LET k == Head(job_queue)
         w == WorkerOf[k[1]]
     IN  IF w = NoWorker
         THEN UNCHANGED <<current_jobs, worker_queue>>
         ELSE /\ FindAndReplace(k, "JOB_WORKER_QUEUED")
              /\ worker_queue' = [worker_queue EXCEPT ![w] = Append(@, k)]
  /\ UNCHANGED <<done, appVars, result_queue, manager, pool_results,
                 pool_erases, worker_done, historyVars>>

JobsDrained ==
  /\ manager.at = "jobs"
  /\ job_queue = <<>>
  /\ manager' = [At("workers") EXCEPT !.todo = Worker]
  /\ UNCHANGED <<done, appVars, current_jobs, job_queue, result_queue,
                 workerVars, historyVars>>

\* worker_map_ is unordered: the workers are visited in any order.  RunOnce
\* of a worker starts by clearing pool_erases_.
VisitWorker(w) ==
  /\ manager.at = "workers"
  /\ w \in manager.todo
  /\ manager' = [At("scan") EXCEPT !.todo = @ \ {w}, !.w = w, !.pos = 1]
  /\ pool_erases' = [pool_erases EXCEPT ![w] = {}]
  /\ UNCHANGED <<done, appVars, current_jobs, job_queue, result_queue,
                 worker_queue, pool_results, worker_done, historyVars>>

WorkersVisited ==
  /\ manager.at = "workers"
  /\ manager.todo = {}
  /\ manager' = At("results")
  /\ UNCHANGED <<done, appVars, current_jobs, job_queue, result_queue,
                 workerVars, historyVars>>

\* mark: the future is to be erased; send: its result goes to the manager.
ScanTurn(mark, send) ==
  LET w == manager.w  i == manager.pos
  IN  /\ manager.at = "scan"
      /\ i \in DOMAIN pool_results[w]
      /\ manager' = [manager EXCEPT !.pos = i + 1]
      /\ pool_erases' = IF mark THEN [pool_erases EXCEPT ![w] = @ \cup {i}]
                        ELSE pool_erases
      /\ result_queue' = IF send
                         THEN Append(result_queue, pool_results[w][i].key)
                         ELSE result_queue
      /\ UNCHANGED <<done, appVars, current_jobs, job_queue, worker_queue,
                     pool_results, worker_done, historyVars>>

Scanned == pool_results[manager.w][manager.pos]
IsReady == Scanned.phase = "ready"

\* Mutants of the turn: every ready result is sent, a failed one too; only a
\* failed one is sent; the future of a sent one is kept; a future is erased
\* whether its task is ready or not.
ScanSendsErrors  == ScanTurn(IsReady, IsReady)
ScanDropsSuccess == ScanTurn(IsReady, IsReady /\ Scanned.has_error)
ScanKeepsSent == ScanTurn(IsReady /\ Scanned.has_error,
                          IsReady /\ ~Scanned.has_error)
ScanErasesAll == ScanTurn(TRUE, IsReady /\ ~Scanned.has_error)

\* One turn of the loop over pool_results_: a ready future is marked to be
\* erased, and its result goes to the manager unless it has an error.
ScanFuture == ScanTurn(IsReady, IsReady /\ ~Scanned.has_error)

ScanEnd ==
  /\ manager.at = "scan"
  /\ manager.pos \notin DOMAIN pool_results[manager.w]
  /\ manager' = At("erase")
  /\ UNCHANGED <<done, appVars, current_jobs, job_queue, result_queue,
                 workerVars, historyVars>>

\* Mutant: a min heap.
FirstErase(w, i) == \A j \in pool_erases[w] : i <= j

\* pool_erases_ is a max heap: the last of the marked futures goes first.
TopErase(w, i) == \A j \in pool_erases[w] : j <= i

EraseFuture ==
  LET w == manager.w
  IN  /\ manager.at = "erase"
      /\ \E i \in pool_erases[w] :
           /\ TopErase(w, i)
           /\ pool_results' = [pool_results EXCEPT ![w] = RemoveAt(@, i)]
           /\ pool_erases' = [pool_erases EXCEPT ![w] = @ \ {i}]
      /\ UNCHANGED <<done, appVars, current_jobs, job_queue, result_queue,
                     manager, worker_queue, worker_done, historyVars>>

\* Mutant: the job started is read with front() and stays queued.
StartJobKeepsIt ==
  LET w == manager.w
  IN  /\ manager.at = "erase"
      /\ pool_erases[w] = {}
      /\ manager' = At("workers")
      /\ pool_results' = IF worker_queue[w] = <<>> THEN pool_results
                         ELSE [pool_results EXCEPT
                           ![w] = Append(@, NewTask(Head(worker_queue[w])))]
      /\ UNCHANGED <<done, appVars, current_jobs, job_queue, result_queue,
                     worker_queue, pool_erases, worker_done, historyVars>>

\* After the erases a worker starts at most one of its queued jobs.
StartJob ==
  LET w == manager.w
  IN  /\ manager.at = "erase"
      /\ pool_erases[w] = {}
      /\ manager' = At("workers")
      /\ IF worker_queue[w] = <<>>
         THEN UNCHANGED <<worker_queue, pool_results>>
         ELSE /\ worker_queue' = [worker_queue EXCEPT ![w] = Tail(@)]
              /\ pool_results' = [pool_results EXCEPT
                   ![w] = Append(@, NewTask(Head(worker_queue[w])))]
      /\ UNCHANGED <<done, appVars, current_jobs, job_queue, result_queue,
                     pool_erases, worker_done, historyVars>>

\* Mutant: the key is not erased from current_jobs_.
PopResultKeepsKey ==
  /\ manager.at = "results"
  /\ result_queue # <<>>
  /\ result_queue' = Tail(result_queue)
  /\ manager' = [At("report") EXCEPT !.key = Head(result_queue)]
  /\ UNCHANGED <<done, appVars, current_jobs, job_queue, workerVars,
                 historyVars>>

\* RunOnce pops a result: its key leaves the board before the library hears.
PopResult ==
  /\ manager.at = "results"
  /\ result_queue # <<>>
  /\ result_queue' = Tail(result_queue)
  /\ current_jobs' = [current_jobs EXCEPT ![Head(result_queue)] = "NONE"]
  /\ manager' = [At("report") EXCEPT !.key = Head(result_queue)]
  /\ UNCHANGED <<done, appVars, job_queue, workerVars, historyVars>>

\* database_status_callback_.
ReportResult ==
  /\ manager.at = "report"
  /\ manager' = [At("results") EXCEPT !.key = NoKey]
  /\ reported' = [reported EXCEPT ![manager.key] = @ + 1]
  /\ UNCHANGED <<done, appVars, current_jobs, job_queue, result_queue,
                 workerVars, accepted>>

ResultsDrained ==
  /\ manager.at = "results"
  /\ result_queue = <<>>
  /\ manager' = At("loop")
  /\ UNCHANGED <<done, appVars, current_jobs, job_queue, result_queue,
                 workerVars, historyVars>>

\* ParserManager::Stop: one worker after the other; ParserWorker::Stop raises
\* its done_ and then waits for every future, in order.
StopWorker(w) ==
  /\ manager.at = "stop"
  /\ w \in manager.todo
  /\ worker_done' = [worker_done EXCEPT ![w] = TRUE]
  /\ manager' = [At("wait") EXCEPT !.todo = @ \ {w}, !.w = w, !.pos = 1]
  /\ UNCHANGED <<done, appVars, current_jobs, job_queue, result_queue,
                 worker_queue, pool_results, pool_erases, historyVars>>

\* Mutant: Stop does not wait for the futures.
WaitNothing ==
  /\ manager.at = "wait"
  /\ manager' = At("stop")
  /\ UNCHANGED <<done, appVars, current_jobs, job_queue, result_queue,
                 workerVars, historyVars>>

WaitFuture ==
  LET results == pool_results[manager.w]  i == manager.pos
  IN  /\ manager.at = "wait"
      /\ \/ /\ i \in DOMAIN results
            /\ results[i].phase = "ready"
            /\ manager' = [manager EXCEPT !.pos = i + 1]
         \/ /\ i \notin DOMAIN results
            /\ manager' = At("stop")
      /\ UNCHANGED <<done, appVars, current_jobs, job_queue, result_queue,
                     workerVars, historyVars>>

ManagerStopped ==
  /\ manager.at = "stop"
  /\ manager.todo = {}
  /\ manager' = At("stopped")
  /\ UNCHANGED <<done, appVars, current_jobs, job_queue, result_queue,
                 workerVars, historyVars>>

Manager == \/ LoopHead \/ RouteJob \/ JobsDrained
           \/ \E w \in Worker : VisitWorker(w) \/ StopWorker(w)
           \/ WorkersVisited \/ ScanFuture \/ ScanEnd \/ EraseFuture
           \/ StartJob \/ PopResult \/ ReportResult \/ ResultsDrained
           \/ WaitFuture \/ ManagerStopped

----------------------------------------------------------------------------
(* A pool's threads, and the done_thread beside each running parser.        *)

OnlyTasks ==
  UNCHANGED <<done, appVars, job_queue, result_queue, manager, worker_queue,
              pool_erases, worker_done, historyVars>>

Update(w, i, task) ==
  pool_results' = [pool_results EXCEPT ![w] = [@ EXCEPT ![i] = task]]

\* A pool thread takes the oldest queued task; with the worker's done_ up the
\* task returns its default result, which has an error.
TakeTask(w, i) ==
  LET task == pool_results[w][i]
  IN  /\ task.phase = "queued"
      /\ \A j \in 1..(i - 1) : pool_results[w][j].phase # "queued"
      /\ Cardinality(RunningTasks(w)) < PoolSize
      /\ Update(w, i, [task EXCEPT !.phase = IF worker_done[w] THEN "ready"
                                             ELSE "setup"])
      /\ UNCHANGED current_jobs
      /\ OnlyTasks

\* No parser for the url, or the storage directory is not usable.
SetupFails(w, i) ==
  LET task == pool_results[w][i]
  IN  /\ task.phase = "setup"
      /\ Update(w, i, [task EXCEPT !.phase = "ready"])
      /\ UNCHANGED current_jobs
      /\ OnlyTasks

\* The done_thread is started, then the status is set.
StartWorking(w, i) ==
  LET task == pool_results[w][i]
  IN  /\ task.phase = "setup"
      /\ Update(w, i, [task EXCEPT !.phase = "working", !.watcher = "watching"])
      /\ FindAndReplace(task.key, "JOB_WORKING")
      /\ OnlyTasks

\* Parser::Parse clears done_, also when the done_thread has just raised it.
BeginParse(w, i) ==
  LET task == pool_results[w][i]
  IN  /\ task.phase = "working"
      /\ Update(w, i, [task EXCEPT !.phase = "parsing", !.stop = FALSE])
      /\ UNCHANGED current_jobs
      /\ OnlyTasks

\* Mutant: parser_error is not raised.
ParseFailsQuietly(w, i) ==
  LET task == pool_results[w][i]
  IN  /\ task.phase = "parsing"
      /\ Update(w, i, [task EXCEPT !.phase = "joining"])
      /\ FindAndReplace(task.key, "JOB_ERROR")
      /\ OnlyTasks

\* Parse fails before its loop: parser_error is raised and the status is set.
ParseFails(w, i) ==
  LET task == pool_results[w][i]
  IN  /\ task.phase = "parsing"
      /\ Update(w, i, [task EXCEPT !.phase = "joining",
                                   !.parser_error = TRUE])
      /\ FindAndReplace(task.key, "JOB_ERROR")
      /\ OnlyTasks

\* ParseLoop ends: it was stopped, or it reached the end of the work and
\* raised done_ itself.  Either way Parse returns without an error.
ParseEnds(w, i) ==
  LET task == pool_results[w][i]
  IN  /\ task.phase = "parsing"
      /\ Update(w, i, [task EXCEPT !.phase = "joining", !.stop = TRUE,
                                   !.has_error = FALSE])
      /\ FindAndReplace(task.key, "JOB_FINISHED")
      /\ OnlyTasks

\* Mutant: the done_thread looks at the parser only.
WatcherSeesParserOnly(w, i) ==
  LET task == pool_results[w][i]
  IN  /\ task.watcher = "watching"
      /\ task.stop
      /\ Update(w, i, [task EXCEPT !.watcher = "ended"])
      /\ UNCHANGED current_jobs
      /\ OnlyTasks

\* The done_thread sees a reason to end and calls Parser::Stop.
WatcherStops(w, i) ==
  LET task == pool_results[w][i]
  IN  /\ task.watcher = "watching"
      /\ worker_done[w] \/ task.stop \/ task.parser_error
      /\ Update(w, i, [task EXCEPT !.watcher = "ended", !.stop = TRUE])
      /\ UNCHANGED current_jobs
      /\ OnlyTasks

\* done_thread.join() returns and the task's result is in its future.
TaskReturns(w, i) ==
  LET task == pool_results[w][i]
  IN  /\ task.phase = "joining"
      /\ task.watcher = "ended"
      /\ Update(w, i, [task EXCEPT !.phase = "ready"])
      /\ UNCHANGED current_jobs
      /\ OnlyTasks

TaskAction(w, i) ==
  \/ TakeTask(w, i) \/ SetupFails(w, i) \/ StartWorking(w, i)
  \/ BeginParse(w, i) \/ ParseFails(w, i) \/ ParseEnds(w, i)
  \/ WatcherStops(w, i) \/ TaskReturns(w, i)

Pool == \E w \in Worker : \E i \in DOMAIN pool_results[w] : TaskAction(w, i)

----------------------------------------------------------------------------
\* The program is over: no thread moves a job any more.
Terminated ==
  /\ manager.at = "stopped"
  /\ UNCHANGED vars

Next == Main \/ Manager \/ Pool \/ Terminated

Spec == Init /\ [][Next]_vars

\* A thread that can run does: the manager thread, and whatever thread runs
\* the job of a key.  A parse ends, as each section is tried five times at
\* most.  Nothing obliges the main thread to add a job or to be told to stop.
KeyAction(k) ==
  \E w \in Worker : \E i \in DOMAIN pool_results[w] :
     pool_results[w][i].key = k /\ TaskAction(w, i)

FairSpec == /\ Spec
            /\ WF_vars(Manager)
            /\ WF_vars(AddJobEmplace) /\ WF_vars(AddJobPush)
            /\ \A k \in Key : WF_vars(KeyAction(k))

----------------------------------------------------------------------------
(* Where the job of a key can be.                                           *)

\* The futures of a worker that are not marked to be erased.
Live(w) == DOMAIN pool_results[w] \ pool_erases[w]

Added(k)      == app.at = "push" /\ app.key = k
InJobQueue(k) == k \in ToSet(job_queue)
InWorkerQueue(w, k) == k \in ToSet(worker_queue[w])
InPool(w, k)  == \E i \in Live(w) : pool_results[w][i].key = k
InResults(k)  == k \in ToSet(result_queue)

InFlight(k) == \/ Added(k) \/ InJobQueue(k) \/ InResults(k)
               \/ \E w \in Worker : InWorkerQueue(w, k) \/ InPool(w, k)

----------------------------------------------------------------------------
(* Safety.                                                                  *)

TypeOK ==
  /\ done \in BOOLEAN
  /\ app \in [at : {"idle"}, key : {NoKey}]
             \cup [at : {"emplace", "push"}, key : Key]
  /\ adds \in 0..MaxAddJobs
  /\ current_jobs \in [Key -> Status]
  /\ job_queue \in Seq(Key)
  /\ result_queue \in Seq(Key)
  /\ manager \in ManagerRecord
  /\ manager.at \in {"scan", "erase", "wait"} => manager.w \in Worker
  /\ manager.at = "report" => manager.key \in Key
  /\ worker_queue \in [Worker -> Seq(Key)]
  /\ pool_results \in [Worker -> Seq(Task)]
  /\ pool_erases \in [Worker -> SUBSET (Nat \ {0})]
  /\ \A w \in Worker : pool_erases[w] \subseteq DOMAIN pool_results[w]
  /\ worker_done \in [Worker -> BOOLEAN]
  /\ accepted \in [Key -> Nat]
  /\ reported \in [Key -> Nat]

\* A job that is anywhere in the pipeline is on the board.  AddJob refuses a
\* second job for a key, and StillWorkingOn keeps a work's processing flag
\* up, only as long as this holds.
InFlightIsOnBoard ==
  \A k \in Key : InFlight(k) => current_jobs[k] # "NONE"

\* No queue and no pool holds a key twice ...
NoDuplicate ==
  /\ IsInjective(job_queue)
  /\ IsInjective(result_queue)
  /\ \A w \in Worker :
       /\ IsInjective(worker_queue[w])
       /\ \A i, j \in Live(w) :
            pool_results[w][i].key = pool_results[w][j].key => i = j

\* ... and no two of them hold the same key.
OnePlace ==
  \A k \in Key :
    /\ Added(k) => ~InJobQueue(k) /\ ~InResults(k)
    /\ InJobQueue(k) => ~InResults(k)
    /\ \A w \in Worker :
         /\ InWorkerQueue(w, k) =>
              /\ w = WorkerOf[k[1]]
              /\ ~Added(k) /\ ~InJobQueue(k) /\ ~InResults(k)
              /\ ~InPool(w, k)
         /\ InPool(w, k) =>
              /\ w = WorkerOf[k[1]]
              /\ ~Added(k) /\ ~InJobQueue(k) /\ ~InResults(k)

\* One job per (uuid, is_error_job) is in the pipeline, in one place: two
\* pool threads never parse one work for the same purpose, over the same
\* files and rows, however AddJob, RunOnce and the pools interleave.
AtMostOneInFlight == NoDuplicate /\ OnePlace

\* Every accepted job is still on the board, or is being reported, or has
\* been reported to the library exactly once.
Outstanding(k) == (IF current_jobs[k] # "NONE" THEN 1 ELSE 0)
                  + (IF manager.at = "report" /\ manager.key = k THEN 1 ELSE 0)

EachJobReportedOnce ==
  \A k \in Key : accepted[k] = reported[k] + Outstanding(k)

\* The statuses a task's job can have on the board.
TaskStatus(task) ==
  CASE task.phase \in {"queued", "setup"}    -> {"JOB_WORKER_QUEUED"}
    [] task.phase \in {"working", "parsing"} -> {"JOB_WORKING"}
    [] task.parser_error                     -> {"JOB_ERROR"}
    [] ~task.has_error                       -> {"JOB_FINISHED"}
    [] OTHER                                 -> {"JOB_WORKER_QUEUED"}

\* The status shown for a job is the stage it is really at: the callbacks of
\* other threads never overwrite a later status with an earlier one.
BoardMatchesStage ==
  \A k \in Key :
    /\ Added(k) \/ InJobQueue(k) => current_jobs[k] = "JOB_MANAGER_QUEUED"
    /\ InResults(k) => current_jobs[k] = "JOB_FINISHED"
    /\ \A w \in Worker :
         /\ InWorkerQueue(w, k) => current_jobs[k] = "JOB_WORKER_QUEUED"
         /\ \A i \in Live(w) : pool_results[w][i].key = k =>
              current_jobs[k] \in TaskStatus(pool_results[w][i])

\* When Stop has returned every task has: the queues, the callbacks and the
\* database the tasks use can be destroyed.
QuietWhenStopped ==
  manager.at = "stopped" =>
    \A w \in Worker : RunningTasks(w) = {}

\* A future is let go only after its task has returned; Stop waits for the
\* futures it still has, so a task whose future was dropped would outlive it.
Returned(w) == Cardinality({i \in DOMAIN pool_results[w] :
                              pool_results[w][i].phase = "ready"})
Unreturned(w) == Len(pool_results[w]) - Returned(w)

OnlyReturnedTasksDropped ==
  [][\A w \in Worker :
       Len(pool_results'[w]) < Len(pool_results[w])
         => Unreturned(w)' = Unreturned(w)]_vars

----------------------------------------------------------------------------
(* What the safety properties rest on: an inductive invariant.              *)

\* Only the main thread adds keys to the board, so the key it has found
\* absent stays absent until it emplaces it.
AddingIsAbsent == app.at = "emplace" => current_jobs[app.key] = "NONE"

\* Marked futures are ready ones the scan has passed, of the worker that is
\* being run; no mark outlives the worker's RunOnce.
MarksArePassed ==
  \A w \in Worker : \A i \in pool_erases[w] :
    /\ manager.w = w
    /\ manager.at \in {"scan", "erase"}
    /\ manager.at = "scan" => i < manager.pos
    /\ pool_results[w][i].phase = "ready"

\* A parser_error is an error, and both are settled only when Parse returns.
ResultsAreSettled ==
  \A w \in Worker : \A i \in DOMAIN pool_results[w] :
    LET task == pool_results[w][i]
    IN  /\ task.parser_error => task.has_error
        /\ task.phase \in {"queued", "setup", "working", "parsing"}
             => task.has_error /\ ~task.parser_error

IInv ==
  /\ TypeOK
  /\ AtMostOneInFlight
  /\ BoardMatchesStage
  /\ AddingIsAbsent
  /\ MarksArePassed
  /\ ResultsAreSettled

----------------------------------------------------------------------------
(* The pipeline keeps what the board promises.                              *)

Board == INSTANCE JobLifecycle

BoardSpec == Board!Spec

----------------------------------------------------------------------------
(* Liveness.                                                                *)

\* Until the program stops, a job that entered the pipeline leaves it: it
\* does not wait for ever behind another job, in a queue, or for its
\* done_thread.
EveryJobLeaves == \A k \in Key : InFlight(k) ~> (~InFlight(k) \/ done)

\* A parse that ended well is reported, unless the program stops first.
SuccessIsReported ==
  \A k \in Key : current_jobs[k] = "JOB_FINISHED"
                   ~> (current_jobs[k] = "NONE" \/ done)

\* BlackLibrary::Stop ends: no future it waits for stays unready.  The signal
\* is taken to find the main thread outside the mutexes of the database and of
\* the queues: the handler joins the manager thread while it keeps them.
StopReturns == done ~> (manager.at = "stopped")
=============================================================================
