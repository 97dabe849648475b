----------------------------- MODULE LibraryRun -----------------------------
(***************************************************************************)
(* BlackLibrary: the daily run, the callbacks of its jobs, the database.   *)
(*                                                                         *)
(* The main thread reads the work list, creates or reads a work_entry for  *)
(* every url and adds a job for it, then one for every error_entry.  Pool  *)
(* threads parse and call the progress callback for every section; the     *)
(* manager thread calls the status callback for every result.  Both        *)
(* callbacks read a row, change it and write it back under                 *)
(* database_parser_mutex_; the main thread reads the same tables without   *)
(* it.  The process may die between any two steps and be started again.    *)
(*                                                                         *)
(* A job goes through the statuses of JobLifecycle, which ParserPipeline   *)
(* implements; JOB_WORKER_QUEUED is one with JOB_MANAGER_QUEUED here, where *)
(* nothing tells the two queues apart.  The parser is the IndexEntryParser:*)
(* it fetches the sections of the index that have no md5_sum row, in order,*)
(* and gives up at the first that fails five times.  Abstracted: a url is  *)
(* its work's uuid, a section its number, last_url the number of its       *)
(* section, 0 for the work's own url; one call of BlackLibraryDB is one    *)
(* step.                                                                   *)
(***************************************************************************)
EXTENDS Naturals, FiniteSets

CONSTANTS Work,        \* works on the pulled list, by uuid
          MaxSections, \* bound: sections of a work at its site
          MaxFailures, \* bound: sections whose fifth attempt fails
          MaxErrors,   \* bound: jobs whose index cannot be read
          MaxCrashes   \* bound: deaths of the process

ASSUME LibraryAssumption ==
  /\ MaxSections \in Nat \ {0}
  /\ MaxFailures \in Nat
  /\ MaxErrors \in Nat
  /\ MaxCrashes \in Nat

VARIABLES
  site,         \* external: how many sections the site lists of a work
  work_entry,   \* table work_entry, by uuid
  error_entry,  \* table error_entry, keyed by the uuid alone: its progress_num
  md5_sum,      \* table md5_sum: the sections stored of a work
  main,         \* the main thread inside RunOnce
  current_jobs, \* ParserManager::current_jobs_
  job,          \* the job of a key: its start_number and its parse
  manager,      \* the manager thread and the result it reports
  lock,         \* who holds database_parser_mutex_
  row,          \* the holder's copy of a work_entry row
  failures, errors, crashes,  \* counters for the bounds
  furthest, last_reported,    \* history: what finished callbacks reported
  orphaned      \* history: sections stored by a parse that died unreported

tables  == <<work_entry, error_entry, md5_sum>>
bounds  == <<failures, errors, crashes>>
history == <<furthest, last_reported, orphaned>>
vars == <<site, tables, main, current_jobs, job, manager, lock, row, bounds,
          history>>

----------------------------------------------------------------------------
Key == Work \X BOOLEAN
Normal(u) == <<u, FALSE>>
Retry(u)  == <<u, TRUE>>

Status == {"NONE", "JOB_MANAGER_QUEUED", "JOB_WORKING", "JOB_FINISHED", "JOB_ERROR"}
Section == 1..MaxSections

NoRow == [series_length |-> 0, last_url |-> 0, processing |-> FALSE]
Row == [series_length : 0..MaxSections, last_url : 0..MaxSections,
        processing : BOOLEAN]
IsWork(u) == work_entry[u] # NoRow

\* at: where the parse is; queue: the sections it still has to fetch; n: the
\* section it is at; failed: it failed five times; series_length, last_url:
\* the metadata of its result.
NoJob == [start |-> 1, at |-> "none", queue |-> {}, n |-> 1, failed |-> FALSE,
          series_length |-> 1, last_url |-> 0]
Job == [start : Section, at : {"none", "section", "progress", "read", "write"},
        queue : SUBSET Section, n : Section, failed : BOOLEAN,
        series_length : Section, last_url : 0..MaxSections]

\* urls still to be compared, entries and errors still to be given a job.
Idle == [at |-> "idle", urls |-> {}, entries |-> {}, errors |-> {}]
Free == <<>>
ByManager == <<"manager">>
NoResult == [at |-> "idle", key |-> <<>>, result |-> NoJob]

Larger(a, b) == IF a < b THEN b ELSE a

Init ==
  /\ site = [u \in Work |-> 1]
  /\ work_entry = [u \in Work |-> NoRow]
  /\ error_entry = [u \in Work |-> 0]
  /\ md5_sum = [u \in Work |-> {}]
  /\ main = Idle
  /\ current_jobs = [k \in Key |-> "NONE"]
  /\ job = [k \in Key |-> NoJob]
  /\ manager = NoResult
  /\ lock = Free
  /\ row = NoRow
  /\ failures = 0 /\ errors = 0 /\ crashes = 0
  /\ furthest = [u \in Work |-> 1]
  /\ last_reported = [u \in Work |-> 0]
  /\ orphaned = [u \in Work |-> {}]

----------------------------------------------------------------------------
(* The main thread: RunOnce, once a day.                                    *)

\* PullUrls and VerifyUrls.  A run that pulls nothing ends here; one of whose
\* urls no source is known goes on with none.
PullUrls(urls) ==
  /\ main = Idle
  /\ main' = [Idle EXCEPT !.at = "urls", !.urls = urls]
  /\ UNCHANGED <<site, tables, current_jobs, job, manager, lock, row, bounds,
                 history>>

\* CompareAndUpdateUrls creates the row of a new url and reads that of a known
\* one, whose processing flag it raises in its copy only.
NewRow == [series_length |-> 1, last_url |-> 0, processing |-> TRUE]

CompareUrl(u) ==
  /\ main.at = "urls"
  /\ u \in main.urls
  /\ LET entry == IF IsWork(u) THEN work_entry[u] ELSE NewRow
     IN  /\ work_entry' = IF IsWork(u) THEN work_entry
                          ELSE [work_entry EXCEPT ![u] = entry]
         /\ main' = [main EXCEPT !.urls = @ \ {u},
                      !.entries = @ \cup {<<u, entry.series_length>>}]
  /\ UNCHANGED <<site, error_entry, md5_sum, current_jobs, job, manager, lock,
                 row, bounds, history>>

\* ParserManager::AddJob: a key that is on the board is left alone.
AddJob(k, start) ==
  IF current_jobs[k] # "NONE" THEN UNCHANGED <<current_jobs, job>>
  ELSE /\ current_jobs' = [current_jobs EXCEPT ![k] = "JOB_MANAGER_QUEUED"]
       /\ job' = [job EXCEPT ![k] = [NoJob EXCEPT !.start = start]]

ParseUrl(entry) ==
  /\ main.at = "urls"
  /\ main.urls = {}
  /\ entry \in main.entries
  /\ main' = [main EXCEPT !.entries = @ \ {entry}]
  /\ AddJob(Normal(entry[1]), entry[2])
  /\ UNCHANGED <<site, tables, manager, lock, row, bounds, history>>

\* GetErrorEntryList: the list is read once, without the mutex.
ListErrorEntries ==
  /\ main.at = "urls"
  /\ main.urls = {} /\ main.entries = {}
  /\ main' = [main EXCEPT !.at = "errors",
       !.errors = {<<u, error_entry[u]>> : u \in {v \in Work : error_entry[v] # 0}}]
  /\ UNCHANGED <<site, tables, current_jobs, job, manager, lock, row, bounds,
                 history>>

ParseErrorEntry(error) ==
  /\ main.at = "errors"
  /\ error \in main.errors
  /\ main' = [main EXCEPT !.errors = @ \ {error}]
  /\ AddJob(Retry(error[1]), error[2])
  /\ UNCHANGED <<site, tables, manager, lock, row, bounds, history>>

RunEnds ==
  /\ main.at = "errors"
  /\ main.errors = {}
  /\ main' = Idle
  /\ UNCHANGED <<site, tables, current_jobs, job, manager, lock, row, bounds,
                 history>>

Main == \/ \E urls \in SUBSET Work : PullUrls(urls)
        \/ \E u \in Work : CompareUrl(u)
        \/ \E entry \in main.entries : ParseUrl(entry)
        \/ ListErrorEntries \/ RunEnds
        \/ \E error \in main.errors : ParseErrorEntry(error)

----------------------------------------------------------------------------
(* A job on its way through the pipeline, and the thread that runs it.      *)

Become(k, from, to) ==
  /\ current_jobs[k] = from
  /\ current_jobs' = [current_jobs EXCEPT ![k] = to]

\* Mutant: the parse resumes after the number the job starts at.
BeginParseAfterStart(k) ==
  /\ Become(k, "JOB_MANAGER_QUEUED", "JOB_WORKING")
  /\ job' = [job EXCEPT ![k].at = "section",
                        ![k].queue = {n \in 1..site[k[1]] : n > job[k].start}]
  /\ UNCHANGED <<site, tables, main, manager, lock, row, bounds, history>>

\* IndexEntryParser::PreParseLoop: what the site lists and md5_sum has not is
\* queued; the numbers an error job was given are not looked at.
BeginParse(k) ==
  /\ Become(k, "JOB_MANAGER_QUEUED", "JOB_WORKING")
  /\ job' = [job EXCEPT ![k].at = "section",
                        ![k].queue = (1..site[k[1]]) \ md5_sum[k[1]]]
  /\ UNCHANGED <<site, tables, main, manager, lock, row, bounds, history>>

\* The url has no worker or no parser, or the directory cannot be used: the
\* job is dropped and its key stays on the board.  The status it keeps is not
\* told apart from JOB_ERROR here.
SetupFails(k) ==
  /\ errors < MaxErrors
  /\ errors' = errors + 1
  /\ Become(k, "JOB_MANAGER_QUEUED", "JOB_ERROR")
  /\ job' = [job EXCEPT ![k] = NoJob]
  /\ UNCHANGED <<site, tables, main, manager, lock, row, failures, crashes,
                 history>>

\* The index cannot be read: the job is left on the board.
ParseFails(k) ==
  /\ errors < MaxErrors
  /\ errors' = errors + 1
  /\ job[k].at = "section"
  /\ Become(k, "JOB_WORKING", "JOB_ERROR")
  /\ job' = [job EXCEPT ![k] = NoJob]
  /\ UNCHANGED <<site, tables, main, manager, lock, row, failures, crashes,
                 history>>

IsNext(k, n) == n \in job[k].queue /\ \A m \in job[k].queue : n <= m

\* Mutant: the section is stored and not reported.
FetchUnreported(k, n) ==
  /\ job[k].at = "section"
  /\ IsNext(k, n)
  /\ md5_sum' = [md5_sum EXCEPT ![k[1]] = @ \cup {n}]
  /\ job' = [job EXCEPT ![k].queue = @ \ {n}, ![k].n = n,
                        ![k].series_length = n]
  /\ UNCHANGED <<site, work_entry, error_entry, main, current_jobs, manager,
                 lock, row, bounds, history>>

\* ParseSection stores the section: its file, then its md5_sum row.
FetchSection(k, n) ==
  /\ job[k].at = "section"
  /\ IsNext(k, n)
  /\ md5_sum' = [md5_sum EXCEPT ![k[1]] = @ \cup {n}]
  /\ job' = [job EXCEPT ![k].at = "progress", ![k].n = n, ![k].failed = FALSE]
  /\ UNCHANGED <<site, work_entry, error_entry, main, current_jobs, manager,
                 lock, row, bounds, history>>

\* The fifth attempt at a section has failed.
FetchFails(k, n) ==
  /\ failures < MaxFailures
  /\ failures' = failures + 1
  /\ job[k].at = "section"
  /\ IsNext(k, n)
  /\ job' = [job EXCEPT ![k].at = "progress", ![k].n = n, ![k].failed = TRUE]
  /\ UNCHANGED <<site, tables, main, current_jobs, manager, lock, row, errors,
                 crashes, history>>

\* Mutant: index_ + 1 where index_ has been advanced already.
NextSectionOffByOne(k) ==
  LET p == job[k]
  IN  job' = [job EXCEPT ![k] =
        IF p.failed
        THEN [p EXCEPT !.at = "section", !.n = 1, !.failed = FALSE, !.queue = {}]
        ELSE [p EXCEPT !.at = "section", !.n = 1, !.queue = p.queue \ {p.n},
                       !.series_length = p.n + 1, !.last_url = p.n]]

\* Back in ParseLoop: after a success the next section is indicated, after
\* the last failure ExpendedAttempts clears the queue.
NextSection(k) ==
  LET p == job[k]
  IN  job' = [job EXCEPT ![k] =
        IF p.failed
        THEN [p EXCEPT !.at = "section", !.n = 1, !.failed = FALSE, !.queue = {}]
        ELSE [p EXCEPT !.at = "section", !.n = 1, !.queue = p.queue \ {p.n},
                       !.series_length = p.n, !.last_url = p.n]]

\* The progress callback, up to the read of the row.  CreateErrorEntry does
\* nothing when the work has an entry for another section already.
Progress(k) ==
  LET u == k[1]  p == job[k]
  IN  /\ p.at = "progress"
      /\ IF p.failed /\ error_entry[u] = p.n
         THEN /\ NextSection(k)
              /\ UNCHANGED <<lock, error_entry>>
         ELSE /\ lock' = k
              /\ job' = [job EXCEPT ![k].at = "read"]
              /\ error_entry' = IF p.failed /\ error_entry[u] = 0
                                THEN [error_entry EXCEPT ![u] = p.n]
                                ELSE error_entry
      /\ UNCHANGED <<site, work_entry, md5_sum, main, current_jobs, manager,
                     row, bounds, history>>

\* Mutant: the callback does not take the mutex.
ProgressUnlocked(k) == Progress(k)

ProgressBegins(k) == lock = Free /\ Progress(k)

ProgressReads(k) ==
  /\ job[k].at = "read"
  /\ row' = work_entry[k[1]]
  /\ job' = [job EXCEPT ![k].at = "write"]
  /\ UNCHANGED <<site, tables, main, current_jobs, manager, lock, bounds,
                 history>>

ProgressWrites(k) ==
  LET u == k[1]  p == job[k]
  IN  /\ p.at = "write"
      /\ work_entry' = [work_entry EXCEPT ![u] =
           [row EXCEPT !.series_length = Larger(row.series_length, p.n)]]
      /\ furthest' = [furthest EXCEPT ![u] = Larger(@, p.n)]
      /\ lock' = Free /\ row' = NoRow
      /\ NextSection(k)
      /\ UNCHANGED <<site, error_entry, md5_sum, main, current_jobs, manager,
                     bounds, last_reported, orphaned>>

\* Parse returns; has_error is false also when a section has failed.
ParseEnds(k) ==
  /\ job[k].at = "section"
  /\ job[k].queue = {}
  /\ Become(k, "JOB_WORKING", "JOB_FINISHED")
  /\ job' = [job EXCEPT ![k].at = "none"]
  /\ UNCHANGED <<site, tables, main, manager, lock, row, bounds, history>>

JobStep(k) ==
  \/ BeginParse(k) \/ ProgressBegins(k) \/ ProgressReads(k)
  \/ ProgressWrites(k) \/ ParseEnds(k)
  \/ \E n \in Section : FetchSection(k, n)

JobFails(k) == SetupFails(k) \/ ParseFails(k) \/ \E n \in Section : FetchFails(k, n)

----------------------------------------------------------------------------
(* The manager thread: the status callback.                                 *)

\* ParserManager::RunOnce erases the key, then reports the result.
PopResult(k) ==
  /\ manager.at = "idle"
  /\ Become(k, "JOB_FINISHED", "NONE")
  /\ manager' = [at |-> "status", key |-> k, result |-> job[k]]
  /\ job' = [job EXCEPT ![k] = NoJob]
  /\ UNCHANGED <<site, tables, main, lock, row, bounds, history>>

\* Mutant: the entry of another section is not deleted: it is looked for at
\* the length the result reached.
DeleteErrorEntryAtLength ==
  /\ manager.at = "status"
  /\ manager.key[2]
  /\ lock = Free
  /\ LET u == manager.key[1]
     IN  error_entry' = IF error_entry[u] = manager.result.series_length + 1
                        THEN [error_entry EXCEPT ![u] = 0] ELSE error_entry
  /\ manager' = NoResult
  /\ UNCHANGED <<site, work_entry, md5_sum, main, current_jobs, job, lock, row,
                 bounds, history>>

\* An error job's entry is deleted, whether its section was stored or not.
DeleteErrorEntry ==
  /\ manager.at = "status"
  /\ manager.key[2]
  /\ lock = Free
  /\ LET u == manager.key[1]
     IN  error_entry' = IF error_entry[u] = manager.result.start
                        THEN [error_entry EXCEPT ![u] = 0] ELSE error_entry
  /\ manager' = NoResult
  /\ UNCHANGED <<site, work_entry, md5_sum, main, current_jobs, job, lock, row,
                 bounds, history>>

\* UpdateDatabaseWithResult: the row is read, ...
ReadRow ==
  /\ manager.at = "status"
  /\ ~manager.key[2]
  /\ lock = Free
  /\ lock' = ByManager
  /\ row' = work_entry[manager.key[1]]
  /\ manager' = [manager EXCEPT !.at = "check"]
  /\ UNCHANGED <<site, tables, main, current_jobs, job, bounds, history>>

StillWorkingOn(u) ==
  current_jobs[Retry(u)] # "NONE" \/ current_jobs[Normal(u)] # "NONE"

\* ... the result is put into it, and processing goes off unless there is
\* still a job of the work ...
CheckRow ==
  LET u == manager.key[1]  result == manager.result
  IN  /\ manager.at = "check"
      /\ row' = [series_length |-> Larger(row.series_length,
                                          result.series_length),
                 last_url |-> result.last_url,
                 processing |-> StillWorkingOn(u)]
      /\ manager' = [manager EXCEPT !.at = "write"]
      /\ UNCHANGED <<site, tables, main, current_jobs, job, lock, bounds,
                     history>>

\* ... and it is written back.
WriteRow ==
  LET u == manager.key[1]  result == manager.result
  IN  /\ manager.at = "write"
      /\ work_entry' = [work_entry EXCEPT ![u] = row]
      /\ lock' = Free /\ row' = NoRow
      /\ manager' = NoResult
      /\ furthest' = [furthest EXCEPT ![u] = Larger(@, result.series_length)]
      /\ last_reported' = [last_reported EXCEPT ![u] = result.last_url]
      /\ UNCHANGED <<site, error_entry, md5_sum, main, current_jobs, job, bounds,
                     orphaned>>

Manager == \/ \E k \in Key : PopResult(k)
           \/ DeleteErrorEntry \/ ReadRow \/ CheckRow \/ WriteRow

----------------------------------------------------------------------------
(* Outside: the site, and the death of the process.                         *)

SiteGrows(u) ==
  /\ site[u] < MaxSections
  /\ site' = [site EXCEPT ![u] = @ + 1]
  /\ UNCHANGED <<tables, main, current_jobs, job, manager, lock, row, bounds,
                 history>>

\* The tables survive, and nothing else.
Crash ==
  /\ crashes < MaxCrashes
  /\ crashes' = crashes + 1
  /\ main' = Idle
  /\ current_jobs' = [k \in Key |-> "NONE"]
  /\ job' = [k \in Key |-> NoJob]
  /\ manager' = NoResult
  /\ lock' = Free
  /\ row' = NoRow
  /\ orphaned' = [u \in Work |-> orphaned[u] \cup
       {job[k].n : k \in {j \in {Normal(u), Retry(u)} :
          job[j].at \in {"progress", "read", "write"} /\ ~job[j].failed}}]
  /\ UNCHANGED <<site, tables, failures, errors, furthest, last_reported>>

----------------------------------------------------------------------------
Next == \/ Main \/ Manager \/ Crash
        \/ \E k \in Key : JobStep(k) \/ JobFails(k)
        \/ \E u \in Work : SiteGrows(u)

Spec == Init /\ [][Next]_vars

\* The threads run; the mutex is handed to every callback that waits for it in
\* the end; results are taken in the order they were queued, so each has its
\* turn; and a url stays on the list: it is pulled again and again.
FairSpec ==
  /\ Spec
  /\ WF_vars(Main)
  /\ \A u \in Work : SF_vars(\E urls \in SUBSET Work :
                               u \in urls /\ PullUrls(urls))
  /\ SF_vars(DeleteErrorEntry \/ ReadRow \/ CheckRow \/ WriteRow)
  /\ \A k \in Key : SF_vars(PopResult(k)) /\ SF_vars(JobStep(k))

----------------------------------------------------------------------------
(* Safety.                                                                  *)

TypeOK ==
  /\ site \in [Work -> Section]
  /\ work_entry \in [Work -> Row]
  /\ error_entry \in [Work -> 0..MaxSections]
  /\ md5_sum \in [Work -> SUBSET Section]
  /\ main \in [at : {"idle", "urls", "errors"}, urls : SUBSET Work,
               entries : SUBSET (Work \X Section),
               errors : SUBSET (Work \X Section)]
  /\ current_jobs \in [Key -> Status]
  /\ job \in [Key -> Job]
  /\ manager \in [at : {"idle", "status", "check", "write"},
                  key : Key \cup {<<>>}, result : Job]
  /\ manager.at # "idle" => manager.key \in Key
  /\ lock \in Key \cup {Free, ByManager}
  /\ row \in Row
  /\ failures \in 0..MaxFailures
  /\ errors \in 0..MaxErrors
  /\ crashes \in 0..MaxCrashes
  /\ furthest \in [Work -> Section]
  /\ last_reported \in [Work -> 0..MaxSections]
  /\ orphaned \in [Work -> SUBSET Section]

\* No update is lost: while no callback is under way a work's row holds the
\* furthest section any callback reported, and the last_url of its last
\* result, whatever threads called back, and wherever the process died.
NoUpdateLost ==
  lock = Free =>
    \A u \in Work : IsWork(u) =>
      /\ work_entry[u].series_length = furthest[u]
      /\ work_entry[u].last_url = last_reported[u]

\* A section that is stored is counted in series_length, is about to be, or
\* was cut off by the death of the process before it was reported.
Reporting(u) ==
  {job[k].n : k \in {j \in {Normal(u), Retry(u)} :
                       job[j].at \in {"progress", "read", "write"}}}

StoredIsCounted ==
  \A u \in Work : \A n \in md5_sum[u] :
    n <= work_entry[u].series_length \/ n \in Reporting(u) \cup orphaned[u]

\* A row's processing flag goes off only while the work has no job: the
\* comment in UpdateDatabaseWithResult says so.
OffOnlyWhenIdle ==
  [][\A u \in Work :
       work_entry[u].processing /\ ~work_entry'[u].processing
         => ~StillWorkingOn(u)]_vars

----------------------------------------------------------------------------
(* Liveness.  A job that cannot read its index stays on the board as        *)
(* JOB_ERROR, and no other is accepted for its key until the program is     *)
(* started again: the promises exclude just that.                           *)

Stuck(k) == current_jobs[k] = "JOB_ERROR"

\* Every section a site lists is stored in the end: a run that failed, was
\* cut off, or came too early is made good by a later one.
EverySectionIsStored ==
  \A u \in Work : \A n \in Section :
    n <= site[u] ~> (n \in md5_sum[u] \/ Stuck(Normal(u)))

\* An error entry is retried and leaves the table.
ErrorEntryLeaves ==
  \A u \in Work : \A n \in Section :
    error_entry[u] = n ~> (error_entry[u] # n \/ Stuck(Retry(u)))
=============================================================================
