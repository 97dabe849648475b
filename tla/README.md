# Black Library in TLA+

Black Library keeps a local copy of serial works: once a day it reads a list of
urls, makes a database row for each new one, and lets parsers fetch the
sections it does not have yet.  This directory holds TLA+ models of the parts
of it where threads, failures and restarts meet, the TLC configurations that
check them on small instances, and TLAPS proofs of what holds for every
instance.  Paths below are relative to the repository.

## The system

| component | state it keeps | operations | hard because |
| --- | --- | --- | --- |
| BlackLibrary (`src/BlackLibrary.cc`, `src/blacklibrary.cc`) | `parse_entries_`, `done_`, the manager thread, `database_parser_mutex_` | `RunOnce` (pull, verify, compare, add jobs, add error jobs), status, progress and version callbacks, `Stop` from a signal handler | callbacks run on other threads; jobs live in memory, rows on disk |
| ParserManager | `current_jobs_`, `job_queue_`, `result_queue_`, `worker_map_` | `AddJob`, `RunOnce`, `Stop`, `StillWorkingOn` | three kinds of threads change the board |
| ParserWorker | `job_queue_`, `pool_results_`, `pool_erases_`, `done_` | `AddJob`, `RunOnce`, `Stop`, the task it enqueues | futures erased by position; a second thread per task |
| ThreadPool, BlockingQueue, BlockingUnorderedMap | tasks, threads | enqueue, pop, find_and_replace | shared by all of the above |
| Parser, IndexEntryParser (RR, AO3, WP, YT, FFN) | `done_`, `index_`, `index_entry_queue_`, `md5s_` | `Parse`, `ParseLoop`, `PreParseLoop`, `Stop` | partial failure, retries, a snapshot of the database |
| LinkedListParser, ParserXF (SBF, SVF) | `next_url_`, `index_`, target bounds | the same | position kept in two places, advanced before the section is saved |
| ParserDbAdapter | `upsert_mutex_` | `CheckVersion`, `UpsertMd5ByIndexNum`, `UpdateMd5BySeqNum` | upsert keyed by position |
| BlackLibraryDB, SQLiteDB | tables, prepared statements, one connection, the facade's `mutex_` | create, read, update, delete of each table | a transaction per call, with error paths |
| REST API | none | read-only endpoints | reads concurrently with all of the above |
| command line | none | squash, reorder, import, export, delete, resize | another process on the same file |
| Binder | none | `Bind` | picks the newest version of each section |
| GUI, url puller, uuid generator, utilities, drivers | | | I/O |

The main thread calls `ParserManager::AddJob`.  The manager thread of
BlackLibrary calls `ParserManager::RunOnce` once a second, which hands jobs to
workers, runs every worker once and collects results; a pool thread of the
worker runs the parser and calls the progress callback after every section;
the manager thread calls the status callback with every result.  Both callbacks
change `work_entry` and `error_entry`.  A signal runs `BlackLibrary::Stop` on
the main thread, which waits for the manager thread, which waits for every
task.

What makes each part correct: *pipeline*, a job is in one place, is listed
under the stage it is at, is reported once, and Stop leaves no task running;
*application*, no update of a row is lost, every section a site lists ends up
stored, error entries are retried and go away, `processing` says whether there
is work under way; *parsers*, sections are numbered as the site orders them and
none is skipped or stored under another's number; *database*, a call either
happens or does not, whatever call came before; *command line*, renumbering
keeps one row per section.

The hazards of the code, each with its line and the properties that would catch
it, are listed in `PROJECT.json`; those no property covers, or that one covers in
part, say why.

## Modules

`JobLifecycle` is what the pipeline promises of a job, with no queues or
threads: a key is accepted when it is not on the board, its status only moves
forward, it leaves from `JOB_FINISHED`, and one report is owed for it then.

`ParserPipeline` is the code: the main thread in `AddJob` (check, emplace and
push are three steps), the manager thread in every step of `RunOnce` and
`Stop`, the tasks of every pool and their done_threads.  Each access to a
queue or to the board is one step, as each of these containers has its own
mutex.  `manager.at` is the manager thread's program counter; a task's `phase`
is its own.  A future and its task are one element of `pool_results`, a
position marked to be erased is a member of `pool_erases`.  `accepted` and
`reported` are history.  A signal can arrive at any step of the main thread and
suspends it until the manager thread has ended.  `Board == INSTANCE
JobLifecycle` needs no substitution: the abstract variables are kept under the
same names.

`LibraryRun` is one level up: a job is its status, its parse is the queue of
missing sections, and around it are the three tables, the daily run, both
callbacks in their separate reads and writes under `database_parser_mutex_`,
sites that grow, sections and jobs that fail, and a death of the process that
keeps the tables and nothing else.  The pipeline's queues are gone: a job moves
through the statuses of `JobLifecycle`.  `furthest`, `last_reported` and
`orphaned` are history.

`LinkedListWalk` is a parser that follows links (ParserXF and its two
descendants, ParserWP), the loop that drives it and what the application stores
of it.  A walk is a record: where the next link leads, the index, the bounds,
the attempts that are left.  `ParseSection` is split by the way through it,
because the link moves in the middle: `FailsEarly` before, `FailsLate`, `Keeps`
and `Saves` after.  A link is the place of the section it leads to, or
`Nowhere` for a page without navigation.  A page that shows navigation and no
next section ends the walk, wherever it is (`GetNextUrl`): the last one does,
another may.  No page links back or past the next section.

`IndexMerge` is a parser that works from an index (IndexEntryParser, ParserRR):
`PreParseLoop` merges the chapters the site lists with the rows of `md5_sum`
exactly as the loop over the two priority queues does, one `MergeStep` per
turn, and what it finds misnumbered is renumbered by one call after the other;
then the queue is parsed as in `LibraryRun`, with the upsert by index.  Chapters
come and go at the site at any time.  Any of the rows an earlier job stored may
lack its number, like those of `sqlite_db_test.cc:180`: `MaxSeqNum` was written
to an `int` and comes back as -1 (`NoNumber`), which the merge compares as a
`size_t` (`AsSize`).

`ParserDbAdapter` says what the calls of the adapter do to the tables,
`LibraryDB` those of BlackLibraryDB with their argument checks, and
`SQLiteTables` what each statement of SQLiteDB does: tables are sets of rows,
inserts and updates respect the primary keys, integers are kept in 32 bits
(`AsInt`; the instances use fewer).  These three have no variables; the modules
above apply them to a variable `tables`.

`DatabaseSession` is how these calls happen: several processes on one file, each
with a connection that its threads share behind the facade's mutex, and SQLite's
shared, reserved and pending locks.  A call is up to five steps (take the mutex,
BEGIN, step, END, unlock with the return) with the error path at each; the
constructor with first-time set-up is a step per table, per default row and per
transaction of a row; a process may exit or die anywhere, which rolls its
transaction back.  What a call does is the constant `Effect`, given by `LibraryDB` in
`MCDatabaseSession` and arbitrary in the proofs.  SQLite itself is external: its
locks are modelled as the rollback journal without a busy timeout uses them,
which is how the code opens it.

`AtomicCalls` is what the users of the database rely on: a call takes its whole
effect in one step between invocation and return, or none at all, and answers
busy.  `DatabaseSession` implements it with `store <- file`; `LibraryRun`,
`LinkedListWalk`, `IndexMerge` and `Maintenance` make calls as single steps on
that ground.

`Maintenance` is the command line: a command reads rows once and plans the
calls it will make (`todo`), each of which is a step that may be refused, and
the process may die between two.  An exported file of entries is the list of its
rows, and `Text` says of each work what its texts hold that matters there, as
they are written between commas and a newline as they are: nothing, a newline
(the row comes back as two lines, both too short, which are skipped), or a comma
(texts move into the places of numbers, `stoul` or `stol` throws, nobody catches
it and the program ends).  `ImportLine` is the step for a line.

`MCParserPipeline`, `MCLibraryRun`, `MCDatabaseSession` and `MCMaintenance` name
model values and initial catalogs; `MCParserManagerTest`
states what `test/parsers/parser_manager_test.cc` expects.
`ParserPipelineProofs`, `LibraryRunProofs`, `DatabaseSessionProofs`,
`LinkedListWalkProofs` and, on top of it, `LinkedListNumberProofs`,
`IndexMergeProofs` and `MaintenanceProofs` hold the proofs.  `SequenceLemmas` has the
lemmas the last two share: induction over `Nat` as a fact about sets, the ranks
of numbers in a finite set, the orders of a set, and what a flattened sequence
holds.

Operators whose comment begins with *Mutant* are wrong on purpose: each is a
definition with a bug that code could plausibly have, and some property must
fail when it takes the definition's place.

## Runs

| run | instance | shows |
| --- | --- | --- |
| `pipeline_safety` | a work with a worker and one without, pool of two, three calls of AddJob | all safety properties of the pipeline and that it implements `JobLifecycle`, over every interleaving, Stop included |
| `pipeline_liveness` | one work, two workers, pool of one, three calls | `EveryJobLeaves`, `SuccessIsReported`, `StopReturns` |
| `pipeline_test` | one job | a violation: see below |
| `library_safety` | a work of up to two sections, two failing sections, a failing job, a death of the process | `NoUpdateLost`, `StoredIsCounted` |
| `library_liveness` | two sections, one failing | a section behind a failed one, or newer than the index that was read, is stored later |
| `library_restart` | one section, a failure of each kind, a death | the same after a restart, and `ErrorEntryLeaves` |
| `library_processing` | one section | a violation: see below |
| `database_session` | two processes, one with two threads; a user, a media type, two sources and the version as default rows; three locked calls and one unlocked, two calls and two starts in all | set-up and calls are all or nothing, transactions are closed, a process alone is never refused, and the refinement of `AtomicCalls` |
| `maintenance` | three works, one with a newline and one with a comma in its texts; up to three rows of a work with gaps and shared indexes; an int of 32 values and a size_t of 64; two commands, deaths between calls | `SquashLosesNoRow`, `ReorderSorts`, `ImportRestores` |
| `linked_list` | up to three sections, one of them edited, three jobs, two attempts | when sections keep their numbers, what is stored, that every walk ends |
| `index_merge` | four chapters; a listing replaced once by any other; two jobs that may overlap; a fault | order after a merge, nothing passed over, no live row lost, what an empty queue takes |
| `index_old_rows` | the same | a violation: see below |

*Bounds.*  The constants whose names begin with `Max`, and `Attempts`, are the
only bounds.  Two works with a normal and an error job each
and a pool of two fill every queue with more than one job, so erases by
position, FIFO order and overtaking happen; a third AddJob adds a key again
after it was reported.  Two sections are the smallest work in which one section
is behind another; two failures are needed for the second entry of a work to be
refused by the table's key.  A run with one work is enough for the tables, as
rows of different works are never touched by one call; the mutex and the row
variable they do share are covered for any number of works by `NoUpdateIsLost`.
In `database_session` two processes meet at every lock; two calls suffice for one
to be refused by the other or to follow one whose END was refused, and two
starts for two set-ups of one file or one after a death.  The script keeps one
default row of each kind of error path.  In `maintenance` a file of entries has up
to three rows, first one that is skipped, then one that is restored, then one that
ends the program, and an earlier one has the first two, so that an import comes to
its end; works are deleted and resized between the two.  A listing of four chapters replaced by
any other covers chapters removed and inserted at the front, in the middle and
at the end at once; `Libraries` are what an earlier job stored, so that rows of
chapters that are gone exist from the start.  In `linked_list` three sections are
a first, a middle and a last one; two attempts are enough for one to fail and
another to succeed, and the constant is 5 in the program.  Three jobs are one to
store, one to resume and one for an error entry.

*Fairness.*  Threads that can run do.  In `FairSpec` of the pipeline the manager
thread is weakly fair, as is the thread that runs a given job; a parse ends
since each section is tried five times at most and an index is finite.  Nothing
obliges the main thread to add a job, or a signal to arrive.  In `LibraryRun`
the steps that need `database_parser_mutex_` are strongly fair: parsers pause
for seconds between sections, so the mutex is free almost always.  Results are
strongly fair by key because the result queue is first in, first out, which
`ParserPipeline` has and `LibraryRun` abstracts.  A url is taken to stay on the
list: without it nothing is promised.  Liveness in `LibraryRun` excludes keys
that are stuck: a job that failed keeps its key on the board and no other job is
accepted for it until the program restarts, which is what the code does and its
test expects.  The four newer models state safety only; that a walk ends is
`WalkEnds`, a measure every step of a walk lowers, which needs no fairness.

*Three disagreements.*

* `src/BlackLibrary.cc:472` says "Do not set processing off if still working on
  uuid".  The question and the write are two steps, and `AddJob` on the main
  thread is not excluded from the time between them: `OffOnlyWhenIdle` fails.
  The flag is repaired by the next result of the work.
* `test/parsers/parser_manager_test.cc:47` requires `JOB_WORKER_QUEUED` after
  the `RunOnce` that took the job.  That same `RunOnce` starts it, so the status
  may already be `JOB_WORKING` or `JOB_ERROR`: `RoutedIsWorkerQueued` fails.
* `src/parsers/IndexEntryParser.cc:101` warns of a row with `MaxSeqNum` and sets it
  aside, and `:176` logs the pop of an empty queue as an error.  The row reads
  back as -1, so it is not set aside; it is larger than any number and never
  leaves its queue.  Every chapter not yet merged counts as new, and then line
  167 reads the top of the empty queue of entries: `OldRowsAreSetAside` fails.

*No property says that `processing` goes off in the end*, because it need not:
when a normal job is reported while an error job of the work is on the board the
flag stays up, and the error job's own result does not lower it; only a later
normal job does, unless a new job is again on the board at that moment.

## What the models show of the code

The properties of the newer models hold under the conditions they state.  These
conditions are where the code is fragile, and each is reached in the runs:

* *Linked lists.*  `Numbered`, `NothingForgotten` and `RowsStay` hold until one of
  the events `derailed` records: an attempt that fails after `next_url_` has moved
  (the retry stores the next section under the index of the failed one, and no
  later walk corrects it); a death after a report and before the result, so that
  `last_url` and `series_length` name different sections; an error job that
  raises `series_length`; a walk that started over and gave up before it caught
  up, or was ended by a page that shows no next section before it had; a forum
  page without navigation, whose missing link becomes the `last_url`
  of all later walks.  `forgotten`: an error job that fails again is recorded
  as a success and its entry is deleted (`BlackLibrary.cc:113`).
  The properties exempt what follows these events: they do not show the code free
  of them.  In the same way `StoredIsCounted` of
  `LibraryRun` exempts the sections in `orphaned`, stored by a parse that died
  before its report.
* *Indexes.*  A chapter that leaves the site keeps its row and its index.  That
  index may be given to another chapter, whose upsert writes over the row; when
  two rows share an index the upsert is refused by the key, which is reported as
  a success, and the chapter is fetched again by the next job.  `InOrder`,
  `Complete` and `LiveRowsStay` are about jobs that run alone: a normal and an
  error job of one work that overlap do mix up each other's indexes.
  For a source whose urls have no number (AO3, YT) an empty queue of rows and the
  one entry compare equal, both `MaxSeqNum`, and the branch for equal numbers
  reads the top of an empty queue (`IndexEntryParser.cc:139`): undefined
  behaviour, modelled as the death of the process.  A row without number does
  the same at line 167 to a source with numbers.  `MergeIsDefined` says that
  nothing else does.
* *Versions.*  BlackLibrary registers a callback that knows a section's version,
  and ParserManager keeps it without handing it to a worker
  (`ParserManager.cc:326`): every version is 0, also in the names of files.
* *Database.*  After a refused END a process stays in its transaction with a
  pending lock: its later calls all fail, and so do the writes of other
  processes, until it exits.  A process killed during first-time set-up leaves a
  file that exists, so that no later start completes it; each of them refuses to
  initialize.  A read that is refused answers that the row does not
  exist, with no error.
* *Command line.*  Squash keeps every row when the indexes of a work are
  distinct; two rows with one index are both deleted by the first call for either.
  A death between its two calls loses the one row.  `reorder`'s test for
  `MaxSeqNum` never holds, as the column shows -1.  `ExportChecksums` writes the
  index before the digest and `ImportChecksums` reads the digest first: an
  import of what was exported stops at the first digest that starts with a
  letter, and writes exchanged columns for those that start with a digit.
  An import of entries loses every row with a newline in a text without a failure,
  and one with a comma stops it with the rows before it restored;
  `ImportRestores` says so, and that every other row read is restored.

## Proofs

*The pipeline.*  These theorems are about `ParserPipeline!Spec` for arbitrary sets of works and
workers, any routing, any pool size and any number of calls.  They assume
`PipelineAssumption`: the routing is a function to the workers or to
`NoWorker`, which is no worker, and a pool has a thread.

* `PipelineTypeOK`, from `TypeInit` and `TypeNext`.
* `PipelineInvariant`: `IInv` is inductive.  `AtMostOneInFlight` alone is not:
  that a key popped from one queue is not in another follows from the board
  (`BoardMatchesStage`: the stages of two places differ or the statuses clash),
  that `AddJob` may emplace what it has found absent from `AddingIsAbsent`, that
  an erase removes the future that was read and not its neighbour from
  `MarksArePassed`, and that a result sent is one of `JOB_FINISHED` from
  `ResultsAreSettled`.  There is a lemma per step of the manager thread that
  moves a job (`InvRouteJob`, `InvScanFuture`, `InvEraseFuture`, `InvStartJob`,
  `InvPopResult`), one for the steps that move only the thread, one for the main
  thread and one for the tasks.
* `PipelineAtMostOneInFlight`, `PipelineBoardMatchesStage`,
  `PipelineInFlightIsOnBoard` follow from it.
* `PipelineEachJobReportedOnce` counts jobs accepted and reported, using `IInv`
  to know that the key popped is on the board.
* `PipelineImplementsBoard`: every step maps to a step of `JobLifecycle` or
  leaves its variables alone; the guard of each abstract step comes from
  `BoardMatchesStage`, the guard of `Report` from `EachJobReportedOnce`.
* `PipelineQuietWhenStopped` needs `VisitedAreQuiet` beside `IInv`: while Stop goes
  from worker to worker, every task of a worker it has been to has returned, and
  of the worker it is at, every task whose future it has passed.  A task that
  has returned stays so (`ReadyStays`), and the manager thread, the only one that
  starts tasks, is in Stop itself.
* `PipelineOnlyReturnedTasksDropped` is about the erases by position.  `IInv` says
  that a position marked to be erased was that of a future found ready and that
  marks are erased from the last to the first; `PositionsMoveDown` that the
  futures before an erased one keep their place.

*The library run.*  These are about `LibraryRun!Spec` for any set of works, any
number of sections, and however many sections and jobs fail or the process dies.

* `LibraryInvariant`: `IInv` is inductive.  `NoUpdateLost` speaks of the
  times when the mutex is free, so what a callback is about to write must be known
  while it is not: `CallbackHoldsLock`, that a callback between its read and its
  write holds the mutex, and `CopyIsCurrent`, that its copy is the row but for what
  it has put into it.  A job whose row does not exist would write a default row
  back; `JobsHaveRows` excludes it, from the list of entries, the board, the result
  that is reported and the errors.  `Counted` is stronger than `StoredIsCounted`: a
  parse accounts for a section only if it did not fail to fetch it.
* `LibraryTypeCorrect`, `NoUpdateIsLost` and `StoredSectionsAreCounted` follow.

*The database.*  These are about `DatabaseSession!Spec` for arbitrary sets of
processes, threads and calls, any `Effect` and any script of default rows.  They
assume `SessionAssumption`: every thread has a process, and a script is a
sequence of rows of known tables; those about set-up assume `ScriptAssumption`
too: the rows fill the tables no call writes, none takes the key of an earlier
one, and the version is the last.  TLC evaluates both, and the second also of
`SetupScript`, the rows the program creates (`SetupScriptAssumption`).

* `SessionInvariant`: `IInv` is inductive.  It is a conjunction of types and of
  `Local(p)` for each process, because a step of a process leaves the others
  alone: lemma `FrameKeeps` says so once, from the locks (a step changes the file
  only when no other process holds a lock), and there is a lemma per action for
  the process that moves.  The heart of `Local` is `Got`: a thread before its
  END either has been refused and its connection is clean, or has an answer and
  a lock under which the file is still the one it answered from, with the
  pages to write being exactly the call's effect.  Without the lock in `Got` another
  process's commit could intervene; without `OneTransaction` another thread's
  BEGIN could end up in the same transaction.
* `SessionIdleIsClosed` and `SessionTypeCorrect` follow.
* `SessionIsAtomic`: `DatabaseSession` implements `AtomicCalls`.  END maps to
  `TakeEffect` or `Fail`, by `Got`; the end of a row's transaction to `SetUp`,
  by what `RowsInOrder` knows of its pages; the rest to `Invoke`, `Die` or a stutter.
* `SessionAloneIsNeverBusy` needs a second invariant, `SoloInv`: while a process
  is alone and its calls are locked, the others hold no locks and the holder of
  the mutex is the only thread past it.  It assumes `AnswersDiffer`: no statement
  answers what a refused lock answers.  `StatementsDiffer` is why that holds of
  the statements in `SQLiteTables`.
* `SessionReadyImpliesComplete`: `SetUpInv` is inductive beside `IInv`.  A process
  that is up only read the version, so `VersionIsLast` carries the property: a
  file with a version has every default row.  It is kept because a process that
  is about to write the version has had no failure (`SetsUp`), so it found or made
  each row before it, because the file it looked at has only grown (`FileGrows`,
  from the four ways in which any step changes the file, `StepChangesFile`), and
  because under its reserved lock no other process commits between its INSERT and
  its END.  It assumes `CallsLeaveDefaults`: calls leave the tables of the defaults
  alone, which `WritingCallsLeaveDefaults` shows of every statement that the calls
  of `BlackLibraryDB` run.
* `SessionSetupAloneWorks` needs a fourth invariant, `AloneInv`: until a process
  that is alone is up, nothing has failed, its connection is closed between
  statements, and the file holds what it has written and nothing else
  (`OnlyRowsBefore`), so no key is taken (`KeysAreFree`) and the version it reads
  is its own.  That it is the process's own step that counts is `AloneMoves`, from
  `SoloInv`; that the file is empty when the path does not exist, `NothingBefore`.

*The linked list.*  These are about `LinkedListWalk!Spec` for any number of
sections, attempts, jobs and edits.  They assume `WalkAssumption`: there is an
attempt and a section to make, the work has a uuid, and an `int` holds the number
of every section.

* `WalkInvariant`: `IInv` is inductive.  It holds types, that there is one entry,
  and `Attempted`: a walk with a report to make still has the attempt it reports.
* `WalkTypeCorrect` follows, and `WalksEnd` too, for pages whose links lead to the
  next section, nowhere, or are missing: `StepsLeft`, a number made of
  the sections, the attempts and the stages of an attempt that are left, goes down
  with every step of a walk and, by `Attempted`, never below 0.
* `NumbersInvariant`: `NumInv` is inductive while nothing derails the numbers.
  `Numbered` alone says nothing of a walk under way, and what a walk saves goes
  under its `index_`; so `InStep` ties `index_` to the section that `next_url_` leads
  to, at each stage and whether or not the section last tried failed after the link
  was followed.  A blog's last page may have lost its navigation, so a walk may
  report one section more than are published, and `last_url` never names it.  And
  what `last_url` will be is only seen in the walk, so
  `Counted` ties `index_` to `series_length`, which every report raises.
  `TablesNumbered` is the part about the rows and the entry.  There is a lemma per
  action, and a lemma per call of the database that says exactly what it writes
  (`UpdateIsExact`, `ProgressIsExact`, `ResultIsExact`, `UpsertKeepsNumbers`).
* `SectionsKeepNumbers` follows.  `StoredStays` needs `NumInv` too: an upsert
  by `index_num` writes over another section's row unless the rows are numbered.
* `NothingIsForgotten` needs a third invariant, `CoverInv`: not only what
  `series_length` counts but also what the walk has done, and not yet
  reported, is stored or has an error entry.

*The index.*  These are about `IndexMerge!Spec` for any finite set of chapters,
any number of attempts, changes of the site, failures and jobs, and any chapters
stored before, with or without their numbers.  They assume `IndexAssumption`: a
chapter's number is below `MaxSeqNum`, which the index gives to urls without one
and which shows as a negative number in its column, and numbers and indexes fit
the `int` they are written to.  Indexes do because no index exceeds
twice the number of chapters (`LastIndex`), as each turn of the merge takes a row
or a chapter.

* `MergeInvariant`: `IInv` is inductive.  `InOrder` and `Complete` say nothing of a
  job whose updates are still to be made, so `Merged` counts a row that has an
  update waiting at the place it will have (`Places`); then a renumbering changes no
  place.  A section is saved under its place in the queue, so a save takes it
  from the queue to the rows and leaves the places as they are, and the row that is
  written over by its index is none of the listed, because places in order
  are distinct.  That a chapter found to have
  no row still has none when it is saved holds only while no other job is there:
  `AloneIs`.  Lemma `StepKeeps`
  reduces a step of a job to what it makes of that job and the tables; there is a
  lemma per action.
* The merge itself is a function that calls itself.  `MergesAreTurns` shows that it
  exists and is `MergeStep` repeated, by an induction over `Nat` that this
  module derives from least elements (`Induction`); the loop invariant is
  `MergeInv`: what is done is in order and lies before all that is left, what is
  left is sorted, and a listed chapter is left, stored or queued.  `EqualKeeps`,
  `GoneKeeps` and `NewKeeps` are its three branches, `MergeEnds` its end.  That
  both queues are sorted is `ByNumberSorts`, for any finite set numbered one to
  one.  A source without numbers reads an empty queue in the first turn
  (`UnnumberedEnds`), so no job of it gets further (`OnlyNumbered`).  All this is
  `SoundInv`, of works whose rows have numbers.  For a work with a row that has
  none there is `OldInv`: that row never leaves its queue, so every merge ends in
  the empty queue of entries, no job gets to its loop, and the row stays.  `IInv` is
  the one or the other.
* `IndexTypeCorrect`, `MergeIsAlwaysDefined`, `ChaptersInOrder` and
  `NothingPassedOver` follow; `LiveRowsAreKept` is what the lemmas about the steps
  show beside `IInv`.

*The command line.*  These are about `Maintenance!Spec` for any finite set of
works, any catalogs and any number of commands, each cut short by a death
anywhere or not.  They assume `MaintenanceAssumption`: digests are unique within a
work, indexes and numbers of the first catalog fit the int column, and so does
twice the number of its rows.  Twice, because an import that exchanges the
columns adds a row for each row of the file.

* `MaintenanceInvariant`: `IInv` is inductive.  The properties speak of what a
  command has done, so the invariant must say what it has still to do.
  `TypeInv` and `CountInv` hold of any command: rows and calls have their types,
  keys are unique, and the keys of rows and calls are among those of one
  catalog and of the file (`Known`), so that there are fewer rows than an int can
  number (`SumsAreFew`) and a row's place passes through its column unchanged.
* `SquashInv` says that the rows are those of `before` with each row in one of
  three places: where it was if its delete is still to come, at its rank if not,
  and nowhere if its create is the next call (`SquashRows`).  This is kept only
  because of the order of the calls (`SquashPlan`): creates follow their deletes,
  and a row waits as long as one of a smaller index does.  A delete is by index,
  and takes that row alone: a row that waits is under its own index, one that has
  moved is at a rank below it, since ranks go down along the order and never
  exceed the index (`WaitingRowIsAlone`, `RankBelow`).  That the calls planned are
  such a sequence is shown row by row (`AllArePlanned`), and that `Place`, a count
  of earlier entries in a sorted sequence, is the rank, by `PlaceIsRank`.
* `SquashKeepsRows` follows: the row that is nowhere is the one missing, and when
  no call is left ranks are 0, 1, ... by `RankFacts`.  For a work left alone the
  largest index is one below the number of rows, so distinct indexes are all of
  those below it (`NoGap`); this is the reason the code's test of the largest index
  alone finds every gap.
* `ReorderInv` compares rows by all but their index (`Face`), since that is
  what reorder changes.  Every row whose work has distinct numbers is at its place
  or has a call to come, either for itself or to read its work (`Awaits`); an
  update is by `seq_num`, so under distinct numbers it writes the row it was
  planned for, and otherwise is refused by the key or writes the row over itself:
  no row is lost whatever the numbers are.  `ReorderIsSorted` follows.
* `ImportInv` says how far in the file the import is and that the lines before were
  restored or skipped, none with a comma (`ImportGoesOn`, with a lemma for a plain
  row, `OneMoreRow`, and for a line that is skipped, `NoMoreRow`);
  `ImportIsComplete` follows, since the file has one entry of a work and no later
  call takes it back.

Only model-checked: the liveness properties, as the prover does not reach
fairness.  Every other property of a passing run is a theorem.
The three properties of the violation runs are false.

## What the models leave out

* A signal that finds the main thread holding the database's or a queue's mutex.
  The handler joins the manager thread, so if that thread needs the mutex the
  program hangs; `StopReturns` speaks of signals that arrive outside them.
* Parsing of pages, files, network and waiting times.  A fetch stores a section
  or fails.
* Sections of one work with identical text: `md5_sum` is keyed by uuid and md5, so
  the second gets no row and is fetched again every run.  The models take texts
  to differ.
* In `LibraryRun`, chapters removed or reordered, which `IndexMerge` has, and
  failures of the database, which `DatabaseSession` has.  `IndexMerge` has no
  liveness: that a work settles once its site does was too large to check.
* Failures of SQLite for other reasons than a lock, a key or a missing table (a
  full disk, a corrupt file), and of `sqlite3_bind`.
* `uint16_t` of `series_length`: its bound is far from any instance.
* In a file of entries, a text with both a comma and a newline, and a text with
  commas whose parts begin with digits, so that what lands in a number's place
  is read as one; also that the application, when it runs, changes an entry
  between an import's check of it and the call that follows, or a row between the
  time a command reads it and writes it back.  "import all" is the two
  imports as two commands.  `ImportChecksums` catches what `stoul` throws at a
  digest without a leading digit; one whose leading digits exceed an unsigned
  long, which ends the program, is not told apart from it.
* Pages of a linked list that link back or past the next section: a cycle of
  them would keep a walk going for ever.
* Input of the command line: tokens that are missing are read all the same
  (`BlackLibraryCLI.cc:204` and `:895`), which the models take to be given.
* `GetCurrentJobList`, used by tests and drivers only; set-up from the
  configuration; the five retries of a run whose list is empty.
* REST API and Binder, which change nothing in the catalog; the GUI, wait times,
  logging, and drivers.

## What is left

1. A composition of `IndexMerge` with `LibraryRun`, to state when a work whose
   chapters change settles.
2. The signal handler with the mutexes, to decide when Stop hangs.
3. The Binder's choice of the newest version, once versions reach the parsers.
