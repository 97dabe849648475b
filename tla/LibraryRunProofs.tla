--------------------------- MODULE LibraryRunProofs ---------------------------
(***************************************************************************)
(* No callback's update of a row is lost and every section that is stored  *)
(* is counted, for any works, any number of sections, failures and deaths  *)
(* of the process.                                                         *)
(***************************************************************************)
EXTENDS LibraryRun, TLAPS

\* A row that was created has a number of sections, and always will.
RowsBegin == \A u \in Work : IsWork(u) => work_entry[u].series_length \in Section

\* Whatever is under way is about a work that has a row: no callback writes a
\* row back that was never created.
JobsHaveRows ==
  /\ \A k \in Key : current_jobs[k] # "NONE" => IsWork(k[1])
  /\ \A k \in Key : job[k].at # "none" => current_jobs[k] = "JOB_WORKING"
  /\ manager.at # "idle" => IsWork(manager.key[1])
  /\ \A e \in main.entries \cup main.errors : IsWork(e[1])
  /\ \A u \in Work : error_entry[u] # 0 => IsWork(u)

\* A callback between its read and its write holds the mutex.
CallbackHoldsLock ==
  /\ \A k \in Key : job[k].at \in {"read", "write"} => lock = k
  /\ manager.at \in {"check", "write"} => lock = ByManager

\* The copy of a row is the row, but for what the callback has put into it.
CopyIsCurrent ==
  /\ \A k \in Key : job[k].at = "write" => row = work_entry[k[1]]
  /\ manager.at = "check" => row = work_entry[manager.key[1]]
  /\ manager.at = "write" =>
       /\ row.series_length = Larger(work_entry[manager.key[1]].series_length,
                                     manager.result.series_length)
       /\ row.last_url = manager.result.last_url

\* What the callbacks reported is in the row, also while one is under way.
Reported(u) ==
  IF IsWork(u) THEN /\ work_entry[u].series_length = furthest[u]
                    /\ work_entry[u].last_url = last_reported[u]
  ELSE furthest[u] = 1 /\ last_reported[u] = 0

\* The sections parses have stored and not reported.
Unreported(u) ==
  {job[k].n : k \in {j \in {Normal(u), Retry(u)} :
                       job[j].at \in {"progress", "read", "write"} /\ ~job[j].failed}}

\* A failed section that is stored was stored by another parse: it is not the
\* failing one that accounts for it.
Counted(u) ==
  \A n \in md5_sum[u] :
    n <= work_entry[u].series_length \/ n \in Unreported(u) \cup orphaned[u]

IInv ==
  /\ TypeOK /\ RowsBegin /\ JobsHaveRows /\ CallbackHoldsLock /\ CopyIsCurrent
  /\ \A u \in Work : Reported(u) /\ Counted(u)

----------------------------------------------------------------------------
(* Keys, the holder of the mutex, rows.                                     *)

LEMMA KeyFacts ==
  /\ \A k \in Key : k[1] \in Work /\ k[2] \in BOOLEAN /\ k = <<k[1], k[2]>>
  /\ \A u \in Work : /\ Normal(u) \in Key /\ Retry(u) \in Key
                     /\ Normal(u)[1] = u /\ Retry(u)[1] = u
  /\ \A k \in Key : k = Normal(k[1]) \/ k = Retry(k[1])
<1>1. \A k \in Key : k[1] \in Work /\ k[2] \in BOOLEAN /\ k = <<k[1], k[2]>>
  BY DEF Key
<1>2. \A u \in Work : /\ Normal(u) \in Key /\ Retry(u) \in Key
                      /\ Normal(u)[1] = u /\ Retry(u)[1] = u
  BY DEF Key, Normal, Retry
<1>3. ASSUME NEW k \in Key PROVE k = Normal(k[1]) \/ k = Retry(k[1])
  <2>1. CASE k[2] = TRUE
    BY <1>1, <2>1 DEF Retry
  <2>2. CASE k[2] = FALSE
    BY <1>1, <2>2 DEF Normal
  <2>3. QED  BY <1>1, <2>1, <2>2
<1>4. QED  BY <1>1, <1>2, <1>3

LEMMA HolderFacts ==
  /\ \A k \in Key : k # Free /\ k # ByManager
  /\ Free # ByManager
BY DEF Key, Free, ByManager

LEMMA SectionFacts ==
  /\ 1 \in Section /\ 0 \in 0..MaxSections
  /\ \A n \in Section : n \in Nat /\ n \in 0..MaxSections /\ n # 0 /\ n >= 1
  /\ \A n \in 0..MaxSections : n \in Nat /\ (n # 0 => n \in Section)
BY LibraryAssumption DEF Section

LEMMA LargerFacts ==
  ASSUME NEW a \in 0..MaxSections, NEW b \in Section
  PROVE  /\ Larger(a, b) \in Section
         /\ a <= Larger(a, b) /\ b <= Larger(a, b)
BY LibraryAssumption DEF Section, Larger

\* A row is told from none by its number of sections.
LEMMA RowFacts ==
  /\ NoRow \in Row /\ NewRow \in Row
  /\ \A r \in Row : r.series_length \in Nat
  /\ \A r \in Row : r.series_length \in Section => r # NoRow
  /\ NewRow.series_length = 1 /\ NewRow.last_url = 0
  /\ NoRow.series_length = 0 /\ NoRow.last_url = 0
BY LibraryAssumption DEF NoRow, NewRow, Row, Section

LEMMA NoJobFacts ==
  /\ NoJob \in Job /\ NoJob.at = "none"
  /\ \A n \in Section : /\ [NoJob EXCEPT !.start = n] \in Job
                        /\ [NoJob EXCEPT !.start = n].at = "none"
<1>1. NoJob \in Job
  BY SectionFacts DEF NoJob, Job
<1>2. ASSUME NEW n \in Section
      PROVE  /\ [NoJob EXCEPT !.start = n] \in Job
             /\ [NoJob EXCEPT !.start = n].at = "none"
  BY SectionFacts DEF NoJob, Job
<1>3. QED  BY <1>1, <1>2 DEF NoJob

----------------------------------------------------------------------------
(* Every section that is stored is counted: what a step has to show for it. *)

\* A stored section that only a parse under way accounts for.
Pending(k) == job[k].at \in {"progress", "read", "write"} /\ ~job[k].failed

LEMMA UnreportedPending ==
  ASSUME NEW u \in Work, NEW n
  PROVE  n \in Unreported(u) <=>
           \E k \in Key : k[1] = u /\ Pending(k) /\ job[k].n = n
BY KeyFacts DEF Unreported, Pending

LEMMA UnreportedPendingNext ==
  ASSUME NEW u \in Work, NEW n
  PROVE  n \in Unreported(u)' <=>
           \E k \in Key : k[1] = u /\ Pending(k)' /\ job'[k].n = n
BY KeyFacts DEF Unreported, Pending

\* No section is stored, rows only grow, and a parse that was about to report
\* a section still is, or has, or died.
LEMMA CountedKept ==
  ASSUME IInv, TypeOK', NEW u \in Work,
         md5_sum' = md5_sum,
         work_entry[u].series_length <= work_entry'[u].series_length,
         orphaned[u] \subseteq orphaned'[u],
         \A k \in Key : k[1] = u /\ Pending(k) =>
           \/ Pending(k)' /\ job'[k].n = job[k].n
           \/ job[k].n <= work_entry'[u].series_length
           \/ job[k].n \in orphaned'[u]
  PROVE  Counted(u)'
<1> SUFFICES ASSUME NEW n \in md5_sum'[u],
                    ~(n <= work_entry'[u].series_length)
             PROVE  n \in Unreported(u)' \cup orphaned'[u]
  BY DEF Counted
<1>1. /\ n \in Nat
      /\ work_entry[u].series_length \in Nat
      /\ work_entry'[u].series_length \in Nat
  <2>1. md5_sum'[u] \subseteq Section
    BY DEF TypeOK
  <2>2. work_entry[u] \in Row /\ work_entry'[u] \in Row
    BY DEF IInv, TypeOK
  <2>3. n \in Section
    BY <2>1
  <2>4. QED  BY <2>2, <2>3, SectionFacts, RowFacts
<1>2. n \in Unreported(u) \cup orphaned[u]
  BY <1>1 DEF IInv, Counted
<1>3. CASE n \in orphaned[u]
  BY <1>3
<1>4. CASE n \in Unreported(u)
  <2>1. PICK k \in Key : k[1] = u /\ Pending(k) /\ job[k].n = n
    BY <1>4, UnreportedPending
  <2>2. CASE Pending(k)' /\ job'[k].n = job[k].n
    BY <2>1, <2>2, UnreportedPendingNext
  <2>3. QED  BY <2>1, <2>2
<1>5. QED  BY <1>2, <1>3, <1>4

----------------------------------------------------------------------------
(* The invariant in the initial state.                                      *)

LEMMA InvariantInit == Init => IInv
<1> SUFFICES ASSUME Init PROVE IInv
  OBVIOUS
<1>1. TypeOK
  BY SectionFacts, RowFacts, NoJobFacts, LibraryAssumption
  DEF Init, TypeOK, Idle, NoResult, Status, Free
<1>2. \A u \in Work : work_entry[u] = NoRow
  BY DEF Init
<1>3. RowsBegin
  BY <1>2 DEF RowsBegin, IsWork
<1>4. JobsHaveRows
  BY NoJobFacts DEF Init, JobsHaveRows, Idle, NoResult
<1>5. CallbackHoldsLock /\ CopyIsCurrent
  BY NoJobFacts DEF Init, CallbackHoldsLock, CopyIsCurrent, NoResult
<1>6. \A u \in Work : Reported(u) /\ Counted(u)
  BY <1>2 DEF Init, Reported, Counted, IsWork
<1>7. QED  BY <1>1, <1>3, <1>4, <1>5, <1>6 DEF IInv

----------------------------------------------------------------------------
(* The main thread.                                                         *)

\* The main thread has moved, and nothing but its own lists.
LEMMA MainKeeps ==
  ASSUME IInv, TypeOK',
         UNCHANGED <<site, tables, current_jobs, job, manager, lock, row,
                     bounds, history>>,
         \A e \in main'.entries \cup main'.errors : IsWork(e[1])
  PROVE  IInv'
<1>1. RowsBegin' /\ CallbackHoldsLock' /\ CopyIsCurrent'
  BY DEF IInv, RowsBegin, IsWork, CallbackHoldsLock, CopyIsCurrent, tables
<1>2. JobsHaveRows'
  BY DEF IInv, JobsHaveRows, IsWork, tables
<1>3. \A u \in Work : Reported(u)' /\ Counted(u)'
  BY DEF IInv, Reported, Counted, Unreported, IsWork, tables, history
<1>4. QED  BY <1>1, <1>2, <1>3 DEF IInv

LEMMA PullUrlsKeeps ==
  ASSUME IInv, NEW urls \in SUBSET Work, PullUrls(urls)
  PROVE  IInv'
<1>1. main' = [at |-> "urls", urls |-> urls, entries |-> {}, errors |-> {}]
  BY DEF PullUrls, Idle
<1>2. UNCHANGED <<site, tables, current_jobs, job, manager, lock, row, bounds,
                  history>>
  BY DEF PullUrls
<1>3. TypeOK'
  BY <1>1, <1>2 DEF IInv, TypeOK, tables, bounds, history
<1>4. QED  BY <1>1, <1>2, <1>3, MainKeeps

LEMMA RunEndsKeeps ==
  ASSUME IInv, RunEnds
  PROVE  IInv'
<1>1. main' = [at |-> "idle", urls |-> {}, entries |-> {}, errors |-> {}]
  BY DEF RunEnds, Idle
<1>2. UNCHANGED <<site, tables, current_jobs, job, manager, lock, row, bounds,
                  history>>
  BY DEF RunEnds
<1>3. TypeOK'
  BY <1>1, <1>2 DEF IInv, TypeOK, tables, bounds, history
<1>4. QED  BY <1>1, <1>2, <1>3, MainKeeps

LEMMA ListErrorEntriesKeeps ==
  ASSUME IInv, ListErrorEntries
  PROVE  IInv'
<1> DEFINE errors_ == {<<u, error_entry[u]>> : u \in {v \in Work : error_entry[v] # 0}}
<1>0. TypeOK /\ JobsHaveRows
  BY DEF IInv
<1>1. main' = [main EXCEPT !.at = "errors", !.errors = errors_]
  BY DEF ListErrorEntries
<1>2. UNCHANGED <<site, tables, current_jobs, job, manager, lock, row, bounds,
                  history>>
  BY DEF ListErrorEntries
<1>3. \A e \in errors_ : e \in Work \X Section /\ IsWork(e[1])
  <2> SUFFICES ASSUME NEW u \in Work, error_entry[u] # 0
               PROVE  /\ <<u, error_entry[u]>> \in Work \X Section
                      /\ IsWork(u)
    OBVIOUS
  <2>1. error_entry[u] \in Section
    BY <1>0, SectionFacts DEF TypeOK
  <2>2. QED  BY <1>0, <2>1 DEF JobsHaveRows
<1> HIDE DEF errors_
<1>4. TypeOK'
  BY <1>0, <1>1, <1>2, <1>3 DEF TypeOK, tables, bounds, history
<1>5. main'.entries = main.entries /\ main'.errors = errors_
  BY <1>0, <1>1 DEF TypeOK
<1>6. QED  BY <1>0, <1>2, <1>3, <1>4, <1>5, MainKeeps DEF JobsHaveRows

\* The row of a url exists once it has been compared.
LEMMA CompareUrlKeeps ==
  ASSUME IInv, NEW u \in Work, CompareUrl(u)
  PROVE  IInv'
<1> DEFINE entry == IF IsWork(u) THEN work_entry[u] ELSE NewRow
<1>0. TypeOK /\ RowsBegin /\ JobsHaveRows
  BY DEF IInv
<1>1. /\ work_entry' = IF IsWork(u) THEN work_entry
                       ELSE [work_entry EXCEPT ![u] = NewRow]
      /\ main' = [main EXCEPT !.urls = main.urls \ {u},
                    !.entries = main.entries \cup {<<u, entry.series_length>>}]
      /\ UNCHANGED <<site, error_entry, md5_sum, current_jobs, job, manager,
                     lock, row, bounds, history>>
  BY DEF CompareUrl
<1>2. entry.series_length \in Section
  BY <1>0, SectionFacts, RowFacts DEF RowsBegin
<1> HIDE DEF entry
<1>3. TypeOK'
  <2>1. work_entry' \in [Work -> Row]
    BY <1>0, <1>1, RowFacts DEF TypeOK
  <2>2. main' \in [at : {"idle", "urls", "errors"}, urls : SUBSET Work,
                   entries : SUBSET (Work \X Section),
                   errors : SUBSET (Work \X Section)]
    <3>1. <<u, entry.series_length>> \in Work \X Section
      BY <1>2
    <3>2. main.urls \in SUBSET Work /\ main.entries \in SUBSET (Work \X Section)
      BY <1>0 DEF TypeOK
    <3>3. /\ main.urls \ {u} \in SUBSET Work
          /\ main.entries \cup {<<u, entry.series_length>>}
               \in SUBSET (Work \X Section)
      BY <3>1, <3>2
    <3>4. QED  BY <1>0, <1>1, <3>3 DEF TypeOK
  <2>3. QED  BY <1>0, <1>1, <2>1, <2>2 DEF TypeOK, bounds, history
<1>4. /\ IsWork(u)' /\ work_entry'[u].series_length \in Section
      /\ \A v \in Work : IsWork(v) => work_entry'[v] = work_entry[v]
      /\ \A v \in Work : v # u => work_entry'[v] = work_entry[v]
      /\ ~IsWork(u) => work_entry'[u] = NewRow
  <2>1. CASE IsWork(u)
    BY <1>0, <1>1, <2>1 DEF RowsBegin, IsWork
  <2>2. CASE ~IsWork(u)
    BY <1>0, <1>1, <2>2, SectionFacts, RowFacts DEF TypeOK, IsWork
  <2>3. QED  BY <2>1, <2>2
<1>5. \A v \in Work : IsWork(v) => IsWork(v)'
  BY <1>4 DEF IsWork
<1>6. RowsBegin'
  BY <1>0, <1>4 DEF RowsBegin, IsWork
<1>7. JobsHaveRows'
  <2>1. \A e \in main'.entries \cup main'.errors : IsWork(e[1])'
    <3>1. /\ main'.entries = main.entries \cup {<<u, entry.series_length>>}
          /\ main'.errors = main.errors
      BY <1>0, <1>1 DEF TypeOK
    <3>2. \A e \in main.entries \cup main.errors : e[1] \in Work /\ IsWork(e[1])
      BY <1>0 DEF TypeOK, JobsHaveRows
    <3>3. QED  BY <1>4, <1>5, <3>1, <3>2
  <2>2. (manager.at # "idle" => IsWork(manager.key[1]))'
    <3>1. manager' = manager
      BY <1>1
    <3>2. manager.at # "idle" => manager.key \in Key /\ IsWork(manager.key[1])
      BY <1>0 DEF JobsHaveRows, TypeOK
    <3>3. manager.at # "idle" => IsWork(manager.key[1])'
      BY <1>5, <3>1, <3>2, KeyFacts DEF IsWork
    <3>4. QED  BY <3>1, <3>3 DEF IsWork
  <2>3. \A k \in Key : current_jobs'[k] # "NONE" => IsWork(k[1])'
    BY <1>0, <1>1, <1>5, KeyFacts DEF JobsHaveRows
  <2>4. \A v \in Work : error_entry'[v] # 0 => IsWork(v)'
    BY <1>0, <1>1, <1>5 DEF JobsHaveRows
  <2>5. \A k \in Key : job'[k].at # "none" => current_jobs'[k] = "JOB_WORKING"
    BY <1>0, <1>1 DEF JobsHaveRows
  <2>6. QED  BY <2>1, <2>2, <2>3, <2>4, <2>5 DEF JobsHaveRows, IsWork
<1>8. CallbackHoldsLock'
  BY <1>1 DEF IInv, CallbackHoldsLock
<1>9. CopyIsCurrent'
  <2>1. \A k \in Key : job[k].at = "write" => work_entry'[k[1]] = work_entry[k[1]]
    BY <1>0, <1>4, KeyFacts DEF JobsHaveRows
  <2>2. manager.at # "idle" =>
          work_entry'[manager.key[1]] = work_entry[manager.key[1]]
    BY <1>0, <1>4, KeyFacts DEF JobsHaveRows, TypeOK
  <2>3. QED  BY <1>1, <2>1, <2>2 DEF IInv, CopyIsCurrent
<1>10. ASSUME NEW v \in Work PROVE Reported(v)'
  BY <1>1, <1>4, <1>5, RowFacts DEF IInv, Reported, IsWork, history
<1>11. ASSUME NEW v \in Work PROVE Counted(v)'
  <2>1. work_entry[v].series_length <= work_entry'[v].series_length
    <3>1. work_entry[v] \in Row /\ work_entry'[v] \in Row
      BY <1>0, <1>3 DEF TypeOK
    <3>2. work_entry'[v] = work_entry[v]
            \/ work_entry[v].series_length = 0
      BY <1>4, RowFacts DEF IsWork
    <3>3. QED  BY <3>1, <3>2, RowFacts
  <2>2. QED  BY <1>1, <1>3, <2>1, CountedKept DEF Pending, history
<1>12. QED  BY <1>3, <1>6, <1>7, <1>8, <1>9, <1>10, <1>11 DEF IInv

----------------------------------------------------------------------------
(* A step of a job that touches no row and stores nothing.                  *)

\* The job was not between storing a section and reporting it, and is not
\* inside a callback afterwards.
LEMMA QuietStepKeeps ==
  ASSUME IInv, TypeOK', NEW k \in Key,
         UNCHANGED <<work_entry, md5_sum, lock, row, history>>,
         \A e \in main'.entries \cup main'.errors : IsWork(e[1]),
         \A u \in Work : error_entry'[u] # 0 => IsWork(u),
         \A j \in Key : j # k => /\ job'[j] = job[j]
                                 /\ current_jobs'[j] = current_jobs[j],
         ~Pending(k),
         current_jobs'[k] # "NONE" => IsWork(k[1]),
         job'[k].at # "none" => current_jobs'[k] = "JOB_WORKING",
         job'[k].at \notin {"read", "write"},
         manager' = manager
           \/ manager'.at = "idle"
           \/ (manager'.at = "status" /\ IsWork(manager'.key[1]))
  PROVE  IInv'
<1>0. TypeOK /\ RowsBegin /\ JobsHaveRows /\ CallbackHoldsLock /\ CopyIsCurrent
  BY DEF IInv
<1>1. RowsBegin'
  BY <1>0 DEF RowsBegin, IsWork
<1>2. JobsHaveRows'
  <2>1. \A j \in Key : current_jobs'[j] # "NONE" => IsWork(j[1])
    BY <1>0 DEF JobsHaveRows
  <2>2. \A j \in Key : job'[j].at # "none" => current_jobs'[j] = "JOB_WORKING"
    BY <1>0 DEF JobsHaveRows
  <2>3. manager'.at # "idle" => IsWork(manager'.key[1])
    BY <1>0 DEF JobsHaveRows
  <2>4. QED  BY <2>1, <2>2, <2>3 DEF JobsHaveRows, IsWork
<1>3. CallbackHoldsLock'
  BY <1>0 DEF CallbackHoldsLock
<1>4. CopyIsCurrent'
  BY <1>0 DEF CopyIsCurrent
<1>5. ASSUME NEW u \in Work PROVE Reported(u)'
  BY DEF IInv, Reported, IsWork, history
<1>6. ASSUME NEW u \in Work PROVE Counted(u)'
  <2>1. work_entry[u].series_length <= work_entry'[u].series_length
    BY <1>0, RowFacts DEF TypeOK
  <2>2. \A j \in Key : Pending(j) => Pending(j)' /\ job'[j].n = job[j].n
    BY DEF Pending
  <2>3. QED  BY <2>1, <2>2, CountedKept DEF history
<1>7. QED  BY <1>1, <1>2, <1>3, <1>4, <1>5, <1>6 DEF IInv

LEMMA AddJobKeeps ==
  ASSUME IInv, NEW k \in Key, NEW start \in Section, IsWork(k[1]),
         AddJob(k, start),
         main' \in [at : {"idle", "urls", "errors"}, urls : SUBSET Work,
                    entries : SUBSET (Work \X Section),
                    errors : SUBSET (Work \X Section)],
         \A e \in main'.entries \cup main'.errors : IsWork(e[1]),
         UNCHANGED <<site, tables, manager, lock, row, bounds, history>>
  PROVE  IInv'
<1>0. TypeOK /\ JobsHaveRows
  BY DEF IInv
<1>1. CASE current_jobs[k] # "NONE"
  <2>1. UNCHANGED <<current_jobs, job>>
    BY <1>1 DEF AddJob
  <2>2. TypeOK'
    BY <1>0, <2>1 DEF TypeOK, tables, bounds, history
  <2>3. QED  BY <2>1, <2>2, MainKeeps
<1>2. CASE current_jobs[k] = "NONE"
  <2>1. /\ current_jobs' = [current_jobs EXCEPT ![k] = "JOB_MANAGER_QUEUED"]
        /\ job' = [job EXCEPT ![k] = [NoJob EXCEPT !.start = start]]
    BY <1>2 DEF AddJob
  <2>2. TypeOK'
    BY <1>0, <2>1, NoJobFacts DEF TypeOK, Status, tables, bounds, history
  <2>3. job[k].at = "none" /\ job'[k].at = "none"
    BY <1>0, <1>2, <2>1, NoJobFacts DEF TypeOK, JobsHaveRows
  <2>4. \A j \in Key : j # k => /\ job'[j] = job[j]
                                /\ current_jobs'[j] = current_jobs[j]
    BY <1>0, <2>1 DEF TypeOK
  <2>5. \A u \in Work : error_entry'[u] # 0 => IsWork(u)
    BY <1>0 DEF JobsHaveRows, tables
  <2>6. QED
    BY <2>2, <2>3, <2>4, <2>5, QuietStepKeeps DEF Pending, tables
<1>3. QED  BY <1>1, <1>2

LEMMA ParseUrlKeeps ==
  ASSUME IInv, NEW e \in main.entries, ParseUrl(e)
  PROVE  IInv'
<1>0. TypeOK /\ JobsHaveRows
  BY DEF IInv
<1>1. /\ main' = [main EXCEPT !.entries = main.entries \ {e}]
      /\ AddJob(Normal(e[1]), e[2])
      /\ UNCHANGED <<site, tables, manager, lock, row, bounds, history>>
  BY DEF ParseUrl
<1>2. e[1] \in Work /\ e[2] \in Section /\ IsWork(e[1])
  BY <1>0 DEF TypeOK, JobsHaveRows
<1>3. /\ main' \in [at : {"idle", "urls", "errors"}, urls : SUBSET Work,
                    entries : SUBSET (Work \X Section),
                    errors : SUBSET (Work \X Section)]
      /\ main'.entries \subseteq main.entries
      /\ main'.errors = main.errors
  BY <1>0, <1>1 DEF TypeOK
<1>4. \A x \in main'.entries \cup main'.errors : IsWork(x[1])
  BY <1>0, <1>3 DEF JobsHaveRows
<1>5. Normal(e[1]) \in Key /\ Normal(e[1])[1] = e[1]
  BY <1>2, KeyFacts
<1>6. QED  BY <1>1, <1>2, <1>3, <1>4, <1>5, AddJobKeeps

LEMMA ParseErrorEntryKeeps ==
  ASSUME IInv, NEW e \in main.errors, ParseErrorEntry(e)
  PROVE  IInv'
<1>0. TypeOK /\ JobsHaveRows
  BY DEF IInv
<1>1. /\ main' = [main EXCEPT !.errors = main.errors \ {e}]
      /\ AddJob(Retry(e[1]), e[2])
      /\ UNCHANGED <<site, tables, manager, lock, row, bounds, history>>
  BY DEF ParseErrorEntry
<1>2. e[1] \in Work /\ e[2] \in Section /\ IsWork(e[1])
  BY <1>0 DEF TypeOK, JobsHaveRows
<1>3. /\ main' \in [at : {"idle", "urls", "errors"}, urls : SUBSET Work,
                    entries : SUBSET (Work \X Section),
                    errors : SUBSET (Work \X Section)]
      /\ main'.errors \subseteq main.errors
      /\ main'.entries = main.entries
  BY <1>0, <1>1 DEF TypeOK
<1>4. \A x \in main'.entries \cup main'.errors : IsWork(x[1])
  BY <1>0, <1>3 DEF JobsHaveRows
<1>5. Retry(e[1]) \in Key /\ Retry(e[1])[1] = e[1]
  BY <1>2, KeyFacts
<1>6. QED  BY <1>1, <1>2, <1>3, <1>4, <1>5, AddJobKeeps

LEMMA MainStep ==
  ASSUME IInv, Main
  PROVE  IInv'
BY PullUrlsKeeps, CompareUrlKeeps, ParseUrlKeeps, ListErrorEntriesKeeps,
   RunEndsKeeps, ParseErrorEntryKeeps DEF Main

----------------------------------------------------------------------------
(* A job.                                                                   *)

\* A status change of the job k, which was not between a fetch and the report
\* of it.
LEMMA QuietJobKeeps ==
  ASSUME IInv, NEW k \in Key, NEW from \in Status \ {"NONE"}, NEW to \in Status,
         Become(k, from, to),
         NEW p \in Job, job' = [job EXCEPT ![k] = p],
         job[k].at \in {"none", "section"},
         p.at = "none" \/ (p.at = "section" /\ to = "JOB_WORKING"),
         UNCHANGED <<site, tables, main, manager, lock, row, failures, crashes,
                     history>>,
         errors' \in 0..MaxErrors
  PROVE  IInv'
<1>0. TypeOK /\ JobsHaveRows
  BY DEF IInv
<1>1. /\ current_jobs[k] # "NONE"
      /\ current_jobs' = [current_jobs EXCEPT ![k] = to]
  BY DEF Become
<1>2. TypeOK'
  BY <1>0, <1>1 DEF TypeOK, tables, history
<1>3. \A j \in Key : j # k => /\ job'[j] = job[j]
                              /\ current_jobs'[j] = current_jobs[j]
  BY <1>0, <1>1 DEF TypeOK
<1>4. job'[k] = p /\ current_jobs'[k] = to
  BY <1>0, <1>1 DEF TypeOK
<1>5. /\ \A u \in Work : error_entry'[u] # 0 => IsWork(u)
      /\ \A e \in main'.entries \cup main'.errors : IsWork(e[1])
      /\ IsWork(k[1])
  BY <1>0, <1>1 DEF JobsHaveRows, tables
<1>6. ~Pending(k)
  BY DEF Pending
<1>7. QED  BY <1>2, <1>3, <1>4, <1>5, <1>6, QuietStepKeeps DEF tables

\* The sections a site lists of a work are sections.
LEMMA SiteSections ==
  ASSUME TypeOK, NEW u \in Work
  PROVE  1..site[u] \subseteq Section
<1>1. site[u] \in Section
  BY DEF TypeOK
<1>2. QED  BY <1>1, LibraryAssumption DEF Section

LEMMA BeginParseKeeps ==
  ASSUME IInv, NEW k \in Key, BeginParse(k)
  PROVE  IInv'
<1> DEFINE queue == (1..site[k[1]]) \ md5_sum[k[1]]
           p == [job[k] EXCEPT !.at = "section", !.queue = queue]
<1>0. TypeOK /\ JobsHaveRows
  BY DEF IInv
<1>1. job' = [job EXCEPT ![k] = p]
  BY <1>0 DEF BeginParse, TypeOK
<1>2. queue \in SUBSET Section
  BY <1>0, SiteSections, KeyFacts
<1>3. job[k] \in Job
  BY <1>0 DEF TypeOK
<1> HIDE DEF queue
<1>4. p \in Job /\ p.at = "section"
  BY <1>2, <1>3 DEF Job
<1> HIDE DEF p
<1>5. /\ Become(k, "JOB_MANAGER_QUEUED", "JOB_WORKING")
      /\ UNCHANGED <<site, tables, main, manager, lock, row, failures, errors,
                     crashes, history>>
  BY DEF BeginParse, bounds
<1>6. job[k].at = "none"
  BY <1>0, <1>5 DEF Become, JobsHaveRows
<1>7. errors' \in 0..MaxErrors
  BY <1>0, <1>5 DEF TypeOK
<1>8. QED
  BY <1>1, <1>4, <1>5, <1>6, <1>7, QuietJobKeeps DEF Status

\* One more job has failed, within the bound.
LEMMA ErrorsBound ==
  ASSUME TypeOK, errors < MaxErrors, errors' = errors + 1
  PROVE  errors' \in 0..MaxErrors
BY LibraryAssumption DEF TypeOK

LEMMA SetupFailsKeeps ==
  ASSUME IInv, NEW k \in Key, SetupFails(k)
  PROVE  IInv'
<1>0. TypeOK /\ JobsHaveRows
  BY DEF IInv
<1>1. /\ Become(k, "JOB_MANAGER_QUEUED", "JOB_ERROR")
      /\ job' = [job EXCEPT ![k] = NoJob]
      /\ UNCHANGED <<site, tables, main, manager, lock, row, failures, crashes,
                     history>>
      /\ errors < MaxErrors /\ errors' = errors + 1
  BY DEF SetupFails
<1>2. job[k].at = "none"
  BY <1>0, <1>1 DEF Become, JobsHaveRows
<1>3. QED
  BY <1>0, <1>1, <1>2, ErrorsBound, NoJobFacts, QuietJobKeeps DEF Status

LEMMA ParseFailsKeeps ==
  ASSUME IInv, NEW k \in Key, ParseFails(k)
  PROVE  IInv'
<1>0. TypeOK
  BY DEF IInv
<1>1. /\ Become(k, "JOB_WORKING", "JOB_ERROR")
      /\ job' = [job EXCEPT ![k] = NoJob]
      /\ job[k].at = "section"
      /\ UNCHANGED <<site, tables, main, manager, lock, row, failures, crashes,
                     history>>
      /\ errors < MaxErrors /\ errors' = errors + 1
  BY DEF ParseFails
<1>2. QED
  BY <1>0, <1>1, ErrorsBound, NoJobFacts, QuietJobKeeps DEF Status

LEMMA ParseEndsKeeps ==
  ASSUME IInv, NEW k \in Key, ParseEnds(k)
  PROVE  IInv'
<1> DEFINE p == [job[k] EXCEPT !.at = "none"]
<1>0. TypeOK
  BY DEF IInv
<1>1. /\ Become(k, "JOB_WORKING", "JOB_FINISHED")
      /\ job' = [job EXCEPT ![k] = p]
      /\ job[k].at = "section"
      /\ UNCHANGED <<site, tables, main, manager, lock, row, failures, errors,
                     crashes, history>>
  BY <1>0 DEF ParseEnds, TypeOK, bounds
<1>2. job[k] \in Job /\ errors' \in 0..MaxErrors
  BY <1>0, <1>1 DEF TypeOK
<1>3. p \in Job /\ p.at = "none"
  BY <1>2 DEF Job
<1> HIDE DEF p
<1>4. QED
  BY <1>1, <1>2, <1>3, QuietJobKeeps DEF Status

LEMMA FetchFailsKeeps ==
  ASSUME IInv, NEW k \in Key, NEW n \in Section, FetchFails(k, n)
  PROVE  IInv'
<1> DEFINE p == [job[k] EXCEPT !.at = "progress", !.n = n, !.failed = TRUE]
<1>0. TypeOK /\ JobsHaveRows
  BY DEF IInv
<1>1. /\ job' = [job EXCEPT ![k] = p]
      /\ job[k].at = "section"
      /\ UNCHANGED <<site, tables, main, current_jobs, manager, lock, row,
                     errors, crashes, history>>
      /\ failures < MaxFailures /\ failures' = failures + 1
  BY <1>0 DEF FetchFails, TypeOK
<1>2. job[k] \in Job
  BY <1>0 DEF TypeOK
<1>3. p \in Job /\ p.at = "progress"
  BY <1>2 DEF Job
<1> HIDE DEF p
<1>4. failures' \in 0..MaxFailures
  BY <1>0, <1>1, LibraryAssumption DEF TypeOK
<1>5. TypeOK'
  BY <1>0, <1>1, <1>3, <1>4 DEF TypeOK, tables, history
<1>6. \A j \in Key : j # k => job'[j] = job[j]
  BY <1>0, <1>1 DEF TypeOK
<1>7. job'[k] = p
  BY <1>0, <1>1 DEF TypeOK
<1>8. /\ \A u \in Work : error_entry'[u] # 0 => IsWork(u)
      /\ \A e \in main'.entries \cup main'.errors : IsWork(e[1])
      /\ current_jobs'[k] = "JOB_WORKING" /\ IsWork(k[1])
  BY <1>0, <1>1 DEF JobsHaveRows, tables
<1>9. ~Pending(k)
  BY <1>1 DEF Pending
<1>10. QED
  BY <1>1, <1>3, <1>5, <1>6, <1>7, <1>8, <1>9, QuietStepKeeps DEF tables

\* A section is stored, and its job is about to report it.
LEMMA FetchSectionKeeps ==
  ASSUME IInv, NEW k \in Key, NEW n \in Section, FetchSection(k, n)
  PROVE  IInv'
<1> DEFINE p == [job[k] EXCEPT !.at = "progress", !.n = n, !.failed = FALSE]
<1>0. TypeOK /\ RowsBegin /\ JobsHaveRows /\ CallbackHoldsLock /\ CopyIsCurrent
  BY DEF IInv
<1>1. /\ job' = [job EXCEPT ![k] = p]
      /\ job[k].at = "section"
      /\ md5_sum' = [md5_sum EXCEPT ![k[1]] = md5_sum[k[1]] \cup {n}]
      /\ UNCHANGED <<site, work_entry, error_entry, main, current_jobs, manager,
                     lock, row, bounds, history>>
  BY <1>0 DEF FetchSection, TypeOK
<1>2. job[k] \in Job
  BY <1>0 DEF TypeOK
<1>3. p \in Job /\ p.at = "progress" /\ p.n = n /\ ~p.failed
  BY <1>2 DEF Job
<1> HIDE DEF p
<1>4. TypeOK'
  <2>1. md5_sum' \in [Work -> SUBSET Section]
    BY <1>0, <1>1, KeyFacts DEF TypeOK
  <2>2. QED
    BY <1>0, <1>1, <1>3, <2>1 DEF TypeOK, bounds, history
<1>5. \A j \in Key : j # k => job'[j] = job[j]
  BY <1>0, <1>1 DEF TypeOK
<1>6. job'[k] = p
  BY <1>0, <1>1 DEF TypeOK
<1>7. RowsBegin'
  BY <1>0, <1>1 DEF RowsBegin, IsWork
<1>8. JobsHaveRows'
  BY <1>0, <1>1, <1>5 DEF JobsHaveRows, IsWork
<1>9. CallbackHoldsLock' /\ CopyIsCurrent'
  BY <1>0, <1>1, <1>3, <1>5, <1>6 DEF CallbackHoldsLock, CopyIsCurrent
<1>10. ASSUME NEW u \in Work PROVE Reported(u)'
  BY <1>1 DEF IInv, Reported, IsWork, history
<1>11. ASSUME NEW u \in Work PROVE Counted(u)'
  <2> SUFFICES ASSUME NEW m \in md5_sum'[u],
                      ~(m <= work_entry'[u].series_length)
               PROVE  m \in Unreported(u)' \cup orphaned'[u]
    BY DEF Counted
  <2>1. CASE m \in md5_sum[u]
    <3>1. m \in Unreported(u) \cup orphaned[u]
      BY <1>1, <2>1 DEF IInv, Counted
    <3>2. CASE m \in orphaned[u]
      BY <1>1, <3>2 DEF history
    <3>3. CASE m \in Unreported(u)
      <4>1. PICK j \in Key : j[1] = u /\ Pending(j) /\ job[j].n = m
        BY <3>3, UnreportedPending
      <4>2. job'[j] = job[j]
        BY <1>1, <1>5, <4>1 DEF Pending
      <4>3. QED  BY <4>1, <4>2, UnreportedPendingNext DEF Pending
    <3>4. QED  BY <3>1, <3>2, <3>3
  <2>2. CASE m \notin md5_sum[u]
    <3>1. u = k[1] /\ m = n
      BY <1>0, <1>1, <2>2, KeyFacts DEF TypeOK
    <3>2. QED  BY <1>3, <1>6, <3>1, UnreportedPendingNext DEF Pending
  <2>3. QED  BY <2>1, <2>2
<1>12. QED  BY <1>4, <1>7, <1>8, <1>9, <1>10, <1>11 DEF IInv

----------------------------------------------------------------------------
(* The progress callback.                                                   *)

\* The next section to fetch: a job again, and no more than that.
LEMMA NextSectionFacts ==
  ASSUME TypeOK, NEW k \in Key, NextSection(k)
  PROVE  /\ job' \in [Key -> Job]
         /\ job'[k].at = "section"
         /\ \A j \in Key : j # k => job'[j] = job[j]
<1> DEFINE p == job[k]
           over == [p EXCEPT !.at = "section", !.n = 1, !.failed = FALSE,
                             !.queue = {}]
           next == [p EXCEPT !.at = "section", !.n = 1, !.queue = p.queue \ {p.n},
                             !.series_length = p.n, !.last_url = p.n]
<1>1. job' = [job EXCEPT ![k] = IF p.failed THEN over ELSE next]
  BY DEF NextSection
<1>2. p \in Job /\ job \in [Key -> Job]
  BY DEF TypeOK
<1> HIDE DEF p
<1>3. over \in Job /\ over.at = "section"
  BY <1>2, SectionFacts DEF Job
<1>4. next \in Job /\ next.at = "section"
  <2>1. p.queue \ {p.n} \in SUBSET Section /\ p.n \in 0..MaxSections
    BY <1>2, SectionFacts DEF Job
  <2>2. QED  BY <1>2, <2>1, SectionFacts DEF Job
<1> HIDE DEF over, next
<1>5. QED  BY <1>1, <1>2, <1>3, <1>4

\* While nobody holds the mutex no callback is under way.
LEMMA NobodyInside ==
  ASSUME IInv, lock = Free
  PROVE  /\ \A k \in Key : job[k].at \notin {"read", "write"}
         /\ manager.at \notin {"check", "write"}
BY HolderFacts DEF IInv, CallbackHoldsLock

\* The holder of the mutex is alone.
LEMMA AloneInside ==
  ASSUME IInv, NEW k \in Key, job[k].at \in {"read", "write"}
  PROVE  /\ \A j \in Key : j # k => job[j].at \notin {"read", "write"}
         /\ manager.at \notin {"check", "write"}
BY HolderFacts DEF IInv, CallbackHoldsLock

LEMMA ManagerAloneInside ==
  ASSUME IInv, manager.at \in {"check", "write"}
  PROVE  \A j \in Key : job[j].at \notin {"read", "write"}
BY HolderFacts DEF IInv, CallbackHoldsLock

LEMMA ProgressBeginsKeeps ==
  ASSUME IInv, NEW k \in Key, ProgressBegins(k)
  PROVE  IInv'
<1> DEFINE u == k[1]
           p == job[k]
<1>0. TypeOK /\ RowsBegin /\ JobsHaveRows /\ CallbackHoldsLock /\ CopyIsCurrent
  BY DEF IInv
<1>1. /\ lock = Free /\ p.at = "progress"
      /\ UNCHANGED <<site, work_entry, md5_sum, main, current_jobs, manager,
                     row, bounds, history>>
  BY DEF ProgressBegins, Progress
<1>2. /\ u \in Work /\ p \in Job /\ p.n \in Section
      /\ current_jobs[k] = "JOB_WORKING" /\ IsWork(u)
  BY <1>0, <1>1, KeyFacts DEF TypeOK, Job, JobsHaveRows
<1>3. \A e \in main'.entries \cup main'.errors : IsWork(e[1])
  BY <1>0, <1>1 DEF JobsHaveRows
<1>4. CASE p.failed /\ error_entry[u] = p.n
  <2>1. NextSection(k) /\ UNCHANGED <<lock, error_entry>>
    BY <1>4 DEF ProgressBegins, Progress
  <2>2. /\ job' \in [Key -> Job] /\ job'[k].at = "section"
        /\ \A j \in Key : j # k => job'[j] = job[j]
    BY <1>0, <2>1, NextSectionFacts
  <2>3. TypeOK'
    BY <1>0, <1>1, <2>1, <2>2 DEF TypeOK, bounds, history
  <2>4. \A v \in Work : error_entry'[v] # 0 => IsWork(v)
    BY <1>0, <2>1 DEF JobsHaveRows
  <2>5. ~Pending(k)
    BY <1>4 DEF Pending
  <2>6. current_jobs'[k] = "JOB_WORKING" /\ IsWork(k[1])
    BY <1>1, <1>2
  <2>7. QED
    BY <1>1, <1>3, <2>1, <2>2, <2>3, <2>4, <2>5, <2>6, QuietStepKeeps
<1>5. CASE ~(p.failed /\ error_entry[u] = p.n)
  <2>1. /\ lock' = k
        /\ job' = [job EXCEPT ![k] = [p EXCEPT !.at = "read"]]
        /\ error_entry' = IF p.failed /\ error_entry[u] = 0
                          THEN [error_entry EXCEPT ![u] = p.n]
                          ELSE error_entry
    BY <1>0, <1>5 DEF ProgressBegins, Progress, TypeOK
  <2>2. /\ [p EXCEPT !.at = "read"] \in Job
        /\ job'[k].at = "read" /\ job'[k].n = p.n /\ job'[k].failed = p.failed
    BY <1>0, <1>2, <2>1 DEF TypeOK, Job
  <2>3. \A j \in Key : j # k => job'[j] = job[j]
    BY <1>0, <2>1 DEF TypeOK
  <2>4. TypeOK'
    <3>1. error_entry' \in [Work -> 0..MaxSections]
      BY <1>0, <1>2, <2>1, SectionFacts DEF TypeOK
    <3>2. QED
      BY <1>0, <1>1, <2>1, <2>2, <3>1 DEF TypeOK, bounds, history
  <2>5. RowsBegin'
    BY <1>0, <1>1 DEF RowsBegin, IsWork
  <2>6. JobsHaveRows'
    <3>1. \A v \in Work : error_entry'[v] # 0 => IsWork(v)
      BY <1>0, <1>2, <2>1 DEF JobsHaveRows, TypeOK
    <3>2. \A j \in Key : job'[j].at # "none" => current_jobs'[j] = "JOB_WORKING"
      BY <1>0, <1>1, <1>2, <2>3 DEF JobsHaveRows
    <3>3. QED
      BY <1>0, <1>1, <1>3, <3>1, <3>2 DEF JobsHaveRows, IsWork
  <2>7. CallbackHoldsLock' /\ CopyIsCurrent'
    BY <1>1, <2>1, <2>2, <2>3, NobodyInside
    DEF CallbackHoldsLock, CopyIsCurrent
  <2>8. ASSUME NEW v \in Work PROVE Reported(v)'
    BY <1>1 DEF IInv, Reported, IsWork, history
  <2>9. ASSUME NEW v \in Work PROVE Counted(v)'
    <3>1. work_entry[v].series_length <= work_entry'[v].series_length
      BY <1>0, <1>1, RowFacts DEF TypeOK
    <3>2. \A j \in Key : Pending(j) => Pending(j)' /\ job'[j].n = job[j].n
      BY <2>2, <2>3 DEF Pending
    <3>3. QED  BY <1>1, <2>4, <3>1, <3>2, CountedKept DEF history
  <2>10. QED  BY <2>4, <2>5, <2>6, <2>7, <2>8, <2>9 DEF IInv
<1>6. QED  BY <1>4, <1>5

LEMMA ProgressReadsKeeps ==
  ASSUME IInv, NEW k \in Key, ProgressReads(k)
  PROVE  IInv'
<1>0. TypeOK /\ RowsBegin /\ JobsHaveRows /\ CallbackHoldsLock /\ CopyIsCurrent
  BY DEF IInv
<1>1. /\ job[k].at = "read" /\ row' = work_entry[k[1]]
      /\ job' = [job EXCEPT ![k] = [job[k] EXCEPT !.at = "write"]]
      /\ UNCHANGED <<site, tables, main, current_jobs, manager, lock, bounds,
                     history>>
  BY <1>0 DEF ProgressReads, TypeOK
<1>2. job[k] \in Job /\ row' \in Row
  BY <1>0, <1>1, KeyFacts DEF TypeOK
<1>3. /\ [job[k] EXCEPT !.at = "write"] \in Job
      /\ job'[k].at = "write" /\ job'[k].n = job[k].n
      /\ job'[k].failed = job[k].failed
  BY <1>0, <1>1, <1>2 DEF TypeOK, Job
<1>4. \A j \in Key : j # k => job'[j] = job[j]
  BY <1>0, <1>1 DEF TypeOK
<1>5. TypeOK'
  BY <1>0, <1>1, <1>2, <1>3 DEF TypeOK, tables, bounds, history
<1>6. RowsBegin'
  BY <1>0, <1>1 DEF RowsBegin, IsWork, tables
<1>7. JobsHaveRows'
  <2>1. \A j \in Key : job'[j].at # "none" => current_jobs'[j] = "JOB_WORKING"
    BY <1>0, <1>1, <1>4 DEF JobsHaveRows
  <2>2. QED  BY <1>0, <1>1, <2>1 DEF JobsHaveRows, IsWork, tables
<1>8. CallbackHoldsLock'
  BY <1>0, <1>1, <1>4 DEF CallbackHoldsLock
<1>9. CopyIsCurrent'
  BY <1>1, <1>4, AloneInside DEF CopyIsCurrent, tables
<1>10. ASSUME NEW v \in Work PROVE Reported(v)'
  BY <1>1 DEF IInv, Reported, IsWork, tables, history
<1>11. ASSUME NEW v \in Work PROVE Counted(v)'
  <2>1. work_entry[v].series_length <= work_entry'[v].series_length
    BY <1>0, <1>1, RowFacts DEF TypeOK, tables
  <2>2. \A j \in Key : Pending(j) => Pending(j)' /\ job'[j].n = job[j].n
    BY <1>1, <1>3, <1>4 DEF Pending
  <2>3. QED  BY <1>1, <1>5, <2>1, <2>2, CountedKept DEF tables, history
<1>12. QED  BY <1>5, <1>6, <1>7, <1>8, <1>9, <1>10, <1>11 DEF IInv

\* The row of a callback that writes: there is one, and the number it reports
\* goes into the row and into the history alike.
LEMMA ProgressWritesKeeps ==
  ASSUME IInv, NEW k \in Key, ProgressWrites(k)
  PROVE  IInv'
<1> DEFINE u == k[1]
           n == job[k].n
           r == [row EXCEPT !.series_length = Larger(row.series_length, n)]
<1>0. TypeOK /\ RowsBegin /\ JobsHaveRows /\ CallbackHoldsLock /\ CopyIsCurrent
  BY DEF IInv
<1>1. /\ job[k].at = "write"
      /\ work_entry' = [work_entry EXCEPT ![u] = r]
      /\ furthest' = [furthest EXCEPT ![u] = Larger(furthest[u], n)]
      /\ lock' = Free /\ row' = NoRow
      /\ NextSection(k)
      /\ UNCHANGED <<site, error_entry, md5_sum, main, current_jobs, manager,
                     bounds, last_reported, orphaned>>
  BY DEF ProgressWrites
<1>2. /\ u \in Work /\ n \in Section /\ row = work_entry[u]
      /\ IsWork(u) /\ row \in Row
  BY <1>0, <1>1, KeyFacts DEF TypeOK, Job, JobsHaveRows, CopyIsCurrent
<1>3. /\ row.series_length \in 0..MaxSections /\ row.series_length = furthest[u]
      /\ row.last_url = last_reported[u]
  BY <1>2 DEF IInv, Reported, Row
<1>4. /\ Larger(row.series_length, n) \in Section
      /\ row.series_length <= Larger(row.series_length, n)
      /\ n <= Larger(row.series_length, n)
  BY <1>2, <1>3, LargerFacts
<1>5. /\ r \in Row /\ r.series_length = Larger(row.series_length, n)
      /\ r.last_url = row.last_url
  BY <1>2, <1>4, SectionFacts DEF Row
<1>6. /\ work_entry'[u] = r /\ IsWork(u)'
      /\ \A v \in Work : v # u => work_entry'[v] = work_entry[v]
  BY <1>0, <1>1, <1>2, <1>4, <1>5, RowFacts DEF TypeOK, IsWork
<1> HIDE DEF r
<1>7. /\ job' \in [Key -> Job] /\ job'[k].at = "section"
      /\ \A j \in Key : j # k => job'[j] = job[j]
  BY <1>0, <1>1, NextSectionFacts
<1>8. TypeOK'
  <2>1. work_entry' \in [Work -> Row] /\ furthest' \in [Work -> Section]
    BY <1>0, <1>1, <1>2, <1>3, <1>4, <1>5 DEF TypeOK
  <2>2. QED
    BY <1>0, <1>1, <1>7, <2>1, RowFacts DEF TypeOK, bounds
<1>9. RowsBegin'
  BY <1>0, <1>4, <1>5, <1>6 DEF RowsBegin, IsWork
<1>10. JobsHaveRows'
  <2>1. \A v \in Work : IsWork(v) => IsWork(v)'
    BY <1>6 DEF IsWork
  <2>2. \A j \in Key : job'[j].at # "none" => current_jobs'[j] = "JOB_WORKING"
    BY <1>0, <1>1, <1>7 DEF JobsHaveRows
  <2>3. \A j \in Key : current_jobs'[j] # "NONE" => IsWork(j[1])'
    BY <1>0, <1>1, <2>1, KeyFacts DEF JobsHaveRows
  <2>4. manager.at # "idle" => work_entry'[manager.key[1]] # NoRow
    <3>1. manager.at # "idle" => manager.key \in Key /\ IsWork(manager.key[1])
      BY <1>0 DEF JobsHaveRows, TypeOK
    <3>2. QED  BY <2>1, <3>1, KeyFacts DEF IsWork
  <2>5. \A e \in main.entries \cup main.errors : e[1] \in Work /\ IsWork(e[1])
    BY <1>0 DEF JobsHaveRows, TypeOK
  <2>6. \A e \in main'.entries \cup main'.errors : IsWork(e[1])'
    BY <1>1, <2>1, <2>5
  <2>7. \A v \in Work : error_entry'[v] # 0 => IsWork(v)'
    BY <1>0, <1>1, <2>1 DEF JobsHaveRows
  <2>8. (manager.at # "idle" => IsWork(manager.key[1]))'
    BY <1>1, <2>4 DEF IsWork
  <2>9. QED  BY <2>2, <2>3, <2>6, <2>7, <2>8 DEF JobsHaveRows, IsWork
<1>11. CallbackHoldsLock' /\ CopyIsCurrent'
  <2>1. /\ \A j \in Key : job'[j].at \notin {"read", "write"}
        /\ manager'.at \notin {"check", "write"}
    BY <1>1, <1>7, AloneInside
  <2>2. QED  BY <2>1 DEF CallbackHoldsLock, CopyIsCurrent
<1>12. ASSUME NEW v \in Work PROVE Reported(v)'
  <2>1. CASE v = u
    <3>1. furthest'[u] = Larger(furthest[u], n)
      BY <1>0, <1>1, <1>2 DEF TypeOK
    <3>2. QED  BY <1>1, <1>3, <1>5, <1>6, <2>1, <3>1 DEF Reported
  <2>2. CASE v # u
    <3>1. furthest'[v] = furthest[v] /\ work_entry'[v] = work_entry[v]
      BY <1>0, <1>1, <1>6, <2>2 DEF TypeOK
    <3>2. QED  BY <1>1, <3>1 DEF IInv, Reported, IsWork
  <2>3. QED  BY <2>1, <2>2
<1>13. ASSUME NEW v \in Work PROVE Counted(v)'
  <2>1. work_entry[v].series_length <= work_entry'[v].series_length
    <3>1. work_entry[v] \in Row /\ work_entry[v].series_length \in Nat
      BY <1>0, RowFacts DEF TypeOK
    <3>2. QED  BY <1>2, <1>4, <1>5, <1>6, <3>1
  <2>2. \A j \in Key : j[1] = v /\ Pending(j) =>
          \/ Pending(j)' /\ job'[j].n = job[j].n
          \/ job[j].n <= work_entry'[v].series_length
    BY <1>4, <1>5, <1>6, <1>7 DEF Pending
  <2>3. QED  BY <1>1, <1>8, <2>1, <2>2, CountedKept
<1>14. QED  BY <1>8, <1>9, <1>10, <1>11, <1>12, <1>13 DEF IInv

LEMMA JobMoves ==
  ASSUME IInv, NEW k \in Key, JobStep(k) \/ JobFails(k)
  PROVE  IInv'
BY BeginParseKeeps, ProgressBeginsKeeps, ProgressReadsKeeps,
   ProgressWritesKeeps, ParseEndsKeeps, FetchSectionKeeps, SetupFailsKeeps,
   ParseFailsKeeps, FetchFailsKeeps DEF JobStep, JobFails

----------------------------------------------------------------------------
(* The manager thread.                                                      *)

LEMMA PopResultKeeps ==
  ASSUME IInv, NEW k \in Key, PopResult(k)
  PROVE  IInv'
<1>0. TypeOK /\ JobsHaveRows
  BY DEF IInv
<1>1. /\ current_jobs[k] = "JOB_FINISHED"
      /\ current_jobs' = [current_jobs EXCEPT ![k] = "NONE"]
      /\ manager' = [at |-> "status", key |-> k, result |-> job[k]]
      /\ job' = [job EXCEPT ![k] = NoJob]
      /\ UNCHANGED <<site, tables, main, lock, row, bounds, history>>
  BY DEF PopResult, Become
<1>2. /\ IsWork(k[1]) /\ job[k].at = "none" /\ job[k] \in Job
  BY <1>0, <1>1 DEF JobsHaveRows, TypeOK
<1>3. TypeOK'
  <2>1. manager' \in [at : {"idle", "status", "check", "write"},
                      key : Key \cup {<<>>}, result : Job]
    BY <1>1, <1>2
  <2>2. manager'.at # "idle" => manager'.key \in Key
    BY <1>1
  <2>3. current_jobs' \in [Key -> Status] /\ job' \in [Key -> Job]
    BY <1>0, <1>1, NoJobFacts DEF TypeOK, Status
  <2>4. QED
    BY <1>0, <1>1, <2>1, <2>2, <2>3 DEF TypeOK, tables, bounds, history
<1>4. job'[k].at = "none"
  BY <1>0, <1>1, NoJobFacts DEF TypeOK
<1>5. \A j \in Key : j # k => /\ job'[j] = job[j]
                              /\ current_jobs'[j] = current_jobs[j]
  BY <1>0, <1>1 DEF TypeOK
<1>6. /\ \A u \in Work : error_entry'[u] # 0 => IsWork(u)
      /\ \A e \in main'.entries \cup main'.errors : IsWork(e[1])
  BY <1>0, <1>1 DEF JobsHaveRows, tables
<1>7. manager'.at = "status" /\ IsWork(manager'.key[1])
  BY <1>1, <1>2
<1>8. ~Pending(k)
  BY <1>2 DEF Pending
<1>9. QED
  BY <1>1, <1>2, <1>3, <1>4, <1>5, <1>6, <1>7, <1>8, QuietStepKeeps DEF tables

\* What a step of the manager thread that touches no row must show.
LEMMA ManagerKeeps ==
  ASSUME IInv, TypeOK', CallbackHoldsLock', CopyIsCurrent',
         UNCHANGED <<work_entry, md5_sum, main, current_jobs, job, history>>,
         \A u \in Work : error_entry'[u] # 0 => IsWork(u),
         manager'.at # "idle" => manager.at # "idle" /\ manager'.key = manager.key
  PROVE  IInv'
<1>0. TypeOK /\ RowsBegin /\ JobsHaveRows
  BY DEF IInv
<1>1. RowsBegin'
  BY <1>0 DEF RowsBegin, IsWork
<1>2. JobsHaveRows'
  BY <1>0 DEF JobsHaveRows, IsWork
<1>3. ASSUME NEW u \in Work PROVE Reported(u)'
  BY DEF IInv, Reported, IsWork, history
<1>4. ASSUME NEW u \in Work PROVE Counted(u)'
  BY DEF IInv, Counted, Unreported, history
<1>5. QED  BY <1>1, <1>2, <1>3, <1>4 DEF IInv

LEMMA NoResultFacts ==
  /\ NoResult.at = "idle"
  /\ NoResult \in [at : {"idle", "status", "check", "write"},
                   key : Key \cup {<<>>}, result : Job]
BY NoJobFacts DEF NoResult

LEMMA DeleteErrorEntryKeeps ==
  ASSUME IInv, DeleteErrorEntry
  PROVE  IInv'
<1>0. TypeOK /\ JobsHaveRows /\ CallbackHoldsLock
  BY DEF IInv
<1> DEFINE u == manager.key[1]
<1>1. /\ manager.at = "status" /\ lock = Free
      /\ error_entry' = IF error_entry[u] = manager.result.start
                        THEN [error_entry EXCEPT ![u] = 0] ELSE error_entry
      /\ manager' = NoResult
      /\ UNCHANGED <<site, work_entry, md5_sum, main, current_jobs, job, lock,
                     row, bounds, history>>
  BY DEF DeleteErrorEntry
<1>2. /\ error_entry' \in [Work -> 0..MaxSections]
      /\ \A v \in Work : error_entry'[v] # 0 => error_entry[v] # 0
  BY <1>0, <1>1, SectionFacts DEF TypeOK
<1>3. TypeOK'
  BY <1>0, <1>1, <1>2, NoResultFacts DEF TypeOK, bounds, history
<1>4. CallbackHoldsLock' /\ CopyIsCurrent'
  BY <1>1, NobodyInside, NoResultFacts DEF CallbackHoldsLock, CopyIsCurrent
<1>5. \A v \in Work : error_entry'[v] # 0 => IsWork(v)
  BY <1>0, <1>2 DEF JobsHaveRows
<1>6. QED  BY <1>1, <1>3, <1>4, <1>5, NoResultFacts, ManagerKeeps

LEMMA ReadRowKeeps ==
  ASSUME IInv, ReadRow
  PROVE  IInv'
<1>0. TypeOK /\ JobsHaveRows
  BY DEF IInv
<1>1. /\ manager.at = "status" /\ lock = Free /\ lock' = ByManager
      /\ row' = work_entry[manager.key[1]]
      /\ manager' = [manager EXCEPT !.at = "check"]
      /\ UNCHANGED <<site, tables, main, current_jobs, job, bounds, history>>
  BY DEF ReadRow
<1>2. /\ manager.key \in Key /\ row' \in Row
      /\ manager' \in [at : {"idle", "status", "check", "write"},
                       key : Key \cup {<<>>}, result : Job]
      /\ manager'.at = "check" /\ manager'.key = manager.key
  BY <1>0, <1>1, KeyFacts DEF TypeOK
<1>3. TypeOK'
  BY <1>0, <1>1, <1>2 DEF TypeOK, tables, bounds, history
<1>4. CallbackHoldsLock' /\ CopyIsCurrent'
  BY <1>1, <1>2, NobodyInside DEF CallbackHoldsLock, CopyIsCurrent, tables
<1>5. \A v \in Work : error_entry'[v] # 0 => IsWork(v)
  BY <1>0, <1>1 DEF JobsHaveRows, tables
<1>6. QED  BY <1>1, <1>2, <1>3, <1>4, <1>5, ManagerKeeps DEF tables

LEMMA CheckRowKeeps ==
  ASSUME IInv, CheckRow
  PROVE  IInv'
<1>0. TypeOK /\ JobsHaveRows /\ CallbackHoldsLock /\ CopyIsCurrent
  BY DEF IInv
<1> DEFINE u == manager.key[1]
           result == manager.result
<1>1. /\ manager.at = "check"
      /\ row' = [series_length |-> Larger(row.series_length,
                                          result.series_length),
                 last_url |-> result.last_url,
                 processing |-> StillWorkingOn(u)]
      /\ manager' = [manager EXCEPT !.at = "write"]
      /\ UNCHANGED <<site, tables, main, current_jobs, job, lock, bounds,
                     history>>
  BY DEF CheckRow
<1>2. /\ manager' \in [at : {"idle", "status", "check", "write"},
                       key : Key \cup {<<>>}, result : Job]
      /\ manager'.at = "write" /\ manager'.key = manager.key
      /\ manager'.result = result /\ manager.key \in Key
  BY <1>0, <1>1 DEF TypeOK
<1>3. /\ result.series_length \in Section /\ result.last_url \in 0..MaxSections
      /\ row.series_length \in 0..MaxSections
  BY <1>0 DEF TypeOK, Job, Row
<1>4. /\ row' \in Row
      /\ row'.series_length = Larger(row.series_length, result.series_length)
      /\ row'.last_url = result.last_url
  <2>1. Larger(row.series_length, result.series_length) \in 0..MaxSections
    BY <1>3, LargerFacts, SectionFacts
  <2>2. StillWorkingOn(u) \in BOOLEAN
    BY DEF StillWorkingOn
  <2>3. QED  BY <1>1, <1>3, <2>1, <2>2 DEF Row
<1>5. TypeOK'
  BY <1>0, <1>1, <1>2, <1>4 DEF TypeOK, tables, bounds, history
<1>6. CallbackHoldsLock' /\ CopyIsCurrent'
  <2>1. CallbackHoldsLock'
    BY <1>0, <1>1, <1>2 DEF CallbackHoldsLock
  <2>2. row = work_entry[u] /\ work_entry' = work_entry
    BY <1>0, <1>1 DEF CopyIsCurrent, tables
  <2>3. CopyIsCurrent'
    BY <1>1, <1>2, <1>4, <2>2, ManagerAloneInside DEF CopyIsCurrent
  <2>4. QED  BY <2>1, <2>3
<1>7. \A v \in Work : error_entry'[v] # 0 => IsWork(v)
  BY <1>0, <1>1 DEF JobsHaveRows, tables
<1>8. QED  BY <1>1, <1>2, <1>5, <1>6, <1>7, ManagerKeeps DEF tables

LEMMA WriteRowKeeps ==
  ASSUME IInv, WriteRow
  PROVE  IInv'
<1> DEFINE u == manager.key[1]
           result == manager.result
<1>0. TypeOK /\ RowsBegin /\ JobsHaveRows /\ CallbackHoldsLock /\ CopyIsCurrent
  BY DEF IInv
<1>1. /\ manager.at = "write"
      /\ work_entry' = [work_entry EXCEPT ![u] = row]
      /\ lock' = Free /\ row' = NoRow /\ manager' = NoResult
      /\ furthest' = [furthest EXCEPT ![u] = Larger(furthest[u],
                                                    result.series_length)]
      /\ last_reported' = [last_reported EXCEPT ![u] = result.last_url]
      /\ UNCHANGED <<site, error_entry, md5_sum, main, current_jobs, job,
                     bounds, orphaned>>
  BY DEF WriteRow
<1>2. /\ u \in Work /\ IsWork(u) /\ row \in Row
      /\ result.series_length \in Section /\ result.last_url \in 0..MaxSections
  BY <1>0, <1>1, KeyFacts DEF TypeOK, Job, JobsHaveRows
<1>3. /\ row.series_length = Larger(work_entry[u].series_length,
                                    result.series_length)
      /\ row.last_url = result.last_url
      /\ work_entry[u].series_length = furthest[u]
      /\ work_entry[u].series_length \in Section
      /\ work_entry[u].series_length \in 0..MaxSections
  BY <1>0, <1>1, <1>2, SectionFacts DEF IInv, CopyIsCurrent, Reported, RowsBegin
<1>4. /\ row.series_length \in Section
      /\ work_entry[u].series_length <= row.series_length
  BY <1>2, <1>3, LargerFacts
<1>5. /\ work_entry'[u] = row /\ row # NoRow
      /\ \A v \in Work : v # u => work_entry'[v] = work_entry[v]
  BY <1>0, <1>1, <1>2, <1>4, RowFacts DEF TypeOK, IsWork
<1>6. TypeOK'
  <2>1. /\ work_entry' \in [Work -> Row] /\ furthest' \in [Work -> Section]
        /\ last_reported' \in [Work -> 0..MaxSections]
    BY <1>0, <1>1, <1>2, <1>3, <1>4 DEF TypeOK
  <2>2. QED
    BY <1>0, <1>1, <2>1, RowFacts, NoResultFacts DEF TypeOK, bounds
<1>7. RowsBegin'
  BY <1>0, <1>4, <1>5 DEF RowsBegin, IsWork
<1>8. JobsHaveRows'
  <2>1. \A v \in Work : IsWork(v) => IsWork(v)'
    BY <1>5 DEF IsWork
  <2>2. \A j \in Key : current_jobs'[j] # "NONE" => IsWork(j[1])'
    BY <1>0, <1>1, <2>1, KeyFacts DEF JobsHaveRows
  <2>3. \A e \in main.entries \cup main.errors : e[1] \in Work /\ IsWork(e[1])
    BY <1>0 DEF JobsHaveRows, TypeOK
  <2>4. \A e \in main'.entries \cup main'.errors : IsWork(e[1])'
    BY <1>1, <2>1, <2>3
  <2>5. \A v \in Work : error_entry'[v] # 0 => IsWork(v)'
    BY <1>0, <1>1, <2>1 DEF JobsHaveRows
  <2>6. \A j \in Key : job'[j].at # "none" => current_jobs'[j] = "JOB_WORKING"
    BY <1>0, <1>1 DEF JobsHaveRows
  <2>7. manager'.at = "idle"
    BY <1>1, NoResultFacts
  <2>8. QED  BY <2>2, <2>4, <2>5, <2>6, <2>7 DEF JobsHaveRows, IsWork
<1>9. CallbackHoldsLock' /\ CopyIsCurrent'
  BY <1>1, ManagerAloneInside, NoResultFacts DEF CallbackHoldsLock, CopyIsCurrent
<1>10. ASSUME NEW v \in Work PROVE Reported(v)'
  <2>1. CASE v = u
    <3>1. /\ furthest'[u] = Larger(furthest[u], result.series_length)
          /\ last_reported'[u] = result.last_url
      BY <1>0, <1>1, <1>2 DEF TypeOK
    <3>2. QED  BY <1>3, <1>5, <2>1, <3>1 DEF Reported, IsWork
  <2>2. CASE v # u
    <3>1. /\ furthest'[v] = furthest[v] /\ work_entry'[v] = work_entry[v]
          /\ last_reported'[v] = last_reported[v]
      BY <1>0, <1>1, <1>5, <2>2 DEF TypeOK
    <3>2. QED  BY <3>1 DEF IInv, Reported, IsWork
  <2>3. QED  BY <2>1, <2>2
<1>11. ASSUME NEW v \in Work PROVE Counted(v)'
  <2>1. work_entry[v].series_length <= work_entry'[v].series_length
    <3>1. work_entry[v] \in Row /\ work_entry[v].series_length \in Nat
      BY <1>0, RowFacts DEF TypeOK
    <3>2. QED  BY <1>4, <1>5, <3>1
  <2>2. QED  BY <1>1, <1>6, <2>1, CountedKept DEF Pending
<1>12. QED  BY <1>6, <1>7, <1>8, <1>9, <1>10, <1>11 DEF IInv

LEMMA ManagerStep ==
  ASSUME IInv, Manager
  PROVE  IInv'
BY PopResultKeeps, DeleteErrorEntryKeeps, ReadRowKeeps, CheckRowKeeps,
   WriteRowKeeps DEF Manager

----------------------------------------------------------------------------
(* Outside.                                                                 *)

LEMMA SiteGrowsKeeps ==
  ASSUME IInv, NEW u \in Work, SiteGrows(u)
  PROVE  IInv'
<1>0. TypeOK /\ JobsHaveRows
  BY DEF IInv
<1>1. /\ site[u] < MaxSections
      /\ site' = [site EXCEPT ![u] = site[u] + 1]
      /\ UNCHANGED <<tables, main, current_jobs, job, manager, lock, row, bounds,
                     history>>
  BY DEF SiteGrows
<1>2. site[u] + 1 \in Section
  BY <1>0, <1>1, LibraryAssumption DEF TypeOK, Section
<1>3. TypeOK'
  BY <1>0, <1>1, <1>2 DEF TypeOK, tables, bounds, history
<1>4. CallbackHoldsLock' /\ CopyIsCurrent'
  BY <1>1 DEF IInv, CallbackHoldsLock, CopyIsCurrent, tables
<1>5. \A v \in Work : error_entry'[v] # 0 => IsWork(v)
  BY <1>0, <1>1 DEF JobsHaveRows, tables
<1>6. QED  BY <1>1, <1>3, <1>4, <1>5, ManagerKeeps DEF tables

\* The rows survive, nothing is under way any more, and the sections that were
\* stored and not reported are the ones the death of the process orphaned.
LEMMA CrashKeeps ==
  ASSUME IInv, Crash
  PROVE  IInv'
<1>0. TypeOK /\ RowsBegin /\ JobsHaveRows
  BY DEF IInv
<1>1. /\ crashes < MaxCrashes /\ crashes' = crashes + 1
      /\ main' = Idle
      /\ current_jobs' = [k \in Key |-> "NONE"]
      /\ job' = [k \in Key |-> NoJob]
      /\ manager' = NoResult /\ lock' = Free /\ row' = NoRow
      /\ orphaned' = [u \in Work |-> orphaned[u] \cup Unreported(u)]
      /\ UNCHANGED <<site, tables, failures, errors, furthest, last_reported>>
  BY DEF Crash, Unreported
<1>2. \A u \in Work : Unreported(u) \subseteq Section
  <2>1. \A k \in Key : job[k].n \in Section
    BY <1>0 DEF TypeOK, Job
  <2>2. QED  BY <2>1, KeyFacts DEF Unreported
<1>3. TypeOK'
  <2>1. crashes' \in 0..MaxCrashes
    BY <1>0, <1>1, LibraryAssumption DEF TypeOK
  <2>2. orphaned' \in [Work -> SUBSET Section]
    BY <1>0, <1>1, <1>2 DEF TypeOK
  <2>3. main' \in [at : {"idle", "urls", "errors"}, urls : SUBSET Work,
                   entries : SUBSET (Work \X Section),
                   errors : SUBSET (Work \X Section)]
    BY <1>1 DEF Idle
  <2>4. QED
    BY <1>0, <1>1, <2>1, <2>2, <2>3, RowFacts, NoJobFacts, NoResultFacts
    DEF TypeOK, tables, Status
<1>4. RowsBegin'
  BY <1>0, <1>1 DEF RowsBegin, IsWork, tables
<1>5. JobsHaveRows'
  BY <1>0, <1>1, NoJobFacts, NoResultFacts
  DEF JobsHaveRows, IsWork, tables, Idle
<1>6. CallbackHoldsLock' /\ CopyIsCurrent'
  BY <1>1, NoJobFacts, NoResultFacts DEF CallbackHoldsLock, CopyIsCurrent
<1>7. ASSUME NEW u \in Work PROVE Reported(u)'
  BY <1>1 DEF IInv, Reported, IsWork, tables
<1>8. ASSUME NEW u \in Work PROVE Counted(u)'
  <2>1. work_entry[u].series_length <= work_entry'[u].series_length
    BY <1>0, <1>1, RowFacts DEF TypeOK, tables
  <2>2. orphaned'[u] = orphaned[u] \cup Unreported(u)
    BY <1>1
  <2>3. \A k \in Key : k[1] = u /\ Pending(k) => job[k].n \in orphaned'[u]
    BY <2>2, UnreportedPending
  <2>4. QED  BY <1>1, <1>3, <2>1, <2>2, <2>3, CountedKept DEF tables
<1>9. QED  BY <1>3, <1>4, <1>5, <1>6, <1>7, <1>8 DEF IInv

----------------------------------------------------------------------------
(* Theorems.                                                                *)

LEMMA InvariantStep == IInv /\ [Next]_vars => IInv'
<1> SUFFICES ASSUME IInv, [Next]_vars PROVE IInv'
  OBVIOUS
<1>1. CASE UNCHANGED vars
  BY <1>1 DEF vars, tables, bounds, history, IInv, TypeOK, RowsBegin,
     JobsHaveRows, CallbackHoldsLock, CopyIsCurrent, Reported, Counted,
     Unreported, IsWork
<1>2. CASE Main
  BY <1>2, MainStep
<1>3. CASE Manager
  BY <1>3, ManagerStep
<1>4. CASE Crash
  BY <1>4, CrashKeeps
<1>5. ASSUME NEW k \in Key, JobStep(k) \/ JobFails(k) PROVE IInv'
  BY <1>5, JobMoves
<1>6. ASSUME NEW u \in Work, SiteGrows(u) PROVE IInv'
  BY <1>6, SiteGrowsKeeps
<1>7. QED  BY <1>1, <1>2, <1>3, <1>4, <1>5, <1>6 DEF Next

\* The inductive invariant: callbacks hold database_parser_mutex_ between the
\* read and the write of a row, so their copy of it is current
\* (BlackLibrary.cc, ProgressUpdateCallback and UpdateDatabaseWithResult).
THEOREM LibraryInvariant == Spec => []IInv
BY InvariantInit, InvariantStep, PTL DEF Spec

\* Every table, thread and callback of the library run has its type: a copy
\* that is written back is a row, and an entry is a section of a known work.
THEOREM LibraryTypeCorrect == Spec => []TypeOK
BY LibraryInvariant, PTL DEF IInv

LEMMA InvariantGivesUpdates == IInv => NoUpdateLost
BY DEF IInv, NoUpdateLost, Reported

\* While no callback is under way a work's row holds the furthest section any
\* callback reported and the last_url of its last result, however the pool's
\* threads and the manager thread called back (BlackLibrary.cc), for any works,
\* sections, failures and deaths of the process.
THEOREM NoUpdateIsLost == Spec => []NoUpdateLost
BY LibraryInvariant, InvariantGivesUpdates, PTL

LEMMA InvariantGivesCounted == IInv => StoredIsCounted
<1> SUFFICES ASSUME IInv, NEW u \in Work, NEW n \in md5_sum[u],
                    ~(n <= work_entry[u].series_length)
             PROVE  n \in Reporting(u) \cup orphaned[u]
  BY DEF StoredIsCounted
<1>1. n \in Unreported(u) \cup orphaned[u]
  BY DEF IInv, Counted
<1>2. Unreported(u) \subseteq Reporting(u)
  BY DEF Unreported, Reporting
<1>3. QED  BY <1>1, <1>2

\* A section whose md5_sum row is written (IndexEntryParser::ParseSection) is
\* within the series_length of its work, or its parse is about to report it,
\* or the process died in between.
THEOREM StoredSectionsAreCounted == Spec => []StoredIsCounted
BY LibraryInvariant, InvariantGivesCounted, PTL
=============================================================================
