----------------------- MODULE ParserPipelineProofs -----------------------
(***************************************************************************)
(* For every set of works and workers, every pool size and every number of *)
(* jobs: ParserPipeline is type correct, keeps at most one job per key in  *)
(* flight and tracks it; it implements JobLifecycle, so no job is lost or  *)
(* reported twice and the board only moves forward; and when Stop has      *)
(* returned no task runs, nor is a future let go before its task returns.  *)
(***************************************************************************)
EXTENDS ParserPipeline, SequenceTheorems, FiniteSetTheorems, TLAPS

----------------------------------------------------------------------------
(* Sequences: what the queue operations do to the set of elements.          *)

\* Appending a new element keeps a sequence free of duplicates.
LEMMA AppendElements ==
  ASSUME NEW S, NEW s \in Seq(S), NEW x \in S
  PROVE  /\ Append(s, x) \in Seq(S)
         /\ ToSet(Append(s, x)) = ToSet(s) \cup {x}
         /\ IsInjective(s) /\ x \notin ToSet(s) => IsInjective(Append(s, x))
<1>1. /\ Append(s, x) \in Seq(S)
      /\ DOMAIN Append(s, x) = 1..(Len(s) + 1)
      /\ DOMAIN s = 1..Len(s)
      /\ \A i \in 1..Len(s) : Append(s, x)[i] = s[i]
      /\ Append(s, x)[Len(s) + 1] = x
      /\ Len(s) \in Nat
  BY AppendProperties, LenProperties
<1>2. ToSet(Append(s, x)) = ToSet(s) \cup {x}
  BY <1>1 DEF ToSet
<1>3. IsInjective(s) /\ x \notin ToSet(s) => IsInjective(Append(s, x))
  BY <1>1 DEF ToSet, IsInjective
<1>4. QED  BY <1>1, <1>2, <1>3

\* Popping the head of a sequence without duplicates removes just it.
LEMMA TailElements ==
  ASSUME NEW S, NEW s \in Seq(S), s # <<>>
  PROVE  /\ Tail(s) \in Seq(S)
         /\ Head(s) \in S
         /\ Head(s) \in ToSet(s)
         /\ ToSet(Tail(s)) \subseteq ToSet(s)
         /\ IsInjective(s) => /\ IsInjective(Tail(s))
                              /\ Head(s) \notin ToSet(Tail(s))
<1>1. /\ Tail(s) \in Seq(S)
      /\ Len(s) \in Nat \ {0}
      /\ DOMAIN s = 1..Len(s)
      /\ DOMAIN Tail(s) = 1..(Len(s) - 1)
      /\ \A i \in 1..(Len(s) - 1) : Tail(s)[i] = s[i + 1]
      /\ Head(s) = s[1]
      /\ Head(s) \in S
  BY HeadTailProperties, LenProperties, EmptySeq
<1>2. Head(s) \in ToSet(s)
  BY <1>1 DEF ToSet
<1>3. ToSet(Tail(s)) \subseteq ToSet(s)
  BY <1>1 DEF ToSet
<1>4. ASSUME IsInjective(s)
      PROVE  IsInjective(Tail(s)) /\ Head(s) \notin ToSet(Tail(s))
  BY <1>1, <1>4 DEF ToSet, IsInjective
<1>5. QED  BY <1>1, <1>2, <1>3, <1>4

\* Erasing one position shifts what follows it down by one.
LEMMA RemoveAtElements ==
  ASSUME NEW S, NEW s \in Seq(S), NEW p \in DOMAIN s
  PROVE  /\ RemoveAt(s, p) \in Seq(S)
         /\ Len(RemoveAt(s, p)) = Len(s) - 1
         /\ DOMAIN RemoveAt(s, p) = 1..(Len(s) - 1)
         /\ \A i \in 1..(Len(s) - 1) :
              RemoveAt(s, p)[i] = IF i < p THEN s[i] ELSE s[i + 1]
<1> DEFINE a == SubSeq(s, 1, p - 1)
           b == SubSeq(s, p + 1, Len(s))
<1>1. p \in 1..Len(s) /\ Len(s) \in Nat
  BY LenProperties
<1>2. /\ a \in Seq(S) /\ Len(a) = p - 1
      /\ \A i \in 1..(p - 1) : a[i] = s[i]
  BY <1>1, SubSeqProperties
<1>3. /\ b \in Seq(S) /\ Len(b) = Len(s) - p
      /\ \A i \in 1..(Len(s) - p) : b[i] = s[p + i]
  BY <1>1, SubSeqProperties
<1>4. RemoveAt(s, p) = a \o b
  BY DEF RemoveAt
<1> HIDE DEF a, b
<1>5. /\ a \o b \in Seq(S)
      /\ Len(a \o b) = Len(s) - 1
      /\ \A i \in 1..(Len(s) - 1) :
           (a \o b)[i] = IF i < p THEN s[i] ELSE s[i + 1]
  BY <1>1, <1>2, <1>3, ConcatProperties
<1>6. QED  BY <1>4, <1>5, LenProperties

\* Replacing the element at one position.
LEMMA UpdateElements ==
  ASSUME NEW S, NEW s \in Seq(S), NEW p \in DOMAIN s, NEW x \in S
  PROVE  /\ [s EXCEPT ![p] = x] \in Seq(S)
         /\ DOMAIN [s EXCEPT ![p] = x] = DOMAIN s
         /\ Len([s EXCEPT ![p] = x]) = Len(s)
  BY ExceptSeq

\* A future's task.
LEMMA TaskOfFuture ==
  ASSUME pool_results \in [Worker -> Seq(Task)],
         NEW w \in Worker, NEW i \in DOMAIN pool_results[w]
  PROVE  pool_results[w][i] \in Task
<1>1. pool_results[w] \in Seq(Task)
  OBVIOUS
<1>2. i \in 1..Len(pool_results[w])
  BY <1>1, LenProperties
<1>3. QED  BY <1>1, <1>2, ElementOfSeq

\* The same for one worker's futures: a task action changes one task only.
LEMMA UpdateTask ==
  ASSUME pool_results \in [Worker -> Seq(Task)],
         NEW w \in Worker, NEW i \in DOMAIN pool_results[w], NEW task \in Task,
         Update(w, i, task)
  PROVE  /\ pool_results' \in [Worker -> Seq(Task)]
         /\ \A v \in Worker : DOMAIN pool_results'[v] = DOMAIN pool_results[v]
         /\ pool_results'[w][i] = task
         /\ \A v \in Worker : \A j \in DOMAIN pool_results[v] :
              v # w \/ j # i => pool_results'[v][j] = pool_results[v][j]
<1>1. /\ pool_results[w] \in Seq(Task)
      /\ [pool_results[w] EXCEPT ![i] = task] \in Seq(Task)
      /\ DOMAIN [pool_results[w] EXCEPT ![i] = task] = DOMAIN pool_results[w]
  BY UpdateElements
<1>2. pool_results' = [pool_results EXCEPT ![w] =
                         [pool_results[w] EXCEPT ![i] = task]]
  BY DEF Update
<1>3. QED  BY <1>1, <1>2

----------------------------------------------------------------------------
(* Type correctness.                                                        *)

LEMMA TypeInit == Init => TypeOK
<1> SUFFICES ASSUME Init PROVE TypeOK
  OBVIOUS
<1>1. <<>> \in Seq(Key) /\ <<>> \in Seq(Task)
  BY EmptySeq
<1>2. /\ app \in [at : {"idle"}, key : {NoKey}]
      /\ adds \in 0..MaxAddJobs
  BY PipelineAssumption DEF Init
<1>3. /\ manager \in ManagerRecord
      /\ manager.at = "loop"
  BY DEF Init, ManagerRecord, ManagerStep
<1>4. /\ current_jobs \in [Key -> Status]
      /\ accepted \in [Key -> Nat]
      /\ reported \in [Key -> Nat]
  BY DEF Init, Status
<1>5. /\ worker_queue \in [Worker -> Seq(Key)]
      /\ pool_results \in [Worker -> Seq(Task)]
      /\ pool_erases \in [Worker -> SUBSET (Nat \ {0})]
      /\ \A w \in Worker : pool_erases[w] \subseteq DOMAIN pool_results[w]
      /\ worker_done \in [Worker -> BOOLEAN]
  BY <1>1 DEF Init
<1>6. QED
  BY <1>1, <1>2, <1>3, <1>4, <1>5 DEF Init, TypeOK

LEMMA TypeMain == TypeOK /\ Main => TypeOK'
<1> SUFFICES ASSUME TypeOK, Main PROVE TypeOK'
  OBVIOUS
<1> USE PipelineAssumption
<1>1. ASSUME NEW k \in Key, AddJobCheck(k) PROVE TypeOK'
  BY <1>1 DEF TypeOK, AddJobCheck, workerVars, historyVars, NoKey
<1>2. CASE AddJobEmplace
  <2>1. app.key \in Key /\ app' \in [at : {"push"}, key : Key]
    BY <1>2 DEF TypeOK, AddJobEmplace
  <2>2. /\ current_jobs' \in [Key -> Status]
        /\ accepted' \in [Key -> Nat]
    BY <1>2, <2>1 DEF TypeOK, AddJobEmplace, Status
  <2>3. QED  BY <1>2, <2>1, <2>2 DEF TypeOK, AddJobEmplace, workerVars
<1>3. CASE AddJobPush
  <2>1. app.key \in Key /\ app' \in [at : {"idle"}, key : {NoKey}]
    BY <1>3 DEF TypeOK, AddJobPush
  <2>2. job_queue' \in Seq(Key)
    BY <1>3, <2>1, AppendElements DEF TypeOK, AddJobPush
  <2>3. QED  BY <1>3, <2>1, <2>2
             DEF TypeOK, AddJobPush, workerVars, historyVars
<1>4. CASE LibraryStop
  BY <1>4 DEF TypeOK, LibraryStop, workerVars, historyVars, appVars
<1>5. QED  BY <1>1, <1>2, <1>3, <1>4 DEF Main

LEMMA TypeManager == TypeOK /\ Manager => TypeOK'
<1> SUFFICES ASSUME TypeOK, Manager PROVE TypeOK'
  OBVIOUS
<1> USE PipelineAssumption
    DEF At, ManagerStep, ManagerRecord, appVars, workerVars, historyVars
<1>1. CASE LoopHead
  BY <1>1 DEF TypeOK, LoopHead
<1>2. CASE RouteJob
  <2> DEFINE k == Head(job_queue)
             w == WorkerOf[k[1]]
  <2>1. k \in Key /\ job_queue' \in Seq(Key)
    BY <1>2, TailElements DEF TypeOK, RouteJob
  <2>2. w \in Worker \cup {NoWorker}
    BY <2>1 DEF Key
  <2>3. current_jobs' \in [Key -> Status]
    BY <1>2, <2>1 DEF TypeOK, RouteJob, FindAndReplace, Status
  <2>4. worker_queue' \in [Worker -> Seq(Key)]
    <3>1. CASE w = NoWorker
      BY <1>2, <3>1 DEF TypeOK, RouteJob
    <3>2. CASE w \in Worker
      <4>1. Append(worker_queue[w], k) \in Seq(Key)
        BY <2>1, <3>2, AppendElements DEF TypeOK
      <4>2. worker_queue' = [worker_queue EXCEPT ![w] = Append(worker_queue[w], k)]
        BY <1>2, <3>2 DEF RouteJob
      <4>3. QED  BY <3>2, <4>1, <4>2 DEF TypeOK
    <3>3. QED  BY <2>2, <3>1, <3>2
  <2>5. QED  BY <1>2, <2>1, <2>3, <2>4 DEF TypeOK, RouteJob
<1>3. CASE JobsDrained
  BY <1>3 DEF TypeOK, JobsDrained
<1>4. ASSUME NEW w \in Worker, VisitWorker(w) PROVE TypeOK'
  <2>1. /\ manager' \in ManagerRecord
        /\ manager'.at = "scan"
        /\ manager'.w \in Worker
    <3>1. manager \in ManagerRecord
      BY DEF TypeOK
    <3>2. manager' = [manager EXCEPT !.at = "scan", !.w = w, !.pos = 1,
                                     !.todo = manager.todo \ {w}]
      BY <1>4, <3>1 DEF VisitWorker
    <3>3. /\ manager.todo \ {w} \in SUBSET Worker
          /\ w \in Worker \cup {NoWorker}
          /\ 1 \in Nat \ {0}
          /\ manager.key \in Key \cup {NoKey}
      BY <3>1 DEF ManagerRecord
    <3>4. QED  BY <3>1, <3>2, <3>3 DEF ManagerRecord
  <2>2. /\ pool_erases' \in [Worker -> SUBSET (Nat \ {0})]
        /\ \A v \in Worker : pool_erases'[v] \subseteq DOMAIN pool_results[v]
    BY <1>4 DEF TypeOK, VisitWorker
  <2>3. QED  BY <1>4, <2>1, <2>2 DEF TypeOK, VisitWorker
<1>5. ASSUME NEW w \in Worker, StopWorker(w) PROVE TypeOK'
  <2>1. /\ manager' \in ManagerRecord
        /\ manager'.at = "wait"
        /\ manager'.w \in Worker
    <3>1. manager \in ManagerRecord
      BY DEF TypeOK
    <3>2. manager' = [manager EXCEPT !.at = "wait", !.w = w, !.pos = 1,
                                     !.todo = manager.todo \ {w}]
      BY <1>5, <3>1 DEF StopWorker
    <3>3. /\ manager.todo \ {w} \in SUBSET Worker
          /\ w \in Worker \cup {NoWorker}
          /\ 1 \in Nat \ {0}
          /\ manager.key \in Key \cup {NoKey}
      BY <3>1 DEF ManagerRecord
    <3>4. QED  BY <3>1, <3>2, <3>3 DEF ManagerRecord
  <2>2. worker_done' \in [Worker -> BOOLEAN]
    BY <1>5 DEF TypeOK, StopWorker
  <2>3. QED  BY <1>5, <2>1, <2>2 DEF TypeOK, StopWorker
<1>6. CASE WorkersVisited
  BY <1>6 DEF TypeOK, WorkersVisited
<1>7. CASE ScanFuture
  <2> DEFINE w == manager.w
             i == manager.pos
  <2>1. w \in Worker /\ i \in DOMAIN pool_results[w] /\ i \in Nat \ {0}
    BY <1>7 DEF TypeOK, ScanFuture, ScanTurn
  <2>2. pool_results[w][i].key \in Key
    BY <2>1, TaskOfFuture DEF TypeOK, Task
  <2>3. result_queue' \in Seq(Key)
    BY <1>7, <2>2, AppendElements DEF TypeOK, ScanFuture, ScanTurn
  <2>4. /\ pool_erases' \in [Worker -> SUBSET (Nat \ {0})]
        /\ \A v \in Worker : pool_erases'[v] \subseteq DOMAIN pool_results[v]
    BY <1>7, <2>1 DEF TypeOK, ScanFuture, ScanTurn
  <2>5. /\ manager' \in ManagerRecord
        /\ manager'.at = "scan"
        /\ manager'.w = w
    <3>1. manager \in ManagerRecord
      BY DEF TypeOK
    <3>2. /\ manager' = [manager EXCEPT !.pos = i + 1]
          /\ manager.at = "scan"
      BY <1>7 DEF ScanFuture, ScanTurn
    <3>3. QED  BY <2>1, <3>1, <3>2 DEF ManagerRecord
  <2>6. QED  BY <1>7, <2>1, <2>3, <2>4, <2>5
             DEF TypeOK, ScanFuture, ScanTurn
<1>8. CASE ScanEnd
  BY <1>8 DEF TypeOK, ScanEnd
<1>9. CASE EraseFuture
  <2> DEFINE w == manager.w
  <2>1. PICK p \in pool_erases[w] :
          /\ TopErase(w, p)
          /\ pool_results' = [pool_results EXCEPT ![w] = RemoveAt(@, p)]
          /\ pool_erases' = [pool_erases EXCEPT ![w] = @ \ {p}]
    BY <1>9 DEF EraseFuture
  <2>2. w \in Worker /\ p \in DOMAIN pool_results[w]
    BY <1>9, <2>1 DEF TypeOK, EraseFuture
  <2>3. /\ RemoveAt(pool_results[w], p) \in Seq(Task)
        /\ DOMAIN RemoveAt(pool_results[w], p) = 1..(Len(pool_results[w]) - 1)
        /\ DOMAIN pool_results[w] = 1..Len(pool_results[w])
        /\ Len(pool_results[w]) \in Nat
    BY <2>2, RemoveAtElements, LenProperties DEF TypeOK
  <2>4. pool_erases[w] \ {p} \subseteq DOMAIN RemoveAt(pool_results[w], p)
    <3>1. pool_erases[w] \subseteq 1..Len(pool_results[w])
      BY <2>2, <2>3 DEF TypeOK
    <3>2. \A j \in pool_erases[w] : j <= p
      BY <2>1 DEF TopErase
    <3>3. QED  BY <2>1, <2>3, <3>1, <3>2
  <2>5. /\ pool_results' \in [Worker -> Seq(Task)]
        /\ pool_erases' \in [Worker -> SUBSET (Nat \ {0})]
        /\ \A v \in Worker : pool_erases'[v] \subseteq DOMAIN pool_results'[v]
    BY <2>1, <2>2, <2>3, <2>4 DEF TypeOK
  <2>6. QED  BY <1>9, <2>5 DEF TypeOK, EraseFuture
<1>10. CASE StartJob
  <2> DEFINE w == manager.w
             k == Head(worker_queue[w])
  <2>1. w \in Worker
    BY <1>10 DEF TypeOK, StartJob
  <2>2. CASE worker_queue[w] = <<>>
    BY <1>10, <2>2 DEF TypeOK, StartJob
  <2>3. CASE worker_queue[w] # <<>>
    <3>1. k \in Key /\ Tail(worker_queue[w]) \in Seq(Key)
      BY <2>1, <2>3, TailElements DEF TypeOK
    <3>2. NewTask(k) \in Task
      BY <3>1 DEF NewTask, Task, Phase
    <3>3. /\ Append(pool_results[w], NewTask(k)) \in Seq(Task)
          /\ DOMAIN pool_results[w] \subseteq
               DOMAIN Append(pool_results[w], NewTask(k))
      BY <2>1, <3>2, AppendProperties, LenProperties DEF TypeOK
    <3>4. /\ worker_queue' = [worker_queue EXCEPT ![w] = Tail(worker_queue[w])]
          /\ pool_results' = [pool_results EXCEPT
               ![w] = Append(pool_results[w], NewTask(k))]
      BY <1>10, <2>3 DEF StartJob
    <3>5. /\ worker_queue' \in [Worker -> Seq(Key)]
          /\ pool_results' \in [Worker -> Seq(Task)]
          /\ \A v \in Worker : pool_erases[v] \subseteq DOMAIN pool_results'[v]
      BY <2>1, <3>1, <3>3, <3>4 DEF TypeOK
    <3>6. QED  BY <1>10, <3>5 DEF TypeOK, StartJob
  <2>4. QED  BY <2>2, <2>3
<1>11. CASE PopResult
  <2>1. Head(result_queue) \in Key /\ Tail(result_queue) \in Seq(Key)
    BY <1>11, TailElements DEF TypeOK, PopResult
  <2>2. current_jobs' \in [Key -> Status]
    BY <1>11, <2>1 DEF TypeOK, PopResult, Status
  <2>3. QED  BY <1>11, <2>1, <2>2 DEF TypeOK, PopResult
<1>12. CASE ReportResult
  <2>1. reported' \in [Key -> Nat]
    BY <1>12 DEF TypeOK, ReportResult
  <2>2. QED  BY <1>12, <2>1 DEF TypeOK, ReportResult
<1>13. CASE ResultsDrained
  BY <1>13 DEF TypeOK, ResultsDrained
<1>14. CASE WaitFuture
  <2>1. manager \in ManagerRecord
    BY DEF TypeOK
  <2>2. \/ manager' = [manager EXCEPT !.pos = manager.pos + 1]
        \/ manager' = [manager EXCEPT !.at = "stop"]
    BY <1>14 DEF WaitFuture
  <2>3. /\ manager' \in ManagerRecord
        /\ manager'.at \in {"stop", manager.at}
        /\ manager'.w = manager.w
    BY <2>1, <2>2 DEF ManagerRecord
  <2>4. QED  BY <1>14, <2>3 DEF TypeOK, WaitFuture
<1>15. CASE ManagerStopped
  BY <1>15 DEF TypeOK, ManagerStopped
<1>16. QED
  BY <1>1, <1>2, <1>3, <1>4, <1>5, <1>6, <1>7, <1>8, <1>9, <1>10, <1>11,
     <1>12, <1>13, <1>14, <1>15 DEF Manager

\* A task action keeps the type: it replaces one task by another.
LEMMA TypePool == TypeOK /\ Pool => TypeOK'
<1> SUFFICES ASSUME TypeOK,
                    NEW w \in Worker, NEW i \in DOMAIN pool_results[w],
                    TaskAction(w, i)
             PROVE  TypeOK'
  BY DEF Pool
<1>1. pool_results[w][i] \in Task
  BY TaskOfFuture DEF TypeOK
<1>2. /\ OnlyTasks
      /\ current_jobs' \in [Key -> Status]
      /\ \E task \in Task : Update(w, i, task)
  <2>1. CASE TakeTask(w, i)
    BY <1>1, <2>1 DEF TypeOK, TakeTask, Task, Phase
  <2>2. CASE SetupFails(w, i)
    BY <1>1, <2>2 DEF TypeOK, SetupFails, Task, Phase
  <2>3. CASE StartWorking(w, i)
    BY <1>1, <2>3 DEF TypeOK, StartWorking, FindAndReplace, Task, Phase, Status
  <2>4. CASE BeginParse(w, i)
    BY <1>1, <2>4 DEF TypeOK, BeginParse, Task, Phase
  <2>5. CASE ParseFails(w, i)
    BY <1>1, <2>5 DEF TypeOK, ParseFails, FindAndReplace, Task, Phase, Status
  <2>6. CASE ParseEnds(w, i)
    BY <1>1, <2>6 DEF TypeOK, ParseEnds, FindAndReplace, Task, Phase, Status
  <2>7. CASE WatcherStops(w, i)
    BY <1>1, <2>7 DEF TypeOK, WatcherStops, Task
  <2>8. CASE TaskReturns(w, i)
    BY <1>1, <2>8 DEF TypeOK, TaskReturns, Task, Phase
  <2>9. QED
    BY <2>1, <2>2, <2>3, <2>4, <2>5, <2>6, <2>7, <2>8 DEF TaskAction
<1>3. /\ pool_results' \in [Worker -> Seq(Task)]
      /\ \A v \in Worker : DOMAIN pool_results'[v] = DOMAIN pool_results[v]
  BY <1>2, UpdateTask DEF TypeOK
<1>4. QED
  BY <1>2, <1>3 DEF TypeOK, OnlyTasks, appVars, historyVars

\* Every step of every thread keeps the state well typed.
LEMMA TypeNext == TypeOK /\ [Next]_vars => TypeOK'
<1> SUFFICES ASSUME TypeOK, [Next]_vars PROVE TypeOK'
  OBVIOUS
<1>1. CASE UNCHANGED vars
  BY <1>1 DEF TypeOK, vars, appVars, workerVars, historyVars
<1>2. CASE Terminated
  BY <1>2 DEF Terminated, TypeOK, vars, appVars, workerVars, historyVars
<1>3. QED
  BY <1>1, <1>2, TypeMain, TypeManager, TypePool DEF Next

\* The state stays well typed, and no mark for erasing points past the end
\* of a worker's futures.
THEOREM PipelineTypeOK == Spec => []TypeOK
<1>1. QED  BY TypeInit, TypeNext, PTL DEF Spec

----------------------------------------------------------------------------
(* At most one job of a key in flight, where the board says it is.          *)

\* The conjuncts of IInv that a step could break, beside the types.
Kept == /\ AtMostOneInFlight
        /\ BoardMatchesStage
        /\ AddingIsAbsent
        /\ ResultsAreSettled

LEMMA InvInit == Init => IInv
<1> SUFFICES ASSUME Init PROVE IInv
  OBVIOUS
<1>1. TypeOK
  BY TypeInit
<1>2. ToSet(<<>>) = {} /\ IsInjective(<<>>)
  BY DEF ToSet, IsInjective
<1>3. \A w \in Worker : /\ worker_queue[w] = <<>>
                        /\ pool_results[w] = <<>>
                        /\ pool_erases[w] = {}
  BY DEF Init
<1>4. AtMostOneInFlight
  BY <1>2, <1>3 DEF Init, AtMostOneInFlight, NoDuplicate, OnePlace, Added,
     InJobQueue, InWorkerQueue, InPool, InResults, Live
<1>5. BoardMatchesStage
  BY <1>2, <1>3 DEF Init, BoardMatchesStage, Added, InJobQueue,
     InWorkerQueue, InResults, Live
<1>6. AddingIsAbsent /\ MarksArePassed /\ ResultsAreSettled
  BY <1>3 DEF Init, AddingIsAbsent, MarksArePassed, ResultsAreSettled
<1>7. QED  BY <1>1, <1>4, <1>5, <1>6 DEF IInv

\* A step that moves no job and changes no status.
LEMMA Frame ==
  ASSUME IInv,
         UNCHANGED <<app, current_jobs, job_queue, result_queue,
                     worker_queue, pool_results, pool_erases>>
  PROVE  Kept'
BY DEF IInv, Kept, AtMostOneInFlight, NoDuplicate, OnePlace,
   BoardMatchesStage, AddingIsAbsent, ResultsAreSettled, Added, InJobQueue,
   InWorkerQueue, InPool, InResults, Live

LEMMA InvMain == IInv /\ Main => Kept' /\ MarksArePassed'
<1> SUFFICES ASSUME IInv, Main PROVE Kept' /\ MarksArePassed'
  OBVIOUS
<1> USE DEF workerVars, historyVars, appVars
<1>0. /\ TypeOK /\ NoDuplicate /\ OnePlace /\ BoardMatchesStage
      /\ AddingIsAbsent /\ MarksArePassed /\ ResultsAreSettled
  BY DEF IInv, AtMostOneInFlight
<1>1. ASSUME NEW k \in Key, AddJobCheck(k) PROVE Kept' /\ MarksArePassed'
  <2>1. \A j \in Key : /\ ~Added(j) /\ ~Added(j)'
                       /\ InJobQueue(j)' = InJobQueue(j)
                       /\ InResults(j)' = InResults(j)
                       /\ \A w \in Worker :
                            /\ InWorkerQueue(w, j)' = InWorkerQueue(w, j)
                            /\ InPool(w, j)' = InPool(w, j)
    BY <1>1 DEF AddJobCheck, Added, InJobQueue, InWorkerQueue, InPool,
       InResults, Live
  <2>2. NoDuplicate' /\ OnePlace'
    BY <1>0, <1>1, <2>1 DEF AddJobCheck, NoDuplicate, OnePlace, Live
  <2>3. BoardMatchesStage'
    BY <1>0, <1>1, <2>1 DEF AddJobCheck, BoardMatchesStage, Live
  <2>4. AddingIsAbsent'
    BY <1>0, <1>1 DEF AddJobCheck, AddingIsAbsent
  <2>5. ResultsAreSettled' /\ MarksArePassed'
    BY <1>0, <1>1 DEF AddJobCheck, ResultsAreSettled, MarksArePassed
  <2>6. QED  BY <2>2, <2>3, <2>4, <2>5 DEF Kept, AtMostOneInFlight
<1>2. CASE AddJobEmplace
  <2> DEFINE k == app.key
  <2>1. /\ k \in Key
        /\ current_jobs[k] = "NONE"
        /\ current_jobs' = [current_jobs EXCEPT ![k] = "JOB_MANAGER_QUEUED"]
        /\ app' = [app EXCEPT !.at = "push"]
    BY <1>0, <1>2 DEF AddJobEmplace, AddingIsAbsent, TypeOK
  <2>2. /\ app'.at = "push" /\ app'.key = k
    BY <1>0, <2>1 DEF TypeOK
  <2>3. \A j \in Key : /\ ~Added(j)
                       /\ Added(j)' <=> j = k
                       /\ InJobQueue(j)' = InJobQueue(j)
                       /\ InResults(j)' = InResults(j)
                       /\ \A w \in Worker :
                            /\ InWorkerQueue(w, j)' = InWorkerQueue(w, j)
                            /\ InPool(w, j)' = InPool(w, j)
    BY <1>2, <2>2 DEF AddJobEmplace, Added, InJobQueue, InWorkerQueue, InPool,
       InResults, Live
  <2>4. /\ ~InJobQueue(k) /\ ~InResults(k)
        /\ \A w \in Worker : ~InWorkerQueue(w, k) /\ ~InPool(w, k)
    BY <1>0, <2>1 DEF BoardMatchesStage, InPool, TaskStatus
  <2>5. NoDuplicate' /\ OnePlace'
    BY <1>0, <1>2, <2>3, <2>4 DEF AddJobEmplace, NoDuplicate, OnePlace, Live
  <2>6. BoardMatchesStage'
    <3>1. \A j \in Key \ {k} : current_jobs'[j] = current_jobs[j]
      BY <1>0, <2>1 DEF TypeOK
    <3>2. current_jobs'[k] = "JOB_MANAGER_QUEUED"
      BY <1>0, <2>1 DEF TypeOK
    <3>3. \A w \in Worker : \A i \in Live(w) : pool_results[w][i].key # k
      BY <2>4 DEF InPool
    <3>4. UNCHANGED <<pool_results, pool_erases>>
      BY <1>2 DEF AddJobEmplace
    <3>5. QED  BY <1>0, <2>3, <2>4, <3>1, <3>2, <3>3, <3>4
               DEF BoardMatchesStage, Live
  <2>7. AddingIsAbsent'
    BY <2>2 DEF AddingIsAbsent
  <2>8. ResultsAreSettled' /\ MarksArePassed'
    BY <1>0, <1>2 DEF AddJobEmplace, ResultsAreSettled, MarksArePassed
  <2>9. QED  BY <2>5, <2>6, <2>7, <2>8 DEF Kept, AtMostOneInFlight
<1>3. CASE AddJobPush
  <2> DEFINE k == app.key
  <2>1. /\ k \in Key /\ app.at = "push" /\ Added(k)
        /\ job_queue' = Append(job_queue, k)
        /\ app'.at = "idle"
    BY <1>0, <1>3 DEF AddJobPush, Added, TypeOK
  <2>2. /\ ToSet(job_queue') = ToSet(job_queue) \cup {k}
        /\ k \notin ToSet(job_queue) /\ IsInjective(job_queue)
             => IsInjective(job_queue')
    BY <1>0, <2>1, AppendElements DEF TypeOK
  <2>3. \A j \in Key : /\ Added(j) <=> j = k
                       /\ ~Added(j)'
                       /\ InJobQueue(j)' <=> InJobQueue(j) \/ j = k
                       /\ InResults(j)' = InResults(j)
                       /\ \A w \in Worker :
                            /\ InWorkerQueue(w, j)' = InWorkerQueue(w, j)
                            /\ InPool(w, j)' = InPool(w, j)
    BY <1>3, <2>1, <2>2 DEF AddJobPush, Added, InJobQueue, InWorkerQueue,
       InPool, InResults, Live
  <2>4. NoDuplicate'
    <3>1. k \notin ToSet(job_queue)
      BY <1>0, <2>1 DEF OnePlace, InJobQueue
    <3>2. QED  BY <1>0, <1>3, <2>2, <3>1 DEF AddJobPush, NoDuplicate, Live
  <2>5. OnePlace'
    BY <1>0, <2>1, <2>3 DEF OnePlace
  <2>6. BoardMatchesStage'
    BY <1>0, <1>3, <2>1, <2>3 DEF AddJobPush, BoardMatchesStage, Live
  <2>7. AddingIsAbsent' /\ ResultsAreSettled' /\ MarksArePassed'
    BY <1>0, <1>3, <2>1
       DEF AddJobPush, AddingIsAbsent, ResultsAreSettled, MarksArePassed
  <2>8. QED  BY <2>4, <2>5, <2>6, <2>7 DEF Kept, AtMostOneInFlight
<1>4. CASE LibraryStop
  BY <1>0, <1>4, Frame DEF LibraryStop, MarksArePassed
<1>5. QED  BY <1>1, <1>2, <1>3, <1>4 DEF Main

\* While no worker is being run, no future is marked.
LEMMA NoMarks ==
  ASSUME MarksArePassed, manager.at \notin {"scan", "erase"}
  PROVE  \A w \in Worker : pool_erases[w] = {}
BY DEF MarksArePassed

\* A step of the manager thread that only moves the thread.
LEMMA ManagerMoves ==
  ASSUME IInv,
         UNCHANGED <<app, current_jobs, job_queue, result_queue,
                     worker_queue, pool_results, pool_erases>>,
         manager.at \notin {"scan", "erase"}
  PROVE  Kept' /\ MarksArePassed'
<1>1. Kept'
  BY Frame
<1>2. \A w \in Worker : pool_erases'[w] = {}
  BY NoMarks DEF IInv
<1>3. QED  BY <1>1, <1>2 DEF MarksArePassed

LEMMA InvRouteJob == IInv /\ RouteJob => Kept' /\ MarksArePassed'
<1> SUFFICES ASSUME IInv, RouteJob PROVE Kept' /\ MarksArePassed'
  OBVIOUS
<1> DEFINE k == Head(job_queue)
           w == WorkerOf[k[1]]
<1>0. /\ TypeOK /\ NoDuplicate /\ OnePlace /\ BoardMatchesStage
      /\ AddingIsAbsent /\ MarksArePassed /\ ResultsAreSettled
  BY DEF IInv, AtMostOneInFlight
<1>1. /\ job_queue # <<>> /\ job_queue' = Tail(job_queue)
      /\ app' = app /\ result_queue' = result_queue
      /\ pool_results' = pool_results /\ pool_erases' = pool_erases
      /\ manager' = manager /\ manager.at = "jobs"
  BY DEF RouteJob, appVars
<1>2. /\ k \in Key /\ InJobQueue(k)
      /\ ToSet(job_queue') \subseteq ToSet(job_queue)
      /\ k \notin ToSet(job_queue') /\ IsInjective(job_queue')
  BY <1>0, <1>1, TailElements DEF TypeOK, InJobQueue, NoDuplicate
<1>3. /\ ~Added(k) /\ ~InResults(k)
      /\ \A v \in Worker : ~InWorkerQueue(v, k) /\ ~InPool(v, k)
      /\ current_jobs[k] = "JOB_MANAGER_QUEUED"
  BY <1>0, <1>2 DEF OnePlace, BoardMatchesStage
<1>4. \A j \in Key : /\ Added(j)' = Added(j)
                     /\ InJobQueue(j)' => InJobQueue(j) /\ j # k
                     /\ InResults(j)' = InResults(j)
                     /\ \A v \in Worker : InPool(v, j)' = InPool(v, j)
  BY <1>1, <1>2 DEF Added, InJobQueue, InPool, InResults, Live
<1>5. ResultsAreSettled' /\ MarksArePassed'
  BY <1>0, <1>1 DEF ResultsAreSettled, MarksArePassed
<1>6. CASE w = NoWorker
  <2>1. UNCHANGED <<current_jobs, worker_queue>>
    BY <1>6 DEF RouteJob
  <2>2. NoDuplicate' /\ OnePlace'
    BY <1>0, <1>1, <1>2, <1>4, <2>1
       DEF NoDuplicate, OnePlace, Live, InWorkerQueue
  <2>3. BoardMatchesStage'
    BY <1>0, <1>1, <1>4, <2>1 DEF BoardMatchesStage, InWorkerQueue, Live
  <2>4. AddingIsAbsent'
    BY <1>0, <1>1, <2>1 DEF AddingIsAbsent
  <2>5. QED  BY <1>5, <2>2, <2>3, <2>4 DEF Kept, AtMostOneInFlight
<1>7. CASE w # NoWorker
  <2>1. /\ w \in Worker
        /\ current_jobs' = [current_jobs EXCEPT ![k] = "JOB_WORKER_QUEUED"]
        /\ worker_queue' =
             [worker_queue EXCEPT ![w] = Append(worker_queue[w], k)]
    <3>1. k[1] \in Uuid
      BY <1>2 DEF Key
    <3>2. QED  BY <1>3, <1>7, <3>1, PipelineAssumption
               DEF RouteJob, FindAndReplace
  <2>2. /\ worker_queue[w] \in Seq(Key)
        /\ k \notin ToSet(worker_queue[w])
    BY <1>0, <1>3, <2>1 DEF TypeOK, InWorkerQueue
  <2>3. /\ ToSet(worker_queue'[w]) = ToSet(worker_queue[w]) \cup {k}
        /\ IsInjective(worker_queue'[w])
        /\ \A v \in Worker \ {w} : worker_queue'[v] = worker_queue[v]
    <3>1. worker_queue \in [Worker -> Seq(Key)] /\ IsInjective(worker_queue[w])
      BY <1>0, <2>1 DEF TypeOK, NoDuplicate
    <3>2. /\ worker_queue'[w] = Append(worker_queue[w], k)
          /\ \A v \in Worker \ {w} : worker_queue'[v] = worker_queue[v]
      BY <2>1, <3>1
    <3>3. /\ ToSet(Append(worker_queue[w], k)) = ToSet(worker_queue[w]) \cup {k}
          /\ IsInjective(Append(worker_queue[w], k))
      BY <1>2, <2>2, <3>1, AppendElements
    <3>4. QED  BY <3>2, <3>3
  <2>4. \A j \in Key : \A v \in Worker :
          InWorkerQueue(v, j)' <=> InWorkerQueue(v, j) \/ (v = w /\ j = k)
    BY <2>1, <2>3 DEF InWorkerQueue
  <2>5. NoDuplicate'
    BY <1>0, <1>1, <1>2, <2>3 DEF NoDuplicate, Live
  <2>6. OnePlace'
    BY <1>0, <1>3, <1>4, <2>4 DEF OnePlace
  <2>7. /\ current_jobs'[k] = "JOB_WORKER_QUEUED"
        /\ \A j \in Key \ {k} : current_jobs'[j] = current_jobs[j]
    BY <1>0, <1>2, <2>1 DEF TypeOK
  <2>8. BoardMatchesStage'
    <3>1. \A v \in Worker : \A i \in Live(v) : pool_results[v][i].key # k
      BY <1>3 DEF InPool
    <3>2. QED  BY <1>0, <1>1, <1>3, <1>4, <2>4, <2>7, <3>1
               DEF BoardMatchesStage, Live
  <2>9. AddingIsAbsent'
    BY <1>0, <1>1, <1>3, <2>1 DEF AddingIsAbsent, TypeOK
  <2>10. QED  BY <1>5, <2>5, <2>6, <2>8, <2>9 DEF Kept, AtMostOneInFlight
<1>8. QED  BY <1>6, <1>7

LEMMA InvScanFuture == IInv /\ ScanFuture => Kept' /\ MarksArePassed'
<1> SUFFICES ASSUME IInv, ScanFuture,
                    NEW w, w = manager.w, NEW i, i = manager.pos,
                    NEW task, task = pool_results[w][i],
                    NEW k, k = task.key
             PROVE  Kept' /\ MarksArePassed'
  OBVIOUS
<1>0. /\ TypeOK /\ NoDuplicate /\ OnePlace /\ BoardMatchesStage
      /\ AddingIsAbsent /\ MarksArePassed /\ ResultsAreSettled
  BY DEF IInv, AtMostOneInFlight
<1>1. /\ manager.at = "scan" /\ i \in DOMAIN pool_results[w]
      /\ manager' = [manager EXCEPT !.pos = i + 1]
      /\ app' = app /\ current_jobs' = current_jobs
      /\ job_queue' = job_queue /\ worker_queue' = worker_queue
      /\ pool_results' = pool_results
  BY DEF ScanFuture, ScanTurn, appVars
<1>2. w \in Worker /\ i \in Nat \ {0} /\ task \in Task /\ k \in Key
  <2>1. w \in Worker /\ i \in Nat \ {0}
    BY <1>0, <1>1 DEF TypeOK, ManagerRecord
  <2>2. task \in Task
    BY <1>0, <1>1, <2>1, TaskOfFuture DEF TypeOK
  <2>3. QED  BY <2>1, <2>2 DEF Task
<1>3. manager'.at = "scan" /\ manager'.w = w /\ manager'.pos = i + 1
  <2>1. manager \in ManagerRecord
    BY <1>0 DEF TypeOK
  <2>2. QED  BY <1>1, <2>1 DEF ManagerRecord
<1>4. /\ \A v \in Worker : \A j \in pool_erases[v] :
           v = w /\ j < i /\ pool_results[v][j].phase = "ready"
      /\ \A v \in Worker : pool_erases[v] \subseteq Nat
  BY <1>0, <1>1 DEF MarksArePassed, TypeOK
<1>5. i \in Live(w)
  BY <1>1, <1>2, <1>4 DEF Live
<1>6. CASE task.phase # "ready"
  <2>1. pool_erases' = pool_erases /\ result_queue' = result_queue
    BY <1>6 DEF ScanFuture, ScanTurn, IsReady, Scanned
  <2>2. MarksArePassed'
    BY <1>1, <1>2, <1>3, <1>4, <2>1 DEF MarksArePassed
  <2>3. QED  BY <1>1, <2>1, <2>2, Frame
<1>7. CASE task.phase = "ready"
  <2>1. pool_erases' = [pool_erases EXCEPT ![w] = pool_erases[w] \cup {i}]
    BY <1>7 DEF ScanFuture, ScanTurn, IsReady, Scanned
  <2>2. /\ Live(w)' = Live(w) \ {i}
        /\ \A v \in Worker \ {w} : Live(v)' = Live(v)
    BY <1>0, <1>1, <1>2, <2>1 DEF Live, TypeOK
  <2>3. /\ \A v \in Worker : \A j \in Key : InPool(v, j)' => InPool(v, j)
        /\ ~InPool(w, k)' /\ InPool(w, k)
    <3>1. \A v \in Worker : Live(v)' \subseteq Live(v)
      BY <2>2
    <3>2. \A v \in Worker : \A j \in Key : InPool(v, j)' => InPool(v, j)
      BY <1>1, <3>1 DEF InPool
    <3>3. InPool(w, k)
      BY <1>5 DEF InPool
    <3>4. \A j \in Live(w) : pool_results[w][j].key = k => j = i
      BY <1>0, <1>2, <1>5 DEF NoDuplicate
    <3>5. ~InPool(w, k)'
      BY <1>1, <2>2, <3>4 DEF InPool
    <3>6. QED  BY <3>2, <3>3, <3>5
  <2>4. /\ ~Added(k) /\ ~InJobQueue(k) /\ ~InResults(k)
        /\ \A v \in Worker : ~InWorkerQueue(v, k) /\ ~InPool(v, k)'
    <3>1. /\ ~Added(k) /\ ~InJobQueue(k) /\ ~InResults(k)
          /\ w = WorkerOf[k[1]]
      BY <1>0, <1>2, <2>3 DEF OnePlace
    <3>2. ASSUME NEW v \in Worker PROVE ~InWorkerQueue(v, k)
      <4>1. InWorkerQueue(v, k) => v = WorkerOf[k[1]] /\ ~InPool(v, k)
        BY <1>0, <1>2 DEF OnePlace
      <4>2. QED  BY <2>3, <3>1, <4>1
    <3>3. ASSUME NEW v \in Worker PROVE ~InPool(v, k)'
      <4>1. CASE v = w
        BY <2>3, <4>1
      <4>2. CASE v # w
        BY <1>0, <1>2, <2>3, <3>1, <4>2 DEF OnePlace
      <4>3. QED  BY <4>1, <4>2
    <3>4. QED  BY <3>1, <3>2, <3>3
  <2>5. MarksArePassed'
    <3> SUFFICES ASSUME NEW v \in Worker, NEW j \in pool_erases'[v]
                 PROVE  /\ v = w /\ j < i + 1
                        /\ pool_results[v][j].phase = "ready"
      BY <1>1, <1>3 DEF MarksArePassed
    <3>1. pool_erases \in [Worker -> SUBSET (Nat \ {0})]
      BY <1>0 DEF TypeOK
    <3>2. j \in pool_erases[v] \/ (v = w /\ j = i)
      BY <1>2, <2>1, <3>1
    <3>3. QED  BY <1>2, <1>4, <1>7, <3>1, <3>2
  <2>6. ResultsAreSettled' /\ AddingIsAbsent'
    BY <1>0, <1>1 DEF ResultsAreSettled, AddingIsAbsent
  <2>7. \A j \in Key : /\ Added(j)' = Added(j)
                       /\ InJobQueue(j)' = InJobQueue(j)
                       /\ \A v \in Worker :
                            InWorkerQueue(v, j)' = InWorkerQueue(v, j)
    BY <1>1 DEF Added, InJobQueue, InWorkerQueue
  <2>8. \A v \in Worker : /\ IsInjective(worker_queue'[v])
                          /\ \A a, b \in Live(v)' :
                               pool_results'[v][a].key = pool_results'[v][b].key
                                 => a = b
    BY <1>0, <1>1, <2>2 DEF NoDuplicate
  <2>9. CASE task.has_error
    <3>1. result_queue' = result_queue
      BY <1>7, <2>9 DEF ScanFuture, ScanTurn, IsReady, Scanned
    <3>2. NoDuplicate'
      BY <1>0, <1>1, <2>8, <3>1 DEF NoDuplicate
    <3>3. OnePlace'
      BY <1>0, <2>3, <2>7, <3>1 DEF OnePlace, InResults
    <3>4. BoardMatchesStage'
      BY <1>0, <1>1, <2>2, <2>7, <3>1 DEF BoardMatchesStage, InResults
    <3>5. QED  BY <2>5, <2>6, <3>2, <3>3, <3>4 DEF Kept, AtMostOneInFlight
  <2>10. CASE ~task.has_error
    <3>1. result_queue' = Append(result_queue, k)
      BY <1>7, <2>10 DEF ScanFuture, ScanTurn, IsReady, Scanned
    <3>2. /\ ToSet(result_queue') = ToSet(result_queue) \cup {k}
          /\ IsInjective(result_queue')
      BY <1>0, <1>2, <2>4, <3>1, AppendElements
         DEF TypeOK, NoDuplicate, InResults
    <3>3. \A j \in Key : InResults(j)' <=> InResults(j) \/ j = k
      BY <3>2 DEF InResults
    <3>4. current_jobs[k] = "JOB_FINISHED"
      <4>1. current_jobs[k] \in TaskStatus(task)
        BY <1>0, <1>2, <1>5 DEF BoardMatchesStage
      <4>2. ~task.parser_error
        BY <1>0, <1>1, <1>2, <2>10 DEF ResultsAreSettled
      <4>3. QED  BY <1>7, <2>10, <4>1, <4>2 DEF TaskStatus
    <3>5. NoDuplicate'
      BY <1>0, <1>1, <2>8, <3>2 DEF NoDuplicate
    <3>6. OnePlace'
      <4> SUFFICES ASSUME NEW j \in Key
                   PROVE  /\ Added(j)' => ~InJobQueue(j)' /\ ~InResults(j)'
                          /\ InJobQueue(j)' => ~InResults(j)'
                          /\ \A v \in Worker :
                               /\ InWorkerQueue(v, j)' =>
                                    /\ v = WorkerOf[j[1]]
                                    /\ ~Added(j)' /\ ~InJobQueue(j)'
                                    /\ ~InResults(j)' /\ ~InPool(v, j)'
                               /\ InPool(v, j)' =>
                                    /\ v = WorkerOf[j[1]]
                                    /\ ~Added(j)' /\ ~InJobQueue(j)'
                                    /\ ~InResults(j)'
        BY DEF OnePlace
      <4>1. CASE j = k
        BY <2>4, <2>7, <4>1, <1>2
      <4>2. CASE j # k
        BY <1>0, <2>3, <2>7, <3>3, <4>2 DEF OnePlace
      <4>3. QED  BY <4>1, <4>2
    <3>7. BoardMatchesStage'
      BY <1>0, <1>1, <2>2, <2>7, <3>3, <3>4 DEF BoardMatchesStage
    <3>8. QED  BY <2>5, <2>6, <3>5, <3>6, <3>7 DEF Kept, AtMostOneInFlight
  <2>11. QED  BY <2>9, <2>10
<1>8. QED  BY <1>6, <1>7

\* A step that takes jobs out of places and puts none in keeps OnePlace.
LEMMA FewerPlaces ==
  ASSUME OnePlace,
         \A k \in Key :
           /\ Added(k)' => Added(k)
           /\ InJobQueue(k)' => InJobQueue(k)
           /\ InResults(k)' => InResults(k)
           /\ \A w \in Worker : /\ InWorkerQueue(w, k)' => InWorkerQueue(w, k)
                                /\ InPool(w, k)' => InPool(w, k)
  PROVE  OnePlace'
BY DEF OnePlace

\* Erasing the last marked future moves every future behind it down by one,
\* and the remaining marks, which are before it, stay right.
LEMMA InvEraseFuture == IInv /\ EraseFuture => Kept' /\ MarksArePassed'
<1> SUFFICES ASSUME IInv, EraseFuture, NEW w, w = manager.w
             PROVE  Kept' /\ MarksArePassed'
  OBVIOUS
<1>0. /\ TypeOK /\ NoDuplicate /\ OnePlace /\ BoardMatchesStage
      /\ AddingIsAbsent /\ MarksArePassed /\ ResultsAreSettled
  BY DEF IInv, AtMostOneInFlight
<1>1. PICK p \in pool_erases[w] :
        /\ TopErase(w, p)
        /\ pool_results' = [pool_results EXCEPT ![w] =
                              RemoveAt(pool_results[w], p)]
        /\ pool_erases' = [pool_erases EXCEPT ![w] = pool_erases[w] \ {p}]
  BY DEF EraseFuture
<1>2. /\ manager.at = "erase" /\ manager' = manager
      /\ app' = app /\ current_jobs' = current_jobs
      /\ job_queue' = job_queue /\ worker_queue' = worker_queue
      /\ result_queue' = result_queue
  BY DEF EraseFuture, appVars
<1>3. /\ w \in Worker /\ pool_results[w] \in Seq(Task)
      /\ p \in DOMAIN pool_results[w]
      /\ pool_erases[w] \subseteq DOMAIN pool_results[w]
  BY <1>0, <1>1, <1>2 DEF TypeOK
<1> DEFINE n == Len(pool_results[w])
           from(j) == IF j < p THEN j ELSE j + 1
<1>4. /\ n \in Nat /\ DOMAIN pool_results[w] = 1..n
      /\ DOMAIN pool_results'[w] = 1..(n - 1)
      /\ \A j \in 1..(n - 1) : pool_results'[w][j] = pool_results[w][from(j)]
      /\ \A v \in Worker \ {w} : pool_results'[v] = pool_results[v]
  <2>1. /\ n \in Nat /\ DOMAIN pool_results[w] = 1..n
        /\ DOMAIN RemoveAt(pool_results[w], p) = 1..(n - 1)
        /\ \A j \in 1..(n - 1) :
             RemoveAt(pool_results[w], p)[j] = pool_results[w][from(j)]
    <3>1. n \in Nat /\ DOMAIN pool_results[w] = 1..n
      BY <1>3, LenProperties
    <3>2. /\ DOMAIN RemoveAt(pool_results[w], p) = 1..(n - 1)
          /\ \A j \in 1..(n - 1) : RemoveAt(pool_results[w], p)[j]
               = IF j < p THEN pool_results[w][j] ELSE pool_results[w][j + 1]
      BY <1>3, RemoveAtElements
    <3>3. QED  BY <3>1, <3>2
  <2>2. DOMAIN pool_results = Worker
    BY <1>0 DEF TypeOK
  <2>3. /\ pool_results'[w] = RemoveAt(pool_results[w], p)
        /\ \A v \in Worker \ {w} : pool_results'[v] = pool_results[v]
    BY <1>1, <1>3, <2>2
  <2> HIDE DEF n, from
  <2>4. QED  BY <2>1, <2>3
<1>5. /\ \A j \in pool_erases[w] : j <= p
      /\ pool_erases'[w] = pool_erases[w] \ {p}
      /\ \A v \in Worker \ {w} : pool_erases'[v] = pool_erases[v]
      /\ p \in 1..n /\ pool_erases[w] \subseteq 1..n
  BY <1>0, <1>1, <1>3, <1>4 DEF TopErase, TypeOK
<1>6. \A j \in 1..(n - 1) : from(j) \in 1..n /\ from(j) # p
  BY <1>4, <1>5
<1>7. \A j \in Live(w)' : j \in 1..(n - 1) /\ from(j) \in Live(w)
  BY <1>4, <1>5, <1>6 DEF Live
<1>8. \A v \in Worker \ {w} : Live(v)' = Live(v)
  BY <1>4, <1>5 DEF Live
<1>9. \A a, b \in 1..(n - 1) : from(a) = from(b) => a = b
  BY <1>4, <1>5
<1> HIDE DEF n, from
<1>10. \A v \in Worker : \A j \in Live(v)' : \E m \in Live(v) :
         pool_results'[v][j] = pool_results[v][m]
  BY <1>4, <1>7, <1>8
<1>11. NoDuplicate'
  <2>1. \A a, b \in Live(w)' :
          pool_results'[w][a].key = pool_results'[w][b].key => a = b
    <3>1. \A i, j \in Live(w) :
            pool_results[w][i].key = pool_results[w][j].key => i = j
      BY <1>0, <1>3 DEF NoDuplicate
    <3>2. \A j \in Live(w)' : /\ j \in 1..(n - 1) /\ from(j) \in Live(w)
                              /\ pool_results'[w][j] = pool_results[w][from(j)]
      BY <1>4, <1>7
    <3> HIDE DEF n, from
    <3>3. QED  BY <1>9, <3>1, <3>2
  <2>2. \A v \in Worker \ {w} : \A a, b \in Live(v)' :
          pool_results'[v][a].key = pool_results'[v][b].key => a = b
    BY <1>0, <1>4, <1>8 DEF NoDuplicate
  <2>3. QED  BY <1>0, <1>2, <2>1, <2>2 DEF NoDuplicate
<1>12. \A k \in Key :
           /\ Added(k)' = Added(k)
           /\ InJobQueue(k)' = InJobQueue(k)
           /\ InResults(k)' = InResults(k)
           /\ \A v \in Worker : /\ InWorkerQueue(v, k)' = InWorkerQueue(v, k)
                                /\ InPool(v, k)' => InPool(v, k)
  BY <1>2, <1>10 DEF Added, InJobQueue, InResults, InWorkerQueue, InPool
<1>13. OnePlace'
  BY <1>0, <1>12, FewerPlaces
<1>14. BoardMatchesStage'
  BY <1>0, <1>2, <1>10, <1>12 DEF BoardMatchesStage
<1>15. AddingIsAbsent'
  BY <1>0, <1>2 DEF AddingIsAbsent
<1>16. ResultsAreSettled'
  <2>1. \A v \in Worker : \A j \in DOMAIN pool_results'[v] :
          \E m \in DOMAIN pool_results[v] :
            pool_results'[v][j] = pool_results[v][m]
    BY <1>4, <1>6
  <2>2. QED  BY <1>0, <2>1 DEF ResultsAreSettled
<1>17. MarksArePassed'
  <2> SUFFICES ASSUME NEW v \in Worker, NEW j \in pool_erases'[v]
               PROVE  /\ v = w
                      /\ pool_results'[v][j].phase = "ready"
    BY <1>2 DEF MarksArePassed
  <2>1. v = w
    BY <1>0, <1>5 DEF MarksArePassed
  <2>2. /\ j \in pool_erases[w] /\ j < p /\ j \in 1..(n - 1)
        /\ pool_results[w][j].phase = "ready"
    BY <1>0, <1>3, <1>4, <1>5, <2>1 DEF MarksArePassed
  <2>3. from(j) = j
    BY <2>2 DEF from
  <2>4. QED  BY <1>4, <2>1, <2>2, <2>3
<1>18. QED  BY <1>11, <1>13, <1>14, <1>15, <1>16, <1>17
            DEF Kept, AtMostOneInFlight

LEMMA InvStartJob == IInv /\ StartJob => Kept' /\ MarksArePassed'
<1> SUFFICES ASSUME IInv, StartJob, NEW w, w = manager.w,
                    NEW k, k = Head(worker_queue[w])
             PROVE  Kept' /\ MarksArePassed'
  OBVIOUS
<1>0. /\ TypeOK /\ NoDuplicate /\ OnePlace /\ BoardMatchesStage
      /\ AddingIsAbsent /\ MarksArePassed /\ ResultsAreSettled
  BY DEF IInv, AtMostOneInFlight
<1>1. /\ w \in Worker /\ pool_erases' = pool_erases
      /\ app' = app /\ current_jobs' = current_jobs
      /\ job_queue' = job_queue /\ result_queue' = result_queue
      /\ pool_erases[w] = {}
  BY <1>0 DEF StartJob, appVars, TypeOK
<1>2. \A v \in Worker : pool_erases[v] = {}
  BY <1>0, <1>1 DEF MarksArePassed
<1>3. MarksArePassed'
  BY <1>1, <1>2 DEF MarksArePassed
<1>4. CASE worker_queue[w] = <<>>
  <2>1. UNCHANGED <<worker_queue, pool_results>>
    BY <1>4 DEF StartJob
  <2>2. QED  BY <1>1, <1>3, <2>1, Frame
<1>5. CASE worker_queue[w] # <<>>
  <2>1. /\ worker_queue' = [worker_queue EXCEPT ![w] = Tail(worker_queue[w])]
        /\ pool_results' = [pool_results EXCEPT
             ![w] = Append(pool_results[w], NewTask(k))]
    BY <1>5 DEF StartJob
  <2>2. /\ k \in Key /\ InWorkerQueue(w, k)
        /\ ToSet(worker_queue'[w]) \subseteq ToSet(worker_queue[w])
        /\ k \notin ToSet(worker_queue'[w])
        /\ IsInjective(worker_queue'[w])
        /\ \A v \in Worker \ {w} : worker_queue'[v] = worker_queue[v]
    <3>1. worker_queue \in [Worker -> Seq(Key)]
      BY <1>0 DEF TypeOK
    <3>2. worker_queue[w] \in Seq(Key) /\ worker_queue[w] # <<>>
      BY <1>1, <1>5, <3>1
    <3>3. IsInjective(worker_queue[w])
      BY <1>0, <1>1 DEF NoDuplicate
    <3>4. /\ worker_queue'[w] = Tail(worker_queue[w])
          /\ \A v \in Worker \ {w} : worker_queue'[v] = worker_queue[v]
      BY <1>1, <2>1, <3>1
    <3>5. QED  BY <3>2, <3>3, <3>4, TailElements DEF InWorkerQueue
  <2>3. /\ w = WorkerOf[k[1]]
        /\ ~Added(k) /\ ~InJobQueue(k) /\ ~InResults(k) /\ ~InPool(w, k)
        /\ current_jobs[k] = "JOB_WORKER_QUEUED"
    BY <1>0, <1>1, <2>2 DEF OnePlace, BoardMatchesStage
  <2> DEFINE n == Len(pool_results[w])
             r == pool_results'[w]
  <2>4. NewTask(k) \in Task
    BY <2>2 DEF NewTask, Task, Phase
  <2>5. /\ n \in Nat /\ DOMAIN pool_results[w] = 1..n
        /\ pool_results[w] \in Seq(Task)
    BY <1>0, <1>1, LenProperties DEF TypeOK
  <2>6. /\ DOMAIN Append(pool_results[w], NewTask(k)) = 1..(n + 1)
        /\ \A j \in 1..n : Append(pool_results[w], NewTask(k))[j]
                             = pool_results[w][j]
        /\ Append(pool_results[w], NewTask(k))[n + 1] = NewTask(k)
    BY <2>4, <2>5, AppendProperties, LenProperties
  <2>7. /\ DOMAIN pool_results'[w] = 1..(n + 1)
        /\ \A j \in 1..n : pool_results'[w][j] = pool_results[w][j]
        /\ pool_results'[w][n + 1] = NewTask(k)
        /\ \A v \in Worker \ {w} : pool_results'[v] = pool_results[v]
    BY <1>0, <1>1, <2>1, <2>6 DEF TypeOK
  <2> HIDE DEF n
  <2>8. /\ Live(w)' = Live(w) \cup {n + 1} /\ Live(w) = 1..n
        /\ \A v \in Worker \ {w} : Live(v)' = Live(v)
    BY <1>1, <1>2, <2>5, <2>7 DEF Live
  <2>9. /\ NewTask(k).key = k /\ NewTask(k).phase = "queued"
        /\ NewTask(k).has_error = TRUE /\ NewTask(k).parser_error = FALSE
    BY DEF NewTask
  <2>10. \A j \in Key : \A v \in Worker :
           /\ InPool(v, j)' <=> InPool(v, j) \/ (v = w /\ j = k)
           /\ InWorkerQueue(v, j)' => InWorkerQueue(v, j) /\ ~(v = w /\ j = k)
    <3>1. \A j \in Key : InPool(w, j)' <=> InPool(w, j) \/ j = k
      BY <2>7, <2>8, <2>9 DEF InPool
    <3>2. \A v \in Worker \ {w} : \A j \in Key : InPool(v, j)' = InPool(v, j)
      BY <2>7, <2>8 DEF InPool
    <3>3. \A j \in Key : \A v \in Worker :
            InWorkerQueue(v, j)' => InWorkerQueue(v, j) /\ ~(v = w /\ j = k)
      BY <2>2 DEF InWorkerQueue
    <3>4. QED  BY <3>1, <3>2, <3>3
  <2>11. \A j \in Key : /\ Added(j)' = Added(j)
                        /\ InJobQueue(j)' = InJobQueue(j)
                        /\ InResults(j)' = InResults(j)
    BY <1>1 DEF Added, InJobQueue, InResults
  <2>12. NoDuplicate'
    <3>1. \A i \in Live(w) : pool_results[w][i].key # k
      BY <2>3 DEF InPool
    <3>2. \A a, b \in Live(w)' :
            pool_results'[w][a].key = pool_results'[w][b].key => a = b
      <4> SUFFICES ASSUME NEW a \in Live(w)', NEW b \in Live(w)',
                          r[a].key = r[b].key
                   PROVE  a = b
        OBVIOUS
      <4>1. CASE a \in Live(w) /\ b \in Live(w)
        <5>1. r[a] = pool_results[w][a] /\ r[b] = pool_results[w][b]
          BY <2>7, <2>8, <4>1
        <5>2. QED  BY <1>0, <1>1, <4>1, <5>1 DEF NoDuplicate
      <4>2. CASE a = n + 1 /\ b \in Live(w)
        BY <2>7, <2>8, <2>9, <3>1, <4>2
      <4>3. CASE a \in Live(w) /\ b = n + 1
        BY <2>7, <2>8, <2>9, <3>1, <4>3
      <4>4. QED  BY <2>8, <4>1, <4>2, <4>3
    <3>3. \A v \in Worker \ {w} : \A a, b \in Live(v)' :
            pool_results'[v][a].key = pool_results'[v][b].key => a = b
      BY <1>0, <2>7, <2>8 DEF NoDuplicate
    <3>4. QED  BY <1>0, <1>1, <2>2, <3>2, <3>3 DEF NoDuplicate
  <2>13. OnePlace'
    <3> SUFFICES ASSUME NEW j \in Key
                 PROVE  /\ Added(j)' => ~InJobQueue(j)' /\ ~InResults(j)'
                        /\ InJobQueue(j)' => ~InResults(j)'
                        /\ \A v \in Worker :
                             /\ InWorkerQueue(v, j)' =>
                                  /\ v = WorkerOf[j[1]]
                                  /\ ~Added(j)' /\ ~InJobQueue(j)'
                                  /\ ~InResults(j)' /\ ~InPool(v, j)'
                             /\ InPool(v, j)' =>
                                  /\ v = WorkerOf[j[1]]
                                  /\ ~Added(j)' /\ ~InJobQueue(j)'
                                  /\ ~InResults(j)'
      BY DEF OnePlace
    <3>1. CASE j = k
      BY <1>0, <2>2, <2>3, <2>10, <2>11, <3>1 DEF OnePlace
    <3>2. CASE j # k
      BY <1>0, <2>10, <2>11, <3>2 DEF OnePlace
    <3>3. QED  BY <3>1, <3>2
  <2>14. BoardMatchesStage'
    <3>1. \A j \in Key : \A i \in Live(w)' : pool_results'[w][i].key = j =>
            current_jobs[j] \in TaskStatus(pool_results'[w][i])
      <4>1. current_jobs[k] \in TaskStatus(NewTask(k))
        BY <2>3, <2>9 DEF TaskStatus
      <4>2. \A i \in Live(w) : r[i] = pool_results[w][i]
        BY <2>7, <2>8
      <4>3. r[n + 1] = NewTask(k)
        BY <2>7
      <4>4. ASSUME NEW j \in Key, NEW i \in Live(w)', r[i].key = j
            PROVE  current_jobs[j] \in TaskStatus(r[i])
        <5>1. CASE i \in Live(w)
          BY <1>0, <1>1, <4>2, <4>4, <5>1 DEF BoardMatchesStage
        <5>2. CASE i = n + 1
          BY <2>9, <4>1, <4>3, <4>4, <5>2
        <5>3. QED  BY <2>8, <4>4, <5>1, <5>2
      <4>5. QED  BY <4>4
    <3>2. \A v \in Worker \ {w} : \A j \in Key : \A i \in Live(v)' :
            pool_results'[v][i].key = j =>
              current_jobs[j] \in TaskStatus(pool_results'[v][i])
      BY <1>0, <2>7, <2>8 DEF BoardMatchesStage
    <3>3. QED  BY <1>0, <1>1, <2>10, <2>11, <3>1, <3>2 DEF BoardMatchesStage
  <2>15. AddingIsAbsent'
    BY <1>0, <1>1 DEF AddingIsAbsent
  <2>16. ResultsAreSettled'
    <3>1. \A v \in Worker : \A i \in DOMAIN pool_results'[v] :
            \/ /\ i \in DOMAIN pool_results[v]
               /\ pool_results'[v][i] = pool_results[v][i]
            \/ pool_results'[v][i] = NewTask(k)
      BY <2>5, <2>7
    <3>2. QED  BY <1>0, <2>9, <3>1 DEF ResultsAreSettled
  <2>17. QED  BY <1>3, <2>12, <2>13, <2>14, <2>15, <2>16
              DEF Kept, AtMostOneInFlight
<1>6. QED  BY <1>4, <1>5

LEMMA InvPopResult == IInv /\ PopResult => Kept' /\ MarksArePassed'
<1> SUFFICES ASSUME IInv, PopResult, NEW k, k = Head(result_queue)
             PROVE  Kept' /\ MarksArePassed'
  OBVIOUS
<1>0. /\ TypeOK /\ NoDuplicate /\ OnePlace /\ BoardMatchesStage
      /\ AddingIsAbsent /\ MarksArePassed /\ ResultsAreSettled
  BY DEF IInv, AtMostOneInFlight
<1>1. /\ manager.at = "results" /\ result_queue # <<>>
      /\ result_queue' = Tail(result_queue)
      /\ current_jobs' = [current_jobs EXCEPT ![k] = "NONE"]
      /\ app' = app /\ job_queue' = job_queue
      /\ worker_queue' = worker_queue
      /\ pool_results' = pool_results /\ pool_erases' = pool_erases
  BY DEF PopResult, appVars, workerVars
<1>2. /\ k \in Key /\ InResults(k)
      /\ ToSet(result_queue') \subseteq ToSet(result_queue)
      /\ k \notin ToSet(result_queue') /\ IsInjective(result_queue')
  BY <1>0, <1>1, TailElements DEF TypeOK, InResults, NoDuplicate
<1>3. /\ ~Added(k) /\ ~InJobQueue(k)
      /\ \A w \in Worker : ~InWorkerQueue(w, k) /\ ~InPool(w, k)
  BY <1>0, <1>2 DEF OnePlace
<1>4. \A j \in Key : /\ Added(j)' = Added(j)
                     /\ InJobQueue(j)' = InJobQueue(j)
                     /\ InResults(j)' => InResults(j) /\ j # k
                     /\ \A w \in Worker :
                          /\ InWorkerQueue(w, j)' = InWorkerQueue(w, j)
                          /\ InPool(w, j)' = InPool(w, j)
  BY <1>1, <1>2 DEF Added, InJobQueue, InResults, InWorkerQueue, InPool, Live
<1>5. NoDuplicate'
  BY <1>0, <1>1, <1>2 DEF NoDuplicate, Live
<1>6. OnePlace'
  BY <1>0, <1>4, FewerPlaces
<1>7. /\ current_jobs'[k] = "NONE"
      /\ \A j \in Key \ {k} : current_jobs'[j] = current_jobs[j]
  BY <1>0, <1>1, <1>2 DEF TypeOK
<1>8. BoardMatchesStage'
  <2>1. \A w \in Worker : \A i \in Live(w) : pool_results[w][i].key # k
    BY <1>3 DEF InPool
  <2>2. QED  BY <1>0, <1>1, <1>3, <1>4, <1>7, <2>1 DEF BoardMatchesStage, Live
<1>9. AddingIsAbsent'
  BY <1>0, <1>1, <1>2 DEF AddingIsAbsent, TypeOK
<1>10. ResultsAreSettled' /\ MarksArePassed'
  <2>1. \A w \in Worker : pool_erases[w] = {}
    BY <1>0, <1>1, NoMarks
  <2>2. QED  BY <1>0, <1>1, <2>1 DEF ResultsAreSettled, MarksArePassed
<1>11. QED  BY <1>5, <1>6, <1>8, <1>9, <1>10 DEF Kept, AtMostOneInFlight

LEMMA InvManager == IInv /\ Manager => Kept' /\ MarksArePassed'
<1> SUFFICES ASSUME IInv, Manager PROVE Kept' /\ MarksArePassed'
  OBVIOUS
<1> USE DEF appVars, workerVars
<1>1. CASE LoopHead
  BY <1>1, ManagerMoves DEF LoopHead
<1>2. CASE JobsDrained
  BY <1>2, ManagerMoves DEF JobsDrained
<1>3. ASSUME NEW w \in Worker, VisitWorker(w) PROVE Kept' /\ MarksArePassed'
  <2>1. \A v \in Worker : pool_erases[v] = {}
    BY <1>3, NoMarks DEF IInv, VisitWorker
  <2>2. pool_erases' = pool_erases
    BY <1>3, <2>1 DEF IInv, TypeOK, VisitWorker
  <2>3. QED  BY <1>3, <2>2, ManagerMoves DEF VisitWorker
<1>4. ASSUME NEW w \in Worker, StopWorker(w) PROVE Kept' /\ MarksArePassed'
  BY <1>4, ManagerMoves DEF StopWorker
<1>5. CASE WorkersVisited
  BY <1>5, ManagerMoves DEF WorkersVisited
<1>6. CASE ScanEnd
  <2>1. manager' = [manager EXCEPT !.at = "erase"] /\ manager.at = "scan"
    BY <1>6 DEF ScanEnd, At
  <2>2. manager'.at = "erase" /\ manager'.w = manager.w
    BY <2>1 DEF IInv, TypeOK, ManagerRecord
  <2>3. MarksArePassed'
    BY <1>6, <2>2 DEF ScanEnd, IInv, MarksArePassed
  <2>4. QED  BY <1>6, <2>3, Frame DEF ScanEnd
<1>7. CASE ReportResult
  BY <1>7, ManagerMoves DEF ReportResult
<1>8. CASE ResultsDrained
  BY <1>8, ManagerMoves DEF ResultsDrained
<1>9. CASE WaitFuture
  BY <1>9, ManagerMoves DEF WaitFuture
<1>10. CASE ManagerStopped
  BY <1>10, ManagerMoves DEF ManagerStopped
<1>11. QED
  BY <1>1, <1>2, <1>3, <1>4, <1>5, <1>6, <1>7, <1>8, <1>9, <1>10,
     InvRouteJob, InvScanFuture, InvEraseFuture, InvStartJob, InvPopResult
     DEF Manager

\* A task moves no job: it keeps what is said of its key if the status on
\* the board is one of the task's new phase.
LEMMA TaskMoves ==
  ASSUME IInv, NEW w \in Worker, NEW i \in DOMAIN pool_results[w],
         NEW k \in Key, pool_results[w][i].key = k,
         NEW u \in Task, Update(w, i, u), OnlyTasks, u.key = k,
         u.parser_error => u.has_error,
         u.phase \in {"queued", "setup", "working", "parsing"}
           => u.has_error /\ ~u.parser_error,
         i \in pool_erases[w] => u.phase = "ready" /\ UNCHANGED current_jobs,
         i \in Live(w) => current_jobs'[k] \in TaskStatus(u),
         \A j \in Key \ {k} : current_jobs'[j] = current_jobs[j]
  PROVE  Kept' /\ MarksArePassed'
<1>0. /\ TypeOK /\ NoDuplicate /\ OnePlace /\ BoardMatchesStage
      /\ AddingIsAbsent /\ MarksArePassed /\ ResultsAreSettled
  BY DEF IInv, AtMostOneInFlight
<1>1. /\ app' = app /\ job_queue' = job_queue /\ worker_queue' = worker_queue
      /\ result_queue' = result_queue /\ pool_erases' = pool_erases
      /\ manager' = manager
  BY DEF OnlyTasks, appVars
<1>2. /\ \A v \in Worker : DOMAIN pool_results'[v] = DOMAIN pool_results[v]
      /\ pool_results'[w][i] = u
      /\ \A v \in Worker : \A j \in DOMAIN pool_results[v] :
           v # w \/ j # i => pool_results'[v][j] = pool_results[v][j]
  BY <1>0, UpdateTask DEF TypeOK
<1>3. \A v \in Worker : Live(v)' = Live(v)
  BY <1>1, <1>2 DEF Live
<1>4. \A v \in Worker : Live(v) \subseteq DOMAIN pool_results[v]
  BY DEF Live
<1>5. \A v \in Worker : \A j \in DOMAIN pool_results[v] :
        pool_results'[v][j].key = pool_results[v][j].key
  BY <1>2
<1>6. \A j \in Key : /\ Added(j)' = Added(j)
                     /\ InJobQueue(j)' = InJobQueue(j)
                     /\ InResults(j)' = InResults(j)
                     /\ \A v \in Worker :
                          /\ InWorkerQueue(v, j)' = InWorkerQueue(v, j)
                          /\ InPool(v, j)' = InPool(v, j)
  BY <1>1, <1>3, <1>4, <1>5
     DEF Added, InJobQueue, InResults, InWorkerQueue, InPool
<1>7. NoDuplicate'
  BY <1>0, <1>1, <1>3, <1>4, <1>5 DEF NoDuplicate
<1>8. OnePlace'
  BY <1>0, <1>6, FewerPlaces
<1>9. ResultsAreSettled'
  BY <1>0, <1>2 DEF ResultsAreSettled
<1>10. MarksArePassed'
  <2>1. \A v \in Worker : \A j \in pool_erases[v] :
          pool_results'[v][j].phase = "ready"
    <3> SUFFICES ASSUME NEW v \in Worker, NEW j \in pool_erases[v]
                 PROVE  pool_results'[v][j].phase = "ready"
      OBVIOUS
    <3>1. j \in DOMAIN pool_results[v] /\ pool_results[v][j].phase = "ready"
      BY <1>0 DEF MarksArePassed, TypeOK
    <3>2. CASE v = w /\ j = i
      BY <1>2, <3>2
    <3>3. CASE v # w \/ j # i
      BY <1>2, <3>1, <3>3
    <3>4. QED  BY <3>2, <3>3
  <2>2. QED  BY <1>0, <1>1, <2>1 DEF MarksArePassed
<1>11. CASE i \notin Live(w)
  <2>1. current_jobs' = current_jobs
    BY <1>11 DEF Live
  <2>2. \A v \in Worker : \A j \in Live(v) :
          pool_results'[v][j] = pool_results[v][j]
    BY <1>2, <1>4, <1>11
  <2>3. BoardMatchesStage'
    BY <1>0, <1>3, <1>6, <2>1, <2>2 DEF BoardMatchesStage
  <2>4. AddingIsAbsent'
    BY <1>0, <1>1, <2>1 DEF AddingIsAbsent
  <2>5. QED  BY <1>7, <1>8, <1>9, <1>10, <2>3, <2>4
             DEF Kept, AtMostOneInFlight
<1>12. CASE i \in Live(w)
  <2>1. /\ InPool(w, k) /\ w = WorkerOf[k[1]]
        /\ ~Added(k) /\ ~InJobQueue(k) /\ ~InResults(k)
        /\ \A v \in Worker : ~InWorkerQueue(v, k)
        /\ current_jobs[k] # "NONE"
    <3>1. InPool(w, k)
      BY <1>12 DEF InPool
    <3>2. /\ w = WorkerOf[k[1]]
          /\ ~Added(k) /\ ~InJobQueue(k) /\ ~InResults(k)
      BY <1>0, <3>1 DEF OnePlace
    <3>3. \A v \in Worker : ~InWorkerQueue(v, k)
      BY <1>0, <3>1, <3>2 DEF OnePlace
    <3>4. current_jobs[k] \in TaskStatus(pool_results[w][i])
      BY <1>0, <1>12 DEF BoardMatchesStage
    <3>5. current_jobs[k] # "NONE"
      BY <3>4 DEF TaskStatus
    <3>6. QED  BY <3>1, <3>2, <3>3, <3>5
  <2>2. \A v \in Worker : \A j \in Live(v) :
          v # w \/ j # i => pool_results[v][j].key # k
    <3>1. \A j \in Live(w) : j # i => pool_results[w][j].key # k
      BY <1>0, <1>12 DEF NoDuplicate
    <3>2. \A v \in Worker : InPool(v, k) => v = WorkerOf[k[1]]
      BY <1>0 DEF OnePlace
    <3>3. QED  BY <2>1, <3>1, <3>2 DEF InPool
  <2>3. BoardMatchesStage'
    <3>1. ASSUME NEW j \in Key, NEW v \in Worker, NEW m \in Live(v),
                 pool_results'[v][m].key = j
          PROVE  current_jobs'[j] \in TaskStatus(pool_results'[v][m])
      <4>1. CASE v = w /\ m = i
        BY <1>2, <1>12, <3>1, <4>1
      <4>2. CASE v # w \/ m # i
        <5>1. pool_results'[v][m] = pool_results[v][m]
          BY <1>2, <1>4, <4>2
        <5>2. j # k
          BY <2>2, <3>1, <4>2, <5>1
        <5>3. QED  BY <1>0, <3>1, <5>1, <5>2 DEF BoardMatchesStage
      <4>3. QED  BY <4>1, <4>2
    <3>2. ASSUME NEW j \in Key
          PROVE  /\ Added(j)' \/ InJobQueue(j)'
                      => current_jobs'[j] = "JOB_MANAGER_QUEUED"
                 /\ InResults(j)' => current_jobs'[j] = "JOB_FINISHED"
                 /\ \A v \in Worker : InWorkerQueue(v, j)'
                      => current_jobs'[j] = "JOB_WORKER_QUEUED"
      BY <1>0, <1>6, <2>1 DEF BoardMatchesStage
    <3>3. QED  BY <1>3, <3>1, <3>2 DEF BoardMatchesStage
  <2>4. AddingIsAbsent'
    BY <1>0, <1>1, <2>1 DEF AddingIsAbsent, TypeOK
  <2>5. QED  BY <1>7, <1>8, <1>9, <1>10, <2>3, <2>4
             DEF Kept, AtMostOneInFlight
<1>13. QED  BY <1>11, <1>12

LEMMA InvPool == IInv /\ Pool => Kept' /\ MarksArePassed'
<1> SUFFICES ASSUME IInv,
                    NEW w \in Worker, NEW i \in DOMAIN pool_results[w],
                    TaskAction(w, i),
                    NEW t, t = pool_results[w][i], NEW k, k = t.key
             PROVE  Kept' /\ MarksArePassed'
  BY DEF Pool
<1>0. /\ TypeOK /\ BoardMatchesStage /\ MarksArePassed /\ ResultsAreSettled
  BY DEF IInv
<1>1. t \in Task /\ k \in Key
  <2>1. t \in Task
    BY <1>0, TaskOfFuture DEF TypeOK
  <2>2. QED  BY <2>1 DEF Task
<1>2. /\ i \in pool_erases[w] => t.phase = "ready"
      /\ i \in Live(w) \/ i \in pool_erases[w]
  BY <1>0 DEF MarksArePassed, Live
<1>3. i \in Live(w) => current_jobs[k] \in TaskStatus(t)
  BY <1>0, <1>1 DEF BoardMatchesStage
<1>4. /\ t.parser_error => t.has_error
      /\ t.phase \in {"queued", "setup", "working", "parsing"}
             => t.has_error /\ ~t.parser_error
  BY <1>0 DEF ResultsAreSettled
<1>5. ASSUME NEW st \in Status, i \in Live(w), FindAndReplace(k, st)
      PROVE  /\ current_jobs'[k] = st
             /\ \A j \in Key \ {k} : current_jobs'[j] = current_jobs[j]
  <2>1. current_jobs[k] # "NONE"
    BY <1>3, <1>5 DEF TaskStatus
  <2>2. QED  BY <1>0, <1>1, <1>5, <2>1 DEF FindAndReplace, TypeOK
<1>6. CASE TakeTask(w, i)
  <2> DEFINE u == [t EXCEPT !.phase = IF worker_done[w] THEN "ready"
                                      ELSE "setup"]
  <2>1. /\ t.phase = "queued" /\ Update(w, i, u) /\ OnlyTasks
        /\ current_jobs' = current_jobs
    BY <1>6 DEF TakeTask
  <2>2. /\ u \in Task /\ u.key = k /\ u.phase \in {"ready", "setup"}
        /\ u.has_error = t.has_error /\ u.parser_error = t.parser_error
    BY <1>1 DEF Task, Phase
  <2> HIDE DEF u
  <2>3. i \in Live(w) /\ t.has_error /\ ~t.parser_error
    BY <1>2, <1>4, <2>1
  <2>4. current_jobs[k] \in TaskStatus(u)
    BY <1>3, <2>1, <2>2, <2>3 DEF TaskStatus
  <2>5. QED  BY <1>1, <1>2, <2>1, <2>2, <2>3, <2>4, TaskMoves
<1>7. CASE SetupFails(w, i)
  <2> DEFINE u == [t EXCEPT !.phase = "ready"]
  <2>1. /\ t.phase = "setup" /\ Update(w, i, u) /\ OnlyTasks
        /\ current_jobs' = current_jobs
    BY <1>7 DEF SetupFails
  <2>2. /\ u \in Task /\ u.key = k /\ u.phase = "ready"
        /\ u.has_error = t.has_error /\ u.parser_error = t.parser_error
    BY <1>1 DEF Task, Phase
  <2> HIDE DEF u
  <2>3. i \in Live(w) /\ t.has_error /\ ~t.parser_error
    BY <1>2, <1>4, <2>1
  <2>4. current_jobs[k] \in TaskStatus(u)
    BY <1>3, <2>1, <2>2, <2>3 DEF TaskStatus
  <2>5. QED  BY <1>1, <1>2, <2>1, <2>2, <2>3, <2>4, TaskMoves
<1>8. CASE StartWorking(w, i)
  <2> DEFINE u == [t EXCEPT !.phase = "working", !.watcher = "watching"]
  <2>1. /\ t.phase = "setup" /\ Update(w, i, u) /\ OnlyTasks
        /\ FindAndReplace(k, "JOB_WORKING")
    BY <1>8 DEF StartWorking
  <2>2. /\ u \in Task /\ u.key = k /\ u.phase = "working"
        /\ u.has_error = t.has_error /\ u.parser_error = t.parser_error
    BY <1>1 DEF Task, Phase
  <2> HIDE DEF u
  <2>3. i \in Live(w) /\ t.has_error /\ ~t.parser_error
    BY <1>2, <1>4, <2>1
  <2>4. /\ current_jobs'[k] = "JOB_WORKING"
        /\ \A j \in Key \ {k} : current_jobs'[j] = current_jobs[j]
    BY <1>5, <2>1, <2>3 DEF Status
  <2>5. current_jobs'[k] \in TaskStatus(u)
    BY <2>2, <2>3, <2>4 DEF TaskStatus
  <2>6. QED  BY <1>1, <1>2, <2>1, <2>2, <2>3, <2>4, <2>5, TaskMoves
<1>9. CASE BeginParse(w, i)
  <2> DEFINE u == [t EXCEPT !.phase = "parsing", !.stop = FALSE]
  <2>1. /\ t.phase = "working" /\ Update(w, i, u) /\ OnlyTasks
        /\ current_jobs' = current_jobs
    BY <1>9 DEF BeginParse
  <2>2. /\ u \in Task /\ u.key = k /\ u.phase = "parsing"
        /\ u.has_error = t.has_error /\ u.parser_error = t.parser_error
    BY <1>1 DEF Task, Phase
  <2> HIDE DEF u
  <2>3. i \in Live(w) /\ t.has_error /\ ~t.parser_error
    BY <1>2, <1>4, <2>1
  <2>4. current_jobs[k] \in TaskStatus(u)
    BY <1>3, <2>1, <2>2, <2>3 DEF TaskStatus
  <2>5. QED  BY <1>1, <1>2, <2>1, <2>2, <2>3, <2>4, TaskMoves
<1>10. CASE ParseFails(w, i)
  <2> DEFINE u == [t EXCEPT !.phase = "joining", !.parser_error = TRUE]
  <2>1. /\ t.phase = "parsing" /\ Update(w, i, u) /\ OnlyTasks
        /\ FindAndReplace(k, "JOB_ERROR")
    BY <1>10 DEF ParseFails
  <2>2. /\ u \in Task /\ u.key = k /\ u.phase = "joining"
        /\ u.has_error = t.has_error /\ u.parser_error
    BY <1>1 DEF Task, Phase
  <2> HIDE DEF u
  <2>3. i \in Live(w) /\ t.has_error
    BY <1>2, <1>4, <2>1
  <2>4. /\ current_jobs'[k] = "JOB_ERROR"
        /\ \A j \in Key \ {k} : current_jobs'[j] = current_jobs[j]
    BY <1>5, <2>1, <2>3 DEF Status
  <2>5. current_jobs'[k] \in TaskStatus(u)
    BY <2>2, <2>3, <2>4 DEF TaskStatus
  <2>6. QED  BY <1>1, <1>2, <2>1, <2>2, <2>3, <2>4, <2>5, TaskMoves
<1>11. CASE ParseEnds(w, i)
  <2> DEFINE u == [t EXCEPT !.phase = "joining", !.stop = TRUE,
                            !.has_error = FALSE]
  <2>1. /\ t.phase = "parsing" /\ Update(w, i, u) /\ OnlyTasks
        /\ FindAndReplace(k, "JOB_FINISHED")
    BY <1>11 DEF ParseEnds
  <2>2. /\ u \in Task /\ u.key = k /\ u.phase = "joining"
        /\ ~u.has_error /\ u.parser_error = t.parser_error
    BY <1>1 DEF Task, Phase
  <2> HIDE DEF u
  <2>3. i \in Live(w) /\ ~t.parser_error
    BY <1>2, <1>4, <2>1
  <2>4. /\ current_jobs'[k] = "JOB_FINISHED"
        /\ \A j \in Key \ {k} : current_jobs'[j] = current_jobs[j]
    BY <1>5, <2>1, <2>3 DEF Status
  <2>5. current_jobs'[k] \in TaskStatus(u)
    BY <2>2, <2>3, <2>4 DEF TaskStatus
  <2>6. QED  BY <1>1, <1>2, <2>1, <2>2, <2>3, <2>4, <2>5, TaskMoves
<1>12. CASE WatcherStops(w, i)
  <2> DEFINE u == [t EXCEPT !.watcher = "ended", !.stop = TRUE]
  <2>1. /\ Update(w, i, u) /\ OnlyTasks
        /\ current_jobs' = current_jobs
    BY <1>12 DEF WatcherStops
  <2>2. /\ u \in Task /\ u.key = k /\ u.phase = t.phase
        /\ u.has_error = t.has_error /\ u.parser_error = t.parser_error
    BY <1>1 DEF Task
  <2> HIDE DEF u
  <2>3. i \in Live(w) => current_jobs[k] \in TaskStatus(u)
    BY <1>3, <2>2 DEF TaskStatus
  <2>4. QED  BY <1>1, <1>2, <1>4, <2>1, <2>2, <2>3, TaskMoves
<1>13. CASE TaskReturns(w, i)
  <2> DEFINE u == [t EXCEPT !.phase = "ready"]
  <2>1. /\ t.phase = "joining" /\ Update(w, i, u) /\ OnlyTasks
        /\ current_jobs' = current_jobs
    BY <1>13 DEF TaskReturns
  <2>2. /\ u \in Task /\ u.key = k /\ u.phase = "ready"
        /\ u.has_error = t.has_error /\ u.parser_error = t.parser_error
    BY <1>1 DEF Task, Phase
  <2> HIDE DEF u
  <2>3. i \in Live(w) => current_jobs[k] \in TaskStatus(u)
    BY <1>3, <2>1, <2>2 DEF TaskStatus
  <2>4. QED  BY <1>1, <1>2, <1>4, <2>1, <2>2, <2>3, TaskMoves
<1>14. QED
  BY <1>6, <1>7, <1>8, <1>9, <1>10, <1>11, <1>12, <1>13 DEF TaskAction

LEMMA InvNext == IInv /\ [Next]_vars => IInv'
<1> SUFFICES ASSUME IInv, [Next]_vars PROVE IInv'
  OBVIOUS
<1>1. TypeOK'
  BY TypeNext DEF IInv
<1>2. CASE UNCHANGED vars
  <2>1. Kept'
    BY <1>2, Frame DEF vars, appVars, workerVars
  <2>2. MarksArePassed'
    BY <1>2 DEF vars, workerVars, IInv, MarksArePassed
  <2>3. QED  BY <1>1, <2>1, <2>2 DEF IInv, Kept
<1>3. CASE Next
  <2>1. Kept' /\ MarksArePassed'
    <3>1. CASE Terminated
      <4>1. Kept'
        BY <3>1, Frame DEF Terminated, vars, appVars, workerVars
      <4>2. MarksArePassed'
        BY <3>1 DEF Terminated, vars, workerVars, IInv, MarksArePassed
      <4>3. QED  BY <4>1, <4>2
    <3>2. QED  BY <1>3, <3>1, InvMain, InvManager, InvPool DEF Next
  <2>2. QED  BY <1>1, <2>1 DEF IInv, Kept
<1>4. QED  BY <1>2, <1>3

\* The strengthening the safety theorems rest on: where a job is, what the
\* board says of it and which futures are marked agree at every step.
THEOREM PipelineInvariant == Spec => []IInv
<1>1. QED  BY InvInit, InvNext, PTL DEF Spec

\* One job of a (uuid, is_error_job) pair is in the pipeline, in one place.
THEOREM PipelineAtMostOneInFlight == Spec => []AtMostOneInFlight
<1>1. IInv => AtMostOneInFlight
  BY DEF IInv
<1>2. QED  BY <1>1, PipelineInvariant, PTL

\* The status on the board is the stage the job is at.
THEOREM PipelineBoardMatchesStage == Spec => []BoardMatchesStage
<1>1. IInv => BoardMatchesStage
  BY DEF IInv
<1>2. QED  BY <1>1, PipelineInvariant, PTL

\* What is in flight is on the board, so AddJob refuses a second job for it.
THEOREM PipelineInFlightIsOnBoard == Spec => []InFlightIsOnBoard
<1>1. IInv => InFlightIsOnBoard
  <2> SUFFICES ASSUME BoardMatchesStage, NEW k \in Key, InFlight(k)
               PROVE  current_jobs[k] # "NONE"
    BY DEF IInv, InFlightIsOnBoard
  <2>1. CASE Added(k) \/ InJobQueue(k) \/ InResults(k)
    BY <2>1 DEF BoardMatchesStage
  <2>2. ASSUME NEW w \in Worker, InWorkerQueue(w, k)
        PROVE  current_jobs[k] # "NONE"
    BY <2>2 DEF BoardMatchesStage
  <2>3. ASSUME NEW w \in Worker, InPool(w, k)
        PROVE  current_jobs[k] # "NONE"
    <3>1. PICK i \in Live(w) : pool_results[w][i].key = k
      BY <2>3 DEF InPool
    <3>2. current_jobs[k] \in TaskStatus(pool_results[w][i])
      BY <3>1 DEF BoardMatchesStage
    <3>3. QED  BY <3>2 DEF TaskStatus
  <2>4. QED  BY <2>1, <2>2, <2>3 DEF InFlight
<1>2. QED  BY <1>1, PipelineInvariant, PTL

----------------------------------------------------------------------------
(* Conservation of jobs.                                                    *)

\* What a job counts for: one while its key is on the board, one while its
\* result is with the manager thread.
LEMMA Counted ==
  ASSUME NEW k \in Key
  PROVE  /\ Outstanding(k) \in Nat
         /\ current_jobs[k] # "NONE" /\ manager.at # "report"
              => Outstanding(k) = 1
         /\ current_jobs[k] = "NONE" /\ manager.at # "report"
              => Outstanding(k) = 0
BY DEF Outstanding

\* A step that neither adds a key to the board, nor takes one off, nor
\* touches a result the manager thread holds.
LEMMA SameCount ==
  ASSUME EachJobReportedOnce,
         UNCHANGED <<accepted, reported>>,
         manager' = manager
           \/ (manager.at # "report" /\ manager'.at # "report"),
         \A k \in Key : current_jobs'[k] = "NONE" <=> current_jobs[k] = "NONE"
  PROVE  EachJobReportedOnce'
BY DEF EachJobReportedOnce, Outstanding

LEMMA CountInit == Init => EachJobReportedOnce
<1> SUFFICES ASSUME Init, NEW k \in Key
             PROVE  accepted[k] = reported[k] + Outstanding(k)
  BY DEF EachJobReportedOnce
<1>1. /\ accepted[k] = 0 /\ reported[k] = 0 /\ current_jobs[k] = "NONE"
      /\ manager.at = "loop"
  BY DEF Init
<1>2. QED  BY <1>1, Counted

\* find_and_replace neither adds a key nor removes one.
LEMMA ReplaceKeepsKeys ==
  ASSUME current_jobs \in [Key -> Status], NEW k \in Key,
         NEW st \in Status \ {"NONE"}, FindAndReplace(k, st)
  PROVE  \A j \in Key : current_jobs'[j] = "NONE" <=> current_jobs[j] = "NONE"
BY DEF FindAndReplace

LEMMA CountMain ==
  IInv /\ EachJobReportedOnce /\ Main => EachJobReportedOnce'
<1> SUFFICES ASSUME IInv, EachJobReportedOnce, Main
             PROVE  EachJobReportedOnce'
  OBVIOUS
<1>0. TypeOK /\ AddingIsAbsent
  BY DEF IInv
<1>1. ASSUME NEW k \in Key, AddJobCheck(k) PROVE EachJobReportedOnce'
  BY <1>1, SameCount DEF AddJobCheck, historyVars
<1>2. CASE AddJobEmplace
  <2> SUFFICES ASSUME NEW j \in Key
               PROVE  accepted'[j] = reported'[j] + Outstanding(j)'
    BY DEF EachJobReportedOnce
  <2>1. accepted[j] = reported[j] + Outstanding(j)
    BY DEF EachJobReportedOnce
  <2>2. /\ app.key \in Key /\ current_jobs[app.key] = "NONE"
        /\ current_jobs' = [current_jobs EXCEPT
                              ![app.key] = "JOB_MANAGER_QUEUED"]
        /\ accepted' = [accepted EXCEPT ![app.key] = accepted[app.key] + 1]
        /\ reported' = reported /\ manager' = manager
        /\ accepted[j] \in Nat /\ reported[j] \in Nat
    BY <1>0, <1>2 DEF AddJobEmplace, AddingIsAbsent, TypeOK
  <2>3. CASE j = app.key
    <3>1. accepted'[j] = accepted[j] + 1 /\ current_jobs'[j] # "NONE"
      BY <1>0, <2>2, <2>3 DEF TypeOK
    <3>2. Outstanding(j)' = Outstanding(j) + 1
      BY <2>2, <2>3, <3>1 DEF Outstanding
    <3>3. QED  BY <2>1, <2>2, <3>1, <3>2, Counted
  <2>4. CASE j # app.key
    <3>1. accepted'[j] = accepted[j] /\ current_jobs'[j] = current_jobs[j]
      BY <1>0, <2>2, <2>4 DEF TypeOK
    <3>2. Outstanding(j)' = Outstanding(j)
      BY <2>2, <3>1 DEF Outstanding
    <3>3. QED  BY <2>1, <2>2, <3>1, <3>2
  <2>5. QED  BY <2>3, <2>4
<1>3. CASE AddJobPush
  BY <1>3, SameCount DEF AddJobPush, historyVars
<1>4. CASE LibraryStop
  BY <1>4, SameCount DEF LibraryStop, historyVars
<1>5. QED  BY <1>1, <1>2, <1>3, <1>4 DEF Main

\* The manager thread's steps between the queues.
LEMMA StepsOfManager ==
  ASSUME TypeOK
  PROVE  \A s \in ManagerStep :
           [manager EXCEPT !.at = s].at = s
BY DEF TypeOK, ManagerRecord

LEMMA CountManager ==
  IInv /\ EachJobReportedOnce /\ Manager => EachJobReportedOnce'
<1> SUFFICES ASSUME IInv, EachJobReportedOnce, Manager
             PROVE  EachJobReportedOnce'
  OBVIOUS
<1>0. /\ TypeOK /\ BoardMatchesStage /\ manager \in ManagerRecord
      /\ current_jobs \in [Key -> Status]
  BY DEF IInv, TypeOK
<1> USE DEF At, historyVars
<1>1. CASE LoopHead
  BY <1>0, <1>1, SameCount DEF LoopHead, ManagerRecord
<1>2. CASE RouteJob
  <2>1. Head(job_queue) \in Key
    BY <1>0, <1>2, TailElements DEF RouteJob, TypeOK
  <2>2. \/ current_jobs' = current_jobs
        \/ FindAndReplace(Head(job_queue), "JOB_WORKER_QUEUED")
    BY <1>2 DEF RouteJob
  <2>3. \A k \in Key : current_jobs'[k] = "NONE" <=> current_jobs[k] = "NONE"
    BY <1>0, <2>1, <2>2, ReplaceKeepsKeys DEF Status
  <2>4. QED  BY <1>2, <2>3, SameCount DEF RouteJob
<1>3. CASE JobsDrained
  BY <1>0, <1>3, SameCount DEF JobsDrained, ManagerRecord
<1>4. ASSUME NEW w \in Worker, VisitWorker(w) PROVE EachJobReportedOnce'
  BY <1>0, <1>4, SameCount DEF VisitWorker, ManagerRecord
<1>5. ASSUME NEW w \in Worker, StopWorker(w) PROVE EachJobReportedOnce'
  BY <1>0, <1>5, SameCount DEF StopWorker, ManagerRecord
<1>6. CASE WorkersVisited
  BY <1>0, <1>6, SameCount DEF WorkersVisited, ManagerRecord
<1>7. CASE ScanFuture
  BY <1>0, <1>7, SameCount DEF ScanFuture, ScanTurn, ManagerRecord
<1>8. CASE ScanEnd
  BY <1>0, <1>8, SameCount DEF ScanEnd, ManagerRecord
<1>9. CASE EraseFuture
  BY <1>9, SameCount DEF EraseFuture
<1>10. CASE StartJob
  BY <1>0, <1>10, SameCount DEF StartJob, ManagerRecord
<1>11. CASE PopResult
  <2> SUFFICES ASSUME NEW j \in Key
               PROVE  accepted'[j] = reported'[j] + Outstanding(j)'
    BY DEF EachJobReportedOnce
  <2> DEFINE k == Head(result_queue)
  <2>1. accepted[j] = reported[j] + Outstanding(j)
    BY DEF EachJobReportedOnce
  <2>2. k \in Key /\ current_jobs[k] = "JOB_FINISHED"
    BY <1>0, <1>11, TailElements
       DEF PopResult, TypeOK, BoardMatchesStage, InResults
  <2>3. /\ manager.at = "results"
        /\ manager'.at = "report" /\ manager'.key = k
        /\ current_jobs' = [current_jobs EXCEPT ![k] = "NONE"]
        /\ UNCHANGED <<accepted, reported>>
    BY <1>0, <1>11 DEF PopResult, ManagerRecord
  <2>4. Outstanding(j)' = Outstanding(j)
    <3>1. CASE j = k
      BY <1>0, <2>2, <2>3, <3>1 DEF Outstanding
    <3>2. CASE j # k
      BY <1>0, <2>2, <2>3, <3>2 DEF Outstanding
    <3>3. QED  BY <3>1, <3>2
  <2>5. QED  BY <2>1, <2>3, <2>4
<1>12. CASE ReportResult
  <2> SUFFICES ASSUME NEW j \in Key
               PROVE  accepted'[j] = reported'[j] + Outstanding(j)'
    BY DEF EachJobReportedOnce
  <2>1. accepted[j] = reported[j] + Outstanding(j)
    BY DEF EachJobReportedOnce
  <2>2. /\ manager.at = "report" /\ manager.key \in Key
        /\ manager'.at = "results"
        /\ reported' = [reported EXCEPT ![manager.key] = reported[manager.key] + 1]
        /\ UNCHANGED <<accepted, current_jobs>>
        /\ reported \in [Key -> Nat]
    BY <1>0, <1>12 DEF ReportResult, TypeOK, ManagerRecord
  <2>3. CASE j = manager.key
    <3>1. reported'[j] = reported[j] + 1 /\ reported[j] \in Nat
      BY <2>2, <2>3
    <3>2. Outstanding(j) = Outstanding(j)' + 1 /\ Outstanding(j)' \in Nat
      BY <2>2, <2>3 DEF Outstanding
    <3>3. QED  BY <2>1, <2>2, <3>1, <3>2
  <2>4. CASE j # manager.key
    <3>1. reported'[j] = reported[j]
      BY <2>2, <2>4
    <3>2. Outstanding(j)' = Outstanding(j)
      BY <2>2, <2>4 DEF Outstanding
    <3>3. QED  BY <2>1, <2>2, <3>1, <3>2
  <2>5. QED  BY <2>3, <2>4
<1>13. CASE ResultsDrained
  BY <1>0, <1>13, SameCount DEF ResultsDrained, ManagerRecord
<1>14. CASE WaitFuture
  BY <1>0, <1>14, SameCount DEF WaitFuture, ManagerRecord
<1>15. CASE ManagerStopped
  BY <1>0, <1>15, SameCount DEF ManagerStopped, ManagerRecord
<1>16. QED
  BY <1>1, <1>2, <1>3, <1>4, <1>5, <1>6, <1>7, <1>8, <1>9, <1>10, <1>11,
     <1>12, <1>13, <1>14, <1>15 DEF Manager

\* A pool's thread changes the status of the job it runs, or none.
LEMMA TaskStatusChange ==
  ASSUME IInv, NEW w \in Worker, NEW i \in DOMAIN pool_results[w],
         TaskAction(w, i)
  PROVE  /\ OnlyTasks
         /\ pool_results[w][i].key \in Key
         /\ \/ UNCHANGED current_jobs
            \/ \E from, to \in Status \ {"NONE"} :
                 /\ current_jobs[pool_results[w][i].key] = from
                 /\ FindAndReplace(pool_results[w][i].key, to)
                 /\ <<from, to>> \in {<<"JOB_WORKER_QUEUED", "JOB_WORKING">>,
                                      <<"JOB_WORKING", "JOB_ERROR">>,
                                      <<"JOB_WORKING", "JOB_FINISHED">>}
<1> DEFINE t == pool_results[w][i]
<1>0. /\ TypeOK /\ BoardMatchesStage /\ MarksArePassed
      /\ t.phase \in {"setup", "working", "parsing"}
           => t.has_error /\ ~t.parser_error
  BY DEF IInv, ResultsAreSettled
<1>1. t.key \in Key
  BY <1>0, TaskOfFuture DEF TypeOK, Task
<1>2. t.phase # "ready" => current_jobs[t.key] \in TaskStatus(t)
  BY <1>0, <1>1 DEF MarksArePassed, BoardMatchesStage, Live
<1>3. OnlyTasks
  BY DEF TaskAction, TakeTask, SetupFails, StartWorking, BeginParse,
     ParseFails, ParseEnds, WatcherStops, TaskReturns
<1>4. CASE StartWorking(w, i)
  <2>1. current_jobs[t.key] = "JOB_WORKER_QUEUED"
    BY <1>0, <1>2, <1>4 DEF StartWorking, TaskStatus
  <2>2. FindAndReplace(t.key, "JOB_WORKING")
    BY <1>4 DEF StartWorking
  <2>3. QED  BY <1>1, <1>3, <2>1, <2>2 DEF Status
<1>5. CASE ParseFails(w, i)
  <2>1. current_jobs[t.key] = "JOB_WORKING"
    BY <1>0, <1>2, <1>5 DEF ParseFails, TaskStatus
  <2>2. FindAndReplace(t.key, "JOB_ERROR")
    BY <1>5 DEF ParseFails
  <2>3. QED  BY <1>1, <1>3, <2>1, <2>2 DEF Status
<1>6. CASE ParseEnds(w, i)
  <2>1. current_jobs[t.key] = "JOB_WORKING"
    BY <1>0, <1>2, <1>6 DEF ParseEnds, TaskStatus
  <2>2. FindAndReplace(t.key, "JOB_FINISHED")
    BY <1>6 DEF ParseEnds
  <2>3. QED  BY <1>1, <1>3, <2>1, <2>2 DEF Status
<1>7. CASE ~StartWorking(w, i) /\ ~ParseFails(w, i) /\ ~ParseEnds(w, i)
  <2>1. UNCHANGED current_jobs
    BY <1>7 DEF TaskAction, TakeTask, SetupFails, BeginParse, WatcherStops,
       TaskReturns
  <2>2. QED  BY <1>1, <1>3, <2>1
<1>8. QED  BY <1>4, <1>5, <1>6, <1>7

LEMMA CountPool ==
  IInv /\ EachJobReportedOnce /\ Pool => EachJobReportedOnce'
<1> SUFFICES ASSUME IInv, EachJobReportedOnce,
                    NEW w \in Worker, NEW i \in DOMAIN pool_results[w],
                    TaskAction(w, i)
             PROVE  EachJobReportedOnce'
  BY DEF Pool
<1>1. /\ OnlyTasks /\ pool_results[w][i].key \in Key
      /\ \/ UNCHANGED current_jobs
         \/ \E to \in Status \ {"NONE"} :
              FindAndReplace(pool_results[w][i].key, to)
  BY TaskStatusChange
<1>2. \A j \in Key : current_jobs'[j] = "NONE" <=> current_jobs[j] = "NONE"
  BY <1>1, ReplaceKeepsKeys DEF IInv, TypeOK
<1>3. QED  BY <1>1, <1>2, SameCount DEF OnlyTasks, historyVars

LEMMA CountNext ==
  IInv /\ EachJobReportedOnce /\ [Next]_vars => EachJobReportedOnce'
<1> SUFFICES ASSUME IInv, EachJobReportedOnce, [Next]_vars
             PROVE  EachJobReportedOnce'
  OBVIOUS
<1>1. CASE UNCHANGED vars
  BY <1>1, SameCount DEF vars, historyVars
<1>2. CASE Terminated
  BY <1>2, SameCount DEF Terminated, vars, historyVars
<1>3. QED  BY <1>1, <1>2, CountMain, CountManager, CountPool DEF Next

\* Every accepted job is on the board, is being reported, or has been
\* reported once: none is lost and none is reported twice.
THEOREM PipelineEachJobReportedOnce == Spec => []EachJobReportedOnce
<1>1. QED
  BY CountInit, CountNext, PipelineInvariant, PTL DEF Spec

----------------------------------------------------------------------------
(* The refinement.                                                          *)

LEMMA BoardInit == Init => Board!Init
BY DEF Init, Board!Init

\* A change of one status that JobLifecycle allows.
LEMMA BoardAdvance ==
  ASSUME current_jobs \in [Key -> Status], NEW k \in Key, NEW to,
         FindAndReplace(k, to), UNCHANGED <<accepted, reported>>,
         <<current_jobs[k], to>> \in
           {<<"JOB_MANAGER_QUEUED", "JOB_WORKER_QUEUED">>,
            <<"JOB_WORKER_QUEUED", "JOB_WORKING">>,
            <<"JOB_WORKING", "JOB_ERROR">>,
            <<"JOB_WORKING", "JOB_FINISHED">>}
  PROVE  Board!Next
<1>1. current_jobs' = [current_jobs EXCEPT ![k] = to]
  BY DEF FindAndReplace
<1>2. Board!Advance(k)
  BY <1>1 DEF Board!Advance, Board!Become
<1>3. QED  BY <1>2 DEF Board!Next

LEMMA BoardNext ==
  IInv /\ EachJobReportedOnce /\ [Next]_vars => [Board!Next]_(Board!vars)
<1> SUFFICES ASSUME IInv, EachJobReportedOnce, [Next]_vars
             PROVE  Board!Next \/ UNCHANGED Board!vars
  OBVIOUS
<1>0. /\ TypeOK /\ BoardMatchesStage /\ AddingIsAbsent
      /\ manager \in ManagerRecord /\ current_jobs \in [Key -> Status]
  BY DEF IInv, TypeOK
<1> USE DEF Board!vars
<1>1. CASE UNCHANGED vars \/ Terminated
  BY <1>1 DEF vars, historyVars, Terminated
<1>2. CASE Main
  <2>1. CASE AddJobEmplace
    <3>1. app.key \in Key
      BY <1>0, <2>1 DEF AddJobEmplace, TypeOK
    <3>2. Board!Accept(app.key)
      BY <1>0, <2>1 DEF AddJobEmplace, AddingIsAbsent, Board!Accept,
         Board!Become
    <3>3. QED  BY <3>1, <3>2 DEF Board!Next
  <2>2. CASE ~AddJobEmplace
    BY <1>2, <2>2 DEF Main, AddJobCheck, AddJobPush, LibraryStop, historyVars
  <2>3. QED  BY <2>1, <2>2
<1>3. CASE Manager
  <2>1. CASE RouteJob
    <3>1. /\ Head(job_queue) \in Key
          /\ current_jobs[Head(job_queue)] = "JOB_MANAGER_QUEUED"
      BY <1>0, <2>1, TailElements
         DEF RouteJob, TypeOK, BoardMatchesStage, InJobQueue
    <3>2. /\ UNCHANGED <<accepted, reported>>
          /\ \/ UNCHANGED current_jobs
             \/ FindAndReplace(Head(job_queue), "JOB_WORKER_QUEUED")
      BY <2>1 DEF RouteJob, historyVars
    <3>3. QED  BY <1>0, <3>1, <3>2, BoardAdvance
  <2>2. CASE PopResult
    <3> DEFINE k == Head(result_queue)
    <3>1. k \in Key /\ current_jobs[k] = "JOB_FINISHED"
      BY <1>0, <2>2, TailElements
         DEF PopResult, TypeOK, BoardMatchesStage, InResults
    <3>2. Board!Release(k)
      BY <2>2, <3>1 DEF PopResult, historyVars, Board!Release, Board!Become
    <3>3. QED  BY <3>1, <3>2 DEF Board!Next
  <2>3. CASE ReportResult
    <3> DEFINE k == manager.key
    <3>1. /\ k \in Key /\ manager.at = "report"
          /\ reported' = [reported EXCEPT ![k] = reported[k] + 1]
          /\ UNCHANGED <<current_jobs, accepted>>
          /\ accepted[k] \in Nat /\ reported[k] \in Nat
      BY <1>0, <2>3 DEF ReportResult, TypeOK
    <3>2. reported[k] < Board!Owed(k)
      <4>1. accepted[k] = reported[k] + Outstanding(k)
        BY <3>1 DEF EachJobReportedOnce
      <4>2. Outstanding(k) = 1 + (IF current_jobs[k] = "NONE" THEN 0 ELSE 1)
        BY <3>1 DEF Outstanding
      <4>3. QED  BY <3>1, <4>1, <4>2 DEF Board!Owed
    <3>3. Board!Report(k)
      BY <3>1, <3>2 DEF Board!Report
    <3>4. QED  BY <3>1, <3>3 DEF Board!Next
  <2>4. CASE ~RouteJob /\ ~PopResult /\ ~ReportResult
    BY <1>3, <2>4
       DEF Manager, LoopHead, JobsDrained, VisitWorker, StopWorker,
           WorkersVisited, ScanFuture, ScanTurn, ScanEnd, EraseFuture,
           StartJob, ResultsDrained, WaitFuture, ManagerStopped, historyVars
  <2>5. QED  BY <2>1, <2>2, <2>3, <2>4
<1>4. CASE Pool
  <2>1. PICK w \in Worker : \E i \in DOMAIN pool_results[w] : TaskAction(w, i)
    BY <1>4 DEF Pool
  <2>2. PICK i \in DOMAIN pool_results[w] : TaskAction(w, i)
    BY <2>1
  <2> DEFINE k == pool_results[w][i].key
  <2>3. /\ OnlyTasks /\ k \in Key
        /\ \/ UNCHANGED current_jobs
           \/ \E from, to \in Status \ {"NONE"} :
                 /\ current_jobs[k] = from
                 /\ FindAndReplace(k, to)
                 /\ <<from, to>> \in {<<"JOB_WORKER_QUEUED", "JOB_WORKING">>,
                                      <<"JOB_WORKING", "JOB_ERROR">>,
                                      <<"JOB_WORKING", "JOB_FINISHED">>}
    BY <2>2, TaskStatusChange
  <2>4. UNCHANGED <<accepted, reported>>
    BY <2>3 DEF OnlyTasks, historyVars
  <2>5. QED  BY <1>0, <2>3, <2>4, BoardAdvance
<1>5. QED  BY <1>1, <1>2, <1>3, <1>4 DEF Next

\* The pipeline implements the board: a job is accepted, moves forward one
\* status at a time, leaves the board finished, and is reported once for it.
THEOREM PipelineImplementsBoard == Spec => BoardSpec
<1>1. QED
  BY BoardInit, BoardNext, PipelineInvariant, PipelineEachJobReportedOnce, PTL
     DEF Spec, BoardSpec, Board!Spec

----------------------------------------------------------------------------
(* What Stop has done so far.                                               *)

Stopping == manager.at \in {"stop", "wait", "stopped"}

\* Every task of a worker has returned; for the one that Stop is waiting for,
\* every task whose future it has passed.
Quiet(w) ==
  \A i \in DOMAIN pool_results[w] :
    (manager.at = "wait" /\ manager.w = w => i < manager.pos)
      => pool_results[w][i].phase = "ready"

\* The workers Stop has visited are quiet: a task that has returned runs no
\* more, and no task is started in a worker any longer.
VisitedAreQuiet ==
  /\ Stopping => \A w \in Worker \ manager.todo : Quiet(w)
  /\ manager.at = "stopped" => manager.todo = {}

LEMMA VisitedQuietInit == Init => VisitedAreQuiet
BY DEF Init, VisitedAreQuiet, Stopping

\* A task that has returned stays so, whatever the threads of the pools do.
LEMMA ReadyStays ==
  ASSUME TypeOK, Pool
  PROVE  /\ manager' = manager
         /\ \A v \in Worker :
              /\ DOMAIN pool_results'[v] = DOMAIN pool_results[v]
              /\ Len(pool_results'[v]) = Len(pool_results[v])
              /\ \A j \in DOMAIN pool_results[v] :
                   pool_results[v][j].phase = "ready"
                     => pool_results'[v][j].phase = "ready"
<1> SUFFICES ASSUME NEW w \in Worker, NEW i \in DOMAIN pool_results[w],
                    TaskAction(w, i),
                    NEW t, t = pool_results[w][i]
             PROVE  /\ manager' = manager
                    /\ \A v \in Worker :
                         /\ DOMAIN pool_results'[v] = DOMAIN pool_results[v]
                         /\ Len(pool_results'[v]) = Len(pool_results[v])
                         /\ \A j \in DOMAIN pool_results[v] :
                              pool_results[v][j].phase = "ready"
                                => pool_results'[v][j].phase = "ready"
  BY DEF Pool
<1>1. t \in Task
  BY TaskOfFuture DEF TypeOK
<1>2. /\ OnlyTasks
      /\ \E u \in Task : /\ Update(w, i, u)
                         /\ t.phase = "ready" => u.phase = "ready"
  <2>1. CASE TakeTask(w, i)
    BY <1>1, <2>1 DEF TakeTask, Task, Phase
  <2>2. CASE SetupFails(w, i)
    BY <1>1, <2>2 DEF SetupFails, Task, Phase
  <2>3. CASE StartWorking(w, i)
    BY <1>1, <2>3 DEF StartWorking, Task, Phase
  <2>4. CASE BeginParse(w, i)
    BY <1>1, <2>4 DEF BeginParse, Task, Phase
  <2>5. CASE ParseFails(w, i)
    BY <1>1, <2>5 DEF ParseFails, Task, Phase
  <2>6. CASE ParseEnds(w, i)
    BY <1>1, <2>6 DEF ParseEnds, Task, Phase
  <2>7. CASE WatcherStops(w, i)
    <3> DEFINE u == [t EXCEPT !.watcher = "ended", !.stop = TRUE]
    <3>1. Update(w, i, u) /\ OnlyTasks
      BY <2>7 DEF WatcherStops
    <3>2. u \in Task /\ u.phase = t.phase
      BY <1>1 DEF Task
    <3> HIDE DEF u
    <3>3. QED  BY <3>1, <3>2
  <2>8. CASE TaskReturns(w, i)
    BY <1>1, <2>8 DEF TaskReturns, Task, Phase
  <2>9. QED
    BY <2>1, <2>2, <2>3, <2>4, <2>5, <2>6, <2>7, <2>8 DEF TaskAction
<1>3. PICK u \in Task : Update(w, i, u) /\ (t.phase = "ready" => u.phase = "ready")
  BY <1>2
<1>4. /\ pool_results' \in [Worker -> Seq(Task)]
      /\ \A v \in Worker : DOMAIN pool_results'[v] = DOMAIN pool_results[v]
      /\ pool_results'[w][i] = u
      /\ \A v \in Worker : \A j \in DOMAIN pool_results[v] :
           v # w \/ j # i => pool_results'[v][j] = pool_results[v][j]
  BY <1>3, UpdateTask DEF TypeOK
<1>5. ASSUME NEW v \in Worker
      PROVE  Len(pool_results'[v]) = Len(pool_results[v])
  <2>1. pool_results[v] \in Seq(Task) /\ pool_results'[v] \in Seq(Task)
    BY <1>4 DEF TypeOK
  <2>2. /\ DOMAIN pool_results[v] = 1..Len(pool_results[v])
        /\ DOMAIN pool_results'[v] = 1..Len(pool_results'[v])
        /\ Len(pool_results[v]) \in Nat /\ Len(pool_results'[v]) \in Nat
    BY <2>1, LenProperties
  <2>3. QED  BY <1>4, <2>2
<1>6. \A v \in Worker : \A j \in DOMAIN pool_results[v] :
        pool_results[v][j].phase = "ready"
          => pool_results'[v][j].phase = "ready"
  BY <1>3, <1>4
<1>7. QED  BY <1>2, <1>4, <1>5, <1>6 DEF OnlyTasks

LEMMA VisitedQuietManager ==
  ASSUME TypeOK, VisitedAreQuiet, Manager
  PROVE  VisitedAreQuiet'
<1>1. manager \in ManagerRecord
  BY DEF TypeOK
<1>2. CASE LoopHead
  BY <1>1, <1>2 DEF LoopHead, At, ManagerRecord, VisitedAreQuiet, Stopping
<1>3. CASE RouteJob
  BY <1>3 DEF RouteJob, VisitedAreQuiet, Stopping, Quiet
<1>4. ASSUME manager'.at \notin {"stop", "wait", "stopped"}
      PROVE  VisitedAreQuiet'
  BY <1>4 DEF VisitedAreQuiet, Stopping
<1>5. CASE JobsDrained \/ WorkersVisited \/ ScanEnd \/ ResultsDrained
             \/ StartJob \/ PopResult \/ ReportResult
  <2>1. manager'.at \notin {"stop", "wait", "stopped"}
    BY <1>1, <1>5 DEF JobsDrained, WorkersVisited, ScanEnd, ResultsDrained,
       StartJob, PopResult, ReportResult, At, ManagerRecord
  <2>2. QED  BY <1>4, <2>1
<1>6. CASE ScanFuture \/ EraseFuture
  <2>1. manager'.at \in {"scan", "erase"}
    BY <1>1, <1>6 DEF ScanFuture, ScanTurn, EraseFuture, ManagerRecord
  <2>2. QED  BY <1>4, <2>1
<1>7. ASSUME NEW w \in Worker, VisitWorker(w) PROVE VisitedAreQuiet'
  <2>1. manager'.at = "scan"
    BY <1>1, <1>7 DEF VisitWorker, At, ManagerRecord
  <2>2. QED  BY <1>4, <2>1
<1>8. ASSUME NEW w \in Worker, StopWorker(w) PROVE VisitedAreQuiet'
  <2>1. /\ manager.at = "stop" /\ manager'.at = "wait"
        /\ manager'.todo = manager.todo \ {w}
        /\ manager'.w = w /\ manager'.pos = 1
        /\ pool_results' = pool_results
    BY <1>1, <1>8 DEF StopWorker, At, ManagerRecord
  <2>2. ASSUME NEW v \in Worker \ manager'.todo PROVE Quiet(v)'
    <3>1. CASE v = w
      <4>1. \A i \in DOMAIN pool_results[w] : i \in Nat /\ i >= 1
        <5>1. pool_results[w] \in Seq(Task)
          BY DEF TypeOK
        <5>2. QED  BY <5>1, LenProperties
      <4>2. QED  BY <2>1, <3>1, <4>1 DEF Quiet
    <3>2. CASE v # w
      <4>1. v \in Worker \ manager.todo
        BY <2>1, <3>2
      <4>2. Quiet(v)
        BY <2>1, <4>1 DEF VisitedAreQuiet, Stopping
      <4>3. QED  BY <2>1, <3>2, <4>2 DEF Quiet
    <3>3. QED  BY <3>1, <3>2
  <2>3. QED  BY <2>1, <2>2 DEF VisitedAreQuiet
<1>9. CASE WaitFuture
  <2> DEFINE w == manager.w
             p == manager.pos
  <2>1. /\ manager.at = "wait" /\ pool_results' = pool_results
        /\ w \in Worker /\ p \in Nat \ {0}
    <3>1. manager.at = "wait" /\ pool_results' = pool_results
      BY <1>9 DEF WaitFuture, workerVars
    <3>2. w \in Worker
      BY <3>1 DEF TypeOK
    <3>3. p \in Nat \ {0}
      BY <1>1 DEF ManagerRecord
    <3>4. QED  BY <3>1, <3>2, <3>3
  <2>2. \A v \in Worker \ manager.todo : Quiet(v)
    BY <2>1 DEF VisitedAreQuiet, Stopping
  <2>3. /\ DOMAIN pool_results[w] = 1..Len(pool_results[w])
        /\ Len(pool_results[w]) \in Nat
    <3>1. pool_results[w] \in Seq(Task)
      BY <2>1 DEF TypeOK
    <3>2. QED  BY <3>1, LenProperties
  <2>4. CASE /\ p \in DOMAIN pool_results[w]
             /\ pool_results[w][p].phase = "ready"
             /\ manager' = [manager EXCEPT !.pos = p + 1]
    <3>1. /\ manager'.at = "wait" /\ manager'.todo = manager.todo
          /\ manager'.w = w /\ manager'.pos = p + 1
      BY <1>1, <2>1, <2>4 DEF ManagerRecord
    <3>2. ASSUME NEW v \in Worker \ manager'.todo PROVE Quiet(v)'
      <4>1. Quiet(v)
        BY <2>2, <3>1
      <4>2. CASE v # w
        BY <2>1, <3>1, <4>1, <4>2 DEF Quiet
      <4>3. CASE v = w
        <5> SUFFICES ASSUME NEW i \in DOMAIN pool_results[w], i < p + 1
                     PROVE  pool_results[w][i].phase = "ready"
          BY <2>1, <3>1, <4>3 DEF Quiet
        <5>1. i = p \/ i < p
          BY <2>1, <2>3
        <5>2. QED  BY <2>4, <4>1, <4>3, <5>1 DEF Quiet
      <4>4. QED  BY <4>2, <4>3
    <3>3. QED  BY <3>1, <3>2 DEF VisitedAreQuiet
  <2>5. CASE p \notin DOMAIN pool_results[w] /\ manager' = At("stop")
    <3>1. /\ manager'.at = "stop" /\ manager'.todo = manager.todo
      BY <1>1, <2>5 DEF At, ManagerRecord
    <3>2. \A i \in DOMAIN pool_results[w] : i < p
      BY <2>1, <2>3, <2>5
    <3>3. ASSUME NEW v \in Worker \ manager'.todo PROVE Quiet(v)'
      <4>1. Quiet(v)
        BY <2>2, <3>1
      <4>2. QED  BY <2>1, <3>1, <3>2, <4>1 DEF Quiet
    <3>4. QED  BY <3>1, <3>3 DEF VisitedAreQuiet
  <2>6. QED  BY <1>9, <2>4, <2>5 DEF WaitFuture
<1>10. CASE ManagerStopped
  <2>1. /\ manager.at = "stop" /\ manager.todo = {}
        /\ manager'.at = "stopped" /\ manager'.todo = {}
        /\ pool_results' = pool_results
    BY <1>1, <1>10 DEF ManagerStopped, At, ManagerRecord, workerVars
  <2>2. QED  BY <2>1 DEF VisitedAreQuiet, Stopping, Quiet
<1>11. QED
  BY <1>2, <1>3, <1>5, <1>6, <1>7, <1>8, <1>9, <1>10 DEF Manager

LEMMA VisitedQuietNext ==
  ASSUME TypeOK, VisitedAreQuiet, [Next]_vars
  PROVE  VisitedAreQuiet'
<1>1. CASE UNCHANGED <<manager, pool_results>>
  BY <1>1 DEF VisitedAreQuiet, Stopping, Quiet
<1>2. CASE UNCHANGED vars \/ Terminated
  BY <1>1, <1>2 DEF Terminated, vars, workerVars
<1>3. CASE Main
  BY <1>1, <1>3 DEF Main, AddJobCheck, AddJobEmplace, AddJobPush, LibraryStop,
     workerVars
<1>4. CASE Manager
  BY <1>4, VisitedQuietManager
<1>5. CASE Pool
  BY <1>5, ReadyStays DEF VisitedAreQuiet, Stopping, Quiet
<1>6. QED  BY <1>2, <1>3, <1>4, <1>5 DEF Next

LEMMA VisitedGiveQuiet == VisitedAreQuiet => QuietWhenStopped
<1> SUFFICES ASSUME VisitedAreQuiet, manager.at = "stopped", NEW w \in Worker
             PROVE  RunningTasks(w) = {}
  BY DEF QuietWhenStopped
<1>1. Quiet(w)
  BY DEF VisitedAreQuiet, Stopping
<1>2. \A i \in DOMAIN pool_results[w] : pool_results[w][i].phase = "ready"
  BY <1>1 DEF Quiet
<1>3. QED  BY <1>2 DEF RunningTasks, Running

\* When ParserManager::Stop has returned, the task of no future is running:
\* Stop waited for each worker's futures in turn, and no task was started
\* behind its back (ParserManager.cc, ParserWorker.cc).
THEOREM PipelineQuietWhenStopped == Spec => []QuietWhenStopped
<1>1. Spec => []VisitedAreQuiet
  BY VisitedQuietInit, VisitedQuietNext, PipelineTypeOK, PTL DEF Spec
<1>2. QED  BY <1>1, VisitedGiveQuiet, PTL

----------------------------------------------------------------------------
(* Futures are let go only when their task has returned.                    *)

\* Removing a position of a sequence: the positions beyond it that satisfy a
\* condition move down by one, and there is one less if it satisfied it too.
LEMMA PositionsMoveDown ==
  ASSUME NEW n \in Nat, NEW p \in 1..n, NEW R \in SUBSET (1..n), p \in R,
         NEW R2 \in SUBSET (1..(n - 1)),
         \A j \in 1..(n - 1) : j \in R2 <=> (IF j < p THEN j ELSE j + 1) \in R
  PROVE  Cardinality(R2) = Cardinality(R) - 1 /\ Cardinality(R) \in Nat
<1> DEFINE f == [j \in R2 |-> IF j < p THEN j ELSE j + 1]
<1>1. IsFiniteSet(R) /\ IsFiniteSet(R2)
  <2>1. IsFiniteSet(1..n) /\ IsFiniteSet(1..(n - 1))
    BY FS_Interval
  <2>2. QED  BY <2>1, FS_Subset
<1>2. f \in [R2 -> R \ {p}]
  OBVIOUS
<1>3. \A a, b \in R2 : f[a] = f[b] => a = b
  OBVIOUS
<1>4. \A m \in R \ {p} : \E j \in R2 : f[j] = m
  <2> TAKE m \in R \ {p}
  <2>1. CASE m < p
    <3>1. m \in R2 /\ f[m] = m
      BY <2>1
    <3>2. QED  BY <3>1
  <2>2. CASE m > p
    <3>1. m - 1 \in R2 /\ f[m - 1] = m
      BY <2>2
    <3>2. QED  BY <3>1
  <2>3. QED  BY <2>1, <2>2
<1> HIDE DEF f
<1>5. ExistsBijection(R2, R \ {p})
  BY <1>2, <1>3, <1>4
  DEF ExistsBijection, Bijection, Injection, Surjection, IsInjective
<1>6. Cardinality(R \ {p}) = Cardinality(R2)
  BY <1>1, <1>5, FS_Bijection
<1>7. Cardinality(R \ {p}) = Cardinality(R) - 1
  BY <1>1, FS_RemoveElement
<1>8. QED  BY <1>1, <1>6, <1>7, FS_CardinalityType

\* The futures of a worker whose task has returned.
ReadyAt(w) == {i \in DOMAIN pool_results[w] : pool_results[w][i].phase = "ready"}

\* Only the erasing of marked futures makes a worker have fewer.
LEMMA OnlyErasureShrinks ==
  ASSUME TypeOK, [Next]_vars, ~EraseFuture, NEW w \in Worker
  PROVE  Len(pool_results[w]) <= Len(pool_results'[w])
<1>0. /\ pool_results \in [Worker -> Seq(Task)]
      /\ pool_results[w] \in Seq(Task) /\ Len(pool_results[w]) \in Nat
  BY LenProperties DEF TypeOK
<1>1. CASE pool_results' = pool_results
  BY <1>0, <1>1
<1>2. CASE Pool
  BY <1>0, <1>2, ReadyStays
<1>3. CASE StartJob
  <2> DEFINE v == manager.w
             task == NewTask(Head(worker_queue[v]))
  <2>1. CASE worker_queue[v] = <<>>
    BY <1>1, <1>3, <2>1 DEF StartJob
  <2>2. CASE worker_queue[v] # <<>>
    <3>1. pool_results' = [pool_results EXCEPT
                             ![v] = Append(pool_results[v], task)]
      BY <1>3, <2>2 DEF StartJob
    <3>2. v \in Worker
      BY <1>3 DEF StartJob, TypeOK
    <3>3. worker_queue[v] \in Seq(Key)
      BY <3>2 DEF TypeOK
    <3>4. Head(worker_queue[v]) \in Key
      BY <2>2, <3>3, TailElements
    <3>5. task \in Task
      BY <3>4 DEF NewTask, Task, Phase
    <3> HIDE DEF task, v
    <3>6. CASE w # v
      BY <1>0, <3>1, <3>6
    <3>7. CASE w = v
      <4>1. Len(Append(pool_results[w], task)) = Len(pool_results[w]) + 1
        BY <1>0, <3>5, AppendProperties
      <4>2. pool_results'[w] = Append(pool_results[w], task)
        BY <1>0, <3>1, <3>7
      <4>3. QED  BY <1>0, <4>1, <4>2
    <3>8. QED  BY <3>6, <3>7
  <2>3. QED  BY <2>1, <2>2
<1>4. CASE Main
  BY <1>1, <1>4 DEF Main, AddJobCheck, AddJobEmplace, AddJobPush, LibraryStop,
     workerVars
<1>5. CASE UNCHANGED vars \/ Terminated
  BY <1>1, <1>5 DEF Terminated, vars, workerVars
<1>6. CASE Manager
  <2>1. CASE LoopHead \/ RouteJob \/ JobsDrained \/ WorkersVisited
    BY <1>1, <2>1 DEF LoopHead, RouteJob, JobsDrained, WorkersVisited, workerVars
  <2>2. CASE ScanFuture \/ ScanEnd \/ PopResult \/ ReportResult
    BY <1>1, <2>2 DEF ScanFuture, ScanTurn, ScanEnd, PopResult, ReportResult,
       workerVars
  <2>3. CASE ResultsDrained \/ WaitFuture \/ ManagerStopped
    BY <1>1, <2>3 DEF ResultsDrained, WaitFuture, ManagerStopped, workerVars
  <2>4. ASSUME NEW v \in Worker, VisitWorker(v) \/ StopWorker(v)
        PROVE  pool_results' = pool_results
    BY <2>4 DEF VisitWorker, StopWorker
  <2>5. QED  BY <1>1, <1>3, <1>6, <2>1, <2>2, <2>3, <2>4 DEF Manager
<1>7. QED  BY <1>2, <1>4, <1>5, <1>6 DEF Next

\* A marked future is a ready one: erasing it leaves as many unreturned tasks
\* in the pool as before.
LEMMA ErasureDropsReturned ==
  ASSUME TypeOK, MarksArePassed, EraseFuture, NEW w \in Worker
  PROVE  Unreturned(w)' = Unreturned(w)
<1> DEFINE v == manager.w
           s == pool_results[v]
<1>1. PICK p \in pool_erases[v] :
        pool_results' = [pool_results EXCEPT ![v] = RemoveAt(pool_results[v], p)]
  BY DEF EraseFuture
<1>2. v \in Worker
  BY DEF EraseFuture, TypeOK
<1>3. s \in Seq(Task) /\ p \in DOMAIN s /\ s[p].phase = "ready"
  BY <1>1, <1>2 DEF TypeOK, MarksArePassed
<1>4. CASE w # v
  <2>1. pool_results'[w] = pool_results[w]
    BY <1>1, <1>4 DEF TypeOK
  <2>2. QED  BY <2>1 DEF Unreturned, Returned
<1>5. CASE w = v
  <2> DEFINE n == Len(s)
             t == RemoveAt(s, p)
  <2>1. /\ t \in Seq(Task) /\ Len(t) = n - 1
        /\ DOMAIN t = 1..(n - 1)
        /\ \A i \in 1..(n - 1) : t[i] = IF i < p THEN s[i] ELSE s[i + 1]
    BY <1>3, RemoveAtElements
  <2>2. DOMAIN s = 1..n /\ n \in Nat
    BY <1>3, LenProperties
  <2>3. pool_results'[w] = t
    BY <1>1, <1>2, <1>5 DEF TypeOK
  <2> DEFINE R  == {i \in DOMAIN s : s[i].phase = "ready"}
             R2 == {i \in DOMAIN t : t[i].phase = "ready"}
  <2> HIDE DEF n, t, s
  <2>4. /\ R \in SUBSET (1..n) /\ p \in R /\ p \in 1..n
        /\ R2 \in SUBSET (1..(n - 1))
    BY <1>3, <2>1, <2>2
  <2>5. \A j \in 1..(n - 1) : j \in R2 <=> (IF j < p THEN j ELSE j + 1) \in R
    BY <2>1, <2>2, <2>4
  <2> HIDE DEF R, R2
  <2>6. Cardinality(R2) = Cardinality(R) - 1 /\ Cardinality(R) \in Nat
    BY <2>2, <2>4, <2>5, PositionsMoveDown
  <2>7. Unreturned(w) = n - Cardinality(R)
    BY <1>5 DEF Unreturned, Returned, n, s, R
  <2>8. Unreturned(w)' = Len(t) - Cardinality(R2)
    BY <2>3 DEF Unreturned, Returned, R2
  <2>9. QED  BY <2>1, <2>2, <2>6, <2>7, <2>8
<1>6. QED  BY <1>4, <1>5

LEMMA DropsOnlyReturned ==
  ASSUME IInv, [Next]_vars
  PROVE  [\A w \in Worker : Len(pool_results'[w]) < Len(pool_results[w])
                              => Unreturned(w)' = Unreturned(w)]_vars
<1>0. TypeOK /\ MarksArePassed
  BY DEF IInv
<1>1. CASE EraseFuture
  BY <1>0, <1>1, ErasureDropsReturned
<1>2. CASE ~EraseFuture
  <2>1. CASE UNCHANGED vars
    BY <2>1
  <2>2. CASE ~(UNCHANGED vars)
    <3>1. TypeOK'
      BY <1>0, TypeNext
    <3>2. ASSUME NEW w \in Worker
          PROVE  Len(pool_results[w]) \in Nat /\ Len(pool_results'[w]) \in Nat
      <4>1. pool_results[w] \in Seq(Task) /\ pool_results'[w] \in Seq(Task)
        BY <1>0, <3>1 DEF TypeOK
      <4>2. QED  BY <4>1, LenProperties
    <3>3. QED  BY <1>0, <1>2, <3>2, OnlyErasureShrinks
  <2>3. QED  BY <2>1, <2>2
<1>3. QED  BY <1>1, <1>2

\* A worker lets go of a future only after its task has returned, so Stop
\* waits for every task there still is (ParserWorker::RunOnce erases the
\* futures it found ready, from the last to the first).
THEOREM PipelineOnlyReturnedTasksDropped == Spec => OnlyReturnedTasksDropped
BY DropsOnlyReturned, PipelineInvariant, PTL DEF Spec, OnlyReturnedTasksDropped
=============================================================================
