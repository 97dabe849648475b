----------------------- MODULE DatabaseSessionProofs -----------------------
(***************************************************************************)
(* DatabaseSession implements AtomicCalls, for every set of processes,     *)
(* threads and calls, whatever a call does to the tables and whatever the  *)
(* script of first-time setup is.                                          *)
(***************************************************************************)
EXTENDS DatabaseSession, FiniteSetTheorems, TLAPS

\* The types of what the proofs read.
SessionType ==
    /\ stage \in [Process -> Stages]
    /\ at \in [Process -> Nat \ {0}]
    /\ open \in [Process -> BOOLEAN]
    /\ dirty \in [Process -> BOOLEAN]
    /\ lock \in [Process -> {"none", "shared", "reserved", "pending"}]
    /\ holder \in [Process -> Thread \cup {NoThread}]
    /\ pc \in [Thread -> {"idle", "enter", "begin", "step", "end"}]
    /\ call \in [Thread -> Calls \cup {NoCall}]
    /\ work = [p \in Process |-> work[p]]
    /\ outcome = [t \in Thread |-> outcome[t]] /\ answer = [t \in Thread |-> answer[t]]

Mine(p) == {t \in Thread : Home[t] = p}

\* A connection holds a lock and changed pages only within a transaction.
Clean(p) == lock[p] = "none" /\ ~dirty[p]
ClosedIsClean(p) == ~open[p] => Clean(p)

InTransaction(t) == pc[t] \in {"step", "end"}

\* The transaction of a process is that of one thread.
OneTransaction(p) ==
    /\ \A t \in Mine(p) : InTransaction(t) => open[p]
    /\ \A t, u \in Mine(p) : InTransaction(t) /\ InTransaction(u) => t = u

\* A thread has a call until it is idle, and calls nothing during set-up.
CallsWhenUp(p) ==
    \A t \in Mine(p) :
      /\ pc[t] = "idle" <=> call[t] = NoCall
      /\ pc[t] # "idle" => stage[p] \in {"up", "broken"}

\* What a thread at the end of its call has got, and what END will write.
Got(t, p) ==
    \/ outcome[t] = Busy /\ Clean(p)
    \/ /\ outcome[t] = [ret |-> Effect(call[t], file).ret, rows |-> Effect(call[t], file).rows]
       /\ call[t] \notin Writes /\ lock[p] = "shared" /\ ~dirty[p]
    \/ /\ outcome[t] = [ret |-> Effect(call[t], file).ret, rows |-> Effect(call[t], file).rows]
       /\ call[t] \in Writes /\ lock[p] = "reserved"
       /\ work[p] = Effect(call[t], file).tables /\ (work[p] # file => dirty[p])

CallsInOrder(p) ==
    \A t \in Mine(p) :
      /\ pc[t] = "step" => Clean(p)
      /\ pc[t] = "end" => Got(t, p)

\* What set-up has in its transaction: one row of the script at most.
RowsInOrder(p) ==
    /\ stage[p] = "row" => open[p] /\ Clean(p) /\ at[p] \in DOMAIN Script
    /\ stage[p] = "row end" =>
         /\ open[p] /\ lock[p] = "reserved" /\ at[p] \in DOMAIN Script
         /\ work[p] = AddDefaultRow(file, Script[at[p]])
    /\ stage[p] = "row failed" =>
         /\ open[p] /\ at[p] \in DOMAIN Script
         /\ Clean(p) \/ (lock[p] = "reserved" /\ work[p] = file)

\* Outside the calls of its threads a process that is up is in no transaction,
\* or in one whose END was refused.
UpIsClosed(p) ==
    stage[p] = "up" /\ open[p] =>
      (\E t \in Mine(p) : InTransaction(t)) \/ lock[p] = "pending"

Local(p) ==
    /\ ClosedIsClean(p) /\ OneTransaction(p) /\ CallsWhenUp(p)
    /\ CallsInOrder(p) /\ RowsInOrder(p) /\ UpIsClosed(p)

IInv == SessionType /\ \A p \in Process : Local(p)

\* Initially every process is down and every thread idle.
LEMMA InitIInv == Init => IInv
<1> SUFFICES ASSUME Init PROVE IInv  OBVIOUS
<1>1. SessionType  BY SessionAssumption DEF Init, SessionType, Stages
<1>2. ASSUME NEW p \in Process PROVE Local(p)
  BY SessionAssumption DEF Init, Local, ClosedIsClean, OneTransaction, CallsWhenUp, CallsInOrder,
     RowsInOrder, UpIsClosed, Mine, InTransaction, Clean
<1> QED  BY <1>1, <1>2 DEF IInv

----------------------------------------------------------------------------
(* Steps of one process.                                                    *)

\* A step of p leaves the other processes and their threads alone, and changes
\* the file only when no other process holds a lock.
Frame(p) ==
    /\ \A q \in Process \ {p} :
         /\ stage'[q] = stage[q] /\ at'[q] = at[q] /\ open'[q] = open[q]
         /\ lock'[q] = lock[q] /\ work'[q] = work[q] /\ dirty'[q] = dirty[q]
         /\ file' # file => lock[q] = "none"
    /\ \A t \in Thread \ Mine(p) :
         pc'[t] = pc[t] /\ call'[t] = call[t] /\ outcome'[t] = outcome[t]

\* So the invariant holds of them as it did.
LEMMA FrameKeeps ==
  ASSUME NEW p \in Process, IInv, Frame(p), SessionType', Local(p)'
  PROVE  IInv'
<1> SUFFICES ASSUME NEW q \in Process, q # p PROVE Local(q)'  BY DEF IInv
<1>1. /\ stage'[q] = stage[q] /\ at'[q] = at[q] /\ open'[q] = open[q]
      /\ lock'[q] = lock[q] /\ work'[q] = work[q] /\ dirty'[q] = dirty[q]
      /\ file' # file => lock[q] = "none"
  BY DEF Frame
<1>2. \A t \in Mine(q) : pc'[t] = pc[t] /\ call'[t] = call[t] /\ outcome'[t] = outcome[t]
  BY DEF Frame, Mine
<1>3. Local(q)  BY DEF IInv
<1>4. ClosedIsClean(q)'  BY <1>1, <1>3 DEF Local, ClosedIsClean, Clean
<1>5. OneTransaction(q)'  BY <1>1, <1>2, <1>3 DEF Local, OneTransaction, InTransaction, Mine
<1>6. CallsWhenUp(q)'  BY <1>1, <1>2, <1>3 DEF Local, CallsWhenUp, Mine
<1>7. CallsInOrder(q)'
  <2> SUFFICES ASSUME NEW t \in Mine(q) PROVE (pc[t] = "step" => Clean(q))' /\ (pc[t] = "end" => Got(t, q))'
    BY DEF CallsInOrder, Mine
  <2>1. /\ pc[t] = "step" => Clean(q)
        /\ pc[t] = "end" => Got(t, q)
    BY <1>3 DEF Local, CallsInOrder
  <2>2. pc'[t] = pc[t] /\ call'[t] = call[t] /\ outcome'[t] = outcome[t]  BY <1>2
  <2>3. CASE file' = file  BY <1>1, <2>1, <2>2, <2>3 DEF Got, Clean
  <2>4. CASE file' # file  BY <1>1, <2>1, <2>2, <2>4 DEF Got, Clean
  <2> QED  BY <2>3, <2>4
<1>8. RowsInOrder(q)'
  <2>1. RowsInOrder(q)  BY <1>3 DEF Local
  <2>2. CASE file' = file  BY <1>1, <2>1, <2>2 DEF RowsInOrder, Clean
  <2>3. CASE file' # file  BY <1>1, <2>1, <2>3 DEF RowsInOrder, Clean
  <2> QED  BY <2>2, <2>3
<1>9. UpIsClosed(q)'
  BY <1>1, <1>2, <1>3 DEF Local, UpIsClosed, InTransaction, Mine
<1> QED  BY <1>4, <1>5, <1>6, <1>7, <1>8, <1>9 DEF Local
----------------------------------------------------------------------------
(* The steps of a call.                                                     *)

\* What a lemma about a step of p shows.
Kept(p) == SessionType' /\ Frame(p) /\ Local(p)'

\* Local without the transaction: these steps do not touch the connection.
LEMMA InvokeKeeps ==
  ASSUME IInv, NEW t \in Thread, NEW c \in Calls, Invoke(t, c)
  PROVE  Kept(Home[t])
<1> DEFINE p == Home[t]
<1>1. p \in Process /\ t \in Mine(p) /\ NoCall \notin Calls  BY SessionAssumption DEF Mine
<1>2. SessionType /\ Local(p)  BY <1>1 DEF IInv
<1>3. /\ pc[t] = "idle" /\ stage[p] \in {"up", "broken"}
      /\ call' = [call EXCEPT ![t] = c]
      /\ pc' = [pc EXCEPT ![t] = IF c \in Locked THEN "enter" ELSE "begin"]
      /\ UNCHANGED <<file, ctor, conn, holder, outcome, answer>>
  BY DEF Invoke
<1>4. SessionType'  BY <1>2, <1>3 DEF SessionType, ctor, conn
<1>5. Frame(p)  BY <1>1, <1>2, <1>3 DEF Frame, Mine, SessionType, ctor, conn
<1>6. /\ pc'[t] \in {"enter", "begin"} /\ call'[t] = c
      /\ \A u \in Mine(p) \ {t} : pc'[u] = pc[u] /\ call'[u] = call[u]
      /\ \A u \in Mine(p) : outcome'[u] = outcome[u]
  BY <1>1, <1>2, <1>3 DEF SessionType, Mine
<1>7. /\ stage'[p] = stage[p] /\ at'[p] = at[p] /\ open'[p] = open[p]
      /\ lock'[p] = lock[p] /\ work'[p] = work[p] /\ dirty'[p] = dirty[p] /\ file' = file
  BY <1>3 DEF ctor, conn
<1>8. ClosedIsClean(p)'  BY <1>2, <1>7 DEF Local, ClosedIsClean, Clean
<1>9. OneTransaction(p)'  BY <1>2, <1>6, <1>7 DEF Local, OneTransaction, InTransaction, Mine
<1>10. CallsWhenUp(p)'  BY <1>1, <1>2, <1>3, <1>6, <1>7 DEF Local, CallsWhenUp, Mine
<1>11. CallsInOrder(p)'
  <2>1. \A u \in Mine(p) : pc[u] = "end" /\ u # t /\ Got(u, p) => Got(u, p)'
    BY <1>6, <1>7 DEF Got, Clean
  <2> QED  BY <1>2, <1>6, <1>7, <2>1 DEF Local, CallsInOrder, Clean, Mine
<1>12. RowsInOrder(p)'  BY <1>2, <1>7 DEF Local, RowsInOrder, Clean
<1>13. UpIsClosed(p)'  BY <1>2, <1>3, <1>6, <1>7 DEF Local, UpIsClosed, InTransaction, Mine
<1> QED  BY <1>4, <1>5, <1>8, <1>9, <1>10, <1>11, <1>12, <1>13 DEF Kept, Local

LEMMA EnterKeeps ==
  ASSUME IInv, NEW t \in Thread, Enter(t)
  PROVE  Kept(Home[t])
<1> DEFINE p == Home[t]
<1>1. p \in Process /\ t \in Mine(p)  BY SessionAssumption DEF Mine
<1>2. SessionType /\ Local(p)  BY <1>1 DEF IInv
<1>3. /\ pc[t] = "enter" /\ pc' = [pc EXCEPT ![t] = "begin"]
      /\ holder' = [holder EXCEPT ![p] = t]
      /\ UNCHANGED <<file, ctor, conn, call, outcome, answer>>
  BY DEF Enter
<1>4. SessionType'  BY <1>2, <1>3 DEF SessionType, ctor, conn
<1>5. Frame(p)  BY <1>1, <1>2, <1>3 DEF Frame, Mine, SessionType, ctor, conn
<1>6. /\ pc'[t] = "begin"
      /\ \A u \in Mine(p) \ {t} : pc'[u] = pc[u]
      /\ \A u \in Mine(p) : outcome'[u] = outcome[u] /\ call'[u] = call[u]
  BY <1>1, <1>2, <1>3 DEF SessionType, Mine
<1>7. /\ stage'[p] = stage[p] /\ at'[p] = at[p] /\ open'[p] = open[p]
      /\ lock'[p] = lock[p] /\ work'[p] = work[p] /\ dirty'[p] = dirty[p] /\ file' = file
  BY <1>3 DEF ctor, conn
<1>8. ClosedIsClean(p)'  BY <1>2, <1>7 DEF Local, ClosedIsClean, Clean
<1>9. OneTransaction(p)'  BY <1>2, <1>6, <1>7 DEF Local, OneTransaction, InTransaction, Mine
<1>10. CallsWhenUp(p)'  BY <1>1, <1>2, <1>3, <1>6, <1>7 DEF Local, CallsWhenUp, Mine
<1>11. CallsInOrder(p)'  BY <1>2, <1>6, <1>7 DEF Local, CallsInOrder, Got, Clean, Mine
<1>12. RowsInOrder(p)'  BY <1>2, <1>7 DEF Local, RowsInOrder, Clean
<1>13. UpIsClosed(p)'  BY <1>2, <1>3, <1>6, <1>7 DEF Local, UpIsClosed, InTransaction, Mine
<1> QED  BY <1>4, <1>5, <1>8, <1>9, <1>10, <1>11, <1>12, <1>13 DEF Kept, Local

\* BEGIN succeeds only outside a transaction, so no other thread is in one.
LEMMA CallBeginsKeeps ==
  ASSUME IInv, NEW t \in Thread, CallBegins(t)
  PROVE  Kept(Home[t])
<1> DEFINE p == Home[t]
<1>1. p \in Process /\ t \in Mine(p)  BY SessionAssumption DEF Mine
<1>2. SessionType /\ Local(p)  BY <1>1 DEF IInv
<1>3. /\ pc[t] = "begin" /\ pc' = [pc EXCEPT ![t] = "step"]
      /\ stage[p] = "up" /\ ~open[p] /\ open' = [open EXCEPT ![p] = TRUE]
      /\ UNCHANGED <<file, ctor, lock, work, dirty, holder, call, outcome, answer>>
  BY DEF CallBegins, CheckInitialized, BeginTransaction
<1>4. SessionType'  BY <1>1, <1>2, <1>3 DEF SessionType, ctor
<1>5. Frame(p)  BY <1>1, <1>2, <1>3 DEF Frame, Mine, SessionType, ctor
<1>6. /\ pc'[t] = "step"
      /\ \A u \in Mine(p) \ {t} : pc'[u] = pc[u] /\ ~InTransaction(u)
      /\ \A u \in Mine(p) : outcome'[u] = outcome[u] /\ call'[u] = call[u]
  BY <1>1, <1>2, <1>3 DEF SessionType, Mine, Local, OneTransaction
<1>7. /\ stage'[p] = stage[p] /\ at'[p] = at[p] /\ open'[p]
      /\ lock'[p] = lock[p] /\ work'[p] = work[p] /\ dirty'[p] = dirty[p] /\ file' = file
  BY <1>1, <1>2, <1>3 DEF ctor, SessionType
<1>8. ClosedIsClean(p)'  BY <1>7 DEF ClosedIsClean
<1>9. OneTransaction(p)'  BY <1>6, <1>7 DEF OneTransaction, InTransaction, Mine
<1>10. CallsWhenUp(p)'  BY <1>1, <1>2, <1>3, <1>6, <1>7 DEF Local, CallsWhenUp, Mine
<1>11. CallsInOrder(p)'
  BY <1>2, <1>3, <1>6, <1>7 DEF Local, CallsInOrder, ClosedIsClean, Clean, InTransaction, Mine
<1>12. RowsInOrder(p)'  BY <1>3, <1>7 DEF RowsInOrder
<1>13. UpIsClosed(p)'  BY <1>1, <1>6 DEF UpIsClosed, InTransaction, Mine
<1> QED  BY <1>4, <1>5, <1>8, <1>9, <1>10, <1>11, <1>12, <1>13 DEF Kept, Local

LEMMA CallRefusedKeeps ==
  ASSUME IInv, NEW t \in Thread, CallRefused(t)
  PROVE  Kept(Home[t])
<1> DEFINE p == Home[t]
<1>1. p \in Process /\ t \in Mine(p)  BY SessionAssumption DEF Mine
<1>2. SessionType /\ Local(p)  BY <1>1 DEF IInv
<1>3. /\ pc[t] = "begin" /\ pc' = [pc EXCEPT ![t] = "idle"]
      /\ call' = [call EXCEPT ![t] = NoCall] /\ outcome' = [outcome EXCEPT ![t] = Busy]
      /\ answer' = [answer EXCEPT ![t] = Busy]
      /\ holder' = [holder EXCEPT ![p] = IF @ = t THEN NoThread ELSE @]
      /\ UNCHANGED <<file, ctor, conn>>
  BY DEF CallRefused, Return
<1>4. SessionType'  BY <1>1, <1>2, <1>3 DEF SessionType, ctor, conn
<1>5. Frame(p)  BY <1>1, <1>2, <1>3 DEF Frame, Mine, SessionType, ctor, conn
<1>6. /\ pc'[t] = "idle" /\ call'[t] = NoCall
      /\ \A u \in Mine(p) \ {t} :
           pc'[u] = pc[u] /\ outcome'[u] = outcome[u] /\ call'[u] = call[u]
  BY <1>1, <1>2, <1>3 DEF SessionType, Mine
<1>7. /\ stage'[p] = stage[p] /\ at'[p] = at[p] /\ open'[p] = open[p]
      /\ lock'[p] = lock[p] /\ work'[p] = work[p] /\ dirty'[p] = dirty[p] /\ file' = file
  BY <1>3 DEF ctor, conn
<1>8. ClosedIsClean(p)'  BY <1>2, <1>7 DEF Local, ClosedIsClean, Clean
<1>9. OneTransaction(p)'  BY <1>2, <1>6, <1>7 DEF Local, OneTransaction, InTransaction, Mine
<1>10. CallsWhenUp(p)'  BY <1>1, <1>2, <1>6, <1>7 DEF Local, CallsWhenUp, Mine
<1>11. CallsInOrder(p)'  BY <1>2, <1>6, <1>7 DEF Local, CallsInOrder, Got, Clean, Mine
<1>12. RowsInOrder(p)'  BY <1>2, <1>7 DEF Local, RowsInOrder, Clean
<1>13. UpIsClosed(p)'  BY <1>2, <1>3, <1>6, <1>7 DEF Local, UpIsClosed, InTransaction, Mine
<1> QED  BY <1>4, <1>5, <1>8, <1>9, <1>10, <1>11, <1>12, <1>13 DEF Kept, Local
\* The statement runs, or is refused its lock, in the thread's own transaction.
LEMMA CallStepsKeeps ==
  ASSUME IInv, NEW t \in Thread, CallSteps(t)
  PROVE  Kept(Home[t])
<1> DEFINE p == Home[t]
<1>1. p \in Process /\ t \in Mine(p)  BY SessionAssumption DEF Mine
<1>2. SessionType /\ Local(p)  BY <1>1 DEF IInv
<1>3. /\ pc[t] = "step" /\ pc' = [pc EXCEPT ![t] = "end"]
      /\ UNCHANGED <<file, ctor, open, holder, call, answer>>
  BY DEF CallSteps
<1>4. open[p] /\ Clean(p) /\ stage[p] \in {"up", "broken"}
  BY <1>1, <1>2, <1>3 DEF Local, OneTransaction, CallsInOrder, CallsWhenUp, InTransaction
<1>5. /\ SessionType'
      /\ \A q \in Process \ {p} : lock'[q] = lock[q] /\ work'[q] = work[q] /\ dirty'[q] = dirty[q]
      /\ \A u \in Thread \ {t} : outcome'[u] = outcome[u]
      /\ Got(t, p)'
  <2>1. CASE /\ call[t] \in Writes /\ WritePages(p, Effect(call[t], file))
             /\ outcome' = [outcome EXCEPT ![t] = [ret |-> Effect(call[t], file).ret,
                                                   rows |-> Effect(call[t], file).rows]]
    <3>1. PICK d \in BOOLEAN :
            /\ dirty' = [dirty EXCEPT ![p] = d]
            /\ Effect(call[t], file).tables # file => d
      BY <2>1 DEF WritePages
    <3>2. /\ lock' = [lock EXCEPT ![p] = "reserved"]
          /\ work' = [work EXCEPT ![p] = Effect(call[t], file).tables]
      BY <2>1 DEF WritePages
    <3>3. SessionType'  BY <1>1, <1>2, <1>3, <2>1, <3>1, <3>2 DEF SessionType, ctor
    <3>4. /\ lock'[p] = "reserved" /\ work'[p] = Effect(call[t], file).tables
          /\ dirty'[p] = d
          /\ outcome'[t] = [ret |-> Effect(call[t], file).ret, rows |-> Effect(call[t], file).rows]
      BY <1>1, <1>2, <2>1, <3>1, <3>2 DEF SessionType
    <3>5. Got(t, p)'  BY <1>3, <2>1, <3>1, <3>4 DEF Got
    <3> QED  BY <1>2, <2>1, <3>1, <3>2, <3>3, <3>5 DEF SessionType
  <2>2. CASE /\ call[t] \notin Writes /\ ReadPages(p)
             /\ outcome' = [outcome EXCEPT ![t] = [ret |-> Effect(call[t], file).ret,
                                                   rows |-> Effect(call[t], file).rows]]
    <3>1. /\ lock' = [lock EXCEPT ![p] = "shared"] /\ UNCHANGED <<work, dirty>>
      BY <2>2 DEF ReadPages
    <3>2. SessionType'  BY <1>1, <1>2, <1>3, <2>2, <3>1 DEF SessionType, ctor
    <3>3. /\ lock'[p] = "shared" /\ ~dirty'[p]
          /\ outcome'[t] = [ret |-> Effect(call[t], file).ret, rows |-> Effect(call[t], file).rows]
      BY <1>1, <1>2, <1>4, <2>2, <3>1 DEF SessionType, Clean
    <3>4. Got(t, p)'  BY <1>3, <2>2, <3>3 DEF Got
    <3> QED  BY <1>2, <2>2, <3>1, <3>2, <3>4 DEF SessionType
  <2>3. CASE /\ outcome' = [outcome EXCEPT ![t] = Busy]
             /\ UNCHANGED <<lock, work, dirty>>
    <3>1. SessionType'  BY <1>1, <1>2, <1>3, <2>3 DEF SessionType, ctor
    <3>2. outcome'[t] = Busy  BY <1>2, <2>3 DEF SessionType
    <3>3. Got(t, p)'  BY <1>4, <2>3, <3>2 DEF Got, Clean, Busy
    <3> QED  BY <1>2, <2>3, <3>1, <3>3 DEF SessionType
  <2> QED  BY <2>1, <2>2, <2>3 DEF CallSteps
<1>6. Frame(p)  BY <1>1, <1>2, <1>3, <1>5 DEF Frame, Mine, SessionType, ctor
<1>7. /\ pc'[t] = "end" /\ \A u \in Mine(p) \ {t} : pc'[u] = pc[u] /\ ~InTransaction(u)
      /\ \A u \in Mine(p) : call'[u] = call[u]
      /\ stage'[p] = stage[p] /\ open'[p]
  BY <1>1, <1>2, <1>3, <1>4 DEF SessionType, Local, OneTransaction, InTransaction, Mine, ctor
<1>8. ClosedIsClean(p)'  BY <1>7 DEF ClosedIsClean
<1>9. OneTransaction(p)'  BY <1>7 DEF OneTransaction, InTransaction, Mine
<1>10. CallsWhenUp(p)'  BY <1>1, <1>2, <1>3, <1>4, <1>7 DEF Local, CallsWhenUp, Mine
<1>11. CallsInOrder(p)'  BY <1>5, <1>7 DEF CallsInOrder, InTransaction, Mine
<1>12. RowsInOrder(p)'  BY <1>4, <1>7 DEF RowsInOrder
<1>13. UpIsClosed(p)'  BY <1>1, <1>7 DEF UpIsClosed, InTransaction, Mine
<1> QED  BY <1>5, <1>6, <1>8, <1>9, <1>10, <1>11, <1>12, <1>13 DEF Kept, Local

\* END closes the transaction, or leaves it open with a pending lock; either
\* way the thread returns.  A commit finds no other process with a lock.
LEMMA CallEndsKeeps ==
  ASSUME IInv, NEW t \in Thread, CallEnds(t)
  PROVE  Kept(Home[t])
<1> DEFINE p == Home[t]
<1>1. p \in Process /\ t \in Mine(p)  BY SessionAssumption DEF Mine
<1>2. SessionType /\ Local(p)  BY <1>1 DEF IInv
<1>3. pc[t] = "end"  BY DEF CallEnds
<1>4. /\ pc' = [pc EXCEPT ![t] = "idle"] /\ call' = [call EXCEPT ![t] = NoCall]
      /\ outcome' = [outcome EXCEPT ![t] = Busy]
      /\ \E a : answer' = [answer EXCEPT ![t] = a]
      /\ holder' = [holder EXCEPT ![p] = IF @ = t THEN NoThread ELSE @]
      /\ UNCHANGED ctor
  BY DEF CallEnds, Return
<1>5. stage[p] \in {"up", "broken"}
  BY <1>1, <1>2, <1>3 DEF Local, CallsWhenUp
<1>6. /\ SessionType'
      /\ \A q \in Process \ {p} :
           /\ open'[q] = open[q] /\ lock'[q] = lock[q] /\ work'[q] = work[q] /\ dirty'[q] = dirty[q]
           /\ file' # file => lock[q] = "none"
      /\ ClosedIsClean(p)' /\ (~open'[p] \/ lock'[p] = "pending")
  <2>1. CASE EndTransaction(p)
    <3>1. /\ open' = [open EXCEPT ![p] = FALSE] /\ lock' = [lock EXCEPT ![p] = "none"]
          /\ work' = [work EXCEPT ![p] = NoTables] /\ dirty' = [dirty EXCEPT ![p] = FALSE]
      BY <2>1 DEF EndTransaction, CloseTransaction
    <3>2. file' # file => \A q \in Process \ {p} : lock[q] = "none"
      BY <2>1 DEF EndTransaction, CanCommit, Others
    <3>3. SessionType'  BY <1>1, <1>2, <1>4, <3>1 DEF SessionType, ctor
    <3>4. ~open'[p] /\ lock'[p] = "none" /\ ~dirty'[p]  BY <1>1, <1>2, <3>1 DEF SessionType
    <3> QED  BY <1>2, <3>1, <3>2, <3>3, <3>4 DEF SessionType, ClosedIsClean, Clean
  <2>2. CASE EndRefused(p)
    <3>1. lock' = [lock EXCEPT ![p] = "pending"] /\ UNCHANGED <<file, open, work, dirty>>
      BY <2>2 DEF EndRefused
    <3>2. SessionType'  BY <1>1, <1>2, <1>4, <3>1 DEF SessionType, ctor
    <3>3. lock'[p] = "pending" /\ open'[p]
      BY <1>1, <1>2, <1>3, <3>1 DEF SessionType, Local, OneTransaction, InTransaction
    <3> QED  BY <1>2, <3>1, <3>2, <3>3 DEF SessionType, ClosedIsClean
  <2> QED  BY <2>1, <2>2 DEF CallEnds
<1>7. Frame(p)  BY <1>1, <1>2, <1>4, <1>6 DEF Frame, Mine, SessionType, ctor
<1>8. /\ pc'[t] = "idle" /\ call'[t] = NoCall
      /\ \A u \in Mine(p) \ {t} : pc'[u] = pc[u] /\ call'[u] = call[u] /\ ~InTransaction(u)
      /\ stage'[p] = stage[p]
  BY <1>1, <1>2, <1>3, <1>4 DEF SessionType, Local, OneTransaction, InTransaction, Mine, ctor
<1>9. OneTransaction(p)'  BY <1>8 DEF OneTransaction, InTransaction, Mine
<1>10. CallsWhenUp(p)'  BY <1>2, <1>8 DEF Local, CallsWhenUp, Mine
<1>11. CallsInOrder(p)'  BY <1>8 DEF CallsInOrder, InTransaction, Mine
<1>12. RowsInOrder(p)'  BY <1>5, <1>8 DEF RowsInOrder
<1>13. UpIsClosed(p)'  BY <1>6 DEF UpIsClosed
<1> QED  BY <1>6, <1>7, <1>9, <1>10, <1>11, <1>12, <1>13 DEF Kept, Local
----------------------------------------------------------------------------
(* The steps of the constructor and the end of a process.                   *)

\* What a step of p leaves of the other processes.
OthersLeft(p) ==
    \A q \in Process \ {p} :
      /\ stage'[q] = stage[q] /\ at'[q] = at[q] /\ open'[q] = open[q]
      /\ lock'[q] = lock[q] /\ work'[q] = work[q] /\ dirty'[q] = dirty[q]
      /\ file' # file => lock[q] = "none"

\* During set-up the threads of a process are idle, so only the connection and
\* the position in the script matter.
LEMMA SetUpKeeps ==
  ASSUME IInv, NEW p \in Process, stage[p] \notin {"up", "broken"}, UNCHANGED thread,
         SessionType', ClosedIsClean(p)', RowsInOrder(p)', stage'[p] = "up" => ~open'[p],
         OthersLeft(p)
  PROVE  Kept(p)
<1>1. \A t \in Mine(p) : pc[t] = "idle" /\ call[t] = NoCall
  BY DEF IInv, Local, CallsWhenUp
<1>2. pc' = pc /\ call' = call /\ outcome' = outcome  BY DEF thread
<1>3. Frame(p)  BY <1>2 DEF Frame, OthersLeft
<1>4. OneTransaction(p)'  BY <1>1, <1>2 DEF OneTransaction, InTransaction, Mine
<1>5. CallsWhenUp(p)'  BY <1>1, <1>2 DEF CallsWhenUp, Mine
<1>6. CallsInOrder(p)'  BY <1>1, <1>2 DEF CallsInOrder, Mine
<1>7. UpIsClosed(p)'  BY DEF UpIsClosed
<1> QED  BY <1>3, <1>4, <1>5, <1>6, <1>7 DEF Kept, Local

\* A step that moves the constructor and nothing else keeps the types.
LEMMA QuietType ==
  ASSUME SessionType, NEW p \in Process, UNCHANGED <<conn, holder, thread>>,
         stage' \in [Process -> Stages], at' \in [Process -> Nat \ {0}]
  PROVE  SessionType'
<1>1. /\ open' = open /\ lock' = lock /\ work' = work /\ dirty' = dirty /\ holder' = holder
      /\ pc' = pc /\ call' = call /\ outcome' = outcome /\ answer' = answer
  BY DEF conn, thread
<1> QED  BY <1>1 DEF SessionType

LEMMA StartKeeps ==
  ASSUME IInv, NEW p \in Process, Start(p)
  PROVE  Kept(p)
<1>1. SessionType /\ Local(p)  BY DEF IInv
<1>2. /\ stage[p] = "down" /\ stage' = [stage EXCEPT ![p] = "opening"]
      /\ at' = [at EXCEPT ![p] = 1] /\ UNCHANGED <<file, conn, holder, thread>>
  BY DEF Start, GoTo, Moves
<1>3. SessionType'
  <2>1. stage' \in [Process -> Stages]
    <3>1. stage' = stage \/ \E x \in Stages : stage' = [stage EXCEPT ![p] = x]
      BY <1>1, <1>2 DEF Stages
    <3> QED  BY <1>1, <3>1 DEF SessionType
  <2>2. at' \in [Process -> Nat \ {0}]  BY <1>1, <1>2 DEF SessionType
  <2> QED  BY <1>1, <1>2, <2>1, <2>2, QuietType
<1>4. stage'[p] = "opening"  BY <1>1, <1>2 DEF SessionType
<1>5. ClosedIsClean(p)'  BY <1>1, <1>2 DEF Local, ClosedIsClean, Clean, conn
<1>6. RowsInOrder(p)'  BY <1>4 DEF RowsInOrder
<1>7. OthersLeft(p)  BY <1>1, <1>2 DEF OthersLeft, SessionType, conn
<1> QED  BY <1>2, <1>3, <1>4, <1>5, <1>6, <1>7, SetUpKeeps

\* The stages before the default rows leave the connection alone.
LEMMA OpenKeeps ==
  ASSUME IInv, NEW p \in Process, Open(p) \/ Prepare(p)
  PROVE  Kept(p)
<1>1. SessionType /\ Local(p)  BY DEF IInv
<1>2. /\ stage[p] \in {"opening", "prepare"}
      /\ \E s \in {"generate", "prepare", "broken", "rows", "check"} :
           stage' = [stage EXCEPT ![p] = s]
      /\ UNCHANGED <<file, at, conn, holder, thread>>
  BY DEF Open, Prepare, GoTo
<1>3. SessionType'
  <2>1. stage' \in [Process -> Stages]
    <3>1. stage' = stage \/ \E x \in Stages : stage' = [stage EXCEPT ![p] = x]
      BY <1>1, <1>2 DEF Stages
    <3> QED  BY <1>1, <3>1 DEF SessionType
  <2>2. at' \in [Process -> Nat \ {0}]  BY <1>1, <1>2 DEF SessionType
  <2> QED  BY <1>1, <1>2, <2>1, <2>2, QuietType
<1>4. stage'[p] \in {"generate", "prepare", "broken", "rows", "check"}
  BY <1>1, <1>2 DEF SessionType
<1>5. ClosedIsClean(p)'  BY <1>1, <1>2 DEF Local, ClosedIsClean, Clean, conn
<1>6. RowsInOrder(p)'  BY <1>4 DEF RowsInOrder
<1>7. OthersLeft(p)  BY <1>1, <1>2 DEF OthersLeft, SessionType, conn
<1> QED  BY <1>2, <1>3, <1>4, <1>5, <1>6, <1>7, SetUpKeeps

\* A new table is written when no other process holds a lock.
LEMMA GenerateTablesKeeps ==
  ASSUME IInv, NEW p \in Process, GenerateTables(p)
  PROVE  Kept(p)
<1>1. SessionType /\ Local(p)  BY DEF IInv
<1>2. stage[p] = "generate" /\ UNCHANGED <<conn, holder, thread>>
  BY DEF GenerateTables
<1>3. \/ /\ \E s \in {"broken", "prepare"} : stage' = [stage EXCEPT ![p] = s]
         /\ at' = [at EXCEPT ![p] = 1] /\ file' = file
      \/ /\ stage' = stage /\ at' = [at EXCEPT ![p] = at[p] + 1]
  BY DEF GenerateTables, GoTo, Moves
<1>4. file' # file => \A q \in Process \ {p} : lock[q] = "none"
  <2>1. TableSeq[at[p]] \in DOMAIN file => GenerateTable(file, TableSeq[at[p]]) = file
    BY DEF GenerateTable
  <2> QED  BY <2>1 DEF GenerateTables, Others
<1>5. SessionType'
  <2>1. stage' \in [Process -> Stages]
    <3>1. stage' = stage \/ \E x \in Stages : stage' = [stage EXCEPT ![p] = x]
      BY <1>1, <1>2, <1>3 DEF Stages
    <3> QED  BY <1>1, <3>1 DEF SessionType
  <2>2. at' \in [Process -> Nat \ {0}]  BY <1>1, <1>2, <1>3 DEF SessionType
  <2> QED  BY <1>1, <1>2, <1>3, <2>1, <2>2, QuietType
<1>6. stage'[p] \in {"generate", "prepare", "broken"}  BY <1>1, <1>2, <1>3 DEF SessionType
<1>7. ClosedIsClean(p)'  BY <1>1, <1>2 DEF Local, ClosedIsClean, Clean, conn
<1>8. RowsInOrder(p)'  BY <1>6 DEF RowsInOrder
<1>9. OthersLeft(p)  BY <1>1, <1>2, <1>3, <1>4 DEF OthersLeft, SessionType, conn
<1> QED  BY <1>2, <1>5, <1>6, <1>7, <1>8, <1>9, SetUpKeeps

\* After a row that was not created set-up goes on behind it or gives up.
LEMMA RowFailsMoves ==
  ASSUME SessionType, NEW p \in Process, at[p] \in DOMAIN Script, RowFails(p)
  PROVE  /\ \E s \in {"broken", "rows"} : stage' = [stage EXCEPT ![p] = s]
         /\ \E n \in Nat \ {0} : at' = [at EXCEPT ![p] = n]
<1> DEFINE later == {i \in at[p]..Len(Script) : Script[i].table # "source"}
<1>1. at[p] \in Nat \ {0} /\ Len(Script) \in Nat /\ DOMAIN Script = 1..Len(Script)
  BY SessionAssumption DEF SessionType
<1>2. Cardinality(later) \in Nat /\ Cardinality(later) <= Len(Script)
  <2>1. /\ IsFiniteSet(at[p]..Len(Script))
        /\ Cardinality(at[p]..Len(Script)) <= Len(Script)
    <3>1. at[p] \in Int /\ Len(Script) \in Int  BY <1>1
    <3>2. /\ IsFiniteSet(at[p]..Len(Script))
          /\ Cardinality(at[p]..Len(Script)) =
               IF at[p] > Len(Script) THEN 0 ELSE Len(Script) - at[p] + 1
      BY <3>1, FS_Interval
    <3> QED  BY <1>1, <3>2
  <2>2. later \in SUBSET (at[p]..Len(Script))  OBVIOUS
  <2>3. IsFiniteSet(later) /\ Cardinality(later) <= Cardinality(at[p]..Len(Script))
    BY <2>1, <2>2, FS_Subset
  <2>4. Cardinality(later) \in Nat /\ Cardinality(at[p]..Len(Script)) \in Nat
    BY <2>1, <2>3, FS_CardinalityType
  <2> QED  BY <1>1, <2>1, <2>3, <2>4
<1>3. Len(Script) + 1 - Cardinality(later) \in Nat \ {0} /\ at[p] + 1 \in Nat \ {0}
  BY <1>1, <1>2
<1>4. at = [at EXCEPT ![p] = at[p]]  BY DEF SessionType
<1>5. \/ stage' = [stage EXCEPT ![p] = "broken"] /\ at' = at
      \/ /\ stage' = [stage EXCEPT ![p] = "rows"]
         /\ at' = [at EXCEPT ![p] = Len(Script) + 1 - Cardinality(later)]
      \/ /\ stage' = [stage EXCEPT ![p] = "rows"] /\ at' = [at EXCEPT ![p] = at[p] + 1]
  BY DEF RowFails, GoTo, Moves
<1> QED  BY <1>1, <1>3, <1>4, <1>5

LEMMA RowBeginsKeeps ==
  ASSUME IInv, NEW p \in Process, RowBegins(p)
  PROVE  Kept(p)
<1>1. SessionType /\ Local(p)  BY DEF IInv
<1>2. /\ stage[p] = "rows" /\ UNCHANGED <<file, holder, thread>>
      /\ Len(Script) \in Nat /\ DOMAIN Script = 1..Len(Script) /\ at[p] \in Nat \ {0}
  BY <1>1, SessionAssumption DEF RowBegins, SessionType
<1>3. CASE /\ \E s \in {"check", "broken"} : stage' = [stage EXCEPT ![p] = s]
           /\ UNCHANGED <<at, conn>>
  <2>1. SessionType'
    <3>1. stage' \in [Process -> Stages]
      <4>1. stage' = stage \/ \E x \in Stages : stage' = [stage EXCEPT ![p] = x]
        BY <1>1, <1>2, <1>3 DEF Stages
      <4> QED  BY <1>1, <4>1 DEF SessionType
    <3>2. at' \in [Process -> Nat \ {0}]  BY <1>1, <1>2, <1>3 DEF SessionType
    <3> QED  BY <1>1, <1>2, <1>3, <3>1, <3>2, QuietType
  <2>2. stage'[p] \in {"check", "broken"}  BY <1>1, <1>3 DEF SessionType
  <2>3. ClosedIsClean(p)'  BY <1>1, <1>3 DEF Local, ClosedIsClean, Clean, conn
  <2>4. RowsInOrder(p)'  BY <2>2 DEF RowsInOrder
  <2>5. OthersLeft(p)  BY <1>1, <1>2, <1>3 DEF OthersLeft, SessionType, conn
  <2> QED  BY <1>2, <2>1, <2>2, <2>3, <2>4, <2>5, SetUpKeeps
<1>4. CASE /\ at[p] \in DOMAIN Script /\ BeginTransaction(p)
           /\ stage' = [stage EXCEPT ![p] = "row"] /\ at' = at
  <2>1. /\ ~open[p] /\ open' = [open EXCEPT ![p] = TRUE] /\ UNCHANGED <<lock, work, dirty>>
    BY <1>4 DEF BeginTransaction
  <2>2. SessionType'  BY <1>1, <1>2, <1>4, <2>1 DEF SessionType, Stages, thread
  <2>3. stage'[p] = "row" /\ open'[p] /\ Clean(p)'
    BY <1>1, <1>4, <2>1 DEF SessionType, Local, ClosedIsClean, Clean
  <2>4. ClosedIsClean(p)' /\ RowsInOrder(p)'  BY <1>4, <2>3 DEF ClosedIsClean, RowsInOrder
  <2>5. OthersLeft(p)  BY <1>1, <1>2, <1>4, <2>1 DEF OthersLeft, SessionType
  <2> QED  BY <1>2, <2>2, <2>3, <2>4, <2>5, SetUpKeeps
<1>5. CASE at[p] \in DOMAIN Script /\ RowFails(p) /\ UNCHANGED conn
  <2>1. /\ \E s \in {"broken", "rows"} : stage' = [stage EXCEPT ![p] = s]
        /\ \E n \in Nat \ {0} : at' = [at EXCEPT ![p] = n]
    BY <1>1, <1>5, RowFailsMoves
  <2>2. SessionType'
    <3>1. stage' \in [Process -> Stages]
      <4>1. stage' = stage \/ \E x \in Stages : stage' = [stage EXCEPT ![p] = x]
        BY <1>1, <2>1 DEF Stages
      <4> QED  BY <1>1, <4>1 DEF SessionType
    <3>2. at' \in [Process -> Nat \ {0}]  BY <1>1, <1>2, <1>5, <2>1 DEF SessionType
    <3> QED  BY <1>1, <1>2, <1>5, <2>1, <3>1, <3>2, QuietType
  <2>3. stage'[p] \in {"rows", "broken"}  BY <1>1, <2>1 DEF SessionType
  <2>4. ClosedIsClean(p)'  BY <1>1, <1>5 DEF Local, ClosedIsClean, Clean, conn
  <2>5. RowsInOrder(p)'  BY <2>3 DEF RowsInOrder
  <2>6. OthersLeft(p)  BY <1>1, <1>2, <1>5, <2>1 DEF OthersLeft, SessionType, conn
  <2> QED  BY <1>2, <2>2, <2>3, <2>4, <2>5, <2>6, SetUpKeeps
<1>6. at[p] <= Len(Script) => at[p] \in DOMAIN Script  BY <1>2
<1> QED  BY <1>2, <1>3, <1>4, <1>5, <1>6 DEF RowBegins, GoTo

\* A row that was inserted is in the pages of the transaction; one that was not
\* left them as the file is.
LEMMA RowStepsKeeps ==
  ASSUME IInv, NEW p \in Process, RowSteps(p)
  PROVE  Kept(p)
<1> DEFINE s == Script[at[p]]
           r == Insert(file, s.table, s.row)
<1>1. SessionType /\ Local(p)  BY DEF IInv
<1>2. stage[p] = "row" /\ UNCHANGED <<file, open, holder, thread>>  BY DEF RowSteps
<1>3. open[p] /\ Clean(p) /\ at[p] \in DOMAIN Script  BY <1>1, <1>2 DEF Local, RowsInOrder
<1>4. \/ /\ r.ret = 0 /\ WritePages(p, r)
         /\ stage' = [stage EXCEPT ![p] = "row end"] /\ at' = at
      \/ /\ r.ret # 0 /\ WritePages(p, r)
         /\ stage' = [stage EXCEPT ![p] = "row failed"] /\ at' = at
      \/ UNCHANGED <<lock, work, dirty>> /\ stage' = [stage EXCEPT ![p] = "row failed"] /\ at' = at
      \/ WritePages(p, r) /\ RowFails(p)
      \/ UNCHANGED <<lock, work, dirty>> /\ RowFails(p)
  BY DEF RowSteps, GoTo
<1>5. /\ \E x \in {"row end", "row failed", "broken", "rows"} : stage' = [stage EXCEPT ![p] = x]
      /\ \E n \in Nat \ {0} : at' = [at EXCEPT ![p] = n]
  <2>1. CASE RowFails(p)  BY <1>1, <1>3, <2>1, RowFailsMoves
  <2>2. CASE \E x \in {"row end", "row failed"} : stage' = [stage EXCEPT ![p] = x] /\ at' = at
    <3>1. at[p] \in Nat \ {0} /\ at = [at EXCEPT ![p] = at[p]]  BY <1>1 DEF SessionType
    <3> QED  BY <2>2, <3>1
  <2> QED  BY <1>4, <2>1, <2>2
<1>6. \/ \E d \in BOOLEAN : /\ lock' = [lock EXCEPT ![p] = "reserved"]
                            /\ work' = [work EXCEPT ![p] = r.tables]
                            /\ dirty' = [dirty EXCEPT ![p] = d]
      \/ UNCHANGED <<lock, work, dirty>>
  BY <1>4 DEF WritePages
<1>7. SessionType'
  <2>1. stage' \in [Process -> Stages]
    <3>1. stage' = stage \/ \E x \in Stages : stage' = [stage EXCEPT ![p] = x]
      BY <1>1, <1>5 DEF Stages
    <3> QED  BY <1>1, <3>1 DEF SessionType
  <2>2. at' \in [Process -> Nat \ {0}]  BY <1>1, <1>5 DEF SessionType
  <2>3. /\ lock' \in [Process -> {"none", "shared", "reserved", "pending"}]
        /\ dirty' \in [Process -> BOOLEAN] /\ work' = [q \in Process |-> work'[q]]
    BY <1>1, <1>6 DEF SessionType
  <2>4. open' = open /\ holder' = holder /\ pc' = pc /\ call' = call /\ outcome' = outcome /\ answer' = answer
    BY <1>2 DEF thread
  <2> QED  BY <1>1, <2>1, <2>2, <2>3, <2>4 DEF SessionType
<1>8. OthersLeft(p)  BY <1>1, <1>2, <1>5, <1>6 DEF OthersLeft, SessionType
<1>9. open'[p] /\ file' = file  BY <1>2, <1>3
<1>10. stage'[p] \in {"row end", "row failed", "broken", "rows"}  BY <1>1, <1>5 DEF SessionType
<1>11. ClosedIsClean(p)'  BY <1>9 DEF ClosedIsClean
<1>12. RowsInOrder(p)'
  <2>1. CASE /\ r.ret = 0 /\ WritePages(p, r)
             /\ stage' = [stage EXCEPT ![p] = "row end"] /\ at' = at
    <3>1. /\ lock'[p] = "reserved" /\ work'[p] = AddDefaultRow(file, s)
          /\ stage'[p] = "row end"
      BY <1>1, <2>1 DEF WritePages, AddDefaultRow, SessionType
    <3> QED  BY <1>3, <1>9, <2>1, <3>1 DEF RowsInOrder
  <2>2. CASE /\ r.ret # 0 /\ WritePages(p, r)
             /\ stage' = [stage EXCEPT ![p] = "row failed"] /\ at' = at
    <3>1. r.tables = file  BY <2>2 DEF Insert, Refused, Done
    <3>2. /\ lock'[p] = "reserved" /\ work'[p] = r.tables
          /\ stage'[p] = "row failed"
      BY <1>1, <2>2 DEF WritePages, SessionType
    <3> QED  BY <1>3, <1>9, <2>2, <3>1, <3>2 DEF RowsInOrder
  <2>3. CASE UNCHANGED <<lock, work, dirty>> /\ stage' = [stage EXCEPT ![p] = "row failed"] /\ at' = at
    <3>1. stage'[p] = "row failed" /\ Clean(p)'  BY <1>1, <1>3, <2>3 DEF SessionType, Clean
    <3> QED  BY <1>3, <1>9, <2>3, <3>1 DEF RowsInOrder
  <2>4. CASE RowFails(p)
    <3>1. \E x \in {"broken", "rows"} : stage' = [stage EXCEPT ![p] = x]
      BY <1>1, <1>3, <2>4, RowFailsMoves
    <3>2. stage'[p] \in {"broken", "rows"}  BY <1>1, <3>1 DEF SessionType
    <3> QED  BY <3>2 DEF RowsInOrder
  <2> QED  BY <1>4, <2>1, <2>2, <2>3, <2>4
<1> QED  BY <1>2, <1>7, <1>8, <1>10, <1>11, <1>12, SetUpKeeps

\* What the end of a row's transaction does to the file.
LEMMA RowEndsAdds ==
  ASSUME IInv, NEW p \in Process, RowEnds(p)
  PROVE  file' # file => file' = AddDefaultRow(file, Script[at[p]]) /\ at[p] \in DOMAIN Script
<1>1. Local(p) /\ stage[p] \in {"row end", "row failed"}  BY DEF IInv, RowEnds
<1>2. file' = file \/ (dirty[p] /\ file' = work[p])  BY DEF RowEnds, EndTransaction, EndRefused
<1> QED  BY <1>1, <1>2 DEF Local, RowsInOrder, Clean

LEMMA RowEndsKeeps ==
  ASSUME IInv, NEW p \in Process, RowEnds(p)
  PROVE  Kept(p)
<1>1. SessionType /\ Local(p)  BY DEF IInv
<1>2. stage[p] \in {"row end", "row failed"} /\ UNCHANGED <<holder, thread>>  BY DEF RowEnds
<1>3. open[p] /\ at[p] \in DOMAIN Script  BY <1>1, <1>2 DEF Local, RowsInOrder
<1>4. /\ \E x \in {"broken", "rows"} : stage' = [stage EXCEPT ![p] = x]
      /\ \E n \in Nat \ {0} : at' = [at EXCEPT ![p] = n]
  <2>1. CASE RowFails(p)  BY <1>1, <1>3, <2>1, RowFailsMoves
  <2>2. CASE GoTo(p, "rows") /\ Moves(p, at[p] + 1)
    <3>1. at[p] + 1 \in Nat \ {0}  BY <1>1 DEF SessionType
    <3> QED  BY <2>2, <3>1 DEF GoTo, Moves
  <2> QED  BY <2>1, <2>2 DEF RowEnds
<1>5. \/ /\ \A q \in Process \ {p} : dirty[p] => lock[q] = "none"
         /\ file' = IF dirty[p] THEN work[p] ELSE file
         /\ open' = [open EXCEPT ![p] = FALSE] /\ lock' = [lock EXCEPT ![p] = "none"]
         /\ work' = [work EXCEPT ![p] = NoTables] /\ dirty' = [dirty EXCEPT ![p] = FALSE]
      \/ lock' = [lock EXCEPT ![p] = "pending"] /\ UNCHANGED <<file, open, work, dirty>>
  BY DEF RowEnds, EndTransaction, EndRefused, CloseTransaction, CanCommit, Others
<1>6. SessionType'
  <2>1. stage' \in [Process -> Stages]
    <3>1. stage' = stage \/ \E x \in Stages : stage' = [stage EXCEPT ![p] = x]
      BY <1>1, <1>4 DEF Stages
    <3> QED  BY <1>1, <3>1 DEF SessionType
  <2>2. at' \in [Process -> Nat \ {0}]  BY <1>1, <1>4 DEF SessionType
  <2>3. /\ lock' \in [Process -> {"none", "shared", "reserved", "pending"}]
        /\ open' \in [Process -> BOOLEAN]
        /\ dirty' \in [Process -> BOOLEAN] /\ work' = [q \in Process |-> work'[q]]
    BY <1>1, <1>5 DEF SessionType
  <2>4. holder' = holder /\ pc' = pc /\ call' = call /\ outcome' = outcome /\ answer' = answer
    BY <1>2 DEF thread
  <2> QED  BY <1>1, <2>1, <2>2, <2>3, <2>4 DEF SessionType
<1>7. OthersLeft(p)  BY <1>1, <1>4, <1>5 DEF OthersLeft, SessionType
<1>8. stage'[p] \in {"broken", "rows"}  BY <1>1, <1>4 DEF SessionType
<1>9. ClosedIsClean(p)'  BY <1>1, <1>3, <1>5 DEF ClosedIsClean, Clean, SessionType
<1>10. RowsInOrder(p)'  BY <1>8 DEF RowsInOrder
<1> QED  BY <1>2, <1>6, <1>7, <1>8, <1>9, <1>10, SetUpKeeps

LEMMA CheckKeeps ==
  ASSUME IInv, NEW p \in Process, CheckBegins(p) \/ CheckEnds(p)
  PROVE  Kept(p)
<1>1. SessionType /\ Local(p)  BY DEF IInv
<1>2. stage[p] \in {"check", "checked"} /\ UNCHANGED <<file, at, holder, thread>>
  BY DEF CheckBegins, CheckEnds
<1>3. \/ stage' = [stage EXCEPT ![p] = "broken"] /\ UNCHANGED <<open, lock, work, dirty>>
      \/ /\ stage' = [stage EXCEPT ![p] = "checked"]
         /\ open' = [open EXCEPT ![p] = TRUE] /\ lock' = [lock EXCEPT ![p] = "shared"]
         /\ UNCHANGED <<work, dirty>>
      \/ /\ \E x \in {"up", "broken"} : stage' = [stage EXCEPT ![p] = x]
         /\ open' = [open EXCEPT ![p] = FALSE] /\ lock' = [lock EXCEPT ![p] = "none"]
         /\ work' = [work EXCEPT ![p] = NoTables] /\ dirty' = [dirty EXCEPT ![p] = FALSE]
  BY DEF CheckBegins, CheckEnds, CloseTransaction, ReadPages, GoTo, conn
<1>4. SessionType'
  <2>1. stage' \in [Process -> Stages]
    <3>1. stage' = stage \/ \E x \in Stages : stage' = [stage EXCEPT ![p] = x]
      BY <1>1, <1>3 DEF Stages
    <3> QED  BY <1>1, <3>1 DEF SessionType
  <2>2. /\ lock' \in [Process -> {"none", "shared", "reserved", "pending"}]
        /\ open' \in [Process -> BOOLEAN]
        /\ dirty' \in [Process -> BOOLEAN] /\ work' = [q \in Process |-> work'[q]]
    BY <1>1, <1>3 DEF SessionType
  <2>3. /\ at' = at /\ holder' = holder
        /\ pc' = pc /\ call' = call /\ outcome' = outcome /\ answer' = answer
    BY <1>2 DEF thread
  <2> QED  BY <1>1, <2>1, <2>2, <2>3 DEF SessionType
<1>5. OthersLeft(p)  BY <1>1, <1>2, <1>3 DEF OthersLeft, SessionType
<1>6. stage'[p] \in {"broken", "checked", "up"} /\ (stage'[p] = "up" => ~open'[p])
  BY <1>1, <1>3 DEF SessionType
<1>7. ClosedIsClean(p)'  BY <1>1, <1>3 DEF ClosedIsClean, Clean, SessionType, Local
<1>8. RowsInOrder(p)'  BY <1>6 DEF RowsInOrder
<1> QED  BY <1>2, <1>4, <1>5, <1>6, <1>7, <1>8, SetUpKeeps

\* A process that is gone is in no transaction, and none of its threads calls.
LEMMA ExitKeeps ==
  ASSUME IInv, NEW p \in Process, Exit(p)
  PROVE  Kept(p)
<1>1. SessionType /\ Local(p)  BY DEF IInv
<1>2. /\ stage' = [stage EXCEPT ![p] = "down"]
      /\ open' = [open EXCEPT ![p] = FALSE] /\ lock' = [lock EXCEPT ![p] = "none"]
      /\ work' = [work EXCEPT ![p] = NoTables] /\ dirty' = [dirty EXCEPT ![p] = FALSE]
      /\ holder' = [holder EXCEPT ![p] = NoThread]
      /\ pc' = [t \in Thread |-> IF t \in Mine(p) THEN "idle" ELSE pc[t]]
      /\ call' = [t \in Thread |-> IF t \in Mine(p) THEN NoCall ELSE call[t]]
      /\ outcome' = [t \in Thread |-> IF t \in Mine(p) THEN Busy ELSE outcome[t]]
      /\ UNCHANGED <<file, at, answer>>
  BY DEF Exit, GoTo, CloseTransaction, Mine
<1>3. SessionType'
  <2>1. stage' \in [Process -> Stages]
    <3>1. stage' = stage \/ \E x \in Stages : stage' = [stage EXCEPT ![p] = x]
      BY <1>1, <1>2 DEF Stages
    <3> QED  BY <1>1, <3>1 DEF SessionType
  <2>2. /\ lock' \in [Process -> {"none", "shared", "reserved", "pending"}]
        /\ open' \in [Process -> BOOLEAN] /\ holder' \in [Process -> Thread \cup {NoThread}]
        /\ dirty' \in [Process -> BOOLEAN] /\ work' = [q \in Process |-> work'[q]]
    BY <1>1, <1>2 DEF SessionType
  <2>3. /\ pc' \in [Thread -> {"idle", "enter", "begin", "step", "end"}]
        /\ call' \in [Thread -> Calls \cup {NoCall}]
        /\ outcome' = [t \in Thread |-> outcome'[t]]
    BY <1>1, <1>2 DEF SessionType
  <2> QED  BY <1>1, <1>2, <2>1, <2>2, <2>3 DEF SessionType
<1>4. Frame(p)
  <2>1. OthersLeft(p)  BY <1>1, <1>2 DEF OthersLeft, SessionType
  <2>2. \A t \in Thread \ Mine(p) : pc'[t] = pc[t] /\ call'[t] = call[t] /\ outcome'[t] = outcome[t]
    BY <1>2
  <2> QED  BY <2>1, <2>2 DEF Frame, OthersLeft
<1>5. \A t \in Mine(p) : pc'[t] = "idle" /\ call'[t] = NoCall  BY <1>2 DEF Mine
<1>6. stage'[p] = "down" /\ Clean(p)'  BY <1>1, <1>2 DEF SessionType, Clean
<1>7. ClosedIsClean(p)' /\ RowsInOrder(p)' /\ UpIsClosed(p)'
  BY <1>6 DEF ClosedIsClean, RowsInOrder, UpIsClosed
<1>8. OneTransaction(p)'  BY <1>5 DEF OneTransaction, InTransaction, Mine
<1>9. CallsWhenUp(p)'  BY <1>5 DEF CallsWhenUp, Mine
<1>10. CallsInOrder(p)'  BY <1>5 DEF CallsInOrder, Mine
<1> QED  BY <1>3, <1>4, <1>7, <1>8, <1>9, <1>10 DEF Kept, Local
----------------------------------------------------------------------------
(* The invariant.                                                           *)

LEMMA StepKeepsIInv == IInv /\ [Next]_vars => IInv'
<1> SUFFICES ASSUME IInv, [Next]_vars PROVE IInv'  OBVIOUS
<1>1. ASSUME NEW t \in Thread, NEW c \in Calls, Invoke(t, c) PROVE IInv'
  <2>1. Home[t] \in Process /\ Kept(Home[t])  BY <1>1, InvokeKeeps, SessionAssumption
  <2> QED  BY <2>1, FrameKeeps DEF Kept
<1>2. ASSUME NEW t \in Thread, Step(t) PROVE IInv'
  <2>1. Kept(Home[t])
    BY <1>2, EnterKeeps, CallBeginsKeeps, CallRefusedKeeps, CallStepsKeeps, CallEndsKeeps DEF Step
  <2>2. Home[t] \in Process  BY SessionAssumption
  <2> QED  BY <2>1, <2>2, FrameKeeps DEF Kept
<1>3. ASSUME NEW p \in Process, Start(p) \/ Construct(p) \/ Exit(p) PROVE IInv'
  <2>1. Kept(p)
    BY <1>3, StartKeeps, OpenKeeps, GenerateTablesKeeps, RowBeginsKeeps, RowStepsKeeps,
       RowEndsKeeps, CheckKeeps, ExitKeeps DEF Construct
  <2> QED  BY <2>1, FrameKeeps DEF Kept
<1>4. CASE UNCHANGED vars
  <2>1. /\ file' = file /\ stage' = stage /\ at' = at /\ open' = open /\ lock' = lock
        /\ work' = work /\ dirty' = dirty /\ holder' = holder
        /\ pc' = pc /\ call' = call /\ outcome' = outcome /\ answer' = answer
    BY <1>4 DEF vars, ctor, conn, thread
  <2>2. SessionType'  BY <2>1 DEF IInv, SessionType
  <2>3. ASSUME NEW p \in Process PROVE Local(p)'
    <3>1. Local(p)  BY DEF IInv
    <3>2. ClosedIsClean(p)' /\ OneTransaction(p)' /\ CallsWhenUp(p)' /\ UpIsClosed(p)'
      BY <2>1, <3>1 DEF Local, ClosedIsClean, OneTransaction, CallsWhenUp, UpIsClosed,
         InTransaction, Clean, Mine
    <3>3. CallsInOrder(p)'  BY <2>1, <3>1 DEF Local, CallsInOrder, Got, Clean, Mine
    <3>4. RowsInOrder(p)'  BY <2>1, <3>1 DEF Local, RowsInOrder, Clean
    <3> QED  BY <3>2, <3>3, <3>4 DEF Local
  <2> QED  BY <2>2, <2>3 DEF IInv
<1> QED  BY <1>1, <1>2, <1>3, <1>4 DEF Next

\* The locks, the open transactions and the calls under way always fit each
\* other as IInv says.
THEOREM SessionInvariant == Spec => []IInv
<1>1. IInv /\ [Next]_vars => IInv'  BY StepKeepsIInv
<1> QED  BY InitIInv, <1>1, PTL DEF Spec

\* Between the calls of its threads a process that is up is outside a
\* transaction, unless an END was refused.
THEOREM SessionIdleIsClosed == Spec => []IdleIsClosed
<1>1. IInv => IdleIsClosed
  BY DEF IInv, Local, UpIsClosed, IdleIsClosed, InTransaction, Mine
<1> QED  BY SessionInvariant, <1>1, PTL

----------------------------------------------------------------------------
(* The refinement of AtomicCalls.                                           *)

\* A call that ends took its whole effect, or none.
LEMMA CallEndsAtomic ==
  ASSUME IInv, NEW t \in Thread, CallEnds(t)
  PROVE  Atomic!TakeEffect(t) \/ Atomic!Fail(t)
<1> DEFINE p == Home[t]
<1>1. p \in Process /\ t \in Mine(p)  BY SessionAssumption DEF Mine
<1>2. SessionType /\ Local(p)  BY <1>1 DEF IInv
<1>3. pc[t] = "end" /\ call' = [call EXCEPT ![t] = NoCall]  BY DEF CallEnds, Return
<1>4. Got(t, p) /\ call[t] # NoCall
  BY <1>1, <1>2, <1>3 DEF Local, CallsInOrder, CallsWhenUp
<1>5. CASE EndRefused(p) /\ Return(t, Busy)
  <2>1. Atomic!Fail(t)  BY <1>3, <1>4, <1>5 DEF EndRefused, Return, Atomic!Fail
  <2> QED  BY <2>1
<1>6. CASE EndTransaction(p) /\ Return(t, outcome[t])
  <2>1. /\ file' = IF dirty[p] THEN work[p] ELSE file
        /\ answer' = [answer EXCEPT ![t] = outcome[t]]
    BY <1>6 DEF EndTransaction, Return
  <2>2. CASE outcome[t] = Busy /\ Clean(p)
    BY <1>3, <1>4, <2>1, <2>2 DEF Clean, Atomic!Fail
  <2>3. CASE /\ outcome[t] = [ret |-> Effect(call[t], file).ret, rows |-> Effect(call[t], file).rows]
             /\ call[t] \notin Writes /\ ~dirty[p]
    BY <1>3, <1>4, <2>1, <2>3 DEF Atomic!TakeEffect
  <2>4. CASE /\ outcome[t] = [ret |-> Effect(call[t], file).ret, rows |-> Effect(call[t], file).rows]
             /\ call[t] \in Writes /\ work[p] = Effect(call[t], file).tables
             /\ (work[p] # file => dirty[p])
    <3>1. file' = Effect(call[t], file).tables  BY <2>1, <2>4
    <3> QED  BY <1>3, <1>4, <2>1, <2>4, <3>1 DEF Atomic!TakeEffect
  <2> QED  BY <1>4, <2>2, <2>3, <2>4 DEF Got
<1> QED  BY <1>5, <1>6 DEF CallEnds

\* A set-up step adds a table or a default row, or leaves the file alone.
LEMMA ConstructAtomic ==
  ASSUME IInv, NEW p \in Process, Start(p) \/ Construct(p)
  PROVE  Atomic!SetUp \/ UNCHANGED <<file, call, answer>>
<1>1. CASE GenerateTables(p)
  <2>1. UNCHANGED <<call, answer>>  BY <1>1 DEF GenerateTables, thread
  <2>2. file' = file \/ (at[p] \in 1..Len(TableSeq) /\ file' = GenerateTable(file, TableSeq[at[p]]))
    <3>1. at[p] \in Nat \ {0} /\ Len(TableSeq) \in Nat  BY DEF IInv, SessionType, TableSeq
    <3> QED  BY <1>1, <3>1 DEF GenerateTables
  <2>3. \A i \in 1..Len(TableSeq) : TableSeq[i] \in TableNames
    <3>1. TableNames = {"db_version", "user", "media_type", "media_subtype", "book_genre",
                        "document_tag", "source", "work_entry", "md5_sum", "refresh", "error_entry"}
      BY DEF TableNames, PrimaryKey
    <3> QED  BY <3>1 DEF TableSeq
  <2> QED  BY <2>1, <2>2, <2>3 DEF Atomic!SetUp
<1>2. CASE RowEnds(p)
  <2>1. UNCHANGED <<call, answer>>  BY <1>2 DEF RowEnds, thread
  <2>2. file' # file => file' = AddDefaultRow(file, Script[at[p]]) /\ at[p] \in DOMAIN Script
    BY <1>2, RowEndsAdds
  <2> QED  BY <2>1, <2>2 DEF Atomic!SetUp
<1>3. CASE Start(p) \/ Open(p) \/ Prepare(p) \/ RowBegins(p) \/ RowSteps(p) \/ CheckBegins(p) \/ CheckEnds(p)
  BY <1>3 DEF Start, Open, Prepare, RowBegins, RowSteps, CheckBegins, CheckEnds, thread
<1> QED  BY <1>1, <1>2, <1>3 DEF Construct

LEMMA StepIsAtomic ==
  ASSUME IInv, Next
  PROVE  Atomic!Next \/ UNCHANGED <<file, call, answer>>
<1>1. ASSUME NEW t \in Thread, NEW c \in Calls, Invoke(t, c) PROVE Atomic!Invoke(t, c)
  <2>1. call[t] = NoCall
    <3>1. Home[t] \in Process /\ t \in Mine(Home[t])  BY SessionAssumption DEF Mine
    <3>2. pc[t] = "idle"  BY <1>1 DEF Invoke
    <3> QED  BY <3>1, <3>2 DEF IInv, Local, CallsWhenUp
  <2> QED  BY <1>1, <2>1 DEF Invoke, Atomic!Invoke
<1>2. ASSUME NEW t \in Thread, CallRefused(t) PROVE Atomic!Fail(t)
  <2>1. call[t] # NoCall
    <3>1. Home[t] \in Process /\ t \in Mine(Home[t])  BY SessionAssumption DEF Mine
    <3>2. pc[t] = "begin"  BY <1>2 DEF CallRefused
    <3> QED  BY <3>1, <3>2 DEF IInv, Local, CallsWhenUp
  <2> QED  BY <1>2, <2>1 DEF CallRefused, Return, Atomic!Fail
<1>3. ASSUME NEW t \in Thread, Enter(t) \/ CallBegins(t) \/ CallSteps(t)
      PROVE  UNCHANGED <<file, call, answer>>
  BY <1>3 DEF Enter, CallBegins, CallSteps
<1>4. ASSUME NEW p \in Process, Exit(p) PROVE Atomic!Die(Mine(p))
  BY <1>4 DEF Exit, Atomic!Die, Mine
<1>5. \A p \in Process : Mine(p) \in SUBSET Thread  BY DEF Mine
<1>6. ASSUME NEW t \in Thread, Step(t) PROVE Atomic!Next \/ UNCHANGED <<file, call, answer>>
  <2>1. CASE CallEnds(t)  BY <2>1, CallEndsAtomic DEF Atomic!Next
  <2>2. CASE CallRefused(t)  BY <2>2, <1>2 DEF Atomic!Next
  <2>3. CASE Enter(t) \/ CallBegins(t) \/ CallSteps(t)  BY <2>3, <1>3
  <2> QED  BY <1>6, <2>1, <2>2, <2>3 DEF Step
<1>7. ASSUME NEW p \in Process, Start(p) \/ Construct(p)
      PROVE  Atomic!Next \/ UNCHANGED <<file, call, answer>>
  <2>1. Atomic!SetUp \/ UNCHANGED <<file, call, answer>>  BY <1>7, ConstructAtomic
  <2> QED  BY <2>1 DEF Atomic!Next
<1>8. ASSUME NEW p \in Process, Exit(p) PROVE Atomic!Next  BY <1>4, <1>5, <1>8 DEF Atomic!Next
<1>9. ASSUME NEW t \in Thread, NEW c \in Calls, Invoke(t, c) PROVE Atomic!Next
  BY <1>1, <1>9 DEF Atomic!Next
<1> QED  BY <1>6, <1>7, <1>8, <1>9 DEF Next

\* Each call of a database shared by any number of processes and threads takes
\* its whole effect in one step or has none, now or later: DatabaseSession
\* implements AtomicCalls.
THEOREM SessionIsAtomic == Spec => CallsAreAtomic
<1>1. Init => Atomic!Init
  BY DEF Init, Atomic!Init, NoTables, Atomic!NoTables
<1>2. IInv /\ [Next]_vars => [Atomic!Next]_<<file, call, answer>>
  <2>1. UNCHANGED vars => UNCHANGED <<file, call, answer>>  BY DEF vars, thread
  <2> QED  BY <2>1, StepIsAtomic
<1> QED  BY <1>1, <1>2, SessionInvariant, PTL DEF Spec, CallsAreAtomic, Atomic!Spec

----------------------------------------------------------------------------
(* Types, and a process that has the file for itself.                       *)

\* The types of what the invariant does not read.
RestType ==
    /\ present \in BOOLEAN /\ first \in [Process -> BOOLEAN] /\ failed \in [Process -> BOOLEAN]
    /\ made \in Nat /\ starts \in Nat
    /\ undisturbed \in [Process -> BOOLEAN]

LEMMA InitRestType == Init => RestType
<1>1. Init => made \in Nat /\ starts \in Nat  BY DEF Init
<1>2. Init => present \in BOOLEAN  BY DEF Init
<1>3. Init => first \in [Process -> BOOLEAN]  BY DEF Init
<1>4. Init => failed \in [Process -> BOOLEAN]  BY DEF Init
<1>5. Init => undisturbed \in [Process -> BOOLEAN]  BY DEF Init
<1> QED  BY <1>1, <1>2, <1>3, <1>4, <1>5 DEF RestType

LEMMA StepKeepsRestType == IInv /\ RestType /\ [Next]_vars => RestType'
<1> SUFFICES ASSUME IInv, RestType, [Next]_vars PROVE RestType'  OBVIOUS
<1>1. ASSUME NEW t \in Thread, NEW c \in Calls, Invoke(t, c) PROVE RestType'
  <2>1. UNCHANGED <<present, first, failed, starts>> /\ made' = made + 1
    BY <1>1 DEF Invoke, ctor
  <2>2. undisturbed' = [undisturbed EXCEPT ![Home[t]] = undisturbed[Home[t]] /\ c \in Locked]
    BY <1>1 DEF Invoke
  <2>3. (undisturbed[Home[t]] /\ c \in Locked) \in BOOLEAN  OBVIOUS
  <2>4. undisturbed' \in [Process -> BOOLEAN]  BY <2>2, <2>3 DEF RestType
  <2> QED  BY <2>1, <2>4 DEF RestType
<1>2. ASSUME NEW t \in Thread, Step(t) PROVE RestType'
  <2>1. UNCHANGED <<present, first, failed, made, starts, undisturbed>>
    BY <1>2 DEF Step, Enter, CallBegins, CallRefused, CallSteps, CallEnds, Return, ctor
  <2> QED  BY <2>1 DEF RestType
<1>3. ASSUME NEW p \in Process, Start(p) PROVE RestType'
  <2>1. /\ starts' = starts + 1 /\ UNCHANGED <<present, made>>
        /\ first' = [first EXCEPT ![p] = ~present] /\ failed' = [failed EXCEPT ![p] = FALSE]
    BY <1>3 DEF Start
  <2>2. undisturbed' = [q \in Process |->
          IF q = p THEN \A o \in Others(p) : ~Running(o) ELSE FALSE]
    BY <1>3 DEF Start
  <2>3. undisturbed' \in [Process -> BOOLEAN]
    <3>1. (\A o \in Others(p) : ~Running(o)) \in BOOLEAN  OBVIOUS
    <3> QED  BY <2>2, <3>1
  <2>4. present' \in BOOLEAN /\ made' \in Nat /\ starts' \in Nat  BY <2>1 DEF RestType
  <2>5. first' \in [Process -> BOOLEAN]  BY <2>1 DEF RestType
  <2>6. failed' \in [Process -> BOOLEAN]  BY <2>1 DEF RestType
  <2> QED  BY <2>3, <2>4, <2>5, <2>6 DEF RestType
<1>4. ASSUME NEW p \in Process, Construct(p) PROVE RestType'
  <2>1. UNCHANGED <<first, made, starts, undisturbed>> /\ present' \in {present, TRUE}
    BY <1>4 DEF Construct, Open, GenerateTables, Prepare, RowBegins, RowSteps, RowEnds,
       CheckBegins, CheckEnds
  <2>2. failed' = failed \/ \E b \in BOOLEAN : failed' = [failed EXCEPT ![p] = b]
    BY <1>4 DEF Construct, Open, GenerateTables, Prepare, RowBegins, RowSteps, RowEnds,
       CheckBegins, CheckEnds, RowFails, RestType
  <2> QED  BY <2>1, <2>2 DEF RestType
<1>5. ASSUME NEW p \in Process, Exit(p) PROVE RestType'
  BY <1>5 DEF Exit, RestType
<1>6. CASE UNCHANGED vars
  BY <1>6 DEF vars, ctor, RestType
<1> QED  BY <1>1, <1>2, <1>3, <1>4, <1>5, <1>6 DEF Next

\* The variables have their types, and a lock or changed pages are only ever
\* found in an open transaction.
THEOREM SessionTypeCorrect == Spec => []TypeOK
<1>1. Init => RestType  BY InitRestType
<1>2. IInv /\ RestType => TypeOK
  BY DEF IInv, SessionType, RestType, TypeOK, Local, ClosedIsClean, Clean
<1>3. IInv /\ RestType /\ [Next]_vars => RestType'  BY StepKeepsRestType
<1> QED  BY <1>1, <1>2, <1>3, SessionInvariant, PTL DEF Spec

\* What holds of a process that has run alone on the file since it started, all
\* of its calls behind the mutex: nobody's lock is in its way, and its mutex
\* covers the transactions of its threads.
Solo(p) ==
    undisturbed[p] /\ stage[p] # "down" =>
      /\ \A q \in Others(p) : stage[q] = "down" /\ lock[q] = "none"
      /\ lock[p] # "pending"
      /\ \A t \in Mine(p) :
           /\ pc[t] \in {"begin", "step", "end"} => holder[p] = t
           /\ pc[t] = "end" => outcome[t] # Busy

\* A process that is down holds no lock.
DownIsClosed(p) == stage[p] = "down" => ~open[p]

SoloInv == \A p \in Process : Solo(p) /\ DownIsClosed(p)

\* What a statement answers is never what a refused lock answers.
AnswersDiffer == \A c \in Calls : \A s : Effect(c, s).ret # Busy.ret

\* The statements answer 0 or -1, so the calls that run them are of this kind.
LEMMA StatementsDiffer ==
  ASSUME NEW t, NEW name, NEW row, NEW cond, NEW columns, NEW rows
  PROVE  /\ Insert(t, name, row).ret # Busy.ret
         /\ Update(t, name, cond, row, columns).ret # Busy.ret
         /\ Delete(t, name, cond).ret # Busy.ret
         /\ Done(t, rows).ret # Busy.ret /\ Refused(t).ret # Busy.ret
BY DEF Insert, Update, Delete, Done, Refused, Busy

\* A process that is alone is in no other process's way either, so only its own
\* step matters to it.
LEMMA SoloKept ==
  ASSUME IInv, SoloInv, NEW p \in Process, stage[p] # "down", Kept(p),
         \A q \in Others(p) : undisturbed'[q] => undisturbed[q],
         Solo(p)', DownIsClosed(p)'
  PROVE  SoloInv'
<1> SUFFICES ASSUME NEW q \in Process, q # p PROVE Solo(q)' /\ DownIsClosed(q)'  BY DEF SoloInv
<1>1. stage'[q] = stage[q] /\ open'[q] = open[q]  BY DEF Kept, Frame
<1>2. DownIsClosed(q)'  BY <1>1 DEF SoloInv, DownIsClosed
<1>3. undisturbed[q] /\ stage[q] # "down" => FALSE  BY DEF SoloInv, Solo, Others
<1>4. undisturbed'[q] => undisturbed[q]  BY DEF Others
<1> QED  BY <1>1, <1>2, <1>3, <1>4 DEF Solo

\* Alone, every lock is granted and every commit goes through.
LEMMA SoloIsGranted ==
  ASSUME NEW p \in Process, Solo(p), undisturbed[p], stage[p] # "down"
  PROVE  CanRead(p) /\ CanWrite(p) /\ CanCommit(p)
BY DEF Solo, CanRead, CanWrite, CanCommit, Others

LEMMA CallsKeepSolo ==
  ASSUME AnswersDiffer, IInv, SoloInv, NEW t \in Thread, (\E c \in Calls : Invoke(t, c)) \/ Step(t),
         Kept(Home[t]), RestType
  PROVE  SoloInv'
<1> DEFINE p == Home[t]
<1>1. p \in Process /\ t \in Mine(p)  BY SessionAssumption DEF Mine
<1>2. SessionType /\ Local(p) /\ Solo(p) /\ DownIsClosed(p)  BY <1>1 DEF IInv, SoloInv
<1>3. stage[p] \in {"up", "broken"}
  <2>1. pc[t] # "idle" => stage[p] \in {"up", "broken"}  BY <1>1, <1>2 DEF Local, CallsWhenUp
  <2> QED  BY <2>1 DEF Invoke, Step, Enter, CallBegins, CallRefused, CallSteps, CallEnds
<1>4. stage' = stage
  BY DEF Invoke, Step, Enter, CallBegins, CallRefused, CallSteps, CallEnds, Return, ctor
<1>5. /\ \A q \in Process : undisturbed'[q] => undisturbed[q]
      /\ \A q \in Process \ {p} : lock'[q] = lock[q]
  <2>1. undisturbed' = undisturbed \/ \E c \in Calls :
          undisturbed' = [undisturbed EXCEPT ![p] = undisturbed[p] /\ c \in Locked]
    BY DEF Invoke, Step, Enter, CallBegins, CallRefused, CallSteps, CallEnds, Return
  <2>2. \A q \in Process : undisturbed'[q] => undisturbed[q]  BY <2>1 DEF RestType
  <2> QED  BY <2>2 DEF Kept, Frame
<1>6. DownIsClosed(p)'  BY <1>3, <1>4 DEF DownIsClosed
<1>7. ASSUME undisturbed'[p] PROVE Solo(p)'
  <2>1. /\ undisturbed[p] /\ stage[p] # "down"
        /\ \A q \in Others(p) : stage[q] = "down" /\ lock[q] = "none"
        /\ lock[p] # "pending"
        /\ \A u \in Mine(p) :
             /\ pc[u] \in {"begin", "step", "end"} => holder[p] = u
             /\ pc[u] = "end" => outcome[u] # Busy
    BY <1>1, <1>2, <1>3, <1>5, <1>7 DEF Solo
  <2>2. CanRead(p) /\ CanWrite(p) /\ CanCommit(p)  BY <1>1, <1>2, <2>1, SoloIsGranted
  <2>3. \A q \in Others(p) : stage'[q] = "down" /\ lock'[q] = "none"
    BY <1>4, <1>5, <2>1 DEF Others
  <2> DEFINE Goal == /\ lock'[p] # "pending"
                     /\ \A u \in Mine(p) :
                          /\ pc'[u] \in {"begin", "step", "end"} => holder'[p] = u
                          /\ pc'[u] = "end" => outcome'[u] # Busy
  <2>4. Goal
    <3>1. ASSUME NEW c \in Calls, Invoke(t, c) PROVE Goal
      <4>1. c \in Locked
        <5>1. undisturbed' = [undisturbed EXCEPT ![p] = undisturbed[p] /\ c \in Locked]
          BY <3>1 DEF Invoke
        <5> QED  BY <1>1, <1>7, <5>1 DEF RestType
      <4>2. pc' = [pc EXCEPT ![t] = "enter"] /\ UNCHANGED <<conn, holder, outcome>>
        BY <3>1, <4>1 DEF Invoke
      <4>3. lock' = lock  BY <4>2 DEF conn
      <4> QED  BY <1>1, <1>2, <2>1, <4>2, <4>3 DEF SessionType, Mine
    <3>2. CASE Enter(t)
      <4>1. /\ pc' = [pc EXCEPT ![t] = "begin"] /\ holder[p] = NoThread
            /\ holder' = [holder EXCEPT ![p] = t] /\ UNCHANGED <<conn, outcome>>
        BY <3>2 DEF Enter
      <4>2. lock' = lock  BY <4>1 DEF conn
      <4>3. \A u \in Mine(p) \ {t} : pc[u] \notin {"begin", "step", "end"}
        BY <2>1, <4>1, SessionAssumption DEF Mine
      <4> QED  BY <1>1, <1>2, <2>1, <4>1, <4>2, <4>3 DEF SessionType, Mine
    <3>3. CASE CallBegins(t)
      BY <1>1, <1>2, <2>1, <3>3 DEF CallBegins, BeginTransaction, SessionType, Mine
    <3>4. CASE CallRefused(t) \/ CallEnds(t)
      <4>1. /\ pc' = [pc EXCEPT ![t] = "idle"] /\ outcome' = [outcome EXCEPT ![t] = Busy]
            /\ holder' = [holder EXCEPT ![p] = IF @ = t THEN NoThread ELSE @]
            /\ pc[t] \in {"begin", "end"}
        BY <3>4 DEF CallRefused, CallEnds, Return
      <4>2. lock'[p] # "pending"
        BY <1>1, <1>2, <2>1, <2>2, <3>4
           DEF CallRefused, CallEnds, EndTransaction, EndRefused, CloseTransaction, SessionType, conn
      <4>3. \A u \in Mine(p) \ {t} : pc[u] \notin {"begin", "step", "end"}  BY <1>1, <2>1, <4>1
      <4> QED  BY <1>1, <1>2, <4>1, <4>2, <4>3 DEF SessionType, Mine
    <3>5. CASE CallSteps(t)
      <4>1. /\ pc[t] = "step" /\ pc' = [pc EXCEPT ![t] = "end"] /\ holder' = holder
            /\ outcome' = [outcome EXCEPT ![t] = [ret |-> Effect(call[t], file).ret,
                                                  rows |-> Effect(call[t], file).rows]]
        BY <2>2, <3>5 DEF CallSteps
      <4>2. call[t] \in Calls
        BY <1>1, <1>2, <4>1 DEF SessionType, Local, CallsWhenUp
      <4>3. outcome'[t] # Busy
        <5>1. outcome'[t].ret = Effect(call[t], file).ret  BY <1>2, <4>1 DEF SessionType
        <5> QED  BY <4>2, <5>1 DEF AnswersDiffer
      <4>4. lock'[p] # "pending"
        BY <1>1, <1>2, <2>1, <3>5 DEF CallSteps, WritePages, ReadPages, SessionType
      <4> QED  BY <1>1, <1>2, <2>1, <4>1, <4>3, <4>4 DEF SessionType, Mine
    <3> QED  BY <3>1, <3>2, <3>3, <3>4, <3>5 DEF Step
  <2> QED  BY <2>3, <2>4 DEF Solo
<1>8. Solo(p)'  BY <1>7 DEF Solo
<1> QED  BY <1>1, <1>3, <1>5, <1>6, <1>8, SoloKept DEF Others

LEMMA ConstructKeepsSolo ==
  ASSUME IInv, SoloInv, NEW p \in Process, Construct(p), Kept(p)
  PROVE  SoloInv'
<1>1. SessionType /\ Local(p) /\ Solo(p) /\ DownIsClosed(p)  BY DEF IInv, SoloInv
<1>2. /\ stage[p] \notin {"down", "up", "broken"} /\ UNCHANGED <<holder, thread, undisturbed>>
  BY DEF Construct, Open, GenerateTables, Prepare, RowBegins, RowSteps, RowEnds, CheckBegins, CheckEnds
<1>3. DownIsClosed(p)'
  <2>1. stage' = stage \/ \E x \in Stages \ {"down"} : stage' = [stage EXCEPT ![p] = x]
    BY DEF Construct, Open, GenerateTables, Prepare, RowBegins, RowSteps, RowEnds, CheckBegins,
       CheckEnds, RowFails, GoTo, Stages
  <2>2. stage'[p] # "down"  BY <1>1, <1>2, <2>1 DEF SessionType
  <2> QED  BY <2>2 DEF DownIsClosed
<1>4. ASSUME undisturbed[p] PROVE Solo(p)'
  <2>1. /\ \A q \in Others(p) : stage[q] = "down" /\ lock[q] = "none"
        /\ lock[p] # "pending"
    BY <1>1, <1>2, <1>4 DEF Solo
  <2>2. CanRead(p) /\ CanWrite(p) /\ CanCommit(p)  BY <1>1, <1>2, <1>4, SoloIsGranted
  <2>3. \A q \in Others(p) : stage'[q] = "down" /\ lock'[q] = "none"
    BY <2>1 DEF Kept, Frame, Others
  <2>4. \A t \in Mine(p) : pc'[t] = "idle"
    BY <1>1, <1>2 DEF Local, CallsWhenUp, thread
  <2>5. lock'[p] # "pending"
    <3>1. CASE RowEnds(p)
      BY <1>1, <2>2, <3>1 DEF RowEnds, EndTransaction, EndRefused, CloseTransaction, SessionType
    <3>2. CASE Open(p) \/ GenerateTables(p) \/ Prepare(p) \/ RowBegins(p)
      <4>1. lock' = lock
        BY <3>2 DEF Open, GenerateTables, Prepare, RowBegins, BeginTransaction, conn
      <4> QED  BY <2>1, <4>1
    <3>3. CASE RowSteps(p)
      BY <1>1, <2>1, <3>3 DEF RowSteps, WritePages, SessionType
    <3>4. CASE CheckBegins(p) \/ CheckEnds(p)
      BY <1>1, <2>1, <3>4 DEF CheckBegins, CheckEnds, ReadPages, CloseTransaction, SessionType, conn
    <3> QED  BY <3>1, <3>2, <3>3, <3>4 DEF Construct
  <2> QED  BY <2>3, <2>4, <2>5 DEF Solo
<1>5. Solo(p)'  BY <1>2, <1>4 DEF Solo
<1> QED  BY <1>2, <1>3, <1>5, SoloKept

LEMMA StartKeepsSolo ==
  ASSUME IInv, SoloInv, RestType, NEW p \in Process, Start(p), Kept(p)
  PROVE  SoloInv'
<1>1. SessionType /\ Local(p) /\ DownIsClosed(p)  BY DEF IInv, SoloInv
<1>2. /\ stage[p] = "down" /\ stage' = [stage EXCEPT ![p] = "opening"]
      /\ undisturbed' = [q \in Process |-> IF q = p THEN \A o \in Others(p) : ~Running(o) ELSE FALSE]
      /\ open' = open /\ lock' = lock /\ pc' = pc
  BY DEF Start, GoTo, conn, thread
<1>3. \A q \in Process : stage[q] = "down" => lock[q] = "none"
  BY DEF IInv, SoloInv, DownIsClosed, Local, ClosedIsClean, Clean
<1>4. Solo(p)'
  <2>1. undisturbed'[p] => \A o \in Others(p) : stage[o] = "down"  BY <1>2 DEF Running
  <2>2. \A o \in Others(p) : stage'[o] = stage[o] /\ lock'[o] = lock[o]
    BY <1>1, <1>2 DEF Others, SessionType
  <2>3. \A t \in Mine(p) : pc'[t] = "idle"
    BY <1>1, <1>2 DEF Local, CallsWhenUp
  <2>4. lock'[p] # "pending"  BY <1>2, <1>3
  <2> QED  BY <1>3, <2>1, <2>2, <2>3, <2>4 DEF Solo, Others
<1>5. ASSUME NEW q \in Process, q # p PROVE Solo(q)' /\ DownIsClosed(q)'
  <2>1. ~undisturbed'[q] /\ stage'[q] = stage[q] /\ open'[q] = open[q]
    BY <1>1, <1>2, <1>5 DEF SessionType
  <2> QED  BY <2>1 DEF Solo, SoloInv, DownIsClosed
<1>6. DownIsClosed(p)'  BY <1>1, <1>2 DEF DownIsClosed, SessionType
<1> QED  BY <1>4, <1>5, <1>6 DEF SoloInv

LEMMA ExitKeepsSolo ==
  ASSUME IInv, SoloInv, NEW p \in Process, Exit(p), Kept(p)
  PROVE  SoloInv'
<1>1. stage[p] # "down" /\ undisturbed' = undisturbed  BY DEF Exit, Running
<1>2. stage'[p] = "down" /\ ~open'[p]
  BY DEF Exit, GoTo, CloseTransaction, IInv, SessionType
<1>3. Solo(p)' /\ DownIsClosed(p)'  BY <1>2 DEF Solo, DownIsClosed
<1> QED  BY <1>1, <1>3, SoloKept

LEMMA StepKeepsSolo == AnswersDiffer /\ IInv /\ RestType /\ SoloInv /\ [Next]_vars => SoloInv'
<1> SUFFICES ASSUME AnswersDiffer, IInv, RestType, SoloInv, [Next]_vars PROVE SoloInv'  OBVIOUS
<1>1. ASSUME NEW t \in Thread, (\E c \in Calls : Invoke(t, c)) \/ Step(t) PROVE SoloInv'
  <2>1. Kept(Home[t])
    BY <1>1, InvokeKeeps, EnterKeeps, CallBeginsKeeps, CallRefusedKeeps, CallStepsKeeps,
       CallEndsKeeps DEF Step
  <2> QED  BY <1>1, <2>1, CallsKeepSolo
<1>2. ASSUME NEW p \in Process, Construct(p) PROVE SoloInv'
  <2>1. Kept(p)
    BY <1>2, OpenKeeps, GenerateTablesKeeps, RowBeginsKeeps, RowStepsKeeps, RowEndsKeeps,
       CheckKeeps DEF Construct
  <2> QED  BY <1>2, <2>1, ConstructKeepsSolo
<1>3. ASSUME NEW p \in Process, Start(p) PROVE SoloInv'
  BY <1>3, StartKeeps, StartKeepsSolo
<1>4. ASSUME NEW p \in Process, Exit(p) PROVE SoloInv'
  BY <1>4, ExitKeeps, ExitKeepsSolo
<1>5. CASE UNCHANGED vars
  BY <1>5 DEF vars, ctor, conn, thread, SoloInv, Solo, DownIsClosed
<1> QED  BY <1>1, <1>2, <1>3, <1>4, <1>5 DEF Next

\* What AloneIsNeverBusy says of one step.
NeverBusy ==
    \A t \in Thread :
      call[t] # NoCall /\ call'[t] = NoCall /\ answer'[t] = Busy /\ stage'[Home[t]] = "up"
      => ~undisturbed[Home[t]]

LEMMA StepNeverBusy == AnswersDiffer /\ IInv /\ SoloInv /\ [Next]_vars => NeverBusy
<1> SUFFICES ASSUME AnswersDiffer, IInv, SoloInv, [Next]_vars, NEW t \in Thread,
                    call[t] # NoCall, call'[t] = NoCall, answer'[t] = Busy,
                    stage'[Home[t]] = "up", undisturbed[Home[t]]
             PROVE  FALSE
  BY DEF NeverBusy
<1> DEFINE p == Home[t]
<1>1. p \in Process /\ t \in Mine(p)  BY SessionAssumption DEF Mine
<1>2. SessionType /\ Local(p) /\ Solo(p)  BY <1>1 DEF IInv, SoloInv
<1>3. CASE CallRefused(t)
  <2>1. pc[t] = "begin" /\ stage' = stage  BY <1>3 DEF CallRefused, Return, ctor
  <2>2. open[p] /\ holder[p] = t /\ lock[p] # "pending"
    BY <1>1, <1>2, <1>3, <2>1 DEF CallRefused, CheckInitialized, Solo
  <2>3. PICK u \in Mine(p) : InTransaction(u)  BY <1>2, <2>1, <2>2 DEF Local, UpIsClosed
  <2>4. u = t
    <3>1. holder[p] = u  BY <1>2, <2>1, <2>3 DEF Solo, InTransaction
    <3> QED  BY <2>2, <3>1
  <2> QED  BY <2>1, <2>3, <2>4 DEF InTransaction
<1>4. CASE CallEnds(t)
  <2>1. pc[t] = "end" /\ stage' = stage  BY <1>4 DEF CallEnds, Return, ctor
  <2>2. CanCommit(p) /\ outcome[t] # Busy
    <3>1. stage[p] # "down"  BY <2>1
    <3> QED  BY <1>1, <1>2, <2>1, <3>1, SoloIsGranted DEF Solo
  <2>3. answer' = [answer EXCEPT ![t] = outcome[t]]
    BY <1>4, <2>2 DEF CallEnds, EndRefused, Return
  <2> QED  BY <1>2, <2>2, <2>3 DEF SessionType
<1>5. CASE \E u \in Thread \ {t} : (\E c \in Calls : Invoke(u, c)) \/ Step(u)
  <2>1. call'[t] = call[t]
    BY <1>2, <1>5 DEF Invoke, Step, Enter, CallBegins, CallRefused, CallSteps, CallEnds, Return,
       SessionType
  <2> QED  BY <2>1
<1>6. CASE (\E c \in Calls : Invoke(t, c)) \/ Enter(t) \/ CallBegins(t) \/ CallSteps(t)
  <2>1. call' = call \/ \E c \in Calls : call' = [call EXCEPT ![t] = c]
    BY <1>6 DEF Invoke, Enter, CallBegins, CallSteps
  <2> QED  BY <1>2, <2>1, SessionAssumption DEF SessionType
<1>7. CASE \E q \in Process : Start(q) \/ Construct(q)
  <2>1. call' = call
    BY <1>7 DEF Start, Construct, Open, GenerateTables, Prepare, RowBegins, RowSteps, RowEnds,
       CheckBegins, CheckEnds, thread
  <2> QED  BY <2>1
<1>8. CASE \E q \in Process : Exit(q)
  <2>1. PICK q \in Process : Exit(q)  BY <1>8
  <2>2. stage' = [stage EXCEPT ![q] = "down"]
        /\ call' = [u \in Thread |-> IF Home[u] = q THEN NoCall ELSE call[u]]
    BY <2>1 DEF Exit, GoTo
  <2>3. q # p  BY <1>1, <1>2, <2>2 DEF SessionType
  <2> QED  BY <2>2, <2>3
<1>9. CASE UNCHANGED vars
  BY <1>9 DEF vars, thread
<1> QED  BY <1>3, <1>4, <1>5, <1>6, <1>7, <1>8, <1>9 DEF Next, Step

\* A process that shares the file with no other and makes only calls behind the
\* mutex is never answered busy.
THEOREM SessionAloneIsNeverBusy ==
  ASSUME AnswersDiffer
  PROVE  Spec => AloneIsNeverBusy
<1>1. Init => SoloInv  BY DEF Init, SoloInv, Solo, DownIsClosed
<1>2. IInv /\ RestType /\ SoloInv /\ [Next]_vars => NeverBusy /\ SoloInv'
  BY StepKeepsSolo, StepNeverBusy
<1>3. IInv /\ [Next]_vars => IInv'  BY StepKeepsIInv
<1>4. IInv /\ RestType /\ [Next]_vars => RestType'  BY StepKeepsRestType
<1> QED  BY <1>1, <1>2, <1>3, <1>4, InitIInv, InitRestType, PTL DEF Spec, AloneIsNeverBusy, NeverBusy

----------------------------------------------------------------------------
(* First-time setup: what a process that is up has found in the file.       *)

\* The calls leave the tables of the defaults alone and drop no table.
LeavesDefaults(t, u) ==
    DOMAIN u = DOMAIN t /\ \A n \in DefaultTables \cap DOMAIN t : u[n] = t[n]
CallsLeaveDefaults == \A c \in Calls : \A t : LeavesDefaults(t, Effect(c, t).tables)

\* So do the statements on another table, and those that only read or refuse:
\* each call of BlackLibraryDB runs one of them.
LEMMA StatementsLeaveDefaults ==
  ASSUME NEW t, NEW name, name \notin DefaultTables,
         NEW row, NEW cond, NEW columns, NEW rows
  PROVE  /\ LeavesDefaults(t, Insert(t, name, row).tables)
         /\ LeavesDefaults(t, Update(t, name, cond, row, columns).tables)
         /\ LeavesDefaults(t, Delete(t, name, cond).tables)
         /\ LeavesDefaults(t, Done(t, rows).tables) /\ LeavesDefaults(t, Refused(t).tables)
<1>1. \A x : LeavesDefaults(t, [t EXCEPT ![name] = x])  BY DEF LeavesDefaults
<1>2. LeavesDefaults(t, t)  BY DEF LeavesDefaults
<1>3. \E x : Insert(t, name, row).tables \in {t, [t EXCEPT ![name] = x]}
  BY DEF Insert, Done, Refused
<1>4. \E x : Update(t, name, cond, row, columns).tables \in {t, [t EXCEPT ![name] = x]}
  BY DEF Update, Done, Refused
<1>5. \E x : Delete(t, name, cond).tables \in {t, [t EXCEPT ![name] = x]}
  BY DEF Delete, Done
<1> QED  BY <1>1, <1>2, <1>3, <1>4, <1>5 DEF Done, Refused

\* The calls that write, on the tables they write.
LEMMA WritingCallsLeaveDefaults ==
  ASSUME NEW t, NEW row, NEW uuid, NEW num
  PROVE  /\ LeavesDefaults(t, CreateEntry(t, row).tables)
         /\ LeavesDefaults(t, UpdateEntry(t, row).tables)
         /\ LeavesDefaults(t, DeleteEntry(t, uuid).tables)
         /\ LeavesDefaults(t, CreateMd5Sum(t, row).tables)
         /\ LeavesDefaults(t, UpdateMd5SumByIndexNum(t, row).tables)
         /\ LeavesDefaults(t, UpdateMd5SumBySeqNum(t, row).tables)
         /\ LeavesDefaults(t, DeleteMd5Sum(t, uuid, num).tables)
         /\ LeavesDefaults(t, CreateRefresh(t, row).tables)
         /\ LeavesDefaults(t, DeleteRefresh(t, uuid).tables)
         /\ LeavesDefaults(t, CreateErrorEntry(t, row).tables)
         /\ LeavesDefaults(t, DeleteErrorEntry(t, uuid, num).tables)
<1>1. \A n \in {"work_entry", "md5_sum", "refresh", "error_entry"} : n \notin DefaultTables
  BY DEF DefaultTables
<1> QED  BY <1>1, StatementsLeaveDefaults
   DEF CreateEntry, UpdateEntry, DeleteEntry, CreateMd5Sum, UpdateMd5SumByIndexNum,
       UpdateMd5SumBySeqNum, DeleteMd5Sum, CreateRefresh, DeleteRefresh, CreateErrorEntry,
       DeleteErrorEntry

Has(t, i) == Script[i].table \in DOMAIN t /\ Script[i].row \in t[Script[i].table]
Filled(t) == \A i \in DOMAIN Script : Has(t, i)

\* A file with a version has every default row.
VersionIsLast == "db_version" \in DOMAIN file /\ file["db_version"] # {} => Filled(file)

Adding == {"rows", "row", "row end"}

\* What set-up has done at each of its stages: the tables are there from the
\* rows on, the rows before the position unless one failed, and the version is
\* only written when none did.
SetsUp(p) ==
    /\ stage[p] \in {"opening", "prepare"} => at[p] = 1
    /\ stage[p] \in Adding \cup {"row failed", "check", "checked", "up"} => PrepareStatements(file)
    /\ stage[p] \in Adding /\ ~failed[p] => \A i \in DOMAIN Script : i < at[p] => Has(file, i)
    /\ stage[p] \in {"row", "row end"} /\ Script[at[p]].table = "db_version" => ~failed[p]
    /\ stage[p] = "row end" => Has(work[p], at[p]) /\ (work[p] # file => dirty[p])
    /\ stage[p] = "up" => Filled(file)

SetUpInv == VersionIsLast /\ \A p \in Process : SetsUp(p)

\* The tables stay and those of the defaults lose no row.
Grows ==
    /\ DOMAIN file \subseteq DOMAIN file'
    /\ \A n \in DefaultTables \cap DOMAIN file : file[n] \subseteq file'[n]

\* The script as the proofs use it.
LEMMA ScriptFacts ==
  /\ Len(Script) \in Nat \ {0} /\ DOMAIN Script = 1..Len(Script)
  /\ \A i \in DOMAIN Script :
       /\ Script[i].table \in DefaultTables
       /\ Script[i].table = "db_version" <=> i = Len(Script)
BY SessionAssumption, ScriptAssumption DEF ScriptInOrder

\* Prepared statements name the tables of the defaults.
LEMMA DefaultsArePrepared ==
  ASSUME NEW t, PrepareStatements(t)
  PROVE  DefaultTables \subseteq DOMAIN t
<1>1. DefaultTables \subseteq TableNames \ {"book_genre", "document_tag"}
  BY DEF DefaultTables, TableNames, PrimaryKey
<1> QED  BY <1>1 DEF PrepareStatements

\* An INSERT changes one table, if any.
LEMMA InsertAdds ==
  ASSUME NEW t, NEW name, NEW row
  PROVE  LET r == Insert(t, name, row)
         IN  /\ DOMAIN r.tables = DOMAIN t
             /\ \A n \in DOMAIN t : n # name => r.tables[n] = t[n]
             /\ \A n \in DOMAIN t : t[n] \subseteq r.tables[n]
             /\ \A n \in DOMAIN t : r.tables[n] \subseteq t[n] \cup {row}
BY DEF Insert, Refused, Done

\* One that succeeds stores its row.
LEMMA InsertDone ==
  ASSUME NEW t, NEW name \in DOMAIN t, NEW row, Insert(t, name, row).ret = 0
  PROVE  /\ DOMAIN Insert(t, name, row).tables = DOMAIN t
         /\ row \in Insert(t, name, row).tables[name]
<1>1. Insert(t, name, row) = Done([t EXCEPT ![name] = t[name] \cup {row}], {})
  BY DEF Insert, Refused
<1> QED  BY <1>1 DEF Done

\* What any step may do to the file.
FileChange ==
    \/ file' = file
    \/ \E name \in TableNames : file' = GenerateTable(file, name)
    \/ \E c \in Calls : file' = Effect(c, file).tables
    \/ \E p \in Process : stage[p] = "row end" /\ dirty[p] /\ file' = work[p]

LEMMA StepChangesFile ==
  ASSUME IInv, Next
  PROVE  FileChange
<1>1. ASSUME NEW t \in Thread, CallEnds(t) PROVE FileChange
  <2> DEFINE p == Home[t]
  <2>1. p \in Process /\ t \in Mine(p)  BY SessionAssumption DEF Mine
  <2>2. SessionType /\ Local(p) /\ pc[t] = "end"  BY <1>1, <2>1 DEF IInv, CallEnds
  <2>3. Got(t, p) /\ call[t] \in Calls
    BY <2>1, <2>2 DEF SessionType, Local, CallsInOrder, CallsWhenUp
  <2>4. file' = file \/ (dirty[p] /\ file' = work[p])
    BY <1>1 DEF CallEnds, EndTransaction, EndRefused
  <2>5. dirty[p] => work[p] = Effect(call[t], file).tables  BY <2>3 DEF Got, Clean
  <2> QED  BY <2>3, <2>4, <2>5 DEF FileChange
<1>2. ASSUME NEW p \in Process, RowEnds(p) PROVE FileChange
  <2>1. Local(p) /\ stage[p] \in {"row end", "row failed"}  BY <1>2 DEF IInv, RowEnds
  <2>2. file' = file \/ (dirty[p] /\ file' = work[p])
    BY <1>2 DEF RowEnds, EndTransaction, EndRefused
  <2>3. stage[p] = "row failed" /\ dirty[p] => work[p] = file
    BY <2>1 DEF Local, RowsInOrder, Clean
  <2> QED  BY <2>1, <2>2, <2>3 DEF FileChange
<1>3. ASSUME NEW p \in Process, GenerateTables(p) PROVE FileChange
  <2>1. file' = file \/ (at[p] \in 1..Len(TableSeq) /\ file' = GenerateTable(file, TableSeq[at[p]]))
    <3>1. at[p] \in Nat \ {0} /\ Len(TableSeq) \in Nat  BY DEF IInv, SessionType, TableSeq
    <3> QED  BY <1>3, <3>1 DEF GenerateTables
  <2>2. \A i \in 1..Len(TableSeq) : TableSeq[i] \in TableNames
    <3>1. TableNames = {"db_version", "user", "media_type", "media_subtype", "book_genre",
                        "document_tag", "source", "work_entry", "md5_sum", "refresh", "error_entry"}
      BY DEF TableNames, PrimaryKey
    <3> QED  BY <3>1 DEF TableSeq
  <2> QED  BY <2>1, <2>2 DEF FileChange
<1>4. ASSUME NEW t \in Thread, (\E c \in Calls : Invoke(t, c)) \/ Enter(t) \/ CallBegins(t)
                               \/ CallRefused(t) \/ CallSteps(t)
      PROVE  FileChange
  BY <1>4 DEF Invoke, Enter, CallBegins, CallRefused, CallSteps, FileChange
<1>5. ASSUME NEW p \in Process, Start(p) \/ Open(p) \/ Prepare(p) \/ RowBegins(p) \/ RowSteps(p)
                                \/ CheckBegins(p) \/ CheckEnds(p) \/ Exit(p)
      PROVE  FileChange
  BY <1>5 DEF Start, Open, Prepare, RowBegins, RowSteps, CheckBegins, CheckEnds, Exit, FileChange
<1> QED  BY <1>1, <1>2, <1>3, <1>4, <1>5 DEF Next, Step, Construct

\* So the defaults only ever grow, and the version comes after all of them.
LEMMA FileGrows ==
  ASSUME CallsLeaveDefaults, IInv, SetUpInv, FileChange
  PROVE  Grows /\ VersionIsLast'
<1> DEFINE Versioned(t) == "db_version" \in DOMAIN t /\ t["db_version"] # {}
<1>1. "db_version" \in DefaultTables  BY DEF DefaultTables
<1>2. ASSUME Grows, Versioned(file') => Versioned(file) PROVE VersionIsLast'
  <2>1. ASSUME NEW i \in DOMAIN Script, Has(file, i) PROVE Has(file', i)
    <3>1. Script[i].table \in DefaultTables  BY ScriptFacts
    <3> QED  BY <1>2, <2>1, <3>1 DEF Grows, Has
  <2> QED  BY <1>2, <2>1 DEF SetUpInv, VersionIsLast, Filled, Has
<1>3. CASE file' = file  BY <1>2, <1>3 DEF Grows
<1>4. CASE \E name \in TableNames : file' = GenerateTable(file, name)
  <2>1. PICK name \in TableNames : file' = GenerateTable(file, name)  BY <1>4
  <2>2. /\ DOMAIN file' = DOMAIN file \cup {name}
        /\ \A n \in DOMAIN file : file'[n] = file[n]
        /\ name \notin DOMAIN file => file'[name] = {}
    BY <2>1 DEF GenerateTable
  <2> QED  BY <1>2, <2>2 DEF Grows
<1>5. CASE \E c \in Calls : file' = Effect(c, file).tables
  <2>1. DOMAIN file' = DOMAIN file /\ \A n \in DefaultTables \cap DOMAIN file : file'[n] = file[n]
    BY <1>5 DEF CallsLeaveDefaults, LeavesDefaults
  <2> QED  BY <1>1, <1>2, <2>1 DEF Grows
<1>6. ASSUME NEW p \in Process, stage[p] = "row end", dirty[p], file' = work[p]
      PROVE  Grows /\ VersionIsLast'
  <2> DEFINE s == Script[at[p]]
  <2>1. /\ file' = Insert(file, s.table, s.row).tables /\ at[p] \in DOMAIN Script
        /\ at[p] \in Nat
    BY <1>6 DEF IInv, SessionType, Local, RowsInOrder, AddDefaultRow
  <2>2. /\ DOMAIN file' = DOMAIN file
        /\ \A n \in DOMAIN file : n # s.table => file'[n] = file[n]
        /\ \A n \in DOMAIN file : file[n] \subseteq file'[n]
    BY <2>1, InsertAdds
  <2>3. Grows  BY <2>2 DEF Grows
  <2>4. CASE s.table # "db_version"  BY <1>2, <2>2, <2>3, <2>4
  <2>5. CASE s.table = "db_version"
    <3>1. at[p] = Len(Script) /\ Has(file', at[p]) /\ \A i \in DOMAIN Script : i < at[p] => Has(file, i)
      BY <1>6, <2>1, <2>5, ScriptFacts DEF SetUpInv, SetsUp, Adding
    <3>2. ASSUME NEW i \in DOMAIN Script PROVE Has(file', i)
      <4>1. i = at[p] \/ i < at[p]  BY <3>1, ScriptFacts
      <4> QED  BY <2>2, <3>1, <4>1 DEF Has
    <3> QED  BY <2>3, <3>2 DEF VersionIsLast, Filled, Has
  <2> QED  BY <2>3, <2>4, <2>5
<1> QED  BY <1>2, <1>3, <1>4, <1>5, <1>6 DEF FileChange

\* What growth leaves of the set-up of the processes that do not move.
LEMMA GrowthKeeps ==
  ASSUME Grows
  PROVE  /\ PrepareStatements(file) => PrepareStatements(file')
         /\ \A i \in DOMAIN Script : Has(file, i) => Has(file', i)
<1>1. ASSUME NEW i \in DOMAIN Script, Has(file, i) PROVE Has(file', i)
  <2>1. Script[i].table \in DefaultTables  BY ScriptFacts
  <2> QED  BY <1>1, <2>1 DEF Grows, Has
<1> QED  BY <1>1 DEF Grows, PrepareStatements

LEMMA StillSetsUp ==
  ASSUME IInv, SetUpInv, Grows, NEW q \in Process,
         stage'[q] = stage[q], at'[q] = at[q], work'[q] = work[q], dirty'[q] = dirty[q],
         failed'[q] = failed[q], file' # file => lock[q] = "none"
  PROVE  SetsUp(q)'
<1>1. SetsUp(q) /\ RowsInOrder(q)  BY DEF SetUpInv, IInv, Local
<1>2. stage[q] = "row end" => file' = file  BY <1>1 DEF RowsInOrder
<1>3. /\ PrepareStatements(file) => PrepareStatements(file')
      /\ \A i \in DOMAIN Script : Has(file, i) => Has(file', i)
  BY GrowthKeeps
<1>4. (stage[q] \in {"opening", "prepare"} => at[q] = 1)'  BY <1>1 DEF SetsUp
<1>5. (stage[q] \in Adding \cup {"row failed", "check", "checked", "up"} => PrepareStatements(file))'
  BY <1>1, <1>3 DEF SetsUp, Adding
<1>6. (stage[q] \in Adding /\ ~failed[q] => \A i \in DOMAIN Script : i < at[q] => Has(file, i))'
  BY <1>1, <1>3 DEF SetsUp, Adding
<1>7. (stage[q] \in {"row", "row end"} /\ Script[at[q]].table = "db_version" => ~failed[q])'
  BY <1>1 DEF SetsUp
<1>8. (stage[q] = "row end" => Has(work[q], at[q]) /\ (work[q] # file => dirty[q]))'
  BY <1>1, <1>2 DEF SetsUp, Has
<1>9. (stage[q] = "up" => Filled(file))'  BY <1>1, <1>3 DEF SetsUp, Filled
<1> QED  BY <1>4, <1>5, <1>6, <1>7, <1>8, <1>9 DEF SetsUp

\* A step of p leaves the set-up of the others.
LEMMA OthersStillSetUp ==
  ASSUME IInv, SetUpInv, Grows, VersionIsLast', NEW p \in Process, Kept(p),
         \A q \in Process \ {p} : failed'[q] = failed[q],
         SetsUp(p)'
  PROVE  SetUpInv'
<1>1. ASSUME NEW q \in Process, q # p PROVE SetsUp(q)'
  <2>1. /\ stage'[q] = stage[q] /\ at'[q] = at[q] /\ work'[q] = work[q] /\ dirty'[q] = dirty[q]
        /\ file' # file => lock[q] = "none"
    BY <1>1 DEF Kept, Frame
  <2>2. failed'[q] = failed[q]  BY <1>1
  <2> QED  BY <2>1, <2>2, StillSetsUp
<1> QED  BY <1>1 DEF SetUpInv

LEMMA CallsKeepSetUp ==
  ASSUME IInv, SetUpInv, Grows, VersionIsLast', NEW t \in Thread,
         (\E c \in Calls : Invoke(t, c)) \/ Step(t), Kept(Home[t])
  PROVE  SetUpInv'
<1> DEFINE p == Home[t]
<1>1. p \in Process /\ t \in Mine(p)  BY SessionAssumption DEF Mine
<1>2. stage' = stage /\ at' = at /\ failed' = failed
  BY DEF Invoke, Step, Enter, CallBegins, CallRefused, CallSteps, CallEnds, Return, ctor
<1>3. stage[p] \in {"up", "broken"}
  <2>1. pc[t] # "idle" => stage[p] \in {"up", "broken"}  BY <1>1 DEF IInv, Local, CallsWhenUp
  <2> QED  BY <2>1 DEF Invoke, Step, Enter, CallBegins, CallRefused, CallSteps, CallEnds
<1>4. SetsUp(p)'
  <2>1. SetsUp(p)  BY <1>1 DEF SetUpInv
  <2>2. stage'[p] \in {"up", "broken"}  BY <1>2, <1>3
  <2>3. stage'[p] = "up" => PrepareStatements(file') /\ Filled(file')
    BY <1>2, <2>1, GrowthKeeps DEF SetsUp, Filled
  <2> QED  BY <2>2, <2>3 DEF SetsUp, Adding, Filled, Has
<1> QED  BY <1>1, <1>2, <1>4, OthersStillSetUp

\* Where each step of the constructor goes, and what it records of failures.
LEMMA RowFailsRecords ==
  ASSUME IInv, RestType, NEW p \in Process, RowFails(p)
  PROVE  failed'[p] /\ stage'[p] \in {"rows", "broken"} /\ failed' = [failed EXCEPT ![p] = TRUE]
BY DEF RowFails, GoTo, IInv, SessionType, RestType

LEMMA EarlyStepsSetUp ==
  ASSUME IInv, RestType, SetUpInv, NEW p \in Process,
         Start(p) \/ Open(p) \/ GenerateTables(p) \/ Prepare(p)
  PROVE  SetsUp(p)'
<1>1. SessionType /\ SetsUp(p)  BY DEF IInv, SetUpInv
<1>2. CASE Start(p)
  <2>1. stage'[p] = "opening" /\ at'[p] = 1  BY <1>1, <1>2 DEF Start, GoTo, Moves, SessionType
  <2> QED  BY <2>1 DEF SetsUp, Adding
<1>3. CASE Open(p)
  <2>1. stage'[p] \in {"generate", "prepare"} /\ at'[p] = 1
    BY <1>1, <1>3 DEF Open, GoTo, SessionType, SetsUp
  <2> QED  BY <2>1 DEF SetsUp, Adding
<1>4. CASE GenerateTables(p)
  <2>1. \/ stage'[p] \in {"broken", "prepare"} /\ at'[p] = 1
        \/ stage'[p] = "generate"
    BY <1>1, <1>4 DEF GenerateTables, GoTo, Moves, SessionType
  <2> QED  BY <2>1 DEF SetsUp, Adding
<1>5. CASE Prepare(p)
  <2>1. /\ stage'[p] \in {"broken", "rows", "check"} /\ at'[p] = 1 /\ file' = file
        /\ stage'[p] # "broken" => PrepareStatements(file)
    BY <1>1, <1>5 DEF Prepare, GoTo, SessionType, SetsUp
  <2>2. \A i \in DOMAIN Script : ~(i < at'[p])  BY <2>1, ScriptFacts
  <2> QED  BY <2>1, <2>2 DEF SetsUp, Adding
<1> QED  BY <1>2, <1>3, <1>4, <1>5

LEMMA RowStepsSetUp ==
  ASSUME IInv, RestType, SetUpInv, Grows, NEW p \in Process,
         RowBegins(p) \/ RowSteps(p) \/ RowEnds(p)
  PROVE  SetsUp(p)'
<1>1. SessionType /\ SetsUp(p) /\ RowsInOrder(p)  BY DEF IInv, SetUpInv, Local
<1>2. PrepareStatements(file')
  <2>1. PrepareStatements(file)  BY <1>1 DEF RowBegins, RowSteps, RowEnds, SetsUp, Adding
  <2> QED  BY <2>1, GrowthKeeps
<1>3. CASE RowFails(p)
  <2>1. failed'[p] /\ stage'[p] \in {"rows", "broken"}  BY <1>3, RowFailsRecords
  <2> QED  BY <1>2, <2>1 DEF SetsUp, Adding
<1>4. CASE RowBegins(p) /\ ~RowFails(p)
  <2>1. /\ stage[p] = "rows" /\ failed' = failed /\ at' = at /\ file' = file
        /\ \/ stage'[p] \in {"check", "broken"}
           \/ stage'[p] = "row" /\ (Script[at[p]].table = "db_version" => ~failed[p])
    BY <1>1, <1>4 DEF RowBegins, GoTo, SessionType
  <2>2. ~failed[p] => \A i \in DOMAIN Script : i < at[p] => Has(file, i)
    BY <1>1, <2>1 DEF SetsUp, Adding
  <2> QED  BY <1>2, <2>1, <2>2 DEF SetsUp, Adding, Has
<1>5. CASE RowSteps(p) /\ ~RowFails(p)
  <2> DEFINE s == Script[at[p]]
             r == Insert(file, s.table, s.row)
  <2>1. /\ stage[p] = "row" /\ failed' = failed /\ at' = at /\ file' = file
        /\ \/ stage'[p] = "row failed"
           \/ stage'[p] = "row end" /\ r.ret = 0 /\ WritePages(p, r)
    BY <1>1, <1>5 DEF RowSteps, GoTo, SessionType
  <2>2. /\ ~failed[p] => \A i \in DOMAIN Script : i < at[p] => Has(file, i)
        /\ s.table = "db_version" => ~failed[p]
    BY <1>1, <2>1 DEF SetsUp, Adding
  <2>3. CASE stage'[p] = "row failed"  BY <1>2, <2>1, <2>2, <2>3 DEF SetsUp, Adding
  <2>4. CASE stage'[p] = "row end" /\ r.ret = 0 /\ WritePages(p, r)
    <3>1. work'[p] = r.tables /\ (r.tables # file => dirty'[p])
      BY <1>1, <2>4 DEF WritePages, SessionType
    <3>2. at[p] \in DOMAIN Script /\ s.table \in DefaultTables
      BY <1>1, <2>1, ScriptFacts DEF RowsInOrder
    <3>3. s.table \in DOMAIN file  BY <1>2, <2>1, <3>2, DefaultsArePrepared
    <3>4. Has(r.tables, at[p])
      <4>1. DOMAIN r.tables = DOMAIN file /\ s.row \in r.tables[s.table]
        <5> HIDE DEF s
        <5>1. r.ret = 0  BY <2>4
        <5> QED  BY <3>3, <5>1, InsertDone
      <4> QED  BY <3>3, <4>1 DEF Has
    <3>5. Has(work[p], at[p])' /\ (work[p] # file => dirty[p])'
      BY <2>1, <3>1, <3>4 DEF Has
    <3> QED  BY <1>2, <2>1, <2>2, <2>4, <3>5 DEF SetsUp, Adding, Has
  <2> QED  BY <2>1, <2>3, <2>4
<1>6. CASE RowEnds(p) /\ ~RowFails(p)
  <2>1. /\ stage[p] = "row end" /\ failed' = failed /\ stage'[p] = "rows" /\ at'[p] = at[p] + 1
        /\ file' = IF dirty[p] THEN work[p] ELSE file
    BY <1>1, <1>6 DEF RowEnds, EndTransaction, GoTo, Moves, SessionType
  <2>2. /\ ~failed[p] => \A i \in DOMAIN Script : i < at[p] => Has(file, i)
        /\ Has(work[p], at[p]) /\ (work[p] # file => dirty[p])
    BY <1>1, <2>1 DEF SetsUp, Adding
  <2>3. file' = work[p]  BY <2>1, <2>2
  <2>4. ASSUME ~failed[p], NEW i \in DOMAIN Script, i < at[p] + 1 PROVE Has(file', i)
    <3>1. i = at[p] \/ i < at[p]  BY <1>1, <2>4, ScriptFacts DEF SessionType
    <3>2. CASE i = at[p]  BY <2>2, <2>3, <3>2
    <3>3. CASE i < at[p]  BY <2>2, <2>4, <3>3, GrowthKeeps
    <3> QED  BY <3>1, <3>2, <3>3
  <2> QED  BY <1>2, <2>1, <2>4 DEF SetsUp, Adding, Has
<1> QED  BY <1>3, <1>4, <1>5, <1>6

LEMMA CheckSetsUp ==
  ASSUME IInv, SetUpInv, NEW p \in Process, CheckBegins(p) \/ CheckEnds(p)
  PROVE  SetsUp(p)'
<1>1. SessionType /\ SetsUp(p) /\ VersionIsLast  BY DEF IInv, SetUpInv
<1>2. PrepareStatements(file) /\ file' = file
  BY <1>1 DEF CheckBegins, CheckEnds, SetsUp
<1>3. stage'[p] \in {"broken", "checked", "up"} /\ (stage'[p] = "up" => CheckDBVersion(file))
  BY <1>1 DEF CheckBegins, CheckEnds, GoTo, SessionType
<1>4. CheckDBVersion(file) => Filled(file)
  <2>1. "db_version" \in DOMAIN file  BY <1>2, DefaultsArePrepared DEF DefaultTables
  <2> QED  BY <1>1, <2>1 DEF CheckDBVersion, Done, VersionIsLast
<1> QED  BY <1>2, <1>3, <1>4 DEF SetsUp, Adding, Filled, Has

LEMMA ProcessKeepsSetUp ==
  ASSUME IInv, RestType, SetUpInv, Grows, VersionIsLast', NEW p \in Process,
         Start(p) \/ Construct(p) \/ Exit(p), Kept(p)
  PROVE  SetUpInv'
<1>1. SetsUp(p)'
  <2>1. CASE Exit(p)
    <3>1. stage'[p] = "down"  BY <2>1 DEF Exit, GoTo, IInv, SessionType
    <3> QED  BY <3>1 DEF SetsUp, Adding
  <2> QED  BY <2>1, EarlyStepsSetUp, RowStepsSetUp, CheckSetsUp DEF Construct
<1>2. failed' = failed \/ \E b \in BOOLEAN : failed' = [failed EXCEPT ![p] = b]
  BY DEF Start, Exit, Construct, Open, GenerateTables, Prepare, RowBegins, RowSteps, RowEnds,
     CheckBegins, CheckEnds, RowFails, RestType
<1>3. \A q \in Process \ {p} : failed'[q] = failed[q]  BY <1>2 DEF RestType
<1> QED  BY <1>1, <1>3, OthersStillSetUp

LEMMA StepKeepsSetUp ==
  CallsLeaveDefaults /\ IInv /\ RestType /\ SetUpInv /\ [Next]_vars => SetUpInv'
<1> SUFFICES ASSUME CallsLeaveDefaults, IInv, RestType, SetUpInv, [Next]_vars PROVE SetUpInv'
  OBVIOUS
<1>1. CASE Next
  <2>1. Grows /\ VersionIsLast'  BY <1>1, StepChangesFile, FileGrows
  <2>2. ASSUME NEW t \in Thread, (\E c \in Calls : Invoke(t, c)) \/ Step(t) PROVE SetUpInv'
    <3>1. Kept(Home[t])
      BY <2>2, InvokeKeeps, EnterKeeps, CallBeginsKeeps, CallRefusedKeeps, CallStepsKeeps,
         CallEndsKeeps DEF Step
    <3> QED  BY <2>1, <2>2, <3>1, CallsKeepSetUp
  <2>3. ASSUME NEW p \in Process, Start(p) \/ Construct(p) \/ Exit(p) PROVE SetUpInv'
    <3>1. Kept(p)
      BY <2>3, StartKeeps, OpenKeeps, GenerateTablesKeeps, RowBeginsKeeps, RowStepsKeeps,
         RowEndsKeeps, CheckKeeps, ExitKeeps DEF Construct
    <3> QED  BY <2>1, <2>3, <3>1, ProcessKeepsSetUp
  <2> QED  BY <1>1, <2>2, <2>3 DEF Next
<1>2. CASE UNCHANGED vars
  BY <1>2 DEF vars, ctor, conn, SetUpInv, VersionIsLast, SetsUp, Adding, Filled, Has
<1> QED  BY <1>1, <1>2

\* A process that is up finds every default row in the file: also when several
\* processes set it up, are cut short or refuse each other's locks.
THEOREM SessionReadyImpliesComplete ==
  ASSUME CallsLeaveDefaults
  PROVE  Spec => []ReadyImpliesComplete
<1>1. Init => SetUpInv
  BY DEF Init, NoTables, SetUpInv, VersionIsLast, SetsUp, Adding
<1>2. IInv /\ RestType /\ SetUpInv /\ [Next]_vars => SetUpInv'  BY StepKeepsSetUp
<1>3. SetUpInv => ReadyImpliesComplete
  BY DEF SetUpInv, SetsUp, Filled, Has, ReadyImpliesComplete
<1>4. IInv /\ [Next]_vars => IInv'  BY StepKeepsIInv
<1>5. IInv /\ RestType /\ [Next]_vars => RestType'  BY StepKeepsRestType
<1> QED  BY <1>1, <1>2, <1>3, <1>4, <1>5, InitIInv, InitRestType, PTL DEF Spec

----------------------------------------------------------------------------
(* First-time setup by a process that has the file for itself.              *)

\* Every row is a default row before position n.
OnlyRowsBefore(t, n) ==
    \A name \in DOMAIN t : \A r \in t[name] :
      \E i \in DOMAIN Script : i < n /\ Script[i].table = name /\ Script[i].row = r

Alone(p) == undisturbed[p] /\ first[p] /\ stage[p] \notin {"down", "up"}

\* Nothing fails, the connection is closed between the statements, and the file
\* holds what set-up has written so far and nothing else.
GoesWell(p) ==
    /\ stage[p] \notin {"row failed", "broken"} /\ ~failed[p]
    /\ stage[p] \in {"opening", "generate", "prepare", "rows", "check"} => ~open[p]
    /\ stage[p] \in {"opening", "generate", "prepare"} => \A n \in DOMAIN file : file[n] = {}
    /\ stage[p] = "generate" => \A i \in 1..Len(TableSeq) : i < at[p] => TableSeq[i] \in DOMAIN file
    /\ stage[p] = "prepare" => TableNames \subseteq DOMAIN file
    /\ stage[p] \in Adding \cup {"check", "checked"} => OnlyRowsBefore(file, at[p])
    /\ stage[p] \in {"check", "checked"} => Filled(file)

\* Before the file exists nobody is past opening it.
NothingBefore == ~present =>
    file = NoTables /\ \A p \in Process : stage[p] \in {"down", "opening"}

AloneInv == NothingBefore /\ \A p \in Process : Alone(p) => GoesWell(p)

\* Set-up creates every table.
LEMMA EveryTableIsGenerated ==
  \A name \in TableNames : \E i \in 1..Len(TableSeq) : TableSeq[i] = name
<1>1. TableNames = {"db_version", "user", "media_type", "media_subtype", "book_genre",
                    "document_tag", "source", "work_entry", "md5_sum", "refresh", "error_entry"}
  BY DEF TableNames, PrimaryKey
<1>2. TableSeq = <<"db_version", "user", "media_type", "media_subtype", "book_genre",
                   "document_tag", "source", "work_entry", "md5_sum", "refresh", "error_entry">>
  BY DEF TableSeq
<1>3. /\ Len(TableSeq) = 11
      /\ TableSeq[1] = "db_version" /\ TableSeq[2] = "user" /\ TableSeq[3] = "media_type"
      /\ TableSeq[4] = "media_subtype" /\ TableSeq[5] = "book_genre" /\ TableSeq[6] = "document_tag"
      /\ TableSeq[7] = "source" /\ TableSeq[8] = "work_entry" /\ TableSeq[9] = "md5_sum"
      /\ TableSeq[10] = "refresh" /\ TableSeq[11] = "error_entry"
  BY <1>2
<1>4. 1..Len(TableSeq) = {1, 2, 3, 4, 5, 6, 7, 8, 9, 10, 11}  BY <1>3
<1> QED  BY <1>1, <1>3, <1>4

LEMMA NothingBeforeKept ==
  ASSUME IInv, RestType, NothingBefore, Next
  PROVE  NothingBefore'
<1> SUFFICES ASSUME ~present'
             PROVE  file' = NoTables /\ \A p \in Process : stage'[p] \in {"down", "opening"}
  BY DEF NothingBefore
<1>1. \A p \in Process : ~Open(p)  BY DEF Open
<1>2. present' = present
  BY <1>1 DEF Next, Invoke, Step, Enter, CallBegins, CallRefused, CallSteps, CallEnds, Return,
     Construct, Start, Exit, GenerateTables, Prepare, RowBegins, RowSteps, RowEnds, CheckBegins,
     CheckEnds
<1>3. file = NoTables /\ \A p \in Process : stage[p] \in {"down", "opening"}
  BY <1>2 DEF NothingBefore
<1>4. ASSUME NEW t \in Thread PROVE ~Step(t) /\ \A c \in Calls : ~Invoke(t, c)
  <2>1. Home[t] \in Process /\ t \in Mine(Home[t])  BY SessionAssumption DEF Mine
  <2>2. pc[t] = "idle"  BY <1>3, <2>1 DEF IInv, Local, CallsWhenUp
  <2> QED  BY <1>3, <2>1, <2>2
     DEF Invoke, Step, Enter, CallBegins, CallRefused, CallSteps, CallEnds
<1>5. ASSUME NEW p \in Process PROVE ~Construct(p)
  BY <1>1, <1>3 DEF Construct, GenerateTables, Prepare, RowBegins, RowSteps, RowEnds, CheckBegins,
     CheckEnds
<1>6. PICK p \in Process : Start(p) \/ Exit(p)  BY <1>4, <1>5 DEF Next
<1>7. file' = file /\ \E s \in {"down", "opening"} : stage' = [stage EXCEPT ![p] = s]
  BY <1>6 DEF Start, Exit, GoTo
<1> QED  BY <1>3, <1>7 DEF IInv, SessionType

\* A process that stays alone made the step itself, with every lock granted.
LEMMA AloneMoves ==
  ASSUME IInv, RestType, SoloInv, AloneInv, Next, NEW p \in Process, Alone(p)'
  PROVE  \/ Start(p)
         \/ Construct(p) /\ Alone(p) /\ CanRead(p) /\ CanWrite(p) /\ CanCommit(p)
            /\ \A q \in Others(p) : lock[q] = "none"
<1>1. ASSUME NEW q \in Process, q # p, Start(q) PROVE FALSE
  BY <1>1 DEF Start, Alone
<1>2. SessionType  BY DEF IInv
<1>3. ASSUME NEW t \in Thread, (\E c \in Calls : Invoke(t, c)) \/ Step(t) PROVE FALSE
  <2> DEFINE q == Home[t]
  <2>1. q \in Process /\ t \in Mine(q)  BY SessionAssumption DEF Mine
  <2>2. stage' = stage /\ first' = first
    BY <1>3 DEF Invoke, Step, Enter, CallBegins, CallRefused, CallSteps, CallEnds, Return, ctor
  <2>3. stage[q] \in {"up", "broken"}
    <3>1. pc[t] # "idle" => stage[q] \in {"up", "broken"}  BY <2>1 DEF IInv, Local, CallsWhenUp
    <3> QED  BY <1>3, <3>1 DEF Invoke, Step, Enter, CallBegins, CallRefused, CallSteps, CallEnds
  <2>4. undisturbed[p]
    <3>1. undisturbed' = undisturbed \/ \E c \in Calls :
            undisturbed' = [undisturbed EXCEPT ![q] = undisturbed[q] /\ c \in Locked]
      BY <1>3 DEF Invoke, Step, Enter, CallBegins, CallRefused, CallSteps, CallEnds, Return
    <3> QED  BY <3>1 DEF RestType, Alone
  <2>5. Alone(p)  BY <2>2, <2>4 DEF Alone
  <2>6. CASE q = p  BY <2>3, <2>5, <2>6 DEF AloneInv, GoesWell, Alone
  <2>7. CASE q # p
    <3>1. stage[q] = "down"  BY <2>1, <2>5, <2>7 DEF SoloInv, Solo, Alone, Others
    <3> QED  BY <2>3, <3>1
  <2> QED  BY <2>6, <2>7
<1>4. ASSUME NEW q \in Process, Construct(q) \/ Exit(q)
      PROVE  Construct(p) /\ Alone(p)
  <2>1. /\ UNCHANGED <<first, undisturbed>> /\ stage[q] # "down"
        /\ \A o \in Process \ {q} : stage'[o] = stage[o]
    <3>1. UNCHANGED <<first, undisturbed>> /\ stage[q] # "down"
      BY <1>4 DEF Construct, Open, GenerateTables, Prepare, RowBegins, RowSteps, RowEnds,
         CheckBegins, CheckEnds, Exit, Running
    <3>2. Kept(q)
      BY <1>4, OpenKeeps, GenerateTablesKeeps, RowBeginsKeeps, RowStepsKeeps,
         RowEndsKeeps, CheckKeeps, ExitKeeps DEF Construct
    <3> QED  BY <3>1, <3>2 DEF Kept, Frame
  <2>2. CASE q # p
    <3>1. Alone(p)  BY <2>1, <2>2 DEF Alone
    <3>2. stage[q] = "down"  BY <2>2, <3>1 DEF SoloInv, Solo, Alone, Others
    <3> QED  BY <2>1, <3>2
  <2>3. CASE q = p
    <3>1. ~Exit(p)
      <4>1. Exit(p) => stage'[p] = "down"  BY <1>2 DEF Exit, GoTo, SessionType
      <4> QED  BY <4>1 DEF Alone
    <3>2. Construct(p)  BY <1>4, <2>3, <3>1
    <3>3. stage[p] \notin {"down", "up"}
      BY <3>2 DEF Construct, Open, GenerateTables, Prepare, RowBegins, RowSteps, RowEnds,
         CheckBegins, CheckEnds
    <3> QED  BY <2>1, <3>2, <3>3 DEF Alone
  <2> QED  BY <2>2, <2>3
<1>5. Start(p) \/ (Construct(p) /\ Alone(p))  BY <1>1, <1>3, <1>4 DEF Next
<1>6. Alone(p) => /\ CanRead(p) /\ CanWrite(p) /\ CanCommit(p)
                  /\ \A q \in Others(p) : lock[q] = "none"
  BY SoloIsGranted DEF SoloInv, Solo, Alone
<1> QED  BY <1>5, <1>6

\* The steps up to the default rows.
LEMMA EarlyStepsGoWell ==
  ASSUME IInv, RestType, SoloInv, SetUpInv, AloneInv, NEW p \in Process,
         Start(p) \/ (Alone(p) /\ (Open(p) \/ GenerateTables(p) \/ Prepare(p))),
         Alone(p)', CanRead(p), \A q \in Others(p) : lock[q] = "none"
  PROVE  GoesWell(p)'
<1>1. SessionType /\ (Alone(p) => GoesWell(p)) /\ SetsUp(p)  BY DEF IInv, AloneInv, SetUpInv
<1>2. CASE Start(p)
  <2>1. /\ stage[p] = "down" /\ stage'[p] = "opening" /\ ~failed'[p] /\ first'[p] = ~present
        /\ file' = file /\ open' = open
    BY <1>1, <1>2 DEF Start, GoTo, SessionType, RestType, conn
  <2>2. file = NoTables  BY <2>1 DEF Alone, AloneInv, NothingBefore
  <2>3. ~open[p]  BY <2>1 DEF SoloInv, DownIsClosed
  <2> QED  BY <2>1, <2>2, <2>3 DEF GoesWell, Adding, NoTables
<1>3. CASE Open(p) /\ Alone(p)
  <2>1. /\ stage[p] = "opening" /\ first[p] /\ stage'[p] = "generate" /\ at'[p] = 1
        /\ UNCHANGED <<file, failed, open>>
    BY <1>1, <1>3 DEF Open, GoTo, SessionType, SetsUp, conn, Alone
  <2>2. \A i \in 1..Len(TableSeq) : ~(i < at'[p])  BY <2>1 DEF TableSeq
  <2> QED  BY <1>1, <1>3, <2>1, <2>2 DEF GoesWell, Adding
<1>4. CASE GenerateTables(p) /\ Alone(p) /\ at[p] > Len(TableSeq)
  <2>1. stage[p] = "generate" /\ ~failed[p]  BY <1>1, <1>4 DEF GenerateTables, GoesWell
  <2>2. stage'[p] = "prepare" /\ UNCHANGED <<file, failed, open>>
    BY <1>1, <1>4, <2>1 DEF GenerateTables, GoTo, SessionType, conn
  <2>3. TableNames \subseteq DOMAIN file
    <3>1. \A i \in 1..Len(TableSeq) : TableSeq[i] \in DOMAIN file
      <4>1. at[p] \in Nat /\ Len(TableSeq) \in Nat  BY <1>1 DEF SessionType, TableSeq
      <4> QED  BY <1>1, <1>4, <2>1, <4>1 DEF GoesWell
    <3> QED  BY <3>1, EveryTableIsGenerated
  <2> QED  BY <1>1, <1>4, <2>1, <2>2, <2>3 DEF GoesWell, Adding
<1>5. CASE GenerateTables(p) /\ Alone(p) /\ ~(at[p] > Len(TableSeq))
  <2> DEFINE name == TableSeq[at[p]]
  <2>1. stage[p] = "generate" /\ stage' = stage /\ open' = open /\ at'[p] = at[p] + 1
    BY <1>1, <1>5 DEF GenerateTables, Moves, SessionType, conn
  <2>2. file' = GenerateTable(file, name)  BY <1>5 DEF GenerateTables
  <2>3. /\ DOMAIN file' = DOMAIN file \cup {name}
        /\ \A n \in DOMAIN file : file'[n] = file[n]
        /\ name \notin DOMAIN file => file'[name] = {}
    BY <2>2 DEF GenerateTable
  <2>4. \A n \in DOMAIN file' : file'[n] = {}  BY <1>1, <1>5, <2>1, <2>3 DEF GoesWell
  <2>5. ASSUME NEW i \in 1..Len(TableSeq), i < at[p] + 1 PROVE TableSeq[i] \in DOMAIN file'
    <3>1. i = at[p] \/ i < at[p]  BY <1>1, <2>5 DEF SessionType, TableSeq
    <3>2. i < at[p] => TableSeq[i] \in DOMAIN file  BY <1>1, <1>5, <2>1 DEF GoesWell
    <3> QED  BY <2>3, <3>1, <3>2
  <2>6. ~failed'[p]
    <3>1. \E b \in BOOLEAN : failed' = [failed EXCEPT ![p] = b] /\ (b => failed[p])
      BY <1>5 DEF GenerateTables, RestType
    <3> QED  BY <1>1, <1>5, <3>1 DEF GoesWell, RestType
  <2>7. ~open'[p]  BY <1>1, <1>5, <2>1 DEF GoesWell
  <2> QED  BY <2>1, <2>4, <2>5, <2>6, <2>7 DEF GoesWell, Adding
<1>6. CASE Prepare(p) /\ Alone(p)
  <2>1. stage[p] = "prepare" /\ first[p]  BY <1>6 DEF Prepare, Alone
  <2>2. PrepareStatements(file)  BY <1>1, <1>6, <2>1 DEF GoesWell, PrepareStatements
  <2>3. stage'[p] = "rows" /\ UNCHANGED <<file, failed, open>>
    BY <1>1, <1>6, <2>1, <2>2 DEF Prepare, GoTo, SessionType, conn
  <2>4. OnlyRowsBefore(file', at'[p])  BY <1>1, <1>6, <2>1, <2>3 DEF GoesWell, OnlyRowsBefore
  <2> QED  BY <1>1, <1>6, <2>1, <2>3, <2>4 DEF GoesWell
<1> QED  BY <1>2, <1>3, <1>4, <1>5, <1>6

\* No default row takes the key of one before it.
LEMMA KeysAreFree ==
  ASSUME NEW i \in DOMAIN Script, OnlyRowsBefore(file, i), Script[i].table \in DOMAIN file
  PROVE  Insert(file, Script[i].table, Script[i].row).ret = 0
<1> DEFINE s == Script[i]
<1>1. ASSUME NEW r \in file[s.table], SameKey(s.table, r, s.row) PROVE FALSE
  <2>1. PICK j \in DOMAIN Script : j < i /\ Script[j].table = s.table /\ Script[j].row = r
    BY <1>1 DEF OnlyRowsBefore
  <2>2. i \in 1..Len(Script) /\ j \in 1..(i - 1)  BY <2>1, ScriptFacts
  <2>3. \A k \in 1..(i - 1) : Script[k].table = Script[i].table =>
          ~SameKey(Script[i].table, Script[k].row, Script[i].row)
    BY <2>2, ScriptAssumption DEF ScriptInOrder
  <2> QED  BY <1>1, <2>1, <2>2, <2>3
<1> QED  BY <1>1 DEF Insert, Done

LEMMA RowStepsGoWell ==
  ASSUME IInv, RestType, SoloInv, SetUpInv, AloneInv, NEW p \in Process,
         RowBegins(p) \/ RowSteps(p) \/ RowEnds(p),
         Alone(p), Alone(p)', CanWrite(p), CanCommit(p)
  PROVE  GoesWell(p)'
<1>1. SessionType /\ GoesWell(p) /\ SetsUp(p) /\ RowsInOrder(p)
  BY DEF IInv, AloneInv, SetUpInv, Local
<1>2. /\ PrepareStatements(file) /\ OnlyRowsBefore(file, at[p]) /\ ~failed[p]
      /\ stage[p] \in {"rows", "row", "row end"}
      /\ \A i \in DOMAIN Script : i < at[p] => Has(file, i)
  BY <1>1 DEF RowBegins, RowSteps, RowEnds, GoesWell, SetsUp, Adding
<1>3. at[p] \in Nat \ {0}  BY <1>1 DEF SessionType
<1>4. CASE RowBegins(p)
  <2>1. stage[p] = "rows" /\ ~open[p]  BY <1>1, <1>4 DEF RowBegins, GoesWell
  <2>2. /\ UNCHANGED <<file, at, failed>>
        /\ \/ stage'[p] = "row"
           \/ stage'[p] = "check" /\ open' = open /\ at[p] > Len(Script)
    BY <1>1, <1>2, <1>4, <2>1 DEF RowBegins, GoTo, SessionType, conn
  <2>3. at[p] > Len(Script) => Filled(file)
    <3>1. at[p] > Len(Script) => \A i \in DOMAIN Script : i < at[p]  BY <1>3, ScriptFacts
    <3> QED  BY <1>2, <3>1 DEF Filled
  <2> QED  BY <1>2, <2>1, <2>2, <2>3 DEF GoesWell, Adding, Filled, Has
<1>5. CASE RowSteps(p)
  <2>1. stage[p] = "row" /\ at[p] \in DOMAIN Script  BY <1>1, <1>5 DEF RowSteps, RowsInOrder
  <2>2. Script[at[p]].table \in DOMAIN file
    BY <1>2, <2>1, ScriptFacts, DefaultsArePrepared
  <2>3. Insert(file, Script[at[p]].table, Script[at[p]].row).ret = 0
    BY <1>2, <2>1, <2>2, KeysAreFree
  <2>4. stage'[p] = "row end" /\ UNCHANGED <<file, at, failed>>
    BY <1>1, <1>5, <2>3 DEF RowSteps, GoTo, SessionType
  <2> QED  BY <1>2, <2>4 DEF GoesWell, Adding
<1>6. CASE RowEnds(p)
  <2> DEFINE s == Script[at[p]]
  <2>1. stage[p] = "row end" /\ at[p] \in DOMAIN Script
    BY <1>1, <1>2, <1>6 DEF RowEnds, RowsInOrder
  <2>2. /\ stage'[p] = "rows" /\ at'[p] = at[p] + 1 /\ failed' = failed /\ ~open'[p]
        /\ file' = IF dirty[p] THEN work[p] ELSE file
    BY <1>1, <1>6, <2>1
       DEF RowEnds, EndTransaction, EndRefused, CloseTransaction, GoTo, Moves, SessionType
  <2>3. file' = Insert(file, s.table, s.row).tables
    BY <1>1, <2>1, <2>2 DEF SetsUp, RowsInOrder, AddDefaultRow
  <2>4. OnlyRowsBefore(file', at[p] + 1)
    <3>1. /\ DOMAIN file' = DOMAIN file
          /\ \A n \in DOMAIN file : n # s.table => file'[n] = file[n]
          /\ \A n \in DOMAIN file : file'[n] \subseteq file[n] \cup {s.row}
      BY <2>3, InsertAdds
    <3>2. SUFFICES ASSUME NEW n \in DOMAIN file, NEW r \in file'[n]
                   PROVE  \E i \in DOMAIN Script : i < at[p] + 1 /\ Script[i].table = n /\ Script[i].row = r
      BY <3>1 DEF OnlyRowsBefore
    <3>3. CASE r \in file[n]
      <4>1. PICK i \in DOMAIN Script : i < at[p] /\ Script[i].table = n /\ Script[i].row = r
        <5>1. OnlyRowsBefore(file, at[p])  BY <1>2
        <5> QED  BY <3>3, <5>1 DEF OnlyRowsBefore
      <4>2. i < at[p] + 1  BY <1>3, <4>1, ScriptFacts
      <4> QED  BY <4>1, <4>2
    <3>4. CASE r \notin file[n]
      <4>1. n = s.table /\ r = s.row  BY <3>1, <3>4
      <4>2. at[p] < at[p] + 1  BY <1>3
      <4> QED  BY <2>1, <4>1, <4>2
    <3> QED  BY <3>3, <3>4
  <2> QED  BY <1>2, <2>2, <2>4 DEF GoesWell, Adding
<1> QED  BY <1>4, <1>5, <1>6

\* The version that set-up has just written is the one it reads.
LEMMA CheckGoesWell ==
  ASSUME IInv, SetUpInv, AloneInv, NEW p \in Process, CheckBegins(p) \/ CheckEnds(p),
         Alone(p), Alone(p)', CanRead(p)
  PROVE  GoesWell(p)'
<1>1. SessionType /\ GoesWell(p) /\ SetsUp(p)  BY DEF IInv, AloneInv, SetUpInv
<1>2. CASE CheckBegins(p)
  <2>1. stage[p] = "check" /\ ~open[p]  BY <1>1, <1>2 DEF CheckBegins, GoesWell
  <2>2. stage'[p] = "checked" /\ UNCHANGED <<file, at, failed>>
    BY <1>1, <1>2, <2>1 DEF CheckBegins, GoTo, SessionType
  <2> QED  BY <1>1, <2>1, <2>2 DEF GoesWell, Adding, Filled, Has
<1>3. CASE CheckEnds(p)
  <2>1. stage[p] = "checked" /\ PrepareStatements(file) /\ Filled(file) /\ OnlyRowsBefore(file, at[p])
    BY <1>1, <1>3 DEF CheckEnds, GoesWell, SetsUp
  <2>2. Script[Len(Script)] = CreateDBVersion(Version) /\ Len(Script) \in DOMAIN Script
    BY ScriptFacts, ScriptAssumption DEF ScriptInOrder
  <2>3. "db_version" \in DOMAIN file  BY <2>1, DefaultsArePrepared DEF DefaultTables
  <2>4. [db_version |-> Version] \in file["db_version"]
    BY <2>1, <2>2 DEF Filled, Has, CreateDBVersion
  <2>5. ASSUME NEW r \in file["db_version"] PROVE r = [db_version |-> Version]
    <3>1. PICK i \in DOMAIN Script : Script[i].table = "db_version" /\ Script[i].row = r
      BY <2>1, <2>3, <2>5 DEF OnlyRowsBefore
    <3>2. i = Len(Script)  BY <3>1, ScriptFacts
    <3> QED  BY <2>2, <3>1, <3>2 DEF CreateDBVersion
  <2>6. CheckDBVersion(file)
    <3>1. file["db_version"] = {[db_version |-> Version]}  BY <2>4, <2>5
    <3> QED  BY <3>1 DEF CheckDBVersion, Done
  <2>7. stage'[p] = "up"  BY <1>1, <1>3, <2>6 DEF CheckEnds, GoTo, SessionType
  <2> QED  BY <2>7 DEF Alone
<1> QED  BY <1>2, <1>3

LEMMA StepKeepsAlone ==
  IInv /\ RestType /\ SoloInv /\ SetUpInv /\ AloneInv /\ [Next]_vars => AloneInv'
<1> SUFFICES ASSUME IInv, RestType, SoloInv, SetUpInv, AloneInv, [Next]_vars PROVE AloneInv'
  OBVIOUS
<1>1. CASE Next
  <2>1. NothingBefore'  BY <1>1, NothingBeforeKept DEF AloneInv
  <2>2. ASSUME NEW p \in Process, Alone(p)' PROVE GoesWell(p)'
    <3>1. CASE Start(p)
      <4>1. \A q \in Others(p) : lock[q] = "none"
        <5>1. \A q \in Others(p) : stage[q] = "down"
          <6>1. undisturbed'[p] <=> \A q \in Others(p) : ~Running(q)  BY <3>1 DEF Start
          <6> QED  BY <2>2, <6>1 DEF Alone, Running
        <5> QED  BY <5>1 DEF Others, SoloInv, DownIsClosed, IInv, Local, ClosedIsClean, Clean
      <4>2. CanRead(p)  BY <4>1 DEF CanRead
      <4> QED  BY <2>2, <3>1, <4>1, <4>2, EarlyStepsGoWell
    <3>2. CASE /\ Construct(p) /\ Alone(p) /\ CanRead(p) /\ CanWrite(p) /\ CanCommit(p)
               /\ \A q \in Others(p) : lock[q] = "none"
      BY <2>2, <3>2, EarlyStepsGoWell, RowStepsGoWell, CheckGoesWell DEF Construct
    <3> QED  BY <1>1, <2>2, <3>1, <3>2, AloneMoves
  <2> QED  BY <2>1, <2>2 DEF AloneInv
<1>2. CASE UNCHANGED vars
  <2>1. /\ file' = file /\ present' = present /\ stage' = stage /\ first' = first /\ at' = at
        /\ failed' = failed /\ open' = open /\ undisturbed' = undisturbed
    BY <1>2 DEF vars, ctor, conn
  <2>2. NothingBefore'  BY <2>1 DEF AloneInv, NothingBefore
  <2>3. ASSUME NEW p \in Process, Alone(p)' PROVE GoesWell(p)'
    <3>1. GoesWell(p)  BY <2>1, <2>3 DEF AloneInv, Alone
    <3>2. OnlyRowsBefore(file, at[p]) => OnlyRowsBefore(file, at[p])'  BY <2>1 DEF OnlyRowsBefore
    <3>3. Filled(file) => Filled(file)'  BY <2>1 DEF Filled, Has
    <3>4. (stage[p] \notin {"row failed", "broken"} /\ ~failed[p])'  BY <2>1, <3>1 DEF GoesWell
    <3>5. (stage[p] \in Adding \cup {"check", "checked"} => OnlyRowsBefore(file, at[p]))'
      BY <2>1, <3>1, <3>2 DEF GoesWell, Adding
    <3>6. (stage[p] \in {"check", "checked"} => Filled(file))'  BY <2>1, <3>1, <3>3 DEF GoesWell
    <3> QED  BY <2>1, <3>1, <3>4, <3>5, <3>6 DEF GoesWell
  <2> QED  BY <2>2, <2>3 DEF AloneInv
<1> QED  BY <1>1, <1>2

\* First-time setup by a process that has the file for itself never fails.
THEOREM SessionSetupAloneWorks ==
  ASSUME AnswersDiffer, CallsLeaveDefaults
  PROVE  Spec => []SetupAloneWorks
<1>1. Init => SoloInv /\ SetUpInv /\ AloneInv
  BY DEF Init, SoloInv, Solo, DownIsClosed, NoTables, SetUpInv, VersionIsLast, SetsUp, Adding,
     AloneInv, NothingBefore, Alone
<1>2. IInv /\ RestType /\ SoloInv /\ SetUpInv /\ AloneInv /\ [Next]_vars
        => SoloInv' /\ SetUpInv' /\ AloneInv'
  BY StepKeepsSolo, StepKeepsSetUp, StepKeepsAlone
<1>3. AloneInv => SetupAloneWorks  BY DEF AloneInv, Alone, GoesWell, SetupAloneWorks
<1>4. IInv /\ [Next]_vars => IInv'  BY StepKeepsIInv
<1>5. IInv /\ RestType /\ [Next]_vars => RestType'  BY StepKeepsRestType
<1> QED  BY <1>1, <1>2, <1>3, <1>4, <1>5, InitIInv, InitRestType, PTL DEF Spec
=============================================================================
