--------------------------- MODULE DatabaseSession ---------------------------
(***************************************************************************)
(* Processes that share the catalog's file (the application, the command   *)
(* line, the GUI), each with one SQLite connection that its threads share  *)
(* behind the mutex of BlackLibraryDB.  A call checks initialized_, opens  *)
(* a transaction, runs one statement and ends the transaction; the first   *)
(* process that finds no file creates the tables and the default rows.     *)
(* SQLite's locks are modelled as its rollback journal uses them: a        *)
(* reading statement takes a shared lock, a writing one the reserved lock, *)
(* and a commit that changed pages needs every other lock gone; without a  *)
(* busy timeout a refused lock answers busy at once, and a refused END     *)
(* leaves the transaction open with a pending lock.                        *)
(***************************************************************************)
EXTENDS SQLiteTables

CONSTANTS
    Process, Thread, Home,      \* Home[t] is the process of thread t
    NoThread,
    Calls, NoCall,
    Writes,                     \* the calls whose statement writes
    Locked,                     \* the calls that take the facade's mutex
    Effect(_, _),               \* what a call does to the tables
    Script,                     \* the default rows of first-time setup
    MaxCalls, MaxStarts         \* bounds: calls and starts of processes in all

ASSUME SessionAssumption ==
    /\ Home \in [Thread -> Process]
    /\ NoThread \notin Thread /\ NoCall \notin Calls
    /\ Writes \subseteq Calls /\ Locked \subseteq Calls
    /\ MaxCalls \in Nat /\ MaxStarts \in Nat
    /\ Len(Script) \in Nat /\ DOMAIN Script = 1..Len(Script)
    /\ \A i \in DOMAIN Script : Script[i].table \in TableNames

\* What set-up relies on in the order of its rows: they fill the tables that no
\* call writes, no row takes the key of an earlier one and the version is last.
DefaultTables == {"user", "media_type", "media_subtype", "source", "db_version"}
ScriptInOrder(script) ==
    /\ Len(script) # 0 /\ script[Len(script)] = CreateDBVersion(Version)
    /\ \A i \in 1..Len(script) :
         /\ script[i].table \in DefaultTables
         /\ script[i].table = "db_version" <=> i = Len(script)
         /\ \A j \in 1..(i - 1) : script[j].table = script[i].table =>
              ~SameKey(script[i].table, script[j].row, script[i].row)

ASSUME ScriptAssumption == ScriptInOrder(Script)
ASSUME SetupScriptAssumption == ScriptInOrder(SetupScript)

VARIABLES
    file, present,              \* the committed tables; does the path exist
    stage, first, at, failed,   \* the constructor: stage, first_time_setup, position, res # 0
    open, lock, work, dirty,    \* the connection: in a transaction, its lock, its pages
    holder,                     \* who holds mutex_
    pc, call, outcome, answer,  \* a thread's call
    made, starts,               \* counters for the bounds
    undisturbed                 \* history: alone on the file since its start, all calls locked

conn == <<open, lock, work, dirty>>
ctor == <<stage, first, at, failed>>
thread == <<pc, call, outcome, answer>>
vars == <<file, present, ctor, conn, holder, thread, made, starts, undisturbed>>

\* The program answers -1 for a refused lock as for a refused statement.
Busy == [ret |-> -2, rows |-> {}]
NoTables == [n \in {} |-> {}]
Others(p) == Process \ {p}

Init ==
    /\ file = NoTables /\ present = FALSE
    /\ stage = [p \in Process |-> "down"] /\ first = [p \in Process |-> FALSE]
    /\ at = [p \in Process |-> 1] /\ failed = [p \in Process |-> FALSE]
    /\ open = [p \in Process |-> FALSE] /\ lock = [p \in Process |-> "none"]
    /\ work = [p \in Process |-> NoTables] /\ dirty = [p \in Process |-> FALSE]
    /\ holder = [p \in Process |-> NoThread]
    /\ pc = [t \in Thread |-> "idle"] /\ call = [t \in Thread |-> NoCall]
    /\ outcome = [t \in Thread |-> Busy] /\ answer = [t \in Thread |-> Busy]
    /\ made = 0 /\ starts = 0
    /\ undisturbed = [p \in Process |-> FALSE]

(***************************************************************************)
(* SQLite's locks.                                                         *)
(***************************************************************************)
CanRead(p) == \A q \in Others(p) : lock[q] # "pending"
CanWrite(p) == \A q \in Others(p) : lock[q] \notin {"reserved", "pending"}
CanCommit(p) == dirty[p] => \A q \in Others(p) : lock[q] = "none"

ReadPages(p) == lock' = [lock EXCEPT ![p] = "shared"] /\ UNCHANGED <<work, dirty>>

\* A refused statement is undone; the pages it touched may still be written.
WritePages(p, r) ==
    /\ lock' = [lock EXCEPT ![p] = "reserved"]
    /\ work' = [work EXCEPT ![p] = r.tables]
    /\ \E d \in BOOLEAN :
        /\ dirty' = [dirty EXCEPT ![p] = d]
        /\ r.tables # file => d
        /\ r.ret = 0 /\ r.tables = file => ~d

\* Mutant: the lock outlives the transaction.
CloseKeepsLock(p) ==
    /\ open' = [open EXCEPT ![p] = FALSE] /\ UNCHANGED lock
    /\ work' = [work EXCEPT ![p] = NoTables]
    /\ dirty' = [dirty EXCEPT ![p] = FALSE]

CloseTransaction(p) ==
    /\ open' = [open EXCEPT ![p] = FALSE]
    /\ lock' = [lock EXCEPT ![p] = "none"]
    /\ work' = [work EXCEPT ![p] = NoTables]
    /\ dirty' = [dirty EXCEPT ![p] = FALSE]

BeginTransaction(p) ==
    /\ ~open[p]
    /\ open' = [open EXCEPT ![p] = TRUE]
    /\ UNCHANGED <<lock, work, dirty>>

EndTransaction(p) ==
    /\ CanCommit(p)
    /\ file' = IF dirty[p] THEN work[p] ELSE file
    /\ CloseTransaction(p)

EndRefused(p) ==
    /\ ~CanCommit(p)
    /\ lock' = [lock EXCEPT ![p] = "pending"]
    /\ UNCHANGED <<file, open, work, dirty>>

(***************************************************************************)
(* A call of a thread.                                                     *)
(***************************************************************************)
Invoke(t, c) ==
    LET p == Home[t]
    IN  /\ pc[t] = "idle" /\ stage[p] \in {"up", "broken"} /\ made < MaxCalls
        /\ call' = [call EXCEPT ![t] = c]
        /\ pc' = [pc EXCEPT ![t] = IF c \in Locked THEN "enter" ELSE "begin"]
        /\ made' = made + 1
        /\ undisturbed' = [undisturbed EXCEPT ![p] = @ /\ c \in Locked]
        /\ UNCHANGED <<file, present, ctor, conn, holder, outcome, answer, starts>>

\* Mutant: the mutex is not taken.
EnterUnlocked(t) ==
    /\ pc[t] = "enter"
    /\ pc' = [pc EXCEPT ![t] = "begin"]
    /\ UNCHANGED <<file, present, ctor, conn, holder, call, outcome, answer, made, starts, undisturbed>>

Enter(t) ==
    LET p == Home[t]
    IN  /\ pc[t] = "enter" /\ holder[p] = NoThread
        /\ holder' = [holder EXCEPT ![p] = t]
        /\ pc' = [pc EXCEPT ![t] = "begin"]
        /\ UNCHANGED <<file, present, ctor, conn, call, outcome, answer, made, starts, undisturbed>>

\* The call returns a and the lock_guard, if any, unlocks.
Return(t, a) ==
    LET p == Home[t]
    IN  /\ answer' = [answer EXCEPT ![t] = a]
        /\ call' = [call EXCEPT ![t] = NoCall]
        /\ pc' = [pc EXCEPT ![t] = "idle"]
        /\ outcome' = [outcome EXCEPT ![t] = Busy]
        /\ holder' = [holder EXCEPT ![p] = IF @ = t THEN NoThread ELSE @]
        /\ UNCHANGED <<present, ctor, made, starts, undisturbed>>

CheckInitialized(p) == stage[p] = "up"

CallBegins(t) ==
    /\ pc[t] = "begin" /\ CheckInitialized(Home[t])
    /\ BeginTransaction(Home[t])
    /\ pc' = [pc EXCEPT ![t] = "step"]
    /\ UNCHANGED <<file, present, ctor, holder, call, outcome, answer, made, starts, undisturbed>>

CallRefused(t) ==
    /\ pc[t] = "begin" /\ (~CheckInitialized(Home[t]) \/ open[Home[t]])
    /\ Return(t, Busy)
    /\ UNCHANGED <<file, conn>>

\* sqlite3_step; a failing one is reset and its transaction ended as well.
CallSteps(t) ==
    LET p == Home[t]
        r == Effect(call[t], file)
        write == call[t] \in Writes
        granted == IF write THEN CanWrite(p) ELSE CanRead(p)
    IN  /\ pc[t] = "step"
        /\ pc' = [pc EXCEPT ![t] = "end"]
        /\ \/ /\ granted
              /\ IF write THEN WritePages(p, r) ELSE ReadPages(p)
              /\ outcome' = [outcome EXCEPT ![t] = [ret |-> r.ret, rows |-> r.rows]]
           \/ /\ ~granted
              /\ outcome' = [outcome EXCEPT ![t] = Busy]
              /\ UNCHANGED <<lock, work, dirty>>
        /\ UNCHANGED <<file, present, ctor, open, holder, call, answer, made, starts, undisturbed>>

\* Mutant: a failed step returns without ending its transaction, as CreateUser does.
CallEndsUnlessFailed(t) ==
    /\ pc[t] = "end"
    /\ IF outcome[t].ret # 0 THEN Return(t, outcome[t]) /\ UNCHANGED <<file, conn>>
       ELSE \/ EndTransaction(Home[t]) /\ Return(t, outcome[t])
            \/ EndRefused(Home[t]) /\ Return(t, Busy)

\* Mutant: the result of END is ignored, as the error paths do.
CallEndsIgnored(t) ==
    /\ pc[t] = "end"
    /\ EndTransaction(Home[t]) \/ EndRefused(Home[t])
    /\ Return(t, outcome[t])

CallEnds(t) ==
    /\ pc[t] = "end"
    /\ \/ EndTransaction(Home[t]) /\ Return(t, outcome[t])
       \/ EndRefused(Home[t]) /\ Return(t, Busy)

AddDefaultRow(t, s) == Insert(t, s.table, s.row).tables

(***************************************************************************)
(* The constructor of SQLiteDB.                                            *)
(***************************************************************************)
Running(p) == stage[p] # "down"
GoTo(p, s) == stage' = [stage EXCEPT ![p] = s]
Moves(p, n) == at' = [at EXCEPT ![p] = n]

\* PathExists; from here the process is on the file with those that run.
Start(p) ==
    /\ stage[p] = "down" /\ starts < MaxStarts
    /\ starts' = starts + 1
    /\ first' = [first EXCEPT ![p] = ~present]
    /\ failed' = [failed EXCEPT ![p] = FALSE]
    /\ undisturbed' = [q \in Process |->
         IF q = p THEN \A o \in Others(p) : ~Running(o) ELSE FALSE]
    /\ GoTo(p, "opening") /\ Moves(p, 1)
    /\ UNCHANGED <<file, present, conn, holder, thread, made>>

Open(p) ==
    /\ stage[p] = "opening"
    /\ present' = TRUE
    /\ GoTo(p, IF first[p] THEN "generate" ELSE "prepare")
    /\ UNCHANGED <<file, first, at, failed, conn, holder, thread, made, starts, undisturbed>>

\* CREATE TABLE IF NOT EXISTS outside a transaction: it commits by itself.
GenerateTables(p) ==
    LET name == TableSeq[at[p]]
        granted == IF name \in DOMAIN file THEN CanRead(p)
                   ELSE \A q \in Others(p) : lock[q] = "none"
    IN  /\ stage[p] = "generate"
        /\ IF at[p] > Len(TableSeq)
           THEN /\ GoTo(p, IF failed[p] THEN "broken" ELSE "prepare")
                /\ Moves(p, 1) /\ UNCHANGED <<file, failed>>
           ELSE /\ file' = IF granted THEN GenerateTable(file, name) ELSE file
                /\ failed' = [failed EXCEPT ![p] = @ \/ ~granted]
                /\ Moves(p, at[p] + 1) /\ UNCHANGED stage
        /\ UNCHANGED <<present, first, conn, holder, thread, made, starts, undisturbed>>

Prepare(p) ==
    /\ stage[p] = "prepare"
    /\ GoTo(p, IF ~CanRead(p) \/ ~PrepareStatements(file) THEN "broken"
               ELSE IF first[p] THEN "rows" ELSE "check")
    /\ UNCHANGED <<file, present, first, at, failed, conn, holder, thread, made, starts, undisturbed>>

\* A row of the defaults was not created: CreateUser and CreateDBVersion make
\* the constructor return, a source stops the other sources, and what failed
\* among the types is only looked at after the last source.  The sources stand
\* together, so what is left is the end of the script.
RowFails(p) ==
    LET table == Script[at[p]].table
        later == {i \in at[p]..Len(Script) : Script[i].table # "source"}
    IN  /\ failed' = [failed EXCEPT ![p] = TRUE]
        /\ CASE table \in {"user", "db_version"} -> GoTo(p, "broken") /\ UNCHANGED at
             [] table = "source" ->
                  GoTo(p, "rows") /\ Moves(p, Len(Script) + 1 - Cardinality(later))
             [] OTHER -> GoTo(p, "rows") /\ Moves(p, at[p] + 1)

\* Mutant: the version is written although a default row failed.
RowBeginsAnyway(p) ==
    /\ stage[p] = "rows"
    /\ IF at[p] > Len(Script)
       THEN GoTo(p, "check") /\ UNCHANGED <<at, failed, conn>>
       ELSE \/ BeginTransaction(p) /\ GoTo(p, "row") /\ UNCHANGED <<at, failed>>
            \/ open[p] /\ RowFails(p) /\ UNCHANGED conn
    /\ UNCHANGED <<file, present, first, holder, thread, made, starts, undisturbed>>

RowBegins(p) ==
    /\ stage[p] = "rows"
    /\ IF at[p] > Len(Script)
       THEN GoTo(p, "check") /\ UNCHANGED <<at, failed, conn>>
       ELSE IF failed[p] /\ Script[at[p]].table = "db_version"
       THEN GoTo(p, "broken") /\ UNCHANGED <<at, failed, conn>>
       ELSE \/ BeginTransaction(p) /\ GoTo(p, "row") /\ UNCHANGED <<at, failed>>
            \/ open[p] /\ RowFails(p) /\ UNCHANGED conn
    /\ UNCHANGED <<file, present, first, holder, thread, made, starts, undisturbed>>

\* The failing step of CreateUser and CreateDBVersion returns at once, its
\* transaction open; the others end it.
RowSteps(p) ==
    LET s == Script[at[p]]
        r == Insert(file, s.table, s.row)
        leaves == s.table \in {"user", "db_version"}
    IN  /\ stage[p] = "row"
        /\ \/ /\ CanWrite(p) /\ WritePages(p, r)
              /\ IF r.ret = 0 THEN GoTo(p, "row end") /\ UNCHANGED <<at, failed>>
                 ELSE IF leaves THEN RowFails(p)
                 ELSE GoTo(p, "row failed") /\ UNCHANGED <<at, failed>>
           \/ /\ ~CanWrite(p) /\ UNCHANGED <<lock, work, dirty>>
              /\ IF leaves THEN RowFails(p) ELSE GoTo(p, "row failed") /\ UNCHANGED <<at, failed>>
        /\ UNCHANGED <<file, present, first, open, holder, thread, made, starts, undisturbed>>

\* Mutant: a row that was created leaves its transaction open.
RowEndsWhenFailed(p) ==
    /\ stage[p] \in {"row end", "row failed"}
    /\ IF stage[p] = "row failed" THEN EndTransaction(p) /\ RowFails(p)
       ELSE GoTo(p, "rows") /\ Moves(p, at[p] + 1) /\ UNCHANGED <<file, failed, conn>>
    /\ UNCHANGED <<present, first, holder, thread, made, starts, undisturbed>>

RowEnds(p) ==
    /\ stage[p] \in {"row end", "row failed"}
    /\ \/ /\ EndTransaction(p)
          /\ IF stage[p] = "row failed" THEN RowFails(p)
             ELSE GoTo(p, "rows") /\ Moves(p, at[p] + 1) /\ UNCHANGED failed
       \/ EndRefused(p) /\ RowFails(p)
    /\ UNCHANGED <<present, first, holder, thread, made, starts, undisturbed>>

\* CheckDBVersion reads in a transaction of its own; a read that fails answers
\* the empty string.
CheckBegins(p) ==
    /\ stage[p] = "check"
    /\ IF open[p] THEN GoTo(p, "broken") /\ UNCHANGED conn
       ELSE IF CanRead(p)
       THEN /\ open' = [open EXCEPT ![p] = TRUE] /\ ReadPages(p) /\ GoTo(p, "checked")
       ELSE GoTo(p, "broken") /\ UNCHANGED conn
    /\ UNCHANGED <<file, present, first, at, failed, holder, thread, made, starts, undisturbed>>

CheckEnds(p) ==
    /\ stage[p] = "checked"
    /\ GoTo(p, IF CheckDBVersion(file) THEN "up" ELSE "broken")
    /\ CloseTransaction(p)
    /\ UNCHANGED <<file, present, first, at, failed, holder, thread, made, starts, undisturbed>>

Construct(p) ==
    \/ Open(p) \/ GenerateTables(p) \/ Prepare(p) \/ RowBegins(p) \/ RowSteps(p) \/ RowEnds(p)
    \/ CheckBegins(p) \/ CheckEnds(p)

\* The process exits or dies: SQLite rolls its transaction back.
Exit(p) ==
    LET mine == {t \in Thread : Home[t] = p}
        reset(f, v) == [t \in Thread |-> IF t \in mine THEN v ELSE f[t]]
    IN  /\ Running(p)
        /\ GoTo(p, "down")
        /\ CloseTransaction(p)
        /\ holder' = [holder EXCEPT ![p] = NoThread]
        /\ pc' = reset(pc, "idle") /\ call' = reset(call, NoCall)
        /\ outcome' = reset(outcome, Busy)
        /\ UNCHANGED <<file, present, first, at, failed, answer, made, starts, undisturbed>>

Step(t) == Enter(t) \/ CallBegins(t) \/ CallRefused(t) \/ CallSteps(t) \/ CallEnds(t)

Next ==
    \/ \E t \in Thread : (\E c \in Calls : Invoke(t, c)) \/ Step(t)
    \/ \E p \in Process : Start(p) \/ Construct(p) \/ Exit(p)

Spec == Init /\ [][Next]_vars

(***************************************************************************)
(* Properties.                                                             *)
(***************************************************************************)
Stages == {"down", "opening", "generate", "prepare", "rows", "row", "row end", "row failed",
           "check", "checked", "up", "broken"}

\* The variables have their types, and a lock, pages to write and a stage of a
\* call are only ever found in an open transaction.
TypeOK ==
    /\ present \in BOOLEAN /\ stage \in [Process -> Stages] /\ first \in [Process -> BOOLEAN]
    /\ at \in [Process -> Nat \ {0}] /\ failed \in [Process -> BOOLEAN]
    /\ open \in [Process -> BOOLEAN] /\ dirty \in [Process -> BOOLEAN]
    /\ lock \in [Process -> {"none", "shared", "reserved", "pending"}]
    /\ holder \in [Process -> Thread \cup {NoThread}]
    /\ pc \in [Thread -> {"idle", "enter", "begin", "step", "end"}]
    /\ call \in [Thread -> Calls \cup {NoCall}]
    /\ made \in Nat /\ starts \in Nat
    /\ undisturbed \in [Process -> BOOLEAN]
    /\ \A p \in Process : ~open[p] => lock[p] = "none" /\ ~dirty[p]

\* A process that is up found every default row: set-up adds the version last
\* and gives up before it when anything failed, also when two processes set up
\* the same file, are cut short or refuse each other's locks.
ReadyImpliesComplete ==
    \A p \in Process : stage[p] = "up" =>
        /\ PrepareStatements(file)
        /\ \A i \in DOMAIN Script : Script[i].row \in file[Script[i].table]

\* Between calls the connection of a process that is up is outside a
\* transaction, unless an END was refused: every error path of a call ends it.
IdleIsClosed ==
    \A p \in Process : stage[p] = "up" /\ open[p] =>
        \/ \E t \in Thread : Home[t] = p /\ pc[t] \in {"step", "end"}
        \/ lock[p] = "pending"

\* First-time setup by a process that has the file for itself never fails.
SetupAloneWorks == \A p \in Process : undisturbed[p] /\ first[p] => stage[p] # "broken"

\* A call answers busy only to a process that shared the file with another one
\* at some time, that made an unlocked call, or that is not initialized.
AloneIsNeverBusy ==
    [][\A t \in Thread :
         call[t] # NoCall /\ call'[t] = NoCall /\ answer'[t] = Busy /\ stage'[Home[t]] = "up"
         => ~undisturbed[Home[t]]]_vars

\* Each call takes its whole effect at once or none, and a call that answered
\* busy does not take effect later.
Atomic == INSTANCE AtomicCalls WITH
    store <- file, Tables <- TableNames, Rows <- {Script[i] : i \in DOMAIN Script},
    AddTable <- GenerateTable, AddRow <- AddDefaultRow
CallsAreAtomic == Atomic!Spec
=============================================================================
