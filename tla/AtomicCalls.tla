---------------------------- MODULE AtomicCalls ----------------------------
(***************************************************************************)
(* What the users of the database rely on: every call takes its whole      *)
(* effect in one step between its invocation and its return, or it has no  *)
(* effect, now or later, and answers busy.                                 *)
(***************************************************************************)
CONSTANTS
    Thread, Calls, NoCall, Busy,
    Writes,              \* the calls that may change the store
    Effect(_, _),        \* what a call does to the store: [ret, tables, rows]
    Tables, Rows,        \* what first-time setup may add ...
    AddTable(_, _), AddRow(_, _)   \* ... and how

VARIABLES store, call, answer

NoTables == [n \in {} |-> {}]

Init ==
    /\ store = NoTables
    /\ call = [t \in Thread |-> NoCall]
    /\ answer = [t \in Thread |-> Busy]

Invoke(t, c) ==
    /\ call[t] = NoCall
    /\ call' = [call EXCEPT ![t] = c]
    /\ UNCHANGED <<store, answer>>

TakeEffect(t) ==
    LET r == Effect(call[t], store)
    IN  /\ call[t] # NoCall
        /\ store' = IF call[t] \in Writes THEN r.tables ELSE store
        /\ answer' = [answer EXCEPT ![t] = [ret |-> r.ret, rows |-> r.rows]]
        /\ call' = [call EXCEPT ![t] = NoCall]

Fail(t) ==
    /\ call[t] # NoCall
    /\ answer' = [answer EXCEPT ![t] = Busy]
    /\ call' = [call EXCEPT ![t] = NoCall]
    /\ UNCHANGED store

\* A process dies: the calls of its threads are gone.
Die(T) ==
    /\ call' = [t \in Thread |-> IF t \in T THEN NoCall ELSE call[t]]
    /\ UNCHANGED <<store, answer>>

SetUp ==
    /\ \/ \E n \in Tables : store' = AddTable(store, n)
       \/ \E r \in Rows : store' = AddRow(store, r)
    /\ UNCHANGED <<call, answer>>

Next ==
    \/ \E t \in Thread : (\E c \in Calls : Invoke(t, c)) \/ TakeEffect(t) \/ Fail(t)
    \/ \E T \in SUBSET Thread : Die(T)
    \/ SetUp

Spec == Init /\ [][Next]_<<store, call, answer>>
=============================================================================
