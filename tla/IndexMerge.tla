----------------------------- MODULE IndexMerge -----------------------------
(***************************************************************************)
(* A parser that works from the index of a work (IndexEntryParser.cc,      *)
(* ParserRR.cc) and the loop that drives it (Parser.cc): it merges the     *)
(* chapters the site lists with the rows of md5_sum, queues those it does  *)
(* not have and numbers both by their place in the merge.  Chapters come,  *)
(* also in the middle, and go.  A work has at most one normal and one      *)
(* error job at a time.  A chapter is its seq_num, and what its page says   *)
(* never changes; a row may lack the number.                               *)
(***************************************************************************)
EXTENDS Integers, FiniteSets, Sequences, SequencesExt

CONSTANTS
    Uuid,          \* the work
    Chapters,      \* the seq_nums of the chapters the site may list
    Attempts,      \* remaining_attempts of the loop: 5
    MaxChanges, MaxFaults, MaxJobs,    \* bounds: of the site, of failures and deaths, of jobs
    Libraries,     \* the sets of chapters an earlier job may have stored
    MaxSeqNum,     \* MaxSeqNum: no number, larger than any
    Unsigned,      \* the size_t a negative seq_num becomes
    IntSpan, Version, NoUuid

Adapter == INSTANCE ParserDbAdapter
DB == INSTANCE LibraryDB

\* What the column shows of MaxSeqNum: -1, its low bits.
NoNumber == DB!SQLite!AsInt(MaxSeqNum)

ASSUME IndexAssumption ==
    /\ Chapters \subseteq Nat /\ \A c \in Chapters : c < MaxSeqNum
    /\ IsFiniteSet(Chapters) /\ IntSpan \in Nat \ {0} /\ IntSpan % 2 = 0
    /\ \A c \in Chapters : c < IntSpan \div 2     \* a seq_num fits the column it is written to
    /\ 2 * Cardinality(Chapters) < IntSpan \div 2  \* and so does an index_num
    /\ MaxSeqNum \in Nat /\ Unsigned \in Nat /\ MaxSeqNum < Unsigned
    /\ NoNumber < 0                                \* INT64_MAX does not fit the column
    /\ Attempts \in Nat \ {0} /\ MaxChanges \in Nat
    /\ MaxFaults \in Nat /\ MaxJobs \in Nat /\ Libraries \subseteq SUBSET Chapters
    /\ Uuid # NoUuid

VARIABLES
    numbered,      \* whether the source's urls have numbers (RR) or not (AO3, YT), fixed
    tables,        \* work_entry, md5_sum and error_entry
    site,          \* the chapters the site lists
    job,           \* the job of each kind
    undefined,     \* history: top() or pop() of an empty queue
    changes, faults, jobs    \* counters for the bounds

vars == <<numbered, tables, site, job, undefined, changes, faults, jobs>>

Rows == tables["md5_sum"]
Errors == tables["error_entry"]
HasRow(t, c) == \E r \in t["md5_sum"] : r.seq_num = c

Kinds == {"normal", "error"}
Other(e) == IF e = "error" THEN "normal" ELSE "error"

NoJob == [at |-> "none"]
Running(e) == job[e].at \notin {"none", "error"}

Section(c) == [md5 |-> c, date |-> 0, sec_id |-> c, seq_num |-> c]

\* An earlier listing was stored in full, or nothing of it, and since then a job
\* has given up on its first section.  Rows of another day have no number.
RowsOf(listed, old) ==
    {[uuid |-> Uuid, md5_sum |-> c, date |-> 0, sec_id |-> c,
      seq_num |-> IF c \in old THEN NoNumber ELSE c, version_num |-> 0,
      index_num |-> Cardinality({d \in listed : d < c})] : c \in listed}

Init ==
    /\ numbered \in BOOLEAN
    /\ site \in SUBSET Chapters
    /\ \E stored \in IF numbered THEN Libraries ELSE {{}} : \E old \in SUBSET stored :
         tables = [work_entry |-> {[uuid |-> Uuid]}, md5_sum |-> RowsOf(stored, old),
                   error_entry |-> {[uuid |-> Uuid, progress_num |-> 1]}]
    /\ job = [e \in Kinds |-> NoJob]
    /\ undefined = FALSE /\ changes = 0 /\ faults = 0 /\ jobs = 0

(***************************************************************************)
(* The site.                                                               *)
(***************************************************************************)
\* Several chapters may come and go at once.
Change ==
    /\ changes < MaxChanges
    /\ changes' = changes + 1
    /\ \E listed \in SUBSET Chapters \ {site} : site' = listed
    /\ UNCHANGED <<numbered, tables, job, undefined, faults, jobs>>

Fault == faults < MaxFaults /\ faults' = faults + 1

(***************************************************************************)
(* A job is added; its parser reads the index.  Without entries the parse  *)
(* fails, and its key stays on the board until the process ends.           *)
(***************************************************************************)
Started(e, number, listed) ==
    [at |-> IF listed = {} THEN "error" ELSE "index", listed |-> listed, number |-> number,
     updates |-> << >>, queue |-> << >>, left |-> Attempts,
     alone |-> ~Running(Other(e)), failed |-> FALSE, refused |-> {}]

Begin(e, number) ==
    /\ job[e].at = "none" /\ jobs < MaxJobs
    /\ jobs' = jobs + 1
    /\ \/ /\ job' = [job EXCEPT ![e] = Started(e, number, site),
                                ![Other(e)] = IF Running(Other(e)) THEN [job[Other(e)] EXCEPT !.alone = FALSE]
                                            ELSE job[Other(e)]]
          /\ UNCHANGED faults
       \/ /\ Fault
          /\ job' = [job EXCEPT ![e] = Started(e, number, {})]
    /\ UNCHANGED <<numbered, tables, site, undefined, changes>>

ParseUrls == Begin("normal", 1)

ParseErrorEntries ==
    \E error \in DB!GetErrorEntryList(tables).rows : Begin("error", error.progress_num)

(***************************************************************************)
(* The loop of PreParseLoop: rows and index entries leave their priority   *)
(* queues, the smallest number first.                                      *)
(***************************************************************************)
AsSize(n) == IF n < 0 THEN Unsigned ELSE n

\* Mutant: an empty queue of rows counts as the smallest number.
RowSeqNumZero(m) == IF m.rows = << >> THEN 0 ELSE AsSize(Head(m.rows).seq_num)

RowSeqNum(m) == IF m.rows = << >> THEN MaxSeqNum ELSE AsSize(Head(m.rows).seq_num)
IndexSeqNum(m) == IF m.entries = << >> THEN MaxSeqNum ELSE Head(m.entries)

\* replace_md5_seq_num: never, as the rows that would need it were set aside.
ReplacesRow(m) == m.rows # << >> /\ RowSeqNum(m) = MaxSeqNum

MergeEqual(m) ==
    LET row == Head(m.rows)
    IN  IF m.rows = << >> \/ m.entries = << >> THEN [m EXCEPT !.undefined = TRUE]
        ELSE [m EXCEPT !.rows = Tail(@), !.entries = Tail(@), !.expected = @ + 1,
                       !.updates = IF row.index_num = m.expected THEN @
                                   ELSE Append(@, [row EXCEPT !.index_num = m.expected])]

\* A row whose chapter the site no longer lists keeps its index.
MergeGone(m) ==
    IF m.rows = << >> THEN [m EXCEPT !.undefined = TRUE]
    ELSE [m EXCEPT !.rows = Tail(@), !.expected = @ + 1]

\* Mutant: the entry keeps the index FindIndexEntries gave it.
MergeNewAsListed(m) ==
    IF m.entries = << >> THEN [m EXCEPT !.undefined = TRUE]
    ELSE [m EXCEPT !.entries = Tail(@), !.expected = @ + 1,
                   !.queue = Append(@, [chapter |-> Head(m.entries),
                                        index_num |-> m.listed - Len(m.entries)])]

MergeNew(m) ==
    IF m.entries = << >> THEN [m EXCEPT !.undefined = TRUE]
    ELSE [m EXCEPT !.entries = Tail(@), !.expected = @ + 1,
                   !.queue = Append(@, [chapter |-> Head(m.entries), index_num |-> m.expected])]

\* Mutant: the rows of listed chapters are left as they are.
MergeStepOnlyNew(m) ==
    IF RowSeqNum(m) = IndexSeqNum(m) /\ ~ReplacesRow(m)
    THEN [MergeEqual(m) EXCEPT !.updates = m.updates]
    ELSE IF RowSeqNum(m) < IndexSeqNum(m) /\ ~ReplacesRow(m) THEN MergeGone(m)
    ELSE MergeNew(m)

\* Mutant: only what follows the last row is new.
MergeStepNewer(m) ==
    IF RowSeqNum(m) = IndexSeqNum(m) /\ ~ReplacesRow(m) THEN MergeEqual(m)
    ELSE IF RowSeqNum(m) < IndexSeqNum(m) /\ ~ReplacesRow(m) THEN MergeGone(m)
    ELSE IF m.rows # << >> THEN [MergeNew(m) EXCEPT !.queue = m.queue]
    ELSE MergeNew(m)

MergeStep(m) ==
    IF RowSeqNum(m) = IndexSeqNum(m) /\ ~ReplacesRow(m) THEN MergeEqual(m)
    ELSE IF RowSeqNum(m) < IndexSeqNum(m) /\ ~ReplacesRow(m) THEN MergeGone(m)
    ELSE MergeNew(m)

MergeDone(m) == m.undefined \/ (m.rows = << >> /\ m.entries = << >>)

\* The orders in which things leave a priority queue: the smallest number first.
ByNumber(number) ==
    {s \in SetToSeqs(DOMAIN number) :
       \A i, k \in DOMAIN s : i < k => number[s[i]] <= number[s[k]]}

\* Rows with MaxSeqNum are set aside; one without number shows NoNumber.
BySeqNum(rows) == ByNumber([r \in {s \in rows : s.seq_num # MaxSeqNum} |-> r.seq_num])

\* An AO3 work or a video is one entry whose url has no number.
Entries(listed) == IF numbered THEN ByNumber([c \in listed |-> c]) ELSE {<< MaxSeqNum >>}

\* The one outcome of the loop, as a set.
Merges(rows, entries) ==
    LET start == [rows |-> rows, entries |-> entries, listed |-> Len(entries), expected |-> 0,
                  updates |-> << >>, queue |-> << >>, undefined |-> FALSE]
        after[n \in 0..Len(rows) + Len(entries)] ==
            IF n = 0 THEN {start}
            ELSE {IF MergeDone(m) THEN m ELSE MergeStep(m) : m \in after[n - 1]}
    IN  after[Len(rows) + Len(entries)]

\* The process does not survive the pop of an empty queue.
PreParseLoop(e) ==
    /\ job[e].at = "index"
    /\ \E rows \in BySeqNum(Adapter!ReadMd5s(tables, Uuid)), entries \in Entries(job[e].listed) :
         \E m \in Merges(rows, entries) :
           /\ undefined' = (undefined \/ m.undefined)
           /\ job' = IF m.undefined THEN [f \in Kinds |-> NoJob]
                     ELSE [job EXCEPT ![e].at = "loop", ![e].updates = m.updates,
                                      ![e].queue = m.queue]
    /\ UNCHANGED <<numbered, tables, site, changes, faults, jobs>>

\* The rows whose place has changed, one call for each.
Renumber(e) ==
    /\ job[e].at = "loop" /\ job[e].updates # << >>
    /\ tables' = Adapter!UpdateMd5BySeqNum(tables, Head(job[e].updates)).tables
    /\ job' = [job EXCEPT ![e].updates = Tail(@)]
    /\ UNCHANGED <<numbered, site, undefined, changes, faults, jobs>>

(***************************************************************************)
(* ParseLoop: ParserRR's section, the count of attempts and the report.    *)
(***************************************************************************)
First(e) == Head(job[e].queue)

Parsing(e) ==
    /\ job[e].at = "loop" /\ job[e].updates = << >>
    /\ job[e].queue # << >> /\ job[e].left > 0

\* Mutant: an index is reported as a number.
ProgressNumIndex(e) == First(e).index_num

ProgressNum(e) == First(e).index_num + 1

Succeeded(e) == [job[e] EXCEPT !.at = "loop", !.left = Attempts, !.queue = Tail(@)]

\* The last attempt leaves an error entry, if the work has none.
Failed(e) ==
    /\ tables' = IF job[e].left = 1 /\ DB!DoesErrorEntryExist(tables, Uuid, ProgressNum(e)).rows = {}
                 THEN DB!CreateErrorEntry(tables, [uuid |-> Uuid,
                                                   progress_num |-> ProgressNum(e)]).tables
                 ELSE tables
    /\ job' = [job EXCEPT ![e].at = "loop", ![e].left = @ - 1]

\* The page of a chapter that is gone has no content; others may fail too.
FailsToFetch(e) ==
    /\ Parsing(e)
    /\ (First(e).chapter \notin site /\ UNCHANGED faults) \/ Fault
    /\ Failed(e)
    /\ UNCHANGED <<numbered, site, undefined, changes, jobs>>

Keeps(e) ==
    /\ Parsing(e) /\ First(e).chapter \in site
    /\ Adapter!CheckVersion(tables, Section(First(e).chapter), Uuid)
    /\ job' = [job EXCEPT ![e] = Succeeded(e)]
    /\ UNCHANGED <<numbered, tables, site, undefined, changes, faults, jobs>>

Fetches(e) ==
    /\ Parsing(e) /\ First(e).chapter \in site
    /\ ~Adapter!CheckVersion(tables, Section(First(e).chapter), Uuid)
    /\ job' = [job EXCEPT ![e].at = "save"]
    /\ UNCHANGED <<numbered, tables, site, undefined, changes, faults, jobs>>

\* The file cannot be written.
FailsToSave(e) ==
    /\ job[e].at = "save" /\ Fault
    /\ Failed(e)
    /\ UNCHANGED <<numbered, site, undefined, changes, jobs>>

\* A row that is refused is not noticed.  Every version is 0: the manager does
\* not hand the callback that knows it to its workers.
Saves(e) ==
    LET outcome == Adapter!UpsertMd5ByIndexNum(tables, Uuid, First(e).index_num,
                       Section(First(e).chapter), 0)
    IN  /\ job[e].at = "save"
        /\ tables' = outcome.tables
        /\ job' = [job EXCEPT ![e] = [Succeeded(e) EXCEPT
                        !.refused = IF outcome.ret = 0 THEN job[e].refused
                                    ELSE job[e].refused \cup {First(e).chapter}]]
        /\ UNCHANGED <<numbered, site, undefined, changes, faults, jobs>>

ParseSection(e) == FailsToFetch(e) \/ Keeps(e) \/ Fetches(e) \/ FailsToSave(e) \/ Saves(e)

\* Attempts are at an end: the rest of the queue is dropped.
ExpendedAttempts(e) ==
    /\ job[e].at = "loop" /\ job[e].queue # << >> /\ job[e].left = 0
    /\ job' = [job EXCEPT ![e].queue = << >>, ![e].left = Attempts, ![e].failed = TRUE]
    /\ UNCHANGED <<numbered, tables, site, undefined, changes, faults, jobs>>

ReachedEnd(queue) == queue = << >>

EndLoop(e) ==
    /\ job[e].at = "loop" /\ job[e].updates = << >> /\ ReachedEnd(job[e].queue)
    /\ job' = [job EXCEPT ![e].at = "result"]
    /\ UNCHANGED <<numbered, tables, site, undefined, changes, faults, jobs>>

\* The result of an error job deletes its entry, whatever became of it.
Record(e) ==
    /\ job[e].at = "result"
    /\ tables' = IF e = "error" /\ DB!DoesErrorEntryExist(tables, Uuid, job[e].number).rows # {}
                 THEN DB!DeleteErrorEntry(tables, Uuid, job[e].number).tables ELSE tables
    /\ job' = [job EXCEPT ![e] = NoJob]
    /\ UNCHANGED <<numbered, site, undefined, changes, faults, jobs>>

\* The process dies or is stopped.
Die ==
    /\ \E e \in Kinds : job[e].at # "none"
    /\ Fault
    /\ job' = [e \in Kinds |-> NoJob]
    /\ UNCHANGED <<numbered, tables, site, undefined, changes, jobs>>

JobStep(e) ==
    \/ PreParseLoop(e) \/ Renumber(e) \/ ParseSection(e)
    \/ ExpendedAttempts(e) \/ EndLoop(e) \/ Record(e)

Next ==
    \/ Change
    \/ ParseUrls \/ ParseErrorEntries
    \/ \E e \in Kinds : JobStep(e)
    \/ Die

Spec == Init /\ [][Next]_vars

(***************************************************************************)
(* Properties.                                                             *)
(***************************************************************************)
Stages == {"none", "error", "index", "loop", "save", "result"}

TypeOK ==
    /\ site \subseteq Chapters
    /\ \A r \in Rows : r.seq_num \in Chapters \cup {NoNumber} /\ r.index_num \in Nat
    /\ \A r, s \in Rows : r.seq_num = s.seq_num => r = s \/ r.seq_num = NoNumber
    /\ \A r \in Errors : r.progress_num \in Nat \ {0}
    /\ \A e \in Kinds :
         /\ job[e].at \in Stages
         /\ job[e].at = "save" => job[e].queue # << >>

Merging(e) == Running(e) /\ job[e].alone
InLoop(e) == Merging(e) /\ job[e].at # "index" /\ job[e].updates = << >>
Queued(e) == {job[e].queue[i] : i \in DOMAIN job[e].queue}

\* Once a job that ran alone has merged, the chapters the site listed are
\* numbered in the site's order, those that are stored and those still queued
\* together; so no two have one index.
Placed(e) ==
    {[chapter |-> r.seq_num, index_num |-> r.index_num] :
       r \in {s \in Rows : s.seq_num \in job[e].listed}} \cup Queued(e)

InOrder ==
    \A e \in Kinds : InLoop(e) =>
      \A a, b \in Placed(e) : a.chapter < b.chapter => a.index_num < b.index_num

\* While a job runs alone, no chapter the site listed to it loses its row,
\* although rows are written over by index.
LiveRowsStay ==
    [][\A e \in Kinds : Merging(e) =>
         \A c \in job[e].listed : HasRow(tables, c) => HasRow(tables', c)]_vars

\* A job that runs alone and does not give up passes over no chapter: each is
\* stored, still queued, or its row was refused.
Complete ==
    \A e \in Kinds : InLoop(e) /\ ~job[e].failed =>
      \A c \in job[e].listed :
        HasRow(tables, c) \/ c \in job[e].refused \/ \E q \in Queued(e) : q.chapter = c

\* A queue is read when it is empty only of a source whose urls have no numbers,
\* or for a work that has a row without number: for any other rows and index the
\* two queues of PreParseLoop run out together.
MergeIsDefined == undefined => ~numbered \/ \E r \in Rows : r.seq_num = NoNumber

\* What PreParseLoop's warning about rows with MaxSeqNum, which it sets aside,
\* says of them: that they do no harm to the merge.
OldRowsAreSetAside == undefined => ~numbered

=============================================================================
