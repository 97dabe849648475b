--------------------------- MODULE LinkedListWalk ---------------------------
(***************************************************************************)
(* A parser that follows the links from section to section                 *)
(* (LinkedListParser.cc, ParserXF.cc, ParserWP.cc), the loop that drives   *)
(* it (Parser.cc) and what the application stores of it (BlackLibrary.cc). *)
(* The next run of a work continues from two columns that are written      *)
(* apart: series_length by every report, last_url by the result.  A work   *)
(* has at most one normal and one error job at a time, walk[FALSE] and     *)
(* walk[TRUE].  Links are the places of the sections they lead to.         *)
(***************************************************************************)
EXTENDS Integers, FiniteSets

CONSTANTS
    Uuid,          \* the work
    Attempts,      \* remaining_attempts of the loop: 5
    MaxSections, MaxEdits, MaxJobs,    \* bounds
    Edited,        \* the sections the author changes after they are published
    IntSpan, Version, NoUuid

ASSUME WalkAssumption ==
    /\ Attempts \in Nat \ {0} /\ MaxSections \in Nat \ {0}
    /\ MaxEdits \in Nat /\ MaxJobs \in Nat /\ Edited \subseteq 1..MaxSections
    /\ Uuid # NoUuid
    /\ IntSpan \in Nat \ {0} /\ IntSpan % 2 = 0 /\ MaxSections <= IntSpan \div 2

Adapter == INSTANCE ParserDbAdapter
DB == INSTANCE LibraryDB

VARIABLES
    forum,         \* whether the url is ParserXF's (TRUE) or ParserWP's, fixed
    tables,        \* work_entry, md5_sum and error_entry
    published,     \* how many sections the site has
    edits,         \* edits[p]: how often the author changed section p
    walk,          \* the walks of the normal and of the error job
    derailed,      \* history: an event that sets last_url and series_length apart
    forgotten,     \* history: an error entry was deleted and its section not stored
    jobs           \* counter for the bound

vars == <<forum, tables, published, edits, walk, derailed, forgotten, jobs>>

Place == 1..MaxSections
WorkUrl == 0       \* the url of the work itself
Nowhere == -1      \* a link of a page without the expected navigation
NoBound == MaxSections + MaxSections

Section(p) ==
    [md5 |-> <<p, edits[p]>>, date |-> edits[p],
     sec_id |-> IF forum THEN p ELSE 0, seq_num |-> IF forum THEN p ELSE -1]

Entries == tables["work_entry"]
Rows == tables["md5_sum"]
Errors == tables["error_entry"]
Entry == CHOOSE e \in Entries : TRUE

NoWalk == [at |-> "none"]

Init ==
    /\ forum \in BOOLEAN
    /\ tables = [work_entry |-> {[uuid |-> Uuid, url |-> WorkUrl, last_url |-> WorkUrl,
                                  series_length |-> 1]},
                 md5_sum |-> {}, error_entry |-> {}]
    /\ published = 1 /\ edits = [p \in Place |-> 0]
    /\ walk = [e \in BOOLEAN |-> NoWalk]
    /\ derailed = FALSE /\ forgotten = FALSE /\ jobs = 0

(***************************************************************************)
(* The site.                                                               *)
(***************************************************************************)
Publish ==
    /\ published < MaxSections
    /\ published' = published + 1
    /\ UNCHANGED <<forum, tables, edits, walk, derailed, forgotten, jobs>>

Edit(p) ==
    /\ p <= published /\ edits[p] < MaxEdits
    /\ edits' = [edits EXCEPT ![p] = @ + 1]
    /\ UNCHANGED <<forum, tables, published, walk, derailed, forgotten, jobs>>

(***************************************************************************)
(* A job is added and the parser gets ready for its loop.  A parse that    *)
(* fails before the loop leaves nothing behind.                            *)
(***************************************************************************)
\* Mutant: the start number is taken for an index.
BoundsOfNumbers(start_number, end_number) ==
    [start |-> start_number, end |-> IF end_number <= 1 THEN NoBound ELSE end_number - 1]

\* end_number is 0 for a normal job, the wrapped bound is as good as none; and
\* a bound of 0 means none, also for an error job of the first section.
CalculateIndexBounds(start_number, end_number) ==
    [start |-> start_number - 1, end |-> IF end_number <= 1 THEN NoBound ELSE end_number - 1]

\* Mutant: a continued walk numbers from the next section.
PreParseLoopNext(last_url, start_number) ==
    IF last_url = WorkUrl THEN [next |-> 1, index |-> 0]
    ELSE [next |-> last_url, index |-> start_number]

\* seq_num_missing_ never holds: no row shows the value it is compared with.
PreParseLoop(last_url, start_number) ==
    IF last_url = WorkUrl THEN [next |-> 1, index |-> 0]
    ELSE [next |-> last_url, index |-> start_number - 1]

Begin(e, last_url, start_number, end_number) ==
    LET bounds == CalculateIndexBounds(start_number, end_number)
        first == PreParseLoop(last_url, start_number)
    IN  /\ walk[e].at = "none" /\ jobs < MaxJobs
        /\ jobs' = jobs + 1
        /\ walk' = [walk EXCEPT ![e] =
             [at |-> "parse", next |-> first.next, index |-> first.index,
              start |-> bounds.start, end |-> bounds.end, left |-> Attempts,
              reached |-> FALSE, has_error |-> FALSE, length |-> 1, number |-> start_number]]
        /\ UNCHANGED <<forum, tables, published, edits, derailed, forgotten>>

ParseUrls == Begin(FALSE, Entry.last_url, Entry.series_length, 0)

ParseErrorEntries ==
    \E error \in DB!GetErrorEntryList(tables).rows :
      Begin(TRUE, Entry.url, error.progress_num, error.progress_num)

(***************************************************************************)
(* ParseSection: each way through it sets whether it failed; the loop then *)
(* reports.  next_url_ moves in the middle of it.                          *)
(***************************************************************************)
Parsing(e) == walk[e].at = "parse" /\ ~walk[e].reached /\ walk[e].left > 0

Reporting(w, has_error) == [w EXCEPT !.at = "report", !.has_error = has_error]

\* Past the bound: a success that parsed nothing.
PastBound(e) ==
    /\ Parsing(e) /\ walk[e].index > walk[e].end
    /\ walk' = [walk EXCEPT ![e] = [Reporting(@, FALSE) EXCEPT !.reached = TRUE]]
    /\ UNCHANGED <<forum, tables, published, edits, derailed, forgotten, jobs>>

\* The page cannot be had, or is not what the parser expects, before
\* next_url_ moves.
FailsEarly(e) ==
    /\ Parsing(e) /\ walk[e].index <= walk[e].end
    /\ walk' = [walk EXCEPT ![e] = Reporting(@, TRUE)]
    /\ UNCHANGED <<forum, tables, published, edits, derailed, forgotten, jobs>>

\* Mutant: the missing link of the last section is followed.
FollowsAnyLink(p) ==
    {[next |-> p + 1, reached |-> FALSE], [next |-> Nowhere, reached |-> FALSE]}

\* A page that shows no next section is the end, and next_url_ stays; the last
\* section has none, and another's page may come without it.  A page that
\* lacks more of its navigation gives a link that leads nowhere.
GetNextUrl(p) ==
    {[next |-> p, reached |-> TRUE], [next |-> Nowhere, reached |-> FALSE]}
    \cup {[next |-> q, reached |-> FALSE] : q \in {p + 1} \cap 1..published}

Moved(w, link) == [w EXCEPT !.next = link.next, !.reached = link.reached]

\* A page without navigation leaves a forum parser with a link that leads
\* nowhere; ParserWP is left with none and starts over the next time.
LosesTheWay(link) == forum /\ link.next = Nowhere

AtSection(e) == Parsing(e) /\ walk[e].index <= walk[e].end /\ walk[e].next \in 1..published

\* A section before the first one wanted is not saved.
Skips(e) ==
    /\ AtSection(e) /\ walk[e].index < walk[e].start
    /\ \E link \in GetNextUrl(walk[e].next) :
         /\ walk' = [walk EXCEPT ![e] = Reporting(Moved(@, link), FALSE)]
         /\ derailed' = (derailed \/ LosesTheWay(link))
    /\ UNCHANGED <<forum, tables, published, edits, forgotten, jobs>>

\* No content, no file name, or the file cannot be written: the next attempt
\* is for the next section, under this one's index.
FailsLate(e) ==
    /\ AtSection(e) /\ walk[e].index >= walk[e].start
    /\ \E link \in GetNextUrl(walk[e].next) :
         /\ walk' = [walk EXCEPT ![e] = Reporting(Moved(@, link), TRUE)]
         /\ derailed' = TRUE
    /\ UNCHANGED <<forum, tables, published, edits, forgotten, jobs>>

\* ParserXF asks for the digest, ParserWP for the row of the url, any of them
\* when the source has no numbers.
AlreadyStored(p) ==
    IF forum THEN {Adapter!CheckVersion(tables, Section(p), Uuid)}
    ELSE LET saved == Adapter!ReadMd5ByUrl(tables, Uuid, Section(p))
         IN  {r.md5_sum = Section(p).md5 /\ r.date = Section(p).date : r \in saved}
             \cup (IF saved = {} THEN {FALSE} ELSE {})

Keeps(e) ==
    /\ AtSection(e) /\ walk[e].index >= walk[e].start
    /\ TRUE \in AlreadyStored(walk[e].next)
    /\ \E link \in GetNextUrl(walk[e].next) :
         /\ walk' = [walk EXCEPT ![e] = Reporting(Moved(@, link), FALSE)]
         /\ derailed' = (derailed \/ LosesTheWay(link))
    /\ UNCHANGED <<forum, tables, published, edits, forgotten, jobs>>

\* A checksum row that is refused is not noticed.  Every version is 0: the
\* manager does not hand the callback that knows it to its workers.
Saves(e) ==
    LET w == walk[e]
    IN  /\ AtSection(e) /\ w.index >= w.start
        /\ FALSE \in AlreadyStored(w.next)
        /\ \E link \in GetNextUrl(w.next) :
             /\ walk' = [walk EXCEPT ![e] = Reporting(Moved(@, link), FALSE)]
             /\ derailed' = (derailed \/ LosesTheWay(link))
        /\ tables' = Adapter!UpsertMd5ByIndexNum(tables, Uuid, w.index, Section(w.next), 0).tables
        /\ UNCHANGED <<forum, published, edits, forgotten, jobs>>

ParseSection(e) ==
    PastBound(e) \/ FailsEarly(e) \/ Skips(e) \/ FailsLate(e) \/ Keeps(e) \/ Saves(e)

(***************************************************************************)
(* ParseLoop after a section, and the application's callback.              *)
(***************************************************************************)
Raised(t, progress_num) ==
    LET e == CHOOSE r \in DB!ReadWorkEntry(t, Uuid).rows : TRUE
    IN  DB!UpdateWorkEntry(t, IF e.series_length < progress_num
                              THEN [e EXCEPT !.series_length = progress_num] ELSE e).tables

\* A second error of the same number changes nothing.
Progress(t, progress_num, error) ==
    IF error /\ DB!DoesErrorEntryExist(t, Uuid, progress_num).rows # {} THEN t
    ELSE Raised(IF error
                THEN DB!CreateErrorEntry(t, [uuid |-> Uuid, progress_num |-> progress_num]).tables
                ELSE t, progress_num)

\* An error job that raises series_length leaves last_url behind.
RaisedByError(e) == e /\ tables'["work_entry"] # Entries

\* Mutant: IndicateNextSection is not called.
SucceededInPlace(e) ==
    LET w == walk[e]
    IN  /\ w.at = "report" /\ ~w.has_error
        /\ tables' = Progress(tables, w.index + 1, FALSE)
        /\ walk' = [walk EXCEPT ![e] = [@ EXCEPT !.at = "parse", !.length = w.index + 1,
                                                 !.left = Attempts]]
        /\ derailed' = (derailed \/ RaisedByError(e))
        /\ UNCHANGED <<forum, published, edits, forgotten, jobs>>

Succeeded(e) ==
    LET w == walk[e]
    IN  /\ w.at = "report" /\ ~w.has_error
        /\ tables' = Progress(tables, w.index + 1, FALSE)
        /\ walk' = [walk EXCEPT ![e] = [@ EXCEPT !.at = "parse", !.length = w.index + 1,
                                                 !.left = Attempts, !.index = w.index + 1]]
        /\ derailed' = (derailed \/ RaisedByError(e))
        /\ UNCHANGED <<forum, published, edits, forgotten, jobs>>

\* Mutant: an attempt costs nothing while the walk catches up.
FailedFreely(e) ==
    LET w == walk[e]
    IN  /\ w.at = "report" /\ w.has_error
        /\ tables' = IF w.left = 1 THEN Progress(tables, w.index + 1, TRUE) ELSE tables
        /\ walk' = [walk EXCEPT ![e] = [@ EXCEPT !.at = "parse",
                                         !.left = IF w.index < w.start THEN @ ELSE w.left - 1]]
        /\ derailed' = (derailed \/ RaisedByError(e))
        /\ UNCHANGED <<forum, published, edits, forgotten, jobs>>

Failed(e) ==
    LET w == walk[e]
    IN  /\ w.at = "report" /\ w.has_error
        /\ tables' = IF w.left = 1 THEN Progress(tables, w.index + 1, TRUE) ELSE tables
        /\ walk' = [walk EXCEPT ![e] = [@ EXCEPT !.at = "parse", !.left = w.left - 1]]
        /\ derailed' = (derailed \/ RaisedByError(e))
        /\ UNCHANGED <<forum, published, edits, forgotten, jobs>>

\* The loop ends: reached_end_, by itself or by ExpendedAttempts.  A walk that
\* started over and ends before it has caught up leaves last_url behind.
EndLoop(e) ==
    LET w == walk[e]
        last == IF w.reached THEN w.index ELSE w.index + 1
    IN  /\ w.at = "parse" /\ (w.reached \/ w.left = 0)
        /\ walk' = [walk EXCEPT ![e] = [@ EXCEPT !.at = "result"]]
        /\ derailed' = (derailed \/ (~e /\ last < w.number))
        /\ UNCHANGED <<forum, tables, published, edits, forgotten, jobs>>

\* The url of a blog's first section is the work's, and an empty next_url_ is
\* replaced by it.
SaveLastUrl(next) == IF ~forum /\ next \in {1, Nowhere} THEN WorkUrl ELSE next

UpdateDatabaseWithResult(w) ==
    LET e == CHOOSE r \in DB!ReadWorkEntry(tables, Uuid).rows : TRUE
        length == IF e.series_length < w.length THEN w.length ELSE e.series_length
    IN  DB!UpdateWorkEntry(tables, [e EXCEPT !.last_url = SaveLastUrl(w.next),
                                             !.series_length = length]).tables

Record ==
    /\ walk[FALSE].at = "result"
    /\ tables' = UpdateDatabaseWithResult(walk[FALSE])
    /\ walk' = [walk EXCEPT ![FALSE] = NoWalk]
    /\ UNCHANGED <<forum, published, edits, derailed, forgotten, jobs>>

HasRow(t, p) == \E r \in t["md5_sum"] : r.md5_sum[1] = p

\* A job that went through its loop is a success, whatever it met there.
RecordError ==
    LET number == walk[TRUE].number
    IN  /\ walk[TRUE].at = "result"
        /\ tables' = IF DB!DoesErrorEntryExist(tables, Uuid, number).rows = {} THEN tables
                     ELSE DB!DeleteErrorEntry(tables, Uuid, number).tables
        /\ walk' = [walk EXCEPT ![TRUE] = NoWalk]
        /\ forgotten' = (forgotten \/ ~HasRow(tables, number))
        /\ UNCHANGED <<forum, published, edits, derailed, jobs>>

\* The process dies or is stopped: a result is not recorded after Stop.
Die ==
    /\ walk # [e \in BOOLEAN |-> NoWalk]
    /\ walk' = [e \in BOOLEAN |-> NoWalk]
    /\ derailed' = (derailed \/ (Entry.last_url # WorkUrl /\ Entry.last_url # Entry.series_length))
    /\ UNCHANGED <<forum, tables, published, edits, forgotten, jobs>>

WalkStep(e) == ParseSection(e) \/ Succeeded(e) \/ Failed(e) \/ EndLoop(e)

Next ==
    \/ Publish \/ \E p \in Edited : Edit(p)
    \/ ParseUrls \/ ParseErrorEntries
    \/ \E e \in BOOLEAN : WalkStep(e)
    \/ Record \/ RecordError \/ Die

Spec == Init /\ [][Next]_vars

(***************************************************************************)
(* Properties.                                                             *)
(***************************************************************************)
TypeOK ==
    /\ Cardinality(Entries) = 1
    /\ Entry.uuid = Uuid /\ Entry.last_url \in Place \cup {WorkUrl, Nowhere}
    /\ Entry.series_length \in Nat \ {0}
    /\ \A r \in Rows : r.md5_sum[1] \in Place /\ r.index_num \in Int
    /\ \A r \in Errors : r.uuid = Uuid /\ r.progress_num \in Nat \ {0}
    /\ published \in Place /\ edits \in [Place -> 0..MaxEdits]
    /\ \A e \in BOOLEAN : walk[e].at \in {"none", "parse", "report", "result"}

\* Until one of the events that derailed names has happened: a checksum row of
\* the p-th section has the index p - 1 and no section has two, and between
\* jobs the two columns a walk continues from name the same section.
Numbered ==
    ~derailed =>
      /\ \A r \in Rows : r.index_num = r.md5_sum[1] - 1
      /\ \A r, q \in Rows : r.md5_sum[1] = q.md5_sum[1] => r = q
      /\ walk[FALSE].at = "none" /\ Entry.last_url # WorkUrl
         => Entry.last_url = Entry.series_length

\* What series_length counts as parsed is stored, or an error entry asks for
\* it: nothing is passed over in silence.
NothingForgotten ==
    ~derailed /\ ~forgotten =>
      \A p \in 1..Entry.series_length - 1 :
        HasRow(tables, p) \/ \E r \in Errors : r.progress_num = p

\* Until then a stored section stays stored.
RowsStay == [][~derailed' => \A p \in Place : HasRow(tables, p) => HasRow(tables', p)]_vars

\* Every walk ends, where each page links to the next section, to nowhere or
\* not at all: each step leaves fewer sections, attempts or steps of an attempt
\* than there were, although attempts are given anew after each success.
SectionsLeft(w) ==
    IF w.reached THEN 0 ELSE IF w.next = Nowhere THEN 1 ELSE 2 + MaxSections - w.next
AttemptsLeft(w) == IF w.at = "report" /\ ~w.has_error THEN Attempts ELSE w.left
StageOf(w) ==
    CASE w.at = "report" -> IF w.has_error THEN 1 ELSE 3
      [] w.at = "parse" -> 2
      [] OTHER -> 0
StepsLeft(w) == 4 * ((Attempts + 1) * SectionsLeft(w) + AttemptsLeft(w)) + StageOf(w)

WalkEnds ==
    [][\A e \in BOOLEAN :
         walk[e].at # "none" /\ walk'[e].at # "none" /\ walk'[e] # walk[e] =>
           StepsLeft(walk'[e]) \in 0..StepsLeft(walk[e]) - 1]_vars
=============================================================================
