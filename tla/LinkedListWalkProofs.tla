------------------------ MODULE LinkedListWalkProofs ------------------------
(***************************************************************************)
(* Every walk of a linked list ends, for any number of sections, attempts, *)
(* jobs and edits, as long as a page's link leads to the next section,     *)
(* nowhere, or is missing.                                                 *)
(***************************************************************************)
EXTENDS LinkedListWalk, FiniteSetTheorems, TLAPS

EntryType ==
    [uuid : {Uuid}, url : {WorkUrl}, last_url : Place \cup {WorkUrl, Nowhere},
     series_length : Nat \ {0}]
RowType ==
    [uuid : {Uuid}, md5_sum : Place \X Nat, index_num : Int, date : Nat, sec_id : Nat,
     seq_num : Int, version_num : {0}]
ErrorType == [uuid : {Uuid}, progress_num : Nat \ {0}]
TablesType ==
    [work_entry : SUBSET EntryType, md5_sum : SUBSET RowType, error_entry : SUBSET ErrorType]

\* The tables have their types, and there is one work.
Sound(t) ==
    /\ t \in TablesType
    /\ t["work_entry"] # {}
    /\ \A x, y \in t["work_entry"] : x = y

WalkType ==
    [at : {"parse", "report", "result"}, next : Place \cup {Nowhere}, index : Nat,
     start : Nat, end : Nat, left : 0..Attempts, reached : BOOLEAN, has_error : BOOLEAN,
     length : Nat \ {0}, number : Nat \ {0}]

\* A section that failed was one of the attempts.
Attempted(w) == w.at = "report" => w.left > 0

IInv ==
    /\ forum \in BOOLEAN /\ Sound(tables)
    /\ published \in Place /\ edits \in [Place -> 0..MaxEdits]
    /\ walk \in [BOOLEAN -> WalkType \cup {NoWalk}]
    /\ \A e \in BOOLEAN : walk[e] # NoWalk => Attempted(walk[e])

----------------------------------------------------------------------------
(* What the calls of the database do to the tables.                         *)

\* The one entry is what the work is read as.
LEMMA ReadIsEntry ==
  ASSUME NEW t, Sound(t)
  PROVE  /\ (CHOOSE r \in DB!ReadWorkEntry(t, Uuid).rows : TRUE) \in EntryType
         /\ (CHOOSE r \in t["work_entry"] : TRUE) \in EntryType
<1>1. PICK x \in EntryType : x \in t["work_entry"]  BY DEF Sound, TablesType
<1>2. t["work_entry"] \subseteq EntryType  BY DEF Sound, TablesType
<1>3. DB!ReadWorkEntry(t, Uuid).rows = {r \in t["work_entry"] : r.uuid = Uuid}
  BY WalkAssumption DEF DB!ReadWorkEntry, DB!OrNothing, DB!SQLite!ReadEntry, DB!SQLite!Select,
     DB!SQLite!Done, DB!SQLite!Where
<1>4. x.uuid = Uuid  BY DEF EntryType
<1> QED  BY <1>1, <1>2, <1>3, <1>4

\* Writing the entry replaces it, and nothing else.
LEMMA UpdateKeepsSound ==
  ASSUME NEW t, Sound(t), NEW entry \in EntryType
  PROVE  Sound(DB!UpdateWorkEntry(t, entry).tables)
<1> DEFINE cond == [uuid |-> entry.uuid]
           columns == DOMAIN entry \ {"uuid"}
           hit == DB!SQLite!Where(t, "work_entry", cond)
           new(r) == IF r \in hit THEN DB!SQLite!Assigned(r, entry, columns) ELSE r
           written == [t EXCEPT !["work_entry"] = {new(r) : r \in @}]
<1>1. \/ DB!UpdateWorkEntry(t, entry).tables = t
      \/ DB!UpdateWorkEntry(t, entry).tables = written
  BY DEF DB!UpdateWorkEntry, DB!OrRefused, DB!SQLite!UpdateEntry, DB!SQLite!Update,
     DB!SQLite!Done, DB!SQLite!Refused
<1>2. ASSUME NEW r \in t["work_entry"] PROVE new(r) \in EntryType
  <2>1. r \in EntryType  BY DEF Sound, TablesType
  <2>2. CASE r \in hit
    <3>1. new(r) = [c \in DOMAIN r |-> IF c \in columns THEN entry[c] ELSE r[c]]
      BY <2>2 DEF DB!SQLite!Assigned
    <3>2. DOMAIN r = {"uuid", "url", "last_url", "series_length"}  BY <2>1 DEF EntryType
    <3>3. DOMAIN entry = {"uuid", "url", "last_url", "series_length"}  BY DEF EntryType
    <3>4. new(r) = [uuid |-> r.uuid, url |-> entry.url, last_url |-> entry.last_url,
                    series_length |-> entry.series_length]
      BY <3>1, <3>2, <3>3
    <3> QED  BY <2>1, <3>4 DEF EntryType
  <2>3. CASE r \notin hit  BY <2>1, <2>3
  <2> QED  BY <2>2, <2>3
<1>3. written \in TablesType  BY <1>2 DEF Sound, TablesType
<1>4. written["work_entry"] = {new(r) : r \in t["work_entry"]}  BY DEF Sound, TablesType
<1>5. Sound(written)
  <2> HIDE DEF new, written
  <2>1. PICK x \in t["work_entry"] : TRUE  BY DEF Sound
  <2>2. new(x) \in EntryType /\ new(x) \in written["work_entry"]  BY <1>2, <1>4, <2>1
  <2>3. \A y, z \in written["work_entry"] : y = z  BY <1>4 DEF Sound
  <2> QED  BY <1>3, <2>2, <2>3 DEF Sound
<1> QED  BY <1>1, <1>5

\* Creating an error leaves sound tables.
LEMMA CreateErrorKeepsSound ==
  ASSUME NEW t, Sound(t), NEW entry \in ErrorType
  PROVE  Sound(DB!CreateErrorEntry(t, entry).tables)
<1>1. \/ DB!CreateErrorEntry(t, entry).tables = t
      \/ DB!CreateErrorEntry(t, entry).tables = [t EXCEPT !["error_entry"] = @ \cup {entry}]
  BY DEF DB!CreateErrorEntry, DB!OrRefused, DB!SQLite!CreateErrorEntry, DB!SQLite!Insert,
     DB!SQLite!Done, DB!SQLite!Refused
<1> QED  BY <1>1 DEF Sound, TablesType

\* Deleting an error leaves sound tables.
LEMMA DeleteErrorKeepsSound ==
  ASSUME NEW t, Sound(t), NEW number
  PROVE  Sound(DB!DeleteErrorEntry(t, Uuid, number).tables)
<1>1. PICK gone : DB!DeleteErrorEntry(t, Uuid, number).tables
                  = [t EXCEPT !["error_entry"] = @ \ gone]
  BY WalkAssumption DEF DB!DeleteErrorEntry, DB!OrRefused, DB!SQLite!DeleteErrorEntry,
     DB!SQLite!Delete, DB!SQLite!Done
<1> QED  BY <1>1 DEF Sound, TablesType

\* What is bound as an int is an integer.
LEMMA AsIntIsInt ==
  ASSUME NEW n \in Int
  PROVE  Adapter!DB!SQLite!AsInt(n) \in Int
  BY WalkAssumption DEF Adapter!DB!SQLite!AsInt

\* A section's checksum row is a row of its work, inserted or written over the
\* rows of its index.
LEMMA UpsertKeepsSound ==
  ASSUME NEW t, Sound(t), NEW index \in Nat, NEW p \in Place,
         edits \in [Place -> 0..MaxEdits]
  PROVE  Sound(Adapter!UpsertMd5ByIndexNum(t, Uuid, index, Section(p), 0).tables)
<1> DEFINE md5 == Adapter!Md5Of(Uuid, index, Section(p), 0)
           row == Adapter!DB!SQLite!Md5Row(md5)
           columns == Adapter!DB!SQLite!AllButKey(md5, "index_num")
           cond == [uuid |-> md5.uuid, index_num |-> Adapter!DB!SQLite!AsInt(md5.index_num)]
           hit == Adapter!DB!SQLite!Where(t, "md5_sum", cond)
           new(r) == IF r \in hit THEN Adapter!DB!SQLite!Assigned(r, row, columns) ELSE r
           written == [t EXCEPT !["md5_sum"] = {new(r) : r \in @}]
           inserted == [t EXCEPT !["md5_sum"] = @ \cup {row}]
           after == Adapter!UpsertMd5ByIndexNum(t, Uuid, index, Section(p), 0).tables
<1>1. \/ after = t
      \/ after = written
      \/ after = inserted
  BY DEF Adapter!UpsertMd5ByIndexNum, Adapter!DB!UpdateMd5SumByIndexNum, Adapter!DB!CreateMd5Sum,
     Adapter!DB!OrRefused, Adapter!DB!SQLite!UpdateMd5SumByIndexNum,
     Adapter!DB!SQLite!CreateMd5Sum, Adapter!DB!SQLite!Update, Adapter!DB!SQLite!Insert,
     Adapter!DB!SQLite!Done, Adapter!DB!SQLite!Refused
<1>2. row \in RowType
  <2>1. /\ Section(p).md5 \in Place \X Nat /\ Section(p).date \in Nat
        /\ Section(p).sec_id \in Nat /\ Section(p).seq_num \in Int
    BY WalkAssumption DEF Section, Place
  <2>2. md5 = [uuid |-> Uuid, md5_sum |-> Section(p).md5, index_num |-> index,
               date |-> Section(p).date, sec_id |-> Section(p).sec_id,
               seq_num |-> Section(p).seq_num, version_num |-> 0]
    BY DEF Adapter!Md5Of
  <2>3. row = [md5 EXCEPT !.index_num = Adapter!DB!SQLite!AsInt(@),
                          !.seq_num = Adapter!DB!SQLite!AsInt(@)]
    BY DEF Adapter!DB!SQLite!Md5Row
  <2> HIDE DEF md5, row
  <2>4. row = [uuid |-> Uuid, md5_sum |-> Section(p).md5,
               index_num |-> Adapter!DB!SQLite!AsInt(index),
               date |-> Section(p).date, sec_id |-> Section(p).sec_id,
               seq_num |-> Adapter!DB!SQLite!AsInt(Section(p).seq_num), version_num |-> 0]
    BY <2>2, <2>3
  <2>5. /\ Adapter!DB!SQLite!AsInt(index) \in Int
        /\ Adapter!DB!SQLite!AsInt(Section(p).seq_num) \in Int
    BY <2>1, AsIntIsInt
  <2> QED  BY <2>1, <2>4, <2>5 DEF RowType
<1>3. ASSUME NEW r \in t["md5_sum"] PROVE new(r) \in RowType
  <2>1. r \in RowType  BY DEF Sound, TablesType
  <2>2. CASE r \in hit
    <3>1. new(r) = [c \in DOMAIN r |-> IF c \in columns THEN row[c] ELSE r[c]]
      BY <2>2 DEF Adapter!DB!SQLite!Assigned
    <3> HIDE DEF columns, row, new
    <3>2. DOMAIN r = {"uuid", "md5_sum", "index_num", "date", "sec_id", "seq_num", "version_num"}
      BY <2>1 DEF RowType
    <3> DEFINE pick(c) == IF c \in columns THEN row[c] ELSE r[c]
    <3>3. new(r) = [uuid |-> pick("uuid"), md5_sum |-> pick("md5_sum"),
                    index_num |-> pick("index_num"), date |-> pick("date"),
                    sec_id |-> pick("sec_id"), seq_num |-> pick("seq_num"),
                    version_num |-> pick("version_num")]
      BY <3>1, <3>2
    <3>4. /\ pick("uuid") \in {Uuid} /\ pick("md5_sum") \in Place \X Nat
          /\ pick("index_num") \in Int /\ pick("date") \in Nat /\ pick("sec_id") \in Nat
          /\ pick("seq_num") \in Int /\ pick("version_num") \in {0}
      BY <1>2, <2>1 DEF RowType
    <3> HIDE DEF pick
    <3> QED  BY <3>3, <3>4 DEF RowType
  <2>3. CASE r \notin hit  BY <2>1, <2>3
  <2> QED  BY <2>2, <2>3
<1>4. written \in TablesType /\ written["work_entry"] = t["work_entry"]
  <2> HIDE DEF new
  <2>1. {new(r) : r \in t["md5_sum"]} \in SUBSET RowType  BY <1>3
  <2> QED  BY <2>1 DEF Sound, TablesType
<1>5. inserted \in TablesType /\ inserted["work_entry"] = t["work_entry"]
  <2> HIDE DEF row
  <2> QED  BY <1>2 DEF Sound, TablesType
<1>6. ASSUME NEW u, u \in TablesType, u["work_entry"] = t["work_entry"] PROVE Sound(u)
  BY <1>6 DEF Sound
<1> SUFFICES Sound(after)  OBVIOUS
<1> HIDE DEF after, written, inserted
<1> QED  BY <1>1, <1>4, <1>5, <1>6

\* A report raises series_length and may leave an error entry.
LEMMA ProgressKeepsSound ==
  ASSUME NEW t, Sound(t), NEW number \in Nat \ {0}, NEW error \in BOOLEAN
  PROVE  Sound(Progress(t, number, error))
<1>1. ASSUME NEW u, Sound(u) PROVE Sound(Raised(u, number))
  <2> DEFINE e == CHOOSE r \in DB!ReadWorkEntry(u, Uuid).rows : TRUE
             raised == IF e.series_length < number
                       THEN [e EXCEPT !.series_length = number] ELSE e
  <2>1. e \in EntryType  BY <1>1, ReadIsEntry
  <2>2. raised \in EntryType
    <3> HIDE DEF e
    <3> QED  BY <2>1 DEF EntryType
  <2>3. Sound(DB!UpdateWorkEntry(u, raised).tables)
    <3> HIDE DEF raised
    <3> QED  BY <1>1, <2>2, UpdateKeepsSound
  <2> QED  BY <2>3 DEF Raised
<1>2. [uuid |-> Uuid, progress_num |-> number] \in ErrorType  BY DEF ErrorType
<1>3. Sound(DB!CreateErrorEntry(t, [uuid |-> Uuid, progress_num |-> number]).tables)
  BY <1>2, CreateErrorKeepsSound
<1> QED  BY <1>1, <1>3 DEF Progress

\* Recording a result leaves sound tables.
LEMMA ResultKeepsSound ==
  ASSUME Sound(tables), NEW w \in WalkType
  PROVE  Sound(UpdateDatabaseWithResult(w))
<1> DEFINE e == CHOOSE r \in DB!ReadWorkEntry(tables, Uuid).rows : TRUE
           length == IF e.series_length < w.length THEN w.length ELSE e.series_length
           entry == [e EXCEPT !.last_url = SaveLastUrl(w.next), !.series_length = length]
<1>1. e \in EntryType  BY ReadIsEntry
<1>2. entry \in EntryType
  <2> HIDE DEF e
  <2> QED  BY <1>1 DEF EntryType, WalkType, SaveLastUrl
<1>3. Sound(DB!UpdateWorkEntry(tables, entry).tables)
  <2> HIDE DEF entry
  <2> QED  BY <1>2, UpdateKeepsSound
<1> QED  BY <1>3 DEF UpdateDatabaseWithResult

----------------------------------------------------------------------------
(* What the three parts of StepsLeft do.                                    *)

\* The parts of the variant are naturals.
LEMMA PartsOfStepsLeft ==
  ASSUME NEW w \in WalkType
  PROVE  /\ SectionsLeft(w) \in Nat
         /\ AttemptsLeft(w) \in 0..Attempts
         /\ StageOf(w) \in 0..3
  BY WalkAssumption DEF WalkType, SectionsLeft, AttemptsLeft, StageOf, Place, Nowhere

\* A section less outweighs whatever happens to the attempts, an attempt less
\* whatever happens to the stage.
LEMMA StepsLeftDrops ==
  ASSUME NEW v \in WalkType, NEW w \in WalkType,
         \/ SectionsLeft(w) < SectionsLeft(v)
         \/ /\ SectionsLeft(w) = SectionsLeft(v)
            /\ \/ AttemptsLeft(w) < AttemptsLeft(v)
               \/ AttemptsLeft(w) = AttemptsLeft(v) /\ StageOf(w) < StageOf(v)
  PROVE  StepsLeft(w) \in 0..StepsLeft(v) - 1
<1> DEFINE N == Attempts + 1
           s == SectionsLeft(v)  a == AttemptsLeft(v)  g == StageOf(v)
           t == SectionsLeft(w)  b == AttemptsLeft(w)  h == StageOf(w)
<1>1. /\ N \in Nat /\ s \in Nat /\ t \in Nat
      /\ a \in Nat /\ a < N /\ b \in Nat /\ b < N
      /\ g \in 0..3 /\ h \in 0..3
  BY WalkAssumption, PartsOfStepsLeft
<1>2. \/ t < s
      \/ t = s /\ (b < a \/ (b = a /\ h < g))
  OBVIOUS
<1>3. StepsLeft(v) = 4 * (N * s + a) + g /\ StepsLeft(w) = 4 * (N * t + b) + h
  BY DEF StepsLeft
<1> HIDE DEF N, s, a, g, t, b, h
<1>4. ASSUME NEW m, NEW n, m = 4 * (N * s + a) + g, n = 4 * (N * t + b) + h
      PROVE  n \in 0..m - 1
  <2>1. N * t \in Nat /\ N * s \in Nat  BY <1>1
  <2>2. CASE t < s
    <3>1. PICK d \in Nat : s = t + 1 + d  BY <1>1, <2>2
    <3>2. N * s = N * t + N + N * d  BY <1>1, <3>1
    <3>3. N * d \in Nat  BY <1>1
    <3>4. N * s >= N * t + N  BY <1>1, <2>1, <3>2, <3>3
    <3> QED  BY <1>1, <1>4, <2>1, <3>4
  <2>3. CASE t = s /\ (b < a \/ (b = a /\ h < g))
    <3>1. N * t = N * s  BY <2>3
    <3> QED  BY <1>1, <1>4, <2>1, <2>3, <3>1
  <2> QED  BY <1>2, <2>2, <2>3
<1> QED  BY <1>3, <1>4

----------------------------------------------------------------------------
(* The steps.                                                               *)

Descends ==
    \A e \in BOOLEAN :
      walk[e].at # "none" /\ walk'[e].at # "none" /\ walk'[e] # walk[e] =>
        StepsLeft(walk'[e]) \in 0..StepsLeft(walk[e]) - 1

\* A step of one walk is one of that walk.
LEMMA OneWalkMoves ==
  ASSUME IInv, Sound(tables)', NEW e \in BOOLEAN, NEW w \in WalkType, Attempted(w),
         walk' = [walk EXCEPT ![e] = w], UNCHANGED <<forum, published, edits>>,
         walk[e] # NoWalk => StepsLeft(w) \in 0..StepsLeft(walk[e]) - 1
  PROVE  IInv' /\ Descends
<1>1. walk' \in [BOOLEAN -> WalkType \cup {NoWalk}]  BY DEF IInv
<1>2. \A f \in BOOLEAN : walk'[f] # NoWalk => Attempted(walk'[f])  BY DEF IInv
<1>3. Descends
  <2> SUFFICES ASSUME NEW f \in BOOLEAN, walk[f].at # "none", walk'[f].at # "none",
                      walk'[f] # walk[f]
               PROVE  StepsLeft(walk'[f]) \in 0..StepsLeft(walk[f]) - 1
    BY DEF Descends
  <2>1. f = e /\ walk'[f] = w  BY DEF IInv
  <2>2. walk[e] # NoWalk  BY <2>1 DEF NoWalk
  <2> QED  BY <2>1, <2>2
<1>4. IInv'
  <2>1. forum' \in BOOLEAN /\ published' \in Place /\ edits' \in [Place -> 0..MaxEdits]
    BY DEF IInv
  <2> QED  BY <1>1, <1>2, <2>1 DEF IInv
<1> QED  BY <1>3, <1>4

\* A walk under way has the type of one.
LEMMA UnderWay ==
  ASSUME IInv, NEW e \in BOOLEAN, walk[e].at # "none"
  PROVE  walk[e] \in WalkType /\ walk[e] # NoWalk /\ Attempted(walk[e])
  BY DEF IInv, NoWalk

\* A link leads one section on, nowhere, or stays at the end.
LEMMA LinkLeadsOn ==
  ASSUME NEW v \in WalkType, v.next \in 1..published, published \in Place,
         ~v.reached, v.left > 0, v.at = "parse",
         NEW link \in GetNextUrl(v.next), NEW has_error \in BOOLEAN
  PROVE  LET w == Reporting(Moved(v, link), has_error)
         IN  w \in WalkType /\ Attempted(w) /\ SectionsLeft(w) < SectionsLeft(v)
<1> DEFINE w == Reporting(Moved(v, link), has_error)
<1>1. w = [v EXCEPT !.next = link.next, !.reached = link.reached, !.at = "report",
                    !.has_error = has_error]
  BY DEF Reporting, Moved, WalkType
<1>2. /\ link.next \in Place \cup {Nowhere} /\ link.reached \in BOOLEAN
      /\ link.reached \/ link.next = Nowhere \/ link.next = v.next + 1
  <2>1. v.next \in Nat /\ published \in Nat /\ published <= MaxSections
    BY WalkAssumption DEF Place
  <2>2. CASE link = [next |-> v.next, reached |-> TRUE]
    <3>1. link.next = v.next /\ link.reached = TRUE  BY <2>2
    <3> QED  BY <3>1 DEF WalkType
  <2>3. CASE link = [next |-> Nowhere, reached |-> FALSE]
    <3>1. link.next = Nowhere /\ link.reached = FALSE  BY <2>3
    <3> QED  BY <3>1
  <2>4. CASE \E q \in {v.next + 1} \cap 1..published : link = [next |-> q, reached |-> FALSE]
    <3>1. v.next + 1 \in 1..published /\ link = [next |-> v.next + 1, reached |-> FALSE]
      BY <2>4
    <3>2. link.next = v.next + 1 /\ link.reached = FALSE  BY <3>1
    <3>3. v.next + 1 \in Place  BY <2>1, <3>1, WalkAssumption DEF Place
    <3> QED  BY <3>2, <3>3
  <2> QED  BY <2>2, <2>3, <2>4 DEF GetNextUrl
<1> HIDE DEF w
<1>3. w \in WalkType  BY <1>1, <1>2 DEF WalkType
<1>4. /\ w.next = link.next /\ w.reached = link.reached /\ w.left = v.left
  BY <1>1 DEF WalkType
<1>5. Attempted(w)  BY <1>4 DEF Attempted
<1>6. SectionsLeft(w) < SectionsLeft(v)
  BY <1>2, <1>4, WalkAssumption DEF SectionsLeft, WalkType, Place, Nowhere
<1> QED  BY <1>3, <1>5, <1>6 DEF w

\* A walk begins well-typed.
LEMMA BeginKeeps ==
  ASSUME IInv, NEW e \in BOOLEAN, NEW last_url \in Place \cup {WorkUrl, Nowhere},
         NEW start_number \in Nat \ {0}, NEW end_number \in Nat,
         Begin(e, last_url, start_number, end_number)
  PROVE  IInv' /\ Descends
<1> DEFINE bounds == CalculateIndexBounds(start_number, end_number)
           first == PreParseLoop(last_url, start_number)
           w == [at |-> "parse", next |-> first.next, index |-> first.index,
                 start |-> bounds.start, end |-> bounds.end, left |-> Attempts,
                 reached |-> FALSE, has_error |-> FALSE, length |-> 1, number |-> start_number]
<1>1. first.next \in Place \cup {Nowhere} /\ first.index \in Nat
  BY WalkAssumption DEF PreParseLoop, Place, WorkUrl
<1>2. bounds.start \in Nat /\ bounds.end \in Nat
  BY WalkAssumption DEF CalculateIndexBounds, NoBound
<1>3. walk' = [walk EXCEPT ![e] = w] /\ UNCHANGED <<forum, tables, published, edits>>
  BY DEF Begin
<1>4. walk[e] = NoWalk  BY DEF Begin, IInv, WalkType
<1> HIDE DEF first, bounds
<1>5. w \in WalkType /\ Attempted(w)  BY <1>1, <1>2, WalkAssumption DEF WalkType, Attempted
<1>6. Sound(tables)'  BY <1>3 DEF IInv
<1> HIDE DEF w
<1> QED  BY <1>3, <1>4, <1>5, <1>6, OneWalkMoves

\* ParseUrls begins the walk of a normal job.
LEMMA ParseUrlsKeeps ==
  ASSUME IInv, ParseUrls
  PROVE  IInv' /\ Descends
<1>1. Entry \in EntryType  BY ReadIsEntry DEF IInv, Entry, Entries
<1>2. /\ Entry.last_url \in Place \cup {WorkUrl, Nowhere}
      /\ Entry.series_length \in Nat \ {0}
  BY <1>1 DEF EntryType
<1> QED  BY <1>2, BeginKeeps DEF ParseUrls

\* ParseErrorEntries begins the walk of an error job.
LEMMA ParseErrorEntriesKeeps ==
  ASSUME IInv, ParseErrorEntries
  PROVE  IInv' /\ Descends
<1>1. PICK error \in DB!GetErrorEntryList(tables).rows :
        Begin(TRUE, Entry.url, error.progress_num, error.progress_num)
  BY DEF ParseErrorEntries
<1>2. error \in ErrorType
  BY DEF DB!GetErrorEntryList, DB!SQLite!ListErrorEntries, DB!SQLite!Done, IInv, Sound, TablesType
<1>3. Entry \in EntryType  BY ReadIsEntry DEF IInv, Entry, Entries
<1>4. Entry.url = WorkUrl /\ error.progress_num \in Nat \ {0}
  BY <1>2, <1>3 DEF EntryType, ErrorType
<1> QED  BY <1>1, <1>4, BeginKeeps

\* An attempt at a section is reported; where the link was followed a section
\* less is left, else the walk has moved on to its report.
LEMMA ParseSectionKeeps ==
  ASSUME IInv, NEW e \in BOOLEAN, ParseSection(e)
  PROVE  IInv' /\ Descends
<1> DEFINE v == walk[e]
<1>1. v.at = "parse" /\ ~v.reached /\ v.left > 0
  BY DEF ParseSection, PastBound, FailsEarly, Skips, FailsLate, Keeps, Saves, AtSection, Parsing
<1>2. v \in WalkType /\ v # NoWalk  BY <1>1, UnderWay
<1>3. UNCHANGED <<forum, published, edits>>
  BY DEF ParseSection, PastBound, FailsEarly, Skips, FailsLate, Keeps, Saves
<1>4. CASE PastBound(e)
  <2> DEFINE w == [Reporting(v, FALSE) EXCEPT !.reached = TRUE]
  <2>1. walk' = [walk EXCEPT ![e] = w] /\ Sound(tables)'  BY <1>4 DEF PastBound, IInv
  <2>2. w = [v EXCEPT !.at = "report", !.has_error = FALSE, !.reached = TRUE]
    BY <1>2 DEF Reporting, WalkType
  <2> HIDE DEF w
  <2>3. w \in WalkType /\ w.reached = TRUE /\ w.left = v.left  BY <1>2, <2>2 DEF WalkType
  <2>4. Attempted(w)  BY <1>1, <2>3 DEF Attempted
  <2>5. SectionsLeft(w) < SectionsLeft(v)
    BY <1>1, <1>2, <2>3, WalkAssumption DEF SectionsLeft, WalkType, Place, Nowhere
  <2>6. StepsLeft(w) \in 0..StepsLeft(v) - 1  BY <1>2, <2>3, <2>5, StepsLeftDrops
  <2> QED  BY <1>3, <2>1, <2>3, <2>4, <2>6, OneWalkMoves
<1>5. CASE FailsEarly(e)
  <2> DEFINE w == Reporting(v, TRUE)
  <2>1. walk' = [walk EXCEPT ![e] = w] /\ Sound(tables)'  BY <1>5 DEF FailsEarly, IInv
  <2>2. w = [v EXCEPT !.at = "report", !.has_error = TRUE]  BY DEF Reporting
  <2> HIDE DEF w
  <2>3. /\ w \in WalkType /\ w.at = "report" /\ w.has_error = TRUE
        /\ w.reached = v.reached /\ w.left = v.left /\ w.next = v.next
    BY <1>2, <2>2 DEF WalkType
  <2>4. Attempted(w)  BY <1>1, <2>3 DEF Attempted
  <2>5. SectionsLeft(w) = SectionsLeft(v)  BY <2>3 DEF SectionsLeft
  <2>6. AttemptsLeft(w) = AttemptsLeft(v)  BY <1>1, <2>3 DEF AttemptsLeft
  <2>7. StageOf(w) = 1 /\ StageOf(v) = 2  BY <1>1, <2>3 DEF StageOf
  <2>8. StepsLeft(w) \in 0..StepsLeft(v) - 1
    BY <1>2, <2>3, <2>5, <2>6, <2>7, StepsLeftDrops
  <2> QED  BY <1>3, <2>1, <2>3, <2>4, <2>8, OneWalkMoves
<1>6. CASE Skips(e) \/ FailsLate(e) \/ Keeps(e) \/ Saves(e)
  <2>1. v.next \in 1..published /\ published \in Place
    BY <1>6 DEF Skips, FailsLate, Keeps, Saves, AtSection, IInv
  <2>2. PICK link \in GetNextUrl(v.next), has_error \in BOOLEAN :
          walk' = [walk EXCEPT ![e] = Reporting(Moved(v, link), has_error)]
    BY <1>2, <1>6 DEF Skips, FailsLate, Keeps, Saves, IInv
  <2> DEFINE w == Reporting(Moved(v, link), has_error)
  <2>3. w \in WalkType /\ Attempted(w) /\ SectionsLeft(w) < SectionsLeft(v)
    BY <1>1, <1>2, <2>1, LinkLeadsOn
  <2>4. Sound(tables)'
    <3>1. CASE tables' = tables  BY <3>1 DEF IInv
    <3>2. CASE Saves(e)
      <4>1. v.next \in Place  BY <2>1, WalkAssumption DEF Place
      <4>2. v.index \in Nat  BY <1>2 DEF WalkType
      <4>3. tables' = Adapter!UpsertMd5ByIndexNum(tables, Uuid, v.index, Section(v.next), 0).tables
        BY <3>2 DEF Saves
      <4>4. Sound(Adapter!UpsertMd5ByIndexNum(tables, Uuid, v.index, Section(v.next), 0).tables)
        BY <4>1, <4>2, UpsertKeepsSound DEF IInv
      <4> QED  BY <4>3, <4>4 DEF Sound
    <3> QED  BY <1>6, <3>1, <3>2 DEF Skips, FailsLate, Keeps
  <2> HIDE DEF w
  <2>5. StepsLeft(w) \in 0..StepsLeft(v) - 1  BY <1>2, <2>3, StepsLeftDrops
  <2>6. walk' = [walk EXCEPT ![e] = w]  BY <2>2 DEF w
  <2> QED  BY <1>3, <2>3, <2>4, <2>5, <2>6, OneWalkMoves
<1> QED  BY <1>4, <1>5, <1>6 DEF ParseSection

\* A success gives the next section all attempts: it has passed its report.
LEMMA SucceededKeeps ==
  ASSUME IInv, NEW e \in BOOLEAN, Succeeded(e)
  PROVE  IInv' /\ Descends
<1> DEFINE v == walk[e]
           w == [v EXCEPT !.at = "parse", !.length = v.index + 1,
                          !.left = Attempts, !.index = v.index + 1]
<1>1. v.at = "report" /\ ~v.has_error  BY DEF Succeeded
<1>2. v \in WalkType /\ v # NoWalk  BY <1>1, UnderWay
<1>3. /\ walk' = [walk EXCEPT ![e] = w] /\ UNCHANGED <<forum, published, edits>>
      /\ tables' = Progress(tables, v.index + 1, FALSE)
  BY DEF Succeeded, IInv
<1>4. Sound(tables)'
  <2>1. v.index + 1 \in Nat \ {0}  BY <1>2 DEF WalkType
  <2>2. Sound(Progress(tables, v.index + 1, FALSE))  BY <2>1, ProgressKeepsSound DEF IInv
  <2> QED  BY <1>3, <2>2 DEF Sound
<1>5. /\ w \in WalkType /\ w.at = "parse" /\ w.left = Attempts
      /\ w.reached = v.reached /\ w.next = v.next
  <2>1. v.index + 1 \in Nat \ {0} /\ Attempts \in 0..Attempts
    BY <1>2, WalkAssumption DEF WalkType
  <2>2. PICK n : n = v.index + 1  OBVIOUS
  <2>3. w = [v EXCEPT !.at = "parse", !.length = n, !.left = Attempts, !.index = n]  BY <2>2
  <2> HIDE DEF v, w
  <2> QED  BY <1>2, <2>1, <2>2, <2>3 DEF WalkType
<1> HIDE DEF w
<1>6. Attempted(w)  BY <1>5 DEF Attempted
<1>7. SectionsLeft(w) = SectionsLeft(v)  BY <1>5 DEF SectionsLeft
<1>8. AttemptsLeft(w) = AttemptsLeft(v)  BY <1>1, <1>5 DEF AttemptsLeft
<1>9. StageOf(w) = 2 /\ StageOf(v) = 3  BY <1>1, <1>5 DEF StageOf
<1>10. StepsLeft(w) \in 0..StepsLeft(v) - 1
  BY <1>2, <1>5, <1>7, <1>8, <1>9, StepsLeftDrops
<1> QED  BY <1>2, <1>3, <1>4, <1>5, <1>6, <1>10, OneWalkMoves

\* A failure takes one of the attempts, whether or not it is reported.
LEMMA FailedKeeps ==
  ASSUME IInv, NEW e \in BOOLEAN, Failed(e)
  PROVE  IInv' /\ Descends
<1> DEFINE v == walk[e]
           w == [v EXCEPT !.at = "parse", !.left = v.left - 1]
<1>1. v.at = "report" /\ v.has_error  BY DEF Failed
<1>2. v \in WalkType /\ v # NoWalk /\ v.left > 0  BY <1>1, UnderWay DEF Attempted
<1>3. /\ walk' = [walk EXCEPT ![e] = w] /\ UNCHANGED <<forum, published, edits>>
      /\ tables' \in {Progress(tables, v.index + 1, TRUE), tables}
  <2>1. walk' = [walk EXCEPT ![e] = w]  BY DEF Failed, IInv
  <2>2. tables' \in {Progress(tables, v.index + 1, TRUE), tables}  BY DEF Failed
  <2> QED  BY <2>1, <2>2 DEF Failed
<1>4. Sound(tables)'
  <2>1. v.index + 1 \in Nat \ {0}  BY <1>2 DEF WalkType
  <2>2. Sound(Progress(tables, v.index + 1, TRUE))  BY <2>1, ProgressKeepsSound DEF IInv
  <2> QED  BY <1>3, <2>2 DEF Sound, IInv
<1>5. /\ w \in WalkType /\ w.at = "parse" /\ w.left = v.left - 1
      /\ w.reached = v.reached /\ w.next = v.next
  <2>1. v.left - 1 \in 0..Attempts  BY <1>2, WalkAssumption DEF WalkType
  <2>2. PICK n : n = v.left - 1  OBVIOUS
  <2>3. w = [v EXCEPT !.at = "parse", !.left = n]  BY <2>2
  <2> HIDE DEF v, w
  <2> QED  BY <1>2, <2>1, <2>2, <2>3 DEF WalkType
<1> HIDE DEF w
<1>6. Attempted(w)  BY <1>5 DEF Attempted
<1>7. SectionsLeft(w) = SectionsLeft(v)  BY <1>5 DEF SectionsLeft
<1>8. AttemptsLeft(w) < AttemptsLeft(v)
  BY <1>1, <1>2, <1>5, WalkAssumption DEF AttemptsLeft, WalkType
<1>9. StepsLeft(w) \in 0..StepsLeft(v) - 1  BY <1>2, <1>5, <1>7, <1>8, StepsLeftDrops
<1> QED  BY <1>2, <1>3, <1>4, <1>5, <1>6, <1>9, OneWalkMoves

\* The end of the loop takes a step off the variant.
LEMMA EndLoopKeeps ==
  ASSUME IInv, NEW e \in BOOLEAN, EndLoop(e)
  PROVE  IInv' /\ Descends
<1> DEFINE v == walk[e]
           w == [v EXCEPT !.at = "result"]
<1>1. v.at = "parse"  BY DEF EndLoop
<1>2. v \in WalkType /\ v # NoWalk  BY <1>1, UnderWay
<1>3. /\ walk' = [walk EXCEPT ![e] = w] /\ UNCHANGED <<forum, published, edits>>
      /\ Sound(tables)'
  BY DEF EndLoop, IInv
<1> HIDE DEF w
<1>4. /\ w \in WalkType /\ w.at = "result" /\ w.left = v.left
      /\ w.reached = v.reached /\ w.next = v.next
  BY <1>2 DEF w, WalkType
<1>5. Attempted(w)  BY <1>4 DEF Attempted
<1>6. SectionsLeft(w) = SectionsLeft(v)  BY <1>4 DEF SectionsLeft
<1>7. AttemptsLeft(w) = AttemptsLeft(v)  BY <1>1, <1>4 DEF AttemptsLeft
<1>8. StageOf(w) = 0 /\ StageOf(v) = 2  BY <1>1, <1>4 DEF StageOf
<1>9. StepsLeft(w) \in 0..StepsLeft(v) - 1
  BY <1>2, <1>4, <1>6, <1>7, <1>8, StepsLeftDrops
<1> QED  BY <1>2, <1>3, <1>4, <1>5, <1>9, OneWalkMoves

\* A result is recorded and its walk is gone.
LEMMA WalkIsGone ==
  ASSUME IInv, Sound(tables)', NEW e \in BOOLEAN, walk' = [walk EXCEPT ![e] = NoWalk],
         UNCHANGED <<forum, published, edits>>
  PROVE  IInv' /\ Descends
<1>1. walk' \in [BOOLEAN -> WalkType \cup {NoWalk}]  BY DEF IInv
<1>2. \A f \in BOOLEAN : walk'[f] = walk[f] \/ walk'[f] = NoWalk  BY DEF IInv
<1>3. \A f \in BOOLEAN : walk'[f] # NoWalk => Attempted(walk'[f])  BY <1>2 DEF IInv
<1>4. Descends  BY <1>2 DEF Descends, NoWalk
<1>5. forum' \in BOOLEAN /\ published' \in Place /\ edits' \in [Place -> 0..MaxEdits]
  BY DEF IInv
<1> QED  BY <1>1, <1>3, <1>4, <1>5 DEF IInv

\* Recording a result ends the walk of the normal job.
LEMMA RecordKeeps ==
  ASSUME IInv, Record
  PROVE  IInv' /\ Descends
<1>1. walk[FALSE] \in WalkType  BY UnderWay DEF Record
<1>2. Sound(UpdateDatabaseWithResult(walk[FALSE]))  BY <1>1, ResultKeepsSound DEF IInv
<1>3. Sound(tables)'  BY <1>2 DEF Record, Sound
<1> QED  BY <1>3, WalkIsGone DEF Record

\* Recording a result ends the walk of the error job.
LEMMA RecordErrorKeeps ==
  ASSUME IInv, RecordError
  PROVE  IInv' /\ Descends
<1>1. Sound(DB!DeleteErrorEntry(tables, Uuid, walk[TRUE].number).tables)
  BY DeleteErrorKeepsSound DEF IInv
<1>2. Sound(tables)'  BY <1>1 DEF RecordError, Sound, IInv
<1> QED  BY <1>2, WalkIsGone DEF RecordError

\* The steps of the site and of a death move no walk.
LEMMA OthersKeep ==
  ASSUME IInv, Publish \/ (\E p \in Edited : Edit(p)) \/ Die \/ UNCHANGED vars
  PROVE  IInv' /\ Descends
<1>1. CASE Publish
  <2>1. published' \in Place  BY <1>1, WalkAssumption DEF Publish, IInv, Place
  <2>2. Descends  BY <1>1 DEF Publish, Descends
  <2> QED  BY <1>1, <2>1, <2>2 DEF Publish, IInv, Sound
<1>2. ASSUME NEW p \in Edited, Edit(p) PROVE IInv' /\ Descends
  <2>1. edits' \in [Place -> 0..MaxEdits]
    <3>1. p \in Place  BY WalkAssumption DEF Place
    <3>2. edits[p] + 1 \in 0..MaxEdits  BY <1>2, <3>1, WalkAssumption DEF Edit, IInv
    <3> QED  BY <1>2, <3>2 DEF Edit, IInv
  <2>2. Descends  BY <1>2 DEF Edit, Descends
  <2> QED  BY <1>2, <2>1, <2>2 DEF Edit, IInv, Sound
<1>3. CASE Die
  <2>1. \A e \in BOOLEAN : walk'[e] = NoWalk  BY <1>3 DEF Die
  <2>2. Descends  BY <2>1 DEF Descends, NoWalk
  <2> QED  BY <1>3, <2>1, <2>2 DEF Die, IInv, Sound
<1>4. CASE UNCHANGED vars
  <2>1. Descends  BY <1>4 DEF vars, Descends
  <2> QED  BY <1>4, <2>1 DEF vars, IInv, Sound
<1> QED  BY <1>1, <1>2, <1>3, <1>4

\* The initial states.
LEMMA InitIInv == Init => IInv
<1> SUFFICES ASSUME Init PROVE IInv  OBVIOUS
<1> DEFINE entry == [uuid |-> Uuid, url |-> WorkUrl, last_url |-> WorkUrl, series_length |-> 1]
<1>1. entry \in EntryType  BY DEF EntryType
<1>2. tables = [work_entry |-> {entry}, md5_sum |-> {}, error_entry |-> {}]  BY DEF Init
<1> HIDE DEF entry
<1>3. Sound(tables)  BY <1>1, <1>2 DEF Sound, TablesType
<1>4. 1 \in Place /\ 0 \in 0..MaxEdits  BY WalkAssumption DEF Place
<1> QED  BY <1>3, <1>4 DEF Init, IInv

\* Every step keeps the invariant and takes the variant of a walk down, or ends it.
LEMMA NextKeeps == IInv /\ [Next]_vars => IInv' /\ Descends
<1> SUFFICES ASSUME IInv, [Next]_vars PROVE IInv' /\ Descends  OBVIOUS
<1>1. ASSUME NEW e \in BOOLEAN, WalkStep(e) PROVE IInv' /\ Descends
  BY <1>1, ParseSectionKeeps, SucceededKeeps, FailedKeeps, EndLoopKeeps DEF WalkStep
<1> QED
  BY <1>1, ParseUrlsKeeps, ParseErrorEntriesKeeps, RecordKeeps, RecordErrorKeeps, OthersKeep
  DEF Next

----------------------------------------------------------------------------
(* The theorems.                                                            *)

\* The invariant below holds in every reachable state: there is one work and
\* its columns, and those of its checksum rows and errors, stay in their
\* types; a walk under way stands at a section or nowhere, and one that
\* reports a section had an attempt left for it.
THEOREM WalkInvariant == Spec => []IInv
<1>1. IInv /\ [Next]_vars => IInv'  BY NextKeeps
<1> QED  BY InitIInv, <1>1, PTL DEF Spec

\* The catalog of a linked-list work keeps its types (BlackLibrary.cc:432,
\* ParserDbAdapter.cc:151).
THEOREM WalkTypeCorrect == Spec => []TypeOK
<1>1. ASSUME IInv PROVE TypeOK
  <2>1. Entry \in EntryType  BY <1>1, ReadIsEntry DEF IInv, Entry, Entries
  <2>2. Cardinality(Entries) = 1
    <3>1. Entries = {Entry}  BY <1>1 DEF IInv, Sound, Entries, Entry
    <3> QED  BY <3>1, FS_Singleton
  <2>3. \A r \in Rows : r.md5_sum[1] \in Place /\ r.index_num \in Int
    BY <1>1 DEF IInv, Sound, TablesType, Rows, RowType
  <2>4. \A r \in Errors : r.uuid = Uuid /\ r.progress_num \in Nat \ {0}
    BY <1>1 DEF IInv, Sound, TablesType, Errors, ErrorType
  <2>5. \A e \in BOOLEAN : walk[e].at \in {"none", "parse", "report", "result"}
    BY <1>1 DEF IInv, WalkType, NoWalk
  <2> QED  BY <1>1, <2>1, <2>2, <2>3, <2>4, <2>5 DEF TypeOK, EntryType, IInv
<1> QED  BY WalkInvariant, <1>1, PTL

\* Every walk ends, where each page links to the next section, to nowhere or
\* not at all: each step of ParseLoop (Parser.cc:286) leaves fewer sections,
\* attempts or steps of an attempt, whatever fails and whoever edits.
THEOREM WalksEnd == Spec => WalkEnds
<1>1. IInv /\ [Next]_vars => Descends  BY NextKeeps
<1>2. Descends =>
        \A e \in BOOLEAN :
          walk[e].at # "none" /\ walk'[e].at # "none" /\ walk'[e] # walk[e] =>
            StepsLeft(walk'[e]) \in 0..StepsLeft(walk[e]) - 1
  BY DEF Descends
<1> QED  BY WalkInvariant, <1>1, <1>2, PTL DEF Spec, WalkEnds
=============================================================================
