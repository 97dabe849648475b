----------------------- MODULE LinkedListNumberProofs -----------------------
(***************************************************************************)
(* The sections of a linked list keep their numbers, and none that is      *)
(* counted is missing, until one of the events derailed and forgotten name *)
(* has happened: for any number of sections, attempts, jobs and edits.     *)
(***************************************************************************)
EXTENDS LinkedListWalkProofs

Larger(m, n) == IF m < n THEN n ELSE m

EntryOf(t) == CHOOSE e \in t["work_entry"] : TRUE

\* A row of the p-th section has the index p - 1, and there is one such row.
RowsNumbered(t) ==
    /\ \A r \in t["md5_sum"] : r.index_num = r.md5_sum[1] - 1
    /\ \A r, q \in t["md5_sum"] : r.md5_sum[1] = q.md5_sum[1] => r = q

----------------------------------------------------------------------------
(* What the calls of the database do, exactly.                              *)

\* The one entry of a sound table is an entry.
LEMMA TheEntry ==
  ASSUME NEW t, Sound(t)
  PROVE  EntryOf(t) \in EntryType /\ t["work_entry"] = {EntryOf(t)}
  BY DEF EntryOf, Sound, TablesType

\* The work is read as its entry.
LEMMA ReadIsTheEntry ==
  ASSUME NEW t, Sound(t)
  PROVE  (CHOOSE r \in DB!ReadWorkEntry(t, Uuid).rows : TRUE) = EntryOf(t)
<1>1. DB!ReadWorkEntry(t, Uuid).rows = {r \in t["work_entry"] : r.uuid = Uuid}
  BY WalkAssumption DEF DB!ReadWorkEntry, DB!OrNothing, DB!SQLite!ReadEntry, DB!SQLite!Select,
     DB!SQLite!Done, DB!SQLite!Where
<1>2. EntryOf(t).uuid = Uuid  BY TheEntry DEF EntryType
<1>3. DB!ReadWorkEntry(t, Uuid).rows = t["work_entry"]  BY <1>1, <1>2, TheEntry
<1> QED  BY <1>3 DEF EntryOf

\* The entry written is the one the work has from then on.
LEMMA UpdateIsExact ==
  ASSUME NEW t, Sound(t), NEW entry \in EntryType
  PROVE  DB!UpdateWorkEntry(t, entry).tables = [t EXCEPT !["work_entry"] = {entry}]
<1> DEFINE x == EntryOf(t)
           cond == [uuid |-> entry.uuid]
           columns == DOMAIN entry \ {"uuid"}
           hit == DB!SQLite!Where(t, "work_entry", cond)
           new(r) == IF r \in hit THEN DB!SQLite!Assigned(r, entry, columns) ELSE r
           conflict == \E r \in hit : \E s \in t["work_entry"] \ {r} :
                         DB!SQLite!SameKey("work_entry", new(r), new(s))
<1>1. x \in EntryType /\ t["work_entry"] = {x}  BY TheEntry
<1>2. hit = {x}
  <2>1. x.uuid = Uuid /\ entry.uuid = Uuid  BY <1>1 DEF EntryType
  <2> QED  BY <1>1, <2>1 DEF DB!SQLite!Where
<1>3. ~conflict
  <2> HIDE DEF x, new, hit
  <2> QED  BY <1>1, <1>2
<1>4. new(x) = entry
  <2>1. new(x) = [c \in DOMAIN x |-> IF c \in columns THEN entry[c] ELSE x[c]]
    BY <1>2 DEF DB!SQLite!Assigned
  <2> HIDE DEF x
  <2>2. DOMAIN x = {"uuid", "url", "last_url", "series_length"}  BY <1>1 DEF EntryType
  <2>3. DOMAIN entry = {"uuid", "url", "last_url", "series_length"}  BY DEF EntryType
  <2>4. x.uuid = entry.uuid  BY <1>1 DEF EntryType
  <2>5. new(x) = [uuid |-> entry.uuid, url |-> entry.url, last_url |-> entry.last_url,
                  series_length |-> entry.series_length]
    BY <2>1, <2>2, <2>3, <2>4
  <2> QED  BY <2>5 DEF EntryType
<1>5. DB!UpdateWorkEntry(t, entry).tables
      = [t EXCEPT !["work_entry"] = {new(r) : r \in t["work_entry"]}]
  <2>1. entry.uuid # NoUuid  BY WalkAssumption DEF EntryType
  <2> QED  BY <1>3, <2>1 DEF DB!UpdateWorkEntry, DB!OrRefused, DB!SQLite!UpdateEntry,
     DB!SQLite!Update, DB!SQLite!Done
<1>6. {new(r) : r \in t["work_entry"]} = {entry}
  <2> HIDE DEF x, new
  <2> QED  BY <1>1, <1>4
<1> QED  BY <1>5, <1>6

\* So is the other tables' content left alone.
LEMMA Replaced ==
  ASSUME NEW t, Sound(t), NEW entry
  PROVE  LET u == [t EXCEPT !["work_entry"] = {entry}]
         IN  /\ EntryOf(u) = entry
             /\ u["md5_sum"] = t["md5_sum"] /\ u["error_entry"] = t["error_entry"]
<1> DEFINE u == [t EXCEPT !["work_entry"] = {entry}]
<1>1. /\ u["work_entry"] = {entry} /\ u["md5_sum"] = t["md5_sum"]
      /\ u["error_entry"] = t["error_entry"]
  BY DEF Sound, TablesType
<1> HIDE DEF u
<1>2. EntryOf(u) = entry  BY <1>1 DEF EntryOf
<1> QED  BY <1>1, <1>2 DEF u

\* Raising series_length changes nothing but that column of the entry.
LEMMA RaisedIsExact ==
  ASSUME NEW t, Sound(t), NEW number \in Nat \ {0}
  PROVE  LET u == Raised(t, number)
         IN  /\ EntryOf(u).last_url = EntryOf(t).last_url
             /\ EntryOf(u).series_length = Larger(EntryOf(t).series_length, number)
             /\ u["md5_sum"] = t["md5_sum"] /\ u["error_entry"] = t["error_entry"]
<1> DEFINE e == CHOOSE r \in DB!ReadWorkEntry(t, Uuid).rows : TRUE
           raised == IF e.series_length < number
                     THEN [e EXCEPT !.series_length = number] ELSE e
<1>1. e = EntryOf(t) /\ e \in EntryType  BY ReadIsTheEntry, TheEntry
<1>2. Raised(t, number) = DB!UpdateWorkEntry(t, raised).tables  BY DEF Raised
<1> HIDE DEF e
<1>3. /\ raised \in EntryType /\ raised.last_url = e.last_url
      /\ raised.series_length = Larger(e.series_length, number)
  BY <1>1 DEF EntryType, Larger
<1> HIDE DEF raised
<1>4. Raised(t, number) = [t EXCEPT !["work_entry"] = {raised}]  BY <1>2, <1>3, UpdateIsExact
<1>5. /\ EntryOf(Raised(t, number)) = raised
      /\ Raised(t, number)["md5_sum"] = t["md5_sum"]
      /\ Raised(t, number)["error_entry"] = t["error_entry"]
  BY <1>4, Replaced
<1> QED  BY <1>1, <1>3, <1>5

\* A report changes the number of the entry at most, and adds one error.
Reports(t, u, number, error) ==
    \/ /\ error = TRUE /\ u = t
       /\ \E r \in t["error_entry"] : r.progress_num = number
    \/ /\ EntryOf(u).last_url = EntryOf(t).last_url
       /\ EntryOf(u).series_length = Larger(EntryOf(t).series_length, number)
       /\ u["md5_sum"] = t["md5_sum"]
       /\ t["error_entry"] \subseteq u["error_entry"]
       /\ \A r \in u["error_entry"] : r \in t["error_entry"] \/ r.progress_num = number

\* Progress writes what Reports says.
LEMMA ProgressIsExact ==
  ASSUME NEW t, Sound(t), NEW number \in Nat \ {0}, NEW error \in BOOLEAN
  PROVE  Reports(t, Progress(t, number, error), number, error)
<1> DEFINE u == Progress(t, number, error)
           row == [uuid |-> Uuid, progress_num |-> number]
           added == DB!CreateErrorEntry(t, row).tables
           found == DB!DoesErrorEntryExist(t, Uuid, number).rows
<1>1. \/ added = t
      \/ added = [t EXCEPT !["error_entry"] = @ \cup {row}]
  BY DEF DB!CreateErrorEntry, DB!OrRefused, DB!SQLite!CreateErrorEntry, DB!SQLite!Insert,
     DB!SQLite!Done, DB!SQLite!Refused
<1>2. row \in ErrorType  BY DEF ErrorType
<1>3. Sound(added)
  <2> HIDE DEF row
  <2> QED  BY <1>2, CreateErrorKeepsSound
<1>4. /\ EntryOf(added) = EntryOf(t) /\ added["md5_sum"] = t["md5_sum"]
      /\ t["error_entry"] \subseteq added["error_entry"]
      /\ \A r \in added["error_entry"] : r \in t["error_entry"] \/ r.progress_num = number
  <2> HIDE DEF added
  <2> QED  BY <1>1 DEF Sound, TablesType, EntryOf
<1>5. found \subseteq {r \in t["error_entry"] : r.progress_num = number}
  BY DEF DB!DoesErrorEntryExist, DB!SQLite!DoesErrorEntryExist, DB!SQLite!Exists,
     DB!SQLite!Select, DB!SQLite!Done, DB!SQLite!Where
<1>6. CASE error = TRUE /\ found # {}
  <2>1. u = t  BY <1>6 DEF Progress
  <2> HIDE DEF found, u
  <2>2. \E r \in t["error_entry"] : r.progress_num = number  BY <1>5, <1>6
  <2>3. Reports(t, u, number, error)  BY <1>6, <2>1, <2>2 DEF Reports
  <2> QED  BY <2>3 DEF u
<1>7. CASE ~(error = TRUE /\ found # {})
  <2>1. u = Raised(added, number) \/ u = Raised(t, number)
    BY <1>7 DEF Progress
  <2> HIDE DEF added, u
  <2>2. PICK s \in {added, t} : u = Raised(s, number)  BY <2>1
  <2>3. Sound(s)  BY <1>3
  <2>4. /\ EntryOf(s) = EntryOf(t) /\ s["md5_sum"] = t["md5_sum"]
        /\ t["error_entry"] \subseteq s["error_entry"]
        /\ \A r \in s["error_entry"] : r \in t["error_entry"] \/ r.progress_num = number
    BY <1>4
  <2>5. /\ EntryOf(u).last_url = EntryOf(s).last_url
        /\ EntryOf(u).series_length = Larger(EntryOf(s).series_length, number)
        /\ u["md5_sum"] = s["md5_sum"] /\ u["error_entry"] = s["error_entry"]
    BY <2>2, <2>3, RaisedIsExact
  <2>6. Reports(t, u, number, error)  BY <2>4, <2>5 DEF Reports
  <2> QED  BY <2>6 DEF u
<1> QED  BY <1>6, <1>7

\* A report that writes anything writes what Progress writes.
LEMMA WhatAReportWrites ==
  ASSUME IInv, NEW e \in BOOLEAN, Succeeded(e) \/ Failed(e)
  PROVE  \/ tables' = tables
         \/ \E error \in BOOLEAN : Reports(tables, tables', walk[e].index + 1, error)
<1> DEFINE n == walk[e].index + 1
<1>1. walk[e].at = "report"  BY DEF Succeeded, Failed
<1>2. n \in Nat \ {0}  BY <1>1, UnderWay DEF WalkType
<1>3. \/ tables' = tables
      \/ \E error \in BOOLEAN : tables' = Progress(tables, n, error)
  BY DEF Succeeded, Failed
<1>4. Sound(tables)  BY DEF IInv
<1> HIDE DEF n
<1>5. \A error \in BOOLEAN : Reports(tables, Progress(tables, n, error), n, error)
  BY <1>2, <1>4, ProgressIsExact
<1> QED  BY <1>3, <1>5 DEF n

\* What recording a result leaves of the tables.
Records(t, u, w) ==
    /\ EntryOf(u).last_url = SaveLastUrl(w.next)
    /\ EntryOf(u).series_length = Larger(EntryOf(t).series_length, w.length)
    /\ u["md5_sum"] = t["md5_sum"] /\ u["error_entry"] = t["error_entry"]

\* UpdateDatabaseWithResult writes what Records says.
LEMMA ResultIsExact ==
  ASSUME Sound(tables), NEW w \in WalkType
  PROVE  Records(tables, UpdateDatabaseWithResult(w), w)
<1> DEFINE e == CHOOSE r \in DB!ReadWorkEntry(tables, Uuid).rows : TRUE
           length == IF e.series_length < w.length THEN w.length ELSE e.series_length
           entry == [e EXCEPT !.last_url = SaveLastUrl(w.next), !.series_length = length]
<1>1. e = EntryOf(tables) /\ e \in EntryType  BY ReadIsTheEntry, TheEntry
<1>2. UpdateDatabaseWithResult(w) = DB!UpdateWorkEntry(tables, entry).tables
  BY DEF UpdateDatabaseWithResult
<1> HIDE DEF e
<1>3. /\ entry \in EntryType /\ entry.last_url = SaveLastUrl(w.next)
      /\ entry.series_length = Larger(e.series_length, w.length)
  BY <1>1 DEF EntryType, WalkType, SaveLastUrl, Larger
<1> HIDE DEF entry
<1>4. UpdateDatabaseWithResult(w) = [tables EXCEPT !["work_entry"] = {entry}]
  BY <1>2, <1>3, UpdateIsExact
<1> DEFINE u == UpdateDatabaseWithResult(w)
<1>5. EntryOf(u) = entry /\ u["md5_sum"] = tables["md5_sum"]
      /\ u["error_entry"] = tables["error_entry"]
  BY <1>4, Replaced
<1>6. EntryOf(tables) = e  BY <1>1
<1> HIDE DEF u
<1>7. Records(tables, u, w)  BY <1>3, <1>5, <1>6 DEF Records
<1> QED  BY <1>7 DEF u

\* Deleting an error deletes those of its number.
LEMMA DeleteIsExact ==
  ASSUME NEW t, Sound(t), NEW number
  PROVE  LET u == DB!DeleteErrorEntry(t, Uuid, number).tables
         IN  /\ EntryOf(u) = EntryOf(t) /\ u["md5_sum"] = t["md5_sum"]
             /\ u["error_entry"] \subseteq t["error_entry"]
             /\ \A r \in t["error_entry"] : r \in u["error_entry"] \/ r.progress_num = number
<1> DEFINE gone == DB!SQLite!Where(t, "error_entry", [uuid |-> Uuid, progress_num |-> number])
           u == DB!DeleteErrorEntry(t, Uuid, number).tables
<1>1. u = [t EXCEPT !["error_entry"] = @ \ gone]
  BY WalkAssumption DEF DB!DeleteErrorEntry, DB!OrRefused, DB!SQLite!DeleteErrorEntry,
     DB!SQLite!Delete, DB!SQLite!Done
<1>2. \A r \in gone : r.progress_num = number  BY DEF DB!SQLite!Where
<1> HIDE DEF gone, u
<1>3. /\ u["work_entry"] = t["work_entry"] /\ u["md5_sum"] = t["md5_sum"]
      /\ u["error_entry"] = t["error_entry"] \ gone
  BY <1>1 DEF Sound, TablesType
<1>4. EntryOf(u) = EntryOf(t)  BY <1>3 DEF EntryOf
<1> QED  BY <1>2, <1>3, <1>4 DEF u

\* An int holds the number of every section.
LEMMA AsIntOfIndex ==
  ASSUME NEW p \in Place
  PROVE  Adapter!DB!SQLite!AsInt(p - 1) = p - 1
<1>1. PICK H \in Int : H = IntSpan \div 2  BY WalkAssumption
<1>2. IntSpan = 2 * H /\ MaxSections <= H  BY <1>1, WalkAssumption
<1>3. (p - 1 + H) % IntSpan = p - 1 + H
  <2>1. p - 1 + H \in 0..IntSpan - 1  BY <1>2, WalkAssumption DEF Place
  <2>2. \A x \in 0..IntSpan - 1 : x % IntSpan = x  BY WalkAssumption
  <2> QED  BY <2>1, <2>2
<1>4. Adapter!DB!SQLite!AsInt(p - 1) = ((p - 1 + H) % IntSpan) - H
  BY <1>1 DEF Adapter!DB!SQLite!AsInt
<1> QED  BY <1>1, <1>3, <1>4, WalkAssumption DEF Place

\* A section that is found stored has a row.
LEMMA StoredHasRow ==
  ASSUME Sound(tables), NEW p \in Place, TRUE \in AlreadyStored(p)
  PROVE  HasRow(tables, p)
<1>1. Section(p).md5[1] = p  BY DEF Section
<1>2. CASE forum
  <2>1. Adapter!CheckVersion(tables, Section(p), Uuid)  BY <1>2 DEF AlreadyStored
  <2>2. PICK r \in Adapter!CheckForMd5(tables, Section(p).md5, Uuid) : TRUE
    BY <2>1 DEF Adapter!CheckVersion
  <2>3. r \in tables["md5_sum"] /\ r.md5_sum = Section(p).md5
    BY <2>2, WalkAssumption DEF Adapter!CheckForMd5, Adapter!OfKnownWork,
       Adapter!DB!GetMd5SumFromMd5Sum, Adapter!DB!OrNothing, Adapter!DB!SQLite!GetMd5SumFromMd5Sum,
       Adapter!DB!SQLite!Select, Adapter!DB!SQLite!Done, Adapter!DB!SQLite!Where
  <2> QED  BY <1>1, <2>3 DEF HasRow
<1>3. CASE ~forum
  <2> DEFINE saved == Adapter!ReadMd5ByUrl(tables, Uuid, Section(p))
  <2>1. saved \subseteq tables["md5_sum"]
    BY WalkAssumption DEF Adapter!ReadMd5ByUrl, Adapter!OfKnownWork, Adapter!DB!ReadMd5SumBySeqNum,
       Adapter!DB!ReadMd5SumBySecId, Adapter!DB!OrNothing, Adapter!DB!SQLite!ReadMd5SumBySeqNum,
       Adapter!DB!SQLite!ReadMd5SumBySecId, Adapter!DB!SQLite!Select, Adapter!DB!SQLite!Done,
       Adapter!DB!SQLite!Where
  <2>2. TRUE \in {r.md5_sum = Section(p).md5 /\ r.date = Section(p).date : r \in saved}
                \cup (IF saved = {} THEN {FALSE} ELSE {})
    BY <1>3 DEF AlreadyStored
  <2> HIDE DEF saved
  <2>3. PICK r \in saved : r.md5_sum = Section(p).md5  BY <2>2
  <2> QED  BY <1>1, <2>1, <2>3 DEF HasRow
<1> QED  BY <1>2, <1>3

\* A section saved under its number takes the row of that number, which is its
\* own, or a new one; a row refused is one that it has already.
LEMMA UpsertKeepsNumbers ==
  ASSUME NEW t, Sound(t), RowsNumbered(t), NEW p \in Place, edits \in [Place -> 0..MaxEdits]
  PROVE  LET u == Adapter!UpsertMd5ByIndexNum(t, Uuid, p - 1, Section(p), 0).tables
         IN  /\ RowsNumbered(u) /\ HasRow(u, p)
             /\ \A q \in Place : HasRow(t, q) => HasRow(u, q)
             /\ EntryOf(u) = EntryOf(t) /\ u["error_entry"] = t["error_entry"]
<1> DEFINE md5 == Adapter!Md5Of(Uuid, p - 1, Section(p), 0)
           row == Adapter!DB!SQLite!Md5Row(md5)
           columns == Adapter!DB!SQLite!AllButKey(md5, "index_num")
           cond == [uuid |-> Uuid, index_num |-> Adapter!DB!SQLite!AsInt(p - 1)]
           hit == Adapter!DB!SQLite!Where(t, "md5_sum", cond)
           new(r) == IF r \in hit THEN Adapter!DB!SQLite!Assigned(r, row, columns) ELSE r
           written == [t EXCEPT !["md5_sum"] = {new(r) : r \in @}]
           inserted == [t EXCEPT !["md5_sum"] = @ \cup {row}]
           u == Adapter!UpsertMd5ByIndexNum(t, Uuid, p - 1, Section(p), 0).tables
           taken == \E r \in t["md5_sum"] : Adapter!DB!SQLite!SameKey("md5_sum", r, row)
<1>1. /\ md5.uuid = Uuid /\ md5.index_num = p - 1 /\ md5.md5_sum = Section(p).md5
      /\ DOMAIN md5 = {"uuid", "md5_sum", "index_num", "date", "sec_id", "seq_num", "version_num"}
  BY DEF Adapter!Md5Of
<1>2. /\ row.md5_sum[1] = p /\ row.index_num = p - 1
  <2>1. row = [md5 EXCEPT !.index_num = Adapter!DB!SQLite!AsInt(@),
                          !.seq_num = Adapter!DB!SQLite!AsInt(@)]
    BY DEF Adapter!DB!SQLite!Md5Row
  <2> HIDE DEF md5, row
  <2>2. row.md5_sum = md5.md5_sum /\ row.index_num = Adapter!DB!SQLite!AsInt(md5.index_num)
    BY <1>1, <2>1
  <2>3. Section(p).md5[1] = p  BY DEF Section
  <2> QED  BY <1>1, <2>2, <2>3, AsIntOfIndex
<1>3. hit = {r \in t["md5_sum"] : r.uuid = Uuid /\ r.index_num = p - 1}
  BY AsIntOfIndex DEF Adapter!DB!SQLite!Where
<1>4. \A r \in t["md5_sum"] : r \in RowType  BY DEF Sound, TablesType
<1>5. \A r \in t["md5_sum"] : r \in hit <=> r.md5_sum[1] = p
  <2> HIDE DEF hit
  <2>1. \A r \in t["md5_sum"] : r.uuid = Uuid /\ r.md5_sum[1] \in Int
    BY <1>4, WalkAssumption DEF RowType, Place
  <2> QED  BY <1>3, <2>1, WalkAssumption DEF RowsNumbered, Place
<1>6. \/ hit # {} /\ u = t
      \/ hit # {} /\ u = written
      \/ hit = {} /\ taken /\ u = t
      \/ hit = {} /\ ~taken /\ u = inserted
  <2>1. md5.uuid # NoUuid /\ Uuid # NoUuid  BY <1>1, WalkAssumption
  <2>2. Adapter!DB!DoesMd5SumExistByIndexNum(t, Uuid, p - 1).rows = hit
    BY <2>1 DEF Adapter!DB!DoesMd5SumExistByIndexNum, Adapter!DB!SQLite!DoesMd5SumExistByIndexNum,
       Adapter!DB!SQLite!Exists, Adapter!DB!SQLite!Select, Adapter!DB!SQLite!Done
  <2>3. u = IF hit # {} THEN Adapter!DB!UpdateMd5SumByIndexNum(t, md5).tables
            ELSE Adapter!DB!CreateMd5Sum(t, md5).tables
    BY <2>2 DEF Adapter!UpsertMd5ByIndexNum
  <2>4. \/ Adapter!DB!UpdateMd5SumByIndexNum(t, md5).tables = t
        \/ Adapter!DB!UpdateMd5SumByIndexNum(t, md5).tables = written
    <3>1. Adapter!DB!UpdateMd5SumByIndexNum(t, md5)
          = Adapter!DB!SQLite!Update(t, "md5_sum", cond, row, columns)
      BY <1>1, <2>1 DEF Adapter!DB!UpdateMd5SumByIndexNum, Adapter!DB!OrRefused,
         Adapter!DB!SQLite!UpdateMd5SumByIndexNum
    <3> HIDE DEF cond, row, columns, md5
    <3>2. \/ Adapter!DB!SQLite!Update(t, "md5_sum", cond, row, columns).tables = t
          \/ Adapter!DB!SQLite!Update(t, "md5_sum", cond, row, columns).tables = written
      BY DEF Adapter!DB!SQLite!Update, Adapter!DB!SQLite!Done, Adapter!DB!SQLite!Refused
    <3> QED  BY <3>1, <3>2
  <2>5. Adapter!DB!CreateMd5Sum(t, md5).tables = IF taken THEN t ELSE inserted
    BY <2>1 DEF Adapter!DB!CreateMd5Sum, Adapter!DB!OrRefused, Adapter!DB!SQLite!CreateMd5Sum,
       Adapter!DB!SQLite!Insert, Adapter!DB!SQLite!Done, Adapter!DB!SQLite!Refused
  <2> HIDE DEF u, hit, written, inserted, taken, md5
  <2> QED  BY <2>3, <2>4, <2>5
<1>7. \A r \in t["md5_sum"] :
        new(r).md5_sum[1] = r.md5_sum[1] /\ new(r).index_num = r.index_num
  <2> SUFFICES ASSUME NEW r \in t["md5_sum"], r \in hit
               PROVE  new(r).md5_sum[1] = r.md5_sum[1] /\ new(r).index_num = r.index_num
    OBVIOUS
  <2>1. new(r) = [c \in DOMAIN r |-> IF c \in columns THEN row[c] ELSE r[c]]
    BY DEF Adapter!DB!SQLite!Assigned
  <2>2. columns = {"md5_sum", "date", "sec_id", "seq_num", "version_num"}
    BY <1>1 DEF Adapter!DB!SQLite!AllButKey
  <2>3. r.md5_sum[1] = p  BY <1>5
  <2> HIDE DEF hit, new, row, columns
  <2>4. "md5_sum" \in DOMAIN r /\ "index_num" \in DOMAIN r  BY <1>4 DEF RowType
  <2>5. new(r).md5_sum = row.md5_sum /\ new(r).index_num = r.index_num
    BY <2>1, <2>2, <2>4
  <2> QED  BY <1>2, <2>3, <2>5
<1> SUFFICES /\ RowsNumbered(u) /\ HasRow(u, p)
             /\ \A q \in Place : HasRow(t, q) => HasRow(u, q)
             /\ EntryOf(u) = EntryOf(t) /\ u["error_entry"] = t["error_entry"]
  OBVIOUS
<1>8. CASE hit # {} /\ u = t
  <2> HIDE DEF u
  <2>1. \E r \in t["md5_sum"] : r.md5_sum[1] = p  BY <1>3, <1>5, <1>8
  <2> QED  BY <1>8, <2>1 DEF HasRow
<1>9. CASE hit # {} /\ u = written
  <2>1. /\ written["md5_sum"] = {new(r) : r \in t["md5_sum"]}
        /\ written["work_entry"] = t["work_entry"] /\ written["error_entry"] = t["error_entry"]
    BY DEF Sound, TablesType
  <2>2. \E r \in t["md5_sum"] : r.md5_sum[1] = p  BY <1>3, <1>5, <1>9
  <2> HIDE DEF u, new, written, hit
  <2>3. RowsNumbered(u)  BY <1>7, <1>9, <2>1 DEF RowsNumbered
  <2>4. \A q : HasRow(t, q) => HasRow(u, q)  BY <1>7, <1>9, <2>1 DEF HasRow
  <2>5. EntryOf(u) = EntryOf(t)  BY <1>9, <2>1 DEF EntryOf
  <2> QED  BY <1>9, <2>1, <2>2, <2>3, <2>4, <2>5 DEF HasRow
<1>10. CASE hit = {} /\ taken /\ u = t
  <2>1. PICK r \in t["md5_sum"] : Adapter!DB!SQLite!SameKey("md5_sum", r, row)  BY <1>10
  <2>2. r.md5_sum = row.md5_sum
    BY <2>1 DEF Adapter!DB!SQLite!SameKey, Adapter!DB!SQLite!PrimaryKey
  <2> HIDE DEF u, row, hit
  <2> QED  BY <1>2, <1>10, <2>1, <2>2 DEF HasRow
<1>11. CASE hit = {} /\ ~taken /\ u = inserted
  <2> HIDE DEF row
  <2>1. /\ inserted["md5_sum"] = t["md5_sum"] \cup {row}
        /\ inserted["work_entry"] = t["work_entry"] /\ inserted["error_entry"] = t["error_entry"]
    BY DEF Sound, TablesType
  <2> HIDE DEF u, inserted, hit
  <2>2. RowsNumbered(u)  BY <1>2, <1>5, <1>11, <2>1 DEF RowsNumbered
  <2>3. EntryOf(u) = EntryOf(t)  BY <1>11, <2>1 DEF EntryOf
  <2> QED  BY <1>2, <1>11, <2>1, <2>2, <2>3 DEF HasRow
<1> QED  BY <1>6, <1>8, <1>9, <1>10, <1>11

----------------------------------------------------------------------------
(* The invariant of numbers.                                                *)

Series == EntryOf(tables).series_length
LastUrl == EntryOf(tables).last_url

\* next_url_ is the section after i, or a blog's missing link, which the last
\* section may show too.
Stands(w, i) ==
    \/ i < published /\ w.next = i + 1
    \/ i <= published /\ ~forum /\ w.next = Nowhere

\* A walk's index_ is that of the section next_url_ leads to.
InStep(w) ==
    /\ w.at = "parse" /\ ~w.reached => Stands(w, w.index)
    /\ w.at = "report" /\ w.has_error => ~w.reached /\ Stands(w, w.index)
    /\ w.at = "report" /\ ~w.has_error /\ ~w.reached => Stands(w, w.index + 1)

\* The number of the last section a walk has reached, reported or given up.
At(w) == IF w.left = 0 THEN w.index + 1 ELSE w.index

\* What the normal walk has reported is in series_length, and what it ends at
\* will be last_url.
Counted(w, series) ==
    /\ w.number \in 1..published + 1 /\ w.start = w.number - 1 /\ w.end = NoBound
    /\ w.length = 1 \/ w.length <= w.index
    /\ series = Larger(w.number, At(w))
    /\ w.reached => w.left > 0
    /\ w.reached /\ w.at # "report" =>
         w.next = w.index /\ w.index <= published
    /\ w.reached /\ w.at = "report" =>
         w.next = w.index + 1 /\ w.index + 1 <= published
    /\ w.at = "result" /\ w.reached => w.number <= w.index
    /\ w.at = "result" /\ ~w.reached =>
         w.left = 0 /\ Stands(w, w.index) /\ w.number <= w.index + 1

TablesNumbered ==
    /\ RowsNumbered(tables) /\ Series <= published + 1
    /\ LastUrl <= published /\ LastUrl # Nowhere
    /\ \A r \in Errors : r.progress_num <= Series

WalksNumbered ==
    /\ \A e \in BOOLEAN : walk[e] # NoWalk => InStep(walk[e])
    /\ IF walk[FALSE] = NoWalk THEN LastUrl \in {WorkUrl, Series}
       ELSE Counted(walk[FALSE], Series)

NumInv == TablesNumbered /\ WalksNumbered

\* A step of one walk disturbs that walk, and the normal one when it changes
\* the entry.
LEMMA OneWalkNumbers ==
  ASSUME IInv, NumInv, TablesNumbered', UNCHANGED <<forum, published>>,
         NEW e \in BOOLEAN, NEW w, w # NoWalk, walk' = [walk EXCEPT ![e] = w], InStep(w),
         IF e THEN Series' = Series /\ LastUrl' = LastUrl ELSE Counted(w, Series')
  PROVE  NumInv'
<1>2. ASSUME NEW f \in BOOLEAN, walk'[f] # NoWalk PROVE InStep(walk[f])'
  <2>1. CASE f = e
    <3>1. walk'[f] = w  BY <2>1 DEF IInv
    <3> QED  BY <3>1 DEF InStep, Stands
  <2>2. CASE f # e
    <3>1. walk'[f] = walk[f]  BY <2>2 DEF IInv
    <3>2. InStep(walk[f])  BY <1>2, <3>1 DEF NumInv, WalksNumbered
    <3> QED  BY <3>1, <3>2 DEF InStep, Stands
  <2> QED  BY <2>1, <2>2
<1>3. CASE e = FALSE
  <2>1. walk'[FALSE] = w /\ Counted(w, Series')  BY <1>3 DEF IInv
  <2>2. Counted(walk[FALSE], Series)'  BY <2>1 DEF Counted, Stands
  <2> QED  BY <1>2, <2>1, <2>2 DEF NumInv, WalksNumbered
<1>4. CASE e = TRUE
  <2>1. walk'[FALSE] = walk[FALSE] /\ Series' = Series /\ LastUrl' = LastUrl
    BY <1>4 DEF IInv
  <2>2. CASE walk[FALSE] = NoWalk
    <3>1. LastUrl \in {WorkUrl, Series}  BY <2>2 DEF NumInv, WalksNumbered
    <3> QED  BY <1>2, <2>1, <2>2, <3>1 DEF NumInv, WalksNumbered
  <2>3. CASE walk[FALSE] # NoWalk
    <3>1. Counted(walk[FALSE], Series)  BY <2>3 DEF NumInv, WalksNumbered
    <3>2. Counted(walk[FALSE], Series)'  BY <2>1, <3>1 DEF Counted, Stands
    <3> QED  BY <1>2, <2>1, <2>3, <3>2 DEF NumInv, WalksNumbered
  <2> QED  BY <2>2, <2>3
<1> QED  BY <1>3, <1>4

\* A step that leaves the tables and the site alone.
LEMMA TablesStay ==
  ASSUME NumInv, tables' = tables, published' = published
  PROVE  TablesNumbered' /\ Series' = Series /\ LastUrl' = LastUrl
<1>1. Series' = Series /\ LastUrl' = LastUrl  BY DEF Series, LastUrl
<1> QED  BY <1>1 DEF NumInv, TablesNumbered, Errors

\* The columns of the entry have their types.
LEMMA EntryIsTyped ==
  ASSUME Sound(tables)
  PROVE  /\ EntryOf(tables) = Entry /\ EntryOf(tables).url = WorkUrl
         /\ Series \in Nat \ {0} /\ LastUrl \in Place \cup {WorkUrl, Nowhere}
<1>1. EntryOf(tables) = Entry  BY DEF EntryOf, Entry, Entries
<1>2. EntryOf(tables) \in EntryType  BY TheEntry
<1> QED  BY <1>1, <1>2 DEF EntryType, Series, LastUrl

\* A walk begins at its first section, or at the one series_length counts.
LEMMA BeginNumbers ==
  ASSUME IInv, NumInv, NEW e \in BOOLEAN, NEW last_url, NEW start_number \in Nat \ {0},
         NEW end_number, Begin(e, last_url, start_number, end_number),
         IF e THEN last_url = WorkUrl
         ELSE last_url = LastUrl /\ start_number = Series /\ end_number = 0
  PROVE  NumInv'
<1> DEFINE bounds == CalculateIndexBounds(start_number, end_number)
           first == PreParseLoop(last_url, start_number)
           w == [at |-> "parse", next |-> first.next, index |-> first.index,
                 start |-> bounds.start, end |-> bounds.end, left |-> Attempts,
                 reached |-> FALSE, has_error |-> FALSE, length |-> 1, number |-> start_number]
<1>1. /\ walk' = [walk EXCEPT ![e] = w] /\ walk[e].at = "none"
      /\ UNCHANGED <<forum, tables, published>>
  BY DEF Begin
<1>2. TablesNumbered' /\ Series' = Series /\ LastUrl' = LastUrl  BY <1>1, TablesStay
<1>3. /\ Series \in Nat \ {0} /\ Series <= published + 1 /\ published \in Nat \ {0}
      /\ LastUrl <= published /\ LastUrl \in Place \cup {WorkUrl, Nowhere}
  BY EntryIsTyped, WalkAssumption DEF IInv, NumInv, TablesNumbered, Place
<1>4. /\ first.next = first.index + 1 /\ first.index < published
      /\ first.index \in Nat /\ (~e => first.index < start_number)
  <2>1. CASE last_url = WorkUrl  BY <1>3, <2>1 DEF PreParseLoop
  <2>2. CASE last_url # WorkUrl
    <3>1. ~e /\ last_url = LastUrl /\ start_number = Series  BY <2>2
    <3>2. walk[FALSE] = NoWalk  BY <1>1, <3>1 DEF IInv, WalkType
    <3>3. LastUrl = Series  BY <2>2, <3>1, <3>2 DEF NumInv, WalksNumbered
    <3> QED  BY <1>3, <2>2, <3>1, <3>3 DEF PreParseLoop
  <2> QED  BY <2>1, <2>2
<1>5. /\ w.at = "parse" /\ w.next = first.next /\ w.index = first.index
      /\ w.start = bounds.start /\ w.end = bounds.end /\ w.left = Attempts
      /\ w.reached = FALSE /\ w.length = 1 /\ w.number = start_number
  OBVIOUS
<1>6. bounds.start = start_number - 1 /\ (~e => bounds.end = NoBound)
  BY DEF CalculateIndexBounds
<1>7. w # NoWalk
  <2> HIDE DEF w
  <2> QED  BY <1>5 DEF NoWalk
<1> HIDE DEF bounds, first, w
<1>8. InStep(w)  BY <1>4, <1>5 DEF InStep, Stands
<1>9. ~e => Counted(w, Series')
  BY <1>2, <1>3, <1>4, <1>5, <1>6, WalkAssumption DEF Counted, Larger, At
<1> QED  BY <1>1, <1>2, <1>7, <1>8, <1>9, OneWalkNumbers

\* A normal job begins its walk at the entry it has read.
LEMMA ParseUrlsNumbers ==
  ASSUME IInv, NumInv, ParseUrls
  PROVE  NumInv'
<1>1. Entry.last_url = LastUrl /\ Entry.series_length = Series /\ Series \in Nat \ {0}
  BY EntryIsTyped DEF IInv, LastUrl, Series
<1> QED  BY <1>1, BeginNumbers DEF ParseUrls

\* An error job begins its walk at the entry it has read.
LEMMA ParseErrorEntriesNumbers ==
  ASSUME IInv, NumInv, ParseErrorEntries
  PROVE  NumInv'
<1>1. PICK error \in DB!GetErrorEntryList(tables).rows :
        Begin(TRUE, Entry.url, error.progress_num, error.progress_num)
  BY DEF ParseErrorEntries
<1>2. error \in ErrorType
  BY DEF DB!GetErrorEntryList, DB!SQLite!ListErrorEntries, DB!SQLite!Done, IInv, Sound, TablesType
<1>3. error.progress_num \in Nat \ {0}  BY <1>2 DEF ErrorType
<1>4. Entry.url = WorkUrl  BY EntryIsTyped DEF IInv
<1> QED  BY <1>1, <1>3, <1>4, BeginNumbers

\* The section parsed is the one index_ names, and its report is of it.
LEMMA ParseSectionNumbers ==
  ASSUME IInv, NumInv, NEW e \in BOOLEAN, ParseSection(e), ~derailed'
  PROVE  /\ NumInv'
         /\ (Skips(e) \/ Keeps(e) \/ Saves(e)) => walk[e].next = walk[e].index + 1
         /\ PastBound(e) => e = TRUE
<1> DEFINE v == walk[e]
<1>1. v.at = "parse" /\ v.reached = FALSE /\ v.left > 0
  <2>1. v.at = "parse" /\ ~v.reached /\ v.left > 0
    BY DEF ParseSection, PastBound, FailsEarly, Skips, FailsLate, Keeps, Saves, AtSection, Parsing
  <2>2. v \in WalkType  BY <2>1, UnderWay
  <2> QED  BY <2>1, <2>2 DEF WalkType
<1>2. v \in WalkType /\ v # NoWalk  BY <1>1, UnderWay
<1>3. UNCHANGED <<forum, published>>
  BY DEF ParseSection, PastBound, FailsEarly, Skips, FailsLate, Keeps, Saves
<1>4. Stands(v, v.index)  BY <1>1, <1>2 DEF NumInv, WalksNumbered, InStep
<1>5. e = FALSE => Counted(v, Series)  BY <1>2 DEF NumInv, WalksNumbered
<1>6. published \in Nat /\ published <= MaxSections  BY WalkAssumption DEF IInv, Place
<1>7. ~(PastBound(e) /\ (Skips(e) \/ Keeps(e) \/ Saves(e)))
  <2>1. PastBound(e) => v.index > v.end  BY DEF PastBound
  <2>2. Skips(e) \/ Keeps(e) \/ Saves(e) => v.index <= v.end
    BY DEF Skips, Keeps, Saves, AtSection
  <2>3. v.index \in Nat /\ v.end \in Nat  BY <1>2 DEF WalkType
  <2> HIDE DEF v
  <2> QED  BY <2>1, <2>2, <2>3
<1>8. CASE PastBound(e)
  <2> DEFINE w == [Reporting(v, FALSE) EXCEPT !.reached = TRUE]
  <2>1. walk' = [walk EXCEPT ![e] = w] /\ tables' = tables  BY <1>8 DEF PastBound, IInv
  <2>2. w = [v EXCEPT !.at = "report", !.has_error = FALSE, !.reached = TRUE]
    BY <1>2 DEF Reporting, WalkType
  <2>3. e = TRUE
    <3>1. v.index > v.end /\ v.index <= published /\ v.index \in Nat
      <4>1. v.index > v.end  BY <1>8 DEF PastBound
      <4>2. v.index \in Nat  BY <1>2 DEF WalkType
      <4> HIDE DEF v
      <4> QED  BY <1>4, <1>6, <4>1, <4>2 DEF Stands
    <3>2. e = FALSE => v.end = NoBound  BY <1>5 DEF Counted
    <3> HIDE DEF v
    <3> QED  BY <1>6, <3>1, <3>2, WalkAssumption DEF NoBound
  <2> HIDE DEF w
  <2>4. w.at = "report" /\ w.has_error = FALSE /\ w.reached = TRUE  BY <1>2, <2>2 DEF WalkType
  <2>5. InStep(w) /\ w # NoWalk  BY <2>4 DEF InStep, NoWalk
  <2>6. TablesNumbered' /\ Series' = Series /\ LastUrl' = LastUrl  BY <1>3, <2>1, TablesStay
  <2>7. NumInv'  BY <1>3, <2>1, <2>3, <2>5, <2>6, OneWalkNumbers
  <2>8. ~(Skips(e) \/ Keeps(e) \/ Saves(e))  BY <1>8, <1>7
  <2> QED  BY <2>3, <2>7, <2>8
<1>9. CASE FailsEarly(e) /\ ~PastBound(e) /\ ~(Skips(e) \/ Keeps(e) \/ Saves(e))
  <2> DEFINE w == Reporting(v, TRUE)
  <2>1. walk' = [walk EXCEPT ![e] = w] /\ tables' = tables  BY <1>9 DEF FailsEarly, IInv
  <2>2. w = [v EXCEPT !.at = "report", !.has_error = TRUE]  BY DEF Reporting
  <2> HIDE DEF w
  <2>3. /\ w.at = "report" /\ w.has_error = TRUE /\ w.reached = FALSE /\ w.left = v.left
        /\ w.next = v.next /\ w.index = v.index /\ w.start = v.start /\ w.end = v.end
        /\ w.length = v.length /\ w.number = v.number
    BY <1>1, <1>2, <2>2 DEF WalkType
  <2>4. InStep(w) /\ w # NoWalk  BY <1>4, <2>3 DEF InStep, Stands, NoWalk
  <2>5. TablesNumbered' /\ Series' = Series /\ LastUrl' = LastUrl  BY <1>3, <2>1, TablesStay
  <2>6. e = FALSE => Counted(w, Series')
    <3> HIDE DEF v
    <3> QED  BY <1>1, <1>5, <2>3, <2>5 DEF Counted, At
  <2>7. NumInv'  BY <1>3, <2>1, <2>4, <2>5, <2>6, OneWalkNumbers
  <2> QED  BY <1>9, <2>7
<1>10. CASE Skips(e) \/ Keeps(e) \/ Saves(e)
  <2>1. v.next \in 1..published  BY <1>10 DEF Skips, Keeps, Saves, AtSection
  <2>2. v.next = v.index + 1 /\ v.index \in Nat
    BY <1>2, <1>4, <1>6, <2>1 DEF Stands, Nowhere, WalkType
  <2>3. PICK link \in GetNextUrl(v.next) :
          /\ walk' = [walk EXCEPT ![e] = Reporting(Moved(v, link), FALSE)]
          /\ ~LosesTheWay(link)
    BY <1>2, <1>10 DEF Skips, Keeps, Saves, IInv
  <2> DEFINE w == Reporting(Moved(v, link), FALSE)
  <2>4. w = [v EXCEPT !.next = link.next, !.reached = link.reached, !.at = "report",
                      !.has_error = FALSE]
    BY <1>2 DEF Reporting, Moved, WalkType
  <2>5. walk' = [walk EXCEPT ![e] = w]  BY <2>3
  <2> HIDE DEF w
  <2>6. /\ w.at = "report" /\ w.has_error = FALSE /\ w.left = v.left
        /\ w.next = link.next /\ w.reached = link.reached
        /\ w.index = v.index /\ w.start = v.start /\ w.end = v.end
        /\ w.length = v.length /\ w.number = v.number
    BY <1>2, <2>4 DEF WalkType
  <2>7. \/ w.reached = TRUE /\ w.next = v.index + 1 /\ v.index + 1 <= published
        \/ w.reached = FALSE /\ w.next = v.index + 2 /\ v.index + 1 < published
        \/ w.reached = FALSE /\ w.next = Nowhere /\ v.index + 1 <= published /\ ~forum
    <3>1. CASE link = [next |-> v.next, reached |-> TRUE]
      <4>1. link.next = v.next /\ link.reached = TRUE  BY <3>1
      <4> HIDE DEF v
      <4> QED  BY <1>6, <2>1, <2>2, <2>6, <4>1
    <3>2. CASE link = [next |-> Nowhere, reached |-> FALSE]
      <4>1. link.next = Nowhere /\ link.reached = FALSE  BY <3>2
      <4>2. ~forum  BY <2>3, <4>1 DEF LosesTheWay
      <4> HIDE DEF v
      <4> QED  BY <1>6, <2>1, <2>2, <2>6, <4>1, <4>2
    <3>3. CASE \E q \in {v.next + 1} \cap 1..published : link = [next |-> q, reached |-> FALSE]
      <4>1. v.next + 1 \in 1..published /\ link = [next |-> v.next + 1, reached |-> FALSE]
        BY <3>3
      <4>2. link.next = v.next + 1 /\ link.reached = FALSE  BY <4>1
      <4> HIDE DEF v
      <4> QED  BY <1>6, <2>1, <2>2, <2>6, <4>1, <4>2
    <3> QED  BY <2>3, <3>1, <3>2, <3>3 DEF GetNextUrl
  <2>8. InStep(w) /\ w # NoWalk
    <3>1. w # NoWalk  BY <2>6 DEF NoWalk
    <3> HIDE DEF v
    <3> QED  BY <2>2, <2>6, <2>7, <3>1 DEF InStep, Stands
  <2>9. TablesNumbered' /\ Series' = Series /\ LastUrl' = LastUrl
    <3>1. CASE tables' = tables  BY <1>3, <3>1, TablesStay
    <3>2. CASE Saves(e)
      <4> DEFINE u == Adapter!UpsertMd5ByIndexNum(tables, Uuid, v.next - 1, Section(v.next), 0).tables
      <4>1. v.next \in Place /\ v.next - 1 = v.index
        <5>1. v.next \in Nat \ {0} /\ v.next <= published  BY <1>6, <2>1
        <5> HIDE DEF v
        <5> QED  BY <1>6, <2>2, <5>1, WalkAssumption DEF Place
      <4>2. tables' = u  BY <3>2, <4>1 DEF Saves
      <4>3. /\ RowsNumbered(u) /\ EntryOf(u) = EntryOf(tables)
            /\ u["error_entry"] = tables["error_entry"]
        BY <4>1, UpsertKeepsNumbers DEF IInv, NumInv, TablesNumbered
      <4> HIDE DEF u
      <4>4. Series' = Series /\ LastUrl' = LastUrl  BY <4>2, <4>3 DEF Series, LastUrl
      <4>5. RowsNumbered(tables)'  BY <4>2, <4>3 DEF RowsNumbered
      <4> QED  BY <1>3, <4>2, <4>3, <4>4, <4>5 DEF TablesNumbered, NumInv, Errors
    <3> QED  BY <1>10, <3>1, <3>2 DEF Skips, Keeps
  <2>10. e = FALSE => Counted(w, Series')
    <3> SUFFICES ASSUME e = FALSE PROVE Counted(w, Series')  OBVIOUS
    <3>1. Counted(v, Series)  BY <1>5
    <3>2. v.number \in 1..published + 1  BY <3>1 DEF Counted
    <3> HIDE DEF v
    <3> QED  BY <1>1, <1>6, <2>2, <2>6, <2>7, <2>9, <3>1, <3>2 DEF Counted, At
  <2>11. NumInv'  BY <1>3, <2>5, <2>8, <2>9, <2>10, OneWalkNumbers
  <2>12. ~PastBound(e)  BY <1>10, <1>7
  <2> QED  BY <2>2, <2>11, <2>12
<1>11. ~FailsLate(e)  BY DEF FailsLate
<1> QED  BY <1>8, <1>9, <1>10, <1>11 DEF ParseSection

\* What a report leaves of the tables.
LEMMA ReportNumbers ==
  ASSUME IInv, NumInv, NEW e \in BOOLEAN, NEW number \in Nat \ {0}, NEW error \in BOOLEAN,
         number <= published + 1, published' = published,
         tables' = Progress(tables, number, error),
         derailed' = (derailed \/ RaisedByError(e)), ~derailed'
  PROVE  /\ TablesNumbered'
         /\ e = TRUE => Series' = Series /\ LastUrl' = LastUrl
         /\ Series' = Larger(Series, number)
<1> DEFINE u == Progress(tables, number, error)
<1>1. /\ Series \in Nat \ {0} /\ published \in Nat
  BY EntryIsTyped, WalkAssumption DEF IInv, Place
<1>2. \A r \in Errors : r.progress_num \in Nat /\ r.progress_num <= Series
  BY DEF NumInv, TablesNumbered, IInv, Sound, TablesType, ErrorType, Errors
<1>3. e = TRUE => Series' = Series /\ LastUrl' = LastUrl
  <2>1. e = TRUE => tables'["work_entry"] = tables["work_entry"]
    BY DEF RaisedByError, Entries
  <2> QED  BY <2>1 DEF Series, LastUrl, EntryOf
<1>4. \/ /\ error = TRUE /\ u = tables
         /\ \E r \in Errors : r.progress_num = number
      \/ /\ EntryOf(u).last_url = LastUrl /\ EntryOf(u).series_length = Larger(Series, number)
         /\ u["md5_sum"] = tables["md5_sum"]
         /\ \A r \in u["error_entry"] : r \in Errors \/ r.progress_num = number
  <2>1. Sound(tables)  BY DEF IInv
  <2>2. Reports(tables, u, number, error)  BY <2>1, ProgressIsExact
  <2> HIDE DEF u
  <2> QED  BY <2>2 DEF Reports, Series, LastUrl, Errors
<1>5. tables' = u  OBVIOUS
<1> HIDE DEF u
<1>6. CASE u = tables /\ \E r \in Errors : r.progress_num = number
  <2>1. TablesNumbered' /\ Series' = Series /\ LastUrl' = LastUrl  BY <1>5, <1>6, TablesStay
  <2>2. Larger(Series, number) = Series  BY <1>1, <1>2, <1>6 DEF Larger
  <2> QED  BY <2>1, <2>2
<1>7. CASE /\ EntryOf(u).last_url = LastUrl /\ EntryOf(u).series_length = Larger(Series, number)
           /\ u["md5_sum"] = tables["md5_sum"]
           /\ \A r \in u["error_entry"] : r \in Errors \/ r.progress_num = number
  <2>1. Series' = Larger(Series, number) /\ LastUrl' = LastUrl  BY <1>5, <1>7 DEF Series, LastUrl
  <2>2. RowsNumbered(tables)'  BY <1>5, <1>7 DEF RowsNumbered, NumInv, TablesNumbered
  <2>3. Larger(Series, number) <= published + 1
    BY <1>1 DEF Larger, NumInv, TablesNumbered
  <2>4. \A r \in Errors' : r.progress_num <= Larger(Series, number)
    BY <1>1, <1>2, <1>5, <1>7 DEF Larger, Errors
  <2>5. TablesNumbered'  BY <2>1, <2>2, <2>3, <2>4 DEF TablesNumbered, NumInv
  <2> QED  BY <1>3, <2>1, <2>5
<1> QED  BY <1>4, <1>6, <1>7

\* The report of a stored section moves the walk to the next number.
LEMMA SucceededNumbers ==
  ASSUME IInv, NumInv, NEW e \in BOOLEAN, Succeeded(e), ~derailed'
  PROVE  NumInv'
<1> DEFINE v == walk[e]
           n == v.index + 1
           w == [v EXCEPT !.at = "parse", !.length = v.index + 1,
                          !.left = Attempts, !.index = v.index + 1]
<1>1. v.at = "report" /\ ~v.has_error  BY DEF Succeeded
<1>2. v \in WalkType /\ v # NoWalk /\ v.left > 0  BY <1>1, UnderWay DEF Attempted
<1>3. /\ walk' = [walk EXCEPT ![e] = w] /\ UNCHANGED <<forum, published>>
      /\ tables' = Progress(tables, n, FALSE) /\ derailed' = (derailed \/ RaisedByError(e))
  BY DEF Succeeded, IInv
<1>4. InStep(v) /\ (e = FALSE => Counted(v, Series))  BY <1>2 DEF NumInv, WalksNumbered
<1>5. published \in Nat /\ v.index \in Nat  BY <1>2, WalkAssumption DEF IInv, Place, WalkType
<1>6. w = [v EXCEPT !.at = "parse", !.length = n, !.left = Attempts, !.index = n]  OBVIOUS
<1> HIDE DEF w
<1>7. /\ w.at = "parse" /\ w.length = n /\ w.left = Attempts /\ w.index = n
      /\ w.next = v.next /\ w.reached = v.reached /\ w.start = v.start /\ w.end = v.end
      /\ w.number = v.number
  <2> HIDE DEF n, v
  <2> QED  BY <1>2, <1>6 DEF WalkType
<1>8. InStep(w) /\ w # NoWalk
  <2>1. ~v.reached => Stands(v, n)  BY <1>1, <1>4 DEF InStep
  <2> HIDE DEF v, n
  <2> QED  BY <1>7, <2>1 DEF InStep, Stands, NoWalk
<1>9. n \in Nat \ {0}  BY <1>5
<1>10. CASE e = TRUE
  <2>1. TablesNumbered' /\ Series' = Series /\ LastUrl' = LastUrl
    <3> DEFINE u == Progress(tables, n, FALSE)
    <3>1. /\ u["md5_sum"] = tables["md5_sum"]
          /\ \A r \in u["error_entry"] : r \in Errors \/ r.progress_num = n
          /\ EntryOf(u).series_length = Larger(Series, n)
      <4>1. Sound(tables)  BY DEF IInv
      <4>2. Reports(tables, u, n, FALSE)  BY <1>9, <4>1, ProgressIsExact
      <4> HIDE DEF u, n
      <4> QED  BY <4>2 DEF Reports, Series, Errors
    <3>2. tables'["work_entry"] = tables["work_entry"]
      BY <1>3, <1>10 DEF RaisedByError, Entries
    <3>3. Series' = Series /\ LastUrl' = LastUrl  BY <3>2 DEF Series, LastUrl, EntryOf
    <3>4. Series = Larger(Series, n)  BY <1>3, <3>1, <3>3 DEF Series
    <3>5. n <= Series
      <4>1. Series \in Nat  BY EntryIsTyped DEF IInv
      <4> HIDE DEF n
      <4> QED  BY <1>9, <3>4, <4>1 DEF Larger
    <3>6. n <= published + 1
      <4>1. Series \in Nat /\ Series <= published + 1
        BY EntryIsTyped DEF IInv, NumInv, TablesNumbered
      <4> HIDE DEF n
      <4> QED  BY <1>5, <1>9, <3>5, <4>1
    <3> QED  BY <1>3, <1>9, <1>10, <3>3, <3>6, ReportNumbers
  <2> QED  BY <1>3, <1>8, <1>10, <2>1, OneWalkNumbers
<1>11. CASE e = FALSE
  <2>1. Counted(v, Series)  BY <1>4, <1>11
  <2>2. n <= published /\ n <= published + 1
    <3>1. ~v.reached => Stands(v, n)  BY <1>1, <1>4 DEF InStep
    <3>2. v.reached => n <= published  BY <1>1, <2>1 DEF Counted
    <3> QED  BY <1>5, <3>1, <3>2 DEF Stands
  <2>3. TablesNumbered' /\ Series' = Larger(Series, n)
    BY <1>3, <1>9, <2>2, ReportNumbers
  <2>4. Series = Larger(v.number, v.index)  BY <1>2, <2>1 DEF Counted, At, WalkType
  <2>5. Series' = Larger(v.number, n)
    <3>1. v.number \in Nat  BY <1>2 DEF WalkType
    <3> QED  BY <1>5, <2>3, <2>4, <3>1 DEF Larger
  <2>6. v.reached => v.next = n  BY <1>1, <2>1 DEF Counted
  <2>7. Counted(w, Series')
    <3>1. At(w) = n /\ w.left > 0  BY <1>7, WalkAssumption DEF At
    <3>2. v.number \in 1..published + 1 /\ v.start = v.number - 1 /\ v.end = NoBound
      BY <2>1 DEF Counted
    <3>3. n <= n  BY <1>9
    <3> HIDE DEF v, n
    <3> QED  BY <1>7, <2>2, <2>5, <2>6, <3>1, <3>2, <3>3 DEF Counted
  <2> QED  BY <1>3, <1>8, <1>11, <2>3, <2>7, OneWalkNumbers
<1> QED  BY <1>10, <1>11

\* The report of a failure costs an attempt and writes an error with the last one.
LEMMA FailedNumbers ==
  ASSUME IInv, NumInv, NEW e \in BOOLEAN, Failed(e), ~derailed'
  PROVE  NumInv'
<1> DEFINE v == walk[e]
           n == v.index + 1
           w == [v EXCEPT !.at = "parse", !.left = v.left - 1]
<1>1. v.at = "report" /\ v.has_error  BY DEF Failed
<1>2. v \in WalkType /\ v # NoWalk /\ v.left > 0  BY <1>1, UnderWay DEF Attempted
<1>3. /\ walk' = [walk EXCEPT ![e] = w] /\ UNCHANGED <<forum, published>>
      /\ tables' = IF v.left = 1 THEN Progress(tables, n, TRUE) ELSE tables
      /\ derailed' = (derailed \/ RaisedByError(e))
  <2>1. walk' = [walk EXCEPT ![e] = w]  BY DEF Failed, IInv
  <2>2. tables' = IF v.left = 1 THEN Progress(tables, n, TRUE) ELSE tables  BY DEF Failed
  <2> QED  BY <2>1, <2>2 DEF Failed
<1>4. /\ ~v.reached /\ Stands(v, v.index) /\ (e = FALSE => Counted(v, Series))
  BY <1>1, <1>2 DEF NumInv, WalksNumbered, InStep
<1>5. /\ published \in Nat /\ v.index \in Nat /\ v.left \in Nat /\ v.number \in Nat
      /\ Series \in Nat
  BY <1>2, EntryIsTyped, WalkAssumption DEF IInv, Place, WalkType
<1>6. n \in Nat \ {0} /\ n <= published + 1  BY <1>4, <1>5 DEF Stands
<1>7. /\ w.at = "parse" /\ w.left = v.left - 1 /\ w.index = v.index /\ w.length = v.length
      /\ w.next = v.next /\ w.reached = v.reached /\ w.start = v.start /\ w.end = v.end
      /\ w.number = v.number
  <2>1. PICK m : m = v.left - 1  OBVIOUS
  <2>2. w = [v EXCEPT !.at = "parse", !.left = m]  BY <2>1
  <2> HIDE DEF v, w
  <2> QED  BY <1>2, <2>1, <2>2 DEF WalkType
<1> HIDE DEF w
<1>8. InStep(w) /\ w # NoWalk
  <2> HIDE DEF v, n
  <2> QED  BY <1>4, <1>7 DEF InStep, Stands, NoWalk
<1>9. /\ TablesNumbered' /\ (e = TRUE => Series' = Series /\ LastUrl' = LastUrl)
      /\ Series' = IF v.left = 1 THEN Larger(Series, n) ELSE Series
  <2>1. CASE v.left = 1  BY <1>3, <1>6, <2>1, ReportNumbers
  <2>2. CASE v.left # 1  BY <1>3, <2>2, TablesStay
  <2> QED  BY <2>1, <2>2
<1>10. e = FALSE => Counted(w, Series')
  <2> SUFFICES ASSUME e = FALSE PROVE Counted(w, Series')  OBVIOUS
  <2>1. Counted(v, Series)  BY <1>4
  <2>2. Series = Larger(v.number, v.index)  BY <1>2, <1>5, <2>1 DEF Counted, At
  <2>3. Series' = Larger(v.number, At(w))
    <3> HIDE DEF v
    <3> QED  BY <1>2, <1>5, <1>7, <1>9, <2>2 DEF Larger, At
  <2> HIDE DEF v, n
  <2> QED  BY <1>4, <1>7, <2>1, <2>3 DEF Counted
<1> QED  BY <1>3, <1>8, <1>9, <1>10, OneWalkNumbers

\* Where a walk ends its number is that of its section.
LEMMA EndLoopNumbers ==
  ASSUME IInv, NumInv, NEW e \in BOOLEAN, EndLoop(e), ~derailed'
  PROVE  NumInv'
<1> DEFINE v == walk[e]
           w == [v EXCEPT !.at = "result"]
<1>1. v.at = "parse" /\ (v.reached \/ v.left = 0)  BY DEF EndLoop
<1>2. v \in WalkType /\ v # NoWalk  BY <1>1, UnderWay
<1>3. walk' = [walk EXCEPT ![e] = w] /\ UNCHANGED <<forum, tables, published>>
  BY DEF EndLoop, IInv
<1>4. InStep(v) /\ (e = FALSE => Counted(v, Series))  BY <1>2 DEF NumInv, WalksNumbered
<1>5. e = FALSE => v.number <= IF v.reached THEN v.index ELSE v.index + 1
  <2>1. e = FALSE => ~((IF v.reached THEN v.index ELSE v.index + 1) < v.number)
    BY DEF EndLoop
  <2>2. v.index \in Nat /\ v.number \in Nat  BY <1>2 DEF WalkType
  <2> HIDE DEF v
  <2> QED  BY <2>1, <2>2
<1> HIDE DEF w
<1>6. /\ w.at = "result" /\ w.left = v.left /\ w.index = v.index /\ w.length = v.length
      /\ w.next = v.next /\ w.reached = v.reached /\ w.start = v.start /\ w.end = v.end
      /\ w.number = v.number
  BY <1>2 DEF w, WalkType
<1>7. InStep(w) /\ w # NoWalk  BY <1>6 DEF InStep, NoWalk
<1>8. TablesNumbered' /\ Series' = Series /\ LastUrl' = LastUrl  BY <1>3, TablesStay
<1>9. e = FALSE => Counted(w, Series')
  <2> SUFFICES ASSUME e = FALSE PROVE Counted(w, Series')  OBVIOUS
  <2>1. /\ Counted(v, Series)
        /\ IF v.reached THEN v.number <= v.index ELSE v.number <= v.index + 1
    BY <1>4, <1>5
  <2>2. ~v.reached => Stands(v, v.index)  BY <1>1, <1>4 DEF InStep
  <2>3. At(w) = At(v)  BY <1>6 DEF At
  <2> HIDE DEF v
  <2> QED  BY <1>1, <1>6, <1>8, <2>1, <2>2, <2>3 DEF Counted, Stands
<1> QED  BY <1>3, <1>7, <1>8, <1>9, OneWalkNumbers

\* last_url is written where series_length has been counted to.
LEMMA RecordNumbers ==
  ASSUME IInv, NumInv, Record
  PROVE  NumInv'
<1> DEFINE v == walk[FALSE]
           u == UpdateDatabaseWithResult(v)
<1>1. v.at = "result"  BY DEF Record
<1>2. v \in WalkType /\ v # NoWalk  BY <1>1, UnderWay
<1>3. /\ walk' = [walk EXCEPT ![FALSE] = NoWalk] /\ UNCHANGED <<forum, published>>
      /\ tables' = u
  BY DEF Record
<1>4. Counted(v, Series)  BY <1>2 DEF NumInv, WalksNumbered
<1>5. /\ published \in Nat /\ v.index \in Nat /\ v.left \in Nat /\ v.number \in Nat \ {0}
      /\ v.length \in Nat /\ Series \in Nat
  <2>1. v.index \in Nat /\ v.number \in Nat \ {0} /\ v.length \in Nat  BY <1>2 DEF WalkType
  <2>2. v.left \in Nat
    <3>1. v.left \in 0..Attempts  BY <1>2 DEF WalkType
    <3> HIDE DEF v
    <3> QED  BY <3>1, WalkAssumption
  <2>3. published \in Nat /\ Series \in Nat  BY EntryIsTyped, WalkAssumption DEF IInv, Place
  <2> QED  BY <2>1, <2>2, <2>3
<1>6. /\ EntryOf(u).last_url = SaveLastUrl(v.next)
      /\ EntryOf(u).series_length = Larger(Series, v.length)
      /\ u["md5_sum"] = tables["md5_sum"] /\ u["error_entry"] = tables["error_entry"]
  <2>1. Records(tables, u, v)  BY <1>2, ResultIsExact DEF IInv
  <2> HIDE DEF u
  <2> QED  BY <2>1 DEF Records, Series
<1> HIDE DEF u
<1>7. Larger(Series, v.length) = Series
  <2> HIDE DEF v
  <2> QED  BY <1>4, <1>5 DEF Counted, Larger, At
<1>8. Series' = Series /\ LastUrl' = SaveLastUrl(v.next)  BY <1>3, <1>6, <1>7 DEF Series, LastUrl
<1>9. (v.next = Series /\ Series <= published) \/ (~forum /\ v.next = Nowhere)
  <2>1. CASE v.reached
    <3>1. /\ v.next = v.index /\ v.number <= v.index /\ v.index <= published
          /\ v.left > 0
      BY <1>1, <1>4, <2>1 DEF Counted
    <3> HIDE DEF v
    <3>2. Series = Larger(v.number, v.index)  BY <1>4, <1>5, <3>1 DEF Counted, At
    <3> QED  BY <1>5, <3>1, <3>2 DEF Larger
  <2>2. CASE ~v.reached
    <3>1. v.left = 0 /\ Stands(v, v.index) /\ v.number <= v.index + 1
      BY <1>1, <1>4, <2>2 DEF Counted
    <3>2. Series = Larger(v.number, v.index + 1)  BY <1>4, <3>1 DEF Counted, At
    <3> HIDE DEF v
    <3> QED  BY <1>5, <3>1, <3>2 DEF Larger, Stands
  <2> QED  BY <2>1, <2>2
<1>10. LastUrl' \in {WorkUrl, Series} /\ LastUrl' # Nowhere /\ LastUrl' <= published
  <2> HIDE DEF v
  <2> QED  BY <1>5, <1>8, <1>9 DEF SaveLastUrl, WorkUrl, Nowhere
<1>11. TablesNumbered'
  BY <1>3, <1>6, <1>8, <1>10 DEF NumInv, TablesNumbered, RowsNumbered, Errors
<1>12. walk'[FALSE] = NoWalk /\ walk'[TRUE] = walk[TRUE]  BY <1>3 DEF IInv
<1>13. walk[TRUE] # NoWalk => InStep(walk[TRUE])'
  BY <1>3, <1>12 DEF NumInv, WalksNumbered, InStep, Stands
<1> QED  BY <1>8, <1>10, <1>11, <1>12, <1>13 DEF NumInv, WalksNumbered

\* The end of an error job deletes the errors of its number.
LEMMA RecordErrorNumbers ==
  ASSUME IInv, NumInv, RecordError
  PROVE  NumInv'
<1>1. /\ walk' = [walk EXCEPT ![TRUE] = NoWalk] /\ UNCHANGED <<forum, published>>
  BY DEF RecordError
<1>2. /\ EntryOf(tables') = EntryOf(tables) /\ tables'["md5_sum"] = tables["md5_sum"]
      /\ tables'["error_entry"] \subseteq tables["error_entry"]
  <2>1. \/ tables' = tables
        \/ tables' = DB!DeleteErrorEntry(tables, Uuid, walk[TRUE].number).tables
    BY DEF RecordError
  <2>2. Sound(tables)  BY DEF IInv
  <2>3. CASE tables' = tables  BY <2>3
  <2>4. CASE tables' = DB!DeleteErrorEntry(tables, Uuid, walk[TRUE].number).tables
    BY <2>2, <2>4, DeleteIsExact
  <2> QED  BY <2>1, <2>3, <2>4
<1>3. Series' = Series /\ LastUrl' = LastUrl  BY <1>2 DEF Series, LastUrl
<1>4. TablesNumbered'  BY <1>1, <1>2, <1>3 DEF NumInv, TablesNumbered, RowsNumbered, Errors
<1>5. walk'[TRUE] = NoWalk /\ walk'[FALSE] = walk[FALSE]  BY <1>1 DEF IInv
<1>6. walk[FALSE] # NoWalk => InStep(walk[FALSE])' /\ Counted(walk[FALSE], Series)'
  BY <1>1, <1>3, <1>5 DEF NumInv, WalksNumbered, InStep, Stands, Counted
<1> QED  BY <1>3, <1>4, <1>5, <1>6 DEF NumInv, WalksNumbered

\* Edits, new sections and the death of the process.
LEMMA OthersNumber ==
  ASSUME IInv, NumInv, ~derailed',
         Publish \/ (\E p \in Edited : Edit(p)) \/ Die \/ UNCHANGED vars
  PROVE  NumInv'
<1>1. CASE Publish
  <2>1. tables' = tables /\ walk' = walk /\ forum' = forum /\ published' = published + 1
    BY <1>1 DEF Publish
  <2>2. Series' = Series /\ LastUrl' = LastUrl  BY <2>1 DEF Series, LastUrl
  <2>3. published \in Nat /\ Series \in Nat  BY EntryIsTyped, WalkAssumption DEF IInv, Place
  <2>4. TablesNumbered'
    <3>1. LastUrl \in Place \cup {WorkUrl, Nowhere}  BY EntryIsTyped DEF IInv
    <3> QED
      BY <2>1, <2>2, <2>3, <3>1, WalkAssumption
      DEF NumInv, TablesNumbered, Errors, Place, WorkUrl, Nowhere
  <2>5. ASSUME NEW e \in BOOLEAN, walk[e] # NoWalk PROVE InStep(walk[e])'
    <3>1. InStep(walk[e]) /\ walk[e] \in WalkType  BY <2>5 DEF NumInv, WalksNumbered, IInv
    <3>2. walk[e].index \in Nat  BY <3>1 DEF WalkType
    <3> QED  BY <2>1, <2>3, <3>1, <3>2 DEF InStep, Stands
  <2>6. ASSUME walk[FALSE] # NoWalk PROVE Counted(walk[FALSE], Series)'
    <3>1. Counted(walk[FALSE], Series) /\ walk[FALSE] \in WalkType
      BY <2>6 DEF NumInv, WalksNumbered, IInv
    <3>2. walk[FALSE].index \in Nat /\ walk[FALSE].number \in Nat  BY <3>1 DEF WalkType
    <3>3. ASSUME NEW w, w.index \in Nat, w.number \in Nat, Counted(w, Series)
          PROVE  Counted(w, Series)'
      <4>1. w.number \in 1..published' + 1  BY <2>1, <2>3, <3>3 DEF Counted
      <4>2. w.index <= published => w.index <= published'  BY <2>1, <2>3, <3>3
      <4>3. w.index + 1 <= published => w.index + 1 <= published'  BY <2>1, <2>3, <3>3
      <4>4. Stands(w, w.index) => Stands(w, w.index)'  BY <2>1, <2>3, <3>3 DEF Stands
      <4> QED  BY <2>2, <3>3, <4>1, <4>2, <4>3, <4>4 DEF Counted
    <3> QED  BY <2>1, <2>2, <3>1, <3>2, <3>3 DEF Counted, Stands
  <2> QED  BY <2>1, <2>2, <2>4, <2>5, <2>6 DEF NumInv, WalksNumbered
<1>2. CASE (\E p \in Edited : Edit(p)) \/ UNCHANGED vars
  <2>1. UNCHANGED <<forum, tables, published, walk>>  BY <1>2 DEF Edit, vars
  <2>2. TablesNumbered' /\ Series' = Series /\ LastUrl' = LastUrl  BY <2>1, TablesStay
  <2> QED  BY <2>1, <2>2 DEF NumInv, WalksNumbered, InStep, Stands, Counted
<1>3. CASE Die
  <2>1. tables' = tables /\ published' = published /\ \A e \in BOOLEAN : walk'[e] = NoWalk
    BY <1>3 DEF Die
  <2>2. TablesNumbered' /\ Series' = Series /\ LastUrl' = LastUrl  BY <2>1, TablesStay
  <2>3. LastUrl \in {WorkUrl, Series}
    <3>1. Entry.last_url = LastUrl /\ Entry.series_length = Series
      BY EntryIsTyped DEF IInv, LastUrl, Series
    <3> QED  BY <1>3, <3>1 DEF Die
  <2> QED  BY <2>1, <2>2, <2>3 DEF NumInv, WalksNumbered
<1> QED  BY <1>1, <1>2, <1>3

\* A work is created with one section to come and no rows.
LEMMA InitNumInv == Init => NumInv
<1> SUFFICES ASSUME Init PROVE NumInv  OBVIOUS
<1> DEFINE entry == [uuid |-> Uuid, url |-> WorkUrl, last_url |-> WorkUrl, series_length |-> 1]
<1>1. tables = [work_entry |-> {entry}, md5_sum |-> {}, error_entry |-> {}]  BY DEF Init
<1>2. entry.last_url = WorkUrl /\ entry.series_length = 1  OBVIOUS
<1> HIDE DEF entry
<1>3. EntryOf(tables) = entry  BY <1>1 DEF EntryOf
<1>4. Series = 1 /\ LastUrl = WorkUrl  BY <1>2, <1>3 DEF Series, LastUrl
<1>5. TablesNumbered
  BY <1>1, <1>4 DEF TablesNumbered, RowsNumbered, Errors, Init, WorkUrl, Nowhere
<1> QED  BY <1>4, <1>5 DEF Init, NumInv, WalksNumbered

\* Once derailed the history stays so.
LEMMA DerailedStays ==
  ASSUME [Next]_vars, ~derailed'
  PROVE  ~derailed
  BY DEF Next, vars, Publish, Edit, ParseUrls, ParseErrorEntries, Begin, WalkStep, ParseSection,
     PastBound, FailsEarly, Skips, FailsLate, Keeps, Saves, Succeeded, Failed, EndLoop, Record,
     RecordError, Die

\* Every step that does not derail the numbers keeps them.
LEMMA NextNumbers ==
  ASSUME IInv, NumInv, [Next]_vars, ~derailed'
  PROVE  NumInv'
<1>1. ASSUME NEW e \in BOOLEAN, WalkStep(e) PROVE NumInv'
  BY <1>1, ParseSectionNumbers, SucceededNumbers, FailedNumbers, EndLoopNumbers DEF WalkStep
<1> QED
  BY <1>1, ParseUrlsNumbers, ParseErrorEntriesNumbers, RecordNumbers, RecordErrorNumbers,
     OthersNumber
  DEF Next

----------------------------------------------------------------------------
(* The invariant of what is stored.                                         *)

\* A section is stored, or an error entry asks for it.
Covered(p) == HasRow(tables, p) \/ \E r \in Errors : r.progress_num = p

\* How far the normal walk has come.
Done(w) == IF w.at = "report" /\ ~w.has_error THEN w.index + 1 ELSE w.index

CoverInv ==
    /\ \A p \in 1..Series - 1 : Covered(p)
    /\ walk[FALSE] # NoWalk => \A p \in 1..Done(walk[FALSE]) : Covered(p)

\* A section is saved under its own number.
LEMMA SavesItsSection ==
  ASSUME IInv, NumInv, ~derailed', NEW e \in BOOLEAN, Saves(e)
  PROVE  /\ walk[e].next \in Place
         /\ tables' = Adapter!UpsertMd5ByIndexNum(tables, Uuid, walk[e].next - 1,
                                                  Section(walk[e].next), 0).tables
<1> DEFINE v == walk[e]
<1>1. v.next = v.index + 1  BY ParseSectionNumbers DEF ParseSection
<1>2. v.at = "parse"  BY DEF Saves, AtSection, Parsing
<1>3. v.index \in Nat  BY <1>2, UnderWay DEF WalkType
<1>4. v.next \in 1..published  BY DEF Saves, AtSection
<1>5. v.next \in Place /\ v.next - 1 = v.index
  <2>1. published \in Nat /\ published <= MaxSections  BY WalkAssumption DEF IInv, Place
  <2>2. v.next \in Nat \ {0} /\ v.next <= published  BY <1>4, <2>1
  <2> HIDE DEF v
  <2> QED  BY <1>1, <1>3, <2>1, <2>2, WalkAssumption DEF Place
<1> QED  BY <1>5 DEF Saves

\* Nothing takes a row away: a section that is saved takes its own, and the
\* other steps write none.
LEMMA RowsAreKept ==
  ASSUME IInv, NumInv, [Next]_vars, ~derailed'
  PROVE  \A p \in Place : HasRow(tables, p) => HasRow(tables', p)
<1>1. ASSUME NEW e \in BOOLEAN, Saves(e)
      PROVE  \A p \in Place : HasRow(tables, p) => HasRow(tables', p)
  <2> DEFINE u == Adapter!UpsertMd5ByIndexNum(tables, Uuid, walk[e].next - 1,
                                             Section(walk[e].next), 0).tables
  <2>1. walk[e].next \in Place /\ tables' = u  BY <1>1, SavesItsSection
  <2>2. \A q \in Place : HasRow(tables, q) => HasRow(u, q)
    BY <2>1, UpsertKeepsNumbers DEF IInv, NumInv, TablesNumbered
  <2> HIDE DEF u
  <2> QED  BY <2>1, <2>2
<1>2. ASSUME tables'["md5_sum"] = tables["md5_sum"]
      PROVE  \A p \in Place : HasRow(tables, p) => HasRow(tables', p)
  BY <1>2 DEF HasRow
<1>3. ASSUME NEW e \in BOOLEAN, Succeeded(e) \/ Failed(e)
      PROVE  tables'["md5_sum"] = tables["md5_sum"]
  BY <1>3, WhatAReportWrites DEF Reports
<1>4. ASSUME Record PROVE tables'["md5_sum"] = tables["md5_sum"]
  <2>1. walk[FALSE] \in WalkType  BY <1>4, UnderWay DEF Record
  <2>2. UpdateDatabaseWithResult(walk[FALSE])["md5_sum"] = tables["md5_sum"]
    BY <2>1, ResultIsExact DEF IInv, Records
  <2> QED  BY <1>4, <2>2 DEF Record
<1>5. ASSUME RecordError PROVE tables'["md5_sum"] = tables["md5_sum"]
  <2>1. Sound(tables)  BY DEF IInv
  <2>2. DB!DeleteErrorEntry(tables, Uuid, walk[TRUE].number).tables["md5_sum"]
        = tables["md5_sum"]
    BY <2>1, DeleteIsExact
  <2> QED  BY <1>5, <2>2 DEF RecordError
<1>6. ASSUME NEW e \in BOOLEAN, WalkStep(e), ~Saves(e)
      PROVE  tables'["md5_sum"] = tables["md5_sum"]
  <2>1. CASE ParseSection(e) \/ EndLoop(e)
    BY <1>6, <2>1 DEF ParseSection, PastBound, FailsEarly, Skips, FailsLate, Keeps, EndLoop
  <2> QED  BY <1>3, <1>6, <2>1 DEF WalkStep
<1>7. ASSUME \/ Publish \/ (\E p \in Edited : Edit(p)) \/ ParseUrls \/ ParseErrorEntries
             \/ Die \/ UNCHANGED vars
      PROVE  tables'["md5_sum"] = tables["md5_sum"]
  BY <1>7 DEF Publish, Edit, ParseUrls, ParseErrorEntries, Begin, Die, vars
<1> QED  BY <1>1, <1>2, <1>4, <1>5, <1>6, <1>7 DEF Next

\* Nothing takes an error away but the end of an error job.
LEMMA ErrorsAreKept ==
  ASSUME IInv, NumInv, [Next]_vars, ~derailed', ~RecordError
  PROVE  Errors \subseteq Errors'
<1>1. ASSUME NEW e \in BOOLEAN, Saves(e) PROVE Errors' = Errors
  <2> DEFINE u == Adapter!UpsertMd5ByIndexNum(tables, Uuid, walk[e].next - 1,
                                             Section(walk[e].next), 0).tables
  <2>1. walk[e].next \in Place /\ tables' = u  BY <1>1, SavesItsSection
  <2>2. u["error_entry"] = tables["error_entry"]
    BY <2>1, UpsertKeepsNumbers DEF IInv, NumInv, TablesNumbered
  <2> HIDE DEF u
  <2> QED  BY <2>1, <2>2 DEF Errors
<1>2. ASSUME NEW e \in BOOLEAN, Succeeded(e) \/ Failed(e) PROVE Errors \subseteq Errors'
  BY <1>2, WhatAReportWrites DEF Reports, Errors
<1>3. ASSUME Record PROVE Errors' = Errors
  <2>1. walk[FALSE] \in WalkType  BY <1>3, UnderWay DEF Record
  <2>2. UpdateDatabaseWithResult(walk[FALSE])["error_entry"] = tables["error_entry"]
    BY <2>1, ResultIsExact DEF IInv, Records
  <2> QED  BY <1>3, <2>2 DEF Record, Errors
<1>4. ASSUME NEW e \in BOOLEAN, WalkStep(e) PROVE Errors \subseteq Errors'
  <2>1. CASE ~Saves(e) /\ (ParseSection(e) \/ EndLoop(e))
    BY <2>1 DEF ParseSection, PastBound, FailsEarly, Skips, FailsLate, Keeps, EndLoop, Errors
  <2> QED  BY <1>1, <1>2, <1>4, <2>1 DEF WalkStep
<1>5. ASSUME \/ Publish \/ (\E p \in Edited : Edit(p)) \/ ParseUrls \/ ParseErrorEntries
             \/ Die \/ UNCHANGED vars
      PROVE  Errors' = Errors
  BY <1>5 DEF Publish, Edit, ParseUrls, ParseErrorEntries, Begin, Die, vars, Errors
<1> QED  BY <1>3, <1>4, <1>5 DEF Next

\* So a section that is covered stays covered, until forgotten says otherwise.
LEMMA CoveredStays ==
  ASSUME IInv, NumInv, [Next]_vars, ~derailed', ~forgotten', NEW p, Covered(p)
  PROVE  Covered(p)'
<1>1. HasRow(tables, p) => HasRow(tables', p)
  <2> SUFFICES ASSUME HasRow(tables, p) PROVE HasRow(tables', p)  OBVIOUS
  <2>1. p \in Place  BY DEF HasRow, IInv, Sound, TablesType, RowType
  <2> QED  BY <2>1, RowsAreKept
<1>2. CASE RecordError
  <2> DEFINE number == walk[TRUE].number
  <2>1. HasRow(tables, number)  BY <1>2 DEF RecordError
  <2>2. Sound(tables)  BY DEF IInv
  <2>3. \A r \in Errors : r \in Errors' \/ r.progress_num = number
    <3>1. CASE tables' = tables  BY <3>1 DEF Errors
    <3>2. CASE tables' = DB!DeleteErrorEntry(tables, Uuid, number).tables
      BY <2>2, <3>2, DeleteIsExact DEF Errors
    <3> QED  BY <1>2, <3>1, <3>2 DEF RecordError
  <2> HIDE DEF number
  <2> QED  BY <1>1, <2>1, <2>3 DEF Covered
<1>3. CASE ~RecordError
  <2>1. Errors \subseteq Errors'  BY <1>3, ErrorsAreKept
  <2> QED  BY <1>1, <2>1 DEF Covered
<1> QED  BY <1>2, <1>3

\* It is enough to look at the sections a step counts anew.
LEMMA CoverGrows ==
  ASSUME IInv, NumInv, CoverInv, [Next]_vars, ~derailed', ~forgotten',
         \A p \in 1..Series' - 1 : Covered(p) \/ Covered(p)',
         walk'[FALSE] # NoWalk => \A p \in 1..Done(walk'[FALSE]) : Covered(p) \/ Covered(p)'
  PROVE  CoverInv'
<1>1. \A p : Covered(p) => Covered(p)'  BY CoveredStays
<1> QED  BY <1>1 DEF CoverInv, Done

\* Such are none of a step that counts no more than before.
LEMMA CoverStays ==
  ASSUME IInv, NumInv, CoverInv, [Next]_vars, ~derailed', ~forgotten', Series' = Series,
         \/ walk'[FALSE] = NoWalk
         \/ walk[FALSE] # NoWalk /\ Done(walk'[FALSE]) = Done(walk[FALSE])
  PROVE  CoverInv'
<1>1. \A p \in 1..Series' - 1 : Covered(p)  BY DEF CoverInv
<1>2. walk'[FALSE] # NoWalk => \A p \in 1..Done(walk'[FALSE]) : Covered(p)  BY DEF CoverInv
<1> QED  BY <1>1, <1>2, CoverGrows

\* A walk begins with nothing done but what was counted before.
LEMMA BeginCovers ==
  ASSUME IInv, NumInv, CoverInv, [Next]_vars, ~derailed', ~forgotten',
         ParseUrls \/ ParseErrorEntries
  PROVE  CoverInv'
<1>1. Series' = Series  BY DEF ParseUrls, ParseErrorEntries, Begin, Series
<1>2. CASE ParseUrls
  <2> DEFINE first == PreParseLoop(Entry.last_url, Entry.series_length)
             bounds == CalculateIndexBounds(Entry.series_length, 0)
             w == [at |-> "parse", next |-> first.next, index |-> first.index,
                   start |-> bounds.start, end |-> bounds.end, left |-> Attempts,
                   reached |-> FALSE, has_error |-> FALSE, length |-> 1,
                   number |-> Entry.series_length]
  <2>1. walk' = [walk EXCEPT ![FALSE] = w]  BY <1>2 DEF ParseUrls, Begin
  <2>2. w.at = "parse" /\ w.index = first.index  OBVIOUS
  <2>3. Entry.series_length = Series /\ Series \in Nat  BY EntryIsTyped DEF IInv, Series
  <2>4. first.index = 0 \/ first.index = Series - 1  BY <2>3 DEF PreParseLoop
  <2> HIDE DEF w, first
  <2>5. Done(w) = first.index  BY <2>2 DEF Done
  <2>6. walk'[FALSE] = w  BY <2>1 DEF IInv
  <2>7. \A p \in 1..Done(w) : Covered(p)  BY <2>3, <2>4, <2>5 DEF CoverInv
  <2>8. \A p \in 1..Series' - 1 : Covered(p)  BY <1>1 DEF CoverInv
  <2> QED  BY <2>6, <2>7, <2>8, CoverGrows
<1>3. CASE ParseErrorEntries
  <2>1. walk'[FALSE] = walk[FALSE]  BY <1>3 DEF ParseErrorEntries, Begin, IInv
  <2> QED  BY <1>1, <2>1, CoverStays
<1> QED  BY <1>2, <1>3

\* A section of the normal walk that is skipped was counted before, one that is
\* kept or saved has a row.
LEMMA ParseSectionCovers ==
  ASSUME IInv, NumInv, CoverInv, [Next]_vars, ~derailed', ~forgotten', ParseSection(FALSE)
  PROVE  CoverInv'
<1> DEFINE v == walk[FALSE]
<1>1. v.at = "parse"
  BY DEF ParseSection, PastBound, FailsEarly, Skips, FailsLate, Keeps, Saves, AtSection, Parsing
<1>2. v \in WalkType /\ v # NoWalk  BY <1>1, UnderWay
<1>3. Counted(v, Series)  BY <1>2 DEF NumInv, WalksNumbered
<1>4. /\ Series \in Nat /\ v.index \in Nat /\ v.number \in Nat
      /\ published \in Nat /\ published <= MaxSections
  <2>1. v.index \in Nat /\ v.number \in Nat  BY <1>2 DEF WalkType
  <2>2. Series \in Nat  BY EntryIsTyped DEF IInv
  <2>3. published \in Nat /\ published <= MaxSections  BY WalkAssumption DEF IInv, Place
  <2> QED  BY <2>1, <2>2, <2>3
<1>5. Done(v) = v.index  BY <1>1 DEF Done
<1>6. \A p \in 1..v.index : Covered(p)  BY <1>2, <1>5 DEF CoverInv
<1>7. CASE FailsEarly(FALSE)
  <2> DEFINE w == Reporting(v, TRUE)
  <2>1. walk' = [walk EXCEPT ![FALSE] = w] /\ tables' = tables  BY <1>7 DEF FailsEarly
  <2>2. w = [v EXCEPT !.at = "report", !.has_error = TRUE]  BY DEF Reporting
  <2> HIDE DEF w
  <2>3. w.has_error = TRUE /\ w.index = v.index  BY <1>2, <2>2 DEF WalkType
  <2>4. Done(w) = Done(v)  BY <1>5, <2>3 DEF Done
  <2>5. walk'[FALSE] = w /\ Series' = Series  BY <2>1 DEF IInv, Series
  <2> QED  BY <1>2, <2>4, <2>5, CoverStays
<1>8. CASE Skips(FALSE) \/ Keeps(FALSE) \/ Saves(FALSE)
  <2>1. v.next = v.index + 1  BY <1>8, ParseSectionNumbers
  <2>2. PICK link : walk' = [walk EXCEPT ![FALSE] = Reporting(Moved(v, link), FALSE)]
    BY <1>8 DEF Skips, Keeps, Saves
  <2> DEFINE w == Reporting(Moved(v, link), FALSE)
  <2>3. w = [v EXCEPT !.next = link.next, !.reached = link.reached, !.at = "report",
                      !.has_error = FALSE]
    BY <1>2 DEF Reporting, Moved, WalkType
  <2>4. walk'[FALSE] = w  BY <2>2 DEF IInv
  <2> HIDE DEF w
  <2>5. w.at = "report" /\ w.has_error = FALSE /\ w.index = v.index
    BY <1>2, <2>3 DEF WalkType
  <2>6. Done(w) = v.next  BY <2>1, <2>5 DEF Done
  <2>7. v.next \in Place
    <3>1. v.next \in 1..published  BY <1>8 DEF Skips, Keeps, Saves, AtSection
    <3> HIDE DEF v
    <3>2. v.next \in Nat \ {0} /\ v.next <= published  BY <1>4, <3>1
    <3> QED  BY <1>4, <3>2, WalkAssumption DEF Place
  <2>8. Series' = Series
    <3>1. CASE tables' = tables  BY <3>1 DEF Series
    <3>2. CASE Saves(FALSE)
      <4> DEFINE u == Adapter!UpsertMd5ByIndexNum(tables, Uuid, v.next - 1,
                                                 Section(v.next), 0).tables
      <4>1. tables' = u  BY <3>2, SavesItsSection
      <4>2. EntryOf(u) = EntryOf(tables)
        BY <2>7, UpsertKeepsNumbers DEF IInv, NumInv, TablesNumbered
      <4> HIDE DEF u
      <4> QED  BY <4>1, <4>2 DEF Series
    <3> QED  BY <1>8, <3>1, <3>2 DEF Skips, Keeps
  <2>9. ASSUME NEW n, n = v.next PROVE Covered(n) \/ Covered(n)'
    <3>1. CASE Skips(FALSE)
      <4>1. v.index < v.start /\ v.start = v.number - 1
        BY <1>3, <3>1 DEF Skips, Counted
      <4>2. v.number <= Series
        <5>1. Series = Larger(v.number, At(v))  BY <1>3 DEF Counted
        <5> HIDE DEF v
        <5>2. At(v) \in Nat  BY <1>4 DEF At
        <5> QED  BY <1>4, <5>1, <5>2 DEF Larger
      <4>3. v.next \in 1..Series - 1
        <5> HIDE DEF v
        <5> QED  BY <1>4, <2>1, <4>1, <4>2
      <4> QED  BY <2>9, <4>3 DEF CoverInv
    <3>2. CASE Keeps(FALSE)
      <4>1. HasRow(tables, v.next)  BY <2>7, <3>2, StoredHasRow DEF Keeps, IInv
      <4> QED  BY <2>9, <4>1 DEF Covered
    <3>3. CASE Saves(FALSE)
      <4> DEFINE u == Adapter!UpsertMd5ByIndexNum(tables, Uuid, v.next - 1,
                                                 Section(v.next), 0).tables
      <4>1. tables' = u  BY <3>3, SavesItsSection
      <4>2. HasRow(u, v.next)
        BY <2>7, UpsertKeepsNumbers DEF IInv, NumInv, TablesNumbered
      <4> HIDE DEF u
      <4>3. HasRow(tables', n)  BY <2>9, <4>1, <4>2
      <4> QED  BY <4>3 DEF Covered, HasRow
    <3> QED  BY <1>8, <3>1, <3>2, <3>3
  <2>10. \A p \in 1..Done(w) : Covered(p) \/ Covered(p)'
    <3> SUFFICES ASSUME NEW p \in 1..Done(w) PROVE Covered(p) \/ Covered(p)'  OBVIOUS
    <3>1. p \in 1..v.index \/ p = v.next
      <4> HIDE DEF v
      <4> QED  BY <1>4, <2>1, <2>6
    <3> QED  BY <1>6, <2>9, <3>1
  <2>11. \A p \in 1..Series' - 1 : Covered(p)  BY <2>8 DEF CoverInv
  <2> QED  BY <2>4, <2>10, <2>11, CoverGrows
<1>9. ~PastBound(FALSE) /\ ~FailsLate(FALSE)  BY ParseSectionNumbers DEF FailsLate
<1> QED  BY <1>7, <1>8, <1>9 DEF ParseSection

\* A report of the normal walk counts the section that it has come to.
LEMMA ReportCovers ==
  ASSUME IInv, NumInv, CoverInv, [Next]_vars, ~derailed', ~forgotten',
         Succeeded(FALSE) \/ Failed(FALSE)
  PROVE  CoverInv'
<1> DEFINE v == walk[FALSE]
<1>1. v.at = "report"  BY DEF Succeeded, Failed
<1>2. v \in WalkType /\ v # NoWalk  BY <1>1, UnderWay
<1>3. v.index \in Nat  BY <1>2 DEF WalkType
<1>4. Series \in Nat /\ Sound(tables)  BY EntryIsTyped DEF IInv
<1>5. PICK n : n = v.index + 1  OBVIOUS
<1>6. n \in Nat \ {0}
  <2> HIDE DEF v
  <2> QED  BY <1>3, <1>5
<1>7. Series' \in {Series, Larger(Series, n)}
  <2>1. \/ tables' = tables
        \/ \E error \in BOOLEAN : Reports(tables, tables', n, error)
    BY <1>5, WhatAReportWrites
  <2> QED  BY <2>1 DEF Reports, Series
<1>8. \A p \in 1..Done(v) : Covered(p)  BY <1>2 DEF CoverInv
<1>9. v.index <= Done(v)
  <2> HIDE DEF v
  <2> QED  BY <1>3 DEF Done
<1>10. \A p \in 1..Series' - 1 : Covered(p)
  <2> SUFFICES ASSUME NEW p \in 1..Series' - 1 PROVE Covered(p)  OBVIOUS
  <2>1. p \in 1..Series - 1 \/ p \in 1..n - 1
    BY <1>4, <1>6, <1>7 DEF Larger
  <2>2. p \in 1..n - 1 => p \in 1..Done(v)
    <3>1. Done(v) \in Nat
      <4> HIDE DEF v
      <4> QED  BY <1>3 DEF Done
    <3> HIDE DEF v
    <3> QED  BY <1>3, <1>5, <1>6, <1>9, <3>1
  <2> QED  BY <1>8, <2>1, <2>2 DEF CoverInv
<1>11. Done(walk'[FALSE]) = Done(v)
  <2>1. CASE Succeeded(FALSE)
    <3> DEFINE w == [v EXCEPT !.at = "parse", !.length = n, !.left = Attempts, !.index = n]
    <3>1. walk'[FALSE] = w /\ ~v.has_error  BY <1>5, <2>1 DEF Succeeded, IInv
    <3>2. w.at = "parse" /\ w.index = n  BY <1>2 DEF WalkType
    <3> HIDE DEF w
    <3>3. Done(w) = n  BY <3>2 DEF Done
    <3>4. Done(v) = n  BY <1>1, <1>5, <3>1 DEF Done
    <3> QED  BY <3>1, <3>3, <3>4
  <2>2. CASE Failed(FALSE)
    <3>1. PICK m : m = v.left - 1  OBVIOUS
    <3> DEFINE w == [v EXCEPT !.at = "parse", !.left = m]
    <3>2. walk'[FALSE] = w /\ v.has_error  BY <2>2, <3>1 DEF Failed, IInv
    <3>3. w.at = "parse" /\ w.index = v.index  BY <1>2 DEF WalkType
    <3> HIDE DEF w
    <3>4. Done(w) = v.index  BY <3>3 DEF Done
    <3>5. Done(v) = v.index  BY <1>1, <3>2 DEF Done
    <3> QED  BY <3>2, <3>4, <3>5
  <2> QED  BY <2>1, <2>2
<1>12. \A p \in 1..Done(walk'[FALSE]) : Covered(p)  BY <1>8, <1>11
<1> QED  BY <1>10, <1>12, CoverGrows

\* The end of a walk and its result count nothing new.
LEMMA ResultCovers ==
  ASSUME IInv, NumInv, CoverInv, [Next]_vars, ~derailed', ~forgotten',
         EndLoop(FALSE) \/ Record
  PROVE  CoverInv'
<1> DEFINE v == walk[FALSE]
<1>1. CASE EndLoop(FALSE)
  <2>1. v.at = "parse"  BY <1>1 DEF EndLoop
  <2>2. v \in WalkType /\ v # NoWalk  BY <2>1, UnderWay
  <2> DEFINE w == [v EXCEPT !.at = "result"]
  <2>3. walk'[FALSE] = w /\ Series' = Series  BY <1>1 DEF EndLoop, IInv, Series
  <2>4. w.at = "result" /\ w.index = v.index  BY <2>2 DEF WalkType
  <2> HIDE DEF w
  <2>5. Done(w) = Done(v)  BY <2>1, <2>4 DEF Done
  <2> QED  BY <2>2, <2>3, <2>5, CoverStays
<1>2. CASE Record
  <2>1. v.at = "result"  BY <1>2 DEF Record
  <2>2. v \in WalkType /\ v # NoWalk  BY <2>1, UnderWay
  <2>3. walk'[FALSE] = NoWalk /\ tables' = UpdateDatabaseWithResult(v)
    BY <1>2 DEF Record, IInv
  <2>4. Series' = Larger(Series, v.length)  BY <2>2, <2>3, ResultIsExact DEF IInv, Records, Series
  <2>5. Counted(v, Series)  BY <2>2 DEF NumInv, WalksNumbered
  <2>6. v.index \in Nat /\ v.length \in Nat /\ v.number \in Nat  BY <2>2 DEF WalkType
  <2>7. Series \in Nat /\ (v.length <= Series \/ v.length = 1)
    <3>1. Series \in Nat  BY EntryIsTyped DEF IInv
    <3> HIDE DEF v
    <3> QED  BY <2>5, <2>6, <3>1 DEF Counted, Larger, At
  <2>8. Series' = Series
    <3>1. Series \in Nat \ {0}  BY EntryIsTyped DEF IInv
    <3> HIDE DEF v
    <3> QED  BY <2>4, <2>6, <2>7, <3>1 DEF Larger
  <2> QED  BY <2>3, <2>8, CoverStays
<1> QED  BY <1>1, <1>2

\* An error job that does not derail the numbers raises none.
LEMMA ErrorWalkCovers ==
  ASSUME IInv, NumInv, CoverInv, [Next]_vars, ~derailed', ~forgotten',
         WalkStep(TRUE) \/ RecordError
  PROVE  CoverInv'
<1>1. walk'[FALSE] = walk[FALSE]
  BY DEF WalkStep, ParseSection, PastBound, FailsEarly, Skips, FailsLate, Keeps, Saves, Succeeded,
     Failed, EndLoop, RecordError, IInv
<1>2. Series' = Series
  <2>1. CASE Succeeded(TRUE) \/ Failed(TRUE)
    <3>1. tables'["work_entry"] = tables["work_entry"]
      BY <2>1 DEF Succeeded, Failed, RaisedByError, Entries
    <3> QED  BY <3>1 DEF Series, EntryOf
  <2>2. CASE Saves(TRUE)
    <3> DEFINE u == Adapter!UpsertMd5ByIndexNum(tables, Uuid, walk[TRUE].next - 1,
                                               Section(walk[TRUE].next), 0).tables
    <3>1. walk[TRUE].next \in Place /\ tables' = u  BY <2>2, SavesItsSection
    <3>2. EntryOf(u) = EntryOf(tables)
      BY <3>1, UpsertKeepsNumbers DEF IInv, NumInv, TablesNumbered
    <3> HIDE DEF u
    <3> QED  BY <3>1, <3>2 DEF Series
  <2>3. CASE RecordError
    <3>1. Sound(tables)  BY DEF IInv
    <3>2. EntryOf(DB!DeleteErrorEntry(tables, Uuid, walk[TRUE].number).tables) = EntryOf(tables)
      BY <3>1, DeleteIsExact
    <3> QED  BY <2>3, <3>2 DEF RecordError, Series
  <2>4. CASE tables' = tables  BY <2>4 DEF Series
  <2> QED  BY <2>1, <2>2, <2>3, <2>4 DEF WalkStep, ParseSection, PastBound, FailsEarly, Skips,
     FailsLate, Keeps, EndLoop
<1> QED  BY <1>1, <1>2, CoverStays

\* Every step that forgets nothing keeps what is covered.
LEMMA NextCovers ==
  ASSUME IInv, NumInv, CoverInv, [Next]_vars, ~derailed', ~forgotten'
  PROVE  CoverInv'
<1>1. ASSUME NEW e \in BOOLEAN, WalkStep(e) PROVE CoverInv'
  <2>1. CASE e = TRUE  BY <1>1, <2>1, ErrorWalkCovers
  <2>2. CASE e = FALSE
    BY <1>1, <2>2, ParseSectionCovers, ReportCovers, ResultCovers DEF WalkStep
  <2> QED  BY <2>1, <2>2
<1>2. CASE Publish \/ (\E p \in Edited : Edit(p)) \/ UNCHANGED vars
  <2>1. tables' = tables /\ walk' = walk  BY <1>2 DEF Publish, Edit, vars
  <2>2. Series' = Series  BY <2>1 DEF Series
  <2> QED  BY <2>1, <2>2, CoverStays
<1>3. CASE Die
  <2>1. walk'[FALSE] = NoWalk /\ Series' = Series  BY <1>3 DEF Die, Series
  <2> QED  BY <2>1, CoverStays
<1> QED  BY <1>1, <1>2, <1>3, BeginCovers, ResultCovers, ErrorWalkCovers DEF Next

\* Once an error is forgotten the history stays so.
LEMMA ForgottenStays ==
  ASSUME [Next]_vars, ~forgotten'
  PROVE  ~forgotten
  BY DEF Next, vars, Publish, Edit, ParseUrls, ParseErrorEntries, Begin, WalkStep, ParseSection,
     PastBound, FailsEarly, Skips, FailsLate, Keeps, Saves, Succeeded, Failed, EndLoop, Record,
     RecordError, Die

\* At first nothing is counted.
LEMMA InitCoverInv == Init => CoverInv
<1> SUFFICES ASSUME Init PROVE CoverInv  OBVIOUS
<1>1. Series = 1
  <2> DEFINE entry == [uuid |-> Uuid, url |-> WorkUrl, last_url |-> WorkUrl, series_length |-> 1]
  <2>1. tables["work_entry"] = {entry} /\ entry.series_length = 1  BY DEF Init
  <2> HIDE DEF entry
  <2> QED  BY <2>1 DEF Series, EntryOf
<1> QED  BY <1>1 DEF CoverInv, Init

----------------------------------------------------------------------------
(* The theorems.                                                            *)

\* The numbers of a walk, of the rows and of the columns a walk continues from
\* fit each other until an event that derailed names.
THEOREM NumbersInvariant == Spec => [](~derailed => NumInv)
<1>1. Init => (~derailed => NumInv)  BY InitNumInv
<1>2. IInv /\ (~derailed => NumInv) /\ [Next]_vars => (~derailed => NumInv)'
  BY DerailedStays, NextNumbers
<1> QED  BY WalkInvariant, <1>1, <1>2, PTL DEF Spec

\* A row of the p-th section has the index p - 1 and is its only one, and
\* between jobs last_url and series_length (BlackLibrary.cc:145 and :467) name
\* the same section.
THEOREM SectionsKeepNumbers == Spec => []Numbered
<1>1. ASSUME IInv, ~derailed => NumInv PROVE Numbered
  <2>1. Entry.last_url = LastUrl /\ Entry.series_length = Series
    BY <1>1, EntryIsTyped DEF IInv, LastUrl, Series
  <2>2. walk[FALSE].at = "none" => walk[FALSE] = NoWalk  BY <1>1 DEF IInv, WalkType
  <2> QED  BY <1>1, <2>1, <2>2 DEF Numbered, NumInv, TablesNumbered, WalksNumbered, RowsNumbered, Rows
<1> QED  BY WalkInvariant, NumbersInvariant, <1>1, PTL

\* A stored section stays stored until an event that derailed names
\* (ParserDbAdapter.cc:151 writes over the row of an index).
THEOREM StoredStays == Spec => RowsStay
<1>1. IInv /\ (~derailed => NumInv) /\ [Next]_vars =>
        (~derailed' => \A p \in Place : HasRow(tables, p) => HasRow(tables', p))
  BY DerailedStays, RowsAreKept
<1> QED  BY WalkInvariant, NumbersInvariant, <1>1, PTL DEF Spec, RowsStay

\* What series_length counts as parsed is stored, or an error entry asks for
\* it, until an error job that failed again has its entry deleted
\* (BlackLibrary.cc:105).
THEOREM NothingIsForgotten == Spec => []NothingForgotten
<1>1. Init => (~derailed /\ ~forgotten => CoverInv)  BY InitCoverInv
<1>2. /\ IInv /\ (~derailed => NumInv) /\ (~derailed /\ ~forgotten => CoverInv)
      /\ [Next]_vars
      => (~derailed /\ ~forgotten => CoverInv)'
  BY DerailedStays, ForgottenStays, NextCovers
<1>3. Spec => [](~derailed /\ ~forgotten => CoverInv)
  BY WalkInvariant, NumbersInvariant, <1>1, <1>2, PTL DEF Spec
<1>4. ASSUME IInv, ~derailed /\ ~forgotten => CoverInv PROVE NothingForgotten
  <2>1. Entry.series_length = Series  BY <1>4, EntryIsTyped DEF IInv, Series
  <2> QED  BY <1>4, <2>1 DEF NothingForgotten, CoverInv, Covered
<1> QED  BY WalkInvariant, <1>3, <1>4, PTL
=============================================================================
