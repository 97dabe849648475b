-------------------------- MODULE MaintenanceProofs --------------------------
(***************************************************************************)
(* For every set of works, every catalog and every width of an int that    *)
(* holds the places of its rows: the catalog keeps its types and keys, and *)
(* squash, reorder and import do what Maintenance says they do, whatever   *)
(* commands came before and wherever a command dies.                       *)
(***************************************************************************)
EXTENDS Maintenance, SequenceLemmas

----------------------------------------------------------------------------
(* Types.                                                                   *)

Half == IntSpan \div 2
ColumnInt == -Half..Half - 1
Digest == {k[2] : k \in UNION Catalogs} \cup {ToString(n) : n \in Nat}
SecId == Digest \cup {"id"}
Urls == {Url[u] : u \in Uuid}

\* A row of md5_sum, and a row as a call is given it, before the binding.
SumType == [uuid : Uuid, md5_sum : Digest, index_num : ColumnInt, seq_num : ColumnInt, sec_id : SecId]
WideType == [uuid : Uuid, md5_sum : Digest, index_num : Int, seq_num : Int, sec_id : SecId]
EntryType == [uuid : Uuid, url : Urls, last_url : Urls \cup {LastUrl}, series_length : Nat,
              source : {Source[u] : u \in Uuid}, update_date : {1}, processing : BOOLEAN]

EntryOps == {"UpdateWorkEntry", "ImportEntry", "SkipLine", "Throw", "ReorderWork"}
SumOps == {"ImportChecksum", "DeleteMd5Sum", "CreateMd5Sum", "UpdateMd5SumBySeqNum",
           "UpdateMd5SumByIndexNum"}
OnFail == {"go on", "break", "return"}
EntryCalls == [op : EntryOps, row : EntryType, onfail : OnFail]
SumCalls == [op : SumOps, row : WideType, onfail : OnFail]
DeleteCalls == [op : {"DeleteWorkEntry"}, row : [uuid : Uuid], onfail : OnFail]
CallType == EntryCalls \cup SumCalls \cup DeleteCalls

\* The primary keys.
KeyOf(r) == <<r.uuid, r.md5_sum>>
OneRowEach(R) == \A r, q \in R : r.uuid = q.uuid /\ r.md5_sum = q.md5_sum => r = q
OneEntryEach(E) == \A e, f \in E : e.uuid = f.uuid => e = f
OnceEach(s) == \A i, j \in DOMAIN s : s[i].uuid = s[j].uuid => i = j

TablesOK(t) ==
    /\ t = [name \in {"work_entry", "md5_sum"} |-> t[name]]
    /\ t["work_entry"] \subseteq EntryType /\ OneEntryEach(t["work_entry"])
    /\ t["md5_sum"] \subseteq SumType /\ OneRowEach(t["md5_sum"])

FilesOK ==
    /\ exported = [entries |-> exported.entries, checksums |-> exported.checksums]
    /\ exported.entries # NoFile =>
         exported.entries \in Seq(EntryType) /\ OnceEach(exported.entries)
    /\ exported.checksums # NoFile => exported.checksums \in Seq(SumType)

TypeInv ==
    /\ TablesOK(tables) /\ TablesOK(before) /\ FilesOK
    /\ command = [name |-> command.name, works |-> command.works]
    /\ todo \in Seq(CallType) /\ failed \in BOOLEAN
    /\ command = NoCommand => todo = << >>

----------------------------------------------------------------------------
(* How many rows there can be: those of the first catalog, and one for each *)
(* row of the file an import misreads.                                      *)

CatalogKeys(C) == {<<k[1], k[2]>> : k \in C}
MisreadKey(r) == <<r.uuid, ToString(AsSize(r.index_num))>>
MisreadKeys ==
    IF exported.checksums = NoFile THEN {} ELSE {MisreadKey(r) : r \in ToSet(exported.checksums)}

Known(C) == CatalogKeys(C) \cup MisreadKeys

CountInv ==
    \E C \in Catalogs :
      /\ Keys(Sums) \subseteq Known(C) /\ Keys(before["md5_sum"]) \subseteq Known(C)
      /\ \A i \in DOMAIN todo : todo[i].op \in SumOps => KeyOf(todo[i].row) \in Known(C)
      /\ exported.checksums # NoFile => Len(exported.checksums) <= Cardinality(C)

----------------------------------------------------------------------------
(* Squash.  f is the rest of the calls, t the tables it began with.         *)

IndexNumbers(R) == [r \in R |-> IndexNumOf(r)]
Moved(t, r) == [r EXCEPT !.index_num = Rank(IndexNumbers(SumsOf(t, r.uuid)), r)]
Moves(t, r) == Gap(t, r.uuid) /\ Moved(t, r) # r
Target(t, r) == IF Gap(t, r.uuid) THEN Moved(t, r) ELSE r
DeleteOf(r) == Call("DeleteMd5Sum", r, "return")
CreateOf(t, r) == Call("CreateMd5Sum", Moved(t, r), "return")
Pending(f, r) == \E i \in DOMAIN f : f[i] = DeleteOf(r)
Absent(t, f, r) == f # << >> /\ f[1] = CreateOf(t, r)
Earlier(r, q) == r # q /\ (r.uuid = q.uuid => IndexNumOf(r) < IndexNumOf(q))

\* Rows are deleted and created in pairs, in the order of their indexes; a row
\* waits as long as one of its work with a smaller index does.
Paired(t, f) ==
    \A i \in DOMAIN f : \E r \in t["md5_sum"] :
      /\ Moves(t, r)
      /\ \/ f[i] = DeleteOf(r) /\ i + 1 \in DOMAIN f /\ f[i + 1] = CreateOf(t, r)
         \/ f[i] = CreateOf(t, r) /\ (i = 1 \/ f[i - 1] = DeleteOf(r))
InOrder(t, f) ==
    \A i, j \in DOMAIN f : \A r, q \in t["md5_sum"] :
      i < j /\ f[i] = DeleteOf(r) /\ f[j] = DeleteOf(q) => Earlier(r, q)
Waiting(t, f) ==
    \A r, q \in t["md5_sum"] :
      Pending(f, r) /\ Moves(t, q) /\ r.uuid = q.uuid /\ IndexNumOf(r) < IndexNumOf(q)
        => Pending(f, q)

SquashPlan(t, f) ==
    /\ Paired(t, f) /\ InOrder(t, f) /\ Waiting(t, f)
    /\ \A r \in t["md5_sum"] : Absent(t, f, r) => ~Pending(f, r)

\* What the tables hold meanwhile.
SquashRows(t, f) ==
    {IF Pending(f, r) THEN r ELSE Target(t, r) : r \in {q \in t["md5_sum"] : ~Absent(t, f, q)}}

AllDistinct(t) == \A u \in Uuid : Distinct(SumsOf(t, u), IndexNumOf)

SquashInv ==
    command.name = "squash" /\ AllDistinct(before) =>
      ~failed /\ SquashPlan(before, todo) /\ Sums = SquashRows(before, todo)

----------------------------------------------------------------------------
(* Reorder.  The face of a row is all of it but its index.                  *)

Face(r) == [r EXCEPT !.index_num = 0]
Faces(R) == {Face(r) : r \in R}
SeqNumbers(R) == [r \in R |-> SeqNumOf(r)]
SeqPlace(t, r) == Rank(SeqNumbers(Faces(SumsOf(t, r.uuid))), Face(r))
Sorted(t, r) == r.index_num = SeqPlace(t, r)
Awaits(c, r) ==
    \/ c.op = "ReorderWork" /\ c.row.uuid = r.uuid
    \/ c.op = "UpdateMd5SumBySeqNum" /\ Face(c.row) = Face(r)

\* A call changes the index of one row of b, to its place if its work has
\* distinct numbers; a row of such a work is in its place or awaits a call.
ReorderStep(b, c) ==
    \/ c.op = "ReorderWork"
    \/ /\ c.op = "UpdateMd5SumBySeqNum" /\ c.row \in SumType
       /\ Face(c.row) \in Faces(b["md5_sum"])
       /\ Distinct(SumsOf(b, c.row.uuid), SeqNumOf) => Sorted(b, c.row)
SortedSoon(b, works, f, r) ==
    r.uuid \in works /\ Distinct(SumsOf(b, r.uuid), SeqNumOf) =>
      Sorted(b, r) \/ \E i \in DOMAIN f : Awaits(f[i], r)

ReorderInv ==
    command.name = "reorder" =>
      /\ Faces(Sums) = Faces(before["md5_sum"])
      /\ \A i \in DOMAIN todo : ReorderStep(before, todo[i])
      /\ ~failed => \A r \in Sums : SortedSoon(before, command.works, todo, r)

----------------------------------------------------------------------------
(* Import of the entries.                                                   *)

\* k lines of the file have been read.
Imported(s, k) ==
    /\ todo = [i \in 1..Len(s) - k |-> ImportLine(s[k + i])]
    /\ \A i \in 1..k : Text[s[i].uuid] # "comma"
    /\ Entries = Restored(PlainRows(s, k), before["work_entry"])

ImportInv ==
    command.name = "import" =>
      /\ exported.entries # NoFile /\ ~failed
      /\ \E k \in 0..Len(exported.entries) : Imported(exported.entries, k)

IInv == TypeInv /\ CountInv /\ SquashInv /\ ReorderInv /\ ImportInv

----------------------------------------------------------------------------
(* Numbers and what the columns make of them.                               *)

LEMMA HalfFacts ==
  /\ Half \in Nat /\ IntSpan \in Nat /\ IntSpan = 2 * Half /\ IntSpan > 0
  /\ SizeSpan \in Nat /\ IntSpan <= SizeSpan
  /\ \A n \in ColumnInt : n \in Int /\ -Half <= n /\ n < Half
  /\ \A n \in Int : -Half <= n /\ n < Half => n \in ColumnInt
<1>1. IntSpan \in Nat /\ IntSpan > 0 /\ IntSpan % 2 = 0 /\ SizeSpan \in Nat /\ IntSpan <= SizeSpan
  BY MaintenanceAssumption
<1>2. Half \in Nat /\ IntSpan = 2 * Half  BY <1>1 DEF Half
<1> QED  BY <1>1, <1>2 DEF ColumnInt

\* A number the column holds passes through it; every other becomes one.
LEMMA AsIntFacts ==
  /\ \A n \in ColumnInt : DB!SQLite!AsInt(n) = n
  /\ \A n \in Int : DB!SQLite!AsInt(n) \in ColumnInt
<1>1. /\ Half \in Nat /\ IntSpan \in Nat /\ IntSpan = 2 * Half /\ IntSpan > 0
  BY HalfFacts
<1>2. \A n : DB!SQLite!AsInt(n) = ((n + Half) % IntSpan) - Half
  BY DEF DB!SQLite!AsInt, Half
<1>3. ASSUME NEW n \in ColumnInt PROVE DB!SQLite!AsInt(n) = n
  <2>1. n \in Int /\ 0 <= n + Half /\ n + Half < IntSpan  BY <1>1, HalfFacts
  <2>2. (n + Half) % IntSpan = n + Half  BY <1>1, <2>1
  <2> QED  BY <1>1, <1>2, <2>1, <2>2
<1>4. ASSUME NEW n \in Int PROVE DB!SQLite!AsInt(n) \in ColumnInt
  <2>1. (n + Half) % IntSpan \in 0..(IntSpan - 1)  BY <1>1
  <2> DEFINE m == (n + Half) % IntSpan
  <2>2. m \in Int /\ 0 <= m /\ m < IntSpan  BY <1>1, <2>1
  <2> HIDE DEF m
  <2>3. m - Half \in Int /\ -Half <= m - Half /\ m - Half < Half  BY <1>1, <2>2
  <2>4. m - Half \in ColumnInt  BY <2>3, HalfFacts
  <2> QED  BY <1>2, <2>4 DEF m
<1> QED  BY <1>3, <1>4

\* A column that is read as a size_t is none below the largest int if it is
\* negative, and two columns differ as size_t if they differ.
LEMMA AsSizeFacts ==
  /\ \A n \in ColumnInt : AsSize(n) \in Nat /\ (n >= 0 => AsSize(n) = n)
  /\ \A n \in ColumnInt : AsSize(n) < Half => AsSize(n) = n
  /\ \A n, m \in ColumnInt : AsSize(n) = AsSize(m) => n = m
BY HalfFacts DEF AsSize

\* What the binding leaves of a row.
LEMMA BoundRow ==
  ASSUME NEW md5 \in WideType
  PROVE  LET row == DB!SQLite!Md5Row(md5)
         IN  /\ row \in SumType /\ row.uuid = md5.uuid /\ row.md5_sum = md5.md5_sum
             /\ row.sec_id = md5.sec_id
             /\ row.index_num = DB!SQLite!AsInt(md5.index_num)
             /\ row.seq_num = DB!SQLite!AsInt(md5.seq_num)
             /\ md5 \in SumType => row = md5
<1> DEFINE row == DB!SQLite!Md5Row(md5)
           i == DB!SQLite!AsInt(md5.index_num)
           n == DB!SQLite!AsInt(md5.seq_num)
<1>1. i \in ColumnInt /\ n \in ColumnInt  BY AsIntFacts DEF WideType
<1>2. row = [md5 EXCEPT !.index_num = i, !.seq_num = n]  BY DEF DB!SQLite!Md5Row
<1>3. md5 \in SumType => i = md5.index_num /\ n = md5.seq_num  BY AsIntFacts DEF SumType
<1> HIDE DEF row, i, n
<1>4. /\ row \in SumType /\ row.uuid = md5.uuid /\ row.md5_sum = md5.md5_sum
      /\ row.sec_id = md5.sec_id /\ row.index_num = i /\ row.seq_num = n
  BY <1>1, <1>2 DEF WideType, SumType
<1>5. md5 \in SumType => row = md5  BY <1>2, <1>3 DEF SumType
<1> QED  BY <1>4, <1>5 DEF row, i, n

\* Rows of the table may be given to a call.
LEMMA SumsAreWide == SumType \subseteq WideType
BY HalfFacts DEF SumType, WideType

----------------------------------------------------------------------------
(* What the calls do to sound tables.                                       *)

\* The tables with other rows in one of them.
LEMMA OtherSums ==
  ASSUME NEW t, TablesOK(t), NEW R, R \subseteq SumType, OneRowEach(R)
  PROVE  LET u == [t EXCEPT !["md5_sum"] = R]
         IN  TablesOK(u) /\ u["md5_sum"] = R /\ u["work_entry"] = t["work_entry"]
BY DEF TablesOK

LEMMA OtherEntries ==
  ASSUME NEW t, TablesOK(t), NEW E, E \subseteq EntryType, OneEntryEach(E)
  PROVE  LET u == [t EXCEPT !["work_entry"] = E]
         IN  TablesOK(u) /\ u["work_entry"] = E /\ u["md5_sum"] = t["md5_sum"]
BY DEF TablesOK

\* What the commands read.
LEMMA Reads ==
  ASSUME NEW t
  PROVE  /\ DB!GetChecksumList(t).rows = t["md5_sum"]
         /\ DB!GetWorkEntryList(t).rows = t["work_entry"]
         /\ \A u \in Uuid :
              /\ DB!GetMd5SumsFromUUID(t, u).rows = SumsOf(t, u)
              /\ DB!DoesWorkEntryUUIDExist(t, u).rows = {e \in t["work_entry"] : e.uuid = u}
              /\ DB!ReadWorkEntry(t, u).rows = {e \in t["work_entry"] : e.uuid = u}
         /\ \A u \in Uuid, i \in Int :
              DB!DoesMd5SumExistByIndexNum(t, u, i).rows
                = {r \in t["md5_sum"] : r.uuid = u /\ r.index_num = DB!SQLite!AsInt(i)}
<1>1. DB!GetChecksumList(t).rows = t["md5_sum"] /\ DB!GetWorkEntryList(t).rows = t["work_entry"]
  BY DEF DB!GetChecksumList, DB!GetWorkEntryList, DB!SQLite!ListChecksums,
     DB!SQLite!ListEntries, DB!SQLite!Done
<1>2. ASSUME NEW u \in Uuid
      PROVE  /\ DB!GetMd5SumsFromUUID(t, u).rows = SumsOf(t, u)
             /\ DB!DoesWorkEntryUUIDExist(t, u).rows = {e \in t["work_entry"] : e.uuid = u}
             /\ DB!ReadWorkEntry(t, u).rows = {e \in t["work_entry"] : e.uuid = u}
  <2>1. u # NoUuid  BY MaintenanceAssumption
  <2>2. /\ DB!SQLite!Where(t, "work_entry", [uuid |-> u]) = {e \in t["work_entry"] : e.uuid = u}
        /\ DB!SQLite!Where(t, "md5_sum", [uuid |-> u]) = {e \in t["md5_sum"] : e.uuid = u}
    BY DEF DB!SQLite!Where
  <2> QED
    BY <2>1, <2>2 DEF DB!GetMd5SumsFromUUID, DB!SQLite!GetMd5SumsFromUUID,
       DB!DoesWorkEntryUUIDExist, DB!SQLite!DoesEntryUUIDExist, DB!SQLite!Exists,
       DB!ReadWorkEntry, DB!OrNothing, DB!SQLite!ReadEntry, DB!SQLite!Select,
       DB!SQLite!Done, SumsOf
<1>3. ASSUME NEW u \in Uuid, NEW i \in Int
      PROVE  DB!DoesMd5SumExistByIndexNum(t, u, i).rows
               = {r \in t["md5_sum"] : r.uuid = u /\ r.index_num = DB!SQLite!AsInt(i)}
  <2> DEFINE n == DB!SQLite!AsInt(i)
  <2>1. u # NoUuid  BY MaintenanceAssumption
  <2>2. DB!DoesMd5SumExistByIndexNum(t, u, i).rows
          = DB!SQLite!Where(t, "md5_sum", [uuid |-> u, index_num |-> n])
    BY <2>1 DEF DB!DoesMd5SumExistByIndexNum, DB!SQLite!DoesMd5SumExistByIndexNum,
       DB!SQLite!Exists, DB!SQLite!Select, DB!SQLite!Done
  <2> HIDE DEF n
  <2>3. DB!SQLite!Where(t, "md5_sum", [uuid |-> u, index_num |-> n])
          = {r \in t["md5_sum"] : r.uuid = u /\ r.index_num = n}
    BY DEF DB!SQLite!Where
  <2> QED  BY <2>2, <2>3 DEF n
<1> QED  BY <1>1, <1>2, <1>3

\* An entry is written over the row of its work, added, or taken away.
LEMMA EntryIsUpdated ==
  ASSUME NEW t, TablesOK(t), NEW e \in EntryType
  PROVE  LET outcome == DB!UpdateWorkEntry(t, e)
             u == outcome.tables
         IN  /\ outcome.ret = 0 /\ TablesOK(u) /\ u["md5_sum"] = t["md5_sum"]
             /\ u["work_entry"] = {IF f.uuid = e.uuid THEN e ELSE f : f \in t["work_entry"]}
<1> DEFINE rows == t["work_entry"]
           columns == DOMAIN e \ {"uuid"}
           hit == {f \in rows : f.uuid = e.uuid}
           where == DB!SQLite!Where(t, "work_entry", [uuid |-> e.uuid])
           put(f) == IF f.uuid = e.uuid THEN e ELSE f
           new(f) == IF f \in where THEN DB!SQLite!Assigned(f, e, columns) ELSE f
           same(f, g) == DB!SQLite!SameKey("work_entry", f, g)
           taken == \E f \in where : \E g \in rows \ {f} : same(new(f), new(g))
           outcome == DB!UpdateWorkEntry(t, e)
<1>1. rows \subseteq EntryType /\ OneEntryEach(rows)  BY DEF TablesOK
<1>2. e.uuid \in Uuid /\ e.uuid # NoUuid  BY MaintenanceAssumption DEF EntryType
<1>3. where = hit  BY DEF DB!SQLite!Where
<1>4. \A f \in rows : new(f) = put(f)
  <2> SUFFICES ASSUME NEW f \in rows, f.uuid = e.uuid
               PROVE  DB!SQLite!Assigned(f, e, columns) = e
    <3> HIDE DEF rows, columns, where
    <3> QED  BY <1>3
  <2>1. DOMAIN f = DOMAIN e /\ e = [c \in DOMAIN e |-> e[c]]  BY <1>1 DEF EntryType
  <2>2. \A c \in DOMAIN f : (IF c \in columns THEN e[c] ELSE f[c]) = e[c]  BY <2>1
  <2> HIDE DEF columns
  <2>3. [c \in DOMAIN f |-> IF c \in columns THEN e[c] ELSE f[c]] = e  BY <2>1, <2>2
  <2> QED  BY <2>3 DEF DB!SQLite!Assigned
<1>5. \A f, g \in EntryType : same(f, g) <=> f.uuid = g.uuid
  BY DEF EntryType, DB!SQLite!SameKey, DB!SQLite!PrimaryKey
<1>6. \A f \in rows : put(f) \in EntryType /\ put(f).uuid = f.uuid  BY <1>1
<1>7. ~taken
  <2> HIDE DEF where, rows, new, put, same
  <2>1. \A f \in where : f \in rows  BY <1>3
  <2> QED  BY <1>1, <1>4, <1>5, <1>6, <2>1 DEF OneEntryEach
<1>8. outcome = IF taken THEN DB!SQLite!Refused(t)
                ELSE DB!SQLite!Done([t EXCEPT !["work_entry"] = {new(f) : f \in rows}], {})
  BY <1>2 DEF DB!UpdateWorkEntry, DB!OrRefused, DB!SQLite!UpdateEntry, DB!SQLite!Update
<1>9. {new(f) : f \in rows} = {put(f) : f \in rows}
  <2> HIDE DEF new, put, rows
  <2> QED  BY <1>4
<1>10. {put(f) : f \in rows} \subseteq EntryType /\ OneEntryEach({put(f) : f \in rows})
  BY <1>1, <1>6 DEF OneEntryEach
<1> DEFINE written == {put(f) : f \in rows}
<1> HIDE DEF taken, outcome, new, rows, put, written
<1>11. outcome.ret = 0 /\ outcome.tables = [t EXCEPT !["work_entry"] = written]
  BY <1>7, <1>8, <1>9 DEF DB!SQLite!Done, written
<1>12. written \subseteq EntryType /\ OneEntryEach(written)  BY <1>10 DEF written
<1>13. /\ TablesOK(outcome.tables) /\ outcome.tables["md5_sum"] = t["md5_sum"]
       /\ outcome.tables["work_entry"] = written
  BY <1>11, <1>12, OtherEntries
<1> QED  BY <1>11, <1>13 DEF outcome, put, rows, written

LEMMA EntryIsCreated ==
  ASSUME NEW t, TablesOK(t), NEW e \in EntryType, \A f \in t["work_entry"] : f.uuid # e.uuid
  PROVE  LET outcome == DB!CreateWorkEntry(t, e)
             u == outcome.tables
         IN  /\ outcome.ret = 0 /\ TablesOK(u) /\ u["md5_sum"] = t["md5_sum"]
             /\ u["work_entry"] = t["work_entry"] \cup {e}
<1> DEFINE rows == t["work_entry"]
           outcome == DB!CreateWorkEntry(t, e)
<1>1. rows \subseteq EntryType /\ OneEntryEach(rows)  BY DEF TablesOK
<1>2. e.uuid \in Uuid /\ e.uuid # NoUuid  BY MaintenanceAssumption DEF EntryType
<1>3. ~ \E f \in rows : DB!SQLite!SameKey("work_entry", f, e)
  BY DEF DB!SQLite!SameKey, DB!SQLite!PrimaryKey
<1>4. outcome = DB!SQLite!Done([t EXCEPT !["work_entry"] = rows \cup {e}], {})
  BY <1>2, <1>3 DEF DB!CreateWorkEntry, DB!OrRefused, DB!SQLite!CreateEntry, DB!SQLite!Insert
<1> DEFINE more == rows \cup {e}
<1>5. more \subseteq EntryType /\ OneEntryEach(more)  BY <1>1 DEF OneEntryEach
<1> HIDE DEF outcome, more
<1>6. outcome.ret = 0 /\ outcome.tables = [t EXCEPT !["work_entry"] = more]
  BY <1>4 DEF DB!SQLite!Done, more
<1>7. /\ TablesOK(outcome.tables) /\ outcome.tables["md5_sum"] = t["md5_sum"]
      /\ outcome.tables["work_entry"] = more
  BY <1>5, <1>6, OtherEntries
<1> QED  BY <1>6, <1>7 DEF outcome, more

LEMMA EntryIsDeleted ==
  ASSUME NEW t, TablesOK(t), NEW uuid \in Uuid
  PROVE  LET outcome == DB!DeleteWorkEntry(t, uuid)
             u == outcome.tables
         IN  outcome.ret = 0 /\ TablesOK(u) /\ u["md5_sum"] = t["md5_sum"]
<1> DEFINE rows == t["work_entry"]
           left == rows \ DB!SQLite!Where(t, "work_entry", [uuid |-> uuid])
           outcome == DB!DeleteWorkEntry(t, uuid)
<1>1. rows \subseteq EntryType /\ OneEntryEach(rows)  BY DEF TablesOK
<1>2. uuid # NoUuid  BY MaintenanceAssumption
<1>3. outcome = DB!SQLite!Done([t EXCEPT !["work_entry"] = left], {})
  BY <1>2 DEF DB!DeleteWorkEntry, DB!OrRefused, DB!SQLite!DeleteEntry, DB!SQLite!Delete
<1>4. left \subseteq EntryType /\ OneEntryEach(left)  BY <1>1 DEF OneEntryEach
<1> HIDE DEF outcome, left
<1>5. outcome.ret = 0 /\ outcome.tables = [t EXCEPT !["work_entry"] = left]
  BY <1>3 DEF DB!SQLite!Done
<1>6. TablesOK(outcome.tables) /\ outcome.tables["md5_sum"] = t["md5_sum"]
  BY <1>4, <1>5, OtherEntries
<1> QED  BY <1>5, <1>6 DEF outcome

\* The rows an update hits, what becomes of the rows, and when two of them
\* would have one key.
Hit(t, row, column) == {r \in t["md5_sum"] : r.uuid = row.uuid /\ r[column] = row[column]}
Written(t, row, column) ==
    {IF r \in Hit(t, row, column) THEN row ELSE r : r \in t["md5_sum"]}
Alike(t, row, column) ==
    \E r \in Hit(t, row, column) : \E s \in t["md5_sum"] \ {r} :
      s \in Hit(t, row, column) \/ (s.uuid = row.uuid /\ s.md5_sum = row.md5_sum)

\* The fields of a row make it up.
LEMMA SameFields ==
  ASSUME NEW t, NEW s \in SumType, NEW column \in {"index_num", "seq_num"},
         NEW r \in Hit(t, s, column), r \in SumType
  PROVE  DB!SQLite!Assigned(r, s, DOMAIN s \ {"uuid", column}) = s
<1> DEFINE columns == DOMAIN s \ {"uuid", column}
           new == [c \in DOMAIN r |-> IF c \in columns THEN s[c] ELSE r[c]]
<1>1. DOMAIN r = DOMAIN s /\ s = [c \in DOMAIN s |-> s[c]]  BY DEF SumType
<1>2. r.uuid = s.uuid /\ r[column] = s[column]  BY DEF Hit
<1>3. \A c \in DOMAIN r : (IF c \in columns THEN s[c] ELSE r[c]) = s[c]  BY <1>1, <1>2
<1>4. new = s
  <2> HIDE DEF columns
  <2> QED  BY <1>1, <1>3
<1> QED  BY <1>4 DEF DB!SQLite!Assigned

\* The outcome of an update.
Updates(outcome, t, row, column) ==
    IF Alike(t, row, column) THEN outcome.ret = -1 /\ outcome.tables = t
    ELSE /\ outcome.ret = 0 /\ TablesOK(outcome.tables)
         /\ outcome.tables["md5_sum"] = Written(t, row, column)
         /\ outcome.tables["work_entry"] = t["work_entry"]

\* An update by index or by number writes the row over those it hits, unless
\* two rows would then have one key.
LEMMA UpdateWrites ==
  ASSUME NEW t, TablesOK(t), NEW row \in SumType, NEW column \in {"index_num", "seq_num"},
         NEW cond, DB!SQLite!Where(t, "md5_sum", cond) = Hit(t, row, column),
         NEW columns, columns = DOMAIN row \ {"uuid", column},
         NEW outcome, outcome = DB!SQLite!Update(t, "md5_sum", cond, row, columns)
  PROVE  Updates(outcome, t, row, column)
<1> DEFINE rows == t["md5_sum"]
           hit == Hit(t, row, column)
           where == DB!SQLite!Where(t, "md5_sum", cond)
           alike == Alike(t, row, column)
           put(r) == IF r \in hit THEN row ELSE r
           new(r) == IF r \in where THEN DB!SQLite!Assigned(r, row, columns) ELSE r
           same(r, s) == DB!SQLite!SameKey("md5_sum", r, s)
           taken == \E r \in where : \E s \in rows \ {r} : same(new(r), new(s))
<1>1. rows \subseteq SumType /\ hit \subseteq rows  BY DEF TablesOK, Hit
<1>2. \A r \in rows : new(r) = put(r)
  <2> SUFFICES ASSUME NEW r \in rows, r \in hit
               PROVE  DB!SQLite!Assigned(r, row, columns) = row
    <3> HIDE DEF rows, where, hit
    <3>1. where = hit  BY DEF where, hit
    <3> QED  BY <3>1
  <2>1. r \in SumType /\ r \in Hit(t, row, column)  BY <1>1
  <2>2. row \in SumType /\ column \in {"index_num", "seq_num"}  OBVIOUS
  <2>3. DB!SQLite!Assigned(r, row, DOMAIN row \ {"uuid", column}) = row
    BY ONLY <2>1, <2>2, SameFields
  <2>4. columns = DOMAIN row \ {"uuid", column}  OBVIOUS
  <2> QED  BY ONLY <2>3, <2>4
<1>3. \A r, s \in SumType : same(r, s) <=> (r.uuid = s.uuid /\ r.md5_sum = s.md5_sum)
  BY DEF SumType, DB!SQLite!SameKey, DB!SQLite!PrimaryKey
<1>4. taken <=> alike
  <2>1. \A r \in hit : r.uuid = row.uuid  BY DEF Hit
  <2>2. alike <=> \E r \in hit : \E s \in rows \ {r} :
                    s \in hit \/ (s.uuid = row.uuid /\ s.md5_sum = row.md5_sum)
    BY DEF Alike
  <2>3. \A r \in hit : put(r) = row  OBVIOUS
  <2>4. \A s \in rows : put(s) = IF s \in hit THEN row ELSE s  OBVIOUS
  <2> HIDE DEF where, new, hit, put, same, rows, alike
  <2>5. \A r \in hit : \A s \in rows :
          same(new(r), new(s)) <=> (s \in hit \/ (s.uuid = row.uuid /\ s.md5_sum = row.md5_sum))
    BY <1>1, <1>2, <1>3, <2>3, <2>4
  <2>6. where = hit  BY DEF where, hit
  <2> QED  BY <1>1, <2>2, <2>5, <2>6
<1>5. outcome = IF taken THEN DB!SQLite!Refused(t)
                ELSE DB!SQLite!Done([t EXCEPT !["md5_sum"] = {new(r) : r \in rows}], {})
  BY DEF DB!SQLite!Update
<1>6. {new(r) : r \in rows} = {put(r) : r \in rows}
  <2> HIDE DEF new, put, rows
  <2> QED  BY <1>2
<1>7. {put(r) : r \in rows} = Written(t, row, column)  BY DEF Written
<1> HIDE DEF new, same, where, alike, taken, put
<1>8. alike => outcome.ret = -1 /\ outcome.tables = t
  BY <1>4, <1>5 DEF DB!SQLite!Refused
<1> DEFINE written == Written(t, row, column)
           u == [t EXCEPT !["md5_sum"] = written]
<1>9. ~alike => outcome.ret = 0 /\ outcome.tables = u
  <2>1. {new(r) : r \in rows} = written  BY <1>6, <1>7
  <2> HIDE DEF rows, written
  <2>2. ~alike => outcome = DB!SQLite!Done(u, {})  BY <1>4, <1>5, <2>1
  <2> HIDE DEF u
  <2> QED  BY ONLY <2>2 DEF DB!SQLite!Done
<1>10. written \subseteq SumType  BY <1>1 DEF Written
<1>11. ~alike => OneRowEach(written)
  <2> SUFFICES ASSUME ~alike, NEW r \in rows, NEW s \in rows,
                      put(r).uuid = put(s).uuid, put(r).md5_sum = put(s).md5_sum
               PROVE  put(r) = put(s)
    <3> HIDE DEF written, put, rows, alike, hit
    <3> QED  BY <1>7 DEF OneRowEach, written
  <2>1. \A p \in hit : \A q \in rows :
          q # p => q \notin hit /\ ~ (q.uuid = row.uuid /\ q.md5_sum = row.md5_sum)
    BY DEF Alike, alike
  <2>2. OneRowEach(rows)  BY DEF TablesOK
  <2> USE DEF put
  <2> HIDE DEF hit, alike, rows
  <2>3. CASE r \in hit  BY <2>1, <2>3
  <2>4. CASE s \in hit  BY <2>1, <2>4
  <2>5. CASE r \notin hit /\ s \notin hit  BY <2>2, <2>5 DEF OneRowEach
  <2> QED  BY <2>3, <2>4, <2>5
<1>12. ~alike => TablesOK(u) /\ u["md5_sum"] = written /\ u["work_entry"] = t["work_entry"]
  <2> HIDE DEF written, alike
  <2> QED  BY <1>10, <1>11, OtherSums
<1> HIDE DEF u, written
<1> QED  BY <1>8, <1>9, <1>12 DEF Updates, alike, written

LEMMA SumIsUpdated ==
  ASSUME NEW t, TablesOK(t), NEW md5 \in WideType
  PROVE  LET row == DB!SQLite!Md5Row(md5)
         IN  /\ Updates(DB!UpdateMd5SumBySeqNum(t, md5), t, row, "seq_num")
             /\ Updates(DB!UpdateMd5SumByIndexNum(t, md5), t, row, "index_num")
<1> DEFINE row == DB!SQLite!Md5Row(md5)
<1>1. /\ row \in SumType /\ row.uuid = md5.uuid
      /\ row.index_num = DB!SQLite!AsInt(md5.index_num)
      /\ row.seq_num = DB!SQLite!AsInt(md5.seq_num)
      /\ DOMAIN row = DOMAIN md5 /\ md5.uuid # NoUuid
  <2>1. row \in SumType  BY BoundRow
  <2>2. DOMAIN row = DOMAIN md5  BY <2>1 DEF SumType, WideType
  <2>3. md5.uuid # NoUuid  BY MaintenanceAssumption DEF WideType
  <2> QED  BY <2>1, <2>2, <2>3, BoundRow
<1> HIDE DEF row
<1>2. ASSUME NEW column \in {"index_num", "seq_num"}, NEW cond,
             DB!SQLite!Where(t, "md5_sum", cond) = Hit(t, row, column),
             NEW outcome,
             outcome = DB!SQLite!Update(t, "md5_sum", cond, row, DOMAIN row \ {"uuid", column})
      PROVE  Updates(outcome, t, row, column)
  <2> DEFINE columns == DOMAIN row \ {"uuid", column}
  <2> HIDE DEF columns
  <2>1. /\ columns = DOMAIN row \ {"uuid", column}
        /\ outcome = DB!SQLite!Update(t, "md5_sum", cond, row, columns)
    BY <1>2 DEF columns
  <2> QED  BY <1>1, <1>2, <2>1, UpdateWrites
<1>3. Updates(DB!UpdateMd5SumBySeqNum(t, md5), t, row, "seq_num")
  <2> DEFINE cond == [uuid |-> md5.uuid, seq_num |-> row.seq_num]
             outcome == DB!UpdateMd5SumBySeqNum(t, md5)
  <2>1. DB!SQLite!Where(t, "md5_sum", cond) = Hit(t, row, "seq_num")
    BY <1>1 DEF DB!SQLite!Where, Hit
  <2>2. outcome = DB!SQLite!Update(t, "md5_sum", cond, row, DOMAIN row \ {"uuid", "seq_num"})
    BY <1>1 DEF DB!UpdateMd5SumBySeqNum, DB!OrRefused, DB!SQLite!UpdateMd5SumBySeqNum,
       DB!SQLite!AllButKey, row
  <2> HIDE DEF cond, outcome
  <2>3. Updates(outcome, t, row, "seq_num")  BY <1>2, <2>1, <2>2
  <2> QED  BY <2>3 DEF outcome
<1>4. Updates(DB!UpdateMd5SumByIndexNum(t, md5), t, row, "index_num")
  <2> DEFINE cond == [uuid |-> md5.uuid, index_num |-> row.index_num]
             outcome == DB!UpdateMd5SumByIndexNum(t, md5)
  <2>1. DB!SQLite!Where(t, "md5_sum", cond) = Hit(t, row, "index_num")
    BY <1>1 DEF DB!SQLite!Where, Hit
  <2>2. outcome = DB!SQLite!Update(t, "md5_sum", cond, row, DOMAIN row \ {"uuid", "index_num"})
    BY <1>1 DEF DB!UpdateMd5SumByIndexNum, DB!OrRefused, DB!SQLite!UpdateMd5SumByIndexNum,
       DB!SQLite!AllButKey, row
  <2> HIDE DEF cond, outcome
  <2>3. Updates(outcome, t, row, "index_num")  BY <1>2, <2>1, <2>2
  <2> QED  BY <2>3 DEF outcome
<1> QED  BY <1>3, <1>4 DEF row

\* A row is added unless there is one with its key.
LEMMA SumIsCreated ==
  ASSUME NEW t, TablesOK(t), NEW md5 \in WideType
  PROVE  LET row == DB!SQLite!Md5Row(md5)
             outcome == DB!CreateMd5Sum(t, md5)
         IN  IF \E r \in t["md5_sum"] : r.uuid = row.uuid /\ r.md5_sum = row.md5_sum
             THEN outcome.ret = -1 /\ outcome.tables = t
             ELSE /\ outcome.ret = 0 /\ TablesOK(outcome.tables)
                  /\ outcome.tables["md5_sum"] = t["md5_sum"] \cup {row}
                  /\ outcome.tables["work_entry"] = t["work_entry"]
<1> DEFINE row == DB!SQLite!Md5Row(md5)
           outcome == DB!CreateMd5Sum(t, md5)
           rows == t["md5_sum"]
           more == rows \cup {row}
           taken == \E r \in rows : r.uuid = row.uuid /\ r.md5_sum = row.md5_sum
<1>1. rows \subseteq SumType /\ OneRowEach(rows)  BY DEF TablesOK
<1>2. row \in SumType /\ md5.uuid # NoUuid  BY BoundRow, MaintenanceAssumption DEF WideType
<1>3. taken <=> \E r \in rows : DB!SQLite!SameKey("md5_sum", r, row)
  BY DEF DB!SQLite!SameKey, DB!SQLite!PrimaryKey
<1>4. outcome = IF \E r \in rows : DB!SQLite!SameKey("md5_sum", r, row) THEN DB!SQLite!Refused(t)
                ELSE DB!SQLite!Done([t EXCEPT !["md5_sum"] = rows \cup {row}], {})
  BY <1>2 DEF DB!CreateMd5Sum, DB!OrRefused, DB!SQLite!CreateMd5Sum, DB!SQLite!Insert
<1> HIDE DEF row, outcome
<1>5. ~taken => more \subseteq SumType /\ OneRowEach(more)  BY <1>1, <1>2 DEF OneRowEach
<1> HIDE DEF more, taken, rows
<1>6. IF taken THEN outcome.ret = -1 /\ outcome.tables = t
      ELSE outcome.ret = 0 /\ outcome.tables = [t EXCEPT !["md5_sum"] = more]
  BY <1>3, <1>4 DEF DB!SQLite!Done, DB!SQLite!Refused, more
<1>7. ~taken => /\ TablesOK(outcome.tables) /\ outcome.tables["md5_sum"] = more
                /\ outcome.tables["work_entry"] = t["work_entry"]
  <2> SUFFICES ASSUME ~taken
               PROVE  /\ TablesOK(outcome.tables) /\ outcome.tables["md5_sum"] = more
                      /\ outcome.tables["work_entry"] = t["work_entry"]
    OBVIOUS
  <2>1. more \subseteq SumType /\ OneRowEach(more)  BY <1>5
  <2>2. outcome.tables = [t EXCEPT !["md5_sum"] = more]  BY <1>6
  <2> QED  BY <2>1, <2>2, OtherSums
<1> QED  BY <1>6, <1>7 DEF outcome, more, taken, rows, row

\* The rows of an index are taken away.
LEMMA SumIsDeleted ==
  ASSUME NEW t, TablesOK(t), NEW uuid \in Uuid, NEW i \in Int
  PROVE  LET outcome == DB!DeleteMd5Sum(t, uuid, i)
         IN  /\ outcome.ret = 0 /\ TablesOK(outcome.tables)
             /\ outcome.tables["md5_sum"]
                  = {r \in t["md5_sum"] : ~ (r.uuid = uuid /\ r.index_num = DB!SQLite!AsInt(i))}
             /\ outcome.tables["work_entry"] = t["work_entry"]
<1> DEFINE outcome == DB!DeleteMd5Sum(t, uuid, i)
           rows == t["md5_sum"]
           n == DB!SQLite!AsInt(i)
           left == {r \in rows : ~ (r.uuid = uuid /\ r.index_num = n)}
<1>1. rows \subseteq SumType /\ OneRowEach(rows)  BY DEF TablesOK
<1>2. uuid # NoUuid  BY MaintenanceAssumption
<1>3. rows \ DB!SQLite!Where(t, "md5_sum", [uuid |-> uuid, index_num |-> n]) = left
  <2> HIDE DEF n
  <2> QED  BY DEF DB!SQLite!Where
<1>4. outcome = DB!SQLite!Done([t EXCEPT !["md5_sum"] =
                  rows \ DB!SQLite!Where(t, "md5_sum", [uuid |-> uuid, index_num |-> n])], {})
  BY <1>2 DEF DB!DeleteMd5Sum, DB!OrRefused, DB!SQLite!DeleteMd5Sum, DB!SQLite!Delete
<1> HIDE DEF n
<1>5. left \subseteq SumType /\ OneRowEach(left)  BY <1>1 DEF OneRowEach
<1> HIDE DEF outcome, left
<1>6. outcome.ret = 0 /\ outcome.tables = [t EXCEPT !["md5_sum"] = left]
  BY <1>3, <1>4 DEF DB!SQLite!Done
<1>7. /\ TablesOK(outcome.tables) /\ outcome.tables["md5_sum"] = left
      /\ outcome.tables["work_entry"] = t["work_entry"]
  BY <1>5, <1>6, OtherSums
<1> QED  BY <1>6, <1>7 DEF outcome, left, n

\* An imported entry is there afterwards, as the file has it, and no other work's changes.
LEMMA EntryIsImported ==
  ASSUME TablesOK(tables), NEW e \in EntryType
  PROVE  LET outcome == ImportEntry(e)
             u == outcome.tables
         IN  /\ outcome.ret = 0 /\ TablesOK(u) /\ u["md5_sum"] = Sums
             /\ u["work_entry"] = {e} \cup {f \in Entries : f.uuid # e.uuid}
<1> DEFINE outcome == ImportEntry(e)
           u == outcome.tables
<1>1. e.uuid \in Uuid  BY DEF EntryType
<1>2. DB!DoesWorkEntryUUIDExist(tables, e.uuid).rows = {f \in Entries : f.uuid = e.uuid}
  BY <1>1, Reads DEF Entries
<1>3. CASE \E f \in Entries : f.uuid = e.uuid
  <2>1. outcome = DB!UpdateWorkEntry(tables, e)  BY <1>2, <1>3 DEF ImportEntry
  <2> HIDE DEF outcome
  <2>2. /\ outcome.ret = 0 /\ TablesOK(u) /\ u["md5_sum"] = tables["md5_sum"]
        /\ u["work_entry"] = {IF f.uuid = e.uuid THEN e ELSE f : f \in tables["work_entry"]}
    BY <2>1, EntryIsUpdated
  <2> QED  BY <1>3, <2>2 DEF outcome, Entries, Sums
<1>4. CASE ~ \E f \in Entries : f.uuid = e.uuid
  <2>1. outcome = DB!CreateWorkEntry(tables, e)  BY <1>2, <1>4 DEF ImportEntry
  <2>2. \A f \in tables["work_entry"] : f.uuid # e.uuid  BY <1>4 DEF Entries
  <2> HIDE DEF outcome
  <2>3. /\ outcome.ret = 0 /\ TablesOK(u) /\ u["md5_sum"] = tables["md5_sum"]
        /\ u["work_entry"] = tables["work_entry"] \cup {e}
    BY <2>1, <2>2, EntryIsCreated
  <2>4. {f \in Entries : f.uuid # e.uuid} = Entries  BY <1>4
  <2> QED  BY <2>3, <2>4 DEF outcome, Entries, Sums
<1> QED  BY <1>3, <1>4

\* What a call may do to sound tables.
Sound(outcome, t, known) ==
    /\ outcome.ret \in {0, -1} /\ TablesOK(outcome.tables)
    /\ Keys(outcome.tables["md5_sum"]) \subseteq Keys(t["md5_sum"]) \cup known

\* An update gives its key to the row it hits.
LEMMA UpdateIsSound ==
  ASSUME NEW t, TablesOK(t), NEW row \in SumType, NEW column, NEW outcome,
         Updates(outcome, t, row, column)
  PROVE  Sound(outcome, t, {KeyOf(row)})
<1>1. CASE Alike(t, row, column)
  BY <1>1 DEF Updates, Sound
<1>2. CASE ~Alike(t, row, column)
  <2>1. /\ outcome.ret = 0 /\ TablesOK(outcome.tables)
        /\ outcome.tables["md5_sum"] = Written(t, row, column)
    BY <1>2 DEF Updates
  <2>2. \A r \in Written(t, row, column) : r = row \/ r \in t["md5_sum"]  BY DEF Written
  <2>3. Keys(Written(t, row, column)) \subseteq Keys(t["md5_sum"]) \cup {KeyOf(row)}
    BY <2>2 DEF Keys, KeyOf
  <2> QED  BY <2>1, <2>3 DEF Sound
<1> QED  BY <1>1, <1>2

LEMMA CreateIsSound ==
  ASSUME NEW t, TablesOK(t), NEW md5 \in WideType
  PROVE  Sound(DB!CreateMd5Sum(t, md5), t, {KeyOf(md5)})
<1> DEFINE row == DB!SQLite!Md5Row(md5)
           outcome == DB!CreateMd5Sum(t, md5)
           taken == \E r \in t["md5_sum"] : r.uuid = row.uuid /\ r.md5_sum = row.md5_sum
<1>1. KeyOf(row) = KeyOf(md5)  BY BoundRow DEF KeyOf
<1>2. /\ taken => outcome.ret = -1 /\ outcome.tables = t
      /\ ~taken => /\ outcome.ret = 0 /\ TablesOK(outcome.tables)
                   /\ outcome.tables["md5_sum"] = t["md5_sum"] \cup {row}
  BY SumIsCreated
<1> HIDE DEF row, outcome, taken
<1>3. Keys(t["md5_sum"] \cup {row}) \subseteq Keys(t["md5_sum"]) \cup {KeyOf(row)}
  BY DEF Keys, KeyOf
<1>4. CASE taken  BY <1>2, <1>4 DEF Sound, outcome
<1>5. CASE ~taken  BY <1>1, <1>2, <1>3, <1>5 DEF Sound, outcome
<1> QED  BY <1>4, <1>5 DEF outcome

\* The outcomes of the calls, by the names of the calls.
LEMMA OutcomeCases ==
  ASSUME NEW c
  PROVE  /\ c.op = "UpdateWorkEntry" => Outcome(c) = DB!UpdateWorkEntry(tables, c.row)
         /\ c.op = "DeleteWorkEntry" => Outcome(c) = DB!DeleteWorkEntry(tables, c.row.uuid)
         /\ c.op = "ImportEntry" => Outcome(c) = ImportEntry(c.row)
         /\ c.op = "SkipLine" => Outcome(c) = DB!SQLite!Done(tables, {})
         /\ c.op = "ImportChecksum" => Outcome(c) = ImportChecksum(c.row)
         /\ c.op = "DeleteMd5Sum" => Outcome(c) = DB!DeleteMd5Sum(tables, c.row.uuid, c.row.index_num)
         /\ c.op = "CreateMd5Sum" => Outcome(c) = DB!CreateMd5Sum(tables, c.row)
         /\ c.op = "UpdateMd5SumByIndexNum" => Outcome(c) = DB!UpdateMd5SumByIndexNum(tables, c.row)
         /\ c.op = "UpdateMd5SumBySeqNum" => Outcome(c) = DB!UpdateMd5SumBySeqNum(tables, c.row)
BY DEF Outcome

\* A call has a row of its kind.
LEMMA CallFacts ==
  ASSUME NEW c \in CallType
  PROVE  /\ c.op \in EntryOps => c.row \in EntryType
         /\ c.op \in SumOps => c.row \in WideType
         /\ c.op = "DeleteWorkEntry" => c.row.uuid \in Uuid
         /\ c.op \in EntryOps \cup SumOps \cup {"DeleteWorkEntry"} /\ c.onfail \in OnFail
BY DEF CallType, EntryCalls, SumCalls, DeleteCalls, EntryOps, SumOps

\* The calls on checksums are sound, and add no key but the one of their row.
LEMMA SumCallIsSound ==
  ASSUME TablesOK(tables), NEW c \in CallType, c.op \in SumOps
  PROVE  Sound(Outcome(c), tables, {KeyOf(c.row)})
<1> DEFINE md5 == c.row
           row == DB!SQLite!Md5Row(md5)
<1>1. md5 \in WideType  BY CallFacts
<1>2. row \in SumType /\ KeyOf(row) = KeyOf(md5)  BY <1>1, BoundRow DEF KeyOf
<1>3. md5.uuid \in Uuid /\ md5.index_num \in Int  BY <1>1 DEF WideType
<1> HIDE DEF md5, row
<1>4. Sound(DB!UpdateMd5SumBySeqNum(tables, md5), tables, {KeyOf(md5)})
  <2>1. Updates(DB!UpdateMd5SumBySeqNum(tables, md5), tables, row, "seq_num")
    BY <1>1, SumIsUpdated DEF row
  <2> QED  BY <1>2, <2>1, UpdateIsSound
<1>5. Sound(DB!UpdateMd5SumByIndexNum(tables, md5), tables, {KeyOf(md5)})
  <2>1. Updates(DB!UpdateMd5SumByIndexNum(tables, md5), tables, row, "index_num")
    BY <1>1, SumIsUpdated DEF row
  <2> QED  BY <1>2, <2>1, UpdateIsSound
<1>6. Sound(DB!CreateMd5Sum(tables, md5), tables, {KeyOf(md5)})
  BY <1>1, CreateIsSound
<1>7. Sound(DB!DeleteMd5Sum(tables, md5.uuid, md5.index_num), tables, {KeyOf(md5)})
  <2> DEFINE outcome == DB!DeleteMd5Sum(tables, md5.uuid, md5.index_num)
  <2>1. /\ outcome.ret = 0 /\ TablesOK(outcome.tables)
        /\ outcome.tables["md5_sum"] = {r \in tables["md5_sum"] :
             ~ (r.uuid = md5.uuid /\ r.index_num = DB!SQLite!AsInt(md5.index_num))}
    BY <1>3, SumIsDeleted
  <2> HIDE DEF outcome
  <2>2. Keys(outcome.tables["md5_sum"]) \subseteq Keys(tables["md5_sum"])  BY <2>1 DEF Keys
  <2> QED  BY <2>1, <2>2 DEF Sound, outcome
<1>8. ImportChecksum(md5) \in {DB!UpdateMd5SumBySeqNum(tables, md5), DB!CreateMd5Sum(tables, md5)}
  BY DEF ImportChecksum
<1> HIDE DEF Sound
<1>9. Outcome(c) \in {ImportChecksum(md5), DB!DeleteMd5Sum(tables, md5.uuid, md5.index_num),
                      DB!CreateMd5Sum(tables, md5), DB!UpdateMd5SumBySeqNum(tables, md5),
                      DB!UpdateMd5SumByIndexNum(tables, md5)}
  BY OutcomeCases DEF SumOps, md5
<1> QED  BY <1>4, <1>5, <1>6, <1>7, <1>8, <1>9 DEF md5

\* The calls on entries are sound and leave the checksums alone.
LEMMA EntryCallIsSound ==
  ASSUME TablesOK(tables), NEW c \in CallType, c.op \notin SumOps,
         c.op \notin {"ReorderWork", "Throw"}
  PROVE  Sound(Outcome(c), tables, {}) /\ Outcome(c).tables["md5_sum"] = Sums
<1> SUFFICES /\ Outcome(c).ret = 0 /\ TablesOK(Outcome(c).tables)
             /\ Outcome(c).tables["md5_sum"] = Sums
  BY DEF Sound, Sums
<1>1. CASE c.op = "UpdateWorkEntry"
  <2>1. c.row \in EntryType /\ Outcome(c) = DB!UpdateWorkEntry(tables, c.row)
    BY <1>1, CallFacts, OutcomeCases DEF EntryOps
  <2> QED  BY <2>1, EntryIsUpdated DEF Sums
<1>2. CASE c.op = "ImportEntry"
  <2>1. c.row \in EntryType /\ Outcome(c) = ImportEntry(c.row)
    BY <1>2, CallFacts, OutcomeCases DEF EntryOps
  <2> QED  BY <2>1, EntryIsImported
<1>3. CASE c.op = "DeleteWorkEntry"
  <2>1. c.row.uuid \in Uuid /\ Outcome(c) = DB!DeleteWorkEntry(tables, c.row.uuid)
    BY <1>3, CallFacts, OutcomeCases
  <2> QED  BY <2>1, EntryIsDeleted DEF Sums
<1>4. CASE c.op = "SkipLine"
  BY <1>4, OutcomeCases DEF DB!SQLite!Done, Sums
<1> QED  BY <1>1, <1>2, <1>3, <1>4, CallFacts DEF EntryOps

----------------------------------------------------------------------------
(* The calls that remain.                                                   *)

LEMMA TailFacts ==
  ASSUME NEW T, NEW s \in Seq(T), s # << >>
  PROVE  /\ Head(s) \in T /\ Head(s) = s[1] /\ 1 \in DOMAIN s
         /\ Tail(s) \in Seq(T) /\ Len(Tail(s)) = Len(s) - 1
         /\ \A i \in DOMAIN s : i \in Nat /\ i >= 1
         /\ \A i \in DOMAIN Tail(s) : i \in Nat /\ i + 1 \in DOMAIN s /\ Tail(s)[i] = s[i + 1]
         /\ \A i \in DOMAIN s : i = 1 \/ (i - 1 \in DOMAIN Tail(s) /\ Tail(s)[i - 1] = s[i])
<1>1. Len(s) \in Nat \ {0} /\ DOMAIN s = 1..Len(s)  OBVIOUS
<1>2. Tail(s) \in Seq(T) /\ Len(Tail(s)) = Len(s) - 1  BY <1>1
<1>3. DOMAIN Tail(s) = 1..(Len(s) - 1)  BY <1>1, <1>2
<1>4. \A i \in DOMAIN Tail(s) : i \in Nat /\ i + 1 \in DOMAIN s /\ Tail(s)[i] = s[i + 1]
  BY <1>1, <1>3
<1>5. Head(s) = s[1] /\ 1 \in DOMAIN s /\ Head(s) \in T  BY <1>1
<1>6. \A i \in DOMAIN s : i = 1 \/ (i - 1 \in DOMAIN Tail(s) /\ Tail(s)[i - 1] = s[i])
  BY <1>1, <1>3, <1>4
<1>7. \A i \in DOMAIN s : i \in Nat /\ i >= 1  BY <1>1
<1> QED  BY <1>2, <1>4, <1>5, <1>6, <1>7

\* After a failure a part of the calls remains.
LEMMA AfterFacts ==
  ASSUME todo \in Seq(CallType), todo # << >>, NEW c \in CallType
  PROVE  /\ After(c) \in Seq(CallType)
         /\ \A i \in DOMAIN After(c) : \E j \in DOMAIN todo : After(c)[i] = todo[j]
<1>1. c.onfail \in OnFail  BY CallFacts
<1>2. CASE c.onfail = "go on"
  <2>1. After(c) = Tail(todo)  BY <1>2 DEF After
  <2> QED  BY <2>1, TailFacts
<1>3. CASE c.onfail = "return"
  <2>1. After(c) = << >>  BY <1>3 DEF After
  <2> QED  BY <2>1
<1>4. CASE c.onfail = "break"
  <2> DEFINE others == {i \in DOMAIN todo : todo[i].row.uuid # c.row.uuid}
             m == CHOOSE i \in others : \A j \in others : i <= j
  <2>1. After(c) = IF others = {} THEN << >> ELSE SubSeq(todo, m, Len(todo))
    BY <1>4 DEF After
  <2>2. CASE others = {}
    <3>1. After(c) = << >>  BY <2>1, <2>2
    <3> QED  BY <3>1
  <2>3. CASE others # {}
    <3>1. Len(todo) \in Nat /\ DOMAIN todo = 1..Len(todo)  OBVIOUS
    <3>2. others \subseteq Nat  BY <3>1
    <3>3. \E i \in others : \A j \in others : i <= j
      <4> HIDE DEF others
      <4> QED  BY <2>3, <3>2, Least
    <3>4. m \in others  BY <3>3
    <3>5. m \in 1..Len(todo)  BY <3>1, <3>4
    <3> HIDE DEF m, others
    <3> DEFINE s == SubSeq(todo, m, Len(todo))
    <3>6. /\ s \in Seq(CallType) /\ DOMAIN s = 1..(Len(todo) - m + 1)
          /\ \A i \in 1..(Len(todo) - m + 1) : s[i] = todo[m + i - 1]
      BY <3>1, <3>5, SubSeqProperties
    <3>7. \A i \in 1..(Len(todo) - m + 1) : m + i - 1 \in DOMAIN todo  BY <3>1, <3>5
    <3>8. After(c) = s  BY <2>1, <2>3
    <3> HIDE DEF s
    <3> QED  BY <3>6, <3>7, <3>8
  <2> QED  BY <2>2, <2>3
<1> QED  BY <1>1, <1>2, <1>3, <1>4 DEF OnFail

----------------------------------------------------------------------------
(* There are few rows.                                                      *)

\* A set that is an image has no more elements.
LEMMA ImageSize ==
  ASSUME NEW S, IsFiniteSet(S), NEW f, DOMAIN f = S
  PROVE  LET T == {f[x] : x \in S} IN IsFiniteSet(T) /\ Cardinality(T) <= Cardinality(S)
<1> DEFINE T == {f[x] : x \in S}
           g == [x \in S |-> f[x]]
<1>1. g \in [S -> T] /\ \A z \in T : \E x \in S : g[x] = z  OBVIOUS
<1> HIDE DEF g, T
<1>2. g \in Surjection(S, T)  BY <1>1 DEF Surjection
<1>3. IsFiniteSet(T) /\ Cardinality(T) <= Cardinality(S)  BY <1>2, FS_Surjection
<1> QED  BY <1>3 DEF T

LEMMA KnownIsSmall ==
  ASSUME FilesOK, NEW C \in Catalogs,
         exported.checksums # NoFile => Len(exported.checksums) <= Cardinality(C)
  PROVE  IsFiniteSet(Known(C)) /\ Cardinality(Known(C)) \in Nat /\ Cardinality(Known(C)) < Half
<1> DEFINE n == Cardinality(C)
           A == CatalogKeys(C)
           B == MisreadKeys
<1>1. IsFiniteSet(C) /\ n \in Nat /\ 2 * n < Half
  <2>1. IsFiniteSet(C) /\ 2 * Cardinality(C) < IntSpan \div 2  BY MaintenanceAssumption
  <2> QED  BY <2>1, FS_CardinalityType DEF Half
<1>2. IsFiniteSet(A) /\ Cardinality(A) <= n
  <2> DEFINE f == [k \in C |-> <<k[1], k[2]>>]
  <2>1. A = {f[k] : k \in C} /\ DOMAIN f = C  BY DEF CatalogKeys
  <2> HIDE DEF f, A
  <2> QED  BY <1>1, <2>1, ImageSize
<1>3. IsFiniteSet(B) /\ Cardinality(B) <= n
  <2>1. CASE exported.checksums = NoFile
    <3>1. B = {}  BY <2>1 DEF MisreadKeys
    <3> QED  BY <1>1, <3>1, FS_EmptySet
  <2>2. CASE exported.checksums # NoFile
    <3> DEFINE s == exported.checksums
               D == 1..Len(s)
               f == [i \in D |-> MisreadKey(s[i])]
    <3>1. s \in Seq(SumType) /\ Len(s) <= n  BY <2>2 DEF FilesOK
    <3> HIDE DEF s
    <3>2. Len(s) \in Nat /\ DOMAIN s = D  BY <3>1
    <3>3. IsFiniteSet(D) /\ Cardinality(D) = Len(s)
      <4>1. 1 \in Int /\ Len(s) \in Int  BY <3>2
      <4>2. IsFiniteSet(1..Len(s)) /\ Cardinality(1..Len(s)) = IF 1 > Len(s) THEN 0 ELSE Len(s) - 1 + 1
        BY <4>1, FS_Interval
      <4> QED  BY <3>2, <4>2
    <3>4. B = {MisreadKey(r) : r \in ToSet(s)}  BY <2>2 DEF MisreadKeys, s
    <3>5. B = {f[i] : i \in D} /\ DOMAIN f = D  BY <3>2, <3>4 DEF ToSet
    <3> HIDE DEF f, B, D
    <3>6. IsFiniteSet(B) /\ Cardinality(B) <= Cardinality(D)  BY <3>3, <3>5, ImageSize
    <3>7. Cardinality(B) \in Nat  BY <3>6, FS_CardinalityType
    <3> QED  BY <1>1, <3>1, <3>2, <3>3, <3>6, <3>7 DEF B
  <2> QED  BY <2>1, <2>2
<1> HIDE DEF A, B, n
<1>4. Cardinality(A) \in Nat /\ Cardinality(B) \in Nat  BY <1>2, <1>3, FS_CardinalityType
<1>5. /\ IsFiniteSet(A \cup B) /\ IsFiniteSet(A \cap B)
      /\ Cardinality(A \cup B) = Cardinality(A) + Cardinality(B) - Cardinality(A \cap B)
  BY <1>2, <1>3, FS_Union, FS_Intersection
<1>6. Cardinality(A \cap B) \in Nat /\ Cardinality(A \cup B) \in Nat  BY <1>5, FS_CardinalityType
<1>7. Cardinality(A \cup B) < Half  BY <1>1, <1>2, <1>3, <1>4, <1>5, <1>6, HalfFacts
<1> QED  BY <1>5, <1>6, <1>7 DEF Known, A, B

\* Rows with different keys are as many as their keys, so an int holds the
\* place of each.
LEMMA RowsAreFew ==
  ASSUME NEW K, IsFiniteSet(K), NEW R, OneRowEach(R), Keys(R) \subseteq K
  PROVE  /\ IsFiniteSet(R) /\ Cardinality(R) \in Nat /\ Cardinality(R) <= Cardinality(K)
         /\ IsFiniteSet(Keys(R)) /\ Cardinality(Keys(R)) = Cardinality(R)
<1> DEFINE f == [r \in R |-> KeyOf(r)]
<1>1. /\ f \in [R -> Keys(R)] /\ \A z \in Keys(R) : \E r \in R : f[r] = z
      /\ \A r, q \in R : f[r] = f[q] => r = q
  BY DEF KeyOf, Keys, OneRowEach
<1> HIDE DEF f
<1>2. f \in [R -> K]  BY <1>1
<1>3. f \in Injection(R, K)  BY <1>1, <1>2 DEF Injection, IsInjective
<1>4. IsFiniteSet(R) /\ Cardinality(R) <= Cardinality(K)  BY <1>3, FS_Injection
<1>5. IsFiniteSet(Keys(R)) /\ Cardinality(Keys(R)) = Cardinality(R)  BY <1>1, <1>4, SameSize
<1> QED  BY <1>4, <1>5, FS_CardinalityType

LEMMA SumsAreFew ==
  ASSUME TypeInv, CountInv, NEW R, R \in {Sums, before["md5_sum"]}
  PROVE  IsFiniteSet(R) /\ Cardinality(R) \in Nat /\ Cardinality(R) < Half
<1>1. PICK C \in Catalogs :
         /\ Keys(Sums) \subseteq Known(C) /\ Keys(before["md5_sum"]) \subseteq Known(C)
         /\ exported.checksums # NoFile => Len(exported.checksums) <= Cardinality(C)
  BY DEF CountInv
<1>2. IsFiniteSet(Known(C)) /\ Cardinality(Known(C)) \in Nat /\ Cardinality(Known(C)) < Half
  BY <1>1, KnownIsSmall DEF TypeInv
<1>3. OneRowEach(R) /\ Keys(R) \subseteq Known(C)  BY <1>1 DEF TypeInv, TablesOK, Sums
<1>4. IsFiniteSet(R) /\ Cardinality(R) \in Nat /\ Cardinality(R) <= Cardinality(Known(C))
  BY <1>2, <1>3, RowsAreFew
<1> QED  BY <1>2, <1>4, HalfFacts

LEMMA EntriesAreFinite ==
  ASSUME NEW t, TablesOK(t)
  PROVE  IsFiniteSet(t["work_entry"])
<1> DEFINE E == t["work_entry"]
           f == [e \in E |-> e.uuid]
<1>1. E \subseteq EntryType /\ OneEntryEach(E)  BY DEF TablesOK
<1>2. f \in [E -> Uuid] /\ \A e, g \in E : f[e] = f[g] => e = g
  BY <1>1 DEF EntryType, OneEntryEach
<1> HIDE DEF f, E
<1>3. f \in Injection(E, Uuid)  BY <1>2 DEF Injection, IsInjective
<1>4. IsFiniteSet(E)  BY <1>3, FS_Injection, MaintenanceAssumption
<1> QED  BY <1>4 DEF E

\* What an export writes.
LEMMA ExportedEntries ==
  ASSUME NEW t, TablesOK(t), NEW rows \in SUBSET t["work_entry"], NEW s, s = Listed(rows)
  PROVE  s \in Seq(EntryType) /\ OnceEach(s)
<1>1. rows \subseteq EntryType /\ OneEntryEach(rows)  BY DEF TablesOK, OneEntryEach
<1>2. /\ s \in Seq(rows)
      /\ \A i, j \in DOMAIN s : s[i] = s[j] => i = j
  <2>1. IsFiniteSet(t["work_entry"])  BY EntriesAreFinite
  <2>2. IsFiniteSet(rows)  BY <2>1, FS_Subset
  <2> QED  BY <2>2, SetToSeqFacts DEF Listed
<1>3. \A i \in DOMAIN s : s[i] \in rows  BY <1>2
<1>4. OnceEach(s)  BY <1>1, <1>2, <1>3 DEF OnceEach, OneEntryEach
<1>5. s \in Seq(EntryType)  BY <1>1, <1>2
<1> QED  BY <1>4, <1>5

LEMMA ExportedSums ==
  ASSUME NEW t, TablesOK(t), IsFiniteSet(t["md5_sum"]), NEW s, s = Listed(t["md5_sum"])
  PROVE  s \in Seq(SumType) /\ Len(s) = Cardinality(t["md5_sum"])
<1>1. t["md5_sum"] \subseteq SumType  BY DEF TablesOK
<1>2. s \in Seq(t["md5_sum"]) /\ Len(s) = Cardinality(t["md5_sum"])
  BY SetToSeqFacts DEF Listed
<1> QED  BY <1>1, <1>2

\* The rows of the first catalog.
LEMMA FirstTables ==
  ASSUME NEW C \in Catalogs, NEW t,
         t = [work_entry |-> {Entry(u) : u \in Uuid},
              md5_sum |-> {SumRow(k[1], k[2], k[3], k[4]) : k \in C}]
  PROVE  /\ TablesOK(t) /\ IsFiniteSet(t["md5_sum"]) /\ Cardinality(t["md5_sum"]) <= Cardinality(C)
         /\ Keys(t["md5_sum"]) \subseteq CatalogKeys(C)
<1> DEFINE R == {SumRow(k[1], k[2], k[3], k[4]) : k \in C}
           E == {Entry(u) : u \in Uuid}
           row == [k \in C |-> SumRow(k[1], k[2], k[3], k[4])]
<1>1. /\ IsFiniteSet(C)
      /\ \A k \in C : k[1] \in Uuid /\ k[3] \in 0..IntSpan \div 2 - 1 /\ k[4] \in 0..IntSpan \div 2 - 1
      /\ \A k, l \in C : k[1] = l[1] /\ k[2] = l[2] => k = l
  BY MaintenanceAssumption
<1>2. ASSUME NEW k \in C
      PROVE  /\ SumRow(k[1], k[2], k[3], k[4]) \in SumType
             /\ SumRow(k[1], k[2], k[3], k[4]).uuid = k[1]
             /\ SumRow(k[1], k[2], k[3], k[4]).md5_sum = k[2]
  <2>1. k[3] \in ColumnInt /\ k[4] \in ColumnInt
    BY <1>1, HalfFacts DEF Half
  <2>2. MaxSeqNum \in ColumnInt
    <3>1. Half >= 1
      <4>1. 2 * Cardinality(C) < Half /\ Cardinality(C) \in Nat
        BY <1>1, FS_CardinalityType, MaintenanceAssumption DEF Half
      <4> QED  BY <4>1, HalfFacts
    <3> QED  BY <3>1, HalfFacts DEF MaxSeqNum
  <2>3. k[2] \in Digest  BY DEF Digest
  <2>4. k[2] \in SecId /\ "id" \in SecId  BY <2>3 DEF SecId
  <2> QED  BY <1>1, <2>1, <2>2, <2>3, <2>4 DEF SumRow, SumType
<1>3. R \subseteq SumType /\ OneRowEach(R)
  <2> DEFINE f(k) == SumRow(k[1], k[2], k[3], k[4])
  <2>1. R = {f(k) : k \in C}  OBVIOUS
  <2>2. \A k \in C : f(k) \in SumType /\ f(k).uuid = k[1] /\ f(k).md5_sum = k[2]  BY <1>2
  <2> HIDE DEF f, R
  <2> QED  BY <1>1, <2>1, <2>2 DEF OneRowEach
<1>4. E \subseteq EntryType /\ OneEntryEach(E)
  <2>1. \A u \in Uuid : Entry(u) \in EntryType /\ Entry(u).uuid = u
    BY DEF Entry, EntryType, Urls
  <2> QED  BY <2>1 DEF OneEntryEach
<1>5. R = {row[k] : k \in C} /\ DOMAIN row = C  OBVIOUS
<1>6. Keys(R) \subseteq CatalogKeys(C)
  <2> DEFINE f(k) == SumRow(k[1], k[2], k[3], k[4])
  <2>1. R = {f(k) : k \in C}  OBVIOUS
  <2>2. \A k \in C : f(k).uuid = k[1] /\ f(k).md5_sum = k[2]  BY <1>2
  <2> HIDE DEF f, R
  <2> QED  BY <2>1, <2>2 DEF Keys, CatalogKeys
<1>7. t["md5_sum"] = R /\ t["work_entry"] = E  OBVIOUS
<1>8. t = [name \in {"work_entry", "md5_sum"} |-> t[name]]
  <2> HIDE DEF R, E
  <2> QED  OBVIOUS
<1> HIDE DEF row, R, E
<1>9. IsFiniteSet(R) /\ Cardinality(R) <= Cardinality(C)  BY <1>1, <1>5, ImageSize
<1> QED  BY <1>3, <1>4, <1>6, <1>7, <1>8, <1>9 DEF TablesOK

----------------------------------------------------------------------------
(* Types: what the commands plan.                                           *)

LEMMA CallIsTyped ==
  ASSUME NEW op, NEW row, NEW onfail \in OnFail, NEW c, c = Call(op, row, onfail)
  PROVE  /\ c.op = op /\ c.row = row /\ c.onfail = onfail
         /\ op \in EntryOps /\ row \in EntryType => c \in CallType
         /\ op \in SumOps /\ row \in WideType => c \in CallType
         /\ op = "DeleteWorkEntry" /\ row \in [uuid : Uuid] => c \in CallType
BY DEF Call, CallType, EntryCalls, SumCalls, DeleteCalls

LEMMA SequenceFacts ==
  ASSUME NEW T, NEW s \in Seq(T)
  PROVE  Len(s) \in Nat /\ DOMAIN s = 1..Len(s) /\ \A i \in DOMAIN s : s[i] \in T
OBVIOUS

LEMMA MappedSequence ==
  ASSUME NEW n \in Nat, NEW T, NEW q, q = [i \in 1..n |-> q[i]], \A i \in 1..n : q[i] \in T
  PROVE  q \in Seq(T) /\ Len(q) = n /\ DOMAIN q = 1..n
<1>1. q \in [1..n -> T]  OBVIOUS
<1> QED  BY <1>1

\* Calls whose rows are known may be planned.
LEMMA PlanIsTyped ==
  ASSUME TypeInv, CountInv, NEW name, name # "none", NEW works, NEW calls \in Seq(CallType),
         \A i \in DOMAIN calls : calls[i].op \in SumOps =>
           KeyOf(calls[i].row) \in Keys(Sums) \cup MisreadKeys,
         Plan(name, works, calls)
  PROVE  TypeInv' /\ CountInv'
<1>1. /\ command' = [name |-> name, works |-> works] /\ todo' = calls
      /\ failed' = FALSE /\ before' = tables /\ tables' = tables /\ exported' = exported
  BY DEF Plan, Begin
<1>2. command' # NoCommand /\ command' = [name |-> command'.name, works |-> command'.works]
  BY <1>1 DEF NoCommand
<1>3. TypeInv'  BY <1>1, <1>2 DEF TypeInv, TablesOK, FilesOK
<1>4. CountInv'
  <2>1. PICK C \in Catalogs :
          /\ Keys(Sums) \subseteq Known(C)
          /\ exported.checksums # NoFile => Len(exported.checksums) <= Cardinality(C)
    BY DEF CountInv
  <2>2. MisreadKeys \subseteq Known(C)  BY DEF Known
  <2>3. MisreadKeys' = MisreadKeys  BY <1>1 DEF MisreadKeys
  <2>4. Known(C)' = Known(C)  BY <2>3 DEF Known
  <2>5. Sums' = Sums /\ before'["md5_sum"] = Sums  BY <1>1 DEF Sums
  <2> QED  BY <1>1, <2>1, <2>2, <2>4, <2>5 DEF CountInv
<1> QED  BY <1>3, <1>4

\* So may calls on entries.
LEMMA EntryPlanIsTyped ==
  ASSUME TypeInv, CountInv, NEW name, name # "none", NEW works, NEW calls \in Seq(CallType),
         \A i \in DOMAIN calls : calls[i].op \notin SumOps, Plan(name, works, calls)
  PROVE  TypeInv' /\ CountInv'
BY PlanIsTyped

LEMMA OneCall ==
  ASSUME NEW c \in CallType
  PROVE  <<c>> \in Seq(CallType) /\ \A i \in DOMAIN <<c>> : <<c>>[i] = c
OBVIOUS

\* One call for each entry of an order.
LEMMA CallPerEntry ==
  ASSUME NEW s \in Seq(EntryType), NEW op \in EntryOps, NEW calls,
         calls = [i \in DOMAIN s |-> calls[i]],
         \A i \in DOMAIN s : \E e \in EntryType : calls[i] = Call(op, e, "go on")
  PROVE  calls \in Seq(CallType) /\ \A i \in DOMAIN calls : calls[i].op \notin SumOps
<1>1. Len(s) \in Nat /\ DOMAIN s = 1..Len(s)  BY SequenceFacts
<1> DEFINE go == "go on"
<1>2. go \in OnFail  BY DEF OnFail
<1>3. op \notin SumOps  BY DEF EntryOps, SumOps
<1>4. ASSUME NEW i \in DOMAIN s PROVE calls[i] \in CallType /\ calls[i].op \notin SumOps
  <2> DEFINE c == calls[i]
  <2>1. PICK e \in EntryType : c = Call(op, e, go)  OBVIOUS
  <2> HIDE DEF c, go
  <2>2. c \in CallType /\ c.op = op  BY ONLY op \in EntryOps, <1>2, <2>1, CallIsTyped
  <2> QED  BY <1>3, <2>2 DEF c
<1>5. calls \in Seq(CallType) /\ DOMAIN calls = DOMAIN s  BY <1>1, <1>4, MappedSequence
<1> QED  BY <1>4, <1>5

LEMMA OrderFacts ==
  ASSUME NEW S, IsFiniteSet(S), NEW s \in Orders(S)
  PROVE  /\ s \in Seq(S) /\ Len(s) = Cardinality(S) /\ Len(s) \in Nat /\ DOMAIN s = 1..Len(s)
         /\ \A x \in S : \E i \in DOMAIN s : s[i] = x
         /\ \A i, j \in DOMAIN s : s[i] = s[j] => i = j
BY SetToSeqFacts, FS_CardinalityType DEF Orders

----------------------------------------------------------------------------
(* Types: the commands.                                                     *)

LEMMA ResizedIsTyped ==
  ASSUME NEW e \in EntryType, NEW n \in Sizes
  PROVE  Resized(e, n) \in EntryType
BY MaintenanceAssumption DEF Resized, EntryType

LEMMA ChangeSizeTyped ==
  ASSUME TypeInv, CountInv, NEW u \in Uuid, NEW n \in Sizes, ChangeSize(u, n)
  PROVE  TypeInv' /\ CountInv'
<1>1. DB!ReadWorkEntry(tables, u).rows \subseteq tables["work_entry"]  BY Reads
<1>2. PICK e \in DB!ReadWorkEntry(tables, u).rows :
        Plan("size", {u}, <<Call("UpdateWorkEntry", Resized(e, n), "return")>>)
  BY DEF ChangeSize
<1>3. e \in EntryType  BY <1>1 DEF TypeInv, TablesOK
<1> DEFINE c == Call("UpdateWorkEntry", Resized(e, n), "return")
<1> DEFINE f == Resized(e, n)
<1>4. c \in CallType /\ c.op \notin SumOps
  <2>1. f \in EntryType /\ c = Call("UpdateWorkEntry", f, "return") /\ "return" \in OnFail
    BY <1>3, ResizedIsTyped DEF OnFail
  <2> HIDE DEF c, f
  <2>2. c \in CallType /\ c.op = "UpdateWorkEntry"  BY <2>1, CallIsTyped DEF EntryOps
  <2> QED  BY <2>2 DEF SumOps
<1>5. Plan("size", {u}, <<c>>)  BY <1>2
<1> HIDE DEF c
<1> DEFINE calls == <<c>>
<1>6. calls \in Seq(CallType) /\ \A i \in DOMAIN calls : calls[i].op \notin SumOps
  BY <1>4, OneCall
<1> HIDE DEF calls
<1> QED  BY <1>5, <1>6, EntryPlanIsTyped DEF calls

LEMMA ChangeSizeAllTyped ==
  ASSUME TypeInv, CountInv, NEW n \in Sizes, NEW after, NEW source, ChangeSizeAll(n, after, source)
  PROVE  TypeInv' /\ CountInv'
<1> DEFINE hit == {e \in DB!GetWorkEntryList(tables).rows :
                     e.update_date > after /\ e.source = source}
<1>1. hit \subseteq tables["work_entry"]  BY Reads
<1>2. hit \subseteq EntryType /\ IsFiniteSet(hit)
  BY <1>1, EntriesAreFinite, FS_Subset DEF TypeInv, TablesOK
<1> DEFINE works == {e.uuid : e \in hit}
<1>3. PICK s \in Orders(hit) :
        Plan("sizeall", works,
             [i \in DOMAIN s |-> Call("UpdateWorkEntry", Resized(s[i], n), "go on")])
  BY DEF ChangeSizeAll
<1> HIDE DEF hit, works
<1>4. s \in Seq(EntryType)  BY <1>2, OrderFacts
<1> DEFINE calls == [i \in DOMAIN s |-> Call("UpdateWorkEntry", Resized(s[i], n), "go on")]
<1>5. \A i \in DOMAIN s : Resized(s[i], n) \in EntryType
  BY <1>4, ResizedIsTyped
<1>6. \A i \in DOMAIN s : \E e \in EntryType : calls[i] = Call("UpdateWorkEntry", e, "go on")
  BY <1>5
<1>7. calls = [i \in DOMAIN s |-> calls[i]]  OBVIOUS
<1> HIDE DEF calls
<1>8. calls \in Seq(CallType) /\ \A i \in DOMAIN calls : calls[i].op \notin SumOps
  BY <1>4, <1>6, <1>7, CallPerEntry DEF EntryOps
<1> QED  BY <1>3, <1>8, EntryPlanIsTyped DEF calls

LEMMA DeleteEntryTyped ==
  ASSUME TypeInv, CountInv, NEW u \in Uuid, DeleteEntry(u)
  PROVE  TypeInv' /\ CountInv'
<1> DEFINE c == Call("DeleteWorkEntry", [uuid |-> u], "return")
<1> DEFINE row == [uuid |-> u]
<1>1. c \in CallType /\ c.op \notin SumOps
  <2>1. row \in [uuid : Uuid] /\ c = Call("DeleteWorkEntry", row, "return") /\ "return" \in OnFail
    BY DEF OnFail
  <2> HIDE DEF c, row
  <2>2. c \in CallType /\ c.op = "DeleteWorkEntry"  BY <2>1, CallIsTyped
  <2> QED  BY <2>2 DEF SumOps
<1>2. Plan("delete", {u}, <<c>>)  BY DEF DeleteEntry
<1> HIDE DEF c
<1> DEFINE calls == <<c>>
<1>3. calls \in Seq(CallType) /\ \A i \in DOMAIN calls : calls[i].op \notin SumOps
  BY <1>1, OneCall
<1> HIDE DEF calls
<1> QED  BY <1>2, <1>3, EntryPlanIsTyped DEF calls

\* What becomes of a line of a row.
LEMMA LineFacts ==
  ASSUME NEW e \in EntryType
  PROVE  /\ Processed(e) \in EntryType /\ Processed(e).uuid = e.uuid
         /\ Text[e.uuid] \in {"plain", "newline", "comma"}
         /\ \E op \in {"ImportEntry", "SkipLine", "Throw"} :
              /\ ImportLine(e) = Call(op, Processed(e), "go on")
              /\ op = "ImportEntry" <=> Text[e.uuid] = "plain"
              /\ op = "Throw" <=> Text[e.uuid] = "comma"
<1>1. Processed(e) \in EntryType /\ Processed(e).uuid = e.uuid  BY DEF EntryType, Processed
<1>2. Text[e.uuid] \in {"plain", "newline", "comma"}
  BY MaintenanceAssumption DEF EntryType
<1>3. /\ LineRead["plain"] = "ImportEntry" /\ LineRead["newline"] = "SkipLine"
      /\ LineRead["comma"] = "Throw"
  BY DEF LineRead
<1> QED  BY <1>1, <1>2, <1>3 DEF ImportLine

LEMMA ImportEntriesTyped ==
  ASSUME TypeInv, CountInv, ImportEntries
  PROVE  TypeInv' /\ CountInv'
<1> DEFINE s == exported.entries
           calls == [i \in DOMAIN s |-> ImportLine(s[i])]
<1>1. s \in Seq(EntryType)  BY DEF ImportEntries, TypeInv, FilesOK
<1>2. Plan("import", Uuid, calls)  BY DEF ImportEntries
<1> HIDE DEF s
<1>3. \A i \in DOMAIN s : calls[i] \in CallType /\ calls[i].op \notin SumOps
  <2> SUFFICES ASSUME NEW e \in EntryType
               PROVE  ImportLine(e) \in CallType /\ ImportLine(e).op \notin SumOps
    BY <1>1, SequenceFacts
  <2>1. PICK op \in {"ImportEntry", "SkipLine", "Throw"} :
          ImportLine(e) = Call(op, Processed(e), "go on")
    BY LineFacts
  <2>2. op \in EntryOps /\ op \notin SumOps /\ "go on" \in OnFail  BY DEF EntryOps, SumOps, OnFail
  <2> DEFINE c == ImportLine(e)
             go == "go on"
             row == Processed(e)
  <2>3. row \in EntryType /\ go \in OnFail /\ c = Call(op, row, go)
    BY <2>1, <2>2, LineFacts
  <2> HIDE DEF c, go, row
  <2>4. c.op = op /\ c \in CallType
    <3>1. c.op = op  BY ONLY <2>3 DEF Call
    <3>2. c \in EntryCalls  BY ONLY <2>2, <2>3 DEF Call, EntryCalls
    <3> QED  BY ONLY <3>1, <3>2 DEF CallType
  <2> QED  BY <2>2, <2>4 DEF c
<1>4. calls \in Seq(CallType)
  <2>1. Len(s) \in Nat /\ DOMAIN s = 1..Len(s)  BY <1>1, SequenceFacts
  <2> HIDE DEF calls
  <2>2. calls \in [1..Len(s) -> CallType]  BY <1>3, <2>1 DEF calls
  <2> QED  BY <2>1, <2>2
<1>5. DOMAIN calls = DOMAIN s  OBVIOUS
<1> HIDE DEF calls
<1> QED  BY <1>2, <1>3, <1>4, <1>5, EntryPlanIsTyped

LEMMA ReorderMd5Typed ==
  ASSUME TypeInv, CountInv, NEW source, NEW exact, ReorderMd5(source, exact)
  PROVE  TypeInv' /\ CountInv'
<1> DEFINE target == {e \in DB!GetWorkEntryList(tables).rows :
                        e.source = source /\ exact \in {NoUuid, e.uuid}}
           works == {e.uuid : e \in target}
<1>1. target \subseteq tables["work_entry"]  BY Reads
<1>2. target \subseteq EntryType /\ IsFiniteSet(target)
  BY <1>1, EntriesAreFinite, FS_Subset DEF TypeInv, TablesOK
<1>3. PICK s \in Orders(target) :
        Plan("reorder", works, [i \in DOMAIN s |-> Call("ReorderWork", s[i], "go on")])
  BY DEF ReorderMd5
<1> HIDE DEF target, works
<1>4. s \in Seq(EntryType)  BY <1>2, OrderFacts
<1> DEFINE calls == [i \in DOMAIN s |-> Call("ReorderWork", s[i], "go on")]
<1>5. \A i \in DOMAIN s : \E e \in EntryType : calls[i] = Call("ReorderWork", e, "go on")
  <2>1. \A i \in DOMAIN s : s[i] \in EntryType  BY <1>4, SequenceFacts
  <2> QED  BY <2>1
<1>6. calls = [i \in DOMAIN s |-> calls[i]]  OBVIOUS
<1> HIDE DEF calls
<1>7. calls \in Seq(CallType) /\ \A i \in DOMAIN calls : calls[i].op \notin SumOps
  BY <1>4, <1>5, <1>6, CallPerEntry DEF EntryOps
<1> QED  BY <1>3, <1>7, EntryPlanIsTyped DEF calls

LEMMA UpdateIdentifierTyped ==
  ASSUME TypeInv, CountInv, UpdateMd5Identifier
  PROVE  TypeInv' /\ CountInv'
<1> DEFINE old == {r \in DB!GetChecksumList(tables).rows : r.sec_id \in OldStyle}
           new(r) == [r EXCEPT !.sec_id = "id", !.seq_num = SeqOfUrl[r.sec_id]]
<1>1. old \subseteq Sums  BY Reads DEF Sums
<1>2. old \subseteq SumType /\ IsFiniteSet(old)
  <2>1. IsFiniteSet(Sums)  BY SumsAreFew
  <2> QED  BY <1>1, <2>1, FS_Subset DEF TypeInv, TablesOK, Sums
<1>3. PICK s \in Orders(old) :
        Plan("updateidentifier", Uuid,
             [i \in DOMAIN s |-> Call("UpdateMd5SumByIndexNum", new(s[i]), "go on")])
  BY DEF UpdateMd5Identifier
<1> DEFINE calls == [i \in DOMAIN s |-> Call("UpdateMd5SumByIndexNum", new(s[i]), "go on")]
<1>4. \A r \in old : new(r) \in WideType /\ KeyOf(new(r)) \in Keys(Sums)
  <2> SUFFICES ASSUME NEW r \in old PROVE new(r) \in WideType /\ KeyOf(new(r)) \in Keys(Sums)
    OBVIOUS
  <2>1. r \in SumType /\ r.sec_id \in OldStyle /\ r \in Sums  BY <1>1, <1>2
  <2>2. SeqOfUrl[r.sec_id] \in Int  BY <2>1, MaintenanceAssumption
  <2>3. "id" \in SecId  BY DEF SecId
  <2> DEFINE q == new(r)
  <2>4. q \in WideType /\ q.uuid = r.uuid /\ q.md5_sum = r.md5_sum
    BY <2>1, <2>2, <2>3, HalfFacts DEF SumType, WideType
  <2> HIDE DEF q
  <2> QED  BY <2>1, <2>4 DEF KeyOf, Keys, q
<1> HIDE DEF old, new
<1>5. s \in Seq(old) /\ Len(s) \in Nat /\ DOMAIN s = 1..Len(s)  BY <1>2, OrderFacts
<1>6. ASSUME NEW i \in DOMAIN s
      PROVE  /\ calls[i] \in CallType /\ calls[i].row = new(s[i])
             /\ KeyOf(new(s[i])) \in Keys(Sums)
  <2>1. new(s[i]) \in WideType /\ KeyOf(new(s[i])) \in Keys(Sums)  BY <1>4, <1>5, SequenceFacts
  <2> DEFINE c == calls[i]
             q == new(s[i])
             go == "go on"
  <2>2. c = Call("UpdateMd5SumByIndexNum", q, go) /\ go \in OnFail
    BY DEF OnFail
  <2>3. q \in WideType  BY <2>1
  <2> HIDE DEF c, q, go
  <2>4. c \in CallType /\ c.row = q  BY <2>2, <2>3, CallIsTyped DEF SumOps
  <2> QED  BY <2>1, <2>4 DEF c, q
<1>7. calls = [i \in 1..Len(s) |-> calls[i]]  BY <1>5
<1> HIDE DEF calls
<1>8. calls \in Seq(CallType) /\ DOMAIN calls = DOMAIN s  BY <1>5, <1>6, <1>7, MappedSequence
<1> QED  BY <1>3, <1>6, <1>8, PlanIsTyped DEF calls

\* The rows before the first that throws.
LEMMA GoodRows ==
  ASSUME NEW s \in Seq(SumType)
  PROVE  LET Throws(r) == r.md5_sum \notin DOMAIN LeadingNumber
             stop == {i \in DOMAIN s : Throws(s[i])}
             good == IF stop = {} THEN Len(s)
                     ELSE (CHOOSE i \in stop : \A j \in stop : i <= j) - 1
         IN  /\ good \in Nat /\ 1..good \subseteq DOMAIN s
             /\ \A i \in 1..good : s[i].md5_sum \in DOMAIN LeadingNumber
<1> DEFINE stop == {i \in DOMAIN s : s[i].md5_sum \notin DOMAIN LeadingNumber}
           first == CHOOSE i \in stop : \A j \in stop : i <= j
<1>1. Len(s) \in Nat /\ DOMAIN s = 1..Len(s)  BY SequenceFacts
<1>2. stop \subseteq 1..Len(s)  BY <1>1
<1>3. \A i \in DOMAIN s : i \notin stop => s[i].md5_sum \in DOMAIN LeadingNumber  OBVIOUS
<1>4. CASE stop = {}  BY <1>1, <1>3, <1>4
<1>5. CASE stop # {}
  <2>1. stop \subseteq Nat  BY <1>1, <1>2
  <2>2. first \in stop /\ \A j \in stop : first <= j
    <3> HIDE DEF stop
    <3> QED  BY <1>5, <2>1, Least
  <2> HIDE DEF first, stop
  <2> DEFINE good == first - 1
  <2>3. /\ good \in Nat /\ 1..good \subseteq DOMAIN s
        /\ \A i \in 1..good : i \notin stop
    BY <1>1, <1>2, <2>2
  <2>4. \A i \in 1..good : s[i].md5_sum \in DOMAIN LeadingNumber  BY <1>3, <2>3
  <2> HIDE DEF good
  <2> QED  BY <1>5, <2>3, <2>4 DEF good, stop, first
<1> QED  BY <1>4, <1>5

LEMMA MisreadIsTyped ==
  ASSUME NEW r \in SumType, r.md5_sum \in DOMAIN LeadingNumber
  PROVE  Misread(r) \in WideType /\ KeyOf(Misread(r)) = MisreadKey(r)
<1> DEFINE n == AsSize(r.index_num)
           d == ToString(n)
           m == LeadingNumber[r.md5_sum]
           q == [r EXCEPT !.md5_sum = d, !.index_num = m]
<1>1. n \in Nat  BY AsSizeFacts DEF SumType
<1>2. d \in Digest  BY <1>1 DEF Digest
<1>3. m \in Int  BY MaintenanceAssumption
<1>4. Misread(r) = q  BY DEF Misread
<1>5. MisreadKey(r) = <<r.uuid, d>>  BY DEF MisreadKey
<1> HIDE DEF n, d, m
<1>6. q \in WideType /\ q.uuid = r.uuid /\ q.md5_sum = d
  BY <1>2, <1>3, HalfFacts DEF SumType, WideType
<1> HIDE DEF q
<1> QED  BY <1>4, <1>5, <1>6 DEF KeyOf

LEMMA ImportChecksumsTyped ==
  ASSUME TypeInv, CountInv, ImportChecksums
  PROVE  TypeInv' /\ CountInv'
<1> DEFINE s == exported.checksums
           stop == {i \in DOMAIN s : s[i].md5_sum \notin DOMAIN LeadingNumber}
           good == IF stop = {} THEN Len(s)
                   ELSE (CHOOSE i \in stop : \A j \in stop : i <= j) - 1
           calls == [i \in 1..good |-> Call("ImportChecksum", Misread(s[i]), "return")]
<1>1. exported.checksums # NoFile /\ s \in Seq(SumType)
  BY DEF ImportChecksums, TypeInv, FilesOK
<1>2. Plan("import checksums", Uuid, calls)  BY DEF ImportChecksums
<1>3. /\ good \in Nat /\ 1..good \subseteq DOMAIN s
      /\ \A i \in 1..good : s[i].md5_sum \in DOMAIN LeadingNumber
  <2> HIDE DEF s
  <2> QED  BY <1>1, GoodRows
<1>4. MisreadKeys = {MisreadKey(r) : r \in ToSet(s)}  BY <1>1 DEF MisreadKeys
<1> HIDE DEF s, good
<1>5. ASSUME NEW i \in 1..good
      PROVE  calls[i] \in CallType /\ KeyOf(calls[i].row) \in MisreadKeys
  <2>1. s[i] \in SumType /\ s[i].md5_sum \in DOMAIN LeadingNumber /\ s[i] \in ToSet(s)
    BY <1>1, <1>3, SequenceFacts DEF ToSet
  <2> DEFINE q == Misread(s[i])
  <2>2. q \in WideType /\ KeyOf(q) \in MisreadKeys  BY <1>4, <2>1, MisreadIsTyped
  <2>3. calls[i] = Call("ImportChecksum", q, "return") /\ "return" \in OnFail  BY DEF OnFail
  <2> HIDE DEF calls, q
  <2> QED  BY <2>2, <2>3, CallIsTyped DEF SumOps
<1>6. calls = [i \in 1..good |-> calls[i]]  OBVIOUS
<1> HIDE DEF calls
<1>7. calls \in Seq(CallType) /\ DOMAIN calls = 1..good  BY <1>3, <1>5, <1>6, MappedSequence
<1> QED  BY <1>2, <1>5, <1>7, PlanIsTyped

LEMMA PlaceIsNatural ==
  ASSUME NEW s, NEW k \in Nat \ {0}
  PROVE  Place(s, k) \in Nat /\ Place(s, k) < k
<1> DEFINE D == 1..k - 1
           S == {j \in D : s[j].uuid = s[k].uuid}
<1>1. IsFiniteSet(D) /\ Cardinality(D) = k - 1
  <2>1. 1 \in Int /\ k - 1 \in Int  OBVIOUS
  <2> DEFINE n == k - 1
  <2>2. IsFiniteSet(1..n) /\ Cardinality(1..n) = IF 1 > n THEN 0 ELSE n - 1 + 1
    <3> HIDE DEF n
    <3> QED  BY <2>1, FS_Interval DEF n
  <2> QED  BY <2>1, <2>2
<1>2. S \subseteq D  OBVIOUS
<1> HIDE DEF D
<1>3. IsFiniteSet(S) /\ Cardinality(S) \in Nat /\ Cardinality(S) <= Cardinality(D)
  BY <1>1, <1>2, FS_Subset, FS_CardinalityType
<1> HIDE DEF S
<1>4. Cardinality(S) \in Nat /\ Cardinality(S) < k  BY <1>1, <1>3
<1> QED  BY <1>4 DEF Place, D, S

\* A row of the table in another place.
LEMMA RowAtIsTyped ==
  ASSUME NEW r \in SumType, NEW n \in Int, NEW q, q = [r EXCEPT !.index_num = n]
  PROVE  /\ q \in WideType /\ KeyOf(q) = KeyOf(r)
         /\ q.uuid = r.uuid /\ q.index_num = n /\ q.seq_num = r.seq_num
         /\ n \in ColumnInt => q \in SumType
<1>1. q \in WideType /\ q.uuid = r.uuid /\ q.md5_sum = r.md5_sum /\ q.index_num = n
      /\ q.seq_num = r.seq_num
  BY HalfFacts DEF SumType, WideType
<1>2. n \in ColumnInt => q \in SumType  BY HalfFacts DEF SumType
<1> QED  BY <1>1, <1>2 DEF KeyOf

\* The calls of squash and of reorder for one row of an order of the rows.
LEMMA RowCallsAreTyped ==
  ASSUME NEW R \in SUBSET SumType, NEW s \in Seq(R), NEW k \in DOMAIN s, NEW t, NEW f,
         f = SquashCalls(t, s, k) \/ f = ReorderCalls(s, k)
  PROVE  /\ f \in Seq(CallType)
         /\ \A i \in DOMAIN f : f[i].op \in SumOps /\ KeyOf(f[i].row) \in Keys(R)
<1> DEFINE r == s[k]
           q == [r EXCEPT !.index_num = Place(s, k)]
           delete == Call("DeleteMd5Sum", r, "return")
           create == Call("CreateMd5Sum", q, "return")
           update == Call("UpdateMd5SumBySeqNum", q, "break")
<1>1. r \in SumType /\ KeyOf(r) \in Keys(R)  BY SequenceFacts DEF KeyOf, Keys
<1>2. Place(s, k) \in Int
  <2>1. k \in Nat \ {0}  BY SequenceFacts
  <2> QED  BY <2>1, PlaceIsNatural
<1>3. f \in {<<delete, create>>, <<update>>, << >>}  BY DEF SquashCalls, ReorderCalls
<1>4. {"return", "break"} \subseteq OnFail  BY DEF OnFail
<1>5. {"DeleteMd5Sum", "CreateMd5Sum", "UpdateMd5SumBySeqNum"} \subseteq SumOps  BY DEF SumOps
<1> HIDE DEF r
<1>6. q \in WideType /\ KeyOf(q) = KeyOf(r)  BY <1>1, <1>2, RowAtIsTyped
<1> HIDE DEF q
<1>7. delete \in CallType /\ delete.op \in SumOps /\ delete.row = r
  BY <1>1, <1>4, <1>5, SumsAreWide, CallIsTyped
<1>8. create \in CallType /\ create.op \in SumOps /\ create.row = q
  BY <1>4, <1>5, <1>6, CallIsTyped
<1>9. update \in CallType /\ update.op \in SumOps /\ update.row = q
  BY <1>4, <1>5, <1>6, CallIsTyped
<1> HIDE DEF delete, create, update
<1> DEFINE Fine(c) == c \in CallType /\ c.op \in SumOps /\ KeyOf(c.row) \in Keys(R)
<1>10. Fine(delete) /\ Fine(create) /\ Fine(update)  BY <1>1, <1>6, <1>7, <1>8, <1>9
<1> HIDE DEF Fine
<1>11. \A i \in DOMAIN f : Fine(f[i])  BY <1>3, <1>10
<1>12. f \in Seq(CallType)
  <2>1. <<delete, create>> \in Seq(CallType)  BY <1>7, <1>8
  <2>2. <<update>> \in Seq(CallType) /\ << >> \in Seq(CallType)  BY <1>9
  <2> QED  BY <1>3, <2>1, <2>2
<1> QED  BY <1>11, <1>12 DEF Fine

\* The calls of squash or of reorder for all rows of an order of R.
RowCalls(R, s, seqs) ==
    /\ R \subseteq SumType /\ s \in Seq(R)
    /\ \/ \E t : seqs = [k \in DOMAIN s |-> SquashCalls(t, s, k)]
       \/ seqs = [k \in DOMAIN s |-> ReorderCalls(s, k)]

LEMMA RowCallsAreParts ==
  ASSUME NEW R, NEW s, NEW seqs, RowCalls(R, s, seqs)
  PROVE  /\ Parts(Len(s), CallType, seqs) /\ DOMAIN s = 1..Len(s)
         /\ \A k \in DOMAIN s : \A i \in DOMAIN seqs[k] :
              seqs[k][i].op \in SumOps /\ KeyOf(seqs[k][i].row) \in Keys(R)
<1>1. R \in SUBSET SumType /\ s \in Seq(R) /\ DOMAIN seqs = DOMAIN s /\ seqs = [k \in DOMAIN s |-> seqs[k]]
  BY DEF RowCalls
<1>2. Len(s) \in Nat /\ DOMAIN s = 1..Len(s)  BY <1>1, SequenceFacts
<1>3. ASSUME NEW k \in DOMAIN s
      PROVE  /\ seqs[k] \in Seq(CallType)
             /\ \A i \in DOMAIN seqs[k] : seqs[k][i].op \in SumOps /\ KeyOf(seqs[k][i].row) \in Keys(R)
  <2>1. PICK t : seqs[k] = SquashCalls(t, s, k) \/ seqs[k] = ReorderCalls(s, k)  BY DEF RowCalls
  <2> DEFINE g == seqs[k]
  <2>2. g = SquashCalls(t, s, k) \/ g = ReorderCalls(s, k)  BY <2>1
  <2> HIDE DEF g
  <2>3. /\ g \in Seq(CallType)
        /\ \A i \in DOMAIN g : g[i].op \in SumOps /\ KeyOf(g[i].row) \in Keys(R)
    BY <1>1, <2>2, RowCallsAreTyped
  <2> QED  BY <2>3 DEF g
<1>4. Parts(Len(s), CallType, seqs)  BY <1>1, <1>2, <1>3 DEF Parts
<1> QED  BY <1>2, <1>3, <1>4

LEMMA OrderCallsAreTyped ==
  ASSUME NEW R, NEW s, NEW seqs, RowCalls(R, s, seqs), NEW f, f = FlattenSeq(seqs)
  PROVE  /\ f \in Seq(CallType)
         /\ FromParts(f, Len(s), seqs) /\ HasParts(f, Len(s), seqs)
         /\ \A i \in DOMAIN f : f[i].op \in SumOps /\ KeyOf(f[i].row) \in Keys(R)
<1>1. /\ Parts(Len(s), CallType, seqs) /\ DOMAIN s = 1..Len(s)
      /\ \A k \in DOMAIN s : \A i \in DOMAIN seqs[k] :
           seqs[k][i].op \in SumOps /\ KeyOf(seqs[k][i].row) \in Keys(R)
  BY RowCallsAreParts
<1>2. f \in Seq(CallType) /\ FromParts(f, Len(s), seqs) /\ HasParts(f, Len(s), seqs)
  BY <1>1, FlattenElements
<1>3. \A i \in DOMAIN f : f[i].op \in SumOps /\ KeyOf(f[i].row) \in Keys(R)
  BY <1>1, <1>2 DEF FromParts
<1> QED  BY <1>2, <1>3

LEMMA SquashTyped ==
  ASSUME TypeInv, CountInv, SquashMd5Indexes
  PROVE  TypeInv' /\ CountInv'
<1>1. /\ DB!GetChecksumList(tables).rows = Sums /\ Sums \in SUBSET SumType /\ IsFiniteSet(Sums)
  BY Reads, SumsAreFew DEF Sums, TypeInv, TablesOK
<1>2. PICK s \in Orders(Sums) :
        Plan("squash", Uuid, FlattenSeq([k \in DOMAIN s |-> SquashCalls(tables, s, k)]))
  BY <1>1 DEF SquashMd5Indexes
<1> DEFINE seqs == [k \in DOMAIN s |-> SquashCalls(tables, s, k)]
           f == FlattenSeq(seqs)
<1>3. s \in Seq(Sums)  BY <1>1, OrderFacts
<1>4. RowCalls(Sums, s, seqs)  BY <1>1, <1>3 DEF RowCalls
<1>6. Plan("squash", Uuid, f)  BY <1>2
<1> HIDE DEF seqs
<1>7. /\ f \in Seq(CallType) /\ \A i \in DOMAIN f : KeyOf(f[i].row) \in Keys(Sums)
  BY <1>4, OrderCallsAreTyped
<1> HIDE DEF f
<1> QED  BY <1>6, <1>7, PlanIsTyped

LEMMA ExportTyped ==
  ASSUME TypeInv, CountInv, ExportEntries \/ ExportChecksums
  PROVE  TypeInv' /\ CountInv'
<1>1. /\ command' = [name |-> "export", works |-> {}] /\ todo' = << >>
      /\ failed' = FALSE /\ before' = tables /\ tables' = tables
  BY DEF ExportEntries, ExportChecksums, Begin
<1>2. /\ DB!GetWorkEntryList(tables).rows = tables["work_entry"]
      /\ DB!GetChecksumList(tables).rows = tables["md5_sum"]
      /\ TablesOK(tables) /\ IsFiniteSet(tables["md5_sum"])
  BY Reads, SumsAreFew DEF TypeInv, Sums
<1>0. PICK rows \in {tables["work_entry"], {}} :
        ExportEntries => exported' = [exported EXCEPT !.entries = Listed(rows)]
  BY <1>2 DEF ExportEntries
<1> DEFINE entries == Listed(rows)
           checksums == Listed(tables["md5_sum"])
<1>3. entries \in Seq(EntryType) /\ OnceEach(entries)  BY <1>2, ExportedEntries
<1>4. checksums \in Seq(SumType) /\ Len(checksums) = Cardinality(Sums)
  BY <1>2, ExportedSums DEF Sums
<1>5. \/ exported.entries = NoFile /\ exported' = [exported EXCEPT !.entries = entries]
      \/ exported.checksums = NoFile /\ exported' = [exported EXCEPT !.checksums = checksums]
  BY <1>0, <1>2 DEF ExportEntries, ExportChecksums
<1> HIDE DEF entries, checksums
<1>6. exported = [entries |-> exported.entries, checksums |-> exported.checksums]
  BY DEF TypeInv, FilesOK
<1>7. \/ exported' = [entries |-> entries, checksums |-> exported.checksums]
      \/ exported.checksums = NoFile /\ exported' = [entries |-> exported.entries, checksums |-> checksums]
  BY <1>5, <1>6
<1>8. FilesOK'  BY <1>3, <1>4, <1>7 DEF TypeInv, FilesOK
<1>9. command' # NoCommand /\ command' = [name |-> command'.name, works |-> command'.works]
  BY <1>1 DEF NoCommand
<1>10. TypeInv'
  <2>1. TablesOK(tables)' /\ TablesOK(before)'  BY <1>1, <1>2 DEF TablesOK
  <2>2. (todo \in Seq(CallType))'  BY <1>1
  <2> QED  BY <1>1, <1>8, <1>9, <2>1, <2>2 DEF TypeInv
<1>11. CountInv'
  <2>1. PICK C \in Catalogs :
          /\ Keys(Sums) \subseteq Known(C)
          /\ exported.checksums # NoFile => Len(exported.checksums) <= Cardinality(C)
    BY DEF CountInv
  <2>2. Sums' = Sums /\ before'["md5_sum"] = Sums  BY <1>1 DEF Sums
  <2>3. CASE exported'.checksums = exported.checksums
    <3>1. MisreadKeys' = MisreadKeys  BY <2>3 DEF MisreadKeys
    <3>2. Known(C)' = Known(C)  BY <3>1 DEF Known
    <3> QED  BY <1>1, <2>1, <2>2, <2>3, <3>2 DEF CountInv
  <2>4. CASE exported.checksums = NoFile /\ exported'.checksums = checksums
    <3>1. Keys(Sums) \subseteq CatalogKeys(C)
      <4>1. MisreadKeys = {}  BY <2>4 DEF MisreadKeys
      <4> QED  BY <2>1, <4>1 DEF Known
    <3>2. Len(checksums) <= Cardinality(C)
      <4> DEFINE K == CatalogKeys(C)
                 f == [k \in C |-> <<k[1], k[2]>>]
      <4>1. IsFiniteSet(C)  BY MaintenanceAssumption
      <4>2. K = {f[k] : k \in C} /\ DOMAIN f = C  BY DEF CatalogKeys
      <4> HIDE DEF K, f
      <4>3. IsFiniteSet(K) /\ Cardinality(K) <= Cardinality(C)  BY <4>1, <4>2, ImageSize
      <4>4. OneRowEach(Sums)  BY <1>2 DEF TablesOK, Sums
      <4>5. Keys(Sums) \subseteq K  BY <3>1 DEF K
      <4>6. Cardinality(Sums) \in Nat /\ Cardinality(Sums) <= Cardinality(K)
        BY <4>3, <4>4, <4>5, RowsAreFew
      <4>7. Cardinality(K) \in Nat /\ Cardinality(C) \in Nat  BY <4>1, <4>3, FS_CardinalityType
      <4> QED  BY <1>4, <4>3, <4>6, <4>7
    <3>3. CatalogKeys(C) \subseteq Known(C)'  BY DEF Known
    <3> QED  BY <1>1, <2>2, <2>4, <3>1, <3>2, <3>3 DEF CountInv
  <2> QED  BY <1>7, <2>3, <2>4
<1> QED  BY <1>10, <1>11

----------------------------------------------------------------------------
(* Types: the steps of a command.                                           *)

\* A step that changes the calls that remain, and the tables by what its call adds.
LEMMA RestIsTyped ==
  ASSUME TypeInv, CountInv, command # NoCommand, UNCHANGED <<exported, command, before>>,
         todo' \in Seq(CallType), failed' \in BOOLEAN, TablesOK(tables'),
         \A C \in Catalogs : Keys(Sums) \subseteq Known(C)
             /\ (\A i \in DOMAIN todo : todo[i].op \in SumOps => KeyOf(todo[i].row) \in Known(C)) =>
           /\ Keys(Sums') \subseteq Known(C)
           /\ \A i \in DOMAIN todo' : todo'[i].op \in SumOps => KeyOf(todo'[i].row) \in Known(C)
  PROVE  TypeInv' /\ CountInv'
<1>1. TypeInv'  BY DEF TypeInv, FilesOK, TablesOK
<1>2. PICK C \in Catalogs :
        /\ Keys(Sums) \subseteq Known(C) /\ Keys(before["md5_sum"]) \subseteq Known(C)
        /\ \A i \in DOMAIN todo : todo[i].op \in SumOps => KeyOf(todo[i].row) \in Known(C)
        /\ exported.checksums # NoFile => Len(exported.checksums) <= Cardinality(C)
  BY DEF CountInv
<1>3. MisreadKeys' = MisreadKeys  BY DEF MisreadKeys
<1>4. Known(C)' = Known(C)  BY <1>3 DEF Known
<1>5. /\ Keys(Sums') \subseteq Known(C)
      /\ \A i \in DOMAIN todo' : todo'[i].op \in SumOps => KeyOf(todo'[i].row) \in Known(C)
  BY <1>2
<1>6. CountInv'  BY <1>2, <1>4, <1>5 DEF CountInv
<1> QED  BY <1>1, <1>6

LEMMA ReorderWorkTyped ==
  ASSUME TypeInv, CountInv, ReorderWork
  PROVE  TypeInv' /\ CountInv'
<1> DEFINE u == Head(todo).row.uuid
           R == SumsOf(tables, u)
<1>1. todo \in Seq(CallType) /\ todo # << >> /\ command # NoCommand
  BY DEF ReorderWork, TypeInv
<1>2. Head(todo) \in CallType /\ Head(todo).op \in EntryOps
  BY <1>1, TailFacts DEF ReorderWork, EntryOps
<1>3. u \in Uuid  BY <1>2, CallFacts DEF EntryType
<1>4. DB!GetMd5SumsFromUUID(tables, u).rows = R  BY <1>3, Reads
<1>5. R \subseteq Sums  BY DEF SumsOf, Sums
<1>6. R \in SUBSET SumType /\ IsFiniteSet(R)
  BY <1>5, SumsAreFew, FS_Subset DEF Sums, TypeInv, TablesOK
<1>7. PICK s \in Orders(R) :
        todo' = FlattenSeq([k \in DOMAIN s |-> ReorderCalls(s, k)]) \o Tail(todo)
  BY <1>4 DEF ReorderWork
<1> HIDE DEF u, R
<1> DEFINE seqs == [k \in DOMAIN s |-> ReorderCalls(s, k)]
           f == FlattenSeq(seqs)
           rest == Tail(todo)
<1>8. s \in Seq(R)  BY <1>6, OrderFacts
<1>9. RowCalls(R, s, seqs)  BY <1>6, <1>8 DEF RowCalls
<1>11. todo' = f \o rest  BY <1>7
<1> HIDE DEF seqs
<1>12. f \in Seq(CallType) /\ \A i \in DOMAIN f : KeyOf(f[i].row) \in Keys(R)
  BY <1>9, OrderCallsAreTyped
<1>13. /\ rest \in Seq(CallType)
       /\ \A i \in DOMAIN rest : \E j \in DOMAIN todo : rest[i] = todo[j]
  BY <1>1, TailFacts
<1>14. Keys(R) \subseteq Keys(Sums)  BY <1>5 DEF Keys
<1> HIDE DEF f, rest
<1>15. /\ todo' \in Seq(CallType)
       /\ \A i \in DOMAIN todo' : \/ \E j \in DOMAIN f : todo'[i] = f[j]
                                  \/ \E j \in DOMAIN rest : todo'[i] = rest[j]
  BY <1>11, <1>12, <1>13
<1>16. /\ UNCHANGED <<tables, exported, command, before>> /\ Sums' = Sums
       /\ failed' \in BOOLEAN /\ TablesOK(tables')
  BY DEF ReorderWork, Sums, TypeInv
<1>17. \A C \in Catalogs : Keys(Sums) \subseteq Known(C)
             /\ (\A i \in DOMAIN todo : todo[i].op \in SumOps => KeyOf(todo[i].row) \in Known(C)) =>
           /\ Keys(Sums') \subseteq Known(C)
           /\ \A i \in DOMAIN todo' : todo'[i].op \in SumOps => KeyOf(todo'[i].row) \in Known(C)
  BY <1>12, <1>13, <1>14, <1>15, <1>16
<1> QED  BY <1>1, <1>15, <1>16, <1>17, RestIsTyped

LEMMA DoCallTyped ==
  ASSUME TypeInv, CountInv, DoCall
  PROVE  TypeInv' /\ CountInv'
<1> DEFINE c == Head(todo)
<1>1. todo \in Seq(CallType) /\ todo # << >> /\ command # NoCommand /\ TablesOK(tables)
  BY DEF DoCall, TypeInv
<1>2. c \in CallType /\ c.op \notin {"ReorderWork", "Throw"} /\ c = todo[1] /\ 1 \in DOMAIN todo
  BY <1>1, TailFacts DEF DoCall
<1>3. /\ tables' = Outcome(c).tables /\ todo' \in {Tail(todo), After(c)}
      /\ failed' = (failed \/ Outcome(c).ret # 0)
      /\ UNCHANGED <<exported, command, before>>
  BY DEF DoCall
<1>4. /\ Tail(todo) \in Seq(CallType)
      /\ \A i \in DOMAIN Tail(todo) : \E j \in DOMAIN todo : Tail(todo)[i] = todo[j]
  BY <1>1, TailFacts
<1>5. /\ After(c) \in Seq(CallType)
      /\ \A i \in DOMAIN After(c) : \E j \in DOMAIN todo : After(c)[i] = todo[j]
  BY <1>1, <1>2, AfterFacts
<1> HIDE DEF c
<1>6. /\ todo' \in Seq(CallType)
      /\ \A i \in DOMAIN todo' : \E j \in DOMAIN todo : todo'[i] = todo[j]
  BY <1>3, <1>4, <1>5
<1>7. /\ TablesOK(tables')
      /\ c.op \in SumOps => Keys(Sums') \subseteq Keys(Sums) \cup {KeyOf(c.row)}
      /\ c.op \notin SumOps => Keys(Sums') \subseteq Keys(Sums)
  <2>1. CASE c.op \in SumOps
    <3>1. Sound(Outcome(c), tables, {KeyOf(c.row)})  BY <1>1, <1>2, <2>1, SumCallIsSound
    <3> QED  BY <1>3, <2>1, <3>1 DEF Sound, Sums
  <2>2. CASE c.op \notin SumOps
    <3>1. Sound(Outcome(c), tables, {})  BY <1>1, <1>2, <2>2, EntryCallIsSound
    <3> QED  BY <1>3, <2>2, <3>1 DEF Sound, Sums
  <2> QED  BY <2>1, <2>2
<1>8. failed' \in BOOLEAN  BY <1>3 DEF TypeInv
<1>9. \A C \in Catalogs : Keys(Sums) \subseteq Known(C)
             /\ (\A i \in DOMAIN todo : todo[i].op \in SumOps => KeyOf(todo[i].row) \in Known(C)) =>
           /\ Keys(Sums') \subseteq Known(C)
           /\ \A i \in DOMAIN todo' : todo'[i].op \in SumOps => KeyOf(todo'[i].row) \in Known(C)
  BY <1>2, <1>6, <1>7
<1> QED  BY <1>1, <1>3, <1>6, <1>7, <1>8, <1>9, RestIsTyped

\* The command is over, or the process died.
LEMMA EndTyped ==
  ASSUME TypeInv, CountInv, EndCommand \/ Die
  PROVE  TypeInv' /\ CountInv'
<1>1. /\ command' = NoCommand /\ todo' = << >> /\ failed' = FALSE /\ before' = tables
      /\ UNCHANGED <<tables, exported>>
  BY DEF EndCommand, Die
<1>2. TypeInv'
  <2>1. TablesOK(tables)' /\ TablesOK(before)'  BY <1>1 DEF TypeInv, TablesOK
  <2>2. (todo \in Seq(CallType))'  BY <1>1
  <2>3. FilesOK'  BY <1>1 DEF TypeInv, FilesOK
  <2>4. command' = [name |-> command'.name, works |-> command'.works]  BY <1>1 DEF NoCommand
  <2> QED  BY <1>1, <2>1, <2>2, <2>3, <2>4 DEF TypeInv
<1>3. MisreadKeys' = MisreadKeys  BY <1>1 DEF MisreadKeys
<1>4. \A C : Known(C)' = Known(C)  BY <1>3 DEF Known
<1>5. Sums' = Sums /\ before'["md5_sum"] = Sums  BY <1>1 DEF Sums
<1>6. CountInv'  BY <1>1, <1>4, <1>5 DEF CountInv
<1> QED  BY <1>2, <1>6

LEMMA InitTyped ==
  ASSUME Init
  PROVE  TypeInv /\ CountInv
<1>1. PICK C \in Catalogs :
        tables = [work_entry |-> {Entry(u) : u \in Uuid},
                  md5_sum |-> {SumRow(k[1], k[2], k[3], k[4]) : k \in C}]
  BY DEF Init
<1>2. /\ TablesOK(tables) /\ IsFiniteSet(tables["md5_sum"])
      /\ Cardinality(tables["md5_sum"]) <= Cardinality(C)
      /\ Keys(tables["md5_sum"]) \subseteq CatalogKeys(C)
  BY <1>1, FirstTables
<1> DEFINE entries(E) == Listed({e \in tables["work_entry"] : e.uuid \in E})
           checksums == Listed(tables["md5_sum"])
<1>3. ASSUME NEW E \in Exported PROVE entries(E) \in Seq(EntryType) /\ OnceEach(entries(E))
  BY <1>2, ExportedEntries
<1>4. checksums \in Seq(SumType) /\ Len(checksums) = Cardinality(tables["md5_sum"])
  BY <1>2, ExportedSums
<1>5. \/ exported = [entries |-> NoFile, checksums |-> NoFile]
      \/ \E E \in Exported : exported = [entries |-> entries(E), checksums |-> checksums]
  BY DEF Init
<1>6. /\ command = NoCommand /\ todo = << >> /\ failed = FALSE /\ before = tables
  BY DEF Init
<1> HIDE DEF entries, checksums
<1>7. FilesOK  BY <1>3, <1>4, <1>5 DEF FilesOK
<1>8. TypeInv
  <2>1. TablesOK(before)  BY <1>2, <1>6
  <2>2. todo \in Seq(CallType)  BY <1>6
  <2>3. command = [name |-> command.name, works |-> command.works]  BY <1>6 DEF NoCommand
  <2> QED  BY <1>2, <1>6, <1>7, <2>1, <2>2, <2>3 DEF TypeInv
<1>9. exported.checksums # NoFile => Len(exported.checksums) <= Cardinality(C)
  BY <1>2, <1>4, <1>5
<1>10. CatalogKeys(C) \subseteq Known(C)  BY DEF Known
<1>11. CountInv  BY <1>2, <1>6, <1>9, <1>10 DEF CountInv, Sums
<1> QED  BY <1>8, <1>11

LEMMA NextTyped ==
  ASSUME TypeInv, CountInv, [Next]_vars
  PROVE  TypeInv' /\ CountInv'
<1>1. CASE ProcessInput
  <2>1. ASSUME NEW u \in Uuid, NEW n \in Sizes, DeleteEntry(u) \/ ChangeSize(u, n)
        PROVE  TypeInv' /\ CountInv'
    BY <2>1, DeleteEntryTyped, ChangeSizeTyped
  <2>2. ASSUME NEW n \in Sizes, NEW after \in {0, 1}, NEW u \in Uuid,
               ChangeSizeAll(n, after, Source[u])
        PROVE  TypeInv' /\ CountInv'
    BY <2>2, ChangeSizeAllTyped
  <2>3. ASSUME NEW u \in Uuid, NEW exact \in Uuid \cup {NoUuid}, ReorderMd5(Source[u], exact)
        PROVE  TypeInv' /\ CountInv'
    BY <2>3, ReorderMd5Typed
  <2>4. ASSUME NEW u \in Uuid, DeleteEntry(u) PROVE TypeInv' /\ CountInv'
    BY <2>4, DeleteEntryTyped
  <2> QED
    BY <1>1, <2>1, <2>2, <2>3, <2>4, ExportTyped, ImportEntriesTyped, ImportChecksumsTyped,
       SquashTyped, UpdateIdentifierTyped DEF ProcessInput
<1>2. CASE UNCHANGED vars
  <2>1. UNCHANGED <<tables, exported, command, todo, failed, before>>  BY <1>2 DEF vars
  <2>2. TypeInv'  BY <2>1 DEF TypeInv, TablesOK, FilesOK
  <2>3. MisreadKeys' = MisreadKeys  BY <2>1 DEF MisreadKeys
  <2>4. \A C : Known(C)' = Known(C)  BY <2>3 DEF Known
  <2>5. Sums' = Sums  BY <2>1 DEF Sums
  <2>6. CountInv'  BY <2>1, <2>4, <2>5 DEF CountInv
  <2> QED  BY <2>2, <2>6
<1> QED  BY <1>1, <1>2, ReorderWorkTyped, DoCallTyped, EndTyped DEF Next

\* What a command finds, and which command has which name.
LEMMA Starts ==
  ASSUME ProcessInput
  PROVE  /\ tables' = tables /\ before' = tables /\ failed' = FALSE
         /\ command'.name = "import" => ImportEntries
         /\ command'.name = "squash" => SquashMd5Indexes
         /\ command'.name = "reorder" => \E source, exact : ReorderMd5(source, exact)
<1> DEFINE Named(name) ==
             /\ tables' = tables /\ before' = tables /\ failed' = FALSE /\ command'.name = name
<1>1. ASSUME NEW name, NEW works, NEW calls, Plan(name, works, calls) PROVE Named(name)
  <2>1. command' = [name |-> name, works |-> works] /\ before' = tables /\ failed' = FALSE
        /\ tables' = tables
    BY <1>1 DEF Plan, Begin
  <2> QED  BY <2>1
<1>2. \A u \in Uuid : DeleteEntry(u) => Named("delete")  BY <1>1 DEF DeleteEntry
<1>3. \A u \in Uuid, n \in Sizes : ChangeSize(u, n) => Named("size")  BY <1>1 DEF ChangeSize
<1>4. \A source : \A n \in Sizes, after \in {0, 1} : ChangeSizeAll(n, after, source) => Named("sizeall")
  BY <1>1 DEF ChangeSizeAll
<1>5. ExportEntries \/ ExportChecksums => Named("export")
  <2> SUFFICES ASSUME ExportEntries \/ ExportChecksums PROVE Named("export")  OBVIOUS
  <2>1. /\ command' = [name |-> "export", works |-> {}] /\ before' = tables /\ failed' = FALSE
        /\ tables' = tables
    BY DEF ExportEntries, ExportChecksums, Begin
  <2> QED  BY <2>1
<1>6. ImportEntries => Named("import")  BY <1>1 DEF ImportEntries
<1>7. ImportChecksums => Named("import checksums")  BY <1>1 DEF ImportChecksums
<1>8. SquashMd5Indexes => Named("squash")  BY <1>1 DEF SquashMd5Indexes
<1>9. UpdateMd5Identifier => Named("updateidentifier")  BY <1>1 DEF UpdateMd5Identifier
<1>10. \A source, exact : ReorderMd5(source, exact) => Named("reorder")  BY <1>1 DEF ReorderMd5
<1> HIDE DEF Named
<1> DEFINE NamedOther == \E name \in {"delete", "size", "sizeall", "export", "import checksums",
                                      "updateidentifier"} : Named(name)
<1>11. \/ NamedOther \/ ImportEntries \/ SquashMd5Indexes
       \/ \E source, exact : ReorderMd5(source, exact)
  BY <1>2, <1>3, <1>4, <1>5, <1>7, <1>9 DEF ProcessInput
<1> QED  BY <1>6, <1>8, <1>10, <1>11 DEF Named

----------------------------------------------------------------------------
(* Import of the entries.                                                   *)

LEMMA ImportStarts ==
  ASSUME TypeInv, ImportEntries
  PROVE  ImportInv'
<1> DEFINE s == exported.entries
           calls == [i \in DOMAIN s |-> ImportLine(s[i])]
<1>1. s # NoFile /\ s \in Seq(EntryType)  BY DEF ImportEntries, TypeInv, FilesOK
<1>2. /\ todo' = calls /\ exported' = exported /\ failed' = FALSE
      /\ tables' = tables /\ before' = tables
  BY DEF ImportEntries, Plan, Begin
<1>3. \A i \in DOMAIN s : calls[i] = ImportLine(s[i])  OBVIOUS
<1>4. calls = [i \in DOMAIN s |-> calls[i]]  OBVIOUS
<1> HIDE DEF s, calls
<1>5. Len(s) \in Nat /\ DOMAIN s = 1..Len(s)  BY <1>1, SequenceFacts
<1> DEFINE next == [i \in 1..Len(s) - 0 |-> ImportLine(s[0 + i])]
<1>6. calls = next
  <2>1. 1..Len(s) - 0 = DOMAIN s /\ \A i \in DOMAIN s : 0 + i = i  BY <1>5
  <2>2. \A i \in DOMAIN s : next[i] = ImportLine(s[i])  BY <2>1
  <2>3. next = [i \in DOMAIN s |-> next[i]]  BY <2>1
  <2> HIDE DEF next
  <2> QED  BY <1>3, <1>4, <2>2, <2>3
<1>7. todo' = next  BY <1>2, <1>6
<1>8. \A i \in 1..0 : FALSE  OBVIOUS
<1>9. exported'.entries = s /\ s # NoFile  BY <1>1, <1>2 DEF s
<1>10. Imported(s, 0)'
  <2>1. s' = s  BY <1>2 DEF s
  <2>2. PlainRows(s, 0) = {}  BY <1>8 DEF PlainRows
  <2>3. Restored(PlainRows(s, 0), tables["work_entry"]) = tables["work_entry"]
    BY <2>2 DEF Restored
  <2>4. (Entries = Restored(PlainRows(s, 0), before["work_entry"]))'
    BY <1>2, <2>1, <2>3 DEF Entries, PlainRows, Restored
  <2> QED  BY <1>7, <1>8, <2>1, <2>4 DEF Imported
<1>11. 0 \in 0..Len(s)  BY <1>5
<1> QED  BY <1>2, <1>9, <1>10, <1>11 DEF ImportInv, s

\* One more row is restored.
LEMMA OneMoreRow ==
  ASSUME NEW s \in Seq(EntryType), OnceEach(s), NEW k \in Nat, k + 1 \in DOMAIN s, NEW B,
         Text[s[k + 1].uuid] = "plain"
  PROVE  Restored(PlainRows(s, k + 1), B) =
           {Processed(s[k + 1])} \cup
             {f \in Restored(PlainRows(s, k), B) : f.uuid # s[k + 1].uuid}
<1> DEFINE e == s[k + 1]
           R == PlainRows(s, k)
<1>1. /\ DOMAIN s = 1..Len(s) /\ Len(s) \in Nat
      /\ \A i \in DOMAIN s : s[i] \in EntryType /\ Processed(s[i]).uuid = s[i].uuid
  BY SequenceFacts, LineFacts
<1>2. PlainRows(s, k + 1) = R \cup {e}
  <2>1. \A j : j \in 1..k + 1 <=> j \in 1..k \/ j = k + 1  OBVIOUS
  <2> QED  BY <2>1 DEF PlainRows
<1>3. \A g \in R : g.uuid # e.uuid /\ Processed(g).uuid = g.uuid
  <2> SUFFICES ASSUME NEW j \in 1..k PROVE s[j].uuid # e.uuid /\ Processed(s[j]).uuid = s[j].uuid
    BY DEF PlainRows
  <2>1. j \in DOMAIN s /\ j # k + 1  BY <1>1
  <2> QED  BY <1>1, <2>1 DEF OnceEach
<1> HIDE DEF e, R
<1> QED  BY <1>2, <1>3 DEF Restored, e, R

\* A line that is passed over adds none.
LEMMA NoMoreRow ==
  ASSUME NEW s, NEW k \in Nat, Text[s[k + 1].uuid] # "plain"
  PROVE  PlainRows(s, k + 1) = PlainRows(s, k)
<1>1. \A j : j \in 1..k + 1 <=> j \in 1..k \/ j = k + 1  OBVIOUS
<1> QED  BY <1>1 DEF PlainRows

LEMMA ImportGoesOn ==
  ASSUME TypeInv, ImportInv, DoCall
  PROVE  ImportInv'
<1> SUFFICES ASSUME command.name = "import"
             PROVE  /\ exported'.entries # NoFile /\ ~failed'
                    /\ \E k \in 0..Len(exported'.entries) : Imported(exported.entries, k)'
  <2>1. command' = command  BY DEF DoCall
  <2> QED  BY <2>1 DEF ImportInv
<1> DEFINE s == exported.entries
<1>1. s # NoFile /\ \E k \in 0..Len(s) : Imported(s, k)  BY DEF ImportInv
<1>2. s \in Seq(EntryType) /\ OnceEach(s)  BY <1>1 DEF TypeInv, FilesOK
<1>3. exported' = exported /\ s' = s  BY DEF DoCall
<1> HIDE DEF s
<1>4. PICK k \in 0..Len(s) : Imported(s, k)  BY <1>1
<1>5. Len(s) \in Nat /\ DOMAIN s = 1..Len(s)  BY <1>2, SequenceFacts
<1> DEFINE n == Len(s) - k
           next == [i \in 1..Len(s) - (k + 1) |-> ImportLine(s[k + 1 + i])]
           c == Head(todo)
<1>6. n \in Nat /\ todo = [i \in 1..n |-> ImportLine(s[k + i])] /\ todo # << >>
      /\ todo \in Seq(CallType)
  BY <1>4, <1>5 DEF Imported, DoCall, TypeInv
<1>7. Len(todo) = n /\ n > 0
  <2>1. DOMAIN todo = 1..n /\ DOMAIN todo = 1..Len(todo) /\ Len(todo) \in Nat
    BY <1>6, SequenceFacts
  <2>2. Len(todo) # 0  BY <1>6
  <2> HIDE DEF n
  <2> QED  BY <1>6, <2>1, <2>2
<1>8. k + 1 \in DOMAIN s /\ k + 1 \in 0..Len(s) /\ k \in Nat  BY <1>5, <1>7
<1> DEFINE line == s[k + 1]
           e == Processed(line)
           E == Outcome(c).tables["work_entry"]
<1>9. line \in EntryType  BY <1>2, <1>8, SequenceFacts
<1>10. c = ImportLine(line)
  <2>1. 1 \in 1..n /\ c = todo[1]  BY <1>6, <1>7, TailFacts
  <2> HIDE DEF n, c
  <2> QED  BY <1>6, <2>1
<1> HIDE DEF line
<1>11. /\ e \in EntryType /\ e.uuid = line.uuid
       /\ Text[line.uuid] \in {"plain", "newline"} /\ c.op = LineRead[Text[line.uuid]]
       /\ c.row = e
  <2>1. c.op # "Throw"  BY DEF DoCall
  <2>2. PICK op \in {"ImportEntry", "SkipLine", "Throw"} :
          /\ c = Call(op, e, "go on")
          /\ op = "ImportEntry" <=> Text[line.uuid] = "plain"
          /\ op = "Throw" <=> Text[line.uuid] = "comma"
    BY <1>9, <1>10, LineFacts
  <2> HIDE DEF c
  <2> DEFINE go == "go on"
  <2>5. c = Call(op, e, go)  BY <2>2
  <2> HIDE DEF go, e
  <2>3. c.op = op /\ c.row = e  BY ONLY <2>5 DEF Call
  <2>4. /\ LineRead["plain"] = "ImportEntry" /\ LineRead["newline"] = "SkipLine"
        /\ LineRead["comma"] = "Throw"
    BY DEF LineRead
  <2>6. /\ Processed(line) \in EntryType /\ Processed(line).uuid = line.uuid
        /\ Text[line.uuid] \in {"plain", "newline", "comma"}
    BY <1>9, LineFacts
  <2>7. Text[line.uuid] \in {"plain", "newline"} /\ c.op = LineRead[Text[line.uuid]]
    <3> HIDE DEF c
    <3>1. Text[line.uuid] # "comma"  BY <2>1, <2>2, <2>3
    <3>2. CASE Text[line.uuid] = "plain"  BY <2>2, <2>3, <2>4, <3>2
    <3>3. CASE Text[line.uuid] = "newline"
      <4>1. op \notin {"ImportEntry", "Throw"}  BY <2>2, <3>3
      <4> QED  BY <2>3, <2>4, <3>3, <4>1
    <3> QED  BY <2>6, <3>1, <3>2, <3>3
  <2> QED  BY <2>3, <2>6, <2>7 DEF e
<1> HIDE DEF c, e
<1>12. /\ Outcome(c).ret = 0
       /\ E = Restored(PlainRows(s, k + 1), before["work_entry"])
  <2>1. CASE Text[line.uuid] = "plain"
    <3>1. Outcome(c) = ImportEntry(e)  BY <1>11, <2>1, OutcomeCases DEF LineRead
    <3>2. Outcome(c).ret = 0 /\ E = {e} \cup {f \in Entries : f.uuid # line.uuid}
      BY <1>11, <3>1, EntryIsImported DEF TypeInv
    <3>3. Restored(PlainRows(s, k + 1), before["work_entry"]) =
            {e} \cup {f \in Restored(PlainRows(s, k), before["work_entry"]) : f.uuid # line.uuid}
      BY <1>2, <1>8, <2>1, OneMoreRow DEF line, e
    <3> QED  BY <1>4, <3>2, <3>3 DEF Imported
  <2>2. CASE Text[line.uuid] = "newline"
    <3>1. Outcome(c) = DB!SQLite!Done(tables, {})  BY <1>11, <2>2, OutcomeCases DEF LineRead
    <3>2. Outcome(c).ret = 0 /\ E = Entries  BY <3>1 DEF DB!SQLite!Done, Entries
    <3>3. PlainRows(s, k + 1) = PlainRows(s, k)  BY <1>8, <2>2, NoMoreRow DEF line
    <3> QED  BY <1>4, <3>2, <3>3 DEF Imported
  <2> QED  BY <1>11, <2>1, <2>2
<1>15. /\ tables' = Outcome(c).tables /\ todo' = Tail(todo) /\ failed' = (failed \/ FALSE)
       /\ before' = before
  BY <1>12 DEF DoCall, c
<1>16. ~failed'  BY <1>15 DEF ImportInv
<1>17. todo' = next
  <2>1. /\ Tail(todo) \in Seq(CallType) /\ Len(Tail(todo)) = n - 1
        /\ \A i \in DOMAIN Tail(todo) : i \in Nat /\ i + 1 \in DOMAIN todo /\ Tail(todo)[i] = todo[i + 1]
    BY <1>6, <1>7, TailFacts
  <2> DEFINE t == Tail(todo)
  <2>2. DOMAIN t = 1..n - 1 /\ t = [i \in DOMAIN t |-> t[i]]
    <3>1. t \in [1..Len(t) -> CallType] /\ Len(t) = n - 1  BY <2>1, LenProperties
    <3> HIDE DEF t, n
    <3> QED  BY <3>1
  <2>3. n - 1 = Len(s) - (k + 1) /\ DOMAIN todo = 1..n  BY <1>4, <1>5, <1>6
  <2>4. \A i \in 1..n : todo[i] = ImportLine(s[k + i])  BY <1>6
  <2>5. \A i \in DOMAIN t : k + (i + 1) = k + 1 + i  BY <2>1, <1>5
  <2>6. \A i \in DOMAIN t : t[i] = ImportLine(s[k + 1 + i])
    <3> HIDE DEF t, n
    <3> SUFFICES ASSUME NEW i \in DOMAIN t PROVE t[i] = ImportLine(s[k + 1 + i])  OBVIOUS
    <3>1. t[i] = todo[i + 1] /\ i + 1 \in 1..n  BY <2>1, <2>3 DEF t
    <3> QED  BY <2>4, <2>5, <3>1
  <2> HIDE DEF t
  <2>7. t = next
    <3> HIDE DEF n
    <3> QED  BY <2>2, <2>3, <2>6
  <2> QED  BY <1>15, <2>7 DEF t
<1> HIDE DEF next, n
<1>18. \A i \in 1..k + 1 : Text[s[i].uuid] # "comma"
  <2>1. \A i : i \in 1..k + 1 <=> i \in 1..k \/ i = k + 1  BY <1>8
  <2> QED  BY <1>4, <1>11, <2>1 DEF Imported, line
<1>19. Imported(s, k + 1)'
  <2> DEFINE m == k + 1
  <2>1. todo' = [i \in 1..Len(s) - m |-> ImportLine(s[m + i])]  BY <1>17 DEF next
  <2>2. Entries' = Restored(PlainRows(s, m), before["work_entry"])  BY <1>12, <1>15 DEF Entries
  <2>3. m' = m  OBVIOUS
  <2>4. \A i \in 1..m : Text[s[i].uuid] # "comma"  BY <1>18
  <2> HIDE DEF m
  <2>5. PlainRows(s, m)' = PlainRows(s, m)  BY <1>3, <2>3 DEF PlainRows
  <2>6. (Entries = Restored(PlainRows(s, m), before["work_entry"]))'
    BY <1>15, <2>2, <2>5 DEF Restored
  <2>7. Imported(s, m)'  BY <1>3, <2>1, <2>3, <2>4, <2>6 DEF Imported
  <2> QED  BY <2>7 DEF m
<1>20. exported'.entries = s  BY <1>3 DEF s
<1>21. s # NoFile  BY <1>1 DEF s
<1>22. \E j \in 0..Len(s) : Imported(s, j)'  BY <1>8, <1>19
<1> QED  BY <1>16, <1>20, <1>21, <1>22 DEF s

----------------------------------------------------------------------------
(* Places are ranks.                                                        *)

\* h maps the positions D of one work onto W, in the order of W's numbers.
Ranked(n, s, k, W, number, D, h) ==
    /\ n \in Nat /\ k \in 1..n /\ number \in [W -> Int]
    /\ \A x, y \in W : number[x] = number[y] => x = y
    /\ D = {j \in 1..n : s[j].uuid = s[k].uuid} /\ h \in [D -> W]
    /\ \A i, j \in D : h[i] = h[j] => i = j
    /\ \A x \in W : \E j \in D : h[j] = x
    /\ \A i, j \in D : i < j => number[h[i]] <= number[h[j]]

\* In a sequence that is sorted by them a row's place is the rank of its number.
LEMMA PlaceIsRank ==
  ASSUME NEW n, NEW s, NEW k, NEW W, NEW number, NEW D, NEW h, Ranked(n, s, k, W, number, D, h)
  PROVE  Place(s, k) = Rank(number, h[k])
<1> USE DEF Ranked
<1> DEFINE A == {j \in 1..k - 1 : s[j].uuid = s[k].uuid}
           B == {y \in W : number[y] < number[h[k]]}
           g == [j \in A |-> h[j]]
<1>1. k \in D /\ k \in Nat /\ D \subseteq Nat  OBVIOUS
<1>2. A = {j \in D : j < k}  OBVIOUS
<1>3. IsFiniteSet(A)
  <2>1. IsFiniteSet(1..k - 1)
    <3> DEFINE m == k - 1
    <3>1. 1 \in Int /\ m \in Int  BY <1>1
    <3> HIDE DEF m
    <3>2. IsFiniteSet(1..m)  BY <3>1, FS_Interval
    <3> QED  BY <3>2 DEF m
  <2>2. A \subseteq 1..k - 1  OBVIOUS
  <2> HIDE DEF A
  <2> QED  BY <2>1, <2>2, FS_Subset
<1> HIDE DEF A
<1>4. \A j \in A : j \in D /\ j < k /\ h[j] \in W /\ number[h[j]] <= number[h[k]] /\ h[j] # h[k]
  BY <1>1, <1>2
<1>5. \A x, y \in W : number[x] \in Int  OBVIOUS
<1>6. \A j \in A : h[j] \in B
  <2> SUFFICES ASSUME NEW j \in A PROVE number[h[j]] < number[h[k]]
    BY <1>4
  <2>1. h[j] \in W /\ h[k] \in W /\ number[h[j]] # number[h[k]]  BY <1>1, <1>4
  <2>2. number[h[j]] \in Int /\ number[h[k]] \in Int  BY <1>5, <2>1
  <2>3. number[h[j]] <= number[h[k]]  BY <1>4
  <2> QED  BY ONLY <2>1, <2>2, <2>3
<1>7. \A x \in B : \E j \in A : h[j] = x
  <2> SUFFICES ASSUME NEW x \in B PROVE \E j \in A : h[j] = x  OBVIOUS
  <2>1. PICK j \in D : h[j] = x  OBVIOUS
  <2>2. number[h[j]] < number[h[k]] /\ number[h[j]] \in Int /\ number[h[k]] \in Int
    BY <1>1, <2>1
  <2>3. j # k /\ ~ (k < j)
    <3>1. k < j => number[h[k]] <= number[h[j]]  BY <1>1
    <3> QED  BY <2>2, <3>1
  <2>4. j < k  BY <1>1, <2>3
  <2> QED  BY <1>2, <2>1, <2>4
<1> HIDE DEF B
<1>8. g \in [A -> B] /\ \A i, j \in A : g[i] = g[j] => i = j  BY <1>4, <1>6
<1>9. \A x \in B : \E j \in A : g[j] = x  BY <1>7
<1> HIDE DEF g
<1>10. Cardinality(B) = Cardinality(A)  BY ONLY <1>3, <1>8, <1>9, SameSize
<1>11. DOMAIN number = W  OBVIOUS
<1> QED  BY <1>10, <1>11 DEF Place, Rank, A, B

----------------------------------------------------------------------------
(* Reorder.                                                                 *)

LEMMA FaceFacts ==
  ASSUME NEW r \in SumType
  PROVE  /\ Face(r) \in SumType /\ KeyOf(Face(r)) = KeyOf(r) /\ Face(r).uuid = r.uuid
         /\ Face(r).md5_sum = r.md5_sum /\ Face(r).seq_num = r.seq_num
         /\ \A n : Face([r EXCEPT !.index_num = n]) = Face(r)
<1>1. 0 \in ColumnInt  BY HalfFacts
<1> DEFINE q == [r EXCEPT !.index_num = 0]
<1>2. q \in SumType /\ q.uuid = r.uuid /\ q.md5_sum = r.md5_sum /\ q.seq_num = r.seq_num
  BY <1>1 DEF SumType
<1>3. \A n : [[r EXCEPT !.index_num = n] EXCEPT !.index_num = 0] = q  BY DEF SumType
<1> HIDE DEF q
<1>4. Face(r) = q /\ \A n : Face([r EXCEPT !.index_num = n]) = q  BY <1>3 DEF Face, q
<1> QED  BY <1>2, <1>4 DEF KeyOf

\* Rows of a table differ by their faces.
LEMMA FacesDiffer ==
  ASSUME NEW R, R \subseteq SumType, OneRowEach(R), NEW r \in R, NEW q \in R, Face(r) = Face(q)
  PROVE  r = q
<1>1. KeyOf(r) = KeyOf(q)  BY FaceFacts
<1> QED  BY <1>1 DEF KeyOf, OneRowEach

LEMMA FacesOfWork ==
  ASSUME NEW t, TablesOK(t), NEW b, TablesOK(b), Faces(t["md5_sum"]) = Faces(b["md5_sum"]), NEW u
  PROVE  Faces(SumsOf(t, u)) = Faces(SumsOf(b, u))
<1>1. ASSUME NEW c, TablesOK(c)
      PROVE  Faces(SumsOf(c, u)) = {g \in Faces(c["md5_sum"]) : g.uuid = u}
  <2> DEFINE R == c["md5_sum"]
             W == {r \in R : r.uuid = u}
  <2>1. \A r \in R : Face(r).uuid = r.uuid  BY <1>1, FaceFacts DEF TablesOK
  <2> HIDE DEF R
  <2>2. {Face(r) : r \in W} = {g \in {Face(r) : r \in R} : g.uuid = u}  BY <2>1
  <2> QED  BY <2>2 DEF Faces, SumsOf, R
<1> QED  BY <1>1

\* The numbers of a work's faces, when they are distinct.
LEMMA FaceNumbers ==
  ASSUME NEW t, TablesOK(t), IsFiniteSet(t["md5_sum"]), NEW u, Distinct(SumsOf(t, u), SeqNumOf),
         NEW F, F = Faces(SumsOf(t, u))
  PROVE  /\ IsFiniteSet(F) /\ SeqNumbers(F) \in [F -> Int]
         /\ \A x \in F : SeqNumbers(F)[x] = x.seq_num
         /\ \A x, y \in F : SeqNumbers(F)[x] = SeqNumbers(F)[y] => x = y
<1> DEFINE R == SumsOf(t, u)
           face == [r \in R |-> Face(r)]
<1>1. R \subseteq SumType /\ IsFiniteSet(R)
  <2>1. R \subseteq t["md5_sum"]  BY DEF SumsOf
  <2> HIDE DEF R
  <2> QED  BY <2>1, FS_Subset DEF TablesOK
<1>2. \A r, q \in R : r.seq_num = q.seq_num => r = q  BY DEF Distinct, SeqNumOf
<1> HIDE DEF R
<1>3. \A r \in R : Face(r) \in SumType /\ Face(r).seq_num = r.seq_num  BY <1>1, FaceFacts
<1>4. F = {face[r] : r \in R} /\ DOMAIN face = R  BY DEF Faces, R
<1>5. IsFiniteSet(F)
  <2> HIDE DEF face
  <2> QED  BY <1>1, <1>4, ImageSize
<1>6. \A x \in F : \E r \in R : x = Face(r)  BY <1>4
<1>7. \A x \in F : x.seq_num \in Int  BY <1>3, <1>6, HalfFacts DEF SumType
<1>8. \A x, y \in F : x.seq_num = y.seq_num => x = y  BY <1>2, <1>3, <1>6
<1>9. SeqNumbers(F) = [x \in F |-> x.seq_num]  BY DEF SeqNumbers, SeqNumOf
<1> QED  BY <1>5, <1>7, <1>8, <1>9

\* What reorder writes: the row in its place.
LEMMA ReorderPlace ==
  ASSUME TypeInv, CountInv, Faces(Sums) = Faces(before["md5_sum"]), NEW u,
         NEW s \in Orders(SumsOf(tables, u)), SortedBy(s, SeqNumOf), NEW k \in DOMAIN s,
         NEW q, q = [s[k] EXCEPT !.index_num = Place(s, k)]
  PROVE  /\ q \in SumType /\ s[k] \in SumType /\ s[k] \in Sums /\ q.index_num = Place(s, k)
         /\ q.uuid = u /\ s[k].uuid = u
         /\ Face(q) = Face(s[k]) /\ Face(q) \in Faces(before["md5_sum"])
         /\ Distinct(SumsOf(before, u), SeqNumOf) => Place(s, k) = SeqPlace(before, s[k])
<1> DEFINE R == SumsOf(tables, u)
           F == Faces(SumsOf(before, u))
           n == Len(s)
<1>1. /\ R \subseteq Sums /\ Sums \subseteq SumType /\ OneRowEach(Sums) /\ \A r \in R : r.uuid = u
      /\ IsFiniteSet(Sums) /\ Cardinality(Sums) \in Nat /\ Cardinality(Sums) < Half
      /\ IsFiniteSet(before["md5_sum"]) /\ TablesOK(tables) /\ TablesOK(before)
  BY SumsAreFew DEF SumsOf, Sums, TypeInv, TablesOK
<1>2. IsFiniteSet(R) /\ Cardinality(R) \in Nat /\ Cardinality(R) <= Cardinality(Sums)
  <2> HIDE DEF R
  <2> QED  BY <1>1, FS_Subset, FS_CardinalityType
<1>3. Faces(R) = F  BY <1>1, FacesOfWork DEF Sums
<1>4. s \in Orders(R)  OBVIOUS
<1> HIDE DEF R, F
<1>5. /\ s \in Seq(R) /\ n = Cardinality(R) /\ DOMAIN s = 1..n
      /\ \A x \in R : \E i \in DOMAIN s : s[i] = x
      /\ \A i, j \in DOMAIN s : s[i] = s[j] => i = j
  BY <1>2, <1>4, OrderFacts
<1>6. \A j \in DOMAIN s : s[j] \in R /\ s[j] \in Sums /\ s[j] \in SumType /\ s[j].uuid = u
  BY <1>1, <1>5, SequenceFacts
<1> HIDE DEF n
<1>7. n \in Nat /\ k \in Nat \ {0} /\ k <= n  BY <1>2, <1>5
<1>8. Place(s, k) \in Nat /\ Place(s, k) < k  BY <1>7, PlaceIsNatural
<1>9. Place(s, k) \in ColumnInt
  <2>1. n <= Cardinality(Sums) /\ Cardinality(Sums) \in Nat /\ Cardinality(Sums) < Half
    BY <1>1, <1>2, <1>5
  <2>2. Place(s, k) \in Int /\ 0 <= Place(s, k) /\ Place(s, k) < n  BY <1>7, <1>8
  <2>3. Half \in Nat /\ n \in Nat  BY <1>7, HalfFacts
  <2>4. -Half <= Place(s, k) /\ Place(s, k) < Half  BY ONLY <2>1, <2>2, <2>3
  <2> QED  BY <2>2, <2>4, HalfFacts
<1>10. q \in SumType /\ q.uuid = u /\ q.index_num = Place(s, k)
  BY <1>6, <1>9, HalfFacts, RowAtIsTyped
<1>11. Face(q) = Face(s[k])  BY <1>6, FaceFacts
<1>12. Face(s[k]) \in Faces(before["md5_sum"])  BY <1>6 DEF Faces
<1>13. ASSUME Distinct(SumsOf(before, u), SeqNumOf)
       PROVE  Place(s, k) = SeqPlace(before, s[k])
  <2> DEFINE D == {j \in 1..n : s[j].uuid = s[k].uuid}
             h == [j \in D |-> Face(s[j])]
             number == SeqNumbers(F)
  <2>1. D = 1..n  BY <1>5, <1>6
  <2>2. /\ number \in [F -> Int] /\ \A x \in F : number[x] = x.seq_num
        /\ \A x, y \in F : number[x] = number[y] => x = y
    BY <1>1, <1>13, FaceNumbers DEF F
  <2>3. \A j \in D : Face(s[j]) \in F  BY <1>3, <1>5, <1>6, <2>1 DEF Faces
  <2>4. h \in [D -> F]  BY <2>3
  <2>5. ASSUME NEW i \in D, NEW j \in D, h[i] = h[j] PROVE i = j
    <3>1. s[i] = s[j]  BY <1>1, <1>5, <1>6, <2>1, <2>5, FacesDiffer
    <3> QED  BY <1>5, <2>1, <3>1
  <2>6. ASSUME NEW x \in F PROVE \E j \in D : h[j] = x
    <3>1. PICK r \in R : x = Face(r)  BY <1>3 DEF Faces
    <3>2. PICK j \in DOMAIN s : s[j] = r  BY <1>5
    <3> QED  BY <1>5, <2>1, <3>1, <3>2
  <2>7. ASSUME NEW i \in D, NEW j \in D, i < j PROVE number[h[i]] <= number[h[j]]
    <3>1. s[i].seq_num <= s[j].seq_num
      BY <1>5, <1>6, <2>1, <2>7 DEF SortedBy, SeqNumOf
    <3>2. number[h[i]] = s[i].seq_num /\ number[h[j]] = s[j].seq_num
      BY <1>5, <1>6, <2>1, <2>2, <2>3, FaceFacts
    <3> QED  BY <3>1, <3>2
  <2>8. k \in D  BY <1>5
  <2>9. k \in 1..n  BY <1>5
  <2>10. h[k] = Face(s[k])  BY <2>8
  <2>11. D = {j \in 1..n : s[j].uuid = s[k].uuid}  OBVIOUS
  <2> HIDE DEF D, h, number
  <2>12. Ranked(n, s, k, F, number, D, h)
    BY ONLY <1>7, <2>2, <2>4, <2>5, <2>6, <2>7, <2>9, <2>11 DEF Ranked
  <2>14. Place(s, k) = Rank(number, h[k])  BY <2>12, PlaceIsRank
  <2>13. SeqPlace(before, s[k]) = Rank(number, Face(s[k]))  BY <1>6 DEF SeqPlace, F, number
  <2> QED  BY <2>10, <2>13, <2>14
<1> QED  BY <1>6, <1>10, <1>11, <1>12, <1>13

LEMMA ReorderStarts ==
  ASSUME TypeInv, CountInv, NEW source, NEW exact, ReorderMd5(source, exact)
  PROVE  ReorderInv'
<1> DEFINE target == {e \in DB!GetWorkEntryList(tables).rows :
                        e.source = source /\ exact \in {NoUuid, e.uuid}}
           works == {e.uuid : e \in target}
<1>1. target \subseteq tables["work_entry"]  BY Reads
<1>2. target \subseteq EntryType /\ IsFiniteSet(target)
  BY <1>1, EntriesAreFinite, FS_Subset DEF TypeInv, TablesOK
<1>3. PICK s \in Orders(target) :
        Plan("reorder", works, [i \in DOMAIN s |-> Call("ReorderWork", s[i], "go on")])
  BY DEF ReorderMd5
<1> DEFINE calls == [i \in DOMAIN s |-> Call("ReorderWork", s[i], "go on")]
<1>4. /\ command' = [name |-> "reorder", works |-> works] /\ todo' = calls
      /\ before' = tables /\ tables' = tables
  BY <1>3 DEF Plan, Begin
<1>5. DOMAIN calls = DOMAIN s /\ \A i \in DOMAIN s : calls[i].op = "ReorderWork" /\ calls[i].row = s[i]
  BY DEF Call
<1>6. \A e \in target : \E i \in DOMAIN s : s[i] = e
  <2> HIDE DEF target
  <2> QED  BY <1>2, OrderFacts
<1>7. \A u \in works : \E e \in target : e.uuid = u  OBVIOUS
<1> HIDE DEF target, works, calls
<1>8. Faces(Sums)' = Faces(before["md5_sum"])'  BY <1>4 DEF Faces, Sums
<1>9. \A i \in DOMAIN todo' : ReorderStep(before', todo'[i])  BY <1>4, <1>5 DEF ReorderStep
<1>10. \A r \in Sums' : SortedSoon(before', command'.works, todo', r)
  <2> SUFFICES ASSUME NEW r \in Sums', r.uuid \in command'.works
               PROVE  \E i \in DOMAIN todo' : Awaits(todo'[i], r)
    BY DEF SortedSoon
  <2>1. r.uuid \in works  BY <1>4
  <2>2. PICK e \in target : e.uuid = r.uuid  BY <1>7, <2>1
  <2>3. PICK i \in DOMAIN s : s[i] = e  BY <1>6
  <2> QED  BY <1>4, <1>5, <2>2, <2>3 DEF Awaits
<1> QED  BY <1>8, <1>9, <1>10 DEF ReorderInv

\* The rows of a work are read, and those not in their places get a call.
LEMMA ReorderReads ==
  ASSUME TypeInv, CountInv, ReorderInv, ReorderWork
  PROVE  ReorderInv'
<1> SUFFICES ASSUME command.name = "reorder" PROVE ReorderInv'
  <2>1. command' = command  BY DEF ReorderWork
  <2> QED  BY <2>1 DEF ReorderInv
<1> DEFINE u == Head(todo).row.uuid
           R == SumsOf(tables, u)
<1>1. todo \in Seq(CallType) /\ todo # << >>  BY DEF ReorderWork, TypeInv
<1>2. Head(todo) \in CallType /\ Head(todo) = todo[1] /\ Head(todo).op = "ReorderWork"
  BY <1>1, TailFacts DEF ReorderWork
<1>3. u \in Uuid  BY <1>2, CallFacts DEF EntryType, EntryOps
<1>4. DB!GetMd5SumsFromUUID(tables, u).rows = R  BY <1>3, Reads
<1>5. PICK s \in Orders(R) :
        /\ SortedBy(s, SeqNumOf)
        /\ todo' = FlattenSeq([k \in DOMAIN s |-> ReorderCalls(s, k)]) \o Tail(todo)
  BY <1>4 DEF ReorderWork
<1> HIDE DEF u
<1> DEFINE seqs == [k \in DOMAIN s |-> ReorderCalls(s, k)]
           f == FlattenSeq(seqs)
           rest == Tail(todo)
           placed(k) == [s[k] EXCEPT !.index_num = Place(s, k)]
           callOf(k) == Call("UpdateMd5SumBySeqNum", placed(k), "break")
<1>6. /\ Faces(Sums) = Faces(before["md5_sum"])
      /\ \A i \in DOMAIN todo : ReorderStep(before, todo[i])
      /\ ~failed => \A r \in Sums : SortedSoon(before, command.works, todo, r)
  BY DEF ReorderInv
<1>7. R \in SUBSET SumType /\ IsFiniteSet(R) /\ \A r \in R : r.uuid = u
  <2>1. R \subseteq Sums /\ \A r \in R : r.uuid = u  BY DEF SumsOf, Sums
  <2> HIDE DEF R
  <2> QED  BY <2>1, SumsAreFew, FS_Subset DEF Sums, TypeInv, TablesOK
<1>8. ASSUME NEW k \in DOMAIN s
      PROVE  /\ ReorderStep(before, callOf(k)) /\ Face(callOf(k).row) = Face(s[k])
             /\ callOf(k).op = "UpdateMd5SumBySeqNum"
             /\ s[k].index_num = Place(s, k) /\ Distinct(SumsOf(before, u), SeqNumOf) => Sorted(before, s[k])
             /\ \A j \in DOMAIN seqs[k] : seqs[k][j] = callOf(k)
             /\ s[k].index_num # Place(s, k) => 1 \in DOMAIN seqs[k] /\ seqs[k][1] = callOf(k)
  <2> DEFINE q == placed(k)
             c == callOf(k)
  <2>1. q = [s[k] EXCEPT !.index_num = Place(s, k)]  OBVIOUS
  <2>2. c.op = "UpdateMd5SumBySeqNum" /\ c.row = q  BY DEF Call
  <2>3. ReorderCalls(s, k) = IF s[k].index_num = Place(s, k) THEN << >> ELSE <<c>>
    BY DEF ReorderCalls
  <2> HIDE DEF q, c
  <2>4. /\ \A j \in DOMAIN seqs[k] : seqs[k][j] = c
        /\ s[k].index_num # Place(s, k) => 1 \in DOMAIN seqs[k] /\ seqs[k][1] = c
    <3>1. seqs[k] = IF s[k].index_num = Place(s, k) THEN << >> ELSE <<c>>  BY <2>3
    <3> HIDE DEF seqs
    <3> QED  BY <3>1
  <2>5. /\ q \in SumType /\ s[k] \in SumType /\ q.index_num = Place(s, k) /\ q.uuid = u /\ s[k].uuid = u
        /\ Face(q) = Face(s[k]) /\ Face(q) \in Faces(before["md5_sum"])
        /\ Distinct(SumsOf(before, u), SeqNumOf) => Place(s, k) = SeqPlace(before, s[k])
    BY <1>5, <1>6, <2>1, ReorderPlace
  <2>6. SeqPlace(before, q) = SeqPlace(before, s[k])  BY <2>5 DEF SeqPlace
  <2>7. Distinct(SumsOf(before, q.uuid), SeqNumOf) => Sorted(before, q)  BY <2>5, <2>6 DEF Sorted
  <2>8. ReorderStep(before, c)  BY <2>2, <2>5, <2>7 DEF ReorderStep
  <2>9. s[k].index_num = Place(s, k) /\ Distinct(SumsOf(before, u), SeqNumOf) => Sorted(before, s[k])
    BY <2>5 DEF Sorted
  <2> QED  BY <2>2, <2>4, <2>5, <2>8, <2>9 DEF q, c
<1> HIDE DEF callOf, placed, R
<1>9. s \in Seq(R)  BY <1>7, OrderFacts
<1>10. RowCalls(R, s, seqs)  BY <1>7, <1>9 DEF RowCalls
<1>12. todo' = f \o rest  BY <1>5
<1> HIDE DEF seqs
<1>13. f \in Seq(CallType) /\ FromParts(f, Len(s), seqs) /\ HasParts(f, Len(s), seqs)
  BY <1>10, OrderCallsAreTyped
<1>14. \A i \in DOMAIN f : \E k \in DOMAIN s : \E j \in DOMAIN seqs[k] : f[i] = seqs[k][j]
  BY <1>9, <1>13, SequenceFacts DEF FromParts
<1>15. \A k \in DOMAIN s : \A j \in DOMAIN seqs[k] : \E i \in DOMAIN f : f[i] = seqs[k][j]
  BY <1>9, <1>13, SequenceFacts DEF HasParts
<1>16. \A i \in DOMAIN f : ReorderStep(before, f[i])  BY <1>8, <1>14, <1>15
<1>17. /\ rest \in Seq(CallType)
       /\ \A i \in DOMAIN rest : \E j \in DOMAIN todo : rest[i] = todo[j]
       /\ \A i \in DOMAIN todo : i = 1 \/ \E j \in DOMAIN rest : rest[j] = todo[i]
  BY <1>1, TailFacts
<1> HIDE DEF f, rest
<1>18. /\ \A i \in DOMAIN todo' : \/ \E j \in DOMAIN f : todo'[i] = f[j]
                                  \/ \E j \in DOMAIN rest : todo'[i] = rest[j]
       /\ \A j \in DOMAIN f : \E i \in DOMAIN todo' : todo'[i] = f[j]
       /\ \A j \in DOMAIN rest : \E i \in DOMAIN todo' : todo'[i] = rest[j]
  <2> DEFINE m == Len(f)
             l == Len(rest)
  <2>1. m \in Nat /\ l \in Nat /\ DOMAIN f = 1..m /\ DOMAIN rest = 1..l
    BY <1>13, <1>17, SequenceFacts
  <2>2. /\ DOMAIN todo' = 1..m + l
        /\ \A i \in 1..m + l : todo'[i] = IF i <= m THEN f[i] ELSE rest[i - m]
    BY <1>12, <1>13, <1>17
  <2> HIDE DEF m, l
  <2>3. \A i \in DOMAIN todo' : \/ \E j \in DOMAIN f : todo'[i] = f[j]
                                \/ \E j \in DOMAIN rest : todo'[i] = rest[j]
    <3> SUFFICES ASSUME NEW i \in 1..m + l
                 PROVE  \/ \E j \in DOMAIN f : todo'[i] = f[j]
                        \/ \E j \in DOMAIN rest : todo'[i] = rest[j]
      BY <2>2
    <3>1. CASE i <= m  BY <2>1, <2>2, <3>1
    <3>2. CASE ~ (i <= m)
      <4>1. i - m \in DOMAIN rest /\ todo'[i] = rest[i - m]  BY <2>1, <2>2, <3>2
      <4> QED  BY <4>1
    <3> QED  BY <3>1, <3>2
  <2>4. \A j \in DOMAIN f : j \in DOMAIN todo' /\ todo'[j] = f[j]  BY <2>1, <2>2
  <2>5. \A j \in DOMAIN rest : m + j \in DOMAIN todo' /\ todo'[m + j] = rest[j]
    BY <2>1, <2>2
  <2> QED  BY <2>3, <2>4, <2>5
<1>19. UNCHANGED <<tables, command, failed, before>> /\ Sums' = Sums
  BY DEF ReorderWork, Sums
<1>20. \A i \in DOMAIN todo' : ReorderStep(before, todo'[i])  BY <1>6, <1>16, <1>17, <1>18
<1>21. ASSUME ~failed, NEW r \in Sums PROVE SortedSoon(before, command.works, todo', r)
  <2> SUFFICES ASSUME r.uuid \in command.works, Distinct(SumsOf(before, r.uuid), SeqNumOf),
                      ~Sorted(before, r)
               PROVE  \E i \in DOMAIN todo' : Awaits(todo'[i], r)
    BY DEF SortedSoon
  <2>1. PICK i \in DOMAIN todo : Awaits(todo[i], r)  BY <1>6, <1>21 DEF SortedSoon
  <2>2. CASE i # 1
    <3>1. PICK j \in DOMAIN rest : rest[j] = todo[i]  BY <1>17, <2>2
    <3> QED  BY <1>18, <2>1, <3>1
  <2>3. CASE i = 1
    <3>1. r.uuid = u  BY <1>2, <2>1, <2>3 DEF Awaits, u
    <3>2. r \in R  BY <3>1 DEF R, SumsOf, Sums
    <3>3. PICK k \in DOMAIN s : s[k] = r  BY <1>7, <3>2, OrderFacts
    <3>4. s[k].index_num # Place(s, k)  BY <1>8, <3>1, <3>3
    <3>5. 1 \in DOMAIN seqs[k] /\ seqs[k][1] = callOf(k)  BY <1>8, <3>4
    <3>6. PICK j \in DOMAIN f : f[j] = callOf(k)  BY <1>14, <1>15, <3>5
    <3>7. Awaits(callOf(k), r)  BY <1>8, <3>3 DEF Awaits
    <3> QED  BY <1>18, <3>6, <3>7
  <2> QED  BY <2>2, <2>3
<1> QED  BY <1>6, <1>19, <1>20, <1>21 DEF ReorderInv

\* The row that has the face of the call's row gets its index.
LEMMA ReorderWrites ==
  ASSUME TypeInv, ReorderInv, DoCall
  PROVE  ReorderInv'
<1> SUFFICES ASSUME command.name = "reorder" PROVE ReorderInv'
  <2>1. command' = command  BY DEF DoCall
  <2> QED  BY <2>1 DEF ReorderInv
<1> DEFINE c == Head(todo)
           row == c.row
<1>1. /\ Faces(Sums) = Faces(before["md5_sum"])
      /\ \A i \in DOMAIN todo : ReorderStep(before, todo[i])
      /\ ~failed => \A r \in Sums : SortedSoon(before, command.works, todo, r)
  BY DEF ReorderInv
<1>2. todo \in Seq(CallType) /\ todo # << >> /\ TablesOK(tables) /\ failed \in BOOLEAN
  BY DEF DoCall, TypeInv
<1>3. c \in CallType /\ c.op # "ReorderWork" /\ c = todo[1] /\ 1 \in DOMAIN todo
  BY <1>2, TailFacts DEF DoCall
<1>4. /\ tables' = Outcome(c).tables
      /\ todo' = IF Outcome(c).ret = 0 THEN Tail(todo) ELSE After(c)
      /\ failed' = (failed \/ Outcome(c).ret # 0)
      /\ UNCHANGED <<exported, command, before>>
  BY DEF DoCall
<1>5. /\ \A i \in DOMAIN Tail(todo) : \E j \in DOMAIN todo : Tail(todo)[i] = todo[j]
      /\ \A i \in DOMAIN todo : i = 1 \/ \E j \in DOMAIN Tail(todo) : Tail(todo)[j] = todo[i]
  BY <1>2, TailFacts
<1>6. \A i \in DOMAIN After(c) : \E j \in DOMAIN todo : After(c)[i] = todo[j]
  BY <1>2, <1>3, AfterFacts
<1> HIDE DEF c
<1>7. \A i \in DOMAIN todo' : ReorderStep(before, todo'[i])  BY <1>1, <1>4, <1>5, <1>6
<1>8. /\ c.op = "UpdateMd5SumBySeqNum" /\ row \in SumType /\ Face(row) \in Faces(Sums)
      /\ Distinct(SumsOf(before, row.uuid), SeqNumOf) => Sorted(before, row)
  BY <1>1, <1>3 DEF ReorderStep
<1> HIDE DEF row
<1>9. row \in WideType /\ DB!SQLite!Md5Row(row) = row  BY <1>8, SumsAreWide, BoundRow
<1>10. Outcome(c) = DB!UpdateMd5SumBySeqNum(tables, row)  BY <1>8, OutcomeCases DEF row
<1>11. Updates(Outcome(c), tables, row, "seq_num")  BY <1>2, <1>9, <1>10, SumIsUpdated
<1>12. CASE Alike(tables, row, "seq_num")
  <2>1. Outcome(c).ret = -1 /\ Outcome(c).tables = tables  BY <1>11, <1>12 DEF Updates
  <2>2. Outcome(c).ret # 0  BY <2>1
  <2>3. Sums' = Sums /\ failed'  BY <1>4, <2>1, <2>2 DEF Sums
  <2> QED  BY <1>1, <1>4, <1>7, <2>3 DEF ReorderInv
<1>13. CASE ~Alike(tables, row, "seq_num")
  <2>1. Outcome(c).ret = 0 /\ Outcome(c).tables["md5_sum"] = Written(tables, row, "seq_num")
    BY <1>11, <1>13 DEF Updates
  <2>2. Sums' = Written(tables, row, "seq_num") /\ todo' = Tail(todo) /\ failed' = failed
    BY <1>2, <1>4, <2>1 DEF Sums
  <2>3. Sums \subseteq SumType /\ OneRowEach(Sums)  BY <1>2 DEF TablesOK, Sums
  <2>4. PICK q \in Sums : Face(q) = Face(row)  BY <1>8 DEF Faces
  <2>5. q.uuid = row.uuid /\ q.md5_sum = row.md5_sum /\ q.seq_num = row.seq_num
    <3>1. q \in SumType  BY <2>3
    <3> QED  BY <1>8, <2>4, <3>1, FaceFacts
  <2>6. q \in Hit(tables, row, "seq_num")  BY <2>5 DEF Hit, Sums
  <2>7. Hit(tables, row, "seq_num") = {q}
    <3>1. ASSUME NEW r \in Hit(tables, row, "seq_num"), r # q PROVE FALSE
      <4>1. r \in tables["md5_sum"]  BY DEF Hit
      <4> QED  BY <1>13, <2>6, <3>1, <4>1 DEF Alike
    <3> QED  BY <2>6, <3>1
  <2>8. Sums' = {IF r = q THEN row ELSE r : r \in Sums}  BY <2>2, <2>7 DEF Written, Sums
  <2>9. Faces(Sums') = Faces(Sums)  BY <2>4, <2>8 DEF Faces
  <2>10. ASSUME ~failed, NEW r \in Sums' PROVE SortedSoon(before, command.works, todo', r)
    <3> SUFFICES ASSUME r.uuid \in command.works, Distinct(SumsOf(before, r.uuid), SeqNumOf),
                        ~Sorted(before, r)
                 PROVE  \E i \in DOMAIN todo' : Awaits(todo'[i], r)
      BY DEF SortedSoon
    <3>1. r # row  BY <1>8
    <3>2. r \in Sums /\ r # q  BY <2>8, <3>1
    <3>3. PICK i \in DOMAIN todo : Awaits(todo[i], r)  BY <1>1, <2>10, <3>2 DEF SortedSoon
    <3>4. i # 1
      <4> SUFFICES ASSUME i = 1 PROVE FALSE  OBVIOUS
      <4>1. Awaits(c, r)  BY <1>3, <3>3
      <4>2. Face(r) = Face(row)  BY <1>8, <4>1 DEF Awaits, row
      <4> QED  BY <2>3, <2>4, <3>2, <4>2, FacesDiffer
    <3> QED  BY <1>5, <2>2, <3>3, <3>4
  <2>11. Faces(Sums)' = Faces(before["md5_sum"])'
    <3>1. Faces(Sums') = Faces(before["md5_sum"])  BY <1>1, <2>9
    <3> QED  BY <1>4, <3>1
  <2> QED  BY <1>4, <1>7, <2>2, <2>10, <2>11 DEF ReorderInv
<1> QED  BY <1>12, <1>13

\* What the invariant says in the end.
LEMMA ReorderEnds ==
  ASSUME TypeInv, CountInv, ReorderInv, NEW u \in Uuid
  PROVE  LET B == SumsOf(before, u)  R == SumsOf(tables, u)
         IN  /\ command.name = "reorder" => Keys(R) = Keys(B)
             /\ Complete("reorder") /\ u \in command.works /\ Distinct(B, SeqNumOf)
                => SameOrder(R, B, SeqNumOf)
<1> SUFFICES ASSUME command.name = "reorder"
             PROVE  LET B == SumsOf(before, u)  R == SumsOf(tables, u)
                    IN  /\ Keys(R) = Keys(B)
                        /\ Complete("reorder") /\ u \in command.works /\ Distinct(B, SeqNumOf)
                           => SameOrder(R, B, SeqNumOf)
  BY DEF Complete
<1> DEFINE B == SumsOf(before, u)
           R == SumsOf(tables, u)
           F == Faces(B)
           number == SeqNumbers(F)
<1>1. /\ Faces(Sums) = Faces(before["md5_sum"])
      /\ ~failed => \A r \in Sums : SortedSoon(before, command.works, todo, r)
  BY DEF ReorderInv
<1>2. /\ TablesOK(tables) /\ TablesOK(before) /\ IsFiniteSet(before["md5_sum"]) /\ IsFiniteSet(Sums)
  BY SumsAreFew DEF TypeInv
<1>3. Faces(R) = F  BY <1>1, <1>2, FacesOfWork DEF Sums
<1>4. /\ R \subseteq Sums /\ R \subseteq SumType /\ OneRowEach(R) /\ \A r \in R : r.uuid = u
      /\ B \subseteq SumType /\ OneRowEach(B) /\ \A r \in B : r.uuid = u
  BY <1>2 DEF TablesOK, SumsOf, Sums, OneRowEach
<1>5. IsFiniteSet(R)  BY <1>2, <1>4, FS_Subset
<1>6. Distinct(B, SeqNumOf) =>
        /\ IsFiniteSet(F) /\ number \in [F -> Int] /\ \A x \in F : number[x] = x.seq_num
        /\ \A x, y \in F : number[x] = number[y] => x = y
  BY <1>2, FaceNumbers
<1>7. Complete("reorder") /\ u \in command.works /\ Distinct(B, SeqNumOf) =>
        \A r \in R : r.index_num = Rank(number, Face(r))
  <2> SUFFICES ASSUME Complete("reorder"), u \in command.works, Distinct(B, SeqNumOf), NEW r \in R
               PROVE  r.index_num = Rank(number, Face(r))
    OBVIOUS
  <2>1. r \in Sums /\ r.uuid = u  BY <1>4
  <2>2. ~failed /\ DOMAIN todo = {}  BY DEF Complete
  <2>3. Sorted(before, r)  BY <1>1, <2>1, <2>2 DEF SortedSoon
  <2> QED  BY <2>1, <2>3 DEF Sorted, SeqPlace
<1> HIDE DEF B, R, F, number
<1>8. ASSUME NEW r \in R, NEW b \in B, Face(r) = Face(b)
      PROVE  KeyOf(r) = KeyOf(b) /\ r.md5_sum = b.md5_sum /\ r.seq_num = b.seq_num
  BY <1>4, <1>8, FaceFacts
<1>9. (\A r \in R : \E b \in B : Face(b) = Face(r)) /\ (\A b \in B : \E r \in R : Face(r) = Face(b))
  <2>1. (\A r \in R : Face(r) \in F) /\ (\A b \in B : Face(b) \in F)
        /\ \A x \in F : (\E r \in R : x = Face(r)) /\ \E b \in B : x = Face(b)
    BY <1>3 DEF Faces, F
  <2> QED  BY <2>1
<1>10. Keys(R) = Keys(B)
  <2>1. Keys(R) = {KeyOf(r) : r \in R} /\ Keys(B) = {KeyOf(b) : b \in B}  BY DEF Keys, KeyOf
  <2> QED  BY <1>8, <1>9, <2>1
<1>11. ASSUME Complete("reorder"), u \in command.works, Distinct(B, SeqNumOf)
       PROVE  SameOrder(R, B, SeqNumOf)
  <2>1. /\ IsFiniteSet(F) /\ number \in [F -> Int] /\ \A x \in F : number[x] = x.seq_num
        /\ \A x, y \in F : number[x] = number[y] => x = y
        /\ \A r \in R : r.index_num = Rank(number, Face(r))
    BY <1>6, <1>7, <1>11
  <2>2. /\ \A x \in F : Rank(number, x) \in 0..Cardinality(F) - 1
        /\ \A x, y \in F : number[x] < number[y] => Rank(number, x) < Rank(number, y)
        /\ \A k \in 0..Cardinality(F) - 1 : \E x \in F : Rank(number, x) = k
    BY <2>1, RankFacts
  <2>3. \A r \in R : Face(r) \in F  BY <1>3 DEF Faces
  <2>4. \A x \in F : \E r \in R : Face(r) = x  BY <1>3 DEF Faces
  <2> DEFINE face == [r \in R |-> Face(r)]
  <2>5. /\ face \in [R -> F] /\ \A r, q \in R : face[r] = face[q] => r = q
        /\ \A x \in F : \E r \in R : face[r] = x
    BY <1>4, <2>3, <2>4, FacesDiffer
  <2> HIDE DEF face
  <2>6. Cardinality(F) = Cardinality(R)  BY <1>5, <2>5, SameSize
  <2>7. {r.index_num : r \in R} = 0..Cardinality(R) - 1
    <3>1. \A r \in R : r.index_num \in 0..Cardinality(R) - 1  BY <2>1, <2>2, <2>3, <2>6
    <3>2. \A k \in 0..Cardinality(R) - 1 : \E r \in R : r.index_num = k
      BY <2>1, <2>2, <2>4, <2>6
    <3> QED  BY <3>1, <3>2
  <2>8. ASSUME NEW r \in R, NEW q \in R, NEW b \in B, NEW d \in B,
               b.md5_sum = r.md5_sum, d.md5_sum = q.md5_sum, b.seq_num < d.seq_num
        PROVE  r.index_num < q.index_num
    <3>1. ASSUME NEW p \in R, NEW a \in B, a.md5_sum = p.md5_sum PROVE p.seq_num = a.seq_num
      <4>1. PICK z \in B : Face(z) = Face(p)  BY <1>9
      <4>2. z.md5_sum = p.md5_sum /\ z.seq_num = p.seq_num  BY <1>8, <4>1
      <4>3. z = a  BY <1>4, <3>1, <4>2 DEF OneRowEach
      <4> QED  BY <4>2, <4>3
    <3>2. r.seq_num < q.seq_num  BY <2>8, <3>1
    <3>3. Face(r).seq_num = r.seq_num /\ Face(q).seq_num = q.seq_num  BY <1>4, FaceFacts
    <3>4. number[Face(r)] < number[Face(q)]  BY <2>1, <2>3, <3>2, <3>3
    <3> QED  BY <2>1, <2>2, <2>3, <3>4
  <2> QED  BY <1>10, <2>7, <2>8 DEF SameOrder, SeqNumOf
<1> QED  BY <1>10, <1>11 DEF B, R

----------------------------------------------------------------------------
(* Squash: the rows and where they go.                                      *)

RankOf(t, r) == Rank(IndexNumbers(SumsOf(t, r.uuid)), r)
Squashable(t) ==
    /\ TablesOK(t) /\ IsFiniteSet(t["md5_sum"]) /\ Cardinality(t["md5_sum"]) < Half
    /\ AllDistinct(t)

\* The numbers of a work's rows, when they are distinct.
LEMMA IndexFacts ==
  ASSUME NEW t, Squashable(t), NEW u \in Uuid, NEW W, W = SumsOf(t, u),
         NEW number, number = IndexNumbers(W)
  PROVE  /\ IsFiniteSet(W) /\ Cardinality(W) \in Nat /\ Cardinality(W) < Half
         /\ W \subseteq SumType /\ OneRowEach(W)
         /\ number \in [W -> Nat] /\ number \in [W -> Int]
         /\ \A x \in W : number[x] = IndexNumOf(x) /\ x.uuid = u /\ IndexNumOf(x) = AsSize(x.index_num)
         /\ \A x, y \in W : number[x] = number[y] => x = y
<1>1. W \subseteq t["md5_sum"] /\ \A x \in W : x.uuid = u  BY DEF SumsOf
<1>2. t["md5_sum"] \subseteq SumType /\ OneRowEach(t["md5_sum"])  BY DEF Squashable, TablesOK
<1>3. IsFiniteSet(W) /\ Cardinality(W) <= Cardinality(t["md5_sum"])
  BY <1>1, FS_Subset DEF Squashable
<1>4. Cardinality(W) \in Nat /\ Cardinality(t["md5_sum"]) \in Nat
  BY <1>3, FS_CardinalityType DEF Squashable
<1>5. Cardinality(W) < Half  BY <1>3, <1>4, HalfFacts DEF Squashable
<1>6. \A x \in W : IndexNumOf(x) \in Nat /\ IndexNumOf(x) = AsSize(x.index_num)
  BY <1>1, <1>2, AsSizeFacts DEF IndexNumOf, SumType
<1>7. \A x, y \in W : IndexNumOf(x) = IndexNumOf(y) => x = y
  BY DEF Squashable, AllDistinct, Distinct
<1>8. number = [x \in W |-> IndexNumOf(x)]  BY DEF IndexNumbers
<1>9. OneRowEach(W)  BY <1>1, <1>2 DEF OneRowEach
<1> QED  BY <1>1, <1>2, <1>3, <1>4, <1>5, <1>6, <1>7, <1>8, <1>9

\* A row moves down to its rank, in the order of the indexes.
LEMMA RankOfFacts ==
  ASSUME NEW t, Squashable(t), NEW r \in t["md5_sum"]
  PROVE  /\ RankOf(t, r) \in Nat /\ RankOf(t, r) < Half /\ RankOf(t, r) <= IndexNumOf(r)
         /\ \A q \in t["md5_sum"] : r.uuid = q.uuid /\ IndexNumOf(r) < IndexNumOf(q) =>
              RankOf(t, r) < RankOf(t, q)
<1> DEFINE W == SumsOf(t, r.uuid)
           number == IndexNumbers(W)
<1>1. r.uuid \in Uuid /\ r \in W  BY DEF Squashable, TablesOK, SumType, SumsOf
<1>2. \A q \in t["md5_sum"] : r.uuid = q.uuid => q \in W /\ RankOf(t, q) = Rank(number, q)
  BY DEF SumsOf, RankOf
<1>3. RankOf(t, r) = Rank(number, r)  BY DEF RankOf
<1>4. /\ IsFiniteSet(W) /\ Cardinality(W) \in Nat /\ Cardinality(W) < Half
      /\ number \in [W -> Nat] /\ number \in [W -> Int]
      /\ \A x \in W : number[x] = IndexNumOf(x)
      /\ \A x, y \in W : number[x] = number[y] => x = y
  BY <1>1, IndexFacts
<1> HIDE DEF W, number
<1>5. /\ \A x \in W : Rank(number, x) \in 0..Cardinality(W) - 1
      /\ \A x, y \in W : number[x] < number[y] => Rank(number, x) < Rank(number, y)
  BY <1>4, RankFacts
<1>6. Rank(number, r) <= number[r]  BY <1>1, <1>4, RankBelow
<1>7. RankOf(t, r) \in Nat /\ RankOf(t, r) < Half  BY <1>1, <1>3, <1>4, <1>5, HalfFacts
<1> QED  BY <1>1, <1>2, <1>3, <1>4, <1>5, <1>6, <1>7

LEMMA MovedFacts ==
  ASSUME NEW t, Squashable(t), NEW r \in t["md5_sum"]
  PROVE  /\ r \in SumType /\ r.uuid \in Uuid /\ Moved(t, r) \in SumType
         /\ KeyOf(Moved(t, r)) = KeyOf(r) /\ Moved(t, r).uuid = r.uuid
         /\ Moved(t, r).md5_sum = r.md5_sum /\ Moved(t, r).index_num = RankOf(t, r)
         /\ Moved(t, r) = [r EXCEPT !.index_num = RankOf(t, r)]
         /\ Moved(t, r) # r <=> r.index_num # RankOf(t, r)
         /\ Target(t, r) \in SumType /\ KeyOf(Target(t, r)) = KeyOf(r)
         /\ Target(t, r).uuid = r.uuid /\ Target(t, r).md5_sum = r.md5_sum
<1> DEFINE n == RankOf(t, r)
           q == [r EXCEPT !.index_num = n]
<1>1. r \in SumType /\ r.uuid \in Uuid  BY DEF Squashable, TablesOK, SumType
<1>2. n \in ColumnInt /\ n \in Int  BY RankOfFacts, HalfFacts
<1>3. Moved(t, r) = q  BY DEF Moved, RankOf
<1> HIDE DEF n
<1>4. /\ q \in SumType /\ q.uuid = r.uuid /\ q.md5_sum = r.md5_sum /\ q.index_num = n
      /\ (q # r <=> r.index_num # n)
  BY <1>1, <1>2 DEF SumType
<1> HIDE DEF q
<1>5. Target(t, r) \in {Moved(t, r), r}  BY DEF Target
<1> QED  BY <1>1, <1>3, <1>4, <1>5 DEF KeyOf, n, q

\* Rows of the tables have keys of their own, and works of their own numbers.
LEMMA RowsDiffer ==
  ASSUME NEW t, Squashable(t), NEW r \in t["md5_sum"], NEW q \in t["md5_sum"]
  PROVE  /\ r.uuid = q.uuid /\ r.md5_sum = q.md5_sum => r = q
         /\ KeyOf(r) = KeyOf(q) => r = q
         /\ r.uuid = q.uuid /\ IndexNumOf(r) = IndexNumOf(q) => r = q
         /\ r.uuid = q.uuid /\ r.index_num = q.index_num => r = q
<1>1. r.uuid = q.uuid /\ r.md5_sum = q.md5_sum => r = q
  BY DEF Squashable, TablesOK, OneRowEach
<1>2. KeyOf(r) = KeyOf(q) => r.uuid = q.uuid /\ r.md5_sum = q.md5_sum  BY DEF KeyOf
<1>3. r.uuid = q.uuid /\ IndexNumOf(r) = IndexNumOf(q) => r = q
  <2>1. r.uuid \in Uuid /\ r \in SumsOf(t, r.uuid)  BY MovedFacts DEF SumsOf
  <2>2. r.uuid = q.uuid => q \in SumsOf(t, r.uuid)  BY DEF SumsOf
  <2> QED  BY <2>1, <2>2 DEF Squashable, AllDistinct, Distinct
<1> QED  BY <1>1, <1>2, <1>3 DEF IndexNumOf

\* The calls of squash are different.
LEMMA SquashCallsDiffer ==
  ASSUME NEW t, NEW r, NEW q
  PROVE  /\ DeleteOf(r).op = "DeleteMd5Sum" /\ DeleteOf(r).row = r
         /\ CreateOf(t, r).op = "CreateMd5Sum" /\ CreateOf(t, r).row = Moved(t, r)
         /\ DeleteOf(r) # CreateOf(t, q)
         /\ DeleteOf(r) = DeleteOf(q) => r = q
<1>1. /\ DeleteOf(r).op = "DeleteMd5Sum" /\ DeleteOf(r).row = r
      /\ CreateOf(t, r).op = "CreateMd5Sum" /\ CreateOf(t, r).row = Moved(t, r)
  BY DEF DeleteOf, CreateOf, Call
<1>2. DeleteOf(q).row = q /\ CreateOf(t, q).op = "CreateMd5Sum"  BY DEF DeleteOf, CreateOf, Call
<1> QED  BY <1>1, <1>2

LEMMA CreatesDiffer ==
  ASSUME NEW t, Squashable(t), NEW r \in t["md5_sum"], NEW q \in t["md5_sum"],
         CreateOf(t, r) = CreateOf(t, q)
  PROVE  r = q
<1>1. Moved(t, r) = Moved(t, q)  BY SquashCallsDiffer
<1>2. KeyOf(r) = KeyOf(q)  BY <1>1, MovedFacts
<1> QED  BY <1>2, RowsDiffer

\* The parts of a plan that do not change when the first call is made.
LEMMA TailIsPaired ==
  ASSUME NEW t, NEW f \in Seq(CallType), f # << >>, Paired(t, f), InOrder(t, f),
         NEW g, g = Tail(f)
  PROVE  /\ Paired(t, g) /\ InOrder(t, g)
         /\ \A r : Pending(g, r) => Pending(f, r)
         /\ \A r : Pending(f, r) => f[1] = DeleteOf(r) \/ Pending(g, r)
<1>1. /\ 1 \in DOMAIN f
      /\ \A i \in DOMAIN f : i \in Nat /\ i >= 1
      /\ \A i \in DOMAIN g : i \in Nat /\ i + 1 \in DOMAIN f /\ g[i] = f[i + 1]
      /\ \A i \in DOMAIN f : i = 1 \/ (i - 1 \in DOMAIN g /\ g[i - 1] = f[i])
  BY TailFacts
<1>2. Paired(t, g)
  <2> SUFFICES ASSUME NEW i \in DOMAIN g
               PROVE  \E r \in t["md5_sum"] :
                        /\ Moves(t, r)
                        /\ \/ g[i] = DeleteOf(r) /\ i + 1 \in DOMAIN g /\ g[i + 1] = CreateOf(t, r)
                           \/ g[i] = CreateOf(t, r) /\ (i = 1 \/ g[i - 1] = DeleteOf(r))
    BY DEF Paired
  <2>1. i \in Nat /\ i + 1 \in DOMAIN f /\ g[i] = f[i + 1] /\ i + 1 - 1 = i  BY <1>1
  <2>2. PICK r \in t["md5_sum"] :
          /\ Moves(t, r)
          /\ \/ f[i + 1] = DeleteOf(r) /\ i + 1 + 1 \in DOMAIN f /\ f[i + 1 + 1] = CreateOf(t, r)
             \/ f[i + 1] = CreateOf(t, r) /\ (i + 1 = 1 \/ f[i + 1 - 1] = DeleteOf(r))
    BY <2>1 DEF Paired
  <2>3. CASE f[i + 1] = DeleteOf(r) /\ i + 1 + 1 \in DOMAIN f /\ f[i + 1 + 1] = CreateOf(t, r)
    <3>1. i + 1 + 1 # 1 /\ i + 1 + 1 - 1 = i + 1  BY <2>1
    <3>2. i + 1 \in DOMAIN g /\ g[i + 1] = CreateOf(t, r)  BY <1>1, <2>3, <3>1
    <3> QED  BY <2>1, <2>2, <2>3, <3>2
  <2>4. CASE f[i + 1] = CreateOf(t, r) /\ (i + 1 = 1 \/ f[i + 1 - 1] = DeleteOf(r))
    <3>1. i # 1 => i \in DOMAIN f /\ i - 1 \in DOMAIN g /\ g[i - 1] = f[i]
      <4> SUFFICES ASSUME i # 1 PROVE i \in DOMAIN f  BY <1>1
      <4>1. DOMAIN f = 1..Len(f) /\ Len(f) \in Nat /\ i + 1 \in DOMAIN f /\ i >= 1
        <5>1. DOMAIN f = 1..Len(f) /\ Len(f) \in Nat  BY SequenceFacts
        <5>2. DOMAIN g = 1..Len(g) /\ Len(g) \in Nat
          <6>1. g \in Seq(CallType)  BY TailFacts
          <6> QED  BY <6>1, SequenceFacts
        <5> QED  BY <2>1, <5>1, <5>2
      <4> QED  BY <2>1, <4>1
    <3>2. i = 1 \/ f[i] = DeleteOf(r)  BY <2>1, <2>4
    <3> QED  BY <2>1, <2>2, <2>4, <3>1, <3>2
  <2> QED  BY <2>2, <2>3, <2>4
<1>3. InOrder(t, g)
  <2> SUFFICES ASSUME NEW i \in DOMAIN g, NEW j \in DOMAIN g,
                      NEW r \in t["md5_sum"], NEW q \in t["md5_sum"],
                      i < j, g[i] = DeleteOf(r), g[j] = DeleteOf(q)
               PROVE  Earlier(r, q)
    BY DEF InOrder
  <2>1. i + 1 \in DOMAIN f /\ j + 1 \in DOMAIN f /\ i + 1 < j + 1
        /\ f[i + 1] = DeleteOf(r) /\ f[j + 1] = DeleteOf(q)
    BY <1>1
  <2> QED  BY <2>1 DEF InOrder
<1>4. \A r : Pending(g, r) => Pending(f, r)  BY <1>1 DEF Pending
<1>5. ASSUME NEW r, Pending(f, r) PROVE f[1] = DeleteOf(r) \/ Pending(g, r)
  <2>1. PICK i \in DOMAIN f : f[i] = DeleteOf(r)  BY <1>5 DEF Pending
  <2>2. CASE i = 1  BY <2>1, <2>2
  <2>3. CASE i # 1
    <3>1. i - 1 \in DOMAIN g /\ g[i - 1] = DeleteOf(r)  BY <1>1, <2>1, <2>3
    <3> QED  BY <3>1 DEF Pending
  <2> QED  BY <2>2, <2>3
<1> QED  BY <1>2, <1>3, <1>4, <1>5

\* The first call deletes a row: it is absent then, and its creation comes next.
DeletesFirst(t, f, b) ==
    /\ b \in t["md5_sum"] /\ Moves(t, b)
    /\ f[1] = DeleteOf(b) /\ 2 \in DOMAIN f /\ f[2] = CreateOf(t, b)
Deletes(t, f, g, b) ==
    /\ Pending(f, b)
    /\ \A r \in t["md5_sum"] : ~Absent(t, f, r) /\ (Absent(t, g, r) <=> r = b)
    /\ \A r \in t["md5_sum"] : Pending(g, r) <=> Pending(f, r) /\ r # b

LEMMA SquashTailDeletes ==
  ASSUME NEW t, Squashable(t), NEW f \in Seq(CallType), f # << >>, SquashPlan(t, f),
         NEW b, DeletesFirst(t, f, b), NEW g, g = Tail(f)
  PROVE  SquashPlan(t, g) /\ Deletes(t, f, g, b)
<1> DEFINE R == t["md5_sum"]
<1>0. /\ b \in R /\ Moves(t, b)
      /\ f[1] = DeleteOf(b) /\ 2 \in DOMAIN f /\ f[2] = CreateOf(t, b)
  BY DEF DeletesFirst
<1>1. /\ 1 \in DOMAIN f
      /\ \A i \in DOMAIN g : i \in Nat /\ i + 1 \in DOMAIN f /\ g[i] = f[i + 1]
      /\ \A i \in DOMAIN f : i = 1 \/ (i - 1 \in DOMAIN g /\ g[i - 1] = f[i])
      /\ \A i \in DOMAIN f : i \in Nat /\ i >= 1
  BY TailFacts
<1>2. /\ Paired(t, g) /\ InOrder(t, g)
      /\ \A r : Pending(g, r) => Pending(f, r)
      /\ \A r : Pending(f, r) => f[1] = DeleteOf(r) \/ Pending(g, r)
  BY TailIsPaired DEF SquashPlan
<1>3. Pending(f, b)  BY <1>0, <1>1 DEF Pending
<1>4. ASSUME NEW r \in R, Pending(g, r) PROVE r # b /\ Earlier(b, r)
  <2>1. PICK i \in DOMAIN g : g[i] = DeleteOf(r)  BY <1>4 DEF Pending
  <2>2. i + 1 \in DOMAIN f /\ f[i + 1] = DeleteOf(r) /\ 1 < i + 1
    <3>1. i \in Nat /\ i + 1 \in DOMAIN f /\ f[i + 1] = DeleteOf(r)  BY <1>1, <2>1
    <3>2. i # 0
      <4>1. g \in Seq(CallType)  BY TailFacts
      <4>2. DOMAIN g = 1..Len(g) /\ Len(g) \in Nat  BY <4>1, SequenceFacts
      <4> QED  BY <4>2
    <3> QED  BY <3>1, <3>2
  <2>3. Earlier(b, r)  BY <1>0, <1>1, <2>2 DEF SquashPlan, InOrder
  <2> QED  BY <2>3 DEF Earlier
<1>5. \A r \in R : Pending(g, r) <=> Pending(f, r) /\ r # b
  <2>1. ASSUME NEW r \in R, f[1] = DeleteOf(r) PROVE r = b
    <3>1. DeleteOf(b) = DeleteOf(r)  BY <1>0, <2>1
    <3>2. DeleteOf(b).row = b /\ DeleteOf(r).row = r  BY SquashCallsDiffer
    <3> QED  BY <3>1, <3>2
  <2> QED  BY <1>0, <1>2, <1>4, <2>1
<1>6. g # << >> /\ g[1] = CreateOf(t, b)
  <2>1. 2 - 1 \in DOMAIN g /\ g[2 - 1] = f[2]  BY <1>0, <1>1
  <2>2. f[2] = CreateOf(t, b)  BY <1>0
  <2> QED  BY ONLY <2>1, <2>2
<1>7. \A r \in R : ~Absent(t, f, r)  BY <1>0, SquashCallsDiffer DEF Absent
<1>8. \A r \in R : Absent(t, g, r) <=> r = b  BY <1>0, <1>6, CreatesDiffer DEF Absent
<1>9. Waiting(t, g)
  <2> SUFFICES ASSUME NEW r \in R, NEW q \in R, Pending(g, r), Moves(t, q), r.uuid = q.uuid,
                      IndexNumOf(r) < IndexNumOf(q)
               PROVE  Pending(g, q)
    BY DEF Waiting
  <2>1. Pending(f, q)  BY <1>2 DEF SquashPlan, Waiting
  <2>2. q # b
    <3> SUFFICES ASSUME q = b PROVE FALSE  OBVIOUS
    <3>1. IndexNumOf(b) < IndexNumOf(r)  BY <1>4 DEF Earlier
    <3>2. IndexNumOf(b) \in Nat /\ IndexNumOf(r) \in Nat
      <4>1. b \in SumType /\ r \in SumType  BY <1>0, MovedFacts
      <4> QED  BY <4>1, AsSizeFacts DEF IndexNumOf, SumType
    <3> QED  BY <3>1, <3>2
  <2> QED  BY <1>5, <2>1, <2>2
<1>10. \A r \in R : Absent(t, g, r) => ~Pending(g, r)  BY <1>5, <1>8
<1>11. SquashPlan(t, g)  BY <1>2, <1>9, <1>10 DEF SquashPlan
<1> QED  BY <1>3, <1>5, <1>7, <1>8, <1>11 DEF Deletes

\* The first call creates the absent row.
Creates(t, f, g, b) ==
    /\ ~Pending(f, b)
    /\ \A r \in t["md5_sum"] : ~Absent(t, g, r) /\ (Absent(t, f, r) <=> r = b)
    /\ \A r \in t["md5_sum"] : Pending(g, r) <=> Pending(f, r)

LEMMA SquashTailCreates ==
  ASSUME NEW t, Squashable(t), NEW f \in Seq(CallType), f # << >>, SquashPlan(t, f),
         NEW b \in t["md5_sum"], f[1] = CreateOf(t, b), NEW g, g = Tail(f)
  PROVE  SquashPlan(t, g) /\ Creates(t, f, g, b)
<1> DEFINE R == t["md5_sum"]
<1>1. /\ 1 \in DOMAIN f
      /\ \A i \in DOMAIN g : i \in Nat /\ i + 1 \in DOMAIN f /\ g[i] = f[i + 1]
  BY TailFacts
<1>2. /\ Paired(t, g) /\ InOrder(t, g)
      /\ \A r : Pending(g, r) => Pending(f, r)
      /\ \A r : Pending(f, r) => f[1] = DeleteOf(r) \/ Pending(g, r)
  BY TailIsPaired DEF SquashPlan
<1>3. \A r \in R : Pending(g, r) <=> Pending(f, r)  BY <1>2, SquashCallsDiffer
<1>4. \A r \in R : Absent(t, f, r) <=> r = b  BY CreatesDiffer DEF Absent
<1>5. \A r \in R : ~Absent(t, g, r)
  <2> SUFFICES ASSUME NEW r \in R, g # << >>, g[1] = CreateOf(t, r) PROVE FALSE
    BY DEF Absent
  <2>1. 1 \in DOMAIN g
    <3>1. g \in Seq(CallType)  BY TailFacts
    <3>2. DOMAIN g = 1..Len(g) /\ Len(g) \in Nat /\ Len(g) # 0  BY <3>1, SequenceFacts
    <3> QED  BY <3>2
  <2>2. 2 \in DOMAIN f /\ f[2] = CreateOf(t, r)
    <3>1. 1 + 1 = 2  OBVIOUS
    <3> QED  BY <1>1, <2>1, <3>1
  <2>3. PICK q \in R : \/ f[2] = DeleteOf(q)
                       \/ f[2] = CreateOf(t, q) /\ (2 = 1 \/ f[2 - 1] = DeleteOf(q))
    BY <2>2 DEF SquashPlan, Paired
  <2>4. f[2 - 1] = CreateOf(t, b) /\ 2 # 1  OBVIOUS
  <2> QED  BY <2>2, <2>3, <2>4, SquashCallsDiffer
<1>6. Waiting(t, g)  BY <1>3 DEF SquashPlan, Waiting
<1>7. ~Pending(f, b)  BY <1>4 DEF SquashPlan
<1>8. SquashPlan(t, g)  BY <1>2, <1>5, <1>6 DEF SquashPlan
<1> QED  BY <1>3, <1>4, <1>5, <1>7, <1>8 DEF Creates

\* A row that is not waiting keeps clear of the index of one that is.
LEMMA WaitingRowIsAlone ==
  ASSUME NEW t, Squashable(t), NEW f, Waiting(t, f),
         NEW b \in t["md5_sum"], Moves(t, b), Pending(f, b),
         NEW r \in t["md5_sum"], r # b, r.uuid = b.uuid, ~Pending(f, r)
  PROVE  Target(t, r).index_num # b.index_num
<1>1. Gap(t, b.uuid) /\ Gap(t, r.uuid)  BY DEF Moves
<1>2. Target(t, r) = Moved(t, r) /\ Moved(t, r).index_num = RankOf(t, r)
  BY <1>1, MovedFacts DEF Target
<1>3. r \in SumType /\ b \in SumType  BY MovedFacts
<1>4. /\ IndexNumOf(b) \in Nat /\ IndexNumOf(r) \in Nat /\ b.index_num \in Int
      /\ b.index_num >= 0 => IndexNumOf(b) = b.index_num
  BY <1>3, AsSizeFacts, HalfFacts DEF IndexNumOf, SumType
<1>5. IndexNumOf(r) # IndexNumOf(b) /\ r.index_num # b.index_num  BY RowsDiffer
<1>6. CASE IndexNumOf(b) < IndexNumOf(r)
  <2>1. ~Moves(t, r)  BY <1>6 DEF Waiting
  <2>2. Moved(t, r) = r  BY <1>1, <2>1 DEF Moves
  <2> QED  BY <1>2, <1>5, <2>2
<1>7. CASE IndexNumOf(r) < IndexNumOf(b)
  <2>1. RankOf(t, r) < RankOf(t, b) /\ RankOf(t, r) \in Nat  BY <1>7, RankOfFacts
  <2>2. RankOf(t, b) <= IndexNumOf(b) /\ RankOf(t, b) \in Nat  BY RankOfFacts
  <2>3. RankOf(t, r) < IndexNumOf(b)  BY <1>4, <2>1, <2>2
  <2> QED  BY <1>2, <1>4, <2>1, <2>3
<1> QED  BY <1>4, <1>5, <1>6, <1>7

LEMMA SquashRowsDelete ==
  ASSUME NEW t, Squashable(t), NEW f, Waiting(t, f), NEW g,
         NEW b \in t["md5_sum"], Moves(t, b), Deletes(t, f, g, b)
  PROVE  SquashRows(t, g)
           = {x \in SquashRows(t, f) : ~ (x.uuid = b.uuid /\ x.index_num = b.index_num)}
<1> DEFINE R == t["md5_sum"]
           Here(r) == IF Pending(f, r) THEN r ELSE Target(t, r)
           Old == {Here(r) : r \in R}
           New == {Here(r) : r \in R \ {b}}
<1>0. /\ Pending(f, b) /\ \A r \in R : ~Absent(t, f, r) /\ (Absent(t, g, r) <=> r = b)
      /\ \A r \in R : Pending(g, r) <=> Pending(f, r) /\ r # b
  BY DEF Deletes
<1>1. SquashRows(t, f) = Old  BY <1>0 DEF SquashRows
<1>2. SquashRows(t, g) = New
  <2>1. {q \in R : ~Absent(t, g, q)} = R \ {b}  BY <1>0
  <2>2. \A r \in R \ {b} : (IF Pending(g, r) THEN r ELSE Target(t, r)) = Here(r)  BY <1>0
  <2>3. SquashRows(t, g) = {IF Pending(g, r) THEN r ELSE Target(t, r) : r \in R \ {b}}
    BY <2>1 DEF SquashRows
  <2> HIDE DEF R, Here
  <2> QED  BY <2>2, <2>3
<1>3. Here(b) = b  BY <1>0
<1>4. ASSUME NEW r \in R, r # b PROVE ~ (Here(r).uuid = b.uuid /\ Here(r).index_num = b.index_num)
  <2>1. CASE Pending(f, r)
    <3>1. r.uuid = b.uuid /\ r.index_num = b.index_num => r = b  BY RowsDiffer
    <3> QED  BY <1>4, <2>1, <3>1
  <2>2. CASE ~Pending(f, r)
    <3>1. Target(t, r).uuid = r.uuid  BY MovedFacts
    <3>2. r.uuid = b.uuid => Target(t, r).index_num # b.index_num
      BY <1>0, <1>4, <2>2, WaitingRowIsAlone
    <3> QED  BY <2>2, <3>1, <3>2
  <2> QED  BY <2>1, <2>2
<1>5. New = {x \in Old : ~ (x.uuid = b.uuid /\ x.index_num = b.index_num)}
  <2> HIDE DEF R, Here
  <2> QED  BY <1>3, <1>4
<1> QED  BY <1>1, <1>2, <1>5

LEMMA SquashRowsCreate ==
  ASSUME NEW t, Squashable(t), NEW f, NEW g, NEW b \in t["md5_sum"], Moves(t, b),
         Creates(t, f, g, b)
  PROVE  /\ SquashRows(t, g) = SquashRows(t, f) \cup {Moved(t, b)}
         /\ ~ \E x \in SquashRows(t, f) :
                x.uuid = Moved(t, b).uuid /\ x.md5_sum = Moved(t, b).md5_sum
<1> DEFINE R == t["md5_sum"]
           Here(r) == IF Pending(f, r) THEN r ELSE Target(t, r)
           Old == {Here(r) : r \in R \ {b}}
           New == {Here(r) : r \in R}
<1>0. /\ ~Pending(f, b) /\ \A r \in R : ~Absent(t, g, r) /\ (Absent(t, f, r) <=> r = b)
      /\ \A r \in R : Pending(g, r) <=> Pending(f, r)
  BY DEF Creates
<1>1. SquashRows(t, f) = Old
  <2>1. {q \in R : ~Absent(t, f, q)} = R \ {b}  BY <1>0
  <2> QED  BY <2>1 DEF SquashRows
<1>2. SquashRows(t, g) = New
  <2>1. {q \in R : ~Absent(t, g, q)} = R  BY <1>0
  <2>2. \A r \in R : (IF Pending(g, r) THEN r ELSE Target(t, r)) = Here(r)  BY <1>0
  <2>3. SquashRows(t, g) = {IF Pending(g, r) THEN r ELSE Target(t, r) : r \in R}
    BY <2>1 DEF SquashRows
  <2> HIDE DEF R, Here
  <2> QED  BY <2>2, <2>3
<1>3. Here(b) = Moved(t, b)  BY <1>0 DEF Target, Moves
<1>4. New = Old \cup {Moved(t, b)}
  <2> HIDE DEF R, Here
  <2>1. b \in R  BY DEF R
  <2> QED  BY <1>3, <2>1
<1>5. ASSUME NEW r \in R, r # b
      PROVE  ~ (Here(r).uuid = Moved(t, b).uuid /\ Here(r).md5_sum = Moved(t, b).md5_sum)
  <2>1. Here(r).uuid = r.uuid /\ Here(r).md5_sum = r.md5_sum  BY MovedFacts
  <2>2. Moved(t, b).uuid = b.uuid /\ Moved(t, b).md5_sum = b.md5_sum  BY MovedFacts
  <2> QED  BY <1>5, <2>1, <2>2, RowsDiffer
<1> HIDE DEF R, Here
<1> QED  BY <1>1, <1>2, <1>4, <1>5

LEMMA BeforeIsSquashable ==
  ASSUME TypeInv, CountInv, AllDistinct(before)
  PROVE  Squashable(before)
BY SumsAreFew DEF Squashable, TypeInv

LEMMA SquashWrites ==
  ASSUME TypeInv, CountInv, SquashInv, DoCall
  PROVE  SquashInv'
<1> SUFFICES ASSUME command.name = "squash", AllDistinct(before)
             PROVE  ~failed' /\ SquashPlan(before, todo') /\ Sums' = SquashRows(before, todo')
  <2>1. command' = command /\ before' = before  BY DEF DoCall
  <2> QED  BY <2>1 DEF SquashInv
<1> DEFINE f == todo
           g == Tail(f)
           R == before["md5_sum"]
           c == Head(todo)
<1>1. ~failed /\ SquashPlan(before, f) /\ Sums = SquashRows(before, f)  BY DEF SquashInv
<1>2. Squashable(before)  BY BeforeIsSquashable
<1>3. f \in Seq(CallType) /\ f # << >> /\ TablesOK(tables)  BY DEF DoCall, TypeInv
<1>4. c = f[1] /\ 1 \in DOMAIN f  BY <1>3, TailFacts
<1>5. /\ tables' = Outcome(c).tables
      /\ todo' = IF Outcome(c).ret = 0 THEN g ELSE After(c)
      /\ failed' = (failed \/ Outcome(c).ret # 0)
  BY DEF DoCall
<1>6. PICK b \in R :
        /\ Moves(before, b)
        /\ \/ f[1] = DeleteOf(b) /\ 1 + 1 \in DOMAIN f /\ f[1 + 1] = CreateOf(before, b)
           \/ f[1] = CreateOf(before, b)
  BY <1>1, <1>4 DEF SquashPlan, Paired
<1>7. /\ b \in SumType /\ b.uuid \in Uuid /\ Moved(before, b) \in SumType
  BY <1>2, MovedFacts
<1> HIDE DEF f, g, c
<1>8. CASE f[1] = DeleteOf(b) /\ 1 + 1 \in DOMAIN f /\ f[1 + 1] = CreateOf(before, b)
  <2>1. 2 \in DOMAIN f /\ f[2] = CreateOf(before, b) /\ g = Tail(f)
    <3>1. 1 + 1 = 2  OBVIOUS
    <3> QED  BY <1>8, <3>1 DEF g
  <2>2. SquashPlan(before, g) /\ Deletes(before, f, g, b)
    <3>1. f \in Seq(CallType) /\ f # << >>  BY <1>3 DEF f
    <3>2. SquashPlan(before, f)  BY <1>1 DEF f
    <3>3. DeletesFirst(before, f, b)  BY <1>6, <1>8, <2>1 DEF DeletesFirst
    <3> QED  BY ONLY <1>2, <2>1, <3>1, <3>2, <3>3, SquashTailDeletes DEF R
  <2>3. SquashRows(before, g)
          = {x \in Sums : ~ (x.uuid = b.uuid /\ x.index_num = b.index_num)}
    BY <1>1, <1>2, <1>6, <2>2, SquashRowsDelete DEF SquashPlan
  <2>4. c.op = "DeleteMd5Sum" /\ c.row = b  BY <1>4, <1>8, SquashCallsDiffer
  <2>5. Outcome(c) = DB!DeleteMd5Sum(tables, b.uuid, b.index_num)  BY <2>4, OutcomeCases
  <2>6. b.index_num \in Int /\ DB!SQLite!AsInt(b.index_num) = b.index_num
    BY <1>7, AsIntFacts, HalfFacts DEF SumType
  <2>7. /\ Outcome(c).ret = 0
        /\ Outcome(c).tables["md5_sum"]
             = {x \in tables["md5_sum"] : ~ (x.uuid = b.uuid /\ x.index_num = b.index_num)}
    <3> DEFINE outcome == DB!DeleteMd5Sum(tables, b.uuid, b.index_num)
    <3>1. /\ outcome.ret = 0
          /\ outcome.tables["md5_sum"] = {x \in tables["md5_sum"] :
               ~ (x.uuid = b.uuid /\ x.index_num = DB!SQLite!AsInt(b.index_num))}
      <4>1. TablesOK(tables) /\ b.uuid \in Uuid /\ b.index_num \in Int  BY <1>3, <1>7, <2>6
      <4> QED  BY ONLY <4>1, SumIsDeleted DEF outcome
    <3> HIDE DEF outcome
    <3> QED  BY <2>5, <2>6, <3>1 DEF outcome
  <2>8. Sums' = SquashRows(before, g)  BY <1>5, <2>3, <2>7 DEF Sums
  <2> QED  BY <1>1, <1>5, <2>2, <2>7, <2>8
<1>9. CASE f[1] = CreateOf(before, b)
  <2> DEFINE row == Moved(before, b)
  <2>1. g = Tail(f)  BY DEF g
  <2>2. SquashPlan(before, g) /\ Creates(before, f, g, b)
    <3>1. f \in Seq(CallType) /\ f # << >>  BY <1>3 DEF f
    <3>2. SquashPlan(before, f)  BY <1>1 DEF f
    <3>3. f[1] = CreateOf(before, b) /\ b \in before["md5_sum"]  BY <1>6, <1>9
    <3> QED  BY ONLY <1>2, <2>1, <3>1, <3>2, <3>3, SquashTailCreates DEF R
  <2>3. /\ SquashRows(before, g) = Sums \cup {row}
        /\ ~ \E x \in Sums : x.uuid = row.uuid /\ x.md5_sum = row.md5_sum
    BY <1>1, <1>2, <1>6, <2>2, SquashRowsCreate
  <2>4. c.op = "CreateMd5Sum" /\ c.row = row  BY <1>4, <1>9, SquashCallsDiffer
  <2> HIDE DEF row
  <2>5. Outcome(c) = DB!CreateMd5Sum(tables, row)  BY <2>4, OutcomeCases
  <2>6. row \in WideType /\ DB!SQLite!Md5Row(row) = row  BY <1>7, SumsAreWide, BoundRow DEF row
  <2>7. Outcome(c).ret = 0 /\ Outcome(c).tables["md5_sum"] = tables["md5_sum"] \cup {row}
    BY <1>3, <2>3, <2>5, <2>6, SumIsCreated DEF Sums
  <2>8. Sums' = SquashRows(before, g)  BY <1>5, <2>3, <2>7 DEF Sums
  <2> QED  BY <1>1, <1>5, <2>2, <2>7, <2>8
<1> QED  BY <1>6, <1>8, <1>9

----------------------------------------------------------------------------
(* Squash: the calls that are planned.                                      *)

\* s is an order of the rows of t, each work's by their indexes.
Ordered(t, s) == s \in Orders(t["md5_sum"]) /\ SortedBy(s, IndexNumOf)

LEMMA OrderedFacts ==
  ASSUME NEW t, Squashable(t), NEW s, Ordered(t, s)
  PROVE  /\ s \in Seq(t["md5_sum"]) /\ Len(s) \in Nat /\ DOMAIN s = 1..Len(s)
         /\ \A i \in DOMAIN s : s[i] \in t["md5_sum"]
         /\ \A r \in t["md5_sum"] : \E i \in DOMAIN s : s[i] = r
         /\ \A i, j \in DOMAIN s : s[i] = s[j] => i = j
         /\ \A i, j \in DOMAIN s : i < j => Earlier(s[i], s[j])
<1> DEFINE R == t["md5_sum"]
<1>1. IsFiniteSet(R) /\ s \in Orders(R)  BY DEF Squashable, Ordered
<1> HIDE DEF R
<1>2. /\ s \in Seq(R) /\ Len(s) \in Nat /\ DOMAIN s = 1..Len(s)
      /\ \A r \in R : \E i \in DOMAIN s : s[i] = r
      /\ \A i, j \in DOMAIN s : s[i] = s[j] => i = j
  BY <1>1, OrderFacts
<1>3. \A i \in DOMAIN s : s[i] \in R  BY <1>2, SequenceFacts
<1>4. ASSUME NEW i \in DOMAIN s, NEW j \in DOMAIN s, i < j PROVE Earlier(s[i], s[j])
  <2> DEFINE r == s[i]
             q == s[j]
  <2>1. r \in R /\ q \in R /\ r # q
    <3>1. i \in Nat /\ j \in Nat  BY <1>2
    <3> QED  BY <1>2, <1>3, <1>4, <3>1
  <2>2. r.uuid = q.uuid => IndexNumOf(r) <= IndexNumOf(q)  BY <1>4 DEF Ordered, SortedBy
  <2> HIDE DEF r, q
  <2>3. r \in SumType /\ q \in SumType  BY <2>1, MovedFacts DEF R
  <2>4. IndexNumOf(r) \in Nat /\ IndexNumOf(q) \in Nat  BY <2>3, AsSizeFacts DEF IndexNumOf, SumType
  <2>5. r.uuid = q.uuid => IndexNumOf(r) # IndexNumOf(q)  BY <2>1, RowsDiffer DEF R
  <2>6. Earlier(r, q)  BY <2>1, <2>2, <2>4, <2>5 DEF Earlier
  <2> QED  BY <2>6 DEF r, q
<1> QED  BY <1>2, <1>3, <1>4 DEF R

\* A row's place in the order is its rank.
LEMMA SquashPlace ==
  ASSUME NEW t, Squashable(t), NEW s, Ordered(t, s), NEW k \in DOMAIN s
  PROVE  Place(s, k) = RankOf(t, s[k])
<1> DEFINE u == s[k].uuid
           W == SumsOf(t, u)
           number == IndexNumbers(W)
           D == {j \in DOMAIN s : s[j].uuid = s[k].uuid}
           h == [j \in D |-> s[j]]
<1>1. /\ s \in Seq(t["md5_sum"]) /\ Len(s) \in Nat /\ DOMAIN s = 1..Len(s)
      /\ \A i \in DOMAIN s : s[i] \in t["md5_sum"]
      /\ \A r \in t["md5_sum"] : \E i \in DOMAIN s : s[i] = r
      /\ \A i, j \in DOMAIN s : s[i] = s[j] => i = j
      /\ \A i, j \in DOMAIN s : i < j => Earlier(s[i], s[j])
  BY OrderedFacts
<1>2. u \in Uuid  BY <1>1, MovedFacts
<1>3. /\ IsFiniteSet(W) /\ number \in [W -> Int]
      /\ \A x \in W : number[x] = IndexNumOf(x) /\ IndexNumOf(x) \in Int
      /\ \A x, y \in W : number[x] = number[y] => x = y
  <2> HIDE DEF u
  <2>1. /\ IsFiniteSet(W) /\ number \in [W -> Int]
        /\ \A x \in W : number[x] = IndexNumOf(x)
        /\ \A x, y \in W : number[x] = number[y] => x = y
    BY <1>2, IndexFacts
  <2> HIDE DEF number, W
  <2> QED  BY <2>1
<1>4. W = {r \in t["md5_sum"] : r.uuid = u}  BY DEF SumsOf
<1> HIDE DEF W, number
<1>5. h \in [D -> W] /\ \A j \in D : h[j] = s[j] /\ j \in DOMAIN s /\ s[j].uuid = u  BY <1>1, <1>4
<1>6. k \in D /\ D = {j \in 1..Len(s) : s[j].uuid = s[k].uuid}  BY <1>1
<1>7. \A x \in W : \E j \in D : h[j] = x  BY <1>1, <1>4, <1>5
<1>8. \A i, j \in D : h[i] = h[j] => i = j  BY <1>1, <1>5
<1>9. \A i, j \in D : i < j => number[h[i]] <= number[h[j]]
  <2> SUFFICES ASSUME NEW i \in D, NEW j \in D, i < j PROVE number[h[i]] <= number[h[j]]
    OBVIOUS
  <2>1. Earlier(s[i], s[j]) /\ s[i].uuid = s[j].uuid  BY <1>1, <1>5
  <2>2. h[i] \in W /\ h[j] \in W /\ h[i] = s[i] /\ h[j] = s[j]  BY <1>5
  <2> HIDE DEF h, D
  <2>3. IndexNumOf(h[i]) < IndexNumOf(h[j])  BY <2>1, <2>2 DEF Earlier
  <2> QED  BY <1>3, <2>2, <2>3
<1> HIDE DEF D, h
<1>10. Ranked(Len(s), s, k, W, number, D, h)
  BY <1>1, <1>3, <1>5, <1>6, <1>7, <1>8, <1>9 DEF Ranked
<1>11. Place(s, k) = Rank(number, h[k])  BY <1>10, PlaceIsRank
<1> QED  BY <1>5, <1>6, <1>11 DEF RankOf, number, W, u

\* The calls for the row at k.
LEMMA SquashCallsOf ==
  ASSUME NEW t, Squashable(t), NEW s, Ordered(t, s), NEW k \in DOMAIN s, NEW r, r = s[k]
  PROVE  /\ Moves(t, r) => SquashCalls(t, s, k) = <<DeleteOf(r), CreateOf(t, r)>>
         /\ ~Moves(t, r) => SquashCalls(t, s, k) = << >>
<1> DEFINE n == Place(s, k)
<1>1. n = RankOf(t, r)  BY SquashPlace
<1>2. r \in t["md5_sum"]  BY OrderedFacts
<1>3. /\ Moved(t, r) = [r EXCEPT !.index_num = n]
      /\ Moved(t, r) # r <=> r.index_num # n
  BY <1>1, <1>2, MovedFacts
<1> HIDE DEF n
<1>4. Moves(t, r) <=> Gap(t, r.uuid) /\ r.index_num # n  BY <1>3 DEF Moves
<1>5. SquashCalls(t, s, k)
        = IF Gap(t, r.uuid) /\ r.index_num # n
          THEN <<Call("DeleteMd5Sum", r, "return"),
                 Call("CreateMd5Sum", [r EXCEPT !.index_num = n], "return")>>
          ELSE << >>
  BY DEF SquashCalls, n
<1> QED  BY <1>3, <1>4, <1>5 DEF DeleteOf, CreateOf

\* f has the calls for the rows up to m.
Planned(t, s, m, f) ==
    /\ Paired(t, f) /\ InOrder(t, f)
    /\ f # << >> => \E r : f[1] = DeleteOf(r)
    /\ \A r : Pending(f, r) <=> Moves(t, r) /\ \E k \in 1..m : r = s[k]

\* Two more calls.
LEMMA TwoMore ==
  ASSUME NEW T, NEW f \in Seq(T), NEW d \in T, NEW c \in T, NEW h, h = f \o <<d, c>>, NEW L, L = Len(f)
  PROVE  /\ h \in Seq(T) /\ L \in Nat /\ DOMAIN f = 1..L /\ DOMAIN h = 1..L + 2
         /\ \A i \in 1..L : h[i] = f[i]
         /\ h[L + 1] = d /\ h[L + 2] = c
OBVIOUS

LEMMA PairIsPlanned ==
  ASSUME NEW t, Squashable(t), NEW s, Ordered(t, s), NEW m \in Nat, m + 1 \in DOMAIN s,
         NEW f \in Seq(CallType), Planned(t, s, m, f),
         NEW r, r = s[m + 1], Moves(t, r), DeleteOf(r) \in CallType, CreateOf(t, r) \in CallType,
         NEW h, h = f \o <<DeleteOf(r), CreateOf(t, r)>>
  PROVE  Planned(t, s, m + 1, h)
<1> DEFINE R == t["md5_sum"]
           d == DeleteOf(r)
           c == CreateOf(t, r)
           L == Len(f)
<1>1. /\ DOMAIN s = 1..Len(s) /\ Len(s) \in Nat /\ \A i \in DOMAIN s : s[i] \in R
      /\ \A i, j \in DOMAIN s : i < j => Earlier(s[i], s[j])
  BY OrderedFacts
<1>2. r \in R  BY <1>1
<1>3. /\ d.op = "DeleteMd5Sum" /\ d.row = r /\ c.op = "CreateMd5Sum"
      /\ \A q : d # CreateOf(t, q) /\ c # DeleteOf(q) /\ (d = DeleteOf(q) => q = r)
  <2>1. /\ d.op = "DeleteMd5Sum" /\ d.row = r /\ c.op = "CreateMd5Sum"
    BY SquashCallsDiffer
  <2>2. \A q : /\ CreateOf(t, q).op = "CreateMd5Sum"
               /\ DeleteOf(q).op = "DeleteMd5Sum" /\ DeleteOf(q).row = q
    BY SquashCallsDiffer
  <2> HIDE DEF d, c
  <2> QED  BY <2>1, <2>2
<1> HIDE DEF d, c
<1>4. /\ L \in Nat /\ DOMAIN f = 1..L /\ DOMAIN h = 1..L + 2
      /\ \A i \in 1..L : h[i] = f[i]
      /\ h[L + 1] = d /\ h[L + 2] = c
  <2>1. d \in CallType /\ c \in CallType /\ h = f \o <<d, c>>  BY DEF d, c
  <2> QED  BY <2>1, TwoMore
<1> HIDE DEF L
<1>5. DOMAIN h = DOMAIN f \cup {L + 1, L + 2}  BY <1>4
<1>6. \A q : Pending(h, q) <=> Pending(f, q) \/ q = r
  <2>1. \A q : Pending(f, q) => Pending(h, q)  BY <1>4, <1>5 DEF Pending
  <2>2. L + 1 \in DOMAIN h /\ h[L + 1] = DeleteOf(r)  BY <1>4, <1>5 DEF d
  <2>3. Pending(h, r)  BY <2>2 DEF Pending
  <2>4. ASSUME NEW q, Pending(h, q) PROVE Pending(f, q) \/ q = r
    <3>1. PICK i \in DOMAIN h : h[i] = DeleteOf(q)  BY <2>4 DEF Pending
    <3>2. CASE i \in DOMAIN f
      <4>1. f[i] = DeleteOf(q)  BY <1>4, <3>1, <3>2
      <4> QED  BY <3>2, <4>1 DEF Pending
    <3>3. CASE i \in {L + 1, L + 2}  BY <1>3, <1>4, <3>1, <3>3
    <3> QED  BY <1>5, <3>2, <3>3
  <2> QED  BY <2>1, <2>3, <2>4
<1>7. \A q : Pending(h, q) <=> Moves(t, q) /\ \E k \in 1..m + 1 : q = s[k]
  <2>1. \A q : Pending(f, q) <=> Moves(t, q) /\ \E k \in 1..m : q = s[k]  BY DEF Planned
  <2>2. \A k : k \in 1..m + 1 <=> k \in 1..m \/ k = m + 1  OBVIOUS
  <2>3. \A q : (\E k \in 1..m + 1 : q = s[k]) <=> (\E k \in 1..m : q = s[k]) \/ q = r
    BY <2>2
  <2> QED  BY <1>6, <2>1, <2>3
<1>8. h # << >> /\ \E q : h[1] = DeleteOf(q)
  <2>1. h # << >>  BY <1>4, <1>5
  <2>2. CASE f = << >>
    <3>1. L = 0  BY <2>2 DEF L
    <3> QED  BY <1>4, <2>1, <3>1 DEF d
  <2>3. CASE f # << >>
    <3>1. 1 \in DOMAIN f  BY <2>3, TailFacts
    <3>2. h[1] = f[1]  BY <1>4, <3>1
    <3> QED  BY <2>1, <2>3, <3>2 DEF Planned
  <2> QED  BY <2>2, <2>3
<1>9. Paired(t, h)
  <2> SUFFICES ASSUME NEW i \in DOMAIN h
               PROVE  \E q \in R :
                        /\ Moves(t, q)
                        /\ \/ h[i] = DeleteOf(q) /\ i + 1 \in DOMAIN h /\ h[i + 1] = CreateOf(t, q)
                           \/ h[i] = CreateOf(t, q) /\ (i = 1 \/ h[i - 1] = DeleteOf(q))
    BY DEF Paired
  <2>1. CASE i \in DOMAIN f
    <3>1. PICK q \in R :
            /\ Moves(t, q)
            /\ \/ f[i] = DeleteOf(q) /\ i + 1 \in DOMAIN f /\ f[i + 1] = CreateOf(t, q)
               \/ f[i] = CreateOf(t, q) /\ (i = 1 \/ f[i - 1] = DeleteOf(q))
      BY <2>1 DEF Planned, Paired
    <3>2. h[i] = f[i] /\ (i + 1 \in DOMAIN f => i + 1 \in DOMAIN h /\ h[i + 1] = f[i + 1])
      BY <1>4, <1>5, <2>1
    <3>3. i # 1 => h[i - 1] = f[i - 1]
      <4> SUFFICES ASSUME i # 1 PROVE i - 1 \in 1..L  BY <1>4
      <4> QED  BY <1>4, <2>1
    <3> QED  BY <3>1, <3>2, <3>3
  <2>2. CASE i = L + 1
    <3>1. i + 1 = L + 2 /\ i + 1 \in DOMAIN h  BY <1>4, <1>5, <2>2
    <3>2. h[i] = DeleteOf(r) /\ h[i + 1] = CreateOf(t, r)  BY <1>4, <2>2, <3>1 DEF d, c
    <3> QED  BY <1>2, <3>1, <3>2
  <2>3. CASE i = L + 2
    <3>1. i - 1 = L + 1  BY <1>4, <2>3
    <3>2. h[i] = CreateOf(t, r) /\ h[i - 1] = DeleteOf(r)  BY <1>4, <2>3, <3>1 DEF d, c
    <3> QED  BY <1>2, <3>2
  <2> QED  BY <1>5, <2>1, <2>2, <2>3
<1>10. InOrder(t, h)
  <2> SUFFICES ASSUME NEW i \in DOMAIN h, NEW j \in DOMAIN h, NEW p \in R, NEW q \in R,
                      i < j, h[i] = DeleteOf(p), h[j] = DeleteOf(q)
               PROVE  Earlier(p, q)
    BY DEF InOrder
  <2>1. j # L + 2 /\ i # L + 2  BY <1>3, <1>4
  <2>2. i \in 1..L /\ h[i] = f[i]  BY <1>4, <1>5, <2>1
  <2>3. CASE j \in DOMAIN f
    <3>1. f[j] = DeleteOf(q) /\ f[i] = DeleteOf(p) /\ i \in DOMAIN f  BY <1>4, <2>2, <2>3
    <3> QED  BY <2>3, <3>1 DEF Planned, InOrder
  <2>4. CASE j = L + 1
    <3>1. q = r  BY <1>3, <1>4, <2>4
    <3>2. Pending(f, p)  BY <1>4, <2>2 DEF Pending
    <3>3. PICK k \in 1..m : p = s[k]  BY <3>2 DEF Planned
    <3>4. k \in DOMAIN s /\ k < m + 1  BY <1>1, <3>3
    <3> QED  BY <1>1, <3>1, <3>3, <3>4
  <2> QED  BY <1>5, <2>1, <2>3, <2>4
<1> QED  BY <1>7, <1>8, <1>9, <1>10 DEF Planned

\* All of the calls.
LEMMA AllArePlanned ==
  ASSUME NEW t, Squashable(t), NEW s, Ordered(t, s),
         NEW seqs, seqs = [k \in DOMAIN s |-> SquashCalls(t, s, k)]
  PROVE  FlattenSeq(seqs) \in Seq(CallType) /\ Planned(t, s, Len(s), FlattenSeq(seqs))
<1> DEFINE R == t["md5_sum"]
           n == Len(s)
<1>1. R \subseteq SumType /\ s \in Seq(R) /\ n \in Nat /\ DOMAIN s = 1..n /\ \A k \in DOMAIN s : s[k] \in R
  BY OrderedFacts DEF Squashable, TablesOK
<1>2. RowCalls(R, s, seqs)  BY <1>1 DEF RowCalls
<1>3. Parts(n, CallType, seqs)  BY <1>2, RowCallsAreParts
<1> HIDE DEF R, n
<1>4. n \in Nat /\ seqs \in [1..n -> Seq(CallType)]  BY <1>3 DEF Parts
<1>5. PICK g : JoinedUpTo(g, n, CallType, seqs) /\ g[n] = FlattenSeq(seqs)  BY <1>3, FlattenSteps
<1> DEFINE S == {m \in 0..n : Planned(t, s, m, g[m])}
<1>6. 0 \in S
  <2>1. DOMAIN g[0] = {} /\ g[0] = << >>  BY <1>5 DEF JoinedUpTo
  <2>2. Planned(t, s, 0, g[0])  BY <2>1 DEF Planned, Paired, InOrder, Pending
  <2> QED  BY <1>4, <2>2
<1>7. ASSUME NEW m \in 0..n - 1, m \in S PROVE m + 1 \in S
  <2> DEFINE r == s[m + 1]
             f == g[m]
  <2>1. m \in Nat /\ m + 1 \in 1..n /\ m + 1 \in 0..n /\ m \in 0..n /\ (m + 1) - 1 = m  BY <1>4
  <2>2. f \in Seq(CallType) /\ Planned(t, s, m, f) /\ m + 1 \in DOMAIN s /\ r \in R
    BY <1>1, <1>5, <1>7, <2>1 DEF n, JoinedUpTo
  <2>3. g[m + 1] = f \o seqs[m + 1] /\ seqs[m + 1] = SquashCalls(t, s, m + 1)
    <3>1. g[m + 1] = g[(m + 1) - 1] \o seqs[m + 1]
      <4> DEFINE k == m + 1
      <4>1. k \in 1..n  BY <2>1
      <4> HIDE DEF k
      <4>2. g[k] = g[k - 1] \o seqs[k]  BY ONLY <1>5, <4>1 DEF JoinedUpTo
      <4> QED  BY ONLY <4>2 DEF k
    <3>2. seqs[m + 1] = SquashCalls(t, s, m + 1)  BY <2>2
    <3> QED  BY <2>1, <3>1, <3>2
  <2> HIDE DEF S
  <2>4. Planned(t, s, m + 1, g[m + 1])
    <3>1. CASE Moves(t, r)
      <4>1. seqs[m + 1] = <<DeleteOf(r), CreateOf(t, r)>>  BY <2>2, <2>3, <3>1, SquashCallsOf
      <4>2. DeleteOf(r) \in CallType /\ CreateOf(t, r) \in CallType
        <5>1. seqs[m + 1] \in Seq(CallType)  BY <1>4, <2>1
        <5>2. seqs[m + 1][1] = DeleteOf(r) /\ seqs[m + 1][2] = CreateOf(t, r)
              /\ Len(seqs[m + 1]) = 2
          <6> DEFINE d == DeleteOf(r)
                     c == CreateOf(t, r)
          <6>1. seqs[m + 1] = <<d, c>>  BY <4>1
          <6> HIDE DEF d, c, r
          <6>2. <<d, c>>[1] = d /\ <<d, c>>[2] = c /\ Len(<<d, c>>) = 2  OBVIOUS
          <6> QED  BY <6>1, <6>2 DEF d, c
        <5> HIDE DEF r
        <5> QED  BY <5>1, <5>2, SequenceFacts
      <4>3. g[m + 1] = f \o <<DeleteOf(r), CreateOf(t, r)>>  BY <2>3, <4>1
      <4> HIDE DEF f
      <4> QED  BY <2>1, <2>2, <3>1, <4>2, <4>3, PairIsPlanned
    <3>2. CASE ~Moves(t, r)
      <4>1. seqs[m + 1] = << >>  BY <2>2, <2>3, <3>2, SquashCallsOf
      <4>2. g[m + 1] = f  BY <2>2, <2>3, <4>1, ConcatEmptySeq
      <4>3. \A k : k \in 1..m + 1 <=> k \in 1..m \/ k = m + 1  BY <2>1
      <4>4. \A q : Pending(f, q) <=> Moves(t, q) /\ \E k \in 1..m : q = s[k]
        BY <2>2 DEF Planned
      <4>5. \A q : Pending(f, q) <=> Moves(t, q) /\ \E k \in 1..m + 1 : q = s[k]
        BY <3>2, <4>3, <4>4
      <4> HIDE DEF f
      <4> QED  BY <2>2, <4>2, <4>5 DEF Planned
    <3> QED  BY <3>1, <3>2
  <2> QED  BY <2>1, <2>4 DEF S
<1>8. 0..n \subseteq S
  <2> HIDE DEF S
  <2> QED  BY <1>4, <1>6, <1>7, InductionTo
<1>9. n \in S /\ n \in 0..n  BY <1>4, <1>8
<1> QED  BY <1>5, <1>9 DEF n, JoinedUpTo

LEMMA PlannedIsSquashPlan ==
  ASSUME NEW t, Squashable(t), NEW s, Ordered(t, s), NEW f, Planned(t, s, Len(s), f)
  PROVE  SquashPlan(t, f) /\ SquashRows(t, f) = t["md5_sum"]
<1> DEFINE R == t["md5_sum"]
<1>1. \A r \in R : \E k \in 1..Len(s) : r = s[k]
  <2>1. DOMAIN s = 1..Len(s) /\ \A r \in R : \E k \in DOMAIN s : s[k] = r  BY OrderedFacts
  <2> QED  BY <2>1
<1>2. \A r \in R : Pending(f, r) <=> Moves(t, r)  BY <1>1 DEF Planned
<1>3. \A r \in R : ~Absent(t, f, r)  BY SquashCallsDiffer DEF Planned, Absent
<1>4. Waiting(t, f)  BY <1>2 DEF Waiting
<1>5. SquashPlan(t, f)  BY <1>3, <1>4 DEF Planned, SquashPlan
<1>6. SquashRows(t, f) = R
  <2>1. {q \in R : ~Absent(t, f, q)} = R  BY <1>3
  <2>2. \A r \in R : (IF Pending(f, r) THEN r ELSE Target(t, r)) = r
    BY <1>2 DEF Target, Moves
  <2>3. SquashRows(t, f) = {IF Pending(f, r) THEN r ELSE Target(t, r) : r \in R}
    BY <2>1 DEF SquashRows
  <2> HIDE DEF R
  <2> QED  BY <2>2, <2>3
<1> QED  BY <1>5, <1>6

LEMMA SquashStarts ==
  ASSUME TypeInv, CountInv, SquashMd5Indexes
  PROVE  SquashInv'
<1> DEFINE seqs(s) == [k \in DOMAIN s |-> SquashCalls(tables, s, k)]
<1>1. DB!GetChecksumList(tables).rows = tables["md5_sum"]  BY Reads
<1>2. PICK s \in Orders(tables["md5_sum"]) :
        SortedBy(s, IndexNumOf) /\ Plan("squash", Uuid, FlattenSeq(seqs(s)))
  BY <1>1 DEF SquashMd5Indexes
<1> DEFINE f == FlattenSeq(seqs(s))
<1>3. tables' = tables /\ before' = tables /\ failed' = FALSE /\ todo' = f
  BY <1>2 DEF Plan, Begin
<1>4. Ordered(tables, s)  BY <1>2 DEF Ordered
<1> SUFFICES ASSUME AllDistinct(tables)
             PROVE  SquashPlan(tables, f) /\ Sums = SquashRows(tables, f)
  <2> HIDE DEF f
  <2> QED  BY <1>3 DEF SquashInv, Sums
<1>5. Squashable(tables)
  <2>1. IsFiniteSet(Sums) /\ Cardinality(Sums) < Half  BY SumsAreFew
  <2> QED  BY <2>1 DEF Squashable, Sums, TypeInv
<1> DEFINE calls == seqs(s)
<1>6. calls = [k \in DOMAIN s |-> SquashCalls(tables, s, k)]  OBVIOUS
<1> HIDE DEF calls
<1>7. Planned(tables, s, Len(s), FlattenSeq(calls))  BY <1>4, <1>5, <1>6, AllArePlanned
<1>8. f = FlattenSeq(calls)  BY DEF calls
<1> HIDE DEF f
<1> QED  BY <1>4, <1>5, <1>7, <1>8, PlannedIsSquashPlan DEF Sums

----------------------------------------------------------------------------
(* Squash: what it leaves.                                                  *)

\* A work whose last index fits the number of its rows has no gap at all.
LEMMA NoGap ==
  ASSUME NEW t, Squashable(t), NEW u \in Uuid, ~Gap(t, u), NEW B, B = SumsOf(t, u)
  PROVE  /\ \A b \in B : b.index_num = IndexNumOf(b)
         /\ {b.index_num : b \in B} = 0..Cardinality(B) - 1
<1> DEFINE number == IndexNumbers(B)
           n == Cardinality(B)
<1>1. /\ IsFiniteSet(B) /\ n \in Nat /\ n < Half
      /\ number \in [B -> Nat] /\ number \in [B -> Int] /\ B \subseteq SumType
      /\ \A x \in B : number[x] = IndexNumOf(x) /\ IndexNumOf(x) = AsSize(x.index_num)
      /\ \A x, y \in B : number[x] = number[y] => x = y
  BY IndexFacts
<1> HIDE DEF number
<1>2. /\ \A x \in B : Rank(number, x) \in 0..n - 1
      /\ \A x, y \in B : number[x] < number[y] => Rank(number, x) < Rank(number, y)
      /\ \A k \in 0..n - 1 : \E x \in B : Rank(number, x) = k
  BY <1>1, RankFacts
<1> HIDE DEF n
<1>3. \A b \in B : number[b] <= n - 1
  <2> SUFFICES ASSUME NEW b \in B PROVE number[b] <= n - 1  OBVIOUS
  <2>1. n - 1 \in 0..n - 1  BY <1>1, <1>2
  <2>2. PICK x \in B : Rank(number, x) = n - 1  BY <1>2, <2>1
  <2>3. \A q \in B : number[q] <= number[x]
    <3> SUFFICES ASSUME NEW q \in B, number[x] < number[q] PROVE FALSE  BY <1>1
    <3>1. n - 1 < Rank(number, q) /\ Rank(number, q) \in 0..n - 1  BY <1>2, <2>2
    <3> QED  BY <1>1, <3>1
  <2>4. IndexNumOf(x) + 1 = n
    <3>1. \A q \in B : IndexNumOf(q) <= IndexNumOf(x)  BY <1>1, <2>3
    <3> QED  BY <3>1 DEF Gap, n
  <2>5. number[x] = n - 1  BY <1>1, <2>4
  <2> QED  BY <2>3, <2>5
<1>4. \A b \in B : b.index_num = number[b] /\ b.index_num = IndexNumOf(b)
  <2> SUFFICES ASSUME NEW b \in B PROVE b.index_num = number[b] /\ b.index_num = IndexNumOf(b)
    OBVIOUS
  <2>1. AsSize(b.index_num) < Half  BY <1>1, <1>3, HalfFacts
  <2>2. b.index_num \in ColumnInt  BY <1>1 DEF SumType
  <2> QED  BY <1>1, <2>1, <2>2, AsSizeFacts
<1> DEFINE I == {b.index_num : b \in B}
<1>5. \A b \in B : number[b] \in I  BY <1>4
<1>6. \A k \in I : \E b \in B : number[b] = k  BY <1>4
<1>7. I \subseteq 0..n - 1  BY <1>1, <1>3, <1>4
<1> HIDE DEF I
<1>8. IsFiniteSet(I) /\ Cardinality(I) = n
  <2>1. number \in [B -> I]  BY <1>1, <1>5
  <2>2. IsFiniteSet(B) /\ \A x, y \in B : number[x] = number[y] => x = y  BY <1>1
  <2>3. Cardinality(I) = Cardinality(B) /\ IsFiniteSet(I)
    BY ONLY <1>6, <2>1, <2>2, SameSize
  <2> QED  BY <2>3 DEF n
<1>9. IsFiniteSet(0..n - 1) /\ Cardinality(0..n - 1) = n
  <2> DEFINE m == n - 1
  <2>1. 0 \in Int /\ m \in Int  BY <1>1
  <2> HIDE DEF m
  <2>2. IsFiniteSet(0..m) /\ Cardinality(0..m) = IF 0 > m THEN 0 ELSE m - 0 + 1
    BY <2>1, FS_Interval
  <2> QED  BY <1>1, <2>2 DEF m
<1>10. I = 0..n - 1
  <2> DEFINE J == 0..n - 1
  <2> HIDE DEF J
  <2> SUFFICES I = J  BY DEF J
  <2>1. I \subseteq J /\ IsFiniteSet(J) /\ Cardinality(I) = Cardinality(J)  BY <1>7, <1>8, <1>9 DEF J
  <2> QED  BY <2>1, FS_Subset
<1> QED  BY <1>4, <1>10 DEF I, n

\* When all rows of a work are where they go, they are in order without gaps.
LEMMA TargetsAreInOrder ==
  ASSUME NEW t, Squashable(t), NEW u \in Uuid, NEW B, B = SumsOf(t, u),
         NEW R, R = {Target(t, b) : b \in B}, Keys(R) = Keys(B), OneRowEach(R)
  PROVE  SameOrder(R, B, IndexNumOf)
<1> DEFINE number == IndexNumbers(B)
<1>1. /\ IsFiniteSet(B) /\ OneRowEach(B)
      /\ number \in [B -> Int] /\ \A x \in B : number[x] = IndexNumOf(x) /\ x.uuid = u
      /\ \A x, y \in B : number[x] = number[y] => x = y
  BY IndexFacts
<1>2. B \subseteq t["md5_sum"]  BY DEF SumsOf
<1>3. Cardinality(R) = Cardinality(B)
  <2>1. IsFiniteSet(Keys(B)) /\ Cardinality(Keys(B)) = Cardinality(B)
    <3> DEFINE K == Keys(B)
               f == [b \in B |-> KeyOf(b)]
    <3>1. /\ f \in [B -> K] /\ \A z \in K : \E b \in B : f[b] = z
          /\ \A b, d \in B : f[b] = f[d] => b = d
      BY <1>1 DEF KeyOf, Keys, OneRowEach
    <3> HIDE DEF f, K
    <3>2. IsFiniteSet(K) /\ Cardinality(K) = Cardinality(B)  BY <1>1, <3>1, SameSize
    <3> QED  BY <3>2 DEF K
  <2>2. Cardinality(Keys(R)) = Cardinality(R)  BY <2>1, RowsAreFew
  <2> QED  BY <2>1, <2>2
<1>4. \A b \in B : RankOf(t, b) = Rank(number, b)  BY <1>1 DEF RankOf
<1>5. ASSUME NEW r \in R, NEW b \in B, b.md5_sum = r.md5_sum PROVE r = Target(t, b)
  <2>1. PICK c \in B : r = Target(t, c)  OBVIOUS
  <2>2. c \in t["md5_sum"] /\ b \in t["md5_sum"] /\ c.uuid = b.uuid  BY <1>1, <1>2
  <2>3. Target(t, c).md5_sum = c.md5_sum  BY <2>2, MovedFacts
  <2>4. c = b  BY <1>5, <2>1, <2>2, <2>3, RowsDiffer
  <2> QED  BY <2>1, <2>4
<1>6. CASE Gap(t, u)
  <2>1. \A b \in B : Target(t, b).index_num = RankOf(t, b)
    <3> SUFFICES ASSUME NEW b \in B PROVE Target(t, b).index_num = RankOf(t, b)  OBVIOUS
    <3>1. b \in t["md5_sum"] /\ Target(t, b) = Moved(t, b)  BY <1>1, <1>2, <1>6 DEF Target
    <3> QED  BY <3>1, MovedFacts
  <2>2. {r.index_num : r \in R} = 0..Cardinality(R) - 1
    <3> HIDE DEF number
    <3>1. /\ \A x \in B : Rank(number, x) \in 0..Cardinality(B) - 1
          /\ \A k \in 0..Cardinality(B) - 1 : \E x \in B : Rank(number, x) = k
      BY <1>1, RankFacts
    <3>2. \A r \in R : \E b \in B : r.index_num = Rank(number, b)  BY <1>4, <2>1
    <3>3. \A b \in B : \E r \in R : r.index_num = Rank(number, b)  BY <1>4, <2>1
    <3>4. \A r \in R : r.index_num \in 0..Cardinality(R) - 1  BY <1>3, <3>1, <3>2
    <3>5. \A k \in 0..Cardinality(R) - 1 : \E r \in R : r.index_num = k  BY <1>3, <3>1, <3>3
    <3> QED  BY <3>4, <3>5
  <2>3. ASSUME NEW r \in R, NEW q \in R, NEW b \in B, NEW d \in B,
               b.md5_sum = r.md5_sum, d.md5_sum = q.md5_sum, IndexNumOf(b) < IndexNumOf(d)
        PROVE  r.index_num < q.index_num
    <3>1. r.index_num = RankOf(t, b) /\ q.index_num = RankOf(t, d)  BY <1>5, <2>1, <2>3
    <3>2. b \in t["md5_sum"] /\ d \in t["md5_sum"] /\ b.uuid = d.uuid  BY <1>1, <1>2
    <3>3. RankOf(t, b) < RankOf(t, d)  BY <2>3, <3>2, RankOfFacts
    <3> QED  BY <3>1, <3>3
  <2> QED  BY <2>2, <2>3 DEF SameOrder
<1>7. CASE ~Gap(t, u)
  <2>1. \A b \in B : Target(t, b) = b  BY <1>1, <1>7 DEF Target
  <2>2. R = B  BY <2>1
  <2>3. /\ \A b \in B : b.index_num = IndexNumOf(b)
        /\ {b.index_num : b \in B} = 0..Cardinality(B) - 1
    BY <1>7, NoGap
  <2>4. ASSUME NEW r \in R, NEW q \in R, NEW b \in B, NEW d \in B,
               b.md5_sum = r.md5_sum, d.md5_sum = q.md5_sum, IndexNumOf(b) < IndexNumOf(d)
        PROVE  r.index_num < q.index_num
    <3>1. r = b /\ q = d  BY <1>5, <2>1, <2>4
    <3> QED  BY <2>3, <2>4, <3>1
  <2> QED  BY <2>2, <2>3, <2>4 DEF SameOrder
<1> QED  BY <1>6, <1>7

LEMMA SquashEnds ==
  ASSUME TypeInv, CountInv, SquashInv, command.name = "squash", AllDistinct(before), NEW u \in Uuid
  PROVE  LET B == SumsOf(before, u)  R == SumsOf(tables, u)
         IN  /\ Keys(R) \subseteq Keys(B) /\ Cardinality(Keys(B) \ Keys(R)) <= 1
             /\ todo = << >> => SameOrder(R, B, IndexNumOf)
<1> DEFINE B == SumsOf(before, u)
           R == SumsOf(tables, u)
           M == before["md5_sum"]
           Here(r) == IF Pending(todo, r) THEN r ELSE Target(before, r)
           Gone(r) == Absent(before, todo, r)
<1>1. Squashable(before)  BY BeforeIsSquashable
<1>2. Sums = SquashRows(before, todo)  BY DEF SquashInv
<1>3. \A r \in M : KeyOf(Here(r)) = KeyOf(r) /\ Here(r).uuid = r.uuid  BY <1>1, MovedFacts
<1>4. B = {r \in M : r.uuid = u} /\ R = {x \in Sums : x.uuid = u}  BY DEF SumsOf, Sums
<1>5. Sums = {Here(r) : r \in {q \in M : ~Gone(q)}}  BY <1>2 DEF SquashRows
<1>6. \A r \in M, q \in M : Gone(r) /\ Gone(q) => r = q  BY <1>1, CreatesDiffer DEF Absent
<1>7. Keys(B) = {KeyOf(b) : b \in B} /\ Keys(R) = {KeyOf(r) : r \in R}  BY DEF Keys, KeyOf
<1>8. OneRowEach(R)  BY <1>4 DEF TypeInv, TablesOK, Sums, OneRowEach
<1> HIDE DEF B, R, M, Here, Gone
<1>9. /\ \A x \in R : \E b \in B : ~Gone(b) /\ x = Here(b)
      /\ \A b \in B : ~Gone(b) => Here(b) \in R
  BY <1>3, <1>4, <1>5
<1>10. \A b \in B : b \in M /\ KeyOf(Here(b)) = KeyOf(b)  BY <1>3, <1>4
<1>11. Keys(R) \subseteq Keys(B)  BY <1>7, <1>9, <1>10
<1>12. \A key \in Keys(B) \ Keys(R) : \E b \in B : Gone(b) /\ key = KeyOf(b)  BY <1>7, <1>9, <1>10
<1>13. Cardinality(Keys(B) \ Keys(R)) <= 1
  <2> DEFINE K == Keys(B) \ Keys(R)
  <2>1. CASE \E b \in B : Gone(b)
    <3>1. PICK b \in B : Gone(b)  BY <2>1
    <3>2. K \subseteq {KeyOf(b)}  BY <1>6, <1>10, <1>12, <3>1
    <3> HIDE DEF K
    <3> DEFINE key == KeyOf(b)
    <3> HIDE DEF key
    <3>3. IsFiniteSet({key}) /\ Cardinality({key}) = 1 /\ K \subseteq {key}
      BY <3>2, FS_Singleton DEF key
    <3>4. IsFiniteSet(K) /\ Cardinality(K) <= 1  BY <3>3, FS_Subset
    <3> QED  BY <3>4 DEF K
  <2>2. CASE ~ \E b \in B : Gone(b)
    <3>1. K = {}  BY <1>12, <2>2
    <3>2. Cardinality(K) = 0  BY <3>1, FS_EmptySet
    <3> HIDE DEF K
    <3>3. Cardinality(K) <= 1  BY <3>2
    <3> QED  BY <3>3 DEF K
  <2> QED  BY <2>1, <2>2
<1>14. ASSUME todo = << >> PROVE SameOrder(R, B, IndexNumOf)
  <2>1. \A r : ~Gone(r) /\ Here(r) = Target(before, r)
    BY <1>14 DEF Gone, Here, Absent, Pending
  <2>2. R = {Target(before, b) : b \in B}  BY <1>9, <2>1
  <2>3. Keys(R) = Keys(B)  BY <1>11, <1>12, <2>1
  <2> QED  BY <1>1, <1>8, <2>2, <2>3, TargetsAreInOrder DEF B
<1> QED  BY <1>11, <1>13, <1>14 DEF B, R

\* No other command's step is mistaken for one of squash.
LEMMA SquashGoesOn ==
  ASSUME TypeInv, CountInv, SquashInv, [Next]_vars
  PROVE  SquashInv'
<1>1. CASE ProcessInput
  <2>1. CASE command'.name = "squash"  BY <1>1, <2>1, Starts, SquashStarts
  <2>2. CASE command'.name # "squash"  BY <2>2 DEF SquashInv
  <2> QED  BY <2>1, <2>2
<1>2. CASE ReorderWork
  <2>1. command' = command /\ before' = before /\ todo # << >> /\ Head(todo).op = "ReorderWork"
    BY <1>2 DEF ReorderWork
  <2> SUFFICES ASSUME command.name = "squash", AllDistinct(before) PROVE FALSE
    BY <2>1 DEF SquashInv
  <2>2. todo \in Seq(CallType) /\ SquashPlan(before, todo)  BY DEF TypeInv, SquashInv
  <2>3. 1 \in DOMAIN todo /\ Head(todo) = todo[1]  BY <2>1, <2>2, TailFacts
  <2>4. \E r \in before["md5_sum"] : todo[1] = DeleteOf(r) \/ todo[1] = CreateOf(before, r)
    BY <2>2, <2>3 DEF SquashPlan, Paired
  <2> QED  BY <2>1, <2>3, <2>4, SquashCallsDiffer
<1>3. CASE DoCall  BY <1>3, SquashWrites
<1>4. CASE EndCommand \/ Die
  <2>1. command'.name = "none"  BY <1>4 DEF EndCommand, Die, NoCommand
  <2> QED  BY <2>1 DEF SquashInv
<1>5. CASE UNCHANGED vars  BY <1>5 DEF vars, SquashInv, Sums
<1> QED  BY <1>1, <1>2, <1>3, <1>4, <1>5 DEF Next

LEMMA ReorderGoesOn ==
  ASSUME TypeInv, CountInv, ReorderInv, [Next]_vars
  PROVE  ReorderInv'
<1>1. CASE ProcessInput
  <2>1. CASE command'.name = "reorder"
    <3>1. PICK source, exact : ReorderMd5(source, exact)  BY <1>1, <2>1, Starts
    <3> QED  BY <3>1, ReorderStarts
  <2>2. CASE command'.name # "reorder"  BY <2>2 DEF ReorderInv
  <2> QED  BY <2>1, <2>2
<1>2. CASE ReorderWork  BY <1>2, ReorderReads
<1>3. CASE DoCall  BY <1>3, ReorderWrites
<1>4. CASE EndCommand \/ Die
  <2>1. command'.name = "none"  BY <1>4 DEF EndCommand, Die, NoCommand
  <2> QED  BY <2>1 DEF ReorderInv
<1>5. CASE UNCHANGED vars  BY <1>5 DEF vars, ReorderInv, Sums
<1> QED  BY <1>1, <1>2, <1>3, <1>4, <1>5 DEF Next

LEMMA ImportStep ==
  ASSUME TypeInv, ImportInv, [Next]_vars
  PROVE  ImportInv'
<1>1. CASE ProcessInput
  <2>1. CASE command'.name = "import"  BY <1>1, <2>1, Starts, ImportStarts
  <2>2. CASE command'.name # "import"  BY <2>2 DEF ImportInv
  <2> QED  BY <2>1, <2>2
<1>2. CASE ReorderWork
  <2>1. command' = command /\ todo # << >> /\ Head(todo).op = "ReorderWork"
    BY <1>2 DEF ReorderWork
  <2> SUFFICES ASSUME command.name = "import" PROVE FALSE
    BY <2>1 DEF ImportInv
  <2>2. PICK k \in 0..Len(exported.entries) : Imported(exported.entries, k)  BY DEF ImportInv
  <2>3. todo \in Seq(CallType)  BY DEF TypeInv
  <2>4. 1 \in DOMAIN todo /\ Head(todo) = todo[1]  BY <2>1, <2>3, TailFacts
  <2> DEFINE s == exported.entries
  <2>5. s \in Seq(EntryType) /\ Len(s) \in Nat /\ DOMAIN s = 1..Len(s)
    BY SequenceFacts DEF ImportInv, TypeInv, FilesOK
  <2> HIDE DEF s
  <2>6. todo = [i \in 1..Len(s) - k |-> ImportLine(s[k + i])] /\ k \in 0..Len(s)
    BY <2>2 DEF Imported, s
  <2>7. todo[1] = ImportLine(s[k + 1]) /\ k + 1 \in DOMAIN s  BY <2>4, <2>5, <2>6
  <2>8. s[k + 1] \in EntryType  BY <2>5, <2>7, SequenceFacts
  <2>9. PICK op \in {"ImportEntry", "SkipLine", "Throw"} :
          todo[1] = Call(op, Processed(s[k + 1]), "go on")
    BY <2>7, <2>8, LineFacts
  <2> DEFINE go == "go on"
             e == Processed(s[k + 1])
  <2>11. todo[1] = Call(op, e, go)  BY <2>9
  <2> HIDE DEF go, e
  <2>10. todo[1].op = op  BY ONLY <2>11 DEF Call
  <2> QED  BY <2>1, <2>4, <2>10
<1>3. CASE DoCall  BY <1>3, ImportGoesOn
<1>4. CASE EndCommand \/ Die
  <2>1. command'.name = "none"  BY <1>4 DEF EndCommand, Die, NoCommand
  <2> QED  BY <2>1 DEF ImportInv
<1>5. CASE UNCHANGED vars  BY <1>5 DEF vars, ImportInv, Imported, Entries, Restored
<1> QED  BY <1>1, <1>2, <1>3, <1>4, <1>5 DEF Next

\* The lines that have been read are those that are not to come.
LEMMA ImportEnds ==
  ASSUME TypeInv, ImportInv
  PROVE  ImportRestores
<1> DEFINE s == exported.entries
<1> SUFFICES ASSUME command.name = "import"
             PROVE  /\ ~failed /\ Len(todo) <= Len(s)
                    /\ \A i \in 1..Len(s) - Len(todo) : Text[s[i].uuid] # "comma"
                    /\ Entries = Restored(PlainRows(s, Len(s) - Len(todo)),
                                          before["work_entry"])
  BY DEF ImportRestores
<1>1. ~failed /\ s # NoFile /\ \E k \in 0..Len(s) : Imported(s, k)  BY DEF ImportInv
<1>2. s \in Seq(EntryType)  BY <1>1 DEF TypeInv, FilesOK
<1> HIDE DEF s
<1>3. PICK k \in 0..Len(s) : Imported(s, k)  BY <1>1
<1>4. Len(s) \in Nat  BY <1>2, SequenceFacts
<1>5. Len(todo) <= Len(s) /\ Len(s) - Len(todo) = k
  <2> DEFINE n == Len(s) - k
  <2>1. DOMAIN todo = 1..n  BY <1>3 DEF Imported
  <2>2. todo \in Seq(CallType)  BY DEF TypeInv
  <2>3. n \in Nat  BY <1>4
  <2> HIDE DEF n
  <2>4. Len(todo) = n  BY <2>1, <2>2, <2>3, SequenceFacts
  <2>5. Len(todo) = Len(s) - k  BY <2>4 DEF n
  <2>6. k \in Nat /\ Len(s) \in Nat /\ k <= Len(s)  BY ONLY <1>4, k \in 0..Len(s)
  <2> QED  BY ONLY <2>5, <2>6
<1> QED  BY <1>1, <1>3, <1>5 DEF Imported

----------------------------------------------------------------------------
(* The theorems.                                                            *)

\* The inductive invariant: the tables are sound and have few rows, and what a
\* running squash, reorder or import has still to do makes up for what its
\* tables are short of, in every state and however its last command ended.
THEOREM MaintenanceInvariant == Spec => []IInv
<1>1. Init => IInv
  <2> SUFFICES ASSUME Init PROVE IInv  OBVIOUS
  <2>1. command.name = "none"  BY DEF Init, NoCommand
  <2>2. SquashInv /\ ReorderInv /\ ImportInv  BY <2>1 DEF SquashInv, ReorderInv, ImportInv
  <2> QED  BY <2>2, InitTyped DEF IInv
<1>2. IInv /\ [Next]_vars => IInv'
  <2> SUFFICES ASSUME IInv, [Next]_vars PROVE IInv'  OBVIOUS
  <2>1. TypeInv' /\ CountInv'  BY NextTyped DEF IInv
  <2>2. SquashInv'  BY SquashGoesOn DEF IInv
  <2>3. ReorderInv'  BY ReorderGoesOn DEF IInv
  <2>4. ImportInv'  BY ImportStep DEF IInv
  <2> QED  BY <2>1, <2>2, <2>3, <2>4 DEF IInv
<1> QED  BY <1>1, <1>2, PTL DEF Spec

\* Whatever commands ran and died, the tables are the two the library made, their
\* rows belong to works and hold indexes an int column shows as they are, also
\* after an import that read a digest for an index.
THEOREM MaintenanceTypeCorrect == Spec => []TypeOK
<1>1. IInv => TypeOK
  <2> SUFFICES ASSUME IInv PROVE TypeOK  OBVIOUS
  <2>1. TablesOK(tables) /\ (command = NoCommand => todo = << >>)  BY DEF IInv, TypeInv
  <2>2. DOMAIN tables = {"work_entry", "md5_sum"}  BY <2>1 DEF TablesOK
  <2>3. \A r \in Sums : r.uuid \in Uuid /\ r.index_num = DB!SQLite!AsInt(r.index_num)
    <3> SUFFICES ASSUME NEW r \in Sums
                 PROVE  r.uuid \in Uuid /\ r.index_num = DB!SQLite!AsInt(r.index_num)
      OBVIOUS
    <3>1. r.uuid \in Uuid /\ r.index_num \in ColumnInt  BY <2>1 DEF TablesOK, Sums, SumType
    <3> QED  BY <3>1, AsIntFacts
  <2>4. \A e \in Entries : e.uuid \in Uuid /\ e.series_length \in Nat
    BY <2>1 DEF TablesOK, Entries, EntryType
  <2> QED  BY <2>1, <2>2, <2>3, <2>4 DEF TypeOK
<1> QED  BY <1>1, MaintenanceInvariant, PTL

\* Squash on works whose rows have distinct indexes: no call is refused, no row
\* of another key appears, at any moment at most one row of a work is missing,
\* so a death loses at most that one, and at the end every row is there and the
\* indexes are 0, 1, ... in the old order.
THEOREM SquashKeepsRows == Spec => []SquashLosesNoRow
<1>1. IInv => SquashLosesNoRow
  <2> SUFFICES ASSUME IInv, NEW u \in Uuid, command.name = "squash",
                      \A v \in Uuid : Distinct(SumsOf(before, v), IndexNumOf)
               PROVE  LET B == SumsOf(before, u)  R == SumsOf(tables, u)
                      IN  /\ ~failed
                          /\ Keys(R) \subseteq Keys(B) /\ Cardinality(Keys(B) \ Keys(R)) <= 1
                          /\ todo = << >> => SameOrder(R, B, IndexNumOf)
    BY DEF SquashLosesNoRow
  <2>1. AllDistinct(before)  BY DEF AllDistinct
  <2>2. ~failed  BY <2>1 DEF IInv, SquashInv
  <2> QED  BY <2>1, <2>2, SquashEnds DEF IInv
<1> QED  BY <1>1, MaintenanceInvariant, PTL

\* Reorder never loses a row, and when it has run without a failure the rows of
\* each of its works that has distinct numbers have the indexes 0, 1, ... in the
\* order of the numbers.
THEOREM ReorderIsSorted == Spec => []ReorderSorts
<1>1. IInv => ReorderSorts  BY ReorderEnds DEF IInv, ReorderSorts
<1> QED  BY <1>1, MaintenanceInvariant, PTL

\* An import of the entries is refused no call; wherever it stands it has restored
\* the plain rows of the lines it has read, with processing off, and changed no
\* other entry, and it never gets past a row with a comma.
THEOREM ImportIsComplete == Spec => []ImportRestores
<1>1. IInv => ImportRestores  BY ImportEnds DEF IInv
<1> QED  BY <1>1, MaintenanceInvariant, PTL

=============================================================================
