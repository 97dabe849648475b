----------------------------- MODULE Maintenance -----------------------------
(***************************************************************************)
(* The command line: it reads rows once, then changes the catalog by a     *)
(* sequence of calls of the database, and may die between two of them.     *)
(* todo holds the calls the running command still makes.  Each call is one *)
(* step; what it does to the tables is LibraryDB's.                        *)
(***************************************************************************)
EXTENDS Integers, FiniteSets, Sequences, SequencesExt

CONSTANTS
    Uuid, Source, Url,     \* Source[u] and Url[u] of a work
    Catalogs,              \* sets of <<work, digest, index, number>>, the rows there may be at first
    OldStyle, SeqOfUrl,    \* digests of the rows whose sec_id is still a url, the url's number
    LeadingNumber,         \* what stoul makes of the digests that start with a digit
    Text,                  \* what a work's texts, its title say, hold that matters to a file
    Exported,              \* sets of works, those an earlier export may have written
    NoFile, LastUrl, Sizes,
    SizeSpan,              \* how many values a size_t has: 2^64
    IntSpan, Version, NoUuid,
    MaxCommands            \* bound

ASSUME MaintenanceAssumption ==
    /\ IsFiniteSet(Uuid) /\ NoUuid \notin Uuid
    /\ IntSpan \in Nat \ {0} /\ IntSpan % 2 = 0 /\ SizeSpan \in Nat /\ IntSpan <= SizeSpan
    /\ \A C \in Catalogs :
         /\ IsFiniteSet(C) /\ 2 * Cardinality(C) < IntSpan \div 2  \* an int holds any place
         /\ \A k \in C : k[1] \in Uuid /\ {k[3], k[4]} \subseteq 0..IntSpan \div 2 - 1
         /\ \A k, l \in C : k[1] = l[1] /\ k[2] = l[2] => k = l
    /\ \A d \in DOMAIN LeadingNumber : LeadingNumber[d] \in Nat
    /\ \A d \in OldStyle : SeqOfUrl[d] \in Int
    /\ Text \in [Uuid -> {"plain", "newline", "comma"}]
    /\ Exported \subseteq SUBSET Uuid /\ Sizes \subseteq Nat

VARIABLES
    tables,                \* work_entry and md5_sum
    exported,              \* the files an export writes, rows in some order
    command, todo,         \* the running command with the works it is for, its remaining calls
    failed, before,        \* history: did a call fail, the tables it began with
    commands               \* counter for the bound

vars == <<tables, exported, command, todo, failed, before, commands>>

DB == INSTANCE LibraryDB

MaxSeqNum == -1            \* how the column shows INT64_MAX
\* What index_num, a size_t, becomes when it is read from its column.
AsSize(n) == IF n < 0 THEN n + SizeSpan ELSE n
IndexNumOf(r) == AsSize(r.index_num)
SeqNumOf(r) == r.seq_num
Entries == tables["work_entry"]
Sums == tables["md5_sum"]
SumsOf(t, u) == {r \in t["md5_sum"] : r.uuid = u}
Orders(S) == SetToSeqs(S)
Listed(S) == SetToSeq(S)  \* the order a table comes in, fixed for a file
NoCommand == [name |-> "none", works |-> {}]

Entry(u) == [uuid |-> u, url |-> Url[u], last_url |-> LastUrl, series_length |-> 1,
             source |-> Source[u], update_date |-> 1, processing |-> TRUE]
SumRow(u, md5, i, n) ==
    [uuid |-> u, md5_sum |-> md5, index_num |-> i,
     seq_num |-> IF md5 \in OldStyle THEN MaxSeqNum ELSE n,
     sec_id |-> IF md5 \in OldStyle THEN md5 ELSE "id"]

\* Rows as parses leave them: an index is missing when a row was refused,
\* two rows share one when a chapter left the site, and a source without
\* numbers stores the largest one.  There may be files of an earlier export,
\* before which a work may not have been there.
Init ==
    /\ \E C \in Catalogs :
         tables = [work_entry |-> {Entry(u) : u \in Uuid},
                   md5_sum |-> {SumRow(k[1], k[2], k[3], k[4]) : k \in C}]
    /\ exported \in {[entries |-> NoFile, checksums |-> NoFile]}
         \cup {[entries |-> Listed({e \in tables["work_entry"] : e.uuid \in E}),
                checksums |-> Listed(tables["md5_sum"])] : E \in Exported}
    /\ command = NoCommand /\ todo = <<>>
    /\ failed = FALSE /\ before = tables /\ commands = 0

(***************************************************************************)
(* ProcessInput: a command reads what it needs and plans its calls.        *)
(* onfail says what the code does when the call answers -1: go on, break   *)
(* out of the loop over one work, or return.                               *)
(***************************************************************************)
Call(op, row, onfail) == [op |-> op, row |-> row, onfail |-> onfail]

Begin(name, works, calls) ==
    /\ command = NoCommand /\ commands < MaxCommands
    /\ command' = [name |-> name, works |-> works] /\ todo' = calls
    /\ failed' = FALSE /\ before' = tables /\ commands' = commands + 1

Plan(name, works, calls) == Begin(name, works, calls) /\ UNCHANGED <<tables, exported>>

Resized(e, n) == [e EXCEPT !.series_length = n, !.last_url = e.url]

ChangeSize(u, n) ==
    LET row == DB!ReadWorkEntry(tables, u).rows
    IN  /\ DB!DoesWorkEntryUUIDExist(tables, u).rows # {}
        /\ \E e \in row : Plan("size", {u}, <<Call("UpdateWorkEntry", Resized(e, n), "return")>>)

ChangeSizeAll(n, after, source) ==
    LET hit == {e \in DB!GetWorkEntryList(tables).rows :
                  e.update_date > after /\ e.source = source}
    IN  \E s \in Orders(hit) :
          Plan("sizeall", {e.uuid : e \in hit},
               [i \in DOMAIN s |-> Call("UpdateWorkEntry", Resized(s[i], n), "go on")])

DeleteEntry(u) ==
    /\ DB!DoesWorkEntryUUIDExist(tables, u).rows # {}
    /\ Plan("delete", {u}, <<Call("DeleteWorkEntry", [uuid |-> u], "return")>>)

\* A file that exists is left alone.  "export error" writes one with no lines.
ExportEntries ==
    /\ exported.entries = NoFile
    /\ \E rows \in {DB!GetWorkEntryList(tables).rows, {}} :
         exported' = [exported EXCEPT !.entries = Listed(rows)]
    /\ Begin("export", {}, <<>>) /\ UNCHANGED tables

ExportChecksums ==
    /\ exported.checksums = NoFile
    /\ exported' = [exported EXCEPT !.checksums = Listed(DB!GetChecksumList(tables).rows)]
    /\ Begin("export", {}, <<>>) /\ UNCHANGED tables

\* The file holds the texts as they are, commas between them and a newline
\* after each row.  A row with a newline in a text comes back as two lines,
\* both too short, which are skipped; a comma in a text moves the texts after
\* it, so that stoul or stol meets one that is no number, and nobody catches
\* what it throws.
Processed(e) == [e EXCEPT !.processing = FALSE]
LineRead == [plain |-> "ImportEntry", newline |-> "SkipLine", comma |-> "Throw"]
ImportLine(e) == Call(LineRead[Text[e.uuid]], Processed(e), "go on")

ImportEntries ==
    /\ exported.entries # NoFile
    /\ LET s == exported.entries
       IN  Plan("import", Uuid, [i \in DOMAIN s |-> ImportLine(s[i])])

\* ExportChecksums writes the index before the digest, ImportChecksums reads
\* the digest first: the two columns are exchanged.  A digest that starts
\* with no digit ends the import.
Misread(r) == [r EXCEPT !.md5_sum = ToString(AsSize(r.index_num)),
                        !.index_num = LeadingNumber[r.md5_sum]]

ImportChecksums ==
    /\ exported.checksums # NoFile
    /\ LET s == exported.checksums
           Throws(r) == r.md5_sum \notin DOMAIN LeadingNumber
           stop == {i \in DOMAIN s : Throws(s[i])}
           good == IF stop = {} THEN Len(s)
                   ELSE (CHOOSE i \in stop : \A j \in stop : i <= j) - 1
       IN  Plan("import checksums", Uuid,
                [i \in 1..good |-> Call("ImportChecksum", Misread(s[i]), "return")])

\* A row's place among the rows of its work in the sequence s.
Place(s, k) == Cardinality({j \in 1..k - 1 : s[j].uuid = s[k].uuid})
SortedBy(s, Number(_)) ==
    \A j, k \in DOMAIN s : j < k /\ s[j].uuid = s[k].uuid => Number(s[j]) <= Number(s[k])
Grouped(s) ==
    \A i, j, k \in DOMAIN s : i < j /\ j < k /\ s[i].uuid = s[k].uuid => s[j].uuid = s[i].uuid

\* A work whose largest index does not fit the number of its rows.
Gap(t, u) ==
    \E r \in SumsOf(t, u) : /\ IndexNumOf(r) + 1 # Cardinality(SumsOf(t, u))
                            /\ \A q \in SumsOf(t, u) : IndexNumOf(q) <= IndexNumOf(r)

\* Mutant: the row is created at its place before the old one is deleted.
SquashCallsCreateFirst(t, s, k) ==
    IF Gap(t, s[k].uuid) /\ s[k].index_num # Place(s, k)
    THEN << Call("CreateMd5Sum", [s[k] EXCEPT !.index_num = Place(s, k)], "return"),
            Call("DeleteMd5Sum", s[k], "return") >>
    ELSE << >>

SquashCalls(t, s, k) ==
    IF Gap(t, s[k].uuid) /\ s[k].index_num # Place(s, k)
    THEN << Call("DeleteMd5Sum", s[k], "return"),
            Call("CreateMd5Sum", [s[k] EXCEPT !.index_num = Place(s, k)], "return") >>
    ELSE << >>

\* One work after the other; std::sort leaves rows of one index in any order.
SquashMd5Indexes ==
    \E s \in Orders(DB!GetChecksumList(tables).rows) :
      /\ Grouped(s) /\ SortedBy(s, IndexNumOf)
      /\ Plan("squash", Uuid, FlattenSeq([k \in DOMAIN s |-> SquashCalls(tables, s, k)]))

\* All works of a source, or the one of them that is named.
ReorderMd5(source, exact) ==
    LET target_entries == {e \in DB!GetWorkEntryList(tables).rows :
                             e.source = source /\ exact \in {NoUuid, e.uuid}}
    IN  \E s \in Orders(target_entries) :
      Plan("reorder", {e.uuid : e \in target_entries}, [i \in DOMAIN s |-> Call("ReorderWork", s[i], "go on")])

UpdateMd5Identifier ==
    \E s \in Orders({r \in DB!GetChecksumList(tables).rows : r.sec_id \in OldStyle}) :
      Plan("updateidentifier", Uuid, [i \in DOMAIN s |->
        Call("UpdateMd5SumByIndexNum",
             [s[i] EXCEPT !.sec_id = "id", !.seq_num = SeqOfUrl[s[i].sec_id]], "go on")])

(***************************************************************************)
(* The calls.                                                              *)
(***************************************************************************)
\* Mutant: an entry that is gone is not created.
ImportEntryUpdates(e) == DB!UpdateWorkEntry(tables, e)
\* The check and the call that follows it are one step: a death between them
\* changes nothing, and this module has no other user of the catalog.  That the
\* application, when it runs too, may change the row between them is left out.
ImportEntry(e) ==
    IF DB!DoesWorkEntryUUIDExist(tables, e.uuid).rows # {}
    THEN DB!UpdateWorkEntry(tables, e) ELSE DB!CreateWorkEntry(tables, e)

ImportChecksum(r) ==
    IF DB!DoesMd5SumExistByIndexNum(tables, r.uuid, r.index_num).rows # {}
    THEN DB!UpdateMd5SumBySeqNum(tables, r) ELSE DB!CreateMd5Sum(tables, r)

Outcome(c) ==
    CASE c.op = "UpdateWorkEntry" -> DB!UpdateWorkEntry(tables, c.row)
      [] c.op = "DeleteWorkEntry" -> DB!DeleteWorkEntry(tables, c.row.uuid)
      [] c.op = "ImportEntry" -> ImportEntry(c.row)
      [] c.op = "SkipLine" -> DB!SQLite!Done(tables, {})
      [] c.op = "ImportChecksum" -> ImportChecksum(c.row)
      [] c.op = "DeleteMd5Sum" -> DB!DeleteMd5Sum(tables, c.row.uuid, c.row.index_num)
      [] c.op = "CreateMd5Sum" -> DB!CreateMd5Sum(tables, c.row)
      [] c.op = "UpdateMd5SumByIndexNum" -> DB!UpdateMd5SumByIndexNum(tables, c.row)
      [] c.op = "UpdateMd5SumBySeqNum" -> DB!UpdateMd5SumBySeqNum(tables, c.row)

After(c) ==
    LET others == {i \in DOMAIN todo : todo[i].row.uuid # c.row.uuid}
    IN  CASE c.onfail = "go on" -> Tail(todo)
          [] c.onfail = "break" ->
               IF others = {} THEN << >>
               ELSE SubSeq(todo, CHOOSE i \in others : \A j \in others : i <= j, Len(todo))
          [] c.onfail = "return" -> << >>

\* Mutant: the row to change is looked up by the index it shall have.
ReorderCallsByIndex(s, k) ==
    IF s[k].index_num = Place(s, k) THEN << >>
    ELSE << Call("UpdateMd5SumByIndexNum", [s[k] EXCEPT !.index_num = Place(s, k)], "break") >>

ReorderCalls(s, k) ==
    IF s[k].index_num = Place(s, k) THEN << >>
    ELSE << Call("UpdateMd5SumBySeqNum", [s[k] EXCEPT !.index_num = Place(s, k)], "break") >>

\* A work's rows are read when its turn comes, and given their places in the
\* order of seq_num.  The test for MaxSeqNum compares with INT64_MAX, which no
\* column shows: those rows take part, as the smallest.
ReorderWork ==
    /\ todo # << >> /\ Head(todo).op = "ReorderWork"
    /\ \E s \in Orders(DB!GetMd5SumsFromUUID(tables, Head(todo).row.uuid).rows) :
         /\ SortedBy(s, SeqNumOf)
         /\ todo' = FlattenSeq([k \in DOMAIN s |-> ReorderCalls(s, k)]) \o Tail(todo)
    /\ UNCHANGED <<tables, exported, command, failed, before, commands>>

\* What throws is followed by Die alone.
DoCall ==
    LET c == Head(todo)  r == Outcome(c)
    IN  /\ todo # <<>> /\ c.op \notin {"ReorderWork", "Throw"}
        /\ tables' = r.tables
        /\ todo' = IF r.ret = 0 THEN Tail(todo) ELSE After(c)
        /\ failed' = (failed \/ r.ret # 0)
        /\ UNCHANGED <<exported, command, before, commands>>

EndCommand ==
    /\ command # NoCommand /\ todo = <<>>
    /\ command' = NoCommand
    /\ failed' = FALSE /\ before' = tables
    /\ UNCHANGED <<tables, exported, todo, commands>>

\* The process dies and is started again.
Die ==
    /\ todo # <<>>
    /\ command' = NoCommand /\ todo' = <<>>
    /\ failed' = FALSE /\ before' = tables
    /\ UNCHANGED <<tables, exported, commands>>

ProcessInput ==
    \/ \E u \in Uuid : DeleteEntry(u) \/ \E n \in Sizes : ChangeSize(u, n)
    \/ \E n \in Sizes, after \in {0, 1}, u \in Uuid : ChangeSizeAll(n, after, Source[u])
    \/ ExportEntries \/ ExportChecksums \/ ImportEntries \/ ImportChecksums
    \/ SquashMd5Indexes \/ UpdateMd5Identifier
    \/ \E u \in Uuid, exact \in Uuid \cup {NoUuid} : ReorderMd5(Source[u], exact)

Next == ProcessInput \/ ReorderWork \/ DoCall \/ EndCommand \/ Die
Spec == Init /\ [][Next]_vars

(***************************************************************************)
(* Properties.                                                             *)
(***************************************************************************)
Complete(name) == command.name = name /\ todo = <<>> /\ ~failed
Keys(R) == {<<r.uuid, r.md5_sum>> : r \in R}
Distinct(R, Number(_)) == \A r, q \in R : Number(r) = Number(q) => r = q

\* Rows keep their places: rows of R come in the order of those of B with the
\* same digests, and their indexes are 0, 1, ...
SameOrder(R, B, Number(_)) ==
    /\ Keys(R) = Keys(B)
    /\ {r.index_num : r \in R} = 0..Cardinality(R) - 1
    /\ \A r, q \in R : \A b, d \in B :
         b.md5_sum = r.md5_sum /\ d.md5_sum = q.md5_sum /\ Number(b) < Number(d)
         => r.index_num < q.index_num

TypeOK ==
    /\ DOMAIN tables = {"work_entry", "md5_sum"}
    /\ \A r \in Sums : r.uuid \in Uuid /\ r.index_num = DB!SQLite!AsInt(r.index_num)
    /\ \A e \in Entries : e.uuid \in Uuid /\ e.series_length \in Nat
    /\ command = NoCommand => todo = <<>>

\* Squash on works whose rows have distinct indexes: no call is refused, at
\* most one row is missing at any moment, so at most one is lost by a death,
\* and in the end every row is there, in the same order without gaps.
SquashLosesNoRow ==
    \A u \in Uuid :
      LET B == SumsOf(before, u)  R == SumsOf(tables, u)
      IN  command.name = "squash" /\ (\A v \in Uuid : Distinct(SumsOf(before, v), IndexNumOf)) =>
            /\ ~failed
            /\ Keys(R) \subseteq Keys(B) /\ Cardinality(Keys(B) \ Keys(R)) <= 1
            /\ todo = <<>> => SameOrder(R, B, IndexNumOf)

\* Reorder gives the rows of a work with distinct numbers their places in the
\* order of the numbers; no row is ever lost, whatever the numbers are.
ReorderSorts ==
    \A u \in Uuid :
      LET B == SumsOf(before, u)  R == SumsOf(tables, u)
      IN  /\ command.name = "reorder" => Keys(R) = Keys(B)
          /\ Complete("reorder") /\ u \in command.works /\ Distinct(B, SeqNumOf)
             => SameOrder(R, B, SeqNumOf)

\* The entries B once the rows R of a file are restored.
Restored(R, B) ==
    {Processed(e) : e \in R} \cup {e \in B : \A f \in R : f.uuid # e.uuid}
PlainRows(s, k) == {s[i] : i \in {j \in 1..k : Text[s[j].uuid] = "plain"}}

\* An import works through the file, and no call of it is refused: of the
\* lines read so far it has restored every plain row, also one deleted or
\* resized since, with processing off, passed over those with a newline, and
\* touched no other work.  It never gets past a row with a comma.
ImportRestores ==
    LET s == exported.entries
        read == Len(s) - Len(todo)
    IN  command.name = "import" =>
          /\ ~failed /\ Len(todo) <= Len(s)
          /\ \A i \in 1..read : Text[s[i].uuid] # "comma"
          /\ Entries = Restored(PlainRows(s, read), before["work_entry"])
=============================================================================
