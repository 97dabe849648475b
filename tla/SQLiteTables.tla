--------------------------- MODULE SQLiteTables ---------------------------
(***************************************************************************)
(* The tables of the catalog and what one statement of SQLiteDB.cc does to *)
(* them.  Tables are a function from the names of the tables that exist to *)
(* sets of rows; a row is a record of its columns.  A statement returns    *)
(* ret (0 or -1), the tables after it and the rows it selected: where the  *)
(* code takes the first row of several, the model's caller takes any one.  *)
(* SQLite checks primary keys; foreign keys are declared and not enforced, *)
(* as no PRAGMA turns them on.                                             *)
(***************************************************************************)
EXTENDS Integers, FiniteSets, Sequences

CONSTANTS
    IntSpan,     \* how many values an int has: 2^32 in the program
    Version,     \* db_version of the configuration
    NoUuid       \* the empty string

ASSUME IntSpanAssumption == IntSpan \in Nat \ {0} /\ IntSpan % 2 = 0

\* BindInt takes an int and sqlite3_column_int returns one: a wider number
\* keeps its low bits.
AsInt(n) == ((n + IntSpan \div 2) % IntSpan) - IntSpan \div 2

\* The columns of each table's primary key.  book_genre and document_tag are
\* created with the others and never used.
PrimaryKey ==
    [db_version |-> {"db_version"}, user |-> {"UID"}, media_type |-> {"name"},
     media_subtype |-> {"name"}, book_genre |-> {"name"}, document_tag |-> {"name"},
     source |-> {"name"}, work_entry |-> {"uuid"}, md5_sum |-> {"uuid", "md5_sum"},
     refresh |-> {"uuid"}, error_entry |-> {"uuid"}]

TableNames == DOMAIN PrimaryKey
TableSeq == <<"db_version", "user", "media_type", "media_subtype", "book_genre",
              "document_tag", "source", "work_entry", "md5_sum", "refresh", "error_entry">>

SameKey(name, r, s) == \A c \in PrimaryKey[name] : r[c] = s[c]

(***************************************************************************)
(* The four statements SQLite runs, each within one transaction.           *)
(***************************************************************************)
Done(t, rows) == [ret |-> 0, tables |-> t, rows |-> rows]
Refused(t) == [ret |-> -1, tables |-> t, rows |-> {}]

Where(t, name, cond) == {r \in t[name] : \A c \in DOMAIN cond : r[c] = cond[c]}

Insert(t, name, row) ==
    IF \E r \in t[name] : SameKey(name, r, row)
    THEN Refused(t)
    ELSE Done([t EXCEPT ![name] = @ \cup {row}], {})

Select(t, name, cond) == Done(t, Where(t, name, cond))

\* The existence checks answer an empty uuid without a statement.
Exists(t, name, cond) == IF cond.uuid = NoUuid THEN Done(t, {}) ELSE Select(t, name, cond)

Delete(t, name, cond) == Done([t EXCEPT ![name] = @ \ Where(t, name, cond)], {})

Assigned(r, row, columns) == [c \in DOMAIN r |-> IF c \in columns THEN row[c] ELSE r[c]]

\* An UPDATE is refused as a whole when a row it changes would take the key of
\* another row.
Update(t, name, cond, row, columns) ==
    LET hit == Where(t, name, cond)
        new(r) == IF r \in hit THEN Assigned(r, row, columns) ELSE r
    IN  IF \E r \in hit : \E s \in t[name] \ {r} : SameKey(name, new(r), new(s))
        THEN Refused(t)
        ELSE Done([t EXCEPT ![name] = {new(r) : r \in @}], {})

(***************************************************************************)
(* work_entry                                                              *)
(***************************************************************************)
ListEntries(t) == Done(t, t["work_entry"])
CreateEntry(t, entry) == Insert(t, "work_entry", entry)
ReadEntry(t, uuid) == Select(t, "work_entry", [uuid |-> uuid])
UpdateEntry(t, entry) ==
    Update(t, "work_entry", [uuid |-> entry.uuid], entry, DOMAIN entry \ {"uuid"})
DeleteEntry(t, uuid) == Delete(t, "work_entry", [uuid |-> uuid])
DoesEntryUrlExist(t, url) == Select(t, "work_entry", [url |-> url])
DoesEntryUUIDExist(t, uuid) == Exists(t, "work_entry", [uuid |-> uuid])
GetEntryUUIDFromUrl(t, url) == Select(t, "work_entry", [url |-> url])
GetEntryUrlFromUUID(t, uuid) == Select(t, "work_entry", [uuid |-> uuid])

(***************************************************************************)
(* md5_sum                                                                 *)
(***************************************************************************)
\* Mutant: the numbers are bound as wide as they are.
Md5RowWide(md5) == md5
\* What the columns hold of an Md5Sum: index_num, date and version_num and the
\* 64-bit seq_num pass through an int.
Md5Row(md5) == [md5 EXCEPT !.index_num = AsInt(@), !.seq_num = AsInt(@)]

AllButKey(md5, column) == DOMAIN md5 \ {"uuid", column}

ListChecksums(t) == Done(t, t["md5_sum"])
CreateMd5Sum(t, md5) == Insert(t, "md5_sum", Md5Row(md5))
ReadMd5SumByIndexNum(t, uuid, index_num) ==
    Select(t, "md5_sum", [uuid |-> uuid, index_num |-> AsInt(index_num)])
ReadMd5SumBySecId(t, uuid, sec_id) == Select(t, "md5_sum", [uuid |-> uuid, sec_id |-> sec_id])
ReadMd5SumBySeqNum(t, uuid, seq_num) ==
    Select(t, "md5_sum", [uuid |-> uuid, seq_num |-> AsInt(seq_num)])
UpdateMd5SumByIndexNum(t, md5) ==
    Update(t, "md5_sum", [uuid |-> md5.uuid, index_num |-> AsInt(md5.index_num)],
           Md5Row(md5), AllButKey(md5, "index_num"))
UpdateMd5SumBySeqNum(t, md5) ==
    Update(t, "md5_sum", [uuid |-> md5.uuid, seq_num |-> AsInt(md5.seq_num)],
           Md5Row(md5), AllButKey(md5, "seq_num"))
DeleteMd5Sum(t, uuid, index_num) ==
    Delete(t, "md5_sum", [uuid |-> uuid, index_num |-> AsInt(index_num)])
DoesMd5SumExistByIndexNum(t, uuid, index_num) ==
    Exists(t, "md5_sum", [uuid |-> uuid, index_num |-> AsInt(index_num)])
DoesMd5SumExistBySecId(t, uuid, sec_id) ==
    IF sec_id = NoUuid THEN Done(t, {})
    ELSE Exists(t, "md5_sum", [uuid |-> uuid, sec_id |-> sec_id])
DoesMd5SumExistBySeqNum(t, uuid, seq_num) ==
    Exists(t, "md5_sum", [uuid |-> uuid, seq_num |-> AsInt(seq_num)])
GetMd5SumFromMd5Sum(t, md5_sum, uuid) ==
    Select(t, "md5_sum", [uuid |-> uuid, md5_sum |-> md5_sum])
GetMd5SumsFromUUID(t, uuid) == Select(t, "md5_sum", [uuid |-> uuid])

\* The largest version_num among the rows of an index, and at least 0.
GetVersionFromMd5(t, uuid, index_num) ==
    LET at == Where(t, "md5_sum", [uuid |-> uuid, index_num |-> AsInt(index_num)])
    IN  Done(t, {r \in at : \A s \in at : s.version_num <= r.version_num})

(***************************************************************************)
(* refresh and error_entry                                                 *)
(***************************************************************************)
CreateRefresh(t, refresh) == Insert(t, "refresh", refresh)
ReadRefresh(t, uuid) == Select(t, "refresh", [uuid |-> uuid])
DeleteRefresh(t, uuid) == Delete(t, "refresh", [uuid |-> uuid])
DoesRefreshExist(t, uuid) == Exists(t, "refresh", [uuid |-> uuid])
DoesMinRefreshExist(t) == Done(t, t["refresh"])
GetRefreshFromMinDate(t) ==
    Done(t, {r \in t["refresh"] : \A s \in t["refresh"] : r.refresh_date <= s.refresh_date})

ListErrorEntries(t) == Done(t, t["error_entry"])
CreateErrorEntry(t, entry) == Insert(t, "error_entry", entry)
DeleteErrorEntry(t, uuid, progress_num) ==
    Delete(t, "error_entry", [uuid |-> uuid, progress_num |-> progress_num])
DoesErrorEntryExist(t, uuid, progress_num) ==
    Exists(t, "error_entry", [uuid |-> uuid, progress_num |-> progress_num])

(***************************************************************************)
(* First-time setup: the tables, then one INSERT per default row, the      *)
(* version last.                                                           *)
(***************************************************************************)
GenerateTable(t, name) ==
    IF name \in DOMAIN t THEN t
    ELSE [n \in DOMAIN t \cup {name} |-> IF n \in DOMAIN t THEN t[n] ELSE {}]

\* Every statement names tables that exist, or it cannot be prepared.
PrepareStatements(t) == TableNames \ {"book_genre", "document_tag"} \subseteq DOMAIN t

CreateUser(uid, level, name) ==
    [table |-> "user", row |-> [UID |-> uid, permission_level |-> level, name |-> name]]
CreateMediaType(name) == [table |-> "media_type", row |-> [name |-> name]]
CreateMediaSubtype(name, type) ==
    [table |-> "media_subtype", row |-> [name |-> name, media_type_name |-> type]]
CreateSource(name, type, subtype) ==
    [table |-> "source", row |-> [name |-> name, media_type |-> type, media_subtype |-> subtype]]
CreateDBVersion(v) == [table |-> "db_version", row |-> [db_version |-> v]]

SetupDefaultLibraryUsers ==
    << CreateUser(4007, "rwx", "BlackLibraryAdmin"), CreateUser(4004, "rw", "BlackLibraryLibrarian"),
       CreateUser(4003, "w", "BlackLibraryWriter"), CreateUser(4001, "r", "BlackLibraryReader"),
       CreateUser(4000, "none", "BlackLibraryNoPermissions") >>
SetupDefaultEntryTypeTable ==
    << CreateMediaType("document"), CreateMediaType("image-gallery"), CreateMediaType("video") >>
SetupDefaultSubtypeTable ==
    << CreateMediaSubtype("blog", "document"), CreateMediaSubtype("book", "document"),
       CreateMediaSubtype("news-article", "document"), CreateMediaSubtype("paper", "document"),
       CreateMediaSubtype("webnovel", "document"), CreateMediaSubtype("manga", "image-gallery"),
       CreateMediaSubtype("photo-album", "image-gallery"), CreateMediaSubtype("movie", "video"),
       CreateMediaSubtype("tv-show", "video"), CreateMediaSubtype("youtube", "video") >>
SetupDefaultSourceTable ==
    << CreateSource("archive-of-our-own", "document", "webnovel"),
       CreateSource("fanfiction", "document", "webnovel"),
       CreateSource("royal-road", "document", "webnovel"),
       CreateSource("spacebattles-forums", "document", "webnovel"),
       CreateSource("sufficient-velocity-forums", "document", "webnovel"),
       CreateSource("wordpress", "document", "blog"),
       CreateSource("youtube", "video", "youtube") >>
SetupVersionTable == << CreateDBVersion(Version) >>

SetupDefaultTypeTables ==
    SetupDefaultEntryTypeTable \o SetupDefaultSubtypeTable \o SetupDefaultSourceTable
SetupScript == SetupDefaultLibraryUsers \o SetupDefaultTypeTables \o SetupVersionTable

\* GetDBVersion answers the empty string when it cannot read the row.
CheckDBVersion(t) == Done(t, t["db_version"]).rows = {[db_version |-> Version]}
=============================================================================
