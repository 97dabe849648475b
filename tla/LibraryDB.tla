----------------------------- MODULE LibraryDB -----------------------------
(***************************************************************************)
(* The calls of BlackLibraryDB.cc, the facade every other part uses.  Each *)
(* checks its arguments and runs one call of SQLiteDB; the mutex and the   *)
(* transaction around it are DatabaseSession's.  A call that answers a     *)
(* flag answers whether rows # {}; one that answers a row answers any of   *)
(* rows, and a default row when there is none.                             *)
(***************************************************************************)
CONSTANTS IntSpan, Version, NoUuid

SQLite == INSTANCE SQLiteTables

\* What a call does with an empty uuid.
OrRefused(t, uuid, outcome) == IF uuid = NoUuid THEN SQLite!Refused(t) ELSE outcome
OrNothing(t, uuid, outcome) == IF uuid = NoUuid THEN SQLite!Done(t, {}) ELSE outcome

GetWorkEntryList(t) == SQLite!ListEntries(t)
GetChecksumList(t) == SQLite!ListChecksums(t)
GetErrorEntryList(t) == SQLite!ListErrorEntries(t)

CreateWorkEntry(t, entry) == OrRefused(t, entry.uuid, SQLite!CreateEntry(t, entry))
ReadWorkEntry(t, uuid) == OrNothing(t, uuid, SQLite!ReadEntry(t, uuid))
UpdateWorkEntry(t, entry) == OrRefused(t, entry.uuid, SQLite!UpdateEntry(t, entry))
DeleteWorkEntry(t, uuid) == OrRefused(t, uuid, SQLite!DeleteEntry(t, uuid))

CreateMd5Sum(t, md5) == OrRefused(t, md5.uuid, SQLite!CreateMd5Sum(t, md5))
ReadMd5SumByIndexNum(t, uuid, index_num) ==
    OrNothing(t, uuid, SQLite!ReadMd5SumByIndexNum(t, uuid, index_num))
ReadMd5SumBySecId(t, uuid, sec_id) ==
    OrNothing(t, uuid, SQLite!ReadMd5SumBySecId(t, uuid, sec_id))
ReadMd5SumBySeqNum(t, uuid, seq_num) ==
    OrNothing(t, uuid, SQLite!ReadMd5SumBySeqNum(t, uuid, seq_num))
UpdateMd5SumByIndexNum(t, md5) == OrRefused(t, md5.uuid, SQLite!UpdateMd5SumByIndexNum(t, md5))
UpdateMd5SumBySeqNum(t, md5) == OrRefused(t, md5.uuid, SQLite!UpdateMd5SumBySeqNum(t, md5))
DeleteMd5Sum(t, uuid, index_num) == OrRefused(t, uuid, SQLite!DeleteMd5Sum(t, uuid, index_num))

CreateRefresh(t, refresh) == OrRefused(t, refresh.uuid, SQLite!CreateRefresh(t, refresh))
ReadRefresh(t, uuid) == OrNothing(t, uuid, SQLite!ReadRefresh(t, uuid))
DeleteRefresh(t, uuid) == OrRefused(t, uuid, SQLite!DeleteRefresh(t, uuid))
CreateErrorEntry(t, entry) == OrRefused(t, entry.uuid, SQLite!CreateErrorEntry(t, entry))
DeleteErrorEntry(t, uuid, progress_num) ==
    OrRefused(t, uuid, SQLite!DeleteErrorEntry(t, uuid, progress_num))

DoesWorkEntryUrlExist(t, url) == SQLite!DoesEntryUrlExist(t, url)
DoesWorkEntryUUIDExist(t, uuid) == SQLite!DoesEntryUUIDExist(t, uuid)
DoesMd5SumExistByIndexNum(t, uuid, index_num) ==
    SQLite!DoesMd5SumExistByIndexNum(t, uuid, index_num)
DoesMd5SumExistBySecId(t, uuid, sec_id) == SQLite!DoesMd5SumExistBySecId(t, uuid, sec_id)
DoesMd5SumExistBySeqNum(t, uuid, seq_num) == SQLite!DoesMd5SumExistBySeqNum(t, uuid, seq_num)
DoesRefreshExist(t, uuid) == SQLite!DoesRefreshExist(t, uuid)
DoesMinRefreshExist(t) == SQLite!DoesMinRefreshExist(t)
DoesErrorEntryExist(t, uuid, progress_num) == SQLite!DoesErrorEntryExist(t, uuid, progress_num)

GetWorkEntryUUIDFromUrl(t, url) == SQLite!GetEntryUUIDFromUrl(t, url)
GetWorkEntryUrlFromUUID(t, uuid) == SQLite!GetEntryUrlFromUUID(t, uuid)
GetMd5SumFromMd5Sum(t, md5_sum, uuid) ==
    OrNothing(t, uuid, SQLite!GetMd5SumFromMd5Sum(t, md5_sum, uuid))
GetMd5SumsFromUUID(t, uuid) == SQLite!GetMd5SumsFromUUID(t, uuid)
GetVersionFromMd5(t, uuid, index_num) ==
    OrNothing(t, uuid, SQLite!GetVersionFromMd5(t, uuid, index_num))
GetRefreshFromMinDate(t) == SQLite!GetRefreshFromMinDate(t)
=============================================================================
