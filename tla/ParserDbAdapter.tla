--------------------------- MODULE ParserDbAdapter ---------------------------
(***************************************************************************)
(* What a parser asks of the catalog (ParserDbAdapter.cc): each call is a  *)
(* few calls of the database under upsert_mutex_ or without it.  A section *)
(* is a record of what its page says: [md5, date, sec_id, seq_num].        *)
(***************************************************************************)
CONSTANTS IntSpan, Version, NoUuid

DB == INSTANCE LibraryDB

\* The checksum rows a call may answer with, none when the work is unknown.
OfKnownWork(t, uuid, rows) == IF DB!DoesWorkEntryUUIDExist(t, uuid).rows = {} THEN {} ELSE rows

CheckForMd5(t, md5_sum, uuid) ==
    OfKnownWork(t, uuid, DB!GetMd5SumFromMd5Sum(t, md5_sum, uuid).rows)

\* already_exists
CheckVersion(t, section, uuid) ==
    \E r \in CheckForMd5(t, section.md5, uuid) : r.date = section.date

\* By seq_num if any row has it, else by sec_id.
ReadMd5ByUrl(t, uuid, section) ==
    LET bySeqNum == DB!DoesMd5SumExistBySeqNum(t, uuid, section.seq_num).rows
    IN  OfKnownWork(t, uuid,
            IF bySeqNum # {} THEN DB!ReadMd5SumBySeqNum(t, uuid, section.seq_num).rows
            ELSE DB!ReadMd5SumBySecId(t, uuid, section.sec_id).rows)

ReadMd5s(t, uuid) == DB!GetMd5SumsFromUUID(t, uuid).rows

Md5Of(uuid, index_num, section, version_num) ==
    [uuid |-> uuid, md5_sum |-> section.md5, index_num |-> index_num, date |-> section.date,
     sec_id |-> section.sec_id, seq_num |-> section.seq_num, version_num |-> version_num]

UpsertMd5ByIndexNum(t, uuid, index_num, section, version_num) ==
    LET md5 == Md5Of(uuid, index_num, section, version_num)
    IN  IF DB!DoesMd5SumExistByIndexNum(t, uuid, index_num).rows # {}
        THEN DB!UpdateMd5SumByIndexNum(t, md5)
        ELSE DB!CreateMd5Sum(t, md5)

UpdateMd5BySeqNum(t, md5) ==
    IF DB!DoesMd5SumExistBySeqNum(t, md5.uuid, md5.seq_num).rows = {}
    THEN DB!SQLite!Refused(t)
    ELSE DB!UpdateMd5SumBySeqNum(t, md5)
=============================================================================
