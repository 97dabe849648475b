-------------------------- MODULE MCDatabaseSession --------------------------
EXTENDS DatabaseSession
CONSTANTS app, cli, main, pool, shell, u1, u2, url1

DB == INSTANCE LibraryDB

MCHome == [t \in {main, pool, shell} |-> IF t = shell THEN cli ELSE app]
Entry(u, l) == [uuid |-> u, url |-> url1, series_length |-> l]

\* A call is its name and its arguments.  u2 stands for a second entry of the
\* same url.
CreateEntry1 == <<"CreateWorkEntry", Entry(u1, 1)>>
UpdateEntry1 == <<"UpdateWorkEntry", Entry(u1, 2)>>
DeleteEntry1 == <<"DeleteWorkEntry", u1>>
UrlExists == <<"DoesWorkEntryUrlExist", url1>>
ListAll == <<"GetWorkEntryList">>
Refresh1 == <<"CreateRefresh", [uuid |-> u1, refresh_date |-> 1]>>
MCCalls == {CreateEntry1, UpdateEntry1, UrlExists, Refresh1}
MCWrites == MCCalls \ {UrlExists}
MCLocked == MCCalls \ {Refresh1}

\* Statements are prepared before any call: no call reaches a file without its
\* tables.
MCEffect(c, t) ==
    IF ~PrepareStatements(t) THEN Refused(t)
    ELSE CASE c[1] = "CreateWorkEntry" -> DB!CreateWorkEntry(t, c[2])
           [] c[1] = "UpdateWorkEntry" -> DB!UpdateWorkEntry(t, c[2])
           [] c[1] = "DeleteWorkEntry" -> DB!DeleteWorkEntry(t, c[2])
           [] c[1] = "DoesWorkEntryUrlExist" -> DB!DoesWorkEntryUrlExist(t, c[2])
           [] c[1] = "GetWorkEntryList" -> DB!GetWorkEntryList(t)
           [] c[1] = "CreateRefresh" -> DB!CreateRefresh(t, c[2])

\* A user, a media type, two sources and the version.
MCScript == <<SetupScript[1], SetupScript[6], SetupScript[19], SetupScript[20],
              SetupScript[Len(SetupScript)]>>
=============================================================================
