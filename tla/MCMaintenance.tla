---------------------------- MODULE MCMaintenance ----------------------------
EXTENDS Maintenance
CONSTANTS u1, u2, u3
MCSource == [u \in Uuid |-> IF u = u1 THEN "royal-road" ELSE "wordpress"]
MCUrl == [u \in Uuid |-> IF u = u1 THEN "url1" ELSE IF u = u2 THEN "url2" ELSE "url3"]
\* In the order of the file: a row that is skipped, one that is restored, one
\* that ends the program.
MCText == [u \in Uuid |-> IF u = u1 THEN "newline" ELSE IF u = u2 THEN "plain" ELSE "comma"]
\* One digest starts with a number that an int shows as negative, one row is
\* from before sec_id held an id.
MCLeadingNumber == [t \in {"17a"} |-> 17]
MCSeqOfUrl == [t \in OldStyle |-> 2]
\* Up to three rows of one work, with gaps and with shared indexes, and a
\* work with one row that is not at its place.
Rows(K) == {{<<u1, k, i[k], IF k = "c" THEN n ELSE 2>> : k \in K} :
               i \in [K -> {0, 1, 3}], n \in {1, 2}}
MCCatalogs ==
    {R \cup {<<u2, "b", 3, 1>>} : R \in UNION {Rows(K) : K \in SUBSET {"17a", "b", "c"}}}
=============================================================================
