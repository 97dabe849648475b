-------------------------- MODULE IndexMergeProofs --------------------------
(***************************************************************************)
(* A job that runs alone numbers the chapters the site lists in the site's *)
(* order, passes over none and loses the row of none: for any chapters,    *)
(* any changes of the site and any number of jobs and failures.  The loop  *)
(* that merges is a recursive function; its invariant is established by    *)
(* the induction over Nat that this module derives from least elements.    *)
(***************************************************************************)
EXTENDS IndexMerge, SequenceLemmas

(***************************************************************************)
(* The inductive invariant: SoundInv of a work whose rows have numbers,    *)
(* OldInv of one with a row that has none.                                 *)
(***************************************************************************)
\* No index exceeds it: each step of a merge takes a row or a chapter.
LastIndex == 2 * Cardinality(Chapters)

RowType ==
    {r \in [uuid : {Uuid}, md5_sum : Chapters, date : {0}, sec_id : Chapters,
            seq_num : Chapters, version_num : {0}, index_num : 0..LastIndex] :
       r.md5_sum = r.seq_num /\ r.sec_id = r.seq_num}

OneRowEach(rows) == \A r, s \in rows : r.seq_num = s.seq_num => r = s

ErrorType == [uuid : {Uuid}, progress_num : Nat \ {0}]

TablesType(t) ==
    /\ t = [n \in {"work_entry", "md5_sum", "error_entry"} |-> t[n]]
    /\ t["work_entry"] = {[uuid |-> Uuid]}
    /\ t["md5_sum"] \subseteq RowType /\ OneRowEach(t["md5_sum"])
    /\ t["error_entry"] \subseteq ErrorType

ItemType == [chapter : Chapters, index_num : 0..LastIndex]

JobType ==
    [at : Stages, listed : SUBSET Chapters, number : Nat \ {0}, updates : Seq(RowType),
     queue : Seq(ItemType), left : Int, alone : BOOLEAN, failed : BOOLEAN,
     refused : SUBSET Chapters]

Looping == {"loop", "save", "result"}

JobOK(j) ==
    \/ j = NoJob
    \/ /\ j \in JobType /\ j.at # "none"
       /\ j.at = "index" => j.listed # {}
       /\ j.at = "save" => j.queue # << >>
       /\ j.at \in {"save", "result"} => j.updates = << >>

TypeInv ==
    /\ numbered \in BOOLEAN /\ undefined \in BOOLEAN
    /\ site \subseteq Chapters
    /\ TablesType(tables)
    /\ job = [e \in Kinds |-> job[e]] /\ \A e \in Kinds : JobOK(job[e])

\* A source without numbers never gets as far as the loop.
OnlyNumbered ==
    /\ undefined => ~numbered
    /\ ~numbered => Rows = {} /\ \A e \in Kinds : job[e].at \notin Looping

\* A job that is alone is.
AloneIs == \A e \in Kinds : Merging(e) => ~Running(Other(e))

\* The place of a chapter once the updates of the merge are made: of a row that
\* is to be updated, of another row, of a chapter in the queue.
Elements(s) == {s[i] : i \in DOMAIN s}
Items(rows) == {[chapter |-> r.seq_num, index_num |-> r.index_num] : r \in rows}
Settled(rows, listed, updates) ==
    {r \in rows : r.seq_num \in listed /\ \A u \in Elements(updates) : u.seq_num # r.seq_num}
Places(rows, listed, updates, queue) ==
    Items(Settled(rows, listed, updates) \cup Elements(updates)) \cup Elements(queue)

Ascending(items) == \A a, b \in items : a.chapter < b.chapter => a.index_num < b.index_num

MergedInOrder(t, j) == Ascending(Places(t["md5_sum"], j.listed, j.updates, j.queue))

PassedOver(t, j) ==
    {c \in j.listed : /\ ~HasRow(t, c) /\ c \notin j.refused
                      /\ \A q \in Elements(j.queue) : q.chapter # c}

\* A job that is alone and has merged.
Merged(j, t) ==
    /\ MergedInOrder(t, j)
    /\ ~j.failed => PassedOver(t, j) = {}
    /\ j.at = "save" => ~HasRow(t, Head(j.queue).chapter)

MergedInv == \A e \in Kinds : Merging(e) /\ job[e].at \in Looping => Merged(job[e], tables)

SoundInv == TypeInv /\ OnlyNumbered /\ AloneIs /\ MergedInv

\* A row without number stays: every job of its work ends with the merge.
AnyRowType ==
    [uuid : {Uuid}, md5_sum : Chapters, date : {0}, sec_id : Chapters,
     seq_num : Chapters \cup {NoNumber}, version_num : {0}, index_num : 0..LastIndex]

HasOldRow == \E r \in Rows : r.seq_num = NoNumber

OldInv ==
    /\ numbered /\ HasOldRow /\ site \subseteq Chapters
    /\ Rows \subseteq AnyRowType /\ IsFiniteSet(Rows) /\ Errors \subseteq ErrorType
    /\ \A r, s \in Rows : r.seq_num = s.seq_num => r = s \/ r.seq_num = NoNumber
    /\ job = [e \in Kinds |-> job[e]]
    /\ \A e \in Kinds : JobOK(job[e]) /\ job[e].at \notin Looping

IInv == SoundInv \/ OldInv

----------------------------------------------------------------------------
(* Sequences.                                                               *)

\* The elements of a sequence.
LEMMA ElementsIn ==
  ASSUME NEW T, NEW s \in Seq(T)
  PROVE  Elements(s) \subseteq T
  BY DEF Elements

\* What is left of a sequence without its head.
LEMMA TailFacts ==
  ASSUME NEW T, NEW s \in Seq(T), s # << >>
  PROVE  /\ Head(s) \in T /\ Head(s) = s[1] /\ 1 \in DOMAIN s
         /\ Tail(s) \in Seq(T) /\ Len(Tail(s)) = Len(s) - 1
         /\ \A i \in DOMAIN Tail(s) : i \in Nat /\ i + 1 \in DOMAIN s /\ Tail(s)[i] = s[i + 1]
         /\ Elements(s) = {Head(s)} \cup Elements(Tail(s))
<1>1. Len(s) \in Nat \ {0} /\ DOMAIN s = 1..Len(s)  OBVIOUS
<1>2. Tail(s) \in Seq(T) /\ Len(Tail(s)) = Len(s) - 1  BY <1>1
<1>3. DOMAIN Tail(s) = 1..(Len(s) - 1)  BY <1>1, <1>2
<1>4. \A i \in DOMAIN Tail(s) : i \in Nat /\ i + 1 \in DOMAIN s /\ Tail(s)[i] = s[i + 1]
  BY <1>1, <1>3
<1>5. Head(s) = s[1] /\ 1 \in DOMAIN s /\ Head(s) \in T  BY <1>1
<1>6. \A i \in DOMAIN s : i = 1 \/ (i - 1 \in DOMAIN Tail(s) /\ Tail(s)[i - 1] = s[i])
  BY <1>1, <1>3, <1>4
<1>7. Elements(s) = {Head(s)} \cup Elements(Tail(s))
  <2>1. Elements(s) \subseteq {Head(s)} \cup Elements(Tail(s))  BY <1>5, <1>6 DEF Elements
  <2>2. {Head(s)} \cup Elements(Tail(s)) \subseteq Elements(s)  BY <1>4, <1>5 DEF Elements
  <2> QED  BY <2>1, <2>2
<1> QED  BY <1>2, <1>4, <1>5, <1>7

\* A sequence with one more element.
LEMMA AppendFacts ==
  ASSUME NEW T, NEW s \in Seq(T), NEW x \in T
  PROVE  /\ Append(s, x) \in Seq(T)
         /\ Elements(Append(s, x)) = Elements(s) \cup {x}
<1>1. /\ Append(s, x) \in Seq(T) /\ Len(s) \in Nat
      /\ DOMAIN Append(s, x) = 1..(Len(s) + 1) /\ DOMAIN s = 1..Len(s)
  OBVIOUS
<1>2. \A i \in DOMAIN s : i \in DOMAIN Append(s, x) /\ Append(s, x)[i] = s[i]  BY <1>1
<1>3. Append(s, x)[Len(s) + 1] = x /\ Len(s) + 1 \in DOMAIN Append(s, x)  BY <1>1
<1>4. \A i \in DOMAIN Append(s, x) : i = Len(s) + 1 \/ i \in DOMAIN s  BY <1>1
<1> QED  BY <1>1, <1>2, <1>3, <1>4 DEF Elements

----------------------------------------------------------------------------
(* The priority queues.                                                     *)

\* Things leave the queue once each, the smallest number first.
LEMMA ByNumberSorts ==
  ASSUME NEW S, IsFiniteSet(S), NEW number \in [S -> Int], NEW s \in ByNumber(number)
  PROVE  /\ s \in Seq(S) /\ Len(s) = Cardinality(S) /\ Elements(s) = S
         /\ \A i, k \in DOMAIN s : i < k => s[i] # s[k] /\ number[s[i]] <= number[s[k]]
<1>1. s \in SetToSeqs(S) /\ \A i, k \in DOMAIN s : i < k => number[s[i]] <= number[s[k]]
  BY DEF ByNumber
<1>2. /\ s \in Seq(S) /\ Len(s) = Cardinality(S) /\ DOMAIN s = 1..Cardinality(S)
      /\ \A x \in S : \E i \in DOMAIN s : s[i] = x
      /\ \A i, j \in DOMAIN s : s[i] = s[j] => i = j
  BY <1>1, SetToSeqFacts
<1>3. Elements(s) = S
  <2>1. Elements(s) \subseteq S  BY <1>2, ElementsIn
  <2> QED  BY <1>2, <2>1 DEF Elements
<1>4. \A i, k \in DOMAIN s : i < k => i # k  BY <1>2
<1> QED  BY <1>1, <1>2, <1>3, <1>4

\* Things with different numbers have one order.
LEMMA ByNumberStrict ==
  ASSUME NEW S, IsFiniteSet(S), NEW number \in [S -> Int],
         \A x, y \in S : number[x] = number[y] => x = y, NEW s \in ByNumber(number)
  PROVE  \A i, k \in DOMAIN s : i < k => number[s[i]] < number[s[k]]
<1> SUFFICES ASSUME NEW i \in DOMAIN s, NEW k \in DOMAIN s, i < k
             PROVE  number[s[i]] < number[s[k]]
  OBVIOUS
<1>1. s \in Seq(S) /\ s[i] # s[k] /\ number[s[i]] <= number[s[k]]  BY ByNumberSorts
<1>2. s[i] \in S /\ s[k] \in S  BY <1>1
<1>3. number[s[i]] \in Int /\ number[s[k]] \in Int /\ number[s[i]] # number[s[k]]
  BY <1>1, <1>2
<1> QED  BY <1>1, <1>3

\* What is compared is a number.
LEMMA NumbersAreInts ==
  /\ LastIndex \in Nat /\ \A c \in Chapters : c \in Nat
  /\ \A r \in RowType : r.seq_num \in Nat /\ r.index_num \in Nat
  /\ \A q \in ItemType : q.chapter \in Nat /\ q.index_num \in Nat
<1>1. Cardinality(Chapters) \in Nat  BY IndexAssumption, FS_CardinalityType
<1>2. \A c \in Chapters : c \in Nat  BY IndexAssumption
<1>3. LastIndex \in Nat  BY <1>1 DEF LastIndex
<1> QED  BY <1>2, <1>3 DEF RowType, ItemType

\* The rows of a sound table leave theirs by seq_num.
LEMMA RowsAreSorted ==
  ASSUME NEW rows, rows \subseteq RowType, OneRowEach(rows), NEW s \in BySeqNum(rows)
  PROVE  /\ s \in Seq(rows) /\ Elements(s) = rows /\ Len(s) <= Cardinality(Chapters)
         /\ \A i, k \in DOMAIN s : i < k => s[i].seq_num < s[k].seq_num
<1> DEFINE number == [r \in rows |-> r.seq_num]
<1>1. \A r \in rows : r.seq_num \in Chapters /\ r.seq_num \in Nat /\ r.seq_num < MaxSeqNum
  BY IndexAssumption DEF RowType
<1>2. number \in Injection(rows, Chapters)  BY <1>1 DEF Injection, IsInjective, OneRowEach
<1>3. IsFiniteSet(rows) /\ Cardinality(rows) <= Cardinality(Chapters)
  <2> HIDE DEF number
  <2>1. IsFiniteSet(Chapters)  BY IndexAssumption
  <2> QED  BY ONLY <1>2, <2>1, FS_Injection
<1>4. number \in [rows -> Int] /\ \A x, y \in rows : number[x] = number[y] => x = y
  BY <1>1 DEF OneRowEach
<1>5. \A r \in rows : number[r] = r.seq_num  OBVIOUS
<1>6. s \in ByNumber(number)
  <2>1. {r \in rows : r.seq_num # MaxSeqNum} = rows  BY <1>1, IndexAssumption
  <2> QED  BY <2>1 DEF BySeqNum
<1> HIDE DEF number
<1>7. /\ s \in Seq(rows) /\ Len(s) = Cardinality(rows) /\ Elements(s) = rows
      /\ \A i, k \in DOMAIN s : i < k => number[s[i]] < number[s[k]]
  BY <1>3, <1>4, <1>6, ByNumberSorts, ByNumberStrict
<1>8. \A i \in DOMAIN s : s[i] \in rows  BY <1>7
<1>9. \A i, k \in DOMAIN s : i < k => s[i].seq_num < s[k].seq_num  BY <1>5, <1>7, <1>8
<1> QED  BY <1>3, <1>7, <1>9

\* So do the chapters of a listing.
LEMMA EntriesAreSorted ==
  ASSUME NEW listed, listed \subseteq Chapters, numbered, NEW s \in Entries(listed)
  PROVE  /\ s \in Seq(listed) /\ Elements(s) = listed /\ Len(s) <= Cardinality(Chapters)
         /\ \A i, k \in DOMAIN s : i < k => s[i] < s[k]
<1> DEFINE number == [c \in listed |-> c]
<1>1. number \in [listed -> Int] /\ \A x, y \in listed : number[x] = number[y] => x = y
  BY IndexAssumption
<1>2. \A c \in listed : number[c] = c  OBVIOUS
<1>3. IsFiniteSet(listed) /\ Cardinality(listed) <= Cardinality(Chapters)
  BY IndexAssumption, FS_Subset
<1>4. s \in ByNumber(number)  BY DEF Entries
<1> HIDE DEF number
<1>5. /\ s \in Seq(listed) /\ Len(s) = Cardinality(listed) /\ Elements(s) = listed
      /\ \A i, k \in DOMAIN s : i < k => number[s[i]] < number[s[k]]
  BY <1>1, <1>3, <1>4, ByNumberSorts, ByNumberStrict
<1>6. \A i \in DOMAIN s : s[i] \in listed  BY <1>5
<1>7. \A i, k \in DOMAIN s : i < k => s[i] < s[k]  BY <1>2, <1>5, <1>6
<1> QED  BY <1>3, <1>5, <1>7

----------------------------------------------------------------------------
(* The loop that merges.                                                    *)

MergeType ==
    [rows : Seq(RowType), entries : Seq(Chapters), listed : Nat, expected : Nat,
     updates : Seq(RowType), queue : Seq(ItemType), undefined : BOOLEAN]

\* Where the chapters have been put whose rows or entries have left the queues.
PutSoFar(rows, listed, m) == Places(rows \ Elements(m.rows), listed, m.updates, m.queue)

\* Every chapter put has a smaller number than what is still to come, and an
\* index below the next.
Before(items, m) ==
    \A p \in items :
       /\ p.index_num < m.expected
       /\ \A r \in Elements(m.rows) : p.chapter < r.seq_num
       /\ \A c \in Elements(m.entries) : p.chapter < c

Sorted(m) ==
    /\ \A i, k \in DOMAIN m.rows : i < k => m.rows[i].seq_num < m.rows[k].seq_num
    /\ \A i, k \in DOMAIN m.entries : i < k => m.entries[i] < m.entries[k]

MergeInv(rows, listed, m) ==
    /\ m \in MergeType /\ ~m.undefined
    /\ m.expected + Len(m.rows) + Len(m.entries) <= LastIndex
    /\ Sorted(m)
    /\ Elements(m.rows) \subseteq rows /\ Elements(m.entries) \subseteq listed
    /\ \A r \in Elements(m.rows) : r.seq_num \in listed => r.seq_num \in Elements(m.entries)
    /\ Ascending(PutSoFar(rows, listed, m)) /\ Before(PutSoFar(rows, listed, m), m)
    /\ \A c \in listed : \/ c \in Elements(m.entries)
                         \/ \E r \in rows : r.seq_num = c
                         \/ \E q \in Elements(m.queue) : q.chapter = c

\* What each step does to the places.
LEMMA PutOne ==
  ASSUME NEW rows, NEW listed, NEW m, NEW n, NEW h, h \in Chapters,
         rows \subseteq RowType, MergeInv(rows, listed, m), n \in MergeType,
         n.expected = m.expected + 1,
         PutSoFar(rows, listed, n) \subseteq
             PutSoFar(rows, listed, m) \cup {[chapter |-> h, index_num |-> m.expected]},
         Elements(n.rows) \subseteq Elements(m.rows),
         Elements(n.entries) \subseteq Elements(m.entries),
         \A p \in PutSoFar(rows, listed, m) : p.chapter < h,
         \A r \in Elements(n.rows) : h < r.seq_num,
         \A c \in Elements(n.entries) : h < c
  PROVE  Ascending(PutSoFar(rows, listed, n)) /\ Before(PutSoFar(rows, listed, n), n)
<1> DEFINE old == PutSoFar(rows, listed, m)
           new == PutSoFar(rows, listed, n)
           here == [chapter |-> h, index_num |-> m.expected]
<1>1. /\ Ascending(old) /\ Before(old, m) /\ m.expected \in Nat
  BY DEF MergeInv, MergeType
<1>2. \A p \in old : p.chapter \in Int /\ p.index_num \in Int
  <2>1. /\ m.updates \in Seq(RowType) /\ m.queue \in Seq(ItemType)  BY DEF MergeInv, MergeType
  <2>2. \A r \in RowType : r.seq_num \in Int /\ r.index_num \in Int
    BY IndexAssumption DEF RowType
  <2>3. \A q \in ItemType : q.chapter \in Int /\ q.index_num \in Int
    BY IndexAssumption DEF ItemType
  <2>4. \A i \in DOMAIN m.updates : m.updates[i] \in RowType  BY <2>1
  <2>5. \A i \in DOMAIN m.queue : m.queue[i] \in ItemType  BY <2>1
  <2> QED  BY <2>2, <2>3, <2>4, <2>5 DEF PutSoFar, Places, Settled, Items, Elements
<1>3. h \in Int /\ here.chapter = h /\ here.index_num = m.expected  BY IndexAssumption
<1> HIDE DEF old, new, here
<1>4. new \subseteq old \cup {here}  BY DEF old, new, here
<1>5. \A p \in old : p.chapter < h /\ p.index_num < m.expected  BY <1>1 DEF Before, old
<1>6. Ascending(new)  BY <1>1, <1>2, <1>3, <1>4, <1>5 DEF Ascending
<1>7. Before(new, n)
  <2> SUFFICES ASSUME NEW p \in new
               PROVE  /\ p.index_num < n.expected
                      /\ \A r \in Elements(n.rows) : p.chapter < r.seq_num
                      /\ \A c \in Elements(n.entries) : p.chapter < c
    BY DEF Before
  <2>1. CASE p = here  BY <1>1, <1>3, <2>1
  <2>2. CASE p \in old  BY <1>1, <1>2, <2>2 DEF Before
  <2> QED  BY <1>4, <2>1, <2>2
<1> QED  BY <1>6, <1>7 DEF new

\* The smallest row and entry are the heads.
LEMMA Heads ==
  ASSUME NEW m, m \in MergeType, Sorted(m)
  PROVE  /\ m.rows # << >> => \A r \in Elements(Tail(m.rows)) : Head(m.rows).seq_num < r.seq_num
         /\ m.entries # << >> => \A c \in Elements(Tail(m.entries)) : Head(m.entries) < c
         /\ m.rows # << >> => \A r \in Elements(m.rows) : Head(m.rows).seq_num <= r.seq_num
         /\ m.entries # << >> => \A c \in Elements(m.entries) : Head(m.entries) <= c
<1>1. m.rows \in Seq(RowType) /\ m.entries \in Seq(Chapters)  BY DEF MergeType
<1>2. ASSUME m.rows # << >>
      PROVE  \A r \in Elements(Tail(m.rows)) : Head(m.rows).seq_num < r.seq_num
  <2>1. /\ Head(m.rows) = m.rows[1] /\ 1 \in DOMAIN m.rows
        /\ \A i \in DOMAIN Tail(m.rows) : i \in Nat /\ i + 1 \in DOMAIN m.rows
                                          /\ Tail(m.rows)[i] = m.rows[i + 1]
    BY <1>1, <1>2, TailFacts
  <2>2. \A i \in DOMAIN Tail(m.rows) : 1 < i + 1
    <3>1. DOMAIN Tail(m.rows) = 1..Len(Tail(m.rows))  BY <1>1, <1>2
    <3> QED  BY <3>1
  <2>3. \A i \in DOMAIN Tail(m.rows) : m.rows[1].seq_num < m.rows[i + 1].seq_num
    BY <2>1, <2>2 DEF Sorted
  <2> QED  BY <2>1, <2>3 DEF Elements
<1>3. ASSUME m.entries # << >>
      PROVE  \A c \in Elements(Tail(m.entries)) : Head(m.entries) < c
  <2>1. /\ Head(m.entries) = m.entries[1] /\ 1 \in DOMAIN m.entries
        /\ \A i \in DOMAIN Tail(m.entries) : i \in Nat /\ i + 1 \in DOMAIN m.entries
                                             /\ Tail(m.entries)[i] = m.entries[i + 1]
    BY <1>1, <1>3, TailFacts
  <2>2. \A i \in DOMAIN Tail(m.entries) : 1 < i + 1
    <3>1. DOMAIN Tail(m.entries) = 1..Len(Tail(m.entries))  BY <1>1, <1>3
    <3> QED  BY <3>1
  <2>3. \A i \in DOMAIN Tail(m.entries) : m.entries[1] < m.entries[i + 1]
    BY <2>1, <2>2 DEF Sorted
  <2> QED  BY <2>1, <2>3 DEF Elements
<1>4. /\ m.rows # << >> => Elements(m.rows) = {Head(m.rows)} \cup Elements(Tail(m.rows))
      /\ m.entries # << >> => Elements(m.entries) = {Head(m.entries)} \cup Elements(Tail(m.entries))
      /\ m.rows # << >> => Head(m.rows) \in RowType
      /\ m.entries # << >> => Head(m.entries) \in Chapters
  BY <1>1, TailFacts
<1>5. \A r \in Elements(m.rows) : r.seq_num \in Int
  BY <1>1, ElementsIn, NumbersAreInts
<1>6. \A c \in Elements(m.entries) : c \in Int
  <2>1. Elements(m.entries) \subseteq Chapters  BY <1>1, ElementsIn
  <2> QED  BY <2>1, NumbersAreInts
<1>7. ASSUME m.rows # << >>, NEW r \in Elements(m.rows)  PROVE Head(m.rows).seq_num <= r.seq_num
  <2>1. r = Head(m.rows) \/ Head(m.rows).seq_num < r.seq_num  BY <1>2, <1>4, <1>7
  <2>2. Head(m.rows).seq_num \in Int /\ r.seq_num \in Int  BY <1>4, <1>5, <1>7
  <2> QED  BY <2>1, <2>2
<1>8. ASSUME m.entries # << >>, NEW c \in Elements(m.entries)  PROVE Head(m.entries) <= c
  <2>1. c = Head(m.entries) \/ Head(m.entries) < c  BY <1>3, <1>4, <1>8
  <2>2. Head(m.entries) \in Int /\ c \in Int  BY <1>4, <1>6, <1>8
  <2> QED  BY <2>1, <2>2
<1> QED  BY <1>2, <1>3, <1>7, <1>8

\* The tails are still sorted.
LEMMA TailsSorted ==
  ASSUME NEW m, m \in MergeType, Sorted(m)
  PROVE  /\ m.rows # << >> => \A i, k \in DOMAIN Tail(m.rows) :
                                i < k => Tail(m.rows)[i].seq_num < Tail(m.rows)[k].seq_num
         /\ m.entries # << >> => \A i, k \in DOMAIN Tail(m.entries) :
                                   i < k => Tail(m.entries)[i] < Tail(m.entries)[k]
<1>1. m.rows \in Seq(RowType) /\ m.entries \in Seq(Chapters)  BY DEF MergeType
<1>2. ASSUME m.rows # << >>, NEW i \in DOMAIN Tail(m.rows), NEW k \in DOMAIN Tail(m.rows), i < k
      PROVE  Tail(m.rows)[i].seq_num < Tail(m.rows)[k].seq_num
  <2>1. /\ i \in Nat /\ i + 1 \in DOMAIN m.rows /\ Tail(m.rows)[i] = m.rows[i + 1]
        /\ k \in Nat /\ k + 1 \in DOMAIN m.rows /\ Tail(m.rows)[k] = m.rows[k + 1]
    BY <1>1, <1>2, TailFacts
  <2>2. i + 1 < k + 1  BY <1>2, <2>1
  <2> QED  BY <2>1, <2>2 DEF Sorted
<1>3. ASSUME m.entries # << >>, NEW i \in DOMAIN Tail(m.entries),
             NEW k \in DOMAIN Tail(m.entries), i < k
      PROVE  Tail(m.entries)[i] < Tail(m.entries)[k]
  <2>1. /\ i \in Nat /\ i + 1 \in DOMAIN m.entries /\ Tail(m.entries)[i] = m.entries[i + 1]
        /\ k \in Nat /\ k + 1 \in DOMAIN m.entries /\ Tail(m.entries)[k] = m.entries[k + 1]
    BY <1>1, <1>3, TailFacts
  <2>2. i + 1 < k + 1  BY <1>3, <2>1
  <2> QED  BY <2>1, <2>2 DEF Sorted
<1> QED  BY <1>2, <1>3

\* What is left shrinks with each step.
Left(m) == Len(m.rows) + Len(m.entries)

\* A listed chapter that has a row keeps it, at the next index.
LEMMA EqualKeeps ==
  ASSUME NEW rows, rows \subseteq RowType, OneRowEach(rows), NEW listed, listed \subseteq Chapters,
         NEW m, MergeInv(rows, listed, m), m.rows # << >>, m.entries # << >>,
         Head(m.rows).seq_num = Head(m.entries)
  PROVE  MergeInv(rows, listed, MergeEqual(m)) /\ Left(MergeEqual(m)) < Left(m)
<1> DEFINE row == Head(m.rows)
           h == Head(m.entries)
           updated == [row EXCEPT !.index_num = m.expected]
           same == row.index_num = m.expected
           n == MergeEqual(m)
           here == [chapter |-> h, index_num |-> m.expected]
<1>1. /\ m.rows \in Seq(RowType) /\ m.entries \in Seq(Chapters) /\ m.listed \in Nat
      /\ m.expected \in Nat /\ m.updates \in Seq(RowType) /\ m.queue \in Seq(ItemType)
      /\ m.undefined = FALSE /\ m \in MergeType /\ Sorted(m)
  BY DEF MergeInv, MergeType
<1>2. /\ row \in RowType /\ Tail(m.rows) \in Seq(RowType) /\ Len(Tail(m.rows)) = Len(m.rows) - 1
      /\ Elements(m.rows) = {row} \cup Elements(Tail(m.rows))
  BY <1>1, TailFacts
<1>3. /\ h \in Chapters /\ Tail(m.entries) \in Seq(Chapters)
      /\ Len(Tail(m.entries)) = Len(m.entries) - 1
      /\ Elements(m.entries) = {h} \cup Elements(Tail(m.entries))
  BY <1>1, TailFacts
<1>4. /\ Len(m.rows) \in Nat /\ Len(m.entries) \in Nat /\ LastIndex \in Int
      /\ m.expected + Len(m.rows) + Len(m.entries) <= LastIndex
  <2>1. m.expected + Len(m.rows) + Len(m.entries) <= LastIndex  BY DEF MergeInv
  <2> QED  BY <1>1, <2>1, NumbersAreInts
<1>5. Len(m.rows) # 0 /\ Len(m.entries) # 0  BY <1>1
<1>6. m.expected \in 0..LastIndex  BY <1>1, <1>4, <1>5
<1>7. updated \in RowType /\ updated.seq_num = h /\ updated.index_num = m.expected
  BY <1>2, <1>6 DEF RowType
<1>8. n = [rows |-> Tail(m.rows), entries |-> Tail(m.entries), listed |-> m.listed,
           expected |-> m.expected + 1,
           updates |-> IF same THEN m.updates ELSE Append(m.updates, updated),
           queue |-> m.queue, undefined |-> FALSE]
  BY <1>1 DEF MergeEqual, MergeType
<1> HIDE DEF n, updated
<1>9. /\ n.rows = Tail(m.rows) /\ n.entries = Tail(m.entries) /\ n.expected = m.expected + 1
      /\ n.updates = IF same THEN m.updates ELSE Append(m.updates, updated)
      /\ n.queue = m.queue /\ n.undefined = FALSE
  BY <1>8
<1>10. /\ Append(m.updates, updated) \in Seq(RowType)
       /\ Elements(Append(m.updates, updated)) = Elements(m.updates) \cup {updated}
  BY <1>1, <1>7, AppendFacts
<1>11. n \in MergeType  BY <1>1, <1>2, <1>3, <1>8, <1>10 DEF MergeType
<1>12. Sorted(n)  BY <1>1, <1>9, TailsSorted DEF Sorted
<1>13. PutSoFar(rows, listed, n) \subseteq PutSoFar(rows, listed, m) \cup {here}
  <2> DEFINE done == rows \ Elements(m.rows)
             done2 == rows \ Elements(n.rows)
  <2>1. done2 \subseteq done \cup {row}  BY <1>2, <1>9
  <2>2. CASE same
    <3>1. Settled(done2, listed, n.updates) \subseteq Settled(done, listed, m.updates) \cup {row}
      BY <1>9, <2>1, <2>2 DEF Settled
    <3>2. [chapter |-> row.seq_num, index_num |-> row.index_num] = here  BY <2>2
    <3> HIDE DEF row, h, here, done, done2
    <3>3. Items(Settled(done2, listed, n.updates) \cup Elements(n.updates))
          \subseteq Items(Settled(done, listed, m.updates) \cup Elements(m.updates)) \cup {here}
      BY <1>9, <2>2, <3>1, <3>2 DEF Items
    <3> QED  BY <1>9, <3>3 DEF PutSoFar, Places, done, done2
  <2>3. CASE ~same
    <3>1. Elements(n.updates) = Elements(m.updates) \cup {updated}  BY <1>9, <1>10, <2>3
    <3>2. Settled(done2, listed, n.updates) \subseteq Settled(done, listed, m.updates)
      BY <1>7, <2>1, <3>1 DEF Settled
    <3>3. [chapter |-> updated.seq_num, index_num |-> updated.index_num] = here  BY <1>7
    <3> HIDE DEF row, h, here, done, done2
    <3>4. Items(Settled(done2, listed, n.updates) \cup Elements(n.updates))
          \subseteq Items(Settled(done, listed, m.updates) \cup Elements(m.updates)) \cup {here}
      BY <3>1, <3>2, <3>3 DEF Items
    <3> QED  BY <1>9, <3>4 DEF PutSoFar, Places, done, done2
  <2> QED  BY <2>2, <2>3
<1>14. /\ \A p \in PutSoFar(rows, listed, m) : p.chapter < h
       /\ \A r \in Elements(n.rows) : h < r.seq_num
       /\ \A c \in Elements(n.entries) : h < c
  BY <1>1, <1>3, <1>9, Heads DEF MergeInv, Before
<1>15. Ascending(PutSoFar(rows, listed, n)) /\ Before(PutSoFar(rows, listed, n), n)
  BY <1>2, <1>3, <1>9, <1>11, <1>13, <1>14, PutOne
<1>16. \A r \in Elements(n.rows) : r.seq_num \in listed => r.seq_num \in Elements(n.entries)
  <2>1. \A r \in Elements(n.rows) : r.seq_num # h
    <3>1. h \in Int /\ \A r \in Elements(n.rows) : h < r.seq_num
      <4> HIDE DEF h
      <4> QED  BY <1>3, <1>14, NumbersAreInts
    <3> QED  BY <3>1
  <2> QED  BY <1>2, <1>3, <1>9, <2>1 DEF MergeInv
<1>17. \A c \in listed : \/ c \in Elements(n.entries)
                         \/ \E r \in rows : r.seq_num = c
                         \/ \E q \in Elements(n.queue) : q.chapter = c
  <2>1. row \in rows /\ row.seq_num = h  BY <1>2 DEF MergeInv
  <2> QED  BY <1>3, <1>9, <2>1 DEF MergeInv
<1>18. n.expected + Len(n.rows) + Len(n.entries) <= LastIndex /\ Left(n) < Left(m)
  <2> DEFINE a == Len(m.rows)
             b == Len(m.entries)
  <2>1. Len(n.rows) = a - 1 /\ Len(n.entries) = b - 1  BY <1>2, <1>3, <1>9
  <2>2. /\ a \in Nat /\ b \in Nat /\ LastIndex \in Int /\ m.expected \in Nat
        /\ m.expected + a + b <= LastIndex /\ n.expected = m.expected + 1
    BY <1>1, <1>4, <1>9
  <2>3. Left(n) = (a - 1) + (b - 1) /\ Left(m) = a + b  BY <2>1 DEF Left
  <2> HIDE DEF a, b
  <2>4. n.expected + (a - 1) + (b - 1) <= LastIndex  BY <2>2
  <2>5. (a - 1) + (b - 1) < a + b  BY <2>2
  <2> QED  BY <2>1, <2>3, <2>4, <2>5
<1>19. Elements(n.rows) \subseteq rows /\ Elements(n.entries) \subseteq listed
  BY <1>2, <1>3, <1>9 DEF MergeInv
<1>20. MergeInv(rows, listed, n)
  BY <1>9, <1>11, <1>12, <1>15, <1>16, <1>17, <1>18, <1>19 DEF MergeInv
<1> QED  BY <1>18, <1>20 DEF n

\* A row whose chapter is no longer listed is passed.
LEMMA GoneKeeps ==
  ASSUME NEW rows, rows \subseteq RowType, OneRowEach(rows), NEW listed, listed \subseteq Chapters,
         NEW m, MergeInv(rows, listed, m), m.rows # << >>,
         m.entries # << >> => Head(m.rows).seq_num < Head(m.entries)
  PROVE  MergeInv(rows, listed, MergeGone(m)) /\ Left(MergeGone(m)) < Left(m)
<1> DEFINE row == Head(m.rows)
           n == MergeGone(m)
<1>1. /\ m.rows \in Seq(RowType) /\ m.entries \in Seq(Chapters) /\ m.listed \in Nat
      /\ m.expected \in Nat /\ m.updates \in Seq(RowType) /\ m.queue \in Seq(ItemType)
      /\ m.undefined = FALSE /\ m \in MergeType /\ Sorted(m)
  BY DEF MergeInv, MergeType
<1>2. /\ row \in RowType /\ Tail(m.rows) \in Seq(RowType) /\ Len(Tail(m.rows)) = Len(m.rows) - 1
      /\ Elements(m.rows) = {row} \cup Elements(Tail(m.rows))
  BY <1>1, TailFacts
<1>3. n = [rows |-> Tail(m.rows), entries |-> m.entries, listed |-> m.listed,
           expected |-> m.expected + 1, updates |-> m.updates, queue |-> m.queue,
           undefined |-> FALSE]
  BY <1>1 DEF MergeGone, MergeType
<1> HIDE DEF n
<1>4. /\ n.rows = Tail(m.rows) /\ n.entries = m.entries /\ n.expected = m.expected + 1
      /\ n.updates = m.updates /\ n.queue = m.queue /\ n.undefined = FALSE
  BY <1>3
<1>5. n \in MergeType  BY <1>1, <1>2, <1>3 DEF MergeType
<1>6. Sorted(n)  BY <1>1, <1>4, TailsSorted DEF Sorted
<1>7. \A c \in Elements(n.entries) : row.seq_num < c
  <2> SUFFICES ASSUME NEW c \in Elements(m.entries) PROVE row.seq_num < c  BY <1>4
  <2>1. m.entries # << >>  BY DEF Elements
  <2>2. /\ Head(m.entries) <= c /\ c \in Int /\ Head(m.entries) \in Int /\ row.seq_num \in Int
    <3>1. c \in Chapters  BY <1>1, ElementsIn
    <3>2. Head(m.entries) \in Chapters  BY <1>1, <2>1, TailFacts
    <3>3. Head(m.entries) <= c  BY <1>1, <2>1, Heads
    <3> QED  BY <1>2, <3>1, <3>2, <3>3, NumbersAreInts
  <2> QED  BY <2>1, <2>2
<1>8. row.seq_num \notin listed
  <2>1. row \in Elements(m.rows)  BY <1>2
  <2>2. row.seq_num \in listed => row.seq_num \in Elements(m.entries)  BY <2>1 DEF MergeInv
  <2>3. row.seq_num \in Int  BY <1>2, NumbersAreInts
  <2>4. row.seq_num \notin Elements(m.entries)
    <3> HIDE DEF row
    <3> QED  BY <1>4, <1>7, <2>3
  <2> QED  BY <2>2, <2>4
<1>9. PutSoFar(rows, listed, n) \subseteq PutSoFar(rows, listed, m)
  <2>1. rows \ Elements(n.rows) \subseteq (rows \ Elements(m.rows)) \cup {row}  BY <1>2, <1>4
  <2>2. Settled(rows \ Elements(n.rows), listed, n.updates)
        \subseteq Settled(rows \ Elements(m.rows), listed, m.updates)
    BY <1>4, <1>8, <2>1 DEF Settled
  <2> QED  BY <1>4, <2>2 DEF PutSoFar, Places, Items
<1>10. Ascending(PutSoFar(rows, listed, n)) /\ Before(PutSoFar(rows, listed, n), n)
  <2>1. /\ Ascending(PutSoFar(rows, listed, m)) /\ Before(PutSoFar(rows, listed, m), m)
    BY DEF MergeInv
  <2>2. \A p \in PutSoFar(rows, listed, m) : p.index_num < m.expected => p.index_num < n.expected
    <3>1. Elements(m.updates) \subseteq RowType /\ Elements(m.queue) \subseteq ItemType
      BY <1>1, ElementsIn
    <3>2. \A p \in PutSoFar(rows, listed, m) : p.index_num \in Int
      BY <3>1, NumbersAreInts DEF PutSoFar, Places, Settled, Items
    <3> QED  BY <1>1, <1>4, <3>2
  <2>3. Elements(n.rows) \subseteq Elements(m.rows) /\ n.entries = m.entries  BY <1>2, <1>4
  <2>4. Ascending(PutSoFar(rows, listed, n))  BY <1>9, <2>1 DEF Ascending
  <2> QED  BY <1>9, <2>1, <2>2, <2>3, <2>4 DEF Before
<1>11. /\ \A r \in Elements(n.rows) : r.seq_num \in listed => r.seq_num \in Elements(n.entries)
       /\ \A c \in listed : \/ c \in Elements(n.entries)
                            \/ \E r \in rows : r.seq_num = c
                            \/ \E q \in Elements(n.queue) : q.chapter = c
       /\ Elements(n.rows) \subseteq rows /\ Elements(n.entries) \subseteq listed
  BY <1>2, <1>4 DEF MergeInv
<1>12. n.expected + Len(n.rows) + Len(n.entries) <= LastIndex /\ Left(n) < Left(m)
  <2> DEFINE a == Len(m.rows)
             b == Len(m.entries)
  <2>1. Len(n.rows) = a - 1 /\ Len(n.entries) = b  BY <1>2, <1>4
  <2>2. /\ a \in Nat /\ b \in Nat /\ LastIndex \in Int /\ m.expected \in Nat
        /\ m.expected + a + b <= LastIndex /\ n.expected = m.expected + 1
    BY <1>1, <1>4, NumbersAreInts DEF MergeInv
  <2>3. Left(n) = Len(n.rows) + Len(n.entries) /\ Left(m) = a + b  BY DEF Left
  <2> HIDE DEF a, b
  <2> QED  BY <2>1, <2>2, <2>3
<1>13. MergeInv(rows, listed, n)  BY <1>4, <1>5, <1>6, <1>10, <1>11, <1>12 DEF MergeInv
<1> QED  BY <1>12, <1>13 DEF n

\* A chapter without a row is queued at the next index.
LEMMA NewKeeps ==
  ASSUME NEW rows, rows \subseteq RowType, OneRowEach(rows), NEW listed, listed \subseteq Chapters,
         NEW m, MergeInv(rows, listed, m), m.entries # << >>,
         m.rows # << >> => Head(m.entries) < Head(m.rows).seq_num
  PROVE  MergeInv(rows, listed, MergeNew(m)) /\ Left(MergeNew(m)) < Left(m)
<1> DEFINE h == Head(m.entries)
           here == [chapter |-> h, index_num |-> m.expected]
           n == MergeNew(m)
<1>1. /\ m.rows \in Seq(RowType) /\ m.entries \in Seq(Chapters) /\ m.listed \in Nat
      /\ m.expected \in Nat /\ m.updates \in Seq(RowType) /\ m.queue \in Seq(ItemType)
      /\ m.undefined = FALSE /\ m \in MergeType /\ Sorted(m)
  BY DEF MergeInv, MergeType
<1>2. /\ h \in Chapters /\ Tail(m.entries) \in Seq(Chapters)
      /\ Len(Tail(m.entries)) = Len(m.entries) - 1
      /\ Elements(m.entries) = {h} \cup Elements(Tail(m.entries))
  BY <1>1, TailFacts
<1>3. /\ Len(m.rows) \in Nat /\ Len(m.entries) \in Nat /\ LastIndex \in Int
      /\ m.expected + Len(m.rows) + Len(m.entries) <= LastIndex
  <2>1. m.expected + Len(m.rows) + Len(m.entries) <= LastIndex  BY DEF MergeInv
  <2> QED  BY <1>1, <2>1, NumbersAreInts
<1>4. here \in ItemType
  <2>1. Len(m.entries) # 0  BY <1>1
  <2>2. m.expected \in 0..LastIndex  BY <1>1, <1>3, <2>1
  <2> QED  BY <1>2, <2>2 DEF ItemType
<1>5. n = [rows |-> m.rows, entries |-> Tail(m.entries), listed |-> m.listed,
           expected |-> m.expected + 1, updates |-> m.updates,
           queue |-> Append(m.queue, here), undefined |-> FALSE]
  BY <1>1 DEF MergeNew, MergeType
<1> HIDE DEF n
<1>6. /\ n.rows = m.rows /\ n.entries = Tail(m.entries) /\ n.expected = m.expected + 1
      /\ n.updates = m.updates /\ n.queue = Append(m.queue, here) /\ n.undefined = FALSE
  BY <1>5
<1>7. Append(m.queue, here) \in Seq(ItemType) /\ Elements(n.queue) = Elements(m.queue) \cup {here}
  <2> HIDE DEF here
  <2> QED  BY <1>1, <1>4, <1>6, AppendFacts
<1>8. n \in MergeType  BY <1>1, <1>2, <1>5, <1>7 DEF MergeType
<1>9. Sorted(n)  BY <1>1, <1>6, TailsSorted DEF Sorted
<1>10. PutSoFar(rows, listed, n) \subseteq PutSoFar(rows, listed, m) \cup {here}
  <2> HIDE DEF here
  <2> QED  BY <1>6, <1>7 DEF PutSoFar, Places
<1>11. \A r \in Elements(n.rows) : h < r.seq_num
  <2> SUFFICES ASSUME NEW r \in Elements(m.rows) PROVE h < r.seq_num  BY <1>6
  <2>1. m.rows # << >>  BY DEF Elements
  <2>2. r \in RowType  BY <1>1, ElementsIn
  <2>3. Head(m.rows) \in RowType  BY <1>1, <2>1, TailFacts
  <2>4. Head(m.rows).seq_num <= r.seq_num  BY <1>1, <2>1, Heads
  <2>5. /\ r.seq_num \in Int /\ Head(m.rows).seq_num \in Int /\ h \in Int
    BY <1>2, <2>2, <2>3, NumbersAreInts
  <2> QED  BY <2>1, <2>4, <2>5
<1>12. /\ \A p \in PutSoFar(rows, listed, m) : p.chapter < h
       /\ \A c \in Elements(n.entries) : h < c
  BY <1>1, <1>2, <1>6, Heads DEF MergeInv, Before
<1>13. Ascending(PutSoFar(rows, listed, n)) /\ Before(PutSoFar(rows, listed, n), n)
  <2> HIDE DEF h
  <2> QED  BY <1>2, <1>6, <1>8, <1>10, <1>11, <1>12, PutOne
<1>14. \A r \in Elements(n.rows) : r.seq_num \in listed => r.seq_num \in Elements(n.entries)
  <2>1. \A r \in Elements(n.rows) : r.seq_num # h
    <3> HIDE DEF h
    <3> QED  BY <1>2, <1>11, NumbersAreInts
  <2> QED  BY <1>2, <1>6, <2>1 DEF MergeInv
<1>15. \A c \in listed : \/ c \in Elements(n.entries)
                         \/ \E r \in rows : r.seq_num = c
                         \/ \E q \in Elements(n.queue) : q.chapter = c
  <2>1. here \in Elements(n.queue) /\ here.chapter = h  BY <1>7
  <2> HIDE DEF here
  <2> QED  BY <1>2, <1>6, <1>7, <2>1 DEF MergeInv
<1>16. n.expected + Len(n.rows) + Len(n.entries) <= LastIndex /\ Left(n) < Left(m)
  <2> DEFINE a == Len(m.rows)
             b == Len(m.entries)
  <2>1. Len(n.rows) = a /\ Len(n.entries) = b - 1  BY <1>2, <1>6
  <2>2. /\ a \in Nat /\ b \in Nat /\ LastIndex \in Int /\ m.expected \in Nat
        /\ m.expected + a + b <= LastIndex /\ n.expected = m.expected + 1
    BY <1>1, <1>3, <1>6
  <2>3. Left(n) = Len(n.rows) + Len(n.entries) /\ Left(m) = a + b  BY DEF Left
  <2> HIDE DEF a, b
  <2> QED  BY <2>1, <2>2, <2>3
<1>17. Elements(n.rows) \subseteq rows /\ Elements(n.entries) \subseteq listed
  BY <1>2, <1>6 DEF MergeInv
<1>18. MergeInv(rows, listed, n)
  BY <1>6, <1>8, <1>9, <1>13, <1>14, <1>15, <1>16, <1>17 DEF MergeInv
<1> QED  BY <1>16, <1>18 DEF n

\* One of the three, until both queues are empty.
LEMMA StepKeepsMerge ==
  ASSUME NEW rows, rows \subseteq RowType, OneRowEach(rows), NEW listed, listed \subseteq Chapters,
         NEW m, MergeInv(rows, listed, m), ~MergeDone(m)
  PROVE  MergeInv(rows, listed, MergeStep(m)) /\ Left(MergeStep(m)) < Left(m)
<1>1. m.rows \in Seq(RowType) /\ m.entries \in Seq(Chapters)  BY DEF MergeInv, MergeType
<1>2. m.rows # << >> \/ m.entries # << >>  BY DEF MergeDone, MergeInv
<1>3. m.rows # << >> => /\ RowSeqNum(m) = Head(m.rows).seq_num
                        /\ Head(m.rows).seq_num \in Nat /\ Head(m.rows).seq_num < MaxSeqNum
  <2> SUFFICES ASSUME m.rows # << >>
               PROVE  /\ RowSeqNum(m) = Head(m.rows).seq_num
                      /\ Head(m.rows).seq_num \in Nat /\ Head(m.rows).seq_num < MaxSeqNum
    OBVIOUS
  <2>1. Head(m.rows) \in RowType  BY <1>1, TailFacts
  <2>2. Head(m.rows).seq_num \in Chapters  BY <2>1 DEF RowType
  <2>3. Head(m.rows).seq_num \in Nat /\ Head(m.rows).seq_num < MaxSeqNum
    BY <2>2, IndexAssumption
  <2> QED  BY <2>3 DEF RowSeqNum, AsSize
<1>4. m.entries # << >> => /\ IndexSeqNum(m) = Head(m.entries)
                           /\ Head(m.entries) \in Nat /\ Head(m.entries) < MaxSeqNum
  <2> SUFFICES ASSUME m.entries # << >>
               PROVE  /\ IndexSeqNum(m) = Head(m.entries)
                      /\ Head(m.entries) \in Nat /\ Head(m.entries) < MaxSeqNum
    OBVIOUS
  <2>1. Head(m.entries) \in Chapters  BY <1>1, TailFacts
  <2>2. Head(m.entries) \in Nat /\ Head(m.entries) < MaxSeqNum  BY <2>1, IndexAssumption
  <2> QED  BY <2>2 DEF IndexSeqNum
<1>5. /\ m.rows = << >> => RowSeqNum(m) = MaxSeqNum
      /\ m.entries = << >> => IndexSeqNum(m) = MaxSeqNum
      /\ MaxSeqNum \in Nat
  BY IndexAssumption DEF RowSeqNum, IndexSeqNum
<1>6. ~ReplacesRow(m)  BY <1>3, <1>5 DEF ReplacesRow
<1>7. CASE RowSeqNum(m) = IndexSeqNum(m)
  <2>1. m.rows # << >> /\ m.entries # << >>  BY <1>2, <1>3, <1>4, <1>5, <1>7
  <2>2. MergeStep(m) = MergeEqual(m)  BY <1>6, <1>7 DEF MergeStep
  <2> QED  BY <1>3, <1>4, <1>7, <2>1, <2>2, EqualKeeps
<1>8. CASE RowSeqNum(m) < IndexSeqNum(m)
  <2>1. m.rows # << >>  BY <1>3, <1>4, <1>5, <1>8
  <2>2. RowSeqNum(m) # IndexSeqNum(m)  BY <1>3, <1>4, <1>5, <1>8
  <2>3. MergeStep(m) = MergeGone(m)  BY <1>6, <1>8, <2>2 DEF MergeStep
  <2> QED  BY <1>3, <1>4, <1>8, <2>1, <2>3, GoneKeeps
<1>9. CASE ~(RowSeqNum(m) = IndexSeqNum(m)) /\ ~(RowSeqNum(m) < IndexSeqNum(m))
  <2>1. IndexSeqNum(m) < RowSeqNum(m)  BY <1>3, <1>4, <1>5, <1>9
  <2>2. m.entries # << >>  BY <1>3, <1>5, <2>1
  <2>3. MergeStep(m) = MergeNew(m)  BY <1>9 DEF MergeStep
  <2> QED  BY <1>3, <1>4, <2>1, <2>2, <2>3, NewKeeps
<1> QED  BY <1>7, <1>8, <1>9

\* What one turn of the loop makes of its state, the states being the members
\* of a set.
Turn(states) == {IF MergeDone(m) THEN m ELSE MergeStep(m) : m \in states}

Turns(f, start, k) == f = [n \in 0..k |-> IF n = 0 THEN {start} ELSE Turn(f[n - 1])]

\* The recursion of the loop defines a function.
LEMMA LoopExists ==
  ASSUME NEW start, NEW k \in Nat
  PROVE  \E f : Turns(f, start, k)
<1> DEFINE S == {n \in Nat : \E f : Turns(f, start, n)}
<1>1. 0 \in S
  <2> DEFINE f == [n \in 0..0 |-> {start}]
  <2>1. \A n \in 0..0 : f[n] = IF n = 0 THEN {start} ELSE Turn(f[n - 1])  OBVIOUS
  <2>2. f = [n \in 0..0 |-> f[n]]  OBVIOUS
  <2> HIDE DEF f
  <2>3. Turns(f, start, 0)  BY <2>1, <2>2 DEF Turns
  <2> QED  BY <2>3
<1>2. ASSUME NEW n \in Nat, n \in S  PROVE n + 1 \in S
  <2>1. PICK f : Turns(f, start, n)  BY <1>2
  <2> DEFINE g == [i \in 0..(n + 1) |-> IF i = n + 1 THEN Turn(f[n]) ELSE f[i]]
  <2>2. \A i \in 0..(n + 1) : g[i] = IF i = 0 THEN {start} ELSE Turn(g[i - 1])
    <3> TAKE i \in 0..(n + 1)
    <3>1. CASE i = n + 1  BY <3>1
    <3>2. CASE i # n + 1
      <4>1. i \in 0..n /\ (i = 0 \/ i - 1 \in 0..n) /\ i - 1 # n + 1  BY <3>2
      <4>2. g[i] = f[i] /\ (i = 0 \/ g[i - 1] = f[i - 1])  BY <4>1
      <4>3. f[i] = IF i = 0 THEN {start} ELSE Turn(f[i - 1])  BY <2>1, <4>1 DEF Turns
      <4> QED  BY <4>2, <4>3
    <3> QED  BY <3>1, <3>2
  <2>3. g = [i \in 0..(n + 1) |-> g[i]]  OBVIOUS
  <2> HIDE DEF g
  <2>4. Turns(g, start, n + 1)  BY <2>2, <2>3 DEF Turns
  <2> QED  BY <2>4
<1>3. Nat \subseteq S
  <2> HIDE DEF S
  <2> QED  BY <1>1, <1>2, Induction
<1> QED  BY <1>3

StartOf(rows, entries) ==
    [rows |-> rows, entries |-> entries, listed |-> Len(entries), expected |-> 0,
     updates |-> << >>, queue |-> << >>, undefined |-> FALSE]

\* The loop takes as many turns as it has rows and entries.
LEMMA MergesAreTurns ==
  ASSUME NEW rows, NEW entries, Len(rows) + Len(entries) \in Nat
  PROVE  \E f : /\ Turns(f, StartOf(rows, entries), Len(rows) + Len(entries))
                /\ Merges(rows, entries) = f[Len(rows) + Len(entries)]
<1> DEFINE k == Len(rows) + Len(entries)
           start == StartOf(rows, entries)
           after == CHOOSE f : f = [n \in 0..k |->
                      IF n = 0 THEN {start}
                      ELSE {IF MergeDone(m) THEN m ELSE MergeStep(m) : m \in f[n - 1]}]
<1>1. Merges(rows, entries) = after[k]  BY Zenon DEF Merges, StartOf
<1>2. after = CHOOSE f : Turns(f, start, k)  BY Zenon DEF Turns, Turn
<1> HIDE DEF after, start
<1>3. \E f : Turns(f, start, k)  BY LoopExists
<1>4. Turns(after, start, k)  BY <1>2, <1>3
<1> QED  BY <1>1, <1>4 DEF start

\* Nothing is left when it is 0.
LEMMA LeftFacts ==
  ASSUME NEW m \in MergeType
  PROVE  Left(m) \in Nat /\ (Left(m) = 0 => m.rows = << >> /\ m.entries = << >>)
<1>1. m.rows \in Seq(RowType) /\ m.entries \in Seq(Chapters)  BY DEF MergeType
<1> DEFINE a == Len(m.rows)
           b == Len(m.entries)
<1>2. a \in Nat /\ b \in Nat /\ (a = 0 => m.rows = << >>) /\ (b = 0 => m.entries = << >>)
  BY <1>1
<1>3. Left(m) = a + b  BY DEF Left
<1> HIDE DEF a, b
<1> QED  BY <1>2, <1>3

\* At first every row and every chapter is still to come.
LEMMA StartKeeps ==
  ASSUME NEW rows, rows \subseteq RowType, OneRowEach(rows), NEW listed, listed \subseteq Chapters,
         numbered, NEW p \in BySeqNum(rows), NEW q \in Entries(listed)
  PROVE  MergeInv(rows, listed, StartOf(p, q))
<1> DEFINE m == StartOf(p, q)
<1>1. /\ p \in Seq(rows) /\ Elements(p) = rows /\ Len(p) <= Cardinality(Chapters)
      /\ \A i, k \in DOMAIN p : i < k => p[i].seq_num < p[k].seq_num
  BY RowsAreSorted
<1>2. /\ q \in Seq(listed) /\ Elements(q) = listed /\ Len(q) <= Cardinality(Chapters)
      /\ \A i, k \in DOMAIN q : i < k => q[i] < q[k]
  BY EntriesAreSorted
<1>3. /\ m.rows = p /\ m.entries = q /\ m.expected = 0 /\ m.updates = << >> /\ m.queue = << >>
      /\ m.undefined = FALSE
  BY DEF StartOf
<1>4. Len(p) \in Nat /\ Len(q) \in Nat /\ p \in Seq(RowType) /\ q \in Seq(Chapters)
  BY <1>1, <1>2
<1>5. m \in MergeType  BY <1>4 DEF MergeType, StartOf
<1> HIDE DEF m
<1>6. m.expected + Len(m.rows) + Len(m.entries) <= LastIndex
  <2>1. Cardinality(Chapters) \in Nat  BY IndexAssumption, FS_CardinalityType
  <2> QED  BY <1>1, <1>2, <1>3, <1>4, <2>1 DEF LastIndex
<1>7. PutSoFar(rows, listed, m) = {}
  BY <1>1, <1>3 DEF PutSoFar, Places, Items, Settled, Elements
<1>8. /\ Sorted(m) /\ Elements(m.rows) = rows /\ Elements(m.entries) = listed
  BY <1>1, <1>2, <1>3 DEF Sorted
<1>9. Ascending({}) /\ Before({}, m)  BY DEF Ascending, Before
<1> QED  BY <1>3, <1>5, <1>6, <1>7, <1>8, <1>9 DEF MergeInv, m

\* What the loop ends with, for a source whose urls have numbers.
LEMMA MergeEnds ==
  ASSUME NEW rows, rows \subseteq RowType, OneRowEach(rows), NEW listed, listed \subseteq Chapters,
         numbered, NEW p \in BySeqNum(rows), NEW q \in Entries(listed), NEW m \in Merges(p, q)
  PROVE  MergeInv(rows, listed, m) /\ m.rows = << >> /\ m.entries = << >>
<1> DEFINE start == StartOf(p, q)
           k == Len(p) + Len(q)
<1>1. MergeInv(rows, listed, start)  BY StartKeeps
<1>2. k \in Nat /\ Left(start) = k
  <2>1. p \in Seq(rows) /\ q \in Seq(listed)  BY RowsAreSorted, EntriesAreSorted
  <2>2. start.rows = p /\ start.entries = q  BY DEF StartOf
  <2> QED  BY <2>1, <2>2 DEF Left
<1>3. PICK f : Turns(f, start, k) /\ Merges(p, q) = f[k]  BY <1>2, MergesAreTurns
<1> DEFINE Good(n) == \A x \in f[n] : MergeInv(rows, listed, x) /\ (MergeDone(x) \/ Left(x) + n <= k)
           S == {n \in Nat : n <= k => Good(n)}
<1> HIDE DEF start, k
<1>4. f[0] = {start} /\ \A n \in Nat : n + 1 <= k => f[n + 1] = Turn(f[n])
  <2>1. \A n \in 0..k : f[n] = IF n = 0 THEN {start} ELSE Turn(f[n - 1])  BY <1>3 DEF Turns
  <2>2. 0 \in 0..k  BY <1>2
  <2>3. ASSUME NEW n \in Nat, n + 1 <= k  PROVE f[n + 1] = Turn(f[n])
    <3>1. n + 1 \in 0..k /\ n + 1 # 0 /\ (n + 1) - 1 = n  BY <1>2, <2>3
    <3> QED  BY <2>1, <3>1
  <2> QED  BY <2>1, <2>2, <2>3
<1>5. 0 \in S  BY <1>1, <1>2, <1>4
<1>6. ASSUME NEW n \in Nat, n \in S  PROVE n + 1 \in S
  <2> SUFFICES ASSUME n + 1 <= k, NEW x \in f[n + 1]
               PROVE  MergeInv(rows, listed, x) /\ (MergeDone(x) \/ Left(x) + (n + 1) <= k)
    OBVIOUS
  <2>1. n <= k  BY <1>2
  <2>2. PICK y \in f[n] : x = IF MergeDone(y) THEN y ELSE MergeStep(y)  BY <1>4 DEF Turn
  <2>3. MergeInv(rows, listed, y) /\ (MergeDone(y) \/ Left(y) + n <= k)  BY <1>6, <2>1
  <2>4. CASE MergeDone(y)  BY <2>2, <2>3, <2>4
  <2>5. CASE ~MergeDone(y)
    <3>1. MergeInv(rows, listed, x) /\ Left(x) < Left(y)  BY <2>2, <2>3, <2>5, StepKeepsMerge
    <3>2. Left(x) \in Nat /\ Left(y) \in Nat  BY <2>3, <3>1, LeftFacts DEF MergeInv
    <3>3. Left(x) + (n + 1) <= k  BY <1>2, <2>3, <2>5, <3>1, <3>2
    <3> QED  BY <3>1, <3>3
  <2> QED  BY <2>4, <2>5
<1>7. Nat \subseteq S
  <2> HIDE DEF S
  <2> QED  BY <1>5, <1>6, Induction
<1>8. m \in f[k] /\ k \in S  BY <1>2, <1>3, <1>7
<1>9. MergeInv(rows, listed, m) /\ (MergeDone(m) \/ Left(m) + k <= k)  BY <1>2, <1>8
<1>10. m.rows \in Seq(RowType) /\ m.entries \in Seq(Chapters) /\ m.undefined = FALSE
  BY <1>9 DEF MergeInv, MergeType
<1>11. CASE MergeDone(m)  BY <1>9, <1>10, <1>11 DEF MergeDone
<1>12. CASE Left(m) + k <= k
  <2>1. m \in MergeType  BY <1>9 DEF MergeInv
  <2> HIDE DEF S, Good
  <2>2. Left(m) \in Nat  BY <2>1, LeftFacts
  <2>3. Left(m) = 0  BY <1>2, <1>12, <2>2
  <2> QED  BY <1>9, <2>1, <2>3, LeftFacts
<1> QED  BY <1>9, <1>11, <1>12

\* What it ends with for one without: the top of an empty queue.
LEMMA UnnumberedEnds ==
  ASSUME NEW listed, ~numbered, NEW p \in BySeqNum({}), NEW q \in Entries(listed),
         NEW m \in Merges(p, q)
  PROVE  m.undefined
<1> DEFINE start == StartOf(p, q)
<1>1. p = << >>
  <2>1. OneRowEach({})  BY DEF OneRowEach
  <2>2. p \in Seq({}) /\ Elements(p) = {}  BY <2>1, RowsAreSorted
  <2>3. DOMAIN p = {}  BY <2>2 DEF Elements
  <2>4. DOMAIN p = 1..Len(p) /\ Len(p) \in Nat  BY <2>2
  <2>5. Len(p) = 0  BY <2>3, <2>4
  <2> QED  BY <2>2, <2>5
<1>2. q = << MaxSeqNum >>  BY DEF Entries
<1>3. Len(p) + Len(q) = 1  BY <1>1, <1>2
<1>5. PICK f : Turns(f, start, 1) /\ Merges(p, q) = f[1]  BY <1>3, MergesAreTurns
<1>6. f[1] = Turn({start})
  <2>1. \A n \in 0..1 : f[n] = IF n = 0 THEN {start} ELSE Turn(f[n - 1])  BY <1>5 DEF Turns
  <2> HIDE DEF start
  <2> QED  BY <2>1
<1>7. start.rows = << >> /\ start.entries = q /\ start.undefined = FALSE  BY <1>1 DEF StartOf
<1>8. ~MergeDone(start)  BY <1>2, <1>7 DEF MergeDone
<1>9. MergeStep(start) = MergeEqual(start)
  <2>1. RowSeqNum(start) = MaxSeqNum /\ IndexSeqNum(start) = MaxSeqNum /\ ~ReplacesRow(start)
    BY <1>2, <1>7 DEF RowSeqNum, IndexSeqNum, ReplacesRow
  <2> QED  BY <2>1 DEF MergeStep
<1>10. MergeEqual(start).undefined = TRUE  BY <1>7 DEF MergeEqual, StartOf
<1>11. m = MergeStep(start)
  <2> HIDE DEF start
  <2> QED  BY <1>5, <1>6, <1>8 DEF Turn
<1> QED  BY <1>9, <1>10, <1>11

----------------------------------------------------------------------------
(* What the calls of the database do, exactly.                              *)

\* An int holds every index and every seq_num.
LEMMA AsIntKeeps ==
  ASSUME NEW n \in Nat, n < IntSpan \div 2
  PROVE  Adapter!DB!SQLite!AsInt(n) = n
<1>1. PICK H \in Int : H = IntSpan \div 2  BY IndexAssumption
<1>2. IntSpan = 2 * H /\ n < H  BY <1>1, IndexAssumption
<1>3. (n + H) % IntSpan = n + H
  <2>1. n + H \in 0..IntSpan - 1  BY <1>2
  <2>2. \A x \in 0..IntSpan - 1 : x % IntSpan = x  BY IndexAssumption
  <2> QED  BY <2>1, <2>2
<1>4. Adapter!DB!SQLite!AsInt(n) = ((n + H) % IntSpan) - H
  BY <1>1 DEF Adapter!DB!SQLite!AsInt
<1> QED  BY <1>1, <1>3, <1>4

\* So a row is written as it is.
LEMMA WrittenAsIs ==
  ASSUME NEW r \in RowType
  PROVE  /\ Adapter!DB!SQLite!AsInt(r.index_num) = r.index_num
         /\ Adapter!DB!SQLite!AsInt(r.seq_num) = r.seq_num
         /\ Adapter!DB!SQLite!Md5Row(r) = r
<1>1. r.index_num \in Nat /\ r.index_num <= LastIndex /\ r.seq_num \in Chapters
  BY NumbersAreInts DEF RowType
<1>2. LastIndex < IntSpan \div 2 /\ LastIndex \in Nat /\ IntSpan \div 2 \in Int
  BY IndexAssumption, NumbersAreInts DEF LastIndex
<1>3. r.index_num < IntSpan \div 2
  <2>1. PICK H \in Int : H = IntSpan \div 2  BY <1>2
  <2> QED  BY <1>1, <1>2, <2>1
<1>4. r.seq_num \in Nat /\ r.seq_num < IntSpan \div 2  BY <1>1, IndexAssumption
<1>5. /\ Adapter!DB!SQLite!AsInt(r.index_num) = r.index_num
      /\ Adapter!DB!SQLite!AsInt(r.seq_num) = r.seq_num
  BY <1>1, <1>3, <1>4, AsIntKeeps
<1>6. Adapter!DB!SQLite!Md5Row(r)
      = [r EXCEPT !.index_num = Adapter!DB!SQLite!AsInt(@),
                  !.seq_num = Adapter!DB!SQLite!AsInt(@)]
  BY DEF Adapter!DB!SQLite!Md5Row
<1>7. [r EXCEPT !.index_num = r.index_num, !.seq_num = r.seq_num] = r  BY DEF RowType
<1> QED  BY <1>5, <1>6, <1>7

\* The fields of a row make it up.
LEMMA SameFields ==
  ASSUME NEW r \in RowType, NEW s \in RowType, NEW column \in {"index_num", "seq_num"},
         r[column] = s[column]
  PROVE  Adapter!DB!SQLite!Assigned(r, s, DOMAIN s \ {"uuid", column}) = s
<1> DEFINE columns == DOMAIN s \ {"uuid", column}
           new == [c \in DOMAIN r |-> IF c \in columns THEN s[c] ELSE r[c]]
<1>1. DOMAIN r = DOMAIN s /\ r.uuid = s.uuid /\ s = [c \in DOMAIN s |-> s[c]]  BY DEF RowType
<1>2. \A c \in DOMAIN r : (IF c \in columns THEN s[c] ELSE r[c]) = s[c]  BY <1>1
<1>3. new = s
  <2> HIDE DEF columns
  <2> QED  BY <1>1, <1>2
<1> QED  BY <1>3 DEF Adapter!DB!SQLite!Assigned

\* The rows an update hits, what becomes of the rows, and when two of them
\* would have one key.
Hit(t, row, column) == {r \in t["md5_sum"] : r[column] = row[column]}
Written(t, row, column) ==
    {IF r \in Hit(t, row, column) THEN row ELSE r : r \in t["md5_sum"]}
Alike(t, row, column) ==
    \E r \in Hit(t, row, column) : \E s \in t["md5_sum"] \ {r} :
      s \in Hit(t, row, column) \/ s.md5_sum = row.md5_sum

\* An update by index or by number writes the row over those it hits, unless
\* two rows would then have one key.
LEMMA UpdateWrites ==
  ASSUME NEW t, TablesType(t), NEW row \in RowType, NEW column \in {"index_num", "seq_num"},
         NEW cond, Adapter!DB!SQLite!Where(t, "md5_sum", cond) = Hit(t, row, column)
  PROVE  LET outcome == Adapter!DB!SQLite!Update(t, "md5_sum", cond, row, DOMAIN row \ {"uuid", column})
         IN  IF Alike(t, row, column) THEN outcome.ret = -1 /\ outcome.tables = t
             ELSE /\ outcome.ret = 0
                  /\ outcome.tables = [t EXCEPT !["md5_sum"] = Written(t, row, column)]
<1> DEFINE columns == DOMAIN row \ {"uuid", column}
           outcome == Adapter!DB!SQLite!Update(t, "md5_sum", cond, row, columns)
           rows == t["md5_sum"]
           hit == {r \in rows : r[column] = row[column]}
           where == Adapter!DB!SQLite!Where(t, "md5_sum", cond)
           alike == \E r \in hit : \E s \in rows \ {r} : s \in hit \/ s.md5_sum = row.md5_sum
           put(r) == IF r \in hit THEN row ELSE r
           new(r) == IF r \in where THEN Adapter!DB!SQLite!Assigned(r, row, columns) ELSE r
           same(r, s) == Adapter!DB!SQLite!SameKey("md5_sum", r, s)
<1>0. where = hit  BY DEF Hit
<1>1. rows \subseteq RowType  BY DEF TablesType
<1>2. \A r \in rows : new(r) = put(r)
  <2> SUFFICES ASSUME NEW r \in rows PROVE new(r) = put(r)  OBVIOUS
  <2>1. CASE r \in hit
    <3>1. Adapter!DB!SQLite!Assigned(r, row, columns) = row
      <4>1. r \in RowType /\ r[column] = row[column]  BY <1>1, <2>1
      <4> HIDE DEF rows, hit
      <4> QED  BY <4>1, SameFields
    <3> HIDE DEF where, hit
    <3> QED  BY <1>0, <2>1, <3>1
  <2>2. CASE r \notin hit
    <3> HIDE DEF where, hit
    <3> QED  BY <1>0, <2>2
  <2> QED  BY <2>1, <2>2
<1>3. \A r, s \in RowType : same(r, s) <=> r.md5_sum = s.md5_sum
  BY DEF RowType, Adapter!DB!SQLite!SameKey, Adapter!DB!SQLite!PrimaryKey
<1>4. (\E r \in where : \E s \in rows \ {r} : same(new(r), new(s))) <=> alike
  <2>1. where = hit /\ \A r \in hit : put(r) = row  BY <1>0
  <2>2. \A s \in rows : put(s) = IF s \in hit THEN row ELSE s  OBVIOUS
  <2> HIDE DEF where, new, hit, put, same
  <2>3. hit \subseteq rows  BY DEF hit
  <2>4. \A r \in hit : \A s \in rows : same(new(r), new(s)) <=> (s \in hit \/ s.md5_sum = row.md5_sum)
    BY <1>1, <1>2, <1>3, <2>1, <2>2, <2>3
  <2> QED  BY <2>1, <2>3, <2>4
<1>5. outcome = IF \E r \in where : \E s \in rows \ {r} : same(new(r), new(s))
                THEN Adapter!DB!SQLite!Refused(t)
                ELSE Adapter!DB!SQLite!Done([t EXCEPT !["md5_sum"] = {new(r) : r \in rows}], {})
  BY DEF Adapter!DB!SQLite!Update
<1>6. {new(r) : r \in rows} = {put(r) : r \in rows}
  <2> HIDE DEF new, put, rows
  <2> QED  BY <1>2
<1> HIDE DEF new, same, where, outcome, alike
<1>7. IF alike THEN outcome.ret = -1 /\ outcome.tables = t
      ELSE outcome.ret = 0 /\ outcome.tables = [t EXCEPT !["md5_sum"] = {put(r) : r \in rows}]
  BY <1>4, <1>5, <1>6 DEF Adapter!DB!SQLite!Refused, Adapter!DB!SQLite!Done
<1>8. alike <=> Alike(t, row, column)  BY DEF alike, Alike, Hit
<1>9. {put(r) : r \in rows} = Written(t, row, column)  BY DEF Written, Hit
<1> HIDE DEF put
<1> QED  BY <1>7, <1>8, <1>9 DEF outcome

\* The tables with other rows.
LEMMA OtherRows ==
  ASSUME NEW t, TablesType(t), NEW rows, rows \subseteq RowType, OneRowEach(rows)
  PROVE  LET u == [t EXCEPT !["md5_sum"] = rows]
         IN  TablesType(u) /\ u["md5_sum"] = rows /\ u["error_entry"] = t["error_entry"]
  BY DEF TablesType

\* An update from the merge gives the row of its chapter another index.
LEMMA RenumberWrites ==
  ASSUME NEW t, TablesType(t), NEW md5 \in RowType
  PROVE  LET u == Adapter!UpdateMd5BySeqNum(t, md5).tables
         IN  /\ TablesType(u) /\ u["error_entry"] = t["error_entry"]
             /\ u["md5_sum"] = {IF r.seq_num = md5.seq_num THEN md5 ELSE r : r \in t["md5_sum"]}
<1> DEFINE rows == t["md5_sum"]
           cond == [uuid |-> md5.uuid, seq_num |-> Adapter!DB!SQLite!AsInt(md5.seq_num)]
           hit == Hit(t, md5, "seq_num")
           where == Adapter!DB!SQLite!Where(t, "md5_sum", cond)
           alike == Alike(t, md5, "seq_num")
           written == Written(t, md5, "seq_num")
           outcome == Adapter!DB!SQLite!Update(t, "md5_sum", cond, md5, DOMAIN md5 \ {"uuid", "seq_num"})
           u == Adapter!UpdateMd5BySeqNum(t, md5).tables
<1>1. rows \subseteq RowType /\ OneRowEach(rows)  BY DEF TablesType
<1>2. md5.uuid = Uuid /\ Uuid # NoUuid /\ md5.md5_sum = md5.seq_num
  BY IndexAssumption DEF RowType
<1>3. where = hit
  <2>1. \A r \in rows : r.uuid = Uuid  BY <1>1 DEF RowType
  <2>2. where = {r \in rows : r.uuid = md5.uuid /\ r.seq_num = md5.seq_num}
    BY WrittenAsIs DEF Adapter!DB!SQLite!Where
  <2> QED  BY <1>2, <2>1, <2>2 DEF Hit
<1>4. ~alike
  <2>1. \A r \in hit : \A s \in rows : (s \in hit \/ s.md5_sum = md5.md5_sum) => s = r
    BY <1>1, <1>2 DEF RowType, OneRowEach, Hit
  <2> QED  BY <2>1 DEF Alike, Hit
<1>5. u = IF where = {} THEN t ELSE outcome.tables
  <2>1. Adapter!DB!DoesMd5SumExistBySeqNum(t, md5.uuid, md5.seq_num).rows = where
    BY <1>2 DEF Adapter!DB!DoesMd5SumExistBySeqNum, Adapter!DB!SQLite!DoesMd5SumExistBySeqNum,
       Adapter!DB!SQLite!Exists, Adapter!DB!SQLite!Select, Adapter!DB!SQLite!Done
  <2>2. Adapter!DB!UpdateMd5SumBySeqNum(t, md5) = outcome
    BY <1>2, WrittenAsIs DEF Adapter!DB!UpdateMd5SumBySeqNum, Adapter!DB!OrRefused,
       Adapter!DB!SQLite!UpdateMd5SumBySeqNum, Adapter!DB!SQLite!AllButKey
  <2> HIDE DEF where, outcome
  <2> QED  BY <2>1, <2>2 DEF Adapter!UpdateMd5BySeqNum, Adapter!DB!SQLite!Refused
<1>6. outcome.tables = [t EXCEPT !["md5_sum"] = written]
  <2> HIDE DEF cond
  <2>1. IF alike THEN outcome.ret = -1 /\ outcome.tables = t
        ELSE outcome.ret = 0 /\ outcome.tables = [t EXCEPT !["md5_sum"] = written]
    BY <1>3, UpdateWrites
  <2> HIDE DEF outcome, alike, written
  <2> QED  BY <1>4, <2>1
<1>7. hit = {} => written = rows  BY DEF Written, Hit
<1>8. written \subseteq RowType /\ OneRowEach(written)
  <2>1. written \subseteq RowType  BY <1>1 DEF Written, Hit
  <2>2. \A r \in rows : (IF r \in hit THEN md5 ELSE r).seq_num = r.seq_num  BY DEF Hit
  <2> QED  BY <1>1, <2>1, <2>2 DEF OneRowEach, Written
<1>9. [t EXCEPT !["md5_sum"] = rows] = t  BY DEF TablesType
<1>10. u = [t EXCEPT !["md5_sum"] = written]  BY <1>3, <1>5, <1>6, <1>7, <1>9
<1>11. written = {IF r.seq_num = md5.seq_num THEN md5 ELSE r : r \in t["md5_sum"]}  BY DEF Written, Hit
<1> HIDE DEF written, u
<1>12. TablesType(u) /\ u["md5_sum"] = written /\ u["error_entry"] = t["error_entry"]
  BY <1>8, <1>10, OtherRows
<1> QED  BY <1>11, <1>12 DEF u

\* The row of a saved section.
Saved(c, i) ==
    [uuid |-> Uuid, md5_sum |-> c, index_num |-> i, date |-> 0, sec_id |-> c, seq_num |-> c,
     version_num |-> 0]

\* A section that is saved takes the place of the rows of its index, or is
\* refused and leaves them.
LEMMA UpsertWrites ==
  ASSUME NEW t, TablesType(t), NEW c \in Chapters, NEW i \in 0..LastIndex
  PROVE  LET outcome == Adapter!UpsertMd5ByIndexNum(t, Uuid, i, Section(c), 0)
             u == outcome.tables
         IN  /\ TablesType(u) /\ u["error_entry"] = t["error_entry"]
             /\ \/ outcome.ret # 0 /\ u = t
                \/ /\ outcome.ret = 0
                   /\ u["md5_sum"] = {r \in t["md5_sum"] : r.index_num # i} \cup {Saved(c, i)}
<1> DEFINE md5 == Adapter!Md5Of(Uuid, i, Section(c), 0)
           rows == t["md5_sum"]
           cond == [uuid |-> Uuid, index_num |-> Adapter!DB!SQLite!AsInt(i)]
           hit == Hit(t, md5, "index_num")
           where == Adapter!DB!SQLite!Where(t, "md5_sum", cond)
           alike == Alike(t, md5, "index_num")
           written == Written(t, md5, "index_num")
           taken == \E r \in rows : Adapter!DB!SQLite!SameKey("md5_sum", r, md5)
           update == Adapter!DB!SQLite!Update(t, "md5_sum", cond, md5, DOMAIN md5 \ {"uuid", "index_num"})
           outcome == Adapter!UpsertMd5ByIndexNum(t, Uuid, i, Section(c), 0)
           kept == {r \in rows : r.index_num # i} \cup {md5}
<1>1. rows \subseteq RowType /\ OneRowEach(rows)  BY DEF TablesType
<1>2. md5 = Saved(c, i)  BY DEF Adapter!Md5Of, Section, Saved
<1>3. /\ Saved(c, i) \in RowType /\ Saved(c, i).index_num = i /\ Saved(c, i).seq_num = c
      /\ Saved(c, i).md5_sum = c /\ Saved(c, i).uuid = Uuid
  BY DEF Saved, RowType
<1> HIDE DEF md5
<1>4. /\ md5 \in RowType /\ md5.index_num = i /\ md5.md5_sum = c /\ md5.seq_num = c
      /\ md5.uuid = Uuid /\ Uuid # NoUuid
  BY <1>2, <1>3, IndexAssumption
<1>5. where = hit
  <2>1. \A r \in rows : r.uuid = Uuid  BY <1>1 DEF RowType
  <2>2. Adapter!DB!SQLite!AsInt(i) = i  BY <1>4, WrittenAsIs
  <2>3. where = {r \in rows : r.uuid = Uuid /\ r.index_num = i}
    BY <2>2 DEF Adapter!DB!SQLite!Where
  <2> QED  BY <1>4, <2>1, <2>3 DEF Hit
<1>6. outcome = IF where # {} THEN update
                ELSE IF taken THEN Adapter!DB!SQLite!Refused(t)
                ELSE Adapter!DB!SQLite!Done([t EXCEPT !["md5_sum"] = @ \cup {md5}], {})
  <2>1. Adapter!DB!DoesMd5SumExistByIndexNum(t, Uuid, i).rows = where
    BY <1>4 DEF Adapter!DB!DoesMd5SumExistByIndexNum, Adapter!DB!SQLite!DoesMd5SumExistByIndexNum,
       Adapter!DB!SQLite!Exists, Adapter!DB!SQLite!Select, Adapter!DB!SQLite!Done
  <2>2. Adapter!DB!UpdateMd5SumByIndexNum(t, md5) = update
    <3>1. Adapter!DB!SQLite!Md5Row(md5) = md5  BY <1>4, WrittenAsIs
    <3> QED  BY <1>4, <3>1 DEF Adapter!DB!UpdateMd5SumByIndexNum, Adapter!DB!OrRefused,
       Adapter!DB!SQLite!UpdateMd5SumByIndexNum, Adapter!DB!SQLite!AllButKey
  <2>3. Adapter!DB!CreateMd5Sum(t, md5)
        = IF taken THEN Adapter!DB!SQLite!Refused(t)
          ELSE Adapter!DB!SQLite!Done([t EXCEPT !["md5_sum"] = @ \cup {md5}], {})
    <3>1. Adapter!DB!SQLite!Md5Row(md5) = md5  BY <1>4, WrittenAsIs
    <3> QED  BY <1>4, <3>1 DEF Adapter!DB!CreateMd5Sum, Adapter!DB!OrRefused,
       Adapter!DB!SQLite!CreateMd5Sum, Adapter!DB!SQLite!Insert
  <2>4. outcome = IF Adapter!DB!DoesMd5SumExistByIndexNum(t, Uuid, i).rows # {}
                  THEN Adapter!DB!UpdateMd5SumByIndexNum(t, md5)
                  ELSE Adapter!DB!CreateMd5Sum(t, md5)
    BY DEF Adapter!UpsertMd5ByIndexNum, md5
  <2> HIDE DEF where, update, taken, outcome
  <2> QED  BY <2>1, <2>2, <2>3, <2>4
<1>7. ASSUME \A r \in rows : r.index_num # i => r.md5_sum # c
      PROVE  kept \subseteq RowType /\ OneRowEach(kept)
  <2>1. \A r \in rows : r.md5_sum = r.seq_num  BY <1>1 DEF RowType
  <2> QED  BY <1>1, <1>4, <1>7, <2>1 DEF OneRowEach
<1>8. [t EXCEPT !["md5_sum"] = rows] = t  BY DEF TablesType
<1> SUFFICES /\ TablesType(outcome.tables) /\ outcome.tables["error_entry"] = t["error_entry"]
             /\ \/ outcome.ret # 0 /\ outcome.tables = t
                \/ outcome.ret = 0 /\ outcome.tables["md5_sum"] = kept
  BY <1>2
<1>9. ASSUME outcome.ret = 0, outcome.tables = [t EXCEPT !["md5_sum"] = kept],
             \A r \in rows : r.index_num # i => r.md5_sum # c
      PROVE  /\ TablesType(outcome.tables) /\ outcome.tables["error_entry"] = t["error_entry"]
             /\ outcome.tables["md5_sum"] = kept
  <2>1. kept \subseteq RowType /\ OneRowEach(kept)  BY <1>7, <1>9
  <2> HIDE DEF kept, outcome
  <2> QED  BY <1>9, <2>1, OtherRows
<1>10. CASE where # {}
  <2>1. IF alike THEN update.ret = -1 /\ update.tables = t
        ELSE update.ret = 0 /\ update.tables = [t EXCEPT !["md5_sum"] = written]
    <3> HIDE DEF cond
    <3> QED  BY <1>4, <1>5, UpdateWrites
  <2>2. outcome = update  BY <1>6, <1>10
  <2>3. CASE alike
    <3> HIDE DEF outcome, update, alike
    <3> QED  BY <2>1, <2>2, <2>3
  <2>4. CASE ~alike
    <3>1. PICK r0 \in hit : TRUE  BY <1>5, <1>10
    <3>2. written = kept
      <4>1. written \subseteq kept  BY <1>4 DEF Written, Hit
      <4>2. kept \subseteq written  BY <1>4, <3>1 DEF Written, Hit
      <4> QED  BY <4>1, <4>2
    <3>3. \A r \in rows : r.index_num # i => r.md5_sum # c  BY <1>4, <2>4, <3>1 DEF Alike, Hit
    <3> HIDE DEF outcome, update, alike, kept, written
    <3> QED  BY <1>9, <2>1, <2>2, <2>4, <3>2, <3>3
  <2> QED  BY <2>3, <2>4
<1>11. CASE where = {}
  <2>1. CASE taken
    <3> HIDE DEF where, taken
    <3>1. outcome = Adapter!DB!SQLite!Refused(t)  BY <1>6, <1>11, <2>1
    <3> HIDE DEF outcome
    <3> QED  BY <3>1 DEF Adapter!DB!SQLite!Refused
  <2>2. CASE ~taken
    <3>1. \A r \in rows : r.md5_sum # c
      <4>1. \A r \in rows : r.md5_sum = md5.md5_sum => Adapter!DB!SQLite!SameKey("md5_sum", r, md5)
        BY <1>1, <1>4 DEF RowType, Adapter!DB!SQLite!SameKey, Adapter!DB!SQLite!PrimaryKey
      <4> QED  BY <1>4, <2>2, <4>1
    <3>2. rows \cup {md5} = kept  BY <1>4, <1>5, <1>11 DEF Hit
    <3> HIDE DEF where, taken
    <3>3. outcome = Adapter!DB!SQLite!Done([t EXCEPT !["md5_sum"] = rows \cup {md5}], {})
      BY <1>6, <1>11, <2>2
    <3> HIDE DEF outcome, kept
    <3>4. outcome.ret = 0 /\ outcome.tables = [t EXCEPT !["md5_sum"] = kept]
      BY <3>2, <3>3 DEF Adapter!DB!SQLite!Done
    <3> QED  BY <1>9, <3>1, <3>4
  <2> QED  BY <2>1, <2>2
<1> QED  BY <1>10, <1>11

\* A section exists if its chapter has a row.
LEMMA VersionIsRow ==
  ASSUME NEW t, TablesType(t), NEW c \in Chapters
  PROVE  Adapter!CheckVersion(t, Section(c), Uuid) <=> HasRow(t, c)
<1>1. t["md5_sum"] \subseteq RowType /\ t["work_entry"] = {[uuid |-> Uuid]} /\ Uuid # NoUuid
  BY IndexAssumption DEF TablesType
<1>2. Adapter!DB!DoesWorkEntryUUIDExist(t, Uuid).rows # {}
  BY <1>1 DEF Adapter!DB!DoesWorkEntryUUIDExist, Adapter!DB!SQLite!DoesEntryUUIDExist,
     Adapter!DB!SQLite!Exists, Adapter!DB!SQLite!Select, Adapter!DB!SQLite!Done,
     Adapter!DB!SQLite!Where
<1>3. Adapter!CheckForMd5(t, c, Uuid) = {r \in t["md5_sum"] : r.uuid = Uuid /\ r.md5_sum = c}
  BY <1>1, <1>2 DEF Adapter!CheckForMd5, Adapter!OfKnownWork, Adapter!DB!GetMd5SumFromMd5Sum,
     Adapter!DB!OrNothing, Adapter!DB!SQLite!GetMd5SumFromMd5Sum, Adapter!DB!SQLite!Select,
     Adapter!DB!SQLite!Done, Adapter!DB!SQLite!Where
<1>4. Section(c).md5 = c /\ Section(c).date = 0  BY DEF Section
<1>5. \A r \in t["md5_sum"] : r.uuid = Uuid /\ r.date = 0 /\ r.md5_sum = r.seq_num
  BY <1>1 DEF RowType
<1> QED  BY <1>3, <1>4, <1>5 DEF Adapter!CheckVersion, HasRow

\* The rows of the work are all rows.
LEMMA AllRowsRead ==
  ASSUME NEW t, TablesType(t)
  PROVE  Adapter!ReadMd5s(t, Uuid) = t["md5_sum"]
<1>1. \A r \in t["md5_sum"] : r.uuid = Uuid  BY DEF TablesType, RowType
<1>2. Adapter!ReadMd5s(t, Uuid) = {r \in t["md5_sum"] : r.uuid = Uuid}
  BY DEF Adapter!ReadMd5s, Adapter!DB!GetMd5SumsFromUUID, Adapter!DB!SQLite!GetMd5SumsFromUUID,
     Adapter!DB!SQLite!Select, Adapter!DB!SQLite!Done, Adapter!DB!SQLite!Where
<1> QED  BY <1>1, <1>2

\* Error entries come and go without the rows.
LEMMA ErrorsKeepRows ==
  ASSUME NEW t, TablesType(t), NEW number \in Nat \ {0}
  PROVE  LET u == DB!CreateErrorEntry(t, [uuid |-> Uuid, progress_num |-> number]).tables
             v == DB!DeleteErrorEntry(t, Uuid, number).tables
         IN  /\ TablesType(u) /\ u["md5_sum"] = t["md5_sum"]
             /\ TablesType(v) /\ v["md5_sum"] = t["md5_sum"]
<1> DEFINE entry == [uuid |-> Uuid, progress_num |-> number]
           u == DB!CreateErrorEntry(t, entry).tables
           v == DB!DeleteErrorEntry(t, Uuid, number).tables
           more == [t EXCEPT !["error_entry"] = @ \cup {entry}]
<1>1. Uuid # NoUuid  BY IndexAssumption
<1>2. u = t \/ u = more
  BY <1>1 DEF DB!CreateErrorEntry, DB!OrRefused, DB!SQLite!CreateErrorEntry, DB!SQLite!Insert,
     DB!SQLite!Done, DB!SQLite!Refused
<1>3. PICK gone : v = [t EXCEPT !["error_entry"] = @ \ gone]
  BY <1>1 DEF DB!DeleteErrorEntry, DB!OrRefused, DB!SQLite!DeleteErrorEntry, DB!SQLite!Delete,
     DB!SQLite!Done
<1>4. entry \in ErrorType  BY DEF ErrorType
<1> HIDE DEF entry
<1>5. TablesType(more) /\ more["md5_sum"] = t["md5_sum"]  BY <1>4 DEF TablesType
<1> HIDE DEF u, v, more
<1>6. TablesType(u) /\ u["md5_sum"] = t["md5_sum"]  BY <1>2, <1>5
<1>7. TablesType(v) /\ v["md5_sum"] = t["md5_sum"]  BY <1>3 DEF TablesType
<1> QED  BY <1>6, <1>7 DEF u, v, entry

----------------------------------------------------------------------------
(* The steps.                                                               *)

LEMMA KindFacts ==
  /\ \A e \in Kinds : Other(e) \in Kinds /\ Other(e) # e /\ Other(Other(e)) = e
  /\ \A e, f \in Kinds : f = e \/ f = Other(e)
  BY DEF Kinds, Other

\* The first rows have the types, and numbers if none of them is old.
LEMMA FirstRows ==
  ASSUME NEW stored, stored \subseteq Chapters, NEW old, old \subseteq stored
  PROVE  LET rows == RowsOf(stored, old)
         IN  /\ rows \subseteq AnyRowType /\ IsFiniteSet(rows)
             /\ \A r, s \in rows : r.seq_num = s.seq_num => r = s \/ r.seq_num = NoNumber
             /\ IF old = {} THEN rows \subseteq RowType /\ OneRowEach(rows)
                ELSE \E r \in rows : r.seq_num = NoNumber
             /\ stored = {} => rows = {}
<1>1. ASSUME NEW c \in stored PROVE Cardinality({d \in stored : d < c}) \in 0..LastIndex
  <2> DEFINE below == {d \in stored : d < c}
  <2>1. below \subseteq Chapters  OBVIOUS
  <2> HIDE DEF below
  <2>2. /\ Cardinality(below) \in Nat /\ Cardinality(below) <= Cardinality(Chapters)
        /\ Cardinality(Chapters) \in Nat
    BY <2>1, IndexAssumption, FS_Subset, FS_CardinalityType
  <2>3. Cardinality(below) \in 0..LastIndex  BY <2>2 DEF LastIndex
  <2> QED  BY <2>3 DEF below
<1> DEFINE index(c) == Cardinality({d \in stored : d < c})
           number(c) == IF c \in old THEN NoNumber ELSE c
           row(c) == [uuid |-> Uuid, md5_sum |-> c, date |-> 0, sec_id |-> c,
                      seq_num |-> number(c), version_num |-> 0, index_num |-> index(c)]
           rows == {row(c) : c \in stored}
<1>2. RowsOf(stored, old) = rows  BY DEF RowsOf
<1>3. \A c \in stored : index(c) \in 0..LastIndex  BY <1>1
<1> HIDE DEF index
<1>4. \A c \in stored : /\ row(c) \in AnyRowType /\ row(c).seq_num = number(c)
                        /\ c \notin old => row(c) \in RowType
  BY <1>3 DEF AnyRowType, RowType
<1>5. IsFiniteSet(rows)
  <2> DEFINE f == [r \in rows |-> r.md5_sum]
  <2>1. \A c \in stored : row(c).md5_sum = c  OBVIOUS
  <2> HIDE DEF row
  <2>2. f \in Injection(rows, Chapters)  BY <2>1 DEF Injection, IsInjective
  <2>3. IsFiniteSet(Chapters)  BY IndexAssumption
  <2> HIDE DEF f, rows
  <2> QED  BY ONLY <2>2, <2>3, FS_Injection
<1> HIDE DEF row
<1>6. \A r, s \in rows : r.seq_num = s.seq_num => r = s \/ r.seq_num = NoNumber  BY <1>4
<1>7. old = {} => rows \subseteq RowType /\ OneRowEach(rows)
  BY <1>4 DEF OneRowEach
<1>8. old # {} => \E r \in rows : r.seq_num = NoNumber  BY <1>4
<1>9. rows \subseteq AnyRowType /\ (stored = {} => rows = {})  BY <1>4
<1> HIDE DEF rows
<1> QED  BY <1>2, <1>5, <1>6, <1>7, <1>8, <1>9

LEMMA InitInvariant == Init => IInv
<1> SUFFICES ASSUME Init PROVE IInv  OBVIOUS
<1>1. PICK stored \in (IF numbered THEN Libraries ELSE {{}}) : \E old \in SUBSET stored :
         tables = [work_entry |-> {[uuid |-> Uuid]}, md5_sum |-> RowsOf(stored, old),
                   error_entry |-> {[uuid |-> Uuid, progress_num |-> 1]}]
  BY DEF Init
<1>2. stored \subseteq Chapters /\ numbered \in BOOLEAN /\ (~numbered => stored = {})
  BY <1>1, IndexAssumption DEF Init
<1>3. PICK old \in SUBSET stored :
         tables = [work_entry |-> {[uuid |-> Uuid]}, md5_sum |-> RowsOf(stored, old),
                   error_entry |-> {[uuid |-> Uuid, progress_num |-> 1]}]
  BY <1>1
<1>4. Rows = RowsOf(stored, old) /\ Errors = {[uuid |-> Uuid, progress_num |-> 1]}
  BY <1>3 DEF Rows, Errors
<1>5. Errors \subseteq ErrorType  BY <1>4 DEF ErrorType
<1>6. /\ job = [e \in Kinds |-> NoJob] /\ undefined = FALSE /\ site \subseteq Chapters
      /\ \A e \in Kinds : job[e] = NoJob /\ ~Running(e)
      /\ \A e \in Kinds : JobOK(job[e]) /\ job[e].at \notin Looping
  BY DEF Init, Running, NoJob, JobOK, Looping
<1>7. CASE old = {}
  <2>1. Rows \subseteq RowType /\ OneRowEach(Rows) /\ (~numbered => Rows = {})
    BY <1>2, <1>4, <1>7, FirstRows
  <2>2. TablesType(tables)  BY <1>3, <1>5, <2>1 DEF TablesType, Rows, Errors
  <2>3. TypeInv  BY <1>2, <1>6, <2>2 DEF TypeInv
  <2>4. OnlyNumbered  BY <1>6, <2>1 DEF OnlyNumbered
  <2>5. AloneIs /\ MergedInv  BY <1>6 DEF AloneIs, MergedInv, Merging
  <2> QED  BY <2>3, <2>4, <2>5 DEF SoundInv, IInv
<1>8. CASE old # {}
  <2>1. /\ Rows \subseteq AnyRowType /\ IsFiniteSet(Rows) /\ HasOldRow
        /\ \A r, s \in Rows : r.seq_num = s.seq_num => r = s \/ r.seq_num = NoNumber
    BY <1>2, <1>4, <1>8, FirstRows DEF HasOldRow
  <2>2. numbered  BY <1>2, <1>8
  <2> QED  BY <1>5, <1>6, <2>1, <2>2 DEF OldInv, IInv
<1> QED  BY <1>7, <1>8

\* A step of job e that makes it j.
StepTo(e, j) ==
    /\ job' = [job EXCEPT ![e] = j] /\ JobOK(j)
    /\ TablesType(tables')
    /\ j.at \notin {"none", "error"} => j.alone = job[e].alone
    /\ ~numbered => tables'["md5_sum"] = {} /\ j.at \notin Looping
    /\ job[e].alone /\ j.at \in Looping => Merged(j, tables')
    /\ job[e].alone => \A c \in job[e].listed : HasRow(tables, c) => HasRow(tables', c)

\* What a step is shown to keep.
Kept == SoundInv' /\ \A e \in Kinds : Merging(e) =>
                   \A c \in job[e].listed : HasRow(tables, c) => HasRow(tables', c)

\* The other job is not alone, and so nothing is said of it.
LEMMA StepKeeps ==
  ASSUME SoundInv, NEW e \in Kinds, NEW j, Running(e), StepTo(e, j),
         UNCHANGED <<numbered, undefined, site>>
  PROVE  Kept
<1>1. /\ \A f \in Kinds : f = e \/ f = Other(e)
      /\ Other(e) \in Kinds /\ Other(e) # e /\ Other(Other(e)) = e
  BY KindFacts
<1>2. job' = [f \in Kinds |-> job'[f]] /\ job'[e] = j /\ job'[Other(e)] = job[Other(e)]
  BY <1>1 DEF StepTo, SoundInv, TypeInv
<1>3. ~Merging(Other(e))
  <2>1. Merging(Other(e)) => ~Running(Other(Other(e)))  BY <1>1 DEF SoundInv, AloneIs
  <2> QED  BY <1>1, <2>1
<1>4. TypeInv'
  <2>1. \A f \in Kinds : JobOK(job'[f])  BY <1>1, <1>2 DEF StepTo, SoundInv, TypeInv
  <2>2. TablesType(tables')  BY DEF StepTo
  <2>3. /\ numbered' = numbered /\ undefined' = undefined /\ site' = site
        /\ numbered \in BOOLEAN /\ undefined \in BOOLEAN /\ site \subseteq Chapters
    BY DEF SoundInv, TypeInv
  <2>4. \A f \in Kinds : JobOK(job[f])'  BY <2>1 DEF JobOK
  <2>5. TablesType(tables)'  BY <2>2 DEF TablesType
  <2> QED  BY <1>2, <2>3, <2>4, <2>5 DEF TypeInv
<1>5. OnlyNumbered'
  <2>1. numbered' = numbered /\ undefined' = undefined  OBVIOUS
  <2>2. /\ undefined => ~numbered
        /\ ~numbered => job[Other(e)].at \notin Looping
    BY <1>1 DEF SoundInv, OnlyNumbered
  <2>3. ~numbered => tables'["md5_sum"] = {} /\ j.at \notin Looping  BY DEF StepTo
  <2>4. ~numbered => \A f \in Kinds : job'[f].at \notin Looping  BY <1>1, <1>2, <2>2, <2>3
  <2> QED  BY <2>1, <2>2, <2>3, <2>4 DEF OnlyNumbered, Rows
<1>6. /\ Merging(Other(e))' = Merging(Other(e)) /\ Running(Other(e))' = Running(Other(e))
  <2>1. job'[Other(e)] = job[Other(e)]  BY <1>2
  <2> QED  BY <2>1 DEF Merging, Running, Other
<1>7. Merging(e)' => Merging(e)
  BY <1>2 DEF StepTo, Merging, Running
<1>8. AloneIs'
  <2>1. Merging(e)' => ~Running(Other(e))'  BY <1>6, <1>7 DEF SoundInv, AloneIs
  <2>2. ~Merging(Other(e))'  BY <1>3, <1>6
  <2>3. \A f \in Kinds : Merging(f)' => ~Running(Other(f))'  BY <1>1, <2>1, <2>2
  <2> QED  BY <2>3 DEF AloneIs
<1>9. MergedInv'
  <2>1. Merging(e)' /\ job'[e].at \in Looping => Merged(job'[e], tables')
    BY <1>2, <1>7 DEF StepTo, Merging
  <2>2. ~Merging(Other(e))'  BY <1>3, <1>6
  <2>3. \A f \in Kinds : Merging(f)' /\ job'[f].at \in Looping => Merged(job'[f], tables')
    BY <1>1, <2>1, <2>2
  <2> QED  BY <2>3 DEF MergedInv
<1>10. \A f \in Kinds : Merging(f) => \A c \in job[f].listed : HasRow(tables, c) => HasRow(tables', c)
  BY <1>1, <1>3 DEF StepTo, Merging
<1> QED  BY <1>4, <1>5, <1>8, <1>9, <1>10 DEF SoundInv, Kept

\* A job with another stage, count, queue, outcome and refusals.
With(p, at, left, queue, failed, refused) ==
    [p EXCEPT !.at = at, !.left = left, !.queue = queue, !.failed = failed, !.refused = refused]

LEMMA JobWith ==
  ASSUME NEW p \in JobType, NEW at \in Stages, NEW left \in Int, NEW queue \in Seq(ItemType),
         NEW failed \in BOOLEAN, NEW refused \in SUBSET Chapters
  PROVE  LET j == With(p, at, left, queue, failed, refused)
         IN  /\ j \in JobType /\ j.at = at /\ j.alone = p.alone /\ j.listed = p.listed
             /\ j.updates = p.updates /\ j.queue = queue /\ j.failed = failed
             /\ j.refused = refused
  BY DEF JobType, With

\* What is known of a job that runs.
LEMMA RunningJob ==
  ASSUME SoundInv, NEW e \in Kinds, Running(e)
  PROVE  /\ job[e] \in JobType /\ JobOK(job[e]) /\ job[e].at \notin {"none", "error"}
         /\ TablesType(tables) /\ Rows \subseteq RowType
         /\ job = [f \in Kinds |-> job[f]]
         /\ job[e].at \in Looping => numbered
         /\ job[e].alone /\ job[e].at \in Looping => Merged(job[e], tables)
<1>1. JobOK(job[e]) /\ TablesType(tables) /\ job = [f \in Kinds |-> job[f]]
  BY DEF SoundInv, TypeInv
<1>2. job[e].at \notin {"none", "error"}  BY DEF Running
<1>3. job[e] \in JobType  BY <1>1, <1>2 DEF JobOK, NoJob
<1>4. Rows \subseteq RowType  BY <1>1 DEF TablesType, Rows
<1>5. job[e].at \in Looping => numbered  BY DEF SoundInv, OnlyNumbered
<1>6. job[e].alone /\ job[e].at \in Looping => Merged(job[e], tables)
  BY DEF SoundInv, MergedInv, Merging
<1> QED  BY <1>1, <1>2, <1>3, <1>4, <1>5, <1>6

\* Less in the queue, the same rows.
LEMMA FewerPlaces ==
  ASSUME NEW t, NEW u, u["md5_sum"] = t["md5_sum"], NEW j, NEW k, MergedInOrder(t, j),
         k.listed = j.listed, k.updates = j.updates, Elements(k.queue) \subseteq Elements(j.queue)
  PROVE  MergedInOrder(u, k)
  BY DEF MergedInOrder, Ascending, Places

\* A step that leaves the rows alone, and drops no chapter that has none.
LEMMA QuietStep ==
  ASSUME SoundInv, NEW e \in Kinds, Running(e), NEW j, job' = [job EXCEPT ![e] = j], JobOK(j),
         TablesType(tables'), tables'["md5_sum"] = tables["md5_sum"],
         j.at \notin {"none", "error"} => j.alone = job[e].alone,
         j.at \in Looping => /\ job[e].at \in Looping
                             /\ j.listed = job[e].listed /\ j.updates = job[e].updates
                             /\ j.refused = job[e].refused
                             /\ Elements(j.queue) \subseteq Elements(job[e].queue)
                             /\ ~j.failed => /\ ~job[e].failed
                                             /\ \A q \in Elements(job[e].queue) :
                                                  q \in Elements(j.queue) \/ HasRow(tables, q.chapter),
         j.at = "save" => ~HasRow(tables, Head(j.queue).chapter)
  PROVE  StepTo(e, j)
<1>1. \A c : HasRow(tables', c) <=> HasRow(tables, c)  BY DEF HasRow
<1>2. ~numbered => tables'["md5_sum"] = {} /\ j.at \notin Looping
  BY RunningJob DEF SoundInv, OnlyNumbered, Rows
<1>3. ASSUME job[e].alone, j.at \in Looping PROVE Merged(j, tables')
  <2>1. Merged(job[e], tables)  BY <1>3, RunningJob
  <2>2. MergedInOrder(tables', j)  BY <1>3, <2>1, FewerPlaces DEF Merged
  <2>3. ~j.failed => PassedOver(tables', j) = {}
    <3> SUFFICES ASSUME ~j.failed, NEW c \in PassedOver(tables', j) PROVE FALSE  OBVIOUS
    <3>1. /\ c \in job[e].listed /\ ~HasRow(tables, c) /\ c \notin job[e].refused
          /\ \A q \in Elements(j.queue) : q.chapter # c
      BY <1>1, <1>3 DEF PassedOver
    <3>2. \A q \in Elements(job[e].queue) : q.chapter # c  BY <1>3, <3>1
    <3>3. c \in PassedOver(tables, job[e])  BY <3>1, <3>2 DEF PassedOver
    <3>4. PassedOver(tables, job[e]) = {}  BY <1>3, <2>1 DEF Merged
    <3> QED  BY <3>3, <3>4
  <2> QED  BY <1>1, <2>2, <2>3 DEF Merged
<1> QED  BY <1>1, <1>2, <1>3 DEF StepTo

\* The head of the queue.
LEMMA FirstFacts ==
  ASSUME SoundInv, NEW e \in Kinds, Running(e), job[e].queue # << >>
  PROVE  /\ First(e) \in ItemType /\ First(e) \in Elements(job[e].queue)
         /\ Tail(job[e].queue) \in Seq(ItemType)
         /\ Elements(job[e].queue) = {First(e)} \cup Elements(Tail(job[e].queue))
<1>1. job[e].queue \in Seq(ItemType)  BY RunningJob DEF JobType
<1> QED  BY <1>1, TailFacts DEF First

\* The report of a failure.
LEMMA FailedKeeps ==
  ASSUME SoundInv, NEW e \in Kinds, job[e].at \in {"loop", "save"}, job[e].queue # << >>,
         job[e].updates = << >>, Failed(e), UNCHANGED <<numbered, undefined, site>>
  PROVE  Kept
<1> DEFINE j == [job[e] EXCEPT !.at = "loop", !.left = job[e].left - 1]
<1>1. Running(e)  BY DEF Running
<1>2. job[e] \in JobType /\ TablesType(tables)  BY <1>1, RunningJob
<1>3. job' = [job EXCEPT ![e] = j]  BY DEF Failed
<1>4. /\ j \in JobType /\ j.at = "loop" /\ j.alone = job[e].alone /\ j.listed = job[e].listed
      /\ j.updates = job[e].updates /\ j.queue = job[e].queue /\ j.failed = job[e].failed
      /\ j.refused = job[e].refused
  <2> DEFINE p == job[e]
             k == With(p, "loop", p.left - 1, p.queue, p.failed, p.refused)
  <2>1. j = k  BY <1>2 DEF JobType, With
  <2>2. /\ "loop" \in Stages /\ p.left - 1 \in Int /\ p.queue \in Seq(ItemType)
        /\ p.failed \in BOOLEAN /\ p.refused \in SUBSET Chapters /\ p \in JobType
    BY <1>2 DEF JobType, Stages
  <2> HIDE DEF p, j
  <2>3. /\ k \in JobType /\ k.at = "loop" /\ k.alone = p.alone /\ k.listed = p.listed
        /\ k.updates = p.updates /\ k.queue = p.queue /\ k.failed = p.failed
        /\ k.refused = p.refused
    BY <2>2, JobWith
  <2> HIDE DEF k
  <2> QED  BY <2>1, <2>3 DEF p
<1> HIDE DEF j
<1>5. JobOK(j)  BY <1>4 DEF JobOK
<1>6. ProgressNum(e) \in Nat \ {0}
  <2>1. First(e) \in ItemType  BY <1>1, FirstFacts
  <2>2. First(e).index_num \in Nat  BY <2>1, NumbersAreInts
  <2> QED  BY <2>2 DEF ProgressNum
<1>7. TablesType(tables') /\ tables'["md5_sum"] = tables["md5_sum"]
  <2>1. \/ tables' = tables
        \/ tables' = DB!CreateErrorEntry(tables, [uuid |-> Uuid, progress_num |-> ProgressNum(e)]).tables
    BY DEF Failed
  <2> QED  BY <1>2, <1>6, <2>1, ErrorsKeepRows
<1>8. job[e].at \in Looping  BY DEF Looping
<1>9. StepTo(e, j)  BY <1>1, <1>3, <1>4, <1>5, <1>7, <1>8, QuietStep
<1> QED  BY <1>1, <1>9, StepKeeps

LEMMA FailsToFetchKeeps ==
  ASSUME SoundInv, NEW e \in Kinds, FailsToFetch(e)  PROVE Kept
  BY FailedKeeps DEF FailsToFetch, Parsing

LEMMA FailsToSaveKeeps ==
  ASSUME SoundInv, NEW e \in Kinds, FailsToSave(e)  PROVE Kept
<1>1. job[e].at = "save"  BY DEF FailsToSave
<1>2. Running(e)  BY <1>1 DEF Running
<1>3. job[e].queue # << >> /\ job[e].updates = << >>  BY <1>1, <1>2, RunningJob DEF JobOK, NoJob
<1> QED  BY <1>1, <1>3, FailedKeeps DEF FailsToSave

LEMMA KeepsKeeps ==
  ASSUME SoundInv, NEW e \in Kinds, Keeps(e)  PROVE Kept
<1> DEFINE j == Succeeded(e)
<1>1. /\ job[e].at = "loop" /\ job[e].updates = << >> /\ job[e].queue # << >>
      /\ job' = [job EXCEPT ![e] = j] /\ UNCHANGED <<numbered, tables, site, undefined>>
      /\ Adapter!CheckVersion(tables, Section(First(e).chapter), Uuid)
  BY DEF Keeps, Parsing
<1>2. Running(e)  BY <1>1 DEF Running
<1>3. job[e] \in JobType /\ TablesType(tables)  BY <1>2, RunningJob
<1>4. /\ First(e) \in ItemType /\ Tail(job[e].queue) \in Seq(ItemType)
      /\ Elements(job[e].queue) = {First(e)} \cup Elements(Tail(job[e].queue))
  BY <1>1, <1>2, FirstFacts
<1>5. /\ j \in JobType /\ j.at = "loop" /\ j.alone = job[e].alone /\ j.listed = job[e].listed
      /\ j.updates = job[e].updates /\ j.queue = Tail(job[e].queue) /\ j.failed = job[e].failed
      /\ j.refused = job[e].refused
  <2> DEFINE p == job[e]
             q == Tail(p.queue)
             f == p.failed
             k == With(p, "loop", Attempts, q, f, p.refused)
  <2>1. j = k  BY <1>3 DEF JobType, Succeeded, With
  <2>2. /\ "loop" \in Stages /\ Attempts \in Int /\ q \in Seq(ItemType)
        /\ f \in BOOLEAN /\ p.refused \in SUBSET Chapters /\ p \in JobType
    BY <1>3, <1>4, IndexAssumption DEF JobType, Stages
  <2> HIDE DEF p, j, q, f
  <2>3. /\ k \in JobType /\ k.at = "loop" /\ k.alone = p.alone /\ k.listed = p.listed
        /\ k.updates = p.updates /\ k.queue = q /\ k.failed = f
        /\ k.refused = p.refused
    BY <2>2, JobWith
  <2> HIDE DEF k
  <2> QED  BY <2>1, <2>3 DEF p, q, f
<1> HIDE DEF j
<1>6. JobOK(j)  BY <1>5 DEF JobOK
<1>7. HasRow(tables, First(e).chapter)  BY <1>1, <1>3, <1>4, VersionIsRow DEF ItemType
<1>8. TablesType(tables') /\ tables'["md5_sum"] = tables["md5_sum"]  BY <1>1, <1>3
<1>9. job[e].at \in Looping  BY <1>1 DEF Looping
<1>10. \A q \in Elements(job[e].queue) : q \in Elements(j.queue) \/ HasRow(tables, q.chapter)
  BY <1>4, <1>5, <1>7
<1>11. Elements(j.queue) \subseteq Elements(job[e].queue)  BY <1>4, <1>5
<1>12. StepTo(e, j)
  BY <1>1, <1>2, <1>5, <1>6, <1>8, <1>9, <1>10, <1>11, QuietStep
<1> QED  BY <1>1, <1>2, <1>12, StepKeeps

LEMMA FetchesKeeps ==
  ASSUME SoundInv, NEW e \in Kinds, Fetches(e)  PROVE Kept
<1> DEFINE j == [job[e] EXCEPT !.at = "save"]
<1>1. /\ job[e].at = "loop" /\ job[e].updates = << >> /\ job[e].queue # << >>
      /\ job' = [job EXCEPT ![e] = j] /\ UNCHANGED <<numbered, tables, site, undefined>>
      /\ ~Adapter!CheckVersion(tables, Section(First(e).chapter), Uuid)
  BY DEF Fetches, Parsing
<1>2. Running(e)  BY <1>1 DEF Running
<1>3. job[e] \in JobType /\ TablesType(tables)  BY <1>2, RunningJob
<1>4. First(e) \in ItemType  BY <1>1, <1>2, FirstFacts
<1>5. /\ j \in JobType /\ j.at = "save" /\ j.alone = job[e].alone /\ j.listed = job[e].listed
      /\ j.updates = job[e].updates /\ j.queue = job[e].queue /\ j.failed = job[e].failed
      /\ j.refused = job[e].refused
  BY <1>3 DEF JobType, Stages
<1> HIDE DEF j
<1>6. JobOK(j)  BY <1>1, <1>5 DEF JobOK
<1>7. ~HasRow(tables, Head(j.queue).chapter)
  BY <1>1, <1>3, <1>4, <1>5, VersionIsRow DEF ItemType, First
<1>8. TablesType(tables') /\ tables'["md5_sum"] = tables["md5_sum"]  BY <1>1, <1>3
<1>9. job[e].at \in Looping  BY <1>1 DEF Looping
<1>10. StepTo(e, j)  BY <1>1, <1>2, <1>5, <1>6, <1>7, <1>8, <1>9, QuietStep
<1> QED  BY <1>1, <1>2, <1>10, StepKeeps

LEMMA ExpendedAttemptsKeeps ==
  ASSUME SoundInv, NEW e \in Kinds, ExpendedAttempts(e)  PROVE Kept
<1> DEFINE j == [job[e] EXCEPT !.queue = << >>, !.left = Attempts, !.failed = TRUE]
<1>1. /\ job[e].at = "loop" /\ job' = [job EXCEPT ![e] = j]
      /\ UNCHANGED <<numbered, tables, site, undefined>>
  BY DEF ExpendedAttempts
<1>2. Running(e)  BY <1>1 DEF Running
<1>3. job[e] \in JobType /\ TablesType(tables)  BY <1>2, RunningJob
<1>4. /\ j \in JobType /\ j.at = "loop" /\ j.alone = job[e].alone /\ j.listed = job[e].listed
      /\ j.updates = job[e].updates /\ j.queue = << >> /\ j.failed = TRUE
      /\ j.refused = job[e].refused
  <2> DEFINE p == job[e]
             q == << >>
             f == TRUE
             k == With(p, "loop", Attempts, q, f, p.refused)
  <2>1. j = k  BY <1>1, <1>3 DEF JobType, With
  <2>2. /\ "loop" \in Stages /\ Attempts \in Int /\ q \in Seq(ItemType)
        /\ f \in BOOLEAN /\ p.refused \in SUBSET Chapters /\ p \in JobType
    BY <1>3, IndexAssumption DEF JobType, Stages
  <2> HIDE DEF p, j, q, f
  <2>3. /\ k \in JobType /\ k.at = "loop" /\ k.alone = p.alone /\ k.listed = p.listed
        /\ k.updates = p.updates /\ k.queue = q /\ k.failed = f
        /\ k.refused = p.refused
    BY <2>2, JobWith
  <2> HIDE DEF k
  <2> QED  BY <2>1, <2>3 DEF p, q, f
<1> HIDE DEF j
<1>5. JobOK(j)  BY <1>4 DEF JobOK
<1>6. TablesType(tables') /\ tables'["md5_sum"] = tables["md5_sum"]  BY <1>1, <1>3
<1>7. job[e].at \in Looping  BY <1>1 DEF Looping
<1>8. Elements(j.queue) = {}  BY <1>4 DEF Elements
<1>9. StepTo(e, j)  BY <1>1, <1>2, <1>4, <1>5, <1>6, <1>7, <1>8, QuietStep
<1> QED  BY <1>1, <1>2, <1>9, StepKeeps

LEMMA EndLoopKeeps ==
  ASSUME SoundInv, NEW e \in Kinds, EndLoop(e)  PROVE Kept
<1> DEFINE j == [job[e] EXCEPT !.at = "result"]
<1>1. /\ job[e].at = "loop" /\ job[e].updates = << >> /\ job' = [job EXCEPT ![e] = j]
      /\ UNCHANGED <<numbered, tables, site, undefined>>
  BY DEF EndLoop
<1>2. Running(e)  BY <1>1 DEF Running
<1>3. job[e] \in JobType /\ TablesType(tables)  BY <1>2, RunningJob
<1>4. /\ j \in JobType /\ j.at = "result" /\ j.alone = job[e].alone /\ j.listed = job[e].listed
      /\ j.updates = job[e].updates /\ j.queue = job[e].queue /\ j.failed = job[e].failed
      /\ j.refused = job[e].refused
  BY <1>3 DEF JobType, Stages
<1> HIDE DEF j
<1>5. JobOK(j)  BY <1>1, <1>4 DEF JobOK
<1>6. TablesType(tables') /\ tables'["md5_sum"] = tables["md5_sum"]  BY <1>1, <1>3
<1>7. job[e].at \in Looping  BY <1>1 DEF Looping
<1>8. StepTo(e, j)  BY <1>1, <1>2, <1>4, <1>5, <1>6, <1>7, QuietStep
<1> QED  BY <1>1, <1>2, <1>8, StepKeeps

LEMMA RecordKeeps ==
  ASSUME SoundInv, NEW e \in Kinds, Record(e)  PROVE Kept
<1>1. /\ job[e].at = "result" /\ job' = [job EXCEPT ![e] = NoJob]
      /\ UNCHANGED <<numbered, site, undefined>>
      /\ \/ tables' = tables
         \/ tables' = DB!DeleteErrorEntry(tables, Uuid, job[e].number).tables
  BY DEF Record
<1>2. Running(e)  BY <1>1 DEF Running
<1>3. job[e] \in JobType /\ TablesType(tables)  BY <1>2, RunningJob
<1>4. job[e].number \in Nat \ {0}  BY <1>3 DEF JobType
<1>5. TablesType(tables') /\ tables'["md5_sum"] = tables["md5_sum"]
  BY <1>1, <1>3, <1>4, ErrorsKeepRows
<1>6. JobOK(NoJob) /\ NoJob.at = "none"  BY DEF JobOK, NoJob
<1>7. NoJob.at \notin Looping  BY DEF Looping, NoJob
<1>8. StepTo(e, NoJob)  BY <1>1, <1>2, <1>5, <1>6, <1>7, QuietStep
<1> QED  BY <1>1, <1>2, <1>8, StepKeeps

\* A section that is saved was in the queue with its index; it is written over
\* no row of a listed chapter, as no other chapter has that index.
LEMMA SavesKeeps ==
  ASSUME SoundInv, NEW e \in Kinds, Saves(e)  PROVE Kept
<1> DEFINE p == job[e]
           c == First(e).chapter
           i == First(e).index_num
           outcome == Adapter!UpsertMd5ByIndexNum(tables, Uuid, i, Section(c), 0)
           refused == IF outcome.ret = 0 THEN p.refused ELSE p.refused \cup {c}
           queue == Tail(p.queue)
           j == With(p, "loop", Attempts, queue, p.failed, refused)
           u == outcome.tables
<1>1. /\ job[e].at = "save" /\ tables' = u /\ UNCHANGED <<numbered, site, undefined>>
      /\ job' = [job EXCEPT ![e] = [Succeeded(e) EXCEPT !.refused = refused]]
  BY DEF Saves
<1>2. Running(e) /\ job[e].at \in Looping  BY <1>1 DEF Running, Looping
<1>3. /\ p \in JobType /\ TablesType(tables) /\ Rows \subseteq RowType /\ JobOK(p) /\ numbered
      /\ p.alone => Merged(p, tables)
  BY <1>2, RunningJob
<1>4. p.queue # << >> /\ p.updates = << >>  BY <1>1, <1>3 DEF JobOK, NoJob
<1>5. /\ First(e) \in ItemType /\ queue \in Seq(ItemType) /\ First(e) \in Elements(p.queue)
      /\ Elements(p.queue) = {First(e)} \cup Elements(queue)
  BY <1>2, <1>4, FirstFacts
<1>6. c \in Chapters /\ i \in 0..LastIndex  BY <1>5 DEF ItemType
<1>7. /\ TablesType(u)
      /\ \/ outcome.ret # 0 /\ u = tables
         \/ /\ outcome.ret = 0
            /\ u["md5_sum"] = {r \in Rows : r.index_num # i} \cup {Saved(c, i)}
  <2> HIDE DEF c, i
  <2> QED  BY <1>3, <1>6, UpsertWrites DEF Rows
<1>8. job' = [job EXCEPT ![e] = j]  BY <1>1, <1>3 DEF JobType, Succeeded, With
<1>9. /\ j \in JobType /\ j.at = "loop" /\ j.alone = p.alone /\ j.listed = p.listed
      /\ j.updates = p.updates /\ j.queue = queue /\ j.failed = p.failed /\ j.refused = refused
  <2>1. /\ "loop" \in Stages /\ Attempts \in Int /\ p.failed \in BOOLEAN
        /\ refused \in SUBSET Chapters
    BY <1>3, <1>6, IndexAssumption DEF JobType, Stages
  <2> HIDE DEF p, queue, refused
  <2> QED  BY <1>3, <1>5, <2>1, JobWith
<1>10. JobOK(j)
  <2> HIDE DEF j
  <2> QED  BY <1>9 DEF JobOK
<1>11. First(e) = [chapter |-> c, index_num |-> i]  BY <1>5 DEF ItemType
<1>12. Saved(c, i).seq_num = c /\ Saved(c, i).index_num = i  BY DEF Saved
<1> HIDE DEF j, u, outcome, c, i, queue, p, refused
<1>13. ASSUME p.alone
       PROVE  /\ \A d \in p.listed : HasRow(tables, d) => HasRow(u, d)
              /\ Merged(j, u)
  <2>1. /\ MergedInOrder(tables, p) /\ ~HasRow(tables, c)
        /\ ~p.failed => PassedOver(tables, p) = {}
    <3>1. p.at = "save" /\ c = Head(p.queue).chapter  BY <1>1 DEF p, c, First
    <3> QED  BY <1>3, <1>13, <3>1 DEF Merged
  <2>2. Places(Rows, p.listed, << >>, p.queue)
        = Items({r \in Rows : r.seq_num \in p.listed}) \cup Elements(p.queue)
    BY DEF Places, Settled, Elements, Items
  <2>3. Ascending(Items({r \in Rows : r.seq_num \in p.listed}) \cup Elements(p.queue))
    BY <1>4, <2>1, <2>2 DEF MergedInOrder, Rows, p
  <2>4. ASSUME NEW r \in Rows, r.seq_num \in p.listed  PROVE r.index_num # i
    <3> DEFINE place == [chapter |-> r.seq_num, index_num |-> r.index_num]
    <3>1. place \in Items({s \in Rows : s.seq_num \in p.listed})  BY <2>4 DEF Items
    <3>2. r.seq_num # c  BY <2>1 DEF HasRow, Rows
    <3>3. /\ place.chapter = r.seq_num /\ place.index_num = r.index_num
          /\ First(e).chapter = c /\ First(e).index_num = i /\ First(e) \in Elements(p.queue)
      BY <1>5, <1>11 DEF p
    <3>4. /\ r.seq_num \in Int /\ r.index_num \in Int /\ c \in Int /\ i \in Int
      BY <1>3, <1>6, NumbersAreInts
    <3> HIDE DEF place
    <3>5. /\ r.seq_num < c => r.index_num < i
          /\ c < r.seq_num => i < r.index_num
      BY <2>3, <3>1, <3>3 DEF Ascending
    <3> QED  BY <3>2, <3>4, <3>5
  <2>5. \A d \in p.listed : HasRow(tables, d) => HasRow(u, d)
    BY <1>7, <2>4 DEF HasRow, Rows
  <2>6. MergedInOrder(u, j)
    <3>1. CASE u = tables
      <4>1. Elements(queue) \subseteq Elements(p.queue)  BY <1>5 DEF p
      <4> QED  BY <1>9, <2>1, <3>1, <4>1, FewerPlaces
    <3>2. CASE u["md5_sum"] = {r \in Rows : r.index_num # i} \cup {Saved(c, i)}
      <4>1. Places(u["md5_sum"], p.listed, << >>, queue)
            = Items({r \in u["md5_sum"] : r.seq_num \in p.listed}) \cup Elements(queue)
        BY DEF Places, Settled, Elements, Items
      <4>2. Items({r \in u["md5_sum"] : r.seq_num \in p.listed})
            \subseteq Items({r \in Rows : r.seq_num \in p.listed}) \cup {First(e)}
        BY <1>11, <1>12, <3>2 DEF Items
      <4>3. Places(u["md5_sum"], p.listed, << >>, queue)
            \subseteq Items({r \in Rows : r.seq_num \in p.listed}) \cup Elements(p.queue)
        BY <1>5, <4>1, <4>2 DEF p
      <4>4. Ascending(Places(u["md5_sum"], p.listed, << >>, queue))
        BY <2>3, <4>3 DEF Ascending
      <4>5. j.listed = p.listed /\ j.updates = << >> /\ j.queue = queue  BY <1>4, <1>9 DEF p
      <4> QED  BY <4>4, <4>5 DEF MergedInOrder
    <3> QED  BY <1>7, <3>1, <3>2
  <2>7. ASSUME ~j.failed, NEW d \in PassedOver(u, j)  PROVE FALSE
    <3>1. /\ d \in p.listed /\ ~HasRow(u, d) /\ d \notin refused /\ ~p.failed
          /\ \A q \in Elements(queue) : q.chapter # d
      BY <1>9, <2>7 DEF PassedOver
    <3>2. ~HasRow(tables, d)  BY <2>5, <3>1
    <3>3. d # c
      <4>1. CASE outcome.ret = 0
        <5>1. Saved(c, i) \in u["md5_sum"]  BY <1>7, <4>1
        <5> QED  BY <1>12, <3>1, <5>1 DEF HasRow
      <4>2. CASE outcome.ret # 0  BY <3>1, <4>2 DEF refused
      <4> QED  BY <4>1, <4>2
    <3>4. \A q \in Elements(p.queue) : q.chapter # d  BY <1>5, <1>11, <3>1, <3>3 DEF p
    <3>5. d \notin p.refused  BY <3>1 DEF refused
    <3>6. d \in PassedOver(tables, p)  BY <3>1, <3>2, <3>4, <3>5 DEF PassedOver
    <3> QED  BY <2>1, <3>1, <3>6
  <2> QED  BY <1>9, <2>5, <2>6, <2>7 DEF Merged
<1>14. StepTo(e, j)
  <2>1. /\ job' = [job EXCEPT ![e] = j] /\ JobOK(j) /\ TablesType(tables')
    BY <1>1, <1>7, <1>8, <1>10
  <2>2. j.alone = job[e].alone  BY <1>9 DEF p
  <2>3. job[e].alone => /\ \A d \in job[e].listed : HasRow(tables, d) => HasRow(tables', d)
                        /\ Merged(j, tables')
    BY <1>1, <1>13 DEF p
  <2> QED  BY <1>3, <2>1, <2>2, <2>3 DEF StepTo
<1> QED  BY <1>1, <1>2, <1>14, StepKeeps

\* An update of the merge puts a row at the place it has been promised.
LEMMA RenumberKeeps ==
  ASSUME SoundInv, NEW e \in Kinds, Renumber(e)  PROVE Kept
<1> DEFINE p == job[e]
           md5 == Head(p.updates)
           updates == Tail(p.updates)
           j == [p EXCEPT !.updates = updates]
           u == Adapter!UpdateMd5BySeqNum(tables, md5).tables
<1>1. /\ p.at = "loop" /\ p.updates # << >> /\ tables' = u
      /\ job' = [job EXCEPT ![e] = j] /\ UNCHANGED <<numbered, site, undefined>>
  BY DEF Renumber
<1>2. Running(e) /\ p.at \in Looping  BY <1>1 DEF Running, Looping
<1>3. /\ p \in JobType /\ TablesType(tables) /\ Rows \subseteq RowType /\ JobOK(p) /\ numbered
      /\ p.alone => Merged(p, tables)
  BY <1>2, RunningJob
<1>4. p.updates \in Seq(RowType)  BY <1>3 DEF JobType
<1>5. /\ md5 \in RowType /\ updates \in Seq(RowType)
      /\ Elements(p.updates) = {md5} \cup Elements(updates)
  BY <1>1, <1>4, TailFacts
<1>6. /\ TablesType(u)
      /\ u["md5_sum"] = {IF r.seq_num = md5.seq_num THEN md5 ELSE r : r \in Rows}
  <2> HIDE DEF md5
  <2> QED  BY <1>3, <1>5, RenumberWrites DEF Rows
<1>7. /\ j \in JobType /\ j.at = "loop" /\ j.alone = p.alone /\ j.listed = p.listed
      /\ j.updates = updates /\ j.queue = p.queue /\ j.failed = p.failed
      /\ j.refused = p.refused
  <2> HIDE DEF updates
  <2> QED  BY <1>1, <1>3, <1>5 DEF JobType
<1>8. JobOK(j)
  <2> HIDE DEF j
  <2> QED  BY <1>7 DEF JobOK
<1> HIDE DEF j, u, md5, updates, p
<1>9. \A d : HasRow(tables, d) <=> HasRow(u, d)
  <2>1. \A r \in Rows : (IF r.seq_num = md5.seq_num THEN md5 ELSE r).seq_num = r.seq_num
    OBVIOUS
  <2> QED  BY <1>6, <2>1 DEF HasRow, Rows
<1>10. ASSUME p.alone PROVE Merged(j, u)
  <2>1. MergedInOrder(tables, p) /\ (~p.failed => PassedOver(tables, p) = {})
    BY <1>3, <1>10 DEF Merged
  <2>2. Settled(u["md5_sum"], p.listed, updates)
        \subseteq Settled(Rows, p.listed, p.updates) \cup {md5}
    BY <1>5, <1>6 DEF Settled
  <2>3. Places(u["md5_sum"], p.listed, updates, p.queue)
        \subseteq Places(Rows, p.listed, p.updates, p.queue)
    BY <1>5, <2>2 DEF Places, Items
  <2>4. MergedInOrder(u, j)  BY <1>7, <2>1, <2>3 DEF MergedInOrder, Ascending, Rows
  <2>5. PassedOver(u, j) = PassedOver(tables, p)  BY <1>7, <1>9 DEF PassedOver
  <2> QED  BY <1>7, <2>1, <2>4, <2>5 DEF Merged
<1>11. StepTo(e, j)
  <2>1. /\ job' = [job EXCEPT ![e] = j] /\ JobOK(j) /\ TablesType(tables')
    BY <1>1, <1>6, <1>8
  <2>2. j.alone = job[e].alone  BY <1>7 DEF p
  <2>3. job[e].alone => /\ \A d \in job[e].listed : HasRow(tables, d) => HasRow(tables', d)
                        /\ Merged(j, tables')
    BY <1>1, <1>9, <1>10 DEF p
  <2> QED  BY <1>3, <2>1, <2>2, <2>3 DEF StepTo
<1> QED  BY <1>1, <1>2, <1>11, StepKeeps

\* No job runs.
LEMMA NobodyKeeps ==
  ASSUME SoundInv, job' = [e \in Kinds |-> NoJob], undefined' \in BOOLEAN, undefined' => ~numbered,
         UNCHANGED <<numbered, tables, site>>
  PROVE  Kept
<1>1. \A e \in Kinds : job'[e] = NoJob /\ job'[e].at = "none"  BY DEF NoJob
<1>2. job' = [e \in Kinds |-> job'[e]]  BY <1>1
<1>3. \A e \in Kinds : ~Merging(e)'  BY <1>1 DEF Merging, Running
<1>4. TypeInv'
  <2>1. \A e \in Kinds : JobOK(job[e])'  BY <1>1 DEF JobOK
  <2>2. TablesType(tables)'  BY DEF SoundInv, TypeInv, TablesType
  <2> QED  BY <1>2, <2>1, <2>2 DEF SoundInv, TypeInv
<1>5. OnlyNumbered'
  <2>1. \A e \in Kinds : job'[e].at \notin Looping  BY <1>1 DEF Looping
  <2> QED  BY <2>1 DEF SoundInv, OnlyNumbered, Rows
<1>6. AloneIs' /\ MergedInv'  BY <1>3 DEF AloneIs, MergedInv
<1> QED  BY <1>4, <1>5, <1>6 DEF SoundInv, Kept

\* The merge: what it establishes is what the loop of the job goes on from.
LEMMA PreParseLoopKeeps ==
  ASSUME SoundInv, NEW e \in Kinds, PreParseLoop(e)  PROVE Kept
<1> DEFINE p == job[e]
<1>1. p.at = "index" /\ UNCHANGED <<numbered, tables, site>>  BY DEF PreParseLoop
<1>2. Running(e)  BY <1>1 DEF Running
<1>3. /\ p \in JobType /\ TablesType(tables) /\ Rows \subseteq RowType
      /\ numbered \in BOOLEAN /\ undefined \in BOOLEAN /\ (undefined => ~numbered)
  BY <1>2, RunningJob DEF SoundInv, TypeInv, OnlyNumbered
<1>4. OneRowEach(Rows) /\ p.listed \subseteq Chapters  BY <1>3 DEF TablesType, Rows, JobType
<1>5. Adapter!ReadMd5s(tables, Uuid) = Rows  BY <1>3, AllRowsRead DEF Rows
<1> DEFINE Ends(m) ==
         /\ undefined' = (undefined \/ m.undefined)
         /\ job' = IF m.undefined THEN [f \in Kinds |-> NoJob]
                   ELSE [job EXCEPT ![e].at = "loop", ![e].updates = m.updates,
                                    ![e].queue = m.queue]
<1>9. PICK rows \in BySeqNum(Rows), entries \in Entries(p.listed) :
         \E m \in Merges(rows, entries) : Ends(m)
  BY <1>5 DEF PreParseLoop
<1>6. PICK m \in Merges(rows, entries) : Ends(m)  BY <1>9
<1>7. CASE numbered
  <2>1. MergeInv(Rows, p.listed, m) /\ m.rows = << >> /\ m.entries = << >>
    BY <1>3, <1>4, <1>6, <1>7, MergeEnds
  <2>2. /\ m.undefined = FALSE /\ m.updates \in Seq(RowType) /\ m.queue \in Seq(ItemType)
    BY <2>1 DEF MergeInv, MergeType
  <2> DEFINE j == [p EXCEPT !.at = "loop", !.updates = m.updates, !.queue = m.queue]
  <2>3. job' = [job EXCEPT ![e] = j] /\ undefined' = undefined
    <3>1. job' = [job EXCEPT ![e].at = "loop", ![e].updates = m.updates, ![e].queue = m.queue]
      BY <1>6, <2>2
    <3>2. undefined' = undefined  BY <1>3, <1>6, <2>2
    <3>3. e \in DOMAIN job  BY <1>2, RunningJob
    <3> QED  BY <3>1, <3>2, <3>3
  <2>4. /\ j \in JobType /\ j.at = "loop" /\ j.alone = p.alone /\ j.listed = p.listed
        /\ j.updates = m.updates /\ j.queue = m.queue /\ j.refused = p.refused
    BY <1>3, <2>2 DEF JobType, Stages
  <2> HIDE DEF j
  <2>5. JobOK(j)  BY <2>4 DEF JobOK
  <2>6. MergedInOrder(tables, j)
    <3>1. Elements(m.rows) = {}  BY <2>1 DEF Elements
    <3>2. PutSoFar(Rows, p.listed, m) = Places(Rows, p.listed, m.updates, m.queue)
      BY <3>1 DEF PutSoFar
    <3>3. Ascending(Places(Rows, p.listed, m.updates, m.queue))  BY <2>1, <3>2 DEF MergeInv
    <3> QED  BY <2>4, <3>3 DEF MergedInOrder, Rows
  <2>7. PassedOver(tables, j) = {}
    <3> SUFFICES ASSUME NEW c \in PassedOver(tables, j) PROVE FALSE  OBVIOUS
    <3>1. c \in p.listed /\ ~HasRow(tables, c) /\ \A q \in Elements(m.queue) : q.chapter # c
      BY <2>4 DEF PassedOver
    <3>2. Elements(m.entries) = {}  BY <2>1 DEF Elements
    <3> QED  BY <2>1, <3>1, <3>2 DEF MergeInv, HasRow, Rows
  <2>8. StepTo(e, j)
    <3>1. Merged(j, tables')  BY <1>1, <2>4, <2>6, <2>7 DEF Merged
    <3> QED  BY <1>1, <1>3, <1>7, <2>3, <2>4, <2>5, <3>1 DEF StepTo
  <2> QED  BY <1>1, <1>2, <2>3, <2>8, StepKeeps
<1>8. CASE ~numbered
  <2>1. Rows = {}  BY <1>8 DEF SoundInv, OnlyNumbered
  <2>2. m.undefined
    <3>1. rows \in BySeqNum({})  BY <1>6, <2>1
    <3> HIDE DEF p
    <3> QED  BY <1>6, <1>8, <3>1, UnnumberedEnds
  <2>3. job' = [f \in Kinds |-> NoJob]  BY <1>6, <2>2
  <2>4. undefined' = TRUE  BY <1>6, <2>2
  <2> QED  BY <1>1, <1>8, <2>3, <2>4, NobodyKeeps
<1> QED  BY <1>3, <1>7, <1>8

\* What a job that starts makes of both jobs.
LEMMA BeginMakes ==
  ASSUME NEW e \in Kinds, NEW number \in Nat \ {0}, Begin(e, number), site \subseteq Chapters,
         job = [f \in Kinds |-> job[f]], \A f \in Kinds : JobOK(job[f])
  PROVE  LET o == Other(e)
         IN  \E j, k :
               /\ job' = [job EXCEPT ![e] = j, ![o] = k] /\ JobOK(j) /\ JobOK(k)
               /\ j.at \in {"error", "index"} /\ k.at = job[o].at
               /\ j.at = "index" => j.alone = ~Running(o)
               /\ (j.at = "index" /\ Running(o) => k.alone = FALSE)
               /\ (k = job[o] \/ k.alone = FALSE)
<1> DEFINE o == Other(e)
<1>1. /\ o \in Kinds /\ o # e /\ Other(o) = e /\ \A f \in Kinds : f = e \/ f = o
  BY KindFacts
<1>2. JobOK(job[o])  BY <1>1
<1>3. ASSUME NEW listed, listed \subseteq Chapters
      PROVE  /\ JobOK(Started(e, number, listed))
             /\ Started(e, number, listed).at \in {"error", "index"}
             /\ Started(e, number, listed).at = "index" => listed # {}
             /\ Started(e, number, listed).alone = ~Running(o)
  <2> DEFINE s == Started(e, number, listed)
  <2>1. s = [at |-> IF listed = {} THEN "error" ELSE "index", listed |-> listed,
             number |-> number, updates |-> << >>, queue |-> << >>, left |-> Attempts,
             alone |-> ~Running(o), failed |-> FALSE, refused |-> {}]
    BY DEF Started
  <2>2. (~Running(o)) \in BOOLEAN  BY Zenon DEF Running
  <2>3. s \in JobType  BY <1>3, <2>1, <2>2, IndexAssumption DEF JobType, Stages
  <2>4. /\ s.at = (IF listed = {} THEN "error" ELSE "index") /\ s.listed = listed
        /\ s.alone = ~Running(o)
    BY <2>1
  <2> HIDE DEF s
  <2>5. JobOK(s)  BY <2>3, <2>4 DEF JobOK
  <2> QED  BY <2>4, <2>5 DEF s
<1>4. \E j, k : /\ job' = [job EXCEPT ![e] = j, ![o] = k] /\ JobOK(j) /\ JobOK(k)
                /\ j.at \in {"error", "index"} /\ k.at = job[o].at
                /\ j.at = "index" => j.alone = ~Running(o)
                /\ (j.at = "index" /\ Running(o) => k.alone = FALSE)
                /\ (k = job[o] \/ k.alone = FALSE)
  <2>1. CASE job' = [job EXCEPT ![e] = Started(e, number, site),
                                ![o] = IF Running(o) THEN [job[o] EXCEPT !.alone = FALSE]
                                       ELSE job[o]]
    <3> DEFINE j == Started(e, number, site)
               k == IF Running(o) THEN [job[o] EXCEPT !.alone = FALSE] ELSE job[o]
    <3>1. JobOK(j) /\ j.at \in {"error", "index"} /\ j.alone = ~Running(o)  BY <1>2, <1>3
    <3>2. /\ JobOK(k) /\ k.at = job[o].at /\ (Running(o) => k.alone = FALSE)
          /\ (k = job[o] \/ k.alone = FALSE)
      <4>1. CASE Running(o)
        <5>1. job[o] \in JobType /\ JobOK(job[o])
          <6>1. job[o].at # "none"  BY <4>1 DEF Running
          <6>2. job[o] # NoJob  BY <6>1 DEF NoJob
          <6> HIDE DEF j, k, o
          <6> QED  BY <1>2, <6>2 DEF JobOK
        <5>2. /\ k \in JobType /\ k.at = job[o].at /\ k.alone = FALSE
              /\ k.listed = job[o].listed /\ k.queue = job[o].queue /\ k.updates = job[o].updates
          BY <4>1, <5>1 DEF JobType
        <5>3. job[o].at # "none"  BY <4>1 DEF Running
        <5> HIDE DEF k
        <5>4. job[o] # NoJob  BY <5>3 DEF NoJob
        <5>5. JobOK(k)  BY ONLY <5>1, <5>2, <5>3, <5>4 DEF JobOK
        <5> QED  BY <5>2, <5>5
      <4>2. CASE ~Running(o)  BY <1>2, <4>2
      <4> QED  BY <4>1, <4>2
    <3> HIDE DEF j, k
    <3>3. job' = [job EXCEPT ![e] = j, ![o] = k]  BY <2>1 DEF j, k
    <3> QED  BY <3>1, <3>2, <3>3
  <2>2. CASE job' = [job EXCEPT ![e] = Started(e, number, {})]
    <3> DEFINE j == Started(e, number, {})
    <3>1. JobOK(j) /\ j.at \in {"error", "index"} /\ j.at # "index"  BY <1>3
    <3> HIDE DEF j
    <3>2. job' = [job EXCEPT ![e] = j, ![o] = job[o]]  BY <1>1, <1>2, <2>2 DEF j
    <3> QED  BY <1>2, <3>1, <3>2
  <2> QED  BY <2>1, <2>2 DEF Begin
<1> QED  BY <1>4

\* A job that starts ends that the other is alone.
LEMMA BeginKeeps ==
  ASSUME SoundInv, NEW e \in Kinds, NEW number \in Nat \ {0}, Begin(e, number)  PROVE Kept
<1> DEFINE o == Other(e)
<1>1. /\ o \in Kinds /\ o # e /\ Other(o) = e /\ \A f \in Kinds : f = e \/ f = o
  BY KindFacts
<1>2. /\ job[e].at = "none" /\ UNCHANGED <<numbered, tables, site, undefined>>
      /\ job = [f \in Kinds |-> job[f]] /\ \A f \in Kinds : JobOK(job[f])
      /\ site \subseteq Chapters
  BY DEF Begin, SoundInv, TypeInv
<1>5. PICK j, k : /\ job' = [job EXCEPT ![e] = j, ![o] = k] /\ JobOK(j) /\ JobOK(k)
                  /\ j.at \in {"error", "index"} /\ k.at = job[o].at
                  /\ j.at = "index" => j.alone = ~Running(o)
                  /\ (j.at = "index" /\ Running(o) => k.alone = FALSE)
                  /\ (k = job[o] \/ k.alone = FALSE)
  BY <1>2, BeginMakes
<1>6. job' = [f \in Kinds |-> job'[f]] /\ job'[e] = j /\ job'[o] = k
  BY <1>1, <1>2, <1>5
<1> HIDE DEF o
<1>7. TypeInv'
  <2>1. \A f \in Kinds : JobOK(job'[f])  BY <1>1, <1>5, <1>6
  <2>2. \A f \in Kinds : JobOK(job[f])'  BY <2>1 DEF JobOK
  <2>3. TablesType(tables)'  BY <1>2 DEF SoundInv, TypeInv, TablesType
  <2> QED  BY <1>2, <1>6, <2>2, <2>3 DEF SoundInv, TypeInv
<1>8. OnlyNumbered'
  <2>1. ~numbered => Rows = {} /\ job[o].at \notin Looping  BY <1>1 DEF SoundInv, OnlyNumbered
  <2>2. j.at \notin Looping  BY <1>5 DEF Looping
  <2>3. ~numbered => \A f \in Kinds : job'[f].at \notin Looping  BY <1>1, <1>5, <1>6, <2>1, <2>2
  <2> QED  BY <1>2, <2>1, <2>3 DEF SoundInv, OnlyNumbered, Rows
<1>9. Running(o)' <=> Running(o)  BY <1>5, <1>6 DEF Running, o, Other
<1>10. Running(e)' <=> j.at = "index"  BY <1>5, <1>6 DEF Running
<1>11. Merging(o)' => Merging(o) /\ ~Running(e)' /\ k = job[o]
  <2>1. Merging(o)' <=> Running(o)' /\ k.alone  BY <1>6 DEF Merging, o, Other
  <2> QED  BY <1>5, <1>9, <1>10, <2>1 DEF Merging
<1>12. Merging(e)' => ~Running(o)'
  <2>1. Merging(e)' <=> Running(e)' /\ j.alone  BY <1>6 DEF Merging
  <2> QED  BY <1>5, <1>9, <1>10, <2>1
<1>13. AloneIs'
  <2>1. \A f \in Kinds : Merging(f)' => ~Running(Other(f))'
    <3> SUFFICES ASSUME NEW f \in Kinds, Merging(f)' PROVE ~Running(Other(f))'  OBVIOUS
    <3>1. CASE f = e  BY <1>12, <3>1 DEF o
    <3>2. CASE f = o
      <4>1. Merging(o)'  BY <3>2
      <4>2. ~Running(e)'  BY <1>11, <4>1
      <4>3. Other(f) = e  BY <1>1, <3>2
      <4> QED  BY <4>2, <4>3
    <3> QED  BY <1>1, <3>1, <3>2
  <2> QED  BY <2>1 DEF AloneIs
<1>14. MergedInv'
  <2>1. Merging(o)' /\ k.at \in Looping => Merged(k, tables')
    BY <1>1, <1>2, <1>11 DEF SoundInv, MergedInv
  <2>2. j.at \notin Looping  BY <1>5 DEF Looping
  <2>3. \A f \in Kinds : Merging(f)' /\ job'[f].at \in Looping => Merged(job'[f], tables')
    BY <1>1, <1>6, <2>1, <2>2
  <2> QED  BY <2>3 DEF MergedInv
<1> QED  BY <1>2, <1>7, <1>8, <1>13, <1>14 DEF SoundInv, Kept

\* What happens to the site alone is no concern of a job that has listed it.
LEMMA OthersKeep ==
  ASSUME SoundInv, site' \subseteq Chapters, UNCHANGED <<numbered, tables, job, undefined>>
  PROVE  Kept
<1>1. TypeInv'
  <2>1. TablesType(tables)'  BY DEF SoundInv, TypeInv, TablesType
  <2>2. \A e \in Kinds : JobOK(job[e])'  BY DEF SoundInv, TypeInv, JobOK
  <2> QED  BY <2>1, <2>2 DEF SoundInv, TypeInv
<1>2. OnlyNumbered'  BY DEF SoundInv, OnlyNumbered, Rows
<1>3. \A e \in Kinds : (Running(e)' <=> Running(e)) /\ (Merging(e)' <=> Merging(e))
  BY DEF Running, Merging
<1>4. AloneIs'
  <2>1. \A e \in Kinds : Running(Other(e))' <=> Running(Other(e))  BY <1>3, KindFacts
  <2>2. \A e \in Kinds : Merging(e) => ~Running(Other(e))  BY DEF SoundInv, AloneIs
  <2>3. \A e \in Kinds : Merging(e)' => ~Running(Other(e))'  BY <1>3, <2>1, <2>2
  <2> QED  BY <2>3 DEF AloneIs
<1>5. MergedInv'
  <2>1. \A e \in Kinds : Merging(e) /\ job[e].at \in Looping => Merged(job[e], tables)
    BY DEF SoundInv, MergedInv
  <2>2. \A e \in Kinds : Merging(e)' /\ job'[e].at \in Looping => Merged(job'[e], tables')
    BY <1>3, <2>1
  <2> QED  BY <2>2 DEF MergedInv
<1> QED  BY <1>1, <1>2, <1>4, <1>5 DEF SoundInv, Kept

LEMMA ParseErrorEntriesKeeps ==
  ASSUME SoundInv, ParseErrorEntries  PROVE Kept
<1>1. PICK error \in DB!GetErrorEntryList(tables).rows : Begin("error", error.progress_num)
  BY DEF ParseErrorEntries
<1>2. error \in tables["error_entry"]
  BY DEF DB!GetErrorEntryList, DB!SQLite!ListErrorEntries, DB!SQLite!Done
<1>3. error.progress_num \in Nat \ {0}
  BY <1>2 DEF SoundInv, TypeInv, TablesType, ErrorType
<1> QED  BY <1>1, <1>3, BeginKeeps DEF Kinds

LEMMA JobStepKeeps ==
  ASSUME SoundInv, NEW e \in Kinds, JobStep(e)  PROVE Kept
<1>1. CASE PreParseLoop(e)  BY <1>1, PreParseLoopKeeps
<1>2. CASE Renumber(e)  BY <1>2, RenumberKeeps
<1>3. CASE ParseSection(e)
  <2>1. CASE FailsToFetch(e)  BY <2>1, FailsToFetchKeeps
  <2>2. CASE Keeps(e)  BY <2>2, KeepsKeeps
  <2>3. CASE Fetches(e)  BY <2>3, FetchesKeeps
  <2>4. CASE FailsToSave(e)  BY <2>4, FailsToSaveKeeps
  <2>5. CASE Saves(e)  BY <2>5, SavesKeeps
  <2> QED  BY <1>3, <2>1, <2>2, <2>3, <2>4, <2>5 DEF ParseSection
<1>4. CASE ExpendedAttempts(e)  BY <1>4, ExpendedAttemptsKeeps
<1>5. CASE EndLoop(e)  BY <1>5, EndLoopKeeps
<1>6. CASE Record(e)  BY <1>6, RecordKeeps
<1> QED  BY <1>1, <1>2, <1>3, <1>4, <1>5, <1>6 DEF JobStep

LEMMA SoundStep == SoundInv /\ [Next]_vars => Kept
<1> SUFFICES ASSUME SoundInv, [Next]_vars PROVE Kept  OBVIOUS
<1>1. CASE Change
  <2>1. site' \subseteq Chapters /\ UNCHANGED <<numbered, tables, job, undefined>>
    BY <1>1 DEF Change
  <2> QED  BY <2>1, OthersKeep
<1>2. CASE ParseUrls  BY <1>2, BeginKeeps DEF ParseUrls, Kinds
<1>3. CASE ParseErrorEntries  BY <1>3, ParseErrorEntriesKeeps
<1>4. ASSUME NEW e \in Kinds, JobStep(e) PROVE Kept  BY <1>4, JobStepKeeps
<1>5. CASE Die
  <2>1. job' = [e \in Kinds |-> NoJob] /\ UNCHANGED <<numbered, tables, site, undefined>>
    BY <1>5 DEF Die
  <2>2. undefined' \in BOOLEAN /\ (undefined' => ~numbered)
    BY <2>1 DEF SoundInv, TypeInv, OnlyNumbered
  <2> QED  BY <2>1, <2>2, NobodyKeeps
<1>6. CASE UNCHANGED vars
  <2>1. site' \subseteq Chapters /\ UNCHANGED <<numbered, tables, job, undefined>>
    BY <1>6 DEF vars, SoundInv, TypeInv
  <2> QED  BY <2>1, OthersKeep
<1> QED  BY <1>1, <1>2, <1>3, <1>4, <1>5, <1>6 DEF Next

----------------------------------------------------------------------------
(* A work that has a row without number.                                    *)

LEMMA NoNumberFacts == NoNumber \in Int /\ NoNumber < 0 /\ NoNumber \notin Chapters
<1>1. NoNumber < 0  BY IndexAssumption
<1>2. NoNumber \in Int
  <2>1. IntSpan \in Nat \ {0} /\ MaxSeqNum \in Nat /\ IntSpan \div 2 \in Int
    BY IndexAssumption
  <2>2. (MaxSeqNum + IntSpan \div 2) % IntSpan \in Int  BY <2>1
  <2> QED  BY <2>1, <2>2 DEF NoNumber, DB!SQLite!AsInt
<1>3. \A c \in Chapters : c \in Nat  BY IndexAssumption
<1> QED  BY <1>1, <1>2, <1>3

\* Such a row leaves its queue first.
LEMMA OldRowIsFirst ==
  ASSUME NEW rows, rows \subseteq AnyRowType, IsFiniteSet(rows),
         \E r \in rows : r.seq_num = NoNumber, NEW p \in BySeqNum(rows)
  PROVE  p \in Seq(rows) /\ p # << >> /\ Head(p).seq_num < 0
<1> DEFINE number == [r \in rows |-> r.seq_num]
<1>1. \A r \in rows : r.seq_num \in Int /\ r.seq_num # MaxSeqNum
  <2>1. \A c \in Chapters : c \in Nat /\ c < MaxSeqNum  BY IndexAssumption
  <2>2. MaxSeqNum \in Nat /\ NoNumber # MaxSeqNum  BY IndexAssumption, NoNumberFacts
  <2>3. \A r \in rows : r.seq_num \in Chapters \cup {NoNumber}  BY DEF AnyRowType
  <2> QED  BY <2>1, <2>2, <2>3, NoNumberFacts
<1>2. number \in [rows -> Int] /\ \A r \in rows : number[r] = r.seq_num  BY <1>1
<1>3. p \in ByNumber(number)
  <2>1. {r \in rows : r.seq_num # MaxSeqNum} = rows  BY <1>1
  <2> QED  BY <2>1 DEF BySeqNum
<1> HIDE DEF number
<1>4. /\ p \in Seq(rows) /\ Elements(p) = rows
      /\ \A i, k \in DOMAIN p : i < k => number[p[i]] <= number[p[k]]
  BY <1>2, <1>3, ByNumberSorts
<1>5. PICK i \in DOMAIN p : p[i].seq_num = NoNumber  BY <1>4 DEF Elements
<1>6. DOMAIN p = 1..Len(p) /\ Len(p) \in Nat /\ i \in 1..Len(p)  BY <1>4
<1>7. p # << >> /\ 1 \in DOMAIN p /\ Head(p) = p[1] /\ p[1] \in rows /\ p[i] \in rows
  BY <1>4, <1>6
<1>8. i = 1 \/ number[p[1]] <= number[p[i]]  BY <1>4, <1>6, <1>7
<1>9. p[1].seq_num \in Int /\ (i = 1 \/ p[1].seq_num <= p[i].seq_num)
  BY <1>1, <1>2, <1>7, <1>8
<1> QED  BY <1>4, <1>5, <1>7, <1>9, NoNumberFacts

\* While it is in the queue every chapter counts as new, and when the chapters
\* are used up the next turn takes from an empty queue.
LEMMA OldRowStays ==
  ASSUME NEW m, m = [rows |-> m.rows, entries |-> m.entries, listed |-> m.listed,
                     expected |-> m.expected, updates |-> m.updates, queue |-> m.queue,
                     undefined |-> m.undefined],
         m.entries \in Seq(Chapters), m.rows # << >>, Head(m.rows).seq_num < 0
  PROVE  LET n == MergeStep(m)
         IN  IF m.entries = << >> THEN n.undefined
             ELSE /\ n = [rows |-> m.rows, entries |-> n.entries, listed |-> n.listed,
                          expected |-> n.expected, updates |-> n.updates, queue |-> n.queue,
                          undefined |-> n.undefined]
                  /\ n.entries \in Seq(Chapters) /\ Len(n.entries) = Len(m.entries) - 1
<1>1. RowSeqNum(m) = Unsigned  BY DEF RowSeqNum, AsSize
<1>2. IndexSeqNum(m) \in Nat /\ IndexSeqNum(m) <= MaxSeqNum
  <2>1. CASE m.entries = << >>  BY <2>1, IndexAssumption DEF IndexSeqNum
  <2>2. CASE m.entries # << >>
    <3>1. Head(m.entries) \in Chapters  BY <2>2, TailFacts
    <3> QED  BY <2>2, <3>1, IndexAssumption DEF IndexSeqNum
  <2> QED  BY <2>1, <2>2
<1>3. MergeStep(m) = MergeNew(m)
  <2>1. Unsigned \in Nat /\ MaxSeqNum \in Nat /\ MaxSeqNum < Unsigned  BY IndexAssumption
  <2>2. RowSeqNum(m) # IndexSeqNum(m) /\ ~(RowSeqNum(m) < IndexSeqNum(m))
    BY <1>1, <1>2, <2>1
  <2> QED  BY <2>2 DEF MergeStep
<1>4. CASE m.entries = << >>
  <2>1. MergeNew(m) = [m EXCEPT !.undefined = TRUE]  BY <1>4 DEF MergeNew
  <2>2. MergeNew(m).undefined = TRUE  BY <2>1
  <2> QED  BY <1>3, <1>4, <2>2
<1>5. CASE m.entries # << >>
  <2> DEFINE q == Append(m.queue, [chapter |-> Head(m.entries), index_num |-> m.expected])
  <2>1. MergeNew(m) = [m EXCEPT !.entries = Tail(@), !.expected = @ + 1, !.queue = q]
    BY <1>5 DEF MergeNew
  <2> HIDE DEF q
  <2>2. MergeNew(m) = [rows |-> m.rows, entries |-> Tail(m.entries), listed |-> m.listed,
                       expected |-> m.expected + 1, updates |-> m.updates, queue |-> q,
                       undefined |-> m.undefined]
    BY <2>1
  <2>3. Tail(m.entries) \in Seq(Chapters) /\ Len(Tail(m.entries)) = Len(m.entries) - 1
    BY <1>5, TailFacts
  <2> QED  BY <1>3, <1>5, <2>2, <2>3
<1> QED  BY <1>4, <1>5

\* So the loop ends with the top of an empty queue.
LEMMA OldMergeEnds ==
  ASSUME NEW p, NEW rows, p \in Seq(rows), p # << >>, Head(p).seq_num < 0,
         NEW listed, listed \subseteq Chapters, numbered, NEW q \in Entries(listed),
         NEW m \in Merges(p, q)
  PROVE  m.undefined
<1> DEFINE start == StartOf(p, q)
           k == Len(p) + Len(q)
           Stuck(x, n) == x.undefined \/
               (/\ x = [rows |-> p, entries |-> x.entries, listed |-> x.listed,
                        expected |-> x.expected, updates |-> x.updates, queue |-> x.queue,
                        undefined |-> x.undefined]
                /\ x.entries \in Seq(Chapters) /\ Len(x.entries) + n = Len(q))
<1>1. q \in Seq(Chapters) /\ Len(q) \in Nat /\ Len(p) \in Nat /\ Len(p) > 0
  <2>1. q \in Seq(listed)  BY EntriesAreSorted
  <2> QED  BY <2>1
<1>2. k \in Nat /\ k > Len(q)  BY <1>1
<1>3. PICK f : Turns(f, start, k) /\ Merges(p, q) = f[k]  BY <1>2, MergesAreTurns
<1> DEFINE S == {n \in Nat : n <= k => \A x \in f[n] : Stuck(x, n)}
<1>4. Stuck(start, 0)  BY <1>1 DEF StartOf
<1> HIDE DEF start, k
<1>5. f[0] = {start} /\ \A n \in Nat : n + 1 <= k => f[n + 1] = Turn(f[n])
  <2>1. \A n \in 0..k : f[n] = IF n = 0 THEN {start} ELSE Turn(f[n - 1])  BY <1>3 DEF Turns
  <2>2. 0 \in 0..k  BY <1>2
  <2>3. ASSUME NEW n \in Nat, n + 1 <= k  PROVE f[n + 1] = Turn(f[n])
    <3>1. n + 1 \in 0..k /\ n + 1 # 0 /\ (n + 1) - 1 = n  BY <1>2, <2>3
    <3> QED  BY <2>1, <3>1
  <2> QED  BY <2>1, <2>2, <2>3
<1>6. 0 \in S  BY <1>4, <1>5
<1>7. ASSUME NEW n \in Nat, n \in S  PROVE n + 1 \in S
  <2> SUFFICES ASSUME n + 1 <= k, NEW x \in f[n + 1] PROVE Stuck(x, n + 1)  OBVIOUS
  <2>1. n <= k  BY <1>2
  <2>2. PICK y \in f[n] : x = IF MergeDone(y) THEN y ELSE MergeStep(y)  BY <1>5 DEF Turn
  <2>3. Stuck(y, n)  BY <1>7, <2>1
  <2>4. CASE y.undefined  BY <2>2, <2>4 DEF MergeDone
  <2>5. CASE ~y.undefined
    <3>1. /\ y.rows = p /\ y.entries \in Seq(Chapters) /\ Len(y.entries) + n = Len(q)
          /\ y = [rows |-> y.rows, entries |-> y.entries, listed |-> y.listed,
                  expected |-> y.expected, updates |-> y.updates, queue |-> y.queue,
                  undefined |-> y.undefined]
      BY <2>3, <2>5
    <3>2. x = MergeStep(y)  BY <2>2, <2>5, <3>1 DEF MergeDone
    <3>3. IF y.entries = << >> THEN x.undefined
          ELSE /\ x = [rows |-> p, entries |-> x.entries, listed |-> x.listed,
                       expected |-> x.expected, updates |-> x.updates, queue |-> x.queue,
                       undefined |-> x.undefined]
               /\ x.entries \in Seq(Chapters) /\ Len(x.entries) = Len(y.entries) - 1
      BY <3>1, <3>2, OldRowStays
    <3>4. Len(y.entries) \in Nat  BY <3>1
    <3>5. y.entries # << >> => Len(x.entries) + (n + 1) = Len(q)  BY <1>1, <3>1, <3>3, <3>4
    <3> QED  BY <3>3, <3>5
  <2> QED  BY <2>4, <2>5
<1>8. Nat \subseteq S
  <2> HIDE DEF S
  <2> QED  BY <1>6, <1>7, Induction
<1>9. k \in S  BY <1>2, <1>8
<1>10. Stuck(m, k)  BY <1>2, <1>3, <1>9
<1>11. ~(m.entries \in Seq(Chapters) /\ Len(m.entries) + k = Len(q))
  <2>1. m.entries \in Seq(Chapters) => Len(m.entries) \in Nat  OBVIOUS
  <2> QED  BY <1>1, <1>2, <2>1
<1> QED  BY <1>10, <1>11

\* No step of such a work changes a row.
LEMMA OldStep == OldInv /\ [Next]_vars => OldInv' /\ UNCHANGED Rows
<1> SUFFICES ASSUME OldInv, [Next]_vars PROVE OldInv' /\ UNCHANGED Rows  OBVIOUS
<1>1. ASSUME site' \subseteq Chapters, UNCHANGED <<numbered, tables>>,
             job' = [e \in Kinds |-> job'[e]],
             \A e \in Kinds : JobOK(job'[e]) /\ job'[e].at \notin Looping
      PROVE  OldInv' /\ UNCHANGED Rows
  <2>1. UNCHANGED <<Rows, Errors>>  BY <1>1 DEF Rows, Errors
  <2>2. HasOldRow'  BY <2>1 DEF OldInv, HasOldRow
  <2>3. \A e \in Kinds : JobOK(job[e])'  BY <1>1 DEF JobOK
  <2> QED  BY <1>1, <2>1, <2>2, <2>3 DEF OldInv
<1>2. ASSUME job' = [e \in Kinds |-> NoJob] \/ UNCHANGED job
      PROVE  /\ job' = [e \in Kinds |-> job'[e]]
             /\ \A e \in Kinds : JobOK(job'[e]) /\ job'[e].at \notin Looping
  BY <1>2 DEF OldInv, JobOK, NoJob, Looping
<1>3. site \subseteq Chapters  BY DEF OldInv
<1>4. CASE Change \/ UNCHANGED vars  BY <1>1, <1>2, <1>3, <1>4 DEF Change, vars
<1>5. CASE Die  BY <1>1, <1>2, <1>3, <1>5 DEF Die
<1>6. ASSUME NEW e \in Kinds, NEW number \in Nat \ {0}, Begin(e, number)
      PROVE  OldInv' /\ UNCHANGED Rows
  <2> DEFINE o == Other(e)
  <2>1. o \in Kinds /\ o # e /\ \A f \in Kinds : f = e \/ f = o  BY KindFacts
  <2>2. job = [f \in Kinds |-> job[f]] /\ \A f \in Kinds : JobOK(job[f])  BY DEF OldInv
  <2>3. PICK j, k : /\ job' = [job EXCEPT ![e] = j, ![o] = k] /\ JobOK(j) /\ JobOK(k)
                    /\ j.at \in {"error", "index"} /\ k.at = job[o].at
    BY <1>3, <1>6, <2>2, BeginMakes
  <2> HIDE DEF o
  <2>4. job' = [f \in Kinds |-> job'[f]] /\ job'[e] = j /\ job'[o] = k  BY <2>1, <2>2, <2>3
  <2>5. \A f \in Kinds : JobOK(job'[f]) /\ job'[f].at \notin Looping
    BY <2>1, <2>3, <2>4 DEF OldInv, Looping
  <2> QED  BY <1>1, <1>3, <1>6, <2>4, <2>5 DEF Begin
<1>7. CASE ParseUrls  BY <1>6, <1>7 DEF ParseUrls, Kinds
<1>8. CASE ParseErrorEntries
  <2>1. PICK error \in DB!GetErrorEntryList(tables).rows : Begin("error", error.progress_num)
    BY <1>8 DEF ParseErrorEntries
  <2>2. error \in Errors
    BY DEF DB!GetErrorEntryList, DB!SQLite!ListErrorEntries, DB!SQLite!Done, Errors
  <2>3. error.progress_num \in Nat \ {0}  BY <2>2 DEF OldInv, ErrorType
  <2> QED  BY <1>6, <2>1, <2>3 DEF Kinds
<1>9. ASSUME NEW e \in Kinds, JobStep(e)  PROVE OldInv' /\ UNCHANGED Rows
  <2>1. job[e].at \notin Looping  BY DEF OldInv
  <2>2. PreParseLoop(e)
    <3>1. ~Renumber(e) /\ ~ExpendedAttempts(e) /\ ~EndLoop(e) /\ ~Record(e)
      BY <2>1 DEF Renumber, ExpendedAttempts, EndLoop, Record, Looping
    <3>2. ~ParseSection(e)
      BY <2>1 DEF ParseSection, FailsToFetch, Keeps, Fetches, FailsToSave, Saves, Parsing, Looping
    <3> QED  BY <1>9, <3>1, <3>2 DEF JobStep
  <2>3. job[e].at = "index" /\ job[e].listed \subseteq Chapters /\ numbered
    BY <2>2 DEF PreParseLoop, OldInv, JobOK, JobType, NoJob
  <2>4. Adapter!ReadMd5s(tables, Uuid) = Rows
    <3>1. \A r \in Rows : r.uuid = Uuid  BY DEF OldInv, AnyRowType
    <3>2. Adapter!ReadMd5s(tables, Uuid) = {r \in Rows : r.uuid = Uuid}
      BY DEF Adapter!ReadMd5s, Adapter!DB!GetMd5SumsFromUUID, Adapter!DB!SQLite!Done,
         Adapter!DB!SQLite!GetMd5SumsFromUUID, Adapter!DB!SQLite!Select,
         Adapter!DB!SQLite!Where, Rows
    <3> QED  BY <3>1, <3>2
  <2>5. PICK p \in BySeqNum(Rows), q \in Entries(job[e].listed) :
           \E m \in Merges(p, q) : m.undefined => job' = [f \in Kinds |-> NoJob]
    BY <2>2, <2>4 DEF PreParseLoop
  <2>6. p \in Seq(Rows) /\ p # << >> /\ Head(p).seq_num < 0
    BY OldRowIsFirst DEF OldInv, HasOldRow
  <2>7. job' = [f \in Kinds |-> NoJob]  BY <2>3, <2>5, <2>6, OldMergeEnds
  <2> QED  BY <1>1, <1>2, <1>3, <2>2, <2>7 DEF PreParseLoop
<1> QED  BY <1>4, <1>5, <1>7, <1>8, <1>9 DEF Next

\* What both parts of the invariant keep.
LEMMA InvariantStep ==
  IInv /\ [Next]_vars => IInv' /\ \A e \in Kinds : Merging(e) =>
                             \A c \in job[e].listed : HasRow(tables, c) => HasRow(tables', c)
<1>1. SoundInv /\ [Next]_vars => Kept  BY SoundStep
<1>2. OldInv /\ [Next]_vars => OldInv' /\ \A c : HasRow(tables, c) => HasRow(tables', c)
  BY OldStep DEF Rows, HasRow
<1> QED  BY <1>1, <1>2 DEF IInv, Kept

----------------------------------------------------------------------------
(* The theorems.                                                            *)

\* Every state the index parsers and their jobs reach has the invariant.
THEOREM MergeInvariant == Spec => []IInv
<1>1. IInv /\ [Next]_vars => IInv'  BY InvariantStep
<1> QED  BY <1>1, InitInvariant, PTL DEF Spec

\* md5_sum has one row of a chapter, with its number or none; what is saved was queued.
THEOREM IndexTypeCorrect == Spec => []TypeOK
<1>1. SoundInv => TypeOK
  <2> SUFFICES ASSUME SoundInv PROVE TypeOK  OBVIOUS
  <2>1. site \subseteq Chapters  BY DEF SoundInv, TypeInv
  <2>2. Rows \subseteq RowType /\ OneRowEach(Rows) /\ Errors \subseteq ErrorType
    BY DEF SoundInv, TypeInv, TablesType, Rows, Errors
  <2>3. \A r \in Rows : r.seq_num \in Chapters /\ r.index_num \in Nat
    <3>1. LastIndex \in Nat  BY IndexAssumption, FS_CardinalityType DEF LastIndex
    <3> QED  BY <2>2, <3>1 DEF RowType
  <2>4. \A r \in Errors : r.progress_num \in Nat \ {0}  BY <2>2 DEF ErrorType
  <2>5. ASSUME NEW e \in Kinds
        PROVE job[e].at \in Stages /\ (job[e].at = "save" => job[e].queue # << >>)
    <3>1. JobOK(job[e])  BY DEF SoundInv, TypeInv
    <3> QED  BY <3>1 DEF JobOK, JobType, NoJob, Stages
  <2> QED  BY <2>1, <2>2, <2>3, <2>4, <2>5 DEF TypeOK, OneRowEach
<1>2. OldInv => TypeOK
  <2> SUFFICES ASSUME OldInv PROVE TypeOK  OBVIOUS
  <2>1. LastIndex \in Nat  BY NumbersAreInts
  <2>2. \A r \in Rows : r.seq_num \in Chapters \cup {NoNumber} /\ r.index_num \in Nat
    BY <2>1 DEF OldInv, AnyRowType
  <2>3. \A r \in Errors : r.progress_num \in Nat \ {0}  BY DEF OldInv, ErrorType
  <2>4. ASSUME NEW e \in Kinds
        PROVE job[e].at \in Stages /\ (job[e].at = "save" => job[e].queue # << >>)
    <3>1. JobOK(job[e])  BY DEF OldInv
    <3> QED  BY <3>1 DEF JobOK, JobType, NoJob, Stages
  <2> QED  BY <2>2, <2>3, <2>4 DEF OldInv, TypeOK
<1> QED  BY <1>1, <1>2, MergeInvariant, PTL DEF IInv

\* For a source whose urls have numbers, and a work whose rows all have one,
\* PreParseLoop never takes from an empty queue, whatever the rows and the index.
THEOREM MergeIsAlwaysDefined == Spec => []MergeIsDefined
<1>1. IInv => MergeIsDefined
  BY DEF IInv, SoundInv, OnlyNumbered, OldInv, HasOldRow, MergeIsDefined
<1> QED  BY <1>1, MergeInvariant, PTL

\* A job in the loop of a merge that is done is one of which Merged is known.
LEMMA InLoopMerged ==
  ASSUME IInv, NEW e \in Kinds, InLoop(e)
  PROVE  Merged(job[e], tables) /\ job[e].updates = << >>
<1>1. JobOK(job[e]) /\ job[e].at \notin {"none", "error", "index"}
  BY DEF InLoop, Merging, Running, IInv, SoundInv, TypeInv, OldInv
<1>2. job[e].at \in Looping
  <2>1. job[e].at \in Stages  BY <1>1 DEF JobOK, JobType, NoJob
  <2> QED  BY <1>1, <2>1 DEF Stages, Looping
<1>3. SoundInv  BY <1>2 DEF IInv, OldInv
<1> QED  BY <1>2, <1>3 DEF InLoop, SoundInv, MergedInv

\* What PreParseLoop numbers, the stored chapters and the queued, is in the order
\* of the site and stays so while the queue is worked off.
THEOREM ChaptersInOrder == Spec => []InOrder
<1>1. IInv => InOrder
  <2> SUFFICES ASSUME IInv, NEW e \in Kinds, InLoop(e)
               PROVE  Ascending(Placed(e))
    BY DEF InOrder, Ascending
  <2>1. Merged(job[e], tables) /\ job[e].updates = << >>  BY InLoopMerged
  <2>2. Ascending(Places(Rows, job[e].listed, << >>, job[e].queue))
    BY <2>1 DEF Merged, MergedInOrder, Rows
  <2>3. Settled(Rows, job[e].listed, << >>) = {r \in Rows : r.seq_num \in job[e].listed}
    BY DEF Settled, Elements
  <2>4. Elements(<< >>) = {}  BY DEF Elements
  <2>5. Placed(e) = Places(Rows, job[e].listed, << >>, job[e].queue)
    BY <2>3, <2>4 DEF Placed, Places, Items, Queued, Elements
  <2> QED  BY <2>2, <2>5
<1> QED  BY <1>1, MergeInvariant, PTL

\* No chapter the site listed to a job that did not give up is forgotten between
\* PreParseLoop and the end of ParseLoop.
THEOREM NothingPassedOver == Spec => []Complete
<1>1. IInv => Complete
  <2> SUFFICES ASSUME IInv, NEW e \in Kinds, InLoop(e), ~job[e].failed,
                      NEW c \in job[e].listed
               PROVE  \/ HasRow(tables, c) \/ c \in job[e].refused
                      \/ \E q \in Queued(e) : q.chapter = c
    BY DEF Complete
  <2>1. PassedOver(tables, job[e]) = {}  BY InLoopMerged DEF Merged
  <2> QED  BY <2>1 DEF PassedOver, Queued, Elements
<1> QED  BY <1>1, MergeInvariant, PTL

\* UpsertMd5ByIndexNum writes over no row of a chapter the site listed to a job
\* that is alone, though it finds the row to write over by an index that moves.
THEOREM LiveRowsAreKept == Spec => LiveRowsStay
<1> DEFINE Stay == \A e \in Kinds : Merging(e) =>
                     \A c \in job[e].listed : HasRow(tables, c) => HasRow(tables', c)
<1>1. IInv /\ [Next]_vars => [Stay]_vars  BY InvariantStep
<1> QED  BY <1>1, MergeInvariant, PTL DEF Spec, LiveRowsStay

=============================================================================
