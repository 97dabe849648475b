--------------------------- MODULE SequenceLemmas ---------------------------
(***************************************************************************)
(* Facts the proofs of several components need and the library does not    *)
(* state: induction as a fact about a set, the rank of a number in a       *)
(* finite set, the orders of a set, and what a flattened sequence holds.   *)
(***************************************************************************)
EXTENDS Integers, FiniteSets, Sequences, SequencesExt, SequenceTheorems,
        FiniteSetTheorems, WellFoundedInduction, TLAPS

----------------------------------------------------------------------------
(* Induction.                                                               *)

\* A set of naturals has a least element.
LEMMA Least ==
  ASSUME NEW T, T \subseteq Nat, T # {}
  PROVE  \E x \in T : \A y \in T : x <= y
<1> DEFINE R == OpToRel(<, Nat)
<1>1. IsWellFoundedOn(R, Nat)  BY NatLessThanWellFounded
<1>2. PICK x \in T : \A y \in T : ~ (<<y, x>> \in R)
  <2> HIDE DEF R
  <2> QED  BY <1>1, WFMin
<1>3. \A y \in T : y < x => <<y, x>> \in R  BY DEF OpToRel
<1> HIDE DEF R
<1>4. \A y \in T : ~ (y < x)  BY ONLY <1>2, <1>3, Zenon
<1>5. x \in Nat /\ \A y \in T : y \in Nat  OBVIOUS
<1>6. \A y \in T : x <= y  BY ONLY <1>4, <1>5
<1> QED  BY <1>6

\* A set with 0, and with the successor of each natural it has, has them all.
LEMMA Induction ==
  ASSUME NEW S, 0 \in S, \A n \in Nat : n \in S => n + 1 \in S
  PROVE  Nat \subseteq S
<1> SUFFICES ASSUME Nat \ S # {} PROVE FALSE  OBVIOUS
<1>1. PICK x \in Nat \ S : \A y \in Nat \ S : x <= y  BY Least
<1>2. x # 0 /\ x - 1 \in Nat  BY <1>1
<1>3. x - 1 \in S  BY <1>1, <1>2
<1> QED  BY <1>1, <1>2, <1>3

\* So has a set up to a bound.
LEMMA InductionTo ==
  ASSUME NEW N \in Nat, NEW S, 0 \in S, \A n \in 0..N - 1 : n \in S => n + 1 \in S
  PROVE  0..N \subseteq S
<1> DEFINE T == {n \in Nat : n <= N => n \in S}
<1>1. 0 \in T  OBVIOUS
<1>2. \A n \in Nat : n \in T => n + 1 \in T
  <2> SUFFICES ASSUME NEW n \in Nat, n \in T, n + 1 <= N PROVE n + 1 \in S  OBVIOUS
  <2>1. n \in 0..N - 1 /\ n \in S  OBVIOUS
  <2> QED  BY <2>1
<1> HIDE DEF T
<1>3. Nat \subseteq T  BY <1>1, <1>2, Induction
<1> QED  BY <1>3 DEF T

----------------------------------------------------------------------------
(* Ranks.                                                                   *)

\* How many of the numbers are smaller.
Rank(number, x) == Cardinality({y \in DOMAIN number : number[y] < number[x]})

\* The ranks of different numbers are those below the count, in the same order.
LEMMA RankFacts ==
  ASSUME NEW S, IsFiniteSet(S), NEW number \in [S -> Int],
         \A x, y \in S : number[x] = number[y] => x = y
  PROVE  /\ \A x \in S : Rank(number, x) \in 0..Cardinality(S) - 1
         /\ \A x, y \in S : number[x] < number[y] => Rank(number, x) < Rank(number, y)
         /\ \A x, y \in S : Rank(number, x) = Rank(number, y) => x = y
         /\ \A k \in 0..Cardinality(S) - 1 : \E x \in S : Rank(number, x) = k
<1> DEFINE N == Cardinality(S)
           Below(x) == {y \in S : number[y] < number[x]}
           rank == [x \in S |-> Cardinality(Below(x))]
<1>1. DOMAIN number = S /\ N \in Nat  BY FS_CardinalityType
<1>2. \A x \in S : IsFiniteSet(Below(x)) /\ rank[x] \in 0..(N - 1)
  <2> TAKE x \in S
  <2>1. Below(x) \subseteq S /\ x \notin Below(x)  OBVIOUS
  <2> HIDE DEF Below
  <2>2. IsFiniteSet(Below(x)) /\ Cardinality(Below(x)) <= N /\ Cardinality(Below(x)) # N
    BY <2>1, FS_Subset
  <2>3. Cardinality(Below(x)) \in Nat  BY <2>2, FS_CardinalityType
  <2> QED  BY <1>1, <2>2, <2>3
<1>3. ASSUME NEW x \in S, NEW y \in S, number[x] < number[y]  PROVE rank[x] < rank[y]
  <2>1. Below(x) \subseteq Below(y)
    <3> SUFFICES ASSUME NEW z \in S, number[z] < number[x] PROVE number[z] < number[y]  OBVIOUS
    <3>1. number[z] \in Int /\ number[x] \in Int /\ number[y] \in Int  OBVIOUS
    <3> QED  BY <1>3, <3>1
  <2>2. x \in Below(y) /\ x \notin Below(x)  BY <1>3
  <2>3. IsFiniteSet(Below(y))  BY <1>2
  <2>4. rank[x] = Cardinality(Below(x)) /\ rank[y] = Cardinality(Below(y))  OBVIOUS
  <2> HIDE DEF Below, rank
  <2>5. Cardinality(Below(x)) <= Cardinality(Below(y)) /\ Cardinality(Below(x)) # Cardinality(Below(y))
    BY <2>1, <2>2, <2>3, FS_Subset
  <2> QED  BY <1>2, <1>1, <2>4, <2>5
<1>4. \A x, y \in S : rank[x] = rank[y] => x = y
  <2> SUFFICES ASSUME NEW x \in S, NEW y \in S, rank[x] = rank[y], x # y PROVE FALSE  OBVIOUS
  <2>1. number[x] \in Int /\ number[y] \in Int /\ number[x] # number[y]  OBVIOUS
  <2>2. rank[x] < rank[y] \/ rank[y] < rank[x]
    <3> HIDE DEF rank
    <3> QED  BY <1>3, <2>1
  <2> HIDE DEF rank, Below
  <2>3. rank[x] \in Int /\ rank[y] \in Int  BY <1>1, <1>2
  <2> QED  BY <2>2, <2>3
<1>5. \A k \in 0..(N - 1) : \E x \in S : rank[x] = k
  <2>1. rank \in [S -> 0..(N - 1)]
    <3>1. rank = [x \in S |-> rank[x]]  OBVIOUS
    <3> HIDE DEF rank
    <3> QED  BY <1>2, <3>1
  <2> HIDE DEF rank
  <2>2. rank \in Injection(S, 0..(N - 1))  BY <1>4, <2>1 DEF Injection, IsInjective
  <2>3. IsFiniteSet(0..(N - 1)) /\ Cardinality(0..(N - 1)) = N
    <3>1. 0 \in Int /\ N - 1 \in Int  BY <1>1
    <3>2. IsFiniteSet(0..(N - 1)) /\ Cardinality(0..(N - 1)) = IF 0 > N - 1 THEN 0 ELSE (N - 1) - 0 + 1
      BY <3>1, FS_Interval
    <3> QED  BY <1>1, <3>2
  <2>4. rank \in Surjection(S, 0..(N - 1))  BY <2>2, <2>3, FS_Injection
  <2> QED  BY <2>4 DEF Surjection
<1>6. \A x \in S : Rank(number, x) = rank[x]  BY <1>1 DEF Rank
<1>7. \A x, y \in S : number[x] < number[y] => rank[x] < rank[y]  BY <1>3
<1> HIDE DEF rank, Below
<1>8. \A x \in S : Rank(number, x) \in 0..N - 1  BY <1>2, <1>6
<1>9. \A x, y \in S : number[x] < number[y] => Rank(number, x) < Rank(number, y)
  BY ONLY <1>6, <1>7
<1>10. \A x, y \in S : Rank(number, x) = Rank(number, y) => x = y  BY ONLY <1>4, <1>6
<1>11. \A k \in 0..N - 1 : \E x \in S : Rank(number, x) = k  BY ONLY <1>5, <1>6
<1> QED  BY <1>8, <1>9, <1>10, <1>11

\* A rank is at most the number, as there are no more numbers below it.
LEMMA RankBelow ==
  ASSUME NEW S, IsFiniteSet(S), NEW number \in [S -> Nat],
         \A x, y \in S : number[x] = number[y] => x = y, NEW x \in S
  PROVE  Rank(number, x) <= number[x]
<1> DEFINE n == number[x]
           B == {y \in S : number[y] < n}
           f == [y \in B |-> number[y]]
<1>1. DOMAIN number = S /\ n \in Nat  OBVIOUS
<1>2. f \in [B -> 0..n - 1]
  <2>1. \A y \in B : number[y] \in 0..n - 1  BY <1>1
  <2> QED  BY <2>1
<1>3. \A y, z \in B : f[y] = f[z] => y = z  OBVIOUS
<1> HIDE DEF f
<1>4. f \in Injection(B, 0..n - 1)  BY <1>2, <1>3 DEF Injection, IsInjective
<1>5. IsFiniteSet(0..n - 1) /\ Cardinality(0..n - 1) = n
  <2>1. 0 \in Int /\ n - 1 \in Int  BY <1>1
  <2>2. IsFiniteSet(0..(n - 1)) /\ Cardinality(0..(n - 1)) = IF 0 > n - 1 THEN 0 ELSE (n - 1) - 0 + 1
    BY <2>1, FS_Interval
  <2> QED  BY <1>1, <2>2
<1>6. Cardinality(B) <= n
  <2> HIDE DEF B, n
  <2> QED  BY <1>4, <1>5, FS_Injection
<1> QED  BY <1>1, <1>6 DEF Rank

\* Sets of which one is mapped one to one onto the other have the same size.
LEMMA SameSize ==
  ASSUME NEW S, NEW T, IsFiniteSet(S), NEW f \in [S -> T],
         \A x, y \in S : f[x] = f[y] => x = y, \A z \in T : \E x \in S : f[x] = z
  PROVE  IsFiniteSet(T) /\ Cardinality(T) = Cardinality(S)
<1>1. f \in Bijection(S, T)  BY DEF Bijection, Injection, Surjection, IsInjective
<1>2. ExistsBijection(S, T)  BY <1>1 DEF ExistsBijection
<1> QED  BY <1>2, FS_Bijection

----------------------------------------------------------------------------
(* The orders of a finite set.                                              *)

LEMMA OrderExists ==
  ASSUME NEW S, IsFiniteSet(S)
  PROVE  \E f \in [1..Cardinality(S) -> S] : \A i, j \in 1..Cardinality(S) : f[i] = f[j] => i = j
<1>1. PICK f : f \in Bijection(1..Cardinality(S), S)
  BY FS_CardinalityType DEF ExistsBijection
<1> QED  BY <1>1 DEF Bijection, Injection, IsInjective

\* A sequence of as many different elements has them all.
LEMMA OrderIsAll ==
  ASSUME NEW S, IsFiniteSet(S), NEW s \in [1..Cardinality(S) -> S],
         \A i, j \in 1..Cardinality(S) : s[i] = s[j] => i = j
  PROVE  /\ s \in Seq(S) /\ Len(s) = Cardinality(S) /\ DOMAIN s = 1..Cardinality(S)
         /\ \A x \in S : \E i \in DOMAIN s : s[i] = x
<1> DEFINE n == Cardinality(S)
<1>1. n \in Nat  BY FS_CardinalityType
<1>2. IsFiniteSet(1..n) /\ Cardinality(1..n) = n
  <2>1. 1 \in Int /\ n \in Int  BY <1>1
  <2>2. IsFiniteSet(1..n) /\ Cardinality(1..n) = IF 1 > n THEN 0 ELSE n - 1 + 1
    BY <2>1, FS_Interval
  <2> QED  BY <1>1, <2>2
<1>3. s \in Injection(1..n, S)  BY DEF Injection, IsInjective
<1>4. s \in Surjection(1..n, S)
  <2> HIDE DEF n
  <2>1. Cardinality(1..n) = Cardinality(S)  BY <1>2 DEF n
  <2> QED  BY <1>3, <2>1, FS_Injection
<1>5. \A x \in S : \E i \in 1..n : s[i] = x  BY <1>4 DEF Surjection
<1>6. s \in Seq(S) /\ Len(s) = n /\ DOMAIN s = 1..n  BY <1>1
<1> QED  BY <1>5, <1>6

\* The order SetToSeq takes, and each that SetToSeqs has.
LEMMA SetToSeqFacts ==
  ASSUME NEW S, IsFiniteSet(S), NEW s, s = SetToSeq(S) \/ s \in SetToSeqs(S)
  PROVE  /\ s \in Seq(S) /\ Len(s) = Cardinality(S) /\ DOMAIN s = 1..Cardinality(S)
         /\ \A x \in S : \E i \in DOMAIN s : s[i] = x
         /\ \A i, j \in DOMAIN s : s[i] = s[j] => i = j
<1> DEFINE n == Cardinality(S)
<1>1. s \in [1..n -> S] /\ \A i, j \in 1..n : s[i] = s[j] => i = j
  <2>1. CASE s = SetToSeq(S)
    <3>1. \E f \in [1..n -> S] : IsInjective(f)  BY OrderExists DEF IsInjective
    <3>2. s = CHOOSE f \in [1..n -> S] : IsInjective(f)  BY <2>1 DEF SetToSeq
    <3>3. s \in [1..n -> S] /\ IsInjective(s)
      <4> HIDE DEF n
      <4> QED  BY <3>1, <3>2
    <3> QED  BY <3>3 DEF IsInjective
  <2>2. CASE s \in SetToSeqs(S)
    BY <2>2 DEF SetToSeqs
  <2> QED  BY <2>1, <2>2
<1>2. DOMAIN s = 1..n  BY <1>1
<1> QED  BY <1>1, <1>2, OrderIsAll

----------------------------------------------------------------------------
(* Flattened sequences.                                                     *)

Flattens(f, seqs, n) == f = [i \in 1..n |-> IF i = 1 THEN seqs[i] ELSE f[i - 1] \o seqs[i]]

LEMMA FlattensExists ==
  ASSUME NEW seqs, NEW n \in Nat
  PROVE  \E f : Flattens(f, seqs, n)
<1> DEFINE S == {m \in Nat : \E f : Flattens(f, seqs, m)}
<1>1. 0 \in S
  <2> DEFINE f == [i \in 1..0 |-> seqs[i]]
  <2>1. f = [i \in 1..0 |-> IF i = 1 THEN seqs[i] ELSE f[i - 1] \o seqs[i]]  OBVIOUS
  <2> HIDE DEF f
  <2>2. Flattens(f, seqs, 0)  BY <2>1 DEF Flattens
  <2> QED  BY <2>2
<1>2. ASSUME NEW m \in Nat, m \in S  PROVE m + 1 \in S
  <2>1. PICK f : Flattens(f, seqs, m)  BY <1>2
  <2> DEFINE g == [i \in 1..m + 1 |->
                     IF i = m + 1 THEN IF i = 1 THEN seqs[i] ELSE f[m] \o seqs[i] ELSE f[i]]
  <2>2. \A i \in 1..m + 1 : g[i] = IF i = 1 THEN seqs[i] ELSE g[i - 1] \o seqs[i]
    <3> TAKE i \in 1..m + 1
    <3>1. CASE i = m + 1
      <4>1. i # 1 => i - 1 \in 1..m + 1 /\ i - 1 # m + 1 /\ i - 1 = m  BY <3>1
      <4> QED  BY <3>1, <4>1
    <3>2. CASE i # m + 1
      <4>1. i \in 1..m /\ (i = 1 \/ (i - 1 \in 1..m + 1 /\ i - 1 # m + 1))  BY <3>2
      <4>2. g[i] = f[i] /\ (i = 1 \/ g[i - 1] = f[i - 1])  BY <4>1
      <4>3. f[i] = IF i = 1 THEN seqs[i] ELSE f[i - 1] \o seqs[i]  BY <2>1, <4>1 DEF Flattens
      <4> QED  BY <4>2, <4>3
    <3> QED  BY <3>1, <3>2
  <2>3. g = [i \in 1..m + 1 |-> g[i]]  OBVIOUS
  <2> HIDE DEF g
  <2>4. Flattens(g, seqs, m + 1)  BY <2>2, <2>3 DEF Flattens
  <2> QED  BY <2>4
<1>3. Nat \subseteq S
  <2> HIDE DEF S
  <2> QED  BY <1>1, <1>2, Induction
<1> QED  BY <1>3

\* seqs are n sequences over T, g[k] is the first k of them in one.
Parts(n, T, seqs) == n \in Nat /\ seqs \in [1..n -> Seq(T)]
JoinedUpTo(g, n, T, seqs) ==
    /\ g \in [0..n -> Seq(T)] /\ g[0] = << >>
    /\ \A k \in 1..n : g[k] = g[k - 1] \o seqs[k]

\* FlattenSeq appends one part after the other to the empty sequence.
LEMMA FlattenSteps ==
  ASSUME NEW T, NEW n, NEW seqs, Parts(n, T, seqs)
  PROVE  \E g : JoinedUpTo(g, n, T, seqs) /\ g[n] = FlattenSeq(seqs)
<1> USE DEF Parts
<1>1. Len(seqs) = n /\ seqs \in Seq(Seq(T))  OBVIOUS
<1>2. CASE n = 0
  <2> DEFINE g == [i \in 0..0 |-> << >>]
  <2>1. seqs = << >>  BY <1>1, <1>2
  <2>2. FlattenSeq(seqs) = << >>  BY <1>1, <1>2, <2>1 DEF FlattenSeq
  <2>3. g \in [0..n -> Seq(T)] /\ g[0] = << >>  BY <1>2
  <2> HIDE DEF g
  <2> QED  BY <1>2, <2>2, <2>3 DEF JoinedUpTo
<1>3. CASE n # 0
  <2> DEFINE f == CHOOSE f : f = [i \in 1..n |-> IF i = 1 THEN seqs[i] ELSE f[i - 1] \o seqs[i]]
             g == [k \in 0..n |-> IF k = 0 THEN << >> ELSE f[k]]
  <2>1. FlattenSeq(seqs) = f[n]  BY <1>1, <1>3, Zenon DEF FlattenSeq
  <2>2. f = CHOOSE h : Flattens(h, seqs, n)  BY Zenon DEF Flattens
  <2> HIDE DEF f
  <2>3. Flattens(f, seqs, n)  BY <2>2, FlattensExists
  <2>4. \A i \in 1..n : f[i] = IF i = 1 THEN seqs[i] ELSE f[i - 1] \o seqs[i]
    BY <2>3 DEF Flattens
  <2>5. g[0] = << >> /\ g[n] = f[n] /\ \A k \in 1..n : g[k] = f[k]  BY <1>3
  <2>6. \A k \in 1..n : k - 1 \in 0..n /\ g[k - 1] = IF k = 1 THEN << >> ELSE f[k - 1]  OBVIOUS
  <2>7. g = [k \in 0..n |-> g[k]]  OBVIOUS
  <2> HIDE DEF g
  <2>8. \A k \in 1..n : g[k] = g[k - 1] \o seqs[k]
    <3> TAKE k \in 1..n
    <3>1. seqs[k] \in Seq(T)  OBVIOUS
    <3>2. << >> \o seqs[k] = seqs[k]  BY <3>1
    <3> QED  BY <2>4, <2>5, <2>6, <3>2
  <2>9. \A k \in 0..n : g[k] \in Seq(T)
    <3> DEFINE S == {k \in Nat : k <= n => g[k] \in Seq(T)}
    <3>1. 0 \in S
      <4>1. << >> \in Seq(T)  OBVIOUS
      <4> QED  BY <2>5, <4>1
    <3>2. \A k \in 0..n - 1 : k \in S => k + 1 \in S
      <4> SUFFICES ASSUME NEW k \in 0..n - 1, g[k] \in Seq(T) PROVE g[k + 1] \in Seq(T)
        OBVIOUS
      <4>1. k + 1 \in 1..n /\ (k + 1) - 1 = k  OBVIOUS
      <4>2. g[k + 1] = g[k] \o seqs[k + 1]  BY <2>8, <4>1
      <4>3. seqs[k + 1] \in Seq(T)  BY <4>1
      <4> QED  BY <4>2, <4>3
    <3> HIDE DEF S
    <3>3. 0..n \subseteq S  BY <3>1, <3>2, InductionTo
    <3> QED  BY <3>3 DEF S
  <2>10. g \in [0..n -> Seq(T)]  BY <2>7, <2>9
  <2> QED  BY <2>1, <2>5, <2>8, <2>10 DEF JoinedUpTo
<1> QED  BY <1>2, <1>3

\* f holds nothing but the elements of the n sequences, and all of them.
FromParts(f, n, seqs) ==
    \A i \in DOMAIN f : \E k \in 1..n : \E j \in DOMAIN seqs[k] : f[i] = seqs[k][j]
HasParts(f, n, seqs) ==
    \A k \in 1..n : \A j \in DOMAIN seqs[k] : \E i \in DOMAIN f : f[i] = seqs[k][j]

\* The elements of a flattened sequence are those of its parts.
LEMMA FlattenElements ==
  ASSUME NEW T, NEW n, NEW seqs, Parts(n, T, seqs)
  PROVE  /\ FlattenSeq(seqs) \in Seq(T)
         /\ FromParts(FlattenSeq(seqs), n, seqs) /\ HasParts(FlattenSeq(seqs), n, seqs)
<1> USE DEF Parts
<1>0. PICK g : JoinedUpTo(g, n, T, seqs) /\ g[n] = FlattenSeq(seqs)  BY FlattenSteps
<1>1. /\ g \in [0..n -> Seq(T)] /\ g[0] = << >>
      /\ \A k \in 1..n : g[k] = g[k - 1] \o seqs[k]
      /\ g[n] = FlattenSeq(seqs)
  BY <1>0 DEF JoinedUpTo
<1> DEFINE Here(m) ==
       /\ \A i \in DOMAIN g[m] : \E k \in 1..m : \E j \in DOMAIN seqs[k] : g[m][i] = seqs[k][j]
       /\ \A k \in 1..m : \A j \in DOMAIN seqs[k] : \E i \in DOMAIN g[m] : g[m][i] = seqs[k][j]
           S == {m \in 0..n : Here(m)}
<1>2. 0 \in S  BY <1>1
<1>3. \A m \in 0..n - 1 : m \in S => m + 1 \in S
  <2> SUFFICES ASSUME NEW m \in 0..n - 1, Here(m) PROVE Here(m + 1)
    <3> HIDE DEF Here
    <3> QED  OBVIOUS
  <2>1. m + 1 \in 1..n /\ (m + 1) - 1 = m /\ m \in 0..n /\ m + 1 \in 0..n  OBVIOUS
  <2>2. g[m + 1] = g[m] \o seqs[m + 1]  BY <1>1, <2>1
  <2> DEFINE a == g[m]
             b == seqs[m + 1]
             c == g[m + 1]
  <2>3. a \in Seq(T) /\ b \in Seq(T) /\ c = a \o b  BY <1>1, <2>1, <2>2
  <2>4. /\ DOMAIN a = 1..Len(a) /\ DOMAIN b = 1..Len(b) /\ DOMAIN c = 1..(Len(a) + Len(b))
        /\ Len(a) \in Nat /\ Len(b) \in Nat
        /\ \A i \in DOMAIN a : i \in DOMAIN c /\ c[i] = a[i]
        /\ \A i \in DOMAIN b : Len(a) + i \in DOMAIN c /\ c[Len(a) + i] = b[i]
    <3> HIDE DEF a, b, c
    <3> QED  BY <2>3
  <2>5. \A i \in DOMAIN c : i \in DOMAIN a \/ (i - Len(a) \in DOMAIN b /\ c[i] = b[i - Len(a)])
    <3> HIDE DEF a, b, c
    <3> TAKE i \in DOMAIN c
    <3>1. i \notin DOMAIN a => i - Len(a) \in DOMAIN b /\ Len(a) + (i - Len(a)) = i  BY <2>4
    <3> QED  BY <2>4, <3>1
  <2>6. \A k \in 1..m + 1 : k \in 1..m \/ k = m + 1  OBVIOUS
  <2>7. \A k \in 1..m : k \in 1..m + 1  OBVIOUS
  <2>8. ASSUME NEW i \in DOMAIN c
        PROVE  \E k \in 1..m + 1 : \E j \in DOMAIN seqs[k] : c[i] = seqs[k][j]
    <3>1. CASE i \in DOMAIN a
      <4>1. PICK k \in 1..m : \E j \in DOMAIN seqs[k] : a[i] = seqs[k][j]  BY <3>1
      <4> HIDE DEF a, c
      <4> QED  BY <2>4, <2>7, <3>1, <4>1
    <3>2. CASE i \notin DOMAIN a
      <4>1. m + 1 \in 1..m + 1  OBVIOUS
      <4> QED  BY <2>5, <3>2, <4>1
    <3> QED  BY <3>1, <3>2
  <2>9. ASSUME NEW k \in 1..m + 1, NEW j \in DOMAIN seqs[k]
        PROVE  \E i \in DOMAIN c : c[i] = seqs[k][j]
    <3>1. CASE k \in 1..m
      <4>1. PICK i \in DOMAIN a : a[i] = seqs[k][j]  BY <3>1
      <4> HIDE DEF a, c
      <4> QED  BY <2>4, <4>1
    <3>2. CASE k = m + 1  BY <2>4, <3>2
    <3> QED  BY <2>6, <3>1, <3>2
  <2> QED  BY <2>8, <2>9
<1> HIDE DEF S
<1>4. 0..n \subseteq S  BY <1>2, <1>3, InductionTo
<1>5. Here(n)  BY <1>4 DEF S
<1> QED  BY <1>1, <1>5 DEF FromParts, HasParts

=============================================================================
