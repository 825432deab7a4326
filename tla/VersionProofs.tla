---------------------------- MODULE VersionProofs ---------------------------
(***************************************************************************)
(* Facts about the operators of Version, for any options and any versions: *)
(*   Kept, MergeFiles       the recursive functions that filter and merge  *)
(*                          files solve their equations, keep the order    *)
(*                          and neither lose nor invent files;             *)
(*   FilesBelow, Get        halving counts the files below a key, and a    *)
(*                          lookup in a version in order returns what the  *)
(*                          newest table that has the key says;            *)
(*   Applied                what an edit does to each level: AppliedFiles, *)
(*                          EditedFrom, EditedTo, SortedAfterEdit,         *)
(*                          NewestAfterEdit;                               *)
(*   Expanded, InputsFrom   what a compaction takes: nothing that touches  *)
(*                          the range of its inputs is left behind;        *)
(*   MergedPairs, OutputKeys   what it writes: all keys of its inputs, and *)
(*                          of each key the pair of the newest input.      *)
(***************************************************************************)
EXTENDS Version, NaturalsInduction, WellFoundedInduction, SequenceTheorems, FiniteSetTheorems, TLAPS

\* Every nonempty set of natural numbers has a least element.
LEMMA LeastNumber ==
  ASSUME NEW S, S \subseteq Nat, S # {}
  PROVE  \E m \in S : \A n \in S : m <= n
  <1> DEFINE R == OpToRel(<, Nat)
  <1>1. IsWellFoundedOn(R, Nat)
    BY NatLessThanWellFounded
  <1>2. \A m, n \in Nat : n < m => <<n, m>> \in R
    BY DEF OpToRel
  <1> HIDE DEF R
  <1>3. PICK m \in S : \A n \in S : ~ (<<n, m>> \in R)
    BY <1>1, WFMin
  <1>4. \A n \in S : m <= n
    <2>1. SUFFICES ASSUME NEW n \in S PROVE m <= n
      OBVIOUS
    <2>2. m \in Nat /\ n \in Nat
      OBVIOUS
    <2>3. ~ (n < m)
      BY <1>2, <1>3, <2>2
    <2>4. QED
      BY <2>2, <2>3
  <1>5. QED
    BY <1>4

\* What holds where it holds at all that ranks lower holds everywhere.
LEMMA LowerRankFirst ==
  ASSUME NEW D, NEW rank \in [D -> Nat], NEW G,
         \A x \in D : (\A y \in D : rank[y] < rank[x] => y \in G) => x \in G
  PROVE  D \subseteq G
  <1>1. SUFFICES ASSUME D \ G # {} PROVE FALSE
    OBVIOUS
  <1> DEFINE S == {rank[x] : x \in D \ G}
  <1>2. S \subseteq Nat /\ S # {}
    BY <1>1
  <1>3. PICK m \in S : \A n \in S : m <= n
    BY <1>2, LeastNumber
  <1>4. PICK x \in D \ G : rank[x] = m
    BY <1>3
  <1>5. \A y \in D : rank[y] < rank[x] => y \in G
    <2>1. SUFFICES ASSUME NEW y \in D, rank[y] < rank[x], y \notin G PROVE FALSE
      OBVIOUS
    <2>2. rank[y] \in S
      BY <2>1
    <2>3. m <= rank[y] /\ m \in Nat /\ rank[y] \in Nat
      BY <1>2, <1>3, <2>2
    <2>4. QED
      BY <1>4, <2>1, <2>3
  <1>6. QED
    BY <1>4, <1>5

\* A set with 0 that has the next of each of its numbers has them all.
LEMMA CountUp ==
  ASSUME NEW G, 0 \in G, \A n \in Nat : n \in G => n + 1 \in G
  PROVE  Nat \subseteq G
  <1> DEFINE rank == [n \in Nat |-> n]
  <1>1. rank \in [Nat -> Nat]
    OBVIOUS
  <1>2. ASSUME NEW x \in Nat, \A y \in Nat : rank[y] < rank[x] => y \in G PROVE x \in G
    <2>1. CASE x = 0
      BY <2>1
    <2>2. CASE x # 0
      <3>1. x - 1 \in Nat /\ rank[x-1] < rank[x] /\ x = (x - 1) + 1
        BY <2>2
      <3>2. x - 1 \in G
        BY <1>2, <3>1
      <3>3. QED
        BY <3>1, <3>2
    <2>3. QED
      BY <2>1, <2>2
  <1> HIDE DEF rank
  <1>3. QED
    BY <1>1, <1>2, LowerRankFirst

\* A finite nonempty set of integers has a least and a greatest element.
LEMMA MinAndMax ==
  ASSUME NEW S, S \subseteq Int, IsFiniteSet(S), S # {}
  PROVE  /\ Min(S) \in S /\ \A x \in S : Min(S) <= x
         /\ Max(S) \in S /\ \A x \in S : x <= Max(S)
  <1> DEFINE Least(T) == \E m \in T : \A x \in T : m <= x
             Greatest(T) == \E m \in T : \A x \in T : m >= x
             G == {n \in Nat : \A T \in SUBSET Int :
                     IsFiniteSet(T) /\ Cardinality(T) = n + 1 => Least(T) /\ Greatest(T)}
  <1>1. 0 \in G
    <2>1. SUFFICES ASSUME NEW T \in SUBSET Int, IsFiniteSet(T), Cardinality(T) = 0 + 1
                   PROVE  Least(T) /\ Greatest(T)
      OBVIOUS
    <2>2. PICK x : T = {x}
      <3>1. Cardinality(T) = 1
        BY <2>1
      <3>2. QED
        BY <2>1, <3>1, FS_Singleton
    <2>3. x \in Int
      BY <2>2
    <2>4. QED
      BY <2>2, <2>3
  <1>2. ASSUME NEW n \in Nat, n \in G PROVE n + 1 \in G
    <2>1. SUFFICES ASSUME NEW T \in SUBSET Int, IsFiniteSet(T), Cardinality(T) = (n + 1) + 1
                   PROVE  Least(T) /\ Greatest(T)
      OBVIOUS
    <2>2. PICK x \in T : TRUE
      <3>1. Cardinality(T) # 0
        BY <2>1
      <3>2. T # {}
        BY <2>1, <3>1, FS_EmptySet
      <3>3. QED
        BY <3>2
    <2>3. IsFiniteSet(T \ {x}) /\ Cardinality(T \ {x}) = n + 1
      BY <2>1, FS_RemoveElement
    <2>4. Least(T \ {x}) /\ Greatest(T \ {x})
      BY <1>2, <2>3
    <2>5. PICK low \in T \ {x}, high \in T \ {x} : \A y \in T \ {x} : low <= y /\ high >= y
      BY <2>4
    <2>6. \A y \in T : y \in Int
      OBVIOUS
    <2>7. Least(T)
      <3>1. CASE x <= low
        BY <2>5, <2>6, <3>1
      <3>2. CASE ~ (x <= low)
        BY <2>5, <2>6, <3>2
      <3>3. QED
        BY <3>1, <3>2
    <2>8. Greatest(T)
      <3>1. CASE x >= high
        BY <2>5, <2>6, <3>1
      <3>2. CASE ~ (x >= high)
        BY <2>5, <2>6, <3>2
      <3>3. QED
        BY <3>1, <3>2
    <2>9. QED
      BY <2>7, <2>8
  <1> HIDE DEF G
  <1>3. Nat \subseteq G
    BY <1>1, <1>2, CountUp
  <1>4. Cardinality(S) - 1 \in Nat /\ (Cardinality(S) - 1) + 1 = Cardinality(S)
    BY FS_CardinalityType, FS_EmptySet
  <1>5. Least(S) /\ Greatest(S)
    BY <1>3, <1>4 DEF G
  <1>6. QED
    BY <1>5 DEF Min, Max

\* What a function is at x depends only on what it is at lower ranks.
OnLower(D, V, rank, step) ==
  /\ V # {} /\ rank \in [D -> Nat] /\ step \in [D -> [[D -> V] -> V]]
  /\ \A x \in D : \A f, g \in [D -> V] :
       (\A y \in D : rank[y] < rank[x] => f[y] = g[y]) => step[x][f] = step[x][g]

HasSolution(D, V, step) == \E f \in [D -> V] : \A x \in D : f[x] = step[x][f]

\* A function may be defined by recursion on lower ranks.
LEMMA RecursionOnRank ==
  ASSUME NEW D, NEW V, NEW rank, NEW step, OnLower(D, V, rank, step)
  PROVE  HasSolution(D, V, step)
  <1>0. SUFFICES ASSUME NEW v0 \in V, rank \in [D -> Nat], step \in [D -> [[D -> V] -> V]],
                        \A x \in D : \A f, g \in [D -> V] :
                          (\A y \in D : rank[y] < rank[x] => f[y] = g[y]) => step[x][f] = step[x][g]
                 PROVE  HasSolution(D, V, step)
    BY DEF OnLower
  <1> USE <1>0
  <1> DEFINE Good(f, n) == f \in [D -> V] /\ \A x \in D : rank[x] < n => f[x] = step[x][f]
             E == {n \in Nat : \E f \in [D -> V] : Good(f, n)}
  <1>1. 0 \in E
    <2>1. [x \in D |-> v0] \in [D -> V]
      OBVIOUS
    <2>2. Good([x \in D |-> v0], 0)
      BY <2>1
    <2>3. QED
      BY <2>1, <2>2
  <1>2. ASSUME NEW n \in Nat, n \in E PROVE n + 1 \in E
    <2>1. PICK f \in [D -> V] : Good(f, n)
      BY <1>2
    <2> DEFINE g == [x \in D |-> IF rank[x] <= n THEN step[x][f] ELSE v0]
    <2>2. \A x \in D : step[x][f] \in V
      OBVIOUS
    <2>3. g \in [D -> V]
      BY <2>2
    <2>4. ASSUME NEW x \in D, rank[x] < n + 1 PROVE g[x] = step[x][g]
      <3>1. rank[x] \in Nat /\ rank[x] <= n
        BY <2>4
      <3>2. ASSUME NEW y \in D, rank[y] < rank[x] PROVE f[y] = g[y]
        <4>1. rank[y] \in Nat /\ rank[y] < n
          BY <3>1, <3>2
        <4>2. QED
          BY <2>1, <4>1
      <3>3. step[x][f] = step[x][g]
        BY <2>3, <3>2
      <3>4. QED
        BY <3>1, <3>3
    <2> HIDE DEF g
    <2>5. Good(g, n + 1)
      BY <2>3, <2>4
    <2>6. QED
      BY <2>3, <2>5
  <1>3. \A n \in Nat : \E f \in [D -> V] : Good(f, n)
    <2>1. Nat \subseteq E
      <3> HIDE DEF E
      <3>1. QED
        BY <1>1, <1>2, CountUp
    <2>2. QED
      BY <2>1
  <1>4. ASSUME NEW n \in Nat, NEW f \in [D -> V], NEW g \in [D -> V], Good(f, n), Good(g, n)
        PROVE  \A x \in D : rank[x] < n => f[x] = g[x]
    <2> DEFINE A == {x \in D : rank[x] < n => f[x] = g[x]}
    <2>1. ASSUME NEW x \in D, \A y \in D : rank[y] < rank[x] => y \in A PROVE x \in A
      <3>1. SUFFICES ASSUME rank[x] < n PROVE f[x] = g[x]
        OBVIOUS
      <3>2. ASSUME NEW y \in D, rank[y] < rank[x] PROVE f[y] = g[y]
        <4>1. rank[y] \in Nat /\ rank[x] \in Nat /\ rank[y] < n
          BY <3>1, <3>2
        <4>2. QED
          BY <2>1, <3>2, <4>1
      <3>3. step[x][f] = step[x][g]
        BY <3>2
      <3>4. QED
        BY <1>4, <3>1, <3>3
    <2> HIDE DEF A
    <2>2. D \subseteq A
      BY <2>1, LowerRankFirst
    <2>3. QED
      BY <2>2 DEF A
  <1> HIDE DEF Good
  <1> DEFINE Upto(x) == CHOOSE f \in [D -> V] : Good(f, rank[x] + 1)
             F == [x \in D |-> Upto(x)[x]]
  <1>5. \A x \in D : Upto(x) \in [D -> V] /\ Good(Upto(x), rank[x] + 1)
    <2>1. SUFFICES ASSUME NEW x \in D PROVE Upto(x) \in [D -> V] /\ Good(Upto(x), rank[x] + 1)
      OBVIOUS
    <2>2. rank[x] + 1 \in Nat
      OBVIOUS
    <2>3. QED
      BY <1>3, <2>2
  <1> HIDE DEF Upto
  <1>6. F \in [D -> V]
    BY <1>5
  <1>7. ASSUME NEW x \in D PROVE F[x] = step[x][F]
    <2>1. ASSUME NEW y \in D, rank[y] < rank[x] PROVE Upto(x)[y] = F[y]
      <3>1. rank[y] + 1 \in Nat /\ rank[y] < rank[y] + 1 /\ rank[x] \in Nat /\ rank[y] \in Nat
        OBVIOUS
      <3>2. Good(Upto(x), rank[y] + 1)
        <4>1. \A z \in D : rank[z] < rank[y] + 1 => rank[z] < rank[x] + 1
          BY <2>1, <3>1
        <4>2. QED
          BY <1>5, <4>1 DEF Good
      <3>3. Upto(x)[y] = Upto(y)[y]
        <4>1. Upto(x) \in [D -> V] /\ Upto(y) \in [D -> V] /\ Good(Upto(y), rank[y] + 1)
          BY <1>5
        <4> DEFINE n == rank[y] + 1
                   a == Upto(x)
                   b == Upto(y)
        <4>2. n \in Nat /\ rank[y] < n /\ a \in [D -> V] /\ b \in [D -> V] /\ Good(a, n) /\ Good(b, n)
          BY <3>1, <3>2, <4>1
        <4> HIDE DEF n, a, b
        <4>3. \A z \in D : rank[z] < n => a[z] = b[z]
          BY <1>4, <4>2
        <4>4. a[y] = b[y]
          BY <4>2, <4>3
        <4>5. QED
          BY <4>4 DEF a, b
      <3>4. QED
        BY <3>3
    <2> HIDE DEF F
    <2>2. step[x][Upto(x)] = step[x][F]
      BY <1>5, <1>6, <2>1
    <2>3. rank[x] < rank[x] + 1
      BY rank[x] \in Nat
    <2>4. Upto(x)[x] = step[x][Upto(x)]
      BY <1>5, <2>3 DEF Good
    <2>5. F[x] = Upto(x)[x]
      BY DEF F
    <2>6. QED
      BY <2>2, <2>4, <2>5
  <1> HIDE DEF F
  <1>8. QED
    BY <1>6, <1>7 DEF HasSolution

-----------------------------------------------------------------------------
(* Sequences and the order of their elements. *)

\* Each element of s is related by lt to those after it.
Ordered(s, lt) == \A i, j \in DOMAIN s : i < j => <<s[i], s[j]>> \in lt

\* An element in front of a sequence.
LEMMA InFront ==
  ASSUME NEW X, NEW h \in X, NEW t \in Seq(X)
  PROVE  /\ <<h>> \o t \in Seq(X)
         /\ Len(<<h>> \o t) = Len(t) + 1
         /\ \A i \in 1 .. Len(t) + 1 : (<<h>> \o t)[i] = IF i = 1 THEN h ELSE t[i - 1]
         /\ Range(<<h>> \o t) = {h} \cup Range(t)
  <1>1. <<h>> \in Seq(X) /\ Len(<<h>>) = 1 /\ <<h>>[1] = h
    OBVIOUS
  <1>2. /\ <<h>> \o t \in Seq(X)
        /\ Len(<<h>> \o t) = 1 + Len(t)
        /\ \A i \in 1 .. 1 + Len(t) : (<<h>> \o t)[i] = IF i <= 1 THEN <<h>>[i] ELSE t[i - 1]
    BY <1>1, ConcatProperties
  <1>3. Len(t) \in Nat
    BY LenProperties
  <1>4. Range(<<h>> \o t) = Range(<<h>>) \cup Range(t)
    BY <1>1, RangeConcatenation
  <1>5. Range(<<h>>) = {h}
    BY <1>1 DEF Range
  <1>6. \A i \in 1 .. Len(t) + 1 : (<<h>> \o t)[i] = IF i = 1 THEN h ELSE t[i - 1]
    BY <1>1, <1>2, <1>3
  <1>7. QED
    BY <1>2, <1>3, <1>4, <1>5, <1>6

\* ... which is ordered if the element is before all of an ordered one.
LEMMA InFrontOrdered ==
  ASSUME NEW X, NEW h \in X, NEW t \in Seq(X), NEW lt, Ordered(t, lt),
         \A x \in Range(t) : <<h, x>> \in lt
  PROVE  Ordered(<<h>> \o t, lt)
  <1>1. DOMAIN (<<h>> \o t) = 1 .. Len(t) + 1 /\ DOMAIN t = 1 .. Len(t) /\ Len(t) \in Nat
    BY InFront, LenProperties
  <1>2. SUFFICES ASSUME NEW i \in 1 .. Len(t) + 1, NEW j \in 1 .. Len(t) + 1, i < j
                 PROVE  <<(<<h>> \o t)[i], (<<h>> \o t)[j]>> \in lt
    BY <1>1 DEF Ordered
  <1>3. j - 1 \in DOMAIN t /\ (<<h>> \o t)[j] = t[j - 1]
    BY <1>1, <1>2, InFront
  <1>4. CASE i = 1
    BY <1>3, <1>4, InFront DEF Range
  <1>5. CASE i # 1
    <2>1. i - 1 \in DOMAIN t /\ (<<h>> \o t)[i] = t[i - 1] /\ i - 1 < j - 1
      BY <1>1, <1>2, <1>5, InFront
    <2>2. QED
      BY <1>3, <2>1 DEF Ordered
  <1>6. QED
    BY <1>4, <1>5

\* A sequence without its first element.
LEMMA WithoutFirst ==
  ASSUME NEW X, NEW s \in Seq(X), s # <<>>
  PROVE  /\ Head(s) \in X /\ Tail(s) \in Seq(X) /\ Len(Tail(s)) < Len(s)
         /\ Range(s) = {Head(s)} \cup Range(Tail(s))
         /\ \A lt : Ordered(s, lt) => /\ Ordered(Tail(s), lt)
                                     /\ \A x \in Range(Tail(s)) : <<Head(s), x>> \in lt
  <1>1. /\ Head(s) \in X /\ Tail(s) \in Seq(X) /\ Len(Tail(s)) = Len(s) - 1
        /\ \A i \in 1 .. Len(Tail(s)) : Tail(s)[i] = s[i + 1]
        /\ DOMAIN s = 1 .. Len(s) /\ DOMAIN Tail(s) = 1 .. Len(Tail(s)) /\ Len(s) \in Nat
        /\ Head(s) = s[1] /\ Len(s) > 0
    BY HeadTailProperties, LenProperties, EmptySeq
  <1> DEFINE u == Tail(s)
             h == Head(s)
  <1> HIDE DEF u, h
  <1>2. /\ u \in Seq(X) /\ Len(u) = Len(s) - 1 /\ \A i \in 1 .. Len(u) : u[i] = s[i + 1]
        /\ DOMAIN s = 1 .. Len(s) /\ DOMAIN u = 1 .. Len(u) /\ Len(s) \in Nat
        /\ h = s[1] /\ Len(s) > 0 /\ h \in X
    BY <1>1 DEF u, h
  <1>3. \A i \in DOMAIN u : i + 1 \in DOMAIN s /\ u[i] = s[i + 1] /\ 1 < i + 1
    BY <1>2
  <1>4. \A i \in DOMAIN s : i # 1 => i - 1 \in DOMAIN u /\ u[i - 1] = s[i]
    BY <1>2
  <1>5. 1 \in DOMAIN s
    BY <1>2
  <1>6. Range(s) = {h} \cup Range(u)
    BY <1>2, <1>3, <1>4, <1>5 DEF Range
  <1>7. ASSUME NEW lt, Ordered(s, lt)
        PROVE  Ordered(u, lt) /\ \A x \in Range(u) : <<h, x>> \in lt
    <2>1. \A x \in Range(u) : <<h, x>> \in lt
      BY <1>2, <1>3, <1>5, <1>7 DEF Range, Ordered
    <2>2. \A i, j \in DOMAIN u : i < j => i + 1 < j + 1
      BY <1>2
    <2>3. QED
      BY <1>3, <1>7, <2>1, <2>2 DEF Ordered
  <1>8. Len(u) < Len(s)
    BY <1>2
  <1>9. QED
    BY <1>2, <1>6, <1>7, <1>8 DEF u, h

\* The rest of a sequence.
LEMMA Suffix ==
  ASSUME NEW X, NEW s \in Seq(X), NEW j \in 1 .. Len(s) + 1
  PROVE  /\ SubSeq(s, j, Len(s)) \in Seq(X)
         /\ Range(SubSeq(s, j, Len(s))) = {s[i] : i \in j .. Len(s)}
         /\ \A lt : Ordered(s, lt) => Ordered(SubSeq(s, j, Len(s)), lt)
  <1>1. Len(s) \in Nat /\ DOMAIN s = 1 .. Len(s) /\ \A i \in 1 .. Len(s) : s[i] \in X
    BY LenProperties
  <1> DEFINE u == SubSeq(s, j, Len(s))
  <1>2. /\ u \in Seq(X)
        /\ Len(u) = IF j <= Len(s) THEN Len(s) - j + 1 ELSE 0
        /\ \A i \in 1 .. Len(s) - j + 1 : u[i] = s[j + i - 1]
    <2>1. \A i \in j .. Len(s) : s[i] \in X
      BY <1>1
    <2>2. QED
      BY <1>1, <2>1, SubSeqProperties
  <1> HIDE DEF u
  <1>3. Len(u) = Len(s) - j + 1 /\ DOMAIN u = 1 .. Len(s) - j + 1
    <2>1. DOMAIN u = 1 .. Len(u)
      BY <1>2, LenProperties
    <2>2. QED
      BY <1>1, <1>2, <2>1
  <1>4. \A i \in DOMAIN u : j + i - 1 \in j .. Len(s) /\ u[i] = s[j + i - 1]
    BY <1>1, <1>2, <1>3
  <1>5. \A i \in j .. Len(s) : i - j + 1 \in DOMAIN u /\ u[i - j + 1] = s[i] /\ i \in DOMAIN s
    <2>1. SUFFICES ASSUME NEW i \in j .. Len(s)
                   PROVE  i - j + 1 \in DOMAIN u /\ u[i - j + 1] = s[i] /\ i \in DOMAIN s
      OBVIOUS
    <2>2. i - j + 1 \in 1 .. Len(s) - j + 1 /\ j + (i - j + 1) - 1 = i /\ i \in 1 .. Len(s)
      BY <1>1
    <2>3. QED
      BY <1>1, <1>2, <1>3, <2>2
  <1>6. Range(u) = {s[i] : i \in j .. Len(s)}
    BY <1>4, <1>5 DEF Range
  <1>7. ASSUME NEW lt, Ordered(s, lt) PROVE Ordered(u, lt)
    <2>1. \A a, b \in DOMAIN u : a < b => j + a - 1 < j + b - 1
      BY <1>1, <1>3
    <2>2. \A a \in DOMAIN u : j + a - 1 \in DOMAIN s
      BY <1>1, <1>3
    <2>3. QED
      BY <1>4, <1>7, <2>1, <2>2 DEF Ordered
  <1>8. QED
    BY <1>2, <1>6, <1>7 DEF u

-----------------------------------------------------------------------------
(* Iterator::filter. *)

\* The recursion of Kept has a solution, which Kept is.
LEMMA KeptEquation ==
  ASSUME NEW s, NEW T, s \in Seq(Range(s))
  PROVE  \E kept \in [Seq(Range(s)) -> Seq(Range(s))] :
           /\ Kept(s, T) = kept[s]
           /\ \A r \in Seq(Range(s)) :
                kept[r] = CASE r = <<>> -> <<>>
                            [] r # <<>> /\ Head(r) \in T -> <<Head(r)>> \o kept[Tail(r)]
                            [] OTHER -> kept[Tail(r)]
  <1> DEFINE S == Range(s)
             D == Seq(S)
             E(f, rest) == CASE rest = <<>> -> <<>>
                           [] rest # <<>> /\ Head(rest) \in T -> <<Head(rest)>> \o f[Tail(rest)]
                           [] OTHER -> f[Tail(rest)]
             kept == CHOOSE f : f = [rest \in D |-> E(f, rest)]
             rank == [r \in D |-> Len(r)]
             step == [r \in D |-> [f \in [D -> D] |-> E(f, r)]]
  <1>1. Kept(s, T) = kept[s]
    BY DEF Kept
  <1>2. \A r \in D : r # <<>> => /\ Head(r) \in S /\ Tail(r) \in D /\ Len(Tail(r)) < Len(r)
                                /\ <<Head(r)>> \in D
    BY HeadTailProperties, LenProperties
  <1>3. <<>> \in D /\ rank \in [D -> Nat]
    BY EmptySeq, LenProperties
  <1>4. \A r \in D, f \in [D -> D] : E(f, r) \in D
    <2>1. SUFFICES ASSUME NEW r \in D, NEW f \in [D -> D] PROVE E(f, r) \in D
      OBVIOUS
    <2>2. CASE r = <<>>
      BY <1>3, <2>2
    <2>3. CASE r # <<>>
      <3>1. f[Tail(r)] \in D
        BY <1>2, <2>3
      <3>2. <<Head(r)>> \o f[Tail(r)] \in D
        BY <1>2, <2>3, <3>1, ConcatProperties
      <3>3. QED
        BY <2>3, <3>1, <3>2
    <2>4. QED
      BY <2>2, <2>3
  <1>5. step \in [D -> [[D -> D] -> D]]
    <2> HIDE DEF D, E
    <2>1. QED
      BY <1>4
  <1>6. \A x \in D : \A f, g \in [D -> D] :
          (\A y \in D : rank[y] < rank[x] => f[y] = g[y]) => step[x][f] = step[x][g]
    <2>1. SUFFICES ASSUME NEW x \in D, NEW f \in [D -> D], NEW g \in [D -> D],
                          \A y \in D : rank[y] < rank[x] => f[y] = g[y]
                   PROVE  E(f, x) = E(g, x)
      OBVIOUS
    <2>2. CASE x = <<>>
      BY <2>2
    <2>3. CASE x # <<>>
      <3>1. Tail(x) \in D /\ rank[Tail(x)] < rank[x]
        BY <1>2, <2>3
      <3>2. f[Tail(x)] = g[Tail(x)]
        BY <2>1, <3>1
      <3>3. QED
        BY <2>3, <3>2
    <2>4. QED
      BY <2>2, <2>3
  <1>7. \E f \in [D -> D] : \A x \in D : f[x] = step[x][f]
    <2> HIDE DEF D, step, rank
    <2>1. OnLower(D, D, rank, step)
      BY <1>3, <1>5, <1>6 DEF OnLower
    <2>2. QED
      BY <2>1, RecursionOnRank DEF HasSolution
  <1>8. PICK h \in [D -> D] : \A x \in D : h[x] = step[x][h]
    BY <1>7
  <1>9. h = [x \in D |-> E(h, x)]
    BY <1>8
  <1>10. kept = [x \in D |-> E(kept, x)]
    <2> HIDE DEF E, D
    <2>1. QED
      BY <1>9
  <1>11. kept \in [D -> D]
    <2> DEFINE G == {x \in D : kept[x] \in D}
    <2>1. \A x \in D : kept[x] = E(kept, x)
      <3> HIDE DEF E, D
      <3>1. QED
        BY <1>10
    <2> HIDE DEF kept
    <2>2. ASSUME NEW x \in D, \A y \in D : rank[y] < rank[x] => y \in G PROVE x \in G
      <3>1. CASE x = <<>>
        BY <1>3, <2>1, <3>1
      <3>2. CASE x # <<>>
        <4>1. kept[Tail(x)] \in D
          BY <1>2, <2>2, <3>2
        <4>2. <<Head(x)>> \o kept[Tail(x)] \in D
          BY <1>2, <3>2, <4>1, ConcatProperties
        <4>3. QED
          BY <2>1, <3>2, <4>1, <4>2
      <3>3. QED
        BY <3>1, <3>2
    <2> HIDE DEF D, G, rank
    <2>3. D \subseteq G
      <3>1. rank \in [D -> Nat]
        BY <1>3
      <3>2. \A x \in D : (\A y \in D : rank[y] < rank[x] => y \in G) => x \in G
        BY <2>2
      <3>3. QED
        BY <3>1, <3>2, LowerRankFirst
    <2>4. kept = [x \in D |-> kept[x]]
      <3>1. kept = [x \in D |-> E(kept, x)]
        BY <1>10
      <3> HIDE DEF E
      <3>2. QED
        BY <3>1, <2>1
    <2>5. QED
      BY <2>3, <2>4 DEF G
  <1>12. QED
    BY <1>1, <1>10, <1>11

\* A filter keeps the elements that pass, in their order.
LEMMA KeptProperties ==
  ASSUME NEW X, NEW s \in Seq(X), NEW T
  PROVE  /\ Kept(s, T) \in Seq(X)
         /\ Range(Kept(s, T)) = Range(s) \cap T
         /\ \A lt : Ordered(s, lt) => Ordered(Kept(s, T), lt)
  <1> DEFINE D == Seq(Range(s))
             rank == [r \in D |-> Len(r)]
  <1>1. s \in D /\ Range(s) \subseteq X
    BY SeqOfRange, RangeOfSeq
  <1>2. PICK kept \in [D -> D] :
          /\ Kept(s, T) = kept[s]
          /\ \A r \in D :
               kept[r] = CASE r = <<>> -> <<>>
                           [] r # <<>> /\ Head(r) \in T -> <<Head(r)>> \o kept[Tail(r)]
                           [] OTHER -> kept[Tail(r)]
    BY <1>1, KeptEquation, SMTT(30)
  <1> DEFINE G == {r \in D : /\ Range(kept[r]) = Range(r) \cap T
                            /\ \A lt : Ordered(r, lt) => Ordered(kept[r], lt)}
  <1>3. ASSUME NEW r \in D, \A y \in D : rank[y] < rank[r] => y \in G PROVE r \in G
    <2>1. CASE r = <<>>
      <3>1. kept[r] = <<>>
        BY <1>2, <2>1
      <3>2. Range(<<>>) = {} /\ \A lt : Ordered(<<>>, lt)
        BY DEF Range, Ordered
      <3>3. QED
        BY <2>1, <3>1, <3>2
    <2>2. CASE r # <<>>
      <3> DEFINE h == Head(r)
                 u == Tail(r)
      <3>1. /\ h \in Range(s) /\ u \in D /\ Len(u) < Len(r)
            /\ Range(r) = {h} \cup Range(u)
            /\ \A lt : Ordered(r, lt) => Ordered(u, lt) /\ \A x \in Range(u) : <<h, x>> \in lt
        BY <2>2, WithoutFirst
      <3>2. u \in G /\ kept[u] \in D
        BY <1>3, <3>1
      <3>3. kept[r] = IF h \in T THEN <<h>> \o kept[u] ELSE kept[u]
        BY <1>2, <2>2
      <3> HIDE DEF h, u, D
      <3>4. CASE h \in T
        <4>1. kept[r] = <<h>> \o kept[u]
          BY <3>3, <3>4
        <4>2. Range(<<h>> \o kept[u]) = {h} \cup Range(kept[u])
          BY <3>1, <3>2, InFront DEF D
        <4>3. ASSUME NEW lt, Ordered(r, lt) PROVE Ordered(<<h>> \o kept[u], lt)
          <5>1. Ordered(kept[u], lt) /\ \A x \in Range(kept[u]) : <<h, x>> \in lt
            BY <3>1, <3>2, <4>3
          <5>2. QED
            BY <3>1, <3>2, <5>1, InFrontOrdered DEF D
        <4>4. QED
          BY <3>1, <3>2, <3>4, <4>1, <4>2, <4>3
      <3>5. CASE h \notin T
        BY <3>1, <3>2, <3>3, <3>5
      <3>6. QED
        BY <3>4, <3>5
    <2>3. QED
      BY <2>1, <2>2
  <1>4. rank \in [D -> Nat]
    BY LenProperties
  <1>5. D \subseteq G
    <2> HIDE DEF D, G, rank
    <2>1. \A x \in D : (\A y \in D : rank[y] < rank[x] => y \in G) => x \in G
      BY <1>3
    <2>2. QED
      BY <1>4, <2>1, LowerRankFirst
  <1>6. kept[s] \in Seq(X)
    <2>1. kept[s] \in Seq(Range(s))
      BY <1>1, <1>2
    <2>2. QED
      BY <1>1, <2>1, SeqMonotonic
  <1>7. QED
    BY <1>1, <1>2, <1>5, <1>6

-----------------------------------------------------------------------------
(* VersionBuilder::apply and save_to. *)

\* The equations of the recursion of MergeFiles.
SolvesMerge(merged, level, added, base) ==
  \A p \in (1 .. Len(added) + 1) \X (1 .. Len(base) + 1) :
    merged[p] =
      CASE p[1] > Len(added) -> SubSeq(base, p[2], Len(base))
        [] p[1] <= Len(added) /\ p[2] > Len(base) -> SubSeq(added, p[1], Len(added))
        [] OTHER -> IF Before(level, added[p[1]], base[p[2]])
                    THEN <<added[p[1]]>> \o merged[<<p[1] + 1, p[2]>>]
                    ELSE <<base[p[2]]>> \o merged[<<p[1], p[2] + 1>>]

\* The recursion of MergeFiles has a solution, which MergeFiles is.
LEMMA MergeEquation ==
  ASSUME NEW level, NEW X, NEW added \in Seq(X), NEW base \in Seq(X)
  PROVE  \E merged \in [(1 .. Len(added) + 1) \X (1 .. Len(base) + 1) -> Seq(X)] :
           /\ MergeFiles(level, added, base) = merged[<<1, 1>>]
           /\ SolvesMerge(merged, level, added, base)
  <1> DEFINE La == Len(added)
             Lb == Len(base)
             D == (1 .. La + 1) \X (1 .. Lb + 1)
             V == Seq(X)
             E(f, p) == CASE p[1] > Len(added) -> SubSeq(base, p[2], Len(base))
                          [] p[1] <= Len(added) /\ p[2] > Len(base) -> SubSeq(added, p[1], Len(added))
                          [] OTHER -> IF Before(level, added[p[1]], base[p[2]])
                                      THEN <<added[p[1]]>> \o f[<<p[1] + 1, p[2]>>]
                                      ELSE <<base[p[2]]>> \o f[<<p[1], p[2] + 1>>]
             merged == CHOOSE f : f = [p \in D |-> E(f, p)]
             rank == [p \in D |-> (La + 1 - p[1]) + (Lb + 1 - p[2])]
             step == [p \in D |-> [f \in [D -> V] |-> E(f, p)]]
  <1>1. MergeFiles(level, added, base) = merged[<<1, 1>>]
    BY DEF MergeFiles
  <1>2. La \in Nat /\ Lb \in Nat /\ \A i \in 1 .. La : added[i] \in X /\ \A j \in 1 .. Lb : base[j] \in X
    BY LenProperties
  <1>3. /\ \A i \in 1 .. La : added[i] \in X
        /\ \A j \in 1 .. Lb : base[j] \in X
    BY LenProperties
  <1>4. rank \in [D -> Nat] /\ V # {}
    <2>1. \A p \in D : (La + 1 - p[1]) + (Lb + 1 - p[2]) \in Nat
      BY <1>2
    <2>2. QED
      BY <2>1, EmptySeq
  <1>5. ASSUME NEW p \in D, p[1] <= La, p[2] <= Lb
        PROVE  /\ <<p[1] + 1, p[2]>> \in D /\ rank[<<p[1] + 1, p[2]>>] < rank[p]
               /\ <<p[1], p[2] + 1>> \in D /\ rank[<<p[1], p[2] + 1>>] < rank[p]
               /\ added[p[1]] \in X /\ base[p[2]] \in X
    <2>1. /\ p[1] \in 1 .. La /\ p[2] \in 1 .. Lb
          /\ p[1] + 1 \in 1 .. La + 1 /\ p[2] + 1 \in 1 .. Lb + 1
      BY <1>2, <1>5
    <2>2. <<p[1] + 1, p[2]>> \in D /\ <<p[1], p[2] + 1>> \in D
      BY <2>1
    <2>3. /\ rank[<<p[1] + 1, p[2]>>] = (La + 1 - (p[1] + 1)) + (Lb + 1 - p[2])
          /\ rank[<<p[1], p[2] + 1>>] = (La + 1 - p[1]) + (Lb + 1 - (p[2] + 1))
          /\ rank[p] = (La + 1 - p[1]) + (Lb + 1 - p[2])
      BY <2>2
    <2> HIDE DEF rank, D
    <2>4. rank[<<p[1] + 1, p[2]>>] < rank[p] /\ rank[<<p[1], p[2] + 1>>] < rank[p]
      <3>1. \A a, b, x, y \in Int : /\ (x + 1 - (a + 1)) + (y + 1 - b) < (x + 1 - a) + (y + 1 - b)
                                   /\ (x + 1 - a) + (y + 1 - (b + 1)) < (x + 1 - a) + (y + 1 - b)
        OBVIOUS
      <3>2. p[1] \in Int /\ p[2] \in Int /\ La \in Int /\ Lb \in Int
        BY <1>2, <2>1
      <3>3. QED
        BY <2>3, <3>1, <3>2, SMTT(30)
    <2>5. added[p[1]] \in X /\ base[p[2]] \in X
      BY <1>3, <2>1
    <2>6. QED
      BY <2>2, <2>4, <2>5
  <1>6. ASSUME NEW p \in D, NEW f, \A q \in D : rank[q] < rank[p] => f[q] \in V PROVE E(f, p) \in V
    <2>1. CASE p[1] > La
      BY <1>2, <2>1, Suffix
    <2>2. CASE p[1] <= La /\ p[2] > Lb
      BY <1>2, <2>2, Suffix
    <2>3. CASE p[1] <= La /\ p[2] <= Lb
      <3>1. f[<<p[1] + 1, p[2]>>] \in V /\ f[<<p[1], p[2] + 1>>] \in V
        BY <1>5, <1>6, <2>3
      <3>2. /\ <<added[p[1]]>> \o f[<<p[1] + 1, p[2]>>] \in V
            /\ <<base[p[2]]>> \o f[<<p[1], p[2] + 1>>] \in V
        BY <1>5, <2>3, <3>1, InFront
      <3>3. QED
        BY <1>2, <2>3, <3>2
    <2>4. p[1] \in Int /\ p[2] \in Int
      OBVIOUS
    <2>5. QED
      BY <1>2, <2>1, <2>2, <2>3, <2>4
  <1>7. ASSUME NEW p \in D, NEW f, NEW g, \A q \in D : rank[q] < rank[p] => f[q] = g[q]
        PROVE  E(f, p) = E(g, p)
    <2>1. CASE p[1] > La
      BY <2>1
    <2>2. CASE p[1] <= La /\ p[2] > Lb
      BY <2>2
    <2>3. CASE p[1] <= La /\ p[2] <= Lb
      <3>1. /\ f[<<p[1] + 1, p[2]>>] = g[<<p[1] + 1, p[2]>>]
            /\ f[<<p[1], p[2] + 1>>] = g[<<p[1], p[2] + 1>>]
        BY <1>5, <1>7, <2>3
      <3>2. QED
        BY <3>1
    <2>4. p[1] \in Int /\ p[2] \in Int
      OBVIOUS
    <2>5. QED
      BY <1>2, <2>1, <2>2, <2>3, <2>4
  <1> HIDE DEF D, V, E, rank
  <1>8. OnLower(D, V, rank, step)
    <2>1. \A p \in D : \A f \in [D -> V] : E(f, p) \in V
      BY <1>6
    <2>2. step \in [D -> [[D -> V] -> V]]
      BY <2>1
    <2>3. \A x \in D : \A f, g \in [D -> V] :
            (\A y \in D : rank[y] < rank[x] => f[y] = g[y]) => step[x][f] = step[x][g]
      BY <1>7
    <2>4. QED
      BY <1>4, <2>2, <2>3 DEF OnLower
  <1>9. PICK h \in [D -> V] : \A x \in D : h[x] = step[x][h]
    BY <1>8, RecursionOnRank DEF HasSolution
  <1>10. h = [p \in D |-> E(h, p)]
    BY <1>9
  <1>11. merged = [p \in D |-> E(merged, p)]
    BY <1>10
  <1> HIDE DEF merged, step
  <1>12. \A p \in D : merged[p] = E(merged, p)
    BY <1>11
  <1> DEFINE G == {p \in D : merged[p] \in V}
  <1>13. \A p \in D : (\A q \in D : rank[q] < rank[p] => q \in G) => p \in G
    BY <1>6, <1>12
  <1>14. D \subseteq G
    <2> HIDE DEF G
    <2>1. rank \in [D -> Nat]
      BY <1>4
    <2>2. QED
      BY <1>13, <2>1, LowerRankFirst
  <1>15. merged \in [D -> V]
    <2>1. merged = [p \in D |-> merged[p]]
      BY <1>11, <1>12
    <2>2. QED
      BY <1>14, <2>1
  <1>16. \A p \in D : merged[p] = E(merged, p)
    BY <1>12
  <1>17. QED
    BY <1>1, <1>15, <1>16 DEF D, V, E, SolvesMerge

\* lt orders both sequences, is transitive, and agrees with Before where one
\* element is added and the other one is there.
Compatible(lt, X, level, added, base) ==
  /\ Ordered(added, lt) /\ Ordered(base, lt)
  /\ \A f, g, h \in X : <<f, g>> \in lt /\ <<g, h>> \in lt => <<f, h>> \in lt
  /\ \A a \in Range(added), b \in Range(base) :
       /\ Before(level, a, b) => <<a, b>> \in lt
       /\ ~ Before(level, a, b) => <<b, a>> \in lt

\* The merge has the elements of both, in an order compatible with theirs.
LEMMA MergeProperties ==
  ASSUME NEW level, NEW X, NEW added \in Seq(X), NEW base \in Seq(X), NEW lt
  PROVE  /\ MergeFiles(level, added, base) \in Seq(X)
         /\ Range(MergeFiles(level, added, base)) = Range(added) \cup Range(base)
         /\ Compatible(lt, X, level, added, base) => Ordered(MergeFiles(level, added, base), lt)
  <1> DEFINE La == Len(added)
             Lb == Len(base)
             D == (1 .. La + 1) \X (1 .. Lb + 1)
             From(s, i) == {s[a] : a \in i .. Len(s)}
             Good(m, i, j) == /\ Range(m) = From(added, i) \cup From(base, j)
                              /\ Compatible(lt, X, level, added, base) => Ordered(m, lt)
             rank == [p \in D |-> (La + 1 - p[1]) + (Lb + 1 - p[2])]
  <1>1. PICK merged \in [D -> Seq(X)] :
          /\ MergeFiles(level, added, base) = merged[<<1, 1>>]
          /\ SolvesMerge(merged, level, added, base)
    BY MergeEquation
  <1>2. /\ La \in Nat /\ Lb \in Nat
        /\ \A i \in 1 .. La : added[i] \in X
        /\ \A j \in 1 .. Lb : base[j] \in X
        /\ DOMAIN added = 1 .. La /\ DOMAIN base = 1 .. Lb
    BY LenProperties
  <1> DEFINE G == {p \in D : Good(merged[p], p[1], p[2])}
  <1>3. ASSUME NEW p \in D, \A q \in D : rank[q] < rank[p] => q \in G PROVE p \in G
    <2>1. PICK i \in 1 .. La + 1, j \in 1 .. Lb + 1 : p = <<i, j>>
      OBVIOUS
    <2>2. p[1] = i /\ p[2] = j /\ i \in Int /\ j \in Int
      BY <2>1
    <2>0. SUFFICES Good(merged[p], i, j)
      BY <2>2
    <2>a. merged[p] =
            CASE i > La -> SubSeq(base, j, Lb)
              [] i <= La /\ j > Lb -> SubSeq(added, i, La)
              [] OTHER -> IF Before(level, added[i], base[j])
                          THEN <<added[i]>> \o merged[<<i + 1, j>>]
                          ELSE <<base[j]>> \o merged[<<i, j + 1>>]
      <3>1. p \in (1 .. Len(added) + 1) \X (1 .. Len(base) + 1)
        OBVIOUS
      <3>2. QED
        BY ONLY <1>1, <2>2, <3>1 DEF SolvesMerge
    <2>3. CASE i > La
      <3>1. merged[p] = SubSeq(base, j, Lb)
        <4>1. ~ (i <= La)
          BY <1>2, <2>3
        <4>2. QED
          BY <2>3, <2>a, <4>1
      <3>2. From(added, i) = {}
        BY <1>2, <2>3
      <3>3. /\ Range(merged[p]) = From(base, j)
            /\ Ordered(base, lt) => Ordered(merged[p], lt)
        BY <3>1, Suffix
      <3> HIDE DEF From
      <3>4. QED
        BY <3>2, <3>3 DEF Compatible
    <2>4. CASE i <= La /\ j > Lb
      <3>1. merged[p] = SubSeq(added, i, La)
        BY <1>2, <2>2, <2>4, <2>a, SMTT(30)
      <3>2. From(base, j) = {}
        BY <1>2, <2>4
      <3>3. /\ Range(merged[p]) = From(added, i)
            /\ Ordered(added, lt) => Ordered(merged[p], lt)
        BY <3>1, Suffix
      <3> HIDE DEF From
      <3>4. QED
        BY <3>2, <3>3 DEF Compatible
    <2>5. CASE i <= La /\ j <= Lb
      <3> DEFINE a == added[i]
                 b == base[j]
      <3>1. a \in X /\ b \in X /\ a \in Range(added) /\ b \in Range(base)
        BY <1>2, <2>2, <2>5 DEF Range
      <3>2. merged[p] = IF Before(level, a, b) THEN <<a>> \o merged[<<i + 1, j>>]
                                              ELSE <<b>> \o merged[<<i, j + 1>>]
        <4>1. ~ (i > La) /\ ~ (j > Lb)
          BY <1>2, <2>5
        <4>2. QED
          BY <2>a, <4>1
      <3>3. From(added, i) = {a} \cup From(added, i + 1) /\ From(base, j) = {b} \cup From(base, j + 1)
        <4>1. i .. La = {i} \cup ((i + 1) .. La) /\ j .. Lb = {j} \cup ((j + 1) .. Lb)
          BY <1>2, <2>2, <2>5
        <4>2. QED
          BY <4>1
      <3>4. ASSUME Compatible(lt, X, level, added, base)
            PROVE  /\ \A x \in From(added, i + 1) : <<a, x>> \in lt /\ x \in X /\ x \in Range(added)
                   /\ \A x \in From(base, j + 1) : <<b, x>> \in lt /\ x \in X /\ x \in Range(base)
        <4>1. \A c \in (i + 1) .. La : c \in DOMAIN added /\ i < c /\ i \in DOMAIN added
          BY <1>2, <2>2, <2>5
        <4>2. \A c \in (j + 1) .. Lb : c \in DOMAIN base /\ j < c /\ j \in DOMAIN base
          BY <1>2, <2>2, <2>5
        <4>3. QED
          BY <1>2, <3>4, <4>1, <4>2 DEF Compatible, Ordered, Range
      <3>5. /\ <<i + 1, j>> \in D /\ rank[<<i + 1, j>>] < rank[p]
            /\ <<i, j + 1>> \in D /\ rank[<<i, j + 1>>] < rank[p]
        <4>1. i + 1 \in 1 .. La + 1 /\ j + 1 \in 1 .. Lb + 1
          BY <1>2, <2>2, <2>5
        <4>2. <<i + 1, j>> \in D /\ <<i, j + 1>> \in D
          BY <4>1
        <4>3. /\ rank[<<i + 1, j>>] = (La + 1 - (i + 1)) + (Lb + 1 - j)
              /\ rank[<<i, j + 1>>] = (La + 1 - i) + (Lb + 1 - (j + 1))
              /\ rank[p] = (La + 1 - i) + (Lb + 1 - j)
          BY <2>1, <4>2
        <4> HIDE DEF rank, D
        <4>4. QED
          BY <1>2, <2>2, <4>2, <4>3
      <3>6. Good(merged[<<i + 1, j>>], i + 1, j) /\ Good(merged[<<i, j + 1>>], i, j + 1)
        <4>1. <<i + 1, j>> \in G /\ <<i, j + 1>> \in G
          BY <1>3, <3>5
        <4> HIDE DEF Good, D
        <4>2. QED
          BY <4>1
      <3>7. merged[<<i + 1, j>>] \in Seq(X) /\ merged[<<i, j + 1>>] \in Seq(X)
        BY <3>5
      <3> DEFINE Ma == merged[<<i + 1, j>>]
                 Mb == merged[<<i, j + 1>>]
      <3>8. /\ Range(Ma) = From(added, i + 1) \cup From(base, j)
            /\ Range(Mb) = From(added, i) \cup From(base, j + 1)
            /\ Compatible(lt, X, level, added, base) => Ordered(Ma, lt) /\ Ordered(Mb, lt)
        BY <3>6
      <3> HIDE DEF a, b, Ma, Mb, From, D, rank
      <3>9. CASE Before(level, a, b)
        <4>1. merged[p] = <<a>> \o Ma
          BY <3>2, <3>9 DEF Ma
        <4>2. Range(merged[p]) = {a} \cup Range(Ma)
          BY <3>1, <3>7, <4>1, InFront DEF Ma
        <4>3. ASSUME Compatible(lt, X, level, added, base) PROVE Ordered(merged[p], lt)
          <5>1. <<a, b>> \in lt
            BY <3>1, <3>9, <4>3 DEF Compatible
          <5>2. \A x \in From(base, j + 1) : <<a, x>> \in lt
            BY <3>1, <3>4, <4>3, <5>1 DEF Compatible
          <5>3. \A x \in Range(Ma) : <<a, x>> \in lt
            BY <3>3, <3>4, <3>8, <4>3, <5>1, <5>2
          <5>4. QED
            BY <3>1, <3>7, <3>8, <4>1, <4>3, <5>3, InFrontOrdered DEF Ma
        <4>4. Range(merged[p]) = From(added, i) \cup From(base, j)
          BY <3>3, <3>8, <4>2
        <4>5. QED
          BY <4>3, <4>4
      <3>10. CASE ~ Before(level, a, b)
        <4>1. merged[p] = <<b>> \o Mb
          BY <3>2, <3>10 DEF Mb
        <4>2. Range(merged[p]) = {b} \cup Range(Mb)
          BY <3>1, <3>7, <4>1, InFront DEF Mb
        <4>3. ASSUME Compatible(lt, X, level, added, base) PROVE Ordered(merged[p], lt)
          <5>1. <<b, a>> \in lt
            BY <3>1, <3>10, <4>3 DEF Compatible
          <5>2. \A x \in From(added, i + 1) : <<b, x>> \in lt
            BY <3>1, <3>4, <4>3, <5>1 DEF Compatible
          <5>3. \A x \in Range(Mb) : <<b, x>> \in lt
            BY <3>3, <3>4, <3>8, <4>3, <5>1, <5>2
          <5>4. QED
            BY <3>1, <3>7, <3>8, <4>1, <4>3, <5>3, InFrontOrdered DEF Mb
        <4>4. Range(merged[p]) = From(added, i) \cup From(base, j)
          BY <3>3, <3>8, <4>2
        <4>5. QED
          BY <4>3, <4>4
      <3>11. QED
        BY <3>9, <3>10
    <2>6. QED
      <3> HIDE DEF Good
      <3>1. QED
        BY <1>2, <2>2, <2>3, <2>4, <2>5
  <1>4. rank \in [D -> Nat]
    <2>1. \A p \in D : (La + 1 - p[1]) + (Lb + 1 - p[2]) \in Nat
      BY <1>2
    <2>2. QED
      BY <2>1
  <1>5. D \subseteq G
    <2> HIDE DEF D, G, rank
    <2>1. \A p \in D : (\A q \in D : rank[q] < rank[p] => q \in G) => p \in G
      BY <1>3
    <2>2. QED
      BY <1>4, <2>1, LowerRankFirst
  <1>6. <<1, 1>> \in D /\ <<1, 1>>[1] = 1 /\ <<1, 1>>[2] = 1
    BY <1>2
  <1>7. From(added, 1) = Range(added) /\ From(base, 1) = Range(base)
    BY <1>2 DEF Range
  <1>8. QED
    <2>1. <<1, 1>> \in G /\ merged[<<1, 1>>] \in Seq(X)
      BY <1>5, <1>6
    <2>2. Good(merged[<<1, 1>>], 1, 1)
      <3> HIDE DEF Good, D
      <3>1. QED
        BY <2>1
    <2> HIDE DEF From, D
    <2>3. QED
      BY <1>1, <1>7, <2>1, <2>2

FileRec == [num : Nat, size : Nat, xip : Nat, inf : Int, sup : Int, busy : BOOLEAN]

Versions == [Levels -> Seq(FileRec)]

\* A file of a level after an edit that marks files.
Marking(f, l, marked) == IF <<l, f.num>> \in marked THEN [f EXCEPT !.busy = TRUE] ELSE f

\* A file that is marked is the same but for the mark.
LEMMA MarkingProperties ==
  ASSUME NEW f \in FileRec, NEW l, NEW marked
  PROVE  /\ Marking(f, l, marked) \in FileRec
         /\ Marking(f, l, marked).num = f.num /\ Marking(f, l, marked).size = f.size
         /\ Marking(f, l, marked).xip = f.xip
         /\ Marking(f, l, marked).inf = f.inf /\ Marking(f, l, marked).sup = f.sup
  BY DEF FileRec, Marking

\* The files of a level that an edit leaves or brings.
Remaining(v, l, add, deleted) ==
  {g \in Range(v[l]) \cup Range(add) : <<l, g.num>> \notin deleted}

\* Those files, marked where they are to be.
MarkedFiles(left, l, marked) == {Marking(f, l, marked) : f \in left}

\* Elements of w come from files of a set that lt has in the same order.
MarkedInOrder(w, left, l, marked, lt) ==
  \A i, j \in DOMAIN w : i < j =>
    \E f, g \in left : /\ <<f, g>> \in lt
                      /\ w[i] = Marking(f, l, marked) /\ w[j] = Marking(g, l, marked)

\* A level that holds these files.
HasFiles(w, files) == w \in Seq(FileRec) /\ Range(w) = files

\* What an edit makes of a level: those files, in an order compatible with
\* that before.
LEMMA AppliedProperties ==
  ASSUME NEW v \in Versions, NEW level, NEW added \in Seq(FileRec), NEW deleted, NEW marked,
         NEW l \in Levels, NEW lt, NEW add, add = IF l = level THEN added ELSE <<>>
  PROVE  LET w == Applied(v, level, added, deleted, marked)[l]
             left == Remaining(v, l, add, deleted)
         IN  /\ HasFiles(w, MarkedFiles(left, l, marked))
             /\ Compatible(lt, FileRec, l, add, v[l]) => MarkedInOrder(w, left, l, marked, lt)
  <1> DEFINE w == Applied(v, level, added, deleted, marked)
             merged == MergeFiles(l, add, v[l])
             T == {f \in Range(merged) : <<l, f.num>> \notin deleted}
             kept == Kept(merged, T)
  <1>1. add \in Seq(FileRec) /\ v[l] \in Seq(FileRec)
    BY EmptySeq DEF Versions
  <1>2. /\ merged \in Seq(FileRec)
        /\ Range(merged) = Range(add) \cup Range(v[l])
        /\ Compatible(lt, FileRec, l, add, v[l]) => Ordered(merged, lt)
    <2> DEFINE base == v[l]
    <2>1. base \in Seq(FileRec)
      BY <1>1
    <2> HIDE DEF base
    <2>2. /\ MergeFiles(l, add, base) \in Seq(FileRec)
          /\ Range(MergeFiles(l, add, base)) = Range(add) \cup Range(base)
          /\ Compatible(lt, FileRec, l, add, base) => Ordered(MergeFiles(l, add, base), lt)
      BY ONLY <1>1, <2>1, MergeProperties
    <2>3. QED
      BY <2>2 DEF base
  <1> HIDE DEF merged
  <1>3. T = Remaining(v, l, add, deleted)
    BY <1>2 DEF Remaining
  <1>4. /\ kept \in Seq(FileRec)
        /\ Range(kept) = T
        /\ Ordered(merged, lt) => Ordered(kept, lt)
    BY <1>2, KeptProperties
  <1>5. w[l] = [i \in DOMAIN kept |->
                  IF <<l, kept[i].num>> \in marked THEN [kept[i] EXCEPT !.busy = TRUE] ELSE kept[i]]
    BY DEF Applied, merged
  <1> HIDE DEF kept, w, T
  <1>6. w[l] = [i \in DOMAIN kept |-> Marking(kept[i], l, marked)]
    BY <1>5 DEF Marking
  <1>7. DOMAIN kept = 1 .. Len(kept) /\ Len(kept) \in Nat /\ \A i \in DOMAIN kept : kept[i] \in FileRec
    BY <1>4, LenProperties
  <1>8. \A i \in DOMAIN kept : Marking(kept[i], l, marked) \in FileRec
    BY <1>7, MarkingProperties
  <1>9. w[l] \in Seq(FileRec)
    BY <1>6, <1>7, <1>8
  <1>10. DOMAIN w[l] = DOMAIN kept /\ \A i \in DOMAIN kept : w[l][i] = Marking(kept[i], l, marked)
    BY <1>6
  <1>11. Range(w[l]) = {Marking(f, l, marked) : f \in T}
    <2>1. Range(kept) = {kept[i] : i \in DOMAIN kept} /\ Range(w[l]) = {w[l][i] : i \in DOMAIN kept}
      BY <1>10 DEF Range
    <2>2. QED
      BY <1>4, <1>10, <2>1
  <1>12. ASSUME Compatible(lt, FileRec, l, add, v[l]), NEW i \in DOMAIN w[l], NEW j \in DOMAIN w[l], i < j
         PROVE  \E f, g \in T : /\ <<f, g>> \in lt
                               /\ w[l][i] = Marking(f, l, marked) /\ w[l][j] = Marking(g, l, marked)
    <2>1. <<kept[i], kept[j]>> \in lt
      BY <1>2, <1>4, <1>10, <1>12 DEF Ordered
    <2>2. kept[i] \in T /\ kept[j] \in T
      BY <1>4, <1>10, <1>12 DEF Range
    <2>3. QED
      BY <1>10, <1>12, <2>1, <2>2
  <1>13. QED
    <2>1. Compatible(lt, FileRec, l, add, v[l]) => MarkedInOrder(w[l], T, l, marked, lt)
      BY <1>12 DEF MarkedInOrder
    <2>2. QED
      BY <1>3, <1>9, <1>11, <2>1 DEF w, MarkedFiles, HasFiles

\* Its files are those that remain, marked.
LEMMA AppliedFiles ==
  ASSUME NEW v \in Versions, NEW level, NEW added \in Seq(FileRec), NEW deleted, NEW marked,
         NEW l \in Levels, NEW add, add = IF l = level THEN added ELSE <<>>
  PROVE  /\ Applied(v, level, added, deleted, marked)[l] \in Seq(FileRec)
         /\ Range(Applied(v, level, added, deleted, marked)[l]) =
                 MarkedFiles(Remaining(v, l, add, deleted), l, marked)
  <1>1. ASSUME NEW lt PROVE HasFiles(Applied(v, level, added, deleted, marked)[l],
                                    MarkedFiles(Remaining(v, l, add, deleted), l, marked))
    BY AppliedProperties
  <1>2. QED
    BY <1>1 DEF HasFiles

\* Where a file of an edited level comes from ...
ComesFrom(v, level, added, deleted, marked, l, e) ==
  \E f \in FileRec : /\ f \in Range(v[l]) \/ (l = level /\ f \in Range(added))
                    /\ <<l, f.num>> \notin deleted
                    /\ e = Marking(f, l, marked)

\* Every file of an edited level comes from such a file.
LEMMA EditedFrom ==
  ASSUME NEW v \in Versions, NEW level, NEW added \in Seq(FileRec), NEW deleted, NEW marked,
         NEW l \in Levels, NEW e \in Range(Applied(v, level, added, deleted, marked)[l])
  PROVE  ComesFrom(v, level, added, deleted, marked, l, e)
  <1> DEFINE add == IF l = level THEN added ELSE <<>>
             left == Remaining(v, l, add, deleted)
  <1>1. e \in MarkedFiles(left, l, marked)
    BY EmptySeq, AppliedFiles
  <1>2. PICK f \in left : e = Marking(f, l, marked)
    BY <1>1 DEF MarkedFiles
  <1>3. /\ f \in Range(v[l]) \/ f \in Range(add)
        /\ <<l, f.num>> \notin deleted
    BY <1>2 DEF Remaining
  <1>4. f \in Range(add) => l = level /\ f \in Range(added)
    BY DEF Range
  <1>5. Range(v[l]) \subseteq FileRec /\ Range(added) \subseteq FileRec
    BY RangeOfSeq DEF Versions
  <1>6. QED
    BY <1>2, <1>3, <1>4, <1>5 DEF ComesFrom

\* ... and which files get there.
LEMMA EditedTo ==
  ASSUME NEW v \in Versions, NEW level, NEW added \in Seq(FileRec), NEW deleted, NEW marked,
         NEW l \in Levels, NEW f, f \in Range(v[l]) \/ (l = level /\ f \in Range(added)),
         <<l, f.num>> \notin deleted
  PROVE  Marking(f, l, marked) \in Range(Applied(v, level, added, deleted, marked)[l])
  <1> DEFINE add == IF l = level THEN added ELSE <<>>
             left == Remaining(v, l, add, deleted)
  <1>1. Range(Applied(v, level, added, deleted, marked)[l]) = MarkedFiles(left, l, marked)
    BY EmptySeq, AppliedFiles
  <1>2. f \in left
    BY DEF Remaining
  <1>3. QED
    BY <1>1, <1>2 DEF MarkedFiles

\* Their order is compatible with that of the files they were.
LEMMA AppliedOrder ==
  ASSUME NEW v \in Versions, NEW level, NEW added \in Seq(FileRec), NEW deleted, NEW marked,
         NEW l \in Levels, NEW add, add = IF l = level THEN added ELSE <<>>,
         NEW lt, Compatible(lt, FileRec, l, add, v[l])
  PROVE  MarkedInOrder(Applied(v, level, added, deleted, marked)[l],
                       Remaining(v, l, add, deleted), l, marked, lt)
  BY AppliedProperties

-----------------------------------------------------------------------------
(* The inputs of a compaction. *)

Below == {p \in FileRec \X FileRec : p[1].sup < p[2].inf}
NewerBound == {p \in FileRec \X FileRec : p[1].xip > p[2].xip}
NotOlderBound == {p \in FileRec \X FileRec : p[1].xip >= p[2].xip}

\* The files of a level that overlap a range.
Touching(fs, inf, sup) == {f \in Range(fs) : Overlaps(f, inf, sup)}

\* Above level 0 the overlapping files are taken, in their order.
LEMMA OverlappingAbove ==
  ASSUME NEW v \in Versions, NEW level \in Levels \ {0}, NEW prev, NEW inf, NEW sup
  PROVE  /\ OverlappingInputs(v, level, prev, inf, sup) \in Seq(FileRec)
         /\ Range(OverlappingInputs(v, level, prev, inf, sup)) = Touching(v[level], inf, sup)
         /\ Ordered(v[level], Below) => Ordered(OverlappingInputs(v, level, prev, inf, sup), Below)
  <1> DEFINE s == v[level]
             T == {f \in Range(s) : Overlaps(f, inf, sup)}
  <1>1. s \in Seq(FileRec)
    BY DEF Versions
  <1>2. OverlappingInputs(v, level, prev, inf, sup) = Kept(s, T)
    BY DEF OverlappingInputs
  <1>3. Range(s) \cap T = T /\ T = Touching(v[level], inf, sup)
    BY DEF Touching
  <1> HIDE DEF T
  <1>4. Kept(s, T) \in Seq(FileRec) /\ Range(Kept(s, T)) = Range(s) \cap T
        /\ (Ordered(s, Below) => Ordered(Kept(s, T), Below))
    <2> HIDE DEF s
    <2>1. QED
      BY <1>1, KeptProperties
  <1>5. QED
    BY <1>2, <1>3, <1>4

\* At level 0 the oldest files are taken.
LEMMA OverlappingAt0 ==
  ASSUME NEW v \in Versions, NEW prev, NEW inf, NEW sup
  PROVE  \E m \in 1 .. Len(v[0]) + 1 :
           /\ OverlappingInputs(v, 0, prev, inf, sup) = SubSeq(v[0], m, Len(v[0]))
           /\ \A c \in 1 .. Len(v[0]) :
                (\A j \in c .. Len(v[0]) : v[0][j].xip <= Max({prev[i].xip : i \in DOMAIN prev})) => m <= c
  <1> DEFINE s == v[0]
             n == Len(s)
             maxTs == Max({prev[i].xip : i \in DOMAIN prev})
             Taken(f) == f.xip <= maxTs \/ (Overlaps(f, inf, sup) /\ ~f.busy)
             from == {i \in 1 .. n + 1 : \A j \in i .. n : Taken(s[j])}
  <1>1. OverlappingInputs(v, 0, prev, inf, sup) = SubSeq(s, Min(from), n)
    BY DEF OverlappingInputs
  <1>2. 0 \in Levels
    BY OptionsAssumption DEF Levels
  <1>3. s \in Seq(FileRec) /\ n \in Nat
    BY <1>2, LenProperties DEF Versions
  <1> HIDE DEF s
  <1>4. n + 1 \in from
    <2>1. n + 1 \in 1 .. n + 1 /\ (n + 1) .. n = {}
      BY <1>3
    <2>2. QED
      BY <2>1
  <1>5. from \subseteq Int /\ from # {} /\ IsFiniteSet(from)
    <2>1. IsFiniteSet(1 .. n + 1)
      BY <1>3, FS_Interval
    <2>2. from \subseteq 1 .. n + 1
      OBVIOUS
    <2> HIDE DEF from
    <2>3. IsFiniteSet(from)
      BY <2>1, <2>2, FS_Subset
    <2>4. 1 .. n + 1 \subseteq Int
      BY <1>3
    <2>5. QED
      BY <1>4, <2>2, <2>3, <2>4
  <1>6. Min(from) \in from /\ \A x \in from : Min(from) <= x
    <2> HIDE DEF from
    <2>1. QED
      BY <1>5, MinAndMax
  <1>7. ASSUME NEW c \in 1 .. n, \A j \in c .. n : s[j].xip <= maxTs PROVE Min(from) <= c
    <2>1. c \in from
      <3> HIDE DEF maxTs
      <3>1. c \in 1 .. n + 1
        BY <1>3
      <3>2. QED
        BY <1>7, <3>1
    <2>2. QED
      BY <1>6, <2>1
  <1>8. Min(from) \in 1 .. n + 1
    BY <1>6
  <1> HIDE DEF from, maxTs
  <1>9. QED
    BY <1>1, <1>7, <1>8 DEF s, maxTs

\* The equations of the recursion of Expanded.
SolvesExpand(grown, v, level, files) ==
  \A n \in 0 .. Len(v[level]) :
    grown[n] = IF n = 0 THEN files
               ELSE IF grown[n - 1] = <<>> THEN grown[n - 1]
               ELSE OverlappingInputs(v, level, grown[n - 1],
                                      LowKey(level, grown[n - 1]), HighKey(level, grown[n - 1]))

\* The recursion of Expanded has a solution, which Expanded is.
LEMMA ExpandEquation ==
  ASSUME NEW v \in Versions, NEW level \in Levels, NEW files \in Seq(FileRec)
  PROVE  \E grown \in [0 .. Len(v[level]) -> Seq(FileRec)] :
           /\ Expanded(v, level, files) = grown[Len(v[level])]
           /\ SolvesExpand(grown, v, level, files)
  <1> DEFINE N == Len(v[level])
             D == 0 .. N
             V == Seq(FileRec)
             Next1(fs) == OverlappingInputs(v, level, fs, LowKey(level, fs), HighKey(level, fs))
             E(f, n) == IF n = 0 THEN files
                        ELSE LET fs == f[n - 1]
                             IN  IF fs = <<>> THEN fs
                                 ELSE OverlappingInputs(v, level, fs, LowKey(level, fs), HighKey(level, fs))
             grown == CHOOSE f : f = [n \in D |-> E(f, n)]
             rank == [n \in D |-> n]
             step == [n \in D |-> [f \in [D -> V] |-> E(f, n)]]
  <1>1. Expanded(v, level, files) = grown[N]
    BY DEF Expanded
  <1>2. N \in Nat /\ v[level] \in V
    <2>1. v[level] \in V
      BY DEF Versions
    <2>2. QED
      BY <2>1, LenProperties
  <1>3. rank \in [D -> Nat] /\ V # {}
    BY <1>2, EmptySeq
  <1>4. ASSUME NEW n \in D, n # 0 PROVE n - 1 \in D /\ rank[n - 1] < rank[n]
    BY <1>2, <1>4
  <1>5. ASSUME NEW fs, NEW inf, NEW sup PROVE OverlappingInputs(v, level, fs, inf, sup) \in V
    <2>1. CASE level = 0
      <3>1. PICK m \in 1 .. N + 1 : OverlappingInputs(v, level, fs, inf, sup) = SubSeq(v[level], m, N)
        BY <2>1, OverlappingAt0
      <3>2. QED
        BY <1>2, <3>1, Suffix
    <2>2. CASE level # 0
      BY <2>2, OverlappingAbove
    <2>3. QED
      BY <2>1, <2>2
  <1>6. ASSUME NEW n \in D, NEW f, \A m \in D : rank[m] < rank[n] => f[m] \in V PROVE E(f, n) \in V
    <2>1. CASE n = 0
      BY <2>1
    <2>2. CASE n # 0
      <3>1. f[n - 1] \in V
        BY <1>4, <1>6, <2>2
      <3>2. QED
        BY <1>5, <2>2, <3>1
    <2>3. QED
      BY <2>1, <2>2
  <1>7. ASSUME NEW n \in D, NEW f, NEW g, \A m \in D : rank[m] < rank[n] => f[m] = g[m]
        PROVE  E(f, n) = E(g, n)
    <2>1. CASE n = 0
      BY <2>1
    <2>2. CASE n # 0
      <3>1. f[n - 1] = g[n - 1]
        BY <1>4, <1>7, <2>2
      <3>2. QED
        BY <2>2, <3>1
    <2>3. QED
      BY <2>1, <2>2
  <1> HIDE DEF D, V, E, rank
  <1>8. OnLower(D, V, rank, step)
    <2>1. \A n \in D : \A f \in [D -> V] : E(f, n) \in V
      BY <1>6
    <2>2. step \in [D -> [[D -> V] -> V]]
      BY <2>1
    <2>3. \A x \in D : \A f, g \in [D -> V] :
            (\A y \in D : rank[y] < rank[x] => f[y] = g[y]) => step[x][f] = step[x][g]
      BY <1>7
    <2>4. QED
      BY <1>3, <2>2, <2>3 DEF OnLower
  <1>9. PICK h \in [D -> V] : \A x \in D : h[x] = step[x][h]
    BY <1>8, RecursionOnRank DEF HasSolution
  <1>10. h = [n \in D |-> E(h, n)]
    BY <1>9
  <1>11. grown = [n \in D |-> E(grown, n)]
    BY <1>10
  <1> HIDE DEF grown, step
  <1>12. \A n \in D : grown[n] = E(grown, n)
    BY <1>11
  <1> DEFINE G == {n \in D : grown[n] \in V}
  <1>13. \A n \in D : (\A m \in D : rank[m] < rank[n] => m \in G) => n \in G
    BY <1>6, <1>12
  <1>14. D \subseteq G
    <2> HIDE DEF G
    <2>1. rank \in [D -> Nat]
      BY <1>3
    <2>2. QED
      BY <1>13, <2>1, LowerRankFirst
  <1>15. grown \in [D -> V]
    <2>1. grown = [n \in D |-> grown[n]]
      BY <1>11, <1>12
    <2>2. QED
      BY <1>14, <2>1
  <1>16. SolvesExpand(grown, v, level, files)
    BY <1>12 DEF D, E, SolvesExpand
  <1>17. QED
    BY <1>1, <1>15, <1>16 DEF D, V

\* What a range of integers has: 0 and the successors of what it has.
LEMMA CountTo ==
  ASSUME NEW N \in Nat, NEW G, 0 \in G, \A n \in 0 .. N : n # 0 /\ n - 1 \in G => n \in G
  PROVE  \A n \in 0 .. N : n \in G
  <1> DEFINE A == {n \in Nat : n <= N => n \in G}
  <1>1. 0 \in A
    OBVIOUS
  <1>2. ASSUME NEW n \in Nat, n \in A PROVE n + 1 \in A
    <2>1. SUFFICES ASSUME n + 1 <= N PROVE n + 1 \in G
      OBVIOUS
    <2>2. n + 1 \in 0 .. N /\ n + 1 # 0 /\ (n + 1) - 1 = n /\ n \in G
      BY <1>2, <2>1
    <2>3. QED
      BY <2>2
  <1>3. Nat \subseteq A
    <2> HIDE DEF A
    <2>1. QED
      BY <1>1, <1>2, CountUp
  <1>4. QED
    BY <1>3

\* Level 0 has its newest files first.
LEMMA Expanded0 ==
  ASSUME NEW v \in Versions, Ordered(v[0], NotOlderBound),
         NEW files \in Seq(FileRec), files # <<>>, Range(files) \subseteq Range(v[0])
  PROVE  LET start == Expanded(v, 0, files)
         IN  start \in Seq(FileRec) /\ start # <<>> /\ Range(start) \subseteq Range(v[0])
  <1> DEFINE N == Len(v[0])
  <1>1. 0 \in Levels
    BY OptionsAssumption DEF Levels
  <1>2. v[0] \in Seq(FileRec) /\ N \in Nat /\ DOMAIN v[0] = 1 .. N
    BY <1>1, LenProperties DEF Versions
  <1>3. PICK grown \in [0 .. N -> Seq(FileRec)] :
          Expanded(v, 0, files) = grown[N] /\ SolvesExpand(grown, v, 0, files)
    BY <1>1, ExpandEquation
  <1> DEFINE Good(fs) == fs \in Seq(FileRec) /\ fs # <<>> /\ Range(fs) \subseteq Range(v[0])
             G == {n \in 0 .. N : Good(grown[n])}
  <1>4. 0 \in G
    BY <1>2, <1>3 DEF SolvesExpand
  <1>5. ASSUME NEW fs, Good(fs), NEW inf, NEW sup PROVE Good(OverlappingInputs(v, 0, fs, inf, sup))
    <2> DEFINE Bounds == {fs[i].xip : i \in DOMAIN fs}
    <2>1. PICK m \in 1 .. N + 1 :
            /\ OverlappingInputs(v, 0, fs, inf, sup) = SubSeq(v[0], m, N)
            /\ \A c \in 1 .. N : (\A j \in c .. N : v[0][j].xip <= Max(Bounds)) => m <= c
      BY OverlappingAt0
    <2>2. DOMAIN fs = 1 .. Len(fs) /\ Len(fs) \in Nat \ {0} /\ \A i \in DOMAIN fs : fs[i] \in FileRec
      BY <1>5, LenProperties, EmptySeq
    <2>3. /\ Bounds \subseteq Int /\ Bounds # {} /\ IsFiniteSet(Bounds)
      <3>1. \A i \in DOMAIN fs : fs[i].xip \in Int
        BY <2>2 DEF FileRec
      <3>2. IsFiniteSet(DOMAIN fs) /\ 1 \in DOMAIN fs
        BY <2>2, FS_Interval
      <3>3. IsFiniteSet(Bounds)
        <4> DEFINE xips == [i \in DOMAIN fs |-> fs[i].xip]
        <4>1. xips \in Surjection(DOMAIN fs, Bounds)
          BY DEF Surjection
        <4> HIDE DEF xips, Bounds
        <4>2. QED
          BY <3>2, <4>1, FS_Surjection
      <3>4. QED
        BY <3>1, <3>2, <3>3
    <2>4. \A x \in Bounds : x <= Max(Bounds)
      <3> HIDE DEF Bounds
      <3>1. QED
        BY <2>3, MinAndMax
    <2>5. Max(Bounds) \in Int
      <3> HIDE DEF Bounds
      <3>1. QED
        BY <2>3, MinAndMax
    <2>6. PICK c \in 1 .. N : fs[1] = v[0][c]
      <3>1. fs[1] \in Range(fs)
        BY <2>2 DEF Range
      <3>2. QED
        BY <1>2, <1>5, <3>1 DEF Range
    <2>7. v[0][c].xip <= Max(Bounds)
      <3>1. 1 \in DOMAIN fs
        BY <2>2
      <3>2. fs[1].xip \in Bounds
        BY <3>1
      <3> HIDE DEF Bounds
      <3>3. QED
        BY <2>4, <2>6, <3>2
    <2>8. ASSUME NEW j \in c .. N PROVE v[0][j].xip <= Max(Bounds)
      <3>1. j \in 1 .. N /\ c <= j
        BY <1>2
      <3>2. CASE j = c
        BY <2>7, <3>2
      <3>3. CASE c < j
        <4>1. v[0][c].xip >= v[0][j].xip
          BY <1>2, <3>1, <3>3 DEF Ordered, NotOlderBound
        <4>2. v[0][c].xip \in Int /\ v[0][j].xip \in Int
          <5>1. v[0][c] \in FileRec /\ v[0][j] \in FileRec
            BY <1>2, <3>1
          <5>2. \A h \in FileRec : h.xip \in Int
            BY DEF FileRec
          <5>3. QED
            BY <5>1, <5>2
        <4> HIDE DEF Bounds
        <4>3. QED
          BY <2>5, <2>7, <4>1, <4>2
      <3>4. QED
        BY <3>1, <3>2, <3>3
    <2> HIDE DEF Bounds
    <2>9. m <= c
      BY <2>1, <2>8
    <2>10. /\ SubSeq(v[0], m, N) \in Seq(FileRec)
           /\ Range(SubSeq(v[0], m, N)) = {v[0][i] : i \in m .. N}
      BY <1>2, Suffix
    <2>11. {v[0][i] : i \in m .. N} \subseteq Range(v[0])
      <3>1. m .. N \subseteq 1 .. N
        BY <1>2
      <3>2. QED
        BY <1>2, <3>1 DEF Range
    <2>12. SubSeq(v[0], m, N) # <<>>
      <3>1. v[0][c] \in {v[0][i] : i \in m .. N}
        BY <1>2, <2>9
      <3>2. Range(<<>>) = {}
        BY DEF Range
      <3>3. QED
        BY <2>10, <3>1, <3>2
    <2>13. QED
      BY <2>1, <2>10, <2>11, <2>12
  <1>6. \A n \in 0 .. N : n # 0 /\ n - 1 \in G => n \in G
    <2>1. SUFFICES ASSUME NEW n \in 0 .. N, n # 0, Good(grown[n - 1]) PROVE Good(grown[n])
      OBVIOUS
    <2>2. grown[n - 1] # <<>>
      BY <2>1
    <2>3. grown[n] = OverlappingInputs(v, 0, grown[n - 1], LowKey(0, grown[n - 1]), HighKey(0, grown[n - 1]))
      BY <1>3, <2>1, <2>2 DEF SolvesExpand
    <2> HIDE DEF Good
    <2>4. QED
      BY <1>5, <2>1, <2>3
  <1>7. N \in G
    <2> HIDE DEF G
    <2>1. N \in 0 .. N
      BY <1>2
    <2>2. QED
      BY <1>2, <1>4, <1>6, <2>1, CountTo
  <1>8. QED
    BY <1>3, <1>7

\* Files of a level are pairwise apart.
Sorted(fs) == Ordered(fs, Below) /\ \A f \in Range(fs) : f.inf <= f.sup

\* In a sorted level two different files do not overlap.
LEMMA SortedApart ==
  ASSUME NEW fs \in Seq(FileRec), Sorted(fs), NEW f \in Range(fs), NEW g \in Range(fs), f # g
  PROVE  f.sup < g.inf \/ g.sup < f.inf
  <1>1. PICK i \in DOMAIN fs, j \in DOMAIN fs : f = fs[i] /\ g = fs[j]
    BY DEF Range
  <1>2. i \in Int /\ j \in Int /\ i # j
    BY <1>1, LenProperties
  <1>3. CASE i < j
    BY <1>1, <1>3 DEF Sorted, Ordered, Below
  <1>4. CASE j < i
    BY <1>1, <1>4 DEF Sorted, Ordered, Below
  <1>5. QED
    BY <1>2, <1>3, <1>4

\* The files of a sorted level that touch a range leave no file out between
\* them: expanding the selection adds none.
LEMMA ExpandedAbove ==
  ASSUME NEW v \in Versions, NEW level \in Levels \ {0}, Sorted(v[level]),
         NEW inf \in Int, NEW sup \in Int, NEW files \in Seq(FileRec),
         Range(files) = Touching(v[level], inf, sup), Ordered(files, Below)
  PROVE  LET taken == Expanded(v, level, files)
         IN  /\ taken \in Seq(FileRec) /\ Ordered(taken, Below)
             /\ Range(taken) = Touching(v[level], inf, sup)
  <1> DEFINE s == v[level]
             N == Len(s)
             O == Touching(s, inf, sup)
  <1>1. s \in Seq(FileRec) /\ N \in Nat /\ DOMAIN s = 1 .. N
    BY LenProperties DEF Versions
  <1>2. PICK grown \in [0 .. N -> Seq(FileRec)] :
          Expanded(v, level, files) = grown[N] /\ SolvesExpand(grown, v, level, files)
    BY ExpandEquation
  <1> DEFINE Good(fs) == fs \in Seq(FileRec) /\ Ordered(fs, Below) /\ Range(fs) = O
             G == {n \in 0 .. N : Good(grown[n])}
  <1>3. 0 \in G
    BY <1>1, <1>2 DEF SolvesExpand
  <1>4. ASSUME NEW fs, Good(fs), fs # <<>>
        PROVE  Good(OverlappingInputs(v, level, fs, LowKey(level, fs), HighKey(level, fs)))
    <2> DEFINE lo == LowKey(level, fs)
               hi == HighKey(level, fs)
               a == fs[1]
               b == fs[Len(fs)]
    <2>1. DOMAIN fs = 1 .. Len(fs) /\ Len(fs) \in Nat \ {0} /\ \A i \in DOMAIN fs : fs[i] \in FileRec
      BY <1>4, LenProperties, EmptySeq
    <2>2. lo = a.inf /\ hi = b.sup
      BY DEF LowKey, HighKey
    <2>3. a \in O /\ b \in O
      BY <1>4, <2>1 DEF Range
    <2>4. \A f \in O : f \in Range(s) /\ f \in FileRec /\ f.sup >= inf /\ f.inf <= sup /\ f.inf <= f.sup
      BY <1>1, RangeOfSeq DEF Touching, Overlaps, Sorted
    <2>5. ASSUME NEW f \in O PROVE a.inf <= f.inf /\ f.sup <= b.sup
      <3>1. PICK i \in 1 .. Len(fs) : f = fs[i]
        BY <1>4, <2>1 DEF Range
      <3>2. f \in FileRec /\ a \in FileRec /\ b \in FileRec /\ f.inf <= f.sup /\ a.inf <= a.sup /\ b.inf <= b.sup
        BY <2>3, <2>4
      <3>3. \A h \in FileRec : h.inf \in Int /\ h.sup \in Int
        BY DEF FileRec
      <3>4. i # 1 => a.sup < f.inf
        <4>1. ASSUME i # 1 PROVE 1 \in DOMAIN fs /\ i \in DOMAIN fs /\ 1 < i
          BY <2>1, <4>1
        <4>2. QED
          BY <1>4, <3>1, <4>1 DEF Ordered, Below
      <3>5. i # Len(fs) => f.sup < b.inf
        <4>1. ASSUME i # Len(fs) PROVE Len(fs) \in DOMAIN fs /\ i \in DOMAIN fs /\ i < Len(fs)
          <5> DEFINE n == Len(fs)
          <5>1. n \in Nat \ {0} /\ DOMAIN fs = 1 .. n /\ i \in 1 .. n /\ i # n
            BY <2>1, <4>1
          <5> HIDE DEF n
          <5>2. n \in DOMAIN fs /\ i \in DOMAIN fs /\ i < n
            BY <5>1
          <5>3. QED
            BY <5>2 DEF n
        <4>2. QED
          BY <1>4, <3>1, <4>1 DEF Ordered, Below
      <3>6. a.inf <= f.inf
        BY <3>1, <3>2, <3>3, <3>4
      <3>7. f.sup <= b.sup
        BY <3>1, <3>2, <3>3, <3>5
      <3>8. QED
        BY <3>6, <3>7
    <2>6. ASSUME NEW g \in Range(s), g.sup >= a.inf, g.inf <= b.sup PROVE g \in O
      <3>1. /\ g.inf \in Int /\ g.sup \in Int /\ g.inf <= g.sup
            /\ a.inf \in Int /\ a.sup \in Int /\ b.inf \in Int /\ b.sup \in Int
        <4>1. g \in FileRec /\ a \in FileRec /\ b \in FileRec
          BY <1>1, <2>3, <2>4, RangeOfSeq
        <4>2. g.inf <= g.sup
          BY DEF Sorted
        <4> HIDE DEF a, b
        <4>3. QED
          BY <4>1, <4>2 DEF FileRec
      <3>2. a.sup >= inf /\ b.inf <= sup /\ a \in Range(s) /\ b \in Range(s)
        BY <2>3, <2>4
      <3>3. g.sup >= inf
        <4>1. CASE g = a
          BY <3>2, <4>1
        <4>2. CASE g # a
          <5>1. a.sup < g.inf \/ g.sup < a.inf
            BY <1>1, <3>2, <4>2, SortedApart
          <5>2. QED
            BY <2>6, <3>1, <3>2, <5>1
        <4>3. QED
          BY <4>1, <4>2
      <3>4. g.inf <= sup
        <4>1. CASE g = b
          BY <3>2, <4>1
        <4>2. CASE g # b
          <5>1. b.sup < g.inf \/ g.sup < b.inf
            BY <1>1, <3>2, <4>2, SortedApart
          <5>2. QED
            BY <2>6, <3>1, <3>2, <5>1
        <4>3. QED
          BY <4>1, <4>2
      <3>5. QED
        BY <3>3, <3>4 DEF Touching, Overlaps
    <2>7. Touching(s, lo, hi) = O
      <3>1. ASSUME NEW f \in O PROVE f \in Touching(s, lo, hi)
        <4>1. /\ f.inf \in Int /\ f.sup \in Int /\ f.inf <= f.sup /\ f \in Range(s)
              /\ a.inf \in Int /\ b.sup \in Int
          BY <2>3, <2>4 DEF FileRec
        <4>2. f.sup >= a.inf /\ f.inf <= b.sup
          BY <2>5, <4>1
        <4>3. QED
          BY <2>2, <4>1, <4>2 DEF Touching, Overlaps
      <3>2. ASSUME NEW g \in Touching(s, lo, hi) PROVE g \in O
        BY <2>2, <2>6, <3>2 DEF Touching, Overlaps
      <3>3. QED
        BY <3>1, <3>2
    <2> HIDE DEF lo, hi
    <2>8. /\ OverlappingInputs(v, level, fs, lo, hi) \in Seq(FileRec)
          /\ Range(OverlappingInputs(v, level, fs, lo, hi)) = Touching(s, lo, hi)
          /\ Ordered(OverlappingInputs(v, level, fs, lo, hi), Below)
      BY OverlappingAbove DEF Sorted
    <2>9. QED
      BY <2>7, <2>8 DEF lo, hi
  <1>5. \A n \in 0 .. N : n # 0 /\ n - 1 \in G => n \in G
    <2>1. SUFFICES ASSUME NEW n \in 0 .. N, n # 0, Good(grown[n - 1]) PROVE Good(grown[n])
      OBVIOUS
    <2>2. CASE grown[n - 1] = <<>>
      <3>1. grown[n] = grown[n - 1]
        BY <1>2, <2>1, <2>2 DEF SolvesExpand
      <3>2. QED
        BY <2>1, <3>1
    <2>3. CASE grown[n - 1] # <<>>
      <3>1. grown[n] = OverlappingInputs(v, level, grown[n - 1],
                                         LowKey(level, grown[n - 1]), HighKey(level, grown[n - 1]))
        BY <1>2, <2>1, <2>3 DEF SolvesExpand
      <3> HIDE DEF Good
      <3>2. QED
        BY <1>4, <2>1, <2>3, <3>1
    <2>4. QED
      BY <2>2, <2>3
  <1>6. N \in G
    <2> HIDE DEF G
    <2>1. N \in 0 .. N
      BY <1>1
    <2>2. QED
      BY <1>1, <1>3, <1>5, <2>1, CountTo
  <1>7. QED
    BY <1>2, <1>6

\* What get_range finds: no file of the selection reaches beyond it.
LEMMA RangeOfSelection ==
  ASSUME NEW fs \in Seq(FileRec), fs # <<>>
  PROVE  /\ LowKey(0, fs) \in Int /\ \A a \in Range(fs) : LowKey(0, fs) <= a.inf
         /\ HighKey(0, fs) \in Int /\ \A a \in Range(fs) : a.sup <= HighKey(0, fs)
  <1> DEFINE infs == [i \in DOMAIN fs |-> fs[i].inf]
             sups == [i \in DOMAIN fs |-> fs[i].sup]
             Infs == {fs[i].inf : i \in DOMAIN fs}
             Sups == {fs[i].sup : i \in DOMAIN fs}
  <1>1. DOMAIN fs = 1 .. Len(fs) /\ Len(fs) \in Nat \ {0} /\ \A i \in DOMAIN fs : fs[i] \in FileRec
    BY LenProperties, EmptySeq
  <1>2. IsFiniteSet(DOMAIN fs) /\ 1 \in DOMAIN fs
    BY <1>1, FS_Interval
  <1>3. infs \in Surjection(DOMAIN fs, Infs) /\ sups \in Surjection(DOMAIN fs, Sups)
    BY DEF Surjection
  <1>4. IsFiniteSet(Infs) /\ IsFiniteSet(Sups)
    <2> HIDE DEF infs, sups, Infs, Sups
    <2>1. QED
      BY <1>2, <1>3, FS_Surjection
  <1>5. Infs \subseteq Int /\ Infs # {} /\ Sups \subseteq Int /\ Sups # {}
    <2>1. \A f \in FileRec : f.inf \in Int /\ f.sup \in Int
      BY DEF FileRec
    <2>2. QED
      BY <1>1, <1>2, <2>1
  <1>6. LowKey(0, fs) = Min(Infs) /\ HighKey(0, fs) = Max(Sups)
    BY DEF LowKey, HighKey
  <1>7. \A a \in Range(fs) : a.inf \in Infs /\ a.sup \in Sups
    BY DEF Range
  <1> HIDE DEF Infs, Sups
  <1>8. /\ Min(Infs) \in Infs /\ \A x \in Infs : Min(Infs) <= x
        /\ Max(Sups) \in Sups /\ \A x \in Sups : x <= Max(Sups)
    BY <1>4, <1>5, MinAndMax
  <1>9. QED
    BY <1>5, <1>6, <1>7, <1>8

\* A version whose levels are in order, level 0 but for files of one bound.
InOrder(v) ==
  /\ v \in Versions
  /\ Ordered(v[0], NotOlderBound) /\ \A f \in Range(v[0]) : f.inf <= f.sup
  /\ \A l \in Levels \ {0} : Sorted(v[l])

\* The bounds in level 0 differ, too.
InStrictOrder(v) == InOrder(v) /\ Ordered(v[0], NewerBound)

\* The selection of a compaction of level 0 is the older part of it.
LEMMA OldestAreTaken ==
  ASSUME NEW v \in Versions, Ordered(v[0], NotOlderBound),
         NEW files \in Seq(FileRec), files # <<>>, Range(files) \subseteq Range(v[0])
  PROVE  LET start == Expanded(v, 0, files)
         IN  /\ Ordered(start, NotOlderBound)
             /\ \A e \in Range(v[0]) \ Range(start), f \in Range(start) : e.xip >= f.xip
  <1> DEFINE N == Len(v[0])
             start == Expanded(v, 0, files)
  <1>1. 0 \in Levels
    BY OptionsAssumption DEF Levels
  <1>2. v[0] \in Seq(FileRec) /\ N \in Nat /\ DOMAIN v[0] = 1 .. N
    BY <1>1, LenProperties DEF Versions
  <1>3. start # <<>>
    BY Expanded0
  <1>4. PICK grown \in [0 .. N -> Seq(FileRec)] : start = grown[N] /\ SolvesExpand(grown, v, 0, files)
    BY <1>1, ExpandEquation
  <1>5. N # 0
    <2>1. DOMAIN files = 1 .. Len(files) /\ Len(files) \in Nat /\ Len(files) # 0
      BY LenProperties, EmptySeq
    <2>2. files[1] \in Range(files)
      BY <2>1 DEF Range
    <2>3. PICK i \in 1 .. N : v[0][i] = files[1]
      BY <1>2, <2>2 DEF Range
    <2>4. QED
      BY <1>2, <2>3
  <1>6. PICK m \in 1 .. N + 1 : start = SubSeq(v[0], m, N)
    <2> HIDE DEF start
    <2>1. N \in 0 .. N /\ N - 1 \in 0 .. N
      BY <1>2, <1>5
    <2> DEFINE fs == grown[N - 1]
    <2>2. start = IF fs = <<>> THEN fs
                  ELSE OverlappingInputs(v, 0, fs, LowKey(0, fs), HighKey(0, fs))
      BY <1>4, <1>5, <2>1 DEF SolvesExpand
    <2>3. start = OverlappingInputs(v, 0, fs, LowKey(0, fs), HighKey(0, fs))
      BY <1>3, <2>2
    <2> HIDE DEF fs
    <2>4. QED
      BY <2>3, OverlappingAt0
  <1>7. Ordered(start, NotOlderBound) /\ Range(start) = {v[0][i] : i \in m .. N}
    BY <1>2, <1>6, Suffix
  <1>8. ASSUME NEW e \in Range(v[0]) \ Range(start), NEW f \in Range(start) PROVE e.xip >= f.xip
    <2>1. PICK i \in 1 .. N : e = v[0][i]
      BY <1>2 DEF Range
    <2>2. PICK j \in m .. N : f = v[0][j]
      BY <1>7
    <2>3. i \notin m .. N
      BY <1>7, <1>8, <2>1
    <2>4. i < j /\ j \in 1 .. N
      BY <1>2, <2>3
    <2>5. QED
      BY <1>2, <2>1, <2>2, <2>4 DEF Ordered, NotOlderBound
  <1>9. QED
    BY <1>7, <1>8

\* A compaction takes files of its level and of the next, above level 0 the
\* one that it starts from, of level 0 the oldest ones; and of the next level
\* all those that touch the range between two of its inputs.
InputsFit(v, level, f, ins) ==
  /\ ins \in Seq(FileRec) \X Seq(FileRec)
  /\ ins[1] # <<>>
  /\ Range(ins[1]) \subseteq Range(v[level])
  /\ Range(ins[2]) \subseteq Range(v[level + 1])
  /\ level # 0 => Range(ins[1]) = {f} /\ \A o \in Range(ins[2]) : Overlaps(o, f.inf, f.sup)
  /\ \A g \in Range(v[level + 1]) : \A a, b \in Range(ins[1]) \cup Range(ins[2]) :
       Overlaps(g, a.inf, b.sup) => g \in Range(ins[2])
  /\ level = 0 => /\ Ordered(ins[1], NotOlderBound)
                  /\ \A e \in Range(v[0]) \ Range(ins[1]), g \in Range(ins[1]) : e.xip >= g.xip

\* Whatever file a compaction starts from, its inputs fit.
LEMMA InputsProperties ==
  ASSUME NEW v, InOrder(v), NEW level \in 0 .. NumLevels - 2, NEW f \in Range(v[level])
  PROVE  InputsFit(v, level, f, InputsFrom(v, level, f))
  <1> DEFINE start == Expanded(v, level, <<f>>)
             lo == LowKey(level, start)
             hi == HighKey(level, start)
             over == OverlappingInputs(v, level + 1, <<>>, lo, hi)
             taken == Expanded(v, level + 1, over)
             O == Touching(v[level + 1], lo, hi)
  <1>1. /\ level \in Levels /\ level + 1 \in Levels \ {0} /\ level \in Nat
        /\ v \in Versions
        /\ v[level] \in Seq(FileRec) /\ v[level + 1] \in Seq(FileRec)
    BY OptionsAssumption DEF Levels, InOrder, Versions
  <1>2. f \in FileRec /\ f.inf <= f.sup
    <2>1. f \in FileRec
      BY <1>1, RangeOfSeq
    <2>2. f.inf <= f.sup
      BY <1>1 DEF InOrder, Sorted
    <2>3. QED
      BY <2>1, <2>2
  <1>3. f.inf \in Int /\ f.sup \in Int
    BY <1>2 DEF FileRec
  <1>4. <<f>> \in Seq(FileRec) /\ <<f>> # <<>> /\ Range(<<f>>) = {f} /\ Ordered(<<f>>, Below)
    BY <1>2 DEF Range, Ordered
  <1>5. /\ start \in Seq(FileRec) /\ start # <<>> /\ Range(start) \subseteq Range(v[level])
        /\ level # 0 => Range(start) = {f}
    <2>1. CASE level = 0
      <3>1. Range(<<f>>) \subseteq Range(v[0]) /\ Ordered(v[0], NotOlderBound)
        BY <1>4, <2>1 DEF InOrder
      <3>2. QED
        BY <1>1, <1>4, <2>1, <3>1, Expanded0
    <2>2. CASE level # 0
      <3>1. Sorted(v[level])
        BY <1>1, <2>2 DEF InOrder
      <3>2. Touching(v[level], f.inf, f.sup) = {f}
        <4>1. f \in Touching(v[level], f.inf, f.sup)
          BY <1>2, <1>3 DEF Touching, Overlaps
        <4>2. ASSUME NEW g \in Touching(v[level], f.inf, f.sup), g # f PROVE FALSE
          <5>1. g \in Range(v[level]) /\ g.sup >= f.inf /\ g.inf <= f.sup
            BY DEF Touching, Overlaps
          <5>2. f.sup < g.inf \/ g.sup < f.inf
            BY <1>1, <3>1, <4>2, <5>1, SortedApart
          <5>3. g \in FileRec
            BY <1>1, <5>1, RangeOfSeq
          <5>4. g.inf \in Int /\ g.sup \in Int
            BY <5>3 DEF FileRec
          <5>5. QED
            BY <1>3, <5>1, <5>2, <5>4
        <4>3. QED
          BY <4>1, <4>2
      <3>3. level \in Levels \ {0}
        BY <1>1, <2>2
      <3>4. start \in Seq(FileRec) /\ Range(start) = Touching(v[level], f.inf, f.sup)
        <4> DEFINE fs == <<f>>
        <4>1. fs \in Seq(FileRec) /\ Ordered(fs, Below) /\ Range(fs) = Touching(v[level], f.inf, f.sup)
          BY <1>4, <3>2
        <4> HIDE DEF fs
        <4>2. /\ Expanded(v, level, fs) \in Seq(FileRec)
              /\ Range(Expanded(v, level, fs)) = Touching(v[level], f.inf, f.sup)
          BY <1>1, <1>3, <3>1, <3>3, <4>1, ExpandedAbove
        <4>3. QED
          BY <4>2 DEF fs
      <3>5. start # <<>>
        <4>1. Range(<<>>) = {}
          BY DEF Range
        <4> HIDE DEF start
        <4>2. QED
          BY <3>2, <3>4, <4>1
      <3>6. QED
        BY <3>2, <3>4, <3>5
    <2>3. QED
      BY <2>1, <2>2
  <1>16. ASSUME level = 0
         PROVE  /\ Ordered(start, NotOlderBound)
                /\ \A e \in Range(v[0]) \ Range(start), g \in Range(start) : e.xip >= g.xip
    <2>1. Ordered(v[0], NotOlderBound) /\ Range(<<f>>) \subseteq Range(v[0])
      BY <1>4, <1>16 DEF InOrder
    <2>2. QED
      BY <1>1, <1>4, <1>16, <2>1, OldestAreTaken
  <1> HIDE DEF start
  <1>6. /\ lo \in Int /\ hi \in Int
        /\ \A a \in Range(start) : lo <= a.inf /\ a.sup <= hi
        /\ level # 0 => lo = f.inf /\ hi = f.sup
    <2>1. CASE level = 0
      BY <1>5, <2>1, RangeOfSelection
    <2>2. CASE level # 0
      <3>1. DOMAIN start = 1 .. Len(start) /\ Len(start) \in Nat \ {0}
        BY <1>5, LenProperties, EmptySeq
      <3>2. 1 \in DOMAIN start /\ Len(start) \in DOMAIN start
        BY <3>1
      <3>3. start[1] = f /\ start[Len(start)] = f
        BY <1>5, <2>2, <3>2 DEF Range
      <3>4. lo = f.inf /\ hi = f.sup
        BY <2>2, <3>3 DEF LowKey, HighKey
      <3> HIDE DEF lo, hi
      <3>5. QED
        BY <1>3, <1>5, <2>2, <3>4
    <2>3. QED
      BY <2>1, <2>2
  <1> HIDE DEF lo, hi
  <1>7. Sorted(v[level + 1])
    BY <1>1 DEF InOrder
  <1>8. over \in Seq(FileRec) /\ Range(over) = O /\ Ordered(over, Below)
    BY <1>1, <1>7, OverlappingAbove DEF Sorted
  <1> HIDE DEF over
  <1>9. taken \in Seq(FileRec) /\ Range(taken) = O
    BY <1>1, <1>6, <1>7, <1>8, ExpandedAbove
  <1> HIDE DEF taken
  <1>10. ASSUME NEW g \in Range(v[level + 1]), NEW a \in Range(start) \cup O, NEW b \in Range(start) \cup O,
                Overlaps(g, a.inf, b.sup)
         PROVE  g \in O
    <2>1. g \in FileRec /\ a \in FileRec /\ b \in FileRec
      <3>1. O \subseteq Range(v[level + 1])
        BY DEF Touching
      <3>2. QED
        BY <1>1, <1>5, <3>1, RangeOfSeq
    <2>2. \A h \in FileRec : h.inf \in Int /\ h.sup \in Int
      BY DEF FileRec
    <2>3. g.sup >= a.inf /\ g.inf <= b.sup /\ g.inf <= g.sup
      BY <1>7, <1>10 DEF Overlaps, Sorted
    <2>4. g.sup >= lo
      <3>1. CASE a \in Range(start)
        BY <1>6, <2>1, <2>2, <2>3, <3>1
      <3>2. CASE a \in O /\ a = g
        BY <3>2 DEF Touching, Overlaps
      <3>3. CASE a \in O /\ a # g
        <4>1. a \in Range(v[level + 1]) /\ a.sup >= lo
          BY <3>3 DEF Touching, Overlaps
        <4>2. a.sup < g.inf \/ g.sup < a.inf
          BY <1>1, <1>7, <3>3, <4>1, SortedApart
        <4>3. QED
          BY <1>6, <2>1, <2>2, <2>3, <4>1, <4>2
      <3>4. QED
        BY <3>1, <3>2, <3>3
    <2>5. g.inf <= hi
      <3>1. CASE b \in Range(start)
        BY <1>6, <2>1, <2>2, <2>3, <3>1
      <3>2. CASE b \in O /\ b = g
        BY <3>2 DEF Touching, Overlaps
      <3>3. CASE b \in O /\ b # g
        <4>1. b \in Range(v[level + 1]) /\ b.inf <= hi
          BY <3>3 DEF Touching, Overlaps
        <4>2. b.sup < g.inf \/ g.sup < b.inf
          BY <1>1, <1>7, <3>3, <4>1, SortedApart
        <4>3. QED
          BY <1>6, <2>1, <2>2, <2>3, <4>1, <4>2
      <3>4. QED
        BY <3>1, <3>2, <3>3
    <2>6. QED
      BY <2>4, <2>5 DEF Touching, Overlaps
  <1>11. InputsFrom(v, level, f) = <<start, taken>>
    BY DEF InputsFrom, start, lo, hi, over, taken
  <1>12. O \subseteq Range(v[level + 1]) /\ \A o \in O : Overlaps(o, lo, hi)
    BY DEF Touching
  <1> HIDE DEF O
  <1> DEFINE ins == <<start, taken>>
  <1>13. ins[1] = start /\ ins[2] = taken /\ ins \in Seq(FileRec) \X Seq(FileRec)
    BY <1>5, <1>9
  <1> HIDE DEF ins
  <1>14. InputsFit(v, level, f, ins)
    BY <1>5, <1>6, <1>9, <1>10, <1>12, <1>13, <1>16 DEF InputsFit
  <1>15. QED
    BY <1>11, <1>14 DEF ins

\* Of finitely many files one is the largest, and the first of its size.
LEMMA LargestFirst ==
  ASSUME NEW fs \in Seq(FileRec), NEW start, start \subseteq DOMAIN fs, start # {}
  PROVE  \E i \in start : \A j \in start :
           fs[i].size > fs[j].size \/ (fs[i].size = fs[j].size /\ i <= j)
  <1> DEFINE sizes == [i \in start |-> fs[i].size]
             Sizes == {fs[i].size : i \in start}
  <1>1. DOMAIN fs = 1 .. Len(fs) /\ Len(fs) \in Nat /\ \A i \in DOMAIN fs : fs[i] \in FileRec
    BY LenProperties
  <1>2. IsFiniteSet(start)
    <2>1. IsFiniteSet(DOMAIN fs)
      BY <1>1, FS_Interval
    <2>2. QED
      BY <2>1, FS_Subset
  <1>3. sizes \in Surjection(start, Sizes)
    BY DEF Surjection
  <1>4. IsFiniteSet(Sizes)
    <2> HIDE DEF sizes, Sizes
    <2>1. QED
      BY <1>2, <1>3, FS_Surjection
  <1>5. \A i \in start : fs[i].size \in Int
    <2>1. \A f \in FileRec : f.size \in Int
      BY DEF FileRec
    <2>2. QED
      BY <1>1, <2>1
  <1>6. Max(Sizes) \in Sizes /\ \A x \in Sizes : x <= Max(Sizes)
    <2>1. Sizes \subseteq Int /\ Sizes # {}
      BY <1>5
    <2> HIDE DEF Sizes
    <2>2. QED
      BY <1>4, <2>1, MinAndMax
  <1> DEFINE big == Max(Sizes)
             largest == {i \in start : fs[i].size = big}
  <1> HIDE DEF big
  <1>7. largest # {}
    BY <1>6 DEF big
  <1>8. IsFiniteSet(largest) /\ largest \subseteq Int
    <2>1. largest \subseteq start /\ start \subseteq Int
      BY <1>1
    <2> HIDE DEF largest
    <2>2. QED
      BY <1>2, <2>1, FS_Subset
  <1>9. PICK i \in largest : \A j \in largest : i <= j
    <2> HIDE DEF largest
    <2>1. QED
      BY <1>7, <1>8, MinAndMax
  <1>10. ASSUME NEW j \in start PROVE fs[i].size > fs[j].size \/ (fs[i].size = fs[j].size /\ i <= j)
    <2>1. fs[j].size <= big /\ fs[j].size \in Int /\ fs[i].size = big
      BY <1>5, <1>6, <1>9 DEF big
    <2>2. CASE fs[j].size = big
      BY <1>9, <2>1, <2>2
    <2>3. CASE fs[j].size # big
      <3>1. big \in Int
        BY <1>5, <1>9, <2>1
      <3>2. QED
        BY <2>1, <2>3, <3>1
    <2>4. QED
      BY <2>2, <2>3
  <1>11. QED
    BY <1>9, <1>10

\* What pick_compaction picks: a level that is not the last one, not level 0
\* while that is being compacted, and inputs none of which is in use.
LEMMA PickProperties ==
  ASSUME NEW v, InOrder(v), NEW l0InProgress, PickableLevels(v, l0InProgress) # {}
  PROVE  LET level == Min(PickableLevels(v, l0InProgress))
             f == StartFile(v, level)
             ins == InputsFrom(v, level, f)
         IN  /\ level \in 0 .. NumLevels - 2
             /\ level = 0 => ~ l0InProgress
             /\ f \in Range(v[level])
             /\ ~ AnyBusy(ins[1]) /\ ~ AnyBusy(ins[2])
             /\ InputsFit(v, level, f, ins)
  <1> DEFINE P == PickableLevels(v, l0InProgress)
             level == Min(P)
             start == StartFiles(v, level)
             f == StartFile(v, level)
             ins == InputsFrom(v, level, f)
  <1>1. P \subseteq Levels
    BY DEF PickableLevels
  <1>2. IsFiniteSet(P) /\ P \subseteq Int
    <2>1. IsFiniteSet(Levels) /\ Levels \subseteq Int
      BY OptionsAssumption, FS_Interval DEF Levels
    <2> HIDE DEF P
    <2>2. QED
      BY <1>1, <2>1, FS_Subset
  <1>3. level \in P
    <2> HIDE DEF P
    <2>1. P # {}
      BY DEF P
    <2>2. QED
      BY <1>2, <2>1, MinAndMax
  <1> HIDE DEF level
  <1>4. level \in Levels /\ ScoreReachesOne(v, level) /\ ~ (level = 0 /\ l0InProgress) /\ start # {}
    BY <1>3 DEF PickableLevels
  <1>5. level # NumLevels - 1
    <2>1. SUFFICES ASSUME level = NumLevels - 1 PROVE FALSE
      OBVIOUS
    <2>2. ScoreReachesOne(v, level)
      BY <1>4
    <2>3. ~ ScoreReachesOne(v, level)
      BY <2>1, OptionsAssumption DEF ScoreReachesOne
    <2>4. QED
      BY <2>2, <2>3
  <1>6. level \in 0 .. NumLevels - 2
    BY <1>4, <1>5, OptionsAssumption DEF Levels
  <1>7. v[level] \in Seq(FileRec)
    BY <1>4 DEF InOrder, Versions
  <1>8. /\ start \subseteq DOMAIN v[level]
        /\ \A i \in start : /\ ~ AnyBusy(InputsFrom(v, level, v[level][i])[1])
                            /\ ~ AnyBusy(InputsFrom(v, level, v[level][i])[2])
    BY DEF StartFiles
  <1> HIDE DEF start
  <1>9. \E i \in start : \A j \in start :
          v[level][i].size > v[level][j].size \/ (v[level][i].size = v[level][j].size /\ i <= j)
    BY <1>4, <1>7, <1>8, LargestFirst
  <1>10. PICK i \in start : f = v[level][i]
    BY <1>9 DEF StartFile, start
  <1>11. f \in Range(v[level])
    BY <1>8, <1>10 DEF Range
  <1>12. ~ AnyBusy(ins[1]) /\ ~ AnyBusy(ins[2])
    BY <1>8, <1>10
  <1> HIDE DEF f
  <1>13. InputsFit(v, level, f, ins)
    BY <1>6, <1>11, InputsProperties
  <1> HIDE DEF ins
  <1>14. QED
    BY <1>4, <1>6, <1>11, <1>12, <1>13 DEF level, f, ins

-----------------------------------------------------------------------------
(* Edits keep the levels in order. *)

\* Two files of which one ends before the other one starts.
Apart(f, g) == f.sup < g.inf \/ g.sup < f.inf

\* By infimum; of equal ones the file that is there goes before the added one.
ByInf(base, added) ==
  {p \in FileRec \X FileRec :
     \/ p[1].inf < p[2].inf
     \/ p[1].inf = p[2].inf /\ p[1] \in base /\ p[2] \in added}

\* Above level 0 what an edit leaves is in order again if no two files overlap.
LEMMA SortedAfterEdit ==
  ASSUME NEW v, InOrder(v), NEW level, NEW added \in Seq(FileRec), NEW deleted, NEW marked,
         NEW l \in Levels \ {0}, NEW add, add = IF l = level THEN added ELSE <<>>,
         Sorted(add), Range(add) \cap Range(v[l]) = {},
         \A a \in Range(add), b \in Range(v[l]) : <<l, b.num>> \notin deleted => Apart(a, b)
  PROVE  Sorted(Applied(v, level, added, deleted, marked)[l])
  <1> DEFINE w == Applied(v, level, added, deleted, marked)
             left == Remaining(v, l, add, deleted)
             base == v[l]
             lt == ByInf(Range(base), Range(add))
  <1>1. v \in Versions /\ l \in Levels /\ Sorted(base) /\ base \in Seq(FileRec) /\ add \in Seq(FileRec)
    BY EmptySeq DEF InOrder, Versions
  <1>2. Range(base) \subseteq FileRec /\ Range(add) \subseteq FileRec
    BY <1>1, RangeOfSeq
  <1>3. \A h \in FileRec : h.inf \in Int /\ h.sup \in Int
    BY DEF FileRec
  <1>4. \A f \in left : /\ f \in FileRec /\ f.inf <= f.sup
                        /\ f \in Range(base) \/ f \in Range(add)
                        /\ <<l, f.num>> \notin deleted
    BY <1>1, <1>2 DEF Remaining, Sorted
  <1>5. \A f, g \in left : f # g => Apart(f, g)
    <2>1. SUFFICES ASSUME NEW f \in left, NEW g \in left, f # g PROVE Apart(f, g)
      OBVIOUS
    <2>2. CASE f \in Range(base) /\ g \in Range(base)
      BY <1>1, <2>1, <2>2, SortedApart DEF Apart
    <2>3. CASE f \in Range(add) /\ g \in Range(add)
      BY <1>1, <2>1, <2>3, SortedApart DEF Apart
    <2>4. CASE f \in Range(add) /\ g \in Range(base)
      BY <1>4, <2>4
    <2>5. CASE f \in Range(base) /\ g \in Range(add)
      <3>1. Apart(g, f)
        BY <1>4, <2>5
      <3>2. QED
        BY <3>1 DEF Apart
    <2>6. QED
      BY <1>4, <2>2, <2>3, <2>4, <2>5
  <1>6. Ordered(base, lt) /\ Ordered(add, lt)
    <2>1. ASSUME NEW s \in Seq(FileRec), Sorted(s) PROVE Ordered(s, lt)
      <3>1. SUFFICES ASSUME NEW i \in DOMAIN s, NEW j \in DOMAIN s, i < j PROVE <<s[i], s[j]>> \in lt
        BY DEF Ordered
      <3>2. s[i] \in FileRec /\ s[j] \in FileRec /\ s[i] \in Range(s)
        BY LenProperties DEF Range
      <3>3. s[i].sup < s[j].inf /\ s[i].inf <= s[i].sup
        BY <2>1, <3>1, <3>2 DEF Sorted, Ordered, Below
      <3>4. s[i].inf < s[j].inf
        BY <1>3, <3>2, <3>3
      <3>5. QED
        BY <3>2, <3>4 DEF ByInf
    <2>2. QED
      BY <1>1, <2>1
  <1>7. \A f, g, h \in FileRec : <<f, g>> \in lt /\ <<g, h>> \in lt => <<f, h>> \in lt
    <2>1. SUFFICES ASSUME NEW f \in FileRec, NEW g \in FileRec, NEW h \in FileRec,
                          <<f, g>> \in lt, <<g, h>> \in lt
                   PROVE  <<f, h>> \in lt
      OBVIOUS
    <2>2. f.inf <= g.inf /\ g.inf <= h.inf
      BY <1>3, <2>1 DEF ByInf
    <2>3. f.inf < g.inf \/ g.inf < h.inf
      BY <2>1 DEF ByInf
    <2>4. f.inf < h.inf
      BY <1>3, <2>2, <2>3
    <2>5. QED
      BY <2>4 DEF ByInf
  <1>8. \A a \in Range(add), b \in Range(base) :
          /\ Before(l, a, b) => <<a, b>> \in lt
          /\ ~ Before(l, a, b) => <<b, a>> \in lt
    <2>1. SUFFICES ASSUME NEW a \in Range(add), NEW b \in Range(base)
                   PROVE  /\ a.inf < b.inf => <<a, b>> \in lt
                          /\ ~ (a.inf < b.inf) => <<b, a>> \in lt
      BY DEF Before
    <2>2. a \in FileRec /\ b \in FileRec /\ a.inf \in Int /\ b.inf \in Int
      BY <1>2, <1>3
    <2>3. a.inf < b.inf \/ b.inf < a.inf \/ b.inf = a.inf
      BY <2>2
    <2>4. QED
      BY <2>2, <2>3 DEF ByInf
  <1>9. Compatible(lt, FileRec, l, add, base)
    <2> HIDE DEF lt, base
    <2>1. QED
      BY <1>6, <1>7, <1>8 DEF Compatible
  <1>10. /\ w[l] \in Seq(FileRec)
         /\ Range(w[l]) = MarkedFiles(left, l, marked)
         /\ MarkedInOrder(w[l], left, l, marked, lt)
    <2>1. Compatible(lt, FileRec, l, add, v[l])
      BY <1>9
    <2> HIDE DEF lt
    <2>2. MarkedInOrder(Applied(v, level, added, deleted, marked)[l],
                       Remaining(v, l, add, deleted), l, marked, lt)
      BY <1>1, <2>1, AppliedOrder
    <2>3. /\ Applied(v, level, added, deleted, marked)[l] \in Seq(FileRec)
          /\ Range(Applied(v, level, added, deleted, marked)[l]) =
                 MarkedFiles(Remaining(v, l, add, deleted), l, marked)
      BY <1>1, AppliedFiles
    <2>4. QED
      BY <2>2, <2>3
  <1> HIDE DEF w, left
  <1>11. ASSUME NEW i \in DOMAIN w[l], NEW j \in DOMAIN w[l], i < j PROVE <<w[l][i], w[l][j]>> \in Below
    <2>1. PICK f \in left, g \in left : /\ <<f, g>> \in lt
                                       /\ w[l][i] = Marking(f, l, marked) /\ w[l][j] = Marking(g, l, marked)
      <3> HIDE DEF lt
      <3>1. QED
        BY <1>10, <1>11 DEF MarkedInOrder
    <2>2. f \in FileRec /\ g \in FileRec /\ f.inf <= f.sup /\ g.inf <= g.sup
      BY <1>4
    <2>3. f.inf <= g.inf
      BY <1>3, <2>1, <2>2 DEF ByInf
    <2>4. f # g
      BY <1>3, <2>1, <2>2 DEF ByInf
    <2>5. f.sup < g.inf
      BY <1>3, <1>5, <2>2, <2>3, <2>4 DEF Apart
    <2>6. /\ Marking(f, l, marked) \in FileRec /\ Marking(f, l, marked).sup = f.sup
          /\ Marking(g, l, marked) \in FileRec /\ Marking(g, l, marked).inf = g.inf
      BY <2>2, MarkingProperties
    <2>7. QED
      BY <2>1, <2>5, <2>6 DEF Below
  <1>12. ASSUME NEW e \in Range(w[l]) PROVE e.inf <= e.sup
    <2>1. PICK f \in left : e = Marking(f, l, marked)
      BY <1>10 DEF MarkedFiles
    <2>2. f \in FileRec /\ f.inf <= f.sup
      BY <1>4
    <2>3. e.inf = f.inf /\ e.sup = f.sup
      BY ONLY <2>1, <2>2, MarkingProperties
    <2>4. QED
      BY <2>2, <2>3
  <1>13. QED
    BY <1>11, <1>12 DEF Sorted, Ordered, w

\* Level 0 keeps its order, and a strict one if no added file has the bound of
\* one that is there.
LEMMA NewestAfterEdit ==
  ASSUME NEW v, InOrder(v), NEW level, NEW added \in Seq(FileRec), NEW deleted, NEW marked,
         NEW add, add = IF 0 = level THEN added ELSE <<>>,
         NEW lt \in {NewerBound, NotOlderBound}, Ordered(v[0], lt), Ordered(add, lt),
         \A a \in Range(add) : a.inf <= a.sup,
         lt = NewerBound => \A a \in Range(add), b \in Range(v[0]) : a.xip # b.xip
  PROVE  LET w == Applied(v, level, added, deleted, marked)
         IN  Ordered(w[0], lt) /\ \A f \in Range(w[0]) : f.inf <= f.sup
  <1> DEFINE w == Applied(v, level, added, deleted, marked)
             left == Remaining(v, 0, add, deleted)
             base == v[0]
  <1>1. v \in Versions /\ 0 \in Levels /\ base \in Seq(FileRec) /\ add \in Seq(FileRec)
        /\ Ordered(base, lt) /\ (\A f \in Range(base) : f.inf <= f.sup)
    BY EmptySeq, OptionsAssumption DEF InOrder, Versions, Levels
  <1>2. Range(base) \subseteq FileRec /\ Range(add) \subseteq FileRec
    BY <1>1, RangeOfSeq
  <1>3. \A h \in FileRec : h.xip \in Int
    BY DEF FileRec
  <1>4. \A f \in left : f \in FileRec /\ f.inf <= f.sup
    BY <1>1, <1>2 DEF Remaining
  <1>5. \A f, g, h \in FileRec : <<f, g>> \in lt /\ <<g, h>> \in lt => <<f, h>> \in lt
    <2>1. CASE lt = NewerBound
      BY <1>3, <2>1 DEF NewerBound
    <2>2. CASE lt = NotOlderBound
      BY <1>3, <2>2 DEF NotOlderBound
    <2>3. QED
      BY <2>1, <2>2
  <1>6. ASSUME NEW a \in Range(add), NEW b \in Range(base)
        PROVE  (Before(0, a, b) => <<a, b>> \in lt) /\ (~ Before(0, a, b) => <<b, a>> \in lt)
    <2>1. a \in FileRec /\ b \in FileRec /\ a.xip \in Int /\ b.xip \in Int
      BY <1>2, <1>3, <1>6
    <2>2. CASE lt = NewerBound
      BY <1>6, <2>1, <2>2 DEF Before, NewerBound
    <2>3. CASE lt = NotOlderBound
      BY <2>1, <2>3 DEF Before, NotOlderBound
    <2>4. QED
      BY <2>2, <2>3
  <1>7. Compatible(lt, FileRec, 0, add, v[0])
    BY <1>1, <1>5, <1>6 DEF Compatible
  <1>8. /\ w[0] \in Seq(FileRec)
        /\ Range(w[0]) = MarkedFiles(left, 0, marked)
        /\ MarkedInOrder(w[0], left, 0, marked, lt)
    <2>1. v \in Versions /\ 0 \in Levels /\ added \in Seq(FileRec) /\ add = IF 0 = level THEN added ELSE <<>>
      BY <1>1
    <2>2. MarkedInOrder(Applied(v, level, added, deleted, marked)[0],
                       Remaining(v, 0, add, deleted), 0, marked, lt)
      BY <1>7, <2>1, AppliedOrder
    <2>3. /\ Applied(v, level, added, deleted, marked)[0] \in Seq(FileRec)
          /\ Range(Applied(v, level, added, deleted, marked)[0]) =
                 MarkedFiles(Remaining(v, 0, add, deleted), 0, marked)
      BY <2>1, AppliedFiles
    <2>4. QED
      BY <2>2, <2>3
  <1> HIDE DEF w, left
  <1>9. ASSUME NEW i \in DOMAIN w[0], NEW j \in DOMAIN w[0], i < j PROVE <<w[0][i], w[0][j]>> \in lt
    <2>1. PICK f \in left, g \in left : /\ <<f, g>> \in lt
                                       /\ w[0][i] = Marking(f, 0, marked) /\ w[0][j] = Marking(g, 0, marked)
      BY <1>8, <1>9 DEF MarkedInOrder
    <2>2. /\ Marking(f, 0, marked) \in FileRec /\ Marking(f, 0, marked).xip = f.xip
          /\ Marking(g, 0, marked) \in FileRec /\ Marking(g, 0, marked).xip = g.xip
      BY <1>4, MarkingProperties
    <2>3. QED
      BY <2>1, <2>2 DEF NewerBound, NotOlderBound
  <1>10. ASSUME NEW e \in Range(w[0]) PROVE e.inf <= e.sup
    <2>1. PICK f \in left : e = Marking(f, 0, marked)
      BY <1>8 DEF MarkedFiles
    <2>2. QED
      BY <1>4, <2>1, MarkingProperties
  <1>11. QED
    BY <1>9, <1>10 DEF Ordered, w

\* An edit turns versions into versions.
LEMMA AppliedVersion ==
  ASSUME NEW v \in Versions, NEW level, NEW added \in Seq(FileRec), NEW deleted, NEW marked
  PROVE  Applied(v, level, added, deleted, marked) \in Versions
  <1> DEFINE w == Applied(v, level, added, deleted, marked)
  <1>1. \A l \in Levels : w[l] \in Seq(FileRec)
    BY EmptySeq, AppliedFiles
  <1>2. w = [l \in Levels |-> w[l]]
    BY DEF Applied
  <1> HIDE DEF w
  <1>3. w \in Versions
    BY <1>1, <1>2 DEF Versions
  <1>4. QED
    BY <1>3 DEF w

-----------------------------------------------------------------------------
(* The output of a compaction. *)

\* Its pairs are pairs of the input files.
LEMMA MergedDomain ==
  ASSUME NEW level, NEW ins \in Seq(FileRec) \X Seq(FileRec), NEW disk,
         NEW k \in DOMAIN MergedPairs(level, ins, disk)
  PROVE  \E f \in Range(ins[1]) \cup Range(ins[2]) : k \in DOMAIN disk[f.num].pairs
  <1> DEFINE files == ins[1] \o ins[2]
  <1>1. PICK i \in DOMAIN files : k \in DOMAIN disk[files[i].num].pairs
    BY DEF MergedPairs
  <1>2. ins[1] \in Seq(FileRec) /\ ins[2] \in Seq(FileRec)
    OBVIOUS
  <1>3. files[i] \in Range(ins[1]) \cup Range(ins[2])
    <2>1. /\ DOMAIN ins[1] = 1 .. Len(ins[1]) /\ DOMAIN ins[2] = 1 .. Len(ins[2])
          /\ Len(ins[1]) \in Nat /\ Len(ins[2]) \in Nat /\ i \in 1 .. Len(ins[1]) + Len(ins[2])
      BY <1>1, <1>2, LenProperties, ConcatProperties
    <2>2. CASE i <= Len(ins[1])
      <3>1. files[i] = ins[1][i] /\ i \in DOMAIN ins[1]
        BY <1>2, <2>1, <2>2, ConcatProperties
      <3>2. QED
        BY <3>1 DEF Range
    <2>3. CASE i > Len(ins[1])
      <3>1. files[i] = ins[2][i - Len(ins[1])] /\ i - Len(ins[1]) \in DOMAIN ins[2]
        BY <1>2, <2>1, <2>3, ConcatProperties
      <3>2. QED
        BY <3>1 DEF Range
    <2>4. QED
      BY <2>1, <2>2, <2>3
  <1>4. QED
    BY <1>1, <1>3

\* An output file takes the lowest pairs that are left, and at least one.
LEMMA OutputProperties ==
  ASSUME NEW rest, DOMAIN rest \subseteq Int, IsFiniteSet(DOMAIN rest), DOMAIN rest # {}
  PROVE  /\ OutputKeys(rest) \subseteq DOMAIN rest
         /\ OutputKeys(rest) # {}
         /\ \A k \in OutputKeys(rest), l \in DOMAIN rest \ OutputKeys(rest) : k < l
  <1> DEFINE D == DOMAIN rest
             Under(k) == {l \in D : l < k}
             length == OutputLength(rest)
  <1>1. Cardinality(D) \in Nat /\ Cardinality(D) # 0
    BY FS_CardinalityType, FS_EmptySet
  <1>2. length \in Nat /\ length >= 1
    <2> DEFINE stop == {n \in 2 .. Cardinality(D) : n > MaxFileSize}
    <2>1. length = IF stop = {} THEN Cardinality(D) ELSE Min(stop)
      BY DEF OutputLength
    <2>2. CASE stop = {}
      BY <1>1, <2>1, <2>2
    <2>3. CASE stop # {}
      <3>1. stop \subseteq 2 .. Cardinality(D) /\ IsFiniteSet(2 .. Cardinality(D)) /\ stop \subseteq Int
        BY <1>1, FS_Interval
      <3>2. IsFiniteSet(stop) /\ stop \subseteq Int
        <4> HIDE DEF stop, D
        <4>1. QED
          BY <3>1, FS_Subset
      <3>3. Min(stop) \in stop
        <4> HIDE DEF stop
        <4>1. QED
          BY <2>3, <3>2, MinAndMax
      <3>4. QED
        BY <1>1, <2>1, <2>3, <3>3
    <2>4. QED
      BY <2>2, <2>3
  <1>3. OutputKeys(rest) = {k \in D : Cardinality(Under(k)) < length}
    BY DEF OutputKeys
  <1> HIDE DEF length
  <1>4. OutputKeys(rest) # {}
    <2>1. Min(D) \in D /\ \A x \in D : Min(D) <= x
      BY MinAndMax
    <2>2. Under(Min(D)) = {}
      BY <2>1
    <2>3. Cardinality(Under(Min(D))) = 0
      BY <2>2, FS_EmptySet
    <2>4. QED
      BY <1>2, <1>3, <2>1, <2>3
  <1>5. ASSUME NEW k \in OutputKeys(rest), NEW l \in D \ OutputKeys(rest) PROVE k < l
    <2>1. SUFFICES ASSUME l < k PROVE FALSE
      BY <1>3
    <2>2. Under(l) \subseteq Under(k) /\ Under(k) \subseteq D
      BY <1>3, <2>1
    <2>3. /\ IsFiniteSet(Under(k))
          /\ Cardinality(Under(l)) <= Cardinality(Under(k))
          /\ Cardinality(Under(l)) \in Nat /\ Cardinality(Under(k)) \in Nat
      <3> HIDE DEF Under, D
      <3>1. IsFiniteSet(Under(k))
        BY <2>2, FS_Subset DEF D
      <3>2. IsFiniteSet(Under(l)) /\ Cardinality(Under(l)) <= Cardinality(Under(k))
        BY <2>2, <3>1, FS_Subset
      <3>3. QED
        BY <3>1, <3>2, FS_CardinalityType
    <2>4. Cardinality(Under(k)) < length /\ ~ (Cardinality(Under(l)) < length)
      BY <1>3
    <2>5. QED
      BY <1>2, <2>3, <2>4
  <1>6. QED
    BY <1>3, <1>4, <1>5

-----------------------------------------------------------------------------
(* Lookup. *)

\* The ranges that find_in_files may halve.
Ranges(n) == {r \in (0 .. n) \X (0 .. n) : r[1] + r[2] <= n}

\* The equations of its recursion.
SolvesHalving(first, files, key) ==
  \A r \in Ranges(Len(files)) :
    first[r] = CASE r[2] = 0 -> r[1]
                 [] r[2] > 0 /\ files[r[1] + (r[2] \div 2) + 1].sup < key ->
                       first[<<r[1] + (r[2] \div 2) + 1, r[2] - (r[2] \div 2) - 1>>]
                 [] OTHER -> first[<<r[1], r[2] \div 2>>]

\* Halving stays in the range and makes it shorter.
LEMMA HalvesAreShorter ==
  ASSUME NEW n \in Nat, NEW r \in Ranges(n), r[2] # 0
  PROVE  /\ <<r[1] + (r[2] \div 2) + 1, r[2] - (r[2] \div 2) - 1>> \in Ranges(n)
         /\ r[2] - (r[2] \div 2) - 1 < r[2]
         /\ <<r[1], r[2] \div 2>> \in Ranges(n)
         /\ r[2] \div 2 < r[2]
         /\ r[2] \div 2 \in Nat /\ r[1] \in Nat /\ r[2] \in Nat
         /\ r[1] + (r[2] \div 2) + 1 \in 1 .. n
  <1>1. r[1] \in 0 .. n /\ r[2] \in 1 .. n /\ r[1] + r[2] <= n
    BY DEF Ranges
  <1>2. \A c \in Nat \ {0} : c \div 2 \in Nat /\ c \div 2 < c
    OBVIOUS
  <1> DEFINE h == r[2] \div 2
  <1>3. h \in Nat /\ h < r[2]
    BY <1>1, <1>2
  <1> HIDE DEF h
  <1>4. /\ r[1] + h + 1 \in 1 .. n /\ r[2] - h - 1 \in 0 .. n /\ h \in 0 .. n
        /\ (r[1] + h + 1) + (r[2] - h - 1) <= n /\ r[1] + h <= n
        /\ r[2] - h - 1 < r[2] /\ r[1] \in 0 .. n /\ r[1] + h + 1 \in 0 .. n
    BY <1>1, <1>3
  <1>5. <<r[1] + h + 1, r[2] - h - 1>> \in Ranges(n) /\ <<r[1], h>> \in Ranges(n)
    BY <1>4 DEF Ranges
  <1>6. QED
    BY <1>1, <1>3, <1>4, <1>5 DEF h

\* The recursion of find_in_files has a solution, which FilesBelow is.
LEMMA HalvingEquation ==
  ASSUME NEW files \in Seq(FileRec), NEW key
  PROVE  \E first \in [Ranges(Len(files)) -> Nat] :
           FilesBelow(files, key) = first[<<0, Len(files)>>] /\ SolvesHalving(first, files, key)
  <1> DEFINE n == Len(files)
             D == Ranges(n)
             E(f, r) == CASE r[2] = 0 -> r[1]
                          [] r[2] > 0 /\ files[r[1] + (r[2] \div 2) + 1].sup < key ->
                                f[<<r[1] + (r[2] \div 2) + 1, r[2] - (r[2] \div 2) - 1>>]
                          [] OTHER -> f[<<r[1], r[2] \div 2>>]
             first == CHOOSE f : f = [r \in D |-> E(f, r)]
             rank == [r \in D |-> r[2]]
             step == [r \in D |-> [f \in [D -> Nat] |-> E(f, r)]]
  <1>1. FilesBelow(files, key) = first[<<0, n>>]
    BY DEF FilesBelow, Ranges
  <1>2. n \in Nat
    BY LenProperties
  <1>3. rank \in [D -> Nat]
    BY <1>2 DEF Ranges
  <1>4. ASSUME NEW r \in D, r[2] # 0
        PROVE  /\ <<r[1] + (r[2] \div 2) + 1, r[2] - (r[2] \div 2) - 1>> \in D
               /\ rank[<<r[1] + (r[2] \div 2) + 1, r[2] - (r[2] \div 2) - 1>>] < rank[r]
               /\ <<r[1], r[2] \div 2>> \in D /\ rank[<<r[1], r[2] \div 2>>] < rank[r]
    <2>1. /\ <<r[1] + (r[2] \div 2) + 1, r[2] - (r[2] \div 2) - 1>> \in D
          /\ r[2] - (r[2] \div 2) - 1 < r[2]
          /\ <<r[1], r[2] \div 2>> \in D /\ r[2] \div 2 < r[2]
      BY <1>2, <1>4, HalvesAreShorter
    <2> HIDE DEF D
    <2>2. QED
      BY <2>1
  <1>5. ASSUME NEW r \in D, NEW f, \A q \in D : rank[q] < rank[r] => f[q] \in Nat PROVE E(f, r) \in Nat
    <2>1. r[1] \in Nat /\ r[2] \in Nat
      BY <1>2 DEF Ranges
    <2>2. CASE r[2] = 0
      BY <2>1, <2>2
    <2>3. CASE r[2] # 0
      <3>1. /\ f[<<r[1] + (r[2] \div 2) + 1, r[2] - (r[2] \div 2) - 1>>] \in Nat
            /\ f[<<r[1], r[2] \div 2>>] \in Nat
        BY <1>4, <1>5, <2>3
      <3>2. QED
        BY <2>3, <3>1
    <2>4. QED
      BY <2>2, <2>3
  <1>6. ASSUME NEW r \in D, NEW f, NEW g, \A q \in D : rank[q] < rank[r] => f[q] = g[q]
        PROVE  E(f, r) = E(g, r)
    <2>1. CASE r[2] = 0
      BY <2>1
    <2>2. CASE r[2] # 0
      <3>1. /\ f[<<r[1] + (r[2] \div 2) + 1, r[2] - (r[2] \div 2) - 1>>] =
                 g[<<r[1] + (r[2] \div 2) + 1, r[2] - (r[2] \div 2) - 1>>]
            /\ f[<<r[1], r[2] \div 2>>] = g[<<r[1], r[2] \div 2>>]
        BY <1>4, <1>6, <2>2
      <3>2. QED
        BY <2>2, <3>1
    <2>3. QED
      BY <2>1, <2>2
  <1> HIDE DEF D, E, rank
  <1>7. OnLower(D, Nat, rank, step)
    <2>1. \A r \in D : \A f \in [D -> Nat] : E(f, r) \in Nat
      BY <1>5
    <2>2. step \in [D -> [[D -> Nat] -> Nat]]
      BY <2>1
    <2>3. \A x \in D : \A f, g \in [D -> Nat] :
            (\A y \in D : rank[y] < rank[x] => f[y] = g[y]) => step[x][f] = step[x][g]
      BY <1>6
    <2>4. Nat # {}
      OBVIOUS
    <2>5. QED
      BY <1>3, <2>2, <2>3, <2>4 DEF OnLower
  <1>8. PICK h \in [D -> Nat] : \A x \in D : h[x] = step[x][h]
    <2>1. HasSolution(D, Nat, step)
      <3> HIDE DEF step
      <3>1. QED
        BY <1>7, RecursionOnRank
    <2>2. QED
      BY <2>1 DEF HasSolution
  <1>9. h = [r \in D |-> E(h, r)]
    BY <1>8
  <1>10. first = [r \in D |-> E(first, r)]
    BY <1>9
  <1> HIDE DEF first, step
  <1>11. \A r \in D : first[r] = E(first, r)
    BY <1>10
  <1> DEFINE G == {r \in D : first[r] \in Nat}
  <1>12. \A r \in D : (\A q \in D : rank[q] < rank[r] => q \in G) => r \in G
    BY <1>5, <1>11
  <1>13. D \subseteq G
    <2> HIDE DEF G
    <2>1. QED
      BY <1>3, <1>12, LowerRankFirst
  <1>14. first \in [D -> Nat]
    <2>1. first = [r \in D |-> first[r]]
      BY <1>10, <1>11
    <2>2. QED
      BY <1>13, <2>1
  <1>15. QED
    BY <1>1, <1>11, <1>14 DEF D, E, SolvesHalving

\* find_in_files finds how many files of a sorted level end below the key.
LEMMA FilesBelowProperties ==
  ASSUME NEW files \in Seq(FileRec), Sorted(files), NEW key \in Int
  PROVE  /\ FilesBelow(files, key) \in 0 .. Len(files)
         /\ \A i \in 1 .. Len(files) : files[i].sup < key <=> i <= FilesBelow(files, key)
  <1> DEFINE n == Len(files)
             D == Ranges(n)
             rank == [r \in D |-> r[2]]
  <1>1. n \in Nat /\ DOMAIN files = 1 .. n /\ \A i \in 1 .. n : files[i].sup \in Int
    <2>1. n \in Nat /\ DOMAIN files = 1 .. n /\ \A i \in 1 .. n : files[i] \in FileRec
      BY LenProperties
    <2>2. \A f \in FileRec : f.sup \in Int
      BY DEF FileRec
    <2>3. QED
      BY <2>1, <2>2
  <1>2. ASSUME NEW i \in 1 .. n, NEW j \in 1 .. n, i <= j PROVE files[i].sup <= files[j].sup
    <2>1. CASE i = j
      BY <1>1, <2>1
    <2>2. CASE i < j
      <3>1. files[i].sup < files[j].inf
        BY <1>1, <2>2 DEF Sorted, Ordered, Below
      <3>2. files[j].inf <= files[j].sup /\ files[j] \in FileRec
        BY <1>1 DEF Sorted, Range
      <3>3. files[j].inf \in Int
        BY <3>2 DEF FileRec
      <3>4. QED
        BY <1>1, <3>1, <3>2, <3>3
    <2>3. QED
      BY <1>1, <1>2, <2>1, <2>2
  <1>3. PICK first \in [D -> Nat] :
           FilesBelow(files, key) = first[<<0, n>>] /\ SolvesHalving(first, files, key)
    BY HalvingEquation
  <1> DEFINE IsBelow(i) == files[i].sup < key
             Good(r, m) == /\ r[1] <= m /\ m <= r[1] + r[2]
                           /\ \A i \in 1 .. n : /\ r[1] < i /\ i <= m => IsBelow(i)
                                                /\ m < i /\ i <= r[1] + r[2] => ~ IsBelow(i)
             G == {r \in D : Good(r, first[r])}
  <1>4. \A i, j \in 1 .. n : i <= j /\ IsBelow(j) => IsBelow(i)
    BY <1>1, <1>2
  <1>5. ASSUME NEW r \in D, \A q \in D : rank[q] < rank[r] => q \in G PROVE r \in G
    <2>1. r[1] \in 0 .. n /\ r[2] \in 0 .. n /\ r[1] + r[2] <= n
      BY DEF Ranges
    <2>2. CASE r[2] = 0
      <3>1. first[r] = r[1]
        <4>1. first[r] = CASE r[2] = 0 -> r[1]
                           [] r[2] > 0 /\ files[r[1] + (r[2] \div 2) + 1].sup < key ->
                                 first[<<r[1] + (r[2] \div 2) + 1, r[2] - (r[2] \div 2) - 1>>]
                           [] OTHER -> first[<<r[1], r[2] \div 2>>]
          BY <1>3 DEF SolvesHalving
        <4>2. ~ (r[2] > 0)
          BY <2>2
        <4> HIDE DEF D
        <4>3. QED
          BY <2>2, <4>1, <4>2
      <3> HIDE DEF IsBelow
      <3>2. QED
        BY <1>1, <2>1, <2>2, <3>1
    <2>3. CASE r[2] # 0
      <3> DEFINE h == r[2] \div 2
                 a == <<r[1] + h + 1, r[2] - h - 1>>
                 b == <<r[1], h>>
      <3>1. /\ a \in D /\ a[2] < r[2] /\ b \in D /\ b[2] < r[2] /\ h \in Nat
            /\ r[1] \in Nat /\ r[2] \in Nat /\ r[1] + h + 1 \in 1 .. n
        BY <1>1, <2>3, HalvesAreShorter
      <3>2. rank[a] < rank[r] /\ rank[b] < rank[r]
        BY <3>1
      <3>3. Good(a, first[a]) /\ Good(b, first[b]) /\ first[a] \in Nat /\ first[b] \in Nat
        BY <1>3, <1>5, <3>1, <3>2
      <3>4. first[r] = IF IsBelow(r[1] + h + 1) THEN first[a] ELSE first[b]
        BY <1>3, <2>1, <2>3, <3>1, SMTT(30) DEF SolvesHalving
      <3>5. a[1] = r[1] + h + 1 /\ a[2] = r[2] - h - 1 /\ b[1] = r[1] /\ b[2] = h /\ h < r[2]
        BY <3>1
      <3> HIDE DEF a, b, h, D, IsBelow
      <3>6. CASE IsBelow(r[1] + h + 1)
        <4>1. \A i \in 1 .. n : r[1] < i /\ i <= r[1] + h + 1 => IsBelow(i)
          BY <1>4, <3>1, <3>6
        <4>2. r[1] <= first[a] /\ first[a] <= r[1] + r[2]
          BY <2>1, <3>1, <3>3, <3>5
        <4>3. ASSUME NEW i \in 1 .. n, r[1] < i, i <= first[a] PROVE IsBelow(i)
          <5>1. CASE i <= r[1] + h + 1
            BY <4>1, <4>3, <5>1
          <5>2. CASE r[1] + h + 1 < i
            BY <3>3, <3>5, <4>3, <5>2
          <5>3. QED
            BY <1>1, <3>1, <5>1, <5>2
        <4>4. ASSUME NEW i \in 1 .. n, first[a] < i, i <= r[1] + r[2] PROVE ~ IsBelow(i)
          <5>1. i <= a[1] + a[2]
            BY <1>1, <3>1, <3>5, <4>4, SMTT(30)
          <5>2. QED
            BY <3>3, <4>4, <5>1
        <4>5. QED
          BY <3>4, <3>6, <4>2, <4>3, <4>4
      <3>7. CASE ~ IsBelow(r[1] + h + 1)
        <4>1. \A i \in 1 .. n : r[1] + h < i => ~ IsBelow(i)
          <5>1. \A i \in 1 .. n : r[1] + h < i => r[1] + h + 1 <= i
            BY <1>1, <3>1
          <5>2. QED
            BY <1>4, <3>1, <3>7, <5>1
        <4>2. Good(r, first[b])
          BY <1>1, <2>1, <3>1, <3>3, <3>5, <4>1
        <4>3. QED
          BY <3>4, <3>7, <4>2
      <3>8. QED
        BY <3>6, <3>7
    <2>4. QED
      BY <2>2, <2>3
  <1>6. rank \in [D -> Nat]
    BY <1>1 DEF Ranges
  <1>7. D \subseteq G
    <2> HIDE DEF G, D, rank
    <2>1. \A x \in D : (\A y \in D : rank[y] < rank[x] => y \in G) => x \in G
      BY <1>5
    <2>2. QED
      BY <1>6, <2>1, LowerRankFirst
  <1>8. <<0, n>> \in D
    BY <1>1 DEF Ranges
  <1>9. Good(<<0, n>>, first[<<0, n>>]) /\ first[<<0, n>>] \in Nat
    BY <1>3, <1>7, <1>8
  <1> HIDE DEF IsBelow
  <1>10. FilesBelow(files, key) \in 0 .. n /\ \A i \in 1 .. n : IsBelow(i) <=> i <= FilesBelow(files, key)
    <2> DEFINE m == FilesBelow(files, key)
               z == <<0, n>>
    <2>1. m = first[z] /\ Good(z, m) /\ m \in Nat /\ z[1] = 0 /\ z[2] = n
      BY <1>3, <1>9
    <2> HIDE DEF z, m
    <2>2. m \in 0 .. n
      BY <1>1, <2>1
    <2>3. ASSUME NEW i \in 1 .. n PROVE IsBelow(i) <=> i <= m
      <3>1. 0 < i /\ i <= 0 + n /\ (i <= m \/ m < i)
        BY <1>1, <2>2
      <3>2. QED
        BY <2>1, <2>2, <3>1
    <2>4. QED
      BY <2>2, <2>3 DEF m
  <1>11. QED
    BY <1>10 DEF IsBelow

\* The equations of the recursions of Get.
SolvesBelow(below, v, disk, key) ==
  \A l \in 1 .. NumLevels :
    below[l] = CASE l = NumLevels -> Absent
                 [] l < NumLevels /\ FilesBelow(v[l], key) < Len(v[l]) ->
                       LET answer == Answer(disk, v[l][FilesBelow(v[l], key) + 1].num, key)
                       IN  IF answer # Absent THEN answer ELSE below[l + 1]
                 [] OTHER -> below[l + 1]

SolvesNewest(newest, v, disk, key, other) ==
  \A i \in 1 .. Len(v[0]) + 1 :
    newest[i] = CASE i > Len(v[0]) -> other
                  [] /\ i <= Len(v[0])
                     /\ v[0][i].inf <= key /\ key <= v[0][i].sup
                     /\ Answer(disk, v[0][i].num, key) # Absent -> Answer(disk, v[0][i].num, key)
                  [] OTHER -> newest[i + 1]

\* All answers of the tables of v are in V.
AnswersIn(v, disk, key, V) ==
  Absent \in V /\ \A l \in Levels : \A f \in Range(v[l]) : Answer(disk, f.num, key) \in V

\* What E[i] makes of a function depends on its value at i + 1 only.
OnNext(n, V, E) ==
  /\ V # {} /\ E \in [1 .. n -> [[1 .. n -> V] -> V]]
  /\ \A i \in 1 .. n : \A f, g \in [1 .. n -> V] :
       (i < n => f[i + 1] = g[i + 1]) => E[i][f] = E[i][g]

\* Such a recursion, from n downwards, has a solution.
LEMMA DownwardRecursion ==
  ASSUME NEW n \in Nat, NEW V, NEW E, OnNext(n, V, E)
  PROVE  HasSolution(1 .. n, V, E)
  <1> DEFINE D == 1 .. n
             rank == [i \in D |-> n - i]
  <1>1. rank \in [D -> Nat]
    OBVIOUS
  <1>2. E \in [D -> [[D -> V] -> V]] /\ V # {}
    BY DEF OnNext
  <1>3. ASSUME NEW i \in D, NEW f \in [D -> V], NEW g \in [D -> V],
               \A y \in D : rank[y] < rank[i] => f[y] = g[y]
        PROVE  E[i][f] = E[i][g]
    <2>1. i < n => i + 1 \in D /\ rank[i + 1] < rank[i]
      OBVIOUS
    <2>2. i < n => f[i + 1] = g[i + 1]
      BY <1>3, <2>1
    <2>3. QED
      BY <2>2 DEF OnNext
  <1> HIDE DEF D, rank
  <1>4. OnLower(D, V, rank, E)
    BY <1>1, <1>2, <1>3 DEF OnLower
  <1>5. HasSolution(D, V, E)
    BY <1>4, RecursionOnRank
  <1>6. QED
    BY <1>5 DEF D

\* Induction from n downwards.
LEMMA CountDown ==
  ASSUME NEW n \in Nat, NEW G, \A i \in 1 .. n : (i < n => i + 1 \in G) => i \in G
  PROVE  1 .. n \subseteq G
  <1> DEFINE D == 1 .. n
             rank == [i \in D |-> n - i]
  <1>1. rank \in [D -> Nat]
    OBVIOUS
  <1>2. ASSUME NEW i \in D, \A y \in D : rank[y] < rank[i] => y \in G PROVE i \in G
    <2>1. i < n => i + 1 \in D /\ rank[i + 1] < rank[i]
      OBVIOUS
    <2>2. i < n => i + 1 \in G
      BY <1>2, <2>1
    <2>3. QED
      BY <2>2
  <1> HIDE DEF D, rank
  <1>3. D \subseteq G
    BY <1>1, <1>2, LowerRankFirst
  <1>4. QED
    BY <1>3 DEF D

\* The recursions of Get have solutions, and Get is what they say.
LEMMA GetEquation ==
  ASSUME NEW v \in Versions, NEW disk, NEW key, NEW V, AnswersIn(v, disk, key, V),
         \A l \in Levels \ {0} : FilesBelow(v[l], key) \in Nat
  PROVE  \E below \in [1 .. NumLevels -> V] : \E newest \in [1 .. Len(v[0]) + 1 -> V] :
           /\ Get(v, disk, key) = newest[1]
           /\ SolvesBelow(below, v, disk, key)
           /\ SolvesNewest(newest, v, disk, key, below[1])
  <1> DEFINE N == NumLevels
             M == Len(v[0]) + 1
             EB(f, l) == CASE l = NumLevels -> Absent
                           [] l < NumLevels /\ FilesBelow(v[l], key) < Len(v[l]) ->
                                 LET answer == Answer(disk, v[l][FilesBelow(v[l], key) + 1].num, key)
                                 IN  IF answer # Absent THEN answer ELSE f[l + 1]
                           [] OTHER -> f[l + 1]
             below == CHOOSE f : f = [l \in 1 .. NumLevels |-> EB(f, l)]
             EN(f, i) == CASE i > Len(v[0]) -> below[1]
                           [] /\ i <= Len(v[0])
                              /\ v[0][i].inf <= key /\ key <= v[0][i].sup
                              /\ Answer(disk, v[0][i].num, key) # Absent -> Answer(disk, v[0][i].num, key)
                           [] OTHER -> f[i + 1]
             newest == CHOOSE f : f = [i \in 1 .. Len(v[0]) + 1 |-> EN(f, i)]
  <1>1. Get(v, disk, key) = newest[1]
    BY DEF Get
  <1>2. /\ N \in Nat /\ N >= 2 /\ M \in Nat /\ M >= 1 /\ V # {} /\ Absent \in V
        /\ \A l \in 1 .. N : l < N => l \in Levels \ {0}
        /\ 0 \in Levels
        /\ \A l \in Levels : v[l] \in Seq(FileRec) /\ Len(v[l]) \in Nat /\ DOMAIN v[l] = 1 .. Len(v[l])
    BY OptionsAssumption, LenProperties DEF Levels, Versions, AnswersIn
  <1>3. ASSUME NEW l \in Levels, NEW i \in 1 .. Len(v[l])
        PROVE  Answer(disk, v[l][i].num, key) \in V
    <2>1. v[l][i] \in Range(v[l])
      BY <1>2, <1>3 DEF Range
    <2>2. QED
      BY <2>1 DEF AnswersIn
  <1>4. /\ below \in [1 .. N -> V]
        /\ \A l \in 1 .. N : below[l] = EB(below, l)
    <2> DEFINE D == 1 .. N
               E == [l \in D |-> [f \in [D -> V] |-> EB(f, l)]]
    <2>1. ASSUME NEW l \in D, NEW f, l < N => f[l + 1] \in V PROVE EB(f, l) \in V
      <3>1. CASE l = N
        BY <1>2, <3>1
      <3>2. CASE l # N
        <4>1. l < N /\ l \in Levels \ {0} /\ FilesBelow(v[l], key) \in Nat /\ Len(v[l]) \in Nat
          BY <1>2, <3>2
        <4>2. f[l + 1] \in V
          BY <2>1, <4>1
        <4>3. FilesBelow(v[l], key) < Len(v[l]) =>
                  Answer(disk, v[l][FilesBelow(v[l], key) + 1].num, key) \in V
          BY <1>3, <4>1
        <4>4. QED
          BY <3>2, <4>1, <4>2, <4>3
      <3>3. QED
        BY <3>1, <3>2
    <2>2. ASSUME NEW l \in D, NEW f, NEW g, l < N => f[l + 1] = g[l + 1] PROVE EB(f, l) = EB(g, l)
      <3>1. CASE l = N
        BY <3>1
      <3>2. CASE l # N
        <4>1. f[l + 1] = g[l + 1]
          BY <1>2, <2>2, <3>2
        <4>2. QED
          BY <4>1
      <3>3. QED
        BY <3>1, <3>2
    <2> HIDE DEF EB
    <2>3. OnNext(N, V, E)
      <3>1. \A l \in D : \A f \in [D -> V] : EB(f, l) \in V
        <4>1. SUFFICES ASSUME NEW l \in D, NEW f \in [D -> V] PROVE EB(f, l) \in V
          OBVIOUS
        <4>2. l < N => f[l + 1] \in V
          BY <1>2
        <4>3. QED
          BY <2>1, <4>2
      <3>2. E \in [D -> [[D -> V] -> V]]
        BY <3>1
      <3>3. \A l \in D : \A f, g \in [D -> V] : (l < N => f[l + 1] = g[l + 1]) => E[l][f] = E[l][g]
        BY <2>2
      <3> HIDE DEF E
      <3>4. QED
        BY <1>2, <3>2, <3>3 DEF OnNext
    <2>4. HasSolution(D, V, E)
      <3> HIDE DEF E
      <3>1. QED
        BY <1>2, <2>3, DownwardRecursion
    <2>5. PICK h \in [D -> V] : \A l \in D : h[l] = E[l][h]
      BY <2>4 DEF HasSolution
    <2>6. h = [l \in D |-> EB(h, l)]
      BY <2>5
    <2>7. below = [l \in D |-> EB(below, l)]
      BY <2>6
    <2> HIDE DEF below, E
    <2>8. \A l \in D : below[l] = EB(below, l)
      BY <2>7
    <2> DEFINE G == {l \in D : below[l] \in V}
    <2>9. ASSUME NEW l \in D, l < N => l + 1 \in G PROVE l \in G
      BY <2>1, <2>8, <2>9
    <2>10. D \subseteq G
      <3> HIDE DEF G
      <3>1. QED
        BY <1>2, <2>9, CountDown
    <2>11. below = [l \in D |-> below[l]]
      BY <2>7, <2>8
    <2>12. QED
      BY <2>8, <2>10, <2>11
  <1> HIDE DEF below
  <1>5. /\ newest \in [1 .. M -> V]
        /\ \A i \in 1 .. M : newest[i] = EN(newest, i)
    <2> DEFINE D == 1 .. M
               E == [i \in D |-> [f \in [D -> V] |-> EN(f, i)]]
    <2>1. ASSUME NEW i \in D, NEW f, i < M => f[i + 1] \in V PROVE EN(f, i) \in V
      <3>1. below[1] \in V /\ Len(v[0]) \in Nat
        BY <1>2, <1>4
      <3>2. i <= Len(v[0]) => Answer(disk, v[0][i].num, key) \in V /\ f[i + 1] \in V
        BY <1>2, <1>3, <2>1, <3>1
      <3>3. QED
        BY <3>1, <3>2
    <2>2. ASSUME NEW i \in D, NEW f, NEW g, i < M => f[i + 1] = g[i + 1] PROVE EN(f, i) = EN(g, i)
      BY <1>2, <2>2
    <2> HIDE DEF EN
    <2>3. OnNext(M, V, E)
      <3>1. \A l \in D : \A f \in [D -> V] : EN(f, l) \in V
        <4>1. SUFFICES ASSUME NEW l \in D, NEW f \in [D -> V] PROVE EN(f, l) \in V
          OBVIOUS
        <4>2. l < M => f[l + 1] \in V
          BY <1>2
        <4>3. QED
          BY <2>1, <4>2
      <3>2. E \in [D -> [[D -> V] -> V]]
        BY <3>1
      <3>3. \A l \in D : \A f, g \in [D -> V] : (l < M => f[l + 1] = g[l + 1]) => E[l][f] = E[l][g]
        BY <2>2
      <3> HIDE DEF E
      <3>4. QED
        BY <1>2, <3>2, <3>3 DEF OnNext
    <2>4. HasSolution(D, V, E)
      <3> HIDE DEF E
      <3>1. QED
        BY <1>2, <2>3, DownwardRecursion
    <2>5. PICK h \in [D -> V] : \A l \in D : h[l] = E[l][h]
      BY <2>4 DEF HasSolution
    <2>6. h = [l \in D |-> EN(h, l)]
      BY <2>5
    <2>7. newest = [l \in D |-> EN(newest, l)]
      BY <2>6
    <2> HIDE DEF newest, E
    <2>8. \A l \in D : newest[l] = EN(newest, l)
      BY <2>7
    <2> DEFINE G == {l \in D : newest[l] \in V}
    <2>9. ASSUME NEW l \in D, l < M => l + 1 \in G PROVE l \in G
      BY <2>1, <2>8, <2>9
    <2>10. D \subseteq G
      <3> HIDE DEF G
      <3>1. QED
        BY <1>2, <2>9, CountDown
    <2>11. newest = [l \in D |-> newest[l]]
      BY <2>7, <2>8
    <2>12. QED
      BY <2>8, <2>10, <2>11
  <1> HIDE DEF newest
  <1>6. SolvesBelow(below, v, disk, key)
    BY <1>4 DEF SolvesBelow
  <1>7. SolvesNewest(newest, v, disk, key, below[1])
    BY <1>5 DEF SolvesNewest
  <1>8. QED
    BY <1>1, <1>4, <1>5, <1>6, <1>7

Has(disk, f, k) == k \in DOMAIN disk[f.num].pairs

\* The table of f can be read, and its pairs lie in its range.
Readable(f, disk) ==
  /\ disk[f.num].ok
  /\ \A k \in DOMAIN disk[f.num].pairs :
       f.inf <= k /\ k <= f.sup /\ disk[f.num].pairs[k] \in Nat \ {0}

\* A version in order all of whose tables can be read.
Intact(v, disk) == InStrictOrder(v) /\ \A l \in Levels : \A f \in Range(v[l]) : Readable(f, disk)

\* No table of levels m and below it, down to level n, has the key.
NoneHas(v, disk, key, m, n) == \A l \in m .. n - 1 : \A f \in Range(v[l]) : ~ Has(disk, f, key)

\* f is where a lookup of the key ends: at the first level that has it, and
\* at level 0 the newest of those that have it.
EndsAt(v, disk, key, l, f) ==
  /\ l \in Levels /\ f \in Range(v[l]) /\ Has(disk, f, key)
  /\ NoneHas(v, disk, key, 0, l)
  /\ l = 0 => \A g \in Range(v[0]) : Has(disk, g, key) => g.xip <= f.xip

\* What a readable table answers.
LEMMA AnswerOfReadable ==
  ASSUME NEW disk, NEW f, Readable(f, disk), NEW key
  PROVE  /\ Has(disk, f, key) => /\ Answer(disk, f.num, key) = disk[f.num].pairs[key]
                                /\ Answer(disk, f.num, key) \in Nat \ {0}
                                /\ f.inf <= key /\ key <= f.sup
         /\ ~ Has(disk, f, key) => Answer(disk, f.num, key) = Absent
  BY DEF Readable, Has, Answer

\* At a level above 0 the halving finds the table that has the key.
LEMMA HalvingFinds ==
  ASSUME NEW v, NEW disk, Intact(v, disk), NEW key \in Int, NEW l \in Levels \ {0}
  PROVE  LET n == FilesBelow(v[l], key)
         IN  /\ n \in Nat
             /\ n < Len(v[l]) => v[l][n + 1] \in Range(v[l])
             /\ \A f \in Range(v[l]) : Has(disk, f, key) => n < Len(v[l]) /\ f = v[l][n + 1]
  <1> DEFINE s == v[l]
             n == FilesBelow(s, key)
  <1>1. s \in Seq(FileRec) /\ Sorted(s) /\ \A f \in Range(s) : Readable(f, disk)
    BY DEF Intact, InStrictOrder, InOrder, Versions
  <1>2. Len(s) \in Nat /\ DOMAIN s = 1 .. Len(s) /\ \A i \in 1 .. Len(s) : s[i] \in FileRec
    BY <1>1, LenProperties
  <1>3. n \in 0 .. Len(s) /\ \A i \in 1 .. Len(s) : s[i].sup < key <=> i <= n
    BY <1>1, FilesBelowProperties
  <1> HIDE DEF n
  <1>4. n < Len(s) => s[n + 1] \in Range(s)
    BY <1>2, <1>3 DEF Range
  <1>5. ASSUME NEW f \in Range(s), Has(disk, f, key) PROVE n < Len(s) /\ f = s[n + 1]
    <2>1. PICK i \in 1 .. Len(s) : f = s[i]
      BY <1>2 DEF Range
    <2>2. f.inf <= key /\ key <= f.sup /\ f.inf \in Int /\ f.sup \in Int
      <3>1. f.inf <= key /\ key <= f.sup
        BY <1>1, <1>5, AnswerOfReadable
      <3>2. f \in FileRec
        BY <1>2, <2>1
      <3>3. QED
        BY <3>1, <3>2 DEF FileRec
    <2>3. n < i
      BY <1>2, <1>3, <2>1, <2>2
    <2>4. CASE n + 1 < i
      <3>1. n + 1 \in 1 .. Len(s)
        BY <1>2, <1>3, <2>4
      <3>2. s[n + 1].sup < f.inf
        BY <1>1, <1>2, <2>1, <2>4, <3>1 DEF Sorted, Ordered, Below
      <3>3. s[n + 1].sup \in Int
        BY <1>2, <3>1 DEF FileRec
      <3>4. s[n + 1].sup < key
        BY <2>2, <3>2, <3>3
      <3>5. n + 1 <= n
        BY <1>3, <3>1, <3>4
      <3>6. QED
        BY <1>3, <3>5
    <2>5. CASE i = n + 1
      BY <1>2, <1>3, <2>1, <2>5
    <2>6. QED
      BY <1>2, <1>3, <2>3, <2>4, <2>5
  <1>6. QED
    BY <1>3, <1>4, <1>5 DEF n

\* A lookup ends with the value of the table it ends at, or finds nothing if
\* no table has the key.
LEMMA LookupResult ==
  ASSUME NEW v, NEW disk, Intact(v, disk), NEW key \in Int
  PROVE  /\ \A l, f : EndsAt(v, disk, key, l, f) => Get(v, disk, key) = disk[f.num].pairs[key]
         /\ NoneHas(v, disk, key, 0, NumLevels) => Get(v, disk, key) = Absent
  <1> DEFINE N == NumLevels
             value(f) == disk[f.num].pairs[key]
  <1>1. /\ N \in Nat /\ N >= 2 /\ 0 \in Levels /\ Levels = 0 .. N - 1
        /\ \A l \in 1 .. N : l < N => l \in Levels \ {0}
    BY OptionsAssumption DEF Levels
  <1>2. v \in Versions /\ \A l \in Levels : \A f \in Range(v[l]) : Readable(f, disk)
    BY DEF Intact, InStrictOrder, InOrder
  <1>3. v[0] \in Seq(FileRec) /\ Len(v[0]) \in Nat /\ DOMAIN v[0] = 1 .. Len(v[0])
    BY <1>1, <1>2, LenProperties DEF Versions
  <1>4. AnswersIn(v, disk, key, Nat)
    <2>1. ASSUME NEW l \in Levels, NEW f \in Range(v[l]) PROVE Answer(disk, f.num, key) \in Nat
      BY <1>2, <2>1, AnswerOfReadable DEF Absent
    <2>2. QED
      BY <2>1 DEF AnswersIn, Absent
  <1>5. \A l \in Levels \ {0} : FilesBelow(v[l], key) \in Nat
    BY HalvingFinds
  <1>6. PICK below \in [1 .. N -> Nat], newest \in [1 .. Len(v[0]) + 1 -> Nat] :
           /\ Get(v, disk, key) = newest[1]
           /\ SolvesBelow(below, v, disk, key)
           /\ SolvesNewest(newest, v, disk, key, below[1])
    BY <1>2, <1>4, <1>5, GetEquation
  <1>7. ASSUME NEW l \in 1 .. N, l < N
        PROVE  /\ NoneHas(v, disk, key, l, l + 1) => below[l] = below[l + 1]
               /\ \A f \in Range(v[l]) : Has(disk, f, key) => below[l] = value(f)
    <2> DEFINE n == FilesBelow(v[l], key)
    <2>1. /\ n \in Nat
          /\ n < Len(v[l]) => v[l][n + 1] \in Range(v[l])
          /\ \A f \in Range(v[l]) : Has(disk, f, key) => n < Len(v[l]) /\ f = v[l][n + 1]
      <3>1. l \in Levels \ {0}
        BY <1>1, <1>7
      <3> HIDE DEF N
      <3>2. QED
        BY <3>1, HalvingFinds
    <2>2. l \in Levels /\ l \in Nat /\ l # N
      BY <1>1, <1>7
    <2>3. below[l] = IF n < Len(v[l]) /\ Answer(disk, v[l][n + 1].num, key) # Absent
                     THEN Answer(disk, v[l][n + 1].num, key)
                     ELSE below[l + 1]
      BY <1>6, <1>7, <2>2 DEF SolvesBelow
    <2> HIDE DEF n
    <2>4. ASSUME NoneHas(v, disk, key, l, l + 1) PROVE below[l] = below[l + 1]
      <3>1. l \in l .. (l + 1) - 1
        BY <2>2
      <3>2. \A f \in Range(v[l]) : ~ Has(disk, f, key)
        BY <2>4, <3>1 DEF NoneHas
      <3>3. n < Len(v[l]) => Answer(disk, v[l][n + 1].num, key) = Absent
        <4>1. SUFFICES ASSUME n < Len(v[l]) PROVE Answer(disk, v[l][n + 1].num, key) = Absent
          OBVIOUS
        <4> DEFINE g == v[l][n + 1]
        <4>2. Readable(g, disk) /\ ~ Has(disk, g, key)
          BY <1>2, <2>1, <2>2, <3>2, <4>1
        <4> HIDE DEF g
        <4>3. Answer(disk, g.num, key) = Absent
          BY <4>2, AnswerOfReadable
        <4>4. QED
          BY <4>3 DEF g
      <3>4. QED
        BY <2>3, <3>3
    <2>5. ASSUME NEW f \in Range(v[l]), Has(disk, f, key) PROVE below[l] = value(f)
      <3>1. n < Len(v[l]) /\ f = v[l][n + 1]
        BY <2>1, <2>5
      <3>2. Answer(disk, f.num, key) = value(f) /\ Answer(disk, f.num, key) \in Nat \ {0}
        BY <1>2, <2>2, <2>5, AnswerOfReadable
      <3>3. QED
        BY <2>3, <3>1, <3>2 DEF Absent
    <2>6. QED
      BY <2>4, <2>5
  <1>8. below[N] = Absent
    BY <1>1, <1>6 DEF SolvesBelow
  <1> DEFINE Deep(m) == /\ NoneHas(v, disk, key, m, N) => below[m] = Absent
                        /\ \A l \in m .. N - 1 : \A f \in Range(v[l]) :
                             Has(disk, f, key) /\ NoneHas(v, disk, key, m, l) => below[m] = value(f)
             G == {m \in 1 .. N : Deep(m)}
  <1>9. ASSUME NEW m \in 1 .. N, m < N => m + 1 \in G PROVE m \in G
    <2>1. CASE m = N
      <3>1. m .. N - 1 = {}
        BY <1>1, <2>1
      <3>2. QED
        BY <1>8, <2>1, <3>1
    <2>2. CASE m # N
      <3>1. m < N /\ m \in Nat /\ Deep(m + 1)
        BY <1>1, <1>9, <2>2
      <3>2. ASSUME NEW l \in m .. N, l # m, NoneHas(v, disk, key, m, l)
            PROVE  NoneHas(v, disk, key, m, m + 1) /\ NoneHas(v, disk, key, m + 1, l)
        <4>1. m .. (m + 1) - 1 \subseteq m .. l - 1 /\ (m + 1) .. l - 1 \subseteq m .. l - 1
          BY <1>1, <3>1, <3>2
        <4>2. QED
          BY <3>2, <4>1 DEF NoneHas
      <3>3. ASSUME NoneHas(v, disk, key, m, N) PROVE below[m] = Absent
        <4>1. NoneHas(v, disk, key, m, m + 1) /\ NoneHas(v, disk, key, m + 1, N)
          BY <1>1, <2>2, <3>1, <3>2, <3>3
        <4>2. QED
          BY <1>7, <3>1, <4>1
      <3>4. ASSUME NEW l \in m .. N - 1, NEW f \in Range(v[l]), Has(disk, f, key), NoneHas(v, disk, key, m, l)
            PROVE  below[m] = value(f)
        <4>1. CASE l = m
          BY <1>7, <3>1, <3>4, <4>1
        <4>2. CASE l # m
          <5>1. l \in m .. N /\ l \in m + 1 .. N - 1
            BY <1>1, <3>1, <4>2
          <5>2. NoneHas(v, disk, key, m, m + 1) /\ NoneHas(v, disk, key, m + 1, l)
            BY <3>2, <3>4, <4>2, <5>1
          <5>3. QED
            BY <1>7, <3>1, <3>4, <5>1, <5>2
        <4>3. QED
          BY <4>1, <4>2
      <3>5. QED
        BY <3>3, <3>4
    <2>3. QED
      BY <2>1, <2>2
  <1>10. Deep(1)
    <2>1. 1 .. N \subseteq G
      <3> HIDE DEF G
      <3>1. QED
        BY <1>1, <1>9, CountDown
    <2>2. 1 \in 1 .. N
      BY <1>1
    <2>3. QED
      BY <2>1, <2>2
  <1> DEFINE s == v[0]
             M == Len(s)
  <1>11. ASSUME NEW i \in 1 .. M
         PROVE  newest[i] = IF Has(disk, s[i], key) THEN value(s[i]) ELSE newest[i + 1]
    <2>1. s[i] \in Range(s) /\ Readable(s[i], disk)
      BY <1>1, <1>2, <1>3 DEF Range
    <2>2. i \in 1 .. M + 1 /\ i <= M /\ ~ (i > M)
      BY <1>3
    <2>3. newest[i] = IF /\ s[i].inf <= key /\ key <= s[i].sup
                         /\ Answer(disk, s[i].num, key) # Absent
                      THEN Answer(disk, s[i].num, key) ELSE newest[i + 1]
      BY <1>6, <2>2 DEF SolvesNewest
    <2>4. QED
      BY <2>1, <2>3, AnswerOfReadable DEF Absent
  <1>12. newest[M + 1] = below[1]
    <2>1. M + 1 \in 1 .. M + 1 /\ M + 1 > M
      BY <1>3
    <2>2. QED
      BY <1>6, <2>1 DEF SolvesNewest
  <1> DEFINE Top(i) == /\ (\A h \in i .. M : ~ Has(disk, s[h], key)) => newest[i] = below[1]
                       /\ \A j \in i .. M : Has(disk, s[j], key) /\ (\A h \in i .. j - 1 : ~ Has(disk, s[h], key))
                                             => newest[i] = value(s[j])
             H == {i \in 1 .. M + 1 : Top(i)}
  <1>13. ASSUME NEW i \in 1 .. M + 1, i < M + 1 => i + 1 \in H PROVE i \in H
    <2>1. CASE i = M + 1
      <3>1. i .. M = {}
        BY <1>3, <2>1
      <3>2. QED
        BY <1>12, <2>1, <3>1
    <2>2. CASE i # M + 1
      <3>1. i \in 1 .. M /\ i \in Nat /\ Top(i + 1) /\ i \in i .. M
        BY <1>3, <1>13, <2>2
      <3>2. ASSUME \A h \in i .. M : ~ Has(disk, s[h], key) PROVE newest[i] = below[1]
        <4>1. \A h \in i + 1 .. M : ~ Has(disk, s[h], key)
          BY <1>3, <3>1, <3>2
        <4>2. QED
          BY <1>11, <3>1, <3>2, <4>1
      <3>3. ASSUME NEW j \in i .. M, Has(disk, s[j], key), \A h \in i .. j - 1 : ~ Has(disk, s[h], key)
            PROVE  newest[i] = value(s[j])
        <4>1. CASE i = j
          BY <1>11, <3>1, <3>3, <4>1
        <4>2. CASE i # j
          <5>1. j \in i + 1 .. M /\ i \in i .. j - 1 /\ \A h \in i + 1 .. j - 1 : h \in i .. j - 1
            BY <1>3, <3>1, <4>2
          <5>2. QED
            BY <1>11, <3>1, <3>3, <5>1
        <4>3. QED
          BY <4>1, <4>2
      <3>4. QED
        BY <1>3, <3>2, <3>3
    <2>3. QED
      BY <2>1, <2>2
  <1>14. Top(1)
    <2>1. 1 .. M + 1 \subseteq H
      <3> HIDE DEF H
      <3>1. M + 1 \in Nat
        BY <1>3
      <3>2. QED
        BY <1>13, <3>1, CountDown
    <2>2. 1 \in 1 .. M + 1
      BY <1>3
    <2>3. QED
      BY <2>1, <2>2
  <1>15. ASSUME NoneHas(v, disk, key, 0, 1) PROVE Get(v, disk, key) = below[1]
    <2>1. \A f \in Range(s) : ~ Has(disk, f, key)
      BY <1>15 DEF NoneHas
    <2>2. \A h \in 1 .. M : ~ Has(disk, s[h], key)
      BY <1>3, <2>1 DEF Range
    <2>3. QED
      BY <1>6, <1>14, <2>2
  <1>16. ASSUME NEW l, NEW f, EndsAt(v, disk, key, l, f) PROVE Get(v, disk, key) = value(f)
    <2>1. l \in 0 .. N - 1 /\ f \in Range(v[l]) /\ Has(disk, f, key) /\ NoneHas(v, disk, key, 0, l)
      BY <1>1, <1>16 DEF EndsAt
    <2>2. CASE l # 0
      <3>1. l \in 1 .. N - 1 /\ 0 .. 1 - 1 \subseteq 0 .. l - 1 /\ 1 .. l - 1 \subseteq 0 .. l - 1
        BY <1>1, <2>1, <2>2
      <3>2. NoneHas(v, disk, key, 0, 1) /\ NoneHas(v, disk, key, 1, l)
        BY <2>1, <3>1 DEF NoneHas
      <3>3. QED
        BY <1>10, <1>15, <2>1, <3>1, <3>2
    <2>3. CASE l = 0
      <3>1. PICK j \in 1 .. M : f = s[j]
        BY <1>3, <2>1, <2>3 DEF Range
      <3>2. ASSUME NEW h \in 1 .. j - 1, Has(disk, s[h], key) PROVE FALSE
        <4>1. h \in 1 .. M /\ h < j
          BY <1>3
        <4>2. s[h] \in Range(s)
          BY <1>3, <4>1 DEF Range
        <4>3. s[h].xip <= f.xip
          BY <1>16, <2>3, <3>2, <4>2 DEF EndsAt
        <4>4. s[h].xip > s[j].xip
          BY <1>3, <4>1 DEF Intact, InStrictOrder, Ordered, NewerBound
        <4>5. s[h].xip \in Nat /\ f.xip \in Nat
          <5>1. s[h] \in FileRec /\ s[j] \in FileRec
            BY <1>3, <4>1
          <5>2. QED
            BY <3>1, <5>1 DEF FileRec
        <4>6. QED
          BY <3>1, <4>3, <4>4, <4>5
      <3>3. QED
        BY <1>6, <1>14, <2>1, <3>1, <3>2
    <2>4. QED
      BY <2>2, <2>3
  <1>17. ASSUME NoneHas(v, disk, key, 0, N) PROVE Get(v, disk, key) = Absent
    <2>1. 0 .. 1 - 1 \subseteq 0 .. N - 1 /\ 1 .. N - 1 \subseteq 0 .. N - 1
      BY <1>1
    <2>2. NoneHas(v, disk, key, 0, 1) /\ NoneHas(v, disk, key, 1, N)
      BY <1>17, <2>1 DEF NoneHas
    <2>3. QED
      BY <1>10, <1>15, <2>2
  <1>18. QED
    BY <1>16, <1>17

\* A lookup answers with what some table answers.
LEMMA LookupType ==
  ASSUME NEW v \in Versions, NEW disk, NEW key, NEW V, AnswersIn(v, disk, key, V)
  PROVE  Get(v, disk, key) \in V
  <1>1. ASSUME NEW l \in Levels \ {0} PROVE FilesBelow(v[l], key) \in Nat
    <2>1. v[l] \in Seq(FileRec) /\ Len(v[l]) \in Nat
      BY LenProperties DEF Versions
    <2>2. <<0, Len(v[l])>> \in Ranges(Len(v[l]))
      BY <2>1 DEF Ranges
    <2>3. QED
      BY <2>1, <2>2, HalvingEquation
  <1>2. PICK below \in [1 .. NumLevels -> V], newest \in [1 .. Len(v[0]) + 1 -> V] :
           Get(v, disk, key) = newest[1]
    BY <1>1, GetEquation
  <1>3. Len(v[0]) \in Nat
    BY OptionsAssumption, LenProperties DEF Versions, Levels
  <1>4. QED
    BY <1>2, <1>3

\* If any table has the key, a lookup ends at one.
LEMMA LookupEnds ==
  ASSUME NEW v, InStrictOrder(v), NEW disk, NEW key, NEW m \in Levels, NEW e \in Range(v[m]), Has(disk, e, key)
  PROVE  \E l, f : EndsAt(v, disk, key, l, f)
  <1>1. Levels \subseteq Nat /\ Levels = 0 .. NumLevels - 1 /\ 0 \in Levels
    BY OptionsAssumption DEF Levels
  <1> DEFINE S == {l \in Levels : \E f \in Range(v[l]) : Has(disk, f, key)}
  <1>2. PICK l \in S : \A n \in S : l <= n
    <2>1. S \subseteq Nat /\ S # {}
      BY <1>1
    <2> HIDE DEF S
    <2>2. QED
      BY <2>1, LeastNumber
  <1>3. NoneHas(v, disk, key, 0, l)
    <2>1. SUFFICES ASSUME NEW n \in 0 .. l - 1, NEW f \in Range(v[n]), Has(disk, f, key) PROVE FALSE
      BY DEF NoneHas
    <2>2. n \in Levels /\ n < l
      <3>1. l \in 0 .. NumLevels - 1 /\ NumLevels \in Nat
        BY <1>1, <1>2, OptionsAssumption
      <3>2. QED
        BY <1>1, <3>1
    <2>3. n \in S
      BY <2>1, <2>2
    <2>4. QED
      BY <1>1, <1>2, <2>2, <2>3
  <1>4. PICK f \in Range(v[l]) : Has(disk, f, key)
    BY <1>2
  <1>5. CASE l # 0
    BY <1>2, <1>3, <1>4, <1>5 DEF EndsAt
  <1>6. CASE l = 0
    <2>1. v[0] \in Seq(FileRec) /\ Len(v[0]) \in Nat /\ DOMAIN v[0] = 1 .. Len(v[0])
      BY <1>1, LenProperties DEF InStrictOrder, InOrder, Versions
    <2> DEFINE P == {i \in 1 .. Len(v[0]) : Has(disk, v[0][i], key)}
    <2>2. P \subseteq Nat /\ P # {}
      BY <1>4, <1>6, <2>1 DEF Range
    <2>3. PICK i \in P : \A j \in P : i <= j
      <3> HIDE DEF P
      <3>1. QED
        BY <2>2, LeastNumber
    <2>4. v[0][i] \in Range(v[0]) /\ Has(disk, v[0][i], key) /\ v[0][i] \in FileRec
      BY <2>1, <2>3 DEF Range
    <2>5. ASSUME NEW g \in Range(v[0]), Has(disk, g, key) PROVE g.xip <= v[0][i].xip
      <3>1. PICK j \in 1 .. Len(v[0]) : g = v[0][j]
        BY <2>1 DEF Range
      <3>2. j \in P /\ v[0][j] \in FileRec
        BY <2>1, <2>5, <3>1
      <3>3. i <= j
        BY <2>3, <3>2
      <3>4. g.xip \in Nat /\ v[0][i].xip \in Nat
        BY <2>4, <3>1, <3>2 DEF FileRec
      <3>5. CASE i = j
        BY <3>1, <3>4, <3>5
      <3>6. CASE i < j
        <4>1. v[0][i].xip > v[0][j].xip
          BY <2>1, <2>3, <3>1, <3>6 DEF InStrictOrder, Ordered, NewerBound
        <4>2. QED
          BY <3>1, <3>4, <4>1
      <3>7. QED
        BY <2>1, <2>3, <3>1, <3>3, <3>5, <3>6
    <2>6. EndsAt(v, disk, key, 0, v[0][i])
      BY <1>1, <1>3, <1>6, <2>4, <2>5 DEF EndsAt
    <2>7. QED
      BY <2>6
  <1>7. QED
    BY <1>5, <1>6

\* Every table with the key has what a lookup returns somewhere in v: nothing
\* that w has is unknown to v, and where a lookup in v ends there is one in w
\* that ends with the same value.
SameLookup(v, d, w, e, key) ==
  /\ \A l, f : EndsAt(v, d, key, l, f) =>
       \E m, g : EndsAt(w, e, key, m, g) /\ e[g.num].pairs[key] = d[f.num].pairs[key]
  /\ \A m \in Levels : \A g \in Range(w[m]) : Has(e, g, key) =>
       \E l \in Levels : \E f \in Range(v[l]) : Has(d, f, key)

\* Then lookups in both return the same.
LEMMA LookupsAgree ==
  ASSUME NEW v, NEW d, NEW w, NEW e, Intact(v, d), Intact(w, e), NEW key \in Int, SameLookup(v, d, w, e, key)
  PROVE  Get(w, e, key) = Get(v, d, key)
  <1>1. Levels = 0 .. NumLevels - 1
    BY DEF Levels
  <1>2. CASE \E l \in Levels : \E f \in Range(v[l]) : Has(d, f, key)
    <2>1. PICK l, f : EndsAt(v, d, key, l, f)
      BY <1>2, LookupEnds DEF Intact
    <2>2. PICK m, g : EndsAt(w, e, key, m, g) /\ e[g.num].pairs[key] = d[f.num].pairs[key]
      BY <2>1 DEF SameLookup
    <2>3. QED
      BY <2>1, <2>2, LookupResult
  <1>3. CASE ~ \E l \in Levels : \E f \in Range(v[l]) : Has(d, f, key)
    <2>1. NoneHas(v, d, key, 0, NumLevels) /\ NoneHas(w, e, key, 0, NumLevels)
      BY <1>1, <1>3 DEF NoneHas, SameLookup
    <2>2. QED
      BY <2>1, LookupResult
  <1>4. QED
    BY <1>2, <1>3

\* Of the inputs that have the key f is the one whose pair is kept: the files
\* of the start level come first, of level 0 the newest one.
Wins(level, ins, disk, key, f) ==
  /\ Has(disk, f, key)
  /\ \/ /\ f \in Range(ins[1])
        /\ level = 0 => \A g \in Range(ins[1]) : Has(disk, g, key) => g.xip <= f.xip
     \/ /\ f \in Range(ins[2])
        /\ \A g \in Range(ins[1]) : ~ Has(disk, g, key)

\* The files of a concatenation, by position.
LEMMA PartOf ==
  ASSUME NEW s \in Seq(FileRec), NEW u \in Seq(FileRec), NEW i \in DOMAIN (s \o u)
  PROVE  /\ Len(s) \in Nat /\ i \in Nat /\ i >= 1 /\ DOMAIN (s \o u) \subseteq Nat
         /\ (s \o u)[i] \in FileRec
         /\ i <= Len(s) => i \in DOMAIN s /\ (s \o u)[i] = s[i] /\ (s \o u)[i] \in Range(s)
         /\ i > Len(s) => (s \o u)[i] \in Range(u)
         /\ DOMAIN s \subseteq DOMAIN (s \o u)
         /\ \A k \in DOMAIN s : k <= Len(s) /\ (s \o u)[k] = s[k]
         /\ i > Len(s) => \A k \in DOMAIN s : k < i
  <1>1. /\ DOMAIN s = 1 .. Len(s) /\ DOMAIN u = 1 .. Len(u) /\ Len(s) \in Nat /\ Len(u) \in Nat
        /\ DOMAIN (s \o u) = 1 .. Len(s) + Len(u)
    BY LenProperties, ConcatProperties
  <1>2. \A k \in 1 .. Len(s) + Len(u) : (s \o u)[k] = IF k <= Len(s) THEN s[k] ELSE u[k - Len(s)]
    BY ConcatProperties
  <1>3. CASE i <= Len(s)
    <2>1. i \in DOMAIN s /\ (s \o u)[i] = s[i] /\ s[i] \in FileRec
      BY <1>1, <1>2, <1>3
    <2>2. s[i] \in Range(s)
      BY <2>1 DEF Range
    <2>3. QED
      BY <1>1, <1>2, <1>3, <2>1, <2>2
  <1>4. CASE i > Len(s)
    <2>1. i - Len(s) \in DOMAIN u /\ (s \o u)[i] = u[i - Len(s)] /\ ~ (i <= Len(s))
      BY <1>1, <1>2, <1>4
    <2>2. u[i - Len(s)] \in Range(u) /\ u[i - Len(s)] \in FileRec
      BY <1>1, <2>1 DEF Range
    <2>3. QED
      BY <1>1, <1>2, <1>4, <2>1, <2>2
  <1>5. QED
    BY <1>1, <1>3, <1>4

\* All keys of the inputs, each with the value of the input that wins.
WinnersOf(level, ins, disk, merged) ==
  /\ \A f \in Range(ins[1]) \cup Range(ins[2]) : \A k : Has(disk, f, k) => k \in DOMAIN merged
  /\ \A k \in DOMAIN merged : \E f : Wins(level, ins, disk, k, f) /\ merged[k] = disk[f.num].pairs[k]

\* That is what a compaction writes.
LEMMA MergedValues ==
  ASSUME NEW level, NEW ins \in Seq(FileRec) \X Seq(FileRec), level = 0 => Ordered(ins[1], NotOlderBound), NEW disk
  PROVE  WinnersOf(level, ins, disk, MergedPairs(level, ins, disk))
  <1> DEFINE s == ins[1]
             u == ins[2]
             files == s \o u
             T(i) == IF level = 0 /\ i <= Len(s) THEN files[i].xip ELSE DefaultTs
             Having(k) == {i \in DOMAIN files : Has(disk, files[i], k)}
             Better(k, i) == \A j \in Having(k) : /\ j < i => NewerTs(T(i), T(j))
                                                  /\ i < j => ~ NewerTs(T(j), T(i))
             Winner(k) == CHOOSE i \in Having(k) : Better(k, i)
             Keys1 == UNION {DOMAIN disk[files[i].num].pairs : i \in DOMAIN files}
             merged == MergedPairs(level, ins, disk)
  <1>1. s \in Seq(FileRec) /\ u \in Seq(FileRec)
    OBVIOUS
  <1>2. merged = [k \in Keys1 |-> disk[files[Winner(k)].num].pairs[k]]
    BY DEF MergedPairs, Has
  <1>3. ASSUME NEW f \in Range(s) \cup Range(u) PROVE \E i \in DOMAIN files : files[i] = f
    <2>1. /\ DOMAIN files = 1 .. Len(s) + Len(u)
          /\ DOMAIN s = 1 .. Len(s) /\ DOMAIN u = 1 .. Len(u) /\ Len(s) \in Nat /\ Len(u) \in Nat
          /\ \A k \in 1 .. Len(s) + Len(u) : files[k] = IF k <= Len(s) THEN s[k] ELSE u[k - Len(s)]
      BY <1>1, LenProperties, ConcatProperties
    <2>2. CASE f \in Range(s)
      <3>1. PICK i \in DOMAIN s : f = s[i]
        BY <2>2 DEF Range
      <3>2. i \in DOMAIN files /\ i <= Len(s)
        BY <2>1, <3>1
      <3>3. QED
        BY <2>1, <3>1, <3>2
    <2>3. CASE f \in Range(u)
      <3>1. PICK i \in DOMAIN u : f = u[i]
        BY <2>3 DEF Range
      <3>2. i + Len(s) \in DOMAIN files /\ ~ (i + Len(s) <= Len(s)) /\ i + Len(s) - Len(s) = i
        BY <2>1, <3>1
      <3>3. QED
        BY <2>1, <3>1, <3>2
    <2>4. QED
      BY <2>2, <2>3
  <1>4. ASSUME NEW i \in DOMAIN files, NEW j \in DOMAIN files, i < j PROVE ~ NewerTs(T(j), T(i))
    <2>1. CASE level = 0 /\ j <= Len(s)
      <3>1. /\ i \in Nat /\ j \in Nat /\ Len(s) \in Nat /\ files[i] \in FileRec /\ files[j] \in FileRec
            /\ j \in DOMAIN s /\ files[j] = s[j]
        BY <1>1, <2>1, PartOf
      <3>2. i <= Len(s)
        BY <1>4, <2>1, <3>1
      <3>3. i \in DOMAIN s /\ files[i] = s[i]
        BY <1>1, <3>2, PartOf
      <3>4. files[i].xip >= files[j].xip
        BY <1>4, <2>1, <3>1, <3>3 DEF Ordered, NotOlderBound
      <3>5. files[i].xip \in Nat /\ files[j].xip \in Nat
        BY <3>1 DEF FileRec
      <3>6. T(i) = files[i].xip /\ T(j) = files[j].xip
        BY <2>1, <3>2
      <3> HIDE DEF T, files
      <3>7. QED
        BY <3>4, <3>5, <3>6 DEF NewerTs
    <2>2. CASE ~ (level = 0 /\ j <= Len(s))
      BY <2>2 DEF NewerTs
    <2>3. QED
      BY <2>1, <2>2
  <1>5. \A f \in Range(s) \cup Range(u) : \A k : Has(disk, f, k) => k \in DOMAIN merged
    <2>1. SUFFICES ASSUME NEW f \in Range(s) \cup Range(u), NEW k, Has(disk, f, k)
                   PROVE  k \in DOMAIN merged
      OBVIOUS
    <2>2. PICK i \in DOMAIN files : files[i] = f
      BY <1>3
    <2>3. k \in Keys1
      BY <2>1, <2>2 DEF Has
    <2> HIDE DEF Keys1, Winner, files
    <2>4. QED
      BY <1>2, <2>3
  <1>6. ASSUME NEW k \in DOMAIN merged
        PROVE  \E f : Wins(level, ins, disk, k, f) /\ merged[k] = disk[f.num].pairs[k]
    <2>1. k \in Keys1 /\ merged[k] = disk[files[Winner(k)].num].pairs[k]
      BY <1>2, <1>6
    <2>2. PICK i0 \in DOMAIN files : Has(disk, files[i0], k)
      BY <2>1 DEF Has
    <2>3. DOMAIN files \subseteq Nat
      BY <1>1, <2>2, PartOf
    <2>4. Having(k) \subseteq Nat /\ Having(k) # {}
      BY <2>2, <2>3
    <2>5. PICK i \in Having(k) : \A j \in Having(k) : i <= j
      <3> HIDE DEF Having
      <3>1. QED
        BY <2>4, LeastNumber
    <2>6. i \in DOMAIN files /\ Has(disk, files[i], k)
      OBVIOUS
    <2>7. Better(k, i)
      <3>1. SUFFICES ASSUME NEW j \in Having(k)
                     PROVE  (j < i => NewerTs(T(i), T(j))) /\ (i < j => ~ NewerTs(T(j), T(i)))
        OBVIOUS
      <3>2. ~ (j < i)
        <4>1. j \in Nat /\ i \in Nat /\ i <= j
          BY <2>4, <2>5
        <4> HIDE DEF Having
        <4>2. QED
          BY <4>1
      <3>3. j \in DOMAIN files
        OBVIOUS
      <3>4. QED
        BY <1>4, <2>6, <3>2, <3>3
    <2> DEFINE w == Winner(k)
    <2>8. w \in Having(k) /\ Better(k, w)
      <3> HIDE DEF Having, Better
      <3>1. QED
        BY <2>7
    <2>9. w = i
      <3>1. w \in DOMAIN files /\ w \in Nat /\ i \in Nat /\ i <= w
        BY <2>4, <2>5, <2>8
      <3>2. ASSUME i < w PROVE FALSE
        <4>1. NewerTs(T(w), T(i))
          BY <2>8, <3>2
        <4> HIDE DEF w
        <4>2. QED
          BY <1>4, <2>6, <3>1, <3>2, <4>1
      <3> HIDE DEF w
      <3>3. QED
        BY <3>1, <3>2
    <2> DEFINE f == files[i]
    <2>10. merged[k] = disk[f.num].pairs[k] /\ Has(disk, f, k)
      BY <2>1, <2>6, <2>9
    <2>11. CASE i <= Len(s)
      <3>1. i \in DOMAIN s /\ f = s[i] /\ f \in Range(s) /\ i \in Nat
        BY <1>1, <2>6, <2>11, PartOf
      <3>2. ASSUME level = 0, NEW g \in Range(s), Has(disk, g, k) PROVE g.xip <= f.xip
        <4>1. PICK j \in DOMAIN s : g = s[j]
          BY DEF Range
        <4>2. j \in DOMAIN files /\ files[j] = s[j] /\ j \in Nat
          BY <1>1, <2>3, <2>6, <4>1, PartOf
        <4>3. j \in Having(k)
          BY <3>2, <4>1, <4>2
        <4>4. i <= j
          BY <2>5, <4>3
        <4>5. s[i] \in FileRec /\ s[j] \in FileRec
          BY <1>1, <3>1, <4>1
        <4>6. CASE i = j
          BY <3>1, <4>1, <4>5, <4>6 DEF FileRec
        <4>7. CASE i < j
          <5>1. s[i].xip >= s[j].xip
            BY <3>1, <3>2, <4>1, <4>7 DEF Ordered, NotOlderBound
          <5>2. s[i].xip \in Nat /\ s[j].xip \in Nat
            BY <4>5 DEF FileRec
          <5>3. QED
            BY <3>1, <4>1, <5>1, <5>2
        <4>8. QED
          BY <3>1, <4>2, <4>4, <4>6, <4>7
      <3>3. Wins(level, ins, disk, k, f)
        <4> HIDE DEF f
        <4>1. QED
          BY <2>10, <3>1, <3>2 DEF Wins
      <3>4. QED
        BY <2>10, <3>3
    <2>12. CASE i > Len(s)
      <3>1. f \in Range(u) /\ \A j \in DOMAIN s : j < i /\ j \in DOMAIN files /\ files[j] = s[j]
        BY <1>1, <2>6, <2>12, PartOf
      <3>2. ASSUME NEW g \in Range(s), Has(disk, g, k) PROVE FALSE
        <4>1. PICK j \in DOMAIN s : g = s[j]
          BY DEF Range
        <4>2. j \in DOMAIN files /\ files[j] = s[j] /\ j < i
          BY <3>1
        <4>3. j \in Having(k)
          BY <3>2, <4>1, <4>2
        <4>4. j \in Nat /\ i \in Nat /\ i <= j
          BY <2>4, <2>5, <4>3
        <4> HIDE DEF Having
        <4>5. QED
          BY <4>2, <4>4
      <3>3. Wins(level, ins, disk, k, f)
        <4> HIDE DEF f
        <4>1. QED
          BY <2>10, <3>1, <3>2 DEF Wins
      <3>4. QED
        BY <2>10, <3>3
    <2>13. i \in Nat /\ Len(s) \in Nat
      BY <1>1, <2>6, PartOf
    <2>14. QED
      BY <2>11, <2>12, <2>13
  <1> HIDE DEF merged, s, u
  <1>7. WinnersOf(level, ins, disk, merged)
    <2>1. \A f \in Range(ins[1]) \cup Range(ins[2]) : \A k : Has(disk, f, k) => k \in DOMAIN merged
      BY <1>5 DEF s, u
    <2>2. QED
      BY <1>6, <2>1 DEF WinnersOf
  <1>8. QED
    BY <1>7 DEF merged

=============================================================================
