--------------------------- MODULE OtlTableProofs ---------------------------
(***************************************************************************)
(* Proofs about OtlTable, for any number of subtables, any tags and        *)
(* whatever order qsort leaves equal elements in.                          *)
(***************************************************************************)
EXTENDS OtlTable, TLAPS, FiniteSetTheorems, SequenceTheorems, WellFoundedInduction

-----------------------------------------------------------------------------
(* Counting.  A strict order on a finite set ranks its elements 0, 1, ...  *)

\* A nonempty set of natural numbers has a least element.
LEMMA LeastNumber ==
    ASSUME NEW T, T \subseteq Nat, T # {}
    PROVE  \E x \in T : \A y \in T : x <= y
<1>1. PICK x \in T : \A y \in T : ~ (<<y, x>> \in OpToRel(<, Nat))
  BY NatLessThanWellFounded, WFMin, Zenon
<1>2. \A y \in T : ~ (y < x)
  BY <1>1, Zenon DEF OpToRel
<1> QED
  BY <1>2

\* A part of a finite set, and how many elements it has.
LEMMA Part ==
    ASSUME NEW S, IsFiniteSet(S), NEW T, T \subseteq S
    PROVE  /\ IsFiniteSet(T) /\ Cardinality(T) \in Nat /\ Cardinality(S) \in Nat
           /\ Cardinality(T) <= Cardinality(S)
           /\ T # S => Cardinality(T) < Cardinality(S)
<1>1. T \in SUBSET S
  OBVIOUS
<1>2. IsFiniteSet(T) /\ Cardinality(T) <= Cardinality(S)
      /\ (Cardinality(S) = Cardinality(T) => S = T)
  BY <1>1, FS_Subset, Zenon
<1>3. Cardinality(T) \in Nat /\ Cardinality(S) \in Nat
  BY <1>2, FS_CardinalityType, Zenon
<1> QED
  BY <1>2, <1>3

\* Sets between which an injection exists that reaches every element.
LEMMA SameCount ==
    ASSUME NEW S, NEW T, IsFiniteSet(S), NEW f \in [S -> T],
           \A x, y \in S : f[x] = f[y] => x = y,
           \A y \in T : \E x \in S : f[x] = y
    PROVE  IsFiniteSet(T) /\ Cardinality(T) = Cardinality(S)
<1>1. f \in Bijection(S, T)
  BY DEF Bijection, Injection, Surjection, IsInjective
<1>2. ExistsBijection(S, T)
  BY <1>1, Zenon DEF ExistsBijection
<1> QED
  BY <1>2, FS_Bijection, Zenon

\* An injection of a finite set into itself reaches every element.
LEMMA IntoItself ==
    ASSUME NEW S, IsFiniteSet(S), NEW T, IsFiniteSet(T), Cardinality(S) = Cardinality(T),
           NEW f \in [S -> T],
           \A x, y \in S : f[x] = f[y] => x = y
    PROVE  \A y \in T : \E x \in S : f[x] = y
<1>1. f \in Injection(S, T)
  BY DEF Injection, IsInjective
<1>2. f \in Surjection(S, T)
  BY <1>1, FS_Injection, Zenon
<1> QED
  BY <1>2, Zenon DEF Surjection

Rank(S, R, x) == Cardinality({y \in S : <<y, x>> \in R})

\* Counting how many members precede each in a strict total order numbers them from 0 on.
LEMMA Ranks ==
    ASSUME NEW S, IsFiniteSet(S), NEW R,
           \A x \in S : <<x, x>> \notin R,
           \A x, y \in S : x # y => <<x, y>> \in R \/ <<y, x>> \in R,
           \A x, y, z \in S : <<x, y>> \in R /\ <<y, z>> \in R => <<x, z>> \in R
    PROVE  /\ Cardinality(S) \in Nat
           /\ \A x \in S : Rank(S, R, x) \in 0 .. Cardinality(S) - 1
           /\ \A x, y \in S : <<x, y>> \in R <=> Rank(S, R, x) < Rank(S, R, y)
           /\ \A n \in 0 .. Cardinality(S) - 1 : \E x \in S : Rank(S, R, x) = n
<1> DEFINE B(x) == {y \in S : <<y, x>> \in R}
<1>1. ASSUME NEW x \in S
      PROVE  /\ IsFiniteSet(B(x)) /\ Cardinality(B(x)) \in Nat /\ Cardinality(S) \in Nat
             /\ Cardinality(B(x)) < Cardinality(S)
  <2>1. B(x) \subseteq S /\ B(x) # S
    OBVIOUS
  <2> HIDE DEF B
  <2> QED
    BY <2>1, Part
<1>2. ASSUME NEW x \in S, NEW y \in S, <<x, y>> \in R
      PROVE  Cardinality(B(x)) < Cardinality(B(y))
  <2>1. B(x) \subseteq B(y) /\ B(x) # B(y)
    BY <1>2
  <2>2. IsFiniteSet(B(y))
    BY <1>1
  <2> HIDE DEF B
  <2> QED
    BY <2>1, <2>2, Part
<1>3. Cardinality(S) \in Nat
  BY FS_CardinalityType
<1>4. \A x \in S : Rank(S, R, x) = Cardinality(B(x))
  BY DEF Rank
<1> HIDE DEF B
<1>5. \A x \in S : Rank(S, R, x) \in 0 .. Cardinality(S) - 1
  BY <1>1, <1>3, <1>4
<1>6. ASSUME NEW x \in S, NEW y \in S
      PROVE  <<x, y>> \in R <=> Rank(S, R, x) < Rank(S, R, y)
  <2>1. Cardinality(B(x)) \in Nat /\ Cardinality(B(y)) \in Nat
    BY <1>1
  <2>2. CASE <<x, y>> \in R
    BY <1>2, <1>4, <2>2
  <2>3. CASE <<y, x>> \in R
    <3>1. Cardinality(B(y)) < Cardinality(B(x))
      BY <1>2, <2>3
    <3>2. <<x, y>> \notin R
      BY <2>3
    <3> QED
      BY <1>4, <2>1, <3>1, <3>2
  <2>4. CASE x = y
    BY <1>4, <2>1, <2>4
  <2> QED
    BY <2>2, <2>3, <2>4
<1>7. \A n \in 0 .. Cardinality(S) - 1 : \E x \in S : Rank(S, R, x) = n
  <2> DEFINE T == 0 .. Cardinality(S) - 1
             f == [x \in S |-> Rank(S, R, x)]
  <2>1. f \in [S -> T]
    BY <1>5
  <2>2. \A x, y \in S : f[x] = f[y] => x = y
    BY <1>5, <1>6
  <2>3. IsFiniteSet(T) /\ Cardinality(T) = Cardinality(S)
    <3>1. Cardinality(S) - 1 \in Int /\ 0 \in Int
      BY <1>3
    <3> QED
      BY <1>3, <3>1, FS_Interval
  <2> HIDE DEF T, f
  <2>4. \A n \in T : \E x \in S : f[x] = n
    BY <2>1, <2>2, <2>3, IntoItself
  <2> QED
    BY <2>4 DEF T, f
<1> QED
  BY <1>3, <1>5, <1>6, <1>7

\* Integers are ranked by their size.
Below(S, i) == {j \in S : j < i}

\* The same for a set of integers.
LEMMA IntRanks ==
    ASSUME NEW S, IsFiniteSet(S), S \subseteq Int
    PROVE  /\ Cardinality(S) \in Nat
           /\ \A i \in S : Cardinality(Below(S, i)) \in 0 .. Cardinality(S) - 1
           /\ \A i, j \in S : i < j <=> Cardinality(Below(S, i)) < Cardinality(Below(S, j))
           /\ \A n \in 0 .. Cardinality(S) - 1 : \E i \in S : Cardinality(Below(S, i)) = n
<1> DEFINE R == {p \in S \X S : p[1] < p[2]}
<1>1. \A i, j \in S : <<i, j>> \in R <=> i < j
  OBVIOUS
<1>2. \A i \in S : Rank(S, R, i) = Cardinality(Below(S, i))
  <2> SUFFICES ASSUME NEW i \in S PROVE Rank(S, R, i) = Cardinality(Below(S, i))
    OBVIOUS
  <2>1. {y \in S : <<y, i>> \in R} = Below(S, i)
    BY <1>1 DEF Below
  <2> QED
    BY <2>1 DEF Rank
<1> HIDE DEF R
<1>3. /\ \A i \in S : <<i, i>> \notin R
      /\ \A i, j \in S : i # j => <<i, j>> \in R \/ <<j, i>> \in R
      /\ \A i, j, k \in S : <<i, j>> \in R /\ <<j, k>> \in R => <<i, k>> \in R
  BY <1>1
<1>4. /\ Cardinality(S) \in Nat
      /\ \A i \in S : Rank(S, R, i) \in 0 .. Cardinality(S) - 1
      /\ \A i, j \in S : <<i, j>> \in R <=> Rank(S, R, i) < Rank(S, R, j)
      /\ \A n \in 0 .. Cardinality(S) - 1 : \E i \in S : Rank(S, R, i) = n
  BY <1>3, Ranks
<1>5. ASSUME NEW i \in S PROVE Cardinality(Below(S, i)) \in 0 .. Cardinality(S) - 1
  BY <1>2, <1>4
<1>6. ASSUME NEW n \in 0 .. Cardinality(S) - 1
      PROVE  \E i \in S : Cardinality(Below(S, i)) = n
  <2>1. PICK i \in S : Rank(S, R, i) = n
    BY <1>4, Zenon
  <2> QED
    BY <1>2, <2>1
<1>7. ASSUME NEW i \in S, NEW j \in S
      PROVE  i < j <=> Cardinality(Below(S, i)) < Cardinality(Below(S, j))
  <2>1. <<i, j>> \in R <=> Rank(S, R, i) < Rank(S, R, j)
    BY <1>4, Zenon
  <2>2. Rank(S, R, i) = Cardinality(Below(S, i)) /\ Rank(S, R, j) = Cardinality(Below(S, j))
    BY <1>2
  <2> QED
    BY <1>1, <2>1, <2>2
<1> QED
  BY <1>4, <1>5, <1>6, <1>7

\* A set of indexes that has all indexes before one it has.
LEMMA InitialSegment ==
    ASSUME NEW n \in Nat, NEW S, S \subseteq 1 .. n,
           \A i \in S, j \in 1 .. n : j < i => j \in S
    PROVE  S = 1 .. Cardinality(S) /\ Cardinality(S) \in 0 .. n
<1>1. \E k \in 0 .. n : S = 1 .. k
  <2>1. CASE S = 1 .. n
    BY <2>1
  <2>2. CASE S # 1 .. n
    <3>1. PICK d \in (1 .. n) \ S : \A e \in (1 .. n) \ S : d <= e
      <4> DEFINE D == (1 .. n) \ S
      <4>1. D \subseteq Nat
        OBVIOUS
      <4>2. D # {}
        <5>1. \E x \in 1 .. n : x \notin S
          BY <2>2
        <5> QED
          BY <5>1
      <4> HIDE DEF D
      <4>3. \E d \in D : \A e \in D : d <= e
        BY <4>1, <4>2, LeastNumber, Zenon
      <4> QED
        BY <4>3, Zenon DEF D
    <3>2. S = 1 .. d - 1
      <4>1. ASSUME NEW i \in S PROVE i \in 1 .. d - 1
        <5>1. i # d /\ ~ d < i
          BY <3>1
        <5> QED
          BY <3>1, <5>1
      <4>2. ASSUME NEW i \in 1 .. d - 1 PROVE i \in S
        BY <3>1
      <4> QED
        BY <4>1, <4>2
    <3> QED
      BY <3>1, <3>2
  <2> QED
    BY <2>1, <2>2
<1>2. PICK k \in 0 .. n : S = 1 .. k
  BY <1>1
<1>3. Cardinality(1 .. k) = k
  <2>1. k \in Int /\ 1 \in Int
    OBVIOUS
  <2>2. Cardinality(1 .. k) = IF 1 > k THEN 0 ELSE k - 1 + 1
    BY <2>1, FS_Interval
  <2> QED
    BY <2>2
<1> QED
  BY <1>2, <1>3

\* The run starts as a sequence: each is where its rank says.
LEMMA InOrderIs ==
    ASSUME NEW S, IsFiniteSet(S), S \subseteq Int
    PROVE  /\ Cardinality(S) \in Nat
           /\ InOrder(S) \in [1 .. Cardinality(S) -> S]
           /\ \A n \in 1 .. Cardinality(S) : Cardinality(Below(S, InOrder(S)[n])) = n - 1
           /\ \A i \in S : /\ Cardinality(Below(S, i)) + 1 \in 1 .. Cardinality(S)
                           /\ InOrder(S)[Cardinality(Below(S, i)) + 1] = i
           /\ \A m, n \in 1 .. Cardinality(S) : m < n <=> InOrder(S)[m] < InOrder(S)[n]
<1> DEFINE c == Cardinality(S)
           r(i) == Cardinality(Below(S, i))
           at(n) == CHOOSE i \in S : r(i) = n - 1
<1>1. /\ c \in Nat
      /\ \A i \in S : r(i) \in 0 .. c - 1
      /\ \A i, j \in S : i < j <=> r(i) < r(j)
      /\ \A n \in 0 .. c - 1 : \E i \in S : r(i) = n
  BY IntRanks
<1>2. InOrder(S) = [n \in 1 .. c |-> at(n)]
  BY DEF InOrder, Below
<1> HIDE DEF r, c
<1>3. ASSUME NEW n \in 1 .. c PROVE at(n) \in S /\ r(at(n)) = n - 1
  <2>1. n - 1 \in 0 .. c - 1
    BY <1>1
  <2>2. \E i \in S : r(i) = n - 1
    BY <1>1, <2>1
  <2> QED
    BY <2>2
<1>4. ASSUME NEW i \in S PROVE r(i) + 1 \in 1 .. c /\ at(r(i) + 1) = i
  <2>1. r(i) \in 0 .. c - 1 /\ r(i) + 1 \in 1 .. c
    BY <1>1
  <2> DEFINE j == at(r(i) + 1)
  <2>2. j \in S /\ r(j) = r(i)
    BY <1>3, <2>1
  <2> HIDE DEF j
  <2>3. j = i
    <3>1. ~ j < i /\ ~ i < j
      BY <1>1, <2>1, <2>2
    <3> QED
      BY <2>2, <3>1
  <2> QED
    BY <2>1, <2>3 DEF j
<1> HIDE DEF at
<1>5. \A n \in 1 .. c : InOrder(S)[n] = at(n)
  BY <1>2
<1>6. ASSUME NEW m \in 1 .. c, NEW n \in 1 .. c
      PROVE  m < n <=> InOrder(S)[m] < InOrder(S)[n]
  <2>1. at(m) \in S /\ r(at(m)) = m - 1 /\ at(n) \in S /\ r(at(n)) = n - 1
    BY <1>3
  <2>2. at(m) < at(n) <=> r(at(m)) < r(at(n))
    BY <1>1, <2>1
  <2>3. m < n <=> at(m) < at(n)
    BY <2>1, <2>2
  <2> QED
    BY <1>5, <2>3
<1>7. InOrder(S) \in [1 .. c -> S]
  BY <1>2, <1>3
<1>8. \A n \in 1 .. c : r(InOrder(S)[n]) = n - 1
  BY <1>3, <1>5
<1>9. \A i \in S : r(i) + 1 \in 1 .. c /\ InOrder(S)[r(i) + 1] = i
  BY <1>4, <1>5
<1> QED
  BY <1>1, <1>6, <1>7, <1>8, <1>9 DEF r, c

-----------------------------------------------------------------------------
(* Sorting *)

\* Comparing keys of one length from their first number on is a strict weak order.
LEMMA PrecedesOrder ==
    ASSUME NEW W \in Nat, NEW a \in [1 .. W -> Int], NEW b \in [1 .. W -> Int],
           NEW c \in [1 .. W -> Int]
    PROVE  /\ ~ (Precedes(a, b) /\ Precedes(b, a))
           /\ ~Precedes(b, a) /\ ~Precedes(c, b) => ~Precedes(c, a)
<1>1. ASSUME Precedes(a, b), Precedes(b, a) PROVE FALSE
  <2>1. PICK i \in 1 .. W : a[i] < b[i] /\ \A j \in 1 .. i - 1 : a[j] = b[j]
    BY <1>1 DEF Precedes
  <2>2. PICK k \in 1 .. W : b[k] < a[k] /\ \A j \in 1 .. k - 1 : b[j] = a[j]
    BY <1>1 DEF Precedes
  <2>3. CASE i < k
    BY <2>1, <2>2, <2>3
  <2>4. CASE k < i
    BY <2>1, <2>2, <2>4
  <2>5. CASE i = k
    BY <2>1, <2>2, <2>5
  <2> QED
    BY <2>3, <2>4, <2>5
<1>2. ASSUME ~Precedes(b, a), ~Precedes(c, b), Precedes(c, a) PROVE FALSE
  <2>1. PICK i \in 1 .. W : c[i] < a[i] /\ \A j \in 1 .. i - 1 : c[j] = a[j]
    BY <1>2 DEF Precedes
  <2> DEFINE D == {k \in 1 .. W : a[k] # b[k] \/ b[k] # c[k]}
  <2>2. i \in D /\ D \subseteq Nat
    BY <2>1
  <2>3. PICK m \in D : \A k \in D : m <= k
    <3>1. D # {}
      BY <2>2
    <3> HIDE DEF D
    <3> QED
      BY <2>2, <3>1, LeastNumber, Zenon
  <2>4. m \in 1 .. W /\ (a[m] # b[m] \/ b[m] # c[m])
    OBVIOUS
  <2>5. ASSUME NEW j \in 1 .. m - 1 PROVE a[j] = b[j] /\ b[j] = c[j]
    <3>1. j \in 1 .. W /\ ~ m <= j
      BY <2>4
    <3>2. j \notin D
      BY <2>3, <3>1
    <3> QED
      BY <3>1, <3>2
  <2> HIDE DEF D
  <2>6. a[m] <= b[m]
    <3>1. ~ b[m] < a[m]
      BY <1>2, <2>4, <2>5 DEF Precedes
    <3> QED
      BY <2>4, <3>1
  <2>7. b[m] <= c[m]
    <3>1. ~ c[m] < b[m]
      BY <1>2, <2>4, <2>5 DEF Precedes
    <3> QED
      BY <2>4, <3>1
  <2>8. a[m] < c[m]
    BY <2>4, <2>6, <2>7
  <2>9. m <= i
    BY <2>2, <2>3
  <2> QED
    BY <2>1, <2>4, <2>8, <2>9
<1> QED
  BY <1>1, <1>2

\* Keys of n elements, all of one length
Keys(key, n) == \E W \in Nat : key \in [1 .. n -> [1 .. W -> Int]]

\* qsort can leave s in some order.
LEMMA OrderExists ==
    ASSUME NEW s, NEW n \in 0 .. MaxSubtables, Len(s) = n, DOMAIN s = 1 .. n,
           NEW key, Keys(key, n)
    PROVE  Orders(s, key) # {}
<1> DEFINE D == 1 .. n
           le(i, j) == ~Precedes(key[j], key[i])
           R == {p \in D \X D : le(p[1], p[2]) /\ (~le(p[2], p[1]) \/ p[1] < p[2])}
<1>0. PICK W \in Nat : key \in [D -> [1 .. W -> Int]]
  BY DEF Keys
<1>1. /\ \A i, j \in D : le(i, j) \/ le(j, i)
      /\ \A i, j, k \in D : le(i, j) /\ le(j, k) => le(i, k)
  <2>1. ASSUME NEW i \in D, NEW j \in D PROVE le(i, j) \/ le(j, i)
    BY <1>0, PrecedesOrder
  <2>2. ASSUME NEW i \in D, NEW j \in D, NEW k \in D, le(i, j), le(j, k) PROVE le(i, k)
    BY <1>0, <2>2, PrecedesOrder
  <2> QED
    BY <2>1, <2>2
<1>2. \A i, j \in D : <<i, j>> \in R <=> le(i, j) /\ (~le(j, i) \/ i < j)
  OBVIOUS
<1> HIDE DEF le, R
<1>3. /\ \A i \in D : <<i, i>> \notin R
      /\ \A i, j \in D : i # j => <<i, j>> \in R \/ <<j, i>> \in R
      /\ \A i, j, k \in D : <<i, j>> \in R /\ <<j, k>> \in R => <<i, k>> \in R
  <2>1. \A i \in D : <<i, i>> \notin R
    BY <1>1, <1>2
  <2>2. ASSUME NEW i \in D, NEW j \in D, i # j PROVE <<i, j>> \in R \/ <<j, i>> \in R
    BY <1>1, <1>2, <2>2
  <2>3. ASSUME NEW i \in D, NEW j \in D, NEW k \in D, <<i, j>> \in R, <<j, k>> \in R
        PROVE  <<i, k>> \in R
    BY <1>1, <1>2, <2>3
  <2> QED
    BY <2>1, <2>2, <2>3
<1>4. IsFiniteSet(D) /\ Cardinality(D) = n
  <2>1. 1 \in Int /\ n \in Int /\ n \in Nat
    BY OtlAssumption
  <2> QED
    BY <2>1, FS_Interval
<1> DEFINE r(i) == Rank(D, R, i)
<1>5. /\ \A i \in D : r(i) \in 0 .. n - 1
      /\ \A i, j \in D : <<i, j>> \in R <=> r(i) < r(j)
      /\ \A m \in 0 .. n - 1 : \E i \in D : r(i) = m
  <2> HIDE DEF D
  <2> QED
    BY <1>3, <1>4, Ranks
<1> HIDE DEF r
<1> DEFINE p == [m \in D |-> CHOOSE i \in D : r(i) = m - 1]
<1>6. ASSUME NEW m \in D PROVE p[m] \in D /\ r(p[m]) = m - 1
  <2>1. m - 1 \in 0 .. n - 1
    BY OtlAssumption
  <2>2. \E i \in D : r(i) = m - 1
    BY <1>5, <2>1
  <2> QED
    BY <2>2
<1>7. p \in [D -> D]
  BY <1>6
<1> HIDE DEF p
<1>8. \A i, j \in D : p[i] = p[j] => i = j
  BY <1>6
<1>9. ASSUME NEW i \in 1 .. n - 1 PROVE ~Precedes(key[p[i + 1]], key[p[i]])
  <2>1. i \in D /\ i + 1 \in D
    BY OtlAssumption
  <2>2. r(p[i]) < r(p[i + 1])
    BY <1>6, <2>1
  <2>3. <<p[i], p[i + 1]>> \in R
    BY <1>5, <1>7, <2>1, <2>2
  <2>4. le(p[i], p[i + 1])
    BY <1>2, <1>7, <2>1, <2>3
  <2> QED
    BY <2>4 DEF le
<1>10. p \in Rearrangements[n]
  BY <1>7, <1>8 DEF Rearrangements
<1> QED
  BY <1>9, <1>10 DEF Orders


\* p says where in s the elements of t come from.
Arranges(p, s, t, key, n) ==
    /\ p \in [1 .. n -> 1 .. n]
    /\ \A i, j \in 1 .. n : p[i] = p[j] => i = j
    /\ \A j \in 1 .. n : \E i \in 1 .. n : p[i] = j
    /\ \A i \in 1 .. n : t[i] = s[p[i]]
    /\ \A i, j \in 1 .. n : i < j => ~Precedes(key[p[j]], key[p[i]])

\* Any order that qsort leaves has the elements of s, the smaller before the greater.
LEMMA OrderIs ==
    ASSUME NEW S, NEW n \in 0 .. MaxSubtables, NEW s \in [1 .. n -> S], Len(s) = n,
           NEW key, Keys(key, n), NEW t \in Orders(s, key)
    PROVE  t \in [1 .. n -> S] /\ \E p : Arranges(p, s, t, key, n)
<1>0. n \in Nat
  BY OtlAssumption
<1>1. PICK p \in Rearrangements[n] :
          /\ \A i \in 1 .. n - 1 : ~Precedes(key[p[i + 1]], key[p[i]])
          /\ t = [i \in 1 .. n |-> s[p[i]]]
  BY DEF Orders
<1>2. p \in [1 .. n -> 1 .. n] /\ \A i, j \in 1 .. n : p[i] = p[j] => i = j
  BY <1>1 DEF Rearrangements
<1>3. \A j \in 1 .. n : \E i \in 1 .. n : p[i] = j
  <2>1. IsFiniteSet(1 .. n)
    <3>1. 1 \in Int /\ n \in Int
      BY <1>0
    <3> QED
      BY <3>1, FS_Interval
  <2> DEFINE D == 1 .. n
  <2>2. p \in [D -> D] /\ IsFiniteSet(D) /\ \A i, j \in D : p[i] = p[j] => i = j
    BY <1>2, <2>1
  <2> HIDE DEF D
  <2>3. \A j \in D : \E i \in D : p[i] = j
    BY <2>2, IntoItself
  <2> QED
    BY <2>3 DEF D
<1>4. PICK W \in Nat : key \in [1 .. n -> [1 .. W -> Int]]
  BY DEF Keys
<1>5. ASSUME NEW i \in 1 .. n, NEW j \in 1 .. n, i < j,
             Precedes(key[p[j]], key[p[i]])
      PROVE  FALSE
  <2> DEFINE D == {k \in 1 .. n : i < k /\ Precedes(key[p[k]], key[p[i]])}
  <2>1. j \in D /\ D \subseteq Nat
    BY <1>5
  <2>2. PICK m \in D : \A k \in D : m <= k
    <3>1. D # {}
      BY <2>1
    <3> HIDE DEF D
    <3> QED
      BY <2>1, <3>1, LeastNumber, Zenon
  <2>3. m \in 1 .. n /\ i < m /\ Precedes(key[p[m]], key[p[i]])
    OBVIOUS
  <2> DEFINE k == m - 1
  <2>4. k \in 1 .. n /\ k \in 1 .. n - 1 /\ k + 1 = m /\ k < m /\ i <= k
    BY <1>0, <2>3
  <2>5. k \notin D
    <3> HIDE DEF D
    <3>1. ~ m <= k
      BY <2>3, <2>4
    <3> QED
      BY <2>2, <3>1
  <2>6. k = i \/ ~Precedes(key[p[k]], key[p[i]])
    BY <1>0, <2>4, <2>5
  <2>7. key[p[i]] \in [1 .. W -> Int] /\ key[p[k]] \in [1 .. W -> Int]
        /\ key[p[m]] \in [1 .. W -> Int]
    BY <1>2, <1>4, <2>3, <2>4
  <2>8. ~Precedes(key[p[m]], key[p[k]])
    BY <1>1, <2>4
  <2>9. ~Precedes(key[p[m]], key[p[i]])
    BY <2>6, <2>7, <2>8, PrecedesOrder
  <2> QED
    BY <2>3, <2>9
<1>6. t \in [1 .. n -> S] /\ \A i \in 1 .. n : t[i] = s[p[i]]
  BY <1>1, <1>2
<1>7. Arranges(p, s, t, key, n)
  BY <1>2, <1>3, <1>5, <1>6 DEF Arranges
<1> QED
  BY <1>6, <1>7

\* Comparing keys of three and of four numbers
AtMost3(a1, a2, a3, b1, b2, b3) ==
    a1 < b1 \/ (a1 = b1 /\ (a2 < b2 \/ (a2 = b2 /\ a3 <= b3)))
AtMost4(a1, a2, a3, a4, b1, b2, b3, b4) ==
    a1 < b1 \/ (a1 = b1 /\ AtMost3(a2, a3, a4, b2, b3, b4))

\* Comparing keys of three numbers compares one after the other.
LEMMA KeyOf3 ==
    ASSUME NEW a1 \in Int, NEW a2 \in Int, NEW a3 \in Int,
           NEW b1 \in Int, NEW b2 \in Int, NEW b3 \in Int
    PROVE  /\ <<a1, a2, a3>> \in [1 .. 3 -> Int]
           /\ ~Precedes(<<b1, b2, b3>>, <<a1, a2, a3>>) => AtMost3(a1, a2, a3, b1, b2, b3)
<1> DEFINE a == <<a1, a2, a3>>
           b == <<b1, b2, b3>>
<1>1. DOMAIN b = 1 .. 3 /\ a[1] = a1 /\ a[2] = a2 /\ a[3] = a3 /\ b[1] = b1 /\ b[2] = b2 /\ b[3] = b3
  OBVIOUS
<1>2. <<a1, a2, a3>> \in [1 .. 3 -> Int]
  OBVIOUS
<1> HIDE DEF a, b
<1>3. ASSUME ~AtMost3(a1, a2, a3, b1, b2, b3) PROVE Precedes(b, a)
  <2>1. CASE b1 < a1
    BY <1>1, <2>1 DEF Precedes
  <2>2. CASE b1 = a1 /\ b2 < a2
    <3>1. b[2] < a[2] /\ \A j \in 1 .. 2 - 1 : b[j] = a[j]
      BY <1>1, <2>2
    <3> QED
      BY <1>1, <3>1 DEF Precedes
  <2>3. CASE b1 = a1 /\ b2 = a2 /\ b3 < a3
    <3>1. b[3] < a[3] /\ \A j \in 1 .. 3 - 1 : b[j] = a[j]
      BY <1>1, <2>3
    <3> QED
      BY <1>1, <3>1 DEF Precedes
  <2> QED
    BY <1>3, <2>1, <2>2, <2>3 DEF AtMost3
<1> QED
  BY <1>2, <1>3 DEF a, b

\* Two pairs make a key of four numbers.
LEMMA Concat ==
    ASSUME NEW a1 \in Int, NEW a2 \in Int, NEW a3 \in Int, NEW a4 \in Int
    PROVE  <<a1, a2>> \o <<a3, a4>> = <<a1, a2, a3, a4>>
<1> DEFINE a == <<a1, a2, a3, a4>>
<1>1. DOMAIN a = 1 .. 4 /\ a[1] = a1 /\ a[2] = a2 /\ a[3] = a3 /\ a[4] = a4
  OBVIOUS
<1>2. <<a1, a2>> \o <<a3, a4>> = <<a1, a2, a3, a4>>
  <2> DEFINE u == <<a1, a2>>
             v == <<a3, a4>>
  <2>1. /\ u \in Seq(Int) /\ Len(u) = 2 /\ u[1] = a1 /\ u[2] = a2
        /\ v \in Seq(Int) /\ Len(v) = 2 /\ v[1] = a3 /\ v[2] = a4
        /\ a \in Seq(Int) /\ Len(a) = 4
    OBVIOUS
  <2> HIDE DEF u, v, a
  <2>5. /\ u \o v \in Seq(Int) /\ Len(u \o v) = Len(u) + Len(v)
        /\ \A i \in 1 .. Len(u) + Len(v) :
              (u \o v)[i] = IF i <= Len(u) THEN u[i] ELSE v[i - Len(u)]
    BY <2>1, ConcatProperties, Zenon
  <2>2. /\ u \o v \in Seq(Int) /\ Len(u \o v) = 4
        /\ (u \o v)[1] = u[1] /\ (u \o v)[2] = u[2] /\ (u \o v)[3] = v[1] /\ (u \o v)[4] = v[2]
    BY <2>1, <2>5
  <2>3. ASSUME NEW i \in 1 .. 4 PROVE (u \o v)[i] = a[i]
    <3>1. i = 1 \/ i = 2 \/ i = 3 \/ i = 4
      OBVIOUS
    <3> QED
      BY <1>1, <2>1, <2>2, <3>1
  <2>4. u \o v = a
    BY <2>1, <2>2, <2>3, SeqEqual
  <2> QED
    BY <2>4 DEF u, v, a
<1> QED
  BY <1>2

\* The same for keys of four numbers.
LEMMA KeyOf4 ==
    ASSUME NEW a1 \in Int, NEW a2 \in Int, NEW a3 \in Int, NEW a4 \in Int,
           NEW b1 \in Int, NEW b2 \in Int, NEW b3 \in Int, NEW b4 \in Int
    PROVE  /\ <<a1, a2, a3, a4>> \in [1 .. 4 -> Int]
           /\ ~Precedes(<<b1, b2, b3, b4>>, <<a1, a2, a3, a4>>)
              => AtMost4(a1, a2, a3, a4, b1, b2, b3, b4)
<1> DEFINE a == <<a1, a2, a3, a4>>
           b == <<b1, b2, b3, b4>>
<1>1. /\ DOMAIN b = 1 .. 4 /\ a[1] = a1 /\ a[2] = a2 /\ a[3] = a3 /\ a[4] = a4
      /\ b[1] = b1 /\ b[2] = b2 /\ b[3] = b3 /\ b[4] = b4
  OBVIOUS
<1>2. <<a1, a2, a3, a4>> \in [1 .. 4 -> Int]
  OBVIOUS
<1> HIDE DEF a, b
<1>3. ASSUME ~AtMost4(a1, a2, a3, a4, b1, b2, b3, b4) PROVE Precedes(b, a)
  <2>1. CASE b1 < a1
    BY <1>1, <2>1 DEF Precedes
  <2>2. CASE b1 = a1 /\ b2 < a2
    <3>1. b[2] < a[2] /\ \A j \in 1 .. 2 - 1 : b[j] = a[j]
      BY <1>1, <2>2
    <3> QED
      BY <1>1, <3>1 DEF Precedes
  <2>3. CASE b1 = a1 /\ b2 = a2 /\ b3 < a3
    <3>1. b[3] < a[3] /\ \A j \in 1 .. 3 - 1 : b[j] = a[j]
      BY <1>1, <2>3
    <3> QED
      BY <1>1, <3>1 DEF Precedes
  <2>4. CASE b1 = a1 /\ b2 = a2 /\ b3 = a3 /\ b4 < a4
    <3>1. b[4] < a[4] /\ \A j \in 1 .. 4 - 1 : b[j] = a[j]
      BY <1>1, <2>4
    <3> QED
      BY <1>1, <3>1 DEF Precedes
  <2> QED
    BY <1>3, <2>1, <2>2, <2>3, <2>4 DEF AtMost3, AtMost4
<1> QED
  BY <1>2, <1>3 DEF a, b


-----------------------------------------------------------------------------
(* Runs of equal keys *)

\* Every index has the beginning of its run before it.
LEMMA RunHasStart ==
    ASSUME NEW lo \in Nat, NEW hi \in Nat, NEW key, NEW i \in lo .. hi
    PROVE  \E k \in RunStarts(key, lo, hi) : k <= i /\ \A m \in k .. i : key[m] = key[i]
<1> DEFINE D == {k \in lo .. i : \A m \in k .. i : key[m] = key[i]}
<1>1. i \in D /\ D \subseteq Nat
  OBVIOUS
<1>2. PICK k \in D : \A l \in D : k <= l
  <2>1. D # {}
    BY <1>1
  <2> HIDE DEF D
  <2> QED
    BY <1>1, <2>1, LeastNumber, Zenon
<1>3. k \in lo .. i /\ \A m \in k .. i : key[m] = key[i]
  OBVIOUS
<1>4. k = lo \/ key[k] # key[k - 1]
  <2> SUFFICES ASSUME k # lo, key[k] = key[k - 1] PROVE FALSE
    OBVIOUS
  <2>1. k - 1 \in lo .. i /\ ~ k <= k - 1
    BY <1>3
  <2>2. \A m \in k - 1 .. i : m = k - 1 \/ m \in k .. i
    BY <1>3
  <2>3. k \in k .. i
    BY <1>3
  <2>4. \A m \in k - 1 .. i : key[m] = key[i]
    BY <1>3, <2>2, <2>3
  <2>5. k - 1 \in D
    BY <2>1, <2>4
  <2> HIDE DEF D
  <2> QED
    BY <1>2, <2>1, <2>5
<1> QED
  BY <1>3, <1>4 DEF RunStarts

\* Runs are numbered 0, 1, ... as they come.
RunNumbering(key, hi) ==
    /\ \A i \in 1 .. hi : RunOf(key, 1, i) \in Nat
    /\ \A i, j \in 1 .. hi : i <= j => RunOf(key, 1, i) <= RunOf(key, 1, j)
    /\ \A i, j \in 1 .. hi :
          i <= j => (RunOf(key, 1, i) = RunOf(key, 1, j) <=> \A m \in i .. j : key[m] = key[i])
    /\ \A i \in 1 .. hi, m \in Nat :
          m < RunOf(key, 1, i) => \E j \in 1 .. hi : RunOf(key, 1, j) = m

\* They are, whatever the keys.
LEMMA RunNumbers ==
    ASSUME NEW hi \in Nat, NEW key
    PROVE  RunNumbering(key, hi)
<1> DEFINE T == RunStarts(key, 1, hi)
           U(i) == {j \in T : j <= i}
           r(i) == RunOf(key, 1, i)
<1>1. T \subseteq 1 .. hi /\ T \subseteq Int
  BY DEF RunStarts
<1>2. IsFiniteSet(T) /\ Cardinality(T) \in Nat
  <2>1. IsFiniteSet(1 .. hi)
    <3>1. 1 \in Int /\ hi \in Int
      OBVIOUS
    <3> QED
      BY <3>1, FS_Interval
  <2> HIDE DEF T
  <2> QED
    BY <1>1, <2>1, Part
<1>3. ASSUME NEW i \in 1 .. hi PROVE r(i) = Cardinality(U(i)) - 1
  <2>1. RunStarts(key, 1, i) = U(i)
    BY DEF RunStarts
  <2> QED
    BY <2>1 DEF RunOf
<1>4. \A i, j : j \in U(i) <=> j \in T /\ j <= i
  OBVIOUS
<1>5. \A i \in 1 .. hi : 1 \in T /\ U(i) \subseteq T
  BY DEF RunStarts
<1>6. \A j \in 1 .. hi : j \in T <=> j = 1 \/ key[j] # key[j - 1]
  BY DEF RunStarts
<1> HIDE DEF T, U, r
<1>7. ASSUME NEW i \in 1 .. hi
      PROVE  IsFiniteSet(U(i)) /\ Cardinality(U(i)) \in Nat \ {0}
  <2>1. IsFiniteSet(U(i)) /\ Cardinality(U(i)) \in Nat
    BY <1>2, <1>5, Part
  <2>2. U(i) # {}
    BY <1>4, <1>5
  <2>3. Cardinality(U(i)) # 0
    BY <2>1, <2>2, FS_EmptySet, Zenon
  <2> QED
    BY <2>1, <2>3
<1>8. ASSUME NEW i \in 1 .. hi, NEW j \in 1 .. hi, i <= j
      PROVE  /\ U(i) \subseteq U(j) /\ r(i) <= r(j)
             /\ U(i) # U(j) => r(i) # r(j)
  <2>1. U(i) \subseteq U(j)
    <3> SUFFICES ASSUME NEW m \in U(i) PROVE m \in U(j)
      OBVIOUS
    <3>1. m \in T /\ m <= i /\ m \in Int
      BY <1>1, <1>4
    <3>2. m <= j
      BY <1>8, <3>1
    <3> QED
      BY <1>4, <3>1, <3>2
  <2>2. /\ Cardinality(U(i)) <= Cardinality(U(j))
        /\ U(i) # U(j) => Cardinality(U(i)) < Cardinality(U(j))
    BY <1>7, <2>1, Part
  <2>3. Cardinality(U(i)) \in Nat /\ Cardinality(U(j)) \in Nat
    BY <1>7
  <2> QED
    BY <1>3, <2>1, <2>2, <2>3
<1>9. ASSUME NEW i \in 1 .. hi, NEW j \in 1 .. hi, i <= j
      PROVE  r(i) = r(j) <=> \A m \in i .. j : key[m] = key[i]
  <2>1. ASSUME \A m \in i .. j : key[m] = key[i] PROVE r(i) = r(j)
    <3>1. ASSUME NEW m \in U(j) PROVE m \in U(i)
      <4>1. m \in T /\ m <= j /\ m \in 1 .. hi
        BY <1>1, <1>4
      <4>2. CASE m <= i
        BY <1>4, <4>1, <4>2
      <4>3. CASE i < m
        <5>1. m \in i .. j /\ m - 1 \in i .. j /\ m # 1
          BY <4>1, <4>3
        <5>2. key[m] = key[m - 1]
          BY <2>1, <5>1
        <5> QED
          BY <1>6, <4>1, <5>1, <5>2
      <4> QED
        BY <4>1, <4>2, <4>3
    <3>2. U(i) = U(j)
      BY <1>8, <1>9, <3>1
    <3> QED
      BY <1>3, <3>2
  <2>2. ASSUME NEW x \in i .. j, key[x] # key[i] PROVE r(i) # r(j)
    <3> DEFINE D == {m \in i .. j : key[m] # key[i]}
    <3>1. x \in D /\ D \subseteq Nat
      BY <2>2
    <3>2. PICK d \in D : \A m \in D : d <= m
      <4>1. D # {}
        BY <3>1
      <4> HIDE DEF D
      <4> QED
        BY <3>1, <4>1, LeastNumber, Zenon
    <3>3. d \in i .. j /\ key[d] # key[i] /\ i # d
      OBVIOUS
    <3>4. d - 1 \in i .. j /\ ~ d <= d - 1
      BY <3>3
    <3>5. key[d - 1] = key[i]
      BY <3>2, <3>4
    <3> HIDE DEF D
    <3>6. d \in T /\ d <= j /\ ~ d <= i
      BY <1>6, <3>3, <3>5
    <3>7. U(i) # U(j)
      BY <1>4, <3>6
    <3> QED
      BY <1>8, <1>9, <3>7
  <2> QED
    BY <2>1, <2>2
<1>10. ASSUME NEW j \in T PROVE r(j) = Cardinality(Below(T, j))
  <2>1. U(j) = Below(T, j) \cup {j} /\ j \notin Below(T, j)
    <3>1. ASSUME NEW m PROVE m \in U(j) <=> m \in Below(T, j) \/ m = j
      <4>1. m \in U(j) <=> m \in T /\ m <= j
        BY <1>4
      <4>2. m \in Below(T, j) <=> m \in T /\ m < j
        BY DEF Below
      <4>3. j \in Int /\ (m \in T => m \in Int)
        BY <1>1
      <4>4. CASE m \in T
        BY <4>1, <4>2, <4>3, <4>4
      <4>5. CASE m \notin T
        BY <4>1, <4>2, <4>5
      <4> QED
        BY <4>4, <4>5
    <3>2. j \notin Below(T, j)
      BY <1>1 DEF Below
    <3> QED
      BY <3>1, <3>2
  <2>2. IsFiniteSet(Below(T, j)) /\ Cardinality(Below(T, j)) \in Nat
    <3>1. Below(T, j) \subseteq T
      BY DEF Below
    <3> QED
      BY <1>2, <3>1, Part
  <2>3. Cardinality(U(j)) = Cardinality(Below(T, j)) + 1
    BY <2>1, <2>2, FS_AddElement
  <2> QED
    BY <1>1, <1>3, <2>2, <2>3
<1>11. ASSUME NEW i \in 1 .. hi, NEW m \in Nat, m < r(i)
       PROVE  \E j \in 1 .. hi : r(j) = m
  <2>1. Cardinality(U(i)) <= Cardinality(T)
    BY <1>2, <1>5, Part
  <2>2. m \in 0 .. Cardinality(T) - 1
    BY <1>2, <1>3, <1>7, <1>11, <2>1
  <2>3. \E j \in T : Cardinality(Below(T, j)) = m
    BY <1>1, <1>2, <2>2, IntRanks
  <2> QED
    BY <1>1, <1>10, <2>3
<1>12. \A i \in 1 .. hi : r(i) \in Nat
  BY <1>3, <1>7
<1> QED
  BY <1>8, <1>9, <1>11, <1>12 DEF r, RunNumbering

\* A run that begins at i, among the first hi of span elements, ends before another begins.
LEMMA RunEndIs ==
    ASSUME NEW hi \in Nat, NEW span \in Nat, hi <= span, NEW key, NEW i \in 1 .. hi,
           \A j \in i .. hi : key[j] = key[i] => \A k \in i .. j : key[k] = key[i],
           hi < span => key[hi + 1] # key[hi]
    PROVE  /\ RunEnd(key, i, span) \in i .. hi
           /\ i .. RunEnd(key, i, span) = {j \in i .. hi : key[j] = key[i]}
<1> DEFINE good(j) == (\A k \in i .. j : key[k] = key[i]) /\ (j = span \/ key[j + 1] # key[i])
           D == {d \in i .. span : key[d] # key[i]}
<1>1. \E j \in i .. span : good(j)
  <2>1. CASE D = {}
    <3>1. span \in i .. span
      OBVIOUS
    <3> QED
      BY <2>1, <3>1
  <2>2. CASE D # {}
    <3>1. PICK d \in D : \A m \in D : d <= m
      <4>1. D \subseteq Nat
        OBVIOUS
      <4> HIDE DEF D
      <4> QED
        BY <2>2, <4>1, LeastNumber, Zenon
    <3>2. d \in i .. span /\ key[d] # key[i] /\ d # i
      OBVIOUS
    <3>3. \A m \in i .. d - 1 : key[m] = key[i]
      <4> SUFFICES ASSUME NEW m \in i .. d - 1 PROVE key[m] = key[i]
        OBVIOUS
      <4>1. m \in i .. span /\ ~ d <= m
        BY <3>2
      <4> QED
        BY <3>1, <4>1
    <3>4. d - 1 \in i .. span /\ (d - 1) + 1 = d
      BY <3>2
    <3> QED
      BY <3>2, <3>3, <3>4
  <2> QED
    BY <2>1, <2>2
<1> DEFINE e == RunEnd(key, i, span)
<1>2. e \in i .. span /\ good(e)
  BY <1>1 DEF RunEnd
<1> HIDE DEF e, D
<1>3. e <= hi
  <2> SUFFICES ASSUME hi < e PROVE FALSE
    BY <1>2
  <2>1. hi \in i .. e /\ hi + 1 \in i .. e /\ hi < span
    BY <1>2
  <2> QED
    BY <1>2, <2>1
<1>4. e \in i .. hi
  BY <1>2, <1>3
<1>5. ASSUME NEW j \in i .. hi, key[j] = key[i] PROVE j <= e
  <2> SUFFICES ASSUME e < j PROVE FALSE
    BY <1>4
  <2>1. e + 1 \in i .. j /\ e # span
    BY <1>4
  <2> QED
    BY <1>2, <1>5, <2>1
<1>6. i .. e = {j \in i .. hi : key[j] = key[i]}
  <2>1. ASSUME NEW j \in i .. e PROVE j \in i .. hi /\ key[j] = key[i]
    BY <1>2, <1>4
  <2> QED
    BY <1>4, <1>5, <2>1
<1> QED
  BY <1>4, <1>6 DEF e


\* If the first hi elements are in the order of an index that takes all values up to its
\* greatest, the run that begins after as many others as the index says is the one of that index.
LEMMA IndexedRuns ==
    ASSUME NEW hi \in Nat, NEW span \in Nat, hi <= span, NEW key,
           \A i \in 1 .. hi : key[i] \in Nat,
           \A i, j \in 1 .. hi : i <= j => key[i] <= key[j],
           \A i \in 1 .. hi, m \in Nat : m < key[i] => \E j \in 1 .. hi : key[j] = m,
           NEW T, T = RunStarts(key, 1, span)
    PROVE  /\ IsFiniteSet(T) /\ T \subseteq Int
           /\ \A i \in 1 .. hi : /\ key[i] + 1 \in 1 .. Cardinality(T)
                                 /\ InOrder(T)[key[i] + 1] \in T
                                 /\ InOrder(T)[key[i] + 1] \in 1 .. i
                                 /\ key[InOrder(T)[key[i] + 1]] = key[i]
           /\ hi = span => \A n \in 1 .. Cardinality(T) :
                              InOrder(T)[n] \in T /\ InOrder(T)[n] \in 1 .. hi /\ key[InOrder(T)[n]] = n - 1
<1>1. T \subseteq 1 .. span /\ T \subseteq Int
  BY DEF RunStarts
<1>2. \A j \in 1 .. span : j \in T <=> j = 1 \/ key[j] # key[j - 1]
  BY DEF RunStarts
<1>3. IsFiniteSet(T)
  <2>1. IsFiniteSet(1 .. span)
    <3>1. 1 \in Int /\ span \in Int
      OBVIOUS
    <3> QED
      BY <3>1, FS_Interval
  <2> QED
    BY <1>1, <2>1, Part
<1>4. ASSUME NEW i \in 1 .. hi
      PROVE  \E k \in T : k \in 1 .. i /\ key[k] = key[i]
  <2>1. i \in 1 .. span
    OBVIOUS
  <2>2. PICK k \in RunStarts(key, 1, span) : k <= i /\ \A m \in k .. i : key[m] = key[i]
    BY <2>1, RunHasStart
  <2>3. k \in T /\ k \in 1 .. i
    BY <1>1, <2>2
  <2> QED
    BY <2>2, <2>3
<1>5. ASSUME NEW j \in T, NEW k \in T, k <= hi, j < k PROVE key[j] < key[k]
  <2>1. j \in 1 .. hi /\ k \in 1 .. hi /\ k - 1 \in 1 .. hi /\ j <= k - 1 /\ k # 1
    BY <1>1, <1>5
  <2>2. key[k] # key[k - 1]
    BY <1>1, <1>2, <2>1
  <2>3. key[j] <= key[k - 1] /\ key[k - 1] <= key[k]
    BY <2>1
  <2>4. key[j] \in Nat /\ key[k] \in Nat /\ key[k - 1] \in Nat
    BY <2>1
  <2> QED
    BY <2>2, <2>3, <2>4
<1>6. ASSUME NEW k \in T, k <= hi PROVE Cardinality(Below(T, k)) = key[k]
  <2>0. k \in 1 .. hi /\ key[k] \in Nat
    BY <1>1, <1>6
  <2> DEFINE B == Below(T, k)
             V == 0 .. key[k] - 1
             f == [j \in B |-> key[j]]
  <2>1. \A j : j \in B <=> j \in T /\ j < k
    BY DEF Below
  <2> HIDE DEF B
  <2>2. IsFiniteSet(B)
    <3>1. B \subseteq T
      BY <2>1
    <3> QED
      BY <1>3, <3>1, Part
  <2>3. ASSUME NEW j \in B PROVE j \in 1 .. hi /\ key[j] \in V
    <3>1. j \in T /\ j < k /\ j \in 1 .. hi
      BY <1>1, <2>0, <2>1
    <3>2. key[j] < key[k] /\ key[j] \in Nat
      BY <1>5, <1>6, <3>1
    <3> QED
      BY <2>0, <3>1, <3>2
  <2>4. f \in [B -> V]
    BY <2>3
  <2>5. ASSUME NEW i \in B, NEW j \in B, f[i] = f[j] PROVE i = j
    <3>1. key[i] = key[j] /\ i \in T /\ j \in T /\ i \in 1 .. hi /\ j \in 1 .. hi
      BY <2>1, <2>3, <2>5
    <3>2. key[i] \in Nat
      BY <3>1
    <3>3. ~ i < j /\ ~ j < i
      BY <1>5, <3>1, <3>2
    <3> QED
      BY <3>1, <3>3
  <2>6. ASSUME NEW v \in V PROVE \E j \in B : f[j] = v
    <3>1. v \in Nat /\ v < key[k]
      BY <2>0
    <3>2. PICK i \in 1 .. hi : key[i] = v
      BY <2>0, <3>1
    <3>3. PICK j \in T : j \in 1 .. i /\ key[j] = key[i]
      BY <1>4
    <3>4. ~ k <= j
      <4> SUFFICES ASSUME k <= j PROVE FALSE
        OBVIOUS
      <4>1. j \in 1 .. hi /\ key[k] <= key[j]
        BY <2>0, <3>3
      <4> QED
        BY <2>0, <3>1, <3>2, <3>3, <4>1
    <3>5. j \in B
      BY <2>0, <2>1, <3>3, <3>4
    <3> QED
      BY <3>2, <3>3, <3>5
  <2> HIDE DEF V, f
  <2>7. Cardinality(V) = Cardinality(B)
    BY <2>2, <2>4, <2>5, <2>6, SameCount
  <2>8. Cardinality(V) = key[k]
    <3>1. 0 \in Int /\ key[k] - 1 \in Int
      BY <2>0
    <3>2. Cardinality(0 .. key[k] - 1) = IF 0 > key[k] - 1 THEN 0 ELSE (key[k] - 1) - 0 + 1
      BY <3>1, FS_Interval
    <3> QED
      BY <2>0, <3>2 DEF V
  <2> QED
    BY <2>7, <2>8 DEF B
<1>7. /\ InOrder(T) \in [1 .. Cardinality(T) -> T]
      /\ \A n \in 1 .. Cardinality(T) : Cardinality(Below(T, InOrder(T)[n])) = n - 1
      /\ \A i \in T : /\ Cardinality(Below(T, i)) + 1 \in 1 .. Cardinality(T)
                      /\ InOrder(T)[Cardinality(Below(T, i)) + 1] = i
  BY <1>1, <1>3, InOrderIs
<1>8. ASSUME NEW i \in 1 .. hi
      PROVE  /\ key[i] + 1 \in 1 .. Cardinality(T)
             /\ InOrder(T)[key[i] + 1] \in T
             /\ InOrder(T)[key[i] + 1] \in 1 .. i
             /\ key[InOrder(T)[key[i] + 1]] = key[i]
  <2>1. PICK k \in T : k \in 1 .. i /\ key[k] = key[i]
    BY <1>4
  <2>2. Cardinality(Below(T, k)) = key[i]
    BY <1>6, <2>1
  <2>3. key[i] + 1 \in 1 .. Cardinality(T) /\ InOrder(T)[key[i] + 1] = k
    BY <1>7, <2>2
  <2> QED
    BY <2>1, <2>3
<1>9. ASSUME hi = span, NEW n \in 1 .. Cardinality(T)
      PROVE  InOrder(T)[n] \in T /\ InOrder(T)[n] \in 1 .. hi /\ key[InOrder(T)[n]] = n - 1
  <2>1. InOrder(T)[n] \in T /\ Cardinality(Below(T, InOrder(T)[n])) = n - 1
    BY <1>7
  <2> QED
    BY <1>1, <1>6, <1>9, <2>1
<1> QED
  BY <1>1, <1>3, <1>8, <1>9

-----------------------------------------------------------------------------
(* Lists of subtables *)

SubType ==
    [script : Tags, language : Tags, feature : Tags, label : Label, isFeatParam : BOOLEAN,
     offset : Nat, index : [feature : Int, lookup : Int]]

\* An offset is the identity of a subtable.
ListType(s) ==
    /\ s \in Seq(SubType) /\ Len(s) =< MaxSubtables
    /\ \A i \in 1 .. Len(s) : s[i].offset \in 0 .. Len(s) - 1
    /\ \A i, j \in 1 .. Len(s) : s[i].offset = s[j].offset => i = j

SameElements(s, t) ==
    /\ Len(t) = Len(s)
    /\ \A i \in 1 .. Len(s) : \E j \in 1 .. Len(s) : t[j] = s[i]
    /\ \A j \in 1 .. Len(s) : \E i \in 1 .. Len(s) : t[j] = s[i]

\* What a list of subtables is, as a sequence
LEMMA ListIs ==
    ASSUME NEW s, ListType(s)
    PROVE  /\ Len(s) \in Nat /\ Len(s) \in 0 .. MaxSubtables /\ DOMAIN s = 1 .. Len(s)
           /\ \A i \in 1 .. Len(s) : s[i] \in SubType
BY OtlAssumption DEF ListType

\* What is assumed of the order of tags
LEMMA TagRanks ==
    /\ \A t \in Tags : TagRank[t] \in Nat
    /\ \A t, u \in Tags : TagRank[t] = TagRank[u] => t = u
    /\ \A t \in Tags : TagRank[t] <= TagRank[UNDEF]
BY OtlAssumption

\* A sort leaves the elements as they are.
LEMMA Reorders ==
    ASSUME NEW s, ListType(s), NEW key, Keys(key, Len(s)), NEW t \in Orders(s, key)
    PROVE  /\ ListType(t) /\ SameElements(s, t)
           /\ \E p : Arranges(p, s, t, key, Len(s))
<1>0. /\ Len(s) \in Nat /\ Len(s) \in 0 .. MaxSubtables /\ DOMAIN s = 1 .. Len(s)
      /\ \A i \in 1 .. Len(s) : s[i] \in SubType
  BY ListIs
<1> DEFINE n == Len(s)
<1>6. n \in 0 .. MaxSubtables /\ Len(s) = n /\ s \in [1 .. n -> SubType] /\ Keys(key, n)
  BY <1>0, LenProperties DEF ListType
<1> HIDE DEF n
<1>7. t \in [1 .. n -> SubType] /\ \E p : Arranges(p, s, t, key, n)
  BY <1>6, OrderIs
<1>8. PICK p : Arranges(p, s, t, key, n)
  BY <1>7
<1>1. /\ p \in [1 .. n -> 1 .. n]
      /\ \A i, j \in 1 .. n : p[i] = p[j] => i = j
      /\ \A j \in 1 .. n : \E i \in 1 .. n : p[i] = j
      /\ t \in [1 .. n -> SubType] /\ \A i \in 1 .. n : t[i] = s[p[i]]
      /\ \A i, j \in 1 .. n : i < j => ~Precedes(key[p[j]], key[p[i]])
  BY <1>7, <1>8 DEF Arranges
<1> USE DEF n
<1>2. t \in Seq(SubType) /\ Len(t) = n
  <2>1. t \in [1 .. n -> SubType]
    BY <1>0, <1>1
  <2>2. t \in Seq(SubType)
    BY <1>0, <2>1, SeqDef
  <2> QED
    BY <1>0, <2>1, <2>2, LenProperties
<1>3. \A i \in 1 .. n : p[i] \in 1 .. n /\ t[i] = s[p[i]]
  BY <1>1
<1>4. ListType(t)
  <2>1. \A i \in 1 .. n : t[i].offset \in 0 .. n - 1
    BY <1>3 DEF ListType
  <2>2. ASSUME NEW i \in 1 .. n, NEW j \in 1 .. n, t[i].offset = t[j].offset PROVE i = j
    <3>1. p[i] \in 1 .. n /\ p[j] \in 1 .. n /\ s[p[i]].offset = s[p[j]].offset
      BY <1>3, <2>2
    <3>2. p[i] = p[j]
      BY <3>1 DEF ListType
    <3> QED
      BY <1>1, <3>2
  <2> QED
    BY <1>0, <1>2, <2>1, <2>2 DEF ListType
<1>5. SameElements(s, t)
  BY <1>1, <1>2, <1>3 DEF SameElements
<1> QED
  BY <1>4, <1>5, <1>8


\* The keys of one subtable, and what it means that it does not follow another.
LookupKey(x) == IF IsRefLab(x.label) THEN <<2, 0, 0>>
                ELSE <<Ord(x.isFeatParam), Ord(x.feature # "aalt"), x.offset>>
ScopeKey(x) ==
    <<Ord(x.feature = STAND_ALONE), TagRank[x.script], TagRank[x.language], TagRank[x.feature]>>
FeatureKey(x) == <<Ord(x.feature = STAND_ALONE), TagRank[x.feature]>>
                 \o IF x.feature = UNDEF THEN <<0, 0>> ELSE <<x.index.feature, x.index.lookup>>
ScriptKey(x) == <<Ord(x.feature = STAND_ALONE), TagRank[x.script]>>
                \o IF x.script = UNDEF THEN <<0, 0>> ELSE <<TagRank[x.language], TagRank[x.feature]>>

LookupAtMost(x, y) ==
    \/ IsRefLab(y.label)
    \/ /\ ~IsRefLab(x.label)
       /\ AtMost3(Ord(x.isFeatParam), Ord(x.feature # "aalt"), x.offset,
                  Ord(y.isFeatParam), Ord(y.feature # "aalt"), y.offset)
ScopeAtMost(x, y) ==
    AtMost4(Ord(x.feature = STAND_ALONE), TagRank[x.script], TagRank[x.language], TagRank[x.feature],
            Ord(y.feature = STAND_ALONE), TagRank[y.script], TagRank[y.language], TagRank[y.feature])
FeatureAtMost(x, y) ==
    \/ Ord(x.feature = STAND_ALONE) < Ord(y.feature = STAND_ALONE)
    \/ /\ Ord(x.feature = STAND_ALONE) = Ord(y.feature = STAND_ALONE)
       /\ \/ TagRank[x.feature] < TagRank[y.feature]
          \/ x.feature = y.feature /\ x.feature = UNDEF
          \/ x.feature = y.feature /\ x.index.feature < y.index.feature
          \/ x.feature = y.feature /\ x.index.feature = y.index.feature
             /\ x.index.lookup <= y.index.lookup
ScriptAtMost(x, y) ==
    \/ Ord(x.feature = STAND_ALONE) < Ord(y.feature = STAND_ALONE)
    \/ /\ Ord(x.feature = STAND_ALONE) = Ord(y.feature = STAND_ALONE)
       /\ \/ TagRank[x.script] < TagRank[y.script]
          \/ x.script = y.script /\ x.script = UNDEF
          \/ x.script = y.script /\ TagRank[x.language] < TagRank[y.language]
          \/ x.script = y.script /\ TagRank[x.language] = TagRank[y.language]
             /\ TagRank[x.feature] <= TagRank[y.feature]

\* The key that LookupOrder gives a subtable compares as cmpLookupList does.
LEMMA LookupKeys ==
    ASSUME NEW x \in SubType, NEW y \in SubType
    PROVE  /\ LookupKey(x) \in [1 .. 3 -> Int]
           /\ ~Precedes(LookupKey(y), LookupKey(x)) => LookupAtMost(x, y)
<1>1. /\ Ord(x.isFeatParam) \in 0 .. 1 /\ Ord(x.feature # "aalt") \in 0 .. 1 /\ x.offset \in Int
      /\ Ord(y.isFeatParam) \in 0 .. 1 /\ Ord(y.feature # "aalt") \in 0 .. 1 /\ y.offset \in Int
  BY DEF Ord, SubType
<1> DEFINE x1 == Ord(x.isFeatParam)
           x2 == Ord(x.feature # "aalt")
           y1 == Ord(y.isFeatParam)
           y2 == Ord(y.feature # "aalt")
           xo == x.offset
           yo == y.offset
<1>2. x1 \in Int /\ x2 \in Int /\ y1 \in Int /\ y2 \in Int /\ xo \in Int /\ yo \in Int
      /\ y1 < 2 /\ 0 \in Int /\ 2 \in Int
  BY <1>1
<1>3. /\ LookupKey(x) = IF IsRefLab(x.label) THEN <<2, 0, 0>> ELSE <<x1, x2, xo>>
      /\ LookupKey(y) = IF IsRefLab(y.label) THEN <<2, 0, 0>> ELSE <<y1, y2, yo>>
      /\ LookupAtMost(x, y) <=> IsRefLab(y.label) \/ (~IsRefLab(x.label) /\ AtMost3(x1, x2, xo, y1, y2, yo))
  BY DEF LookupKey, LookupAtMost
<1> HIDE DEF x1, x2, y1, y2, xo, yo
<1>4. /\ <<2, 0, 0>> \in [1 .. 3 -> Int] /\ <<x1, x2, xo>> \in [1 .. 3 -> Int]
      /\ ~Precedes(<<y1, y2, yo>>, <<2, 0, 0>>) => AtMost3(2, 0, 0, y1, y2, yo)
      /\ ~Precedes(<<y1, y2, yo>>, <<x1, x2, xo>>) => AtMost3(x1, x2, xo, y1, y2, yo)
  BY <1>2, KeyOf3
<1>5. ~AtMost3(2, 0, 0, y1, y2, yo)
  BY <1>2 DEF AtMost3
<1> QED
  BY <1>3, <1>4, <1>5

\* The key that ScopeOrder gives a subtable compares as cmpFeatTmp does.
LEMMA ScopeKeys ==
    ASSUME NEW x \in SubType, NEW y \in SubType
    PROVE  /\ ScopeKey(x) \in [1 .. 4 -> Int]
           /\ ~Precedes(ScopeKey(y), ScopeKey(x)) => ScopeAtMost(x, y)
<1>1. /\ Ord(x.feature = STAND_ALONE) \in Int /\ Ord(y.feature = STAND_ALONE) \in Int
      /\ TagRank[x.script] \in Int /\ TagRank[x.language] \in Int /\ TagRank[x.feature] \in Int
      /\ TagRank[y.script] \in Int /\ TagRank[y.language] \in Int /\ TagRank[y.feature] \in Int
  BY TagRanks DEF Ord, SubType
<1> QED
  BY <1>1, KeyOf4 DEF ScopeKey, ScopeAtMost

\* The key that FeatureOrder gives a subtable compares as cmpFeatureList does.
LEMMA FeatureKeys ==
    ASSUME NEW x \in SubType, NEW y \in SubType
    PROVE  /\ FeatureKey(x) \in [1 .. 4 -> Int]
           /\ ~Precedes(FeatureKey(y), FeatureKey(x)) => FeatureAtMost(x, y)
<1> DEFINE x1 == Ord(x.feature = STAND_ALONE)
           y1 == Ord(y.feature = STAND_ALONE)
           x2 == TagRank[x.feature]
           y2 == TagRank[y.feature]
           x3 == IF x.feature = UNDEF THEN 0 ELSE x.index.feature
           y3 == IF y.feature = UNDEF THEN 0 ELSE y.index.feature
           x4 == IF x.feature = UNDEF THEN 0 ELSE x.index.lookup
           y4 == IF y.feature = UNDEF THEN 0 ELSE y.index.lookup
<1>1. x1 \in Int /\ x2 \in Int /\ y1 \in Int /\ y2 \in Int
  BY TagRanks DEF Ord, SubType
<1>2. x3 \in Int /\ x4 \in Int /\ y3 \in Int /\ y4 \in Int
  BY DEF SubType
<1>3. FeatureKey(x) = <<x1, x2>> \o <<x3, x4>> /\ FeatureKey(y) = <<y1, y2>> \o <<y3, y4>>
  <2>1. FeatureKey(x) = <<x1, x2>> \o <<x3, x4>>
    <3>1. CASE x.feature = UNDEF
      BY <3>1 DEF FeatureKey
    <3>2. CASE x.feature # UNDEF
      BY <3>2 DEF FeatureKey
    <3> QED
      BY <3>1, <3>2
  <2>2. FeatureKey(y) = <<y1, y2>> \o <<y3, y4>>
    <3>1. CASE y.feature = UNDEF
      BY <3>1 DEF FeatureKey
    <3>2. CASE y.feature # UNDEF
      BY <3>2 DEF FeatureKey
    <3> QED
      BY <3>1, <3>2
  <2> QED
    BY <2>1, <2>2
<1>4. AtMost4(x1, x2, x3, x4, y1, y2, y3, y4) => FeatureAtMost(x, y)
  <2>1. x2 = y2 => x.feature = y.feature
    BY TagRanks DEF SubType
  <2>2. AtMost4(x1, x2, x3, x4, y1, y2, y3, y4)
        => \/ x1 < y1
           \/ x1 = y1 /\ x2 < y2
           \/ x1 = y1 /\ x2 = y2 /\ x3 < y3
           \/ x1 = y1 /\ x2 = y2 /\ x3 = y3 /\ x4 <= y4
    BY DEF AtMost3, AtMost4
  <2>3. CASE x1 < y1
    BY <2>3 DEF FeatureAtMost
  <2>4. CASE x1 = y1 /\ x2 < y2
    BY <2>4 DEF FeatureAtMost
  <2>5. CASE x1 = y1 /\ x2 = y2 /\ x3 < y3
    BY <2>1, <2>5 DEF FeatureAtMost
  <2>6. CASE x1 = y1 /\ x2 = y2 /\ x3 = y3 /\ x4 <= y4
    BY <2>1, <2>6 DEF FeatureAtMost
  <2> QED
    BY <2>2, <2>3, <2>4, <2>5, <2>6
<1> HIDE DEF x1, x2, x3, x4, y1, y2, y3, y4
<1>5. /\ <<x1, x2, x3, x4>> \in [1 .. 4 -> Int]
      /\ ~Precedes(<<y1, y2, y3, y4>>, <<x1, x2, x3, x4>>)
         => AtMost4(x1, x2, x3, x4, y1, y2, y3, y4)
  BY <1>1, <1>2, KeyOf4
<1>6. /\ <<x1, x2>> \o <<x3, x4>> = <<x1, x2, x3, x4>>
      /\ <<y1, y2>> \o <<y3, y4>> = <<y1, y2, y3, y4>>
  BY <1>1, <1>2, Concat
<1>7. FeatureKey(x) = <<x1, x2, x3, x4>> /\ FeatureKey(y) = <<y1, y2, y3, y4>>
  BY <1>3, <1>6, Zenon
<1> QED
  BY <1>4, <1>5, <1>7, Zenon

\* The key that ScriptOrder gives a subtable compares as cmpScriptList does.
LEMMA ScriptKeys ==
    ASSUME NEW x \in SubType, NEW y \in SubType
    PROVE  /\ ScriptKey(x) \in [1 .. 4 -> Int]
           /\ ~Precedes(ScriptKey(y), ScriptKey(x)) => ScriptAtMost(x, y)
<1> DEFINE x1 == Ord(x.feature = STAND_ALONE)
           y1 == Ord(y.feature = STAND_ALONE)
           x2 == TagRank[x.script]
           y2 == TagRank[y.script]
           x3 == IF x.script = UNDEF THEN 0 ELSE TagRank[x.language]
           y3 == IF y.script = UNDEF THEN 0 ELSE TagRank[y.language]
           x4 == IF x.script = UNDEF THEN 0 ELSE TagRank[x.feature]
           y4 == IF y.script = UNDEF THEN 0 ELSE TagRank[y.feature]
<1>1. x1 \in Int /\ x2 \in Int /\ y1 \in Int /\ y2 \in Int
  BY TagRanks DEF Ord, SubType
<1>2. x3 \in Int /\ x4 \in Int /\ y3 \in Int /\ y4 \in Int
  BY TagRanks DEF SubType
<1>3. ScriptKey(x) = <<x1, x2>> \o <<x3, x4>> /\ ScriptKey(y) = <<y1, y2>> \o <<y3, y4>>
  <2>1. ScriptKey(x) = <<x1, x2>> \o <<x3, x4>>
    <3>1. CASE x.script = UNDEF
      BY <3>1 DEF ScriptKey
    <3>2. CASE x.script # UNDEF
      BY <3>2 DEF ScriptKey
    <3> QED
      BY <3>1, <3>2
  <2>2. ScriptKey(y) = <<y1, y2>> \o <<y3, y4>>
    <3>1. CASE y.script = UNDEF
      BY <3>1 DEF ScriptKey
    <3>2. CASE y.script # UNDEF
      BY <3>2 DEF ScriptKey
    <3> QED
      BY <3>1, <3>2
  <2> QED
    BY <2>1, <2>2
<1>4. AtMost4(x1, x2, x3, x4, y1, y2, y3, y4) => ScriptAtMost(x, y)
  <2>1. x2 = y2 => x.script = y.script
    BY TagRanks DEF SubType
  <2>2. AtMost4(x1, x2, x3, x4, y1, y2, y3, y4)
        => \/ x1 < y1
           \/ x1 = y1 /\ x2 < y2
           \/ x1 = y1 /\ x2 = y2 /\ x3 < y3
           \/ x1 = y1 /\ x2 = y2 /\ x3 = y3 /\ x4 <= y4
    BY DEF AtMost3, AtMost4
  <2>3. CASE x1 < y1
    BY <2>3 DEF ScriptAtMost
  <2>4. CASE x1 = y1 /\ x2 < y2
    BY <2>4 DEF ScriptAtMost
  <2>5. CASE x1 = y1 /\ x2 = y2 /\ x3 < y3
    BY <2>1, <2>5 DEF ScriptAtMost
  <2>6. CASE x1 = y1 /\ x2 = y2 /\ x3 = y3 /\ x4 <= y4
    BY <2>1, <2>6 DEF ScriptAtMost
  <2> QED
    BY <2>2, <2>3, <2>4, <2>5, <2>6
<1> HIDE DEF x1, x2, x3, x4, y1, y2, y3, y4
<1>5. /\ <<x1, x2, x3, x4>> \in [1 .. 4 -> Int]
      /\ ~Precedes(<<y1, y2, y3, y4>>, <<x1, x2, x3, x4>>)
         => AtMost4(x1, x2, x3, x4, y1, y2, y3, y4)
  BY <1>1, <1>2, KeyOf4
<1>6. /\ <<x1, x2>> \o <<x3, x4>> = <<x1, x2, x3, x4>>
      /\ <<y1, y2>> \o <<y3, y4>> = <<y1, y2, y3, y4>>
  BY <1>1, <1>2, Concat
<1>7. ScriptKey(x) = <<x1, x2, x3, x4>> /\ ScriptKey(y) = <<y1, y2, y3, y4>>
  BY <1>3, <1>6, Zenon
<1> QED
  BY <1>4, <1>5, <1>7, Zenon


\* s is in the order of cmpLookupList, cmpFeatTmp, cmpFeatureList and cmpScriptList.
InLookupOrder(s) == \A i, j \in 1 .. Len(s) : i < j => LookupAtMost(s[i], s[j])
InScopeOrder(s) == \A i, j \in 1 .. Len(s) : i < j => ScopeAtMost(s[i], s[j])
InFeatureOrder(s) == \A i, j \in 1 .. Len(s) : i < j => FeatureAtMost(s[i], s[j])
InScriptOrder(s) == \A i, j \in 1 .. Len(s) : i < j => ScriptAtMost(s[i], s[j])

\* What the sorts by these comparisons leave; the one by lookups always leaves something.
LEMMA SortsByLookup ==
    ASSUME NEW s, ListType(s)
    PROVE  /\ Orders(s, LookupOrder(s)) # {}
           /\ \A t \in Orders(s, LookupOrder(s)) :
                 ListType(t) /\ SameElements(s, t) /\ InLookupOrder(t)
<1> DEFINE key == LookupOrder(s)
           n == Len(s)
<1>0. n \in Nat /\ n \in 0 .. MaxSubtables /\ DOMAIN s = 1 .. n /\ \A i \in 1 .. n : s[i] \in SubType
  BY ListIs
<1>1. key = [i \in 1 .. n |-> LookupKey(s[i])]
  BY <1>0 DEF LookupOrder, LookupKey
<1>2. \A i \in 1 .. n : key[i] = LookupKey(s[i])
  BY <1>1
<1>3. Keys(key, n)
  <2>1. key \in [1 .. n -> [1 .. 3 -> Int]]
    BY <1>0, <1>1, LookupKeys
  <2>2. 3 \in Nat
    OBVIOUS
  <2> HIDE DEF key
  <2> QED
    BY <2>1, <2>2 DEF Keys
<1>4. key = LookupOrder(s)
  OBVIOUS
<1> HIDE DEF key
<1>5. Orders(s, key) # {}
  BY <1>0, <1>3, OrderExists
<1>6. ASSUME NEW t \in Orders(s, key)
      PROVE  ListType(t) /\ SameElements(s, t) /\ InLookupOrder(t)
  <2>1. ListType(t) /\ SameElements(s, t) /\ \E p : Arranges(p, s, t, key, n)
    BY <1>3, Reorders
  <2>2. PICK p : Arranges(p, s, t, key, n)
    BY <2>1
  <2>3. ASSUME NEW i \in 1 .. n, NEW j \in 1 .. n, i < j PROVE LookupAtMost(t[i], t[j])
    <3>1. /\ p[i] \in 1 .. n /\ p[j] \in 1 .. n /\ t[i] = s[p[i]] /\ t[j] = s[p[j]]
          /\ ~Precedes(key[p[j]], key[p[i]])
      BY <2>2, <2>3 DEF Arranges
    <3>2. s[p[i]] \in SubType /\ s[p[j]] \in SubType
      BY <1>0, <3>1
    <3>3. ~Precedes(LookupKey(s[p[j]]), LookupKey(s[p[i]]))
      BY <1>2, <3>1
    <3> QED
      BY <3>1, <3>2, <3>3, LookupKeys
  <2> QED
    BY <2>1, <2>3 DEF InLookupOrder, SameElements
<1> QED
  BY <1>4, <1>5, <1>6, Zenon

\* qsort with cmpFeatTmp leaves the same elements in the order of their scopes.
LEMMA SortsByScope ==
    ASSUME NEW s, ListType(s)
    PROVE  \A t \in Orders(s, ScopeOrder(s)) :
              ListType(t) /\ SameElements(s, t) /\ InScopeOrder(t)
<1> DEFINE key == ScopeOrder(s)
           n == Len(s)
<1>0. n \in Nat /\ n \in 0 .. MaxSubtables /\ DOMAIN s = 1 .. n /\ \A i \in 1 .. n : s[i] \in SubType
  BY ListIs
<1>1. key = [i \in 1 .. n |-> ScopeKey(s[i])]
  BY <1>0 DEF ScopeOrder, ScopeKey
<1>2. \A i \in 1 .. n : key[i] = ScopeKey(s[i])
  BY <1>1
<1>3. Keys(key, n)
  <2>1. key \in [1 .. n -> [1 .. 4 -> Int]]
    BY <1>0, <1>1, ScopeKeys
  <2>2. 4 \in Nat
    OBVIOUS
  <2> HIDE DEF key
  <2> QED
    BY <2>1, <2>2 DEF Keys
<1>4. key = ScopeOrder(s)
  OBVIOUS
<1> HIDE DEF key
<1>5. ASSUME NEW t \in Orders(s, key)
      PROVE  ListType(t) /\ SameElements(s, t) /\ InScopeOrder(t)
  <2>1. ListType(t) /\ SameElements(s, t) /\ \E p : Arranges(p, s, t, key, n)
    BY <1>3, Reorders
  <2>2. PICK p : Arranges(p, s, t, key, n)
    BY <2>1
  <2>3. ASSUME NEW i \in 1 .. n, NEW j \in 1 .. n, i < j PROVE ScopeAtMost(t[i], t[j])
    <3>1. /\ p[i] \in 1 .. n /\ p[j] \in 1 .. n /\ t[i] = s[p[i]] /\ t[j] = s[p[j]]
          /\ ~Precedes(key[p[j]], key[p[i]])
      BY <2>2, <2>3 DEF Arranges
    <3>2. s[p[i]] \in SubType /\ s[p[j]] \in SubType
      BY <1>0, <3>1
    <3>3. ~Precedes(ScopeKey(s[p[j]]), ScopeKey(s[p[i]]))
      BY <1>2, <3>1
    <3> QED
      BY <3>1, <3>2, <3>3, ScopeKeys
  <2> QED
    BY <2>1, <2>3 DEF InScopeOrder, SameElements
<1> QED
  BY <1>4, <1>5, Zenon

\* qsort with cmpFeatureList leaves the same elements in the order of tags and indexes.
LEMMA SortsByFeature ==
    ASSUME NEW s, ListType(s)
    PROVE  \A t \in Orders(s, FeatureOrder(s)) :
              ListType(t) /\ SameElements(s, t) /\ InFeatureOrder(t)
<1> DEFINE key == FeatureOrder(s)
           n == Len(s)
<1>0. n \in Nat /\ n \in 0 .. MaxSubtables /\ DOMAIN s = 1 .. n /\ \A i \in 1 .. n : s[i] \in SubType
  BY ListIs
<1>1. key = [i \in 1 .. n |-> FeatureKey(s[i])]
  BY <1>0 DEF FeatureOrder, FeatureKey
<1>2. \A i \in 1 .. n : key[i] = FeatureKey(s[i])
  BY <1>1
<1>3. Keys(key, n)
  <2>1. key \in [1 .. n -> [1 .. 4 -> Int]]
    BY <1>0, <1>1, FeatureKeys
  <2>2. 4 \in Nat
    OBVIOUS
  <2> HIDE DEF key
  <2> QED
    BY <2>1, <2>2 DEF Keys
<1>4. key = FeatureOrder(s)
  OBVIOUS
<1> HIDE DEF key
<1>5. ASSUME NEW t \in Orders(s, key)
      PROVE  ListType(t) /\ SameElements(s, t) /\ InFeatureOrder(t)
  <2>1. ListType(t) /\ SameElements(s, t) /\ \E p : Arranges(p, s, t, key, n)
    BY <1>3, Reorders
  <2>2. PICK p : Arranges(p, s, t, key, n)
    BY <2>1
  <2>3. ASSUME NEW i \in 1 .. n, NEW j \in 1 .. n, i < j PROVE FeatureAtMost(t[i], t[j])
    <3>1. /\ p[i] \in 1 .. n /\ p[j] \in 1 .. n /\ t[i] = s[p[i]] /\ t[j] = s[p[j]]
          /\ ~Precedes(key[p[j]], key[p[i]])
      BY <2>2, <2>3 DEF Arranges
    <3>2. s[p[i]] \in SubType /\ s[p[j]] \in SubType
      BY <1>0, <3>1
    <3>3. ~Precedes(FeatureKey(s[p[j]]), FeatureKey(s[p[i]]))
      BY <1>2, <3>1
    <3> QED
      BY <3>1, <3>2, <3>3, FeatureKeys
  <2> QED
    BY <2>1, <2>3 DEF InFeatureOrder, SameElements
<1> QED
  BY <1>4, <1>5, Zenon

\* qsort with cmpScriptList leaves the same elements in the order of language systems.
LEMMA SortsByScript ==
    ASSUME NEW s, ListType(s)
    PROVE  \A t \in Orders(s, ScriptOrder(s)) :
              ListType(t) /\ SameElements(s, t) /\ InScriptOrder(t)
<1> DEFINE key == ScriptOrder(s)
           n == Len(s)
<1>0. n \in Nat /\ n \in 0 .. MaxSubtables /\ DOMAIN s = 1 .. n /\ \A i \in 1 .. n : s[i] \in SubType
  BY ListIs
<1>1. key = [i \in 1 .. n |-> ScriptKey(s[i])]
  BY <1>0 DEF ScriptOrder, ScriptKey
<1>2. \A i \in 1 .. n : key[i] = ScriptKey(s[i])
  BY <1>1
<1>3. Keys(key, n)
  <2>1. key \in [1 .. n -> [1 .. 4 -> Int]]
    BY <1>0, <1>1, ScriptKeys
  <2>2. 4 \in Nat
    OBVIOUS
  <2> HIDE DEF key
  <2> QED
    BY <2>1, <2>2 DEF Keys
<1>4. key = ScriptOrder(s)
  OBVIOUS
<1> HIDE DEF key
<1>5. ASSUME NEW t \in Orders(s, key)
      PROVE  ListType(t) /\ SameElements(s, t) /\ InScriptOrder(t)
  <2>1. ListType(t) /\ SameElements(s, t) /\ \E p : Arranges(p, s, t, key, n)
    BY <1>3, Reorders
  <2>2. PICK p : Arranges(p, s, t, key, n)
    BY <2>1
  <2>3. ASSUME NEW i \in 1 .. n, NEW j \in 1 .. n, i < j PROVE ScriptAtMost(t[i], t[j])
    <3>1. /\ p[i] \in 1 .. n /\ p[j] \in 1 .. n /\ t[i] = s[p[i]] /\ t[j] = s[p[j]]
          /\ ~Precedes(key[p[j]], key[p[i]])
      BY <2>2, <2>3 DEF Arranges
    <3>2. s[p[i]] \in SubType /\ s[p[j]] \in SubType
      BY <1>0, <3>1
    <3>3. ~Precedes(ScriptKey(s[p[j]]), ScriptKey(s[p[i]]))
      BY <1>2, <3>1
    <3> QED
      BY <3>1, <3>2, <3>3, ScriptKeys
  <2> QED
    BY <2>1, <2>3 DEF InScriptOrder, SameElements
<1> QED
  BY <1>4, <1>5, Zenon

-----------------------------------------------------------------------------
(* The elements of a list, in whatever order *)

Elements(s) == {s[i] : i \in 1 .. Len(s)}

\* A sort leaves the set of elements as it is.
LEMMA ElementsOfSame ==
    ASSUME NEW s, NEW t, Len(s) \in Nat, SameElements(s, t)
    PROVE  Elements(t) = Elements(s)
<1>1. /\ Len(t) = Len(s)
      /\ \A i \in 1 .. Len(s) : \E j \in 1 .. Len(s) : t[j] = s[i]
      /\ \A j \in 1 .. Len(s) : \E i \in 1 .. Len(s) : t[j] = s[i]
  BY DEF SameElements
<1>2. ASSUME NEW x \in Elements(t) PROVE x \in Elements(s)
  <2>1. PICK j \in 1 .. Len(s) : x = t[j]
    BY <1>1 DEF Elements
  <2> QED
    BY <1>1, <2>1 DEF Elements
<1>3. ASSUME NEW x \in Elements(s) PROVE x \in Elements(t)
  <2>1. PICK i \in 1 .. Len(s) : x = s[i]
    BY DEF Elements
  <2> QED
    BY <1>1, <2>1 DEF Elements
<1> QED
  BY <1>2, <1>3

\* An element is counted once, since no two have the same offset.
LEMMA CountOf ==
    ASSUME NEW s, ListType(s), NEW E, E \subseteq Elements(s)
    PROVE  IsFiniteSet(E) /\ Cardinality(E) = Cardinality({i \in 1 .. Len(s) : s[i] \in E})
<1>0. Len(s) \in Nat /\ \A i, j \in 1 .. Len(s) : s[i].offset = s[j].offset => i = j
  <2>1. Len(s) \in Nat
    BY ListIs
  <2> QED
    BY <2>1 DEF ListType
<1> DEFINE I == {i \in 1 .. Len(s) : s[i] \in E}
           f == [i \in I |-> s[i]]
<1>1. IsFiniteSet(I)
  <2>1. IsFiniteSet(1 .. Len(s)) /\ I \subseteq 1 .. Len(s)
    BY <1>0, FS_Interval
  <2> QED
    BY <2>1, FS_Subset
<1>2. f \in [I -> E]
  OBVIOUS
<1>3. \A i, j \in I : f[i] = f[j] => i = j
  BY <1>0
<1>4. \A x \in E : \E i \in I : f[i] = x
  BY DEF Elements
<1> QED
  <2> HIDE DEF I, f
  <2>1. IsFiniteSet(E) /\ Cardinality(E) = Cardinality(I)
    BY <1>1, <1>2, <1>3, <1>4, SameCount
  <2> QED
    BY <2>1 DEF I

SameCounters(s, t) ==
    /\ nRefLookups(t) = nRefLookups(s) /\ nFeatParams(t) = nFeatParams(s)
    /\ nAnonSubtables(t) = nAnonSubtables(s) /\ nStandAlone(t) = nStandAlone(s)

\* The counters are numbers of elements.
LEMMA CountersOf ==
    ASSUME NEW s, ListType(s)
    PROVE  /\ nRefLookups(s) = Cardinality({x \in Elements(s) : IsRefLab(x.label)})
           /\ nFeatParams(s) = Cardinality({x \in Elements(s) : x.isFeatParam /\ ~IsRefLab(x.label)})
           /\ nAnonSubtables(s) = Cardinality({x \in Elements(s) : x.script = UNDEF})
           /\ nStandAlone(s) = Cardinality({x \in Elements(s) : x.feature = STAND_ALONE})
<1>0. DOMAIN s = 1 .. Len(s) /\ \A i \in 1 .. Len(s) : s[i] \in Elements(s)
  BY ListIs DEF Elements
<1>1. nRefLookups(s) = Cardinality({x \in Elements(s) : IsRefLab(x.label)})
  <2> DEFINE E == {x \in Elements(s) : IsRefLab(x.label)}
  <2>1. Cardinality(E) = Cardinality({i \in 1 .. Len(s) : s[i] \in E})
    <3>1. E \subseteq Elements(s)
      OBVIOUS
    <3> HIDE DEF E
    <3> QED
      BY <3>1, CountOf
  <2>2. {i \in 1 .. Len(s) : s[i] \in E} = {i \in DOMAIN s : IsRefLab(s[i].label)}
    BY <1>0
  <2> QED
    BY <2>1, <2>2 DEF nRefLookups
<1>2. nFeatParams(s) = Cardinality({x \in Elements(s) : x.isFeatParam /\ ~IsRefLab(x.label)})
  <2> DEFINE E == {x \in Elements(s) : x.isFeatParam /\ ~IsRefLab(x.label)}
  <2>1. Cardinality(E) = Cardinality({i \in 1 .. Len(s) : s[i] \in E})
    <3>1. E \subseteq Elements(s)
      OBVIOUS
    <3> HIDE DEF E
    <3> QED
      BY <3>1, CountOf
  <2>2. {i \in 1 .. Len(s) : s[i] \in E} = {i \in DOMAIN s : s[i].isFeatParam /\ ~IsRefLab(s[i].label)}
    BY <1>0
  <2> QED
    BY <2>1, <2>2 DEF nFeatParams
<1>3. nAnonSubtables(s) = Cardinality({x \in Elements(s) : x.script = UNDEF})
  <2> DEFINE E == {x \in Elements(s) : x.script = UNDEF}
  <2>1. Cardinality(E) = Cardinality({i \in 1 .. Len(s) : s[i] \in E})
    <3>1. E \subseteq Elements(s)
      OBVIOUS
    <3> HIDE DEF E
    <3> QED
      BY <3>1, CountOf
  <2>2. {i \in 1 .. Len(s) : s[i] \in E} = {i \in DOMAIN s : s[i].script = UNDEF}
    BY <1>0
  <2> QED
    BY <2>1, <2>2 DEF nAnonSubtables
<1>4. nStandAlone(s) = Cardinality({x \in Elements(s) : x.feature = STAND_ALONE})
  <2> DEFINE E == {x \in Elements(s) : x.feature = STAND_ALONE}
  <2>1. Cardinality(E) = Cardinality({i \in 1 .. Len(s) : s[i] \in E})
    <3>1. E \subseteq Elements(s)
      OBVIOUS
    <3> HIDE DEF E
    <3> QED
      BY <3>1, CountOf
  <2>2. {i \in 1 .. Len(s) : s[i] \in E} = {i \in DOMAIN s : s[i].feature = STAND_ALONE}
    BY <1>0
  <2> QED
    BY <2>1, <2>2 DEF nStandAlone
<1> QED
  BY <1>1, <1>2, <1>3, <1>4, Zenon

\* Lists with the same elements have the same counters.
LEMMA SameCountersIfSame ==
    ASSUME NEW s, ListType(s), NEW t, ListType(t), Elements(t) = Elements(s)
    PROVE  SameCounters(s, t)
<1>1. /\ nRefLookups(t) = nRefLookups(s) /\ nFeatParams(t) = nFeatParams(s)
      /\ nAnonSubtables(t) = nAnonSubtables(s) /\ nStandAlone(t) = nStandAlone(s)
  BY CountersOf
<1> QED
  BY <1>1 DEF SameCounters

-----------------------------------------------------------------------------
(* What the client adds *)

\* The arithmetic of labels, for the labels that the feature compiler hands out
LEMMA LabelNumbers ==
    ASSUME NEW lab \in Label, BaseLab(lab) <= FEAT_ANON_LKP_END
    PROVE  /\ BaseLab(lab) \in Nat /\ BaseLab(lab) \in Label
           /\ BaseLab(BaseLab(lab)) = BaseLab(lab) /\ ~IsRefLab(BaseLab(lab))
           /\ ~IsRefLab(lab) => BaseLab(lab) = lab /\ RefLab(lab) = lab + REF_LAB
           /\ IsRefLab(lab) => lab = RefLab(BaseLab(lab)) /\ lab # BaseLab(lab)
           /\ RefLab(lab) \in Label /\ IsRefLab(RefLab(lab)) /\ BaseLab(RefLab(lab)) = BaseLab(lab)
<1>1. /\ REF_LAB \in Nat /\ FEAT_ANON_LKP_END \in Nat /\ FEAT_ANON_LKP_END < REF_LAB - 1
      /\ lab \in 0 .. 2 * REF_LAB - 1
  BY LabelAssumption DEF Label, LAB_UNDEF
<1> QED
  BY <1>1 DEF BaseLab, RefLab, IsRefLab, LAB_UNDEF, Label

\* Regular, stand-alone and anonymous subtables are told apart by their tags.
LEMMA Classes ==
    ASSUME NEW x, Scope(x) \in Regular \cup {Alone, Anonymous}
    PROVE  /\ Scope(x) = Alone <=> x.feature = STAND_ALONE
           /\ Scope(x) = Anonymous <=> x.script = UNDEF
           /\ Scope(x) = Anonymous <=> x.feature = UNDEF
           /\ Scope(x) \in Regular <=> Scope(x) # Alone /\ Scope(x) # Anonymous
           /\ Scope(x) = Alone => x.script = STAND_ALONE
<1>1. /\ Scope(x) = <<x.script, x.language, x.feature>>
      /\ \A s \in Regular : {s[1], s[2], s[3]} \cap {STAND_ALONE, UNDEF} = {}
  BY OtlAssumption DEF Scope
<1>2. Alone[1] = "STAND_ALONE" /\ Alone[3] = "STAND_ALONE" /\ Anonymous[1] = "UNDEF" /\ Anonymous[3] = "UNDEF"
  BY DEF Alone, Anonymous, STAND_ALONE, UNDEF
<1>3. Scope(x)[1] = x.script /\ Scope(x)[3] = x.feature /\ "STAND_ALONE" # "UNDEF"
  BY DEF Scope
<1>4. STAND_ALONE = "STAND_ALONE" /\ UNDEF = "UNDEF"
  BY DEF STAND_ALONE, UNDEF
<1> HIDE DEF Alone, Anonymous, Scope
<1>5. Scope(x) = Alone => x.feature = "STAND_ALONE" /\ x.script = "STAND_ALONE"
  BY <1>2, <1>3
<1>6. Scope(x) = Anonymous => x.feature = "UNDEF" /\ x.script = "UNDEF"
  BY <1>2, <1>3
<1>7. Scope(x) \in Regular => x.script \notin {"STAND_ALONE", "UNDEF"} /\ x.feature \notin {"STAND_ALONE", "UNDEF"}
  BY <1>1, <1>3, <1>4
<1> QED
  BY <1>3, <1>4, <1>5, <1>6, <1>7

\* The feature compiler hands out labels in order and no reference before the lookup.
\* Only stand-alone and anonymous lookups are registered under no feature, those being no
\* references and no parameters.  A label stands for one lookup.
Client(E) ==
    /\ \A x \in E : /\ BaseLab(x.label) =< FEAT_ANON_LKP_END
                    /\ Scope(x) \in Regular \cup {Alone, Anonymous}
                    /\ IsRefLab(x.label) \/ x.isFeatParam => Scope(x) \in Regular
    /\ \A x, y \in E : BaseLab(x.label) = BaseLab(y.label) =>
          /\ x.isFeatParam <=> y.isFeatParam
          /\ x.isFeatParam => x.feature = y.feature
          /\ ~IsRefLab(x.label) /\ ~IsRefLab(y.label) => Scope(x) = Scope(y)
    /\ \A x, y \in E : x.isFeatParam /\ y.isFeatParam /\ Scope(x) = Scope(y) => x.label = y.label
    /\ \A x, y \in E : x.script = UNDEF /\ x.offset < y.offset => y.script = UNDEF

SameCore(x, y) ==
    /\ y.script = x.script /\ y.language = x.language /\ y.feature = x.feature
    /\ y.label = x.label /\ y.isFeatParam = x.isFeatParam /\ y.offset = x.offset

\* The indexes are no concern of the client's.
LEMMA ClientOfCores ==
    ASSUME NEW E, Client(E), NEW F, \A y \in F : \E x \in E : SameCore(x, y)
    PROVE  Client(F)
<1>1. ASSUME NEW y \in F
      PROVE  /\ BaseLab(y.label) =< FEAT_ANON_LKP_END
             /\ Scope(y) \in Regular \cup {Alone, Anonymous}
             /\ IsRefLab(y.label) \/ y.isFeatParam => Scope(y) \in Regular
  <2>1. PICK x \in E : SameCore(x, y)
    OBVIOUS
  <2>2. Scope(y) = Scope(x) /\ y.label = x.label /\ y.isFeatParam = x.isFeatParam
    BY <2>1 DEF SameCore, Scope
  <2> QED
    BY <2>2 DEF Client
<1>2. ASSUME NEW y \in F, NEW z \in F
      PROVE  /\ BaseLab(y.label) = BaseLab(z.label) =>
                   /\ y.isFeatParam <=> z.isFeatParam
                   /\ y.isFeatParam => y.feature = z.feature
                   /\ ~IsRefLab(y.label) /\ ~IsRefLab(z.label) => Scope(y) = Scope(z)
             /\ y.isFeatParam /\ z.isFeatParam /\ Scope(y) = Scope(z) => y.label = z.label
             /\ y.script = UNDEF /\ y.offset < z.offset => z.script = UNDEF
  <2>1. PICK x \in E : SameCore(x, y)
    OBVIOUS
  <2>2. PICK w \in E : SameCore(w, z)
    OBVIOUS
  <2>3. /\ Scope(y) = Scope(x) /\ y.label = x.label /\ y.isFeatParam = x.isFeatParam
        /\ y.feature = x.feature /\ y.script = x.script /\ y.offset = x.offset
    BY <2>1 DEF SameCore, Scope
  <2>4. /\ Scope(z) = Scope(w) /\ z.label = w.label /\ z.isFeatParam = w.isFeatParam
        /\ z.feature = w.feature /\ z.script = w.script /\ z.offset = w.offset
    BY <2>2 DEF SameCore, Scope
  <2> HIDE DEF Scope
  <2>5. BaseLab(x.label) = BaseLab(w.label) =>
            /\ x.isFeatParam <=> w.isFeatParam
            /\ x.isFeatParam => x.feature = w.feature
            /\ ~IsRefLab(x.label) /\ ~IsRefLab(w.label) => Scope(x) = Scope(w)
    BY Zenon DEF Client
  <2>6. x.isFeatParam /\ w.isFeatParam /\ Scope(x) = Scope(w) => x.label = w.label
    BY Zenon DEF Client
  <2>7. x.script = UNDEF /\ x.offset < w.offset => w.script = UNDEF
    BY Zenon DEF Client
  <2> QED
    BY <2>3, <2>4, <2>5, <2>6, <2>7, Zenon
<1> QED
  BY <1>1, <1>2, Zenon DEF Client

\* Each element is in both lists, up to its indexes and in the same place.
SameCores(s, t) ==
    Len(t) = Len(s) /\ \A i \in 1 .. Len(s) : SameCore(s[i], t[i])

\* Setting indexes leaves a list of distinct subtables, the counters and what the client added.
LEMMA CoresKeep ==
    ASSUME NEW s, ListType(s), NEW t, t \in Seq(SubType), SameCores(s, t)
    PROVE  /\ ListType(t) /\ SameCounters(s, t)
           /\ Client(Elements(s)) => Client(Elements(t))
<1>0. Len(s) \in Nat /\ DOMAIN s = 1 .. Len(s) /\ DOMAIN t = 1 .. Len(s) /\ Len(t) = Len(s)
  BY ListIs DEF SameCores
<1>1. \A i \in 1 .. Len(s) : SameCore(s[i], t[i])
  BY DEF SameCores
<1>2. ListType(t)
  BY <1>0, <1>1 DEF ListType, SameCore
<1>3. SameCounters(s, t)
  <2>1. {i \in DOMAIN t : IsRefLab(t[i].label)} = {i \in DOMAIN s : IsRefLab(s[i].label)}
    BY <1>0, <1>1 DEF SameCore
  <2>2. {i \in DOMAIN t : t[i].isFeatParam /\ ~IsRefLab(t[i].label)}
        = {i \in DOMAIN s : s[i].isFeatParam /\ ~IsRefLab(s[i].label)}
    BY <1>0, <1>1 DEF SameCore
  <2>3. {i \in DOMAIN t : t[i].script = UNDEF} = {i \in DOMAIN s : s[i].script = UNDEF}
    BY <1>0, <1>1 DEF SameCore
  <2>4. {i \in DOMAIN t : t[i].feature = STAND_ALONE} = {i \in DOMAIN s : s[i].feature = STAND_ALONE}
    BY <1>0, <1>1 DEF SameCore
  <2> QED
    BY <2>1, <2>2, <2>3, <2>4, Zenon
       DEF SameCounters, nRefLookups, nFeatParams, nAnonSubtables, nStandAlone
<1>4. ASSUME NEW y \in Elements(t) PROVE \E x \in Elements(s) : SameCore(x, y)
  <2>1. PICK i \in 1 .. Len(s) : y = t[i]
    BY <1>0 DEF Elements
  <2>2. s[i] \in Elements(s) /\ SameCore(s[i], y)
    BY <1>1, <2>1 DEF Elements
  <2> QED
    BY <2>2
<1> QED
  BY <1>2, <1>3, <1>4, ClientOfCores

-----------------------------------------------------------------------------
(* While the client adds subtables *)

InAddingOrder(s) == \A i \in 1 .. Len(s) : s[i].offset = i - 1

\* Labels are handed out one after the other.
LabelsInUse(E) == \E k \in Nat : {BaseLab(x.label) : x \in E} = 0 .. k - 1

\* Unless the list may, it has no more anonymous than stand-alone subtables, or none of these.
SpansFit(s) ==
    "manyAnonymous" \notin Forms => nStandAlone(s) = 0 \/ nAnonSubtables(s) =< nStandAlone(s)

ClientList(s) == ListType(s) /\ Client(Elements(s)) /\ SpansFit(s)

AddingInv ==
    pc = "adding" => ClientList(subtable) /\ InAddingOrder(subtable) /\ LabelsInUse(Elements(subtable))

\* The next label is the first that is not in use.
LEMMA NextLabelIs ==
    ASSUME LabelsInUse(Elements(subtable)), Len(subtable) \in Nat, DOMAIN subtable = 1 .. Len(subtable)
    PROVE  /\ NextLabel \in Nat
           /\ {BaseLab(x.label) : x \in Elements(subtable)} = 0 .. NextLabel - 1
<1>1. PICK k \in Nat : {BaseLab(x.label) : x \in Elements(subtable)} = 0 .. k - 1
  BY DEF LabelsInUse
<1>2. {BaseLab(subtable[i].label) : i \in DOMAIN subtable} = {BaseLab(x.label) : x \in Elements(subtable)}
  BY DEF Elements
<1>3. Cardinality(0 .. k - 1) = k
  BY FS_Interval
<1> QED
  BY <1>1, <1>2, <1>3 DEF NextLabel

\* The script, language and feature of a subtable are three tags.
LEMMA ScopeTags ==
    ASSUME NEW scope \in Regular \cup {Alone, Anonymous}
    PROVE  /\ scope = <<scope[1], scope[2], scope[3]>>
           /\ scope[1] \in Tags /\ scope[2] \in Tags /\ scope[3] \in Tags
<1>1. scope = <<scope[1], scope[2], scope[3]>>
  BY OtlAssumption DEF Alone, Anonymous
<1>2. {scope[1], scope[2], scope[3]} \subseteq Tags
  BY DEF Tags
<1> QED
  BY <1>1, <1>2

\* A subtable that the client adds keeps to what it promises, if its label and its scope do.
LEMMA Added ==
    ASSUME AddingInv, pc = "adding",
           NEW scope \in Regular \cup {Alone, Anonymous}, NEW lab \in Label, NEW p \in BOOLEAN,
           Add(scope, lab, p),
           IsRefLab(lab) \/ p => scope \in Regular,
           BaseLab(lab) =< NextLabel,
           \A x \in Elements(subtable) : BaseLab(x.label) = BaseLab(lab) =>
              /\ x.isFeatParam <=> p
              /\ p => x.feature = scope[3]
              /\ ~IsRefLab(x.label) /\ ~IsRefLab(lab) => Scope(x) = scope,
           p => \A x \in Elements(subtable) : x.isFeatParam /\ Scope(x) = scope => x.label = lab
    PROVE  AddingInv'
<1> DEFINE s == subtable
           E == Elements(s)
<1>1. ListType(s) /\ Client(E) /\ SpansFit(s) /\ InAddingOrder(s) /\ LabelsInUse(E)
  BY DEF AddingInv, ClientList
<1>2. Len(s) \in Nat /\ DOMAIN s = 1 .. Len(s) /\ s \in Seq(SubType)
  BY <1>1, ListIs DEF ListType
<1>3. PICK v \in UninitIndexes :
         s' = Append(s, [script |-> scope[1], language |-> scope[2], feature |-> scope[3],
                         label |-> lab, isFeatParam |-> p, offset |-> Len(s),
                         index |-> [feature |-> v, lookup |-> v]])
  BY DEF Add
<1> DEFINE e == [script |-> scope[1], language |-> scope[2], feature |-> scope[3],
                 label |-> lab, isFeatParam |-> p, offset |-> Len(s),
                 index |-> [feature |-> v, lookup |-> v]]
           t == Append(s, e)
<1>4. e \in SubType
  <2>1. v \in Int
    BY OtlAssumption
  <2> QED
    BY <1>2, <2>1, ScopeTags DEF SubType
<1>5. /\ Scope(e) = scope /\ e.label = lab /\ e.isFeatParam = p /\ e.offset = Len(s)
      /\ e.feature = scope[3] /\ e.script = scope[1]
  BY ScopeTags DEF Scope
<1>6. Len(s) < MaxSubtables /\ BaseLab(lab) =< FEAT_ANON_LKP_END /\ s' = t
  BY <1>3 DEF Add
<1>7. IF scope = Anonymous THEN AnonymousAllowed ELSE nAnonSubtables(s) = 0
  BY DEF Add
<1> HIDE DEF e
<1>8. /\ t \in Seq(SubType) /\ Len(t) = Len(s) + 1
      /\ \A i \in 1 .. Len(s) : t[i] = s[i]
      /\ t[Len(s) + 1] = e
  BY <1>2, <1>4
<1> HIDE DEF t
<1>9. InAddingOrder(t)
  BY <1>1, <1>2, <1>5, <1>8 DEF InAddingOrder
<1>10. ListType(t)
  <2>1. Len(t) <= MaxSubtables
    BY <1>2, <1>6, <1>8, OtlAssumption
  <2> QED
    BY <1>2, <1>8, <1>9, <2>1 DEF InAddingOrder, ListType
<1>11. Elements(t) = E \cup {e}
  <2>1. 1 .. Len(t) = (1 .. Len(s)) \cup {Len(s) + 1}
    BY <1>2, <1>8
  <2> QED
    BY <1>8, <2>1 DEF Elements
<1>12. \A x \in E : x \in SubType /\ x.offset < e.offset /\ x.offset \in Nat
  <2>1. ASSUME NEW x \in E PROVE x \in SubType /\ x.offset < e.offset /\ x.offset \in Nat
    <3>1. PICK i \in 1 .. Len(s) : x = s[i]
      BY DEF Elements
    <3> QED
      BY <1>1, <1>2, <1>5, <3>1 DEF InAddingOrder
  <2> QED
    BY <2>1
<1>13. scope # Anonymous => \A x \in E : x.script # UNDEF
  <2>1. SUFFICES ASSUME scope # Anonymous PROVE \A x \in E : x.script # UNDEF
    OBVIOUS
  <2>2. Cardinality({x \in E : x.script = UNDEF}) = 0
    BY <1>1, <1>7, <2>1, CountersOf
  <2>3. IsFiniteSet({x \in E : x.script = UNDEF})
    BY <1>1, CountOf, {x \in E : x.script = UNDEF} \subseteq Elements(s)
  <2>4. {x \in E : x.script = UNDEF} = {}
    BY <2>2, <2>3, FS_EmptySet
  <2> QED
    BY <2>4
<1>14. Client(Elements(t))
  <2>1. ASSUME NEW x \in E \cup {e}
        PROVE  /\ BaseLab(x.label) =< FEAT_ANON_LKP_END
               /\ Scope(x) \in Regular \cup {Alone, Anonymous}
               /\ IsRefLab(x.label) \/ x.isFeatParam => Scope(x) \in Regular
    <3>1. CASE x \in E
      BY <1>1, <3>1 DEF Client
    <3>2. CASE x = e
      BY <1>5, <1>6, <3>2
    <3> QED
      BY <3>1, <3>2
  <2>2. ASSUME NEW x \in E \cup {e}, NEW y \in E \cup {e}, BaseLab(x.label) = BaseLab(y.label)
        PROVE  /\ x.isFeatParam <=> y.isFeatParam
               /\ x.isFeatParam => x.feature = y.feature
               /\ ~IsRefLab(x.label) /\ ~IsRefLab(y.label) => Scope(x) = Scope(y)
    <3>1. CASE x \in E /\ y \in E
      BY <1>1, <2>2, <3>1, Zenon DEF Client
    <3>2. CASE x \in E /\ y = e
      BY <1>5, <2>2, <3>2, Zenon
    <3>3. CASE x = e /\ y \in E
      BY <1>5, <2>2, <3>3, Zenon
    <3>4. CASE x = e /\ y = e
      BY <3>4
    <3> QED
      BY <3>1, <3>2, <3>3, <3>4
  <2>3. ASSUME NEW x \in E \cup {e}, NEW y \in E \cup {e},
               x.isFeatParam, y.isFeatParam, Scope(x) = Scope(y)
        PROVE  x.label = y.label
    <3>1. CASE x \in E /\ y \in E
      BY <1>1, <2>3, <3>1, Zenon DEF Client
    <3>2. CASE x \in E /\ y = e
      BY <1>5, <2>3, <3>2, Zenon
    <3>3. CASE x = e /\ y \in E
      BY <1>5, <2>3, <3>3, Zenon
    <3>4. CASE x = e /\ y = e
      BY <3>4
    <3> QED
      BY <3>1, <3>2, <3>3, <3>4
  <2>4. ASSUME NEW x \in E \cup {e}, NEW y \in E \cup {e}, x.script = UNDEF, x.offset < y.offset
        PROVE  y.script = UNDEF
    <3>1. CASE x \in E /\ y \in E
      BY <1>1, <2>4, <3>1, Zenon DEF Client
    <3>2. CASE x \in E /\ y = e
      <4>1. scope = Anonymous
        BY <1>13, <2>4, <3>2
      <4> QED
        BY <1>5, <3>2, <4>1 DEF Anonymous
    <3>3. CASE x = e /\ y \in E
      BY <1>2, <1>5, <1>12, <2>4, <3>3
    <3>4. CASE x = e /\ y = e
      BY <2>4, <3>4
    <3> QED
      BY <3>1, <3>2, <3>3, <3>4
  <2> QED
    BY <1>11, <2>1, <2>2, <2>3, <2>4, Zenon DEF Client
<1>15. LabelsInUse(Elements(t))
  <2> DEFINE k == NextLabel
             k2 == IF BaseLab(lab) = k THEN k + 1 ELSE k
  <2>1. k \in Nat /\ {BaseLab(x.label) : x \in E} = 0 .. k - 1
    BY <1>1, <1>2, NextLabelIs
  <2>2. BaseLab(lab) \in Nat /\ BaseLab(lab) <= k
    BY <1>6, LabelNumbers
  <2> HIDE DEF k
  <2>3. {BaseLab(x.label) : x \in Elements(t)} = {BaseLab(x.label) : x \in E} \cup {BaseLab(lab)}
    BY <1>5, <1>11
  <2>4. (0 .. k - 1) \cup {BaseLab(lab)} = 0 .. k2 - 1
    BY <2>1, <2>2
  <2>5. k2 \in Nat
    BY <2>1
  <2> QED
    BY <2>1, <2>3, <2>4, <2>5 DEF LabelsInUse
<1>16. SpansFit(t)
  <2> DEFINE A == {x \in E : x.script = UNDEF}
             B == {x \in E : x.feature = STAND_ALONE}
  <2>1. /\ nAnonSubtables(s) = Cardinality(A) /\ IsFiniteSet(A)
        /\ nStandAlone(s) = Cardinality(B) /\ IsFiniteSet(B)
    <3>1. A \subseteq Elements(s) /\ B \subseteq Elements(s)
      OBVIOUS
    <3> QED
      <4>1. nAnonSubtables(s) = Cardinality(A) /\ nStandAlone(s) = Cardinality(B)
        BY <1>1, CountersOf
      <4> HIDE DEF A, B
      <4> QED
        BY <1>1, <3>1, <4>1, CountOf
  <2>2. /\ nAnonSubtables(t) = Cardinality(IF e.script = UNDEF THEN A \cup {e} ELSE A)
        /\ nStandAlone(t) = Cardinality(IF e.feature = STAND_ALONE THEN B \cup {e} ELSE B)
    <3>1. /\ {x \in Elements(t) : x.script = UNDEF} = IF e.script = UNDEF THEN A \cup {e} ELSE A
          /\ {x \in Elements(t) : x.feature = STAND_ALONE} = IF e.feature = STAND_ALONE THEN B \cup {e} ELSE B
      BY <1>11
    <3> QED
      BY <1>10, <3>1, CountersOf
  <2>3. e \notin A /\ e \notin B
    BY <1>12
  <2>4. /\ scope = Anonymous <=> e.script = UNDEF
        /\ scope = Anonymous => e.feature # STAND_ALONE
    <3>1. Scope(e) \in Regular \cup {Alone, Anonymous}
      BY <1>5
    <3>2. /\ Scope(e) = Anonymous <=> e.script = UNDEF
          /\ Scope(e) = Alone <=> e.feature = STAND_ALONE
          /\ Scope(e) = Anonymous <=> e.feature = UNDEF
      BY <3>1, Classes
    <3> QED
      BY <1>5, <3>2 DEF STAND_ALONE, UNDEF
  <2> HIDE DEF A, B
  <2>5. Cardinality(A) \in Nat /\ Cardinality(B) \in Nat
    BY <2>1, FS_CardinalityType
  <2>6. Cardinality(A \cup {e}) = Cardinality(A) + 1 /\ Cardinality(B \cup {e}) = Cardinality(B) + 1
    BY <2>1, <2>3, FS_AddElement
  <2>7. CASE scope = Anonymous
    <3>1. nAnonSubtables(t) = Cardinality(A) + 1 /\ nStandAlone(t) = Cardinality(B)
      BY <2>2, <2>4, <2>6, <2>7
    <3>2. \/ "manyAnonymous" \in Forms
          \/ nStandAlone(s) = 0
          \/ nAnonSubtables(s) < nStandAlone(s)
      BY <1>7, <2>7 DEF AnonymousAllowed
    <3> QED
      BY <2>1, <2>5, <3>1, <3>2 DEF SpansFit
  <2>8. CASE scope # Anonymous
    <3>1. nAnonSubtables(t) = Cardinality(A)
      BY <2>2, <2>4, <2>8
    <3>2. nStandAlone(t) \in Nat
      BY <2>2, <2>5, <2>6
    <3>3. nAnonSubtables(t) = 0
      BY <1>7, <2>1, <2>8, <3>1
    <3> QED
      BY <3>2, <3>3 DEF SpansFit
  <2> QED
    BY <2>7, <2>8
<1>17. ClientList(t)
  BY <1>10, <1>14, <1>16 DEF ClientList
<1> QED
  BY <1>6, <1>9, <1>15, <1>17 DEF AddingInv

\* The next label is in range, and no subtable has it.
LEMMA NextLabelIsNew ==
    ASSUME ClientList(subtable), LabelsInUse(Elements(subtable))
    PROVE  /\ NextLabel \in Label /\ BaseLab(NextLabel) = NextLabel /\ ~IsRefLab(NextLabel)
           /\ RefLab(NextLabel) \in Label /\ BaseLab(RefLab(NextLabel)) = NextLabel
           /\ \A x \in Elements(subtable) : BaseLab(x.label) \in 0 .. NextLabel - 1
<1>1. /\ NextLabel \in Nat
      /\ {BaseLab(x.label) : x \in Elements(subtable)} = 0 .. NextLabel - 1
  BY NextLabelIs, ListIs DEF ClientList
<1>2. \A x \in Elements(subtable) : BaseLab(x.label) \in 0 .. NextLabel - 1
  BY <1>1
<1>3. \A x \in Elements(subtable) : BaseLab(x.label) <= FEAT_ANON_LKP_END
  BY DEF ClientList, Client
<1>4. NextLabel <= FEAT_ANON_LKP_END + 1
  <2>1. CASE NextLabel = 0
    BY <2>1, LabelAssumption
  <2>2. CASE NextLabel # 0
    <3>1. NextLabel - 1 \in 0 .. NextLabel - 1
      BY <1>1, <2>2
    <3>2. PICK x \in Elements(subtable) : BaseLab(x.label) = NextLabel - 1
      BY <1>1, <3>1
    <3> QED
      BY <1>1, <1>3, <3>2, LabelAssumption
  <2> QED
    BY <2>1, <2>2
<1>5. /\ REF_LAB \in Nat /\ FEAT_ANON_LKP_END \in Nat /\ FEAT_ANON_LKP_END < REF_LAB - 1
  BY LabelAssumption
<1>6. NextLabel < REF_LAB
  BY <1>1, <1>4, <1>5
<1>7. NextLabel \in Label /\ BaseLab(NextLabel) = NextLabel /\ ~IsRefLab(NextLabel)
      /\ RefLab(NextLabel) \in Label /\ BaseLab(RefLab(NextLabel)) = NextLabel
  BY <1>1, <1>5, <1>6 DEF Label, LAB_UNDEF, BaseLab, RefLab, IsRefLab
<1> QED
  BY <1>2, <1>7

\* What the client promises holds whatever it adds next.
LEMMA AddingStep ==
    ASSUME AddingInv, AddLookup \/ AddParam \/ AddMore \/ AddReference \/ AddDangling
    PROVE  AddingInv'
<1> DEFINE E == Elements(subtable)
<1>0. pc = "adding" /\ ClientList(subtable) /\ LabelsInUse(E) /\ InAddingOrder(subtable)
  <2>1. pc = "adding"
    BY DEF AddLookup, AddParam, AddMore, AddReference, AddDangling, Add
  <2> QED
    BY <2>1 DEF AddingInv
<1>1. /\ NextLabel \in Label /\ BaseLab(NextLabel) = NextLabel /\ ~IsRefLab(NextLabel)
      /\ RefLab(NextLabel) \in Label /\ BaseLab(RefLab(NextLabel)) = NextLabel
      /\ \A x \in E : BaseLab(x.label) \in 0 .. NextLabel - 1
      /\ \A x \in E : BaseLab(x.label) # NextLabel
      /\ NextLabel <= NextLabel
  <2>1. /\ NextLabel \in Label /\ BaseLab(NextLabel) = NextLabel /\ ~IsRefLab(NextLabel)
        /\ RefLab(NextLabel) \in Label /\ BaseLab(RefLab(NextLabel)) = NextLabel
        /\ \A x \in E : BaseLab(x.label) \in 0 .. NextLabel - 1
    BY <1>0, NextLabelIsNew
  <2>2. NextLabel \in Nat
    BY <2>1, LabelAssumption DEF Label, LAB_UNDEF
  <2> HIDE DEF E
  <2> QED
    BY <2>1, <2>2
<1>2. /\ Len(subtable) \in Nat /\ DOMAIN subtable = 1 .. Len(subtable)
      /\ \A i \in 1 .. Len(subtable) : subtable[i] \in E /\ subtable[i] \in SubType
  BY <1>0, ListIs DEF ClientList, Elements
<1>3. \A x \in E : x \in SubType /\ \E i \in DOMAIN subtable : x = subtable[i]
  BY <1>2 DEF Elements
<1>4. \A x \in Definitions \cup References : x \in E
  BY <1>2 DEF Definitions, References
<1>5. Client(E)
  BY <1>0 DEF ClientList
<1> HIDE DEF E
<1>6. CASE AddLookup
  <2>1. PICK scope \in Regular \cup {Alone, Anonymous} : Add(scope, NextLabel, FALSE)
    BY <1>6, Zenon DEF AddLookup
  <2>2. BaseLab(NextLabel) <= NextLabel
    BY <1>1
  <2>3. \A x \in E : BaseLab(x.label) # BaseLab(NextLabel)
    BY <1>1
  <2> DEFINE p == FALSE
  <2>4. Add(scope, NextLabel, p) /\ p \in BOOLEAN
    BY <2>1
  <2>5. ~(IsRefLab(NextLabel) \/ p) /\ ~p
    BY <1>1
  <2> HIDE DEF p
  <2> QED
    BY <1>0, <1>1, <2>2, <2>3, <2>4, <2>5, Added DEF E
<1>7. CASE AddParam
  <2>1. PICK scope \in Regular : ~HasParam(scope) /\ Add(scope, NextLabel, TRUE)
    BY <1>7 DEF AddParam
  <2>2. BaseLab(NextLabel) <= NextLabel
    BY <1>1
  <2>3. \A x \in E : ~(x.isFeatParam /\ Scope(x) = scope)
    BY <1>3, <2>1 DEF HasParam
  <2>4. \A x \in E : BaseLab(x.label) # BaseLab(NextLabel)
    BY <1>1
  <2> DEFINE p == TRUE
  <2>5. Add(scope, NextLabel, p) /\ p \in BOOLEAN
    BY <2>1
  <2> HIDE DEF p
  <2> QED
    BY <1>0, <1>1, <2>2, <2>3, <2>4, <2>5, Added DEF E
<1>8. CASE AddMore
  <2> DEFINE last == subtable[Len(subtable)]
  <2>1. subtable # <<>> /\ ~IsRefLab(last.label) /\ Add(Scope(last), last.label, last.isFeatParam)
    BY <1>8 DEF AddMore
  <2>2. last \in E /\ last \in SubType
    <3>1. Len(subtable) # 0
      BY <1>0, <2>1 DEF ClientList, ListType
    <3>2. Len(subtable) \in 1 .. Len(subtable)
      BY <1>2, <3>1
    <3> QED
      BY <1>2, <3>2
  <2>3. last.label \in Label /\ last.isFeatParam \in BOOLEAN /\ Scope(last)[3] = last.feature
    BY <2>2 DEF SubType, Scope
  <2> HIDE DEF last
  <2>4. /\ Scope(last) \in Regular \cup {Alone, Anonymous}
        /\ IsRefLab(last.label) \/ last.isFeatParam => Scope(last) \in Regular
    BY <1>5, <2>2, Zenon DEF Client
  <2>5. BaseLab(last.label) <= NextLabel
    <3>1. BaseLab(last.label) \in 0 .. NextLabel - 1
      BY <1>1, <2>2
    <3>2. NextLabel \in Nat
      BY <1>1, LabelAssumption DEF Label, LAB_UNDEF
    <3> QED
      BY <3>1, <3>2
  <2>6. ASSUME NEW x \in E, BaseLab(x.label) = BaseLab(last.label)
        PROVE  /\ x.isFeatParam <=> last.isFeatParam
               /\ last.isFeatParam => x.feature = Scope(last)[3]
               /\ ~IsRefLab(x.label) /\ ~IsRefLab(last.label) => Scope(x) = Scope(last)
    BY <1>5, <2>2, <2>3, <2>6, Zenon DEF Client
  <2>7. last.isFeatParam => \A x \in E : x.isFeatParam /\ Scope(x) = Scope(last) => x.label = last.label
    BY <1>5, <2>2, Zenon DEF Client
  <2> QED
    BY <1>0, <2>1, <2>3, <2>4, <2>5, <2>6, <2>7, Added DEF E
<1>9. CASE AddReference
  <2>1. PICK scope \in Regular, sub \in Definitions :
           /\ sub.isFeatParam => ~HasParam(scope) /\ sub.feature = scope[3]
           /\ Add(scope, RefLab(sub.label), sub.isFeatParam)
    BY <1>9 DEF AddReference
  <2>2. sub \in E /\ sub \in SubType /\ ~IsRefLab(sub.label)
    BY <1>3, <1>4 DEF Definitions
  <2>3. sub.label \in Label /\ sub.isFeatParam \in BOOLEAN
    BY <2>2 DEF SubType
  <2>4. BaseLab(sub.label) <= FEAT_ANON_LKP_END
    BY <1>5, <2>2, Zenon DEF Client
  <2>5. RefLab(sub.label) \in Label /\ BaseLab(RefLab(sub.label)) = BaseLab(sub.label) /\ IsRefLab(RefLab(sub.label))
    BY <2>3, <2>4, LabelNumbers
  <2>6. BaseLab(RefLab(sub.label)) <= NextLabel
    <3>1. BaseLab(sub.label) \in 0 .. NextLabel - 1
      BY <1>1, <2>2
    <3>2. NextLabel \in Nat
      BY <1>1, LabelAssumption DEF Label, LAB_UNDEF
    <3> QED
      BY <2>5, <3>1, <3>2
  <2>7. ASSUME NEW x \in E, BaseLab(x.label) = BaseLab(RefLab(sub.label))
        PROVE  /\ x.isFeatParam <=> sub.isFeatParam
               /\ sub.isFeatParam => x.feature = scope[3]
               /\ ~IsRefLab(x.label) /\ ~IsRefLab(RefLab(sub.label)) => Scope(x) = scope
    BY <1>5, <2>1, <2>2, <2>5, <2>7, Zenon DEF Client
  <2>8. sub.isFeatParam => \A x \in E : x.isFeatParam /\ Scope(x) = scope => x.label = RefLab(sub.label)
    BY <1>3, <2>1 DEF HasParam
  <2> QED
    BY <1>0, <2>1, <2>3, <2>5, <2>6, <2>7, <2>8, Added DEF E
<1>10. CASE AddDangling
  <2>1. PICK scope \in Regular : Add(scope, RefLab(NextLabel), FALSE)
    BY <1>10 DEF AddDangling
  <2>2. BaseLab(RefLab(NextLabel)) <= NextLabel
    BY <1>1
  <2>3. \A x \in E : BaseLab(x.label) # BaseLab(RefLab(NextLabel))
    BY <1>1
  <2> DEFINE p == FALSE
  <2>4. Add(scope, RefLab(NextLabel), p) /\ p \in BOOLEAN
    BY <2>1
  <2>5. ~p
    OBVIOUS
  <2> HIDE DEF p
  <2> QED
    BY <1>0, <1>1, <2>2, <2>3, <2>4, <2>5, Added DEF E
<1> QED
  BY <1>6, <1>7, <1>8, <1>9, <1>10

-----------------------------------------------------------------------------
(* The lookup indexes *)

\* How far definitions and lookups reach in a list that is sorted by lookups
DefinitionSpan(s) == Len(s) - nRefLookups(s)
LookupSpan(s) == Len(s) - (nRefLookups(s) + nFeatParams(s))

\* Sorted by lookups, a list begins with the lookups, has the parameters next and the
\* references at the end.
LEMMA LookupSpans ==
    ASSUME NEW s, ListType(s), InLookupOrder(s)
    PROVE  /\ DefinitionSpan(s) \in 0 .. Len(s) /\ LookupSpan(s) \in 0 .. DefinitionSpan(s)
           /\ \A i \in 1 .. Len(s) : i =< DefinitionSpan(s) <=> ~IsRefLab(s[i].label)
           /\ \A i \in 1 .. Len(s) : i =< LookupSpan(s) <=> ~IsRefLab(s[i].label) /\ ~s[i].isFeatParam
<1> DEFINE n == Len(s)
           D == {i \in 1 .. n : ~IsRefLab(s[i].label)}
           L == {i \in 1 .. n : ~IsRefLab(s[i].label) /\ ~s[i].isFeatParam}
<1>0. n \in Nat /\ DOMAIN s = 1 .. n
  BY ListIs
<1>1. \A i, j \in 1 .. n : i < j => LookupAtMost(s[i], s[j])
  BY DEF InLookupOrder
<1>2. D = 1 .. Cardinality(D) /\ Cardinality(D) \in 0 .. n
  <2>1. ASSUME NEW i \in D, NEW j \in 1 .. n, j < i PROVE j \in D
    BY <1>1, <2>1 DEF LookupAtMost
  <2>2. D \subseteq 1 .. n
    OBVIOUS
  <2> HIDE DEF D
  <2> QED
    BY <1>0, <2>1, <2>2, InitialSegment
<1>3. L = 1 .. Cardinality(L) /\ Cardinality(L) \in 0 .. n
  <2>1. ASSUME NEW i \in L, NEW j \in 1 .. n, j < i PROVE j \in L
    BY <1>1, <2>1 DEF LookupAtMost, AtMost3, Ord
  <2>2. L \subseteq 1 .. n
    OBVIOUS
  <2> HIDE DEF L
  <2> QED
    BY <1>0, <2>1, <2>2, InitialSegment
<1> DEFINE cd == Cardinality(D)
           cl == Cardinality(L)
<1>4. cd \in 0 .. n /\ cl \in 0 .. n /\ D = 1 .. cd /\ L = 1 .. cl
  BY <1>2, <1>3
<1>5. /\ \A i \in 1 .. n : i =< cd <=> ~IsRefLab(s[i].label)
      /\ \A i \in 1 .. n : i =< cl <=> ~IsRefLab(s[i].label) /\ ~s[i].isFeatParam
  <2> DEFINE c1 == cd
             c2 == cl
  <2>1. \A i \in 1 .. n : (i \in D <=> i =< c1) /\ (i \in L <=> i =< c2)
    <3> HIDE DEF D, L, n
    <3> QED
      BY <1>0, <1>4
  <2> QED
    BY <2>1
<1>6. L \subseteq D
  OBVIOUS
<1> HIDE DEF cd, cl
<1>7. cl <= cd
  BY <1>4, <1>6
<1>8. nRefLookups(s) = n - cd
  <2>1. {i \in DOMAIN s : IsRefLab(s[i].label)} = cd + 1 .. n
    BY <1>0, <1>4, <1>5
  <2>2. Cardinality(cd + 1 .. n) = n - cd
    <3> DEFINE a == cd + 1
    <3>1. a \in Int /\ n \in Int /\ a - 1 = cd /\ a <= n + 1
      BY <1>0, <1>4
    <3> HIDE DEF a, n
    <3>2. Cardinality(a .. n) = IF a > n THEN 0 ELSE n - a + 1
      BY <3>1, FS_Interval
    <3>3. Cardinality(a .. n) = n - (a - 1)
      BY <3>1, <3>2
    <3> QED
      BY <3>1, <3>3 DEF a
  <2> QED
    BY <2>1, <2>2 DEF nRefLookups
<1>9. nFeatParams(s) = cd - cl
  <2>1. {i \in DOMAIN s : s[i].isFeatParam /\ ~IsRefLab(s[i].label)} = cl + 1 .. cd
    BY <1>0, <1>4, <1>5
  <2>2. Cardinality(cl + 1 .. cd) = cd - cl
    <3> DEFINE a == cl + 1
    <3>1. a \in Int /\ cd \in Int /\ a - 1 = cl /\ a <= cd + 1
      BY <1>0, <1>4, <1>7
    <3> HIDE DEF a
    <3>2. Cardinality(a .. cd) = IF a > cd THEN 0 ELSE cd - a + 1
      BY <3>1, FS_Interval
    <3>3. Cardinality(a .. cd) = cd - (a - 1)
      BY <3>1, <3>2
    <3> QED
      BY <3>1, <3>3 DEF a
  <2> QED
    BY <2>1, <2>2 DEF nFeatParams
<1>10. DefinitionSpan(s) = cd /\ LookupSpan(s) = cl
  BY <1>0, <1>4, <1>8, <1>9 DEF DefinitionSpan, LookupSpan
<1> QED
  BY <1>4, <1>5, <1>7, <1>10

\* The labels of a sorted list that is not given up: equal ones follow each other, and the
\* indexes count the lookups before them.
LookupRunsAre(s) ==
  LET nd == DefinitionSpan(s)
      nl == LookupSpan(s)
  IN
    /\ LookupStarts(s) \subseteq 1 .. nd
    /\ \A i \in 1 .. nd : \E k \in LookupStarts(s) : k =< i /\ s[k].label = s[i].label
    /\ \A i, k \in LookupStarts(s) : s[i].label = s[k].label => i = k
    /\ \A i \in 1 .. nd : RegularIndex(s, i) \in Int /\ RegularIndex(s, i) >= -1
    /\ \A i \in LookupStarts(s) : s[i].isFeatParam => RegularIndex(s, i) = -1
    /\ \A i \in 1 .. nl : RegularIndex(s, i) \in Nat
    /\ \A i, j \in 1 .. nl : i =< j => RegularIndex(s, i) =< RegularIndex(s, j)
    /\ \A i, j \in 1 .. nl : RegularIndex(s, i) = RegularIndex(s, j) <=> s[i].label = s[j].label
    /\ \A i \in 1 .. nl, m \in Nat : m < RegularIndex(s, i) => \E j \in 1 .. nl : RegularIndex(s, j) = m

\* calcLookupListIndexes numbers the lookups in the order of the list, and parameters apart.
LEMMA LookupRunsOf ==
    ASSUME NEW s, ListType(s), InLookupOrder(s), ~LookupsFail(s)
    PROVE  LookupRunsAre(s)
<1> DEFINE key == [i \in DOMAIN s |-> s[i].label]
           starts == LookupStarts(s)
           nd == DefinitionSpan(s)
           nl == LookupSpan(s)
<1>0. Len(s) \in Nat /\ DOMAIN s = 1 .. Len(s)
  BY ListIs
<1>1. /\ nd \in 0 .. Len(s) /\ nl \in 0 .. nd
      /\ \A i \in 1 .. Len(s) : i =< nd <=> ~IsRefLab(s[i].label)
      /\ \A i \in 1 .. Len(s) : i =< nl <=> ~IsRefLab(s[i].label) /\ ~s[i].isFeatParam
  BY LookupSpans
<1>2. nd \in Nat /\ nl \in Nat /\ nl <= nd /\ nd <= Len(s)
  BY <1>0, <1>1
<1>3. \A i \in 1 .. nd : key[i] = s[i].label
  BY <1>0, <1>2
<1>4. starts = RunStarts(key, 1, nd)
  BY DEF LookupStarts, DefinitionSpan
<1>5. starts \subseteq 1 .. nd
  BY <1>4 DEF RunStarts
<1> HIDE DEF key, starts
<1>6. \A i \in 1 .. nd : \E k \in starts : k =< i /\ \A m \in k .. i : key[m] = key[i]
  <2>1. nd \in Nat /\ 1 \in Nat
    BY <1>2
  <2>2. ASSUME NEW i \in 1 .. nd PROVE \E k \in RunStarts(key, 1, nd) : k =< i /\ \A m \in k .. i : key[m] = key[i]
    BY <2>1, RunHasStart
  <2> QED
    BY <1>4, <2>2
<1>7. \A i \in 1 .. nd : \E k \in starts : k =< i /\ s[k].label = s[i].label
  <2>1. ASSUME NEW i \in 1 .. nd PROVE \E k \in starts : k =< i /\ s[k].label = s[i].label
    <3>1. PICK k \in starts : k =< i /\ \A m \in k .. i : key[m] = key[i]
      BY <1>6
    <3>2. k \in k .. i /\ k \in 1 .. nd
      BY <1>2, <1>5, <3>1
    <3> QED
      BY <1>3, <3>1, <3>2
  <2> QED
    BY <2>1
<1>8. \A i, k \in starts : s[i].label = s[k].label => i = k
  BY DEF LookupsFail, starts
<1>9. \A i, j \in 1 .. nd : i <= j /\ s[i].label = s[j].label => \A m \in i .. j : key[m] = key[i]
  <2>1. ASSUME NEW i \in 1 .. nd, NEW j \in 1 .. nd, i <= j, s[i].label = s[j].label
        PROVE  \A m \in i .. j : key[m] = key[i]
    <3>1. PICK k \in starts : k =< i /\ \A m \in k .. i : key[m] = key[i]
      BY <1>6
    <3>2. PICK l \in starts : l =< j /\ \A m \in l .. j : key[m] = key[j]
      BY <1>6
    <3>3. k \in 1 .. nd /\ l \in 1 .. nd /\ k \in k .. i /\ l \in l .. j
      BY <1>2, <1>5, <3>1, <3>2
    <3>4. s[k].label = s[i].label /\ s[l].label = s[j].label
      BY <1>3, <3>1, <3>2, <3>3
    <3>5. k = l
      BY <1>8, <2>1, <3>4
    <3> QED
      BY <1>2, <1>3, <2>1, <3>1, <3>2, <3>3, <3>5
  <2> QED
    BY <2>1
<1>10. IsFiniteSet(starts)
  <2>1. IsFiniteSet(1 .. nd)
    BY <1>2, FS_Interval
  <2> QED
    BY <1>5, <2>1, FS_Subset
<1>11. \A i \in 1 .. nd : RegularIndex(s, i) \in Int /\ RegularIndex(s, i) >= -1
  <2>1. ASSUME NEW i \in 1 .. nd PROVE RegularIndex(s, i) \in Int /\ RegularIndex(s, i) >= -1
    <3> DEFINE S == {j \in starts : j =< i /\ ~s[j].isFeatParam}
    <3>1. Cardinality(S) \in Nat
      <4>1. S \subseteq starts
        OBVIOUS
      <4> HIDE DEF S
      <4> QED
        BY <1>10, <4>1, FS_Subset, FS_CardinalityType
    <3>2. RegularIndex(s, i) = -1 \/ RegularIndex(s, i) = Cardinality(S) - 1
      BY DEF RegularIndex, starts
    <3> HIDE DEF S
    <3> QED
      BY <3>1, <3>2
  <2> QED
    BY <2>1
<1>12. \A i \in starts : s[i].isFeatParam => RegularIndex(s, i) = -1
  BY DEF RegularIndex, starts
<1>13. \A i \in 1 .. nl : RegularIndex(s, i) = RunOf(key, 1, i)
  <2>1. ASSUME NEW i \in 1 .. nl PROVE RegularIndex(s, i) = RunOf(key, 1, i)
    <3>1. \A j \in 1 .. i : j \in 1 .. nd /\ j \in 1 .. Len(s) /\ j <= nl
      BY <1>2
    <3>2. \A j \in 1 .. i : ~s[j].isFeatParam
      BY <1>1, <3>1
    <3>3. ~s[i].isFeatParam
      BY <1>2, <3>2
    <3>4. {j \in starts : j =< i /\ ~s[j].isFeatParam} = RunStarts(key, 1, i)
      BY <1>2, <1>4, <3>1, <3>2 DEF RunStarts
    <3>5. RegularIndex(s, i) = Cardinality({j \in starts : j =< i /\ ~s[j].isFeatParam}) - 1
      BY <3>3 DEF RegularIndex, starts
    <3> QED
      BY <3>4, <3>5 DEF RunOf
  <2> QED
    BY <2>1
<1>14. /\ \A i \in 1 .. nl : RunOf(key, 1, i) \in Nat
       /\ \A i, j \in 1 .. nl : i <= j => RunOf(key, 1, i) <= RunOf(key, 1, j)
       /\ \A i, j \in 1 .. nl :
             i <= j => (RunOf(key, 1, i) = RunOf(key, 1, j) <=> \A m \in i .. j : key[m] = key[i])
       /\ \A i \in 1 .. nl, m \in Nat :
             m < RunOf(key, 1, i) => \E j \in 1 .. nl : RunOf(key, 1, j) = m
  <2>1. RunNumbering(key, nl)
    BY <1>2, RunNumbers
  <2> QED
    BY <2>1, Zenon DEF RunNumbering
<1>15. \A i, j \in 1 .. nl : i <= j => (RegularIndex(s, i) = RegularIndex(s, j) <=> s[i].label = s[j].label)
  <2>1. ASSUME NEW i \in 1 .. nl, NEW j \in 1 .. nl, i <= j
        PROVE  RegularIndex(s, i) = RegularIndex(s, j) <=> s[i].label = s[j].label
    <3>1. i \in 1 .. nd /\ j \in 1 .. nd /\ j \in i .. j
      BY <1>2, <2>1
    <3>2. RegularIndex(s, i) = RegularIndex(s, j) <=> \A m \in i .. j : key[m] = key[i]
      BY <1>13, <1>14, <2>1
    <3>3. (\A m \in i .. j : key[m] = key[i]) => s[i].label = s[j].label
      BY <1>3, <3>1
    <3> QED
      BY <1>9, <2>1, <3>1, <3>2, <3>3
  <2> QED
    BY <2>1
<1>16. \A i, j \in 1 .. nl : RegularIndex(s, i) = RegularIndex(s, j) <=> s[i].label = s[j].label
  <2>1. ASSUME NEW i \in 1 .. nl, NEW j \in 1 .. nl
        PROVE  RegularIndex(s, i) = RegularIndex(s, j) <=> s[i].label = s[j].label
    <3>1. i <= j \/ j <= i
      BY <1>2
    <3> QED
      BY <1>15, <3>1
  <2> QED
    BY <2>1
<1>17. \A i \in 1 .. nl, m \in Nat : m < RegularIndex(s, i) => \E j \in 1 .. nl : RegularIndex(s, j) = m
  BY <1>13, <1>14
<1>18. /\ \A i \in 1 .. nl : RegularIndex(s, i) \in Nat
       /\ \A i, j \in 1 .. nl : i =< j => RegularIndex(s, i) =< RegularIndex(s, j)
  BY <1>13, <1>14
<1> QED
  BY <1>5, <1>7, <1>8, <1>11, <1>12, <1>16, <1>17, <1>18, Zenon DEF LookupRunsAre, starts

IsDefinition(x) == ~IsRefLab(x.label)
IsLookup(x) == ~IsRefLab(x.label) /\ ~x.isFeatParam

\* cmpLookupList, for two different lookups
EarlierLookup(x, y) ==
    \/ x.feature = "aalt" /\ y.feature # "aalt"
    \/ (x.feature = "aalt" <=> y.feature = "aalt") /\ x.offset < y.offset

\* The lookup indexes: lookups and the references to them are numbered by their labels and in
\* the order of the definitions, from 0 on.  Parameters have the index -1, those that have
\* it not, further subtables of some, being next to one that has it.
LookupFacts(E) ==
    /\ \A x \in E : ~x.isFeatParam => x.index.lookup \in Nat
    /\ \A x, y \in E : ~x.isFeatParam /\ ~y.isFeatParam =>
          (x.index.lookup = y.index.lookup <=> BaseLab(x.label) = BaseLab(y.label))
    /\ \A x \in E, m \in Nat :
          IsLookup(x) /\ m < x.index.lookup => \E y \in E : IsLookup(y) /\ y.index.lookup = m
    /\ \A x, y \in E :
          IsLookup(x) /\ IsLookup(y) /\ x.index.lookup < y.index.lookup => EarlierLookup(x, y)
    /\ \A x \in E : x.isFeatParam =>
          /\ x.index.lookup >= -1
          /\ \E y \in E : y.isFeatParam /\ Scope(y) = Scope(x) /\ y.index.lookup = -1
    /\ \A x \in E : IsRefLab(x.label) => \E y \in E : y.label = BaseLab(x.label)

\* t->label: each label with the index of its lookup; something refers to it, or calls marks it.
LabelsAre(lbl, E, calls) ==
    /\ DOMAIN lbl = {x.label : x \in {y \in E : IsDefinition(y)}}
    /\ \A x \in E : IsDefinition(x) =>
          /\ lbl[x.label] \in [lookupInx : Int, used : BOOLEAN]
          /\ lbl[x.label].lookupInx = IF x.isFeatParam THEN -1 ELSE x.index.lookup
          /\ lbl[x.label].used <=> (x.label \in calls \/ \E y \in E : y.label = RefLab(x.label))

\* What calcLookupListIndexes leaves
LEMMA LookupIndexes ==
    ASSUME NEW s, ListType(s), Client(Elements(s)), InLookupOrder(s), ~LookupsFail(s),
           NEW w, w = WithLookupIndexes(s)
    PROVE  /\ w \in Seq(SubType) /\ SameCores(s, w)
           /\ LookupFacts(Elements(w)) /\ LabelsAre(Labels(s), Elements(w), {})
<1> DEFINE n == Len(s)
           nd == DefinitionSpan(s)
           nl == LookupSpan(s)
           starts == LookupStarts(s)
           lbl == Labels(s)
           I(i) == IF IsRefLab(s[i].label) THEN lbl[BaseLab(s[i].label)].lookupInx ELSE RegularIndex(s, i)
<1>0. /\ n \in Nat /\ DOMAIN s = 1 .. n
      /\ \A i \in 1 .. n : s[i] \in SubType /\ s[i] \in Elements(s)
  BY ListIs DEF Elements
<1>1. /\ nd \in 0 .. n /\ nl \in 0 .. nd
      /\ \A i \in 1 .. n : i =< nd <=> ~IsRefLab(s[i].label)
      /\ \A i \in 1 .. n : i =< nl <=> ~IsRefLab(s[i].label) /\ ~s[i].isFeatParam
  BY LookupSpans
<1>2. LookupRunsAre(s)
  BY LookupRunsOf
<1>3. /\ starts \subseteq 1 .. nd
      /\ \A i \in 1 .. nd : \E k \in starts : k =< i /\ s[k].label = s[i].label
      /\ \A i, k \in starts : s[i].label = s[k].label => i = k
      /\ \A i \in 1 .. nd : RegularIndex(s, i) \in Int /\ RegularIndex(s, i) >= -1
      /\ \A i \in starts : s[i].isFeatParam => RegularIndex(s, i) = -1
  BY <1>2 DEF LookupRunsAre
<1>4. /\ \A i \in 1 .. nl : RegularIndex(s, i) \in Nat
      /\ \A i, j \in 1 .. nl : i =< j => RegularIndex(s, i) =< RegularIndex(s, j)
      /\ \A i, j \in 1 .. nl : RegularIndex(s, i) = RegularIndex(s, j) <=> s[i].label = s[j].label
      /\ \A i \in 1 .. nl, m \in Nat : m < RegularIndex(s, i) => \E j \in 1 .. nl : RegularIndex(s, j) = m
  BY <1>2, Zenon DEF LookupRunsAre
<1>5. \A i \in 1 .. n : w[i] = [s[i] EXCEPT !.index.lookup = I(i)]
  BY <1>0 DEF WithLookupIndexes
<1>6. DOMAIN w = 1 .. n
  BY <1>0 DEF WithLookupIndexes
<1> DEFINE isRef(i) == \E j \in 1 .. n : s[j].label = RefLab(s[i].label)
<1>7. DOMAIN lbl = {s[i].label : i \in starts}
  BY DEF Labels
<1>8. ASSUME NEW i \in 1 .. nd
      PROVE  /\ s[i].label \in DOMAIN lbl
             /\ lbl[s[i].label].lookupInx = IF s[i].isFeatParam THEN -1 ELSE RegularIndex(s, i)
             /\ lbl[s[i].label].used <=> isRef(i)
             /\ lbl[s[i].label] \in [lookupInx : Int, used : BOOLEAN]
  <2>1. PICK k \in starts : s[k].label = s[i].label
    BY <1>3
  <2>2. s[i].label \in DOMAIN lbl
    BY <1>7, <2>1
  <2>3. (CHOOSE j \in starts : s[j].label = s[i].label) = k
    BY <1>3, <2>1
  <2>9. k \in 1 .. nd
    BY <1>3
  <2>10. RegularIndex(s, k) \in Int
    BY <1>3, <2>9
  <2>4. /\ lbl[s[i].label].lookupInx = RegularIndex(s, k)
        /\ lbl[s[i].label].used = \E j \in DOMAIN s : s[j].label = RefLab(s[i].label)
        /\ lbl[s[i].label] \in [lookupInx : Int, used : BOOLEAN]
    <3>1. lbl[s[i].label] = [lookupInx |-> RegularIndex(s, k),
                             used |-> \E j \in DOMAIN s : s[j].label = RefLab(s[i].label)]
      BY <2>2, <2>3 DEF Labels
    <3> QED
      BY <2>10, <3>1
  <2>5. k \in 1 .. nd /\ k \in 1 .. n /\ i \in 1 .. n
    BY <1>0, <1>1, <1>3
  <2>6. s[k].isFeatParam <=> s[i].isFeatParam
    BY <1>0, <2>1, <2>5, Zenon DEF Client
  <2>7. CASE s[i].isFeatParam
    BY <1>0, <1>3, <2>2, <2>4, <2>6, <2>7
  <2>8. CASE ~s[i].isFeatParam
    <3>1. i <= nd /\ k <= nd
      BY <1>1, <2>5
    <3>2. i <= nl /\ k <= nl
      BY <1>1, <2>5, <2>6, <2>8, <3>1
    <3>3. i \in 1 .. nl /\ k \in 1 .. nl
      BY <1>1, <2>5, <3>2
    <3>4. RegularIndex(s, k) = RegularIndex(s, i)
      BY <1>4, <2>1, <3>3
    <3> QED
      BY <1>0, <2>2, <2>4, <2>8, <3>4
  <2> QED
    BY <2>7, <2>8
<1> HIDE DEF lbl, starts, nd, nl
<1>9. ASSUME NEW i \in 1 .. n, IsRefLab(s[i].label)
      PROVE  \E k \in 1 .. nd : /\ s[k].label = BaseLab(s[i].label)
                                /\ s[k].isFeatParam <=> s[i].isFeatParam
                                /\ I(i) = IF s[k].isFeatParam THEN -1 ELSE RegularIndex(s, k)
  <2>1. BaseLab(s[i].label) \in DOMAIN lbl
    BY <1>0, <1>9 DEF LookupsFail, lbl
  <2>2. PICK k \in starts : s[k].label = BaseLab(s[i].label)
    BY <1>7, <2>1
  <2>3. k \in 1 .. nd /\ k \in 1 .. n
    BY <1>0, <1>1, <1>3
  <2>4. BaseLab(s[i].label) <= FEAT_ANON_LKP_END /\ s[i].label \in Label
    BY <1>0 DEF Client, SubType
  <2>5. BaseLab(s[k].label) = BaseLab(s[i].label)
    BY <2>2, <2>4, LabelNumbers
  <2>6. s[k].isFeatParam <=> s[i].isFeatParam
    BY <1>0, <2>3, <2>5, Zenon DEF Client
  <2>7. I(i) = IF s[k].isFeatParam THEN -1 ELSE RegularIndex(s, k)
    BY <1>8, <1>9, <2>2, <2>3
  <2> QED
    BY <2>2, <2>3, <2>6, <2>7
<1>10. ASSUME NEW i \in 1 .. n, ~s[i].isFeatParam
       PROVE  \E k \in 1 .. nl : s[k].label = BaseLab(s[i].label) /\ I(i) = RegularIndex(s, k)
  <2>1. CASE IsRefLab(s[i].label)
    <3>1. PICK k \in 1 .. nd : /\ s[k].label = BaseLab(s[i].label)
                               /\ s[k].isFeatParam <=> s[i].isFeatParam
                               /\ I(i) = IF s[k].isFeatParam THEN -1 ELSE RegularIndex(s, k)
      BY <1>9, <2>1
    <3>2. k \in 1 .. n /\ k <= nd
      BY <1>0, <1>1
    <3>3. k <= nl
      BY <1>1, <1>10, <3>1, <3>2
    <3>4. k \in 1 .. nl
      BY <1>1, <3>3
    <3> QED
      BY <1>10, <3>1, <3>4
  <2>2. CASE ~IsRefLab(s[i].label)
    <3>1. i <= nl
      BY <1>1, <1>10, <2>2
    <3>2. i \in 1 .. nl
      BY <1>1, <3>1
    <3>3. BaseLab(s[i].label) = s[i].label
      <4>1. BaseLab(s[i].label) <= FEAT_ANON_LKP_END /\ s[i].label \in Label
        BY <1>0 DEF Client, SubType
      <4> QED
        BY <2>2, <4>1, LabelNumbers
    <3> QED
      BY <2>2, <3>2, <3>3
  <2> QED
    BY <2>1, <2>2
<1>11. \A i \in 1 .. n : I(i) \in Int /\ I(i) >= -1
  <2>1. ASSUME NEW i \in 1 .. n PROVE I(i) \in Int /\ I(i) >= -1
    <3>1. CASE IsRefLab(s[i].label)
      <4>1. PICK k \in 1 .. nd : I(i) = IF s[k].isFeatParam THEN -1 ELSE RegularIndex(s, k)
        BY <1>9, <3>1
      <4> QED
        BY <1>3, <4>1
    <3>2. CASE ~IsRefLab(s[i].label)
      <4>1. i \in 1 .. nd
        BY <1>1, <3>2
      <4> QED
        BY <1>3, <3>2, <4>1
    <3> QED
      BY <3>1, <3>2
  <2> QED
    BY <2>1
<1> HIDE DEF I
<1>12. \A i \in 1 .. n : w[i] \in SubType /\ SameCore(s[i], w[i]) /\ w[i].index.lookup = I(i)
  <2>1. ASSUME NEW i \in 1 .. n
        PROVE  w[i] \in SubType /\ SameCore(s[i], w[i]) /\ w[i].index.lookup = I(i)
    <3>1. s[i] \in SubType /\ I(i) \in Int /\ w[i] = [s[i] EXCEPT !.index.lookup = I(i)]
      BY <1>0, <1>5, <1>11
    <3>2. SameCore(s[i], w[i]) /\ w[i].index.lookup = I(i)
      BY <3>1 DEF SubType, SameCore
    <3>3. w[i] \in SubType
      BY <3>1 DEF SubType
    <3> QED
      BY <3>2, <3>3
  <2> QED
    BY <2>1
<1>13. w \in Seq(SubType) /\ Len(w) = n
  <2>1. w = [i \in 1 .. n |-> w[i]]
    BY <1>0 DEF WithLookupIndexes
  <2>2. w \in [1 .. n -> SubType]
    BY <1>12, <2>1
  <2>3. w \in Seq(SubType)
    BY <1>0, <2>2, SeqDef
  <2> QED
    BY <1>0, <2>2, <2>3, LenProperties
<1>14. SameCores(s, w)
  BY <1>12, <1>13 DEF SameCores
<1>15. \A x \in Elements(w) : \E i \in 1 .. n : x = w[i]
  BY <1>13 DEF Elements
<1>16. \A i \in 1 .. n : w[i] \in Elements(w)
  BY <1>13 DEF Elements
<1>17. \A i \in 1 .. n : /\ w[i].label = s[i].label /\ w[i].isFeatParam = s[i].isFeatParam
                         /\ w[i].feature = s[i].feature /\ w[i].offset = s[i].offset
                         /\ Scope(w[i]) = Scope(s[i]) /\ w[i].index.lookup = I(i)
  BY <1>12 DEF SameCore, Scope
<1>18. \A i \in 1 .. nl : i \in 1 .. n /\ i \in 1 .. nd /\ ~IsRefLab(s[i].label) /\ ~s[i].isFeatParam
                          /\ I(i) = RegularIndex(s, i)
  BY <1>0, <1>1 DEF I
<1>19. \A i \in 1 .. n : IsLookup(w[i]) => i \in 1 .. nl
  BY <1>0, <1>1, <1>17 DEF IsLookup
<1>20. \A x \in Elements(w) : ~x.isFeatParam => x.index.lookup \in Nat
  <2>1. ASSUME NEW x \in Elements(w), ~x.isFeatParam PROVE x.index.lookup \in Nat
    <3>1. PICK i \in 1 .. n : x = w[i]
      BY <1>15
    <3>2. PICK k \in 1 .. nl : I(i) = RegularIndex(s, k)
      BY <1>10, <1>17, <2>1, <3>1
    <3> QED
      BY <1>4, <1>17, <3>1, <3>2
  <2> QED
    BY <2>1
<1>21. \A x, y \in Elements(w) : ~x.isFeatParam /\ ~y.isFeatParam =>
          (x.index.lookup = y.index.lookup <=> BaseLab(x.label) = BaseLab(y.label))
  <2>1. ASSUME NEW x \in Elements(w), NEW y \in Elements(w), ~x.isFeatParam, ~y.isFeatParam
        PROVE  x.index.lookup = y.index.lookup <=> BaseLab(x.label) = BaseLab(y.label)
    <3>1. PICK i \in 1 .. n : x = w[i]
      BY <1>15
    <3>2. PICK j \in 1 .. n : y = w[j]
      BY <1>15
    <3>3. PICK k \in 1 .. nl : s[k].label = BaseLab(s[i].label) /\ I(i) = RegularIndex(s, k)
      BY <1>10, <1>17, <2>1, <3>1
    <3>4. PICK l \in 1 .. nl : s[l].label = BaseLab(s[j].label) /\ I(j) = RegularIndex(s, l)
      BY <1>10, <1>17, <2>1, <3>2
    <3>5. RegularIndex(s, k) = RegularIndex(s, l) <=> s[k].label = s[l].label
      BY <1>4
    <3>6. /\ x.index.lookup = RegularIndex(s, k) /\ y.index.lookup = RegularIndex(s, l)
          /\ BaseLab(x.label) = s[k].label /\ BaseLab(y.label) = s[l].label
      BY <1>17, <3>1, <3>2, <3>3, <3>4
    <3> QED
      BY <3>5, <3>6
  <2> QED
    BY <2>1
<1>22. \A x \in Elements(w), m \in Nat :
          IsLookup(x) /\ m < x.index.lookup => \E y \in Elements(w) : IsLookup(y) /\ y.index.lookup = m
  <2>1. ASSUME NEW x \in Elements(w), NEW m \in Nat, IsLookup(x), m < x.index.lookup
        PROVE  \E y \in Elements(w) : IsLookup(y) /\ y.index.lookup = m
    <3>1. PICK i \in 1 .. n : x = w[i]
      BY <1>15
    <3>2. i \in 1 .. nl
      BY <1>19, <2>1, <3>1
    <3>3. m < RegularIndex(s, i)
      BY <1>17, <1>18, <2>1, <3>1, <3>2
    <3>4. PICK j \in 1 .. nl : RegularIndex(s, j) = m
      BY <1>4, <3>2, <3>3
    <3>5. IsLookup(w[j]) /\ w[j].index.lookup = m /\ w[j] \in Elements(w)
      BY <1>16, <1>17, <1>18, <3>4 DEF IsLookup
    <3> QED
      BY <3>5
  <2> QED
    BY <2>1
<1>23. \A x, y \in Elements(w) :
          IsLookup(x) /\ IsLookup(y) /\ x.index.lookup < y.index.lookup => EarlierLookup(x, y)
  <2>1. ASSUME NEW x \in Elements(w), NEW y \in Elements(w), IsLookup(x), IsLookup(y),
               x.index.lookup < y.index.lookup
        PROVE  EarlierLookup(x, y)
    <3>1. PICK i \in 1 .. n : x = w[i]
      BY <1>15
    <3>2. PICK j \in 1 .. n : y = w[j]
      BY <1>15
    <3>3. i \in 1 .. nl /\ j \in 1 .. nl
      BY <1>19, <2>1, <3>1, <3>2
    <3>4. RegularIndex(s, i) < RegularIndex(s, j)
      BY <1>17, <1>18, <2>1, <3>1, <3>2, <3>3
    <3>5. i < j
      <4>1. RegularIndex(s, i) \in Nat /\ RegularIndex(s, j) \in Nat
        BY <1>4, <3>3
      <4>2. j <= i => RegularIndex(s, j) <= RegularIndex(s, i)
        BY <1>4, <3>3
      <4> QED
        BY <1>1, <3>3, <3>4, <4>1, <4>2
    <3>6. LookupAtMost(s[i], s[j]) /\ s[i].offset # s[j].offset
      <4>1. i # j
        BY <1>0, <3>5
      <4> QED
        BY <3>5, <4>1 DEF InLookupOrder, ListType
    <3>7. /\ ~IsRefLab(s[i].label) /\ ~IsRefLab(s[j].label) /\ ~s[i].isFeatParam /\ ~s[j].isFeatParam
          /\ s[i].offset \in Nat /\ s[j].offset \in Nat
      BY <1>0, <1>18, <3>3 DEF SubType
    <3>8. EarlierLookup(s[i], s[j])
      BY <3>6, <3>7 DEF LookupAtMost, AtMost3, Ord, EarlierLookup
    <3> QED
      BY <1>17, <3>1, <3>2, <3>8 DEF EarlierLookup
  <2> QED
    BY <2>1
<1>24. \A x \in Elements(w) : x.isFeatParam =>
          /\ x.index.lookup >= -1
          /\ \E y \in Elements(w) : y.isFeatParam /\ Scope(y) = Scope(x) /\ y.index.lookup = -1
  <2>1. ASSUME NEW x \in Elements(w), x.isFeatParam
        PROVE  \E y \in Elements(w) : y.isFeatParam /\ Scope(y) = Scope(x) /\ y.index.lookup = -1
    <3>1. PICK i \in 1 .. n : x = w[i]
      BY <1>15
    <3>2. CASE IsRefLab(s[i].label)
      <4>1. I(i) = -1
        <5>1. PICK k \in 1 .. nd : /\ s[k].isFeatParam <=> s[i].isFeatParam
                                   /\ I(i) = IF s[k].isFeatParam THEN -1 ELSE RegularIndex(s, k)
          BY <1>9, <3>2 DEF I
        <5> QED
          BY <1>17, <2>1, <3>1, <5>1
      <4> QED
        BY <1>17, <2>1, <3>1, <4>1
    <3>3. CASE ~IsRefLab(s[i].label)
      <4>1. i \in 1 .. nd
        BY <1>1, <3>3
      <4>2. PICK k \in starts : s[k].label = s[i].label
        BY <1>3, <4>1
      <4>3. k \in 1 .. nd /\ k \in 1 .. n
        BY <1>0, <1>1, <1>3
      <4>4. ~IsRefLab(s[k].label) /\ (s[k].isFeatParam <=> s[i].isFeatParam) /\ Scope(s[k]) = Scope(s[i])
        BY <1>0, <3>3, <4>2, <4>3, Zenon DEF Client
      <4>5. I(k) = -1
        BY <1>3, <1>17, <2>1, <3>1, <4>2, <4>4 DEF I
      <4>6. w[k] \in Elements(w) /\ w[k].isFeatParam /\ Scope(w[k]) = Scope(x) /\ w[k].index.lookup = -1
        BY <1>16, <1>17, <2>1, <3>1, <4>3, <4>4, <4>5
      <4> QED
        BY <4>6
    <3> QED
      BY <3>2, <3>3
  <2>2. ASSUME NEW x \in Elements(w) PROVE x.index.lookup >= -1
    BY <1>11, <1>15, <1>17 DEF I
  <2> QED
    BY <2>1, <2>2
<1>25. \A x \in Elements(w) : IsRefLab(x.label) => \E y \in Elements(w) : y.label = BaseLab(x.label)
  <2>1. ASSUME NEW x \in Elements(w), IsRefLab(x.label)
        PROVE  \E y \in Elements(w) : y.label = BaseLab(x.label)
    <3>1. PICK i \in 1 .. n : x = w[i]
      BY <1>15
    <3>2. PICK k \in 1 .. nd : s[k].label = BaseLab(s[i].label)
      BY <1>9, <1>17, <2>1, <3>1
    <3>3. k \in 1 .. n
      BY <1>0, <1>1
    <3>4. w[k] \in Elements(w) /\ w[k].label = BaseLab(x.label)
      BY <1>16, <1>17, <3>1, <3>2, <3>3
    <3> QED
      BY <3>4
  <2> QED
    BY <2>1
<1>26. LookupFacts(Elements(w))
  BY <1>20, <1>21, <1>22, <1>23, <1>24, <1>25, Zenon DEF LookupFacts
<1>27. LabelsAre(lbl, Elements(w), {})
  <2>1. \A i \in 1 .. n : IsDefinition(w[i]) <=> i \in 1 .. nd
    BY <1>0, <1>1, <1>17 DEF IsDefinition
  <2>2. ASSUME NEW lab \in DOMAIN lbl PROVE \E x \in Elements(w) : IsDefinition(x) /\ lab = x.label
    <3>1. PICK i \in starts : lab = s[i].label
      BY <1>7
    <3>2. i \in 1 .. nd /\ i \in 1 .. n
      BY <1>0, <1>1, <1>3
    <3> QED
      BY <1>16, <1>17, <2>1, <3>1, <3>2
  <2>3. ASSUME NEW x \in Elements(w), IsDefinition(x)
        PROVE  /\ x.label \in DOMAIN lbl
               /\ lbl[x.label].lookupInx = IF x.isFeatParam THEN -1 ELSE x.index.lookup
               /\ lbl[x.label].used <=> \E y \in Elements(w) : y.label = RefLab(x.label)
               /\ lbl[x.label] \in [lookupInx : Int, used : BOOLEAN]
    <3>1. PICK i \in 1 .. n : x = w[i]
      BY <1>15
    <3>2. i \in 1 .. nd
      BY <2>1, <2>3, <3>1
    <3>3. ~IsRefLab(s[i].label)
      BY <1>17, <2>3, <3>1 DEF IsDefinition
    <3>4. /\ s[i].label \in DOMAIN lbl
          /\ lbl[s[i].label].lookupInx = IF s[i].isFeatParam THEN -1 ELSE RegularIndex(s, i)
          /\ lbl[s[i].label].used <=> \E j \in 1 .. n : s[j].label = RefLab(s[i].label)
          /\ lbl[s[i].label] \in [lookupInx : Int, used : BOOLEAN]
      BY <1>8, <3>2
    <3>5. I(i) = RegularIndex(s, i)
      BY <3>3 DEF I
    <3>6. (\E j \in 1 .. n : s[j].label = RefLab(s[i].label))
          <=> \E y \in Elements(w) : y.label = RefLab(x.label)
      BY <1>15, <1>16, <1>17, <3>1
    <3> QED
      BY <1>17, <3>1, <3>4, <3>5, <3>6
  <2>4. DOMAIN lbl = {x.label : x \in {y \in Elements(w) : IsDefinition(y)}}
    <3>1. ASSUME NEW x \in {y \in Elements(w) : IsDefinition(y)} PROVE x.label \in DOMAIN lbl
      BY <2>3
    <3>2. ASSUME NEW lab \in DOMAIN lbl
          PROVE  lab \in {x.label : x \in {y \in Elements(w) : IsDefinition(y)}}
      BY <2>2
    <3> QED
      BY <3>1, <3>2
  <2>5. ASSUME NEW x \in Elements(w), IsDefinition(x)
        PROVE  /\ lbl[x.label] \in [lookupInx : Int, used : BOOLEAN]
               /\ lbl[x.label].lookupInx = IF x.isFeatParam THEN -1 ELSE x.index.lookup
               /\ lbl[x.label].used <=> (x.label \in {} \/ \E y \in Elements(w) : y.label = RefLab(x.label))
    BY <2>3, <2>5
  <2> QED
    BY <2>4, <2>5, Zenon DEF LabelsAre
<1> QED
  BY <1>13, <1>14, <1>26, <1>27 DEF lbl

-----------------------------------------------------------------------------
(* Numbering the features leaves the lookups. *)

SameLookup(x, y) == SameCore(x, y) /\ y.index.lookup = x.index.lookup

\* The same subtables, up to their feature indexes
Renumbers(E, F) ==
    /\ \A x \in E : \E y \in F : SameLookup(x, y)
    /\ \A y \in F : \E x \in E : SameLookup(x, y)

\* Passes that renumber follow each other.
LEMMA RenumberTwice ==
    ASSUME NEW E, NEW F, NEW G, Renumbers(E, F), Renumbers(F, G)
    PROVE  Renumbers(E, G)
<1>1. ASSUME NEW x \in E PROVE \E z \in G : SameLookup(x, z)
  <2>1. PICK y \in F : SameLookup(x, y)
    BY DEF Renumbers
  <2>2. PICK z \in G : SameLookup(y, z)
    BY DEF Renumbers
  <2> QED
    BY <2>1, <2>2 DEF SameLookup, SameCore
<1>2. ASSUME NEW z \in G PROVE \E x \in E : SameLookup(x, z)
  <2>1. PICK y \in F : SameLookup(y, z)
    BY DEF Renumbers
  <2>2. PICK x \in E : SameLookup(x, y)
    BY DEF Renumbers
  <2> QED
    BY <2>1, <2>2 DEF SameLookup, SameCore
<1> QED
  BY <1>1, <1>2 DEF Renumbers

\* What holds of labels and lookup indexes is kept when feature indexes change.
LEMMA RenumberKeeps ==
    ASSUME NEW E, NEW F, Renumbers(E, F)
    PROVE  /\ Client(E) => Client(F)
           /\ LookupFacts(E) => LookupFacts(F)
           /\ \A lbl, calls : LabelsAre(lbl, E, calls) => LabelsAre(lbl, F, calls)
<1>0. /\ \A x \in E : \E y \in F : SameLookup(x, y)
      /\ \A y \in F : \E x \in E : SameLookup(x, y)
  BY DEF Renumbers
<1>1. \A x, y : SameLookup(x, y) =>
         /\ Scope(y) = Scope(x) /\ y.script = x.script /\ y.feature = x.feature /\ y.label = x.label
         /\ y.isFeatParam = x.isFeatParam /\ y.offset = x.offset /\ y.index.lookup = x.index.lookup
         /\ (IsLookup(x) <=> IsLookup(y)) /\ (IsDefinition(x) <=> IsDefinition(y))
  BY DEF SameLookup, SameCore, Scope, IsLookup, IsDefinition
<1>2. Client(E) => Client(F)
  <2>1. \A y \in F : \E x \in E : SameCore(x, y)
    BY <1>0 DEF SameLookup
  <2> QED
    BY <2>1, ClientOfCores
<1>3. ASSUME LookupFacts(E) PROVE LookupFacts(F)
  <2>1. ASSUME NEW x \in F
        PROVE  /\ ~x.isFeatParam => x.index.lookup \in Nat
               /\ x.isFeatParam =>
                    /\ x.index.lookup >= -1
                    /\ \E y \in F : y.isFeatParam /\ Scope(y) = Scope(x) /\ y.index.lookup = -1
               /\ IsRefLab(x.label) => \E y \in F : y.label = BaseLab(x.label)
               /\ \A m \in Nat :
                     IsLookup(x) /\ m < x.index.lookup => \E y \in F : IsLookup(y) /\ y.index.lookup = m
    <3>1. PICK a \in E : SameLookup(a, x)
      BY <1>0
    <3>2. /\ Scope(x) = Scope(a) /\ x.label = a.label /\ x.isFeatParam = a.isFeatParam
          /\ x.index.lookup = a.index.lookup /\ (IsLookup(a) <=> IsLookup(x))
      BY <1>1, <3>1
    <3>3. ~a.isFeatParam => a.index.lookup \in Nat
      BY <1>3 DEF LookupFacts
    <3>4. a.isFeatParam =>
             /\ a.index.lookup >= -1
             /\ \E y \in E : y.isFeatParam /\ Scope(y) = Scope(a) /\ y.index.lookup = -1
      BY <1>3 DEF LookupFacts
    <3>5. IsRefLab(a.label) => \E y \in E : y.label = BaseLab(a.label)
      BY <1>3 DEF LookupFacts
    <3>6. \A m \in Nat : IsLookup(a) /\ m < a.index.lookup => \E y \in E : IsLookup(y) /\ y.index.lookup = m
      BY <1>3 DEF LookupFacts
    <3>7. x.isFeatParam =>
             /\ x.index.lookup >= -1
             /\ \E y \in F : y.isFeatParam /\ Scope(y) = Scope(x) /\ y.index.lookup = -1
      <4>1. SUFFICES ASSUME x.isFeatParam
                     PROVE  \E y \in F : y.isFeatParam /\ Scope(y) = Scope(x) /\ y.index.lookup = -1
        BY <3>2, <3>4
      <4>2. PICK b \in E : b.isFeatParam /\ Scope(b) = Scope(a) /\ b.index.lookup = -1
        BY <3>2, <3>4, <4>1
      <4>3. PICK y \in F : SameLookup(b, y)
        BY <1>0
      <4> QED
        BY <1>1, <3>2, <4>2, <4>3
    <3>8. IsRefLab(x.label) => \E y \in F : y.label = BaseLab(x.label)
      <4>1. SUFFICES ASSUME IsRefLab(x.label) PROVE \E y \in F : y.label = BaseLab(x.label)
        OBVIOUS
      <4>2. PICK b \in E : b.label = BaseLab(a.label)
        BY <3>2, <3>5, <4>1
      <4>3. PICK y \in F : SameLookup(b, y)
        BY <1>0
      <4> QED
        BY <1>1, <3>2, <4>2, <4>3
    <3>9. ASSUME NEW m \in Nat, IsLookup(x), m < x.index.lookup
          PROVE  \E y \in F : IsLookup(y) /\ y.index.lookup = m
      <4>1. PICK b \in E : IsLookup(b) /\ b.index.lookup = m
        BY <3>2, <3>6, <3>9
      <4>2. PICK y \in F : SameLookup(b, y)
        BY <1>0
      <4> QED
        BY <1>1, <4>1, <4>2
    <3> QED
      BY <3>2, <3>3, <3>7, <3>8, <3>9
  <2>2. ASSUME NEW x \in F, NEW y \in F
        PROVE  /\ ~x.isFeatParam /\ ~y.isFeatParam =>
                    (x.index.lookup = y.index.lookup <=> BaseLab(x.label) = BaseLab(y.label))
               /\ IsLookup(x) /\ IsLookup(y) /\ x.index.lookup < y.index.lookup => EarlierLookup(x, y)
    <3>1. PICK a \in E : SameLookup(a, x)
      BY <1>0
    <3>2. PICK b \in E : SameLookup(b, y)
      BY <1>0
    <3>3. ~a.isFeatParam /\ ~b.isFeatParam =>
              (a.index.lookup = b.index.lookup <=> BaseLab(a.label) = BaseLab(b.label))
      BY <1>3, Zenon DEF LookupFacts
    <3>4. IsLookup(a) /\ IsLookup(b) /\ a.index.lookup < b.index.lookup => EarlierLookup(a, b)
      BY <1>3, Zenon DEF LookupFacts
    <3>5. /\ x.label = a.label /\ x.isFeatParam = a.isFeatParam /\ x.feature = a.feature
          /\ x.index.lookup = a.index.lookup /\ (IsLookup(a) <=> IsLookup(x)) /\ x.offset = a.offset
      BY <1>1, <3>1
    <3>6. /\ y.label = b.label /\ y.isFeatParam = b.isFeatParam /\ y.feature = b.feature
          /\ y.index.lookup = b.index.lookup /\ (IsLookup(b) <=> IsLookup(y)) /\ y.offset = b.offset
      BY <1>1, <3>2
    <3>7. EarlierLookup(a, b) <=> EarlierLookup(x, y)
      BY <3>5, <3>6 DEF EarlierLookup
    <3> QED
      BY <3>3, <3>4, <3>5, <3>6, <3>7
  <2> QED
    BY <2>1, <2>2, Zenon DEF LookupFacts
<1>4. ASSUME NEW lbl, NEW calls, LabelsAre(lbl, E, calls) PROVE LabelsAre(lbl, F, calls)
  <2>0. /\ DOMAIN lbl = {x.label : x \in {y \in E : IsDefinition(y)}}
        /\ \A x \in E : IsDefinition(x) =>
              /\ lbl[x.label] \in [lookupInx : Int, used : BOOLEAN]
              /\ lbl[x.label].lookupInx = IF x.isFeatParam THEN -1 ELSE x.index.lookup
              /\ lbl[x.label].used <=> (x.label \in calls \/ \E y \in E : y.label = RefLab(x.label))
    BY <1>4, Zenon DEF LabelsAre
  <2>1. {x.label : x \in {y \in E : IsDefinition(y)}} = {x.label : x \in {y \in F : IsDefinition(y)}}
    <3>1. ASSUME NEW x \in E, IsDefinition(x) PROVE \E y \in F : IsDefinition(y) /\ y.label = x.label
      <4>1. PICK y \in F : SameLookup(x, y)
        BY <1>0
      <4> QED
        BY <1>1, <3>1, <4>1
    <3>2. ASSUME NEW y \in F, IsDefinition(y) PROVE \E x \in E : IsDefinition(x) /\ x.label = y.label
      <4>1. PICK x \in E : SameLookup(x, y)
        BY <1>0
      <4> QED
        BY <1>1, <3>2, <4>1
    <3>3. \A x \in {y \in E : IsDefinition(y)} : x.label \in {z.label : z \in {y \in F : IsDefinition(y)}}
      BY <3>1
    <3>4. \A x \in {y \in F : IsDefinition(y)} : x.label \in {z.label : z \in {y \in E : IsDefinition(y)}}
      BY <3>2
    <3> QED
      BY <3>3, <3>4
  <2>2. ASSUME NEW x \in F, IsDefinition(x)
        PROVE  /\ lbl[x.label] \in [lookupInx : Int, used : BOOLEAN]
               /\ lbl[x.label].lookupInx = IF x.isFeatParam THEN -1 ELSE x.index.lookup
               /\ lbl[x.label].used <=> (x.label \in calls \/ \E y \in F : y.label = RefLab(x.label))
    <3>1. PICK a \in E : SameLookup(a, x)
      BY <1>0
    <3>2. /\ x.label = a.label /\ x.isFeatParam = a.isFeatParam
          /\ x.index.lookup = a.index.lookup /\ IsDefinition(a)
      BY <1>1, <2>2, <3>1
    <3>3. (\E y \in E : y.label = RefLab(a.label)) <=> (\E y \in F : y.label = RefLab(a.label))
      <4>1. ASSUME NEW y \in E PROVE \E z \in F : z.label = y.label
        BY <1>0, <1>1
      <4>2. ASSUME NEW z \in F PROVE \E y \in E : z.label = y.label
        BY <1>0, <1>1
      <4> QED
        BY <4>1, <4>2
    <3>4. /\ lbl[a.label] \in [lookupInx : Int, used : BOOLEAN]
          /\ lbl[a.label].lookupInx = IF a.isFeatParam THEN -1 ELSE a.index.lookup
          /\ lbl[a.label].used <=> (a.label \in calls \/ \E y \in E : y.label = RefLab(a.label))
      BY <2>0, <3>2
    <3> QED
      BY <3>2, <3>3, <3>4
  <2> QED
    BY <2>0, <2>1, <2>2, Zenon DEF LabelsAre
<1> QED
  BY <1>2, <1>3, <1>4

\* The sizes of the intervals that positions and offsets range over
LEMMA UpTo ==
    ASSUME NEW n \in Nat
    PROVE  /\ IsFiniteSet(1 .. n) /\ Cardinality(1 .. n) = n
           /\ IsFiniteSet(0 .. n - 1) /\ Cardinality(0 .. n - 1) = n
<1> DEFINE m == n - 1
<1>1. 1 \in Int /\ 0 \in Int /\ n \in Int /\ m \in Int
  OBVIOUS
<1> HIDE DEF m
<1>2. IsFiniteSet(1 .. n) /\ Cardinality(1 .. n) = IF 1 > n THEN 0 ELSE n - 1 + 1
  BY <1>1, FS_Interval
<1>3. IsFiniteSet(0 .. m) /\ Cardinality(0 .. m) = IF 0 > m THEN 0 ELSE m - 0 + 1
  BY <1>1, FS_Interval
<1> QED
  BY <1>2, <1>3 DEF m

\* Each offset below the length is that of an element.
LEMMA UnsortedIs ==
    ASSUME NEW s, ListType(s)
    PROVE  /\ ListType(Unsorted(s)) /\ InAddingOrder(Unsorted(s))
           /\ Elements(Unsorted(s)) = Elements(s)
<1> DEFINE n == Len(s)
           t == Unsorted(s)
           f == [i \in 1 .. n |-> s[i].offset]
<1>0. n \in Nat /\ n \in 0 .. MaxSubtables /\ DOMAIN s = 1 .. n /\ \A i \in 1 .. n : s[i] \in SubType
  BY ListIs
<1>1. /\ \A i \in 1 .. n : s[i].offset \in 0 .. n - 1
      /\ \A i, j \in 1 .. n : s[i].offset = s[j].offset => i = j
  BY DEF ListType
<1>2. \A o \in 0 .. n - 1 : \E i \in 1 .. n : s[i].offset = o
  <2>1. f \in [1 .. n -> 0 .. n - 1] /\ \A i, j \in 1 .. n : f[i] = f[j] => i = j
    BY <1>1
  <2>2. IsFiniteSet(1 .. n) /\ Cardinality(1 .. n) = n /\ IsFiniteSet(0 .. n - 1) /\ Cardinality(0 .. n - 1) = n
    BY <1>0, UpTo
  <2>3. \A o \in 0 .. n - 1 : \E i \in 1 .. n : f[i] = o
    <3> DEFINE S == 1 .. n
               T == 0 .. n - 1
    <3>1. IsFiniteSet(S) /\ IsFiniteSet(T) /\ Cardinality(S) = Cardinality(T) /\ f \in [S -> T]
          /\ \A i, j \in S : f[i] = f[j] => i = j
      BY <2>1, <2>2
    <3> HIDE DEF f, S, T
    <3>2. \A o \in T : \E i \in S : f[i] = o
      BY <3>1, IntoItself
    <3> QED
      BY <3>2 DEF S, T
  <2> QED
    BY <2>3
<1>3. ASSUME NEW i \in 1 .. n PROVE \E j \in 1 .. n : t[i] = s[j] /\ s[j].offset = i - 1
  <2>1. i - 1 \in 0 .. n - 1
    BY <1>0
  <2>2. PICK j \in 1 .. n : s[j].offset = i - 1
    BY <1>2, <2>1
  <2>3. (CHOOSE k \in DOMAIN s : s[k].offset = i - 1) = j
    BY <1>0, <1>1, <2>2
  <2>4. t[i] = s[j]
    BY <1>0, <2>3 DEF Unsorted
  <2> QED
    BY <2>2, <2>4
<1>4. t \in Seq(SubType) /\ Len(t) = n
  <2>1. t = [i \in 1 .. n |-> t[i]]
    BY <1>0 DEF Unsorted
  <2>2. \A i \in 1 .. n : t[i] \in SubType
    BY <1>0, <1>3
  <2>3. t \in [1 .. n -> SubType]
    BY <2>1, <2>2
  <2>4. t \in Seq(SubType)
    BY <1>0, <2>3, SeqDef
  <2> QED
    BY <1>0, <2>3, <2>4, LenProperties
<1> HIDE DEF t
<1>5. \A i \in 1 .. n : t[i].offset = i - 1
  BY <1>3
<1>6. ListType(t) /\ InAddingOrder(t)
  BY <1>0, <1>4, <1>5 DEF ListType, InAddingOrder
<1>7. ASSUME NEW x \in Elements(s) PROVE x \in Elements(t)
  <2>1. PICK j \in 1 .. n : x = s[j]
    BY DEF Elements
  <2>2. s[j].offset \in 0 .. n - 1
    BY <1>1
  <2>3. s[j].offset + 1 \in 1 .. n /\ (s[j].offset + 1) - 1 = s[j].offset
    BY <1>0, <2>2
  <2>4. PICK k \in 1 .. n : t[s[j].offset + 1] = s[k] /\ s[k].offset = s[j].offset
    BY <1>3, <2>3
  <2>5. k = j
    BY <1>1, <2>4
  <2> QED
    BY <1>4, <2>1, <2>3, <2>4, <2>5 DEF Elements
<1>8. ASSUME NEW x \in Elements(t) PROVE x \in Elements(s)
  BY <1>3, <1>4 DEF Elements
<1> QED
  BY <1>6, <1>7, <1>8 DEF t

\* The span is a part of the list.
LEMMA SpanLimitIs ==
    ASSUME NEW s, ListType(s)
    PROVE  /\ SpanLimit(s) \in 0 .. Len(s)
           /\ nAnonSubtables(s) \in Nat /\ nStandAlone(s) \in Nat
           /\ SpanLimit(s) = Len(s) - nAnonSubtables(s)
<1>0. Len(s) \in Nat /\ DOMAIN s = 1 .. Len(s)
  BY ListIs
<1>1. IsFiniteSet(1 .. Len(s)) /\ Cardinality(1 .. Len(s)) = Len(s)
  BY <1>0, UpTo
<1> DEFINE A == {i \in DOMAIN s : s[i].script = UNDEF}
           B == {i \in DOMAIN s : s[i].feature = STAND_ALONE}
<1>2. A \subseteq 1 .. Len(s) /\ B \subseteq 1 .. Len(s)
  BY <1>0
<1>3. nAnonSubtables(s) = Cardinality(A) /\ nStandAlone(s) = Cardinality(B)
  BY DEF nAnonSubtables, nStandAlone
<1> HIDE DEF A, B
<1>4. Cardinality(A) \in Nat /\ Cardinality(B) \in Nat /\ Cardinality(A) <= Len(s)
  BY <1>1, <1>2, Part
<1> QED
  BY <1>0, <1>3, <1>4 DEF SpanLimit

\* Numbers are set in the span only.
LEMMA NumberedIs ==
    ASSUME NEW s, ListType(s), NEW key, NEW t, t = Numbered(s, key)
    PROVE  /\ ListType(t) /\ SameCores(s, t) /\ Renumbers(Elements(s), Elements(t))
           /\ RunNumbering(key, SpanLimit(s))
           /\ \A i \in 1 .. Len(s) :
                 /\ t[i].index.lookup = s[i].index.lookup
                 /\ t[i].index.feature = IF i =< SpanLimit(s) THEN RunOf(key, 1, i) ELSE s[i].index.feature
<1> DEFINE n == Len(s)
           h == SpanLimit(s)
           r(i) == RunOf(key, 1, i)
<1>0. n \in Nat /\ DOMAIN s = 1 .. n /\ \A i \in 1 .. n : s[i] \in SubType
  BY ListIs
<1>1. h \in 0 .. n /\ h \in Nat
  <2>1. h \in 0 .. n
    BY SpanLimitIs
  <2> QED
    BY <1>0, <2>1
<1>2. RunNumbering(key, h)
  BY <1>1, RunNumbers
<1>3. \A i \in 1 .. h : r(i) \in Nat
  BY <1>2, Zenon DEF RunNumbering
<1>4. /\ DOMAIN t = 1 .. n
      /\ \A i \in 1 .. n : t[i] = IF i =< h THEN [s[i] EXCEPT !.index.feature = r(i)] ELSE s[i]
      /\ t = [i \in 1 .. n |-> t[i]]
  BY <1>0 DEF Numbered
<1> HIDE DEF h, r
<1>5. ASSUME NEW i \in 1 .. n
      PROVE  /\ t[i] \in SubType /\ SameLookup(s[i], t[i])
             /\ t[i].index.feature = IF i =< h THEN r(i) ELSE s[i].index.feature
  <2>1. CASE i <= h
    <3>1. i \in 1 .. h
      BY <1>0, <1>1, <2>1
    <3>2. r(i) \in Int
      BY <1>3, <3>1
    <3>3. t[i] = [s[i] EXCEPT !.index.feature = r(i)] /\ s[i] \in SubType
      BY <1>0, <1>4, <2>1
    <3>4. t[i] \in SubType
      BY <3>2, <3>3 DEF SubType
    <3>5. SameLookup(s[i], t[i]) /\ t[i].index.feature = r(i)
      BY <3>2, <3>3 DEF SubType, SameLookup, SameCore
    <3> QED
      BY <2>1, <3>4, <3>5
  <2>2. CASE ~(i <= h)
    <3>1. t[i] = s[i]
      BY <1>4, <2>2
    <3> QED
      BY <1>0, <2>2, <3>1 DEF SameLookup, SameCore
  <2> QED
    BY <2>1, <2>2
<1>6. t \in Seq(SubType) /\ Len(t) = n
  <2>1. t \in [1 .. n -> SubType]
    BY <1>4, <1>5
  <2>2. t \in Seq(SubType)
    BY <1>0, <2>1, SeqDef
  <2> QED
    BY <1>0, <2>1, <2>2, LenProperties
<1>7. SameCores(s, t)
  BY <1>5, <1>6 DEF SameCores, SameLookup
<1>8. Renumbers(Elements(s), Elements(t))
  <2>1. ASSUME NEW x \in Elements(s) PROVE \E y \in Elements(t) : SameLookup(x, y)
    <3>1. PICK i \in 1 .. n : x = s[i]
      BY DEF Elements
    <3>2. t[i] \in Elements(t)
      BY <1>6 DEF Elements
    <3> QED
      BY <1>5, <3>1, <3>2
  <2>2. ASSUME NEW y \in Elements(t) PROVE \E x \in Elements(s) : SameLookup(x, y)
    <3>1. PICK i \in 1 .. n : y = t[i]
      BY <1>6 DEF Elements
    <3>2. s[i] \in Elements(s)
      BY DEF Elements
    <3> QED
      BY <1>5, <3>1, <3>2
  <2> QED
    BY <2>1, <2>2 DEF Renumbers
<1>9. ListType(t)
  BY <1>6, <1>7, CoresKeep
<1> QED
  BY <1>2, <1>5, <1>7, <1>8, <1>9 DEF h, r, SameLookup

\* One of the two passes of calcFeatureListIndexes
LEMMA PassKeeps ==
    ASSUME NEW s, ListType(s), NEW t, ListType(t), SameElements(s, t), NEW key,
           NEW v, v = Unsorted(Numbered(t, key))
    PROVE  /\ ListType(v) /\ InAddingOrder(v) /\ Renumbers(Elements(s), Elements(v))
           /\ Elements(v) = Elements(Numbered(t, key))
<1> DEFINE u == Numbered(t, key)
<1>1. ListType(u) /\ Renumbers(Elements(t), Elements(u))
  BY NumberedIs
<1>2. v = Unsorted(u)
  OBVIOUS
<1> HIDE DEF u
<1>3. ListType(v) /\ InAddingOrder(v) /\ Elements(v) = Elements(u)
  BY <1>1, <1>2, UnsortedIs
<1>4. Elements(t) = Elements(s)
  BY ListIs, ElementsOfSame
<1> QED
  BY <1>1, <1>3, <1>4 DEF u

\* calcFeatureListIndexes keeps everything but the feature indexes.
LEMMA FeatureIndexesKeep ==
    ASSUME NEW w, ListType(w), NEW t \in WithFeatureIndexes(w)
    PROVE  ListType(t) /\ InAddingOrder(t) /\ Renumbers(Elements(w), Elements(t))
<1>7. PICK u \in ByScope(w) :
         t \in {Unsorted(Numbered(v, IndexRuns(v))) : v \in Orders(u, FeatureOrder(u))}
  BY DEF WithFeatureIndexes
<1>1. PICK v \in Orders(u, FeatureOrder(u)) : t = Unsorted(Numbered(v, IndexRuns(v)))
  BY <1>7
<1>2. PICK x \in Orders(w, ScopeOrder(w)) : u = Unsorted(Numbered(x, FeatureRuns(x)))
  BY DEF ByScope
<1>3. ListType(x) /\ SameElements(w, x)
  BY SortsByScope
<1>4. ListType(u) /\ Renumbers(Elements(w), Elements(u))
  BY <1>2, <1>3, PassKeeps
<1>5. ListType(v) /\ SameElements(u, v)
  BY <1>4, SortsByFeature
<1>6. ListType(t) /\ InAddingOrder(t) /\ Renumbers(Elements(u), Elements(t))
  BY <1>1, <1>4, <1>5, PassKeeps
<1> QED
  BY <1>4, <1>6, RenumberTwice

-----------------------------------------------------------------------------
(* The LookupList *)

LookupListIs(lookups, E) ==
    /\ DOMAIN lookups = {x.index.lookup : x \in {y \in E : IsLookup(y)}}
    /\ \A k \in DOMAIN lookups :
          lookups[k] = {x.offset : x \in {y \in E : IsLookup(y) /\ y.index.lookup = k}}

\* Each lookup is at its index, with all of its subtables.
LEMMA LookupListOf ==
    ASSUME NEW s, ListType(s), InLookupOrder(s), LookupFacts(Elements(s))
    PROVE  LookupListIs(LookupList(s), Elements(s))
<1> DEFINE hi == LookupSpan(s)
           key == [i \in DOMAIN s |-> s[i].index.lookup]
           T == RunStarts(key, 1, hi)
           st == InOrder(T)
           E == Elements(s)
<1>0. /\ Len(s) \in Nat /\ DOMAIN s = 1 .. Len(s)
      /\ \A i \in 1 .. Len(s) : s[i] \in SubType /\ s[i] \in E
  BY ListIs DEF Elements
<1>1. /\ hi \in 0 .. Len(s)
      /\ \A i \in 1 .. Len(s) : i =< hi <=> IsLookup(s[i])
  <2>1. /\ DefinitionSpan(s) \in 0 .. Len(s) /\ LookupSpan(s) \in 0 .. DefinitionSpan(s)
        /\ \A i \in 1 .. Len(s) : i =< LookupSpan(s) <=> ~IsRefLab(s[i].label) /\ ~s[i].isFeatParam
    BY LookupSpans
  <2> QED
    BY <1>0, <2>1 DEF IsLookup
<1> HIDE DEF hi
<1>2. hi \in Nat /\ \A i \in 1 .. hi : i \in 1 .. Len(s) /\ IsLookup(s[i]) /\ key[i] = s[i].index.lookup
  BY <1>0, <1>1
<1>3. \A x \in E : \E i \in 1 .. Len(s) : x = s[i]
  BY DEF Elements
<1> HIDE DEF key, E
<1>4. \A i \in 1 .. hi : key[i] \in Nat
  <2>1. ASSUME NEW i \in 1 .. hi PROVE key[i] \in Nat
    <3>1. s[i] \in E /\ ~s[i].isFeatParam
      BY <1>0, <1>2 DEF IsLookup
    <3> QED
      BY <1>2, <3>1, Zenon DEF LookupFacts, E
  <2> QED
    BY <2>1
<1>5. \A i, j \in 1 .. hi : i =< j => key[i] =< key[j]
  <2>1. ASSUME NEW i \in 1 .. hi, NEW j \in 1 .. hi, i =< j, key[j] < key[i] PROVE FALSE
    <3>1. key[i] \in Nat /\ key[j] \in Nat
      BY <1>4
    <3>2. i # j
      BY <2>1, <3>1
    <3>3. i < j /\ i \in 1 .. Len(s) /\ j \in 1 .. Len(s)
      BY <1>2, <2>1, <3>2
    <3>4. s[i] \in E /\ s[j] \in E /\ IsLookup(s[i]) /\ IsLookup(s[j])
      BY <1>0, <1>2, <3>3
    <3>5. s[j].index.lookup < s[i].index.lookup
      BY <1>2, <2>1
    <3>6. EarlierLookup(s[j], s[i])
      BY <3>4, <3>5, Zenon DEF LookupFacts, E
    <3>7. LookupAtMost(s[i], s[j])
      BY <3>3 DEF InLookupOrder
    <3>8. /\ ~IsRefLab(s[i].label) /\ ~IsRefLab(s[j].label) /\ ~s[i].isFeatParam /\ ~s[j].isFeatParam
          /\ s[i].offset \in Nat /\ s[j].offset \in Nat
      BY <1>0, <3>3, <3>4 DEF IsLookup, SubType
    <3> QED
      BY <3>6, <3>7, <3>8 DEF LookupAtMost, AtMost3, Ord, EarlierLookup
  <2>2. \A i, j \in 1 .. hi : key[i] =< key[j] \/ key[j] < key[i]
    BY <1>4
  <2> QED
    BY <2>1, <2>2
<1>6. \A i \in 1 .. hi, m \in Nat : m < key[i] => \E j \in 1 .. hi : key[j] = m
  <2>1. ASSUME NEW i \in 1 .. hi, NEW m \in Nat, m < key[i] PROVE \E j \in 1 .. hi : key[j] = m
    <3>1. s[i] \in E /\ IsLookup(s[i]) /\ m < s[i].index.lookup
      BY <1>0, <1>2, <2>1
    <3>2. PICK y \in E : IsLookup(y) /\ y.index.lookup = m
      BY <3>1, Zenon DEF LookupFacts, E
    <3>3. PICK j \in 1 .. Len(s) : y = s[j]
      BY <1>3
    <3>4. j \in 1 .. hi
      BY <1>1, <3>2, <3>3
    <3> QED
      BY <1>2, <3>2, <3>3, <3>4
  <2> QED
    BY <2>1
<1>7. /\ IsFiniteSet(T) /\ T \subseteq Int
      /\ \A i \in 1 .. hi : /\ key[i] + 1 \in 1 .. Cardinality(T)
                            /\ st[key[i] + 1] \in T
                            /\ st[key[i] + 1] \in 1 .. i
                            /\ key[st[key[i] + 1]] = key[i]
      /\ \A n \in 1 .. Cardinality(T) :
            st[n] \in T /\ st[n] \in 1 .. hi /\ key[st[n]] = n - 1
  <2>1. hi <= hi /\ T = RunStarts(key, 1, hi)
    BY <1>2
  <2> HIDE DEF T
  <2> QED
    BY <1>2, <1>4, <1>5, <1>6, <2>1, IndexedRuns
<1> HIDE DEF T
<1>8. Cardinality(T) \in Nat /\ Len(st) = Cardinality(T)
  <2>1. Cardinality(T) \in Nat /\ st \in [1 .. Cardinality(T) -> T]
    BY <1>7, InOrderIs
  <2> HIDE DEF st
  <2>2. st \in Seq(T)
    BY <2>1, SeqDef
  <2> QED
    BY <2>1, <2>2, LenProperties
<1> HIDE DEF st
<1> DEFINE list == LookupList(s)
<1>9. /\ DOMAIN list = 0 .. Cardinality(T) - 1
      /\ \A n \in 0 .. Cardinality(T) - 1 :
            list[n] = {s[i].offset : i \in st[n + 1] .. RunEnd(key, st[n + 1], hi)}
  BY <1>8 DEF LookupList, LookupSpan, hi, key, st, T
<1> HIDE DEF list
<1>10. ASSUME NEW n \in 0 .. Cardinality(T) - 1
       PROVE  st[n + 1] .. RunEnd(key, st[n + 1], hi) = {i \in 1 .. hi : key[i] = n}
  <2> DEFINE b == st[n + 1]
  <2>1. n + 1 \in 1 .. Cardinality(T) /\ n \in Nat
    BY <1>8
  <2>2. b \in 1 .. hi /\ key[b] = (n + 1) - 1
    BY <1>7, <2>1
  <2> HIDE DEF b
  <2>3. \A j \in b .. hi : key[j] = key[b] => \A k \in b .. j : key[k] = key[b]
    <3>1. ASSUME NEW j \in b .. hi, key[j] = key[b], NEW k \in b .. j PROVE key[k] = key[b]
      <4>1. j \in 1 .. hi /\ k \in 1 .. hi /\ b <= k /\ k <= j
        BY <1>2, <2>2
      <4>2. key[b] <= key[k] /\ key[k] <= key[j] /\ key[b] \in Nat /\ key[k] \in Nat
        BY <1>4, <1>5, <2>2, <4>1
      <4> QED
        BY <3>1, <4>2
    <3> QED
      BY <3>1
  <2>4. hi \in Nat /\ hi <= hi /\ (hi < hi => key[hi + 1] # key[hi]) /\ b \in 1 .. hi
    BY <1>2, <2>2
  <2>5. b .. RunEnd(key, b, hi) = {j \in b .. hi : key[j] = key[b]}
    BY <2>3, <2>4, RunEndIs
  <2>6. \A i \in 1 .. hi : key[i] = n => i \in b .. hi
    <3>1. ASSUME NEW i \in 1 .. hi, key[i] = n PROVE i \in b .. hi
      <4>1. st[n + 1] \in 1 .. i
        BY <1>7, <3>1
      <4> QED
        BY <1>2, <2>2, <4>1 DEF b
    <3> QED
      BY <3>1
  <2>7. key[b] = n
    BY <2>1, <2>2
  <2>8. \A i \in b .. hi : i \in 1 .. hi
    BY <1>2, <2>2
  <2> QED
    BY <2>5, <2>6, <2>7, <2>8 DEF b
<1>11. ASSUME NEW n \in 0 .. Cardinality(T) - 1
       PROVE  list[n] = {x.offset : x \in {y \in E : IsLookup(y) /\ y.index.lookup = n}}
  <2>1. list[n] = {s[i].offset : i \in {j \in 1 .. hi : key[j] = n}}
    BY <1>9, <1>10
  <2>2. ASSUME NEW i \in {j \in 1 .. hi : key[j] = n}
        PROVE  s[i] \in {y \in E : IsLookup(y) /\ y.index.lookup = n}
    BY <1>0, <1>2
  <2>3. ASSUME NEW x \in {y \in E : IsLookup(y) /\ y.index.lookup = n}
        PROVE  \E i \in {j \in 1 .. hi : key[j] = n} : x = s[i]
    <3>1. PICK i \in 1 .. Len(s) : x = s[i]
      BY <1>3
    <3>2. i \in 1 .. hi
      BY <1>1, <3>1
    <3> QED
      BY <1>2, <3>1, <3>2
  <2> QED
    BY <2>1, <2>2, <2>3
<1>12. ASSUME NEW x \in {y \in E : IsLookup(y)}
       PROVE  x.index.lookup \in 0 .. Cardinality(T) - 1
  <2>1. PICK i \in 1 .. Len(s) : x = s[i]
    BY <1>3
  <2>2. i \in 1 .. hi /\ key[i] = x.index.lookup
    BY <1>1, <1>2, <2>1
  <2>3. key[i] \in Nat /\ key[i] + 1 \in 1 .. Cardinality(T)
    BY <1>4, <1>7, <2>2
  <2>4. Cardinality(T) \in Nat
    BY <1>8
  <2>5. key[i] \in 0 .. Cardinality(T) - 1
    <3> DEFINE c == Cardinality(T)
               v == key[i]
    <3>1. c \in Nat /\ v \in Nat /\ v + 1 \in 1 .. c
      BY <2>3, <2>4
    <3> HIDE DEF c, v
    <3>2. v \in 0 .. c - 1
      BY <3>1
    <3> QED
      BY <3>2 DEF c, v
  <2> QED
    BY <2>2, <2>5, Zenon
<1>13. ASSUME NEW n \in 0 .. Cardinality(T) - 1
       PROVE  \E x \in {y \in E : IsLookup(y)} : x.index.lookup = n
  <2>1. n + 1 \in 1 .. Cardinality(T) /\ n \in Nat
    BY <1>8
  <2>2. st[n + 1] \in 1 .. hi /\ key[st[n + 1]] = (n + 1) - 1
    BY <1>7, <2>1
  <2>3. s[st[n + 1]] \in {y \in E : IsLookup(y)} /\ s[st[n + 1]].index.lookup = n
    BY <1>0, <1>2, <2>1, <2>2
  <2> QED
    BY <2>3
<1>14. DOMAIN list = {x.index.lookup : x \in {y \in E : IsLookup(y)}}
  BY <1>9, <1>12, <1>13
<1> QED
  BY <1>9, <1>11, <1>14 DEF LookupListIs, E, list

-----------------------------------------------------------------------------
(* otlTableFill *)

\* The table that otlTableFill leaves if it gives nothing up, t being the subtables with
\* their indexes, u and v these in two orders
FilledWith(s, t, u, v) ==
    /\ ~LookupsFail(s) /\ ~FeaturesFail(u)
    /\ t \in WithFeatureIndexes(WithLookupIndexes(s))
    /\ u \in Orders(t, FeatureOrder(t)) /\ v \in Orders(t, ScriptOrder(t))
    /\ tbl' = [langSys |-> LangSysList(v), feature |-> FeatureList(u), lookup |-> LookupList(Sorted(t))]
    /\ subtable' = Sorted(t) /\ label' = Labels(s) /\ pc' = "filled"

\* Fill gives up or leaves such a table.
LEMMA FillIs ==
    ASSUME Fill
    PROVE  /\ pc = "adding" /\ called' = called /\ warned' = warned
           /\ GiveUp \/ \E t, u, v : FilledWith(Sorted(subtable), t, u, v)
<1> DEFINE s == Sorted(subtable)
<1>1. pc = "adding" /\ called' = called /\ warned' = warned
  BY DEF Fill
<1>2. IF LookupsFail(s) THEN GiveUp
      ELSE \E t \in WithFeatureIndexes(WithLookupIndexes(s)) :
           LET sorted == Sorted(t)
               scriptLists == {LangSysList(u) : u \in Orders(t, ScriptOrder(t))}
               lookupList == LookupList(sorted)
           IN  \E byFeature \in Orders(t, FeatureOrder(t)) :
                  IF FeaturesFail(byFeature) THEN GiveUp
                  ELSE /\ \E scriptList \in scriptLists :
                             tbl' = [langSys |-> scriptList, feature |-> FeatureList(byFeature),
                                     lookup |-> lookupList]
                       /\ subtable' = sorted
                       /\ label' = Labels(s)
                       /\ pc' = "filled"
  BY DEF Fill
<1>3. ASSUME ~GiveUp PROVE \E t, u, v : FilledWith(s, t, u, v)
  <2>1. ~LookupsFail(s)
    BY <1>2, <1>3
  <2>2. PICK t \in WithFeatureIndexes(WithLookupIndexes(s)) :
           \E byFeature \in Orders(t, FeatureOrder(t)) :
              IF FeaturesFail(byFeature) THEN GiveUp
              ELSE /\ \E scriptList \in {LangSysList(u) : u \in Orders(t, ScriptOrder(t))} :
                         tbl' = [langSys |-> scriptList, feature |-> FeatureList(byFeature),
                                 lookup |-> LookupList(Sorted(t))]
                   /\ subtable' = Sorted(t)
                   /\ label' = Labels(s)
                   /\ pc' = "filled"
    BY <1>2, <2>1, Zenon
  <2>3. PICK u \in Orders(t, FeatureOrder(t)) :
           IF FeaturesFail(u) THEN GiveUp
           ELSE /\ \E scriptList \in {LangSysList(v) : v \in Orders(t, ScriptOrder(t))} :
                      tbl' = [langSys |-> scriptList, feature |-> FeatureList(u),
                              lookup |-> LookupList(Sorted(t))]
                /\ subtable' = Sorted(t)
                /\ label' = Labels(s)
                /\ pc' = "filled"
    BY <2>2, Zenon
  <2>4. ~FeaturesFail(u) /\ subtable' = Sorted(t) /\ label' = Labels(s) /\ pc' = "filled"
    BY <1>3, <2>3, Zenon
  <2>5. PICK scriptList \in {LangSysList(v) : v \in Orders(t, ScriptOrder(t))} :
           tbl' = [langSys |-> scriptList, feature |-> FeatureList(u), lookup |-> LookupList(Sorted(t))]
    BY <1>3, <2>3, Zenon
  <2>6. PICK v \in Orders(t, ScriptOrder(t)) : scriptList = LangSysList(v)
    BY <2>5
  <2>7. FilledWith(s, t, u, v)
    BY <2>1, <2>4, <2>5, <2>6 DEF FilledWith
  <2> QED
    BY <2>7
<1> QED
  BY <1>1, <1>3 DEF s

\* What the sort by lookups leaves
LEMMA SortedIs ==
    ASSUME NEW s, ListType(s)
    PROVE  /\ ListType(Sorted(s)) /\ SameElements(s, Sorted(s)) /\ InLookupOrder(Sorted(s))
           /\ Elements(Sorted(s)) = Elements(s)
<1>1. Sorted(s) \in Orders(s, LookupOrder(s))
  <2>1. PICK t : t \in Orders(s, LookupOrder(s))
    BY SortsByLookup
  <2> QED
    BY <2>1 DEF Sorted
<1>2. ListType(Sorted(s)) /\ SameElements(s, Sorted(s)) /\ InLookupOrder(Sorted(s))
  BY <1>1, SortsByLookup
<1>3. Len(s) \in Nat
  BY ListIs
<1> HIDE DEF Sorted
<1> QED
  BY <1>2, <1>3, ElementsOfSame

FilledLookups ==
    Filled =>
        /\ ListType(subtable) /\ InLookupOrder(subtable) /\ Client(Elements(subtable))
        /\ LookupFacts(Elements(subtable))
        /\ LookupListIs(tbl.lookup, Elements(subtable))
        /\ LabelsAre(label, Elements(subtable), DOMAIN called)

\* The calls of chaining rules, and the report
CalledInv ==
    /\ pc \in {"adding", "filled", "resolved", "checked", "fatal"}
    /\ pc \in {"adding", "filled"} => DOMAIN called = {}
    /\ pc \in {"resolved", "checked"} =>
          \A lab \in DOMAIN called :
             \E d \in Elements(subtable) :
                IsLookup(d) /\ d.label = lab /\ called[lab] = d.index.lookup
    /\ UnusedReported

\* The subtables with their indexes are what the client added.
LEMMA FilledElements ==
    ASSUME ClientList(subtable), NEW t, NEW u, NEW v, FilledWith(Sorted(subtable), t, u, v)
    PROVE  /\ ListType(t) /\ InAddingOrder(t)
           /\ Client(Elements(t)) /\ LookupFacts(Elements(t))
           /\ LabelsAre(Labels(Sorted(subtable)), Elements(t), {})
<1> DEFINE s == Sorted(subtable)
           w == WithLookupIndexes(s)
<1>1. ListType(s) /\ InLookupOrder(s) /\ Client(Elements(s))
  BY SortedIs DEF ClientList
<1>2. ~LookupsFail(s) /\ t \in WithFeatureIndexes(w)
  BY DEF FilledWith
<1> HIDE DEF s
<1>3. /\ w \in Seq(SubType) /\ SameCores(s, w)
      /\ LookupFacts(Elements(w)) /\ LabelsAre(Labels(s), Elements(w), {})
  BY <1>1, <1>2, LookupIndexes
<1> HIDE DEF w
<1>4. ListType(w) /\ Client(Elements(w))
  BY <1>1, <1>3, CoresKeep
<1>5. ListType(t) /\ InAddingOrder(t) /\ Renumbers(Elements(w), Elements(t))
  BY <1>2, <1>4, FeatureIndexesKeep
<1>6. /\ Client(Elements(t)) /\ LookupFacts(Elements(t))
      /\ LabelsAre(Labels(s), Elements(t), {})
  BY <1>3, <1>4, <1>5, RenumberKeeps
<1> QED
  BY <1>5, <1>6 DEF s

\* otlTableFill establishes the invariants.
LEMMA FillLookups ==
    ASSUME AddingInv, CalledInv, Fill
    PROVE  FilledLookups' /\ CalledInv'
<1>1. /\ pc = "adding" /\ called' = called /\ warned' = warned
      /\ GiveUp \/ \E t, u, v : FilledWith(Sorted(subtable), t, u, v)
  BY FillIs
<1>2. DOMAIN called = {} /\ ClientList(subtable)
  BY <1>1 DEF CalledInv, AddingInv
<1>3. CASE GiveUp
  <2>1. pc' = "fatal"
    BY <1>3 DEF GiveUp
  <2> QED
    BY <1>1, <2>1 DEF FilledLookups, Filled, CalledInv, UnusedReported
<1>4. CASE \E t, u, v : FilledWith(Sorted(subtable), t, u, v)
  <2>1. PICK t, u, v : FilledWith(Sorted(subtable), t, u, v)
    BY <1>4
  <2>2. /\ ListType(t) /\ Client(Elements(t)) /\ LookupFacts(Elements(t))
        /\ LabelsAre(Labels(Sorted(subtable)), Elements(t), {})
    BY <1>2, <2>1, FilledElements
  <2> DEFINE w == Sorted(t)
  <2>3. ListType(w) /\ InLookupOrder(w) /\ Elements(w) = Elements(t)
    BY <2>2, SortedIs
  <2>4. /\ tbl'.lookup = LookupList(w) /\ subtable' = w
        /\ label' = Labels(Sorted(subtable)) /\ pc' = "filled"
    BY <2>1 DEF FilledWith
  <2> HIDE DEF w
  <2>5. LookupListIs(LookupList(w), Elements(w))
    BY <2>2, <2>3, LookupListOf
  <2>6. DOMAIN called' = {}
    BY <1>1, <1>2
  <2>7. FilledLookups'
    <3>1. LabelsAre(label', Elements(w), DOMAIN called')
      BY <2>2, <2>3, <2>4, <2>6
    <3>2. LookupListIs(tbl'.lookup, Elements(w))
      BY <2>4, <2>5
    <3> QED
      BY <2>2, <2>3, <2>4, <3>1, <3>2 DEF FilledLookups
  <2>8. CalledInv'
    BY <2>4, <2>6 DEF CalledInv, UnusedReported
  <2> QED
    BY <2>7, <2>8
<1> QED
  BY <1>1, <1>3, <1>4

-----------------------------------------------------------------------------
(* Chaining rules and the report of unused lookups *)

\* Definitions and references in terms of the elements
LEMMA DefinitionsAre ==
    ASSUME ListType(subtable)
    PROVE  /\ Definitions = {x \in Elements(subtable) : IsDefinition(x)}
           /\ References = {x \in Elements(subtable) : ~IsDefinition(x)}
<1>1. DOMAIN subtable = 1 .. Len(subtable)
  BY ListIs
<1>2. Definitions = {x \in Elements(subtable) : IsDefinition(x)}
  BY <1>1 DEF Definitions, Elements, IsDefinition
<1>3. {subtable[i] : i \in DOMAIN subtable} = Elements(subtable)
  BY <1>1 DEF Elements
<1> QED
  BY <1>2, <1>3 DEF References

\* setAnonLookupIndices: the calls that are noted lead to lookups with these labels.
LEMMA CallsAreNoted ==
    ASSUME FilledLookups, CalledInv, SetAnonLookupIndices
    PROVE  FilledLookups' /\ CalledInv'
<1> DEFINE E == Elements(subtable)
<1>1. pc = "filled" /\ pc' = "resolved" /\ subtable' = subtable /\ tbl' = tbl
  BY DEF SetAnonLookupIndices
<1>2. /\ ListType(subtable) /\ InLookupOrder(subtable) /\ Client(E)
      /\ LookupFacts(E) /\ LookupListIs(tbl.lookup, E) /\ LabelsAre(label, E, DOMAIN called)
  BY <1>1 DEF FilledLookups, Filled
<1>3. PICK calls \in SUBSET {d.label : d \in {x \in Definitions : ~x.isFeatParam}} :
         called' = [lab \in calls |-> label[lab].lookupInx] /\ label' = Marked(calls)
  BY DEF SetAnonLookupIndices
<1>4. DOMAIN called' = calls /\ \A lab \in calls : called'[lab] = label[lab].lookupInx
  BY <1>3
<1>5. DOMAIN called = {}
  BY <1>1 DEF CalledInv
<1>6. /\ DOMAIN label = {x.label : x \in {y \in E : IsDefinition(y)}}
      /\ \A x \in E : IsDefinition(x) =>
            /\ label[x.label] \in [lookupInx : Int, used : BOOLEAN]
            /\ label[x.label].lookupInx = IF x.isFeatParam THEN -1 ELSE x.index.lookup
            /\ label[x.label].used <=> \E y \in E : y.label = RefLab(x.label)
  BY <1>2, <1>5, Zenon DEF LabelsAre
<1>7. \A lab \in calls : \E d \in E : IsLookup(d) /\ d.label = lab /\ called'[lab] = d.index.lookup
  <2>1. ASSUME NEW lab \in calls
        PROVE  \E d \in E : IsLookup(d) /\ d.label = lab /\ called'[lab] = d.index.lookup
    <3>1. PICK d \in Definitions : ~d.isFeatParam /\ lab = d.label
      BY <1>3
    <3>2. d \in E /\ IsDefinition(d) /\ IsLookup(d)
      BY <1>2, <3>1, DefinitionsAre DEF IsDefinition, IsLookup
    <3>3. called'[lab] = d.index.lookup
      BY <1>4, <1>6, <3>1, <3>2
    <3> QED
      BY <3>1, <3>2, <3>3
  <2> QED
    BY <2>1
<1> HIDE DEF E
<1>8. LabelsAre(label', E, calls)
  <2>1. DOMAIN label' = DOMAIN label
    BY <1>3 DEF Marked
  <2>2. ASSUME NEW x \in E, IsDefinition(x)
        PROVE  /\ label'[x.label] \in [lookupInx : Int, used : BOOLEAN]
               /\ label'[x.label].lookupInx = IF x.isFeatParam THEN -1 ELSE x.index.lookup
               /\ label'[x.label].used <=> (x.label \in calls \/ \E y \in E : y.label = RefLab(x.label))
    <3>1. x.label \in DOMAIN label
      BY <1>6, <2>2
    <3>2. label'[x.label] = [label[x.label] EXCEPT !.used = @ \/ x.label \in calls]
      BY <1>3, <3>1 DEF Marked
    <3>3. /\ label[x.label] \in [lookupInx : Int, used : BOOLEAN]
          /\ label[x.label].lookupInx = IF x.isFeatParam THEN -1 ELSE x.index.lookup
          /\ label[x.label].used <=> \E y \in E : y.label = RefLab(x.label)
      BY <1>6, <2>2
    <3>4. /\ label'[x.label] \in [lookupInx : Int, used : BOOLEAN]
          /\ label'[x.label].lookupInx = label[x.label].lookupInx
          /\ label'[x.label].used <=> label[x.label].used \/ x.label \in calls
      BY <3>2, <3>3
    <3> QED
      BY <3>3, <3>4, Zenon
  <2> QED
    BY <1>6, <2>1, <2>2, Zenon DEF LabelsAre
<1>9. FilledLookups'
  BY <1>1, <1>2, <1>4, <1>8 DEF FilledLookups, E
<1>10. CalledInv'
  BY <1>1, <1>4, <1>7 DEF CalledInv, UnusedReported, E
<1> QED
  BY <1>9, <1>10

\* As many elements as are anonymous follow a stand-alone one before the references begin.
LEMMA StandAloneIsChecked ==
    ASSUME NEW s, ListType(s), InLookupOrder(s), Client(Elements(s)),
           NEW p \in 1 .. Len(s), s[p].feature = STAND_ALONE
    PROVE  p =< Len(s) - (nAnonSubtables(s) + nRefLookups(s))
<1> DEFINE n == Len(s)
           nd == DefinitionSpan(s)
           A == {i \in DOMAIN s : s[i].script = UNDEF}
<1>0. /\ n \in Nat /\ DOMAIN s = 1 .. n
      /\ \A i \in 1 .. n : s[i] \in SubType /\ s[i] \in Elements(s)
  BY ListIs DEF Elements
<1>1. /\ nd \in 0 .. n
      /\ \A i \in 1 .. n : i =< nd <=> ~IsRefLab(s[i].label)
  BY LookupSpans
<1>2. \A i \in 1 .. n : /\ Scope(s[i]) \in Regular \cup {Alone, Anonymous}
                        /\ IsRefLab(s[i].label) \/ s[i].isFeatParam => Scope(s[i]) \in Regular
  BY <1>0 DEF Client
<1>3. \A i \in 1 .. n :
         /\ s[i].script = UNDEF \/ s[i].feature = STAND_ALONE =>
               ~IsRefLab(s[i].label) /\ ~s[i].isFeatParam /\ s[i].feature # "aalt"
         /\ s[i].script = UNDEF => s[i].feature # STAND_ALONE
  <2>1. ASSUME NEW i \in 1 .. n
        PROVE  /\ s[i].script = UNDEF \/ s[i].feature = STAND_ALONE =>
                     ~IsRefLab(s[i].label) /\ ~s[i].isFeatParam /\ s[i].feature # "aalt"
               /\ s[i].script = UNDEF => s[i].feature # STAND_ALONE
    <3>1. /\ Scope(s[i]) = Alone <=> s[i].feature = STAND_ALONE
          /\ Scope(s[i]) = Anonymous <=> s[i].script = UNDEF
          /\ Scope(s[i]) = Anonymous <=> s[i].feature = UNDEF
          /\ Scope(s[i]) \in Regular <=> Scope(s[i]) # Alone /\ Scope(s[i]) # Anonymous
      BY <1>2, Classes
    <3> HIDE DEF n
    <3>2. STAND_ALONE # "aalt" /\ UNDEF # "aalt" /\ STAND_ALONE # UNDEF
      BY DEF STAND_ALONE, UNDEF
    <3> QED
      BY <1>2, <3>1, <3>2
  <2> QED
    BY <2>1
<1>4. A \subseteq p + 1 .. nd
  <2>1. ASSUME NEW i \in A PROVE i \in p + 1 .. nd
    <3>1. i \in 1 .. n /\ s[i].script = UNDEF
      BY <1>0
    <3>2. i <= nd
      BY <1>1, <1>3, <3>1
    <3>3. s[i].offset \in Nat /\ s[p].offset \in Nat
      BY <1>0, <3>1 DEF SubType
    <3>4. s[p].script # UNDEF /\ i # p
      <4>1. s[p].script # UNDEF
        BY <1>3
      <4> QED
        BY <3>1, <4>1
    <3>5. ~(s[i].offset < s[p].offset)
      BY <1>0, <3>1, <3>4, Zenon DEF Client
    <3>6. s[i].offset # s[p].offset
      BY <3>1, <3>4 DEF ListType
    <3>7. ~(i < p)
      <4>1. SUFFICES ASSUME i < p PROVE FALSE
        OBVIOUS
      <4>2. LookupAtMost(s[i], s[p])
        BY <3>1, <4>1 DEF InLookupOrder
      <4>3. /\ ~IsRefLab(s[i].label) /\ ~s[i].isFeatParam /\ s[i].feature # "aalt"
            /\ ~IsRefLab(s[p].label) /\ ~s[p].isFeatParam /\ s[p].feature # "aalt"
        BY <1>3, <3>1
      <4> QED
        BY <3>3, <3>5, <3>6, <4>2, <4>3 DEF LookupAtMost, AtMost3, Ord
    <3> QED
      BY <1>0, <3>1, <3>2, <3>4, <3>7
  <2> QED
    BY <2>1
<1>5. p \in 1 .. nd
  BY <1>0, <1>1, <1>3
<1>6. nAnonSubtables(s) = Cardinality(A)
  BY DEF nAnonSubtables
<1> HIDE DEF A
<1>7. IsFiniteSet(p + 1 .. nd) /\ Cardinality(p + 1 .. nd) = nd - p
  <2> DEFINE a == p + 1
  <2>1. a \in Int /\ nd \in Int /\ a - 1 = p /\ a <= nd + 1
    BY <1>0, <1>1, <1>5
  <2> HIDE DEF a, nd
  <2>2. IsFiniteSet(a .. nd) /\ Cardinality(a .. nd) = IF a > nd THEN 0 ELSE nd - a + 1
    BY <2>1, FS_Interval
  <2>3. Cardinality(a .. nd) = nd - (a - 1)
    BY <2>1, <2>2
  <2> QED
    BY <2>1, <2>2, <2>3 DEF a
<1>8. Cardinality(A) \in Nat /\ Cardinality(A) <= nd - p
  <2> DEFINE S == p + 1 .. nd
  <2>1. IsFiniteSet(S) /\ A \subseteq S /\ Cardinality(S) = nd - p
    BY <1>4, <1>7
  <2> HIDE DEF S
  <2> QED
    BY <2>1, Part
<1>9. nd = n - nRefLookups(s)
  BY DEF DefinitionSpan
<1>10. nRefLookups(s) = n - nd
  <2>1. nRefLookups(s) \in Nat
    <3> DEFINE R == {i \in DOMAIN s : IsRefLab(s[i].label)}
    <3>1. IsFiniteSet(1 .. n) /\ R \subseteq 1 .. n
      BY <1>0, UpTo
    <3>2. nRefLookups(s) = Cardinality(R)
      BY DEF nRefLookups
    <3> HIDE DEF R
    <3> QED
      BY <3>1, <3>2, Part
  <2> HIDE DEF nd, n
  <2> QED
    BY <1>0, <1>1, <1>9, <2>1
<1> HIDE DEF nd, n
<1> QED
  BY <1>0, <1>1, <1>5, <1>6, <1>8, <1>10 DEF n

\* The label of a definition is a base label.
LEMMA DefinitionLabel ==
    ASSUME NEW E, E \subseteq SubType, Client(E), NEW x \in E, IsDefinition(x)
    PROVE  BaseLab(x.label) = x.label /\ x.label \in Label /\ BaseLab(RefLab(x.label)) = x.label
<1>1. x.label \in Label /\ BaseLab(x.label) =< FEAT_ANON_LKP_END /\ ~IsRefLab(x.label)
  BY DEF Client, SubType, IsDefinition
<1> QED
  BY <1>1, LabelNumbers

\* Elements have the type of subtables.
LEMMA ElementTypes ==
    ASSUME NEW s, ListType(s)
    PROVE  Elements(s) \subseteq SubType
BY ListIs DEF Elements

\* The index of a lookup is that of its subtables and of no others.
LEMMA LookupAtIndex ==
    ASSUME NEW s, ListType(s), Client(Elements(s)), LookupFacts(Elements(s)),
           NEW lookups, LookupListIs(lookups, Elements(s)),
           NEW d \in Elements(s), IsLookup(d)
    PROVE  /\ d.index.lookup \in DOMAIN lookups
           /\ lookups[d.index.lookup]
              = {x.offset : x \in {y \in Elements(s) : IsDefinition(y) /\ y.label = d.label}}
           /\ \A x \in Elements(s), k \in DOMAIN lookups :
                 x.offset \in lookups[k] => IsLookup(x) /\ k = x.index.lookup
<1> DEFINE E == Elements(s)
<1>0. E \subseteq SubType /\ \A x, y \in E : x.offset = y.offset => x = y
  BY ElementTypes DEF ListType, Elements
<1> HIDE DEF E
<1>1. d \in E /\ Client(E) /\ LookupFacts(E) /\ LookupListIs(lookups, E)
  BY DEF E
<1>2. d.index.lookup \in DOMAIN lookups
  BY <1>1 DEF LookupListIs
<1>3. lookups[d.index.lookup] = {x.offset : x \in {y \in E : IsLookup(y) /\ y.index.lookup = d.index.lookup}}
  BY <1>1, <1>2 DEF LookupListIs
<1>4. ASSUME NEW y \in E
      PROVE  IsLookup(y) /\ y.index.lookup = d.index.lookup <=> IsDefinition(y) /\ y.label = d.label
  <2>1. CASE IsDefinition(y)
    <3>1. BaseLab(y.label) = y.label /\ BaseLab(d.label) = d.label
      <4>1. IsDefinition(d)
        BY DEF IsLookup, IsDefinition
      <4> QED
        BY <1>0, <1>1, <2>1, <4>1, DefinitionLabel
    <3>2. BaseLab(y.label) = BaseLab(d.label) => (y.isFeatParam <=> d.isFeatParam)
      BY <1>1, Zenon DEF Client
    <3>3. ~y.isFeatParam /\ ~d.isFeatParam =>
             (y.index.lookup = d.index.lookup <=> BaseLab(y.label) = BaseLab(d.label))
      BY <1>1, Zenon DEF LookupFacts
    <3>4. ~d.isFeatParam /\ (IsLookup(y) <=> ~y.isFeatParam)
      BY <2>1 DEF IsLookup, IsDefinition
    <3> QED
      BY <2>1, <3>1, <3>2, <3>3, <3>4
  <2>2. CASE ~IsDefinition(y)
    BY <2>2 DEF IsLookup, IsDefinition
  <2> QED
    BY <2>1, <2>2
<1>5. {y \in E : IsLookup(y) /\ y.index.lookup = d.index.lookup}
      = {y \in E : IsDefinition(y) /\ y.label = d.label}
  BY <1>4
<1>6. ASSUME NEW x \in E, NEW k \in DOMAIN lookups, x.offset \in lookups[k]
      PROVE  IsLookup(x) /\ k = x.index.lookup
  <2>1. lookups[k] = {z.offset : z \in {y \in E : IsLookup(y) /\ y.index.lookup = k}}
    BY <1>1 DEF LookupListIs
  <2>2. PICK z \in E : IsLookup(z) /\ z.index.lookup = k /\ x.offset = z.offset
    BY <1>6, <2>1
  <2>3. x = z
    BY <1>0, <2>2
  <2> QED
    BY <2>2, <2>3
<1> QED
  BY <1>2, <1>3, <1>5, <1>6 DEF E

\* The invariants are strong enough for the calls.
LEMMA ChainRules ==
    ASSUME FilledLookups, CalledInv
    PROVE  ChainRulesCall
<1> SUFFICES ASSUME pc \in {"resolved", "checked"}, NEW lab \in DOMAIN called
             PROVE  /\ called[lab] \in DOMAIN tbl.lookup
                    /\ tbl.lookup[called[lab]] = {d.offset : d \in {x \in Definitions : x.label = lab}}
  BY DEF ChainRulesCall
<1> DEFINE E == Elements(subtable)
<1>1. /\ ListType(subtable) /\ Client(E) /\ LookupFacts(E) /\ LookupListIs(tbl.lookup, E)
  BY DEF FilledLookups, Filled
<1>2. PICK d \in E : IsLookup(d) /\ d.label = lab /\ called[lab] = d.index.lookup
  BY DEF CalledInv
<1>3. /\ d.index.lookup \in DOMAIN tbl.lookup
      /\ tbl.lookup[d.index.lookup] = {x.offset : x \in {y \in E : IsDefinition(y) /\ y.label = d.label}}
  BY <1>1, <1>2, LookupAtIndex
<1>4. {x \in Definitions : x.label = lab} = {y \in E : IsDefinition(y) /\ y.label = d.label}
  BY <1>1, <1>2, DefinitionsAre
<1> QED
  BY <1>2, <1>3, <1>4

\* checkStandAloneTablRefs reports the lookups that nothing refers to, and no others.
LEMMA ReportIs ==
    ASSUME FilledLookups, CalledInv, CheckStandAloneTablRefs
    PROVE  FilledLookups' /\ CalledInv'
<1> DEFINE E == Elements(subtable)
<1>0. /\ pc = "resolved" /\ pc' = "checked" /\ subtable' = subtable /\ label' = label
      /\ tbl' = tbl /\ called' = called
      /\ warned' = {inx \in {subtable[i].index.lookup :
                                i \in {j \in Checked : subtable[j].feature = STAND_ALONE}} :
                       ~SeenRef(inx)}
  BY DEF CheckStandAloneTablRefs
<1>1. /\ ListType(subtable) /\ InLookupOrder(subtable) /\ Client(E)
      /\ LookupFacts(E) /\ LookupListIs(tbl.lookup, E) /\ LabelsAre(label, E, DOMAIN called)
  BY <1>0 DEF FilledLookups, Filled
<1>2. /\ DOMAIN subtable = 1 .. Len(subtable) /\ Len(subtable) \in Nat /\ E \subseteq SubType
      /\ \A i \in 1 .. Len(subtable) : subtable[i] \in E
      /\ \A x \in E : \E i \in 1 .. Len(subtable) : x = subtable[i]
  BY <1>1, ListIs, ElementTypes DEF Elements
<1>3. /\ DOMAIN label = {x.label : x \in {y \in E : IsDefinition(y)}}
      /\ \A x \in E : IsDefinition(x) =>
            /\ label[x.label].lookupInx = IF x.isFeatParam THEN -1 ELSE x.index.lookup
            /\ label[x.label].used <=> (x.label \in DOMAIN called \/ \E y \in E : y.label = RefLab(x.label))
  BY <1>1, Zenon DEF LabelsAre
<1> HIDE DEF E
<1>4. ASSUME NEW x \in E, x.feature = STAND_ALONE
      PROVE  IsLookup(x) /\ IsDefinition(x) /\ ~x.isFeatParam
  <2>1. /\ Scope(x) \in Regular \cup {Alone, Anonymous}
        /\ IsRefLab(x.label) \/ x.isFeatParam => Scope(x) \in Regular
    BY <1>1 DEF Client
  <2>2. Scope(x) \notin Regular
    <3>1. /\ Scope(x) = Alone <=> x.feature = STAND_ALONE
          /\ Scope(x) \in Regular <=> Scope(x) # Alone /\ Scope(x) # Anonymous
      BY <2>1, Classes
    <3> QED
      BY <1>4, <3>1
  <2> QED
    BY <2>1, <2>2 DEF IsLookup, IsDefinition
<1>5. {subtable[i].index.lookup : i \in {j \in Checked : subtable[j].feature = STAND_ALONE}}
      = {x.index.lookup : x \in {y \in E : y.feature = STAND_ALONE}}
  <2>1. \A i \in 1 .. Len(subtable) : subtable[i].feature = STAND_ALONE => i \in Checked
    <3>1. ASSUME NEW i \in 1 .. Len(subtable), subtable[i].feature = STAND_ALONE PROVE i \in Checked
      <4> DEFINE c == Len(subtable) - (nAnonSubtables(subtable) + nRefLookups(subtable))
      <4>1. i <= c
        BY <1>1, <3>1, StandAloneIsChecked DEF E
      <4>2. c \in Int
        <5>1. nAnonSubtables(subtable) \in Int /\ nRefLookups(subtable) \in Int
          <6> DEFINE A == {k \in DOMAIN subtable : subtable[k].script = UNDEF}
                     R == {k \in DOMAIN subtable : IsRefLab(subtable[k].label)}
          <6>1. IsFiniteSet(1 .. Len(subtable)) /\ A \subseteq 1 .. Len(subtable) /\ R \subseteq 1 .. Len(subtable)
            BY <1>2, UpTo
          <6>2. nAnonSubtables(subtable) = Cardinality(A) /\ nRefLookups(subtable) = Cardinality(R)
            BY DEF nAnonSubtables, nRefLookups
          <6> HIDE DEF A, R
          <6>3. Cardinality(A) \in Nat /\ Cardinality(R) \in Nat
            BY <6>1, Part
          <6> QED
            BY <6>2, <6>3
        <5> QED
          BY <1>2, <5>1
      <4>3. i \in 1 .. c
        <5> HIDE DEF c
        <5> QED
          BY <4>1, <4>2
      <4> QED
        BY <4>3 DEF Checked
    <3> QED
      BY <3>1
  <2>2. Checked \subseteq 1 .. Len(subtable)
    <3> DEFINE A == {k \in DOMAIN subtable : subtable[k].script = UNDEF}
               R == {k \in DOMAIN subtable : IsRefLab(subtable[k].label)}
    <3>1. IsFiniteSet(1 .. Len(subtable)) /\ A \subseteq 1 .. Len(subtable) /\ R \subseteq 1 .. Len(subtable)
      BY <1>2, UpTo
    <3>2. nAnonSubtables(subtable) = Cardinality(A) /\ nRefLookups(subtable) = Cardinality(R)
      BY DEF nAnonSubtables, nRefLookups
    <3> HIDE DEF A, R
    <3>3. Cardinality(A) \in Nat /\ Cardinality(R) \in Nat
      BY <3>1, Part
    <3> QED
      BY <1>2, <3>2, <3>3 DEF Checked
  <2>3. ASSUME NEW i \in {j \in Checked : subtable[j].feature = STAND_ALONE}
        PROVE  subtable[i] \in {y \in E : y.feature = STAND_ALONE}
    BY <1>2, <2>2
  <2>4. ASSUME NEW x \in {y \in E : y.feature = STAND_ALONE}
        PROVE  \E i \in {j \in Checked : subtable[j].feature = STAND_ALONE} : x = subtable[i]
    BY <1>2, <2>1
  <2> HIDE DEF Checked
  <2> QED
    BY <2>3, <2>4
<1>6. ASSUME NEW x \in E, x.feature = STAND_ALONE
      PROVE  SeenRef(x.index.lookup) <=> x.label \in DOMAIN called \/ \E y \in E : y.label = RefLab(x.label)
  <2>1. IsDefinition(x) /\ ~x.isFeatParam /\ x.index.lookup \in Nat
    <3>1. IsDefinition(x) /\ ~x.isFeatParam
      BY <1>4, <1>6
    <3>2. ~x.isFeatParam => x.index.lookup \in Nat
      BY <1>1, Zenon DEF LookupFacts
    <3> QED
      BY <3>1, <3>2
  <2>2. /\ x.label \in DOMAIN label /\ label[x.label].lookupInx = x.index.lookup
        /\ label[x.label].used <=> x.label \in DOMAIN called \/ \E y \in E : y.label = RefLab(x.label)
    BY <1>3, <2>1
  <2>3. ASSUME NEW lab \in DOMAIN label, label[lab].lookupInx = x.index.lookup
        PROVE  lab = x.label
    <3>1. PICK z \in E : IsDefinition(z) /\ lab = z.label
      BY <1>3
    <3>2. label[z.label].lookupInx = IF z.isFeatParam THEN -1 ELSE z.index.lookup
      BY <1>3, <3>1
    <3>3. ~z.isFeatParam /\ z.index.lookup = x.index.lookup
      BY <2>1, <2>3, <3>1, <3>2
    <3>4. BaseLab(z.label) = BaseLab(x.label)
      BY <1>1, <2>1, <3>3, Zenon DEF LookupFacts
    <3> QED
      BY <1>1, <1>2, <2>1, <3>1, <3>4, DefinitionLabel
  <2> QED
    BY <2>2, <2>3 DEF SeenRef
<1>7. ASSUME NEW x \in E, IsDefinition(x)
      PROVE  (\E y \in E : y.label = RefLab(x.label))
             <=> ~ \A r \in References : BaseLab(r.label) # x.label
  <2>1. References = {y \in E : IsRefLab(y.label)}
    BY <1>1, DefinitionsAre DEF E, IsDefinition
  <2>2. /\ BaseLab(x.label) <= FEAT_ANON_LKP_END /\ x.label \in Label
    BY <1>1, <1>2 DEF Client, SubType
  <2>3. IsRefLab(RefLab(x.label)) /\ BaseLab(RefLab(x.label)) = x.label
    BY <1>7, <2>2, LabelNumbers DEF IsDefinition
  <2>4. ASSUME NEW y \in E, IsRefLab(y.label), BaseLab(y.label) = x.label PROVE y.label = RefLab(x.label)
    <3>1. y.label \in Label /\ BaseLab(y.label) <= FEAT_ANON_LKP_END
      BY <1>1, <1>2 DEF Client, SubType
    <3> QED
      BY <2>4, <3>1, LabelNumbers
  <2> QED
    BY <2>1, <2>3, <2>4
<1>8. ASSUME NEW x \in E, x.feature = STAND_ALONE
      PROVE  /\ x.index.lookup \in DOMAIN tbl.lookup /\ x.offset \in tbl.lookup[x.index.lookup]
             /\ \A k \in DOMAIN tbl.lookup : x.offset \in tbl.lookup[k] => k = x.index.lookup
  <2>1. IsLookup(x) /\ IsDefinition(x)
    BY <1>4, <1>8
  <2>2. /\ x.index.lookup \in DOMAIN tbl.lookup
        /\ tbl.lookup[x.index.lookup] = {z.offset : z \in {y \in E : IsDefinition(y) /\ y.label = x.label}}
        /\ \A y \in E, k \in DOMAIN tbl.lookup :
              y.offset \in tbl.lookup[k] => IsLookup(y) /\ k = y.index.lookup
    BY <1>1, <2>1, LookupAtIndex DEF E
  <2> QED
    BY <2>1, <2>2
<1>9. Definitions = {x \in E : IsDefinition(x)}
  BY <1>1, DefinitionsAre DEF E
<1> DEFINE report == {k \in DOMAIN tbl.lookup :
                        \E d \in Definitions :
                            /\ d.offset \in tbl.lookup[k] /\ d.feature = STAND_ALONE
                            /\ d.label \notin DOMAIN called
                            /\ \A r \in References : BaseLab(r.label) # d.label}
<1>10. ASSUME NEW k \in warned' PROVE k \in report
  <2>1. k \in {x.index.lookup : x \in {y \in E : y.feature = STAND_ALONE}} /\ ~SeenRef(k)
    BY <1>0, <1>5
  <2>2. PICK x \in E : x.feature = STAND_ALONE /\ k = x.index.lookup
    BY <2>1
  <2>3. x.label \notin DOMAIN called /\ ~ \E y \in E : y.label = RefLab(x.label)
    BY <1>6, <2>1, <2>2
  <2>4. x \in Definitions /\ \A r \in References : BaseLab(r.label) # x.label
    BY <1>4, <1>7, <1>9, <2>2, <2>3
  <2> QED
    BY <1>8, <2>2, <2>3, <2>4
<1>11. ASSUME NEW k \in report PROVE k \in warned'
  <2>1. PICK d \in Definitions : /\ d.offset \in tbl.lookup[k] /\ d.feature = STAND_ALONE
                                 /\ d.label \notin DOMAIN called
                                 /\ \A r \in References : BaseLab(r.label) # d.label
    OBVIOUS
  <2>2. d \in E /\ IsDefinition(d) /\ k \in DOMAIN tbl.lookup
    BY <1>9
  <2>3. k = d.index.lookup
    BY <1>8, <2>1, <2>2
  <2>4. ~SeenRef(k)
    BY <1>6, <1>7, <2>1, <2>2, <2>3
  <2>5. k \in {x.index.lookup : x \in {y \in E : y.feature = STAND_ALONE}}
    BY <2>1, <2>2, <2>3
  <2> HIDE DEF report
  <2> QED
    BY <1>0, <1>5, <2>4, <2>5
<1>12. warned' = report
  BY <1>10, <1>11
<1>13. Definitions' = Definitions /\ References' = References
  BY <1>0 DEF Definitions, References
<1>14. UnusedReported'
  BY <1>0, <1>12, <1>13 DEF UnusedReported
<1>15. FilledLookups'
  BY <1>0, <1>1 DEF FilledLookups, E
<1>16. CalledInv'
  BY <1>0, <1>14 DEF CalledInv
<1> QED
  BY <1>15, <1>16

-----------------------------------------------------------------------------
(* The lookup lists as invariants of the whole table *)

OtlInv == AddingInv /\ FilledLookups /\ CalledInv

\* It holds initially,
LEMMA OtlInvInit == Init => OtlInv
<1> SUFFICES ASSUME Init PROVE OtlInv
  OBVIOUS
<1>1. pc = "adding" /\ subtable = <<>> /\ called = Empty
  BY DEF Init
<1>2. Len(subtable) = 0 /\ subtable \in Seq(SubType)
  BY <1>1
<1>3. Elements(subtable) = {}
  BY <1>2 DEF Elements
<1>4. ListType(subtable) /\ InAddingOrder(subtable)
  BY <1>2, OtlAssumption DEF ListType, InAddingOrder
<1>5. Client(Elements(subtable))
  BY <1>3 DEF Client
<1>6. LabelsInUse(Elements(subtable))
  <2>1. 0 \in Nat /\ {BaseLab(x.label) : x \in Elements(subtable)} = 0 .. 0 - 1
    BY <1>3
  <2> QED
    BY <2>1 DEF LabelsInUse
<1>7. SpansFit(subtable)
  <2>1. {i \in DOMAIN subtable : subtable[i].feature = STAND_ALONE} = {}
    BY <1>1
  <2>2. nStandAlone(subtable) = 0
    BY <2>1, FS_EmptySet DEF nStandAlone
  <2> QED
    BY <2>2 DEF SpansFit
<1>8. DOMAIN called = {}
  BY <1>1 DEF Empty
<1> QED
  BY <1>1, <1>4, <1>5, <1>6, <1>7, <1>8
     DEF OtlInv, AddingInv, ClientList, FilledLookups, Filled, CalledInv, UnusedReported

\* every step keeps it,
LEMMA OtlInvNext == OtlInv /\ [Next]_vars => OtlInv'
<1> SUFFICES ASSUME OtlInv, [Next]_vars PROVE OtlInv'
  OBVIOUS
<1>0. AddingInv /\ FilledLookups /\ CalledInv
  BY DEF OtlInv
<1>1. CASE AddLookup \/ AddParam \/ AddMore \/ AddReference \/ AddDangling
  <2>1. AddingInv'
    BY <1>0, <1>1, AddingStep
  <2>2. pc = "adding" /\ pc' = pc /\ called' = called
    BY <1>1 DEF AddLookup, AddParam, AddMore, AddReference, AddDangling, Add
  <2> QED
    BY <1>0, <2>1, <2>2 DEF OtlInv, FilledLookups, Filled, CalledInv, UnusedReported
<1>2. CASE Fill
  <2>1. FilledLookups' /\ CalledInv'
    BY <1>0, <1>2, FillLookups
  <2>2. pc' # "adding"
    <3>1. GiveUp \/ \E t, u, v : FilledWith(Sorted(subtable), t, u, v)
      BY <1>2, FillIs
    <3> QED
      BY <3>1 DEF GiveUp, FilledWith
  <2> QED
    BY <2>1, <2>2 DEF OtlInv, AddingInv
<1>3. CASE SetAnonLookupIndices
  <2>1. FilledLookups' /\ CalledInv'
    BY <1>0, <1>3, CallsAreNoted
  <2>2. pc' = "resolved"
    BY <1>3 DEF SetAnonLookupIndices
  <2> QED
    BY <2>1, <2>2 DEF OtlInv, AddingInv
<1>4. CASE CheckStandAloneTablRefs
  <2>1. FilledLookups' /\ CalledInv'
    BY <1>0, <1>4, ReportIs
  <2>2. pc' = "checked"
    BY <1>4 DEF CheckStandAloneTablRefs
  <2> QED
    BY <2>1, <2>2 DEF OtlInv, AddingInv
<1>5. CASE UNCHANGED vars
  <2>1. /\ pc' = pc /\ subtable' = subtable /\ label' = label /\ tbl' = tbl
        /\ called' = called /\ warned' = warned
    BY <1>5 DEF vars
  <2>2. Definitions' = Definitions /\ References' = References
    BY <2>1 DEF Definitions, References
  <2> QED
    BY <1>0, <2>1, <2>2 DEF OtlInv, AddingInv, FilledLookups, Filled, CalledInv, UnusedReported
<1> QED
  BY <1>1, <1>2, <1>3, <1>4, <1>5 DEF Next, Finished

\* and so it holds in every reachable state.
LEMMA OtlInvariant == Spec => []OtlInv
BY OtlInvInit, OtlInvNext, PTL DEF Spec

\* Whatever the client adds and qsort does, a chaining rule calls the lookup whose label it
\* was given (setAnonLookupIndices after calcLookupListIndexes and prepLookupList).
THEOREM ChainRulesCallCorrect == Spec => []ChainRulesCall
<1>1. OtlInv => ChainRulesCall
  BY ChainRules DEF OtlInv
<1> QED
  BY <1>1, OtlInvariant, PTL

\* Exactly the stand-alone lookups that nothing refers to are reported as unused
\* (checkStandAloneTablRefs), though it looks at no more than a span of the sorted list.
THEOREM UnusedReportedCorrect == Spec => []UnusedReported
<1>1. OtlInv => UnusedReported
  BY DEF OtlInv, CalledInv
<1> QED
  BY <1>1, OtlInvariant, PTL

-----------------------------------------------------------------------------
(* The spans of features: regular subtables, then anonymous, then stand-alone ones *)

ClassOf(x) == IF x.feature = STAND_ALONE THEN 2 ELSE IF x.script = UNDEF THEN 1 ELSE 0

InClassOrder(s) == \A i, j \in 1 .. Len(s) : i < j => ClassOf(s[i]) =< ClassOf(s[j])

IsRegular(x) == Scope(x) \in Regular
IsAnonymous(x) == Scope(x) = Anonymous
IsAlone(x) == Scope(x) = Alone

\* The comparisons by scope, feature and script all begin with the class.
LEMMA ClassFirst ==
    ASSUME NEW E, E \subseteq SubType, Client(E), NEW x \in E, NEW y \in E
    PROVE  /\ ScopeAtMost(x, y) => ClassOf(x) =< ClassOf(y)
           /\ FeatureAtMost(x, y) => ClassOf(x) =< ClassOf(y)
           /\ ScriptAtMost(x, y) => ClassOf(x) =< ClassOf(y)
<1>1. /\ Scope(x) \in Regular \cup {Alone, Anonymous} /\ Scope(y) \in Regular \cup {Alone, Anonymous}
      /\ x \in SubType /\ y \in SubType
  BY DEF Client
<1>2. /\ x.script = UNDEF <=> x.feature = UNDEF
      /\ y.script = UNDEF <=> y.feature = UNDEF
  BY <1>1, Classes
<1>3. STAND_ALONE # UNDEF
  BY DEF STAND_ALONE, UNDEF
<1>4. /\ x.script \in Tags /\ x.language \in Tags /\ x.feature \in Tags
      /\ y.script \in Tags /\ y.language \in Tags /\ y.feature \in Tags
  BY <1>1 DEF SubType
<1>5. UNDEF \in Tags
  <2>1. Anonymous[1] = UNDEF /\ Anonymous[1] \in Tags
    BY ScopeTags DEF Anonymous
  <2> QED
    BY <2>1
<1>6. /\ TagRank[x.script] \in Nat /\ TagRank[y.script] \in Nat /\ TagRank[UNDEF] \in Nat
      /\ TagRank[x.feature] \in Nat /\ TagRank[y.feature] \in Nat
      /\ TagRank[y.script] <= TagRank[UNDEF] /\ TagRank[y.feature] <= TagRank[UNDEF]
      /\ TagRank[y.script] = TagRank[UNDEF] => y.script = UNDEF
      /\ TagRank[y.feature] = TagRank[UNDEF] => y.feature = UNDEF
  BY <1>4, <1>5, TagRanks
<1>7. Ord(x.feature = STAND_ALONE) \in {0, 1} /\ Ord(y.feature = STAND_ALONE) \in {0, 1}
      /\ (Ord(x.feature = STAND_ALONE) = 1 <=> x.feature = STAND_ALONE)
      /\ (Ord(y.feature = STAND_ALONE) = 1 <=> y.feature = STAND_ALONE)
  BY DEF Ord
<1>8. SUFFICES ASSUME y.feature # STAND_ALONE, x.feature # STAND_ALONE, x.script = UNDEF, y.script # UNDEF
               PROVE  ~ScopeAtMost(x, y) /\ ~FeatureAtMost(x, y) /\ ~ScriptAtMost(x, y)
  <2>1. x.feature = STAND_ALONE /\ y.feature # STAND_ALONE =>
           ~ScopeAtMost(x, y) /\ ~FeatureAtMost(x, y) /\ ~ScriptAtMost(x, y)
    BY <1>7 DEF ScopeAtMost, FeatureAtMost, ScriptAtMost, AtMost4
  <2> QED
    BY <1>8, <2>1 DEF ClassOf
<1>9. TagRank[y.script] < TagRank[x.script] /\ TagRank[y.feature] < TagRank[x.feature]
  BY <1>2, <1>6, <1>8
<1>10. x.script # y.script /\ x.feature # y.feature
  BY <1>2, <1>8
<1> QED
  BY <1>6, <1>7, <1>8, <1>9, <1>10 DEF ScopeAtMost, FeatureAtMost, ScriptAtMost, AtMost4, AtMost3

\* Each of the three sorts leaves the classes one after the other.
LEMMA ClassOrderOf ==
    ASSUME NEW s, ListType(s), Client(Elements(s)),
           InScopeOrder(s) \/ InFeatureOrder(s) \/ InScriptOrder(s)
    PROVE  InClassOrder(s)
<1>1. Elements(s) \subseteq SubType /\ \A i \in 1 .. Len(s) : s[i] \in Elements(s)
  BY ElementTypes DEF Elements
<1>2. ASSUME NEW i \in 1 .. Len(s), NEW j \in 1 .. Len(s), i < j
      PROVE  ClassOf(s[i]) =< ClassOf(s[j])
  <2>1. ScopeAtMost(s[i], s[j]) \/ FeatureAtMost(s[i], s[j]) \/ ScriptAtMost(s[i], s[j])
    BY <1>2 DEF InScopeOrder, InFeatureOrder, InScriptOrder
  <2> QED
    BY <1>1, <2>1, ClassFirst
<1> QED
  BY <1>2 DEF InClassOrder

\* Where the classes are, and how far the spans reach
ClassSpans(s) ==
    /\ ListLimit(s) \in 0 .. SpanLimit(s) /\ SpanLimit(s) \in 0 .. Len(s)
    /\ SpanLimit(s) = ListLimit(s) + nStandAlone(s)
    /\ nAnonSubtables(s) \in Nat /\ nStandAlone(s) \in Nat
    /\ ListLimit(s) + nAnonSubtables(s) + nStandAlone(s) = Len(s)
    /\ \A i \in 1 .. Len(s) :
          /\ i =< ListLimit(s) <=> IsRegular(s[i])
          /\ i > ListLimit(s) /\ i =< ListLimit(s) + nAnonSubtables(s) <=> IsAnonymous(s[i])

\* The limits that otl.c counts are the ends of the classes.
LEMMA ClassSpansOf ==
    ASSUME NEW s, ListType(s), Client(Elements(s)), InClassOrder(s)
    PROVE  ClassSpans(s)
<1> DEFINE n == Len(s)
           S0 == {i \in 1 .. n : ClassOf(s[i]) = 0}
           S1 == {i \in 1 .. n : ClassOf(s[i]) =< 1}
           c0 == Cardinality(S0)
           c1 == Cardinality(S1)
<1>0. /\ n \in Nat /\ DOMAIN s = 1 .. n
      /\ \A i \in 1 .. n : s[i] \in Elements(s)
  BY ListIs DEF Elements
<1>1. \A i \in 1 .. n : ClassOf(s[i]) \in {0, 1, 2}
  BY DEF ClassOf
<1>2. \A i, j \in 1 .. n : i < j => ClassOf(s[i]) =< ClassOf(s[j])
  BY DEF InClassOrder
<1>3. S0 = 1 .. c0 /\ c0 \in 0 .. n
  <2>1. \A i \in S0, j \in 1 .. n : j < i => j \in S0
    BY <1>1, <1>2
  <2>2. S0 \subseteq 1 .. n
    OBVIOUS
  <2> HIDE DEF S0
  <2> QED
    BY <1>0, <2>1, <2>2, InitialSegment
<1>4. S1 = 1 .. c1 /\ c1 \in 0 .. n
  <2>1. \A i \in S1, j \in 1 .. n : j < i => j \in S1
    BY <1>1, <1>2
  <2>2. S1 \subseteq 1 .. n
    OBVIOUS
  <2> HIDE DEF S1
  <2> QED
    BY <1>0, <2>1, <2>2, InitialSegment
<1>5. ASSUME NEW i \in 1 .. n
      PROVE  /\ ClassOf(s[i]) = 0 <=> IsRegular(s[i])
             /\ ClassOf(s[i]) = 1 <=> IsAnonymous(s[i])
             /\ s[i].script = UNDEF <=> ClassOf(s[i]) = 1
             /\ s[i].feature = STAND_ALONE <=> ClassOf(s[i]) = 2
  <2>1. Scope(s[i]) \in Regular \cup {Alone, Anonymous}
    BY <1>0 DEF Client
  <2>2. /\ Scope(s[i]) = Alone <=> s[i].feature = STAND_ALONE
        /\ Scope(s[i]) = Anonymous <=> s[i].script = UNDEF
        /\ Scope(s[i]) = Anonymous <=> s[i].feature = UNDEF
        /\ Scope(s[i]) \in Regular <=> Scope(s[i]) # Alone /\ Scope(s[i]) # Anonymous
    BY <2>1, Classes
  <2>3. STAND_ALONE # UNDEF
    BY DEF STAND_ALONE, UNDEF
  <2> QED
    BY <2>2, <2>3 DEF ClassOf, IsRegular, IsAnonymous
<1>6. c0 <= c1
  <2>1. S0 \subseteq S1
    OBVIOUS
  <2> HIDE DEF S0, S1, c0, c1
  <2> QED
    BY <1>3, <1>4, <2>1
<1>7. \A i \in 1 .. n : (ClassOf(s[i]) = 0 <=> i <= c0) /\ (ClassOf(s[i]) <= 1 <=> i <= c1)
  <2>1. \A i \in 1 .. n : (i \in S0 <=> i <= c0) /\ (i \in S1 <=> i <= c1)
    <3> HIDE DEF S0, S1, n, c0, c1
    <3> QED
      BY <1>0, <1>3, <1>4
  <2> HIDE DEF c0, c1
  <2> QED
    BY <2>1
<1> HIDE DEF S0, S1, c0, c1
<1>8. nStandAlone(s) = n - c1
  <2>1. {i \in DOMAIN s : s[i].feature = STAND_ALONE} = c1 + 1 .. n
    BY <1>0, <1>1, <1>4, <1>5, <1>7
  <2> DEFINE a == c1 + 1
  <2>2. a \in Int /\ n \in Int /\ a - 1 = c1 /\ a <= n + 1
    BY <1>0, <1>4
  <2> HIDE DEF a, n
  <2>3. Cardinality(a .. n) = IF a > n THEN 0 ELSE n - a + 1
    BY <2>2, FS_Interval
  <2>4. Cardinality(a .. n) = n - (a - 1)
    BY <2>2, <2>3
  <2> QED
    BY <2>1, <2>2, <2>4 DEF nStandAlone, a
<1>9. nAnonSubtables(s) = c1 - c0
  <2>1. {i \in DOMAIN s : s[i].script = UNDEF} = c0 + 1 .. c1
    BY <1>0, <1>1, <1>3, <1>4, <1>5, <1>7
  <2> DEFINE a == c0 + 1
  <2>2. a \in Int /\ c1 \in Int /\ a - 1 = c0 /\ a <= c1 + 1
    BY <1>0, <1>3, <1>4, <1>6
  <2> HIDE DEF a
  <2>3. Cardinality(a .. c1) = IF a > c1 THEN 0 ELSE c1 - a + 1
    BY <2>2, FS_Interval
  <2>4. Cardinality(a .. c1) = c1 - (a - 1)
    BY <2>2, <2>3
  <2> QED
    BY <2>1, <2>2, <2>4 DEF nAnonSubtables, a
<1>10. c0 \in Nat /\ c1 \in Nat /\ c1 <= n
  BY <1>0, <1>3, <1>4
<1>11. ListLimit(s) = c0 /\ SpanLimit(s) = n - (c1 - c0)
  BY <1>0, <1>8, <1>9, <1>10 DEF ListLimit, SpanLimit
<1>12. \A i \in 1 .. n : (IsRegular(s[i]) <=> i <= c0) /\ (IsAnonymous(s[i]) <=> i > c0 /\ i <= c1)
  BY <1>0, <1>1, <1>5, <1>7, <1>10
<1> HIDE DEF n
<1>13. /\ ListLimit(s) \in 0 .. SpanLimit(s) /\ SpanLimit(s) \in 0 .. n
       /\ SpanLimit(s) = ListLimit(s) + nStandAlone(s)
       /\ nAnonSubtables(s) \in Nat /\ nStandAlone(s) \in Nat
       /\ ListLimit(s) + nAnonSubtables(s) + nStandAlone(s) = n
       /\ ListLimit(s) + nAnonSubtables(s) = c1
  BY <1>0, <1>6, <1>8, <1>9, <1>10, <1>11
<1> QED
  BY <1>11, <1>12, <1>13 DEF ClassSpans, n


\* What the feature indexes say once a pass has set them: regular subtables have the same index
\* exactly if they are of one script, language and feature, all smaller indexes are in use, and
\* the subtable after the last regular one has another index.
FeatureFacts(E) ==
    /\ \A x \in E : IsRegular(x) => x.index.feature \in Nat
    /\ \A x, y \in E :
          IsRegular(x) /\ IsRegular(y) => (x.index.feature = y.index.feature <=> Scope(x) = Scope(y))
    /\ \A x \in E, m \in Nat :
          IsRegular(x) /\ m < x.index.feature => \E y \in E : IsRegular(y) /\ y.index.feature = m
    /\ \A x, y, z \in E :
          IsRegular(x) /\ IsAnonymous(y) /\ IsAlone(z) => x.index.feature # y.index.feature
    /\ \A x, y \in E :
          IsRegular(x) /\ IsAlone(y) /\ (\A z \in E : ~IsAnonymous(z)) =>
             x.index.feature # y.index.feature

\* A pass over a list whose features follow each other sets such indexes, in the order of the
\* list, unless there are more anonymous subtables than stand-alone ones.
LEMMA PassNumbers ==
    ASSUME "manyAnonymous" \notin Forms,
           NEW s, ClientList(s), InClassOrder(s), NEW key,
           \A i, j \in 1 .. ListLimit(s) : key[i] = key[j] <=> Scope(s[i]) = Scope(s[j]),
           \A i, j, m \in 1 .. ListLimit(s) :
              i =< m /\ m =< j /\ Scope(s[i]) = Scope(s[j]) => Scope(s[m]) = Scope(s[i]),
           1 =< ListLimit(s) /\ ListLimit(s) < SpanLimit(s) =>
              key[ListLimit(s) + 1] # key[ListLimit(s)],
           NEW t, t = Numbered(s, key)
    PROVE  /\ ClientList(t) /\ FeatureFacts(Elements(t))
           /\ \A i, j \in 1 .. ListLimit(s) : i =< j => t[i].index.feature =< t[j].index.feature
<1> DEFINE n == Len(s)
           l == ListLimit(s)
           h == SpanLimit(s)
           a == nAnonSubtables(s)
           c == nStandAlone(s)
           r(i) == RunOf(key, 1, i)
<1>1. ListType(s) /\ Client(Elements(s)) /\ SpansFit(s)
  BY DEF ClientList
<1>2. /\ l \in 0 .. h /\ h \in 0 .. n /\ h = l + c /\ a \in Nat /\ c \in Nat /\ l + a + c = n
      /\ \A i \in 1 .. n : (i <= l <=> IsRegular(s[i])) /\ (i > l /\ i <= l + a <=> IsAnonymous(s[i]))
  BY <1>1, ClassSpansOf DEF ClassSpans
<1>3. c = 0 \/ a <= c
  BY <1>1 DEF SpansFit
<1>4. /\ ListType(t) /\ SameCores(s, t)
      /\ RunNumbering(key, h)
      /\ \A i \in 1 .. n : t[i].index.feature = IF i <= h THEN r(i) ELSE s[i].index.feature
  BY <1>1, NumberedIs
<1>5. n \in Nat /\ Len(t) = n /\ \A i \in 1 .. n : SameCore(s[i], t[i])
  BY <1>1, <1>4, ListIs DEF SameCores
<1>6. ClientList(t)
  <2>1. t \in Seq(SubType)
    BY <1>4 DEF ListType
  <2>2. SameCounters(s, t) /\ Client(Elements(t))
    BY <1>1, <1>4, <2>1, CoresKeep
  <2> QED
    BY <1>1, <1>4, <2>2 DEF ClientList, SpansFit, SameCounters
<1>7. \A i \in 1 .. n : /\ Scope(t[i]) = Scope(s[i])
                        /\ IsRegular(t[i]) <=> IsRegular(s[i])
                        /\ IsAnonymous(t[i]) <=> IsAnonymous(s[i])
                        /\ IsAlone(t[i]) <=> IsAlone(s[i])
  BY <1>5 DEF SameCore, Scope, IsRegular, IsAnonymous, IsAlone
<1>8. \A i \in 1 .. n : IsRegular(s[i]) \/ IsAnonymous(s[i]) \/ IsAlone(s[i])
  BY <1>1 DEF Client, Elements, IsRegular, IsAnonymous, IsAlone
<1>9. /\ \A i \in 1 .. h : r(i) \in Nat
      /\ \A i, j \in 1 .. h : i <= j => r(i) <= r(j)
      /\ \A i, j \in 1 .. h : i <= j => (r(i) = r(j) <=> \A m \in i .. j : key[m] = key[i])
      /\ \A i \in 1 .. h, m \in Nat : m < r(i) => \E j \in 1 .. h : r(j) = m
  BY <1>4, Zenon DEF RunNumbering
<1> HIDE DEF n, l, h, a, c, r
<1>10. \A i, j \in 1 .. l : i <= j => (r(i) = r(j) <=> Scope(s[i]) = Scope(s[j]))
  <2> SUFFICES ASSUME NEW i \in 1 .. l, NEW j \in 1 .. l, i <= j
               PROVE  r(i) = r(j) <=> Scope(s[i]) = Scope(s[j])
    OBVIOUS
  <2>1. i \in 1 .. h /\ j \in 1 .. h /\ j \in i .. j /\ \A m \in i .. j : m \in 1 .. l /\ i <= m /\ m <= j
    BY <1>2, <1>5
  <2>2. \A m \in i .. j : key[m] = key[i] <=> Scope(s[m]) = Scope(s[i])
    BY <2>1 DEF l
  <2>3. Scope(s[i]) = Scope(s[j]) => \A m \in i .. j : Scope(s[m]) = Scope(s[i])
    BY <2>1 DEF l
  <2> QED
    BY <1>9, <2>1, <2>2, <2>3
<1>11. \A i \in 1 .. l, j \in 1 .. h : l < j => r(i) < r(j)
  <2> SUFFICES ASSUME NEW i \in 1 .. l, NEW j \in 1 .. h, l < j PROVE r(i) < r(j)
    OBVIOUS
  <2>1. /\ i \in 1 .. h /\ l \in 1 .. h /\ l + 1 \in 1 .. h /\ i <= l /\ l <= l + 1 /\ l + 1 <= j
        /\ l + 1 \in l .. l + 1 /\ 1 <= l /\ l < h
    BY <1>2, <1>5
  <2>2. key[l + 1] # key[l]
    BY <2>1 DEF l, h
  <2>3. r(l) # r(l + 1)
    BY <1>9, <2>1, <2>2
  <2>4. r(i) <= r(l) /\ r(l) <= r(l + 1) /\ r(l + 1) <= r(j)
    BY <1>9, <2>1
  <2>5. r(i) \in Nat /\ r(l) \in Nat /\ r(l + 1) \in Nat /\ r(j) \in Nat
    BY <1>9, <2>1
  <2> QED
    BY <2>3, <2>4, <2>5
<1>12. \A i \in 1 .. h : i \in 1 .. n /\ t[i].index.feature = r(i)
  BY <1>2, <1>4, <1>5
<1>13. \A i \in 1 .. l : i \in 1 .. h /\ i \in 1 .. n
  BY <1>2, <1>5
<1>14. \A x \in Elements(t) : \E i \in 1 .. n : x = t[i] /\ (IsRegular(x) <=> i \in 1 .. l)
  <2> SUFFICES ASSUME NEW i \in 1 .. n PROVE IsRegular(t[i]) <=> i \in 1 .. l
    BY <1>5 DEF Elements
  <2> QED
    BY <1>2, <1>5, <1>7
<1>15. \A i \in 1 .. n : t[i] \in Elements(t)
  BY <1>5 DEF Elements
<1>20. ASSUME NEW x \in Elements(t), IsRegular(x) PROVE x.index.feature \in Nat
  BY <1>9, <1>12, <1>13, <1>14, <1>20
<1>21. ASSUME NEW x \in Elements(t), NEW y \in Elements(t), IsRegular(x), IsRegular(y)
       PROVE  x.index.feature = y.index.feature <=> Scope(x) = Scope(y)
  <2>1. PICK i \in 1 .. l : x = t[i]
    BY <1>14, <1>21
  <2>2. PICK j \in 1 .. l : y = t[j]
    BY <1>14, <1>21
  <2>3. /\ x.index.feature = r(i) /\ y.index.feature = r(j)
        /\ Scope(x) = Scope(s[i]) /\ Scope(y) = Scope(s[j])
    BY <1>7, <1>12, <1>13, <2>1, <2>2
  <2>4. i <= j \/ j <= i
    BY <1>2
  <2> QED
    BY <1>10, <2>3, <2>4
<1>22. ASSUME NEW x \in Elements(t), NEW m \in Nat, IsRegular(x), m < x.index.feature
       PROVE  \E y \in Elements(t) : IsRegular(y) /\ y.index.feature = m
  <2>1. PICK i \in 1 .. l : x = t[i]
    BY <1>14, <1>22
  <2>2. i \in 1 .. h /\ m < r(i)
    BY <1>12, <1>13, <1>22, <2>1
  <2>3. PICK j \in 1 .. h : r(j) = m
    BY <1>9, <2>2
  <2>4. j <= l
    <3>1. r(i) \in Nat /\ ~ r(i) < m
      BY <1>9, <2>2
    <3>2. ~ l < j
      BY <1>11, <2>3, <3>1
    <3> QED
      BY <1>2, <3>2
  <2>5. t[j] \in Elements(t) /\ IsRegular(t[j]) /\ t[j].index.feature = m
    BY <1>2, <1>7, <1>12, <1>15, <2>3, <2>4
  <2> QED
    BY <2>5
<1>23. ASSUME NEW x \in Elements(t), NEW y \in Elements(t), IsRegular(x), ~IsRegular(y),
              NEW j \in 1 .. h, y = t[j]
       PROVE  x.index.feature # y.index.feature
  <2>1. PICK i \in 1 .. l : x = t[i]
    BY <1>14, <1>23
  <2>2. l < j
    BY <1>2, <1>7, <1>12, <1>23
  <2>3. r(i) < r(j) /\ r(i) \in Nat /\ r(j) \in Nat
    BY <1>9, <1>11, <1>13, <2>2
  <2> QED
    BY <1>12, <1>13, <1>23, <2>1, <2>3
<1>24. ASSUME NEW x \in Elements(t), NEW y \in Elements(t), NEW z \in Elements(t),
              IsRegular(x), IsAnonymous(y), IsAlone(z)
       PROVE  x.index.feature # y.index.feature
  <2>1. PICK j \in 1 .. n : y = t[j]
    BY <1>14
  <2>2. PICK k \in 1 .. n : z = t[k]
    BY <1>14
  <2>3. Alone # Anonymous /\ Alone \notin Regular /\ Anonymous \notin Regular
    BY OtlAssumption DEF Alone, Anonymous, STAND_ALONE, UNDEF
  <2>4. ~IsAnonymous(z) /\ ~IsRegular(z) /\ ~IsRegular(y)
    BY <1>24, <2>3 DEF IsAnonymous, IsAlone, IsRegular
  <2>5. k > l + a
    BY <1>2, <1>7, <2>2, <2>4
  <2>6. c # 0
    BY <1>2, <1>5, <2>5
  <2>7. j <= l + a /\ a <= c
    BY <1>2, <1>3, <1>7, <1>24, <2>1, <2>6
  <2>8. j \in 1 .. h
    BY <1>2, <2>7
  <2> QED
    BY <1>23, <1>24, <2>1, <2>4, <2>8
<1>25. ASSUME NEW x \in Elements(t), NEW y \in Elements(t), IsRegular(x), IsAlone(y),
              \A z \in Elements(t) : ~IsAnonymous(z)
       PROVE  x.index.feature # y.index.feature
  <2>1. PICK j \in 1 .. n : y = t[j]
    BY <1>14
  <2>2. a = 0
    <3> SUFFICES ASSUME a # 0 PROVE FALSE
      OBVIOUS
    <3>1. l + 1 \in 1 .. n /\ l + 1 > l /\ l + 1 <= l + a
      BY <1>2, <1>5
    <3>2. IsAnonymous(t[l + 1])
      BY <1>2, <1>7, <3>1
    <3> QED
      BY <1>15, <1>25, <3>1, <3>2
  <2>3. j \in 1 .. h
    BY <1>2, <2>2
  <2>4. ~IsRegular(y)
    <3>1. Alone \notin Regular
      BY OtlAssumption DEF Alone, STAND_ALONE
    <3> QED
      BY <1>25, <3>1 DEF IsAlone, IsRegular
  <2> QED
    BY <1>23, <1>25, <2>1, <2>3, <2>4
<1>26. FeatureFacts(Elements(t))
  BY <1>20, <1>21, <1>22, <1>24, <1>25 DEF FeatureFacts
<1>27. \A i, j \in 1 .. l : i <= j => t[i].index.feature <= t[j].index.feature
  BY <1>9, <1>12, <1>13
<1> QED
  BY <1>6, <1>26, <1>27 DEF l


\* Elements between two of one script, language and feature are of these too, once sorted by them.
LEMMA ScopesFollow ==
    ASSUME NEW s, ListType(s), InScopeOrder(s),
           NEW i \in 1 .. Len(s), NEW j \in 1 .. Len(s), NEW m \in 1 .. Len(s),
           i =< m, m =< j, Scope(s[i]) = Scope(s[j])
    PROVE  Scope(s[m]) = Scope(s[i])
<1>1. CASE i = m \/ m = j
  BY <1>1
<1>2. CASE i < m /\ m < j
  <2>1. ScopeAtMost(s[i], s[m]) /\ ScopeAtMost(s[m], s[j])
    BY <1>2 DEF InScopeOrder
  <2>2. s[i] \in SubType /\ s[m] \in SubType /\ s[j] \in SubType
    BY ListIs
  <2>3. s[j].script = s[i].script /\ s[j].language = s[i].language /\ s[j].feature = s[i].feature
    BY DEF Scope
  <2>4. /\ s[i].script \in Tags /\ s[i].language \in Tags /\ s[i].feature \in Tags
        /\ s[m].script \in Tags /\ s[m].language \in Tags /\ s[m].feature \in Tags
    BY <2>2 DEF SubType
  <2>5. /\ TagRank[s[i].script] \in Nat /\ TagRank[s[i].language] \in Nat /\ TagRank[s[i].feature] \in Nat
        /\ TagRank[s[m].script] \in Nat /\ TagRank[s[m].language] \in Nat /\ TagRank[s[m].feature] \in Nat
        /\ TagRank[s[i].script] = TagRank[s[m].script] => s[i].script = s[m].script
        /\ TagRank[s[i].language] = TagRank[s[m].language] => s[i].language = s[m].language
        /\ TagRank[s[i].feature] = TagRank[s[m].feature] => s[i].feature = s[m].feature
    BY <2>4, TagRanks
  <2>6. Ord(s[i].feature = STAND_ALONE) \in Nat /\ Ord(s[m].feature = STAND_ALONE) \in Nat
    BY DEF Ord
  <2>7. /\ TagRank[s[i].script] = TagRank[s[m].script] /\ TagRank[s[i].language] = TagRank[s[m].language]
        /\ TagRank[s[i].feature] = TagRank[s[m].feature]
    <3> DEFINE o1 == Ord(s[i].feature = STAND_ALONE)
               o2 == Ord(s[m].feature = STAND_ALONE)
               r1 == TagRank[s[i].script]
               r2 == TagRank[s[m].script]
               l1 == TagRank[s[i].language]
               l2 == TagRank[s[m].language]
               f1 == TagRank[s[i].feature]
               f2 == TagRank[s[m].feature]
    <3>1. AtMost4(o1, r1, l1, f1, o2, r2, l2, f2) /\ AtMost4(o2, r2, l2, f2, o1, r1, l1, f1)
      BY <2>1, <2>3 DEF ScopeAtMost
    <3>2. /\ o1 \in Nat /\ r1 \in Nat /\ l1 \in Nat /\ f1 \in Nat
          /\ o2 \in Nat /\ r2 \in Nat /\ l2 \in Nat /\ f2 \in Nat
      BY <2>5, <2>6
    <3> HIDE DEF o1, o2, r1, r2, l1, l2, f1, f2
    <3>3. r1 = r2 /\ l1 = l2 /\ f1 = f2
      BY <3>1, <3>2 DEF AtMost4, AtMost3
    <3> QED
      BY <3>3 DEF r1, r2, l1, l2, f1, f2
  <2> QED
    BY <2>5, <2>7 DEF Scope
<1> QED
  BY <1>1, <1>2, ListIs

\* The subtable after the last regular one has another index than this.
LEMMA NextIndexDiffers ==
    ASSUME NEW s, ListType(s), Client(Elements(s)), InClassOrder(s), FeatureFacts(Elements(s)),
           1 =< ListLimit(s), ListLimit(s) < SpanLimit(s)
    PROVE  IndexRuns(s)[ListLimit(s) + 1] # IndexRuns(s)[ListLimit(s)]
<1> DEFINE n == Len(s)
           l == ListLimit(s)
           a == nAnonSubtables(s)
           c == nStandAlone(s)
<1>1. /\ l \in 0 .. SpanLimit(s) /\ SpanLimit(s) \in 0 .. n /\ SpanLimit(s) = l + c
      /\ a \in Nat /\ c \in Nat /\ l + a + c = n
      /\ \A i \in 1 .. n : (i <= l <=> IsRegular(s[i])) /\ (i > l /\ i <= l + a <=> IsAnonymous(s[i]))
  BY ClassSpansOf DEF ClassSpans
<1>2. n \in Nat /\ DOMAIN s = 1 .. n /\ \A i \in 1 .. n : s[i] \in Elements(s)
  BY ListIs DEF Elements
<1>3. \A i \in 1 .. n : IsRegular(s[i]) \/ IsAnonymous(s[i]) \/ IsAlone(s[i])
  BY <1>2 DEF Client, IsRegular, IsAnonymous, IsAlone
<1>0. 1 =< l /\ l < SpanLimit(s)
  OBVIOUS
<1>4. \A i \in 1 .. n : IndexRuns(s)[i] = s[i].index.feature
  BY <1>2 DEF IndexRuns
<1> HIDE DEF n, l, a, c
<1>5. l \in 1 .. n /\ l + 1 \in 1 .. n /\ l + 1 > l /\ c > 0
  BY <1>0, <1>1, <1>2
<1>6. IsRegular(s[l]) /\ ~IsRegular(s[l + 1])
  BY <1>1, <1>5
<1>7. s[l].index.feature # s[l + 1].index.feature
  <2>1. CASE a = 0
    <3>1. \A i \in 1 .. n : ~IsAnonymous(s[i])
      BY <1>1, <1>2, <2>1
    <3>2. \A z \in Elements(s) : ~IsAnonymous(z)
      BY <3>1 DEF Elements, n
    <3>3. IsAlone(s[l + 1])
      BY <1>3, <1>5, <1>6, <3>1
    <3> QED
      BY <1>2, <1>5, <1>6, <3>2, <3>3 DEF FeatureFacts
  <2>2. CASE a # 0
    <3>1. IsAnonymous(s[l + 1])
      BY <1>1, <1>5, <2>2
    <3>2. n \in 1 .. n /\ ~(n <= l) /\ ~(n <= l + a)
      BY <1>1, <1>2, <1>5
    <3>3. IsAlone(s[n])
      BY <1>1, <1>3, <3>2
    <3> QED
      BY <1>2, <1>5, <1>6, <3>1, <3>2, <3>3 DEF FeatureFacts
  <2> QED
    BY <2>1, <2>2
<1> QED
  BY <1>4, <1>5, <1>7 DEF l

\* The index of a feature is the greater, the greater its tag.
TagsOrdered(E) ==
    \A x, y \in E : IsRegular(x) /\ IsRegular(y) /\ TagRank[x.feature] < TagRank[y.feature] =>
                       x.index.feature < y.index.feature

\* Sorted by feature tags and indexes, regular subtables are also in the order of their features:
\* those of one index follow each other.
LEMMA IndexesFollow ==
    ASSUME NEW s, ListType(s), Client(Elements(s)), InFeatureOrder(s), FeatureFacts(Elements(s)),
           NEW i \in 1 .. ListLimit(s), NEW j \in 1 .. ListLimit(s), i =< j
    PROVE  /\ TagRank[s[i].feature] =< TagRank[s[j].feature]
           /\ s[i].feature = s[j].feature => s[i].index.feature =< s[j].index.feature
           /\ \A m \in i .. j : Scope(s[i]) = Scope(s[j]) => Scope(s[m]) = Scope(s[i])
<1>1. ClassSpans(s)
  BY ClassOrderOf, ClassSpansOf
<1>2. Len(s) \in Nat /\ \A p \in 1 .. Len(s) : s[p] \in SubType /\ s[p] \in Elements(s)
  BY ListIs DEF Elements
<1>3. /\ ListLimit(s) \in 0 .. Len(s)
      /\ \A p \in 1 .. ListLimit(s) : p \in 1 .. Len(s) /\ IsRegular(s[p])
  <2>1. ListLimit(s) \in 0 .. SpanLimit(s) /\ SpanLimit(s) \in 0 .. Len(s)
    BY <1>1 DEF ClassSpans
  <2>2. \A p \in 1 .. Len(s) : p <= ListLimit(s) => IsRegular(s[p])
    BY <1>1 DEF ClassSpans
  <2> QED
    BY <1>2, <2>1, <2>2
<1>4. ASSUME NEW p \in 1 .. ListLimit(s)
      PROVE  /\ s[p].feature # UNDEF /\ Ord(s[p].feature = STAND_ALONE) = 0
             /\ TagRank[s[p].feature] \in Nat /\ s[p].index.feature \in Nat /\ s[p].feature \in Tags
  <2>1. Scope(s[p]) \in Regular
    BY <1>3 DEF IsRegular
  <2>2. s[p].feature # UNDEF /\ s[p].feature # STAND_ALONE
    BY <2>1, Classes, Zenon
  <2>3. s[p].feature \in Tags /\ s[p].index.feature \in Nat
    BY <1>2, <1>3 DEF SubType, FeatureFacts
  <2> QED
    BY <2>2, <2>3, TagRanks DEF Ord
<1>5. ASSUME NEW p \in 1 .. ListLimit(s), NEW q \in 1 .. ListLimit(s), p =< q
      PROVE  \/ TagRank[s[p].feature] < TagRank[s[q].feature]
             \/ s[p].feature = s[q].feature /\ s[p].index.feature =< s[q].index.feature
  <2>1. CASE p = q
    BY <1>4, <2>1
  <2>2. CASE p < q
    <3>1. FeatureAtMost(s[p], s[q])
      BY <1>3, <2>2 DEF InFeatureOrder
    <3> QED
      BY <1>4, <3>1 DEF FeatureAtMost
  <2> QED
    BY <1>3, <1>5, <2>1, <2>2
<1>6. ASSUME NEW m \in i .. j, Scope(s[i]) = Scope(s[j]) PROVE Scope(s[m]) = Scope(s[i])
  <2>1. m \in 1 .. ListLimit(s) /\ i =< m /\ m =< j
    BY <1>3
  <2>2. s[i].feature = s[j].feature
    BY <1>6 DEF Scope
  <2>3. s[i].index.feature = s[j].index.feature
    BY <1>2, <1>3, <1>6 DEF FeatureFacts
  <2>4. s[i].index.feature = s[m].index.feature
    BY <1>4, <1>5, <2>1, <2>2, <2>3
  <2> QED
    BY <1>2, <1>3, <2>1, <2>4 DEF FeatureFacts
<1>7. TagRank[s[i].feature] =< TagRank[s[j].feature]
  BY <1>4, <1>5
<1>8. s[i].feature = s[j].feature => s[i].index.feature =< s[j].index.feature
  BY <1>4, <1>5
<1> QED
  BY <1>6, <1>7, <1>8


\* A list of the same elements is as good as the client's.
LEMMA SameClient ==
    ASSUME NEW s, ClientList(s), NEW t, ListType(t), Elements(t) = Elements(s)
    PROVE  ClientList(t)
<1>1. ListType(s) /\ Client(Elements(s)) /\ SpansFit(s)
  BY DEF ClientList
<1>2. SameCounters(s, t)
  BY <1>1, SameCountersIfSame
<1> QED
  BY <1>1, <1>2 DEF ClientList, SpansFit, SameCounters

\* Regular subtables come first, in whichever of the three orders.
LEMMA RegularFirst ==
    ASSUME NEW s, ListType(s), Client(Elements(s)), InClassOrder(s)
    PROVE  /\ ListLimit(s) \in 0 .. SpanLimit(s) /\ SpanLimit(s) \in 0 .. Len(s) /\ Len(s) \in Nat
           /\ ListLimit(s) \in Nat /\ SpanLimit(s) \in Nat
           /\ \A i \in 1 .. Len(s) : i =< ListLimit(s) <=> IsRegular(s[i])
           /\ \A i \in 1 .. ListLimit(s) : i \in 1 .. Len(s) /\ s[i] \in Elements(s) /\ IsRegular(s[i])
           /\ \A x \in Elements(s) : IsRegular(x) => \E i \in 1 .. ListLimit(s) : x = s[i]
<1>1. /\ ListLimit(s) \in 0 .. SpanLimit(s) /\ SpanLimit(s) \in 0 .. Len(s)
      /\ \A i \in 1 .. Len(s) : i =< ListLimit(s) <=> IsRegular(s[i])
  <2>1. ClassSpans(s)
    BY ClassSpansOf
  <2> QED
    BY <2>1 DEF ClassSpans
<1>2. Len(s) \in Nat /\ \A i \in 1 .. Len(s) : s[i] \in Elements(s)
  BY ListIs DEF Elements
<1>3. ListLimit(s) \in Nat /\ SpanLimit(s) \in Nat /\ ListLimit(s) <= Len(s)
  BY <1>1, <1>2
<1>4. \A x \in Elements(s) : IsRegular(x) => \E i \in 1 .. ListLimit(s) : x = s[i]
  <2> SUFFICES ASSUME NEW i \in 1 .. Len(s), IsRegular(s[i]) PROVE i \in 1 .. ListLimit(s)
    BY DEF Elements
  <2> QED
    BY <1>1, <1>3
<1> QED
  BY <1>1, <1>2, <1>3, <1>4

\* The first pass numbers the features of each language system.
LEMMA FirstPass ==
    ASSUME "manyAnonymous" \notin Forms, NEW w, ClientList(w), NEW u \in ByScope(w)
    PROVE  ClientList(u) /\ FeatureFacts(Elements(u))
<1>1. PICK x \in Orders(w, ScopeOrder(w)) : u = Unsorted(Numbered(x, FeatureRuns(x)))
  BY DEF ByScope
<1>2. ListType(w) /\ Len(w) \in Nat
  BY ListIs DEF ClientList
<1>3. ListType(x) /\ SameElements(w, x) /\ InScopeOrder(x)
  BY <1>2, SortsByScope
<1>4. ClientList(x)
  <2>1. Elements(x) = Elements(w)
    BY <1>2, <1>3, ElementsOfSame
  <2> QED
    BY <1>3, <2>1, SameClient
<1>5. Client(Elements(x)) /\ InClassOrder(x)
  <2>1. Client(Elements(x))
    BY <1>4 DEF ClientList
  <2> QED
    BY <1>3, <2>1, ClassOrderOf
<1> DEFINE l == ListLimit(x)
           key == FeatureRuns(x)
           t == Numbered(x, key)
<1>6. /\ l \in 0 .. SpanLimit(x) /\ SpanLimit(x) \in 0 .. Len(x) /\ Len(x) \in Nat
      /\ \A i \in 1 .. Len(x) : i =< l <=> IsRegular(x[i])
  BY <1>3, <1>5, RegularFirst
<1>7. \A i \in 1 .. Len(x) : key[i] = Scope(x[i])
  <2>1. DOMAIN x = 1 .. Len(x)
    BY <1>3, ListIs
  <2> QED
    BY <2>1 DEF FeatureRuns
<1> HIDE DEF key, t
<1>8. \A i, j \in 1 .. l : key[i] = key[j] <=> Scope(x[i]) = Scope(x[j])
  BY <1>6, <1>7
<1>9. \A i, j, m \in 1 .. l : i =< m /\ m =< j /\ Scope(x[i]) = Scope(x[j]) => Scope(x[m]) = Scope(x[i])
  <2>1. \A i \in 1 .. l : i \in 1 .. Len(x)
    BY <1>6
  <2> QED
    BY <1>3, <2>1, ScopesFollow
<1>10. 1 =< l /\ l < SpanLimit(x) => key[l + 1] # key[l]
  <2> SUFFICES ASSUME 1 =< l, l < SpanLimit(x) PROVE key[l + 1] # key[l]
    OBVIOUS
  <2> HIDE DEF l
  <2>1. l \in 1 .. Len(x) /\ l + 1 \in 1 .. Len(x) /\ ~(l + 1 <= l)
    BY <1>6
  <2>2. Scope(x[l]) \in Regular /\ Scope(x[l + 1]) \notin Regular
    BY <1>6, <2>1 DEF IsRegular
  <2> QED
    BY <1>7, <2>1, <2>2
<1>11. ClientList(t) /\ FeatureFacts(Elements(t))
  BY <1>4, <1>5, <1>8, <1>9, <1>10, PassNumbers DEF t
<1>12. u = Unsorted(t)
  BY <1>1 DEF t, key
<1>13. ListType(u) /\ Elements(u) = Elements(t)
  <2>1. ListType(t)
    BY <1>11 DEF ClientList
  <2> QED
    BY <1>12, <2>1, UnsortedIs
<1> QED
  BY <1>11, <1>13, SameClient

\* The second pass numbers them anew, those of smaller tags first.
LEMMA SecondPass ==
    ASSUME "manyAnonymous" \notin Forms, NEW u, ClientList(u), FeatureFacts(Elements(u)),
           NEW v \in Orders(u, FeatureOrder(u)), NEW t, t = Unsorted(Numbered(v, IndexRuns(v)))
    PROVE  ClientList(t) /\ FeatureFacts(Elements(t)) /\ TagsOrdered(Elements(t))
<1>1. ListType(u) /\ Len(u) \in Nat
  BY ListIs DEF ClientList
<1>2. ListType(v) /\ SameElements(u, v) /\ InFeatureOrder(v)
  BY <1>1, SortsByFeature
<1>3. ClientList(v) /\ FeatureFacts(Elements(v))
  <2>1. Elements(v) = Elements(u)
    BY <1>1, <1>2, ElementsOfSame
  <2> QED
    BY <1>2, <2>1, SameClient
<1>4. Client(Elements(v)) /\ InClassOrder(v)
  <2>1. Client(Elements(v))
    BY <1>3 DEF ClientList
  <2> QED
    BY <1>2, <2>1, ClassOrderOf
<1> DEFINE l == ListLimit(v)
           key == IndexRuns(v)
           w == Numbered(v, key)
<1>5. /\ l \in 0 .. SpanLimit(v) /\ SpanLimit(v) \in 0 .. Len(v) /\ Len(v) \in Nat
      /\ \A i \in 1 .. Len(v) : i =< l <=> IsRegular(v[i])
      /\ \A i \in 1 .. l : i \in 1 .. Len(v) /\ v[i] \in Elements(v) /\ IsRegular(v[i])
  BY <1>2, <1>4, RegularFirst
<1>6. \A i \in 1 .. Len(v) : key[i] = v[i].index.feature
  <2>1. DOMAIN v = 1 .. Len(v)
    BY <1>2, ListIs
  <2> QED
    BY <2>1 DEF IndexRuns
<1>7. 1 =< l /\ l < SpanLimit(v) => key[l + 1] # key[l]
  BY <1>2, <1>3, <1>4, NextIndexDiffers
<1>8. \A i, j \in 1 .. l : i =< j =>
         /\ TagRank[v[i].feature] =< TagRank[v[j].feature]
         /\ \A m \in i .. j : Scope(v[i]) = Scope(v[j]) => Scope(v[m]) = Scope(v[i])
  BY <1>2, <1>3, <1>4, IndexesFollow
<1> HIDE DEF key, w
<1>9. \A i, j \in 1 .. l : key[i] = key[j] <=> Scope(v[i]) = Scope(v[j])
  BY <1>3, <1>5, <1>6 DEF FeatureFacts
<1>10. \A i, j, m \in 1 .. l : i =< m /\ m =< j /\ Scope(v[i]) = Scope(v[j]) => Scope(v[m]) = Scope(v[i])
  <2> SUFFICES ASSUME NEW i \in 1 .. l, NEW j \in 1 .. l, NEW m \in 1 .. l,
                      i =< m, m =< j, Scope(v[i]) = Scope(v[j])
               PROVE  Scope(v[m]) = Scope(v[i])
    OBVIOUS
  <2> HIDE DEF l
  <2>1. m \in i .. j /\ i =< j
    BY <1>5
  <2> QED
    BY <1>8, <2>1
<1>11. /\ ClientList(w) /\ FeatureFacts(Elements(w))
       /\ \A i, j \in 1 .. l : i =< j => w[i].index.feature =< w[j].index.feature
  BY <1>3, <1>4, <1>7, <1>9, <1>10, PassNumbers DEF w
<1> HIDE DEF l
<1>12. TagsOrdered(Elements(w))
  <2> SUFFICES ASSUME NEW x \in Elements(w), NEW y \in Elements(w), IsRegular(x), IsRegular(y),
                      TagRank[x.feature] < TagRank[y.feature]
               PROVE  x.index.feature < y.index.feature
    BY DEF TagsOrdered
  <2>1. SameCores(v, w)
    BY <1>2, NumberedIs DEF w
  <2>2. \A i \in 1 .. Len(v) : w[i].feature = v[i].feature /\ Scope(w[i]) = Scope(v[i])
    BY <2>1 DEF SameCores, SameCore, Scope
  <2>3. Len(w) = Len(v)
    BY <2>1 DEF SameCores
  <2>4. PICK i \in 1 .. Len(v) : x = w[i]
    BY <2>3 DEF Elements
  <2>5. PICK j \in 1 .. Len(v) : y = w[j]
    BY <2>3 DEF Elements
  <2>6. i \in 1 .. l /\ j \in 1 .. l
    BY <1>5, <2>2, <2>4, <2>5 DEF IsRegular
  <2>7. TagRank[v[i].feature] < TagRank[v[j].feature]
    BY <2>2, <2>4, <2>5
  <2>8. v[i].feature \in Tags /\ v[j].feature \in Tags
    BY <1>2, ListIs DEF SubType
  <2>9. TagRank[v[i].feature] \in Nat /\ TagRank[v[j].feature] \in Nat
    BY <2>8, TagRanks
  <2>10. i <= j
    <3>1. j <= i => TagRank[v[j].feature] =< TagRank[v[i].feature]
      BY <1>8, <2>6
    <3> QED
      BY <2>7, <2>9, <3>1
  <2>11. x.index.feature =< y.index.feature
    BY <1>11, <2>4, <2>5, <2>6, <2>10
  <2>12. Scope(x) # Scope(y)
    BY <2>2, <2>4, <2>5, <2>7, <2>9 DEF Scope
  <2>13. x.index.feature \in Nat /\ y.index.feature \in Nat /\ x.index.feature # y.index.feature
    BY <1>11, <2>12 DEF FeatureFacts
  <2> QED
    BY <2>11, <2>13
<1>13. t = Unsorted(w)
  BY DEF w, key
<1>14. ListType(t) /\ Elements(t) = Elements(w)
  <2>1. ListType(w)
    BY <1>11 DEF ClientList
  <2> QED
    BY <1>13, <2>1, UnsortedIs
<1> QED
  BY <1>11, <1>12, <1>14, SameClient

\* Both passes of calcFeatureListIndexes together
LEMMA FeaturesNumbered ==
    ASSUME "manyAnonymous" \notin Forms, NEW w, ClientList(w), NEW t \in WithFeatureIndexes(w)
    PROVE  ClientList(t) /\ FeatureFacts(Elements(t)) /\ TagsOrdered(Elements(t))
<1>1. PICK u \in ByScope(w) :
         t \in {Unsorted(Numbered(v, IndexRuns(v))) : v \in Orders(u, FeatureOrder(u))}
  BY DEF WithFeatureIndexes
<1>2. PICK v \in Orders(u, FeatureOrder(u)) : t = Unsorted(Numbered(v, IndexRuns(v)))
  BY <1>1
<1>3. ClientList(u) /\ FeatureFacts(Elements(u))
  BY FirstPass
<1> QED
  BY <1>2, <1>3, SecondPass


-----------------------------------------------------------------------------
(* The ScriptList *)

LangRuns(s) == [i \in DOMAIN s |-> <<s[i].script, s[i].language>>]

\* Sorted by scripts, regular subtables of a language system follow each other, and the one after
\* the last regular subtable is of no script of theirs.
LEMMA LanguagesFollow ==
    ASSUME NEW s, ListType(s), Client(Elements(s)), InScriptOrder(s)
    PROVE  /\ \A i \in 1 .. Len(s) : LangRuns(s)[i] = <<s[i].script, s[i].language>>
           /\ \A i \in 1 .. ListLimit(s), k \in 1 .. Len(s) :
                 s[k].script = s[i].script => k \in 1 .. ListLimit(s)
           /\ \A i, m, j \in 1 .. ListLimit(s) :
                 i =< m /\ m =< j /\ LangRuns(s)[i] = LangRuns(s)[j] => LangRuns(s)[m] = LangRuns(s)[i]
<1>1. InClassOrder(s)
  BY ClassOrderOf
<1>2. /\ ListLimit(s) \in 0 .. SpanLimit(s) /\ SpanLimit(s) \in 0 .. Len(s) /\ Len(s) \in Nat
      /\ \A i \in 1 .. Len(s) : i =< ListLimit(s) <=> IsRegular(s[i])
      /\ \A i \in 1 .. ListLimit(s) : i \in 1 .. Len(s) /\ s[i] \in Elements(s) /\ IsRegular(s[i])
  BY <1>1, RegularFirst
<1>3. DOMAIN s = 1 .. Len(s) /\ \A i \in 1 .. Len(s) : s[i] \in SubType
  BY ListIs
<1>4. \A i \in 1 .. Len(s) : LangRuns(s)[i] = <<s[i].script, s[i].language>>
  BY <1>3 DEF LangRuns
<1>5. \A i \in 1 .. Len(s) : Scope(s[i]) \in Regular \cup {Alone, Anonymous}
  BY DEF Client, Elements
<1>6. ASSUME NEW i \in 1 .. Len(s)
      PROVE  IsRegular(s[i]) <=> s[i].script # UNDEF /\ s[i].script # STAND_ALONE
  <2>1. CASE Scope(s[i]) \in Regular
    <3>1. /\ Scope(s[i]) = <<Scope(s[i])[1], Scope(s[i])[2], Scope(s[i])[3]>>
          /\ {Scope(s[i])[1], Scope(s[i])[2], Scope(s[i])[3]} \cap {STAND_ALONE, UNDEF} = {}
      BY <2>1, OtlAssumption
    <3>2. Scope(s[i])[1] = s[i].script
      BY DEF Scope
    <3> QED
      BY <2>1, <3>1, <3>2 DEF IsRegular
  <2>2. CASE Scope(s[i]) \notin Regular
    <3>1. Scope(s[i]) = Alone \/ Scope(s[i]) = Anonymous
      BY <1>5, <2>2
    <3>2. s[i].script = STAND_ALONE \/ s[i].script = UNDEF
      BY <3>1 DEF Scope, Alone, Anonymous
    <3> QED
      BY <2>2, <3>2 DEF IsRegular
  <2> QED
    BY <2>1, <2>2
<1>7. \A i \in 1 .. ListLimit(s), k \in 1 .. Len(s) :
         s[k].script = s[i].script => k \in 1 .. ListLimit(s)
  <2> SUFFICES ASSUME NEW i \in 1 .. ListLimit(s), NEW k \in 1 .. Len(s), s[k].script = s[i].script
               PROVE  k \in 1 .. ListLimit(s)
    OBVIOUS
  <2>1. IsRegular(s[k])
    BY <1>2, <1>6
  <2>2. k <= ListLimit(s)
    BY <1>2, <2>1
  <2> QED
    BY <1>2, <2>2
<1>8. ASSUME NEW i \in 1 .. ListLimit(s), NEW m \in 1 .. ListLimit(s), i < m
      PROVE  \/ TagRank[s[i].script] < TagRank[s[m].script]
             \/ s[i].script = s[m].script /\ TagRank[s[i].language] <= TagRank[s[m].language]
  <2>1. i \in 1 .. Len(s) /\ m \in 1 .. Len(s) /\ IsRegular(s[i]) /\ IsRegular(s[m])
    BY <1>2
  <2>2. ScriptAtMost(s[i], s[m])
    BY <1>8, <2>1 DEF InScriptOrder
  <2>3. /\ s[i].script \in Tags /\ s[i].language \in Tags
        /\ s[m].script \in Tags /\ s[m].language \in Tags
    BY <1>3, <2>1 DEF SubType
  <2>4. /\ TagRank[s[i].script] \in Nat /\ TagRank[s[i].language] \in Nat
        /\ TagRank[s[m].script] \in Nat /\ TagRank[s[m].language] \in Nat
    BY <2>3, TagRanks
  <2>5. s[i].script # UNDEF
    BY <1>6, <2>1
  <2>6. Ord(s[i].feature = STAND_ALONE) = 0 /\ Ord(s[m].feature = STAND_ALONE) = 0
    <3>1. Scope(s[i]) \in Regular /\ Scope(s[m]) \in Regular
      BY <2>1 DEF IsRegular
    <3>2. s[i].feature # STAND_ALONE /\ s[m].feature # STAND_ALONE
      BY <3>1, Classes, Zenon
    <3> QED
      BY <3>2 DEF Ord
  <2> QED
    BY <2>2, <2>4, <2>5, <2>6 DEF ScriptAtMost
<1>9. ASSUME NEW i \in 1 .. ListLimit(s), NEW m \in 1 .. ListLimit(s), NEW j \in 1 .. ListLimit(s),
             i =< m, m =< j, LangRuns(s)[i] = LangRuns(s)[j]
      PROVE  LangRuns(s)[m] = LangRuns(s)[i]
  <2>1. CASE i = m \/ m = j
    BY <1>9, <2>1
  <2>2. CASE i < m /\ m < j
    <3>1. i \in 1 .. Len(s) /\ m \in 1 .. Len(s) /\ j \in 1 .. Len(s)
      BY <1>2
    <3>2. s[j].script = s[i].script /\ s[j].language = s[i].language
      BY <1>4, <1>9, <3>1
    <3>3. /\ s[i].script \in Tags /\ s[i].language \in Tags
          /\ s[m].script \in Tags /\ s[m].language \in Tags
      BY <1>3, <3>1 DEF SubType
    <3>4. /\ TagRank[s[i].script] \in Nat /\ TagRank[s[i].language] \in Nat
          /\ TagRank[s[m].script] \in Nat /\ TagRank[s[m].language] \in Nat
          /\ TagRank[s[i].language] = TagRank[s[m].language] => s[i].language = s[m].language
      BY <3>3, TagRanks
    <3>5. /\ \/ TagRank[s[i].script] < TagRank[s[m].script]
             \/ s[i].script = s[m].script /\ TagRank[s[i].language] <= TagRank[s[m].language]
          /\ \/ TagRank[s[m].script] < TagRank[s[i].script]
             \/ s[i].script = s[m].script /\ TagRank[s[m].language] <= TagRank[s[i].language]
      BY <1>8, <2>2, <3>2
    <3>6. s[i].script = s[m].script /\ TagRank[s[i].language] = TagRank[s[m].language]
      <4> DEFINE r1 == TagRank[s[i].script]
                 r2 == TagRank[s[m].script]
                 l1 == TagRank[s[i].language]
                 l2 == TagRank[s[m].language]
      <4>1. /\ r1 \in Nat /\ r2 \in Nat /\ l1 \in Nat /\ l2 \in Nat
            /\ s[i].script = s[m].script => r1 = r2
            /\ r1 < r2 \/ (s[i].script = s[m].script /\ l1 <= l2)
            /\ r2 < r1 \/ (s[i].script = s[m].script /\ l2 <= l1)
        BY <3>4, <3>5
      <4> HIDE DEF r1, r2, l1, l2
      <4>2. s[i].script = s[m].script /\ l1 = l2
        BY <4>1
      <4> QED
        BY <4>2 DEF l1, l2
    <3> QED
      BY <1>4, <3>1, <3>4, <3>6
  <2> QED
    BY <1>2, <1>9, <2>1, <2>2
<1> QED
  BY <1>4, <1>7, <1>9

LangSysOf(x, E) ==
    [script |-> x.script, language |-> x.language,
     features |-> {y.index.feature : y \in {z \in E : /\ IsRegular(z)
                                                      /\ z.script = x.script /\ z.language = x.language}}]

\* One record of each script and language of regular subtables, with the indexes of their features
LangSysIs(langSys, E) == langSys = {LangSysOf(x, E) : x \in {y \in E : IsRegular(y)}}

\* fillScriptList and fillLangSysRecord make these records, whatever the spans.
LEMMA LangSysListOf ==
    ASSUME NEW s, ListType(s), Client(Elements(s)), InScriptOrder(s)
    PROVE  LangSysIs(LangSysList(s), Elements(s))
<1> DEFINE E == Elements(s)
           l == ListLimit(s)
           h == SpanLimit(s)
           lang == LangRuns(s)
           scripts == {s[i].script : i \in 1 .. l}
           starts == RunStarts(lang, 1, h)
           record(i) == [script |-> s[i].script, language |-> s[i].language,
                         features |-> {s[j].index.feature : j \in RunStarts(IndexRuns(s), i, RunEnd(lang, i, h))}]
<1>1. LangSysList(s) = {record(i) : i \in {k \in starts : s[k].script \in scripts}}
  BY DEF LangSysList, LangRuns
<1>2. /\ l \in 0 .. h /\ h \in 0 .. Len(s) /\ Len(s) \in Nat /\ l \in Nat /\ h \in Nat
      /\ \A i \in 1 .. l : i \in 1 .. Len(s) /\ s[i] \in E /\ IsRegular(s[i])
      /\ \A x \in E : IsRegular(x) => \E i \in 1 .. l : x = s[i]
  <2>1. InClassOrder(s)
    BY ClassOrderOf
  <2> QED
    BY <2>1, RegularFirst
<1>3. /\ \A i \in 1 .. Len(s) : lang[i] = <<s[i].script, s[i].language>>
      /\ \A i \in 1 .. l, k \in 1 .. Len(s) : s[k].script = s[i].script => k \in 1 .. l
      /\ \A i, m, j \in 1 .. l : i =< m /\ m =< j /\ lang[i] = lang[j] => lang[m] = lang[i]
  BY LanguagesFollow
<1>4. \A k \in starts : k \in 1 .. Len(s) /\ (k = 1 \/ lang[k] # lang[k - 1])
  BY <1>2 DEF RunStarts
<1>5. l < h /\ 1 <= l => lang[l + 1] # lang[l]
  <2> SUFFICES ASSUME l < h, 1 <= l, lang[l + 1] = lang[l] PROVE FALSE
    OBVIOUS
  <2> HIDE DEF l, h
  <2>1. l \in 1 .. l /\ l \in 1 .. Len(s) /\ l + 1 \in 1 .. Len(s) /\ l + 1 \notin 1 .. l
    BY <1>2
  <2>2. s[l + 1].script = s[l].script
    BY <1>3, <2>1
  <2> QED
    BY <1>3, <2>1, <2>2
<1> HIDE DEF lang, l, h, starts
<1>6. ASSUME NEW k \in starts, k \in 1 .. l
      PROVE  record(k) = LangSysOf(s[k], E)
  <2> DEFINE e == RunEnd(lang, k, h)
  <2>1. /\ e \in k .. l
        /\ k .. e = {j \in k .. l : lang[j] = lang[k]}
    <3>1. \A j \in k .. l : lang[j] = lang[k] => \A m \in k .. j : lang[m] = lang[k]
      <4> SUFFICES ASSUME NEW j \in k .. l, lang[j] = lang[k], NEW m \in k .. j PROVE lang[m] = lang[k]
        OBVIOUS
      <4>1. j \in 1 .. l /\ m \in 1 .. l /\ k =< m /\ m =< j
        BY <1>2, <1>6
      <4> QED
        BY <1>3, <1>6, <4>1
    <3>2. l <= h /\ (l < h => lang[l + 1] # lang[l])
      BY <1>2, <1>5, <1>6
    <3> QED
      BY <1>2, <1>6, <3>1, <3>2, RunEndIs
  <2> HIDE DEF e
  <2>2. ASSUME NEW j \in 1 .. l, lang[j] = lang[k] PROVE j \in k .. e
    <3>1. ~(j < k)
      <4> SUFFICES ASSUME j < k PROVE FALSE
        OBVIOUS
      <4>1. k - 1 \in 1 .. l /\ j =< k - 1 /\ k - 1 =< k /\ k # 1
        BY <1>2, <1>6
      <4>2. lang[k - 1] = lang[k]
        BY <1>3, <1>6, <2>2, <4>1
      <4> QED
        BY <1>4, <4>1, <4>2
    <3> QED
      BY <1>2, <1>6, <2>1, <2>2, <3>1
  <2>3. \A j \in k .. e : j \in 1 .. l /\ j \in 1 .. Len(s) /\ lang[j] = lang[k]
    BY <1>2, <1>6, <2>1
  <2> DEFINE F == {s[j].index.feature : j \in RunStarts(IndexRuns(s), k, e)}
             G == {y.index.feature : y \in {z \in E : /\ IsRegular(z)
                                                      /\ z.script = s[k].script /\ z.language = s[k].language}}
  <2>4. \A j \in RunStarts(IndexRuns(s), k, e) : j \in k .. e
    BY DEF RunStarts
  <2>5. ASSUME NEW f \in F PROVE f \in G
    <3>1. PICK j \in RunStarts(IndexRuns(s), k, e) : f = s[j].index.feature
      OBVIOUS
    <3>2. j \in 1 .. l /\ j \in 1 .. Len(s) /\ lang[j] = lang[k]
      BY <2>3, <2>4
    <3>3. s[j] \in E /\ IsRegular(s[j]) /\ s[j].script = s[k].script /\ s[j].language = s[k].language
      BY <1>2, <1>3, <1>6, <3>2
    <3> QED
      BY <3>1, <3>3
  <2>6. ASSUME NEW f \in G PROVE f \in F
    <3>1. PICK y \in {z \in E : /\ IsRegular(z)
                                /\ z.script = s[k].script /\ z.language = s[k].language} :
             f = y.index.feature
      OBVIOUS
    <3>2. PICK i \in 1 .. l : y = s[i]
      BY <1>2, <3>1
    <3>3. lang[i] = lang[k]
      <4>1. s[i].script = s[k].script /\ s[i].language = s[k].language
        BY <3>1, <3>2
      <4>2. i \in 1 .. Len(s) /\ k \in 1 .. Len(s)
        BY <1>2, <1>6, <3>2
      <4>3. lang[i] = <<s[i].script, s[i].language>> /\ lang[k] = <<s[k].script, s[k].language>>
        BY <1>3, <4>2
      <4> QED
        BY <4>1, <4>3
    <3>4. i \in k .. e /\ e \in Nat /\ k \in Nat
      BY <1>2, <1>6, <2>1, <2>2, <3>3
    <3>5. PICK j \in RunStarts(IndexRuns(s), k, e) :
             j <= i /\ \A m \in j .. i : IndexRuns(s)[m] = IndexRuns(s)[i]
      BY <3>4, RunHasStart
    <3>6. j \in k .. e /\ j \in j .. i /\ j \in 1 .. Len(s) /\ i \in 1 .. Len(s)
      BY <2>3, <2>4, <3>4, <3>5
    <3>7. IndexRuns(s)[j] = s[j].index.feature /\ IndexRuns(s)[i] = s[i].index.feature
      <4>1. DOMAIN s = 1 .. Len(s)
        BY ListIs
      <4> QED
        BY <3>6, <4>1 DEF IndexRuns
    <3>8. s[j].index.feature = f
      BY <3>1, <3>2, <3>5, <3>6, <3>7
    <3> QED
      BY <3>8
  <2>7. F = G
    BY <2>5, <2>6
  <2> HIDE DEF F, G
  <2>8. record(k) = [script |-> s[k].script, language |-> s[k].language, features |-> F]
    BY DEF F, e
  <2>9. LangSysOf(s[k], E) = [script |-> s[k].script, language |-> s[k].language, features |-> G]
    BY DEF LangSysOf, G
  <2> QED
    BY <2>7, <2>8, <2>9
<1>7. \A k \in starts : s[k].script \in scripts => k \in 1 .. l
  BY <1>3, <1>4
<1>8. ASSUME NEW r \in LangSysList(s) PROVE r \in {LangSysOf(x, E) : x \in {y \in E : IsRegular(y)}}
  <2>1. PICK k \in starts : s[k].script \in scripts /\ r = record(k)
    BY <1>1
  <2>2. k \in 1 .. l
    BY <1>7, <2>1
  <2>3. r = LangSysOf(s[k], E)
    BY <1>6, <2>1, <2>2
  <2> QED
    BY <1>2, <2>2, <2>3
<1>9. ASSUME NEW x \in E, IsRegular(x) PROVE LangSysOf(x, E) \in LangSysList(s)
  <2>1. PICK i \in 1 .. l : x = s[i]
    BY <1>2, <1>9
  <2>2. i \in 1 .. h /\ 1 \in Nat /\ h \in Nat
    BY <1>2
  <2>3. PICK k \in RunStarts(lang, 1, h) : k <= i /\ \A m \in k .. i : lang[m] = lang[i]
    BY <2>2, RunHasStart
  <2>4. k \in starts /\ k \in 1 .. Len(s) /\ k \in k .. i
    BY <1>2, <1>4, <2>3 DEF starts
  <2>5. lang[k] = lang[i]
    BY <2>3, <2>4
  <2>6. s[k].script = s[i].script /\ s[k].language = s[i].language
    BY <1>2, <1>3, <2>4, <2>5
  <2>7. s[k].script \in scripts /\ k \in 1 .. l
    BY <1>3, <2>4, <2>6
  <2>8. record(k) \in LangSysList(s)
    BY <1>1, <2>4, <2>7
  <2>9. LangSysOf(s[k], E) = LangSysOf(x, E)
    BY <2>1, <2>6 DEF LangSysOf
  <2> QED
    BY <1>6, <2>4, <2>7, <2>8, <2>9
<1> QED
  BY <1>8, <1>9 DEF LangSysIs, E


-----------------------------------------------------------------------------
(* The FeatureList *)

\* Subtables with their indexes, sorted as the feature list is filled
FeatureSorted(s) ==
    /\ ListType(s) /\ Client(Elements(s)) /\ InFeatureOrder(s)
    /\ FeatureFacts(Elements(s)) /\ TagsOrdered(Elements(s)) /\ LookupFacts(Elements(s))

\* Where the subtables of the feature of x are
Begin(s, x) == InOrder(FeatureStarts(s))[x.index.feature + 1]
End(s, x) == RunEnd(IndexRuns(s), Begin(s, x), SpanLimit(s))

\* The run that the index of a feature leads to holds the subtables of the feature and no others.
LEMMA FeatureRun ==
    ASSUME NEW s, FeatureSorted(s), NEW x \in Elements(s), IsRegular(x)
    PROVE  /\ x.index.feature + 1 \in 1 .. FeatureCount(s)
           /\ Begin(s, x) \in 1 .. ListLimit(s) /\ End(s, x) \in Begin(s, x) .. ListLimit(s)
           /\ \A j \in 1 .. ListLimit(s) : j \in Begin(s, x) .. End(s, x) <=> Scope(s[j]) = Scope(x)
<1> DEFINE E == Elements(s)
           l == ListLimit(s)
           h == SpanLimit(s)
           key == IndexRuns(s)
           T == FeatureStarts(s)
           p == Begin(s, x)
           e == End(s, x)
<1>1. /\ ListType(s) /\ Client(E) /\ InFeatureOrder(s)
      /\ FeatureFacts(E) /\ TagsOrdered(E) /\ InClassOrder(s)
  BY ClassOrderOf DEF FeatureSorted
<1>2. /\ l \in 0 .. h /\ h \in 0 .. Len(s) /\ Len(s) \in Nat /\ l \in Nat /\ h \in Nat
      /\ \A i \in 1 .. l : i \in 1 .. Len(s) /\ s[i] \in E /\ IsRegular(s[i])
      /\ \A y \in E : IsRegular(y) => \E i \in 1 .. l : y = s[i]
  BY <1>1, RegularFirst
<1>3. \A i \in 1 .. Len(s) : key[i] = s[i].index.feature
  <2>1. DOMAIN s = 1 .. Len(s)
    BY <1>1, ListIs
  <2> QED
    BY <2>1 DEF IndexRuns
<1>4. 1 =< l /\ l < h => key[l + 1] # key[l]
  BY <1>1, NextIndexDiffers
<1>5. \A i, j \in 1 .. l : i =< j =>
         /\ TagRank[s[i].feature] =< TagRank[s[j].feature]
         /\ s[i].feature = s[j].feature => s[i].index.feature =< s[j].index.feature
  BY <1>1, IndexesFollow
<1>6. /\ p = InOrder(T)[x.index.feature + 1] /\ e = RunEnd(key, p, h) /\ T = RunStarts(key, 1, h)
      /\ FeatureCount(s) = IF l = 0 THEN 0 ELSE s[l].index.feature + 1
  BY DEF Begin, End, FeatureStarts, FeatureCount
<1> HIDE DEF E, l, h, key, T, p, e
<1>7. \A i \in 1 .. l : key[i] \in Nat /\ key[i] = s[i].index.feature
  BY <1>1, <1>2, <1>3 DEF FeatureFacts
<1>8. ASSUME NEW i \in 1 .. l, NEW j \in 1 .. l, i =< j PROVE key[i] =< key[j]
  <2>1. /\ TagRank[s[i].feature] =< TagRank[s[j].feature]
        /\ s[i].feature = s[j].feature => s[i].index.feature =< s[j].index.feature
    BY <1>5, <1>8
  <2>2. i \in 1 .. Len(s) /\ j \in 1 .. Len(s) /\ key[i] \in Nat /\ key[j] \in Nat
    BY <1>2, <1>7
  <2>3. s[i].feature \in Tags /\ s[j].feature \in Tags
    BY <1>1, <2>2, ListIs DEF SubType
  <2>4. /\ TagRank[s[i].feature] \in Nat /\ TagRank[s[j].feature] \in Nat
        /\ TagRank[s[i].feature] = TagRank[s[j].feature] => s[i].feature = s[j].feature
    BY <2>3, TagRanks
  <2>5. CASE s[i].feature = s[j].feature
    BY <1>7, <2>1, <2>5
  <2>6. CASE s[i].feature # s[j].feature
    <3>1. TagRank[s[i].feature] < TagRank[s[j].feature]
      BY <2>1, <2>4, <2>6
    <3>2. s[i].index.feature < s[j].index.feature
      BY <1>1, <1>2, <3>1 DEF TagsOrdered
    <3> QED
      BY <1>7, <2>2, <3>2
  <2> QED
    BY <2>5, <2>6
<1>9. ASSUME NEW i \in 1 .. l, NEW m \in Nat, m < key[i] PROVE \E j \in 1 .. l : key[j] = m
  <2>1. s[i] \in E /\ IsRegular(s[i]) /\ m < s[i].index.feature
    BY <1>2, <1>7, <1>9
  <2>2. PICK y \in E : IsRegular(y) /\ y.index.feature = m
    BY <1>1, <2>1 DEF FeatureFacts
  <2> QED
    BY <1>2, <1>7, <2>2
<1>10. \A i \in 1 .. l : /\ InOrder(T)[key[i] + 1] \in T /\ InOrder(T)[key[i] + 1] \in 1 .. i
                         /\ key[InOrder(T)[key[i] + 1]] = key[i]
  <2>1. l =< h
    BY <1>2
  <2> QED
    <3>1. /\ \A i \in 1 .. l : key[i] \in Nat
          /\ \A i, j \in 1 .. l : i <= j => key[i] <= key[j]
          /\ \A i \in 1 .. l, m \in Nat : m < key[i] => \E j \in 1 .. l : key[j] = m
      BY <1>7, <1>8, <1>9
    <3>2. l \in Nat /\ h \in Nat /\ T = RunStarts(key, 1, h)
      BY <1>2, <1>6
    <3>3. \A i \in 1 .. l : /\ key[i] + 1 \in 1 .. Cardinality(T)
                            /\ InOrder(T)[key[i] + 1] \in T
                            /\ InOrder(T)[key[i] + 1] \in 1 .. i
                            /\ key[InOrder(T)[key[i] + 1]] = key[i]
      BY <2>1, <3>1, <3>2, IndexedRuns, SMTT(60)
    <3> QED
      BY <3>3
<1>11. PICK i \in 1 .. l : x = s[i]
  BY <1>2 DEF E
<1>12. p \in T /\ p \in 1 .. i /\ key[p] = key[i] /\ x.index.feature = key[i]
  BY <1>6, <1>7, <1>10, <1>11
<1>13. p \in 1 .. l /\ (p = 1 \/ key[p] # key[p - 1])
  <2>1. p \in RunStarts(key, 1, h)
    BY <1>6, <1>12
  <2> QED
    BY <1>2, <1>12, <2>1 DEF RunStarts
<1>14. ASSUME NEW j \in p .. l, key[j] = key[p], NEW k \in p .. j PROVE key[k] = key[p]
  <2>1. k \in 1 .. l /\ j \in 1 .. l /\ p =< k /\ k =< j
    BY <1>2, <1>13
  <2>2. key[p] =< key[k] /\ key[k] =< key[j] /\ key[p] \in Nat /\ key[k] \in Nat
    BY <1>7, <1>8, <1>13, <2>1
  <2> QED
    BY <1>14, <2>2
<1>15. e \in p .. l /\ p .. e = {j \in p .. l : key[j] = key[p]}
  <2>1. l =< h /\ (l < h => key[l + 1] # key[l])
    BY <1>2, <1>4, <1>13
  <2> QED
    <3>1. \A j \in p .. l : key[j] = key[p] => \A k \in p .. j : key[k] = key[p]
      BY <1>14
    <3>2. l \in Nat /\ h \in Nat /\ p \in 1 .. l /\ e = RunEnd(key, p, h)
      BY <1>2, <1>6, <1>13
    <3> QED
      BY <2>1, <3>1, <3>2, RunEndIs
<1>16. ASSUME NEW j \in 1 .. l PROVE j \in p .. e <=> key[j] = key[p]
  <2>1. ASSUME j < p PROVE key[j] # key[p]
    <3>1. p - 1 \in 1 .. l /\ j =< p - 1 /\ p - 1 =< p /\ p # 1
      BY <1>2, <1>13, <2>1
    <3>2. key[j] =< key[p - 1] /\ key[p - 1] =< key[p] /\ key[p] # key[p - 1]
      BY <1>8, <1>13, <3>1
    <3>3. key[j] \in Nat /\ key[p - 1] \in Nat /\ key[p] \in Nat
      BY <1>7, <1>13, <3>1
    <3> QED
      BY <3>2, <3>3
  <2>2. j < p => j \notin p .. e
    BY <1>2, <1>13, <1>15
  <2>3. ~(j < p) => j \in p .. l
    BY <1>2, <1>13
  <2> QED
    BY <1>15, <2>1, <2>2, <2>3
<1>17. \A j \in 1 .. l : j \in p .. e <=> Scope(s[j]) = Scope(x)
  <2> SUFFICES ASSUME NEW j \in 1 .. l PROVE key[j] = key[p] <=> Scope(s[j]) = Scope(x)
    BY <1>16
  <2>1. s[j] \in E /\ IsRegular(s[j]) /\ x \in E
    BY <1>2 DEF E
  <2>2. s[j].index.feature = x.index.feature <=> Scope(s[j]) = Scope(x)
    BY <1>1, <2>1 DEF FeatureFacts
  <2> QED
    BY <1>7, <1>12, <2>2
<1>18. x.index.feature + 1 \in 1 .. FeatureCount(s)
  <2>1. l # 0 /\ l \in 1 .. l /\ i =< l
    BY <1>2
  <2>2. key[i] =< key[l] /\ key[i] \in Nat /\ key[l] \in Nat /\ key[l] = s[l].index.feature
    BY <1>7, <1>8, <2>1
  <2> QED
    BY <1>6, <1>12, <2>1, <2>2
<1> QED
  BY <1>13, <1>15, <1>17, <1>18 DEF l, p, e

\* Two members of a set of at most one
LEMMA AtMostOne ==
    ASSUME NEW S, IsFiniteSet(S), ~(Cardinality(S) > 1), NEW i \in S, NEW j \in S
    PROVE  i = j
<1> SUFFICES ASSUME i # j PROVE FALSE
  OBVIOUS
<1>1. {i} \subseteq S /\ {i} # S
  OBVIOUS
<1>2. Cardinality({i}) = 1
  BY FS_Singleton
<1>3. Cardinality({i}) < Cardinality(S) /\ Cardinality(S) \in Nat
  BY <1>1, Part
<1> QED
  BY <1>2, <1>3

\* The runs of lookups of a feature: they are in the order of the lookups, and if parameters are
\* among them, one run begins with these. The others begin with a lookup, and no lookup is missed.
LEMMA FeatureLookups ==
    ASSUME NEW s, FeatureSorted(s), ~FeaturesFail(s), NEW x \in Elements(s), IsRegular(x),
           NEW Q, Q = LookupRuns(s, Begin(s, x)), NEW P, P = ParamRuns(s, Begin(s, x))
    PROVE  /\ IsFiniteSet(Q) /\ Q \subseteq 1 .. ListLimit(s) /\ P = {j \in Q : s[j].isFeatParam}
           /\ \A j \in Q : Scope(s[j]) = Scope(x)
           /\ \A j \in Q : s[j].index.lookup \in Int
           /\ \A j, k \in Q : j < k => s[j].index.lookup < s[k].index.lookup
           /\ (\E y \in Elements(s) : y.isFeatParam /\ Scope(y) = Scope(x)) => P # {}
           /\ \A y \in Elements(s) : ~y.isFeatParam /\ Scope(y) = Scope(x) =>
                 \E k \in Q \ P : s[k].index.lookup = y.index.lookup
<1> DEFINE E == Elements(s)
           l == ListLimit(s)
           p == Begin(s, x)
           e == End(s, x)
           lk == [j \in DOMAIN s |-> s[j].index.lookup]
<1>1. /\ ListType(s) /\ Client(E) /\ InFeatureOrder(s) /\ InClassOrder(s)
      /\ LookupFacts(E) /\ FeatureFacts(E)
  BY ClassOrderOf DEF FeatureSorted
<1>2. /\ l \in Nat /\ Len(s) \in Nat /\ DOMAIN s = 1 .. Len(s)
      /\ \A i \in 1 .. l : i \in 1 .. Len(s) /\ s[i] \in E /\ IsRegular(s[i])
      /\ \A y \in E : IsRegular(y) => \E i \in 1 .. l : y = s[i]
  BY <1>1, RegularFirst, ListIs
<1>3. /\ x.index.feature + 1 \in 1 .. FeatureCount(s)
      /\ p \in 1 .. l /\ e \in p .. l
      /\ \A j \in 1 .. l : j \in p .. e <=> Scope(s[j]) = Scope(x)
  BY FeatureRun
<1>4. Q = RunStarts(lk, p, e) /\ P = {j \in Q : s[j].isFeatParam}
  BY DEF LookupRuns, ParamRuns, End
<1>5. ~(Cardinality(P) > 1)
  BY <1>3 DEF FeaturesFail, Begin
<1>6. \A i \in 1 .. Len(s) : lk[i] = s[i].index.lookup /\ s[i] \in SubType /\ lk[i] \in Int
  BY <1>1, <1>2, ListIs DEF SubType
<1> HIDE DEF E, l, p, e, lk
<1>7. p \in Nat /\ e \in Nat /\ \A j \in p .. e : j \in 1 .. l /\ j \in 1 .. Len(s)
  BY <1>2, <1>3
<1>8. Q \subseteq p .. e /\ \A j \in Q : j = p \/ lk[j] # lk[j - 1]
  BY <1>4 DEF RunStarts
<1>9. IsFiniteSet(Q)
  <2>1. IsFiniteSet(1 .. l)
    BY <1>2, UpTo
  <2>2. Q \subseteq 1 .. l
    BY <1>7, <1>8
  <2> QED
    BY <2>1, <2>2, Part
<1>10. ASSUME NEW i \in p .. e, NEW j \in p .. e, i < j PROVE lk[i] =< lk[j]
  <2>1. /\ i \in 1 .. l /\ j \in 1 .. l /\ i \in 1 .. Len(s) /\ j \in 1 .. Len(s)
        /\ s[i] \in E /\ s[j] \in E /\ IsRegular(s[i]) /\ IsRegular(s[j])
    BY <1>2, <1>7
  <2>2. Scope(s[i]) = Scope(s[j])
    BY <1>3, <2>1
  <2>3. s[i].feature = s[j].feature /\ s[i].index.feature = s[j].index.feature
    BY <1>1, <2>1, <2>2 DEF FeatureFacts, Scope
  <2>4. FeatureAtMost(s[i], s[j])
    BY <1>1, <1>10, <2>1 DEF InFeatureOrder
  <2>5. s[i].feature # UNDEF
    BY <2>1, Classes, Zenon DEF IsRegular
  <2>6. Ord(s[i].feature = STAND_ALONE) = Ord(s[j].feature = STAND_ALONE)
    BY <2>3
  <2>7. s[i].index.feature \in Int /\ TagRank[s[i].feature] \in Nat
    <3>1. s[i] \in SubType
      BY <1>6, <2>1
    <3> QED
      BY <3>1, TagRanks DEF SubType
  <2>8. Ord(s[i].feature = STAND_ALONE) \in Nat
    BY DEF Ord
  <2>9. s[i].index.lookup =< s[j].index.lookup
    BY <2>3, <2>4, <2>5, <2>6, <2>7, <2>8 DEF FeatureAtMost
  <2> QED
    BY <1>6, <2>1, <2>9
<1>11. ASSUME NEW j \in Q, NEW k \in Q, j < k PROVE s[j].index.lookup < s[k].index.lookup
  <2>1. j \in p .. e /\ k \in p .. e /\ k - 1 \in p .. e /\ k # p /\ k - 1 < k
    BY <1>7, <1>8, <1>11
  <2>2. lk[k] # lk[k - 1] /\ lk[k - 1] =< lk[k]
    <3>1. lk[k] # lk[k - 1]
      BY <1>8, <2>1
    <3>2. lk[k - 1] =< lk[k]
      BY <1>10, <2>1
    <3> QED
      BY <3>1, <3>2
  <2>3. lk[j] =< lk[k - 1]
    <3>1. CASE j = k - 1
      BY <1>6, <1>7, <2>1, <3>1
    <3>2. CASE j < k - 1
      BY <1>10, <2>1, <3>2
    <3> QED
      BY <1>7, <1>11, <2>1, <3>1, <3>2
  <2>4. lk[j] \in Int /\ lk[k] \in Int /\ lk[k - 1] \in Int
    BY <1>6, <1>7, <2>1
  <2>5. lk[j] < lk[k]
    BY <2>2, <2>3, <2>4
  <2> QED
    BY <1>6, <1>7, <2>1, <2>5
<1>12. ASSUME NEW y \in E, Scope(y) = Scope(x)
       PROVE  \E k \in Q : s[k].index.lookup = y.index.lookup
  <2>1. IsRegular(y)
    BY <1>12 DEF IsRegular
  <2>2. PICK m \in 1 .. l : y = s[m]
    BY <1>2, <2>1
  <2>3. m \in p .. e
    BY <1>3, <1>12, <2>2
  <2>4. PICK k \in RunStarts(lk, p, e) : k <= m /\ \A n \in k .. m : lk[n] = lk[m]
    BY <1>7, <2>3, RunHasStart
  <2>5. k \in Q /\ k \in p .. e /\ k \in k .. m
    BY <1>4, <1>7, <1>8, <2>3, <2>4
  <2>6. lk[k] = lk[m]
    BY <2>4, <2>5
  <2> QED
    BY <1>6, <1>7, <2>2, <2>3, <2>5, <2>6
<1>13. \A j \in Q : Scope(s[j]) = Scope(x) /\ s[j] \in E /\ s[j].index.lookup \in Int
  BY <1>2, <1>3, <1>6, <1>7, <1>8
<1>14. ASSUME NEW y \in E, y.isFeatParam, Scope(y) = Scope(x)
       PROVE  \E k \in P : s[k].index.lookup = -1
  <2>1. PICK z \in E : z.isFeatParam /\ Scope(z) = Scope(y) /\ z.index.lookup = -1
    BY <1>1, <1>14 DEF LookupFacts
  <2>2. PICK k \in Q : s[k].index.lookup = -1
    BY <1>12, <1>14, <2>1
  <2>3. s[k].isFeatParam
    <3>1. -1 \notin Nat
      OBVIOUS
    <3> QED
      BY <1>1, <1>13, <2>2, <3>1 DEF LookupFacts
  <2> QED
    BY <1>4, <2>2, <2>3
<1>15. ASSUME NEW j \in P PROVE s[j].index.lookup = -1
  <2>1. j \in Q /\ s[j].isFeatParam /\ s[j] \in E /\ Scope(s[j]) = Scope(x)
    BY <1>4, <1>13
  <2>2. PICK k \in P : s[k].index.lookup = -1
    BY <1>14, <2>1
  <2>3. IsFiniteSet(P)
    BY <1>4, <1>9, Part
  <2>4. j = k
    BY <1>5, <2>3, AtMostOne
  <2> QED
    BY <2>2, <2>4
<1>16. ASSUME NEW y \in E, ~y.isFeatParam, Scope(y) = Scope(x)
       PROVE  \E k \in Q \ P : s[k].index.lookup = y.index.lookup
  <2>1. PICK k \in Q : s[k].index.lookup = y.index.lookup
    BY <1>12, <1>16
  <2>2. y.index.lookup \in Nat
    BY <1>1, <1>16 DEF LookupFacts
  <2>3. k \notin P
    BY <1>15, <2>1, <2>2
  <2> QED
    BY <2>1, <2>3
<1>17. Q \subseteq 1 .. l
  BY <1>7, <1>8
<1> QED
  BY <1>4, <1>9, <1>11, <1>13, <1>14, <1>16, <1>17 DEF E, l


\* The entry of the feature of x: its lookups ascending, and the parameters if it has any, which
\* a reference leads to as well
EntryOf(f, x, E) ==
    /\ f.tag = x.feature
    /\ \A i, j \in DOMAIN f.lookups : i < j => f.lookups[i] < f.lookups[j]
    /\ {f.lookups[i] : i \in DOMAIN f.lookups}
       = {y.index.lookup : y \in {z \in E : ~z.isFeatParam /\ Scope(z) = Scope(x)}}
    /\ IF \E y \in E : y.isFeatParam /\ Scope(y) = Scope(x)
       THEN \E y, d \in E : /\ y.isFeatParam /\ Scope(y) = Scope(x)
                            /\ IsDefinition(d) /\ d.label = BaseLab(y.label) /\ d.offset = f.param
       ELSE f.param = None

FeatureListIs(list, E) ==
    /\ DOMAIN list = {x.index.feature : x \in {y \in E : IsRegular(y)}}
    /\ \A x \in E : IsRegular(x) => EntryOf(list[x.index.feature], x, E)

\* findFeatParamOffset finds the parameters that a reference names.
LEMMA ParamOfIs ==
    ASSUME NEW s, FeatureSorted(s), NEW k \in 1 .. ListLimit(s), s[k].isFeatParam
    PROVE  \E d \in Elements(s) : IsDefinition(d) /\ d.label = BaseLab(s[k].label)
                                  /\ d.offset = ParamOf(s, s[k])
<1> DEFINE E == Elements(s)
           l == ListLimit(s)
           sub == s[k]
           found == {i \in 1 .. l : s[i].feature = sub.feature /\ s[i].label = BaseLab(sub.label)}
<1>1. /\ ListType(s) /\ Client(E) /\ InClassOrder(s) /\ LookupFacts(E)
  BY ClassOrderOf DEF FeatureSorted
<1>2. /\ l \in Nat /\ Len(s) \in Nat
      /\ \A i \in 1 .. l : i \in 1 .. Len(s) /\ s[i] \in E /\ IsRegular(s[i])
      /\ \A y \in E : IsRegular(y) => \E i \in 1 .. l : y = s[i]
  BY <1>1, RegularFirst
<1>3. sub \in E /\ sub.isFeatParam /\ E \subseteq SubType
  BY <1>1, <1>2, ElementTypes
<1>4. ParamOf(s, sub) = IF ~IsRefLab(sub.label) THEN sub.offset
                        ELSE s[CHOOSE i \in found : \A j \in found : i =< j].offset
  BY DEF ParamOf
<1>5. sub.label \in Label /\ BaseLab(sub.label) <= FEAT_ANON_LKP_END
  BY <1>1, <1>3 DEF Client, SubType
<1>6. /\ BaseLab(BaseLab(sub.label)) = BaseLab(sub.label) /\ ~IsRefLab(BaseLab(sub.label))
      /\ ~IsRefLab(sub.label) => BaseLab(sub.label) = sub.label
  BY <1>5, LabelNumbers
<1> HIDE DEF E, l, sub, found
<1>7. CASE ~IsRefLab(sub.label)
  BY <1>3, <1>4, <1>6, <1>7 DEF IsDefinition, E, sub
<1>8. CASE IsRefLab(sub.label)
  <2>1. PICK y \in E : y.label = BaseLab(sub.label)
    BY <1>1, <1>3, <1>8 DEF LookupFacts
  <2>2. BaseLab(y.label) = BaseLab(sub.label)
    BY <1>6, <2>1
  <2>3. /\ y.isFeatParam <=> sub.isFeatParam
        /\ y.isFeatParam => y.feature = sub.feature
    BY <1>1, <1>3, <2>2 DEF Client
  <2>4. y.isFeatParam /\ y.feature = sub.feature
    BY <1>3, <2>3
  <2>5. IsRegular(y)
    BY <1>1, <2>4 DEF Client, IsRegular
  <2>6. found \subseteq Nat /\ found # {}
    <3>1. PICK i \in 1 .. l : y = s[i]
      BY <1>2, <2>5
    <3>2. i \in found
      BY <2>1, <2>4, <3>1 DEF found
    <3>3. found \subseteq Nat
      BY <1>2 DEF found
    <3> QED
      BY <3>2, <3>3
  <2>7. \E i \in found : \A j \in found : i <= j
    BY <2>6, LeastNumber, Zenon
  <2> DEFINE c == CHOOSE i \in found : \A j \in found : i =< j
  <2>8. c \in found
    BY <2>7
  <2> HIDE DEF c
  <2>9. c \in 1 .. l /\ s[c].label = BaseLab(sub.label)
    BY <2>8 DEF found
  <2>10. s[c] \in E /\ IsDefinition(s[c]) /\ s[c].offset = ParamOf(s, sub)
    BY <1>2, <1>4, <1>6, <1>8, <2>9 DEF IsDefinition, c
  <2> QED
    BY <2>9, <2>10 DEF E, sub
<1> QED
  BY <1>7, <1>8

\* fillFeatureList makes the entry of each feature at its index.
LEMMA FeatureListOf ==
    ASSUME NEW s, FeatureSorted(s), ~FeaturesFail(s)
    PROVE  FeatureListIs(FeatureList(s), Elements(s))
<1> DEFINE E == Elements(s)
           l == ListLimit(s)
           list == FeatureList(s)
           n0 == FeatureCount(s)
           entry(i) ==
              LET lookups == InOrder(LookupRuns(s, i) \ ParamRuns(s, i))
                  params == ParamRuns(s, i)
              IN  [tag |-> s[i].feature,
                   lookups |-> [k \in DOMAIN lookups |-> s[lookups[k]].index.lookup],
                   param |-> IF params = {} THEN None ELSE ParamOf(s, s[CHOOSE j \in params : TRUE])]
<1>1. /\ ListType(s) /\ Client(E) /\ InClassOrder(s) /\ FeatureFacts(E)
  BY ClassOrderOf DEF FeatureSorted
<1>2. /\ l \in Nat /\ Len(s) \in Nat
      /\ \A i \in 1 .. l : i \in 1 .. Len(s) /\ s[i] \in E /\ IsRegular(s[i])
      /\ \A y \in E : IsRegular(y) => \E i \in 1 .. l : y = s[i]
  BY <1>1, RegularFirst
<1>3. /\ DOMAIN list = 0 .. n0 - 1
      /\ \A n \in 0 .. n0 - 1 :
            list[n] = entry(InOrder(FeatureStarts(s))[n + 1])
  BY DEF FeatureList
<1> HIDE DEF list, entry
<1>4. ASSUME NEW x \in E, IsRegular(x)
      PROVE  x.index.feature \in 0 .. n0 - 1 /\ EntryOf(list[x.index.feature], x, E)
  <2> DEFINE p == Begin(s, x)
             Q == LookupRuns(s, p)
             P == ParamRuns(s, p)
             runs == InOrder(Q \ P)
             f == list[x.index.feature]
  <2>1. /\ x.index.feature + 1 \in 1 .. n0
        /\ p \in 1 .. l
        /\ \A j \in 1 .. l : j \in p .. End(s, x) <=> Scope(s[j]) = Scope(x)
        /\ End(s, x) \in p .. l
    BY <1>4, FeatureRun
  <2>2. /\ IsFiniteSet(Q) /\ Q \subseteq 1 .. l /\ P = {j \in Q : s[j].isFeatParam}
        /\ \A j \in Q : Scope(s[j]) = Scope(x)
        /\ \A j \in Q : s[j].index.lookup \in Int
        /\ \A j, k \in Q : j < k => s[j].index.lookup < s[k].index.lookup
        /\ (\E y \in E : y.isFeatParam /\ Scope(y) = Scope(x)) => P # {}
        /\ \A y \in E : ~y.isFeatParam /\ Scope(y) = Scope(x) =>
              \E k \in Q \ P : s[k].index.lookup = y.index.lookup
    BY <1>4, FeatureLookups
  <2>3. x.index.feature \in Nat
    BY <1>1, <1>4 DEF FeatureFacts
  <2> HIDE DEF n0
  <2>4. x.index.feature \in 0 .. n0 - 1
    <3> DEFINE a == x.index.feature
    <3>1. a + 1 \in 1 .. n0 /\ a \in Nat
      BY <2>1, <2>3
    <3>2. n0 \in Int
      <4>1. CASE l = 0
        BY <4>1 DEF n0, FeatureCount
      <4>2. CASE l # 0
        <5>1. l \in 1 .. l
          BY <1>2, <4>2
        <5>2. s[l].index.feature \in Nat
          BY <1>1, <1>2, <5>1 DEF FeatureFacts
        <5> QED
          BY <4>2, <5>2 DEF n0, FeatureCount
      <4> QED
        BY <4>1, <4>2
    <3> HIDE DEF a
    <3>3. a \in 0 .. n0 - 1
      BY <3>1, <3>2
    <3> QED
      BY <3>3 DEF a
  <2>5. f = [tag |-> s[p].feature,
             lookups |-> [k \in DOMAIN runs |-> s[runs[k]].index.lookup],
             param |-> IF P = {} THEN None ELSE ParamOf(s, s[CHOOSE j \in P : TRUE])]
    <3>1. f = entry(p)
      BY <1>3, <2>4 DEF Begin
    <3> QED
      BY <3>1 DEF entry
  <2> HIDE DEF p, Q, P, runs, f, l, E
  <2>6. Scope(s[p]) = Scope(x)
    <3>1. p \in p .. End(s, x)
      BY <1>2, <2>1
    <3> QED
      BY <2>1, <3>1
  <2>7. f.tag = x.feature
    BY <2>5, <2>6 DEF Scope
  <2>8. /\ Cardinality(Q \ P) \in Nat
        /\ runs \in [1 .. Cardinality(Q \ P) -> Q \ P]
        /\ \A i \in Q \ P : \E m \in 1 .. Cardinality(Q \ P) : runs[m] = i
        /\ \A m, n \in 1 .. Cardinality(Q \ P) : m < n => runs[m] < runs[n]
    <3>1. IsFiniteSet(Q \ P) /\ Q \ P \subseteq Int
      <4>1. Q \ P \subseteq Q /\ Q \subseteq Int
        BY <1>2, <2>2
      <4> QED
        BY <2>2, <4>1, Part
    <3> DEFINE R == Q \ P
    <3> HIDE DEF R
    <3>2. IsFiniteSet(R) /\ R \subseteq Int /\ runs = InOrder(R)
      BY <3>1 DEF R, runs
    <3>3. /\ Cardinality(R) \in Nat
          /\ InOrder(R) \in [1 .. Cardinality(R) -> R]
          /\ \A i \in R : /\ Cardinality(Below(R, i)) + 1 \in 1 .. Cardinality(R)
                          /\ InOrder(R)[Cardinality(Below(R, i)) + 1] = i
          /\ \A m, n \in 1 .. Cardinality(R) : m < n <=> InOrder(R)[m] < InOrder(R)[n]
      BY <3>2, InOrderIs
    <3>4. \A i \in R : \E m \in 1 .. Cardinality(R) : runs[m] = i
      BY <3>2, <3>3
    <3>5. /\ Cardinality(R) \in Nat /\ runs \in [1 .. Cardinality(R) -> R]
          /\ \A m, n \in 1 .. Cardinality(R) : m < n => runs[m] < runs[n]
      BY <3>2, <3>3
    <3> QED
      BY <3>4, <3>5 DEF R
  <2> DEFINE c == Cardinality(Q \ P)
  <2> HIDE DEF c
  <2>9. /\ DOMAIN f.lookups = 1 .. c
        /\ \A k \in 1 .. c : f.lookups[k] = s[runs[k]].index.lookup /\ runs[k] \in Q /\ runs[k] \notin P
    BY <2>5, <2>8 DEF c
  <2>10. \A i, j \in DOMAIN f.lookups : i < j => f.lookups[i] < f.lookups[j]
    <3> SUFFICES ASSUME NEW i \in 1 .. c, NEW j \in 1 .. c, i < j PROVE f.lookups[i] < f.lookups[j]
      BY <2>9
    <3>1. runs[i] \in Q /\ runs[j] \in Q /\ runs[i] < runs[j]
      BY <2>8, <2>9 DEF c
    <3>2. s[runs[i]].index.lookup < s[runs[j]].index.lookup
      BY <2>2, <3>1
    <3> QED
      BY <2>9, <3>2
  <2>11. {f.lookups[i] : i \in DOMAIN f.lookups}
         = {y.index.lookup : y \in {z \in E : ~z.isFeatParam /\ Scope(z) = Scope(x)}}
    <3>1. ASSUME NEW i \in 1 .. c
          PROVE  \E y \in E : ~y.isFeatParam /\ Scope(y) = Scope(x) /\ f.lookups[i] = y.index.lookup
      <4>1. runs[i] \in Q /\ runs[i] \notin P
        BY <2>9
      <4>2. s[runs[i]] \in E /\ ~s[runs[i]].isFeatParam /\ Scope(s[runs[i]]) = Scope(x)
        BY <1>2, <2>2, <4>1
      <4> QED
        BY <2>9, <4>2
    <3>2. ASSUME NEW y \in E, ~y.isFeatParam, Scope(y) = Scope(x)
          PROVE  \E i \in 1 .. c : f.lookups[i] = y.index.lookup
      <4>1. PICK k \in Q \ P : s[k].index.lookup = y.index.lookup
        BY <2>2, <3>2
      <4>2. PICK i \in 1 .. c : runs[i] = k
        BY <2>8 DEF c
      <4> QED
        BY <2>9, <4>1, <4>2
    <3> QED
      BY <2>9, <3>1, <3>2
  <2>12. IF \E y \in E : y.isFeatParam /\ Scope(y) = Scope(x)
         THEN \E y, d \in E : /\ y.isFeatParam /\ Scope(y) = Scope(x)
                              /\ IsDefinition(d) /\ d.label = BaseLab(y.label) /\ d.offset = f.param
         ELSE f.param = None
    <3>1. CASE P = {}
      <4>1. f.param = None
        BY <2>5, <3>1
      <4> QED
        BY <2>2, <3>1, <4>1
    <3>2. CASE P # {}
      <4> DEFINE k == CHOOSE j \in P : TRUE
      <4>1. k \in P
        BY <3>2
      <4>2. f.param = ParamOf(s, s[k])
        BY <2>5, <3>2
      <4> HIDE DEF k
      <4>3. k \in Q /\ k \in 1 .. l /\ s[k].isFeatParam /\ s[k] \in E /\ Scope(s[k]) = Scope(x)
        BY <1>2, <2>2, <4>1
      <4>4. \E d \in E : IsDefinition(d) /\ d.label = BaseLab(s[k].label) /\ d.offset = f.param
        BY <4>2, <4>3, ParamOfIs DEF l, E
      <4> QED
        BY <4>3, <4>4
    <3> QED
      BY <3>1, <3>2
  <2>13. EntryOf(f, x, E)
    BY <2>7, <2>10, <2>11, <2>12 DEF EntryOf
  <2> QED
    BY <2>4, <2>13 DEF f
<1>5. ASSUME NEW n \in 0 .. n0 - 1 PROVE \E x \in E : IsRegular(x) /\ x.index.feature = n
  <2>1. l # 0
    BY DEF FeatureCount
  <2>2. l \in 1 .. l /\ n0 = s[l].index.feature + 1
    BY <1>2, <2>1 DEF FeatureCount
  <2>3. s[l] \in E /\ IsRegular(s[l])
    BY <1>2, <2>2
  <2>4. s[l].index.feature \in Nat
    BY <1>1, <2>3 DEF FeatureFacts
  <2> HIDE DEF n0, E, l
  <2>5. n = s[l].index.feature \/ n < s[l].index.feature
    BY <2>2, <2>4
  <2>6. n \in Nat
    OBVIOUS
  <2> QED
    BY <1>1, <2>3, <2>5, <2>6 DEF FeatureFacts
<1> HIDE DEF E, n0, l
<1>6. DOMAIN list = {x.index.feature : x \in {y \in E : IsRegular(y)}}
  BY <1>3, <1>4, <1>5
<1>7. \A x \in E : IsRegular(x) => EntryOf(list[x.index.feature], x, E)
  BY <1>4
<1> QED
  BY <1>6, <1>7 DEF FeatureListIs, E, list


-----------------------------------------------------------------------------
(* The three lists together *)

\* What the lists that are filled hold, unless more subtables are anonymous than stand-alone
FilledFeatures ==
    "manyAnonymous" \notin Forms /\ Filled =>
        /\ FeatureFacts(Elements(subtable))
        /\ LangSysIs(tbl.langSys, Elements(subtable))
        /\ FeatureListIs(tbl.feature, Elements(subtable))

\* otlTableFill makes these lists of whatever the client has added, in whichever orders qsort leaves.
LEMMA FillFeatures ==
    ASSUME "manyAnonymous" \notin Forms, ClientList(subtable),
           NEW t, NEW u, NEW v, FilledWith(Sorted(subtable), t, u, v)
    PROVE  FilledFeatures'
<1> DEFINE s == Sorted(subtable)
           w == WithLookupIndexes(s)
<1>1. ListType(subtable)
  BY DEF ClientList
<1>2. ListType(s) /\ InLookupOrder(s) /\ ClientList(s)
  <2>1. ListType(s) /\ InLookupOrder(s) /\ Elements(s) = Elements(subtable)
    BY <1>1, SortedIs
  <2> HIDE DEF s
  <2> QED
    BY <2>1, SameClient
<1>3. /\ ~LookupsFail(s) /\ ~FeaturesFail(u) /\ t \in WithFeatureIndexes(w)
      /\ u \in Orders(t, FeatureOrder(t)) /\ v \in Orders(t, ScriptOrder(t))
      /\ tbl'.langSys = LangSysList(v) /\ tbl'.feature = FeatureList(u)
      /\ subtable' = Sorted(t)
  BY DEF FilledWith
<1>4. LookupFacts(Elements(t))
  BY FilledElements
<1> HIDE DEF s
<1>5. Client(Elements(s)) /\ SpansFit(s)
  BY <1>2 DEF ClientList
<1>6. w \in Seq(SubType) /\ SameCores(s, w)
  BY <1>2, <1>3, <1>5, LookupIndexes
<1> HIDE DEF w
<1>7. ClientList(w)
  <2>1. ListType(w) /\ SameCounters(s, w) /\ Client(Elements(w))
    BY <1>2, <1>5, <1>6, CoresKeep
  <2> QED
    BY <1>5, <2>1 DEF ClientList, SpansFit, SameCounters
<1>8. ClientList(t) /\ FeatureFacts(Elements(t)) /\ TagsOrdered(Elements(t))
  BY <1>3, <1>7, FeaturesNumbered
<1>9. ListType(t) /\ Len(t) \in Nat /\ Client(Elements(t))
  BY <1>8, ListIs DEF ClientList
<1>10. Elements(subtable') = Elements(t)
  BY <1>3, <1>9, SortedIs
<1>11. FeatureListIs(tbl'.feature, Elements(t))
  <2>1. ListType(u) /\ SameElements(t, u) /\ InFeatureOrder(u)
    BY <1>3, <1>9, SortsByFeature
  <2>2. Elements(u) = Elements(t)
    BY <1>9, <2>1, ElementsOfSame
  <2>3. FeatureSorted(u)
    BY <1>4, <1>8, <1>9, <2>1, <2>2 DEF FeatureSorted
  <2> QED
    BY <1>3, <2>2, <2>3, FeatureListOf
<1>12. LangSysIs(tbl'.langSys, Elements(t))
  <2>1. ListType(v) /\ SameElements(t, v) /\ InScriptOrder(v)
    BY <1>3, <1>9, SortsByScript
  <2>2. Elements(v) = Elements(t)
    BY <1>9, <2>1, ElementsOfSame
  <2>3. LangSysIs(LangSysList(v), Elements(v))
    BY <1>9, <2>1, <2>2, LangSysListOf
  <2> QED
    BY <1>3, <2>2, <2>3
<1> QED
  BY <1>8, <1>10, <1>11, <1>12 DEF FilledFeatures

\* The invariant of the whole table
TableInv == OtlInv /\ FilledFeatures

\* Every step keeps it,
LEMMA TableInvNext ==
    ASSUME TableInv, [Next]_vars
    PROVE  TableInv'
<1>0. OtlInv /\ AddingInv /\ FilledFeatures /\ OtlInv'
  BY OtlInvNext DEF TableInv, OtlInv
<1>1. CASE AddLookup \/ AddParam \/ AddMore \/ AddReference \/ AddDangling
  <2>1. pc = "adding" /\ pc' = pc
    BY <1>1 DEF AddLookup, AddParam, AddMore, AddReference, AddDangling, Add
  <2> QED
    BY <1>0, <2>1 DEF TableInv, FilledFeatures, Filled
<1>2. CASE Fill
  <2>1. pc = "adding" /\ (GiveUp \/ \E t, u, v : FilledWith(Sorted(subtable), t, u, v))
    BY <1>2, FillIs
  <2>2. CASE GiveUp
    BY <1>0, <2>2 DEF GiveUp, TableInv, FilledFeatures, Filled
  <2>3. CASE \E t, u, v : FilledWith(Sorted(subtable), t, u, v)
    <3>1. CASE "manyAnonymous" \notin Forms
      <4>1. ClientList(subtable)
        BY <1>0, <2>1 DEF AddingInv
      <4>2. FilledFeatures'
        BY <2>3, <3>1, <4>1, FillFeatures
      <4> QED
        BY <1>0, <4>2 DEF TableInv
    <3>2. CASE "manyAnonymous" \in Forms
      BY <1>0, <3>2 DEF TableInv, FilledFeatures
    <3> QED
      BY <3>1, <3>2
  <2> QED
    BY <2>1, <2>2, <2>3
<1>3. CASE SetAnonLookupIndices
  <2>1. pc = "filled" /\ subtable' = subtable /\ tbl' = tbl
    BY <1>3 DEF SetAnonLookupIndices
  <2> QED
    BY <1>0, <2>1 DEF TableInv, FilledFeatures, Filled
<1>4. CASE CheckStandAloneTablRefs
  <2>1. pc = "resolved" /\ subtable' = subtable /\ tbl' = tbl
    BY <1>4 DEF CheckStandAloneTablRefs
  <2> QED
    BY <1>0, <2>1 DEF TableInv, FilledFeatures, Filled
<1>5. CASE UNCHANGED vars
  <2>1. pc' = pc /\ subtable' = subtable /\ tbl' = tbl
    BY <1>5 DEF vars
  <2> QED
    BY <1>0, <2>1 DEF TableInv, FilledFeatures, Filled
<1> QED
  BY <1>1, <1>2, <1>3, <1>4, <1>5 DEF Next, Finished

\* and so it holds in every reachable state.
LEMMA TableInvariant == Spec => []TableInv
<1>1. Init => TableInv
  <2> SUFFICES ASSUME Init PROVE TableInv
    OBVIOUS
  <2>1. pc = "adding"
    BY DEF Init
  <2> QED
    BY <2>1, OtlInvInit DEF TableInv, FilledFeatures, Filled
<1>2. TableInv /\ [Next]_vars => TableInv'
  BY TableInvNext
<1> QED
  BY <1>1, <1>2, PTL DEF Spec

\* What a property of the filled table may use
LEMMA FilledTable ==
    ASSUME TableInv, "manyAnonymous" \notin Forms, Filled, NEW E, E = Elements(subtable)
    PROVE  /\ ListType(subtable) /\ Client(E) /\ LookupFacts(E) /\ FeatureFacts(E) /\ E \subseteq SubType
           /\ LookupListIs(tbl.lookup, E) /\ LangSysIs(tbl.langSys, E) /\ FeatureListIs(tbl.feature, E)
           /\ Definitions = {x \in E : IsDefinition(x)} /\ Definitions \cup References = E
<1>1. FilledLookups /\ FilledFeatures
  BY DEF TableInv, OtlInv
<1>2. ListType(subtable)
  BY <1>1 DEF FilledLookups
<1>3. E \subseteq SubType
  BY <1>2, ElementTypes
<1>4. Definitions = {x \in E : IsDefinition(x)} /\ References = {x \in E : ~IsDefinition(x)}
  BY <1>2, DefinitionsAre
<1>5. Definitions \cup References = E
  BY <1>4
<1> QED
  BY <1>1, <1>2, <1>3, <1>4, <1>5 DEF FilledLookups, FilledFeatures

\* The language systems of the table lead to the features of the regular subtables.
LEMMA LangSysLeads ==
    ASSUME NEW E, NEW langSys, LangSysIs(langSys, E), NEW list, FeatureListIs(list, E), FeatureFacts(E)
    PROVE  /\ \A r \in langSys : \A n \in r.features :
                 /\ n \in DOMAIN list
                 /\ \E y \in E : /\ IsRegular(y) /\ y.index.feature = n /\ EntryOf(list[n], y, E)
                                 /\ Scope(y) = <<r.script, r.language, list[n].tag>>
           /\ \A y \in E : IsRegular(y) =>
                 \E r \in langSys : /\ r.script = y.script /\ r.language = y.language
                                    /\ y.index.feature \in r.features
                                    /\ EntryOf(list[y.index.feature], y, E)
                                    /\ list[y.index.feature].tag = y.feature
<1>1. ASSUME NEW r \in langSys, NEW n \in r.features
      PROVE  /\ n \in DOMAIN list
             /\ \E y \in E : /\ IsRegular(y) /\ y.index.feature = n /\ EntryOf(list[n], y, E)
                             /\ Scope(y) = <<r.script, r.language, list[n].tag>>
  <2>1. PICK x \in E : IsRegular(x) /\ r = LangSysOf(x, E)
    BY DEF LangSysIs
  <2>2. PICK y \in E : /\ IsRegular(y) /\ y.script = r.script /\ y.language = r.language
                       /\ n = y.index.feature
    BY <2>1 DEF LangSysOf
  <2>3. EntryOf(list[n], y, E) /\ n \in DOMAIN list
    BY <2>2 DEF FeatureListIs
  <2>4. Scope(y) = <<r.script, r.language, list[n].tag>>
    BY <2>2, <2>3 DEF EntryOf, Scope
  <2> QED
    BY <2>2, <2>3, <2>4
<1>2. ASSUME NEW y \in E, IsRegular(y)
      PROVE  \E r \in langSys : /\ r.script = y.script /\ r.language = y.language
                                /\ y.index.feature \in r.features
                                /\ EntryOf(list[y.index.feature], y, E)
                                /\ list[y.index.feature].tag = y.feature
  <2>1. LangSysOf(y, E) \in langSys
    BY <1>2 DEF LangSysIs
  <2>2. /\ LangSysOf(y, E).script = y.script /\ LangSysOf(y, E).language = y.language
        /\ y.index.feature \in LangSysOf(y, E).features
    BY <1>2 DEF LangSysOf
  <2>3. EntryOf(list[y.index.feature], y, E)
    BY <1>2 DEF FeatureListIs
  <2>4. list[y.index.feature].tag = y.feature
    BY <2>3 DEF EntryOf
  <2> QED
    BY <2>1, <2>2, <2>3, <2>4
<1> QED
  BY <1>1, <1>2


-----------------------------------------------------------------------------
(* What text shapers find *)

\* The subtables of the lookup of z, in the lookup list and among the definitions
LEMMA LookupOf ==
    ASSUME NEW s, ListType(s), Client(Elements(s)), LookupFacts(Elements(s)),
           NEW lookups, LookupListIs(lookups, Elements(s)),
           NEW z \in Elements(s), ~z.isFeatParam, z.index.lookup \in DOMAIN lookups, NEW o
    PROVE  o \in lookups[z.index.lookup]
           <=> \E d \in Elements(s) : IsDefinition(d) /\ d.label = BaseLab(z.label) /\ o = d.offset
<1> DEFINE E == Elements(s)
<1>1. E \subseteq SubType
  BY ElementTypes
<1>2. Client(E) /\ LookupFacts(E) /\ LookupListIs(lookups, E) /\ z \in E
  OBVIOUS
<1> HIDE DEF E
<1>3. lookups[z.index.lookup] = {x.offset : x \in {y \in E : IsLookup(y) /\ y.index.lookup = z.index.lookup}}
  BY <1>2 DEF LookupListIs
<1>4. ASSUME NEW d \in E, IsDefinition(d)
      PROVE  IsLookup(d) /\ d.index.lookup = z.index.lookup <=> d.label = BaseLab(z.label)
  <2>1. BaseLab(d.label) = d.label
    BY <1>1, <1>2, <1>4, DefinitionLabel
  <2>2. BaseLab(d.label) = BaseLab(z.label) => (d.isFeatParam <=> z.isFeatParam)
    BY <1>2, Zenon DEF Client
  <2>3. ~d.isFeatParam => (d.index.lookup = z.index.lookup <=> BaseLab(d.label) = BaseLab(z.label))
    BY <1>2, Zenon DEF LookupFacts
  <2>4. IsLookup(d) <=> ~d.isFeatParam
    BY <1>4 DEF IsLookup, IsDefinition
  <2> QED
    BY <2>1, <2>2, <2>3, <2>4
<1>5. \A d \in E : IsLookup(d) => IsDefinition(d)
  BY DEF IsLookup, IsDefinition
<1>6. ASSUME o \in lookups[z.index.lookup]
      PROVE  \E d \in E : IsDefinition(d) /\ d.label = BaseLab(z.label) /\ o = d.offset
  <2>1. PICK d \in E : IsLookup(d) /\ d.index.lookup = z.index.lookup /\ o = d.offset
    BY <1>3, <1>6
  <2> QED
    BY <1>4, <1>5, <2>1
<1>7. ASSUME NEW d \in E, IsDefinition(d), d.label = BaseLab(z.label), o = d.offset
      PROVE  o \in lookups[z.index.lookup]
  BY <1>3, <1>4, <1>7
<1> QED
  BY <1>6, <1>7 DEF E

\* The lookups that are found under a script, language and feature are those registered there.
LEMMA FindsRegistered ==
    ASSUME TableInv, "manyAnonymous" \notin Forms, Filled, NEW scope \in Regular
    PROVE  Found(scope[1], scope[2], scope[3]) = RegisteredUnder(scope)
<1> DEFINE E == Elements(subtable)
           ns == UNION {r.features : r \in {x \in tbl.langSys :
                                               x.script = scope[1] /\ x.language = scope[2]}}
           fs == {m \in ns : tbl.feature[m].tag = scope[3]}
           ks == UNION {{tbl.feature[n].lookups[i] : i \in DOMAIN tbl.feature[n].lookups} : n \in fs}
           labels == {BaseLab(sub.label) :
                        sub \in {x \in Definitions \cup References : Scope(x) = scope /\ ~x.isFeatParam}}
<1>1. Found(scope[1], scope[2], scope[3]) = UNION {tbl.lookup[k] : k \in ks}
  BY DEF Found
<1>2. RegisteredUnder(scope) = {d.offset : d \in {x \in Definitions : x.label \in labels}}
  BY DEF RegisteredUnder
<1>3. scope = <<scope[1], scope[2], scope[3]>>
  BY OtlAssumption
<1>4. /\ ListType(subtable) /\ Client(E) /\ LookupFacts(E) /\ FeatureFacts(E)
      /\ LookupListIs(tbl.lookup, E) /\ LangSysIs(tbl.langSys, E) /\ FeatureListIs(tbl.feature, E)
      /\ Definitions = {x \in E : IsDefinition(x)} /\ Definitions \cup References = E
  BY FilledTable
<1>5. /\ \A r \in tbl.langSys : \A n \in r.features :
            \E y \in E : /\ IsRegular(y) /\ y.index.feature = n /\ EntryOf(tbl.feature[n], y, E)
                         /\ Scope(y) = <<r.script, r.language, tbl.feature[n].tag>>
      /\ \A y \in E : IsRegular(y) =>
            \E r \in tbl.langSys : /\ r.script = y.script /\ r.language = y.language
                                   /\ y.index.feature \in r.features
                                   /\ EntryOf(tbl.feature[y.index.feature], y, E)
                                   /\ tbl.feature[y.index.feature].tag = y.feature
  BY <1>4, LangSysLeads
<1>6. ASSUME NEW k
      PROVE  k \in ks <=> \E z \in E : ~z.isFeatParam /\ Scope(z) = scope /\ k = z.index.lookup
  <2>1. ASSUME k \in ks PROVE \E z \in E : ~z.isFeatParam /\ Scope(z) = scope /\ k = z.index.lookup
    <3>1. PICK n \in fs : k \in {tbl.feature[n].lookups[i] : i \in DOMAIN tbl.feature[n].lookups}
      BY <2>1
    <3>2. n \in ns /\ tbl.feature[n].tag = scope[3]
      OBVIOUS
    <3>3. PICK r \in tbl.langSys : r.script = scope[1] /\ r.language = scope[2] /\ n \in r.features
      BY <3>2
    <3>4. PICK y \in E : EntryOf(tbl.feature[n], y, E) /\ Scope(y) = <<r.script, r.language, tbl.feature[n].tag>>
      BY <1>5, <3>3
    <3>5. Scope(y) = scope
      BY <1>3, <3>2, <3>3, <3>4
    <3>6. k \in {z.index.lookup : z \in {x \in E : ~x.isFeatParam /\ Scope(x) = Scope(y)}}
      BY <3>1, <3>4 DEF EntryOf
    <3> QED
      BY <3>5, <3>6
  <2>2. ASSUME NEW z \in E, ~z.isFeatParam, Scope(z) = scope, k = z.index.lookup PROVE k \in ks
    <3>1. IsRegular(z) /\ z.script = scope[1] /\ z.language = scope[2] /\ z.feature = scope[3]
      BY <1>3, <2>2 DEF IsRegular, Scope
    <3>2. PICK r \in tbl.langSys : /\ r.script = z.script /\ r.language = z.language
                                   /\ z.index.feature \in r.features
                                   /\ EntryOf(tbl.feature[z.index.feature], z, E)
                                   /\ tbl.feature[z.index.feature].tag = z.feature
      BY <1>5, <3>1
    <3> DEFINE n == z.index.feature
    <3>3. n \in ns
      BY <3>1, <3>2
    <3>4. n \in fs
      BY <3>1, <3>2, <3>3
    <3>5. k \in {tbl.feature[n].lookups[i] : i \in DOMAIN tbl.feature[n].lookups}
      BY <2>2, <3>2 DEF EntryOf
    <3> QED
      BY <3>4, <3>5
  <2> QED
    BY <2>1, <2>2
<1>7. \A z \in E : ~z.isFeatParam => z.index.lookup \in DOMAIN tbl.lookup
  <2> SUFFICES ASSUME NEW z \in E, ~z.isFeatParam PROVE z.index.lookup \in DOMAIN tbl.lookup
    OBVIOUS
  <2>1. CASE IsLookup(z)
    BY <1>4, <2>1 DEF LookupListIs
  <2>2. CASE ~IsLookup(z)
    <3>1. IsRefLab(z.label)
      BY <2>2 DEF IsLookup
    <3>2. PICK d \in E : d.label = BaseLab(z.label)
      BY <1>4, <3>1 DEF LookupFacts
    <3>3. z.label \in Label /\ BaseLab(z.label) <= FEAT_ANON_LKP_END
      BY <1>4, ElementTypes DEF SubType, Client
    <3>4. ~IsRefLab(d.label) /\ BaseLab(d.label) = BaseLab(z.label)
      BY <3>2, <3>3, LabelNumbers
    <3>5. d.isFeatParam <=> z.isFeatParam
      BY <1>4, <3>4, Zenon DEF Client
    <3>6. IsLookup(d) /\ d.index.lookup = z.index.lookup
      <4>1. ~d.isFeatParam
        BY <3>5
      <4>2. d.index.lookup = z.index.lookup
        BY <1>4, <3>4, <4>1 DEF LookupFacts
      <4> QED
        BY <3>4, <4>1, <4>2 DEF IsLookup
    <3> QED
      BY <1>4, <3>6 DEF LookupListIs
  <2> QED
    BY <2>1, <2>2
<1>8. ASSUME NEW lab
      PROVE  lab \in labels <=> \E z \in E : ~z.isFeatParam /\ Scope(z) = scope /\ lab = BaseLab(z.label)
  BY <1>4
<1> HIDE DEF ks, labels
<1>9. ASSUME NEW o PROVE o \in UNION {tbl.lookup[k] : k \in ks} <=>
                         o \in {d.offset : d \in {x \in Definitions : x.label \in labels}}
  <2> HIDE DEF E
  <2>0. /\ \A z \in E : ~z.isFeatParam =>
              (o \in tbl.lookup[z.index.lookup]
               <=> \E d \in E : IsDefinition(d) /\ d.label = BaseLab(z.label) /\ o = d.offset)
    BY <1>4, <1>7, LookupOf DEF E
  <2>1. ASSUME o \in UNION {tbl.lookup[k] : k \in ks}
        PROVE  o \in {d.offset : d \in {x \in Definitions : x.label \in labels}}
    <3>1. PICK k \in ks : o \in tbl.lookup[k]
      BY <2>1
    <3>2. PICK z \in E : ~z.isFeatParam /\ Scope(z) = scope /\ k = z.index.lookup
      BY <1>6
    <3>3. PICK d \in E : IsDefinition(d) /\ d.label = BaseLab(z.label) /\ o = d.offset
      BY <2>0, <3>1, <3>2
    <3>4. d.label \in labels /\ d \in Definitions
      BY <1>4, <1>8, <3>2, <3>3
    <3> QED
      BY <3>3, <3>4
  <2>2. ASSUME o \in {d.offset : d \in {x \in Definitions : x.label \in labels}}
        PROVE  o \in UNION {tbl.lookup[k] : k \in ks}
    <3>1. PICK d \in Definitions : d.label \in labels /\ o = d.offset
      BY <2>2
    <3>2. PICK z \in E : ~z.isFeatParam /\ Scope(z) = scope /\ d.label = BaseLab(z.label)
      BY <1>8, <3>1
    <3>3. d \in E /\ IsDefinition(d)
      BY <1>4
    <3>4. o \in tbl.lookup[z.index.lookup]
      BY <2>0, <3>1, <3>2, <3>3
    <3>5. z.index.lookup \in ks
      BY <1>6, <3>2
    <3> QED
      BY <3>4, <3>5
  <2> QED
    BY <2>1, <2>2
<1> QED
  BY <1>1, <1>2, <1>9 DEF ks, labels

\* Four sorts, in whichever orders they leave equal elements, and three passes over spans of
\* indexes do not part a language system from its features or a feature from its lookups
\* (otlTableFill), provided no more subtables are anonymous than stand-alone when some are.
THEOREM AppliesRegisteredCorrect == "manyAnonymous" \notin Forms => (Spec => []AppliesRegistered)
<1> SUFFICES ASSUME "manyAnonymous" \notin Forms PROVE Spec => []AppliesRegistered
  OBVIOUS
<1>1. ASSUME TableInv PROVE AppliesRegistered
  <2> SUFFICES ASSUME Filled
               PROVE  /\ \A r \in tbl.langSys : r.features \subseteq DOMAIN tbl.feature
                      /\ UNION {{<<r.script, r.language, tbl.feature[n].tag>> : n \in r.features} :
                                r \in tbl.langSys}
                         = {Scope(d) : d \in {x \in Definitions \cup References : Scope(x) \in Regular}}
                      /\ \A scope \in Regular :
                            Found(scope[1], scope[2], scope[3]) = RegisteredUnder(scope)
    BY DEF AppliesRegistered
  <2> DEFINE E == Elements(subtable)
             U == UNION {{<<r.script, r.language, tbl.feature[n].tag>> : n \in r.features} :
                         r \in tbl.langSys}
  <2>1. /\ FeatureFacts(E) /\ LangSysIs(tbl.langSys, E) /\ FeatureListIs(tbl.feature, E)
        /\ Definitions \cup References = E
    BY <1>1, FilledTable
  <2>2. /\ \A r \in tbl.langSys : \A n \in r.features :
              /\ n \in DOMAIN tbl.feature
              /\ \E y \in E : /\ IsRegular(y)
                              /\ Scope(y) = <<r.script, r.language, tbl.feature[n].tag>>
        /\ \A y \in E : IsRegular(y) =>
              \E r \in tbl.langSys : /\ r.script = y.script /\ r.language = y.language
                                     /\ y.index.feature \in r.features
                                     /\ tbl.feature[y.index.feature].tag = y.feature
    BY <2>1, LangSysLeads
  <2> HIDE DEF E
  <2>3. ASSUME NEW q \in U PROVE \E y \in E : IsRegular(y) /\ q = Scope(y)
    <3>1. PICK r \in tbl.langSys : \E n \in r.features : q = <<r.script, r.language, tbl.feature[n].tag>>
      OBVIOUS
    <3> QED
      BY <2>2, <3>1
  <2>4. ASSUME NEW y \in E, IsRegular(y) PROVE Scope(y) \in U
    <3>1. PICK r \in tbl.langSys : /\ r.script = y.script /\ r.language = y.language
                                   /\ y.index.feature \in r.features
                                   /\ tbl.feature[y.index.feature].tag = y.feature
      BY <2>2, <2>4
    <3>2. Scope(y) = <<r.script, r.language, tbl.feature[y.index.feature].tag>>
      BY <3>1 DEF Scope
    <3> QED
      BY <3>1, <3>2
  <2> HIDE DEF U
  <2>5. U = {Scope(d) : d \in {x \in Definitions \cup References : Scope(x) \in Regular}}
    BY <2>1, <2>3, <2>4 DEF IsRegular
  <2>6. \A scope \in Regular : Found(scope[1], scope[2], scope[3]) = RegisteredUnder(scope)
    BY <1>1, FindsRegistered
  <2>7. \A r \in tbl.langSys : r.features \subseteq DOMAIN tbl.feature
    BY <2>2
  <2> QED
    BY <2>5, <2>6, <2>7 DEF U
<1>2. TableInv => AppliesRegistered
  BY <1>1
<1> QED
  BY <1>2, TableInvariant, PTL

\* Lookups are indexed in the order of the feature file, those of aalt first, and the lookups of
\* a feature ascend, so a text shaper applies them in this order (calcLookupListIndexes,
\* cmpFeatureList, fillFeatureList).
THEOREM InFileOrderCorrect == "manyAnonymous" \notin Forms => (Spec => []InFileOrder)
<1> SUFFICES ASSUME "manyAnonymous" \notin Forms PROVE Spec => []InFileOrder
  OBVIOUS
<1>1. ASSUME TableInv PROVE InFileOrder
  <2> SUFFICES ASSUME Filled
               PROVE  /\ \A j, k \in DOMAIN tbl.lookup : j < k =>
                            \A a, b \in Definitions :
                               a.offset \in tbl.lookup[j] /\ b.offset \in tbl.lookup[k] =>
                                  EarlierLookup(a, b)
                      /\ \A n \in DOMAIN tbl.feature :
                            \A i, j \in DOMAIN tbl.feature[n].lookups :
                               i < j => tbl.feature[n].lookups[i] < tbl.feature[n].lookups[j]
    BY DEF InFileOrder, EarlierLookup
  <2> DEFINE E == Elements(subtable)
  <2>1. /\ ListType(subtable) /\ Client(E) /\ LookupFacts(E) /\ LookupListIs(tbl.lookup, E)
        /\ FeatureListIs(tbl.feature, E) /\ Definitions = {x \in E : IsDefinition(x)}
    BY <1>1, FilledTable
  <2>2. ASSUME NEW j \in DOMAIN tbl.lookup, NEW k \in DOMAIN tbl.lookup, j < k,
               NEW a \in Definitions, NEW b \in Definitions,
               a.offset \in tbl.lookup[j], b.offset \in tbl.lookup[k]
        PROVE  EarlierLookup(a, b)
    <3>1. PICK d \in E : IsLookup(d)
      BY <2>1, <2>2 DEF LookupListIs
    <3>2. a \in E /\ b \in E
      BY <2>1
    <3>3. IsLookup(a) /\ j = a.index.lookup /\ IsLookup(b) /\ k = b.index.lookup
      <4>1. \A x \in E, i \in DOMAIN tbl.lookup :
               x.offset \in tbl.lookup[i] => IsLookup(x) /\ i = x.index.lookup
        BY <2>1, <3>1, LookupAtIndex
      <4> QED
        BY <2>2, <3>2, <4>1
    <3> QED
      BY <2>1, <2>2, <3>2, <3>3 DEF LookupFacts
  <2>3. ASSUME NEW n \in DOMAIN tbl.feature, NEW i \in DOMAIN tbl.feature[n].lookups,
               NEW j \in DOMAIN tbl.feature[n].lookups, i < j
        PROVE  tbl.feature[n].lookups[i] < tbl.feature[n].lookups[j]
    <3>1. PICK x \in E : IsRegular(x) /\ n = x.index.feature
      BY <2>1 DEF FeatureListIs
    <3>2. EntryOf(tbl.feature[n], x, E)
      BY <2>1, <3>1 DEF FeatureListIs
    <3> QED
      BY <2>3, <3>2 DEF EntryOf
  <2> QED
    BY <2>2, <2>3
<1>2. TableInv => InFileOrder
  BY <1>1
<1> QED
  BY <1>2, TableInvariant, PTL

\* The parameters of a feature are found from every language system that records or refers to
\* them, and from no other feature (fillFeatureList, findFeatParamOffset).
THEOREM ParamsFoundCorrect == "manyAnonymous" \notin Forms => (Spec => []ParamsFound)
<1> SUFFICES ASSUME "manyAnonymous" \notin Forms PROVE Spec => []ParamsFound
  OBVIOUS
<1>1. ASSUME TableInv PROVE ParamsFound
  <2> SUFFICES ASSUME Filled, NEW r \in tbl.langSys, NEW n \in r.features,
                      NEW labels,
                      labels = {BaseLab(sub.label) : sub \in {x \in Definitions \cup References :
                                   x.isFeatParam /\ Scope(x) = <<r.script, r.language, tbl.feature[n].tag>>}}
               PROVE  IF labels = {} THEN tbl.feature[n].param = None
                      ELSE \E d \in Definitions : d.label \in labels /\ d.offset = tbl.feature[n].param
    BY DEF ParamsFound
  <2> DEFINE E == Elements(subtable)
             f == tbl.feature[n]
  <2>1. /\ FeatureFacts(E) /\ LangSysIs(tbl.langSys, E) /\ FeatureListIs(tbl.feature, E)
        /\ Definitions = {x \in E : IsDefinition(x)} /\ Definitions \cup References = E
    BY <1>1, FilledTable
  <2>2. PICK x \in E : EntryOf(f, x, E) /\ Scope(x) = <<r.script, r.language, f.tag>>
    BY <2>1, LangSysLeads
  <2>3. /\ \A lab : lab \in labels <=> \E y \in E : y.isFeatParam /\ Scope(y) = Scope(x) /\ lab = BaseLab(y.label)
    BY <2>1, <2>2
  <2>4. IF \E y \in E : y.isFeatParam /\ Scope(y) = Scope(x)
        THEN \E y, d \in E : /\ y.isFeatParam /\ Scope(y) = Scope(x)
                             /\ IsDefinition(d) /\ d.label = BaseLab(y.label) /\ d.offset = f.param
        ELSE f.param = None
    BY <2>2 DEF EntryOf
  <2> HIDE DEF E, f
  <2>5. CASE labels = {}
    <3>1. ~ \E y \in E : y.isFeatParam /\ Scope(y) = Scope(x)
      BY <2>3, <2>5
    <3> QED
      BY <2>4, <2>5, <3>1 DEF f
  <2>6. CASE labels # {}
    <3>1. \E y \in E : y.isFeatParam /\ Scope(y) = Scope(x)
      BY <2>3, <2>6
    <3>2. PICK y \in E, d \in E : /\ y.isFeatParam /\ Scope(y) = Scope(x)
                                  /\ IsDefinition(d) /\ d.label = BaseLab(y.label) /\ d.offset = f.param
      BY <2>4, <3>1
    <3>3. d.label \in labels /\ d \in Definitions
      BY <2>1, <2>3, <3>2
    <3> QED
      BY <2>6, <3>2, <3>3 DEF f
  <2> QED
    BY <2>5, <2>6
<1>2. TableInv => ParamsFound
  BY <1>1
<1> QED
  BY <1>2, TableInvariant, PTL

=============================================================================
