---------------------------- MODULE DonationProofs ----------------------------
(***************************************************************************)
(* Proofs about Donation, prj1's locks, for every number of threads, locks *)
(* and priorities: types, the exclusion of the locks, no waiter forgotten, *)
(* donations that follow no null pointer and are paid back, and the        *)
(* highest priority running.                                               *)
(***************************************************************************)
EXTENDS Donation, Integers, SequenceTheorems, FiniteSetTheorems, NaturalsInduction,
        WellFoundedInduction, TLAPS

\* A nonempty set of numbers has a least element.
LEMMA Smallest ==
  ASSUME NEW T \in SUBSET Nat, T # {}
  PROVE  \E m \in T : \A k \in T : m <= k
<1> DEFINE R == OpToRel(<, Nat)
<1>1. IsWellFoundedOn(R, Nat)
  BY NatLessThanWellFounded
<1>2. \A x, y \in Nat : <<x, y>> \in R <=> x < y
  BY DEF OpToRel
<1> HIDE DEF R
<1>3. PICK m \in T : \A k \in T : ~ (<<k, m>> \in R)
  BY <1>1, WFMin
<1>4. ASSUME NEW k \in T PROVE m <= k
  <2>1. m \in Nat /\ k \in Nat
    OBVIOUS
  <2>2. ~ (k < m)
    BY <1>2, <1>3, <2>1
  <2> QED
    BY <2>1, <2>2
<1> QED
  BY <1>4

-----------------------------------------------------------------------------
(* Lists. *)

\* Inserting an element: the length and the elements.
LEMMA InsertAtProperties ==
  ASSUME NEW S, NEW s \in Seq(S), NEW at \in 1 .. Len(s) + 1, NEW x \in S
  PROVE  /\ InsertAt(s, at, x) \in Seq(S)
         /\ DOMAIN InsertAt(s, at, x) = 1 .. Len(s) + 1
         /\ \A k \in 1 .. Len(s) + 1 :
              InsertAt(s, at, x)[k] = IF k < at THEN s[k] ELSE IF k = at THEN x ELSE s[k - 1]
<1>1. at \in Nat /\ Len(s) \in Nat /\ 1 <= at /\ at <= Len(s) + 1
  OBVIOUS
<1> DEFINE a == SubSeq(s, 1, at - 1)
           z == SubSeq(s, at, Len(s))
<1>2. /\ a \in Seq(S) /\ Len(a) = at - 1
      /\ \A j \in 1 .. at - 1 : a[j] = s[j]
  BY <1>1, SubSeqProperties
<1>3. /\ z \in Seq(S) /\ Len(z) = Len(s) - at + 1
      /\ \A j \in 1 .. Len(s) - at + 1 : z[j] = s[j + at - 1]
  <2>1. \A j \in at .. Len(s) : s[j] \in S
    BY <1>1
  <2>2. /\ z \in Seq(S)
        /\ Len(z) = IF at <= Len(s) THEN Len(s) - at + 1 ELSE 0
        /\ \A j \in 1 .. Len(s) - at + 1 : z[j] = s[at + j - 1]
    BY <1>1, <2>1, SubSeqProperties
  <2> QED
    BY <1>1, <2>2
<1> HIDE DEF a, z
<1> DEFINE b == a \o <<x>>
<1>4. /\ b \in Seq(S) /\ Len(b) = at
      /\ \A j \in 1 .. at : b[j] = IF j < at THEN s[j] ELSE x
  <2>1. <<x>> \in Seq(S) /\ Len(<<x>>) = 1 /\ <<x>>[1] = x
    OBVIOUS
  <2>2. /\ b \in Seq(S) /\ Len(b) = Len(a) + 1
        /\ \A j \in 1 .. Len(a) + 1 : b[j] = IF j <= Len(a) THEN a[j] ELSE <<x>>[j - Len(a)]
    BY <1>2, <2>1, ConcatProperties
  <2> HIDE DEF b
  <2> QED
    BY <1>1, <1>2, <2>1, <2>2
<1> HIDE DEF b
<1>5. /\ b \o z \in Seq(S) /\ Len(b \o z) = Len(s) + 1
      /\ \A j \in 1 .. Len(s) + 1 : (b \o z)[j] = IF j <= at THEN b[j] ELSE z[j - at]
  <2>1. /\ b \o z \in Seq(S) /\ Len(b \o z) = Len(b) + Len(z)
        /\ \A j \in 1 .. Len(b) + Len(z) : (b \o z)[j] = IF j <= Len(b) THEN b[j] ELSE z[j - Len(b)]
    BY ONLY <1>3, <1>4, ConcatProperties
  <2>2. Len(b) + Len(z) = Len(s) + 1
    BY <1>1, <1>3, <1>4
  <2> QED
    BY <1>4, <2>1, <2>2
<1>6. \A k \in 1 .. Len(s) + 1 :
        (b \o z)[k] = IF k < at THEN s[k] ELSE IF k = at THEN x ELSE s[k - 1]
  <2>1. TAKE k \in 1 .. Len(s) + 1
  <2>2. CASE k <= at
    BY <2>2, <1>1, <1>4, <1>5
  <2>3. CASE ~ (k <= at)
    <3>1. k - at \in 1 .. Len(s) - at + 1 /\ (k - at) + at - 1 = k - 1
      BY <2>3, <1>1
    <3> QED
      BY <2>3, <3>1, <1>1, <1>3, <1>5
  <2> QED
    BY <2>2, <2>3
<1>7. InsertAt(s, at, x) = b \o z
  BY DEF InsertAt, a, b, z
<1>8. DOMAIN (b \o z) = 1 .. Len(s) + 1
  BY ONLY <1>5
<1> QED
  BY <1>5, <1>6, <1>7, <1>8

\* A list is in the order of priorities.
Ordered(list, pri) ==
  \A i, j \in DOMAIN list : i < j => pri[list[i]] >= pri[list[j]]

\* A list of threads, each once, in the order of priorities.
Queue(list, pri) == list \in Seq(Threads) /\ IsInjective(list) /\ Ordered(list, pri)

\* list_insert_ordered adds a thread to a list, and an ordered one stays so.
LEMMA InsertMembers ==
  ASSUME NEW list \in Seq(Threads), NEW pri \in [Threads -> Nat], NEW t \in Threads,
         IsInjective(list), t \notin ToSet(list)
  PROVE  /\ Insert(list, t, pri) \in Seq(Threads) /\ IsInjective(Insert(list, t, pri))
         /\ Ordered(list, pri) => Ordered(Insert(list, t, pri), pri)
         /\ ToSet(Insert(list, t, pri)) = ToSet(list) \cup {t}
         /\ Insert(list, t, pri) # <<>>
<1> DEFINE lower == {i \in DOMAIN list : pri[t] > pri[list[i]]}
           at == IF lower = {} THEN Len(list) + 1
                 ELSE CHOOSE i \in lower : \A j \in lower : i <= j
           n == Len(list)
           new == InsertAt(list, at, t)
<1>1. /\ list \in Seq(Threads) /\ n \in Nat /\ DOMAIN list = 1 .. n
      /\ \A i \in 1 .. n : list[i] \in Threads /\ pri[list[i]] \in Nat
      /\ pri[t] \in Nat
  OBVIOUS
<1>2. /\ at \in 1 .. n + 1
      /\ \A i \in 1 .. n : i < at => pri[list[i]] >= pri[t]
      /\ Ordered(list, pri) => \A i \in 1 .. n : i >= at => pri[list[i]] < pri[t]
  <2>1. CASE lower = {}
    <3>1. at = n + 1
      BY <2>1
    <3>2. ASSUME NEW i \in 1 .. n PROVE i < n + 1 /\ pri[list[i]] >= pri[t]
      <4>1. i \notin lower /\ i \in DOMAIN list
        BY <1>1, <2>1
      <4>2. ~ (pri[t] > pri[list[i]])
        BY <4>1
      <4>3. pri[list[i]] \in Nat /\ pri[t] \in Nat
        BY <1>1
      <4>4. pri[list[i]] >= pri[t]
        BY ONLY <4>2, <4>3
      <4> QED
        BY <1>1, <4>4
    <3> HIDE DEF at
    <3> QED
      BY <1>1, <3>1, <3>2
  <2>2. CASE lower # {}
    <3>1. lower \in SUBSET Nat
      BY <1>1
    <3>2. PICK m \in lower : \A j \in lower : m <= j
      BY <2>2, <3>1, Smallest
    <3>3. at \in lower /\ \A j \in lower : at <= j
      BY <2>2, <3>2
    <3> HIDE DEF at
    <3>4. at \in 1 .. n
      BY <1>1, <3>3
    <3>5. \A i \in 1 .. n : i < at => pri[list[i]] >= pri[t]
      BY <1>1, <3>3, <3>4
    <3>6. ASSUME Ordered(list, pri), NEW i \in 1 .. n PROVE i >= at => pri[list[i]] < pri[t]
      <4>2. pri[list[at]] < pri[t]
        BY <1>1, <3>3
      <4>3. i > at => pri[list[at]] >= pri[list[i]]
        BY <1>1, <3>4, <3>6 DEF Ordered
      <4> QED
        BY <1>1, <3>4, <4>2, <4>3
    <3> QED
      BY <1>1, <3>4, <3>5, <3>6
  <2> QED
    BY <2>1, <2>2
<1> HIDE DEF at, lower
<1>3. /\ new \in Seq(Threads) /\ DOMAIN new = 1 .. n + 1
      /\ \A k \in 1 .. n + 1 :
           new[k] = IF k < at THEN list[k] ELSE IF k = at THEN t ELSE list[k - 1]
  <2>1. list \in Seq(Threads) /\ at \in 1 .. Len(list) + 1 /\ t \in Threads
    BY <1>1, <1>2
  <2> QED
    BY <2>1, InsertAtProperties
<1> HIDE DEF new
<1>4. \A k \in 1 .. n + 1 : k # at => (IF k < at THEN k ELSE k - 1) \in 1 .. n
  BY <1>1, <1>2
<1>5. \A k \in 1 .. n : list[k] # t
  BY <1>1 DEF ToSet
<1>6. IsInjective(new)
  <2>1. ASSUME NEW j \in 1 .. n + 1, NEW k \in 1 .. n + 1, new[j] = new[k]
        PROVE  j = k
    <3>1. CASE j = at \/ k = at
      <4>1. \A i \in 1 .. n + 1 : i # at => new[i] # t
        BY <1>3, <1>4, <1>5
      <4>2. \A i \in 1 .. n + 1 : i = at => new[i] = t
        BY <1>1, <1>2, <1>3
      <4> QED
        BY <2>1, <3>1, <4>1, <4>2
    <3>2. CASE j # at /\ k # at
      <4> DEFINE f(i) == IF i < at THEN i ELSE i - 1
      <4>1. f(j) \in 1 .. n /\ f(k) \in 1 .. n /\ list[f(j)] = list[f(k)]
        BY <1>2, <1>3, <1>4, <2>1, <3>2
      <4>2. f(j) = f(k)
        BY <1>1, <4>1 DEF IsInjective
      <4> QED
        BY <1>1, <1>2, <3>2, <4>2
    <3> QED
      BY <3>1, <3>2
  <2> QED
    BY <1>3, <2>1 DEF IsInjective
<1>7. ASSUME Ordered(list, pri) PROVE Ordered(new, pri)
  <2>1. ASSUME NEW j \in 1 .. n + 1, NEW k \in 1 .. n + 1, j < k
        PROVE  pri[new[j]] >= pri[new[k]]
    <3>1. CASE j = at
      <4>1. k - 1 \in 1 .. n /\ k - 1 >= at /\ new[j] = t /\ new[k] = list[k - 1]
        BY <1>1, <1>2, <1>3, <2>1, <3>1
      <4> QED
        BY <1>1, <1>2, <1>7, <4>1
    <3>2. CASE k = at
      <4>1. j \in 1 .. n /\ new[k] = t /\ new[j] = list[j]
        BY <1>1, <1>2, <1>3, <2>1, <3>2
      <4> QED
        BY <1>1, <1>2, <2>1, <3>2, <4>1
    <3>3. CASE j # at /\ k # at
      <4> DEFINE f(i) == IF i < at THEN i ELSE i - 1
      <4>1. f(j) \in 1 .. n /\ f(k) \in 1 .. n /\ new[j] = list[f(j)] /\ new[k] = list[f(k)]
        BY <1>2, <1>3, <1>4, <3>3
      <4>2. f(j) < f(k)
        BY <1>1, <1>2, <2>1, <3>3
      <4> HIDE DEF f
      <4> QED
        BY <1>1, <1>7, <4>1, <4>2 DEF Ordered
    <3> QED
      BY <3>1, <3>2, <3>3
  <2> QED
    BY <1>3, <2>1 DEF Ordered
<1>8. ToSet(new) = ToSet(list) \cup {t}
  <2>1. ASSUME NEW k \in 1 .. n + 1 PROVE new[k] \in ToSet(list) \cup {t}
    <3>1. CASE k = at
      BY <1>1, <1>2, <1>3, <3>1
    <3>2. CASE k # at
      <4>1. (IF k < at THEN k ELSE k - 1) \in DOMAIN list
        BY <1>1, <1>4, <3>2
      <4>2. new[k] = list[IF k < at THEN k ELSE k - 1]
        BY <1>1, <1>2, <1>3, <3>2
      <4> QED
        BY <4>1, <4>2 DEF ToSet
    <3> QED
      BY <3>1, <3>2
  <2>2. \E k \in 1 .. n + 1 : new[k] = t
    BY <1>2, <1>3
  <2>3. ASSUME NEW i \in 1 .. n PROVE \E k \in 1 .. n + 1 : new[k] = list[i]
    <3>1. CASE i < at
      <4>1. i \in 1 .. n + 1 /\ new[i] = list[i]
        BY <1>1, <1>3, <3>1
      <4> QED BY <4>1
    <3>2. CASE i >= at
      <4>0. i + 1 \in 1 .. n + 1 /\ at \in 1 .. n + 1 /\ i \in Nat /\ n \in Nat
        BY <1>1, <1>2
      <4> HIDE DEF at, new, n
      <4>1. i + 1 \in 1 .. n + 1 /\ new[i + 1] = list[i]
        BY <1>3, <3>2, <4>0
      <4> QED BY <4>1
    <3> QED BY <1>1, <1>2, <3>1, <3>2
  <2>4. ToSet(new) = {new[k] : k \in 1 .. n + 1} /\ ToSet(list) = {list[k] : k \in 1 .. n}
    BY <1>1, <1>3 DEF ToSet
  <2> QED
    BY <2>1, <2>2, <2>3, <2>4
<1>9. new # <<>>
  BY <1>1, <1>3
<1>10. Insert(list, t, pri) = new
  BY DEF Insert, new, at, lower
<1> QED
  BY <1>3, <1>6, <1>7, <1>8, <1>9, <1>10

LEMMA InsertProperties ==
  ASSUME NEW list, NEW pri \in [Threads -> Nat], NEW t \in Threads,
         Queue(list, pri), t \notin ToSet(list)
  PROVE  /\ Queue(Insert(list, t, pri), pri)
         /\ ToSet(Insert(list, t, pri)) = ToSet(list) \cup {t}
         /\ Insert(list, t, pri) # <<>>
BY InsertMembers DEF Queue

\* The front of an ordered list, and the rest.
LEMMA HeadProperties ==
  ASSUME NEW list, NEW pri \in [Threads -> Nat], Queue(list, pri), list # <<>>
  PROVE  /\ Head(list) \in Threads /\ Queue(Tail(list), pri)
         /\ Head(list) \in ToSet(list)
         /\ ToSet(Tail(list)) = ToSet(list) \ {Head(list)}
         /\ \A x \in ToSet(list) : pri[x] <= pri[Head(list)]
<1> DEFINE n == Len(list)
           rest == Tail(list)
<1>1. /\ list \in Seq(Threads) /\ n \in Nat /\ n > 0 /\ DOMAIN list = 1 .. n
      /\ Head(list) = list[1] /\ 1 \in 1 .. n
      /\ \A i \in 1 .. n : list[i] \in Threads /\ pri[list[i]] \in Nat
  BY DEF Queue
<1>2. /\ rest \in Seq(Threads) /\ DOMAIN rest = 1 .. n - 1
      /\ \A i \in 1 .. n - 1 : rest[i] = list[i + 1] /\ i + 1 \in 1 .. n
  BY <1>1
<1> HIDE DEF rest
<1>3. IsInjective(rest) /\ Ordered(rest, pri)
  <2>1. ASSUME NEW i \in 1 .. n - 1, NEW j \in 1 .. n - 1, rest[i] = rest[j]
        PROVE  i = j
    <3>1. i + 1 = j + 1
      <4>1. /\ i + 1 \in DOMAIN list /\ j + 1 \in DOMAIN list
            /\ list[i + 1] = list[j + 1]
        BY <1>1, <1>2, <2>1
      <4> QED
        BY <4>1 DEF Queue, IsInjective
    <3> QED
      BY <1>1, <3>1
  <2>2. ASSUME NEW i \in 1 .. n - 1, NEW j \in 1 .. n - 1, i < j
        PROVE  pri[rest[i]] >= pri[rest[j]]
    <3>1. i + 1 < j + 1 /\ i + 1 \in 1 .. n /\ j + 1 \in 1 .. n
      BY <1>1, <2>2
    <3>2. pri[list[i + 1]] >= pri[list[j + 1]]
      BY <1>1, <3>1 DEF Queue, Ordered
    <3> QED
      BY <1>2, <3>2
  <2> QED
    BY <1>2, <2>1, <2>2 DEF IsInjective, Ordered
<1>4. ToSet(rest) = ToSet(list) \ {list[1]}
  <2>1. ToSet(rest) = {rest[k] : k \in 1 .. n - 1} /\ ToSet(list) = {list[k] : k \in 1 .. n}
    BY <1>1, <1>2 DEF ToSet
  <2>2. ASSUME NEW k \in 1 .. n - 1 PROVE rest[k] \in ToSet(list) \ {list[1]}
    <3>1. rest[k] = list[k + 1] /\ k + 1 \in 1 .. n /\ k + 1 # 1
      BY <1>1, <1>2
    <3> QED
      BY <1>1, <3>1, <2>1 DEF Queue, IsInjective
  <2>3. ASSUME NEW k \in 1 .. n, k # 1 PROVE list[k] \in ToSet(rest)
    <3>1. k - 1 \in 1 .. n - 1 /\ (k - 1) + 1 = k
      BY <1>1, <2>3
    <3> QED
      BY <1>2, <2>1, <3>1
  <2> QED
    BY <2>1, <2>2, <2>3
<1>5. ASSUME NEW x \in ToSet(list) PROVE pri[x] <= pri[list[1]]
  <2>1. PICK k \in 1 .. n : x = list[k]
    BY <1>1 DEF ToSet
  <2>2. k > 1 => pri[list[1]] >= pri[list[k]]
    BY <1>1 DEF Queue, Ordered
  <2> QED
    BY <1>1, <2>1, <2>2
<1> QED
  BY <1>1, <1>2, <1>3, <1>4, <1>5 DEF Queue, ToSet, rest

\* The elements of a finite set, numbered by how many come before each.
Arranged(D, R) ==
  [k \in 1 .. Cardinality(D) |->
     CHOOSE i \in D : Cardinality({j \in D : <<j, i>> \in R}) + 1 = k]

\* This numbers all of them, in any strict total order.
LEMMA Arrangement ==
  ASSUME NEW D, NEW R, IsFiniteSet(D),
         \A x \in D : <<x, x>> \notin R,
         \A x, y, z \in D : <<x, y>> \in R /\ <<y, z>> \in R => <<x, z>> \in R,
         \A x, y \in D : x = y \/ <<x, y>> \in R \/ <<y, x>> \in R
  PROVE  /\ Arranged(D, R) \in [1 .. Cardinality(D) -> D]
         /\ \A i \in D : \E k \in 1 .. Cardinality(D) : Arranged(D, R)[k] = i
         /\ \A j, k \in 1 .. Cardinality(D) :
              j < k => <<Arranged(D, R)[j], Arranged(D, R)[k]>> \in R
<1> DEFINE f == Arranged(D, R)
           n == Cardinality(D)
           P(i) == {j \in D : <<j, i>> \in R}
           rank(i) == Cardinality(P(i)) + 1
           r == [i \in D |-> rank(i)]
<1>1. n \in Nat
  BY FS_CardinalityType
<1>2. ASSUME NEW i \in D
      PROVE  IsFiniteSet(P(i)) /\ Cardinality(P(i)) \in Nat /\ rank(i) \in 1 .. n
  <2>1. IsFiniteSet(P(i)) /\ Cardinality(P(i)) \in Nat /\ Cardinality(P(i)) <= n
    BY FS_Subset, FS_CardinalityType
  <2>2. P(i) # D
    BY <1>2
  <2>3. Cardinality(P(i)) # n
    BY <2>2, FS_Subset
  <2> HIDE DEF P, n
  <2> QED
    BY <1>1, <2>1, <2>3
<1>3. ASSUME NEW i \in D, NEW j \in D, <<i, j>> \in R
      PROVE  rank(i) < rank(j)
  <2>1. P(i) \subseteq P(j) /\ i \in P(j) /\ i \notin P(i)
    BY <1>3
  <2>2. Cardinality(P(i)) <= Cardinality(P(j)) /\ Cardinality(P(i)) # Cardinality(P(j))
    BY <1>2, <2>1, FS_Subset
  <2> HIDE DEF P
  <2> QED
    BY <1>2, <2>2
<1>n. \A i \in D : rank(i) \in 1 .. n
  BY <1>2
<1>p. DOMAIN f = 1 .. n /\ f = [k \in 1 .. n |-> f[k]]
      /\ \A k \in 1 .. n : f[k] = CHOOSE i \in D : rank(i) = k
  <2>1. f = [k \in 1 .. n |-> CHOOSE i \in D : rank(i) = k]
    BY DEF Arranged
  <2> HIDE DEF f, n, rank
  <2> QED
    BY <2>1
<1> HIDE DEF P, rank, f
<1>4. \A i, j \in D : rank(i) = rank(j) => i = j
  <2>1. ASSUME NEW i \in D, NEW j \in D, i # j PROVE rank(i) # rank(j)
    <3>1. rank(i) \in Nat /\ rank(j) \in Nat
      BY <1>1, <1>n
    <3>2. rank(i) < rank(j) \/ rank(j) < rank(i)
      BY <1>3, <2>1
    <3> QED
      BY <3>1, <3>2
  <2> QED
    BY <2>1
<1>5. ASSUME NEW k \in 1 .. n PROVE \E i \in D : rank(i) = k
  <2>1. r \in [D -> 1 .. n]
    BY <1>n
  <2>2. r \in Injection(D, 1 .. n)
    BY <1>4, <2>1 DEF Injection, IsInjective
  <2>3. IsFiniteSet(1 .. n) /\ Cardinality(1 .. n) = n
    BY <1>1, FS_Interval
  <2>4. r \in Surjection(D, 1 .. n)
    BY ONLY <2>2, <2>3, FS_Injection DEF n
  <2> QED
    BY <2>4 DEF Surjection
<1>6. \A k \in 1 .. n : f[k] \in D /\ rank(f[k]) = k
  <2> TAKE k \in 1 .. n
  <2>1. \E i \in D : rank(i) = k
    BY <1>5
  <2>2. f[k] = CHOOSE i \in D : rank(i) = k
    BY <1>p
  <2> HIDE DEF n
  <2> QED
    BY <2>1, <2>2
<1>7. f \in [1 .. n -> D]
  BY <1>6, <1>p
<1>8. ASSUME NEW i \in D PROVE \E k \in 1 .. n : f[k] = i
  <2>1. rank(i) \in 1 .. n /\ rank(f[rank(i)]) = rank(i) /\ f[rank(i)] \in D
    BY <1>n, <1>6
  <2> QED
    BY <1>4, <2>1
<1>9. ASSUME NEW j \in 1 .. n, NEW k \in 1 .. n, j < k PROVE <<f[j], f[k]>> \in R
  <2> HIDE DEF n
  <2>1. f[j] \in D /\ f[k] \in D /\ rank(f[j]) = j /\ rank(f[k]) = k /\ j \in Nat /\ k \in Nat
    <3>1. f[j] \in D /\ rank(f[j]) = j
      BY <1>6
    <3>2. f[k] \in D /\ rank(f[k]) = k
      BY <1>6
    <3>3. j \in Nat /\ k \in Nat
      BY <1>1
    <3> QED
      BY ONLY <3>1, <3>2, <3>3
  <2>2. f[j] # f[k]
    BY <1>9, <2>1
  <2>3. ~ (<<f[k], f[j]>> \in R)
    <3>1. SUFFICES ASSUME <<f[k], f[j]>> \in R PROVE FALSE
      OBVIOUS
    <3>2. rank(f[k]) < rank(f[j])
      BY ONLY <1>3, <2>1, <3>1
    <3> QED
      BY ONLY <1>9, <2>1, <3>2
  <2> QED
    BY <2>1, <2>2, <2>3
<1> QED
  BY <1>7, <1>8, <1>9 DEF f

\* list_sort permutes a list into the order of priorities.
LEMMA SortedProperties ==
  ASSUME NEW list \in Seq(Threads), NEW pri \in [Threads -> Nat], IsInjective(list)
  PROVE  Queue(Sorted(list, pri), pri) /\ ToSet(Sorted(list, pri)) = ToSet(list)
<1> DEFINE n == Len(list)
           D == 1 .. n
           R == {p \in D \X D : \/ pri[list[p[1]]] > pri[list[p[2]]]
                                \/ (pri[list[p[1]]] = pri[list[p[2]]] /\ p[1] < p[2])}
           f == Arranged(D, R)
<1>1. n \in Nat /\ DOMAIN list = D /\ \A i \in D : list[i] \in Threads /\ pri[list[i]] \in Nat
  OBVIOUS
<1>2. IsFiniteSet(D) /\ Cardinality(D) = n
  BY <1>1, FS_Interval
<1>3. \A i, j \in D : <<i, j>> \in R <=> \/ pri[list[i]] > pri[list[j]]
                                         \/ (pri[list[i]] = pri[list[j]] /\ i < j)
  OBVIOUS
<1> HIDE DEF R
<1>4. \A x \in D : <<x, x>> \notin R
  BY <1>1, <1>3
<1>5. ASSUME NEW x \in D, NEW y \in D, NEW z \in D, <<x, y>> \in R, <<y, z>> \in R
      PROVE  <<x, z>> \in R
  <2> DEFINE p(i) == pri[list[i]]
  <2>1. p(x) \in Nat /\ p(y) \in Nat /\ p(z) \in Nat /\ x \in Nat /\ y \in Nat /\ z \in Nat
    BY <1>1
  <2>2. /\ p(x) > p(y) \/ (p(x) = p(y) /\ x < y)
        /\ p(y) > p(z) \/ (p(y) = p(z) /\ y < z)
    BY <1>3, <1>5
  <2> HIDE DEF p
  <2>3. p(x) > p(z) \/ (p(x) = p(z) /\ x < z)
    BY <2>1, <2>2
  <2> QED
    BY <1>3, <2>3 DEF p
<1>6. ASSUME NEW x \in D, NEW y \in D PROVE x = y \/ <<x, y>> \in R \/ <<y, x>> \in R
  BY <1>1, <1>3
<1> HIDE DEF f, D
<1>8. /\ f \in [1 .. Cardinality(D) -> D]
      /\ \A i \in D : \E k \in 1 .. Cardinality(D) : f[k] = i
      /\ \A j, k \in 1 .. Cardinality(D) : j < k => <<f[j], f[k]>> \in R
  BY ONLY <1>2, <1>4, <1>5, <1>6, Arrangement DEF f
<1>9. /\ f \in [D -> D]
      /\ \A i \in D : \E k \in D : f[k] = i
      /\ \A j, k \in D : j < k => <<f[j], f[k]>> \in R
  BY <1>2, <1>8 DEF D
<1> DEFINE new == [k \in D |-> list[f[k]]]
<1>10. Sorted(list, pri) = new
  <2>1. \A i \in D : Before(list, pri, i) = {j \in D : <<j, i>> \in R}
    BY <1>1, <1>3 DEF Before
  <2>2. \A k \in D : f[k] = CHOOSE i \in D : Cardinality(Before(list, pri, i)) + 1 = k
    BY <1>2, <2>1 DEF f, Arranged, D
  <2>3. Sorted(list, pri) =
          [k \in D |-> list[CHOOSE i \in D : Cardinality(Before(list, pri, i)) + 1 = k]]
    BY <1>1 DEF Sorted
  <2> HIDE DEF D
  <2> QED
    BY ONLY <2>2, <2>3
<1>11. new \in Seq(Threads) /\ DOMAIN new = D
  <2>1. new \in [D -> Threads]
    BY <1>1, <1>9
  <2> HIDE DEF new
  <2> QED
    BY <1>1, <2>1 DEF D
<1>12. IsInjective(new)
  <2>1. ASSUME NEW j \in D, NEW k \in D, new[j] = new[k] PROVE j = k
    <3>1. f[j] = f[k] /\ f[j] \in D
      BY <1>1, <1>9, <2>1 DEF IsInjective
    <3>2. ~ (j < k) /\ ~ (k < j)
      BY <1>4, <1>9, <3>1
    <3> QED
      BY <3>2 DEF D
  <2> QED
    BY <1>11, <2>1 DEF IsInjective
<1>13. Ordered(new, pri)
  <2>1. ASSUME NEW j \in D, NEW k \in D, j < k PROVE pri[list[f[j]]] >= pri[list[f[k]]]
    <3>1. f[j] \in D /\ f[k] \in D /\ <<f[j], f[k]>> \in R
      BY <1>9, <2>1
    <3>2. pri[list[f[j]]] \in Nat /\ pri[list[f[k]]] \in Nat
      BY <1>1, <3>1
    <3>3. \/ pri[list[f[j]]] > pri[list[f[k]]]
          \/ (pri[list[f[j]]] = pri[list[f[k]]] /\ f[j] < f[k])
      BY <1>3, <3>1
    <3> QED
      BY <3>2, <3>3
  <2> QED
    BY <1>11, <2>1 DEF Ordered
<1>14. ToSet(new) = ToSet(list)
  <2>1. ToSet(new) = {list[f[k]] : k \in D} /\ ToSet(list) = {list[k] : k \in D}
    BY <1>1, <1>11 DEF ToSet
  <2> HIDE DEF new
  <2> QED
    BY <1>9, <2>1
<1> QED
  BY <1>10, <1>11, <1>12, <1>13, <1>14 DEF Queue

\* Taking some elements out of a list.
LEMMA OthersProperties ==
  ASSUME NEW list \in Seq(Threads), NEW gone
  PROVE  Others(list, gone) \in Seq(Threads) /\ ToSet(Others(list, gone)) = ToSet(list) \ gone
<1> DEFINE left == {i \in DOMAIN list : list[i] \notin gone}
           n == Cardinality(left)
           R == {p \in left \X left : p[1] < p[2]}
           f == Arranged(left, R)
           new == [k \in 1 .. n |-> list[f[k]]]
<1>1. /\ DOMAIN list = 1 .. Len(list) /\ Len(list) \in Nat
      /\ left \subseteq 1 .. Len(list)
      /\ \A i \in left : i \in Nat /\ list[i] \in Threads
  OBVIOUS
<1>2. IsFiniteSet(left) /\ n \in Nat
  <2>1. IsFiniteSet(1 .. Len(list))
    BY <1>1, FS_Interval
  <2> HIDE DEF left
  <2>2. IsFiniteSet(left)
    BY <1>1, <2>1, FS_Subset
  <2> QED
    BY <2>2, FS_CardinalityType
<1>3. \A i, j \in left : <<i, j>> \in R <=> i < j
  OBVIOUS
<1> HIDE DEF R
<1>4. /\ \A x \in left : <<x, x>> \notin R
      /\ \A x, y, z \in left : <<x, y>> \in R /\ <<y, z>> \in R => <<x, z>> \in R
      /\ \A x, y \in left : x = y \/ <<x, y>> \in R \/ <<y, x>> \in R
  <2> HIDE DEF left
  <2> QED
    BY <1>1, <1>3
<1> HIDE DEF left
<1>5. /\ f \in [1 .. n -> left]
      /\ \A i \in left : \E k \in 1 .. n : f[k] = i
  BY ONLY <1>2, <1>4, Arrangement
<1>6. Others(list, gone) = new
  <2>1. ASSUME NEW i \in left
        PROVE  Cardinality({j \in left : j <= i}) = Cardinality({j \in left : <<j, i>> \in R}) + 1
    <3> DEFINE b == {j \in left : <<j, i>> \in R}
    <3>1. IsFiniteSet(b) /\ i \notin b
      BY <1>2, <1>4, FS_Subset
    <3>2. \A j \in left : j <= i <=> (<<j, i>> \in R \/ j = i)
      BY <1>1, <1>3
    <3>3. {j \in left : j <= i} = b \cup {i}
      BY <3>2
    <3> QED
      BY <3>1, <3>3, FS_AddElement
  <2>2. \A k \in 1 .. n : f[k] = CHOOSE i \in left : Cardinality({j \in left : j <= i}) = k
    BY <2>1 DEF Arranged
  <2>3. new = [k \in 1 .. Cardinality(left) |->
                 list[CHOOSE i \in left : Cardinality({j \in left : j <= i}) = k]]
    <3> HIDE DEF f
    <3> QED
      BY <2>2
  <2> HIDE DEF new
  <2> QED
    BY <2>3 DEF Others, left
<1> HIDE DEF f
<1>7. new \in Seq(Threads) /\ DOMAIN new = 1 .. n
  <2>1. new \in [1 .. n -> Threads]
    BY <1>1, <1>5
  <2> HIDE DEF new, n
  <2> QED
    BY <1>2, <2>1
<1>8. ToSet(new) = {list[i] : i \in left}
  <2>1. ToSet(new) = {list[f[k]] : k \in 1 .. n}
    BY <1>7 DEF ToSet
  <2> HIDE DEF new, n
  <2> QED
    BY <1>5, <2>1
<1>9. {list[i] : i \in left} = ToSet(list) \ gone
  BY DEF left, ToSet
<1> QED
  BY <1>6, <1>7, <1>8, <1>9

-----------------------------------------------------------------------------
(* The lists that the threads are in. *)

Runnable == {"run", "donate", "down", "own", "back", "up"}
Inside == {"donate", "down", "blocked", "own", "back", "up"}

\* The types that TypeOK leaves out.
Types ==
  /\ TypeOK
  /\ ori_priority \in [Threads -> Nat]
  /\ donation_list \in [Threads -> Seq(Threads)]
  /\ waiters \in [Locks -> Seq(Threads)]
  /\ \A t \in Threads : donation_list[t] # <<>> => ori_priority[t] \in Priorities
  /\ \A l \in Locks : holder[l] # None => l \in allowed

\* A thread is in the list that its program point says.
RunList ==
  /\ \A t \in Threads : t \in Ready <=> pc[t] \in Runnable /\ t # cur
  /\ cur \in Threads => pc[cur] \in Runnable

WaitLists ==
  \A l \in Locks : /\ IsInjective(waiters[l])
                   /\ \A t \in Threads : t \in ToSet(waiters[l]) <=> pc[t] = "blocked" /\ arg[t] = l

Args == \A t \in Threads : IF pc[t] \in Inside THEN arg[t] \in Locks \cap allowed ELSE arg[t] = None

\* The run queue is ordered, and no thread in it comes before the running one,
\* unless that has just lost priority.
Topmost ==
  /\ Ordered(ready_list, priority)
  /\ cur \in Threads /\ pc[cur] # "up" => \A t \in Ready : priority[t] <= priority[cur]

Lists == Types /\ RunList /\ WaitLists /\ Args /\ Topmost

\* A step of the scheduler that leaves the threads of R runnable and, of these,
\* one that is highest running.
Placed(R, pri) ==
  /\ Queue(ready_list', pri)
  /\ cur' \in R \cup {Idle}
  /\ ToSet(ready_list') = R \ {cur'}
  /\ cur' \in Threads => \A x \in ToSet(ready_list') : pri[x] <= pri[cur']

LEMMA EmptyQueue == ASSUME NEW pri PROVE Queue(<<>>, pri) /\ ToSet(<<>>) = {}
BY DEF Queue, IsInjective, Ordered, ToSet

LEMMA MembersAreThreads ==
  ASSUME NEW s \in Seq(Threads)
  PROVE  ToSet(s) \subseteq Threads
BY DEF ToSet

LEMMA ScheduleLemma ==
  ASSUME NEW ready, NEW pri \in [Threads -> Nat], Queue(ready, pri), Schedule(ready)
  PROVE  Placed(ToSet(ready), pri)
<1>0. Idle \notin Threads /\ ToSet(ready) \subseteq Threads
  BY DonationAssumption, MembersAreThreads DEF Queue
<1>1. CASE ready = <<>>
  BY <1>0, <1>1, EmptyQueue DEF Schedule, Placed
<1>2. CASE ready # <<>>
  BY <1>2, HeadProperties DEF Schedule, Placed
<1> QED
  BY <1>1, <1>2

LEMMA SuperYieldLemma ==
  ASSUME NEW ready, NEW pri \in [Threads -> Nat], NEW t \in Threads, Queue(ready, pri),
         t \notin ToSet(ready), SuperYield(t, ready, pri)
  PROVE  Placed(ToSet(ready) \cup {t}, pri)
<1>1. CASE ready # <<>> /\ pri[Head(ready)] > pri[t]
  <2>1. Schedule(Insert(ready, t, pri))
    BY <1>1 DEF SuperYield
  <2>2. /\ Queue(Insert(ready, t, pri), pri)
        /\ ToSet(Insert(ready, t, pri)) = ToSet(ready) \cup {t}
    BY InsertProperties
  <2> QED
    BY <2>1, <2>2, ScheduleLemma
<1>2. CASE ~ (ready # <<>> /\ pri[Head(ready)] > pri[t])
  <2>1. cur' = t /\ ready_list' = ready
    BY <1>2 DEF SuperYield
  <2>2. ASSUME NEW x \in ToSet(ready) PROVE pri[x] <= pri[t]
    <3>1. ready # <<>>
      BY EmptyQueue
    <3>2. Head(ready) \in Threads /\ pri[x] <= pri[Head(ready)] /\ x \in Threads
      BY <3>1, HeadProperties, MembersAreThreads DEF Queue
    <3>3. pri[Head(ready)] <= pri[t]
      BY <1>2, <3>1, <3>2
    <3> QED
      BY <3>2, <3>3
  <2> QED
    BY <2>1, <2>2 DEF Placed
<1> QED
  BY <1>1, <1>2

\* After a step of the scheduler the run queue is right.
LEMMA PlacedRight ==
  ASSUME Placed({t \in Threads : pc'[t] \in Runnable}, priority')
  PROVE  /\ cur' \in Threads \cup {Idle} /\ ready_list' \in Seq(Threads) /\ IsInjective(ready_list')
         /\ RunList' /\ Topmost'
<1>1. Idle \notin Threads
  BY DonationAssumption
<1>2. Ready' = ToSet(ready_list')
  BY DEF Ready
<1> QED
  BY <1>1, <1>2 DEF Placed, Queue, RunList, Topmost

\* The run queue before a step.
LEMMA QueueNow ==
  ASSUME Lists
  PROVE  /\ Queue(ready_list, priority) /\ priority \in [Threads -> Nat]
         /\ Ready = ToSet(ready_list) /\ Ready \subseteq Threads
         /\ Ready = {t \in Threads : pc[t] \in Runnable} \ {cur}
         /\ None \notin Threads \cup Locks /\ Idle \notin Threads /\ Priorities \subseteq Nat
<1>1. Ready = ToSet(ready_list) /\ Ready \subseteq Threads
  BY MembersAreThreads DEF Ready, Lists, Types, TypeOK
<1>2. None \notin Threads \cup Locks /\ Idle \notin Threads /\ Priorities \subseteq Nat
  BY DonationAssumption
<1>3. priority \in [Threads -> Nat]
  BY <1>2 DEF Lists, Types, TypeOK
<1>4. Queue(ready_list, priority)
  BY DEF Lists, Types, TypeOK, Queue, Topmost
<1>5. Ready = {t \in Threads : pc[t] \in Runnable} \ {cur}
  BY <1>1 DEF Lists, RunList
<1> QED
  BY <1>1, <1>2, <1>3, <1>4, <1>5

LEMMA ListsInit == Init => Lists
<1> SUFFICES ASSUME Init PROVE Lists
  OBVIOUS
<1> USE DonationAssumption DEF Init
<1>1. Ready = {} /\ ToSet(<<>>) = {} /\ IsInjective(<<>>) /\ Ordered(<<>>, priority)
  BY DEF Ready, ToSet, IsInjective, Ordered
<1>2. Types
  BY <1>1 DEF Types, TypeOK
<1>3. RunList
  BY <1>1 DEF RunList, Runnable
<1>4. WaitLists
  BY <1>1 DEF WaitLists
<1>5. Args
  BY DEF Args, Inside
<1>6. Topmost
  BY <1>1 DEF Topmost
<1> QED
  BY <1>2, <1>3, <1>4, <1>5, <1>6 DEF Lists

\* The order of a list says nothing of the priorities of other threads.
LEMMA QueueKept ==
  ASSUME NEW list, NEW p, NEW q, Queue(list, p), \A x \in ToSet(list) : q[x] = p[x]
  PROVE  Queue(list, q)
BY DEF Queue, Ordered, ToSet

\* The wait lists, where nobody starts or stops waiting.
LEMMA WaitersKept ==
  ASSUME WaitLists, waiters' = waiters,
         \A t \in Threads : pc'[t] = "blocked" <=> pc[t] = "blocked",
         \A t \in Threads : pc[t] = "blocked" => arg'[t] = arg[t]
  PROVE  WaitLists'
BY DEF WaitLists

\* Types, where only the scheduler's part and the program points change.
LEMMA TypesKept ==
  ASSUME Types, UNCHANGED <<allowed, pris, locks, base>>,
         cur' \in Threads \cup {Idle}, ready_list' \in Seq(Threads), IsInjective(ready_list'),
         pc' \in [Threads -> {"new", "run", "asleep", "donate", "down", "blocked", "own",
                              "back", "up", "dead"}],
         arg' \in [Threads -> Locks \cup {None}]
  PROVE  Types'
BY DEF Types, TypeOK, pris, locks

\* Lists, where nothing but the scheduler's part and the program points of
\* threads outside the primitives change.
LEMMA ListsKept ==
  ASSUME Lists, UNCHANGED <<allowed, arg, pris, locks, base>>,
         pc' \in [Threads -> {"new", "run", "asleep", "donate", "down", "blocked", "own",
                              "back", "up", "dead"}],
         \A t \in Threads : pc'[t] # pc[t] => pc[t] \notin Inside /\ pc'[t] \notin Inside,
         Placed({t \in Threads : pc'[t] \in Runnable}, priority')
  PROVE  Lists'
<1>1. /\ cur' \in Threads \cup {Idle} /\ ready_list' \in Seq(Threads) /\ IsInjective(ready_list')
      /\ RunList' /\ Topmost'
  BY PlacedRight
<1>2. Types'
  BY <1>1, TypesKept DEF Lists, Types, TypeOK
<1>3. WaitLists'
  BY WaitersKept DEF Lists, locks, Inside
<1>4. Args'
  BY DEF Lists, Args
<1> QED
  BY <1>1, <1>2, <1>3, <1>4 DEF Lists

LEMMA CreateLists ==
  ASSUME Lists, NEW t \in Threads, Create(t)
  PROVE  Lists'
<1>1. PICK u \in Threads, p \in Priorities :
        /\ pc[u] = "new"
        /\ pc' = [pc EXCEPT ![u] = "run"]
        /\ priority' = [priority EXCEPT ![u] = p]
        /\ base' = [base EXCEPT ![u] = p]
        /\ SuperYield(t, Insert(ready_list, u, priority'), priority')
  BY DEF Create, Goto
<1>2. /\ cur = t /\ pc[t] = "run" /\ u # t
      /\ UNCHANGED <<allowed, arg, ori_priority, wait_lock, donation_list, holder, value, waiters>>
  BY <1>1 DEF Create, Running, Keep, locks
<1>3. priority' \in [Threads -> Nat] /\ priority' \in [Threads -> Priorities]
  BY <1>1, QueueNow DEF Lists, Types, TypeOK
<1>4. u \notin Ready
  BY <1>1, QueueNow DEF Runnable
<1>5. Queue(ready_list, priority')
  <2>1. \A x \in Ready : priority'[x] = priority[x]
    BY <1>1, <1>4, QueueNow DEF Lists, Types, TypeOK
  <2> QED
    BY <2>1, QueueNow, QueueKept
<1>6. /\ Queue(Insert(ready_list, u, priority'), priority')
      /\ ToSet(Insert(ready_list, u, priority')) = Ready \cup {u}
  BY <1>3, <1>4, <1>5, QueueNow, InsertProperties
<1>7. Placed(Ready \cup {u} \cup {t}, priority')
  BY <1>1, <1>2, <1>3, <1>6, QueueNow, SuperYieldLemma
<1>8. Ready \cup {u} \cup {t} = {x \in Threads : pc'[x] \in Runnable}
  BY <1>1, <1>2, QueueNow DEF Runnable, Lists, Types, TypeOK
<1>9. /\ cur' \in Threads \cup {Idle} /\ ready_list' \in Seq(Threads) /\ IsInjective(ready_list')
      /\ RunList' /\ Topmost'
  BY <1>7, <1>8, PlacedRight
<1>10. Types'
  BY <1>1, <1>2, <1>3, <1>9 DEF Lists, Types, TypeOK
<1>11. WaitLists'
  BY <1>1, <1>2, WaitersKept DEF Lists, Types, TypeOK
<1>12. Args'
  BY <1>1, <1>2 DEF Lists, Types, TypeOK, Args, Inside
<1> QED
  BY <1>9, <1>10, <1>11, <1>12 DEF Lists

LEMMA SetPriorityLists ==
  ASSUME Lists, NEW t \in Threads, SetPriority(t)
  PROVE  Lists'
<1>1. PICK p \in Priorities :
        /\ IF donation_list[t] = <<>> \/ p > priority[t]
           THEN priority' = [priority EXCEPT ![t] = p] /\ UNCHANGED ori_priority
           ELSE ori_priority' = [ori_priority EXCEPT ![t] = p] /\ UNCHANGED priority
        /\ base' = [base EXCEPT ![t] = p]
        /\ SuperYield(t, ready_list, priority')
  BY DEF SetPriority
<1>2. /\ cur = t /\ pc[t] = "run"
      /\ UNCHANGED <<allowed, pc, arg, wait_lock, donation_list, holder, value, waiters>>
  BY DEF SetPriority, Running, Keep, locks
<1>3. /\ priority' \in [Threads -> Nat] /\ priority' \in [Threads -> Priorities]
      /\ ori_priority' \in [Threads -> Nat]
      /\ \A x \in Threads : donation_list[x] # <<>> => ori_priority'[x] \in Priorities
      /\ \A x \in Threads : x # t => priority'[x] = priority[x]
  <2>0. /\ priority \in [Threads -> Priorities] /\ ori_priority \in [Threads -> Nat]
        /\ Priorities \subseteq Nat
        /\ \A x \in Threads : donation_list[x] # <<>> => ori_priority[x] \in Priorities
    BY QueueNow DEF Lists, Types, TypeOK
  <2>1. CASE donation_list[t] = <<>> \/ p > priority[t]
    BY <1>1, <2>0, <2>1
  <2>2. CASE ~ (donation_list[t] = <<>> \/ p > priority[t])
    BY <1>1, <2>0, <2>2
  <2> QED
    BY <2>1, <2>2
<1>4. Queue(ready_list, priority')
  BY <1>2, <1>3, QueueNow, QueueKept
<1>5. Placed(Ready \cup {t}, priority')
  BY <1>1, <1>2, <1>3, <1>4, QueueNow, SuperYieldLemma
<1>6. Ready \cup {t} = {x \in Threads : pc'[x] \in Runnable}
  BY <1>2, QueueNow DEF Runnable
<1>7. /\ cur' \in Threads \cup {Idle} /\ ready_list' \in Seq(Threads) /\ IsInjective(ready_list')
      /\ RunList' /\ Topmost'
  BY <1>5, <1>6, PlacedRight
<1>8. Types'
  BY <1>1, <1>2, <1>3, <1>7 DEF Lists, Types, TypeOK
<1>9. WaitLists'
  BY <1>2, WaitersKept DEF Lists
<1>10. Args'
  BY <1>2 DEF Lists, Args
<1> QED
  BY <1>7, <1>8, <1>9, <1>10 DEF Lists

\* timer_sleep and thread_exit: the running thread leaves.
LEMMA LeaveLists ==
  ASSUME Lists, NEW t \in Threads, Sleep(t) \/ Exit(t)
  PROVE  Lists'
<1>1. PICK at \in {"asleep", "dead"} : pc' = [pc EXCEPT ![t] = at]
  BY DEF Sleep, Exit, Goto
<1>2. /\ cur = t /\ pc[t] = "run" /\ Schedule(ready_list)
      /\ UNCHANGED <<allowed, arg, pris, locks, base>>
  BY DEF Sleep, Exit, Running, Keep
<1>3. Placed(Ready, priority)
  BY <1>2, QueueNow, ScheduleLemma
<1>4. Ready = {x \in Threads : pc'[x] \in Runnable}
  BY <1>1, <1>2, QueueNow DEF Runnable, Lists, Types, TypeOK
<1>5. priority' = priority
  BY <1>2 DEF pris
<1> QED
  BY <1>1, <1>2, <1>3, <1>4, <1>5, ListsKept DEF Lists, Types, TypeOK, Inside

LEMMA WakeLists ==
  ASSUME Lists, NEW u \in Threads, Wake(u)
  PROVE  Lists'
<1> DEFINE ready == Insert(ready_list, u, priority)
<1>1. /\ pc[u] = "asleep" /\ pc' = [pc EXCEPT ![u] = "run"]
      /\ UNCHANGED <<allowed, arg, pris, locks, base>>
      /\ IF cur = Idle THEN Schedule(ready) ELSE SuperYield(cur, ready, priority)
  BY DEF Wake, Goto, Keep
<1>2. u \notin Ready /\ u # cur
  BY <1>1, QueueNow DEF Runnable, Lists, RunList
<1>3. Queue(ready, priority) /\ ToSet(ready) = Ready \cup {u}
  BY <1>2, QueueNow, InsertProperties
<1> HIDE DEF ready
<1>4. Placed({x \in Threads : pc'[x] \in Runnable}, priority)
  <2>1. CASE cur = Idle
    <3>1. Placed(Ready \cup {u}, priority)
      BY <1>1, <1>3, <2>1, QueueNow, ScheduleLemma
    <3>2. Ready \cup {u} = {x \in Threads : pc'[x] \in Runnable}
      BY <1>1, <2>1, QueueNow DEF Runnable, Lists, Types, TypeOK
    <3> QED
      BY <3>1, <3>2
  <2>2. CASE cur # Idle
    <3>0. cur \in Threads
      BY <2>2 DEF Lists, Types, TypeOK
    <3>1. Placed(Ready \cup {u} \cup {cur}, priority)
      BY <1>1, <1>2, <1>3, <2>2, <3>0, QueueNow, SuperYieldLemma
    <3>2. Ready \cup {u} \cup {cur} = {x \in Threads : pc'[x] \in Runnable}
      BY <1>1, <3>0, QueueNow DEF Runnable, Lists, Types, TypeOK, RunList
    <3> QED
      BY <3>1, <3>2
  <2> QED
    BY <2>1, <2>2
<1>5. priority' = priority
  BY <1>1 DEF pris
<1> QED
  BY <1>1, <1>4, <1>5, ListsKept DEF Lists, Types, TypeOK, Inside

LEMMA PreemptLists ==
  ASSUME Lists, NEW t \in Threads, Preempt(t)
  PROVE  Lists'
<1>1. /\ cur = t /\ Schedule(Insert(ready_list, t, priority))
      /\ UNCHANGED <<allowed, pc, arg, pris, locks, base>>
  BY DEF Preempt, Keep
<1>2. /\ Queue(Insert(ready_list, t, priority), priority)
      /\ ToSet(Insert(ready_list, t, priority)) = Ready \cup {t}
  BY <1>1, QueueNow, InsertProperties
<1>3. Placed(Ready \cup {t}, priority)
  BY <1>1, <1>2, QueueNow, ScheduleLemma
<1>4. Ready \cup {t} = {x \in Threads : pc'[x] \in Runnable}
  BY <1>1, QueueNow DEF Lists, RunList
<1>5. priority' = priority
  BY <1>1 DEF pris
<1> QED
  BY <1>1, <1>3, <1>4, <1>5, ListsKept DEF Lists, Types, TypeOK

-----------------------------------------------------------------------------
\* Lists, where the running thread goes on within a primitive and nobody else
\* is affected.
LEMMA ListsOn ==
  ASSUME Lists, NEW t \in Threads, cur = t, cur' = t, pc[t] \in Runnable,
         NEW at \in Runnable, pc' = [pc EXCEPT ![t] = at],
         ready_list' \in Seq(Threads), IsInjective(ready_list'), Ready' = Ready,
         UNCHANGED <<allowed, waiters>>,
         NEW a \in Locks \cup {None}, arg' = [arg EXCEPT ![t] = a],
         at \in Inside <=> a \in Locks \cap allowed, a \in Locks => a \in allowed
  PROVE  RunList' /\ WaitLists' /\ Args'
<1>0. None \notin Locks /\ "blocked" \notin Runnable
  BY DonationAssumption DEF Runnable
<1>1. pc \in [Threads -> {"new", "run", "asleep", "donate", "down", "blocked", "own",
                          "back", "up", "dead"}]
  BY DEF Lists, Types, TypeOK
<1>2. RunList'
  BY <1>1 DEF Lists, RunList
<1>3. WaitLists'
  <2>1. \A x \in Threads : x # t => pc'[x] = pc[x] /\ arg'[x] = arg[x]
    BY <1>1 DEF Lists, Types, TypeOK
  <2>2. pc'[t] # "blocked" /\ pc[t] # "blocked"
    BY <1>0, <1>1
  <2> QED
    BY <2>1, <2>2, WaitersKept DEF Lists
<1>4. Args'
  BY <1>0, <1>1 DEF Lists, Types, TypeOK, Args
<1> QED
  BY <1>2, <1>3, <1>4

LEMMA AcquireLists ==
  ASSUME Lists, NEW t \in Threads, Acquire(t)
  PROVE  Lists'
<1>1. PICK l \in Locks \cap allowed, at \in {"donate", "down"} :
        arg' = [arg EXCEPT ![t] = l] /\ pc' = [pc EXCEPT ![t] = at]
  BY DEF Acquire, Goto
<1>2. /\ cur = t /\ pc[t] = "run"
      /\ UNCHANGED <<allowed, cur, ready_list, pris, locks, base>>
  BY DEF Acquire, Running, Keep, sched
<1>3. Types'
  BY <1>1, <1>2, TypesKept DEF Lists, Types, TypeOK
<1>4. Ready' = Ready
  BY <1>2 DEF Ready
<1>5. RunList' /\ WaitLists' /\ Args'
  BY <1>1, <1>2, <1>4, ListsOn DEF Lists, Types, TypeOK, Runnable, Inside, locks
<1>6. Topmost'
  BY <1>1, <1>2, <1>4 DEF Lists, Types, TypeOK, Topmost, pris
<1> QED
  BY <1>3, <1>5, <1>6 DEF Lists

LEMMA OwnLists ==
  ASSUME Lists, NEW t \in Threads, Own(t)
  PROVE  Lists'
<1>1. /\ cur = t /\ pc[t] = "own" /\ pc' = [pc EXCEPT ![t] = "run"]
      /\ arg' = [arg EXCEPT ![t] = None] /\ holder' = [holder EXCEPT ![arg[t]] = t]
      /\ UNCHANGED <<allowed, cur, ready_list, priority, ori_priority, wait_lock, donation_list,
                     value, waiters, base>>
  BY DEF Own, Running, Goto, Keep, sched, pris
<1>2. Types'
  BY <1>1 DEF Lists, Types, TypeOK, Args, Inside
<1>3. Ready' = Ready
  BY <1>1 DEF Ready
<1>4. RunList' /\ WaitLists' /\ Args'
  BY <1>1, <1>3, QueueNow, ListsOn DEF Lists, Types, TypeOK, Runnable, Inside
<1>5. Topmost'
  BY <1>1, <1>3 DEF Lists, Types, TypeOK, Topmost
<1> QED
  BY <1>2, <1>4, <1>5 DEF Lists

LEMMA ReleaseLists ==
  ASSUME Lists, NEW t \in Threads, Release(t)
  PROVE  Lists'
<1>1. PICK l \in Locks :
        /\ holder[l] = t /\ holder' = [holder EXCEPT ![l] = None]
        /\ arg' = [arg EXCEPT ![t] = l]
  BY DEF Release
<1>2. /\ cur = t /\ pc[t] = "run" /\ pc' = [pc EXCEPT ![t] = "back"]
      /\ UNCHANGED <<allowed, cur, ready_list, priority, ori_priority, wait_lock, donation_list,
                     value, waiters, base>>
  BY DEF Release, Running, Goto, Keep, sched, pris
<1>3. l \in allowed
  BY <1>1, QueueNow DEF Lists, Types
<1>4. Types'
  BY <1>1, <1>2 DEF Lists, Types, TypeOK
<1>5. Ready' = Ready
  BY <1>2 DEF Ready
<1>6. RunList' /\ WaitLists' /\ Args'
  BY <1>1, <1>2, <1>3, <1>5, ListsOn DEF Lists, Types, TypeOK, Runnable, Inside
<1>7. Topmost'
  BY <1>1, <1>2, <1>5 DEF Lists, Types, TypeOK, Topmost
<1> QED
  BY <1>4, <1>6, <1>7 DEF Lists

\* In donation only donors, priorities and the order of the run queue change.
LEMMA DonateLists ==
  ASSUME Lists, NEW t \in Threads, Donate(t)
  PROVE  Lists'
<1> DEFINE l == arg[t]
           h == holder[l]
<1>1. /\ cur = t /\ pc[t] = "donate" /\ None \notin Links(l)
      /\ ori_priority' = [ori_priority EXCEPT ![h] = IF donation_list[h] = <<>> THEN priority[h] ELSE @]
      /\ wait_lock' = [wait_lock EXCEPT ![t] = l]
      /\ donation_list' = [donation_list EXCEPT ![h] = <<t>> \o @]
      /\ priority' = [u \in Threads |-> IF u \in Reached(l) THEN priority[t] ELSE priority[u]]
      /\ ready_list' = Sorted(ready_list, priority')
      /\ pc' = [pc EXCEPT ![t] = "down"]
      /\ UNCHANGED <<allowed, cur, arg, holder, value, waiters, base>>
  BY DEF Donate, Running, Goto, Keep, locks
<1>2. l \in Locks \cap allowed
  BY <1>1 DEF Lists, Args, Inside
<1>3. /\ priority' \in [Threads -> Priorities] /\ priority' \in [Threads -> Nat]
      /\ \A u \in Threads : priority'[u] = priority[t] \/ priority'[u] = priority[u]
      /\ priority'[t] = priority[t]
  BY <1>1, QueueNow DEF Lists, Types, TypeOK
<1>4. Queue(ready_list', priority') /\ Ready' = Ready
  BY <1>1, <1>3, QueueNow, SortedProperties DEF Queue, Ready
<1>5. Types'
  <2>0. Types /\ Priorities \subseteq Nat /\ None \notin Threads
    BY QueueNow DEF Lists
  <2>1. TypeOK'
    BY <1>1, <1>2, <1>3, <1>4, <2>0 DEF Types, TypeOK, Queue
  <2>2. <<t>> \in Seq(Threads) /\ <<t>> # <<>>
    OBVIOUS
  <2>3. donation_list' \in [Threads -> Seq(Threads)]
    <3>1. ASSUME NEW s \in Seq(Threads) PROVE <<t>> \o s \in Seq(Threads)
      BY <2>2, ConcatProperties
    <3> QED
      BY <1>1, <2>0, <3>1 DEF Types
  <2>4. CASE h \in Threads
    <3>1. priority[h] \in Priorities
      BY <2>0, <2>4 DEF Types, TypeOK
    <3>2. ori_priority' \in [Threads -> Nat]
      BY <1>1, <2>0, <3>1 DEF Types, TypeOK
    <3>3. ori_priority'[h] \in Priorities
      BY <1>1, <2>0, <2>4, <3>1 DEF Types, TypeOK
    <3>4. \A u \in Threads : u # h => donation_list'[u] = donation_list[u] /\ ori_priority'[u] = ori_priority[u]
      BY <1>1, <2>0 DEF Types
    <3> QED
      BY <1>1, <2>0, <2>1, <2>3, <3>2, <3>3, <3>4 DEF Types
  <2>5. CASE h \notin Threads
    <3>1. ori_priority' = ori_priority /\ donation_list' = donation_list
      BY <1>1, <2>0, <2>5 DEF Types
    <3> QED
      BY <1>1, <2>0, <2>1, <2>3, <3>1 DEF Types
  <2> QED
    BY <2>4, <2>5
<1>6. arg' = [arg EXCEPT ![t] = l]
  BY <1>1 DEF Lists, Types, TypeOK
<1>7. RunList' /\ WaitLists' /\ Args'
  BY <1>1, <1>2, <1>4, <1>6, ListsOn DEF Queue, Runnable, Inside
<1>8. Topmost'
  <2>1. ASSUME NEW u \in Ready PROVE priority'[u] <= priority'[t]
    <3>1. priority[u] <= priority[t] /\ priority[u] \in Nat /\ priority[t] \in Nat /\ u \in Threads
      BY <1>1, QueueNow DEF Lists, Topmost
    <3> QED
      BY <1>3, <3>1
  <2> QED
    BY <1>1, <1>4, <2>1 DEF Topmost, Queue
<1> QED
  BY <1>5, <1>7, <1>8 DEF Lists

LEMMA DownLists ==
  ASSUME Lists, NEW t \in Threads, Down(t)
  PROVE  Lists'
<1> DEFINE l == arg[t]
<1>1. /\ cur = t /\ pc[t] = "down"
      /\ UNCHANGED <<allowed, arg, priority, ori_priority, wait_lock, donation_list, holder, base>>
  BY DEF Down, Running, Keep, pris
<1>2. l \in Locks \cap allowed
  BY <1>1 DEF Lists, Args, Inside
<1>3. CASE value[l] = 0
  <2>1. /\ waiters' = [waiters EXCEPT ![l] = Insert(@, t, priority)]
        /\ pc' = [pc EXCEPT ![t] = "blocked"] /\ Schedule(ready_list) /\ UNCHANGED value
    BY <1>3 DEF Down, Goto
  <2>2. Placed(Ready, priority')
    BY <1>1, <2>1, QueueNow, ScheduleLemma
  <2>3. Ready = {x \in Threads : pc'[x] \in Runnable}
    BY <1>1, <2>1, QueueNow DEF Runnable, Lists, Types, TypeOK
  <2>4. /\ cur' \in Threads \cup {Idle} /\ ready_list' \in Seq(Threads) /\ IsInjective(ready_list')
        /\ RunList' /\ Topmost'
    BY <2>2, <2>3, PlacedRight
  <2>5. t \notin ToSet(waiters[l]) /\ IsInjective(waiters[l]) /\ waiters[l] \in Seq(Threads)
    BY <1>1, <1>2 DEF Lists, WaitLists, Types
  <2> DEFINE new == Insert(waiters[l], t, priority)
  <2>6. new \in Seq(Threads) /\ IsInjective(new) /\ ToSet(new) = ToSet(waiters[l]) \cup {t}
    BY <2>5, QueueNow, InsertMembers
  <2> HIDE DEF new
  <2>7. waiters' = [waiters EXCEPT ![l] = new]
    BY <2>1 DEF new
  <2>8. Types'
    BY <1>1, <1>2, <2>1, <2>4, <2>6, <2>7 DEF Lists, Types, TypeOK
  <2>9. WaitLists'
    BY <1>1, <1>2, <2>1, <2>6, <2>7 DEF Lists, Types, TypeOK, WaitLists
  <2>10. Args'
    BY <1>1, <2>1 DEF Lists, Types, TypeOK, Args, Inside
  <2> QED
    BY <2>4, <2>8, <2>9, <2>10 DEF Lists
<1>4. CASE value[l] # 0
  <2>1. /\ value' = [value EXCEPT ![l] = 0] /\ pc' = [pc EXCEPT ![t] = "own"]
        /\ UNCHANGED <<waiters, cur, ready_list>>
    BY <1>4 DEF Down, Goto, sched
  <2>2. Types'
    BY <1>1, <2>1 DEF Lists, Types, TypeOK
  <2>3. Ready' = Ready /\ arg' = [arg EXCEPT ![t] = l]
    BY <1>1, <2>1 DEF Ready, Lists, Types, TypeOK
  <2>4. RunList' /\ WaitLists' /\ Args'
    BY <1>1, <1>2, <2>1, <2>3, ListsOn DEF Lists, Types, TypeOK, Runnable, Inside
  <2>5. Topmost'
    BY <1>1, <2>1, <2>3 DEF Lists, Types, TypeOK, Topmost
  <2> QED
    BY <2>2, <2>4, <2>5 DEF Lists
<1> QED
  BY <1>3, <1>4

LEMMA TakeBackLists ==
  ASSUME Lists, NEW t \in Threads, TakeBack(t)
  PROVE  Lists'
<1> DEFINE l == arg[t]
           rest == Others(donation_list[t], DonorsFor(t, l))
<1>1. /\ cur = t /\ pc[t] = "back" /\ pc' = [pc EXCEPT ![t] = "up"]
      /\ UNCHANGED <<allowed, cur, arg, ori_priority, holder, value, waiters, base>>
  BY DEF TakeBack, Running, Goto, Keep, locks
<1>2. l \in Locks \cap allowed
  BY <1>1 DEF Lists, Args, Inside
<1>3. /\ priority' \in [Threads -> Priorities] /\ wait_lock' \in [Threads -> Locks \cup {None}]
      /\ donation_list' \in [Threads -> Seq(Threads)]
      /\ \A u \in Threads : donation_list'[u] # <<>> => ori_priority'[u] \in Priorities
      /\ Queue(ready_list', priority') /\ Ready' = Ready
  <2>0. Types /\ Priorities \subseteq Nat
    BY QueueNow DEF Lists
  <2>1. CASE donation_list[t] # <<>> /\ waiters[l] # <<>>
    <3>1. /\ donation_list' = [donation_list EXCEPT ![t] = rest]
          /\ wait_lock' = [u \in Threads |-> IF u \in DonorsFor(t, l) THEN None ELSE wait_lock[u]]
          /\ priority' = [priority EXCEPT ![t] = Restored(t, rest)]
          /\ ready_list' = Sorted(ready_list, priority')
      BY <2>1 DEF TakeBack
    <3>2. rest \in Seq(Threads)
      BY <2>0, OthersProperties DEF Types
    <3> HIDE DEF rest
    <3>3. Restored(t, rest) \in Priorities
      <4>1. rest # <<>> => Head(rest) \in Threads
        BY <3>2
      <4> QED
        BY <2>0, <2>1, <4>1 DEF Restored, Types, TypeOK
    <3>4. priority' \in [Threads -> Priorities] /\ priority' \in [Threads -> Nat]
      BY <2>0, <3>1, <3>3 DEF Types, TypeOK
    <3>5. Queue(ready_list', priority') /\ Ready' = Ready
      BY <3>1, <3>4, QueueNow, SortedProperties DEF Queue, Ready
    <3>6. \A u \in Threads : donation_list'[u] # <<>> => donation_list[u] # <<>>
      BY <2>0, <2>1, <3>1 DEF Types
    <3> QED
      BY <1>1, <2>0, <3>1, <3>2, <3>4, <3>5, <3>6 DEF Types, TypeOK
  <2>2. CASE ~ (donation_list[t] # <<>> /\ waiters[l] # <<>>)
    <3>1. UNCHANGED <<donation_list, wait_lock, priority, ready_list>>
      BY <2>2 DEF TakeBack
    <3>2. Ready' = Ready
      BY <3>1 DEF Ready
    <3>3. Queue(ready_list', priority')
      BY <3>1, QueueNow
    <3> QED
      BY <1>1, <2>0, <3>1, <3>2, <3>3 DEF Types, TypeOK
  <2> QED
    BY <2>1, <2>2
<1>4. Types'
  BY <1>1, <1>3 DEF Lists, Types, TypeOK, Queue
<1>5. arg' = [arg EXCEPT ![t] = l]
  BY <1>1 DEF Lists, Types, TypeOK
<1>6. RunList' /\ WaitLists' /\ Args'
  BY <1>1, <1>2, <1>3, <1>5, ListsOn DEF Queue, Runnable, Inside
<1>7. Topmost'
  BY <1>1, <1>3 DEF Lists, Types, TypeOK, Topmost, Queue
<1> QED
  BY <1>4, <1>6, <1>7 DEF Lists

-----------------------------------------------------------------------------
(* Who has a lock. *)

\* Who is recorded as the holder of a lock, is about to be, or has just been.
Has(l) == {t \in Threads : holder[l] = t \/ (arg[t] = l /\ pc[t] \in {"own", "back", "up"})}

Owned ==
  /\ \A l \in Locks : \A t, u \in Has(l) : t = u
  /\ \A l \in Locks : value[l] = 1 <=> Has(l) = {}
  /\ \A t \in Threads : pc[t] \in {"own", "back", "up"} => holder[arg[t]] = None
  /\ \A t \in Threads : pc[t] \in {"donate", "down", "blocked"} => holder[arg[t]] # t
  /\ \A l \in Locks : holder[l] # None => pc[holder[l]] \notin {"new", "dead"}

LEMMA UpLists ==
  ASSUME Lists, Owned, NEW t \in Threads, Up(t)
  PROVE  Lists'
<1> DEFINE l == arg[t]
           list == Upped(l)
           ready == IF list = <<>> THEN ready_list ELSE Insert(ready_list, Head(list), priority)
<1>1. /\ cur = t /\ pc[t] = "up"
      /\ value' = [value EXCEPT ![l] = @ + 1]
      /\ waiters' = [waiters EXCEPT ![l] = IF list = <<>> THEN <<>> ELSE Tail(list)]
      /\ pc' = [u \in Threads |-> IF u = t THEN "run"
                                  ELSE IF list # <<>> /\ u = Head(list) THEN "down" ELSE pc[u]]
      /\ SuperYield(t, ready, priority)
      /\ arg' = [arg EXCEPT ![t] = None]
      /\ UNCHANGED <<allowed, priority, ori_priority, wait_lock, donation_list, holder, base>>
  BY DEF Up, Running, Keep, pris, Resumed
<1>2. l \in Locks \cap allowed
  BY <1>1 DEF Lists, Args, Inside
<1>3. value[l] = 0
  <2>1. t \in Has(l)
    BY <1>1 DEF Has
  <2> QED
    BY <1>2, <2>1 DEF Owned, Lists, Types, TypeOK
<1>4. /\ Queue(list, priority) /\ ToSet(list) = ToSet(waiters[l])
      /\ \A u \in Threads : u \in ToSet(list) <=> pc[u] = "blocked" /\ arg[u] = l
  BY <1>2, QueueNow, SortedProperties DEF Upped, Lists, WaitLists, Types
<1> HIDE DEF list
<1>5. Placed({x \in Threads : pc'[x] \in Runnable}, priority')
  <2>0. pc \in [Threads -> {"new", "run", "asleep", "donate", "down", "blocked", "own",
                            "back", "up", "dead"}]
    BY DEF Lists, Types, TypeOK
  <2>1. CASE list = <<>>
    <3>1. Placed(Ready \cup {t}, priority)
      BY <1>1, <2>1, QueueNow, SuperYieldLemma
    <3>2. Ready \cup {t} = {x \in Threads : pc'[x] \in Runnable}
      BY <1>1, <2>0, <2>1, QueueNow DEF Runnable
    <3> QED
      BY <1>1, <3>1, <3>2
  <2>2. CASE list # <<>>
    <3>1. /\ Head(list) \in Threads /\ pc[Head(list)] = "blocked"
          /\ Head(list) \notin Ready /\ Head(list) # t
      BY <1>1, <1>4, <2>2, HeadProperties, QueueNow DEF Runnable
    <3>2. Queue(ready, priority) /\ ToSet(ready) = Ready \cup {Head(list)}
      BY <2>2, <3>1, QueueNow, InsertProperties
    <3>3. t \notin ToSet(ready)
      BY <1>1, <3>1, <3>2, QueueNow
    <3> HIDE DEF ready
    <3>4. Placed(Ready \cup {Head(list)} \cup {t}, priority)
      BY <1>1, <3>2, <3>3, QueueNow, SuperYieldLemma
    <3>5. Ready \cup {Head(list)} \cup {t} = {x \in Threads : pc'[x] \in Runnable}
      BY <1>1, <2>0, <2>2, <3>1, QueueNow DEF Runnable
    <3> QED
      BY <1>1, <3>4, <3>5
  <2> QED
    BY <2>1, <2>2
<1> HIDE DEF ready
<1>6. /\ cur' \in Threads \cup {Idle} /\ ready_list' \in Seq(Threads) /\ IsInjective(ready_list')
      /\ RunList' /\ Topmost'
  BY <1>5, PlacedRight
<1> DEFINE left == IF list = <<>> THEN <<>> ELSE Tail(list)
<1>7. /\ left \in Seq(Threads) /\ IsInjective(left)
      /\ \A u \in Threads : u \in ToSet(left) <=>
            pc[u] = "blocked" /\ arg[u] = l /\ ~ (list # <<>> /\ u = Head(list))
  <2>1. CASE list = <<>>
    BY <1>4, <2>1, EmptyQueue DEF Queue
  <2>2. CASE list # <<>>
    BY <1>4, <2>2, HeadProperties, QueueNow DEF Queue
  <2> QED
    BY <2>1, <2>2
<1>8. waiters' = [waiters EXCEPT ![l] = left]
  BY <1>1
<1> HIDE DEF left
<1>9. list # <<>> => Head(list) \in Threads /\ pc[Head(list)] = "blocked" /\ arg[Head(list)] = l
  BY <1>4, HeadProperties, QueueNow
<1>10. Types'
  <2>1. value' \in [Locks -> {0, 1}]
    BY <1>1, <1>2, <1>3 DEF Lists, Types, TypeOK
  <2>2. TypeOK'
    BY <1>1, <1>6, <2>1 DEF Lists, Types, TypeOK
  <2>3. waiters' \in [Locks -> Seq(Threads)]
    BY <1>7, <1>8 DEF Lists, Types
  <2> QED
    BY <1>1, <2>2, <2>3 DEF Lists, Types
<1>11. WaitLists'
  <2>1. ASSUME NEW m \in Locks
        PROVE  /\ IsInjective(waiters'[m])
               /\ \A u \in Threads : u \in ToSet(waiters'[m]) <=> pc'[u] = "blocked" /\ arg'[u] = m
    <3>0. \A u \in Threads : /\ pc'[u] = "blocked" <=> pc[u] = "blocked" /\ ~ (list # <<>> /\ u = Head(list))
                             /\ u # t => arg'[u] = arg[u]
                             /\ pc'[t] = "run"
      BY <1>1 DEF Lists, Types, TypeOK
    <3>1. CASE m = l
      <4>1. waiters'[m] = left
        BY <1>2, <1>8, <3>1 DEF Lists, Types
      <4> QED
        BY <1>1, <1>7, <3>0, <3>1, <4>1
    <3>2. CASE m # l
      <4>1. waiters'[m] = waiters[m]
        BY <1>2, <1>8, <3>2 DEF Lists, Types
      <4> QED
        BY <1>1, <1>9, <3>0, <3>2, <4>1 DEF Lists, WaitLists
    <3> QED
      BY <3>1, <3>2
  <2> QED
    BY <2>1 DEF WaitLists
<1>12. Args'
  BY <1>1, <1>2, <1>9 DEF Lists, Types, TypeOK, Args, Inside
<1> QED
  BY <1>6, <1>10, <1>11, <1>12 DEF Lists

\* A null pointer or a list element in two lists ends the behaviour.
LEMMA BreaksLists ==
  ASSUME Lists, UNCHANGED <<allowed, sched, pc, arg, pris, locks, base>>
  PROVE  Lists'
<1> USE DEF sched, pris, locks
<1>1. Ready' = Ready
  BY DEF Ready
<1> QED
  BY <1>1 DEF Lists, Types, TypeOK, RunList, WaitLists, Args, Topmost

LEMMA ListsStep ==
  ASSUME Lists, Owned, [Next]_vars
  PROVE  Lists'
<1>1. CASE UNCHANGED vars
  BY <1>1, BreaksLists DEF vars
<1>2. ASSUME NEW t \in Threads, DonateBreaks(t)
      PROVE  Lists'
  BY <1>2, BreaksLists DEF DonateBreaks
<1>3. CASE Next
  BY <1>2, <1>3, CreateLists, SetPriorityLists, LeaveLists, WakeLists, PreemptLists, AcquireLists,
     OwnLists, ReleaseLists, DonateLists, DownLists, TakeBackLists, UpLists DEF Next
<1> QED
  BY <1>1, <1>3

\* Who has the locks, where no holder and no value changes.
LEMMA OwnedKept ==
  ASSUME Owned, UNCHANGED <<holder, value>>,
         \A t \in Threads : /\ pc'[t] \in {"own", "back", "up"} <=> pc[t] \in {"own", "back", "up"}
                            /\ pc[t] \in {"own", "back", "up"} => arg'[t] = arg[t]
                            /\ pc'[t] \in {"donate", "down", "blocked"} => holder[arg'[t]] # t,
         \A l \in Locks : holder[l] # None => pc'[holder[l]] \notin {"new", "dead"}
  PROVE  Owned'
<1>1. \A l \in Locks : Has(l)' = Has(l)
  BY DEF Has
<1> QED
  BY <1>1 DEF Owned

LEMMA OwnedInit == Init => Owned
<1> SUFFICES ASSUME Init PROVE Owned
  OBVIOUS
<1>1. \A l \in Locks : Has(l) = {}
  BY DonationAssumption DEF Init, Has
<1> QED
  BY <1>1 DEF Init, Owned

LEMMA OwnedStep ==
  ASSUME Lists, Owned, [Next]_vars
  PROVE  Owned'
<1> DEFINE H == {"own", "back", "up"}
           W == {"donate", "down", "blocked"}
<1>0. /\ pc \in [Threads -> {"new", "run", "asleep", "donate", "down", "blocked", "own",
                             "back", "up", "dead"}]
      /\ arg \in [Threads -> Locks \cup {None}]
      /\ holder \in [Locks -> Threads \cup {None}]
      /\ value \in [Locks -> {0, 1}]
      /\ \A t \in Threads : pc[t] \in Inside => arg[t] \in Locks
      /\ \A l \in Locks : holder[l] # None => holder[l] \in Threads
      /\ None \notin Threads \cup Locks
  BY QueueNow DEF Lists, Types, TypeOK, Args
<1>1. CASE UNCHANGED <<pc, arg, locks>>
  BY <1>1, OwnedKept DEF Owned, locks
<1>2. ASSUME NEW t \in Threads, Create(t)
      PROVE  Owned'
  <2>1. PICK u \in Threads : pc[u] = "new" /\ pc' = [pc EXCEPT ![u] = "run"]
    BY <1>2 DEF Create, Goto
  <2>2. UNCHANGED <<arg, holder, value>>
    BY <1>2 DEF Create, locks
  <2> QED
    BY <1>0, <2>1, <2>2, OwnedKept DEF Owned
<1>3. ASSUME NEW t \in Threads, Sleep(t) \/ Exit(t) \/ Wake(t)
      PROVE  Owned'
  <2>1. /\ pc[t] \in {"run", "asleep"}
        /\ \/ pc' = [pc EXCEPT ![t] = "run"] \/ pc' = [pc EXCEPT ![t] = "asleep"]
           \/ pc' = [pc EXCEPT ![t] = "dead"] /\ \A l \in Locks : holder[l] # t
        /\ UNCHANGED <<arg, holder, value>>
    BY <1>3 DEF Sleep, Exit, Wake, Goto, Running, locks
  <2> QED
    BY <1>0, <2>1, OwnedKept DEF Owned
<1>4. ASSUME NEW t \in Threads, Acquire(t)
      PROVE  Owned'
  <2>1. PICK l \in Locks, at \in {"donate", "down"} :
          /\ holder[l] # t /\ arg' = [arg EXCEPT ![t] = l] /\ pc' = [pc EXCEPT ![t] = at]
    BY <1>4 DEF Acquire, Goto
  <2>2. pc[t] = "run" /\ UNCHANGED <<holder, value>>
    BY <1>4 DEF Acquire, Running, locks
  <2> QED
    BY <1>0, <2>1, <2>2, OwnedKept DEF Owned
<1>5. ASSUME NEW t \in Threads, Donate(t) \/ TakeBack(t)
      PROVE  Owned'
  <2>1. /\ \/ pc[t] = "donate" /\ pc' = [pc EXCEPT ![t] = "down"]
           \/ pc[t] = "back" /\ pc' = [pc EXCEPT ![t] = "up"]
        /\ UNCHANGED <<arg, holder, value>>
    BY <1>5 DEF Donate, TakeBack, Running, Goto, locks
  <2> QED
    BY <1>0, <2>1, OwnedKept DEF Owned
<1>6. ASSUME NEW t \in Threads, Down(t)
      PROVE  Owned'
  <2>0. PICK l \in Locks : l = arg[t]
    BY <1>0, <1>6 DEF Down, Running, Inside
  <2>1. pc[t] = "down" /\ UNCHANGED <<arg, holder>> /\ arg[t] = l
    BY <1>6, <2>0 DEF Down, Running
  <2>2. CASE value[l] = 0
    <3>1. pc' = [pc EXCEPT ![t] = "blocked"] /\ UNCHANGED value
      BY <1>6, <2>0, <2>2 DEF Down, Goto
    <3> QED
      BY <1>0, <2>1, <3>1, OwnedKept DEF Owned
  <2>3. CASE value[l] # 0
    <3>1. pc' = [pc EXCEPT ![t] = "own"] /\ value' = [value EXCEPT ![l] = 0]
      BY <1>6, <2>0, <2>3 DEF Down, Goto
    <3>2. value[l] = 1 /\ Has(l) = {}
      BY <1>0, <2>1, <2>3 DEF Owned
    <3>3. Has(l)' = {t}
      BY <1>0, <2>1, <3>1, <3>2 DEF Has
    <3>4. \A m \in Locks : m # l => Has(m)' = Has(m)
      BY <1>0, <2>1, <3>1 DEF Has
    <3>5. holder[l] = None
      BY <1>0, <2>1, <3>2 DEF Has
    <3>6. \A m \in Locks : value'[m] = IF m = l THEN 0 ELSE value[m]
      BY <1>0, <3>1
    <3>7. \A u \in Threads : pc'[u] = IF u = t THEN "own" ELSE pc[u]
      BY <1>0, <3>1
    <3>8. /\ \A m \in Locks : \A x, y \in Has(m)' : x = y
          /\ \A m \in Locks : value'[m] = 1 <=> Has(m)' = {}
      <4>1. ASSUME NEW m \in Locks
            PROVE  (\A x, y \in Has(m)' : x = y) /\ (value'[m] = 1 <=> Has(m)' = {})
        <5>1. CASE m = l
          BY <3>3, <3>6, <5>1
        <5>2. CASE m # l
          <6>1. Has(m)' = Has(m) /\ value'[m] = value[m]
            BY <3>4, <3>6, <5>2
          <6> QED
            BY <6>1 DEF Owned
        <5> QED
          BY <5>1, <5>2
      <4> QED
        BY <4>1
    <3>9. /\ \A x \in Threads : pc'[x] \in {"own", "back", "up"} => holder'[arg'[x]] = None
          /\ \A x \in Threads : pc'[x] \in {"donate", "down", "blocked"} => holder'[arg'[x]] # x
          /\ \A m \in Locks : holder'[m] # None => pc'[holder'[m]] \notin {"new", "dead"}
      BY <1>0, <2>1, <3>5, <3>7 DEF Owned
    <3> QED
      BY <3>8, <3>9 DEF Owned
  <2> QED
    BY <2>2, <2>3
<1>7. ASSUME NEW t \in Threads, Own(t)
      PROVE  Owned'
  <2>0. PICK l \in Locks : l = arg[t]
    BY <1>0, <1>7 DEF Own, Running, Inside
  <2>1. /\ pc[t] = "own" /\ pc' = [pc EXCEPT ![t] = "run"] /\ arg[t] = l
        /\ holder' = [holder EXCEPT ![l] = t] /\ arg' = [arg EXCEPT ![t] = None]
        /\ UNCHANGED value
    BY <1>7, <2>0 DEF Own, Running, Goto
  <2>2. Has(l) = {t} /\ holder[l] = None
    BY <1>0, <2>1 DEF Has, Owned
  <2>3. \A u \in Threads : /\ pc'[u] = IF u = t THEN "run" ELSE pc[u]
                           /\ arg'[u] = IF u = t THEN None ELSE arg[u]
    BY <1>0, <2>1
  <2>4. \A m \in Locks : holder'[m] = IF m = l THEN t ELSE holder[m]
    BY <1>0, <2>1
  <2>5. \A m \in Locks : Has(m)' = Has(m)
    <3>1. Has(l)' = {t}
      <4>1. ASSUME NEW u \in Threads, u # t PROVE ~ (u \in Has(l)')
        <5>1. u \notin Has(l)
          BY <2>2, <4>1
        <5> QED
          BY <2>1, <2>3, <2>4, <4>1, <5>1 DEF Has
      <4>2. t \in Has(l)'
        BY <2>1, <2>4 DEF Has
      <4> QED
        BY <4>1, <4>2 DEF Has
    <3>2. \A m \in Locks : m # l => Has(m)' = Has(m)
      BY <1>0, <2>1, <2>3, <2>4 DEF Has
    <3>3. TAKE m \in Locks
    <3>4. CASE m = l
      BY <2>2, <3>1, <3>4
    <3>5. CASE m # l
      BY <3>2, <3>5
    <3> QED
      BY <3>4, <3>5
  <2>6. \A u \in Threads : pc[u] \in {"own", "back", "up"} /\ arg[u] = l => u = t
    BY <2>2 DEF Has
  <2>7. \A x \in Threads : pc'[x] \in {"own", "back", "up"} => holder'[arg'[x]] = None
    BY <1>0, <2>3, <2>4, <2>6 DEF Owned, Inside
  <2>8. \A x \in Threads : pc'[x] \in {"donate", "down", "blocked"} => holder'[arg'[x]] # x
    BY <1>0, <2>3, <2>4 DEF Owned, Inside
  <2>9. \A m \in Locks : holder'[m] # None => pc'[holder'[m]] \notin {"new", "dead"}
    BY <1>0, <2>1, <2>3, <2>4 DEF Owned
  <2> QED
    BY <2>1, <2>5, <2>7, <2>8, <2>9 DEF Owned
<1>8. ASSUME NEW t \in Threads, Release(t)
      PROVE  Owned'
  <2>1. PICK l \in Locks :
          /\ holder[l] = t /\ holder' = [holder EXCEPT ![l] = None]
          /\ arg' = [arg EXCEPT ![t] = l]
    BY <1>8 DEF Release
  <2>2. pc[t] = "run" /\ pc' = [pc EXCEPT ![t] = "back"] /\ UNCHANGED value
    BY <1>8 DEF Release, Running, Goto
  <2>3. \A u \in Threads : /\ pc'[u] = IF u = t THEN "back" ELSE pc[u]
                           /\ arg'[u] = IF u = t THEN l ELSE arg[u]
    BY <1>0, <2>1, <2>2
  <2>4. \A m \in Locks : holder'[m] = IF m = l THEN None ELSE holder[m]
    BY <1>0, <2>1
  <2>5. \A m \in Locks : Has(m)' = Has(m)
    BY <1>0, <2>1, <2>2, <2>3, <2>4 DEF Has
  <2>7. \A x \in Threads : pc'[x] \in {"own", "back", "up"} => holder'[arg'[x]] = None
    BY <1>0, <2>3, <2>4 DEF Owned, Inside
  <2>8. \A x \in Threads : pc'[x] \in {"donate", "down", "blocked"} => holder'[arg'[x]] # x
    BY <1>0, <2>3, <2>4 DEF Owned, Inside
  <2>9. \A m \in Locks : holder'[m] # None => pc'[holder'[m]] \notin {"new", "dead"}
    BY <1>0, <2>3, <2>4 DEF Owned
  <2> QED
    BY <2>2, <2>5, <2>7, <2>8, <2>9 DEF Owned
<1>9. ASSUME NEW t \in Threads, Up(t)
      PROVE  Owned'
  <2>0. PICK l \in Locks : l = arg[t]
    BY <1>0, <1>9 DEF Up, Running, Inside
  <2> DEFINE list == Upped(l)
  <2>1. /\ pc[t] = "up" /\ arg[t] = l /\ UNCHANGED holder
        /\ value' = [value EXCEPT ![l] = @ + 1]
        /\ pc' = [u \in Threads |-> IF u = t THEN "run"
                                    ELSE IF list # <<>> /\ u = Head(list) THEN "down" ELSE pc[u]]
        /\ arg' = [arg EXCEPT ![t] = None]
    BY <1>9, <2>0 DEF Up, Running, Resumed
  <2>2. Has(l) = {t} /\ holder[l] = None /\ value[l] = 0
    BY <1>0, <2>1 DEF Has, Owned
  <2>3. list # <<>> => Head(list) \in Threads /\ pc[Head(list)] = "blocked" /\ arg[Head(list)] = l
    <3>1. Queue(list, priority) /\ ToSet(list) = ToSet(waiters[l])
      BY <2>1, QueueNow, SortedProperties DEF Upped, Lists, WaitLists, Types
    <3> QED
      BY <2>1, <3>1, HeadProperties, QueueNow DEF Lists, WaitLists
  <2> HIDE DEF list
  <2>4. \A u \in Threads : /\ u = t => pc'[u] = "run" /\ arg'[u] = None
                           /\ u # t => arg'[u] = arg[u]
                           /\ u # t => pc'[u] = pc[u] \/ (pc'[u] = "down" /\ pc[u] = "blocked" /\ arg[u] = l)
    BY <1>0, <2>1, <2>3
  <2>5. \A m \in Locks : value'[m] = IF m = l THEN 1 ELSE value[m]
    BY <1>0, <2>1, <2>2
  <2>6. Has(l)' = {}
    <3>1. ASSUME NEW u \in Threads PROVE ~ (u \in Has(l)')
      <4>1. u \in Has(l) => u = t
        BY <2>2
      <4>2. CASE u = t
        BY <1>0, <2>1, <2>2, <2>4, <4>2 DEF Has
      <4>3. CASE u # t
        BY <2>1, <2>4, <4>1, <4>3 DEF Has
      <4> QED
        BY <4>2, <4>3
    <3> QED
      BY <3>1 DEF Has
  <2>7. \A m \in Locks : m # l => Has(m)' = Has(m)
    BY <1>0, <2>1, <2>4 DEF Has
  <2>8. /\ \A m \in Locks : \A x, y \in Has(m)' : x = y
        /\ \A m \in Locks : value'[m] = 1 <=> Has(m)' = {}
    <3>1. ASSUME NEW m \in Locks
          PROVE  (\A x, y \in Has(m)' : x = y) /\ (value'[m] = 1 <=> Has(m)' = {})
      <4>1. CASE m = l
        BY <2>5, <2>6, <4>1
      <4>2. CASE m # l
        <5>1. Has(m)' = Has(m) /\ value'[m] = value[m]
          BY <2>5, <2>7, <4>2
        <5> QED
          BY <5>1 DEF Owned
      <4> QED
        BY <4>1, <4>2
    <3> QED
      BY <3>1
  <2>9. /\ \A x \in Threads : pc'[x] \in {"own", "back", "up"} => holder'[arg'[x]] = None
        /\ \A x \in Threads : pc'[x] \in {"donate", "down", "blocked"} => holder'[arg'[x]] # x
        /\ \A m \in Locks : holder'[m] # None => pc'[holder'[m]] \notin {"new", "dead"}
    BY <1>0, <2>1, <2>4 DEF Owned
  <2> QED
    BY <2>8, <2>9 DEF Owned
<1>10. ASSUME NEW t \in Threads, SetPriority(t) \/ Preempt(t) \/ DonateBreaks(t)
       PROVE  Owned'
  BY <1>1, <1>10 DEF SetPriority, Preempt, DonateBreaks
<1>11. CASE UNCHANGED vars
  BY <1>1, <1>11 DEF vars
<1>12. CASE Next
  BY <1>12, <1>2, <1>3, <1>4, <1>5, <1>6, <1>7, <1>8, <1>9, <1>10 DEF Next
<1> QED
  BY <1>11, <1>12

\* No waiter is forgotten where nobody starts or stops waiting or taking a lock.
LEMMA WaitsKept ==
  ASSUME NoneForgotten, UNCHANGED value,
         \A t \in Threads : /\ pc'[t] = "blocked" => pc[t] = "blocked"
                            /\ pc[t] = "down" => pc'[t] = "down"
                            /\ pc[t] \in {"blocked", "down"} => arg'[t] = arg[t]
  PROVE  NoneForgotten'
BY DEF NoneForgotten

LEMMA WaitsStep ==
  ASSUME Lists, Owned, NoneForgotten, [Next]_vars
  PROVE  NoneForgotten'
<1>0. /\ pc \in [Threads -> {"new", "run", "asleep", "donate", "down", "blocked", "own",
                             "back", "up", "dead"}]
      /\ arg \in [Threads -> Locks \cup {None}]
      /\ value \in [Locks -> {0, 1}]
      /\ \A t \in Threads : pc[t] \in Inside => arg[t] \in Locks
  BY DEF Lists, Types, TypeOK, Args
<1>1. CASE UNCHANGED <<pc, arg, locks>>
  BY <1>1, WaitsKept DEF locks
<1>2. ASSUME NEW t \in Threads, Create(t)
      PROVE  NoneForgotten'
  <2>1. PICK u \in Threads : pc[u] = "new" /\ pc' = [pc EXCEPT ![u] = "run"]
    BY <1>2 DEF Create, Goto
  <2>2. UNCHANGED <<arg, value>>
    BY <1>2 DEF Create, locks
  <2> QED
    BY <1>0, <2>1, <2>2, WaitsKept
<1>3. ASSUME NEW t \in Threads, Sleep(t) \/ Exit(t) \/ Wake(t) \/ Donate(t) \/ TakeBack(t)
      PROVE  NoneForgotten'
  <2>1. /\ pc[t] \in {"run", "asleep", "donate", "back"}
        /\ \E at \in {"run", "asleep", "dead", "down", "up"} : pc' = [pc EXCEPT ![t] = at]
        /\ UNCHANGED <<arg, value>>
    BY <1>3 DEF Sleep, Exit, Wake, Donate, TakeBack, Goto, Running, locks
  <2> QED
    BY <1>0, <2>1, WaitsKept
<1>4. ASSUME NEW t \in Threads, Acquire(t) \/ Own(t) \/ Release(t)
      PROVE  NoneForgotten'
  <2>1. /\ pc[t] \in {"run", "own"}
        /\ \E at \in {"run", "donate", "down", "back"} : pc' = [pc EXCEPT ![t] = at]
        /\ \E l \in Locks \cup {None} : arg' = [arg EXCEPT ![t] = l]
        /\ UNCHANGED value
    BY <1>4 DEF Acquire, Own, Release, Goto, Running, locks
  <2> QED
    BY <1>0, <2>1, WaitsKept
<1>5. ASSUME NEW t \in Threads, Down(t)
      PROVE  NoneForgotten'
  <2>1. PICK l \in Locks : l = arg[t]
    BY <1>0, <1>5 DEF Down, Running, Inside
  <2>2. pc[t] = "down" /\ UNCHANGED arg
    BY <1>5 DEF Down, Running
  <2>3. CASE value[l] = 0
    <3>1. pc' = [pc EXCEPT ![t] = "blocked"] /\ UNCHANGED value
      BY <1>5, <2>1, <2>3 DEF Down, Goto
    <3>2. \A u \in Threads : pc'[u] = IF u = t THEN "blocked" ELSE pc[u]
      BY <1>0, <3>1
    <3> QED
      BY <2>1, <2>2, <2>3, <3>1, <3>2 DEF NoneForgotten
  <2>4. CASE value[l] # 0
    <3>1. pc' = [pc EXCEPT ![t] = "own"] /\ value' = [value EXCEPT ![l] = 0]
      BY <1>5, <2>1, <2>4 DEF Down, Goto
    <3>2. \A u \in Threads : pc'[u] = IF u = t THEN "own" ELSE pc[u]
      BY <1>0, <3>1
    <3>3. \A m \in Locks : value'[m] = IF m = l THEN 0 ELSE value[m]
      BY <1>0, <3>1
    <3>4. ASSUME NEW u \in Threads, pc'[u] = "blocked", value'[arg'[u]] = 1
          PROVE  \E v \in Threads : arg'[v] = arg'[u] /\ pc'[v] = "down"
      <4>1. pc[u] = "blocked" /\ arg[u] \in Locks
        BY <1>0, <3>2, <3>4 DEF Inside
      <4>2. arg[u] # l /\ value[arg[u]] = 1
        BY <2>2, <3>3, <3>4, <4>1
      <4>3. PICK v \in Threads : arg[v] = arg[u] /\ pc[v] = "down"
        BY <4>1, <4>2 DEF NoneForgotten
      <4> QED
        BY <2>1, <2>2, <3>2, <4>2, <4>3
    <3> QED
      BY <3>4 DEF NoneForgotten
  <2> QED
    BY <2>3, <2>4
<1>6. ASSUME NEW t \in Threads, Up(t)
      PROVE  NoneForgotten'
  <2>1. PICK l \in Locks : l = arg[t]
    BY <1>0, <1>6 DEF Up, Running, Inside
  <2> DEFINE list == Upped(l)
  <2>2. /\ pc[t] = "up"
        /\ value' = [value EXCEPT ![l] = @ + 1]
        /\ pc' = [u \in Threads |-> IF u = t THEN "run"
                                    ELSE IF list # <<>> /\ u = Head(list) THEN "down" ELSE pc[u]]
        /\ arg' = [arg EXCEPT ![t] = None]
    BY <1>6, <2>1 DEF Up, Running, Resumed
  <2>3. /\ Queue(list, priority)
        /\ \A u \in Threads : u \in ToSet(list) <=> pc[u] = "blocked" /\ arg[u] = l
    BY QueueNow, SortedProperties DEF Upped, Lists, WaitLists, Types
  <2>4. /\ list = <<>> => \A u \in Threads : ~ (pc[u] = "blocked" /\ arg[u] = l)
        /\ list # <<>> => Head(list) \in Threads /\ pc[Head(list)] = "blocked" /\ arg[Head(list)] = l
    BY <2>3, EmptyQueue, HeadProperties, QueueNow
  <2> HIDE DEF list
  <2>5. ASSUME NEW u \in Threads, pc'[u] = "blocked", value'[arg'[u]] = 1
        PROVE  \E v \in Threads : arg'[v] = arg'[u] /\ pc'[v] = "down"
    <3>1. pc[u] = "blocked" /\ u # t /\ arg'[u] = arg[u] /\ arg[u] \in Locks
      BY <1>0, <2>2, <2>5 DEF Inside
    <3>2. CASE arg[u] = l
      <4>1. list # <<>> /\ Head(list) # t
        BY <2>2, <2>4, <3>1, <3>2
      <4>2. arg'[Head(list)] = l /\ pc'[Head(list)] = "down" /\ Head(list) \in Threads
        BY <1>0, <2>2, <2>4, <4>1
      <4> QED
        BY <3>1, <3>2, <4>2
    <3>3. CASE arg[u] # l
      <4>1. value[arg[u]] = 1
        BY <1>0, <2>2, <2>5, <3>1, <3>3
      <4>2. PICK v \in Threads : arg[v] = arg[u] /\ pc[v] = "down"
        BY <3>1, <4>1 DEF NoneForgotten
      <4>3. v # t /\ arg'[v] = arg[v] /\ pc'[v] = "down"
        BY <1>0, <2>2, <4>2
      <4> QED
        BY <3>1, <4>2, <4>3
    <3> QED
      BY <3>2, <3>3
  <2> QED
    BY <2>5 DEF NoneForgotten
<1>7. ASSUME NEW t \in Threads, SetPriority(t) \/ Preempt(t) \/ DonateBreaks(t)
      PROVE  NoneForgotten'
  BY <1>1, <1>7 DEF SetPriority, Preempt, DonateBreaks
<1>8. CASE UNCHANGED vars
  BY <1>1, <1>8 DEF vars
<1>9. CASE Next
  BY <1>9, <1>2, <1>3, <1>4, <1>5, <1>6, <1>7 DEF Next
<1> QED
  BY <1>8, <1>9

LEMMA WaitsInit == Init => NoneForgotten
BY DEF Init, NoneForgotten

\* The numbers of OneOwner.
LEMMA OwnedCounts ==
  ASSUME Lists, Owned
  PROVE  OneOwner
<1>1. ASSUME NEW l \in Locks
      PROVE  value[l] + Cardinality(Has(l)) = 1
  <2>1. value[l] \in {0, 1}
    BY DEF Lists, Types, TypeOK
  <2>2. CASE Has(l) = {}
    <3>1. value[l] = 1 /\ Cardinality(Has(l)) = 0
      BY <2>2, FS_EmptySet DEF Owned
    <3> QED
      BY <3>1
  <2>3. CASE Has(l) # {}
    <3>1. PICK t \in Has(l) : TRUE
      BY <2>3
    <3>2. Has(l) = {t}
      BY <3>1 DEF Owned
    <3>3. value[l] = 0 /\ Cardinality(Has(l)) = 1
      BY <2>1, <2>3, <3>2, FS_Singleton DEF Owned
    <3> QED
      BY <3>3
  <2> QED
    BY <2>2, <2>3
<1> QED
  BY <1>1 DEF OneOwner, Has

\* What holds whether or not a thread is interrupted inside a primitive.
THEOREM ListsInvariant == Spec => [](Lists /\ Owned /\ NoneForgotten)
<1>1. Init => Lists /\ Owned /\ NoneForgotten
  BY ListsInit, OwnedInit, WaitsInit
<1>2. Lists /\ Owned /\ NoneForgotten /\ [Next]_vars => (Lists /\ Owned /\ NoneForgotten)'
  BY ListsStep, OwnedStep, WaitsStep
<1> QED
  BY <1>1, <1>2, PTL DEF Spec

\* The scheduler of prj1 runs a thread of the highest priority, through every
\* donation, release, change of priority, sleep and time slice: schedule,
\* thread_super_yield and list_sort keep the run queue in order.
THEOREM HighestRunsHolds == Spec => []HighestRuns
<1>1. Lists => HighestRuns
  BY DEF Lists, Topmost, Ordered, HighestRuns
<1> QED
  BY <1>1, ListsInvariant, PTL

-----------------------------------------------------------------------------
(* Donations, where no thread is interrupted in the window of lock_acquire.  *)

\* A thread loses the CPU inside lock_acquire or lock_release only where it
\* waits, and a holder that was seen is there when donation looks again.
Uninterrupted ==
  /\ broken = None
  /\ \A t \in Threads : pc[t] \in {"donate", "own", "back", "up"} => t = cur
  /\ \A t \in Threads : pc[t] = "donate" => holder[arg[t]] # None

\* u gives its priority to v: it wants a lock that v has, or that v releases and
\* has not taken the priority back for yet.
Gives(u, v) ==
  wait_lock[u] # None /\ (holder[wait_lock[u]] = v \/ (pc[v] = "back" /\ arg[v] = wait_lock[u]))

\* donation_list has who gives, and who gives waits.
Donors ==
  /\ \A u, v \in Threads : u \in ToSet(donation_list[v]) <=> Gives(u, v)
  /\ \A u \in Threads : wait_lock[u] # None =>
        /\ arg[u] = wait_lock[u] /\ (pc[u] = "blocked" \/ (pc[u] = "down" /\ u = cur))
        /\ \E v \in Threads : Gives(u, v)

\* What a thread's own priority is, with donors or without.
Saved ==
  \A t \in Threads : IF donation_list[t] = <<>> THEN priority[t] = base[t]
                     ELSE ori_priority[t] = base[t]

Calm == "window" \notin allowed => Uninterrupted /\ Donors
Repayable == allowed \cap {"window", "set"} = {} => Saved
Awake == "sleep" \notin allowed => \A t \in Threads : pc[t] # "asleep"

\* The recursion of Link defines a function.
LEMMA LinkRecursion ==
  ASSUME NEW l
  PROVE  Link(l) = [i \in 0 .. MaxDepth + 1 |-> IF i = 0 THEN holder[l] ELSE Further(Link(l)[i - 1])]
<1> DEFINE Is(g, n) == g = [i \in 0 .. n |-> IF i = 0 THEN holder[l] ELSE Further(g[i - 1])]
           T == {n \in Nat : ~ \E g : Is(g, n)}
<1>1. T = {}
  <2>1. SUFFICES ASSUME T # {} PROVE FALSE
    OBVIOUS
  <2>2. PICK n \in T : \A k \in T : n <= k
    <3>1. T \in SUBSET Nat
      OBVIOUS
    <3> HIDE DEF T
    <3> QED
      BY <2>1, <3>1, Smallest
  <2>3. n \in Nat /\ ~ \E g : Is(g, n)
    OBVIOUS
  <2>4. n # 0
    <3> DEFINE g == [i \in 0 .. 0 |-> holder[l]]
    <3>1. Is(g, 0)
      OBVIOUS
    <3> QED
      BY <2>3, <3>1
  <2>5. PICK g : Is(g, n - 1)
    <3>1. n - 1 \in Nat /\ ~ (n <= n - 1)
      BY <2>3, <2>4
    <3>2. n - 1 \notin T
      BY <2>2, <3>1
    <3> QED
      BY <3>1, <3>2
  <2> DEFINE next == [i \in 0 .. n |-> IF i = n THEN Further(g[n - 1]) ELSE g[i]]
  <2>6. \A i \in 0 .. n : next[i] = IF i = 0 THEN holder[l] ELSE Further(next[i - 1])
    <3>1. TAKE i \in 0 .. n
    <3>2. CASE i = 0
      BY <2>3, <2>4, <2>5, <3>2
    <3>3. CASE i # 0 /\ i = n
      <4>1. next[i] = Further(g[n - 1]) /\ n - 1 \in 0 .. n /\ n - 1 # n
        BY <2>3, <3>3
      <4>2. next[n - 1] = g[n - 1]
        BY <4>1
      <4> QED
        BY <3>3, <4>1, <4>2
    <3>4. CASE i # 0 /\ i # n
      <4>1. i \in 0 .. n - 1 /\ i - 1 \in 0 .. n /\ i - 1 # n
        BY <2>3, <3>4
      <4>2. next[i] = g[i] /\ next[i - 1] = g[i - 1]
        BY <3>4, <4>1
      <4>3. g[i] = Further(g[i - 1])
        BY <2>5, <3>4, <4>1
      <4> QED
        BY <3>4, <4>2, <4>3
    <3> QED
      BY <3>2, <3>3, <3>4
  <2>7. Is(next, n)
    <3>1. DOMAIN next = 0 .. n /\ next = [i \in 0 .. n |-> next[i]]
      OBVIOUS
    <3> HIDE DEF next
    <3> QED
      BY <2>6, <3>1
  <2> QED
    BY <2>3, <2>7
<1>2. MaxDepth + 1 \in Nat
  BY DonationAssumption
<1>3. \E g : Is(g, MaxDepth + 1)
  <2>1. MaxDepth + 1 \notin T
    BY <1>1
  <2> QED
    BY <1>2, <2>1
<1>4. Link(l) = CHOOSE g : Is(g, MaxDepth + 1)
  BY DEF Link
<1> QED
  BY <1>3, <1>4

\* A donation reaches threads only, and only such as have donors.
LEMMA LinksDonated ==
  ASSUME Lists, Uninterrupted, Donors, NEW t \in Threads, pc[t] = "donate"
  PROVE  \A x \in Links(arg[t]) : x \in Threads /\ (x = holder[arg[t]] \/ donation_list[x] # <<>>)
<1> DEFINE l == arg[t]
           link == Link(l)
           Good(x) == x \in Threads /\ (x = holder[l] \/ donation_list[x] # <<>>)
           T == {i \in Nat : i <= MaxDepth + 1 /\ ~ Good(link[i])}
<1>1. /\ l \in Locks /\ t = cur /\ holder[l] # None /\ None \notin Threads
      /\ holder \in [Locks -> Threads \cup {None}] /\ wait_lock \in [Threads -> Locks \cup {None}]
  BY QueueNow DEF Lists, Types, TypeOK, Args, Inside, Uninterrupted
<1>2. Good(holder[l])
  BY <1>1
<1>3. ASSUME NEW x, Good(x) PROVE Good(Further(x))
  <2>1. CASE wait_lock[x] = None
    BY <1>3, <2>1 DEF Further
  <2>2. CASE wait_lock[x] # None
    <3>1. PICK v \in Threads : Gives(x, v)
      BY <1>3, <2>2 DEF Donors
    <3>2. holder[wait_lock[x]] = v
      BY <1>1, <3>1 DEF Gives, Uninterrupted
    <3>3. Further(x) = v
      BY <1>1, <1>3, <2>2, <3>2 DEF Further
    <3>4. x \in ToSet(donation_list[v])
      BY <1>3, <3>1 DEF Donors
    <3>5. donation_list[v] # <<>>
      BY <3>4, EmptyQueue
    <3> QED
      BY <3>3, <3>5
  <2> QED
    BY <2>1, <2>2
<1>4. /\ link[0] = holder[l]
      /\ \A i \in Nat : i # 0 /\ i <= MaxDepth + 1 => link[i] = Further(link[i - 1])
  <2>1. MaxDepth \in Nat
    BY DonationAssumption
  <2>2. link = [i \in 0 .. MaxDepth + 1 |-> IF i = 0 THEN holder[l] ELSE Further(link[i - 1])]
    BY LinkRecursion
  <2> HIDE DEF link
  <2>3. \A i \in 0 .. MaxDepth + 1 : link[i] = IF i = 0 THEN holder[l] ELSE Further(link[i - 1])
    BY <2>2
  <2> QED
    BY <2>1, <2>3
<1> HIDE DEF Good, link
<1>5. T = {}
  <2>1. SUFFICES ASSUME T # {} PROVE FALSE
    OBVIOUS
  <2>2. PICK n \in T : \A k \in T : n <= k
    <3>1. T \in SUBSET Nat
      OBVIOUS
    <3> HIDE DEF T
    <3> QED
      BY <2>1, <3>1, Smallest
  <2>3. n \in Nat /\ n <= MaxDepth + 1 /\ ~ Good(link[n])
    OBVIOUS
  <2>4. n # 0
    BY <1>2, <1>4, <2>3
  <2>5. n - 1 \in Nat /\ ~ (n <= n - 1) /\ n - 1 <= MaxDepth + 1
    BY <2>3, <2>4, DonationAssumption
  <2>6. n - 1 \notin T
    BY <2>2, <2>5
  <2>7. Good(link[n - 1])
    BY <2>5, <2>6
  <2> QED
    BY <1>3, <1>4, <2>3, <2>4, <2>7
<1>6. \A i \in 0 .. MaxDepth + 1 : Good(link[i])
  BY <1>5, DonationAssumption
<1> QED
  BY <1>6 DEF Links, Good, link

\* Donors, where nothing is given or taken back and no donor stops waiting.
LEMMA DonorsKept ==
  ASSUME Donors, UNCHANGED <<wait_lock, donation_list, holder>>,
         \A t \in Threads : /\ pc'[t] = "back" <=> pc[t] = "back"
                            /\ pc[t] = "back" => arg'[t] = arg[t],
         \A u \in Threads : wait_lock[u] # None =>
            arg'[u] = arg[u] /\ (pc'[u] = "blocked" \/ (pc'[u] = "down" /\ u = cur'))
  PROVE  Donors'
BY DEF Donors, Gives

\* The program points, where the running thread is outside the primitives or
\* goes there.
LEMMA UninterruptedKept ==
  ASSUME Uninterrupted, UNCHANGED broken,
         \A t \in Threads : pc'[t] \in {"donate", "own", "back", "up"} => pc[t] = pc'[t],
         \A t \in Threads : pc[t] \in {"donate", "own", "back", "up"} => pc'[t] # pc[t]
  PROVE  Uninterrupted'
BY DEF Uninterrupted

LEMMA CalmStep ==
  ASSUME Lists, Owned, Uninterrupted, Donors, "window" \notin allowed, [Next]_vars
  PROVE  Uninterrupted' /\ Donors'
<1>0. /\ pc \in [Threads -> {"new", "run", "asleep", "donate", "down", "blocked", "own",
                             "back", "up", "dead"}]
      /\ arg \in [Threads -> Locks \cup {None}]
      /\ holder \in [Locks -> Threads \cup {None}]
      /\ wait_lock \in [Threads -> Locks \cup {None}]
      /\ donation_list \in [Threads -> Seq(Threads)]
      /\ \A t \in Threads : pc[t] \in Inside => arg[t] \in Locks
      /\ None \notin Threads \cup Locks /\ Idle \notin Threads
  BY QueueNow DEF Lists, Types, TypeOK, Args
<1>a. \A u \in Threads : wait_lock[u] # None =>
        wait_lock[u] \in Locks /\ arg[u] = wait_lock[u] /\ (pc[u] = "blocked" \/ (pc[u] = "down" /\ u = cur))
  BY <1>0 DEF Donors
\* The running thread is outside the primitives: so is every other, but for the waiters.
<1>b. ASSUME NEW t \in Threads, cur = t, pc[t] \in {"run", "down"}
      PROVE  /\ \A u \in Threads : pc[u] \notin {"donate", "own", "back", "up"}
             /\ \A u \in Threads : u # t /\ wait_lock[u] # None => pc[u] = "blocked"
             /\ pc[t] = "run" => wait_lock[t] = None
  BY <1>a, <1>b DEF Uninterrupted
<1>1. ASSUME NEW t \in Threads, Create(t)
      PROVE  Uninterrupted' /\ Donors'
  <2>1. PICK u \in Threads : pc[u] = "new" /\ pc' = [pc EXCEPT ![u] = "run"]
    BY <1>1 DEF Create, Goto
  <2>2. cur = t /\ pc[t] = "run" /\ UNCHANGED <<arg, wait_lock, donation_list, holder, broken>>
    BY <1>1 DEF Create, Running, Keep, locks
  <2>3. \A x \in Threads : pc'[x] = IF x = u THEN "run" ELSE pc[x]
    BY <1>0, <2>1
  <2>4. Uninterrupted'
    BY <1>b, <2>2, <2>3, UninterruptedKept
  <2>5. Donors'
    BY <1>a, <1>b, <2>1, <2>2, <2>3, DonorsKept
  <2> QED
    BY <2>4, <2>5
<1>2. ASSUME NEW t \in Threads, Sleep(t) \/ Exit(t)
      PROVE  Uninterrupted' /\ Donors'
  <2>1. PICK at \in {"asleep", "dead"} : pc' = [pc EXCEPT ![t] = at]
    BY <1>2 DEF Sleep, Exit, Goto
  <2>2. cur = t /\ pc[t] = "run" /\ UNCHANGED <<arg, wait_lock, donation_list, holder, broken>>
    BY <1>2 DEF Sleep, Exit, Running, Keep, locks, pris
  <2>3. \A x \in Threads : pc'[x] = IF x = t THEN at ELSE pc[x]
    BY <1>0, <2>1
  <2>4. Uninterrupted'
    BY <1>b, <2>2, <2>3, UninterruptedKept
  <2>5. Donors'
    BY <1>a, <1>b, <2>2, <2>3, DonorsKept
  <2> QED
    BY <2>4, <2>5
<1>3. ASSUME NEW t \in Threads, Wake(t)
      PROVE  Uninterrupted' /\ Donors'
  <2>1. pc[t] = "asleep" /\ pc' = [pc EXCEPT ![t] = "run"] /\ (cur # Idle => pc[cur] = "run")
        /\ UNCHANGED <<arg, wait_lock, donation_list, holder, broken>>
    BY <1>3 DEF Wake, Goto, Keep, locks, pris
  <2>2. \A x \in Threads : pc'[x] = IF x = t THEN "run" ELSE pc[x]
    BY <1>0, <2>1
  <2>3. cur = Idle \/ (cur \in Threads /\ pc[cur] = "run")
    BY <2>1 DEF Lists, Types, TypeOK
  <2>4. /\ \A u \in Threads : pc[u] \notin {"donate", "own", "back", "up"}
        /\ \A u \in Threads : wait_lock[u] # None => pc[u] = "blocked"
    BY <1>0, <1>a, <2>3 DEF Uninterrupted
  <2>5. Uninterrupted'
    BY <2>1, <2>2, <2>4, UninterruptedKept
  <2>6. Donors'
    BY <1>a, <2>1, <2>2, <2>4, DonorsKept
  <2> QED
    BY <2>5, <2>6
<1>4. ASSUME NEW t \in Threads, SetPriority(t) \/ Preempt(t)
      PROVE  Uninterrupted' /\ Donors'
  <2>1. cur = t /\ pc[t] = "run" /\ UNCHANGED <<pc, arg, wait_lock, donation_list, holder, broken>>
    BY <1>4 DEF SetPriority, Preempt, Running, Keep, locks, pris
  <2>2. Uninterrupted'
    BY <1>b, <2>1, UninterruptedKept
  <2>3. Donors'
    BY <1>a, <1>b, <2>1, DonorsKept
  <2> QED
    BY <2>2, <2>3
<1>5. ASSUME NEW t \in Threads, Acquire(t)
      PROVE  Uninterrupted' /\ Donors'
  <2>1. PICK l \in Locks :
          /\ arg' = [arg EXCEPT ![t] = l]
          /\ pc' = [pc EXCEPT ![t] = IF holder[l] # None THEN "donate" ELSE "down"]
    BY <1>5 DEF Acquire, Goto
  <2>2. cur = t /\ cur' = t /\ pc[t] = "run" /\ UNCHANGED <<wait_lock, donation_list, holder, broken>>
    BY <1>5 DEF Acquire, Running, Keep, locks, pris, sched
  <2>3. \A x \in Threads : /\ x # t => pc'[x] = pc[x] /\ arg'[x] = arg[x]
                           /\ x = t => pc'[x] \in {"donate", "down"} /\ arg'[x] = l
    BY <1>0, <2>1
  <2>4. Uninterrupted'
    <3>1. \A x \in Threads : pc'[x] \in {"donate", "own", "back", "up"} => x = t /\ pc'[x] = "donate"
      BY <1>b, <2>2, <2>3
    <3>2. pc'[t] = "donate" => holder[l] # None
      BY <1>0, <2>1
    <3> QED
      BY <2>2, <2>3, <3>1, <3>2 DEF Uninterrupted
  <2>5. Donors'
    BY <1>a, <1>b, <2>2, <2>3, DonorsKept
  <2> QED
    BY <2>4, <2>5
<1>6. ASSUME NEW t \in Threads, Donate(t)
      PROVE  Uninterrupted' /\ Donors'
  <2>1. PICK l \in Locks : l = arg[t]
    BY <1>0, <1>6 DEF Donate, Running, Inside
  <2>2. PICK h \in Threads : h = holder[l]
    BY <1>0, <1>6, <2>1 DEF Donate, Running, Uninterrupted
  <2>3. /\ cur = t /\ cur' = t /\ pc[t] = "donate" /\ pc' = [pc EXCEPT ![t] = "down"]
        /\ wait_lock' = [wait_lock EXCEPT ![t] = l]
        /\ donation_list' = [donation_list EXCEPT ![h] = <<t>> \o @]
        /\ UNCHANGED <<arg, holder, broken>>
    BY <1>6, <2>1, <2>2 DEF Donate, Running, Goto, Keep, locks
  <2>4. \A x \in Threads : /\ pc'[x] = IF x = t THEN "down" ELSE pc[x]
                           /\ wait_lock'[x] = IF x = t THEN l ELSE wait_lock[x]
    BY <1>0, <2>3
  <2>5. /\ \A x \in Threads : pc[x] \in {"donate", "own", "back", "up"} => x = t
        /\ wait_lock[t] = None
        /\ \A x \in Threads : wait_lock[x] # None => pc[x] = "blocked"
    BY <1>a, <2>3 DEF Uninterrupted
  <2>6. \A v \in Threads : ToSet(donation_list'[v]) =
          IF v = h THEN ToSet(donation_list[v]) \cup {t} ELSE ToSet(donation_list[v])
    <3>1. ASSUME NEW s \in Seq(Threads) PROVE ToSet(<<t>> \o s) = {t} \cup ToSet(s)
      <4>1. <<t>> \in Seq(Threads) /\ Len(<<t>>) = 1 /\ <<t>>[1] = t
        OBVIOUS
      <4>2. /\ <<t>> \o s \in Seq(Threads) /\ Len(<<t>> \o s) = 1 + Len(s)
            /\ \A j \in 1 .. 1 + Len(s) : (<<t>> \o s)[j] = IF j <= 1 THEN <<t>>[j] ELSE s[j - 1]
        BY <4>1, ConcatProperties
      <4> DEFINE new == <<t>> \o s
                 n == Len(s)
      <4>3. n \in Nat /\ DOMAIN s = 1 .. n /\ DOMAIN new = 1 .. 1 + n
        BY <4>2
      <4>4. \A j \in 1 .. 1 + n : new[j] = IF j = 1 THEN t ELSE s[j - 1]
        BY <4>1, <4>2, <4>3
      <4> HIDE DEF new, n
      <4>5. ToSet(new) = {new[j] : j \in 1 .. 1 + n} /\ ToSet(s) = {s[j] : j \in 1 .. n}
        BY <4>3 DEF ToSet
      <4>6. 1 \in 1 .. 1 + n /\ new[1] = t
        BY <4>3, <4>4
      <4>7. \A j \in 1 .. 1 + n : new[j] = t \/ (j - 1 \in 1 .. n /\ new[j] = s[j - 1])
        BY <4>3, <4>4
      <4>8. \A j \in 1 .. n : j + 1 \in 1 .. 1 + n /\ new[j + 1] = s[j]
        BY <4>3, <4>4
      <4>9. ToSet(new) = {t} \cup ToSet(s)
        BY <4>5, <4>6, <4>7, <4>8
      <4> QED
        BY <4>9 DEF new
    <3>2. /\ donation_list'[h] = <<t>> \o donation_list[h] /\ donation_list[h] \in Seq(Threads)
          /\ \A v \in Threads : v # h => donation_list'[v] = donation_list[v]
      BY <1>0, <2>3
    <3>3. ToSet(donation_list'[h]) = {t} \cup ToSet(donation_list[h])
      BY <3>1, <3>2
    <3> QED
      BY <3>2, <3>3
  <2>7. Uninterrupted'
    BY <2>3, <2>4, <2>5, UninterruptedKept
  <2>8. \A u, v \in Threads : Gives(u, v)' <=> Gives(u, v) \/ (u = t /\ v = h)
    BY <1>0, <2>2, <2>3, <2>4, <2>5 DEF Gives
  <2>9. Donors'
    <3>1. ASSUME NEW u \in Threads, NEW v \in Threads
          PROVE  u \in ToSet(donation_list'[v]) <=> Gives(u, v)'
      <4>1. u \in ToSet(donation_list[v]) <=> Gives(u, v)
        BY DEF Donors
      <4>2. u \in ToSet(donation_list'[v]) <=> u \in ToSet(donation_list[v]) \/ (u = t /\ v = h)
        BY <2>6
      <4> QED
        BY <2>8, <4>1, <4>2
    <3>2. \A u \in Threads : wait_lock'[u] # None =>
            /\ arg'[u] = wait_lock'[u] /\ (pc'[u] = "blocked" \/ (pc'[u] = "down" /\ u = cur'))
            /\ \E v \in Threads : Gives(u, v)'
      BY <1>a, <2>1, <2>3, <2>4, <2>5, <2>8 DEF Donors
    <3> QED
      BY <3>1, <3>2 DEF Donors
  <2> QED
    BY <2>7, <2>9
<1>7. ASSUME NEW t \in Threads, DonateBreaks(t)
      PROVE  FALSE
  <2>1. t = cur /\ pc[t] = "donate"
    BY <1>7 DEF DonateBreaks, Running
  <2>2. None \notin Links(arg[t])
    BY <1>0, <2>1, LinksDonated
  <2>3. wait_lock[t] = None
    BY <1>a, <2>1
  <2>4. \A u \in Threads : t \notin ToSet(donation_list[u])
    BY <2>3 DEF Donors, Gives
  <2> QED
    BY <1>7, <2>2, <2>4 DEF DonateBreaks
<1>8. ASSUME NEW t \in Threads, Down(t)
      PROVE  Uninterrupted' /\ Donors'
  <2>1. PICK l \in Locks : l = arg[t]
    BY <1>0, <1>8 DEF Down, Running, Inside
  <2>2. cur = t /\ pc[t] = "down" /\ UNCHANGED <<arg, wait_lock, donation_list, holder, broken>>
    BY <1>8 DEF Down, Running, Keep, pris
  <2>3. CASE value[l] = 0
    <3>1. pc' = [pc EXCEPT ![t] = "blocked"]
      BY <1>8, <2>1, <2>3 DEF Down, Goto
    <3>2. \A x \in Threads : pc'[x] = IF x = t THEN "blocked" ELSE pc[x]
      BY <1>0, <3>1
    <3>3. Uninterrupted'
      BY <1>b, <2>2, <3>2, UninterruptedKept
    <3>4. Donors'
      BY <1>a, <1>b, <2>2, <3>2, DonorsKept
    <3> QED
      BY <3>3, <3>4
  <2>4. CASE value[l] # 0
    <3>1. pc' = [pc EXCEPT ![t] = "own"] /\ cur' = cur
      BY <1>8, <2>1, <2>4 DEF Down, Goto, sched
    <3>2. \A x \in Threads : pc'[x] = IF x = t THEN "own" ELSE pc[x]
      BY <1>0, <3>1
    <3>3. Has(l) = {}
      BY <2>4 DEF Owned, Lists, Types, TypeOK
    <3>4. wait_lock[t] = None
      <4>1. SUFFICES ASSUME wait_lock[t] # None PROVE FALSE
        OBVIOUS
      <4>2. PICK v \in Threads : Gives(t, v)
        BY <4>1 DEF Donors
      <4>3. v \in Has(l)
        BY <1>a, <2>1, <4>1, <4>2 DEF Has, Gives
      <4> QED
        BY <3>3, <4>3
    <3>5. Uninterrupted'
      BY <1>b, <2>2, <3>1, <3>2 DEF Uninterrupted
    <3>6. Donors'
      BY <1>a, <1>b, <2>2, <3>1, <3>2, <3>4, DonorsKept
    <3> QED
      BY <3>5, <3>6
  <2> QED
    BY <2>3, <2>4
<1>9. ASSUME NEW t \in Threads, Own(t)
      PROVE  Uninterrupted' /\ Donors'
  <2>1. PICK l \in Locks : l = arg[t]
    BY <1>0, <1>9 DEF Own, Running, Inside
  <2>2. /\ cur = t /\ cur' = t /\ pc[t] = "own" /\ pc' = [pc EXCEPT ![t] = "run"]
        /\ holder' = [holder EXCEPT ![l] = t] /\ arg' = [arg EXCEPT ![t] = None]
        /\ UNCHANGED <<wait_lock, donation_list, broken>>
    BY <1>9, <2>1 DEF Own, Running, Goto, Keep, sched, pris
  <2>3. /\ \A x \in Threads : pc'[x] = IF x = t THEN "run" ELSE pc[x]
        /\ \A x \in Threads : arg'[x] = IF x = t THEN None ELSE arg[x]
        /\ \A m \in Locks : holder'[m] = IF m = l THEN t ELSE holder[m]
    BY <1>0, <2>2
  <2>4. /\ \A x \in Threads : pc[x] \in {"donate", "own", "back", "up"} => x = t
        /\ \A x \in Threads : wait_lock[x] # None => pc[x] = "blocked"
    BY <1>a, <2>2 DEF Uninterrupted
  <2>5. Uninterrupted'
    BY <2>2, <2>3, <2>4, UninterruptedKept
  <2>6. ASSUME NEW u \in Threads PROVE wait_lock[u] # l
    <3>1. SUFFICES ASSUME wait_lock[u] = l PROVE FALSE
      OBVIOUS
    <3>2. PICK v \in Threads : Gives(u, v)
      BY <1>0, <3>1 DEF Donors
    <3>3. holder[l] = v
      BY <2>2, <2>4, <3>1, <3>2 DEF Gives
    <3> QED
      BY <1>0, <2>1, <2>2, <3>3 DEF Owned
  <2>7. \A u, v \in Threads : Gives(u, v)' <=> Gives(u, v)
    BY <1>0, <2>2, <2>3, <2>4, <2>6 DEF Gives
  <2>8. Donors'
    <3>1. \A u \in Threads : wait_lock'[u] # None => arg'[u] = wait_lock'[u] /\ pc'[u] = "blocked"
      BY <1>a, <2>2, <2>3, <2>4
    <3> QED
      BY <2>2, <2>7, <3>1 DEF Donors
  <2> QED
    BY <2>5, <2>8
<1>10. ASSUME NEW t \in Threads, Release(t)
       PROVE  Uninterrupted' /\ Donors'
  <2>1. PICK l \in Locks :
          /\ holder[l] = t /\ holder' = [holder EXCEPT ![l] = None]
          /\ arg' = [arg EXCEPT ![t] = l]
    BY <1>10 DEF Release
  <2>2. /\ cur = t /\ cur' = t /\ pc[t] = "run" /\ pc' = [pc EXCEPT ![t] = "back"]
        /\ UNCHANGED <<wait_lock, donation_list, broken>>
    BY <1>10 DEF Release, Running, Goto, Keep, sched, pris
  <2>3. /\ \A x \in Threads : pc'[x] = IF x = t THEN "back" ELSE pc[x]
        /\ \A x \in Threads : arg'[x] = IF x = t THEN l ELSE arg[x]
        /\ \A m \in Locks : holder'[m] = IF m = l THEN None ELSE holder[m]
    BY <1>0, <2>1, <2>2
  <2>4. /\ \A x \in Threads : pc[x] \notin {"donate", "own", "back", "up"}
        /\ wait_lock[t] = None
        /\ \A x \in Threads : wait_lock[x] # None => pc[x] = "blocked" /\ x # t
    BY <1>b, <2>2
  <2>5. Uninterrupted'
    BY <2>2, <2>3, <2>4 DEF Uninterrupted
  <2>6. \A u, v \in Threads : Gives(u, v)' <=> Gives(u, v)
    BY <1>0, <1>a, <2>1, <2>2, <2>3, <2>4 DEF Gives
  <2>7. Donors'
    <3>1. \A u \in Threads : wait_lock'[u] # None => arg'[u] = wait_lock'[u] /\ pc'[u] = "blocked"
      BY <1>a, <2>2, <2>3, <2>4
    <3> QED
      BY <2>2, <2>6, <3>1 DEF Donors
  <2> QED
    BY <2>5, <2>7
<1>11. ASSUME NEW t \in Threads, TakeBack(t)
       PROVE  Uninterrupted' /\ Donors'
  <2>1. PICK l \in Locks : l = arg[t]
    BY <1>0, <1>11 DEF TakeBack, Running, Inside
  <2>2. /\ cur = t /\ cur' = t /\ pc[t] = "back" /\ pc' = [pc EXCEPT ![t] = "up"]
        /\ UNCHANGED <<arg, holder, broken>>
    BY <1>11 DEF TakeBack, Running, Goto, Keep, locks
  <2>3. \A x \in Threads : pc'[x] = IF x = t THEN "up" ELSE pc[x]
    BY <1>0, <2>2
  <2>4. /\ \A x \in Threads : pc[x] \in {"donate", "own", "back", "up"} => x = t
        /\ \A x \in Threads : wait_lock[x] # None => pc[x] = "blocked" /\ x # t
    BY <1>a, <2>2 DEF Uninterrupted
  <2>5. \A u \in Threads : u \in DonorsFor(t, l) <=> wait_lock[u] = l
    <3>1. ASSUME NEW u \in Threads, wait_lock[u] = l PROVE u \in ToSet(donation_list[t])
      <4>1. Gives(u, t)
        BY <1>0, <2>1, <2>2, <3>1 DEF Gives
      <4> QED
        BY <4>1 DEF Donors
    <3> QED
      BY <3>1 DEF DonorsFor
  <2>6. /\ \A u \in Threads : wait_lock'[u] = IF wait_lock[u] = l THEN None ELSE wait_lock[u]
        /\ \A u, v \in Threads : u \in ToSet(donation_list'[v]) <=>
                                   u \in ToSet(donation_list[v]) /\ ~ (v = t /\ wait_lock[u] = l)
    <3>1. CASE donation_list[t] # <<>> /\ waiters[l] # <<>>
      <4>1. /\ donation_list' = [donation_list EXCEPT ![t] = Others(donation_list[t], DonorsFor(t, l))]
            /\ wait_lock' = [u \in Threads |-> IF u \in DonorsFor(t, l) THEN None ELSE wait_lock[u]]
        BY <1>11, <2>1, <3>1 DEF TakeBack
      <4>2. ToSet(Others(donation_list[t], DonorsFor(t, l))) = ToSet(donation_list[t]) \ DonorsFor(t, l)
        BY <1>0, OthersProperties
      <4> QED
        BY <1>0, <2>5, <4>1, <4>2
    <3>2. CASE ~ (donation_list[t] # <<>> /\ waiters[l] # <<>>)
      <4>1. UNCHANGED <<donation_list, wait_lock>>
        BY <1>11, <2>1, <3>2 DEF TakeBack
      <4>2. ASSUME NEW u \in Threads PROVE wait_lock[u] # l
        <5>1. SUFFICES ASSUME wait_lock[u] = l PROVE FALSE
          OBVIOUS
        <5>2. u \in ToSet(donation_list[t])
          BY <2>5, <5>1 DEF DonorsFor
        <5>3. pc[u] = "blocked" /\ arg[u] = l
          BY <1>0, <1>a, <2>4, <5>1
        <5>4. u \in ToSet(waiters[l])
          BY <5>3 DEF Lists, WaitLists
        <5> QED
          BY <3>2, <5>2, <5>4, EmptyQueue
      <4> QED
        BY <4>1, <4>2
    <3> QED
      BY <3>1, <3>2
  <2>7. Uninterrupted'
    BY <2>2, <2>3, <2>4 DEF Uninterrupted
  <2>8. \A u, v \in Threads : Gives(u, v) => wait_lock[u] = l \/ holder[wait_lock[u]] = v
    BY <2>1, <2>4 DEF Gives
  <2>9. \A u, v \in Threads : Gives(u, v) /\ wait_lock[u] = l => v = t
    <3>1. ASSUME NEW u \in Threads, NEW v \in Threads, Gives(u, v), wait_lock[u] = l PROVE v = t
      <4>1. holder[l] = None
        BY <2>1, <2>2 DEF Owned
      <4>2. holder[l] # v
        BY <1>0, <4>1
      <4>3. pc[v] = "back"
        BY <3>1, <4>2 DEF Gives
      <4> QED
        BY <2>4, <4>3
    <3> QED
      BY <3>1
  <2>10. \A u, v \in Threads : Gives(u, v)' <=> Gives(u, v) /\ wait_lock[u] # l
    BY <1>0, <2>2, <2>3, <2>4, <2>6, <2>8 DEF Gives
  <2>11. Donors'
    <3>1. \A u, v \in Threads : u \in ToSet(donation_list'[v]) <=> Gives(u, v)'
      BY <2>6, <2>9, <2>10 DEF Donors
    <3>2. \A u \in Threads : wait_lock'[u] # None =>
            /\ arg'[u] = wait_lock'[u] /\ pc'[u] = "blocked"
            /\ \E v \in Threads : Gives(u, v)'
      BY <1>a, <2>2, <2>3, <2>4, <2>6, <2>10 DEF Donors
    <3> QED
      BY <3>1, <3>2 DEF Donors
  <2> QED
    BY <2>7, <2>11
<1>12. ASSUME NEW t \in Threads, Up(t)
       PROVE  Uninterrupted' /\ Donors'
  <2>1. PICK l \in Locks : l = arg[t]
    BY <1>0, <1>12 DEF Up, Running, Inside
  <2> DEFINE list == Upped(l)
  <2>2. /\ cur = t /\ pc[t] = "up"
        /\ pc' = [u \in Threads |-> IF u = t THEN "run"
                                    ELSE IF list # <<>> /\ u = Head(list) THEN "down" ELSE pc[u]]
        /\ arg' = [arg EXCEPT ![t] = None]
        /\ UNCHANGED <<wait_lock, donation_list, holder, broken>>
    BY <1>12, <2>1 DEF Up, Running, Resumed, Keep, pris
  <2>3. /\ Queue(list, priority)
        /\ \A u \in Threads : u \in ToSet(list) <=> pc[u] = "blocked" /\ arg[u] = l
    BY QueueNow, SortedProperties DEF Upped, Lists, WaitLists, Types
  <2>4. list # <<>> => Head(list) \in Threads /\ pc[Head(list)] = "blocked" /\ arg[Head(list)] = l
    BY <2>3, EmptyQueue, HeadProperties, QueueNow
  <2> HIDE DEF list
  <2>5. /\ \A x \in Threads : pc[x] \in {"donate", "own", "back", "up"} => x = t
        /\ \A x \in Threads : wait_lock[x] # None => pc[x] = "blocked" /\ x # t
    BY <1>a, <2>2 DEF Uninterrupted
  <2>6. ASSUME NEW u \in Threads PROVE wait_lock[u] # l
    <3>1. SUFFICES ASSUME wait_lock[u] = l PROVE FALSE
      OBVIOUS
    <3>2. PICK v \in Threads : Gives(u, v)
      BY <1>0, <3>1 DEF Donors
    <3>3. holder[l] = v
      BY <2>2, <2>5, <3>1, <3>2 DEF Gives
    <3> QED
      BY <1>0, <2>1, <2>2, <3>3 DEF Owned
  <2>7. \A x \in Threads : /\ x = t => pc'[x] = "run"
                           /\ x # t => arg'[x] = arg[x]
                           /\ x # t => pc'[x] = pc[x] \/ (pc'[x] = "down" /\ pc[x] = "blocked" /\ arg[x] = l)
    BY <1>0, <2>2, <2>4
  <2>8. Uninterrupted'
    <3>1. \A x \in Threads : pc'[x] \notin {"donate", "own", "back", "up"}
      BY <2>5, <2>7
    <3> QED
      BY <2>2, <3>1 DEF Uninterrupted
  <2>9. Donors'
    <3>1. \A x \in Threads : pc'[x] = "back" <=> pc[x] = "back"
      BY <2>2, <2>5, <2>7
    <3>2. \A x \in Threads : pc[x] # "back"
      BY <2>2, <2>5
    <3>3. \A u \in Threads : wait_lock[u] # None => arg'[u] = arg[u] /\ pc'[u] = "blocked"
      BY <1>a, <2>5, <2>6, <2>7
    <3> QED
      BY <2>2, <3>1, <3>2, <3>3, DonorsKept
  <2> QED
    BY <2>8, <2>9
<1>13. CASE UNCHANGED vars
  BY <1>13 DEF vars, sched, pris, locks, Uninterrupted, Donors, Gives
<1>14. CASE Next
  BY <1>14, <1>1, <1>2, <1>3, <1>4, <1>5, <1>6, <1>7, <1>8, <1>9, <1>10, <1>11, <1>12 DEF Next
<1> QED
  BY <1>13, <1>14

LEMMA CalmInit == Init => Calm
<1>1. SUFFICES ASSUME Init PROVE Uninterrupted /\ Donors
  BY DEF Calm
<1>2. None \notin Threads /\ Main \in Threads
  BY DonationAssumption
<1>3. /\ broken = None
      /\ \A t \in Threads : /\ pc[t] \in {"run", "new"} /\ wait_lock[t] = None
                            /\ ToSet(donation_list[t]) = {}
  BY <1>1, EmptyQueue DEF Init
<1> QED
  BY <1>1, <1>2, <1>3 DEF Init, Uninterrupted, Donors, Gives

\* Most steps change neither priorities nor donations.
LEMMA SavedKept ==
  ASSUME Saved, UNCHANGED <<priority, ori_priority, donation_list, base>>
  PROVE  Saved'
BY DEF Saved

\* Where priorities are not set, a thread has its own priority or has it saved.
LEMMA SavedStep ==
  ASSUME Lists, Owned, Uninterrupted, Donors, Saved,
         allowed \cap {"window", "set"} = {}, [Next]_vars
  PROVE  Saved'
<1>0. /\ priority \in [Threads -> Priorities] /\ base \in [Threads -> Priorities]
      /\ ori_priority \in [Threads -> Nat]
      /\ holder \in [Locks -> Threads \cup {None}]
      /\ donation_list \in [Threads -> Seq(Threads)]
      /\ \A t \in Threads : pc[t] \in Inside => arg[t] \in Locks
      /\ None \notin Threads \cup Locks
  BY QueueNow DEF Lists, Types, TypeOK, Args
<1>1. ASSUME NEW t \in Threads, Create(t)
      PROVE  Saved'
  <2>1. PICK u \in Threads, p \in Priorities :
          pc[u] = "new" /\ priority' = [priority EXCEPT ![u] = p] /\ base' = [base EXCEPT ![u] = p]
    BY <1>1 DEF Create
  <2>2. UNCHANGED <<ori_priority, donation_list>>
    BY <1>1 DEF Create
  <2>3. donation_list[u] = <<>>
    <3>1. ASSUME NEW x \in Threads, Gives(x, u) PROVE FALSE
      <4>1. wait_lock[x] \in Locks /\ holder[wait_lock[x]] = u
        BY <2>1, <3>1 DEF Gives, Lists, Types, TypeOK
      <4> QED
        BY <1>0, <2>1, <4>1 DEF Owned
    <3>2. \A x \in Threads : x \notin ToSet(donation_list[u])
      BY <3>1 DEF Donors
    <3>3. donation_list[u] # <<>> =>
            Head(donation_list[u]) \in ToSet(donation_list[u]) /\ Head(donation_list[u]) \in Threads
      <4>1. donation_list[u] \in Seq(Threads)
        BY <1>0
      <4>2. ASSUME NEW s \in Seq(Threads), s # <<>> PROVE Head(s) \in ToSet(s) /\ Head(s) \in Threads
        <5>1. 1 \in DOMAIN s /\ Head(s) = s[1] /\ s[1] \in Threads
          BY <4>2
        <5> QED
          BY <5>1 DEF ToSet
      <4> QED
        BY <4>1, <4>2
    <3> QED
      BY <3>2, <3>3
  <2>4. ASSUME NEW x \in Threads
        PROVE  IF donation_list'[x] = <<>> THEN priority'[x] = base'[x] ELSE ori_priority'[x] = base'[x]
    <3>1. CASE x = u
      BY <1>0, <2>1, <2>2, <2>3, <3>1
    <3>2. CASE x # u
      BY <1>0, <2>1, <2>2, <3>2 DEF Saved
    <3> QED
      BY <3>1, <3>2
  <2> QED
    BY <2>4 DEF Saved
<1>2. ASSUME NEW t \in Threads, SetPriority(t)
      PROVE  FALSE
  BY <1>2 DEF SetPriority
<1>3. ASSUME NEW t \in Threads, Donate(t)
      PROVE  Saved'
  <2>1. PICK l \in Locks : l = arg[t]
    BY <1>0, <1>3 DEF Donate, Running, Inside
  <2>2. PICK h \in Threads : h = holder[l]
    BY <1>0, <1>3, <2>1 DEF Donate, Running, Uninterrupted
  <2>3. /\ pc[t] = "donate"
        /\ ori_priority' = [ori_priority EXCEPT ![h] = IF donation_list[h] = <<>> THEN priority[h] ELSE @]
        /\ donation_list' = [donation_list EXCEPT ![h] = <<t>> \o @]
        /\ priority' = [u \in Threads |-> IF u \in Links(l) THEN priority[t] ELSE priority[u]]
        /\ base' = base
    BY <1>3, <2>1, <2>2 DEF Donate, Running, Reached
  <2>4. ASSUME NEW x \in Threads
        PROVE  IF donation_list'[x] = <<>> THEN priority'[x] = base'[x] ELSE ori_priority'[x] = base'[x]
    <3>1. CASE x = h
      <4>1. donation_list'[x] = <<t>> \o donation_list[x] /\ donation_list[x] \in Seq(Threads)
        BY <1>0, <2>3, <3>1
      <4>2. donation_list'[x] # <<>>
        <5>1. ASSUME NEW s \in Seq(Threads) PROVE <<t>> \o s # <<>>
          <6>1. <<t>> \in Seq(Threads) /\ Len(<<t>>) = 1 /\ Len(s) \in Nat
            OBVIOUS
          <6>2. Len(<<t>> \o s) = 1 + Len(s)
            BY <6>1, ConcatProperties
          <6> QED
            BY <6>1, <6>2
        <5> QED
          BY <4>1, <5>1
      <4>3. ori_priority'[x] = IF donation_list[x] = <<>> THEN priority[x] ELSE ori_priority[x]
        BY <1>0, <2>3, <3>1
      <4> QED
        BY <2>3, <4>2, <4>3 DEF Saved
    <3>2. CASE x # h
      <4>1. donation_list'[x] = donation_list[x] /\ ori_priority'[x] = ori_priority[x]
        BY <1>0, <2>3, <3>2
      <4>2. donation_list[x] = <<>> => x \notin Links(l)
        BY <2>1, <2>2, <2>3, <3>2, LinksDonated
      <4>3. donation_list[x] = <<>> => priority'[x] = priority[x]
        BY <2>3, <4>2
      <4> QED
        BY <2>3, <4>1, <4>3 DEF Saved
    <3> QED
      BY <3>1, <3>2
  <2> QED
    BY <2>4 DEF Saved
<1>4. ASSUME NEW t \in Threads, TakeBack(t)
      PROVE  Saved'
  <2>1. PICK l : l = arg[t]
    OBVIOUS
  <2>2. ori_priority' = ori_priority /\ base' = base
    BY <1>4 DEF TakeBack
  <2>3. CASE donation_list[t] # <<>> /\ waiters[l] # <<>>
    <3> DEFINE rest == Others(donation_list[t], DonorsFor(t, l))
    <3>1. /\ donation_list' = [donation_list EXCEPT ![t] = rest]
          /\ priority' = [priority EXCEPT ![t] = IF rest # <<>> THEN priority[Head(rest)] ELSE ori_priority[t]]
      BY <1>4, <2>1, <2>3 DEF TakeBack, Restored
    <3> HIDE DEF rest
    <3>2. ASSUME NEW x \in Threads
          PROVE  IF donation_list'[x] = <<>> THEN priority'[x] = base'[x] ELSE ori_priority'[x] = base'[x]
      <4>1. CASE x = t
        <5>1. donation_list'[x] = rest /\ (rest = <<>> => priority'[x] = ori_priority[x])
          BY <1>0, <3>1, <4>1
        <5>2. ori_priority[x] = base[x]
          BY <2>3, <4>1 DEF Saved
        <5> QED
          BY <2>2, <5>1, <5>2
      <4>2. CASE x # t
        BY <1>0, <2>2, <3>1, <4>2 DEF Saved
      <4> QED
        BY <4>1, <4>2
    <3> QED
      BY <3>2 DEF Saved
  <2>4. CASE ~ (donation_list[t] # <<>> /\ waiters[l] # <<>>)
    BY <1>4, <2>1, <2>2, <2>4, SavedKept DEF TakeBack
  <2> QED
    BY <2>3, <2>4
<1>5. ASSUME NEW t \in Threads, Sleep(t) \/ Wake(t) \/ Preempt(t) \/ Exit(t) \/ Acquire(t) \/ DonateBreaks(t)
                                \/ Down(t) \/ Own(t) \/ Release(t) \/ Up(t)
      PROVE  Saved'
  BY <1>5, SavedKept DEF Sleep, Wake, Preempt, Exit, Acquire, DonateBreaks, Down, Own, Release, Up, pris
<1>6. CASE UNCHANGED vars
  BY <1>6, SavedKept DEF vars, pris
<1>7. CASE Next
  BY <1>7, <1>1, <1>2, <1>3, <1>4, <1>5 DEF Next
<1> QED
  BY <1>6, <1>7

\* Nobody is put to sleep where threads do not sleep.
LEMMA AwakeStep ==
  ASSUME Lists, Owned, Awake, "sleep" \notin allowed, [Next]_vars
  PROVE  \A t \in Threads : pc'[t] # "asleep"
<1>0. pc \in [Threads -> {"new", "run", "asleep", "donate", "down", "blocked", "own",
                          "back", "up", "dead"}]
  BY DEF Lists, Types, TypeOK
<1>1. ASSUME NEW t \in Threads, Create(t) \/ Exit(t) \/ Acquire(t) \/ Donate(t) \/ Own(t)
                                \/ Release(t) \/ TakeBack(t)
      PROVE  \E u \in Threads : \E at \in {"run", "dead", "donate", "down", "back", "up"} :
                pc' = [pc EXCEPT ![u] = at]
  BY <1>1 DEF Create, Exit, Acquire, Donate, Own, Release, TakeBack, Goto
<1>2. ASSUME NEW t \in Threads, Down(t)
      PROVE  \E at \in {"blocked", "own"} : pc' = [pc EXCEPT ![t] = at]
  BY <1>2 DEF Down, Goto
<1>3. ASSUME NEW t \in Threads, Up(t)
      PROVE  \A x \in Threads : pc'[x] \in {"run", "down"} \/ pc'[x] = pc[x]
  BY <1>3 DEF Up, Resumed
<1>4. ASSUME NEW t \in Threads, Sleep(t) \/ Wake(t)
      PROVE  FALSE
  BY <1>4 DEF Sleep, Wake, Awake
<1>5. ASSUME NEW t \in Threads, SetPriority(t) \/ Preempt(t) \/ DonateBreaks(t)
      PROVE  pc' = pc
  BY <1>5 DEF SetPriority, Preempt, DonateBreaks
<1>6. \A t \in Threads : pc[t] # "asleep"
  BY DEF Awake
<1>7. CASE UNCHANGED vars
  BY <1>6, <1>7 DEF vars
<1>8. ASSUME NEW u \in Threads, NEW at, at # "asleep", pc' = [pc EXCEPT ![u] = at]
      PROVE  \A t \in Threads : pc'[t] # "asleep"
  BY <1>0, <1>6, <1>8
<1>9. ASSUME NEW t \in Threads, Create(t) \/ Exit(t) \/ Acquire(t) \/ Donate(t) \/ Own(t)
                                \/ Release(t) \/ TakeBack(t) \/ Down(t)
      PROVE  \A x \in Threads : pc'[x] # "asleep"
  <2>1. PICK u \in Threads, at \in {"run", "dead", "donate", "down", "back", "up", "blocked", "own"} :
          pc' = [pc EXCEPT ![u] = at]
    BY <1>1, <1>2, <1>9
  <2> QED
    BY <1>8, <2>1
<1>10. CASE Next
  BY <1>10, <1>3, <1>4, <1>5, <1>6, <1>9 DEF Next
<1> QED
  BY <1>7, <1>10

\* With one lock in use the holder is ready while another thread donates to it.
LEMMA OneLockStep ==
  ASSUME Lists, Owned, Calm, Awake, OneLockDonated, [Next]_vars
  PROVE  OneLockDonated'
<1>a. allowed' = allowed
  BY DEF Next, vars, Create, SetPriority, Sleep, Wake, Preempt, Exit, Acquire, Donate,
         DonateBreaks, Down, Own, Release, TakeBack, Up, Keep
<1> SUFFICES ASSUME NEW l \in Locks, allowed \subseteq {l, "set"}, NEW u \in Threads,
                    holder'[l] # None, wait_lock'[u] = l
             PROVE  priority'[u] <= priority'[holder'[l]]
  BY <1>a DEF OneLockDonated
<1>0. /\ pc \in [Threads -> {"new", "run", "asleep", "donate", "down", "blocked", "own",
                             "back", "up", "dead"}]
      /\ holder \in [Locks -> Threads \cup {None}]
      /\ wait_lock \in [Threads -> Locks \cup {None}]
      /\ priority \in [Threads -> Priorities] /\ Priorities \subseteq Nat
      /\ \A t \in Threads : pc[t] \in Inside => arg[t] = l
      /\ None \notin Threads \cup Locks /\ {"window", "sleep", "set"} \cap Locks = {}
  BY QueueNow, DonationAssumption DEF Lists, Types, TypeOK, Args
<1>1. Uninterrupted /\ Donors /\ \A t \in Threads : pc[t] # "asleep"
  BY <1>0 DEF Calm, Awake
<1>2. \A x \in Threads : wait_lock[x] = l => pc[x] \in {"blocked", "down"}
  BY <1>0, <1>1 DEF Donors
<1>3. holder[l] # None => \A x \in Threads : wait_lock[x] = l => priority[x] <= priority[holder[l]]
  BY DEF OneLockDonated
<1>4. ASSUME UNCHANGED <<holder, wait_lock, priority>>
      PROVE  priority'[u] <= priority'[holder'[l]]
  BY <1>3, <1>4
<1>5. ASSUME NEW t \in Threads, Sleep(t) \/ Wake(t) \/ Preempt(t) \/ Exit(t) \/ Acquire(t) \/ DonateBreaks(t)
                                \/ Down(t) \/ Up(t)
      PROVE  UNCHANGED <<holder, wait_lock, priority>>
  BY <1>5 DEF Sleep, Wake, Preempt, Exit, Acquire, DonateBreaks, Down, Up, pris, locks
<1>6. ASSUME NEW t \in Threads, SetPriority(t)
      PROVE  priority'[u] <= priority'[holder'[l]]
  <2>1. /\ cur = t /\ pc[t] = "run"
        /\ UNCHANGED <<holder, wait_lock>>
    BY <1>6 DEF SetPriority, Running, locks
  <2>2. PICK p \in Priorities :
          IF donation_list[t] = <<>> \/ p > priority[t]
          THEN priority' = [priority EXCEPT ![t] = p] ELSE priority' = priority
    BY <1>6 DEF SetPriority
  <2>3. PICK h \in Threads : h = holder[l]
    BY <1>0, <2>1
  <2>4. u # t /\ wait_lock[u] = l /\ priority[u] <= priority[h]
    BY <1>2, <1>3, <2>1, <2>3
  <2>5. donation_list[h] # <<>>
    <3>1. u \in ToSet(donation_list[h])
      BY <1>0, <1>1, <2>3, <2>4 DEF Donors, Gives
    <3> QED
      BY <3>1, EmptyQueue
  <2>6. priority[u] \in Nat /\ priority[h] \in Nat /\ p \in Nat
    BY <1>0
  <2>7. priority'[u] = priority[u] /\ (h # t => priority'[h] = priority[h])
    BY <1>0, <2>2, <2>4
  <2>8. h = t => priority'[h] = priority[h] \/ (priority'[h] = p /\ p > priority[h])
    BY <1>0, <2>2, <2>5
  <2>9. priority'[u] <= priority'[h]
    BY <2>4, <2>6, <2>7, <2>8
  <2> QED
    BY <2>1, <2>3, <2>9
<1>7. ASSUME NEW t \in Threads, Create(t)
      PROVE  priority'[u] <= priority'[holder'[l]]
  <2>1. PICK new \in Threads, p \in Priorities : pc[new] = "new" /\ priority' = [priority EXCEPT ![new] = p]
    BY <1>7 DEF Create
  <2>2. UNCHANGED <<holder, wait_lock>>
    BY <1>7 DEF Create, locks
  <2>3. holder[l] \in Threads /\ holder[l] # new /\ u # new
    BY <1>0, <1>2, <2>1, <2>2 DEF Owned
  <2>4. priority'[u] = priority[u] /\ priority'[holder[l]] = priority[holder[l]]
    BY <1>0, <2>1, <2>3
  <2> QED
    BY <1>3, <2>2, <2>4
<1>8. ASSUME NEW t \in Threads, Donate(t)
      PROVE  priority'[u] <= priority'[holder'[l]]
  <2>1. cur = t /\ pc[t] = "donate" /\ arg[t] = l /\ holder' = holder
    BY <1>0, <1>8 DEF Donate, Running, Inside, locks
  <2>2. PICK h \in Threads : h = holder[l]
    BY <1>0, <2>1
  <2>3. /\ wait_lock' = [wait_lock EXCEPT ![t] = l]
        /\ priority' = [x \in Threads |-> IF x \in Links(l) THEN priority[t] ELSE priority[x]]
    BY <1>8, <2>1 DEF Donate, Reached
  <2>4. h \in Links(l)
    <3>1. 0 \in 0 .. MaxDepth + 1
      BY DonationAssumption
    <3>2. Link(l)[0] = h
      <4>1. Link(l) = [i \in 0 .. MaxDepth + 1 |-> IF i = 0 THEN holder[l] ELSE Further(Link(l)[i - 1])]
        BY LinkRecursion
      <4> QED
        BY <2>2, <3>1, <4>1
    <3> QED
      BY <3>1, <3>2 DEF Links
  <2>5. priority'[h] = priority[t]
    BY <2>3, <2>4
  <2>6. priority[h] <= priority[t]
    <3>1. h # t /\ pc[h] \notin {"new", "dead", "asleep"}
      BY <1>1, <2>1, <2>2 DEF Owned
    <3>2. pc[h] # "blocked"
      BY <1>0, <2>2 DEF Owned, Inside
    <3>3. pc[h] \in Runnable
      BY <1>0, <3>1, <3>2 DEF Runnable
    <3>4. h \in Ready
      BY <2>1, <3>1, <3>3 DEF Lists, RunList
    <3> QED
      BY <2>1, <3>4 DEF Lists, Topmost
  <2>7. CASE u = t
    BY <1>0, <2>1, <2>2, <2>3, <2>5, <2>7
  <2>8. CASE u # t
    <3>1. wait_lock[u] = l
      BY <1>0, <2>3, <2>8
    <3>2. priority[u] <= priority[h]
      BY <1>3, <2>1, <2>2, <3>1
    <3>3. priority'[u] \in {priority[t], priority[u]}
      BY <2>3
    <3>4. priority[u] \in Nat /\ priority[h] \in Nat /\ priority[t] \in Nat
      BY <1>0
    <3>5. priority'[u] <= priority[t]
      BY <2>6, <3>2, <3>3, <3>4
    <3> QED
      BY <2>1, <2>2, <2>5, <3>5
  <2> QED
    BY <2>7, <2>8
<1>9. ASSUME NEW t \in Threads, Own(t)
      PROVE  FALSE
  <2>1. cur = t /\ pc[t] = "own" /\ arg[t] = l /\ wait_lock' = wait_lock
    BY <1>0, <1>9 DEF Own, Running, Inside, pris
  <2>2. PICK v \in Threads : Gives(u, v)
    BY <1>0, <1>1, <2>1 DEF Donors
  <2>3. holder[l] = v
    BY <1>1, <2>1, <2>2 DEF Gives, Uninterrupted
  <2> QED
    BY <1>0, <2>1, <2>3 DEF Owned
<1>10. ASSUME NEW t \in Threads, Release(t)
       PROVE  priority'[u] <= priority'[holder'[l]]
  <2>1. PICK m \in Locks : holder' = [holder EXCEPT ![m] = None]
    BY <1>10 DEF Release
  <2>2. holder'[l] = holder[l] /\ UNCHANGED <<wait_lock, priority>>
    BY <1>0, <1>10, <2>1 DEF Release, pris
  <2> QED
    BY <1>3, <2>2
<1>11. ASSUME NEW t \in Threads, TakeBack(t)
       PROVE  FALSE
  <2>1. pc[t] = "back" /\ arg[t] = l /\ holder' = holder
    BY <1>0, <1>11 DEF TakeBack, Running, Inside, locks
  <2> QED
    BY <2>1 DEF Owned
<1>12. CASE UNCHANGED vars
  BY <1>4, <1>12 DEF vars, pris, locks
<1>13. CASE Next
  <2>1. PICK t \in Threads :
          \/ Create(t) \/ SetPriority(t) \/ Sleep(t) \/ Wake(t) \/ Preempt(t) \/ Exit(t)
          \/ Acquire(t) \/ Donate(t) \/ DonateBreaks(t) \/ Down(t) \/ Own(t)
          \/ Release(t) \/ TakeBack(t) \/ Up(t)
    BY <1>13 DEF Next
  <2> QED
    BY <2>1, <1>4, <1>5, <1>6, <1>7, <1>8, <1>9, <1>10, <1>11
<1> QED
  BY <1>12, <1>13

\* The inductive invariant of prj1's locks.
LockInv ==
  Lists /\ Owned /\ NoneForgotten /\ Calm /\ Repayable /\ Awake /\ OneLockDonated

LEMMA LockInit == Init => LockInv
<1>1. SUFFICES ASSUME Init PROVE LockInv
  OBVIOUS
<1>2. Lists /\ Owned /\ NoneForgotten /\ Calm
  BY <1>1, ListsInit, OwnedInit, WaitsInit, CalmInit
<1>3. Repayable
  BY <1>1 DEF Init, Repayable, Saved
<1>4. Awake
  BY <1>1 DEF Init, Awake
<1>5. OneLockDonated
  BY <1>1 DEF Init, OneLockDonated
<1> QED
  BY <1>2, <1>3, <1>4, <1>5 DEF LockInv

LEMMA LockStep == LockInv /\ [Next]_vars => LockInv'
<1>1. SUFFICES ASSUME LockInv, [Next]_vars PROVE LockInv'
  OBVIOUS
<1>2. allowed' = allowed
  BY <1>1 DEF Next, vars, Create, SetPriority, Sleep, Wake, Preempt, Exit, Acquire, Donate,
              DonateBreaks, Down, Own, Release, TakeBack, Up, Keep
<1>3. Lists' /\ Owned' /\ NoneForgotten'
  BY <1>1, ListsStep, OwnedStep, WaitsStep DEF LockInv
<1>4. Calm'
  BY <1>1, <1>2, CalmStep DEF LockInv, Calm
<1>5. Repayable'
  BY <1>1, <1>2, SavedStep DEF LockInv, Calm, Repayable
<1>6. Awake'
  BY <1>1, <1>2, AwakeStep DEF LockInv, Awake
<1>7. OneLockDonated'
  BY <1>1, OneLockStep DEF LockInv
<1> QED
  BY <1>3, <1>4, <1>5, <1>6, <1>7 DEF LockInv

\* A thread that holds no lock and is not in lock_release has no donors.
LEMMA PaidBack ==
  ASSUME LockInv
  PROVE  Repaid
<1> SUFFICES ASSUME allowed \subseteq {"sleep"} \cup Locks, NEW t \in Threads,
                    pc[t] \in {"run", "asleep"}, \A l \in Locks : holder[l] # t
             PROVE  priority[t] = base[t] /\ donation_list[t] = <<>>
  BY DEF Repaid
<1>1. Saved /\ Donors
  BY DonationAssumption DEF LockInv, Calm, Repayable
<1>2. \A x \in Threads : ~ Gives(x, t)
  BY DEF Gives, LockInv, Lists, Types, TypeOK
<1>3. donation_list[t] \in Seq(Threads) /\ \A x \in Threads : x \notin ToSet(donation_list[t])
  BY <1>1, <1>2 DEF Donors, LockInv, Lists, Types
<1>4. ASSUME NEW s \in Seq(Threads), s # <<>> PROVE Head(s) \in ToSet(s) /\ Head(s) \in Threads
  <2>1. 1 \in DOMAIN s /\ Head(s) = s[1] /\ s[1] \in Threads
    BY <1>4
  <2> QED
    BY <2>1 DEF ToSet
<1>5. donation_list[t] = <<>>
  BY <1>3, <1>4
<1> QED
  BY <1>1, <1>5 DEF Saved

\* prj1's lock_acquire and lock_release: every lock has one owner at most at
\* whatever step of theirs, no thread waits for a free lock; where no interrupt
\* comes inside them, donation follows no null pointer, a thread without locks has
\* its own priority back, and where nobody sleeps the holder of an only lock is not
\* outranked by a recorded donor.
THEOREM LocksHold == Spec => []LocksRight
<1>1. LockInv => LocksRight
  <2>1. SUFFICES ASSUME LockInv PROVE LocksRight
    OBVIOUS
  <2>2. TypeOK /\ NoneForgotten /\ OneLockDonated
    BY <2>1 DEF LockInv, Lists, Types
  <2>3. OneOwner
    BY <2>1, OwnedCounts DEF LockInv
  <2>4. DonationDefined
    BY <2>1 DEF LockInv, Calm, Uninterrupted, DonationDefined
  <2>5. Repaid
    BY <2>1, PaidBack
  <2> QED
    BY <2>2, <2>3, <2>4, <2>5 DEF LocksRight
<1> QED
  BY <1>1, LockInit, LockStep, PTL DEF Spec
=============================================================================
