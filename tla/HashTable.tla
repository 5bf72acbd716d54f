----------------------------- MODULE HashTable -----------------------------
(***************************************************************************)
(* The kernel's hash table: buckets that are lists, as many as a power of  *)
(* two, and a rehash after every insertion and deletion that brings their  *)
(* number to about one for BestElems elements unless memory is out.        *)
(***************************************************************************)
EXTENDS Integers, SequencesExt, FiniteSets

CONSTANTS
  Keys,        \* keys of the elements: what less and hash look at
  Copies,      \* elements of each key
  HashOf,      \* hash of each key
  MinBuckets,  \* the least number of buckets: 4 in the code
  BestElems    \* BEST_ELEMS_PER_BUCKET

HashAssumption ==
  /\ HashOf \in [Keys -> Nat] /\ BestElems \in Nat \ {0} /\ \E e \in 0..MinBuckets : MinBuckets = 2 ^ e

VARIABLES
  buckets,   \* the lists, from 0 to bucket_cnt - 1
  elemCnt,   \* elem_cnt
  stored     \* history: the elements put in and not taken out

hashVars == <<buckets, elemCnt, stored>>

Elements == Keys \X Copies
BucketCnt(b) == Cardinality(DOMAIN b)
Empty(n) == [i \in 0..(n-1) |-> <<>>]

Init == buckets = Empty(MinBuckets) /\ elemCnt = 0 /\ stored = {}

\* find_bucket masks the hash with the number of buckets less one.
Bucket(b, e) == HashOf[e[1]] % BucketCnt(b)

\* find_elem: the elements of the bucket with the key of e.
Found(b, e) == {o \in Range(b[Bucket(b, e)]) : o[1] = e[1]}
Without(b, e) == [b EXCEPT ![Bucket(b, e)] = SelectSeq(@, LAMBDA o : o # e)]
Pushed(b, e) == [b EXCEPT ![Bucket(b, e)] = <<e>> \o @]

\* The power of two at or below n: the low bits are turned off.
Ideal(n) ==
  LET wanted == IF n \div BestElems < MinBuckets THEN MinBuckets ELSE n \div BestElems
  IN  CHOOSE p \in {2 ^ e : e \in 0..wanted} : p <= wanted /\ wanted < 2 * p

\* The loop of rehash: bucket by bucket, each element to the front of its
\* new bucket.
Moved(b, n) ==
  LET order == FoldLeft(LAMBDA s, i : s \o b[i - 1], <<>>, [i \in 1..BucketCnt(b) |-> i])
  IN  FoldLeft(LAMBDA to, e : [to EXCEPT ![HashOf[e[1]] % n] = <<e>> \o @], Empty(n), order)

\* rehash of the table b with n elements; the allocation may fail.
Rehash(b, n) ==
  \/ buckets' = b
  \/ Ideal(n) # BucketCnt(b) /\ buckets' = Moved(b, Ideal(n))
----------------------------------------------------------------------------
\* hash_insert leaves an equal element where it is.
Insert(e) ==
  /\ e \notin stored
  /\ IF Found(buckets, e) = {}
     THEN /\ elemCnt' = elemCnt + 1 /\ stored' = stored \cup {e}
          /\ Rehash(Pushed(buckets, e), elemCnt + 1)
     ELSE Rehash(buckets, elemCnt) /\ UNCHANGED <<elemCnt, stored>>

\* hash_replace takes an equal element out.
Replace(e) ==
  LET old == Found(buckets, e)
      cleared == IF old = {} THEN buckets ELSE Without(buckets, CHOOSE o \in old : TRUE)
      n == elemCnt + 1 - Cardinality(old)
  IN  /\ e \notin stored
      /\ elemCnt' = n /\ stored' = (stored \ old) \cup {e}
      /\ Rehash(Pushed(cleared, e), n)

\* Mutant of Delete: the count stays.
DeleteUncounted(k) ==
  LET e == <<k, CHOOSE c \in Copies : TRUE>>
      old == Found(buckets, e)
  IN  /\ IF old = {} THEN Rehash(buckets, elemCnt) /\ UNCHANGED stored
         ELSE /\ stored' = stored \ old
              /\ Rehash(Without(buckets, CHOOSE o \in old : TRUE), elemCnt)
      /\ UNCHANGED elemCnt

\* hash_delete of whatever has the key.
Delete(k) ==
  LET e == <<k, CHOOSE c \in Copies : TRUE>>
      old == Found(buckets, e)
  IN  /\ old # {}
      /\ elemCnt' = elemCnt - 1 /\ stored' = stored \ old
      /\ Rehash(Without(buckets, CHOOSE o \in old : TRUE), elemCnt - 1)

\* hash_clear keeps the buckets.
Clear == buckets' = Empty(BucketCnt(buckets)) /\ elemCnt' = 0 /\ stored' = {}

Next == (\E e \in Elements : Insert(e) \/ Replace(e)) \/ (\E k \in Keys : Delete(k)) \/ Clear

Spec == Init /\ [][Next]_hashVars
----------------------------------------------------------------------------
\* Every part is of its type; the number of buckets is a power of two.
TypeOK ==
  /\ elemCnt \in Nat /\ stored \subseteq Elements
  /\ \E x \in 0..10 : DOMAIN buckets = 0..(2^x - 1)
  /\ BucketCnt(buckets) >= MinBuckets
  /\ \A i \in DOMAIN buckets : Range(buckets[i]) \subseteq Elements

\* hash_find finds every element that was put in, by its key, and nothing
\* else is in the table, however often it was rehashed, and whether or not
\* there was memory to do it; elem_cnt counts them.
FindsAll ==
  /\ elemCnt = Cardinality(stored)
  /\ \A e \in Elements : Found(buckets, e) = {s \in stored : s[1] = e[1]}
  /\ \A i \in DOMAIN buckets : IsInjective(buckets[i]) /\ Range(buckets[i]) \subseteq stored

\* No two elements of one key, whatever the order of insertions and
\* replacements.
KeysUnique == \A e, o \in UNION {Range(buckets[i]) : i \in DOMAIN buckets} : e[1] = o[1] => e = o
=============================================================================
