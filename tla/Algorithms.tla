---------------------------- MODULE Algorithms ----------------------------
(***************************************************************************)
(* Pure algorithms of the kernel library, checked against what they are    *)
(* documented to compute, for every input up to a bound: the merge sort    *)
(* and the other loops of list.c, the heap sort and the binary search of   *)
(* stdlib.c, memmove and strtok_r of string.c, and the division of         *)
(* arithmetic.c with words of W bits instead of 32.                        *)
(*                                                                         *)
(* A list is a sequence of elements <<key, place>>; less compares keys.    *)
(***************************************************************************)
EXTENDS Integers, SequencesExt, FiniteSets

CONSTANTS
  KeySet,  \* keys of elements; 0 is the delimiter in a string
  MaxLen,  \* bound: length of a list
  W        \* bits of a word

AlgorithmsAssumption == KeySet \subseteq Nat /\ 0 \in KeySet /\ MaxLen \in Nat /\ W \in Nat \ {0}

VARIABLES
  keys,    \* the list, array or string
  n, d     \* dividend and divisor

algoVars == <<keys, n, d>>

B == 2 ^ W
Inputs == UNION {[1..len -> KeySet] : len \in 0..MaxLen}

\* The inputs: a list, or two numbers of two words.
Init ==
  \/ keys \in Inputs /\ n = 0 /\ d = 1
  \/ keys = <<>> /\ n \in 0..(B*B - 1) /\ d \in 1..(B*B - 1)

Spec == Init /\ [][FALSE]_algoVars

Elems(s) == [i \in 1..Len(s) |-> <<s[i], i>>]
Less(a, b) == a[1] < b[1]
----------------------------------------------------------------------------
\* find_end_of_run: the end, exclusive, of the run at a in s before b.
EndOfRun(s, a, b) ==
  CHOOSE e \in (a+1)..b :
    (e = b \/ Less(s[e], s[e-1])) /\ \A f \in (a+1)..(e-1) : ~Less(s[f], s[f-1])

\* list_splice of the one element at m in front of a.
Spliced(s, a, m) == InsertAt(RemoveAt(s, m), a, s[m])

\* inplace_merge of the runs a..m-1 and m..b-1.
RECURSIVE Merged(_, _, _, _)
Merged(s, a, m, b) ==
  IF a = m \/ m = b THEN s
  ELSE IF ~Less(s[m], s[a]) THEN Merged(s, a + 1, m, b)
  ELSE Merged(Spliced(s, a, m), a + 1, m + 1, b)

\* One pass of list_sort from a on: the list, and the runs put out so far.
RECURSIVE Pass(_, _, _)
Pass(s, a, runs) ==
  LET end == Len(s) + 1 IN
  IF a = end THEN <<s, runs>>
  ELSE LET m == EndOfRun(s, a, end) IN
       IF m = end THEN <<s, runs + 1>>
       ELSE LET b == EndOfRun(s, m, end) IN Pass(Merged(s, a, m, b), b, runs + 1)

RECURSIVE ListSort(_)
ListSort(s) == LET p == Pass(s, 1, 0) IN IF p[2] > 1 THEN ListSort(p[1]) ELSE p[1]

\* list_unique from position i on.
RECURSIVE ListUnique(_, _)
ListUnique(s, i) ==
  IF i >= Len(s) THEN s
  ELSE IF ~Less(s[i], s[i+1]) /\ ~Less(s[i+1], s[i]) THEN ListUnique(RemoveAt(s, i + 1), i)
  ELSE ListUnique(s, i + 1)

\* list_max: a later element replaces the maximum only if it is greater.
ListMax(s) == FoldLeft(LAMBDA max, e : IF Less(max, e) THEN e ELSE max, s[1], Tail(s))
\* list_min, as well.
ListMin(s) == FoldLeft(LAMBDA min, e : IF Less(e, min) THEN e ELSE min, s[1], Tail(s))
----------------------------------------------------------------------------
Swapped(s, i, j) == [s EXCEPT ![i] = s[j], ![j] = s[i]]

\* heapify: float down the element at i in an array of cnt elements.
RECURSIVE Heapify(_, _, _)
Heapify(s, i, cnt) ==
  LET left == IF 2 * i <= cnt /\ s[2 * i] > s[i] THEN 2 * i ELSE i
      max == IF 2 * i + 1 <= cnt /\ s[2 * i + 1] > s[left] THEN 2 * i + 1 ELSE left
  IN  IF max = i THEN s ELSE Heapify(Swapped(s, i, max), max, cnt)

\* sort: build the heap, then take its top off cnt - 1 times.
HeapSort(s) ==
  LET cnt == Len(s)
      down(k) == [i \in 1..k |-> k + 1 - i]
      heap == FoldLeft(LAMBDA h, i : Heapify(h, i, cnt), s, down(cnt \div 2))
  IN  FoldLeft(LAMBDA h, i : IF i > 1 THEN Heapify(Swapped(h, 1, i), 1, i - 1) ELSE h, heap, down(cnt))

\* binary_search in first..last-1; 0 is null.
RECURSIVE BinarySearch(_, _, _, _)
BinarySearch(s, key, first, last) ==
  IF first >= last THEN 0
  ELSE LET middle == first + (last - first) \div 2 IN
       IF key < s[middle] THEN BinarySearch(s, key, first, middle)
       ELSE IF key > s[middle] THEN BinarySearch(s, key, middle + 1, last)
       ELSE middle
----------------------------------------------------------------------------
\* memmove copies the bytes from the front if it moves them down.
Moves(dst, src, size) == [i \in 1..size |-> IF dst < src THEN i - 1 ELSE size - i]
Memmove(s, dst, src, size) ==
  FoldLeft(LAMBDA m, i : [m EXCEPT ![dst + i] = m[src + i]], s, Moves(dst, src, size))

\* strtok_r: the tokens, as <<first, end>>, that calls return from i on.
RECURSIVE Tokens(_, _)
Tokens(s, i) ==
  LET from(j, p) == {k \in j..Len(s) : p = (s[k] = 0)}
      smallest(S) == CHOOSE x \in S : \A y \in S : x <= y
      starts == from(i, FALSE)
  IN  IF starts = {} THEN <<>>
      ELSE LET a == smallest(starts)
               e == smallest(from(a, TRUE) \cup {Len(s) + 1})
           IN  <<<<a, e>>>> \o Tokens(s, e + 1)
----------------------------------------------------------------------------
\* divl: a trap, here -1, unless the quotient fits a word.
Divl(num, den) == IF den = 0 \/ num \div den >= B THEN -1 ELSE num \div den

\* nlz of a word that is not 0.
Nlz(x) == CHOOSE k \in 0..(W-1) : x * 2^k < B /\ x * 2^(k+1) >= B

\* Mutant of Corrected: the estimate is taken as it is.
CorrectedNot(num, den, q) == q

\* The estimate is the quotient or one more; the test wraps at two words.
Corrected(num, den, q) == IF (num - (q - 1) * den) % (B*B) < den THEN q - 1 ELSE q

\* udiv64; -1 if divl traps.
UDiv(num, den) ==
  IF den < B
  THEN LET low == Divl((B * ((num \div B) % den)) + (num % B), den)
       IN  IF low = -1 THEN -1 ELSE low + B * ((num \div B) \div den)
  ELSE IF num < den THEN 0
  ELSE LET s == Nlz(den \div B)
           est == Divl(num \div 2, ((den * 2^s) % (B*B)) \div B)
       IN  IF est = -1 THEN -1 ELSE Corrected(num, den, est \div 2^(W - 1 - s))

\* umod64 returns one word.
UMod(num, den) == ((num - den * UDiv(num, den)) % (B*B)) % B

\* A number of two words read as signed, and back.
Signed(x) == IF 2 * x < B*B THEN x ELSE x - B*B
Wrapped(x) == x % (B*B)
Magnitude(x) == IF Signed(x) >= 0 THEN x ELSE Wrapped(-x)

\* sdiv64.
SDiv(num, den) ==
  LET q == UDiv(Magnitude(num), Magnitude(den))
  IN  IF (Signed(num) < 0) = (Signed(den) < 0) THEN q ELSE Wrapped(-q)
----------------------------------------------------------------------------
\* list_sort sorts, loses nothing and keeps equal elements in order, on
\* which the first-come order of threads of one priority rests; list_unique
\* then keeps the first of each key, and list_max and list_min
\* return the earliest of the greatest and of the least.
ListsRight ==
  LET s == ListSort(Elems(keys))
      u == ListUnique(s, 1)
  IN  /\ Range(s) = Range(Elems(keys)) /\ Len(s) = Len(keys)
      /\ \A i \in 1..(Len(s)-1) : s[i][1] < s[i+1][1] \/ (s[i][1] = s[i+1][1] /\ s[i][2] < s[i+1][2])
      /\ Range(u) = {e \in Range(s) : \A o \in Range(s) : o[1] = e[1] => e[2] <= o[2]}
      /\ Len(u) = Cardinality(Range(keys))
      /\ keys # <<>> => LET max == ListMax(Elems(keys)) IN
           \A e \in Range(s) : e[1] < max[1] \/ (e[1] = max[1] /\ max[2] <= e[2])
      /\ keys # <<>> => LET min == ListMin(Elems(keys)) IN
           \A e \in Range(s) : min[1] < e[1] \/ (e[1] = min[1] /\ min[2] <= e[2])

\* sort sorts every array, also of no or one element.
HeapSortRight ==
  LET s == HeapSort(keys)
  IN  /\ Len(s) = Len(keys)
      /\ \A i \in 1..(Len(s)-1) : s[i] <= s[i+1]
      /\ \A k \in KeySet : Cardinality({i \in DOMAIN s : s[i] = k}) =
                           Cardinality({i \in DOMAIN keys : keys[i] = k})

\* binary_search finds a key in a sorted array exactly if it is there.
SearchRight ==
  \A k \in KeySet :
    LET at == BinarySearch(HeapSort(keys), k, 1, Len(keys) + 1)
    IN  IF k \in Range(keys) THEN at # 0 /\ HeapSort(keys)[at] = k ELSE at = 0

\* memmove copies as if through a buffer, whichever way the areas overlap;
\* strtok_r returns the longest pieces without a delimiter, in order.
StringsRight ==
  /\ \A size \in 1..Len(keys) : \A dst, src \in 1..(Len(keys) - size + 1) :
       \A i \in 1..Len(keys) : Memmove(keys, dst, src, size)[i] =
         IF i \in dst..(dst + size - 1) THEN keys[src + i - dst] ELSE keys[i]
  /\ LET t == Tokens(keys, 1)
         inside == UNION {t[j][1]..(t[j][2] - 1) : j \in 1..Len(t)}
     IN  /\ inside = {i \in DOMAIN keys : keys[i] # 0}
         /\ \A j \in 1..(Len(t)-1) : t[j][2] < t[j+1][1]

\* udiv64 is the quotient for every dividend and divisor, never traps in
\* divl, and its estimate is never off by more than its correction;
\* a remainder is right if it fits the word that umod64 returns.
QuotientRight ==
  /\ UDiv(n, d) = n \div d
  /\ n % d < B => UMod(n, d) = n % d

\* sdiv64 truncates toward zero for all signs, the least number included.
SignedQuotientRight ==
  LET q == (IF Signed(n) < 0 THEN -Signed(n) ELSE Signed(n)) \div
           (IF Signed(d) < 0 THEN -Signed(d) ELSE Signed(d))
  IN  SDiv(n, d) = Wrapped(IF (Signed(n) < 0) = (Signed(d) < 0) THEN q ELSE -q)
=============================================================================
