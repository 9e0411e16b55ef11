----------------------------- MODULE SortingProofs -----------------------------
(***************************************************************************)
(* qsort, for every array, every cutoff and every size of its stack: the   *)
(* scans stay inside their range, the stack does not fill up, and what it  *)
(* returns is the given array in order.                                    *)
(*                                                                         *)
(* All that qsort does to the array is to exchange two elements of the     *)
(* range at work of which the first is not the smaller one.  Such an       *)
(* exchange never puts two elements out of order that no range on the      *)
(* stack or at work holds both of, even where two ranges share an element, *)
(* as they do when the scans meet on it.  So Covered is kept: elements out *)
(* of order always lie together in a range that is still to be sorted.     *)
(***************************************************************************)
EXTENDS Sorting, SequenceTheorems, FiniteSetTheorems, TLAPS

-----------------------------------------------------------------------------
\* Elements out of order are both in some range of the set.
Apart(a, n, ranges) ==
  \A p, q \in 1..n :
    p < q => a[p] <= a[q] \/ \E r \in ranges : r[1] <= p /\ q <= r[2]

Pairs == Int \X Int
Waiting == {stack[k] : k \in 1..Len(stack)}
Working == run.at \notin {"pop", "done"}
Current == IF Working THEN {<<run.lo, run.hi>>} ELSE {}

Covered == Apart(arr, N, Waiting \cup Current)

Rearrangements(n) == {f \in [1..n -> 1..n] :
                        /\ \A p, q \in 1..n : f[p] = f[q] => p = q
                        /\ \A p \in 1..n : \E q \in 1..n : f[q] = p}

Rearranged == \E f \in Rearrangements(N) : \A k \in 1..N : arr[k] = asked[f[k]]

RangeKnown ==
  /\ run.at \in {"call"} => run.lo = 1 /\ run.hi = N /\ stack = <<>>
  /\ run.at \notin {"call", "pop", "done"} => 1 <= run.lo /\ run.lo <= run.hi /\ run.hi <= N
  /\ run.at \notin {"insert", "done"} => run.then = "pop"
  /\ run.at = "insert" /\ run.then = "done" => run.lo = 1 /\ run.hi = N

\* lo .. i is in order but for the element that moves.
Inserting ==
  run.at = "insert" =>
    /\ run.lo < run.i /\ run.i <= run.hi /\ run.lo <= run.j /\ run.j <= run.i
    /\ \A p, q \in run.lo .. run.i : p < q /\ q # run.j => arr[p] <= arr[q]

\* The three elements of the median as far as they are in order.
InMedian ==
  /\ run.at \in {"low", "high", "mid"} => run.lo < run.j /\ run.j < run.hi
  /\ run.at \in {"high", "mid"} => arr[run.lo] <= arr[run.j]
  /\ run.at = "mid" => arr[run.lo] <= arr[run.hi]

Scanning == run.at \in {"up", "down", "meet"}

\* What the cursors have passed is on its side of the pivot, and something ahead of
\* each stops it: the pivot in the first round, what was exchanged in the later ones.
Partitioned ==
  Scanning \/ run.at = "push" =>
    /\ run.lo <= run.i /\ run.i <= run.hi /\ run.lo <= run.j /\ run.j <= run.hi
    /\ \A k \in run.lo .. (run.i - 1) : arr[k] <= run.pivot
    /\ \A k \in (run.j + 1) .. run.hi : arr[k] >= run.pivot

Sentinels ==
  Scanning =>
    /\ \E k \in run.i .. run.hi : arr[k] >= run.pivot
    /\ \E k \in run.lo .. run.j : arr[k] <= run.pivot
    /\ \/ run.lo < run.i /\ run.j < run.hi
       \/ \E k \in (run.lo + 1) .. (run.hi - 1) :
            run.i <= k /\ k <= run.j /\ arr[k] = run.pivot
    /\ run.at \in {"down", "meet"} => arr[run.i] >= run.pivot
    /\ run.at = "meet" => arr[run.j] <= run.pivot

Met == run.at = "push" => run.lo < run.i /\ run.j < run.hi /\ run.j <= run.i

\* Each range is half as long as those below it, when a range is split.
Splitting == run.at \in {"low", "high", "mid", "up", "down", "meet", "push"}

Halved ==
  /\ \A k \in 1..Len(stack) : (Size(stack[k]) - 1) * 2^(k - 1) <= N - 1
  /\ \A k \in 1..Len(stack) : Size(stack[k]) > 0
  /\ run.at = "pop" => Len(stack) < StackSize
  /\ Splitting => /\ Len(stack) + 2 <= StackSize
                  /\ run.hi - run.lo + 1 >= Cutoff
                  /\ (run.hi - run.lo) * 2^Len(stack) <= N - 1
  /\ run.at = "insert" /\ run.then = "pop" => Len(stack) < StackSize

InOrder == run.at = "done" => \A p, q \in 1..N : p < q => arr[p] <= arr[q]

SortInv ==
  /\ SortTypeOK /\ Covered /\ Rearranged /\ RangeKnown /\ Inserting /\ InMedian
  /\ Partitioned /\ Sentinels /\ Met /\ Halved /\ StackBounded /\ InOrder

LEMMA SwapFacts ==
  ASSUME NEW a \in Seq(Int), NEW x \in 1..Len(a), NEW y \in 1..Len(a)
  PROVE  LET b == [a EXCEPT ![x] = a[y], ![y] = a[x]]
         IN /\ b \in Seq(Int) /\ Len(b) = Len(a)
            /\ b[x] = a[y] /\ b[y] = a[x]
            /\ \A k \in 1..Len(a) : k # x /\ k # y => b[k] = a[k]
<1> DEFINE c == [a EXCEPT ![x] = a[y]]
           b == [a EXCEPT ![x] = a[y], ![y] = a[x]]
<1>1. a[x] \in Int /\ a[y] \in Int
  BY ElementOfSeq
<1>2. /\ c \in Seq(Int) /\ Len(c) = Len(a)
      /\ \A k \in 1..Len(a) : c[k] = IF k = x THEN a[y] ELSE a[k]
  BY <1>1, ExceptSeq
<1>3. b = [c EXCEPT ![y] = a[x]]
  OBVIOUS
<1>4. /\ b \in Seq(Int) /\ Len(b) = Len(a)
      /\ \A k \in 1..Len(a) : b[k] = IF k = y THEN a[x] ELSE c[k]
  BY <1>1, <1>2, <1>3, ExceptSeq
<1> QED
  BY <1>2, <1>4

LEMMA SwapApart ==
  ASSUME NEW n \in Nat, NEW a \in [1..n -> Int], NEW b \in [1..n -> Int],
         NEW x \in 1..n, NEW y \in 1..n,
         b[x] = a[y], b[y] = a[x],
         \A k \in 1..n : k # x /\ k # y => b[k] = a[k],
         NEW ranges \in SUBSET Pairs, NEW lo \in Int, NEW hi \in Int,
         <<lo, hi>> \in ranges, lo <= x, x < y, y <= hi,
         a[x] >= a[y], Apart(a, n, ranges)
  PROVE  Apart(b, n, ranges)
<1>1. /\ \A k \in 1..n : a[k] \in Int /\ b[k] \in Int
      /\ \A s \in ranges : s[1] \in Int /\ s[2] \in Int
      /\ x \in Int /\ y \in Int
  BY DEF Pairs
<1> SUFFICES ASSUME NEW p \in 1..n, NEW q \in 1..n, p < q, ~(b[p] <= b[q]),
                    ~\E s \in ranges : s[1] <= p /\ q <= s[2]
             PROVE  FALSE
  BY DEF Apart
<1>2. /\ a[p] \in Int /\ a[q] \in Int /\ a[x] \in Int /\ a[y] \in Int
      /\ p \in Int /\ q \in Int /\ x \in Int /\ y \in Int
  BY <1>1
<1>3. p < lo \/ q > hi
  <2>1. ~(lo <= p /\ q <= hi)
    OBVIOUS
  <2> QED
    BY <1>2, <2>1
<1>4. a[p] <= a[q]
  BY DEF Apart
<1>5. CASE p # x /\ p # y /\ (q = x \/ q = y)
  <2>1. p < lo /\ p < x
    BY <1>2, <1>3, <1>5
  <2>2. a[p] <= a[x]
    <3>1. CASE q = x
      BY <1>4, <3>1
    <3>2. CASE q = y
      BY <1>2, <1>4, <1>5, <3>2
    <3> QED
      BY <1>5, <3>1, <3>2
  <2>3. CASE q = y
    BY <1>2, <1>5, <2>2, <2>3
  <2>4. CASE q = x
    <3>1. PICK s \in ranges : s[1] <= p /\ y <= s[2]
      BY <1>2, <1>5, <2>1, <2>4 DEF Apart
    <3>2. s[1] <= p /\ q <= s[2]
      BY <1>1, <1>2, <2>4, <3>1
    <3> QED
      BY <3>2
  <2> QED
    BY <1>5, <2>3, <2>4
<1>6. CASE q # x /\ q # y /\ (p = x \/ p = y)
  <2>1. q > hi /\ q > y
    BY <1>2, <1>3, <1>6
  <2>2. CASE p = x
    BY <1>2, <1>4, <1>6, <2>2
  <2>3. CASE p = y
    <3>1. PICK s \in ranges : s[1] <= x /\ q <= s[2]
      BY <1>2, <1>6, <2>1, <2>3 DEF Apart
    <3>2. s[1] <= p /\ q <= s[2]
      BY <1>1, <1>2, <2>3, <3>1
    <3> QED
      BY <3>2
  <2> QED
    BY <1>6, <2>2, <2>3
<1>7. CASE p # x /\ p # y /\ q # x /\ q # y
  BY <1>2, <1>4, <1>7
<1>8. CASE (p = x \/ p = y) /\ (q = x \/ q = y)
  BY <1>2, <1>3, <1>8
<1> QED
  BY <1>5, <1>6, <1>7, <1>8

LEMMA SwapRearranges ==
  ASSUME NEW n \in Nat, NEW f \in Rearrangements(n), NEW x \in 1..n, NEW y \in 1..n
  PROVE  \E g \in Rearrangements(n) :
           /\ g[x] = f[y] /\ g[y] = f[x]
           /\ \A k \in 1..n : k # x /\ k # y => g[k] = f[k]
<1>0. /\ f \in [1..n -> 1..n]
      /\ \A p, q \in 1..n : f[p] = f[q] => p = q
      /\ \A p \in 1..n : \E q \in 1..n : f[q] = p
  BY DEF Rearrangements
<1> DEFINE g == [k \in 1..n |-> IF k = x THEN f[y] ELSE IF k = y THEN f[x] ELSE f[k]]
<1>1. /\ g \in [1..n -> 1..n] /\ g[x] = f[y] /\ g[y] = f[x]
      /\ \A k \in 1..n : k # x /\ k # y => g[k] = f[k]
  BY <1>0
<1> HIDE DEF g
<1>2. ASSUME NEW p \in 1..n, NEW q \in 1..n, g[p] = g[q] PROVE p = q
  <2> DEFINE s(k) == IF k = x THEN y ELSE IF k = y THEN x ELSE k
  <2>1. g[p] = f[s(p)] /\ g[q] = f[s(q)] /\ s(p) \in 1..n /\ s(q) \in 1..n
    BY <1>1
  <2>2. s(p) = s(q)
    <3> HIDE DEF s
    <3> QED
      BY <1>0, <1>2, <2>1
  <2> QED
    BY <2>2
<1>3. ASSUME NEW p \in 1..n PROVE \E q \in 1..n : g[q] = p
  <2>1. PICK q \in 1..n : f[q] = p
    BY <1>0
  <2>2. g[IF q = x THEN y ELSE IF q = y THEN x ELSE q] = p
    BY <1>1, <2>1
  <2> QED
    BY <2>2
<1>4. g \in Rearrangements(n)
  BY <1>1, <1>2, <1>3 DEF Rearrangements
<1> QED
  BY <1>1, <1>4

LEMMA ArrayIs ==
  ASSUME SortTypeOK
  PROVE  /\ N \in Nat /\ arr \in [1..N -> Int] /\ \A k \in 1..N : arr[k] \in Int
         /\ Len(asked) = N /\ asked \in Seq(Int) /\ \A k \in 1..N : asked[k] \in Int
<1>1. asked \in Seq(Int) /\ arr \in Seq(Int) /\ N = Len(asked)
  BY SortAssumption DEF SortTypeOK
<1>2. N \in Nat /\ arr \in [1..N -> Int] /\ asked \in [1..N -> Int]
  BY <1>1, LenProperties DEF N
<1> QED
  BY <1>1, <1>2

\* What an exchange leaves as it is.
LEMMA Exchanges ==
  ASSUME SortTypeOK, Rearranged, NEW x \in 1..N, NEW y \in 1..N, arr' = Swapped(x, y),
         asked' = asked
  PROVE  /\ arr' \in Seq(Int) /\ N' = N /\ arr' \in [1..N -> Int]
         /\ arr'[x] = arr[y] /\ arr'[y] = arr[x]
         /\ \A k \in 1..N : k # x /\ k # y => arr'[k] = arr[k]
         /\ Rearranged'
<1>1. arr \in Seq(Int) /\ N = Len(arr) /\ N \in Nat
  BY ArrayIs DEF SortTypeOK, N
<1>2. /\ arr' \in Seq(Int) /\ Len(arr') = Len(arr)
      /\ arr'[x] = arr[y] /\ arr'[y] = arr[x]
      /\ \A k \in 1..N : k # x /\ k # y => arr'[k] = arr[k]
  BY <1>1, SwapFacts DEF Swapped
<1>3. N' = N
  BY <1>1, <1>2 DEF N
<1>4. arr' \in [1..N -> Int]
  BY <1>1, <1>2, LenProperties
<1>5. PICK f \in Rearrangements(N) : \A k \in 1..N : arr[k] = asked[f[k]]
  BY DEF Rearranged
<1>6. PICK g \in Rearrangements(N) :
        /\ g[x] = f[y] /\ g[y] = f[x]
        /\ \A k \in 1..N : k # x /\ k # y => g[k] = f[k]
  BY <1>1, SwapRearranges
<1>8. \A k \in 1..N : arr'[k] = asked[g[k]]
  <2>1. arr[x] = asked[f[x]] /\ arr[y] = asked[f[y]]
    BY <1>5
  <2> TAKE k \in 1..N
  <2>2. CASE k = x
    BY <1>2, <1>6, <2>1, <2>2
  <2>3. CASE k = y
    BY <1>2, <1>6, <2>1, <2>3
  <2>4. CASE k # x /\ k # y
    BY <1>2, <1>5, <1>6, <2>4
  <2> QED
    BY <2>2, <2>3, <2>4
<1>9. Rearranged'
  BY <1>3, <1>6, <1>8 DEF Rearranged
<1> QED
  BY <1>2, <1>3, <1>4, <1>9

\* What an array that stays as it is keeps.
LEMMA ArrayStays ==
  ASSUME arr' = arr, asked' = asked
  PROVE  /\ N' = N /\ Rearranged' = Rearranged
  BY DEF N, Rearranged

RunType == [at : {"call", "insert", "pop", "low", "high", "mid", "up", "down", "meet",
                  "push", "done"},
            then : {"pop", "done"}, lo : Nat, hi : Nat, i : Nat, j : Nat, pivot : Int]

LEMMA TypesAre ==
  ASSUME SortTypeOK
  PROVE  /\ run \in RunType /\ run.lo \in Nat /\ run.hi \in Nat /\ run.i \in Nat
         /\ run.j \in Nat /\ run.pivot \in Int
         /\ stack \in Seq((1..N) \X (1..N)) /\ Len(stack) \in Nat
         /\ \A k \in 1..Len(stack) : stack[k] \in (1..N) \X (1..N)
<1>1. run \in RunType
  BY DEF SortTypeOK, RunType
<1>2. stack \in Seq((1..N) \X (1..N))
  BY DEF SortTypeOK
<1>3. /\ run.lo \in Nat /\ run.hi \in Nat /\ run.i \in Nat
      /\ run.j \in Nat /\ run.pivot \in Int
  BY <1>1 DEF RunType
<1> QED
  BY <1>1, <1>2, <1>3, LenProperties, ElementOfSeq

LEMMA RangesArePairs ==
  ASSUME SortTypeOK
  PROVE  Waiting \cup Current \in SUBSET Pairs
<1>1. ASSUME NEW k \in 1..Len(stack) PROVE stack[k] \in Pairs
  <2>1. stack[k] \in (1..N) \X (1..N)
    BY TypesAre
  <2> QED
    BY <2>1 DEF Pairs
<1>2. <<run.lo, run.hi>> \in Pairs
  BY TypesAre DEF Pairs
<1> QED
  BY <1>1, <1>2 DEF Waiting, Current

\* A step at work on the same range with the same ranges waiting.
SameWork ==
  /\ Working /\ Working' /\ stack' = stack /\ asked' = asked
  /\ run'.lo = run.lo /\ run'.hi = run.hi

LEMMA SwapAtWork ==
  ASSUME SortTypeOK, Covered, Rearranged, SameWork,
         NEW x \in 1..N, NEW y \in 1..N, run.lo <= x, x < y, y <= run.hi, arr[x] >= arr[y],
         arr' = Swapped(x, y)
  PROVE  /\ arr' \in Seq(Int) /\ N' = N /\ Covered' /\ Rearranged'
         /\ arr'[x] = arr[y] /\ arr'[y] = arr[x]
         /\ \A k \in 1..N : k # x /\ k # y => arr'[k] = arr[k]
<1>1. /\ arr' \in Seq(Int) /\ N' = N /\ arr' \in [1..N -> Int] /\ Rearranged'
      /\ arr'[x] = arr[y] /\ arr'[y] = arr[x]
      /\ \A k \in 1..N : k # x /\ k # y => arr'[k] = arr[k]
  BY Exchanges DEF SameWork
<1>2. Waiting \cup Current \in SUBSET Pairs /\ <<run.lo, run.hi>> \in Waiting \cup Current
  BY RangesArePairs DEF SameWork, Current
<1>3. N \in Nat /\ arr \in [1..N -> Int] /\ run.lo \in Int /\ run.hi \in Int
  <2>1. N \in Nat /\ arr \in [1..N -> Int]
    BY ArrayIs
  <2>2. run.lo \in Nat /\ run.hi \in Nat
    BY TypesAre
  <2> QED
    BY <2>1, <2>2
<1>4. Apart(arr, N, Waiting \cup Current)
  BY DEF Covered
<1>5. Apart(arr', N, Waiting \cup Current)
  <2> DEFINE b == arr'
  <2>1. /\ b \in [1..N -> Int] /\ b[x] = arr[y] /\ b[y] = arr[x]
        /\ \A k \in 1..N : k # x /\ k # y => b[k] = arr[k]
    BY <1>1
  <2> HIDE DEF b
  <2>2. Apart(b, N, Waiting \cup Current)
    BY <1>2, <1>3, <1>4, <2>1, SwapApart
  <2> QED
    BY <2>2 DEF b
<1>6. Waiting' = Waiting /\ Current' = Current
  BY DEF SameWork, Waiting, Current
<1>7. Covered'
  BY <1>1, <1>5, <1>6 DEF Covered, Apart
<1> QED
  BY <1>1, <1>7

LEMMA RestAtWork ==
  ASSUME SortTypeOK, Covered, Rearranged, SameWork, arr' = arr
  PROVE  arr' \in Seq(Int) /\ N' = N /\ Covered' /\ Rearranged'
<1>1. Waiting' = Waiting /\ Current' = Current /\ N' = N /\ Rearranged'
  BY ArrayStays DEF SameWork, Waiting, Current
<1>2. Covered'
  BY <1>1 DEF Covered, Apart
<1> QED
  BY <1>1, <1>2 DEF SortTypeOK

\* The stack stays as it is while a range is split.
LEMMA SplitsOn ==
  ASSUME Halved, Splitting, Splitting', stack' = stack, N' = N, run'.lo = run.lo,
         run'.hi = run.hi
  PROVE  Halved'
<1>1. \A k : Size(stack[k])' = Size(stack[k])
  BY DEF Size
<1> QED
  BY <1>1 DEF Halved, Splitting, Size

LEMMA InitSorts == SortInit => SortInv
<1> SUFFICES ASSUME SortInit PROVE SortInv
  OBVIOUS
<1>1. /\ asked \in Arrays /\ arr = asked /\ stack = <<>> /\ asked \in Seq(Int)
      /\ run = [at |-> "call", then |-> "pop", lo |-> 1, hi |-> Len(asked), i |-> 1, j |-> 1,
                pivot |-> 0]
  BY SortAssumption DEF SortInit
<1>2. N \in Nat /\ N = Len(asked) /\ arr \in [1..N -> Int]
  BY <1>1, LenProperties DEF N
<1>3. run.at = "call" /\ run.then = "pop" /\ run.lo = 1 /\ run.hi = N
  BY <1>1, <1>2
<1>4. SortTypeOK
  BY <1>1, <1>2, SortAssumption, EmptySeq DEF SortTypeOK
<1>5. Covered
  <2>1. <<1, N>> \in Waiting \cup Current
    BY <1>3 DEF Current, Working
  <2> QED
    BY <1>2, <2>1 DEF Covered, Apart
<1>6. Rearranged
  <2> DEFINE f == [k \in 1..N |-> k]
  <2>1. f \in Rearrangements(N)
    BY DEF Rearrangements
  <2>2. \A k \in 1..N : arr[k] = asked[f[k]]
    BY <1>1
  <2> QED
    BY <2>1, <2>2 DEF Rearranged
<1>7. Len(stack) = 0
  BY <1>1, EmptySeq
<1>8. RangeKnown
  BY <1>1, <1>3 DEF RangeKnown
<1>9. Halved
  BY <1>3, <1>7 DEF Halved, Splitting
<1>10. Inserting /\ InMedian /\ Partitioned /\ Sentinels /\ Met /\ StackBounded /\ InOrder
  BY <1>3 DEF Inserting, InMedian, Partitioned, Sentinels, Met, StackBounded, InOrder, Scanning
<1> QED
  BY <1>4, <1>5, <1>6, <1>8, <1>9, <1>10 DEF SortInv

\* Where the code is not, nothing is claimed of it.
LEMMA Elsewhere ==
  /\ run.at # "insert" => Inserting
  /\ run.at \notin {"low", "high", "mid"} => InMedian
  /\ run.at \notin {"up", "down", "meet", "push"} => Partitioned
  /\ run.at \notin {"up", "down", "meet"} => Sentinels
  /\ run.at # "push" => Met
  /\ run.at # "done" => InOrder
  BY DEF Inserting, InMedian, Partitioned, Sentinels, Met, InOrder, Scanning

\* An insertion sort that begins, of a range or of the whole array.
LEMMA InsertionBegins ==
  ASSUME SortTypeOK, Rearranged, arr' = arr, asked' = asked,
         stack' \in Seq((1..N) \X (1..N)), Len(stack') <= StackSize,
         NEW lo \in 1..(N + 1), NEW hi \in 0..N, lo <= hi + 1, NEW then \in {"pop", "done"},
         InsertFrom(lo, hi, then),
         then = "done" => lo = 1 /\ hi = N,
         Apart(arr, N, Waiting' \cup {<<lo, hi>>}),
         (N >= Cutoff /\ N - 1 < (Cutoff - 1) * 2^(StackSize - 2)) => then = "pop",
         \A k \in 1..Len(stack') : (Size(stack'[k]) - 1) * 2^(k - 1) <= N - 1
                                   /\ Size(stack'[k]) > 0,
         then = "pop" => Len(stack') < StackSize
  PROVE  SortInv'
<1>1. N \in Nat /\ N' = N /\ Rearranged' /\ asked' \in Arrays /\ arr' \in Seq(Int)
      /\ N' = Len(asked')
  BY ArrayIs, ArrayStays DEF SortTypeOK
<1>2. run \in RunType
  BY TypesAre
<1>3. /\ run' \in RunType
      /\ run'.at = IF lo < hi THEN "insert" ELSE then
      /\ run'.lo = lo /\ run'.hi = hi /\ run'.i = lo + 1 /\ run'.j = lo + 1
      /\ run'.then = then
  <2> DEFINE place == IF lo < hi THEN "insert" ELSE then
  <2>1. /\ place \in {"insert", "pop", "done"}
        /\ lo \in Nat /\ hi \in Nat /\ lo + 1 \in Nat
    BY <1>1
  <2>2. run' = [run EXCEPT !.at = place, !.lo = lo, !.hi = hi, !.i = lo + 1, !.j = lo + 1,
                           !.then = then]
    BY DEF InsertFrom
  <2> HIDE DEF place
  <2>3. /\ run' \in RunType /\ run'.at = place
        /\ run'.lo = lo /\ run'.hi = hi /\ run'.i = lo + 1 /\ run'.j = lo + 1
        /\ run'.then = then
    BY <1>2, <2>1, <2>2 DEF RunType
  <2> QED
    BY <2>3 DEF place
<1>4. SortTypeOK'
  BY <1>1, <1>3 DEF SortTypeOK, RunType
<1>5. Covered'
  <2>1. CASE lo < hi
    <3>1. Waiting' \cup Current' = Waiting' \cup {<<lo, hi>>}
      BY <1>3, <2>1 DEF Current, Working
    <3> QED
      BY <1>1, <3>1 DEF Covered, Apart
  <2>2. CASE ~(lo < hi)
    <3> SUFFICES ASSUME NEW p \in 1..N, NEW q \in 1..N, p < q
                 PROVE  arr[p] <= arr[q] \/ \E r \in Waiting' : r[1] <= p /\ q <= r[2]
      BY <1>1 DEF Covered, Apart
    <3>1. ~(lo <= p /\ q <= hi)
      BY <1>1, <2>2
    <3>2. arr[p] <= arr[q] \/ \E r \in Waiting' \cup {<<lo, hi>>} : r[1] <= p /\ q <= r[2]
      BY DEF Apart
    <3> QED
      BY <3>1, <3>2
  <2> QED
    BY <2>1, <2>2
<1>6. RangeKnown'
  BY <1>1, <1>3 DEF RangeKnown
<1>7. Inserting'
  <2> SUFFICES ASSUME lo < hi PROVE Inserting'
    BY <1>3 DEF Inserting
  <2> SUFFICES ASSUME NEW p \in lo .. (lo + 1), NEW q \in lo .. (lo + 1), p < q, q # lo + 1
               PROVE  FALSE
    BY <1>1, <1>3 DEF Inserting
  <2> QED
    OBVIOUS
<1>8. Halved'
  BY <1>1, <1>3 DEF Halved, Splitting, Size
<1>9. StackBounded'
  BY <1>1, <1>3 DEF StackBounded
<1>10. InOrder'
  BY <1>1, <1>3 DEF InOrder
<1>11. InMedian' /\ Partitioned' /\ Sentinels' /\ Met'
  <2>1. run'.at \in {"insert", "pop", "done"}
    BY <1>3
  <2> QED
    BY <2>1 DEF InMedian, Partitioned, Sentinels, Met, Scanning
<1> QED
  BY <1>1, <1>4, <1>5, <1>6, <1>7, <1>8, <1>9, <1>10, <1>11 DEF SortInv
\* What every step at a range that goes on with the same waiting ranges keeps.
LEMMA GoesOn ==
  ASSUME SortTypeOK, StackBounded, run' \in RunType, arr' \in Seq(Int), N' = N,
         asked' = asked, stack' = stack, run'.then = run.then
  PROVE  SortTypeOK' /\ StackBounded'
<1>1. asked' \in Arrays /\ N' = Len(asked')
  BY DEF SortTypeOK
<1>2. stack' \in Seq((1..N') \X (1..N')) /\ Len(stack') <= StackSize
  BY DEF SortTypeOK
<1>3. SortTypeOK'
  BY <1>1, <1>2 DEF SortTypeOK, RunType
<1>4. StackBounded'
  BY DEF StackBounded
<1> QED
  BY <1>3, <1>4

\* One place of an insertion: what moved down is smaller than what it passed.
LEMMA MovesDown ==
  ASSUME NEW n \in Nat, NEW a \in [1..n -> Int], NEW b \in [1..n -> Int],
         NEW lo \in 1..n, NEW i \in 1..n, NEW j \in (lo + 1) .. i,
         b[j - 1] = a[j], b[j] = a[j - 1],
         \A k \in 1..n : k # j - 1 /\ k # j => b[k] = a[k],
         a[j - 1] > a[j],
         \A p, q \in lo .. i : p < q /\ q # j => a[p] <= a[q]
  PROVE  \A p, q \in lo .. i : p < q /\ q # j - 1 => b[p] <= b[q]
<1>1. \A k \in 1..n : a[k] \in Int /\ b[k] \in Int
  OBVIOUS
<1> SUFFICES ASSUME NEW p \in lo .. i, NEW q \in lo .. i, p < q, q # j - 1
             PROVE  b[p] <= b[q]
  OBVIOUS
<1>2. /\ p \in 1..n /\ q \in 1..n /\ j \in lo .. i /\ j - 1 \in lo .. i
      /\ j \in 1..n /\ j - 1 \in 1..n
  OBVIOUS
<1>3. CASE q = j
  <2>1. p = j - 1 \/ a[p] <= a[j - 1]
    BY <1>2, <1>3
  <2>2. p = j - 1 \/ b[p] = a[p]
    BY <1>2, <1>3
  <2> QED
    <3>1. /\ a[p] \in Int /\ a[j] \in Int /\ a[j - 1] \in Int
          /\ b[p] \in Int /\ b[j] \in Int
      BY <1>1, <1>2
    <3>2. CASE p = j - 1
      BY <1>3, <3>1, <3>2
    <3>3. CASE p # j - 1
      BY <1>3, <2>1, <2>2, <3>1, <3>3
    <3> QED
      BY <3>2, <3>3
<1>4. CASE q # j
  <2>1. b[q] = a[q]
    BY <1>2, <1>4
  <2>2. CASE p = j - 1
    <3>1. j < q
      BY <1>2, <1>4, <2>2
    <3>2. a[j] <= a[q]
      BY <1>2, <1>4, <3>1
    <3> QED
      BY <2>1, <2>2, <3>2
  <2>3. CASE p = j
    <3>1. j - 1 < q
      BY <1>2, <2>3
    <3>2. a[j - 1] <= a[q]
      BY <1>2, <1>4, <3>1
    <3> QED
      BY <2>1, <2>3, <3>2
  <2>4. CASE p # j - 1 /\ p # j
    BY <1>2, <1>4, <2>1, <2>4
  <2> QED
    BY <2>2, <2>3, <2>4
<1> QED
  BY <1>3, <1>4

LEMMA InsertKeeps == ASSUME SortInv, Insert PROVE SortInv'
<1> DEFINE lo == run.lo  hi == run.hi  i == run.i  j == run.j
<1>1. /\ SortTypeOK /\ Covered /\ Rearranged /\ RangeKnown /\ Inserting /\ Halved
      /\ StackBounded
  BY DEF SortInv
<1>2. run.at = "insert" /\ asked' = asked /\ stack' = stack
  BY DEF Insert
<1>3. /\ run \in RunType /\ arr \in [1..N -> Int] /\ \A k \in 1..N : arr[k] \in Int
  BY <1>1, TypesAre, ArrayIs
<1>4. /\ N \in Nat /\ lo \in Nat /\ hi \in Nat /\ i \in Nat /\ j \in Nat
      /\ 1 <= lo /\ lo < i /\ i <= hi /\ hi <= N /\ lo <= j /\ j <= i
  BY <1>1, <1>2, TypesAre, ArrayIs DEF RangeKnown, Inserting
<1>5. \A p, q \in lo .. i : p < q /\ q # j => arr[p] <= arr[q]
  BY <1>1, <1>2 DEF Inserting
<1>6. CASE run.j > run.lo /\ arr[run.j - 1] > arr[run.j]
  <2>1. arr' = Swapped(j - 1, j) /\ run' = [run EXCEPT !.j = j - 1]
    BY <1>6 DEF Insert
  <2>2. /\ run' \in RunType /\ run'.at = "insert" /\ run'.lo = lo /\ run'.hi = hi
        /\ run'.i = i /\ run'.j = j - 1 /\ run'.then = run.then
    <3>1. j - 1 \in Nat
      BY <1>4, <1>6
    <3> QED
      BY <1>2, <1>3, <2>1, <3>1 DEF RunType
  <2>3. SameWork
    BY <1>2, <2>2 DEF SameWork, Working
  <2>4. /\ j - 1 \in 1..N /\ j \in 1..N /\ lo <= j - 1 /\ j - 1 < j /\ j <= hi
        /\ arr[j - 1] >= arr[j]
    <3>1. j - 1 \in 1..N /\ j \in 1..N /\ lo <= j - 1 /\ j - 1 < j /\ j <= hi
      BY <1>4, <1>6
    <3>2. arr[j - 1] \in Int /\ arr[j] \in Int
      BY <1>3, <3>1
    <3> QED
      BY <1>6, <3>1, <3>2
  <2>5. /\ arr' \in Seq(Int) /\ N' = N /\ Covered' /\ Rearranged'
        /\ arr'[j - 1] = arr[j] /\ arr'[j] = arr[j - 1]
        /\ \A k \in 1..N : k # j - 1 /\ k # j => arr'[k] = arr[k]
    <3> HIDE DEF j
    <3>1. lo <= j - 1 /\ j <= hi
      BY <2>4
    <3> QED
      BY <1>1, <2>1, <2>3, <2>4, <3>1, SwapAtWork
  <2>6. SortTypeOK' /\ StackBounded'
    BY <1>1, <1>2, <2>2, <2>5, GoesOn
  <2>7. Inserting'
    <3> DEFINE b == arr'
    <3>1. b \in [1..N -> Int]
      BY <2>5, LenProperties DEF N
    <3>2. /\ b[j - 1] = arr[j] /\ b[j] = arr[j - 1] /\ arr[j - 1] > arr[j]
          /\ \A k \in 1..N : k # j - 1 /\ k # j => b[k] = arr[k]
      BY <1>6, <2>5
    <3>4. N \in Nat /\ lo \in 1..N /\ i \in 1..N /\ j \in (lo + 1) .. i
      BY <1>4, <1>6
    <3>3. \A p, q \in lo .. i : p < q /\ q # j - 1 => b[p] <= b[q]
      <4> HIDE DEF b, lo, i, j
      <4> QED
        BY <1>3, <1>5, <3>1, <3>2, <3>4, MovesDown
    <3> QED
      BY <1>4, <2>2, <2>4, <3>3 DEF Inserting
  <2>8. RangeKnown'
    BY <1>1, <1>2, <2>2, <2>5 DEF RangeKnown
  <2>9. Halved'
    BY <1>1, <1>2, <2>2, <2>5 DEF Halved, Splitting, Size
  <2> QED
    BY <2>2, <2>5, <2>6, <2>7, <2>8, <2>9, Elsewhere
       DEF SortInv, InMedian, Partitioned, Sentinels, Met, InOrder, Scanning
<1>7. CASE ~(run.j > run.lo /\ arr[run.j - 1] > arr[run.j])
  <2> DEFINE place == IF i < hi THEN "insert" ELSE run.then
  <2>1. arr' = arr /\ run' = [run EXCEPT !.at = place, !.i = i + 1, !.j = i + 1]
    BY <1>7 DEF Insert
  <2>2. /\ run' \in RunType /\ run'.at = place /\ run'.lo = lo /\ run'.hi = hi
        /\ run'.i = i + 1 /\ run'.j = i + 1 /\ run'.then = run.then
    <3>1. i + 1 \in Nat /\ place \in {"insert", "pop", "done"}
      BY <1>3, <1>4 DEF RunType
    <3> HIDE DEF place
    <3> QED
      BY <1>3, <2>1, <3>1 DEF RunType
  <2>3. N' = N /\ Rearranged' /\ arr' \in Seq(Int)
    BY <1>1, <1>2, <2>1, ArrayStays DEF SortTypeOK
  <2>4. SortTypeOK' /\ StackBounded'
    BY <1>1, <1>2, <2>2, <2>3, GoesOn
  <2>5. ASSUME NEW p \in lo .. i, NEW q \in lo .. i, p < q PROVE arr[p] <= arr[q]
    <3>1. CASE q # j
      BY <1>5, <2>5, <3>1
    <3>2. CASE q = j
      <4>1. j > lo /\ arr[j - 1] <= arr[j] /\ j - 1 \in lo .. i /\ j - 1 # j
        <5>1. j > lo /\ j - 1 \in lo .. i /\ j - 1 \in 1..N /\ j \in 1..N
          BY <1>4, <2>5, <3>2
        <5>2. arr[j - 1] \in Int /\ arr[j] \in Int
          BY <1>3, <5>1
        <5> QED
          BY <1>7, <5>1, <5>2
      <4>2. p = j - 1 \/ (p < j - 1 /\ arr[p] <= arr[j - 1])
        <5>1. p <= j - 1
          BY <1>4, <2>5, <3>2
        <5>2. p < j - 1 => arr[p] <= arr[j - 1]
          BY <1>5, <4>1
        <5> QED
          BY <1>4, <5>1, <5>2
      <4>3. p \in 1..N /\ j \in 1..N /\ j - 1 \in 1..N
        BY <1>4, <2>5, <4>1
      <4>4. arr[p] \in Int /\ arr[j] \in Int /\ arr[j - 1] \in Int
        BY <1>3, <4>3
      <4> QED
        BY <3>2, <4>1, <4>2, <4>4
    <3> QED
      BY <3>1, <3>2
  <2>6. CASE i < hi
    <3>1. SameWork
      BY <1>2, <2>2, <2>6 DEF SameWork, Working
    <3>2. Covered'
      BY <1>1, <2>1, <3>1, RestAtWork
    <3>3. Inserting'
      <4> SUFFICES ASSUME NEW p \in lo .. (i + 1), NEW q \in lo .. (i + 1), p < q, q # i + 1
                   PROVE  arr[p] <= arr[q]
        BY <1>4, <2>1, <2>2, <2>6 DEF Inserting
      <4>1. p \in lo .. i /\ q \in lo .. i
        BY <1>4
      <4> QED
        BY <2>5, <4>1
    <3>4. RangeKnown'
      BY <1>1, <1>2, <2>2, <2>3, <2>6 DEF RangeKnown
    <3>5. Halved'
      BY <1>1, <1>2, <2>2, <2>3, <2>6 DEF Halved, Splitting, Size
    <3> QED
      BY <2>2, <2>3, <2>4, <2>6, <3>2, <3>3, <3>4, <3>5
         DEF SortInv, InMedian, Partitioned, Sentinels, Met, InOrder, Scanning
  <2>7. CASE ~(i < hi)
    <3>1. i = hi /\ run'.at = run.then /\ run.then \in {"pop", "done"}
      BY <1>3, <1>4, <2>2, <2>7 DEF RunType
    <3>2. Covered'
      <4>1. Waiting' = Waiting /\ Current' = {}
        BY <1>2, <3>1 DEF Waiting, Current, Working
      <4> SUFFICES ASSUME NEW p \in 1..N, NEW q \in 1..N, p < q
                   PROVE  arr[p] <= arr[q] \/ \E r \in Waiting : r[1] <= p /\ q <= r[2]
        BY <2>1, <2>3, <4>1 DEF Covered, Apart
      <4>2. arr[p] <= arr[q] \/ \E r \in Waiting \cup {<<lo, hi>>} : r[1] <= p /\ q <= r[2]
        BY <1>1, <1>2 DEF Covered, Apart, Current, Working
      <4>3. lo <= p /\ q <= hi => arr[p] <= arr[q]
        BY <1>4, <2>5, <3>1
      <4> QED
        BY <4>2, <4>3
    <3>3. RangeKnown'
      BY <1>1, <1>2, <2>2, <2>3, <3>1 DEF RangeKnown
    <3>4. Halved'
      BY <1>1, <1>2, <2>2, <2>3, <3>1 DEF Halved, Splitting, Size
    <3>5. InOrder'
      <4> SUFFICES ASSUME run.then = "done" PROVE \A p, q \in 1..N : p < q => arr[p] <= arr[q]
        BY <2>1, <2>3, <3>1 DEF InOrder
      <4>1. lo = 1 /\ i = N
        BY <1>1, <1>2, <3>1 DEF RangeKnown
      <4> QED
        BY <2>5, <4>1
    <3> QED
      BY <2>2, <2>3, <2>4, <3>1, <3>2, <3>3, <3>4, <3>5
         DEF SortInv, Inserting, InMedian, Partitioned, Sentinels, Met, Scanning
  <2> QED
    BY <2>6, <2>7
<1> QED
  BY <1>6, <1>7

\* Two elements of the range are put in order.
LEMMA Ordered ==
  ASSUME SortTypeOK, Covered, Rearranged, SameWork,
         NEW x \in 1..N, NEW y \in 1..N, run.lo <= x, x < y, y <= run.hi,
         arr' = IF arr[x] > arr[y] THEN Swapped(x, y) ELSE arr
  PROVE  /\ arr' \in Seq(Int) /\ N' = N /\ Covered' /\ Rearranged'
         /\ \A k \in 1..N : arr'[k] \in Int
         /\ arr'[x] <= arr'[y] /\ arr'[x] <= arr[x]
         /\ arr'[x] \in {arr[x], arr[y]} /\ arr'[y] \in {arr[x], arr[y]}
         /\ \A k \in 1..N : k # x /\ k # y => arr'[k] = arr[k]
<1>1. arr[x] \in Int /\ arr[y] \in Int /\ \A k \in 1..N : arr[k] \in Int
  BY ArrayIs
<1>2. CASE arr[x] > arr[y]
  <2>1. arr[x] >= arr[y] /\ arr' = Swapped(x, y)
    BY <1>1, <1>2
  <2>2. /\ arr' \in Seq(Int) /\ N' = N /\ Covered' /\ Rearranged'
        /\ arr'[x] = arr[y] /\ arr'[y] = arr[x]
        /\ \A k \in 1..N : k # x /\ k # y => arr'[k] = arr[k]
    BY <2>1, SwapAtWork
  <2>3. \A k \in 1..N : arr'[k] \in Int
    BY <1>1, <2>2
  <2> QED
    BY <1>1, <1>2, <2>2, <2>3
<1>3. CASE ~(arr[x] > arr[y])
  <2>1. arr' = arr
    BY <1>3
  <2>2. arr' \in Seq(Int) /\ N' = N /\ Covered' /\ Rearranged'
    BY <2>1, RestAtWork
  <2> QED
    BY <1>1, <1>3, <2>1, <2>2
<1> QED
  BY <1>2, <1>3

\* What the steps that split a range have in common.
LEMMA SplitKnown ==
  ASSUME SortInv, Splitting
  PROVE  /\ N \in Nat /\ run.lo \in Nat /\ run.hi \in Nat /\ run.i \in Nat /\ run.j \in Nat
         /\ run.pivot \in Int /\ 1 <= run.lo /\ run.lo <= run.hi /\ run.hi <= N
         /\ run.then = "pop" /\ Working /\ run \in RunType
         /\ Cutoff \in Nat /\ Cutoff >= 3 /\ run.hi - run.lo + 1 >= Cutoff
<1>1. SortTypeOK /\ RangeKnown /\ Halved
  BY DEF SortInv
<1>2. 1 <= run.lo /\ run.lo <= run.hi /\ run.hi <= N /\ run.then = "pop" /\ Working
  BY <1>1 DEF Splitting, RangeKnown, Working
<1>3. run.hi - run.lo + 1 >= Cutoff
  BY <1>1 DEF Halved
<1> QED
  BY <1>1, <1>2, <1>3, TypesAre, ArrayIs, SortAssumption

\* A step that goes on splitting.
LEMMA SplittingKeeps ==
  ASSUME SortInv, Splitting, Splitting', SameWork, run' \in RunType, arr' \in Seq(Int),
         N' = N, run'.then = run.then, Covered', Rearranged',
         InMedian', Partitioned', Sentinels', Met'
  PROVE  SortInv'
<1>1. SortTypeOK /\ StackBounded /\ RangeKnown /\ Halved
  BY DEF SortInv
<1>2. asked' = asked /\ stack' = stack /\ run'.lo = run.lo /\ run'.hi = run.hi
  BY DEF SameWork
<1>3. SortTypeOK' /\ StackBounded'
  BY <1>1, <1>2, GoesOn
<1>4. Halved'
  BY <1>1, <1>2, SplitsOn
<1>5. run'.at \notin {"call", "pop", "done", "insert"}
  BY DEF Splitting
<1>6. RangeKnown'
  BY <1>2, <1>5, SplitKnown DEF RangeKnown
<1>7. Inserting' /\ InOrder'
  BY <1>5 DEF Inserting, InOrder
<1> QED
  BY <1>3, <1>4, <1>6, <1>7 DEF SortInv

LEMMA MedianKeeps == ASSUME SortInv, MedianOfThree PROVE SortInv'
<1> DEFINE lo == run.lo  hi == run.hi  j == run.j
<1>1. run.at \in {"low", "high", "mid"} /\ asked' = asked /\ stack' = stack
  BY DEF MedianOfThree, Arrange
<1>2. SortTypeOK /\ Covered /\ Rearranged /\ InMedian /\ Splitting
  BY <1>1 DEF SortInv, Splitting
<1>3. /\ lo \in 1..N /\ hi \in 1..N /\ j \in 1..N /\ lo < j /\ j < hi /\ lo < hi
      /\ lo <= lo /\ lo <= j /\ j <= hi /\ hi <= hi
  BY <1>1, <1>2, SplitKnown DEF InMedian
<1>4. /\ run \in RunType /\ Working /\ arr[lo] \in Int /\ arr[hi] \in Int /\ arr[j] \in Int
  BY <1>2, <1>3, SplitKnown, ArrayIs
<1>5. ASSUME NEW at \in {"high", "mid"}, Proceed(at)
      PROVE  /\ run' \in RunType /\ run'.at = at /\ run'.lo = lo /\ run'.hi = hi
             /\ run'.j = j /\ run'.then = run.then /\ Splitting' /\ SameWork
             /\ Partitioned' /\ Sentinels' /\ Met'
  <2>1. /\ run' \in RunType /\ run'.at = at /\ run'.lo = lo /\ run'.hi = hi
        /\ run'.j = j /\ run'.then = run.then
    BY <1>4, <1>5 DEF Proceed, RunType
  <2> QED
    BY <1>1, <1>4, <2>1
       DEF Splitting, SameWork, Working, Partitioned, Sentinels, Met, Scanning
<1>6. CASE Arrange("low", run.lo, run.j, Proceed("high"))
  <2>1. Proceed("high") /\ arr' = IF arr[lo] > arr[j] THEN Swapped(lo, j) ELSE arr
    BY <1>6 DEF Arrange
  <2>2. /\ run' \in RunType /\ run'.at = "high" /\ run'.lo = lo /\ run'.hi = hi
        /\ run'.j = j /\ run'.then = run.then /\ Splitting' /\ SameWork
        /\ Partitioned' /\ Sentinels' /\ Met'
    BY <1>5, <2>1
  <2>3. arr' \in Seq(Int) /\ N' = N /\ Covered' /\ Rearranged' /\ arr'[lo] <= arr'[j]
    BY <1>2, <1>3, <2>1, <2>2, Ordered
  <2>4. InMedian'
    BY <1>3, <2>2, <2>3 DEF InMedian
  <2> QED
    BY <1>2, <2>2, <2>3, <2>4, SplittingKeeps
<1>7. CASE Arrange("high", run.lo, run.hi, Proceed("mid"))
  <2>1. /\ run.at = "high" /\ Proceed("mid")
        /\ arr' = IF arr[lo] > arr[hi] THEN Swapped(lo, hi) ELSE arr
    BY <1>7 DEF Arrange
  <2>2. /\ run' \in RunType /\ run'.at = "mid" /\ run'.lo = lo /\ run'.hi = hi
        /\ run'.j = j /\ run'.then = run.then /\ Splitting' /\ SameWork
        /\ Partitioned' /\ Sentinels' /\ Met'
    BY <1>5, <2>1
  <2>3. /\ arr' \in Seq(Int) /\ N' = N /\ Covered' /\ Rearranged'
        /\ arr'[lo] \in Int /\ arr'[lo] <= arr'[hi] /\ arr'[lo] <= arr[lo]
        /\ \A k \in 1..N : k # lo /\ k # hi => arr'[k] = arr[k]
    BY <1>2, <1>3, <2>1, <2>2, Ordered
  <2>4. arr[lo] <= arr[j] /\ arr'[j] = arr[j]
    BY <1>2, <1>3, <2>1, <2>3 DEF InMedian
  <2>5. arr'[lo] <= arr'[j]
    BY <1>4, <2>3, <2>4
  <2>6. InMedian'
    BY <1>3, <2>2, <2>3, <2>5 DEF InMedian
  <2> QED
    BY <1>2, <2>2, <2>3, <2>6, SplittingKeeps
<1>8. CASE Arrange("mid", run.j, run.hi,
                 run' = [run EXCEPT !.at = "up", !.i = run.lo, !.j = run.hi,
                                    !.pivot = arr'[run.j]])
  <2>1. /\ run.at = "mid"
        /\ arr' = IF arr[j] > arr[hi] THEN Swapped(j, hi) ELSE arr
        /\ run' = [run EXCEPT !.at = "up", !.i = lo, !.j = hi, !.pivot = arr'[j]]
    BY <1>8 DEF Arrange
  <2>2. /\ run'.at = "up" /\ run'.lo = lo /\ run'.hi = hi /\ run'.i = lo
        /\ run'.j = hi /\ run'.then = run.then /\ run'.pivot = arr'[j]
    BY <1>4, <2>1 DEF RunType
  <2>3. Splitting' /\ SameWork
    BY <1>1, <1>4, <2>2 DEF Splitting, SameWork, Working
  <2>4. /\ arr' \in Seq(Int) /\ N' = N /\ Covered' /\ Rearranged'
        /\ arr'[j] \in Int /\ arr'[j] <= arr'[hi] /\ arr'[j] \in {arr[j], arr[hi]}
        /\ \A k \in 1..N : k # j /\ k # hi => arr'[k] = arr[k]
    BY <1>2, <1>3, <2>1, <2>3, Ordered
  <2>5. run' \in RunType
    <3>1. lo \in Nat /\ hi \in Nat
      BY <1>2, SplitKnown
    <3> QED
      BY <1>4, <2>1, <2>4, <3>1 DEF RunType
  <2>6. arr[lo] <= arr[j] /\ arr[lo] <= arr[hi] /\ arr'[lo] = arr[lo]
    BY <1>2, <1>3, <2>1, <2>4 DEF InMedian
  <2>7. arr'[lo] <= arr'[j]
    BY <2>4, <2>6
  <2>8. Partitioned'
    <3>1. lo .. (lo - 1) = {} /\ (hi + 1) .. hi = {}
      BY <1>3
    <3> QED
      BY <1>3, <2>2, <3>1 DEF Partitioned
  <2>9. Sentinels'
    <3>1. /\ j \in lo .. hi /\ j \in (lo + 1) .. (hi - 1)
          /\ arr'[j] <= arr'[j] /\ arr'[j] >= arr'[j]
      BY <1>3, <2>4
    <3> QED
      BY <1>3, <2>2, <3>1 DEF Sentinels
  <2>10. InMedian' /\ Met'
    BY <2>2 DEF InMedian, Met
  <2> QED
    BY <1>2, <2>2, <2>3, <2>4, <2>5, <2>8, <2>9, <2>10, SplittingKeeps
<1> QED
  BY <1>6, <1>7, <1>8 DEF MedianOfThree

\* What holds of the cursors while the scans run, named for the steps below.
LEMMA ScanKnown ==
  ASSUME SortInv, Scanning
  PROVE  /\ run.lo <= run.i /\ run.i <= run.hi /\ run.lo <= run.j /\ run.j <= run.hi
         /\ run.i \in 1..N /\ run.j \in 1..N /\ arr[run.i] \in Int /\ arr[run.j] \in Int
         /\ \A k \in 1..N : arr[k] \in Int
         /\ \A k \in run.lo .. (run.i - 1) : arr[k] <= run.pivot
         /\ \A k \in (run.j + 1) .. run.hi : arr[k] >= run.pivot
         /\ \E k \in run.i .. run.hi : arr[k] >= run.pivot
         /\ \E k \in run.lo .. run.j : arr[k] <= run.pivot
         /\ \/ run.lo < run.i /\ run.j < run.hi
            \/ \E k \in (run.lo + 1) .. (run.hi - 1) :
                 run.i <= k /\ k <= run.j /\ arr[k] = run.pivot
<1>1. SortTypeOK /\ Partitioned /\ Sentinels /\ Splitting
  BY DEF SortInv, Scanning, Splitting
<1>2. run.lo <= run.i /\ run.i <= run.hi /\ run.lo <= run.j /\ run.j <= run.hi
  BY <1>1 DEF Partitioned
<1>3. run.i \in 1..N /\ run.j \in 1..N
  BY <1>1, <1>2, SplitKnown
<1>4. /\ \A k \in run.lo .. (run.i - 1) : arr[k] <= run.pivot
      /\ \A k \in (run.j + 1) .. run.hi : arr[k] >= run.pivot
  BY <1>1 DEF Partitioned
<1>5. /\ \E k \in run.i .. run.hi : arr[k] >= run.pivot
      /\ \E k \in run.lo .. run.j : arr[k] <= run.pivot
      /\ \/ run.lo < run.i /\ run.j < run.hi
         \/ \E k \in (run.lo + 1) .. (run.hi - 1) :
              run.i <= k /\ k <= run.j /\ arr[k] = run.pivot
  BY <1>1 DEF Sentinels
<1> QED
  BY <1>1, <1>2, <1>3, <1>4, <1>5, ArrayIs

LEMMA ScanUpKeeps == ASSUME SortInv, ScanUp PROVE SortInv'
<1> DEFINE lo == run.lo  hi == run.hi  i == run.i  j == run.j  pivot == run.pivot
<1>1. run.at = "up" /\ asked' = asked /\ stack' = stack /\ arr' = arr
  BY DEF ScanUp
<1>2. SortTypeOK /\ Covered /\ Rearranged /\ Splitting /\ Scanning
  BY <1>1 DEF SortInv, Splitting, Scanning
<1>3. /\ lo \in Nat /\ hi \in Nat /\ i \in Nat /\ j \in Nat /\ pivot \in Int
      /\ lo <= i /\ i <= hi /\ lo <= j /\ j <= hi /\ arr[i] \in Int /\ i \in 1..N
  BY <1>2, ScanKnown, SplitKnown
<1>4. run \in RunType /\ Working
  BY <1>2, SplitKnown
<1>5. PICK e \in i .. hi : arr[e] >= pivot
  BY <1>2, ScanKnown
<1>6. CASE arr[run.i] < run.pivot
  <2>1. run' = [run EXCEPT !.i = i + 1]
    BY <1>6 DEF ScanUp
  <2>2. /\ run' \in RunType /\ run'.at = "up" /\ run'.lo = lo /\ run'.hi = hi /\ run'.i = i + 1
        /\ run'.j = j /\ run'.then = run.then /\ run'.pivot = pivot
    <3>1. i + 1 \in Nat
      BY <1>3
    <3> QED
      BY <1>1, <1>4, <2>1, <3>1 DEF RunType
  <2>3. Splitting' /\ SameWork
    BY <1>1, <1>4, <2>2 DEF Splitting, SameWork, Working
  <2>4. arr' \in Seq(Int) /\ N' = N /\ Covered' /\ Rearranged'
    BY <1>1, <1>2, <2>3, RestAtWork
  <2>5. e # i /\ e \in (i + 1) .. hi /\ i + 1 <= hi
    <3>1. e # i
      BY <1>3, <1>5, <1>6
    <3> QED
      BY <1>3, <3>1
  <2>6. Partitioned'
    <3>1. ASSUME NEW k \in lo .. i PROVE arr[k] <= pivot
      <4>1. CASE k = i
        BY <1>3, <1>6, <4>1
      <4>2. CASE k # i
        <5>1. k \in lo .. (i - 1)
          BY <1>3, <4>2
        <5> QED
          BY <1>2, <5>1, ScanKnown
      <4> QED
        BY <4>1, <4>2
    <3>2. \A k \in (j + 1) .. hi : arr[k] >= pivot
      BY <1>2, ScanKnown
    <3>3. lo <= i + 1 /\ (i + 1) - 1 = i
      BY <1>3
    <3> QED
      BY <1>1, <1>3, <2>2, <2>5, <3>1, <3>2, <3>3 DEF Partitioned
  <2>7. Sentinels'
    <3>1. \E k \in lo .. j : arr[k] <= pivot
      BY <1>2, ScanKnown
    <3>2. \/ lo < i + 1 /\ j < hi
          \/ \E k \in (lo + 1) .. (hi - 1) : i + 1 <= k /\ k <= j /\ arr[k] = pivot
      <4>1. CASE lo < i /\ j < hi
        BY <1>3, <4>1
      <4>2. CASE \E k \in (lo + 1) .. (hi - 1) : i <= k /\ k <= j /\ arr[k] = pivot
        <5>1. PICK k \in (lo + 1) .. (hi - 1) : i <= k /\ k <= j /\ arr[k] = pivot
          BY <4>2
        <5>2. k # i
          BY <1>3, <1>6, <5>1
        <5>3. i + 1 <= k
          BY <1>3, <5>1, <5>2
        <5> QED
          BY <5>1, <5>3
      <4> QED
        BY <1>2, <4>1, <4>2, ScanKnown
    <3>3. \E k \in (i + 1) .. hi : arr[k] >= pivot
      BY <1>5, <2>5
    <3> HIDE DEF lo, hi, i, j, pivot
    <3> QED
      BY <1>1, <2>2, <3>1, <3>2, <3>3 DEF Sentinels
  <2>8. InMedian' /\ Met'
    BY <2>2 DEF InMedian, Met
  <2> QED
    BY <1>2, <2>2, <2>3, <2>4, <2>6, <2>7, <2>8, SplittingKeeps
<1>7. CASE ~(arr[run.i] < run.pivot)
  <2>1. run' = [run EXCEPT !.at = "down"]
    BY <1>7 DEF ScanUp
  <2>2. /\ run' \in RunType /\ run'.at = "down" /\ run'.lo = lo /\ run'.hi = hi /\ run'.i = i
        /\ run'.j = j /\ run'.then = run.then /\ run'.pivot = pivot
    BY <1>1, <1>4, <2>1 DEF RunType
  <2>3. Splitting' /\ SameWork
    BY <1>1, <1>4, <2>2 DEF Splitting, SameWork, Working
  <2>4. arr' \in Seq(Int) /\ N' = N /\ Covered' /\ Rearranged'
    BY <1>1, <1>2, <2>3, RestAtWork
  <2>5. Partitioned'
    BY <1>1, <1>2, <2>2, ScanKnown DEF Partitioned
  <2>6. Sentinels'
    <3>1. arr[i] >= pivot
      BY <1>3, <1>7
    <3> QED
      BY <1>1, <1>2, <2>2, <3>1, ScanKnown DEF Sentinels
  <2>7. InMedian' /\ Met'
    BY <2>2 DEF InMedian, Met
  <2> QED
    BY <1>2, <2>2, <2>3, <2>4, <2>5, <2>6, <2>7, SplittingKeeps
<1> QED
  BY <1>6, <1>7

LEMMA ScanDownKeeps == ASSUME SortInv, ScanDown PROVE SortInv'
<1> DEFINE lo == run.lo  hi == run.hi  i == run.i  j == run.j  pivot == run.pivot
<1>1. run.at = "down" /\ asked' = asked /\ stack' = stack /\ arr' = arr
  BY DEF ScanDown
<1>2. SortTypeOK /\ Covered /\ Rearranged /\ Splitting /\ Scanning /\ arr[i] >= pivot
  BY <1>1 DEF SortInv, Splitting, Scanning, Sentinels
<1>3. /\ lo \in Nat /\ hi \in Nat /\ i \in Nat /\ j \in Nat /\ pivot \in Int
      /\ lo <= i /\ i <= hi /\ lo <= j /\ j <= hi /\ arr[j] \in Int /\ j \in 1..N
  BY <1>2, ScanKnown, SplitKnown
<1>4. run \in RunType /\ Working
  BY <1>2, SplitKnown
<1>5. PICK e \in lo .. j : arr[e] <= pivot
  BY <1>2, ScanKnown
<1>6. CASE arr[run.j] > run.pivot
  <2>1. run' = [run EXCEPT !.j = j - 1]
    BY <1>6 DEF ScanDown
  <2>2. /\ run' \in RunType /\ run'.at = "down" /\ run'.lo = lo /\ run'.hi = hi /\ run'.i = i
        /\ run'.j = j - 1 /\ run'.then = run.then /\ run'.pivot = pivot
    <3>1. j - 1 \in Nat
      BY <1>3
    <3> QED
      BY <1>1, <1>4, <2>1, <3>1 DEF RunType
  <2>3. Splitting' /\ SameWork
    BY <1>1, <1>4, <2>2 DEF Splitting, SameWork, Working
  <2>4. arr' \in Seq(Int) /\ N' = N /\ Covered' /\ Rearranged'
    BY <1>1, <1>2, <2>3, RestAtWork
  <2>5. e # j /\ e \in lo .. (j - 1) /\ lo <= j - 1
    <3>1. e # j
      BY <1>3, <1>5, <1>6
    <3> QED
      BY <1>3, <3>1
  <2>6. Partitioned'
    <3>1. ASSUME NEW k \in j .. hi PROVE arr[k] >= pivot
      <4>1. CASE k = j
        BY <1>3, <1>6, <4>1
      <4>2. CASE k # j
        <5>1. k \in (j + 1) .. hi
          BY <1>3, <4>2
        <5> QED
          BY <1>2, <5>1, ScanKnown
      <4> QED
        BY <4>1, <4>2
    <3>2. \A k \in lo .. (i - 1) : arr[k] <= pivot
      BY <1>2, ScanKnown
    <3>3. j - 1 <= hi /\ (j - 1) + 1 = j
      BY <1>3
    <3> QED
      BY <1>1, <1>3, <2>2, <2>5, <3>1, <3>2, <3>3 DEF Partitioned
  <2>7. Sentinels'
    <3>1. \E k \in i .. hi : arr[k] >= pivot
      BY <1>2, ScanKnown
    <3>2. \/ lo < i /\ j - 1 < hi
          \/ \E k \in (lo + 1) .. (hi - 1) : i <= k /\ k <= j - 1 /\ arr[k] = pivot
      <4>1. CASE lo < i /\ j < hi
        BY <1>3, <4>1
      <4>2. CASE \E k \in (lo + 1) .. (hi - 1) : i <= k /\ k <= j /\ arr[k] = pivot
        <5>1. PICK k \in (lo + 1) .. (hi - 1) : i <= k /\ k <= j /\ arr[k] = pivot
          BY <4>2
        <5>2. k # j
          BY <1>3, <1>6, <5>1
        <5>3. k <= j - 1
          BY <1>3, <5>1, <5>2
        <5> QED
          BY <5>1, <5>3
      <4> QED
        BY <1>2, <4>1, <4>2, ScanKnown
    <3>3. \E k \in lo .. (j - 1) : arr[k] <= pivot
      BY <1>5, <2>5
    <3>4. arr[i] >= pivot
      BY <1>2
    <3> HIDE DEF lo, hi, i, j, pivot
    <3> QED
      BY <1>1, <2>2, <3>1, <3>2, <3>3, <3>4 DEF Sentinels
  <2>8. InMedian' /\ Met'
    BY <2>2 DEF InMedian, Met
  <2> QED
    BY <1>2, <2>2, <2>3, <2>4, <2>6, <2>7, <2>8, SplittingKeeps
<1>7. CASE ~(arr[run.j] > run.pivot)
  <2>1. run' = [run EXCEPT !.at = "meet"]
    BY <1>7 DEF ScanDown
  <2>2. /\ run' \in RunType /\ run'.at = "meet" /\ run'.lo = lo /\ run'.hi = hi /\ run'.i = i
        /\ run'.j = j /\ run'.then = run.then /\ run'.pivot = pivot
    BY <1>1, <1>4, <2>1 DEF RunType
  <2>3. Splitting' /\ SameWork
    BY <1>1, <1>4, <2>2 DEF Splitting, SameWork, Working
  <2>4. arr' \in Seq(Int) /\ N' = N /\ Covered' /\ Rearranged'
    BY <1>1, <1>2, <2>3, RestAtWork
  <2>5. Partitioned'
    BY <1>1, <1>2, <2>2, ScanKnown DEF Partitioned
  <2>6. Sentinels'
    <3>1. arr[i] >= pivot /\ arr[j] <= pivot
      BY <1>2, <1>3, <1>7
    <3> QED
      BY <1>1, <1>2, <2>2, <3>1, ScanKnown DEF Sentinels
  <2>7. InMedian' /\ Met'
    BY <2>2 DEF InMedian, Met
  <2> QED
    BY <1>2, <2>2, <2>3, <2>4, <2>5, <2>6, <2>7, SplittingKeeps
<1> QED
  BY <1>6, <1>7

LEMMA MeetKeeps == ASSUME SortInv, Meet PROVE SortInv'
<1> DEFINE lo == run.lo  hi == run.hi  i == run.i  j == run.j  pivot == run.pivot
<1>1. run.at = "meet" /\ asked' = asked /\ stack' = stack
  BY DEF Meet
<1>2. /\ SortTypeOK /\ Covered /\ Rearranged /\ Splitting /\ Scanning
      /\ arr[i] >= pivot /\ arr[j] <= pivot
  BY <1>1 DEF SortInv, Splitting, Scanning, Sentinels
<1>3. /\ N \in Nat /\ lo \in Nat /\ hi \in Nat /\ i \in Nat /\ j \in Nat /\ pivot \in Int
      /\ lo <= i /\ i <= hi /\ lo <= j /\ j <= hi
      /\ i \in 1..N /\ j \in 1..N /\ 1 <= lo /\ hi <= N
  BY <1>2, ScanKnown, SplitKnown
<1>4. run \in RunType /\ Working /\ arr[i] \in Int /\ arr[j] \in Int
  BY <1>2, SplitKnown, ScanKnown
<1>5. /\ \A k \in lo .. (i - 1) : arr[k] <= pivot
      /\ \A k \in (j + 1) .. hi : arr[k] >= pivot
  BY <1>2, ScanKnown
<1>6. CASE run.i >= run.j
  <2>1. run' = [run EXCEPT !.at = "push"] /\ arr' = arr
    BY <1>6 DEF Meet, Proceed
  <2>2. /\ run' \in RunType /\ run'.at = "push" /\ run'.lo = lo /\ run'.hi = hi /\ run'.i = i
        /\ run'.j = j /\ run'.then = run.then /\ run'.pivot = pivot
    BY <1>1, <1>4, <2>1 DEF RunType
  <2>3. Splitting' /\ SameWork
    BY <1>1, <1>4, <2>2 DEF Splitting, SameWork, Working
  <2>4. arr' \in Seq(Int) /\ N' = N /\ Covered' /\ Rearranged'
    BY <1>2, <2>1, <2>3, RestAtWork
  <2>5. Partitioned'
    BY <1>3, <1>5, <2>1, <2>2 DEF Partitioned
  <2>6. lo < i /\ j < hi
    <3>1. CASE \E k \in (lo + 1) .. (hi - 1) : i <= k /\ k <= j /\ arr[k] = pivot
      BY <1>3, <1>6, <3>1
    <3> QED
      BY <1>2, <3>1, ScanKnown
  <2>7. Met'
    BY <1>3, <1>6, <2>2, <2>6 DEF Met
  <2>8. InMedian' /\ Sentinels'
    BY <2>2 DEF InMedian, Sentinels, Scanning
  <2> QED
    BY <1>2, <2>2, <2>3, <2>4, <2>5, <2>7, <2>8, SplittingKeeps
<1>7. CASE ~(run.i >= run.j)
  <2> DEFINE place == IF i + 1 > j - 1 THEN "push" ELSE "up"
  <2>1. /\ arr' = Swapped(i, j)
        /\ run' = [run EXCEPT !.i = i + 1, !.j = j - 1, !.at = place]
    BY <1>7 DEF Meet
  <2>2. /\ run' \in RunType /\ run'.at = place /\ run'.lo = lo /\ run'.hi = hi
        /\ run'.i = i + 1 /\ run'.j = j - 1 /\ run'.then = run.then /\ run'.pivot = pivot
    <3>1. i + 1 \in Nat /\ j - 1 \in Nat /\ place \in {"push", "up"}
      BY <1>3
    <3> HIDE DEF place
    <3> QED
      BY <1>4, <2>1, <3>1 DEF RunType
  <2>3. Splitting' /\ SameWork
    BY <1>1, <1>4, <2>2 DEF Splitting, SameWork, Working
  <2>4. i < j /\ arr[i] >= arr[j]
    BY <1>2, <1>3, <1>4, <1>7
  <2>5. /\ arr' \in Seq(Int) /\ N' = N /\ Covered' /\ Rearranged'
        /\ arr'[i] = arr[j] /\ arr'[j] = arr[i]
        /\ \A k \in 1..N : k # i /\ k # j => arr'[k] = arr[k]
    BY <1>2, <1>3, <2>1, <2>3, <2>4, SwapAtWork
  <2>6. /\ lo <= i + 1 /\ i + 1 <= hi /\ lo <= j - 1 /\ j - 1 <= hi
        /\ (i + 1) - 1 = i /\ (j - 1) + 1 = j
    BY <1>3, <2>4
  <2>7. ASSUME NEW k \in lo .. i PROVE arr'[k] <= pivot
    <3>1. CASE k = i
      BY <1>2, <2>5, <3>1
    <3>2. CASE k # i
      <4>1. k \in lo .. (i - 1) /\ k \in 1..N /\ k # j
        BY <1>3, <2>4, <3>2
      <4> QED
        BY <1>5, <2>5, <3>2, <4>1
    <3> QED
      BY <3>1, <3>2
  <2>8. ASSUME NEW k \in j .. hi PROVE arr'[k] >= pivot
    <3>1. CASE k = j
      BY <1>2, <2>5, <3>1
    <3>2. CASE k # j
      <4>1. k \in (j + 1) .. hi /\ k \in 1..N /\ k # i
        BY <1>3, <2>4, <3>2
      <4> QED
        BY <1>5, <2>5, <3>2, <4>1
    <3> QED
      BY <3>1, <3>2
  <2>9. Partitioned'
    BY <2>2, <2>6, <2>7, <2>8 DEF Partitioned
  <2>10. Sentinels'
    <3>1. j \in (i + 1) .. hi /\ i \in lo .. (j - 1) /\ lo < i + 1 /\ j - 1 < hi
      BY <1>3, <2>4
    <3>2. arr'[j] >= pivot /\ arr'[i] <= pivot
      BY <1>2, <2>5
    <3>3. run'.at \notin {"down", "meet"}
      BY <2>2
    <3> HIDE DEF place, lo, hi, i, j, pivot
    <3> QED
      BY <2>2, <3>1, <3>2, <3>3 DEF Sentinels
  <2>11. Met'
    <3>1. run'.at = "push" => j - 1 <= i + 1
      BY <1>3, <2>2
    <3>2. lo < i + 1 /\ j - 1 < hi
      BY <1>3
    <3> QED
      BY <2>2, <3>1, <3>2 DEF Met
  <2>12. InMedian'
    BY <2>2 DEF InMedian
  <2> QED
    BY <1>2, <2>2, <2>3, <2>5, <2>9, <2>10, <2>11, <2>12, SplittingKeeps
<1> QED
  BY <1>6, <1>7

\* A range that is done with, and the next one to be taken from the stack.
LEMMA PopBegins ==
  ASSUME SortTypeOK, Rearranged, arr' = arr, asked' = asked, StackBounded,
         stack' \in Seq((1..N) \X (1..N)), Len(stack') < StackSize,
         run.then = "pop", Proceed("pop"), Apart(arr, N, Waiting'),
         \A k \in 1..Len(stack') : (Size(stack'[k]) - 1) * 2^(k - 1) <= N - 1
                                   /\ Size(stack'[k]) > 0
  PROVE  SortInv'
<1>1. N \in Nat /\ N' = N /\ Rearranged' /\ asked' \in Arrays /\ arr' \in Seq(Int)
      /\ N' = Len(asked')
  BY ArrayIs, ArrayStays DEF SortTypeOK
<1>2. run' \in RunType /\ run'.at = "pop" /\ run'.then = "pop"
  <2>1. run \in RunType
    BY TypesAre
  <2> QED
    BY <2>1 DEF Proceed, RunType
<1>3. Len(stack') \in Nat
  BY LenProperties
<1>4. SortTypeOK'
  BY <1>1, <1>2, <1>3, SortAssumption DEF SortTypeOK, RunType
<1>5. Covered'
  <2>1. Waiting' \cup Current' = Waiting'
    BY <1>2 DEF Current, Working
  <2> QED
    BY <1>1, <2>1 DEF Covered, Apart
<1>6. RangeKnown' /\ StackBounded'
  BY <1>1, <1>2 DEF RangeKnown, StackBounded
<1>7. Halved'
  BY <1>1, <1>2 DEF Halved, Splitting, Size
<1>8. Inserting' /\ InMedian' /\ Partitioned' /\ Sentinels' /\ Met' /\ InOrder'
  BY <1>2 DEF Inserting, InMedian, Partitioned, Sentinels, Met, Scanning, InOrder
<1> QED
  BY <1>1, <1>4, <1>5, <1>6, <1>7, <1>8 DEF SortInv

LEMMA CallKeeps == ASSUME SortInv, Enter PROVE SortInv'
<1>1. /\ SortTypeOK /\ Rearranged /\ RangeKnown /\ StackBounded
      /\ run.at = "call" /\ arr' = arr /\ asked' = asked
  BY DEF SortInv, Enter
<1>2. stack = <<>> /\ run.then = "pop" /\ N \in Nat /\ Len(stack) = 0
  BY <1>1, ArrayIs, EmptySeq DEF RangeKnown
<1>3. Cutoff \in Nat /\ Cutoff >= 3 /\ StackSize \in Nat /\ StackSize >= 2
  BY SortAssumption
<1>4. \A ranges : <<1, N>> \in ranges => Apart(arr, N, ranges)
  BY <1>2 DEF Apart
<1>5. CASE N < Cutoff
  <2>1. InsertFrom(1, N, "done") /\ stack' = stack
    BY <1>5 DEF Enter
  <2>2. stack' \in Seq((1..N) \X (1..N)) /\ Len(stack') = 0
    BY <1>1, <1>2, <2>1 DEF SortTypeOK
  <2>3. Apart(arr, N, Waiting' \cup {<<1, N>>})
    BY <1>4
  <2>4. 1 \in 1..(N + 1) /\ N \in 0..N /\ 1 <= N + 1 /\ Len(stack') <= StackSize
    BY <1>2, <1>3, <2>2
  <2>5. ~(N >= Cutoff)
    BY <1>2, <1>3, <1>5
  <2>6. \A k \in 1..Len(stack') : FALSE
    BY <2>2
  <2> QED
    BY <1>1, <2>1, <2>2, <2>3, <2>4, <2>5, <2>6, InsertionBegins
<1>6. CASE ~(N < Cutoff)
  <2>1. stack' = << <<1, N>> >> /\ Proceed("pop")
    BY <1>6 DEF Enter
  <2>2. <<1, N>> \in (1..N) \X (1..N)
    BY <1>2, <1>3, <1>6
  <2>3. stack' \in Seq((1..N) \X (1..N)) /\ Len(stack') = 1 /\ stack'[1] = <<1, N>>
    BY <2>1, <2>2
  <2>4. Apart(arr, N, Waiting')
    <3>1. <<1, N>> \in Waiting'
      <4>1. Waiting' = {stack'[k] : k \in 1..1}
        BY <2>3 DEF Waiting
      <4> QED
        BY <2>3, <4>1
    <3> QED
      BY <1>4, <3>1
  <2>5. ASSUME NEW k \in 1..Len(stack')
        PROVE  (Size(stack'[k]) - 1) * 2^(k - 1) <= N - 1 /\ Size(stack'[k]) > 0
    <3>1. k = 1 /\ k - 1 = 0 /\ Size(stack'[k]) = N
      BY <1>2, <2>3 DEF Size
    <3>2. 2^(k - 1) = 1
      BY <3>1, PowersAssumption
    <3>3. N > 0
      BY <1>2, <1>3, <1>6
    <3> QED
      BY <1>2, <3>1, <3>2, <3>3
  <2>6. Len(stack') < StackSize
    BY <1>3, <2>3
  <2> QED
    BY <1>1, <1>2, <2>1, <2>3, <2>4, <2>5, <2>6, PopBegins
<1> QED
  BY <1>5, <1>6

\* What popping the last of a sequence leaves.
LEMMA WithoutLast ==
  ASSUME NEW S, NEW s \in Seq(S), NEW n \in Nat, n = Len(s), n > 0
  PROVE  /\ SubSeq(s, 1, n - 1) \in Seq(S) /\ Len(SubSeq(s, 1, n - 1)) = n - 1
         /\ \A k \in 1..(n - 1) : SubSeq(s, 1, n - 1)[k] = s[k]
<1>1. \A k \in 1..n : s[k] \in S
  BY ElementOfSeq
<1>2. \A k \in 1..(n - 1) : s[k] \in S
  <2>1. \A k \in 1..(n - 1) : k \in 1..n
    OBVIOUS
  <2> QED
    BY <1>1, <2>1
<1> DEFINE t == SubSeq(s, 1, n - 1)
<1>3. /\ t \in Seq(S) /\ Len(t) = IF 1 <= n - 1 THEN n - 1 - 1 + 1 ELSE 0
      /\ \A k \in 1..(n - 1 - 1 + 1) : t[k] = s[1 + k - 1]
  <2>1. 1 \in Int /\ n - 1 \in Int
    OBVIOUS
  <2> QED
    BY <1>2, <2>1, SubSeqProperties
<1> HIDE DEF t
<1>4. Len(t) = n - 1
  BY <1>3
<1>5. ASSUME NEW k \in 1..(n - 1) PROVE t[k] = s[k]
  <2>1. k \in 1..(n - 1 - 1 + 1) /\ 1 + k - 1 = k
    OBVIOUS
  <2>2. t[k] = s[1 + k - 1]
    BY <1>3, <2>1
  <2> QED
    BY <2>1, <2>2
<1> QED
  BY <1>3, <1>4, <1>5 DEF t

LEMMA PopKeeps == ASSUME SortInv, Pop PROVE SortInv'
<1>1. /\ SortTypeOK /\ Covered /\ Rearranged /\ RangeKnown /\ Halved /\ StackBounded
      /\ run.at = "pop" /\ arr' = arr /\ asked' = asked
  BY DEF SortInv, Pop
<1>2. /\ run.then = "pop" /\ N \in Nat /\ run \in RunType /\ Len(stack) \in Nat
      /\ stack \in Seq((1..N) \X (1..N)) /\ Len(stack) < StackSize
  BY <1>1, TypesAre, ArrayIs DEF RangeKnown, Halved
<1>3. Cutoff \in Nat /\ Cutoff >= 3 /\ StackSize \in Nat /\ StackSize >= 2
  BY SortAssumption
<1>4. Apart(arr, N, Waiting)
  BY <1>1 DEF Covered, Current, Working, Apart
<1>5. CASE stack = <<>>
  <2>1. Proceed("done") /\ stack' = stack
    BY <1>5 DEF Pop
  <2>2. run' \in RunType /\ run'.at = "done" /\ run'.then = run.then
    BY <1>2, <2>1 DEF Proceed, RunType
  <2>3. N' = N /\ Rearranged' /\ arr' \in Seq(Int)
    BY <1>1, ArrayStays DEF SortTypeOK
  <2>4. SortTypeOK' /\ StackBounded'
    BY <1>1, <2>1, <2>2, <2>3, GoesOn
  <2>5. Len(stack) = 0 /\ Waiting = {}
    <3>1. Len(stack) = 0
      BY <1>5, EmptySeq
    <3> QED
      BY <3>1 DEF Waiting
  <2>6. \A p, q \in 1..N : p < q => arr[p] <= arr[q]
    BY <1>4, <2>5 DEF Apart
  <2>7. Covered'
    BY <1>1, <2>3, <2>6 DEF Covered, Apart
  <2>8. InOrder'
    BY <1>1, <2>3, <2>6 DEF InOrder
  <2>9. RangeKnown' /\ Halved'
    BY <2>1, <2>2, <2>3, <2>5 DEF RangeKnown, Halved, Splitting
  <2> QED
    BY <2>2, <2>3, <2>4, <2>7, <2>8, <2>9
       DEF SortInv, Inserting, InMedian, Partitioned, Sentinels, Met, Scanning
<1>6. CASE stack # <<>>
  <2> DEFINE last == Len(stack)
             range == stack[Len(stack)]
             lo == range[1]
             hi == range[2]
  <2>1. /\ last \in 1..last /\ stack' = SubSeq(stack, 1, last - 1)
        /\ range \in (1..N) \X (1..N)
    <3>1. last > 0
      BY <1>2, <1>6, EmptySeq
    <3>2. last \in 1..last
      BY <1>2, <3>1
    <3> QED
      BY <1>1, <1>6, <3>2, TypesAre DEF Pop
  <2>2. /\ stack' \in Seq((1..N) \X (1..N)) /\ Len(stack') = last - 1
        /\ \A k \in 1..Len(stack') : stack'[k] = stack[k]
    <3>1. last \in Nat /\ last > 0
      BY <1>2, <2>1
    <3>2. /\ SubSeq(stack, 1, last - 1) \in Seq((1..N) \X (1..N))
          /\ Len(SubSeq(stack, 1, last - 1)) = last - 1
          /\ \A k \in 1..(last - 1) : SubSeq(stack, 1, last - 1)[k] = stack[k]
      BY <1>2, <3>1, WithoutLast
    <3> QED
      BY <2>1, <3>2
  <2>3. lo \in 1..N /\ hi \in 1..N /\ range = <<lo, hi>>
    BY <2>1
  <2>4. Apart(arr, N, Waiting' \cup {<<lo, hi>>})
    <3>1. Waiting \subseteq Waiting' \cup {<<lo, hi>>}
      <4> SUFFICES ASSUME NEW k \in 1..last PROVE stack[k] \in Waiting' \cup {<<lo, hi>>}
        BY DEF Waiting
      <4>1. CASE k = last
        BY <2>3, <4>1
      <4>2. CASE k # last
        <5>1. k \in 1..Len(stack')
          <6>1. last \in Nat /\ Len(stack') = last - 1
            BY <1>2, <2>2
          <6> HIDE DEF last
          <6> QED
            BY <4>2, <6>1
        <5>2. stack'[k] = stack[k]
          BY <2>2, <5>1
        <5> QED
          BY <5>1, <5>2 DEF Waiting
      <4> QED
        BY <4>1, <4>2
    <3> HIDE DEF range, lo, hi
    <3> QED
      BY <1>4, <3>1 DEF Apart
  <2>5. ASSUME NEW k \in 1..Len(stack')
        PROVE  (Size(stack'[k]) - 1) * 2^(k - 1) <= N - 1 /\ Size(stack'[k]) > 0
    <3>1. k \in 1..Len(stack)
      BY <1>2, <2>2
    <3>2. stack'[k] = stack[k]
      BY <2>2
    <3> QED
      BY <1>1, <3>1, <3>2 DEF Halved
  <2>6. Size(range) > 0 /\ Size(range) = hi - lo + 1
        /\ (hi - lo) * 2^(last - 1) <= N - 1
    <3>1. Size(range) > 0 /\ (Size(range) - 1) * 2^(last - 1) <= N - 1
      BY <1>1, <2>1 DEF Halved
    <3>2. Size(range) = hi - lo + 1
      BY DEF Size
    <3>3. Size(range) - 1 = hi - lo
      BY <2>3, <3>2
    <3> QED
      BY <3>1, <3>2, <3>3
  <2>7. CASE Size(range) < Cutoff
    <3>1. InsertFrom(lo, hi, "pop")
      BY <1>6, <2>7 DEF Pop
    <3>2. lo \in 1..(N + 1) /\ hi \in 0..N /\ lo <= hi + 1
      <4>1. hi - lo + 1 > 0
        BY <2>6
      <4> HIDE DEF lo, hi, range
      <4> QED
        BY <1>2, <2>3, <4>1
    <3>3. Len(stack') < StackSize /\ Len(stack') <= StackSize
      BY <1>2, <1>3, <2>1, <2>2
    <3> HIDE DEF range, lo, hi
    <3> QED
      BY <1>1, <2>2, <2>4, <2>5, <3>1, <3>2, <3>3, InsertionBegins
  <2>8. CASE ~(Size(range) < Cutoff)
    <3> DEFINE mid == lo + Size(range) \div 2
    <3>1. run' = [run EXCEPT !.at = "low", !.lo = lo, !.hi = hi, !.j = mid]
      BY <1>6, <2>8 DEF Pop
    <3>2. lo < mid /\ mid < hi /\ mid \in Nat /\ lo \in Nat /\ hi \in Nat /\ hi - lo + 1 >= Cutoff
      <4> DEFINE n == Size(range)
      <4>1. n = hi - lo + 1 /\ n >= Cutoff /\ n \in Int
        BY <1>3, <2>3, <2>6, <2>8
      <4> HIDE DEF n, range, lo, hi
      <4>2. 1 <= n \div 2 /\ n \div 2 < n - 1 /\ n \div 2 \in Nat
        BY <1>3, <4>1
      <4> QED
        BY <1>3, <2>3, <4>1, <4>2 DEF n
    <3>3. /\ run' \in RunType /\ run'.at = "low" /\ run'.lo = lo /\ run'.hi = hi
          /\ run'.j = mid /\ run'.then = run.then
      <4> HIDE DEF mid, lo, hi
      <4> QED
        BY <1>2, <3>1, <3>2 DEF RunType
    <3>4. N' = N /\ Rearranged' /\ arr' \in Seq(Int) /\ asked' \in Arrays /\ N' = Len(asked')
      BY <1>1, ArrayStays DEF SortTypeOK
    <3>5. SortTypeOK'
      <4>1. Len(stack') <= StackSize
        BY <1>2, <1>3, <2>2
      <4> QED
        BY <2>2, <3>3, <3>4, <4>1 DEF SortTypeOK, RunType
    <3>6. StackBounded'
      BY <1>2, <3>3 DEF StackBounded
    <3>7. Covered'
      <4>1. Waiting' \cup Current' = Waiting' \cup {<<lo, hi>>}
        BY <3>3 DEF Current, Working
      <4> HIDE DEF lo, hi, range
      <4> QED
        BY <1>1, <2>4, <3>4, <4>1 DEF Covered, Apart
    <3>8. RangeKnown'
      <4>1. 1 <= lo /\ lo <= hi /\ hi <= N
        BY <1>2, <2>3, <3>2
      <4> QED
        BY <1>2, <3>3, <3>4, <4>1 DEF RangeKnown
    <3>9. InMedian'
      BY <3>2, <3>3 DEF InMedian
    <3>10. Halved'
      <4>1. Len(stack') + 2 <= StackSize
        BY <1>2, <1>3, <2>2
      <4>2. (run'.hi - run'.lo) * 2^Len(stack') <= N - 1 /\ run'.hi - run'.lo + 1 >= Cutoff
        BY <2>2, <2>6, <3>2, <3>3
      <4>3. run'.at \notin {"pop", "insert"}
        BY <3>3
      <4> HIDE DEF lo, hi, range, last
      <4> QED
        BY <2>5, <3>4, <4>1, <4>2, <4>3 DEF Halved, Size
    <3>11. Inserting' /\ Partitioned' /\ Sentinels' /\ Met' /\ InOrder'
      BY <3>3 DEF Inserting, Partitioned, Sentinels, Met, Scanning, InOrder
    <3> QED
      BY <3>4, <3>5, <3>6, <3>7, <3>8, <3>9, <3>10, <3>11 DEF SortInv
  <2> QED
    BY <2>7, <2>8
<1> QED
  BY <1>5, <1>6

\* What pushing a range does to a stack that has room.
LEMMA Pushes ==
  ASSUME NEW S, NEW s \in Seq(S), NEW r \in S, Len(s) < StackSize
  PROVE  /\ Pushed(s, r) \in Seq(S)
         /\ Len(Pushed(s, r)) = IF Size(r) > 1 THEN Len(s) + 1 ELSE Len(s)
         /\ \A k \in 1..Len(s) : Pushed(s, r)[k] = s[k]
         /\ Size(r) > 1 => Pushed(s, r)[Len(s) + 1] = r
<1>1. Pushed(s, r) = IF Size(r) > 1 THEN Append(s, r) ELSE s
  BY DEF Pushed
<1> QED
  BY <1>1, AppendProperties

LEMMA Times ==
  ASSUME NEW a \in Int, NEW b \in Int, NEW p \in Nat, a <= b
  PROVE  a * p <= b * p
  OBVIOUS

\* t is s, of m ranges, with those of two more that hold two and more elements.
WithTwo(s, m, big, small, t) ==
  /\ Len(t) \in Nat /\ Len(t) <= m + 2
  /\ \A k \in 1..m : k \in 1..Len(t) /\ t[k] = s[k]
  /\ Size(big) > 1 => m + 1 \in 1..Len(t) /\ t[m + 1] = big
  /\ Size(small) > 1 => \E l \in {m + 1, m + 2} : l \in 1..Len(t) /\ t[l] = small
  /\ \A k \in 1..Len(t) :
       \/ k \in 1..m
       \/ k = m + 1 /\ t[k] = big /\ Size(big) > 1
       \/ k \in {m + 1, m + 2} /\ t[k] = small /\ Size(small) > 1

LEMMA PushesTwo ==
  ASSUME NEW S, NEW s \in Seq(S), NEW m \in Nat, m = Len(s), m + 2 <= StackSize,
         NEW big \in S, NEW small \in S
  PROVE  /\ Pushed(Pushed(s, big), small) \in Seq(S)
         /\ WithTwo(s, m, big, small, Pushed(Pushed(s, big), small))
<1> DEFINE u == Pushed(s, big)
           t == Pushed(Pushed(s, big), small)
<1>0. StackSize \in Nat
  BY SortAssumption
<1>1. /\ u \in Seq(S) /\ Len(u) = IF Size(big) > 1 THEN m + 1 ELSE m
      /\ \A k \in 1..m : u[k] = s[k]
      /\ Size(big) > 1 => u[m + 1] = big
  <2>1. Len(s) < StackSize
    BY <1>0
  <2> QED
    BY <2>1, Pushes
<1>2. Len(u) \in {m, m + 1}
  BY <1>1
<1>3. /\ t \in Seq(S) /\ Len(t) = IF Size(small) > 1 THEN Len(u) + 1 ELSE Len(u)
      /\ \A k \in 1..Len(u) : t[k] = u[k]
      /\ Size(small) > 1 => t[Len(u) + 1] = small
  <2>1. Len(u) < StackSize
    BY <1>0, <1>2
  <2>2. t = Pushed(u, small)
    OBVIOUS
  <2> HIDE DEF u, t
  <2> QED
    BY <1>1, <2>1, <2>2, Pushes
<1> HIDE DEF u, t
<1>4. Len(t) \in Nat /\ Len(t) <= m + 2
  BY <1>2, <1>3
<1>5. ASSUME NEW k \in 1..m PROVE k \in 1..Len(t) /\ t[k] = s[k]
  <2>1. k \in 1..Len(u) /\ k \in 1..Len(t)
    BY <1>2, <1>3
  <2> QED
    BY <1>1, <1>3, <2>1
<1>6. ASSUME Size(big) > 1 PROVE m + 1 \in 1..Len(t) /\ t[m + 1] = big
  <2>1. m + 1 \in 1..Len(u) /\ m + 1 \in 1..Len(t)
    BY <1>1, <1>3, <1>6
  <2> QED
    BY <1>1, <1>3, <1>6, <2>1
<1>7. ASSUME Size(small) > 1
      PROVE  \E l \in {m + 1, m + 2} : l \in 1..Len(t) /\ t[l] = small
  <2>1. Len(u) + 1 \in {m + 1, m + 2} /\ Len(u) + 1 \in 1..Len(t)
    BY <1>2, <1>3, <1>7
  <2> QED
    BY <1>3, <1>7, <2>1
<1>8. ASSUME NEW k \in 1..Len(t), k \notin 1..m
      PROVE  \/ k = m + 1 /\ t[k] = big /\ Size(big) > 1
             \/ k \in {m + 1, m + 2} /\ t[k] = small /\ Size(small) > 1
  <2>1. CASE k \in 1..Len(u)
    <3>1. k = m + 1 /\ Size(big) > 1
      BY <1>1, <1>8, <2>1
    <3> QED
      BY <1>1, <1>3, <2>1, <3>1
  <2>2. CASE k \notin 1..Len(u)
    <3>1. Size(small) > 1 /\ k = Len(u) + 1
      BY <1>2, <1>3, <2>2
    <3> QED
      BY <1>2, <1>3, <3>1
  <2> QED
    BY <2>1, <2>2
<1> QED
  BY <1>3, <1>4, <1>5, <1>6, <1>7, <1>8 DEF t, WithTwo

\* Of two parts of a range, the smaller one is at most half as long.
LEMMA HalfAsLong ==
  ASSUME NEW m \in Int, NEW w \in Int, NEW p \in Nat, w * p <= m,
         NEW a \in Int, a >= 0
  PROVE  /\ a <= w => a * p <= m
         /\ 2 * a <= w => a * p <= m /\ a * (2 * p) <= m
<1>1. w * p \in Int /\ a * p \in Int /\ (2 * a) * p \in Int /\ a * (2 * p) = (2 * a) * p
  OBVIOUS
<1>2. ASSUME a <= w PROVE a * p <= m
  <2>1. a * p <= w * p
    BY <1>2, Times
  <2> QED
    BY <1>1, <2>1
<1>3. ASSUME 2 * a <= w PROVE a * (2 * p) <= m
  <2>1. 2 * a \in Int
    OBVIOUS
  <2>2. (2 * a) * p <= w * p
    BY <1>3, <2>1, Times
  <2> QED
    BY <1>1, <2>2
<1>4. 2 * a <= w => a <= w
  OBVIOUS
<1> QED
  BY <1>2, <1>3, <1>4

\* Two parts of the range are pushed, the larger one first.
StackOf(next, big, small) ==
  /\ next \in Seq((1..N) \X (1..N)) /\ Len(next) \in Nat /\ Len(next) <= StackSize
  /\ Len(next) >= StackSize => Len(stack) + 2 = StackSize
  /\ \A k \in 1..Len(next) : (Size(next[k]) - 1) * 2^(k - 1) <= N - 1 /\ Size(next[k]) > 0
  /\ \A k \in 1..Len(stack) : \E l \in 1..Len(next) : next[l] = stack[k]
  /\ Size(big) > 1 => \E l \in 1..Len(next) : next[l] = big
  /\ Size(small) > 1 => \E l \in 1..Len(next) : next[l] = small

LEMMA PushesBoth ==
  ASSUME SortInv, run.at = "push",
         NEW big \in (1..N) \X (1..N), NEW small \in (1..N) \X (1..N),
         Size(big) - 1 <= run.hi - run.lo, 2 * (Size(small) - 1) <= run.hi - run.lo,
         NEW next, next = Pushed(Pushed(stack, big), small)
  PROVE  StackOf(next, big, small)
<1> DEFINE m == Len(stack)
           w == run.hi - run.lo
           p == 2^m
<1>1. SortTypeOK /\ Halved /\ Splitting
  BY DEF SortInv, Splitting
<1>2. m \in Nat /\ StackSize \in Nat /\ m + 2 <= StackSize /\ w * p <= N - 1
  <2>1. m \in Nat
    BY <1>1, TypesAre
  <2>2. m + 2 <= StackSize /\ w * p <= N - 1
    BY <1>1 DEF Halved
  <2> QED
    BY <2>1, <2>2, SortAssumption
<1>3. N \in Nat /\ w \in Int
  <2>1. N \in Nat
    BY <1>1, ArrayIs
  <2>2. run.lo \in Nat /\ run.hi \in Nat
    BY <1>1, TypesAre
  <2> QED
    BY <2>1, <2>2
<1>4. p \in Nat /\ 2^(m + 1) = 2 * p
  <2>1. m \in 0..StackSize
    BY <1>2
  <2> QED
    BY <2>1, PowersAssumption
<1>5. Size(big) \in Int /\ Size(small) \in Int
  <2>1. big[1] \in 1..N /\ big[2] \in 1..N /\ small[1] \in 1..N /\ small[2] \in 1..N
    OBVIOUS
  <2> QED
    BY <1>3, <2>1 DEF Size
<1>6. stack \in Seq((1..N) \X (1..N))
  BY <1>1, TypesAre
<1>7. /\ next \in Seq((1..N) \X (1..N)) /\ Len(next) \in Nat /\ Len(next) <= m + 2
      /\ \A k \in 1..m : k \in 1..Len(next) /\ next[k] = stack[k]
      /\ Size(big) > 1 => m + 1 \in 1..Len(next) /\ next[m + 1] = big
      /\ Size(small) > 1 => \E l \in {m + 1, m + 2} : l \in 1..Len(next) /\ next[l] = small
      /\ \A k \in 1..Len(next) :
           \/ k \in 1..m
           \/ k = m + 1 /\ next[k] = big /\ Size(big) > 1
           \/ k \in {m + 1, m + 2} /\ next[k] = small /\ Size(small) > 1
  <2> DEFINE S == (1..N) \X (1..N)
  <2>1. m = Len(stack) /\ stack \in Seq(S) /\ big \in S /\ small \in S
    BY <1>6
  <2> HIDE DEF m, S
  <2>2. /\ Pushed(Pushed(stack, big), small) \in Seq(S)
        /\ WithTwo(stack, m, big, small, Pushed(Pushed(stack, big), small))
    BY <1>2, <2>1, PushesTwo
  <2>3. next = Pushed(Pushed(stack, big), small)
    OBVIOUS
  <2> QED
    BY <2>2, <2>3 DEF S, WithTwo
<1>8. /\ Size(big) > 1 => (Size(big) - 1) * p <= N - 1
      /\ Size(small) > 1 => (Size(small) - 1) * p <= N - 1 /\ (Size(small) - 1) * (2 * p) <= N - 1
  <2> DEFINE a == Size(big) - 1
             b == Size(small) - 1
             d == N - 1
  <2>1. a \in Int /\ b \in Int /\ d \in Int /\ (Size(big) > 1 => a >= 0)
        /\ (Size(small) > 1 => b >= 0) /\ a <= w /\ 2 * b <= w /\ w * p <= d
    <3>1. a \in Int /\ b \in Int /\ d \in Int /\ (Size(big) > 1 => a >= 0)
          /\ (Size(small) > 1 => b >= 0)
      BY <1>3, <1>5
    <3>2. a <= w /\ 2 * b <= w
      OBVIOUS
    <3>3. w * p <= d
      BY <1>2
    <3> QED
      BY <3>1, <3>2, <3>3
  <2> HIDE DEF a, b, d, p, w
  <2>2. Size(big) > 1 => a * p <= d
    BY <1>3, <1>4, <2>1, HalfAsLong
  <2>3. Size(small) > 1 => b * p <= d /\ b * (2 * p) <= d
    BY <1>3, <1>4, <2>1, HalfAsLong
  <2> QED
    BY <2>2, <2>3 DEF a, b, d
<1>9. ASSUME NEW k \in 1..Len(next)
      PROVE  (Size(next[k]) - 1) * 2^(k - 1) <= N - 1 /\ Size(next[k]) > 0
  <2>1. CASE k \in 1..m
    <3>1. next[k] = stack[k]
      BY <1>7, <2>1
    <3> QED
      BY <1>1, <2>1, <3>1 DEF Halved
  <2>2. CASE k = m + 1 /\ next[k] = big /\ Size(big) > 1
    <3>1. k - 1 = m /\ Size(big) > 0
      <4> HIDE DEF m
      <4> QED
        BY <1>2, <1>5, <2>2
    <3> QED
      BY <1>8, <2>2, <3>1
  <2>3. CASE k \in {m + 1, m + 2} /\ next[k] = small /\ Size(small) > 1
    <3>1. (k - 1 = m \/ k - 1 = m + 1) /\ Size(small) > 0
      <4> HIDE DEF m
      <4> QED
        BY <1>2, <1>5, <2>3
    <3>2. 2^(k - 1) = p \/ 2^(k - 1) = 2 * p
      BY <1>4, <3>1
    <3> HIDE DEF p, m
    <3> QED
      BY <1>8, <2>3, <3>1, <3>2
  <2> QED
    BY <1>7, <2>1, <2>2, <2>3
<1>10. Len(next) <= StackSize /\ (Len(next) >= StackSize => m + 2 = StackSize)
  <2> HIDE DEF m
  <2> QED
    BY <1>2, <1>7
<1> HIDE DEF p, w
<1> QED
  BY <1>7, <1>9, <1>10 DEF StackOf

LEMMA PushKeeps == ASSUME SortInv, Push PROVE SortInv'
<1> DEFINE lo == run.lo  hi == run.hi  i == run.i  j == run.j
           left == <<lo, j>>
           right == <<i, hi>>
<1>1. run.at = "push" /\ asked' = asked /\ arr' = arr
  BY DEF Push
<1>2. SortTypeOK /\ Covered /\ Rearranged /\ Splitting /\ Halved /\ StackBounded
  BY <1>1 DEF SortInv, Splitting
<1>3. /\ N \in Nat /\ lo \in Nat /\ hi \in Nat /\ i \in Nat /\ j \in Nat /\ run.pivot \in Int
      /\ 1 <= lo /\ hi <= N /\ lo < i /\ i <= hi /\ lo <= j /\ j < hi /\ j <= i
      /\ run.then = "pop" /\ hi - lo + 1 >= Cutoff /\ Cutoff \in Nat /\ Cutoff >= 3
  <2>1. lo < i /\ j < hi /\ j <= i /\ lo <= j /\ i <= hi
    BY <1>1 DEF SortInv, Met, Partitioned
  <2> QED
    BY <1>2, <2>1, SplitKnown
<1>4. /\ \A k \in lo .. (i - 1) : arr[k] <= run.pivot
      /\ \A k \in (j + 1) .. hi : arr[k] >= run.pivot
  BY <1>1 DEF SortInv, Partitioned
<1>5. /\ left \in (1..N) \X (1..N) /\ right \in (1..N) \X (1..N)
      /\ Size(left) = j - lo + 1 /\ Size(right) = hi - i + 1
  BY <1>3 DEF Size
<1>6. PICK big, small, next :
        /\ {big, small} = {left, right} /\ Size(small) <= Size(big)
        /\ next = Pushed(Pushed(stack, big), small)
        /\ stack' = next
        /\ IF Len(next) < StackSize THEN Proceed("pop") ELSE InsertFrom(1, N, "done")
  <2>1. CASE Size(left) > Size(right)
    <3>1. /\ stack' = Pushed(Pushed(stack, left), right)
          /\ IF Len(Pushed(Pushed(stack, left), right)) < StackSize THEN Proceed("pop")
             ELSE InsertFrom(1, N, "done")
      BY <2>1 DEF Push
    <3>2. Size(right) <= Size(left)
      BY <1>3, <1>5, <2>1
    <3> QED
      BY <3>1, <3>2
  <2>2. CASE ~(Size(left) > Size(right))
    <3>1. /\ stack' = Pushed(Pushed(stack, right), left)
          /\ IF Len(Pushed(Pushed(stack, right), left)) < StackSize THEN Proceed("pop")
             ELSE InsertFrom(1, N, "done")
      BY <2>2 DEF Push
    <3>2. Size(left) <= Size(right)
      BY <1>3, <1>5, <2>2
    <3> QED
      BY <3>1, <3>2
  <2> QED
    BY <2>1, <2>2
<1>7. /\ big \in (1..N) \X (1..N) /\ small \in (1..N) \X (1..N)
      /\ Size(big) - 1 <= hi - lo /\ 2 * (Size(small) - 1) <= hi - lo
  <2>1. big \in {left, right} /\ small \in {left, right} /\ (small = left \/ small = right)
    BY <1>6
  <2>2. Size(big) \in {j - lo + 1, hi - i + 1}
    BY <1>5, <2>1
  <2>3. Size(big) - 1 <= hi - lo
    BY <1>3, <2>2
  <2>4. Size(small) <= j - lo + 1 /\ Size(small) <= hi - i + 1 /\ Size(small) \in Int
    <3>1. (small = left /\ big = right) \/ (small = right /\ big = left) \/ small = big
      BY <2>1
    <3>2. Size(small) \in {j - lo + 1, hi - i + 1}
      BY <1>5, <2>1
    <3>3. j - lo + 1 \in Int /\ hi - i + 1 \in Int
      BY <1>3
    <3>4. CASE small = big
      <4>1. left = right
        <5> HIDE DEF left, right
        <5> QED
          BY <1>6, <3>4
      <4>2. j - lo + 1 = hi - i + 1
        BY <1>5, <4>1
      <4> HIDE DEF left, right
      <4> QED
        BY <3>2, <3>3, <4>2
    <3>5. CASE small = left /\ big = right
      BY <1>5, <1>6, <3>3, <3>5
    <3>6. CASE small = right /\ big = left
      BY <1>5, <1>6, <3>3, <3>6
    <3> QED
      BY <3>1, <3>4, <3>5, <3>6
  <2>5. 2 * (Size(small) - 1) <= hi - lo
    BY <1>3, <2>4
  <2> QED
    BY <1>5, <2>1, <2>3, <2>5
<1>8. /\ next \in Seq((1..N) \X (1..N)) /\ Len(next) \in Nat /\ Len(next) <= StackSize
      /\ Len(next) >= StackSize => Len(stack) + 2 = StackSize
      /\ \A k \in 1..Len(next) : (Size(next[k]) - 1) * 2^(k - 1) <= N - 1 /\ Size(next[k]) > 0
      /\ \A k \in 1..Len(stack) : \E l \in 1..Len(next) : next[l] = stack[k]
      /\ Size(big) > 1 => \E l \in 1..Len(next) : next[l] = big
      /\ Size(small) > 1 => \E l \in 1..Len(next) : next[l] = small
  <2>1. next = Pushed(Pushed(stack, big), small)
    BY <1>6
  <2> HIDE DEF left, right
  <2>2. StackOf(next, big, small)
    BY <1>1, <1>7, <2>1, PushesBoth
  <2> QED
    BY <2>2 DEF StackOf
<1>9. Waiting' = {next[l] : l \in 1..Len(next)}
  BY <1>6 DEF Waiting
<1>10. /\ Waiting \subseteq Waiting'
       /\ Size(left) > 1 => left \in Waiting'
       /\ Size(right) > 1 => right \in Waiting'
  <2>1. \A k \in 1..Len(stack) : stack[k] \in Waiting'
    BY <1>8, <1>9
  <2>2. left \in {big, small} /\ right \in {big, small}
    BY <1>6
  <2>3. \A r \in {big, small} : Size(r) > 1 => r \in Waiting'
    BY <1>8, <1>9
  <2> HIDE DEF left, right
  <2> QED
    BY <2>1, <2>2, <2>3 DEF Waiting
<1>11. Apart(arr, N, Waiting')
  <2> SUFFICES ASSUME NEW p \in 1..N, NEW q \in 1..N, p < q
               PROVE  arr[p] <= arr[q] \/ \E r \in Waiting' : r[1] <= p /\ q <= r[2]
    BY DEF Apart
  <2>1. arr[p] \in Int /\ arr[q] \in Int /\ p \in Int /\ q \in Int
    BY <1>2, ArrayIs
  <2>2. CASE \E r \in Waiting : r[1] <= p /\ q <= r[2]
    BY <1>10, <2>2
  <2>3. CASE lo <= p /\ q <= hi
    <3>1. CASE q <= j
      <4>1. Size(left) > 1
        BY <1>3, <1>5, <2>1, <2>3, <3>1
      <4>2. left \in Waiting' /\ left[1] <= p /\ q <= left[2]
        BY <1>10, <2>3, <3>1, <4>1
      <4> QED
        BY <4>2
    <3>2. CASE i <= p
      <4>1. Size(right) > 1
        BY <1>3, <1>5, <2>1, <2>3, <3>2
      <4>2. right \in Waiting' /\ right[1] <= p /\ q <= right[2]
        BY <1>10, <2>3, <3>2, <4>1
      <4> QED
        BY <4>2
    <3>3. CASE p < i /\ j < q
      <4>1. p \in lo .. (i - 1) /\ q \in (j + 1) .. hi
        BY <1>3, <2>1, <2>3, <3>3
      <4>2. arr[p] <= run.pivot /\ arr[q] >= run.pivot
        BY <1>4, <4>1
      <4> QED
        BY <1>3, <2>1, <4>2
    <3> QED
      BY <1>3, <2>1, <3>1, <3>2, <3>3
  <2>4. \/ arr[p] <= arr[q] \/ (\E r \in Waiting : r[1] <= p /\ q <= r[2])
        \/ (lo <= p /\ q <= hi)
    BY <1>1, <1>2 DEF Covered, Apart, Current, Working
  <2> QED
    BY <2>2, <2>3, <2>4
<1>12. CASE Len(next) < StackSize
  <2>1. Proceed("pop") /\ stack' = next
    BY <1>6, <1>12
  <2> QED
    BY <1>1, <1>2, <1>3, <1>8, <1>11, <1>12, <2>1, PopBegins
<1>13. CASE ~(Len(next) < StackSize)
  <2>1. InsertFrom(1, N, "done") /\ stack' = next
    BY <1>6, <1>13
  <2>2. Len(stack) + 2 = StackSize
    BY <1>8, <1>13, SortAssumption
  <2>3. ~(N >= Cutoff /\ N - 1 < (Cutoff - 1) * 2^(StackSize - 2))
    <3> DEFINE m == Len(stack)
    <3>1. (hi - lo) * 2^m <= N - 1
      BY <1>2 DEF Halved
    <3>2. m \in Nat /\ m \in 0..StackSize /\ StackSize - 2 = m
      BY <1>2, <2>2, TypesAre, SortAssumption
    <3>3. 2^m \in Nat
      BY <3>2, PowersAssumption
    <3> HIDE DEF m
    <3>4. (Cutoff - 1) * 2^m <= (hi - lo) * 2^m
      <4>1. Cutoff - 1 \in Int /\ hi - lo \in Int /\ Cutoff - 1 <= hi - lo
        BY <1>3
      <4> QED
        BY <3>3, <4>1, Times
    <3>5. (Cutoff - 1) * 2^m \in Int /\ (hi - lo) * 2^m \in Int
      BY <1>3, <3>3
    <3> QED
      BY <1>3, <3>1, <3>2, <3>4, <3>5
  <2>4. 1 \in 1..(N + 1) /\ N \in 0..N /\ 1 <= N + 1
    BY <1>3
  <2>5. Apart(arr, N, Waiting' \cup {<<1, N>>})
    <3>1. \A p, q \in 1..N : <<1, N>>[1] <= p /\ q <= <<1, N>>[2]
      BY <1>3
    <3> QED
      BY <3>1 DEF Apart
  <2> QED
    BY <1>1, <1>2, <1>8, <2>1, <2>3, <2>4, <2>5, InsertionBegins
<1> QED
  BY <1>12, <1>13

\* What is rearranged holds every value as often.
LEMMA Counts ==
  ASSUME SortTypeOK, Rearranged, NEW x
  PROVE  Cardinality({k \in 1..N : arr[k] = x})
           = Cardinality({k \in DOMAIN asked : asked[k] = x})
<1> DEFINE A == {k \in 1..N : arr[k] = x}
           B == {k \in 1..N : asked[k] = x}
<1>1. N \in Nat /\ asked \in Seq(Int) /\ Len(asked) = N
  BY ArrayIs
<1>2. PICK f \in Rearrangements(N) : \A k \in 1..N : arr[k] = asked[f[k]]
  BY DEF Rearranged
<1>3. /\ f \in [1..N -> 1..N]
      /\ \A p, q \in 1..N : f[p] = f[q] => p = q
      /\ \A p \in 1..N : \E q \in 1..N : f[q] = p
  BY DEF Rearrangements
<1> DEFINE g == [k \in A |-> f[k]]
<1>4. g \in Bijection(A, B)
  <2>1. g \in [A -> B]
    BY <1>2, <1>3
  <2>2. \A p, q \in A : g[p] = g[q] => p = q
    BY <1>3
  <2>3. \A p \in B : \E q \in A : g[q] = p
    BY <1>2, <1>3
  <2> HIDE DEF g, A, B
  <2>4. DOMAIN g = A
    BY <2>1
  <2>5. IsInjective(g)
    BY <2>2, <2>4 DEF IsInjective
  <2> QED
    BY <2>1, <2>3, <2>5 DEF Bijection, Injection, Surjection
<1>5. IsFiniteSet(A)
  <2>1. IsFiniteSet(1..N)
    BY <1>1, FS_Interval
  <2> QED
    BY <2>1, FS_Subset
<1>6. ExistsBijection(A, B)
  BY <1>4 DEF ExistsBijection
<1>7. Cardinality(A) = Cardinality(B)
  <2> HIDE DEF A, B
  <2> QED
    BY <1>5, <1>6, FS_Bijection
<1>8. DOMAIN asked = 1..N
  BY <1>1, LenProperties
<1> QED
  BY <1>7, <1>8

LEMMA StutterSorts == ASSUME SortInv, UNCHANGED sortVars PROVE SortInv'
<1>1. asked' = asked /\ arr' = arr /\ stack' = stack /\ run' = run
  BY DEF sortVars
<1>2. SortTypeOK' /\ StackBounded' /\ Rearranged'
  BY <1>1 DEF SortInv, SortTypeOK, StackBounded, Rearranged, N
<1>3. Covered'
  BY <1>1 DEF SortInv, Covered, Apart, Waiting, Current, Working, N
<1>4. RangeKnown' /\ Inserting' /\ InMedian'
  BY <1>1 DEF SortInv, RangeKnown, Inserting, InMedian, N
<1>5. Partitioned' /\ Sentinels' /\ Met'
  BY <1>1 DEF SortInv, Partitioned, Sentinels, Met, Scanning
<1>6. Halved' /\ InOrder'
  BY <1>1 DEF SortInv, Halved, InOrder, Splitting, Size, N
<1> QED
  BY <1>2, <1>3, <1>4, <1>5, <1>6 DEF SortInv

LEMMA SortStep == SortInv /\ [SortNext]_sortVars => SortInv'
<1> SUFFICES ASSUME SortInv, [SortNext]_sortVars PROVE SortInv'
  OBVIOUS
<1>1. CASE Enter
  BY <1>1, CallKeeps
<1>2. CASE Insert
  BY <1>2, InsertKeeps
<1>3. CASE Pop
  BY <1>3, PopKeeps
<1>4. CASE MedianOfThree
  BY <1>4, MedianKeeps
<1>5. CASE ScanUp
  BY <1>5, ScanUpKeeps
<1>6. CASE ScanDown
  BY <1>6, ScanDownKeeps
<1>7. CASE Meet
  BY <1>7, MeetKeeps
<1>8. CASE Push
  BY <1>8, PushKeeps
<1>9. CASE UNCHANGED sortVars
  BY <1>9, StutterSorts
<1> QED
  BY <1>1, <1>2, <1>3, <1>4, <1>5, <1>6, <1>7, <1>8, <1>9 DEF SortNext

LEMMA SortInvariant == SortSpec => []SortInv
<1>1. SortInit => SortInv
  BY InitSorts
<1>2. SortInv /\ [SortNext]_sortVars => SortInv'
  BY SortStep
<1> QED
  BY <1>1, <1>2, PTL DEF SortSpec

\* qsort's own stack is never written past its end, and both ends of every range on it are
\* places of the array (syscall_shim.c:562, 603-608).  Of the cursors this says only that
\* they are numbers; where they may read is QsortNeverLeaves.
THEOREM SortTypeCorrect == SortSpec => []SortTypeOK
<1>1. SortInv => SortTypeOK
  BY DEF SortInv
<1> QED
  BY <1>1, SortInvariant, PTL

\* The two scans of the partition stop inside their range without a bound of their own,
\* for every array: the median leaves something that stops each (syscall_shim.c:577-596).
LEMMA ScansStayInside == ASSUME SortInv PROVE ScansInside
<1>1. CASE Scanning
  <2>1. run.i \in run.lo .. run.hi /\ run.j \in run.lo .. run.hi
    <3>1. /\ run.lo <= run.i /\ run.i <= run.hi /\ run.lo <= run.j /\ run.j <= run.hi
      BY <1>1 DEF SortInv, Partitioned
    <3>2. run.i \in Nat /\ run.j \in Nat /\ run.lo \in Nat /\ run.hi \in Nat
      BY TypesAre DEF SortInv
    <3> QED
      BY <3>1, <3>2
  <2>2. run.at # "push"
    BY <1>1 DEF Scanning
  <2> QED
    BY <2>1, <2>2 DEF ScansInside
<1>2. CASE ~Scanning
  BY <1>2 DEF SortInv, Met, Scanning, ScansInside
<1> QED
  BY <1>1, <1>2

\* qsort stays inside its ranges, of any array, and inside its own stack.  The larger part
\* is pushed first, so each range that waits is at most half as long as the one below it:
\* the stack of 64 does not fill up for an array that memory can hold, and the sort by
\* insertion of the whole array is not reached (syscall_shim.c:577-608).
THEOREM QsortNeverLeaves == SortSpec => []QsortStaysInside
<1>1. SortInv => QsortStaysInside
  BY ScansStayInside DEF SortInv, QsortStaysInside
<1> QED
  BY <1>1, SortInvariant, PTL

\* What qsort returns is in order and holds every value as often as what it was given,
\* for every array, cutoff and stack (syscall_shim.c:556-613).
THEOREM QsortReturnsSorted == SortSpec => []QsortSorts
<1>1. SortInv => QsortSorts
  <2> SUFFICES ASSUME SortInv, run.at = "done" PROVE QsortSorts
    BY DEF QsortSorts
  <2>1. SortTypeOK /\ Rearranged /\ InOrder
    BY DEF SortInv
  <2>2. \A p, q \in 1..N : p < q => arr[p] <= arr[q]
    BY <2>1 DEF InOrder
  <2>3. \A x : Cardinality({k \in 1..N : arr[k] = x})
                 = Cardinality({k \in DOMAIN asked : asked[k] = x})
    BY <2>1, Counts
  <2> QED
    BY <2>2, <2>3 DEF QsortSorts
<1> QED
  BY <1>1, SortInvariant, PTL
================================================================================
