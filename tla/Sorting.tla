-------------------------------- MODULE Sorting --------------------------------
(***************************************************************************)
(* qsort of stubs/syscall_shim.c: insertion sort below Cutoff elements,    *)
(* above it a quicksort with a stack of its own, median of three and       *)
(* Hoare's partition, whose scans carry no bounds.  An array is a sequence *)
(* of integers; every element fits the 256 bytes of the pivot's copy.      *)
(***************************************************************************)
EXTENDS Integers, Sequences, FiniteSets

CONSTANTS Cutoff,    \* 32 in the code
          StackSize, \* 64 in the code
          Arrays     \* what qsort may be called with

ASSUME SortAssumption == /\ Cutoff \in Nat /\ Cutoff >= 3 /\ StackSize \in Nat /\ StackSize >= 2
                         /\ Arrays \subseteq Seq(Int)

\* What the proofs use of powers of two.
ASSUME PowersAssumption ==
  /\ 2^0 = 1
  /\ \A k \in 0..StackSize : 2^k \in Nat /\ 2^(k + 1) = 2 * 2^k

VARIABLES asked, \* the array of the call
          arr,   \* the array as it is
          stack, \* the ranges that wait to be sorted, as pairs <<lo, hi>>
          run    \* the range being sorted: where the code is, its cursors and pivot

sortVars == <<asked, arr, stack, run>>

N == Len(arr)

Size(range) == range[2] - range[1] + 1

\* The element that an insertion holds in tmp is shown in the gap it may fill.
Swapped(i, j) == [arr EXCEPT ![i] = arr[j], ![j] = arr[i]]

Proceed(at) == run' = [run EXCEPT !.at = at]

\* insertion_sort_bytes of lo .. hi, and where the code goes then.
InsertFrom(lo, hi, then) ==
  run' = [run EXCEPT !.at = IF lo < hi THEN "insert" ELSE then, !.lo = lo, !.hi = hi,
                     !.i = lo + 1, !.j = lo + 1, !.then = then]

SortInit ==
  /\ asked \in Arrays /\ arr = asked /\ stack = <<>>
  /\ run = [at |-> "call", then |-> "pop", lo |-> 1, hi |-> Len(asked), i |-> 1, j |-> 1,
            pivot |-> 0]

Enter ==
  /\ run.at = "call"
  /\ IF N < Cutoff THEN InsertFrom(1, N, "done") /\ stack' = stack
     ELSE stack' = << <<1, N>> >> /\ Proceed("pop")
  /\ UNCHANGED <<asked, arr>>

\* The element at j moves down while the one before it is larger; then the next one.
Insert ==
  /\ run.at = "insert"
  /\ IF run.j > run.lo /\ arr[run.j - 1] > arr[run.j]
     THEN arr' = Swapped(run.j - 1, run.j) /\ run' = [run EXCEPT !.j = @ - 1]
     ELSE /\ arr' = arr
          /\ run' = [run EXCEPT !.at = IF run.i < run.hi THEN "insert" ELSE run.then,
                                !.i = @ + 1, !.j = run.i + 1]
  /\ UNCHANGED <<asked, stack>>

\* The range on top: small ones by insertion.
Pop ==
  /\ run.at = "pop"
  /\ IF stack = <<>> THEN Proceed("done") /\ UNCHANGED stack
     ELSE LET range == stack[Len(stack)] IN
          /\ stack' = SubSeq(stack, 1, Len(stack) - 1)
          /\ IF Size(range) < Cutoff THEN InsertFrom(range[1], range[2], "pop")
             ELSE run' = [run EXCEPT !.at = "low", !.lo = range[1], !.hi = range[2],
                                     !.j = range[1] + Size(range) \div 2]
  /\ UNCHANGED <<asked, arr>>

\* Median of three: one comparison, and an exchange, of the elements at x and y.
Arrange(at, x, y, next) ==
  /\ run.at = at
  /\ arr' = IF arr[x] > arr[y] THEN Swapped(x, y) ELSE arr
  /\ next
  /\ UNCHANGED <<asked, stack>>

MedianOfThree ==
  \/ Arrange("low", run.lo, run.j, Proceed("high"))
  \/ Arrange("high", run.lo, run.hi, Proceed("mid"))
  \/ Arrange("mid", run.j, run.hi,
           run' = [run EXCEPT !.at = "up", !.i = run.lo, !.j = run.hi, !.pivot = arr'[run.j]])

\* Mutant: the scan passes what is equal to the pivot, too.
ScanUp_Equal ==
  /\ run.at = "up"
  /\ run' = IF arr[run.i] <= run.pivot THEN [run EXCEPT !.i = @ + 1] ELSE [run EXCEPT !.at = "down"]
  /\ UNCHANGED <<asked, arr, stack>>

\* Hoare's scans: the first element from i that is not below the pivot, the last
\* up to j that is not above it.
ScanUp ==
  /\ run.at = "up"
  /\ run' = IF arr[run.i] < run.pivot THEN [run EXCEPT !.i = @ + 1] ELSE [run EXCEPT !.at = "down"]
  /\ UNCHANGED <<asked, arr, stack>>

ScanDown ==
  /\ run.at = "down"
  /\ run' = IF arr[run.j] > run.pivot THEN [run EXCEPT !.j = @ - 1] ELSE [run EXCEPT !.at = "meet"]
  /\ UNCHANGED <<asked, arr, stack>>

\* Mutant: the cursors stay at what they exchanged.
Meet_Stay ==
  /\ run.at = "meet"
  /\ IF run.i >= run.j THEN arr' = arr /\ Proceed("push")
     ELSE arr' = Swapped(run.i, run.j) /\ Proceed("up")
  /\ UNCHANGED <<asked, stack>>

\* The cursors have met, or what they stopped at is exchanged.
Meet ==
  /\ run.at = "meet"
  /\ IF run.i >= run.j THEN arr' = arr /\ Proceed("push")
     ELSE /\ arr' = Swapped(run.i, run.j)
          /\ run' = [run EXCEPT !.i = @ + 1, !.j = @ - 1,
                                !.at = IF run.i + 1 > run.j - 1 THEN "push" ELSE "up"]
  /\ UNCHANGED <<asked, stack>>

\* Ranges of two and more elements are pushed while there is room.
Pushed(s, range) ==
  IF Size(range) > 1 /\ Len(s) < StackSize THEN Append(s, range) ELSE s

\* Mutant: the element where the scans meet is taken to be the pivot in its place.
Push_Skip ==
  LET left  == <<run.lo, run.j - 1>>
      right == <<run.i, run.hi>>
      next  == IF Size(left) > Size(right) THEN Pushed(Pushed(stack, left), right)
               ELSE Pushed(Pushed(stack, right), left)
  IN /\ run.at = "push" /\ stack' = next
     /\ IF Len(next) < StackSize THEN Proceed("pop") ELSE InsertFrom(1, N, "done")
     /\ UNCHANGED <<asked, arr>>

\* The larger range first; when the stack is then full, the whole array by insertion.
Push ==
  LET left  == <<run.lo, run.j>>
      right == <<run.i, run.hi>>
      next  == IF Size(left) > Size(right) THEN Pushed(Pushed(stack, left), right)
               ELSE Pushed(Pushed(stack, right), left)
  IN /\ run.at = "push" /\ stack' = next
     /\ IF Len(next) < StackSize THEN Proceed("pop") ELSE InsertFrom(1, N, "done")
     /\ UNCHANGED <<asked, arr>>

SortNext == Enter \/ Insert \/ Pop \/ MedianOfThree \/ ScanUp \/ ScanDown \/ Meet \/ Push

SortSpec == SortInit /\ [][SortNext]_sortVars /\ WF_sortVars(SortNext)

-----------------------------------------------------------------------------
SortTypeOK ==
  /\ asked \in Arrays /\ arr \in Seq(Int) /\ N = Len(asked)
  /\ stack \in Seq((1..N) \X (1..N)) /\ Len(stack) <= StackSize
  /\ run \in [at : {"call", "insert", "pop", "low", "high", "mid", "up", "down", "meet",
                    "push", "done"},
              then : {"pop", "done"}, lo : Nat, hi : Nat, i : Nat, j : Nat, pivot : Int]

\* The scans, which carry no bounds, stay inside their range, and leave less than it on
\* either side.
ScansInside ==
  /\ run.at \in {"up", "down", "meet"} => run.i \in run.lo .. run.hi
  /\ run.at \in {"up", "down", "meet"} => run.j \in run.lo .. run.hi
  /\ run.at = "push" => run.lo < run.i /\ run.j < run.hi

\* "push larger first to bound stack": it does not fill up, and the whole array is not
\* sorted by insertion, for any array that memory can hold.
StackBounded ==
  N >= Cutoff /\ N - 1 < (Cutoff - 1) * 2^(StackSize - 2) => run.then = "pop"

\* qsort stays inside its ranges, of the array and of its own stack, though neither the
\* scans nor the fallback look at the bounds of a range (syscall_shim.c:583-608).
QsortStaysInside == ScansInside /\ StackBounded

\* What qsort returns is sorted, and is what it was given in another order
\* (syscall_shim.c:556-613).
QsortSorts ==
  run.at = "done" =>
    /\ \A p, q \in 1..N : p < q => arr[p] <= arr[q]
    /\ \A x \in {asked[k] : k \in DOMAIN asked} : Cardinality({k \in 1..N : arr[k] = x})
                      = Cardinality({k \in DOMAIN asked : asked[k] = x})

\* A call of qsort returns, however many elements are equal (syscall_shim.c:569-609).
QsortReturns == <>(run.at = "done")
================================================================================
