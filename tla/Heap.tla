--------------------------------- MODULE Heap ---------------------------------
(***************************************************************************)
(* What malloc, memalign, realloc and free promise their callers, whatever *)
(* the allocator behind them: a handle holds a region of the pool that no  *)
(* other handle's region meets, aligned as asked.                          *)
(***************************************************************************)
EXTENDS Integers

CONSTANTS Handles, \* the pointers that callers keep
          Words,   \* the words of the pool
          Sizes,   \* requested sizes, in words
          Aligns   \* alignments, in words

VARIABLE held      \* what each handle holds, with the size and alignment asked for

Nothing == [ptr |-> 0, len |-> 0, align |-> 1]

Region(r) == r.ptr .. (r.ptr + r.len - 1)

Init == held = [i \in Handles |-> Nothing]

\* Handle i could hold n words at p, whatever it holds now.
Fits(i, p, n) ==
  /\ p .. (p + n - 1) \subseteq Words
  /\ \A j \in Handles \ {i} : (p .. (p + n - 1)) \cap Region(held[j]) = {}

Grant(i, n, align) ==
  /\ held[i] = Nothing
  /\ \E p \in Words : /\ p % align = 0
                      /\ Fits(i, p, n)
                      /\ held' = [held EXCEPT ![i] = [ptr |-> p, len |-> n, align |-> align]]

\* The region may move; no alignment is kept.
Resize(i, n) ==
  /\ held[i] # Nothing
  /\ \E p \in Words : /\ Fits(i, p, n)
                      /\ held' = [held EXCEPT ![i] = [ptr |-> p, len |-> n, align |-> 1]]

Release(i) == held[i] # Nothing /\ held' = [held EXCEPT ![i] = Nothing]

\* A request may be refused at any time: that is a stuttering step.
Next == \E i \in Handles : \/ \E n \in Sizes, a \in Aligns \cup {1} : Grant(i, n, a)
                           \/ \E n \in Sizes : Resize(i, n)
                           \/ Release(i)

Spec == Init /\ [][Next]_held
================================================================================
