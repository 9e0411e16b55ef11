--------------------------------- MODULE Tlsf ---------------------------------
(***************************************************************************)
(* The heap: the TLSF allocator (stubs/tlsf.c) on one pool, behind the     *)
(* malloc family of stubs/syscall_shim.c, as its stress test drives it     *)
(* (stress_alloc.c).                                                       *)
(*                                                                         *)
(* A block is named by the pointer its user gets, counted in words of 8    *)
(* bytes from the start of heap_pool.  Its size field lies in the word     *)
(* before, and the field prev_phys_block of its header in the word before  *)
(* that: the last word of the block below.  blk holds the headers of the   *)
(* blocks that the pool consists of: size, status (bit 0), before (bit 1,  *)
(* the status of the block below) and link (prev_phys_block, 0 when the    *)
(* word belongs to a user).  "wrote" collects the words that the allocator *)
(* writes during one call.  Every operator is a function from heap to heap.*)
(***************************************************************************)
EXTENDS SizeClass, SequencesExt

CONSTANTS Handles,   \* the pointers that the callers keep
          Cpus,      \* CPUs that call the allocator
          PoolStart, \* word of heap_pool after the control structure
          PoolWords, \* words given to tlsf_add_pool
          Sizes,     \* requested sizes
          Aligns     \* requested alignments

Overhead == 1     \* block_header_overhead
BlockSizeMin == 3 \* block_size_min
HeaderSize == 4   \* sizeof(block_header_t)
AlignSize == 1    \* ALIGN_SIZE

ASSUME PoolAssumption == /\ PoolStart \in Nat \ {0}
                         /\ PoolWords \in Nat
                         /\ PoolWords - 2 \in BlockSizeMin .. (BlockSizeMax - 1)
ASSUME RequestAssumption ==
  Sizes \subseteq Nat \ {0} /\ Aligns \subseteq {2^k : k \in 0..FlMax}

Words == PoolStart .. (PoolStart + PoolWords - 1)
First == PoolStart + Overhead
Sentinel == First + PoolWords - 2 + Overhead

-----------------------------------------------------------------------------
(* Blocks and their neighbours. *)

NextOf(h, p) == p + h.blk[p].size + Overhead
IsFree(h, p) == h.blk[p].status = "free"
Wrote(h, ws) == [h EXCEPT !.wrote = @ \cup ws]

LinkNext(h, p) ==
  Wrote([h EXCEPT !.blk[NextOf(h, p)].link = p], {NextOf(h, p) - 2})

SetBefore(h, p, s) == Wrote([h EXCEPT !.blk[p].before = s], {p - 1})

MarkAsFree(h, p) ==
  LET linked == SetBefore(LinkNext(h, p), NextOf(h, p), "free")
  IN Wrote([linked EXCEPT !.blk[p].status = "free"], {p - 1})

MarkAsUsed(h, p) ==
  Wrote([SetBefore(h, NextOf(h, p), "used") EXCEPT !.blk[p].status = "used"],
        {p - 1})

AlignUp(n, a) == ((n + a - 1) \div a) * a

\* Mutant: no minimum.
AdjustRequest_NoMin(n, a) == IF AlignUp(n, a) < BlockSizeMax THEN AlignUp(n, a) ELSE 0

\* The words a block needs for a request, 0 when there is no such block.
AdjustRequest(n, a) ==
  IF n > 0 /\ AlignUp(n, a) < BlockSizeMax
  THEN Max({AlignUp(n, a), BlockSizeMin}) ELSE 0

-----------------------------------------------------------------------------
(* The free lists and their bitmaps.  The intrusive links of a list lie in  *)
(* the first two words of its blocks.                                       *)

ClassOf(h, p) == MappingInsert(h.blk[p].size)

\* The first list from class c on that a bitmap declares not empty.
SearchSuitable(h, c) ==
  LET here  == {s \in 0..(SlCount - 1) : <<c[1], s>> \in h.sl /\ s >= c[2]}
      above == {f \in h.fl : f > c[1]}
      least == {s \in 0..(SlCount - 1) : <<Min(above), s>> \in h.sl}
  IN IF here # {} THEN {<<c[1], Min(here)>>}
     ELSE IF above = {} THEN {} ELSE {<<Min(above), Min(least)>>}

\* Mutant: the first-level bit goes with the first list that empties.
RemoveFree_ClearsLevel(h, p, c) ==
  LET rest == RemoveFirst(h.lists[c], p)
  IN [h EXCEPT !.lists[c] = rest,
               !.sl = IF rest = <<>> THEN @ \ {c} ELSE @,
               !.fl = IF rest = <<>> THEN @ \ {c[1]} ELSE @]

RemoveFree(h, p, c) ==
  LET rest == RemoveFirst(h.lists[c], p)
      sl   == IF rest = <<>> THEN h.sl \ {c} ELSE h.sl
  IN Wrote([h EXCEPT !.lists[c] = rest,
                     !.fl = IF \E d \in sl : d[1] = c[1] THEN @ ELSE @ \ {c[1]},
                     !.sl = sl],
           UNION {{q, q + 1} : q \in ToSet(rest)})

InsertFree(h, p) ==
  LET c == ClassOf(h, p)
  IN Wrote([h EXCEPT !.lists[c] = <<p>> \o @,
                     !.fl = @ \cup {c[1]}, !.sl = @ \cup {c}],
           {p, p + 1} \cup {q + 1 : q \in ToSet(h.lists[c])})

BlockRemove(h, p) == RemoveFree(h, p, ClassOf(h, p))

-----------------------------------------------------------------------------
(* Splitting and merging. *)

CanSplit(h, p, n) == h.blk[p].size >= HeaderSize + n

\* The upper part of a block of n words split off: block_set_size keeps the
\* flag bits it finds in the word, which has been the user's.
Rest(p, n) == p + n + Overhead
Split(h, p, n) ==
  LET q == Rest(p, n)
      upper == [size |-> h.blk[p].size - (n + Overhead), status |-> "free",
                before |-> "stale", link |-> 0]
      lower == [h.blk EXCEPT ![p].size = n]
      cut == [h EXCEPT !.blk = [b \in DOMAIN @ \cup {q} |-> IF b = q THEN upper ELSE lower[b]]]
  IN MarkAsFree(Wrote(cut, {p - 1, q - 1}), q)

Absorb(h, p, q) ==
  LET wide == [h EXCEPT !.blk[p].size = @ + h.blk[q].size + Overhead]
      gone == [wide EXCEPT !.blk = [b \in DOMAIN @ \ {q} |-> @[b]]]
  IN LinkNext(Wrote(gone, {p - 1}), p)

MergePrev(h, p) ==
  LET q == h.blk[p].link
  IN IF h.blk[p].before = "free"
     THEN [h |-> Absorb(BlockRemove(h, q), q, p), ptr |-> q]
     ELSE [h |-> h, ptr |-> p]

MergeNext(h, p) ==
  LET q == NextOf(h, p)
  IN IF IsFree(h, q) THEN Absorb(BlockRemove(h, q), p, q) ELSE h

TrimFree(h, p, n) ==
  IF CanSplit(h, p, n)
  THEN InsertFree(SetBefore(LinkNext(Split(h, p, n), p), Rest(p, n), "free"),
                  Rest(p, n))
  ELSE h

\* Mutant: the rest is not merged with a free block above it.
TrimUsed_NoMerge(h, p, n) ==
  IF CanSplit(h, p, n)
  THEN InsertFree(SetBefore(Split(h, p, n), Rest(p, n), "used"), Rest(p, n))
  ELSE h

TrimUsed(h, p, n) ==
  IF CanSplit(h, p, n)
  THEN InsertFree(MergeNext(SetBefore(Split(h, p, n), Rest(p, n), "used"),
                            Rest(p, n)), Rest(p, n))
  ELSE h

\* Gives back the gap words below; the block that starts after them.
TrimFreeLeading(h, p, gap) ==
  IF CanSplit(h, p, gap)
  THEN [h |-> InsertFree(LinkNext(SetBefore(Split(h, p, gap - Overhead), p + gap,
                                            "free"), p), p),
        ptr |-> p + gap]
  ELSE [h |-> h, ptr |-> p]

LocateFree(h, n) ==
  LET c == MappingSearch(n)
      found == IF n > 0 /\ c[1] < FlCount THEN SearchSuitable(h, c) ELSE {}
  IN IF found = {} THEN [h |-> h, ptr |-> 0]
     ELSE LET d == CHOOSE d \in found : TRUE
              p == Head(h.lists[d])
          IN [h |-> RemoveFree(h, p, d), ptr |-> p]

PrepareUsed(at, n) ==
  IF at.ptr = 0 THEN at
  ELSE [at EXCEPT !.h = MarkAsUsed(TrimFree(@, at.ptr, n), at.ptr)]

-----------------------------------------------------------------------------
(* The interface. *)

\* tlsf_create and tlsf_add_pool: one free block and the sentinel.
Created ==
  LET block    == [size |-> PoolWords - 2, status |-> "free", before |-> "used",
                   link |-> 0]
      sentinel == [size |-> 0, status |-> "used", before |-> "free", link |-> First]
  IN InsertFree([blk |-> [b \in {First, Sentinel} |-> IF b = First THEN block ELSE sentinel],
                 lists |-> [c \in Classes |-> <<>>],
                 fl |-> {}, sl |-> {}, wrote |-> {}], First)

TlsfMalloc(h, n) ==
  LET adjust == AdjustRequest(n, AlignSize)
  IN PrepareUsed(LocateFree(h, adjust), adjust)

\* Words to skip from p to an aligned pointer that leaves room for a block.
GapTo(p, a) ==
  LET gap == AlignUp(p, a) - p
  IN IF gap > 0 /\ gap < HeaderSize
     THEN AlignUp(AlignUp(p, a) + Max({HeaderSize - gap, a}), a) - p
     ELSE gap

TlsfMemalign(h, a, n) ==
  LET adjust  == AdjustRequest(n, AlignSize)
      withGap == AdjustRequest(adjust + a + HeaderSize, a)
      at      == LocateFree(h, IF adjust > 0 /\ a > AlignSize THEN withGap ELSE adjust)
      gap     == GapTo(at.ptr, a)
  IN PrepareUsed(IF at.ptr # 0 /\ gap > 0 THEN TrimFreeLeading(at.h, at.ptr, gap)
                 ELSE at, adjust)

TlsfFree(h, p) ==
  LET low == MergePrev(MarkAsFree(h, p), p)
  IN InsertFree(MergeNext(low.h, low.ptr), low.ptr)

\* Mutant: the old block goes back before its contents are copied.
TlsfMove_FreeFirst(h, p, n) ==
  LET at == TlsfMalloc(TlsfFree(h, p), n)
  IN [h |-> at.h, ptr |-> at.ptr, copied |-> 0]

\* A move: "copied" words of the old contents are in the new block.
TlsfMove(h, p, n) ==
  LET at == TlsfMalloc(h, n)
  IN IF at.ptr = 0 THEN [h |-> at.h, ptr |-> 0, copied |-> n]
     ELSE [h |-> TlsfFree(at.h, p), ptr |-> at.ptr,
           copied |-> Min({h.blk[p].size, n})]

\* The last case of tlsf_realloc: a pointer and a size that is not zero.
TlsfRealloc(h, p, n) ==
  LET next   == NextOf(h, p)
      size   == h.blk[p].size
      adjust == AdjustRequest(n, AlignSize)
      grown  == IF adjust > size THEN MarkAsUsed(MergeNext(h, p), p) ELSE h
  IN IF adjust > size /\ (~IsFree(h, next) \/ adjust > size + h.blk[next].size + Overhead)
     THEN TlsfMove(h, p, n)
     ELSE [h |-> TrimUsed(grown, p, adjust), ptr |-> p, copied |-> n]

-----------------------------------------------------------------------------
(* The callers: malloc, calloc, memalign, realloc and free.  Each takes     *)
(* heap_lock around the call, so the call is one step; only tlsf_ensure     *)
(* looks at g_tlsf_inited outside the lock.                                 *)

VARIABLES heap,    \* the pool
          inited,  \* g_tlsf_inited
          looked,  \* the CPUs that have found it clear, before they take the lock
          held,    \* what each handle holds
          damaged  \* handles whose contents have been lost

vars == <<heap, inited, looked, held, damaged>>

Abstract == INSTANCE Heap
Nothing == Abstract!Nothing
Region(r) == Abstract!Region(r)

Init == /\ heap = Created
        /\ inited = FALSE /\ looked = {}
        /\ held = [i \in Handles |-> Nothing] /\ damaged = {}

\* Some CPU is free to call.
Callable == inited /\ looked # Cpus

\* A caller writes over its region: the link of the block above is lost.
Settle(h, p) == [h EXCEPT !.wrote = {}, !.blk[NextOf(h, p)].link = 0]

\* Handles whose regions the allocator has written to.
Hit(h, but) == {j \in Handles \ but : Region(held[j]) \cap h.wrote # {}}

Look(c) ==
  /\ c \notin looked /\ ~inited
  /\ looked' = looked \cup {c}
  /\ UNCHANGED <<heap, inited, held, damaged>>

\* Mutant: the flag is not looked at again.
Ensure_NoRecheck(c) ==
  /\ c \in looked
  /\ heap' = [Created EXCEPT !.wrote = {}]
  /\ inited' = TRUE /\ looked' = looked \ {c}
  /\ UNCHANGED <<held, damaged>>

\* tlsf_ensure, under the lock.
Ensure(c) ==
  /\ c \in looked
  /\ heap' = IF inited THEN heap ELSE [Created EXCEPT !.wrote = {}]
  /\ inited' = TRUE /\ looked' = looked \ {c}
  /\ UNCHANGED <<held, damaged>>

\* The caller gets at.ptr, or keeps a null pointer.
Receive(i, at, n, a) ==
  /\ heap' = IF at.ptr = 0 THEN [at.h EXCEPT !.wrote = {}] ELSE Settle(at.h, at.ptr)
  /\ held' = IF at.ptr = 0 THEN held
             ELSE [held EXCEPT ![i] = [ptr |-> at.ptr, len |-> n, align |-> a]]
  /\ damaged' = damaged \cup Hit(at.h, {i})
  /\ UNCHANGED <<inited, looked>>

\* malloc, calloc, and memalign to at most 8 bytes.
Malloc(i, n) ==
  /\ Callable /\ held[i] = Nothing
  /\ Receive(i, TlsfMalloc(heap, n), n, AlignSize)

Memalign(i, a, n) ==
  /\ Callable /\ held[i] = Nothing /\ a > AlignSize
  /\ Receive(i, TlsfMemalign(heap, a, n), n, a)

Free(i) ==
  /\ Callable /\ held[i] # Nothing
  /\ LET h == TlsfFree(heap, held[i].ptr)
     IN /\ heap' = [h EXCEPT !.wrote = {}]
        /\ damaged' = damaged \cup Hit(h, {i})
  /\ held' = [held EXCEPT ![i] = Nothing]
  /\ UNCHANGED <<inited, looked>>

Realloc(i, n) ==
  /\ Callable /\ held[i] # Nothing
  /\ LET at   == TlsfRealloc(heap, held[i].ptr, n)
         kept == Min({held[i].len, n})
         lost == \/ at.copied < kept
                 \/ at.ptr = held[i].ptr /\ (at.ptr .. at.ptr + kept - 1) \cap at.h.wrote # {}
                 \/ at.ptr = 0 /\ Region(held[i]) \cap at.h.wrote # {}
     IN /\ heap' = IF at.ptr = 0 THEN [at.h EXCEPT !.wrote = {}] ELSE Settle(at.h, at.ptr)
        /\ held' = IF at.ptr = 0 THEN held
                   ELSE [held EXCEPT ![i] = [ptr |-> at.ptr, len |-> n, align |-> AlignSize]]
        /\ damaged' = damaged \cup Hit(at.h, {i}) \cup (IF lost THEN {i} ELSE {})
  /\ UNCHANGED <<inited, looked>>

Next ==
  \/ \E c \in Cpus : Look(c) \/ Ensure(c)
  \/ \E i \in Handles :
       \/ \E n \in Sizes : Malloc(i, n) \/ Realloc(i, n)
       \/ \E n \in Sizes, a \in Aligns : Memalign(i, a, n)
       \/ Free(i)

Spec == Init /\ [][Next]_vars

-----------------------------------------------------------------------------
(***************************************************************************)
(* Correctness.                                                            *)
(***************************************************************************)

\* tlsf_check_pool: the blocks follow one another through the pool, and each
\* knows the status of the block below.
CheckPool(h) ==
  /\ {First, Sentinel} \subseteq DOMAIN h.blk
  /\ h.blk[Sentinel].size = 0 /\ h.blk[First].before = "used"
  /\ \A p \in DOMAIN h.blk \ {Sentinel} :
       /\ NextOf(h, p) \in DOMAIN h.blk
       /\ {q \in DOMAIN h.blk : p < q /\ q < NextOf(h, p)} = {}
       /\ h.blk[NextOf(h, p)].before = h.blk[p].status
       /\ IsFree(h, p) => h.blk[NextOf(h, p)].link = p

\* tlsf_check: bitmaps and lists agree, a listed block is free, coalesced, not
\* too small and in the list of its size; every free block is listed once.
CheckLists(h) ==
  /\ h.sl = {c \in Classes : h.lists[c] # <<>>}
  /\ h.fl = {c[1] : c \in h.sl}
  /\ \A c \in Classes : \A p \in ToSet(h.lists[c]) :
       /\ p \in DOMAIN h.blk
       /\ IsFree(h, p) /\ ~IsFree(h, NextOf(h, p)) /\ h.blk[p].before = "used"
       /\ h.blk[p].size >= BlockSizeMin /\ ClassOf(h, p) = c
  /\ \A p \in DOMAIN h.blk : IsFree(h, p) =>
       LET list == h.lists[ClassOf(h, p)]
       IN \E i \in DOMAIN list : \A j \in DOMAIN list : list[j] = p <=> j = i

TlsfTypeOK ==
  /\ \A p \in DOMAIN heap.blk :
       /\ p \in First..Sentinel
       /\ heap.blk[p].size \in Nat /\ heap.blk[p].link \in {0} \cup (First..Sentinel)
       /\ heap.blk[p].status \in {"free", "used"}
       /\ heap.blk[p].before \in {"free", "used"}
  /\ heap.fl \subseteq 0..(FlCount - 1) /\ heap.sl \subseteq Classes
  /\ inited \in BOOLEAN /\ looked \subseteq Cpus /\ damaged \subseteq Handles
  /\ held \in [Handles -> [ptr : Words \cup {0}, len : Sizes \cup {0},
                           align : Aligns \cup {AlignSize}]]

\* What the allocator's own checkers insist on, after every call.
Integrity == CheckPool(heap) /\ CheckLists(heap)

\* No header, list link or merge touches a word that a caller holds, and
\* realloc keeps the contents, also when it refuses.
ContentsKept == damaged = {}

\* When all has been freed, in whatever order, the pool is one block again.
FreeMergesAll ==
  (\A i \in Handles : held[i] = Nothing) => DOMAIN heap.blk = {First, Sentinel}

\* A request is refused only when every free block is of a class below the one
\* that TLSF searches for it: no list with a block that would do is overlooked.
RefusesOnlyWhenFull ==
  \A n \in Sizes :
    LocateFree(heap, AdjustRequest(n, AlignSize)).ptr = 0 =>
      LET want == MappingSearch(AdjustRequest(n, AlignSize))
      IN \A p \in {q \in DOMAIN heap.blk : IsFree(heap, q)} :
           LET have == ClassOf(heap, p)
           IN have[1] < want[1] \/ (have[1] = want[1] /\ have[2] < want[2])

\* The allocator implements the abstract heap.
ImplementsHeap == Abstract!Spec
================================================================================
