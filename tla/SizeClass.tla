------------------------------- MODULE SizeClass -------------------------------
(***************************************************************************)
(* The size classes of the TLSF allocator (stubs/tlsf.c).  Free blocks are *)
(* kept in lists indexed by two levels: a power of two, and a linear       *)
(* subdivision of it.  Sizes are counted in words of ALIGN_SIZE = 8 bytes, *)
(* which every size of the allocator is a multiple of; the rounding of     *)
(* mapping_search, done in bytes by the code, adds the same number of      *)
(* whole words.                                                            *)
(***************************************************************************)
EXTENDS Integers, FiniteSets

CONSTANTS SlLog2,   \* SL_INDEX_COUNT_LOG2 (5 in the code)
          FlMax     \* FL_INDEX_MAX, in words (29 in the code: 2^32 bytes)

ASSUME LevelsAssumption == SlLog2 \in Nat /\ FlMax \in Nat /\ SlLog2 < FlMax

\* What the proofs use of powers of two.
ASSUME PowersAssumption ==
  /\ 2^0 = 1
  /\ \A k \in 0..(FlMax + 1) : 2^k \in Nat /\ 2^(k + 1) = 2 * 2^k

BlockSizeMax == 2^FlMax
SlCount == 2^SlLog2
FlCount == FlMax - SlLog2 + 1
Classes == (0..(FlCount - 1)) \X (0..(SlCount - 1))

\* The index of the highest bit set (tlsf_fls_sizet).
Fls(n) == CHOOSE k \in 0..(FlMax + 1) : 2^k <= n /\ n < 2^(k + 1)

\* The list that a block of n words is kept in.
MappingInsert(n) ==
  IF n < SlCount THEN <<0, n>>
  ELSE LET fl == Fls(n)
       IN <<fl - SlLog2 + 1, (n \div 2^(fl - SlLog2)) - SlCount>>

\* The first list all of whose blocks are large enough for n words.
MappingSearch(n) ==
  MappingInsert(IF n < SlCount THEN n ELSE n + 2^(Fls(n) - SlLog2) - 1)
================================================================================
