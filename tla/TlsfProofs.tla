------------------------------- MODULE TlsfProofs -------------------------------
(***************************************************************************)
(* The allocator, for every pool, every number of levels, every set of     *)
(* handles, of alignments and of sizes below the largest block: it keeps   *)
(* its pool whole and its lists true, writes to no word that a caller      *)
(* holds, and implements the abstract heap.                                *)
(*                                                                         *)
(* Good is what the parts of a call hand to one another.  It names the     *)
(* blocks that are in no list yet (X), those not yet merged with a free    *)
(* block above them (Y) and the words that the call must not write to (s); *)
(* each operator of the allocator is shown to take one Good heap to        *)
(* another.  Between calls both sets are empty, and HeapInv adds who holds *)
(* which block.                                                            *)
(***************************************************************************)
EXTENDS Tlsf, WellFoundedInduction, SequenceTheorems, TLAPS

-----------------------------------------------------------------------------
(* Size classes: a class is a list of the table, and any block of a list   *)
(* that the search starts from is large enough.                            *)

Exponents == 0..(FlMax + 1)

LEMMA LeastElement ==
  ASSUME NEW T \in SUBSET Nat, T # {}
  PROVE  \E x \in T : \A y \in T : x <= y
<1> DEFINE R == OpToRel(<, Nat)
<1>1. IsWellFoundedOn(R, Nat)
  BY NatLessThanWellFounded
<1>2. PICK x \in T : \A y \in T : ~(<<y, x>> \in R)
  <2> HIDE DEF R
  <2> QED
    BY <1>1, WFMin
<1>3. \A y \in T : y < x => <<y, x>> \in R
  BY DEF OpToRel
<1>4. \A y \in T : ~(y < x) /\ y \in Nat /\ x \in Nat
  BY <1>2, <1>3
<1> QED
  BY <1>4

LEMMA Powers ==
  /\ SlLog2 \in Nat /\ FlMax \in Nat /\ SlLog2 < FlMax
  /\ \A k \in 0..(FlMax + 2) : 2^k \in Nat \ {0}
  /\ \A k \in Exponents : 2^(k + 1) = 2 * 2^k
  /\ 2^0 = 1
<1>1. SlLog2 \in Nat /\ FlMax \in Nat /\ SlLog2 < FlMax
  BY LevelsAssumption
<1>2. 2^0 = 1 /\ \A k \in Exponents : 2^k \in Nat /\ 2^(k + 1) = 2 * 2^k
  BY PowersAssumption DEF Exponents
<1> DEFINE Bad == {k \in 0..(FlMax + 2) : 2^k \notin Nat \ {0}}
<1>3. Bad = {}
  <2> SUFFICES ASSUME Bad # {} PROVE FALSE
    OBVIOUS
  <2>1. PICK k \in Bad : \A j \in Bad : k <= j
    <3>1. Bad \in SUBSET Nat
      BY <1>1
    <3> HIDE DEF Bad
    <3> QED
      BY <3>1, LeastElement
  <2>2. k \in 0..(FlMax + 2) /\ 2^k \notin Nat \ {0}
    OBVIOUS
  <2>3. ASSUME k = 0 PROVE FALSE
    <3>1. 2^k = 1
      BY <1>2, <2>3
    <3> QED
      BY <2>2, <3>1
  <2> DEFINE p == k - 1
  <2>4. p \in Exponents /\ p \in 0..(FlMax + 2) /\ p + 1 = k /\ p < k
    BY <1>1, <2>2, <2>3 DEF Exponents
  <2> HIDE DEF p
  <2>5. 2^p \in Nat \ {0}
    <3>1. p \notin Bad
      BY <2>1, <2>2, <2>4
    <3> QED
      BY <2>4, <3>1
  <2>6. 2^k = 2 * 2^p
    BY <1>2, <2>4
  <2> QED
    BY <2>2, <2>5, <2>6
<1> QED
  BY <1>1, <1>2, <1>3

LEMMA PowersGrow ==
  ASSUME NEW j \in 0..(FlMax + 2), NEW k \in 0..(FlMax + 2), j < k
  PROVE  2 * 2^j <= 2^k
<1> DEFINE Bad == {i \in (j + 1)..(FlMax + 2) : ~(2 * 2^j <= 2^i)}
<1> SUFFICES Bad = {}
  <2>1. k \in (j + 1)..(FlMax + 2)
    BY Powers
  <2> QED
    BY <2>1
<1> SUFFICES ASSUME Bad # {} PROVE FALSE
  OBVIOUS
<1>1. PICK i \in Bad : \A l \in Bad : i <= l
  <2>1. Bad \in SUBSET Nat
    BY Powers
  <2> HIDE DEF Bad
  <2> QED
    BY <2>1, LeastElement
<1> DEFINE p == i - 1
<1>2. i \in (j + 1)..(FlMax + 2) /\ ~(2 * 2^j <= 2^i)
  BY <1>1
<1>3. /\ p \in Exponents /\ j \in Exponents /\ p \in 0..(FlMax + 2)
      /\ p + 1 = i /\ p < i /\ i \in Nat
  BY <1>2, Powers DEF Exponents
<1> HIDE DEF p
<1>4. 2^i = 2 * 2^p /\ 2^p \in Nat /\ 2^j \in Nat
  BY <1>3, Powers
<1>5. CASE p = j
  BY <1>2, <1>4, <1>5
<1>6. CASE p # j
  <2>1. p \in (j + 1)..(FlMax + 2) /\ p \notin Bad
    BY <1>1, <1>2, <1>3, <1>6, Powers
  <2>2. 2 * 2^j <= 2^p
    BY <2>1
  <2> QED
    BY <1>2, <1>4, <2>2
<1> QED
  BY <1>5, <1>6

\* The subdivision: a power from SlLog2 on is SlCount units.
LEMMA PowersMultiply ==
  ASSUME NEW f \in SlLog2..(FlMax + 1)
  PROVE  2^f = SlCount * 2^(f - SlLog2)
<1> DEFINE Bad == {i \in SlLog2..(FlMax + 1) : 2^i # SlCount * 2^(i - SlLog2)}
<1> SUFFICES Bad = {}
  OBVIOUS
<1> SUFFICES ASSUME Bad # {} PROVE FALSE
  OBVIOUS
<1>1. PICK i \in Bad : \A l \in Bad : i <= l
  <2>1. Bad \in SUBSET Nat
    BY Powers
  <2> HIDE DEF Bad
  <2> QED
    BY <2>1, LeastElement
<1>2. i \in SlLog2..(FlMax + 1) /\ i \in Nat
  BY <1>1, Powers
<1>3. SlCount \in Nat
  BY Powers DEF SlCount
<1>4. CASE i = SlLog2
  <2>1. i - SlLog2 = 0
    BY <1>4, Powers
  <2>2. 2^(i - SlLog2) = 1
    BY <2>1, Powers
  <2>3. 2^i = SlCount
    BY <1>4 DEF SlCount
  <2> QED
    BY <1>1, <1>3, <2>2, <2>3
<1>5. CASE i # SlLog2
  <2>1. /\ i - 1 \in SlLog2..(FlMax + 1) /\ i - 1 \notin Bad
        /\ i - 1 \in Exponents /\ (i - 1) - SlLog2 \in Exponents
        /\ (i - 1) + 1 = i /\ ((i - 1) - SlLog2) + 1 = i - SlLog2
    BY <1>1, <1>2, <1>5, Powers DEF Exponents
  <2>2. 2^(i - 1) = SlCount * 2^((i - 1) - SlLog2)
    BY <2>1
  <2>3. 2^i = 2 * 2^(i - 1) /\ 2^(i - SlLog2) = 2 * 2^((i - 1) - SlLog2)
    BY <2>1, Powers
  <2>4. 2^((i - 1) - SlLog2) \in Nat
    BY <2>1, Powers DEF Exponents
  <2>5. ASSUME NEW a \in Nat, NEW b \in Nat
        PROVE  2 * (a * b) = a * (2 * b)
    OBVIOUS
  <2>6. 2^i = SlCount * 2^(i - SlLog2)
    BY <1>3, <2>2, <2>3, <2>4, <2>5
  <2> QED
    BY <1>1, <2>6
<1> QED
  BY <1>4, <1>5

\* The highest bit, of every number that has one below 2^(FlMax + 2).
LEMMA FlsFinds ==
  ASSUME NEW n \in Nat, n > 0, n < 2^(FlMax + 2)
  PROVE  Fls(n) \in Exponents /\ 2^Fls(n) <= n /\ n < 2^(Fls(n) + 1)
<1> DEFINE T == {k \in Exponents : n < 2^(k + 1)}
<1>1. T # {}
  <2>1. FlMax + 1 \in Exponents /\ (FlMax + 1) + 1 = FlMax + 2
    BY Powers DEF Exponents
  <2> QED
    BY <2>1
<1>2. PICK k \in T : \A j \in T : k <= j
  <2>1. T \in SUBSET Nat
    BY Powers DEF Exponents
  <2> HIDE DEF T
  <2> QED
    BY <1>1, <2>1, LeastElement
<1>3. 2^k <= n
  <2>1. CASE k = 0
    BY <2>1, Powers
  <2>2. CASE k # 0
    <3>1. k - 1 \in Exponents /\ k - 1 \notin T /\ (k - 1) + 1 = k
      BY <1>2, <2>2, Powers DEF Exponents
    <3>2. 2^k \in Nat
      BY <1>2, Powers DEF Exponents
    <3> QED
      BY <3>1, <3>2
  <2> QED
    BY <2>1, <2>2
<1>4. \E j \in Exponents : 2^j <= n /\ n < 2^(j + 1)
  BY <1>2, <1>3
<1> QED
  BY <1>4 DEF Fls, Exponents

\* A larger number has as high a bit.
LEMMA FlsGrows ==
  ASSUME NEW n \in Nat, NEW m \in Nat, n > 0, n <= m, m < 2^(FlMax + 2)
  PROVE  Fls(n) <= Fls(m)
<1>1. n < 2^(FlMax + 2) /\ 2^(FlMax + 2) \in Nat
  BY Powers
<1>2. /\ Fls(n) \in Exponents /\ 2^Fls(n) <= n
      /\ Fls(m) \in Exponents /\ m < 2^(Fls(m) + 1)
  BY <1>1, FlsFinds
<1>3. CASE Fls(m) < Fls(n)
  <2>1. Fls(m) + 1 = Fls(n) \/ Fls(m) + 1 < Fls(n)
    BY <1>2, <1>3, Powers DEF Exponents
  <2>2. /\ 2^(Fls(m) + 1) \in Nat /\ 2^Fls(n) \in Nat
        /\ Fls(m) + 1 \in 0..(FlMax + 2) /\ Fls(n) \in 0..(FlMax + 2)
    BY <1>2, Powers DEF Exponents
  <2>3. 2^(Fls(m) + 1) <= 2^Fls(n)
    BY <2>1, <2>2, PowersGrow
  <2> QED
    BY <1>2, <2>2, <2>3
<1> QED
  BY <1>2, <1>3, Powers DEF Exponents

\* The unit of the level of a number that is subdivided.
LEMMA Unit ==
  ASSUME NEW n \in Nat, n >= SlCount, n < 2^(FlMax + 2)
  PROVE  /\ Fls(n) \in SlLog2..(FlMax + 1)
         /\ 2^(Fls(n) - SlLog2) \in Nat \ {0}
         /\ 2^Fls(n) = SlCount * 2^(Fls(n) - SlLog2)
         /\ 2^Fls(n) <= n /\ n < 2 * 2^Fls(n)
         /\ SlCount \in Nat \ {0}
<1>1. SlCount \in Nat \ {0}
  BY Powers DEF SlCount
<1>2. /\ Fls(n) \in Exponents /\ 2^Fls(n) <= n /\ n < 2^(Fls(n) + 1)
  BY <1>1, FlsFinds
<1>3. Fls(n) >= SlLog2
  <2>1. CASE Fls(n) < SlLog2
    <3>1. Fls(n) + 1 = SlLog2 \/ Fls(n) + 1 < SlLog2
      BY <1>2, <2>1, Powers DEF Exponents
    <3>2. Fls(n) + 1 \in 0..(FlMax + 2) /\ SlLog2 \in 0..(FlMax + 2)
      BY <1>2, Powers DEF Exponents
    <3>3. 2^(Fls(n) + 1) \in Nat /\ 2^(Fls(n) + 1) <= SlCount
      BY <3>1, <3>2, Powers, PowersGrow DEF SlCount
    <3> QED
      BY <1>1, <1>2, <3>3
  <2> QED
    BY <1>2, <2>1, Powers DEF Exponents
<1>4. Fls(n) \in SlLog2..(FlMax + 1) /\ Fls(n) - SlLog2 \in 0..(FlMax + 2)
  BY <1>2, <1>3, Powers DEF Exponents
<1> QED
  BY <1>1, <1>2, <1>4, Powers, PowersMultiply

LEMMA Division ==
  ASSUME NEW n \in Nat, NEW u \in Nat \ {0}
  PROVE  /\ n \div u \in Nat
         /\ u * (n \div u) <= n /\ n < u * (n \div u) + u
  BY SMT

\* One class at or above another in the order in which the search goes.
AtOrAbove(c, d) == c[1] > d[1] \/ (c[1] = d[1] /\ c[2] >= d[2])

\* A block of any list that the search may take it from is large enough: the rounding
\* of mapping_search makes up for the division of mapping_insert (tlsf.c:515-543).
THEOREM SearchIsEnough ==
  ASSUME NEW n \in Nat, NEW s \in Nat, n > 0, n <= BlockSizeMax, s <= BlockSizeMax,
         AtOrAbove(MappingInsert(s), MappingSearch(n))
  PROVE  s >= n
<1>0. SlCount \in Nat \ {0}
  BY Powers DEF SlCount
<1>1. CASE n < SlCount
  BY <1>0, <1>1, Unit DEF MappingInsert, MappingSearch, AtOrAbove
<1>2. CASE n >= SlCount
  <2> DEFINE f == Fls(n)
             u == 2^(f - SlLog2)
             r == n + u - 1
             g == Fls(r)
             v == 2^(g - SlLog2)
             h == Fls(s)
  <2>1. /\ BlockSizeMax \in Nat /\ 2^(FlMax + 1) = 2 * BlockSizeMax
        /\ 2^(FlMax + 2) = 4 * BlockSizeMax /\ BlockSizeMax > 0
    <3>1. FlMax \in Exponents /\ FlMax + 1 \in Exponents /\ (FlMax + 1) + 1 = FlMax + 2
      BY Powers DEF Exponents
    <3>2. 2^FlMax \in Nat \ {0} /\ 2^(FlMax + 1) = 2 * 2^FlMax /\ 2^(FlMax + 2) = 2 * 2^(FlMax + 1)
      BY <3>1, Powers DEF Exponents
    <3> QED
      BY <3>2 DEF BlockSizeMax
  <2>2. /\ f \in SlLog2..(FlMax + 1) /\ u \in Nat \ {0} /\ 2^f = SlCount * u
        /\ 2^f <= n /\ n < 2 * 2^f
    BY <1>2, <2>1, Unit
  <2>3. u <= n
    <3>1. u <= SlCount * u
      BY <1>0, <2>2
    <3> QED
      BY <2>2, <3>1
  <2>4. r \in Nat /\ n <= r /\ r < 2^(FlMax + 2)
    BY <2>1, <2>2, <2>3
  <2>5. /\ g \in SlLog2..(FlMax + 1) /\ v \in Nat \ {0} /\ f <= g
    <3> HIDE DEF r, u
    <3> QED
      BY <1>0, <1>2, <2>4, Unit, FlsGrows
  <2>6. MappingSearch(n) = <<g - SlLog2 + 1, (r \div v) - SlCount>>
    BY <1>0, <1>2, <2>4 DEF MappingSearch, MappingInsert
  <2>7. CASE s < SlCount
    <3>1. MappingInsert(s) = <<0, s>>
      BY <2>7 DEF MappingInsert
    <3>2. g - SlLog2 + 1 >= 1
      BY <2>5, Powers
    <3> HIDE DEF g, v, r
    <3> QED
      BY <2>5, <2>6, <3>1, <3>2, Powers DEF AtOrAbove
  <2>8. CASE s >= SlCount
    <3> DEFINE w == 2^(h - SlLog2)
    <3>1. /\ h \in SlLog2..(FlMax + 1) /\ w \in Nat \ {0} /\ 2^h <= s /\ 2^h \in Nat
      BY <1>0, <2>1, <2>8, Unit, Powers
    <3>2. MappingInsert(s) = <<h - SlLog2 + 1, (s \div w) - SlCount>>
      BY <1>0, <2>8 DEF MappingInsert
    <3>3. h > g \/ (h = g /\ (s \div w) - SlCount >= (r \div v) - SlCount)
      <4> HIDE DEF g, v, r, h, w
      <4> QED
        BY <2>5, <2>6, <3>1, <3>2, Powers DEF AtOrAbove
    <3>4. CASE h > f
      <4>1. f \in 0..(FlMax + 2) /\ h \in 0..(FlMax + 2)
        BY <2>2, <3>1, Powers
      <4>2. 2 * 2^f <= 2^h /\ 2^f \in Nat
        BY <3>4, <4>1, PowersGrow, Powers
      <4> QED
        BY <2>2, <3>1, <4>2
    <3>5. CASE h <= f
      <4>1. h = g /\ g = f /\ w = u /\ v = u
        <5>1. h = g /\ g = f
          BY <2>2, <2>5, <3>1, <3>3, <3>5, Powers
        <5> QED
          BY <5>1
      <4> HIDE DEF g, h, w, v, u, r
      <4>2. s \div u >= r \div u
        <5>1. s \div u \in Nat /\ r \div u \in Nat
          BY <2>2, <2>4, Division
        <5> QED
          BY <1>0, <2>2, <3>1, <3>3, <4>1, <5>1
      <4>3. /\ u * (s \div u) <= s /\ r < u * (r \div u) + u
            /\ s \div u \in Nat /\ r \div u \in Nat
        BY <2>2, <2>4, Division
      <4>4. u * (s \div u) >= u * (r \div u)
        BY <2>2, <4>2, <4>3
      <4>5. r = n + u - 1
        BY DEF r
      <4> QED
        BY <2>2, <4>3, <4>4, <4>5
    <3> QED
      BY <2>2, <3>1, <3>4, <3>5, Powers
  <2> QED
    BY <1>0, <2>7, <2>8
<1> QED
  BY <1>0, <1>1, <1>2

\* The list of a block that is smaller than the largest is in the table: neither level
\* runs over its bitmap (tlsf.c:346-358, 515-532).
THEOREM ClassInTable ==
  ASSUME NEW n \in Nat, n < BlockSizeMax
  PROVE  MappingInsert(n) \in Classes
<1>1. /\ SlCount \in Nat \ {0} /\ FlCount \in Nat \ {0} /\ FlCount - 1 = FlMax - SlLog2
  BY Powers DEF SlCount, FlCount
<1>2. CASE n < SlCount
  BY <1>1, <1>2 DEF MappingInsert, Classes
<1>3. CASE n >= SlCount
  <2> DEFINE f == Fls(n)
             u == 2^(f - SlLog2)
  <2>1. n < 2^(FlMax + 2) /\ BlockSizeMax \in Nat
    <3>1. FlMax \in 0..(FlMax + 2) /\ FlMax + 2 \in 0..(FlMax + 2) /\ FlMax < FlMax + 2
      BY Powers
    <3>2. 2 * BlockSizeMax <= 2^(FlMax + 2) /\ BlockSizeMax \in Nat /\ 2^(FlMax + 2) \in Nat
      BY <3>1, Powers, PowersGrow DEF BlockSizeMax
    <3> QED
      BY <3>2
  <2>2. /\ f \in SlLog2..(FlMax + 1) /\ u \in Nat \ {0} /\ 2^f = SlCount * u
        /\ 2^f <= n /\ n < 2 * 2^f
    BY <1>3, <2>1, Unit
  <2>3. f < FlMax
    <3>1. CASE f >= FlMax
      <4>1. f = FlMax \/ FlMax < f
        BY <2>2, <3>1, Powers
      <4>2. f \in 0..(FlMax + 2) /\ FlMax \in 0..(FlMax + 2)
        BY <2>2, Powers
      <4>3. BlockSizeMax <= 2^f /\ 2^f \in Nat
        BY <4>1, <4>2, Powers, PowersGrow DEF BlockSizeMax
      <4> QED
        BY <2>1, <2>2, <4>3
    <3> QED
      BY <2>2, <3>1, Powers
  <2>4. MappingInsert(n) = <<f - SlLog2 + 1, (n \div u) - SlCount>>
    BY <1>1, <1>3 DEF MappingInsert
  <2> HIDE DEF f, u
  <2>5. (n \div u) - SlCount \in 0..(SlCount - 1)
    <3>1. n \div u \in Nat /\ u * (n \div u) <= n /\ n < u * (n \div u) + u
      BY <2>2, Division
    <3>2. SlCount <= n \div u
      <4>1. SlCount * u < u * ((n \div u) + 1)
        BY <1>1, <2>2, <3>1
      <4> QED
        BY <1>1, <2>2, <3>1, <4>1
    <3>3. n \div u < 2 * SlCount
      <4>1. u * (n \div u) < u * (2 * SlCount)
        BY <1>1, <2>2, <3>1
      <4> QED
        BY <1>1, <2>2, <3>1, <4>1
    <3> QED
      BY <1>1, <3>1, <3>2, <3>3
  <2>6. f - SlLog2 + 1 \in 0..(FlCount - 1)
    BY <1>1, <2>2, <2>3, Powers
  <2> QED
    BY <2>4, <2>5, <2>6 DEF Classes
<1> QED
  BY <1>1, <1>2, <1>3

-----------------------------------------------------------------------------
(* Lists. *)
\* A list without repetitions.
Distinct(s) == \A i, j \in DOMAIN s : s[i] = s[j] => i = j

\* Taking an element out of a list without repetitions (remove_free_block).
LEMMA RemoveFirstDoes ==
  ASSUME NEW s \in Seq(Nat), Distinct(s), NEW e \in ToSet(s)
  PROVE  /\ RemoveFirst(s, e) \in Seq(Nat) /\ Distinct(RemoveFirst(s, e))
         /\ ToSet(RemoveFirst(s, e)) = ToSet(s) \ {e}
<1> DEFINE I == {i \in 1..Len(s) : s[i] = e}
           k == Min(I)
           low == SubSeq(s, 1, k - 1)
           high == SubSeq(s, k + 1, Len(s))
           t == low \o high
<1>1. DOMAIN s = 1..Len(s) /\ Len(s) \in Nat
  OBVIOUS
<1>2. I # {}
  BY <1>1 DEF ToSet
<1>3. RemoveFirst(s, e) = t
  BY <1>2 DEF RemoveFirst, SelectInSeq, RemoveAt
<1>4. k \in 1..Len(s) /\ s[k] = e
  <2>1. \E x \in I : \A y \in I : x <= y
    <3>1. I \in SUBSET Nat
      OBVIOUS
    <3> HIDE DEF I
    <3> QED BY <1>2, <3>1, LeastElement
  <2>2. k \in I
    <3> HIDE DEF I
    <3> QED BY <2>1 DEF Min
  <2> QED BY <2>2
<1> HIDE DEF k
<1>5. /\ low \in Seq(Nat) /\ Len(low) = k - 1 /\ \A i \in 1..(k - 1) : low[i] = s[i]
      /\ high \in Seq(Nat) /\ Len(high) = Len(s) - k /\ \A i \in 1..(Len(s) - k) : high[i] = s[i + k]
  <2>1. k - 1 \in 0..Len(s) /\ k + 1 \in 1..(Len(s) + 1)
    BY <1>1, <1>4
  <2>2. low \in Seq(Nat) /\ Len(low) = k - 1 /\ \A i \in 1..(k - 1) : low[i] = s[i]
    BY <2>1, <1>4, SubSeqProperties
  <2>3. high \in Seq(Nat) /\ Len(high) = Len(s) - k /\ \A i \in 1..(Len(s) - k) : high[i] = s[i + k]
    BY <2>1, <1>4
  <2> QED BY <2>2, <2>3
<1> HIDE DEF low, high
<1>6. /\ t \in Seq(Nat) /\ Len(t) = Len(s) - 1
      /\ \A i \in 1..(Len(s) - 1) : t[i] = IF i < k THEN s[i] ELSE s[i + 1]
  <2>1. /\ t \in Seq(Nat) /\ Len(t) = Len(low) + Len(high)
        /\ \A i \in 1..(Len(low) + Len(high)) : t[i] = IF i <= Len(low) THEN low[i] ELSE high[i - Len(low)]
    BY <1>5, ConcatProperties
  <2>2. Len(low) + Len(high) = Len(s) - 1
    BY <1>1, <1>4, <1>5
  <2>3. ASSUME NEW i \in 1..(Len(s) - 1) PROVE t[i] = IF i < k THEN s[i] ELSE s[i + 1]
    <3>1. t[i] = IF i <= k - 1 THEN low[i] ELSE high[i - (k - 1)]
      BY <2>1, <2>2, <1>5
    <3>2. CASE i < k
      <4>1. i \in 1..(k - 1)
        BY <1>1, <1>4, <3>2
      <4>2. low[i] = s[i]
        BY <4>1, <1>5
      <4> QED BY <4>1, <4>2, <3>1, <3>2, <1>1, <1>4
    <3>3. CASE ~(i < k)
      <4>1. i - (k - 1) \in 1..(Len(s) - k) /\ (i - (k - 1)) + k = i + 1
        BY <1>1, <1>4, <3>3
      <4>2. t[i] = high[i - (k - 1)]
        BY <3>1, <1>1, <1>4, <3>3
      <4>3. high[i - (k - 1)] = s[(i - (k - 1)) + k]
        BY <4>1, <1>5
      <4> QED BY <4>1, <4>2, <4>3, <3>3, <1>1, <1>4
    <3> QED BY <3>2, <3>3, <1>1, <1>4
  <2> QED BY <2>1, <2>2, <2>3
<1> HIDE DEF t
<1>7. DOMAIN t = 1..(Len(s) - 1)
  BY <1>6, <1>1
<1>8. Distinct(t)
  <2> SUFFICES ASSUME NEW i \in 1..(Len(s) - 1), NEW j \in 1..(Len(s) - 1), t[i] = t[j]
               PROVE  i = j
    BY <1>7 DEF Distinct
  <2> DEFINE Old(n) == IF n < k THEN n ELSE n + 1
  <2>1. ASSUME NEW n \in 1..(Len(s) - 1)
        PROVE  Old(n) \in 1..Len(s) /\ t[n] = s[Old(n)]
    <3>1. t[n] = IF n < k THEN s[n] ELSE s[n + 1]
      BY <1>6
    <3>2. n \in Nat /\ k \in Nat /\ 1 <= n /\ n < Len(s) /\ Len(s) \in Nat
      BY <1>1, <1>4
    <3> QED BY <3>1, <3>2
  <2>2. Old(i) = Old(j)
    <3> HIDE DEF Old
    <3> QED BY <1>1, <2>1 DEF Distinct
  <2> QED BY <1>1, <1>4, <2>2
<1>9. ToSet(t) = ToSet(s) \ {e}
  <2>1. ASSUME NEW x \in ToSet(t) PROVE x \in ToSet(s) \ {e}
    <3>1. PICK i \in 1..(Len(s) - 1) : t[i] = x
      BY <1>7 DEF ToSet
    <3>2. PICK j \in 1..Len(s) : j # k /\ t[i] = s[j]
      BY <1>1, <1>4, <1>6
    <3>3. s[j] # e
      BY <1>1, <1>4, <3>2 DEF Distinct
    <3> QED BY <1>1, <3>1, <3>2, <3>3 DEF ToSet
  <2>2. ASSUME NEW x \in ToSet(s), x # e PROVE x \in ToSet(t)
    <3>1. PICK i \in 1..Len(s) : s[i] = x
      BY <1>1 DEF ToSet
    <3>2. i # k
      BY <1>4, <3>1, <2>2
    <3>3. CASE i < k
      <4>1. i \in 1..(Len(s) - 1) /\ t[i] = x
        BY <1>1, <1>4, <1>6, <3>1, <3>3
      <4> QED BY <4>1, <1>7 DEF ToSet
    <3>4. CASE i > k
      <4>1. i - 1 \in 1..(Len(s) - 1) /\ t[i - 1] = x
        BY <1>1, <1>4, <1>6, <3>1, <3>4
      <4> QED BY <4>1, <1>7 DEF ToSet
    <3> QED BY <1>4, <3>1, <3>2, <3>3, <3>4
  <2> QED BY <2>1, <2>2
<1> QED BY <1>3, <1>6, <1>8, <1>9

\* Putting a new one at its head (insert_free_block).
LEMMA PushDoes ==
  ASSUME NEW s \in Seq(Nat), Distinct(s), NEW e \in Nat, e \notin ToSet(s)
  PROVE  /\ <<e>> \o s \in Seq(Nat) /\ Distinct(<<e>> \o s)
         /\ ToSet(<<e>> \o s) = ToSet(s) \cup {e}
<1> DEFINE t == <<e>> \o s
<1>1. /\ t \in Seq(Nat) /\ Len(t) = Len(s) + 1 /\ Len(s) \in Nat
      /\ \A i \in 1..(Len(s) + 1) : t[i] = IF i = 1 THEN e ELSE s[i - 1]
  OBVIOUS
<1>2. DOMAIN t = 1..(Len(s) + 1) /\ DOMAIN s = 1..Len(s)
  BY <1>1
<1> HIDE DEF t
<1>3. \A i \in 1..Len(s) : s[i] # e
  BY <1>2 DEF ToSet
<1>4. Distinct(t)
  <2> SUFFICES ASSUME NEW i \in 1..(Len(s) + 1), NEW j \in 1..(Len(s) + 1), t[i] = t[j]
               PROVE  i = j
    BY <1>2 DEF Distinct
  <2>1. \A m \in 2..(Len(s) + 1) : t[m] # e
    <3> TAKE m \in 2..(Len(s) + 1)
    <3>1. m - 1 \in 1..Len(s) /\ t[m] = s[m - 1]
      BY <1>1
    <3> QED BY <1>3, <3>1
  <2>2. CASE i = 1 \/ j = 1
    <3>1. t[1] = e
      BY <1>1
    <3> QED BY <1>1, <2>1, <2>2, <3>1
  <2>3. CASE i # 1 /\ j # 1
    <3>1. i - 1 \in 1..Len(s) /\ j - 1 \in 1..Len(s) /\ Len(s) \in Nat
      BY <1>1, <2>3
    <3>2. t[i] = s[i - 1] /\ t[j] = s[j - 1]
      BY <1>1, <2>3
    <3>3. i - 1 = j - 1
      BY <1>2, <3>1, <3>2 DEF Distinct
    <3> QED BY <3>1, <3>3
  <2> QED BY <2>2, <2>3
<1>5. ToSet(t) = ToSet(s) \cup {e}
  <2>1. \A x \in ToSet(t) : x \in ToSet(s) \cup {e}
    <3> TAKE x \in ToSet(t)
    <3>1. PICK i \in 1..(Len(s) + 1) : t[i] = x
      BY <1>2 DEF ToSet
    <3>2. CASE i = 1
      BY <1>1, <3>1, <3>2
    <3>3. CASE i # 1
      <4>1. i - 1 \in 1..Len(s) /\ s[i - 1] = x
        BY <1>1, <3>1, <3>3
      <4> QED BY <4>1, <1>2 DEF ToSet
    <3> QED BY <3>2, <3>3
  <2>2. \A x \in ToSet(s) : x \in ToSet(t)
    <3> TAKE x \in ToSet(s)
    <3>1. PICK i \in 1..Len(s) : s[i] = x
      BY <1>2 DEF ToSet
    <3>2. i + 1 \in 1..(Len(s) + 1) /\ t[i + 1] = x
      BY <1>1, <3>1
    <3> QED BY <3>2, <1>2 DEF ToSet
  <2>3. 1 \in DOMAIN t /\ t[1] = e
    BY <1>1, <1>2
  <2>4. e \in ToSet(t)
    BY <2>3 DEF ToSet
  <2> QED BY <2>1, <2>2, <2>4
<1> QED BY <1>1, <1>4, <1>5 DEF t

-----------------------------------------------------------------------------
(* Headers: what one assignment changes. *)
\* The types of the fields. The flag of a block just split off may be stale.
Statuses == {"free", "used"}
Block == [size : Nat, status : Statuses, before : Statuses \cup {"stale"},
          link : {0} \cup (First..Sentinel)]

\* The type of a heap in the middle of a call.
Record(h) ==
  /\ h = [blk |-> h.blk, lists |-> h.lists, fl |-> h.fl, sl |-> h.sl, wrote |-> h.wrote]
  /\ DOMAIN h.blk \subseteq First..Sentinel
  /\ h.blk \in [DOMAIN h.blk -> Block]
  /\ h.lists \in [Classes -> Seq(Nat)]
  /\ h.wrote \subseteq Int

\* The constants of the pool, as the proofs use them.
LEMMA Pool ==
  /\ First \in Nat \ {0} /\ Sentinel \in Nat /\ Sentinel = First + PoolWords - 1
  /\ PoolWords \in Nat /\ PoolWords >= 5 /\ PoolWords - 2 < BlockSizeMax
  /\ First < Sentinel /\ BlockSizeMax \in Nat
<1>1. BlockSizeMax \in Nat
  BY Powers DEF BlockSizeMax
<1>2. PoolStart \in Nat \ {0} /\ PoolWords \in Nat /\ PoolWords - 2 \in 3 .. (BlockSizeMax - 1)
  BY PoolAssumption DEF BlockSizeMin
<1> QED
  BY <1>1, <1>2 DEF First, Sentinel, Overhead

\* Everything but the blocks is as it was.
Beside(h, g) == g.lists = h.lists /\ g.fl = h.fl /\ g.sl = h.sl

\* What the type of a heap says of one block.
LEMMA BlockIs ==
  ASSUME NEW h, Record(h), NEW b \in DOMAIN h.blk
  PROVE  /\ b \in Nat /\ h.blk[b].size \in Nat
         /\ h.blk[b].status \in Statuses /\ h.blk[b].before \in Statuses \cup {"stale"}
         /\ h.blk[b].link \in {0} \cup (First..Sentinel)
         /\ h.blk[b] \in Block
<1>1. h.blk[b] \in Block /\ b \in First..Sentinel
  BY DEF Record
<1> QED
  BY <1>1, Pool DEF Block

\* A block is the record of its four fields.
LEMMA BlockFields ==
  ASSUME NEW h, Record(h), NEW b \in DOMAIN h.blk
  PROVE  h.blk[b] = [size |-> h.blk[b].size, status |-> h.blk[b].status,
                     before |-> h.blk[b].before, link |-> h.blk[b].link]
  BY BlockIs DEF Block

\* Noting written words, field by field.
LEMMA WroteIs ==
  ASSUME NEW B, NEW L, NEW F, NEW S, NEW W, NEW ws
  PROVE  Wrote([blk |-> B, lists |-> L, fl |-> F, sl |-> S, wrote |-> W], ws)
           = [blk |-> B, lists |-> L, fl |-> F, sl |-> S, wrote |-> W \cup ws]
  BY DEF Wrote

\* Noting written words changes no block, list or bitmap.
LEMMA WroteDoes ==
  ASSUME NEW h, Record(h), NEW ws, ws \subseteq Int
  PROVE  LET g == Wrote(h, ws)
         IN  /\ Record(g) /\ Beside(h, g) /\ g.blk = h.blk
             /\ g.wrote = h.wrote \cup ws
<1>1. Wrote(h, ws) = [blk |-> h.blk, lists |-> h.lists, fl |-> h.fl, sl |-> h.sl,
                      wrote |-> h.wrote \cup ws]
  <2>1. h = [blk |-> h.blk, lists |-> h.lists, fl |-> h.fl, sl |-> h.sl, wrote |-> h.wrote]
    BY DEF Record
  <2>2. ASSUME NEW B, NEW L, NEW F, NEW S, NEW W
        PROVE  Wrote([blk |-> B, lists |-> L, fl |-> F, sl |-> S, wrote |-> W], ws)
                 = [blk |-> B, lists |-> L, fl |-> F, sl |-> S, wrote |-> W \cup ws]
    BY DEF Wrote
  <2>3. Wrote(h, ws) = Wrote([blk |-> h.blk, lists |-> h.lists, fl |-> h.fl, sl |-> h.sl, wrote |-> h.wrote], ws)
    BY <2>1
  <2> QED BY <2>2, <2>3
<1> QED
  BY <1>1 DEF Record, Beside

\* A heap with other blocks.
LEMMA Reblocked ==
  ASSUME NEW h, Record(h), NEW D, D \subseteq First..Sentinel, NEW f \in [D -> Block],
         NEW g, g = [blk |-> f, lists |-> h.lists, fl |-> h.fl, sl |-> h.sl, wrote |-> h.wrote]
  PROVE  Record(g) /\ Beside(h, g) /\ DOMAIN g.blk = D /\ g.blk = f /\ g.wrote = h.wrote
  BY DEF Record, Beside

\* One block is overwritten.
LEMMA Update ==
  ASSUME NEW h, Record(h), NEW b \in DOMAIN h.blk, NEW u \in Block
  PROVE  LET g == [h EXCEPT !.blk[b] = u]
         IN  /\ Record(g) /\ Beside(h, g) /\ DOMAIN g.blk = DOMAIN h.blk
             /\ g.wrote = h.wrote
             /\ \A c \in DOMAIN h.blk : g.blk[c] = IF c = b THEN u ELSE h.blk[c]
<1> DEFINE f == [h.blk EXCEPT ![b] = u]
           g == [h EXCEPT !.blk[b] = u]
<1>1. g = [blk |-> f, lists |-> h.lists, fl |-> h.fl, sl |-> h.sl, wrote |-> h.wrote]
  <2>1. ASSUME NEW B, NEW L, NEW F, NEW S, NEW W
        PROVE  [[blk |-> B, lists |-> L, fl |-> F, sl |-> S, wrote |-> W] EXCEPT !.blk[b] = u]
                 = [blk |-> [B EXCEPT ![b] = u], lists |-> L, fl |-> F, sl |-> S, wrote |-> W]
    OBVIOUS
  <2>2. h = [blk |-> h.blk, lists |-> h.lists, fl |-> h.fl, sl |-> h.sl, wrote |-> h.wrote]
    BY DEF Record
  <2>3. g = [[blk |-> h.blk, lists |-> h.lists, fl |-> h.fl, sl |-> h.sl, wrote |-> h.wrote] EXCEPT !.blk[b] = u]
    BY <2>2
  <2> QED BY <2>1, <2>3
<1>2. f \in [DOMAIN h.blk -> Block] /\ DOMAIN h.blk \subseteq First..Sentinel
  BY DEF Record
<1>3. \A c \in DOMAIN h.blk : f[c] = IF c = b THEN u ELSE h.blk[c]
  BY DEF Record
<1> HIDE DEF f, g
<1>4. Record(g) /\ Beside(h, g) /\ DOMAIN g.blk = DOMAIN h.blk /\ g.blk = f /\ g.wrote = h.wrote
  BY <1>1, <1>2, Reblocked
<1> QED
  BY <1>3, <1>4 DEF g

\* A record is updated field by field.
WithSize(u, v) == [u EXCEPT !.size = v]
WithStatus(u, v) == [u EXCEPT !.status = v]
WithBefore(u, v) == [u EXCEPT !.before = v]
WithLink(u, v) == [u EXCEPT !.link = v]
WithBlock(h, b, u) == [h EXCEPT !.blk[b] = u]
PutSize(h, b, v) == [h EXCEPT !.blk[b].size = v]
PutStatus(h, b, v) == [h EXCEPT !.blk[b].status = v]
PutBefore(h, b, v) == [h EXCEPT !.blk[b].before = v]
PutLink(h, b, v) == [h EXCEPT !.blk[b].link = v]

\* The four updates of a block, field by field.
LEMMA FieldsOf ==
  ASSUME NEW h, Record(h), NEW b \in DOMAIN h.blk, NEW v
  PROVE  LET u == h.blk[b]
         IN  /\ WithSize(u, v) = [size |-> v, status |-> u.status, before |-> u.before, link |-> u.link]
             /\ WithStatus(u, v) = [size |-> u.size, status |-> v, before |-> u.before, link |-> u.link]
             /\ WithBefore(u, v) = [size |-> u.size, status |-> u.status, before |-> v, link |-> u.link]
             /\ WithLink(u, v) = [size |-> u.size, status |-> u.status, before |-> u.before, link |-> v]
<1>1. ASSUME NEW z, NEW t, NEW e, NEW k
      PROVE  LET u == [size |-> z, status |-> t, before |-> e, link |-> k]
             IN  /\ WithSize(u, v) = [size |-> v, status |-> t, before |-> e, link |-> k]
                 /\ WithStatus(u, v) = [size |-> z, status |-> v, before |-> e, link |-> k]
                 /\ WithBefore(u, v) = [size |-> z, status |-> t, before |-> v, link |-> k]
                 /\ WithLink(u, v) = [size |-> z, status |-> t, before |-> e, link |-> v]
  BY DEF WithSize, WithStatus, WithBefore, WithLink
<1> DEFINE x == h.blk[b]
<1>2. /\ WithSize(x, v) = [size |-> v, status |-> x.status, before |-> x.before, link |-> x.link]
      /\ WithStatus(x, v) = [size |-> x.size, status |-> v, before |-> x.before, link |-> x.link]
      /\ WithBefore(x, v) = [size |-> x.size, status |-> x.status, before |-> v, link |-> x.link]
      /\ WithLink(x, v) = [size |-> x.size, status |-> x.status, before |-> x.before, link |-> v]
  <2>1. x = [size |-> x.size, status |-> x.status, before |-> x.before, link |-> x.link]
    BY BlockFields
  <2> DEFINE y == [size |-> x.size, status |-> x.status, before |-> x.before, link |-> x.link]
  <2>2. /\ WithSize(y, v) = [size |-> v, status |-> x.status, before |-> x.before, link |-> x.link]
        /\ WithStatus(y, v) = [size |-> x.size, status |-> v, before |-> x.before, link |-> x.link]
        /\ WithBefore(y, v) = [size |-> x.size, status |-> x.status, before |-> v, link |-> x.link]
        /\ WithLink(y, v) = [size |-> x.size, status |-> x.status, before |-> x.before, link |-> v]
    <3> HIDE DEF x
    <3> QED BY <1>1
  <2>3. x = y
    BY <2>1
  <2> HIDE DEF x, y
  <2> QED BY <2>2, <2>3
<1> QED
  BY <1>2

\* An update inside a heap is an update of the block.
LEMMA PutsAre ==
  ASSUME NEW h, Record(h), NEW b, NEW v
  PROVE  /\ PutSize(h, b, v) = WithBlock(h, b, WithSize(h.blk[b], v))
         /\ PutStatus(h, b, v) = WithBlock(h, b, WithStatus(h.blk[b], v))
         /\ PutBefore(h, b, v) = WithBlock(h, b, WithBefore(h.blk[b], v))
         /\ PutLink(h, b, v) = WithBlock(h, b, WithLink(h.blk[b], v))
<1>1. ASSUME NEW B, NEW L, NEW F, NEW S, NEW W
      PROVE  LET H == [blk |-> B, lists |-> L, fl |-> F, sl |-> S, wrote |-> W]
             IN  /\ PutSize(H, b, v) = WithBlock(H, b, WithSize(B[b], v))
                 /\ PutStatus(H, b, v) = WithBlock(H, b, WithStatus(B[b], v))
                 /\ PutBefore(H, b, v) = WithBlock(H, b, WithBefore(B[b], v))
                 /\ PutLink(H, b, v) = WithBlock(H, b, WithLink(B[b], v))
  BY DEF WithSize, WithStatus, WithBefore, WithLink, WithBlock, PutSize, PutStatus, PutBefore, PutLink
<1>2. h = [blk |-> h.blk, lists |-> h.lists, fl |-> h.fl, sl |-> h.sl, wrote |-> h.wrote]
  BY DEF Record
<1>3. /\ PutSize(h, b, v) = WithBlock(h, b, WithSize(h.blk[b], v))
      /\ PutStatus(h, b, v) = WithBlock(h, b, WithStatus(h.blk[b], v))
      /\ PutBefore(h, b, v) = WithBlock(h, b, WithBefore(h.blk[b], v))
      /\ PutLink(h, b, v) = WithBlock(h, b, WithLink(h.blk[b], v))
  BY <1>1, <1>2
<1> QED BY <1>3

\* Only block b has changed.
Touched(h, g, b) ==
  /\ Record(g) /\ Beside(h, g) /\ DOMAIN g.blk = DOMAIN h.blk
  /\ \A c \in DOMAIN h.blk \ {b} : g.blk[c] = h.blk[c]

\* What an assignment to one field of one header changes.
LEMMA SetField ==
  ASSUME NEW h, Record(h), NEW b \in DOMAIN h.blk
  PROVE  LET u == h.blk[b]
         IN  /\ \A v \in Nat :
                  LET g == PutSize(h, b, v)
                  IN  /\ Touched(h, g, b) /\ g.wrote = h.wrote
                      /\ g.blk[b] = [size |-> v, status |-> u.status, before |-> u.before, link |-> u.link]
             /\ \A v \in Statuses :
                  LET g == PutStatus(h, b, v)
                  IN  /\ Touched(h, g, b) /\ g.wrote = h.wrote
                      /\ g.blk[b] = [size |-> u.size, status |-> v, before |-> u.before, link |-> u.link]
             /\ \A v \in Statuses :
                  LET g == PutBefore(h, b, v)
                  IN  /\ Touched(h, g, b) /\ g.wrote = h.wrote
                      /\ g.blk[b] = [size |-> u.size, status |-> u.status, before |-> v, link |-> u.link]
             /\ \A v \in {0} \cup (First..Sentinel) :
                  LET g == PutLink(h, b, v)
                  IN  /\ Touched(h, g, b) /\ g.wrote = h.wrote
                      /\ g.blk[b] = [size |-> u.size, status |-> u.status, before |-> u.before, link |-> v]
<1> DEFINE u == h.blk[b]
<1>1. ASSUME NEW w \in Block
      PROVE  /\ Touched(h, WithBlock(h, b, w), b) /\ WithBlock(h, b, w).wrote = h.wrote
             /\ WithBlock(h, b, w).blk[b] = w
  BY Update DEF Touched, WithBlock
<1>2. /\ u.size \in Nat /\ u.status \in Statuses /\ u.before \in Statuses \cup {"stale"}
      /\ u.link \in {0} \cup (First..Sentinel)
  BY BlockIs
<1> HIDE DEF u
<1>3. ASSUME NEW v \in Nat
      PROVE  [size |-> v, status |-> u.status, before |-> u.before, link |-> u.link] \in Block
  BY <1>2 DEF Block
<1>4. ASSUME NEW v \in Statuses
      PROVE  /\ [size |-> u.size, status |-> v, before |-> u.before, link |-> u.link] \in Block
             /\ [size |-> u.size, status |-> u.status, before |-> v, link |-> u.link] \in Block
  BY <1>2 DEF Block
<1>5. ASSUME NEW v \in {0} \cup (First..Sentinel)
      PROVE  [size |-> u.size, status |-> u.status, before |-> u.before, link |-> v] \in Block
  BY <1>2 DEF Block
<1>6. ASSUME NEW v
      PROVE  /\ WithSize(u, v) = [size |-> v, status |-> u.status, before |-> u.before, link |-> u.link]
             /\ WithStatus(u, v) = [size |-> u.size, status |-> v, before |-> u.before, link |-> u.link]
             /\ WithBefore(u, v) = [size |-> u.size, status |-> u.status, before |-> v, link |-> u.link]
             /\ WithLink(u, v) = [size |-> u.size, status |-> u.status, before |-> u.before, link |-> v]
  BY FieldsOf DEF u
<1>7. ASSUME NEW v
       PROVE  /\ PutSize(h, b, v) = WithBlock(h, b, WithSize(u, v))
              /\ PutStatus(h, b, v) = WithBlock(h, b, WithStatus(u, v))
              /\ PutBefore(h, b, v) = WithBlock(h, b, WithBefore(u, v))
              /\ PutLink(h, b, v) = WithBlock(h, b, WithLink(u, v))
  BY PutsAre DEF u
<1>8. ASSUME NEW v \in Nat
      PROVE  LET g == PutSize(h, b, v)
             IN  /\ Touched(h, g, b) /\ g.wrote = h.wrote
                 /\ g.blk[b] = [size |-> v, status |-> u.status, before |-> u.before, link |-> u.link]
  <2> DEFINE g == PutSize(h, b, v)
  <2>1. g = WithBlock(h, b, WithSize(u, v))
    BY <1>7
  <2>2. WithSize(u, v) \in Block
    BY <1>3, <1>6
  <2> HIDE DEF g
  <2>3. Touched(h, g, b) /\ g.wrote = h.wrote /\ g.blk[b] = WithSize(u, v)
    BY <2>1, <2>2, <1>1
  <2>4. g.blk[b] = [size |-> v, status |-> u.status, before |-> u.before, link |-> u.link]
    BY <2>3, <1>6
  <2> QED BY <2>3, <2>4 DEF g
<1>9. ASSUME NEW v \in Statuses
      PROVE  LET g == PutStatus(h, b, v)
             IN  /\ Touched(h, g, b) /\ g.wrote = h.wrote
                 /\ g.blk[b] = [size |-> u.size, status |-> v, before |-> u.before, link |-> u.link]
  <2> DEFINE g == PutStatus(h, b, v)
  <2>1. g = WithBlock(h, b, WithStatus(u, v))
    BY <1>7
  <2>2. WithStatus(u, v) \in Block
    BY <1>4, <1>6
  <2> HIDE DEF g
  <2>3. Touched(h, g, b) /\ g.wrote = h.wrote /\ g.blk[b] = WithStatus(u, v)
    BY <2>1, <2>2, <1>1
  <2>4. g.blk[b] = [size |-> u.size, status |-> v, before |-> u.before, link |-> u.link]
    BY <2>3, <1>6
  <2> QED BY <2>3, <2>4 DEF g
<1>10. ASSUME NEW v \in Statuses
      PROVE  LET g == PutBefore(h, b, v)
             IN  /\ Touched(h, g, b) /\ g.wrote = h.wrote
                 /\ g.blk[b] = [size |-> u.size, status |-> u.status, before |-> v, link |-> u.link]
  <2> DEFINE g == PutBefore(h, b, v)
  <2>1. g = WithBlock(h, b, WithBefore(u, v))
    BY <1>7
  <2>2. WithBefore(u, v) \in Block
    BY <1>4, <1>6
  <2> HIDE DEF g
  <2>3. Touched(h, g, b) /\ g.wrote = h.wrote /\ g.blk[b] = WithBefore(u, v)
    BY <2>1, <2>2, <1>1
  <2>4. g.blk[b] = [size |-> u.size, status |-> u.status, before |-> v, link |-> u.link]
    BY <2>3, <1>6
  <2> QED BY <2>3, <2>4 DEF g
<1>11. ASSUME NEW v \in {0} \cup (First..Sentinel)
      PROVE  LET g == PutLink(h, b, v)
             IN  /\ Touched(h, g, b) /\ g.wrote = h.wrote
                 /\ g.blk[b] = [size |-> u.size, status |-> u.status, before |-> u.before, link |-> v]
  <2> DEFINE g == PutLink(h, b, v)
  <2>1. g = WithBlock(h, b, WithLink(u, v))
    BY <1>7
  <2>2. WithLink(u, v) \in Block
    BY <1>5, <1>6
  <2> HIDE DEF g
  <2>3. Touched(h, g, b) /\ g.wrote = h.wrote /\ g.blk[b] = WithLink(u, v)
    BY <2>1, <2>2, <1>1
  <2>4. g.blk[b] = [size |-> u.size, status |-> u.status, before |-> u.before, link |-> v]
    BY <2>3, <1>6
  <2> QED BY <2>3, <2>4 DEF g
<1> QED
  BY <1>8, <1>9, <1>10, <1>11 DEF u

\* block_link_next: the block above learns its neighbour, in the last word of p.
LEMMA LinkNextDoes ==
  ASSUME NEW h, Record(h), NEW p \in DOMAIN h.blk, NEW n \in DOMAIN h.blk, n = NextOf(h, p)
  PROVE  LET g == LinkNext(h, p)
             u == h.blk[n]
         IN  /\ Touched(h, g, n) /\ g.wrote = h.wrote \cup {n - 2}
             /\ g.blk[n] = [size |-> u.size, status |-> u.status, before |-> u.before, link |-> p]
<1> DEFINE k == PutLink(h, n, p)
<1>1. p \in {0} \cup (First..Sentinel) /\ n - 2 \in Int
  BY BlockIs DEF Record
<1>2. /\ Touched(h, k, n) /\ k.wrote = h.wrote
      /\ k.blk[n] = [size |-> h.blk[n].size, status |-> h.blk[n].status, before |-> h.blk[n].before, link |-> p]
  BY <1>1, SetField
<1>3. LinkNext(h, p) = Wrote(k, {n - 2})
  BY DEF LinkNext, PutLink
<1> HIDE DEF k
<1>4. {n - 2} \subseteq Int /\ Record(k)
  BY <1>1, <1>2 DEF Touched
<1>5. /\ Record(Wrote(k, {n - 2})) /\ Beside(k, Wrote(k, {n - 2})) /\ Wrote(k, {n - 2}).blk = k.blk
      /\ Wrote(k, {n - 2}).wrote = k.wrote \cup {n - 2}
  BY <1>4, WroteDoes
<1> QED
  BY <1>2, <1>3, <1>5 DEF Touched, Beside

\* block_set_prev_free and block_set_prev_used.
LEMMA SetBeforeDoes ==
  ASSUME NEW h, Record(h), NEW p \in DOMAIN h.blk, NEW s \in Statuses
  PROVE  LET g == SetBefore(h, p, s)
             u == h.blk[p]
         IN  /\ Touched(h, g, p) /\ g.wrote = h.wrote \cup {p - 1}
             /\ g.blk[p] = [size |-> u.size, status |-> u.status, before |-> s, link |-> u.link]
<1> DEFINE k == PutBefore(h, p, s)
<1>1. /\ Touched(h, k, p) /\ k.wrote = h.wrote
      /\ k.blk[p] = [size |-> h.blk[p].size, status |-> h.blk[p].status, before |-> s, link |-> h.blk[p].link]
  BY SetField
<1>2. SetBefore(h, p, s) = Wrote(k, {p - 1})
  BY DEF SetBefore, PutBefore
<1> HIDE DEF k
<1>3. {p - 1} \subseteq Int /\ Record(k)
  BY <1>1, BlockIs DEF Touched
<1>4. /\ Record(Wrote(k, {p - 1})) /\ Beside(k, Wrote(k, {p - 1})) /\ Wrote(k, {p - 1}).blk = k.blk
      /\ Wrote(k, {p - 1}).wrote = k.wrote \cup {p - 1}
  BY <1>3, WroteDoes
<1> QED
  BY <1>1, <1>2, <1>4 DEF Touched, Beside

\* block_set_free and block_set_used.
LEMMA SetStatusDoes ==
  ASSUME NEW h, Record(h), NEW p \in DOMAIN h.blk, NEW s \in Statuses
  PROVE  LET g == Wrote([h EXCEPT !.blk[p].status = s], {p - 1})
             u == h.blk[p]
         IN  /\ Touched(h, g, p) /\ g.wrote = h.wrote \cup {p - 1}
             /\ g.blk[p] = [size |-> u.size, status |-> s, before |-> u.before, link |-> u.link]
<1> DEFINE k == PutStatus(h, p, s)
<1>1. /\ Touched(h, k, p) /\ k.wrote = h.wrote
      /\ k.blk[p] = [size |-> h.blk[p].size, status |-> s, before |-> h.blk[p].before, link |-> h.blk[p].link]
  BY SetField
<1> HIDE DEF k
<1>2. {p - 1} \subseteq Int /\ Record(k)
  BY <1>1, BlockIs DEF Touched
<1>3. /\ Record(Wrote(k, {p - 1})) /\ Beside(k, Wrote(k, {p - 1})) /\ Wrote(k, {p - 1}).blk = k.blk
      /\ Wrote(k, {p - 1}).wrote = k.wrote \cup {p - 1}
  BY <1>2, WroteDoes
<1>4. /\ Touched(h, Wrote(k, {p - 1}), p) /\ Wrote(k, {p - 1}).wrote = h.wrote \cup {p - 1}
      /\ Wrote(k, {p - 1}).blk[p] = [size |-> h.blk[p].size, status |-> s, before |-> h.blk[p].before, link |-> h.blk[p].link]
  BY <1>1, <1>3 DEF Touched, Beside
<1> QED
  BY <1>4 DEF k, PutStatus

-----------------------------------------------------------------------------
(* Marking and absorbing. *)
\* Where block_next looks.
LEMMA NextIs ==
  ASSUME NEW h, Record(h), NEW p \in DOMAIN h.blk
  PROVE  NextOf(h, p) \in Nat /\ NextOf(h, p) = p + h.blk[p].size + 1 /\ NextOf(h, p) > p
  BY BlockIs DEF NextOf, Overhead

\* block_mark_as_free: the block, and flag and link of the one above.
LEMMA MarkAsFreeDoes ==
  ASSUME NEW h, Record(h), NEW p \in DOMAIN h.blk, NEW n \in DOMAIN h.blk, n = NextOf(h, p)
  PROVE  LET g == MarkAsFree(h, p)
             u == h.blk[p]
             v == h.blk[n]
         IN  /\ Record(g) /\ Beside(h, g) /\ DOMAIN g.blk = DOMAIN h.blk
             /\ g.wrote = h.wrote \cup {p - 1, n - 1, n - 2}
             /\ g.blk[p] = [size |-> u.size, status |-> "free", before |-> u.before, link |-> u.link]
             /\ g.blk[n] = [size |-> v.size, status |-> v.status, before |-> "free", link |-> p]
             /\ \A c \in DOMAIN h.blk \ {p, n} : g.blk[c] = h.blk[c]
<1> DEFINE h1 == LinkNext(h, p)
           h2 == SetBefore(h1, n, "free")
           h3 == Wrote([h2 EXCEPT !.blk[p].status = "free"], {p - 1})
<1>1. p # n /\ "free" \in Statuses
  BY NextIs, BlockIs DEF Statuses
<1>2. /\ Touched(h, h1, n) /\ h1.wrote = h.wrote \cup {n - 2}
      /\ h1.blk[n] = [size |-> h.blk[n].size, status |-> h.blk[n].status, before |-> h.blk[n].before, link |-> p]
  BY LinkNextDoes
<1>3. MarkAsFree(h, p) = h3
  BY DEF MarkAsFree
<1> HIDE DEF h1
<1>4. /\ Touched(h1, h2, n) /\ h2.wrote = h1.wrote \cup {n - 1}
      /\ h2.blk[n] = [size |-> h1.blk[n].size, status |-> h1.blk[n].status, before |-> "free", link |-> h1.blk[n].link]
  BY <1>1, <1>2, SetBeforeDoes DEF Touched
<1> HIDE DEF h2
<1>5. /\ Touched(h2, h3, p) /\ h3.wrote = h2.wrote \cup {p - 1}
      /\ h3.blk[p] = [size |-> h2.blk[p].size, status |-> "free", before |-> h2.blk[p].before, link |-> h2.blk[p].link]
  <2>1. Record(h2) /\ p \in DOMAIN h2.blk
    BY <1>2, <1>4 DEF Touched
  <2> QED BY <1>1, <2>1, SetStatusDoes
<1> HIDE DEF h3
<1> QED
  BY <1>1, <1>2, <1>3, <1>4, <1>5 DEF Touched, Beside

\* block_mark_as_used: the block and the flag of the one above; its link stays.
LEMMA MarkAsUsedDoes ==
  ASSUME NEW h, Record(h), NEW p \in DOMAIN h.blk, NEW n \in DOMAIN h.blk, n = NextOf(h, p)
  PROVE  LET g == MarkAsUsed(h, p)
             u == h.blk[p]
             v == h.blk[n]
         IN  /\ Record(g) /\ Beside(h, g) /\ DOMAIN g.blk = DOMAIN h.blk
             /\ g.wrote = h.wrote \cup {p - 1, n - 1}
             /\ g.blk[p] = [size |-> u.size, status |-> "used", before |-> u.before, link |-> u.link]
             /\ g.blk[n] = [size |-> v.size, status |-> v.status, before |-> "used", link |-> v.link]
             /\ \A c \in DOMAIN h.blk \ {p, n} : g.blk[c] = h.blk[c]
<1> DEFINE h2 == SetBefore(h, n, "used")
           h3 == Wrote([h2 EXCEPT !.blk[p].status = "used"], {p - 1})
<1>1. p # n /\ "used" \in Statuses
  BY NextIs, BlockIs DEF Statuses
<1>2. MarkAsUsed(h, p) = h3
  BY DEF MarkAsUsed
<1>3. /\ Touched(h, h2, n) /\ h2.wrote = h.wrote \cup {n - 1}
      /\ h2.blk[n] = [size |-> h.blk[n].size, status |-> h.blk[n].status, before |-> "used", link |-> h.blk[n].link]
  BY <1>1, SetBeforeDoes
<1> HIDE DEF h2
<1>4. /\ Touched(h2, h3, p) /\ h3.wrote = h2.wrote \cup {p - 1}
      /\ h3.blk[p] = [size |-> h2.blk[p].size, status |-> "used", before |-> h2.blk[p].before, link |-> h2.blk[p].link]
  <2>1. Record(h2) /\ p \in DOMAIN h2.blk
    BY <1>3 DEF Touched
  <2> QED BY <1>1, <2>1, SetStatusDoes
<1> HIDE DEF h3
<1> QED
  BY <1>1, <1>2, <1>3, <1>4 DEF Touched, Beside

\* The blocks without one of them.
Without(h, q) == [h EXCEPT !.blk = [b \in DOMAIN @ \ {q} |-> @[b]]]

\* A header that is no longer one.
LEMMA WithoutDoes ==
  ASSUME NEW h, Record(h), NEW q
  PROVE  LET g == Without(h, q)
         IN  /\ Record(g) /\ Beside(h, g) /\ DOMAIN g.blk = DOMAIN h.blk \ {q}
             /\ g.wrote = h.wrote /\ \A c \in DOMAIN h.blk \ {q} : g.blk[c] = h.blk[c]
<1> DEFINE f == [b \in DOMAIN h.blk \ {q} |-> h.blk[b]]
           g == Without(h, q)
<1>1. g = [blk |-> f, lists |-> h.lists, fl |-> h.fl, sl |-> h.sl, wrote |-> h.wrote]
  <2>1. ASSUME NEW B, NEW L, NEW F, NEW S, NEW W
        PROVE  Without([blk |-> B, lists |-> L, fl |-> F, sl |-> S, wrote |-> W], q)
                 = [blk |-> [b \in DOMAIN B \ {q} |-> B[b]], lists |-> L, fl |-> F, sl |-> S, wrote |-> W]
    BY DEF Without
  <2>2. h = [blk |-> h.blk, lists |-> h.lists, fl |-> h.fl, sl |-> h.sl, wrote |-> h.wrote]
    BY DEF Record
  <2>3. g = Without([blk |-> h.blk, lists |-> h.lists, fl |-> h.fl, sl |-> h.sl, wrote |-> h.wrote], q)
    BY <2>2
  <2> QED BY <2>1, <2>3
<1>2. f \in [DOMAIN h.blk \ {q} -> Block] /\ DOMAIN h.blk \ {q} \subseteq First..Sentinel
  BY DEF Record
<1>3. \A c \in DOMAIN h.blk \ {q} : f[c] = h.blk[c]
  OBVIOUS
<1> HIDE DEF f, g
<1>4. Record(g) /\ Beside(h, g) /\ DOMAIN g.blk = DOMAIN h.blk \ {q} /\ g.blk = f /\ g.wrote = h.wrote
  BY <1>1, <1>2, Reblocked
<1> QED
  BY <1>3, <1>4 DEF g

\* block_absorb: the sizes add up, with the header that vanishes.
LEMMA AbsorbDoes ==
  ASSUME NEW h, Record(h), NEW p \in DOMAIN h.blk, NEW q \in DOMAIN h.blk, q = NextOf(h, p),
         NEW m \in DOMAIN h.blk, m = NextOf(h, q)
  PROVE  LET g == Absorb(h, p, q)
             u == h.blk[p]
             v == h.blk[m]
         IN  /\ Record(g) /\ Beside(h, g) /\ DOMAIN g.blk = DOMAIN h.blk \ {q}
             /\ g.wrote = h.wrote \cup {p - 1, m - 2}
             /\ g.blk[p] = [size |-> u.size + h.blk[q].size + 1, status |-> u.status,
                            before |-> u.before, link |-> u.link]
             /\ g.blk[m] = [size |-> v.size, status |-> v.status, before |-> v.before, link |-> p]
             /\ \A c \in DOMAIN h.blk \ {p, q, m} : g.blk[c] = h.blk[c]
<1> DEFINE z == h.blk[p].size + h.blk[q].size + 1
           h1 == PutSize(h, p, z)
           h2 == Without(h1, q)
           h3 == Wrote(h2, {p - 1})
           h4 == LinkNext(h3, p)
<1>1. /\ p # q /\ q # m /\ p # m /\ z \in Nat /\ m = p + z + 1
      /\ p - 1 \in Int
  BY NextIs, BlockIs
<1>2. Absorb(h, p, q) = h4
  BY DEF Absorb, Overhead, PutSize, Without
<1>3. /\ Touched(h, h1, p) /\ h1.wrote = h.wrote
      /\ h1.blk[p] = [size |-> z, status |-> h.blk[p].status, before |-> h.blk[p].before, link |-> h.blk[p].link]
  <2>1. z \in Nat
    BY <1>1
  <2> HIDE DEF z
  <2> QED BY <2>1, SetField
<1> HIDE DEF z, h1
<1>4. /\ Record(h2) /\ Beside(h1, h2) /\ DOMAIN h2.blk = DOMAIN h1.blk \ {q}
      /\ h2.wrote = h1.wrote /\ \A c \in DOMAIN h1.blk \ {q} : h2.blk[c] = h1.blk[c]
  BY <1>3, WithoutDoes DEF Touched
<1> HIDE DEF h2
<1>5. Record(h3) /\ Beside(h2, h3) /\ h3.blk = h2.blk /\ h3.wrote = h2.wrote \cup {p - 1}
  <2>1. {p - 1} \subseteq Int
    BY <1>1
  <2> QED BY <1>4, <2>1, WroteDoes
<1> HIDE DEF h3
<1>6. p \in DOMAIN h3.blk /\ m \in DOMAIN h3.blk /\ m = NextOf(h3, p)
  BY <1>1, <1>3, <1>4, <1>5 DEF Touched, NextOf, Overhead
<1>7. /\ Touched(h3, h4, m) /\ h4.wrote = h3.wrote \cup {m - 2}
      /\ h4.blk[m] = [size |-> h3.blk[m].size, status |-> h3.blk[m].status, before |-> h3.blk[m].before, link |-> p]
  BY <1>5, <1>6, LinkNextDoes
<1> HIDE DEF h4
<1>8. /\ Record(h4) /\ Beside(h, h4) /\ DOMAIN h4.blk = DOMAIN h.blk \ {q}
      /\ h4.wrote = h.wrote \cup {p - 1, m - 2}
  BY <1>3, <1>4, <1>5, <1>7 DEF Touched, Beside
<1>9. /\ h4.blk[p] = h1.blk[p] /\ h3.blk[m] = h.blk[m]
      /\ \A c \in DOMAIN h.blk \ {p, q, m} : h4.blk[c] = h.blk[c]
  BY <1>1, <1>3, <1>4, <1>5, <1>7 DEF Touched
<1> QED
  BY <1>2, <1>3, <1>7, <1>8, <1>9 DEF z

-----------------------------------------------------------------------------
(* Splitting. *)
\* Block p of h is cut after n words: in g its rest is a free block that knows
\* the status of p.
IsCut(h, g, p, n) ==
  LET q == Rest(p, n)
      m == NextOf(h, p)
      u == h.blk[p]
      v == h.blk[m]
  IN  /\ Record(g) /\ Beside(h, g) /\ DOMAIN g.blk = DOMAIN h.blk \cup {q}
      /\ g.wrote \subseteq h.wrote \cup {p - 1, q - 1, m - 1, m - 2}
                             \cup (IF u.status = "free" THEN {q - 2} ELSE {})
      /\ g.blk[p] = [size |-> n, status |-> u.status, before |-> u.before, link |-> u.link]
      /\ g.blk[q] = [size |-> u.size - (n + 1), status |-> "free", before |-> u.status,
                     link |-> IF u.status = "free" THEN p ELSE 0]
      /\ g.blk[m] = [size |-> v.size, status |-> v.status, before |-> "free", link |-> q]
      /\ \A c \in DOMAIN h.blk \ {p, m} : g.blk[c] = h.blk[c]

\* The blocks when a rest has been made of block p, before it is marked.
Opened(h, p, n) ==
  LET q == Rest(p, n)
      upper == [size |-> h.blk[p].size - (n + Overhead), status |-> "free",
                before |-> "stale", link |-> 0]
      lower == [h.blk EXCEPT ![p].size = n]
  IN [h EXCEPT !.blk = [b \in DOMAIN @ \cup {q} |-> IF b = q THEN upper ELSE lower[b]]]

\* Before the rest is marked, its header is there with a flag nobody has set.
LEMMA OpenedDoes ==
  ASSUME NEW h, Record(h), NEW p \in DOMAIN h.blk, NEW n \in Nat, h.blk[p].size >= n + 1,
         NEW q, q = Rest(p, n), q \notin DOMAIN h.blk, q \in First..Sentinel
  PROVE  LET g == Opened(h, p, n)
             u == h.blk[p]
         IN  /\ Record(g) /\ Beside(h, g) /\ DOMAIN g.blk = DOMAIN h.blk \cup {q}
             /\ g.wrote = h.wrote
             /\ g.blk[p] = [size |-> n, status |-> u.status, before |-> u.before, link |-> u.link]
             /\ g.blk[q] = [size |-> u.size - (n + 1), status |-> "free", before |-> "stale", link |-> 0]
             /\ \A c \in DOMAIN h.blk \ {p} : g.blk[c] = h.blk[c]
<1> DEFINE low == PutSize(h, p, n).blk
           upper == [size |-> h.blk[p].size - (n + 1), status |-> "free", before |-> "stale", link |-> 0]
           f == [b \in DOMAIN h.blk \cup {q} |-> IF b = q THEN upper ELSE low[b]]
           g == Opened(h, p, n)
<1>1. g = [blk |-> f, lists |-> h.lists, fl |-> h.fl, sl |-> h.sl, wrote |-> h.wrote]
  <2>1. ASSUME NEW B, NEW L, NEW F, NEW S, NEW W, q = Rest(p, n)
        PROVE  Opened([blk |-> B, lists |-> L, fl |-> F, sl |-> S, wrote |-> W], p, n)
                 = [blk |-> [b \in DOMAIN B \cup {q} |->
                               IF b = q THEN [size |-> B[p].size - (n + 1), status |-> "free", before |-> "stale", link |-> 0]
                               ELSE [B EXCEPT ![p].size = n][b]],
                    lists |-> L, fl |-> F, sl |-> S, wrote |-> W]
    BY <2>1 DEF Opened, Overhead
  <2>2. h = [blk |-> h.blk, lists |-> h.lists, fl |-> h.fl, sl |-> h.sl, wrote |-> h.wrote]
    BY DEF Record
  <2>3. g = Opened([blk |-> h.blk, lists |-> h.lists, fl |-> h.fl, sl |-> h.sl, wrote |-> h.wrote], p, n)
    BY <2>2
  <2>4. low = [h.blk EXCEPT ![p].size = n]
    <3>1. ASSUME NEW B, NEW L, NEW F, NEW S, NEW W
          PROVE  PutSize([blk |-> B, lists |-> L, fl |-> F, sl |-> S, wrote |-> W], p, n).blk
                   = [B EXCEPT ![p].size = n]
      BY DEF PutSize
    <3>2. low = PutSize([blk |-> h.blk, lists |-> h.lists, fl |-> h.fl, sl |-> h.sl, wrote |-> h.wrote], p, n).blk
      BY <2>2
    <3> QED BY <3>1, <3>2
  <2> QED BY <2>1, <2>3, <2>4
<1>2. /\ low \in [DOMAIN h.blk -> Block]
      /\ low[p] = [size |-> n, status |-> h.blk[p].status, before |-> h.blk[p].before, link |-> h.blk[p].link]
      /\ \A c \in DOMAIN h.blk \ {p} : low[c] = h.blk[c]
  BY SetField DEF Touched, Record
<1> HIDE DEF low
<1>3. upper \in Block
  BY BlockIs DEF Block, Statuses
<1> HIDE DEF upper
<1>4. f \in [DOMAIN h.blk \cup {q} -> Block] /\ DOMAIN h.blk \cup {q} \subseteq First..Sentinel
  BY <1>2, <1>3 DEF Record
<1>5. f[q] = upper /\ \A c \in DOMAIN h.blk : f[c] = low[c]
  OBVIOUS
<1> HIDE DEF f, g
<1>6. Record(g) /\ Beside(h, g) /\ DOMAIN g.blk = DOMAIN h.blk \cup {q} /\ g.blk = f /\ g.wrote = h.wrote
  BY <1>1, <1>4, Reblocked
<1> QED
  BY <1>2, <1>5, <1>6 DEF g, upper

\* block_split, which leaves the flag of the rest stale.
LEMMA SplitDoes ==
  ASSUME NEW h, Record(h), NEW p \in DOMAIN h.blk, NEW n \in Nat, h.blk[p].size >= n + 1,
         NEW q, q = Rest(p, n), q \notin DOMAIN h.blk, q \in First..Sentinel,
         NEW m \in DOMAIN h.blk, m = NextOf(h, p)
  PROVE  LET g == Split(h, p, n)
             u == h.blk[p]
             v == h.blk[m]
         IN  /\ Record(g) /\ Beside(h, g) /\ DOMAIN g.blk = DOMAIN h.blk \cup {q}
             /\ g.wrote = h.wrote \cup {p - 1, q - 1, m - 1, m - 2}
             /\ g.blk[p] = [size |-> n, status |-> u.status, before |-> u.before, link |-> u.link]
             /\ g.blk[q] = [size |-> u.size - (n + 1), status |-> "free", before |-> "stale", link |-> 0]
             /\ g.blk[m] = [size |-> v.size, status |-> v.status, before |-> "free", link |-> q]
             /\ \A c \in DOMAIN h.blk \ {p, m} : g.blk[c] = h.blk[c]
<1> DEFINE h1 == Opened(h, p, n)
           h2 == Wrote(h1, {p - 1, q - 1})
           h3 == MarkAsFree(h2, q)
<1>1. p # m /\ q # m /\ p # q /\ p - 1 \in Int /\ q - 1 \in Int /\ q \in Nat
      /\ m = q + (h.blk[p].size - (n + 1)) + 1
  BY NextIs, BlockIs, Pool DEF Rest, Overhead
<1>2. Split(h, p, n) = h3
  BY DEF Split, Opened
<1>3. /\ Record(h1) /\ Beside(h, h1) /\ DOMAIN h1.blk = DOMAIN h.blk \cup {q}
      /\ h1.wrote = h.wrote
      /\ h1.blk[p] = [size |-> n, status |-> h.blk[p].status, before |-> h.blk[p].before, link |-> h.blk[p].link]
      /\ h1.blk[q] = [size |-> h.blk[p].size - (n + 1), status |-> "free", before |-> "stale", link |-> 0]
      /\ \A c \in DOMAIN h.blk \ {p} : h1.blk[c] = h.blk[c]
  BY OpenedDoes
<1> HIDE DEF h1
<1>4. Record(h2) /\ Beside(h1, h2) /\ h2.blk = h1.blk /\ h2.wrote = h1.wrote \cup {p - 1, q - 1}
  <2>1. {p - 1, q - 1} \subseteq Int
    BY <1>1
  <2> QED BY <1>3, <2>1, WroteDoes
<1> HIDE DEF h2
<1>5. q \in DOMAIN h2.blk /\ m \in DOMAIN h2.blk /\ m = NextOf(h2, q)
  BY <1>1, <1>3, <1>4 DEF NextOf, Overhead
<1>6. /\ Record(h3) /\ Beside(h2, h3) /\ DOMAIN h3.blk = DOMAIN h2.blk
      /\ h3.wrote = h2.wrote \cup {q - 1, m - 1, m - 2}
      /\ h3.blk[q] = [size |-> h2.blk[q].size, status |-> "free", before |-> h2.blk[q].before, link |-> h2.blk[q].link]
      /\ h3.blk[m] = [size |-> h2.blk[m].size, status |-> h2.blk[m].status, before |-> "free", link |-> q]
      /\ \A c \in DOMAIN h2.blk \ {q, m} : h3.blk[c] = h2.blk[c]
  BY <1>4, <1>5, MarkAsFreeDoes
<1> HIDE DEF h3
<1>7. /\ Record(h3) /\ Beside(h, h3) /\ DOMAIN h3.blk = DOMAIN h.blk \cup {q}
      /\ h3.wrote = h.wrote \cup {p - 1, q - 1, m - 1, m - 2}
  BY <1>3, <1>4, <1>6 DEF Beside
<1>8. /\ h3.blk[p] = h1.blk[p] /\ h2.blk[m] = h.blk[m]
      /\ \A c \in DOMAIN h.blk \ {p, m} : h3.blk[c] = h.blk[c]
  BY <1>1, <1>3, <1>4, <1>6
<1>9. h2.blk[q] = [size |-> h.blk[p].size - (n + 1), status |-> "free", before |-> "stale", link |-> 0]
  BY <1>3, <1>4
<1> QED
  BY <1>2, <1>3, <1>6, <1>7, <1>8, <1>9

\* The three callers of block_split repair that flag, each in its own order.
LEMMA CutsDo ==
  ASSUME NEW h, Record(h), NEW p \in DOMAIN h.blk, NEW n \in Nat, h.blk[p].size >= n + 1,
         NEW q, q = Rest(p, n), q \notin DOMAIN h.blk, q \in First..Sentinel,
         NEW m \in DOMAIN h.blk, m = NextOf(h, p)
  PROVE  /\ h.blk[p].status = "used" => IsCut(h, SetBefore(Split(h, p, n), q, "used"), p, n)
         /\ h.blk[p].status = "free" =>
              /\ IsCut(h, SetBefore(LinkNext(Split(h, p, n), p), q, "free"), p, n)
              /\ IsCut(h, LinkNext(SetBefore(Split(h, p, n), q, "free"), p), p, n)
<1> DEFINE s == Split(h, p, n)
<1>1. p # m /\ q # m /\ p # q /\ q = p + n + 1
  BY NextIs, BlockIs, Pool DEF Rest, Overhead
<1>2. "used" \in Statuses /\ "free" \in Statuses
  BY DEF Statuses
<1>3. /\ Record(s) /\ Beside(h, s) /\ DOMAIN s.blk = DOMAIN h.blk \cup {q}
      /\ s.wrote = h.wrote \cup {p - 1, q - 1, m - 1, m - 2}
      /\ s.blk[p] = [size |-> n, status |-> h.blk[p].status, before |-> h.blk[p].before, link |-> h.blk[p].link]
      /\ s.blk[q] = [size |-> h.blk[p].size - (n + 1), status |-> "free", before |-> "stale", link |-> 0]
      /\ s.blk[m] = [size |-> h.blk[m].size, status |-> h.blk[m].status, before |-> "free", link |-> q]
      /\ \A c \in DOMAIN h.blk \ {p, m} : s.blk[c] = h.blk[c]
  BY SplitDoes
<1> HIDE DEF s
<1>4. q = NextOf(s, p) /\ p \in DOMAIN s.blk /\ q \in DOMAIN s.blk
  BY <1>1, <1>3 DEF NextOf, Overhead
<1>5. CASE h.blk[p].status = "used"
  <2> DEFINE g == SetBefore(s, q, "used")
  <2>1. /\ Touched(s, g, q) /\ g.wrote = s.wrote \cup {q - 1}
        /\ g.blk[q] = [size |-> s.blk[q].size, status |-> s.blk[q].status, before |-> "used", link |-> s.blk[q].link]
    BY <1>2, <1>3, <1>4, SetBeforeDoes
  <2> HIDE DEF g
  <2>2. IsCut(h, g, p, n)
    BY <1>1, <1>3, <2>1, <1>5 DEF IsCut, Touched, Beside
  <2> QED
    BY <2>2, <1>5 DEF g, s
<1>6. CASE h.blk[p].status = "free"
  <2>1. IsCut(h, SetBefore(LinkNext(s, p), q, "free"), p, n)
    <3> DEFINE l == LinkNext(s, p)
               g == SetBefore(l, q, "free")
    <3>1. /\ Touched(s, l, q) /\ l.wrote = s.wrote \cup {q - 2}
          /\ l.blk[q] = [size |-> s.blk[q].size, status |-> s.blk[q].status, before |-> s.blk[q].before, link |-> p]
      BY <1>3, <1>4, LinkNextDoes
    <3> HIDE DEF l
    <3>2. /\ Touched(l, g, q) /\ g.wrote = l.wrote \cup {q - 1}
          /\ g.blk[q] = [size |-> l.blk[q].size, status |-> l.blk[q].status, before |-> "free", link |-> l.blk[q].link]
      <4>1. Record(l) /\ q \in DOMAIN l.blk
        BY <1>4, <3>1 DEF Touched
      <4> QED BY <1>2, <4>1, SetBeforeDoes
    <3> HIDE DEF g
    <3>3. IsCut(h, g, p, n)
      BY <1>1, <1>3, <3>1, <3>2, <1>6 DEF IsCut, Touched, Beside
    <3> QED BY <3>3 DEF g, l
  <2>2. IsCut(h, LinkNext(SetBefore(s, q, "free"), p), p, n)
    <3> DEFINE l == SetBefore(s, q, "free")
               g == LinkNext(l, p)
    <3>1. /\ Touched(s, l, q) /\ l.wrote = s.wrote \cup {q - 1}
          /\ l.blk[q] = [size |-> s.blk[q].size, status |-> s.blk[q].status, before |-> "free", link |-> s.blk[q].link]
      BY <1>2, <1>3, <1>4, SetBeforeDoes
    <3> HIDE DEF l
    <3>2. q = NextOf(l, p) /\ p \in DOMAIN l.blk /\ q \in DOMAIN l.blk /\ Record(l)
      BY <1>1, <1>3, <1>4, <3>1 DEF NextOf, Overhead, Touched
    <3>3. /\ Touched(l, g, q) /\ g.wrote = l.wrote \cup {q - 2}
          /\ g.blk[q] = [size |-> l.blk[q].size, status |-> l.blk[q].status, before |-> l.blk[q].before, link |-> p]
      BY <3>2, LinkNextDoes
    <3> HIDE DEF g
    <3>4. IsCut(h, g, p, n)
      BY <1>1, <1>3, <3>1, <3>3, <1>6 DEF IsCut, Touched, Beside
    <3> QED BY <3>4 DEF g, l
  <2> QED
    BY <2>1, <2>2, <1>6 DEF s
<1> QED
  BY <1>5, <1>6, BlockIs DEF Statuses

-----------------------------------------------------------------------------
(* What makes a heap good, between two calls and in the middle of one. *)
\* The blocks in use: the headers that must not move.
Used(h) == {p \in DOMAIN h.blk : h.blk[p].status = "used"}

\* The blocks fill the pool, one after another.
Layout(h) ==
  /\ First \in DOMAIN h.blk /\ Sentinel \in DOMAIN h.blk /\ h.blk[Sentinel].size = 0
  /\ \A p \in DOMAIN h.blk \ {Sentinel} :
       /\ h.blk[p].size >= BlockSizeMin /\ NextOf(h, p) \in DOMAIN h.blk
       /\ \A q \in DOMAIN h.blk : q <= p \/ q >= NextOf(h, p)

\* Each block knows the status of the one below, and where it is when it is free.
Flags(h) ==
  /\ h.blk[Sentinel].status = "used" /\ h.blk[First].before = "used"
  /\ \A p \in DOMAIN h.blk \ {Sentinel} :
       /\ h.blk[NextOf(h, p)].before = h.blk[p].status
       /\ h.blk[p].status = "free" => h.blk[NextOf(h, p)].link = p

\* The lists hold the free blocks by class, except those of X.
Lists(h, X) ==
  /\ h.sl = {c \in Classes : h.lists[c] # <<>>} /\ h.fl = {c[1] : c \in h.sl}
  /\ \A c \in Classes : Distinct(h.lists[c])
  /\ \A c \in Classes : \A p \in ToSet(h.lists[c]) :
       p \in DOMAIN h.blk \ X /\ h.blk[p].status = "free" /\ ClassOf(h, p) = c
  /\ \A p \in DOMAIN h.blk \ X : h.blk[p].status = "free" => p \in ToSet(h.lists[ClassOf(h, p)])

\* No two free blocks are neighbours, except above a block of Y.
Apart(h, Y) ==
  \A p \in DOMAIN h.blk \ {Sentinel} :
    h.blk[p].status = "free" /\ h.blk[NextOf(h, p)].status = "free" => p \in Y

\* The first s[b] words of block b have not been written to.
Protects(h, s) ==
  \A b \in Used(h) : /\ s[b] <= h.blk[b].size
                     /\ \A w \in h.wrote : ~(b <= w /\ w < b + s[b])

Protections == [Nat -> Nat]

\* What holds in the middle of a call: X is not listed yet, Y not merged yet, and
\* the words that s counts are untouched.
Good(h, X, Y, s) == /\ Record(h) /\ Layout(h) /\ Flags(h)
                    /\ Lists(h, X) /\ Apart(h, Y) /\ Protects(h, s)

\* The blocks follow one another: nothing but the next header lies between two.
LEMMA Order ==
  ASSUME NEW h, Record(h), Layout(h)
  PROVE  /\ \A a \in DOMAIN h.blk : /\ a \in Nat /\ h.blk[a].size \in Nat
                                    /\ NextOf(h, a) = a + h.blk[a].size + 1
                                    /\ First <= a /\ a <= Sentinel
                                    /\ h.blk[a].size < BlockSizeMax
         /\ \A a \in DOMAIN h.blk \ {Sentinel} :
              NextOf(h, a) \in DOMAIN h.blk /\ h.blk[a].size >= 3 /\ a < Sentinel
         /\ \A a, b \in DOMAIN h.blk : a < b => NextOf(h, a) <= b
         /\ \A a, b \in DOMAIN h.blk \ {Sentinel} : NextOf(h, a) = NextOf(h, b) => a = b
<1>1. \A a \in DOMAIN h.blk : /\ a \in Nat /\ h.blk[a].size \in Nat
                              /\ NextOf(h, a) = a + h.blk[a].size + 1
                              /\ First <= a /\ a <= Sentinel
  <2> TAKE a \in DOMAIN h.blk
  <2>1. a \in Nat /\ h.blk[a].size \in Nat
    BY BlockIs
  <2>2. NextOf(h, a) = a + h.blk[a].size + 1
    BY NextIs
  <2>3. a \in First..Sentinel
    BY DEF Record
  <2> QED BY <2>1, <2>2, <2>3
<1>2. \A a \in DOMAIN h.blk \ {Sentinel} :
        NextOf(h, a) \in DOMAIN h.blk /\ h.blk[a].size >= 3 /\ a < Sentinel
  BY <1>1, Pool DEF Layout, BlockSizeMin
<1>3. \A a, b \in DOMAIN h.blk : a < b => NextOf(h, a) <= b
  BY <1>1, <1>2, Pool DEF Layout
<1>4. \A a, b \in DOMAIN h.blk \ {Sentinel} : NextOf(h, a) = NextOf(h, b) => a = b
  BY <1>1, <1>2, <1>3
<1>5. \A a \in DOMAIN h.blk : h.blk[a].size < BlockSizeMax
  <2> TAKE a \in DOMAIN h.blk
  <2>1. CASE a = Sentinel
    BY <2>1, Pool DEF Layout
  <2>2. CASE a # Sentinel
    <3>1. NextOf(h, a) <= Sentinel
      BY <1>1, <1>2, <2>2
    <3> QED BY <3>1, <1>1, Pool
  <2> QED BY <2>1, <2>2
<1> QED
  BY <1>1, <1>2, <1>3, <1>4, <1>5

\* Every block but the first has one below it.
LEMMA Below ==
  ASSUME NEW h, Record(h), Layout(h), NEW b \in DOMAIN h.blk \ {First}
  PROVE  \E a \in DOMAIN h.blk \ {Sentinel} : NextOf(h, a) = b
<1> DEFINE T == {b - a : a \in {a \in DOMAIN h.blk : a < b}}
<1>1. T \in SUBSET Nat /\ b - First \in T
  <2>1. \A a \in DOMAIN h.blk : a \in Nat /\ First <= a
    BY Order
  <2>2. First \in {a \in DOMAIN h.blk : a < b}
    BY <2>1, Pool DEF Layout
  <2>3. b - First \in T
    BY <2>2
  <2>4. T \in SUBSET Nat
    BY <2>1
  <2> QED BY <2>3, <2>4
<1>2. \E x \in T : \A y \in T : x <= y
  <2> HIDE DEF T
  <2> QED BY <1>1, LeastElement
<1>3. PICK a \in DOMAIN h.blk : a < b /\ \A c \in DOMAIN h.blk : c < b => b - a <= b - c
  BY <1>2
<1>4. \A c \in DOMAIN h.blk : c < b => c <= a
  BY <1>3, Order
<1>5. a # Sentinel /\ NextOf(h, a) \in DOMAIN h.blk /\ a < NextOf(h, a) /\ NextOf(h, a) <= b
  BY <1>3, Order
<1>6. NextOf(h, a) = b
  <2>1. NextOf(h, a) < b => NextOf(h, a) <= a
    BY <1>4, <1>5
  <2> QED BY <2>1, <1>5, <1>3, Order
<1> QED
  BY <1>5, <1>6

\* Every block has a list.
LEMMA ClassIn ==
  ASSUME NEW h, Record(h), Layout(h), NEW p \in DOMAIN h.blk
  PROVE  ClassOf(h, p) \in Classes
  BY Order, ClassInTable DEF ClassOf

\* No header and no word of another block lies in the part of a block that is protected.
LEMMA Outside ==
  ASSUME NEW h, Record(h), Layout(h), NEW a \in DOMAIN h.blk, NEW b \in DOMAIN h.blk,
         NEW k \in Nat, k <= h.blk[b].size
  PROVE  /\ ~(b <= a - 1 /\ a - 1 < b + k)
         /\ a # b => \A w \in Int : a <= w /\ w < a + h.blk[a].size => ~(b <= w /\ w < b + k)
<1>1. /\ a \in Nat /\ b \in Nat /\ h.blk[a].size \in Nat /\ h.blk[b].size \in Nat
      /\ NextOf(h, a) = a + h.blk[a].size + 1 /\ NextOf(h, b) = b + h.blk[b].size + 1
      /\ a < b => NextOf(h, a) <= b
      /\ b < a => NextOf(h, b) <= a
  BY Order
<1> QED
  BY <1>1

\* The lists describe the blocks as long as the free ones keep their sizes.
LEMMA ListsKept ==
  ASSUME NEW h, NEW g, NEW X, NEW Z, Beside(h, g), Lists(h, X),
         \A b \in DOMAIN h.blk \ X : h.blk[b].status = "free" =>
            b \in DOMAIN g.blk \ Z /\ g.blk[b].status = "free" /\ g.blk[b].size = h.blk[b].size,
         \A b \in DOMAIN g.blk \ Z : g.blk[b].status = "free" =>
            b \in DOMAIN h.blk \ X /\ h.blk[b].status = "free" /\ g.blk[b].size = h.blk[b].size
  PROVE  Lists(g, Z)
  BY DEF Lists, Beside, ClassOf

-----------------------------------------------------------------------------
(* Releasing, using and cutting blocks. *)
\* A block that is given back: free, in no list yet, its neighbours not merged.
LEMMA ReleaseGood ==
  ASSUME NEW h, NEW X, NEW Y, NEW s \in Protections, Good(h, X, Y, s),
         NEW p \in Used(h), p # Sentinel, s[p] = 0, NEW Z, Y \subseteq Z, p \in Z,
         \A a \in DOMAIN h.blk : NextOf(h, a) = p => a \in Z
  PROVE  LET g == MarkAsFree(h, p)
         IN  /\ Good(g, X \cup {p}, Z, s) /\ Used(g) = Used(h) \ {p}
             /\ DOMAIN g.blk = DOMAIN h.blk
             /\ \A b \in DOMAIN h.blk : g.blk[b].size = h.blk[b].size
<1> DEFINE n == NextOf(h, p)
           g == MarkAsFree(h, p)
<1>1. Record(h) /\ Layout(h) /\ Flags(h) /\ Lists(h, X) /\ Apart(h, Y) /\ Protects(h, s)
  BY DEF Good
<1>2. p \in DOMAIN h.blk \ {Sentinel} /\ h.blk[p].status = "used"
  BY DEF Used
<1>3. n \in DOMAIN h.blk /\ n > p /\ n # p
  BY <1>1, <1>2, Order
<1>4. /\ Record(g) /\ Beside(h, g) /\ DOMAIN g.blk = DOMAIN h.blk
      /\ g.wrote = h.wrote \cup {p - 1, n - 1, n - 2}
      /\ g.blk[p] = [size |-> h.blk[p].size, status |-> "free", before |-> h.blk[p].before, link |-> h.blk[p].link]
      /\ g.blk[n] = [size |-> h.blk[n].size, status |-> h.blk[n].status, before |-> "free", link |-> p]
      /\ \A c \in DOMAIN h.blk \ {p, n} : g.blk[c] = h.blk[c]
  BY <1>1, <1>2, <1>3, MarkAsFreeDoes
<1> HIDE DEF g
<1>5. \A c \in DOMAIN h.blk : /\ g.blk[c].size = h.blk[c].size
                              /\ g.blk[c].status = IF c = p THEN "free" ELSE h.blk[c].status
                              /\ g.blk[c].before = IF c = n THEN "free" ELSE h.blk[c].before
                              /\ g.blk[c].link = IF c = n THEN p ELSE h.blk[c].link
                              /\ NextOf(g, c) = NextOf(h, c)
  BY <1>3, <1>4 DEF NextOf
<1>6. Layout(g)
  BY <1>1, <1>4, <1>5 DEF Layout
<1>7. Flags(g)
  <2>1. First # n
    BY <1>1, <1>2, <1>3, Order
  <2>2. \A c \in DOMAIN h.blk \ {Sentinel} : NextOf(h, c) \in DOMAIN h.blk /\ (c # p => NextOf(h, c) # n)
    BY <1>1, <1>2, Order
  <2>3. First \in DOMAIN h.blk /\ Sentinel \in DOMAIN h.blk
    BY <1>1 DEF Layout
  <2> QED
    BY <1>1, <1>2, <1>3, <1>4, <1>5, <2>1, <2>2, <2>3 DEF Flags
<1>8. Lists(g, X \cup {p})
  BY <1>1, <1>2, <1>4, <1>5, ListsKept
<1>9. Apart(g, Z)
  <2>1. \A c \in DOMAIN h.blk \ {Sentinel} : NextOf(h, c) \in DOMAIN h.blk
    BY <1>1, Order
  <2> QED
    BY <1>1, <1>4, <1>5, <2>1 DEF Apart
<1>10. Used(g) = Used(h) \ {p}
  BY <1>2, <1>4, <1>5 DEF Used
<1>11. Protects(g, s)
  <2> SUFFICES ASSUME NEW b \in Used(h), b # p
               PROVE  /\ s[b] <= h.blk[b].size
                      /\ \A w \in {p - 1, n - 1, n - 2} : ~(b <= w /\ w < b + s[b])
    BY <1>1, <1>4, <1>5, <1>10 DEF Protects, Used
  <2>1. b \in DOMAIN h.blk /\ s[b] \in Nat /\ s[b] <= h.blk[b].size
    BY <1>1, Order DEF Protects, Used, Protections
  <2>2. p <= n - 2 /\ n - 2 < p + h.blk[p].size /\ n - 2 \in Int
    BY <1>1, <1>2, <1>3, Order
  <2>3. ~(b <= n - 2 /\ n - 2 < b + s[b])
    BY <1>1, <1>2, <2>1, <2>2, Outside
  <2>4. ~(b <= n - 1 /\ n - 1 < b + s[b]) /\ ~(b <= p - 1 /\ p - 1 < b + s[b])
    BY <1>1, <1>2, <1>3, <2>1, Outside
  <2> QED
    BY <2>1, <2>3, <2>4
<1> QED
  BY <1>4, <1>5, <1>6, <1>7, <1>8, <1>9, <1>10, <1>11 DEF Good, g

\* A free block taken out of its list is put to use.
LEMMA UseGood ==
  ASSUME NEW h, NEW X, NEW Y, NEW s \in Protections, Good(h, X, Y, s),
         NEW p \in X, p \in DOMAIN h.blk, h.blk[p].status = "free", s[p] = 0,
         NEW Z, \A y \in Y : y = p \/ NextOf(h, y) = p \/ y \in Z
  PROVE  LET g == MarkAsUsed(h, p)
         IN  /\ Good(g, X \ {p}, Z, s) /\ Used(g) = Used(h) \cup {p}
             /\ DOMAIN g.blk = DOMAIN h.blk
             /\ \A b \in DOMAIN h.blk : g.blk[b].size = h.blk[b].size
<1> DEFINE n == NextOf(h, p)
           g == MarkAsUsed(h, p)
<1>1. Record(h) /\ Layout(h) /\ Flags(h) /\ Lists(h, X) /\ Apart(h, Y) /\ Protects(h, s)
  BY DEF Good
<1>2. p \in DOMAIN h.blk \ {Sentinel}
  BY <1>1 DEF Flags
<1>3. n \in DOMAIN h.blk /\ n > p /\ n # p
  BY <1>1, <1>2, Order
<1>4. /\ Record(g) /\ Beside(h, g) /\ DOMAIN g.blk = DOMAIN h.blk
      /\ g.wrote = h.wrote \cup {p - 1, n - 1}
      /\ g.blk[p] = [size |-> h.blk[p].size, status |-> "used", before |-> h.blk[p].before, link |-> h.blk[p].link]
      /\ g.blk[n] = [size |-> h.blk[n].size, status |-> h.blk[n].status, before |-> "used", link |-> h.blk[n].link]
      /\ \A c \in DOMAIN h.blk \ {p, n} : g.blk[c] = h.blk[c]
  BY <1>1, <1>2, <1>3, MarkAsUsedDoes
<1> HIDE DEF g
<1>5. \A c \in DOMAIN h.blk : /\ g.blk[c].size = h.blk[c].size
                              /\ g.blk[c].status = IF c = p THEN "used" ELSE h.blk[c].status
                              /\ g.blk[c].before = IF c = n THEN "used" ELSE h.blk[c].before
                              /\ g.blk[c].link = h.blk[c].link
                              /\ NextOf(g, c) = NextOf(h, c)
  BY <1>3, <1>4 DEF NextOf
<1>6. Layout(g)
  BY <1>1, <1>4, <1>5 DEF Layout
<1>7. Flags(g)
  <2>1. First # n
    BY <1>1, <1>2, <1>3, Order
  <2>2. \A c \in DOMAIN h.blk \ {Sentinel} : NextOf(h, c) \in DOMAIN h.blk /\ (c # p => NextOf(h, c) # n)
    BY <1>1, <1>2, Order
  <2>3. First \in DOMAIN h.blk /\ Sentinel \in DOMAIN h.blk
    BY <1>1 DEF Layout
  <2> QED
    BY <1>1, <1>2, <1>3, <1>4, <1>5, <2>1, <2>2, <2>3 DEF Flags
<1>8. Lists(g, X \ {p})
  BY <1>1, <1>2, <1>4, <1>5, ListsKept
<1>9. Apart(g, Z)
  <2>1. \A c \in DOMAIN h.blk \ {Sentinel} : NextOf(h, c) \in DOMAIN h.blk
    BY <1>1, Order
  <2> QED
    BY <1>1, <1>4, <1>5, <2>1 DEF Apart
<1>10. Used(g) = Used(h) \cup {p}
  BY <1>2, <1>4, <1>5 DEF Used
<1>11. Protects(g, s)
  <2>1. ASSUME NEW b \in Used(h)
        PROVE  /\ s[b] <= h.blk[b].size
               /\ \A w \in {p - 1, n - 1} : ~(b <= w /\ w < b + s[b])
    <3>1. b \in DOMAIN h.blk /\ s[b] \in Nat /\ s[b] <= h.blk[b].size
      BY <1>1, Order DEF Protects, Used, Protections
    <3>2. ~(b <= n - 1 /\ n - 1 < b + s[b]) /\ ~(b <= p - 1 /\ p - 1 < b + s[b])
      BY <1>1, <1>2, <1>3, <3>1, Outside
    <3> QED
      BY <3>1, <3>2
  <2>2. s[p] <= h.blk[p].size /\ \A w \in Int : ~(p <= w /\ w < p + s[p])
    BY <1>1, <1>2, Order
  <2>3. g.wrote \subseteq Int
    BY <1>4 DEF Record
  <2> QED
    BY <1>1, <1>2, <1>4, <1>5, <1>10, <2>1, <2>2, <2>3 DEF Protects, Used
<1> QED
  BY <1>4, <1>5, <1>6, <1>7, <1>8, <1>9, <1>10, <1>11 DEF Good, g

\* A block may be cut after n words, when Z covers the blocks that are then free
\* below a free block.
MayCut(h, X, Y, s, p, n, Z) ==
  /\ Good(h, X, Y, s)
  /\ p \in DOMAIN h.blk \ {Sentinel} /\ n \in Nat /\ n >= 3 /\ h.blk[p].size >= n + 4
  /\ h.blk[p].status = "free" => p \in X /\ p \notin Y
  /\ h.blk[p].status = "used" => s[p] <= n
  /\ Y \subseteq Z
  /\ h.blk[p].status = "free" => p \in Z
  /\ h.blk[NextOf(h, p)].status = "free" => Rest(p, n) \in Z

\* What is left after a cut: the rest at q is free and in no list.
HasCut(h, g, X, s, p, n, q, Z) ==
  /\ Good(g, X \cup {q}, Z, s) /\ Used(g) = Used(h) /\ q \notin DOMAIN h.blk
  /\ DOMAIN g.blk = DOMAIN h.blk \cup {q}
  /\ g.blk[p].size = n /\ g.blk[q].size = h.blk[p].size - (n + 1)
  /\ g.blk[p].status = h.blk[p].status /\ g.blk[q].status = "free"
  /\ \A c \in DOMAIN h.blk \ {p} : g.blk[c].size = h.blk[c].size

\* Cutting a block in two keeps the heap good, with the rest in no list.
LEMMA CutGood ==
  ASSUME NEW h, NEW X, NEW Y, NEW s \in Protections, NEW p, NEW n, NEW Z,
         MayCut(h, X, Y, s, p, n, Z), NEW q, q = Rest(p, n),
         NEW g, IsCut(h, g, p, n)
  PROVE  HasCut(h, g, X, s, p, n, q, Z)
<1> DEFINE m == NextOf(h, p)
<1> SUFFICES ASSUME Good(h, X, Y, s), p \in DOMAIN h.blk \ {Sentinel},
                    n \in Nat, n >= 3, h.blk[p].size >= n + 4,
                    h.blk[p].status = "free" => p \in X /\ p \notin Y,
                    h.blk[p].status = "used" => s[p] <= n,
                    Y \subseteq Z, h.blk[p].status = "free" => p \in Z,
                    h.blk[NextOf(h, p)].status = "free" => q \in Z
             PROVE  HasCut(h, g, X, s, p, n, q, Z)
  BY DEF MayCut
<1>1. Record(h) /\ Layout(h) /\ Flags(h) /\ Lists(h, X) /\ Apart(h, Y) /\ Protects(h, s)
  BY DEF Good
<1>2. /\ m \in DOMAIN h.blk /\ m = p + h.blk[p].size + 1 /\ q = p + n + 1 /\ p < q /\ q < m
      /\ p \in Nat /\ h.blk[p].size \in Nat
  BY <1>1, Order DEF Rest, Overhead
<1>3. q \notin DOMAIN h.blk
  BY <1>1, <1>2, Order
<1>4. /\ Record(g) /\ Beside(h, g) /\ DOMAIN g.blk = DOMAIN h.blk \cup {q}
      /\ g.wrote \subseteq h.wrote \cup {p - 1, q - 1, m - 1, m - 2}
                             \cup (IF h.blk[p].status = "free" THEN {q - 2} ELSE {})
      /\ g.blk[p] = [size |-> n, status |-> h.blk[p].status, before |-> h.blk[p].before, link |-> h.blk[p].link]
      /\ g.blk[q] = [size |-> h.blk[p].size - (n + 1), status |-> "free", before |-> h.blk[p].status,
                     link |-> IF h.blk[p].status = "free" THEN p ELSE 0]
      /\ g.blk[m] = [size |-> h.blk[m].size, status |-> h.blk[m].status, before |-> "free", link |-> q]
      /\ \A c \in DOMAIN h.blk \ {p, m} : g.blk[c] = h.blk[c]
  BY DEF IsCut
<1>5. \A c \in DOMAIN h.blk : /\ g.blk[c].size = IF c = p THEN n ELSE h.blk[c].size
                              /\ g.blk[c].status = h.blk[c].status
                              /\ g.blk[c].before = IF c = m THEN "free" ELSE h.blk[c].before
                              /\ g.blk[c].link = IF c = m THEN q ELSE h.blk[c].link
                              /\ NextOf(g, c) = IF c = p THEN q ELSE NextOf(h, c)
  BY <1>2, <1>4 DEF NextOf, Overhead
<1>6. /\ g.blk[q].size = h.blk[p].size - (n + 1) /\ g.blk[q].status = "free" /\ NextOf(g, q) = m
      /\ g.blk[q].before = h.blk[p].status /\ (h.blk[p].status = "free" => g.blk[q].link = p)
  BY <1>2, <1>4 DEF NextOf, Overhead
<1>7. /\ First \in DOMAIN h.blk /\ Sentinel \in DOMAIN h.blk /\ q # Sentinel /\ q # First
      /\ \A c \in DOMAIN h.blk \ {Sentinel} : NextOf(h, c) \in DOMAIN h.blk /\ (c # p => NextOf(h, c) # m)
      /\ \A c \in DOMAIN h.blk : c \in Nat
  BY <1>1, <1>3, Order DEF Layout
<1>8. Layout(g)
  <2>1. ASSUME NEW c \in DOMAIN g.blk \ {Sentinel}
        PROVE  /\ g.blk[c].size >= 3 /\ NextOf(g, c) \in DOMAIN g.blk
               /\ \A d \in DOMAIN g.blk : d <= c \/ d >= NextOf(g, c)
    <3>1. CASE c = p
      BY <1>1, <1>2, <1>4, <1>5, <1>7, <3>1, Order
    <3>2. CASE c = q
      BY <1>1, <1>2, <1>4, <1>6, <1>7, <3>2, Order
    <3>3. CASE c # p /\ c # q
      <4>1. c \in DOMAIN h.blk \ {Sentinel} /\ g.blk[c].size >= 3 /\ NextOf(g, c) = NextOf(h, c)
        BY <1>1, <1>4, <1>5, <3>3, Order
      <4>2. q <= c \/ q >= NextOf(h, c)
        BY <1>1, <1>2, <3>3, <4>1, Order
      <4>3. \A d \in DOMAIN h.blk : d <= c \/ d >= NextOf(h, c)
        BY <1>1, <4>1 DEF Layout
      <4> QED BY <1>4, <1>7, <4>1, <4>2, <4>3
    <3> QED BY <3>1, <3>2, <3>3
  <2> QED
    BY <1>1, <1>4, <1>5, <1>7, <2>1 DEF Layout, BlockSizeMin
<1>9. Flags(g)
  <2>1. First # m
    BY <1>1, <1>2, <1>7, Order
  <2>2. g.blk[Sentinel].status = "used" /\ g.blk[First].before = "used"
    BY <1>1, <1>5, <1>7, <2>1 DEF Flags
  <2>3. ASSUME NEW c \in DOMAIN g.blk \ {Sentinel}
        PROVE  /\ g.blk[NextOf(g, c)].before = g.blk[c].status
               /\ g.blk[c].status = "free" => g.blk[NextOf(g, c)].link = c
    <3>1. CASE c = p
      BY <1>5, <1>6, <3>1
    <3>2. CASE c = q
      BY <1>2, <1>5, <1>6, <3>2
    <3>3. CASE c # p /\ c # q
      <4>1. c \in DOMAIN h.blk \ {Sentinel} /\ NextOf(g, c) = NextOf(h, c) /\ NextOf(h, c) \in DOMAIN h.blk
            /\ NextOf(h, c) # m
        BY <1>4, <1>5, <1>7, <3>3
      <4> QED BY <1>1, <1>5, <4>1 DEF Flags
    <3> QED BY <3>1, <3>2, <3>3
  <2> QED
    BY <2>2, <2>3 DEF Flags
<1>10. Lists(g, X \cup {q})
  BY <1>1, <1>3, <1>4, <1>5, ListsKept
<1>11. Apart(g, Z)
  <2> SUFFICES ASSUME NEW c \in DOMAIN g.blk \ {Sentinel},
                      g.blk[c].status = "free", g.blk[NextOf(g, c)].status = "free"
               PROVE  c \in Z
    BY DEF Apart
  <2>1. CASE c = p
    BY <1>5, <2>1
  <2>2. CASE c = q
    BY <1>2, <1>5, <1>6, <2>2
  <2>3. CASE c # p /\ c # q
    <3>1. c \in DOMAIN h.blk \ {Sentinel} /\ NextOf(g, c) = NextOf(h, c) /\ NextOf(h, c) \in DOMAIN h.blk
      BY <1>4, <1>5, <1>7, <2>3
    <3> QED BY <1>1, <1>5, <3>1 DEF Apart
  <2> QED BY <2>1, <2>2, <2>3
<1>12. Used(g) = Used(h)
  BY <1>3, <1>4, <1>5, <1>6 DEF Used
<1>13. Protects(g, s)
  <2> SUFFICES ASSUME NEW b \in Used(h)
               PROVE  /\ s[b] <= g.blk[b].size
                      /\ \A w \in g.wrote : ~(b <= w /\ w < b + s[b])
    BY <1>12 DEF Protects
  <2>1. /\ b \in DOMAIN h.blk /\ s[b] \in Nat /\ s[b] <= h.blk[b].size /\ h.blk[b].status = "used"
        /\ \A w \in h.wrote : ~(b <= w /\ w < b + s[b])
    BY <1>1, Order DEF Protects, Used, Protections
  <2>2. s[b] <= g.blk[b].size
    BY <1>5, <2>1
  <2>3. ~(b <= m - 1 /\ m - 1 < b + s[b]) /\ ~(b <= p - 1 /\ p - 1 < b + s[b])
    BY <1>1, <1>2, <2>1, Outside
  <2>4. ~(b <= q - 1 /\ q - 1 < b + s[b]) /\ ~(b <= m - 2 /\ m - 2 < b + s[b])
    <3>1. CASE b = p
      BY <1>2, <2>1, <3>1
    <3>2. CASE b # p
      <4>1. p <= q - 1 /\ q - 1 < p + h.blk[p].size /\ p <= m - 2 /\ m - 2 < p + h.blk[p].size
            /\ q - 1 \in Int /\ m - 2 \in Int
        BY <1>1, <1>2
      <4> QED BY <1>1, <2>1, <3>2, <4>1, Outside
    <3> QED BY <3>1, <3>2
  <2>5. h.blk[p].status = "free" => ~(b <= q - 2 /\ q - 2 < b + s[b])
    <3>1. p <= q - 2 /\ q - 2 < p + h.blk[p].size /\ q - 2 \in Int
      BY <1>1, <1>2
    <3> QED BY <1>1, <2>1, <3>1, Outside
  <2> QED
    BY <1>4, <2>1, <2>2, <2>3, <2>4, <2>5
<1> QED
  BY <1>3, <1>4, <1>5, <1>6, <1>8, <1>9, <1>10, <1>11, <1>12, <1>13 DEF Good, HasCut

\* So do the three ways of the code to cut a block.
LEMMA Cuts ==
  ASSUME NEW h, NEW X, NEW Y, NEW s \in Protections, NEW p, NEW n, NEW Z,
         MayCut(h, X, Y, s, p, n, Z), NEW q, q = Rest(p, n)
  PROVE  /\ h.blk[p].status = "used" =>
              HasCut(h, SetBefore(Split(h, p, n), q, "used"), X, s, p, n, q, Z)
         /\ h.blk[p].status = "free" =>
              /\ HasCut(h, SetBefore(LinkNext(Split(h, p, n), p), q, "free"), X, s, p, n, q, Z)
              /\ HasCut(h, LinkNext(SetBefore(Split(h, p, n), q, "free"), p), X, s, p, n, q, Z)
<1>1. Record(h) /\ Layout(h) /\ p \in DOMAIN h.blk \ {Sentinel} /\ n \in Nat /\ h.blk[p].size >= n + 4
  BY DEF MayCut, Good
<1>2. /\ NextOf(h, p) \in DOMAIN h.blk /\ NextOf(h, p) = p + h.blk[p].size + 1
      /\ q = p + n + 1 /\ p < q /\ q < NextOf(h, p) /\ h.blk[p].size \in Nat /\ p \in Nat
      /\ h.blk[p].size >= n + 1
  BY <1>1, Order DEF Rest, Overhead
<1>3. q \notin DOMAIN h.blk /\ q \in First..Sentinel
  BY <1>1, <1>2, Order, Pool
<1>4. PICK m \in DOMAIN h.blk : m = NextOf(h, p)
  BY <1>2
<1>5. /\ h.blk[p].status = "used" => IsCut(h, SetBefore(Split(h, p, n), q, "used"), p, n)
      /\ h.blk[p].status = "free" =>
           /\ IsCut(h, SetBefore(LinkNext(Split(h, p, n), p), q, "free"), p, n)
           /\ IsCut(h, LinkNext(SetBefore(Split(h, p, n), q, "free"), p), p, n)
  <2>1. Record(h) /\ p \in DOMAIN h.blk
    BY <1>1
  <2> QED BY <1>1, <1>2, <1>3, <1>4, <2>1, CutsDo
<1> QED
  BY <1>5, CutGood

-----------------------------------------------------------------------------
(* Lists and merging. *)
\* One list and the bitmaps have changed.
Relisted(h, c, list, fl, sl, ws) ==
  Wrote([h EXCEPT !.lists[c] = list, !.fl = fl, !.sl = sl], ws)

WithList(h, c, list) == [h EXCEPT !.lists[c] = list]
WithFirst(h, fl) == [h EXCEPT !.fl = fl]
WithSecond(h, sl) == [h EXCEPT !.sl = sl]

\* The heap g has the list and the bitmaps given, and no other change.
IsRelisted(h, g, c, list, fl, sl, ws) ==
  /\ Record(g) /\ g.blk = h.blk /\ g.wrote = h.wrote \cup ws
  /\ \A d \in Classes : g.lists[d] = IF d = c THEN list ELSE h.lists[d]
  /\ g.fl = fl /\ g.sl = sl

\* One list and the bitmaps are replaced.
LEMMA RelistedDoes ==
  ASSUME NEW h, Record(h), NEW c \in Classes, NEW list \in Seq(Nat), NEW fl, NEW sl,
         NEW ws, ws \subseteq Int
  PROVE  IsRelisted(h, Relisted(h, c, list, fl, sl, ws), c, list, fl, sl, ws)
<1> DEFINE ls == [h.lists EXCEPT ![c] = list]
           g == Relisted(h, c, list, fl, sl, ws)
<1>1. ASSUME NEW B, NEW L, NEW F, NEW S, NEW W
      PROVE  Relisted([blk |-> B, lists |-> L, fl |-> F, sl |-> S, wrote |-> W], c, list, fl, sl, ws)
               = [blk |-> B, lists |-> [L EXCEPT ![c] = list], fl |-> fl, sl |-> sl, wrote |-> W \cup ws]
  <2> DEFINE H == [blk |-> B, lists |-> L, fl |-> F, sl |-> S, wrote |-> W]
             M == [L EXCEPT ![c] = list]
  <2>1. WithList(H, c, list) = [blk |-> B, lists |-> M, fl |-> F, sl |-> S, wrote |-> W]
    BY SMTT(30) DEF WithList
  <2>2. Relisted(H, c, list, fl, sl, ws) = Wrote(WithSecond(WithFirst(WithList(H, c, list), fl), sl), ws)
    BY DEF Relisted, WithList, WithFirst, WithSecond
  <2> HIDE DEF M, H
  <2>3. WithFirst([blk |-> B, lists |-> M, fl |-> F, sl |-> S, wrote |-> W], fl)
          = [blk |-> B, lists |-> M, fl |-> fl, sl |-> S, wrote |-> W]
    BY DEF WithFirst
  <2>4. WithSecond([blk |-> B, lists |-> M, fl |-> fl, sl |-> S, wrote |-> W], sl)
          = [blk |-> B, lists |-> M, fl |-> fl, sl |-> sl, wrote |-> W]
    BY DEF WithSecond
  <2>5. Wrote([blk |-> B, lists |-> M, fl |-> fl, sl |-> sl, wrote |-> W], ws)
          = [blk |-> B, lists |-> M, fl |-> fl, sl |-> sl, wrote |-> W \cup ws]
    BY WroteIs
  <2>6. Relisted(H, c, list, fl, sl, ws) = [blk |-> B, lists |-> M, fl |-> fl, sl |-> sl, wrote |-> W \cup ws]
    BY <2>1, <2>2, <2>3, <2>4, <2>5
  <2> QED BY <2>6 DEF H, M
<1>2. h = [blk |-> h.blk, lists |-> h.lists, fl |-> h.fl, sl |-> h.sl, wrote |-> h.wrote]
  BY DEF Record
<1>3. g = Relisted([blk |-> h.blk, lists |-> h.lists, fl |-> h.fl, sl |-> h.sl, wrote |-> h.wrote],
                   c, list, fl, sl, ws)
  BY <1>2
<1>4. g = [blk |-> h.blk, lists |-> ls, fl |-> fl, sl |-> sl, wrote |-> h.wrote \cup ws]
  BY <1>1, <1>3
<1>5. /\ ls \in [Classes -> Seq(Nat)]
      /\ \A d \in Classes : ls[d] = IF d = c THEN list ELSE h.lists[d]
  BY DEF Record
<1> HIDE DEF ls, g
<1>6. Record(g)
  BY <1>4, <1>5 DEF Record
<1> QED
  <2>1. IsRelisted(h, g, c, list, fl, sl, ws)
    BY <1>4, <1>5, <1>6 DEF IsRelisted
  <2> QED BY <2>1 DEF g

\* remove_free_block: the list, and each bitmap when its last block goes.
LEMMA RemoveGood ==
  ASSUME NEW h, NEW X, NEW Y, NEW s \in Protections, Good(h, X, Y, s),
         NEW p \in DOMAIN h.blk, p \notin X, h.blk[p].status = "free"
  PROVE  LET g == BlockRemove(h, p)
         IN  Good(g, X \cup {p}, Y, s) /\ g.blk = h.blk
<1> DEFINE c == ClassOf(h, p)
           rest == RemoveFirst(h.lists[c], p)
           sl == IF rest = <<>> THEN h.sl \ {c} ELSE h.sl
           fl == IF \E d \in sl : d[1] = c[1] THEN h.fl ELSE h.fl \ {c[1]}
           ws == UNION {{q, q + 1} : q \in ToSet(rest)}
           g == BlockRemove(h, p)
<1>1. Record(h) /\ Layout(h) /\ Flags(h) /\ Lists(h, X) /\ Apart(h, Y) /\ Protects(h, s)
  BY DEF Good
<1>2. c \in Classes /\ p \in ToSet(h.lists[c])
  BY <1>1, ClassIn DEF Lists
<1>3. g = Relisted(h, c, rest, fl, sl, ws)
  BY DEF BlockRemove, RemoveFree, Relisted
<1> HIDE DEF g, c
<1>4. /\ rest \in Seq(Nat) /\ Distinct(rest) /\ ToSet(rest) = ToSet(h.lists[c]) \ {p}
  <2>1. h.lists[c] \in Seq(Nat) /\ Distinct(h.lists[c])
    BY <1>1, <1>2 DEF Record, Lists
  <2> QED BY <1>2, <2>1, RemoveFirstDoes
<1> HIDE DEF rest
<1>5. \A q \in ToSet(rest) : q \in DOMAIN h.blk /\ q \in Nat /\ h.blk[q].status = "free"
  BY <1>1, <1>2, <1>4, Order DEF Lists
<1>6. ws \subseteq Int
  BY <1>5
<1> HIDE DEF ws, fl, sl
<1>7. /\ Record(g) /\ g.blk = h.blk /\ g.wrote = h.wrote \cup ws
      /\ \A d \in Classes : g.lists[d] = IF d = c THEN rest ELSE h.lists[d]
      /\ g.fl = fl /\ g.sl = sl
  <2>1. Record(h) /\ c \in Classes /\ rest \in Seq(Nat)
    BY <1>1, <1>2, <1>4
  <2>2. IsRelisted(h, Relisted(h, c, rest, fl, sl, ws), c, rest, fl, sl, ws)
    BY <2>1, <1>6, RelistedDoes
  <2> QED BY <2>2, <1>3 DEF IsRelisted
<1>8. Lists(g, X \cup {p})
  <2>1. sl = {d \in Classes : g.lists[d] # <<>>}
    <3>1. h.sl = {d \in Classes : h.lists[d] # <<>>}
      BY <1>1 DEF Lists
    <3>2. h.lists[c] # <<>>
      BY <1>2 DEF ToSet
    <3>3. CASE rest = <<>>
      BY <1>2, <1>7, <3>1, <3>2, <3>3 DEF sl
    <3>4. CASE rest # <<>>
      BY <1>2, <1>7, <3>1, <3>2, <3>4 DEF sl
    <3> QED BY <3>3, <3>4
  <2>2. fl = {d[1] : d \in sl}
    <3>1. h.fl = {d[1] : d \in h.sl} /\ c \in h.sl
      <4>1. h.lists[c] # <<>>
        BY <1>2 DEF ToSet
      <4> QED BY <1>1, <1>2, <4>1 DEF Lists
    <3>2. sl = h.sl \/ sl = h.sl \ {c}
      BY DEF sl
    <3>3. \A d \in h.sl : d # c => d \in sl
      BY DEF sl
    <3>4. CASE \E d \in sl : d[1] = c[1]
      BY <3>1, <3>2, <3>3, <3>4 DEF fl
    <3>5. CASE ~ \E d \in sl : d[1] = c[1]
      BY <3>1, <3>2, <3>3, <3>5 DEF fl
    <3> QED BY <3>4, <3>5
  <2>3. \A d \in Classes : Distinct(g.lists[d])
    BY <1>1, <1>4, <1>7 DEF Lists
  <2>4. \A d \in Classes : \A q \in ToSet(g.lists[d]) :
          q \in DOMAIN h.blk \ (X \cup {p}) /\ h.blk[q].status = "free" /\ ClassOf(h, q) = d
    BY <1>1, <1>2, <1>4, <1>7 DEF Lists, c
  <2>5. \A q \in DOMAIN h.blk \ (X \cup {p}) : h.blk[q].status = "free" => q \in ToSet(g.lists[ClassOf(h, q)])
    <3> TAKE q \in DOMAIN h.blk \ (X \cup {p})
    <3> HAVE h.blk[q].status = "free"
    <3>1. ClassOf(h, q) \in Classes /\ q \in ToSet(h.lists[ClassOf(h, q)])
      BY <1>1, ClassIn DEF Lists
    <3> QED BY <1>4, <1>7, <3>1
  <2> QED
    BY <1>7, <2>1, <2>2, <2>3, <2>4, <2>5 DEF Lists, ClassOf
<1>9. Protects(g, s)
  <2> SUFFICES ASSUME NEW b \in Used(h), NEW w \in ws
               PROVE  ~(b <= w /\ w < b + s[b])
    BY <1>1, <1>7 DEF Protects, Used
  <2>1. b \in DOMAIN h.blk /\ s[b] \in Nat /\ s[b] <= h.blk[b].size /\ h.blk[b].status = "used"
    BY <1>1, Order DEF Protects, Used, Protections
  <2>2. PICK q \in ToSet(rest) : w = q \/ w = q + 1
    BY DEF ws
  <2>3. q \in DOMAIN h.blk /\ q # b /\ q # Sentinel
    BY <1>1, <1>5, <2>1, <2>2 DEF Flags
  <2>4. q <= w /\ w < q + h.blk[q].size /\ w \in Int
    BY <1>1, <2>2, <2>3, Order
  <2> QED
    BY <1>1, <2>1, <2>3, <2>4, Outside
<1>10. Layout(g) /\ Flags(g) /\ Apart(g, Y)
  BY <1>1, <1>7 DEF Layout, Flags, Apart, NextOf
<1> QED
  BY <1>7, <1>8, <1>9, <1>10 DEF Good, g

\* insert_free_block: the block is listed where its size says.
LEMMA InsertGood ==
  ASSUME NEW h, NEW X, NEW Y, NEW s \in Protections, Good(h, X, Y, s),
         NEW p \in X, p \in DOMAIN h.blk, h.blk[p].status = "free"
  PROVE  LET g == InsertFree(h, p)
         IN  Good(g, X \ {p}, Y, s) /\ g.blk = h.blk
<1> DEFINE c == ClassOf(h, p)
           list == <<p>> \o h.lists[c]
           ws == {p, p + 1} \cup {q + 1 : q \in ToSet(h.lists[c])}
           fl == h.fl \cup {c[1]}
           sl == h.sl \cup {c}
           g == InsertFree(h, p)
<1>1. Record(h) /\ Layout(h) /\ Flags(h) /\ Lists(h, X) /\ Apart(h, Y) /\ Protects(h, s)
  BY DEF Good
<1>2. c \in Classes /\ p \notin ToSet(h.lists[c])
  BY <1>1, ClassIn DEF Lists
<1>3. g = Relisted(h, c, list, fl, sl, ws)
  BY DEF InsertFree, Relisted
<1> HIDE DEF g, c
<1>4. list \in Seq(Nat) /\ Distinct(list) /\ ToSet(list) = ToSet(h.lists[c]) \cup {p}
  <2>1. h.lists[c] \in Seq(Nat) /\ Distinct(h.lists[c]) /\ p \in Nat
    BY <1>1, <1>2, Order DEF Record, Lists
  <2> QED BY <1>2, <2>1, PushDoes
<1> HIDE DEF list
<1>5. \A q \in ToSet(list) : q \in DOMAIN h.blk /\ q \in Nat /\ h.blk[q].status = "free"
  BY <1>1, <1>2, <1>4, Order DEF Lists
<1>6. ws \subseteq Int
  BY <1>4, <1>5
<1> HIDE DEF ws, fl, sl
<1>7. /\ Record(g) /\ g.blk = h.blk /\ g.wrote = h.wrote \cup ws
      /\ \A d \in Classes : g.lists[d] = IF d = c THEN list ELSE h.lists[d]
      /\ g.fl = fl /\ g.sl = sl
  <2>1. Record(h) /\ c \in Classes /\ list \in Seq(Nat)
    BY <1>1, <1>2, <1>4
  <2>2. IsRelisted(h, Relisted(h, c, list, fl, sl, ws), c, list, fl, sl, ws)
    BY <2>1, <1>6, RelistedDoes
  <2> QED BY <2>2, <1>3 DEF IsRelisted
<1>8. Lists(g, X \ {p})
  <2>1. sl = {d \in Classes : g.lists[d] # <<>>}
    <3>1. list # <<>>
      BY <1>4 DEF ToSet
    <3> QED
      BY <1>1, <1>2, <1>7, <3>1 DEF Lists, sl
  <2>2. fl = {d[1] : d \in sl}
    BY <1>1 DEF Lists, fl, sl
  <2>3. \A d \in Classes : Distinct(g.lists[d])
    BY <1>1, <1>4, <1>7 DEF Lists
  <2>4. \A d \in Classes : \A q \in ToSet(g.lists[d]) :
          q \in DOMAIN h.blk \ (X \ {p}) /\ h.blk[q].status = "free" /\ ClassOf(h, q) = d
    BY <1>1, <1>2, <1>4, <1>7 DEF Lists, c
  <2>5. \A q \in DOMAIN h.blk \ (X \ {p}) : h.blk[q].status = "free" => q \in ToSet(g.lists[ClassOf(h, q)])
    <3> TAKE q \in DOMAIN h.blk \ (X \ {p})
    <3> HAVE h.blk[q].status = "free"
    <3>1. CASE q = p
      BY <1>2, <1>4, <1>7, <3>1 DEF c
    <3>2. CASE q # p
      <4>1. ClassOf(h, q) \in Classes /\ q \in ToSet(h.lists[ClassOf(h, q)])
        BY <1>1, <3>2, ClassIn DEF Lists
      <4> QED BY <1>4, <1>7, <4>1
    <3> QED BY <3>1, <3>2
  <2> QED
    BY <1>7, <2>1, <2>2, <2>3, <2>4, <2>5 DEF Lists, ClassOf
<1>9. Protects(g, s)
  <2> SUFFICES ASSUME NEW b \in Used(h), NEW w \in ws
               PROVE  ~(b <= w /\ w < b + s[b])
    BY <1>1, <1>7 DEF Protects, Used
  <2>1. b \in DOMAIN h.blk /\ s[b] \in Nat /\ s[b] <= h.blk[b].size /\ h.blk[b].status = "used"
    BY <1>1, Order DEF Protects, Used, Protections
  <2>2. PICK q \in ToSet(list) : w = q \/ w = q + 1
    BY <1>4 DEF ws
  <2>3. q \in DOMAIN h.blk /\ q # b /\ q # Sentinel
    BY <1>1, <1>5, <2>1, <2>2 DEF Flags
  <2>4. q <= w /\ w < q + h.blk[q].size /\ w \in Int
    BY <1>1, <2>2, <2>3, Order
  <2> QED
    BY <1>1, <2>1, <2>3, <2>4, Outside
<1>10. Layout(g) /\ Flags(g) /\ Apart(g, Y)
  BY <1>1, <1>7 DEF Layout, Flags, Apart, NextOf
<1> QED
  BY <1>7, <1>8, <1>9, <1>10 DEF Good, g

\* Free block p may absorb the free block q above it; neither is in a list.
MayMerge(h, X, Y, s, p, q, Z) ==
  /\ Good(h, X, Y, s)
  /\ p \in X /\ p \in DOMAIN h.blk /\ h.blk[p].status = "free"
  /\ q \in X /\ q \in DOMAIN h.blk /\ h.blk[q].status = "free" /\ q = NextOf(h, p)
  /\ Y \ {p, q} \subseteq Z /\ (q \in Y => p \in Z)

\* What is left after a merge.
HasMerged(h, g, X, s, p, q, Z) ==
  /\ Good(g, X \ {q}, Z, s) /\ Used(g) = Used(h) /\ DOMAIN g.blk = DOMAIN h.blk \ {q}
  /\ g.blk[p].status = "free"
  /\ \A c \in DOMAIN h.blk \ {p, q} : g.blk[c].size = h.blk[c].size

\* Two free neighbours become one.
LEMMA MergeGood ==
  ASSUME NEW h, NEW X, NEW Y, NEW s \in Protections, NEW p, NEW q, NEW Z,
         MayMerge(h, X, Y, s, p, q, Z)
  PROVE  HasMerged(h, Absorb(h, p, q), X, s, p, q, Z)
<1> SUFFICES ASSUME Good(h, X, Y, s), p \in X, p \in DOMAIN h.blk, h.blk[p].status = "free",
                    q \in X, q \in DOMAIN h.blk, h.blk[q].status = "free", q = NextOf(h, p),
                    Y \ {p, q} \subseteq Z, q \in Y => p \in Z
             PROVE  HasMerged(h, Absorb(h, p, q), X, s, p, q, Z)
  BY DEF MayMerge
<1> DEFINE m == NextOf(h, q)
           z == h.blk[p].size + h.blk[q].size + 1
           g == Absorb(h, p, q)
<1>1. Record(h) /\ Layout(h) /\ Flags(h) /\ Lists(h, X) /\ Apart(h, Y) /\ Protects(h, s)
  BY DEF Good
<1>2. p # Sentinel /\ q # Sentinel
  BY <1>1 DEF Flags
<1>3. /\ m \in DOMAIN h.blk /\ m = p + z + 1 /\ p < q /\ q < m /\ z \in Nat /\ z >= 3
      /\ p \in Nat /\ q \in Nat /\ m \in Nat /\ z >= h.blk[p].size
      /\ q = p + h.blk[p].size + 1 /\ m = q + h.blk[q].size + 1
      /\ h.blk[p].size \in Nat /\ h.blk[q].size \in Nat
  BY <1>1, <1>2, Order
<1>4. p \in DOMAIN h.blk /\ q \in DOMAIN h.blk /\ q = NextOf(h, p) /\ m \in DOMAIN h.blk /\ m = NextOf(h, q)
  BY <1>3
<1>5. /\ Record(g) /\ Beside(h, g) /\ DOMAIN g.blk = DOMAIN h.blk \ {q}
      /\ g.wrote = h.wrote \cup {p - 1, m - 2}
      /\ g.blk[p] = [size |-> z, status |-> h.blk[p].status, before |-> h.blk[p].before, link |-> h.blk[p].link]
      /\ g.blk[m] = [size |-> h.blk[m].size, status |-> h.blk[m].status, before |-> h.blk[m].before, link |-> p]
      /\ \A c \in DOMAIN h.blk \ {p, q, m} : g.blk[c] = h.blk[c]
  BY <1>1, <1>4, AbsorbDoes
<1> HIDE DEF g, z, m
<1>6. \A c \in DOMAIN h.blk \ {q} :
        /\ g.blk[c].size = IF c = p THEN z ELSE h.blk[c].size
        /\ g.blk[c].status = h.blk[c].status
        /\ g.blk[c].before = h.blk[c].before
        /\ g.blk[c].link = IF c = m THEN p ELSE h.blk[c].link
        /\ NextOf(g, c) = IF c = p THEN m ELSE NextOf(h, c)
  BY <1>3, <1>5 DEF NextOf, Overhead
<1>7. /\ First \in DOMAIN h.blk /\ Sentinel \in DOMAIN h.blk /\ q # First
      /\ \A c \in DOMAIN h.blk \ {Sentinel} :
           NextOf(h, c) \in DOMAIN h.blk /\ (c # q => NextOf(h, c) # m) /\ (c # p => NextOf(h, c) # q)
      /\ \A c \in DOMAIN h.blk : c \in Nat
  BY <1>1, <1>2, <1>3, Order DEF Layout, m
<1>8. Layout(g)
  <2>1. ASSUME NEW c \in DOMAIN g.blk \ {Sentinel}
        PROVE  /\ g.blk[c].size >= 3 /\ NextOf(g, c) \in DOMAIN g.blk
               /\ \A d \in DOMAIN g.blk : d <= c \/ d >= NextOf(g, c)
    <3>1. CASE c = p
      <4>1. NextOf(g, p) = m /\ g.blk[p].size >= 3 /\ m \in DOMAIN g.blk
        BY <1>3, <1>5, <1>6, <3>1
      <4>2. \A d \in DOMAIN h.blk \ {q} : d <= p \/ d >= m
        <5> TAKE d \in DOMAIN h.blk \ {q}
        <5>1. d \in Nat /\ (p < d => q <= d) /\ (q < d => m <= d)
          BY <1>1, <1>4, <1>7, Order
        <5> QED BY <1>3, <5>1
      <4> QED BY <1>5, <3>1, <4>1, <4>2
    <3>2. CASE c # p
      BY <1>1, <1>5, <1>6, <1>7, <3>2, Order DEF Layout
    <3> QED BY <3>1, <3>2
  <2> QED
    BY <1>1, <1>2, <1>5, <1>6, <1>7, <2>1 DEF Layout, BlockSizeMin
<1>9. Flags(g)
  <2>1. g.blk[Sentinel].status = "used" /\ g.blk[First].before = "used"
    BY <1>1, <1>2, <1>6, <1>7 DEF Flags
  <2>2. ASSUME NEW c \in DOMAIN g.blk \ {Sentinel}
        PROVE  /\ g.blk[NextOf(g, c)].before = g.blk[c].status
               /\ g.blk[c].status = "free" => g.blk[NextOf(g, c)].link = c
    <3>1. CASE c = p
      <4>1. h.blk[m].before = "free"
        BY <1>1, <1>2 DEF Flags, m
      <4> QED BY <1>3, <1>6, <3>1, <4>1
    <3>2. CASE c # p
      <4>1. c \in DOMAIN h.blk \ {Sentinel} /\ NextOf(g, c) = NextOf(h, c) /\ NextOf(h, c) \in DOMAIN h.blk \ {q}
            /\ NextOf(h, c) # m
        BY <1>5, <1>6, <1>7, <3>2
      <4> QED BY <1>1, <1>5, <1>6, <4>1 DEF Flags
    <3> QED BY <3>1, <3>2
  <2> QED
    BY <2>1, <2>2 DEF Flags
<1>10. Lists(g, X \ {q})
  BY <1>1, <1>5, <1>6, ListsKept
<1>11. Apart(g, Z)
  <2> SUFFICES ASSUME NEW c \in DOMAIN g.blk \ {Sentinel},
                      g.blk[c].status = "free", g.blk[NextOf(g, c)].status = "free"
               PROVE  c \in Z
    BY DEF Apart
  <2>1. CASE c = p
    <3>1. h.blk[m].status = "free"
      BY <1>3, <1>6, <2>1
    <3>2. q \in Y
      BY <1>1, <1>2, <3>1 DEF Apart, m
    <3> QED BY <2>1, <3>2
  <2>2. CASE c # p
    <3>1. c \in DOMAIN h.blk \ {Sentinel, q} /\ NextOf(g, c) = NextOf(h, c) /\ NextOf(h, c) \in DOMAIN h.blk \ {q}
      BY <1>5, <1>6, <1>7, <2>2
    <3> QED BY <1>1, <1>5, <1>6, <2>2, <3>1 DEF Apart
  <2> QED BY <2>1, <2>2
<1>12. Used(g) = Used(h)
  BY <1>5, <1>6 DEF Used
<1>13. Protects(g, s)
  <2> SUFFICES ASSUME NEW b \in Used(h)
               PROVE  /\ s[b] <= g.blk[b].size
                      /\ \A w \in g.wrote : ~(b <= w /\ w < b + s[b])
    BY <1>12 DEF Protects
  <2>1. /\ b \in DOMAIN h.blk /\ s[b] \in Nat /\ s[b] <= h.blk[b].size /\ h.blk[b].status = "used"
        /\ \A w \in h.wrote : ~(b <= w /\ w < b + s[b])
    BY <1>1, Order DEF Protects, Used, Protections
  <2>2. s[b] <= g.blk[b].size
    BY <1>6, <2>1
  <2>3. ~(b <= p - 1 /\ p - 1 < b + s[b])
    BY <1>1, <2>1, Outside
  <2>4. q <= m - 2 /\ m - 2 < q + h.blk[q].size /\ m - 2 \in Int
    BY <1>1, <1>2, <1>3, Order
  <2>5. ~(b <= m - 2 /\ m - 2 < b + s[b])
    BY <1>1, <2>1, <2>4, Outside
  <2> QED
    BY <1>5, <2>1, <2>2, <2>3, <2>5
<1>14. g.blk[p].status = "free"
  BY <1>3, <1>6
<1> QED
  BY <1>5, <1>8, <1>9, <1>10, <1>11, <1>12, <1>13, <1>14 DEF Good, g, HasMerged

\* A block in use takes the free block above it (the in-place growth of realloc).
LEMMA GrowGood ==
  ASSUME NEW h, NEW X, NEW s \in Protections, Good(h, X, {}, s),
         NEW p \in Used(h), p # Sentinel,
         NEW q \in X, q \in DOMAIN h.blk, h.blk[q].status = "free", q = NextOf(h, p)
  PROVE  LET g == MarkAsUsed(Absorb(h, p, q), p)
         IN  /\ Good(g, X \ {q}, {}, s) /\ Used(g) = Used(h)
             /\ g.blk[p].size = h.blk[p].size + h.blk[q].size + 1
<1> DEFINE m == NextOf(h, q)
           z == h.blk[p].size + h.blk[q].size + 1
           k == Absorb(h, p, q)
           g == MarkAsUsed(k, p)
<1>1. Record(h) /\ Layout(h) /\ Flags(h) /\ Lists(h, X) /\ Apart(h, {}) /\ Protects(h, s)
  BY DEF Good
<1>2. q # Sentinel /\ p \in DOMAIN h.blk \ {Sentinel} /\ h.blk[p].status = "used"
  BY <1>1 DEF Flags, Used
<1>3. /\ m \in DOMAIN h.blk /\ m = p + z + 1 /\ p < q /\ q < m /\ z \in Nat /\ z >= 3
      /\ p \in Nat /\ q \in Nat /\ m \in Nat /\ z >= h.blk[p].size
      /\ q = p + h.blk[p].size + 1 /\ m = q + h.blk[q].size + 1
      /\ h.blk[p].size \in Nat /\ h.blk[q].size \in Nat
  BY <1>1, <1>2, Order
<1>4. p \in DOMAIN h.blk /\ q \in DOMAIN h.blk /\ q = NextOf(h, p) /\ m \in DOMAIN h.blk /\ m = NextOf(h, q)
  BY <1>2, <1>3
<1>5. /\ Record(k) /\ Beside(h, k) /\ DOMAIN k.blk = DOMAIN h.blk \ {q}
      /\ k.wrote = h.wrote \cup {p - 1, m - 2}
      /\ k.blk[p] = [size |-> z, status |-> h.blk[p].status, before |-> h.blk[p].before, link |-> h.blk[p].link]
      /\ k.blk[m] = [size |-> h.blk[m].size, status |-> h.blk[m].status, before |-> h.blk[m].before, link |-> p]
      /\ \A c \in DOMAIN h.blk \ {p, q, m} : k.blk[c] = h.blk[c]
  BY <1>1, <1>4, AbsorbDoes
<1> HIDE DEF k, z, m
<1>6. p \in DOMAIN k.blk /\ m \in DOMAIN k.blk /\ m = NextOf(k, p)
  BY <1>3, <1>4, <1>5 DEF NextOf, Overhead
<1>7. /\ Record(g) /\ Beside(k, g) /\ DOMAIN g.blk = DOMAIN k.blk
      /\ g.wrote = k.wrote \cup {p - 1, m - 1}
      /\ g.blk[p] = [size |-> k.blk[p].size, status |-> "used", before |-> k.blk[p].before, link |-> k.blk[p].link]
      /\ g.blk[m] = [size |-> k.blk[m].size, status |-> k.blk[m].status, before |-> "used", link |-> k.blk[m].link]
      /\ \A c \in DOMAIN k.blk \ {p, m} : g.blk[c] = k.blk[c]
  BY <1>5, <1>6, MarkAsUsedDoes
<1> HIDE DEF g
<1>8. \A c \in DOMAIN h.blk \ {q} :
        /\ g.blk[c].size = IF c = p THEN z ELSE h.blk[c].size
        /\ g.blk[c].status = h.blk[c].status
        /\ g.blk[c].before = IF c = m THEN "used" ELSE h.blk[c].before
        /\ g.blk[c].link = IF c = m THEN p ELSE h.blk[c].link
        /\ NextOf(g, c) = IF c = p THEN m ELSE NextOf(h, c)
  BY <1>2, <1>3, <1>5, <1>7 DEF NextOf, Overhead
<1>9. /\ First \in DOMAIN h.blk /\ Sentinel \in DOMAIN h.blk /\ q # First /\ m # First
      /\ \A c \in DOMAIN h.blk \ {Sentinel} :
           NextOf(h, c) \in DOMAIN h.blk /\ (c # q => NextOf(h, c) # m) /\ (c # p => NextOf(h, c) # q)
      /\ \A c \in DOMAIN h.blk : c \in Nat
      /\ DOMAIN g.blk = DOMAIN h.blk \ {q}
  BY <1>1, <1>2, <1>3, <1>5, <1>7, Order DEF Layout, m
<1>10. Layout(g)
  <2>1. ASSUME NEW c \in DOMAIN g.blk \ {Sentinel}
        PROVE  /\ g.blk[c].size >= 3 /\ NextOf(g, c) \in DOMAIN g.blk
               /\ \A d \in DOMAIN g.blk : d <= c \/ d >= NextOf(g, c)
    <3>1. CASE c = p
      BY <1>1, <1>3, <1>8, <1>9, <3>1, Order DEF m
    <3>2. CASE c # p
      BY <1>1, <1>8, <1>9, <3>2, Order DEF Layout
    <3> QED BY <3>1, <3>2
  <2> QED
    BY <1>1, <1>2, <1>8, <1>9, <2>1 DEF Layout, BlockSizeMin
<1>11. Flags(g)
  <2>1. g.blk[Sentinel].status = "used" /\ g.blk[First].before = "used"
    BY <1>1, <1>2, <1>8, <1>9 DEF Flags
  <2>2. ASSUME NEW c \in DOMAIN g.blk \ {Sentinel}
        PROVE  /\ g.blk[NextOf(g, c)].before = g.blk[c].status
               /\ g.blk[c].status = "free" => g.blk[NextOf(g, c)].link = c
    <3>1. CASE c = p
      BY <1>2, <1>3, <1>4, <1>8, <3>1
    <3>2. CASE c # p
      <4>1. c \in DOMAIN h.blk \ {Sentinel} /\ NextOf(g, c) = NextOf(h, c) /\ NextOf(h, c) \in DOMAIN h.blk \ {q}
            /\ NextOf(h, c) # m
        BY <1>8, <1>9, <3>2
      <4> QED BY <1>1, <1>8, <1>9, <4>1 DEF Flags
    <3> QED BY <3>1, <3>2
  <2> QED
    BY <2>1, <2>2 DEF Flags
<1>12. Lists(g, X \ {q})
  <2>1. Beside(h, g)
    BY <1>5, <1>7 DEF Beside
  <2> QED
    BY <1>1, <1>2, <1>8, <1>9, <2>1, ListsKept
<1>13. Apart(g, {})
  <2> SUFFICES ASSUME NEW c \in DOMAIN g.blk \ {Sentinel},
                      g.blk[c].status = "free", g.blk[NextOf(g, c)].status = "free"
               PROVE  FALSE
    BY DEF Apart
  <2>1. c # p
    BY <1>2, <1>8
  <2>2. c \in DOMAIN h.blk \ {Sentinel, q} /\ NextOf(g, c) = NextOf(h, c) /\ NextOf(h, c) \in DOMAIN h.blk \ {q}
    BY <1>8, <1>9, <2>1
  <2> QED BY <1>1, <1>8, <2>2 DEF Apart
<1>14. Used(g) = Used(h)
  BY <1>8, <1>9 DEF Used
<1>15. Protects(g, s)
  <2> SUFFICES ASSUME NEW b \in Used(h)
               PROVE  /\ s[b] <= g.blk[b].size
                      /\ \A w \in g.wrote : ~(b <= w /\ w < b + s[b])
    BY <1>14 DEF Protects
  <2>1. /\ b \in DOMAIN h.blk /\ s[b] \in Nat /\ s[b] <= h.blk[b].size /\ h.blk[b].status = "used"
        /\ \A w \in h.wrote : ~(b <= w /\ w < b + s[b])
    BY <1>1, Order DEF Protects, Used, Protections
  <2>2. s[b] <= g.blk[b].size
    <3>1. g.blk[b].size \in Nat /\ h.blk[b].size \in Nat /\ g.blk[b].size >= h.blk[b].size
      BY <1>1, <1>3, <1>8, <2>1, Order
    <3> QED BY <2>1, <3>1
  <2>3. ~(b <= p - 1 /\ p - 1 < b + s[b]) /\ ~(b <= m - 1 /\ m - 1 < b + s[b])
    BY <1>1, <1>2, <1>3, <2>1, Outside
  <2>4. q <= m - 2 /\ m - 2 < q + h.blk[q].size /\ m - 2 \in Int
    BY <1>1, <1>2, <1>3, Order
  <2>5. ~(b <= m - 2 /\ m - 2 < b + s[b])
    BY <1>1, <2>1, <2>4, Outside
  <2> QED
    BY <1>5, <1>7, <2>1, <2>2, <2>3, <2>5
<1>16. g.blk[p].size = z
  BY <1>2, <1>3, <1>8
<1>17. Good(g, X \ {q}, {}, s)
  BY <1>7, <1>10, <1>11, <1>12, <1>13, <1>15 DEF Good
<1> QED
  BY <1>14, <1>16, <1>17 DEF g, k, z

-----------------------------------------------------------------------------
(* free, and the three ways to trim. *)
\* The blocks in use are the same, with the same sizes.
SameUsed(h, g) == Used(g) = Used(h) /\ \A b \in Used(h) : g.blk[b].size = h.blk[b].size

\* block_merge_next on a free block.
LEMMA MergeNextGood ==
  ASSUME NEW h, NEW s \in Protections, NEW l, Good(h, {l}, {l}, s),
         l \in DOMAIN h.blk, h.blk[l].status = "free"
  PROVE  LET g == MergeNext(h, l)
         IN  /\ Good(g, {l}, {}, s) /\ Used(g) = Used(h)
             /\ l \in DOMAIN g.blk /\ g.blk[l].status = "free" /\ SameUsed(h, g)
<1> DEFINE q == NextOf(h, l)
           k == BlockRemove(h, q)
           g == MergeNext(h, l)
<1>1. Record(h) /\ Layout(h) /\ Flags(h) /\ Lists(h, {l}) /\ Apart(h, {l}) /\ Protects(h, s)
  BY DEF Good
<1>2. l # Sentinel
  BY <1>1 DEF Flags
<1>3. q \in DOMAIN h.blk /\ q # l
  BY <1>1, <1>2, Order
<1>4. CASE h.blk[q].status = "free"
  <2>1. g = Absorb(k, l, q)
    BY <1>4 DEF MergeNext, IsFree
  <2>2. Good(k, {l} \cup {q}, {l}, s) /\ k.blk = h.blk
    BY <1>3, <1>4, RemoveGood
  <2> HIDE DEF k
  <2>3. q = NextOf(k, l) /\ Used(k) = Used(h)
    BY <2>2 DEF NextOf, Used
  <2> HIDE DEF q
  <2> DEFINE X == {l} \cup {q}
             Y == {l}
             Z == {}
  <2>4. MayMerge(k, X, Y, s, l, q, Z)
    BY <1>3, <1>4, <2>2, <2>3 DEF MayMerge
  <2> HIDE DEF X, Y, Z
  <2>5. HasMerged(k, Absorb(k, l, q), X, s, l, q, Z)
    BY <2>4, MergeGood
  <2>6. X \ {q} = {l} /\ Z = {}
    BY <1>3 DEF X, Z
  <2>7. SameUsed(h, Absorb(k, l, q))
    BY <1>4, <2>2, <2>3, <2>5 DEF HasMerged, SameUsed, Used
  <2> QED
    BY <1>3, <2>1, <2>2, <2>3, <2>5, <2>6, <2>7 DEF HasMerged
<1>5. CASE h.blk[q].status # "free"
  <2>1. g = h
    BY <1>5 DEF MergeNext, IsFree
  <2>2. Apart(h, {})
    BY <1>1, <1>5 DEF Apart
  <2> QED
    BY <1>1, <2>1, <2>2 DEF Good, SameUsed
<1> QED
  BY <1>4, <1>5

\* block_merge_prev: what is found free below takes the block.
LEMMA MergePrevGood ==
  ASSUME NEW h, NEW s \in Protections, NEW p, NEW Y, Good(h, {p}, Y, s),
         p \in DOMAIN h.blk, h.blk[p].status = "free",
         \A a \in Y : a = p \/ NextOf(h, a) = p
  PROVE  LET r == MergePrev(h, p)
         IN  /\ Good(r.h, {r.ptr}, {r.ptr}, s) /\ Used(r.h) = Used(h)
             /\ r.ptr \in DOMAIN r.h.blk /\ r.h.blk[r.ptr].status = "free" /\ SameUsed(h, r.h)
<1> DEFINE q == h.blk[p].link
           k == BlockRemove(h, q)
           r == MergePrev(h, p)
<1>1. Record(h) /\ Layout(h) /\ Flags(h) /\ Lists(h, {p}) /\ Apart(h, Y) /\ Protects(h, s)
  BY DEF Good
<1>2. p # Sentinel
  BY <1>1 DEF Flags
<1>3. CASE h.blk[p].before = "free"
  <2>1. p # First
    BY <1>1, <1>3 DEF Flags
  <2>2. PICK a \in DOMAIN h.blk \ {Sentinel} : NextOf(h, a) = p
    BY <1>1, <2>1, Below
  <2>3. a = q /\ h.blk[a].status = "free"
    BY <1>1, <1>3, <2>2 DEF Flags
  <2>4. q \in DOMAIN h.blk \ {Sentinel} /\ h.blk[q].status = "free" /\ NextOf(h, q) = p
    BY <2>2, <2>3
  <2>5. q # p
    BY <1>1, <2>4, Order
  <2>6. Good(k, {p} \cup {q}, Y, s) /\ k.blk = h.blk
    BY <2>4, <2>5, RemoveGood
  <2>7. r.h = Absorb(k, q, p) /\ r.ptr = q
    BY <1>3 DEF MergePrev
  <2> HIDE DEF k, r
  <2>8. p = NextOf(k, q) /\ Used(k) = Used(h)
    BY <2>4, <2>6 DEF NextOf, Used
  <2>9. \A b \in Y : b \in DOMAIN h.blk \ {Sentinel} => b = p \/ b = q
    BY <1>1, <2>4, Order
  <2> HIDE DEF q
  <2> DEFINE X == {p} \cup {q}
             Z == {q} \cup (Y \ {p, q})
  <2>10. MayMerge(k, X, Y, s, q, p, Z)
    BY <2>4, <2>6, <2>8 DEF MayMerge
  <2> HIDE DEF X, Z
  <2>11. HasMerged(k, Absorb(k, q, p), X, s, q, p, Z)
    BY <2>10, MergeGood
  <2>12. /\ Good(r.h, X \ {p}, Z, s) /\ Used(r.h) = Used(k) /\ r.ptr = q
         /\ DOMAIN r.h.blk = DOMAIN k.blk \ {p} /\ r.h.blk[q].status = "free"
    BY <2>7, <2>11 DEF HasMerged
  <2>13. X \ {p} = {q}
    BY <2>5 DEF X
  <2>14. Apart(r.h, {q})
    <3>1. \A b \in Z : b \in DOMAIN k.blk \ {Sentinel, p} => b = q
      BY <2>6, <2>9 DEF Z
    <3> QED
      BY <2>12, <3>1 DEF Apart, Good
  <2>15. Good(r.h, {q}, {q}, s)
    BY <2>12, <2>13, <2>14 DEF Good
  <2>16. q \in DOMAIN r.h.blk
    BY <2>4, <2>5, <2>6, <2>12
  <2>17. SameUsed(h, r.h)
    <3>1. \A c \in DOMAIN k.blk \ {q, p} : r.h.blk[c].size = k.blk[c].size
      BY <2>7, <2>11 DEF HasMerged
    <3> QED BY <2>4, <2>6, <2>8, <2>12, <3>1 DEF SameUsed, Used
  <2> QED
    BY <2>8, <2>12, <2>15, <2>16, <2>17 DEF r
<1>4. CASE h.blk[p].before # "free"
  <2>1. r = [h |-> h, ptr |-> p]
    BY <1>4 DEF MergePrev
  <2>2. Apart(h, {p})
    BY <1>1, <1>4 DEF Apart, Flags
  <2> QED
    BY <1>1, <2>1, <2>2 DEF Good, SameUsed
<1> QED
  BY <1>3, <1>4

\* tlsf_free: one block less in use, the others as they were.
LEMMA FreeGood ==
  ASSUME NEW h, NEW s \in Protections, Good(h, {}, {}, s),
         NEW p \in Used(h), p # Sentinel, s[p] = 0
  PROVE  /\ Good(TlsfFree(h, p), {}, {}, s)
         /\ Used(TlsfFree(h, p)) = Used(h) \ {p}
         /\ \A b \in Used(h) \ {p} : TlsfFree(h, p).blk[b].size = h.blk[b].size
<1> DEFINE Y == {a \in DOMAIN h.blk : a = p \/ NextOf(h, a) = p}
           k == MarkAsFree(h, p)
           r == MergePrev(k, p)
           m == MergeNext(r.h, r.ptr)
<1>1. p \in DOMAIN h.blk /\ p \in Y /\ \A a \in DOMAIN h.blk : NextOf(h, a) = p => a \in Y
  BY DEF Used
<1>2. \A a \in Y : a \in DOMAIN h.blk /\ (a = p \/ NextOf(h, a) = p)
  OBVIOUS
<1> HIDE DEF Y
<1>3. /\ Good(k, {} \cup {p}, Y, s) /\ Used(k) = Used(h) \ {p} /\ DOMAIN k.blk = DOMAIN h.blk
      /\ \A b \in DOMAIN h.blk : k.blk[b].size = h.blk[b].size
  BY <1>1, ReleaseGood
<1>4. TlsfFree(h, p) = InsertFree(m, r.ptr)
  BY DEF TlsfFree
<1> HIDE DEF k
<1>5. /\ Good(k, {p}, Y, s) /\ p \in DOMAIN k.blk /\ k.blk[p].status = "free"
      /\ \A a \in Y : a = p \/ NextOf(k, a) = p
  <2>1. {} \cup {p} = {p}
    OBVIOUS
  <2>2. Record(k)
    BY <1>3 DEF Good
  <2>3. k.blk[p].status = "free"
    BY <1>1, <1>3, <2>2, BlockIs DEF Used, Statuses
  <2> QED
    BY <1>1, <1>2, <1>3, <2>1, <2>3 DEF NextOf
<1>6. /\ Good(r.h, {r.ptr}, {r.ptr}, s) /\ Used(r.h) = Used(k)
      /\ r.ptr \in DOMAIN r.h.blk /\ r.h.blk[r.ptr].status = "free" /\ SameUsed(k, r.h)
  BY <1>5, MergePrevGood
<1> HIDE DEF r
<1>7. /\ Good(m, {r.ptr}, {}, s) /\ Used(m) = Used(r.h)
      /\ r.ptr \in DOMAIN m.blk /\ m.blk[r.ptr].status = "free" /\ SameUsed(r.h, m)
  BY <1>6, MergeNextGood
<1> HIDE DEF m
<1>8. Good(InsertFree(m, r.ptr), {r.ptr} \ {r.ptr}, {}, s) /\ InsertFree(m, r.ptr).blk = m.blk
  BY <1>7, InsertGood
<1>9. Used(InsertFree(m, r.ptr)) = Used(m) /\ {r.ptr} \ {r.ptr} = {}
  BY <1>8 DEF Used
<1>10. \A b \in Used(h) \ {p} : TlsfFree(h, p).blk[b].size = h.blk[b].size
  BY <1>1, <1>3, <1>4, <1>6, <1>7, <1>8 DEF SameUsed, Used
<1> QED
  BY <1>3, <1>4, <1>6, <1>7, <1>8, <1>9, <1>10

\* block_trim_free: the block keeps what is asked for, the rest is listed.
LEMMA TrimFreeGood ==
  ASSUME NEW h, NEW p, NEW Y, NEW s \in Protections, Good(h, {p}, Y, s), p \notin Y,
         p \in DOMAIN h.blk, h.blk[p].status = "free",
         NEW n \in Nat, n >= 3, n <= h.blk[p].size
  PROVE  LET g == TrimFree(h, p, n)
         IN  /\ Good(g, {p}, Y \cup {p}, s) /\ Used(g) = Used(h)
             /\ p \in DOMAIN g.blk /\ g.blk[p].status = "free" /\ g.blk[p].size >= n
             /\ \A c \in DOMAIN h.blk \ {p} : g.blk[c].size = h.blk[c].size
<1> DEFINE q == Rest(p, n)
           k == SetBefore(LinkNext(Split(h, p, n), p), q, "free")
           g == TrimFree(h, p, n)
<1>1. Record(h) /\ Layout(h) /\ Flags(h) /\ Lists(h, {p}) /\ Apart(h, Y) /\ Protects(h, s)
  BY DEF Good
<1>2. p # Sentinel /\ h.blk[p].size \in Nat /\ p \in Nat
  BY <1>1, Order DEF Flags
<1>3. CASE h.blk[p].size >= n + 4
  <2>1. g = InsertFree(k, q)
    BY <1>3, <1>2 DEF TrimFree, CanSplit, HeaderSize
  <2>2. h.blk[NextOf(h, p)].status # "free"
    BY <1>1, <1>2 DEF Apart
  <2> DEFINE Z == Y \cup {p}
  <2>3. MayCut(h, {p}, Y, s, p, n, Z)
    BY <1>2, <1>3, <2>2 DEF MayCut
  <2> HIDE DEF Z
  <2>4. HasCut(h, k, {p}, s, p, n, q, Z)
    BY <2>3, Cuts
  <2> HIDE DEF k, g
  <2>5. /\ Good(k, {p} \cup {q}, Z, s) /\ Used(k) = Used(h) /\ q \notin DOMAIN h.blk
        /\ DOMAIN k.blk = DOMAIN h.blk \cup {q}
        /\ k.blk[p].size = n /\ k.blk[p].status = h.blk[p].status /\ k.blk[q].status = "free"
    BY <2>4 DEF HasCut
  <2> HIDE DEF q
  <2>6. Good(InsertFree(k, q), ({p} \cup {q}) \ {q}, Z, s) /\ InsertFree(k, q).blk = k.blk
    BY <2>5, InsertGood
  <2>7. ({p} \cup {q}) \ {q} = {p}
    BY <2>5
  <2>8. Used(InsertFree(k, q)) = Used(k)
    BY <2>6 DEF Used
  <2>9. Good(g, {p}, Y \cup {p}, s) /\ Used(g) = Used(h) /\ p \in DOMAIN g.blk
         /\ g.blk[p].status = "free" /\ g.blk[p].size >= n
    BY <2>1, <2>5, <2>6, <2>7, <2>8 DEF Z
  <2>10. \A c \in DOMAIN h.blk \ {p} : g.blk[c].size = h.blk[c].size
    BY <2>1, <2>4, <2>6 DEF HasCut
  <2> QED BY <2>9, <2>10 DEF g
<1>4. CASE ~(h.blk[p].size >= n + 4)
  <2>1. g = h
    BY <1>4, <1>2 DEF TrimFree, CanSplit, HeaderSize
  <2>2. Apart(h, Y \cup {p})
    BY <1>1 DEF Apart
  <2> QED
    BY <1>1, <2>1, <2>2 DEF Good
<1> QED
  BY <1>3, <1>4

\* gap words of the free block p have been given back.
HasLed(h, r, s, p, gap, q) ==
  /\ r.ptr = q /\ Good(r.h, {q}, {p}, s) /\ Used(r.h) = Used(h) /\ q \notin DOMAIN h.blk
  /\ q \in DOMAIN r.h.blk /\ r.h.blk[q].status = "free"
  /\ r.h.blk[q].size = h.blk[p].size - gap
  /\ p \in DOMAIN r.h.blk /\ NextOf(r.h, p) = q

\* block_trim_free_leading: the words up to the aligned pointer are listed.
LEMMA LeadGood ==
  ASSUME NEW h, NEW p, NEW s \in Protections, Good(h, {p}, {}, s),
         p \in DOMAIN h.blk, h.blk[p].status = "free",
         NEW gap \in Nat, gap >= 4, h.blk[p].size >= gap + 4
  PROVE  HasLed(h, TrimFreeLeading(h, p, gap), s, p, gap, p + gap)
<1> DEFINE n == gap - 1
           q == p + gap
           k == LinkNext(SetBefore(Split(h, p, n), q, "free"), p)
           r == TrimFreeLeading(h, p, gap)
<1>1. Record(h) /\ Layout(h) /\ Flags(h) /\ Lists(h, {p}) /\ Apart(h, {}) /\ Protects(h, s)
  BY DEF Good
<1>2. /\ p # Sentinel /\ h.blk[p].size \in Nat /\ p \in Nat /\ n \in Nat /\ n >= 3
      /\ h.blk[p].size >= n + 4 /\ h.blk[p].size - (n + 1) = h.blk[p].size - gap
      /\ q = Rest(p, n)
  BY <1>1, Order DEF Flags, Rest, Overhead
<1>3. r = [h |-> InsertFree(k, p), ptr |-> q]
  BY <1>2 DEF TrimFreeLeading, CanSplit, HeaderSize, Overhead
<1> HIDE DEF n, q
<1>4. h.blk[NextOf(h, p)].status # "free"
  BY <1>1, <1>2 DEF Apart
<1> DEFINE Z == {p}
<1>5. MayCut(h, {p}, {}, s, p, n, Z)
  BY <1>2, <1>4 DEF MayCut
<1> HIDE DEF Z
<1>6. HasCut(h, k, {p}, s, p, n, q, Z)
  BY <1>2, <1>5, Cuts
<1> HIDE DEF k, r
<1>7. /\ Good(k, {p} \cup {q}, Z, s) /\ Used(k) = Used(h) /\ q \notin DOMAIN h.blk
      /\ DOMAIN k.blk = DOMAIN h.blk \cup {q} /\ k.blk[q].size = h.blk[p].size - (n + 1)
      /\ k.blk[p].size = n
      /\ k.blk[p].status = h.blk[p].status /\ k.blk[q].status = "free"
  BY <1>6 DEF HasCut
<1>8. Good(InsertFree(k, p), ({p} \cup {q}) \ {p}, Z, s) /\ InsertFree(k, p).blk = k.blk
  BY <1>7, InsertGood
<1>9. ({p} \cup {q}) \ {p} = {q}
  BY <1>7
<1>10. Used(InsertFree(k, p)) = Used(k)
  BY <1>8 DEF Used
<1>11. r.ptr = q /\ r.h = InsertFree(k, p)
  BY <1>3
<1>12. /\ r.ptr = q /\ Good(r.h, {q}, {p}, s) /\ Used(r.h) = Used(h) /\ q \notin DOMAIN h.blk
       /\ q \in DOMAIN r.h.blk /\ r.h.blk[q].status = "free"
       /\ r.h.blk[q].size = h.blk[p].size - gap
       /\ r.h.blk[p].size = n /\ p \in DOMAIN r.h.blk
  BY <1>2, <1>7, <1>8, <1>9, <1>10, <1>11 DEF Z
<1>13. p + n + 1 = q
  BY <1>2 DEF n, q
<1>14. NextOf(r.h, p) = q
  BY <1>12, <1>13 DEF NextOf, Overhead
<1> QED
  BY <1>12, <1>14 DEF r, q, HasLed

\* block_trim_used: the rest is merged with what is free above it.
LEMMA TrimUsedGood ==
  ASSUME NEW h, NEW s \in Protections, Good(h, {}, {}, s), NEW p \in Used(h), p # Sentinel,
         NEW n \in Nat, n >= 3, n <= h.blk[p].size, s[p] <= n
  PROVE  LET g == TrimUsed(h, p, n)
         IN  Good(g, {}, {}, s) /\ Used(g) = Used(h) /\ g.blk[p].size >= n
<1> DEFINE q == Rest(p, n)
           k == SetBefore(Split(h, p, n), q, "used")
           m == MergeNext(k, q)
           g == TrimUsed(h, p, n)
<1>1. Record(h) /\ Layout(h) /\ Flags(h) /\ Lists(h, {}) /\ Apart(h, {}) /\ Protects(h, s)
  BY DEF Good
<1>2. p \in DOMAIN h.blk \ {Sentinel} /\ h.blk[p].size \in Nat /\ p \in Nat /\ h.blk[p].status = "used"
  BY <1>1, Order DEF Used
<1>3. CASE h.blk[p].size >= n + 4
  <2>1. g = InsertFree(m, q)
    BY <1>3, <1>2 DEF TrimUsed, CanSplit, HeaderSize
  <2> DEFINE Z == {q}
             X == {}
  <2>2. MayCut(h, X, X, s, p, n, Z)
    BY <1>2, <1>3 DEF MayCut
  <2> HIDE DEF Z, X
  <2>3. HasCut(h, k, X, s, p, n, q, Z)
    BY <1>2, <2>2, Cuts
  <2> HIDE DEF k, g, q
  <2>4. /\ Good(k, X \cup {q}, Z, s) /\ Used(k) = Used(h)
        /\ DOMAIN k.blk = DOMAIN h.blk \cup {q} /\ k.blk[q].status = "free" /\ k.blk[p].size = n
    BY <2>3 DEF HasCut
  <2>5. Good(k, {q}, {q}, s) /\ q \in DOMAIN k.blk /\ k.blk[q].status = "free"
    <3>1. X \cup {q} = {q} /\ Z = {q}
      BY DEF X, Z
    <3> QED BY <2>4, <3>1
  <2>6. /\ Good(m, {q}, {}, s) /\ Used(m) = Used(k)
        /\ q \in DOMAIN m.blk /\ m.blk[q].status = "free" /\ SameUsed(k, m)
    BY <2>5, MergeNextGood
  <2> HIDE DEF m
  <2>7. Good(InsertFree(m, q), {q} \ {q}, {}, s) /\ InsertFree(m, q).blk = m.blk
    BY <2>6, InsertGood
  <2>8. {q} \ {q} = {} /\ Used(InsertFree(m, q)) = Used(m)
    BY <2>7 DEF Used
  <2>9. g.blk[p].size = n
    BY <2>1, <2>4, <2>6, <2>7 DEF SameUsed
  <2> QED
    BY <2>1, <2>4, <2>6, <2>7, <2>8, <2>9 DEF g
<1>4. CASE ~(h.blk[p].size >= n + 4)
  <2>1. g = h
    BY <1>4, <1>2 DEF TrimUsed, CanSplit, HeaderSize
  <2> QED
    BY <2>1
<1> QED
  BY <1>3, <1>4

-----------------------------------------------------------------------------
(* Searching. *)
\* A least number is one of the set.
LEMMA MinIs ==
  ASSUME NEW T \in SUBSET Nat, T # {}
  PROVE  Min(T) \in T /\ \A y \in T : Min(T) <= y
  BY LeastElement DEF Min

\* The class that a search starts from, which may lie above the table.
LEMMA SearchStarts ==
  ASSUME NEW n \in Nat, n > 0, n < BlockSizeMax
  PROVE  MappingSearch(n)[1] \in Nat /\ MappingSearch(n)[2] \in Int
<1>1. SlCount \in Nat \ {0}
  BY Powers DEF SlCount
<1>2. CASE n < SlCount
  BY <1>2, <1>1 DEF MappingInsert, MappingSearch
<1>3. CASE n >= SlCount
  <2> DEFINE f == Fls(n)
             u == 2^(f - SlLog2)
             r == n + u - 1
             g == Fls(r)
             v == 2^(g - SlLog2)
  <2>1. BlockSizeMax \in Nat /\ 2^(FlMax + 2) = 4 * BlockSizeMax
    <3>1. FlMax \in Exponents /\ FlMax + 1 \in Exponents /\ (FlMax + 1) + 1 = FlMax + 2
      BY Powers DEF Exponents
    <3>2. 2^FlMax \in Nat \ {0} /\ 2^(FlMax + 1) = 2 * 2^FlMax /\ 2^(FlMax + 2) = 2 * 2^(FlMax + 1)
      BY <3>1, Powers DEF Exponents
    <3> QED
      BY <3>2 DEF BlockSizeMax
  <2>2. u \in Nat \ {0} /\ u <= n
    <3>1. u \in Nat \ {0} /\ 2^f = SlCount * u /\ 2^f <= n
      BY <1>3, <2>1, Unit
    <3>2. u <= SlCount * u /\ SlCount * u \in Nat
      BY <1>1, <3>1
    <3>3. SlCount * u <= n
      BY <3>1
    <3> HIDE DEF u
    <3> QED BY <3>1, <3>2, <3>3
  <2>3. r \in Nat /\ n <= r /\ r < 2^(FlMax + 2)
    BY <2>1, <2>2
  <2>4. g \in SlLog2..(FlMax + 1) /\ v \in Nat \ {0}
    <3> HIDE DEF r
    <3> QED BY <1>1, <1>3, <2>3, Unit
  <2>5. MappingSearch(n) = <<g - SlLog2 + 1, (r \div v) - SlCount>>
    BY <1>1, <1>3, <2>3 DEF MappingSearch, MappingInsert
  <2> HIDE DEF r, g, v
  <2>6. r \div v \in Nat
    BY <2>3, <2>4, Division
  <2> QED
    BY <1>1, <2>4, <2>5, <2>6, Powers
<1> QED
  BY <1>1, <1>2, <1>3

\* search_suitable_block finds a list that is not empty whenever there is one at or above
\* the class it starts from.
LEMMA SuitableDoes ==
  ASSUME NEW h, h.sl \subseteq Classes, h.fl = {d[1] : d \in h.sl},
         NEW c, c[1] \in Nat, c[2] \in Int
  PROVE  \/ SearchSuitable(h, c) = {} /\ \A d \in h.sl : ~AtOrAbove(d, c)
         \/ \E d \in h.sl : SearchSuitable(h, c) = {d} /\ AtOrAbove(d, c)
<1> DEFINE here == {s \in 0..(SlCount - 1) : <<c[1], s>> \in h.sl /\ s >= c[2]}
           above == {f \in h.fl : f > c[1]}
           least == {s \in 0..(SlCount - 1) : <<Min(above), s>> \in h.sl}
<1>1. SlCount \in Nat /\ FlCount \in Nat
  BY Powers DEF SlCount, FlCount
<1>2. \A d \in h.sl : /\ d[1] \in 0..(FlCount - 1) /\ d[2] \in 0..(SlCount - 1)
                      /\ d = <<d[1], d[2]>> /\ d[1] \in h.fl
  BY DEF Classes
<1>3. CASE here # {}
  <2>1. here \in SUBSET Nat
    BY <1>1
  <2>2. SearchSuitable(h, c) = {<<c[1], Min(here)>>}
    BY <1>3 DEF SearchSuitable
  <2>3. Min(here) \in here
    <3> HIDE DEF here
    <3> QED BY <1>3, <2>1, MinIs
  <2>4. <<c[1], Min(here)>> \in h.sl /\ Min(here) >= c[2]
    BY <2>3
  <2> QED
    BY <2>2, <2>4 DEF AtOrAbove
<1>4. CASE here = {} /\ above = {}
  <2>1. SearchSuitable(h, c) = {}
    BY <1>4 DEF SearchSuitable
  <2>2. ASSUME NEW d \in h.sl, AtOrAbove(d, c)
        PROVE  FALSE
    <3>1. ~(d[1] > c[1])
      BY <1>2, <1>4
    <3>2. d[1] = c[1] /\ d[2] >= c[2]
      BY <2>2, <3>1 DEF AtOrAbove
    <3>3. d[2] \in here
      BY <1>2, <3>2
    <3> QED BY <1>4, <3>3
  <2> QED BY <2>1, <2>2
<1>5. CASE here = {} /\ above # {}
  <2>1. above \in SUBSET Nat
    BY <1>1, <1>2
  <2>2. Min(above) \in above
    <3> HIDE DEF above
    <3> QED BY <1>5, <2>1, MinIs
  <2>3. PICK d \in h.sl : d[1] = Min(above)
    BY <2>2
  <2>4. d[2] \in least /\ least \in SUBSET Nat
    BY <1>1, <1>2, <2>3
  <2>5. Min(least) \in least
    <3> HIDE DEF least
    <3> QED BY <2>4, MinIs
  <2>6. SearchSuitable(h, c) = {<<Min(above), Min(least)>>}
    BY <1>5 DEF SearchSuitable
  <2> QED
    BY <2>2, <2>5, <2>6 DEF AtOrAbove
<1> QED
  BY <1>3, <1>4, <1>5

\* block_locate_free: a block large enough, or none of the class that is searched for.
LEMMA LocateGood ==
  ASSUME NEW h, NEW s \in Protections, Good(h, {}, {}, s), NEW n \in Nat, n < BlockSizeMax
  PROVE  LET r == LocateFree(h, n)
         IN  \/ /\ r.ptr = 0 /\ r.h = h
                /\ n > 0 => \A p \in DOMAIN h.blk :
                     h.blk[p].status = "free" => ~AtOrAbove(ClassOf(h, p), MappingSearch(n))
             \/ /\ r.ptr \in DOMAIN h.blk /\ h.blk[r.ptr].status = "free" /\ h.blk[r.ptr].size >= n
                /\ Good(r.h, {r.ptr}, {}, s) /\ r.h.blk = h.blk
<1> DEFINE c == MappingSearch(n)
           found == IF n > 0 /\ c[1] < FlCount THEN SearchSuitable(h, c) ELSE {}
           r == LocateFree(h, n)
<1>1. Record(h) /\ Layout(h) /\ Flags(h) /\ Lists(h, {}) /\ Apart(h, {}) /\ Protects(h, s)
  BY DEF Good
<1>2. h.sl = {d \in Classes : h.lists[d] # <<>>} /\ h.fl = {d[1] : d \in h.sl}
  BY <1>1 DEF Lists
<1>3. ASSUME NEW p \in DOMAIN h.blk, h.blk[p].status = "free"
      PROVE  ClassOf(h, p) \in h.sl /\ ClassOf(h, p)[1] < FlCount
  <2>1. ClassOf(h, p) \in Classes /\ p \in ToSet(h.lists[ClassOf(h, p)])
    BY <1>1, <1>3, ClassIn DEF Lists
  <2>2. h.lists[ClassOf(h, p)] # <<>>
    BY <2>1 DEF ToSet
  <2>3. FlCount \in Nat
    BY Powers DEF FlCount
  <2> QED BY <1>2, <2>1, <2>2, <2>3 DEF Classes
<1>4. CASE found = {}
  <2>1. r.ptr = 0 /\ r.h = h
    BY <1>4 DEF LocateFree
  <2>2. ASSUME n > 0, NEW p \in DOMAIN h.blk, h.blk[p].status = "free", AtOrAbove(ClassOf(h, p), c)
        PROVE  FALSE
    <3>1. c[1] \in Nat /\ c[2] \in Int /\ h.sl \subseteq Classes
      BY <1>2, <2>2, SearchStarts
    <3>2. ClassOf(h, p) \in h.sl /\ ClassOf(h, p)[1] < FlCount /\ ClassOf(h, p)[1] \in Int /\ FlCount \in Nat
      BY <1>2, <1>3, <2>2, Powers DEF Classes, FlCount
    <3>3. c[1] < FlCount
      BY <2>2, <3>1, <3>2 DEF AtOrAbove
    <3>4. SearchSuitable(h, c) = {}
      BY <1>4, <2>2, <3>3
    <3> HIDE DEF c
    <3>5. ~ \E d \in h.sl : SearchSuitable(h, c) = {d} /\ AtOrAbove(d, c)
      BY <3>4
    <3>6. \A d \in h.sl : ~AtOrAbove(d, c)
      BY <1>2, <3>1, <3>5, SuitableDoes
    <3> QED BY <2>2, <3>2, <3>6
  <2> QED BY <2>1, <2>2
<1>5. CASE found # {}
  <2>1. n > 0 /\ c[1] < FlCount /\ found = SearchSuitable(h, c)
    BY <1>5
  <2>2. c[1] \in Nat /\ c[2] \in Int /\ h.sl \subseteq Classes
    BY <1>2, <2>1, SearchStarts
  <2>3. PICK d \in h.sl : found = {d} /\ AtOrAbove(d, c)
    <3> HIDE DEF c
    <3> QED BY <1>2, <1>5, <2>1, <2>2, SuitableDoes
  <2> DEFINE p == Head(h.lists[d])
  <2>4. r = [h |-> RemoveFree(h, p, d), ptr |-> p]
    BY <1>5, <2>3 DEF LocateFree
  <2>5. p \in ToSet(h.lists[d]) /\ d \in Classes
    <3>1. h.lists[d] \in Seq(Nat) /\ h.lists[d] # <<>> /\ d \in Classes
      BY <1>1, <1>2 DEF Record
    <3>2. 1 \in DOMAIN h.lists[d] /\ h.lists[d][1] = p
      BY <3>1
    <3> QED BY <3>1, <3>2 DEF ToSet
  <2>6. p \in DOMAIN h.blk /\ h.blk[p].status = "free" /\ ClassOf(h, p) = d
    BY <1>1, <2>5 DEF Lists
  <2>7. r.ptr = p /\ r.h = BlockRemove(h, p)
    BY <2>4, <2>6 DEF BlockRemove
  <2>8. h.blk[p].size >= n
    <3>1. h.blk[p].size \in Nat /\ h.blk[p].size < BlockSizeMax /\ BlockSizeMax \in Nat
      BY <1>1, <2>6, Order, Pool
    <3>2. AtOrAbove(MappingInsert(h.blk[p].size), MappingSearch(n))
      BY <2>3, <2>6 DEF ClassOf
    <3> QED BY <2>1, <3>1, <3>2, SearchIsEnough
  <2> HIDE DEF p, r, c, found
  <2>9. Good(BlockRemove(h, p), {} \cup {p}, {}, s) /\ BlockRemove(h, p).blk = h.blk
    BY <2>6, RemoveGood
  <2>10. {} \cup {p} = {p}
    OBVIOUS
  <2>11. Good(r.h, {r.ptr}, {}, s) /\ r.h.blk = h.blk
    BY <2>7, <2>9, <2>10
  <2> QED BY <2>6, <2>7, <2>8, <2>11 DEF r
<1> QED BY <1>4, <1>5

-----------------------------------------------------------------------------
(* Rounding and aligning. *)
\* The larger of two numbers.
LEMMA MaxIs ==
  ASSUME NEW a \in Int, NEW b \in Int
  PROVE  Max({a, b}) = IF a >= b THEN a ELSE b
<1>1. CASE a >= b
  BY <1>1 DEF Max
<1>2. CASE ~(a >= b)
  BY <1>2 DEF Max
<1> QED
  BY <1>1, <1>2

\* A multiple is what it is a multiple of, times a number.
LEMMA AlignUpIs ==
  ASSUME NEW n \in Nat, NEW a \in Nat \ {0}
  PROVE  /\ AlignUp(n, a) \in Nat /\ n <= AlignUp(n, a) /\ AlignUp(n, a) <= n + a - 1
         /\ AlignUp(n, a) % a = 0
<1> DEFINE k == (n + a - 1) \div a
<1>1. n + a - 1 \in Nat
  OBVIOUS
<1>2. k \in Nat /\ a * k <= n + a - 1 /\ n + a - 1 < a * k + a
  BY <1>1, Division
<1>3. AlignUp(n, a) = k * a
  BY DEF AlignUp
<1> HIDE DEF k
<1>4. k * a = a * k /\ k * a \in Nat
  BY <1>2
<1>5. (k * a) % a = 0
  BY <1>2
<1> QED
  BY <1>2, <1>3, <1>4, <1>5

\* An aligned number plus an alignment is aligned.
LEMMA AlignUpStays ==
  ASSUME NEW n \in Nat, NEW a \in Nat \ {0}, n % a = 0
  PROVE  AlignUp(n + a, a) = n + a
<1>1. (n + a) + a - 1 = n + (2 * a - 1)
  OBVIOUS
<1> DEFINE k == n \div a
<1>2. n = a * k /\ k \in Nat
  BY Division
<1>3. ((n + a) + a - 1) \div a = k + 1
  BY <1>2
<1> QED
  BY <1>2, <1>3 DEF AlignUp

\* The gap of tlsf_memalign holds a block, or is none, and leads to an aligned pointer.
LEMMA GapIs ==
  ASSUME NEW p \in Nat, NEW a \in Nat, a >= 2
  PROVE  /\ GapTo(p, a) \in Nat /\ (GapTo(p, a) = 0 \/ GapTo(p, a) >= 4)
         /\ GapTo(p, a) <= a + 3 /\ (p + GapTo(p, a)) % a = 0
<1> DEFINE x == AlignUp(p, a)
           gap == x - p
           y == x + Max({4 - gap, a})
<1>1. x \in Nat /\ p <= x /\ x <= p + a - 1 /\ x % a = 0
  BY AlignUpIs
<1> HIDE DEF x
<1>2. CASE ~(gap > 0 /\ gap < 4)
  <2>1. GapTo(p, a) = gap
    BY <1>2 DEF GapTo, HeaderSize, x
  <2>2. gap \in Nat /\ (gap = 0 \/ gap >= 4) /\ gap <= a + 3 /\ p + gap = x
    BY <1>1, <1>2
  <2> QED BY <1>1, <2>1, <2>2
<1>3. CASE gap > 0 /\ gap < 4
  <2>1. GapTo(p, a) = AlignUp(y, a) - p
    BY <1>3 DEF GapTo, HeaderSize, x
  <2>2. y = IF 4 - gap >= a THEN x + (4 - gap) ELSE x + a
    BY <1>1, MaxIs
  <2> HIDE DEF y
  <2>3. y \in Nat /\ y >= p + 4 /\ a \in Nat \ {0}
    BY <1>1, <1>3, <2>2
  <2>4. /\ AlignUp(y, a) \in Nat /\ y <= AlignUp(y, a) /\ AlignUp(y, a) <= y + a - 1
        /\ AlignUp(y, a) % a = 0
    BY <2>3, AlignUpIs
  <2>5. AlignUp(y, a) <= p + a + 3
    <3>1. CASE 4 - gap >= a
      <4>1. a = 2 \/ a = 3
        BY <1>1, <1>3, <3>1
      <4> QED BY <1>1, <1>3, <2>2, <2>4, <3>1, <4>1
    <3>2. CASE ~(4 - gap >= a)
      <4>1. y = x + a
        BY <2>2, <3>2
      <4>2. AlignUp(x + a, a) = x + a
        BY <1>1, <2>3, AlignUpStays
      <4> QED BY <1>1, <1>3, <4>1, <4>2
    <3> QED BY <3>1, <3>2
  <2> DEFINE z == AlignUp(y, a)
  <2>6. z \in Nat /\ z >= p + 4 /\ z <= p + a + 3 /\ z % a = 0
    BY <2>3, <2>4, <2>5
  <2> HIDE DEF z
  <2>7. z - p \in Nat /\ z - p >= 4 /\ z - p <= a + 3 /\ p + (z - p) = z
    BY <2>6
  <2>8. GapTo(p, a) = z - p
    BY <2>1 DEF z
  <2> QED BY <2>6, <2>7, <2>8
<1> QED BY <1>2, <1>3

\* adjust_request_size: at least what is asked for and a smallest block, or nothing.
LEMMA AdjustIs ==
  ASSUME NEW n \in Nat \ {0}, NEW a \in Nat \ {0}
  PROVE  /\ AdjustRequest(n, a) \in Nat
         /\ AdjustRequest(n, a) = 0 \/ (AdjustRequest(n, a) >= n /\ AdjustRequest(n, a) >= 3)
         /\ AdjustRequest(n, a) < BlockSizeMax
         /\ a = 1 /\ n < BlockSizeMax => AdjustRequest(n, a) > 0
<1>1. AlignUp(n, a) \in Nat /\ n <= AlignUp(n, a) /\ AlignUp(n, a) <= n + a - 1
  BY AlignUpIs
<1>2. BlockSizeMax \in Nat /\ BlockSizeMax > 3
  BY Pool
<1>3. Max({AlignUp(n, a), 3}) = IF AlignUp(n, a) >= 3 THEN AlignUp(n, a) ELSE 3
  BY <1>1, MaxIs
<1> QED
  BY <1>1, <1>2, <1>3 DEF AdjustRequest, BlockSizeMin

\* The block at p is made ready for n words.
Granted(h, r, s, n) ==
  /\ r.ptr \in Nat \ {0} /\ r.ptr \notin Used(h) /\ Used(r.h) = Used(h) \cup {r.ptr}
  /\ Good(r.h, {}, {}, s) /\ r.h.blk[r.ptr].size >= n

\* block_prepare_used.
LEMMA PrepareGood ==
  ASSUME NEW k, NEW p, NEW Y, NEW s \in Protections, Good(k, {p}, Y, s), p \notin Y,
         p \in DOMAIN k.blk, k.blk[p].status = "free",
         NEW n \in Nat, n >= 3, n <= k.blk[p].size, s[p] = 0,
         \A y \in Y : y \in DOMAIN k.blk /\ NextOf(k, y) = p
  PROVE  LET r == PrepareUsed([h |-> k, ptr |-> p], n)
         IN  r.ptr = p /\ Granted(k, r, s, n)
<1> DEFINE t == TrimFree(k, p, n)
           g == MarkAsUsed(t, p)
           r == PrepareUsed([h |-> k, ptr |-> p], n)
           Z == Y \cup {p}
<1>1. p \in Nat \ {0} /\ p \notin Used(k)
  BY Order, Pool DEF Good, Used
<1>2. r.h = g /\ r.ptr = p
  BY <1>1 DEF PrepareUsed
<1>3. /\ Good(t, {p}, Z, s) /\ Used(t) = Used(k)
      /\ p \in DOMAIN t.blk /\ t.blk[p].status = "free" /\ t.blk[p].size >= n
      /\ \A c \in DOMAIN k.blk \ {p} : t.blk[c].size = k.blk[c].size
  BY TrimFreeGood
<1> HIDE DEF t
<1>4. \A y \in Z : y = p \/ NextOf(t, y) = p \/ y \in {}
  BY <1>3 DEF NextOf
<1> HIDE DEF Z
<1> DEFINE X == {p}
           E == {}
<1>5. p \in X /\ Good(t, X, Z, s) /\ \A y \in Z : y = p \/ NextOf(t, y) = p \/ y \in E
  BY <1>3, <1>4
<1> HIDE DEF X, E
<1>6. /\ Good(g, X \ {p}, E, s) /\ Used(g) = Used(t) \cup {p}
      /\ \A b \in DOMAIN t.blk : g.blk[b].size = t.blk[b].size
  <2>1. p \in DOMAIN t.blk /\ t.blk[p].status = "free"
    BY <1>3
  <2> DEFINE u == MarkAsUsed(t, p)
  <2>2. /\ Good(u, X \ {p}, E, s) /\ Used(u) = Used(t) \cup {p}
        /\ \A b \in DOMAIN t.blk : u.blk[b].size = t.blk[b].size
    BY <1>5, <2>1, UseGood
  <2> HIDE DEF u
  <2> QED BY <2>2 DEF u
<1>7. X \ {p} = {} /\ E = {}
  BY DEF X, E
<1> HIDE DEF g, r
<1>8. Granted(k, r, s, n)
  BY <1>1, <1>2, <1>3, <1>6, <1>7 DEF Granted
<1> QED
  BY <1>2, <1>8 DEF r

-----------------------------------------------------------------------------
(* malloc and memalign. *)

\* What the search returns.
LEMMA LocatedIs ==
  ASSUME NEW h, NEW n
  PROVE  LocateFree(h, n) = [h |-> LocateFree(h, n).h, ptr |-> LocateFree(h, n).ptr]
  BY DEF LocateFree

\* In k, which serves like h, the free block p is in no list and has m words.
Ready(h, k, p, Y, s, m) ==
  /\ Good(k, {p}, Y, s) /\ p \notin Y /\ Used(k) = Used(h)
  /\ p \in DOMAIN k.blk /\ k.blk[p].status = "free" /\ s[p] = 0
  /\ m \in Nat /\ m >= 3 /\ m <= k.blk[p].size
  /\ \A y \in Y : y \in DOMAIN k.blk /\ NextOf(k, y) = p

\* A free block that is large enough serves a request.
LEMMA PreparedGood ==
  ASSUME NEW h, NEW k, NEW p, NEW Y, NEW s \in Protections, NEW m, Ready(h, k, p, Y, s, m),
         NEW n \in Nat, n <= m, NEW r, r = PrepareUsed([h |-> k, ptr |-> p], m)
  PROVE  r.ptr = p /\ Granted(h, r, s, n)
<1> SUFFICES ASSUME Good(k, {p}, Y, s), p \notin Y, Used(k) = Used(h),
                    p \in DOMAIN k.blk, k.blk[p].status = "free", s[p] = 0,
                    m \in Nat, m >= 3, m <= k.blk[p].size,
                    \A y \in Y : y \in DOMAIN k.blk /\ NextOf(k, y) = p
             PROVE  r.ptr = p /\ Granted(h, r, s, n)
  BY DEF Ready
<1>1. Granted(k, r, s, m) /\ r.ptr = p
  <2>1. /\ Granted(k, PrepareUsed([h |-> k, ptr |-> p], m), s, m)
        /\ PrepareUsed([h |-> k, ptr |-> p], m).ptr = p
    BY PrepareGood
  <2> QED BY <2>1
<1>2. r.h.blk[r.ptr].size \in Nat
  BY <1>1, Order DEF Granted, Good, Used
<1> QED
  BY <1>1, <1>2 DEF Granted

\* tlsf_malloc grants a block that was not in use, or changes nothing.
LEMMA MallocGood ==
  ASSUME NEW h, NEW s \in Protections, Good(h, {}, {}, s),
         \A b \in Nat \ Used(h) : s[b] = 0,
         NEW n \in Nat \ {0}, n < BlockSizeMax
  PROVE  LET r == TlsfMalloc(h, n)
         IN  (r.ptr = 0 /\ r.h = h) \/ Granted(h, r, s, n)
<1> DEFINE m == AdjustRequest(n, AlignSize)
           at == LocateFree(h, m)
           r == TlsfMalloc(h, n)
<1>1. m \in Nat /\ m >= 3 /\ m >= n /\ m < BlockSizeMax
  BY AdjustIs DEF AlignSize
<1>2. r = PrepareUsed(at, m)
  BY DEF TlsfMalloc
<1> HIDE DEF m, r
<1>3. \/ at.ptr = 0 /\ at.h = h
      \/ /\ at.ptr \in DOMAIN h.blk /\ h.blk[at.ptr].status = "free" /\ h.blk[at.ptr].size >= m
         /\ Good(at.h, {at.ptr}, {}, s) /\ at.h.blk = h.blk
  BY <1>1, LocateGood
<1>4. at = [h |-> at.h, ptr |-> at.ptr]
  BY LocatedIs
<1> HIDE DEF at
<1>5. CASE at.ptr = 0 /\ at.h = h
  BY <1>2, <1>5 DEF PrepareUsed, r
<1>6. CASE /\ at.ptr \in DOMAIN h.blk /\ h.blk[at.ptr].status = "free" /\ h.blk[at.ptr].size >= m
           /\ Good(at.h, {at.ptr}, {}, s) /\ at.h.blk = h.blk
  <2> DEFINE k == at.h
             p == at.ptr
             Y == {}
  <2>1. p \in Nat /\ p \notin Used(h) /\ Used(k) = Used(h)
    BY <1>6, Order DEF Good, Used
  <2>2. Ready(h, k, p, Y, s, m)
    <3>1. h.blk[p].size \in Nat
      BY <1>6, Order DEF Good
    <3> QED BY <1>1, <1>6, <2>1, <3>1 DEF Ready
  <2>3. r = PrepareUsed([h |-> k, ptr |-> p], m)
    BY <1>2, <1>4
  <2> HIDE DEF k, p, Y
  <2>4. Granted(h, r, s, n)
    BY <1>1, <2>2, <2>3, PreparedGood
  <2> QED BY <2>4 DEF r
<1> QED BY <1>3, <1>5, <1>6

\* So does tlsf_memalign, and the pointer is aligned.
LEMMA MemalignGood ==
  ASSUME NEW h, NEW s \in Protections, Good(h, {}, {}, s),
         \A b \in Nat \ Used(h) : s[b] = 0,
         NEW n \in Nat \ {0}, n < BlockSizeMax, NEW a \in Nat, a >= 2
  PROVE  LET r == TlsfMemalign(h, a, n)
         IN  (r.ptr = 0 /\ r.h = h) \/ (Granted(h, r, s, n) /\ r.ptr % a = 0)
<1> DEFINE m == AdjustRequest(n, AlignSize)
           w == AdjustRequest(m + a + HeaderSize, a)
           at == LocateFree(h, w)
           gap == GapTo(at.ptr, a)
           lead == TrimFreeLeading(at.h, at.ptr, gap)
           r == TlsfMemalign(h, a, n)
<1>1. m \in Nat /\ m >= 3 /\ m >= n /\ m < BlockSizeMax
  BY AdjustIs DEF AlignSize
<1>2. r = PrepareUsed(IF at.ptr # 0 /\ gap > 0 THEN lead ELSE at, m)
  BY <1>1 DEF TlsfMemalign, AlignSize
<1> HIDE DEF m, r
<1>3. w \in Nat /\ (w = 0 \/ w >= m + a + 4) /\ w < BlockSizeMax
  <2>1. m + a + 4 \in Nat \ {0} /\ a \in Nat \ {0}
    BY <1>1
  <2> QED BY <2>1, AdjustIs DEF HeaderSize
<1> HIDE DEF w
<1>4. \/ at.ptr = 0 /\ at.h = h
      \/ /\ at.ptr \in DOMAIN h.blk /\ h.blk[at.ptr].status = "free" /\ h.blk[at.ptr].size >= w
         /\ Good(at.h, {at.ptr}, {}, s) /\ at.h.blk = h.blk
  BY <1>3, LocateGood
<1>5. at = [h |-> at.h, ptr |-> at.ptr] /\ (w = 0 => at.ptr = 0)
  BY LocatedIs, <1>3 DEF LocateFree
<1> HIDE DEF at
<1>6. CASE at.ptr = 0
  BY <1>2, <1>4, <1>6, Pool, Order DEF PrepareUsed, r, Good
<1>7. CASE at.ptr # 0
  <2> DEFINE k == at.h
             p == at.ptr
  <2>1. /\ p \in Nat /\ p \notin Used(h) /\ Used(k) = Used(h) /\ p \in DOMAIN k.blk
        /\ k.blk[p].status = "free" /\ k.blk[p].size \in Nat /\ k.blk[p].size >= m + a + 4
        /\ Good(k, {p}, {}, s) /\ w > 0
    BY <1>1, <1>3, <1>4, <1>5, <1>7, Order DEF Good, Used
  <2>2. gap \in Nat /\ (gap = 0 \/ gap >= 4) /\ gap <= a + 3 /\ (p + gap) % a = 0
    BY <2>1, GapIs
  <2> HIDE DEF gap
  <2>3. CASE gap = 0
    <3> DEFINE Y == {}
    <3>1. r = PrepareUsed([h |-> k, ptr |-> p], m) /\ p % a = 0
      BY <1>2, <1>5, <2>1, <2>2, <2>3
    <3>2. Ready(h, k, p, Y, s, m)
      BY <1>1, <2>1 DEF Ready
    <3> HIDE DEF k, p, Y
    <3>3. Granted(h, r, s, n) /\ r.ptr = p
      BY <1>1, <3>1, <3>2, PreparedGood
    <3>4. Granted(h, r, s, n) /\ r.ptr % a = 0
      BY <3>1, <3>3
    <3> QED BY <3>4 DEF r
  <2>4. CASE gap >= 4
    <3> DEFINE l == lead.h
               q == p + gap
               Y == {p}
    <3>1. r = PrepareUsed(lead, m) /\ k.blk[p].size >= gap + 4
      BY <1>1, <1>2, <1>7, <2>1, <2>2, <2>4
    <3>2. HasLed(k, lead, s, p, gap, q)
      BY <2>1, <2>2, <2>4, <3>1, LeadGood
    <3>3. /\ lead.ptr = q /\ Good(l, {q}, {p}, s) /\ Used(l) = Used(k) /\ q \notin DOMAIN k.blk
          /\ q \in DOMAIN l.blk /\ l.blk[q].status = "free"
          /\ l.blk[q].size = k.blk[p].size - gap
          /\ p \in DOMAIN l.blk /\ NextOf(l, p) = q
      BY <3>2 DEF HasLed
    <3>4. lead = [h |-> lead.h, ptr |-> lead.ptr]
      BY DEF TrimFreeLeading
    <3> HIDE DEF lead
    <3>5. q \in Nat /\ q % a = 0 /\ q \notin Used(h) /\ Used(l) = Used(h)
      BY <2>1, <2>2, <3>3 DEF Used
    <3>6. Ready(h, l, q, Y, s, m)
      BY <1>1, <2>1, <2>2, <3>3, <3>5 DEF Ready
    <3>7. r = PrepareUsed([h |-> l, ptr |-> q], m)
      BY <3>1, <3>3, <3>4
    <3> HIDE DEF l, q, Y
    <3>8. Granted(h, r, s, n) /\ r.ptr = q
      BY <1>1, <3>6, <3>7, PreparedGood
    <3>9. Granted(h, r, s, n) /\ r.ptr % a = 0
      BY <3>5, <3>8
    <3> QED BY <3>9 DEF r
  <2> QED BY <2>2, <2>3, <2>4
<1> QED BY <1>6, <1>7

-----------------------------------------------------------------------------
(* realloc. *)
\* What protects more protects less.
LEMMA Weaker ==
  ASSUME NEW h, NEW X, NEW Y, NEW s \in Protections, Good(h, X, Y, s), NEW t \in Protections,
         \A b \in Used(h) : t[b] <= s[b]
  PROVE  Good(h, X, Y, t)
<1>1. Record(h) /\ Layout(h) /\ Flags(h) /\ Lists(h, X) /\ Apart(h, Y) /\ Protects(h, s)
  BY DEF Good
<1>2. Protects(h, t)
  <2> SUFFICES ASSUME NEW b \in Used(h)
               PROVE  /\ t[b] <= h.blk[b].size
                      /\ \A w \in h.wrote : ~(b <= w /\ w < b + t[b])
    BY DEF Protects
  <2>1. /\ b \in Nat /\ h.blk[b].size \in Nat /\ s[b] \in Nat /\ t[b] \in Nat /\ t[b] <= s[b]
        /\ h.wrote \subseteq Int
    BY <1>1, Order DEF Used, Protections, Record
  <2> QED BY <1>1, <2>1 DEF Protects
<1> QED BY <1>1, <1>2 DEF Good

\* The region of p has moved.
Moved(h, r, s, p, n) ==
  /\ r.ptr \in Nat \ {0} /\ r.ptr \notin Used(h) /\ Used(r.h) = (Used(h) \cup {r.ptr}) \ {p}
  /\ Good(r.h, {}, {}, s) /\ r.h.blk[r.ptr].size >= n /\ r.copied = Min({h.blk[p].size, n})

\* The region of p has stayed where it is.
Resized(h, r, s, p, n) ==
  /\ r.ptr = p /\ Used(r.h) = Used(h)
  /\ Good(r.h, {}, {}, s) /\ r.h.blk[p].size >= n /\ r.copied = n

\* The move of tlsf_realloc: a new block, then the old one is freed.
LEMMA MoveGood ==
  ASSUME NEW h, NEW s \in Protections, Good(h, {}, {}, s),
         \A b \in Nat \ Used(h) : s[b] = 0,
         NEW p \in Used(h), p # Sentinel, s[p] = 0, NEW n \in Nat \ {0}, n < BlockSizeMax
  PROVE  LET r == TlsfMove(h, p, n)
         IN  (r.ptr = 0 /\ r.h = h /\ r.copied = n) \/ Moved(h, r, s, p, n)
<1> DEFINE at == TlsfMalloc(h, n)
           g == TlsfFree(at.h, p)
           r == TlsfMove(h, p, n)
<1>1. (at.ptr = 0 /\ at.h = h) \/ Granted(h, at, s, n)
  BY MallocGood
<1>2. r = IF at.ptr = 0 THEN [h |-> at.h, ptr |-> 0, copied |-> n]
          ELSE [h |-> g, ptr |-> at.ptr, copied |-> Min({h.blk[p].size, n})]
  BY DEF TlsfMove
<1> HIDE DEF at, r
<1>3. CASE at.ptr = 0 /\ at.h = h
  BY <1>2, <1>3 DEF r
<1>4. CASE Granted(h, at, s, n)
  <2>1. /\ at.ptr \in Nat \ {0} /\ at.ptr \notin Used(h) /\ Used(at.h) = Used(h) \cup {at.ptr}
        /\ Good(at.h, {}, {}, s) /\ at.h.blk[at.ptr].size >= n
    BY <1>4 DEF Granted
  <2>2. /\ Good(g, {}, {}, s) /\ Used(g) = Used(at.h) \ {p}
        /\ \A b \in Used(at.h) \ {p} : g.blk[b].size = at.h.blk[b].size
    BY <2>1, FreeGood
  <2> HIDE DEF g
  <2>3. r.h = g /\ r.ptr = at.ptr /\ r.copied = Min({h.blk[p].size, n})
    BY <1>2, <2>1
  <2>4. Moved(h, r, s, p, n)
    BY <2>1, <2>2, <2>3 DEF Moved
  <2> QED BY <2>4 DEF r
<1> QED BY <1>1, <1>3, <1>4

\* tlsf_realloc: the block is refused, resized in place or moved.
LEMMA ReallocGood ==
  ASSUME NEW h, NEW s \in Protections, Good(h, {}, {}, s),
         \A b \in Nat \ Used(h) : s[b] = 0,
         NEW p \in Used(h), p # Sentinel, NEW n \in Nat \ {0}, n < BlockSizeMax, s[p] <= n
  PROVE  LET r == TlsfRealloc(h, p, n)
         IN  \/ r.ptr = 0 /\ r.h = h /\ r.copied = n
             \/ Resized(h, r, s, p, n)
             \/ Moved(h, r, [s EXCEPT ![p] = 0], p, n)
<1> DEFINE next == NextOf(h, p)
           size == h.blk[p].size
           m == AdjustRequest(n, AlignSize)
           grown == IF m > size THEN MarkAsUsed(MergeNext(h, p), p) ELSE h
           r == TlsfRealloc(h, p, n)
<1>1. m \in Nat /\ m >= 3 /\ m >= n /\ m < BlockSizeMax
  BY AdjustIs DEF AlignSize
<1>2. r = IF m > size /\ (h.blk[next].status # "free" \/ m > size + h.blk[next].size + 1)
          THEN TlsfMove(h, p, n)
          ELSE [h |-> TrimUsed(grown, p, m), ptr |-> p, copied |-> n]
  BY DEF TlsfRealloc, IsFree, Overhead
<1>3. Record(h) /\ Layout(h) /\ p \in DOMAIN h.blk \ {Sentinel} /\ p \in Nat
  BY Order DEF Good, Used
<1>4. size \in Nat /\ next \in DOMAIN h.blk /\ next # p /\ h.blk[next].size \in Nat
  BY <1>3, Order
<1> HIDE DEF m, r
<1>5. CASE m > size /\ (h.blk[next].status # "free" \/ m > size + h.blk[next].size + 1)
  <2> DEFINE t == [s EXCEPT ![p] = 0]
  <2>1. t \in Protections /\ t[p] = 0 /\ \A b \in Nat \ {p} : t[b] = s[b]
    BY <1>3 DEF Protections
  <2>2. \A b \in Used(h) : b \in Nat /\ s[b] \in Nat
    BY Order DEF Good, Used, Protections
  <2>3. \A b \in Nat \ Used(h) : t[b] = 0
    BY <2>1
  <2> HIDE DEF t
  <2>4. Good(h, {}, {}, t)
    <3>1. \A b \in Used(h) : t[b] <= s[b]
      BY <2>1, <2>2
    <3> QED BY <2>1, <3>1, Weaker
  <2>5. r = TlsfMove(h, p, n)
    BY <1>2, <1>5
  <2>6. (r.ptr = 0 /\ r.h = h /\ r.copied = n) \/ Moved(h, r, t, p, n)
    BY <2>1, <2>3, <2>4, <2>5, MoveGood
  <2> QED BY <2>6 DEF r, t
<1>6. CASE ~(m > size /\ (h.blk[next].status # "free" \/ m > size + h.blk[next].size + 1))
  <2>1. /\ Good(grown, {}, {}, s) /\ Used(grown) = Used(h) /\ m <= grown.blk[p].size
    <3>1. CASE m > size
      <4> DEFINE q == NextOf(h, p)
                 k == BlockRemove(h, q)
                 X == {} \cup {q}
                 g == MarkAsUsed(Absorb(k, p, q), p)
      <4>1. h.blk[q].status = "free" /\ m <= size + h.blk[q].size + 1 /\ q \in DOMAIN h.blk
        BY <1>1, <1>4, <1>6, <3>1
      <4>2. grown = g
        BY <3>1, <4>1 DEF MergeNext, IsFree
      <4>3. Good(k, X, {}, s) /\ k.blk = h.blk
        BY <4>1, RemoveGood
      <4> HIDE DEF k
      <4>4. q = NextOf(k, p) /\ Used(k) = Used(h)
        BY <4>3 DEF NextOf, Used
      <4>5. q \in X /\ X \ {q} = {}
        OBVIOUS
      <4> HIDE DEF X, q
      <4>6. /\ Good(g, X \ {q}, {}, s) /\ Used(g) = Used(k)
            /\ g.blk[p].size = k.blk[p].size + k.blk[q].size + 1
        BY <4>1, <4>3, <4>4, <4>5, GrowGood
      <4> HIDE DEF g, grown
      <4> QED BY <4>1, <4>2, <4>3, <4>4, <4>5, <4>6
    <3>2. CASE ~(m > size)
      BY <1>1, <1>4, <3>2
    <3> QED BY <3>1, <3>2
  <2> DEFINE g == TrimUsed(grown, p, m)
  <2>2. r.h = g /\ r.ptr = p /\ r.copied = n
    BY <1>2, <1>6
  <2> HIDE DEF grown
  <2>3. p \in Used(grown) /\ s[p] <= m /\ s[p] \in Nat
    BY <1>1, <1>3, <2>1 DEF Protections
  <2>4. Good(g, {}, {}, s) /\ Used(g) = Used(grown) /\ g.blk[p].size >= m
    BY <1>1, <2>1, <2>3, TrimUsedGood
  <2> HIDE DEF g
  <2>5. g.blk[p].size \in Nat
    BY <2>1, <2>3, <2>4, Order DEF Good, Used
  <2>6. Resized(h, r, s, p, n)
    BY <1>1, <2>1, <2>2, <2>4, <2>5 DEF Resized
  <2> QED BY <2>6 DEF r
<1> QED BY <1>5, <1>6

-----------------------------------------------------------------------------
(* Before the first call and between two. *)
\* Nobody is protected.
Zero == [b \in Nat |-> 0]

\* tlsf_create and tlsf_add_pool build a good heap with one free block.
LEMMA CreatedGood ==
  /\ Good(Created, {}, {}, Zero) /\ Used(Created) = {Sentinel}
  /\ DOMAIN Created.blk = {First, Sentinel}
<1> DEFINE block == [size |-> PoolWords - 2, status |-> "free", before |-> "used", link |-> 0]
           sentinel == [size |-> 0, status |-> "used", before |-> "free", link |-> First]
           B == [b \in {First, Sentinel} |-> IF b = First THEN block ELSE sentinel]
           L == [c \in Classes |-> <<>>]
           h == [blk |-> B, lists |-> L, fl |-> {}, sl |-> {}, wrote |-> {}]
           X == {First}
<1>1. Created = InsertFree(h, First)
  BY DEF Created
<1>2. block \in Block /\ sentinel \in Block
  BY Pool DEF Block, Statuses
<1>3. /\ DOMAIN B = {First, Sentinel} /\ B \in [DOMAIN B -> Block]
      /\ B[First] = block /\ B[Sentinel] = sentinel /\ First # Sentinel
      /\ {First, Sentinel} \subseteq First..Sentinel
  <2> HIDE DEF block, sentinel
  <2> QED BY <1>2, Pool
<1>4. L \in [Classes -> Seq(Nat)] /\ \A c \in Classes : L[c] = <<>>
  OBVIOUS
<1> HIDE DEF B, L
<1>5. h.blk = B /\ h.lists = L /\ h.fl = {} /\ h.sl = {} /\ h.wrote = {}
  OBVIOUS
<1>6. Record(h)
  BY <1>3, <1>4 DEF Record
<1> HIDE DEF h
<1>7. /\ DOMAIN h.blk = {First, Sentinel} /\ NextOf(h, First) = Sentinel
      /\ h.blk[First].size = PoolWords - 2 /\ h.blk[First].status = "free"
      /\ h.blk[First].before = "used"
      /\ h.blk[Sentinel].size = 0 /\ h.blk[Sentinel].status = "used"
      /\ h.blk[Sentinel].before = "free" /\ h.blk[Sentinel].link = First
  BY <1>3, <1>5, Pool DEF NextOf, Overhead
<1>8. Layout(h)
  BY <1>3, <1>7, Pool DEF Layout, BlockSizeMin
<1>9. Flags(h)
  BY <1>3, <1>7 DEF Flags
<1>10. Lists(h, X)
  <2>1. \A c \in Classes : h.lists[c] = <<>>
    BY <1>4, <1>5
  <2>2. \A c \in Classes : ToSet(h.lists[c]) = {} /\ Distinct(h.lists[c])
    BY <2>1 DEF ToSet, Distinct
  <2> QED
    BY <1>5, <1>7, <2>1, <2>2 DEF Lists
<1>11. Apart(h, {})
  BY <1>7 DEF Apart
<1>12. Used(h) = {Sentinel}
  BY <1>7 DEF Used
<1>13. Protects(h, Zero)
  BY <1>5, <1>7, <1>12, Pool DEF Protects, Zero
<1>14. Zero \in Protections
  BY DEF Zero, Protections
<1>15. Good(h, X, {}, Zero) /\ First \in X /\ X \ {First} = {}
  BY <1>6, <1>8, <1>9, <1>10, <1>11, <1>13 DEF Good
<1> HIDE DEF X
<1>16. Good(InsertFree(h, First), X \ {First}, {}, Zero) /\ InsertFree(h, First).blk = h.blk
  BY <1>7, <1>14, <1>15, InsertGood
<1> QED
  BY <1>1, <1>7, <1>12, <1>15, <1>16 DEF Used

\* Between calls nothing is written.
Quiet(h) == [h EXCEPT !.wrote = {}]

\* Forgetting what was written changes nothing else.
LEMMA QuietIs ==
  ASSUME NEW h, Record(h)
  PROVE  /\ Record(Quiet(h)) /\ Beside(h, Quiet(h)) /\ Quiet(h).blk = h.blk /\ Quiet(h).wrote = {}
<1>1. Quiet(h) = [blk |-> h.blk, lists |-> h.lists, fl |-> h.fl, sl |-> h.sl, wrote |-> {}]
  <2>1. ASSUME NEW B, NEW L, NEW F, NEW S, NEW W
        PROVE  Quiet([blk |-> B, lists |-> L, fl |-> F, sl |-> S, wrote |-> W])
                 = [blk |-> B, lists |-> L, fl |-> F, sl |-> S, wrote |-> {}]
    BY DEF Quiet
  <2>2. h = [blk |-> h.blk, lists |-> h.lists, fl |-> h.fl, sl |-> h.sl, wrote |-> h.wrote]
    BY DEF Record
  <2>3. Quiet(h) = Quiet([blk |-> h.blk, lists |-> h.lists, fl |-> h.fl, sl |-> h.sl, wrote |-> h.wrote])
    BY <2>2
  <2> QED BY <2>1, <2>3
<1> DEFINE g == Quiet(h)
<1> HIDE DEF g
<1>2. g = [blk |-> h.blk, lists |-> h.lists, fl |-> h.fl, sl |-> h.sl, wrote |-> {}]
  BY <1>1 DEF g
<1>3. Record(g) /\ Beside(h, g) /\ g.blk = h.blk /\ g.wrote = {}
  BY <1>2 DEF Record, Beside
<1> QED BY <1>3 DEF g

\* Protecting no word demands nothing.
LEMMA ZeroProtects ==
  ASSUME NEW h, Record(h)
  PROVE  Zero \in Protections /\ Protects(h, Zero)
<1>1. ASSUME NEW b \in Used(h)
      PROVE  /\ Zero[b] <= h.blk[b].size
             /\ \A w \in h.wrote : ~(b <= w /\ w < b + Zero[b])
  <2>1. b \in Nat /\ Zero[b] = 0 /\ h.blk[b].size \in Nat
    BY <1>1, BlockIs DEF Used, Zero
  <2>2. \A w \in h.wrote : w \in Int
    BY DEF Record
  <2> QED BY <2>1, <2>2
<1> QED BY <1>1 DEF Zero, Protections, Protects

\* The next call finds the same blocks.
Settled(h, g) ==
  /\ Good(g, {}, {}, Zero) /\ g.wrote = {} /\ SameUsed(h, g) /\ DOMAIN g.blk = DOMAIN h.blk

\* A heap after a call is a heap before the next.
LEMMA QuietGood ==
  ASSUME NEW h, NEW s, Good(h, {}, {}, s)
  PROVE  Settled(h, Quiet(h))
<1> DEFINE g == Quiet(h)
<1>1. Record(h) /\ Layout(h) /\ Flags(h) /\ Lists(h, {}) /\ Apart(h, {})
  BY DEF Good
<1>2. Record(g) /\ Beside(h, g) /\ g.blk = h.blk /\ g.wrote = {}
  BY <1>1, QuietIs
<1> HIDE DEF g
<1>3. Layout(g) /\ Flags(g) /\ Lists(g, {}) /\ Apart(g, {})
  BY <1>1, <1>2 DEF Layout, Flags, Lists, Apart, NextOf, ClassOf, Beside
<1>4. Settled(h, g)
  BY <1>2, <1>3, ZeroProtects DEF Settled, Good, SameUsed, Used
<1> QED BY <1>4 DEF g

\* Settle with the place of the link as an argument.
SettleAt(h, m) == [h EXCEPT !.wrote = {}, !.blk[m].link = 0]

\* So is one whose caller has written over the link in its last word.
LEMMA SettleGood ==
  ASSUME NEW h, NEW s, Good(h, {}, {}, s), NEW p \in Used(h), p # Sentinel
  PROVE  Settled(h, Settle(h, p))
<1> DEFINE n == NextOf(h, p)
           k == PutLink(h, n, 0)
           g == Quiet(k)
<1>1. Record(h) /\ Layout(h) /\ Flags(h) /\ Lists(h, {}) /\ Apart(h, {})
  BY DEF Good
<1>2. p \in DOMAIN h.blk \ {Sentinel} /\ n \in DOMAIN h.blk /\ h.blk[p].status = "used"
  BY <1>1, Order DEF Used
<1>3. Settle(h, p) = g
  <2>1. ASSUME NEW B, NEW L, NEW F, NEW S, NEW W, NEW m
        PROVE  SettleAt([blk |-> B, lists |-> L, fl |-> F, sl |-> S, wrote |-> W], m)
                 = Quiet(PutLink([blk |-> B, lists |-> L, fl |-> F, sl |-> S, wrote |-> W], m, 0))
    BY DEF Quiet, PutLink, SettleAt
  <2>2. h = [blk |-> h.blk, lists |-> h.lists, fl |-> h.fl, sl |-> h.sl, wrote |-> h.wrote]
    BY <1>1 DEF Record
  <2>3. SettleAt(h, n) = Quiet(PutLink(h, n, 0))
    <3> HIDE DEF n
    <3> QED BY <2>1, <2>2
  <2> QED BY <2>3 DEF Settle, SettleAt
<1>4. /\ Touched(h, k, n)
      /\ k.blk[n] = [size |-> h.blk[n].size, status |-> h.blk[n].status, before |-> h.blk[n].before, link |-> 0]
  <2>1. 0 \in {0} \cup (First..Sentinel)
    OBVIOUS
  <2> HIDE DEF n
  <2> QED BY <1>1, <1>2, <2>1, SetField
<1> HIDE DEF k
<1>5. Record(g) /\ Beside(k, g) /\ g.blk = k.blk /\ g.wrote = {}
  BY <1>4, QuietIs DEF Touched
<1> HIDE DEF g
<1>6. /\ Beside(h, g) /\ DOMAIN g.blk = DOMAIN h.blk
      /\ \A c \in DOMAIN h.blk : /\ g.blk[c].size = h.blk[c].size /\ g.blk[c].status = h.blk[c].status
                                 /\ g.blk[c].before = h.blk[c].before
                                 /\ g.blk[c].link = IF c = n THEN 0 ELSE h.blk[c].link
                                 /\ NextOf(g, c) = NextOf(h, c)
  BY <1>4, <1>5 DEF Touched, Beside, NextOf
<1>7. Layout(g)
  BY <1>1, <1>6 DEF Layout
<1>8. Flags(g)
  <2>1. \A c \in DOMAIN h.blk \ {Sentinel} :
          NextOf(h, c) \in DOMAIN h.blk /\ (h.blk[c].status = "free" => NextOf(h, c) # n)
    BY <1>1, <1>2, Order
  <2>2. First \in DOMAIN h.blk /\ Sentinel \in DOMAIN h.blk
    BY <1>1 DEF Layout
  <2> QED BY <1>1, <1>6, <2>1, <2>2 DEF Flags
<1>9. Lists(g, {})
  BY <1>1, <1>6, ListsKept
<1>10. Apart(g, {})
  <2>1. \A c \in DOMAIN h.blk \ {Sentinel} : NextOf(h, c) \in DOMAIN h.blk
    BY <1>1, Order
  <2> QED BY <1>1, <1>6, <2>1 DEF Apart
<1>11. SameUsed(h, g)
  BY <1>6 DEF SameUsed, Used
<1>12. Settled(h, g)
  BY <1>5, <1>6, <1>7, <1>8, <1>9, <1>10, <1>11, ZeroProtects DEF Settled, Good
<1> QED BY <1>3, <1>12

-----------------------------------------------------------------------------
(* The callers: who holds which block. *)
\* What a handle can hold.
Holdings == {Nothing} \cup [ptr : Nat \ {0}, len : Sizes, align : Aligns \cup {AlignSize}]

\* The block of a holding.
Place(r) == IF r = Nothing THEN {} ELSE {r.ptr}

\* Every block in use but the sentinel is held by one handle, and large enough for it.
Owned(h, H) ==
  /\ \A i \in Handles : H[i] # Nothing =>
       H[i].ptr \in Used(h) \ {Sentinel} /\ H[i].len <= h.blk[H[i].ptr].size
  /\ \A i, j \in Handles : H[i] # Nothing /\ H[j] # Nothing /\ H[i].ptr = H[j].ptr => i = j
  /\ \A b \in Used(h) \ {Sentinel} : \E i \in Handles : H[i] # Nothing /\ H[i].ptr = b

\* What holds between two calls.
Sound(h, H) == Good(h, {}, {}, Zero) /\ h.wrote = {} /\ Owned(h, H)

\* s protects what the handles hold, but only k words of handle i.
Shared(h, H, i, k, s) ==
  /\ s \in Protections /\ \A b \in Nat \ Used(h) : s[b] = 0
  /\ \A j \in Handles \ {i} : H[j] # Nothing => s[H[j].ptr] = H[j].len
  /\ H[i] # Nothing => s[H[i].ptr] = k

\* A holding is nothing or a block with a size that was asked for.
LEMMA NothingIs ==
  /\ Nothing \in Holdings /\ Nothing.ptr = 0 /\ Nothing.len = 0 /\ Region(Nothing) = {}
  /\ \A r \in Holdings : /\ r.len \in Nat /\ r.ptr \in Nat
                         /\ Region(r) = r.ptr .. (r.ptr + r.len - 1)
                         /\ r # Nothing => r.ptr > 0 /\ r.len \in Sizes
<1>1. Nothing = [ptr |-> 0, len |-> 0, align |-> 1] /\ \A r : Region(r) = r.ptr .. (r.ptr + r.len - 1)
  BY DEF Nothing, Abstract!Nothing, Region, Abstract!Region
<1>2. Nothing.ptr = 0 /\ Nothing.len = 0 /\ Nothing \in Holdings
  BY <1>1 DEF Holdings
<1>3. Region(Nothing) = {}
  <2>1. Region(Nothing) = 0 .. (0 + 0 - 1)
    BY <1>1, <1>2
  <2> QED BY <2>1
<1>4. ASSUME NEW r \in Holdings, r # Nothing
      PROVE  r.ptr \in Nat \ {0} /\ r.len \in Sizes
  BY <1>4 DEF Holdings
<1>5. \A x \in Sizes : x \in Nat
  BY RequestAssumption
<1>6. ASSUME NEW r \in Holdings
      PROVE  /\ r.len \in Nat /\ r.ptr \in Nat
             /\ Region(r) = r.ptr .. (r.ptr + r.len - 1)
             /\ r # Nothing => r.ptr > 0 /\ r.len \in Sizes
  <2>1. CASE r = Nothing
    BY <1>1, <1>2, <2>1
  <2>2. CASE r # Nothing
    <3>1. r.ptr \in Nat \ {0} /\ r.len \in Sizes
      BY <1>4, <2>2
    <3>2. r.ptr \in Nat /\ r.ptr > 0
      BY <3>1
    <3>3. r.len \in Nat
      BY <1>5, <3>1, Zenon
    <3>4. Region(r) = r.ptr .. (r.ptr + r.len - 1)
      BY <1>1
    <3> QED BY <3>1, <3>2, <3>4, <3>3
  <2> QED BY <2>1, <2>2
<1> QED
  BY <1>2, <1>3, <1>6

\* What the handles hold can be protected, with as much of one handle as is left to it.
LEMMA SharesExist ==
  ASSUME NEW h, NEW H \in [Handles -> Holdings], Sound(h, H), NEW i \in Handles,
         NEW k \in Nat, k <= H[i].len
  PROVE  \E s : Shared(h, H, i, k, s) /\ Good(h, {}, {}, s)
<1> DEFINE Mine(b) == H[i] # Nothing /\ H[i].ptr = b
           Other(b) == \E j \in Handles \ {i} : H[j] # Nothing /\ H[j].ptr = b
           Holder(b) == CHOOSE j \in Handles \ {i} : H[j] # Nothing /\ H[j].ptr = b
           s == [b \in Nat |-> IF Mine(b) THEN k ELSE IF Other(b) THEN H[Holder(b)].len ELSE 0]
<1>1. /\ \A j \in Handles : H[j] # Nothing =>
           H[j].ptr \in Used(h) \ {Sentinel} /\ H[j].len <= h.blk[H[j].ptr].size
      /\ \A j, l \in Handles : H[j] # Nothing /\ H[l] # Nothing /\ H[j].ptr = H[l].ptr => j = l
  BY DEF Sound, Owned
<1>2. \A j \in Handles : H[j].len \in Nat /\ H[j].ptr \in Nat
  BY NothingIs
<1>3. ASSUME NEW b \in Nat, Other(b)
      PROVE  Holder(b) \in Handles \ {i} /\ H[Holder(b)] # Nothing /\ H[Holder(b)].ptr = b
  BY <1>3
<1> HIDE DEF Holder
<1>4. \A b \in Nat : s[b] \in Nat
  BY <1>2, <1>3
<1>5. \A j \in Handles \ {i} : H[j] # Nothing => s[H[j].ptr] = H[j].len
  BY <1>1, <1>2, <1>3
<1>6. H[i] # Nothing => s[H[i].ptr] = k
  BY <1>2
<1>7. \A b \in Nat \ Used(h) : s[b] = 0
  BY <1>1
<1>8. \A b \in Nat : s[b] # 0 => \E j \in Handles : H[j] # Nothing /\ H[j].ptr = b /\ s[b] <= H[j].len
  BY <1>2, <1>3
<1>9. s \in Protections
  BY <1>4 DEF Protections
<1> HIDE DEF s
<1>10. Shared(h, H, i, k, s)
  BY <1>5, <1>6, <1>7, <1>9 DEF Shared
<1>11. Protects(h, s)
  <2> SUFFICES ASSUME NEW b \in Used(h)
               PROVE  s[b] <= h.blk[b].size
    BY DEF Sound, Protects
  <2>1. b \in Nat /\ h.blk[b].size \in Nat
    BY Order DEF Sound, Good, Used
  <2>2. CASE s[b] = 0
    BY <2>1, <2>2
  <2>3. CASE s[b] # 0
    <3>1. PICK j \in Handles : H[j] # Nothing /\ H[j].ptr = b /\ s[b] <= H[j].len
      BY <1>8, <2>1, <2>3
    <3> QED BY <1>1, <1>2, <1>4, <2>1, <3>1
  <2> QED BY <2>2, <2>3
<1> QED
  BY <1>10, <1>11 DEF Sound, Good

\* Handle i gives up what it holds and gets v; the others keep theirs.
Passes(h, H, k, i, v) ==
  /\ Used(k) = (Used(h) \ Place(H[i])) \cup Place(v)
  /\ Place(v) \cap (Used(h) \ Place(H[i])) = {}
  /\ v # Nothing => v.len <= k.blk[v.ptr].size

\* A call for one handle leaves the others what they hold, untouched.
LEMMA PassOn ==
  ASSUME NEW h, NEW H \in [Handles -> Holdings], Sound(h, H), NEW i \in Handles, NEW n,
         NEW s, Shared(h, H, i, n, s), NEW k, Good(k, {}, {}, s),
         NEW v \in Holdings, Passes(h, H, k, i, v), NEW g, Settled(k, g)
  PROVE  /\ Sound(g, [H EXCEPT ![i] = v])
         /\ \A j \in Handles \ {i} : Region(H[j]) \cap k.wrote = {}
<1> DEFINE K == [H EXCEPT ![i] = v]
<1>1. /\ \A j \in Handles : H[j] # Nothing =>
           H[j].ptr \in Used(h) \ {Sentinel} /\ H[j].len <= h.blk[H[j].ptr].size
      /\ \A j, l \in Handles : H[j] # Nothing /\ H[l] # Nothing /\ H[j].ptr = H[l].ptr => j = l
      /\ \A b \in Used(h) \ {Sentinel} : \E j \in Handles : H[j] # Nothing /\ H[j].ptr = b
  BY DEF Sound, Owned
<1>2. \A j \in Handles : H[j].len \in Nat /\ H[j].ptr \in Nat /\ H[j] \in Holdings
  BY NothingIs
<1>3. K \in [Handles -> Holdings] /\ K[i] = v /\ \A j \in Handles \ {i} : K[j] = H[j]
  OBVIOUS
<1>4. Sentinel \in Used(h)
  BY DEF Sound, Good, Flags, Layout, Used
<1>5. \A j \in Handles \ {i} : H[j] # Nothing => H[j].ptr \in Used(k) /\ H[j].ptr \notin Place(v)
  BY <1>1 DEF Passes, Place
<1>6. \A j \in Handles \ {i} : H[j] # Nothing =>
        /\ H[j].len <= k.blk[H[j].ptr].size
        /\ \A w \in k.wrote : ~(H[j].ptr <= w /\ w < H[j].ptr + H[j].len)
  BY <1>5 DEF Good, Protects, Shared
<1>7. \A j \in Handles \ {i} : Region(H[j]) \cap k.wrote = {}
  <2> TAKE j \in Handles \ {i}
  <2>1. CASE H[j] = Nothing
    BY <2>1, NothingIs
  <2>2. CASE H[j] # Nothing
    BY <1>2, <1>6, <2>2, NothingIs
  <2> QED BY <2>1, <2>2
<1>8. Used(g) = Used(k) /\ \A b \in Used(k) : g.blk[b].size = k.blk[b].size
  BY DEF Settled, SameUsed
<1>9. v # Nothing => v.ptr \in Used(k) \ {Sentinel} /\ v.len <= k.blk[v.ptr].size
  <2>1. H[i] # Nothing => H[i].ptr # Sentinel
    BY <1>1
  <2> QED BY <1>4, <2>1 DEF Passes, Place
<1>10. Owned(g, K)
  <2>1. \A j \in Handles : K[j] # Nothing =>
          K[j].ptr \in Used(g) \ {Sentinel} /\ K[j].len <= g.blk[K[j].ptr].size
    BY <1>1, <1>3, <1>5, <1>6, <1>8, <1>9
  <2>2. \A j, l \in Handles : K[j] # Nothing /\ K[l] # Nothing /\ K[j].ptr = K[l].ptr => j = l
    BY <1>1, <1>3, <1>5 DEF Place
  <2>3. ASSUME NEW b \in Used(g) \ {Sentinel}
        PROVE  \E j \in Handles : K[j] # Nothing /\ K[j].ptr = b
    <3>1. CASE b \in Place(v)
      BY <1>3, <3>1 DEF Place
    <3>2. CASE b \notin Place(v)
      <4>1. b \in Used(h) \ Place(H[i])
        BY <1>8, <3>2 DEF Passes
      <4>2. PICK j \in Handles : H[j] # Nothing /\ H[j].ptr = b
        BY <1>1, <4>1
      <4>3. j # i
        BY <4>1, <4>2 DEF Place
      <4> QED BY <1>3, <4>2, <4>3
    <3> QED BY <3>1, <3>2
  <2> HIDE DEF K
  <2> QED BY <2>1, <2>2, <2>3 DEF Owned
<1> QED
  BY <1>7, <1>10 DEF Sound, Settled

\* No request is for block_size_max (4 GiB) or more: adjust_request_size answers 0
\* to such a one, which tlsf_realloc takes for a size.
SizesFit == \A n \in Sizes : n < BlockSizeMax

\* Sizes and alignments are numbers.
LEMMA Requests ==
  /\ \A n \in Sizes : n \in Nat \ {0}
  /\ \A a \in Aligns : a \in Nat
<1>1. \A k \in 0..FlMax : 2^k \in Nat
  BY Powers
<1>2. Sizes \subseteq Nat \ {0} /\ Aligns \subseteq {2^k : k \in 0..FlMax}
  BY RequestAssumption
<1>3. \A n \in Sizes : n \in Nat \ {0}
  BY <1>2
<1>4. \A a \in Aligns : a \in Nat
  BY <1>1, <1>2
<1> QED BY <1>3, <1>4

\* A call that ends with r for handle i: it is refused, or i holds v.
Serves(h, H, i, r, v) ==
  \/ r.ptr = 0 /\ r.h = h
  \/ /\ r.ptr \in Nat \ {0} /\ v \in Holdings
     /\ Sound(Settle(r.h, r.ptr), [H EXCEPT ![i] = v])
     /\ \A j \in Handles \ {i} : Region(H[j]) \cap r.h.wrote = {}

\* What a handle holds after it is granted a block.
Held(r, n, a) == [ptr |-> r.ptr, len |-> n, align |-> a]

\* A granted block as a holding.
LEMMA HeldIs ==
  ASSUME NEW r, r.ptr \in Nat \ {0}, NEW n \in Sizes, NEW a \in Aligns \cup {AlignSize}
  PROVE  /\ Held(r, n, a) \in Holdings /\ Held(r, n, a) # Nothing
         /\ Held(r, n, a).ptr = r.ptr /\ Held(r, n, a).len = n
         /\ Place(Held(r, n, a)) = {r.ptr}
<1> DEFINE v == Held(r, n, a)
<1>1. v.ptr = r.ptr /\ v.len = n /\ v \in [ptr : Nat \ {0}, len : Sizes, align : Aligns \cup {AlignSize}]
  BY DEF Held
<1> HIDE DEF v
<1>2. v \in Holdings /\ v # Nothing
  BY <1>1, NothingIs DEF Holdings
<1>3. Place(v) = {v.ptr}
  BY <1>2 DEF Place
<1> QED BY <1>1, <1>2, <1>3 DEF v

\* A granted block goes to the handle that asked.
LEMMA GrantServes ==
  ASSUME NEW h, NEW H \in [Handles -> Holdings], Sound(h, H), NEW i \in Handles, H[i] = Nothing,
         NEW s, Shared(h, H, i, 0, s), NEW r, NEW n \in Sizes, NEW a \in Aligns \cup {AlignSize},
         Granted(h, r, s, n)
  PROVE  Serves(h, H, i, r, Held(r, n, a))
<1> DEFINE v == Held(r, n, a)
           g == Settle(r.h, r.ptr)
<1>1. /\ r.ptr \in Nat \ {0} /\ r.ptr \notin Used(h) /\ Used(r.h) = Used(h) \cup {r.ptr}
      /\ Good(r.h, {}, {}, s) /\ r.h.blk[r.ptr].size >= n
  BY DEF Granted
<1>2. v \in Holdings /\ v # Nothing /\ v.ptr = r.ptr /\ v.len = n /\ Place(v) = {r.ptr}
  BY <1>1, HeldIs
<1> HIDE DEF v
<1>3. Sentinel \in Used(h)
  BY DEF Sound, Good, Flags, Layout, Used
<1>4. Settled(r.h, g)
  BY <1>1, <1>3, SettleGood
<1>5. Passes(h, H, r.h, i, v)
  <2>1. r.h.blk[r.ptr].size \in Nat /\ n \in Nat
    BY <1>1, Order, Requests DEF Good, Used
  <2> QED BY <1>1, <1>2, <2>1 DEF Passes, Place
<1> HIDE DEF g
<1>6. Sound(g, [H EXCEPT ![i] = v]) /\ \A j \in Handles \ {i} : Region(H[j]) \cap r.h.wrote = {}
  BY <1>1, <1>2, <1>4, <1>5, PassOn
<1> QED BY <1>1, <1>2, <1>6 DEF Serves, v, g

\* A handle with nothing gets a block.
LEMMA MallocServes ==
  ASSUME SizesFit, NEW h, NEW H \in [Handles -> Holdings], Sound(h, H),
         NEW i \in Handles, H[i] = Nothing, NEW n \in Sizes
  PROVE  Serves(h, H, i, TlsfMalloc(h, n), Held(TlsfMalloc(h, n), n, AlignSize))
<1> DEFINE r == TlsfMalloc(h, n)
<1>1. PICK s : Shared(h, H, i, 0, s) /\ Good(h, {}, {}, s)
  BY SharesExist, NothingIs
<1>2. n \in Nat \ {0} /\ n < BlockSizeMax
  BY Requests DEF SizesFit
<1>3. (r.ptr = 0 /\ r.h = h) \/ Granted(h, r, s, n)
  BY <1>1, <1>2, MallocGood DEF Shared
<1> HIDE DEF r
<1>4. Serves(h, H, i, r, Held(r, n, AlignSize))
  BY <1>1, <1>3, GrantServes DEF Serves
<1> QED BY <1>4 DEF r

\* So does a handle that asks for an alignment.
LEMMA MemalignServes ==
  ASSUME SizesFit, NEW h, NEW H \in [Handles -> Holdings], Sound(h, H),
         NEW i \in Handles, H[i] = Nothing, NEW n \in Sizes, NEW a \in Aligns, a > AlignSize
  PROVE  LET r == TlsfMemalign(h, a, n)
         IN  Serves(h, H, i, r, Held(r, n, a)) /\ r.ptr % a = 0
<1> DEFINE r == TlsfMemalign(h, a, n)
<1>1. PICK s : Shared(h, H, i, 0, s) /\ Good(h, {}, {}, s)
  BY SharesExist, NothingIs
<1>2. n \in Nat \ {0} /\ n < BlockSizeMax /\ a \in Nat /\ a >= 2
  BY Requests DEF SizesFit, AlignSize
<1>3. (r.ptr = 0 /\ r.h = h) \/ (Granted(h, r, s, n) /\ r.ptr % a = 0)
  BY <1>1, <1>2, MemalignGood DEF Shared
<1> HIDE DEF r
<1>4. Serves(h, H, i, r, Held(r, n, a))
  BY <1>1, <1>3, GrantServes DEF Serves
<1>5. r.ptr % a = 0
  BY <1>2, <1>3
<1> QED BY <1>4, <1>5 DEF r

\* A handle gives its block back.
LEMMA FreeServes ==
  ASSUME NEW h, NEW H \in [Handles -> Holdings], Sound(h, H), NEW i \in Handles, H[i] # Nothing
  PROVE  LET g == TlsfFree(h, H[i].ptr)
         IN  /\ Sound(Quiet(g), [H EXCEPT ![i] = Nothing])
             /\ \A j \in Handles \ {i} : Region(H[j]) \cap g.wrote = {}
<1> DEFINE p == H[i].ptr
           k == TlsfFree(h, p)
           g == Quiet(k)
           v == Nothing
<1>1. PICK s : Shared(h, H, i, 0, s) /\ Good(h, {}, {}, s)
  BY SharesExist, NothingIs
<1>2. p \in Used(h) /\ p # Sentinel /\ s[p] = 0 /\ s \in Protections
  BY <1>1 DEF Sound, Owned, Shared
<1>3. Good(k, {}, {}, s) /\ Used(k) = Used(h) \ {p}
  BY <1>1, <1>2, FreeGood
<1> HIDE DEF k
<1>4. Settled(k, g)
  BY <1>3, QuietGood
<1> HIDE DEF g
<1>5. v \in Holdings /\ Passes(h, H, k, i, v)
  BY <1>3, NothingIs DEF Passes, Place
<1> HIDE DEF v
<1>6. Sound(g, [H EXCEPT ![i] = v]) /\ \A j \in Handles \ {i} : Region(H[j]) \cap k.wrote = {}
  BY <1>1, <1>3, <1>4, <1>5, PassOn
<1> QED BY <1>6 DEF v, g, k

\* Between calls nothing is written, so a refusal changes nothing.
LEMMA QuietSame ==
  ASSUME NEW h, NEW H, Sound(h, H)
  PROVE  Quiet(h) = h
<1>1. h = [blk |-> h.blk, lists |-> h.lists, fl |-> h.fl, sl |-> h.sl, wrote |-> {}]
  BY DEF Sound, Good, Record
<1>2. ASSUME NEW B, NEW L, NEW F, NEW S
      PROVE  LET g == [blk |-> B, lists |-> L, fl |-> F, sl |-> S, wrote |-> {}]
             IN  Quiet(g) = g
  BY DEF Quiet
<1>3. Quiet([blk |-> h.blk, lists |-> h.lists, fl |-> h.fl, sl |-> h.sl, wrote |-> {}])
        = [blk |-> h.blk, lists |-> h.lists, fl |-> h.fl, sl |-> h.sl, wrote |-> {}]
  BY <1>2
<1> QED BY <1>1, <1>3

\* What realloc must keep of the contents of handle i.
Kept(H, i, n) == Min({H[i].len, n})
Lost(H, i, r, n) ==
  \/ r.copied < Kept(H, i, n)
  \/ r.ptr = H[i].ptr /\ (r.ptr .. r.ptr + Kept(H, i, n) - 1) \cap r.h.wrote # {}
  \/ r.ptr = 0 /\ Region(H[i]) \cap r.h.wrote # {}

\* The smaller of two numbers.
LEMMA MinOfTwo ==
  ASSUME NEW m \in Nat, NEW n \in Nat
  PROVE  Min({m, n}) = IF m <= n THEN m ELSE n
<1> DEFINE T == {m, n}
<1>1. T \in SUBSET Nat /\ T # {} /\ \A x : x \in T <=> x = m \/ x = n
  OBVIOUS
<1> HIDE DEF T
<1>2. Min(T) \in T /\ \A y \in T : Min(T) <= y
  BY <1>1, MinIs
<1>3. Min(T) = IF m <= n THEN m ELSE n
  BY <1>1, <1>2
<1> QED BY <1>3 DEF T

\* A block resized in place: nothing is written to the words that are kept.
LEMMA ResizeServes ==
  ASSUME NEW h, NEW H \in [Handles -> Holdings], Sound(h, H), NEW i \in Handles, H[i] # Nothing,
         NEW n \in Sizes, NEW s, Shared(h, H, i, Kept(H, i, n), s), NEW r,
         Resized(h, r, s, H[i].ptr, n)
  PROVE  Serves(h, H, i, r, Held(r, n, AlignSize)) /\ ~Lost(H, i, r, n)
<1> DEFINE p == H[i].ptr
           k == Kept(H, i, n)
           v == Held(r, n, AlignSize)
           g == Settle(r.h, r.ptr)
<1>1. /\ r.ptr = p /\ Used(r.h) = Used(h)
      /\ Good(r.h, {}, {}, s) /\ r.h.blk[p].size >= n /\ r.copied = n
  BY DEF Resized
<1>2. /\ p \in Used(h) /\ p # Sentinel /\ p \in Nat \ {0} /\ s[p] = k
      /\ H[i].len \in Nat /\ n \in Nat
  BY NothingIs, Requests DEF Sound, Owned, Shared
<1>3. k \in Nat /\ k <= n
  BY <1>2, MinOfTwo DEF Kept
<1> HIDE DEF k, p
<1>4. v \in Holdings /\ v # Nothing /\ v.ptr = p /\ v.len = n /\ Place(v) = {p}
  BY <1>1, <1>2, HeldIs
<1> HIDE DEF v
<1>5. Settled(r.h, g)
  BY <1>1, <1>2, SettleGood
<1>6. Passes(h, H, r.h, i, v)
  BY <1>1, <1>2, <1>4 DEF Passes, Place, p
<1> HIDE DEF g
<1>7. Sound(g, [H EXCEPT ![i] = v]) /\ \A j \in Handles \ {i} : Region(H[j]) \cap r.h.wrote = {}
  <2> DEFINE m == Kept(H, i, n)
  <2>1. Shared(h, H, i, m, s)
    OBVIOUS
  <2> HIDE DEF m
  <2> QED BY <1>1, <1>4, <1>5, <1>6, <2>1, PassOn
<1>8. \A w \in r.h.wrote : ~(p <= w /\ w < p + k)
  BY <1>1, <1>2 DEF Good, Protects
<1>9. (p .. p + k - 1) \cap r.h.wrote = {}
  BY <1>2, <1>3, <1>8
<1>10. ~Lost(H, i, r, n)
  BY <1>1, <1>2, <1>3, <1>9 DEF Lost, k, p
<1> QED BY <1>1, <1>2, <1>4, <1>7, <1>10 DEF Serves, v, g

\* A block that moves: the words that are kept have been copied.
LEMMA MoveServes ==
  ASSUME NEW h, NEW H \in [Handles -> Holdings], Sound(h, H), NEW i \in Handles, H[i] # Nothing,
         NEW n \in Sizes, NEW s, Shared(h, H, i, 0, s), NEW r,
         Moved(h, r, s, H[i].ptr, n)
  PROVE  Serves(h, H, i, r, Held(r, n, AlignSize)) /\ ~Lost(H, i, r, n)
<1> DEFINE p == H[i].ptr
           v == Held(r, n, AlignSize)
           g == Settle(r.h, r.ptr)
<1>1. /\ r.ptr \in Nat \ {0} /\ r.ptr \notin Used(h) /\ Used(r.h) = (Used(h) \cup {r.ptr}) \ {p}
      /\ Good(r.h, {}, {}, s) /\ r.h.blk[r.ptr].size >= n /\ r.copied = Min({h.blk[p].size, n})
  BY DEF Moved
<1>2. /\ p \in Used(h) /\ p # Sentinel /\ H[i].len \in Nat /\ n \in Nat
      /\ H[i].len <= h.blk[p].size
  BY NothingIs, Requests DEF Sound, Owned
<1>3. h.blk[p].size \in Nat /\ Sentinel \in Used(h)
  BY <1>2, Order DEF Sound, Good, Flags, Layout, Used
<1>4. Kept(H, i, n) <= r.copied
  BY <1>1, <1>2, <1>3, MinOfTwo DEF Kept
<1>5. v \in Holdings /\ v # Nothing /\ v.ptr = r.ptr /\ v.len = n /\ Place(v) = {r.ptr}
  BY <1>1, HeldIs
<1> HIDE DEF v
<1>6. r.ptr \in Used(r.h) /\ r.ptr # Sentinel /\ r.ptr # p
  BY <1>1, <1>2, <1>3
<1>7. Settled(r.h, g)
  BY <1>1, <1>6, SettleGood
<1>8. Passes(h, H, r.h, i, v)
  BY <1>1, <1>2, <1>5, <1>6 DEF Passes, Place
<1> HIDE DEF g
<1>9. Sound(g, [H EXCEPT ![i] = v]) /\ \A j \in Handles \ {i} : Region(H[j]) \cap r.h.wrote = {}
  BY <1>1, <1>5, <1>7, <1>8, PassOn
<1>10. Kept(H, i, n) \in Nat /\ r.copied \in Nat
  BY <1>1, <1>2, <1>3, MinOfTwo DEF Kept
<1>11. ~Lost(H, i, r, n)
  BY <1>1, <1>4, <1>6, <1>10 DEF Lost
<1> QED BY <1>1, <1>9, <1>5, <1>11 DEF Serves, v, g

\* A block is resized where it is, or moved, or left alone.
LEMMA ReallocServes ==
  ASSUME SizesFit, NEW h, NEW H \in [Handles -> Holdings], Sound(h, H),
         NEW i \in Handles, H[i] # Nothing, NEW n \in Sizes
  PROVE  LET r == TlsfRealloc(h, H[i].ptr, n)
         IN  Serves(h, H, i, r, Held(r, n, AlignSize)) /\ ~Lost(H, i, r, n)
<1> DEFINE p == H[i].ptr
           k == Kept(H, i, n)
           r == TlsfRealloc(h, p, n)
<1>1. n \in Nat \ {0} /\ n < BlockSizeMax /\ H[i].len \in Nat
  BY Requests, NothingIs DEF SizesFit
<1>2. k \in Nat /\ k <= H[i].len /\ k <= n
  BY <1>1, MinOfTwo DEF Kept
<1> HIDE DEF k
<1>3. PICK s : Shared(h, H, i, k, s) /\ Good(h, {}, {}, s)
  BY <1>2, SharesExist
<1>4. p \in Used(h) /\ p # Sentinel /\ p \in Nat \ {0} /\ s[p] = k /\ s \in Protections
  BY <1>3, NothingIs DEF Sound, Owned, Shared
<1> DEFINE t == [s EXCEPT ![p] = 0]
<1>5. \/ r.ptr = 0 /\ r.h = h /\ r.copied = n
      \/ Resized(h, r, s, p, n)
      \/ Moved(h, r, t, p, n)
  BY <1>1, <1>2, <1>3, <1>4, ReallocGood DEF Shared
<1>6. Shared(h, H, i, 0, t)
  <2>1. t \in Protections /\ t[p] = 0 /\ \A b \in Nat \ {p} : t[b] = s[b]
    BY <1>4 DEF Protections
  <2>2. \A j \in Handles \ {i} : H[j] # Nothing => H[j].ptr \in Nat \ {p}
    BY NothingIs DEF Sound, Owned
  <2> HIDE DEF t
  <2> QED BY <1>3, <1>4, <2>1, <2>2 DEF Shared
<1> HIDE DEF t, r
<1>7. CASE r.ptr = 0 /\ r.h = h /\ r.copied = n
  <2>1. r.h.wrote = {}
    BY <1>7 DEF Sound
  <2>2. ~Lost(H, i, r, n)
    BY <1>1, <1>2, <1>4, <1>7, <2>1 DEF Lost, k
  <2> QED BY <1>7, <2>2 DEF Serves, r
<1>8. CASE Resized(h, r, s, p, n)
  <2>1. Serves(h, H, i, r, Held(r, n, AlignSize)) /\ ~Lost(H, i, r, n)
    BY <1>3, <1>8, ResizeServes DEF k
  <2> QED BY <2>1 DEF r
<1>9. CASE Moved(h, r, t, p, n)
  <2>1. Serves(h, H, i, r, Held(r, n, AlignSize)) /\ ~Lost(H, i, r, n)
    BY <1>6, <1>9, MoveServes
  <2> QED BY <2>1 DEF r
<1> QED BY <1>5, <1>7, <1>8, <1>9

-----------------------------------------------------------------------------
(* The steps. *)
\* What the calls preserve.
HeapInv ==
  /\ inited \in BOOLEAN /\ looked \subseteq Cpus /\ damaged = {}
  /\ held \in [Handles -> Holdings]
  /\ inited => Sound(heap, held)
  /\ ~inited => heap = Created /\ held = [i \in Handles |-> Nothing]

\* A call that writes to nobody else's words damages nobody.
LEMMA NobodyHit ==
  ASSUME NEW h, NEW i, \A j \in Handles \ {i} : Region(held[j]) \cap h.wrote = {}
  PROVE  Hit(h, {i}) = {}
  BY DEF Hit

\* The invariant holds before tlsf_ensure.
LEMMA HeapInit == Init => HeapInv
<1>1. Nothing \in Holdings
  BY NothingIs
<1> QED BY <1>1 DEF Init, HeapInv

\* The look at the flag without the lock changes nothing.
LEMMA LookStep ==
  ASSUME HeapInv, NEW c \in Cpus, Look(c)
  PROVE  HeapInv' /\ held' = held
  BY DEF HeapInv, Look

\* The first CPU in tlsf_ensure builds the heap, the second does not build it again.
LEMMA EnsureStep ==
  ASSUME HeapInv, NEW c \in Cpus, Ensure(c)
  PROVE  HeapInv' /\ held' = held
<1>1. CASE inited
  BY <1>1 DEF HeapInv, Ensure
<1>2. CASE ~inited
  <2>1. heap' = Quiet(Created) /\ held' = held /\ held = [i \in Handles |-> Nothing]
    BY <1>2 DEF Ensure, HeapInv, Quiet
  <2>2. Settled(Created, Quiet(Created)) /\ Used(Created) = {Sentinel}
    BY CreatedGood, QuietGood
  <2> DEFINE g == Quiet(Created)
  <2> HIDE DEF g
  <2>3. Good(g, {}, {}, Zero) /\ g.wrote = {} /\ Used(g) = {Sentinel}
    BY <2>2 DEF Settled, SameUsed, g
  <2>4. Sound(heap', held')
    BY <2>1, <2>3 DEF Sound, Owned, g
  <2> QED BY <2>4 DEF HeapInv, Ensure
<1> QED BY <1>1, <1>2

\* What malloc and memalign do with what the allocator returns.
LEMMA ReceiveStep ==
  ASSUME HeapInv, Callable, NEW i \in Handles, NEW r, NEW n \in Sizes, NEW a \in Aligns \cup {AlignSize},
         Serves(heap, held, i, r, Held(r, n, a)), Receive(i, r, n, a)
  PROVE  /\ HeapInv'
         /\ held' = held \/ (r.ptr \in Nat \ {0} /\ held' = [held EXCEPT ![i] = Held(r, n, a)])
<1>1. inited /\ Sound(heap, held) /\ inited' = inited /\ looked' = looked /\ looked \subseteq Cpus
  BY DEF HeapInv, Callable, Receive
<1>2. CASE r.ptr = 0 /\ r.h = heap
  <2>1. heap' = Quiet(heap) /\ held' = held /\ damaged' = damaged \cup Hit(heap, {i})
    BY <1>2 DEF Receive, Quiet
  <2>2. Quiet(heap) = heap /\ heap.wrote = {}
    BY <1>1, QuietSame DEF Sound
  <2>3. Hit(heap, {i}) = {}
    BY <2>2, NobodyHit
  <2> QED BY <1>1, <2>1, <2>2, <2>3 DEF HeapInv
<1>3. CASE ~(r.ptr = 0 /\ r.h = heap)
  <2> DEFINE v == Held(r, n, a)
  <2>1. /\ r.ptr \in Nat \ {0} /\ v \in Holdings
        /\ Sound(Settle(r.h, r.ptr), [held EXCEPT ![i] = v])
        /\ \A j \in Handles \ {i} : Region(held[j]) \cap r.h.wrote = {}
    BY <1>3 DEF Serves
  <2>2. /\ heap' = Settle(r.h, r.ptr) /\ held' = [held EXCEPT ![i] = v]
        /\ damaged' = damaged \cup Hit(r.h, {i})
    BY <2>1 DEF Receive, Held
  <2>3. Hit(r.h, {i}) = {}
    BY <2>1, NobodyHit
  <2> HIDE DEF v
  <2>4. HeapInv'
    BY <1>1, <2>1, <2>2, <2>3 DEF HeapInv
  <2> QED BY <2>1, <2>2, <2>4 DEF v
<1> QED BY <1>2, <1>3

\* One step of malloc.
LEMMA MallocStep ==
  ASSUME SizesFit, HeapInv, NEW i \in Handles, NEW n \in Sizes, Malloc(i, n)
  PROVE  LET r == TlsfMalloc(heap, n)
         IN  /\ HeapInv'
             /\ held' = held \/ (r.ptr \in Nat \ {0} /\ held' = [held EXCEPT ![i] = Held(r, n, AlignSize)])
<1> DEFINE r == TlsfMalloc(heap, n)
<1>1. Callable /\ held[i] = Nothing /\ Receive(i, r, n, AlignSize) /\ Sound(heap, held)
      /\ held \in [Handles -> Holdings]
  BY DEF Malloc, HeapInv, Callable
<1>2. Serves(heap, held, i, r, Held(r, n, AlignSize))
  BY <1>1, MallocServes
<1> HIDE DEF r
<1>3. /\ HeapInv'
      /\ held' = held \/ (r.ptr \in Nat \ {0} /\ held' = [held EXCEPT ![i] = Held(r, n, AlignSize)])
  BY <1>1, <1>2, ReceiveStep
<1> QED BY <1>3 DEF r

\* One step of memalign.
LEMMA MemalignStep ==
  ASSUME SizesFit, HeapInv, NEW i \in Handles, NEW a \in Aligns, NEW n \in Sizes, Memalign(i, a, n)
  PROVE  LET r == TlsfMemalign(heap, a, n)
         IN  /\ HeapInv'
             /\ \/ held' = held
                \/ r.ptr \in Nat \ {0} /\ r.ptr % a = 0 /\ held' = [held EXCEPT ![i] = Held(r, n, a)]
<1> DEFINE r == TlsfMemalign(heap, a, n)
<1>1. Callable /\ held[i] = Nothing /\ a > AlignSize /\ Receive(i, r, n, a) /\ Sound(heap, held)
      /\ held \in [Handles -> Holdings]
  BY DEF Memalign, HeapInv, Callable
<1>2. Serves(heap, held, i, r, Held(r, n, a)) /\ r.ptr % a = 0
  BY <1>1, MemalignServes
<1> HIDE DEF r
<1>3. /\ HeapInv'
      /\ held' = held \/ (r.ptr \in Nat \ {0} /\ held' = [held EXCEPT ![i] = Held(r, n, a)])
  BY <1>1, <1>2, ReceiveStep
<1> QED BY <1>2, <1>3 DEF r

\* One step of free.
LEMMA FreeStep ==
  ASSUME HeapInv, NEW i \in Handles, Free(i)
  PROVE  HeapInv' /\ held[i] # Nothing /\ held' = [held EXCEPT ![i] = Nothing]
<1> DEFINE h == TlsfFree(heap, held[i].ptr)
<1>1. /\ inited /\ held[i] # Nothing /\ Sound(heap, held) /\ held \in [Handles -> Holdings]
      /\ heap' = Quiet(h) /\ damaged' = damaged \cup Hit(h, {i})
      /\ held' = [held EXCEPT ![i] = Nothing]
      /\ inited' = inited /\ looked' = looked
  BY DEF Free, HeapInv, Callable, Quiet
<1>2. /\ Sound(Quiet(h), [held EXCEPT ![i] = Nothing])
      /\ \A j \in Handles \ {i} : Region(held[j]) \cap h.wrote = {}
  BY <1>1, FreeServes
<1> HIDE DEF h
<1>3. Hit(h, {i}) = {}
  BY <1>2, NobodyHit
<1>4. Nothing \in Holdings
  BY NothingIs
<1> QED BY <1>1, <1>2, <1>3, <1>4 DEF HeapInv

\* One step of realloc.
LEMMA ReallocStep ==
  ASSUME SizesFit, HeapInv, NEW i \in Handles, NEW n \in Sizes, Realloc(i, n)
  PROVE  LET r == TlsfRealloc(heap, held[i].ptr, n)
         IN  /\ HeapInv' /\ held[i] # Nothing
             /\ held' = held \/ (r.ptr \in Nat \ {0} /\ held' = [held EXCEPT ![i] = Held(r, n, AlignSize)])
<1> DEFINE r == TlsfRealloc(heap, held[i].ptr, n)
<1>1. /\ Callable /\ held[i] # Nothing /\ inited /\ Sound(heap, held) /\ held \in [Handles -> Holdings]
  BY DEF Realloc, HeapInv, Callable
<1>2. Serves(heap, held, i, r, Held(r, n, AlignSize)) /\ ~Lost(held, i, r, n)
  BY <1>1, ReallocServes
<1>3. /\ heap' = IF r.ptr = 0 THEN Quiet(r.h) ELSE Settle(r.h, r.ptr)
      /\ held' = IF r.ptr = 0 THEN held ELSE [held EXCEPT ![i] = Held(r, n, AlignSize)]
      /\ damaged' = damaged \cup Hit(r.h, {i}) \cup (IF Lost(held, i, r, n) THEN {i} ELSE {})
      /\ inited' = inited /\ looked' = looked
  BY DEF Realloc, Quiet, Held, Lost, Kept
<1> HIDE DEF r
<1>4. Receive(i, r, n, AlignSize)
  BY <1>2, <1>3 DEF Receive, Quiet, Held
<1>5. /\ HeapInv'
      /\ held' = held \/ (r.ptr \in Nat \ {0} /\ held' = [held EXCEPT ![i] = Held(r, n, AlignSize)])
  BY <1>1, <1>2, <1>4, ReceiveStep
<1> QED BY <1>1, <1>5 DEF r

-----------------------------------------------------------------------------
(* The theorems. *)
\* Between calls the heap is good, also before it is used.
LEMMA HeapIsGood ==
  ASSUME HeapInv
  PROVE  Good(heap, {}, {}, Zero) /\ Zero \in Protections
<1>1. Good(heap, {}, {}, Zero)
  BY CreatedGood DEF HeapInv, Sound
<1> QED BY <1>1, ZeroProtects DEF Good

\* What the handles hold lies in the pool, and no two of them meet.
LEMMA RegionsApart ==
  ASSUME NEW h, NEW H \in [Handles -> Holdings], Sound(h, H)
  PROVE  /\ \A i \in Handles : /\ Region(H[i]) \subseteq Words
                               /\ H[i] # Nothing => H[i].ptr \in Words
         /\ \A i, j \in Handles : i # j => Region(H[i]) \cap Region(H[j]) = {}
<1>1. Record(h) /\ Layout(h) /\ Flags(h)
  BY DEF Sound, Good
<1>2. ASSUME NEW i \in Handles, H[i] # Nothing
      PROVE  /\ H[i].ptr \in DOMAIN h.blk \ {Sentinel} /\ H[i].len <= h.blk[H[i].ptr].size
             /\ H[i].ptr \in Nat /\ H[i].len \in Nat \ {0}
             /\ Region(H[i]) = H[i].ptr .. (H[i].ptr + H[i].len - 1)
  BY <1>2, NothingIs, Requests DEF Sound, Owned, Used
<1>3. ASSUME NEW i \in Handles, H[i] # Nothing
      PROVE  Region(H[i]) \subseteq Words /\ H[i].ptr \in Words
  <2>1. NextOf(h, H[i].ptr) \in DOMAIN h.blk /\ First <= H[i].ptr
        /\ NextOf(h, H[i].ptr) = H[i].ptr + h.blk[H[i].ptr].size + 1
        /\ h.blk[H[i].ptr].size \in Nat /\ NextOf(h, H[i].ptr) <= Sentinel
    BY <1>1, <1>2, <1>3, Order
  <2>2. First = PoolStart + 1 /\ Sentinel = PoolStart + PoolWords /\ PoolStart \in Nat /\ PoolWords \in Nat
    BY Pool, PoolAssumption DEF First, Overhead
  <2>3. H[i].ptr + H[i].len - 1 < PoolStart + PoolWords - 1 /\ PoolStart <= H[i].ptr
    BY <1>2, <1>3, <2>1, <2>2
  <2> QED BY <1>2, <1>3, <2>2, <2>3 DEF Words
<1>4. ASSUME NEW i \in Handles, NEW j \in Handles, i # j, H[i] # Nothing, H[j] # Nothing
      PROVE  Region(H[i]) \cap Region(H[j]) = {}
  <2> DEFINE a == H[i].ptr
             b == H[j].ptr
  <2>1. a # b
    BY <1>4 DEF Sound, Owned
  <2>2. /\ NextOf(h, a) = a + h.blk[a].size + 1 /\ NextOf(h, b) = b + h.blk[b].size + 1
        /\ h.blk[a].size \in Nat /\ h.blk[b].size \in Nat
        /\ a < b => NextOf(h, a) <= b
        /\ b < a => NextOf(h, b) <= a
    BY <1>1, <1>2, <1>4, Order
  <2>3. /\ a \in Nat /\ H[i].len \in Nat /\ H[i].len <= h.blk[a].size
        /\ b \in Nat /\ H[j].len \in Nat /\ H[j].len <= h.blk[b].size
        /\ Region(H[i]) = a .. (a + H[i].len - 1) /\ Region(H[j]) = b .. (b + H[j].len - 1)
    BY <1>2, <1>4
  <2> HIDE DEF a, b
  <2>4. CASE a < b
    <3>1. a + h.blk[a].size + 1 <= b
      BY <2>2, <2>4
    <3> QED BY <2>2, <2>3, <3>1
  <2>5. CASE b < a
    <3>1. b + h.blk[b].size + 1 <= a
      BY <2>2, <2>5
    <3> QED BY <2>2, <2>3, <3>1
  <2> QED BY <2>1, <2>3, <2>4, <2>5
<1> QED BY <1>3, <1>4, NothingIs

\* Every step keeps the invariant.
LEMMA HeapNext ==
  ASSUME SizesFit, HeapInv, [Next]_vars
  PROVE  HeapInv'
<1>1. ASSUME NEW c \in Cpus, Look(c)
      PROVE  HeapInv'
  BY <1>1, LookStep
<1>2. ASSUME NEW c \in Cpus, Ensure(c)
      PROVE  HeapInv'
  BY <1>2, EnsureStep
<1>3. ASSUME NEW i \in Handles, NEW n \in Sizes, Malloc(i, n)
      PROVE  HeapInv'
  BY <1>3, MallocStep
<1>4. ASSUME NEW i \in Handles, NEW n \in Sizes, Realloc(i, n)
      PROVE  HeapInv'
  BY <1>4, ReallocStep
<1>5. ASSUME NEW i \in Handles, NEW n \in Sizes, NEW a \in Aligns, Memalign(i, a, n)
      PROVE  HeapInv'
  BY <1>5, MemalignStep
<1>6. ASSUME NEW i \in Handles, Free(i)
      PROVE  HeapInv'
  BY <1>6, FreeStep
<1>7. CASE UNCHANGED vars
  BY <1>7 DEF vars, HeapInv
<1> QED BY <1>1, <1>2, <1>3, <1>4, <1>5, <1>6, <1>7 DEF Next

\* Through every sequence of calls on any number of handles, the pool consists of
\* blocks that follow one another, flags and lists describe them, and every block
\* in use belongs to one handle (the inductive invariant of tlsf.c).
THEOREM HeapStaysSound ==
  ASSUME SizesFit
  PROVE  Spec => []HeapInv
<1>1. HeapInv /\ [Next]_vars => HeapInv'
  BY HeapNext
<1> QED BY <1>1, HeapInit, PTL DEF Spec

\* Every header has a status and a status of the block below that somebody has
\* set: the flag bits that block_set_size finds in a user's word never stay.
THEOREM TlsfTypes ==
  ASSUME SizesFit
  PROVE  Spec => []TlsfTypeOK
<1>1. HeapInv => TlsfTypeOK
  <2> SUFFICES ASSUME HeapInv PROVE TlsfTypeOK
    OBVIOUS
  <2>1. /\ Record(heap) /\ Layout(heap) /\ Flags(heap) /\ Lists(heap, {})
    BY HeapIsGood DEF Good
  <2>2. ASSUME NEW p \in DOMAIN heap.blk
        PROVE  /\ p \in First..Sentinel
               /\ heap.blk[p].size \in Nat /\ heap.blk[p].link \in {0} \cup (First..Sentinel)
               /\ heap.blk[p].status \in {"free", "used"}
               /\ heap.blk[p].before \in {"free", "used"}
    <3>1. /\ heap.blk[p].size \in Nat /\ heap.blk[p].link \in {0} \cup (First..Sentinel)
          /\ heap.blk[p].status \in {"free", "used"} /\ p \in First..Sentinel
      BY <2>1, BlockIs DEF Statuses, Record
    <3>2. CASE p = First
      BY <2>1, <3>1, <3>2 DEF Flags
    <3>3. CASE p # First
      <4>1. PICK a \in DOMAIN heap.blk \ {Sentinel} : NextOf(heap, a) = p
        BY <2>1, <3>3, Below
      <4>2. heap.blk[p].before = heap.blk[a].status /\ heap.blk[a].status \in {"free", "used"}
        BY <2>1, <4>1, BlockIs DEF Flags, Statuses
      <4> QED BY <3>1, <4>2
    <3> QED BY <3>2, <3>3
  <2>3. heap.fl \subseteq 0..(FlCount - 1) /\ heap.sl \subseteq Classes
    BY <2>1 DEF Lists, Classes
  <2>4. inited \in BOOLEAN /\ looked \subseteq Cpus /\ damaged \subseteq Handles
    BY DEF HeapInv
  <2>5. held \in [Handles -> [ptr : Words \cup {0}, len : Sizes \cup {0},
                              align : Aligns \cup {AlignSize}]]
    <3>1. Nothing = [ptr |-> 0, len |-> 0, align |-> 1] /\ held \in [Handles -> Holdings]
      BY DEF HeapInv, Nothing, Abstract!Nothing
    <3>2. \A i \in Handles : held[i] # Nothing => held[i].ptr \in Words
      BY RegionsApart DEF HeapInv
    <3>3. ASSUME NEW i \in Handles
          PROVE  held[i] \in [ptr : Words \cup {0}, len : Sizes \cup {0}, align : Aligns \cup {AlignSize}]
      BY <3>1, <3>2 DEF Holdings, AlignSize
    <3> QED BY <3>1, <3>3
  <2> QED BY <2>2, <2>3, <2>4, <2>5 DEF TlsfTypeOK
<1> QED BY <1>1, HeapStaysSound, PTL

\* tlsf_check and tlsf_check_pool would find nothing wrong after any call.
THEOREM PoolStaysWhole ==
  ASSUME SizesFit
  PROVE  Spec => []Integrity
<1>1. HeapInv => Integrity
  <2> SUFFICES ASSUME HeapInv PROVE Integrity
    OBVIOUS
  <2> DEFINE h == heap
  <2>1. Record(h) /\ Layout(h) /\ Flags(h) /\ Lists(h, {}) /\ Apart(h, {})
    BY HeapIsGood DEF Good
  <2> HIDE DEF h
  <2>2. CheckPool(h)
    <3>1. ASSUME NEW p \in DOMAIN h.blk \ {Sentinel}
          PROVE  {q \in DOMAIN h.blk : p < q /\ q < NextOf(h, p)} = {}
      BY <2>1, Order DEF Layout
    <3> QED BY <2>1, <3>1 DEF CheckPool, Layout, Flags, IsFree
  <2>3. ASSUME NEW c \in Classes, NEW p \in ToSet(h.lists[c])
        PROVE  /\ p \in DOMAIN h.blk
               /\ IsFree(h, p) /\ ~IsFree(h, NextOf(h, p)) /\ h.blk[p].before = "used"
               /\ h.blk[p].size >= BlockSizeMin /\ ClassOf(h, p) = c
    <3>1. p \in DOMAIN h.blk \ {Sentinel} /\ h.blk[p].status = "free" /\ ClassOf(h, p) = c
      BY <2>1, <2>3 DEF Lists, Flags
    <3>2. h.blk[p].before = "used"
      <4>1. CASE p = First
        BY <2>1, <4>1 DEF Flags
      <4>2. CASE p # First
        <5>1. PICK a \in DOMAIN h.blk \ {Sentinel} : NextOf(h, a) = p
          BY <2>1, <3>1, <4>2, Below
        <5>2. h.blk[p].before = h.blk[a].status /\ h.blk[a].status \in {"free", "used"}
          BY <2>1, <5>1, BlockIs DEF Flags, Statuses
        <5> QED BY <2>1, <3>1, <5>1, <5>2 DEF Apart
      <4> QED BY <4>1, <4>2
    <3> QED BY <2>1, <3>1, <3>2 DEF Apart, Layout, IsFree
  <2>4. ASSUME NEW p \in DOMAIN h.blk, IsFree(h, p)
        PROVE  LET list == h.lists[ClassOf(h, p)]
               IN \E i \in DOMAIN list : \A j \in DOMAIN list : list[j] = p <=> j = i
    <3> DEFINE list == h.lists[ClassOf(h, p)]
    <3>1. p \in ToSet(list) /\ Distinct(list)
      BY <2>1, <2>4, ClassIn DEF Lists, IsFree
    <3> HIDE DEF list
    <3>2. PICK i \in DOMAIN list : list[i] = p
      BY <3>1 DEF ToSet
    <3>3. \A j \in DOMAIN list : list[j] = p <=> j = i
      BY <3>1, <3>2 DEF Distinct
    <3> QED BY <3>3 DEF list
  <2>5. CheckLists(h)
    BY <2>1, <2>3, <2>4 DEF CheckLists, Lists
  <2> QED BY <2>2, <2>5 DEF Integrity, h
<1> QED BY <1>1, HeapStaysSound, PTL

\* No call writes to a word that a caller holds, and realloc keeps the contents, in
\* place, moved or refused.
THEOREM ContentsAreKept ==
  ASSUME SizesFit
  PROVE  Spec => []ContentsKept
<1>1. HeapInv => ContentsKept
  BY DEF HeapInv, ContentsKept
<1> QED BY <1>1, HeapStaysSound, PTL

\* When every caller has freed what it held, in any order, the pool is one block.
THEOREM AllFreedIsOneBlock ==
  ASSUME SizesFit
  PROVE  Spec => []FreeMergesAll
<1>1. HeapInv => FreeMergesAll
  <2> SUFFICES ASSUME HeapInv, \A i \in Handles : held[i] = Nothing
               PROVE  DOMAIN heap.blk = {First, Sentinel}
    BY DEF FreeMergesAll
  <2>1. Record(heap) /\ Layout(heap) /\ Apart(heap, {})
    BY HeapIsGood DEF Good
  <2>2. Used(heap) \subseteq {Sentinel}
    BY CreatedGood DEF HeapInv, Sound, Owned
  <2>3. \A p \in DOMAIN heap.blk \ {Sentinel} : heap.blk[p].status = "free"
    BY <2>1, <2>2, BlockIs DEF Used, Statuses
  <2>4. First \in DOMAIN heap.blk \ {Sentinel} /\ Sentinel \in DOMAIN heap.blk
    BY <2>1, Pool DEF Layout
  <2>5. NextOf(heap, First) = Sentinel
    BY <2>1, <2>3, <2>4 DEF Apart, Layout
  <2>6. \A q \in DOMAIN heap.blk : q = First \/ q = Sentinel
    BY <2>1, <2>4, <2>5, Order DEF Layout
  <2> QED BY <2>4, <2>6
<1> QED BY <1>1, HeapStaysSound, PTL

\* block_locate_free refuses a request only when no free block is of a class from
\* the one it searches for on: the bitmaps hide no list.
THEOREM NoFitIsOverlooked ==
  ASSUME SizesFit
  PROVE  Spec => []RefusesOnlyWhenFull
<1>1. HeapInv => RefusesOnlyWhenFull
  <2> SUFFICES ASSUME HeapInv, NEW n \in Sizes,
                      LocateFree(heap, AdjustRequest(n, AlignSize)).ptr = 0,
                      NEW p \in DOMAIN heap.blk, IsFree(heap, p)
               PROVE  LET want == MappingSearch(AdjustRequest(n, AlignSize))
                          have == ClassOf(heap, p)
                      IN have[1] < want[1] \/ (have[1] = want[1] /\ have[2] < want[2])
    BY DEF RefusesOnlyWhenFull
  <2> DEFINE m == AdjustRequest(n, AlignSize)
  <2>1. m \in Nat /\ m >= 3 /\ m < BlockSizeMax
    BY Requests, AdjustIs DEF AlignSize, SizesFit
  <2> HIDE DEF m
  <2>2. Good(heap, {}, {}, Zero) /\ Zero \in Protections /\ Record(heap) /\ Layout(heap)
    BY HeapIsGood DEF Good
  <2>3. 0 \notin DOMAIN heap.blk
    BY <2>2, Order, Pool
  <2>4. ~AtOrAbove(ClassOf(heap, p), MappingSearch(m))
    <3>1. LocateFree(heap, m).ptr = 0
      BY DEF m
    <3> DEFINE s == Zero
    <3> HIDE DEF s
    <3>2. Good(heap, {}, {}, s) /\ s \in Protections
      BY <2>2 DEF s
    <3> DEFINE r == LocateFree(heap, m)
    <3>3. \/ /\ r.ptr = 0 /\ r.h = heap
             /\ m > 0 => \A b \in DOMAIN heap.blk :
                  heap.blk[b].status = "free" => ~AtOrAbove(ClassOf(heap, b), MappingSearch(m))
          \/ r.ptr \in DOMAIN heap.blk
      BY <2>1, <3>2, LocateGood
    <3> HIDE DEF r
    <3>4. r.ptr = 0
      BY <3>1 DEF r
    <3> QED BY <2>1, <2>3, <3>3, <3>4 DEF IsFree
  <2>5. ClassOf(heap, p) \in Classes
    BY <2>2, ClassIn
  <2>6. MappingSearch(m)[1] \in Nat /\ MappingSearch(m)[2] \in Int
    BY <2>1, SearchStarts
  <2>7. ClassOf(heap, p)[1] \in Int /\ ClassOf(heap, p)[2] \in Int
    BY <2>5 DEF Classes
  <2> QED BY <2>4, <2>6, <2>7 DEF AtOrAbove, m
<1> QED BY <1>1, HeapStaysSound, PTL

-----------------------------------------------------------------------------
(* The refinement. *)
\* A region that a step grants lies in the pool, apart from all others.
LEMMA HeldFits ==
  ASSUME HeapInv', held \in [Handles -> Holdings], NEW i \in Handles, NEW r, r.ptr \in Nat \ {0},
         NEW n \in Sizes, NEW a \in Aligns \cup {AlignSize},
         held' = [held EXCEPT ![i] = Held(r, n, a)]
  PROVE  r.ptr \in Words /\ Abstract!Fits(i, r.ptr, n)
<1> DEFINE v == Held(r, n, a)
<1>1. v \in Holdings /\ v # Nothing /\ v.ptr = r.ptr /\ v.len = n
  BY HeldIs
<1> HIDE DEF v
<1>2. held'[i] = v /\ \A j \in Handles \ {i} : held'[j] = held[j]
  BY DEF v
<1>3. Sound(heap', held')
  <2>1. inited' \/ held' = [j \in Handles |-> Nothing]
    BY DEF HeapInv
  <2>2. held'[i] # Nothing
    BY <1>1, <1>2
  <2> QED BY <2>1, <2>2 DEF HeapInv
<1>4. held' \in [Handles -> Holdings]
  BY DEF HeapInv
<1> DEFINE h == heap'
           H == held'
<1> HIDE DEF h, H
<1>5. Sound(h, H) /\ H \in [Handles -> Holdings] /\ H[i] = v /\ \A j \in Handles \ {i} : H[j] = held[j]
  BY <1>2, <1>3, <1>4 DEF h, H
<1>6. /\ Region(v) \subseteq Words /\ v.ptr \in Words
      /\ \A j \in Handles \ {i} : Region(v) \cap Region(held[j]) = {}
  BY <1>1, <1>5, RegionsApart
<1>7. Region(v) = r.ptr .. (r.ptr + n - 1)
  BY <1>1, NothingIs
<1> QED BY <1>1, <1>6, <1>7 DEF Abstract!Fits, Region

\* What malloc and memalign do is a grant of the abstract heap.
LEMMA GrantIs ==
  ASSUME HeapInv', held \in [Handles -> Holdings], NEW i \in Handles, NEW r, r.ptr \in Nat \ {0},
         NEW n \in Sizes, NEW a \in Aligns \cup {AlignSize}, r.ptr % a = 0, held[i] = Nothing,
         held' = [held EXCEPT ![i] = Held(r, n, a)]
  PROVE  Abstract!Grant(i, n, a)
<1>1. r.ptr \in Words /\ Abstract!Fits(i, r.ptr, n)
  BY HeldFits
<1> QED BY <1>1 DEF Abstract!Grant, Held, Nothing

\* What realloc does is a resize of the abstract heap.
LEMMA ResizeIs ==
  ASSUME HeapInv', held \in [Handles -> Holdings], NEW i \in Handles, NEW r, r.ptr \in Nat \ {0},
         NEW n \in Sizes, held[i] # Nothing,
         held' = [held EXCEPT ![i] = Held(r, n, AlignSize)]
  PROVE  Abstract!Resize(i, n)
<1>1. r.ptr \in Words /\ Abstract!Fits(i, r.ptr, n)
  BY HeldFits
<1> QED BY <1>1 DEF Abstract!Resize, Held, Nothing, AlignSize

\* Every step is one of the abstract heap, or changes no holding.
LEMMA StepImplements ==
  ASSUME SizesFit, HeapInv, HeapInv', [Next]_vars
  PROVE  [Abstract!Next]_held
<1>1. held \in [Handles -> Holdings]
  BY DEF HeapInv
<1>2. ASSUME NEW c \in Cpus, Look(c)
      PROVE  held' = held
  BY <1>2, LookStep
<1>3. ASSUME NEW c \in Cpus, Ensure(c)
      PROVE  held' = held
  BY <1>3, EnsureStep
<1>4. ASSUME NEW i \in Handles, NEW n \in Sizes, Malloc(i, n)
      PROVE  held' = held \/ Abstract!Grant(i, n, AlignSize)
  <2> DEFINE r == TlsfMalloc(heap, n)
  <2>1. held' = held \/ (r.ptr \in Nat \ {0} /\ held' = [held EXCEPT ![i] = Held(r, n, AlignSize)])
    BY <1>4, MallocStep
  <2>2. held[i] = Nothing
    BY <1>4 DEF Malloc
  <2> HIDE DEF r
  <2>3. r.ptr \in Nat => r.ptr % AlignSize = 0
    BY DEF AlignSize
  <2> QED BY <1>1, <2>1, <2>2, <2>3, GrantIs
<1>5. ASSUME NEW i \in Handles, NEW n \in Sizes, NEW a \in Aligns, Memalign(i, a, n)
      PROVE  held' = held \/ Abstract!Grant(i, n, a)
  <2> DEFINE r == TlsfMemalign(heap, a, n)
  <2>1. \/ held' = held
        \/ r.ptr \in Nat \ {0} /\ r.ptr % a = 0 /\ held' = [held EXCEPT ![i] = Held(r, n, a)]
    BY <1>5, MemalignStep
  <2>2. held[i] = Nothing
    BY <1>5 DEF Memalign
  <2> HIDE DEF r
  <2> QED BY <1>1, <2>1, <2>2, GrantIs
<1>6. ASSUME NEW i \in Handles, NEW n \in Sizes, Realloc(i, n)
      PROVE  held' = held \/ Abstract!Resize(i, n)
  <2> DEFINE r == TlsfRealloc(heap, held[i].ptr, n)
  <2>1. /\ held[i] # Nothing
        /\ held' = held \/ (r.ptr \in Nat \ {0} /\ held' = [held EXCEPT ![i] = Held(r, n, AlignSize)])
    BY <1>6, ReallocStep
  <2> HIDE DEF r
  <2> QED BY <1>1, <2>1, ResizeIs
<1>7. ASSUME NEW i \in Handles, Free(i)
      PROVE  Abstract!Release(i)
  BY <1>7, FreeStep DEF Abstract!Release, Nothing
<1>8. CASE UNCHANGED vars
  BY <1>8 DEF vars
<1>9. AlignSize = 1
  BY DEF AlignSize
<1>10. ASSUME Next
      PROVE  held' = held \/ Abstract!Next
  <2>1. ASSUME NEW i \in Handles, NEW n \in Sizes, NEW a \in Aligns \cup {1}, Abstract!Grant(i, n, a)
        PROVE  Abstract!Next
    BY <2>1 DEF Abstract!Next
  <2>2. ASSUME NEW i \in Handles, NEW n \in Sizes, Abstract!Resize(i, n)
        PROVE  Abstract!Next
    BY <2>2 DEF Abstract!Next
  <2>3. ASSUME NEW i \in Handles, Abstract!Release(i)
        PROVE  Abstract!Next
    BY <2>3 DEF Abstract!Next
  <2> QED BY <1>2, <1>3, <1>4, <1>5, <1>6, <1>7, <1>9, <1>10, <2>1, <2>2, <2>3 DEF Next
<1> QED BY <1>8, <1>10

\* The allocator implements the abstract heap: what malloc, memalign and realloc
\* hand out lies in the pool, aligned, apart from what all others hold.
THEOREM TlsfImplementsHeap ==
  ASSUME SizesFit
  PROVE  Spec => ImplementsHeap
<1>1. Init => Abstract!Init
  BY DEF Init, Abstract!Init, Nothing
<1>2. HeapInv /\ HeapInv' /\ [Next]_vars => [Abstract!Next]_held
  BY StepImplements
<1> QED BY <1>1, <1>2, HeapStaysSound, PTL DEF Spec, ImplementsHeap, Abstract!Spec
================================================================================
