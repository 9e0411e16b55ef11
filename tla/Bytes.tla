--------------------------------- MODULE Bytes ---------------------------------
(***************************************************************************)
(* The memory and string routines of stubs/syscall_shim.c, which FFmpeg is *)
(* linked against.  Memory is a function from addresses to bytes; a        *)
(* routine is a function of the memory and its arguments.  They work by    *)
(* words: an address is aligned when it is a multiple of Word, and the     *)
(* bit trick that looks for a zero byte in a word finds exactly that.      *)
(***************************************************************************)
EXTENDS Integers, Sequences, FiniteSetsExt

CONSTANTS Word,  \* bytes of a word (8)
          Large  \* size from which the string instructions are used (64)

ASSUME WordAssumption == Word \in {2, 4, 8} /\ Large \in Nat /\ Large >= Word

NotFound == -1
Aligned(p) == p % Word = 0
Span(p, n) == p .. (p + n - 1)

-----------------------------------------------------------------------------
(* Copying. *)

\* One load and one store of k bytes.
CopyChunk(m, d, s, k) == [a \in DOMAIN m |-> IF a \in Span(d, k) THEN m[s + a - d] ELSE m[a]]

\* The widest of 8, 4, 2 and 1 bytes that still fits.
Chunk(n) == Max({k \in {1, 2, 4, 8} : k <= n /\ k <= Word})

RECURSIVE CopyUp(_, _, _, _, _)
CopyUp(m, d, s, n, width) ==
  IF n = 0 THEN m
  ELSE LET k == IF width = 1 THEN 1 ELSE Chunk(n)
       IN CopyUp(CopyChunk(m, d, s, k), d + k, s + k, n - k, width)

\* Byte by byte from the addresses given towards lower ones.
RECURSIVE CopyDown(_, _, _, _)
CopyDown(m, d, s, n) ==
  IF n = 0 THEN m ELSE CopyDown(CopyChunk(m, d, s, 1), d - 1, s - 1, n - 1)

memcpy(m, d, s, n) == CopyUp(m, d, s, n, IF n >= Large THEN 1 ELSE Word)

\* Mutant: always upwards.
memmove_Up(m, d, s, n) == memcpy(m, d, s, n)

\* With the direction flag set, rep movsb starts at the addresses it is given,
\* here one past the ends of both buffers.
memmove(m, d, s, n) ==
  IF d = s THEN m
  ELSE IF d < s THEN memcpy(m, d, s, n)
  ELSE IF n >= Large THEN CopyDown(m, d + n, s + n, n)
  ELSE CopyDown(m, d + n - 1, s + n - 1, n)

RECURSIVE memset(_, _, _, _)
memset(m, d, c, n) ==
  IF n = 0 THEN m
  ELSE LET k == IF n < Large /\ n >= Word THEN Word ELSE 1
       IN memset([a \in DOMAIN m |-> IF a \in Span(d, k) THEN c % 256 ELSE m[a]],
                 d + k, c, n - k)

-----------------------------------------------------------------------------
(* Searching and comparing. *)

\* The first byte that differs in a word, or the difference of the tail.
RECURSIVE memcmp(_, _, _, _)
memcmp(m, x, y, n) ==
  LET k == IF n >= Word THEN Word ELSE 1
      apart == {i \in 0..(k - 1) : m[x + i] # m[y + i]}
  IN IF n = 0 THEN 0
     ELSE IF apart # {} THEN m[x + Min(apart)] - m[y + Min(apart)]
     ELSE memcmp(m, x + k, y + k, n - k)

RECURSIVE memchr(_, _, _, _)
memchr(m, p, c, n) ==
  LET k == IF n >= Word /\ Aligned(p) THEN Word ELSE 1
      hits == {i \in 0..(k - 1) : m[p + i] = c % 256}
  IN IF n = 0 THEN NotFound
     ELSE IF hits # {} THEN p + Min(hits)
     ELSE memchr(m, p + k, c, n - k)

RECURSIVE strlen(_, _)
strlen(m, s) ==
  LET k == IF Aligned(s) THEN Word ELSE 1
      ends == {i \in 0..(k - 1) : m[s + i] = 0}
  IN IF ends # {} THEN Min(ends) ELSE k + strlen(m, s + k)

\* Bytes until both pointers are aligned, then whole words, the last of which
\* brings whatever follows the end of the source.
RECURSIVE strcpy(_, _, _)
strcpy(m, d, s) ==
  LET k == IF Aligned(d) /\ Aligned(s) THEN Word ELSE 1
      next == CopyChunk(m, d, s, k)
  IN IF \E i \in 0..(k - 1) : m[s + i] = 0 THEN next ELSE strcpy(next, d + k, s + k)

RECURSIVE strcmp(_, _, _)
strcmp(m, a, b) ==
  IF m[a] # 0 /\ m[a] = m[b] THEN strcmp(m, a + 1, b + 1) ELSE m[a] - m[b]

RECURSIVE strncmp(_, _, _, _)
strncmp(m, a, b, n) ==
  IF n = 0 THEN 0
  ELSE IF m[a] # m[b] \/ m[a] = 0 THEN m[a] - m[b]
  ELSE strncmp(m, a + 1, b + 1, n - 1)

RECURSIVE strchr(_, _, _)
strchr(m, s, c) ==
  IF m[s] = c THEN s ELSE IF m[s] = 0 THEN NotFound ELSE strchr(m, s + 1, c)

\* Mutant: the terminator is not looked at.
RECURSIVE LastFrom(_, _, _, _)
LastFrom_NoEnd(m, s, c, r) ==
  IF m[s] = 0 THEN r ELSE LastFrom(m, s + 1, c, IF m[s] = c THEN s ELSE r)

LastFrom(m, s, c, r) ==
  LET hit == IF m[s] = c THEN s ELSE r
  IN IF m[s] = 0 THEN hit ELSE LastFrom(m, s + 1, c, hit)
strrchr(m, s, c) == LastFrom(m, s, c, NotFound)

RECURSIVE FindFrom(_, _, _, _, _, _)
FindFrom(m, p, h, hl, n, nl) ==
  LET hit == IF p <= h + hl - nl THEN memchr(m, p, m[n], (h + hl - nl + 1) - p) ELSE NotFound
  IN IF hit = NotFound THEN NotFound
     ELSE IF memcmp(m, hit, n, nl) = 0 THEN hit
     ELSE FindFrom(m, hit + 1, h, hl, n, nl)
strstr(m, h, n) ==
  IF m[n] = 0 THEN h
  ELSE IF strlen(m, n) > strlen(m, h) THEN NotFound
  ELSE FindFrom(m, h, h, strlen(m, h), n, strlen(m, n))

RECURSIVE strspn(_, _, _)
strspn(m, s, set) ==
  IF m[s] # 0 /\ strchr(m, set, m[s]) # NotFound THEN 1 + strspn(m, s + 1, set) ELSE 0

RECURSIVE strcspn(_, _, _)
strcspn(m, s, set) ==
  IF m[s] # 0 /\ strchr(m, set, m[s]) = NotFound THEN 1 + strcspn(m, s + 1, set) ELSE 0

-----------------------------------------------------------------------------
(* What the routines are for. *)

\* n bytes of m at s moved to d, and nothing else changed.
Moved(m, d, s, n) == CopyChunk(m, d, s, n)

\* The string at s, without its terminator.
Text(m, s) ==
  LET len == Min({k \in 0..(Max(DOMAIN m) - s) : m[s + k] = 0})
  IN [i \in 1..len |-> m[s + i - 1]]

Sign(x) == IF x < 0 THEN -1 ELSE IF x > 0 THEN 1 ELSE 0

\* The order of two byte sequences, a shorter one before its extensions.
Order(a, b) ==
  LET at(q, i) == IF i \in DOMAIN q THEN q[i] ELSE 0
      apart == {i \in 1..(Max({Len(a), Len(b)}) + 1) : at(a, i) # at(b, i)}
  IN IF apart = {} THEN 0 ELSE Sign(at(a, Min(apart)) - at(b, Min(apart)))

FirstOf(ps) == IF ps = {} THEN NotFound ELSE Min(ps)

\* memcpy between buffers that do not overlap, memset, and memmove, but for one
\* that is large and goes to a higher address.
CopiesRight(m, d, s, n) ==
  /\ Span(d, n) \cap Span(s, n) = {} => memcpy(m, d, s, n) = Moved(m, d, s, n)
  /\ d <= s \/ n < Large => memmove(m, d, s, n) = Moved(m, d, s, n)
  /\ memset(m, d, 257, n) = [a \in DOMAIN m |-> IF a \in Span(d, n) THEN 1 ELSE m[a]]

\* Where strcpy of a text of len bytes from a to d stops to write: behind the
\* terminator, or behind the word that holds it when both sides are aligned alike
\* and that word begins in the text.
StrcpyEnd(d, a, len) ==
  LET word == (d + len) - ((d + len) % Word)
  IN IF (d - a) % Word = 0 /\ word >= d THEN word + Word ELSE d + len + 1

\* The string routines agree with their definitions, where strcpy may copy what
\* follows the terminator up to StrcpyEnd, and nothing beyond.
StringsRight(m, a, b, d) ==
  LET ta == Text(m, a)
      tb == Text(m, b)
      copied == strcpy(m, d, a)
      cut(q, n) == SubSeq(q, 1, Min({n, Len(q)}))
      leading(A) == Cardinality({i \in DOMAIN ta : \A j \in 1..i : ta[j] \in A})
      setb == {tb[i] : i \in DOMAIN tb}
  IN /\ strlen(m, a) = Len(ta)
     /\ copied = Moved(m, d, a, StrcpyEnd(d, a, Len(ta)) - d)
     /\ Sign(strcmp(m, a, b)) = Order(ta, tb)
     /\ \A n \in 0..5 :
          /\ Sign(strncmp(m, a, b, n)) = Order(cut(ta, n), cut(tb, n))
          /\ Sign(memcmp(m, a, b, n)) = Order([i \in 1..n |-> m[a + i - 1] + 1],
                                              [i \in 1..n |-> m[b + i - 1] + 1])
     /\ \A c \in 0..2 :
          LET at == {p \in Span(a, Len(ta) + 1) : m[p] = c}
          IN /\ strchr(m, a, c) = FirstOf(at)
             /\ strrchr(m, a, c) = IF at = {} THEN NotFound ELSE Max(at)
             /\ memchr(m, a, c, Len(ta) + 1) = FirstOf(at)
     /\ strstr(m, a, b) = FirstOf({p \in Span(a, Len(ta) + 1) :
          p + Len(tb) <= a + Len(ta) /\ \A i \in DOMAIN tb : m[p + i - 1] = tb[i]})
     /\ strspn(m, a, b) = leading(setb)
     /\ strcspn(m, a, b) = leading({1, 2, 3} \ setb)
================================================================================
