----------------------------- MODULE Conversions -----------------------------
(***************************************************************************)
(* Conversions of stubs/syscall_shim.c and stubs/scanf_shim.c between a    *)
(* number and its digits.  A character is a string of length one, a text a *)
(* sequence of them; an int has IntBits bits and a long long LongBits.     *)
(***************************************************************************)
EXTENDS Integers, SequencesExt

CONSTANTS IntBits,   \* 32 in the code
          LongBits   \* 64 in the code

ASSUME WidthAssumption == IntBits \in Nat \ {0} /\ LongBits \in Nat /\ IntBits < LongBits

(* Numbers.  A directive of a format is a literal character or a conversion: *)
(* %d or %u, or %x, with a width, the flag 0 and a length modifier.          *)

Wrap(v, bits) == v % 2^bits
Signed(v, bits) == LET w == Wrap(v, bits) IN IF w < 2^(bits - 1) THEN w ELSE w - 2^bits

Figures == <<"0", "1", "2", "3", "4", "5", "6", "7", "8", "9",
             "a", "b", "c", "d", "e", "f">>

RECURSIVE Digits(_, _)
Digits(v, base) == (IF v < base THEN <<>> ELSE Digits(v \div base, base))
                   \o <<Figures[(v % base) + 1]>>

Repeat(c, n) == [i \in 1..n |-> c]


\* num: the sign goes before zeros, and is then not counted in the width any more;
\* spaces go before the sign.
Num(v, neg, base, width, zero) ==
  LET digits == Digits(v, base)
      early == zero /\ neg /\ width > Len(digits) + 1
      late  == IF neg /\ ~early THEN <<"-">> ELSE <<>>
      pad   == Repeat(IF zero THEN "0" ELSE " ", width - Len(digits) - Len(late))
  IN (IF early THEN <<"-">> ELSE <<>>) \o pad \o late \o digits

\* Two modifiers, z or j make an argument long; a lone l does not.
Big(mod) == mod \in {"ll", "z", "j"}

\* The text of one directive for an argument.
Directive(f, arg) ==
  LET bits == IF Big(f.mod) THEN LongBits ELSE IntBits
      v    == Signed(arg, bits)
  IN CASE f.verb = "d" -> Num(IF v < 0 THEN -v ELSE v, v < 0, 10, f.width, f.zero)
       [] f.verb = "u" -> Num(Wrap(arg, bits), FALSE, 10, f.width, f.zero)
       [] f.verb = "x" -> Num(Wrap(arg, bits), FALSE, 16, f.width, f.zero)

\* vsnprintf into n bytes: what the buffer holds up to its terminator, and the
\* length that the whole text would have had.
vsnprintf(n, fmt, arg) ==
  LET all == FlattenSeq([i \in DOMAIN fmt |->
               IF fmt[i].verb = "lit" THEN <<fmt[i].char>> ELSE Directive(fmt[i], arg)])
  IN [text |-> SubSeq(all, 1, Min({Len(all), n - 1})), ret |-> Len(all)]

DigitOf(c) == IF \E i \in DOMAIN Figures : Figures[i] = c
              THEN (CHOOSE i \in DOMAIN Figures : Figures[i] = c) - 1 ELSE 99

\* The number that the digits from position p on make, up to the first character
\* that is none, and the position of that character.
RECURSIVE Accumulate(_, _, _, _)
Accumulate(s, p, base, acc) ==
  IF p <= Len(s) /\ DigitOf(s[p]) < base
  THEN Accumulate(s, p + 1, base, acc * base + DigitOf(s[p]))
  ELSE [acc |-> acc, end |-> p]

SkipSpace(s) == Min({p \in 1..(Len(s) + 1) : p > Len(s) \/ s[p] # " "})
At(s, p) == IF p <= Len(s) THEN s[p] ELSE ""

\* strtoll: the value and where it ends, 1 when there is no number.
strtoll(s, base) ==
  LET sp   == SkipSpace(s)
      p    == IF At(s, sp) \in {"+", "-"} THEN sp + 1 ELSE sp
      hex  == base \in {0, 16} /\ At(s, p) = "0" /\ At(s, p + 1) = "x"
      from == IF hex THEN (IF At(s, p + 2) # "" THEN p + 2 ELSE p + 1) ELSE p
      used == IF hex THEN 16 ELSE IF base # 0 THEN base ELSE IF At(s, p) = "0" THEN 8 ELSE 10
      num  == Accumulate(s, from, used, 0)
  IN [value |-> Signed(IF At(s, sp) = "-" THEN -num.acc ELSE num.acc, LongBits),
      end |-> IF num.end > from THEN num.end ELSE 1]

\* scan_int of sscanf: fails when no character at all was taken.
ScanInt(s, base) ==
  LET sp   == SkipSpace(s)
      neg  == At(s, sp) = "-"
      p    == IF At(s, sp) \in {"+", "-"} THEN sp + 1 ELSE sp
      from == IF base = 16 /\ At(s, p) = "0" /\ At(s, p + 1) = "x"
                 /\ DigitOf(At(s, p + 2)) < 16 THEN p + 2 ELSE p
      num  == Accumulate(s, from, base, 0)
  IN [ok |-> ~(num.end = 1 \/ (neg /\ num.end = 2)),
      value |-> Signed(IF neg THEN -num.acc ELSE num.acc, LongBits), end |-> num.end]

-----------------------------------------------------------------------------
\* What an argument is to C: an int without a modifier, and 64 bits with l, ll and z.
CBits(mod) == IF mod = "" THEN IntBits ELSE LongBits
Meant(f, v) == IF f.verb = "d" THEN Signed(v, CBits(f.mod)) ELSE Wrap(v, CBits(f.mod))

\* A long under a lone l that an int, or an unsigned, does not hold.
CutLong(f, v) ==
  f.mod = "l" /\ Meant(f, v) # IF f.verb = "d" THEN Signed(v, IntBits) ELSE Wrap(v, IntBits)

\* A number printed into a buffer that has room is read back as what it is to C, by
\* strtoll and by sscanf, but for CutLong, which is printed as an int; a smaller
\* buffer holds a prefix, and the answer tells the room needed.
NumbersRight(f, v, n) ==
  LET full == vsnprintf(100, <<f>>, v)
      cut  == vsnprintf(n, <<f>>, v)
      base == IF f.verb = "x" THEN 16 ELSE 10
      back == strtoll(full.text, base)
      scan == ScanInt(full.text, base)
  IN /\ CutLong(f, v) \/ back.value = Signed(Meant(f, v), LongBits)
     /\ back.end = Len(full.text) + 1
     /\ scan.ok /\ scan.value = back.value /\ scan.end = back.end
     /\ full.ret = Len(full.text) /\ full.ret >= f.width
     /\ cut.ret = full.ret /\ Len(cut.text) < n /\ IsPrefix(cut.text, full.text)
================================================================================
