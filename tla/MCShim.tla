-------------------------------- MODULE MCShim --------------------------------
(***************************************************************************)
(* The services of the kernel that share no state, each explored by itself *)
(* in one run: "unit" says which.  A routine without state is checked on   *)
(* every input of a set, chosen initially; a service with state runs.      *)
(***************************************************************************)
EXTENDS Bytes, Sorting, Conversions, Calendar, Calibration, ClockPage, Sleeping,
        FrameBuffer, Keys, Files

CONSTANT Units  \* what to explore

VARIABLES unit, input

vars == <<unit, input, sortVars, calVars, rateVars, snapVars, sleepVars, fbVars, keyVars, fileVars>>

MCSides == {-1, 0, 1, 3, 5}
MCOffsets == {-2, 0, 1, 4}
MCBelow == -1

Texts(n) == UNION {[1..k -> {1, 2}] : k \in 0..n}

\* Two strings in a memory of 3s: a between the addresses 4 and 12, b at 17.
Laid(a, at, b) ==
  LET text(q, p, x) == IF x \in p .. (p + Len(q) - 1) THEN q[x - p + 1]
                       ELSE IF x = p + Len(q) THEN 0 ELSE 3
  IN [x \in 0..40 |-> IF x < 16 THEN text(a, at, x) ELSE text(b, 17, x)]

Copies == [d : 4..16, s : 4..16, n : 0..12]
Strings == [a : Texts(4), at : 4..7, b : Texts(2), d : 24..27]

\* Around 1970, the leap day of 2000, that 2100 lacks, and the year 0.
MCTimes == {DaySeconds * day + sod :
            day \in (-430..430) \cup (10990..11040) \cup (47520..47560)
                    \cup (-719550 .. -719450),
            sod \in {0, DaySeconds - 1}}

\* Every short array over three values, and longer ones that are in order, in the
\* opposite one, and mixed.
MCArrays ==
  UNION {[1..k -> 0..2] : k \in 0..7}
  \cup {[i \in 1..14 |-> i], [i \in 1..14 |-> 20 - i], [i \in 1..17 |-> (i * i) % 17],
        <<5, 4, 3, 2, 1, 0, 9, 8, 7, 6, 11, 10, 13>>}

Formats == [verb : {"d", "u", "x"}, width : {0, 1, 4}, zero : BOOLEAN,
            mod : {"", "l", "ll", "z"}]
Numbers == [f : Formats, n : {1, 3},
            v : -(2^(LongBits - 1)) .. (2^(LongBits - 1) - 1)]

\* One right estimate among wild ones, near and far; then every other source.
Silent == [feature |-> FALSE, live |-> FALSE, kvm |-> <<>>, leaf15 |-> 0, leaf16 |-> 0,
           rtc |-> "stopped", second |-> 0, pit |-> <<>>]
FiveOf == [1..5 -> {20, 32, 35, 41, 300}]
MCMachines ==
  {[Silent EXCEPT !.feature = TRUE, !.live = alive, !.kvm = q] : alive \in BOOLEAN, q \in FiveOf}
  \cup {[Silent EXCEPT !.pit = q] : q \in FiveOf}
  \cup {[Silent EXCEPT !.leaf15 = x, !.leaf16 = y, !.rtc = r, !.second = s, !.pit = q] :
          x \in {0, 33, 50}, y \in {0, 34}, r \in {"updating", "stopped", "ticks"},
          s \in {3, 36}, q \in {<<>>, <<30, 36, 35, 90, 3>>}}

InputsOf(u) ==
  CASE u \in {"copy", "move"} -> Copies [] u = "strings" -> Strings
    [] u = "numbers" -> Numbers
    [] OTHER -> {<<>>}

Init ==
  /\ unit \in Units /\ input \in InputsOf(unit)
  /\ SnapInit /\ FbInit /\ KeysInit /\ FilesInit
  /\ IF unit = "sort" THEN SortInit
     ELSE asked = <<>> /\ arr = <<>> /\ stack = <<>> /\ run = [at |-> "done", then |-> "pop"]
  /\ IF unit = "calendar" THEN CalInit ELSE time = 0 /\ date = gmtime(0)
  /\ IF unit = "rates" THEN RateInit
     ELSE machine = Silent /\ source = "done" /\ rate = [by |-> "default", hz |-> Default]
          /\ edge = [prev |-> 0, at |-> 0]
  /\ IF unit = "sleep" THEN SleepInit
     ELSE tsc = 0 /\ sleep = [at |-> "idle"] /\ alarm = Never

Sort == /\ unit = "sort" /\ SortNext
        /\ UNCHANGED <<unit, input, calVars, rateVars, snapVars, sleepVars, fbVars, keyVars,
                      fileVars>>
NextDate == /\ unit = "calendar" /\ NextDay
            /\ UNCHANGED <<unit, input, sortVars, rateVars, snapVars, sleepVars, fbVars, keyVars, fileVars>>
Calibrate == /\ unit = "rates" /\ RateNext
             /\ UNCHANGED <<unit, input, sortVars, calVars, snapVars, sleepVars, fbVars, keyVars, fileVars>>
Snapshot == /\ unit = "snapshot" /\ SnapNext
            /\ UNCHANGED <<unit, input, sortVars, calVars, rateVars, sleepVars, fbVars, keyVars, fileVars>>
Sleep == /\ unit = "sleep" /\ SleepNext
         /\ UNCHANGED <<unit, input, sortVars, calVars, rateVars, snapVars, fbVars, keyVars, fileVars>>
Draw == /\ unit = "draw" /\ FbNext
        /\ UNCHANGED <<unit, input, sortVars, calVars, rateVars, snapVars, sleepVars, keyVars, fileVars>>
UseKeys == /\ unit = "keys" /\ KeysNext
           /\ UNCHANGED <<unit, input, sortVars, calVars, rateVars, snapVars, sleepVars, fbVars, fileVars>>
UseFiles == /\ unit = "files" /\ FilesNext
            /\ UNCHANGED <<unit, input, sortVars, calVars, rateVars, snapVars, sleepVars, fbVars, keyVars>>

Next == Sort \/ NextDate \/ Calibrate \/ Snapshot \/ Sleep \/ Draw \/ UseKeys \/ UseFiles

\* A call of qsort runs on; the others owe nothing.
Spec == Init /\ [][Next]_vars /\ WF_vars(Sort)

-----------------------------------------------------------------------------
\* The memory of a copy: every byte is its own address.
Plain == [x \in 0..40 |-> x]

\* memcpy between buffers that do not overlap, memset, and memmove with every overlap
\* change exactly the bytes they are asked to, at every alignment; but for a memmove of
\* Large bytes or more to a higher address, which MemmoveMoves is about
\* (syscall_shim.c:147-192).
CopiesAgree == unit = "copy" => CopiesRight(Plain, input.d, input.s, input.n)

\* The string routines, which look at whole words, agree with their definitions at every
\* alignment and whatever follows the strings.  strcpy alone writes beyond what it should:
\* what follows the terminator in its word, when it copies by words
\* (syscall_shim.c:193-288).
StringsAgree ==
  unit = "strings" =>
    StringsRight(Laid(input.a, input.at, input.b), input.at, 17, input.d)


\* The comment on memmove's branch for d > s: "backward copy - use rep movsb with
\* DF=1 if large" (syscall_shim.c:182), a copy all the same.
MemmoveMoves ==
  unit = "move" =>
    memmove(Plain, input.d, input.s, input.n) = Moved(Plain, input.d, input.s, input.n)
================================================================================
