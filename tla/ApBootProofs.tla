----------------------------- MODULE ApBootProofs -----------------------------
(***************************************************************************)
(* Theorems of the bring-up of the secondary CPUs.  Types hold for every    *)
(* machine.  The online flags are true when one CPU is wanted (OneWanted)   *)
(* and there is one processor; the stacks are right when there is one       *)
(* processor, however many CPUs are wanted.  With two processors the        *)
(* broadcasts of smp_bringup break both.                                    *)
(***************************************************************************)
EXTENDS ApBoot, TLAPS

USE ApAssumption

\* The turn of the loop is for a CPU that is wanted.
InLoop == bsp \in {"code", "stack", "idx", "init", "deassert", "sipi", "send", "poll", "wait"}
TypeInv == ApBootTypeOK /\ (InLoop => i < want) /\ (bsp = "start" => i = 1)

LEMMA InitTypes == Init => TypeInv
<1> SUFFICES ASSUME Init PROVE TypeInv
  OBVIOUS
<1>1. 0 \in Ids /\ Off \in Ids \cup {Off} /\ Ids \subseteq Nat
  BY DEF Ids
<1> QED
  BY <1>1 DEF Init, TypeInv, InLoop, ApBootTypeOK

LEMMA BspTypes ==
  ASSUME TypeInv, Bsp \/ BspTakeLock \/ BspDropLock
  PROVE  TypeInv'
<1> USE DEF TypeInv, InLoop, ApBootTypeOK, Move, apVars
<1>1. Ids \subseteq Nat /\ \A k \in 1..MaxCpu : k < MaxCpu => k \in Ids
  BY DEF Ids
<1>2. \A fw \in FwCounts : Wanted(fw) \in Nat
  BY DEF Wanted
<1>3. ASSUME NoLapic \/ CountCpus \/ PatchCode PROVE TypeInv'
  <2>1. CASE NoLapic \/ PatchCode
    BY <2>1 DEF NoLapic, PatchCode
  <2>2. CASE CountCpus
    <3>1. want' \in 1..MaxCpu /\ bsp' = IF want' > 1 THEN "code" ELSE "count"
      BY <1>2, <2>2 DEF CountCpus
    <3>2. bsp = "start" /\ i' = i
      BY <2>2 DEF CountCpus
    <3>3. i' < want' \/ bsp' = "count"
      BY <3>1, <3>2
    <3> QED
      BY <2>2, <3>1, <3>2, <3>3 DEF CountCpus
  <2> QED
    BY <1>3, <2>1, <2>2
<1>4. ASSUME PatchStack \/ PatchIdx PROVE TypeInv'
  <2>1. i \in Ids
    BY <1>1, <1>4 DEF PatchStack, PatchIdx
  <2> QED
    BY <1>4, <2>1 DEF PatchStack, PatchIdx
<1>5. ASSUME SendInit \/ SendSipi PROVE TypeInv'
  BY <1>5 DEF SendInit, SendSipi
<1>6. ASSUME Deassert \/ NextSipi \/ PollEnds \/ NoMoreSipi \/ ApTimeout \/ CountOnline
      PROVE  TypeInv'
  BY <1>6 DEF Deassert, NextSipi, PollEnds, NoMoreSipi, ApTimeout, CountOnline
<1>7. ASSUME ApOnline PROVE TypeInv'
  BY <1>7 DEF ApOnline
<1>8. ASSUME BspTakeLock \/ BspDropLock PROVE TypeInv'
  BY <1>8 DEF BspTakeLock, BspDropLock, bspVars
<1> QED
  BY <1>3, <1>4, <1>5, <1>6, <1>7, <1>8 DEF Bsp

LEMMA ApTypes ==
  ASSUME TypeInv, NEW a \in APs, Ap(a)
  PROVE  TypeInv'
<1> USE DEF TypeInv, InLoop, ApBootTypeOK, Run, bspVars
<1>1. ASSUME LoadTables(a) \/ ReadStack(a) \/ ReadIdx(a) PROVE TypeInv'
  BY <1>1 DEF LoadTables, ReadStack, ReadIdx
<1>2. ASSUME Enter(a) \/ EnableLapic(a) \/ RaiseOnline(a) PROVE TypeInv'
  BY <1>2 DEF Enter, EnableLapic, RaiseOnline
<1>3. ASSUME TakeLock(a) \/ DropLock(a) PROVE TypeInv'
  BY <1>3 DEF TakeLock, DropLock
<1> QED
  BY <1>1, <1>2, <1>3 DEF Ap

LEMMA TypesStep == TypeInv /\ [Next]_vars => TypeInv'
<1> SUFFICES ASSUME TypeInv, [Next]_vars PROVE TypeInv'
  OBVIOUS
<1>1. CASE UNCHANGED vars
  BY <1>1 DEF vars, bspVars, apVars, TypeInv, InLoop, ApBootTypeOK
<1> QED
  BY <1>1, BspTypes, ApTypes DEF Next

\* Types, for any number of processors and whatever fw_cfg answers: the indices that
\* smp_bringup and ap_entry use are those of kcpus.
THEOREM ApBootTyped == Spec => []ApBootTypeOK
<1>1. TypeInv => ApBootTypeOK
  BY DEF TypeInv
<1> QED
  BY <1>1, InitTypes, TypesStep, PTL DEF Spec

-----------------------------------------------------------------------------
(***************************************************************************)
(* At most one CPU is wanted: the loop makes one turn, and every processor *)
(* that starts finds the finished block of that turn.                      *)
(***************************************************************************)
OneWanted == \A fw \in FwCounts : Wanted(fw) <= 2 \/ Wanted(fw) > MaxCpu

Past(a, places) == ap[a] \in places
Running == {"entry", "lapic", "online", "loop", "locked", "hlt"}
Sent == {"deassert", "sipi", "send", "poll", "wait", "count", "done"}

BlockInv ==
  /\ want <= 2
  /\ InLoop => i = 1 /\ want = 2
  /\ bsp \in {"stack", "idx", "init"} => param.code
  /\ bsp \in {"idx", "init"} => param.stack = 1
  /\ bsp = "init" => param.idx = 1

StartInv ==
  \A a \in APs :
    /\ ap[a] # "bios" =>
         want = 2 /\ bsp \in Sent /\ param.code /\ param.stack = 1 /\ param.idx = 1
    /\ ap[a] \in {"long", "stacked"} \cup Running => mapped[a]
    /\ ap[a] \in {"stacked"} \cup Running => sp[a] = 1
    /\ ap[a] \in Running => edi[a] = 1

OneInv == TypeInv /\ BlockInv /\ StartInv

LEMMA BlockStep ==
  ASSUME OneWanted, OneInv, Next
  PROVE  BlockInv'
<1> USE DEF OneInv, BlockInv, InLoop, Move, apVars, bspVars
<1>1. ASSUME NoLapic \/ CountCpus PROVE BlockInv'
  <2>1. \A fw \in FwCounts : Wanted(fw) \in Nat
    BY DEF Wanted
  <2> QED
    BY <1>1, <2>1 DEF NoLapic, CountCpus, OneWanted, TypeInv
<1>2. ASSUME PatchCode \/ PatchStack \/ PatchIdx PROVE BlockInv'
  BY <1>2 DEF PatchCode, PatchStack, PatchIdx, TypeInv, ApBootTypeOK
<1>3. ASSUME \/ SendInit \/ Deassert \/ NextSipi \/ SendSipi \/ PollEnds \/ NoMoreSipi
             \/ ApOnline \/ ApTimeout \/ CountOnline
      PROVE  BlockInv'
  BY <1>3 DEF SendInit, Deassert, NextSipi, SendSipi, PollEnds, NoMoreSipi, ApOnline,
     ApTimeout, CountOnline
<1>4. ASSUME BspTakeLock \/ BspDropLock \/ \E a \in APs : Ap(a) PROVE BlockInv'
  BY <1>4 DEF BspTakeLock, BspDropLock, Ap, LoadTables, ReadStack, ReadIdx, Enter,
     EnableLapic, RaiseOnline, TakeLock, DropLock
<1> QED
  BY <1>1, <1>2, <1>3, <1>4 DEF Next, Bsp

LEMMA StartStep ==
  ASSUME OneInv, Next
  PROVE  StartInv'
<1> USE DEF OneInv, StartInv, Running, Sent
<1>1. ASSUME NoLapic \/ CountCpus \/ PatchCode \/ PatchStack \/ PatchIdx PROVE StartInv'
  <2>1. \A a \in APs : ap[a] = "bios"
    BY <1>1 DEF NoLapic, CountCpus, PatchCode, PatchStack, PatchIdx, Move
  <2> QED
    BY <1>1, <2>1 DEF NoLapic, CountCpus, PatchCode, PatchStack, PatchIdx, Move, apVars
<1>2. ASSUME SendInit PROVE StartInv'
  BY <1>2 DEF SendInit, Move, BlockInv, InLoop
<1>3. ASSUME SendSipi PROVE StartInv'
  BY <1>3 DEF SendSipi, Move
<1>4. ASSUME \/ Deassert \/ NextSipi \/ PollEnds \/ NoMoreSipi
             \/ ApTimeout \/ CountOnline \/ ApOnline
      PROVE  StartInv'
  BY <1>4 DEF Deassert, NextSipi, PollEnds, NoMoreSipi, ApTimeout, CountOnline, ApOnline,
     Move, apVars, BlockInv, InLoop
<1>5. ASSUME BspTakeLock \/ BspDropLock PROVE StartInv'
  BY <1>5 DEF BspTakeLock, BspDropLock, apVars, bspVars
<1>6. ASSUME NEW b \in APs, Ap(b) PROVE StartInv'
  <2> USE DEF TypeInv, ApBootTypeOK, Run, bspVars
  <2>1. ASSUME LoadTables(b) PROVE StartInv'
    BY <2>1 DEF LoadTables
  <2>2. ASSUME ReadStack(b) PROVE StartInv'
    BY <2>2 DEF ReadStack
  <2>3. ASSUME ReadIdx(b) PROVE StartInv'
    BY <2>3 DEF ReadIdx
  <2>4. ASSUME \/ Enter(b) \/ EnableLapic(b) \/ RaiseOnline(b) \/ TakeLock(b) \/ DropLock(b)
        PROVE  StartInv'
    BY <2>4 DEF Enter, EnableLapic, RaiseOnline, TakeLock, DropLock
  <2> QED
    BY <1>6, <2>1, <2>2, <2>3, <2>4 DEF Ap
<1> QED
  BY <1>1, <1>2, <1>3, <1>4, <1>5, <1>6 DEF Next, Bsp

LEMMA OneInvariant ==
  ASSUME OneWanted
  PROVE  Spec => []OneInv
<1>1. Init => OneInv
  BY InitTypes DEF Init, OneInv, BlockInv, InLoop, StartInv, Running
<1>2. OneInv /\ [Next]_vars => OneInv'
  <2>1. ASSUME OneInv, Next PROVE OneInv'
    BY <2>1, TypesStep, BlockStep, StartStep DEF OneInv
  <2>2. ASSUME OneInv, UNCHANGED vars PROVE OneInv'
    BY <2>2 DEF vars, bspVars, apVars, OneInv, TypeInv, InLoop, ApBootTypeOK, BlockInv,
       StartInv
  <2> QED
    BY <2>1, <2>2
<1> QED
  BY <1>1, <1>2, PTL DEF Spec

-----------------------------------------------------------------------------
(***************************************************************************)
(* With one processor the online flag is true as well; a second one that   *)
(* starts as the same CPU would initialise that CPU again under the flag.  *)
(***************************************************************************)
FlagInv ==
  /\ \A a \in APs : ap[a] \in {"online", "loop", "locked", "hlt"} => ready[1] = "all"
  /\ \A k \in Ids \ {0} :
       online[k] => k = 1 /\ \E a \in APs : ap[a] \in {"loop", "locked", "hlt"}

LEMMA FlagStep ==
  ASSUME OneInv, FlagInv, NEW x, APs = {x}, Next
  PROVE  FlagInv'
<1> USE DEF OneInv, FlagInv, TypeInv, ApBootTypeOK
<1>1. ASSUME SendInit \/ SendSipi PROVE FlagInv'
  <2>1. SendInit => \A k \in Ids \ {0} : ~online[k]
    BY DEF SendInit, Move, StartInv, Sent
  <2> QED
    BY <1>1, <2>1 DEF SendInit, SendSipi
<1>2. ASSUME PatchIdx PROVE FlagInv'
  BY <1>2 DEF PatchIdx, apVars
<1>3. ASSUME \/ NoLapic \/ CountCpus \/ PatchCode \/ PatchStack \/ Deassert
             \/ NextSipi \/ PollEnds \/ NoMoreSipi \/ ApOnline \/ ApTimeout \/ CountOnline
      PROVE  FlagInv'
  BY <1>3 DEF NoLapic, CountCpus, PatchCode, PatchStack, Deassert, NextSipi,
     PollEnds, NoMoreSipi, ApOnline, ApTimeout, CountOnline, apVars
<1>4. ASSUME BspTakeLock \/ BspDropLock PROVE FlagInv'
  BY <1>4 DEF BspTakeLock, BspDropLock, apVars
<1>5. ASSUME Ap(x) PROVE FlagInv'
  <2> USE DEF Run
  <2>1. ASSUME LoadTables(x) \/ ReadStack(x) \/ ReadIdx(x) PROVE FlagInv'
    BY <2>1 DEF LoadTables, ReadStack, ReadIdx
  <2>2. 1 \in Ids \/ ap[x] = "bios"
    BY DEF StartInv, Ids
  <2>3. ASSUME Enter(x) PROVE FlagInv'
    BY <2>3 DEF Enter
  <2>4. ASSUME EnableLapic(x) PROVE FlagInv'
    BY <2>2, <2>4 DEF EnableLapic, StartInv, Running
  <2>5. ASSUME RaiseOnline(x) PROVE FlagInv'
    BY <2>2, <2>5 DEF RaiseOnline, StartInv, Running
  <2>6. ASSUME TakeLock(x) \/ DropLock(x) PROVE FlagInv'
    BY <2>6 DEF TakeLock, DropLock
  <2> QED
    BY <1>5, <2>1, <2>3, <2>4, <2>5, <2>6 DEF Ap
<1> QED
  BY <1>1, <1>2, <1>3, <1>4, <1>5 DEF Next, Bsp

\* kcpus[].online is raised only for a CPU that a processor has initialised and on
\* which it has reached the scheduler.
THEOREM ApBootOnlineIsTrue ==
  ASSUME OneWanted, NEW x, APs = {x}
  PROVE  Spec => []OnlineIsTrue
<1>1. Init => FlagInv
  BY DEF Init, FlagInv
<1>2. OneInv /\ FlagInv /\ [Next]_vars => FlagInv'
  <2>1. ASSUME OneInv, FlagInv, UNCHANGED vars PROVE FlagInv'
    BY <2>1 DEF vars, apVars, FlagInv
  <2> QED
    BY <2>1, FlagStep
<1>3. OneInv /\ FlagInv => OnlineIsTrue
  BY DEF OneInv, FlagInv, OnlineIsTrue, StartInv, Running, Entered
<1> QED
  BY <1>1, <1>2, <1>3, OneInvariant, PTL DEF Spec
-----------------------------------------------------------------------------
(***************************************************************************)
(* One processor, started as one CPU after another: the loop makes as many  *)
(* turns as it likes, and each patches the block, and sends the processor   *)
(* an INIT, only when the processor has read the block of the turn before   *)
(* and reached the scheduler.                                               *)
(***************************************************************************)
Idling == {"loop", "locked", "hlt"}

\* What the block holds in a turn of the loop.
TurnBlock ==
  /\ bsp \in {"stack", "idx", "init"} => param.code
  /\ bsp \in {"idx", "init"} => param.stack = i
  /\ bsp = "init" => param.idx = i /\ ~online[i]
  /\ bsp \in {"deassert", "sipi", "send", "poll", "wait"} =>
       param.code /\ param.stack = i /\ param.idx = i

\* Where processor x may be when the boot CPU is there.
TurnPlaces(x) ==
  /\ bsp = "start" => ap[x] = "bios"
  /\ bsp \in {"code", "stack", "idx", "init"} => ap[x] \in {"bios"} \cup Idling
  /\ bsp \in {"deassert", "sipi", "send", "poll", "wait"} /\ online[i] => ap[x] \in Idling
  /\ ap[x] \in {"sipi", "tramp", "long", "stacked"} =>
       param.code /\ param.stack \in 1..(want - 1) /\ param.idx = param.stack

\* What processor x has read of the block.
TurnRead(x) ==
  /\ ap[x] \in {"long", "stacked"} \cup Running => mapped[x]
  /\ ap[x] \in {"stacked"} \cup Running => sp[x] \in 1..(want - 1)
  /\ ap[x] = "stacked" => sp[x] = param.stack
  /\ ap[x] \in Running => edi[x] = sp[x]

TurnInv(x) == TypeInv /\ TurnBlock /\ TurnPlaces(x) /\ TurnRead(x)

LEMMA TurnStep ==
  ASSUME NEW x, APs = {x}, TurnInv(x), Next
  PROVE  (TurnBlock /\ TurnPlaces(x) /\ TurnRead(x))'
<1> DEFINE Goal == (TurnBlock /\ TurnPlaces(x) /\ TurnRead(x))'
<1> SUFFICES Goal
  OBVIOUS
<1> USE DEF TurnInv, TypeInv, InLoop, ApBootTypeOK, TurnBlock, TurnPlaces, TurnRead, Idling,
        Running, Move, Run
<1>1. ASSUME NoLapic \/ CountCpus PROVE Goal
  BY <1>1 DEF NoLapic, CountCpus, apVars
<1>2. ASSUME PatchCode PROVE Goal
  BY <1>2 DEF PatchCode, apVars
<1>3. ASSUME PatchStack PROVE Goal
  BY <1>3 DEF PatchStack, apVars
<1>4. ASSUME PatchIdx PROVE Goal
  <2>1. i \in Ids /\ ~online'[i]
    BY <1>4 DEF PatchIdx, Ids
  <2> QED
    BY <1>4, <2>1 DEF PatchIdx, apVars
<1>5. ASSUME SendInit PROVE Goal
  <2>1. ap'[x] = "sipi"
    BY <1>5 DEF SendInit
  <2> QED
    BY <1>5, <2>1 DEF SendInit
<1>6. ASSUME SendSipi PROVE Goal
  <2>1. ap'[x] = IF ap[x] = "sipi" THEN "tramp" ELSE ap[x]
    BY <1>6 DEF SendSipi
  <2> QED
    BY <1>6, <2>1 DEF SendSipi
<1>7. ASSUME Deassert \/ NextSipi \/ PollEnds \/ NoMoreSipi \/ ApTimeout \/ CountOnline
      PROVE  Goal
  BY <1>7 DEF Deassert, NextSipi, PollEnds, NoMoreSipi, ApTimeout, CountOnline, apVars
<1>8. ASSUME ApOnline PROVE Goal
  BY <1>8 DEF ApOnline, apVars
<1>9. ASSUME BspTakeLock \/ BspDropLock PROVE Goal
  BY <1>9 DEF BspTakeLock, BspDropLock, bspVars, apVars
<1>10. ASSUME Ap(x) PROVE Goal
  <2> USE DEF bspVars
  <2>1. ASSUME LoadTables(x) PROVE Goal
    BY <2>1 DEF LoadTables
  <2>2. ASSUME ReadStack(x) PROVE Goal
    BY <2>2 DEF ReadStack
  <2>3. ASSUME ReadIdx(x) PROVE Goal
    BY <2>3 DEF ReadIdx
  <2>4. ASSUME Enter(x) \/ EnableLapic(x) PROVE Goal
    BY <2>4 DEF Enter, EnableLapic
  <2>5. ASSUME RaiseOnline(x) PROVE Goal
    BY <2>5 DEF RaiseOnline
  <2>6. ASSUME TakeLock(x) \/ DropLock(x) PROVE Goal
    BY <2>6 DEF TakeLock, DropLock
  <2> QED
    BY <1>10, <2>1, <2>2, <2>3, <2>4, <2>5, <2>6 DEF Ap
<1> HIDE DEF Goal
<1> QED
  BY <1>1, <1>2, <1>3, <1>4, <1>5, <1>6, <1>7, <1>8, <1>9, <1>10 DEF Next, Bsp

\* A processor that is alone besides the boot CPU enters the kernel on the stack of the
\* CPU whose index it has, with the tables of a finished block, as often as smp_bringup
\* resets it and starts it again for a further CPU, however late it is in each turn.
THEOREM ApBootOwnStack ==
  ASSUME NEW x, APs = {x}
  PROVE  Spec => []OwnStack
<1>1. Init => TurnInv(x)
  BY InitTypes DEF Init, TurnInv, TurnBlock, TurnPlaces, TurnRead, Running
<1>2. TurnInv(x) /\ [Next]_vars => TurnInv(x)'
  <2>1. ASSUME TurnInv(x), Next PROVE TurnInv(x)'
    BY <2>1, TypesStep, TurnStep DEF TurnInv
  <2>2. ASSUME TurnInv(x), UNCHANGED vars PROVE TurnInv(x)'
    BY <2>2 DEF vars, bspVars, apVars, TurnInv, TypeInv, InLoop, ApBootTypeOK, TurnBlock,
       TurnPlaces, TurnRead
  <2> QED
    BY <2>1, <2>2
<1>3. TurnInv(x) => OwnStack
  BY DEF TurnInv, TurnRead, Running, OwnStack, Entered
<1> QED
  BY <1>1, <1>2, <1>3, PTL DEF Spec
================================================================================
