------------------------------- MODULE ApBoot -------------------------------
(***************************************************************************)
(* Bring-up of the secondary CPUs: smp_bringup (src/smp/apboot.c) on the   *)
(* boot CPU, the trampoline (src/smp/tramp.S) and ap_entry (src/smp/       *)
(* core.c) on the others.  They share one parameter block in low memory,   *)
(* the kcpus array, and, once up, the scheduler's lock.                    *)
(*                                                                         *)
(* External: an INIT puts every other processor into wait-for-SIPI         *)
(* whatever it is doing; a SIPI starts those that wait for one and is      *)
(* ignored by the rest; the level deassert of line 216 has no effect.  The *)
(* delay loops take any time at all, and a processor may be slower.        *)
(***************************************************************************)
EXTENDS Integers

CONSTANTS APs,      \* the processors there are besides the boot CPU
          FwCounts, \* possible <<NB_CPUS, MAX_CPUS>> answers of fw_cfg
          MaxCpu    \* SMP_MAX_CPU

ASSUME ApAssumption == /\ MaxCpu \in Nat \ {0} /\ FwCounts \subseteq Nat \X Nat
                       /\ APs \cap {"bsp", "free"} = {}

Ids == 0..(MaxCpu - 1)    \* indices of kcpus
Off == -1                 \* no index, no stack

VARIABLES
  bsp,      \* where smp_bringup is
  want, i, attempt,                      \* its locals
  param,    \* the parameter block: code (ap_entry, CR3 and the GDT descriptor,
            \* the same in every turn) is there or not, stack, idx
  online,   \* kcpus[].online
  ready,    \* kcpus[].id, boot_thr, cur written and the LAPIC enabled
  ncpu,     \* kncpu_online
  ap,       \* where each processor is
  sp, edi,  \* its stack (the index of the kcpu that owns it) and CPU index
  mapped,   \* it has loaded a GDT, CR3 and entry point that were patched in
  lock      \* kth_sched_lock: the processor that took it, "bsp" or "free"

bspVars == <<bsp, want, i, attempt, ncpu>>
apVars  == <<ap, sp, edi, mapped>>
vars    == <<bspVars, apVars, param, online, ready, lock>>

ApBootTypeOK ==
  /\ bsp     \in {"start", "code", "stack", "idx", "init", "deassert", "sipi",
                  "send", "poll", "wait", "count", "done"}
  /\ want    \in 1..MaxCpu
  /\ i       \in 1..MaxCpu
  /\ attempt \in 0..2
  /\ param   \in [code : BOOLEAN, stack : Ids \cup {Off}, idx : Ids \cup {Off}]
  /\ online  \in [Ids -> BOOLEAN]
  /\ ready   \in [Ids -> {"no", "thread", "all"}]
  /\ ncpu    \in 1..MaxCpu
  /\ ap      \in [APs -> {"bios", "sipi", "tramp", "long", "stacked", "entry",
                          "lapic", "online", "loop", "locked", "hlt"}]
  /\ sp      \in [APs -> Ids \cup {Off}]
  /\ edi     \in [APs -> Ids \cup {Off}]
  /\ mapped  \in [APs -> BOOLEAN]
  /\ lock    \in APs \cup {"bsp", "free"}

Init ==
  /\ bsp     = "start"
  /\ want    = 1 /\ i = 1 /\ attempt = 0
  /\ param   = [code |-> FALSE, stack |-> Off, idx |-> Off]
  /\ online  = [k \in Ids |-> k = 0]       \* sched_init_bsp
  /\ ready   = [k \in Ids |-> "no"]
  /\ ncpu    = 1
  /\ ap      = [a \in APs |-> "bios"]
  /\ sp      = [a \in APs |-> Off]
  /\ edi     = [a \in APs |-> Off]
  /\ mapped  = [a \in APs |-> FALSE]
  /\ lock    = "free"

-----------------------------------------------------------------------------
\* A step of smp_bringup, and one of processor a.
Move(p, q) == bsp = p /\ bsp' = q
Run(a, p, q) == ap[a] = p /\ ap' = [ap EXCEPT ![a] = q]

\* smp_bringup.  Without a LAPIC it returns at once.
NoLapic ==
  /\ Move("start", "done")
  /\ UNCHANGED <<want, i, attempt, ncpu, apVars, param, online, ready, lock>>

Wanted(fw) == IF fw[2] > fw[1] THEN fw[2] ELSE fw[1]

\* Mutant: the answer of fw_cfg is not compared with SMP_MAX_CPU.
CountCpus_NoClamp ==
  /\ bsp = "start"
  /\ \E fw \in FwCounts :
       /\ want' = IF Wanted(fw) = 0 THEN 1 ELSE Wanted(fw)
       /\ bsp' = IF want' > 1 THEN "code" ELSE "count"
  /\ UNCHANGED <<i, attempt, ncpu, apVars, param, online, ready, lock>>

\* The larger of the two counts; one that kcpus has no room for means one CPU.
CountCpus ==
  /\ bsp = "start"
  /\ \E fw \in FwCounts :
       /\ want' = IF Wanted(fw) \in 1..MaxCpu THEN Wanted(fw) ELSE 1
       /\ bsp' = IF want' > 1 THEN "code" ELSE "count"
  /\ UNCHANGED <<i, attempt, ncpu, apVars, param, online, ready, lock>>

\* One turn of the loop for kcpus[i]: the parameter block ...
PatchCode ==
  /\ Move("code", "stack")
  /\ param' = [param EXCEPT !.code = TRUE]
  /\ UNCHANGED <<want, i, attempt, ncpu, apVars, online, ready, lock>>

\* Mutant: the stack of the next CPU.
PatchStack_Next ==
  /\ Move("stack", "idx")
  /\ param' = [param EXCEPT !.stack = (i + 1) % MaxCpu]
  /\ UNCHANGED <<want, i, attempt, ncpu, apVars, online, ready, lock>>

PatchStack ==
  /\ Move("stack", "idx")
  /\ param' = [param EXCEPT !.stack = i]
  /\ UNCHANGED <<want, i, attempt, ncpu, apVars, online, ready, lock>>

PatchIdx ==
  /\ Move("idx", "init")
  /\ param' = [param EXCEPT !.idx = i]
  /\ online' = [online EXCEPT ![i] = FALSE]
  /\ UNCHANGED <<want, i, attempt, ncpu, apVars, ready, lock>>

\* ... INIT to all processors but this one ...
SendInit ==
  /\ Move("init", "deassert")
  /\ ap' = [a \in APs |-> "sipi"]
  /\ UNCHANGED <<want, i, attempt, ncpu, sp, edi, mapped, param, online, ready, lock>>

Deassert ==
  /\ Move("deassert", "sipi")
  /\ attempt' = 0
  /\ UNCHANGED <<want, i, ncpu, apVars, param, online, ready, lock>>

\* ... up to two SIPIs, while the flag is not up ...
NextSipi ==
  /\ Move("sipi", "send")
  /\ attempt < 2 /\ ~online[i]
  /\ attempt' = attempt + 1
  /\ UNCHANGED <<want, i, ncpu, apVars, param, online, ready, lock>>

SendSipi ==
  /\ Move("send", "poll")
  /\ ap' = [a \in APs |-> IF ap[a] = "sipi" THEN "tramp" ELSE ap[a]]
  /\ UNCHANGED <<want, i, attempt, ncpu, sp, edi, mapped, param, online, ready, lock>>

\* ... each followed by a bounded poll of the flag ...
PollEnds ==
  /\ Move("poll", "sipi")
  /\ UNCHANGED <<want, i, attempt, ncpu, apVars, param, online, ready, lock>>

NoMoreSipi ==
  /\ Move("sipi", "wait")
  /\ attempt = 2 \/ online[i]
  /\ UNCHANGED <<want, i, attempt, ncpu, apVars, param, online, ready, lock>>

\* ... and a long wait, which ends with the flag ...
ApOnline ==
  /\ bsp = "wait"
  /\ online[i]
  /\ i' = i + 1
  /\ bsp' = IF i + 1 < want THEN "code" ELSE "count"
  /\ UNCHANGED <<want, attempt, ncpu, apVars, param, online, ready, lock>>

\* Mutant: the wait starts over.
ApTimeout_Retry ==
  /\ Move("wait", "sipi")
  /\ ~online[i]
  /\ attempt' = 0
  /\ UNCHANGED <<want, i, ncpu, apVars, param, online, ready, lock>>

\* ... or with a timeout, which ends the loop too.
ApTimeout ==
  /\ Move("wait", "count")
  /\ ~online[i]
  /\ UNCHANGED <<want, i, attempt, ncpu, apVars, param, online, ready, lock>>

\* kncpu_online = want, on both ways out.
CountOnline ==
  /\ Move("count", "done")
  /\ ncpu' = want
  /\ UNCHANGED <<want, i, attempt, apVars, param, online, ready, lock>>

-----------------------------------------------------------------------------
\* A processor that a SIPI has started: the trampoline loads the GDT and CR3
\* from the block and enters long mode ...
LoadTables(a) ==
  /\ Run(a, "tramp", "long")
  /\ mapped' = [mapped EXCEPT ![a] = param.code]
  /\ UNCHANGED <<bspVars, sp, edi, param, online, ready, lock>>

\* ... reads its stack ...
ReadStack(a) ==
  /\ Run(a, "long", "stacked")
  /\ sp' = [sp EXCEPT ![a] = param.stack]
  /\ UNCHANGED <<bspVars, edi, mapped, param, online, ready, lock>>

\* ... and the index, and calls ap_entry ...
ReadIdx(a) ==
  /\ Run(a, "stacked", "entry")
  /\ edi' = [edi EXCEPT ![a] = param.idx]
  /\ UNCHANGED <<bspVars, sp, mapped, param, online, ready, lock>>

\* Mutant: ap_entry raises the online flag before anything else.
Enter_OnlineFirst(a) ==
  /\ Run(a, "entry", "lapic")
  /\ online' = [online EXCEPT ![edi[a]] = TRUE]
  /\ ready' = [ready EXCEPT ![edi[a]] = "thread"]
  /\ UNCHANGED <<bspVars, sp, edi, mapped, param, lock>>

\* ... which sets GS, id, boot_thr and cur of its kcpu ...
Enter(a) ==
  /\ Run(a, "entry", "lapic")
  /\ ready' = [ready EXCEPT ![edi[a]] = "thread"]
  /\ UNCHANGED <<bspVars, sp, edi, mapped, param, online, lock>>

\* ... lapic_enable ...
EnableLapic(a) ==
  /\ Run(a, "lapic", "online")
  /\ ready' = [ready EXCEPT ![edi[a]] = "all"]
  /\ UNCHANGED <<bspVars, sp, edi, mapped, param, online, lock>>

\* ... the flag, and sched_loop_idle_forever ...
RaiseOnline(a) ==
  /\ Run(a, "online", "loop")
  /\ online' = [online EXCEPT ![edi[a]] = TRUE]
  /\ UNCHANGED <<bspVars, sp, edi, mapped, param, ready, lock>>

\* ... which takes the scheduler's lock, finds the run queue empty, gives the
\* lock back and halts.  (Sched.tla has the rest of it.)
TakeLock(a) ==
  /\ Run(a, "loop", "locked")
  /\ lock = "free"
  /\ lock' = a
  /\ UNCHANGED <<bspVars, sp, edi, mapped, param, online, ready>>

DropLock(a) ==
  /\ Run(a, "locked", "hlt")
  /\ lock' = "free"
  /\ UNCHANGED <<bspVars, sp, edi, mapped, param, online, ready>>

\* After smp_bringup the boot CPU uses the scheduler too.
BspTakeLock ==
  /\ bsp = "done"
  /\ lock = "free"
  /\ lock' = "bsp"
  /\ UNCHANGED <<bspVars, apVars, param, online, ready>>

BspDropLock ==
  /\ lock = "bsp"
  /\ lock' = "free"
  /\ UNCHANGED <<bspVars, apVars, param, online, ready>>

-----------------------------------------------------------------------------
Bsp ==
  \/ NoLapic \/ CountCpus \/ PatchCode \/ PatchStack \/ PatchIdx
  \/ SendInit \/ Deassert \/ NextSipi \/ SendSipi \/ PollEnds
  \/ NoMoreSipi \/ ApOnline \/ ApTimeout \/ CountOnline

Ap(a) ==
  \/ LoadTables(a) \/ ReadStack(a) \/ ReadIdx(a) \/ Enter(a)
  \/ EnableLapic(a) \/ RaiseOnline(a) \/ TakeLock(a) \/ DropLock(a)

Next == Bsp \/ BspTakeLock \/ BspDropLock \/ \E a \in APs : Ap(a)

\* The boot CPU executes; nothing is assumed of the processors it waits for.
Spec == Init /\ [][Next]_vars /\ WF_vars(Bsp)

-----------------------------------------------------------------------------
\* A processor in ap_entry or the scheduler executes as a CPU that smp_bringup
\* meant to start, on the stack of that CPU: the block it read was complete
\* and is not the block of another turn of the loop.
Entered == {a \in APs : ap[a] \in {"entry", "lapic", "online", "loop",
                                   "locked", "hlt"}}
OwnStack ==
  \A a \in Entered : mapped[a] /\ edi[a] \in 1..(want - 1) /\ sp[a] = edi[a]

\* An online flag tells the truth: a processor has initialised that kcpu and
\* is in the scheduler.
OnlineIsTrue ==
  \A k \in Ids \ {0} : online[k] =>
    /\ ready[k] = "all"
    /\ \E a \in Entered : edi[a] = k /\ ap[a] \in {"loop", "locked", "hlt"}

\* "bring APs up one by one" (apboot.c:2-3): no two processors execute as the
\* same CPU.
OneByOne == \A a, b \in Entered : edi[a] = edi[b] => a = b

\* smp_bringup returns though a CPU that fw_cfg announces never comes up.
BringupEnds == <>(bsp = "done")
=============================================================================
