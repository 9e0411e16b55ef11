------------------------------- MODULE Sched -------------------------------
(***************************************************************************)
(* The cooperative SMP scheduler of src/smp/core.c: one global run queue,  *)
(* context switches, thread creation and exit, and the hlt idle loop.      *)
(* Its callers (the futex and pthread layers) are arbitrary here: a thread *)
(* that executes outside the scheduler may make any call at any time.      *)
(*                                                                         *)
(* Grain.  A critical section under kth_sched_lock is one step.  Outside   *)
(* of it every read or write of pool_n, of a state or of an sp that        *)
(* another CPU can see is a step of its own.  Memory is sequentially       *)
(* consistent.                                                             *)
(*                                                                         *)
(* Undefined behaviour.  fault is set by the step that first resumes a     *)
(* context that is not suspended, links a linked thread again or writes to *)
(* a slot that another kthread_spawn has already started.  That step has   *)
(* its effect; what a machine does afterwards is not described, and no     *)
(* step follows it.                                                        *)
(***************************************************************************)
EXTENDS Integers, Sequences, SequencesExt

CONSTANTS NCpu,     \* CPUs that run the scheduler, the BSP included
          MaxThr    \* SMP_MAX_THR, size of the thread pool

ASSUME SchedAssumption == NCpu \in Nat \ {0} /\ MaxThr \in Nat \ {0}

CPUs     == 0..(NCpu - 1)
BSP      == 0
Pool     == 1..MaxThr             \* pool[tid-1], named by its 1-based handle
BootThr  == (1 - NCpu)..0         \* -c is the boot_thr of CPU c, 0 is bsp_thr
Threads  == BootThr \cup Pool
NoThread == MaxThr + 1            \* the null struct kthread pointer

States == {"EMPTY", "RUNNABLE", "RUNNING", "WAITING", "DONE"}

\* Where a context is.  "run": outside the scheduler.  clear .. kick: inside
\* kthread_spawn or kth_exit_impl.  check .. hlt: inside sched_switch_away.
Places == {"run", "clear", "frame", "count", "wake", "kick",
           "check", "pop", "set", "load", "switch", "hlt"}

VARIABLES
  state,    \* kthread.state
  joiner,   \* kthread.joiner
  rq,       \* the list from rq_head to rq_tail
  pool_n,   \* pool slots handed out
  cur,      \* gs:[0] of each CPU: the thread whose stack it executes on
  nxt,      \* sched_switch_away's local next, of each context
  fresh,    \* the next->sp a context has read is that of a suspended context
  irq,      \* an interrupt is pending at the CPU's local APIC
  at,       \* the Place of each context
  target,   \* the thread a context is about to make runnable
  disp,     \* contexts that never leave sched_loop_idle_forever again
  saved,    \* kthread.sp holds a suspended context (or the bootstrap frame)
  fault     \* undefined behaviour the machine has run into

vars == <<state, joiner, rq, pool_n, cur, nxt, fresh, irq, at, target, disp,
          saved, fault>>

TypeOK ==
  /\ state  \in [Threads -> States]
  /\ joiner \in [Threads -> Threads \cup {NoThread}]
  /\ rq     \in Seq(Threads)
  /\ pool_n \in Nat
  /\ cur    \in [CPUs -> Threads]
  /\ nxt    \in [Threads -> Threads \cup {NoThread}]
  /\ fresh  \in [Threads -> BOOLEAN]
  /\ irq    \in [CPUs -> BOOLEAN]
  /\ at     \in [Threads -> Places]
  /\ target \in [Threads -> Threads \cup {NoThread}]
  /\ disp   \subseteq Threads
  /\ saved  \in [Threads -> BOOLEAN]
  /\ fault  \in {"none", "stale_sp", "double_push", "slot_shared"}
  \* A local variable has been assigned where it is used.
  /\ \A t \in Threads :
       /\ at[t] \in {"set", "load", "switch"} => nxt[t] \in Threads
       /\ at[t] \in {"clear", "frame", "count"} => target[t] \in Pool
       /\ at[t] = "wake" => target[t] \in Threads

\* The BSP runs main on bsp_thr; every other CPU has come through ap_entry
\* and dispatches from its boot_thr.
Init ==
  /\ state  = [t \in Threads |-> IF t \in BootThr THEN "RUNNING" ELSE "EMPTY"]
  /\ joiner = [t \in Threads |-> NoThread]
  /\ rq     = <<>>
  /\ pool_n = 0
  /\ cur    = [c \in CPUs |-> -c]
  /\ nxt    = [t \in Threads |-> NoThread]
  /\ fresh  = [t \in Threads |-> FALSE]
  /\ irq    = [c \in CPUs |-> FALSE]
  /\ at     = [t \in Threads |-> IF t \in BootThr \ {BSP} THEN "check" ELSE "run"]
  /\ target = [t \in Threads |-> NoThread]
  /\ disp   = BootThr \ {BSP}
  /\ saved  = [t \in Threads |-> FALSE]
  /\ fault  = "none"

-----------------------------------------------------------------------------
\* CPU c executes at place p; after a fault nothing more can be said.
At(c, p) == fault = "none" /\ at[cur[c]] = p
Goto(c, p) == at' = [at EXCEPT ![cur[c]] = p]

\* Where sched_switch_away returns to: its caller, which in a dispatcher is
\* the loop that calls it again.
Home(t) == IF t \in disp THEN "check" ELSE "run"

\* Mutants of sched_make_runnable: no test of the state; DONE accepted too.
MakeRunnable_Always(t) ==
  /\ state' = [state EXCEPT ![t] = "RUNNABLE"]
  /\ rq' = Append(rq, t)
  /\ fault' = IF t \in ToSet(rq) THEN "double_push" ELSE fault
MakeRunnable_Done(t) ==
  IF state[t] \in {"WAITING", "EMPTY", "DONE"}
  THEN /\ state' = [state EXCEPT ![t] = "RUNNABLE"]
       /\ rq' = Append(rq, t)
       /\ fault' = IF t \in ToSet(rq) THEN "double_push" ELSE fault
  ELSE UNCHANGED <<state, rq, fault>>

\* sched_make_runnable, the whole critical section.  Pushing a thread that is
\* still linked overwrites rq_next and breaks the list.
MakeRunnable(t) ==
  IF state[t] \in {"WAITING", "EMPTY"}
  THEN /\ state' = [state EXCEPT ![t] = "RUNNABLE"]
       /\ rq' = Append(rq, t)
       /\ fault' = IF t \in ToSet(rq) THEN "double_push" ELSE fault
  ELSE UNCHANGED <<state, rq, fault>>

\* ipi_all_excl_self(1 << 14): the vector is the low byte of the command.
\* The local APIC accepts no vector below 16.
KickCommand == 2^14
Deliverable(cmd) == cmd % 256 >= 16

-----------------------------------------------------------------------------
\* kthread_spawn reads pool_n, without the lock.  A full pool or heap returns
\* -1 and changes nothing here.
Spawn(c) ==
  /\ At(c, "run")
  /\ pool_n < MaxThr
  /\ target' = [target EXCEPT ![cur[c]] = pool_n + 1]
  /\ Goto(c, "clear")
  /\ UNCHANGED <<state, joiner, rq, pool_n, cur, nxt, fresh, irq, disp, saved, fault>>

\* Another kthread_spawn has been given the same slot, and has started it.
SharesSlot(t) ==
  fault' = IF state[t] = "EMPTY" THEN fault ELSE "slot_shared"

\* The list from its head to t.
UpTo(t) == SubSeq(rq, 1, CHOOSE i \in DOMAIN rq : rq[i] = t)

\* The slot's fields are cleared.  When it is linked in the run queue, rq_next
\* = 0 cuts off what is behind it.  (That wk_next = 0 does the same to a wait
\* bucket is not shown: a slot that has been in one is not EMPTY.)
ClearSlot(c) ==
  LET t == target[cur[c]] IN
  /\ At(c, "clear")
  /\ state'  = [state EXCEPT ![t] = "EMPTY"]
  /\ joiner' = [joiner EXCEPT ![t] = NoThread]
  /\ rq'     = IF t \in ToSet(rq) THEN UpTo(t) ELSE rq
  /\ SharesSlot(t)
  /\ Goto(c, "frame")
  /\ UNCHANGED <<pool_n, cur, nxt, fresh, irq, target, disp, saved>>

\* The bootstrap frame is written and t->sp points to it.
StoreFrame(c) ==
  LET t == target[cur[c]] IN
  /\ At(c, "frame")
  /\ saved' = [saved EXCEPT ![t] = TRUE]
  /\ SharesSlot(t)
  /\ Goto(c, "count")
  /\ UNCHANGED <<state, joiner, rq, pool_n, cur, nxt, fresh, irq, target, disp>>

\* Mutant: the new thread is counted and never made runnable.
CountSlot_NotStarted(c) ==
  /\ At(c, "count")
  /\ pool_n' = pool_n + 1
  /\ Goto(c, "kick")
  /\ UNCHANGED <<state, joiner, rq, cur, nxt, fresh, irq, target, disp, saved, fault>>

\* pool_n++, of the value in memory or of the one that was read for the slot:
\* pool_n is a plain static, so the compiler may keep it in a register.
CountSlot(c) ==
  /\ At(c, "count")
  /\ pool_n' \in {pool_n + 1, target[cur[c]]}
  /\ Goto(c, "wake")
  /\ UNCHANGED <<state, joiner, rq, cur, nxt, fresh, irq, target, disp, saved, fault>>

\* The sched_make_runnable call of kthread_spawn and of kth_exit_impl.
WakeTarget(c) ==
  /\ At(c, "wake")
  /\ MakeRunnable(target[cur[c]])
  /\ target' = [target EXCEPT ![cur[c]] = NoThread]
  /\ Goto(c, "kick")
  /\ UNCHANGED <<joiner, pool_n, cur, nxt, fresh, irq, disp, saved>>

\* wake_other_cpus.
SendKick(c) ==
  irq' = [d \in CPUs |-> irq[d] \/ (d # c /\ Deliverable(KickCommand))]

\* ... at the end of kthread_spawn, or of kth_exit_impl before its dispatcher.
KickAfterWake(c) ==
  /\ At(c, "kick")
  /\ SendKick(c)
  /\ Goto(c, Home(cur[c]))
  /\ UNCHANGED <<state, joiner, rq, pool_n, cur, nxt, fresh, target, disp, saved, fault>>

\* ... by a caller: kick_cpus of the futex layer, which is the same command.
Kick(c) ==
  /\ At(c, "run")
  /\ SendKick(c)
  /\ UNCHANGED <<state, joiner, rq, pool_n, cur, nxt, fresh, at, target, disp, saved,
                 fault>>

\* A caller wakes thread t, which has been started.
Wake(c, t) ==
  /\ At(c, "run")
  /\ state[t] # "EMPTY"
  /\ MakeRunnable(t)
  /\ UNCHANGED <<joiner, pool_n, cur, nxt, fresh, irq, at, target, disp, saved>>

\* A caller marks itself WAITING and calls sched_switch_away.
Park(c) ==
  /\ At(c, "run")
  /\ state' = [state EXCEPT ![cur[c]] = "WAITING"]
  /\ Goto(c, "check")
  /\ UNCHANGED <<joiner, rq, pool_n, cur, nxt, fresh, irq, target, disp, saved, fault>>

\* A caller calls sched_switch_away without having marked itself.
Yield(c) ==
  /\ At(c, "run")
  /\ Goto(c, "check")
  /\ UNCHANGED <<state, joiner, rq, pool_n, cur, nxt, fresh, irq, target, disp, saved,
                 fault>>

\* kth_try_join takes the scheduler's lock and registers the caller.
Register(c, t) ==
  /\ At(c, "run")
  /\ t \in 1..pool_n /\ t # cur[c]
  /\ state[t] # "DONE" /\ joiner[t] = NoThread
  /\ joiner' = [joiner EXCEPT ![t] = cur[c]]
  /\ UNCHANGED <<state, rq, pool_n, cur, nxt, fresh, irq, at, target, disp, saved, fault>>

\* Mutant: the exiting thread forgets its joiner.
Exit_NoWake(c) ==
  LET me == cur[c] IN
  /\ At(c, "run")
  /\ me # BSP
  /\ state'  = [state EXCEPT ![me] = "DONE"]
  /\ joiner' = [joiner EXCEPT ![me] = NoThread]
  /\ disp'   = disp \cup {me}
  /\ Goto(c, "check")
  /\ UNCHANGED <<rq, pool_n, cur, nxt, fresh, irq, target, saved, fault>>

\* kth_exit_impl's critical section; main never gets here, it leaves by _exit.
Exit(c) ==
  LET me == cur[c] IN
  /\ At(c, "run")
  /\ me # BSP
  /\ state'  = [state EXCEPT ![me] = "DONE"]
  /\ target' = [target EXCEPT ![me] = joiner[me]]
  /\ joiner' = [joiner EXCEPT ![me] = NoThread]
  /\ disp'   = disp \cup {me}
  /\ Goto(c, IF joiner[me] = NoThread THEN "check" ELSE "wake")
  /\ UNCHANGED <<rq, pool_n, cur, nxt, fresh, irq, saved, fault>>

-----------------------------------------------------------------------------
\* sched_switch_away finds that the thread has been woken before it slept.
WokenBeforeSleep(c) ==
  /\ At(c, "check")
  /\ state[cur[c]] = "RUNNABLE"
  /\ state' = [state EXCEPT ![cur[c]] = "RUNNING"]
  /\ Goto(c, Home(cur[c]))
  /\ UNCHANGED <<joiner, rq, pool_n, cur, nxt, fresh, irq, target, disp, saved, fault>>

StillAsleep(c) ==
  /\ At(c, "check")
  /\ state[cur[c]] # "RUNNABLE"
  /\ Goto(c, "pop")
  /\ UNCHANGED <<state, joiner, rq, pool_n, cur, nxt, fresh, irq, target, disp, saved,
                 fault>>

\* The look at the own state, without the lock.  The read and the write of
\* RUNNING may be one step: what another CPU does to a RUNNABLE thread in
\* between is to pop it and to write RUNNING too.
LookAtState(c) == At(c, "check") /\ (WokenBeforeSleep(c) \/ StillAsleep(c))

\* Mutant: the queue is a stack.
PopNext_Lifo(c) ==
  /\ At(c, "pop")
  /\ rq # <<>>
  /\ nxt' = [nxt EXCEPT ![cur[c]] = Last(rq)]
  /\ rq' = Front(rq)
  /\ Goto(c, "set")
  /\ UNCHANGED <<state, joiner, pool_n, cur, fresh, irq, target, disp, saved, fault>>

\* rq_pop under the lock finds a thread.
PopNext(c) ==
  /\ At(c, "pop")
  /\ rq # <<>>
  /\ nxt' = [nxt EXCEPT ![cur[c]] = Head(rq)]
  /\ rq' = Tail(rq)
  /\ Goto(c, "set")
  /\ UNCHANGED <<state, joiner, pool_n, cur, fresh, irq, target, disp, saved, fault>>

\* rq_pop finds none: idle_wait.
PopNone(c) ==
  /\ At(c, "pop")
  /\ rq = <<>>
  /\ Goto(c, "hlt")
  /\ UNCHANGED <<state, joiner, rq, pool_n, cur, nxt, fresh, irq, target, disp, saved,
                 fault>>

\* What ends a hlt: the PIT tick, which only the BSP takes, or a pending
\* interrupt of the local APIC.
Interrupted(c) == c = BSP \/ irq[c]

LeaveHlt(c) ==
  /\ At(c, "hlt")
  /\ Interrupted(c)
  /\ irq' = [irq EXCEPT ![c] = FALSE]
  /\ Goto(c, "check")
  /\ UNCHANGED <<state, joiner, rq, pool_n, cur, nxt, fresh, target, disp, saved, fault>>

\* Mutant: the dispatched thread stays RUNNABLE.
SetRunning_NotMarked(c) ==
  /\ At(c, "set")
  /\ Goto(c, "load")
  /\ UNCHANGED <<state, joiner, rq, pool_n, cur, nxt, fresh, irq, target, disp,
                 saved, fault>>

\* next->state = TH_RUNNING, outside the lock.
SetRunning(c) ==
  /\ At(c, "set")
  /\ state' = [state EXCEPT ![nxt[cur[c]]] = "RUNNING"]
  /\ Goto(c, "load")
  /\ UNCHANGED <<joiner, rq, pool_n, cur, nxt, fresh, irq, target, disp, saved, fault>>

\* gs_set, and next->sp is read into the register that kth_switch gets.
LoadSp(c) ==
  /\ At(c, "load")
  /\ fresh' = [fresh EXCEPT ![cur[c]] = saved[nxt[cur[c]]]]
  /\ Goto(c, "switch")
  /\ UNCHANGED <<state, joiner, rq, pool_n, cur, nxt, irq, target, disp, saved, fault>>

\* kth_switch: the own context is stored and the CPU is on the stack it has
\* read the pointer of.  The pointer is stale when the thread was not suspended
\* when it was read, or has been resumed by another CPU since; then two CPUs
\* may be on one stack.
Switch(c) ==
  LET me == cur[c]  n == nxt[cur[c]] IN
  /\ At(c, "switch")
  /\ cur'   = [cur EXCEPT ![c] = n]
  /\ saved' = [saved EXCEPT ![me] = TRUE, ![n] = FALSE]
  /\ fresh' = [t \in Threads |-> fresh[t] /\ nxt[t] # n]
  /\ nxt'   = [nxt EXCEPT ![me] = NoThread]
  /\ Goto(c, Home(me))
  /\ fault' = IF fresh[me] /\ saved[n] THEN fault ELSE "stale_sp"
  /\ UNCHANGED <<state, joiner, rq, pool_n, irq, target, disp>>

-----------------------------------------------------------------------------
\* The calls of a thread that executes outside the scheduler.
Call(c) ==
  \/ Spawn(c) \/ Kick(c) \/ Park(c) \/ Yield(c) \/ Exit(c)
  \/ \E t \in Threads : Wake(c, t) \/ Register(c, t)

\* The steps of code inside the scheduler.
Inside(c) ==
  \/ ClearSlot(c) \/ StoreFrame(c) \/ CountSlot(c)
  \/ WakeTarget(c) \/ KickAfterWake(c)
  \/ LookAtState(c) \/ PopNext(c) \/ PopNone(c) \/ LeaveHlt(c)
  \/ SetRunning(c) \/ LoadSp(c) \/ Switch(c)

Next == \E c \in CPUs : Call(c) \/ Inside(c)

Spec == Init /\ [][Next]_vars

\* Cooperative scheduling: code inside the scheduler keeps executing, the PIT
\* keeps ticking, and "threads run until they park on a futex or exit"
\* (kern.h:8).
FairSpec ==
  /\ Spec
  /\ \A c \in CPUs : WF_vars(Inside(c)) /\ WF_vars(Park(c) \/ Exit(c))

-----------------------------------------------------------------------------
(***************************************************************************)
(* Correctness.                                                            *)
(***************************************************************************)

\* No CPU ever resumes a context that is not suspended, no linked thread is
\* linked into the run queue again, and no slot of the pool is given to two
\* threads (kth_switch, rq_push, kthread_spawn).  Holds on one CPU whatever the
\* callers do; on two it fails.
NoCorruption == fault = "none"

\* The run queue holds the RUNNABLE threads, each once, except the one that
\* sched_switch_away has popped and not yet marked RUNNING.  One CPU.
Popped == {nxt[t] : t \in {u \in Threads : at[u] = "set"}}
RunQueueExact ==
  /\ IsInjective(rq)
  /\ ToSet(rq) = {t \in Threads : state[t] = "RUNNABLE"} \ Popped

\* kth_try_join and pthread_join read DONE without coming back: an exited
\* thread never gets another state.  One CPU.
DoneIsFinal ==
  [][\A t \in Threads : state[t] = "DONE" => state'[t] = "DONE"]_vars

\* A handle that kth_by_tid accepts (1 to pool_n) names a slot of the pool, and
\* its thread has been handed to the run queue, or its creator is about to
\* (core.c:129-148).  One CPU.
HandlesValid ==
  \A t \in 1..pool_n :
    /\ t \in Pool
    /\ state[t] = "EMPTY" =>
         \E c \in CPUs : at[cur[c]] = "wake" /\ target[cur[c]] = t

\* "wakeups kick every other core with a level-assert IPI (vector
\* SMP_IPI_VEC) that breaks hlt" (kern.h:11-12): after a kick no other CPU is
\* in a hlt that nothing ends.
KickBreaksHlt ==
  [][\A c \in CPUs : Kick(c) \/ KickAfterWake(c) =>
       \A d \in CPUs \ {c} : at[cur[d]] = "hlt" => Interrupted(d)']_vars

\* FIFO dispatch: a RUNNABLE thread is run.  One CPU, FairSpec.
RunnableRuns ==
  \A t \in Threads : state[t] = "RUNNABLE" ~> state[t] = "RUNNING"
=============================================================================
