------------------------------ MODULE WakeupProofs ------------------------------
(***************************************************************************)
(* "Wakeups are never lost" (futex.c:3-6), for any number of threads,      *)
(* mutexes, conditions and calls, on one CPU: a thread that runs is on the *)
(* CPU, a sleeper is where a wakeup finds it, and no mutex, signal or join *)
(* leaves one behind.  The last four hold in every behaviour in which no   *)
(* futex call meets another key's entry in its bucket (BucketsUnshared),   *)
(* whatever ftx_hash does: such a meeting is the only way to lose a wakeup *)
(* on one CPU, and TLC shows (pthread_collide) that it does lose one.      *)
(***************************************************************************)
EXTENDS PthreadProofs, FiniteSetTheorems

(***************************************************************************)
(* Part 1: who runs.  On one CPU a thread that is not executing has left   *)
(* the CPU in sched_switch_away, so it is at one of three sleeps, or has   *)
(* not started, or has exited.                                             *)
(***************************************************************************)
USE SchedAssumption DEF BSP

RestPcs == {"app", "lock", "cw_parked", "join"}
Dispatching == {"check", "pop", "set", "load", "switch", "hlt"}

AtRest ==
  /\ \A t \in Threads \ {Me} : /\ pc[t] \in RestPcs /\ phase[t] = "out"
                               /\ at[t] = "check" => t \in disp
  /\ at[Me] # "run" => pc[Me] \in RestPcs /\ phase[Me] = "out"

RunsOrSleeps ==
  /\ at[Me] \in Dispatching => state[Me] \in {"WAITING", "DONE"}
  /\ \A t \in Threads :
       /\ state[t] \in {"EMPTY", "DONE"} => pc[t] = "app"
       /\ t \in disp => state[t] = "DONE"
       /\ state[t] = "RUNNING" => t = Me \/ (at[Me] \in {"load", "switch"} /\ t = nxt[Me])

\* Nobody signals between the two loads of seq in pthread_cond_wait.
SeqUnchanged ==
  \A t \in Threads :
    pc[t] \in {"cw_unlock", "cw_wake", "cw_recheck"} => cs[t] = seq[v[t]]

CpuInv == AtRest /\ RunsOrSleeps /\ SeqUnchanged

\* What is known of the executing thread.
LEMMA OnTheCpu ==
  ASSUME NCpu = 1, PInv, GInv, OneInv, CpuInv
  PROVE  /\ CPUs = {BSP} /\ BSP \in CPUs /\ Me = cur[BSP] /\ Me \in Threads
         /\ NoThread \notin Threads
         /\ state[Me] # "RUNNABLE"
         /\ at[Me] = "run" => state[Me] = "RUNNING" /\ Me \notin disp
<1>2. /\ CPUs = {BSP} /\ Me \in Threads /\ state[Me] # "RUNNABLE"
  BY MeNotRunnable
<1>3. NoThread \notin Threads
  BY DEF Threads, BootThr, Pool, NoThread
<1>4. at[Me] = "run" => state[Me] = "RUNNING" /\ Me \notin disp
  BY <1>2 DEF OneInv, WaitersSaved, DoneDispatch
<1> QED
  BY <1>2, <1>3, <1>4 DEF Me

\* A step of the calls that leaves the layers below alone.
LEMMA PureRests ==
  ASSUME NCpu = 1, PInv, GInv, OneInv, CpuInv, UNCHANGED futexVars, at[Me] = "run",
         NEW p \in Pcs, pc' = [pc EXCEPT ![Me] = p]
  PROVE  (AtRest /\ RunsOrSleeps)'
<1>1. /\ UNCHANGED <<state, at, nxt, cur, disp, phase>> /\ Me' = Me
  BY DEF futexVars, vars, bucketVars, Me
<1>2. \A t \in Threads \ {Me} : pc'[t] = pc[t]
  BY DEF PInv, CallsTyped
<1>3. state[Me] = "RUNNING" /\ Me \in Threads
  BY OnTheCpu
<1>4. AtRest'
  BY <1>1, <1>2 DEF AtRest, CpuInv
<1>5. RunsOrSleeps'
  BY <1>1, <1>2, <1>3 DEF RunsOrSleeps, CpuInv, Dispatching
<1> QED
  BY <1>4, <1>5

\* A thread goes to sleep in a futex.
LEMMA SleepRests ==
  ASSUME NCpu = 1, PInv, GInv, OneInv, CpuInv, NEW k \in Keys, FutexWait(BSP, k),
         NEW p \in RestPcs, pc' = [pc EXCEPT ![Me] = p]
  PROVE  (AtRest /\ RunsOrSleeps)'
<1>1. /\ state' = [state EXCEPT ![Me] = "WAITING"] /\ at' = [at EXCEPT ![Me] = "check"]
      /\ UNCHANGED <<nxt, cur, disp, phase>> /\ Me' = Me
      /\ at[Me] = "run" /\ phase[Me] = "out"
  BY DEF FutexWait, Ready, Park, Goto, At, Me
<1>2. /\ \A t \in Threads \ {Me} : pc'[t] = pc[t] /\ state'[t] = state[t] /\ at'[t] = at[t]
      /\ Me \in Threads /\ Me \notin disp /\ at'[Me] = "check" /\ state'[Me] = "WAITING"
      /\ pc'[Me] = p
  BY <1>1, OnTheCpu DEF PInv, CallsTyped, GInv, TypeOK
<1>3. AtRest'
  BY <1>1, <1>2 DEF AtRest, CpuInv
<1>4. RunsOrSleeps'
  BY <1>1, <1>2 DEF RunsOrSleeps, CpuInv, Dispatching
<1> QED
  BY <1>3, <1>4

\* A futex_wake pops; one of its threads is woken; it kicks.
LEMMA WakeRests ==
  ASSUME NCpu = 1, PInv, GInv, OneInv, CpuInv,
         \/ \E k \in Keys, n \in Nat, p \in Pcs : /\ FutexPop(BSP, k, n)
                                                  /\ pc' = [pc EXCEPT ![Me] = p]
         \/ (FutexWakeOne(BSP) \/ FutexKick(BSP)) /\ pc' = pc
  PROVE  (AtRest /\ RunsOrSleeps)'
<1>1. /\ UNCHANGED <<nxt, cur, disp, at>> /\ Me' = Me /\ at[Me] = "run"
      /\ \A t \in Threads \ {Me} : phase'[t] = phase[t] /\ pc'[t] = pc[t]
  BY DEF FutexPop, FutexWakeOne, FutexKick, Ready, At, Wake, Kick, vars, Me, PInv, LinksTyped,
     CallsTyped
<1>2. Me \in Threads /\ state[Me] = "RUNNING"
  BY <1>1, OnTheCpu
<1>3. AtRest'
  BY <1>1 DEF AtRest, CpuInv
<1>4. CASE UNCHANGED state
  BY <1>1, <1>2, <1>3, <1>4 DEF RunsOrSleeps, CpuInv, Dispatching
<1>5. CASE FutexWakeOne(BSP) /\ pc' = pc
  <2>1. /\ list[Me] \in Threads /\ state[list[Me]] # "EMPTY"
        /\ MakeRunnable(list[Me])
    BY <1>5, OnTheCpu, WakeOneTyped DEF PInv, Wake
  <2>2. \A t \in Threads : state'[t] = state[t] \/ (state[t] = "WAITING" /\ state'[t] = "RUNNABLE")
    BY <2>1 DEF MakeRunnable, PInv, GInv, TypeOK
  <2> QED
    BY <1>1, <1>2, <1>3, <1>5, <2>2 DEF RunsOrSleeps, CpuInv, Dispatching
<1> QED
  BY <1>3, <1>4, <1>5 DEF FutexPop, FutexKick, Kick, vars

\* A step of the scheduler, which moves no thread in the calls.
LEMMA InsideRests ==
  ASSUME NCpu = 1, PInv, GInv, OneInv, CpuInv, Inside(BSP), UNCHANGED <<bucketVars, pc>>
  PROVE  (AtRest /\ RunsOrSleeps)'
<1> USE DEF PInv, GInv, TypeOK, At, Goto, Home, CpuInv, bucketVars, Dispatching
<1>1. /\ CPUs = {BSP} /\ BSP \in CPUs /\ Me = cur[BSP] /\ Me \in Threads
      /\ state[Me] # "RUNNABLE"
  BY OnTheCpu
<1>2. UNCHANGED cur => Me' = Me
  BY DEF Me
<1>3. ASSUME UNCHANGED <<state, nxt, cur, disp>>, at[Me] # "run", at[Me] \notin {"load", "switch"},
             NEW p \in Dispatching \ {"load", "switch"}, at' = [at EXCEPT ![Me] = p],
             state[Me] \in {"WAITING", "DONE"}
      PROVE  (AtRest /\ RunsOrSleeps)'
  BY <1>1, <1>2, <1>3 DEF AtRest, RunsOrSleeps
<1>4. CASE ClearSlot(BSP) \/ StoreFrame(BSP) \/ CountSlot(BSP)
  <2>1. /\ at[Me] \in {"clear", "frame", "count"} /\ UNCHANGED <<nxt, cur, disp>>
        /\ \E p \in {"frame", "count", "wake"} : at' = [at EXCEPT ![Me] = p]
    BY <1>1, <1>4 DEF ClearSlot, StoreFrame, CountSlot
  <2>2. state[target[Me]] = "EMPTY"
    BY <2>1, FreshSlot
  <2>3. state' = state
    BY <1>1, <1>4, <2>2 DEF ClearSlot, StoreFrame, CountSlot
  <2> QED
    BY <1>1, <1>2, <2>1, <2>3 DEF AtRest, RunsOrSleeps
<1>5. CASE WakeTarget(BSP)
  <2>1. /\ target[Me] \in Threads /\ MakeRunnable(target[Me])
        /\ at[Me] = "wake" /\ at' = [at EXCEPT ![Me] = "kick"]
        /\ UNCHANGED <<nxt, cur, disp>>
    BY <1>1, <1>5 DEF WakeTarget
  <2>2. \A t \in Threads : \/ state'[t] = state[t]
                           \/ state[t] \in {"WAITING", "EMPTY"} /\ state'[t] = "RUNNABLE"
    BY <2>1 DEF MakeRunnable
  <2> QED
    BY <1>1, <1>2, <2>1, <2>2 DEF AtRest, RunsOrSleeps
<1>6. CASE KickAfterWake(BSP)
  <2>1. state[Me] \in {"RUNNING", "DONE"} /\ (Me \in disp <=> state[Me] = "DONE")
    BY <1>1, <1>6 DEF KickAfterWake, OneInv, WaitersSaved, DoneDispatch, RunsOrSleeps
  <2> QED
    BY <1>1, <1>2, <1>6, <2>1 DEF KickAfterWake, AtRest, RunsOrSleeps
<1>7. CASE LookAtState(BSP)
  BY <1>1, <1>3, <1>7 DEF LookAtState, WokenBeforeSleep, StillAsleep, RunsOrSleeps
<1>8. CASE PopNext(BSP)
  BY <1>1, <1>2, <1>8 DEF PopNext, AtRest, RunsOrSleeps
<1>9. CASE PopNone(BSP) \/ LeaveHlt(BSP)
  BY <1>1, <1>3, <1>9 DEF PopNone, LeaveHlt, RunsOrSleeps
<1>10. CASE SetRunning(BSP)
  <2>1. nxt[Me] \in Threads /\ state[nxt[Me]] = "RUNNABLE" /\ nxt[Me] # Me
    BY <1>1, <1>10 DEF SetRunning, OneInv, DispatchSaved
  <2> QED
    BY <1>1, <1>2, <1>10, <2>1 DEF SetRunning, AtRest, RunsOrSleeps
<1>12. CASE LoadSp(BSP)
  BY <1>1, <1>2, <1>12 DEF LoadSp, AtRest, RunsOrSleeps
<1>11. CASE Switch(BSP)
  <2>1. /\ at[Me] = "switch" /\ nxt[Me] \in Threads /\ saved[nxt[Me]]
        /\ state[nxt[Me]] = "RUNNING" /\ nxt[Me] # Me
    BY <1>1, <1>11 DEF Switch, OneInv, DispatchSaved
  <2>2. /\ at' = [at EXCEPT ![Me] = Home(Me)] /\ cur' = [cur EXCEPT ![BSP] = nxt[Me]]
        /\ UNCHANGED <<state, disp>>
    BY <1>1, <1>11, <2>1 DEF Switch
  <2>3. Me' = nxt[Me]
    BY <1>1, <2>2 DEF Me
  <2>4. at'[nxt[Me]] = "run"
    <3>1. at'[nxt[Me]] = at[nxt[Me]] /\ at[nxt[Me]] \in {"run", "check"}
      BY <1>1, <2>1, <2>2 DEF SuspendedAtHome
    <3>2. nxt[Me] \notin disp
      BY <2>1 DEF RunsOrSleeps
    <3> QED
      BY <2>1, <3>1, <3>2 DEF AtRest
  <2>5. \A t \in Threads \ {Me'} : pc[t] \in RestPcs /\ phase[t] = "out" /\ (at'[t] = "check" => t \in disp)
    BY <1>1, <2>1, <2>2, <2>3 DEF AtRest
  <2>6. AtRest'
    BY <2>2, <2>3, <2>4, <2>5 DEF AtRest
  <2> QED
    BY <1>1, <2>1, <2>2, <2>3, <2>4, <2>6 DEF RunsOrSleeps
<1> QED
  BY <1>4, <1>5, <1>6, <1>7, <1>8, <1>9, <1>10, <1>11, <1>12 DEF Inside

\* pthread_create, the exit of a thread, and a join that registers.
LEMMA LifecycleRests ==
  ASSUME NCpu = 1, PInv, GInv, OneInv, CpuInv,
         \/ Create(BSP) \/ ThreadExit(BSP)
         \/ Register(BSP, j[Me]) /\ UNCHANGED bucketVars /\ pc' = [pc EXCEPT ![Me] = "jwait"]
  PROVE  (AtRest /\ RunsOrSleeps)'
<1> USE DEF PInv, GInv, TypeOK, At, Goto, CpuInv, bucketVars, Dispatching
<1>1. /\ CPUs = {BSP} /\ BSP \in CPUs /\ Me = cur[BSP] /\ Me \in Threads
      /\ at[Me] = "run" => state[Me] = "RUNNING" /\ Me \notin disp
  BY OnTheCpu
<1>2. UNCHANGED cur => Me' = Me
  BY DEF Me
<1>3. CASE Create(BSP)
  <2>1. /\ at[Me] = "run" /\ at' = [at EXCEPT ![Me] = "clear"]
        /\ pc[Me] = "app" /\ phase[Me] = "out" /\ UNCHANGED <<pc, phase, cur, nxt, disp, state>>
    BY <1>1, <1>3 DEF Create, Spawn, Calling, Pc, Ready
  <2> QED
    BY <1>1, <1>2, <2>1 DEF AtRest, RunsOrSleeps, RestPcs
<1>4. CASE ThreadExit(BSP)
  <2>1. /\ state' = [state EXCEPT ![Me] = "DONE"] /\ disp' = disp \cup {Me}
        /\ at[Me] = "run"
        /\ at' = [at EXCEPT ![Me] = IF joiner[Me] = NoThread THEN "check" ELSE "wake"]
        /\ pc[Me] = "app" /\ phase[Me] = "out" /\ UNCHANGED <<pc, phase, cur, nxt>>
    BY <1>1, <1>4 DEF ThreadExit, Exit, Pc, Ready, pvars
  <2> QED
    BY <1>1, <1>2, <2>1 DEF AtRest, RunsOrSleeps, RestPcs
<1>5. CASE Register(BSP, j[Me]) /\ UNCHANGED bucketVars /\ pc' = [pc EXCEPT ![Me] = "jwait"]
  <2>1. at[Me] = "run" /\ UNCHANGED <<state, phase, at, cur, nxt, disp>>
        /\ \A t \in Threads \ {Me} : pc'[t] = pc[t]
    BY <1>1, <1>5 DEF Register, CallsTyped
  <2> QED
    BY <1>1, <1>2, <2>1 DEF AtRest, RunsOrSleeps
<1> QED
  BY <1>3, <1>4, <1>5

LEMMA SeqStep ==
  ASSUME NCpu = 1, PInv, GInv, OneInv, CpuInv, PthreadNext
  PROVE  SeqUnchanged'
<1>1. /\ CPUs = {BSP} /\ Me = cur[BSP] /\ Me \in Threads
  BY OnTheCpu
<1>2. Below(BSP) \/ Mutex(BSP) \/ Cond(BSP) \/ Lifecycle(BSP) \/ Once(BSP)
  BY <1>1 DEF PthreadNext
<1>3. \A t \in Threads \ {Me} : pc[t] \notin {"cw_unlock", "cw_wake", "cw_recheck"}
  BY DEF CpuInv, AtRest, RestPcs
<1> USE DEF PInv, CallsTyped, RestTyped, CpuInv, SeqUnchanged, Pc, Go, Local, Calling, ghosts
<1>4. UNCHANGED <<pc, cs, seq, v>> => SeqUnchanged'
  OBVIOUS
<1>5. ASSUME NEW p \in Pcs \ {"cw_unlock", "cw_wake", "cw_recheck"}, pc' = [pc EXCEPT ![Me] = p]
      PROVE  SeqUnchanged'
  BY <1>1, <1>3, <1>5
<1>6. CASE Below(BSP)
  BY <1>4, <1>6 DEF Below, pvars
<1>7. CASE Mutex(BSP)
  BY <1>1, <1>4, <1>5, <1>7 DEF Mutex, LockCall, TryLock, Unlock, Release, Acquire, AcquireFails,
     LockWait, UnlockWake, Pcs
<1>8. CASE Cond(BSP)
  <2>1. ASSUME NEW x \in Conds, NEW mx \in Mutexes, CondWait(BSP, x, mx) PROVE SeqUnchanged'
    BY <1>1, <1>3, <2>1 DEF CondWait
  <2>2. CASE CondUnlock(BSP)
    BY <1>1, <1>3, <2>2 DEF CondUnlock, Release
  <2>3. CASE CondUnlockWake(BSP)
    BY <1>1, <1>3, <2>3 DEF CondUnlockWake
  <2>4. CASE (\E x \in Conds : Signal(BSP, x) \/ Broadcast(BSP, x)) \/ CondRecheckSame(BSP)
             \/ CondRecheckChanged(BSP) \/ CondPark(BSP) \/ SignalWake(BSP) \/ BroadcastWake(BSP)
    BY <1>1, <1>5, <2>4 DEF Signal, Broadcast, Bump, CondRecheckSame, CondRecheckChanged, CondPark,
       SignalWake, BroadcastWake, Pcs
  <2> QED
    BY <1>8, <2>1, <2>2, <2>3, <2>4 DEF Cond
<1>9. CASE Lifecycle(BSP)
  BY <1>1, <1>4, <1>5, <1>9 DEF Lifecycle, Create, ThreadExit, JoinCall, JoinAnswered,
     JoinRegister, JoinWait, pvars, Pcs
<1>10. CASE Once(BSP)
  BY <1>1, <1>4, <1>5, <1>10 DEF Once, OnceFast, OnceCall, OnceLock, OnceRun, OnceStore,
     OnceUnlock, Pcs
<1> QED
  BY <1>2, <1>6, <1>7, <1>8, <1>9, <1>10

\* So the early return of pthread_cond_wait is dead code on one CPU.
LEMMA NeverRechecked ==
  ASSUME NCpu = 1, PInv, GInv, OneInv, CpuInv
  PROVE  ~CondRecheckChanged(BSP)
  BY OnTheCpu DEF CpuInv, SeqUnchanged, CondRecheckChanged, Pc

LEMMA RestsStep ==
  ASSUME NCpu = 1, PInv, GInv, OneInv, CpuInv, PthreadNext
  PROVE  (AtRest /\ RunsOrSleeps)'
<1>1. /\ CPUs = {BSP} /\ BSP \in CPUs /\ Me = cur[BSP] /\ Me \in Threads
  BY OnTheCpu
<1>2. Below(BSP) \/ Mutex(BSP) \/ Cond(BSP) \/ Lifecycle(BSP) \/ Once(BSP)
  BY <1>1 DEF PthreadNext
<1>3. pc = [pc EXCEPT ![Me] = pc[Me]] /\ pc[Me] \in Pcs
  BY <1>1 DEF PInv, CallsTyped
<1>4. ASSUME UNCHANGED futexVars, at[Me] = "run", NEW p \in Pcs, pc' = [pc EXCEPT ![Me] = p]
      PROVE  (AtRest /\ RunsOrSleeps)'
  BY <1>4, PureRests
<1>5. ASSUME NEW k \in Keys, NEW n \in Nat, NEW p \in Pcs, FutexPop(BSP, k, n),
             pc' = [pc EXCEPT ![Me] = p]
      PROVE  (AtRest /\ RunsOrSleeps)'
  BY <1>5, WakeRests
<1>6. /\ pc[Me] \in MutexPlaces => m[Me] \in Keys
      /\ pc[Me] \in CondPlaces => v[Me] \in Keys
      /\ pc[Me] \in {"join", "jwait"} => JoinKey(j[Me]) \in Keys
  BY <1>1, KeysAreKeys DEF PInv, CallsTyped
<1> USE <1>1 DEF Pc, Ready, At, Go, Calling, ghosts
<1>7. CASE Below(BSP)
  <2>1. CASE Inside(BSP) /\ UNCHANGED bucketVars
    BY <1>7, <2>1, InsideRests DEF Below, pvars
  <2>2. CASE FutexWakeOne(BSP) \/ FutexKick(BSP)
    BY <1>7, <2>2, WakeRests DEF Below, pvars
  <2> QED
    BY <1>7, <2>1, <2>2 DEF Below
<1>8. CASE Mutex(BSP)
  <2>1. CASE LockWait(BSP)
    <3>1. FutexWait(BSP, m[Me]) /\ m[Me] \in Keys /\ pc' = [pc EXCEPT ![Me] = "lock"]
      BY <1>6, <2>1 DEF LockWait, MutexPlaces
    <3> QED
      BY <3>1, SleepRests DEF RestPcs
  <2>2. CASE UnlockWake(BSP)
    <3>1. FutexPop(BSP, m[Me], 1) /\ m[Me] \in Keys /\ pc' = [pc EXCEPT ![Me] = "app"]
      BY <1>6, <2>2 DEF UnlockWake, MutexPlaces
    <3> QED
      BY <1>5, <3>1 DEF Pcs
  <2> QED
    BY <1>3, <1>4, <1>8, <2>1, <2>2
    DEF Mutex, LockCall, TryLock, Unlock, Release, Acquire, AcquireFails, Pcs
<1>9. CASE Cond(BSP)
  <2>1. CASE CondPark(BSP)
    <3>1. FutexWait(BSP, v[Me]) /\ v[Me] \in Keys /\ pc' = [pc EXCEPT ![Me] = "cw_parked"]
      BY <1>6, <2>1 DEF CondPark, CondPlaces
    <3> QED
      BY <3>1, SleepRests DEF RestPcs
  <2>2. CASE CondUnlockWake(BSP)
    <3>1. FutexPop(BSP, m[Me], 1) /\ m[Me] \in Keys /\ pc' = [pc EXCEPT ![Me] = "cw_recheck"]
      BY <1>6, <2>2 DEF CondUnlockWake, MutexPlaces
    <3> QED
      BY <1>5, <3>1 DEF Pcs
  <2>3. CASE SignalWake(BSP) \/ BroadcastWake(BSP)
    <3>1. PICK n \in {1, MaxThr} : FutexPop(BSP, v[Me], n) /\ pc' = [pc EXCEPT ![Me] = "app"]
      BY <2>3 DEF SignalWake, BroadcastWake
    <3>2. v[Me] \in Keys /\ n \in Nat
      BY <1>6, <2>3 DEF SignalWake, BroadcastWake, CondPlaces
    <3> QED
      BY <1>5, <3>1, <3>2 DEF Pcs
  <2> QED
    BY <1>4, <1>9, <2>1, <2>2, <2>3, NeverRechecked
    DEF Cond, Signal, Broadcast, Bump, CondWait, CondUnlock, Release, CondRecheckSame, Pcs
<1>10. CASE Lifecycle(BSP)
  <2>1. CASE JoinWait(BSP)
    <3>1. /\ FutexWait(BSP, JoinKey(j[Me])) /\ JoinKey(j[Me]) \in Keys
          /\ pc' = [pc EXCEPT ![Me] = "join"]
      BY <1>6, <2>1 DEF JoinWait
    <3> QED
      BY <3>1, SleepRests DEF RestPcs
  <2>2. CASE Create(BSP) \/ ThreadExit(BSP)
    BY <2>2, LifecycleRests
  <2>3. CASE JoinRegister(BSP)
    <3>1. Register(BSP, j[Me]) /\ UNCHANGED bucketVars /\ pc' = [pc EXCEPT ![Me] = "jwait"]
      BY <2>3 DEF JoinRegister
    <3> QED
      BY <3>1, LifecycleRests
  <2> QED
    BY <1>4, <1>10, <2>1, <2>2, <2>3 DEF Lifecycle, JoinCall, JoinAnswered, Pcs
<1>11. CASE Once(BSP)
  BY <1>3, <1>4, <1>11 DEF Once, OnceFast, OnceCall, OnceLock, OnceRun, OnceStore, OnceUnlock, Pcs
<1> QED
  BY <1>2, <1>7, <1>8, <1>9, <1>10, <1>11

LEMMA CpuStep ==
  ASSUME NCpu = 1, PInv, GInv, OneInv, CpuInv, PthreadNext
  PROVE  CpuInv'
  BY RestsStep, SeqStep DEF CpuInv

LEMMA InitCpu ==
  ASSUME NCpu = 1, PthreadInit
  PROVE  CpuInv
<1>0. BSP \in CPUs /\ cur[BSP] = BSP
  <2>1. \A c \in CPUs : cur[c] + c = 0 /\ cur[c] \in Int
    BY DEF CPUs, PthreadInit, FutexInit, Init
  <2>2. BSP \in CPUs
    BY DEF CPUs
  <2> QED
    BY <2>1, <2>2
<1> USE DEF PthreadInit, FutexInit, Init
<1>1. BootThr = {BSP} /\ CPUs = {BSP} /\ disp = {}
  BY DEF BootThr, CPUs
<1>2. Me = BSP /\ at[Me] = "run" /\ state[Me] = "RUNNING" /\ BSP \in Threads
  BY <1>0, <1>1 DEF Me, Threads
<1>3. \A t \in Threads : pc[t] = "app" /\ phase[t] = "out" /\ at[t] = "run"
  BY <1>1
<1>4. \A t \in Threads \ {Me} : state[t] = "EMPTY"
  BY <1>1, <1>2
<1> QED
  BY <1>1, <1>2, <1>3, <1>4 DEF CpuInv, AtRest, RunsOrSleeps, SeqUnchanged, RestPcs, Dispatching

\* Everything proved so far about a program with pthreads on one CPU.
Known == PInv /\ GInv /\ OneInv

LEMMA KnownHolds ==
  ASSUME NCpu = 1
  PROVE  PthreadSpec => []Known
<1>1. PthreadSpec => []PInv /\ Spec
  BY PthreadInvariant, PthreadImplementsSched DEF ImplementsSched
<1>2. Spec => [](GInv /\ OneInv)
  BY OneInvariant
<1> QED
  BY <1>1, <1>2, PTL DEF Known

LEMMA CpuHolds ==
  ASSUME NCpu = 1
  PROVE  PthreadSpec => []CpuInv
<1>1. PthreadInit => CpuInv
  BY InitCpu
<1>2. Known /\ CpuInv /\ [PthreadNext]_allVars => CpuInv'
  <2>1. ASSUME Known, CpuInv, PthreadNext PROVE CpuInv'
    BY <2>1, CpuStep DEF Known
  <2>2. ASSUME CpuInv, UNCHANGED allVars PROVE CpuInv'
    BY <2>2 DEF allVars, futexVars, bucketVars, vars, pvars, CpuInv, AtRest, RunsOrSleeps,
       SeqUnchanged, Me
  <2> QED
    BY <2>1, <2>2
<1> QED
  BY <1>1, <1>2, KnownHolds, PTL DEF PthreadSpec

\* On one CPU no RUNNING thread is off the CPU: every path that leaves it, a sleep, an
\* exit or the early return of pthread_cond_wait, has first changed the state, or does
\* not happen.  Any hash.
THEOREM OneCpuRunningRuns ==
  ASSUME NCpu = 1
  PROVE  PthreadSpec => []RunningRuns
<1>1. ASSUME CpuInv PROVE RunningRuns
  <2>1. BSP \in CPUs
    BY DEF CPUs
  <2> QED
    BY <1>1, <2>1 DEF CpuInv, RunsOrSleeps, RunningRuns, Me
<1> QED
  BY <1>1, CpuHolds, PTL

-----------------------------------------------------------------------------
(***************************************************************************)
(* Part 2: lists of threads.  On(h, n) is what a walk along the links n    *)
(* from h passes; it has no cycle when no thread is passed again.          *)
(***************************************************************************)
Points(X, h, n) == h \in X \cup {NoThread} /\ \A t \in X : n[t] \in X \cup {NoThread}
On(h, n) == {t \in Threads : \A X \in SUBSET Threads : Points(X, h, n) => t \in X}
Acyclic(h, n) == \A t \in On(h, n) : t \notin On(n[t], n)

LEMMA NoThreadApart == NoThread \notin Threads
  BY DEF Threads, BootThr, Pool, NoThread

LEMMA OnPoints ==
  ASSUME NEW h \in Links, NEW n \in [Threads -> Links]
  PROVE  On(h, n) \in SUBSET Threads /\ Points(On(h, n), h, n)
<1>1. h \in On(h, n) \cup {NoThread}
  BY DEF On, Points, Links
<1>2. ASSUME NEW t \in On(h, n) PROVE n[t] \in On(h, n) \cup {NoThread}
  BY <1>2 DEF On, Points, Links
<1> QED
  BY <1>1, <1>2 DEF On, Points

LEMMA OnLeast ==
  ASSUME NEW h, NEW n, NEW X \in SUBSET Threads, Points(X, h, n)
  PROVE  On(h, n) \subseteq X
  BY DEF On

LEMMA OnNothing ==
  ASSUME NEW n
  PROVE  On(NoThread, n) = {} /\ Acyclic(NoThread, n)
<1>1. Points({}, NoThread, n)
  BY DEF Points
<1> QED
  BY <1>1, OnLeast DEF Acyclic

LEMMA OnUnfold ==
  ASSUME NEW h \in Threads, NEW n \in [Threads -> Links]
  PROVE  On(h, n) = {h} \cup On(n[h], n)
<1>1. h \in Links /\ n[h] \in Links
  BY DEF Links
<1>2. Points({h} \cup On(n[h], n), h, n)
  BY <1>1, OnPoints DEF Points
<1>3. On(h, n) \subseteq {h} \cup On(n[h], n)
  BY <1>1, <1>2, OnPoints, OnLeast
<1>4. h \in On(h, n) /\ Points(On(h, n), n[h], n)
  BY <1>1, OnPoints, NoThreadApart DEF Points
<1> QED
  BY <1>1, <1>3, <1>4, OnPoints, OnLeast

LEMMA OnSub ==
  ASSUME NEW h \in Links, NEW n \in [Threads -> Links], NEW t \in Links,
         t \in On(h, n) \cup {NoThread}
  PROVE  On(t, n) \subseteq On(h, n)
<1>1. Points(On(h, n), t, n)
  BY OnPoints DEF Points
<1> QED
  BY <1>1, OnPoints, OnLeast

\* Links elsewhere do not matter.
LEMMA OnSame ==
  ASSUME NEW h \in Links, NEW n \in [Threads -> Links], NEW n2 \in [Threads -> Links],
         \A t \in On(h, n) : n2[t] = n[t]
  PROVE  On(h, n2) = On(h, n)
<1> DEFINE Y == On(h, n) \cap On(h, n2)
<1>1. Points(On(h, n), h, n2)
  BY OnPoints DEF Points
<1>2. Points(Y, h, n)
  BY OnPoints DEF Points
<1>3. Y \in SUBSET Threads
  BY OnPoints
<1> HIDE DEF Y
<1>4. On(h, n2) \subseteq On(h, n)
  BY <1>1, OnPoints, OnLeast
<1>5. On(h, n) \subseteq Y
  BY <1>2, <1>3, OnLeast
<1> QED
  BY <1>4, <1>5 DEF Y

LEMMA AcyclicSame ==
  ASSUME NEW h \in Links, NEW n \in [Threads -> Links], NEW n2 \in [Threads -> Links],
         \A t \in On(h, n) : n2[t] = n[t], Acyclic(h, n)
  PROVE  Acyclic(h, n2)
<1>1. On(h, n2) = On(h, n)
  BY OnSame
<1>2. ASSUME NEW t \in On(h, n) PROVE t \notin On(n2[t], n2)
  <2>1. /\ n[t] \in Links /\ n[t] \in On(h, n) \cup {NoThread} /\ n2[t] = n[t]
        /\ t \in Threads
    BY OnPoints DEF Points
  <2>2. On(n[t], n) \subseteq On(h, n)
    BY <2>1, OnSub
  <2>3. On(n[t], n2) = On(n[t], n)
    BY <2>1, <2>2, OnSame
  <2> QED
    BY <2>1, <2>3 DEF Acyclic
<1> QED
  BY <1>1, <1>2 DEF Acyclic

\* A thread is put before a list.
LEMMA PushFront ==
  ASSUME NEW h \in Links, NEW n \in [Threads -> Links], Acyclic(h, n),
         NEW t \in Threads, t \notin On(h, n), NEW n2, n2 = [n EXCEPT ![t] = h]
  PROVE  n2 \in [Threads -> Links] /\ On(t, n2) = {t} \cup On(h, n) /\ Acyclic(t, n2)
<1>1. n2 \in [Threads -> Links] /\ n2[t] = h /\ \A u \in On(h, n) : n2[u] = n[u]
  BY OnPoints
<1>2. On(h, n2) = On(h, n) /\ Acyclic(h, n2)
  BY <1>1, OnSame, AcyclicSame
<1>3. On(t, n2) = {t} \cup On(h, n)
  BY <1>1, <1>2, OnUnfold
<1>4. Acyclic(t, n2)
  BY <1>1, <1>2, <1>3 DEF Acyclic
<1> QED
  BY <1>1, <1>3, <1>4

\* The first thread is taken from a list.
LEMMA PopFront ==
  ASSUME NEW t \in Threads, NEW n \in [Threads -> Links], Acyclic(t, n)
  PROVE  /\ t \in On(t, n) /\ On(n[t], n) = On(t, n) \ {t} /\ Acyclic(n[t], n)
         /\ n[t] \in Links
<1>1. On(t, n) = {t} \cup On(n[t], n)
  BY OnUnfold
<1>2. n[t] \in Links
  OBVIOUS
<1> QED
  BY <1>1, <1>2 DEF Acyclic

(***************************************************************************)
(* The loop of futex_wake splits a bucket into what stays and what it      *)
(* takes: at most n, and n unless the bucket runs out.                     *)
(***************************************************************************)
Split(s, b, n, i) ==
  /\ s \in Lists
  /\ On(s.head, s.next) \cup On(s.list, s.next) = On(bucket[b], wk_next)
  /\ On(s.head, s.next) \cap On(s.list, s.next) = {}
  /\ Acyclic(s.head, s.next) /\ Acyclic(s.list, s.next)
  /\ \A t \in Threads \ On(bucket[b], wk_next) : s.next[t] = wk_next[t]
  /\ s.head = NoThread \/ Cardinality(On(s.list, s.next)) = i

LEMMA ThreadsFinite ==
  /\ IsFiniteSet(Threads)
  /\ NCpu = 1 => Cardinality(Threads) = MaxThr + 1
<1>1. Threads = (1 - NCpu)..MaxThr
  BY DEF Threads, BootThr, Pool
<1> QED
  BY <1>1, FS_Interval

LEMMA SplitOne ==
  ASSUME NEW b, NEW n, NEW i \in Nat, NEW s, Split(s, b, n, i)
  PROVE  Split(PopOne(s), b, n, i + 1)
<1> DEFINE B == On(bucket[b], wk_next)
           H == On(s.head, s.next)
           L == On(s.list, s.next)
<1>1. s \in Lists /\ s.head \in Links /\ s.next \in [Threads -> Links] /\ s.list \in Links
  BY DEF Split, Lists
<1>2. CASE s.head = NoThread
  BY <1>2 DEF PopOne, Split
<1>3. CASE s.head # NoThread
  <2> DEFINE t == s.head
             next == [s.next EXCEPT ![t] = s.list]
             r == [head |-> s.next[t], next |-> next, list |-> t]
  <2>1. t \in Threads /\ PopOne(s) = r
    BY <1>1, <1>3 DEF PopOne, Links
  <2>2. t \in H /\ On(s.next[t], s.next) = H \ {t} /\ Acyclic(s.next[t], s.next)
        /\ s.next[t] \in Links
    BY <1>1, <2>1, PopFront DEF Split
  <2>3. t \notin L /\ H \cup L = B /\ H \cap L = {}
    BY <2>2 DEF Split
  <2>4. /\ next \in [Threads -> Links] /\ On(t, next) = {t} \cup L /\ Acyclic(t, next)
    BY <1>1, <2>1, <2>3, PushFront DEF Split
  <2>5. \A u \in H \ {t} : next[u] = s.next[u]
    BY <1>1, OnPoints
  <2>6. \A u \in Threads \ B : next[u] = wk_next[u]
    BY <1>1, <2>2, <2>3 DEF Split
  <2>7. PopOne(s) \in Lists
    BY <1>1, PopOneTyped
  <2> HIDE DEF next, B, H, L
  <2>8. On(s.next[t], next) = H \ {t} /\ Acyclic(s.next[t], next)
    BY <1>1, <2>2, <2>4, <2>5, OnSame, AcyclicSame
  <2>9. Cardinality(L) = i /\ IsFiniteSet(L)
    <3>1. L \in SUBSET Threads
      BY <1>1, OnPoints DEF L
    <3> QED
      BY <1>3, <3>1, ThreadsFinite, FS_Subset DEF Split, L
  <2>10. Cardinality({t} \cup L) = i + 1
    BY <2>3, <2>9, FS_AddElement
  <2>11. /\ On(r.head, r.next) = H \ {t} /\ On(r.list, r.next) = {t} \cup L
         /\ Acyclic(r.head, r.next) /\ Acyclic(r.list, r.next) /\ r.next = next
    BY <2>4, <2>8
  <2> HIDE DEF r
  <2> QED
    BY <2>1, <2>2, <2>3, <2>6, <2>7, <2>10, <2>11 DEF Split, B
<1> QED
  BY <1>2, <1>3

LEMMA PopSplits ==
  ASSUME NEW b, NEW n \in Nat, bucket[b] \in Links, wk_next \in [Threads -> Links],
         Acyclic(bucket[b], wk_next)
  PROVE  Split(PopUpTo(b, n), b, n, n)
<1>1. PICK after \in [0..n -> Lists] : PopRun(b, n, after) /\ PopUpTo(b, n) = after[n]
  BY PopRuns
<1> DEFINE So == {i \in 0..n : Split(after[i], b, n, i)}
<1>2. 0 \in So
  <2>1. /\ after[0] \in Lists /\ after[0].head = bucket[b] /\ after[0].next = wk_next
        /\ after[0].list = NoThread
    BY <1>1 DEF PopRun
  <2>2. On(NoThread, wk_next) = {} /\ Acyclic(NoThread, wk_next) /\ Cardinality({}) = 0
    BY OnNothing, FS_EmptySet
  <2>3. Split(after[0], b, n, 0)
    BY <2>1, <2>2 DEF Split
  <2> QED
    BY <2>3
<1>3. ASSUME NEW i \in 1..n, i - 1 \in So PROVE i \in So
  <2>1. i - 1 \in Nat /\ (i - 1) + 1 = i /\ after[i] = PopOne(after[i - 1])
    BY <1>1 DEF PopRun
  <2>2. Split(PopOne(after[i - 1]), b, n, (i - 1) + 1)
    BY <1>3, <2>1, SplitOne
  <2> QED
    BY <2>1, <2>2
<1>4. \A i \in 0..n : i \in So
  <2>1. \A i \in 1..n : i - 1 \in So => i \in So
    BY <1>3
  <2> HIDE DEF So
  <2> QED
    BY <1>2, <2>1, IntervalSet
<1> QED
  BY <1>1, <1>4

(***************************************************************************)
(* A walk of as many steps as there are threads passes the whole list.     *)
(* Each step adds a thread, or none, and then none is left to add.         *)
(***************************************************************************)
Beyond(X) == {wk_next[t] : t \in X \ {NoThread}}
Closed(X) == \A t \in X \ {NoThread} : wk_next[t] \in X

LEMMA ReachWalks ==
  ASSUME NEW h \in Links, wk_next \in [Threads -> Links], NEW n, n = Cardinality(Threads),
         n \in Nat
  PROVE  \E f : /\ f[0] = {h} /\ \A i \in 1..n : f[i] = f[i - 1] \cup Beyond(f[i - 1])
                /\ Reach(h) = f[n]
<1> DEFINE Body(r) == [i \in 0..n |-> IF i = 0 THEN {h}
                                      ELSE r[i - 1] \cup {wk_next[x] : x \in r[i - 1] \ {NoThread}}]
           reach == CHOOSE r : r = Body(r)
           G == [X \in SUBSET Links |-> X \cup Beyond(X)]
<1>1. Reach(h) = reach[n]
  BY DEF Reach
<1>2. G \in [SUBSET Links -> SUBSET Links] /\ \A X \in SUBSET Links : G[X] = X \cup Beyond(X)
  BY DEF Beyond, Links
<1> HIDE DEF G
<1>3. PICK f \in [0..n -> SUBSET Links] : Iterates(f, G, {h}, n)
  <2>1. {h} \in SUBSET Links
    OBVIOUS
  <2> QED
    BY <1>2, <2>1, Iteration
<1>4. f = Body(f)
  <2>1. ASSUME NEW i \in 0..n
        PROVE  f[i] = IF i = 0 THEN {h}
                      ELSE f[i - 1] \cup {wk_next[x] : x \in f[i - 1] \ {NoThread}}
    <3>1. CASE i = 0
      BY <1>3, <3>1 DEF Iterates
    <3>2. CASE i # 0
      <4>1. i \in 1..n /\ i - 1 \in 0..n
        BY <3>2
      <4>2. f[i] = G[f[i - 1]] /\ f[i - 1] \in SUBSET Links
        BY <1>3, <4>1 DEF Iterates
      <4> QED
        BY <1>2, <3>2, <4>2 DEF Beyond
    <3> QED
      BY <3>1, <3>2
  <2> QED
    BY <2>1
<1>5. reach = Body(reach)
  <2> HIDE DEF Body
  <2> QED
    BY <1>4
<1> HIDE DEF reach
<1>6. reach[0] = {h}
  BY <1>5
<1>7. ASSUME NEW i \in 1..n PROVE reach[i] = reach[i - 1] \cup Beyond(reach[i - 1])
  <2>1. i \in 0..n /\ i # 0
    OBVIOUS
  <2> QED
    BY <1>5, <2>1 DEF Beyond
<1> QED
  BY <1>1, <1>6, <1>7

LEMMA ReachesAll ==
  ASSUME NCpu = 1, NEW h \in Links, wk_next \in [Threads -> Links]
  PROVE  On(h, wk_next) \subseteq Reach(h)
<1> DEFINE n == MaxThr + 1
<1>1. n \in Nat /\ n = Cardinality(Threads) /\ IsFiniteSet(Threads)
  BY ThreadsFinite
<1>2. IsFiniteSet(Links) /\ Cardinality(Links) = n + 1
  BY <1>1, NoThreadApart, FS_AddElement DEF Links
<1> HIDE DEF n
<1>3. PICK f : /\ f[0] = {h} /\ \A i \in 1..n : f[i] = f[i - 1] \cup Beyond(f[i - 1])
               /\ Reach(h) = f[n]
  BY <1>1, ReachWalks
<1> DEFINE Good == {i \in 0..n : /\ f[i] \subseteq Links /\ h \in f[i]
                                 /\ Closed(f[i]) \/ Cardinality(f[i]) >= i + 1}
<1>4. 0 \in Good
  <2>1. f[0] = {h} /\ Cardinality(f[0]) = 1
    BY <1>3, FS_Singleton
  <2>2. 0 \in 0..n /\ Cardinality(f[0]) >= 0 + 1
    BY <1>1, <2>1
  <2> QED
    BY <2>1, <2>2
<1>5. ASSUME NEW i \in 1..n, i - 1 \in Good PROVE i \in Good
  <2>1. /\ f[i - 1] \subseteq Links /\ h \in f[i - 1]
        /\ Closed(f[i - 1]) \/ Cardinality(f[i - 1]) >= i
    BY <1>5
  <2>2. f[i] = f[i - 1] \cup Beyond(f[i - 1]) /\ Beyond(f[i - 1]) \subseteq Links
    BY <1>3, <2>1 DEF Beyond, Links
  <2>3. CASE Closed(f[i - 1])
    <3>1. f[i] = f[i - 1]
      BY <2>2, <2>3 DEF Closed, Beyond
    <3> QED
      BY <1>1, <2>1, <2>3, <3>1
  <2>4. CASE ~Closed(f[i - 1])
    <3>1. PICK t \in f[i - 1] \ {NoThread} : wk_next[t] \notin f[i - 1]
      BY <2>4 DEF Closed
    <3>2. wk_next[t] \in f[i]
      BY <2>2, <3>1 DEF Beyond
    <3>3. IsFiniteSet(f[i]) /\ f[i] \subseteq Links
      BY <1>2, <2>1, <2>2, FS_Subset
    <3>4. IsFiniteSet(f[i - 1]) /\ f[i - 1] \subseteq f[i] \ {wk_next[t]}
      BY <1>2, <2>1, <2>2, <3>1, FS_Subset
    <3>5. Cardinality(f[i]) \in Nat /\ Cardinality(f[i] \ {wk_next[t]}) = Cardinality(f[i]) - 1
          /\ IsFiniteSet(f[i] \ {wk_next[t]})
      BY <3>2, <3>3, FS_RemoveElement, FS_CardinalityType
    <3>6. Cardinality(f[i - 1]) <= Cardinality(f[i] \ {wk_next[t]}) /\ Cardinality(f[i - 1]) \in Nat
      BY <3>4, <3>5, FS_Subset, FS_CardinalityType
    <3>7. Cardinality(f[i]) >= i + 1
      BY <2>1, <2>4, <3>5, <3>6
    <3> QED
      BY <1>1, <2>1, <2>2, <3>3, <3>7
  <2> QED
    BY <2>3, <2>4
<1>6. n \in Good
  <2> HIDE DEF Good
  <2> QED
    BY <1>1, <1>4, <1>5, IntervalSet
<1>7. Closed(f[n])
  <2>1. CASE Cardinality(f[n]) >= n + 1
    <3>1. f[n] \subseteq Links /\ Cardinality(f[n]) <= n + 1 /\ Cardinality(f[n]) \in Nat
      BY <1>2, <1>6, FS_Subset, FS_CardinalityType
    <3>2. f[n] = Links
      BY <1>1, <1>2, <2>1, <3>1, FS_Subset
    <3> QED
      BY <3>2 DEF Closed, Links
  <2> QED
    BY <1>6, <2>1
<1>8. f[n] \subseteq Links /\ h \in f[n]
  BY <1>6
<1> DEFINE X == f[n] \ {NoThread}
<1>9. X \in SUBSET Threads /\ Points(X, h, wk_next)
  BY <1>7, <1>8 DEF Points, Closed, Links
<1> HIDE DEF X
<1>10. On(h, wk_next) \subseteq X
  BY <1>9, OnLeast
<1> QED
  BY <1>3, <1>10 DEF X

-----------------------------------------------------------------------------
(***************************************************************************)
(* Part 3: sleepers are where a wakeup finds them.                         *)
(*                                                                         *)
(* The bucket of a key somebody sleeps on and the list of a futex_wake are *)
(* disjoint chains; together they hold exactly the threads that sleep on   *)
(* that key.  Nothing is said of a bucket whose key nobody sleeps on: the  *)
(* joiner that kth_exit_impl wakes stays linked in the bucket of its join, *)
(* and keys that are asleep at different times may share a bucket.         *)
(***************************************************************************)
FutexKeys == Mutexes \cup Conds

InBucket(k) == On(bucket[Hash[k]], wk_next)
Listed == IF phase[Me] = "wake" THEN On(list[Me], wk_next) ELSE {}

\* The threads that sleep on key k.
SleepersOn(k) ==
  {t \in Threads : /\ state[t] = "WAITING"
                   /\ (pc[t] = "lock" /\ m[t] = k) \/ (pc[t] = "cw_parked" /\ v[t] = k)}

BucketsExact ==
  \A k \in FutexKeys : SleepersOn(k) \ Listed # {} =>
    InBucket(k) = SleepersOn(k) \ Listed /\ Acyclic(bucket[Hash[k]], wk_next)

\* What a futex call on key k finds in its bucket.
Fits(k) == \A t \in InBucket(k) : Sleeps(t, k)

ListExact ==
  /\ phase[Me] = "wake" => Acyclic(list[Me], wk_next)
  /\ \A t \in Listed : state[t] = "WAITING" /\ pc[t] \in {"lock", "cw_parked"}

\* A sleeping joiner is the head of its bucket.
JoinBuckets ==
  \A t \in Threads : state[t] = "WAITING" =>
    /\ pc[t] \in {"lock", "cw_parked", "join"}
    /\ pc[t] = "join" => bucket[Hash[JoinKey(j[t])]] = t

LinkInv == BucketsExact /\ ListExact /\ JoinBuckets

\* Who joins whom.  A thread that is joined by name has one joiner; from the
\* moment it registers until it is woken the joined thread points to it.
Joining(t) == pc[t] \in {"join", "jwait"}

JoinTargets ==
  /\ refused = {}
  /\ \A t \in Threads : Joining(t) => j[t] \in joined /\ j[t] \in 1..pool_n /\ j[t] # t
  /\ \A t, u \in Threads : Joining(t) /\ Joining(u) /\ j[t] = j[u] => t = u

Registered ==
  /\ \A x \in Threads : joiner[x] # NoThread =>
       /\ x \in 1..pool_n /\ state[x] # "DONE"
       /\ j[joiner[x]] = x
       /\ \/ pc[joiner[x]] = "jwait"
          \/ pc[joiner[x]] = "join" /\ state[joiner[x]] = "WAITING"
  /\ \A t \in Threads : pc[t] = "jwait" => joiner[j[t]] = t
  /\ \A t \in Threads : pc[t] = "join" /\ state[t] = "WAITING" =>
       joiner[j[t]] = t \/ (at[Me] = "wake" /\ target[Me] = t)
  /\ at[Me] = "wake" /\ state[target[Me]] = "WAITING" =>
       pc[target[Me]] = "join" /\ state[j[target[Me]]] = "DONE"

JoinInv == JoinTargets /\ Registered

Known2 == Known /\ CpuInv /\ LinkInv /\ JoinInv

\* A thread's place in the calls, and their arguments.
Kept(t) == pc'[t] = pc[t] /\ m'[t] = m[t] /\ v'[t] = v[t] /\ j'[t] = j[t]

LEMMA OthersKept ==
  ASSUME NCpu = 1, Known, CpuInv, PthreadNext
  PROVE  \A t \in Threads \ {Me} : Kept(t)
<1>1. /\ CPUs = {BSP} /\ Me = cur[BSP] /\ Me \in Threads
  BY OnTheCpu DEF Known
<1>2. Below(BSP) \/ Mutex(BSP) \/ Cond(BSP) \/ Lifecycle(BSP) \/ Once(BSP)
  BY <1>1 DEF PthreadNext
<1> USE DEF Known, PInv, CallsTyped, Kept, Go, Local
<1>3. CASE Below(BSP)
  BY <1>3 DEF Below, pvars
<1>4. CASE Mutex(BSP)
  BY <1>1, <1>4 DEF Mutex, LockCall, TryLock, Unlock, Release, Acquire, AcquireFails,
     LockWait, UnlockWake
<1>5. CASE Cond(BSP)
  BY <1>1, <1>5 DEF Cond, Signal, Broadcast, Bump, CondWait, CondUnlock, Release,
     CondUnlockWake, CondRecheckSame, CondRecheckChanged, CondPark, SignalWake, BroadcastWake
<1>6. CASE Lifecycle(BSP)
  BY <1>1, <1>6 DEF Lifecycle, Create, ThreadExit, JoinCall, JoinAnswered, JoinRegister,
     JoinWait, pvars
<1>7. CASE Once(BSP)
  BY <1>1, <1>7 DEF Once, OnceFast, OnceCall, OnceLock, OnceRun, OnceStore, OnceUnlock
<1> QED
  BY <1>2, <1>3, <1>4, <1>5, <1>6, <1>7

\* The steps that touch no link, put nobody to sleep, and wake at most a joiner.
LinksStill ==
  /\ UNCHANGED <<bucket, wk_next>>
  /\ phase[Me] = "wake" \/ phase'[Me'] = "wake" => UNCHANGED <<list, phase>> /\ Me' = Me
  /\ \A t \in Threads : state'[t] = "WAITING" => state[t] = "WAITING"
  /\ \A t \in Threads : state[t] = "WAITING" =>
       Kept(t) /\ (state'[t] = "WAITING" \/ (at[Me] = "wake" /\ target[Me] = t))

LEMMA InsideStill ==
  ASSUME NCpu = 1, Known, CpuInv, Inside(BSP), UNCHANGED <<bucketVars, pvars>>
  PROVE  LinksStill
<1> USE DEF Known, PInv, GInv, TypeOK, At, Goto, bucketVars, pvars
<1>1. /\ CPUs = {BSP} /\ BSP \in CPUs /\ Me = cur[BSP] /\ Me \in Threads
      /\ state[Me] # "RUNNABLE"
  BY OnTheCpu
<1>2. at[Me] # "run"
  BY <1>1 DEF Inside, ClearSlot, StoreFrame, CountSlot, WakeTarget, KickAfterWake, LookAtState,
     PopNext, PopNone, LeaveHlt, SetRunning, LoadSp, Switch
<1>3. /\ UNCHANGED <<bucket, wk_next, list, phase>> /\ \A t \in Threads : Kept(t)
      /\ \A t \in Threads : phase[t] # "wake"
  BY <1>1, <1>2 DEF Kept, CpuInv, AtRest
<1>4. Me' \in Threads
  <2>1. CASE Switch(BSP)
    BY <1>1, <2>1 DEF Switch, Me
  <2>2. CASE UNCHANGED cur
    BY <1>1, <2>2 DEF Me
  <2> QED
    BY <2>1, <2>2 DEF Inside, ClearSlot, StoreFrame, CountSlot, WakeTarget, KickAfterWake,
       LookAtState, WokenBeforeSleep, StillAsleep, PopNext, PopNone, LeaveHlt, SetRunning, LoadSp
<1>5. \A t \in Threads :
        /\ state'[t] = "WAITING" => state[t] = "WAITING"
        /\ state[t] = "WAITING" =>
             state'[t] = "WAITING" \/ (at[Me] = "wake" /\ target[Me] = t)
  <2>1. CASE WakeTarget(BSP)
    BY <1>1, <2>1 DEF WakeTarget, MakeRunnable
  <2>2. CASE SetRunning(BSP)
    <3>1. /\ nxt[Me] \in Threads /\ state[nxt[Me]] = "RUNNABLE"
          /\ state' = [state EXCEPT ![nxt[Me]] = "RUNNING"]
      BY <1>1, <2>2 DEF SetRunning, OneInv, DispatchSaved
    <3> QED
      BY <3>1
  <2>3. CASE LookAtState(BSP)
    BY <1>1, <2>3 DEF LookAtState, WokenBeforeSleep, StillAsleep
  <2>4. CASE UNCHANGED state
    BY <2>4
  <2>5. CASE ClearSlot(BSP)
    <3>1. at[Me] = "clear" /\ state' = [state EXCEPT ![target[Me]] = "EMPTY"]
      BY <1>1, <2>5 DEF ClearSlot
    <3>2. state[target[Me]] = "EMPTY"
      BY <3>1, FreshSlot
    <3> QED
      BY <3>1, <3>2
  <2> QED
    BY <2>1, <2>2, <2>3, <2>4, <2>5 DEF Inside, StoreFrame, CountSlot, KickAfterWake, PopNext,
       PopNone, LeaveHlt, LoadSp, Switch
<1>6. phase[Me] # "wake" /\ phase'[Me'] # "wake"
  BY <1>1, <1>3, <1>4
<1> HIDE DEF Known, PInv, GInv, TypeOK, At, Goto, pvars
<1> QED
  BY <1>3, <1>5, <1>6 DEF LinksStill

\* Every other step is a futex_wake or the way into a futex_wait.
LEMMA Kinds ==
  ASSUME NCpu = 1, Known, CpuInv, PthreadNext
  PROVE  \/ LinksStill
         \/ FutexWakeOne(BSP) /\ UNCHANGED pvars
         \/ UnlockWake(BSP) \/ CondUnlockWake(BSP) \/ SignalWake(BSP) \/ BroadcastWake(BSP)
         \/ LockWait(BSP) \/ CondPark(BSP) \/ JoinWait(BSP)
<1>1. /\ CPUs = {BSP} /\ Me = cur[BSP] /\ Me \in Threads
      /\ at[Me] = "run" => state[Me] = "RUNNING"
  BY OnTheCpu DEF Known
<1>2. Below(BSP) \/ Mutex(BSP) \/ Cond(BSP) \/ Lifecycle(BSP) \/ Once(BSP)
  BY <1>1 DEF PthreadNext
<1>3. \A t \in Threads \ {Me} : Kept(t)
  BY OthersKept
<1>4. ASSUME UNCHANGED <<bucket, wk_next, list, phase, cur>>, at[Me] = "run",
             \A t \in Threads \ {Me} : state'[t] = state[t], state'[Me] # "WAITING"
      PROVE  LinksStill
  <2>1. Me' = Me /\ state[Me] = "RUNNING"
    BY <1>1, <1>4 DEF Me
  <2>2. \A t \in Threads : /\ state'[t] = "WAITING" => state[t] = "WAITING"
                           /\ state[t] = "WAITING" => Kept(t) /\ state'[t] = "WAITING"
    BY <1>3, <1>4, <2>1
  <2> QED
    BY <1>4, <2>1, <2>2 DEF LinksStill
<1>5. ASSUME UNCHANGED futexVars, at[Me] = "run" PROVE LinksStill
  BY <1>1, <1>4, <1>5 DEF futexVars, vars, bucketVars
<1> USE <1>1 DEF Pc, Ready, At, Calling, ghosts
<1>6. CASE Below(BSP)
  <2>1. CASE Inside(BSP) /\ UNCHANGED bucketVars
    BY <1>6, <2>1, InsideStill DEF Below
  <2>2. CASE FutexKick(BSP)
    <3>1. /\ UNCHANGED <<bucket, wk_next, list, state, cur>> /\ at[Me] = "run"
          /\ phase[Me] = "kick" /\ phase'[Me] = "out"
      BY <2>2 DEF FutexKick, Kick, Known, PInv, LinksTyped
    <3> QED
      BY <1>3, <3>1 DEF LinksStill, Me
  <2> QED
    BY <1>6, <2>1, <2>2 DEF Below
<1>7. CASE Mutex(BSP)
  BY <1>5, <1>7 DEF Mutex, LockCall, TryLock, Unlock, Release, Acquire, AcquireFails
<1>8. CASE Cond(BSP)
  BY <1>5, <1>8, NeverRechecked DEF Cond, Signal, Broadcast, Bump, CondWait, CondUnlock,
     Release, CondRecheckSame, Known
<1>9. CASE Lifecycle(BSP)
  <2>1. CASE Create(BSP)
    BY <1>4, <2>1 DEF Create, Spawn, bucketVars
  <2>2. CASE ThreadExit(BSP)
    <3>1. /\ UNCHANGED <<bucket, wk_next, list, phase, cur>> /\ at[Me] = "run"
          /\ state' = [state EXCEPT ![Me] = "DONE"]
      BY <2>2 DEF ThreadExit, Exit, bucketVars
    <3> QED
      BY <1>4, <3>1 DEF Known, PInv, GInv, TypeOK
  <2>3. CASE JoinRegister(BSP)
    BY <1>4, <2>3 DEF JoinRegister, Register, bucketVars
  <2> QED
    BY <1>5, <1>9, <2>1, <2>2, <2>3 DEF Lifecycle, JoinCall, JoinAnswered
<1>10. CASE Once(BSP)
  BY <1>5, <1>10 DEF Once, OnceFast, OnceCall, OnceLock, OnceRun, OnceStore, OnceUnlock
<1> QED
  BY <1>2, <1>6, <1>7, <1>8, <1>9, <1>10

\* What each kind of step does to the chains.
LEMMA StillLinks ==
  ASSUME NCpu = 1, Known2, LinksStill
  PROVE  /\ LinkInv' /\ Listed' = Listed
         /\ \A k \in FutexKeys : SleepersOn(k)' = SleepersOn(k)
<1>1. \A t \in Threads : state[t] = "WAITING" =>
        Kept(t) /\ (state'[t] = "WAITING" \/ pc[t] = "join")
  BY DEF LinksStill, Known2, JoinInv, Registered
<1>2. \A t \in Threads : state'[t] = "WAITING" => state[t] = "WAITING" /\ Kept(t)
  BY <1>1 DEF LinksStill
<1>3. Listed' = Listed /\ (phase'[Me'] = "wake" => phase[Me] = "wake" /\ list' = list /\ Me' = Me)
  BY DEF LinksStill, Listed
<1>4. ASSUME NEW k PROVE SleepersOn(k)' = SleepersOn(k)
  BY <1>1, <1>2 DEF SleepersOn, Kept
<1>5. BucketsExact'
  BY <1>3, <1>4 DEF Known2, LinkInv, BucketsExact, InBucket, LinksStill
<1>6. ListExact'
  <2>1. \A t \in Listed : t \in Threads
    BY OnTheCpu DEF Listed, On
  <2> QED
    BY <1>1, <1>3, <2>1 DEF Known2, LinkInv, ListExact, Kept, LinksStill
<1>7. JoinBuckets'
  BY <1>2 DEF Known2, LinkInv, JoinBuckets, Kept, LinksStill
<1> QED
  BY <1>3, <1>4, <1>5, <1>6, <1>7 DEF LinkInv

\* Outside a futex_wake a bucket holds all who sleep on its key, and Me does not.
LEMMA NothingListed ==
  ASSUME NCpu = 1, Known2, Ready(BSP)
  PROVE  /\ at[Me] = "run" /\ state[Me] = "RUNNING" /\ Me \in Threads /\ Me = cur[BSP]
         /\ phase[Me] = "out" /\ Listed = {} /\ BSP \in CPUs
         /\ \A k \in FutexKeys : /\ Me \notin SleepersOn(k) /\ k \in Keys
                                 /\ Hash[k] \in Buckets /\ bucket[Hash[k]] \in Links
                                 /\ SleepersOn(k) # {} => /\ InBucket(k) = SleepersOn(k)
                                                          /\ Acyclic(bucket[Hash[k]], wk_next)
<1>1. /\ at[Me] = "run" /\ state[Me] = "RUNNING" /\ Me \in Threads /\ phase[Me] = "out"
      /\ BSP \in CPUs /\ Me = cur[BSP]
  BY OnTheCpu DEF Known2, Known, Ready, At, Me
<1>2. Listed = {}
  BY <1>1 DEF Listed
<1>3. ASSUME NEW k \in FutexKeys
      PROVE  /\ Me \notin SleepersOn(k) /\ k \in Keys
             /\ Hash[k] \in Buckets /\ bucket[Hash[k]] \in Links
             /\ SleepersOn(k) # {} => /\ InBucket(k) = SleepersOn(k)
                                      /\ Acyclic(bucket[Hash[k]], wk_next)
  <2>1. k \in Keys /\ Hash[k] \in Buckets /\ bucket[Hash[k]] \in Links
    BY KeysAreKeys DEF FutexKeys, Known2, Known, PInv, LinksTyped
  <2>2. Me \notin SleepersOn(k) /\ SleepersOn(k) \ Listed = SleepersOn(k)
    BY <1>1, <1>2 DEF SleepersOn
  <2>3. ASSUME SleepersOn(k) # {}
        PROVE  InBucket(k) = SleepersOn(k) /\ Acyclic(bucket[Hash[k]], wk_next)
    BY <2>2, <2>3 DEF Known2, LinkInv, BucketsExact
  <2> QED
    BY <2>1, <2>2, <2>3
<1> QED
  BY <1>1, <1>2, <1>3

\* A call that finds only its own sleepers: they are all it has, no other key with
\* sleepers has the same bucket, and no other joiner has.
LEMMA OwnBucket ==
  ASSUME NCpu = 1, Known2, Ready(BSP), NEW k \in Keys, Fits(k)
  PROVE  /\ k \in FutexKeys => InBucket(k) = SleepersOn(k) /\ Acyclic(bucket[Hash[k]], wk_next)
         /\ \A l \in FutexKeys : l # k /\ SleepersOn(l) # {} => Hash[l] # Hash[k]
         /\ \A t \in Threads : pc[t] = "join" /\ state[t] = "WAITING" /\ j[t] # k =>
              Hash[JoinKey(j[t])] # Hash[k]
<1>1. /\ \A l \in FutexKeys : SleepersOn(l) # {} => /\ InBucket(l) = SleepersOn(l)
                                                     /\ Acyclic(bucket[Hash[l]], wk_next)
      /\ wk_next \in [Threads -> Links] /\ Hash[k] \in Buckets /\ bucket[Hash[k]] \in Links
  BY NothingListed, HashAssumption DEF Known2, Known, PInv, LinksTyped
<1>2. InBucket(k) \in SUBSET Threads /\ Points(InBucket(k), bucket[Hash[k]], wk_next)
  BY <1>1, OnPoints DEF InBucket
<1>3. ASSUME k \in FutexKeys
      PROVE  InBucket(k) = SleepersOn(k) /\ Acyclic(bucket[Hash[k]], wk_next)
  <2>1. CASE SleepersOn(k) # {}
    BY <1>1, <1>3, <2>1
  <2>2. CASE SleepersOn(k) = {}
    <3>1. ASSUME NEW t \in InBucket(k) PROVE FALSE
      <4>1. t \in Threads /\ Sleeps(t, k)
        BY <1>2, <3>1 DEF Fits
      <4>2. pc[t] # "join"
        BY <1>3, <4>1, ObjectsApart DEF Sleeps, SleepKey, JoinKey, FutexKeys, Known2, Known, PInv, CallsTyped
      <4>3. t \in SleepersOn(k)
        BY <4>1, <4>2 DEF Sleeps, SleepKey, SleepersOn
      <4> QED
        BY <2>2, <4>3
    <3>2. InBucket(k) = {}
      BY <3>1
    <3>3. bucket[Hash[k]] = NoThread
      BY <1>2, <3>2 DEF Points
    <3> QED
      BY <2>2, <3>2, <3>3, OnNothing
  <2> QED
    BY <2>1, <2>2
<1>4. ASSUME NEW l \in FutexKeys, l # k, SleepersOn(l) # {}, Hash[l] = Hash[k] PROVE FALSE
  <2>1. PICK t \in Threads : t \in SleepersOn(l) /\ t \in InBucket(k)
    BY <1>1, <1>4 DEF InBucket, SleepersOn
  <2>2. Sleeps(t, k)
    BY <2>1 DEF Fits
  <2> QED
    BY <1>4, <2>1, <2>2 DEF SleepersOn, Sleeps, SleepKey
<1>5. ASSUME NEW t \in Threads, pc[t] = "join", state[t] = "WAITING", j[t] # k,
             Hash[JoinKey(j[t])] = Hash[k]
      PROVE  FALSE
  <2>1. t = bucket[Hash[k]]
    BY <1>5 DEF Known2, LinkInv, JoinBuckets
  <2>2. t \in InBucket(k)
    BY <1>2, <2>1, NoThreadApart DEF Points
  <2>3. Sleeps(t, k)
    BY <2>2 DEF Fits
  <2> QED
    BY <1>5, <2>3 DEF Sleeps, SleepKey, JoinKey
<1> QED
  BY <1>3, <1>4, <1>5

LEMMA SleepLinks ==
  ASSUME NCpu = 1, Known2, NEW k \in Keys, FutexWait(BSP, k), Fits(k),
         \A t \in Threads \ {Me} : Kept(t),
         \/ /\ k \in FutexKeys
            /\ (pc'[Me] = "lock" /\ m'[Me] = k /\ k \in Mutexes) \/ (pc'[Me] = "cw_parked" /\ v'[Me] = k /\ k \in Conds)
         \/ /\ k \in Pool /\ pc'[Me] = "join" /\ j'[Me] = k /\ k = JoinKey(j[Me]) /\ pc[Me] = "jwait"
  PROVE  /\ LinkInv' /\ Listed = {} /\ Listed' = {}
         /\ \A l \in FutexKeys : SleepersOn(l)' = SleepersOn(l) \cup (IF l = k THEN {Me} ELSE {})
<1>1. /\ Me \in Threads /\ phase[Me] = "out" /\ Listed = {} /\ state[Me] = "RUNNING"
      /\ \A l \in FutexKeys : /\ Me \notin SleepersOn(l) /\ l \in Keys
                              /\ Hash[l] \in Buckets /\ bucket[Hash[l]] \in Links
                              /\ SleepersOn(l) # {} => /\ InBucket(l) = SleepersOn(l)
                                                       /\ Acyclic(bucket[Hash[l]], wk_next)
  BY NothingListed DEF FutexWait
<1>10. /\ k \in FutexKeys => InBucket(k) = SleepersOn(k) /\ Acyclic(bucket[Hash[k]], wk_next)
       /\ \A l \in FutexKeys : l # k /\ SleepersOn(l) # {} => Hash[l] # Hash[k]
       /\ \A t \in Threads : pc[t] = "join" /\ state[t] = "WAITING" /\ j[t] # k =>
            Hash[JoinKey(j[t])] # Hash[k]
  BY OwnBucket DEF FutexWait
<1>2. /\ state' = [state EXCEPT ![Me] = "WAITING"] /\ Me' = Me
      /\ bucket' = [bucket EXCEPT ![Hash[k]] = Me]
      /\ wk_next' = [wk_next EXCEPT ![Me] = bucket[Hash[k]]]
      /\ UNCHANGED <<list, phase>>
  BY DEF FutexWait, Park, Me
<1>3. Listed' = {} /\ phase'[Me'] # "wake"
  BY <1>1, <1>2 DEF Listed
<1>4. /\ state'[Me] = "WAITING" /\ \A t \in Threads \ {Me} : state'[t] = state[t] /\ Kept(t)
      /\ wk_next \in [Threads -> Links] /\ wk_next' \in [Threads -> Links]
      /\ Hash[k] \in Buckets /\ bucket[Hash[k]] \in Links
      /\ bucket'[Hash[k]] = Me /\ \A b \in Buckets : b # Hash[k] => bucket'[b] = bucket[b]
      /\ \A t \in Threads \ {Me} : wk_next'[t] = wk_next[t]
  BY <1>1, <1>2, HashAssumption DEF Known2, Known, PInv, LinksTyped, GInv, TypeOK
<1>5. ASSUME NEW l \in FutexKeys
      PROVE  SleepersOn(l)' = SleepersOn(l) \cup (IF l = k THEN {Me} ELSE {})
  <2>1. \A t \in Threads \ {Me} : t \in SleepersOn(l)' <=> t \in SleepersOn(l)
    BY <1>4 DEF SleepersOn, Kept
  <2>2. Me \in SleepersOn(l)' <=> l = k
    BY <1>1, <1>4, ObjectsApart DEF SleepersOn, FutexKeys
  <2>3. SleepersOn(l) \subseteq Threads /\ SleepersOn(l)' \subseteq Threads
    BY DEF SleepersOn
  <2> QED
    BY <1>1, <2>1, <2>2, <2>3
<1>6. ASSUME NEW l \in FutexKeys, SleepersOn(l)' # {}
      PROVE  InBucket(l)' = SleepersOn(l)' /\ Acyclic(bucket[Hash[l]], wk_next)'
  <2>1. Acyclic(bucket[Hash[l]], wk_next) /\ InBucket(l) = SleepersOn(l) /\ Me \notin InBucket(l)
    BY <1>1, <1>5, <1>6, <1>10
  <2>2. CASE l = k
    <3> DEFINE h == bucket[Hash[k]]
    <3>1. On(Me, wk_next') = {Me} \cup InBucket(k) /\ Acyclic(Me, wk_next')
      <4>1. Acyclic(h, wk_next) /\ Me \notin On(h, wk_next) /\ h \in Links /\ Me \in Threads
            /\ wk_next' = [wk_next EXCEPT ![Me] = h] /\ wk_next \in [Threads -> Links]
        BY <1>1, <1>2, <1>4, <2>1, <2>2 DEF InBucket
      <4> HIDE DEF h
      <4>2. On(Me, wk_next') = {Me} \cup On(h, wk_next) /\ Acyclic(Me, wk_next')
        BY <4>1, PushFront
      <4> QED
        BY <4>2 DEF h, InBucket
    <3>2. bucket'[Hash[l]] = Me /\ SleepersOn(l)' = {Me} \cup InBucket(k)
      BY <1>1, <1>4, <1>5, <1>10, <2>2
    <3> QED
      BY <3>1, <3>2 DEF InBucket
  <2>3. CASE l # k
    <3>1. bucket'[Hash[l]] = bucket[Hash[l]] /\ Hash[l] # Hash[k]
      BY <1>1, <1>4, <1>5, <1>6, <1>10, <2>3
    <3>2. \A t \in On(bucket[Hash[l]], wk_next) : wk_next'[t] = wk_next[t]
      BY <1>4, <2>1 DEF InBucket, On
    <3>3. On(bucket[Hash[l]], wk_next') = InBucket(l) /\ Acyclic(bucket[Hash[l]], wk_next')
      BY <1>1, <1>4, <2>1, <3>2, OnSame, AcyclicSame DEF InBucket
    <3> QED
      BY <1>5, <2>1, <2>3, <3>1, <3>3 DEF InBucket
  <2> QED
    BY <2>2, <2>3
<1>7. BucketsExact'
  <2>1. \A l \in FutexKeys : SleepersOn(l)' \ Listed' = SleepersOn(l)'
    BY <1>3
  <2> QED
    BY <1>6, <2>1 DEF BucketsExact
<1>8. ListExact'
  BY <1>3 DEF ListExact
<1>9. JoinBuckets'
  <2> SUFFICES ASSUME NEW t \in Threads, state'[t] = "WAITING"
               PROVE  /\ pc'[t] \in {"lock", "cw_parked", "join"}
                      /\ pc'[t] = "join" => bucket'[Hash[JoinKey(j'[t])]] = t
    BY DEF JoinBuckets
  <2>1. CASE t = Me
    BY <1>4, <2>1, ObjectsApart DEF FutexKeys, JoinKey
  <2>2. CASE t # Me
    <3>1. state[t] = "WAITING" /\ Kept(t)
      BY <1>4, <2>2
    <3>2. ASSUME pc[t] = "join" PROVE j[t] \in Pool /\ j[t] # k /\ j[t] \in Keys
      <4>1. j[t] \in Pool /\ Joining(t)
        BY <3>2 DEF Known2, Known, PInv, CallsTyped, Joining
      <4>2. k = JoinKey(j[Me]) /\ pc[Me] = "jwait" => j[t] # k
        BY <1>1, <2>2, <4>1 DEF Known2, JoinInv, JoinTargets, Joining, JoinKey
      <4> QED
        BY <4>1, <4>2, KeysAreKeys, ObjectsApart DEF FutexKeys
    <3>3. pc[t] = "join" => Hash[j[t]] # Hash[k] /\ Hash[j[t]] \in Buckets
      BY <1>10, <3>1, <3>2, HashAssumption DEF JoinKey
    <3> QED
      BY <1>4, <3>1, <3>3 DEF Known2, LinkInv, JoinBuckets, Kept, JoinKey
  <2> QED
    BY <2>1, <2>2
<1> QED
  BY <1>1, <1>3, <1>5, <1>7, <1>8, <1>9 DEF LinkInv

\* A list of MaxThr threads without the one that executes holds all the others.
LEMMA AllOthers ==
  ASSUME NCpu = 1, NEW t \in Threads, NEW L \in SUBSET (Threads \ {t}),
         Cardinality(L) = MaxThr
  PROVE  L = Threads \ {t}
<1>1. IsFiniteSet(Threads) /\ Cardinality(Threads) = MaxThr + 1 /\ MaxThr \in Nat
  BY ThreadsFinite
<1>2. IsFiniteSet(Threads \ {t}) /\ Cardinality(Threads \ {t}) = MaxThr
  <2>1. Cardinality(Threads \ {t}) = Cardinality(Threads) - 1
    BY <1>1, FS_RemoveElement
  <2> QED
    BY <1>1, <2>1, FS_RemoveElement
<1> QED
  BY <1>2, FS_Subset

LEMMA PopLinks ==
  ASSUME NCpu = 1, Known2, NEW k \in FutexKeys, NEW n \in Nat \ {0},
         FutexPop(BSP, k, n), Fits(k), \A t \in Threads \ {Me} : Kept(t)
  PROVE  /\ LinkInv' /\ Listed = {}
         /\ \A l \in FutexKeys : SleepersOn(l)' = SleepersOn(l)
         /\ Listed' \subseteq SleepersOn(k)
         /\ SleepersOn(k) # {} => Listed' # {}
         /\ n = MaxThr => Listed' = SleepersOn(k)
<1> DEFINE s == PopUpTo(Hash[k], n)
           H == On(s.head, s.next)
           L == On(s.list, s.next)
<1>1. /\ Me \in Threads /\ phase[Me] = "out" /\ Listed = {} /\ state[Me] = "RUNNING"
      /\ \A l \in FutexKeys : /\ Me \notin SleepersOn(l) /\ l \in Keys
                              /\ Hash[l] \in Buckets /\ bucket[Hash[l]] \in Links
                              /\ SleepersOn(l) # {} => /\ InBucket(l) = SleepersOn(l)
                                                       /\ Acyclic(bucket[Hash[l]], wk_next)
      /\ wk_next \in [Threads -> Links] /\ bucket \in [Buckets -> Links]
      /\ list \in [Threads -> Links] /\ phase \in [Threads -> {"out", "wake", "kick"}]
  BY NothingListed DEF FutexPop, Known2, Known, PInv, LinksTyped
<1>2. /\ InBucket(k) = SleepersOn(k) /\ Acyclic(bucket[Hash[k]], wk_next)
      /\ \A l \in FutexKeys : l # k /\ SleepersOn(l) # {} => Hash[l] # Hash[k]
      /\ \A t \in Threads : pc[t] = "join" /\ state[t] = "WAITING" /\ j[t] # k =>
           Hash[JoinKey(j[t])] # Hash[k]
  BY <1>1, OwnBucket DEF FutexPop
<1>3. Split(s, Hash[k], n, n)
  BY <1>1, <1>2, PopSplits
<1>4. /\ bucket' = [bucket EXCEPT ![Hash[k]] = s.head] /\ wk_next' = s.next
      /\ list' = [list EXCEPT ![Me] = s.list]
      /\ phase' = [phase EXCEPT ![Me] = IF s.list = NoThread THEN "out" ELSE "wake"]
      /\ state' = state /\ Me' = Me
  BY DEF FutexPop, vars, Me
<1> HIDE DEF s
<1>5. /\ H \cup L = SleepersOn(k) /\ H \cap L = {} /\ Acyclic(s.head, s.next)
      /\ Acyclic(s.list, s.next) /\ \A t \in Threads \ SleepersOn(k) : s.next[t] = wk_next[t]
      /\ s.head = NoThread \/ Cardinality(L) = n
      /\ s.next \in [Threads -> Links] /\ s.head \in Links
  <2>1. On(bucket[Hash[k]], wk_next) = SleepersOn(k)
    BY <1>2 DEF InBucket
  <2> QED
    BY <1>3, <2>1 DEF Split, Lists
<1>6. /\ list'[Me] = s.list /\ phase'[Me] = IF s.list = NoThread THEN "out" ELSE "wake"
      /\ bucket'[Hash[k]] = s.head
      /\ \A b \in Buckets \ {Hash[k]} : bucket'[b] = bucket[b]
  BY <1>1, <1>4
<1>7. Listed' = L
  BY <1>4, <1>6, OnNothing DEF Listed
<1>8. \A l : SleepersOn(l)' = SleepersOn(l)
  BY <1>1, <1>4 DEF SleepersOn, Kept
<1> HIDE DEF H, L
<1>9. ASSUME NEW l \in FutexKeys, SleepersOn(l) \ L # {}
      PROVE  InBucket(l)' = SleepersOn(l) \ L /\ Acyclic(bucket'[Hash[l]], wk_next')
  <2>1. CASE l = k
    <3>1. On(s.head, s.next) = SleepersOn(k) \ L
      BY <1>5 DEF H
    <3> QED
      BY <1>4, <1>5, <1>6, <2>1, <3>1 DEF InBucket
  <2>2. CASE l # k
    <3>1. /\ bucket'[Hash[l]] = bucket[Hash[l]] /\ InBucket(l) = SleepersOn(l)
          /\ Acyclic(bucket[Hash[l]], wk_next)
      BY <1>1, <1>2, <1>6, <1>9, <2>2
    <3>2. SleepersOn(l) \cap SleepersOn(k) = {} /\ SleepersOn(l) \subseteq Threads
      BY <2>2 DEF SleepersOn
    <3>3. \A t \in On(bucket[Hash[l]], wk_next) : s.next[t] = wk_next[t]
      BY <1>5, <3>1, <3>2 DEF InBucket
    <3>4. On(bucket[Hash[l]], s.next) = SleepersOn(l) /\ Acyclic(bucket[Hash[l]], s.next)
      BY <1>1, <1>5, <3>1, <3>3, OnSame, AcyclicSame DEF InBucket
    <3> QED
      BY <1>4, <1>5, <3>1, <3>2, <3>4 DEF InBucket
  <2> QED
    BY <2>1, <2>2
<1>10. BucketsExact'
  <2>1. \A l \in FutexKeys : SleepersOn(l)' \ Listed' = SleepersOn(l) \ L
    BY <1>7, <1>8
  <2> QED
    BY <1>9, <2>1 DEF BucketsExact
<1>11. ListExact'
  <2>1. phase'[Me'] = "wake" => Acyclic(list'[Me'], wk_next')
    BY <1>4, <1>5, <1>6
  <2>2. \A t \in Listed' : t \in SleepersOn(k)'
    BY <1>5, <1>7, <1>8
  <2> QED
    BY <2>1, <2>2 DEF ListExact, SleepersOn
<1>12. JoinBuckets'
  <2> SUFFICES ASSUME NEW t \in Threads, state[t] = "WAITING"
               PROVE  /\ pc[t] \in {"lock", "cw_parked", "join"} /\ Kept(t)
                      /\ pc[t] = "join" => bucket'[Hash[JoinKey(j[t])]] = t
    BY <1>4 DEF JoinBuckets, Kept
  <2>1. pc[t] \in {"lock", "cw_parked", "join"} /\ Kept(t)
    BY <1>1 DEF Known2, LinkInv, JoinBuckets
  <2>2. ASSUME pc[t] = "join" PROVE bucket'[Hash[JoinKey(j[t])]] = t
    <3>1. j[t] \in Pool /\ j[t] # k /\ j[t] \in Keys /\ Hash[j[t]] \in Buckets
      BY <2>2, KeysAreKeys, ObjectsApart DEF Known2, Known, PInv, CallsTyped, FutexKeys
    <3>2. Hash[j[t]] # Hash[k] /\ bucket[Hash[j[t]]] = t
      BY <1>2, <2>2, <3>1 DEF Known2, LinkInv, JoinBuckets, JoinKey
    <3> QED
      BY <1>6, <3>1, <3>2 DEF JoinKey
  <2> QED
    BY <2>1, <2>2
<1>13. SleepersOn(k) # {} => L # {}
  <2>1. s.head = NoThread => H = {}
    BY OnNothing DEF H
  <2>2. L = {} => Cardinality(L) = 0
    BY FS_EmptySet
  <2> QED
    BY <1>5, <2>1, <2>2
<1>14. n = MaxThr => L = SleepersOn(k)
  <2>1. s.head = NoThread => H = {}
    BY OnNothing DEF H
  <2>2. L \in SUBSET (Threads \ {Me}) /\ SleepersOn(k) \subseteq Threads \ {Me}
    BY <1>1, <1>5 DEF SleepersOn
  <2>3. n = MaxThr /\ Cardinality(L) = n => L = Threads \ {Me}
    BY <1>1, <2>2, AllOthers
  <2> QED
    BY <1>5, <2>1, <2>2, <2>3
<1>15. L \subseteq SleepersOn(k)
  BY <1>5
<1> QED
  BY <1>1, <1>7, <1>8, <1>10, <1>11, <1>12, <1>13, <1>14, <1>15 DEF LinkInv

LEMMA WakeOneLinks ==
  ASSUME NCpu = 1, Known2, FutexWakeOne(BSP), UNCHANGED pvars
  PROVE  /\ LinkInv' /\ list[Me] \in Listed /\ Listed' = Listed \ {list[Me]}
         /\ state' = [state EXCEPT ![list[Me]] = "RUNNABLE"]
         /\ \A l \in FutexKeys : SleepersOn(l)' = SleepersOn(l) \ {list[Me]}
<1> DEFINE t == list[Me]
<1>1. /\ Me \in Threads /\ Me = cur[BSP] /\ BSP \in CPUs
  BY OnTheCpu DEF Known2, Known
<1>2. /\ phase[Me] = "wake" /\ t \in Threads /\ Wake(BSP, t) /\ Me' = Me
      /\ list' = [list EXCEPT ![Me] = wk_next[t]]
      /\ phase' = [phase EXCEPT ![Me] = IF wk_next[t] = NoThread THEN "kick" ELSE "wake"]
      /\ UNCHANGED <<bucket, wk_next>>
  BY <1>1, WakeOneTyped DEF FutexWakeOne, Known2, Known, PInv, Wake, Me
<1>3. /\ wk_next \in [Threads -> Links] /\ list'[Me] = wk_next[t]
      /\ phase'[Me] = IF wk_next[t] = NoThread THEN "kick" ELSE "wake"
  BY <1>1, <1>2 DEF Known2, Known, PInv, LinksTyped
<1>4. Listed = On(t, wk_next) /\ Acyclic(t, wk_next)
  BY <1>2 DEF Listed, Known2, LinkInv, ListExact
<1>5. t \in Listed /\ On(wk_next[t], wk_next) = Listed \ {t} /\ Acyclic(wk_next[t], wk_next)
  BY <1>2, <1>3, <1>4, PopFront
<1>6. Listed' = Listed \ {t}
  BY <1>2, <1>3, <1>5, OnNothing DEF Listed
<1>7. state[t] = "WAITING" /\ pc[t] \in {"lock", "cw_parked"}
  BY <1>5 DEF Known2, LinkInv, ListExact
<1>8. state' = [state EXCEPT ![t] = "RUNNABLE"]
  BY <1>2, <1>7 DEF Wake, MakeRunnable
<1>9. \A u \in Threads : state'[u] = IF u = t THEN "RUNNABLE" ELSE state[u]
  BY <1>2, <1>8 DEF Known2, Known, PInv, GInv, TypeOK
<1>10. UNCHANGED <<pc, m, v, j>>
  BY DEF pvars
<1> HIDE DEF t
<1>11. \A l : SleepersOn(l)' = SleepersOn(l) \ {t}
  BY <1>9, <1>10 DEF SleepersOn
<1>12. BucketsExact'
  <2>1. \A l \in FutexKeys : InBucket(l)' = InBucket(l)
    BY <1>2 DEF InBucket
  <2>2. \A l \in FutexKeys : SleepersOn(l)' \ Listed' = SleepersOn(l) \ Listed
    BY <1>5, <1>6, <1>11
  <2> QED
    BY <1>2, <2>1, <2>2 DEF Known2, LinkInv, BucketsExact
<1>13. ListExact'
  <2>1. phase'[Me'] = "wake" => Acyclic(list'[Me'], wk_next')
    BY <1>2, <1>3, <1>5
  <2>2. \A u \in Listed' : state'[u] = "WAITING" /\ pc'[u] \in {"lock", "cw_parked"}
    <3>1. Listed \subseteq Threads
      BY <1>4 DEF On
    <3> QED
      BY <1>6, <1>9, <1>10, <3>1 DEF Known2, LinkInv, ListExact
  <2> QED
    BY <2>1, <2>2 DEF ListExact
<1>14. JoinBuckets'
  BY <1>2, <1>9, <1>10 DEF Known2, LinkInv, JoinBuckets
<1> QED
  BY <1>5, <1>6, <1>8, <1>11, <1>12, <1>13, <1>14 DEF LinkInv, t

\* The keys of the futex calls.
LEMMA CallKeys ==
  ASSUME NCpu = 1, Known, CpuInv
  PROVE  /\ UnlockWake(BSP) \/ CondUnlockWake(BSP) =>
              m[Me] \in Mutexes /\ FutexPop(BSP, m[Me], 1)
         /\ SignalWake(BSP) => v[Me] \in Conds /\ FutexPop(BSP, v[Me], 1)
         /\ BroadcastWake(BSP) => v[Me] \in Conds /\ FutexPop(BSP, v[Me], MaxThr)
         /\ LockWait(BSP) => /\ m[Me] \in Mutexes /\ FutexWait(BSP, m[Me])
                             /\ pc'[Me] = "lock" /\ m'[Me] = m[Me] /\ pc[Me] = "mwait"
         /\ CondPark(BSP) => /\ v[Me] \in Conds /\ FutexWait(BSP, v[Me])
                             /\ pc'[Me] = "cw_parked" /\ v'[Me] = v[Me] /\ pc[Me] = "cw_wait"
         /\ JoinWait(BSP) => /\ j[Me] \in Pool /\ FutexWait(BSP, j[Me]) /\ j[Me] = JoinKey(j[Me])
                             /\ pc'[Me] = "join" /\ j'[Me] = j[Me] /\ pc[Me] = "jwait"
<1>1. Me \in Threads /\ Me = cur[BSP]
  BY OnTheCpu DEF Known
<1> USE <1>1 DEF Known, PInv, CallsTyped, Pc, Go
<1>2. UnlockWake(BSP) \/ CondUnlockWake(BSP) => m[Me] \in Mutexes /\ FutexPop(BSP, m[Me], 1)
  BY DEF UnlockWake, CondUnlockWake, MutexPlaces
<1>3. /\ SignalWake(BSP) => v[Me] \in Conds /\ FutexPop(BSP, v[Me], 1)
      /\ BroadcastWake(BSP) => v[Me] \in Conds /\ FutexPop(BSP, v[Me], MaxThr)
  BY DEF SignalWake, BroadcastWake, CondPlaces
<1>4. LockWait(BSP) => /\ m[Me] \in Mutexes /\ FutexWait(BSP, m[Me])
                       /\ pc'[Me] = "lock" /\ m'[Me] = m[Me] /\ pc[Me] = "mwait"
  BY DEF LockWait, MutexPlaces
<1>5. CondPark(BSP) => /\ v[Me] \in Conds /\ FutexWait(BSP, v[Me])
                       /\ pc'[Me] = "cw_parked" /\ v'[Me] = v[Me] /\ pc[Me] = "cw_wait"
  BY DEF CondPark, CondPlaces
<1>6. JoinWait(BSP) => /\ j[Me] \in Pool /\ FutexWait(BSP, j[Me]) /\ j[Me] = JoinKey(j[Me])
                       /\ pc'[Me] = "join" /\ j'[Me] = j[Me] /\ pc[Me] = "jwait"
  BY DEF JoinWait, JoinKey
<1> QED
  BY <1>2, <1>3, <1>4, <1>5, <1>6

\* ... and what they find.
LEMMA CallFits ==
  ASSUME NCpu = 1, Known, CpuInv, BucketsUnshared
  PROVE  /\ UnlockWake(BSP) \/ CondUnlockWake(BSP) \/ LockWait(BSP) => Fits(m[Me])
         /\ SignalWake(BSP) \/ BroadcastWake(BSP) \/ CondPark(BSP) => Fits(v[Me])
         /\ JoinWait(BSP) => Fits(j[Me])
<1>1. Me \in Threads /\ Me = cur[BSP] /\ BSP \in CPUs
  BY OnTheCpu DEF Known
<1>2. ASSUME NEW k \in Keys, Ready(BSP), pc[Me] \in FutexPcs, CallKey(Me) = k PROVE Fits(k)
  <2>1. \A t \in Reach(bucket[Hash[k]]) \ {NoThread} : Sleeps(t, k)
    BY <1>1, <1>2 DEF BucketsUnshared
  <2>2. wk_next \in [Threads -> Links] /\ bucket[Hash[k]] \in Links
    BY HashAssumption DEF Known, PInv, LinksTyped
  <2>3. InBucket(k) \subseteq Reach(bucket[Hash[k]]) \ {NoThread}
    BY <2>2, ReachesAll, OnPoints, NoThreadApart DEF InBucket
  <2> QED
    BY <2>1, <2>3 DEF Fits
<1>3. /\ UnlockWake(BSP) \/ CondUnlockWake(BSP) \/ LockWait(BSP) => m[Me] \in Keys
      /\ SignalWake(BSP) \/ BroadcastWake(BSP) \/ CondPark(BSP) => v[Me] \in Keys
      /\ JoinWait(BSP) => j[Me] \in Keys
  BY CallKeys, KeysAreKeys
<1>4. ASSUME UnlockWake(BSP) \/ CondUnlockWake(BSP) \/ LockWait(BSP)
      PROVE  Ready(BSP) /\ pc[Me] \in FutexPcs /\ CallKey(Me) = m[Me]
  BY <1>1, <1>4 DEF UnlockWake, CondUnlockWake, LockWait, Pc, FutexPcs, CallKey
<1>5. ASSUME SignalWake(BSP) \/ BroadcastWake(BSP) \/ CondPark(BSP)
      PROVE  Ready(BSP) /\ pc[Me] \in FutexPcs /\ CallKey(Me) = v[Me]
  BY <1>1, <1>5 DEF SignalWake, BroadcastWake, CondPark, Pc, FutexPcs, CallKey
<1>6. ASSUME JoinWait(BSP)
      PROVE  Ready(BSP) /\ pc[Me] \in FutexPcs /\ CallKey(Me) = j[Me]
  BY <1>1, <1>6 DEF JoinWait, Pc, FutexPcs, CallKey, JoinKey
<1> QED
  BY <1>2, <1>3, <1>4, <1>5, <1>6

LEMMA LinkStep ==
  ASSUME NCpu = 1, BucketsUnshared, Known2, PthreadNext
  PROVE  LinkInv'
<1>1. Known /\ CpuInv /\ \A t \in Threads \ {Me} : Kept(t)
  BY OthersKept DEF Known2
<1>2. /\ \A x \in Mutexes \cup Conds \cup Pool : x \in Keys
      /\ MaxThr \in Nat \ {0} /\ 1 \in Nat \ {0}
  BY KeysAreKeys
<1>3. CASE LinksStill
  BY <1>3, StillLinks
<1>4. CASE FutexWakeOne(BSP) /\ UNCHANGED pvars
  BY <1>4, WakeOneLinks
<1>5. CASE UnlockWake(BSP) \/ CondUnlockWake(BSP) \/ SignalWake(BSP) \/ BroadcastWake(BSP)
  <2>1. PICK k \in FutexKeys, n \in Nat \ {0} : FutexPop(BSP, k, n) /\ Fits(k)
    BY <1>1, <1>2, <1>5, CallKeys, CallFits DEF FutexKeys
  <2> QED
    BY <1>1, <2>1, PopLinks
<1>6. CASE LockWait(BSP)
  BY <1>1, <1>2, <1>6, CallKeys, CallFits, SleepLinks DEF FutexKeys
<1>7. CASE CondPark(BSP)
  BY <1>1, <1>2, <1>7, CallKeys, CallFits, SleepLinks DEF FutexKeys
<1>8. CASE JoinWait(BSP)
  BY <1>1, <1>2, <1>8, CallKeys, CallFits, SleepLinks
<1> QED
  BY <1>1, <1>3, <1>4, <1>5, <1>6, <1>7, <1>8, Kinds

-----------------------------------------------------------------------------
(***************************************************************************)
(* Part 4: joins.                                                          *)
(***************************************************************************)
JoinStill ==
  /\ UNCHANGED <<refused, joined, pool_n, joiner>>
  /\ at[Me] # "wake" /\ at'[Me'] # "wake"
  /\ \A t \in Threads :
       /\ Joining(t) \/ Joining(t)' => pc'[t] = pc[t] /\ j'[t] = j[t]
       /\ pc[t] = "join" => (state'[t] = "WAITING" <=> state[t] = "WAITING")
       /\ state'[t] = "DONE" <=> state[t] = "DONE"

LEMMA JoinersTyped ==
  ASSUME NCpu = 1, Known2
  PROVE  /\ \A t \in Threads : /\ joiner[t] \in Threads \cup {NoThread}
                               /\ Joining(t) => j[t] \in Pool /\ j[t] \in Threads
         /\ NoThread \notin Threads /\ pool_n \in Nat /\ pool_n <= MaxThr
         /\ \A t \in 1..pool_n : t \in Threads /\ t \in Pool
         /\ Me \in Threads /\ Me = cur[BSP] /\ BSP \in CPUs
<1>1. pool_n \in Nat /\ pool_n <= MaxThr
  BY DEF Known2, Known, PInv, GInv, TypeOK, OneInv, NewThreads
<1>2. \A t \in 1..pool_n : t \in Threads /\ t \in Pool
  BY <1>1 DEF Threads, Pool
<1> QED
  BY <1>1, <1>2, OnTheCpu, KeysAreKeys
     DEF Known2, Known, PInv, GInv, TypeOK, CallsTyped, Joining

LEMMA JoinStillStep ==
  ASSUME NCpu = 1, Known2, JoinStill
  PROVE  JoinInv'
<1> USE DEF Joining
<1>1. /\ \A t \in Threads : /\ joiner[t] \in Threads \cup {NoThread}
                            /\ Joining(t) => j[t] \in Threads
      /\ NoThread \notin Threads
  BY JoinersTyped
<1>2. \A t \in Threads : /\ Joining(t)' <=> Joining(t)
                         /\ Joining(t) => pc'[t] = pc[t] /\ j'[t] = j[t]
  BY DEF JoinStill
<1>3. JoinTargets'
  BY <1>2 DEF JoinStill, Known2, JoinInv, JoinTargets
<1>4. ASSUME NEW x \in Threads, joiner[x] # NoThread
      PROVE  /\ x \in 1..pool_n' /\ state'[x] # "DONE"
             /\ j'[joiner[x]] = x
             /\ \/ pc'[joiner[x]] = "jwait"
                \/ pc'[joiner[x]] = "join" /\ state'[joiner[x]] = "WAITING"
  BY <1>1, <1>2, <1>4 DEF JoinStill, Known2, JoinInv, Registered
<1>5. \A t \in Threads : pc'[t] = "jwait" => joiner'[j'[t]] = t
  BY <1>2 DEF JoinStill, Known2, JoinInv, Registered
<1>6. \A t \in Threads : pc'[t] = "join" /\ state'[t] = "WAITING" => joiner'[j'[t]] = t
  BY <1>2 DEF JoinStill, Known2, JoinInv, Registered
<1> QED
  BY <1>3, <1>4, <1>5, <1>6 DEF JoinInv, Registered, JoinStill

LEMMA JoinCallStep ==
  ASSUME NCpu = 1, Known2, NEW t \in Pool, JoinCall(BSP, t)
  PROVE  JoinInv'
<1> USE DEF Joining
<1>1. /\ Me \in Threads /\ Me = cur[BSP] /\ NoThread \notin Threads
      /\ \A u \in Threads : joiner[u] \in Threads \cup {NoThread}
  BY JoinersTyped
<1>2. /\ pc[Me] = "app" /\ at[Me] = "run" /\ t \in 1..pool_n /\ t # Me /\ t \notin joined
      /\ joined' = joined \cup {t} /\ j' = [j EXCEPT ![Me] = t]
      /\ pc' = [pc EXCEPT ![Me] = "join"] /\ Me' = Me
      /\ UNCHANGED <<state, at, target, joiner, pool_n, refused>>
  BY <1>1 DEF JoinCall, Pc, Ready, At, Local, Go, futexVars, vars, Me
<1>3. /\ pc'[Me] = "join" /\ j'[Me] = t
      /\ \A u \in Threads \ {Me} : pc'[u] = pc[u] /\ j'[u] = j[u]
  BY <1>1, <1>2 DEF Known2, Known, PInv, CallsTyped
<1>4. state[Me] = "RUNNING"
  BY <1>2, OnTheCpu DEF Known2, Known
<1>5. JoinTargets'
  BY <1>2, <1>3 DEF Known2, JoinInv, JoinTargets
<1>6. Registered'
  BY <1>1, <1>2, <1>3, <1>4 DEF Known2, JoinInv, Registered
<1> QED
  BY <1>5, <1>6 DEF JoinInv

\* The joiner is not refused: it alone names the target, and it is not registered.
LEMMA JoinAnsweredStep ==
  ASSUME NCpu = 1, Known2, JoinAnswered(BSP)
  PROVE  JoinInv'
<1> USE DEF Joining
<1>1. /\ Me \in Threads /\ Me = cur[BSP] /\ NoThread \notin Threads
      /\ \A u \in Threads : joiner[u] \in Threads \cup {NoThread}
      /\ pc[Me] = "join" => j[Me] \in Threads
  BY JoinersTyped
<1>2. /\ pc[Me] = "join" /\ at[Me] = "run" /\ TryJoin(j[Me]) # 0
      /\ refused' = IF TryJoin(j[Me]) = -1 THEN refused \cup {Me} ELSE refused
      /\ j' = [j EXCEPT ![Me] = Nothing] /\ pc' = [pc EXCEPT ![Me] = "app"] /\ Me' = Me
      /\ UNCHANGED <<state, at, target, joiner, pool_n, joined>>
  BY <1>1 DEF JoinAnswered, Pc, Ready, At, Local, Go, futexVars, vars, Me
<1>3. state[Me] = "RUNNING"
  BY <1>2, OnTheCpu DEF Known2, Known
<1>4. joiner[j[Me]] = NoThread
  <2> SUFFICES ASSUME joiner[j[Me]] # NoThread PROVE FALSE
    OBVIOUS
  <2>1. joiner[j[Me]] \in Threads /\ Joining(joiner[j[Me]]) /\ j[joiner[j[Me]]] = j[Me]
    BY <1>1, <1>2 DEF Known2, JoinInv, Registered
  <2>2. joiner[j[Me]] = Me
    BY <1>1, <1>2, <2>1 DEF Known2, JoinInv, JoinTargets
  <2> QED
    BY <1>1, <1>2, <1>3, <2>2 DEF Known2, JoinInv, Registered
<1>5. state[j[Me]] = "DONE" /\ TryJoin(j[Me]) = 1
  BY <1>2, <1>4 DEF TryJoin
<1>6. /\ pc'[Me] = "app" /\ refused' = refused
      /\ \A u \in Threads \ {Me} : pc'[u] = pc[u] /\ j'[u] = j[u]
  BY <1>1, <1>2, <1>5 DEF Known2, Known, PInv, CallsTyped
<1>7. JoinTargets'
  BY <1>2, <1>6 DEF Known2, JoinInv, JoinTargets
<1>8. Registered'
  BY <1>1, <1>2, <1>3, <1>6 DEF Known2, JoinInv, Registered
<1> QED
  BY <1>7, <1>8 DEF JoinInv

LEMMA JoinRegisterStep ==
  ASSUME NCpu = 1, Known2, JoinRegister(BSP)
  PROVE  JoinInv'
<1> USE DEF Joining
<1>1. /\ Me \in Threads /\ Me = cur[BSP] /\ NoThread \notin Threads
      /\ \A u \in Threads : joiner[u] \in Threads \cup {NoThread}
      /\ \A u \in Threads : Joining(u) => j[u] \in Threads
  BY JoinersTyped
<1>2. /\ pc[Me] = "join" /\ at[Me] = "run" /\ j[Me] \in 1..pool_n /\ state[j[Me]] # "DONE"
      /\ joiner[j[Me]] = NoThread /\ joiner' = [joiner EXCEPT ![j[Me]] = Me]
      /\ pc' = [pc EXCEPT ![Me] = "jwait"] /\ Me' = Me
      /\ UNCHANGED <<state, at, target, pool_n, joined, refused, j>>
  BY <1>1 DEF JoinRegister, Register, Pc, Ready, At, Go, Me, ghosts
<1>3. state[Me] = "RUNNING"
  BY <1>2, OnTheCpu DEF Known2, Known
<1>4. /\ pc'[Me] = "jwait" /\ \A u \in Threads \ {Me} : pc'[u] = pc[u]
      /\ joiner'[j[Me]] = Me /\ \A x \in Threads \ {j[Me]} : joiner'[x] = joiner[x]
  BY <1>1, <1>2 DEF Known2, Known, PInv, CallsTyped, GInv, TypeOK
<1>5. JoinTargets'
  BY <1>2, <1>4 DEF Known2, JoinInv, JoinTargets
<1>6. \A x \in Threads : joiner'[x] # NoThread =>
        /\ x \in 1..pool_n /\ state[x] # "DONE" /\ j[joiner'[x]] = x
        /\ \/ pc'[joiner'[x]] = "jwait"
           \/ pc'[joiner'[x]] = "join" /\ state[joiner'[x]] = "WAITING"
  <2> TAKE x \in Threads
  <2>1. CASE x = j[Me]
    BY <1>2, <1>4, <2>1
  <2>2. CASE x # j[Me]
    BY <1>1, <1>4, <2>2 DEF Known2, JoinInv, Registered
  <2> QED
    BY <2>1, <2>2
<1>7. \A t \in Threads \ {Me} : Joining(t) => joiner'[j[t]] = joiner[j[t]]
  BY <1>1, <1>2, <1>4 DEF Known2, JoinInv, JoinTargets
<1>8. Registered'
  BY <1>2, <1>3, <1>4, <1>6, <1>7 DEF Known2, JoinInv, Registered
<1> QED
  BY <1>5, <1>8 DEF JoinInv

LEMMA JoinWaitStep ==
  ASSUME NCpu = 1, Known2, JoinWait(BSP)
  PROVE  JoinInv'
<1> USE DEF Joining
<1>1. /\ Me \in Threads /\ Me = cur[BSP] /\ NoThread \notin Threads /\ BSP \in CPUs
      /\ \A u \in Threads : joiner[u] \in Threads \cup {NoThread}
      /\ \A u \in Threads : Joining(u) => j[u] \in Threads
  BY JoinersTyped
<1>2. /\ pc[Me] = "jwait" /\ at[Me] = "run" /\ state' = [state EXCEPT ![Me] = "WAITING"]
      /\ at' = [at EXCEPT ![Me] = "check"]
      /\ pc' = [pc EXCEPT ![Me] = "join"] /\ Me' = Me
      /\ UNCHANGED <<joiner, target, pool_n, joined, refused, j>>
  BY <1>1 DEF JoinWait, FutexWait, Park, Goto, Pc, Ready, At, Go, Me, ghosts
<1>3. /\ pc'[Me] = "join" /\ state'[Me] = "WAITING" /\ at'[Me] = "check"
      /\ \A u \in Threads \ {Me} : pc'[u] = pc[u] /\ state'[u] = state[u]
  BY <1>1, <1>2 DEF Known2, Known, PInv, CallsTyped, GInv, TypeOK
<1>4. JoinTargets'
  BY <1>2, <1>3 DEF Known2, JoinInv, JoinTargets
<1>5. Registered'
  BY <1>1, <1>2, <1>3 DEF Known2, JoinInv, Registered
<1> QED
  BY <1>4, <1>5 DEF JoinInv

\* The exiting thread hands its joiner to sched_make_runnable.
LEMMA ExitStep ==
  ASSUME NCpu = 1, Known2, ThreadExit(BSP)
  PROVE  JoinInv'
<1> USE DEF Joining
<1>1. /\ Me \in Threads /\ Me = cur[BSP] /\ NoThread \notin Threads
      /\ \A u \in Threads : joiner[u] \in Threads \cup {NoThread}
      /\ \A u \in Threads : Joining(u) => j[u] \in Threads
  BY JoinersTyped
<1>2. /\ pc[Me] = "app" /\ at[Me] = "run" /\ state' = [state EXCEPT ![Me] = "DONE"]
      /\ target' = [target EXCEPT ![Me] = joiner[Me]]
      /\ joiner' = [joiner EXCEPT ![Me] = NoThread]
      /\ at' = [at EXCEPT ![Me] = IF joiner[Me] = NoThread THEN "check" ELSE "wake"]
      /\ Me' = Me /\ UNCHANGED <<pc, pool_n, joined, refused, j>>
  BY <1>1 DEF ThreadExit, Exit, Goto, Pc, Ready, At, Me, pvars, ghosts
<1>3. /\ state'[Me] = "DONE" /\ target'[Me] = joiner[Me] /\ joiner'[Me] = NoThread
      /\ at'[Me] = IF joiner[Me] = NoThread THEN "check" ELSE "wake"
      /\ \A u \in Threads \ {Me} : state'[u] = state[u] /\ joiner'[u] = joiner[u]
  BY <1>1, <1>2 DEF Known2, Known, PInv, GInv, TypeOK
<1>4. JoinTargets'
  BY <1>2 DEF Known2, JoinInv, JoinTargets
<1>5. \A x \in Threads : joiner'[x] # NoThread =>
        /\ x \in 1..pool_n /\ state'[x] # "DONE" /\ j[joiner'[x]] = x
        /\ \/ pc[joiner'[x]] = "jwait"
           \/ pc[joiner'[x]] = "join" /\ state'[joiner'[x]] = "WAITING"
  BY <1>1, <1>2, <1>3 DEF Known2, JoinInv, Registered
<1>6. \A t \in Threads : pc[t] # "jwait"
  BY <1>2 DEF Known2, CpuInv, AtRest, RestPcs
<1>7. ASSUME NEW t \in Threads, pc[t] = "join", state'[t] = "WAITING"
      PROVE  joiner'[j[t]] = t \/ (at'[Me] = "wake" /\ target'[Me] = t)
  <2>1. t # Me /\ joiner[j[t]] = t /\ j[t] \in Threads
    BY <1>1, <1>2, <1>3, <1>7 DEF Known2, JoinInv, Registered
  <2> QED
    BY <1>1, <1>3, <2>1
<1>8. ASSUME at'[Me] = "wake", state'[target'[Me]] = "WAITING"
      PROVE  pc[target'[Me]] = "join" /\ state'[j[target'[Me]]] = "DONE"
  <2>1. joiner[Me] \in Threads /\ j[joiner[Me]] = Me /\ pc[joiner[Me]] \in {"jwait", "join"}
    BY <1>1, <1>3, <1>8 DEF Known2, JoinInv, Registered
  <2> QED
    BY <1>3, <1>6, <2>1
<1>9. Registered'
  BY <1>2, <1>5, <1>6, <1>7, <1>8 DEF Registered
<1> QED
  BY <1>4, <1>9 DEF JoinInv

\* The slot of a new thread is not counted yet: nobody joins it.
LEMMA CreateStep ==
  ASSUME NCpu = 1, Known2,
         \/ Create(BSP)
         \/ (ClearSlot(BSP) \/ StoreFrame(BSP) \/ CountSlot(BSP)) /\ UNCHANGED pvars
  PROVE  JoinInv'
<1> USE DEF Joining
<1>1. /\ Me \in Threads /\ Me = cur[BSP] /\ NoThread \notin Threads
      /\ \A u \in Threads : joiner[u] \in Threads \cup {NoThread}
      /\ pool_n \in Nat /\ at \in [Threads -> Places]
      /\ GInv /\ OneInv
  BY JoinersTyped DEF Known2, Known, GInv, TypeOK
<1>2. UNCHANGED <<pc, j, joined, refused>>
  BY DEF Create, pvars, ghosts
<1>3. CASE Create(BSP)
  <2>1. /\ at[Me] = "run" /\ at' = [at EXCEPT ![Me] = "clear"] /\ Me' = Me
        /\ UNCHANGED <<state, joiner, pool_n>>
    BY <1>1, <1>3 DEF Create, Calling, Pc, Ready, At, Spawn, Goto, Me
  <2>2. JoinStill
    BY <1>1, <1>2, <2>1 DEF JoinStill
  <2> QED
    BY <2>2, JoinStillStep
<1>5. CASE (ClearSlot(BSP) \/ StoreFrame(BSP)) /\ UNCHANGED pvars
  <2>1. /\ at[Me] \in {"clear", "frame"} /\ Me' = Me /\ pool_n' = pool_n
        /\ \E p \in {"frame", "count"} : at' = [at EXCEPT ![Me] = p]
    BY <1>1, <1>5 DEF ClearSlot, StoreFrame, At, Goto, Me
  <2>2. /\ state[target[Me]] = "EMPTY" /\ target[Me] \in Threads
        /\ target[Me] \notin 1..pool_n
    <3>1. /\ state[target[Me]] = "EMPTY" /\ target[Me] \in Threads
          /\ target[Me] = pool_n + 1
      BY <1>1, <2>1, FreshSlot
    <3> QED
      BY <1>1, <3>1
  <2>3. joiner[target[Me]] = NoThread
    BY <1>1, <2>2 DEF Known2, JoinInv, Registered
  <2>4. state' = state /\ joiner' = joiner
    BY <1>1, <1>5, <2>2, <2>3 DEF ClearSlot, StoreFrame, GInv, TypeOK
  <2>5. JoinStill
    BY <1>1, <1>2, <2>1, <2>4 DEF JoinStill
  <2> QED
    BY <2>5, JoinStillStep
<1>4. CASE CountSlot(BSP) /\ UNCHANGED pvars
  <2>1. /\ at[Me] = "count" /\ at' = [at EXCEPT ![Me] = "wake"] /\ Me' = Me
        /\ pool_n' \in {pool_n + 1, target[Me]} /\ UNCHANGED <<state, joiner, target>>
    BY <1>1, <1>4 DEF CountSlot, At, Goto, Me
  <2>2. pool_n' = pool_n + 1 /\ at'[Me] = "wake"
    BY <1>1, <2>1, FreshSlot
  <2>3. state[target[Me]] = "EMPTY"
    BY <1>1, <2>1, FreshSlot
  <2>4. \A x \in 1..pool_n : x \in 1..pool_n'
    BY <1>1, <2>2
  <2>5. JoinTargets'
    BY <1>2, <2>4 DEF Known2, JoinInv, JoinTargets
  <2>6. Registered'
    BY <1>2, <2>1, <2>2, <2>3, <2>4 DEF Known2, JoinInv, Registered
  <2> QED
    BY <2>5, <2>6 DEF JoinInv
<1> QED
  BY <1>3, <1>4, <1>5

\* The joiner wakes; nothing points to it any more.
LEMMA WakeTargetStep ==
  ASSUME NCpu = 1, Known2, WakeTarget(BSP), UNCHANGED pvars
  PROVE  JoinInv'
<1> USE DEF Joining
<1>1. /\ Me \in Threads /\ Me = cur[BSP] /\ NoThread \notin Threads
      /\ \A u \in Threads : joiner[u] \in Threads \cup {NoThread}
      /\ \A u \in Threads : Joining(u) => j[u] \in Threads
  BY JoinersTyped
<1>2. /\ at[Me] = "wake" /\ at' = [at EXCEPT ![Me] = "kick"] /\ Me' = Me
      /\ target[Me] \in Threads /\ MakeRunnable(target[Me])
      /\ UNCHANGED <<pc, j, joined, refused, pool_n, joiner>>
  BY <1>1 DEF WakeTarget, At, Goto, Me, pvars, ghosts, Known2, Known, PInv, GInv, TypeOK
<1>3. /\ \A t \in Threads \ {target[Me]} : state'[t] = state[t]
      /\ state[target[Me]] \in {"WAITING", "EMPTY"} => state'[target[Me]] = "RUNNABLE"
      /\ state[target[Me]] \notin {"WAITING", "EMPTY"} => state'[target[Me]] = state[target[Me]]
      /\ at'[Me] = "kick"
  BY <1>1, <1>2 DEF MakeRunnable, Known2, Known, PInv, GInv, TypeOK
<1>4. JoinTargets'
  BY <1>2 DEF Known2, JoinInv, JoinTargets
<1>5. state[target[Me]] \in {"WAITING", "EMPTY"} =>
        \A x \in Threads : joiner[x] # target[Me]
  <2> SUFFICES ASSUME state[target[Me]] \in {"WAITING", "EMPTY"}, NEW x \in Threads,
                      joiner[x] = target[Me]
               PROVE  FALSE
    OBVIOUS
  <2>1. state[x] # "DONE" /\ j[target[Me]] = x
    BY <1>1, <1>2 DEF Known2, JoinInv, Registered
  <2>2. CASE state[target[Me]] = "WAITING"
    BY <1>2, <2>1, <2>2 DEF Known2, JoinInv, Registered
  <2>3. CASE state[target[Me]] = "EMPTY"
    BY <1>1, <1>2, <2>3 DEF Known2, Known, OneInv, NewThreads
  <2> QED
    BY <2>2, <2>3
<1>6. \A x \in Threads : joiner[x] # NoThread =>
        /\ x \in 1..pool_n /\ state'[x] # "DONE" /\ j[joiner[x]] = x
        /\ \/ pc[joiner[x]] = "jwait"
           \/ pc[joiner[x]] = "join" /\ state'[joiner[x]] = "WAITING"
  BY <1>1, <1>3, <1>5 DEF Known2, JoinInv, Registered
<1>7. \A t \in Threads : pc[t] = "join" /\ state'[t] = "WAITING" => joiner[j[t]] = t
  BY <1>2, <1>3 DEF Known2, JoinInv, Registered
<1>8. Registered'
  BY <1>2, <1>3, <1>6, <1>7 DEF Known2, JoinInv, Registered
<1> QED
  BY <1>4, <1>8 DEF JoinInv

LEMMA InsideJoins ==
  ASSUME NCpu = 1, Known2, Inside(BSP), UNCHANGED pvars
  PROVE  JoinInv'
<1> USE DEF Goto, Home, At
<1>1. /\ Me \in Threads /\ Me = cur[BSP] /\ BSP \in CPUs
  BY JoinersTyped
<1>2. /\ state \in [Threads -> States] /\ at \in [Threads -> Places] /\ state[Me] # "RUNNABLE"
  BY OnTheCpu DEF Known2, Known, PInv, GInv, TypeOK
<1>3. \A t : Joining(t)' = Joining(t) /\ pc'[t] = pc[t] /\ j'[t] = j[t]
  BY DEF pvars, Joining
<1>4. ASSUME UNCHANGED <<pool_n, joiner>>, at[Me] # "wake", at'[Me'] # "wake",
             \A t \in Threads : \/ state'[t] = state[t]
                                \/ state[t] = "RUNNABLE" /\ state'[t] = "RUNNING"
      PROVE  JoinInv'
  <2>1. JoinStill
    BY <1>3, <1>4 DEF JoinStill, pvars, ghosts
  <2> QED
    BY <2>1, JoinStillStep
<1>5. UNCHANGED cur => Me' = Me
  BY DEF Me
<1>6. CASE ClearSlot(BSP) \/ StoreFrame(BSP) \/ CountSlot(BSP)
  BY <1>6, CreateStep
<1>7. CASE WakeTarget(BSP)
  BY <1>7, WakeTargetStep
<1>8. CASE KickAfterWake(BSP) \/ LookAtState(BSP) \/ PopNext(BSP) \/ PopNone(BSP)
           \/ LeaveHlt(BSP) \/ LoadSp(BSP)
  BY <1>1, <1>2, <1>4, <1>5, <1>8
  DEF KickAfterWake, LookAtState, WokenBeforeSleep, StillAsleep, PopNext, PopNone, LeaveHlt, LoadSp
<1>9. CASE SetRunning(BSP)
  <2>1. nxt[Me] \in Threads /\ state[nxt[Me]] = "RUNNABLE"
    BY <1>1, <1>9 DEF SetRunning, Known2, Known, PInv, GInv, TypeOK, OneInv, DispatchSaved
  <2> QED
    BY <1>1, <1>2, <1>4, <1>5, <1>9, <2>1 DEF SetRunning
<1>10. CASE Switch(BSP)
  <2>1. /\ at[Me] = "switch" /\ nxt[Me] \in Threads /\ saved[nxt[Me]]
    BY <1>1, <1>10 DEF Switch, Known2, Known, PInv, GInv, TypeOK, OneInv, DispatchSaved
  <2>2. /\ at' = [at EXCEPT ![Me] = Home(Me)] /\ Me' = nxt[Me] /\ nxt[Me] # Me
        /\ UNCHANGED <<state, pool_n, joiner>>
    BY <1>1, <1>10, <2>1 DEF Switch, Me, Known2, Known, PInv, GInv, TypeOK
  <2>3. at[nxt[Me]] \in {"run", "check"}
    BY <2>1, <2>2 DEF Known2, Known, GInv, SuspendedAtHome
  <2> QED
    BY <1>2, <1>4, <2>1, <2>2, <2>3
<1> QED
  BY <1>6, <1>7, <1>8, <1>9, <1>10 DEF Inside

LEMMA JoinStep ==
  ASSUME NCpu = 1, Known2, PthreadNext
  PROVE  JoinInv'
<1>1. /\ CPUs = {BSP} /\ Me = cur[BSP] /\ Me \in Threads /\ BSP \in CPUs
      /\ at[Me] = "run" => state[Me] = "RUNNING"
      /\ state \in [Threads -> States] /\ pc \in [Threads -> Pcs]
  BY OnTheCpu DEF Known2, Known, PInv, GInv, TypeOK, CallsTyped
<1>2. Below(BSP) \/ Mutex(BSP) \/ Cond(BSP) \/ Lifecycle(BSP) \/ Once(BSP)
  BY <1>1 DEF PthreadNext
<1>3. \A t \in Threads \ {Me} : Kept(t)
  BY OthersKept DEF Known2
\* A step in a call that is no join.
<1>4. ASSUME UNCHANGED <<refused, joined, pool_n, joiner, cur>>, at[Me] = "run", at'[Me] # "wake",
             pc[Me] \notin {"join", "jwait"}, pc'[Me] \notin {"join", "jwait"},
             \A t \in Threads \ {Me} : state'[t] = state[t],
             state'[Me] \in {"RUNNING", "WAITING"}
      PROVE  JoinInv'
  <2>1. JoinStill
    BY <1>1, <1>3, <1>4 DEF JoinStill, Kept, Joining, Me
  <2> QED
    BY <2>1, JoinStillStep DEF Known2
<1>5. ASSUME UNCHANGED <<refused, joined>>, UNCHANGED vars, at[Me] = "run",
             pc[Me] \notin {"join", "jwait"}, NEW p \in Pcs \ {"join", "jwait"},
             pc' = [pc EXCEPT ![Me] = p]
      PROVE  JoinInv'
  BY <1>1, <1>4, <1>5 DEF vars
<1>6. ASSUME UNCHANGED <<refused, joined>>, NEW k \in Keys, FutexWait(BSP, k),
             pc[Me] \notin {"join", "jwait"}, pc'[Me] \notin {"join", "jwait"}
      PROVE  JoinInv'
  <2>1. /\ state' = [state EXCEPT ![Me] = "WAITING"] /\ at' = [at EXCEPT ![Me] = "check"]
        /\ at[Me] = "run" /\ UNCHANGED <<pool_n, joiner, cur>>
    BY <1>1, <1>6 DEF FutexWait, Park, Goto, At
  <2>2. at'[Me] = "check" /\ state'[Me] = "WAITING"
    BY <1>1, <2>1 DEF Known2, Known, PInv, GInv, TypeOK
  <2> QED
    BY <1>1, <1>4, <1>6, <2>1, <2>2
<1>7. CASE Below(BSP)
  <2>1. CASE Inside(BSP) /\ UNCHANGED bucketVars
    BY <1>7, <2>1, InsideJoins DEF Below
  <2>2. CASE FutexWakeOne(BSP)
    <3>1. /\ list[Me] \in Listed /\ state' = [state EXCEPT ![list[Me]] = "RUNNABLE"]
      BY <1>7, <2>2, WakeOneLinks DEF Below
    <3>2. state[list[Me]] = "WAITING" /\ pc[list[Me]] # "join" /\ list[Me] \in Threads
      <4>1. Listed \subseteq Threads
        BY DEF Listed, On
      <4> QED
        BY <3>1, <4>1 DEF Known2, LinkInv, ListExact
    <3>3. /\ UNCHANGED <<refused, joined, pool_n, joiner, at, pc, j>> /\ at[Me] = "run" /\ Me' = Me
      BY <1>1, <1>7, <2>2 DEF Below, FutexWakeOne, Wake, At, pvars, ghosts, Me
    <3>4. JoinStill
      BY <1>1, <3>1, <3>2, <3>3 DEF JoinStill, Joining
    <3> QED
      BY <3>4, JoinStillStep
  <2>3. CASE FutexKick(BSP)
    <3>1. /\ UNCHANGED <<refused, joined, pool_n, joiner, at, pc, j, state>> /\ at[Me] = "run"
          /\ Me' = Me
      BY <1>1, <1>7, <2>3 DEF Below, FutexKick, Kick, At, pvars, ghosts, Me
    <3>2. JoinStill
      BY <3>1 DEF JoinStill, Joining
    <3> QED
      BY <3>2, JoinStillStep
  <2> QED
    BY <1>7, <2>1, <2>2, <2>3 DEF Below
<1> USE <1>1 DEF Pc, Ready, At, Go, Calling, ghosts, futexVars
<1>8. pc = [pc EXCEPT ![Me] = pc[Me]] /\ pc[Me] \in Pcs
  BY <1>1
<1>9. CASE Mutex(BSP)
  <2>1. CASE LockWait(BSP)
    <3>1. m[Me] \in Keys /\ FutexWait(BSP, m[Me]) /\ pc[Me] = "mwait" /\ pc'[Me] = "lock"
      BY <2>1, CallKeys, KeysAreKeys DEF Known2
    <3> QED
      BY <1>6, <2>1, <3>1 DEF LockWait
  <2>2. CASE UnlockWake(BSP)
    BY <1>5, <2>2 DEF UnlockWake, FutexPop, Pcs
  <2> QED
    BY <1>5, <1>8, <1>9, <2>1, <2>2
    DEF Mutex, LockCall, TryLock, Unlock, Release, Acquire, AcquireFails, Pcs
<1>10. CASE Cond(BSP)
  <2>1. CASE CondPark(BSP)
    <3>1. v[Me] \in Keys /\ FutexWait(BSP, v[Me]) /\ pc[Me] = "cw_wait" /\ pc'[Me] = "cw_parked"
      BY <2>1, CallKeys, KeysAreKeys DEF Known2
    <3> QED
      BY <1>6, <2>1, <3>1 DEF CondPark
  <2>2. CASE CondUnlockWake(BSP) \/ SignalWake(BSP) \/ BroadcastWake(BSP)
    BY <1>5, <2>2 DEF CondUnlockWake, SignalWake, BroadcastWake, FutexPop, Pcs
  <2> QED
    BY <1>5, <1>10, <2>1, <2>2, NeverRechecked
    DEF Cond, Signal, Broadcast, Bump, CondWait, CondUnlock, Release, CondRecheckSame, Pcs,
        Known2, Known
<1>11. CASE Lifecycle(BSP)
  <2>1. ASSUME NEW t \in Pool, JoinCall(BSP, t) PROVE JoinInv'
    BY <2>1, JoinCallStep
  <2>2. CASE Create(BSP)
    BY <2>2, CreateStep
  <2> QED
    BY <1>11, <2>1, <2>2, ExitStep, JoinAnsweredStep, JoinRegisterStep, JoinWaitStep DEF Lifecycle
<1>12. CASE Once(BSP)
  BY <1>5, <1>8, <1>12 DEF Once, OnceFast, OnceCall, OnceLock, OnceRun, OnceStore, OnceUnlock, Pcs
<1> QED
  BY <1>2, <1>7, <1>9, <1>10, <1>11, <1>12

-----------------------------------------------------------------------------
(***************************************************************************)
(* Part 5: mutexes.  While a free mutex has sleepers, a thread is on its   *)
(* way to take it, or the futex_wake of its unlock is still to come.       *)
(***************************************************************************)
Coming(x) ==
  \/ \E u \in Threads : pc[u] = "lock" /\ m[u] = x /\ (state[u] # "WAITING" \/ u \in Listed)
  \/ pc[Me] \in {"uwake", "cw_wake"} /\ m[Me] = x

MutexKept ==
  /\ \A x \in Mutexes : w[x] = 0 /\ SleepersOn(x) # {} => Coming(x)
  /\ pc[Me] = "mwait" => w[m[Me]] = 1

\* What the steps that are no futex call have in common.
LEMMA StillUnless ==
  ASSUME NCpu = 1, Known, CpuInv, PthreadNext, ~FutexWakeOne(BSP),
         Ready(BSP) => pc[Me] \notin {"uwake", "cw_wake", "swake", "bwake", "mwait", "cw_wait", "jwait"}
  PROVE  LinksStill
<1>1. Me = cur[BSP]
  BY DEF Me
<1> QED
  BY <1>1, Kinds DEF UnlockWake, CondUnlockWake, SignalWake, BroadcastWake, LockWait, CondPark,
     JoinWait, Pc

\* Those on their way to a mutex stay on it.
LEMMA ComingStill ==
  ASSUME NCpu = 1, Known2, MutexKept, NEW x \in Mutexes,
         w'[x] = 0 => w[x] = 0, SleepersOn(x)' \subseteq SleepersOn(x),
         \A u \in Threads : pc[u] = "lock" /\ m[u] = x =>
           /\ pc'[u] = "lock" /\ m'[u] = x
           /\ state[u] # "WAITING" \/ u \in Listed => state'[u] # "WAITING" \/ u \in Listed',
         pc[Me] \in {"uwake", "cw_wake"} /\ m[Me] = x => Me' = Me /\ pc'[Me] = pc[Me] /\ m'[Me] = x,
         w'[x] = 0, SleepersOn(x)' # {}
  PROVE  Coming(x)'
<1>1. Coming(x)
  BY DEF MutexKept
<1> QED
  BY <1>1 DEF Coming

LEMMA MutexRest ==
  ASSUME NCpu = 1, Known2, MutexKept, LinksStill,
         UNCHANGED w, \A t \in Threads \ {Me} : Kept(t),
         \/ UNCHANGED pvars /\ Me' \in Threads /\ (Me' = Me \/ at[Me] # "run")
         \/ Me' = Me /\ pc[Me] \notin {"lock", "uwake", "cw_wake"} /\ pc'[Me] # "mwait"
  PROVE  MutexKept'
<1>1. /\ Listed' = Listed /\ \A x \in Mutexes : SleepersOn(x)' = SleepersOn(x)
      /\ \A u \in Threads : state[u] # "WAITING" => state'[u] # "WAITING"
  BY StillLinks DEF FutexKeys, LinksStill
<1>2. \A u \in Threads : pc[u] = "lock" => pc'[u] = "lock" /\ m'[u] = m[u]
  BY DEF Kept, pvars
<1>3. at[Me] # "run" => pc[Me] \in RestPcs
  BY DEF Known2, CpuInv, AtRest
<1>4. pc[Me] \in {"uwake", "cw_wake"} => Me' = Me /\ pc'[Me] = pc[Me] /\ m'[Me] = m[Me]
  BY <1>3 DEF RestPcs, pvars
<1>5. ASSUME NEW x \in Mutexes, w'[x] = 0, SleepersOn(x)' # {} PROVE Coming(x)'
  BY <1>1, <1>2, <1>4, <1>5, ComingStill
<1>6. pc'[Me'] = "mwait" => w'[m'[Me']] = 1
  <2>1. CASE Me' = Me
    BY <2>1 DEF MutexKept, pvars
  <2>2. CASE Me' # Me /\ UNCHANGED pvars /\ at[Me] # "run"
    <3>1. \A t \in Threads : pc[t] \in RestPcs
      BY <1>3, <2>2 DEF Known2, CpuInv, AtRest
    <3> QED
      BY <2>2, <3>1 DEF RestPcs, pvars
  <2> QED
    BY <2>1, <2>2
<1> QED
  BY <1>5, <1>6 DEF MutexKept

LEMMA NextMe ==
  ASSUME NCpu = 1, Known, PthreadNext
  PROVE  Me' \in Threads
<1>1. PInv' /\ BSP \in CPUs
  BY StepPInv DEF Known, CPUs
<1> QED
  BY <1>1 DEF PInv, TypeOK, Me

LEMMA MutexKeptStep ==
  ASSUME NCpu = 1, BucketsUnshared, Known2, MutexKept, PthreadNext
  PROVE  MutexKept'
<1>1. /\ CPUs = {BSP} /\ Me = cur[BSP] /\ Me \in Threads /\ BSP \in CPUs
      /\ w \in [Mutexes -> {0, 1}] /\ pc \in [Threads -> Pcs]
      /\ m \in [Threads -> Mutexes \cup {Nothing}]
      /\ pc[Me] \in MutexPlaces => m[Me] \in Mutexes
  BY OnTheCpu DEF Known2, Known, PInv, MutexInv, CallsTyped
<1>2. Below(BSP) \/ Mutex(BSP) \/ Cond(BSP) \/ Lifecycle(BSP) \/ Once(BSP)
  BY <1>1 DEF PthreadNext
<1>3. Known /\ CpuInv /\ \A t \in Threads \ {Me} : Kept(t)
  BY OthersKept DEF Known2
<1>4. UNCHANGED cur => Me' = Me
  BY DEF Me
<1>5. Ready(BSP) => phase[Me] = "out" /\ at[Me] = "run" /\ ~FutexWakeOne(BSP)
  BY <1>1 DEF Ready, At, FutexWakeOne
\* A call that is no futex call and touches no mutex.
<1>6. ASSUME Ready(BSP), UNCHANGED <<w, cur>>,
             pc[Me] \notin {"lock", "uwake", "cw_wake", "swake", "bwake", "mwait", "cw_wait", "jwait"},
             pc'[Me] # "mwait"
      PROVE  MutexKept'
  <2>1. LinksStill
    BY <1>3, <1>5, <1>6, StillUnless
  <2> QED
    BY <1>3, <1>4, <1>6, <2>1, MutexRest
<1>7. CASE Below(BSP)
  <2>1. CASE FutexWakeOne(BSP)
    <3>1. /\ list[Me] \in Listed /\ Listed' = Listed \ {list[Me]} /\ list[Me] \in Threads
          /\ state' = [state EXCEPT ![list[Me]] = "RUNNABLE"]
          /\ \A l \in FutexKeys : SleepersOn(l)' = SleepersOn(l) \ {list[Me]}
      <4>1. Listed \subseteq Threads
        BY DEF Listed, On
      <4> QED
        BY <1>7, <2>1, <4>1, WakeOneLinks DEF Below
    <3>2. UNCHANGED <<pc, m, w>> /\ Me' = Me
      BY <1>4, <1>7, <2>1 DEF Below, pvars, FutexWakeOne, Wake
    <3>3. \A u \in Threads : state[u] # "WAITING" \/ u \in Listed => state'[u] # "WAITING" \/ u \in Listed'
      BY <3>1 DEF Known2, Known, PInv, GInv, TypeOK
    <3>4. \A x \in Mutexes : SleepersOn(x)' \subseteq SleepersOn(x)
      BY <3>1 DEF FutexKeys
    <3>5. ASSUME NEW x \in Mutexes, w'[x] = 0, SleepersOn(x)' # {} PROVE Coming(x)'
      BY <3>2, <3>3, <3>4, <3>5, ComingStill
    <3> QED
      BY <3>2, <3>5 DEF MutexKept
  <2>2. CASE Inside(BSP) \/ FutexKick(BSP)
    <3>1. Me' \in Threads
      BY <1>3, NextMe
    <3>2. CASE Inside(BSP)
      <4>1. at[Me] # "run"
        BY <1>1, <3>2 DEF Inside, ClearSlot, StoreFrame, CountSlot, WakeTarget, KickAfterWake,
           LookAtState, PopNext, PopNone, LeaveHlt, SetRunning, LoadSp, Switch, At
      <4>2. LinksStill
        BY <1>1, <1>3, <4>1, StillUnless DEF Ready, At, FutexWakeOne, Wake
      <4> QED
        BY <1>3, <1>7, <3>1, <4>1, <4>2, MutexRest DEF Below, pvars
    <3>3. CASE FutexKick(BSP)
      <4>1. LinksStill
        BY <1>1, <1>3, <3>3, StillUnless DEF Ready, FutexKick, FutexWakeOne
      <4> QED
        BY <1>3, <1>4, <1>7, <3>1, <3>3, <4>1, MutexRest DEF Below, pvars, FutexKick, Kick
    <3> QED
      BY <2>2, <3>2, <3>3
  <2> QED
    BY <1>7, <2>1, <2>2 DEF Below
<1>8. ASSUME NEW k \in FutexKeys, NEW n \in Nat \ {0}, FutexPop(BSP, k, n), Fits(k), UNCHANGED w,
             pc[Me] \in {"uwake", "cw_wake", "swake", "bwake"}, pc'[Me] # "mwait",
             k \in Conds => pc[Me] \in {"swake", "bwake"},
             k \in Mutexes => m[Me] = k
      PROVE  MutexKept'
  <2>1. /\ Listed = {} /\ \A l \in FutexKeys : SleepersOn(l)' = SleepersOn(l)
        /\ Listed' \subseteq SleepersOn(k) /\ (SleepersOn(k) # {} => Listed' # {})
    BY <1>3, <1>8, PopLinks
  <2>2. UNCHANGED <<state, cur>> /\ Me' = Me
    BY <1>4, <1>8 DEF FutexPop, vars
  <2>3. \A u \in Threads : pc[u] = "lock" => pc'[u] = "lock" /\ m'[u] = m[u]
    BY <1>3, <1>8 DEF Kept
  <2>4. ASSUME NEW x \in Mutexes, w'[x] = 0, SleepersOn(x)' # {}, x # k PROVE Coming(x)'
    <3>1. ~(pc[Me] \in {"uwake", "cw_wake"} /\ m[Me] = x)
      BY <1>8, <2>4 DEF FutexKeys
    <3> QED
      BY <1>8, <2>1, <2>2, <2>3, <2>4, <3>1, ComingStill DEF FutexKeys
  <2>5. ASSUME k \in Mutexes, SleepersOn(k)' # {} PROVE Coming(k)'
    <3>1. PICK u \in Listed' : u \in SleepersOn(k) /\ u \in Threads
      BY <2>1, <2>5 DEF SleepersOn
    <3>2. pc[u] = "lock" /\ m[u] = k
      BY <2>5, <3>1, ObjectsApart DEF SleepersOn, Known2, Known, PInv, CallsTyped, CondPlaces
    <3> QED
      BY <2>3, <3>1, <3>2 DEF Coming
  <2> QED
    BY <1>8, <2>2, <2>4, <2>5 DEF MutexKept
<1>9. ASSUME NEW k \in Keys, FutexWait(BSP, k), UNCHANGED w,
             pc[Me] \in {"mwait", "cw_wait", "jwait"}, pc'[Me] # "mwait",
             \A l \in FutexKeys : SleepersOn(l)' = SleepersOn(l) \cup (IF l = k THEN {Me} ELSE {}),
             Listed = {}, Listed' = {}, k \in Mutexes => w[k] = 1
      PROVE  MutexKept'
  <2>1. /\ Me' = Me /\ \A u \in Threads \ {Me} : state'[u] = state[u]
    BY <1>1, <1>4, <1>9 DEF FutexWait, Park, Known2, Known, PInv, GInv, TypeOK
  <2>2. ASSUME NEW x \in Mutexes, w'[x] = 0, SleepersOn(x)' # {} PROVE Coming(x)'
    <3>1. x # k /\ SleepersOn(x)' = SleepersOn(x)
      BY <1>9, <2>2 DEF FutexKeys
    <3>2. \A u \in Threads : pc[u] = "lock" => u # Me /\ pc'[u] = "lock" /\ m'[u] = m[u]
      BY <1>3, <1>9 DEF Kept
    <3> QED
      BY <1>9, <2>1, <2>2, <3>1, <3>2, ComingStill
  <2> QED
    BY <1>9, <2>1, <2>2 DEF MutexKept
\* A store to the word of mutex y, and the place that follows.
<1>10. ASSUME Ready(BSP), NEW y \in Mutexes, NEW b \in {0, 1}, w' = [w EXCEPT ![y] = b], UNCHANGED cur,
              pc[Me] \in {"app", "lock", "cw_unlock", "cw_parked"},
              pc[Me] = "lock" => m[Me] = y /\ b = 1,
              pc'[Me] = "mwait" => m'[Me] = y /\ b = 1,
              b = 0 => pc'[Me] \in {"uwake", "cw_wake"} /\ m'[Me] = y
       PROVE  MutexKept'
  <2>1. LinksStill /\ Me' = Me
    BY <1>3, <1>4, <1>5, <1>10, StillUnless
  <2>2. /\ Listed' = Listed /\ \A x \in Mutexes : SleepersOn(x)' = SleepersOn(x)
        /\ \A u \in Threads : state[u] # "WAITING" => state'[u] # "WAITING"
    BY <2>1, StillLinks DEF FutexKeys, LinksStill
  <2>3. /\ w'[y] = b /\ \A x \in Mutexes \ {y} : w'[x] = w[x]
    BY <1>1, <1>10
  <2>4. ASSUME NEW x \in Mutexes, w'[x] = 0, SleepersOn(x)' # {}, x # y PROVE Coming(x)'
    <3>1. \A u \in Threads : pc[u] = "lock" /\ m[u] = x => u # Me /\ pc'[u] = "lock" /\ m'[u] = x
      BY <1>3, <1>10, <2>4 DEF Kept
    <3> QED
      BY <1>10, <2>2, <2>3, <2>4, <3>1, ComingStill
  <2>5. b = 0 => Coming(y)'
    BY <1>10, <2>1 DEF Coming
  <2>6. pc'[Me] = "mwait" => w'[m'[Me]] = 1
    BY <1>10, <2>3
  <2> QED
    BY <2>1, <2>3, <2>4, <2>5, <2>6 DEF MutexKept
<1>11. \A x : w = [w EXCEPT ![x] = w[x]]
  BY <1>1
<1>12. \A x \in Mutexes \cup Conds \cup Pool : x \in Keys
  BY KeysAreKeys
<1> USE <1>1, SchedAssumption DEF Pc, Go, Local, Calling, futexVars, vars, CallsTyped, Known, PInv
<1>13. CASE Mutex(BSP)
  <2>1. ASSUME NEW x \in Mutexes, LockCall(BSP, x) PROVE MutexKept'
    BY <1>3, <1>6, <2>1 DEF LockCall
  <2>2. ASSUME NEW x \in Mutexes, TryLock(BSP, x) PROVE MutexKept'
    <3>1. Ready(BSP) /\ UNCHANGED cur /\ pc[Me] = "app" /\ pc'[Me] = "app"
          /\ (w' = [w EXCEPT ![x] = 1] \/ UNCHANGED w)
      BY <2>2 DEF TryLock
    <3> QED
      BY <1>6, <1>10, <3>1
  <2>3. ASSUME NEW x \in Mutexes, Unlock(BSP, x) PROVE MutexKept'
    <3>1. /\ Ready(BSP) /\ UNCHANGED cur /\ pc[Me] = "app" /\ pc'[Me] = "uwake" /\ m'[Me] = x
          /\ w' = [w EXCEPT ![x] = 0]
      BY <2>3 DEF Unlock, Release
    <3> QED
      BY <1>10, <3>1
  <2>4. CASE Acquire(BSP)
    <3>1. /\ Ready(BSP) /\ UNCHANGED cur /\ pc[Me] \in {"lock", "cw_parked"} /\ pc'[Me] = "app"
          /\ w' = [w EXCEPT ![m[Me]] = 1] /\ m[Me] \in Mutexes
      BY <2>4 DEF Acquire, MutexPlaces
    <3> QED
      BY <1>10, <3>1
  <2>5. CASE AcquireFails(BSP)
    <3>1. /\ Ready(BSP) /\ UNCHANGED cur /\ pc[Me] \in {"lock", "cw_parked"} /\ pc'[Me] = "mwait"
          /\ w[m[Me]] = 1 /\ w' = w /\ m[Me] \in Mutexes /\ m' = m
      BY <2>5 DEF AcquireFails, MutexPlaces
    <3>2. w' = [w EXCEPT ![m[Me]] = 1] /\ m'[Me] = m[Me]
      BY <1>11, <3>1
    <3> QED
      BY <1>10, <3>1, <3>2
  <2>6. CASE LockWait(BSP)
    <3>1. /\ m[Me] \in FutexKeys /\ m[Me] \in Mutexes /\ m[Me] \in Keys /\ FutexWait(BSP, m[Me])
          /\ Fits(m[Me])
          /\ pc'[Me] = "lock" /\ m'[Me] = m[Me] /\ pc[Me] = "mwait" /\ UNCHANGED w
      BY <1>3, <1>12, <2>6, CallKeys, CallFits DEF FutexKeys, LockWait
    <3>2. w[m[Me]] = 1
      BY <3>1 DEF MutexKept
    <3>3. /\ Listed = {} /\ Listed' = {}
          /\ \A l \in FutexKeys : SleepersOn(l)' = SleepersOn(l) \cup (IF l = m[Me] THEN {Me} ELSE {})
      BY <1>3, <3>1, SleepLinks
    <3> QED
      BY <1>9, <3>1, <3>2, <3>3
  <2>7. CASE UnlockWake(BSP)
    <3>1. /\ m[Me] \in Mutexes /\ m[Me] \in FutexKeys /\ FutexPop(BSP, m[Me], 1) /\ Fits(m[Me]) /\ UNCHANGED w
          /\ pc[Me] = "uwake" /\ pc'[Me] = "app" /\ m[Me] \notin Conds
      BY <1>3, <2>7, CallKeys, CallFits, ObjectsApart DEF UnlockWake, FutexKeys
    <3> QED
      BY <1>8, <3>1
  <2> QED
    BY <1>13, <2>1, <2>2, <2>3, <2>4, <2>5, <2>6, <2>7 DEF Mutex
<1>14. CASE Cond(BSP)
  <2>1. ASSUME NEW x \in Conds, Signal(BSP, x) \/ Broadcast(BSP, x) PROVE MutexKept'
    BY <1>3, <1>6, <2>1 DEF Signal, Broadcast, Bump
  <2>2. ASSUME NEW x \in Conds, NEW mx \in Mutexes, CondWait(BSP, x, mx) PROVE MutexKept'
    BY <1>3, <1>6, <2>2 DEF CondWait
  <2>3. CASE CondUnlock(BSP)
    <3>1. /\ Ready(BSP) /\ UNCHANGED cur /\ pc[Me] = "cw_unlock" /\ pc'[Me] = "cw_wake" /\ m' = m
          /\ w' = [w EXCEPT ![m[Me]] = 0] /\ m[Me] \in Mutexes
      BY <2>3 DEF CondUnlock, Release, MutexPlaces
    <3> QED
      BY <1>10, <3>1
  <2>4. CASE CondUnlockWake(BSP)
    <3>1. /\ m[Me] \in Mutexes /\ m[Me] \in FutexKeys /\ FutexPop(BSP, m[Me], 1) /\ Fits(m[Me]) /\ UNCHANGED w
          /\ pc[Me] = "cw_wake" /\ pc'[Me] = "cw_recheck" /\ m[Me] \notin Conds
      BY <1>3, <2>4, CallKeys, CallFits, ObjectsApart DEF CondUnlockWake, FutexKeys
    <3> QED
      BY <1>8, <3>1
  <2>5. CASE CondRecheckSame(BSP)
    BY <1>3, <1>6, <2>5 DEF CondRecheckSame
  <2>6. CASE CondPark(BSP)
    <3>1. /\ v[Me] \in FutexKeys /\ v[Me] \in Conds /\ v[Me] \in Keys /\ FutexWait(BSP, v[Me])
          /\ Fits(v[Me])
          /\ pc'[Me] = "cw_parked" /\ v'[Me] = v[Me] /\ pc[Me] = "cw_wait" /\ UNCHANGED w
          /\ v[Me] \notin Mutexes
      BY <1>3, <1>12, <2>6, CallKeys, CallFits, ObjectsApart DEF FutexKeys, CondPark
    <3>2. /\ Listed = {} /\ Listed' = {}
          /\ \A l \in FutexKeys : SleepersOn(l)' = SleepersOn(l) \cup (IF l = v[Me] THEN {Me} ELSE {})
      BY <1>3, <3>1, SleepLinks
    <3> QED
      BY <1>9, <3>1, <3>2
  <2>7. CASE SignalWake(BSP) \/ BroadcastWake(BSP)
    <3>1. Fits(v[Me]) /\ \E n \in {1, MaxThr} : FutexPop(BSP, v[Me], n)
      BY <1>3, <2>7, CallKeys, CallFits
    <3>2. /\ v[Me] \in Conds /\ v[Me] \in FutexKeys /\ UNCHANGED w /\ {1, MaxThr} \subseteq Nat \ {0}
          /\ pc[Me] \in {"swake", "bwake"} /\ pc'[Me] = "app" /\ v[Me] \notin Mutexes
      BY <1>3, <2>7, CallKeys, CallFits, ObjectsApart DEF SignalWake, BroadcastWake, FutexKeys
    <3> QED
      BY <1>8, <3>1, <3>2
  <2> QED
    BY <1>3, <1>14, <2>1, <2>2, <2>3, <2>4, <2>5, <2>6, <2>7, NeverRechecked DEF Cond
<1>15. CASE Lifecycle(BSP)
  <2>1. CASE JoinWait(BSP)
    <3>1. /\ j[Me] \in Pool /\ j[Me] \in Keys /\ FutexWait(BSP, j[Me]) /\ Fits(j[Me]) /\ j[Me] = JoinKey(j[Me])
          /\ pc'[Me] = "join" /\ j'[Me] = j[Me] /\ pc[Me] = "jwait" /\ UNCHANGED w
          /\ j[Me] \notin Mutexes
      BY <1>3, <1>12, <2>1, CallKeys, CallFits, ObjectsApart DEF FutexKeys, JoinWait
    <3>2. /\ Listed = {} /\ Listed' = {}
          /\ \A l \in FutexKeys : SleepersOn(l)' = SleepersOn(l) \cup (IF l = j[Me] THEN {Me} ELSE {})
      BY <1>3, <3>1, SleepLinks
    <3> QED
      BY <1>9, <3>1, <3>2
  <2>2. CASE JoinAnswered(BSP) \/ \E t \in Pool : JoinCall(BSP, t)
    BY <1>3, <1>6, <2>2 DEF JoinAnswered, JoinCall
  <2>3. CASE JoinRegister(BSP)
    BY <1>3, <1>6, <2>3 DEF JoinRegister, Register
  <2>4. CASE Create(BSP)
    BY <1>3, <1>6, <2>4 DEF Create, Spawn
  <2>5. CASE ThreadExit(BSP)
    BY <1>3, <1>6, <2>5 DEF ThreadExit, Exit, pvars
  <2> QED
    BY <1>15, <2>1, <2>2, <2>3, <2>4, <2>5 DEF Lifecycle
<1>16. CASE Once(BSP)
  BY <1>3, <1>6, <1>16 DEF Once, OnceFast, OnceCall, OnceLock, OnceRun, OnceStore, OnceUnlock
<1> QED
  BY <1>2, <1>7, <1>13, <1>14, <1>15, <1>16

-----------------------------------------------------------------------------
(***************************************************************************)
(* Part 6: conditions.  Of the threads that a signal is owed to, one is    *)
(* awake already, or is on the list of a futex_wake, or the futex_wake of  *)
(* the signal is still to come and finds only threads it is owed to.       *)
(***************************************************************************)
Heard(S) ==
  \E t \in S :
    \/ state[t] # "WAITING" \/ t \in Listed
    \/ v[t] = v[Me] /\ \/ pc[Me] = "bwake"
                       \/ pc[Me] = "swake" /\ SleepersOn(v[Me]) \subseteq S

SignalKept == \A S \in owed : Heard(S) /\ \A t \in S : pc[t] = "cw_parked"

LEMMA HeardStill ==
  ASSUME NCpu = 1, Known2, SignalKept, NEW S \in owed, \A t \in S : Kept(t),
         \A t \in S : state[t] # "WAITING" \/ t \in Listed => state'[t] # "WAITING" \/ t \in Listed',
         pc[Me] \in {"swake", "bwake"} =>
           /\ Me' = Me /\ pc'[Me] = pc[Me] /\ v'[Me] = v[Me]
           /\ SleepersOn(v[Me])' \subseteq SleepersOn(v[Me])
  PROVE  Heard(S)' /\ \A t \in S : pc'[t] = "cw_parked"
<1>1. \A t \in S : pc'[t] = "cw_parked"
  BY DEF SignalKept, Kept
<1>2. PICK t \in S : \/ state[t] # "WAITING" \/ t \in Listed
                     \/ v[t] = v[Me] /\ \/ pc[Me] = "bwake"
                                        \/ pc[Me] = "swake" /\ SleepersOn(v[Me]) \subseteq S
  BY DEF SignalKept, Heard
<1>3. CASE state[t] # "WAITING" \/ t \in Listed
  BY <1>1, <1>3 DEF Heard
<1>4. CASE v[t] = v[Me] /\ pc[Me] = "bwake"
  BY <1>1, <1>4 DEF Heard, Kept
<1>5. CASE v[t] = v[Me] /\ pc[Me] = "swake" /\ SleepersOn(v[Me]) \subseteq S
  <2>1. v'[t] = v'[Me'] /\ pc'[Me'] = "swake" /\ SleepersOn(v[Me])' \subseteq S
    BY <1>5 DEF Kept
  <2> QED
    BY <1>1, <2>1 DEF Heard
<1> QED
  BY <1>2, <1>3, <1>4, <1>5

LEMMA SignalKeptStep ==
  ASSUME NCpu = 1, BucketsUnshared, Known2, SignalKept, PthreadNext
  PROVE  SignalKept'
<1>1. /\ CPUs = {BSP} /\ Me = cur[BSP] /\ Me \in Threads /\ BSP \in CPUs
      /\ owed \subseteq SUBSET Threads
  BY OnTheCpu DEF Known2, Known, PInv, RestTyped
<1>2. Below(BSP) \/ Mutex(BSP) \/ Cond(BSP) \/ Lifecycle(BSP) \/ Once(BSP)
  BY <1>1 DEF PthreadNext
<1>3. Known /\ CpuInv /\ \A t \in Threads \ {Me} : Kept(t)
  BY OthersKept DEF Known2
<1>4. UNCHANGED cur => Me' = Me
  BY DEF Me
<1>5. Ready(BSP) => phase[Me] = "out" /\ at[Me] = "run" /\ ~FutexWakeOne(BSP)
  BY <1>1 DEF Ready, At, FutexWakeOne
<1>6. pc[Me] # "cw_parked" => \A S \in owed : Me \notin S
  BY DEF SignalKept
\* A call that is no futex call: who owes a wakeup to the others still does.
<1>7. ASSUME Ready(BSP), UNCHANGED cur, NEW S \in owed, Me \notin S,
             pc[Me] \notin {"uwake", "cw_wake", "swake", "bwake", "mwait", "cw_wait", "jwait"}
      PROVE  Heard(S)' /\ \A t \in S : pc'[t] = "cw_parked"
  <2>1. LinksStill
    BY <1>3, <1>5, <1>7, StillUnless
  <2>2. Listed' = Listed /\ \A u \in Threads : state[u] # "WAITING" => state'[u] # "WAITING"
    BY <2>1, StillLinks DEF LinksStill
  <2>3. \A t \in S : t \in Threads /\ Kept(t)
    BY <1>1, <1>3, <1>7
  <2> QED
    BY <1>7, <2>2, <2>3, HeardStill
<1>8. ASSUME Ready(BSP), UNCHANGED cur, \A S \in owed' : S \in owed /\ Me \notin S,
             pc[Me] \notin {"uwake", "cw_wake", "swake", "bwake", "mwait", "cw_wait", "jwait"}
      PROVE  SignalKept'
  BY <1>7, <1>8 DEF SignalKept
<1>9. CASE Below(BSP)
  <2>1. UNCHANGED <<pc, v, m, j, owed>> /\ \A t : Kept(t)
    BY <1>9 DEF Below, pvars, ghosts, Kept
  <2>2. CASE FutexWakeOne(BSP)
    <3>1. /\ list[Me] \in Listed /\ Listed' = Listed \ {list[Me]} /\ list[Me] \in Threads
          /\ state' = [state EXCEPT ![list[Me]] = "RUNNABLE"]
          /\ \A l \in FutexKeys : SleepersOn(l)' = SleepersOn(l) \ {list[Me]}
      <4>1. Listed \subseteq Threads
        BY DEF Listed, On
      <4> QED
        BY <1>9, <2>2, <4>1, WakeOneLinks DEF Below
    <3>2. Me' = Me
      BY <1>4, <2>2 DEF FutexWakeOne, Wake
    <3>3. \A u \in Threads : state[u] # "WAITING" \/ u \in Listed => state'[u] # "WAITING" \/ u \in Listed'
      BY <3>1 DEF Known2, Known, PInv, GInv, TypeOK
    <3>4. pc[Me] \in {"swake", "bwake"} => v[Me] \in FutexKeys
      BY <1>1 DEF Known2, Known, PInv, CallsTyped, CondPlaces, FutexKeys
    <3>5. pc[Me] \in {"swake", "bwake"} => SleepersOn(v[Me])' \subseteq SleepersOn(v[Me])
      <4>1. ASSUME NEW l \in FutexKeys PROVE SleepersOn(l)' \subseteq SleepersOn(l)
        BY <3>1
      <4>2. \A l : SleepersOn(l)' \subseteq SleepersOn(l) /\ l = v[Me] => SleepersOn(v[Me])' \subseteq SleepersOn(v[Me])
        BY <2>1, <3>2
      <4> QED
        BY <3>4, <4>1, <4>2
    <3>6. ASSUME NEW S \in owed PROVE Heard(S)' /\ \A t \in S : pc'[t] = "cw_parked"
      BY <1>1, <2>1, <3>2, <3>3, <3>5, HeardStill
    <3> QED
      BY <2>1, <3>6 DEF SignalKept
  <2>3. CASE Inside(BSP)
    <3>1. at[Me] # "run"
      BY <1>1, <2>3 DEF Inside, ClearSlot, StoreFrame, CountSlot, WakeTarget, KickAfterWake,
         LookAtState, PopNext, PopNone, LeaveHlt, SetRunning, LoadSp, Switch, At
    <3>2. LinksStill /\ pc[Me] \in RestPcs
      BY <1>1, <1>3, <3>1, StillUnless DEF Ready, At, FutexWakeOne, Wake, CpuInv, AtRest
    <3>3. Listed' = Listed /\ \A u \in Threads : state[u] # "WAITING" => state'[u] # "WAITING"
      BY <3>2, StillLinks DEF LinksStill
    <3>4. ASSUME NEW S \in owed PROVE Heard(S)' /\ \A t \in S : pc'[t] = "cw_parked"
      BY <1>1, <2>1, <3>2, <3>3, HeardStill DEF RestPcs
    <3> QED
      BY <2>1, <3>4 DEF SignalKept
  <2>4. CASE FutexKick(BSP)
    <3>1. LinksStill /\ Me' = Me /\ UNCHANGED state
      BY <1>1, <1>3, <1>4, <2>4, StillUnless DEF Ready, FutexKick, FutexWakeOne, Kick
    <3>2. Listed' = Listed
      BY <3>1, StillLinks
    <3>3. \A l : l = v[Me] => SleepersOn(v[Me])' = SleepersOn(l)
      BY <2>1, <3>1 DEF SleepersOn, pvars
    <3>4. ASSUME NEW S \in owed PROVE Heard(S)' /\ \A t \in S : pc'[t] = "cw_parked"
      BY <1>1, <2>1, <3>1, <3>2, <3>3, HeardStill
    <3> QED
      BY <2>1, <3>4 DEF SignalKept
  <2> QED
    BY <1>9, <2>2, <2>3, <2>4 DEF Below
\* futex_wake takes threads off a bucket: all those of the signal's condition,
\* or one of them.
<1>10. ASSUME NEW k \in FutexKeys, NEW n \in Nat \ {0}, FutexPop(BSP, k, n), Fits(k), UNCHANGED owed,
              pc[Me] \in {"uwake", "cw_wake", "swake", "bwake"},
              pc[Me] \in {"swake", "bwake"} => v[Me] = k /\ k \in Conds,
              pc[Me] = "bwake" => n = MaxThr
       PROVE  SignalKept'
  <2>1. /\ Listed = {} /\ Listed' \subseteq SleepersOn(k) /\ (SleepersOn(k) # {} => Listed' # {})
        /\ (n = MaxThr => Listed' = SleepersOn(k))
    BY <1>3, <1>10, PopLinks
  <2>2. UNCHANGED <<state, cur>> /\ Me' = Me
    BY <1>4, <1>10 DEF FutexPop, vars
  <2>3. ASSUME NEW S \in owed PROVE Heard(S)' /\ \A t \in S : pc'[t] = "cw_parked"
    <3>1. \A t \in S : t \in Threads /\ pc[t] = "cw_parked" /\ Kept(t)
      BY <1>1, <1>3, <1>10 DEF SignalKept
    <3>2. \A t \in S : pc'[t] = "cw_parked"
      BY <3>1 DEF Kept
    <3>3. PICK t \in S : \/ state[t] # "WAITING" \/ t \in Listed
                         \/ v[t] = v[Me] /\ \/ pc[Me] = "bwake"
                                            \/ pc[Me] = "swake" /\ SleepersOn(v[Me]) \subseteq S
      BY DEF SignalKept, Heard
    <3>4. CASE state[t] # "WAITING" \/ t \in Listed
      BY <2>1, <2>2, <3>2, <3>4 DEF Heard
    <3>5. CASE state[t] = "WAITING" /\ v[t] = v[Me] /\ pc[Me] \in {"swake", "bwake"}
      <4>1. t \in SleepersOn(k)
        BY <1>10, <3>1, <3>5 DEF SleepersOn
      <4>2. CASE pc[Me] = "bwake"
        BY <1>10, <2>1, <3>2, <4>1, <4>2 DEF Heard
      <4>3. CASE pc[Me] = "swake" /\ SleepersOn(v[Me]) \subseteq S
        <5>1. PICK u : u \in Listed'
          BY <2>1, <4>1
        <5>2. u \in S
          BY <1>10, <2>1, <4>3, <5>1
        <5> QED
          BY <3>2, <5>1, <5>2 DEF Heard
      <4> QED
        BY <3>5, <4>2, <4>3, <3>3, <2>1
    <3> QED
      BY <3>2, <3>3, <3>4, <3>5
  <2> QED
    BY <1>10, <2>3 DEF SignalKept
<1>11. ASSUME NEW k \in Keys, FutexWait(BSP, k), UNCHANGED owed,
              pc[Me] \in {"mwait", "cw_wait", "jwait"}, Listed = {}, Listed' = {}
       PROVE  SignalKept'
  <2>1. \A u \in Threads \ {Me} : state'[u] = state[u]
    BY <1>1, <1>11 DEF FutexWait, Park, Known2, Known, PInv, GInv, TypeOK
  <2>2. ASSUME NEW S \in owed PROVE Heard(S)' /\ \A t \in S : pc'[t] = "cw_parked"
    <3>1. \A t \in S : t \in Threads \ {Me} /\ Kept(t)
      BY <1>1, <1>3, <1>6, <1>11
    <3> QED
      BY <1>11, <2>1, <3>1, HeardStill
  <2> QED
    BY <1>11, <2>2 DEF SignalKept
\* A signal, or a broadcast, names the threads that are in the condition.
<1>12. ASSUME NEW x \in Conds, Calling(BSP), UNCHANGED <<futexVars, m>>, v' = Local(BSP, v, x),
              NEW p \in {"swake", "bwake"}, Go(BSP, p),
              NEW S, S \subseteq WaitersOf(x), S # {}, p = "swake" => S = WaitersOf(x)
       PROVE  Heard(S)' /\ \A t \in S : pc'[t] = "cw_parked"
  <2>1. /\ pc[Me] = "app" /\ Me' = Me /\ pc'[Me] = p /\ v'[Me] = x /\ state' = state
        /\ \A t \in Threads \ {Me} : pc'[t] = pc[t] /\ v'[t] = v[t] /\ m'[t] = m[t] /\ pc[t] \in RestPcs
    BY <1>1, <1>3, <1>12 DEF Calling, Pc, Local, Go, Kept, futexVars, vars, Me, CpuInv, AtRest, Known,
       PInv, CallsTyped
  <2>2. \A t \in WaitersOf(x) : t \in Threads \ {Me} /\ pc[t] = "cw_parked" /\ v[t] = x
    BY <2>1 DEF WaitersOf, RestPcs
  <2>3. \A t \in S : pc'[t] = "cw_parked" /\ v'[t] = x
    BY <1>12, <2>1, <2>2
  <2>4. PICK t \in S : TRUE
    BY <1>12
  <2>5. CASE p = "bwake"
    BY <2>1, <2>3, <2>4, <2>5 DEF Heard
  <2>6. CASE p = "swake"
    <3>1. ASSUME NEW u \in Threads, state'[u] = "WAITING",
                 (pc'[u] = "lock" /\ m'[u] = x) \/ (pc'[u] = "cw_parked" /\ v'[u] = x)
          PROVE  u \in S
      <4>1. u # Me /\ ~(pc[u] = "lock" /\ m[u] = x)
        BY <2>1, <2>6, <3>1, ObjectsApart DEF Known2, Known, PInv, CallsTyped, MutexPlaces
      <4> QED
        BY <1>12, <2>1, <2>6, <3>1, <4>1 DEF WaitersOf
    <3>2. \A l : l = x => SleepersOn(l)' \subseteq S
      BY <3>1 DEF SleepersOn
    <3>3. v'[Me'] = x
      BY <2>1
    <3>4. SleepersOn(v[Me])' \subseteq S
      BY <3>1, <3>3 DEF SleepersOn
    <3> QED
      BY <2>1, <2>3, <2>4, <2>6, <3>4 DEF Heard
  <2> QED
    BY <1>12, <2>5, <2>6
<1> USE <1>1, SchedAssumption DEF Pc, Go, Local, Calling, futexVars, vars, CallsTyped, Known, PInv
<1>13. CASE Mutex(BSP)
  <2>1. CASE \E x \in Mutexes : LockCall(BSP, x) \/ TryLock(BSP, x) \/ Unlock(BSP, x)
    BY <1>6, <1>8, <2>1 DEF LockCall, TryLock, Unlock, Release, ghosts
  <2>2. CASE Acquire(BSP) \/ AcquireFails(BSP)
    <3>1. /\ Ready(BSP) /\ UNCHANGED cur /\ pc[Me] \in {"lock", "cw_parked"}
          /\ owed' = IF pc[Me] = "cw_parked" THEN Discharged(Me) ELSE owed
      BY <2>2 DEF Acquire, AcquireFails
    <3>2. \A S \in owed' : S \in owed /\ Me \notin S
      BY <1>6, <3>1 DEF Discharged
    <3> QED
      BY <1>8, <3>1, <3>2
  <2>3. CASE LockWait(BSP)
    <3>1. /\ m[Me] \in FutexKeys /\ m[Me] \in Mutexes /\ m[Me] \in Keys /\ FutexWait(BSP, m[Me])
          /\ Fits(m[Me])
          /\ pc'[Me] = "lock" /\ m'[Me] = m[Me] /\ pc[Me] = "mwait" /\ UNCHANGED owed
      BY <1>3, <2>3, CallKeys, CallFits, KeysAreKeys DEF FutexKeys, LockWait, ghosts
    <3>2. Listed = {} /\ Listed' = {}
      BY <1>3, <3>1, SleepLinks
    <3> QED
      BY <1>11, <3>1, <3>2
  <2>4. CASE UnlockWake(BSP)
    <3>1. /\ m[Me] \in FutexKeys /\ FutexPop(BSP, m[Me], 1) /\ Fits(m[Me]) /\ UNCHANGED owed /\ pc[Me] = "uwake"
      BY <1>3, <2>4, CallKeys, CallFits DEF UnlockWake, FutexKeys, ghosts
    <3> QED
      BY <1>10, <3>1
  <2> QED
    BY <1>13, <2>1, <2>2, <2>3, <2>4 DEF Mutex
<1>14. CASE Cond(BSP)
  <2>1. ASSUME NEW x \in Conds, Signal(BSP, x) \/ Broadcast(BSP, x)
        PROVE  \A S \in owed : Heard(S)' /\ \A t \in S : pc'[t] = "cw_parked"
    BY <1>6, <1>7, <2>1 DEF Signal, Broadcast, Bump
  <2>2. ASSUME NEW x \in Conds, Signal(BSP, x) PROVE SignalKept'
    <3>1. ASSUME NEW S, S = WaitersOf(x), S # {}
          PROVE  Heard(S)' /\ \A t \in S : pc'[t] = "cw_parked"
      BY <1>12, <2>2, <3>1 DEF Signal, Bump
    <3>2. \A S \in owed' : S \in owed \/ (S = WaitersOf(x) /\ S # {})
      BY <2>2 DEF Signal
    <3> QED
      BY <2>1, <2>2, <3>1, <3>2 DEF SignalKept
  <2>8. ASSUME NEW x \in Conds, Broadcast(BSP, x) PROVE SignalKept'
    <3>1. ASSUME NEW S, S \subseteq WaitersOf(x), S # {}
          PROVE  Heard(S)' /\ \A t \in S : pc'[t] = "cw_parked"
      BY <1>12, <2>8, <3>1 DEF Broadcast, Bump
    <3>2. \A S \in owed' : S \in owed \/ (S \subseteq WaitersOf(x) /\ S # {})
      BY <2>8 DEF Broadcast
    <3> QED
      BY <2>1, <2>8, <3>1, <3>2 DEF SignalKept
  <2>3. CASE \/ \E x \in Conds, mx \in Mutexes : CondWait(BSP, x, mx)
             \/ CondUnlock(BSP) \/ CondRecheckSame(BSP)
    BY <1>6, <1>8, <2>3 DEF CondWait, CondUnlock, Release, CondRecheckSame, ghosts
  <2>4. CASE CondUnlockWake(BSP)
    <3>1. /\ m[Me] \in FutexKeys /\ FutexPop(BSP, m[Me], 1) /\ Fits(m[Me]) /\ UNCHANGED owed /\ pc[Me] = "cw_wake"
      BY <1>3, <2>4, CallKeys, CallFits DEF CondUnlockWake, FutexKeys, ghosts
    <3> QED
      BY <1>10, <3>1
  <2>5. CASE CondPark(BSP)
    <3>1. /\ v[Me] \in FutexKeys /\ v[Me] \in Conds /\ v[Me] \in Keys /\ FutexWait(BSP, v[Me])
          /\ Fits(v[Me])
          /\ pc'[Me] = "cw_parked" /\ v'[Me] = v[Me] /\ pc[Me] = "cw_wait" /\ UNCHANGED owed
      BY <1>3, <2>5, CallKeys, CallFits, KeysAreKeys DEF FutexKeys, CondPark, ghosts
    <3>2. Listed = {} /\ Listed' = {}
      BY <1>3, <3>1, SleepLinks
    <3> QED
      BY <1>11, <3>1, <3>2
  <2>6. CASE SignalWake(BSP)
    <3>1. /\ v[Me] \in FutexKeys /\ v[Me] \in Conds /\ FutexPop(BSP, v[Me], 1) /\ Fits(v[Me]) /\ UNCHANGED owed
          /\ pc[Me] = "swake"
      BY <1>3, <2>6, CallKeys, CallFits DEF SignalWake, FutexKeys, ghosts
    <3> QED
      BY <1>10, <3>1
  <2>7. CASE BroadcastWake(BSP)
    <3>1. /\ v[Me] \in FutexKeys /\ v[Me] \in Conds /\ FutexPop(BSP, v[Me], MaxThr) /\ Fits(v[Me]) /\ UNCHANGED owed
          /\ pc[Me] = "bwake" /\ MaxThr \in Nat \ {0}
      BY <1>3, <2>7, CallKeys, CallFits DEF BroadcastWake, FutexKeys, ghosts
    <3> QED
      BY <1>10, <3>1
  <2> QED
    BY <1>3, <1>14, <2>1, <2>2, <2>3, <2>4, <2>5, <2>6, <2>7, <2>8, NeverRechecked DEF Cond
<1>15. CASE Lifecycle(BSP)
  <2>1. CASE JoinWait(BSP)
    <3>1. /\ j[Me] \in Pool /\ j[Me] \in Keys /\ FutexWait(BSP, j[Me]) /\ Fits(j[Me]) /\ j[Me] = JoinKey(j[Me])
          /\ pc'[Me] = "join" /\ j'[Me] = j[Me] /\ pc[Me] = "jwait" /\ UNCHANGED owed
      BY <1>3, <2>1, CallKeys, CallFits, KeysAreKeys DEF JoinWait, ghosts
    <3>2. Listed = {} /\ Listed' = {}
      BY <1>3, <3>1, SleepLinks
    <3> QED
      BY <1>11, <3>1, <3>2
  <2>2. CASE JoinAnswered(BSP) \/ (\E t \in Pool : JoinCall(BSP, t)) \/ JoinRegister(BSP)
    BY <1>6, <1>8, <2>2 DEF JoinAnswered, JoinCall, JoinRegister, Register, ghosts
  <2>3. CASE Create(BSP)
    BY <1>6, <1>8, <2>3 DEF Create, Spawn, ghosts
  <2>4. CASE ThreadExit(BSP)
    BY <1>6, <1>8, <2>4 DEF ThreadExit, Exit, pvars, ghosts
  <2> QED
    BY <1>15, <2>1, <2>2, <2>3, <2>4 DEF Lifecycle
<1>16. CASE Once(BSP)
  BY <1>6, <1>8, <1>16 DEF Once, OnceFast, OnceCall, OnceLock, OnceRun, OnceStore, OnceUnlock, ghosts
<1> QED
  BY <1>2, <1>9, <1>13, <1>14, <1>15, <1>16

-----------------------------------------------------------------------------
(***************************************************************************)
(* Part 7: the invariant of the futex layer and its callers, and the       *)
(* promises that follow from it.                                           *)
(***************************************************************************)
WakeInv == CpuInv /\ LinkInv /\ JoinInv /\ MutexKept /\ SignalKept

LEMMA InitWake ==
  ASSUME NCpu = 1, PthreadInit
  PROVE  WakeInv
<1>1. CpuInv
  BY InitCpu
<1>2. Known
  <2>1. PInv
    BY InitPInv
  <2>2. GInv /\ OneInv
    BY InitOne DEF PthreadInit, FutexInit
  <2> QED
    BY <2>1, <2>2 DEF Known
<1>3. Me \in Threads /\ BSP \in CPUs /\ NoThread \notin Threads
  BY <1>1, <1>2, OnTheCpu DEF Known
<1> USE DEF PthreadInit, FutexInit
<1>4. /\ \A t \in Threads : pc[t] = "app" /\ phase[t] = "out" /\ joiner[t] = NoThread
                            /\ at[t] \in {"check", "run"}
      /\ \A t \in Threads : state[t] # "WAITING"
      /\ \A b \in Buckets : bucket[b] = NoThread
  BY DEF Init
<1>5. Listed = {} /\ phase[Me] # "wake" /\ pc[Me] = "app" /\ at[Me] # "wake"
  BY <1>3, <1>4 DEF Listed
<1>6. \A k : SleepersOn(k) = {}
  BY <1>4 DEF SleepersOn
<1>7. BucketsExact
  <2> SUFFICES ASSUME NEW k \in FutexKeys
               PROVE  SleepersOn(k) \ Listed = {}
    BY DEF BucketsExact
  <2> QED
    BY <1>6
<1>8. ListExact /\ JoinBuckets
  BY <1>4, <1>5 DEF ListExact, JoinBuckets
<1>9. JoinInv
  BY <1>4, <1>5 DEF JoinInv, JoinTargets, Registered, Joining
<1>10. MutexKept /\ SignalKept
  BY <1>5, <1>6 DEF MutexKept, SignalKept
<1> QED
  BY <1>1, <1>7, <1>8, <1>9, <1>10 DEF WakeInv, LinkInv

LEMMA WakeStutter ==
  ASSUME WakeInv, UNCHANGED allVars
  PROVE  WakeInv'
<1> USE DEF allVars, futexVars, bucketVars, vars, pvars, ghosts, Me
<1>1. CpuInv'
  BY DEF WakeInv, CpuInv, AtRest, RunsOrSleeps, SeqUnchanged
<1>2. Listed' = Listed /\ \A k : SleepersOn(k)' = SleepersOn(k)
  BY DEF Listed, SleepersOn
<1>3. LinkInv'
  BY <1>2 DEF WakeInv, LinkInv, BucketsExact, InBucket, ListExact, JoinBuckets
<1>4. JoinInv'
  BY DEF WakeInv, JoinInv, JoinTargets, Registered, Joining
<1>5. MutexKept'
  BY <1>2 DEF WakeInv, MutexKept, Coming
<1>6. SignalKept'
  <2>1. \A l : l = v[Me] => SleepersOn(v[Me])' = SleepersOn(l)
    BY DEF SleepersOn
  <2> QED
    BY <1>2, <2>1 DEF WakeInv, SignalKept, Heard
<1> QED
  BY <1>1, <1>3, <1>4, <1>5, <1>6 DEF WakeInv

LEMMA WakeHolds ==
  ASSUME NCpu = 1
  PROVE  PthreadSpec /\ []BucketsUnshared => [](Known2 /\ WakeInv)
<1>1. PthreadInit => WakeInv
  BY InitWake
<1>2. BucketsUnshared /\ Known /\ WakeInv /\ [PthreadNext]_allVars => WakeInv'
  <2>1. ASSUME BucketsUnshared, Known, WakeInv, PthreadNext PROVE WakeInv'
    <3>1. Known2
      BY <2>1 DEF Known2, WakeInv
    <3>2. CpuInv' /\ LinkInv' /\ JoinInv'
      BY <2>1, <3>1, CpuStep, LinkStep, JoinStep DEF Known, WakeInv
    <3>3. MutexKept' /\ SignalKept'
      BY <2>1, <3>1, MutexKeptStep, SignalKeptStep DEF WakeInv
    <3> QED
      BY <3>2, <3>3 DEF WakeInv
  <2> QED
    BY <2>1, WakeStutter
<1>3. Known /\ WakeInv => Known2 /\ WakeInv
  BY DEF Known2, WakeInv
<1> QED
  BY <1>1, <1>2, <1>3, KnownHolds, PTL DEF PthreadSpec

\* When all is quiet nobody is in the middle of a call: who is in one, sleeps.
LEMMA QuietSleeps ==
  ASSUME NCpu = 1, Known2, Quiet
  PROVE  /\ Me \in Threads /\ at[Me] = "hlt" /\ pc[Me] \in RestPcs /\ Listed = {}
         /\ \A t \in Threads : pc[t] # "app" => state[t] = "WAITING"
<1>1. Me \in Threads /\ at[Me] = "hlt" /\ state \in [Threads -> States]
  BY OnTheCpu DEF Quiet, Known2, Known, PInv, GInv, TypeOK
<1>2. pc[Me] \in RestPcs /\ Listed = {}
  BY <1>1 DEF Known2, CpuInv, AtRest, Listed
<1>3. state[Me] \in {"WAITING", "DONE"}
  BY <1>1 DEF Known2, CpuInv, RunsOrSleeps, Dispatching
<1>4. ASSUME NEW t \in Threads, pc[t] # "app" PROVE state[t] = "WAITING"
  BY <1>1, <1>3, <1>4 DEF Known2, CpuInv, RunsOrSleeps, Quiet, States
<1> QED
  BY <1>1, <1>2, <1>4

\* futex.c's promise for pthread_mutex_lock: between the failed compare-and-swap and the
\* futex_wait nobody else runs, and every unlock wakes a sleeper, who tries again.  So no
\* thread sleeps for a mutex that is free once everything has come to rest.  The only
\* thing that could make it fail is a futex call that meets another key's entry.
THEOREM OneCpuMutexWakeupKept ==
  ASSUME NCpu = 1
  PROVE  PthreadSpec /\ []BucketsUnshared => []MutexWakeupKept
<1>1. ASSUME Known2, WakeInv PROVE MutexWakeupKept
  <2> SUFFICES ASSUME NEW t \in Threads, Asleep(t), pc[t] = "lock", w[m[t]] # 1 PROVE FALSE
    BY DEF MutexWakeupKept
  <2>1. /\ Me \in Threads /\ pc[Me] \in RestPcs /\ Listed = {}
        /\ \A u \in Threads : pc[u] # "app" => state[u] = "WAITING"
    BY <1>1, QuietSleeps DEF Asleep
  <2>2. m[t] \in Mutexes /\ w[m[t]] = 0 /\ t \in SleepersOn(m[t])
    BY <1>1 DEF Known2, Known, PInv, CallsTyped, MutexPlaces, MutexInv, Asleep, SleepersOn
  <2>3. Coming(m[t])
    BY <1>1, <2>2 DEF WakeInv, MutexKept
  <2> QED
    BY <2>1, <2>3 DEF Coming, RestPcs
<1> QED
  BY <1>1, WakeHolds, PTL

\* The same promise for conditions: pthread_cond_signal, and every thread of a
\* pthread_cond_broadcast, has reached a thread that was in pthread_cond_wait before it.
THEOREM OneCpuSignalHeard ==
  ASSUME NCpu = 1
  PROVE  PthreadSpec /\ []BucketsUnshared => []SignalHeard
<1>1. ASSUME Known2, WakeInv PROVE SignalHeard
  <2> SUFFICES ASSUME Quiet, NEW S \in owed PROVE FALSE
    BY DEF SignalHeard
  <2>1. /\ Me \in Threads /\ pc[Me] \in RestPcs /\ Listed = {}
        /\ \A u \in Threads : pc[u] # "app" => state[u] = "WAITING"
    BY <1>1, QuietSleeps
  <2>2. Heard(S) /\ S \subseteq Threads /\ \A t \in S : pc[t] = "cw_parked"
    BY <1>1 DEF WakeInv, SignalKept, Known2, Known, PInv, RestTyped
  <2> QED
    BY <2>1, <2>2 DEF Heard, RestPcs
<1> QED
  BY <1>1, WakeHolds, PTL

\* ... and for pthread_join: kth_exit_impl takes the joiner and marks the thread DONE in
\* one critical section, so a joiner that sleeps is still registered with a thread that
\* lives; and with one joiner a thread nobody is told that someone else joined.
THEOREM OneCpuJoinReturns ==
  ASSUME NCpu = 1
  PROVE  PthreadSpec /\ []BucketsUnshared => []JoinReturns
<1>1. ASSUME Known2, WakeInv PROVE JoinReturns
  <2>1. refused = {}
    BY <1>1 DEF WakeInv, JoinInv, JoinTargets
  <2>2. ASSUME NEW t \in Threads, Asleep(t), pc[t] = "join" PROVE state[j[t]] # "DONE"
    <3>1. at[Me] = "hlt" /\ NoThread \notin Threads
      BY <1>1, <2>2, QuietSleeps, NoThreadApart DEF Asleep
    <3>2. j[t] \in Pool /\ joiner[j[t]] = t
      BY <1>1, <2>2, <3>1 DEF WakeInv, JoinInv, Registered, Asleep, Known2, Known, PInv, CallsTyped
    <3>3. j[t] \in Threads
      BY <3>2 DEF Threads
    <3> QED
      BY <1>1, <3>1, <3>2, <3>3 DEF WakeInv, JoinInv, Registered
  <2> QED
    BY <2>1, <2>2 DEF JoinReturns
<1> QED
  BY <1>1, WakeHolds, PTL

\* A sleeper is where futex_wake looks: in the list of the bucket of the key it sleeps on
\* (ftx_bucket and wk_next in futex_wake), or already in the list of a futex_wake that
\* is going through it.  Any number of threads and keys, and any ftx_hash, in the
\* behaviours in which no futex call meets another key's entry in its bucket.
THEOREM OneCpuSleepersFound ==
  ASSUME NCpu = 1
  PROVE  PthreadSpec /\ []BucketsUnshared => []SleepersFound
<1>1. ASSUME Known2 PROVE SleepersFound
  <2> SUFFICES ASSUME NEW t \in Threads, state[t] = "WAITING"
               PROVE  \/ t \in Reach(bucket[Hash[SleepKey(t)]])
                      \/ \E u \in Threads : phase[u] = "wake" /\ t \in Reach(list[u])
    BY DEF SleepersFound
  <2>1. /\ wk_next \in [Threads -> Links] /\ bucket \in [Buckets -> Links]
        /\ list \in [Threads -> Links] /\ Me \in Threads
    BY <1>1, OnTheCpu DEF Known2, Known, PInv, LinksTyped
  <2>2. pc[t] \in {"lock", "cw_parked", "join"}
    BY <1>1 DEF Known2, LinkInv, JoinBuckets
  <2>3. CASE pc[t] \in {"lock", "cw_parked"}
    <3> DEFINE k == SleepKey(t)
    <3>1. k \in FutexKeys /\ t \in SleepersOn(k)
      BY <1>1, <2>3 DEF SleepKey, SleepersOn, FutexKeys, Known2, Known, PInv, CallsTyped, MutexPlaces,
         CondPlaces
    <3> HIDE DEF k
    <3>2. t \in InBucket(k) \/ t \in Listed
      BY <1>1, <3>1 DEF Known2, LinkInv, BucketsExact
    <3>3. bucket[Hash[k]] \in Links
      BY <2>1, <3>1, KeysAreKeys, HashAssumption DEF FutexKeys
    <3>4. t \in InBucket(k) => t \in Reach(bucket[Hash[k]])
      BY <2>1, <3>3, ReachesAll DEF InBucket
    <3>5. t \in Listed => phase[Me] = "wake" /\ t \in Reach(list[Me])
      BY <2>1, ReachesAll DEF Listed
    <3> QED
      BY <2>1, <3>2, <3>4, <3>5 DEF k
  <2>4. CASE pc[t] = "join"
    <3>1. SleepKey(t) = JoinKey(j[t]) /\ bucket[Hash[JoinKey(j[t])]] = t
      BY <1>1, <2>4 DEF SleepKey, Known2, LinkInv, JoinBuckets
    <3>2. t \in Links /\ t \in On(t, wk_next)
      BY <2>1, OnUnfold DEF Links
    <3>3. t \in Reach(t)
      BY <2>1, <3>2, ReachesAll
    <3> QED
      BY <3>1, <3>3
  <2> QED
    BY <2>2, <2>3, <2>4
<1> QED
  BY <1>1, WakeHolds, PTL
=============================================================================
