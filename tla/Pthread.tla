------------------------------ MODULE Pthread ------------------------------
(***************************************************************************)
(* The pthread surface of src/smp/pthread_impl.c on the futex layer, used  *)
(* by an arbitrary correct client: a thread in application code makes any  *)
(* call that POSIX allows it (it unlocks only what it holds, waits on a    *)
(* condition with the mutex held, a thread is joined once, a thread exits  *)
(* holding nothing).                                                       *)
(*                                                                         *)
(* Every atomic operation and every futex call is a step of its own, so    *)
(* that other CPUs interleave between them.                                *)
(***************************************************************************)
EXTENDS Futex, FiniteSets

CONSTANTS Mutexes, Conds, Onces,
          MaxCalls    \* bound: calls a thread makes (unlock and join are free)

ASSUME KeyAssumption == Keys = Mutexes \cup Conds \cup Pool
ASSUME ClientAssumption == MaxCalls \in Nat

\* Different objects have different addresses.
ASSUME ObjectsApart ==
  Mutexes \cap Conds = {} /\ (Mutexes \cup Conds) \cap Pool = {}

JoinKey(t) == t       \* the address &t->joiner of pool thread t

VARIABLES
  w,        \* kmutex_view.w
  seq,      \* kcond_view.seq
  once,     \* the pthread_once_t words
  kftx,     \* ftx_global_lock
  pc,       \* where a thread is in a pthread call, "app" outside
  m, v, j,  \* the mutex, condition and join target of the call
  cs,       \* pthread_cond_wait's local seq
  calls,    \* calls made
  \* What has happened, for the properties only.
  holds,    \* mutexes a thread has locked and not unlocked
  owed,     \* sets of threads, one of which a signal must still wake
  ran,      \* how often the function of a once ran
  joined,   \* threads that some pthread_join names
  refused   \* threads whose pthread_join returned an error

ghosts  == <<holds, owed, ran, joined, refused>>
pvars   == <<w, seq, once, kftx, pc, m, v, j, cs, calls, ghosts>>
allVars == <<futexVars, pvars>>

Nothing == NoThread   \* no mutex, no condition, no target

Pcs == {"app", "lock", "mwait", "uwake",
        "cw_unlock", "cw_wake", "cw_recheck", "cw_wait", "cw_parked",
        "swake", "bwake", "join", "jwait",
        "once_lock", "once_fn", "once_store", "once_out"}

PthreadTypeOK ==
  /\ FutexTypeOK
  /\ w     \in [Mutexes -> {0, 1}]
  /\ seq   \in [Conds -> Nat]
  /\ once  \in [Onces -> {0, 1}]
  /\ kftx  \in {0, 1}
  /\ pc    \in [Threads -> Pcs]
  /\ m     \in [Threads -> Mutexes \cup {Nothing}]
  /\ v     \in [Threads -> Conds \cup Onces \cup {Nothing}]
  /\ j     \in [Threads -> Pool \cup {Nothing}]
  /\ cs    \in [Threads -> Nat]
  /\ calls \in [Threads -> Nat]
  /\ holds \in [Threads -> SUBSET Mutexes]
  /\ owed  \subseteq SUBSET Threads
  /\ ran   \in [Onces -> Nat]
  /\ joined \subseteq Pool
  /\ refused \subseteq Threads

PthreadInit ==
  /\ FutexInit
  /\ w     = [x \in Mutexes |-> 0]
  /\ seq   = [x \in Conds |-> 0]
  /\ once  = [x \in Onces |-> 0]
  /\ kftx  = 0
  /\ pc    = [t \in Threads |-> "app"]
  /\ m     = [t \in Threads |-> Nothing]
  /\ v     = [t \in Threads |-> Nothing]
  /\ j     = [t \in Threads |-> Nothing]
  /\ cs    = [t \in Threads |-> 0]
  /\ calls = [t \in Threads |-> 0]
  /\ holds = [t \in Threads |-> {}]
  /\ owed  = {}
  /\ ran   = [x \in Onces |-> 0]
  /\ joined = {}
  /\ refused = {}

-----------------------------------------------------------------------------
Pc(c, p)  == Ready(c) /\ pc[cur[c]] = p
Go(c, p) == pc' = [pc EXCEPT ![cur[c]] = p]
Local(c, f, x) == [f EXCEPT ![cur[c]] = x]

\* A thread in application code makes one more call.
Calling(c) ==
  /\ Pc(c, "app")
  /\ calls[cur[c]] < MaxCalls
  /\ calls' = [calls EXCEPT ![cur[c]] = @ + 1]

\* Threads between the load of seq in pthread_cond_wait and its return from
\* futex_wait or sched_switch_away.
WaitersOf(x) ==
  {t \in Threads : /\ v[t] = x
                   /\ pc[t] \in {"cw_unlock", "cw_wake", "cw_recheck",
                                 "cw_wait", "cw_parked"}}

\* Thread t has left pthread_cond_wait's sleep: whoever owed it a wakeup has
\* delivered it.
Discharged(t) == {S \in owed : t \notin S}

-----------------------------------------------------------------------------
\* pthread_mutex_lock: the call, and one compare-and-swap that succeeds ...
LockCall(c, x) ==
  /\ Calling(c)
  /\ x \notin holds[cur[c]]
  /\ m' = Local(c, m, x)
  /\ Go(c, "lock")
  /\ UNCHANGED <<futexVars, w, seq, once, kftx, v, j, cs, ghosts>>

Acquire(c) ==
  LET me == cur[c] IN
  /\ Pc(c, "lock") \/ Pc(c, "cw_parked")
  /\ w[m[me]] = 0
  /\ w' = [w EXCEPT ![m[me]] = 1]
  /\ holds' = [holds EXCEPT ![me] = @ \cup {m[me]}]
  /\ owed' = IF pc[me] = "cw_parked" THEN Discharged(me) ELSE owed
  /\ m' = Local(c, m, Nothing) /\ v' = Local(c, v, Nothing)
  /\ cs' = Local(c, cs, 0)
  /\ Go(c, "app")
  /\ UNCHANGED <<futexVars, seq, once, kftx, j, calls, ran, joined, refused>>

\* ... or fails; then futex_wait follows, with no look at w in between.
AcquireFails(c) ==
  LET me == cur[c] IN
  /\ Pc(c, "lock") \/ Pc(c, "cw_parked")
  /\ w[m[me]] = 1
  /\ owed' = IF pc[me] = "cw_parked" THEN Discharged(me) ELSE owed
  /\ v' = Local(c, v, Nothing)
  /\ cs' = Local(c, cs, 0)
  /\ Go(c, "mwait")
  /\ UNCHANGED <<futexVars, w, seq, once, kftx, m, j, calls, holds, ran, joined, refused>>

LockWait(c) ==
  /\ Pc(c, "mwait")
  /\ FutexWait(c, m[cur[c]])
  /\ Go(c, "lock")
  /\ UNCHANGED <<w, seq, once, kftx, m, v, j, cs, calls, ghosts>>

\* Mutant: pthread_mutex_trylock adds to the word without comparing.
TryLock_NoCompare(c, x) ==
  /\ Calling(c)
  /\ x \notin holds[cur[c]]
  /\ w' = [w EXCEPT ![x] = @ + 1]
  /\ holds' = [holds EXCEPT ![cur[c]] = @ \cup {x}]
  /\ UNCHANGED <<futexVars, seq, once, kftx, pc, m, v, j, cs, owed, ran, joined, refused>>

\* pthread_mutex_trylock; when the mutex is taken it returns -1.
TryLock(c, x) ==
  /\ Calling(c)
  /\ x \notin holds[cur[c]]
  /\ IF w[x] = 0
     THEN /\ w' = [w EXCEPT ![x] = 1]
          /\ holds' = [holds EXCEPT ![cur[c]] = @ \cup {x}]
     ELSE UNCHANGED <<w, holds>>
  /\ UNCHANGED <<futexVars, seq, once, kftx, pc, m, v, j, cs, owed, ran, joined, refused>>

\* pthread_mutex_unlock: the store, then futex_wake(1).
Release(c, x, p) ==
  /\ w' = [w EXCEPT ![x] = 0]
  /\ holds' = [holds EXCEPT ![cur[c]] = @ \ {x}]
  /\ Go(c, p)
  /\ UNCHANGED <<futexVars, seq, once, kftx, v, j, cs, calls, owed, ran, joined, refused>>

Unlock(c, x) ==
  /\ Pc(c, "app")
  /\ x \in holds[cur[c]]
  /\ Release(c, x, "uwake")
  /\ m' = Local(c, m, x)

\* Mutant: unlock wakes nobody.
UnlockWake_None(c) ==
  /\ Pc(c, "uwake")
  /\ Go(c, "app") /\ m' = Local(c, m, Nothing)
  /\ UNCHANGED <<futexVars, w, seq, once, kftx, v, j, cs, calls, ghosts>>

UnlockWake(c) ==
  /\ Pc(c, "uwake")
  /\ FutexPop(c, m[cur[c]], 1)
  /\ Go(c, "app") /\ m' = Local(c, m, Nothing)
  /\ UNCHANGED <<w, seq, once, kftx, v, j, cs, calls, ghosts>>

-----------------------------------------------------------------------------
\* pthread_cond_wait: seq is loaded with the mutex held ...
CondWait(c, x, mx) ==
  /\ Calling(c)
  /\ mx \in holds[cur[c]]
  /\ cs' = Local(c, cs, seq[x])
  /\ v' = Local(c, v, x) /\ m' = Local(c, m, mx)
  /\ Go(c, "cw_unlock")
  /\ UNCHANGED <<futexVars, w, seq, once, kftx, j, ghosts>>

\* ... pthread_mutex_unlock, in its two steps ...
CondUnlock(c) ==
  /\ Pc(c, "cw_unlock")
  /\ Release(c, m[cur[c]], "cw_wake")
  /\ UNCHANGED m

CondUnlockWake(c) ==
  /\ Pc(c, "cw_wake")
  /\ FutexPop(c, m[cur[c]], 1)
  /\ Go(c, "cw_recheck")
  /\ UNCHANGED <<w, seq, once, kftx, m, v, j, cs, calls, ghosts>>

\* ... the second load finds seq unchanged: futex_wait ...
CondRecheckSame(c) ==
  /\ Pc(c, "cw_recheck")
  /\ seq[v[cur[c]]] = cs[cur[c]]
  /\ Go(c, "cw_wait")
  /\ UNCHANGED <<futexVars, w, seq, once, kftx, m, v, j, cs, calls, ghosts>>

\* Mutant: the waiter is neither marked WAITING nor put into the bucket.
CondPark_NotMarked(c) ==
  /\ Pc(c, "cw_wait")
  /\ Yield(c)
  /\ Go(c, "cw_parked")
  /\ UNCHANGED <<bucketVars, w, seq, once, kftx, m, v, j, cs, calls, ghosts>>

CondPark(c) ==
  /\ Pc(c, "cw_wait")
  /\ FutexWait(c, v[cur[c]])
  /\ Go(c, "cw_parked")
  /\ UNCHANGED <<w, seq, once, kftx, m, v, j, cs, calls, ghosts>>

\* ... or changed: sched_switch_away, still RUNNING and in no list.  After
\* either, pthread_mutex_lock.
CondRecheckChanged(c) ==
  /\ Pc(c, "cw_recheck")
  /\ seq[v[cur[c]]] # cs[cur[c]]
  /\ Yield(c)
  /\ Go(c, "cw_parked")
  /\ UNCHANGED <<bucketVars, w, seq, once, kftx, m, v, j, cs, calls, ghosts>>

\* pthread_cond_signal and pthread_cond_broadcast: the increment, with or
\* without the mutex held, then futex_wake.
Bump(c, x, p) ==
  /\ Calling(c)
  /\ seq' = [seq EXCEPT ![x] = @ + 1]
  /\ v' = Local(c, v, x)
  /\ Go(c, p)
  /\ UNCHANGED <<futexVars, w, once, kftx, m, j, cs, holds, ran, joined, refused>>

Signal(c, x) ==
  /\ Bump(c, x, "swake")
  /\ owed' = owed \cup ({WaitersOf(x)} \ {{}})

Broadcast(c, x) ==
  /\ Bump(c, x, "bwake")
  /\ owed' = owed \cup {{t} : t \in WaitersOf(x)}

SignalWake(c) ==
  /\ Pc(c, "swake")
  /\ FutexPop(c, v[cur[c]], 1)
  /\ Go(c, "app") /\ v' = Local(c, v, Nothing)
  /\ UNCHANGED <<w, seq, once, kftx, m, j, cs, calls, ghosts>>

\* Mutant: broadcast wakes one.
BroadcastWake_One(c) ==
  /\ Pc(c, "bwake")
  /\ FutexPop(c, v[cur[c]], 1)
  /\ Go(c, "app") /\ v' = Local(c, v, Nothing)
  /\ UNCHANGED <<w, seq, once, kftx, m, j, cs, calls, ghosts>>

\* The wake count of broadcast is SMP_MAX_THR.
BroadcastWake(c) ==
  /\ Pc(c, "bwake")
  /\ FutexPop(c, v[cur[c]], MaxThr)
  /\ Go(c, "app") /\ v' = Local(c, v, Nothing)
  /\ UNCHANGED <<w, seq, once, kftx, m, j, cs, calls, ghosts>>

-----------------------------------------------------------------------------
\* pthread_join(t): the thread exists, is not the caller, and no other
\* thread joins it.
JoinCall(c, t) ==
  /\ Pc(c, "app")
  /\ t \in 1..pool_n /\ t # cur[c]
  /\ t \notin joined
  /\ joined' = joined \cup {t}
  /\ j' = Local(c, j, t)
  /\ Go(c, "join")
  /\ UNCHANGED <<futexVars, w, seq, once, kftx, m, v, cs, calls, holds, owed, ran, refused>>

\* kth_try_join answers: the target is DONE, or someone else joined ...
JoinAnswered(c) ==
  /\ Pc(c, "join")
  /\ TryJoin(j[cur[c]]) # 0
  /\ refused' = IF TryJoin(j[cur[c]]) = -1 THEN refused \cup {cur[c]} ELSE refused
  /\ j' = Local(c, j, Nothing)
  /\ Go(c, "app")
  /\ UNCHANGED <<futexVars, w, seq, once, kftx, m, v, cs, calls, holds, owed, ran, joined>>

\* ... or the caller has registered, and sleeps.
JoinRegister(c) ==
  /\ Pc(c, "join")
  /\ TryJoin(j[cur[c]]) = 0
  /\ Register(c, j[cur[c]])
  /\ Go(c, "jwait")
  /\ UNCHANGED <<bucketVars, w, seq, once, kftx, m, v, j, cs, calls, ghosts>>

JoinWait(c) ==
  /\ Pc(c, "jwait")
  /\ FutexWait(c, JoinKey(j[cur[c]]))
  /\ Go(c, "join")
  /\ UNCHANGED <<w, seq, once, kftx, m, v, j, cs, calls, ghosts>>

\* pthread_create; the rest of kthread_spawn are steps of the scheduler.
Create(c) ==
  /\ Calling(c)
  /\ Spawn(c)
  /\ UNCHANGED <<bucketVars, w, seq, once, kftx, pc, m, v, j, cs, ghosts>>

\* The thread function returns, or pthread_exit_shim.
ThreadExit(c) ==
  /\ Pc(c, "app")
  /\ holds[cur[c]] = {}
  /\ Exit(c)
  /\ UNCHANGED <<bucketVars, pvars>>

-----------------------------------------------------------------------------
\* pthread_once.  Its function is the caller's; it does not park.
OnceFast(c, o) ==
  /\ Calling(c)
  /\ once[o] = 1
  /\ UNCHANGED <<futexVars, w, seq, once, kftx, pc, m, v, j, cs, ghosts>>

OnceCall(c, o) ==
  /\ Calling(c)
  /\ once[o] = 0
  /\ v' = Local(c, v, o)
  /\ Go(c, "once_lock")
  /\ UNCHANGED <<futexVars, w, seq, once, kftx, m, j, cs, ghosts>>

\* Mutant: the flag is not read again under the lock.
OnceLock_NoRecheck(c) ==
  /\ Pc(c, "once_lock")
  /\ kftx = 0
  /\ kftx' = 1
  /\ Go(c, "once_fn")
  /\ UNCHANGED <<futexVars, w, seq, once, m, v, j, cs, calls, ghosts>>

\* kftx_lock, and the second look at the flag.
OnceLock(c) ==
  /\ Pc(c, "once_lock")
  /\ kftx = 0
  /\ kftx' = 1
  /\ Go(c, IF once[v[cur[c]]] = 0 THEN "once_fn" ELSE "once_out")
  /\ UNCHANGED <<futexVars, w, seq, once, m, v, j, cs, calls, ghosts>>

OnceRun(c) ==
  /\ Pc(c, "once_fn")
  /\ ran' = [ran EXCEPT ![v[cur[c]]] = @ + 1]
  /\ Go(c, "once_store")
  /\ UNCHANGED <<futexVars, w, seq, once, kftx, m, v, j, cs, calls, holds, owed, joined, refused>>

OnceStore(c) ==
  /\ Pc(c, "once_store")
  /\ once' = [once EXCEPT ![v[cur[c]]] = 1]
  /\ Go(c, "once_out")
  /\ UNCHANGED <<futexVars, w, seq, kftx, m, v, j, cs, calls, ghosts>>

OnceUnlock(c) ==
  /\ Pc(c, "once_out")
  /\ kftx' = 0
  /\ v' = Local(c, v, Nothing)
  /\ Go(c, "app")
  /\ UNCHANGED <<futexVars, w, seq, once, m, j, cs, calls, ghosts>>

-----------------------------------------------------------------------------
\* Steps of the layers below that the calls above have started.
Below(c) ==
  /\ \/ Inside(c) /\ UNCHANGED bucketVars
     \/ FutexWakeOne(c)
     \/ FutexKick(c)
  /\ UNCHANGED pvars

Mutex(c) ==
  \/ \E x \in Mutexes : LockCall(c, x) \/ TryLock(c, x) \/ Unlock(c, x)
  \/ Acquire(c) \/ AcquireFails(c) \/ LockWait(c) \/ UnlockWake(c)

Cond(c) ==
  \/ \E x \in Conds : \/ Signal(c, x) \/ Broadcast(c, x)
                      \/ \E mx \in Mutexes : CondWait(c, x, mx)
  \/ CondUnlock(c) \/ CondUnlockWake(c)
  \/ CondRecheckSame(c) \/ CondRecheckChanged(c) \/ CondPark(c)
  \/ SignalWake(c) \/ BroadcastWake(c)

Lifecycle(c) ==
  \/ Create(c) \/ ThreadExit(c)
  \/ \E t \in Pool : JoinCall(c, t)
  \/ JoinAnswered(c) \/ JoinRegister(c) \/ JoinWait(c)

Once(c) ==
  \/ \E o \in Onces : OnceFast(c, o) \/ OnceCall(c, o)
  \/ OnceLock(c) \/ OnceRun(c) \/ OnceStore(c) \/ OnceUnlock(c)

PthreadNext ==
  \E c \in CPUs : Below(c) \/ Mutex(c) \/ Cond(c) \/ Lifecycle(c) \/ Once(c)

PthreadSpec == PthreadInit /\ [][PthreadNext]_allVars

-----------------------------------------------------------------------------
(***************************************************************************)
(* Correctness.                                                            *)
(***************************************************************************)

\* Two threads never hold one mutex: pthread_mutex_lock, trylock and the lock
\* inside pthread_cond_wait let one thread through between two unlocks.  Any
\* number of CPUs.
MutualExclusion ==
  \A t, u \in Threads : t # u => holds[t] \cap holds[u] = {}

\* Nothing moves any more: every CPU sleeps and no thread is RUNNABLE.
Quiet ==
  /\ fault = "none"
  /\ \A c \in CPUs : at[cur[c]] = "hlt"
  /\ \A t \in Threads : state[t] # "RUNNABLE"

Asleep(t) == Quiet /\ state[t] = "WAITING"

\* "wakeups are never lost" (futex.c:3-6), for mutexes: when all is quiet no
\* thread sleeps in pthread_mutex_lock for a mutex that is free.
MutexWakeupKept ==
  \A t \in Threads : Asleep(t) /\ pc[t] = "lock" => w[m[t]] = 1

\* ... for conditions: when all is quiet every signal has woken one of the
\* threads that were in pthread_cond_wait, and every broadcast all of them.
SignalHeard == Quiet => owed = {}

\* ... for joins: no thread sleeps in pthread_join for a thread that has
\* exited, and the one thread that joins another is not told that "someone
\* else joined" (pthread_impl.c:47).
JoinReturns ==
  /\ \A t \in Threads : Asleep(t) /\ pc[t] = "join" => state[j[t]] # "DONE"
  /\ refused = {}

\* A WAITING thread can be found: it is in the bucket of the key it sleeps on
\* or in the list of a futex_wake.  One CPU.
SleepKey(t) ==
  CASE pc[t] = "lock"      -> m[t]
    [] pc[t] = "cw_parked" -> v[t]
    [] pc[t] = "join"      -> JoinKey(j[t])
Reach(t) ==
  LET reach[i \in 0..Cardinality(Threads)] ==
        IF i = 0 THEN {t}
        ELSE reach[i - 1] \cup {wk_next[x] : x \in reach[i - 1] \ {NoThread}}
  IN reach[Cardinality(Threads)]
SleepersFound ==
  \A t \in Threads :
    state[t] = "WAITING" =>
      \/ t \in Reach(bucket[Hash[SleepKey(t)]])
      \/ \E u \in Threads : phase[u] = "wake" /\ t \in Reach(list[u])

\* No futex_wait or futex_wake meets the entry of another key, or of a thread
\* that no longer sleeps: whoever is about to make one finds only threads
\* asleep on its own key in its bucket.  One CPU; it can only fail for keys
\* that share a bucket, and then the four properties above do (futex.c:58).
CallKey(t) ==
  CASE pc[t] \in {"mwait", "uwake", "cw_wake"} -> m[t]
    [] pc[t] \in {"cw_wait", "swake", "bwake"} -> v[t]
    [] pc[t] = "jwait"                         -> JoinKey(j[t])
Sleeps(t, k) ==
  state[t] = "WAITING" /\ pc[t] \in {"lock", "cw_parked", "join"} /\ SleepKey(t) = k
FutexPcs == {"mwait", "uwake", "cw_wake", "cw_wait", "swake", "bwake", "jwait"}
BucketsUnshared ==
  \A c \in CPUs : Ready(c) /\ pc[cur[c]] \in FutexPcs =>
    \A t \in Reach(bucket[Hash[CallKey(cur[c])]]) \ {NoThread} :
      Sleeps(t, CallKey(cur[c]))

\* A thread that is RUNNING runs: it is on a CPU, or a CPU is switching to it.
\* (A boot thread of an AP and an exited thread only dispatch.)
RunningRuns ==
  \A t \in Threads \ disp :
    state[t] = "RUNNING" => \E c \in CPUs : t \in {cur[c], nxt[cur[c]]}

\* What the calls do to the scheduler are steps of its specification.
ImplementsSched == Spec

\* pthread_once runs the function once, and its flag is set only after that.
OnceRunsOnce ==
  \A o \in Onces : ran[o] <= 1 /\ (once[o] = 1 => ran[o] = 1)
=============================================================================
