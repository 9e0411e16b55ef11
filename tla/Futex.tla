------------------------------- MODULE Futex -------------------------------
(***************************************************************************)
(* The wait buckets of src/smp/futex.c on top of the scheduler.  The       *)
(* buckets are the code's intrusive lists: heads and wk_next pointers, so  *)
(* that an entry left behind, or entered twice, has its real effect.       *)
(*                                                                         *)
(* The spinlock sections (ftx_locks) are single steps.  futex_wake calls   *)
(* sched_make_runnable for one popped thread at a time, outside the lock.  *)
(***************************************************************************)
EXTENDS Sched

CONSTANTS Keys,     \* addresses passed to futex_wait and futex_wake
          Buckets,  \* FTX_BUCKETS lists
          Hash      \* ftx_hash; it need not be injective

ASSUME HashAssumption == Hash \in [Keys -> Buckets]

VARIABLES
  bucket,   \* ftx_bucket: head of each list
  wk_next,  \* kthread.wk_next
  list,     \* futex_wake's local list, of the thread that executes it
  phase     \* where a thread is in futex_wake: "out", "wake" or "kick"

bucketVars == <<bucket, wk_next, list, phase>>
futexVars  == <<vars, bucketVars>>

FutexTypeOK ==
  /\ TypeOK
  /\ bucket  \in [Buckets -> Threads \cup {NoThread}]
  /\ wk_next \in [Threads -> Threads \cup {NoThread}]
  /\ list    \in [Threads -> Threads \cup {NoThread}]
  /\ phase   \in [Threads -> {"out", "wake", "kick"}]

FutexInit ==
  /\ Init
  /\ bucket  = [b \in Buckets |-> NoThread]
  /\ wk_next = [t \in Threads |-> NoThread]
  /\ list    = [t \in Threads |-> NoThread]
  /\ phase   = [t \in Threads |-> "out"]

\* CPU c executes code above the futex layer.
Ready(c) == At(c, "run") /\ phase[cur[c]] = "out"

-----------------------------------------------------------------------------
\* Mutant: the new waiter forgets the ones before it.
FutexWait_DropTail(c, k) ==
  LET b == Hash[k] IN
  /\ Ready(c)
  /\ Park(c)
  /\ wk_next' = [wk_next EXCEPT ![cur[c]] = NoThread]
  /\ bucket'  = [bucket EXCEPT ![b] = cur[c]]
  /\ UNCHANGED <<list, phase>>

\* futex_wait up to the switch: the thread becomes the head of the bucket.
FutexWait(c, k) ==
  LET b == Hash[k] IN
  /\ Ready(c)
  /\ Park(c)
  /\ wk_next' = [wk_next EXCEPT ![cur[c]] = bucket[b]]
  /\ bucket'  = [bucket EXCEPT ![b] = cur[c]]
  /\ UNCHANGED <<list, phase>>

\* The loop of futex_wake under the bucket lock: up to n threads move from
\* the bucket to a list, which they enter in reverse.
PopOne(s) ==
  IF s.head = NoThread THEN s
  ELSE [head |-> s.next[s.head],
        next |-> [s.next EXCEPT ![s.head] = s.list],
        list |-> s.head]

PopUpTo(b, n) ==
  LET start == [head |-> bucket[b], next |-> wk_next, list |-> NoThread]
      after[i \in 0..n] == IF i = 0 THEN start ELSE PopOne(after[i - 1])
  IN after[n]

\* Mutant: the threads that are taken off stay linked in the bucket.
FutexPop_StillLinked(c, k, n) ==
  LET s == PopUpTo(Hash[k], n) IN
  /\ Ready(c)
  /\ wk_next' = s.next
  /\ list'    = [list EXCEPT ![cur[c]] = s.list]
  /\ phase'   = [phase EXCEPT ![cur[c]] = IF s.list = NoThread THEN "out" ELSE "wake"]
  /\ UNCHANGED <<vars, bucket>>

FutexPop(c, k, n) ==
  LET s == PopUpTo(Hash[k], n) IN
  /\ Ready(c)
  /\ bucket'  = [bucket EXCEPT ![Hash[k]] = s.head]
  /\ wk_next' = s.next
  /\ list'    = [list EXCEPT ![cur[c]] = s.list]
  /\ phase'   = [phase EXCEPT ![cur[c]] = IF s.list = NoThread THEN "out" ELSE "wake"]
  /\ UNCHANGED vars

\* Mutant: the popped thread is marked, and not put into the run queue.
FutexWakeOne_NotQueued(c) ==
  LET t == list[cur[c]] IN
  /\ phase[cur[c]] = "wake"
  /\ At(c, "run")
  /\ state' = [state EXCEPT ![t] = "RUNNABLE"]
  /\ list'  = [list EXCEPT ![cur[c]] = wk_next[t]]
  /\ phase' = [phase EXCEPT ![cur[c]] = IF wk_next[t] = NoThread THEN "kick" ELSE "wake"]
  /\ UNCHANGED <<bucket, wk_next, joiner, rq, pool_n, cur, nxt, fresh, irq, at,
                 target, disp, saved, fault>>

\* One iteration of the loop over the list.
FutexWakeOne(c) ==
  LET t == list[cur[c]] IN
  /\ phase[cur[c]] = "wake"
  /\ Wake(c, t)
  /\ list'  = [list EXCEPT ![cur[c]] = wk_next[t]]
  /\ phase' = [phase EXCEPT ![cur[c]] = IF wk_next[t] = NoThread THEN "kick" ELSE "wake"]
  /\ UNCHANGED <<bucket, wk_next>>

\* kick_cpus, when a thread was woken.
FutexKick(c) ==
  /\ phase[cur[c]] = "kick"
  /\ Kick(c)
  /\ phase' = [phase EXCEPT ![cur[c]] = "out"]
  /\ UNCHANGED <<bucket, wk_next, list>>

\* kth_try_join's answer: 1 the thread is DONE, 0 the caller is registered,
\* -1 another joiner is.
TryJoin(t) ==
  CASE state[t] = "DONE"                          -> 1
    [] state[t] # "DONE" /\ joiner[t] = NoThread  -> 0
    [] OTHER                                      -> -1

\* Steps of core.c that touch no bucket.
CoreStep(c) ==
  /\ \/ Inside(c)
     \/ Ready(c) /\ (Spawn(c) \/ Yield(c) \/ Exit(c) \/ \E t \in Threads : Register(c, t))
  /\ UNCHANGED bucketVars

FutexNext ==
  \E c \in CPUs :
    \/ \E k \in Keys : FutexWait(c, k) \/ \E n \in 1..MaxThr : FutexPop(c, k, n)
    \/ FutexWakeOne(c) \/ FutexKick(c) \/ CoreStep(c)

FutexSpec == FutexInit /\ [][FutexNext]_futexVars
=============================================================================
