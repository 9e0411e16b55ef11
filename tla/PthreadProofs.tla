----------------------------- MODULE PthreadProofs -----------------------------
(***************************************************************************)
(* Theorems of Pthread for any number of CPUs, threads, mutexes, conditions *)
(* and onces, and any hash of the buckets: the calls use the scheduler     *)
(* only as Sched allows, so that what is proved of Sched holds here too;   *)
(* mutexes exclude, and pthread_once runs its function once.               *)
(***************************************************************************)
EXTENDS Pthread, SchedProofs, WellFoundedInduction

LEMMA LeastElement ==
  ASSUME NEW T \in SUBSET Nat, T # {}
  PROVE  \E x \in T : \A y \in T : x <= y
<1> DEFINE R == OpToRel(<, Nat)
<1>1. IsWellFoundedOn(R, Nat)
  BY NatLessThanWellFounded
<1>2. PICK x \in T : \A y \in T : ~(<<y, x>> \in R)
  <2> HIDE DEF R
  <2> QED
    BY <1>1, WFMin
<1>3. \A y \in T : y < x => <<y, x>> \in R
  BY DEF OpToRel
<1>4. \A y \in T : ~(y < x) /\ y \in Nat /\ x \in Nat
  BY <1>2, <1>3
<1> QED
  BY <1>4

(***************************************************************************)
(* The lists of futex_wake.  Its loop is a recursive function; that it      *)
(* exists, and what it returns, follows by induction from LeastElement.    *)
(***************************************************************************)
Links == Threads \cup {NoThread}
Lists == [head : Links, next : [Threads -> Links], list : Links]

LEMMA PopOneTyped == \A s \in Lists : PopOne(s) \in Lists
<1> SUFFICES ASSUME NEW s \in Lists PROVE PopOne(s) \in Lists
  OBVIOUS
<1>1. CASE s.head = NoThread
  BY <1>1 DEF PopOne
<1>2. CASE s.head # NoThread
  <2>1. s.head \in Threads /\ s.next \in [Threads -> Links] /\ s.list \in Links
    BY <1>2 DEF Lists, Links
  <2> QED
    BY <1>2, <2>1 DEF PopOne, Lists, Links
<1> QED
  BY <1>1, <1>2

\* Induction over an interval, for a set.
LEMMA IntervalSet ==
  ASSUME NEW n \in Nat, NEW S, 0 \in S, \A i \in 1..n : i - 1 \in S => i \in S
  PROVE  \A i \in 0..n : i \in S
<1> SUFFICES ASSUME (0..n) \ S # {} PROVE FALSE
  OBVIOUS
<1>1. PICK k \in (0..n) \ S : \A l \in (0..n) \ S : k <= l
  <2> DEFINE T == (0..n) \ S
  <2>1. T \in SUBSET Nat /\ T # {}
    OBVIOUS
  <2> HIDE DEF T
  <2>2. \E k \in T : \A l \in T : k <= l
    BY <2>1, LeastElement
  <2> QED
    BY <2>2 DEF T
<1>2. k \in 1..n /\ k - 1 \in 0..n /\ ~(k <= k - 1)
  BY <1>1
<1>3. k - 1 \in S
  BY <1>1, <1>2
<1> QED
  BY <1>1, <1>2, <1>3

\* A recursive function on an interval exists, given its first value and one step.
Iterates(f, G, start, n) == f[0] = start /\ \A i \in 1..n : f[i] = G[f[i - 1]]

LEMMA Iteration ==
  ASSUME NEW A, NEW G \in [A -> A], NEW start \in A, NEW n \in Nat
  PROVE  \E f \in [0..n -> A] : Iterates(f, G, start, n)
<1> DEFINE Good == {k \in 0..n : \E f \in [0..n -> A] : Iterates(f, G, start, k)}
<1> USE DEF Iterates
<1>1. 0 \in Good
  <2> DEFINE g == [i \in 0..n |-> start]
  <2>1. g \in [0..n -> A] /\ g[0] = start
    OBVIOUS
  <2> HIDE DEF g
  <2> QED
    BY <2>1
<1>2. ASSUME NEW k \in 1..n, k - 1 \in Good PROVE k \in Good
  <2>1. PICK f \in [0..n -> A] : Iterates(f, G, start, k - 1)
    BY <1>2
  <2> DEFINE g == [f EXCEPT ![k] = G[f[k - 1]]]
  <2>2. k \in 0..n /\ k - 1 \in 0..n /\ k - 1 # k
    OBVIOUS
  <2>3. g \in [0..n -> A]
    BY <2>2
  <2>4. g[0] = start
    BY <2>1, <2>2
  <2>5. ASSUME NEW i \in 1..k PROVE g[i] = G[g[i - 1]]
    <3>1. CASE i = k
      BY <2>2, <3>1
    <3>2. CASE i # k
      <4>1. i \in 1..(k - 1) /\ i \in 0..n /\ i - 1 \in 0..n /\ i - 1 # k
        BY <2>2, <3>2
      <4>2. g[i] = f[i] /\ g[i - 1] = f[i - 1]
        BY <3>2, <4>1
      <4> QED
        BY <2>1, <4>1, <4>2
    <3> QED
      BY <3>1, <3>2
  <2> QED
    BY <2>2, <2>3, <2>4, <2>5
<1>3. n \in Good
  <2> HIDE DEF Good
  <2> QED
    BY <1>1, <1>2, IntervalSet
<1> HIDE DEF Iterates
<1> QED
  BY <1>3

\* The loop under the bucket lock: its states, one after the other.
PopRun(b, n, after) ==
  /\ after[0] = [head |-> bucket[b], next |-> wk_next, list |-> NoThread]
  /\ \A i \in 1..n : after[i] = PopOne(after[i - 1])

LEMMA PopRuns ==
  ASSUME NEW b, NEW n \in Nat, bucket[b] \in Links, wk_next \in [Threads -> Links]
  PROVE  \E after \in [0..n -> Lists] : PopRun(b, n, after) /\ PopUpTo(b, n) = after[n]
<1> DEFINE start == [head |-> bucket[b], next |-> wk_next, list |-> NoThread]
           Body(f) == [i \in 0..n |-> IF i = 0 THEN start ELSE PopOne(f[i - 1])]
           after == CHOOSE f : f = Body(f)
           G == [s \in Lists |-> PopOne(s)]
<1>1. start \in Lists
  BY DEF Lists, Links
<1>2. PopUpTo(b, n) = after[n]
  BY DEF PopUpTo
<1> HIDE DEF start
<1>3. G \in [Lists -> Lists] /\ \A s \in Lists : G[s] = PopOne(s)
  BY PopOneTyped
<1> HIDE DEF G
<1>4. PICK f \in [0..n -> Lists] : Iterates(f, G, start, n)
  BY <1>1, <1>3, Iteration
<1>5. f = Body(f)
  <2>1. ASSUME NEW i \in 0..n
        PROVE  f[i] = IF i = 0 THEN start ELSE PopOne(f[i - 1])
    <3>1. CASE i = 0
      BY <1>4, <3>1 DEF Iterates
    <3>2. CASE i # 0
      <4>1. i \in 1..n /\ i - 1 \in 0..n
        BY <3>2
      <4>2. f[i] = G[f[i - 1]] /\ f[i - 1] \in Lists
        BY <1>4, <4>1 DEF Iterates
      <4> QED
        BY <1>3, <3>2, <4>2
    <3> QED
      BY <3>1, <3>2
  <2> QED
    BY <2>1
<1>6. after = Body(after)
  <2> HIDE DEF Body
  <2> QED
    BY <1>5
<1> HIDE DEF after
<1>7. after[0] = start /\ \A i \in 1..n : after[i] = PopOne(after[i - 1])
  BY <1>6
<1>8. \A i \in 0..n : after[i] \in Lists
  <2> DEFINE In == {i \in 0..n : after[i] \in Lists}
  <2>1. 0 \in In
    BY <1>1, <1>7
  <2>2. \A i \in 1..n : i - 1 \in In => i \in In
    BY <1>7, PopOneTyped
  <2>3. \A i \in 0..n : i \in In
    <3> HIDE DEF In
    <3> QED
      BY <2>1, <2>2, IntervalSet
  <2> QED
    BY <2>3
<1>9. after \in [0..n -> Lists]
  <2>1. DOMAIN after = 0..n /\ after = [i \in DOMAIN after |-> after[i]]
    BY <1>6
  <2> QED
    BY <1>8, <2>1
<1> QED
  BY <1>2, <1>7, <1>9 DEF PopRun, start

LEMMA PopTyped ==
  ASSUME NEW b, NEW n \in Nat, bucket[b] \in Links, wk_next \in [Threads -> Links]
  PROVE  PopUpTo(b, n) \in Lists
<1>1. PICK after \in [0..n -> Lists] : PopUpTo(b, n) = after[n]
  BY PopRuns
<1> QED
  BY <1>1

-----------------------------------------------------------------------------
(***************************************************************************)
(* Types: the links of the futex layer, and the arguments of a call where  *)
(* they are used.                                                          *)
(***************************************************************************)
LinksTyped ==
  /\ bucket \in [Buckets -> Links]
  /\ wk_next \in [Threads -> Links]
  /\ list \in [Threads -> Links]
  /\ phase \in [Threads -> {"out", "wake", "kick"}]
  /\ \A t \in Threads : phase[t] = "wake" => list[t] \in Threads

MutexPlaces == {"lock", "mwait", "uwake", "cw_unlock", "cw_wake", "cw_recheck",
                "cw_wait", "cw_parked"}
CondPlaces == {"cw_unlock", "cw_wake", "cw_recheck", "cw_wait", "cw_parked", "swake", "bwake"}
OncePlaces == {"once_lock", "once_fn", "once_store", "once_out"}

CallsTyped ==
  /\ pc \in [Threads -> Pcs]
  /\ m \in [Threads -> Mutexes \cup {Nothing}]
  /\ v \in [Threads -> Conds \cup Onces \cup {Nothing}]
  /\ j \in [Threads -> Pool \cup {Nothing}]
  /\ \A t \in Threads :
       /\ pc[t] \in MutexPlaces => m[t] \in Mutexes
       /\ pc[t] \in CondPlaces => v[t] \in Conds
       /\ pc[t] \in OncePlaces => v[t] \in Onces
       /\ pc[t] \in {"join", "jwait"} => j[t] \in Pool

LEMMA KeysAreKeys ==
  /\ \A x \in Mutexes \cup Conds \cup Pool : x \in Keys /\ Hash[x] \in Buckets
  /\ \A t \in Pool : JoinKey(t) \in Keys /\ t \in Threads
  BY KeyAssumption, HashAssumption DEF JoinKey, Threads

LEMMA WaitTyped ==
  ASSUME LinksTyped, NEW c \in CPUs, cur[c] \in Threads, NEW k \in Keys, FutexWait(c, k)
  PROVE  LinksTyped' /\ Park(c)
<1>1. bucket[Hash[k]] \in Links /\ cur[c] \in Links
  BY HashAssumption DEF LinksTyped, Links
<1> QED
  BY <1>1 DEF FutexWait, LinksTyped

LEMMA WakeTyped ==
  ASSUME LinksTyped, NEW c \in CPUs, cur[c] \in Threads, NEW k \in Keys, NEW n \in Nat,
         FutexPop(c, k, n)
  PROVE  LinksTyped' /\ UNCHANGED vars
<1> DEFINE s == PopUpTo(Hash[k], n)
<1>1. s \in Lists
  BY HashAssumption, PopTyped DEF LinksTyped
<1>2. /\ bucket' = [bucket EXCEPT ![Hash[k]] = s.head] /\ wk_next' = s.next
      /\ list' = [list EXCEPT ![cur[c]] = s.list]
      /\ phase' = [phase EXCEPT ![cur[c]] = IF s.list = NoThread THEN "out" ELSE "wake"]
      /\ UNCHANGED vars
  BY DEF FutexPop
<1> HIDE DEF s
<1>3. s.head \in Links /\ s.next \in [Threads -> Links] /\ s.list \in Links
  BY <1>1 DEF Lists
<1> QED
  BY <1>2, <1>3 DEF LinksTyped, Links

LEMMA WakeOneTyped ==
  ASSUME LinksTyped, NEW c \in CPUs, cur[c] \in Threads, FutexWakeOne(c)
  PROVE  /\ LinksTyped'
         /\ list[cur[c]] \in Threads /\ Wake(c, list[cur[c]])
<1>1. list[cur[c]] \in Threads /\ wk_next[list[cur[c]]] \in Links
  BY DEF FutexWakeOne, LinksTyped
<1> QED
  BY <1>1 DEF FutexWakeOne, LinksTyped, Links

\* Every step of the pthread layer is a step of the scheduler's specification, or
\* leaves the scheduler alone, and keeps the links typed.
LEMMA LinksStep ==
  ASSUME LinksTyped, CallsTyped, \A c \in CPUs : cur[c] \in Threads, PthreadNext
  PROVE  LinksTyped' /\ [Next]_vars
<1>1. PICK c \in CPUs : Below(c) \/ Mutex(c) \/ Cond(c) \/ Lifecycle(c) \/ Once(c)
  BY DEF PthreadNext
<1> DEFINE me == cur[c]
<1>2. me \in Threads
  OBVIOUS
<1>3. UNCHANGED bucketVars => LinksTyped'
  BY DEF bucketVars, LinksTyped
<1>4. UNCHANGED futexVars => LinksTyped' /\ UNCHANGED vars
  BY <1>3 DEF futexVars
<1>5. ASSUME NEW k \in Keys, NEW n \in Nat, FutexPop(c, k, n)
      PROVE  LinksTyped' /\ [Next]_vars
  BY <1>2, <1>5, WakeTyped
<1>6. ASSUME NEW k \in Keys, FutexWait(c, k)
      PROVE  LinksTyped' /\ [Next]_vars
  BY <1>2, <1>6, WaitTyped DEF Next, Call
<1>7. CASE Below(c)
  <2>1. CASE Inside(c) /\ UNCHANGED bucketVars
    BY <1>3, <2>1 DEF Next
  <2>2. CASE FutexWakeOne(c)
    BY <1>2, <2>2, WakeOneTyped DEF Next, Call
  <2>3. CASE FutexKick(c)
    <3>1. LinksTyped'
      BY <1>2, <2>3 DEF FutexKick, LinksTyped
    <3> QED
      BY <2>3, <3>1 DEF FutexKick, Next, Call
  <2> QED
    BY <1>7, <2>1, <2>2, <2>3 DEF Below
<1>8. CASE Mutex(c)
  <2>1. CASE LockWait(c)
    BY <1>2, <1>6, <2>1, KeysAreKeys DEF LockWait, Pc, CallsTyped, MutexPlaces
  <2>2. CASE UnlockWake(c)
    BY <1>2, <1>5, <2>2, KeysAreKeys DEF UnlockWake, Pc, CallsTyped, MutexPlaces
  <2>3. CASE UNCHANGED futexVars
    BY <1>4, <2>3
  <2> QED
    BY <1>8, <2>1, <2>2, <2>3
    DEF Mutex, LockCall, TryLock, Unlock, Release, Acquire, AcquireFails
<1>9. CASE Cond(c)
  <2>1. CASE CondUnlockWake(c)
    BY <1>2, <1>5, <2>1, KeysAreKeys DEF CondUnlockWake, Pc, CallsTyped, MutexPlaces
  <2>2. CASE SignalWake(c) \/ BroadcastWake(c)
    BY <1>2, <1>5, <2>2, KeysAreKeys, SchedAssumption
    DEF SignalWake, BroadcastWake, Pc, CallsTyped, CondPlaces
  <2>3. CASE CondPark(c)
    BY <1>2, <1>6, <2>3, KeysAreKeys DEF CondPark, Pc, CallsTyped, CondPlaces
  <2>4. CASE CondRecheckChanged(c)
    BY <1>3, <2>4 DEF CondRecheckChanged, Next, Call
  <2>5. CASE UNCHANGED futexVars
    BY <1>4, <2>5
  <2> QED
    BY <1>9, <2>1, <2>2, <2>3, <2>4, <2>5
    DEF Cond, Signal, Broadcast, Bump, CondWait, CondUnlock, Release, CondRecheckSame
<1>10. CASE Lifecycle(c)
  <2>1. CASE Create(c)
    BY <1>3, <2>1 DEF Create, Next, Call
  <2>2. CASE ThreadExit(c)
    BY <1>3, <2>2 DEF ThreadExit, Next, Call
  <2>3. CASE JoinRegister(c)
    <3>1. j[me] \in Threads
      BY <1>2, <2>3, KeysAreKeys DEF JoinRegister, Pc, CallsTyped
    <3> QED
      BY <1>3, <2>3, <3>1 DEF JoinRegister, Next, Call
  <2>4. CASE JoinWait(c)
    <3>1. JoinKey(j[me]) \in Keys
      BY <1>2, <2>4, KeysAreKeys DEF JoinWait, Pc, CallsTyped
    <3> QED
      BY <1>6, <2>4, <3>1 DEF JoinWait
  <2>5. CASE UNCHANGED futexVars
    BY <1>4, <2>5
  <2> QED
    BY <1>10, <2>1, <2>2, <2>3, <2>4, <2>5 DEF Lifecycle, JoinCall, JoinAnswered
<1>11. CASE Once(c)
  BY <1>4, <1>11 DEF Once, OnceFast, OnceCall, OnceLock, OnceRun, OnceStore, OnceUnlock
<1> QED
  BY <1>1, <1>7, <1>8, <1>9, <1>10, <1>11

\* One thread moves on: its place and its arguments change, nobody else's do.
Moves(t, p, mx, x, y) ==
  /\ pc' = [pc EXCEPT ![t] = p] /\ m' = [m EXCEPT ![t] = mx]
  /\ v' = [v EXCEPT ![t] = x] /\ j' = [j EXCEPT ![t] = y]

LEMMA MovesTyped ==
  ASSUME CallsTyped, NEW t \in Threads, NEW p \in Pcs,
         NEW mx \in Mutexes \cup {Nothing}, NEW x \in Conds \cup Onces \cup {Nothing},
         NEW y \in Pool \cup {Nothing}, Moves(t, p, mx, x, y),
         p \in MutexPlaces => mx \in Mutexes, p \in CondPlaces => x \in Conds,
         p \in OncePlaces => x \in Onces, p \in {"join", "jwait"} => y \in Pool
  PROVE  CallsTyped'
<1>1. /\ pc'[t] = p /\ m'[t] = mx /\ v'[t] = x /\ j'[t] = y
      /\ \A u \in Threads \ {t} : pc'[u] = pc[u] /\ m'[u] = m[u] /\ v'[u] = v[u] /\ j'[u] = j[u]
  BY DEF CallsTyped, Moves
<1>2. /\ pc' \in [Threads -> Pcs] /\ m' \in [Threads -> Mutexes \cup {Nothing}]
      /\ v' \in [Threads -> Conds \cup Onces \cup {Nothing}]
      /\ j' \in [Threads -> Pool \cup {Nothing}]
  BY DEF CallsTyped, Moves
<1>3. ASSUME NEW u \in Threads
      PROVE  /\ pc'[u] \in MutexPlaces => m'[u] \in Mutexes
             /\ pc'[u] \in CondPlaces => v'[u] \in Conds
             /\ pc'[u] \in OncePlaces => v'[u] \in Onces
             /\ pc'[u] \in {"join", "jwait"} => j'[u] \in Pool
  <2>1. CASE u = t
    BY <1>1, <2>1
  <2>2. CASE u # t
    BY <1>1, <2>2 DEF CallsTyped
  <2> QED
    BY <2>1, <2>2
<1> QED
  BY <1>2, <1>3 DEF CallsTyped

\* The same, by what the place is for.
LEMMA MutexMove ==
  ASSUME CallsTyped, NEW t \in Threads, NEW p \in {"lock", "mwait", "uwake"},
         NEW mx \in Mutexes, NEW x \in Conds \cup Onces \cup {Nothing},
         NEW y \in Pool \cup {Nothing}, Moves(t, p, mx, x, y)
  PROVE  CallsTyped'
<1>1. p \in Pcs /\ p \notin CondPlaces \cup OncePlaces \cup {"join", "jwait"}
  BY DEF Pcs, CondPlaces, OncePlaces
<1> QED
  BY <1>1, MovesTyped

LEMMA CondMove ==
  ASSUME CallsTyped, NEW t \in Threads, NEW p \in {"swake", "bwake"},
         NEW mx \in Mutexes \cup {Nothing}, NEW x \in Conds,
         NEW y \in Pool \cup {Nothing}, Moves(t, p, mx, x, y)
  PROVE  CallsTyped'
<1>1. p \in Pcs /\ p \notin MutexPlaces \cup OncePlaces \cup {"join", "jwait"}
  BY DEF Pcs, MutexPlaces, OncePlaces
<1> QED
  BY <1>1, MovesTyped

LEMMA WaitMove ==
  ASSUME CallsTyped, NEW t \in Threads,
         NEW p \in {"cw_unlock", "cw_wake", "cw_recheck", "cw_wait", "cw_parked"},
         NEW mx \in Mutexes, NEW x \in Conds,
         NEW y \in Pool \cup {Nothing}, Moves(t, p, mx, x, y)
  PROVE  CallsTyped'
<1>1. p \in Pcs /\ p \notin OncePlaces \cup {"join", "jwait"}
  BY DEF Pcs, OncePlaces
<1> QED
  BY <1>1, MovesTyped

LEMMA OnceMove ==
  ASSUME CallsTyped, NEW t \in Threads,
         NEW p \in {"once_lock", "once_fn", "once_store", "once_out"},
         NEW mx \in Mutexes \cup {Nothing}, NEW x \in Onces,
         NEW y \in Pool \cup {Nothing}, Moves(t, p, mx, x, y)
  PROVE  CallsTyped'
<1>1. p \in Pcs /\ p \notin MutexPlaces \cup CondPlaces \cup {"join", "jwait"}
  BY DEF Pcs, MutexPlaces, CondPlaces
<1> QED
  BY <1>1, MovesTyped

LEMMA JoinMove ==
  ASSUME CallsTyped, NEW t \in Threads, NEW p \in {"join", "jwait"},
         NEW mx \in Mutexes \cup {Nothing}, NEW x \in Conds \cup Onces \cup {Nothing},
         NEW y \in Pool, Moves(t, p, mx, x, y)
  PROVE  CallsTyped'
<1>1. p \in Pcs /\ p \notin MutexPlaces \cup CondPlaces \cup OncePlaces
  BY DEF Pcs, MutexPlaces, CondPlaces, OncePlaces
<1> QED
  BY <1>1, MovesTyped

LEMMA ReturnMove ==
  ASSUME CallsTyped, NEW t \in Threads,
         NEW mx \in Mutexes \cup {Nothing}, NEW x \in Conds \cup Onces \cup {Nothing},
         NEW y \in Pool \cup {Nothing}, Moves(t, "app", mx, x, y)
  PROVE  CallsTyped'
<1>1. /\ "app" \in Pcs
      /\ "app" \notin MutexPlaces \cup CondPlaces \cup OncePlaces \cup {"join", "jwait"}
  BY DEF Pcs, MutexPlaces, CondPlaces, OncePlaces
<1> QED
  BY <1>1, MovesTyped

\* What each step does to the caller's place and arguments.
LEMMA CallsStep ==
  ASSUME CallsTyped, \A c \in CPUs : cur[c] \in Threads, PthreadNext
  PROVE  CallsTyped'
<1>1. PICK c \in CPUs : Below(c) \/ Mutex(c) \/ Cond(c) \/ Lifecycle(c) \/ Once(c)
  BY DEF PthreadNext
<1> DEFINE me == cur[c]
<1>2. /\ me \in Threads
      /\ m[me] \in Mutexes \cup {Nothing} /\ v[me] \in Conds \cup Onces \cup {Nothing}
      /\ j[me] \in Pool \cup {Nothing} /\ pc[me] \in Pcs
      /\ pc[me] \in MutexPlaces => m[me] \in Mutexes
      /\ pc[me] \in CondPlaces => v[me] \in Conds
      /\ pc[me] \in OncePlaces => v[me] \in Onces
      /\ pc[me] \in {"join", "jwait"} => j[me] \in Pool
      /\ pc = [pc EXCEPT ![me] = pc[me]] /\ m = [m EXCEPT ![me] = m[me]]
      /\ v = [v EXCEPT ![me] = v[me]] /\ j = [j EXCEPT ![me] = j[me]]
  BY DEF CallsTyped
<1>3. UNCHANGED <<pc, m, v, j>> => CallsTyped'
  BY DEF CallsTyped
<1> USE DEF Pc, Calling, Go, Local
<1>4. CASE Below(c)
  BY <1>3, <1>4 DEF Below, pvars
<1>5. CASE Mutex(c)
  <2>1. ASSUME NEW x \in Mutexes, LockCall(c, x) PROVE CallsTyped'
    <3>1. Moves(me, "lock", x, v[me], j[me])
      BY <1>2, <2>1 DEF LockCall, Moves
    <3> QED
      BY <1>2, <3>1, MutexMove
  <2>2. ASSUME NEW x \in Mutexes, TryLock(c, x) PROVE CallsTyped'
    BY <1>3, <2>2 DEF TryLock
  <2>3. ASSUME NEW x \in Mutexes, Unlock(c, x) PROVE CallsTyped'
    <3>1. Moves(me, "uwake", x, v[me], j[me])
      BY <1>2, <2>3 DEF Unlock, Release, Moves
    <3> QED
      BY <1>2, <3>1, MutexMove
  <2>4. CASE Acquire(c)
    <3>1. Moves(me, "app", Nothing, Nothing, j[me])
      BY <1>2, <2>4 DEF Acquire, Moves
    <3> QED
      BY <1>2, <3>1, ReturnMove
  <2>5. CASE AcquireFails(c)
    <3>1. Moves(me, "mwait", m[me], Nothing, j[me]) /\ m[me] \in Mutexes
      BY <1>2, <2>5 DEF AcquireFails, Moves, MutexPlaces, CondPlaces
    <3> QED
      BY <1>2, <3>1, MutexMove
  <2>6. CASE LockWait(c)
    <3>1. Moves(me, "lock", m[me], v[me], j[me]) /\ m[me] \in Mutexes
      BY <1>2, <2>6 DEF LockWait, Moves, MutexPlaces, CondPlaces
    <3> QED
      BY <1>2, <3>1, MutexMove
  <2>7. CASE UnlockWake(c)
    <3>1. Moves(me, "app", Nothing, v[me], j[me])
      BY <1>2, <2>7 DEF UnlockWake, Moves
    <3> QED
      BY <1>2, <3>1, ReturnMove
  <2> QED
    BY <1>5, <2>1, <2>2, <2>3, <2>4, <2>5, <2>6, <2>7 DEF Mutex
<1>6. CASE Cond(c)
  <2>1. ASSUME NEW x \in Conds, Signal(c, x) \/ Broadcast(c, x) PROVE CallsTyped'
    <3>1. PICK p \in {"swake", "bwake"} : Moves(me, p, m[me], x, j[me])
      BY <1>2, <2>1 DEF Signal, Broadcast, Bump, Moves
    <3> QED
      BY <1>2, <3>1, CondMove
  <2>2. ASSUME NEW x \in Conds, NEW mx \in Mutexes, CondWait(c, x, mx) PROVE CallsTyped'
    <3>1. Moves(me, "cw_unlock", mx, x, j[me])
      BY <1>2, <2>2 DEF CondWait, Moves
    <3> QED
      BY <1>2, <3>1, WaitMove
  <2>3. ASSUME NEW p \in {"cw_wake", "cw_recheck", "cw_wait", "cw_parked"},
               Moves(me, p, m[me], v[me], j[me]), m[me] \in Mutexes, v[me] \in Conds
        PROVE  CallsTyped'
    BY <1>2, <2>3, WaitMove
  <2>4. CASE CondUnlock(c)
    <3>1. Moves(me, "cw_wake", m[me], v[me], j[me]) /\ m[me] \in Mutexes /\ v[me] \in Conds
      BY <1>2, <2>4 DEF CondUnlock, Release, Moves, MutexPlaces, CondPlaces
    <3> QED
      BY <2>3, <3>1
  <2>5. CASE CondUnlockWake(c)
    <3>1. Moves(me, "cw_recheck", m[me], v[me], j[me]) /\ m[me] \in Mutexes /\ v[me] \in Conds
      BY <1>2, <2>5 DEF CondUnlockWake, Moves, MutexPlaces, CondPlaces
    <3> QED
      BY <2>3, <3>1
  <2>6. CASE CondRecheckSame(c)
    <3>1. Moves(me, "cw_wait", m[me], v[me], j[me]) /\ m[me] \in Mutexes /\ v[me] \in Conds
      BY <1>2, <2>6 DEF CondRecheckSame, Moves, MutexPlaces, CondPlaces
    <3> QED
      BY <2>3, <3>1
  <2>7. CASE CondPark(c) \/ CondRecheckChanged(c)
    <3>1. Moves(me, "cw_parked", m[me], v[me], j[me]) /\ m[me] \in Mutexes /\ v[me] \in Conds
      BY <1>2, <2>7 DEF CondPark, CondRecheckChanged, Moves, MutexPlaces, CondPlaces
    <3> QED
      BY <2>3, <3>1
  <2>8. CASE SignalWake(c) \/ BroadcastWake(c)
    <3>1. Moves(me, "app", m[me], Nothing, j[me])
      BY <1>2, <2>8 DEF SignalWake, BroadcastWake, Moves
    <3> QED
      BY <1>2, <3>1, ReturnMove
  <2> QED
    BY <1>6, <2>1, <2>2, <2>4, <2>5, <2>6, <2>7, <2>8 DEF Cond
<1>7. CASE Lifecycle(c)
  <2>1. CASE Create(c) \/ ThreadExit(c)
    BY <1>3, <2>1 DEF Create, ThreadExit, pvars
  <2>2. ASSUME NEW t \in Pool, JoinCall(c, t) PROVE CallsTyped'
    <3>1. Moves(me, "join", m[me], v[me], t)
      BY <1>2, <2>2 DEF JoinCall, Moves
    <3> QED
      BY <1>2, <3>1, JoinMove
  <2>3. CASE JoinAnswered(c)
    <3>1. Moves(me, "app", m[me], v[me], Nothing)
      BY <1>2, <2>3 DEF JoinAnswered, Moves
    <3> QED
      BY <1>2, <3>1, ReturnMove
  <2>4. CASE JoinRegister(c) \/ JoinWait(c)
    <3>1. PICK p \in {"join", "jwait"} : Moves(me, p, m[me], v[me], j[me])
      BY <1>2, <2>4 DEF JoinRegister, JoinWait, Moves
    <3>2. j[me] \in Pool
      BY <1>2, <2>4 DEF JoinRegister, JoinWait, MutexPlaces, CondPlaces, OncePlaces
    <3> QED
      BY <1>2, <3>1, <3>2, JoinMove
  <2> QED
    BY <1>7, <2>1, <2>2, <2>3, <2>4 DEF Lifecycle
<1>8. CASE Once(c)
  <2>1. ASSUME NEW o \in Onces, OnceFast(c, o) PROVE CallsTyped'
    BY <1>3, <2>1 DEF OnceFast
  <2>2. ASSUME NEW o \in Onces, OnceCall(c, o) PROVE CallsTyped'
    <3>1. Moves(me, "once_lock", m[me], o, j[me])
      BY <1>2, <2>2 DEF OnceCall, Moves
    <3> QED
      BY <1>2, <3>1, OnceMove
  <2>3. CASE OnceLock(c) \/ OnceRun(c) \/ OnceStore(c)
    <3>1. PICK p \in {"once_fn", "once_store", "once_out"} : Moves(me, p, m[me], v[me], j[me])
      BY <1>2, <2>3 DEF OnceLock, OnceRun, OnceStore, Moves
    <3>2. v[me] \in Onces
      BY <1>2, <2>3 DEF OnceLock, OnceRun, OnceStore, MutexPlaces, CondPlaces, OncePlaces
    <3> QED
      BY <1>2, <3>1, <3>2, OnceMove
  <2>4. CASE OnceUnlock(c)
    <3>1. Moves(me, "app", m[me], Nothing, j[me])
      BY <1>2, <2>4 DEF OnceUnlock, Moves
    <3> QED
      BY <1>2, <3>1, ReturnMove
  <2> QED
    BY <1>8, <2>1, <2>2, <2>3, <2>4 DEF Once
<1> QED
  BY <1>1, <1>4, <1>5, <1>6, <1>7, <1>8

-----------------------------------------------------------------------------
(***************************************************************************)
(* Mutual exclusion: the word of a mutex that is held is 1, and a thread   *)
(* that unlocks inside pthread_cond_wait holds what it unlocks.            *)
(***************************************************************************)
MutexInv ==
  /\ w \in [Mutexes -> {0, 1}]
  /\ holds \in [Threads -> SUBSET Mutexes]
  /\ MutualExclusion
  /\ \A t \in Threads : /\ \A x \in holds[t] : w[x] = 1
                        /\ pc[t] = "cw_unlock" => m[t] \in holds[t]

\* A step that locks and unlocks nothing, and begins no unlock in pthread_cond_wait.
LEMMA NoLock ==
  ASSUME MutexInv, w' = w, holds' = holds,
         \A t \in Threads : pc'[t] = "cw_unlock" => pc[t] = "cw_unlock" /\ m'[t] = m[t]
  PROVE  MutexInv'
  BY DEF MutexInv, MutualExclusion

LEMMA Locks ==
  ASSUME MutexInv, CallsTyped, NEW t \in Threads, NEW x \in Mutexes, w[x] = 0,
         w' = [w EXCEPT ![x] = 1], holds' = [holds EXCEPT ![t] = holds[t] \cup {x}],
         \A u \in Threads : pc'[u] = "cw_unlock" => pc[u] = "cw_unlock" /\ m'[u] = m[u]
  PROVE  MutexInv'
<1> USE DEF MutexInv
<1>1. \A u \in Threads : x \notin holds[u]
  OBVIOUS
<1>2. /\ w' \in [Mutexes -> {0, 1}] /\ holds' \in [Threads -> SUBSET Mutexes]
      /\ holds'[t] = holds[t] \cup {x}
      /\ \A u \in Threads \ {t} : holds'[u] = holds[u]
      /\ w'[x] = 1 /\ \A y \in Mutexes \ {x} : w'[y] = w[y]
  OBVIOUS
<1>3. MutualExclusion'
  BY <1>1, <1>2 DEF MutualExclusion
<1>4. \A u \in Threads : holds[u] \subseteq holds'[u]
  BY <1>2
<1>5. ASSUME NEW u \in Threads
      PROVE  /\ \A y \in holds'[u] : w'[y] = 1
             /\ pc'[u] = "cw_unlock" => m'[u] \in holds'[u]
  BY <1>2, <1>4
<1> QED
  BY <1>2, <1>3, <1>5

LEMMA Unlocks ==
  ASSUME MutexInv, CallsTyped, NEW t \in Threads, NEW x \in holds[t], NEW p \in Pcs,
         pc' = [pc EXCEPT ![t] = p], p # "cw_unlock",
         \A u \in Threads \ {t} : m'[u] = m[u],
         w' = [w EXCEPT ![x] = 0], holds' = [holds EXCEPT ![t] = holds[t] \ {x}]
  PROVE  MutexInv'
<1> USE DEF MutexInv
<1>1. \A u \in Threads \ {t} : x \notin holds[u]
  BY DEF MutualExclusion
<1>2. /\ w' \in [Mutexes -> {0, 1}] /\ holds' \in [Threads -> SUBSET Mutexes]
      /\ holds'[t] = holds[t] \ {x}
      /\ \A u \in Threads \ {t} : holds'[u] = holds[u]
      /\ \A y \in Mutexes \ {x} : w'[y] = w[y]
  OBVIOUS
<1>3. pc'[t] = p /\ \A u \in Threads \ {t} : pc'[u] = pc[u]
  BY DEF CallsTyped
<1>4. MutualExclusion'
  BY <1>2 DEF MutualExclusion
<1>5. ASSUME NEW u \in Threads
      PROVE  /\ \A y \in holds'[u] : w'[y] = 1
             /\ pc'[u] = "cw_unlock" => m'[u] \in holds'[u]
  BY <1>1, <1>2, <1>3
<1> QED
  BY <1>2, <1>4, <1>5

LEMMA MutexStep ==
  ASSUME MutexInv, CallsTyped, \A c \in CPUs : cur[c] \in Threads, PthreadNext
  PROVE  MutexInv'
<1>1. PICK c \in CPUs : Below(c) \/ Mutex(c) \/ Cond(c) \/ Lifecycle(c) \/ Once(c)
  BY DEF PthreadNext
<1> DEFINE me == cur[c]
<1>2. me \in Threads
  OBVIOUS
<1>3. ASSUME NEW p \in Pcs, p # "cw_unlock", w' = w, holds' = holds,
             pc' = [pc EXCEPT ![me] = p], \A u \in Threads \ {me} : m'[u] = m[u]
      PROVE  MutexInv'
  BY <1>2, <1>3, NoLock DEF CallsTyped
<1>4. UNCHANGED <<w, holds, pc, m>> => MutexInv'
  BY NoLock
<1> USE DEF Pc, Calling, Go, Local, ghosts
<1>5. CASE Below(c)
  BY <1>4, <1>5 DEF Below, pvars
<1>6. CASE Mutex(c)
  <2>1. ASSUME NEW x \in Mutexes, LockCall(c, x) PROVE MutexInv'
    BY <1>2, <1>3, <2>1 DEF LockCall, CallsTyped, Pcs
  <2>2. ASSUME NEW x \in Mutexes, TryLock(c, x) PROVE MutexInv'
    BY <1>2, <1>4, <2>2, Locks DEF TryLock
  <2>3. ASSUME NEW x \in Mutexes, Unlock(c, x) PROVE MutexInv'
    BY <1>2, <2>3, Unlocks DEF Unlock, Release, CallsTyped, Pcs
  <2>4. CASE Acquire(c)
    <3>1. m[me] \in Mutexes
      BY <1>2, <2>4 DEF Acquire, CallsTyped, MutexPlaces
    <3>2. \A u \in Threads : pc'[u] = "cw_unlock" => pc[u] = "cw_unlock" /\ m'[u] = m[u]
      BY <1>2, <2>4 DEF Acquire, CallsTyped
    <3> QED
      BY <1>2, <2>4, <3>1, <3>2, Locks DEF Acquire
  <2>5. CASE AcquireFails(c) \/ LockWait(c) \/ UnlockWake(c)
    BY <1>2, <1>3, <2>5 DEF AcquireFails, LockWait, UnlockWake, CallsTyped, Pcs
  <2> QED
    BY <1>6, <2>1, <2>2, <2>3, <2>4, <2>5 DEF Mutex
<1>7. CASE Cond(c)
  <2>1. ASSUME NEW x \in Conds, Signal(c, x) \/ Broadcast(c, x) PROVE MutexInv'
    BY <1>2, <1>3, <2>1 DEF Signal, Broadcast, Bump, Pcs
  <2>2. ASSUME NEW x \in Conds, NEW mx \in Mutexes, CondWait(c, x, mx) PROVE MutexInv'
    BY <1>2, <2>2 DEF CondWait, CallsTyped, MutexInv, MutualExclusion
  <2>3. CASE CondUnlock(c)
    <3>1. m[me] \in holds[me]
      BY <1>2, <2>3 DEF CondUnlock, MutexInv
    <3> QED
      BY <1>2, <2>3, <3>1, Unlocks DEF CondUnlock, Release, Pcs
  <2>4. CASE \/ CondUnlockWake(c) \/ CondRecheckSame(c) \/ CondRecheckChanged(c)
             \/ CondPark(c) \/ SignalWake(c) \/ BroadcastWake(c)
    BY <1>2, <1>3, <2>4 DEF CondUnlockWake, CondRecheckSame, CondRecheckChanged, CondPark,
       SignalWake, BroadcastWake, Pcs
  <2> QED
    BY <1>7, <2>1, <2>2, <2>3, <2>4 DEF Cond
<1>8. CASE Lifecycle(c)
  BY <1>2, <1>3, <1>4, <1>8 DEF Lifecycle, Create, ThreadExit, JoinCall, JoinAnswered,
     JoinRegister, JoinWait, pvars, Pcs
<1>9. CASE Once(c)
  BY <1>2, <1>3, <1>4, <1>9 DEF Once, OnceFast, OnceCall, OnceLock, OnceRun, OnceStore,
     OnceUnlock, Pcs
<1> QED
  BY <1>1, <1>5, <1>6, <1>7, <1>8, <1>9
-----------------------------------------------------------------------------
(***************************************************************************)
(* pthread_once: one thread at a time is between kftx_lock and             *)
(* kftx_unlock, and what has run is in step with the flags.                *)
(***************************************************************************)
InOnce(t) == pc[t] \in {"once_fn", "once_store", "once_out"}

OnceInv ==
  /\ once \in [Onces -> {0, 1}] /\ kftx \in {0, 1} /\ ran \in [Onces -> Nat]
  /\ \A t \in Threads : InOnce(t) => kftx = 1
  /\ \A t, u \in Threads : InOnce(t) /\ InOnce(u) => t = u
  /\ \A t \in Threads : /\ pc[t] \in {"once_fn", "once_store"} => once[v[t]] = 0
                        /\ pc[t] = "once_fn" => ran[v[t]] = 0
                        /\ pc[t] = "once_store" => ran[v[t]] = 1
  /\ \A o \in Onces :
       \/ once[o] = 1 /\ ran[o] = 1
       \/ once[o] = 0 /\ ran[o] = 0
       \/ once[o] = 0 /\ ran[o] = 1 /\ \E t \in Threads : pc[t] = "once_store" /\ v[t] = o

\* A step that neither enters nor leaves the locked part of pthread_once.
LEMMA NoOnce ==
  ASSUME OnceInv, CallsTyped, NEW t \in Threads, NEW p \in Pcs, ~InOnce(t),
         p \notin {"once_fn", "once_store", "once_out"}, pc' = [pc EXCEPT ![t] = p],
         once' = once, kftx' = kftx, ran' = ran, \A u \in Threads \ {t} : v'[u] = v[u]
  PROVE  OnceInv'
<1>1. /\ pc'[t] = p /\ \A u \in Threads \ {t} : pc'[u] = pc[u] /\ v'[u] = v[u]
      /\ ~InOnce(t)'
  BY DEF CallsTyped, InOnce
<1>2. ASSUME NEW u \in Threads, InOnce(u)'
      PROVE  u # t /\ InOnce(u) /\ pc'[u] = pc[u] /\ v'[u] = v[u]
  BY <1>1, <1>2 DEF InOnce
<1>3. ASSUME NEW u \in Threads, InOnce(u)
      PROVE  InOnce(u)' /\ pc'[u] = pc[u] /\ v'[u] = v[u]
  BY <1>1, <1>3 DEF InOnce
<1>4. \A u \in Threads : /\ pc'[u] \in {"once_fn", "once_store"} => once'[v'[u]] = 0
                         /\ pc'[u] = "once_fn" => ran'[v'[u]] = 0
                         /\ pc'[u] = "once_store" => ran'[v'[u]] = 1
  BY <1>2 DEF OnceInv, InOnce
<1>5. ASSUME NEW o \in Onces, \E u \in Threads : pc[u] = "once_store" /\ v[u] = o
      PROVE  \E u \in Threads : pc'[u] = "once_store" /\ v'[u] = o
  BY <1>3, <1>5 DEF InOnce
<1> QED
  BY <1>2, <1>4, <1>5 DEF OnceInv

LEMMA OnceStill ==
  ASSUME OnceInv, UNCHANGED <<pc, v, once, kftx, ran>>
  PROVE  OnceInv'
  BY DEF OnceInv, InOnce

\* The steps inside: the lock, the function, the flag, the unlock.
LEMMA OnceInside ==
  ASSUME OnceInv, CallsTyped, NEW c \in CPUs, cur[c] \in Threads,
         OnceLock(c) \/ OnceRun(c) \/ OnceStore(c) \/ OnceUnlock(c)
  PROVE  OnceInv'
<1> DEFINE me == cur[c]
<1>1. /\ me \in Threads
      /\ pc[me] \in OncePlaces => v[me] \in Onces
      /\ pc \in [Threads -> Pcs] /\ v \in [Threads -> Conds \cup Onces \cup {Nothing}]
  BY DEF CallsTyped
<1> USE DEF Pc, Go, Local, OncePlaces, ghosts, InOnce
<1>2. CASE OnceLock(c)
  <2> DEFINE o == v[me]
  <2>1. /\ o \in Onces /\ kftx = 0 /\ kftx' = 1 /\ UNCHANGED <<once, ran, v>>
        /\ pc' = [pc EXCEPT ![me] = IF once[o] = 0 THEN "once_fn" ELSE "once_out"]
    BY <1>1, <1>2 DEF OnceLock
  <2>2. \A u \in Threads : ~InOnce(u)
    BY <2>1 DEF OnceInv
  <2>3. \A u \in Threads \ {me} : pc'[u] = pc[u]
    BY <1>1, <2>1
  <2>4. pc'[me] = IF once[o] = 0 THEN "once_fn" ELSE "once_out"
    BY <1>1, <2>1
  <2>5. \A x \in Onces : (once[x] = 1 /\ ran[x] = 1) \/ (once[x] = 0 /\ ran[x] = 0)
    BY <2>2 DEF OnceInv
  <2>6. once[o] = 0 => ran[o] = 0
    BY <2>1, <2>5
  <2> QED
    BY <2>1, <2>2, <2>3, <2>4, <2>5, <2>6 DEF OnceInv
<1>3. CASE OnceRun(c)
  <2> DEFINE o == v[me]
  <2>1. /\ o \in Onces /\ pc[me] = "once_fn" /\ UNCHANGED <<once, kftx, v>>
        /\ ran' = [ran EXCEPT ![o] = @ + 1] /\ pc' = [pc EXCEPT ![me] = "once_store"]
    BY <1>1, <1>3 DEF OnceRun
  <2>2. once[o] = 0 /\ ran[o] = 0 /\ kftx = 1 /\ \A u \in Threads \ {me} : ~InOnce(u)
    BY <1>1, <2>1 DEF OnceInv
  <2>3. ran'[o] = 1 /\ \A x \in Onces \ {o} : ran'[x] = ran[x]
    BY <2>1, <2>2 DEF OnceInv
  <2>4. pc'[me] = "once_store" /\ \A u \in Threads \ {me} : pc'[u] = pc[u] /\ ~InOnce(u)'
    BY <1>1, <2>1, <2>2
  <2>5. ran' \in [Onces -> Nat]
    BY <2>1 DEF OnceInv
  <2>6. \A x \in Onces \ {o} : (once[x] = 1 /\ ran[x] = 1) \/ (once[x] = 0 /\ ran[x] = 0)
    BY <2>1, <2>2 DEF OnceInv
  <2> QED
    BY <1>1, <2>1, <2>2, <2>3, <2>4, <2>5, <2>6 DEF OnceInv
<1>4. CASE OnceStore(c)
  <2> DEFINE o == v[me]
  <2>1. /\ o \in Onces /\ pc[me] = "once_store" /\ UNCHANGED <<ran, kftx, v>>
        /\ once' = [once EXCEPT ![o] = 1] /\ pc' = [pc EXCEPT ![me] = "once_out"]
    BY <1>1, <1>4 DEF OnceStore
  <2>2. ran[o] = 1 /\ kftx = 1 /\ \A u \in Threads \ {me} : ~InOnce(u)
    BY <1>1, <2>1 DEF OnceInv
  <2>3. once'[o] = 1 /\ \A x \in Onces \ {o} : once'[x] = once[x]
    BY <2>1 DEF OnceInv
  <2>4. pc'[me] = "once_out" /\ \A u \in Threads \ {me} : pc'[u] = pc[u] /\ ~InOnce(u)'
    BY <1>1, <2>1, <2>2
  <2>5. once' \in [Onces -> {0, 1}]
    BY <2>1 DEF OnceInv
  <2>6. \A x \in Onces \ {o} : (once[x] = 1 /\ ran[x] = 1) \/ (once[x] = 0 /\ ran[x] = 0)
    BY <2>1, <2>2 DEF OnceInv
  <2> QED
    BY <1>1, <2>1, <2>2, <2>3, <2>4, <2>5, <2>6 DEF OnceInv
<1>5. CASE OnceUnlock(c)
  <2>1. /\ pc[me] = "once_out" /\ UNCHANGED <<ran, once>> /\ kftx' = 0
        /\ pc' = [pc EXCEPT ![me] = "app"]
    BY <1>5 DEF OnceUnlock
  <2>2. \A u \in Threads \ {me} : ~InOnce(u)
    BY <1>1, <2>1 DEF OnceInv
  <2>3. \A u \in Threads : ~InOnce(u)'
    BY <1>1, <2>1, <2>2
  <2>4. \A x \in Onces : (once[x] = 1 /\ ran[x] = 1) \/ (once[x] = 0 /\ ran[x] = 0)
    BY <2>1, <2>2 DEF OnceInv
  <2> QED
    BY <2>1, <2>3, <2>4 DEF OnceInv
<1> QED
  BY <1>2, <1>3, <1>4, <1>5

LEMMA OnceStep ==
  ASSUME OnceInv, CallsTyped, \A c \in CPUs : cur[c] \in Threads, PthreadNext
  PROVE  OnceInv'
<1>1. PICK c \in CPUs : Below(c) \/ Mutex(c) \/ Cond(c) \/ Lifecycle(c) \/ Once(c)
  BY DEF PthreadNext
<1> DEFINE me == cur[c]
<1>2. me \in Threads
  OBVIOUS
<1>3. ASSUME NEW p \in Pcs, ~InOnce(me), p \notin {"once_fn", "once_store", "once_out"},
             pc' = [pc EXCEPT ![me] = p], UNCHANGED <<once, kftx, ran>>,
             \A u \in Threads \ {me} : v'[u] = v[u]
      PROVE  OnceInv'
  BY <1>2, <1>3, NoOnce
<1>4. v \in [Threads -> Conds \cup Onces \cup {Nothing}]
  BY DEF CallsTyped
<1> USE DEF Pc, Calling, Go, Local, ghosts, InOnce
<1>5. CASE Below(c)
  BY <1>5, OnceStill DEF Below, pvars
<1>6. CASE Mutex(c)
  <2>1. ASSUME NEW x \in Mutexes, TryLock(c, x) PROVE OnceInv'
    BY <2>1, OnceStill DEF TryLock
  <2>2. ASSUME NEW x \in Mutexes, LockCall(c, x) \/ Unlock(c, x) PROVE OnceInv'
    BY <1>2, <1>3, <2>2 DEF LockCall, Unlock, Release, Pcs
  <2>3. CASE Acquire(c) \/ AcquireFails(c) \/ LockWait(c) \/ UnlockWake(c)
    BY <1>2, <1>3, <1>4, <2>3 DEF Acquire, AcquireFails, LockWait, UnlockWake, Pcs
  <2> QED
    BY <1>6, <2>1, <2>2, <2>3 DEF Mutex
<1>7. CASE Cond(c)
  <2>1. ASSUME NEW x \in Conds,
               Signal(c, x) \/ Broadcast(c, x) \/ \E mx \in Mutexes : CondWait(c, x, mx)
        PROVE  OnceInv'
    BY <1>2, <1>3, <1>4, <2>1 DEF Signal, Broadcast, Bump, CondWait, Pcs
  <2>2. CASE \/ CondUnlock(c) \/ CondUnlockWake(c) \/ CondRecheckSame(c)
             \/ CondRecheckChanged(c) \/ CondPark(c) \/ SignalWake(c) \/ BroadcastWake(c)
    BY <1>2, <1>3, <1>4, <2>2 DEF CondUnlock, Release, CondUnlockWake, CondRecheckSame,
       CondRecheckChanged, CondPark, SignalWake, BroadcastWake, Pcs
  <2> QED
    BY <1>7, <2>1, <2>2 DEF Cond
<1>8. CASE Lifecycle(c)
  <2>1. CASE Create(c) \/ ThreadExit(c)
    BY <2>1, OnceStill DEF Create, ThreadExit, pvars
  <2>2. CASE (\E t \in Pool : JoinCall(c, t)) \/ JoinAnswered(c) \/ JoinRegister(c) \/ JoinWait(c)
    BY <1>2, <1>3, <2>2 DEF JoinCall, JoinAnswered, JoinRegister, JoinWait, Pcs
  <2> QED
    BY <1>8, <2>1, <2>2 DEF Lifecycle
<1>9. CASE Once(c)
  <2>1. ASSUME NEW o \in Onces, OnceFast(c, o) PROVE OnceInv'
    BY <2>1, OnceStill DEF OnceFast
  <2>2. ASSUME NEW o \in Onces, OnceCall(c, o) PROVE OnceInv'
    BY <1>2, <1>3, <1>4, <2>2 DEF OnceCall, Pcs
  <2>3. CASE OnceLock(c) \/ OnceRun(c) \/ OnceStore(c) \/ OnceUnlock(c)
    BY <1>2, <2>3, OnceInside
  <2> QED
    BY <1>9, <2>1, <2>2, <2>3 DEF Once
<1> QED
  BY <1>1, <1>5, <1>6, <1>7, <1>8, <1>9

-----------------------------------------------------------------------------
(***************************************************************************)
(* The types of what is left: counters and history.                        *)
(***************************************************************************)
RestTyped ==
  /\ seq \in [Conds -> Nat] /\ cs \in [Threads -> Nat] /\ calls \in [Threads -> Nat]
  /\ owed \subseteq SUBSET Threads /\ joined \subseteq Pool /\ refused \subseteq Threads

LEMMA RestStep ==
  ASSUME RestTyped, \A c \in CPUs : cur[c] \in Threads, PthreadNext
  PROVE  RestTyped'
<1>1. PICK c \in CPUs : Below(c) \/ Mutex(c) \/ Cond(c) \/ Lifecycle(c) \/ Once(c)
  BY DEF PthreadNext
<1> DEFINE me == cur[c]
<1>2. me \in Threads
  OBVIOUS
<1>3. UNCHANGED <<seq, cs, calls, owed, joined, refused>> => RestTyped'
  BY DEF RestTyped
<1>4. Calling(c) => calls' \in [Threads -> Nat]
  BY DEF Calling, RestTyped
<1>5. \A t : Discharged(t) \subseteq owed
  BY DEF Discharged
<1>6. \A x : WaitersOf(x) \subseteq Threads
  BY DEF WaitersOf
<1> USE DEF Local, ghosts, RestTyped
<1>7. CASE Below(c)
  BY <1>3, <1>7 DEF Below, pvars
<1>8. CASE Mutex(c)
  <2>1. ASSUME NEW x \in Mutexes, LockCall(c, x) \/ TryLock(c, x) PROVE RestTyped'
    BY <1>4, <2>1 DEF LockCall, TryLock
  <2>2. ASSUME NEW x \in Mutexes, Unlock(c, x) PROVE RestTyped'
    BY <1>3, <2>2 DEF Unlock, Release
  <2>3. CASE Acquire(c)
    BY <1>2, <1>5, <2>3 DEF Acquire
  <2>4. CASE AcquireFails(c)
    BY <1>2, <1>5, <2>4 DEF AcquireFails
  <2>5. CASE LockWait(c) \/ UnlockWake(c)
    BY <1>3, <2>5 DEF LockWait, UnlockWake
  <2> QED
    BY <1>8, <2>1, <2>2, <2>3, <2>4, <2>5 DEF Mutex
<1>9. CASE Cond(c)
  <2>1. ASSUME NEW x \in Conds, Signal(c, x) PROVE RestTyped'
    BY <1>2, <1>4, <1>6, <2>1 DEF Signal, Bump
  <2>2. ASSUME NEW x \in Conds, Broadcast(c, x) PROVE RestTyped'
    BY <1>2, <1>4, <1>6, <2>2 DEF Broadcast, Bump
  <2>3. ASSUME NEW x \in Conds, NEW mx \in Mutexes, CondWait(c, x, mx) PROVE RestTyped'
    BY <1>2, <1>4, <2>3 DEF CondWait
  <2>4. CASE \/ CondUnlock(c) \/ CondUnlockWake(c) \/ CondRecheckSame(c)
             \/ CondRecheckChanged(c) \/ CondPark(c) \/ SignalWake(c) \/ BroadcastWake(c)
    BY <1>3, <2>4 DEF CondUnlock, Release, CondUnlockWake, CondRecheckSame,
       CondRecheckChanged, CondPark, SignalWake, BroadcastWake
  <2> QED
    BY <1>9, <2>1, <2>2, <2>3, <2>4 DEF Cond
<1>10. CASE Lifecycle(c)
  <2>1. CASE Create(c)
    BY <1>4, <2>1 DEF Create
  <2>2. CASE (\E t \in Pool : JoinCall(c, t)) \/ JoinAnswered(c)
    BY <1>2, <2>2 DEF JoinCall, JoinAnswered
  <2>3. CASE ThreadExit(c) \/ JoinRegister(c) \/ JoinWait(c)
    BY <1>3, <2>3 DEF ThreadExit, JoinRegister, JoinWait, pvars
  <2> QED
    BY <1>10, <2>1, <2>2, <2>3 DEF Lifecycle
<1>11. CASE Once(c)
  <2>1. ASSUME NEW o \in Onces, OnceFast(c, o) \/ OnceCall(c, o) PROVE RestTyped'
    BY <1>4, <2>1 DEF OnceFast, OnceCall
  <2>2. CASE OnceLock(c) \/ OnceRun(c) \/ OnceStore(c) \/ OnceUnlock(c)
    BY <1>3, <2>2 DEF OnceLock, OnceRun, OnceStore, OnceUnlock
  <2> QED
    BY <1>11, <2>1, <2>2 DEF Once
<1> QED
  BY <1>1, <1>7, <1>8, <1>9, <1>10, <1>11

-----------------------------------------------------------------------------
(***************************************************************************)
(* The inductive invariant: types, links, mutexes and onces.  It says       *)
(* nothing of the scheduler beyond the types of its variables, which is     *)
(* all that holds on several CPUs.                                          *)
(***************************************************************************)
PInv == TypeOK /\ LinksTyped /\ CallsTyped /\ RestTyped /\ MutexInv /\ OnceInv

LEMMA InitPInv == PthreadInit => PInv
<1> SUFFICES ASSUME PthreadInit PROVE PInv
  OBVIOUS
<1> USE DEF PthreadInit, FutexInit
<1>1. TypeOK
  BY InitTypeOK
<1>2. LinksTyped
  BY DEF LinksTyped, Links
<1>3. CallsTyped
  BY DEF CallsTyped, Pcs, MutexPlaces, CondPlaces, OncePlaces
<1>4. MutexInv
  BY DEF MutexInv, MutualExclusion
<1>5. OnceInv
  BY DEF OnceInv, InOnce
<1>6. RestTyped
  BY DEF RestTyped
<1> QED
  BY <1>1, <1>2, <1>3, <1>4, <1>5, <1>6 DEF PInv

LEMMA StepPInv ==
  ASSUME PInv, [PthreadNext]_allVars
  PROVE  PInv' /\ [Next]_vars
<1>1. \A c \in CPUs : cur[c] \in Threads
  BY DEF PInv, TypeOK
<1>2. UNCHANGED vars => TypeOK'
  BY DEF vars, PInv, TypeOK
<1>3. CASE PthreadNext
  <2>1. LinksTyped' /\ [Next]_vars
    BY <1>1, <1>3, LinksStep DEF PInv
  <2>2. TypeOK'
    BY <1>2, <2>1, TypeStep DEF PInv
  <2>3. CallsTyped' /\ RestTyped' /\ MutexInv' /\ OnceInv'
    BY <1>1, <1>3, CallsStep, RestStep, MutexStep, OnceStep DEF PInv
  <2> QED
    BY <2>1, <2>2, <2>3 DEF PInv
<1>4. CASE UNCHANGED allVars
  <2>1. UNCHANGED vars /\ UNCHANGED bucketVars /\ UNCHANGED pvars
    BY <1>4 DEF allVars, futexVars
  <2>2. LinksTyped'
    BY <2>1 DEF bucketVars, LinksTyped, PInv
  <2>3. CallsTyped'
    BY <2>1 DEF pvars, CallsTyped, PInv
  <2>4. MutexInv'
    BY <2>1, NoLock DEF pvars, ghosts, PInv
  <2>5. OnceInv'
    BY <2>1, OnceStill DEF pvars, ghosts, PInv
  <2>6. RestTyped'
    BY <2>1 DEF pvars, ghosts, RestTyped, PInv
  <2> QED
    BY <1>2, <2>1, <2>2, <2>3, <2>4, <2>5, <2>6 DEF PInv
<1> QED
  BY <1>3, <1>4

\* Whatever the scheduler does on several CPUs, up to its first undefined
\* behaviour the words of mutexes and onces agree with who holds them and with
\* who runs the function of a once.
THEOREM PthreadInvariant == PthreadSpec => []PInv
<1>1. PthreadInit => PInv
  BY InitPInv
<1>2. PInv /\ [PthreadNext]_allVars => PInv'
  BY StepPInv
<1> QED
  BY <1>1, <1>2, PTL DEF PthreadSpec

\* Types of the whole pthread layer, for any number of threads and any hash: the
\* links of the futex buckets name threads, and a call's arguments are there.
THEOREM PthreadTyped == PthreadSpec => []PthreadTypeOK
<1>1. PInv => PthreadTypeOK
  BY DEF PInv, LinksTyped, Links, CallsTyped, RestTyped, MutexInv, OnceInv,
     PthreadTypeOK, FutexTypeOK
<1> QED
  BY <1>1, PthreadInvariant, PTL

\* The pthread and futex calls use the scheduler only as its specification
\* allows: each step is a step of core.c or leaves its state alone.  So every
\* theorem about the scheduler holds of programs that use pthreads.
THEOREM PthreadImplementsSched == PthreadSpec => ImplementsSched
<1>1. PthreadInit => Init
  BY DEF PthreadInit, FutexInit
<1>2. PInv /\ [PthreadNext]_allVars => [Next]_vars
  BY StepPInv
<1> QED
  BY <1>1, <1>2, PthreadInvariant, PTL DEF PthreadSpec, ImplementsSched, Spec

\* Two threads never hold one mutex, whether they locked it with
\* pthread_mutex_lock, with trylock or on the way out of pthread_cond_wait, on
\* any number of CPUs (up to the first undefined behaviour of the scheduler).
THEOREM PthreadMutualExclusion == PthreadSpec => []MutualExclusion
<1>1. PInv => MutualExclusion
  BY DEF PInv, MutexInv
<1> QED
  BY <1>1, PthreadInvariant, PTL

\* pthread_once runs its function at most once, and whoever finds the flag set
\* finds the function done, on any number of CPUs.
THEOREM PthreadOnceRunsOnce == PthreadSpec => []OnceRunsOnce
<1>1. PInv => OnceRunsOnce
  BY DEF PInv, OnceInv, OnceRunsOnce
<1> QED
  BY <1>1, PthreadInvariant, PTL

================================================================================
