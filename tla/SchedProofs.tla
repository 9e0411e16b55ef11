---------------------------- MODULE SchedProofs ----------------------------
(***************************************************************************)
(* Theorems of Sched for every MaxThr, proved by TLAPS.                    *)
(*                                                                         *)
(* Part 1, the types, holds on any number of CPUs.  Part 2 is about one    *)
(* CPU: on two the scheduler keeps none of these properties (README.md,    *)
(* section 4).                                                             *)
(***************************************************************************)
EXTENDS Sched, SequenceTheorems, TLAPS

(***************************************************************************)
(* The run queue as a set.                                                 *)
(***************************************************************************)
LEMMA AppendToSet ==
  ASSUME NEW S, NEW s \in Seq(S), NEW x \in S
  PROVE  /\ ToSet(Append(s, x)) = ToSet(s) \cup {x}
         /\ IsInjective(s) /\ x \notin ToSet(s) => IsInjective(Append(s, x))
<1>1. /\ Append(s, x) \in Seq(S)
      /\ Len(Append(s, x)) = Len(s) + 1
      /\ \A i \in 1..Len(s) : Append(s, x)[i] = s[i]
      /\ Append(s, x)[Len(s) + 1] = x
      /\ Len(s) \in Nat
  BY AppendProperties, LenProperties
<1>2. DOMAIN s = 1..Len(s) /\ DOMAIN Append(s, x) = 1..(Len(s) + 1)
  BY <1>1, LenProperties
<1>3. ToSet(Append(s, x)) = ToSet(s) \cup {x}
  BY <1>1, <1>2 DEF ToSet
<1>4. ASSUME IsInjective(s), x \notin ToSet(s)
      PROVE  IsInjective(Append(s, x))
  BY <1>1, <1>2, <1>4 DEF ToSet, IsInjective
<1> QED
  BY <1>3, <1>4

LEMMA TailToSet ==
  ASSUME NEW S, NEW s \in Seq(S), s # <<>>
  PROVE  /\ Head(s) \in ToSet(s)
         /\ Tail(s) \in Seq(S)
         /\ ToSet(s) = ToSet(Tail(s)) \cup {Head(s)}
         /\ IsInjective(s) => /\ IsInjective(Tail(s))
                              /\ Head(s) \notin ToSet(Tail(s))
<1>1. /\ Tail(s) \in Seq(S)
      /\ Len(s) \in Nat /\ Len(s) >= 1
      /\ Len(Tail(s)) = Len(s) - 1
      /\ Head(s) = s[1]
      /\ \A i \in 1..Len(Tail(s)) : Tail(s)[i] = s[i + 1]
  BY HeadTailProperties, LenProperties, EmptySeq
<1>2. DOMAIN s = 1..Len(s) /\ DOMAIN Tail(s) = 1..(Len(s) - 1)
  BY <1>1, LenProperties
<1>3. Head(s) \in ToSet(s)
  BY <1>1, <1>2 DEF ToSet
<1>4. \A i \in 2..Len(s) : i - 1 \in 1..(Len(s) - 1) /\ Tail(s)[i - 1] = s[i]
  BY <1>1
<1>5. ToSet(s) = ToSet(Tail(s)) \cup {Head(s)}
  <2>1. ToSet(Tail(s)) \subseteq ToSet(s)
    BY <1>1, <1>2 DEF ToSet
  <2>2. ASSUME NEW i \in 1..Len(s)
        PROVE  s[i] \in ToSet(Tail(s)) \cup {Head(s)}
    <3>1. CASE i = 1
      BY <3>1, <1>1
    <3>2. CASE i \in 2..Len(s)
      BY <3>2, <1>2, <1>4 DEF ToSet
    <3> QED
      BY <3>1, <3>2, <1>1
  <2> QED
    BY <2>1, <2>2, <1>2, <1>3 DEF ToSet
<1>6. ASSUME IsInjective(s)
      PROVE  IsInjective(Tail(s)) /\ Head(s) \notin ToSet(Tail(s))
  BY <1>1, <1>2, <1>6 DEF ToSet, IsInjective
<1> QED
  BY <1>1, <1>3, <1>5, <1>6

-----------------------------------------------------------------------------
(***************************************************************************)
(* Part 1: any number of CPUs.                                             *)
(***************************************************************************)
USE SchedAssumption DEF BSP

LEMMA TypeStep ==
  ASSUME TypeOK, Next
  PROVE  TypeOK'
<1> USE DEF TypeOK, At, Goto, Home, Places, States
<1>1. \A c \in CPUs : cur[c] \in Threads
  OBVIOUS
<1>2. Pool \subseteq Threads
  BY DEF Threads
<1>3. ASSUME NEW t \in Threads, MakeRunnable(t)
      PROVE  /\ state' \in [Threads -> States] /\ rq' \in Seq(Threads)
             /\ fault' \in {"none", "stale_sp", "double_push", "slot_shared"}
  <2>1. Append(rq, t) \in Seq(Threads)
    BY AppendProperties
  <2> QED
    BY <1>3, <2>1 DEF MakeRunnable
<1>4. PICK c \in CPUs : Call(c) \/ Inside(c)
  BY DEF Next
<1>5. CASE Spawn(c)
  <2>1. pool_n + 1 \in Pool
    BY <1>5 DEF Spawn, Pool
  <2> QED
    BY <1>1, <1>5, <2>1, <1>2 DEF Spawn
<1>6. CASE Kick(c)
  BY <1>1, <1>6 DEF Kick, SendKick
<1>7. CASE Park(c)
  BY <1>1, <1>7 DEF Park
<1>8. CASE Yield(c)
  BY <1>1, <1>8 DEF Yield
<1>9. CASE Exit(c)
  BY <1>1, <1>9 DEF Exit
<1>10. ASSUME NEW t \in Threads, Wake(c, t) PROVE TypeOK'
  BY <1>1, <1>3, <1>10 DEF Wake
<1>11. ASSUME NEW t \in Threads, Register(c, t) PROVE TypeOK'
  BY <1>1, <1>11 DEF Register
<1>12. CASE ClearSlot(c)
  <2>1. target[cur[c]] \in Threads
    BY <1>1, <1>2, <1>12 DEF ClearSlot
  <2>2. ASSUME NEW t \in ToSet(rq)
        PROVE  UpTo(t) \in Seq(Threads)
    <3> DEFINE i == CHOOSE k \in DOMAIN rq : rq[k] = t
    <3>1. i \in 1..Len(rq)
      BY <2>2, LenProperties DEF ToSet
    <3> HIDE DEF i
    <3>2. Len(rq) \in Nat /\ DOMAIN rq = 1..Len(rq)
      BY LenProperties
    <3>3. \A k \in 1..i : k \in DOMAIN rq /\ rq[k] \in Threads
      BY <3>1, <3>2, ElementOfSeq
    <3>4. SubSeq(rq, 1, i) \in Seq(Threads)
      BY <3>1, <3>2, <3>3, SubSeqProperties
    <3> QED
      BY <3>4 DEF UpTo, i
  <2>3. rq' \in Seq(Threads)
    BY <1>12, <2>2 DEF ClearSlot
  <2> QED
    BY <1>1, <1>12, <2>1, <2>3 DEF ClearSlot, SharesSlot
<1>13. CASE StoreFrame(c)
  BY <1>1, <1>2, <1>13 DEF StoreFrame, SharesSlot
<1>14. CASE CountSlot(c)
  <2>1. target[cur[c]] \in Pool /\ target[cur[c]] \in Threads /\ target[cur[c]] \in Nat
    BY <1>1, <1>2, <1>14 DEF CountSlot, Pool
  <2> QED
    BY <1>1, <1>14, <2>1 DEF CountSlot
<1>15. CASE WakeTarget(c)
  BY <1>1, <1>3, <1>15 DEF WakeTarget
<1>16. CASE KickAfterWake(c)
  BY <1>1, <1>16 DEF KickAfterWake, SendKick
<1>17. CASE WokenBeforeSleep(c)
  BY <1>1, <1>17 DEF WokenBeforeSleep
<1>18. CASE StillAsleep(c)
  BY <1>1, <1>18 DEF StillAsleep
<1>19. CASE PopNext(c)
  <2>1. Tail(rq) \in Seq(Threads) /\ Head(rq) \in Threads
    BY <1>19, HeadTailProperties DEF PopNext
  <2> QED
    BY <1>1, <1>19, <2>1 DEF PopNext
<1>20. CASE PopNone(c)
  BY <1>1, <1>20 DEF PopNone
<1>21. CASE LeaveHlt(c)
  BY <1>1, <1>21 DEF LeaveHlt
<1>22. CASE SetRunning(c)
  BY <1>1, <1>22 DEF SetRunning
<1>23. CASE LoadSp(c)
  BY <1>1, <1>23 DEF LoadSp
<1>24. CASE Switch(c)
  <2>1. cur[c] \in Threads /\ nxt[cur[c]] \in Threads
    BY <1>1, <1>24 DEF Switch
  <2>2. /\ cur' = [cur EXCEPT ![c] = nxt[cur[c]]]
        /\ nxt' = [nxt EXCEPT ![cur[c]] = NoThread]
        /\ at' = [at EXCEPT ![cur[c]] = Home(cur[c])]
        /\ saved' = [saved EXCEPT ![cur[c]] = TRUE, ![nxt[cur[c]]] = FALSE]
        /\ fresh' = [t \in Threads |-> fresh[t] /\ nxt[t] # nxt[cur[c]]]
        /\ fault' \in {fault, "stale_sp"}
        /\ UNCHANGED <<state, joiner, rq, pool_n, irq, target, disp>>
    BY <1>24 DEF Switch
  <2>3. fresh' \in [Threads -> BOOLEAN]
    BY <2>2
  <2>4. /\ cur' \in [CPUs -> Threads]
        /\ nxt' \in [Threads -> Threads \cup {NoThread}]
        /\ at' \in [Threads -> Places]
        /\ saved' \in [Threads -> BOOLEAN]
    BY <2>1, <2>2
  <2>5. \A t \in Threads : at'[t] \notin {"run", "check"} =>
                            at'[t] = at[t] /\ nxt'[t] = nxt[t]
    BY <2>1, <2>2
  <2> QED
    BY <2>2, <2>3, <2>4, <2>5
<1> QED
  BY <1>4, <1>5, <1>6, <1>7, <1>8, <1>9, <1>10, <1>11, <1>12, <1>13, <1>14, <1>15,
     <1>16, <1>17, <1>18, <1>19, <1>20, <1>21, <1>22, <1>23, <1>24
  DEF Call, Inside, LookAtState

LEMMA InitTypeOK == Init => TypeOK
<1> SUFFICES ASSUME Init PROVE TypeOK
  OBVIOUS
<1>1. \A c \in CPUs : -c \in BootThr
  BY DEF CPUs, BootThr
<1>2. rq \in Seq(Threads) /\ pool_n \in Nat
  BY EmptySeq DEF Init
<1>3. cur \in [CPUs -> Threads] /\ disp \subseteq Threads
  BY <1>1 DEF Init, Threads
<1>4. \A t \in Threads : at[t] \in {"check", "run"}
  BY DEF Init
<1> QED
  BY <1>2, <1>3, <1>4 DEF Init, TypeOK, States, Places

\* Type correctness of the scheduler on any number of CPUs, including that the
\* locals next and t are assigned where they are used, and that no slot outside
\* the pool is ever initialised, however many kthread_spawn run at once.
THEOREM SchedTypeOK == Spec => []TypeOK
<1>1. TypeOK /\ [Next]_vars => TypeOK'
  <2>1. ASSUME TypeOK, UNCHANGED vars
        PROVE  TypeOK'
    BY <2>1 DEF vars, TypeOK
  <2> QED
    BY <2>1, TypeStep
<1> QED
  BY <1>1, InitTypeOK, PTL DEF Spec

-----------------------------------------------------------------------------
(***************************************************************************)
(* Part 2: one CPU.  Me is the context it executes.                        *)
(*                                                                         *)
(* Created holds the threads that a scheduler structure may point to: the  *)
(* boot thread and the counted slots.  A slot that kthread_spawn is still  *)
(* initialising is in none, so what is written to it hits no thread.       *)
(***************************************************************************)
Me == cur[BSP]
Created == BootThr \cup {t \in Pool : t <= pool_n}

PointersCreated ==
  /\ ToSet(rq) \subseteq Created
  /\ Me \in Created
  /\ \A t \in Threads : /\ nxt[t] \in Created \cup {NoThread}
                        /\ state[t] # "EMPTY" => t \in Created
                        /\ joiner[t] \in Created \cup {NoThread}
                        /\ at[t] = "wake" => target[t] \in Created
  /\ at[Me] \in {"clear", "frame", "count"} => target[Me] = pool_n + 1

\* A context that the CPU does not execute will return from sched_switch_away,
\* or start its function, when it is resumed.
SuspendedAtHome == \A t \in Threads \ {Me} : at[t] \in {"run", "check"}

\* A thread marked RUNNABLE is in the run queue or being dispatched.
RunnableIsQueued ==
  \A t \in Threads : state[t] = "RUNNABLE" => t \in ToSet(rq) \cup Popped

GInv ==
  /\ TypeOK
  /\ PointersCreated
  /\ SuspendedAtHome
  /\ ~saved[Me]
  /\ RunnableIsQueued

(***************************************************************************)
(* NoCorruption is not inductive: that the popped thread has a saved       *)
(* context follows from the same of every thread in the run queue; a       *)
(* thread enters the queue when it waits, and a waiting thread other than  *)
(* Me is saved because Me waits only inside sched_switch_away, where no    *)
(* other code of the CPU can make it runnable.                             *)
(***************************************************************************)
QueueSaved ==
  /\ IsInjective(rq)
  /\ \A t \in ToSet(rq) : state[t] = "RUNNABLE" /\ saved[t]

DispatchSaved ==
  /\ at[Me] = "set" => /\ nxt[Me] \notin ToSet(rq)
                       /\ state[nxt[Me]] = "RUNNABLE" /\ saved[nxt[Me]]
  /\ at[Me] \in {"load", "switch"} => state[nxt[Me]] = "RUNNING" /\ saved[nxt[Me]]
  /\ at[Me] = "switch" => fresh[Me]

WaitersSaved ==
  /\ \A t \in Threads : t # Me /\ state[t] = "WAITING" => saved[t]
  /\ at[Me] \in {"run", "clear", "frame", "count", "wake", "kick"} =>
       state[Me] \in {"RUNNING", "DONE"}

DoneDispatch ==
  \A t \in Threads : /\ state[t] = "DONE" => t \in disp
                     /\ t \in disp => at[t] # "run"

NewThreads ==
  /\ pool_n <= MaxThr
  /\ at[Me] \in {"clear", "frame", "count"} => pool_n < MaxThr
  /\ at[Me] = "count" => saved[target[Me]]
  /\ at[Me] = "wake" /\ state[target[Me]] = "EMPTY" => saved[target[Me]]
  /\ \A t \in Threads : joiner[t] # NoThread => state[joiner[t]] # "EMPTY"
  /\ \A t \in 1..pool_n : state[t] = "EMPTY" =>
                            at[Me] = "wake" /\ target[Me] = t

OneInv ==
  /\ NoCorruption
  /\ QueueSaved
  /\ DispatchSaved
  /\ WaitersSaved
  /\ DoneDispatch
  /\ NewThreads

\* On one CPU the executing context is never RUNNABLE, so the early return of
\* sched_switch_away is dead code there; and a slot that is being initialised
\* belongs to nobody.
LEMMA MeNotRunnable ==
  ASSUME NCpu = 1, GInv, OneInv
  PROVE  /\ CPUs = {BSP} /\ Me \in Threads /\ ~saved[Me]
         /\ state[Me] # "RUNNABLE"
<1>1. CPUs = {BSP}
  BY DEF CPUs
<1>2. Me \in Threads /\ ~saved[Me]
  BY <1>1 DEF GInv, TypeOK, Me
<1>3. ASSUME state[Me] = "RUNNABLE" PROVE FALSE
  <2>1. Me \in ToSet(rq) \/ (at[Me] = "set" /\ nxt[Me] = Me)
    BY <1>2, <1>3 DEF GInv, RunnableIsQueued, Popped, SuspendedAtHome
  <2> QED
    BY <1>2, <2>1 DEF OneInv, QueueSaved, DispatchSaved
<1> QED
  BY <1>1, <1>2, <1>3

LEMMA FreshSlot ==
  ASSUME NCpu = 1, GInv, OneInv, at[Me] \in {"clear", "frame", "count"}
  PROVE  /\ target[Me] = pool_n + 1 /\ target[Me] \in Pool /\ target[Me] \in Threads
         /\ target[Me] \notin Created /\ target[Me] # Me /\ target[Me] # NoThread
         /\ target[Me] \notin ToSet(rq) /\ state[target[Me]] = "EMPTY"
         /\ \A t \in Threads : nxt[t] # target[Me] /\ joiner[t] # target[Me]
<1>1. Me \in Threads
  BY MeNotRunnable
<1>2. target[Me] = pool_n + 1 /\ target[Me] \in Pool
  BY <1>1 DEF GInv, PointersCreated, TypeOK
<1>3. target[Me] \in Threads /\ target[Me] # NoThread /\ target[Me] \notin BootThr
  BY <1>2 DEF Threads, Pool, NoThread, BootThr
<1>4. target[Me] \notin Created
  BY <1>2, <1>3 DEF GInv, TypeOK, Created
<1> QED
  BY <1>1, <1>2, <1>3, <1>4 DEF GInv, PointersCreated

\* What sched_make_runnable does when the thread's context is saved.
LEMMA MakeRunnableSaved ==
  ASSUME GInv, OneInv, NEW t \in Threads, MakeRunnable(t), saved' = saved,
         state[t] \in {"WAITING", "EMPTY"} => saved[t]
  PROVE  /\ NoCorruption' /\ QueueSaved'
         /\ \A x \in Threads \ {t} : state'[x] = state[x]
         /\ state[t] \in {"WAITING", "EMPTY"} => state'[t] = "RUNNABLE"
         /\ state[t] \notin {"WAITING", "EMPTY"} => state'[t] = state[t]
         /\ ToSet(rq') \subseteq ToSet(rq) \cup {t}
         /\ state[t] = "RUNNABLE" => rq' = rq
<1> USE DEF GInv, TypeOK, OneInv, NoCorruption, QueueSaved, MakeRunnable
<1>1. CASE state[t] \notin {"WAITING", "EMPTY"}
  BY <1>1
<1>2. CASE state[t] \in {"WAITING", "EMPTY"}
  <2>1. t \notin ToSet(rq)
    BY <1>2
  <2>2. ToSet(rq') = ToSet(rq) \cup {t} /\ IsInjective(rq')
    <3>1. rq' = Append(rq, t) /\ rq \in Seq(Threads) /\ IsInjective(rq)
      BY <1>2
    <3>2. /\ ToSet(Append(rq, t)) = ToSet(rq) \cup {t}
          /\ IsInjective(Append(rq, t))
      BY <2>1, <3>1, AppendToSet
    <3> QED
      BY <3>1, <3>2
  <2>3. state' = [state EXCEPT ![t] = "RUNNABLE"] /\ fault' = fault
    BY <1>2, <2>1
  <2>4. \A x \in ToSet(rq) : x \in Threads
    BY DEF PointersCreated, Created, Threads
  <2> QED
    BY <1>2, <2>2, <2>3, <2>4
<1> QED
  BY <1>1, <1>2

LEMMA PointersStep ==
  ASSUME NCpu = 1, GInv, OneInv, Next
  PROVE  PointersCreated'
<1> USE DEF GInv, TypeOK, PointersCreated, At, Goto, Home
<1>1. /\ CPUs = {BSP} /\ Me \in Threads /\ BSP \in CPUs
      /\ Call(BSP) \/ Inside(BSP)
  BY MeNotRunnable DEF Next
<1>2. NoThread \notin Threads /\ BootThr \subseteq Threads
  BY DEF NoThread, Threads, BootThr, Pool
<1>3. ASSUME NEW t \in Created, MakeRunnable(t)
      PROVE  /\ ToSet(rq') \subseteq Created
             /\ \A x \in Threads : state'[x] # "EMPTY" => x \in Created
  <2>1. t \in Threads
    BY DEF Created, Threads
  <2>2. ToSet(Append(rq, t)) = ToSet(rq) \cup {t}
    BY <2>1, AppendToSet
  <2> QED
    BY <1>3, <2>1, <2>2 DEF MakeRunnable
<1>4. (pool_n' = pool_n => Created' = Created) /\ BootThr' = BootThr
  BY DEF Created, BootThr
<1>5. UNCHANGED cur => Me' = Me
  BY DEF Me
<1>6. CASE Spawn(BSP)
  BY <1>1, <1>4, <1>5, <1>6 DEF Spawn, Me
<1>7. CASE Kick(BSP)
  BY <1>1, <1>4, <1>5, <1>7 DEF Kick
<1>8. CASE Park(BSP)
  <2>1. /\ state' = [state EXCEPT ![Me] = "WAITING"]
        /\ at' = [at EXCEPT ![Me] = "check"]
        /\ UNCHANGED <<joiner, rq, pool_n, cur, nxt, target>>
    BY <1>8 DEF Park, Me
  <2> QED
    BY <1>1, <1>4, <1>5, <2>1
<1>9. CASE Yield(BSP)
  BY <1>1, <1>4, <1>5, <1>9 DEF Yield, Me
<1>10. CASE Exit(BSP)
  <2>1. /\ state' = [state EXCEPT ![Me] = "DONE"]
        /\ joiner' = [joiner EXCEPT ![Me] = NoThread]
        /\ target' = [target EXCEPT ![Me] = joiner[Me]]
        /\ at' = [at EXCEPT ![Me] = IF joiner[Me] = NoThread THEN "check" ELSE "wake"]
        /\ UNCHANGED <<rq, pool_n, cur, nxt>>
    BY <1>10 DEF Exit, Me
  <2> QED
    BY <1>1, <1>4, <1>5, <2>1
<1>11. ASSUME NEW t \in Threads, Wake(BSP, t) PROVE PointersCreated'
  <2>1. /\ t \in Created /\ MakeRunnable(t)
        /\ UNCHANGED <<joiner, pool_n, cur, nxt, at, target>>
    BY <1>11 DEF Wake
  <2> QED
    BY <1>1, <1>3, <1>4, <1>5, <2>1
<1>12. ASSUME NEW t \in Threads, Register(BSP, t) PROVE PointersCreated'
  <2>1. /\ joiner' = [joiner EXCEPT ![t] = Me]
        /\ UNCHANGED <<state, rq, pool_n, cur, nxt, at, target>>
    BY <1>12 DEF Register, Me
  <2> QED
    BY <1>1, <1>4, <1>5, <2>1
<1>13. CASE ClearSlot(BSP)
  <2>1. /\ at[Me] = "clear" /\ at' = [at EXCEPT ![Me] = "frame"]
        /\ state' = [state EXCEPT ![target[Me]] = "EMPTY"]
        /\ joiner' = [joiner EXCEPT ![target[Me]] = NoThread]
        /\ UNCHANGED <<pool_n, cur, nxt, target>>
    BY <1>13 DEF ClearSlot, Me
  <2>2. target[Me] \in Threads /\ rq' = rq
    BY <1>13, <2>1, FreshSlot DEF ClearSlot, Me
  <2> QED
    BY <1>1, <1>4, <1>5, <2>1, <2>2
<1>14. CASE StoreFrame(BSP)
  BY <1>1, <1>4, <1>5, <1>14 DEF StoreFrame, Me
<1>15. CASE CountSlot(BSP)
  <2>1. /\ at[Me] = "count" /\ at' = [at EXCEPT ![Me] = "wake"]
        /\ pool_n' \in {pool_n + 1, target[Me]}
        /\ UNCHANGED <<state, joiner, rq, cur, nxt, target>>
    BY <1>15 DEF CountSlot, Me
  <2>2. target[Me] = pool_n + 1 /\ target[Me] \in Pool
    BY <2>1, FreshSlot
  <2>3. Created \subseteq Created' /\ target[Me] \in Created'
    BY <2>1, <2>2 DEF Created, Pool, BootThr
  <2> QED
    BY <1>1, <1>5, <2>1, <2>3
<1>16. CASE WakeTarget(BSP)
  <2>1. /\ at[Me] = "wake" /\ at' = [at EXCEPT ![Me] = "kick"]
        /\ MakeRunnable(target[Me])
        /\ target' = [target EXCEPT ![Me] = NoThread]
        /\ UNCHANGED <<joiner, pool_n, cur, nxt>>
    BY <1>16 DEF WakeTarget, Me
  <2>2. target[Me] \in Created
    BY <1>1, <2>1
  <2> QED
    BY <1>1, <1>3, <1>4, <1>5, <2>1, <2>2
<1>17. CASE KickAfterWake(BSP)
  <2>1. /\ at' = [at EXCEPT ![Me] = Home(Me)]
        /\ UNCHANGED <<state, joiner, rq, pool_n, cur, nxt, target>>
    BY <1>17 DEF KickAfterWake, Me
  <2> QED
    BY <1>1, <1>4, <1>5, <2>1
<1>18. CASE WokenBeforeSleep(BSP)
  BY <1>1, <1>18, MeNotRunnable DEF WokenBeforeSleep, Me
<1>19. CASE StillAsleep(BSP)
  BY <1>1, <1>4, <1>5, <1>19 DEF StillAsleep, Me
<1>20. CASE PopNext(BSP)
  <2>1. Head(rq) \in ToSet(rq) /\ ToSet(Tail(rq)) \subseteq ToSet(rq)
    BY <1>20, TailToSet DEF PopNext
  <2>2. /\ nxt' = [nxt EXCEPT ![Me] = Head(rq)] /\ rq' = Tail(rq)
        /\ at' = [at EXCEPT ![Me] = "set"]
        /\ UNCHANGED <<state, joiner, pool_n, cur, target>>
    BY <1>20 DEF PopNext, Me
  <2> QED
    BY <1>1, <1>4, <1>5, <2>1, <2>2
<1>21. CASE PopNone(BSP)
  BY <1>1, <1>4, <1>5, <1>21 DEF PopNone, Me
<1>22. CASE LeaveHlt(BSP)
  BY <1>1, <1>4, <1>5, <1>22 DEF LeaveHlt, Me
<1>23. CASE SetRunning(BSP)
  <2>1. /\ at[Me] = "set" /\ at' = [at EXCEPT ![Me] = "load"]
        /\ state' = [state EXCEPT ![nxt[Me]] = "RUNNING"]
        /\ UNCHANGED <<joiner, rq, pool_n, cur, nxt, target>>
    BY <1>23 DEF SetRunning, Me
  <2>2. nxt[Me] \in Created
    BY <1>1, <1>2, <2>1
  <2> QED
    BY <1>1, <1>4, <1>5, <2>1, <2>2
<1>24. CASE LoadSp(BSP)
  BY <1>1, <1>4, <1>5, <1>24 DEF LoadSp, Me
<1>25. CASE Switch(BSP)
  <2>1. /\ at[Me] = "switch" /\ at' = [at EXCEPT ![Me] = Home(Me)]
        /\ nxt' = [nxt EXCEPT ![Me] = NoThread]
        /\ cur' = [cur EXCEPT ![BSP] = nxt[Me]]
        /\ UNCHANGED <<state, joiner, rq, pool_n, target>>
    BY <1>25 DEF Switch, Me
  <2>2. nxt[Me] \in Created /\ nxt[Me] \in Threads /\ nxt[Me] # Me /\ Me' = nxt[Me]
    BY <1>1, <1>2, <2>1 DEF OneInv, DispatchSaved, Me
  <2>3. at[Me'] \in {"run", "check"}
    BY <2>2 DEF SuspendedAtHome
  <2> QED
    BY <1>1, <1>4, <2>1, <2>2, <2>3
<1> QED
  BY <1>1, <1>6, <1>7, <1>8, <1>9, <1>10, <1>11, <1>12, <1>13, <1>14, <1>15,
     <1>16, <1>17, <1>18, <1>19, <1>20, <1>21, <1>22, <1>23, <1>24, <1>25
  DEF Call, Inside, LookAtState

LEMMA HomeStep ==
  ASSUME NCpu = 1, GInv, OneInv, Next
  PROVE  SuspendedAtHome' /\ ~saved'[Me']
<1> USE DEF GInv, TypeOK, SuspendedAtHome, At, Goto, Home
<1>1. /\ CPUs = {BSP} /\ Me \in Threads /\ BSP \in CPUs /\ ~saved[Me]
      /\ Call(BSP) \/ Inside(BSP)
  BY MeNotRunnable DEF Next
<1>2. CASE /\ UNCHANGED <<cur, saved>>
           /\ UNCHANGED at \/ \E p \in Places : Goto(BSP, p)
  BY <1>1, <1>2 DEF Me
<1>3. CASE StoreFrame(BSP)
  <2>1. /\ saved' = [saved EXCEPT ![target[Me]] = TRUE] /\ at[Me] = "frame"
        /\ at' = [at EXCEPT ![Me] = "count"] /\ UNCHANGED cur
    BY <1>3 DEF StoreFrame, Me
  <2>2. target[Me] # Me
    BY <2>1, FreshSlot
  <2> QED
    BY <1>1, <2>1, <2>2 DEF Me
<1>4. CASE Switch(BSP)
  <2>1. /\ at[Me] = "switch" /\ at' = [at EXCEPT ![Me] = Home(Me)]
        /\ cur' = [cur EXCEPT ![BSP] = nxt[Me]]
        /\ saved' = [saved EXCEPT ![Me] = TRUE, ![nxt[Me]] = FALSE]
    BY <1>4 DEF Switch, Me
  <2>2. nxt[Me] \in Threads /\ Me' = nxt[Me]
    BY <1>1, <2>1 DEF Me
  <2> QED
    BY <1>1, <2>1, <2>2
<1> QED
  BY <1>1, <1>2, <1>3, <1>4 DEF Call, Inside, LookAtState, Spawn, Kick, Park, Yield,
     Exit, Wake, Register, ClearSlot, CountSlot, WakeTarget, KickAfterWake,
     WokenBeforeSleep, StillAsleep, PopNext, PopNone, LeaveHlt, SetRunning, LoadSp, Places

LEMMA QueuedStep ==
  ASSUME NCpu = 1, GInv, OneInv, Next
  PROVE  RunnableIsQueued'
<1> USE DEF GInv, TypeOK, RunnableIsQueued, At, Goto
<1>1. /\ CPUs = {BSP} /\ Me \in Threads /\ BSP \in CPUs
      /\ Call(BSP) \/ Inside(BSP)
  BY MeNotRunnable DEF Next
<1>2. Popped = IF at[Me] = "set" THEN {nxt[Me]} ELSE {}
  BY <1>1 DEF Popped, SuspendedAtHome
<1>3. ASSUME at[Me] # "set", rq' = rq,
             \A t \in Threads : state'[t] = "RUNNABLE" => state[t] = "RUNNABLE"
      PROVE  RunnableIsQueued'
  BY <1>2, <1>3
<1>4. ASSUME NEW t \in Threads, MakeRunnable(t), at[Me] # "set"
      PROVE  RunnableIsQueued'
  <2>1. ToSet(Append(rq, t)) = ToSet(rq) \cup {t}
    BY AppendToSet
  <2> QED
    BY <1>2, <1>4, <2>1 DEF MakeRunnable
<1>5. CASE Call(BSP)
  <2>1. ASSUME NEW t \in Threads, Wake(BSP, t) PROVE RunnableIsQueued'
    BY <1>4, <2>1 DEF Wake, Me
  <2>2. ASSUME NEW t \in Threads, Register(BSP, t) PROVE RunnableIsQueued'
    BY <1>3, <2>2 DEF Register, Me
  <2>3. CASE Spawn(BSP) \/ Kick(BSP) \/ Yield(BSP)
    BY <1>3, <2>3 DEF Spawn, Kick, Yield, Me
  <2>4. CASE Park(BSP)
    BY <1>1, <1>3, <2>4 DEF Park, Me
  <2>5. CASE Exit(BSP)
    BY <1>1, <1>3, <2>5 DEF Exit, Me
  <2> QED
    BY <1>5, <2>1, <2>2, <2>3, <2>4, <2>5 DEF Call
<1>6. CASE ClearSlot(BSP)
  <2>1. at[Me] = "clear" /\ state' = [state EXCEPT ![target[Me]] = "EMPTY"]
    BY <1>6 DEF ClearSlot, Me
  <2>2. target[Me] \in Threads /\ rq' = rq
    BY <1>6, <2>1, FreshSlot DEF ClearSlot, Me
  <2> QED
    BY <1>3, <2>1, <2>2
<1>7. CASE WakeTarget(BSP)
  <2>1. at[Me] = "wake" /\ target[Me] \in Threads /\ MakeRunnable(target[Me])
    BY <1>1, <1>7 DEF WakeTarget, Me
  <2> QED
    BY <1>4, <2>1
<1>8. CASE WokenBeforeSleep(BSP)
  BY <1>8, MeNotRunnable DEF WokenBeforeSleep, Me
<1>9. CASE PopNext(BSP)
  <2>1. ToSet(rq) = ToSet(rq') \cup {Head(rq)}
    BY <1>9, TailToSet DEF PopNext
  <2>2. at'[Me] = "set" /\ nxt'[Me] = Head(rq) /\ state' = state /\ at[Me] = "pop"
    BY <1>1, <1>9 DEF PopNext, Me
  <2>3. Head(rq) \in Popped'
    BY <1>1, <2>2 DEF Popped
  <2> QED
    BY <1>2, <2>1, <2>2, <2>3
<1>10. CASE SetRunning(BSP)
  \* The popped thread leaves Popped and is RUNNABLE no longer.
  <2>1. /\ at[Me] = "set" /\ nxt[Me] \in Threads /\ rq' = rq
        /\ state' = [state EXCEPT ![nxt[Me]] = "RUNNING"]
    BY <1>1, <1>10 DEF SetRunning, Me
  <2>2. \A t \in Threads : state'[t] = "RUNNABLE" => t # nxt[Me] /\ state[t] = "RUNNABLE"
    BY <2>1
  <2> QED
    BY <1>2, <2>1, <2>2
<1>11. CASE UNCHANGED <<state, rq>> /\ at[Me] # "set"
  BY <1>3, <1>11
<1> QED
  BY <1>1, <1>5, <1>6, <1>7, <1>8, <1>9, <1>10, <1>11 DEF Inside, LookAtState,
     StoreFrame, CountSlot, KickAfterWake, StillAsleep, PopNone, LeaveHlt, LoadSp,
     Switch, Me

LEMMA OneStep ==
  ASSUME NCpu = 1, GInv, OneInv, Next
  PROVE  OneInv'
<1> USE DEF GInv, TypeOK, OneInv, NoCorruption, DispatchSaved, WaitersSaved,
            DoneDispatch, NewThreads, At, Goto, Home
<1>1. /\ CPUs = {BSP} /\ Me \in Threads /\ ~saved[Me]
      /\ state[Me] # "RUNNABLE" /\ BSP \in CPUs
  BY MeNotRunnable
<1>2. \A t \in ToSet(rq) : t \in Threads /\ t # Me
  BY <1>1 DEF PointersCreated, Created, Threads, QueueSaved
<1>3. Call(BSP) \/ Inside(BSP)
  BY <1>1 DEF Next
<1>4. Pool \subseteq Threads /\ NoThread \notin Threads
  BY DEF Threads, BootThr, Pool, NoThread
<1>5. ASSUME rq' = rq, saved' = saved,
             \A t \in ToSet(rq) : state'[t] = state[t]
      PROVE  QueueSaved'
  BY <1>5 DEF QueueSaved
<1>6. UNCHANGED cur => Me' = Me
  BY DEF Me
<1>7. CASE Spawn(BSP)
  <2>1. /\ at[Me] = "run" /\ at' = [at EXCEPT ![Me] = "clear"] /\ pool_n < MaxThr
        /\ target' = [target EXCEPT ![Me] = pool_n + 1]
        /\ UNCHANGED <<state, joiner, rq, pool_n, cur, nxt, fresh, disp, saved, fault>>
    BY <1>7 DEF Spawn, Me
  <2> QED
    BY <1>1, <1>5, <1>6, <2>1
<1>24. CASE ClearSlot(BSP)
  <2>1. at[Me] = "clear" /\ at' = [at EXCEPT ![Me] = "frame"]
        /\ joiner' = [joiner EXCEPT ![target[Me]] = NoThread]
        /\ UNCHANGED <<pool_n, cur, nxt, fresh, target, disp, saved>>
    BY <1>24 DEF ClearSlot, Me
  <2>2. state' = state /\ rq' = rq /\ fault' = fault /\ target[Me] \in Threads
    BY <1>24, <2>1, FreshSlot DEF ClearSlot, SharesSlot, Me
  <2>3. \A t \in Threads : joiner'[t] \in {joiner[t], NoThread}
    BY <2>1, <2>2
  <2>4. \A t \in Threads : joiner'[t] # NoThread => state'[joiner'[t]] # "EMPTY"
    BY <2>2, <2>3
  <2>5. QueueSaved' /\ NoCorruption' /\ DispatchSaved' /\ WaitersSaved' /\ DoneDispatch'
    BY <1>1, <1>5, <1>6, <2>1, <2>2
  <2>6. NewThreads'
    BY <1>1, <1>6, <2>1, <2>2, <2>4
  <2> HIDE DEF NoCorruption, DispatchSaved, WaitersSaved, DoneDispatch, NewThreads
  <2> QED
    BY <2>5, <2>6
<1>25. CASE StoreFrame(BSP)
  <2>1. at[Me] = "frame" /\ at' = [at EXCEPT ![Me] = "count"]
        /\ saved' = [saved EXCEPT ![target[Me]] = TRUE]
        /\ UNCHANGED <<state, joiner, rq, pool_n, cur, nxt, fresh, target, disp>>
    BY <1>25 DEF StoreFrame, Me
  <2>2. fault' = fault /\ target[Me] \in Threads
    BY <1>25, <2>1, FreshSlot DEF StoreFrame, SharesSlot, Me
  <2>3. saved'[target[Me]] /\ \A t \in Threads : saved[t] => saved'[t]
    BY <2>1, <2>2
  <2>4. QueueSaved'
    BY <1>2, <2>1, <2>3 DEF QueueSaved
  <2> QED
    BY <1>1, <1>6, <2>1, <2>2, <2>3, <2>4
<1>8. CASE Kick(BSP)
  BY <1>1, <1>5, <1>6, <1>8 DEF Kick
<1>9. CASE Park(BSP)
  <2>1. /\ state' = [state EXCEPT ![Me] = "WAITING"]
        /\ at' = [at EXCEPT ![Me] = "check"] /\ at[Me] = "run"
        /\ UNCHANGED <<joiner, rq, pool_n, cur, nxt, target, disp, saved, fault>>
    BY <1>9 DEF Park, Me
  <2>2. QueueSaved'
    BY <1>2, <1>5, <2>1
  <2> QED
    BY <1>1, <1>6, <2>1, <2>2
<1>10. CASE Yield(BSP)
  BY <1>1, <1>5, <1>6, <1>10 DEF Yield, Me
<1>11. CASE Exit(BSP)
  <2>1. /\ state' = [state EXCEPT ![Me] = "DONE"]
        /\ joiner' = [joiner EXCEPT ![Me] = NoThread]
        /\ target' = [target EXCEPT ![Me] = joiner[Me]]
        /\ disp' = disp \cup {Me} /\ at[Me] = "run"
        /\ at' = [at EXCEPT ![Me] =
                    IF joiner[Me] = NoThread THEN "check" ELSE "wake"]
        /\ UNCHANGED <<rq, pool_n, cur, nxt, saved, fault>>
    BY <1>11 DEF Exit, Me
  <2>2. QueueSaved'
    BY <1>2, <1>5, <2>1
  <2> QED
    BY <1>1, <1>6, <2>1, <2>2
<1>12. ASSUME NEW t \in Threads, Wake(BSP, t) PROVE OneInv'
  <2>1. /\ at[Me] = "run" /\ state[t] # "EMPTY" /\ MakeRunnable(t)
        /\ UNCHANGED <<joiner, pool_n, cur, nxt, at, target, disp, saved>>
    BY <1>12 DEF Wake, Me
  <2>2. state[t] \in {"WAITING", "EMPTY"} => saved[t] /\ t # Me
    BY <1>1, <2>1
  <2>3. /\ NoCorruption' /\ QueueSaved'
        /\ \A x \in Threads \ {t} : state'[x] = state[x]
        /\ state[t] \in {"WAITING", "EMPTY"} => state'[t] = "RUNNABLE"
        /\ state[t] \notin {"WAITING", "EMPTY"} => state'[t] = state[t]
    BY <2>1, <2>2, MakeRunnableSaved
  <2>4. \A x \in 1..pool_n : x \in Threads
    BY <1>4 DEF Pool
  <2> QED
    BY <1>1, <1>6, <2>1, <2>2, <2>3, <2>4
<1>13. ASSUME NEW t \in Threads, Register(BSP, t) PROVE OneInv'
  <2>1. /\ joiner' = [joiner EXCEPT ![t] = Me] /\ at[Me] = "run"
        /\ UNCHANGED <<state, rq, pool_n, cur, nxt, at, target, disp, saved, fault>>
    BY <1>13 DEF Register, Me
  <2> QED
    BY <1>1, <1>5, <1>6, <2>1
<1>14. CASE CountSlot(BSP)
  <2>1. /\ pool_n' \in {pool_n + 1, target[Me]} /\ at[Me] = "count"
        /\ at' = [at EXCEPT ![Me] = "wake"]
        /\ UNCHANGED <<state, joiner, rq, cur, nxt, fresh, target, disp, saved, fault>>
    BY <1>14 DEF CountSlot, Me
  <2>2. target[Me] = pool_n + 1
    BY <2>1, FreshSlot
  <2>3. \A t \in 1..pool_n' : t \in 1..pool_n \/ t = target[Me]
    BY <2>1, <2>2
  <2>4. MaxThr \in Nat
    OBVIOUS
  <2> QED
    BY <1>1, <1>5, <1>6, <2>1, <2>2, <2>3, <2>4
<1>15. CASE WakeTarget(BSP)
  <2>1. /\ at[Me] = "wake" /\ MakeRunnable(target[Me])
        /\ at' = [at EXCEPT ![Me] = "kick"]
        /\ UNCHANGED <<joiner, pool_n, cur, nxt, disp, saved>>
    BY <1>15 DEF WakeTarget, Me
  <2>2. target[Me] \in Threads
    BY <1>1, <2>1
  <2>3. /\ state[target[Me]] \in {"WAITING", "EMPTY"} => saved[target[Me]]
        /\ state[Me] \in {"RUNNING", "DONE"}
    BY <1>1, <2>1, <2>2
  <2>4. /\ NoCorruption' /\ QueueSaved'
        /\ \A x \in Threads \ {target[Me]} : state'[x] = state[x]
        /\ state[target[Me]] \in {"WAITING", "EMPTY"} =>
             state'[target[Me]] = "RUNNABLE"
        /\ state[target[Me]] \notin {"WAITING", "EMPTY"} =>
             state'[target[Me]] = state[target[Me]]
    BY <2>1, <2>2, <2>3, MakeRunnableSaved
  <2>5. \A t \in 1..pool_n : t \in Threads
    BY <1>4 DEF Pool
  <2>6. DispatchSaved'
    BY <1>1, <1>6, <2>1
  <2>7. WaitersSaved'
    BY <1>1, <1>6, <2>1, <2>2, <2>3, <2>4
  <2>8. DoneDispatch'
    BY <1>1, <2>1, <2>2, <2>4
  <2>9. \A t \in Threads : state'[t] = "EMPTY" => state[t] = "EMPTY" /\ t # target[Me]
    BY <2>2, <2>4
  <2>10. NewThreads'
    <3>1. \A t \in 1..pool_n : state'[t] # "EMPTY"
      BY <1>1, <2>1, <2>5, <2>9
    <3>2. \A t \in Threads : joiner'[t] # NoThread => state'[joiner'[t]] # "EMPTY"
      BY <2>1, <2>4, <2>9
    <3> QED
      BY <1>1, <1>6, <2>1, <3>1, <3>2
  <2> HIDE DEF DispatchSaved, WaitersSaved, DoneDispatch, NewThreads
  <2> QED
    BY <2>4, <2>6, <2>7, <2>8, <2>10
<1>16. CASE KickAfterWake(BSP)
  <2>1. /\ at[Me] = "kick" /\ at' = [at EXCEPT ![Me] = Home(Me)]
        /\ UNCHANGED <<state, joiner, rq, pool_n, cur, nxt, target, disp, saved, fault>>
    BY <1>16 DEF KickAfterWake, Me
  <2> QED
    BY <1>1, <1>5, <1>6, <2>1
<1>17. CASE WokenBeforeSleep(BSP)
  BY <1>1, <1>17 DEF WokenBeforeSleep, Me
<1>18. CASE StillAsleep(BSP)
  BY <1>1, <1>5, <1>6, <1>18 DEF StillAsleep, Me
<1>19. CASE PopNext(BSP)
  <2>1. /\ at[Me] = "pop" /\ at' = [at EXCEPT ![Me] = "set"]
        /\ nxt' = [nxt EXCEPT ![Me] = Head(rq)] /\ rq' = Tail(rq) /\ rq # <<>>
        /\ UNCHANGED <<state, joiner, pool_n, cur, target, disp, saved, fault>>
    BY <1>19 DEF PopNext, Me
  <2>2. /\ Head(rq) \in ToSet(rq) /\ ToSet(rq') \subseteq ToSet(rq)
        /\ IsInjective(rq') /\ Head(rq) \notin ToSet(rq')
    BY <2>1, TailToSet DEF QueueSaved
  <2> QED
    BY <1>1, <1>6, <2>1, <2>2 DEF QueueSaved
<1>20. CASE PopNone(BSP)
  BY <1>1, <1>5, <1>6, <1>20 DEF PopNone, Me
<1>21. CASE LeaveHlt(BSP)
  BY <1>1, <1>5, <1>6, <1>21 DEF LeaveHlt, Me
<1>22. CASE SetRunning(BSP)
  <2>1. /\ at[Me] = "set" /\ at' = [at EXCEPT ![Me] = "load"]
        /\ state' = [state EXCEPT ![nxt[Me]] = "RUNNING"]
        /\ UNCHANGED <<joiner, rq, pool_n, cur, nxt, target, disp, saved, fault>>
    BY <1>22 DEF SetRunning, Me
  <2>2. nxt[Me] \in Threads /\ nxt[Me] \notin ToSet(rq) /\ nxt[Me] # Me
    BY <1>1, <2>1 DEF Me
  <2>3. QueueSaved'
    BY <1>2, <1>5, <2>1, <2>2
  <2> QED
    BY <1>1, <1>6, <2>1, <2>2, <2>3
<1>26. CASE LoadSp(BSP)
  <2>1. /\ at[Me] = "load" /\ at' = [at EXCEPT ![Me] = "switch"]
        /\ fresh' = [fresh EXCEPT ![Me] = saved[nxt[Me]]]
        /\ UNCHANGED <<state, joiner, rq, pool_n, cur, nxt, target, disp, saved, fault>>
    BY <1>26 DEF LoadSp, Me
  <2> QED
    BY <1>1, <1>5, <1>6, <2>1
<1>23. CASE Switch(BSP)
  <2>1. at[Me] = "switch" /\ nxt[Me] \in Threads /\ saved[nxt[Me]] /\ fresh[Me]
    BY <1>1, <1>23 DEF Switch, Me
  <2>2. /\ saved' = [saved EXCEPT ![Me] = TRUE, ![nxt[Me]] = FALSE]
        /\ at' = [at EXCEPT ![Me] = Home(Me)] /\ cur' = [cur EXCEPT ![BSP] = nxt[Me]]
        /\ UNCHANGED <<state, joiner, rq, pool_n, target, disp, fault>>
    BY <1>23, <2>1 DEF Switch, Me
  <2>3. Me' = nxt[Me] /\ Me' # Me /\ state[Me'] = "RUNNING"
    BY <1>1, <2>1, <2>2 DEF Me
  <2>4. at[Me'] \in {"run", "check"}
    BY <1>1, <2>1, <2>3 DEF SuspendedAtHome, Me
  <2>5. QueueSaved'
    BY <1>2, <2>2, <2>3 DEF QueueSaved
  <2> QED
    BY <1>1, <2>1, <2>2, <2>3, <2>4, <2>5
<1> QED
  BY <1>3, <1>7, <1>8, <1>9, <1>10, <1>11, <1>12, <1>13, <1>14, <1>15, <1>16,
     <1>17, <1>18, <1>19, <1>20, <1>21, <1>22, <1>23, <1>24, <1>25, <1>26
  DEF Call, Inside, LookAtState

LEMMA InitOne ==
  ASSUME NCpu = 1
  PROVE  Init => GInv /\ OneInv
<1> SUFFICES ASSUME Init PROVE GInv /\ OneInv
  OBVIOUS
<1>1. /\ BootThr = {BSP} /\ disp = {} /\ BSP \in CPUs /\ MaxThr >= 0
      /\ BSP \in Threads /\ NoThread \notin Threads
  BY DEF BootThr, CPUs, Threads, Pool, NoThread, Init
<1>2. Me = BSP /\ at[Me] = "run" /\ state[Me] = "RUNNING" /\ ~saved[Me]
  BY <1>1 DEF Init, Me
<1>3. \A t \in Threads : /\ state[t] \in {"RUNNING", "EMPTY"} /\ joiner[t] = NoThread
                         /\ nxt[t] = NoThread /\ at[t] = "run"
                         /\ state[t] # "EMPTY" => t \in BootThr
  BY <1>1 DEF Init
<1>4. ToSet(rq) = {} /\ IsInjective(rq) /\ pool_n = 0 /\ fault = "none"
  BY DEF Init, ToSet, IsInjective
<1>5. GInv
  BY <1>1, <1>2, <1>3, <1>4, InitTypeOK DEF GInv, PointersCreated, SuspendedAtHome,
     RunnableIsQueued, Created
<1> QED
  BY <1>1, <1>2, <1>3, <1>4, <1>5 DEF OneInv, NoCorruption, QueueSaved,
     DispatchSaved, WaitersSaved, DoneDispatch, NewThreads

LEMMA OneInvariant ==
  ASSUME NCpu = 1
  PROVE  Spec => [](GInv /\ OneInv)
<1>1. Init => GInv /\ OneInv
  BY InitOne
<1>2. GInv /\ OneInv /\ [Next]_vars => (GInv /\ OneInv)'
  <2>1. ASSUME GInv, OneInv, Next
        PROVE  (GInv /\ OneInv)'
    <3>1. TypeOK'
      BY <2>1, TypeStep DEF GInv
    <3>2. PointersCreated' /\ SuspendedAtHome' /\ ~saved'[Me'] /\ RunnableIsQueued'
      BY <2>1, PointersStep, HomeStep, QueuedStep
    <3>3. OneInv'
      BY <2>1, OneStep
    <3> QED
      BY <3>1, <3>2, <3>3 DEF GInv
  <2>2. ASSUME GInv, OneInv, UNCHANGED vars
        PROVE  (GInv /\ OneInv)'
    <3>1. Me' = Me /\ Popped' = Popped /\ Created' = Created
      BY <2>2 DEF vars, Me, Popped, Created
    <3>2. GInv'
      BY <2>2, <3>1 DEF vars, GInv, TypeOK, PointersCreated, SuspendedAtHome,
         RunnableIsQueued
    <3>3. OneInv'
      BY <2>2, <3>1 DEF vars, OneInv, NoCorruption, QueueSaved, DispatchSaved,
         WaitersSaved, DoneDispatch, NewThreads
    <3> QED
      BY <3>2, <3>3
  <2> QED
    BY <2>1, <2>2
<1> QED
  BY <1>1, <1>2, PTL DEF Spec

\* The scheduler on one CPU never resumes a context that is not suspended and
\* never links a thread twice, whatever its callers do and however many
\* threads there are.
THEOREM OneCpuNoCorruption ==
  ASSUME NCpu = 1
  PROVE  Spec => []NoCorruption
<1>1. OneInv => NoCorruption
  BY DEF OneInv
<1> QED
  BY <1>1, OneInvariant, PTL

\* On one CPU the run queue is exactly the set of RUNNABLE threads.
THEOREM OneCpuRunQueueExact ==
  ASSUME NCpu = 1
  PROVE  Spec => []RunQueueExact
<1>1. ASSUME GInv, OneInv
      PROVE  RunQueueExact
  <2>1. CPUs = {BSP}
    BY <1>1, MeNotRunnable
  <2>2. Popped = IF at[Me] = "set" THEN {nxt[Me]} ELSE {}
    BY <1>1, MeNotRunnable DEF Popped, GInv, SuspendedAtHome
  <2>3. ToSet(rq) \subseteq Threads
    BY <1>1 DEF GInv, PointersCreated, Created, Threads
  <2> QED
    BY <1>1, <2>2, <2>3 DEF RunQueueExact, GInv, OneInv, QueueSaved,
       DispatchSaved, RunnableIsQueued
<1> QED
  BY <1>1, OneInvariant, PTL

\* On one CPU kth_by_tid accepts only slots of the pool whose thread has been
\* started.
THEOREM OneCpuHandlesValid ==
  ASSUME NCpu = 1
  PROVE  Spec => []HandlesValid
<1>1. ASSUME GInv, OneInv
      PROVE  HandlesValid
  <2>1. BSP \in CPUs
    BY DEF CPUs
  <2> QED
    BY <1>1, <2>1 DEF HandlesValid, OneInv, NewThreads, Me, Pool, GInv, TypeOK
<1> QED
  BY <1>1, OneInvariant, PTL

\* On one CPU an exited thread stays DONE: a join that has seen DONE may use
\* its result at any later time.
THEOREM OneCpuDoneIsFinal ==
  ASSUME NCpu = 1
  PROVE  Spec => DoneIsFinal
<1>1. ASSUME GInv, OneInv, [Next]_vars, NEW t \in Threads, state[t] = "DONE"
      PROVE  state'[t] = "DONE"
  <2>1. /\ CPUs = {BSP} /\ Me \in Threads
        /\ state[Me] # "RUNNABLE" /\ BSP \in CPUs
    BY <1>1, MeNotRunnable
  <2>2. CASE Call(BSP) \/ Inside(BSP)
    <3> USE DEF GInv, TypeOK, OneInv, At
    <3>1. ASSUME NEW x \in Threads, MakeRunnable(x) PROVE state'[t] = "DONE"
      BY <1>1, <3>1 DEF MakeRunnable
    <3>2. CASE ClearSlot(BSP)
      <4>1. at[Me] = "clear" /\ state' = [state EXCEPT ![target[Me]] = "EMPTY"]
        BY <3>2 DEF ClearSlot, Me
      <4>2. state[target[Me]] = "EMPTY"
        BY <1>1, <4>1, FreshSlot
      <4> QED
        BY <1>1, <4>1, <4>2
    <3>3. CASE Park(BSP)
      BY <1>1, <2>1, <3>3 DEF Park, DoneDispatch, Me
    <3>4. CASE Exit(BSP)
      BY <1>1, <2>1, <3>4 DEF Exit
    <3>5. ASSUME NEW x \in Threads, Wake(BSP, x) PROVE state'[t] = "DONE"
      BY <3>1, <3>5 DEF Wake
    <3>6. CASE WakeTarget(BSP)
      <4>1. target[Me] \in Threads
        BY <1>1, <2>1, <3>6 DEF WakeTarget, Me
      <4> QED
        BY <3>1, <3>6, <4>1 DEF WakeTarget, Me
    <3>7. CASE WokenBeforeSleep(BSP)
      BY <2>1, <3>7 DEF WokenBeforeSleep, Me
    <3>8. CASE SetRunning(BSP)
      BY <1>1, <2>1, <3>8 DEF SetRunning, DispatchSaved, Me
    <3>9. CASE UNCHANGED state
      BY <1>1, <3>9
    <3> QED
      BY <2>2, <3>2, <3>3, <3>4, <3>5, <3>6, <3>7, <3>8, <3>9 DEF Call, Inside, LookAtState,
         Spawn, Kick, Yield, Register, StoreFrame, CountSlot, KickAfterWake, StillAsleep,
         PopNext, PopNone, LeaveHlt, LoadSp, Switch
  <2> QED
    BY <1>1, <2>1, <2>2 DEF Next, vars
<1>2. GInv /\ OneInv /\ [Next]_vars =>
        [\A t \in Threads : state[t] = "DONE" => state'[t] = "DONE"]_vars
  BY <1>1
<1> QED
  BY <1>2, OneInvariant, PTL DEF Spec, DoneIsFinal
=============================================================================
