------------------------------- MODULE Sleeping -------------------------------
(***************************************************************************)
(* nanosleep of boot/metal_overrides.c, the interrupts that end its hlt,   *)
(* its 64-bit arithmetic.  Time is the time stamp counter, Hz ticks in     *)
(* Second nanoseconds.  The boot CPU takes the tick of the PIT, any CPU    *)
(* the deadline of its own local APIC timer, which an AP does not survive. *)
(***************************************************************************)
EXTENDS Integers

CONSTANTS Hz,      \* g_hz
          Second,  \* 1 000 000 000
          Margin,  \* nanoseconds before the deadline at which hlt ends (2 000 000)
          Period,  \* ticks between two interrupts of the PIT
          Modulus, \* 2^64
          Start,   \* when nanosleep may be called
          Wants,   \* nanoseconds to sleep
          Jump     \* bound: ticks that pass in one step of the code

ASSUME TimeAssumption ==
  /\ {Hz, Second, Period, Jump, Modulus} \subseteq Nat \ {0} /\ Margin \in Nat
  /\ Start \subseteq Nat /\ Wants \subseteq Nat
  \* The PIT ticks several times within the margin: every 250 us, and 2 ms.
  /\ Period * Second <= Margin * Hz

Never == -1

VARIABLES tsc,   \* the time stamp counter
          sleep, \* the call: where it is, its CPU, its request and its deadlines
          alarm  \* when the local timer goes off, or Never

sleepVars == <<tsc, sleep, alarm>>

\* tsc_ns: its product does not wrap.
Ns(t) == (t * Second) \div Hz

\* What a CPU can be: the boot CPU or not, with a TSC-deadline timer or without.
SleepInit ==
  /\ tsc \in Start
  /\ sleep \in [at : {"call"}, bsp : BOOLEAN, timer : BOOLEAN, want : Wants,
                deadline : {0}, called : {0}]
  /\ alarm = Never

Early == sleep.deadline - Margin

\* Some ticks pass in a step of the code.
TimePasses == tsc' \in tsc .. (tsc + Jump)

Go(at) == sleep' = [sleep EXCEPT !.at = at]

Call ==
  /\ sleep.at = "call"
  /\ sleep' = [sleep EXCEPT !.deadline = Ns(tsc) + sleep.want, !.called = tsc,
                            !.at = IF Ns(tsc) + sleep.want > Margin THEN "plan" ELSE "spin"]
  /\ TimePasses
  /\ UNCHANGED alarm

\* Ticks from now to the early deadline: the difference and the product wrap.
Ticks == ((((Early - Ns(tsc)) % Modulus) * Hz) % Modulus) \div Second

\* With a timer: arm it, and halt once.
Arm ==
  /\ sleep.at = "plan" /\ sleep.timer
  /\ alarm' = (tsc + Ticks) % Modulus
  /\ Go("hlt")
  /\ TimePasses

\* Mutant: halts until the deadline itself.
Halt_NoMargin ==
  /\ sleep.at = "plan" /\ ~sleep.timer
  /\ Go(IF Ns(tsc) < sleep.deadline THEN "hlt" ELSE "spin")
  /\ TimePasses
  /\ UNCHANGED alarm

\* Without: halt until the early deadline.
Halt ==
  /\ sleep.at = "plan" /\ ~sleep.timer
  /\ Go(IF Ns(tsc) < Early THEN "hlt" ELSE "spin")
  /\ TimePasses
  /\ UNCHANGED alarm

\* The next interrupt that reaches the halted CPU; an alarm in the past has gone
\* off already.
Interrupts ==
  (IF sleep.bsp THEN {(tsc \div Period + 1) * Period} ELSE {})
  \cup (IF alarm = Never THEN {} ELSE {IF alarm > tsc THEN alarm ELSE tsc})

\* The APs load no IDT: the interrupt of their timer is a fault in a fault, and
\* the CPU is lost.
Wake ==
  /\ sleep.at = "hlt" /\ Interrupts # {}
  /\ \/ tsc' = CHOOSE t \in Interrupts : \A u \in Interrupts : t <= u
     \/ sleep.bsp /\ tsc' = tsc  \* a tick that came with interrupts off
  /\ Go(IF ~sleep.bsp THEN "lost" ELSE IF sleep.timer THEN "spin" ELSE "plan")
  /\ alarm' = Never

Spin ==
  /\ sleep.at = "spin"
  /\ Go(IF Ns(tsc) < sleep.deadline THEN "spin" ELSE "done")
  /\ tsc' = IF Ns(tsc) < sleep.deadline THEN tsc + 1 ELSE tsc
  /\ UNCHANGED alarm

SleepNext == Call \/ Arm \/ Halt \/ Wake \/ Spin

SleepSpec == SleepInit /\ [][SleepNext]_sleepVars

\* The request is not longer than the margin, and what passes until the timer is
\* armed: then the early deadline may lie in the past, and the alarm anywhere.
Overtaken == sleep.timer /\ sleep.want <= Margin + Ns(Jump)

\* How much longer than asked a sleep may last: two steps of the code, and
\* when it is Overtaken a tick of the PIT.
Slip == 2 * Jump + (IF Overtaken THEN Period ELSE 0)

\* A sleep that returns is never shorter than asked, and "hlt until 2ms before
\* deadline, then busy-wait for precision" (metal_overrides.c:237): it is longer
\* by no more than the code itself takes, on every CPU on which it returns.  The
\* one exception is Overtaken: the code then halts with the deadline ahead of it
\* and sleeps on until the next tick of the PIT, but no longer.
OnTime ==
  sleep.at = "done" =>
    LET due == sleep.called + (sleep.want * Hz) \div Second + 1
    IN /\ Ns(tsc) >= Ns(sleep.called) + sleep.want
       /\ tsc <= due + Slip
================================================================================
