----------------------------- MODULE Calibration -----------------------------
(***************************************************************************)
(* How the kernel learns the rate of its time stamp counter:               *)
(* metal_time_init of boot/metal_overrides.c, which tries one source after *)
(* another.  Rates are counted in some unit, 100 MHz in the runs.  What    *)
(* the machine shows is a record: the estimates from kvmclock, the rates   *)
(* in the two CPUID leaves, what the real-time clock does and the PIT      *)
(* windows; a source that says nothing says 0 or <<>>.                     *)
(*                                                                         *)
(* The estimates from kvmclock come from snapshots of a page that KVM      *)
(* writes: module ClockPage.                                               *)
(***************************************************************************)
EXTENDS Integers, FiniteSets

CONSTANTS Low, High,       \* the plausibility band, both ends excluded
          EstLow, EstHigh, \* the same for one kvmclock estimate
          Default,         \* TSC_HZ_DEFAULT
          EdgeLimit,       \* how long the RTC may take to its first rollover
          WindowLimit,     \* and from there to the second
          Machines,        \* what the code may find
          Right            \* the rates that are right

Rates(n) == [1..n -> Nat]

ASSUME BandAssumption ==
  /\ {Low, High, EstLow, EstHigh, Default, EdgeLimit, WindowLimit} \subseteq Nat
  /\ Low < Default /\ Default < High

ASSUME MachinesAssumption ==
  \A m \in Machines :
    /\ \E n \in 0..5 : m.kvm \in Rates(n)
    /\ m.feature \in BOOLEAN /\ m.live \in BOOLEAN
    /\ m.leaf15 \in Nat /\ m.leaf16 \in Nat
    /\ m.rtc \in {"updating", "stopped", "ticks"} /\ m.second \in Nat
    /\ m.pit \in Rates(0) \cup Rates(5)

VARIABLES machine, \* one of Machines
          source,  \* the source that is tried
          rate,    \* g_hz, and where it comes from
          edge     \* the second before the first rollover of the RTC, and when that was

rateVars == <<machine, source, rate, edge>>

Plausible(hz) == Low < hz /\ hz < High

\* The element in the middle of the rates q after they are sorted.
Median(q) ==
  LET half == Cardinality(DOMAIN q) \div 2
  IN CHOOSE x \in {q[i] : i \in DOMAIN q} :
       /\ Cardinality({i \in DOMAIN q : q[i] < x}) <= half
       /\ Cardinality({i \in DOMAIN q : q[i] <= x}) > half

\* Within ten percent, as the code computes it.
Agree(x, y) == x * 10 <= y * 11 /\ x * 11 >= y * 10

\* The windows that gave an estimate.
Estimates(m) ==
  [k \in {i \in DOMAIN m.kvm : m.feature /\ m.live /\ EstLow < m.kvm[i] /\ m.kvm[i] < EstHigh}
     |-> m.kvm[k]]

Cluster(q) == Cardinality({i \in DOMAIN q : Agree(q[i], Median(q))})

\* Mutant: two estimates that agree are enough.
Trusted_Two(q) == Cardinality(DOMAIN q) >= 3 /\ Cluster(q) >= 2 /\ Plausible(Median(q))

\* The median counts when three estimates and more agree with it.
Trusted(q) == Cardinality(DOMAIN q) >= 3 /\ Cluster(q) >= 3 /\ Plausible(Median(q))

RateInit ==
  /\ machine \in Machines /\ source = "kvmclock" /\ rate = [by |-> "default", hz |-> Default]
  /\ edge = [prev |-> 0, at |-> 0]

\* The rate is taken if it is good, or the next source is tried.
Accept(good, hz, next) ==
  /\ IF good THEN rate' = [by |-> source, hz |-> hz] /\ source' = "done"
     ELSE rate' = rate /\ source' = next
  /\ UNCHANGED <<machine, edge>>

TryKvmclock ==
  LET q == Estimates(machine)
  IN source = "kvmclock" /\ Accept(Trusted(q), Median(q), "leaf15")

TryLeaf15 == source = "leaf15" /\ Accept(Plausible(machine.leaf15), machine.leaf15, "leaf16")
TryLeaf16 == source = "leaf16" /\ Accept(Plausible(machine.leaf16), machine.leaf16, "rtc")

\* The reads of the seconds register that differ from prev, one in a unit of time; the
\* last one may come after the limit.
Seconds(t) == IF machine.rtc = "ticks" THEN (t \div machine.second) % 60 ELSE 0
Changes(from, prev, limit) == {t \in (from + 1)..(from + limit + 1) : Seconds(t) # prev}
Earliest(T) == CHOOSE t \in T : \A other \in T : t <= other

\* The wait for the end of an update has no bound, that for a rollover has one.
FirstRollover ==
  /\ source = "rtc" /\ machine.rtc # "updating"
  /\ \E start \in 0..machine.second :
       LET seen == Changes(start, Seconds(start), EdgeLimit)
       IN IF seen = {} THEN source' = "pit" /\ edge' = edge
          ELSE source' = "second" /\ edge' = [prev |-> Seconds(start), at |-> Earliest(seen)]
  /\ UNCHANGED <<machine, rate>>

\* The second wait compares with what the first one did.
SecondRollover ==
  LET seen == Changes(edge.at, edge.prev, WindowLimit)
      hz == Earliest(seen) - edge.at
  IN source = "second" /\ Accept(seen # {} /\ Plausible(hz), hz, "pit")

\* Nor has a window of the PIT; the default stays when the median is no good.
TryPit ==
  /\ source = "pit" /\ DOMAIN machine.pit # {}
  /\ Accept(Plausible(Median(machine.pit)), Median(machine.pit), "done")

RateNext == TryKvmclock \/ TryLeaf15 \/ TryLeaf16 \/ FirstRollover \/ SecondRollover \/ TryPit

RateSpec == RateInit /\ [][RateNext]_rateVars

-----------------------------------------------------------------------------
Wild(q) == Cardinality({i \in DOMAIN q : q[i] \notin Right})
Good(q) == {q[i] : i \in {j \in DOMAIN q : q[j] \in Right}}

\* The rate is plausible whatever the sources say; whatever two estimates from kvmclock,
\* or two PIT windows, say, the rate taken from them is as good as a right one
\* (metal_overrides.c:73-215).
RateIsSound ==
  /\ Plausible(rate.hz)
  /\ rate.by = "kvmclock" /\ Wild(Estimates(machine)) <= 2 =>
       \E g \in Good(Estimates(machine)) : Agree(g, rate.hz)
  /\ rate.by = "pit" /\ Wild(machine.pit) <= 2 =>
       \E g, h \in Good(machine.pit) : g <= rate.hz /\ rate.hz <= h
================================================================================
