------------------------------- MODULE ClockPage -------------------------------
(***************************************************************************)
(* A snapshot of the kvmclock page (KC_SNAP in metal_time_init,            *)
(* boot/metal_overrides.c) against KVM, which writes the page: the reader  *)
(* takes the version, the two fields and the version again, and starts     *)
(* over unless the version is even and has not moved.                      *)
(***************************************************************************)
EXTENDS Integers

CONSTANT MaxUpdates  \* bound: updates of the page

ASSUME UpdatesAssumption == MaxUpdates \in Nat

VARIABLES page,  \* the page: version, tsc_timestamp and system_time
          reader \* the guest: where it is and what it has read

snapVars == <<page, reader>>

\* The two values of one update carry its number.
SnapInit == /\ page = [version |-> 0, tsc |-> 0, sys |-> 0]
            /\ reader = [at |-> "v1", v1 |-> 0, tsc |-> 0, sys |-> 0]

\* KVM makes the version odd, writes, and makes it even again.
HostBegins == /\ page.version % 2 = 0 /\ page.version < 2 * MaxUpdates
              /\ page' = [page EXCEPT !.version = @ + 1]
              /\ UNCHANGED reader
HostWrites == /\ page.version % 2 = 1
              /\ \E field \in {"tsc", "sys"} :
                   /\ page[field] < (page.version + 1) \div 2
                   /\ page' = [page EXCEPT ![field] = (page.version + 1) \div 2]
              /\ UNCHANGED reader
HostEnds == /\ page.version % 2 = 1 /\ page.tsc = page.sys
            /\ page.tsc = (page.version + 1) \div 2
            /\ page' = [page EXCEPT !.version = @ + 1]
            /\ UNCHANGED reader

ReadVersion ==
  /\ reader.at = "v1"
  /\ reader' = [reader EXCEPT !.at = "tsc", !.v1 = page.version]
  /\ UNCHANGED page
ReadTsc ==
  /\ reader.at = "tsc"
  /\ reader' = [reader EXCEPT !.at = "sys", !.tsc = page.tsc]
  /\ UNCHANGED page
ReadSys ==
  /\ reader.at = "sys"
  /\ reader' = [reader EXCEPT !.at = "v2", !.sys = page.sys]
  /\ UNCHANGED page

\* Mutant: an odd version is taken, too.
Compare_Odd ==
  /\ reader.at = "v2"
  /\ reader' = [reader EXCEPT !.at = IF reader.v1 = page.version THEN "done" ELSE "v1"]
  /\ UNCHANGED page

\* The version once more: the snapshot is taken, or begins again.
Compare ==
  /\ reader.at = "v2"
  /\ reader' = [reader EXCEPT !.at = IF reader.v1 % 2 = 0 /\ reader.v1 = page.version
                                     THEN "done" ELSE "v1"]
  /\ UNCHANGED page

SnapNext == \/ HostBegins \/ HostWrites \/ HostEnds
            \/ ReadVersion \/ ReadTsc \/ ReadSys \/ Compare

SnapSpec == SnapInit /\ [][SnapNext]_snapVars

\* A snapshot is the pair of one update, however often KVM writes in between
\* (metal_overrides.c:94-104).
SnapshotWhole == reader.at = "done" => reader.tsc = reader.sys
================================================================================
