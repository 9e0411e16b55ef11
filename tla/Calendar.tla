------------------------------- MODULE Calendar -------------------------------
(***************************************************************************)
(* The proleptic Gregorian calendar of stubs/syscall_shim.c: gmtime_r and  *)
(* mktime.  The quotient of C goes towards zero, and the era of a date     *)
(* must not.  A caller asks for the date of a time, and of the same second *)
(* of the days after it.                                                   *)
(***************************************************************************)
EXTENDS Integers

CONSTANTS DaySeconds, \* 86400 in the code
          Times       \* the times that gmtime may be asked for, bounded in the runs

ASSUME TimesAssumption == DaySeconds \in Nat \ {0} /\ Times \subseteq Int

VARIABLES time, \* what gmtime was asked for last
          date  \* what it answered

calVars == <<time, date>>

\* Division of C, towards zero.
Quotient(a, b) == IF a >= 0 THEN a \div b ELSE -((-a) \div b)
Remainder(a, b) == a - b * Quotient(a, b)

\* A year begins in March, an era of 400 years in a year that 400 divides.
DaysFromCivil(year, m, d) ==
  LET y   == IF m <= 2 THEN year - 1 ELSE year
      era == Quotient(IF y >= 0 THEN y ELSE y - 399, 400)
      yoe == y - era * 400
      doy == (153 * (IF m > 2 THEN m - 3 ELSE m + 9) + 2) \div 5 + d - 1
  IN era * 146097 + yoe * 365 + yoe \div 4 - yoe \div 100 + doy - 719468

\* Mutant: the last day of an era is taken for the first of the next year.
YearOfEra_NoLast(doe) == (doe - doe \div 1460 + doe \div 36524) \div 365

YearOfEra(doe) == (doe - doe \div 1460 + doe \div 36524 - doe \div 146096) \div 365

\* Year, month, day and second of the day.  The day of the week and of the year, which
\* neither mktime nor strftime reads, are left out.
Date(y, m, d, sod) == [year |-> y, mon |-> m, mday |-> d, sod |-> sod]

CivilToTm(days, sod) ==
  LET z   == days + 719468
      era == Quotient(IF z >= 0 THEN z ELSE z - 146096, 146097)
      doe == z - era * 146097
      yoe == YearOfEra(doe)
      doy == doe - (365 * yoe + yoe \div 4 - yoe \div 100)
      mp  == (5 * doy + 2) \div 153
      m   == IF mp < 10 THEN mp + 3 ELSE mp - 9
  IN Date(yoe + era * 400 + (IF m <= 2 THEN 1 ELSE 0), m,
          doy - (153 * mp + 2) \div 5 + 1, sod)

gmtime(t) ==
  LET days == Quotient(t, DaySeconds)
      sod == Remainder(t, DaySeconds)
  IN IF sod < 0 THEN CivilToTm(days - 1, sod + DaySeconds) ELSE CivilToTm(days, sod)

mktime(tm) == DaysFromCivil(tm.year, tm.mon, tm.mday) * DaySeconds + tm.sod

CalInit == time \in Times /\ date = gmtime(time)

NextDay == /\ time + DaySeconds \in Times
           /\ time' = time + DaySeconds /\ date' = gmtime(time + DaySeconds)

CalSpec == CalInit /\ [][NextDay]_calVars

-----------------------------------------------------------------------------
Leap(y) == y % 4 = 0 /\ (y % 100 # 0 \/ y % 400 = 0)
MonthDays(y, m) == IF m = 2 THEN (IF Leap(y) THEN 29 ELSE 28)
                   ELSE IF m \in {4, 6, 9, 11} THEN 30 ELSE 31

Tomorrow(tm) ==
  IF tm.mday < MonthDays(tm.year, tm.mon) THEN Date(tm.year, tm.mon, tm.mday + 1, tm.sod)
  ELSE IF tm.mon < 12 THEN Date(tm.year, tm.mon + 1, 1, tm.sod)
  ELSE Date(tm.year + 1, 1, 1, tm.sod)

MktimeUndoes == mktime(date) = time

\* mktime undoes gmtime, before 1970 and before the year 0 too, on each day and on the next,
\* and the next day's date is the next one of the calendar, across leap days, centuries
\* and eras (syscall_shim.c:465-504).
CalendarKept == [][date' = Tomorrow(date) /\ MktimeUndoes /\ MktimeUndoes']_calVars
================================================================================
