------------------------------ MODULE Calendar ------------------------------
(***************************************************************************)
(* The calendar of lib/libc_time.c: seconds to a broken-down time by the   *)
(* 400-year eras that start on 1 March, back by adding up years and        *)
(* months, and the parser of numeric dates.  time_t is an unsigned 32-bit  *)
(* number of seconds (sys/types.h), here the pair of a day and the second  *)
(* in it.  It is never negative, so that the branches of localtime_r for   *)
(* times before 1970 are not taken; \div and % round down as those         *)
(* branches do.                                                            *)
(*                                                                         *)
(* A definition named D_suffix in front of D is D with a plausible bug.    *)
(***************************************************************************)
EXTENDS Numbers

(* 2^32 seconds, and the conversion of any number of days and seconds to   *)
(* time_t.                                                                 *)
Modulus == [day |-> 49710, sec |-> 23296]

Normal(d, s) == [day |-> d + s \div 86400, sec |-> s % 86400]

Before(t, u) == t.day < u.day \/ (t.day = u.day /\ t.sec < u.sec)

time_t(d, s) ==
  LET t == Normal(d, s) IN
  IF t.day < 0 THEN Normal(t.day + Modulus.day, t.sec + Modulus.sec)
  ELSE IF Before(t, Modulus) THEN t
  ELSE Normal(t.day - Modulus.day, t.sec - Modulus.sec)

wday(d) == (d + 4) % 7

(* The year of the era, of a day of the era. *)
yoe_NoCentury(doe) == (doe - doe \div 1460) \div 365
yoe(doe) == (doe - doe \div 1460 + doe \div 36524 - doe \div 146096) \div 365

localtime_r(t) ==
  LET z   == t.day + 719468
      era == z \div 146097
      doe == z - era * 146097
      y   == yoe(doe)
      doy == doe - (365 * y + y \div 4 - y \div 100)
      mp  == (5 * doy + 2) \div 153
      month == IF mp < 10 THEN mp + 3 ELSE mp - 9
  IN  [sec  |-> t.sec % 60, min |-> (t.sec % 3600) \div 60, hour |-> t.sec \div 3600,
       mday |-> doy - (153 * mp + 2) \div 5 + 1,
       mon  |-> month - 1,
       year |-> y + era * 400 + (IF month <= 2 THEN 1 ELSE 0) - 1900,
       wday |-> wday(t.day),
       yday |-> doy]

is_leap(year) == year % 4 = 0 /\ (year % 100 # 0 \/ year % 400 = 0)

days_in_month == <<31, 28, 31, 30, 31, 30, 31, 31, 30, 31, 30, 31>>

Leaps(from, to) == Cardinality({y \in from .. to : is_leap(y)})

MonthDays(year, month) == days_in_month[month + 1] + (IF month = 1 /\ is_leap(year) THEN 1 ELSE 0)

(* tm_mon is at most 12: with more the code reads behind its table. *)
mktime(tm) ==
  LET year == tm.year + 1900
      years == IF year >= 1970 THEN 365 * (year - 1970) + Leaps(1970, year - 1)
               ELSE - (365 * (1970 - year) + Leaps(year, 1969))
      d == years + MapThenSumSet(LAMBDA m : MonthDays(year, m), 0 .. tm.mon - 1) + tm.mday - 1
  IN  [tm |-> [tm EXCEPT !.wday = wday(d)],
       t |-> time_t(d, tm.hour * 3600 + tm.min * 60 + tm.sec)]

-----------------------------------------------------------------------------
(* strptime.  %F and %T stand for the formats the code calls itself with.  *)
Expanded(fmt) ==
  FlattenSeq([i \in 1 .. Len(fmt) |->
    CASE fmt[i] = "%F" -> <<"%Y", "-", "%m", "-", "%d">>
      [] fmt[i] = "%T" -> <<"%H", ":", "%M", ":", "%S">>
      [] OTHER -> <<fmt[i]>>])

parse_decimal(s, i, min, max) ==
  LET k == DigitsEnd(s, i, 10, max)
  IN  [ok |-> k - i >= min, end |-> k, v |-> Value(s, i, k, 10)]

Field(s, st, f) ==
  LET number == parse_decimal(s, st.pos, IF f = "%Y" THEN 4 ELSE 1, IF f = "%Y" THEN 4 ELSE 2)
      Set(tm) == IF number.ok THEN [st EXCEPT !.pos = number.end, !.tm = tm]
                 ELSE [st EXCEPT !.ok = FALSE]
  IN  CASE f = " "  -> [st EXCEPT !.pos = Skip(s, @)]
        [] f = "%Y" -> Set([st.tm EXCEPT !.year = number.v - 1900])
        [] f = "%m" -> Set([st.tm EXCEPT !.mon = number.v - 1])
        [] f \in {"%d", "%e"} -> Set([st.tm EXCEPT !.mday = number.v])
        [] f = "%H" -> Set([st.tm EXCEPT !.hour = number.v])
        [] f = "%M" -> Set([st.tm EXCEPT !.min = number.v])
        [] f = "%S" -> Set([st.tm EXCEPT !.sec = number.v])
        [] OTHER -> IF At(s, st.pos) = f THEN [st EXCEPT !.pos = @ + 1] ELSE [st EXCEPT !.ok = FALSE]

strptime(s, fmt, tm) ==
  FoldLeft(LAMBDA st, f : IF st.ok THEN Field(s, st, f) ELSE st,
           [pos |-> 0, tm |-> tm, ok |-> TRUE], Expanded(fmt))
=============================================================================
