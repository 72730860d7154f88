------------------------------ MODULE AbsTime ------------------------------
(***************************************************************************)
(* strToAbsTime() of timeStamp.cpp: the times and periods of the command   *)
(* line.  A time is a number of milliseconds, as fine as SYSTEMTIME; a day,*)
(* an hour, a minute and a second may be given any length.                 *)
(***************************************************************************)
EXTENDS Integers, Sequences

CONSTANTS HoursPerDay, MinsPerHour, SecsPerMin, MsPerSec,
          LastDay       \* of the month

ASSUME ClockAssumption ==
    {HoursPerDay, MinsPerHour, SecsPerMin, MsPerSec, LastDay} \subseteq Nat \ {0}

SecsPerHour == SecsPerMin * MinsPerHour
SecsPerDay  == SecsPerHour * HoursPerDay

(* What the clock may show: the days of the month are counted from one.    *)
Clock == (SecsPerDay * MsPerSec)..((LastDay + 1) * SecsPerDay * MsPerSec - 1)

(* SYSTEMTIME and back.  A conversion fails on a field out of its range,   *)
(* and the result is then what the memory held: no time.                   *)
NoTime == -1

Seconds(t) == t \div MsPerSec

ToSysTime(t) ==
    LET s == Seconds(t)
    IN  [wDay    |-> s \div SecsPerDay,
         wHour   |-> (s \div SecsPerHour) % HoursPerDay,
         wMinute |-> (s \div SecsPerMin) % MinsPerHour,
         wSecond |-> s % SecsPerMin,
         wMilliseconds |-> t % MsPerSec]

WholeSeconds(st) ==
    st.wDay * SecsPerDay + st.wHour * SecsPerHour + st.wMinute * SecsPerMin + st.wSecond

FromSysTime(st) ==
    IF /\ st.wDay <= LastDay /\ st.wHour < HoursPerDay /\ st.wMinute < MinsPerHour
       /\ st.wSecond < SecsPerMin /\ st.wMilliseconds < MsPerSec
    THEN WholeSeconds(st) * MsPerSec + st.wMilliseconds
    ELSE NoTime

(* The hours, minutes and seconds of up to four fields, the last ones      *)
(* being the seconds; -1 for what is not given.  Days count as hours.      *)
Given(fields) ==
    LET n == Len(fields)
    IN  [secs |-> IF n = 0 THEN 0 ELSE fields[n],
         mins |-> IF n < 2 THEN -1 ELSE fields[n - 1],
         hrs  |-> IF n < 3 THEN -1
                  ELSE IF n = 3 THEN fields[1] ELSE fields[1] * HoursPerDay + fields[2]]

OrZero(n) == IF n < 0 THEN 0 ELSE n

Offset(fields) ==
    LET g == Given(fields)
    IN  g.secs + OrZero(g.mins) * SecsPerMin + OrZero(g.hrs) * SecsPerHour

Later(now, given) == IF now > given THEN 1 ELSE 0

(* A field behind the clock takes one more of the next larger unit; the    *)
(* smaller fields are set after the larger ones.                           *)
HourSet(st, g) ==
    IF g.hrs < 0 THEN st
    ELSE [st EXCEPT !.wDay = @ + Later(st.wHour, g.hrs), !.wHour = g.hrs]

MinuteSet(st, g) ==
    IF g.mins < 0 THEN st
    ELSE [st EXCEPT !.wHour = @ + Later(st.wMinute, g.mins), !.wMinute = g.mins]

SecondSetSame(st, g) ==   \* mutant: no later minute
    [st EXCEPT !.wSecond = g.secs, !.wMilliseconds = 0]
SecondSet(st, g) ==
    [st EXCEPT !.wMinute = @ + Later(st.wSecond, g.secs), !.wSecond = g.secs,
               !.wMilliseconds = 0]

(* An offset with a + or for a period; else the time of the clock.         *)
StrToAbsTime(plus, fields, start) ==
    LET g == Given(fields)
    IN  IF plus \/ start = 0 THEN start + Offset(fields) * MsPerSec
        ELSE FromSysTime(SecondSet(MinuteSet(HourSet(ToSysTime(start), g), g), g))
=============================================================================
