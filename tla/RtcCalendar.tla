----------------------------- MODULE RtcCalendar -----------------------------
(***************************************************************************)
(* Dates and epochs: the calendar half of source/rtc.c, on the calendar of  *)
(* the RTC and the HAL functions that read it.                              *)
(*                                                                         *)
(* The hardware counts seconds, minutes, hours, days, weekdays, months and  *)
(* years.  Programs see a copy of the counters, in BCD, in the registers TR *)
(* and DR.  Reading TR freezes the copy until DR is read, so that time and  *)
(* date belong together.  RtcGetEpoch reads them with two calls; nothing    *)
(* keeps the interrupt handler from reading the clock between the two.      *)
(* Otherwise the copy is as new as the counters: how old it is after a stop *)
(* of the core is the subject of RtcApp.                                    *)
(*                                                                         *)
(* Days are short here (SecondsPerDay): what can go wrong goes wrong where  *)
(* days, months and years end.                                             *)
(*                                                                         *)
(* A definition Name_Slip is no part of the model: it is Name with a slip   *)
(* a programmer could make, for which the properties are seen to fail.      *)
(***************************************************************************)
EXTENDS Integers, FiniteSets

CONSTANTS
  HoursPerDay, MinutesPerHour, SecondsPerMinute,   \* 24, 60, 60
  LastYear,       \* bound on the clock, a year of the century
  MaxStall        \* bound on the seconds that pass while a task is in RtcGetEpoch

ASSUME CalendarAssumption ==
  /\ {HoursPerDay, MinutesPerHour, SecondsPerMinute} \subseteq 1 .. 60
  /\ LastYear \in 21 .. 99 /\ MaxStall \in Nat

Contexts == {"task", "isr"}

VARIABLES
  time, date,     \* the counters of the RTC
  tr, dr,         \* the registers TR and DR
  frozen,         \* TR and DR keep their values until DR is read
  pc,             \* each context: "idle", or "date" between GetTime and GetDate
  timeRead,       \* what HAL_RTC_GetTime has returned to a context that is in RtcGetEpoch
  began,          \* history: the calendar when the call of a context began
  stall,          \* history: the seconds that have passed in that call
  disturbed       \* history: the handler has read the clock within the task's call

calendar == <<time, date>>
registers == <<tr, dr, frozen>>
history == <<began, stall, disturbed>>
vars == <<calendar, registers, pc, timeRead, history>>

-----------------------------------------------------------------------------
(* The calendar *)

ByteToBcd2_NotShifted(n) == (n \div 10) * 10 + (n % 10)

ByteToBcd2(n) == (n \div 10) * 16 + (n % 10)

Bcd2ToByte(n) == (n \div 16) * 10 + (n % 16)

InBcd(fields) == [f \in DOMAIN fields |-> ByteToBcd2(fields[f])]
FromBcd(fields) == [f \in DOMAIN fields |-> Bcd2ToByte(fields[f])]

DaysInMonth(m, y) ==
  CASE m = 2 -> IF y % 4 = 0 THEN 29 ELSE 28
    [] m \in {4, 6, 9, 11} -> 30
    [] OTHER -> 31

MinuteEnds == time.seconds = SecondsPerMinute - 1
HourEnds   == MinuteEnds /\ time.minutes = MinutesPerHour - 1
DayEnds    == HourEnds /\ time.hours = HoursPerDay - 1
MonthEnds  == DayEnds /\ date.day = DaysInMonth(date.month, date.year)
YearEnds   == MonthEnds /\ date.month = 12

\* A counter that starts again at first when it has reached its end.
Count(n, counts, ends, first) == IF ~counts THEN n ELSE IF ends THEN first ELSE n + 1

TimeAfter ==
  [hours   |-> Count(time.hours, HourEnds, DayEnds, 0),
   minutes |-> Count(time.minutes, MinuteEnds, HourEnds, 0),
   seconds |-> Count(time.seconds, TRUE, MinuteEnds, 0)]

DateAfter ==
  [year    |-> Count(date.year, YearEnds, date.year = 99, 0),
   month   |-> Count(date.month, MonthEnds, YearEnds, 1),
   day     |-> Count(date.day, DayEnds, MonthEnds, 1),
   weekday |-> Count(date.weekday, DayEnds, date.weekday = 7, 1)]

-----------------------------------------------------------------------------
(* mktime and localtime of the C library, from 1970 to 2099, without zones *)

SecondsPerDay == HoursPerDay * MinutesPerHour * SecondsPerMinute

\* The days of a common year before each of its months, and in all of it.
MonthStart == <<0, 31, 59, 90, 120, 151, 181, 212, 243, 273, 304, 334, 365>>

DayOfYear(m, y) == MonthStart[m] + IF y % 4 = 0 /\ m > 2 THEN 1 ELSE 0

\* The days from 1 January 1970 to a date, tm_year counting from 1900, tm_mon from 0.
DaysBefore(tm) ==
  365 * (tm.year - 70) + (tm.year - 69) \div 4 + DayOfYear(tm.mon + 1, tm.year) + tm.mday - 1

Mktime(tm) ==
  ((DaysBefore(tm) * HoursPerDay + tm.hour) * MinutesPerHour + tm.min) * SecondsPerMinute + tm.sec

\* 731 days more, and the count starts with a leap year, 1968.
Localtime(epoch) ==
  LET days   == epoch \div SecondsPerDay
      inTurn == (days + 731) % 1461
      past   == IF inTurn < 366 THEN 0 ELSE (inTurn - 1) \div 365
      inYear == inTurn - 365 * past - (IF past = 0 THEN 0 ELSE 1)
      month  == CHOOSE m \in 1 .. 12 : DayOfYear(m, past) <= inYear /\ inYear < DayOfYear(m + 1, past)
  IN  [year |-> 68 + 4 * ((days + 731) \div 1461) + past,
       mon  |-> month - 1,
       mday |-> inYear - DayOfYear(month, past) + 1,
       wday |-> (days + 4) % 7,
       hour |-> (epoch \div (MinutesPerHour * SecondsPerMinute)) % HoursPerDay,
       min  |-> (epoch \div SecondsPerMinute) % MinutesPerHour,
       sec  |-> epoch % SecondsPerMinute]

-----------------------------------------------------------------------------
(* The conversions of rtc.c *)

ToTm_MonthAsItIs(d, t) ==
  [year |-> d.year + 100, mon |-> d.month, mday |-> d.day,
   hour |-> t.hours, min |-> t.minutes, sec |-> t.seconds]

\* The struct tm of RtcGetEpoch.
ToTm(d, t) ==
  [year |-> d.year + 100, mon |-> d.month - 1, mday |-> d.day,
   hour |-> t.hours, min |-> t.minutes, sec |-> t.seconds]

Epoch(d, t) == Mktime(ToTm(d, t))

WeekDay_AsItIs(wday) == wday

WeekDay(wday) == IF wday = 0 THEN 7 ELSE wday

RtcConvertEpochToDatetime(epoch) ==
  LET tm == Localtime(epoch)
  IN  [date |-> [year |-> tm.year - 100, month |-> tm.mon + 1, day |-> tm.mday, weekday |-> WeekDay(tm.wday)],
       time |-> [hours |-> tm.hour, minutes |-> tm.min, seconds |-> tm.sec]]

AlarmStamp_ByWeekDay(epoch) ==
  LET at == RtcConvertEpochToDatetime(epoch)
  IN  [day |-> ByteToBcd2(at.date.weekday), time |-> InBcd(at.time)]

\* What RtcSetAlarmFromEpoch has written to ALRMAR: the day of the month and the time.
AlarmStamp(epoch) ==
  LET at == RtcConvertEpochToDatetime(epoch)
  IN  [day |-> ByteToBcd2(at.date.day), time |-> InBcd(at.time)]

-----------------------------------------------------------------------------
(* Reading the clock *)

\* RtcInit sets the calendar to Wednesday, 24 February 2021, 11:00.
StartTime == [hours |-> 11 % HoursPerDay, minutes |-> 0, seconds |-> 0]
StartDate == [year |-> 21, month |-> 2, day |-> 24, weekday |-> 3]
Start == [date |-> StartDate, time |-> StartTime]

Now == [date |-> date, time |-> time]

Init ==
  /\ time = StartTime /\ date = StartDate
  /\ tr = InBcd(StartTime) /\ dr = InBcd(StartDate) /\ frozen = FALSE
  /\ pc = [c \in Contexts |-> "idle"]
  /\ timeRead = [c \in Contexts |-> StartTime]
  /\ began = [c \in Contexts |-> Start]
  /\ stall = [c \in Contexts |-> 0]
  /\ disturbed = FALSE

Second ==
  /\ ~(YearEnds /\ date.year = LastYear)
  /\ \A c \in Contexts : pc[c] = "date" => stall[c] < MaxStall
  /\ time' = TimeAfter /\ date' = DateAfter
  /\ IF frozen THEN UNCHANGED <<tr, dr>> ELSE tr' = InBcd(TimeAfter) /\ dr' = InBcd(DateAfter)
  /\ stall' = [c \in Contexts |-> IF pc[c] = "date" THEN stall[c] + 1 ELSE 0]
  /\ UNCHANGED <<frozen, pc, timeRead, began, disturbed>>

\* The handler runs to completion.
MayRun(c) == c = "task" => pc["isr"] = "idle"

\* RtcGetEpoch is called: HAL_RTC_GetTime reads SSR, which freezes the copy, and TR.
GetTime(c) ==
  /\ pc[c] = "idle" /\ MayRun(c)
  /\ frozen' = TRUE
  /\ timeRead' = [timeRead EXCEPT ![c] = FromBcd(tr)]
  /\ pc' = [pc EXCEPT ![c] = "date"]
  /\ began' = [began EXCEPT ![c] = Now]
  /\ disturbed' = IF c = "isr" THEN disturbed \/ pc["task"] = "date" ELSE FALSE
  /\ UNCHANGED <<calendar, tr, dr, stall>>

\* The result of RtcGetEpoch if HAL_RTC_GetDate reads DR now.
EpochRead(c) == Epoch(FromBcd(dr), timeRead[c])

Returned(c) ==
  /\ pc' = [pc EXCEPT ![c] = "idle"]
  /\ timeRead' = [timeRead EXCEPT ![c] = StartTime]
  /\ began' = [began EXCEPT ![c] = Start]
  /\ stall' = [stall EXCEPT ![c] = 0]
  /\ disturbed' = IF c = "task" THEN FALSE ELSE disturbed
  /\ UNCHANGED calendar

GetDate_Omitted(c) ==
  /\ pc[c] = "date" /\ MayRun(c)
  /\ Returned(c)
  /\ UNCHANGED registers

\* HAL_RTC_GetDate reads DR, which ends the freeze, and RtcGetEpoch returns.
GetDate(c) ==
  /\ pc[c] = "date" /\ MayRun(c)
  /\ Returned(c)
  /\ frozen' = FALSE
  /\ tr' = InBcd(time) /\ dr' = InBcd(date)

RtcGetEpoch(c) == GetTime(c) \/ GetDate(c)

Next == Second \/ \E c \in Contexts : RtcGetEpoch(c)

Spec == Init /\ [][Next]_vars

-----------------------------------------------------------------------------
(* Properties *)

\* Every counter stays in its range, every date exists, and the registers hold
\* decimal digits.
Digits(fields) == \A f \in DOMAIN fields : fields[f] % 16 <= 9 /\ fields[f] \div 16 <= 9

Times == [hours : 0 .. (HoursPerDay - 1), minutes : 0 .. (MinutesPerHour - 1), seconds : 0 .. (SecondsPerMinute - 1)]
Dates == {d \in [year : 0 .. 99, month : 1 .. 12, day : 1 .. 31, weekday : 1 .. 7] :
            d.day <= DaysInMonth(d.month, d.year)}

TypeOK ==
  /\ time \in Times /\ date \in Dates
  /\ Digits(tr) /\ Digits(dr)
  /\ frozen \in BOOLEAN /\ disturbed \in BOOLEAN
  /\ pc \in [Contexts -> {"idle", "date"}]
  /\ stall \in [Contexts -> 0 .. MaxStall]

EpochOf(moment) == Epoch(moment.date, moment.time)

\* The difference of two epochs is the number of seconds between them, across
\* the ends of days, months, leap years and years: what SchedulerProcess makes
\* of two calls of RtcGetEpoch (rtc.c:94-102, scheduler.c:91).
EpochAdvances == [][Second => EpochOf(Now') = EpochOf(Now) + 1]_vars

\* RtcConvertEpochToDatetime is the inverse of RtcGetEpoch, the weekday included,
\* so that the alarm for the epoch n seconds ahead is set for the date and time
\* the calendar shows then (rtc.c:130-139).
ConvertInverts == RtcConvertEpochToDatetime(EpochOf(Now)) = Now

\* The shortest month has 28 days.
DaysAhead == 1 .. 28

\* An alarm for any moment up to 28 days ahead does not match before, although
\* ALRMAR holds no month (rtc.c:160): at one time of the day, no two of the next
\* 28 days have the same alarm.
AlarmsAreApart ==
  DayEnds /\ pc["task"] = "idle" /\ pc["isr"] = "idle" =>
    Cardinality({AlarmStamp(EpochOf(Now) + n * SecondsPerDay) : n \in DaysAhead}) = Cardinality(DaysAhead)

\* RtcGetEpoch returns the moment of its call, though seconds, or midnight, may
\* pass before it comes to read DR (rtc.c:91-92).  No task of the demo reads the
\* clock while the alarm is on.  If one does and the alarm interrupt reads the
\* clock between its two reads, the handler is given the moment of the task's call,
\* and the task, at worst, the time of its call with the date of its return.
ReadsAreMoments ==
  \A c \in Contexts : pc[c] = "date" /\ MayRun(c) =>
    \/ EpochRead(c) = EpochOf(began[c])
    \/ disturbed /\ c = "isr" /\ EpochRead(c) = EpochOf(began["task"])
    \/ disturbed /\ c = "task" /\ EpochRead(c) = Epoch(date, began[c].time)
=============================================================================
