-------------------------- MODULE RtcCalendarProofs --------------------------
(***************************************************************************)
(* What RtcGetEpoch returns, for days of any length and for calls that are *)
(* kept waiting for any time.                                              *)
(***************************************************************************)
EXTENDS RtcCalendar, FiniteSetTheorems, TLAPS

Moments == [date : Dates, time : Times]

-----------------------------------------------------------------------------
(* The inductive invariant *)

CounterTypes == time \in Times /\ date \in Dates /\ date.year <= LastYear

CallTypes ==
  /\ frozen \in BOOLEAN /\ disturbed \in BOOLEAN
  /\ pc \in [Contexts -> {"idle", "date"}]
  /\ timeRead \in [Contexts -> Times]
  /\ began \in [Contexts -> Moments]

\* TR and DR show this moment.
Show(moment) == tr = InBcd(moment.time) /\ dr = InBcd(moment.date)

\* A copy that is not frozen is up to date; a frozen one belongs to a call.
Copy == IF frozen THEN \E c \in Contexts : pc[c] = "date" ELSE Show(Now)

\* The handler finds the copy frozen by itself or, when it has disturbed the
\* task, by the task.
HandlerCall ==
  pc["isr"] = "date" =>
    /\ frozen
    /\ \/ Show(began["isr"]) /\ timeRead["isr"] = began["isr"].time
       \/ disturbed /\ Show(began["task"]) /\ timeRead["isr"] = began["task"].time

\* The task has its own time; the copy has been its own, until disturbed.
TaskCall ==
  pc["task"] = "date" =>
    /\ timeRead["task"] = began["task"].time
    /\ pc["isr"] = "date" => disturbed
    /\ pc["isr"] = "idle" => IF frozen THEN Show(began["task"]) ELSE disturbed

CalendarInv == CounterTypes /\ CallTypes /\ Copy /\ HandlerCall /\ TaskCall

-----------------------------------------------------------------------------
(* Facts about the conversions *)

\* Two digits survive the way into a register and back (RTC_ByteToBcd2 and
\* RTC_Bcd2ToByte of the HAL).
LEMMA BcdByte == \A n \in 0 .. 99 : Bcd2ToByte(ByteToBcd2(n)) = n
  BY DEF Bcd2ToByte, ByteToBcd2

LEMMA BcdTime == ASSUME NEW t \in Times PROVE FromBcd(InBcd(t)) = t
  BY BcdByte, CalendarAssumption DEF FromBcd, InBcd, Times

LEMMA BcdDate == ASSUME NEW d \in Dates PROVE FromBcd(InBcd(d)) = d
  BY BcdByte DEF FromBcd, InBcd, Dates

-----------------------------------------------------------------------------
(* The calendar stays a calendar *)

LEMMA StartIsAMoment == StartTime \in Times /\ StartDate \in Dates
  BY CalendarAssumption DEF StartTime, StartDate, Times, Dates, DaysInMonth

LEMMA TimeKeeps == ASSUME CounterTypes PROVE TimeAfter \in Times
<1> USE CalendarAssumption DEF CounterTypes, Times
<1>1. Count(time.hours, HourEnds, DayEnds, 0) \in 0 .. (HoursPerDay - 1)
  BY DEF Count, DayEnds
<1>2. Count(time.minutes, MinuteEnds, HourEnds, 0) \in 0 .. (MinutesPerHour - 1)
  BY DEF Count, HourEnds
<1>3. Count(time.seconds, TRUE, MinuteEnds, 0) \in 0 .. (SecondsPerMinute - 1)
  BY DEF Count, MinuteEnds
<1> QED BY <1>1, <1>2, <1>3 DEF TimeAfter

\* The day of the month never passes the end of the month it is in, leap years
\* and the change of the year included.
LEMMA DateKeeps == ASSUME CounterTypes PROVE DateAfter \in Dates
<1> USE DEF CounterTypes, Dates
<1>1. Count(date.year, YearEnds, date.year = 99, 0) \in 0 .. 99
  BY DEF Count
<1>2. Count(date.month, MonthEnds, YearEnds, 1) \in 1 .. 12
  BY DEF Count, YearEnds
<1>3. Count(date.weekday, DayEnds, date.weekday = 7, 1) \in 1 .. 7
  BY DEF Count
<1>4. Count(date.day, DayEnds, MonthEnds, 1) \in 1 .. 31
  BY DEF Count, MonthEnds, DaysInMonth
<1>5. DateAfter.day <= DaysInMonth(DateAfter.month, DateAfter.year)
  BY DEF DateAfter, Count, MonthEnds, YearEnds, DaysInMonth
<1> QED BY <1>1, <1>2, <1>3, <1>4, <1>5 DEF DateAfter

\* One day more for mktime when the calendar goes to the next day.
\* The conversion of RtcGetEpoch and the count of mktime in one line.
LEMMA DaysOfDate ==
  ASSUME NEW c, c.year \in 0 .. 99, c.month \in 1 .. 12, c.day \in 1 .. 31, NEW t
  PROVE  DaysBefore(ToTm(c, t)) =
           365 * (c.year + 30) + (c.year + 31) \div 4 + DayOfYear(c.month, c.year + 100) + c.day - 1
<1> DEFINE tm == ToTm(c, t)
<1>1. tm.year = c.year + 100 /\ tm.mon = c.month - 1 /\ tm.mday = c.day
  BY DEF ToTm
<1>2. tm.year - 70 = c.year + 30 /\ tm.year - 69 = c.year + 31 /\ tm.mon + 1 = c.month
  BY <1>1
<1> QED BY <1>1, <1>2, Zenon DEF DaysBefore

LEMMA DaysAdvance ==
  ASSUME CounterTypes, DayEnds, ~(YearEnds /\ date.year = 99)
  PROVE  DaysBefore(ToTm(DateAfter, TimeAfter)) = DaysBefore(ToTm(date, time)) + 1
<1> DEFINE y == date.year
           m == date.month
           d == date.day
<1>1. y \in 0 .. 99 /\ m \in 1 .. 12 /\ d \in 1 .. 31
  BY DEF CounterTypes, Dates
<1>2. DaysBefore(ToTm(date, time)) = 365 * (y + 30) + (y + 31) \div 4 + DayOfYear(m, y + 100) + d - 1
  BY <1>1, DaysOfDate
<1>3. DateAfter.year \in 0 .. 99 /\ DateAfter.month \in 1 .. 12 /\ DateAfter.day \in 1 .. 31
  BY DateKeeps DEF Dates
<1>4. DaysBefore(ToTm(DateAfter, TimeAfter)) =
        365 * (DateAfter.year + 30) + (DateAfter.year + 31) \div 4
          + DayOfYear(DateAfter.month, DateAfter.year + 100) + DateAfter.day - 1
  BY <1>3, DaysOfDate
<1>5. \A n \in 1 .. 12 : DayOfYear(n, y + 100) \in Int
  BY <1>1 DEF DayOfYear, MonthStart
<1>6. CASE ~MonthEnds
  <2>1. DateAfter.day = d + 1 /\ DateAfter.month = m /\ DateAfter.year = y
    BY <1>6 DEF DateAfter, Count, YearEnds
  <2>2. DayOfYear(DateAfter.month, DateAfter.year + 100) = DayOfYear(m, y + 100)
    BY <2>1, Zenon
  <2>3. DateAfter.year + 30 = y + 30 /\ (DateAfter.year + 31) \div 4 = (y + 31) \div 4
    BY <2>1
  <2>4. DayOfYear(m, y + 100) \in Int
    BY <1>1, <1>5
  <2> QED BY <1>1, <1>2, <1>4, <2>1, <2>2, <2>3, <2>4
<1>7. CASE MonthEnds /\ ~YearEnds
  <2>1. DateAfter.day = 1 /\ DateAfter.month = m + 1 /\ DateAfter.year = y /\ m \in 1 .. 11 /\ d = DaysInMonth(m, y)
    BY <1>1, <1>7 DEF DateAfter, Count, YearEnds, MonthEnds
  <2>2. (y + 100) % 4 = y % 4
    BY <1>1
  <2>3. DayOfYear(m + 1, y + 100) = DayOfYear(m, y + 100) + d
    BY <1>1, <2>1, <2>2 DEF DayOfYear, MonthStart, DaysInMonth
  <2>4. DayOfYear(DateAfter.month, DateAfter.year + 100) = DayOfYear(m + 1, y + 100)
    BY <2>1, Zenon
  <2>5. DateAfter.year + 30 = y + 30 /\ (DateAfter.year + 31) \div 4 = (y + 31) \div 4
    BY <2>1
  <2>6. DayOfYear(m, y + 100) \in Int
    BY <1>1, <1>5
  <2> QED BY <1>1, <1>2, <1>4, <2>1, <2>3, <2>4, <2>5, <2>6
<1>8. CASE YearEnds
  <2>1. DateAfter.day = 1 /\ DateAfter.month = 1 /\ DateAfter.year = y + 1 /\ m = 12 /\ d = 31 /\ y < 99
    BY <1>1, <1>8 DEF DateAfter, Count, YearEnds, MonthEnds, DaysInMonth
  <2> QED BY <1>1, <1>2, <1>4, <2>1 DEF DayOfYear, MonthStart
<1> QED BY <1>6, <1>7, <1>8 DEF YearEnds

\* A counter that starts again carries one into the next.
LEMMA Carry == \A n, b \in Int : (n + 1) * b = n * b + b
  OBVIOUS

LEMMA EpochOfParts ==
  ASSUME NEW c, NEW t
  PROVE  Epoch(c, t) =
           ((DaysBefore(ToTm(c, t)) * HoursPerDay + t.hours) * MinutesPerHour + t.minutes) * SecondsPerMinute + t.seconds
<1>1. ToTm(c, t).hour = t.hours /\ ToTm(c, t).min = t.minutes /\ ToTm(c, t).sec = t.seconds
  BY DEF ToTm
<1> QED BY <1>1, Zenon DEF Epoch, Mktime

LEMMA EpochStep ==
  ASSUME CounterTypes, ~(YearEnds /\ date.year = LastYear)
  PROVE  Epoch(DateAfter, TimeAfter) = Epoch(date, time) + 1
<1> DEFINE D  == DaysBefore(ToTm(date, time))
           DA == DaysBefore(ToTm(DateAfter, TimeAfter))
           h  == time.hours
           m  == time.minutes
           s  == time.seconds
           hours   == D * HoursPerDay + h
           minutes == hours * MinutesPerHour + m
<1>1. /\ HoursPerDay \in Nat /\ MinutesPerHour \in Nat /\ SecondsPerMinute \in Nat
      /\ h \in Int /\ m \in Int /\ s \in Int
  BY CalendarAssumption DEF CounterTypes, Times
<1>0. date.year \in 0 .. 99 /\ date.month \in 1 .. 12 /\ date.day \in 1 .. 31
  BY DEF CounterTypes, Dates
<1>2. D \in Int
  <2>1. DayOfYear(date.month, date.year + 100) \in Int
    BY <1>0 DEF DayOfYear, MonthStart
  <2>2. D = 365 * (date.year + 30) + (date.year + 31) \div 4 + DayOfYear(date.month, date.year + 100) + date.day - 1
    BY <1>0, DaysOfDate
  <2> HIDE DEF D
  <2> QED BY <1>0, <2>1, <2>2
<1>3. hours \in Int /\ minutes \in Int
  BY <1>1, <1>2
<1>4. Epoch(date, time) = minutes * SecondsPerMinute + s
  BY EpochOfParts
<1>5. Epoch(DateAfter, TimeAfter) =
        ((DA * HoursPerDay + TimeAfter.hours) * MinutesPerHour + TimeAfter.minutes) * SecondsPerMinute + TimeAfter.seconds
  BY EpochOfParts
<1>6. ~DayEnds => DateAfter = date
  BY DEF CounterTypes, Dates, DateAfter, Count, MonthEnds, YearEnds
<1>7. ~DayEnds => DA = D
  <2>1. \A t : DaysBefore(ToTm(date, t)) = 365 * (date.year + 30) + (date.year + 31) \div 4
                                             + DayOfYear(date.month, date.year + 100) + date.day - 1
    BY <1>0, DaysOfDate
  <2>2. DaysBefore(ToTm(date, TimeAfter)) = D
    BY <2>1, Zenon
  <2> QED BY <1>6, <2>2, Zenon
<1>8. CASE ~MinuteEnds
  <2>1. TimeAfter.seconds = s + 1 /\ TimeAfter.minutes = m /\ TimeAfter.hours = h /\ ~DayEnds
    BY <1>8 DEF TimeAfter, Count, HourEnds, DayEnds
  <2>2. Epoch(DateAfter, TimeAfter) = minutes * SecondsPerMinute + (s + 1)
    BY <1>5, <1>7, <2>1, Zenon
  <2>3. minutes * SecondsPerMinute \in Int
    BY <1>1, <1>3
  <2> HIDE DEF minutes
  <2> QED BY <1>1, <1>4, <2>2, <2>3
<1>9. CASE MinuteEnds /\ ~HourEnds
  <2>1. TimeAfter.seconds = 0 /\ TimeAfter.minutes = m + 1 /\ TimeAfter.hours = h /\ ~DayEnds /\ s = SecondsPerMinute - 1
    BY <1>9 DEF TimeAfter, Count, MinuteEnds, DayEnds
  <2>2. Epoch(DateAfter, TimeAfter) = (hours * MinutesPerHour + (m + 1)) * SecondsPerMinute + 0
    BY <1>5, <1>7, <2>1, Zenon
  <2>3. hours * MinutesPerHour + (m + 1) = minutes + 1
    BY <1>1, <1>3
  <2>4. (minutes + 1) * SecondsPerMinute = minutes * SecondsPerMinute + SecondsPerMinute
    BY <1>1, <1>3, Carry
  <2>5. minutes * SecondsPerMinute \in Int
    BY <1>1, <1>3
  <2> HIDE DEF minutes
  <2> QED BY <1>1, <1>3, <1>4, <2>1, <2>2, <2>3, <2>4, <2>5
<1>10. CASE HourEnds
  <2>1. TimeAfter.seconds = 0 /\ TimeAfter.minutes = 0 /\ s = SecondsPerMinute - 1 /\ m = MinutesPerHour - 1
    BY <1>10 DEF TimeAfter, Count, MinuteEnds, HourEnds
  <2>2. DA * HoursPerDay + TimeAfter.hours = hours + 1
    <3>1. CASE ~DayEnds
      <4>1. TimeAfter.hours = h + 1
        BY <1>10, <3>1 DEF TimeAfter, Count
      <4>2. DA * HoursPerDay = D * HoursPerDay /\ D * HoursPerDay \in Int
        BY <1>1, <1>2, <1>7, <3>1
      <4> HIDE DEF D, DA
      <4> QED BY <1>1, <4>1, <4>2
    <3>2. CASE DayEnds
      <4>1. TimeAfter.hours = 0 /\ h = HoursPerDay - 1
        BY <3>2 DEF TimeAfter, Count, DayEnds
      <4>2. DA = D + 1
        <5>1. ~(YearEnds /\ date.year = 99)
          BY CalendarAssumption DEF CounterTypes, Dates
        <5> QED BY <3>2, <5>1, DaysAdvance
      <4>3. DA * HoursPerDay = D * HoursPerDay + HoursPerDay /\ D * HoursPerDay \in Int
        BY <1>1, <1>2, <4>2, Carry
      <4> HIDE DEF D, DA
      <4> QED BY <1>1, <4>1, <4>3
    <3> QED BY <3>1, <3>2
  <2>3. Epoch(DateAfter, TimeAfter) = ((hours + 1) * MinutesPerHour + 0) * SecondsPerMinute + 0
    BY <1>5, <2>1, <2>2, Zenon
  <2>4. (hours + 1) * MinutesPerHour + 0 = minutes + 1
    <3>1. (hours + 1) * MinutesPerHour = hours * MinutesPerHour + MinutesPerHour /\ hours * MinutesPerHour \in Int
      BY <1>1, <1>3, Carry
    <3> HIDE DEF hours
    <3> QED BY <1>1, <2>1, <3>1
  <2>5. (minutes + 1) * SecondsPerMinute = minutes * SecondsPerMinute + SecondsPerMinute
    BY <1>1, <1>3, Carry
  <2>6. minutes * SecondsPerMinute \in Int
    BY <1>1, <1>3
  <2> HIDE DEF minutes
  <2> QED BY <1>1, <1>3, <1>4, <2>1, <2>3, <2>4, <2>5, <2>6
<1> QED BY <1>8, <1>9, <1>10 DEF HourEnds

-----------------------------------------------------------------------------
(* The steps *)

LEMMA CalendarInit == Init => CalendarInv
<1> SUFFICES ASSUME Init PROVE CalendarInv
  OBVIOUS
<1>1. CounterTypes
  BY StartIsAMoment, CalendarAssumption DEF Init, CounterTypes, StartDate
<1>2. CallTypes
  BY StartIsAMoment DEF Init, CallTypes, Start, Moments
<1>3. Copy
  BY DEF Init, Copy, Show, Now
<1>4. HandlerCall /\ TaskCall
  BY DEF Init, HandlerCall, TaskCall, Contexts
<1> QED BY <1>1, <1>2, <1>3, <1>4 DEF CalendarInv

LEMMA SecondKeeps == ASSUME CalendarInv, Second PROVE CalendarInv'
<1> USE DEF CalendarInv
<1>1. CounterTypes'
  <2>1. DateAfter.year <= LastYear
    BY CalendarAssumption DEF Second, CounterTypes, Dates, DateAfter, Count
  <2> QED BY <2>1, TimeKeeps, DateKeeps DEF Second, CounterTypes
<1>2. CallTypes'
  BY DEF Second, CallTypes
<1>3. Copy'
  BY DEF Second, Copy, Show, Now
<1>4. HandlerCall' /\ TaskCall'
  BY DEF Second, HandlerCall, TaskCall, Show
<1> QED BY <1>1, <1>2, <1>3, <1>4

\* The call of the handler begins: it freezes the copy, or finds it frozen by the
\* task, whom it then disturbs.
LEMMA HandlerReadsTime == ASSUME CalendarInv, GetTime("isr") PROVE CalendarInv'
<1> USE DEF CalendarInv, Contexts
<1>1. CounterTypes'
  BY DEF GetTime, CounterTypes, calendar
<1>2. pc["isr"] = "idle"
  BY DEF GetTime
<1>3. FromBcd(tr) = IF frozen THEN began["task"].time ELSE time
  <2>1. CASE frozen
    <3>1. pc["task"] = "date" /\ Show(began["task"])
      BY <1>2, <2>1 DEF Copy, TaskCall, CallTypes
    <3> QED BY <3>1, <2>1, BcdTime DEF Show, CallTypes, Moments
  <2>2. CASE ~frozen
    BY <2>2, BcdTime DEF Copy, Show, Now, CounterTypes
  <2> QED BY <2>1, <2>2
<1>4. CallTypes'
  <2>1. FromBcd(tr) \in Times /\ Now \in Moments
    BY <1>3 DEF CallTypes, CounterTypes, Moments, Now
  <2>2. disturbed' \in BOOLEAN
    BY DEF GetTime, CallTypes
  <2> QED BY <2>1, <2>2 DEF GetTime, CallTypes
<1>5. Copy'
  BY DEF GetTime, Copy, CallTypes
<1>6. HandlerCall'
  BY <1>2, <1>3 DEF GetTime, HandlerCall, Copy, TaskCall, CallTypes, Show, Now
<1>7. TaskCall'
  BY <1>2 DEF GetTime, TaskCall, CallTypes
<1> QED BY <1>1, <1>4, <1>5, <1>6, <1>7

LEMMA TaskReadsTime == ASSUME CalendarInv, GetTime("task") PROVE CalendarInv'
<1> USE DEF CalendarInv, Contexts
<1>1. CounterTypes'
  BY DEF GetTime, CounterTypes, calendar
<1>2. pc["isr"] = "idle" /\ pc["task"] = "idle" /\ ~frozen
  BY DEF GetTime, MayRun, Copy, CallTypes
<1>3. FromBcd(tr) = time /\ Show(Now)
  BY <1>2, BcdTime DEF Copy, Show, Now, CounterTypes
<1>4. CallTypes'
  BY <1>3 DEF GetTime, CallTypes, CounterTypes, Moments, Now
<1>5. Copy'
  BY DEF GetTime, Copy, CallTypes
<1>6. HandlerCall' /\ TaskCall'
  BY <1>2, <1>3 DEF GetTime, HandlerCall, TaskCall, CallTypes, Show, Now
<1> QED BY <1>1, <1>4, <1>5, <1>6

LEMMA DateIsRead == ASSUME CalendarInv, NEW c \in Contexts, GetDate(c) PROVE CalendarInv'
<1> USE DEF CalendarInv, Contexts
<1>1. CounterTypes'
  BY DEF GetDate, Returned, CounterTypes, calendar
<1>2. CallTypes'
  <2>1. StartTime \in Times /\ Start \in Moments
    BY StartIsAMoment DEF Start, Moments
  <2>2. disturbed' \in BOOLEAN
    BY DEF GetDate, Returned, CallTypes
  <2> QED BY <2>1, <2>2 DEF GetDate, Returned, CallTypes
<1>3. Copy'
  BY DEF GetDate, Returned, Copy, Show, Now, calendar
<1>4. ~frozen' /\ pc'[c] = "idle" /\ pc["isr"] \in {"idle", "date"} /\ pc["task"] \in {"idle", "date"}
  BY DEF GetDate, Returned, CallTypes
<1>5. CASE c = "isr"
  <2>1. pc'["isr"] = "idle" /\ pc'["task"] = pc["task"]
    BY <1>4, <1>5 DEF GetDate, Returned, CallTypes
  <2>2. pc["task"] = "date" => disturbed' /\ timeRead'["task"] = began'["task"].time
    BY <1>5 DEF GetDate, Returned, TaskCall, CallTypes
  <2> QED BY <1>1, <1>2, <1>3, <1>4, <2>1, <2>2 DEF HandlerCall, TaskCall
<1>6. CASE c = "task"
  <2>1. pc'["task"] = "idle" /\ pc'["isr"] = "idle"
    BY <1>4, <1>6 DEF GetDate, Returned, MayRun, CallTypes
  <2> QED BY <1>1, <1>2, <1>3, <2>1 DEF HandlerCall, TaskCall
<1> QED BY <1>5, <1>6

LEMMA CalendarStep == CalendarInv /\ [Next]_vars => CalendarInv'
<1> SUFFICES ASSUME CalendarInv, [Next]_vars PROVE CalendarInv'
  OBVIOUS
<1>1. CASE Second
  BY <1>1, SecondKeeps
<1>2. ASSUME NEW c \in Contexts, RtcGetEpoch(c) PROVE CalendarInv'
  BY <1>2, HandlerReadsTime, TaskReadsTime, DateIsRead DEF RtcGetEpoch, Contexts
<1>3. CASE UNCHANGED vars
  BY <1>3 DEF vars, calendar, registers, history, CalendarInv, CounterTypes, CallTypes, Copy,
              HandlerCall, TaskCall, Show, Now
<1> QED BY <1>1, <1>2, <1>3 DEF Next

\* What a call of RtcGetEpoch returns when it reads DR is the moment the call
\* began, or one of the two the property allows a call that is disturbed.
LEMMA InvReads == CalendarInv => ReadsAreMoments
<1> SUFFICES ASSUME CalendarInv, NEW c \in Contexts, pc[c] = "date", MayRun(c)
             PROVE  \/ EpochRead(c) = EpochOf(began[c])
                    \/ disturbed /\ c = "isr" /\ EpochRead(c) = EpochOf(began["task"])
                    \/ disturbed /\ c = "task" /\ EpochRead(c) = Epoch(date, began[c].time)
  BY DEF ReadsAreMoments
<1> USE DEF CalendarInv, EpochRead, EpochOf, Contexts
<1>1. \A b \in Contexts : began[b].date \in Dates
  BY DEF CallTypes, Moments
<1>2. CASE c = "isr"
  BY <1>1, <1>2, BcdDate DEF HandlerCall, Show
<1>3. CASE c = "task"
  <2>1. pc["isr"] = "idle" /\ timeRead["task"] = began["task"].time
    BY <1>3 DEF MayRun, TaskCall
  <2>2. CASE frozen
    BY <1>1, <1>3, <2>1, <2>2, BcdDate DEF TaskCall, Show
  <2>3. CASE ~frozen
    <3>1. disturbed /\ FromBcd(dr) = date
      BY <1>3, <2>1, <2>3, BcdDate DEF TaskCall, Copy, Show, Now, CounterTypes
    <3> QED BY <1>3, <2>1, <3>1
  <2> QED BY <2>2, <2>3
<1> QED BY <1>2, <1>3

\* RtcGetEpoch is right for a caller nobody disturbs, whatever passes between its
\* two reads; and what the alarm interrupt can do to a task is bounded.
THEOREM ReadsAreRight == Spec => []ReadsAreMoments
<1> QED BY InvReads, CalendarInit, CalendarStep, PTL DEF Spec

\* The epoch of RtcGetEpoch counts seconds, through every midnight and every 29
\* February, for hours, minutes and seconds as long as the real ones.
THEOREM EpochCounts == Spec => EpochAdvances
<1>1. CalendarInv /\ [Next]_vars => [Second => EpochOf(Now') = EpochOf(Now) + 1]_vars
  <2> SUFFICES ASSUME CalendarInv, Second PROVE EpochOf(Now') = EpochOf(Now) + 1
    BY Zenon
  <2>1. Now.date = date /\ Now.time = time /\ Now'.date = DateAfter /\ Now'.time = TimeAfter
    BY DEF Now, Second
  <2>2. Epoch(DateAfter, TimeAfter) = Epoch(date, time) + 1
    BY EpochStep DEF CalendarInv, Second
  <2> QED BY <2>1, <2>2, Zenon DEF EpochOf
<1> QED BY <1>1, CalendarInit, CalendarStep, PTL DEF Spec, EpochAdvances

-----------------------------------------------------------------------------
(* Types *)

\* TR and DR always show some time and some date, if not those of now.
RegistersShow == (\E t \in Times : tr = InBcd(t)) /\ (\E d \in Dates : dr = InBcd(d))

StallBounded == stall \in [Contexts -> 0 .. MaxStall]

LEMMA BcdDigits == \A n \in 0 .. 99 : ByteToBcd2(n) % 16 <= 9 /\ ByteToBcd2(n) \div 16 <= 9
  BY DEF ByteToBcd2

LEMMA TimeDigits == ASSUME NEW t \in Times PROVE Digits(InBcd(t))
  BY BcdDigits, CalendarAssumption DEF Digits, InBcd, Times

LEMMA DateDigits == ASSUME NEW d \in Dates PROVE Digits(InBcd(d))
  BY BcdDigits DEF Digits, InBcd, Dates

LEMMA RegistersInit == Init => RegistersShow /\ StallBounded
  BY StartIsAMoment, CalendarAssumption DEF Init, RegistersShow, StallBounded

LEMMA RegistersStep ==
  ASSUME CalendarInv, RegistersShow, StallBounded, [Next]_vars
  PROVE  RegistersShow' /\ StallBounded'
<1> USE DEF CalendarInv
<1>1. CASE Second
  <2>1. RegistersShow'
    BY <1>1, TimeKeeps, DateKeeps DEF Second, RegistersShow
  <2>2. StallBounded'
    BY <1>1, CalendarAssumption DEF Second, StallBounded
  <2> QED BY <2>1, <2>2
<1>2. ASSUME NEW c \in Contexts, GetTime(c) PROVE RegistersShow' /\ StallBounded'
  BY <1>2 DEF GetTime, RegistersShow, StallBounded
<1>3. ASSUME NEW c \in Contexts, GetDate(c) PROVE RegistersShow' /\ StallBounded'
  <2>1. RegistersShow'
    BY <1>3 DEF GetDate, RegistersShow, CounterTypes
  <2>2. StallBounded'
    BY <1>3, CalendarAssumption DEF GetDate, Returned, StallBounded
  <2> QED BY <2>1, <2>2
<1>4. CASE UNCHANGED vars
  BY <1>4 DEF vars, registers, history, RegistersShow, StallBounded
<1> QED BY <1>1, <1>2, <1>3, <1>4 DEF Next, RtcGetEpoch

\* The counters are a date and a time at every second, the registers hold decimal
\* digits whoever has frozen them, and no call takes longer than it may.
THEOREM CalendarTypes == Spec => []TypeOK
<1>1. CalendarInv /\ RegistersShow /\ StallBounded => TypeOK
  BY TimeDigits, DateDigits DEF CalendarInv, CounterTypes, CallTypes, RegistersShow, StallBounded, TypeOK
<1>2. CalendarInv /\ RegistersShow /\ StallBounded /\ [Next]_vars => (RegistersShow /\ StallBounded)'
  BY RegistersStep
<1> QED BY <1>1, <1>2, CalendarInit, CalendarStep, RegistersInit, PTL DEF Spec

-----------------------------------------------------------------------------
(* Back from an epoch to the date and the time *)

\* The quotient and the remainder of a number written with both.
LEMMA Division ==
  ASSUME NEW a \in Int, NEW b \in Nat \ {0}, NEW r \in 0 .. (b - 1)
  PROVE  (a * b + r) \div b = a /\ (a * b + r) % b = r
<1> DEFINE q == (a * b + r) \div b
           e == (a * b + r) % b
<1>1. a * b \in Int
  OBVIOUS
<1>2. q \in Int /\ e \in 0 .. (b - 1) /\ a * b + r = b * q + e
  BY <1>1
<1> HIDE DEF q, e
<1>3. CASE a - q >= 1
  <2>1. b * (a - q) >= b
    BY <1>2, <1>3
  <2>2. b * (a - q) = a * b - b * q
    BY <1>2
  <2> QED BY <1>1, <1>2, <2>1, <2>2
<1>4. CASE a - q <= -1
  <2>1. b * (a - q) <= -b
    BY <1>2, <1>4
  <2>2. b * (a - q) = a * b - b * q
    BY <1>2
  <2> QED BY <1>1, <1>2, <2>1, <2>2
<1>5. CASE a = q
  <2>1. b * q = a * b
    BY <1>2, <1>5
  <2>2. e = r
    BY <1>1, <1>2, <2>1
  <2> QED BY <1>5, <2>2 DEF q, e
<1> QED BY <1>2, <1>3, <1>4, <1>5

\* A smaller unit below a larger one.
LEMMA Smaller ==
  ASSUME NEW a \in Nat, NEW b \in Nat, NEW m \in 0 .. (a - 1), NEW s \in 0 .. (b - 1)
  PROVE  m * b + s \in 0 .. (a * b - 1)
<1>1. m * b \in Nat /\ a * b \in Nat
  OBVIOUS
<1>2. (m + 1) * b <= a * b
  OBVIOUS
<1>3. (m + 1) * b = m * b + b
  OBVIOUS
<1> QED BY <1>1, <1>2, <1>3

\* The seconds of an epoch fall into days, hours and minutes as mktime has put
\* them together.
LEMMA EpochParts ==
  ASSUME NEW D \in Int, NEW t \in Times, NEW e,
         e = ((D * HoursPerDay + t.hours) * MinutesPerHour + t.minutes) * SecondsPerMinute + t.seconds
  PROVE  /\ e \div SecondsPerDay = D
         /\ (e \div (MinutesPerHour * SecondsPerMinute)) % HoursPerDay = t.hours
         /\ (e \div SecondsPerMinute) % MinutesPerHour = t.minutes
         /\ e % SecondsPerMinute = t.seconds
<1> DEFINE H == HoursPerDay
           M == MinutesPerHour
           S == SecondsPerMinute
           h == t.hours
           m == t.minutes
           s == t.seconds
           hours   == D * H + h
           minutes == hours * M + m
<1>1. /\ H \in Nat \ {0} /\ M \in Nat \ {0} /\ S \in Nat \ {0}
      /\ h \in 0 .. (H - 1) /\ m \in 0 .. (M - 1) /\ s \in 0 .. (S - 1)
  BY CalendarAssumption DEF Times
<1>2. e = minutes * S + s
  OBVIOUS
<1> HIDE DEF H, M, S, h, m, s
<1>3. hours \in Int /\ minutes \in Int
  BY <1>1
<1>4. e \div S = minutes /\ e % S = s
  <2> HIDE DEF minutes
  <2>1. (minutes * S + s) \div S = minutes /\ (minutes * S + s) % S = s
    BY <1>1, <1>3, Division
  <2> QED BY <1>2, <2>1, Zenon
<1>5. minutes % M = m
  <2> HIDE DEF hours
  <2> QED BY <1>1, <1>3, Division
<1>6. e \div (M * S) = hours
  <2>1. m * S + s \in 0 .. (M * S - 1) /\ M * S \in Nat \ {0}
    BY <1>1, Smaller
  <2>2. e = hours * (M * S) + (m * S + s)
    <3>1. e = (hours * M + m) * S + s
      BY <1>2
    <3>2. (hours * M + m) * S = (hours * M) * S + m * S
      BY <1>1, <1>3
    <3>3. (hours * M) * S = hours * (M * S)
      BY <1>1, <1>3
    <3>4. hours * (M * S) \in Int /\ m * S \in Int
      BY <1>1, <1>3
    <3> QED BY <1>1, <3>1, <3>2, <3>3, <3>4
  <2> QED BY <1>3, <2>1, <2>2, Division
<1>7. hours % H = h
  BY <1>1, Division
<1>8. e \div SecondsPerDay = D
  <2> DEFINE P == M * S
             l == m * S + s
  <2>1. l \in 0 .. (P - 1) /\ P \in Nat \ {0}
    BY <1>1, Smaller
  <2>2. e = hours * P + l
    <3>1. e = (hours * M + m) * S + s
      BY <1>2
    <3>2. (hours * M + m) * S = (hours * M) * S + m * S
      BY <1>1, <1>3
    <3>3. (hours * M) * S = hours * (M * S)
      BY <1>1, <1>3
    <3>4. hours * (M * S) \in Int /\ m * S \in Int
      BY <1>1, <1>3
    <3> QED BY <1>1, <3>1, <3>2, <3>3, <3>4
  <2>3. SecondsPerDay = H * P
    BY <1>1 DEF SecondsPerDay, H, M, S
  <2> HIDE DEF P, l
  <2>4. h * P + l \in 0 .. (H * P - 1) /\ H * P \in Nat \ {0}
    BY <1>1, <2>1, Smaller
  <2>5. e = D * (H * P) + (h * P + l)
    <3>1. e = (D * H + h) * P + l
      BY <2>2
    <3>2. (D * H + h) * P = (D * H) * P + h * P
      BY <1>1, <2>1
    <3>3. (D * H) * P = D * (H * P)
      BY <1>1, <2>1
    <3>4. D * (H * P) \in Int /\ h * P \in Int
      BY <1>1, <2>1
    <3> QED BY <1>1, <2>1, <3>1, <3>2, <3>3, <3>4
  <2> QED BY <2>3, <2>4, <2>5, Division
<1> QED BY <1>4, <1>5, <1>6, <1>7, <1>8 DEF H, M, S, h, m, s

\* The years of the turn of four that begins with a leap year: the days before
\* one of them, and the day of the year, come back from their sum.
LEMMA TurnOfYears ==
  ASSUME NEW q \in Int, NEW p \in 0 .. 3, NEW n \in Nat, n <= (IF p = 0 THEN 365 ELSE 364),
         NEW days \in Int, days + 731 = 1461 * q + 365 * p + (IF p = 0 THEN 0 ELSE 1) + n
  PROVE  LET inTurn == (days + 731) % 1461
             past   == IF inTurn < 366 THEN 0 ELSE (inTurn - 1) \div 365
         IN  /\ (days + 731) \div 1461 = q
             /\ past = p
             /\ inTurn - 365 * past - (IF past = 0 THEN 0 ELSE 1) = n
<1> DEFINE r == 365 * p + (IF p = 0 THEN 0 ELSE 1) + n
<1>1. r \in 0 .. (1461 - 1) /\ 1461 \in Nat \ {0} /\ days + 731 = q * 1461 + r
  OBVIOUS
<1>2. (q * 1461 + r) \div 1461 = q /\ (q * 1461 + r) % 1461 = r
  <2> HIDE DEF r
  <2> QED BY <1>1, Division
<1>3. (days + 731) \div 1461 = q /\ (days + 731) % 1461 = r
  <2> HIDE DEF r
  <2>1. \A a : a = q * 1461 + r => a \div 1461 = q /\ a % 1461 = r
    BY <1>2
  <2> QED BY <1>1, <2>1
<1>4. (IF r < 366 THEN 0 ELSE (r - 1) \div 365) = p
  OBVIOUS
<1>5. r - 365 * p - (IF p = 0 THEN 0 ELSE 1) = n
  OBVIOUS
<1> HIDE DEF r
<1> QED BY <1>3, <1>4, <1>5

\* A day of the year is in one month only.
LEMMA MonthOfDay ==
  ASSUME NEW p \in 0 .. 3, NEW m \in 1 .. 12, NEW n \in Nat,
         DayOfYear(m, p) <= n, n < DayOfYear(m + 1, p)
  PROVE  (CHOOSE k \in 1 .. 12 : DayOfYear(k, p) <= n /\ n < DayOfYear(k + 1, p)) = m
<1>1. \A k \in 1 .. 12 : DayOfYear(k, p) <= n /\ n < DayOfYear(k + 1, p) => k = m
  BY DEF DayOfYear, MonthStart
<1> QED BY <1>1, Zenon

\* The date localtime finds is the date mktime counted.
LEMMA LocalDate ==
  ASSUME NEW c \in Dates, NEW t, NEW epoch, epoch \div SecondsPerDay = DaysBefore(ToTm(c, t))
  PROVE  LET tm == Localtime(epoch)
         IN  /\ tm.year = c.year + 100 /\ tm.mon = c.month - 1 /\ tm.mday = c.day
             /\ tm.wday = (DaysBefore(ToTm(c, t)) + 4) % 7
<1> DEFINE y    == c.year
           m    == c.month
           days == epoch \div SecondsPerDay
           p    == y % 4
           q    == (y + 32) \div 4
           n    == DayOfYear(m, y + 100) + c.day - 1
<1>1. y \in 0 .. 99 /\ m \in 1 .. 12 /\ c.day \in 1 .. 31 /\ c.day <= DaysInMonth(m, y)
  BY DEF Dates
<1>2. p \in 0 .. 3 /\ q \in Int /\ y + 32 = 4 * q + p
  BY <1>1
<1>3. /\ \A k \in 1 .. 13 : DayOfYear(k, y + 100) = DayOfYear(k, p) /\ DayOfYear(k, p) \in 0 .. 366
      /\ DayOfYear(m, p) <= n /\ n < DayOfYear(m + 1, p)
      /\ n \in Nat /\ n <= (IF p = 0 THEN 365 ELSE 364)
  <2>1. (y + 100) % 4 = p /\ p % 4 = p
    BY <1>1
  <2>2. \A k \in 1 .. 13 : DayOfYear(k, y + 100) = DayOfYear(k, p) /\ DayOfYear(k, p) \in 0 .. 366
    BY <1>2, <2>1 DEF DayOfYear, MonthStart
  <2>3. n = DayOfYear(m, p) + c.day - 1
    <3>1. m \in 1 .. 13
      BY <1>1
    <3>2. DayOfYear(m, y + 100) = DayOfYear(m, p)
      BY <2>2, <3>1, Zenon
    <3> QED BY <3>2, Zenon DEF n
  <2>4. DayOfYear(m, p) + DaysInMonth(m, y) = DayOfYear(m + 1, p)
    BY <1>1, <2>1 DEF DayOfYear, MonthStart, DaysInMonth
  <2>5. DayOfYear(m + 1, p) <= DayOfYear(13, p) /\ DayOfYear(13, p) = (IF p = 0 THEN 366 ELSE 365)
    BY <1>1, <1>2, <2>1 DEF DayOfYear, MonthStart
  <2>6. DaysInMonth(m, y) \in Nat /\ DayOfYear(m, p) \in Nat /\ DayOfYear(m + 1, p) \in Nat
    <3>1. m \in 1 .. 13 /\ m + 1 \in 1 .. 13
      BY <1>1
    <3>2. DaysInMonth(m, y) \in Nat
      BY DEF DaysInMonth
    <3>3. \A k \in 1 .. 13 : DayOfYear(k, p) \in Nat
      BY DEF DayOfYear, MonthStart
    <3> QED BY <3>1, <3>2, <3>3, Zenon
  <2> HIDE DEF n, p
  <2>7. n \in Nat /\ DayOfYear(m, p) <= n /\ n < DayOfYear(m + 1, p)
    BY <1>1, <2>3, <2>4, <2>6
  <2>8. n <= (IF p = 0 THEN 365 ELSE 364)
    <3>1. DayOfYear(13, p) \in Nat
      BY <2>2
    <3> QED BY <2>5, <2>6, <2>7, <3>1
  <2> QED BY <2>2, <2>7, <2>8
<1>a. DayOfYear(m, y + 100) = DayOfYear(m, p) /\ DayOfYear(m, p) \in Int
  <2>1. m \in 1 .. 13
    BY <1>1
  <2>2. \A k \in 1 .. 13 : DayOfYear(k, y + 100) = DayOfYear(k, p) /\ DayOfYear(k, p) \in 0 .. 366
    BY <1>3, Zenon
  <2>3. DayOfYear(m, y + 100) = DayOfYear(m, p) /\ DayOfYear(m, p) \in 0 .. 366
    BY <2>1, <2>2, Zenon
  <2> QED BY <2>3
<1>4. days = 365 * (y + 30) + (y + 31) \div 4 + n
  <2>1. days = 365 * (y + 30) + (y + 31) \div 4 + DayOfYear(m, y + 100) + c.day - 1
    BY <1>1, DaysOfDate
  <2>2. c.day \in Int /\ DayOfYear(m, y + 100) \in Int
    BY <1>1, <1>a
  <2> HIDE DEF days
  <2> QED BY <1>1, <2>1, <2>2
<1> HIDE DEF n, days
<1>5. days \in Int /\ days + 731 = 1461 * q + 365 * p + (IF p = 0 THEN 0 ELSE 1) + n
  <2>1. (y + 31) \div 4 = IF p = 0 THEN q - 1 ELSE q
    BY <1>1
  <2> HIDE DEF p, q
  <2> QED BY <1>1, <1>2, <1>3, <1>4, <2>1
<1> HIDE DEF p, q
<1> DEFINE inTurn == (days + 731) % 1461
           past   == IF inTurn < 366 THEN 0 ELSE (inTurn - 1) \div 365
           inYear == inTurn - 365 * past - (IF past = 0 THEN 0 ELSE 1)
           month  == CHOOSE k \in 1 .. 12 : DayOfYear(k, past) <= inYear /\ inYear < DayOfYear(k + 1, past)
           tm     == Localtime(epoch)
<1>6. (days + 731) \div 1461 = q /\ past = p /\ inYear = n
  BY <1>2, <1>3, <1>5, TurnOfYears
<1>7. /\ tm.year = 68 + 4 * ((days + 731) \div 1461) + past /\ tm.mon = month - 1
      /\ tm.mday = inYear - DayOfYear(month, past) + 1 /\ tm.wday = (days + 4) % 7
  BY DEF Localtime, days
<1> HIDE DEF inTurn, past, inYear, tm
<1>8. month = m
  BY <1>1, <1>2, <1>3, <1>6, MonthOfDay
<1> HIDE DEF month
<1>9. tm.year = 68 + 4 * q + p /\ tm.mon = m - 1 /\ tm.mday = n - DayOfYear(m, p) + 1 /\ tm.wday = (days + 4) % 7
  <2> HIDE DEF m
  <2> QED BY <1>6, <1>7, <1>8
<1>10. n - DayOfYear(m, p) + 1 = c.day
  BY <1>1, <1>a DEF n
<1>11. 68 + 4 * q + p = y + 100
  BY <1>1, <1>2
<1> QED BY <1>9, <1>10, <1>11 DEF tm, days

-----------------------------------------------------------------------------
(* The weekday counts with the days *)

DayNumber(c) == 365 * (c.year + 30) + (c.year + 31) \div 4 + DayOfYear(c.month, c.year + 100) + c.day - 1

WeekDayCounts == (DayNumber(date) + 4) % 7 = date.weekday % 7

LEMMA DayNumberType == ASSUME NEW c \in Dates PROVE DayNumber(c) \in Int
<1>1. c.year \in 0 .. 99 /\ c.month \in 1 .. 12 /\ c.day \in 1 .. 31
  BY DEF Dates
<1>2. DayOfYear(c.month, c.year + 100) \in Int
  BY <1>1 DEF DayOfYear, MonthStart
<1>3. 365 * (c.year + 30) + (c.year + 31) \div 4 \in Int
  BY <1>1
<1>4. \A a, b, d \in Int : a + b + d - 1 \in Int
  OBVIOUS
<1>5. c.day \in Int
  BY <1>1
<1> QED BY <1>2, <1>3, <1>4, <1>5, Zenon DEF DayNumber

LEMMA DaysAreNumbered == ASSUME NEW c \in Dates, NEW t PROVE DaysBefore(ToTm(c, t)) = DayNumber(c)
<1>1. c.year \in 0 .. 99 /\ c.month \in 1 .. 12 /\ c.day \in 1 .. 31
  BY DEF Dates
<1> QED BY <1>1, DaysOfDate, Zenon DEF DayNumber

LEMMA WeekDayInit == Init => WeekDayCounts
<1> SUFFICES ASSUME Init PROVE WeekDayCounts
  OBVIOUS
<1>1. DayOfYear(2, 21 + 100) = 31
  BY DEF DayOfYear, MonthStart
<1> QED BY <1>1 DEF Init, StartDate, WeekDayCounts, DayNumber

LEMMA WeekDayStep == CalendarInv /\ WeekDayCounts /\ [Next]_vars => WeekDayCounts'
<1> SUFFICES ASSUME CalendarInv, WeekDayCounts, [Next]_vars PROVE WeekDayCounts'
  OBVIOUS
<1> USE DEF CalendarInv
<1>1. CASE Second
  <2>1. CounterTypes /\ date' = DateAfter /\ ~(YearEnds /\ date.year = LastYear)
    BY <1>1 DEF Second
  <2>2. CASE ~DayEnds
    <3>1. DateAfter = date
      BY <2>1, <2>2 DEF CounterTypes, Dates, DateAfter, Count, MonthEnds, YearEnds
    <3> QED BY <2>1, <3>1, Zenon DEF WeekDayCounts
  <2>3. CASE DayEnds
    <3>1. ~(YearEnds /\ date.year = 99)
      BY <2>1, CalendarAssumption DEF CounterTypes, Dates
    <3>2. date \in Dates /\ DateAfter \in Dates
      BY <2>1, DateKeeps DEF CounterTypes
    <3>3. DayNumber(DateAfter) = DayNumber(date) + 1
      <4>1. DaysBefore(ToTm(DateAfter, TimeAfter)) = DaysBefore(ToTm(date, time)) + 1
        BY <2>1, <2>3, <3>1, DaysAdvance
      <4> QED BY <3>2, <4>1, DaysAreNumbered
    <3>4. DateAfter.weekday = (IF date.weekday = 7 THEN 1 ELSE date.weekday + 1) /\ date.weekday \in 1 .. 7
      BY <2>3, <3>2 DEF DateAfter, Count, Dates
    <3>5. DayNumber(date) \in Int
      BY <3>2, DayNumberType
    <3>6. (DayNumber(DateAfter) + 4) % 7 = DateAfter.weekday % 7
      BY <3>3, <3>4, <3>5 DEF WeekDayCounts
    <3> QED BY <2>1, <3>6, Zenon DEF WeekDayCounts
  <2> QED BY <2>2, <2>3
<1>2. CASE UNCHANGED date
  BY <1>2, Zenon DEF WeekDayCounts
<1>3. Second \/ UNCHANGED date
  BY DEF Next, RtcGetEpoch, GetTime, GetDate, Returned, vars, calendar
<1> QED BY <1>1, <1>2, <1>3

\* RtcConvertEpochToDatetime gives back the calendar that RtcGetEpoch has counted
\* from, the weekday included, at every second of every year and for days of every
\* length: an alarm for an epoch is set for the moment with that epoch.
THEOREM ConversionInverts == Spec => []ConvertInverts
<1>1. CalendarInv /\ WeekDayCounts => ConvertInverts
  <2> SUFFICES ASSUME CalendarInv, WeekDayCounts PROVE RtcConvertEpochToDatetime(EpochOf(Now)) = Now
    BY DEF ConvertInverts
  <2> DEFINE e  == EpochOf(Now)
             D  == DayNumber(date)
             tm == Localtime(e)
  <2>1. date \in Dates /\ time \in Times /\ D \in Int
    BY DayNumberType DEF CalendarInv, CounterTypes
  <2>2. DaysBefore(ToTm(date, time)) = D
    BY <2>1, DaysAreNumbered
  <2>3. e = ((D * HoursPerDay + time.hours) * MinutesPerHour + time.minutes) * SecondsPerMinute + time.seconds
    BY <2>2, EpochOfParts, Zenon DEF EpochOf, Now
  <2> HIDE DEF e, D
  <2>4. /\ e \div SecondsPerDay = D
        /\ (e \div (MinutesPerHour * SecondsPerMinute)) % HoursPerDay = time.hours
        /\ (e \div SecondsPerMinute) % MinutesPerHour = time.minutes
        /\ e % SecondsPerMinute = time.seconds
    BY <2>1, <2>3, EpochParts
  <2>5. tm.hour = time.hours /\ tm.min = time.minutes /\ tm.sec = time.seconds
    BY <2>4 DEF Localtime
  <2>6. /\ tm.year = date.year + 100 /\ tm.mon = date.month - 1 /\ tm.mday = date.day
        /\ tm.wday = (D + 4) % 7
    BY <2>1, <2>2, <2>4, LocalDate
  <2> HIDE DEF tm
  <2>7. WeekDay(tm.wday) = date.weekday
    <3>1. date.weekday \in 1 .. 7 /\ tm.wday = date.weekday % 7
      BY <2>1, <2>6 DEF WeekDayCounts, D, Dates
    <3> QED BY <3>1 DEF WeekDay
  <2>8. tm.year - 100 = date.year /\ tm.mon + 1 = date.month
    BY <2>1, <2>6 DEF Dates
  <2>9. RtcConvertEpochToDatetime(e) =
          [date |-> [year |-> date.year, month |-> date.month, day |-> date.day, weekday |-> date.weekday],
           time |-> [hours |-> time.hours, minutes |-> time.minutes, seconds |-> time.seconds]]
    BY <2>5, <2>6, <2>7, <2>8, Zenon DEF RtcConvertEpochToDatetime, tm
  <2>10. /\ date = [year |-> date.year, month |-> date.month, day |-> date.day, weekday |-> date.weekday]
         /\ time = [hours |-> time.hours, minutes |-> time.minutes, seconds |-> time.seconds]
    BY <2>1 DEF Dates, Times
  <2> QED BY <2>9, <2>10, Zenon DEF Now, e
<1> QED BY <1>1, CalendarInit, CalendarStep, WeekDayInit, WeekDayStep, PTL DEF Spec

-----------------------------------------------------------------------------
(* Alarms of the next 28 days *)

\* The first day of a month, counted in the turn of four years.
MonthBegins(p, m) == 365 * p + (IF p = 0 THEN 0 ELSE 1) + DayOfYear(m, p)

\* No month is shorter than 28 days, the last of a year and of a turn included.
LEMMA MonthsAreLong ==
  /\ \A p \in 0 .. 3, m \in 1 .. 12 : MonthBegins(p, m) \in Nat /\ MonthBegins(p, m) <= 1430
  /\ \A p \in 0 .. 3, m, k \in 1 .. 12 : k < m => MonthBegins(p, k) + 28 <= MonthBegins(p, m)
  /\ \A p, o \in 0 .. 3, m, k \in 1 .. 12 : o < p => MonthBegins(o, k) + 28 <= MonthBegins(p, m)
<1>1. ASSUME NEW p \in 0 .. 3, NEW m \in 1 .. 12, NEW k \in 1 .. 12, k < m
      PROVE  MonthBegins(p, k) + 28 <= MonthBegins(p, m)
  <2>1. DayOfYear(k, p) + 28 <= DayOfYear(m, p) /\ DayOfYear(k, p) \in Int /\ DayOfYear(m, p) \in Int
    BY <1>1 DEF DayOfYear, MonthStart
  <2> QED BY <2>1 DEF MonthBegins
<1>2. ASSUME NEW p \in 0 .. 3, NEW o \in 0 .. 3, NEW m \in 1 .. 12, NEW k \in 1 .. 12, o < p
      PROVE  MonthBegins(o, k) + 28 <= MonthBegins(p, m)
  <2>1. DayOfYear(k, o) \in 0 .. (IF o = 0 THEN 335 ELSE 334) /\ DayOfYear(m, p) \in Nat
    BY DEF DayOfYear, MonthStart
  <2> QED BY <1>2, <2>1 DEF MonthBegins
<1>3. ASSUME NEW p \in 0 .. 3, NEW m \in 1 .. 12
      PROVE  MonthBegins(p, m) \in Nat /\ MonthBegins(p, m) <= 1430
  <2>1. DayOfYear(m, p) \in 0 .. (IF p = 0 THEN 335 ELSE 334)
    BY DEF DayOfYear, MonthStart
  <2> QED BY <2>1 DEF MonthBegins
<1> QED BY <1>1, <1>2, <1>3

\* Every day of a year is in a month.
LEMMA DayHasMonth ==
  ASSUME NEW p \in 0 .. 3, NEW n \in 0 .. (IF p = 0 THEN 365 ELSE 364)
  PROVE  \E m \in 1 .. 12 : DayOfYear(m, p) <= n /\ n < DayOfYear(m + 1, p)
<1> SUFFICES ASSUME \A m \in 1 .. 12 : ~(DayOfYear(m, p) <= n /\ n < DayOfYear(m + 1, p)) PROVE FALSE
  OBVIOUS
<1> DEFINE from(m) == DayOfYear(m, p)
<1>1. /\ n < from(2) \/ from(2) <= n
      /\ \A m \in 1 .. 12 : from(m) <= n => from(m + 1) <= n
  BY DEF DayOfYear, MonthStart
<1>2. from(1) <= n /\ ~(from(13) <= n)
  BY DEF DayOfYear, MonthStart
<1> HIDE DEF from
<1>3. from(2) <= n /\ from(3) <= n /\ from(4) <= n
  BY <1>1, <1>2
<1>4. from(5) <= n /\ from(6) <= n /\ from(7) <= n
  BY <1>1, <1>3
<1>5. from(8) <= n /\ from(9) <= n /\ from(10) <= n
  BY <1>1, <1>4
<1>6. from(11) <= n /\ from(12) <= n /\ from(13) <= n
  BY <1>1, <1>5
<1> QED BY <1>2, <1>6

\* localtime splits every day count into a turn, a year of it, a month of that
\* and a day of the month.
LEMMA LocalMonth ==
  ASSUME NEW epoch, epoch \div SecondsPerDay \in Int
  PROVE  \E q \in Int, p \in 0 .. 3, m \in 1 .. 12 :
           /\ epoch \div SecondsPerDay + 731 = 1461 * q + MonthBegins(p, m) + Localtime(epoch).mday - 1
           /\ Localtime(epoch).mday \in 1 .. 31
<1> DEFINE days   == epoch \div SecondsPerDay
           inTurn == (days + 731) % 1461
           past   == IF inTurn < 366 THEN 0 ELSE (inTurn - 1) \div 365
           inYear == inTurn - 365 * past - (IF past = 0 THEN 0 ELSE 1)
           month  == CHOOSE k \in 1 .. 12 : DayOfYear(k, past) <= inYear /\ inYear < DayOfYear(k + 1, past)
           q      == (days + 731) \div 1461
           mday   == Localtime(epoch).mday
<1>1. mday = inYear - DayOfYear(month, past) + 1
  BY DEF Localtime
<1> HIDE DEF days, mday
<1>2. days \in Int
  BY DEF days
<1>3. q \in Int /\ inTurn \in 0 .. 1460 /\ days + 731 = 1461 * q + inTurn
  BY <1>2
<1> HIDE DEF inTurn, q
<1>4. past \in 0 .. 3 /\ inYear \in 0 .. (IF past = 0 THEN 365 ELSE 364)
  BY <1>3
<1>5. inTurn = 365 * past + (IF past = 0 THEN 0 ELSE 1) + inYear
  <2>1. past \in Int /\ inYear \in Int /\ inTurn \in Int
    BY <1>3, <1>4
  <2> QED BY <2>1
<1> HIDE DEF past, inYear
<1>6. month \in 1 .. 12 /\ DayOfYear(month, past) <= inYear /\ inYear < DayOfYear(month + 1, past)
  <2>1. \E k \in 1 .. 12 : DayOfYear(k, past) <= inYear /\ inYear < DayOfYear(k + 1, past)
    BY <1>4, DayHasMonth
  <2> QED BY <2>1, Zenon
<1> HIDE DEF month
<1>7. DayOfYear(month, past) \in Int /\ DayOfYear(month + 1, past) - DayOfYear(month, past) <= 31
  BY <1>4, <1>6 DEF DayOfYear, MonthStart
<1>8. DayOfYear(month + 1, past) \in Int
  BY <1>4, <1>6 DEF DayOfYear, MonthStart
<1>9. mday \in 1 .. 31
  BY <1>1, <1>4, <1>6, <1>7, <1>8
<1>10. days + 731 = 1461 * q + MonthBegins(past, month) + mday - 1
  BY <1>1, <1>3, <1>4, <1>5, <1>7 DEF MonthBegins
<1> QED BY <1>3, <1>4, <1>6, <1>9, <1>10 DEF days, mday

\* Two days less than four weeks apart have different days of the month.
LEMMA DaysOfMonthDiffer ==
  ASSUME NEW a, NEW b, a \div SecondsPerDay \in Int, b \div SecondsPerDay \in Int,
         a \div SecondsPerDay < b \div SecondsPerDay, b \div SecondsPerDay < a \div SecondsPerDay + 28
  PROVE  Localtime(a).mday # Localtime(b).mday
<1> SUFFICES ASSUME Localtime(a).mday = Localtime(b).mday PROVE FALSE
  OBVIOUS
<1>1. PICK q \in Int, p \in 0 .. 3, m \in 1 .. 12 :
        /\ a \div SecondsPerDay + 731 = 1461 * q + MonthBegins(p, m) + Localtime(a).mday - 1
        /\ Localtime(a).mday \in 1 .. 31
  BY LocalMonth
<1>2. PICK r \in Int, o \in 0 .. 3, k \in 1 .. 12 :
        /\ b \div SecondsPerDay + 731 = 1461 * r + MonthBegins(o, k) + Localtime(b).mday - 1
        /\ Localtime(b).mday \in 1 .. 31
  BY LocalMonth
<1> DEFINE u == MonthBegins(p, m)
           v == MonthBegins(o, k)
           x == a \div SecondsPerDay
           y == b \div SecondsPerDay
           d == Localtime(a).mday
<1>3. u \in Nat /\ u <= 1430 /\ v \in Nat /\ v <= 1430
  BY MonthsAreLong
<1>4. u = v \/ u + 28 <= v \/ v + 28 <= u
  <2>1. CASE o = p
    <3>1. k = m \/ k < m \/ m < k
      OBVIOUS
    <3> QED BY <2>1, <3>1, MonthsAreLong
  <2>2. CASE o < p
    BY <2>2, MonthsAreLong
  <2>3. CASE p < o
    BY <2>3, MonthsAreLong
  <2> QED BY <2>1, <2>2, <2>3
<1>5. x \in Int /\ y \in Int /\ x < y /\ y < x + 28
  OBVIOUS
<1>6. d \in Int /\ x + 731 = 1461 * q + u + d - 1 /\ y + 731 = 1461 * r + v + d - 1
  BY <1>1, <1>2
<1> HIDE DEF u, v, x, y, d
<1>7. y - x = 1461 * (r - q) + (v - u)
  BY <1>3, <1>5, <1>6
<1>8. r - q \in Int /\ (r - q <= -1 \/ r - q = 0 \/ r - q >= 1)
  OBVIOUS
<1> QED BY <1>3, <1>4, <1>5, <1>7, <1>8

\* Cardinality of an image without repetitions.
LEMMA CountImage ==
  ASSUME NEW n \in Nat, NEW T, NEW f \in [1 .. n -> T],
         \A x \in T : \E i \in 1 .. n : f[i] = x,
         \A i, j \in 1 .. n : f[i] = f[j] => i = j
  PROVE  Cardinality(T) = n
<1>1. f \in Bijection(1 .. n, T)
  BY DEF Bijection, Injection, Surjection, IsInjective
<1> QED BY <1>1, FS_CountingElements DEF ExistsBijection

\* Days later at the same time of the day.
LEMMA DaysLater ==
  ASSUME NEW e \in Int, NEW n \in Nat
  PROVE  (e + n * SecondsPerDay) \div SecondsPerDay = e \div SecondsPerDay + n /\ e \div SecondsPerDay \in Int
<1> DEFINE P == SecondsPerDay
           d == e \div P
           r == e % P
<1>1. P \in Nat \ {0}
  <2>1. \A a, b \in Nat \ {0} : a * b \in Nat \ {0}
    OBVIOUS
  <2>2. HoursPerDay \in Nat \ {0} /\ MinutesPerHour \in Nat \ {0} /\ SecondsPerMinute \in Nat \ {0}
    BY CalendarAssumption
  <2> QED BY <2>1, <2>2, Zenon DEF SecondsPerDay
<1> HIDE DEF P
<1>2. d \in Int /\ r \in 0 .. (P - 1) /\ e = P * d + r
  BY <1>1
<1> HIDE DEF d, r
<1>3. (d + n) * P = P * d + n * P /\ P * d \in Int /\ n * P \in Int
  BY <1>1, <1>2
<1>4. e + n * P = (d + n) * P + r
  BY <1>2, <1>3
<1>5. ((d + n) * P + r) \div P = d + n
  BY <1>1, <1>2, Division
<1>6. (e + n * P) \div P = d + n
  BY <1>4, <1>5, Zenon
<1> QED BY <1>2, <1>6 DEF P, d

\* The alarm of a moment shows its day of the month.
LEMMA StampDay ==
  ASSUME NEW e, e \div SecondsPerDay \in Int
  PROVE  Bcd2ToByte(AlarmStamp(e).day) = Localtime(e).mday
<1>1. AlarmStamp(e).day = ByteToBcd2(Localtime(e).mday)
  BY Zenon DEF AlarmStamp, RtcConvertEpochToDatetime
<1>2. Localtime(e).mday \in 1 .. 31
  BY LocalMonth
<1>3. Localtime(e).mday \in 0 .. 99
  BY <1>2
<1> QED BY <1>1, <1>3, BcdByte

\* From any second of the clock, the alarms of the next 28 days are all different:
\* ALRMAR, which holds a day of the month only, does not match too early.
THEOREM AlarmsStayApart == Spec => []AlarmsAreApart
<1>1. CalendarInv => AlarmsAreApart
  <2> SUFFICES ASSUME CalendarInv
               PROVE  Cardinality({AlarmStamp(EpochOf(Now) + n * SecondsPerDay) : n \in DaysAhead}) = Cardinality(DaysAhead)
    BY DEF AlarmsAreApart
  <2> DEFINE e == EpochOf(Now)
             f == [n \in 1 .. 28 |-> AlarmStamp(e + n * SecondsPerDay)]
             own == [n \in 1 .. 28 |-> n]
  <2>1. e \in Int
    <3>1. date \in Dates /\ time \in Times
      BY DEF CalendarInv, CounterTypes
    <3>2. /\ HoursPerDay \in Int /\ MinutesPerHour \in Int /\ SecondsPerMinute \in Int
          /\ time.hours \in Int /\ time.minutes \in Int /\ time.seconds \in Int
      BY <3>1, CalendarAssumption DEF Times
    <3>3. DayNumber(date) \in Int /\ DaysBefore(ToTm(date, time)) = DayNumber(date)
      BY <3>1, DayNumberType, DaysAreNumbered
    <3>4. e = ((DayNumber(date) * HoursPerDay + time.hours) * MinutesPerHour + time.minutes) * SecondsPerMinute + time.seconds
      BY <3>3, EpochOfParts, Zenon DEF EpochOf, Now
    <3> HIDE DEF e
    <3>5. \A a, b, c \in Int : a * b + c \in Int
      OBVIOUS
    <3>6. DayNumber(date) * HoursPerDay + time.hours \in Int
      BY <3>2, <3>3, <3>5, Zenon
    <3>7. (DayNumber(date) * HoursPerDay + time.hours) * MinutesPerHour + time.minutes \in Int
      BY <3>2, <3>5, <3>6, Zenon
    <3> QED BY <3>2, <3>4, <3>5, <3>7, Zenon
  <2> HIDE DEF e
  <2>2. ASSUME NEW i \in 1 .. 28, NEW j \in 1 .. 28, i < j PROVE f[i] # f[j]
    <3> DEFINE a == e + i * SecondsPerDay
               b == e + j * SecondsPerDay
               d == e \div SecondsPerDay
    <3>1. i \in Nat /\ j \in Nat
      OBVIOUS
    <3>2. a \div SecondsPerDay = d + i /\ b \div SecondsPerDay = d + j /\ d \in Int
      BY <2>1, <3>1, DaysLater
    <3> HIDE DEF a, b, d
    <3>3. a \div SecondsPerDay \in Int /\ b \div SecondsPerDay \in Int
      BY <3>1, <3>2
    <3>4. a \div SecondsPerDay < b \div SecondsPerDay /\ b \div SecondsPerDay < a \div SecondsPerDay + 28
      BY <2>2, <3>1, <3>2
    <3>5. Localtime(a).mday # Localtime(b).mday
      BY <3>3, <3>4, DaysOfMonthDiffer
    <3>6. AlarmStamp(a) # AlarmStamp(b)
      BY <3>3, <3>5, StampDay, Zenon
    <3> QED BY <3>6 DEF a, b
  <2>3. \A i, j \in 1 .. 28 : f[i] = f[j] => i = j
    <3> HIDE DEF f
    <3> SUFFICES ASSUME NEW i \in 1 .. 28, NEW j \in 1 .. 28, f[i] = f[j] PROVE i = j
      OBVIOUS
    <3>1. ~(i < j) /\ ~(j < i)
      BY <2>2
    <3> QED BY <3>1
  <2> DEFINE T == {AlarmStamp(e + n * SecondsPerDay) : n \in DaysAhead}
  <2>4. f \in [1 .. 28 -> T] /\ \A x \in T : \E i \in 1 .. 28 : f[i] = x
    BY DEF DaysAhead
  <2>5. own \in [1 .. 28 -> DaysAhead] /\ \A x \in DaysAhead : \E i \in 1 .. 28 : own[i] = x
    BY DEF DaysAhead
  <2>6. \A i, j \in 1 .. 28 : own[i] = own[j] => i = j
    OBVIOUS
  <2>7. 28 \in Nat
    OBVIOUS
  <2> HIDE DEF f, own, T
  <2>8. Cardinality(T) = 28
    BY <2>3, <2>4, <2>7, CountImage, Zenon
  <2>9. Cardinality(DaysAhead) = 28
    BY <2>5, <2>6, <2>7, CountImage, Zenon
  <2> QED BY <2>8, <2>9 DEF e, T
<1> QED BY <1>1, CalendarInit, CalendarStep, PTL DEF Spec
=============================================================================
