--------------------------- MODULE LineStatistics ---------------------------
(***************************************************************************)
(* What the website, the API and the bot compute from the disturbances and *)
(* the schedules of lines: downtime, availability, counts by day and hour, *)
(* the last disturbance. Pure functions of the rows, of the clock (now)    *)
(* and of a window of time.                                                *)
(*                                                                         *)
(* Times count hours, hour 0 begins day 0, a day has DayLength hours. The  *)
(* disturbances are those of DisturbanceRules: LineStatus shows that they  *)
(* are disjoint and well timed. Days have no daylight saving, days of the  *)
(* week count from 0 as in Go, days of the year from 1.                    *)
(***************************************************************************)
EXTENDS DisturbanceRules, FiniteSetsExt, SequencesExt, Sums

CONSTANT DayLength

ASSUME DayLengthAssumption == DayLength \in Nat \ {0}

DayOf(t) == t \div DayLength
Weekday(day) == day % 7
YearDay(day) == day + 1

Schedule == [Holiday : BOOLEAN, Day : Nat, OpenTime : 0..(DayLength - 1), OpenDuration : Nat]

Length(span) == span.to - span.from

\* github.com/SaidinWoT/timespan: what two spans share, if they do.
Intersection(a, b) == [from |-> Max({a.from, b.from}), to |-> Min({a.to, b.to})]
Intersects(a, b) == Length(Intersection(a, b)) > 0

-----------------------------------------------------------------------------
(***************************************************************************)
(* When a line is open.                                                    *)
(***************************************************************************)
\* sort.SearchInts, a binary search for the first element that is at least x,
\* and the comparison after it: it finds x in a sorted sequence.
IsHoliday(holidays, x) ==
    LET search[lo \in 1..(Len(holidays) + 1), hi \in 1..(Len(holidays) + 1)] ==
            LET middle == (lo + hi - 1) \div 2
            IN  IF lo >= hi THEN lo
                ELSE IF holidays[middle] < x THEN search[middle + 1, hi]
                ELSE search[lo, middle]
        found == search[1, Len(holidays) + 1]
    IN  found <= Len(holidays) /\ holidays[found] = x

OfDay(schedules, holiday, day) == {s \in schedules : s.Holiday = holiday /\ s.Day = day}

HolidaysLast(day, schedules, holidays) ==                            \* (mutant)
    LET special == OfDay(schedules, TRUE, YearDay(day))
        festive == IF IsHoliday(holidays, YearDay(day)) THEN OfDay(schedules, TRUE, 0) ELSE {}
        weekly == OfDay(schedules, FALSE, Weekday(day))
    IN  CHOOSE s \in IF special # {} THEN special ELSE IF weekly # {} THEN weekly ELSE festive : TRUE

\* Overrides of one day of the year come first, then those of all holidays.
\* A line has at most one schedule of each kind and day, and one of each weekday:
\* without it the code dereferences nil.
getScheduleForDay(day, schedules, holidays) ==
    LET special == OfDay(schedules, TRUE, YearDay(day))
        festive == IF IsHoliday(holidays, YearDay(day)) THEN OfDay(schedules, TRUE, 0) ELSE {}
        weekly == OfDay(schedules, FALSE, Weekday(day))
    IN  CHOOSE s \in IF special # {} THEN special ELSE IF festive # {} THEN festive ELSE weekly : TRUE

\* The span of a day's schedule, which may go past midnight.
OpenSpan(day, line) ==
    LET s == getScheduleForDay(day, line.schedules, line.holidays)
        from == day * DayLength + s.OpenTime
    IN  [from |-> from, to |-> from + s.OpenDuration]

OwnDays(from, to) == {d \in DayOf(from)..DayOf(to) : d * DayLength < to}    \* (mutant)

\* ct: one day more on both sides, since a schedule may go past midnight.
VisitedDays(from, to) ==
    {d \in (DayOf(from) - 1)..(DayOf(to) + 1) : from + (d - DayOf(from)) * DayLength < to + DayLength}

\* Of the days that have one.
getOpenSpans(line, from, to) ==
    LET whole == [from |-> from, to |-> to]
        days == {d \in VisitedDays(from, to) : Intersects(whole, OpenSpan(d, line))}
    IN  [d \in days |-> Intersection(whole, OpenSpan(d, line))]

getClosedDuration(line, from, to) ==
    LET open == getOpenSpans(line, from, to)
    IN  (to - from) - Total([d \in DOMAIN open |-> Length(open[d])])

-----------------------------------------------------------------------------
(***************************************************************************)
(* The time a line was down. official chooses the official interval of     *)
(* each disturbance, and the disturbances that have one.                   *)
(***************************************************************************)
Start(d, official) == IF official THEN d.OStartTime ELSE d.UStartTime
Ended(d, official) == IF official THEN d.OEnded ELSE d.UEnded
End(d, official) == IF official THEN d.OEndTime ELSE d.UEndTime

\* COALESCE(time_end, now())
EndOrNow(d, official, now) == IF Ended(d, official) THEN End(d, official) ELSE now

Chosen(ds, official) == IF official THEN {d \in ds : d.Official} ELSE ds

DisturbancesBetween(ds, from, to, official, now) ==
    {d \in Chosen(ds, official) : Start(d, official) <= to /\ EndOrNow(d, official, now) >= from}

Unclamped(d, from, to, official, now) ==                             \* (mutant)
    [from |-> Start(d, official), to |-> Min({EndOrNow(d, official, now), to})]

\* thisStart and thisEnd, within the window.
Clamped(d, from, to, official, now) ==
    [from |-> Max({Start(d, official), from}), to |-> Min({EndOrNow(d, official, now), to})]

\* How much of a span a line was open.
OpenTimeOf(span, open) ==
    Total([day \in DOMAIN open |->
              IF Intersects(span, open[day]) THEN Length(Intersection(span, open[day])) ELSE 0])

DisturbanceDuration(line, from, to, official, now) ==
    LET ds == DisturbancesBetween(line.disturbances, from, to, official, now)
        open == getOpenSpans(line, from, to)
    IN  [downTime |-> Total([d \in ds |-> OpenTimeOf(Clamped(d, from, to, official, now), open)]),
         count |-> Cardinality(ds)]

\* The fraction is Max(0, 1 - downTime/totalTime): with both zero, Go has NaN.
Availability(line, from, to, official, now) ==
    LET d == DisturbanceDuration(line, from, to, official, now)
    IN  [downTime |-> d.downTime,
         totalTime |-> (to - from) - getClosedDuration(line, from, to),
         avgDuration |-> IF d.count > 0 THEN d.downTime \div d.count ELSE 0]

\* time.Now() and a millisecond after it, the shortest window there is.
CurrentlyClosed(line, now) == getClosedDuration(line, now, now + 1) > 0

-----------------------------------------------------------------------------
(***************************************************************************)
(* Counts by day and by hour of the day: SQL over generate_series.         *)
(***************************************************************************)
Touching(ds, official, now, Unit(_), u) ==
    {d \in Chosen(ds, official) :
        Unit(Start(d, official)) <= u /\ u <= Unit(EndOrNow(d, official, now))}

HourOf(t) == t

CountDisturbancesByDay(ds, from, to, official, now) ==
    [day \in DayOf(from)..DayOf(to) |-> Cardinality(Touching(ds, official, now, DayOf, day))]

CountDisturbancesByHourOfDay(ds, from, to, official, now) ==
    [hour \in 0..(DayLength - 1) |->
        Total([day \in DayOf(from)..DayOf(to) |->
                  Cardinality(Touching(ds, official, now, HourOf, day * DayLength + hour))])]

-----------------------------------------------------------------------------
(***************************************************************************)
(* The last disturbance, of a line and of the network. NoDisturbance, no   *)
(* row of any table, stands for the errors that say there is none.         *)
(***************************************************************************)
NoDisturbance == [id |-> 0]

\* ORDER BY Key DESC, first row.
Greatest(ds, Key(_)) ==
    IF ds = {} THEN NoDisturbance ELSE CHOOSE d \in ds : \A e \in ds : Key(e) <= Key(d)

LastOngoingDisturbance(ds, official) ==
    Greatest({d \in Chosen(ds, official) : ~Ended(d, official)}, LAMBDA d : Start(d, official))

\* MAX(time_end) passes over the rows whose time_end is NULL.
LastDisturbance(ds, official) ==
    IF LastOngoingDisturbance(ds, official) # NoDisturbance
    THEN LastOngoingDisturbance(ds, official)
    ELSE Greatest({d \in Chosen(ds, official) : Ended(d, official)}, LAMBDA d : End(d, official))

SortedByEnd(d, e, official) == End(d, official) <= End(e, official)      \* (mutant)

\* The order of sort.Slice: what has ended before what has not.
NotAfter(d, e, official) ==
    \/ Ended(d, official) /\ ~Ended(e, official)
    \/ Ended(d, official) /\ Ended(e, official) /\ End(d, official) <= End(e, official)
    \/ ~Ended(d, official) /\ ~Ended(e, official) /\ Start(d, official) <= Start(e, official)

NetworkLastDisturbance(lines, official) ==
    LET lasts == {LastDisturbance(l.disturbances, official) : l \in lines} \ {NoDisturbance}
    IN  IF lasts = {} THEN NoDisturbance
        ELSE CHOOSE d \in lasts : \A e \in lasts : NotAfter(e, d, official)

\* Network.LastDisturbanceTime, for the home page: it reads the unofficial end.
LastDisturbanceTime(lines, official, now) ==
    LET d == NetworkLastDisturbance(lines, official)
    IN  IF d = NoDisturbance \/ ~d.UEnded THEN now ELSE d.UEndTime

\* Stats.getLastDisturbanceTimeForNetwork, for the API.
getLastDisturbanceTimeForNetwork(lines, official, now) ==
    LET d == NetworkLastDisturbance(lines, official)
    IN  IF d = NoDisturbance \/ ~Ended(d, official) THEN now ELSE End(d, official)

-----------------------------------------------------------------------------
(***************************************************************************)
(* The pages that put them together.                                       *)
(***************************************************************************)
\* DisturbanceListPage: a period of whole days, in total and day by day.
DisturbanceListPage(line, firstDay, days, official, now) ==
    LET from == firstDay * DayLength
        Midnight(i) == from + i * DayLength
    IN  [total |-> DisturbanceDuration(line, from, Midnight(days), official, now).downTime,
         TotalAvailability |-> Availability(line, from, Midnight(days), official, now),
         HoursDown |-> [i \in 1..days |->
             DisturbanceDuration(line, Midnight(i - 1), Midnight(i), official, now).downTime],
         Availability |-> [i \in 1..days |->
             Availability(line, Midnight(i - 1), Midnight(i), official, now)]]

\* HomePage: the days up to now, what is ongoing, and when the last ended.
HomePage(lines, days, official, now) ==
    LET from == now - (days - 1) * DayLength
    IN  [Last |-> LastDisturbanceTime(lines, official, now),
         Down |-> [l \in lines |-> LastOngoingDisturbance(l.disturbances, FALSE) # NoDisturbance],
         LastDisturbance |-> [l \in lines |-> LastDisturbance(l.disturbances, official)],
         DayCounts |-> [l \in lines |->
             CountDisturbancesByDay(l.disturbances, from, now, official, now)],
         HourCounts |-> [l \in lines |->
             CountDisturbancesByHourOfDay(l.disturbances, from, now, official, now)]]

\* getStatsForNetwork, for the API.
getStatsForNetwork(lines, from, to, official, now) ==
    [LastDisturbance |-> getLastDisturbanceTimeForNetwork(lines, official, now),
     LineStats |-> [l \in lines |-> Availability(l, from, to, official, now)]]
-----------------------------------------------------------------------------
\* What the numbers stand for, hour by hour.
OpenAt(line, h) ==
    \E s \in {OpenSpan(d, line) : d \in (DayOf(h) - 1)..DayOf(h)} : s.from <= h /\ h < s.to

DownAt(line, h, official, now) ==
    \E d \in Chosen(line.disturbances, official) :
        Start(d, official) <= h /\ h < EndOrNow(d, official, now)

AddsUp(page, days, line, hours, open, official, now) ==
    /\ page.total = Cardinality({h \in open : DownAt(line, h, official, now)})
    /\ page.total = Total(page.HoursDown)
    /\ page.TotalAvailability.totalTime = Cardinality(open)
    /\ page.TotalAvailability.totalTime = Total([i \in 1..days |-> page.Availability[i].totalTime])
    /\ \A h \in hours : CurrentlyClosed(line, h) <=> h \notin open

(***************************************************************************)
(* The downtime and the open time of a period, which the code takes from   *)
(* intersections of spans, are the hours in which the line was down while  *)
(* open and those in which it was open: none is counted twice where two    *)
(* disturbances meet or a schedule goes past midnight, none is lost at the *)
(* ends of the period, and the days of a period add up to it; and the line *)
(* is told to be closed now in the same hours (types/line.go               *)
(* DisturbanceDuration, getOpenSpans, Availability, CurrentlyClosed). The  *)
(* line may not open before it has closed.                                 *)
(***************************************************************************)
DowntimeCountedOnceIn(line, firstDay, days, official, now) ==
    LET hours == (firstDay * DayLength)..((firstDay + days) * DayLength - 1)
    IN  AddsUp(DisturbanceListPage(line, firstDay, days, official, now), days,
               line, hours, {h \in hours : OpenAt(line, h)}, official, now)

(***************************************************************************)
(* The home page, the API and the bot agree: a line that is shown as down  *)
(* is the last to have been disturbed, with no end; the website and the    *)
(* API tell the same time of the last disturbance, or the website a later  *)
(* one, since it reads the unofficial end also when it shows what is       *)
(* official; and a day that is shown without disturbances had none.        *)
(***************************************************************************)
LastDisturbancesAgreeIn(lines, days, official, now) ==
    LET page == HomePage(lines, days, official, now)
        stats == getStatsForNetwork(lines, now - (days - 1) * DayLength, now, official, now)
        ours == HomePage(lines, days, FALSE, now)
    IN  /\ page.Last >= stats.LastDisturbance
        /\ ~official => page.Last = stats.LastDisturbance
        /\ (\E l \in lines : page.Down[l]) => ours.Last = now
        /\ \A l \in lines : page.Down[l] => ~ours.LastDisturbance[l].UEnded
        /\ \A l \in lines : \A day \in DOMAIN page.DayCounts[l] :
              page.DayCounts[l][day] = 0 <=>
                  \A d \in Chosen(l.disturbances, official) :
                      DayOf(Start(d, official)) > day \/ DayOf(EndOrNow(d, official, now)) < day
=============================================================================
