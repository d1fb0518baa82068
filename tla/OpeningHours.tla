---------------------------- MODULE OpeningHours ----------------------------
(***************************************************************************)
(* How the hours of a lobby are told: utils/utils.go SchedulesToLines and  *)
(* types/lobbyschedule.go Compare. A lobby has a schedule for each day of  *)
(* the week, 0 for Sunday, one for holidays, and some for single days of   *)
(* the year. A line is [days, hours], the days that its label names.       *)
(***************************************************************************)
EXTENDS Integers, FiniteSetsExt

Holidays == -1
Weekdays == 1..5
AllDays == -1..6

LobbySchedule == [Open : BOOLEAN, OpenTime : Nat, OpenDuration : Nat]

Compare(s, t) ==
    \/ ~s.Open /\ ~t.Open
    \/ s = t

\* scheduleToString
Hours(s) == IF s.Open THEN <<s.OpenTime, s.OpenDuration>> ELSE <<>>

weekdaysAllTheSame(byDay) == \A i \in 2..5 : Compare(byDay[1], byDay[i])

SundaysOnly(byDay) == Compare(byDay[Holidays], byDay[0])             \* (mutant)

holidaysAllTheSame(byDay) == Compare(byDay[Holidays], byDay[0]) /\ Compare(byDay[6], byDay[0])

allDaysTheSame(byDay) ==
    weekdaysAllTheSame(byDay) /\ holidaysAllTheSame(byDay) /\ Compare(byDay[Holidays], byDay[2])

Line(days, s) == [days |-> days, hours |-> Hours(s)]

\* Each of some days by itself.
EachOf(days, byDay) == {Line({d}, byDay[d]) : d \in days}

\* The lines for the week: when weekdays differ, the loop begins on Tuesday.
WeekLines(byDay) ==
    IF allDaysTheSame(byDay) THEN {Line(AllDays, byDay[0])}
    ELSE (IF weekdaysAllTheSame(byDay) THEN {Line(Weekdays, byDay[1])} ELSE EachOf(2..5, byDay))
         \cup (IF holidaysAllTheSame(byDay) THEN {Line({Holidays, 0, 6}, byDay[0])}
               ELSE EachOf({Holidays, 0, 6}, byDay))

\* The single days from yesterday on, whose hours may go past midnight.
ExceptionLines(exceptions, currentDay) ==
    {[yearDay |-> d, hours |-> Hours(exceptions[d])] : d \in {d \in DOMAIN exceptions : d >= currentDay - 1}}

SchedulesToLines(byDay, exceptions, currentDay) ==
    [week |-> WeekLines(byDay), exceptions |-> ExceptionLines(exceptions, currentDay)]

(***************************************************************************)
(* Every day of the week and holidays are told once, with their own hours; *)
(* but Monday is not told at all when weekdays are not all the same. So is *)
(* a single day, until the day after it.                                   *)
(***************************************************************************)
HoursShownFor(byDay, exceptions, today) ==
    LET lines == SchedulesToLines(byDay, exceptions, today)
    IN  /\ \A d \in AllDays :
              LET shown == {line \in lines.week : d \in line.days}
              IN  IF d = 1 /\ ~weekdaysAllTheSame(byDay) THEN shown = {}
                  ELSE Cardinality(shown) = 1 /\ \A line \in shown : line.hours = Hours(byDay[d])
        /\ {line.yearDay : line \in lines.exceptions} = {d \in DOMAIN exceptions : d + 1 >= today}
=============================================================================
