------------------------------ MODULE Cadence -------------------------------
(***************************************************************************)
(* When the coordinator is due (server/coordinator/scheduler.go). A moment *)
(* is a number of minutes of local time; day 0 is a Monday. Days have      *)
(* MinutesPerDay minutes, 1440 in the code. Local time that repeats or is  *)
(* skipped (daylight saving) is left out.                                  *)
(***************************************************************************)
EXTENDS Integers

CONSTANT MinutesPerDay

ASSUME MinutesPerDayIsPositive == MinutesPerDay \in Nat \ {0}

\* Config.Validate: the window's ends differ, the interval is positive.
Configs(intervals) ==
    {c \in [start: 0..(MinutesPerDay - 1), end: 0..(MinutesPerDay - 1),
            interval: intervals, daily: 0..(MinutesPerDay - 1),
            days: {"weekdays", "every_day"}] : c.start # c.end}

Day(t) == t \div MinutesPerDay
Minute(t) == t % MinutesPerDay

AllowedDay(c, day) == c.days = "every_day" \/ day % 7 \notin {5, 6}

StandupDue(c, t) == AllowedDay(c, Day(t)) /\ Minute(t) >= c.daily
StandupKey(t) == <<"standup", Day(t)>>

Overnight(c) == c.end <= c.start

\* Mutant: the minutes after midnight belong to the new day.
AnchorOfToday(c, t) == Day(t)

\* The day whose window t belongs to: yesterday's, after midnight.
Anchor(c, t) ==
    IF Overnight(c) /\ Minute(t) < c.end THEN Day(t) - 1 ELSE Day(t)

\* Mutant: the last minute of the window belongs to it.
InWindowInclusive(c, t) ==
    IF Overnight(c) THEN Minute(t) <= c.end \/ Minute(t) >= c.start
    ELSE c.start <= Minute(t) /\ Minute(t) <= c.end

InWindow(c, t) ==
    IF Overnight(c) THEN Minute(t) < c.end \/ Minute(t) >= c.start
    ELSE c.start <= Minute(t) /\ Minute(t) < c.end

CycleEligible(c, t) == InWindow(c, t) /\ AllowedDay(c, Anchor(c, t))

\* Minutes since the window opened, over the interval.
Slot(c, t) ==
    (IF Overnight(c) /\ Minute(t) < c.end
     THEN Minute(t) - c.start + MinutesPerDay
     ELSE Minute(t) - c.start) \div c.interval

CycleOccurrenceKey(c, t) == <<"cycle", Anchor(c, t), Slot(c, t)>>
=============================================================================
