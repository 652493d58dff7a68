----------------------------- MODULE MCCadence ------------------------------
(***************************************************************************)
(* Cadence checked against a reading of the schedule in absolute minutes,  *)
(* for every window, interval and day mode and every minute of more than a *)
(* week. The time of the standup is fixed: no cycle depends on it.         *)
(***************************************************************************)
EXTENDS Cadence

CONSTANTS Intervals,    \* the cycle intervals tried
          LastMinute    \* bound on time

ASSUME IntervalsArePositive == Intervals \subseteq Nat \ {0} /\ LastMinute \in Nat

VARIABLES config, minute

Init == config \in Configs(Intervals) /\ config.daily = 0 /\ minute = 0

Next == /\ minute < LastMinute
        /\ minute' = minute + 1
        /\ UNCHANGED config

Spec == Init /\ [][Next]_<<config, minute>>

\* The last opening of a monitoring window at or before t, and its length.
Opening(t) == t - ((t - config.start) % MinutesPerDay)
Length == (config.end - config.start) % MinutesPerDay

\* A minute is eligible exactly when a window that opened on an allowed day
\* is still open, also past midnight (CycleOccurrenceKey, allowedDay).
EligibleInsideWindows ==
    CycleEligible(config, minute) <=>
        /\ minute - Opening(minute) < Length
        /\ AllowedDay(config, Day(Opening(minute)))

\* Two eligible minutes have the same key exactly when they are in the same
\* interval of the same window: a slot is neither run twice nor skipped.
KeysNameSlots ==
    LET Place(t) == <<Opening(t), (t - Opening(t)) \div config.interval>>
    IN \A t \in 0..minute :
         CycleEligible(config, t) /\ CycleEligible(config, minute) =>
             (CycleOccurrenceKey(config, t) = CycleOccurrenceKey(config, minute)
              <=> Place(t) = Place(minute))
=============================================================================
