--------------------------- MODULE CadenceProofs ----------------------------
(***************************************************************************)
(* What TLAPS proves of Cadence: its schedule, written in days, minutes of *)
(* the day and a case for midnight, is the one in absolute minutes, for    *)
(* every window, interval and length of the day.                           *)
(***************************************************************************)
EXTENDS MCCadence, TLAPS

-----------------------------------------------------------------------------
IInv == config \in Configs(Intervals) /\ minute \in 0..LastMinute

LEMMA Inductive == Spec => []IInv
<1>1. Init => IInv
    BY IntervalsArePositive DEF Init, IInv
<1>2. IInv /\ [Next]_<<config, minute>> => IInv'
    BY IntervalsArePositive DEF IInv, Next
<1> QED
    BY <1>1, <1>2, PTL DEF Spec

LEMMA ConfigFields ==
    ASSUME IInv
    PROVE  /\ config.start \in 0..(MinutesPerDay - 1) /\ config.end \in 0..(MinutesPerDay - 1)
           /\ config.start # config.end /\ config.interval \in Nat \ {0}
    BY IntervalsArePositive DEF IInv, Configs

LEMMA DayAndMinute ==
    ASSUME NEW t \in Int
    PROVE  /\ Day(t) \in Int /\ Minute(t) \in 0..(MinutesPerDay - 1)
           /\ t = (MinutesPerDay * Day(t)) + Minute(t)
    BY MinutesPerDayIsPositive, Z3 DEF Day, Minute

\* A day and a minute of it are those of the moment they make.
LEMMA DayIsUnique ==
    ASSUME NEW d \in Int, NEW m \in 0..(MinutesPerDay - 1)
    PROVE  LET t == (MinutesPerDay * d) + m
           IN t \in Int /\ t \div MinutesPerDay = d /\ t % MinutesPerDay = m
    BY MinutesPerDayIsPositive, Z3

\* The window before or at t opened today, or yesterday when it is early.
OpeningDay(t) == IF Minute(t) >= config.start THEN Day(t) ELSE Day(t) - 1

LEMMA OpeningMinute ==
    ASSUME IInv, NEW t \in Int
    PROVE  /\ Opening(t) = (MinutesPerDay * OpeningDay(t)) + config.start
           /\ Opening(t) \in Int /\ Day(Opening(t)) = OpeningDay(t)
           /\ t - Opening(t) = Minute(t) - config.start
                               + (IF Minute(t) >= config.start THEN 0 ELSE MinutesPerDay)
<1> DEFINE midnight == MinutesPerDay * Day(t)
           before == MinutesPerDay * (Day(t) - 1)
           m == Minute(t)
           s == config.start
           elapsed == m - s + (IF m >= s THEN 0 ELSE MinutesPerDay)
<1>1. /\ Day(t) \in Int /\ m \in 0..(MinutesPerDay - 1)
      /\ midnight \in Int /\ t = midnight + m
    BY DayAndMinute, MinutesPerDayIsPositive
<1>2. before = midnight - MinutesPerDay
    BY <1>1, MinutesPerDayIsPositive, Z3
<1>3. s \in 0..(MinutesPerDay - 1) /\ MinutesPerDay \in Nat \ {0}
    BY ConfigFields, MinutesPerDayIsPositive
<1>4. OpeningDay(t) = (IF m >= s THEN Day(t) ELSE Day(t) - 1)
    BY DEF OpeningDay
<1>5. MinutesPerDay * OpeningDay(t) = IF m >= s THEN midnight ELSE before
    BY <1>4
<1>6. Opening(t) = t - ((t - s) % MinutesPerDay)
    BY DEF Opening
<1> HIDE DEF midnight, before, m, s
<1>7. elapsed \in 0..(MinutesPerDay - 1)
    BY <1>1, <1>3
<1>8. t - s = (MinutesPerDay * OpeningDay(t)) + elapsed
    BY <1>1, <1>2, <1>3, <1>5
<1>9. OpeningDay(t) \in Int /\ MinutesPerDay * OpeningDay(t) \in Int
    BY <1>1, <1>2, <1>3, <1>4, <1>5
<1> HIDE DEF elapsed
<1>10. (t - s) % MinutesPerDay = elapsed
    BY <1>7, <1>8, <1>9, DayIsUnique
<1>11. Opening(t) = (MinutesPerDay * OpeningDay(t)) + s /\ t - Opening(t) = elapsed
    BY <1>3, <1>6, <1>7, <1>8, <1>9, <1>10
<1>12. Opening(t) \in Int /\ Opening(t) \div MinutesPerDay = OpeningDay(t)
    BY <1>3, <1>9, <1>11, DayIsUnique
<1> QED
    BY <1>11, <1>12 DEF Day, elapsed, m, s

LEMMA WindowLength ==
    ASSUME IInv
    PROVE  Length = config.end - config.start
                    + (IF config.end > config.start THEN 0 ELSE MinutesPerDay)
<1> DEFINE length == config.end - config.start
                     + (IF config.end > config.start THEN 0 ELSE MinutesPerDay)
           d == IF config.end > config.start THEN 0 ELSE -1
<1>1. length \in 0..(MinutesPerDay - 1) /\ d \in Int
    BY ConfigFields, MinutesPerDayIsPositive
<1>2. config.end - config.start = (MinutesPerDay * d) + length
    BY ConfigFields, MinutesPerDayIsPositive
<1> HIDE DEF length, d
<1>3. (config.end - config.start) % MinutesPerDay = length
    BY <1>1, <1>2, DayIsUnique
<1> QED
    BY <1>3 DEF Length, length

\* A minute is in a window when it is less than the window's length after the
\* last opening, and then its anchor is the day of that opening.
LEMMA InWindowOfOpening ==
    ASSUME IInv, NEW t \in Int
    PROVE  /\ InWindow(config, t) <=> t - Opening(t) < Length
           /\ InWindow(config, t) => Anchor(config, t) = Day(Opening(t))
<1>1. /\ config.start \in 0..(MinutesPerDay - 1) /\ config.end \in 0..(MinutesPerDay - 1)
      /\ config.start # config.end
    BY ConfigFields
<1>2. Day(t) \in Int /\ Minute(t) \in 0..(MinutesPerDay - 1)
    BY DayAndMinute
<1>3. /\ t - Opening(t) = Minute(t) - config.start
                          + (IF Minute(t) >= config.start THEN 0 ELSE MinutesPerDay)
      /\ Day(Opening(t)) = IF Minute(t) >= config.start THEN Day(t) ELSE Day(t) - 1
    BY OpeningMinute DEF OpeningDay
<1>4. Length = config.end - config.start
               + (IF config.end > config.start THEN 0 ELSE MinutesPerDay)
    BY WindowLength
<1> QED
    BY <1>1, <1>2, <1>3, <1>4, MinutesPerDayIsPositive DEF InWindow, Anchor, Overnight

LEMMA SlotOfOpening ==
    ASSUME IInv, NEW t \in Int, InWindow(config, t)
    PROVE  Slot(config, t) = (t - Opening(t)) \div config.interval
<1>1. /\ config.start \in 0..(MinutesPerDay - 1) /\ config.end \in 0..(MinutesPerDay - 1)
      /\ Minute(t) \in 0..(MinutesPerDay - 1)
    BY ConfigFields, DayAndMinute
<1>2. t - Opening(t) = Minute(t) - config.start
                       + (IF Minute(t) >= config.start THEN 0 ELSE MinutesPerDay)
    BY OpeningMinute
<1>3. t - Opening(t) = IF Overnight(config) /\ Minute(t) < config.end
                       THEN Minute(t) - config.start + MinutesPerDay
                       ELSE Minute(t) - config.start
    BY <1>1, <1>2, MinutesPerDayIsPositive DEF InWindow, Overnight
<1> QED
    BY <1>3 DEF Slot

-----------------------------------------------------------------------------
\* A minute is eligible exactly when a window that opened on an allowed day is
\* still open, also past midnight (CycleOccurrenceKey, allowedDay).
THEOREM EligibleMinutes == Spec => []EligibleInsideWindows
<1>1. IInv => EligibleInsideWindows
    <2> SUFFICES ASSUME IInv PROVE EligibleInsideWindows
        OBVIOUS
    <2>1. minute \in Int
        BY IntervalsArePositive DEF IInv
    <2> QED
        BY <2>1, InWindowOfOpening DEF EligibleInsideWindows, CycleEligible
<1> QED
    BY <1>1, Inductive, PTL

\* A key names one interval of one window, and each has one (CycleOccurrenceKey).
THEOREM OneKeyPerSlot == Spec => []KeysNameSlots
<1>1. IInv => KeysNameSlots
    <2> SUFFICES ASSUME IInv, NEW t \in 0..minute,
                        CycleEligible(config, t), CycleEligible(config, minute)
                 PROVE  CycleOccurrenceKey(config, t) = CycleOccurrenceKey(config, minute)
                        <=> <<Opening(t), (t - Opening(t)) \div config.interval>>
                            = <<Opening(minute), (minute - Opening(minute)) \div config.interval>>
        BY DEF KeysNameSlots
    <2>1. t \in Int /\ minute \in Int
        BY IntervalsArePositive DEF IInv
    <2>2. /\ InWindow(config, t) /\ InWindow(config, minute)
        BY DEF CycleEligible
    <2>3. /\ Anchor(config, t) = Day(Opening(t))
          /\ Anchor(config, minute) = Day(Opening(minute))
          /\ Slot(config, t) = (t - Opening(t)) \div config.interval
          /\ Slot(config, minute) = (minute - Opening(minute)) \div config.interval
        BY <2>1, <2>2, InWindowOfOpening, SlotOfOpening
    <2>4. Day(Opening(t)) = Day(Opening(minute)) <=> Opening(t) = Opening(minute)
        BY <2>1, OpeningMinute
    <2> QED
        BY <2>3, <2>4 DEF CycleOccurrenceKey
<1> QED
    BY <1>1, Inductive, PTL
=============================================================================
