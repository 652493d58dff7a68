-------------------------- MODULE SchedulerProofs ---------------------------
(***************************************************************************)
(* What TLAPS proves of Scheduler, for every schedule, any number of       *)
(* callers and any limits: an occurrence is dispatched once, cycles follow *)
(* a standup, and the document loses nothing.                              *)
(***************************************************************************)
EXTENDS Scheduler, TLAPS

-----------------------------------------------------------------------------
(***************************************************************************)
(* The schedule: the occurrences of later minutes come later, by day the   *)
(* standups, by window and slot the cycles.                                *)
(***************************************************************************)
LEMMA ConfigFields ==
    /\ Config.start \in 0..(MinutesPerDay - 1)
    /\ Config.end \in 0..(MinutesPerDay - 1)
    /\ Config.interval \in Nat \ {0}
    BY ConfigIsValid DEF Configs

LEMMA DayAndMinute ==
    ASSUME NEW t \in Int
    PROVE  /\ Day(t) \in Int /\ Minute(t) \in 0..(MinutesPerDay - 1)
           /\ t = (MinutesPerDay * Day(t)) + Minute(t)
    BY MinutesPerDayIsPositive, Z3 DEF Day, Minute

\* The first minute of the window that belongs to a day.
OpeningOf(day) == (MinutesPerDay * day) + Config.start

\* A minute inside a window is less than a day after its opening.
LEMMA Elapsed ==
    ASSUME NEW t \in Int, InWindow(Config, t)
    PROVE  /\ Anchor(Config, t) \in Int /\ Slot(Config, t) \in Int
           /\ t - OpeningOf(Anchor(Config, t)) \in 0..(MinutesPerDay - 1)
           /\ Slot(Config, t) = (t - OpeningOf(Anchor(Config, t))) \div Config.interval
<1> DEFINE elapsed == t - OpeningOf(Anchor(Config, t))
           midnight == MinutesPerDay * Day(t)
<1>1. /\ Day(t) \in Int /\ Minute(t) \in 0..(MinutesPerDay - 1)
      /\ midnight \in Int /\ t = midnight + Minute(t)
    BY DayAndMinute, MinutesPerDayIsPositive
<1>2. MinutesPerDay * (Day(t) - 1) = midnight - MinutesPerDay
    BY <1>1, MinutesPerDayIsPositive, Z3
<1>3. CASE Overnight(Config) /\ Minute(t) < Config.end
    <2>1. Anchor(Config, t) = Day(t) - 1
        BY <1>3 DEF Anchor
    <2>2. elapsed = t - ((midnight - MinutesPerDay) + Config.start)
        BY <1>2, <2>1 DEF OpeningOf
    <2> HIDE DEF midnight, elapsed
    <2>3. elapsed = Minute(t) - Config.start + MinutesPerDay
        BY <1>1, <2>2, ConfigFields, MinutesPerDayIsPositive
    <2>4. elapsed \in 0..(MinutesPerDay - 1)
        BY <1>1, <1>3, <2>3, ConfigFields, MinutesPerDayIsPositive DEF Overnight
    <2>5. Slot(Config, t) = elapsed \div Config.interval
        BY <1>3, <2>3 DEF Slot
    <2> QED
        BY <1>1, <2>1, <2>4, <2>5, ConfigFields DEF elapsed
<1>4. CASE ~(Overnight(Config) /\ Minute(t) < Config.end)
    <2>1. Anchor(Config, t) = Day(t)
        BY <1>4 DEF Anchor
    <2>2. elapsed = t - (midnight + Config.start)
        BY <2>1 DEF OpeningOf
    <2> HIDE DEF midnight, elapsed
    <2>3. elapsed = Minute(t) - Config.start
        BY <1>1, <2>2, ConfigFields
    <2>4. elapsed \in 0..(MinutesPerDay - 1)
        BY <1>1, <1>4, <2>3, ConfigFields, MinutesPerDayIsPositive DEF InWindow, Overnight
    <2>5. Slot(Config, t) = elapsed \div Config.interval
        BY <1>4, <2>3 DEF Slot
    <2> QED
        BY <1>1, <2>1, <2>4, <2>5, ConfigFields DEF elapsed
<1> QED
    BY <1>3, <1>4

LEMMA QuotientsGrow ==
    ASSUME NEW a \in Int, NEW b \in Int, NEW d \in Nat \ {0}, a <= b
    PROVE  a \div d <= b \div d
    BY Z3

\* Cycle keys in the order of windows and slots.
NotAfter(k, l) == k[2] < l[2] \/ (k[2] = l[2] /\ k[3] <= l[3])

LEMMA LaterCycle ==
    ASSUME NEW t \in Int, NEW u \in Int, t <= u, InWindow(Config, t), InWindow(Config, u)
    PROVE  NotAfter(CycleOccurrenceKey(Config, t), CycleOccurrenceKey(Config, u))
<1> DEFINE a == Anchor(Config, t)
           b == Anchor(Config, u)
<1>1. /\ a \in Int /\ Slot(Config, t) \in Int
      /\ t - OpeningOf(a) \in 0..(MinutesPerDay - 1)
      /\ Slot(Config, t) = (t - OpeningOf(a)) \div Config.interval
    BY Elapsed
<1>2. /\ b \in Int /\ Slot(Config, u) \in Int
      /\ u - OpeningOf(b) \in 0..(MinutesPerDay - 1)
      /\ Slot(Config, u) = (u - OpeningOf(b)) \div Config.interval
    BY Elapsed
<1> HIDE DEF a, b
<1>3. a <= b
    <2> SUFFICES ASSUME b + 1 <= a PROVE FALSE
        BY <1>1, <1>2
    <2>1. MinutesPerDay * (b + 1) <= MinutesPerDay * a
        BY <1>1, <1>2, MinutesPerDayIsPositive, Z3
    <2>2. MinutesPerDay * (b + 1) = (MinutesPerDay * b) + MinutesPerDay
        BY <1>2, MinutesPerDayIsPositive, Z3
    <2>3. MinutesPerDay * a \in Int /\ MinutesPerDay * b \in Int
        BY <1>1, <1>2, MinutesPerDayIsPositive
    <2> QED
        BY <1>1, <1>2, <2>1, <2>2, <2>3, ConfigFields, MinutesPerDayIsPositive DEF OpeningOf
<1>4. a = b => Slot(Config, t) <= Slot(Config, u)
    <2> SUFFICES ASSUME a = b PROVE Slot(Config, t) <= Slot(Config, u)
        OBVIOUS
    <2>1. OpeningOf(a) \in Int
        BY <1>1, ConfigFields, MinutesPerDayIsPositive DEF OpeningOf
    <2>2. t - OpeningOf(a) <= u - OpeningOf(b)
        BY <2>1
    <2> QED
        BY <1>1, <1>2, <2>1, <2>2, QuotientsGrow, ConfigFields
<1> QED
    BY <1>1, <1>2, <1>3, <1>4 DEF NotAfter, CycleOccurrenceKey, a, b

-----------------------------------------------------------------------------
(***************************************************************************)
(* The inductive invariant. An occurrence that was attempted and not lost  *)
(* is in flight or recorded, and what is recorded is not after the time    *)
(* the runner works with; that is why what it finds due is new.            *)
(***************************************************************************)
StandupKeys == {"standup"} \X Int
CycleKeys == {"cycle"} \X Int \X Int
Keys == ({"manual"} \X ManualKeys) \cup StandupKeys \cup CycleKeys

Document ==
    [armed: BOOLEAN, lastStandup: {NoDay} \cup 0..Day(LastMinute),
     lastCycle: CycleKeys \cup {NoKey}, telemetry: Seq(Keys),
     reports: Seq({"status", "published"})]

Job ==
    [pc: {"idle", "due", "dispatch", "record", "save"}, at: 0..LastMinute,
     key: Keys \cup {NoKey},
     status: {"none", "failed", "skipped_busy", "duplicate_occurrence", "started", "published"},
     doc: Document]

TypeInv ==
    /\ now \in 0..LastMinute
    /\ doc \in Document
    /\ Len(doc.telemetry) <= MaxDispatchTelemetry /\ Len(doc.reports) <= MaxReports
    /\ lock \in Actors \cup {NoActor}
    /\ job \in [Actors -> Job]
    /\ known \subseteq Keys /\ attempted \subseteq Keys /\ lost \subseteq attempted

Occurs(k, t) ==
    \/ k = StandupKey(t)
    \/ InWindow(Config, t) /\ k = CycleOccurrenceKey(Config, t)

\* The time the runner works with, or that its next tick will have at least.
Horizon == IF job[Runner].pc = "idle" THEN now ELSE job[Runner].at

InFlight(k) == job[Runner].pc \in {"record", "save"} /\ job[Runner].key = k

Recorded(k) ==
    \/ k \in StandupKeys /\ k[2] <= doc.lastStandup
    \/ k \in CycleKeys /\ doc.lastCycle # NoKey /\ NotAfter(k, doc.lastCycle)

SomeStandup == \E k \in known : k \in StandupKeys

\* The lock is held for the whole of an update, so its copy is the document.
SaverHoldsLock == \A a \in Actors : job[a].pc = "save" => lock = a /\ job[a].doc = doc

CallerJob(j) ==
    /\ j.pc # "due"
    /\ j.pc = "dispatch" \/ (j.pc \in {"record", "save"} /\ j.status # "published") =>
         j.key \in {"manual"} \X ManualKeys

RunnerJob(j) ==
    /\ j.pc # "idle" => j.at <= now
    /\ j.pc \in {"dispatch", "record", "save"} => Occurs(j.key, j.at)
    /\ j.pc = "dispatch" =>
         /\ j.key \in StandupKeys => doc.lastStandup # j.key[2]
         /\ j.key \in CycleKeys => doc.armed /\ doc.lastCycle # j.key
    /\ j.pc \in {"record", "save"} =>
         /\ j.status # "published"
         /\ j.key \in attempted
         /\ j.key \in StandupKeys /\ j.status = "started" => j.key \in known

JobsInv == (\A c \in Callers : CallerJob(job[c])) /\ RunnerJob(job[Runner])

HistoryInv ==
    /\ \A k \in attempted : \E t \in 0..Horizon : Occurs(k, t)
    /\ \A k \in attempted : k \in lost \/ InFlight(k) \/ Recorded(k)
    /\ doc.lastStandup # NoDay => <<"standup", doc.lastStandup>> \in attempted
    /\ doc.lastCycle # NoKey => doc.lastCycle \in attempted
    /\ doc.armed => SomeStandup
    /\ \A k \in known : k \in CycleKeys => SomeStandup

IInv == TypeInv /\ SaverHoldsLock /\ JobsInv /\ HistoryInv

-----------------------------------------------------------------------------
(***************************************************************************)
(* Keys and edits.                                                         *)
(***************************************************************************)
LEMMA KindsOfKeys ==
    /\ \A k \in StandupKeys : k[1] = "standup" /\ k[2] \in Int /\ k = <<"standup", k[2]>>
    /\ \A k \in CycleKeys : k[1] = "cycle" /\ k[2] \in Int /\ k[3] \in Int
                            /\ k = <<"cycle", k[2], k[3]>>
    /\ \A k \in {"manual"} \X ManualKeys : k[1] = "manual"
    /\ NoKey \notin Keys
    BY DEF StandupKeys, CycleKeys, Keys, NoKey

LEMMA ScheduledKeys ==
    ASSUME NEW k \in Keys
    PROVE  /\ Scheduled(k) <=> k \in StandupKeys \cup CycleKeys
           /\ k[1] = "standup" <=> k \in StandupKeys
           /\ k[1] = "cycle" <=> k \in CycleKeys
    BY KindsOfKeys DEF Scheduled, Keys

LEMMA OccurringKeys ==
    ASSUME NEW t \in Int, NEW k, Occurs(k, t)
    PROVE  /\ k \in StandupKeys \cup CycleKeys /\ k \in Keys
           /\ k \in StandupKeys => k = StandupKey(t) /\ k[2] = Day(t)
           /\ k \in CycleKeys => InWindow(Config, t) /\ k = CycleOccurrenceKey(Config, t)
<1>1. StandupKey(t) \in StandupKeys /\ StandupKey(t)[2] = Day(t)
    BY DayAndMinute DEF StandupKey, StandupKeys
<1>2. InWindow(Config, t) => CycleOccurrenceKey(Config, t) \in CycleKeys
    BY Elapsed DEF CycleOccurrenceKey, CycleKeys
<1>3. \A x \in StandupKeys : x \notin CycleKeys
    BY KindsOfKeys
<1> QED
    BY <1>1, <1>2, <1>3 DEF Occurs, Keys

LEMMA LaterDay ==
    ASSUME NEW t \in Int, NEW u \in Int, t <= u
    PROVE  Day(t) <= Day(u)
    BY QuotientsGrow, MinutesPerDayIsPositive DEF Day

LEMMA Prepended ==
    ASSUME NEW S, NEW e \in S, NEW seq \in Seq(S), NEW max \in Nat \ {0}, Len(seq) <= max
    PROVE  /\ Prepend(e, seq, max) \in Seq(S) /\ Len(Prepend(e, seq, max)) <= max
           /\ GrewAtFront(Prepend(e, seq, max), seq, max)
<1> DEFINE whole == <<e>> \o seq
           n == IF Len(seq) < max THEN Len(seq) + 1 ELSE max
           new == SubSeq(whole, 1, n)
<1>1. whole \in Seq(S) /\ Len(whole) = Len(seq) + 1 /\ whole[1] = e
    BY DEF whole
<1>2. n \in 1..Len(whole) /\ n <= max
    BY <1>1
<1> HIDE DEF whole, n
<1>3. new \in Seq(S) /\ Len(new) = n /\ new[1] = e
    BY <1>1, <1>2
<1>4. Prepend(e, seq, max) = new
    BY DEF Prepend, whole, n
<1> HIDE DEF new
<1>5. new # <<>> /\ Head(new) = e
    BY <1>2, <1>3
<1> QED
    BY <1>2, <1>3, <1>4, <1>5 DEF GrewAtFront

\* What a save makes of the document it holds.
LEMMA EditedDocument ==
    ASSUME NEW j \in Job, j.status # "published" => j.key \in Keys,
           Len(j.doc.telemetry) <= MaxDispatchTelemetry, Len(j.doc.reports) <= MaxReports
    PROVE  LET new == Edited(j)
           IN /\ new \in Document
              /\ Len(new.telemetry) <= MaxDispatchTelemetry /\ Len(new.reports) <= MaxReports
              /\ GrewAtFront(new.telemetry, j.doc.telemetry, MaxDispatchTelemetry)
              /\ GrewAtFront(new.reports, j.doc.reports, MaxReports)
              /\ new.lastStandup = IF j.status # "published" /\ j.key \in StandupKeys
                                   THEN Day(j.at) ELSE j.doc.lastStandup
              /\ new.lastCycle = IF j.status # "published" /\ j.key \in CycleKeys
                                 THEN j.key ELSE j.doc.lastCycle
              /\ new.armed = (j.doc.armed \/ (j.status = "started" /\ j.key \in StandupKeys))
<1> DEFINE d == j.doc
           new == Edited(j)
<1>1. /\ d \in Document /\ d.telemetry \in Seq(Keys)
      /\ d.reports \in Seq({"status", "published"})
      /\ d.armed \in BOOLEAN /\ j.at \in 0..LastMinute
    BY DEF Job, Document
<1>2. MaxDispatchTelemetry \in Nat \ {0} /\ MaxReports \in Nat \ {0}
    BY LimitsAreNat
<1>3. /\ GrewAtFront(d.telemetry, d.telemetry, MaxDispatchTelemetry)
      /\ GrewAtFront(d.reports, d.reports, MaxReports)
    BY DEF GrewAtFront
<1>4. CASE j.status = "published"
    <2> DEFINE r == Prepend("published", d.reports, MaxReports)
    <2>1. /\ r \in Seq({"status", "published"}) /\ Len(r) <= MaxReports
          /\ GrewAtFront(r, d.reports, MaxReports)
        BY <1>1, <1>2, Prepended
    <2>2. new = [d EXCEPT !.reports = r]
        BY <1>4 DEF Edited, RecordReport
    <2> HIDE DEF r, d
    <2>3. /\ new \in Document /\ new.telemetry = d.telemetry /\ new.reports = r
          /\ new.lastStandup = d.lastStandup /\ new.lastCycle = d.lastCycle
          /\ new.armed = d.armed
        BY <1>1, <2>1, <2>2 DEF Document
    <2>4. new.armed = (d.armed \/ (j.status = "started" /\ j.key \in StandupKeys))
        BY <1>1, <1>4, <2>3
    <2> QED
        BY <1>3, <1>4, <2>1, <2>3, <2>4 DEF d
<1>5. CASE j.status # "published"
    <2> DEFINE q == Prepend(j.key, d.telemetry, MaxDispatchTelemetry)
               p == Prepend("status", d.reports, MaxReports)
               r == IF Successful(j.status) THEN d.reports ELSE p
               taken == IF Scheduled(j.key) THEN TakeOccurrence(d, j) ELSE d
    <2>1. /\ q \in Seq(Keys) /\ Len(q) <= MaxDispatchTelemetry
          /\ GrewAtFront(q, d.telemetry, MaxDispatchTelemetry)
        BY <1>1, <1>2, <1>5, Prepended
    <2>2. /\ p \in Seq({"status", "published"}) /\ Len(p) <= MaxReports
          /\ GrewAtFront(p, d.reports, MaxReports)
        BY <1>1, <1>2, Prepended
    <2>3. /\ r \in Seq({"status", "published"}) /\ Len(r) <= MaxReports
          /\ GrewAtFront(r, d.reports, MaxReports)
        BY <1>1, <1>3, <2>2
    <2>4. Day(j.at) \in 0..Day(LastMinute)
        <3>1. Day(0) = 0
            BY MinutesPerDayIsPositive, Z3 DEF Day
        <3>2. Day(0) <= Day(j.at) /\ Day(j.at) <= Day(LastMinute)
            BY <1>1, LimitsAreNat, LaterDay
        <3>3. Day(j.at) \in Int /\ Day(LastMinute) \in Int
            BY <1>1, LimitsAreNat, DayAndMinute
        <3> QED
            BY <3>1, <3>2, <3>3
    <2>5. /\ Scheduled(j.key) <=> j.key \in StandupKeys \cup CycleKeys
          /\ j.key[1] = "standup" <=> j.key \in StandupKeys
          /\ j.key[1] = "cycle" <=> j.key \in CycleKeys
        BY <1>5, ScheduledKeys
    <2>6. /\ taken \in Document /\ taken.telemetry = d.telemetry /\ taken.reports = d.reports
          /\ taken.lastStandup = IF j.key \in StandupKeys THEN Day(j.at) ELSE d.lastStandup
          /\ taken.lastCycle = IF j.key \in CycleKeys THEN j.key ELSE d.lastCycle
          /\ taken.armed = (d.armed \/ (j.status = "started" /\ j.key \in StandupKeys))
        <3> HIDE DEF d
        <3>1. CASE j.key \in StandupKeys
            <4>1. taken = [d EXCEPT !.lastStandup = Day(j.at),
                                    !.armed = d.armed \/ Successful(j.status)]
                BY <2>5, <3>1 DEF TakeOccurrence
            <4>2. j.key \notin CycleKeys
                BY <3>1, KindsOfKeys
            <4>3. (d.armed \/ Successful(j.status)) \in BOOLEAN
                BY <1>1 DEF Successful
            <4>4. taken.armed = (d.armed \/ Successful(j.status))
                BY <1>1, <4>1 DEF Document
            <4>5. taken.armed = (d.armed \/ (j.status = "started" /\ j.key \in StandupKeys))
                BY <3>1, <4>4 DEF Successful
            <4> HIDE DEF taken
            <4>6. /\ taken.telemetry = d.telemetry /\ taken.reports = d.reports
                  /\ taken.lastStandup = Day(j.at) /\ taken.lastCycle = d.lastCycle
                BY <1>1, <4>1 DEF Document
            <4>7. taken \in Document
                BY <1>1, <2>4, <4>1, <4>3 DEF Document
            <4> QED
                BY <3>1, <4>2, <4>5, <4>6, <4>7
        <3>2. CASE j.key \in CycleKeys
            <4>1. j.key \notin StandupKeys
                BY <3>2, KindsOfKeys
            <4>2. taken = [d EXCEPT !.lastCycle = j.key]
                BY <2>5, <3>2, <4>1 DEF TakeOccurrence
            <4> HIDE DEF taken
            <4> QED
                BY <1>1, <3>2, <4>1, <4>2 DEF Document
        <3>3. CASE j.key \notin StandupKeys \cup CycleKeys
            BY <1>1, <2>5, <3>3
        <3> QED
            BY <3>1, <3>2, <3>3
    <2>7. new = [taken EXCEPT !.telemetry = q, !.reports = r]
        BY <1>5, <2>6 DEF Edited, RecordDispatch
    <2> HIDE DEF q, r, taken, d
    <2>8. /\ new \in Document /\ new.telemetry = q /\ new.reports = r
          /\ new.lastStandup = taken.lastStandup /\ new.lastCycle = taken.lastCycle
          /\ new.armed = taken.armed
        BY <2>1, <2>3, <2>6, <2>7 DEF Document
    <2> QED
        BY <1>5, <2>1, <2>3, <2>6, <2>8 DEF d
<1> QED
    BY <1>4, <1>5

-----------------------------------------------------------------------------
(***************************************************************************)
(* Every step keeps the invariant.                                         *)
(***************************************************************************)
LEMMA EmptyState == EmptyDocument \in Document /\ Idle \in Job
<1>1. EmptyDocument \in Document
    BY DEF EmptyDocument, Document
<1> QED
    BY <1>1, LimitsAreNat DEF Idle, Job

LEMMA InitIInv == Init => IInv
<1> SUFFICES ASSUME Init PROVE IInv
    OBVIOUS
<1>1. Len(doc.telemetry) = 0 /\ Len(doc.reports) = 0
    BY DEF Init, EmptyDocument
<1>2. TypeInv
    BY <1>1, EmptyState, LimitsAreNat DEF Init, TypeInv
<1>3. \A a \in Actors : job[a].pc = "idle"
    BY DEF Init, Idle
<1>4. SaverHoldsLock /\ JobsInv
    BY <1>3 DEF SaverHoldsLock, JobsInv, CallerJob, RunnerJob, Actors
<1>5. HistoryInv
    BY DEF Init, HistoryInv, EmptyDocument
<1> QED
    BY <1>2, <1>4, <1>5 DEF IInv

\* A step of one actor that touches neither the document nor the history of
\* attempts.
LEMMA OwnStep ==
    ASSUME IInv, UNCHANGED <<now, doc, known, attempted>>,
           NEW a \in Actors, NEW r \in Job, job' = [job EXCEPT ![a] = r],
           lock' \in Actors \cup {NoActor},
           lost \subseteq lost', lost' \subseteq attempted,
           r.pc = "save" => lock' = a /\ r.doc = doc,
           lock' = lock \/ \A b \in Actors : job[b].pc = "save" => b = a,
           a \in Callers => CallerJob(r),
           a = Runner =>
             /\ RunnerJob(r)
             /\ Horizon <= (IF r.pc = "idle" THEN now ELSE r.at)
             /\ \A k \in attempted : InFlight(k) =>
                  k \in lost' \/ (r.pc \in {"record", "save"} /\ r.key = k)
    PROVE  IInv'
<1>1. job'[a] = r /\ \A b \in Actors : b # a => job'[b] = job[b]
    BY DEF IInv, TypeInv
<1>2. TypeInv'
    BY DEF IInv, TypeInv
<1>3. SaverHoldsLock'
    BY <1>1 DEF IInv, SaverHoldsLock
<1>4. Runner \in Actors /\ Runner \notin Callers /\ Callers \subseteq Actors
    BY ActorsDiffer DEF Actors
<1>5. \A c \in Callers : CallerJob(job'[c])
    BY <1>1, <1>4 DEF IInv, JobsInv
<1>6. RunnerJob(job'[Runner])
    BY <1>1, <1>4 DEF IInv, JobsInv, Actors
<1>7. JobsInv'
    BY <1>5, <1>6 DEF JobsInv, CallerJob, RunnerJob
<1>8. Horizon <= Horizon' /\ Horizon \in Int /\ Horizon' \in Int
    BY <1>1, <1>2, <1>4, LimitsAreNat DEF IInv, TypeInv, Horizon, Job, Actors
<1>9. ASSUME NEW k \in attempted' PROVE \E t \in 0..Horizon' : Occurs(k, t)
    BY <1>8, <1>9 DEF IInv, HistoryInv
<1>10. ASSUME NEW k \in attempted' PROVE k \in lost' \/ InFlight(k)' \/ Recorded(k)'
    <2>1. k \in lost \/ InFlight(k) \/ Recorded(k)
        BY <1>10 DEF IInv, HistoryInv
    <2>2. InFlight(k) => k \in lost' \/ InFlight(k)'
        BY <1>1, <1>4, <1>10 DEF InFlight
    <2> QED
        BY <2>1, <2>2 DEF Recorded
<1>11. HistoryInv'
    BY <1>9, <1>10 DEF IInv, HistoryInv, SomeStandup, Occurs
<1> QED
    BY <1>2, <1>3, <1>7, <1>11 DEF IInv

LEMMA NobodyElseSaves ==
    ASSUME IInv, NEW a \in Actors, job[a].pc = "save"
    PROVE  \A b \in Actors : job[b].pc = "save" => b = a
    BY DEF IInv, SaverHoldsLock

LEMMA NobodySaves ==
    ASSUME IInv, lock = NoActor
    PROVE  \A b \in Actors : job[b].pc # "save"
    BY ActorsDiffer DEF IInv, SaverHoldsLock

LEMMA IdleJob ==
    ASSUME IInv
    PROVE  /\ Idle \in Job /\ CallerJob(Idle) /\ RunnerJob(Idle) /\ Idle.pc = "idle"
           /\ Horizon <= now /\ now \in 0..LastMinute
           /\ lock \in Actors \cup {NoActor} /\ lost \subseteq attempted
<1>1. Idle \in Job /\ Idle.pc = "idle"
    BY EmptyState DEF Idle
<1>2. CallerJob(Idle) /\ RunnerJob(Idle)
    BY <1>1 DEF CallerJob, RunnerJob
<1>3. Runner \in Actors
    BY DEF Actors
<1>4. Horizon <= now /\ now \in 0..LastMinute
    BY <1>3, LimitsAreNat DEF Horizon, IInv, TypeInv, JobsInv, RunnerJob
<1> QED
    BY <1>1, <1>2, <1>4 DEF IInv, TypeInv

LEMMA AdvanceIInv == IInv /\ Advance => IInv'
<1> SUFFICES ASSUME IInv, Advance PROVE IInv'
    OBVIOUS
<1>1. now \in 0..LastMinute /\ now' = now + 1 /\ now' \in 0..LastMinute
    BY LimitsAreNat DEF Advance, IInv, TypeInv
<1>2. TypeInv' /\ SaverHoldsLock'
    BY <1>1 DEF Advance, IInv, TypeInv, SaverHoldsLock
<1>3. Runner \in Actors /\ job[Runner] \in Job /\ job[Runner].at \in Int
    BY LimitsAreNat DEF IInv, TypeInv, Actors, Job
<1>4. JobsInv'
    BY <1>1, <1>3 DEF Advance, IInv, JobsInv, CallerJob, RunnerJob
<1>5. Horizon <= Horizon' /\ Horizon \in Int /\ Horizon' \in Int
    BY <1>1, <1>3 DEF Horizon, Advance
<1>6. ASSUME NEW k \in attempted' PROVE \E t \in 0..Horizon' : Occurs(k, t)
    BY <1>5, <1>6 DEF IInv, HistoryInv, Advance
<1>7. HistoryInv'
    BY <1>6 DEF Advance, IInv, HistoryInv, SomeStandup, Occurs, InFlight, Recorded
<1> QED
    BY <1>2, <1>4, <1>7 DEF IInv

LEMMA RunDueIInv == IInv /\ RunDue => IInv'
<1> SUFFICES ASSUME IInv, RunDue PROVE IInv'
    OBVIOUS
<1> DEFINE r == [Idle EXCEPT !.pc = "due", !.at = now]
<1>1. /\ r \in Job /\ r.pc = "due" /\ r.at = now
    BY IdleJob DEF Job, Idle
<1>2. job[Runner].pc = "idle" /\ Runner \in Actors /\ Runner \notin Callers
    BY ActorsDiffer DEF RunDue, Actors
<1>3. RunnerJob(r)
    BY <1>1, IdleJob DEF RunnerJob
<1>4. /\ UNCHANGED <<now, doc, known, attempted>> /\ UNCHANGED <<lock, lost>>
      /\ job' = [job EXCEPT ![Runner] = r]
    BY DEF RunDue
<1>5. \A k \in attempted : ~InFlight(k)
    BY <1>2 DEF InFlight
<1> HIDE DEF r
<1> QED
    BY <1>1, <1>2, <1>3, <1>4, <1>5, IdleJob, OwnStep

LEMMA RunWorkspaceDueIInv == IInv /\ RunWorkspaceDue => IInv'
<1> SUFFICES ASSUME IInv, RunWorkspaceDue PROVE IInv'
    OBVIOUS
<1>1. /\ job[Runner].pc = "due" /\ Runner \in Actors /\ Runner \notin Callers
      /\ job[Runner] \in Job
    BY ActorsDiffer DEF RunWorkspaceDue, Actors, IInv, TypeInv
<1>2. /\ UNCHANGED <<now, doc, known, attempted>> /\ UNCHANGED <<lock, lost>>
    BY DEF RunWorkspaceDue
<1>3. \A k \in attempted : ~InFlight(k)
    BY <1>1 DEF InFlight
<1>4. CASE job' = [job EXCEPT ![Runner] = Idle]
    BY <1>1, <1>2, <1>3, <1>4, IdleJob, OwnStep
<1>5. CASE /\ DueKey(job[Runner].at) # NoKey
           /\ job' = [job EXCEPT ![Runner].pc = "dispatch",
                                 ![Runner].key = DueKey(job[Runner].at)]
    <2> DEFINE t == job[Runner].at
               r == [job[Runner] EXCEPT !.pc = "dispatch", !.key = DueKey(t)]
    <2>1. t \in Int /\ t <= now /\ Horizon = t
        BY <1>1, LimitsAreNat DEF Job, IInv, JobsInv, RunnerJob, Horizon
    <2>2. Occurs(DueKey(t), t)
        BY <1>5 DEF DueKey, Occurs, CycleEligible
    <2>3. /\ DueKey(t) \in StandupKeys => doc.lastStandup # DueKey(t)[2]
          /\ DueKey(t) \in CycleKeys => doc.armed /\ doc.lastCycle # DueKey(t)
        <3>1. CASE StandupDue(Config, t) /\ doc.lastStandup # Day(t)
            <4>1. DueKey(t) = StandupKey(t)
                BY <3>1 DEF DueKey
            <4>2. DueKey(t) \notin CycleKeys /\ DueKey(t)[2] = Day(t)
                BY <4>1, KindsOfKeys DEF StandupKey
            <4> QED
                BY <3>1, <4>2
        <3>2. CASE ~(StandupDue(Config, t) /\ doc.lastStandup # Day(t))
            <4>1. /\ doc.armed /\ doc.lastCycle # CycleOccurrenceKey(Config, t)
                  /\ DueKey(t) = CycleOccurrenceKey(Config, t)
                BY <1>5, <3>2 DEF DueKey
            <4>2. DueKey(t) \notin StandupKeys
                BY <4>1, KindsOfKeys DEF CycleOccurrenceKey
            <4> QED
                BY <4>1, <4>2
        <3> QED
            BY <3>1, <3>2
    <2>4. DueKey(t) \in Keys
        BY <2>1, <2>2, OccurringKeys
    <2>5. r \in Job /\ r.pc = "dispatch" /\ r.at = t /\ r.key = DueKey(t)
        BY <1>1, <2>4 DEF Job
    <2>6. job' = [job EXCEPT ![Runner] = r]
        BY <1>1, <1>5
    <2> HIDE DEF r, t
    <2>7. RunnerJob(r)
        BY <2>1, <2>2, <2>3, <2>5 DEF RunnerJob
    <2>8. Horizon <= (IF r.pc = "idle" THEN now ELSE r.at) /\ r.pc # "save"
        BY <2>1, <2>5
    <2>9. r \in Job
        BY <2>5
    <2> QED
        BY <1>1, <1>2, <1>3, <2>6, <2>7, <2>8, <2>9, IdleJob, OwnStep
<1> QED
    BY <1>4, <1>5 DEF RunWorkspaceDue

LEMMA CallersBegin ==
    ASSUME IInv, NEW c \in Callers, RunManual(c) \/ PublishReport(c)
    PROVE  IInv'
<1>1. /\ UNCHANGED <<now, doc, known, attempted>> /\ UNCHANGED <<lock, lost>>
      /\ c \in Actors /\ c # Runner
    BY ActorsDiffer DEF RunManual, PublishReport, Actors
<1>2. PICK r \in Job : CallerJob(r) /\ r.pc # "save" /\ job' = [job EXCEPT ![c] = r]
    <2>1. CASE RunManual(c)
        <3>1. PICK k \in ManualKeys :
                job' = [job EXCEPT ![c] =
                          [Idle EXCEPT !.pc = "dispatch", !.key = <<"manual", k>>]]
            BY <2>1 DEF RunManual
        <3> DEFINE r == [Idle EXCEPT !.pc = "dispatch", !.key = <<"manual", k>>]
        <3>2. <<"manual", k>> \in {"manual"} \X ManualKeys
            OBVIOUS
        <3>3. r \in Job /\ r.pc = "dispatch" /\ r.key = <<"manual", k>>
            BY <3>2, IdleJob DEF Job, Idle, Keys
        <3>4. CallerJob(r)
            BY <3>2, <3>3 DEF CallerJob
        <3> QED
            BY <3>1, <3>3, <3>4
    <2>2. CASE PublishReport(c)
        <3> DEFINE r == [Idle EXCEPT !.pc = "record", !.status = "published"]
        <3>1. r \in Job /\ r.pc = "record" /\ r.status = "published"
            BY IdleJob DEF Job, Idle
        <3> QED
            BY <2>2, <3>1 DEF PublishReport, CallerJob
    <2> QED
        BY <2>1, <2>2
<1> QED
    BY <1>1, <1>2, IdleJob, OwnStep

LEMMA Actor ==
    ASSUME IInv, NEW a \in Actors
    PROVE  /\ job[a] \in Job
           /\ a \in Callers => a # Runner /\ CallerJob(job[a])
           /\ a \notin Callers => a = Runner /\ RunnerJob(job[a])
                                  /\ (job[a].pc # "idle" => Horizon = job[a].at)
    BY ActorsDiffer DEF Actors, IInv, TypeInv, JobsInv, Horizon

\* The key of a dispatch that is under way.
LEMMA DispatchedKey ==
    ASSUME IInv, NEW a \in Actors, 
           \/ job[a].pc = "dispatch"
           \/ job[a].pc \in {"record", "save"} /\ job[a].status # "published"
    PROVE  /\ job[a].key \in Keys
           /\ a \in Callers => /\ job[a].key \in {"manual"} \X ManualKeys
                              /\ job[a].key \notin StandupKeys /\ job[a].key \notin CycleKeys
           /\ a \notin Callers => job[a].key \in StandupKeys \cup CycleKeys
<1>1. CASE a \in Callers
    BY <1>1, Actor, KindsOfKeys DEF CallerJob, Keys
<1>2. CASE a \notin Callers
    <2>1. Occurs(job[a].key, job[a].at) /\ job[a].at \in Int
        BY <1>2, Actor, LimitsAreNat DEF RunnerJob, Job
    <2> QED
        BY <1>2, <2>1, OccurringKeys
<1> QED
    BY <1>1, <1>2

LEMMA DispatchIInv ==
    ASSUME IInv, NEW a \in Actors, Dispatch(a)
    PROVE  IInv'
<1>1. /\ job[a].pc = "dispatch" /\ UNCHANGED <<now, doc>> /\ UNCHANGED <<lock, lost>>
    BY DEF Dispatch
<1>2. CASE job' = [job EXCEPT ![a] = Idle] /\ UNCHANGED <<known, attempted>>
    <2>1. a = Runner => \A k \in attempted : ~InFlight(k)
        BY <1>1 DEF InFlight
    <2> QED
        BY <1>1, <1>2, <2>1, IdleJob, OwnStep
<1>3. ASSUME NEW answer \in HostAnswers(job[a].key),
             job' = [job EXCEPT ![a].pc = "record", ![a].status = answer.status],
             known' = IF answer.accepts THEN known \cup {job[a].key} ELSE known,
             attempted' = attempted \cup {k \in {job[a].key} : Scheduled(k)}
      PROVE  IInv'
    <2> DEFINE r == [job[a] EXCEPT !.pc = "record", !.status = answer.status]
    <2>0. PICK key : key = job[a].key
        OBVIOUS
    <2>1. /\ answer.status \in {"failed", "skipped_busy", "duplicate_occurrence", "started"}
          /\ answer.status = "started" => answer.accepts
        BY DEF HostAnswers
    <2>2. job[a] \in Job
        BY Actor
    <2>3. /\ r \in Job /\ r.pc = "record" /\ r.status = answer.status
          /\ r.at = job[a].at /\ r.key = key
        BY <2>0, <2>1, <2>2 DEF Job
    <2>4. job' = [job EXCEPT ![a] = r]
        BY <1>3
    <2> HIDE DEF r
    <2>5. job'[a] = r /\ \A b \in Actors : b # a => job'[b] = job[b]
        BY <2>4 DEF IInv, TypeInv
    <2>6. /\ key \in Keys
          /\ a \in Callers => key \notin StandupKeys /\ key \notin CycleKeys
                              /\ key \in {"manual"} \X ManualKeys
          /\ a \notin Callers => key \in StandupKeys \cup CycleKeys
        BY <1>1, <2>0, DispatchedKey
    <2>7. Scheduled(key) <=> key \in StandupKeys \cup CycleKeys
        BY <2>6, ScheduledKeys
    <2>8. /\ attempted' = IF a \in Callers THEN attempted ELSE attempted \cup {key}
          /\ known' \in {known, known \cup {key}}
          /\ answer.status = "started" => key \in known'
        BY <1>3, <2>0, <2>1, <2>6, <2>7
    <2>9. TypeInv'
        BY <1>1, <2>3, <2>4, <2>6, <2>8 DEF IInv, TypeInv
    <2>10. SaverHoldsLock'
        BY <1>1, <2>3, <2>5 DEF IInv, SaverHoldsLock
    <2>11. \A c \in Callers : CallerJob(job'[c])
        BY <2>3, <2>5, <2>6, Actor DEF IInv, JobsInv, CallerJob, Actors
    <2>12. RunnerJob(job[Runner])'
        <3>1. CASE a = Runner
            <4>1. RunnerJob(job[a]) /\ a \notin Callers
                BY <3>1, Actor, ActorsDiffer
            <4> QED
                BY <1>1, <2>0, <2>1, <2>3, <2>5, <2>8, <3>1, <4>1 DEF RunnerJob
        <3>2. CASE a # Runner
            <4>1. job'[Runner] = job[Runner] /\ RunnerJob(job[Runner])
                BY <2>5, <3>2 DEF Actors, IInv, JobsInv
            <4> QED
                BY <1>1, <2>8, <4>1 DEF RunnerJob
        <3> QED
            BY <3>1, <3>2
    <2>13. JobsInv'
        BY <2>11, <2>12 DEF JobsInv, CallerJob, RunnerJob
    <2>14. Horizon' = Horizon /\ Horizon \in Int
        <3>1. Runner \in Actors /\ job[Runner] \in Job
            BY DEF Actors, IInv, TypeInv
        <3>2. job'[Runner].at = job[Runner].at
            BY <2>3, <2>5, <3>1
        <3>3. job'[Runner].pc = "idle" <=> job[Runner].pc = "idle"
            BY <1>1, <2>3, <2>5, <3>1
        <3> QED
            BY <1>1, <3>1, <3>2, <3>3, IdleJob, LimitsAreNat DEF Horizon, Job
    <2>15. a \notin Callers => a = Runner /\ InFlight(key)' /\ Horizon = job[a].at
                               /\ Occurs(key, Horizon)
        BY <1>1, <2>0, <2>3, <2>5, Actor DEF InFlight, RunnerJob
    <2>16. a \notin Callers => Horizon \in 0..Horizon
        BY <2>2, <2>14, <2>15, LimitsAreNat DEF Job
    <2>17. \A k \in attempted' : \E t \in 0..Horizon' : Occurs(k, t)
        BY <2>8, <2>14, <2>15, <2>16 DEF IInv, HistoryInv
    <2>18. \A k \in attempted : InFlight(k) => InFlight(k)'
        BY <1>1, <2>3, <2>5 DEF InFlight, Actors
    <2>19. ASSUME NEW k \in attempted' PROVE k \in lost' \/ InFlight(k)' \/ Recorded(k)'
        <3>1. CASE k \in attempted
            BY <1>1, <2>18, <3>1 DEF IInv, HistoryInv, Recorded
        <3>2. CASE k \notin attempted
            BY <2>8, <2>15, <2>19, <3>2
        <3> QED
            BY <3>1, <3>2
    <2>20. key \in CycleKeys => doc.armed
        BY <1>1, <2>0, <2>6, Actor DEF RunnerJob
    <2>21. SomeStandup => SomeStandup'
        BY <2>8 DEF SomeStandup
    <2>22. \A k \in known' : k \in CycleKeys => SomeStandup'
        BY <2>8, <2>20, <2>21 DEF IInv, HistoryInv
    <2>23. HistoryInv'
        BY <1>1, <2>8, <2>17, <2>19, <2>21, <2>22 DEF IInv, HistoryInv, Occurs
    <2> QED
        BY <2>9, <2>10, <2>13, <2>23 DEF IInv
<1> QED
    BY <1>2, <1>3 DEF Dispatch

LEMMA LoadDocumentIInv ==
    ASSUME IInv, NEW a \in Actors, LoadDocument(a)
    PROVE  IInv'
<1> DEFINE r == [job[a] EXCEPT !.pc = "save", !.doc = doc]
<1>1. /\ UNCHANGED <<now, doc, known, attempted>> /\ lost' = lost /\ lock' = a
      /\ job[a].pc = "record" /\ lock = NoActor
    BY DEF LoadDocument
<1>2. job[a] \in Job /\ doc \in Document
    BY Actor DEF IInv, TypeInv
<1>3. /\ r \in Job /\ r.pc = "save" /\ r.doc = doc /\ r.at = job[a].at
      /\ r.key = job[a].key /\ r.status = job[a].status
    BY <1>2 DEF Job
<1>4. job' = [job EXCEPT ![a] = r]
    BY DEF LoadDocument
<1> HIDE DEF r
<1>5. a \in Callers => CallerJob(r)
    BY <1>1, <1>3, Actor DEF CallerJob
<1>6. a = Runner => RunnerJob(r)
    BY <1>1, <1>3, Actor, ActorsDiffer DEF RunnerJob
<1>7. Horizon \in Int /\ (a = Runner => Horizon = r.at)
    BY <1>1, <1>3, Actor, ActorsDiffer, IdleJob, LimitsAreNat DEF Horizon, Job, Actors, IInv, TypeInv
<1>8. a = Runner => Horizon <= (IF r.pc = "idle" THEN now ELSE r.at)
    BY <1>3, <1>7
<1>9. a = Runner => \A k \in attempted : InFlight(k) =>
         k \in lost' \/ (r.pc \in {"record", "save"} /\ r.key = k)
    BY <1>3 DEF InFlight
<1>10. \A b \in Actors : job[b].pc = "save" => b = a
    BY <1>1, NobodySaves
<1>11. lock' \in Actors \cup {NoActor} /\ lost \subseteq lost' /\ lost' \subseteq attempted
    BY <1>1, IdleJob
<1>12. r.pc = "save" => lock' = a /\ r.doc = doc
    BY <1>1, <1>3
<1>13. r \in Job
    BY <1>3
<1> QED
    BY <1>1, <1>4, <1>5, <1>6, <1>8, <1>9, <1>10, <1>11, <1>12, <1>13, OwnStep

\* What a dispatch that ends unrecorded loses was attempted.
LEMMA LosingInFlight ==
    ASSUME IInv, NEW a \in Actors
    PROVE  /\ Losing(a) \subseteq attempted
           /\ a = Runner => \A k : InFlight(k) => k \in Losing(a)
<1>1. CASE a \in Callers
    <2>1. Losing(a) = {}
        BY <1>1, DispatchedKey, ScheduledKeys DEF Losing, Unfinished
    <2> QED
        BY <1>1, <2>1, ActorsDiffer
<1>2. CASE a \notin Callers
    <2>1. a = Runner /\ RunnerJob(job[a])
        BY <1>2, Actor
    <2>2. CASE job[a].pc \in {"record", "save"}
        <3>1. job[a].status # "published" /\ job[a].key \in attempted
            BY <2>1, <2>2 DEF RunnerJob
        <3>2. Scheduled(job[a].key)
            BY <1>2, <2>2, <3>1, DispatchedKey, ScheduledKeys
        <3> QED
            BY <2>1, <2>2, <3>1, <3>2 DEF Losing, Unfinished, InFlight
    <2>3. CASE job[a].pc \notin {"record", "save"}
        BY <2>1, <2>3 DEF Losing, Unfinished, InFlight
    <2> QED
        BY <2>2, <2>3
<1> QED
    BY <1>1, <1>2

\* A load or a save fails: the actor is idle again.
LEMMA FailsIInv ==
    ASSUME IInv, NEW a \in Actors, LoadFails(a) \/ SaveFails(a)
    PROVE  IInv'
<1>1. /\ UNCHANGED <<now, doc, known, attempted>>
      /\ job' = [job EXCEPT ![a] = Idle] /\ lost' = lost \cup Losing(a)
    BY DEF LoadFails, SaveFails
<1>2. lost \subseteq lost' /\ lost' \subseteq attempted
    BY <1>1, LosingInFlight, IdleJob
<1>3. lock' \in Actors \cup {NoActor}
    BY IdleJob DEF LoadFails, SaveFails
<1>4. lock' = lock \/ \A b \in Actors : job[b].pc = "save" => b = a
    BY NobodyElseSaves DEF LoadFails, SaveFails
<1>5. a = Runner => \A k \in attempted : InFlight(k) => k \in lost'
    BY <1>1, LosingInFlight
<1> QED
    BY <1>1, <1>2, <1>3, <1>4, <1>5, IdleJob, OwnStep

LEMMA CrashIInv == IInv /\ Crash => IInv'
<1> SUFFICES ASSUME IInv, Crash PROVE IInv'
    OBVIOUS
<1>1. /\ UNCHANGED <<now, doc, known, attempted>> /\ lock' = NoActor
      /\ job' = [a \in Actors |-> Idle]
      /\ lost' = lost \cup UNION {Losing(a) : a \in Actors}
    BY DEF Crash
<1>2. Runner \in Actors /\ Callers \subseteq Actors
    BY DEF Actors
<1>3. lost' \subseteq attempted /\ \A k : InFlight(k) => k \in lost'
    BY <1>1, <1>2, LosingInFlight, IdleJob
<1>4. TypeInv'
    BY <1>1, <1>3, IdleJob DEF IInv, TypeInv
<1>5. SaverHoldsLock'
    BY <1>1, IdleJob DEF SaverHoldsLock
<1>6. JobsInv'
    <2>1. \A c \in Callers : CallerJob(job'[c])
        BY <1>1, <1>2, IdleJob
    <2>2. RunnerJob(job[Runner])'
        BY <1>1, <1>2, IdleJob DEF RunnerJob
    <2> QED
        BY <2>1, <2>2 DEF JobsInv, CallerJob
<1>7. Horizon' = now /\ Horizon <= Horizon' /\ Horizon \in Int /\ now \in Int
    <2>1. Horizon' = now
        BY <1>1, <1>2, IdleJob DEF Horizon
    <2>2. Horizon \in Int
        BY <1>2, IdleJob, LimitsAreNat DEF Horizon, IInv, TypeInv, Job
    <2> QED
        BY <2>1, <2>2, IdleJob, LimitsAreNat
<1>8. ASSUME NEW k \in attempted' PROVE \E t \in 0..Horizon' : Occurs(k, t)
    BY <1>1, <1>7, <1>8 DEF IInv, HistoryInv
<1>9. HistoryInv'
    BY <1>1, <1>3, <1>8 DEF IInv, HistoryInv, SomeStandup, Occurs, Recorded
<1> QED
    BY <1>4, <1>5, <1>6, <1>9 DEF IInv

LEMMA SavedDocument ==
    ASSUME IInv, NEW a \in Actors, SaveDocument(a)
    PROVE  LET j == job[a]
               marks == j.status # "published" /\ a \notin Callers
           IN /\ doc' \in Document
              /\ Len(doc'.telemetry) <= MaxDispatchTelemetry
              /\ Len(doc'.reports) <= MaxReports
              /\ GrewAtFront(doc'.telemetry, doc.telemetry, MaxDispatchTelemetry)
              /\ GrewAtFront(doc'.reports, doc.reports, MaxReports)
              /\ doc'.lastStandup = IF marks /\ j.key \in StandupKeys
                                    THEN Day(j.at) ELSE doc.lastStandup
              /\ doc'.lastCycle = IF marks /\ j.key \in CycleKeys
                                  THEN j.key ELSE doc.lastCycle
              /\ doc'.armed = (doc.armed \/ (j.status = "started" /\ marks
                                             /\ j.key \in StandupKeys))
<1> DEFINE j == job[a]
<1>1. j \in Job /\ j.pc = "save" /\ doc' = Edited(j)
    BY Actor DEF SaveDocument
<1>2. j.doc = doc
    BY <1>1 DEF IInv, SaverHoldsLock
<1>3. j.status # "published" => j.key \in Keys
    BY <1>1, DispatchedKey
<1>4. j.status # "published" /\ a \in Callers =>
         j.key \notin StandupKeys /\ j.key \notin CycleKeys
    BY <1>1, DispatchedKey
<1>5. Len(j.doc.telemetry) <= MaxDispatchTelemetry /\ Len(j.doc.reports) <= MaxReports
    BY <1>2 DEF IInv, TypeInv
<1> HIDE DEF j
<1> DEFINE new == Edited(j)
<1>6. /\ new \in Document
      /\ Len(new.telemetry) <= MaxDispatchTelemetry /\ Len(new.reports) <= MaxReports
      /\ GrewAtFront(new.telemetry, j.doc.telemetry, MaxDispatchTelemetry)
      /\ GrewAtFront(new.reports, j.doc.reports, MaxReports)
      /\ new.lastStandup = IF j.status # "published" /\ j.key \in StandupKeys
                           THEN Day(j.at) ELSE j.doc.lastStandup
      /\ new.lastCycle = IF j.status # "published" /\ j.key \in CycleKeys
                         THEN j.key ELSE j.doc.lastCycle
      /\ new.armed = (j.doc.armed \/ (j.status = "started" /\ j.key \in StandupKeys))
    BY <1>1, <1>3, <1>5, EditedDocument
<1>7. doc' = new
    BY <1>1
<1> HIDE DEF new
<1> QED
    BY <1>2, <1>4, <1>6, <1>7 DEF j

LEMMA SaveDocumentIInv ==
    ASSUME IInv, NEW a \in Actors, SaveDocument(a)
    PROVE  IInv'
<1>1. /\ job[a].pc = "save" /\ UNCHANGED <<now, known, attempted, lost>>
      /\ job' = [job EXCEPT ![a] = Idle] /\ lock' = NoActor
    BY DEF SaveDocument
<1>2. PICK key, at, status : key = job[a].key /\ at = job[a].at /\ status = job[a].status
    OBVIOUS
<1>3. job'[a] = Idle /\ \A b \in Actors : b # a => job'[b] = job[b]
    BY <1>1 DEF IInv, TypeInv
<1>4. TypeInv'
    BY <1>1, <1>3, SavedDocument, IdleJob DEF IInv, TypeInv
<1>5. SaverHoldsLock'
    BY <1>1, <1>3, NobodyElseSaves, IdleJob DEF SaverHoldsLock
<1>6. \A c \in Callers : CallerJob(job'[c])
    BY <1>3, IdleJob DEF IInv, JobsInv, Actors
<1>7. Runner \in Actors /\ job[Runner] \in Job /\ now \in Int
    BY IdleJob, LimitsAreNat DEF Actors, IInv, TypeInv
<1>8. Horizon <= Horizon' /\ Horizon \in Int /\ Horizon' \in Int
    <2>1. Horizon \in Int
        BY <1>7, LimitsAreNat DEF Horizon, Job
    <2>2. Horizon' = now \/ Horizon' = Horizon
        BY <1>1, <1>3, <1>7, IdleJob DEF Horizon
    <2> QED
        BY <1>7, <2>1, <2>2, IdleJob
<1>9. \A k \in attempted' : \E t \in 0..Horizon' : Occurs(k, t)
    BY <1>1, <1>8 DEF IInv, HistoryInv
<1>10. CASE a \in Callers
    <2>1. /\ doc'.lastStandup = doc.lastStandup /\ doc'.lastCycle = doc.lastCycle
          /\ doc'.armed = doc.armed
        BY <1>10, SavedDocument DEF IInv, TypeInv, Document
    <2>2. job'[Runner] = job[Runner]
        BY <1>3, <1>7, <1>10, ActorsDiffer
    <2>3. RunnerJob(job[Runner])'
        BY <1>1, <2>1, <2>2 DEF IInv, JobsInv, RunnerJob
    <2>4. \A k : InFlight(k)' <=> InFlight(k)
        BY <2>2 DEF InFlight
    <2>5. \A k : Recorded(k)' <=> Recorded(k)
        BY <2>1 DEF Recorded
    <2>6. HistoryInv'
        BY <1>1, <1>9, <2>1, <2>4, <2>5 DEF IInv, HistoryInv, SomeStandup, Occurs
    <2> QED
        BY <1>4, <1>5, <1>6, <2>3, <2>6 DEF IInv, JobsInv, CallerJob
<1>11. CASE a \notin Callers
    <2>1. a = Runner /\ RunnerJob(job[a]) /\ Horizon = at
        BY <1>1, <1>2, <1>11, Actor
    <2>2. /\ status # "published" /\ key \in attempted /\ Occurs(key, at) /\ at \in Int
          /\ key \in StandupKeys /\ status = "started" => key \in known
        BY <1>1, <1>2, <1>8, <2>1 DEF RunnerJob
    <2>3. /\ doc'.lastStandup = IF key \in StandupKeys THEN Day(at) ELSE doc.lastStandup
          /\ doc'.lastCycle = IF key \in CycleKeys THEN key ELSE doc.lastCycle
          /\ doc'.armed = (doc.armed \/ (status = "started" /\ key \in StandupKeys))
        BY <1>2, <1>11, <2>2, SavedDocument
    <2>4. /\ key \in StandupKeys => key = StandupKey(at) /\ key[2] = Day(at)
          /\ key \in CycleKeys => InWindow(Config, at) /\ key = CycleOccurrenceKey(Config, at)
        BY <2>2, OccurringKeys
    <2>5. RunnerJob(job[Runner])'
        BY <1>3, <1>7, <2>1, IdleJob DEF RunnerJob
    <2>6. ASSUME NEW k \in attempted PROVE k \in lost' \/ Recorded(k)'
        <3>1. PICK t \in 0..Horizon : Occurs(k, t)
            BY <2>6 DEF IInv, HistoryInv
        <3>2. t \in Int /\ t <= at
            BY <1>8, <2>1, <3>1
        <3>3. /\ k \in StandupKeys => k = StandupKey(t) /\ k[2] = Day(t)
              /\ k \in CycleKeys => InWindow(Config, t) /\ k = CycleOccurrenceKey(Config, t)
            BY <3>1, <3>2, OccurringKeys
        <3>4. CASE k \in StandupKeys /\ key \in StandupKeys
            BY <2>2, <2>3, <3>2, <3>3, <3>4, LaterDay DEF Recorded
        <3>5. CASE k \in CycleKeys /\ key \in CycleKeys
            <4>1. NotAfter(k, key)
                BY <2>2, <2>4, <3>2, <3>3, <3>5, LaterCycle
            <4>2. key # NoKey
                BY <3>5, KindsOfKeys DEF Keys
            <4> QED
                BY <2>3, <3>5, <4>1, <4>2 DEF Recorded
        <3>6. CASE ~(k \in StandupKeys /\ key \in StandupKeys)
                   /\ ~(k \in CycleKeys /\ key \in CycleKeys)
            <4>1. k # key
                BY <2>2, <3>6, OccurringKeys
            <4>2. k \in lost \/ Recorded(k)
                BY <1>2, <2>1, <2>6, <4>1 DEF IInv, HistoryInv, InFlight
            <4>3. Recorded(k) => Recorded(k)'
                BY <2>3, <3>6 DEF Recorded
            <4> QED
                BY <1>1, <4>2, <4>3
        <3> QED
            BY <3>4, <3>5, <3>6
    <2>7. doc'.lastStandup # NoDay => <<"standup", doc'.lastStandup>> \in attempted
        BY <2>2, <2>3, <2>4 DEF IInv, HistoryInv, StandupKey
    <2>8. doc'.lastCycle # NoKey => doc'.lastCycle \in attempted
        BY <2>2, <2>3 DEF IInv, HistoryInv
    <2>9. doc'.armed => SomeStandup
        BY <2>2, <2>3 DEF IInv, HistoryInv, SomeStandup
    <2>10. HistoryInv'
        BY <1>1, <1>9, <2>6, <2>7, <2>8, <2>9 DEF IInv, HistoryInv, SomeStandup, Occurs
    <2> QED
        BY <1>4, <1>5, <1>6, <2>5, <2>10 DEF IInv, JobsInv, CallerJob
<1> QED
    BY <1>10, <1>11

LEMMA NextIInv == IInv /\ [Next]_vars => IInv'
<1> SUFFICES ASSUME IInv, [Next]_vars PROVE IInv'
    OBVIOUS
<1>1. CASE UNCHANGED vars
    BY <1>1 DEF vars, IInv, TypeInv, SaverHoldsLock, JobsInv, CallerJob, RunnerJob,
                HistoryInv, SomeStandup, Occurs, InFlight, Recorded, Horizon
<1>2. ASSUME NEW a \in Actors, Carry(a) PROVE IInv'
    BY <1>2, DispatchIInv, LoadDocumentIInv, FailsIInv, SaveDocumentIInv DEF Carry
<1> QED
    BY <1>1, <1>2, AdvanceIInv, RunDueIInv, RunWorkspaceDueIInv, CrashIInv, CallersBegin
       DEF Next

LEMMA Inductive == Spec => []IInv
    BY InitIInv, NextIInv, PTL DEF Spec

-----------------------------------------------------------------------------
\* The document stays within its limits, and only an attempt is ever lost.
THEOREM TypeCorrect == Spec => []TypeOK
<1>1. IInv => TypeOK
    BY DEF IInv, TypeInv, Document, TypeOK
<1> QED
    BY <1>1, Inductive, PTL

\* The host accepts a scheduled cycle only after a scheduled standup, in
\* whatever order manual calls, failures and restarts come (dispatchAndRecord).
THEOREM CyclesWaitForAStandup == Spec => []CyclesFollowAStandup
<1>1. IInv => CyclesFollowAStandup
    BY ScheduledKeys DEF IInv, TypeInv, HistoryInv, SomeStandup, CyclesFollowAStandup
<1> QED
    BY <1>1, Inductive, PTL

\* The scheduler dispatches no occurrence twice unless the record of the first
\* time was lost (RunWorkspaceDue, dispatchAndRecord).
THEOREM EachOccurrenceOnce == Spec => []DispatchedOnce
<1>1. IInv => DispatchedOnce
    <2> SUFFICES ASSUME IInv, job[Runner].pc = "dispatch",
                        job[Runner].key \in attempted, job[Runner].key \notin lost
                 PROVE  FALSE
        BY DEF DispatchedOnce
    <2> DEFINE key == job[Runner].key
               at == job[Runner].at
    <2>1. RunnerJob(job[Runner]) /\ Horizon = at /\ at \in Int
        BY ActorsDiffer, Actor, LimitsAreNat DEF Actors, Job
    <2>2. Occurs(key, at)
        BY <2>1 DEF RunnerJob
    <2>3. Recorded(key)
        BY DEF IInv, HistoryInv, InFlight
    <2>4. CASE key \in StandupKeys
        <3>1. doc.lastStandup # Day(at) /\ Day(at) <= doc.lastStandup
            BY <2>1, <2>2, <2>3, <2>4, OccurringKeys, KindsOfKeys DEF RunnerJob, Recorded
        <3>2. Day(at) \in Int /\ doc.lastStandup \in Int
            <4>1. Day(at) \in Int /\ Day(LastMinute) \in Int
                BY <2>1, LimitsAreNat, DayAndMinute
            <4>2. doc.lastStandup \in {NoDay} \cup 0..Day(LastMinute)
                BY DEF IInv, TypeInv, Document
            <4> QED
                BY <4>1, <4>2 DEF NoDay
        <3>3. 0 <= Day(at)
            <4>1. Day(0) = 0
                BY MinutesPerDayIsPositive, Z3 DEF Day
            <4>2. 0 <= at
                BY LimitsAreNat DEF Actors, IInv, TypeInv, Job
            <4> QED
                BY <2>1, <4>1, <4>2, LaterDay
        <3>4. <<"standup", doc.lastStandup>> \in attempted
            BY <3>1, <3>2, <3>3 DEF IInv, HistoryInv, NoDay
        <3>5. PICK t \in 0..at : Occurs(<<"standup", doc.lastStandup>>, t)
            BY <2>1, <3>4 DEF IInv, HistoryInv
        <3>6. <<"standup", doc.lastStandup>> \in StandupKeys
            BY <3>2 DEF StandupKeys
        <3>7. t \in Int /\ t <= at /\ doc.lastStandup = Day(t)
            BY <2>1, <3>5, <3>6, OccurringKeys
        <3>8. doc.lastStandup <= Day(at)
            BY <2>1, <3>7, LaterDay
        <3> QED
            BY <3>1, <3>2, <3>8
    <2>5. CASE key \in CycleKeys
        <3>1. doc.lastCycle # key /\ doc.lastCycle # NoKey /\ NotAfter(key, doc.lastCycle)
            BY <2>1, <2>3, <2>5, KindsOfKeys DEF RunnerJob, Recorded
        <3>2. doc.lastCycle \in attempted /\ doc.lastCycle \in CycleKeys
            BY <3>1 DEF IInv, HistoryInv, TypeInv, Document
        <3>3. PICK t \in 0..at : Occurs(doc.lastCycle, t)
            BY <2>1, <3>2 DEF IInv, HistoryInv
        <3>4. /\ t \in Int /\ t <= at
              /\ InWindow(Config, t) /\ doc.lastCycle = CycleOccurrenceKey(Config, t)
            BY <2>1, <3>2, <3>3, OccurringKeys
        <3>5. InWindow(Config, at) /\ key = CycleOccurrenceKey(Config, at)
            BY <2>1, <2>2, <2>5, OccurringKeys
        <3>6. NotAfter(doc.lastCycle, key)
            BY <2>1, <3>4, <3>5, LaterCycle
        <3> QED
            BY <2>5, <3>1, <3>2, <3>6, KindsOfKeys DEF NotAfter
    <2> QED
        BY <2>1, <2>2, <2>4, <2>5, OccurringKeys
<1> QED
    BY <1>1, Inductive, PTL

\* A day or slot is marked only by an attempt at it (TakeOccurrence).
THEOREM MarksAreAttempts == Spec => []RecordedWasAttempted
<1>1. IInv => RecordedWasAttempted
    BY DEF IInv, HistoryInv, RecordedWasAttempted
<1> QED
    BY <1>1, Inductive, PTL

\* No save drops what another actor recorded (updateDocument).
THEOREM NothingRecordedIsDropped == Spec => RecordsAreKept
<1> DEFINE Kept == /\ GrewAtFront(doc'.telemetry, doc.telemetry, MaxDispatchTelemetry)
                   /\ GrewAtFront(doc'.reports, doc.reports, MaxReports)
                   /\ doc.armed => doc'.armed
<1>1. IInv /\ [Next]_vars => [Kept]_doc
    <2> SUFFICES ASSUME IInv, [Next]_vars, doc' # doc PROVE Kept
        OBVIOUS
    <2>1. PICK a \in Actors : SaveDocument(a)
        BY DEF Next, vars, Advance, RunDue, RunWorkspaceDue, Crash, RunManual, PublishReport,
               Carry, Dispatch, LoadDocument, LoadFails, SaveFails
    <2> QED
        BY <2>1, SavedDocument
<1> QED
    BY <1>1, Inductive, PTL DEF Spec, RecordsAreKept
=============================================================================
