----------------------------- MODULE Scheduler ------------------------------
(***************************************************************************)
(* One workspace of the coordinator plugin: the runner that dispatches the *)
(* due standup or monitoring cycle, the callers of the manual actions and  *)
(* of publish_report, and the workspace document they all rewrite under an *)
(* in-process lock (server/coordinator/scheduler.go, state.go, plugin.go). *)
(* The host keeps the document and the conversation; it is external.       *)
(***************************************************************************)
EXTENDS Cadence, Sequences

CONSTANTS Config,                \* the installation's settings
          Runner, Callers,       \* the scheduler's goroutine; action and tool calls
          NoActor,               \* the holder of a free lock
          ManualKeys,            \* idempotency keys the callers use
          MaxDispatchTelemetry, MaxReports,  \* 200 and 200 in the code
          LastMinute             \* bound on time

Actors == {Runner} \cup Callers

ASSUME ConfigIsValid == Config \in Configs({Config.interval}) /\ Config.interval \in Nat \ {0}
ASSUME LimitsAreNat ==
    LastMinute \in Nat /\ MaxDispatchTelemetry \in Nat \ {0} /\ MaxReports \in Nat \ {0}
ASSUME ActorsDiffer == Runner \notin Callers /\ NoActor \notin Actors

VARIABLES now,        \* local time
          doc,        \* the workspace document the host stores
          lock,       \* who is inside updateDocument
          job,        \* what each actor is doing
          known,      \* external: occurrence keys the conversation accepted
          attempted,  \* history: scheduled keys the scheduler dispatched
          lost        \* history: scheduled keys dispatched but never recorded

vars == <<now, doc, lock, job, known, attempted, lost>>

NoKey == <<>>
NoDay == -1

\* emptyDocument; telemetry, of which the keys are kept, and reports are newest
\* first.
EmptyDocument == [armed |-> FALSE, lastStandup |-> NoDay, lastCycle |-> NoKey,
                  telemetry |-> <<>>, reports |-> <<>>]

Idle == [pc |-> "idle", at |-> 0, key |-> NoKey, status |-> "none",
         doc |-> EmptyDocument]

Scheduled(key) == key[1] \in {"standup", "cycle"}
Successful(status) == status = "started"
Unfinished(a) == job[a].pc \in {"record", "save"} /\ job[a].status # "published"

Init ==
    /\ now = 0
    /\ doc = EmptyDocument
    /\ lock = NoActor
    /\ job = [a \in Actors |-> Idle]
    /\ known = {}
    /\ attempted = {}
    /\ lost = {}

-----------------------------------------------------------------------------
Advance ==
    /\ now < LastMinute
    /\ now' = now + 1
    /\ UNCHANGED <<doc, lock, job, known, attempted, lost>>

\* A tick: the runner takes the time once and works with it.
RunDue ==
    /\ job[Runner].pc = "idle"
    /\ job' = [job EXCEPT ![Runner] = [Idle EXCEPT !.pc = "due", !.at = now]]
    /\ UNCHANGED <<now, doc, lock, known, attempted, lost>>

\* The key that is due at t, if any; a due standup goes before any cycle.
DueKey(t) ==
    IF StandupDue(Config, t) /\ doc.lastStandup # Day(t) THEN StandupKey(t)
    ELSE IF /\ doc.armed
            /\ CycleEligible(Config, t)
            /\ doc.lastCycle # CycleOccurrenceKey(Config, t)
    THEN CycleOccurrenceKey(Config, t)
    ELSE NoKey

\* readState under the lock. Nothing to do as well when no step is selected or
\* the host does not answer.
RunWorkspaceDue ==
    /\ job[Runner].pc = "due"
    /\ lock = NoActor
    /\ \/ job' = [job EXCEPT ![Runner] = Idle]
       \/ /\ DueKey(job[Runner].at) # NoKey
          /\ job' = [job EXCEPT ![Runner].pc = "dispatch",
                                ![Runner].key = DueKey(job[Runner].at)]
    /\ UNCHANGED <<now, doc, lock, known, attempted, lost>>

\* run-cycle and run-standup, which only the prompt tells apart: the key is the
\* caller's own, and the time only stamps the record.
RunManual(a) ==
    /\ job[a].pc = "idle"
    /\ \E k \in ManualKeys :
         job' = [job EXCEPT ![a] = [Idle EXCEPT !.pc = "dispatch", !.key = <<"manual", k>>]]
    /\ UNCHANGED <<now, doc, lock, known, attempted, lost>>

PublishReport(a) ==
    /\ job[a].pc = "idle"
    /\ job' = [job EXCEPT ![a] = [Idle EXCEPT !.pc = "record", !.status = "published"]]
    /\ UNCHANGED <<now, doc, lock, known, attempted, lost>>

\* External: the answers of the conversation to a key, and whether it accepts.
\* It starts a key at most once; the answer, or the call, may be lost.
HostAnswers(key) ==
    {[status |-> "failed", accepts |-> FALSE], [status |-> "skipped_busy", accepts |-> FALSE]}
    \cup IF key \in known THEN {[status |-> "duplicate_occurrence", accepts |-> FALSE]}
         ELSE {[status |-> "started", accepts |-> TRUE], [status |-> "failed", accepts |-> TRUE]}

\* dispatchOccurrence: selected steps may be gone by now, which is not recorded.
Dispatch(a) ==
    /\ job[a].pc = "dispatch"
    /\ \/ /\ job' = [job EXCEPT ![a] = Idle]
          /\ UNCHANGED <<known, attempted>>
       \/ \E answer \in HostAnswers(job[a].key) :
            /\ job' = [job EXCEPT ![a].pc = "record", ![a].status = answer.status]
            /\ known' = IF answer.accepts THEN known \cup {job[a].key} ELSE known
            /\ attempted' = attempted \cup {k \in {job[a].key} : Scheduled(k)}
    /\ UNCHANGED <<now, doc, lock, lost>>

-----------------------------------------------------------------------------
\* Mutant: nothing is cut off.
PrependUncapped(entry, seq, max) == <<entry>> \o seq

\* Prepending to a sequence kept to max entries.
Prepend(entry, seq, max) ==
    SubSeq(<<entry>> \o seq, 1, IF Len(seq) < max THEN Len(seq) + 1 ELSE max)

\* Mutant: a cycle's slot is taken only by a dispatch that succeeds.
TakeSlotOnSuccess(d, j) ==
    IF j.key[1] = "standup"
    THEN [d EXCEPT !.lastStandup = Day(j.at), !.armed = @ \/ Successful(j.status)]
    ELSE IF Successful(j.status) THEN [d EXCEPT !.lastCycle = j.key] ELSE d

\* Mutant: any recorded standup arms the cycles.
ArmAlways(d, j) ==
    IF j.key[1] = "standup"
    THEN [d EXCEPT !.lastStandup = Day(j.at), !.armed = TRUE]
    ELSE [d EXCEPT !.lastCycle = j.key]

\* Mutant: the date is that of the recording.
TakeToday(d, j) ==
    IF j.key[1] = "standup"
    THEN [d EXCEPT !.lastStandup = Day(now), !.armed = @ \/ Successful(j.status)]
    ELSE [d EXCEPT !.lastCycle = j.key]

\* What a recorded scheduled dispatch does to the schedule.
TakeOccurrence(d, j) ==
    IF j.key[1] = "standup"
    THEN [d EXCEPT !.lastStandup = Day(j.at), !.armed = @ \/ Successful(j.status)]
    ELSE [d EXCEPT !.lastCycle = j.key]

\* The edit dispatchAndRecord passes to updateDocument: the schedule, a status
\* report unless the dispatch succeeded, the telemetry.
RecordDispatch(d, j) ==
    LET taken == IF Scheduled(j.key) THEN TakeOccurrence(d, j) ELSE d
    IN [taken EXCEPT
          !.telemetry = Prepend(j.key, @, MaxDispatchTelemetry),
          !.reports = IF Successful(j.status) THEN @ ELSE Prepend("status", @, MaxReports)]

\* The edit publishReport passes.
RecordReport(d) == [d EXCEPT !.reports = Prepend("published", @, MaxReports)]

Edited(j) == IF j.status = "published" THEN RecordReport(j.doc) ELSE RecordDispatch(j.doc, j)

\* The key of a dispatch that ends unrecorded.
Losing(a) == {k \in {job[a].key} : Unfinished(a) /\ Scheduled(k)}

\* Mutant: the document is loaded before the lock is taken.
LoadUnlocked(a) ==
    /\ job[a].pc = "record"
    /\ job' = [job EXCEPT ![a].pc = "save", ![a].doc = doc]
    /\ lock' = a
    /\ UNCHANGED <<now, doc, known, attempted, lost>>

\* updateDocument, up to the edit.
LoadDocument(a) ==
    /\ job[a].pc = "record"
    /\ lock = NoActor
    /\ job' = [job EXCEPT ![a].pc = "save", ![a].doc = doc]
    /\ lock' = a
    /\ UNCHANGED <<now, doc, known, attempted, lost>>

\* The host does not answer the load: the error releases the lock.
LoadFails(a) ==
    /\ job[a].pc = "record"
    /\ lock = NoActor
    /\ job' = [job EXCEPT ![a] = Idle]
    /\ lost' = lost \cup Losing(a)
    /\ UNCHANGED <<now, doc, lock, known, attempted>>

\* The host stores the document; whether it then answers with an error is told
\* only to the caller of the action or tool, and nothing here depends on it.
SaveDocument(a) ==
    /\ job[a].pc = "save"
    /\ doc' = Edited(job[a])
    /\ job' = [job EXCEPT ![a] = Idle]
    /\ lock' = NoActor
    /\ UNCHANGED <<now, known, attempted, lost>>

\* Mutant: a failed save forgets to unlock.
SaveFailsHoldingLock(a) ==
    /\ job[a].pc = "save"
    /\ job' = [job EXCEPT ![a] = Idle]
    /\ lost' = lost \cup Losing(a)
    /\ UNCHANGED <<now, doc, lock, known, attempted>>

\* The host answers with an error and has not stored the document.
SaveFails(a) ==
    /\ job[a].pc = "save"
    /\ job' = [job EXCEPT ![a] = Idle]
    /\ lock' = NoActor
    /\ lost' = lost \cup Losing(a)
    /\ UNCHANGED <<now, doc, known, attempted>>

\* The plugin process ends and starts again: its jobs and its lock are gone.
Crash ==
    /\ job' = [a \in Actors |-> Idle]
    /\ lock' = NoActor
    /\ lost' = lost \cup UNION {Losing(a) : a \in Actors}
    /\ UNCHANGED <<now, doc, known, attempted>>

Carry(a) == Dispatch(a) \/ LoadDocument(a) \/ LoadFails(a) \/ SaveDocument(a) \/ SaveFails(a)

Next ==
    \/ Advance \/ RunDue \/ RunWorkspaceDue \/ Crash
    \/ \E a \in Callers : RunManual(a) \/ PublishReport(a)
    \/ \E a \in Actors : Carry(a)

Spec == Init /\ [][Next]_vars

\* Go runs every ready goroutine, and sync.Mutex serves its waiters in order
\* once one of them starves: an actor that can go on again and again does go
\* on. That the host answers every call is assumed: no context has a deadline.
Fairness == SF_vars(RunWorkspaceDue) /\ \A a \in Actors : SF_vars(Carry(a))

FairSpec == Spec /\ Fairness

-----------------------------------------------------------------------------
TypeOK ==
    /\ now \in 0..LastMinute
    /\ lock \in Actors \cup {NoActor}
    /\ doc.armed \in BOOLEAN
    /\ doc.lastStandup \in {NoDay} \cup 0..Day(LastMinute)
    /\ Len(doc.telemetry) <= MaxDispatchTelemetry
    /\ Len(doc.reports) <= MaxReports
    /\ lost \subseteq attempted

\* README.md:39: the host accepted a monitoring cycle of the scheduler only if
\* it accepted a standup of the scheduler before (dispatchAndRecord's Armed).
CyclesFollowAStandup ==
    (\E k \in known : k[1] = "cycle") => \E k \in known : k[1] = "standup"

\* The scheduler dispatches an occurrence once, whatever the host answered,
\* unless a crash or an error lost its record: LastStandupDate and
\* LastCycleSlot are read in one locked section and written in a later one.
DispatchedOnce ==
    job[Runner].pc = "dispatch" /\ job[Runner].key \in attempted =>
        job[Runner].key \in lost

\* A day or slot is marked as done only by an attempt at it, also when midnight
\* passes between the tick and the record.
RecordedWasAttempted ==
    /\ doc.lastStandup # NoDay => <<"standup", doc.lastStandup>> \in attempted
    /\ doc.lastCycle # NoKey => doc.lastCycle \in attempted

GrewAtFront(new, old, max) ==
    new = old \/ (new # <<>> /\ new = Prepend(Head(new), old, max))

\* No save drops what another actor recorded: the document only ever grows at
\* its front, up to its limits (updateDocument's lock).
RecordsAreKept ==
    [][/\ GrewAtFront(doc'.telemetry, doc.telemetry, MaxDispatchTelemetry)
       /\ GrewAtFront(doc'.reports, doc.reports, MaxReports)
       /\ doc.armed => doc'.armed]_doc

\* A tick, a manual run or a publication that begins also ends; in particular
\* no error leaves the workspace locked.
JobsEnd == \A a \in Actors : job[a].pc # "idle" ~> job[a].pc = "idle"
=============================================================================
