------------------------------ MODULE Recovery ------------------------------
(***************************************************************************)
(* The Sol recoveries in the governor's checkpoint (server/governor/       *)
(* governor.go): a recovery of an incident is requested, started,          *)
(* completed and accepted under the observation it was asked for, its      *)
(* effect is verified by a later one, and a still later one may report     *)
(* that the incident recurred. Every call is at once, as Governor allows;  *)
(* contracts and reviews stay with GovernorState.                          *)
(*                                                                         *)
(* The strategy and plan versions of an observation are one value, its     *)
(* generation; evidence ids are left out with the events they name. Calls  *)
(* refused for their own fields alone, or because a receipt names another  *)
(* task or head than the observation shows, are left out.                  *)
(***************************************************************************)
EXTENDS GovernorState

CONSTANTS Incidents, RequestIds,
          Generation,     \* of each event
          Verifiers,      \* who signs an effect receipt
          RecurrenceIds,  \* receipt ids of recurrences
          Recorded,       \* the recoveries callers record
          Verified,       \* the effect receipts callers present
          VerifiedByName, \* the incidents callers verify without a receipt
          Recurred        \* the recurrence receipts callers present

Generations == {Generation[e] : e \in Events}
Keys == Incidents \X Generations

Statuses == {"requested", "started", "completed", "decision_accepted",
             "effect_verified", "failed", "outcome_unknown"}

\* What a caller submits. due 0 is no due date. The receipt is named after the
\* request and the status, as the callers do.
Submission == [incident: Incidents, event: Events, request: RequestIds,
               status: Statuses, completed: 1..MaxTime, due: 0..MaxTime]

EffectReceipt == [incident: Incidents, generation: Generations, event: Events,
                  at: 1..MaxTime, verifier: Verifiers]

RecurrenceReceipt == [id: RecurrenceIds, incident: Incidents,
                      generation: Generations, event: Events, at: 1..MaxTime]

ASSUME EventsHaveGenerations == DOMAIN Generation = Events

\* A decision that is accepted has a due date that is not before its completion.
ASSUME CallsAreWellFormed ==
    /\ Recorded \subseteq {r \in Submission :
                             r.status = "decision_accepted" => r.due >= r.completed}
    /\ Verified \subseteq EffectReceipt
    /\ VerifiedByName \subseteq Incidents
    /\ Recurred \subseteq RecurrenceReceipt

VARIABLES recoveries,   \* Recoveries, by incident and generation
          receipts,     \* RecoveryReceipts, by request and status
          recurrences   \* RecurrenceReceipts, by id

solVars == <<recoveries, receipts, recurrences>>

\* verifiedAt 0: no effect yet. effect is None as well when the effect was
\* verified without a receipt.
RecoveryRecord ==
    [said: Submission, status: Statuses, verifiedAt: 0..MaxTime,
     effect: EffectReceipt \cup {None}, recurrence: RecurrenceReceipt \cup {None}]

ASSUME NoneIsNoRecord ==
    None \notin Submission \cup EffectReceipt \cup RecurrenceReceipt \cup RecoveryRecord

RecoveryInit ==
    /\ rec = Empty
    /\ recoveries = [k \in Keys |-> None]
    /\ receipts = [id \in RequestIds \X Statuses |-> None]
    /\ recurrences = [id \in RecurrenceIds |-> None]

Key(r) == <<r.incident, Generation[r.event]>>
ReceiptId(r) == <<r.request, r.status>>

-----------------------------------------------------------------------------
Observe(obs) ==
    /\ AcceptsObservation(rec, obs)
    /\ rec' = TakeOver(rec, obs)
    /\ UNCHANGED solVars

ValidTransition(old, next) ==
    \/ old = "requested" /\ next \in {"started", "failed", "outcome_unknown"}
    \/ old = "started" /\ next \in {"completed", "failed", "outcome_unknown"}
    \/ old = "completed" /\ next = "decision_accepted"

\* Mutant: an update may come under a newer observation.
ContinuesUnderAnyEvent(old, r) ==
    /\ old.said.request = r.request
    /\ ValidTransition(old.status, r.status)
    /\ old.said.completed = r.completed
    /\ r.due # 0 /\ old.said.due # 0 => r.due = old.said.due

\* Mutant: any status may follow any other.
ContinuesInAnyOrder(old, r) ==
    /\ old.said.request = r.request
    /\ old.said.event = r.event
    /\ old.said.completed = r.completed
    /\ r.due # 0 /\ old.said.due # 0 => r.due = old.said.due

\* May r be the next status of the recovery old?
Continues(old, r) ==
    /\ old.said.request = r.request
    /\ ValidTransition(old.status, r.status)
    /\ old.said.event = r.event
    /\ old.said.completed = r.completed
    /\ r.due # 0 /\ old.said.due # 0 => r.due = old.said.due

\* A fresh receipt belongs to the observation that is current.
IsFresh(r) ==
    /\ receipts[ReceiptId(r)] = None
    /\ rec.last # None /\ rec.last.event = r.event
    /\ recoveries[Key(r)] # None => Continues(recoveries[Key(r)], r)

\* A due date that is not given is inherited.
WithDue(old, r) == IF old # None /\ r.due = 0 THEN [r EXCEPT !.due = old.said.due] ELSE r

Store(r) ==
    LET stored == WithDue(recoveries[Key(r)], r)
    IN /\ recoveries' = [recoveries EXCEPT ![Key(r)] =
                           [said |-> stored, status |-> r.status, verifiedAt |-> 0,
                            effect |-> None, recurrence |-> None]]
       /\ receipts' = [receipts EXCEPT ![ReceiptId(r)] = stored]
       /\ UNCHANGED <<rec, recurrences>>

RecordSolRecovery(r) == IsFresh(r) /\ Store(r)

\* The same call again is a lost response: it changes nothing and succeeds.
IsReplay(r) == receipts[ReceiptId(r)] = r

\* Does RecordSolRecovery(r) return without an error?
RecordSucceeds(r) == IsReplay(r) \/ IsFresh(r)

\* Does v name the last observation, and that as a complete one?
NamesLast(v) == rec.last = [event |-> v.event, at |-> v.at, complete |-> TRUE]

\* Mutant: an effect without a decision.
ShowsEffectUndecided(r, v) == v.at > r.said.completed

\* The decision was accepted and completed before the observation.
ShowsEffect(r, v) ==
    /\ r.status = "decision_accepted"
    /\ v.at > r.said.completed

\* Verified by v before: the same receipt again changes nothing.
IsVerifiedBy(k, v) == recoveries[k] # None /\ recoveries[k].effect = v

VerifyEffect(v) ==
    LET k == <<v.incident, v.generation>>
    IN /\ NamesLast(v)
       /\ recoveries[k] # None /\ ShowsEffect(recoveries[k], v)
       /\ recoveries' = [recoveries EXCEPT ![k].status = "effect_verified",
                                           ![k].verifiedAt = v.at, ![k].effect = v]
       /\ UNCHANGED <<rec, receipts, recurrences>>

\* The older call names the incident alone, which must have one recovery only,
\* and asks for no status.
VerifySolRecoveryEffect(incident) ==
    \E g \in Generations :
        LET k == <<incident, g>>
        IN /\ \A h \in Generations : recoveries[<<incident, h>>] # None <=> h = g
           /\ rec.last # None /\ rec.last.complete
           /\ rec.last.event # recoveries[k].said.event
           /\ rec.last.at > recoveries[k].said.completed
           /\ Generation[rec.last.event] = g
           /\ recoveries[k].verifiedAt = 0
           /\ recoveries' = [recoveries EXCEPT ![k].status = "effect_verified",
                                               ![k].verifiedAt = rec.last.at]
           /\ UNCHANGED <<rec, receipts, recurrences>>

\* Mutant: a recovery may recur whatever became of it.
MayRecurEarly(r, q) == r.recurrence = None /\ q.at > r.verifiedAt

\* A recurrence is seen once, after the effect.
MayRecur(r, q) ==
    r.status = "effect_verified" /\ r.recurrence = None /\ q.at > r.verifiedAt

RecordSolRecurrenceReceipt(q) ==
    LET k == <<q.incident, q.generation>>
    IN /\ recurrences[q.id] = None
       /\ NamesLast(q)
       /\ recoveries[k] # None /\ MayRecur(recoveries[k], q)
       /\ recoveries' = [recoveries EXCEPT ![k].recurrence = q]
       /\ recurrences' = [recurrences EXCEPT ![q.id] = q]
       /\ UNCHANGED <<rec, receipts>>

RecoveryNext ==
    \/ \E obs \in Observed : Observe(obs)
    \/ \E r \in Recorded : RecordSolRecovery(r)
    \/ \E v \in Verified : VerifyEffect(v)
    \/ \E i \in VerifiedByName : VerifySolRecoveryEffect(i)
    \/ \E q \in Recurred : RecordSolRecurrenceReceipt(q)

RecoverySpec == RecoveryInit /\ [][RecoveryNext]_<<rec, solVars>>

-----------------------------------------------------------------------------
RecoveryTypeOK ==
    /\ rec \in State
    /\ recoveries \in [Keys -> RecoveryRecord \cup {None}]
    /\ receipts \in [RequestIds \X Statuses -> Submission \cup {None}]
    /\ recurrences \in [RecurrenceIds -> RecurrenceReceipt \cup {None}]

Kept(k) == {receipts[id] : id \in {i \in RequestIds \X Statuses :
                                     receipts[i] # None /\ Key(receipts[i]) = k}}

\* The receipts kept of a recovery tell one story: one request under one
\* observation, each receipt but the latest followed by another in the order
\* of the statuses; and the latest is what the recovery says (RecordSolRecovery).
ReceiptsTellOneStory ==
    \A k \in Keys :
        LET kept == Kept(k)
            Followed(r) == \E s \in kept : ValidTransition(r.status, s.status)
        IN IF recoveries[k] = None THEN kept = {}
           ELSE /\ recoveries[k].said \in kept
                /\ \A r \in kept :
                     /\ r.request = recoveries[k].said.request
                     /\ r.event = recoveries[k].said.event
                     /\ Followed(r) <=> r # recoveries[k].said

\* An effect that has a receipt was verified after the decision, and not by
\* the observation the decision was asked under, unless the decision claims to
\* be older than that one (VerifySolRecoveryEffectReceipt).
EffectsAreLater ==
    \A k \in Keys : recoveries[k] # None /\ recoveries[k].effect # None =>
        LET r == recoveries[k]
        IN /\ <<r.said.request, "decision_accepted">> \in
                {id \in DOMAIN receipts : receipts[id] # None}
           /\ r.effect.at = r.verifiedAt /\ r.verifiedAt > r.said.completed
           /\ \A o \in Remembered(rec) :
                o.event = r.said.event /\ o.at <= r.said.completed =>
                    r.effect.event # r.said.event

\* Recurrence receipts and recoveries agree: a recovery recurs once, and after
\* its effect was verified, unless the caller who recorded it claimed that it
\* was (RecordSolRecurrenceReceipt).
RecurrencesFollowEffects ==
    /\ \A id \in RecurrenceIds : recurrences[id] # None =>
         recoveries[<<recurrences[id].incident, recurrences[id].generation>>].recurrence
             = recurrences[id]
    /\ \A k \in Keys : recoveries[k] # None /\ recoveries[k].recurrence # None =>
         /\ recurrences[recoveries[k].recurrence.id] = recoveries[k].recurrence
         /\ recoveries[k].said.status # "effect_verified" =>
              recoveries[k].verifiedAt \in 1..(recoveries[k].recurrence.at - 1)

\* A recovery whose observation was superseded makes no further step of its
\* own: only its effect and its recurrence are still recorded. And what is
\* verified stays so.
SupersededRecoveriesRest ==
    [][\A k \in Keys : recoveries[k] # None =>
         /\ recoveries'[k] # None
         /\ recoveries[k].verifiedAt # 0 =>
              recoveries'[k].verifiedAt = recoveries[k].verifiedAt
         /\ rec.last.event # recoveries[k].said.event =>
              /\ recoveries'[k].said = recoveries[k].said
              /\ recoveries'[k].status \in {recoveries[k].status, "effect_verified"}]_recoveries
=============================================================================
