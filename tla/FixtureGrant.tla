---------------------------- MODULE FixtureGrant ----------------------------
(***************************************************************************)
(* The grant of the fixture proof of concept (server/coordinator/          *)
(* fixture_poc.go): callers apply operations that unblock one task. Each   *)
(* step is one call of the governor or of the durable store, both atomic;  *)
(* between the steps other callers run, others observe, and the call may   *)
(* be interrupted and made again.                                          *)
(*                                                                         *)
(* Calls whose grant is revoked, or for another target, action or evidence *)
(* than the origin's or the record's, are denied before anything is read   *)
(* or written and are left out. Nobody else records on Incident.           *)
(***************************************************************************)
EXTENDS Recovery

CONSTANTS Callers, Operations,
          Origin,       \* the observation each operation was decided under
          Incident,     \* fixture-incident
          EffectEvent,  \* fixture-effect
          Verifier,     \* fixture-readback
          MaxCrashes    \* bound on interruptions

ASSUME OperationsAreDecided ==
    /\ Operations \subseteq RequestIds
    /\ Origin \in [Operations -> {obs \in Observed : obs.complete /\ obs.at < MaxTime}]
    /\ Incident \in Incidents /\ EffectEvent \in Events /\ Verifier \in Verifiers

ASSUME CrashesAreNat == MaxCrashes \in Nat
ASSUME NoneIsNoOperation == None \notin Operations

\* The strategy and plan versions are fixed in every observation of the fixture.
ASSUME FixtureHasOneGeneration ==
    \A o \in Operations : Generation[Origin[o].event] = Generation[EffectEvent]

ASSUME OthersLeaveTheIncident ==
    /\ \A obs \in Observed : obs.event # EffectEvent
    /\ \A r \in Recorded : r.incident # Incident /\ r.request \notin Operations
    /\ \A v \in Verified : v.incident # Incident
    /\ Incident \notin VerifiedByName

VARIABLES board,    \* the task's durable projection; "absent" stands for Blocked
          op,       \* the phase of each operation's record
          call,     \* the call each caller is in
          crashes,  \* history: interruptions so far
          fresh     \* history: answers that claimed the effect, 2 for more

fixtureVars == <<board, op, call, crashes, fresh>>
vars == <<rec, solVars, fixtureVars>>

Attempts == 2

Resting == [pc |-> "idle", o |-> None, saw |-> "absent", attempt |-> 0, replay |-> FALSE]

Init ==
    /\ RecoveryInit
    /\ board = "absent"
    /\ op = [o \in Operations |-> "none"]
    /\ call = [c \in Callers |-> Resting]
    /\ crashes = 0
    /\ fresh = 0

\* The decision on Incident is for operation o: due within MaxTime.
Acceptance(o) ==
    [incident |-> Incident, event |-> Origin[o].event, request |-> o,
     status |-> "decision_accepted", completed |-> Origin[o].at, due |-> MaxTime]

EffectObservation(o) == [event |-> EffectEvent, at |-> Origin[o].at + 1, complete |-> TRUE]

Receipt(o) ==
    [incident |-> Incident, generation |-> Generation[Origin[o].event],
     event |-> EffectEvent, at |-> Origin[o].at + 1, verifier |-> Verifier]

Go(c, pc) == call' = [call EXCEPT ![c].pc = pc]
Return(c) == call' = [call EXCEPT ![c] = Resting]
At(c, pc) == call[c].pc = pc

-----------------------------------------------------------------------------
\* The operation's record is read. A pending one is continued; a verified one
\* is answered from the record as a replay, which changes nothing: left out.
Start(c, o) ==
    /\ At(c, "idle")
    /\ op[o] # "verified"
    /\ call' = [call EXCEPT ![c] =
          [Resting EXCEPT !.o = o, !.pc = IF op[o] = "none" THEN "validate" ELSE "look"]]
    /\ UNCHANGED <<rec, solVars, board, op, crashes, fresh>>

\* Mutant: an effect that is there already is an unknown outcome.
LookUnfinished(c) ==
    /\ At(c, "look")
    /\ IF board = "Ready" THEN Return(c) ELSE Go(c, "check")
    /\ UNCHANGED <<rec, solVars, board, op, crashes, fresh>>

\* A pending operation whose effect is there is finished, else applied.
Look(c) ==
    /\ At(c, "look")
    /\ call' = [call EXCEPT ![c].pc = IF board = "Ready" THEN "observe" ELSE "check",
                            ![c].replay = board = "Ready"]
    /\ UNCHANGED <<rec, solVars, board, op, crashes, fresh>>

\* ValidateCurrentObservation: denied unless the origin is the last one.
Validate(c) ==
    /\ At(c, "validate")
    /\ IF rec.last = Origin[call[c].o] THEN Go(c, "accept") ELSE Return(c)
    /\ UNCHANGED <<rec, solVars, board, op, crashes, fresh>>

\* Mutant: the origin is checked again but not recorded on.
AcceptUnrecorded(c) ==
    /\ At(c, "accept")
    /\ IF RecordSucceeds(Acceptance(call[c].o)) THEN Go(c, "intend") ELSE Return(c)
    /\ UNCHANGED <<rec, solVars, board, op, crashes, fresh>>

\* recordFixtureRecovery: denied when the origin is no longer the last
\* observation, or another operation was accepted.
Accept(c) ==
    LET r == Acceptance(call[c].o)
    IN /\ At(c, "accept")
       /\ IF RecordSucceeds(r) THEN Go(c, "intend") ELSE Return(c)
       /\ IF IsFresh(r) THEN RecordSolRecovery(r) ELSE UNCHANGED <<rec, solVars>>
       /\ UNCHANGED <<board, op, crashes, fresh>>

\* Mutant: an update in place of the add.
IntendAgain(c) ==
    /\ At(c, "intend")
    /\ Go(c, "check")
    /\ op' = [op EXCEPT ![call[c].o] = "pending"]
    /\ UNCHANGED <<rec, solVars, board, crashes, fresh>>

\* AppendAdd of the pending record fails when the record exists by now.
Intend(c) ==
    LET o == call[c].o
    IN /\ At(c, "intend")
       /\ IF op[o] = "none" THEN Go(c, "check") ELSE Return(c)
       /\ op' = [op EXCEPT ![o] = IF @ = "none" THEN "pending" ELSE @]
       /\ UNCHANGED <<rec, solVars, board, crashes, fresh>>

\* The acceptance, there since before the intent, is recorded again. Then
\* applyReady: denied when another caller has verified the operation meanwhile,
\* or when the board object is one the callers share, and one of them has set
\* its copy of the task to Ready.
Check(c) ==
    LET o == call[c].o
    IN /\ At(c, "check")
       /\ \/ IsReplay(Acceptance(o)) /\ op[o] = "pending" /\ Go(c, "read")
          \/ (~IsReplay(Acceptance(o)) \/ op[o] # "pending" \/ board = "Ready") /\ Return(c)
       /\ UNCHANGED <<rec, solVars, board, op, crashes, fresh>>

\* A task that is Ready by now is a replay.
Read(c) ==
    /\ At(c, "read")
    /\ call' = IF board = "Ready"
               THEN [call EXCEPT ![c].pc = "observe", ![c].replay = TRUE]
               ELSE [call EXCEPT ![c].pc = "write", ![c].saw = board]
    /\ UNCHANGED <<rec, solVars, board, op, crashes, fresh>>

\* Mutant: a plain update in place of the compare and swap.
SwapsAlways(c) == call[c].saw = "Blocked"

\* CompareAndSwapRecord from the Blocked row that was read.
Swaps(c) == call[c].saw = "Blocked" /\ board = "Blocked"

\* Mutant: attempts are not counted up to their limit.
NextAttemptAlways(c) == call' = [call EXCEPT ![c].pc = "read", ![c].attempt = @ + 1]

\* Out of attempts: the outcome is unknown.
NextAttempt(c) ==
    IF call[c].attempt + 1 = Attempts THEN Return(c)
    ELSE call' = [call EXCEPT ![c].pc = "read", ![c].attempt = @ + 1]

\* A missing row is added first, by whoever is first.
Write(c) ==
    /\ At(c, "write")
    /\ IF Swaps(c) THEN /\ board' = "Ready"
                        /\ Go(c, "observe")
       ELSE /\ board' = IF board = "absent" THEN "Blocked" ELSE board
            /\ NextAttempt(c)
    /\ UNCHANGED <<rec, solVars, op, crashes, fresh>>

-----------------------------------------------------------------------------
\* The acceptance is recorded once more, the board is read, and the effect is
\* observed: an error unless the event is new or known as it is.
ObserveEffect(c) ==
    LET obs == EffectObservation(call[c].o)
    IN /\ At(c, "observe")
       /\ IF AcceptsObservation(rec, obs)
          THEN Observe(obs) /\ Go(c, "verify")
          ELSE /\ IF obs \in Remembered(rec) THEN Go(c, "verify") ELSE Return(c)
               /\ UNCHANGED <<rec, solVars>>
       /\ UNCHANGED <<board, op, crashes, fresh>>

\* VerifySolRecoveryEffectReceipt: the receipt must name the last observation,
\* also when it is presented again.
VerifyReadback(c) ==
    LET o == call[c].o
        k == Key(Acceptance(o))
    IN /\ At(c, "verify")
       /\ IF NamesLast(Receipt(o)) /\ IsVerifiedBy(k, Receipt(o))
          THEN Go(c, "final") /\ UNCHANGED <<rec, solVars>>
          ELSE IF NamesLast(Receipt(o)) /\ ShowsEffect(recoveries[k], Receipt(o))
          THEN Go(c, "final") /\ VerifyEffect(Receipt(o))
          ELSE Return(c) /\ UNCHANGED <<rec, solVars>>
       /\ UNCHANGED <<board, op, crashes, fresh>>

\* The verified record, and the answer.
Finalize(c) ==
    /\ At(c, "final")
    /\ op' = [op EXCEPT ![call[c].o] = "verified"]
    /\ fresh' = IF call[c].replay \/ fresh = 2 THEN fresh ELSE fresh + 1
    /\ Return(c)
    /\ UNCHANGED <<rec, solVars, board, crashes>>

\* The call is interrupted between two steps: an error, a cancelled context,
\* the end of the process.
Interrupt(c) ==
    /\ ~At(c, "idle")
    /\ crashes < MaxCrashes
    /\ crashes' = crashes + 1
    /\ Return(c)
    /\ UNCHANGED <<rec, solVars, board, op, fresh>>

Step(c) ==
    \/ Look(c) \/ Validate(c) \/ Accept(c) \/ Intend(c)
    \/ Check(c) \/ Read(c) \/ Write(c)
    \/ ObserveEffect(c) \/ VerifyReadback(c) \/ Finalize(c)

Next ==
    \/ RecoveryNext /\ UNCHANGED fixtureVars
    \/ \E c \in Callers : \/ \E o \in Operations : Start(c, o)
                          \/ Step(c) \/ Interrupt(c)

\* Go runs the goroutine of every call, and an operation whose record is
\* pending is asked for again, whatever else the callers are asked for
\* (docs/stage-0-fixture-poc.md).
Fairness ==
    /\ \A c \in Callers : WF_vars(Step(c))
    /\ \A o \in Operations :
         SF_vars(op[o] = "pending" /\ \E c \in Callers : Start(c, o))

Spec == Init /\ [][Next]_vars /\ Fairness

-----------------------------------------------------------------------------
FixtureTypeOK ==
    /\ RecoveryTypeOK
    /\ board \in {"absent", "Blocked", "Ready"}
    /\ op \in [Operations -> {"none", "pending", "verified"}]
    /\ call \in [Callers ->
          [pc: {"idle", "look", "validate", "accept", "intend",
                "check", "read", "write", "observe", "verify", "final"},
           o: Operations \cup {None}, saw: {"absent", "Blocked"},
           attempt: 0..(Attempts - 1), replay: BOOLEAN]]
    /\ crashes \in 0..MaxCrashes
    /\ fresh \in 0..2

Accepted(o) == IsReplay(Acceptance(o))

Granted == INSTANCE GrantedEffect WITH
    decision <- IF \E o \in Operations : Accepted(o)
                THEN CHOOSE o \in Operations : Accepted(o) ELSE None,
    outcome <- op,
    task <- IF board = "Ready" THEN "Ready" ELSE "Blocked"

\* However callers, interruptions and observations interleave, one operation
\* is accepted, its record precedes the effect, and what is verified is there
\* (docs/stage-0-fixture-poc.md).
ImplementsGrantedEffect == Granted!Spec

\* At most one of all answers claims the effect as its own work; the others
\* are replays (applyReady: two adapters produce at most one durable effect).
OneAnswerClaimsTheEffect == fresh <= 1

\* A pending operation is authorized by the governor for good, whatever is
\* observed later, and a verified one has its effect receipt there: neither
\* store is ahead of the other (applyFixtureGrantWithHooks, finishFixtureGrant).
RecordsAgree ==
    \A o \in Operations :
        /\ op[o] # "none" => Accepted(o)
        /\ op[o] = "verified" => recoveries[Key(Acceptance(o))].effect = Receipt(o)

\* Did an observation of somebody else come where the effect's belongs?
Overtaken(o) ==
    /\ rec.last \notin {None, Origin[o], EffectObservation(o)}
    /\ \/ rec.last.at > EffectObservation(o).at
       \/ EffectObservation(o) \in Remembered(rec)

\* Interrupted at any step, an operation whose intent is on record is brought
\* to one verified readback by calling it again, unless it is overtaken.
PendingIsReconciled ==
    (\E o \in Operations : op[o] = "pending")
        ~> \A o \in Operations : op[o] = "pending" => Overtaken(o)
=============================================================================
