--------------------------- MODULE GovernorState ----------------------------
(***************************************************************************)
(* The checkpoint of the shadow governor (server/governor/governor.go) and *)
(* what one call makes of it: an observation is taken over, a strategic    *)
(* review acknowledged, a task contract put. The specification here has    *)
(* every call happen at once; Governor has the loop that makes it so.      *)
(*                                                                         *)
(* An observation is an event id, a time, and whether it is complete: two  *)
(* bodies of one event differ in these. Calls whose own fields are invalid *)
(* are refused before the record is read and are left out, as are the      *)
(* digest of an observation (evaluate) and the recovery receipts.          *)
(***************************************************************************)
EXTENDS Integers, Sequences

CONSTANTS Events,       \* event ids
          Tasks,        \* tasks with contracts
          None,         \* no observation
          MaxEvents,    \* 128 in the code
          MaxTime,      \* bound on times; times are positive
          MaxVersion,   \* bound on contract versions
          Terms,        \* what a contract says besides its version
          Observed      \* the observations that are made

ASSUME EventsAreRemembered == MaxEvents \in Nat \ {0}
ASSUME TimesAreNat == MaxTime \in Nat /\ MaxVersion \in Nat

Observation == [event: Events, at: 1..MaxTime, complete: BOOLEAN]

ASSUME ObservedAreObservations == Observed \subseteq Observation
ASSUME NoneIsNoObservation == None \notin Observation

Requests ==
    [op: {"observe"}, obs: Observed]
    \cup [op: {"acknowledge"}, event: Events, completed: 1..(MaxTime + 1)]
    \cup [op: {"contract"}, task: Tasks, expected: 0..MaxVersion, terms: Terms]

\* Version 0: the task has no contract.
NoContract == [version |-> 0, terms |-> None]

Contract == [version: 1..MaxVersion, terms: Terms] \cup {NoContract}

VARIABLE rec    \* the record shadow-governor/v1; time 0 is the zero time

Empty == [last |-> None, events |-> <<>>, baselineAt |-> 0, strategyAt |-> 0,
          review |-> None, contracts |-> [t \in Tasks |-> NoContract]]

State ==
    [last: Observation \cup {None}, events: Seq(Observation),
     baselineAt: 0..MaxTime, strategyAt: 0..(MaxTime + 1),
     review: Observation \cup {None}, contracts: [Tasks -> Contract]]

Remembered(st) == {st.events[i] : i \in DOMAIN st.events}

-----------------------------------------------------------------------------
\* Mutant: late observations are taken over.
AcceptsAnyTime(st, obs) == \A o \in Remembered(st) : o.event # obs.event

\* A remembered event is answered from its result, or refused when its body is
\* another one. An observation older than the last is refused.
AcceptsObservation(st, obs) ==
    /\ \A o \in Remembered(st) : o.event # obs.event
    /\ st.last # None => obs.at >= st.last.at

\* Mutant: any remembered observation may be acknowledged.
AcknowledgesAnyEvent(st, req, obs) ==
    /\ obs.event = req.event
    /\ obs.complete
    /\ req.completed > obs.at
    /\ req.completed >= st.strategyAt

\* The review is of the last observation, which is complete, and was completed
\* after it and after every review before.
Acknowledges(st, req, obs) ==
    /\ obs.event = req.event
    /\ req.event = st.last.event
    /\ obs.complete
    /\ req.completed > obs.at
    /\ req.completed >= st.strategyAt

\* Mutant: an expected version that is behind is accepted as well.
PutsContractBehind(st, req) == req.expected <= st.contracts[req.task].version

PutsContract(st, req) == req.expected = st.contracts[req.task].version

Writes(st, req) ==
    \/ req.op = "observe" /\ AcceptsObservation(st, req.obs)
    \/ req.op = "acknowledge" /\ \E o \in Remembered(st) : Acknowledges(st, req, o)
    \/ req.op = "contract" /\ PutsContract(st, req) /\ req.expected < MaxVersion

\* Mutant: nothing is forgotten.
RememberAll(events, obs) == Append(events, obs)

Remember(events, obs) ==
    IF Len(events) < MaxEvents THEN Append(events, obs) ELSE Append(Tail(events), obs)

TakeOver(st, obs) ==
    [st EXCEPT !.last = obs,
               !.events = Remember(@, obs),
               !.baselineAt = IF @ = 0 /\ obs.complete THEN obs.at ELSE @]

Acknowledge(st, req) ==
    LET obs == CHOOSE o \in Remembered(st) : o.event = req.event
    IN [st EXCEPT !.strategyAt = req.completed, !.baselineAt = obs.at, !.review = obs]

\* The contract that is stored, and the answer of the call that stored it.
Renewed(req) == [version |-> req.expected + 1, terms |-> req.terms]

PutContract(st, req) == [st EXCEPT !.contracts[req.task] = Renewed(req)]

Transformed(st, req) ==
    CASE req.op = "observe" -> TakeOver(st, req.obs)
      [] req.op = "acknowledge" -> Acknowledge(st, req)
      [] req.op = "contract" -> PutContract(st, req)

-----------------------------------------------------------------------------
\* The first conjunct spares TLC the search for a call behind the steps that
\* leave the record alone.
AtomicNext ==
    /\ rec' # rec
    /\ \E req \in Requests : Writes(rec, req) /\ rec' = Transformed(rec, req)

AtomicSpec == rec = Empty /\ [][AtomicNext]_rec
=============================================================================
