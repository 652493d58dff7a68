--------------------------- MODULE GovernorProofs ---------------------------
(***************************************************************************)
(* What TLAPS proves of Governor, for any callers, tasks and observations  *)
(* and any number of attempts: calls are atomic although nothing is held   *)
(* between the read and the swap, and a call loses attempts to writes only.*)
(***************************************************************************)
EXTENDS Governor, TLAPS

-----------------------------------------------------------------------------
(***************************************************************************)
(* The checkpoint: what a call that writes makes of a state is a state,    *)
(* with MaxEvents observations at most.                                    *)
(***************************************************************************)
Bounded(st) == st \in State /\ Len(st.events) <= MaxEvents

LEMMA EmptyBounded == Bounded(Empty)
    BY EventsAreRemembered, TimesAreNat DEF Bounded, State, Empty, Contract

LEMMA RememberBounded ==
    ASSUME NEW events \in Seq(Observation), Len(events) <= MaxEvents,
           NEW obs \in Observation
    PROVE  Remember(events, obs) \in Seq(Observation) /\ Len(Remember(events, obs)) <= MaxEvents
<1> USE EventsAreRemembered
<1>1. CASE Len(events) < MaxEvents
    BY <1>1 DEF Remember
<1>2. CASE ~(Len(events) < MaxEvents)
    <2>1. events # <<>> /\ Len(events) = MaxEvents
        BY <1>2
    <2>2. Tail(events) \in Seq(Observation) /\ Len(Tail(events)) = MaxEvents - 1
        BY <2>1
    <2> QED
        BY <1>2, <2>2 DEF Remember
<1> QED
    BY <1>1, <1>2

LEMMA RenewedIsContract ==
    ASSUME NEW req \in Requests, req.op = "contract", req.expected < MaxVersion
    PROVE  Renewed(req) \in Contract
    BY TimesAreNat DEF Requests, Renewed, Contract

LEMMA TransformedBounded ==
    ASSUME NEW st, Bounded(st), NEW req \in Requests, Writes(st, req)
    PROVE  Bounded(Transformed(st, req))
<1> st \in State /\ st.events \in Seq(Observation) /\ Len(st.events) <= MaxEvents
    BY DEF Bounded, State
<1>1. CASE req.op = "observe"
    <2>1. req.obs \in Observation
        BY <1>1, ObservedAreObservations DEF Requests
    <2>2. /\ Remember(st.events, req.obs) \in Seq(Observation)
          /\ Len(Remember(st.events, req.obs)) <= MaxEvents
        BY <2>1, RememberBounded
    <2>3. Transformed(st, req) = TakeOver(st, req.obs)
        BY <1>1 DEF Transformed
    <2>4. req.obs.at \in 0..MaxTime
        BY <2>1, TimesAreNat DEF Observation
    <2> QED
        BY <2>1, <2>2, <2>3, <2>4 DEF TakeOver, Bounded, State
<1>2. CASE req.op = "acknowledge"
    <2> DEFINE obs == CHOOSE o \in Remembered(st) : o.event = req.event
    <2>1. \E o \in Remembered(st) : o.event = req.event
        BY <1>2 DEF Writes, Acknowledges
    <2>2. obs \in Remembered(st)
        BY <2>1
    <2>3. obs \in Observation
        <3>1. \A o \in Remembered(st) : o \in Observation
            BY DEF Remembered
        <3> HIDE DEF obs
        <3> QED
            BY <2>2, <3>1
    <2>4. obs.at \in 0..MaxTime /\ req.completed \in 0..(MaxTime + 1)
        BY <1>2, <2>3, TimesAreNat DEF Observation, Requests
    <2>5. Transformed(st, req) =
            [st EXCEPT !.strategyAt = req.completed, !.baselineAt = obs.at, !.review = obs]
        BY <1>2 DEF Transformed, Acknowledge
    <2> HIDE DEF obs
    <2> QED
        BY <2>3, <2>4, <2>5 DEF Bounded, State
<1>3. CASE req.op = "contract"
    <2>1. req.task \in Tasks /\ Renewed(req) \in Contract
        BY <1>3, RenewedIsContract DEF Requests, Writes
    <2>2. Transformed(st, req) =
            [st EXCEPT !.contracts = [st.contracts EXCEPT ![req.task] = Renewed(req)]]
        BY <1>3 DEF Transformed, PutContract
    <2>3. [st.contracts EXCEPT ![req.task] = Renewed(req)] \in [Tasks -> Contract]
        BY <2>1 DEF State
    <2> QED
        BY <2>2, <2>3 DEF Bounded, State
<1> QED
    BY <1>1, <1>2, <1>3 DEF Writes

-----------------------------------------------------------------------------
(***************************************************************************)
(* The loop. A call that is about to swap holds a copy it may transform,   *)
(* and a copy that is stale was made so by a write that is counted.        *)
(***************************************************************************)
CallInv(k) ==
    /\ k \in Call
    /\ k.attempt <= k.others
    /\ k.pc \in {"load", "swap"} => k.req \in Requests /\ k.attempt < MaxAttempts
    /\ k.pc = "swap" =>
         /\ Bounded(k.copy) /\ Writes(k.copy, k.req)
         /\ rec # k.copy => k.attempt < k.others

\* What the calls were told of contracts, and the contracts that are stored.
AnswersInv ==
    /\ answered \in [Tasks -> Seq(Contract)]
    /\ \A t \in Tasks :
         /\ \A i \in DOMAIN answered[t] : answered[t][i].version = i
         /\ rec.contracts[t] = IF answered[t] = <<>> THEN NoContract
                               ELSE answered[t][Len(answered[t])]

IInv ==
    /\ Bounded(rec)
    /\ call \in [Callers -> Call]
    /\ \A c \in Callers : CallInv(call[c])
    /\ AnswersInv

LEMMA IdleInv == CallInv(Idle)
    BY EmptyBounded, AttemptsArePositive DEF CallInv, Idle, Call, Bounded

LEMMA InitIInv == Init => IInv
<1> SUFFICES ASSUME Init PROVE IInv
    OBVIOUS
<1>1. AnswersInv
    BY DEF Init, AnswersInv, Empty
<1> QED
    BY <1>1, EmptyBounded, IdleInv DEF Init, IInv, CallInv

\* A step of c that leaves the checkpoint alone and the other calls as they are.
LEMMA OwnStep ==
    ASSUME IInv, UNCHANGED <<rec, answered>>, NEW c \in Callers, NEW k, CallInv(k),
           call' = [call EXCEPT ![c] = k]
    PROVE  IInv'
<1>1. \A d \in Callers : CallInv(call'[d])
    BY DEF IInv
<1>2. \A d \in Callers : CallInv(call[d])'
    BY <1>1 DEF CallInv
<1> QED
    BY <1>2 DEF IInv, CallInv, Bounded, AnswersInv

LEMMA BeginIInv ==
    ASSUME IInv, NEW c \in Callers, NEW req \in Requests, Begin(c, req)
    PROVE  IInv'
<1> DEFINE k == [pc |-> "swap", req |-> req, copy |-> rec, attempt |-> 0, others |-> 0]
<1>1. Bounded(rec) /\ Writes(rec, req)
    BY DEF Begin, IInv
<1>2. k \in Call
    BY <1>1, AttemptsArePositive DEF Call, Bounded
<1>3. CallInv(k)
    BY <1>1, <1>2, AttemptsArePositive DEF CallInv
<1> QED
    BY <1>3, OwnStep DEF Begin

LEMMA LoadIInv ==
    ASSUME IInv, NEW c \in Callers, Load(c)
    PROVE  IInv'
<1> DEFINE k == [call[c] EXCEPT !.pc = "swap", !.copy = rec]
<1>1. CASE Writes(rec, call[c].req)
    <2>1. CallInv(k)
        BY <1>1 DEF CallInv, Call, Load, IInv, Bounded
    <2>2. call' = [call EXCEPT ![c] = k]
        BY <1>1 DEF Load, IInv, CallInv
    <2> QED
        BY <2>1, <2>2, OwnStep DEF Load
<1>2. CASE ~Writes(rec, call[c].req)
    BY <1>2, IdleInv, OwnStep DEF Load
<1> QED
    BY <1>1, <1>2

LEMMA RetryIInv ==
    ASSUME IInv, NEW c \in Callers, Retry(c)
    PROVE  IInv'
<1>1. call[c] \in Call /\ CallInv(call[c]) /\ call[c].pc = "swap"
    BY DEF IInv, Retry
<1>2. call[c].attempt < call[c].others /\ call[c].attempt < MaxAttempts
    BY <1>1 DEF CallInv, Retry, SameHash
<1>3. CASE call[c].attempt + 1 = MaxAttempts
    <2> DEFINE k == Exceeded(c)
    <2>1. k = [pc |-> "exceeded", req |-> None, copy |-> Empty,
               attempt |-> MaxAttempts, others |-> call[c].others]
        BY DEF Exceeded
    <2>2. CallInv(k)
        <3>1. call[c].others \in 0..MaxAttempts /\ call[c].attempt \in 0..MaxAttempts
            BY <1>1 DEF Call
        <3>2. MaxAttempts <= call[c].others
            BY <1>2, <1>3, <3>1, AttemptsArePositive
        <3>3. k \in Call
            BY <2>1, <3>1, EmptyBounded, AttemptsArePositive DEF Call, Bounded
        <3> QED
            BY <2>1, <3>2, <3>3 DEF CallInv
    <2> QED
        BY <1>3, <2>2, OwnStep DEF Retry
<1>4. CASE call[c].attempt + 1 # MaxAttempts
    <2> DEFINE k == [call[c] EXCEPT !.pc = "load", !.attempt = call[c].attempt + 1,
                                   !.copy = Empty]
    <2>1. CallInv(k)
        <3>1. /\ call[c].others \in 0..MaxAttempts /\ call[c].attempt \in 0..MaxAttempts
              /\ call[c].req \in Requests
            BY <1>1 DEF Call, CallInv
        <3>2. /\ call[c].attempt + 1 <= call[c].others
              /\ call[c].attempt + 1 < MaxAttempts /\ call[c].attempt + 1 \in 0..MaxAttempts
            BY <1>2, <1>4, <3>1, AttemptsArePositive
        <3>3. /\ k \in Call /\ k.pc = "load" /\ k.req = call[c].req
              /\ k.attempt = call[c].attempt + 1 /\ k.others = call[c].others
            BY <1>1, <3>2, EmptyBounded DEF Call, Bounded
        <3> HIDE DEF k
        <3> QED
            BY <3>1, <3>2, <3>3 DEF CallInv
    <2>2. call' = [call EXCEPT ![c] = k]
        BY <1>1, <1>4 DEF Retry
    <2> QED
        BY <2>1, <2>2, OwnStep DEF Retry
<1> QED
    BY <1>3, <1>4

\* The call that stores a contract is told the version after all that were told.
LEMMA SwapAnswers ==
    ASSUME IInv, NEW c \in Callers, Swap(c)
    PROVE  AnswersInv'
<1> DEFINE req == call[c].req
<1>1. /\ req \in Requests /\ Writes(rec, req) /\ rec \in State
      /\ rec' = Transformed(rec, req) /\ answered' = Answer(req)
    BY DEF IInv, CallInv, Bounded, Swap, SameHash
<1>2. AnswersInv
    BY DEF IInv
<1> HIDE DEF req
<1>3. CASE req.op = "contract"
    <2>1. /\ req.task \in Tasks /\ req.expected < MaxVersion
          /\ req.expected = rec.contracts[req.task].version
        BY <1>1, <1>3 DEF Requests, Writes, PutsContract
    <2>2. Renewed(req) \in Contract /\ Renewed(req).version = req.expected + 1
        BY <1>1, <1>3, <2>1, RenewedIsContract DEF Renewed
    <2>3. /\ rec'.contracts = [rec.contracts EXCEPT ![req.task] = Renewed(req)]
          /\ answered' = [answered EXCEPT ![req.task] = Append(answered[req.task], Renewed(req))]
        BY <1>1, <1>3 DEF Transformed, PutContract, Answer, State
    <2>4. answered' \in [Tasks -> Seq(Contract)]
        BY <1>2, <2>1, <2>2, <2>3 DEF AnswersInv
    <2> DEFINE told == answered[req.task]
    <2>5. /\ told \in Seq(Contract) /\ Len(told) \in Nat
          /\ \A i \in 1..Len(told) : told[i].version = i
          /\ rec.contracts[req.task] = IF told = <<>> THEN NoContract ELSE told[Len(told)]
        BY <1>2, <2>1 DEF AnswersInv
    <2> HIDE DEF told
    <2>6. req.expected = Len(told)
        <3>1. CASE told = <<>>
            BY <2>1, <2>5, <3>1 DEF NoContract
        <3>2. CASE told # <<>>
            <4>1. Len(told) \in 1..Len(told)
                BY <2>5, <3>2
            <4> QED
                BY <2>1, <2>5, <3>2, <4>1
        <3> QED
            BY <3>1, <3>2
    <2> DEFINE next == Append(told, Renewed(req))
    <2>7. /\ next \in Seq(Contract) /\ Len(next) = Len(told) + 1 /\ DOMAIN next = 1..(Len(told) + 1)
          /\ \A i \in 1..Len(told) : next[i] = told[i]
          /\ next[Len(told) + 1] = Renewed(req)
        BY <2>2, <2>5
    <2> HIDE DEF next
    <2>8. \A i \in DOMAIN next : next[i].version = i
        BY <2>2, <2>5, <2>6, <2>7
    <2>9. next # <<>> /\ next[Len(next)] = Renewed(req)
        BY <2>5, <2>7
    <2>10. answered'[req.task] = next /\ rec'.contracts[req.task] = Renewed(req)
        BY <1>1, <1>2, <2>1, <2>3 DEF AnswersInv, State, next, told
    <2>11. ASSUME NEW t \in Tasks
           PROVE  /\ \A i \in DOMAIN answered'[t] : answered'[t][i].version = i
                  /\ rec'.contracts[t] = IF answered'[t] = <<>> THEN NoContract
                                         ELSE answered'[t][Len(answered'[t])]
        <3>1. CASE t = req.task
            BY <2>8, <2>9, <2>10, <3>1
        <3>2. CASE t # req.task
            <4>1. answered'[t] = answered[t] /\ rec'.contracts[t] = rec.contracts[t]
                BY <1>1, <1>2, <2>3, <3>2 DEF AnswersInv, State
            <4> QED
                BY <1>2, <4>1 DEF AnswersInv
        <3> QED
            BY <3>1, <3>2
    <2> QED
        BY <2>4, <2>11 DEF AnswersInv
<1>4. CASE req.op # "contract"
    <2>1. answered' = answered
        BY <1>1, <1>4 DEF Answer
    <2>2. rec'.contracts = rec.contracts
        BY <1>1, <1>4 DEF Writes, Transformed, TakeOver, Acknowledge, State
    <2> QED
        BY <1>2, <2>1, <2>2 DEF AnswersInv
<1> QED
    BY <1>3, <1>4

LEMMA SwapIInv ==
    ASSUME IInv, NEW c \in Callers, Swap(c)
    PROVE  IInv'
<1>1. CallInv(call[c]) /\ call[c].pc = "swap" /\ rec = call[c].copy
    BY DEF IInv, Swap, SameHash
<1>2. Bounded(rec')
    BY <1>1, TransformedBounded DEF Swap, CallInv
<1>3. ASSUME NEW d \in Callers PROVE CallInv(call[d])'
    <2>1. CASE d = c
        BY <2>1, IdleInv DEF Swap, CountWrite, CallInv, Idle
    <2>2. CASE d # c /\ Running(d)
        <3>1. CallInv(call[d]) /\ call[d] \in Call
            BY DEF IInv
        <3>2. CASE call[d].others < MaxAttempts
            <4>1. call'[d] = [call[d] EXCEPT !.others = call[d].others + 1]
                BY <2>2, <3>2 DEF Swap, CountWrite
            <4> QED
                BY <2>2, <3>1, <3>2, <4>1, AttemptsArePositive DEF CallInv, Call, Running
        <3>3. CASE ~(call[d].others < MaxAttempts)
            <4>1. call'[d] = call[d]
                BY <2>2, <3>3 DEF Swap, CountWrite
            <4>2. call[d].attempt < call[d].others
                BY <2>2, <3>1, <3>3, AttemptsArePositive DEF CallInv, Call, Running
            <4> QED
                BY <3>1, <4>1, <4>2 DEF CallInv
        <3> QED
            BY <3>2, <3>3
    <2>3. CASE d # c /\ ~Running(d)
        <3>1. call'[d] = call[d]
            BY <2>3 DEF Swap, CountWrite
        <3> QED
            BY <2>3, <3>1 DEF IInv, CallInv, Running
    <2> QED
        BY <2>1, <2>2, <2>3
<1>4. call' \in [Callers -> Call]
    <2>1. call' = [d \in Callers |-> call'[d]]
        BY DEF Swap, CountWrite
    <2>2. \A d \in Callers : call'[d] \in Call
        BY <1>3 DEF CallInv
    <2> QED
        BY <2>1, <2>2
<1> QED
    BY <1>2, <1>3, <1>4, SwapAnswers DEF IInv, Bounded

LEMMA NextIInv == IInv /\ [Next]_vars => IInv'
<1> SUFFICES ASSUME IInv, [Next]_vars PROVE IInv'
    OBVIOUS
<1>1. CASE UNCHANGED vars
    BY <1>1 DEF vars, IInv, CallInv, Bounded, AnswersInv
<1>2. ASSUME NEW c \in Callers, Fail(c) PROVE IInv'
    BY <1>2, IdleInv, OwnStep DEF Fail
<1> QED
    BY <1>1, <1>2, BeginIInv, LoadIInv, RetryIInv, SwapIInv DEF Next

LEMMA Inductive == Spec => []IInv
    BY InitIInv, NextIInv, PTL DEF Spec

-----------------------------------------------------------------------------
\* The checkpoint and the calls are well-typed, and the checkpoint holds
\* MaxEvents observations at most (Observe).
THEOREM TypeCorrect == Spec => []TypeOK
<1>1. IInv => TypeOK
    BY DEF IInv, TypeOK, Bounded, AnswersInv
<1> QED
    BY <1>1, Inductive, PTL

\* A call gives up only after MaxAttempts writes of others (transform).
THEOREM AttemptsLost == Spec => []AttemptsAreLostToWrites
<1>1. IInv => AttemptsAreLostToWrites
    BY DEF IInv, CallInv, AttemptsAreLostToWrites
<1> QED
    BY <1>1, Inductive, PTL

\* Of the calls that expect one version of a contract one wins, and its contract
\* is the one that is stored (PutContract).
THEOREM OneCallWins == Spec => []OneCallWinsEachVersion
<1>1. IInv => OneCallWinsEachVersion
    BY DEF IInv, AnswersInv, OneCallWinsEachVersion
<1> QED
    BY <1>1, Inductive, PTL

\* Every write is what one call makes of the stored record: the loop
\* implements calls that happen at once (transform).
THEOREM Atomicity == Spec => CallsAreAtomic
<1>1. Init => rec = Empty
    BY DEF Init
<1>2. IInv /\ [Next]_vars => [AtomicNext]_rec
    <2> SUFFICES ASSUME IInv, [Next]_vars PROVE AtomicNext \/ UNCHANGED rec
        OBVIOUS
    <2>1. ASSUME NEW c \in Callers, Swap(c) PROVE AtomicNext \/ UNCHANGED rec
        <3>1. /\ call[c].req \in Requests /\ Writes(rec, call[c].req)
              /\ rec' = Transformed(rec, call[c].req)
            BY <2>1 DEF IInv, CallInv, Swap, SameHash
        <3> QED
            BY <3>1 DEF AtomicNext
    <2> QED
        BY <2>1 DEF Next, vars, Begin, Load, Retry, Fail
<1> QED
    BY <1>1, <1>2, Inductive, PTL DEF Spec, CallsAreAtomic, AtomicSpec

-----------------------------------------------------------------------------
(***************************************************************************)
(* What the calls keep, one after the other. The remembered observations   *)
(* alone do not keep the baseline from going back: it must not be later    *)
(* than the last of them.                                                  *)
(***************************************************************************)
Ordered(st) ==
    /\ \A i, j \in DOMAIN st.events :
         i < j => /\ st.events[i].event # st.events[j].event
                  /\ st.events[i].at <= st.events[j].at
    /\ st.last = IF st.events = <<>> THEN None ELSE st.events[Len(st.events)]

Reviewed(st) ==
    /\ st.baselineAt # 0 => st.last # None /\ st.baselineAt <= st.last.at
    /\ st.review # None => st.review.complete /\ st.review.at < st.strategyAt

Sound(st) == Bounded(st) /\ Ordered(st) /\ Reviewed(st)

LEMMA EmptySound == Sound(Empty)
    BY EmptyBounded DEF Sound, Ordered, Reviewed, Empty

\* A new observation goes to the end, and at the limit the first one goes.
LEMMA RememberOrdered ==
    ASSUME NEW st, Sound(st), NEW obs \in Observation, AcceptsObservation(st, obs)
    PROVE  LET events == Remember(st.events, obs)
           IN /\ \A i, j \in DOMAIN events :
                   i < j => events[i].event # events[j].event /\ events[i].at <= events[j].at
              /\ events # <<>> /\ events[Len(events)] = obs
<1> DEFINE old == st.events
           events == Remember(old, obs)
<1> USE EventsAreRemembered
<1>1. /\ old \in Seq(Observation) /\ Len(old) <= MaxEvents
      /\ \A i, j \in 1..Len(old) : i < j => old[i].event # old[j].event /\ old[i].at <= old[j].at
      /\ st.last = IF old = <<>> THEN None ELSE old[Len(old)]
    BY DEF Sound, Bounded, State, Ordered
<1>2. /\ \A i \in 1..Len(old) : old[i] \in Observation
      /\ \A o \in Observation : o.at \in Int
    <2>1. \A i \in 1..Len(old) : old[i] \in Observation
        BY <1>1
    <2>2. \A o \in Observation : o.at \in Int
        BY TimesAreNat DEF Observation
    <2> QED
        BY <2>1, <2>2
<1>3. \A i \in 1..Len(old) : old[i].event # obs.event
    BY <1>1 DEF AcceptsObservation, Remembered
<1>4. \A i \in 1..Len(old) : old[i].at <= obs.at
    <2> SUFFICES ASSUME NEW i \in 1..Len(old)
                 PROVE  old[i].at <= obs.at
        OBVIOUS
    <2>1. old # <<>> /\ Len(old) \in 1..Len(old) /\ st.last = old[Len(old)]
        BY <1>1
    <2>2. st.last # None
        BY <1>2, <2>1, NoneIsNoObservation
    <2>3. old[Len(old)].at <= obs.at
        BY <1>2, <2>1, <2>2 DEF AcceptsObservation
    <2>4. old[i].at <= old[Len(old)].at
        <3>1. CASE i = Len(old)
            BY <1>2, <3>1
        <3>2. CASE i # Len(old)
            BY <1>1, <2>1, <3>2
        <3> QED
            BY <3>1, <3>2
    <2> QED
        BY <1>2, <2>1, <2>3, <2>4
<1> HIDE DEF old
<1>5. CASE Len(old) < MaxEvents
    <2>1. events = Append(old, obs)
        BY <1>5 DEF Remember
    <2>2. /\ Len(events) = Len(old) + 1 /\ DOMAIN events = 1..(Len(old) + 1)
          /\ \A i \in 1..Len(old) : events[i] = old[i]
          /\ events[Len(old) + 1] = obs
        BY <1>1, <2>1
    <2> HIDE DEF events
    <2>3. Len(old) \in Nat
        BY <1>1
    <2>4. ASSUME NEW i \in DOMAIN events, NEW j \in DOMAIN events, i < j
          PROVE  events[i].event # events[j].event /\ events[i].at <= events[j].at
        <3>1. i \in 1..Len(old)
            BY <2>2, <2>3, <2>4
        <3>2. CASE j \in 1..Len(old)
            BY <1>1, <2>2, <2>4, <3>1, <3>2
        <3>3. CASE j = Len(old) + 1
            BY <1>3, <1>4, <2>2, <3>1, <3>3
        <3> QED
            BY <2>2, <2>3, <3>2, <3>3
    <2>5. events # <<>>
        BY <2>2, <2>3
    <2> QED
        BY <2>2, <2>4, <2>5 DEF events, old
<1>6. CASE ~(Len(old) < MaxEvents)
    <2> DEFINE rest == Tail(old)
    <2>1. /\ old # <<>> /\ Len(old) = MaxEvents
          /\ events = Append(rest, obs)
        BY <1>1, <1>6 DEF Remember
    <2>2. /\ rest \in Seq(Observation) /\ Len(rest) = Len(old) - 1
          /\ \A i \in 1..Len(rest) : rest[i] = old[i + 1] /\ i + 1 \in 1..Len(old)
        BY <1>1, <2>1
    <2> HIDE DEF rest
    <2>3. /\ Len(events) = Len(rest) + 1 /\ DOMAIN events = 1..(Len(rest) + 1)
          /\ \A i \in 1..Len(rest) : events[i] = rest[i]
          /\ events[Len(rest) + 1] = obs
        BY <2>1, <2>2
    <2> HIDE DEF events
    <2>4. Len(rest) \in Nat
        BY <2>2
    <2>5. ASSUME NEW i \in DOMAIN events, NEW j \in DOMAIN events, i < j
          PROVE  events[i].event # events[j].event /\ events[i].at <= events[j].at
        <3>1. i \in 1..Len(rest)
            BY <2>3, <2>4, <2>5
        <3>2. events[i] = old[i + 1] /\ i + 1 \in 1..Len(old)
            BY <2>2, <2>3, <3>1
        <3>3. CASE j \in 1..Len(rest)
            <4>1. events[j] = old[j + 1] /\ j + 1 \in 1..Len(old) /\ i + 1 < j + 1
                BY <2>2, <2>3, <2>5, <3>1, <3>3
            <4> QED
                BY <1>1, <3>2, <4>1
        <3>4. CASE j = Len(rest) + 1
            BY <1>3, <1>4, <2>3, <3>2, <3>4
        <3> QED
            BY <2>3, <2>4, <3>3, <3>4
    <2>6. events # <<>>
        BY <2>3, <2>4
    <2> QED
        BY <2>3, <2>5, <2>6 DEF events, old
<1> QED
    BY <1>5, <1>6

\* What a step may do: no watermark goes back, and reviews are of complete
\* observations.
Onward(st, nxt) ==
    /\ nxt.strategyAt >= st.strategyAt
    /\ nxt.baselineAt >= st.baselineAt
    /\ nxt.review # None => nxt.review.complete /\ nxt.review.at < nxt.strategyAt

LEMMA TakeOverSound ==
    ASSUME NEW st, Sound(st), NEW obs \in Observation, AcceptsObservation(st, obs)
    PROVE  /\ Ordered(TakeOver(st, obs)) /\ Reviewed(TakeOver(st, obs))
           /\ Onward(st, TakeOver(st, obs))
<1> DEFINE nxt == TakeOver(st, obs)
<1>1. st \in State
    BY DEF Sound, Bounded
<1>2. /\ nxt.last = obs /\ nxt.events = Remember(st.events, obs)
      /\ nxt.baselineAt = IF st.baselineAt = 0 /\ obs.complete THEN obs.at ELSE st.baselineAt
      /\ nxt.strategyAt = st.strategyAt /\ nxt.review = st.review
    BY <1>1 DEF TakeOver, State
<1> HIDE DEF nxt
<1>3. Ordered(nxt)
    <2> DEFINE events == Remember(st.events, obs)
    <2>1. /\ \A i, j \in DOMAIN events :
               i < j => events[i].event # events[j].event /\ events[i].at <= events[j].at
          /\ events # <<>> /\ events[Len(events)] = obs
        BY RememberOrdered
    <2> HIDE DEF events
    <2>2. nxt.events = events
        BY <1>2 DEF events
    <2> QED
        BY <1>2, <2>1, <2>2 DEF Ordered
<1>4. /\ obs.at \in Nat /\ obs # None /\ st.baselineAt \in Nat /\ st.strategyAt \in Nat
      /\ st.last # None => st.last.at \in Nat
    BY <1>1, NoneIsNoObservation, TimesAreNat DEF Observation, State
<1>5. st.last # None => obs.at >= st.last.at
    BY DEF AcceptsObservation
<1>6. /\ st.baselineAt # 0 => st.last # None /\ st.baselineAt <= st.last.at
      /\ st.review # None => st.review.complete /\ st.review.at < st.strategyAt
    BY DEF Sound, Reviewed
<1>7. Reviewed(nxt)
    BY <1>2, <1>4, <1>5, <1>6 DEF Reviewed
<1>8. Onward(st, nxt)
    BY <1>2, <1>4, <1>6 DEF Onward
<1> QED
    BY <1>3, <1>7, <1>8 DEF nxt

\* The observation that is acknowledged is the last one: no other has its event.
LEMMA AcknowledgedIsLast ==
    ASSUME NEW st, Sound(st), NEW req, NEW o \in Remembered(st), Acknowledges(st, req, o)
    PROVE  /\ (CHOOSE p \in Remembered(st) : p.event = req.event) = o
           /\ st.last = o /\ o \in Observation
<1>1. /\ st.events \in Seq(Observation)
      /\ \A i, j \in DOMAIN st.events : i < j => st.events[i].event # st.events[j].event
      /\ st.last = IF st.events = <<>> THEN None ELSE st.events[Len(st.events)]
    BY DEF Sound, Bounded, State, Ordered
<1>2. \A p, q \in Remembered(st) : p.event = q.event => p = q
    <2> SUFFICES ASSUME NEW i \in DOMAIN st.events, NEW j \in DOMAIN st.events,
                        st.events[i].event = st.events[j].event
                 PROVE  st.events[i] = st.events[j]
        BY DEF Remembered
    <2>1. DOMAIN st.events = 1..Len(st.events)
        BY <1>1
    <2>2. i \in Int /\ j \in Int
        BY <2>1
    <2>3. ~(i < j) /\ ~(j < i)
        BY <1>1
    <2> QED
        BY <2>2, <2>3
<1>3. o.event = req.event /\ req.event = st.last.event
    BY DEF Acknowledges
<1>4. (CHOOSE p \in Remembered(st) : p.event = req.event) \in Remembered(st)
      /\ (CHOOSE p \in Remembered(st) : p.event = req.event).event = req.event
    BY <1>3
<1>5. (CHOOSE p \in Remembered(st) : p.event = req.event) = o
    BY <1>2, <1>3, <1>4
<1>6. PICK i \in DOMAIN st.events : o = st.events[i]
    BY DEF Remembered
<1>7. /\ st.events # <<>> /\ Len(st.events) \in DOMAIN st.events
      /\ \A k \in DOMAIN st.events : st.events[k] \in Observation
    BY <1>1, <1>6
<1>8. st.last \in Remembered(st) /\ o \in Observation
    BY <1>1, <1>6, <1>7 DEF Remembered
<1>9. st.last = o
    BY <1>2, <1>3, <1>8
<1> QED
    BY <1>5, <1>8, <1>9

LEMMA TransformedSound ==
    ASSUME NEW st, Sound(st), NEW req \in Requests, Writes(st, req)
    PROVE  Sound(Transformed(st, req)) /\ Onward(st, Transformed(st, req))
<1> DEFINE nxt == Transformed(st, req)
<1>1. Bounded(nxt)
    BY TransformedBounded DEF Sound
<1>2. st \in State
    BY DEF Sound, Bounded
<1>3. CASE req.op = "observe"
    <2>1. req.obs \in Observation
        BY <1>3, ObservedAreObservations DEF Requests
    <2>2. AcceptsObservation(st, req.obs) /\ nxt = TakeOver(st, req.obs)
        BY <1>3 DEF Writes, Transformed
    <2> QED
        BY <1>1, <2>1, <2>2, TakeOverSound DEF Sound
<1>4. CASE req.op = "acknowledge"
    <2>1. PICK o \in Remembered(st) : Acknowledges(st, req, o)
        BY <1>4 DEF Writes
    <2>2. /\ (CHOOSE p \in Remembered(st) : p.event = req.event) = o
          /\ st.last = o /\ o \in Observation
        BY <2>1, AcknowledgedIsLast
    <2>3. nxt = [st EXCEPT !.strategyAt = req.completed, !.baselineAt = o.at, !.review = o]
        BY <1>4, <2>2 DEF Transformed, Acknowledge
    <2>4. /\ nxt.strategyAt = req.completed /\ nxt.baselineAt = o.at /\ nxt.review = o
          /\ nxt.events = st.events /\ nxt.last = st.last
        BY <1>2, <2>3 DEF State
    <2> HIDE DEF nxt
    <2>5. o.complete /\ req.completed > o.at /\ req.completed >= st.strategyAt
        BY <2>1 DEF Acknowledges
    <2>6. /\ o.at \in Nat /\ st.baselineAt \in Nat /\ st.strategyAt \in Nat
          /\ req.completed \in Int /\ o # None
        BY <1>2, <1>4, <2>2, NoneIsNoObservation, TimesAreNat DEF Observation, State, Requests
    <2>7. st.baselineAt <= o.at
        BY <2>2, <2>6 DEF Sound, Reviewed
    <2>8. Ordered(nxt)
        BY <2>4 DEF Sound, Ordered
    <2>9. Reviewed(nxt)
        BY <2>2, <2>4, <2>5, <2>6 DEF Reviewed
    <2>10. Onward(st, nxt)
        BY <2>4, <2>5, <2>6, <2>7 DEF Onward
    <2> QED
        BY <1>1, <2>8, <2>9, <2>10 DEF Sound, nxt
<1>5. CASE req.op = "contract"
    <2>1. /\ nxt.strategyAt = st.strategyAt /\ nxt.baselineAt = st.baselineAt
          /\ nxt.review = st.review /\ nxt.events = st.events /\ nxt.last = st.last
        BY <1>2, <1>5 DEF Transformed, PutContract, State
    <2> HIDE DEF nxt
    <2>2. st.baselineAt \in Nat /\ st.strategyAt \in Nat
        BY <1>2, TimesAreNat DEF State
    <2>3. Ordered(nxt) /\ Reviewed(nxt)
        BY <2>1 DEF Sound, Ordered, Reviewed
    <2>4. Onward(st, nxt)
        BY <2>1, <2>2 DEF Onward, Sound, Reviewed
    <2> QED
        BY <1>1, <2>3, <2>4 DEF Sound, nxt
<1> QED
    BY <1>3, <1>4, <1>5 DEF Writes

\* One call after the other keeps the checkpoint sound.
LEMMA AtomicSound == AtomicSpec => [](Sound(rec)) /\ [][Onward(rec, rec')]_rec
<1>1. rec = Empty => Sound(rec)
    BY EmptySound
<1>2. Sound(rec) /\ [AtomicNext]_rec => Sound(rec)' /\ [Onward(rec, rec')]_rec
    <2> SUFFICES ASSUME Sound(rec), [AtomicNext]_rec
                 PROVE  Sound(rec') /\ [Onward(rec, rec')]_rec
        BY DEF Sound, Bounded, Ordered, Reviewed
    <2> QED
        BY TransformedSound DEF AtomicNext
<1> QED
    BY <1>1, <1>2, PTL DEF AtomicSpec

\* An event is remembered once, in the order of times, and the last of them is
\* Last, whatever calls overlap (Observe).
THEOREM EventsStayInOrder == Spec => []EventsInOrder
<1>1. Sound(rec) => EventsInOrder
    BY DEF Sound, Ordered, EventsInOrder
<1> QED
    BY <1>1, Atomicity, AtomicSound, PTL DEF CallsAreAtomic

\* The watermark and the baseline of strategic reviews never go back, and
\* reviews are of complete observations (AcknowledgeStrategy).
THEOREM WatermarksAdvance == Spec => WatermarkAdvances
<1> DEFINE A == /\ rec'.strategyAt >= rec.strategyAt
                /\ rec'.baselineAt >= rec.baselineAt
                /\ rec'.review # None =>
                     rec'.review.complete /\ rec'.review.at < rec'.strategyAt
<1>1. [Onward(rec, rec')]_rec => [A]_rec
    BY DEF Onward
<1> QED
    BY <1>1, Atomicity, AtomicSound, PTL DEF CallsAreAtomic, WatermarkAdvances
=============================================================================
