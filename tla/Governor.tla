------------------------------ MODULE Governor ------------------------------
(***************************************************************************)
(* The loop by which concurrent calls change the governor's checkpoint:    *)
(* read the record, transform the copy, swap it in if the stored record    *)
(* still has the hash that was read, else begin again, at most MaxAttempts *)
(* times (Store.transform over CompareAndSwapRecord and AppendAdd of the   *)
(* durable store, whose transactions are atomic).                          *)
(***************************************************************************)
EXTENDS GovernorState

CONSTANTS Callers,      \* goroutines with a call
          MaxAttempts   \* 8 in the code

ASSUME AttemptsArePositive == MaxAttempts \in Nat \ {0}

\* call[c].others counts, up to MaxAttempts, the writes of others since the
\* call read the record first: history.
VARIABLE call

\* The contracts that calls answered to have stored, by task and in the order
\* of their swaps: history.
VARIABLE answered

vars == <<rec, call, answered>>

Idle == [pc |-> "idle", req |-> None, copy |-> Empty, attempt |-> 0, others |-> 0]

Running(c) == call[c].pc \in {"load", "swap"}

\* "checkpoint contention exceeded retry limit"
Exceeded(c) == [pc |-> "exceeded", req |-> None, copy |-> Empty,
                attempt |-> MaxAttempts, others |-> call[c].others]

Init ==
    /\ rec = Empty
    /\ call = [c \in Callers |-> Idle]
    /\ answered = [t \in Tasks |-> <<>>]

\* The copy is transformed at once: the call ends if that is refused, or if
\* the event is a known one. Such calls change nothing and do not begin here.
Begin(c, req) ==
    /\ ~Running(c)
    /\ Writes(rec, req)
    /\ call' = [call EXCEPT ![c] = [pc |-> "swap", req |-> req, copy |-> rec,
                                     attempt |-> 0, others |-> 0]]
    /\ UNCHANGED <<rec, answered>>

\* The next attempt, from the record that is stored now.
Load(c) ==
    /\ call[c].pc = "load"
    /\ call' = IF Writes(rec, call[c].req)
               THEN [call EXCEPT ![c].pc = "swap", ![c].copy = rec]
               ELSE [call EXCEPT ![c] = Idle]
    /\ UNCHANGED <<rec, answered>>

\* Mutant: the hash is not compared.
SameHashAlways(c) == TRUE

\* expectedSHA, or that there is still no record to add.
SameHash(c) == rec = call[c].copy

CountWrite(c) ==
    [d \in Callers |->
        IF d = c THEN Idle
        ELSE IF Running(d) /\ call[d].others < MaxAttempts
        THEN [call[d] EXCEPT !.others = @ + 1]
        ELSE call[d]]

\* PutContract returns the contract that it stored.
Answer(req) ==
    IF req.op = "contract" THEN [answered EXCEPT ![req.task] = Append(@, Renewed(req))]
    ELSE answered

Swap(c) ==
    /\ call[c].pc = "swap"
    /\ SameHash(c)
    /\ rec' = Transformed(call[c].copy, call[c].req)
    /\ call' = CountWrite(c)
    /\ answered' = Answer(call[c].req)

\* Mutant: the next attempt swaps the same copy.
RetrySameCopy(c) ==
    /\ call[c].pc = "swap"
    /\ ~SameHash(c)
    /\ call' = IF call[c].attempt + 1 = MaxAttempts
               THEN [call EXCEPT ![c] = Exceeded(c)]
               ELSE [call EXCEPT ![c].attempt = @ + 1]
    /\ UNCHANGED <<rec, answered>>

\* ErrRecordConflict or ErrRecordAlreadyExists.
Retry(c) ==
    /\ call[c].pc = "swap"
    /\ ~SameHash(c)
    /\ call' = IF call[c].attempt + 1 = MaxAttempts
               THEN [call EXCEPT ![c] = Exceeded(c)]
               ELSE [call EXCEPT ![c].pc = "load", ![c].attempt = @ + 1, ![c].copy = Empty]
    /\ UNCHANGED <<rec, answered>>

\* Any other error: a lost lease, a cancelled context, the end of the process.
Fail(c) ==
    /\ Running(c)
    /\ call' = [call EXCEPT ![c] = Idle]
    /\ UNCHANGED <<rec, answered>>

Next == \E c \in Callers :
            \/ \E req \in Requests : Begin(c, req)
            \/ Load(c) \/ Swap(c) \/ Retry(c) \/ Fail(c)

Spec == Init /\ [][Next]_vars

-----------------------------------------------------------------------------
Call ==
    [pc: {"idle", "load", "swap", "exceeded"}, req: Requests \cup {None},
     copy: State, attempt: 0..MaxAttempts, others: 0..MaxAttempts]

\* In particular the checkpoint holds MaxEvents observations at most, however
\* many were made (Observe).
TypeOK ==
    /\ rec \in State /\ Len(rec.events) <= MaxEvents
    /\ call \in [Callers -> Call]
    /\ answered \in [Tasks -> Seq(Contract)]

\* Concurrent calls act on the checkpoint one after the other: none writes a
\* body derived from a stale read (the comment of transform).
CallsAreAtomic == AtomicSpec

\* An event is remembered once, the remembered observations are in the order
\* of their times, and the last of them is Last: what a reader of the
\* checkpoint takes for current is the newest observation accepted (Observe).
EventsInOrder ==
    /\ \A i, j \in DOMAIN rec.events :
         i < j => /\ rec.events[i].event # rec.events[j].event
                  /\ rec.events[i].at <= rec.events[j].at
    /\ rec.last = IF rec.events = <<>> THEN None ELSE rec.events[Len(rec.events)]

\* The strategic watermark and the baseline it came from never go back, and
\* reviews are of complete observations only, completed after them
\* (AcknowledgeStrategy).
WatermarkAdvances ==
    [][/\ rec'.strategyAt >= rec.strategyAt
       /\ rec'.baselineAt >= rec.baselineAt
       /\ rec'.review # None =>
            rec'.review.complete /\ rec'.review.at < rec'.strategyAt]_rec

\* Of the calls that expect one version of a contract one wins, although all of
\* them may have read that version before any of them wrote: the calls that were
\* told their contract is stored got the versions 1, 2, ... without a version
\* given twice or left out, and the contract stored is the one, with its terms,
\* that the last of them was told (PutContract).
OneCallWinsEachVersion ==
    \A t \in Tasks :
        /\ \A i \in DOMAIN answered[t] : answered[t][i].version = i
        /\ rec.contracts[t] = IF answered[t] = <<>> THEN NoContract
                              ELSE answered[t][Len(answered[t])]

\* A call loses an attempt only to another call's write, so when it gives up,
\* MaxAttempts others were written since it began (transform).
AttemptsAreLostToWrites == \A c \in Callers : call[c].attempt <= call[c].others
=============================================================================
