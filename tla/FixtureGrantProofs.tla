------------------------- MODULE FixtureGrantProofs -------------------------
(***************************************************************************)
(* What TLAPS proves of Recovery and of FixtureGrant, for any incidents,   *)
(* requests, observations, callers and operations. The recoveries come     *)
(* first: their invariant RInv holds whoever calls the governor, so the    *)
(* grant's own calls are only some more of the calls that keep it.         *)
(***************************************************************************)
EXTENDS FixtureGrant, TLAPS

-----------------------------------------------------------------------------
(***************************************************************************)
(* The invariant of the recoveries. That the receipts tell one story is    *)
(* not inductive: a receipt that is added is the last one only when the    *)
(* statuses grow, and the recovery's status is the latest receipt's unless *)
(* an effect was verified. That effects are later needs that no two        *)
(* remembered observations have one event, and that time has gone on.      *)
(***************************************************************************)
OneBodyEach == \A o, p \in Remembered(rec) : o.event = p.event => o = p

LastIsRemembered == rec.last # None => rec.last \in Remembered(rec)

ReceiptsAreNamed ==
    \A id \in RequestIds \X Statuses : receipts[id] # None => ReceiptId(receipts[id]) = id

Rank(status) ==
    CASE status = "requested" -> 1
      [] status = "started" -> 2
      [] status = "completed" -> 3
      [] OTHER -> 4

Latest(k, said) ==
    /\ said \in Kept(k)
    /\ \A r \in Kept(k) :
         /\ r.request = said.request /\ r.event = said.event
         /\ r # said => /\ Rank(r.status) < Rank(said.status)
                        /\ \E s \in Kept(k) : ValidTransition(r.status, s.status)

Story(k) == IF recoveries[k] = None THEN Kept(k) = {} ELSE Latest(k, recoveries[k].said)

\* The fields of one recovery.
Coherent(r) ==
    /\ r.status \in {r.said.status, "effect_verified"}
    /\ r.verifiedAt # 0 => r.status = "effect_verified"
    /\ r.status # r.said.status => r.verifiedAt # 0
    /\ r.effect # None => /\ r.said.status = "decision_accepted"
                          /\ r.verifiedAt # 0 /\ r.effect.at = r.verifiedAt
                          /\ r.verifiedAt > r.said.completed
    /\ r.recurrence # None => /\ r.status = "effect_verified"
                              /\ r.said.status # "effect_verified" =>
                                   r.verifiedAt < r.recurrence.at

\* A recovery and the observations that are remembered.
Later(r) ==
    r.effect # None =>
        /\ rec.last # None /\ r.verifiedAt <= rec.last.at
        /\ r.effect.event = r.said.event =>
             \A o \in Remembered(rec) : o.event = r.said.event => o.at > r.said.completed

RecurrencesAgree ==
    /\ \A id \in RecurrenceIds : recurrences[id] # None =>
         LET k == <<recurrences[id].incident, recurrences[id].generation>>
         IN recurrences[id].id = id /\ recoveries[k] # None
            /\ recoveries[k].recurrence = recurrences[id]
    /\ \A k \in Keys : recoveries[k] # None /\ recoveries[k].recurrence # None =>
         recurrences[recoveries[k].recurrence.id] = recoveries[k].recurrence

RecoveriesOK == \A k \in Keys : Story(k)
FieldsOK == \A k \in Keys : recoveries[k] # None => Coherent(recoveries[k]) /\ Later(recoveries[k])

RInv ==
    /\ RecoveryTypeOK /\ OneBodyEach /\ LastIsRemembered
    /\ ReceiptsAreNamed /\ RecoveriesOK /\ FieldsOK /\ RecurrencesAgree

-----------------------------------------------------------------------------
(***************************************************************************)
(* One call of the governor, whoever makes it.                             *)
(***************************************************************************)
AnyCall ==
    \/ \E obs \in Observation : Observe(obs)
    \/ \E r \in Submission : RecordSolRecovery(r)
    \/ \E v \in EffectReceipt : VerifyEffect(v)
    \/ \E i \in Incidents : VerifySolRecoveryEffect(i)
    \/ \E q \in RecurrenceReceipt : RecordSolRecurrenceReceipt(q)

\* What a call may do to a recovery: see SupersededRecoveriesRest. What has an
\* effect keeps it.
Rests(k) ==
    recoveries[k] # None =>
         /\ recoveries'[k] # None
         /\ recoveries[k].verifiedAt # 0 =>
              recoveries'[k].verifiedAt = recoveries[k].verifiedAt
         /\ rec.last.event # recoveries[k].said.event =>
              /\ recoveries'[k].said = recoveries[k].said
              /\ recoveries'[k].status \in {recoveries[k].status, "effect_verified"}
         /\ recoveries[k].effect # None => recoveries'[k].effect = recoveries[k].effect

LEMMA Typed ==
    ASSUME RecoveryTypeOK
    PROVE  /\ rec \in State
           /\ recoveries \in [Keys -> RecoveryRecord \cup {None}]
           /\ receipts \in [RequestIds \X Statuses -> Submission \cup {None}]
           /\ recurrences \in [RecurrenceIds -> RecurrenceReceipt \cup {None}]
    BY DEF RecoveryTypeOK

LEMMA KeysOfSubmissions ==
    ASSUME NEW r \in Submission
    PROVE  Key(r) \in Keys /\ ReceiptId(r) \in RequestIds \X Statuses
    BY DEF Submission, Key, Keys, Generations, ReceiptId

LEMMA InitRInv == RecoveryInit => RInv
<1> SUFFICES ASSUME RecoveryInit PROVE RInv
    OBVIOUS
<1>1. RecoveryTypeOK
    BY EventsAreRemembered, TimesAreNat DEF RecoveryInit, RecoveryTypeOK, State, Empty,
                                        Contract
<1>2. Remembered(rec) = {} /\ rec.last = None
    BY DEF RecoveryInit, Empty, Remembered
<1>3. \A k \in Keys : Kept(k) = {}
    BY DEF RecoveryInit, Kept
<1> QED
    BY <1>1, <1>2, <1>3
    DEF RInv, RecoveryInit, OneBodyEach, LastIsRemembered, ReceiptsAreNamed, RecoveriesOK, Story,
        FieldsOK, RecurrencesAgree

-----------------------------------------------------------------------------
\* Of an observation that is taken over: it is remembered, and nothing else new.
LEMMA TakenOver ==
    ASSUME NEW st \in State, NEW obs \in Observation
    PROVE  /\ TakeOver(st, obs) \in State /\ TakeOver(st, obs).last = obs
           /\ obs \in Remembered(TakeOver(st, obs))
           /\ Remembered(TakeOver(st, obs)) \subseteq Remembered(st) \cup {obs}
<1> DEFINE events == Remember(st.events, obs)
           nxt == TakeOver(st, obs)
<1>1. st.events \in Seq(Observation) /\ MaxEvents \in Nat /\ MaxEvents > 0
    BY EventsAreRemembered DEF State
<1>2. PICK kept \in Seq(Observation) :
         /\ events = Append(kept, obs)
         /\ \A i \in DOMAIN kept : \E j \in DOMAIN st.events : kept[i] = st.events[j]
    <2>1. CASE Len(st.events) < MaxEvents
        BY <1>1, <2>1 DEF Remember
    <2>2. CASE ~(Len(st.events) < MaxEvents)
        <3>1. st.events # <<>>
            BY <1>1, <2>2
        <3>2. /\ Tail(st.events) \in Seq(Observation) /\ events = Append(Tail(st.events), obs)
              /\ \A i \in DOMAIN Tail(st.events) :
                    i + 1 \in DOMAIN st.events /\ Tail(st.events)[i] = st.events[i + 1]
            BY <1>1, <2>2, <3>1 DEF Remember
        <3> QED
            BY <3>2
    <2> QED
        BY <2>1, <2>2
<1>3. obs.at \in 0..MaxTime
    BY TimesAreNat DEF Observation
<1>4. /\ nxt.last = obs /\ nxt.events = events
      /\ nxt \in State
    <2>1. events \in Seq(Observation)
        BY <1>2
    <2> HIDE DEF events
    <2>2. nxt = [st EXCEPT !.last = obs, !.events = events,
                           !.baselineAt = IF st.baselineAt = 0 /\ obs.complete THEN obs.at
                                          ELSE st.baselineAt]
        BY DEF TakeOver, events
    <2> QED
        BY <1>3, <2>1, <2>2 DEF State
<1> HIDE DEF nxt
<1>5. /\ DOMAIN events = 1..(Len(kept) + 1) /\ events[Len(kept) + 1] = obs
      /\ DOMAIN kept = 1..Len(kept) /\ \A i \in DOMAIN kept : events[i] = kept[i]
      /\ Len(kept) \in Nat
    BY <1>2
<1> HIDE DEF events
<1>6. obs \in Remembered(nxt)
    BY <1>4, <1>5 DEF Remembered
<1>7. Remembered(nxt) \subseteq Remembered(st) \cup {obs}
    <2> SUFFICES ASSUME NEW i \in DOMAIN events, events[i] # obs
                 PROVE  events[i] \in Remembered(st)
        BY <1>4 DEF Remembered
    <2>1. i \in DOMAIN kept /\ events[i] = kept[i]
        BY <1>5
    <2> QED
        BY <1>2, <2>1 DEF Remembered
<1> QED
    BY <1>4, <1>6, <1>7 DEF nxt

\* The fields that are compared are numbers.
LEMMA TimesAreInt ==
    /\ \A o \in Observation : o.at \in Int
    /\ \A r \in Submission : r.completed \in Int
    /\ \A r \in RecoveryRecord : r.said \in Submission /\ r.verifiedAt \in Nat /\ r.status \in Statuses
    /\ \A q \in RecurrenceReceipt : q.at \in Int
    /\ \A v \in EffectReceipt : v.at \in Nat \ {0} /\ v.at \in 0..MaxTime
    BY TimesAreNat DEF Observation, Submission, RecoveryRecord, RecurrenceReceipt, EffectReceipt

LEMMA ObserveKeeps ==
    ASSUME RInv, NEW obs \in Observation, Observe(obs)
    PROVE  RInv' /\ \A k \in Keys : Rests(k)
<1>1. /\ rec \in State /\ OneBodyEach /\ LastIsRemembered /\ FieldsOK
      /\ recoveries \in [Keys -> RecoveryRecord \cup {None}]
    BY DEF RInv, RecoveryTypeOK
<1>2. /\ \A o \in Remembered(rec) : o.event # obs.event
      /\ rec.last # None => obs.at >= rec.last.at
      /\ rec' = TakeOver(rec, obs)
      /\ UNCHANGED <<recoveries, receipts, recurrences>>
    BY DEF Observe, AcceptsObservation, solVars
<1>3. /\ rec' \in State /\ rec'.last = obs /\ obs \in Remembered(rec')
      /\ Remembered(rec') \subseteq Remembered(rec) \cup {obs}
    BY <1>1, <1>2, TakenOver
<1>4. OneBodyEach' /\ LastIsRemembered'
    BY <1>1, <1>2, <1>3 DEF OneBodyEach, LastIsRemembered
<1>5. RecoveryTypeOK' /\ ReceiptsAreNamed' /\ RecoveriesOK' /\ RecurrencesAgree'
    <2>1. RecoveryTypeOK'
        BY <1>2, <1>3 DEF RInv, RecoveryTypeOK
    <2>2. ReceiptsAreNamed' /\ RecurrencesAgree'
        BY <1>2 DEF RInv, ReceiptsAreNamed, RecurrencesAgree
    <2>3. \A k \in Keys : Kept(k)' = Kept(k)
        BY <1>2 DEF Kept
    <2>4. RecoveriesOK'
        BY <1>2, <2>3 DEF RInv, RecoveriesOK, Story, Latest
    <2> QED
        BY <2>1, <2>2, <2>4
<1>6. ASSUME NEW k \in Keys, recoveries[k] # None PROVE Later(recoveries[k])'
    <2> DEFINE r == recoveries[k]
    <2>1. Coherent(r) /\ Later(r) /\ r \in RecoveryRecord
        BY <1>1, <1>6 DEF FieldsOK
    <2> HIDE DEF r
    <2>2. CASE r.effect # None
        <3>1. rec.last # None /\ r.verifiedAt <= rec.last.at /\ r.verifiedAt > r.said.completed
            BY <2>1, <2>2 DEF Later, Coherent
        <3>2. rec.last \in Observation
            BY <1>1, <3>1 DEF State
        <3>3. /\ rec.last.at \in Int /\ obs.at \in Int /\ r.verifiedAt \in Int
              /\ r.said.completed \in Int
            BY <2>1, <3>2, TimesAreInt
        <3>4. r.verifiedAt <= obs.at /\ obs.at > r.said.completed
            BY <1>2, <3>1, <3>3
        <3>5. obs # None
            BY NoneIsNoObservation
        <3> QED
            BY <1>2, <1>3, <2>1, <2>2, <3>4, <3>5 DEF Later, r
    <2>3. CASE r.effect = None
        BY <1>2, <2>3 DEF Later, r
    <2> QED
        BY <2>2, <2>3
<1>7. FieldsOK'
    BY <1>1, <1>2, <1>6 DEF FieldsOK, Coherent
<1>8. \A k \in Keys : Rests(k)
    BY <1>2 DEF Rests
<1> QED
    BY <1>4, <1>5, <1>7, <1>8 DEF RInv

-----------------------------------------------------------------------------
\* Of a receipt that is added: its recovery's, and the latest.
LEMMA ReceiptAdded ==
    ASSUME RInv, NEW stored \in Submission, receipts[ReceiptId(stored)] = None,
           receipts' = [receipts EXCEPT ![ReceiptId(stored)] = stored]
    PROVE  /\ receipts' \in [RequestIds \X Statuses -> Submission \cup {None}]
           /\ ReceiptsAreNamed'
           /\ \A id \in RequestIds \X Statuses : receipts[id] # None => receipts'[id] = receipts[id]
           /\ Kept(Key(stored))' = Kept(Key(stored)) \cup {stored}
           /\ \A k \in Keys : k # Key(stored) => Kept(k)' = Kept(k)
<1>1. /\ receipts \in [RequestIds \X Statuses -> Submission \cup {None}] /\ ReceiptsAreNamed
      /\ ReceiptId(stored) \in RequestIds \X Statuses /\ stored # None
    BY KeysOfSubmissions, NoneIsNoRecord DEF RInv, RecoveryTypeOK
<1>2. \A id \in RequestIds \X Statuses :
         receipts'[id] = IF id = ReceiptId(stored) THEN stored ELSE receipts[id]
    BY <1>1
<1>3. receipts' \in [RequestIds \X Statuses -> Submission \cup {None}]
    BY <1>1
<1>4. ReceiptsAreNamed'
    BY <1>1, <1>2 DEF ReceiptsAreNamed, ReceiptId
<1>5. ASSUME NEW k PROVE Kept(k)' = IF k = Key(stored) THEN Kept(k) \cup {stored} ELSE Kept(k)
    BY <1>1, <1>2 DEF Kept
<1>6. PICK k : k = Key(stored)
    OBVIOUS
<1>7. Kept(Key(stored))' = Kept(Key(stored)) \cup {stored}
    BY <1>5 DEF Kept
<1> QED
    BY <1>1, <1>2, <1>3, <1>4, <1>5, <1>7

\* A transition goes up in rank, and only from a status that no effect gave.
LEMMA Transitions ==
    ASSUME NEW a \in Statuses, NEW b \in Statuses
    PROVE  /\ Rank(a) \in Nat
           /\ ValidTransition(a, b) => Rank(a) < Rank(b) /\ a # "effect_verified"
    BY DEF Statuses, Rank, ValidTransition

LEMMA RecordKeeps ==
    ASSUME RInv, NEW r \in Submission, RecordSolRecovery(r)
    PROVE  RInv' /\ \A k \in Keys : Rests(k)
<1> DEFINE at == Key(r)
           old == recoveries[at]
<1>a. PICK stored : stored = WithDue(old, r)
    OBVIOUS
<1>b. PICK new : new = [said |-> stored, status |-> r.status, verifiedAt |-> 0,
                        effect |-> None, recurrence |-> None]
    OBVIOUS
<1>1. /\ RecoveryTypeOK /\ RecoveriesOK /\ FieldsOK /\ RecurrencesAgree
      /\ recoveries \in [Keys -> RecoveryRecord \cup {None}]
      /\ at \in Keys
    BY KeysOfSubmissions DEF RInv, RecoveryTypeOK
<1>2. /\ receipts[ReceiptId(r)] = None
      /\ rec.last # None /\ rec.last.event = r.event
      /\ old # None => Continues(old, r)
      /\ recoveries' = [recoveries EXCEPT ![at] = new]
      /\ receipts' = [receipts EXCEPT ![ReceiptId(r)] = stored]
      /\ rec' = rec /\ recurrences' = recurrences
    BY <1>a, <1>b DEF RecordSolRecovery, IsFresh, Store
<1>3. /\ stored \in Submission
      /\ stored.incident = r.incident /\ stored.event = r.event /\ stored.request = r.request
      /\ stored.status = r.status /\ stored.completed = r.completed
    <2>1. old # None => old.said.due \in 0..MaxTime
        BY <1>1 DEF RecoveryRecord, Submission
    <2> HIDE DEF old
    <2> QED
        BY <1>a, <2>1 DEF WithDue, Submission
<1>4. Key(stored) = at /\ ReceiptId(stored) = ReceiptId(r)
    BY <1>3 DEF Key, ReceiptId
<1>5. new \in RecoveryRecord /\ new # None /\ new.said = stored /\ new.status = r.status
      /\ new.verifiedAt = 0 /\ new.effect = None /\ new.recurrence = None
    <2>1. r.status \in Statuses /\ 0 \in 0..MaxTime
        BY TimesAreNat DEF Submission
    <2>2. new \in RecoveryRecord
        BY <1>b, <1>3, <2>1 DEF RecoveryRecord
    <2> QED
        BY <1>b, <2>2, NoneIsNoRecord
<1> HIDE DEF old, at
<1>6. /\ receipts' \in [RequestIds \X Statuses -> Submission \cup {None}]
      /\ ReceiptsAreNamed'
      /\ Kept(at)' = Kept(at) \cup {stored}
      /\ \A k \in Keys : k # at => Kept(k)' = Kept(k)
    BY <1>2, <1>3, <1>4, ReceiptAdded
<1>7. /\ recoveries' \in [Keys -> RecoveryRecord \cup {None}]
      /\ \A k \in Keys : recoveries'[k] = IF k = at THEN new ELSE recoveries[k]
    BY <1>1, <1>2, <1>5
<1>8. old # None => /\ old \in RecoveryRecord /\ Coherent(old) /\ Latest(at, old.said)
                    /\ old.said.request = r.request /\ old.said.event = r.event
                    /\ ValidTransition(old.status, r.status)
    BY <1>1, <1>2 DEF old, FieldsOK, RecoveriesOK, Story, Continues
<1>9. old # None => /\ old.status # "effect_verified" /\ old.status = old.said.status
                    /\ old.verifiedAt = 0 /\ old.effect = None /\ old.recurrence = None
    <2> SUFFICES ASSUME old # None
                 PROVE  /\ old.status # "effect_verified" /\ old.status = old.said.status
                        /\ old.verifiedAt = 0 /\ old.effect = None /\ old.recurrence = None
        OBVIOUS
    <2>1. old.status # "effect_verified"
        BY <1>8 DEF ValidTransition
    <2> QED
        BY <1>8, <2>1 DEF Coherent
<1>10. Latest(at, stored)'
    <2>1. CASE old = None
        <3>1. Kept(at)' = {stored}
            BY <1>1, <1>6, <2>1 DEF RecoveriesOK, Story, old
        <3> QED
            BY <3>1 DEF Latest
    <2>2. CASE old # None
        <3>1. /\ old.said \in Kept(at)
              /\ \A s \in Kept(at) :
                   /\ s.request = old.said.request /\ s.event = old.said.event
                   /\ s # old.said => /\ Rank(s.status) < Rank(old.said.status)
                                      /\ \E t \in Kept(at) : ValidTransition(s.status, t.status)
            BY <1>8, <2>2 DEF Latest
        <3>2. \A s \in Kept(at) : s \in Submission
            BY DEF Kept, RInv, RecoveryTypeOK
        <3>3. ValidTransition(old.said.status, stored.status)
              /\ Rank(old.said.status) < Rank(stored.status)
            <4>1. ValidTransition(old.said.status, stored.status)
                BY <1>3, <1>8, <1>9, <2>2
            <4>2. old.said.status \in Statuses /\ stored.status \in Statuses
                BY <1>3, <1>8, <2>2 DEF RecoveryRecord, Submission
            <4> QED
                BY <4>1, <4>2, Transitions
        <3>4. /\ \A s \in Kept(at) : s.status \in Statuses /\ Rank(s.status) \in Nat
              /\ Rank(stored.status) \in Nat
            BY <1>3, <3>2, Transitions DEF Submission
        <3>5. ASSUME NEW s \in Kept(at)
              PROVE  /\ s.request = stored.request /\ s.event = stored.event
                     /\ Rank(s.status) < Rank(stored.status)
                     /\ \E t \in Kept(at) \cup {stored} : ValidTransition(s.status, t.status)
            <4>1. CASE s = old.said
                BY <1>3, <1>8, <2>2, <3>1, <3>3, <4>1
            <4>2. CASE s # old.said
                BY <1>3, <1>8, <2>2, <3>1, <3>3, <3>4, <4>2
            <4> QED
                BY <4>1, <4>2
        <3> QED
            BY <1>6, <3>5 DEF Latest
    <2> QED
        BY <2>1, <2>2
<1>11. RecoveriesOK'
    <2> SUFFICES ASSUME NEW k \in Keys PROVE Story(k)'
        BY DEF RecoveriesOK
    <2>1. CASE k = at
        BY <1>5, <1>7, <1>10, <2>1 DEF Story, Latest
    <2>2. CASE k # at
        BY <1>1, <1>6, <1>7, <2>2 DEF RecoveriesOK, Story, Latest
    <2> QED
        BY <2>1, <2>2
<1>12. FieldsOK'
    <2>1. Coherent(new) /\ Later(new)'
        BY <1>3, <1>5 DEF Coherent, Later
    <2> QED
        BY <1>1, <1>2, <1>7, <2>1 DEF FieldsOK, Later, Coherent
<1>13. RecurrencesAgree'
    <2>1. ASSUME NEW id \in RecurrenceIds, recurrences[id] # None
          PROVE  /\ recurrences[id].id = id
                 /\ <<recurrences[id].incident, recurrences[id].generation>> \in Keys
                 /\ <<recurrences[id].incident, recurrences[id].generation>> # at
                 /\ recoveries[<<recurrences[id].incident, recurrences[id].generation>>] # None
                 /\ recoveries[<<recurrences[id].incident, recurrences[id].generation>>].recurrence
                      = recurrences[id]
        <3>1. recurrences[id] \in RecurrenceReceipt
            BY <1>1, <2>1 DEF RecoveryTypeOK
        <3>2. <<recurrences[id].incident, recurrences[id].generation>> \in Keys
            BY <3>1 DEF RecurrenceReceipt, Keys
        <3> QED
            BY <1>1, <1>9, <2>1, <3>2 DEF RecurrencesAgree, old
    <2>2. ASSUME NEW k \in Keys, recoveries'[k] # None, recoveries'[k].recurrence # None
          PROVE  k # at
        BY <1>5, <1>7, <2>2
    <2> QED
        BY <1>1, <1>2, <1>7, <2>1, <2>2 DEF RecurrencesAgree
<1>14. \A k \in Keys : Rests(k)
    <2> SUFFICES ASSUME NEW k \in Keys PROVE Rests(k)
        OBVIOUS
    <2>1. CASE k = at
        BY <1>2, <1>5, <1>7, <1>8, <1>9, <2>1 DEF Rests, old
    <2>2. CASE k # at
        BY <1>7, <2>2 DEF Rests
    <2> QED
        BY <2>1, <2>2
<1>15. RecoveryTypeOK' /\ OneBodyEach' /\ LastIsRemembered'
    BY <1>2, <1>6, <1>7 DEF RInv, RecoveryTypeOK, OneBodyEach, LastIsRemembered
<1> QED
    BY <1>6, <1>11, <1>12, <1>13, <1>14, <1>15 DEF RInv

-----------------------------------------------------------------------------
\* A call that rewrites one recovery, and none of the receipts it was told.
LEMMA Rewritten ==
    ASSUME RInv, NEW k \in Keys, recoveries[k] # None, NEW new \in RecoveryRecord,
           recoveries' = [recoveries EXCEPT ![k] = new], new.said = recoveries[k].said,
           Coherent(new), Later(new), UNCHANGED <<rec, receipts>>
    PROVE  /\ \A j \in Keys : recoveries'[j] = IF j = k THEN new ELSE recoveries[j]
           /\ new # None
           /\ recoveries' \in [Keys -> RecoveryRecord \cup {None}]
           /\ OneBodyEach' /\ LastIsRemembered' /\ ReceiptsAreNamed' /\ RecoveriesOK' /\ FieldsOK'
<1>1. /\ RecoveryTypeOK /\ RecoveriesOK /\ FieldsOK /\ ReceiptsAreNamed
      /\ recoveries \in [Keys -> RecoveryRecord \cup {None}]
    BY DEF RInv, RecoveryTypeOK
<1>2. \A j \in Keys : recoveries'[j] = IF j = k THEN new ELSE recoveries[j]
    BY <1>1
<1>3. new # None
    BY NoneIsNoRecord
<1>4. recoveries' \in [Keys -> RecoveryRecord \cup {None}]
    BY <1>1
<1>5. OneBodyEach' /\ LastIsRemembered' /\ ReceiptsAreNamed'
    BY DEF RInv, OneBodyEach, LastIsRemembered, ReceiptsAreNamed
<1>6. RecoveriesOK'
    <2> SUFFICES ASSUME NEW j \in Keys PROVE Story(j)'
        BY DEF RecoveriesOK
    <2>1. Story(j) /\ Kept(j)' = Kept(j)
        BY <1>1 DEF RecoveriesOK, Kept
    <2> QED
        BY <1>2, <1>3, <2>1 DEF Story, Latest
<1>7. FieldsOK'
    <2> SUFFICES ASSUME NEW j \in Keys, recoveries'[j] # None
                 PROVE  (Coherent(recoveries[j]) /\ Later(recoveries[j]))'
        BY DEF FieldsOK
    <2>1. CASE j = k
        BY <1>2, <2>1 DEF Coherent, Later
    <2>2. CASE j # k
        BY <1>1, <1>2, <2>2 DEF FieldsOK, Coherent, Later
    <2> QED
        BY <2>1, <2>2
<1> QED
    BY <1>2, <1>3, <1>4, <1>5, <1>6, <1>7

\* An effect is recorded of a recovery that has none: its recurrence stays.
LEMMA EffectRecorded ==
    ASSUME RInv, NEW k \in Keys, recoveries[k] # None, NEW new \in RecoveryRecord,
           recoveries' = [recoveries EXCEPT ![k] = new], recoveries[k].verifiedAt = 0,
           new.said = recoveries[k].said, new.recurrence = recoveries[k].recurrence,
           new.status = "effect_verified", new.verifiedAt # 0,
           Coherent(new), Later(new), UNCHANGED <<rec, receipts, recurrences>>
    PROVE  RInv' /\ \A j \in Keys : Rests(j)
<1>1. /\ \A j \in Keys : recoveries'[j] = IF j = k THEN new ELSE recoveries[j]
      /\ new # None
      /\ recoveries' \in [Keys -> RecoveryRecord \cup {None}]
      /\ OneBodyEach' /\ LastIsRemembered' /\ ReceiptsAreNamed' /\ RecoveriesOK' /\ FieldsOK'
    BY Rewritten
<1>2. RecoveryTypeOK'
    BY <1>1 DEF RInv, RecoveryTypeOK
<1>3. RecurrencesAgree'
    <2>1. RecurrencesAgree
        BY DEF RInv
    <2>2. ASSUME NEW id \in RecurrenceIds, recurrences[id] # None
          PROVE  <<recurrences[id].incident, recurrences[id].generation>> \in Keys
        BY <2>2 DEF RInv, RecoveryTypeOK, RecurrenceReceipt, Keys
    <2> QED
        BY <1>1, <2>1, <2>2 DEF RecurrencesAgree
<1>4. \A j \in Keys : Rests(j)
    <2> SUFFICES ASSUME NEW j \in Keys PROVE Rests(j)
        OBVIOUS
    <2>1. CASE j = k
        <3>1. recoveries[k].effect = None
            BY DEF RInv, FieldsOK, Coherent
        <3> QED
            BY <1>1, <2>1, <3>1 DEF Rests
    <2>2. CASE j # k
        BY <1>1, <2>2 DEF Rests
    <2> QED
        BY <2>1, <2>2
<1> QED
    BY <1>1, <1>2, <1>3, <1>4 DEF RInv

LEMMA VerifyEffectKeeps ==
    ASSUME RInv, NEW v \in EffectReceipt, VerifyEffect(v)
    PROVE  RInv' /\ \A j \in Keys : Rests(j)
<1> DEFINE k == <<v.incident, v.generation>>
           r == recoveries[k]
<1>1. k \in Keys /\ v.at \in 0..MaxTime /\ v.at # 0 /\ v # None
    BY TimesAreNat, NoneIsNoRecord DEF EffectReceipt, Keys
<1>2. /\ NamesLast(v)
      /\ r # None /\ r.status = "decision_accepted" /\ v.at > r.said.completed
      /\ UNCHANGED <<rec, receipts, recurrences>>
    BY DEF VerifyEffect, ShowsEffect
<1>3. r \in RecoveryRecord /\ Coherent(r)
    BY <1>1, <1>2 DEF RInv, RecoveryTypeOK, FieldsOK
<1>a. PICK new : new = [r EXCEPT !.status = "effect_verified", !.verifiedAt = v.at, !.effect = v]
    OBVIOUS
<1>4. recoveries' = [recoveries EXCEPT ![k] = new]
    BY <1>1, <1>a DEF VerifyEffect, RInv, RecoveryTypeOK
<1>5. /\ new \in RecoveryRecord /\ new.said = r.said /\ new.recurrence = r.recurrence
      /\ new.status = "effect_verified" /\ new.verifiedAt = v.at /\ new.effect = v
    BY <1>1, <1>3, <1>a DEF RecoveryRecord, Statuses
<1>6. r.verifiedAt = 0 /\ r.said.status = "decision_accepted" /\ r.recurrence = None
    BY <1>2, <1>3 DEF Coherent
<1>7. Coherent(new)
    BY <1>1, <1>2, <1>5, <1>6 DEF Coherent
<1>8. Later(new)
    <2>1. /\ rec.last # None /\ rec.last.at = v.at /\ rec.last.event = v.event
          /\ rec.last \in Remembered(rec)
        <3>1. rec.last = [event |-> v.event, at |-> v.at, complete |-> TRUE]
            BY <1>2 DEF NamesLast
        <3>2. rec.last \in Observation
            <4>1. v.event \in Events /\ v.at \in 1..MaxTime
                BY DEF EffectReceipt
            <4> QED
                BY <3>1, <4>1 DEF Observation
        <3>3. rec.last # None /\ rec.last \in Remembered(rec)
            BY <3>2, NoneIsNoObservation DEF RInv, LastIsRemembered
        <3> QED
            BY <3>1, <3>3
    <2>2. ASSUME NEW o \in Remembered(rec), v.event = r.said.event, o.event = r.said.event
          PROVE  o.at > r.said.completed
        <3>1. o = rec.last
            BY <2>1, <2>2 DEF RInv, OneBodyEach
        <3> QED
            BY <1>2, <2>1, <3>1
    <2> QED
        BY <1>1, <1>5, <2>1, <2>2 DEF Later
<1> QED
    BY <1>1, <1>2, <1>4, <1>5, <1>6, <1>7, <1>8, EffectRecorded

LEMMA VerifyByNameKeeps ==
    ASSUME RInv, NEW i \in Incidents, VerifySolRecoveryEffect(i)
    PROVE  RInv' /\ \A j \in Keys : Rests(j)
<1>1. PICK g \in Generations :
         /\ \A h \in Generations : recoveries[<<i, h>>] # None <=> h = g
         /\ rec.last # None
         /\ rec.last.at > recoveries[<<i, g>>].said.completed
         /\ recoveries[<<i, g>>].verifiedAt = 0
         /\ recoveries' = [recoveries EXCEPT ![<<i, g>>].status = "effect_verified",
                                             ![<<i, g>>].verifiedAt = rec.last.at]
         /\ UNCHANGED <<rec, receipts, recurrences>>
    BY DEF VerifySolRecoveryEffect
<1> DEFINE k == <<i, g>>
           r == recoveries[k]
<1>2. k \in Keys /\ r # None
    BY <1>1 DEF Keys
<1>3. r \in RecoveryRecord /\ Coherent(r)
    BY <1>2 DEF RInv, RecoveryTypeOK, FieldsOK
<1>4. rec.last.at \in 0..MaxTime /\ rec.last.at # 0
    BY <1>1, TimesAreNat DEF RInv, RecoveryTypeOK, State, Observation
<1>a. PICK new : new = [r EXCEPT !.status = "effect_verified", !.verifiedAt = rec.last.at]
    OBVIOUS
<1>5. recoveries' = [recoveries EXCEPT ![k] = new]
    BY <1>1, <1>2, <1>a DEF RInv, RecoveryTypeOK
<1>6. /\ new \in RecoveryRecord /\ new.said = r.said /\ new.recurrence = r.recurrence
      /\ new.status = "effect_verified" /\ new.verifiedAt = rec.last.at /\ new.effect = r.effect
    BY <1>3, <1>4, <1>a DEF RecoveryRecord, Statuses
<1>7. r.effect = None /\ (r.recurrence # None => r.said.status = "effect_verified")
    BY <1>1, <1>3 DEF Coherent
<1>8. Coherent(new) /\ Later(new)
    BY <1>4, <1>6, <1>7 DEF Coherent, Later
<1> QED
    BY <1>1, <1>2, <1>4, <1>5, <1>6, <1>8, EffectRecorded

LEMMA RecurrenceKeeps ==
    ASSUME RInv, NEW q \in RecurrenceReceipt, RecordSolRecurrenceReceipt(q)
    PROVE  RInv' /\ \A j \in Keys : Rests(j)
<1> DEFINE k == <<q.incident, q.generation>>
           r == recoveries[k]
<1>1. k \in Keys /\ q.id \in RecurrenceIds /\ q # None
    BY NoneIsNoRecord DEF RecurrenceReceipt, Keys
<1>2. /\ recurrences[q.id] = None
      /\ r # None /\ r.status = "effect_verified" /\ r.recurrence = None
      /\ q.at > r.verifiedAt
      /\ recurrences' = [recurrences EXCEPT ![q.id] = q]
      /\ UNCHANGED <<rec, receipts>>
    BY DEF RecordSolRecurrenceReceipt, MayRecur
<1>3. r \in RecoveryRecord /\ Coherent(r) /\ Later(r)
    BY <1>1, <1>2 DEF RInv, RecoveryTypeOK, FieldsOK
<1>a. PICK new : new = [r EXCEPT !.recurrence = q]
    OBVIOUS
<1>4. recoveries' = [recoveries EXCEPT ![k] = new]
    BY <1>1, <1>a DEF RecordSolRecurrenceReceipt, RInv, RecoveryTypeOK
<1>5. /\ new \in RecoveryRecord /\ new.said = r.said /\ new.recurrence = q
      /\ new.status = r.status /\ new.verifiedAt = r.verifiedAt /\ new.effect = r.effect
    BY <1>1, <1>3, <1>a DEF RecoveryRecord
<1>6. Coherent(new) /\ Later(new)
    <2>1. r.verifiedAt \in Int /\ q.at \in Int
        BY <1>3, TimesAreInt
    <2> QED
        BY <1>2, <1>3, <1>5, <2>1 DEF Coherent, Later
<1>7. /\ \A j \in Keys : recoveries'[j] = IF j = k THEN new ELSE recoveries[j]
      /\ new # None
      /\ recoveries' \in [Keys -> RecoveryRecord \cup {None}]
      /\ OneBodyEach' /\ LastIsRemembered' /\ ReceiptsAreNamed' /\ RecoveriesOK' /\ FieldsOK'
    BY <1>1, <1>2, <1>4, <1>5, <1>6, Rewritten
<1>8. /\ recurrences' \in [RecurrenceIds -> RecurrenceReceipt \cup {None}]
      /\ \A id \in RecurrenceIds : recurrences'[id] = IF id = q.id THEN q ELSE recurrences[id]
    BY <1>1, <1>2 DEF RInv, RecoveryTypeOK
<1>9. RecurrencesAgree'
    <2>1. RecurrencesAgree
        BY DEF RInv
    <2>2. ASSUME NEW id \in RecurrenceIds, recurrences'[id] # None
          PROVE  /\ recurrences'[id].id = id
                 /\ recoveries'[<<recurrences'[id].incident, recurrences'[id].generation>>] # None
                 /\ recoveries'[<<recurrences'[id].incident, recurrences'[id].generation>>].recurrence
                      = recurrences'[id]
        <3>1. CASE id = q.id
            BY <1>1, <1>5, <1>7, <1>8, <3>1
        <3>2. CASE id # q.id
            <4> DEFINE j == <<recurrences[id].incident, recurrences[id].generation>>
            <4>1. recurrences'[id] = recurrences[id] /\ recurrences[id] # None
                BY <1>8, <2>2, <3>2
            <4>2. j \in Keys
                BY <4>1 DEF RInv, RecoveryTypeOK, RecurrenceReceipt, Keys
            <4>3. /\ recurrences[id].id = id /\ recoveries[j] # None
                  /\ recoveries[j].recurrence = recurrences[id]
                BY <2>1, <4>1 DEF RecurrencesAgree
            <4>4. j # k
                BY <1>2, <4>1, <4>3
            <4> QED
                BY <1>7, <4>1, <4>2, <4>3, <4>4
        <3> QED
            BY <3>1, <3>2
    <2>3. ASSUME NEW j \in Keys, recoveries'[j] # None, recoveries'[j].recurrence # None
          PROVE  recurrences'[recoveries'[j].recurrence.id] = recoveries'[j].recurrence
        <3>1. CASE j = k
            BY <1>1, <1>5, <1>7, <1>8, <3>1
        <3>2. CASE j # k
            <4>1. recoveries'[j] = recoveries[j]
                BY <1>7, <3>2
            <4>2. recurrences[recoveries[j].recurrence.id] = recoveries[j].recurrence
                BY <2>1, <2>3, <4>1 DEF RecurrencesAgree
            <4>3. recoveries[j].recurrence.id \in RecurrenceIds
                BY <2>3, <4>1 DEF RInv, RecoveryTypeOK, RecoveryRecord, RecurrenceReceipt
            <4> QED
                BY <1>2, <1>8, <2>3, <4>1, <4>2, <4>3
        <3> QED
            BY <3>1, <3>2
    <2> QED
        BY <2>2, <2>3 DEF RecurrencesAgree
<1>10. \A j \in Keys : Rests(j)
    BY <1>5, <1>7 DEF Rests
<1>11. RecoveryTypeOK'
    BY <1>2, <1>7, <1>8 DEF RInv, RecoveryTypeOK
<1> QED
    BY <1>7, <1>9, <1>10, <1>11 DEF RInv

LEMMA AnyCallKeeps ==
    ASSUME RInv, [AnyCall]_<<rec, solVars>>
    PROVE  RInv' /\ [\A j \in Keys : Rests(j)]_recoveries
<1>1. CASE UNCHANGED <<rec, solVars>>
    <2>1. UNCHANGED <<rec, recoveries, receipts, recurrences>>
        BY <1>1 DEF solVars
    <2>2. RecoveryTypeOK' /\ OneBodyEach' /\ LastIsRemembered' /\ ReceiptsAreNamed'
        BY <2>1 DEF RInv, RecoveryTypeOK, OneBodyEach, LastIsRemembered, ReceiptsAreNamed
    <2>3. \A k \in Keys : Kept(k)' = Kept(k)
        BY <2>1 DEF Kept
    <2>4. RecoveriesOK'
        BY <2>1, <2>3 DEF RInv, RecoveriesOK, Story, Latest
    <2>5. FieldsOK'
        BY <2>1 DEF RInv, FieldsOK, Coherent, Later
    <2>6. RecurrencesAgree'
        BY <2>1 DEF RInv, RecurrencesAgree
    <2> QED
        BY <2>1, <2>2, <2>4, <2>5, <2>6 DEF RInv
<1> QED
    BY <1>1, ObserveKeeps, RecordKeeps, VerifyEffectKeeps, VerifyByNameKeeps, RecurrenceKeeps
    DEF AnyCall

\* A receipt that was given stays.
LEMMA ReceiptsStay ==
    ASSUME RInv, [AnyCall]_<<rec, solVars>>,
           NEW id \in RequestIds \X Statuses, receipts[id] # None
    PROVE  receipts'[id] = receipts[id]
<1>1. receipts' = receipts => receipts'[id] = receipts[id]
    OBVIOUS
<1>2. ASSUME NEW r \in Submission, RecordSolRecovery(r)
      PROVE  receipts'[id] = receipts[id]
    <2>1. receipts[ReceiptId(r)] = None /\ DOMAIN receipts = RequestIds \X Statuses
        BY <1>2 DEF RecordSolRecovery, IsFresh, RInv, RecoveryTypeOK
    <2>2. receipts' = [receipts EXCEPT ![ReceiptId(r)] = WithDue(recoveries[Key(r)], r)]
        BY <1>2 DEF RecordSolRecovery, Store
    <2> QED
        BY <2>1, <2>2
<1> QED
    BY <1>1, <1>2
    DEF AnyCall, solVars, Observe, VerifyEffect, VerifySolRecoveryEffect, RecordSolRecurrenceReceipt

-----------------------------------------------------------------------------
(***************************************************************************)
(* What the invariant says of the recoveries.                              *)
(***************************************************************************)
LEMMA OneStory == RInv => ReceiptsTellOneStory
<1> SUFFICES ASSUME RInv, NEW k \in Keys, recoveries[k] # None, NEW r \in Kept(k)
             PROVE  /\ recoveries[k].said \in Kept(k)
                    /\ r.request = recoveries[k].said.request
                    /\ r.event = recoveries[k].said.event
                    /\ (\E s \in Kept(k) : ValidTransition(r.status, s.status))
                          <=> r # recoveries[k].said
    BY DEF ReceiptsTellOneStory, RInv, RecoveriesOK, Story, Latest
<1> DEFINE said == recoveries[k].said
<1>1. Latest(k, said)
    BY DEF RInv, RecoveriesOK, Story
<1>2. \A s \in Kept(k) : s.status \in Statuses
    BY DEF Kept, RInv, RecoveryTypeOK, Submission
<1>3. /\ said \in Kept(k)
      /\ \A s \in Kept(k) :
           /\ s.request = said.request /\ s.event = said.event
           /\ s # said => /\ Rank(s.status) < Rank(said.status)
                          /\ \E t \in Kept(k) : ValidTransition(s.status, t.status)
    BY <1>1 DEF Latest
<1> HIDE DEF said
<1>4. r = said => ~ \E s \in Kept(k) : ValidTransition(r.status, s.status)
    <2> SUFFICES ASSUME NEW s \in Kept(k), ValidTransition(said.status, s.status) PROVE FALSE
        OBVIOUS
    <2>1. /\ Rank(said.status) \in Nat /\ Rank(s.status) \in Nat
          /\ Rank(said.status) < Rank(s.status)
        BY <1>2, <1>3, Transitions
    <2> QED
        BY <1>3, <2>1
<1> QED
    BY <1>3, <1>4 DEF said

LEMMA LaterEffects == RInv => EffectsAreLater
<1> SUFFICES ASSUME RInv, NEW k \in Keys, recoveries[k] # None, recoveries[k].effect # None
             PROVE  LET r == recoveries[k]
                    IN /\ <<r.said.request, "decision_accepted">> \in
                            {id \in DOMAIN receipts : receipts[id] # None}
                       /\ r.effect.at = r.verifiedAt /\ r.verifiedAt > r.said.completed
                       /\ \A o \in Remembered(rec) :
                            o.event = r.said.event /\ o.at <= r.said.completed =>
                                r.effect.event # r.said.event
    BY DEF EffectsAreLater
<1> DEFINE r == recoveries[k]
<1>1. Coherent(r) /\ Later(r) /\ r.said \in Kept(k) /\ r \in RecoveryRecord
    BY DEF RInv, FieldsOK, RecoveriesOK, Story, Latest, RecoveryTypeOK
<1>2. PICK id \in RequestIds \X Statuses : receipts[id] # None /\ r.said = receipts[id]
    BY <1>1 DEF Kept
<1>3. id = <<r.said.request, "decision_accepted">>
    BY <1>1, <1>2 DEF RInv, ReceiptsAreNamed, ReceiptId, Coherent
<1>4. id \in DOMAIN receipts
    BY <1>2 DEF RInv, RecoveryTypeOK
<1>5. r.effect.at = r.verifiedAt /\ r.verifiedAt > r.said.completed
    BY <1>1 DEF Coherent
<1>6. ASSUME NEW o \in Remembered(rec), o.event = r.said.event, o.at <= r.said.completed,
             r.effect.event = r.said.event
      PROVE  FALSE
    <2>1. o.at > r.said.completed
        BY <1>1, <1>6 DEF Later
    <2>2. o \in Observation
        BY DEF Remembered, RInv, RecoveryTypeOK, State
    <2>3. o.at \in Int /\ r.said.completed \in Int
        BY <1>1, <2>2, TimesAreInt
    <2> QED
        BY <1>6, <2>1, <2>3
<1> HIDE DEF r
<1>7. LET s == r
      IN /\ <<s.said.request, "decision_accepted">> \in
              {i \in DOMAIN receipts : receipts[i] # None}
         /\ s.effect.at = s.verifiedAt /\ s.verifiedAt > s.said.completed
         /\ \A o \in Remembered(rec) :
              o.event = s.said.event /\ o.at <= s.said.completed =>
                  s.effect.event # s.said.event
    BY <1>2, <1>3, <1>4, <1>5, <1>6
<1> QED
    BY <1>7 DEF r

LEMMA RecurrencesLast == RInv => RecurrencesFollowEffects
<1> SUFFICES ASSUME RInv PROVE RecurrencesFollowEffects
    OBVIOUS
<1>1. ASSUME NEW k \in Keys, recoveries[k] # None, recoveries[k].recurrence # None,
             recoveries[k].said.status # "effect_verified"
      PROVE  recoveries[k].verifiedAt \in 1..(recoveries[k].recurrence.at - 1)
    <2>1. Coherent(recoveries[k]) /\ recoveries[k] \in RecoveryRecord
        BY <1>1 DEF RInv, FieldsOK, RecoveryTypeOK
    <2>2. recoveries[k].verifiedAt # 0 /\ recoveries[k].verifiedAt < recoveries[k].recurrence.at
        BY <1>1, <2>1 DEF Coherent
    <2>3. recoveries[k].verifiedAt \in Nat /\ recoveries[k].recurrence.at \in Int
        BY <1>1, <2>1, TimesAreInt DEF RecoveryRecord
    <2> QED
        BY <2>2, <2>3
<1> QED
    BY <1>1 DEF RInv, RecurrencesAgree, RecurrencesFollowEffects

LEMMA RestingRecoveries ==
    ASSUME [\A j \in Keys : Rests(j)]_recoveries
    PROVE  [\A k \in Keys : recoveries[k] # None =>
              /\ recoveries'[k] # None
              /\ recoveries[k].verifiedAt # 0 =>
                   recoveries'[k].verifiedAt = recoveries[k].verifiedAt
              /\ rec.last.event # recoveries[k].said.event =>
                   /\ recoveries'[k].said = recoveries[k].said
                   /\ recoveries'[k].status \in {recoveries[k].status, "effect_verified"}]_recoveries
    BY DEF Rests

-----------------------------------------------------------------------------
(***************************************************************************)
(* The grant. What a call has come to vouches for what is on record: past  *)
(* its acceptance the governor has it, past its intent the durable store   *)
(* has it, past its effect the task is ready. That one answer claims the   *)
(* effect needs that one call at most is on its way to do so, and none     *)
(* once an answer did.                                                     *)
(***************************************************************************)
Vouches(k) ==
    /\ k.pc # "idle" => k.o \in Operations
    /\ k.pc \notin {"idle", "validate", "accept"} => Accepted(k.o)
    /\ k.pc \notin {"idle", "validate", "accept", "intend"} => op[k.o] # "none"
    /\ k.pc \in {"observe", "verify", "final"} => board = "Ready"
    /\ k.pc = "final" => /\ recoveries[Key(Acceptance(k.o))] # None
                         /\ recoveries[Key(Acceptance(k.o))].effect = Receipt(k.o)

OnRecord(o) ==
    /\ op[o] # "none" => Accepted(o)
    /\ op[o] = "verified" => /\ board = "Ready"
                             /\ recoveries[Key(Acceptance(o))] # None
                             /\ recoveries[Key(Acceptance(o))].effect = Receipt(o)

Claims(c) == call[c].pc \in {"observe", "verify", "final"} /\ ~call[c].replay

OneClaim ==
    /\ \A c, d \in Callers : Claims(c) /\ Claims(d) => c = d
    /\ \A c \in Callers : Claims(c) => fresh = 0
    /\ fresh # 0 => fresh = 1 /\ board = "Ready"

GrantInv ==
    /\ RInv /\ FixtureTypeOK
    /\ \A c \in Callers : Vouches(call[c])
    /\ \A o \in Operations : OnRecord(o)
    /\ OneClaim

CallRecord ==
    [pc: {"idle", "look", "validate", "accept", "intend",
          "check", "read", "write", "observe", "verify", "final"},
     o: Operations \cup {None}, saw: {"absent", "Blocked"},
     attempt: 0..(Attempts - 1), replay: BOOLEAN]

\* The effect that is there stays, and so do the records.
Steady ==
    /\ board = "Ready" => board' = "Ready"
    /\ \A o \in Operations : op[o] # "none" => op'[o] # "none"

\* What a call submits of its operation is what the governor takes.
LEMMA OperationFacts ==
    ASSUME NEW o \in Operations
    PROVE  /\ Acceptance(o) \in Submission /\ Acceptance(o).due # 0
           /\ Acceptance(o) # None
           /\ ReceiptId(Acceptance(o)) = <<o, "decision_accepted">>
           /\ <<o, "decision_accepted">> \in RequestIds \X Statuses
           /\ Key(Acceptance(o)) \in Keys
           /\ Key(Acceptance(o)) = <<Incident, Generation[EffectEvent]>>
           /\ Key(Acceptance(o)) = <<Receipt(o).incident, Receipt(o).generation>>
           /\ Receipt(o) \in EffectReceipt /\ Receipt(o) # None
           /\ EffectObservation(o) \in Observation
<1>1. /\ Origin[o] \in Observation /\ Origin[o].at < MaxTime /\ o \in RequestIds
      /\ Incident \in Incidents /\ EffectEvent \in Events /\ Verifier \in Verifiers
    BY OperationsAreDecided, ObservedAreObservations
<1>2. /\ Origin[o].event \in Events /\ Origin[o].at \in 1..MaxTime /\ MaxTime \in 0..MaxTime
      /\ Origin[o].at + 1 \in 1..MaxTime /\ MaxTime # 0
    BY <1>1, TimesAreNat DEF Observation
<1>3. Acceptance(o) \in Submission /\ Acceptance(o).due # 0
    BY <1>1, <1>2 DEF Acceptance, Submission, Statuses
<1>4. Receipt(o) \in EffectReceipt /\ EffectObservation(o) \in Observation
    BY <1>1, <1>2 DEF Receipt, EffectReceipt, EffectObservation, Observation, Generations
<1>5. /\ ReceiptId(Acceptance(o)) = <<o, "decision_accepted">>
      /\ Key(Acceptance(o)) = <<Incident, Generation[Origin[o].event]>>
    BY DEF ReceiptId, Key, Acceptance
<1>6. /\ Receipt(o).incident = Incident /\ Receipt(o).generation = Generation[Origin[o].event]
      /\ Generation[Origin[o].event] = Generation[EffectEvent]
    BY FixtureHasOneGeneration DEF Receipt
<1>7. ReceiptId(Acceptance(o)) \in RequestIds \X Statuses /\ Key(Acceptance(o)) \in Keys
    BY <1>3, KeysOfSubmissions
<1> QED
    BY <1>3, <1>4, <1>5, <1>6, <1>7, NoneIsNoRecord

\* What the governor has of an operation, it keeps.
LEMMA KeptForGood ==
    ASSUME RInv, [AnyCall]_<<rec, solVars>>, NEW o \in Operations
    PROVE  /\ Accepted(o) => Accepted(o)'
           /\ recoveries[Key(Acceptance(o))] # None
              /\ recoveries[Key(Acceptance(o))].effect = Receipt(o) =>
                /\ recoveries'[Key(Acceptance(o))] # None
                /\ recoveries'[Key(Acceptance(o))].effect = Receipt(o)
<1>1. ASSUME Accepted(o) PROVE Accepted(o)'
    <2>1. receipts[<<o, "decision_accepted">>] = Acceptance(o)
        BY <1>1, OperationFacts DEF Accepted, IsReplay
    <2>2. receipts'[<<o, "decision_accepted">>] = receipts[<<o, "decision_accepted">>]
        BY <2>1, OperationFacts, ReceiptsStay
    <2> QED
        BY <2>1, <2>2, OperationFacts DEF Accepted, IsReplay
<1>2. [\A j \in Keys : Rests(j)]_recoveries
    BY AnyCallKeeps
<1>3. Key(Acceptance(o)) \in Keys /\ Receipt(o) # None
    BY OperationFacts
<1>4. recoveries' = recoveries \/ Rests(Key(Acceptance(o)))
    BY <1>2, <1>3
<1> QED
    BY <1>1, <1>3, <1>4 DEF Rests

\* What a call vouches for stays true.
LEMMA VouchesStill ==
    ASSUME RInv, [AnyCall]_<<rec, solVars>>, Steady, NEW k, Vouches(k)
    PROVE  Vouches(k)'
<1>1. CASE k.o \in Operations
    <2>1. /\ Accepted(k.o) => Accepted(k.o)'
          /\ recoveries[Key(Acceptance(k.o))] # None
             /\ recoveries[Key(Acceptance(k.o))].effect = Receipt(k.o) =>
               /\ recoveries'[Key(Acceptance(k.o))] # None
               /\ recoveries'[Key(Acceptance(k.o))].effect = Receipt(k.o)
        BY <1>1, KeptForGood
    <2>2. op[k.o] # "none" => op'[k.o] # "none"
        BY <1>1 DEF Steady
    <2> QED
        BY <1>1, <2>1, <2>2 DEF Vouches, Steady
<1>2. CASE k.o \notin Operations
    BY <1>2 DEF Vouches
<1> QED
    BY <1>1, <1>2

LEMMA InitGrantInv == Init => GrantInv
<1> SUFFICES ASSUME Init PROVE GrantInv
    OBVIOUS
<1>1. RInv
    BY InitRInv DEF Init
<1>2. /\ \A c \in Callers : call[c].pc = "idle"
      /\ fresh = 0 /\ board = "absent" /\ crashes = 0 /\ op = [o \in Operations |-> "none"]
    BY DEF Init, Resting
<1>3. FixtureTypeOK
    <2>1. Resting \in CallRecord
        BY DEF Resting, CallRecord, Attempts
    <2>2. call \in [Callers -> CallRecord]
        BY <2>1 DEF Init
    <2>3. 0 \in 0..MaxCrashes
        BY CrashesAreNat
    <2> QED
        BY <1>1, <1>2, <2>2, <2>3 DEF RInv, FixtureTypeOK, CallRecord
<1> QED
    BY <1>1, <1>2, <1>3 DEF GrantInv, Vouches, OnRecord, OneClaim, Claims

\* A step of one call.
LEMMA OwnCall ==
    ASSUME GrantInv, [AnyCall]_<<rec, solVars>>, Steady,
           NEW c \in Callers, NEW k \in CallRecord, call' = [call EXCEPT ![c] = k],
           board' \in {"absent", "Blocked", "Ready"},
           op' \in [Operations -> {"none", "pending", "verified"}],
           crashes' \in 0..MaxCrashes, fresh' \in 0..2,
           Vouches(k)', \A o \in Operations : OnRecord(o)', OneClaim'
    PROVE  GrantInv'
<1>1. RInv' /\ call \in [Callers -> CallRecord] /\ RInv
    BY AnyCallKeeps DEF GrantInv, FixtureTypeOK, CallRecord
<1>2. call' \in [Callers -> CallRecord]
    BY <1>1
<1>3. FixtureTypeOK'
    BY <1>1, <1>2 DEF RInv, FixtureTypeOK, CallRecord
<1>4. ASSUME NEW d \in Callers PROVE Vouches(call[d])'
    <2>1. CASE d = c
        <3>1. call'[d] = k
            BY <1>1, <2>1
        <3> QED
            BY <3>1 DEF Vouches
    <2>2. CASE d # c
        <3>1. PICK j : j = call[d]
            OBVIOUS
        <3>2. call'[d] = j /\ Vouches(j)
            BY <1>1, <2>2, <3>1 DEF GrantInv
        <3>3. Vouches(j)'
            BY <1>1, <3>2, VouchesStill
        <3> QED
            BY <3>2, <3>3 DEF Vouches
    <2> QED
        BY <2>1, <2>2
<1> QED
    BY <1>1, <1>3, <1>4 DEF GrantInv

\* What is on record stays true.
LEMMA OnRecordStill ==
    ASSUME GrantInv, [AnyCall]_<<rec, solVars>>, Steady, NEW o \in Operations, op'[o] = op[o]
    PROVE  OnRecord(o)'
<1>1. RInv /\ OnRecord(o)
    BY DEF GrantInv
<1>2. /\ Accepted(o) => Accepted(o)'
      /\ recoveries[Key(Acceptance(o))] # None
         /\ recoveries[Key(Acceptance(o))].effect = Receipt(o) =>
           /\ recoveries'[Key(Acceptance(o))] # None
           /\ recoveries'[Key(Acceptance(o))].effect = Receipt(o)
    BY <1>1, KeptForGood
<1> QED
    BY <1>1, <1>2 DEF OnRecord, Steady

Claiming(k) == k.pc \in {"observe", "verify", "final"} /\ ~k.replay

\* A step of one call that claims no more than before, and changes no record.
LEMMA QuietCall ==
    ASSUME GrantInv, [AnyCall]_<<rec, solVars>>, UNCHANGED <<board, op, fresh>>,
           NEW c \in Callers, NEW k \in CallRecord, call' = [call EXCEPT ![c] = k],
           crashes' \in 0..MaxCrashes, Vouches(k)', Claiming(k) => Claims(c)
    PROVE  GrantInv'
<1>1. /\ call \in [Callers -> CallRecord] /\ board \in {"absent", "Blocked", "Ready"}
      /\ op \in [Operations -> {"none", "pending", "verified"}] /\ fresh \in 0..2
    BY DEF GrantInv, FixtureTypeOK, CallRecord
<1>2. Steady
    BY DEF Steady
<1>3. \A o \in Operations : OnRecord(o)'
    BY <1>2, OnRecordStill
<1>4. \A d \in Callers : Claims(d)' => Claims(d)
    BY <1>1 DEF Claims, Claiming
<1>5. OneClaim'
    BY <1>4 DEF GrantInv, OneClaim
<1> QED
    BY <1>1, <1>2, <1>3, <1>5, OwnCall

\* What the invariant says of the call that takes a step.
LEMMA StepFacts ==
    ASSUME GrantInv, NEW c \in Callers
    PROVE  /\ RInv /\ call[c] \in CallRecord /\ Vouches(call[c])
           /\ call \in [Callers -> CallRecord]
           /\ board \in {"absent", "Blocked", "Ready"} /\ fresh \in 0..2
           /\ op \in [Operations -> {"none", "pending", "verified"}]
           /\ crashes \in 0..MaxCrashes
           /\ ~At(c, "idle") => call[c].o \in Operations
    BY DEF GrantInv, FixtureTypeOK, CallRecord, Vouches, At

LEMMA ReturnKeeps ==
    ASSUME GrantInv, [AnyCall]_<<rec, solVars>>, NEW c \in Callers, Return(c),
           UNCHANGED <<board, op, fresh>>, crashes' \in 0..MaxCrashes
    PROVE  GrantInv'
<1>1. /\ Resting \in CallRecord /\ ~Claiming(Resting) /\ Resting.pc = "idle"
    BY DEF Resting, CallRecord, Attempts, Claiming
<1>2. Vouches(Resting)'
    BY <1>1 DEF Vouches, Resting
<1> QED
    BY <1>1, <1>2, QuietCall DEF Return

LEMMA StartKeeps ==
    ASSUME GrantInv, NEW c \in Callers, NEW o \in Operations, Start(c, o)
    PROVE  GrantInv'
<1>1. /\ call \in [Callers -> CallRecord] /\ OnRecord(o) /\ crashes \in 0..MaxCrashes
    BY StepFacts DEF GrantInv
<1>2. UNCHANGED <<rec, solVars, board, op, crashes, fresh>>
    BY DEF Start
<1>a. PICK k : k = [Resting EXCEPT !.o = o, !.pc = IF op[o] = "none" THEN "validate" ELSE "look"]
    OBVIOUS
<1>3. /\ k \in CallRecord /\ k.o = o
      /\ k.pc = IF op[o] = "none" THEN "validate" ELSE "look"
    <2>1. PICK pc : pc = IF op[o] = "none" THEN "validate" ELSE "look"
        OBVIOUS
    <2>2. pc \in {"validate", "look"}
        BY <2>1
    <2>3. k = [pc |-> pc, o |-> o, saw |-> "absent", attempt |-> 0, replay |-> FALSE]
        BY <1>a, <2>1 DEF Resting
    <2>4. 0 \in 0..(Attempts - 1)
        BY DEF Attempts
    <2> QED
        BY <2>1, <2>2, <2>3, <2>4 DEF CallRecord
<1>4. call' = [call EXCEPT ![c] = k]
    BY <1>a DEF Start
<1>5. Vouches(k)
    BY <1>1, <1>3 DEF Vouches, OnRecord
<1>6. RInv /\ Steady /\ [AnyCall]_<<rec, solVars>>
    BY <1>2 DEF GrantInv, Steady
<1>7. Vouches(k)'
    BY <1>5, <1>6, VouchesStill
<1>8. ~Claiming(k)
    BY <1>3 DEF Claiming
<1> QED
    BY <1>1, <1>2, <1>3, <1>4, <1>6, <1>7, <1>8, QuietCall

\* A step that moves a call on and looks at what is there only.
LEMMA MovesOn ==
    ASSUME GrantInv, NEW c \in Callers, NEW k \in CallRecord, call' = [call EXCEPT ![c] = k],
           UNCHANGED <<rec, solVars, board, op, crashes, fresh>>,
           Vouches(k), Claiming(k) => Claims(c)
    PROVE  GrantInv'
<1>1. RInv /\ Steady /\ [AnyCall]_<<rec, solVars>>
    BY DEF GrantInv, Steady
<1>2. Vouches(k)'
    BY <1>1, VouchesStill
<1> QED
    BY <1>1, <1>2, StepFacts, QuietCall

LEMMA LookKeeps ==
    ASSUME GrantInv, NEW c \in Callers, Look(c)
    PROVE  GrantInv'
<1>a. PICK k : k = [call[c] EXCEPT !.pc = IF board = "Ready" THEN "observe" ELSE "check",
                                   !.replay = (board = "Ready")]
    OBVIOUS
<1>1. /\ k \in CallRecord /\ k.o = call[c].o /\ k.replay = (board = "Ready")
      /\ k.pc = IF board = "Ready" THEN "observe" ELSE "check"
    BY <1>a, StepFacts DEF CallRecord
<1>2. call' = [call EXCEPT ![c] = k]
    BY <1>a, StepFacts DEF Look
<1>3. call[c].pc = "look" /\ UNCHANGED <<rec, solVars, board, op, crashes, fresh>>
    BY DEF Look, At
<1>4. Vouches(k)
    BY <1>1, <1>3, StepFacts DEF Vouches
<1>5. ~Claiming(k)
    BY <1>1 DEF Claiming
<1> QED
    BY <1>1, <1>2, <1>3, <1>4, <1>5, MovesOn

\* From one place to the next.
LEMMA Goes ==
    ASSUME GrantInv, NEW c \in Callers, NEW pc, Go(c, pc),
           pc \in {"look", "validate", "accept", "intend", "check", "read", "write",
                   "observe", "verify", "final"}
    PROVE  \E k \in CallRecord : /\ call' = [call EXCEPT ![c] = k]
                                 /\ k.pc = pc /\ k.o = call[c].o /\ k.replay = call[c].replay
<1> DEFINE k == [call[c] EXCEPT !.pc = pc]
<1>1. /\ k \in CallRecord /\ k.pc = pc /\ k.o = call[c].o /\ k.replay = call[c].replay
    BY StepFacts DEF CallRecord
<1>2. call' = [call EXCEPT ![c] = k]
    BY StepFacts DEF Go
<1> QED
    BY <1>1, <1>2

LEMMA ValidateKeeps ==
    ASSUME GrantInv, NEW c \in Callers, Validate(c)
    PROVE  GrantInv'
<1>1. call[c].pc = "validate" /\ UNCHANGED <<rec, solVars, board, op, crashes, fresh>>
    BY DEF Validate, At
<1>2. CASE Return(c)
    BY <1>1, <1>2, StepFacts, ReturnKeeps
<1>3. CASE Go(c, "accept")
    <2>1. PICK k \in CallRecord : /\ call' = [call EXCEPT ![c] = k]
                                  /\ k.pc = "accept" /\ k.o = call[c].o
        BY <1>3, Goes
    <2>2. Vouches(k) /\ ~Claiming(k)
        BY <1>1, <2>1, StepFacts DEF Vouches, Claiming
    <2> QED
        BY <1>1, <2>1, <2>2, MovesOn
<1> QED
    BY <1>2, <1>3 DEF Validate

\* What the governor does of an acceptance: it is on record then.
LEMMA AcceptanceRecorded ==
    ASSUME RInv, NEW o \in Operations, RecordSucceeds(Acceptance(o)),
           IF IsFresh(Acceptance(o)) THEN RecordSolRecovery(Acceptance(o))
                                     ELSE UNCHANGED <<rec, solVars>>
    PROVE  Accepted(o)'
<1> DEFINE id == <<o, "decision_accepted">>
           r == Acceptance(o)
<1>1. /\ r \in Submission /\ r.due # 0 /\ r # None
      /\ ReceiptId(r) = id /\ id \in RequestIds \X Statuses
    BY OperationFacts
<1>2. CASE IsFresh(r)
    <2>1. receipts' = [receipts EXCEPT ![id] = WithDue(recoveries[Key(r)], r)]
        BY <1>1, <1>2 DEF RecordSolRecovery, Store
    <2>2. WithDue(recoveries[Key(r)], r) = r
        BY <1>1 DEF WithDue
    <2>3. DOMAIN receipts = RequestIds \X Statuses
        BY DEF RInv, RecoveryTypeOK
    <2>4. receipts'[id] = r
        BY <1>1, <2>1, <2>2, <2>3
    <2> QED
        BY <1>1, <2>4 DEF Accepted, IsReplay
<1>3. CASE ~IsFresh(r)
    <2>1. Accepted(o) /\ receipts' = receipts
        BY <1>3 DEF RecordSucceeds, Accepted, solVars
    <2> QED
        BY <2>1 DEF Accepted, IsReplay
<1> QED
    BY <1>2, <1>3

LEMMA AcceptKeeps ==
    ASSUME GrantInv, NEW c \in Callers, Accept(c)
    PROVE  GrantInv' /\ [AnyCall]_<<rec, solVars>>
<1> DEFINE o == call[c].o
<1>1. /\ call[c].pc = "accept" /\ UNCHANGED <<board, op, crashes, fresh>>
      /\ IF IsFresh(Acceptance(o)) THEN RecordSolRecovery(Acceptance(o))
                                   ELSE UNCHANGED <<rec, solVars>>
    BY DEF Accept, At
<1>2. o \in Operations /\ RInv /\ Steady /\ crashes' \in 0..MaxCrashes
    BY <1>1, StepFacts DEF At, Steady
<1>3. [AnyCall]_<<rec, solVars>>
    BY <1>1, <1>2, OperationFacts DEF AnyCall
<1>4. CASE Return(c)
    BY <1>1, <1>2, <1>3, <1>4, ReturnKeeps
<1>5. CASE RecordSucceeds(Acceptance(o)) /\ Go(c, "intend")
    <2>1. PICK k \in CallRecord : /\ call' = [call EXCEPT ![c] = k]
                                  /\ k.pc = "intend" /\ k.o = o
        BY <1>5, Goes
    <2>2. k.o \in Operations /\ k.o = o
        BY <1>2, <2>1
    <2> HIDE DEF o
    <2>3. Accepted(k.o)'
        BY <1>1, <1>2, <1>5, <2>2, AcceptanceRecorded
    <2>4. Vouches(k)' /\ ~Claiming(k)
        BY <2>1, <2>2, <2>3 DEF Vouches, Claiming
    <2> QED
        BY <1>1, <1>2, <1>3, <2>1, <2>4, QuietCall
<1> QED
    BY <1>3, <1>4, <1>5 DEF Accept

LEMMA IntendKeeps ==
    ASSUME GrantInv, NEW c \in Callers, Intend(c)
    PROVE  GrantInv'
<1> DEFINE o == call[c].o
<1>1. /\ call[c].pc = "intend" /\ UNCHANGED <<rec, solVars, board, crashes, fresh>>
      /\ op' = [op EXCEPT ![o] = IF op[o] = "none" THEN "pending" ELSE op[o]]
      /\ IF op[o] = "none" THEN Go(c, "check") ELSE Return(c)
    BY DEF Intend, At
<1>2. /\ o \in Operations /\ Accepted(o) /\ crashes' \in 0..MaxCrashes
      /\ op \in [Operations -> {"none", "pending", "verified"}]
    BY <1>1, StepFacts DEF At, Vouches
<1>3. [AnyCall]_<<rec, solVars>>
    BY <1>1
<1>4. CASE Return(c) /\ op[o] # "none"
    <2>1. op' = op
        BY <1>1, <1>2, <1>4
    <2> QED
        BY <1>1, <1>2, <1>3, <1>4, <2>1, ReturnKeeps
<1>5. CASE Go(c, "check") /\ op[o] = "none"
    <2>1. PICK k \in CallRecord : call' = [call EXCEPT ![c] = k] /\ k.pc = "check" /\ k.o = o
        BY <1>5, Goes
    <2>2. k.o \in Operations /\ k.o = o
        BY <1>2, <2>1
    <2> HIDE DEF o
    <2>3. \A p \in Operations : op'[p] = IF p = o THEN "pending" ELSE op[p]
        BY <1>1, <1>2, <1>5
    <2>4. op' \in [Operations -> {"none", "pending", "verified"}] /\ Steady
        BY <1>1, <1>2, <1>5, <2>3 DEF Steady
    <2>5. Accepted(k.o)'
        BY <1>1, <1>2, <2>2 DEF Accepted, IsReplay, solVars
    <2>6. Vouches(k)' /\ ~Claiming(k)
        BY <2>1, <2>2, <2>3, <2>5 DEF Vouches, Claiming
    <2>7. ASSUME NEW p \in Operations PROVE OnRecord(p)'
        <3>1. CASE p = k.o
            BY <2>2, <2>3, <2>5, <3>1 DEF OnRecord
        <3>2. CASE p # k.o
            <4>1. op'[p] = op[p]
                BY <2>2, <2>3, <3>2
            <4> QED
                BY <1>3, <2>4, <4>1, OnRecordStill
        <3> QED
            BY <3>1, <3>2
    <2>8. OneClaim'
        <3>1. \A d \in Callers : Claims(d)' => Claims(d)
            BY <2>1, <2>6, StepFacts DEF Claims, Claiming
        <3> QED
            BY <1>1, <3>1 DEF GrantInv, OneClaim
    <2>9. board' \in {"absent", "Blocked", "Ready"} /\ fresh' \in 0..2
        BY <1>1, StepFacts
    <2> QED
        BY <1>2, <1>3, <2>1, <2>4, <2>6, <2>7, <2>8, <2>9, OwnCall
<1> QED
    BY <1>1, <1>4, <1>5

LEMMA CheckKeeps ==
    ASSUME GrantInv, NEW c \in Callers, Check(c)
    PROVE  GrantInv'
<1>1. call[c].pc = "check" /\ UNCHANGED <<rec, solVars, board, op, crashes, fresh>>
    BY DEF Check, At
<1>2. CASE Return(c)
    BY <1>1, <1>2, StepFacts, ReturnKeeps
<1>3. CASE Go(c, "read")
    <2>1. PICK k \in CallRecord : /\ call' = [call EXCEPT ![c] = k]
                                  /\ k.pc = "read" /\ k.o = call[c].o
        BY <1>3, Goes
    <2>2. Vouches(k) /\ ~Claiming(k)
        BY <1>1, <2>1, StepFacts DEF Vouches, Claiming
    <2> QED
        BY <1>1, <2>1, <2>2, MovesOn
<1> QED
    BY <1>2, <1>3 DEF Check

LEMMA ReadKeeps ==
    ASSUME GrantInv, NEW c \in Callers, Read(c)
    PROVE  GrantInv'
<1>1. /\ call[c].pc = "read" /\ UNCHANGED <<rec, solVars, board, op, crashes, fresh>>
      /\ call' = IF board = "Ready"
                 THEN [call EXCEPT ![c].pc = "observe", ![c].replay = TRUE]
                 ELSE [call EXCEPT ![c].pc = "write", ![c].saw = board]
    BY DEF Read, At
<1>2. CASE board = "Ready"
    <2>a. PICK k : k = [call[c] EXCEPT !.pc = "observe", !.replay = TRUE]
        OBVIOUS
    <2>1. k \in CallRecord /\ k.o = call[c].o /\ k.pc = "observe" /\ k.replay
        BY <2>a, StepFacts DEF CallRecord
    <2>2. call' = [call EXCEPT ![c] = k]
        BY <1>1, <1>2, <2>a, StepFacts
    <2>3. Vouches(k) /\ ~Claiming(k)
        BY <1>1, <1>2, <2>1, StepFacts DEF Vouches, Claiming
    <2> QED
        BY <1>1, <2>1, <2>2, <2>3, MovesOn
<1>3. CASE board # "Ready"
    <2>a. PICK k : k = [call[c] EXCEPT !.pc = "write", !.saw = board]
        OBVIOUS
    <2>1. k \in CallRecord /\ k.o = call[c].o /\ k.pc = "write"
        BY <1>3, <2>a, StepFacts DEF CallRecord
    <2>2. call' = [call EXCEPT ![c] = k]
        BY <1>1, <1>3, <2>a, StepFacts
    <2>3. Vouches(k) /\ ~Claiming(k)
        BY <1>1, <2>1, StepFacts DEF Vouches, Claiming
    <2> QED
        BY <1>1, <2>1, <2>2, <2>3, MovesOn
<1> QED
    BY <1>2, <1>3

\* A row is written by a caller that is still at no effect.
LEMMA BoardWritten ==
    ASSUME GrantInv, NEW c \in Callers, NEW k \in CallRecord, call' = [call EXCEPT ![c] = k],
           UNCHANGED <<rec, solVars, op, crashes, fresh>>, board' \in {"absent", "Blocked", "Ready"},
           board = "Ready" => board' = "Ready", Vouches(k)',
           Claiming(k) => board # "Ready" /\ board' = "Ready"
    PROVE  GrantInv'
<1>1. Steady /\ [AnyCall]_<<rec, solVars>>
    BY DEF Steady
<1>2. /\ op' \in [Operations -> {"none", "pending", "verified"}] /\ fresh' \in 0..2
      /\ crashes' \in 0..MaxCrashes
    BY StepFacts
<1>3. \A o \in Operations : OnRecord(o)'
    BY <1>1, OnRecordStill
<1>4. OneClaim'
    <2>1. OneClaim /\ \A d \in Callers : Claims(d) => board = "Ready"
        BY DEF GrantInv, Vouches, Claims
    <2>2. \A d \in Callers : call'[d] = IF d = c THEN k ELSE call[d]
        BY StepFacts
    <2>3. \A d \in Callers : Claims(d)' => Claims(d) \/ (d = c /\ Claiming(k))
        BY <2>2 DEF Claims, Claiming
    <2> QED
        BY <2>1, <2>3 DEF OneClaim
<1> QED
    BY <1>1, <1>2, <1>3, <1>4, OwnCall

LEMMA WriteKeeps ==
    ASSUME GrantInv, NEW c \in Callers, Write(c)
    PROVE  GrantInv'
<1>1. /\ call[c].pc = "write" /\ UNCHANGED <<rec, solVars, op, crashes, fresh>>
      /\ call[c].o \in Operations /\ Accepted(call[c].o) /\ op[call[c].o] # "none"
    BY StepFacts DEF Write, At, Vouches
<1>2. Accepted(call[c].o) => \A k : k.o = call[c].o => Accepted(k.o)'
    BY <1>1 DEF Accepted, IsReplay, solVars
<1>3. CASE Swaps(c)
    <2>1. board = "Blocked" /\ board' = "Ready" /\ Go(c, "observe")
        BY <1>3 DEF Write, Swaps
    <2>2. PICK k \in CallRecord : /\ call' = [call EXCEPT ![c] = k]
                                  /\ k.pc = "observe" /\ k.o = call[c].o
        BY <2>1, Goes
    <2>3. Vouches(k)'
        BY <1>1, <1>2, <2>1, <2>2 DEF Vouches
    <2> QED
        BY <1>1, <2>1, <2>2, <2>3, BoardWritten
<1>4. CASE ~Swaps(c)
    <2>1. /\ board' = IF board = "absent" THEN "Blocked" ELSE board
          /\ NextAttempt(c)
        BY <1>4 DEF Write
    <2>2. board' \in {"absent", "Blocked", "Ready"} /\ (board = "Ready" => board' = "Ready")
        BY <2>1, StepFacts
    <2>3. CASE Return(c)
        <3>1. /\ Resting \in CallRecord /\ ~Claiming(Resting) /\ Resting.pc = "idle"
            BY DEF Resting, CallRecord, Attempts, Claiming
        <3>2. Vouches(Resting)'
            BY <3>1 DEF Vouches, Resting
        <3> QED
            BY <1>1, <2>2, <2>3, <3>1, <3>2, BoardWritten DEF Return
    <2>4. CASE ~Return(c)
        <3>a. PICK k : k = [call[c] EXCEPT !.pc = "read", !.attempt = call[c].attempt + 1]
            OBVIOUS
        <3>1. call' = [call EXCEPT ![c] = k] /\ call[c].attempt + 1 # Attempts
            BY <2>1, <2>4, <3>a, StepFacts DEF NextAttempt
        <3>2. call[c].attempt + 1 \in 0..(Attempts - 1)
            BY <3>1, StepFacts DEF CallRecord, Attempts
        <3>3. k \in CallRecord /\ k.pc = "read" /\ k.o = call[c].o
            BY <3>a, <3>2, StepFacts DEF CallRecord
        <3>4. Vouches(k)' /\ ~Claiming(k)
            BY <1>1, <1>2, <3>3 DEF Vouches, Claiming
        <3> QED
            BY <1>1, <2>2, <3>1, <3>3, <3>4, BoardWritten
    <2> QED
        BY <2>3, <2>4
<1> QED
    BY <1>3, <1>4

\* A call that goes on to where its effect is read back, while the governor is called.
LEMMA ReadsBack ==
    ASSUME GrantInv, [AnyCall]_<<rec, solVars>>, NEW c \in Callers,
           UNCHANGED <<board, op, crashes, fresh>>,
           \/ Go(c, "verify") /\ At(c, "observe")
           \/ /\ Go(c, "final") /\ At(c, "verify")
              /\ recoveries'[Key(Acceptance(call[c].o))] # None
              /\ recoveries'[Key(Acceptance(call[c].o))].effect = Receipt(call[c].o)
    PROVE  GrantInv'
<1>1. PICK k \in CallRecord : /\ call' = [call EXCEPT ![c] = k]
                              /\ k.pc \in {"verify", "final"} /\ k.o = call[c].o
                              /\ k.replay = call[c].replay
                              /\ k.pc = "final" =>
                                   /\ recoveries'[Key(Acceptance(k.o))] # None
                                   /\ recoveries'[Key(Acceptance(k.o))].effect = Receipt(k.o)
    <2>1. CASE Go(c, "verify")
        BY <2>1, Goes
    <2>2. CASE /\ Go(c, "final")
               /\ recoveries'[Key(Acceptance(call[c].o))] # None
               /\ recoveries'[Key(Acceptance(call[c].o))].effect = Receipt(call[c].o)
        <3>1. PICK k \in CallRecord : /\ call' = [call EXCEPT ![c] = k]
                                      /\ k.pc = "final" /\ k.o = call[c].o
                                      /\ k.replay = call[c].replay
            BY <2>2, Goes
        <3> QED
            BY <2>2, <3>1
    <2> QED
        BY <2>1, <2>2
<1>2. /\ call[c].pc \in {"observe", "verify"} /\ call[c].o \in Operations
      /\ Vouches(call[c]) /\ RInv
    BY StepFacts DEF At
<1>3. k.o \in Operations /\ Accepted(k.o) /\ op[k.o] # "none" /\ board = "Ready"
    BY <1>1, <1>2 DEF Vouches
<1>4. Accepted(k.o)'
    BY <1>2, <1>3, KeptForGood
<1>5. Vouches(k)'
    BY <1>1, <1>3, <1>4 DEF Vouches
<1>6. Claiming(k) => Claims(c)
    BY <1>1, <1>2 DEF Claiming, Claims
<1>7. crashes' \in 0..MaxCrashes
    BY StepFacts
<1> QED
    BY <1>1, <1>5, <1>6, <1>7, QuietCall

LEMMA ObserveEffectKeeps ==
    ASSUME GrantInv, NEW c \in Callers, ObserveEffect(c)
    PROVE  GrantInv' /\ [AnyCall]_<<rec, solVars>>
<1> DEFINE obs == EffectObservation(call[c].o)
<1>1. /\ At(c, "observe") /\ UNCHANGED <<board, op, crashes, fresh>>
      /\ Observe(obs) \/ UNCHANGED <<rec, solVars>>
      /\ Go(c, "verify") \/ Return(c)
    BY DEF ObserveEffect
<1>2. obs \in Observation /\ crashes' \in 0..MaxCrashes
    BY <1>1, StepFacts, OperationFacts DEF At
<1>3. [AnyCall]_<<rec, solVars>>
    BY <1>1, <1>2 DEF AnyCall
<1> QED
    BY <1>1, <1>2, <1>3, ReturnKeeps, ReadsBack

LEMMA VerifyReadbackKeeps ==
    ASSUME GrantInv, NEW c \in Callers, VerifyReadback(c)
    PROVE  GrantInv' /\ [AnyCall]_<<rec, solVars>>
<1> DEFINE o == call[c].o
           k == Key(Acceptance(o))
<1>1. At(c, "verify") /\ UNCHANGED <<board, op, crashes, fresh>>
    BY DEF VerifyReadback
<1>2. /\ o \in Operations /\ crashes' \in 0..MaxCrashes
      /\ Receipt(o) \in EffectReceipt /\ k \in Keys
      /\ k = <<Receipt(o).incident, Receipt(o).generation>>
    BY <1>1, StepFacts, OperationFacts DEF At
<1>3. \/ Go(c, "final") /\ UNCHANGED <<rec, solVars>> /\ IsVerifiedBy(k, Receipt(o))
      \/ Go(c, "final") /\ VerifyEffect(Receipt(o))
      \/ Return(c) /\ UNCHANGED <<rec, solVars>>
    BY DEF VerifyReadback
<1>4. CASE Return(c) /\ UNCHANGED <<rec, solVars>>
    BY <1>1, <1>2, <1>4, ReturnKeeps
<1>5. CASE Go(c, "final") /\ UNCHANGED <<rec, solVars>> /\ IsVerifiedBy(k, Receipt(o))
    <2>1. recoveries'[k] # None /\ recoveries'[k].effect = Receipt(o)
        BY <1>5 DEF IsVerifiedBy, solVars
    <2> QED
        BY <1>1, <1>5, <2>1, ReadsBack
<1>6. CASE Go(c, "final") /\ VerifyEffect(Receipt(o))
    <2>1. [AnyCall]_<<rec, solVars>> /\ [\A j \in Keys : Rests(j)]_recoveries
        BY <1>2, <1>6, AnyCallKeeps, StepFacts DEF AnyCall
    <2>2. /\ recoveries[k] # None
          /\ recoveries' = [recoveries EXCEPT ![k].status = "effect_verified",
                                              ![k].verifiedAt = Receipt(o).at,
                                              ![k].effect = Receipt(o)]
        BY <1>2, <1>6 DEF VerifyEffect
    <2>3. recoveries'[k].effect = Receipt(o)
        <3>1. DOMAIN recoveries = Keys /\ recoveries[k] \in RecoveryRecord
            BY <1>2, <2>2, StepFacts DEF RInv, RecoveryTypeOK
        <3>2. recoveries'[k] = [recoveries[k] EXCEPT !.status = "effect_verified",
                                                     !.verifiedAt = Receipt(o).at,
                                                     !.effect = Receipt(o)]
            BY <1>2, <2>2, <3>1
        <3> QED
            BY <3>1, <3>2 DEF RecoveryRecord
    <2>4. recoveries'[k] # None
        BY <1>2, <2>1, <2>2 DEF Rests
    <2> QED
        BY <1>1, <1>6, <2>1, <2>3, <2>4, ReadsBack
<1> QED
    BY <1>3, <1>4, <1>5, <1>6

LEMMA FinalizeKeeps ==
    ASSUME GrantInv, NEW c \in Callers, Finalize(c)
    PROVE  GrantInv'
<1> DEFINE o == call[c].o
<1>1. /\ call[c].pc = "final" /\ UNCHANGED <<rec, solVars, board, crashes>>
      /\ op' = [op EXCEPT ![o] = "verified"]
      /\ fresh' = IF call[c].replay \/ fresh = 2 THEN fresh ELSE fresh + 1
      /\ call' = [call EXCEPT ![c] = Resting]
    BY DEF Finalize, At, Return
<1>2. /\ o \in Operations /\ Accepted(o) /\ board = "Ready"
      /\ recoveries[Key(Acceptance(o))] # None
      /\ recoveries[Key(Acceptance(o))].effect = Receipt(o)
    BY <1>1, StepFacts DEF At, Vouches
<1>3. \A p \in Operations : op'[p] = IF p = o THEN "verified" ELSE op[p]
    BY <1>1, StepFacts
<1>4. /\ op' \in [Operations -> {"none", "pending", "verified"}]
      /\ Steady /\ [AnyCall]_<<rec, solVars>>
    BY <1>1, <1>3, StepFacts DEF Steady
<1>5. /\ Resting \in CallRecord /\ Resting.pc = "idle"
      /\ Vouches(Resting)'
    BY DEF Resting, CallRecord, Attempts, Vouches
<1>6. ASSUME NEW p \in Operations PROVE OnRecord(p)'
    <2>1. CASE p = o
        <3>1. /\ Accepted(p) /\ recoveries[Key(Acceptance(p))] # None
              /\ recoveries[Key(Acceptance(p))].effect = Receipt(p)
            BY <1>2, <2>1
        <3> HIDE DEF o
        <3>2. Accepted(p)' /\ board' = "Ready"
            BY <1>1, <1>2, <3>1 DEF Accepted, IsReplay, solVars
        <3> QED
            BY <1>1, <3>1, <3>2 DEF OnRecord, solVars
    <2>2. CASE p # o
        <3>1. op'[p] = op[p]
            BY <1>3, <2>2
        <3> QED
            BY <1>4, <3>1, OnRecordStill
    <2> QED
        BY <2>1, <2>2
<1>7. OneClaim' /\ fresh' \in 0..2
    <2>1. OneClaim /\ fresh \in 0..2
        BY StepFacts DEF GrantInv
    <2>2. \A d \in Callers : Claims(d)' => Claims(d) /\ d # c
        BY <1>1, <1>5, StepFacts DEF Claims
    <2>3. CASE Claims(c)
        <3>1. fresh = 0 /\ fresh' = 1
            BY <1>1, <2>1, <2>3 DEF OneClaim, Claims
        <3>2. \A d \in Callers : ~Claims(d)'
            BY <2>1, <2>2, <2>3 DEF OneClaim
        <3> QED
            BY <1>1, <1>2, <3>1, <3>2 DEF OneClaim
    <2>4. CASE ~Claims(c)
        <3>1. fresh' = fresh
            BY <1>1, <2>4 DEF Claims
        <3> QED
            BY <1>1, <2>1, <2>2, <3>1 DEF OneClaim
    <2> QED
        BY <2>3, <2>4
<1>8. board' \in {"absent", "Blocked", "Ready"} /\ crashes' \in 0..MaxCrashes
    BY <1>1, StepFacts
<1> QED
    BY <1>1, <1>4, <1>5, <1>6, <1>7, <1>8, OwnCall

LEMMA InterruptKeeps ==
    ASSUME GrantInv, NEW c \in Callers, Interrupt(c)
    PROVE  GrantInv'
<1>1. crashes' \in 0..MaxCrashes
    BY StepFacts, CrashesAreNat DEF Interrupt
<1> QED
    BY <1>1, ReturnKeeps DEF Interrupt

\* Others call the governor.
LEMMA OthersCall == RecoveryNext => AnyCall
    BY CallsAreWellFormed, ObservedAreObservations DEF RecoveryNext, AnyCall

LEMMA OthersKeep ==
    ASSUME GrantInv, [AnyCall]_<<rec, solVars>>, UNCHANGED fixtureVars
    PROVE  GrantInv'
<1>1. /\ RInv' /\ RInv /\ UNCHANGED <<board, op, call, crashes, fresh>> /\ Steady
    BY AnyCallKeeps DEF GrantInv, fixtureVars, Steady
<1>2. FixtureTypeOK'
    BY <1>1 DEF RInv, GrantInv, FixtureTypeOK
<1>3. ASSUME NEW c \in Callers PROVE Vouches(call[c])'
    <2>1. PICK k : k = call[c]
        OBVIOUS
    <2>2. call'[c] = k /\ Vouches(k)
        BY <1>1, <2>1 DEF GrantInv
    <2>3. Vouches(k)'
        BY <1>1, <2>2, VouchesStill
    <2> QED
        BY <2>2, <2>3 DEF Vouches
<1>4. \A o \in Operations : OnRecord(o)'
    BY <1>1, OnRecordStill
<1>5. OneClaim'
    BY <1>1 DEF GrantInv, OneClaim, Claims
<1> QED
    BY <1>1, <1>2, <1>3, <1>4, <1>5 DEF GrantInv

\* Every step keeps the invariant, and does to the governor's record what a call does.
LEMMA StepGrantInv ==
    ASSUME GrantInv, [Next]_vars
    PROVE  GrantInv' /\ [AnyCall]_<<rec, solVars>>
<1>1. CASE UNCHANGED vars
    BY <1>1, OthersKeep DEF vars
<1>2. CASE RecoveryNext /\ UNCHANGED fixtureVars
    BY <1>2, OthersCall, OthersKeep
<1>3. ASSUME NEW c \in Callers, NEW o \in Operations, Start(c, o)
      PROVE  GrantInv' /\ [AnyCall]_<<rec, solVars>>
    BY <1>3, StartKeeps DEF Start
<1>4. ASSUME NEW c \in Callers, Interrupt(c)
      PROVE  GrantInv' /\ [AnyCall]_<<rec, solVars>>
    BY <1>4, InterruptKeeps DEF Interrupt
<1>5. ASSUME NEW c \in Callers, Step(c)
      PROVE  GrantInv' /\ [AnyCall]_<<rec, solVars>>
    <2>1. CASE Accept(c) \/ ObserveEffect(c) \/ VerifyReadback(c)
        BY <2>1, AcceptKeeps, ObserveEffectKeeps, VerifyReadbackKeeps
    <2>2. CASE ~(Accept(c) \/ ObserveEffect(c) \/ VerifyReadback(c))
        <3>1. UNCHANGED <<rec, solVars>>
            BY <1>5, <2>2 DEF Step, Look, Validate, Intend, Check, Read, Write, Finalize
        <3>2. GrantInv'
            BY <1>5, <2>2, LookKeeps, ValidateKeeps, IntendKeeps, CheckKeeps, ReadKeeps,
               WriteKeeps, FinalizeKeeps DEF Step
        <3> QED
            BY <3>1, <3>2
    <2> QED
        BY <2>1, <2>2
<1> QED
    BY <1>1, <1>2, <1>3, <1>4, <1>5 DEF Next

LEMMA RecoveriesInductive ==
    RecoverySpec => []RInv /\ [][\A j \in Keys : Rests(j)]_recoveries
<1>1. RecoveryInit => RInv
    BY InitRInv
<1>2. RInv /\ [RecoveryNext]_<<rec, solVars>>
        => RInv' /\ [\A j \in Keys : Rests(j)]_recoveries
    BY OthersCall, AnyCallKeeps
<1> QED
    BY <1>1, <1>2, PTL DEF RecoverySpec

LEMMA Inductive ==
    Spec => []GrantInv /\ [][\A j \in Keys : Rests(j)]_recoveries
<1>1. Init => GrantInv
    BY InitGrantInv
<1>2. GrantInv /\ [Next]_vars => GrantInv' /\ [\A j \in Keys : Rests(j)]_recoveries
    <2>1. GrantInv => RInv
        BY DEF GrantInv
    <2> QED
        BY <2>1, StepGrantInv, AnyCallKeeps
<1> QED
    BY <1>1, <1>2, PTL DEF Spec

-----------------------------------------------------------------------------
\* The governor's record, its recoveries and receipts are well-typed, and so
\* are the board, the operations' records and the calls.
THEOREM TypeCorrect == Spec => []FixtureTypeOK
<1>1. GrantInv => FixtureTypeOK
    BY DEF GrantInv
<1> QED
    BY <1>1, Inductive, PTL

\* The receipts of a recovery tell one story (RecordSolRecovery), whoever
\* calls the governor, and with the grant's calls among the others.
THEOREM StoriesHold == (RecoverySpec => []ReceiptsTellOneStory) /\ (Spec => []ReceiptsTellOneStory)
<1>1. GrantInv => RInv
    BY DEF GrantInv
<1> QED
    BY <1>1, OneStory, RecoveriesInductive, Inductive, PTL

\* An effect with a receipt was verified after its decision and by another
\* observation (VerifySolRecoveryEffectReceipt).
THEOREM EffectsComeLater == (RecoverySpec => []EffectsAreLater) /\ (Spec => []EffectsAreLater)
<1>1. GrantInv => RInv
    BY DEF GrantInv
<1> QED
    BY <1>1, LaterEffects, RecoveriesInductive, Inductive, PTL

\* Recurrence receipts and recoveries agree, and a recurrence follows the
\* effect (RecordSolRecurrenceReceipt).
THEOREM RecurrencesComeLast ==
    (RecoverySpec => []RecurrencesFollowEffects) /\ (Spec => []RecurrencesFollowEffects)
<1>1. GrantInv => RInv
    BY DEF GrantInv
<1> QED
    BY <1>1, RecurrencesLast, RecoveriesInductive, Inductive, PTL

\* A recovery whose observation was superseded makes no further step of its
\* own, and what is verified stays so (RecordSolRecovery).
THEOREM SupersededRest == (RecoverySpec => SupersededRecoveriesRest) /\ (Spec => SupersededRecoveriesRest)
<1> DEFINE A == \A k \in Keys : recoveries[k] # None =>
                  /\ recoveries'[k] # None
                  /\ recoveries[k].verifiedAt # 0 =>
                       recoveries'[k].verifiedAt = recoveries[k].verifiedAt
                  /\ rec.last.event # recoveries[k].said.event =>
                       /\ recoveries'[k].said = recoveries[k].said
                       /\ recoveries'[k].status \in {recoveries[k].status, "effect_verified"}
<1>1. [\A j \in Keys : Rests(j)]_recoveries => [A]_recoveries
    BY RestingRecoveries
<1> QED
    BY <1>1, RecoveriesInductive, Inductive, PTL DEF SupersededRecoveriesRest

\* One answer at most claims the effect as its own work (applyReady).
THEOREM OneAnswerClaims == Spec => []OneAnswerClaimsTheEffect
<1>1. GrantInv => OneAnswerClaimsTheEffect
    BY DEF GrantInv, FixtureTypeOK, OneClaim, OneAnswerClaimsTheEffect
<1> QED
    BY <1>1, Inductive, PTL

\* A pending operation is authorized for good, and a verified one has its
\* effect receipt (applyFixtureGrantWithHooks, finishFixtureGrant).
THEOREM BothRecordsAgree == Spec => []RecordsAgree
<1>1. GrantInv => RecordsAgree
    BY DEF GrantInv, OnRecord, RecordsAgree
<1> QED
    BY <1>1, Inductive, PTL

-----------------------------------------------------------------------------
(***************************************************************************)
(* The grant implements the effect it promises: no two operations are      *)
(* accepted, since their acceptances belong to one recovery.               *)
(***************************************************************************)
Decision == IF \E o \in Operations : Accepted(o)
            THEN CHOOSE o \in Operations : Accepted(o) ELSE None

LEMMA OneAccepted ==
    ASSUME GrantInv, NEW o \in Operations, NEW p \in Operations, Accepted(o), Accepted(p)
    PROVE  o = p
<1> DEFINE k == <<Incident, Generation[EffectEvent]>>
<1>1. /\ <<o, "decision_accepted">> \in RequestIds \X Statuses
      /\ <<p, "decision_accepted">> \in RequestIds \X Statuses
      /\ receipts[<<o, "decision_accepted">>] = Acceptance(o) /\ Acceptance(o) # None
      /\ receipts[<<p, "decision_accepted">>] = Acceptance(p) /\ Acceptance(p) # None
      /\ Key(Acceptance(o)) = k /\ Key(Acceptance(p)) = k /\ k \in Keys
    BY OperationFacts DEF Accepted, IsReplay
<1>2. Acceptance(o) \in Kept(k) /\ Acceptance(p) \in Kept(k)
    BY <1>1 DEF Kept
<1>3. Acceptance(o).request = Acceptance(p).request
    BY <1>1, <1>2 DEF GrantInv, RInv, RecoveriesOK, Story, Latest
<1> QED
    BY <1>3 DEF Acceptance

AcceptsOne == \A o, p \in Operations : Accepted(o) /\ Accepted(p) => o = p

LEMMA AcceptsOneAlways == (GrantInv => AcceptsOne) /\ (GrantInv' => AcceptsOne')
<1>1. GrantInv => AcceptsOne
    BY OneAccepted DEF AcceptsOne
<1> QED
    BY <1>1, PTL

DecisionOK ==
    /\ \A o \in Operations : Accepted(o) => Decision = o
    /\ (\A o \in Operations : ~Accepted(o)) => Decision = None

LEMMA DecisionIsAccepted == (GrantInv => DecisionOK) /\ (GrantInv' => DecisionOK')
<1>1. GrantInv => DecisionOK
    <2> SUFFICES ASSUME GrantInv PROVE DecisionOK
        OBVIOUS
    <2>1. ASSUME NEW o \in Operations, Accepted(o) PROVE Decision = o
        <3>1. Decision \in Operations /\ Accepted(Decision)
            BY <2>1 DEF Decision
        <3> QED
            BY <2>1, <3>1, AcceptsOneAlways DEF AcceptsOne
    <2> QED
        BY <2>1 DEF DecisionOK, Decision
<1> QED
    BY <1>1, PTL

\* What is accepted changes in Accept alone.
LEMMA OthersAcceptNothing ==
    ASSUME GrantInv, RecoveryNext, NEW o \in Operations
    PROVE  Accepted(o)' <=> Accepted(o)
<1> DEFINE id == <<o, "decision_accepted">>
<1>1. ReceiptId(Acceptance(o)) = id
    BY OperationFacts
<1>2. receipts'[id] = receipts[id]
    <2>1. ASSUME NEW r \in Recorded, RecordSolRecovery(r)
          PROVE  receipts'[id] = receipts[id]
        <3>1. ReceiptId(r) # id
            BY OthersLeaveTheIncident DEF ReceiptId
        <3>2. receipts' = [receipts EXCEPT ![ReceiptId(r)] = WithDue(recoveries[Key(r)], r)]
            BY <2>1 DEF RecordSolRecovery, Store
        <3> QED
            BY <3>1, <3>2, OperationFacts DEF GrantInv, RInv, RecoveryTypeOK
    <2> QED
        BY <2>1 DEF RecoveryNext, Observe, solVars, VerifyEffect, VerifySolRecoveryEffect,
                    RecordSolRecurrenceReceipt
<1> QED
    BY <1>1, <1>2 DEF Accepted, IsReplay

LEMMA OnlyAcceptAccepts ==
    ASSUME GrantInv, GrantInv', NEW c \in Callers, Accept(c), NEW o \in Operations,
           ~(Accepted(o)' <=> Accepted(o))
    PROVE  /\ o = call[c].o /\ Accepted(o)'
           /\ \A p \in Operations : ~Accepted(p)
<1> DEFINE own == call[c].o
           id == <<o, "decision_accepted">>
<1>1. own \in Operations /\ RInv /\ [AnyCall]_<<rec, solVars>>
    BY StepFacts, AcceptKeeps DEF Accept, At
<1>2. /\ ReceiptId(Acceptance(o)) = id
      /\ ReceiptId(Acceptance(own)) = <<own, "decision_accepted">>
    BY <1>1, OperationFacts
<1>3. receipts'[id] # receipts[id]
    BY <1>2 DEF Accepted, IsReplay
<1>4. IsFresh(Acceptance(own)) /\ RecordSolRecovery(Acceptance(own))
    BY <1>3 DEF Accept, solVars
<1>5. own = o
    <2>1. receipts' = [receipts EXCEPT ![<<own, "decision_accepted">>] =
                          WithDue(recoveries[Key(Acceptance(own))], Acceptance(own))]
        BY <1>2, <1>4 DEF RecordSolRecovery, Store
    <2>2. DOMAIN receipts = RequestIds \X Statuses /\ id \in RequestIds \X Statuses
        BY <1>1, OperationFacts DEF RInv, RecoveryTypeOK
    <2> QED
        BY <1>3, <2>1, <2>2
<1>6. ~Accepted(o)
    BY <1>2, <1>4, <1>5, OperationFacts DEF IsFresh, Accepted, IsReplay
<1>7. ASSUME NEW p \in Operations, Accepted(p) PROVE FALSE
    <2>1. Accepted(p)' /\ Accepted(o)'
        BY <1>1, <1>6, <1>7, KeptForGood
    <2>2. p = o
        <3>1. AcceptsOne'
            BY AcceptsOneAlways
        <3> QED
            BY <2>1, <3>1 DEF AcceptsOne
    <2> QED
        BY <1>6, <1>7, <2>2
<1> QED
    BY <1>5, <1>6, <1>7

\* The decision stays what it is while nothing more is accepted.
LEMMA DecisionStays ==
    ASSUME GrantInv, GrantInv', \A o \in Operations : Accepted(o)' <=> Accepted(o)
    PROVE  Decision' = Decision
<1>1. DecisionOK /\ DecisionOK'
    BY DecisionIsAccepted
<1>2. CASE \E o \in Operations : Accepted(o)
    BY <1>1, <1>2 DEF DecisionOK
<1>3. CASE \A o \in Operations : ~Accepted(o)
    BY <1>1, <1>3 DEF DecisionOK
<1> QED
    BY <1>2, <1>3

TaskState == IF board = "Ready" THEN "Ready" ELSE "Blocked"

\* The abstract steps, in terms of the decision and the task.
LEMMA GrantedSteps ==
    ASSUME \/ UNCHANGED <<Decision, op, TaskState>>
           \/ \E o \in Operations :
                 \/ Decision = None /\ Decision' = o /\ UNCHANGED <<op, TaskState>>
                 \/ /\ Decision = o /\ op[o] = "none"
                    /\ op' = [op EXCEPT ![o] = "pending"]
                    /\ UNCHANGED <<Decision, TaskState>>
                 \/ /\ op[o] = "pending" /\ TaskState = "Blocked" /\ TaskState' = "Ready"
                    /\ UNCHANGED <<Decision, op>>
                 \/ /\ op[o] = "pending" /\ TaskState = "Ready"
                    /\ op' = [op EXCEPT ![o] = "verified"]
                    /\ UNCHANGED <<Decision, TaskState>>
    PROVE  [Granted!Next]_<<Decision, op, TaskState>>
    BY DEF Granted!Next, Granted!Decide, Granted!Intend, Granted!Effect, Granted!Verify,
           Decision, TaskState

LEMMA CallImplements ==
    ASSUME GrantInv, GrantInv', NEW c \in Callers, Step(c)
    PROVE  [Granted!Next]_<<Decision, op, TaskState>>
<1> DEFINE o == call[c].o
<1>1. /\ Vouches(call[c]) /\ DecisionOK /\ DecisionOK'
      /\ op \in [Operations -> {"none", "pending", "verified"}]
      /\ \A p \in Operations : OnRecord(p)
    BY StepFacts, DecisionIsAccepted DEF GrantInv
<1>2. o \in Operations
    BY StepFacts DEF Step, Look, Validate, Accept, Intend, Check, Read, Write, ObserveEffect,
                     VerifyReadback, Finalize, At
<1>3. CASE Accept(c)
    <2>1. UNCHANGED <<op, TaskState>>
        BY <1>3 DEF Accept, TaskState
    <2>2. CASE \A p \in Operations : Accepted(p)' <=> Accepted(p)
        BY <2>1, <2>2, DecisionStays, GrantedSteps
    <2>3. CASE ~ \A p \in Operations : Accepted(p)' <=> Accepted(p)
        <3>1. PICK p \in Operations : ~(Accepted(p)' <=> Accepted(p))
            BY <2>3
        <3>2. Accepted(p)' /\ \A q \in Operations : ~Accepted(q)
            BY <1>3, <3>1, OnlyAcceptAccepts
        <3>3. Decision = None /\ Decision' = p
            BY <1>1, <3>2 DEF DecisionOK
        <3> QED
            BY <2>1, <3>3, GrantedSteps
    <2> QED
        BY <2>2, <2>3
<1>4. CASE ~Accept(c)
    <2>1. receipts' = receipts
        BY <1>4 DEF Step, Look, Validate, Intend, Check, Read, Write, ObserveEffect,
                    VerifyReadback, Finalize, solVars, Observe, VerifyEffect
    <2>2. \A p \in Operations : Accepted(p)' <=> Accepted(p)
        BY <2>1 DEF Accepted, IsReplay
    <2>3. Decision' = Decision
        BY <2>2, DecisionStays
    <2>4. CASE Intend(c)
        <3>1. /\ UNCHANGED TaskState /\ call[c].pc = "intend"
              /\ op' = [op EXCEPT ![o] = IF op[o] = "none" THEN "pending" ELSE op[o]]
            BY <2>4 DEF Intend, At, TaskState
        <3>2. Decision = o
            BY <1>1, <1>2, <3>1 DEF Vouches, DecisionOK
        <3>3. CASE op[o] = "none"
            BY <1>2, <2>3, <3>1, <3>2, <3>3, GrantedSteps
        <3>4. CASE op[o] # "none"
            <4>1. op' = op
                BY <1>1, <1>2, <3>1, <3>4
            <4> QED
                BY <2>3, <3>1, <4>1, GrantedSteps
        <3> QED
            BY <3>3, <3>4
    <2>5. CASE Write(c)
        <3>1. op' = op /\ call[c].pc = "write"
            BY <2>5 DEF Write, At
        <3>2. CASE Swaps(c)
            <4>1. board = "Blocked" /\ board' = "Ready"
                BY <2>5, <3>2 DEF Write, Swaps
            <4>2. op[o] = "pending"
                <5>1. op[o] # "none" /\ op[o] # "verified"
                    BY <1>1, <1>2, <3>1, <4>1 DEF Vouches, OnRecord
                <5> QED
                    BY <1>1, <1>2, <5>1
            <4>3. TaskState = "Blocked" /\ TaskState' = "Ready"
                BY <4>1 DEF TaskState
            <4> QED
                BY <1>2, <2>3, <3>1, <4>2, <4>3, GrantedSteps
        <3>3. CASE ~Swaps(c)
            <4>1. UNCHANGED TaskState
                BY <2>5, <3>3 DEF Write, TaskState
            <4> QED
                BY <2>3, <3>1, <4>1, GrantedSteps
        <3> QED
            BY <3>2, <3>3
    <2>6. CASE Finalize(c)
        <3>1. /\ UNCHANGED TaskState /\ call[c].pc = "final"
              /\ op' = [op EXCEPT ![o] = "verified"]
            BY <2>6 DEF Finalize, At, TaskState
        <3>2. op[o] # "none" /\ TaskState = "Ready"
            BY <1>1, <3>1 DEF Vouches, TaskState
        <3>3. CASE op[o] = "pending"
            BY <1>2, <2>3, <3>1, <3>2, <3>3, GrantedSteps
        <3>4. CASE op[o] # "pending"
            <4>1. op' = op
                BY <1>1, <1>2, <3>1, <3>2, <3>4
            <4> QED
                BY <2>3, <3>1, <4>1, GrantedSteps
        <3> QED
            BY <3>3, <3>4
    <2>7. CASE ~(Intend(c) \/ Write(c) \/ Finalize(c))
        <3>1. UNCHANGED <<op, board>>
            BY <1>4, <2>7 DEF Step, Look, Validate, Check, Read, ObserveEffect, VerifyReadback
        <3>2. UNCHANGED TaskState
            BY <3>1 DEF TaskState
        <3> QED
            BY <2>3, <3>1, <3>2, GrantedSteps
    <2> QED
        BY <2>4, <2>5, <2>6, <2>7
<1> QED
    BY <1>3, <1>4

LEMMA NextImplements ==
    ASSUME GrantInv, GrantInv', [Next]_vars
    PROVE  [Granted!Next]_<<Decision, op, TaskState>>
<1>1. ASSUME UNCHANGED <<op, board>>, \A o \in Operations : Accepted(o)' <=> Accepted(o)
      PROVE  [Granted!Next]_<<Decision, op, TaskState>>
    <2>1. UNCHANGED TaskState
        BY <1>1 DEF TaskState
    <2> QED
        BY <1>1, <2>1, DecisionStays, GrantedSteps
<1>2. CASE UNCHANGED vars
    <2>1. UNCHANGED <<op, board, receipts>>
        BY <1>2 DEF vars, fixtureVars, solVars
    <2> QED
        BY <1>1, <2>1 DEF Accepted, IsReplay
<1>3. CASE RecoveryNext /\ UNCHANGED fixtureVars
    <2>1. UNCHANGED <<op, board>>
        BY <1>3 DEF fixtureVars
    <2> QED
        BY <1>1, <1>3, <2>1, OthersAcceptNothing
<1>4. ASSUME NEW c \in Callers, NEW o \in Operations, Start(c, o)
      PROVE  [Granted!Next]_<<Decision, op, TaskState>>
    <2>1. UNCHANGED <<op, board, receipts>>
        BY <1>4 DEF Start, solVars
    <2> QED
        BY <1>1, <2>1 DEF Accepted, IsReplay
<1>5. ASSUME NEW c \in Callers, Interrupt(c)
      PROVE  [Granted!Next]_<<Decision, op, TaskState>>
    <2>1. UNCHANGED <<op, board, receipts>>
        BY <1>5 DEF Interrupt, solVars
    <2> QED
        BY <1>1, <2>1 DEF Accepted, IsReplay
<1> QED
    BY <1>2, <1>3, <1>4, <1>5, CallImplements DEF Next

\* One operation is decided for, its intent is on record before the task is
\* changed, and it is verified after, however callers, interruptions and
\* observations interleave (docs/stage-0-fixture-poc.md).
THEOREM GrantImplementsEffect == Spec => ImplementsGrantedEffect
<1>1. Init => Granted!Init
    <2> SUFFICES ASSUME Init PROVE Granted!Init
        OBVIOUS
    <2>1. \A o \in Operations : ~Accepted(o)
        BY OperationFacts DEF Init, RecoveryInit, Accepted, IsReplay
    <2>2. op = [o \in Operations |-> "none"] /\ board = "absent"
        BY DEF Init
    <2> QED
        BY <2>1, <2>2 DEF Granted!Init
<1>2. GrantInv /\ GrantInv' /\ [Next]_vars => [Granted!Next]_<<Decision, op, TaskState>>
    BY NextImplements
<1> QED
    BY <1>1, <1>2, Inductive, PTL DEF Spec, ImplementsGrantedEffect, Granted!Spec, Decision, TaskState
=============================================================================
