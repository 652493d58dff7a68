----------------------- MODULE DurableStoreRuleProofs -----------------------
(***************************************************************************)
(* What TLAPS proves of callers that follow the rule of ResumeCompactions  *)
(* (SoleWriter), for any finite sets of records and receipt ids, any       *)
(* bodies, leaders and bounds: rows, log, snapshots, archive and receipts  *)
(* agree at every moment, an interrupted second step can always be         *)
(* finished, and the store implements a map of records.                    *)
(***************************************************************************)
EXTENDS DurableStoreProofs

-----------------------------------------------------------------------------
(***************************************************************************)
(* Who may write. The current lease has one holder, what it is in the      *)
(* middle of is archived, and when it has recovered and is in the middle   *)
(* of nothing, nothing is archived.                                        *)
(***************************************************************************)
Leads(l) == fence > 0 /\ token[l] = fence

LeaseInv ==
    /\ \A l \in Leaders : token[l] <= fence
    /\ \A l, k \in Leaders : Leads(l) /\ Leads(k) => l = k
    /\ fence = 0 => Existing = {}
    /\ \A l \in Leaders : Leads(l) /\ pending[l] # None => pending[l] \in Archived
    /\ \A l \in Leaders : Leads(l) /\ pending[l] = None /\ recovered[l] => Archived = {}
    /\ OneAtATime

\* Log and archive speak of receipts that exist; a reactivation starts from no row.
ReceiptsAreNamed ==
    /\ \A m \in log : /\ m.compaction # None => m.compaction \in Rollups
                      /\ m.restore # None => /\ m.restore \in Existing \ Rollups
                                            /\ m.before = Absent
    /\ \A c \in ReceiptIds \ Existing : archive[c] = NoRows

\* Between the two steps of a rollup its rows stay live as they were archived.
RolledRowsStay ==
    \A c \in Archived \cap Rollups : \A r \in RolledIds(c) : current[r] = archive[c][r]

ReceiptsInv == ReceiptsAreNamed /\ RolledRowsStay /\ RecoveryCanFinish

StoreInv == TypeInv /\ LeaseInv /\ ReceiptsInv

\* What the log says, as long as all of it is there.
LogInv ==
    /\ CurrentMatchesLog
    /\ SnapshotsMatchLog
    /\ \A s \in snapshots : s.watermark <= LastMutationID
    /\ MutationsChain

IInv == StoreInv /\ LogInv

-----------------------------------------------------------------------------
(***************************************************************************)
(* The effective rows, when no receipt is archived and when one is.        *)
(***************************************************************************)
RowsWhenIdle == Archived = {} => Effective = current

RowsInRollup ==
    \A c \in Rollups : Archived = {c} =>
        Effective = [r \in Records |-> IF r \in RolledIds(c) THEN Absent ELSE current[r]]

RowsInReactivation ==
    \A c \in Existing \ Rollups : \A m \in log :
        Archived = {c} /\ {n \in log : n.restore = c} = {m} =>
            Effective = [current EXCEPT ![m.rid] = m.after]

EffectiveRows == RowsWhenIdle /\ RowsInRollup /\ RowsInReactivation

LEMMA EffectiveCases == TypeOK /\ ReceiptsAreNamed => EffectiveRows
<1> SUFFICES ASSUME TypeOK, ReceiptsAreNamed
             PROVE  EffectiveRows
    OBVIOUS
<1>1. current = [r \in Records |-> current[r]]
    BY DEF TypeOK
<1>2. RowsWhenIdle
    BY <1>1 DEF RowsWhenIdle, Effective, EffectiveRow, RolledButLive, AwaitsReactivation
<1>3. RowsInRollup
    <2> SUFFICES ASSUME NEW c \in Rollups, Archived = {c}
                 PROVE  Effective = [r \in Records |->
                            IF r \in RolledIds(c) THEN Absent ELSE current[r]]
        BY DEF RowsInRollup
    <2>1. c # None
        BY SentinelsAreFresh DEF Rollups, Existing
    <2>2. \A r \in Records : AwaitsReactivation(r) = {}
        BY <2>1 DEF ReceiptsAreNamed, AwaitsReactivation
    <2>3. \A r \in Records : RolledButLive(r) <=> r \in RolledIds(c)
        BY DEF RolledButLive
    <2> QED
        BY <2>2, <2>3 DEF Effective, EffectiveRow
<1>4. RowsInReactivation
    <2> SUFFICES ASSUME NEW c \in Existing \ Rollups, NEW m \in log,
                        Archived = {c}, {n \in log : n.restore = c} = {m}
                 PROVE  Effective = [current EXCEPT ![m.rid] = m.after]
        BY DEF RowsInReactivation
    <2>1. \A r \in Records : ~RolledButLive(r)
        BY DEF RolledButLive
    <2>2. m.rid \in Records
        BY DEF TypeOK, Mutation
    <2>3. \A r \in Records : AwaitsReactivation(r) = IF r = m.rid THEN {m} ELSE {}
        BY DEF AwaitsReactivation
    <2>4. \A r \in Records :
            Effective[r] = IF r = m.rid THEN m.after ELSE current[r]
        BY <2>1, <2>3 DEF Effective, EffectiveRow
    <2>5. Effective = [r \in Records |-> Effective[r]]
        BY DEF Effective
    <2> QED
        BY <1>1, <2>2, <2>4, <2>5
<1> QED
    BY <1>2, <1>3, <1>4 DEF EffectiveRows

LEMMA EffectiveCasesNext == TypeOK' /\ ReceiptsAreNamed' => EffectiveRows'
    BY EffectiveCases, PTL

-----------------------------------------------------------------------------
(***************************************************************************)
(* What a step means to the log: it appends the entries E, new ids, one    *)
(* per record at most, each from the effective row before the step to the  *)
(* one after it, and every other effective row stays. A snapshot it        *)
(* captures holds the live rows, the last id and the moving records.       *)
(***************************************************************************)
CapturedNow(s) ==
    s.watermark = LastMutationID /\ s.content = current /\ s.moving = Moving

Writes(E) ==
    /\ E \subseteq Mutation /\ log' = log \cup E
    /\ \A m \in E : /\ m.id > LastMutationID
                    /\ m.before = Effective[m.rid] /\ m.after = Effective'[m.rid]
    /\ \A m, n \in E : m.rid = n.rid => m = n
    /\ \A r \in Records : (\A m \in E : m.rid # r) => Effective'[r] = Effective[r]
    /\ \A s \in snapshots' \ snapshots : CapturedNow(s)

\* The entries are what a replay accepts: an add where there was no row, and
\* a remove for all records of one new rollup, with its archive and receipt.
NamedBy(m, E) ==
    /\ archive[m.compaction][m.rid] = m.before
    /\ receipts[m.compaction].rolled[m.rid] = m.id
    /\ \A r \in RolledIds(m.compaction) : \E n \in E : n.compaction = m.compaction /\ n.rid = r

Explains(E) ==
    /\ \A m \in E : /\ (m.op = "add") <=> (m.before = Absent)
                    /\ (m.op = "remove") <=> (m.compaction # None)
                    /\ m.compaction # None => /\ m.compaction \in Rollups' \ Existing
                                              /\ NamedBy(m, E)'
    /\ Existing \subseteq Existing' /\ Rollups \subseteq Rollups'
    /\ \A c \in Existing : /\ receipts'[c].rolled = receipts[c].rolled
                           /\ archive'[c] = archive[c]

StepWrites == \E E : Writes(E) /\ Explains(E)

LEMMA WritesNothing ==
    ASSUME UNCHANGED <<log, archive>>, Effective' = Effective,
           Existing' = Existing, Rollups' = Rollups,
           \A c \in Existing : receipts'[c].rolled = receipts[c].rolled,
           \A s \in snapshots' \ snapshots : CapturedNow(s)
    PROVE  StepWrites
<1>1. Writes({})
    BY DEF Writes
<1>2. Explains({})
    BY DEF Explains
<1> QED
    BY <1>1, <1>2 DEF StepWrites

-----------------------------------------------------------------------------
(***************************************************************************)
(* Steps that leave rows, log and receipts alone: leases, crashes, retries *)
(* and the calls of ResumeCompactions.                                     *)
(***************************************************************************)
ContentVars == <<current, log, archive, receipts>>

LEMMA ReceiptsSame ==
    ASSUME UNCHANGED ContentVars
    PROVE  /\ Existing' = Existing /\ Archived' = Archived /\ Rollups' = Rollups
           /\ Effective' = Effective /\ LastMutationID' = LastMutationID
           /\ \A c \in Archived : VerifyArchiveForCompaction(c)' <=> VerifyArchiveForCompaction(c)
           /\ \A c \in Archived : CanReactivate(c)' <=> CanReactivate(c)
           /\ RolledRowsStay => RolledRowsStay'
<1>1. Existing' = Existing
    BY DEF ContentVars, Existing
<1>2. Archived' = Archived /\ Rollups' = Rollups
    BY <1>1 DEF ContentVars, Archived, Rollups
<1>3. \A c : RolledIds(c)' = RolledIds(c)
    BY DEF ContentVars, RolledIds
<1>4. Effective' = Effective
    <2>1. \A r : RolledButLive(r)' <=> RolledButLive(r)
        BY <1>2, <1>3 DEF RolledButLive
    <2>2. \A r : AwaitsReactivation(r)' = AwaitsReactivation(r)
        BY <1>2 DEF ContentVars, AwaitsReactivation
    <2>3. ASSUME NEW r
          PROVE  EffectiveRow(r)' = EffectiveRow(r)
        <3> DEFINE S == AwaitsReactivation(r)
                   T == AwaitsReactivation(r)'
                   chosen == CHOOSE m \in S : TRUE
                   chosenNext == CHOOSE m \in T : TRUE
        <3>1. S = T
            BY <2>2
        <3>2. chosen = chosenNext
            <4> HIDE DEF S, T
            <4> QED
                BY <3>1, Zenon
        <3>3. EffectiveRow(r) = IF RolledButLive(r) THEN Absent
                                ELSE IF S # {} THEN chosen.after ELSE current[r]
            BY DEF EffectiveRow
        <3>4. EffectiveRow(r)' = IF RolledButLive(r)' THEN Absent
                                 ELSE IF T # {} THEN chosenNext.after ELSE current'[r]
            BY DEF EffectiveRow
        <3> HIDE DEF S, T, chosen, chosenNext
        <3> QED
            BY <2>1, <3>1, <3>2, <3>3, <3>4 DEF ContentVars
    <2> QED
        BY <2>3 DEF Effective
<1>5. LastMutationID' = LastMutationID
    BY DEF ContentVars, LastMutationID
<1>6. \A c : VerifyArchiveForCompaction(c)' <=> VerifyArchiveForCompaction(c)
    BY <1>3 DEF ContentVars, VerifyArchiveForCompaction
<1>7. \A c : CanReactivate(c)' <=> CanReactivate(c)
    BY DEF ContentVars, CanReactivate, IsReactivation
<1>8. RolledRowsStay => RolledRowsStay'
    BY <1>2, <1>3 DEF RolledRowsStay, ContentVars
<1> QED
    BY <1>1, <1>2, <1>4, <1>5, <1>6, <1>7, <1>8

LEMMA ReceiptsInvSame ==
    ASSUME ReceiptsInv, UNCHANGED ContentVars
    PROVE  ReceiptsInv'
    BY ReceiptsSame DEF ReceiptsInv, RecoveryCanFinish, ReceiptsAreNamed, ContentVars

\* An election, an interruption, a retry, a call of ResumeCompactions, a
\* second step that is refused.
LeaderStep(l) ==
    \/ AcquireLease(l)
    \/ Interrupt(l)
    \/ SecondStepFails(l)
    \/ \E c \in ReceiptIds : RetryReceipt(l, c) \/ ResumeNext(l, c)
    \/ ResumeDone(l)

LEMMA LeaderStepKeeps ==
    ASSUME StoreInv, NEW l \in Leaders, LeaderStep(l)
    PROVE  LeaseInv' /\ ReceiptsInv' /\ StepWrites /\ UNCHANGED <<ContentVars, snapshots>>
<1>1. UNCHANGED <<ContentVars, snapshots>>
    BY DEF LeaderStep, AcquireLease, Interrupt, SecondStepFails, RetryReceipt,
           ResumeNext, ResumeDone, storeVars, ContentVars
<1>2. ReceiptsInv' /\ StepWrites
    BY <1>1, ReceiptsInvSame, ReceiptsSame, WritesNothing DEF StoreInv, ContentVars
<1>3. Existing' = Existing /\ Archived' = Archived /\ Rollups' = Rollups
    BY <1>1, ReceiptsSame
<1>4. /\ fence \in Nat /\ token \in [Leaders -> Nat]
      /\ pending \in [Leaders -> ReceiptIds \cup {None}]
      /\ recovered \in [Leaders -> BOOLEAN]
    BY DEF StoreInv, TypeInv, TypeOK
<1>5. OneAtATime'
    BY <1>3 DEF StoreInv, LeaseInv, OneAtATime
<1>6. CASE AcquireLease(l)
    <2>1. /\ fence' = fence + 1 /\ token' = [token EXCEPT ![l] = fence + 1]
          /\ recovered' = [recovered EXCEPT ![l] = FALSE]
          /\ pending' = pending /\ pending[l] = None
        BY <1>6 DEF AcquireLease
    <2>2. \A k \in Leaders : Leads(k)' <=> k = l
        BY <1>4, <2>1 DEF StoreInv, LeaseInv, Leads
    <2>3. \A k \in Leaders : token'[k] <= fence'
        BY <1>4, <2>1 DEF StoreInv, LeaseInv
    <2> QED
        BY <1>1, <1>2, <1>4, <1>5, <2>1, <2>2, <2>3 DEF LeaseInv
<1>7. CASE ~AcquireLease(l)
    <2>1. UNCHANGED <<fence, token>>
        BY <1>7 DEF LeaderStep, Interrupt, SecondStepFails, RetryReceipt, ResumeNext,
                    ResumeDone, storeVars
    <2>2. \A k \in Leaders : Leads(k)' <=> Leads(k)
        BY <2>1 DEF Leads
    <2>3. \A k \in Leaders : k # l =>
             pending'[k] = pending[k] /\ recovered'[k] = recovered[k]
        BY <1>4, <1>7 DEF LeaderStep, Interrupt, SecondStepFails, RetryReceipt, ResumeNext,
                    ResumeDone
    <2>4. /\ pending'[l] # None => pending'[l] \in Archived
          /\ pending'[l] = None /\ recovered'[l] => Archived = {}
        <3>1. CASE Interrupt(l) \/ SecondStepFails(l)
            BY <1>4, <3>1 DEF Interrupt, SecondStepFails
        <3>2. ASSUME NEW c \in ReceiptIds, RetryReceipt(l, c) \/ ResumeNext(l, c)
              PROVE  pending'[l] = c /\ c \in Archived /\ c # None
            BY <1>4, <3>2, SentinelsAreFresh DEF RetryReceipt, ResumeNext, Oldest
        <3>3. CASE ResumeDone(l)
            BY <1>4, <3>3 DEF ResumeDone
        <3> QED
            BY <1>7, <3>1, <3>2, <3>3 DEF LeaderStep
    <2> QED
        BY <1>1, <1>2, <1>3, <1>5, <2>1, <2>2, <2>3, <2>4 DEF StoreInv, LeaseInv
<1> QED
    BY <1>6, <1>7

-----------------------------------------------------------------------------
(***************************************************************************)
(* First transactions. A caller that follows the rule and is not fenced    *)
(* leads, and finds nothing archived.                                      *)
(***************************************************************************)
LEMMA WritersFindNothingArchived ==
    ASSUME SoleWriter, StoreInv, NEW l \in Leaders, MayWrite(l), CheckFencing(l)
    PROVE  Leads(l) /\ Archived = {} /\ Effective = current
<1>1. fence \in Nat /\ token[l] \in Nat /\ token[l] <= fence
    BY DEF StoreInv, LeaseInv, TypeInv, TypeOK
<1>2. Leads(l)
    BY <1>1 DEF MayWrite, CheckFencing, Leads
<1>3. Archived = {}
    BY <1>2 DEF MayWrite, StoreInv, LeaseInv
<1> QED
    BY <1>2, <1>3, EffectiveCases DEF EffectiveRows, RowsWhenIdle, StoreInv, ReceiptsInv, TypeInv

\* Leads is about fence and token alone.
LEMMA LeadsSame == UNCHANGED <<fence, token>> => \A k \in Leaders : Leads(k)' <=> Leads(k)
    BY DEF Leads

\* One entry, then one row.
LEMMA AppendKeeps ==
    ASSUME SoleWriter, StoreInv, TypeInv', NEW l \in Leaders,
           NEW op \in {"add", "update"}, NEW r \in Records,
           NEW b \in Row, AppendThenApply(l, op, r, b),
           (op = "add") <=> (current[r] = Absent)
    PROVE  /\ LeaseInv' /\ ReceiptsInv' /\ StepWrites
           /\ Effective' = [Effective EXCEPT ![r] = b]
<1> DEFINE e == Entry(l, op, r, b)
           E == {e}
<1>1. Archived = {} /\ Effective = current
    BY WritersFindNothingArchived DEF AppendThenApply
<1>2. /\ log' = log \cup {e} /\ current' = [current EXCEPT ![r] = b]
      /\ UNCHANGED <<fence, archive, receipts, snapshots, leaderVars>>
    BY DEF AppendThenApply
<1>3. /\ e.rid = r /\ e.before = current[r] /\ e.after = b /\ e.op = op
      /\ e.compaction = None /\ e.restore = None
    BY DEF Entry
<1>4. e \in Mutation /\ e.id > LastMutationID
    BY EntryType, LastMutationIDBounds DEF StoreInv
<1>5. Existing' = Existing /\ Archived' = Archived /\ Rollups' = Rollups
    BY <1>2 DEF Existing, Archived, Rollups
<1>6. ReceiptsAreNamed'
    BY <1>2, <1>3, <1>5 DEF StoreInv, ReceiptsInv, ReceiptsAreNamed
<1>7. Effective' = current'
    BY <1>1, <1>5, <1>6, EffectiveCasesNext DEF EffectiveRows, RowsWhenIdle, TypeInv
<1>8. LeaseInv'
    BY <1>2, <1>5, LeadsSame DEF StoreInv, LeaseInv, OneAtATime, leaderVars
<1>9. ReceiptsInv'
    BY <1>1, <1>5, <1>6 DEF ReceiptsInv, RecoveryCanFinish, RolledRowsStay
<1>10. StepWrites
    <2> HIDE DEF e
    <2>1. \A x \in Records : Effective'[x] = IF x = r THEN b ELSE Effective[x]
        BY <1>1, <1>2, <1>7 DEF StoreInv, TypeInv, TypeOK
    <2>2. Writes(E)
        BY <1>1, <1>2, <1>3, <1>4, <2>1 DEF Writes
    <2>3. Explains(E)
        BY <1>2, <1>3, <1>5 DEF Explains
    <2> QED
        BY <2>2, <2>3 DEF StepWrites
<1> QED
    BY <1>1, <1>2, <1>7, <1>8, <1>9, <1>10

\* A snapshot may be captured in the middle of a rollup.
LEMMA SnapshotShows ==
    ASSUME NEW l \in Leaders, InsertSnapshot(l)
    PROVE  \A s \in snapshots' \ snapshots : CapturedNow(s)
    BY DEF InsertSnapshot, CapturedNow

LEMMA CaptureKeeps ==
    ASSUME StoreInv, NEW l \in Leaders, CaptureSnapshot(l)
    PROVE  LeaseInv' /\ ReceiptsInv' /\ StepWrites /\ UNCHANGED ContentVars
<1>2. InsertSnapshot(l) /\ UNCHANGED <<fence, current, log, archive, receipts, leaderVars>>
    BY DEF CaptureSnapshot
<1>3. UNCHANGED ContentVars
    BY <1>2 DEF ContentVars
<1>4. Existing' = Existing /\ Archived' = Archived /\ Rollups' = Rollups
    BY <1>3, ReceiptsSame
<1>5. LeaseInv'
    BY <1>2, <1>4, LeadsSame DEF StoreInv, LeaseInv, OneAtATime, leaderVars
<1>6. ReceiptsInv'
    BY <1>3, ReceiptsInvSame DEF StoreInv
<1>7. StepWrites
    BY <1>2, <1>3, <1>4, SnapshotShows, ReceiptsSame, WritesNothing
<1> QED
    BY <1>3, <1>5, <1>6, <1>7

\* The receipt a first transaction inserts is the only archived one, and its
\* caller is in the middle of it.
LEMMA ReceiptKeepsLeases ==
    ASSUME SoleWriter, StoreInv, NEW l \in Leaders, NEW c \in ReceiptIds,
           NEW kind \in {"rollup", "restore_reactivation"},
           NEW rolled \in [Records -> Nat], NEW appended \in [Records -> Row],
           MayWrite(l), CheckFencing(l),
           InsertReceipt(l, c, kind, rolled, appended),
           UNCHANGED <<fence, token, recovered>>
    PROVE  LeaseInv' /\ Archived' = {c}
<1>1. Leads(l) /\ Archived = {}
    BY WritersFindNothingArchived
<1>2. Archived' = {c} /\ pending' = [pending EXCEPT ![l] = c]
    BY <1>1, ReceiptInserted DEF StoreInv
<1>3. fence' # 0
    BY <1>1 DEF Leads, StoreInv, TypeInv, TypeOK
<1>4. \A k \in Leaders : Leads(k)' => k = l
    BY <1>1, LeadsSame DEF StoreInv, LeaseInv
<1>5. pending'[l] = c /\ c # None
    BY <1>2, SentinelsAreFresh DEF StoreInv, TypeInv, TypeOK
<1> QED
    BY <1>2, <1>3, <1>4, <1>5 DEF StoreInv, LeaseInv, OneAtATime

\* The first step of a rollup.
LEMMA ArchiveKeeps ==
    ASSUME SoleWriter, StoreInv, TypeInv', NEW l \in Leaders, NEW c \in ReceiptIds,
           NEW S \in SUBSET Records, ArchiveCompaction(l, c, S)
    PROVE  /\ LeaseInv' /\ ReceiptsInv' /\ StepWrites
           /\ \A r \in S : Effective[r] \in Bodies
           /\ Effective' = [r \in Records |-> IF r \in S THEN Absent ELSE Effective[r]]
           /\ c \notin Existing
           /\ archive' = [archive EXCEPT ![c] =
                  [r \in Records |-> IF r \in S THEN Effective[r] ELSE Absent]]
<1>1. PICK id \in [S -> Nat \ {0}], E \in SUBSET Mutation :
        /\ RollupEntries(l, c, S, id, E)
        /\ log' = log \cup E
        /\ archive' = [archive EXCEPT ![c] = RolledBodies(S)]
        /\ InsertReceipt(l, c, "rollup", RolledIdsOf(S, id), RolledBodies(S))
    BY RollupAppends DEF StoreInv
<1>2. /\ MayWrite(l) /\ CheckFencing(l) /\ CanRoll(S) /\ InsertSnapshot(l)
      /\ UNCHANGED <<fence, current, token, recovered>>
    BY DEF ArchiveCompaction
<1>3. Archived = {} /\ Effective = current
    BY <1>2, WritersFindNothingArchived
<1>4. \A r \in S : Effective[r] \in Bodies
    BY <1>2, <1>3 DEF CanRoll, StoreInv, TypeInv, TypeOK, Row
<1>5. RolledIdsOf(S, id) \in [Records -> Nat] /\ RolledBodies(S) \in [Records -> Row]
    BY DEF StoreInv, TypeInv, TypeOK, Row, RolledIdsOf, RolledBodies
<1>6. LeaseInv' /\ Archived' = {c}
    BY <1>1, <1>2, <1>5, ReceiptKeepsLeases
<1>7. /\ c \notin Existing /\ Existing' = Existing \cup {c} /\ Rollups' = Rollups \cup {c}
      /\ receipts'[c].rolled = RolledIdsOf(S, id)
      /\ \A d \in ReceiptIds : d # c => receipts'[d] = receipts[d]
    BY <1>1, <1>5, ReceiptInserted DEF StoreInv
<1>8. /\ archive'[c] = RolledBodies(S)
      /\ \A d \in ReceiptIds : d # c => archive'[d] = archive[d]
    BY <1>1 DEF StoreInv, TypeInv, TypeOK
<1>9. RolledIds(c)' = S /\ VerifyArchiveForCompaction(c)'
    BY RollupVerifies DEF StoreInv, ReceiptsInv, ReceiptsAreNamed
<1>10. ReceiptsAreNamed'
    <2>1. \A m \in log : /\ m.compaction # None => m.compaction \in Rollups
                         /\ m.restore # None => /\ m.restore \in Existing \ Rollups
                                               /\ m.before = Absent
        BY DEF StoreInv, ReceiptsInv, ReceiptsAreNamed
    <2>2. \A m \in E : m.compaction = c /\ m.restore = None
        BY <1>1 DEF RollupEntries
    <2>3. \A d \in ReceiptIds \ Existing' : archive'[d] = NoRows
        BY <1>7, <1>8 DEF StoreInv, ReceiptsInv, ReceiptsAreNamed
    <2> QED
        BY <1>1, <1>7, <2>1, <2>2, <2>3 DEF ReceiptsAreNamed
<1>11. Effective' = [r \in Records |-> IF r \in S THEN Absent ELSE current[r]]
    <2>1. Effective' = [r \in Records |-> IF r \in RolledIds(c)' THEN Absent ELSE current'[r]]
        BY <1>6, <1>7, <1>10, EffectiveCasesNext DEF EffectiveRows, RowsInRollup, TypeInv
    <2> QED
        BY <1>2, <1>9, <2>1
<1>12. RecoveryCanFinish'
    BY <1>6, <1>7, <1>9 DEF RecoveryCanFinish
<1>13. RolledRowsStay'
    BY <1>2, <1>6, <1>8, <1>9 DEF RolledRowsStay, RolledBodies
<1>14. RolledBodies(S) = [r \in Records |-> IF r \in S THEN Effective[r] ELSE Absent]
    BY <1>3 DEF RolledBodies
<1>15. Writes(E)
    <2>1. \A m \in E : /\ m.rid \in S /\ m.rid \in Records /\ m.id > LastMutationID
                       /\ m.before = current[m.rid] /\ m.after = Absent
        BY <1>1 DEF RollupEntries
    <2>2. \A r \in Records : (\A m \in E : m.rid # r) => r \notin S
        BY <1>1 DEF RollupEntries
    <2>3. \A m, n \in E : m.rid = n.rid => m = n
        BY <1>1 DEF RollupEntries
    <2>4. \A s \in snapshots' \ snapshots : CapturedNow(s)
        BY <1>2, SnapshotShows
    <2> QED
        BY <1>1, <1>3, <1>11, <2>1, <2>2, <2>3, <2>4 DEF Writes
<1>16. Explains(E)
    <2>1. ASSUME NEW m \in E
          PROVE  /\ m.op = "remove" /\ m.compaction = c /\ c # None
                 /\ m.before # Absent
                 /\ NamedBy(m, E)'
        <3>1. /\ m.rid \in S /\ m.rid \in Records /\ m.id = id[m.rid] /\ m.op = "remove"
              /\ m.before = current[m.rid] /\ m.compaction = c
            BY <1>1, <2>1 DEF RollupEntries
        <3>2. current[m.rid] # Absent
            BY <1>2, <3>1 DEF CanRoll
        <3>3. archive'[c][m.rid] = m.before /\ receipts'[c].rolled[m.rid] = m.id
            BY <1>7, <1>8, <3>1 DEF RolledBodies, RolledIdsOf
        <3>4. \A r \in S : \E n \in E : n.compaction = c /\ n.rid = r
            BY <1>1 DEF RollupEntries
        <3> QED
            BY <1>9, <3>1, <3>2, <3>3, <3>4, SentinelsAreFresh DEF NamedBy
    <2>2. c \in Rollups' \ Existing
        BY <1>7
    <2>3. \A d \in Existing : receipts'[d].rolled = receipts[d].rolled /\ archive'[d] = archive[d]
        BY <1>7, <1>8 DEF Existing
    <2> QED
        BY <1>7, <2>1, <2>2, <2>3 DEF Explains
<1> QED
    BY <1>1, <1>3, <1>4, <1>6, <1>7, <1>10, <1>11, <1>12, <1>13, <1>14, <1>15, <1>16
    DEF ReceiptsInv, StepWrites

\* The first step of a reactivation.
LEMMA ReactivationKeeps ==
    ASSUME SoleWriter, StoreInv, TypeInv', NEW l \in Leaders, NEW c \in ReceiptIds,
           NEW r \in Records, NEW b \in Bodies, AppendReactivationMutation(l, c, r, b)
    PROVE  /\ LeaseInv' /\ ReceiptsInv' /\ StepWrites
           /\ Effective' = [Effective EXCEPT ![r] = b]
<1> DEFINE e == [Entry(l, "add", r, b) EXCEPT !.restore = c]
           E == {e}
           ids == [x \in Records |-> IF x = r THEN NextMutationID ELSE 0]
<1>1. /\ MayWrite(l) /\ CheckFencing(l) /\ current[r] = Absent
      /\ log' = log \cup E
      /\ InsertReceipt(l, c, "restore_reactivation", ids, NoRows)
      /\ UNCHANGED <<fence, current, archive, snapshots, captured, token, recovered>>
    BY DEF AppendReactivationMutation
<1>2. Leads(l) /\ Archived = {} /\ Effective = current
    BY <1>1, WritersFindNothingArchived
<1>3. LastMutationID \in Nat
    BY LastMutationIDBounds DEF StoreInv
<1>4. /\ e \in Mutation /\ e.id = NextMutationID /\ e.op = "add"
      /\ e.rid = r /\ e.before = current[r] /\ e.after = b
      /\ e.compaction = None /\ e.restore = c
    <2>1. Entry(l, "add", r, b) \in Mutation
        BY EntryType DEF StoreInv, Row
    <2> QED
        BY <2>1 DEF Entry, Mutation
<1> HIDE DEF e
<1>5. e.id > LastMutationID
    BY <1>3, <1>4 DEF NextMutationID
<1>6. ids \in [Records -> Nat] /\ NoRows \in [Records -> Row]
    BY <1>3 DEF NextMutationID, NoRows, Row
<1>7. /\ LeaseInv'
      /\ c \notin Existing
      /\ Existing' = Existing \cup {c} /\ Archived' = {c} /\ Rollups' = Rollups
      /\ receipts'[c].rolled = ids
      /\ \A d \in ReceiptIds : d # c => receipts'[d] = receipts[d]
    <2> HIDE DEF ids
    <2> QED
        BY <1>1, <1>6, ReceiptKeepsLeases, ReceiptInserted DEF StoreInv
<1>8. c # None /\ c \notin Rollups
    BY <1>7, SentinelsAreFresh DEF Rollups
<1>9. ReceiptsAreNamed'
    BY <1>1, <1>4, <1>7, <1>8 DEF StoreInv, ReceiptsInv, ReceiptsAreNamed
<1>10. \A m \in log' : m.restore = c <=> m = e
    BY <1>1, <1>4, <1>7, <1>8 DEF StoreInv, ReceiptsInv, ReceiptsAreNamed
<1>11. {m \in log' : m.restore = c} = {e}
    BY <1>1, <1>10
<1>12. Effective' = [current EXCEPT ![r] = b]
    <2>1. EffectiveRows'
        BY <1>9, EffectiveCasesNext DEF TypeInv
    <2>2. c \in Existing' \ Rollups' /\ e \in log'
        BY <1>1, <1>7, <1>8
    <2> QED
        BY <1>1, <1>4, <1>7, <1>11, <2>1, <2>2 DEF EffectiveRows, RowsInReactivation
<1>13. CanReactivate(c)'
    <2> SUFFICES ASSUME NEW m, m = e
                 PROVE  /\ m \in log' /\ current'[m.rid] = Absent
                        /\ IsReactivation(m, c)'
        BY DEF CanReactivate
    <2>1. m \in log' /\ current'[m.rid] = Absent
        BY <1>1, <1>4
    <2>2. receipts'[c].rolled[m.rid] = m.id
        BY <1>4, <1>7
    <2>3. {n \in log' : n.restore = c} = {m}
        BY <1>11
    <2>4. m.op = "add" /\ m.compaction = None
        BY <1>4
    <2> QED
        BY <2>1, <2>2, <2>3, <2>4 DEF IsReactivation
<1>14. RecoveryCanFinish' /\ RolledRowsStay'
    BY <1>7, <1>8, <1>13 DEF RecoveryCanFinish, RolledRowsStay
<1>15. StepWrites
    <2>1. \A x \in Records : Effective'[x] = IF x = r THEN b ELSE Effective[x]
        BY <1>2, <1>12 DEF StoreInv, TypeInv, TypeOK
    <2>2. Writes(E)
        BY <1>1, <1>2, <1>4, <1>5, <2>1 DEF Writes
    <2>3. Explains(E)
        BY <1>1, <1>4, <1>7 DEF Explains, Existing
    <2> QED
        BY <2>2, <2>3 DEF StepWrites
<1> QED
    BY <1>2, <1>7, <1>9, <1>12, <1>14, <1>15 DEF ReceiptsInv

-----------------------------------------------------------------------------
(***************************************************************************)
(* Second transactions. Only the leader gets past the fencing check, and   *)
(* it commits the one receipt that is archived.                            *)
(***************************************************************************)
LEMMA CommitKeepsLeases ==
    ASSUME StoreInv, NEW l \in Leaders, CheckFencing(l), pending[l] \in Existing,
           Commit(l), UNCHANGED <<fence, token, recovered>>
    PROVE  /\ LeaseInv'
           /\ Existing' = Existing /\ Rollups' = Rollups
           /\ Archived = {pending[l]} /\ Archived' = {}
<1>1. /\ fence \in Nat /\ token[l] \in Nat /\ token[l] <= fence
      /\ pending[l] \in ReceiptIds /\ pending[l] # None
    BY SentinelsAreFresh DEF StoreInv, LeaseInv, TypeInv, TypeOK, Existing
<1>2. Leads(l)
    BY <1>1 DEF CheckFencing, Leads, StoreInv, LeaseInv
<1>3. Archived = {pending[l]}
    BY <1>1, <1>2 DEF StoreInv, LeaseInv, OneAtATime
<1>4. /\ Existing' = Existing /\ Rollups' = Rollups /\ Archived' = {}
      /\ pending' = [pending EXCEPT ![l] = None]
    BY <1>3, ReceiptCommitted DEF StoreInv
<1>5. \A k \in Leaders : Leads(k)' => k = l
    BY <1>2, LeadsSame DEF StoreInv, LeaseInv
<1>6. pending'[l] = None
    BY <1>4 DEF StoreInv, TypeInv, TypeOK
<1> QED
    BY <1>3, <1>4, <1>5, <1>6 DEF StoreInv, LeaseInv, OneAtATime

\* What the second step of a rollup or a reactivation has in common: the log
\* stays, and the rows become the effective ones.
LEMMA FinishKeeps ==
    ASSUME StoreInv, TypeInv', NEW l \in Leaders, CheckFencing(l), pending[l] \in Existing,
           Commit(l), UNCHANGED <<fence, log, archive, snapshots, token, recovered>>,
           current' = Effective
    PROVE  LeaseInv' /\ ReceiptsInv' /\ StepWrites /\ Effective' = Effective
<1>1. /\ LeaseInv'
      /\ Existing' = Existing /\ Rollups' = Rollups /\ Archived' = {}
    BY CommitKeepsLeases
<1>2. ReceiptsAreNamed'
    BY <1>1 DEF StoreInv, ReceiptsInv, ReceiptsAreNamed
<1>3. Effective' = current'
    BY <1>1, <1>2, EffectiveCasesNext DEF EffectiveRows, RowsWhenIdle, TypeInv
<1>4. RecoveryCanFinish' /\ RolledRowsStay'
    BY <1>1 DEF RecoveryCanFinish, RolledRowsStay
<1>5. \A c \in Existing : receipts'[c].rolled = receipts[c].rolled
    BY ReceiptCommitted DEF StoreInv
<1>6. StepWrites
    BY <1>1, <1>3, <1>5, WritesNothing
<1> QED
    BY <1>1, <1>2, <1>3, <1>4, <1>6 DEF ReceiptsInv

LEMMA SwapKeeps ==
    ASSUME StoreInv, TypeInv', NEW l \in Leaders, FinishCompactionSwap(l)
    PROVE  LeaseInv' /\ ReceiptsInv' /\ StepWrites /\ Effective' = Effective
<1>1. /\ pending[l] \in Rollups /\ CheckFencing(l) /\ Commit(l)
      /\ current' = [r \in Records |->
                        IF r \in RolledIds(pending[l]) THEN Absent ELSE current[r]]
      /\ UNCHANGED <<fence, log, archive, snapshots, token, recovered>>
    BY DEF FinishCompactionSwap
<1>2. pending[l] \in Existing
    BY <1>1 DEF Rollups
<1>3. Archived = {pending[l]}
    BY <1>1, <1>2, CommitKeepsLeases
<1>4. current' = Effective
    BY <1>1, <1>3, EffectiveCases
    DEF EffectiveRows, RowsInRollup, StoreInv, ReceiptsInv, TypeInv
<1> QED
    BY <1>1, <1>2, <1>4, FinishKeeps

LEMMA ReactivateKeeps ==
    ASSUME StoreInv, TypeInv', NEW l \in Leaders, FinishReactivationApply(l)
    PROVE  LeaseInv' /\ ReceiptsInv' /\ StepWrites /\ Effective' = Effective
<1>1. /\ pending[l] \in Existing \ Rollups /\ CheckFencing(l) /\ Commit(l)
      /\ CanReactivate(pending[l])
      /\ UNCHANGED <<fence, log, archive, snapshots, token, recovered>>
    BY DEF FinishReactivationApply
<1>2. PICK m \in log : /\ m.restore = pending[l]
                       /\ current' = [current EXCEPT ![m.rid] = m.after]
    BY DEF FinishReactivationApply
<1>3. Archived = {pending[l]}
    BY <1>1, CommitKeepsLeases
<1>4. {n \in log : n.restore = pending[l]} = {m}
    <2>1. PICK n \in log : {k \in log : k.restore = pending[l]} = {n}
        BY <1>1 DEF CanReactivate, IsReactivation
    <2>2. m = n
        BY <1>2, <2>1
    <2> QED
        BY <2>1, <2>2
<1>5. current' = Effective
    BY <1>1, <1>2, <1>3, <1>4, EffectiveCases
    DEF EffectiveRows, RowsInReactivation, StoreInv, ReceiptsInv, TypeInv
<1> QED
    BY <1>1, <1>5, FinishKeeps

\* The writes, by what they do to the effective rows.
PutStep(l) ==
    \/ \E r \in Records, b \in Bodies : AppendAdd(l, r, b) \/ AppendUpdate(l, r, b)
    \/ \E r \in Records, e, b \in Bodies : CompareAndSwapRecord(l, r, e, b)
    \/ \E c \in ReceiptIds, r \in Records, b \in Bodies : AppendReactivationMutation(l, c, r, b)

LEMMA PutKeeps ==
    ASSUME SoleWriter, StoreInv, TypeInv', NEW l \in Leaders, PutStep(l)
    PROVE  /\ LeaseInv' /\ ReceiptsInv' /\ StepWrites
           /\ \E r \in Records, b \in Bodies : Effective' = [Effective EXCEPT ![r] = b]
           /\ UNCHANGED archive
<1>1. ASSUME NEW r \in Records, NEW b \in Bodies, NEW op \in {"add", "update"},
             AppendThenApply(l, op, r, b), (op = "add") <=> (current[r] = Absent)
      PROVE  /\ LeaseInv' /\ ReceiptsInv' /\ StepWrites
             /\ Effective' = [Effective EXCEPT ![r] = b]
             /\ UNCHANGED archive
    <2>1. b \in Row
        BY DEF Row
    <2> QED
        BY <1>1, <2>1, AppendKeeps DEF AppendThenApply
<1>2. ASSUME NEW r \in Records, NEW b \in Bodies, NEW c \in ReceiptIds,
             AppendReactivationMutation(l, c, r, b)
      PROVE  /\ LeaseInv' /\ ReceiptsInv' /\ StepWrites
             /\ Effective' = [Effective EXCEPT ![r] = b]
             /\ UNCHANGED archive
    BY <1>2, ReactivationKeeps DEF AppendReactivationMutation
<1>3. ASSUME NEW r \in Records, NEW e \in Bodies, NEW b \in Bodies,
             CompareAndSwapRecord(l, r, e, b)
      PROVE  AppendThenApply(l, "update", r, b) /\ current[r] # Absent
    BY <1>3, SentinelsAreFresh DEF CompareAndSwapRecord
<1> QED
    BY <1>1, <1>2, <1>3 DEF PutStep, AppendAdd, AppendUpdate

-----------------------------------------------------------------------------
(***************************************************************************)
(* The invariant of the store, whatever is left of the log.                *)
(***************************************************************************)
LEMMA StoreInit == Init => StoreInv
<1> SUFFICES ASSUME Init
             PROVE  StoreInv
    OBVIOUS
<1>1. TypeInv
    BY TypeInit
<1>2. Existing = {} /\ Archived = {} /\ Rollups = {} /\ log = {} /\ snapshots = {}
    BY DEF Init, Existing, Archived, Rollups
<1>3. LeaseInv
    BY <1>2 DEF Init, LeaseInv, Leads, OneAtATime
<1>4. ReceiptsInv
    BY <1>2 DEF Init, ReceiptsInv, ReceiptsAreNamed, RolledRowsStay, RecoveryCanFinish
<1> QED
    BY <1>1, <1>3, <1>4 DEF StoreInv

\* Under the rule, Next is made of these.
LEMMA RuleSteps ==
    ASSUME SoleWriter, Next
    PROVE  \E l \in Leaders :
              \/ LeaderStep(l)
              \/ PutStep(l)
              \/ CaptureSnapshot(l)
              \/ \E c \in ReceiptIds, S \in SUBSET Records : ArchiveCompaction(l, c, S)
              \/ FinishCompactionSwap(l)
              \/ FinishReactivationApply(l)
    BY DEF Next, SecondStep, LeaderStep, PutStep, ShareLease

LEMMA StoreStep == SoleWriter /\ StoreInv /\ [Next]_vars => StoreInv' /\ StepWrites
<1> SUFFICES ASSUME SoleWriter, StoreInv, [Next]_vars
             PROVE  StoreInv' /\ StepWrites
    OBVIOUS
<1>1. TypeInv'
    BY TypeStep DEF StoreInv
<1> DEFINE Kept == LeaseInv' /\ ReceiptsInv' /\ StepWrites
<1>2. ASSUME NEW l \in Leaders, LeaderStep(l) PROVE Kept
    BY <1>2, LeaderStepKeeps
<1>3. ASSUME NEW l \in Leaders, PutStep(l) PROVE Kept
    BY <1>1, <1>3, PutKeeps
<1>4. ASSUME NEW l \in Leaders, CaptureSnapshot(l) PROVE Kept
    BY <1>1, <1>4, CaptureKeeps
<1>5. ASSUME NEW l \in Leaders, NEW c \in ReceiptIds, NEW S \in SUBSET Records,
             ArchiveCompaction(l, c, S)
      PROVE  Kept
    BY <1>1, <1>5, ArchiveKeeps
<1>6. ASSUME NEW l \in Leaders, FinishCompactionSwap(l) PROVE Kept
    BY <1>1, <1>6, SwapKeeps
<1>7. ASSUME NEW l \in Leaders, FinishReactivationApply(l) PROVE Kept
    BY <1>1, <1>7, ReactivateKeeps
<1>8. CASE UNCHANGED vars
    <2>1. UNCHANGED ContentVars /\ UNCHANGED <<snapshots, fence, leaderVars>>
        BY <1>8 DEF vars, ContentVars, leaderVars
    <2>2. ReceiptsInv' /\ StepWrites
        BY <2>1, ReceiptsInvSame, ReceiptsSame, WritesNothing DEF StoreInv, ContentVars
    <2>3. LeaseInv'
        BY <2>1, ReceiptsSame, LeadsSame DEF StoreInv, LeaseInv, OneAtATime, leaderVars
    <2> QED
        BY <1>1, <2>2, <2>3 DEF StoreInv
<1> QED
    BY <1>1, <1>2, <1>3, <1>4, <1>5, <1>6, <1>7, <1>8, RuleSteps DEF StoreInv

-----------------------------------------------------------------------------
(***************************************************************************)
(* The log. Entries are only ever added beyond the last id, so what the    *)
(* log said at an id it goes on saying.                                    *)
(***************************************************************************)
LastBoundsLog == /\ LastMutationID \in Nat
                 /\ \A m \in log : m.id <= LastMutationID
                 /\ log = {} => LastMutationID = 0
                 /\ log # {} => \E m \in log : m.id = LastMutationID

LEMMA LastBounds == TypeInv => LastBoundsLog
<1> SUFFICES ASSUME TypeInv
             PROVE  LastBoundsLog
    OBVIOUS
<1>1. ASSUME log # {}
      PROVE  \E m \in log : m.id = LastMutationID
    <2> DEFINE ids == {m.id : m \in log}
    <2>1. PICK m \in log : \A n \in log : n.id <= m.id
        BY <1>1 DEF TypeInv, LogHasLast
    <2>2. \A n \in log : n.id \in Nat
        BY DEF TypeInv, TypeOK, Mutation
    <2>3. m.id \in ids /\ \A y \in ids : m.id >= y
        BY <2>1, <2>2
    <2>4. Max(ids) \in ids
        BY <2>3 DEF Max
    <2> QED
        BY <1>1, <2>4 DEF LastMutationID
<1> QED
    BY <1>1, LastMutationIDBounds DEF LastBoundsLog, LastMutationID

LEMMA LastBoundsNext == TypeInv' => LastBoundsLog'
    BY LastBounds, PTL

\* From k to j nothing happened to r, in the old log or in the new entries.
LEMMA LogSaysExtends ==
    ASSUME log \subseteq Mutation, NEW E, E \subseteq Mutation, log' = log \cup E,
           NEW r, NEW k \in Nat, NEW j \in Nat, NEW b, k <= j,
           \A n \in log : n.rid = r /\ n.id > k => n.id > j,
           \A n \in E : n.rid = r => n.id > j,
           LogSays(r, k, b)
    PROVE  LogSays(r, j, b)'
<1>1. \A n \in log \cup E : n.id \in Nat
    BY DEF Mutation
<1>2. CASE b = Absent /\ \A m \in log : m.rid = r => m.id > k
    BY <1>2 DEF LogSays
<1>3. ASSUME NEW m \in log, Decides(m, k), m.rid = r, m.after = b
      PROVE  LogSays(r, j, b)'
    <2>1. m \in log' /\ m.id <= j
        BY <1>1, <1>3 DEF Decides
    <2>2. ASSUME NEW n \in log \cup E, n.rid = r, n.id <= j
          PROVE  n.id <= m.id
        <3>1. n \in log /\ ~(n.id > k)
            BY <1>1, <2>2
        <3> QED
            BY <1>1, <1>3, <2>2, <3>1 DEF Decides
    <2>3. Decides(m, j)'
        BY <1>3, <2>1, <2>2 DEF Decides
    <2> QED
        BY <1>3, <2>1, <2>3 DEF LogSays
<1> QED
    BY <1>2, <1>3 DEF LogSays, Decides

\* The last id only grows.
LEMMA LastGrows ==
    ASSUME TypeInv, TypeInv', log \subseteq log'
    PROVE  LastMutationID <= LastMutationID'
<1>1. CASE log = {}
    BY <1>1, LastBounds, LastBoundsNext DEF LastBoundsLog
<1>2. CASE log # {}
    <2>1. PICK m \in log : m.id = LastMutationID
        BY <1>2, LastBounds DEF LastBoundsLog
    <2> QED
        BY <2>1, LastBoundsNext DEF LastBoundsLog
<1> QED
    BY <1>1, <1>2

\* What the log says a live row is, or was when its first step logged ahead.
RowIsLogged(r, k, b, S) == LogSays(r, k, b) \/ (r \in S /\ LoggedAhead(r, k, b))

\* A live row differs from the effective one only in the middle of a rollup or
\* a reactivation of it, whose entry is in the log and starts from that row.
LEMMA MovingRows ==
    ASSUME StoreInv, NEW r \in Records
    PROVE  \/ current[r] = Effective[r]
           \/ r \in Moving /\ LoggedAhead(r, LastMutationID, current[r])
<1>1. EffectiveRows /\ ReceiptsAreNamed /\ \A m \in log : m.id <= LastMutationID
    BY EffectiveCases, LastBounds DEF StoreInv, ReceiptsInv, TypeInv, LastBoundsLog
<1>2. CASE Archived = {}
    BY <1>1, <1>2 DEF EffectiveRows, RowsWhenIdle
<1>3. ASSUME NEW c \in Rollups, Archived = {c}, r \in RolledIds(c)
      PROVE  r \in Moving /\ LoggedAhead(r, LastMutationID, current[r])
    <2>1. VerifyArchiveForCompaction(c) /\ current[r] = archive[c][r] /\ c # None
        BY <1>3, SentinelsAreFresh
        DEF StoreInv, ReceiptsInv, RecoveryCanFinish, RolledRowsStay, Rollups, Existing
    <2>2. PICK m \in log : m.compaction = c /\ m.rid = r
        BY <1>3, <2>1 DEF VerifyArchiveForCompaction
    <2>3. m.before = current[r]
        BY <2>1, <2>2 DEF VerifyArchiveForCompaction
    <2> QED
        BY <1>1, <1>3, <2>1, <2>2, <2>3 DEF Moving, LoggedAhead
<1>4. ASSUME NEW c \in Existing \ Rollups, Archived = {c}, Effective[r] # current[r]
      PROVE  r \in Moving /\ LoggedAhead(r, LastMutationID, current[r])
    <2>1. CanReactivate(c)
        BY <1>4 DEF StoreInv, ReceiptsInv, RecoveryCanFinish
    <2>2. PICK m \in log : IsReactivation(m, c) /\ current[m.rid] \in {Absent, m.after}
        BY <2>1 DEF CanReactivate
    <2>3. {n \in log : n.restore = c} = {m} /\ receipts[c].rolled[m.rid] = m.id
        BY <2>2 DEF IsReactivation
    <2>4. Effective = [current EXCEPT ![m.rid] = m.after]
        BY <1>1, <1>4, <2>3 DEF EffectiveRows, RowsInReactivation
    <2>5. m.rid = r /\ m.id # 0 /\ m.restore = c /\ c # None
        BY <1>4, <2>3, <2>4, SentinelsAreFresh DEF StoreInv, TypeInv, TypeOK, Mutation, Existing
    <2>6. current[r] = Absent
        BY <1>4, <2>2, <2>4, <2>5 DEF StoreInv, TypeInv, TypeOK
    <2>7. m.before = Absent
        BY <1>1, <2>5 DEF ReceiptsAreNamed
    <2>8. r \in RolledIds(c)
        BY <2>3, <2>5 DEF RolledIds
    <2> QED
        BY <1>1, <1>4, <2>5, <2>6, <2>7, <2>8 DEF Moving, LoggedAhead
<1>5. CASE Archived # {}
    <2>1. PICK c : Archived = {c}
        BY <1>5 DEF StoreInv, LeaseInv, OneAtATime
    <2>2. c \in Existing
        BY <2>1 DEF Archived
    <2> QED
        BY <1>1, <1>3, <1>4, <2>1, <2>2 DEF EffectiveRows, RowsInRollup
<1> QED
    BY <1>2, <1>5

\* A step that writes keeps chain and snapshots, and the rows the log says
\* are the effective ones.
LEMMA LogKept ==
    ASSUME IInv, TypeInv', NEW E, Writes(E)
    PROVE  LogInv'
<1> DEFINE last == LastMutationID
           last2 == LastMutationID'
<1>1. log \subseteq Mutation /\ E \subseteq Mutation /\ log' = log \cup E
    BY DEF IInv, StoreInv, TypeInv, TypeOK, Writes
<1>2. /\ last \in Nat /\ last2 \in Nat /\ last <= last2
      /\ \A m \in log : m.id \in Nat /\ m.id <= last
      /\ \A m \in log' : m.id <= last2
    BY <1>1, LastBounds, LastBoundsNext, LastGrows
    DEF LastBoundsLog, IInv, StoreInv, Mutation
<1>3. \A m \in E : /\ m.id \in Nat /\ m.id > last
                   /\ m.rid \in Records /\ m.id - 1 \in Nat /\ last <= m.id - 1
                   /\ m.before = Effective[m.rid]
    BY <1>1, <1>2 DEF Mutation, Writes
<1>4. \A r \in Records : LogSays(r, last, Effective[r])
    BY DEF IInv, LogInv, CurrentMatchesLog, RowsMatchLog
<1> HIDE DEF last, last2
<1>5. ASSUME NEW m \in log \cup E
      PROVE  LogSays(m.rid, m.id - 1, m.before)'
    <2>1. CASE m \in log
        <3>1. LogSays(m.rid, m.id - 1, m.before) /\ m.id - 1 \in Nat
            BY <2>1, <1>1 DEF IInv, LogInv, MutationsChain, Mutation
        <3>2. \A n \in E : n.id > m.id - 1
            BY <1>1, <1>2, <1>3, <2>1
        <3> DEFINE k == m.id - 1
                   b == m.before
        <3>3. LogSays(m.rid, k, b) /\ k \in Nat /\ k <= k /\ \A n \in E : n.id > k
            BY <3>1, <3>2
        <3>4. LogSays(m.rid, k, b)'
            <4> HIDE DEF k, b
            <4> QED
                BY <1>1, <3>3, LogSaysExtends
        <3> QED
            BY <3>4
    <2>2. CASE m \in E
        <3>1. LogSays(m.rid, last, m.before)
            BY <1>3, <1>4, <2>2
        <3>2. \A n \in E : n.rid = m.rid => n.id > m.id - 1
            BY <1>3, <2>2 DEF Writes
        <3>3. \A n \in log : ~(n.id > last)
            BY <1>2
        <3> QED
            BY <1>1, <1>2, <1>3, <2>2, <3>1, <3>2, <3>3, LogSaysExtends
    <2> QED
        BY <2>1, <2>2
<1>6. MutationsChain'
    BY <1>1, <1>5 DEF MutationsChain
<1>7. ASSUME NEW s \in snapshots'
      PROVE  /\ \A r \in Records : RowIsLogged(r, s.watermark, s.content[r], s.moving)'
             /\ s.watermark <= last2
    <2>1. s.watermark \in Nat /\ s.watermark <= last
        <3>1. s \in snapshots => s.watermark \in Nat /\ s.watermark <= last
            BY DEF IInv, StoreInv, LogInv, TypeInv, TypeOK, Snapshot, last
        <3>2. s \notin snapshots => s.watermark = last
            BY <1>7 DEF Writes, CapturedNow, last
        <3> QED
            BY <1>2, <3>1, <3>2
    <2>2. \A r \in Records : RowIsLogged(r, s.watermark, s.content[r], s.moving)
        <3>1. s \in snapshots =>
                \A r \in Records : RowIsLogged(r, s.watermark, s.content[r], s.moving)
            BY DEF IInv, LogInv, SnapshotsMatchLog, RowIsLogged
        <3>2. s \notin snapshots =>
                s.watermark = last /\ s.content = current /\ s.moving = Moving
            BY <1>7 DEF Writes, CapturedNow, last
        <3>3. \A r \in Records : \/ current[r] = Effective[r]
                                 \/ r \in Moving /\ LoggedAhead(r, last, current[r])
            BY MovingRows DEF IInv, last
        <3> QED
            BY <1>4, <3>1, <3>2, <3>3 DEF RowIsLogged
    <2>3. \A n \in E : n.id > s.watermark
        BY <1>2, <1>3, <2>1
    <2>4. ASSUME NEW r \in Records
          PROVE  RowIsLogged(r, s.watermark, s.content[r], s.moving)'
        <3> DEFINE k == s.watermark
                   b == s.content[r]
        <3>1. CASE LogSays(r, k, b)
            <4>1. LogSays(r, k, b) /\ k \in Nat /\ k <= k /\ \A n \in E : n.id > k
                BY <2>1, <2>3, <3>1
            <4>2. LogSays(r, k, b)'
                <5> HIDE DEF k, b
                <5> QED
                    BY <1>1, <4>1, LogSaysExtends
            <4> QED
                BY <4>2 DEF RowIsLogged
        <3>2. CASE r \in s.moving /\ LoggedAhead(r, k, b)
            <4>1. LoggedAhead(r, k, b)'
                BY <1>1, <3>2 DEF LoggedAhead
            <4> QED
                BY <3>2, <4>1 DEF RowIsLogged
        <3> QED
            BY <2>2, <3>1, <3>2 DEF RowIsLogged
    <2> QED
        BY <1>2, <2>1, <2>4
<1>8. ASSUME NEW r \in Records, NEW b, b = Effective'[r]
      PROVE  LogSays(r, LastMutationID, b)'
    <2>1. ASSUME NEW m \in E, m.rid = r
          PROVE  LogSays(r, LastMutationID, b)'
        <3>1. m \in log' /\ m.id <= LastMutationID' /\ m.after = b
            BY <1>1, <1>2, <1>8, <2>1 DEF Writes, last2
        <3>2. ASSUME NEW n \in log \cup E, n.rid = m.rid
              PROVE  n.id <= m.id
            <4>1. CASE n \in E
                BY <1>3, <3>2, <4>1 DEF Writes
            <4>2. CASE n \in log
                BY <1>2, <1>3, <4>2
            <4> QED
                BY <4>1, <4>2
        <3> QED
            BY <1>1, <2>1, <3>1, <3>2 DEF LogSays, Decides
    <2>2. ASSUME \A m \in E : m.rid # r
          PROVE  LogSays(r, LastMutationID, b)'
        <3>1. LogSays(r, last, b)
            BY <1>4, <1>8, <2>2 DEF Writes
        <3>2. \A n \in log : ~(n.id > last)
            BY <1>2
        <3>3. \A j \in Nat : last <= j => LogSays(r, j, b)'
            BY <1>1, <1>2, <2>2, <3>1, <3>2, LogSaysExtends
        <3> QED
            BY <1>2, <3>3 DEF LogSays, Decides, last2
    <2> QED
        BY <2>1, <2>2
<1>9. CurrentMatchesLog'
    BY <1>8 DEF CurrentMatchesLog, RowsMatchLog, LogSays
<1>10. SnapshotsMatchLog' /\ \A s \in snapshots' : s.watermark <= LastMutationID'
    BY <1>7 DEF SnapshotsMatchLog, RowIsLogged, last2
<1> QED
    BY <1>6, <1>9, <1>10 DEF LogInv

-----------------------------------------------------------------------------
(***************************************************************************)
(* The invariant.                                                          *)
(***************************************************************************)
LEMMA IInvInit == Init => IInv
<1> SUFFICES ASSUME Init
             PROVE  IInv
    OBVIOUS
<1>1. StoreInv
    BY StoreInit
<1>2. Archived = {} /\ log = {} /\ snapshots = {}
    BY DEF Init, Existing, Archived
<1>3. Effective = current
    BY <1>1, <1>2, EffectiveCases DEF EffectiveRows, RowsWhenIdle, StoreInv, ReceiptsInv, TypeInv
<1>4. \A r \in Records : current[r] = Absent
    BY DEF Init, NoRows
<1>5. LogInv
    BY <1>2, <1>3, <1>4
    DEF LogInv, CurrentMatchesLog, SnapshotsMatchLog, MutationsChain, RowsMatchLog, LogSays
<1> QED
    BY <1>1, <1>5 DEF IInv

LEMMA IInvStep == SoleWriter /\ IInv /\ [Next]_vars => IInv'
<1> SUFFICES ASSUME SoleWriter, IInv, [Next]_vars
             PROVE  IInv'
    OBVIOUS
<1>1. StoreInv' /\ StepWrites
    BY StoreStep DEF IInv
<1>2. PICK E : Writes(E)
    BY <1>1 DEF StepWrites
<1> QED
    BY <1>1, <1>2, LogKept DEF IInv, StoreInv

LEMMA RuleInvariant == SoleWriter => (Spec => []IInv)
<1>1. SUFFICES ASSUME SoleWriter
               PROVE  Spec => []IInv
    OBVIOUS
<1>2. IInv /\ [Next]_vars => IInv'
    BY <1>1, IInvStep
<1> QED
    BY <1>2, IInvInit, PTL DEF Spec

\* Rows, log, archive and receipts tell one story at every moment, between
\* the two steps of a rollup or a reactivation included.
THEOREM RowsMatchTheLog == SoleWriter => (Spec => []CurrentMatchesLog)
<1>1. IInv => CurrentMatchesLog
    BY DEF IInv, LogInv
<1> QED
    BY <1>1, RuleInvariant, PTL

\* Every snapshot, captured at any moment and by whoever holds the token, is
\* the state the log describes at its watermark; only a record in the middle of
\* a rollup or a reactivation just then has the body its entry starts from.
THEOREM SnapshotsMatchTheLog == SoleWriter => (Spec => []SnapshotsMatchLog)
<1>1. IInv => SnapshotsMatchLog
    BY DEF IInv, LogInv
<1> QED
    BY <1>1, RuleInvariant, PTL

\* Every mutation starts from the body its predecessor on the record left: a
\* replay never aborts on the chain.
THEOREM MutationsFormAChain == SoleWriter => (Spec => []MutationsChain)
<1>1. IInv => MutationsChain
    BY DEF IInv, LogInv
<1> QED
    BY <1>1, RuleInvariant, PTL

\* Whatever crashed, what the second step of an archived receipt verifies
\* is still there.
THEOREM SecondStepsCanFinish == SoleWriter => (Spec => []RecoveryCanFinish)
<1>1. IInv => RecoveryCanFinish
    BY DEF IInv, StoreInv, ReceiptsInv
<1> QED
    BY <1>1, RuleInvariant, PTL

\* At most one receipt waits for its second step.
THEOREM OneReceiptAtATime == SoleWriter => (Spec => []OneAtATime)
<1>1. IInv => OneAtATime
    BY DEF IInv, StoreInv, LeaseInv
<1> QED
    BY <1>1, RuleInvariant, PTL

-----------------------------------------------------------------------------
(***************************************************************************)
(* Rows leave the store only into the archive. What lets a caller that     *)
(* breaks the rule lose an update (a row written between the two steps of  *)
(* a rollup is deleted with the others) cannot happen under it.            *)
(***************************************************************************)
LEMMA RowsKept ==
    ASSUME SoleWriter, StoreInv, TypeInv', [Next]_vars,
           NEW r \in Records, current[r] # Absent, current'[r] = Absent
    PROVE  \E c \in ReceiptIds : archive[c][r] = current[r]
<1>1. current' # current
    OBVIOUS
<1>2. ASSUME NEW l \in Leaders, LeaderStep(l) PROVE current' = current
    BY <1>2, LeaderStepKeeps DEF ContentVars
<1>3. ASSUME NEW l \in Leaders, NEW x \in Records, NEW b \in Bodies,
             NEW op \in {"add", "update"}, AppendThenApply(l, op, x, b)
      PROVE  FALSE
    <2>1. current' = [current EXCEPT ![x] = b]
        BY <1>3 DEF AppendThenApply
    <2> QED
        BY <2>1, SentinelsAreFresh DEF StoreInv, TypeInv, TypeOK
<1>4. ASSUME NEW l \in Leaders, PutStep(l) PROVE current' = current
    BY <1>3, <1>4
    DEF PutStep, AppendAdd, AppendUpdate, CompareAndSwapRecord, AppendReactivationMutation
<1>5. ASSUME NEW l \in Leaders,
             \/ CaptureSnapshot(l)
             \/ \E c \in ReceiptIds, S \in SUBSET Records : ArchiveCompaction(l, c, S)
      PROVE  current' = current
    BY <1>5 DEF CaptureSnapshot, ArchiveCompaction
<1>6. ASSUME NEW l \in Leaders, FinishCompactionSwap(l)
      PROVE  \E c \in ReceiptIds : archive[c][r] = current[r]
    <2>1. /\ pending[l] \in Rollups /\ CheckFencing(l) /\ Commit(l)
          /\ UNCHANGED <<fence, token, recovered>>
          /\ current'[r] = IF r \in RolledIds(pending[l]) THEN Absent ELSE current[r]
        BY <1>6 DEF FinishCompactionSwap
    <2>2. pending[l] \in Existing /\ pending[l] \in ReceiptIds
        BY <2>1 DEF Rollups, Existing
    <2>3. pending[l] \in Archived
        BY <2>1, <2>2, CommitKeepsLeases
    <2>4. archive[pending[l]][r] = current[r]
        BY <2>1, <2>3 DEF StoreInv, ReceiptsInv, RolledRowsStay
    <2> QED
        BY <2>2, <2>4
<1>7. ASSUME NEW l \in Leaders, FinishReactivationApply(l)
      PROVE  FALSE
    <2>1. CanReactivate(pending[l])
        BY <1>7 DEF FinishReactivationApply
    <2>2. PICK m \in log : /\ m.restore = pending[l]
                           /\ current' = [current EXCEPT ![m.rid] = m.after]
        BY <1>7 DEF FinishReactivationApply
    <2>3. current[m.rid] \in {Absent, m.after}
        <3>1. PICK n \in log : /\ {k \in log : k.restore = pending[l]} = {n}
                               /\ current[n.rid] \in {Absent, n.after}
            BY <2>1 DEF CanReactivate, IsReactivation
        <3>2. m = n
            BY <2>2, <3>1
        <3> QED
            BY <3>1, <3>2
    <2>4. m.rid \in Records /\ current \in [Records -> Row]
        BY DEF StoreInv, TypeInv, TypeOK, Mutation
    <2> QED
        BY <2>2, <2>3, <2>4
<1>8. CASE UNCHANGED vars
    BY <1>8 DEF vars
<1> QED
    BY <1>1, <1>2, <1>4, <1>5, <1>6, <1>7, <1>8, RuleSteps

\* A live row is deleted only when some rollup has archived its very body.
THEOREM RowsOnlyLeaveIntoArchive == SoleWriter => (Spec => RowsLeaveIntoArchive)
<1> SUFFICES ASSUME SoleWriter
             PROVE  Spec => RowsLeaveIntoArchive
    OBVIOUS
<1>1. IInv /\ [Next]_vars =>
          [\A r \in Records :
              current[r] # Absent /\ current'[r] = Absent =>
                  \E c \in ReceiptIds : archive[c][r] = current[r]]_vars
    BY TypeStep, RowsKept DEF IInv, StoreInv
<1> QED
    BY <1>1, RuleInvariant, PTL DEF Spec, RowsLeaveIntoArchive

-----------------------------------------------------------------------------
(***************************************************************************)
(* The store implements RecordMap: a Put is a write or the first step of a *)
(* reactivation, a RollOut the first step of a rollup, and everything else *)
(* stutters.                                                               *)
(***************************************************************************)
LEMMA MapInit == Init => Map!Init
<1> SUFFICES ASSUME Init
             PROVE  Map!Init
    OBVIOUS
<1>1. Existing = {} /\ Archived = {}
    BY DEF Init, Existing, Archived
<1>2. Effective = current
    BY <1>1, TypeInit, StoreInit, EffectiveCases
    DEF EffectiveRows, RowsWhenIdle, StoreInv, ReceiptsInv, TypeInv
<1>3. RolledOut = {}
    BY SentinelsAreFresh DEF Init, RolledOut, NoRows
<1> QED
    BY <1>2, <1>3 DEF Init, Map!Init, NoRows

\* What a rollup adds to the archive is what leaves the map.
LEMMA RolloutArchives ==
    ASSUME StoreInv, NEW c \in ReceiptIds \ Existing, NEW S \in SUBSET Records,
           \A r \in S : Effective[r] \in Bodies,
           archive' = [archive EXCEPT ![c] =
               [r \in Records |-> IF r \in S THEN Effective[r] ELSE Absent]]
    PROVE  RolledOut' = RolledOut \cup {<<r, Effective[r]>> : r \in S}
<1>1. archive[c] = NoRows
    BY DEF StoreInv, ReceiptsInv, ReceiptsAreNamed
<1>2. /\ \A r \in Records : archive'[c][r] = IF r \in S THEN Effective[r] ELSE Absent
      /\ \A d \in ReceiptIds : d # c => archive'[d] = archive[d]
    BY DEF StoreInv, TypeInv, TypeOK
<1>3. \A r \in Records : archive[c][r] = Absent
    BY <1>1 DEF NoRows
<1>4. ASSUME NEW r \in Records, NEW b \in Bodies
      PROVE  <<r, b>> \in RolledOut' <=>
                 <<r, b>> \in RolledOut \cup {<<x, Effective[x]>> : x \in S}
    <2>1. <<r, b>> \in RolledOut <=> \E d \in ReceiptIds : archive[d][r] = b
        BY DEF RolledOut
    <2>2. <<r, b>> \in RolledOut' <=> \E d \in ReceiptIds : archive'[d][r] = b
        BY DEF RolledOut
    <2>3. <<r, b>> \in {<<x, Effective[x]>> : x \in S} <=> r \in S /\ Effective[r] = b
        OBVIOUS
    <2>4. b # Absent
        BY SentinelsAreFresh
    <2> QED
        BY <1>2, <1>3, <2>1, <2>2, <2>3, <2>4
<1>5. RolledOut \subseteq Records \X Bodies /\ RolledOut' \subseteq Records \X Bodies
    BY DEF RolledOut
<1>6. {<<r, Effective[r]>> : r \in S} \subseteq Records \X Bodies
    OBVIOUS
<1>7. \A p \in Records \X Bodies :
          p \in RolledOut' <=> p \in RolledOut \cup {<<r, Effective[r]>> : r \in S}
    <2> SUFFICES ASSUME NEW r \in Records, NEW b \in Bodies
                 PROVE  <<r, b>> \in RolledOut' <=>
                            <<r, b>> \in RolledOut \cup {<<x, Effective[x]>> : x \in S}
        OBVIOUS
    <2> QED
        BY <1>4
<1> QED
    BY <1>5, <1>6, <1>7

LEMMA MapStep == SoleWriter /\ StoreInv /\ TypeInv' /\ [Next]_vars => [Map!Next]_(Map!vars)
<1> SUFFICES ASSUME SoleWriter, StoreInv, TypeInv', [Next]_vars
             PROVE  [Map!Next]_(Map!vars)
    OBVIOUS
<1>1. ASSUME UNCHANGED archive, Effective' = Effective
      PROVE  UNCHANGED Map!vars
    BY <1>1 DEF Map!vars, RolledOut
<1>2. ASSUME NEW l \in Leaders, LeaderStep(l) PROVE UNCHANGED Map!vars
    BY <1>1, <1>2, LeaderStepKeeps, ReceiptsSame DEF ContentVars
<1>3. ASSUME NEW l \in Leaders, PutStep(l) PROVE Map!Next
    <2>1. /\ \E r \in Records, b \in Bodies : Effective' = [Effective EXCEPT ![r] = b]
          /\ archive' = archive
        BY <1>3, PutKeeps
    <2>2. RolledOut' = RolledOut
        BY <2>1 DEF RolledOut
    <2> QED
        BY <2>1, <2>2 DEF Map!Next, Map!Put
<1>4. ASSUME NEW l \in Leaders, CaptureSnapshot(l) PROVE UNCHANGED Map!vars
    BY <1>1, <1>4, CaptureKeeps, ReceiptsSame DEF ContentVars
<1>5. ASSUME NEW l \in Leaders, NEW c \in ReceiptIds, NEW S \in SUBSET Records,
             ArchiveCompaction(l, c, S)
      PROVE  Map!Next
    <2>1. /\ \A r \in S : Effective[r] \in Bodies
          /\ Effective' = [r \in Records |-> IF r \in S THEN Absent ELSE Effective[r]]
          /\ c \notin Existing
          /\ archive' = [archive EXCEPT ![c] =
                 [r \in Records |-> IF r \in S THEN Effective[r] ELSE Absent]]
        BY <1>5, ArchiveKeeps
    <2>2. RolledOut' = RolledOut \cup {<<r, Effective[r]>> : r \in S}
        BY <2>1, RolloutArchives
    <2>3. \A r \in S : Effective[r] # Absent
        BY <2>1, SentinelsAreFresh
    <2> QED
        BY <2>1, <2>2, <2>3 DEF Map!Next, Map!RollOut
<1>6. ASSUME NEW l \in Leaders, FinishCompactionSwap(l) PROVE UNCHANGED Map!vars
    BY <1>1, <1>6, SwapKeeps DEF FinishCompactionSwap
<1>7. ASSUME NEW l \in Leaders, FinishReactivationApply(l) PROVE UNCHANGED Map!vars
    BY <1>1, <1>7, ReactivateKeeps DEF FinishReactivationApply
<1>8. CASE UNCHANGED vars
    <2>1. UNCHANGED ContentVars
        BY <1>8 DEF vars, ContentVars
    <2> QED
        BY <1>1, <2>1, ReceiptsSame DEF ContentVars
<1> QED
    BY <1>2, <1>3, <1>4, <1>5, <1>6, <1>7, <1>8, RuleSteps

\* Seen through its archived receipts, the store is a map whose records
\* leave it atomically, whatever crashes and retries come in between.
THEOREM StoreImplementsRecordMap == SoleWriter => (Spec => ImplementsRecordMap)
<1> SUFFICES ASSUME SoleWriter
             PROVE  Spec => ImplementsRecordMap
    OBVIOUS
<1>1. IInv /\ IInv' /\ [Next]_vars => [Map!Next]_(Map!vars)
    BY MapStep DEF IInv, StoreInv
<1> QED
    BY <1>1, RuleInvariant, MapInit, PTL DEF Spec, ImplementsRecordMap, Map!Spec
=============================================================================

