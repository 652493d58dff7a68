--------------------------- MODULE RetentionProofs ---------------------------
(***************************************************************************)
(* What TLAPS proves of the store with its retention procedures. Whether   *)
(* or not the callers follow the rule of ResumeCompactions or prune with   *)
(* care: pruning takes nothing an archived rollup still needs and nothing  *)
(* a replay from a retained, marked snapshot reads. Of callers that do     *)
(* both: what a replay returns, from any snapshot, whole or resumed from a *)
(* checkpoint.                                                             *)
(***************************************************************************)
EXTENDS Retention, DurableStoreRuleProofs, NaturalsInduction, WellFoundedInduction

-----------------------------------------------------------------------------
(***************************************************************************)
(* The last entry. Pruning may take it, so that the log has a last entry   *)
(* again follows from the bound on mutation ids.                           *)
(***************************************************************************)
IdsAreBounded == \A m \in log : m.id <= MaxMutation

LEMMA BoundedLogHasLast == TypeOK /\ IdsAreBounded => LogHasLast
<1> SUFFICES ASSUME TypeOK, IdsAreBounded, log # {}
             PROVE  \E m \in log : \A n \in log : n.id <= m.id
    BY DEF LogHasLast
<1> DEFINE distances == {MaxMutation - m.id : m \in log}
<1>1. \A m \in log : m.id \in Nat /\ m.id <= MaxMutation
    BY DEF TypeOK, Mutation, IdsAreBounded
<1>2. distances \subseteq Nat /\ distances # {}
    BY <1>1, BoundsAreNat
<1>3. \E d \in distances : \A e \in distances : ~ (<<e, d>> \in OpToRel(<, Nat))
    <2> HIDE DEF distances
    <2> QED
        BY <1>2, NatLessThanWellFounded, WFMin, Zenon
<1>4. \A x, y \in Nat : x < y => <<x, y>> \in OpToRel(<, Nat)
    BY Zenon DEF OpToRel
<1>5. PICK d \in distances : \A e \in distances : ~ (e < d)
    <2> HIDE DEF distances
    <2> QED
        BY <1>2, <1>3, <1>4, Zenon
<1>6. PICK m \in log : d = MaxMutation - m.id
    OBVIOUS
<1>7. ASSUME NEW n \in log
      PROVE  n.id <= m.id
    <2>1. ~(MaxMutation - n.id < MaxMutation - m.id)
        BY <1>5, <1>6
    <2> QED
        BY <1>1, <2>1, BoundsAreNat
<1> QED
    BY <1>7

-----------------------------------------------------------------------------
(***************************************************************************)
(* The inductive invariant. ArchivedRollupsVerify needs that an entry never *)
(* speaks of a rollup that is still to come.                               *)
(***************************************************************************)
RollupsAreNamed == \A m \in log : m.compaction # None => m.compaction \in Rollups

RInv == /\ FenceInv
        /\ IdsAreBounded
        /\ RollupsAreNamed
        /\ ArchivedRollupsVerify

LEMMA RInit == Init => RInv
<1> SUFFICES ASSUME Init
             PROVE  RInv
    OBVIOUS
<1>1. log = {} /\ Archived = {}
    BY DEF Init, Archived, Existing
<1> QED
    BY <1>1, FenceInit DEF RInv, IdsAreBounded, RollupsAreNamed, ArchivedRollupsVerify

\* New entries within the bound that no older rollup has heard of.
LEMMA EntriesKeep ==
    ASSUME RInv, NEW E, E \subseteq Mutation, log' = log \cup E,
           \A m \in E : m.id <= MaxMutation,
           \A m \in E : m.compaction # None => m.compaction \in Rollups' \ Existing,
           Rollups \subseteq Rollups',
           \A c \in Existing : /\ receipts'[c] = receipts[c]
                               /\ archive'[c] = archive[c],
           \A c \in Archived' \cap Rollups' : c \in Existing \/ VerifyArchiveForCompaction(c)',
           \A c \in Archived' \cap Rollups' \cap Existing : c \in Archived \cap Rollups
    PROVE  IdsAreBounded' /\ RollupsAreNamed' /\ ArchivedRollupsVerify'
<1>1. IdsAreBounded' /\ RollupsAreNamed'
    BY DEF RInv, IdsAreBounded, RollupsAreNamed
<1>2. ASSUME NEW c \in Archived' \cap Rollups', c \in Existing
      PROVE  VerifyArchiveForCompaction(c)'
    <2>1. VerifyArchiveForCompaction(c) /\ c # None
        BY <1>2, SentinelsAreFresh DEF RInv, ArchivedRollupsVerify, Existing
    <2>2. \A m \in E : m.compaction # c
        BY <1>2, <2>1
    <2>3. RolledIds(c)' = RolledIds(c)
        BY <1>2 DEF RolledIds
    <2> QED
        BY <1>2, <2>1, <2>2, <2>3 DEF VerifyArchiveForCompaction
<1> QED
    BY <1>1, <1>2 DEF ArchivedRollupsVerify

LEMMA RStepNext == RInv /\ Next => RInv'
<1> SUFFICES ASSUME RInv, Next
             PROVE  IdsAreBounded' /\ RollupsAreNamed' /\ ArchivedRollupsVerify'
    BY FenceStep DEF RInv
<1>1. TypeInv /\ FenceInv
    BY DEF RInv, FenceInv
<1>2. LastMutationID \in Nat
    BY <1>1, LastMutationIDBounds
<1>3. CASE UNCHANGED <<log, archive, receipts>>
    <2>1. Existing' = Existing /\ Archived' = Archived /\ Rollups' = Rollups
        BY <1>3 DEF Existing, Archived, Rollups
    <2> DEFINE E == {}
    <2>2. E \subseteq Mutation /\ log' = log \cup E /\ \A m \in E : FALSE
        BY <1>3
    <2>3. Rollups \subseteq Existing
        BY DEF Rollups
    <2> HIDE DEF E
    <2> QED
        BY <1>3, <2>1, <2>2, <2>3, EntriesKeep
<1>4. ASSUME NEW l \in Leaders, NEW op \in {"add", "update"}, NEW r \in Records,
             NEW b \in Bodies, AppendThenApply(l, op, r, b)
      PROVE  IdsAreBounded' /\ RollupsAreNamed' /\ ArchivedRollupsVerify'
    <2> DEFINE E == {Entry(l, op, r, b)}
    <2>1. /\ E \subseteq Mutation /\ log' = log \cup E
          /\ \A m \in E : m.id <= MaxMutation /\ m.compaction = None
        <3>1. Entry(l, op, r, b) \in Mutation
            BY <1>1, EntryType DEF Row
        <3>2. Entry(l, op, r, b).id = NextMutationID /\ Entry(l, op, r, b).compaction = None
            BY DEF Entry
        <3> QED
            BY <1>4, <3>1, <3>2 DEF AppendThenApply
    <2>2. UNCHANGED <<archive, receipts>>
        BY <1>4 DEF AppendThenApply
    <2>3. Existing' = Existing /\ Archived' = Archived /\ Rollups' = Rollups
        BY <2>2 DEF Existing, Archived, Rollups
    <2>4. Rollups \subseteq Existing
        BY DEF Rollups
    <2> HIDE DEF E
    <2> QED
        BY <2>1, <2>2, <2>3, <2>4, EntriesKeep
<1>5. ASSUME NEW l \in Leaders, NEW c \in ReceiptIds, NEW r \in Records,
             NEW b \in Bodies, AppendReactivationMutation(l, c, r, b)
      PROVE  IdsAreBounded' /\ RollupsAreNamed' /\ ArchivedRollupsVerify'
    <2> DEFINE e == [Entry(l, "add", r, b) EXCEPT !.restore = c]
               E == {e}
               ids == [x \in Records |-> IF x = r THEN NextMutationID ELSE 0]
    <2>1. /\ E \subseteq Mutation /\ log' = log \cup E
          /\ \A m \in E : m.id <= MaxMutation /\ m.compaction = None
        <3>1. Entry(l, "add", r, b) \in Mutation
            BY <1>1, EntryType DEF Row
        <3>2. e \in Mutation /\ e.id = NextMutationID /\ e.compaction = None
            BY <3>1 DEF Entry, Mutation
        <3> HIDE DEF e
        <3> QED
            BY <1>5, <3>2 DEF AppendReactivationMutation, e
    <2>2. /\ InsertReceipt(l, c, "restore_reactivation", ids, NoRows)
          /\ UNCHANGED archive
        BY <1>5 DEF AppendReactivationMutation
    <2>3. ids \in [Records -> Nat] /\ NoRows \in [Records -> Row]
        BY <1>2 DEF NextMutationID, NoRows, Row
    <2>4. /\ c \notin Existing
          /\ Existing' = Existing \cup {c} /\ Archived' = Archived \cup {c} /\ Rollups' = Rollups
          /\ \A d \in ReceiptIds : d # c => receipts'[d] = receipts[d]
        <3> HIDE DEF ids
        <3> QED
            BY <1>1, <2>2, <2>3, ReceiptInserted
    <2>5. Rollups \subseteq Existing /\ Existing \subseteq ReceiptIds
        BY DEF Rollups, Existing
    <2> HIDE DEF E
    <2> QED
        BY <2>1, <2>2, <2>4, <2>5, EntriesKeep
<1>6. ASSUME NEW l \in Leaders, NEW c \in ReceiptIds, NEW S \in SUBSET Records,
             ArchiveCompaction(l, c, S)
      PROVE  IdsAreBounded' /\ RollupsAreNamed' /\ ArchivedRollupsVerify'
    <2>1. PICK id \in [S -> Nat \ {0}], E \in SUBSET Mutation :
            /\ RollupEntries(l, c, S, id, E)
            /\ log' = log \cup E
            /\ archive' = [archive EXCEPT ![c] = RolledBodies(S)]
            /\ InsertReceipt(l, c, "rollup", RolledIdsOf(S, id), RolledBodies(S))
        BY <1>1, <1>6, RollupAppends
    <2>2. RolledIdsOf(S, id) \in [Records -> Nat] /\ RolledBodies(S) \in [Records -> Row]
        BY <1>1 DEF TypeInv, TypeOK, Row, RolledIdsOf, RolledBodies
    <2>3. /\ c \notin Existing
          /\ Existing' = Existing \cup {c} /\ Archived' = Archived \cup {c}
          /\ Rollups' = Rollups \cup {c}
          /\ \A d \in ReceiptIds : d # c => receipts'[d] = receipts[d]
        BY <1>1, <2>1, <2>2, ReceiptInserted
    <2>4. \A d \in ReceiptIds : d # c => archive'[d] = archive[d]
        BY <1>1, <2>1 DEF TypeInv, TypeOK
    <2>5. VerifyArchiveForCompaction(c)'
        BY <1>1, <1>6, RollupVerifies DEF RInv, RollupsAreNamed
    <2>6. \A m \in E : m.id <= MaxMutation /\ m.compaction = c
        <3>1. Cardinality(S) \in Nat
            BY KeysAreFinite, FS_Subset, FS_CardinalityType
        <3>2. LastMutationID + Cardinality(S) <= MaxMutation
            BY <1>6 DEF ArchiveCompaction
        <3>3. \A m \in E : m.id \in Nat /\ m.id <= LastMutationID + Cardinality(S) /\ m.compaction = c
            BY <2>1 DEF RollupEntries, Mutation
        <3> QED
            BY <1>2, <3>1, <3>2, <3>3, BoundsAreNat
    <2>7. Rollups \subseteq Existing /\ Existing \subseteq ReceiptIds
        BY DEF Rollups, Existing
    <2> QED
        BY <2>1, <2>3, <2>4, <2>5, <2>6, <2>7, EntriesKeep
<1>7. ASSUME NEW l \in Leaders, pending[l] \in Existing, Commit(l), UNCHANGED <<log, archive>>
      PROVE  IdsAreBounded' /\ RollupsAreNamed' /\ ArchivedRollupsVerify'
    <2>1. /\ Rollups' = Rollups /\ Archived' = Archived \ {pending[l]}
          /\ \A c \in Existing : /\ receipts'[c].rolled = receipts[c].rolled
                                 /\ receipts'[c].appended = receipts[c].appended
        BY <1>1, <1>7, ReceiptCommitted
    <2>2. \A c \in Existing : RolledIds(c)' = RolledIds(c)
        BY <2>1 DEF RolledIds
    <2>3. ASSUME NEW c \in Archived \cap Rollups
          PROVE  VerifyArchiveForCompaction(c)'
        <3>1. VerifyArchiveForCompaction(c) /\ c \in Existing
            BY <2>3 DEF RInv, ArchivedRollupsVerify, Archived
        <3> QED
            BY <1>7, <2>1, <2>2, <3>1 DEF VerifyArchiveForCompaction
    <2> QED
        BY <1>7, <2>1, <2>3
        DEF RInv, IdsAreBounded, RollupsAreNamed, ArchivedRollupsVerify
<1>8. ASSUME NEW l \in Leaders, FinishCompactionSwap(l) \/ FinishReactivationApply(l)
      PROVE  IdsAreBounded' /\ RollupsAreNamed' /\ ArchivedRollupsVerify'
    BY <1>7, <1>8 DEF FinishCompactionSwap, FinishReactivationApply, Rollups
<1>9. ASSUME NEW l \in Leaders,
             \/ AcquireLease(l) \/ ShareLease(l) \/ CaptureSnapshot(l)
             \/ SecondStepFails(l) \/ Interrupt(l) \/ ResumeDone(l)
             \/ \E c \in ReceiptIds : RetryReceipt(l, c) \/ ResumeNext(l, c)
      PROVE  UNCHANGED <<log, archive, receipts>>
    BY <1>9 DEF AcquireLease, ShareLease, CaptureSnapshot, SecondStepFails, Interrupt,
                ResumeDone, RetryReceipt, ResumeNext, storeVars
<1>10. ASSUME NEW l \in Leaders,
              \/ \E r \in Records, b \in Bodies : AppendAdd(l, r, b) \/ AppendUpdate(l, r, b)
              \/ \E r \in Records, e, b \in Bodies : CompareAndSwapRecord(l, r, e, b)
       PROVE  IdsAreBounded' /\ RollupsAreNamed' /\ ArchivedRollupsVerify'
    BY <1>4, <1>10 DEF AppendAdd, AppendUpdate, CompareAndSwapRecord
<1> QED
    BY <1>3, <1>5, <1>6, <1>8, <1>9, <1>10 DEF Next, SecondStep

-----------------------------------------------------------------------------
(***************************************************************************)
(* Pruning.                                                                *)
(***************************************************************************)
\* Entries go; the ones an archived receipt names stay.
LEMMA RStepPrune ==
    ASSUME RInv, NEW l \in Leaders, NEW retained \in SUBSET snapshots,
           PruneMutations(l, retained)
    PROVE  RInv'
<1>1. /\ log' = log \ (PrunableMutations(retained) \ ProtectedMutations)
      /\ UNCHANGED <<fence, current, archive, receipts, snapshots, captured, leaderVars>>
    BY DEF PruneMutations
<1>2. log' \subseteq log
    BY <1>1
<1>3. Existing' = Existing /\ Archived' = Archived /\ Rollups' = Rollups
    BY <1>1 DEF Existing, Archived, Rollups
<1>4. IdsAreBounded' /\ RollupsAreNamed'
    BY <1>2, <1>3 DEF RInv, IdsAreBounded, RollupsAreNamed
<1>5. TypeOK'
    BY <1>1, <1>2 DEF RInv, FenceInv, TypeInv, TypeOK, leaderVars
<1>6. TypeInv'
    <2>1. TypeOK' /\ IdsAreBounded' => LogHasLast'
        BY BoundedLogHasLast, PTL
    <2> QED
        BY <1>4, <1>5, <2>1 DEF TypeInv
<1>7. FenceInv'
    BY <1>1, <1>2, <1>6 DEF RInv, FenceInv, TokensFromLeases, FencedLog, leaderVars
<1>8. ASSUME NEW c \in Archived \cap Rollups
      PROVE  VerifyArchiveForCompaction(c)'
    <2>1. VerifyArchiveForCompaction(c)
        BY <1>8 DEF RInv, ArchivedRollupsVerify
    <2>2. \A m \in log : m.compaction = c => m \in ProtectedMutations
        BY <1>8, <2>1 DEF VerifyArchiveForCompaction, ProtectedMutations
    <2>3. \A m \in log : m.compaction = c => m \in log'
        BY <1>1, <2>2
    <2>4. RolledIds(c)' = RolledIds(c)
        BY <1>1 DEF RolledIds
    <2> QED
        BY <1>1, <1>2, <2>1, <2>3, <2>4 DEF VerifyArchiveForCompaction
<1> QED
    BY <1>3, <1>4, <1>7, <1>8 DEF RInv, ArchivedRollupsVerify

LEMMA RSame ==
    ASSUME RInv, UNCHANGED <<fence, current, log, archive, receipts, captured, leaderVars>>,
           snapshots' \subseteq snapshots
    PROVE  RInv'
<1>1. Existing' = Existing /\ Archived' = Archived /\ Rollups' = Rollups
    BY DEF Existing, Archived, Rollups
<1>2. \A c : RolledIds(c)' = RolledIds(c)
    BY DEF RolledIds
<1>3. \A c : VerifyArchiveForCompaction(c) => VerifyArchiveForCompaction(c)'
    BY <1>2 DEF VerifyArchiveForCompaction
<1>4. FenceInv'
    BY DEF RInv, FenceInv, TypeInv, TypeOK, LogHasLast, TokensFromLeases, FencedLog, leaderVars
<1> QED
    BY <1>1, <1>3, <1>4 DEF RInv, IdsAreBounded, RollupsAreNamed, ArchivedRollupsVerify

LEMMA RStep == RInv /\ [RetentionNext]_vars => RInv'
<1> SUFFICES ASSUME RInv, [RetentionNext]_vars
             PROVE  RInv'
    OBVIOUS
<1>1. CASE Next
    BY <1>1, RStepNext
<1>2. ASSUME NEW l \in Leaders, NEW keepCount \in 0..MaxCaptured, PruneSnapshots(l, keepCount)
      PROVE  RInv'
    BY <1>2, RSame DEF PruneSnapshots
<1>3. ASSUME NEW l \in Leaders, NEW retained \in SUBSET snapshots, PruneMutations(l, retained)
      PROVE  RInv'
    BY <1>3, RStepPrune
<1>4. CASE UNCHANGED vars
    BY <1>4, RSame DEF vars, leaderVars
<1> QED
    BY <1>1, <1>2, <1>3, <1>4 DEF RetentionNext

\* Nothing that happens between the two steps of a rollup, pruning included,
\* takes from it what its second step verifies.
THEOREM RollupsVerify == RetentionSpec => []ArchivedRollupsVerify
<1>1. RInv => ArchivedRollupsVerify
    BY DEF RInv
<1> QED
    BY <1>1, RInit, RStep, PTL DEF RetentionSpec

\* Fencing survives pruning, which may free the largest id for a new entry.
THEOREM FencingWithRetention == RetentionSpec => []FencedLog
<1>1. RInv => FencedLog
    BY DEF RInv, FenceInv
<1> QED
    BY <1>1, RInit, RStep, PTL DEF RetentionSpec

-----------------------------------------------------------------------------
(***************************************************************************)
(* What a replay to the end of the log reads: the entries after the        *)
(* watermark, receipts and archive. Pruning up to the smallest watermark   *)
(* of the retained snapshots leaves all of that to each of them.           *)
(***************************************************************************)
Correlated(entries) ==
    \A m \in entries : m.op = "remove" =>
        m.compaction \in Existing /\ CheckCompactionCorrelation(m.compaction, entries)

ReconstructsFromTheRest ==
    \A s \in snapshots :
        Reconstruction(s) =
            IF Correlated(MutationsAfter(s.watermark))
            THEN ReplayMutations(archive, s.content, MutationsAfter(s.watermark))
            ELSE Aborted

LEMMA ReplayReadsTheRest == TypeInv => ReconstructsFromTheRest
<1> SUFFICES ASSUME TypeInv, NEW s \in snapshots
             PROVE  Reconstruction(s) =
                        IF Correlated(MutationsAfter(s.watermark))
                        THEN ReplayMutations(archive, s.content, MutationsAfter(s.watermark))
                        ELSE Aborted
    BY DEF ReconstructsFromTheRest
<1> DEFINE entries == MutationsAfter(s.watermark)
           applied == {m \in entries : m.id <= LastMutationID}
           removes == {m.compaction : m \in {n \in applied : n.op = "remove"}}
<1>1. applied = entries
    BY LastMutationIDBounds DEF MutationsAfter
<1>2. (\A c \in removes : c \in Existing /\ CheckCompactionCorrelation(c, entries))
          <=> Correlated(entries)
    BY <1>1 DEF Correlated
<1>3. Reconstruction(s) =
          IF \A c \in removes : c \in Existing /\ CheckCompactionCorrelation(c, entries)
          THEN ReplayMutations(archive, s.content, applied)
          ELSE Aborted
    BY DEF Reconstruction, ReplaySnapshot, ReplayFrom
<1> HIDE DEF applied, removes, entries
<1> QED
    BY <1>1, <1>2, <1>3 DEF entries

\* The smallest watermark that pruning goes by.
MarksOf(retained) == {s.watermark : s \in retained} \ {0}

LEMMA SmallestMark ==
    ASSUME TypeInv, NEW retained \in SUBSET snapshots, MarksOf(retained) # {}
    PROVE  /\ Min(MarksOf(retained)) \in Nat \ {0}
           /\ \A s \in retained : s.watermark # 0 => Min(MarksOf(retained)) <= s.watermark
<1> DEFINE marks == MarksOf(retained)
<1>1. \A t \in retained : t.watermark \in Nat
    BY DEF TypeInv, TypeOK, Snapshot
<1>2. /\ marks \subseteq Nat \ {0}
      /\ \A s \in retained : s.watermark # 0 => s.watermark \in marks
    BY <1>1 DEF MarksOf
<1> HIDE DEF marks
<1>3. \E k \in marks : \A j \in marks : ~ (j < k)
    <2>1. \E k \in marks : \A j \in marks : ~ (<<j, k>> \in OpToRel(<, Nat))
        <3>1. marks # {} /\ marks \subseteq Nat
            BY <1>2 DEF marks
        <3> QED
            BY <3>1, NatLessThanWellFounded, WFMin, Zenon
    <2>2. \A x, y \in Nat : x < y => <<x, y>> \in OpToRel(<, Nat)
        BY Zenon DEF OpToRel
    <2>3. marks \subseteq Nat
        BY <1>2
    <2> QED
        BY <2>1, <2>2, <2>3, Zenon
<1>4. \E k \in marks : \A j \in marks : k <= j
    BY <1>2, <1>3
<1>5. Min(marks) \in marks /\ \A j \in marks : Min(marks) <= j
    BY <1>4 DEF Min
<1> QED
    BY <1>2, <1>5 DEF marks

\* Pruning removes entries up to the smallest watermark.
LEMMA PrunedIsOld ==
    ASSUME TypeInv, NEW l \in Leaders, NEW retained \in SUBSET snapshots,
           PruneMutations(l, retained)
    PROVE  /\ MarksOf(retained) # {}
           /\ log' = {m \in log : m.id > Min(MarksOf(retained)) \/ m \in ProtectedMutations}
<1> DEFINE marks == MarksOf(retained)
<1>1. /\ log' = log \ (PrunableMutations(retained) \ ProtectedMutations)
      /\ PrunableMutations(retained) \ ProtectedMutations # {}
    BY DEF PruneMutations
<1>2. PrunableMutations(retained) =
          IF marks = {} THEN {} ELSE {m \in log : m.id <= Min(marks)}
    BY DEF PrunableMutations, MarksOf
<1>3. marks # {}
    BY <1>1, <1>2
<1>4. Min(marks) \in Nat /\ \A m \in log : m.id \in Nat
    BY <1>3, SmallestMark DEF TypeInv, TypeOK, Mutation
<1> HIDE DEF marks
<1> QED
    BY <1>1, <1>2, <1>3, <1>4 DEF marks

LEMMA PruningKeepsTheRest ==
    ASSUME TypeInv, NEW l \in Leaders, NEW retained \in SUBSET snapshots,
           PruneMutations(l, retained), NEW s \in retained, s.watermark # 0
    PROVE  MutationsAfter(s.watermark)' = MutationsAfter(s.watermark)
<1> DEFINE p == Min(MarksOf(retained))
<1>1. /\ p \in Nat /\ p <= s.watermark
      /\ log' = {m \in log : m.id > p \/ m \in ProtectedMutations}
    BY PrunedIsOld, SmallestMark
<1>2. \A m \in log : m.id \in Nat
    BY DEF TypeInv, TypeOK, Mutation
<1>3. s.watermark \in Nat
    BY DEF TypeInv, TypeOK, Snapshot
<1> HIDE DEF p
<1> QED
    BY <1>1, <1>2, <1>3 DEF MutationsAfter

LEMMA PruningUnseen ==
    ASSUME RInv, RInv', NEW l \in Leaders, NEW retained \in SUBSET snapshots,
           PruneMutations(l, retained), NEW s \in retained, s.watermark # 0
    PROVE  Reconstruction(s)' = Reconstruction(s)
<1> DEFINE entries == MutationsAfter(s.watermark)
<1>1. UNCHANGED <<archive, receipts, snapshots>>
    BY DEF PruneMutations
<1>2. MutationsAfter(s.watermark)' = entries
    BY PruningKeepsTheRest DEF RInv, FenceInv
<1>3. TypeInv' => ReconstructsFromTheRest'
    BY ReplayReadsTheRest, PTL
<1>4. Reconstruction(s)' =
          IF Correlated(MutationsAfter(s.watermark))'
          THEN ReplayMutations(archive', s.content, MutationsAfter(s.watermark)')
          ELSE Aborted
    BY <1>1, <1>3 DEF RInv, FenceInv, ReconstructsFromTheRest
<1>5. Reconstruction(s) =
          IF Correlated(entries) THEN ReplayMutations(archive, s.content, entries) ELSE Aborted
    BY ReplayReadsTheRest DEF RInv, FenceInv, ReconstructsFromTheRest
<1>6. Correlated(MutationsAfter(s.watermark))' <=> Correlated(entries)
    <2>1. Existing' = Existing
        BY <1>1 DEF Existing
    <2>2. \A c : RolledIds(c)' = RolledIds(c)
        BY <1>1 DEF RolledIds
    <2>3. \A c, E : CheckCompactionCorrelation(c, E)' <=> CheckCompactionCorrelation(c, E)
        BY <1>1, <2>2 DEF CheckCompactionCorrelation
    <2> QED
        BY <1>2, <2>1, <2>3 DEF Correlated
<1> QED
    BY <1>1, <1>2, <1>4, <1>5, <1>6

\* Pruning mutations changes the outcome of no replay from a retained
\* snapshot that has a watermark.
THEOREM MarkedReplaysSurvivePruning == RetentionSpec => PruningKeepsMarkedReplay
<1>1. RInv /\ RInv' /\ [RetentionNext]_vars =>
          [\A l \in Leaders, retained \in SUBSET snapshots :
              PruneMutations(l, retained) =>
                  PruningIsInvisible({s \in retained : s.watermark # 0})]_vars
    BY PruningUnseen DEF PruningIsInvisible
<1> QED
    BY <1>1, RInit, RStep, PTL DEF RetentionSpec, PruningKeepsMarkedReplay

-----------------------------------------------------------------------------
(***************************************************************************)
(* What a replay computes. A set of numbers that holds 0 and with every    *)
(* number the next one holds them all; this is the induction of the        *)
(* lemmas below, each over the set of positions where it is true.          *)
(***************************************************************************)
LEMMA AllNumbers ==
    ASSUME NEW S, 0 \in S, \A n \in Nat : n \in S => n + 1 \in S
    PROVE  \A n \in Nat : n \in S
<1> DEFINE others == Nat \ S
<1>1. SUFFICES ASSUME others # {}
               PROVE  FALSE
    OBVIOUS
<1>2. PICK n \in others : \A k \in others : ~ (<<k, n>> \in OpToRel(<, Nat))
    <2>1. others \subseteq Nat
        OBVIOUS
    <2> HIDE DEF others
    <2> QED
        BY <1>1, <2>1, NatLessThanWellFounded, WFMin, Zenon
<1>3. \A x, y \in Nat : x < y => <<x, y>> \in OpToRel(<, Nat)
    BY Zenon DEF OpToRel
<1>4. n # 0 /\ n \in Nat
    OBVIOUS
<1>5. n - 1 \in Nat /\ n - 1 < n /\ (n - 1) + 1 = n
    BY <1>4
<1>6. n - 1 \notin others
    BY <1>2, <1>3, <1>4, <1>5
<1> QED
    BY <1>5, <1>6

\* The rows after the mutation at position i, if there is one, and all the
\* rows up to position n.
EntryAt(E, i) == CHOOSE m \in E : m.id = i

Applied(archived, E, rows, i) ==
    IF i \in {m.id : m \in E} THEN ApplyMutation(archived, rows, EntryAt(E, i)) ELSE rows

IsReplay(f, n, archived, rows, E) ==
    f = [i \in 0..n |-> IF i = 0 THEN rows ELSE Applied(archived, E, f[i - 1], i)]

LEMMA ReplayExists ==
    ASSUME NEW archived, NEW rows, NEW E
    PROVE  \A n \in Nat : \E f : IsReplay(f, n, archived, rows, E)
<1> DEFINE S == {n \in Nat : \E f : IsReplay(f, n, archived, rows, E)}
<1>1. 0 \in S
    <2> DEFINE f == [i \in 0..0 |-> rows]
    <2>1. f = [i \in 0..0 |-> IF i = 0 THEN rows ELSE Applied(archived, E, f[i - 1], i)]
        OBVIOUS
    <2>2. IsReplay(f, 0, archived, rows, E)
        BY <2>1 DEF IsReplay
    <2> QED
        BY <2>2
<1>2. ASSUME NEW n \in Nat, n \in S
      PROVE  n + 1 \in S
    <2>1. PICK f : IsReplay(f, n, archived, rows, E)
        BY <1>2
    <2>2. /\ f = [i \in 0..n |-> f[i]]
          /\ \A i \in 0..n : f[i] = IF i = 0 THEN rows ELSE Applied(archived, E, f[i - 1], i)
        BY <2>1 DEF IsReplay
    <2> DEFINE g == [i \in 0..(n + 1) |->
                        IF i = n + 1 THEN Applied(archived, E, f[n], n + 1) ELSE f[i]]
    <2>3. \A i \in 0..(n + 1) :
              g[i] = IF i = 0 THEN rows ELSE Applied(archived, E, g[i - 1], i)
        <3> SUFFICES ASSUME NEW i \in 0..(n + 1)
                     PROVE  g[i] = IF i = 0 THEN rows ELSE Applied(archived, E, g[i - 1], i)
            OBVIOUS
        <3>1. CASE i = n + 1
            <4>1. i # 0 /\ i - 1 = n /\ n \in 0..(n + 1) /\ n # n + 1
                BY <3>1
            <4>2. g[n] = f[n]
                BY <4>1
            <4> QED
                BY <3>1, <4>1, <4>2
        <3>2. CASE i # n + 1
            <4>1. i \in 0..n /\ g[i] = f[i]
                BY <3>2
            <4>2. i # 0 => i - 1 \in 0..(n + 1) /\ i - 1 # n + 1 /\ g[i - 1] = f[i - 1]
                BY <4>1
            <4> HIDE DEF g
            <4> QED
                BY <2>2, <4>1, <4>2
        <3> QED
            BY <3>1, <3>2
    <2>4. IsReplay(g, n + 1, archived, rows, E)
        <3>1. g = [i \in 0..(n + 1) |-> g[i]]
            OBVIOUS
        <3> HIDE DEF g
        <3> QED
            BY <2>3, <3>1 DEF IsReplay
    <2> QED
        BY <2>4
<1> HIDE DEF S
<1>3. \A n \in Nat : n \in S
    BY <1>1, <1>2, AllNumbers
<1> QED
    BY <1>3 DEF S

\* ReplayMutations is the last of these rows, at the largest id.
LEMMA ReplayIsLast ==
    ASSUME NEW archived, NEW rows, NEW E, E \subseteq Mutation,
           NEW bound \in Nat, \A m \in E : m.id <= bound
    PROVE  \E n \in Nat : \E f :
              /\ IsReplay(f, n, archived, rows, E)
              /\ \A m \in E : m.id <= n
              /\ n <= bound
              /\ ReplayMutations(archived, rows, E) = f[n]
<1> DEFINE ids == {m.id : m \in E}
           last == Max({0} \cup ids)
<1>1. \A i \in {0} \cup ids : i \in Nat /\ i <= bound
    BY DEF Mutation
<1>2. \E i \in {0} \cup ids : \A j \in {0} \cup ids : i >= j
    <2> DEFINE S == {n \in Nat : (\A i \in {0} \cup ids : i <= n)
                        => \E i \in {0} \cup ids : \A j \in {0} \cup ids : i >= j}
    <2> HIDE DEF ids
    <2>1. 0 \in S
        BY <1>1
    <2>2. ASSUME NEW n \in Nat, n \in S
          PROVE  n + 1 \in S
        <3>1. CASE n + 1 \in {0} \cup ids
            <4>1. (\A i \in {0} \cup ids : i <= n + 1)
                      => \E i \in {0} \cup ids : \A j \in {0} \cup ids : i >= j
                BY <1>1, <3>1
            <4> QED
                BY <4>1
        <3>2. CASE n + 1 \notin {0} \cup ids
            <4>1. (\A i \in {0} \cup ids : i <= n + 1) => \A i \in {0} \cup ids : i <= n
                BY <1>1, <3>2
            <4> QED
                BY <2>2, <4>1
        <3> QED
            BY <3>1, <3>2
    <2> HIDE DEF S
    <2>3. bound \in S
        BY <2>1, <2>2, AllNumbers
    <2> QED
        BY <1>1, <2>3 DEF S
<1>3. last \in {0} \cup ids /\ \A j \in {0} \cup ids : last >= j
    <2> HIDE DEF ids
    <2> QED
        BY <1>2 DEF Max
<1>4. last \in Nat /\ last <= bound /\ \A m \in E : m.id <= last
    <2> HIDE DEF last
    <2>1. \A m \in E : m.id \in ids
        OBVIOUS
    <2> QED
        BY <1>1, <1>3, <2>1
<1> DEFINE chosen == CHOOSE f : IsReplay(f, last, archived, rows, E)
<1>5. ReplayMutations(archived, rows, E) = chosen[last]
    BY DEF ReplayMutations, IsReplay, Applied, EntryAt
<1>6. IsReplay(chosen, last, archived, rows, E)
    <2>1. \E f : IsReplay(f, last, archived, rows, E)
        <3> HIDE DEF last
        <3> QED
            BY <1>4, ReplayExists
    <2> HIDE DEF last
    <2> QED
        BY <2>1, Zenon
<1> HIDE DEF last, chosen
<1> QED
    BY <1>4, <1>5, <1>6

\* In rows, after the entries of E with ids up to k, the body of r is b.
Says(rows, E, r, k, b) ==
    \/ b = rows[r] /\ \A m \in E : m.rid = r => m.id > k
    \/ \E m \in E : /\ m.rid = r /\ m.id <= k /\ m.after = b
                    /\ \A n \in E : n.rid = r /\ n.id <= k => n.id <= m.id

UniqueIds(E) == \A m, n \in E : m.id = n.id => m = n

LEMMA SaysOneBody ==
    ASSUME NEW rows, NEW E, E \subseteq Mutation, UniqueIds(E), NEW r, NEW k \in Nat,
           NEW b, NEW d, Says(rows, E, r, k, b), Says(rows, E, r, k, d)
    PROVE  b = d
<1>1. \A m \in E : m.id \in Nat
    BY DEF Mutation
<1>2. ASSUME NEW m \in E, m.rid = r, m.id <= k
      PROVE  ~ \A n \in E : n.rid = r => n.id > k
    BY <1>1, <1>2
<1>3. ASSUME NEW m \in E, m.rid = r, m.id <= k, m.after = b,
             \A n \in E : n.rid = r /\ n.id <= k => n.id <= m.id,
             NEW p \in E, p.rid = r, p.id <= k, p.after = d,
             \A n \in E : n.rid = r /\ n.id <= k => n.id <= p.id
      PROVE  b = d
    <2>1. m.id = p.id
        BY <1>1, <1>3
    <2> QED
        BY <1>3, <2>1 DEF UniqueIds
<1> QED
    BY <1>2, <1>3 DEF Says

\* What the entries say does not depend on rows they were written over.
LEMMA SaysOfOtherRows ==
    ASSUME NEW rows, NEW others, NEW E, NEW r, NEW k, NEW b, Says(rows, E, r, k, b)
    PROVE  Says(others, E, r, k, b) \/ (b = rows[r] /\ \A m \in E : m.rid = r => m.id > k)
    BY DEF Says

\* Nothing happens to r from k to j.
LEMMA SaysLater ==
    ASSUME NEW rows, NEW E, E \subseteq Mutation, NEW r, NEW k \in Nat, NEW j \in Nat,
           k <= j, \A m \in E : m.rid = r /\ m.id > k => m.id > j,
           NEW b, Says(rows, E, r, k, b)
    PROVE  Says(rows, E, r, j, b)
<1>1. \A m \in E : m.id \in Nat
    BY DEF Mutation
<1>2. CASE b = rows[r] /\ \A m \in E : m.rid = r => m.id > k
    BY <1>2 DEF Says
<1>3. ASSUME NEW m \in E, m.rid = r, m.id <= k, m.after = b,
             \A n \in E : n.rid = r /\ n.id <= k => n.id <= m.id
      PROVE  Says(rows, E, r, j, b)
    <2>1. m.id <= j
        BY <1>1, <1>3
    <2>2. \A n \in E : n.rid = r /\ n.id <= j => n.id <= m.id
        BY <1>1, <1>3
    <2> QED
        BY <1>3, <2>1, <2>2 DEF Says
<1> QED
    BY <1>2, <1>3 DEF Says

\* Of a replay that did not abort, every position has the rows that the
\* entries up to it say.
ShowsUpTo(f, i, rows, E) ==
    f[i] # Aborted => /\ f[i] \in [Records -> Row]
                      /\ \A r \in Records : Says(rows, E, r, i, f[i][r])

LEMMA AppliedShows ==
    ASSUME NEW archived, NEW rows, NEW E, E \subseteq Mutation, UniqueIds(E),
           NEW f, NEW i \in Nat, ShowsUpTo(f, i, rows, E),
           f[i + 1] = Applied(archived, E, f[i], i + 1)
    PROVE  ShowsUpTo(f, i + 1, rows, E)
<1> SUFFICES ASSUME f[i + 1] # Aborted
             PROVE  /\ f[i + 1] \in [Records -> Row]
                    /\ \A r \in Records : Says(rows, E, r, i + 1, f[i + 1][r])
    BY DEF ShowsUpTo
<1>1. \A m \in E : m.id \in Nat /\ m.rid \in Records /\ m.after \in Row
    BY DEF Mutation
<1>2. CASE i + 1 \notin {m.id : m \in E}
    <2>1. f[i + 1] = f[i]
        BY <1>2 DEF Applied
    <2>2. \A m \in E : m.id > i => m.id > i + 1
        BY <1>1, <1>2
    <2>3. \A r \in Records : Says(rows, E, r, i, f[i][r])
        BY <2>1 DEF ShowsUpTo
    <2>4. \A r \in Records : Says(rows, E, r, i + 1, f[i][r])
        BY <2>2, <2>3, SaysLater
    <2> QED
        BY <2>1, <2>4 DEF ShowsUpTo
<1>3. CASE i + 1 \in {m.id : m \in E}
    <2> DEFINE m == EntryAt(E, i + 1)
    <2>1. m \in E /\ m.id = i + 1
        BY <1>3 DEF EntryAt
    <2>2. /\ f[i] # Aborted /\ f[i + 1] = [f[i] EXCEPT ![m.rid] = m.after]
        BY <1>3 DEF Applied, ApplyMutation, Applicable
    <2>3. /\ f[i] \in [Records -> Row]
          /\ \A r \in Records : Says(rows, E, r, i, f[i][r])
        BY <2>2 DEF ShowsUpTo
    <2> HIDE DEF m
    <2>4. f[i + 1] \in [Records -> Row]
        BY <1>1, <2>1, <2>2, <2>3
    <2>5. Says(rows, E, m.rid, i + 1, f[i + 1][m.rid])
        <3>1. f[i + 1][m.rid] = m.after
            BY <1>1, <2>1, <2>2, <2>3
        <3> QED
            BY <1>1, <2>1, <3>1 DEF Says
    <2>6. ASSUME NEW r \in Records, r # m.rid
          PROVE  Says(rows, E, r, i + 1, f[i + 1][r])
        <3>1. f[i + 1][r] = f[i][r]
            BY <2>2, <2>3, <2>6
        <3>2. \A n \in E : n.rid = r /\ n.id > i => n.id > i + 1
            <4> SUFFICES ASSUME NEW n \in E, n.rid = r, n.id > i
                         PROVE  n.id > i + 1
                OBVIOUS
            <4>1. n.id # i + 1
                BY <2>1, <2>6 DEF UniqueIds
            <4> QED
                BY <1>1, <4>1
        <3>3. Says(rows, E, r, i + 1, f[i][r])
            BY <2>3, <3>2, SaysLater
        <3> QED
            BY <3>1, <3>3
    <2> QED
        BY <2>4, <2>5, <2>6
<1> QED
    BY <1>2, <1>3

LEMMA ReplayShows ==
    ASSUME NEW archived, NEW rows \in [Records -> Row], NEW E, E \subseteq Mutation,
           UniqueIds(E), NEW n \in Nat, NEW f, IsReplay(f, n, archived, rows, E)
    PROVE  \A i \in 0..n : ShowsUpTo(f, i, rows, E)
<1> DEFINE S == {i \in Nat : i <= n => ShowsUpTo(f, i, rows, E)}
<1>1. \A i \in 0..n : f[i] = IF i = 0 THEN rows ELSE Applied(archived, E, f[i - 1], i)
    BY DEF IsReplay
<1>2. 0 \in S
    <2>1. f[0] = rows
        BY <1>1
    <2>2. \A m \in E : m.id > 0
        BY DEF Mutation
    <2> QED
        BY <2>1, <2>2 DEF ShowsUpTo, Says
<1>3. ASSUME NEW i \in Nat, i \in S
      PROVE  i + 1 \in S
    <2> SUFFICES ASSUME i + 1 <= n
                 PROVE  ShowsUpTo(f, i + 1, rows, E)
        OBVIOUS
    <2>1. i <= n /\ i + 1 \in 0..n /\ i + 1 # 0 /\ (i + 1) - 1 = i
        OBVIOUS
    <2>2. f[i + 1] = Applied(archived, E, f[i], i + 1)
        BY <1>1, <2>1
    <2>3. ShowsUpTo(f, i, rows, E)
        BY <1>3, <2>1
    <2> QED
        BY <2>2, <2>3, AppliedShows
<1> HIDE DEF S
<1>4. \A i \in Nat : i \in S
    BY <1>2, <1>3, AllNumbers
<1> QED
    BY <1>4 DEF S

\* And it does not abort when every entry starts from the body the ones
\* before it left, and from the archived body if it is a remove.
Continues(rows, E) == \A m \in E : Says(rows, E, m.rid, m.id - 1, m.before)

WellFormed(m) == /\ (m.op = "add") <=> (m.before = Absent)
                 /\ (m.op = "remove") <=> (m.compaction # None)

LEMMA ReplayGoesOn ==
    ASSUME NEW archived, NEW rows \in [Records -> Row], NEW E, E \subseteq Mutation,
           UniqueIds(E), NEW n \in Nat, NEW f, IsReplay(f, n, archived, rows, E),
           Continues(rows, E), \A m \in E : WellFormed(m),
           \A m \in E : m.op = "remove" => archived[m.compaction][m.rid] = m.before
    PROVE  \A i \in 0..n : f[i] # Aborted
<1> DEFINE S == {i \in Nat : i <= n => f[i] # Aborted}
<1>1. \A i \in 0..n : f[i] = IF i = 0 THEN rows ELSE Applied(archived, E, f[i - 1], i)
    BY DEF IsReplay
<1>2. 0 \in S
    BY <1>1, AbortedIsFresh
<1>3. ASSUME NEW i \in Nat, i \in S
      PROVE  i + 1 \in S
    <2> SUFFICES ASSUME i + 1 <= n
                 PROVE  f[i + 1] # Aborted
        OBVIOUS
    <2>1. i \in 0..n /\ i + 1 \in 0..n /\ i + 1 # 0 /\ (i + 1) - 1 = i
        OBVIOUS
    <2>2. f[i + 1] = Applied(archived, E, f[i], i + 1) /\ f[i] # Aborted
        BY <1>1, <1>3, <2>1
    <2>3. /\ f[i] \in [Records -> Row]
          /\ \A r \in Records : Says(rows, E, r, i, f[i][r])
        BY <2>1, <2>2, ReplayShows DEF ShowsUpTo
    <2>4. CASE i + 1 \notin {m.id : m \in E}
        BY <2>2, <2>4 DEF Applied
    <2>5. CASE i + 1 \in {m.id : m \in E}
        <3> DEFINE m == EntryAt(E, i + 1)
        <3>1. m \in E /\ m.id = i + 1
            BY <2>5 DEF EntryAt
        <3>2. f[i + 1] = ApplyMutation(archived, f[i], m)
            BY <2>2, <2>5 DEF Applied
        <3> HIDE DEF m
        <3>3. m.rid \in Records /\ m.after \in Row
            BY <3>1 DEF Mutation
        <3>4. f[i][m.rid] = m.before
            <4>1. Says(rows, E, m.rid, i, m.before)
                BY <2>1, <3>1 DEF Continues
            <4> QED
                BY <2>3, <3>3, <4>1, SaysOneBody
        <3>5. Applicable(archived, f[i], m)
            BY <2>2, <3>1, <3>4 DEF Applicable, WellFormed
        <3>6. f[i + 1] \in [Records -> Row]
            BY <2>3, <3>2, <3>3, <3>5 DEF ApplyMutation
        <3> QED
            BY <3>6, AbortedIsFresh
    <2> QED
        BY <2>4, <2>5
<1> HIDE DEF S
<1>4. \A i \in Nat : i \in S
    BY <1>2, <1>3, AllNumbers
<1> QED
    BY <1>4 DEF S

\* A replay from rows at a watermark to a target either aborts or returns
\* what the entries between the two say.
LogIsSound == TypeInv /\ UniqueIds(log)

ReplayReturns(rows, watermark, target) ==
    LET R == ReplayFrom(rows, watermark, target)
    IN R # Aborted =>
           /\ R \in [Records -> Row]
           /\ \A r \in Records : Says(rows, MutationsAfter(watermark), r, target, R[r])

LEMMA ReplayFromReturns ==
    ASSUME LogIsSound, NEW rows \in [Records -> Row],
           NEW watermark \in Nat, NEW target \in Nat
    PROVE  ReplayReturns(rows, watermark, target)
<1> DEFINE R == ReplayFrom(rows, watermark, target)
           E == MutationsAfter(watermark)
           applied == {m \in E : m.id <= target}
<1>1. SUFFICES ASSUME R # Aborted
               PROVE  /\ R \in [Records -> Row]
                      /\ \A r \in Records : Says(rows, E, r, target, R[r])
    BY DEF ReplayReturns
<1>2. R = ReplayMutations(archive, rows, applied)
    BY <1>1 DEF ReplayFrom
<1>3. E \subseteq Mutation /\ UniqueIds(E)
    BY DEF LogIsSound, UniqueIds, MutationsAfter, TypeInv, TypeOK
<1> HIDE DEF R, E
<1>4. applied \subseteq Mutation /\ UniqueIds(applied) /\ \A m \in applied : m.id <= target
    BY <1>3 DEF UniqueIds
<1>5. PICK n, f :
        /\ n \in Nat
        /\ IsReplay(f, n, archive, rows, applied)
        /\ \A m \in applied : m.id <= n
        /\ n <= target
        /\ R = f[n]
    <2> HIDE DEF applied
    <2> QED
        BY <1>2, <1>4, ReplayIsLast
<1>6. ShowsUpTo(f, n, rows, applied)
    <2> HIDE DEF applied
    <2> QED
        BY <1>4, <1>5, ReplayShows
<1>7. /\ R \in [Records -> Row]
      /\ \A r \in Records : Says(rows, applied, r, n, R[r])
    BY <1>1, <1>5, <1>6 DEF ShowsUpTo
<1>8. ASSUME NEW r \in Records, NEW b, Says(rows, applied, r, n, b)
      PROVE  Says(rows, E, r, target, b)
    <2>1. \A m \in E : m.id \in Nat
        BY <1>3 DEF Mutation
    <2>2. CASE b = rows[r] /\ \A m \in applied : m.rid = r => m.id > n
        <3>1. \A m \in E : m.rid = r => m.id > target
            BY <1>5, <2>1, <2>2
        <3> QED
            BY <2>2, <3>1 DEF Says
    <2>3. ASSUME NEW m \in applied, m.rid = r, m.id <= n, m.after = b,
                 \A k \in applied : k.rid = r /\ k.id <= n => k.id <= m.id
          PROVE  Says(rows, E, r, target, b)
        <3>1. \A k \in E : k.rid = r /\ k.id <= target => k.id <= m.id
            BY <1>5, <2>3
        <3> QED
            BY <2>3, <3>1 DEF Says
    <2> QED
        BY <1>8, <2>2, <2>3 DEF Says
<1> QED
    BY <1>7, <1>8

\* It does not abort when what it reads is in order.
LEMMA ReplayFromSucceeds ==
    ASSUME LogIsSound, NEW rows \in [Records -> Row],
           NEW watermark \in Nat, NEW target \in Nat,
           Continues(rows, MutationsAfter(watermark)),
           \A m \in log : WellFormed(m),
           \A m \in MutationsAfter(watermark) : m.compaction # None =>
               m.compaction \in Existing /\ NamedBy(m, MutationsAfter(watermark))
    PROVE  ReplayFrom(rows, watermark, target) # Aborted
<1> DEFINE E == MutationsAfter(watermark)
           applied == {m \in E : m.id <= target}
           removes == {m.compaction : m \in {n \in applied : n.op = "remove"}}
<1>1. E \subseteq Mutation /\ UniqueIds(E) /\ E \subseteq log
    BY DEF LogIsSound, UniqueIds, MutationsAfter, TypeInv, TypeOK
<1>2. \A m \in E : WellFormed(m) /\ m.id \in Nat \ {0}
    BY <1>1 DEF Mutation
<1>3. \A m \in E : m.compaction # None => m.compaction \in Existing /\ NamedBy(m, E)
    OBVIOUS
<1>4. Continues(rows, E)
    OBVIOUS
<1>5. ReplayFrom(rows, watermark, target) =
          IF \A c \in removes : c \in Existing /\ CheckCompactionCorrelation(c, E)
          THEN ReplayMutations(archive, rows, applied) ELSE Aborted
    BY DEF ReplayFrom
<1> HIDE DEF E
<1>6. ASSUME NEW c \in removes
      PROVE  c \in Existing /\ CheckCompactionCorrelation(c, E)
    <2>1. PICK m \in E : m.op = "remove" /\ m.compaction = c
        OBVIOUS
    <2>2. c # None /\ c \in Existing /\ NamedBy(m, E)
        BY <1>2, <1>3, <2>1 DEF WellFormed
    <2>3. \A k \in E : k.compaction = c => k.op = "remove" /\ receipts[c].rolled[k.rid] = k.id
        BY <1>2, <1>3, <2>2 DEF WellFormed, NamedBy
    <2> QED
        BY <2>1, <2>2, <2>3 DEF CheckCompactionCorrelation, NamedBy
<1>7. /\ applied \subseteq Mutation /\ UniqueIds(applied)
      /\ \A m \in applied : m.id <= target /\ WellFormed(m)
      /\ \A m \in applied : m.op = "remove" => archive[m.compaction][m.rid] = m.before
    BY <1>1, <1>2, <1>3 DEF UniqueIds, WellFormed, NamedBy
<1>8. Continues(rows, applied)
    <2> SUFFICES ASSUME NEW m \in E, m.id <= target
                 PROVE  Says(rows, applied, m.rid, m.id - 1, m.before)
        BY DEF Continues
    <2>1. Says(rows, E, m.rid, m.id - 1, m.before)
        BY <1>4 DEF Continues
    <2>2. \A k \in E : k.id <= m.id - 1 => k.id <= target
        BY <1>2
    <2> QED
        BY <2>1, <2>2 DEF Says
<1>9. PICK n, f :
        /\ n \in Nat
        /\ IsReplay(f, n, archive, rows, applied)
        /\ ReplayMutations(archive, rows, applied) = f[n]
    <2> HIDE DEF applied
    <2> QED
        BY <1>7, ReplayIsLast
<1>10. f[n] # Aborted
    <2> HIDE DEF applied
    <2> QED
        BY <1>7, <1>8, <1>9, ReplayGoesOn
<1> QED
    BY <1>5, <1>6, <1>9, <1>10

-----------------------------------------------------------------------------
(***************************************************************************)
(* The rule and care. What a retained snapshot and the entries after its   *)
(* watermark say is the effective rows, also when the log before it is     *)
(* gone; and of a log that lacks nothing, LogInv holds. The entries go on  *)
(* from the effective rows the store had at the watermark, which are those *)
(* of the snapshot but for the records that were moving.                   *)
(***************************************************************************)
GoesOn(rows, w) ==
    /\ w \in Nat /\ w <= LastMutationID
    /\ rows \in [Records -> Row]
    /\ Continues(rows, MutationsAfter(w))
    /\ \A r \in Records : Says(rows, MutationsAfter(w), r, LastMutationID, Effective[r])
    /\ \A m \in MutationsAfter(w) : m.compaction # None => NamedBy(m, MutationsAfter(w))

AgreesWith(rows, s) == \A r \in Records : rows[r] = s.content[r] \/ r \in s.moving

ReplaysToEffective(s) == \E rows : AgreesWith(rows, s) /\ GoesOn(rows, s.watermark)

EndsEffective ==
    \A m \in log : Decides(m, LastMutationID) => m.after = Effective[m.rid]

EntriesInv ==
    /\ \A m \in log : WellFormed(m)
    /\ EndsEffective
    /\ \A s \in snapshots : ReplaysToEffective(s)
    /\ LogIsComplete => LogInv

CareInv == RInv /\ StoreInv /\ EntriesInv

LEMMA CareInit == Init => CareInv
<1> SUFFICES ASSUME Init
             PROVE  CareInv
    OBVIOUS
<1>1. log = {} /\ snapshots = {}
    BY DEF Init
<1>2. LogInv
    BY IInvInit DEF IInv
<1> QED
    BY <1>1, <1>2, RInit, StoreInit DEF CareInv, EntriesInv, EndsEffective

LEMMA EffectiveIsRows == StoreInv => Effective \in [Records -> Row]
<1> SUFFICES ASSUME StoreInv, NEW r \in Records
             PROVE  EffectiveRow(r) \in Row
    BY DEF Effective
<1>1. ASSUME AwaitsReactivation(r) # {}
      PROVE  (CHOOSE m \in AwaitsReactivation(r) : TRUE).after \in Row
    <2>1. (CHOOSE m \in AwaitsReactivation(r) : TRUE) \in AwaitsReactivation(r)
        BY <1>1
    <2>2. AwaitsReactivation(r) \subseteq Mutation
        BY DEF AwaitsReactivation, StoreInv, TypeInv, TypeOK
    <2> QED
        BY <2>1, <2>2 DEF Mutation
<1> QED
    BY <1>1 DEF EffectiveRow, StoreInv, TypeInv, TypeOK, Row

\* Entries that are appended to those of a snapshot.
LEMMA SaysExtends ==
    ASSUME NEW rows, NEW A, NEW E, A \subseteq Mutation, E \subseteq Mutation, NEW r,
           NEW k \in Nat, NEW j \in Nat, k <= j,
           \A n \in A : n.rid = r /\ n.id > k => n.id > j,
           \A n \in E : n.rid = r => n.id > j,
           NEW b, Says(rows, A, r, k, b)
    PROVE  Says(rows, A \cup E, r, j, b)
<1>1. \A m \in A \cup E : m.id \in Nat
    BY DEF Mutation
<1>2. CASE b = rows[r] /\ \A m \in A : m.rid = r => m.id > k
    BY <1>2 DEF Says
<1>3. ASSUME NEW m \in A, m.rid = r, m.id <= k, m.after = b,
             \A n \in A : n.rid = r /\ n.id <= k => n.id <= m.id
      PROVE  Says(rows, A \cup E, r, j, b)
    <2>1. m.id <= j
        BY <1>1, <1>3
    <2>2. \A n \in A \cup E : n.rid = r /\ n.id <= j => n.id <= m.id
        BY <1>1, <1>3
    <2> QED
        BY <1>3, <2>1, <2>2 DEF Says
<1> QED
    BY <1>2, <1>3 DEF Says

\* A step that writes: the numbers the lemmas below need of it.
LEMMA WritesBeyond ==
    ASSUME TypeInv, TypeInv', NEW E, Writes(E)
    PROVE  /\ log \subseteq Mutation /\ E \subseteq Mutation /\ log' = log \cup E
           /\ LastMutationID \in Nat /\ LastMutationID' \in Nat
           /\ LastMutationID <= LastMutationID'
           /\ \A m \in log : m.id \in Nat \ {0} /\ m.id <= LastMutationID
           /\ \A m \in E : /\ m.id \in Nat \ {0} /\ m.rid \in Records
                           /\ m.id > LastMutationID /\ m.id <= LastMutationID'
<1>1. log \subseteq Mutation /\ E \subseteq Mutation /\ log' = log \cup E
    BY DEF Writes, TypeInv, TypeOK
<1>2. LastMutationID <= LastMutationID'
    BY <1>1, LastGrows
<1>3. \A m \in log' : m.id <= LastMutationID'
    BY LastBoundsNext DEF LastBoundsLog
<1>4. \A m \in E : m.id > LastMutationID
    BY DEF Writes
<1> QED
    BY <1>1, <1>2, <1>3, <1>4, LastBounds, LastBoundsNext DEF LastBoundsLog, Mutation

LEMMA RowsGoOn ==
    ASSUME StoreInv, TypeInv', NEW E, Writes(E), Explains(E),
           NEW rows, NEW w, GoesOn(rows, w)
    PROVE  GoesOn(rows, w)'
<1> DEFINE A == MutationsAfter(w)
           last == LastMutationID
           last2 == LastMutationID'
<1>1. /\ log \subseteq Mutation /\ E \subseteq Mutation /\ log' = log \cup E
      /\ last \in Nat /\ last2 \in Nat /\ last <= last2
      /\ \A m \in log : m.id \in Nat \ {0} /\ m.id <= last
      /\ \A m \in E : m.id \in Nat \ {0} /\ m.rid \in Records /\ m.id > last /\ m.id <= last2
    BY WritesBeyond DEF StoreInv
<1>2. /\ w \in Nat /\ w <= last /\ rows \in [Records -> Row]
      /\ Continues(rows, A)
      /\ \A r \in Records : Says(rows, A, r, last, Effective[r])
      /\ \A m \in A : m.compaction # None => NamedBy(m, A)
    BY DEF GoesOn
<1>3. A \subseteq log /\ A \subseteq Mutation
    BY <1>1 DEF MutationsAfter
<1> HIDE DEF last, last2
<1>4. MutationsAfter(w)' = A \cup E
    <2>1. \A m \in E : m.id > w
        BY <1>1, <1>2
    <2>2. MutationsAfter(w)' = {m \in log' : m.id > w}
        BY DEF MutationsAfter
    <2>3. A = {m \in log : m.id > w}
        BY DEF MutationsAfter
    <2> HIDE DEF A
    <2> QED
        BY <1>1, <2>1, <2>2, <2>3
<1> HIDE DEF A
<1>5. Continues(rows, A \cup E)
    <2>1. ASSUME NEW m \in A
          PROVE  Says(rows, A \cup E, m.rid, m.id - 1, m.before)
        <3> DEFINE k == m.id - 1
        <3>1. Says(rows, A, m.rid, k, m.before)
            BY <1>2, <2>1 DEF Continues
        <3>2. k \in Nat /\ k <= k /\ \A n \in E : n.id > k
            BY <1>1, <1>3, <2>1
        <3> HIDE DEF k
        <3>3. Says(rows, A \cup E, m.rid, k, m.before)
            BY <1>1, <1>3, <3>1, <3>2, SaysExtends
        <3> QED
            BY <3>3 DEF k
    <2>2. ASSUME NEW m \in E
          PROVE  Says(rows, A \cup E, m.rid, m.id - 1, m.before)
        <3> DEFINE k == m.id - 1
        <3>1. Says(rows, A, m.rid, last, m.before)
            BY <1>1, <1>2, <2>2 DEF Writes
        <3>2. /\ k \in Nat /\ last <= k
              /\ \A n \in A : ~(n.id > last)
              /\ \A n \in E : n.rid = m.rid => n.id > k
            BY <1>1, <1>3, <2>2 DEF Writes
        <3> HIDE DEF k
        <3>3. Says(rows, A \cup E, m.rid, k, m.before)
            BY <1>1, <1>3, <3>1, <3>2, SaysExtends
        <3> QED
            BY <3>3 DEF k
    <2> QED
        BY <2>1, <2>2 DEF Continues
<1>6. ASSUME NEW r \in Records
      PROVE  Says(rows, A \cup E, r, last2, Effective'[r])
    <2>1. ASSUME NEW m \in E, m.rid = r
          PROVE  Says(rows, A \cup E, r, last2, Effective'[r])
        <3>1. m.after = Effective'[r] /\ m.id <= last2
            BY <1>1, <2>1 DEF Writes
        <3>2. \A n \in E : n.rid = r => n.id <= m.id
            BY <1>1, <2>1 DEF Writes
        <3>3. \A n \in A : n.id <= m.id
            BY <1>1, <1>3, <2>1
        <3> QED
            BY <2>1, <3>1, <3>2, <3>3 DEF Says
    <2>2. ASSUME \A m \in E : m.rid # r
          PROVE  Says(rows, A \cup E, r, last2, Effective'[r])
        <3>1. Effective'[r] = Effective[r]
            BY <2>2 DEF Writes
        <3>2. Says(rows, A, r, last, Effective[r])
            BY <1>2
        <3>3. \A n \in A : ~(n.id > last)
            BY <1>1, <1>3
        <3>4. Says(rows, A \cup E, r, last2, Effective[r])
            BY <1>1, <1>3, <2>2, <3>2, <3>3, SaysExtends
        <3> QED
            BY <3>1, <3>4
    <2> QED
        BY <2>1, <2>2
<1>7. ASSUME NEW m \in A \cup E, m.compaction # None
      PROVE  /\ archive'[m.compaction][m.rid] = m.before
             /\ receipts'[m.compaction].rolled[m.rid] = m.id
             /\ \A r \in RolledIds(m.compaction)' :
                    \E n \in A \cup E : n.compaction = m.compaction /\ n.rid = r
    <2>1. CASE m \in E
        <3>1. NamedBy(m, E)'
            BY <1>7, <2>1 DEF Explains
        <3> QED
            BY <3>1 DEF NamedBy
    <2>2. CASE m \in A
        <3>1. NamedBy(m, A) /\ m.compaction \in Existing
            BY <1>2, <1>3, <1>7, <2>2 DEF StoreInv, ReceiptsInv, ReceiptsAreNamed, Rollups
        <3>2. /\ receipts'[m.compaction].rolled = receipts[m.compaction].rolled
              /\ archive'[m.compaction] = archive[m.compaction]
            BY <3>1 DEF Explains
        <3>3. RolledIds(m.compaction)' = RolledIds(m.compaction)
            BY <3>2 DEF RolledIds
        <3> QED
            BY <3>1, <3>2, <3>3 DEF NamedBy
    <2> QED
        BY <1>7, <2>1, <2>2
<1>8. w <= last2
    BY <1>1, <1>2
<1> QED
    <2>1. MutationsAfter(w)' = A \cup E
        BY <1>4
    <2>2. w \in Nat /\ w <= LastMutationID'
        BY <1>2, <1>8 DEF last2
    <2>3. Continues(rows, MutationsAfter(w))'
        BY <1>5, <2>1 DEF Continues, Says
    <2>4. \A r \in Records :
            Says(rows, MutationsAfter(w), r, LastMutationID, Effective[r])'
        BY <1>6, <2>1 DEF Says, last2
    <2>5. \A m \in MutationsAfter(w)' :
            m.compaction # None => NamedBy(m, MutationsAfter(w))'
        BY <1>7, <2>1 DEF NamedBy
    <2> QED
        BY <1>2, <2>2, <2>3, <2>4, <2>5 DEF GoesOn

\* A step that writes keeps the invariant.
LEMMA EntriesKept ==
    ASSUME StoreInv, EntriesInv, TypeInv', StepWrites
    PROVE  EntriesInv'
<1>1. PICK E : Writes(E) /\ Explains(E)
    BY DEF StepWrites
<1> DEFINE last == LastMutationID
           last2 == LastMutationID'
<1>2. /\ log \subseteq Mutation /\ E \subseteq Mutation /\ log' = log \cup E
      /\ last \in Nat /\ last2 \in Nat /\ last <= last2
      /\ \A m \in log : m.id \in Nat \ {0} /\ m.id <= last
      /\ \A m \in E : m.id \in Nat \ {0} /\ m.rid \in Records /\ m.id > last /\ m.id <= last2
    BY <1>1, WritesBeyond DEF StoreInv
<1>3. ASSUME NEW m \in log'
      PROVE  WellFormed(m)
    BY <1>1, <1>2, <1>3 DEF EntriesInv, Explains, WellFormed
<1>4. EndsEffective'
    <2> SUFFICES ASSUME NEW m \in log', Decides(m, LastMutationID)'
                 PROVE  m.after = Effective'[m.rid]
        BY DEF EndsEffective
    <2>1. CASE m \in E
        BY <1>1, <2>1 DEF Writes
    <2>2. CASE m \notin E
        <3>1. m \in log /\ m.id <= last /\ m.rid \in Records
            BY <1>2, <2>2 DEF Mutation
        <3>2. \A n \in log' : n.rid = m.rid /\ n.id <= last2 => n.id <= m.id
            BY DEF Decides
        <3> HIDE DEF last, last2
        <3>3. \A n \in E : n.rid # m.rid
            BY <1>2, <3>1, <3>2
        <3>4. \A n \in log : n.rid = m.rid /\ n.id <= last => n.id <= m.id
            BY <1>2, <3>2
        <3>5. Decides(m, LastMutationID)
            BY <3>1, <3>4 DEF Decides, last
        <3>6. m.after = Effective[m.rid]
            BY <3>1, <3>5 DEF EntriesInv, EndsEffective
        <3>7. Effective'[m.rid] = Effective[m.rid]
            BY <1>1, <3>1, <3>3 DEF Writes
        <3> QED
            BY <3>6, <3>7
    <2> QED
        BY <2>1, <2>2
<1>5. ASSUME NEW s \in snapshots'
      PROVE  ReplaysToEffective(s)'
    <2>1. ReplaysToEffective(s)
        <3>1. CASE s \in snapshots
            BY <3>1 DEF EntriesInv
        <3>2. CASE s \notin snapshots
            <4>1. s.watermark = last /\ s.content = current /\ s.moving = Moving
                BY <1>1, <3>2 DEF Writes, CapturedNow
            <4>2. MutationsAfter(s.watermark) = {}
                BY <1>2, <4>1 DEF MutationsAfter
            <4>3. AgreesWith(Effective, s)
                BY <4>1, MovingRows DEF AgreesWith
            <4>4. GoesOn(Effective, s.watermark)
                BY <1>2, <4>1, <4>2, EffectiveIsRows DEF GoesOn, Continues, Says
            <4> QED
                BY <4>3, <4>4 DEF ReplaysToEffective
        <3> QED
            BY <3>1, <3>2
    <2>2. PICK rows : AgreesWith(rows, s) /\ GoesOn(rows, s.watermark)
        BY <2>1 DEF ReplaysToEffective
    <2>3. GoesOn(rows, s.watermark)'
        BY <1>1, <2>2, RowsGoOn
    <2> QED
        BY <2>2, <2>3 DEF ReplaysToEffective, AgreesWith
<1>6. ASSUME LogIsComplete'
      PROVE  LogInv'
    <2>1. {m.id : m \in log'} = 1..last2
        BY <1>6 DEF LogIsComplete
    <2>2. {m.id : m \in log} = 1..last
        <3> HIDE DEF last, last2
        <3>1. \A m \in log : m.id \in 1..last
            BY <1>2
        <3>2. ASSUME NEW x \in 1..last
              PROVE  \E m \in log : m.id = x
            <4>1. x \in 1..last2
                BY <1>2
            <4>2. PICK m \in log' : m.id = x
                BY <2>1, <4>1
            <4>3. m \notin E
                BY <1>2, <4>2
            <4> QED
                BY <1>2, <4>2, <4>3
        <3> QED
            BY <3>1, <3>2
    <2>3. IInv
        BY <2>2 DEF LogIsComplete, EntriesInv, IInv
    <2> QED
        BY <1>1, <2>3, LogKept
<1> QED
    BY <1>3, <1>4, <1>5, <1>6 DEF EntriesInv

-----------------------------------------------------------------------------
(***************************************************************************)
(* Pruning under the rule. Snapshots go, or entries while nothing is       *)
(* archived; with care, entries no snapshot reads, and not all of them.    *)
(***************************************************************************)
LEMMA PruneSnapshotsKeepsStore ==
    ASSUME StoreInv, TypeInv', NEW l \in Leaders, NEW keepCount \in 0..MaxCaptured,
           PruneSnapshots(l, keepCount)
    PROVE  StoreInv' /\ Effective' = Effective /\ StepWrites
<1>1. /\ UNCHANGED <<fence, leaderVars>> /\ UNCHANGED ContentVars
      /\ snapshots' \subseteq snapshots
    BY DEF PruneSnapshots, ContentVars
<1>2. /\ Existing' = Existing /\ Archived' = Archived /\ Rollups' = Rollups
      /\ Effective' = Effective
    BY <1>1, ReceiptsSame
<1>3. LeaseInv'
    BY <1>1, <1>2, LeadsSame DEF StoreInv, LeaseInv, OneAtATime, leaderVars
<1>4. ReceiptsInv'
    BY <1>1, ReceiptsInvSame DEF StoreInv
<1>5. StepWrites
    BY <1>1, <1>2, WritesNothing DEF ContentVars
<1> QED
    BY <1>2, <1>3, <1>4, <1>5 DEF StoreInv

\* Entries go while nothing is archived, with or without care.
LEMMA IdlePruneKeepsStore ==
    ASSUME StoreInv, TypeInv', Archived = {}, Effective = current, log' \subseteq log,
           UNCHANGED <<fence, current, archive, receipts, leaderVars>>
    PROVE  /\ StoreInv' /\ Effective' = Effective
           /\ Existing' = Existing /\ Rollups' = Rollups
<1>1. Existing' = Existing /\ Archived' = Archived /\ Rollups' = Rollups
    BY DEF Existing, Archived, Rollups
<1>2. ReceiptsInv'
    <2>1. ReceiptsAreNamed'
        BY <1>1 DEF StoreInv, ReceiptsInv, ReceiptsAreNamed
    <2>2. RolledRowsStay' /\ RecoveryCanFinish'
        BY <1>1 DEF RolledRowsStay, RecoveryCanFinish
    <2> QED
        BY <2>1, <2>2 DEF ReceiptsInv
<1>3. LeaseInv'
    BY <1>1, LeadsSame DEF StoreInv, LeaseInv, OneAtATime, leaderVars
<1>4. Effective' = Effective
    BY <1>1, <1>2, EffectiveCasesNext DEF ReceiptsInv, TypeInv, EffectiveRows, RowsWhenIdle
<1> QED
    BY <1>1, <1>2, <1>3, <1>4 DEF StoreInv

LEMMA PruneMutationsKeepsStore ==
    ASSUME SoleWriter, StoreInv, TypeInv', NEW l \in Leaders,
           NEW retained \in SUBSET snapshots, PruneMutations(l, retained)
    PROVE  StoreInv' /\ Effective' = Effective
<1>1. /\ MayWrite(l) /\ CheckFencing(l) /\ log' \subseteq log
      /\ UNCHANGED <<fence, current, archive, receipts, leaderVars>>
    BY DEF PruneMutations
<1>2. Archived = {} /\ Effective = current
    BY <1>1, WritersFindNothingArchived
<1> QED
    BY <1>1, <1>2, IdlePruneKeepsStore

\* What pruning with care does: it cuts the log off above a mark that lies
\* below every snapshot.
CutsAt(p) ==
    /\ p \in Nat \ {0} /\ log' = {m \in log : m.id > p} /\ log' # {}
    /\ \A s \in snapshots : p <= s.watermark
    /\ Archived = {} /\ Effective = current
    /\ UNCHANGED <<fence, current, archive, receipts, snapshots, leaderVars>>

LEMMA CareCuts ==
    ASSUME SoleWriter, PrunesWithCare, StoreInv, NEW l \in Leaders,
           NEW retained \in SUBSET snapshots, PruneMutations(l, retained)
    PROVE  \E p : CutsAt(p)
<1> DEFINE pruned == PrunableMutations(retained) \ ProtectedMutations
           p == Min(MarksOf(retained))
<1>1. /\ MayWrite(l) /\ CheckFencing(l) /\ CareTaken(retained, pruned)
      /\ log' = log \ pruned
      /\ UNCHANGED <<fence, current, archive, receipts, snapshots, leaderVars>>
    BY DEF PruneMutations
<1>2. Archived = {} /\ Effective = current
    BY <1>1, WritersFindNothingArchived
<1>3. ProtectedMutations = {}
    BY <1>2 DEF ProtectedMutations
<1>4. retained = snapshots /\ (\A s \in snapshots : s.watermark # 0) /\ log # pruned
    BY <1>1 DEF CareTaken
<1>5. TypeInv
    BY DEF StoreInv
<1>6. /\ p \in Nat \ {0} /\ \A s \in snapshots : p <= s.watermark
      /\ log' = {m \in log : m.id > p}
    BY <1>3, <1>4, <1>5, PrunedIsOld, SmallestMark
<1>7. log' # {}
    <2>1. pruned \subseteq log
        BY DEF PrunableMutations
    <2> QED
        BY <1>1, <1>4, <2>1
<1> HIDE DEF p
<1> QED
    BY <1>1, <1>2, <1>6, <1>7 DEF CutsAt

LEMMA CutKeepsStore ==
    ASSUME StoreInv, TypeInv', NEW p, CutsAt(p)
    PROVE  /\ StoreInv'
           /\ LastMutationID' = LastMutationID /\ Effective' = Effective
           /\ Existing' = Existing /\ Rollups' = Rollups
<1>1. log' \subseteq log
    BY DEF CutsAt
<1>2. StoreInv' /\ Effective' = Effective /\ Existing' = Existing /\ Rollups' = Rollups
    BY <1>1, IdlePruneKeepsStore DEF CutsAt
<1>3. LastMutationID' = LastMutationID
    <2> DEFINE last == LastMutationID
               last2 == LastMutationID'
    <2>1. /\ last \in Nat /\ \A m \in log : m.id \in Nat /\ m.id <= last
          /\ log # {} => \E m \in log : m.id = last
        BY LastBounds DEF LastBoundsLog, StoreInv, TypeInv, TypeOK, Mutation
    <2>2. /\ last2 \in Nat /\ \A m \in log' : m.id <= last2
          /\ log' # {} => \E m \in log' : m.id = last2
        BY LastBoundsNext DEF LastBoundsLog
    <2> HIDE DEF last, last2
    <2>3. PICK n \in log' : n.id = last2
        BY <2>2 DEF CutsAt
    <2>4. PICK m \in log : m.id = last
        BY <1>1, <2>1, <2>3
    <2>5. m \in log'
        BY <1>1, <2>1, <2>3, <2>4 DEF CutsAt
    <2>6. last = last2
        BY <1>1, <2>1, <2>2, <2>3, <2>4, <2>5
    <2> QED
        BY <2>6 DEF last, last2
<1> QED
    BY <1>2, <1>3

LEMMA CutKeepsEntries ==
    ASSUME StoreInv, EntriesInv, TypeInv', NEW p, CutsAt(p)
    PROVE  EntriesInv'
<1> DEFINE last == LastMutationID
<1>1. /\ LastMutationID' = last /\ Effective' = Effective
      /\ Existing' = Existing /\ Rollups' = Rollups
    BY CutKeepsStore
<1>2. /\ p \in Nat /\ p >= 1 /\ log' \subseteq log
      /\ \A m \in log : m.id \in Nat /\ (m \in log' <=> m.id > p)
      /\ \A s \in snapshots : s.watermark \in Nat /\ p <= s.watermark
      /\ snapshots' = snapshots /\ archive' = archive /\ receipts' = receipts
    BY DEF CutsAt, StoreInv, TypeInv, TypeOK, Mutation, Snapshot
<1>3. \A m \in log' : WellFormed(m)
    BY <1>2 DEF EntriesInv
<1>4. EndsEffective'
    <2> SUFFICES ASSUME NEW m \in log', Decides(m, LastMutationID)'
                 PROVE  m.after = Effective'[m.rid]
        BY DEF EndsEffective
    <2>1. m \in log /\ m.id <= last /\ m.id > p
        BY <1>1, <1>2 DEF Decides
    <2>2. \A n \in log' : n.rid = m.rid /\ n.id <= last => n.id <= m.id
        BY <1>1 DEF Decides
    <2> HIDE DEF last
    <2>3. \A n \in log : n.rid = m.rid /\ n.id <= last => n.id <= m.id
        BY <1>2, <2>1, <2>2
    <2>4. Decides(m, LastMutationID)
        BY <2>1, <2>3 DEF Decides, last
    <2> QED
        BY <1>1, <2>1, <2>4 DEF EntriesInv, EndsEffective
<1>5. ASSUME NEW s \in snapshots'
      PROVE  ReplaysToEffective(s)'
    <2> DEFINE A == MutationsAfter(s.watermark)
    <2>1. s \in snapshots
        BY <1>2, <1>5
    <2>2. PICK rows : AgreesWith(rows, s) /\ GoesOn(rows, s.watermark)
        BY <2>1 DEF EntriesInv, ReplaysToEffective
    <2>3. MutationsAfter(s.watermark)' = A
        BY <1>2, <2>1 DEF MutationsAfter
    <2> HIDE DEF A
    <2>4. Continues(rows, MutationsAfter(s.watermark))'
        BY <2>2, <2>3 DEF GoesOn, Continues, Says, A
    <2>5. \A r \in Records :
            Says(rows, MutationsAfter(s.watermark), r, LastMutationID, Effective[r])'
        BY <1>1, <2>2, <2>3 DEF GoesOn, Says, A
    <2>6. \A m \in MutationsAfter(s.watermark)' :
            m.compaction # None => NamedBy(m, MutationsAfter(s.watermark))'
        <3>1. \A c : RolledIds(c)' = RolledIds(c)
            BY <1>2 DEF RolledIds
        <3> QED
            BY <1>2, <2>2, <2>3, <3>1 DEF GoesOn, NamedBy, A
    <2>7. GoesOn(rows, s.watermark)'
        BY <1>1, <2>2, <2>4, <2>5, <2>6 DEF GoesOn
    <2> QED
        BY <2>2, <2>7 DEF ReplaysToEffective, AgreesWith
<1>6. ~LogIsComplete'
    <2>1. SUFFICES ASSUME {m.id : m \in log'} = 1..LastMutationID'
                   PROVE  FALSE
        BY DEF LogIsComplete
    <2>2. LastMutationID' \in Nat /\ \A m \in log' : m.id <= LastMutationID'
        BY LastBoundsNext DEF LastBoundsLog
    <2>3. PICK n \in log' : TRUE
        BY DEF CutsAt
    <2>4. n.id \in Nat /\ n.id > p /\ n.id <= LastMutationID'
        BY <1>2, <2>2
    <2>5. 1 \in 1..LastMutationID'
        BY <1>2, <2>2, <2>4
    <2>6. PICK m \in log' : m.id = 1
        BY <2>1, <2>5
    <2> QED
        BY <1>2, <2>6
<1> QED
    BY <1>3, <1>4, <1>5, <1>6 DEF EntriesInv

LEMMA CareStep == SoleWriter /\ PrunesWithCare /\ CareInv /\ [RetentionNext]_vars => CareInv'
<1> SUFFICES ASSUME SoleWriter, PrunesWithCare, CareInv, [RetentionNext]_vars
             PROVE  CareInv'
    OBVIOUS
<1>1. RInv' /\ TypeInv'
    BY RStep DEF CareInv, RInv, FenceInv
<1>2. CASE [Next]_vars
    BY <1>1, <1>2, StoreStep, EntriesKept DEF CareInv
<1>3. ASSUME NEW l \in Leaders, NEW keepCount \in 0..MaxCaptured, PruneSnapshots(l, keepCount)
      PROVE  CareInv'
    BY <1>1, <1>3, PruneSnapshotsKeepsStore, EntriesKept DEF CareInv
<1>4. ASSUME NEW l \in Leaders, NEW retained \in SUBSET snapshots, PruneMutations(l, retained)
      PROVE  CareInv'
    BY <1>1, <1>4, CareCuts, CutKeepsStore, CutKeepsEntries DEF CareInv
<1> QED
    BY <1>2, <1>3, <1>4 DEF RetentionNext

LEMMA CareInvariant == SoleWriter /\ PrunesWithCare => (RetentionSpec => []CareInv)
<1> SUFFICES ASSUME SoleWriter, PrunesWithCare
             PROVE  RetentionSpec => []CareInv
    OBVIOUS
<1> QED
    BY CareInit, CareStep, PTL DEF RetentionSpec

-----------------------------------------------------------------------------
(***************************************************************************)
(* Replay. From any retained snapshot to any id it returns what snapshot   *)
(* and entries say, if it returns; it does where no record was moving.     *)
(***************************************************************************)
ReplaySays(s, k) ==
    ReplaySnapshot(s, k) # Aborted =>
        /\ ReplaySnapshot(s, k) \in [Records -> Row]
        /\ \A r \in Records :
               Says(s.content, MutationsAfter(s.watermark), r, k, ReplaySnapshot(s, k)[r])

LEMMA LogSound ==
    ASSUME CareInv
    PROVE  /\ LogIsSound
           /\ \A s \in snapshots : s.watermark \in Nat /\ s.content \in [Records -> Row]
    BY DEF CareInv, RInv, FenceInv, FencedLog, LogIsSound, UniqueIds, TypeInv, TypeOK, Snapshot

LEMMA SnapshotsReplay ==
    ASSUME CareInv, NEW s \in snapshots, NEW k \in Nat
    PROVE  ReplaySays(s, k)
<1>1. ReplayReturns(s.content, s.watermark, k)
    BY LogSound, ReplayFromReturns
<1> QED
    BY <1>1 DEF ReplayReturns, ReplaySays, ReplaySnapshot

LEMMA UnmovedGoesOn ==
    ASSUME CareInv, NEW s \in snapshots, s.moving = {}
    PROVE  GoesOn(s.content, s.watermark)
<1>1. PICK rows : AgreesWith(rows, s) /\ GoesOn(rows, s.watermark)
    BY DEF CareInv, EntriesInv, ReplaysToEffective
<1>2. rows \in [Records -> Row] /\ s.content \in [Records -> Row]
    BY <1>1, LogSound DEF GoesOn
<1>3. rows = s.content
    BY <1>1, <1>2 DEF AgreesWith
<1> QED
    BY <1>1, <1>3

LEMMA UnmovedReplays ==
    ASSUME CareInv, NEW s \in snapshots, s.moving = {}, NEW k \in Nat
    PROVE  ReplaySnapshot(s, k) # Aborted
<1>1. /\ s.watermark \in Nat /\ s.content \in [Records -> Row]
      /\ Continues(s.content, MutationsAfter(s.watermark))
      /\ \A m \in MutationsAfter(s.watermark) : m.compaction # None =>
             m.compaction \in Existing /\ NamedBy(m, MutationsAfter(s.watermark))
    BY UnmovedGoesOn DEF GoesOn, MutationsAfter, CareInv, StoreInv, ReceiptsInv,
                         ReceiptsAreNamed, Rollups
<1>2. \A m \in log : WellFormed(m)
    BY DEF CareInv, EntriesInv
<1> QED
    BY <1>1, <1>2, LogSound, ReplayFromSucceeds DEF ReplaySnapshot

LEMMA LastIsNat == CareInv => /\ LastMutationID \in Nat
                              /\ \A m \in log : m.id \in Nat /\ m.id <= LastMutationID
    BY LastBounds DEF CareInv, StoreInv, TypeInv, TypeOK, Mutation, LastBoundsLog

LEMMA Faithful == CareInv => ReplayIsFaithful
<1> SUFFICES ASSUME CareInv, LogIsComplete, NEW s \in snapshots,
                    NEW k \in s.watermark .. LastMutationID
             PROVE  /\ s.moving = {} => ReplaySnapshot(s, k) # Aborted
                    /\ ReplaySnapshot(s, k) # Aborted => \A r \in Records :
                           \/ LogSays(r, k, ReplaySnapshot(s, k)[r])
                           \/ AsCaptured(s, r, ReplaySnapshot(s, k))
    BY DEF ReplayIsFaithful
<1>0. k \in Nat
    BY LogSound, LastIsNat
<1> SUFFICES ASSUME ReplaySnapshot(s, k) # Aborted, NEW r \in Records,
                    ~AsCaptured(s, r, ReplaySnapshot(s, k))
             PROVE  LogSays(r, k, ReplaySnapshot(s, k)[r])
    BY <1>0, UnmovedReplays
<1> DEFINE w == s.watermark
           E == MutationsAfter(w)
           b == ReplaySnapshot(s, k)[r]
<1>1. w \in Nat /\ k \in Nat /\ w <= k
    BY LogSound, LastIsNat
<1>2. Says(s.content, E, r, k, b)
    BY <1>1, SnapshotsReplay DEF ReplaySays
<1>3. LogSays(r, w, s.content[r]) \/ b # s.content[r]
    BY DEF CareInv, EntriesInv, LogInv, SnapshotsMatchLog, AsCaptured
<1>4. /\ \A m \in log : m.id \in Nat
      /\ E = {m \in log : m.id > w}
    BY LastIsNat DEF MutationsAfter
<1> HIDE DEF b, E, w
<1>5. CASE b = s.content[r] /\ \A m \in E : m.rid = r => m.id > k
    <2>1. \A m \in log : m.rid = r /\ m.id <= k => m.id <= w
        BY <1>1, <1>4, <1>5
    <2>2. CASE b = Absent /\ \A m \in log : m.rid = r => m.id > w
        <3>1. \A m \in log : m.rid = r => m.id > k
            BY <1>1, <1>4, <2>1, <2>2
        <3> QED
            BY <1>2, <2>2, <3>1 DEF LogSays, b
    <2>3. ASSUME NEW m \in log, Decides(m, w), m.rid = r, m.after = b
          PROVE  LogSays(r, k, b)
        <3>1. m.id <= k /\ \A n \in log : n.rid = m.rid /\ n.id <= k => n.id <= m.id
            BY <1>1, <1>4, <2>1, <2>3 DEF Decides
        <3> QED
            BY <2>3, <3>1 DEF LogSays, Decides
    <2>4. LogSays(r, k, b)
        BY <1>3, <1>5, <2>2, <2>3 DEF LogSays, b
    <2> QED
        BY <1>2, <2>4 DEF b
<1>6. ASSUME NEW m \in E, m.rid = r, m.id <= k, m.after = b,
             \A n \in E : n.rid = r /\ n.id <= k => n.id <= m.id
      PROVE  LogSays(r, k, b)
    <2>1. m \in log /\ \A n \in log : n.rid = m.rid /\ n.id <= k => n.id <= m.id
        BY <1>1, <1>4, <1>6
    <2> QED
        BY <1>6, <2>1 DEF LogSays, Decides
<1> QED
    BY <1>2, <1>5, <1>6 DEF Says, b

LEMMA Reconstructs == CareInv => ReplayReconstructsCurrent
<1> SUFFICES ASSUME CareInv, NEW s \in snapshots
             PROVE  LET rows == ReplaySnapshot(s, LastMutationID)
                    IN /\ s.moving = {} => rows = Effective
                       /\ rows # Aborted => \A r \in Records :
                              rows[r] = Effective[r] \/ AsCaptured(s, r, rows)
    BY DEF ReplayReconstructsCurrent
<1> DEFINE rows == ReplaySnapshot(s, LastMutationID)
           E == MutationsAfter(s.watermark)
           last == LastMutationID
<1>1. last \in Nat
    BY LastIsNat
<1>2. rows # Aborted => /\ rows \in [Records -> Row]
                        /\ \A r \in Records : Says(s.content, E, r, last, rows[r])
    BY <1>1, SnapshotsReplay DEF ReplaySays
<1>3. PICK then : AgreesWith(then, s) /\ GoesOn(then, s.watermark)
    BY DEF CareInv, EntriesInv, ReplaysToEffective
<1>4. \A r \in Records : Says(then, E, r, last, Effective[r])
    BY <1>3 DEF GoesOn
<1>5. E \subseteq Mutation /\ UniqueIds(E)
    BY LogSound DEF LogIsSound, MutationsAfter, UniqueIds, TypeInv, TypeOK
<1> HIDE DEF rows, E, last
<1>6. ASSUME rows # Aborted, NEW r \in Records
      PROVE  rows[r] = Effective[r] \/ AsCaptured(s, r, rows)
    <2>1. CASE Says(then, E, r, last, rows[r])
        BY <1>1, <1>4, <1>5, <2>1, SaysOneBody
    <2>2. CASE rows[r] = s.content[r] /\ \A m \in E : m.rid = r => m.id > last
        <3>1. CASE r \in s.moving
            BY <2>2, <3>1 DEF AsCaptured
        <3>2. CASE then[r] = s.content[r]
            <4>1. Says(then, E, r, last, rows[r])
                BY <2>2, <3>2 DEF Says
            <4> QED
                BY <1>1, <1>4, <1>5, <4>1, SaysOneBody
        <3> QED
            BY <1>3, <3>1, <3>2 DEF AgreesWith
    <2> QED
        BY <1>2, <1>6, <2>1, <2>2, SaysOfOtherRows
<1>7. ASSUME s.moving = {}
      PROVE  rows = Effective
    <2>1. rows # Aborted
        BY <1>1, <1>7, UnmovedReplays DEF rows, last
    <2>2. \A r \in Records : rows[r] = Effective[r]
        BY <1>6, <1>7, <2>1 DEF AsCaptured
    <2> QED
        BY <1>2, <2>1, <2>2, EffectiveIsRows DEF CareInv, Effective
<1> QED
    BY <1>6, <1>7 DEF rows

\* Where a replay resumed from a checkpoint and the whole one return, both
\* return what the snapshot and the entries after it say at the last id.
LEMMA CheckpointAgrees == CareInv => CheckpointNeverLies
<1> SUFFICES ASSUME CareInv, NEW s \in snapshots, NEW k \in 1..LastMutationID,
                    k >= s.watermark \/ s.moving = {},
                    ReplayFromCheckpoint(s, k, LastMutationID) # Aborted,
                    Reconstruction(s) # Aborted
             PROVE  ReplayFromCheckpoint(s, k, LastMutationID) = Reconstruction(s)
    BY DEF CheckpointNeverLies
<1> DEFINE last == LastMutationID
           whole == Reconstruction(s)
           rows == ReplaySnapshot(s, k)
           R == ReplayFrom(rows, k, last)
           E == MutationsAfter(s.watermark)
           F == MutationsAfter(k)
<1>1. /\ last \in Nat /\ k \in Nat /\ k <= last /\ s.watermark \in Nat
      /\ \A m \in log : m.id \in Nat /\ m.id <= last
    BY LastIsNat, LogSound
<1>2. rows # Aborted /\ ReplayFromCheckpoint(s, k, LastMutationID) = R
    BY <1>1 DEF ReplayFromCheckpoint
<1>3. /\ rows \in [Records -> Row]
      /\ \A r \in Records : Says(s.content, E, r, k, rows[r])
    BY <1>1, <1>2, SnapshotsReplay DEF ReplaySays
<1>4. /\ whole \in [Records -> Row]
      /\ \A r \in Records : Says(s.content, E, r, last, whole[r])
    BY <1>1, SnapshotsReplay DEF ReplaySays, Reconstruction
<1>5. /\ E = {m \in log : m.id > s.watermark} /\ E \subseteq Mutation /\ UniqueIds(E)
      /\ F = {m \in log : m.id > k}
    BY LogSound DEF LogIsSound, MutationsAfter, UniqueIds, TypeInv, TypeOK
<1>6. /\ R \in [Records -> Row]
      /\ \A r \in Records : Says(rows, F, r, last, R[r])
    <2>1. ReplayReturns(rows, k, last)
        BY <1>1, <1>3, LogSound, ReplayFromReturns
    <2> QED
        BY <1>2, <2>1 DEF ReplayReturns
<1>7. \A m \in log : Decides(m, last) => m.after = Effective[m.rid]
    BY DEF CareInv, EntriesInv, EndsEffective
<1>8. s.moving = {} => whole = Effective
    BY Reconstructs DEF ReplayReconstructsCurrent, Reconstruction
<1> HIDE DEF last, whole, rows, R, E, F
<1>9. ASSUME NEW r \in Records
      PROVE  R[r] = whole[r]
    <2>1. CASE R[r] = rows[r] /\ \A m \in F : m.rid = r => m.id > last
        <3>1. \A m \in E : m.rid = r /\ m.id > k => m.id > last
            BY <1>5, <2>1
        <3>2. Says(s.content, E, r, last, rows[r])
            BY <1>1, <1>3, <1>5, <3>1, SaysLater
        <3> QED
            BY <1>1, <1>4, <1>5, <2>1, <3>2, SaysOneBody
    <2>2. ASSUME NEW m \in F, m.rid = r, m.id <= last, m.after = R[r],
                 \A n \in F : n.rid = r /\ n.id <= last => n.id <= m.id
          PROVE  R[r] = whole[r]
        <3>1. m \in log /\ \A n \in log : n.rid = r /\ n.id <= last => n.id <= m.id
            BY <1>1, <1>5, <2>2
        <3>2. CASE k >= s.watermark
            <4>1. m \in E /\ \A n \in E : n.rid = r /\ n.id <= last => n.id <= m.id
                BY <1>1, <1>5, <2>2, <3>1, <3>2
            <4>2. Says(s.content, E, r, last, R[r])
                BY <2>2, <4>1 DEF Says
            <4> QED
                BY <1>1, <1>4, <1>5, <4>2, SaysOneBody
        <3>3. CASE s.moving = {}
            <4>1. Decides(m, last)
                BY <2>2, <3>1 DEF Decides
            <4> QED
                BY <1>7, <1>8, <2>2, <3>1, <3>3, <4>1
        <3> QED
            BY <3>2, <3>3
    <2>3. Says(rows, F, r, last, R[r])
        BY <1>6
    <2> QED
        BY <2>1, <2>2, <2>3 DEF Says
<1> QED
    BY <1>2, <1>4, <1>6, <1>9 DEF whole

\* On a log that was never pruned, replay from any retained snapshot to any
\* mutation id succeeds and returns the rows the log had just then; from one
\* captured in the middle of a rollup it may abort, and every row it returns is
\* right but those that were moving, which may be as they were captured.
THEOREM ReplaysAreFaithful ==
    SoleWriter /\ PrunesWithCare => (RetentionSpec => []ReplayIsFaithful)
    BY Faithful, CareInvariant, PTL

\* Pruned or not, replay from any retained snapshot to the end of the log
\* returns the effective rows, with the same exception.
THEOREM ReplaysReconstruct ==
    SoleWriter /\ PrunesWithCare => (RetentionSpec => []ReplayReconstructsCurrent)
    BY Reconstructs, CareInvariant, PTL

\* A replay resumed from a checkpoint and the whole one, where both return,
\* return the same rows.
THEOREM CheckpointsNeverLie ==
    SoleWriter /\ PrunesWithCare => (RetentionSpec => []CheckpointNeverLies)
    BY CheckpointAgrees, CareInvariant, PTL

\* Pruning that names every retained snapshot, none of them without a
\* watermark, changes the outcome of no replay (PrunableMutationIDs).
THEOREM CarefulPruningKeepsReplay ==
    PrunesWithCare => (RetentionSpec => PruningKeepsReplay)
<1> SUFFICES ASSUME PrunesWithCare
             PROVE  RetentionSpec => PruningKeepsReplay
    OBVIOUS
<1>1. RInv /\ RInv' /\ [RetentionNext]_vars =>
          [\A l \in Leaders, retained \in SUBSET snapshots :
              PruneMutations(l, retained) => PruningIsInvisible(retained)]_vars
    <2>1. ASSUME NEW l \in Leaders, NEW retained \in SUBSET snapshots,
                 PruneMutations(l, retained)
          PROVE  \A s \in retained : s.watermark # 0
        BY <2>1 DEF PruneMutations, CareTaken
    <2> QED
        BY <2>1, PruningUnseen DEF PruningIsInvisible
<1> QED
    BY <1>1, RInit, RStep, PTL DEF RetentionSpec, PruningKeepsReplay

\* A new mutation is new for every retained snapshot: ids are read off the
\* log, so this needs that pruning leaves the last entry (nextMutationID).
THEOREM NewMutationsAreSeen ==
    SoleWriter /\ PrunesWithCare => (RetentionSpec => NewMutationsAreReplayed)
<1> SUFFICES ASSUME SoleWriter, PrunesWithCare
             PROVE  RetentionSpec => NewMutationsAreReplayed
    OBVIOUS
<1>1. CareInv /\ CareInv' /\ [RetentionNext]_vars =>
          [\A m \in log' \ log : \A s \in snapshots : m.id > s.watermark]_vars
    <2> SUFFICES ASSUME CareInv, CareInv', [RetentionNext]_vars,
                        NEW m \in log' \ log, NEW s \in snapshots
                 PROVE  m.id > s.watermark
        OBVIOUS
    <2>1. [Next]_vars
        BY DEF RetentionNext, PruneSnapshots, PruneMutations
    <2>2. PICK E : Writes(E)
        BY <2>1, StoreStep DEF CareInv, StepWrites
    <2>3. m \in E /\ m.id > LastMutationID /\ m.id \in Nat
        BY <2>2 DEF Writes, Mutation
    <2>4. s.watermark \in Nat /\ s.watermark <= LastMutationID
        BY DEF CareInv, EntriesInv, ReplaysToEffective, GoesOn
    <2> QED
        BY <2>3, <2>4, LastIsNat
<1> QED
    BY <1>1, CareInvariant, PTL DEF RetentionSpec, NewMutationsAreReplayed

-----------------------------------------------------------------------------
(***************************************************************************)
(* What the rule gives the store without retention it gives it with        *)
(* retention, however its callers prune: pruning is one more step that     *)
(* RecordMap does not see.                                                 *)
(***************************************************************************)
LEMMA RuleStep ==
    ASSUME SoleWriter, RInv, StoreInv, [RetentionNext]_vars
    PROVE  /\ RInv' /\ StoreInv'
           /\ \/ [Next]_vars
              \/ UNCHANGED <<current, archive>> /\ Effective' = Effective
<1>1. RInv' /\ TypeInv'
    BY RStep DEF RInv, FenceInv
<1>2. CASE [Next]_vars
    BY <1>1, <1>2, StoreStep
<1>3. ASSUME NEW l \in Leaders, NEW keepCount \in 0..MaxCaptured, PruneSnapshots(l, keepCount)
      PROVE  StoreInv' /\ UNCHANGED <<current, archive>> /\ Effective' = Effective
    BY <1>1, <1>3, PruneSnapshotsKeepsStore DEF PruneSnapshots
<1>4. ASSUME NEW l \in Leaders, NEW retained \in SUBSET snapshots, PruneMutations(l, retained)
      PROVE  StoreInv' /\ UNCHANGED <<current, archive>> /\ Effective' = Effective
    BY <1>1, <1>4, PruneMutationsKeepsStore DEF PruneMutations
<1> QED
    BY <1>1, <1>2, <1>3, <1>4 DEF RetentionNext

LEMMA RuleWithRetention == SoleWriter => (RetentionSpec => [](RInv /\ StoreInv))
<1> SUFFICES ASSUME SoleWriter
             PROVE  RetentionSpec => [](RInv /\ StoreInv)
    OBVIOUS
<1>1. RInv /\ StoreInv /\ [RetentionNext]_vars => RInv' /\ StoreInv'
    BY RuleStep
<1> QED
    BY <1>1, RInit, StoreInit, PTL DEF RetentionSpec

\* Whatever is pruned, what the second step of an archived receipt verifies is
\* still there, a reactivation's too, and one receipt at most waits for it.
THEOREM RecoveryWithRetention ==
    SoleWriter => (RetentionSpec => [](RecoveryCanFinish /\ OneAtATime))
<1>1. StoreInv => RecoveryCanFinish /\ OneAtATime
    BY DEF StoreInv, ReceiptsInv, LeaseInv
<1> QED
    BY <1>1, RuleWithRetention, PTL

\* With retention too a live row is deleted only when some rollup has archived
\* its very body.
THEOREM RowsLeaveWithRetention == SoleWriter => (RetentionSpec => RowsLeaveIntoArchive)
<1> SUFFICES ASSUME SoleWriter
             PROVE  RetentionSpec => RowsLeaveIntoArchive
    OBVIOUS
<1>1. (RInv /\ StoreInv) /\ [RetentionNext]_vars =>
          [\A r \in Records :
              current[r] # Absent /\ current'[r] = Absent =>
                  \E c \in ReceiptIds : archive[c][r] = current[r]]_vars
    BY RuleStep, RowsKept DEF StoreInv
<1> QED
    BY <1>1, RuleWithRetention, PTL DEF RetentionSpec, RowsLeaveIntoArchive

\* With retention too the store is a map whose records leave it atomically.
THEOREM RetentionImplementsRecordMap == SoleWriter => (RetentionSpec => ImplementsRecordMap)
<1> SUFFICES ASSUME SoleWriter
             PROVE  RetentionSpec => ImplementsRecordMap
    OBVIOUS
<1>1. (RInv /\ StoreInv) /\ [RetentionNext]_vars => [Map!Next]_(Map!vars)
    <2> SUFFICES ASSUME RInv, StoreInv, [RetentionNext]_vars
                 PROVE  [Map!Next]_(Map!vars)
        OBVIOUS
    <2>1. CASE [Next]_vars
        BY <2>1, RuleStep, MapStep DEF StoreInv
    <2>2. CASE UNCHANGED archive /\ Effective' = Effective
        BY <2>2 DEF Map!vars, RolledOut
    <2> QED
        BY <2>1, <2>2, RuleStep
<1> QED
    BY <1>1, RuleWithRetention, MapInit, PTL DEF RetentionSpec, ImplementsRecordMap, Map!Spec
=============================================================================
