------------------------- MODULE DurableStoreProofs -------------------------
(***************************************************************************)
(* What TLAPS proves of the durable store, for any finite sets of records  *)
(* and receipt ids, any bodies, any leaders and any bounds, whether or not *)
(* the callers follow the rule of ResumeCompactions.                       *)
(***************************************************************************)
EXTENDS DurableStoreProperties, FiniteSetTheorems, TLAPS

-----------------------------------------------------------------------------
(***************************************************************************)
(* Type correctness. LastMutationID is a CHOOSE: it is a mutation id only  *)
(* as long as the log has a last entry, so the inductive invariant carries *)
(* one along.                                                              *)
(***************************************************************************)
LogHasLast == log # {} => \E m \in log : \A n \in log : n.id <= m.id

TypeInv == TypeOK /\ LogHasLast

\* The id the next entry gets is new, and larger than every id in the log.
LEMMA LastMutationIDBounds ==
    ASSUME TypeInv
    PROVE  /\ LastMutationID \in Nat
           /\ \A m \in log : m.id <= LastMutationID
<1> DEFINE ids == {m.id : m \in log}
<1>1. CASE log = {}
    BY <1>1 DEF LastMutationID
<1>2. CASE log # {}
    <2>1. PICK m \in log : \A n \in log : n.id <= m.id
        BY <1>2 DEF TypeInv, LogHasLast
    <2>2. \A n \in log : n.id \in Nat
        BY DEF TypeInv, TypeOK, Mutation
    <2>3. m.id \in ids /\ \A y \in ids : m.id >= y
        BY <2>1, <2>2
    <2>4. Max(ids) \in ids /\ \A y \in ids : Max(ids) >= y
        BY <2>3 DEF Max
    <2>5. LastMutationID = Max(ids)
        BY <1>2 DEF LastMutationID
    <2> QED
        BY <2>2, <2>4, <2>5
<1> QED
    BY <1>1, <1>2

\* What a caller appends is a well-formed entry.
LEMMA EntryType ==
    ASSUME TypeInv, NEW l \in Leaders, NEW op \in {"add", "update", "remove"},
           NEW r \in Records, NEW after \in Row
    PROVE  /\ Entry(l, op, r, after) \in Mutation
           /\ Entry(l, op, r, after).id = LastMutationID + 1
           /\ Entry(l, op, r, after).token = token[l]
    BY LastMutationIDBounds DEF Entry, NextMutationID, Mutation, TypeInv, TypeOK

\* A log that grows by entries of which one has the largest id keeps a last
\* entry.
LEMMA LastKept ==
    ASSUME TypeInv, NEW E, E \subseteq Mutation,
           \A m \in E : m.id > LastMutationID,
           E # {} => \E m \in E : \A n \in E : n.id <= m.id,
           log' = log \cup E
    PROVE  LogHasLast'
<1> \A m \in log : m.id \in Nat
    BY DEF TypeInv, TypeOK, Mutation
<1> \A m \in E : m.id \in Nat
    BY DEF Mutation
<1>1. CASE E = {}
    BY <1>1 DEF TypeInv, LogHasLast
<1>2. CASE E # {}
    <2>1. PICK m \in E : \A n \in E : n.id <= m.id
        BY <1>2
    <2>2. \A n \in log : n.id <= m.id
        BY LastMutationIDBounds
    <2> QED
        BY <2>1, <2>2 DEF LogHasLast
<1> QED
    BY <1>1, <1>2

LEMMA TypeInit == Init => TypeInv
    BY SentinelsAreFresh
    DEF Init, TypeInv, TypeOK, LogHasLast, NoRows, Row, Mutation, Snapshot

\* One entry, then one row (AppendAdd, AppendUpdate, CompareAndSwapRecord).
LEMMA TypeAppend ==
    ASSUME TypeInv, NEW l \in Leaders, NEW op \in {"add", "update", "remove"},
           NEW r \in Records, NEW b \in Row, AppendThenApply(l, op, r, b)
    PROVE  TypeInv'
<1> DEFINE e == Entry(l, op, r, b)
<1>1. e \in Mutation /\ e.id > LastMutationID
    BY EntryType, LastMutationIDBounds
<1>2. log' = log \cup {e}
    BY DEF AppendThenApply
<1>3. LogHasLast'
    <2> DEFINE E == {e}
    <2>1. E \subseteq Mutation /\ \A m \in E : m.id > LastMutationID
        BY <1>1
    <2>2. E # {} => \E m \in E : \A n \in E : n.id <= m.id
        <3> e.id <= e.id
            BY <1>1 DEF Mutation
        <3> HIDE DEF e
        <3> QED
            OBVIOUS
    <2>3. log' = log \cup E
        BY <1>2
    <2> HIDE DEF E
    <2> QED
        BY <2>1, <2>2, <2>3, LastKept
<1>4. TypeOK'
    <2> current' \in [Records -> Row]
        BY DEF AppendThenApply, TypeInv, TypeOK
    <2> log' \subseteq Mutation
        BY <1>1, <1>2 DEF TypeInv, TypeOK
    <2> QED
        BY DEF AppendThenApply, TypeInv, TypeOK, leaderVars
<1> QED
    BY <1>3, <1>4 DEF TypeInv

\* The snapshot of CaptureSnapshot and of a rollup.
LEMMA TypeSnapshot ==
    ASSUME TypeInv, NEW l \in Leaders, InsertSnapshot(l)
    PROVE  captured' \in Nat /\ snapshots' \subseteq Snapshot
<1>1. Moving \subseteq Records
    BY DEF Moving, RolledIds
<1> QED
    BY <1>1, LastMutationIDBounds DEF InsertSnapshot, Snapshot, TypeInv, TypeOK

\* The receipt of a rollup and of a reactivation.
LEMMA TypeReceipt ==
    ASSUME TypeInv, NEW l \in Leaders, NEW c \in ReceiptIds,
           NEW kind \in {"rollup", "restore_reactivation"},
           NEW rolled \in [Records -> Nat], NEW appended \in [Records -> Row],
           InsertReceipt(l, c, kind, rolled, appended)
    PROVE  /\ receipts' \in [ReceiptIds -> Receipt \cup {NoReceipt}]
           /\ pending' \in [Leaders -> ReceiptIds \cup {None}]
<1>1. Cardinality(Existing) \in Nat
    BY KeysAreFinite, FS_Subset, FS_CardinalityType DEF Existing
<1> QED
    BY <1>1 DEF InsertReceipt, Receipt, TypeInv, TypeOK

\* A rollup's entries have consecutive ids, in any order.
LEMMA TypeArchive ==
    ASSUME TypeInv, NEW l \in Leaders, NEW c \in ReceiptIds,
           NEW S \in SUBSET Records, ArchiveCompaction(l, c, S)
    PROVE  TypeInv'
<1> DEFINE n == Cardinality(S)
           bodies == [r \in Records |-> IF r \in S THEN current[r] ELSE Absent]
<1>1. n \in Nat
    BY KeysAreFinite, FS_Subset, FS_CardinalityType
<1>2. PICK id \in Bijection(S, NextMutationID .. LastMutationID + n) :
        LET ids == [r \in Records |-> IF r \in S THEN id[r] ELSE 0]
        IN /\ archive' = [archive EXCEPT ![c] = bodies]
           /\ log' = log \cup {[Entry(l, "remove", r, Absent) EXCEPT
                                    !.id = id[r], !.compaction = c] : r \in S}
           /\ InsertReceipt(l, c, "rollup", ids, bodies)
    BY DEF ArchiveCompaction
<1> DEFINE E == {[Entry(l, "remove", r, Absent) EXCEPT
                     !.id = id[r], !.compaction = c] : r \in S}
           ids == [r \in Records |-> IF r \in S THEN id[r] ELSE 0]
<1>3. \A r \in S : id[r] \in Nat /\ id[r] > LastMutationID /\ id[r] <= LastMutationID + n
    <2>1. id \in [S -> NextMutationID .. LastMutationID + n]
        BY <1>2 DEF Bijection, Injection
    <2> HIDE DEF n
    <2> QED
        BY <1>1, <2>1, LastMutationIDBounds DEF NextMutationID
<1>4. E \subseteq Mutation
    <2> SUFFICES ASSUME NEW r \in S
                 PROVE  [Entry(l, "remove", r, Absent) EXCEPT
                            !.id = id[r], !.compaction = c] \in Mutation
        OBVIOUS
    <2>1. Entry(l, "remove", r, Absent) \in Mutation
        BY EntryType DEF Row
    <2>2. id[r] \in Nat \ {0}
        BY <1>3, LastMutationIDBounds
    <2> QED
        BY <2>1, <2>2 DEF Mutation
<1>5. \A m \in E : \E r \in S : m.id = id[r]
    <2> SUFFICES ASSUME NEW r \in S
                 PROVE  [Entry(l, "remove", r, Absent) EXCEPT
                            !.id = id[r], !.compaction = c].id = id[r]
        OBVIOUS
    <2> QED
        BY DEF Entry
<1>6. S # {} => \E m \in E : m.id = LastMutationID + n
    <2> SUFFICES ASSUME S # {}
                 PROVE  \E m \in E : m.id = LastMutationID + n
        OBVIOUS
    <2>1. LastMutationID + n \in NextMutationID .. LastMutationID + n
        BY <1>1, <1>3, LastMutationIDBounds DEF NextMutationID
    <2>2. PICK r \in S : id[r] = LastMutationID + n
        BY <1>2, <2>1 DEF Bijection, Surjection
    <2> WITNESS [Entry(l, "remove", r, Absent) EXCEPT
                     !.id = id[r], !.compaction = c] \in E
    <2> QED
        BY <2>2 DEF Entry
<1>7. LogHasLast'
    <2>1. \A m \in E : m.id > LastMutationID
        BY <1>3, <1>5
    <2>2. E # {} => \E m \in E : \A k \in E : k.id <= m.id
        <3>1. \A k \in E : k.id <= LastMutationID + n
            BY <1>3, <1>5
        <3>2. E # {} => S # {}
            OBVIOUS
        <3> HIDE DEF E
        <3> QED
            BY <1>6, <3>1, <3>2
    <2>3. log' = log \cup E
        BY <1>2
    <2> HIDE DEF E
    <2> QED
        BY <1>4, <2>1, <2>2, <2>3, LastKept
<1>8. archive' \in [ReceiptIds -> [Records -> Row]]
    BY <1>2 DEF TypeInv, TypeOK, Row
<1>9. /\ receipts' \in [ReceiptIds -> Receipt \cup {NoReceipt}]
      /\ pending' \in [Leaders -> ReceiptIds \cup {None}]
    <2>1. ids \in [Records -> Nat] /\ bodies \in [Records -> Row]
        BY <1>3 DEF TypeInv, TypeOK, Row
    <2>2. InsertReceipt(l, c, "rollup", ids, bodies)
        BY <1>2
    <2> HIDE DEF ids, bodies
    <2> QED
        BY <2>1, <2>2, TypeReceipt
<1>10. captured' \in Nat /\ snapshots' \subseteq Snapshot
    BY TypeSnapshot DEF ArchiveCompaction
<1>11. log' \subseteq Mutation
    BY <1>2, <1>4 DEF TypeInv, TypeOK
<1>12. UNCHANGED <<fence, current, token, recovered>>
    BY DEF ArchiveCompaction
<1> QED
    BY <1>7, <1>8, <1>9, <1>10, <1>11, <1>12 DEF TypeInv, TypeOK

LEMMA TypeReactivation ==
    ASSUME TypeInv, NEW l \in Leaders, NEW c \in ReceiptIds,
           NEW r \in Records, NEW b \in Bodies,
           AppendReactivationMutation(l, c, r, b)
    PROVE  TypeInv'
<1> DEFINE e == [Entry(l, "add", r, b) EXCEPT !.restore = c]
           ids == [x \in Records |-> IF x = r THEN NextMutationID ELSE 0]
<1>1. e \in Mutation /\ e.id > LastMutationID
    <2>1. Entry(l, "add", r, b) \in Mutation
        BY EntryType DEF Row
    <2>2. e.id = LastMutationID + 1
        BY DEF Entry, NextMutationID
    <2> QED
        BY <2>1, <2>2, LastMutationIDBounds DEF Mutation
<1>2. log' = log \cup {e}
    BY DEF AppendReactivationMutation
<1>3. LogHasLast'
    <2> DEFINE E == {e}
    <2>1. E \subseteq Mutation /\ \A m \in E : m.id > LastMutationID
        BY <1>1
    <2>2. E # {} => \E m \in E : \A n \in E : n.id <= m.id
        <3> e.id <= e.id
            BY <1>1 DEF Mutation
        <3> HIDE DEF e
        <3> QED
            OBVIOUS
    <2>3. log' = log \cup E
        BY <1>2
    <2> HIDE DEF E
    <2> QED
        BY <2>1, <2>2, <2>3, LastKept
<1>4. /\ receipts' \in [ReceiptIds -> Receipt \cup {NoReceipt}]
      /\ pending' \in [Leaders -> ReceiptIds \cup {None}]
    <2>1. ids \in [Records -> Nat] /\ NoRows \in [Records -> Row]
        BY LastMutationIDBounds DEF NextMutationID, NoRows, Row
    <2>2. InsertReceipt(l, c, "restore_reactivation", ids, NoRows)
        BY DEF AppendReactivationMutation
    <2> HIDE DEF ids
    <2> QED
        BY <2>1, <2>2, TypeReceipt
<1>5. log' \subseteq Mutation
    BY <1>1, <1>2 DEF TypeInv, TypeOK
<1> QED
    BY <1>3, <1>4, <1>5 DEF AppendReactivationMutation, TypeInv, TypeOK

\* The second step of a receipt changes rows and the receipt's phase.
LEMMA TypeSecondStep ==
    ASSUME TypeInv, NEW l \in Leaders, SecondStep(l)
    PROVE  TypeInv'
<1>1. ASSUME Commit(l), pending[l] \in Existing
      PROVE  /\ receipts' \in [ReceiptIds -> Receipt \cup {NoReceipt}]
             /\ pending' \in [Leaders -> ReceiptIds \cup {None}]
    <2>1. receipts[pending[l]] \in Receipt
        BY <1>1 DEF Existing, TypeInv, TypeOK
    <2>2. [receipts[pending[l]] EXCEPT !.phase = "committed"] \in Receipt
        BY <2>1 DEF Receipt
    <2> QED
        BY <1>1, <2>2 DEF Commit, TypeInv, TypeOK
<1>2. CASE FinishCompactionSwap(l)
    <2>1. current' \in [Records -> Row]
        BY <1>2 DEF FinishCompactionSwap, TypeInv, TypeOK, Row
    <2>2. Commit(l) /\ pending[l] \in Existing
        BY <1>2 DEF FinishCompactionSwap, Rollups
    <2> QED
        BY <1>1, <1>2, <2>1, <2>2
        DEF FinishCompactionSwap, TypeInv, TypeOK, LogHasLast
<1>3. CASE FinishReactivationApply(l)
    <2>1. current' \in [Records -> Row]
        BY <1>3 DEF FinishReactivationApply, TypeInv, TypeOK, Mutation
    <2>2. Commit(l) /\ pending[l] \in Existing
        BY <1>3 DEF FinishReactivationApply
    <2> QED
        BY <1>1, <1>3, <2>1, <2>2
        DEF FinishReactivationApply, TypeInv, TypeOK, LogHasLast
<1>4. CASE SecondStepFails(l)
    BY <1>4 DEF SecondStepFails, TypeInv, TypeOK, LogHasLast, storeVars
<1> QED
    BY <1>2, <1>3, <1>4 DEF SecondStep

LEMMA TypeStep == TypeInv /\ [Next]_vars => TypeInv'
<1> SUFFICES ASSUME TypeInv, [Next]_vars
             PROVE  TypeInv'
    OBVIOUS
<1> USE DEF TypeInv, TypeOK, LogHasLast
<1>1. ASSUME NEW l \in Leaders, AcquireLease(l) PROVE TypeInv'
    BY <1>1 DEF AcquireLease
<1>2. ASSUME NEW l \in Leaders, ShareLease(l) PROVE TypeInv'
    BY <1>2 DEF ShareLease, storeVars
<1>3. ASSUME NEW l \in Leaders, CaptureSnapshot(l) PROVE TypeInv'
    BY <1>3, TypeSnapshot DEF CaptureSnapshot, leaderVars
<1>4. ASSUME NEW l \in Leaders, Interrupt(l) PROVE TypeInv'
    BY <1>4 DEF Interrupt, storeVars
<1>5. ASSUME NEW l \in Leaders, NEW c \in ReceiptIds,
             RetryReceipt(l, c) \/ ResumeNext(l, c)
      PROVE  TypeInv'
    BY <1>5 DEF RetryReceipt, ResumeNext, storeVars
<1>6. ASSUME NEW l \in Leaders, ResumeDone(l) PROVE TypeInv'
    BY <1>6 DEF ResumeDone, storeVars
<1>7. CASE UNCHANGED vars
    BY <1>7 DEF vars
<1>8. ASSUME NEW l \in Leaders, NEW r \in Records, NEW e \in Bodies, NEW b \in Bodies,
             \/ AppendAdd(l, r, b)
             \/ AppendUpdate(l, r, b)
             \/ CompareAndSwapRecord(l, r, e, b)
      PROVE  TypeInv'
    <2> b \in Row
        BY DEF Row
    <2> HIDE DEF TypeInv
    <2> QED
        BY <1>8, TypeAppend DEF AppendAdd, AppendUpdate, CompareAndSwapRecord
<1> HIDE DEF TypeInv
<1> QED
    BY <1>1, <1>2, <1>3, <1>4, <1>5, <1>6, <1>7, <1>8,
       TypeArchive, TypeReactivation, TypeSecondStep
    DEF Next

\* Every state of the store is well-typed.
THEOREM TypeCorrect == Spec => []TypeOK
<1>1. TypeInv => TypeOK
    BY DEF TypeInv
<1> QED
    BY <1>1, TypeInit, TypeStep, PTL DEF Spec

-----------------------------------------------------------------------------
(***************************************************************************)
(* Fencing. FencedLog alone is not inductive: it says nothing of how the   *)
(* tokens in the log compare with the one the next writer is checked       *)
(* against.                                                                *)
(***************************************************************************)
TokensFromLeases == /\ \A l \in Leaders : token[l] <= fence
                    /\ \A m \in log : m.token <= fence

FenceInv == TypeInv /\ TokensFromLeases /\ FencedLog

\* Entries with new ids and the token of an unfenced writer keep the log
\* fenced: that token is the current one.
LEMMA FencedAppend ==
    ASSUME FenceInv, NEW l \in Leaders, CheckFencing(l),
           NEW E, E \subseteq Mutation,
           \A m \in E : m.id > LastMutationID /\ m.token = token[l],
           \A m, n \in E : m.id = n.id => m = n,
           log' = log \cup E, fence' = fence, token' = token
    PROVE  TokensFromLeases' /\ FencedLog'
<1>1. token[l] = fence
    <2>1. token[l] \in Nat /\ fence \in Nat
        BY DEF FenceInv, TypeInv, TypeOK
    <2>2. token[l] >= fence /\ token[l] <= fence
        BY DEF CheckFencing, FenceInv, TokensFromLeases
    <2> QED
        BY <2>1, <2>2
<1>2. \A m \in log \cup E : m.id \in Nat /\ m.token \in Nat
    BY DEF FenceInv, TypeInv, TypeOK, Mutation
<1>3. \A m \in log : m.id <= LastMutationID
    BY LastMutationIDBounds DEF FenceInv
<1>4. LastMutationID \in Nat /\ fence \in Nat
    BY LastMutationIDBounds DEF FenceInv, TypeInv, TypeOK
<1>5. TokensFromLeases'
    BY <1>1, <1>2, <1>4 DEF FenceInv, TokensFromLeases
<1>6. ASSUME NEW m \in log \cup E, NEW n \in log \cup E
      PROVE  (m.id < n.id => m.token <= n.token) /\ (m.id = n.id => m = n)
    <2>1. CASE m \in log /\ n \in log
        BY <2>1 DEF FenceInv, FencedLog
    <2>2. CASE m \in log /\ n \in E
        BY <1>1, <1>2, <1>3, <1>4, <2>2 DEF FenceInv, TokensFromLeases
    <2>3. CASE m \in E /\ n \in log
        BY <1>2, <1>3, <1>4, <2>3
    <2>4. CASE m \in E /\ n \in E
        BY <1>1, <1>2, <1>4, <2>4
    <2> QED
        BY <2>1, <2>2, <2>3, <2>4
<1> QED
    BY <1>5, <1>6 DEF FencedLog

LEMMA FenceInit == Init => FenceInv
    BY TypeInit DEF Init, FenceInv, TokensFromLeases, FencedLog

\* The actions that append to the log; the others leave it, and only leases
\* change tokens.
LEMMA FenceStep == FenceInv /\ [Next]_vars => FenceInv'
<1> SUFFICES ASSUME FenceInv, [Next]_vars
             PROVE  TokensFromLeases' /\ FencedLog'
    BY TypeStep DEF FenceInv
<1>1. CASE UNCHANGED <<log, fence, token>>
    BY <1>1 DEF FenceInv, TokensFromLeases, FencedLog
<1>2. ASSUME NEW l \in Leaders, AcquireLease(l) \/ ShareLease(l)
      PROVE  TokensFromLeases' /\ FencedLog'
    <2>1. \/ fence' = fence /\ token' = [token EXCEPT ![l] = fence]
          \/ fence' = fence + 1 /\ token' = [token EXCEPT ![l] = fence + 1]
        BY <1>2 DEF AcquireLease, ShareLease, storeVars
    <2>2. log' = log
        BY <1>2 DEF AcquireLease, ShareLease, storeVars
    <2>3. fence \in Nat /\ token \in [Leaders -> Nat] /\ \A m \in log : m.token \in Nat
        BY DEF FenceInv, TypeInv, TypeOK, Mutation
    <2> QED
        BY <2>1, <2>2, <2>3 DEF FenceInv, TokensFromLeases, FencedLog
<1>3. ASSUME NEW l \in Leaders, NEW op \in {"add", "update", "remove"},
             NEW r \in Records, NEW b \in Row, AppendThenApply(l, op, r, b)
      PROVE  TokensFromLeases' /\ FencedLog'
    <2> DEFINE E == {Entry(l, op, r, b)}
    <2>1. /\ E \subseteq Mutation
          /\ \A m \in E : m.id > LastMutationID /\ m.token = token[l]
          /\ \A m, n \in E : m.id = n.id => m = n
        BY EntryType, LastMutationIDBounds DEF FenceInv
    <2>2. /\ CheckFencing(l)
          /\ log' = log \cup E /\ fence' = fence /\ token' = token
        BY <1>3 DEF AppendThenApply, leaderVars
    <2> HIDE DEF E
    <2> QED
        BY <2>1, <2>2, FencedAppend
<1>4. ASSUME NEW l \in Leaders, NEW c \in ReceiptIds, NEW r \in Records,
             NEW b \in Bodies, AppendReactivationMutation(l, c, r, b)
      PROVE  TokensFromLeases' /\ FencedLog'
    <2> DEFINE e == [Entry(l, "add", r, b) EXCEPT !.restore = c]
               E == {e}
    <2>1. Entry(l, "add", r, b) \in Mutation
        BY EntryType DEF FenceInv, Row
    <2>2. e.id = LastMutationID + 1 /\ e.token = token[l] /\ e \in Mutation
        BY <2>1 DEF Entry, NextMutationID, Mutation
    <2>3. /\ E \subseteq Mutation
          /\ \A m \in E : m.id > LastMutationID /\ m.token = token[l]
          /\ \A m, n \in E : m.id = n.id => m = n
        BY <2>2, LastMutationIDBounds DEF FenceInv
    <2>4. /\ CheckFencing(l)
          /\ log' = log \cup E /\ fence' = fence /\ token' = token
        BY <1>4 DEF AppendReactivationMutation
    <2> HIDE DEF E
    <2> QED
        BY <2>3, <2>4, FencedAppend
<1>5. ASSUME NEW l \in Leaders, NEW c \in ReceiptIds, NEW S \in SUBSET Records,
             ArchiveCompaction(l, c, S)
      PROVE  TokensFromLeases' /\ FencedLog'
    <2> DEFINE n == Cardinality(S)
    <2>1. n \in Nat
        BY KeysAreFinite, FS_Subset, FS_CardinalityType
    <2>2. PICK id \in Bijection(S, NextMutationID .. LastMutationID + n) :
            log' = log \cup {[Entry(l, "remove", r, Absent) EXCEPT
                                 !.id = id[r], !.compaction = c] : r \in S}
        BY <1>5 DEF ArchiveCompaction
    <2> DEFINE E == {[Entry(l, "remove", r, Absent) EXCEPT
                         !.id = id[r], !.compaction = c] : r \in S}
    <2>3. /\ \A r \in S : id[r] \in Nat \ {0} /\ id[r] > LastMutationID
          /\ \A r, q \in S : id[r] = id[q] => r = q
        <3>1. /\ id \in [S -> NextMutationID .. LastMutationID + n]
              /\ \A r, q \in S : id[r] = id[q] => r = q
            BY <2>2 DEF Bijection, Injection, IsInjective
        <3> HIDE DEF n
        <3> QED
            BY <2>1, <3>1, LastMutationIDBounds DEF NextMutationID, FenceInv
    <2>4. ASSUME NEW r \in S
          PROVE  LET m == [Entry(l, "remove", r, Absent) EXCEPT
                              !.id = id[r], !.compaction = c]
                 IN m \in Mutation /\ m.id = id[r] /\ m.token = token[l]
        <3>1. Entry(l, "remove", r, Absent) \in Mutation
            BY EntryType DEF FenceInv, Row
        <3> QED
            BY <2>3, <3>1 DEF Entry, Mutation
    <2>5. /\ E \subseteq Mutation
          /\ \A m \in E : m.id > LastMutationID /\ m.token = token[l]
          /\ \A m, k \in E : m.id = k.id => m = k
        <3>1. \A m \in E : /\ m \in Mutation
                           /\ m.id > LastMutationID
                           /\ m.token = token[l]
            BY <2>3, <2>4
        <3>2. ASSUME NEW r \in S, NEW q \in S,
                     [Entry(l, "remove", r, Absent) EXCEPT
                         !.id = id[r], !.compaction = c].id
                     = [Entry(l, "remove", q, Absent) EXCEPT
                           !.id = id[q], !.compaction = c].id
              PROVE  r = q
            BY <2>3, <2>4, <3>2
        <3>3. \A m, k \in E : m.id = k.id => m = k
            BY <3>2
        <3> HIDE DEF E
        <3> QED
            BY <3>1, <3>3
    <2>6. /\ CheckFencing(l)
          /\ log' = log \cup E /\ fence' = fence /\ token' = token
        BY <1>5, <2>2 DEF ArchiveCompaction
    <2> HIDE DEF E
    <2> QED
        BY <2>5, <2>6, FencedAppend
<1>6. ASSUME NEW l \in Leaders, NEW r \in Records, NEW e \in Bodies, NEW b \in Bodies,
             \/ AppendAdd(l, r, b)
             \/ AppendUpdate(l, r, b)
             \/ CompareAndSwapRecord(l, r, e, b)
      PROVE  TokensFromLeases' /\ FencedLog'
    <2>1. b \in Row
        BY DEF Row
    <2> QED
        BY <1>3, <1>6, <2>1 DEF AppendAdd, AppendUpdate, CompareAndSwapRecord
<1>7. ASSUME NEW l \in Leaders,
             CaptureSnapshot(l) \/ SecondStep(l) \/ Interrupt(l) \/ ResumeDone(l)
      PROVE  UNCHANGED <<log, fence, token>>
    BY <1>7
    DEF CaptureSnapshot, SecondStep, FinishCompactionSwap, FinishReactivationApply,
        SecondStepFails, Interrupt, ResumeDone, storeVars, leaderVars
<1>8. ASSUME NEW l \in Leaders, NEW c \in ReceiptIds,
             RetryReceipt(l, c) \/ ResumeNext(l, c)
      PROVE  UNCHANGED <<log, fence, token>>
    BY <1>8 DEF RetryReceipt, ResumeNext, storeVars
<1>9. CASE UNCHANGED vars
    BY <1>1, <1>9 DEF vars
<1> QED
    BY <1>1, <1>2, <1>4, <1>5, <1>6, <1>7, <1>8, <1>9 DEF Next

\* Fencing holds whatever the callers do: no superseded leader writes after
\* its successor, and no two entries share an id.
THEOREM Fencing == Spec => []FencedLog
<1>1. FenceInv => FencedLog
    BY DEF FenceInv
<1> QED
    BY <1>1, FenceInit, FenceStep, PTL DEF Spec

-----------------------------------------------------------------------------
(***************************************************************************)
(* What the steps of rollups and reactivations do to receipts and log,     *)
(* with or without the rule.                                               *)
(***************************************************************************)
\* A first transaction adds one archived receipt under a new id.
LEMMA ReceiptInserted ==
    ASSUME TypeInv, NEW l \in Leaders, NEW c \in ReceiptIds,
           NEW kind \in {"rollup", "restore_reactivation"},
           NEW rolled \in [Records -> Nat], NEW appended \in [Records -> Row],
           InsertReceipt(l, c, kind, rolled, appended)
    PROVE  /\ c \notin Existing
           /\ Existing' = Existing \cup {c}
           /\ Archived' = Archived \cup {c}
           /\ Rollups' = IF kind = "rollup" THEN Rollups \cup {c} ELSE Rollups
           /\ receipts'[c].rolled = rolled /\ receipts'[c].appended = appended
           /\ \A d \in ReceiptIds : d # c => receipts'[d] = receipts[d]
           /\ pending' = [pending EXCEPT ![l] = c]
<1> DEFINE new == [kind |-> kind, rolled |-> rolled, appended |-> appended,
                   token |-> token[l], phase |-> "archived",
                   at |-> Cardinality(Existing) + 1]
<1>1. /\ receipts[c] = NoReceipt
      /\ receipts' = [receipts EXCEPT ![c] = new]
      /\ pending' = [pending EXCEPT ![l] = c]
    BY DEF InsertReceipt
<1>2. new.kind = kind /\ new.rolled = rolled /\ new.appended = appended /\ new.phase = "archived"
    OBVIOUS
<1>3. new # NoReceipt
    <2>1. Cardinality(Existing) \in Nat
        BY KeysAreFinite, FS_Subset, FS_CardinalityType DEF Existing
    <2>2. token[l] \in Nat
        BY DEF TypeInv, TypeOK
    <2>3. new \in Receipt
        BY <2>1, <2>2 DEF Receipt
    <2> QED
        BY <2>3, NoReceiptIsNoRow
<1> HIDE DEF new
<1>4. /\ receipts'[c] = new
      /\ \A d \in ReceiptIds : d # c => receipts'[d] = receipts[d]
    BY <1>1 DEF TypeInv, TypeOK
<1>5. c \notin Existing
    BY <1>1 DEF Existing
<1>6. Existing' = Existing \cup {c}
    BY <1>3, <1>4 DEF Existing
<1>7. \A d \in Existing : receipts'[d] = receipts[d]
    BY <1>4, <1>5 DEF Existing
<1>8. Archived' = Archived \cup {c}
    <2>1. \A d \in Existing : receipts'[d].phase = receipts[d].phase
        BY <1>7
    <2>2. receipts'[c].phase = "archived"
        BY <1>2, <1>4
    <2> QED
        BY <1>5, <1>6, <2>1, <2>2 DEF Archived
<1>9. Rollups' = IF kind = "rollup" THEN Rollups \cup {c} ELSE Rollups
    <2>1. \A d \in Existing : receipts'[d].kind = receipts[d].kind
        BY <1>7
    <2>2. receipts'[c].kind = kind
        BY <1>2, <1>4
    <2> QED
        BY <1>5, <1>6, <2>1, <2>2 DEF Rollups
<1> QED
    BY <1>1, <1>2, <1>4, <1>5, <1>6, <1>8, <1>9

\* A second transaction moves one receipt to "committed", and nothing else of
\* any receipt.
LEMMA ReceiptCommitted ==
    ASSUME TypeInv, NEW l \in Leaders, pending[l] \in Existing, Commit(l)
    PROVE  /\ Existing' = Existing /\ Rollups' = Rollups
           /\ Archived' = Archived \ {pending[l]}
           /\ \A c \in Existing : /\ receipts'[c].rolled = receipts[c].rolled
                                  /\ receipts'[c].appended = receipts[c].appended
           /\ pending' = [pending EXCEPT ![l] = None]
<1> DEFINE p == pending[l]
           old == receipts[p]
           new == [old EXCEPT !.phase = "committed"]
<1>1. old \in Receipt /\ p \in ReceiptIds
    BY DEF TypeInv, TypeOK, Existing
<1>2. /\ new \in Receipt /\ new.phase = "committed" /\ new.kind = old.kind
      /\ new.rolled = old.rolled /\ new.appended = old.appended
    BY <1>1 DEF Receipt
<1>3. /\ receipts'[p] = new
      /\ \A c \in ReceiptIds : c # p => receipts'[c] = receipts[c]
      /\ pending' = [pending EXCEPT ![l] = None]
    BY <1>1 DEF Commit, TypeInv, TypeOK
<1> HIDE DEF new
<1>4. Existing' = Existing
    <2>1. new # NoReceipt
        BY <1>2, NoReceiptIsNoRow
    <2>2. \A c \in ReceiptIds : receipts'[c] # NoReceipt <=> receipts[c] # NoReceipt
        BY <1>3, <2>1 DEF Existing
    <2> QED
        BY <2>2 DEF Existing
<1>5. \A c \in Existing : /\ receipts'[c].kind = receipts[c].kind
                          /\ receipts'[c].rolled = receipts[c].rolled
                          /\ receipts'[c].appended = receipts[c].appended
    BY <1>2, <1>3 DEF Existing
<1>6. Rollups' = Rollups
    BY <1>4, <1>5 DEF Rollups
<1>7. Archived' = Archived \ {p}
    <2>1. \A c \in Existing \ {p} : receipts'[c].phase = receipts[c].phase
        BY <1>3 DEF Existing
    <2>2. receipts'[p].phase # "archived"
        BY <1>2, <1>3
    <2> QED
        BY <1>4, <2>1, <2>2 DEF Archived
<1> QED
    BY <1>3, <1>4, <1>5, <1>6, <1>7

\* The remove entries E of the rollup c of S: one per record, with the ids
\* the receipt names.
RollupEntries(l, c, S, id, E) ==
    /\ E \subseteq Mutation
    /\ \A m \in E : /\ m.rid \in S /\ m.id = id[m.rid] /\ m.id > LastMutationID
                    /\ m.id <= LastMutationID + Cardinality(S)
                    /\ m.op = "remove"
                    /\ m.before = current[m.rid] /\ m.after = Absent
                    /\ m.compaction = c /\ m.restore = None /\ m.token = token[l]
    /\ \A r \in S : \E m \in E : m.rid = r
    /\ \A m, n \in E : m.rid = n.rid => m = n

RolledIdsOf(S, id) == [r \in Records |-> IF r \in S THEN id[r] ELSE 0]
RolledBodies(S) == [r \in Records |-> IF r \in S THEN current[r] ELSE Absent]

\* What ArchiveCompaction appends.
LEMMA RollupAppends ==
    ASSUME TypeInv, NEW l \in Leaders, NEW c \in ReceiptIds, NEW S \in SUBSET Records,
           ArchiveCompaction(l, c, S)
    PROVE  \E id \in [S -> Nat \ {0}] : \E E \in SUBSET Mutation :
              /\ RollupEntries(l, c, S, id, E)
              /\ log' = log \cup E
              /\ archive' = [archive EXCEPT ![c] = RolledBodies(S)]
              /\ InsertReceipt(l, c, "rollup", RolledIdsOf(S, id), RolledBodies(S))
<1> DEFINE n == Cardinality(S)
<1>1. n \in Nat
    BY KeysAreFinite, FS_Subset, FS_CardinalityType
<1>2. PICK id \in Bijection(S, NextMutationID .. LastMutationID + n) :
        /\ archive' = [archive EXCEPT ![c] = RolledBodies(S)]
        /\ log' = log \cup {[Entry(l, "remove", r, Absent) EXCEPT
                                 !.id = id[r], !.compaction = c] : r \in S}
        /\ InsertReceipt(l, c, "rollup", RolledIdsOf(S, id), RolledBodies(S))
    BY DEF ArchiveCompaction, RolledBodies, RolledIdsOf
<1> DEFINE e(r) == [Entry(l, "remove", r, Absent) EXCEPT !.id = id[r], !.compaction = c]
           E == {e(r) : r \in S}
<1>3. \A r \in S : id[r] \in Nat \ {0} /\ id[r] > LastMutationID /\ id[r] <= LastMutationID + n
    <2>1. id \in [S -> NextMutationID .. LastMutationID + n]
        BY <1>2 DEF Bijection, Injection
    <2> HIDE DEF n
    <2> QED
        BY <1>1, <2>1, LastMutationIDBounds DEF NextMutationID
<1>4. id \in [S -> Nat \ {0}]
    BY <1>2, <1>3 DEF Bijection, Injection
<1>5. ASSUME NEW r \in S
      PROVE  /\ e(r) \in Mutation /\ e(r).id = id[r] /\ e(r).op = "remove"
             /\ e(r).rid = r /\ e(r).before = current[r] /\ e(r).after = Absent
             /\ e(r).compaction = c /\ e(r).restore = None /\ e(r).token = token[l]
    <2>1. Entry(l, "remove", r, Absent) \in Mutation
        BY EntryType DEF Row
    <2> QED
        BY <1>3, <2>1 DEF Entry, Mutation
<1>6. log' = log \cup E
    BY <1>2
<1> HIDE DEF e
<1>7. RollupEntries(l, c, S, id, E)
    <2>1. \A m \in E : m = e(m.rid) /\ m.rid \in S
        BY <1>5
    <2>2. \A r \in S : e(r) \in E /\ e(r).rid = r
        BY <1>5
    <2>3. E \subseteq Mutation
        BY <1>5
    <2> HIDE DEF E
    <2> QED
        BY <1>3, <1>5, <2>1, <2>2, <2>3 DEF RollupEntries
<1>8. E \in SUBSET Mutation
    BY <1>5
<1> HIDE DEF E
<1> QED
    BY <1>2, <1>4, <1>6, <1>7, <1>8

\* So its second step can verify it.
LEMMA RollupVerifies ==
    ASSUME TypeInv, NEW l \in Leaders, NEW c \in ReceiptIds, NEW S \in SUBSET Records,
           ArchiveCompaction(l, c, S),
           \A m \in log : m.compaction # None => m.compaction \in Rollups
    PROVE  RolledIds(c)' = S /\ VerifyArchiveForCompaction(c)'
<1>1. PICK id \in [S -> Nat \ {0}], E \in SUBSET Mutation :
        /\ RollupEntries(l, c, S, id, E)
        /\ log' = log \cup E
        /\ archive' = [archive EXCEPT ![c] = RolledBodies(S)]
        /\ InsertReceipt(l, c, "rollup", RolledIdsOf(S, id), RolledBodies(S))
    BY RollupAppends
<1> DEFINE ids == RolledIdsOf(S, id)
           bodies == RolledBodies(S)
<1>2. /\ ids \in [Records -> Nat] /\ bodies \in [Records -> Row]
      /\ \A r \in Records : ids[r] # 0 <=> r \in S
      /\ \A r \in S : ids[r] = id[r] /\ bodies[r] = current[r]
      /\ \A r \in Records : bodies[r] # Absent <=> r \in S
    <2>1. \A r \in S : current[r] # Absent
        BY DEF ArchiveCompaction, CanRoll
    <2> QED
        BY <2>1 DEF RolledIdsOf, RolledBodies, TypeInv, TypeOK, Row
<1>3. /\ c \notin Existing
      /\ receipts'[c].rolled = ids /\ receipts'[c].appended = bodies
    <2> HIDE DEF ids, bodies
    <2> QED
        BY <1>1, <1>2, ReceiptInserted DEF ids, bodies
<1>4. archive'[c] = bodies
    BY <1>1 DEF TypeInv, TypeOK
<1> HIDE DEF ids, bodies
<1>5. RolledIds(c)' = S
    BY <1>2, <1>3 DEF RolledIds
<1>6. \A m \in log \cup E : m.compaction = c => m \in E
    BY <1>3, SentinelsAreFresh DEF Rollups
<1>7. \A m \in E : m.op = "remove" /\ m.id = ids[m.rid] /\ m.before = bodies[m.rid]
    BY <1>1, <1>2 DEF RollupEntries
<1>8. \A r \in S : \E m \in E : m.compaction = c /\ m.rid = r
    BY <1>1 DEF RollupEntries
<1> QED
    BY <1>1, <1>2, <1>3, <1>4, <1>5, <1>6, <1>7, <1>8 DEF VerifyArchiveForCompaction
=============================================================================
