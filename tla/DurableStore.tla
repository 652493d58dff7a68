---------------------------- MODULE DurableStore ----------------------------
(***************************************************************************)
(* The storage engine of server/durablestate, for one workspace.           *)
(*                                                                         *)
(* Every write method of Store is one or two SQLite transactions, each of  *)
(* them atomic (withWriteTx, BEGIN IMMEDIATE): one action per transaction. *)
(* A rollup is two of them: archiveCompaction appends the archive, the     *)
(* remove entries and a receipt in phase "archived"; finishCompactionSwap  *)
(* deletes the rolled rows and moves the receipt to "committed".           *)
(* A reactivation is two as well. A crash, a cancelled context or another  *)
(* writer may come between the two.                                        *)
(*                                                                         *)
(* The callers are leaders: each holds the fencing token its last          *)
(* AcquireLease returned. SoleWriter says whether their writes follow a    *)
(* discipline the code does not enforce: a leader writes only after        *)
(* ResumeCompactions has returned, which its comment asks for after an     *)
(* election or a restart, and writes of one token do not overlap, which    *)
(* nothing asks for. Where it is FALSE, writers share the current token    *)
(* and write at any moment. Snapshots are captured at any moment anyway.   *)
(*                                                                         *)
(* A body stands for the kind and the canonical JSON of a record, and two  *)
(* hashes are equal exactly when their bodies are. Payload storage         *)
(* (inline or content_ref) is not told apart: content_store rows are never *)
(* deleted. Calls that return an error change nothing and are left out,    *)
(* except where the caller's own state changes.                            *)
(***************************************************************************)
EXTENDS Integers, FiniteSets, FiniteSetsExt, Functions

CONSTANTS Records,        \* record ids
          Bodies,         \* record bodies
          ReceiptIds,     \* compaction ids and restore ids: one key space
          Leaders,        \* callers of the store
          Absent,         \* no row, no before/after side
          None,           \* no compaction id, no restore id, nothing pending
          NoReceipt,      \* no row in compaction_receipts
          SoleWriter,     \* do writers recover first and take turns?
          MaxFence,       \* bound on elections
          MaxMutation,    \* bound on mutation ids
          MaxCaptured     \* bound on snapshots ever captured

ASSUME SentinelsAreFresh == /\ Absent \notin Bodies
                            /\ None \notin ReceiptIds
ASSUME KeysAreFinite == /\ IsFiniteSet(ReceiptIds)
                        /\ IsFiniteSet(Records)
ASSUME SoleWriterIsBoolean == SoleWriter \in BOOLEAN
ASSUME BoundsAreNat == /\ MaxFence \in Nat
                       /\ MaxMutation \in Nat
                       /\ MaxCaptured \in Nat

VARIABLES
    fence,        \* workspace_fencing.fencing_token, 0 before the first lease
    current,      \* current_state: the live rows
    log,          \* mutation_log: a set of entries, each with its id
    archive,      \* archive[c][r]: the body rolled out of r by compaction c
    receipts,     \* compaction_receipts of kind rollup and reactivation
    snapshots,    \* snapshots: content and mutation_log_watermark
    captured,     \* how many snapshots were ever captured
    token,        \* token[l]: the token leader l writes with
    pending,      \* pending[l]: the receipt whose second step l is about to run
    recovered     \* recovered[l]: l has seen ResumeCompactions find nothing

storeVars == <<fence, current, log, archive, receipts, snapshots, captured>>
leaderVars == <<token, pending, recovered>>
vars == <<fence, current, log, archive, receipts, snapshots, captured,
          token, pending, recovered>>

Row == Bodies \cup {Absent}
NoRows == [r \in Records |-> Absent]

Mutation == [id: Nat \ {0}, op: {"add", "update", "remove"}, rid: Records,
             before: Row, after: Row, compaction: ReceiptIds \cup {None},
             restore: ReceiptIds \cup {None}, token: Nat]

\* rolled[r] is the mutation id of r's entry, 0 when r is not in
\* rolled_records; appended stands for sha256_of_appended_bytes; at is the
\* place of the receipt in timestamp order.
Receipt == [kind: {"rollup", "restore_reactivation"}, rolled: [Records -> Nat],
            appended: [Records -> Row], token: Nat,
            phase: {"archived", "committed"}, at: Nat]

ASSUME NoReceiptIsNoRow == NoReceipt \notin Receipt

\* watermark 0 is the NULL watermark: mutation ids start at 1.
\* moving is history: the records in the middle of a rollup or reactivation
\* when the snapshot was captured.
Snapshot == [at: Nat, content: [Records -> Row], watermark: Nat, token: Nat,
             moving: SUBSET Records]

TypeOK ==
    /\ fence \in Nat
    /\ current \in [Records -> Row]
    /\ log \subseteq Mutation
    /\ archive \in [ReceiptIds -> [Records -> Row]]
    /\ receipts \in [ReceiptIds -> Receipt \cup {NoReceipt}]
    /\ snapshots \subseteq Snapshot
    /\ captured \in Nat
    /\ token \in [Leaders -> Nat]
    /\ pending \in [Leaders -> ReceiptIds \cup {None}]
    /\ recovered \in [Leaders -> BOOLEAN]

Init ==
    /\ fence = 0
    /\ current = NoRows
    /\ log = {}
    /\ archive = [c \in ReceiptIds |-> NoRows]
    /\ receipts = [c \in ReceiptIds |-> NoReceipt]
    /\ snapshots = {}
    /\ captured = 0
    /\ token = [l \in Leaders |-> 0]
    /\ pending = [l \in Leaders |-> None]
    /\ recovered = [l \in Leaders |-> FALSE]

-----------------------------------------------------------------------------
(***************************************************************************)
(* What the transactions read.                                             *)
(***************************************************************************)
\* Mutant: the previous lease is still good for one more write.
CheckFencingLate(l) == token[l] + 1 >= fence

CheckFencing(l) == token[l] >= fence

LastMutationID == IF log = {} THEN 0 ELSE Max({m.id : m \in log})
\* Mutant: the new id is the last one.
NextMutationIDReused == LastMutationID

NextMutationID == LastMutationID + 1

Existing == {c \in ReceiptIds : receipts[c] # NoReceipt}
Archived == {c \in Existing : receipts[c].phase = "archived"}
Rollups == {c \in Existing : receipts[c].kind = "rollup"}
RolledIds(c) == {r \in Records : receipts[c].rolled[r] # 0}

\* The records whose entry is in the log and whose row is still to follow.
Moving == UNION {RolledIds(c) : c \in Archived}

\* Mutant: an elected leader writes before it recovers.
MayWriteUnrecovered(l) == pending[l] = None /\ (SoleWriter => token[l] > 0)

\* A caller runs one write at a time, and, when it keeps the discipline,
\* starts one only as an elected leader that has recovered.
MayWrite(l) ==
    /\ pending[l] = None
    /\ SoleWriter => token[l] > 0 /\ recovered[l]

\* The entry a transaction of l appends for record r; before is the row's
\* stored body, none when there is no row.
Entry(l, op, r, after) ==
    [id |-> NextMutationID, op |-> op, rid |-> r,
     before |-> current[r], after |-> after,
     compaction |-> None, restore |-> None, token |-> token[l]]

\* VerifySetEquality leaves a list of live records without duplicates.
CanRoll(S) == \A r \in S : current[r] # Absent

\* Everything that must still be durable before step (d) may run: the archive
\* rows the receipt anchors, and exactly the remove entries it names.
VerifyArchiveForCompaction(c) ==
    /\ \A r \in Records : r \in RolledIds(c) <=> archive[c][r] # Absent
    /\ archive[c] = receipts[c].appended
    /\ \A m \in log : m.compaction = c =>
           /\ m.op = "remove"
           /\ m.id = receipts[c].rolled[m.rid]
           /\ m.before = archive[c][m.rid]
    /\ \A r \in RolledIds(c) : \E m \in log : m.compaction = c /\ m.rid = r

\* The one entry of a restore id, tied to its receipt.
IsReactivation(m, c) ==
    /\ {n \in log : n.restore = c} = {m}
    /\ receipts[c].rolled[m.rid] = m.id
    /\ m.op = "add"
    /\ m.compaction = None

-----------------------------------------------------------------------------
(***************************************************************************)
(* Leases and single-transaction writes.                                   *)
(***************************************************************************)
AcquireLease(l) ==
    /\ pending[l] = None
    /\ fence < MaxFence
    /\ fence' = fence + 1
    /\ token' = [token EXCEPT ![l] = fence + 1]
    /\ recovered' = [recovered EXCEPT ![l] = FALSE]
    /\ UNCHANGED <<current, log, archive, receipts, snapshots, captured, pending>>

\* Another goroutine of the leader's process, or a caller of
\* CurrentFencingToken, writes with the token of the current lease.
ShareLease(l) ==
    /\ ~SoleWriter
    /\ pending[l] = None
    /\ token[l] # fence
    /\ token' = [token EXCEPT ![l] = fence]
    /\ UNCHANGED <<storeVars, pending, recovered>>

\* One entry is appended, and only then the row is written.
AppendThenApply(l, op, r, b) ==
    /\ MayWrite(l)
    /\ CheckFencing(l)
    /\ NextMutationID <= MaxMutation
    /\ log' = log \cup {Entry(l, op, r, b)}
    /\ current' = [current EXCEPT ![r] = b]
    /\ UNCHANGED <<fence, archive, receipts, snapshots, captured, leaderVars>>

AppendAdd(l, r, b) ==
    /\ current[r] = Absent
    /\ AppendThenApply(l, "add", r, b)

AppendUpdate(l, r, b) ==
    /\ current[r] # Absent
    /\ AppendThenApply(l, "update", r, b)

CompareAndSwapRecord(l, r, expected, b) ==
    /\ current[r] = expected
    /\ AppendThenApply(l, "update", r, b)

\* Mutant: the watermark names the mutation about to be written.
InsertSnapshotEarly(l) ==
    /\ captured < MaxCaptured
    /\ captured' = captured + 1
    /\ snapshots' = snapshots \cup
           {[at |-> captured + 1, content |-> current,
             watermark |-> NextMutationID, token |-> token[l], moving |-> Moving]}

InsertSnapshot(l) ==
    /\ captured < MaxCaptured
    /\ captured' = captured + 1
    /\ snapshots' = snapshots \cup
           {[at |-> captured + 1, content |-> current,
             watermark |-> LastMutationID, token |-> token[l], moving |-> Moving]}

\* It demands nothing but the token: a leader that has not recovered captures,
\* and so does another goroutine of it in the middle of a rollup.
CaptureSnapshot(l) ==
    /\ SoleWriter => token[l] > 0
    /\ CheckFencing(l)
    /\ InsertSnapshot(l)
    /\ UNCHANGED <<fence, current, log, archive, receipts, leaderVars>>

-----------------------------------------------------------------------------
(***************************************************************************)
(* Rollups and reactivations: first transaction.                           *)
(***************************************************************************)
\* Mutant: a receipt of the same id is written over.
UpsertReceipt(l, c, kind, rolled, appended) ==
    /\ receipts' = [receipts EXCEPT ![c] =
           [kind |-> kind, rolled |-> rolled, appended |-> appended,
            token |-> token[l], phase |-> "archived",
            at |-> Cardinality(Existing) + 1]]
    /\ pending' = [pending EXCEPT ![l] = c]

InsertReceipt(l, c, kind, rolled, appended) ==
    /\ receipts[c] = NoReceipt
    /\ receipts' = [receipts EXCEPT ![c] =
           [kind |-> kind, rolled |-> rolled, appended |-> appended,
            token |-> token[l], phase |-> "archived",
            at |-> Cardinality(Existing) + 1]]
    /\ pending' = [pending EXCEPT ![l] = c]

\* The rolled records get consecutive mutation ids in the order of their
\* names, which are not modelled: any order.
ArchiveCompaction(l, c, S) ==
    /\ MayWrite(l)
    /\ CheckFencing(l)
    /\ CanRoll(S)
    /\ LastMutationID + Cardinality(S) <= MaxMutation
    /\ InsertSnapshot(l)
    /\ \E id \in Bijection(S, NextMutationID .. LastMutationID + Cardinality(S)) :
         LET bodies == [r \in Records |-> IF r \in S THEN current[r] ELSE Absent]
             ids == [r \in Records |-> IF r \in S THEN id[r] ELSE 0]
         IN /\ archive' = [archive EXCEPT ![c] = bodies]
            /\ log' = log \cup {[Entry(l, "remove", r, Absent) EXCEPT
                                     !.id = id[r], !.compaction = c] : r \in S}
            /\ InsertReceipt(l, c, "rollup", ids, bodies)
    /\ UNCHANGED <<fence, current, token, recovered>>

AppendReactivationMutation(l, c, r, b) ==
    /\ MayWrite(l)
    /\ CheckFencing(l)
    /\ current[r] = Absent
    /\ NextMutationID <= MaxMutation
    /\ log' = log \cup {[Entry(l, "add", r, b) EXCEPT !.restore = c]}
    /\ InsertReceipt(l, c, "restore_reactivation",
           [x \in Records |-> IF x = r THEN NextMutationID ELSE 0], NoRows)
    /\ UNCHANGED <<fence, current, archive, snapshots, captured, token, recovered>>

-----------------------------------------------------------------------------
(***************************************************************************)
(* Second transaction. pending[l] is the receipt as l read or wrote it;    *)
(* only its phase can have changed since, and no step looks at it again.   *)
(***************************************************************************)
Commit(l) ==
    /\ receipts' = [receipts EXCEPT ![pending[l]].phase = "committed"]
    /\ pending' = [pending EXCEPT ![l] = None]

\* Mutant: the receipt is committed and the rows stay.
FinishCompactionKeepingRows(l) ==
    /\ pending[l] \in Rollups
    /\ CheckFencing(l)
    /\ VerifyArchiveForCompaction(pending[l])
    /\ Commit(l)
    /\ UNCHANGED <<fence, current, log, archive, snapshots, captured, token, recovered>>

FinishCompactionSwap(l) ==
    /\ pending[l] \in Rollups
    /\ CheckFencing(l)
    /\ VerifyArchiveForCompaction(pending[l])
    /\ current' = [r \in Records |->
                     IF r \in RolledIds(pending[l]) THEN Absent ELSE current[r]]
    /\ Commit(l)
    /\ UNCHANGED <<fence, log, archive, snapshots, captured, token, recovered>>

\* The row is inserted, or is already there with the very body of the log.
CanReactivate(c) ==
    \E m \in log : IsReactivation(m, c) /\ current[m.rid] \in {Absent, m.after}

\* Mutant: the row is not inserted.
FinishReactivationWithoutRow(l) ==
    /\ pending[l] \in Existing \ Rollups
    /\ CheckFencing(l)
    /\ CanReactivate(pending[l])
    /\ Commit(l)
    /\ UNCHANGED <<fence, current, log, archive, snapshots, captured, token, recovered>>

FinishReactivationApply(l) ==
    /\ pending[l] \in Existing \ Rollups
    /\ CheckFencing(l)
    /\ CanReactivate(pending[l])
    /\ \E m \in log : /\ m.restore = pending[l]
                      /\ current' = [current EXCEPT ![m.rid] = m.after]
    /\ Commit(l)
    /\ UNCHANGED <<fence, log, archive, snapshots, captured, token, recovered>>

\* The second step returns an error: the caller was superseded, or what it
\* needs is not there. Nothing durable changes.
SecondStepFails(l) ==
    /\ pending[l] # None
    /\ \/ ~CheckFencing(l)
       \/ pending[l] \in Rollups /\ ~VerifyArchiveForCompaction(pending[l])
       \/ pending[l] \notin Rollups /\ ~CanReactivate(pending[l])
    /\ pending' = [pending EXCEPT ![l] = None]
    /\ recovered' = [recovered EXCEPT ![l] = FALSE]
    /\ UNCHANGED <<storeVars, token>>

-----------------------------------------------------------------------------
(***************************************************************************)
(* Crashes and recovery.                                                   *)
(***************************************************************************)
\* A crash, or a context cancelled between two transactions.
Interrupt(l) ==
    /\ pending[l] # None \/ recovered[l]
    /\ pending' = [pending EXCEPT ![l] = None]
    /\ recovered' = [recovered EXCEPT ![l] = FALSE]
    /\ UNCHANGED <<storeVars, token>>

\* Compact or ReactivateRecord is called again with an id whose receipt is
\* in phase "archived"; the receipt is read outside the transaction.
RetryReceipt(l, c) ==
    /\ pending[l] = None
    /\ c \in Archived
    /\ pending' = [pending EXCEPT ![l] = c]
    /\ UNCHANGED <<storeVars, token, recovered>>

Oldest(c) == /\ c \in Archived
             /\ \A d \in Archived : receipts[c].at <= receipts[d].at

\* Mutant: a leader resumes only what it archived itself.
ResumeOwn(l, c) ==
    /\ pending[l] = None
    /\ Oldest(c)
    /\ c \in Rollups /\ receipts[c].token = token[l]
    /\ pending' = [pending EXCEPT ![l] = c]
    /\ UNCHANGED <<storeVars, token, recovered>>

\* The loop of ResumeCompactions reads the receipts oldest first. One that is
\* not a rollup is refused, and the whole call returns the error.
ResumeNext(l, c) ==
    /\ pending[l] = None
    /\ Oldest(c)
    /\ c \in Rollups
    /\ pending' = [pending EXCEPT ![l] = c]
    /\ UNCHANGED <<storeVars, token, recovered>>

\* Mutant: receipts of other kinds are skipped instead of refused.
ResumeDoneSkipping(l) ==
    /\ pending[l] = None
    /\ ~recovered[l]
    /\ Archived \cap Rollups = {}
    /\ recovered' = [recovered EXCEPT ![l] = TRUE]
    /\ UNCHANGED <<storeVars, token, pending>>

ResumeDone(l) ==
    /\ pending[l] = None
    /\ ~recovered[l]
    /\ Archived = {}
    /\ recovered' = [recovered EXCEPT ![l] = TRUE]
    /\ UNCHANGED <<storeVars, token, pending>>

SecondStep(l) ==
    \/ FinishCompactionSwap(l)
    \/ FinishReactivationApply(l)
    \/ SecondStepFails(l)

Next ==
    \E l \in Leaders :
        \/ AcquireLease(l)
        \/ ShareLease(l)
        \/ \E r \in Records, b \in Bodies : AppendAdd(l, r, b)
        \/ \E r \in Records, b \in Bodies : AppendUpdate(l, r, b)
        \/ \E r \in Records, e, b \in Bodies : CompareAndSwapRecord(l, r, e, b)
        \/ CaptureSnapshot(l)
        \/ \E c \in ReceiptIds, S \in SUBSET Records : ArchiveCompaction(l, c, S)
        \/ \E c \in ReceiptIds, r \in Records, b \in Bodies :
               AppendReactivationMutation(l, c, r, b)
        \/ SecondStep(l)
        \/ Interrupt(l)
        \/ \E c \in ReceiptIds : RetryReceipt(l, c)
        \/ \E c \in ReceiptIds : ResumeNext(l, c)
        \/ ResumeDone(l)

Spec == Init /\ [][Next]_vars
=============================================================================
