----------------------- MODULE DurableStoreProperties -----------------------
(***************************************************************************)
(* What the durable store guarantees its callers, and the refinement of    *)
(* RecordMap. The mutation log is the reference: LogSays reads a record's  *)
(* body off the log without replaying it.                                  *)
(***************************************************************************)
EXTENDS DurableStore

\* m is the last of the first k mutations that is about m's record.
Decides(m, k) ==
    /\ m \in log
    /\ m.id <= k
    /\ \A n \in log : n.rid = m.rid /\ n.id <= k => n.id <= m.id

\* After the mutations up to id k, the body of r is b.
LogSays(r, k, b) ==
    \/ b = Absent /\ \A m \in log : m.rid = r => m.id > k
    \/ \E m \in log : Decides(m, k) /\ m.rid = r /\ m.after = b

RowsMatchLog(rows, k) == \A r \in Records : LogSays(r, k, rows[r])

\* The rows once every receipt in phase "archived" has had its second step.
RolledButLive(r) == \E c \in Archived \cap Rollups : r \in RolledIds(c)
AwaitsReactivation(r) == {m \in log : m.rid = r /\ m.restore \in Archived}

EffectiveRow(r) ==
    IF RolledButLive(r) THEN Absent
    ELSE IF AwaitsReactivation(r) # {}
         THEN (CHOOSE m \in AwaitsReactivation(r) : TRUE).after
         ELSE current[r]

Effective == [r \in Records |-> EffectiveRow(r)]

-----------------------------------------------------------------------------
(***************************************************************************)
(* Safety.                                                                 *)
(***************************************************************************)
\* Fencing: whoever was superseded writes nothing after the new leader's
\* first write, so tokens never decrease along the log; and mutation ids are
\* unique although each is read off the log (checkFencing, nextMutationID).
FencedLog ==
    \A m, n \in log : /\ m.id < n.id => m.token <= n.token
                      /\ m.id = n.id => m = n

\* Once the archived receipts are finished, the live rows are exactly what
\* the log says: a crash between the two steps of a rollup or a reactivation
\* loses nothing and doubles nothing.
CurrentMatchesLog == RowsMatchLog(Effective, LastMutationID)

\* The first step of a rollup or a reactivation has logged at or below k what
\* becomes of r, and b is the body r had before.
LoggedAhead(r, k, b) ==
    \E m \in log : /\ m.rid = r /\ m.id <= k /\ m.before = b
                   /\ m.compaction # None \/ m.restore # None

\* A snapshot is the state the log describes at its watermark, whoever captures
\* it and when. Only a record in the middle of a rollup or a reactivation just
\* then has the body from before: its row follows its entry (CaptureSnapshot
\* reads rows and watermark in one transaction, a rollup takes two).
SnapshotsMatchLog ==
    \A s \in snapshots : \A r \in Records :
        \/ LogSays(r, s.watermark, s.content[r])
        \/ r \in s.moving /\ LoggedAhead(r, s.watermark, s.content[r])

\* Every mutation starts from the body its predecessor on the record left;
\* this is what Replay verifies and aborts on.
MutationsChain == \A m \in log : LogSays(m.rid, m.id - 1, m.before)

\* Without tampering the second step is never refused: an archived rollup
\* still has its archive rows and exactly its remove entries, and an archived
\* reactivation finds its row absent (finishCompactionSwap,
\* finishReactivationApply).
RecoveryCanFinish ==
    \A c \in Archived :
        IF c \in Rollups THEN VerifyArchiveForCompaction(c) ELSE CanReactivate(c)

\* The part of it that needs no rule from the callers: nothing they do between
\* the two steps takes from an archived rollup what its second step verifies.
ArchivedRollupsVerify ==
    \A c \in Archived \cap Rollups : VerifyArchiveForCompaction(c)

\* A live row is deleted only when some rollup has archived its body.
RowsLeaveIntoArchive ==
    [][\A r \in Records :
          current[r] # Absent /\ current'[r] = Absent =>
              \E c \in ReceiptIds : archive[c][r] = current[r]]_vars

\* At most one receipt is ever waiting for its second step.
OneAtATime == \A c, d \in Archived : c = d

-----------------------------------------------------------------------------
(***************************************************************************)
(* The store implements a map whose records leave it atomically.           *)
(***************************************************************************)
RolledOut == {p \in Records \X Bodies :
                 \E c \in ReceiptIds : archive[c][p[1]] = p[2]}

Map == INSTANCE RecordMap WITH live <- Effective, rolledOut <- RolledOut

\* A rollup, seen through the archived receipts, takes effect in its first
\* transaction; the second one, a crash, a retry and an election are invisible.
ImplementsRecordMap == Map!Spec

-----------------------------------------------------------------------------
(***************************************************************************)
(* Liveness. Calls that were begun are carried on by the scheduler of the  *)
(* process, and a leader in recovery keeps calling ResumeCompactions.      *)
(* Nothing makes a leader write, elects one or crashes one.                *)
(***************************************************************************)
ResumeFairness ==
    \A l \in Leaders : /\ WF_vars(SecondStep(l))
                       /\ WF_vars(\E c \in ReceiptIds : ResumeNext(l, c))
                       /\ WF_vars(ResumeDone(l))

ResumeSpec == Spec /\ ResumeFairness

\* From some moment on nothing crashes.
Calm == <>[][\A l \in Leaders : ~Interrupt(l)]_vars

\* An interrupted rollup is finished: it takes no caller that remembers it,
\* only a leader that calls ResumeCompactions.
RollupsAreFinished ==
    Calm => \A c \in ReceiptIds : c \in Archived \cap Rollups ~> c \notin Archived

\* The same of every receipt ResumeCompactions selects, reactivations included.
ArchivedReceiptsAreFinished ==
    Calm => \A c \in ReceiptIds : c \in Archived ~> c \notin Archived
=============================================================================
