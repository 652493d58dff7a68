----------------------------- MODULE Retention ------------------------------
(***************************************************************************)
(* Retention (server/durablestate/retention.go): old snapshots and the     *)
(* mutations no retained snapshot needs are deleted, and a long replay is  *)
(* resumed from a checkpoint. Adds two writes to the store.                *)
(*                                                                         *)
(* PruneSnapshots reads the list before its transaction. The rows it then  *)
(* deletes are the oldest ones of that earlier list, which some keepCount  *)
(* gives for the current list as well, so the two steps are one action.    *)
(* Its own receipt is born committed and names no mutation: left out.      *)
(***************************************************************************)
EXTENDS Replay

CONSTANT PrunesWithCare
    \* Do callers of PruneMutations name every retained snapshot, none of
    \* them with a NULL watermark, and leave some mutation behind?

ASSUME PrunesWithCareIsBoolean == PrunesWithCare \in BOOLEAN

PrunableSnapshots(keepCount) ==
    {s \in snapshots : Cardinality({t \in snapshots : t.at > s.at}) >= keepCount}

PruneSnapshots(l, keepCount) ==
    /\ MayWrite(l)
    /\ CheckFencing(l)
    /\ PrunableSnapshots(keepCount) # {}
    /\ snapshots' = snapshots \ PrunableSnapshots(keepCount)
    /\ UNCHANGED <<fence, current, log, archive, receipts, captured, leaderVars>>

\* Mutant: everything up to the newest retained watermark.
MutationsBeforeNewest(retained) ==
    LET marks == {s.watermark : s \in retained} \ {0}
    IN IF marks = {} THEN {} ELSE {m \in log : m.id <= Max(marks)}

\* Mutant: one mutation too many.
MutationsUpToNext(retained) ==
    LET marks == {s.watermark : s \in retained} \ {0}
    IN IF marks = {} THEN {} ELSE {m \in log : m.id <= Min(marks) + 1}

\* Everything up to the smallest watermark; a NULL watermark does not count.
PrunableMutations(retained) ==
    LET marks == {s.watermark : s \in retained} \ {0}
    IN IF marks = {} THEN {} ELSE {m \in log : m.id <= Min(marks)}

\* Mutant: nothing is protected.
NoMutationProtected == {}

\* Entries a receipt still needs for its second step.
ProtectedMutations ==
    {m \in log : \E c \in Archived : receipts[c].rolled[m.rid] = m.id}

CareTaken(retained, pruned) ==
    /\ retained = snapshots
    /\ \A s \in retained : s.watermark # 0
    /\ log # pruned

PruneMutations(l, retained) ==
    LET pruned == PrunableMutations(retained) \ ProtectedMutations
    IN /\ MayWrite(l)
       /\ CheckFencing(l)
       /\ pruned # {}
       /\ PrunesWithCare => CareTaken(retained, pruned)
       /\ log' = log \ pruned
       /\ UNCHANGED <<fence, current, archive, receipts, snapshots, captured,
                      leaderVars>>

RetentionNext ==
    \/ Next
    \/ \E l \in Leaders, keepCount \in 0..MaxCaptured : PruneSnapshots(l, keepCount)
    \/ \E l \in Leaders, retained \in SUBSET snapshots : PruneMutations(l, retained)

RetentionSpec == Init /\ [][RetentionNext]_vars

\* With leaders that start again and resume (ResumeFairness).
ResumeRetentionSpec == RetentionSpec /\ ResumeFairness

\* Mutant: the rows of the snapshot are taken for those of the checkpoint.
ReplayFromSnapshotRows(s, checkpoint, target) ==
    IF target < checkpoint THEN ReplaySnapshot(s, target)
    ELSE ReplayFrom(s.content, checkpoint, target)

\* The rows up to the checkpoint are rebuilt from the snapshot, then the
\* mutations after the checkpoint are replayed as a run of their own.
ReplayFromCheckpoint(s, checkpoint, target) ==
    IF target < checkpoint THEN ReplaySnapshot(s, target)
    ELSE LET rows == ReplaySnapshot(s, checkpoint)
         IN IF rows = Aborted THEN Aborted
            ELSE ReplayFrom(rows, checkpoint, target)

-----------------------------------------------------------------------------
\* What a retained snapshot replays to.
Reconstruction(s) == ReplaySnapshot(s, LastMutationID)

\* Pruning mutations changes the outcome of no replay from a snapshot that
\* was named as retained (PrunableMutationIDs: no retained snapshot needs them).
PruningIsInvisible(retained) ==
    \A s \in retained : Reconstruction(s)' = Reconstruction(s)

PruningKeepsReplay ==
    [][\A l \in Leaders, retained \in SUBSET snapshots :
          PruneMutations(l, retained) => PruningIsInvisible(retained)]_vars

\* The same for the snapshots that have a watermark.
PruningKeepsMarkedReplay ==
    [][\A l \in Leaders, retained \in SUBSET snapshots :
          PruneMutations(l, retained) =>
              PruningIsInvisible({s \in retained : s.watermark # 0})]_vars

\* A new mutation is new for every retained snapshot: its id is beyond every
\* watermark, so Replay applies it (nextMutationID).
NewMutationsAreReplayed ==
    [][\A m \in log' \ log : \A s \in snapshots : m.id > s.watermark]_vars

\* A replay resumed from a checkpoint and the uninterrupted one, where both
\* return, return the same rows. The resumed one may abort: a checkpoint
\* between two remove entries of one rollup hides the first from the
\* correlation. A checkpoint below the watermark belongs to another snapshot's
\* run (checkpoints have a key of their own): from a snapshot captured in the
\* middle of a rollup the entries in between would be applied as well.
CheckpointNeverLies ==
    \A s \in snapshots :
        LET whole == Reconstruction(s)
        IN \A k \in 1..LastMutationID :
             LET resumed == ReplayFromCheckpoint(s, k, LastMutationID)
             IN k >= s.watermark \/ s.moving = {} =>
                    resumed = whole \/ Aborted \in {resumed, whole}
=============================================================================
