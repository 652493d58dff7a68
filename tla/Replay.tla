------------------------------- MODULE Replay -------------------------------
(***************************************************************************)
(* Replay (server/durablestate/replay.go): the rows of a workspace rebuilt *)
(* from a retained snapshot and the mutations after its watermark. Replay  *)
(* reads only; it either returns the rows or aborts.                       *)
(***************************************************************************)
EXTENDS DurableStoreProperties

CONSTANT Aborted        \* what Replay returns for a ReplayError

ASSUME AbortedIsFresh == Aborted \notin [Records -> Row]

\* Mutant: the mutation at the watermark is replayed again.
MutationsFrom(watermark) == {m \in log : m.id >= watermark}

MutationsAfter(watermark) == {m \in log : m.id > watermark}

\* The receipt names exactly the remove entries of the compaction, each with
\* its own mutation id. entries are all the mutations after the watermark,
\* those beyond the target included.
CheckCompactionCorrelation(c, entries) ==
    LET mine == {m \in entries : m.compaction = c}
    IN /\ \A m \in mine : m.op = "remove" /\ receipts[c].rolled[m.rid] = m.id
       /\ \A r \in RolledIds(c) : \E m \in mine : m.rid = r

\* Would applyMutationInMemory accept m on these rows? Equal bodies stand for
\* equal hashes, and a remove's before side is resolved from the archive, which is
\* a parameter here: what a replay computes is a function of what it is given.
Applicable(archived, rows, m) ==
    /\ rows # Aborted
    /\ rows[m.rid] = m.before
    /\ (m.op = "add") <=> (m.before = Absent)
    /\ (m.op = "remove") <=> (m.compaction # None)
    /\ m.op = "remove" => archived[m.compaction][m.rid] = m.before

ApplyMutation(archived, rows, m) ==
    IF Applicable(archived, rows, m) THEN [rows EXCEPT ![m.rid] = m.after] ELSE Aborted

\* The entries of a set, applied in the order of their ids.
ReplayMutations(archived, rows, entries) ==
    LET ids == {m.id : m \in entries}
        entry(i) == CHOOSE m \in entries : m.id = i
        last == Max({0} \cup ids)
        applied[i \in 0..last] ==
            IF i = 0 THEN rows
            ELSE IF i \in ids THEN ApplyMutation(archived, applied[i - 1], entry(i))
            ELSE applied[i - 1]
    IN applied[last]

\* rows brought from watermark to target.
ReplayFrom(rows, watermark, target) ==
    LET entries == MutationsAfter(watermark)
        applied == {m \in entries : m.id <= target}
        removes == {m.compaction : m \in {n \in applied : n.op = "remove"}}
    IN IF \A c \in removes : c \in Existing /\ CheckCompactionCorrelation(c, entries)
       THEN ReplayMutations(archive, rows, applied)
       ELSE Aborted

ReplaySnapshot(s, target) == ReplayFrom(s.content, s.watermark, target)

-----------------------------------------------------------------------------
\* No mutation was pruned: every id is there.
LogIsComplete == {m.id : m \in log} = 1..LastMutationID

\* A record that was moving when s was captured may still be as it was then.
AsCaptured(s, r, rows) == r \in s.moving /\ rows[r] = s.content[r]

\* On a log that was never pruned, replay from any snapshot to any mutation id
\* returns the rows the log had just then. From a snapshot captured in the
\* middle of a rollup or a reactivation it may abort, or keep the record that
\* was moving as it was before, and every other row is right (Replay,
\* CaptureSnapshot).
ReplayIsFaithful ==
    LogIsComplete => \A s \in snapshots : \A k \in s.watermark .. LastMutationID :
        LET rows == ReplaySnapshot(s, k)
        IN /\ s.moving = {} => rows # Aborted
           /\ rows # Aborted => \A r \in Records :
                  LogSays(r, k, rows[r]) \/ AsCaptured(s, r, rows)

\* Replay from any retained snapshot to the end returns the live rows, once
\* archived receipts are finished (the reconstruction that snapshots and the
\* log are kept for), with the same exception.
ReplayReconstructsCurrent ==
    \A s \in snapshots :
        LET rows == ReplaySnapshot(s, LastMutationID)
        IN /\ s.moving = {} => rows = Effective
           /\ rows # Aborted => \A r \in Records :
                  rows[r] = Effective[r] \/ AsCaptured(s, r, rows)
=============================================================================
