--------------------------- MODULE MCFixtureGrant ---------------------------
(***************************************************************************)
(* Settings for TLC: the second operation belongs to an observation that   *)
(* supersedes the first one's, and somebody else works on another incident. *)
(***************************************************************************)
EXTENDS FixtureGrant

MCOrigin == [o \in Operations |->
    IF o = "op1" THEN [event |-> "origin", at |-> 1, complete |-> TRUE]
    ELSE [event |-> "later", at |-> 2, complete |-> TRUE]]

MCObserved ==
    {MCOrigin[o] : o \in Operations}
    \cup [event: {"latest"}, at: {3}, complete: {TRUE}]

MCGeneration == [e \in Events |-> IF e = "latest" THEN 2 ELSE 1]

\* The other incident's recovery is completed and accepted under the first
\* observation; somebody also tries to accept it under a newer one.
MCRecorded ==
    {r \in Submission :
       /\ r.incident = "other" /\ r.request = "r1" /\ r.completed = 1 /\ r.due = 3
       /\ \/ r.event = "origin" /\ r.status \in {"completed", "decision_accepted"}
          \/ r.event = "later" /\ r.status = "decision_accepted"}

MCVerified ==
    {v \in EffectReceipt : v.incident = "other" /\ v.generation = 1 /\ v.verifier = "v1"
                           /\ v.event = "later" /\ v.at = 2}

\* The fixture's incident recurs.
MCRecurred ==
    {q \in RecurrenceReceipt : q.incident = "fixture" /\ q.generation = 1 /\ q.event = "latest"}
=============================================================================
