------------------------------ MODULE RecordMap ------------------------------
(***************************************************************************)
(* What the durable store promises about the records of one workspace,     *)
(* with transactions, receipts, leases and crashes left out: a map from    *)
(* record ids to bodies, and the set of everything ever rolled out of it.  *)
(* A record changes by one atomic step, and it leaves the map only by      *)
(* being rolled out with the body it had.                                  *)
(***************************************************************************)
CONSTANTS Records,      \* record ids
          Bodies,       \* record bodies
          Absent        \* "no live record", which is not a body

VARIABLES live,         \* live[r] is the body of r, or Absent
          rolledOut     \* every <<record, body>> pair ever rolled out

vars == <<live, rolledOut>>

Init == /\ live = [r \in Records |-> Absent]
        /\ rolledOut = {}

\* A record is added, updated or reactivated.
Put(r, b) ==
    /\ live' = [live EXCEPT ![r] = b]
    /\ UNCHANGED rolledOut

\* A whole set of live records is rolled out at once.
RollOut(S) ==
    /\ \A r \in S : live[r] # Absent
    /\ live' = [r \in Records |-> IF r \in S THEN Absent ELSE live[r]]
    /\ rolledOut' = rolledOut \cup {<<r, live[r]>> : r \in S}

Next == \/ \E r \in Records, b \in Bodies : Put(r, b)
        \/ \E S \in SUBSET Records : RollOut(S)

Spec == Init /\ [][Next]_vars
=============================================================================
