--------------------------- MODULE GrantedEffect ----------------------------
(***************************************************************************)
(* What the fixture grant promises: of the operations that ask for the one *)
(* effect, one is decided for; its intent is on record before the task is  *)
(* changed; and it is verified after.                                      *)
(***************************************************************************)
CONSTANTS Operations, None

VARIABLES decision,     \* the operation decided for
          outcome,      \* of each operation
          task

Init ==
    /\ decision = None
    /\ outcome = [o \in Operations |-> "none"]
    /\ task = "Blocked"

Decide(o) ==
    /\ decision = None
    /\ decision' = o
    /\ UNCHANGED <<outcome, task>>

Intend(o) ==
    /\ decision = o /\ outcome[o] = "none"
    /\ outcome' = [outcome EXCEPT ![o] = "pending"]
    /\ UNCHANGED <<decision, task>>

Effect(o) ==
    /\ outcome[o] = "pending" /\ task = "Blocked"
    /\ task' = "Ready"
    /\ UNCHANGED <<decision, outcome>>

Verify(o) ==
    /\ outcome[o] = "pending" /\ task = "Ready"
    /\ outcome' = [outcome EXCEPT ![o] = "verified"]
    /\ UNCHANGED <<decision, task>>

Next == \E o \in Operations : Decide(o) \/ Intend(o) \/ Effect(o) \/ Verify(o)

Spec == Init /\ [][Next]_<<decision, outcome, task>>
=============================================================================
