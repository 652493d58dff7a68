----------------------------- MODULE MCGovernor -----------------------------
(***************************************************************************)
(* Settings for TLC.                                                       *)
(***************************************************************************)
EXTENDS Governor, TLC

\* Incomplete observations are made at the first time only.
MCObserved == {o \in Observation : o.complete \/ o.at = 1}

Symmetry == Permutations(Events) \cup Permutations(Callers) \cup Permutations(Terms)
=============================================================================
