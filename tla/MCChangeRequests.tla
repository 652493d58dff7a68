-------------------------- MODULE MCChangeRequests --------------------------
(***************************************************************************)
(* Two mutations, a host that refreshes, one teardown.                     *)
(***************************************************************************)
EXTENDS ChangeRequests, TLC

Symmetry == Permutations(Calls)
=============================================================================
