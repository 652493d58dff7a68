---------------------------- MODULE MCRetention -----------------------------
(***************************************************************************)
(* Small instances of the store with its retention procedures.             *)
(***************************************************************************)
EXTENDS Retention, TLC

Symmetry == Permutations(Records) \cup Permutations(Bodies)
            \cup Permutations(ReceiptIds) \cup Permutations(Leaders)
=============================================================================
