--------------------------- MODULE MCDurableStore ---------------------------
(***************************************************************************)
(* Small instances of the durable store for TLC.                           *)
(***************************************************************************)
EXTENDS DurableStoreProperties, TLC

\* Records, bodies, receipt ids and leaders are only ever compared.
Symmetry == Permutations(Records) \cup Permutations(Bodies)
            \cup Permutations(ReceiptIds) \cup Permutations(Leaders)
=============================================================================
