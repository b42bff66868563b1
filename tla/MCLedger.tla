------------------------------ MODULE MCLedger ------------------------------
(***************************************************************************)
(* Instances of Ledger: which runner is which does not matter.             *)
(***************************************************************************)
EXTENDS Ledger, TLC

Symmetry == Permutations(Runners)
=============================================================================
