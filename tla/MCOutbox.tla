------------------------------ MODULE MCOutbox ------------------------------
(* Instances of Outbox for TLC; the sets of values are in the cfg files.   *)
EXTENDS Outbox, TLC

(* Processes, names and payloads are only compared for equality.  Used for *)
(* safety properties only.                                                 *)
Symmetry ==
  Permutations(Procs) \cup Permutations(Names) \cup Permutations(Payloads)

=============================================================================
