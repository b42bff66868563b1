----------------------------- MODULE MCWritePath ----------------------------
(* Instances of WritePath for TLC.                                         *)
EXTENDS WritePath, TLC

CONSTANTS p1, p2, a, b

(* A scan of both clusters, so that it can fail between its two files.     *)
MCScanInputs == {<<a, b>>}

(* Each cluster has a file of its own (see the README on slugs).           *)
DistinctSlugs == (a :> "a") @@ (b :> "b")

(* The third instant falls on another day.                                 *)
MCDayOf == [i \in Instants |-> IF i < 3 THEN 1 ELSE 2]

Symmetry == Permutations(Procs)

=============================================================================
