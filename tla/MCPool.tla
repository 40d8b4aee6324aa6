------------------------------- MODULE MCPool -------------------------------
(* Instances of Pool for TLC: pods and sandboxes are interchangeable model *)
(* values, which the runs that check safety only exploit by symmetry.      *)
EXTENDS Pool, TLC

Symmetry == Permutations(Pods) \cup Permutations(Sandboxes)
=============================================================================
