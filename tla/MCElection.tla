------------------------------ MODULE MCElection ------------------------------
(* Instances of the election for TLC. *)
EXTENDS ElectionInv, TLC

Symmetry == Permutations(Fighter) \cup Permutations(Node \ Fighter)

===============================================================================
