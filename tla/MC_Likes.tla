-------------------------------- MODULE MC_Likes --------------------------------
(* Instances of Likes for TLC.                                             *)
EXTENDS Likes, TLC
Symmetry == Permutations(Users) \cup Permutations(Targets)
              \cup Permutations(Requests)
=================================================================================
