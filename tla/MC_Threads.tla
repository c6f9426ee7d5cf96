------------------------------- MODULE MC_Threads -------------------------------
(* Instances of Threads for TLC.                                           *)
EXTENDS Threads, TLC
Symmetry == Permutations(Comments) \cup Permutations(Replies)
              \cup Permutations(Requests)
=================================================================================
