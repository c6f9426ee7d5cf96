------------------------------ MODULE MC_Learning ------------------------------
(* Instances of Learning for TLC.  One learner: updates of different users *)
(* share no row but the course, which they do not write.                   *)
EXTENDS Learning, TLC

UpdateSymmetry == Permutations(Updates)
================================================================================
