----------------------------- MODULE MC_Enrollment -----------------------------
(* Instances of Enrollment for TLC: two learners that enroll and cancel at *)
(* once, with and without requests that die.                               *)
EXTENDS Enrollment, TLC

Symmetry == Permutations(Users) \cup Permutations(Requests)
================================================================================
