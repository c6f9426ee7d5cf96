----------------------------- MODULE MC_Publishing -----------------------------
(* Instances of Publishing for TLC.                                        *)
EXTENDS Publishing, TLC
Symmetry == Permutations(Lessons) \cup Permutations(Keys)
              \cup Permutations(Requests)
================================================================================
