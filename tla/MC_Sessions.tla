------------------------------ MODULE MC_Sessions ------------------------------
(* Instances of Sessions with Otp for TLC: one user.                         *)
EXTENDS Sessions, TLC

Symmetry == Permutations(Codes) \cup Permutations(Requests)
              \cup Permutations(Tokens) \cup Permutations(Logins)
================================================================================
