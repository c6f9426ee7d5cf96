-------------------------------- MODULE MC_Jobs --------------------------------
(* Jobs for TLC when nothing fails by accident: what goes wrong is the code. *)
EXTENDS Jobs
================================================================================
