------------------------------- MODULE LikeBoard -------------------------------
(***************************************************************************)
(* What the community's likes promise: a user likes a target at most once, *)
(* and the number shown with a target moves with its likes, one by one.    *)
(***************************************************************************)
EXTENDS Integers

CONSTANTS Users, Targets

VARIABLES likers, count

Init == /\ likers = [t \in Targets |-> {}]
        /\ count = [t \in Targets |-> 0]

Like(u, t) ==
  /\ u \notin likers[t]
  /\ likers' = [likers EXCEPT ![t] = @ \cup {u}]
  /\ count' = [count EXCEPT ![t] = @ + 1]

Unlike(u, t) ==
  /\ u \in likers[t]
  /\ likers' = [likers EXCEPT ![t] = @ \ {u}]
  /\ count' = [count EXCEPT ![t] = @ - 1]

Next == \E u \in Users, t \in Targets : Like(u, t) \/ Unlike(u, t)

Spec == Init /\ [][Next]_<<likers, count>>
================================================================================
