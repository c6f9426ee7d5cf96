--------------------------------- MODULE Likes ---------------------------------
(***************************************************************************)
(* communityService.toggleLike over posts, comments and replies alike: a   *)
(* CommunityLike row per (user, target), guarded by a unique index, and a  *)
(* denormalised likeCount on the target that a later statement adjusts.    *)
(* Toggles of one user may overlap (double click, two devices).            *)
(***************************************************************************)
EXTENDS Integers, FiniteSets

CONSTANTS
  Users,     \* people who like
  Targets,   \* posts, comments and replies; none is ever hard-deleted
  Requests,  \* toggles handled at once
  NoUser, NoTarget,
  MaxDeaths  \* bound: requests that die between two statements

ASSUME LikesAssumption ==
  /\ IsFiniteSet(Users) /\ IsFiniteSet(Requests)
  /\ NoUser \notin Users /\ NoTarget \notin Targets
  /\ MaxDeaths \in Nat

VARIABLES
  likers,    \* per target, the users with a CommunityLike row
  likeCount, \* per target, its likeCount column
  req,       \* the toggles in flight
  lost,      \* history: per target, the adjustments that died unmade
  deaths     \* requests that died so far

vars == <<likers, likeCount, req, lost, deaths>>

(* What findExisting returned: no row, a row that is still there, or a row *)
(* that has been deleted since (its id is gone even if the user liked the  *)
(* target again).  At "adjust": whether a row was created or deleted.      *)
Saw == {"none", "row", "goneRow"}
Request == [pc : {"idle", "write", "adjust"}, user : Users \cup {NoUser},
            target : Targets \cup {NoTarget}, saw : Saw]
Idle == [pc |-> "idle", user |-> NoUser, target |-> NoTarget, saw |-> "none"]

At(r, step) == req[r].pc = step
Return(r)   == req' = [req EXCEPT ![r] = Idle]

\* The update of adjustLikeCount: +1 after a create, -1 after a delete.
Delta(saw) == IF saw = "none" THEN 1 ELSE -1

\* Requests that hold the id of the row (u, t).
HoldsRow(q, u, t) ==
  /\ At(q, "write") /\ req[q].user = u /\ req[q].target = t
  /\ req[q].saw = "row"

-------------------------------------------------------------------------------
FindExisting(r, u, t) ==
  /\ At(r, "idle")
  /\ req' = [req EXCEPT ![r] =
       [pc |-> "write", user |-> u, target |-> t,
        saw |-> IF u \in likers[t] THEN "row" ELSE "none"]]
  /\ UNCHANGED <<likers, likeCount, lost, deaths>>

\* Variant: the target is forgotten on the way to the counter.
AfterWriteForgets(r) == [Idle EXCEPT !.pc = "adjust", !.saw = req[r].saw]

\* What follows a successful write of the row: adjustLikeCount.
AfterWrite(r) == [req[r] EXCEPT !.pc = "adjust"]

\* Delete by id, a P2025 error when the row has gone.
DeleteLike(r) ==
  LET u == req[r].user
      t == req[r].target IN
  /\ At(r, "write") /\ req[r].saw = "row"
  /\ likers' = [likers EXCEPT ![t] = @ \ {u}]
  /\ req' = [q \in Requests |->
               IF q = r THEN AfterWrite(q)
               ELSE IF HoldsRow(q, u, t) THEN [req[q] EXCEPT !.saw = "goneRow"]
               ELSE req[q]]
  /\ UNCHANGED <<likeCount, lost, deaths>>

DeleteLikeFails(r) ==
  /\ At(r, "write") /\ req[r].saw = "goneRow"
  /\ Return(r)
  /\ UNCHANGED <<likers, likeCount, lost, deaths>>

\* Create, a P2002 error when the user's like is there by now.
CreateLike(r) ==
  LET u == req[r].user
      t == req[r].target IN
  /\ At(r, "write") /\ req[r].saw = "none"
  /\ u \notin likers[t]
  /\ likers' = [likers EXCEPT ![t] = @ \cup {u}]
  /\ req' = [req EXCEPT ![r] = AfterWrite(r)]
  /\ UNCHANGED <<likeCount, lost, deaths>>

\* Variant: an upsert, which succeeds on the row that is there.
DuplicateIgnored(r) == AfterWrite(r)

\* What a create that meets an existing row does: the request ends.
OnDuplicate(r) == Idle

CreateLikeFails(r) ==
  /\ At(r, "write") /\ req[r].saw = "none"
  /\ req[r].user \in likers[req[r].target]
  /\ req' = [req EXCEPT ![r] = OnDuplicate(r)]
  /\ UNCHANGED <<likers, likeCount, lost, deaths>>

AdjustLikeCount(r) ==
  /\ At(r, "adjust")
  /\ likeCount' = [likeCount EXCEPT ![req[r].target] = @ + Delta(req[r].saw)]
  /\ Return(r)
  /\ UNCHANGED <<likers, lost, deaths>>

\* A rejected statement or a killed server: what was written stays.
Dies(r) ==
  /\ deaths < MaxDeaths
  /\ ~At(r, "idle")
  /\ deaths' = deaths + 1
  /\ lost' = IF At(r, "adjust")
               THEN [lost EXCEPT ![req[r].target] = @ + Delta(req[r].saw)]
               ELSE lost
  /\ Return(r)
  /\ UNCHANGED <<likers, likeCount>>

-------------------------------------------------------------------------------
Init ==
  /\ likers = [t \in Targets |-> {}]
  /\ likeCount = [t \in Targets |-> 0]
  /\ req = [r \in Requests |-> Idle]
  /\ lost = [t \in Targets |-> 0]
  /\ deaths = 0

RequestStep(r) ==
  \/ DeleteLike(r) \/ DeleteLikeFails(r)
  \/ CreateLike(r) \/ CreateLikeFails(r)
  \/ AdjustLikeCount(r)

Next ==
  \/ \E r \in Requests, u \in Users, t \in Targets : FindExisting(r, u, t)
  \/ \E r \in Requests : RequestStep(r)
  \/ \E r \in Requests : Dies(r)

Spec == Init /\ [][Next]_vars

-------------------------------------------------------------------------------
TypeOK ==
  /\ likers \in [Targets -> SUBSET Users]
  /\ likeCount \in [Targets -> Int]
  /\ req \in [Requests -> Request]
  /\ lost \in [Targets -> Int]
  /\ deaths \in Nat
  /\ \A r \in Requests :
       ~At(r, "idle") => req[r].user \in Users /\ req[r].target \in Targets

\* Adjustments of t still to come: after creates, after deletes.
Owed(t, saw) ==
  {r \in Requests : At(r, "adjust") /\ req[r].target = t /\ req[r].saw = saw}

(* However toggles overlap, a target's likeCount, the adjustments still in *)
(* flight and those lost with a request that died add up to its rows of    *)
(* CommunityLike: a toggle that lost its race fails before the counter,    *)
(* and a failure costs exactly the one adjustment it interrupted.          *)
LikeCountConserved ==
  \A t \in Targets :
    likeCount[t] + lost[t]
      + Cardinality(Owed(t, "none")) - Cardinality(Owed(t, "row"))
        = Cardinality(likers[t])

(* Toggles implement the abstract board, the count of a target being its   *)
(* column plus what is in flight or was lost: each successful toggle is    *)
(* one Like or one Unlike, every other step leaves the board alone.        *)
ShownCount ==
  [t \in Targets |->
     likeCount[t] + lost[t]
       + Cardinality(Owed(t, "none")) - Cardinality(Owed(t, "row"))]
Board == INSTANCE LikeBoard WITH count <- ShownCount
ImplementsBoard == Board!Spec
================================================================================
