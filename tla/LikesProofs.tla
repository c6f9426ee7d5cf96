------------------------------ MODULE LikesProofs ------------------------------
(***************************************************************************)
(* Theorems about Likes for any finite set of users and of overlapping     *)
(* requests and any set of targets.  Conservation of the counter needs     *)
(* that every delete that succeeds takes one element away from the likes.  *)
(***************************************************************************)
EXTENDS Likes, FiniteSetTheorems, TLAPS

(* The label "row" means what it says: the id that findExisting returned   *)
(* is still that of a row.  It says nothing of a toggle whose row has been *)
(* deleted since; that one is labelled "goneRow", goes on to delete all    *)
(* the same and fails.                                                     *)
HeldRowExists ==
  \A r \in Requests :
    (At(r, "write") /\ req[r].saw = "row") =>
      req[r].user \in likers[req[r].target]

\* An adjustment follows a create or a delete that succeeded.
AdjustFollowsWrite ==
  \A r \in Requests : At(r, "adjust") => req[r].saw \in {"none", "row"}

Inv == TypeOK /\ HeldRowExists /\ AdjustFollowsWrite /\ LikeCountConserved

LEMMA OwedFinite ==
  \A t \in Targets, s \in Saw :
    IsFiniteSet(Owed(t, s)) /\ Cardinality(Owed(t, s)) \in Nat
  BY LikesAssumption, FS_Subset, FS_CardinalityType DEF Owed

LEMMA LikersFinite ==
  ASSUME TypeOK
  PROVE  \A t \in Targets :
           IsFiniteSet(likers[t]) /\ Cardinality(likers[t]) \in Nat
  BY LikesAssumption, FS_Subset, FS_CardinalityType DEF TypeOK

LEMMA InitInv == Init => Inv
  <1> SUFFICES ASSUME Init PROVE Inv
    OBVIOUS
  <1>1. TypeOK
    BY LikesAssumption DEF Init, TypeOK, Request, Idle, Saw, At
  <1>2. HeldRowExists
    BY DEF Init, HeldRowExists, At, Idle
  <1>3. LikeCountConserved
    <2> SUFFICES ASSUME NEW t \in Targets
                 PROVE  likeCount[t] + lost[t] + Cardinality(Owed(t, "none"))
                          - Cardinality(Owed(t, "row")) = Cardinality(likers[t])
      BY DEF LikeCountConserved
    <2>1. Owed(t, "none") = {} /\ Owed(t, "row") = {}
      BY DEF Init, Owed, At, Idle
    <2>2. QED
      BY <2>1, FS_EmptySet DEF Init
  <1>4. AdjustFollowsWrite
    BY DEF Init, AdjustFollowsWrite, At, Idle
  <1>5. QED
    BY <1>1, <1>2, <1>3, <1>4 DEF Inv

-------------------------------------------------------------------------------
(* Type correctness.                                                       *)

LEMMA StepTypeOK == TypeOK /\ [Next]_vars => TypeOK'
  <1> SUFFICES ASSUME TypeOK, [Next]_vars PROVE TypeOK'
    OBVIOUS
  <1> USE LikesAssumption DEF TypeOK, At, Return, Idle, Request, Saw
  <1>1. ASSUME NEW r \in Requests, NEW u \in Users, NEW t \in Targets,
               FindExisting(r, u, t)
        PROVE  TypeOK'
    BY <1>1 DEF FindExisting
  <1>2. ASSUME NEW r \in Requests, DeleteLike(r) PROVE TypeOK'
    <2> DEFINE u == req[r].user
               t == req[r].target
               new(q) == IF q = r THEN AfterWrite(q)
                         ELSE IF HoldsRow(q, u, t)
                              THEN [req[q] EXCEPT !.saw = "goneRow"]
                              ELSE req[q]
    <2>1. \A q \in Requests :
            /\ new(q) \in Request
            /\ new(q).pc # "idle" =>
                 new(q).user \in Users /\ new(q).target \in Targets
      BY <1>2 DEF DeleteLike, HoldsRow, AfterWrite
    <2>2. req' = [q \in Requests |-> new(q)]
      BY <1>2 DEF DeleteLike
    <2>3. likers' \in [Targets -> SUBSET Users]
      BY <1>2 DEF DeleteLike
    <2> HIDE DEF new
    <2>4. QED
      BY <1>2, <2>1, <2>2, <2>3 DEF DeleteLike
  <1>3. ASSUME NEW r \in Requests, DeleteLikeFails(r) PROVE TypeOK'
    BY <1>3 DEF DeleteLikeFails
  <1>4. ASSUME NEW r \in Requests, CreateLike(r) PROVE TypeOK'
    BY <1>4 DEF CreateLike, AfterWrite
  <1>5. ASSUME NEW r \in Requests, CreateLikeFails(r) PROVE TypeOK'
    BY <1>5 DEF CreateLikeFails, OnDuplicate
  <1>6. ASSUME NEW r \in Requests, AdjustLikeCount(r) PROVE TypeOK'
    BY <1>6 DEF AdjustLikeCount, Delta
  <1>7. ASSUME NEW r \in Requests, Dies(r) PROVE TypeOK'
    <2>1. lost' \in [Targets -> Int]
      BY <1>7 DEF Dies, Delta
    <2>2. QED
      BY <1>7, <2>1 DEF Dies
  <1>8. CASE UNCHANGED vars
    BY <1>8 DEF vars
  <1>9. QED
    BY <1>1, <1>2, <1>3, <1>4, <1>5, <1>6, <1>7, <1>8 DEF Next, RequestStep

(* The likes, counters and requests keep their types.                      *)
THEOREM TypeCorrect == Spec => []TypeOK
  <1>1. Init => TypeOK
    BY InitInv DEF Inv
  <1>2. QED
    BY <1>1, StepTypeOK, PTL DEF Spec

-------------------------------------------------------------------------------
(* A request that holds a row id loses it when the row is deleted.         *)

LEMMA StepHeldRow == TypeOK /\ HeldRowExists /\ [Next]_vars => HeldRowExists'
  <1> SUFFICES ASSUME TypeOK, HeldRowExists, [Next]_vars PROVE HeldRowExists'
    OBVIOUS
  <1> USE DEF TypeOK, HeldRowExists, At, Return, Idle, Request
  <1>1. ASSUME NEW r \in Requests, NEW u \in Users, NEW t \in Targets,
               FindExisting(r, u, t)
        PROVE  HeldRowExists'
    BY <1>1 DEF FindExisting
  <1>2. ASSUME NEW r \in Requests, DeleteLike(r) PROVE HeldRowExists'
    <2> SUFFICES ASSUME NEW q \in Requests, req'[q].pc = "write",
                        req'[q].saw = "row"
                 PROVE  req'[q].user \in likers'[req'[q].target]
      OBVIOUS
    <2>1. q # r /\ ~HoldsRow(q, req[r].user, req[r].target)
      BY <1>2 DEF DeleteLike, AfterWrite
    <2>2. req'[q] = req[q]
      BY <1>2, <2>1 DEF DeleteLike
    <2>3. QED
      BY <1>2, <2>1, <2>2 DEF DeleteLike, HoldsRow
  <1>3. ASSUME NEW r \in Requests, DeleteLikeFails(r) PROVE HeldRowExists'
    BY <1>3 DEF DeleteLikeFails
  <1>4. ASSUME NEW r \in Requests, CreateLike(r) PROVE HeldRowExists'
    BY <1>4 DEF CreateLike, AfterWrite
  <1>5. ASSUME NEW r \in Requests, CreateLikeFails(r) PROVE HeldRowExists'
    BY <1>5 DEF CreateLikeFails, OnDuplicate
  <1>6. ASSUME NEW r \in Requests, AdjustLikeCount(r) PROVE HeldRowExists'
    BY <1>6 DEF AdjustLikeCount
  <1>7. ASSUME NEW r \in Requests, Dies(r) PROVE HeldRowExists'
    BY <1>7 DEF Dies
  <1>8. CASE UNCHANGED vars
    BY <1>8 DEF vars
  <1>9. QED
    BY <1>1, <1>2, <1>3, <1>4, <1>5, <1>6, <1>7, <1>8 DEF Next, RequestStep

LEMMA StepAdjustFollows ==
  TypeOK /\ AdjustFollowsWrite /\ [Next]_vars => AdjustFollowsWrite'
  BY DEF TypeOK, AdjustFollowsWrite, At, Return, Idle, Request, Next,
         RequestStep, FindExisting, DeleteLike, DeleteLikeFails, CreateLike,
         CreateLikeFails, AdjustLikeCount, Dies, AfterWrite, OnDuplicate,
         HoldsRow, vars

-------------------------------------------------------------------------------
(* Conservation.  The sum of a target, and what each step does to it.      *)

Shown(t) ==
  likeCount[t] + lost[t] + Cardinality(Owed(t, "none")) - Cardinality(Owed(t, "row"))

\* Steps that neither owe nor settle an adjustment.
LEMMA ShownFrame ==
  ASSUME UNCHANGED <<likeCount, lost>>,
         \A q \in Requests : (At(q, "adjust") \/ At(q, "adjust")')
                               => req'[q] = req[q]
  PROVE  \A t \in Targets : Shown(t)' = Shown(t)
  <1> SUFFICES ASSUME NEW t \in Targets PROVE Shown(t)' = Shown(t)
    OBVIOUS
  <1>1. Owed(t, "none")' = Owed(t, "none") /\ Owed(t, "row")' = Owed(t, "row")
    BY DEF Owed, At
  <1>2. QED
    BY <1>1 DEF Shown

\* A request that starts to owe an adjustment adds its delta to the sum.
LEMMA ShownOwes ==
  ASSUME TypeOK, UNCHANGED <<likeCount, lost>>, NEW r \in Requests, ~At(r, "adjust"),
         At(r, "adjust")', req'[r].saw \in {"none", "row"},
         \A q \in Requests \ {r} : (At(q, "adjust") \/ At(q, "adjust")')
                                      => req'[q] = req[q]
  PROVE  \A t \in Targets : Shown(t)' =
           IF req'[r].target = t THEN Shown(t) + Delta(req'[r].saw)
                                 ELSE Shown(t)
  <1> SUFFICES ASSUME NEW t \in Targets
               PROVE  Shown(t)' =
                        IF req'[r].target = t
                          THEN Shown(t) + Delta(req'[r].saw) ELSE Shown(t)
    OBVIOUS
  <1>0. /\ likeCount[t] \in Int /\ likeCount'[t] = likeCount[t]
        /\ lost[t] \in Int /\ lost'[t] = lost[t]
    BY DEF TypeOK
  <1>1. /\ IsFiniteSet(Owed(t, "none")) /\ Cardinality(Owed(t, "none")) \in Nat
        /\ IsFiniteSet(Owed(t, "row")) /\ Cardinality(Owed(t, "row")) \in Nat
    BY OwedFinite DEF Saw
  <1>2. r \notin Owed(t, "none") /\ r \notin Owed(t, "row")
    BY DEF Owed
  <1>3. CASE req'[r].target = t /\ req'[r].saw = "none"
    <2>1. /\ Owed(t, "none")' = Owed(t, "none") \cup {r}
          /\ Owed(t, "row")' = Owed(t, "row")
      BY <1>3 DEF Owed, At
    <2>2. Cardinality(Owed(t, "none") \cup {r}) = Cardinality(Owed(t, "none")) + 1
      BY <1>1, <1>2, FS_AddElement
    <2>3. /\ Cardinality(Owed(t, "none")') = Cardinality(Owed(t, "none")) + 1
          /\ Cardinality(Owed(t, "row")') = Cardinality(Owed(t, "row"))
      BY <2>1, <2>2
    <2>4. QED
      BY <1>0, <1>1, <1>3, <2>3 DEF Shown, Delta
  <1>4. CASE req'[r].target = t /\ req'[r].saw = "row"
    <2>1. /\ Owed(t, "row")' = Owed(t, "row") \cup {r}
          /\ Owed(t, "none")' = Owed(t, "none")
      BY <1>4 DEF Owed, At
    <2>2. Cardinality(Owed(t, "row") \cup {r}) = Cardinality(Owed(t, "row")) + 1
      BY <1>1, <1>2, FS_AddElement
    <2>3. /\ Cardinality(Owed(t, "row")') = Cardinality(Owed(t, "row")) + 1
          /\ Cardinality(Owed(t, "none")') = Cardinality(Owed(t, "none"))
      BY <2>1, <2>2
    <2>4. QED
      BY <1>0, <1>1, <1>4, <2>3 DEF Shown, Delta
  <1>5. CASE req'[r].target # t
    <2>1. /\ Owed(t, "row")' = Owed(t, "row")
          /\ Owed(t, "none")' = Owed(t, "none")
      BY <1>5 DEF Owed, At
    <2>2. QED
      BY <1>0, <1>5, <2>1 DEF Shown
  <1>6. QED
    BY <1>3, <1>4, <1>5

\* An adjustment that is made, or lost, moves from the requests to a column.
LEMMA ShownSettles ==
  ASSUME TypeOK, AdjustFollowsWrite, NEW r \in Requests, At(r, "adjust"),
         AdjustLikeCount(r) \/ Dies(r)
  PROVE  \A t \in Targets : Shown(t)' = Shown(t)
  <1> SUFFICES ASSUME NEW t \in Targets PROVE Shown(t)' = Shown(t)
    OBVIOUS
  <1>a. /\ req' = [req EXCEPT ![r] = Idle]
        /\ req[r].saw \in {"none", "row"} /\ req[r].target \in Targets
        /\ likeCount[t] \in Int /\ lost[t] \in Int
    BY DEF AdjustLikeCount, Dies, Return, TypeOK, AdjustFollowsWrite, At
  <1>0. likeCount'[t] + lost'[t] =
          IF req[r].target = t
            THEN likeCount[t] + lost[t] + Delta(req[r].saw)
            ELSE likeCount[t] + lost[t]
    <2>1. CASE AdjustLikeCount(r)
      <3>1. /\ lost'[t] = lost[t]
            /\ likeCount'[t] = IF req[r].target = t
                                 THEN likeCount[t] + Delta(req[r].saw)
                                 ELSE likeCount[t]
        BY <2>1 DEF AdjustLikeCount, TypeOK
      <3>2. QED
        BY <1>a, <3>1 DEF Delta
    <2>2. CASE Dies(r)
      <3>1. /\ likeCount'[t] = likeCount[t]
            /\ lost'[t] = IF req[r].target = t
                            THEN lost[t] + Delta(req[r].saw) ELSE lost[t]
        BY <2>2 DEF Dies, TypeOK
      <3>2. QED
        BY <1>a, <3>1 DEF Delta
    <2>3. QED
      BY <2>1, <2>2
  <1>b. likeCount'[t] \in Int /\ lost'[t] \in Int
    BY DEF AdjustLikeCount, Dies, TypeOK, Delta, At
  <1>1. /\ IsFiniteSet(Owed(t, "none")) /\ Cardinality(Owed(t, "none")) \in Nat
        /\ IsFiniteSet(Owed(t, "row")) /\ Cardinality(Owed(t, "row")) \in Nat
    BY OwedFinite DEF Saw
  <1>2. /\ Owed(t, "none")' = Owed(t, "none") \ {r}
        /\ Owed(t, "row")' = Owed(t, "row") \ {r}
    BY <1>a DEF Owed, At, Idle, TypeOK
  <1>3. /\ Cardinality(Owed(t, "none")') =
             IF r \in Owed(t, "none") THEN Cardinality(Owed(t, "none")) - 1
                                      ELSE Cardinality(Owed(t, "none"))
        /\ Cardinality(Owed(t, "row")') =
             IF r \in Owed(t, "row") THEN Cardinality(Owed(t, "row")) - 1
                                     ELSE Cardinality(Owed(t, "row"))
    BY <1>1, <1>2, FS_RemoveElement
  <1>4. /\ r \in Owed(t, "none") <=> req[r].target = t /\ req[r].saw = "none"
        /\ r \in Owed(t, "row") <=> req[r].target = t /\ req[r].saw = "row"
    BY <1>a DEF Owed
  <1>5. QED
    BY <1>a, <1>b, <1>0, <1>1, <1>3, <1>4 DEF Shown, Delta

LEMMA StepConserved ==
  Inv /\ [Next]_vars => LikeCountConserved'
  <1> SUFFICES ASSUME Inv, [Next]_vars
               PROVE  \A t \in Targets : Shown(t)' = Cardinality(likers'[t])
    BY DEF LikeCountConserved, Shown
  <1> USE DEF Inv, At, Return, Idle
  <1>2. \A t \in Targets : Shown(t) = Cardinality(likers[t])
    BY DEF LikeCountConserved, Shown
  <1>3. ASSUME NEW r \in Requests, NEW u \in Users, NEW t \in Targets,
               FindExisting(r, u, t)
        PROVE  \A v \in Targets : Shown(v)' = Cardinality(likers'[v])
    BY <1>2, <1>3, ShownFrame DEF FindExisting, TypeOK
  <1>4. ASSUME NEW r \in Requests, DeleteLike(r)
        PROVE  \A v \in Targets : Shown(v)' = Cardinality(likers'[v])
    <2> DEFINE t == req[r].target
               u == req[r].user
    <2>1. /\ t \in Targets /\ u \in likers[t]
          /\ likers' = [likers EXCEPT ![t] = @ \ {u}]
      BY <1>4 DEF DeleteLike, TypeOK, HeldRowExists
    <2>2. req'[r].target = t /\ req'[r].pc = "adjust" /\ req'[r].saw = "row"
      BY <1>4 DEF DeleteLike, AfterWrite, TypeOK, Request
    <2>3. \A q \in Requests \ {r} : (At(q, "adjust") \/ At(q, "adjust")')
                                       => req'[q] = req[q]
      BY <1>4 DEF DeleteLike, HoldsRow, TypeOK, Request
    <2>4. UNCHANGED <<likeCount, lost>> /\ ~At(r, "adjust")
      BY <1>4 DEF DeleteLike
    <2> HIDE DEF t, u
    <2>5. \A v \in Targets :
            Shown(v)' = IF t = v THEN Shown(v) - 1 ELSE Shown(v)
      <3>1. \A v \in Targets :
              Shown(v)' = IF t = v THEN Shown(v) + (-1) ELSE Shown(v)
        BY <2>2, <2>3, <2>4, ShownOwes DEF Delta
      <3>2. \A v \in Targets : Shown(v) \in Int
        BY <1>2, LikersFinite
      <3>3. QED
        BY <3>1, <3>2
    <2>6. Cardinality(likers[t] \ {u}) = Cardinality(likers[t]) - 1
      BY <2>1, LikersFinite, FS_RemoveElement
    <2>7. QED
      BY <1>2, <2>1, <2>5, <2>6 DEF TypeOK
  <1>5. ASSUME NEW r \in Requests, CreateLike(r)
        PROVE  \A v \in Targets : Shown(v)' = Cardinality(likers'[v])
    <2> DEFINE t == req[r].target
               u == req[r].user
    <2>1. /\ t \in Targets /\ u \notin likers[t]
          /\ likers' = [likers EXCEPT ![t] = @ \cup {u}]
      BY <1>5 DEF CreateLike, TypeOK
    <2>2. req'[r].target = t /\ req'[r].pc = "adjust" /\ req'[r].saw = "none"
      BY <1>5 DEF CreateLike, AfterWrite, TypeOK, Request
    <2>3. \A q \in Requests \ {r} : req'[q] = req[q]
      BY <1>5 DEF CreateLike, TypeOK
    <2>4. UNCHANGED <<likeCount, lost>> /\ ~At(r, "adjust")
      BY <1>5 DEF CreateLike
    <2> HIDE DEF t, u
    <2>5. \A v \in Targets :
            Shown(v)' = IF t = v THEN Shown(v) + 1 ELSE Shown(v)
      BY <2>2, <2>3, <2>4, ShownOwes DEF Delta
    <2>6. Cardinality(likers[t] \cup {u}) = Cardinality(likers[t]) + 1
      BY <2>1, LikersFinite, FS_AddElement
    <2>7. QED
      BY <1>2, <2>1, <2>5, <2>6 DEF TypeOK
  <1>6. ASSUME NEW r \in Requests, DeleteLikeFails(r) \/ CreateLikeFails(r)
        PROVE  \A v \in Targets : Shown(v)' = Cardinality(likers'[v])
    <2>1. /\ req' = [req EXCEPT ![r] = Idle] /\ At(r, "write")
          /\ UNCHANGED <<likers, likeCount, lost>>
      BY <1>6 DEF DeleteLikeFails, CreateLikeFails, OnDuplicate
    <2>2. \A v \in Targets : Shown(v)' = Shown(v)
      BY <2>1, ShownFrame DEF TypeOK
    <2>3. QED
      BY <1>2, <2>1, <2>2
  <1>7. ASSUME NEW r \in Requests, AdjustLikeCount(r)
        PROVE  \A v \in Targets : Shown(v)' = Cardinality(likers'[v])
    BY <1>2, <1>7, ShownSettles DEF AdjustLikeCount
  <1>8. ASSUME NEW r \in Requests, Dies(r)
        PROVE  \A v \in Targets : Shown(v)' = Cardinality(likers'[v])
    <2>1. CASE At(r, "adjust")
      BY <1>2, <1>8, <2>1, ShownSettles DEF Dies
    <2>2. CASE ~At(r, "adjust")
      <3>1. \A v \in Targets : Shown(v)' = Shown(v)
        BY <1>8, <2>2, ShownFrame DEF Dies, TypeOK
      <3>2. QED
        BY <1>8, <3>1, <1>2 DEF Dies
    <2>3. QED
      BY <2>1, <2>2
  <1>9. CASE UNCHANGED vars
    BY <1>2, <1>9, ShownFrame DEF vars
  <1>10. QED
    BY <1>3, <1>4, <1>5, <1>6, <1>7, <1>8, <1>9 DEF Next, RequestStep

(* likeCount and the adjustments in flight or lost add up to the likes of  *)
(* every target, for any number of users and overlapping toggles.          *)
THEOREM LikeCountAlwaysConserved == Spec => []LikeCountConserved
  <1>1. Inv /\ [Next]_vars => Inv'
    BY StepTypeOK, StepHeldRow, StepAdjustFollows, StepConserved DEF Inv
  <1>2. Inv => LikeCountConserved
    BY DEF Inv
  <1>3. QED
    BY InitInv, <1>1, <1>2, PTL DEF Spec

-------------------------------------------------------------------------------
(* Refinement.  The shown count of a target is the number of its likes,    *)
(* before and after every step, so only the writes of CommunityLike rows   *)
(* move the board.                                                         *)

LEMMA ShownIsCardinality ==
  ASSUME Inv
  PROVE  ShownCount = [t \in Targets |-> Cardinality(likers[t])]
  BY DEF Inv, LikeCountConserved, ShownCount

LEMMA StepRefines ==
  ASSUME Inv, Inv', [Next]_vars
  PROVE  [Board!Next]_<<likers, ShownCount>>
  <1>0. ShownCount = [t \in Targets |-> Cardinality(likers[t])]
    BY ShownIsCardinality
  <1>1. ShownCount' = [t \in Targets |-> Cardinality(likers'[t])]
    BY DEF Inv, LikeCountConserved, ShownCount
  <1>2. TypeOK /\ HeldRowExists
    BY DEF Inv
  <1> HIDE DEF ShownCount
  <1>3. CASE UNCHANGED likers
    BY <1>0, <1>1, <1>3
  <1>4. ASSUME NEW r \in Requests, DeleteLike(r)
        PROVE  Board!Next
    <2> DEFINE t == req[r].target
               u == req[r].user
    <2>1. /\ u \in Users /\ t \in Targets /\ u \in likers[t]
          /\ likers' = [likers EXCEPT ![t] = @ \ {u}]
      BY <1>2, <1>4 DEF DeleteLike, TypeOK, HeldRowExists, At
    <2> HIDE DEF t, u
    <2>2. Cardinality(likers[t] \ {u}) = Cardinality(likers[t]) - 1
      BY <1>2, <2>1, LikersFinite, FS_RemoveElement
    <2>3. ShownCount' = [ShownCount EXCEPT ![t] = @ - 1]
      BY <1>0, <1>1, <1>2, <2>1, <2>2 DEF TypeOK
    <2>4. Board!Unlike(u, t)
      BY <2>1, <2>3 DEF Board!Unlike
    <2>5. QED
      BY <2>1, <2>4 DEF Board!Next
  <1>5. ASSUME NEW r \in Requests, CreateLike(r)
        PROVE  Board!Next
    <2> DEFINE t == req[r].target
               u == req[r].user
    <2>1. /\ u \in Users /\ t \in Targets /\ u \notin likers[t]
          /\ likers' = [likers EXCEPT ![t] = @ \cup {u}]
      BY <1>2, <1>5 DEF CreateLike, TypeOK, At
    <2> HIDE DEF t, u
    <2>2. Cardinality(likers[t] \cup {u}) = Cardinality(likers[t]) + 1
      BY <1>2, <2>1, LikersFinite, FS_AddElement
    <2>3. ShownCount' = [ShownCount EXCEPT ![t] = @ + 1]
      BY <1>0, <1>1, <1>2, <2>1, <2>2 DEF TypeOK
    <2>4. Board!Like(u, t)
      BY <2>1, <2>3 DEF Board!Like
    <2>5. QED
      BY <2>1, <2>4 DEF Board!Next
  <1>6. QED
    BY <1>3, <1>4, <1>5
       DEF Next, RequestStep, FindExisting, DeleteLikeFails, CreateLikeFails,
           AdjustLikeCount, Dies, vars

(* The likes implement the abstract board: every create is one Like, every *)
(* delete one Unlike, and the shown count follows at once although the     *)
(* column is adjusted later.                                               *)
THEOREM LikesImplementBoard == Spec => ImplementsBoard
  <1>1. Init => Board!Init
    <2> SUFFICES ASSUME Init PROVE Board!Init
      OBVIOUS
    <2>1. ShownCount = [t \in Targets |-> Cardinality(likers[t])]
      BY InitInv, ShownIsCardinality
    <2>2. ShownCount = [t \in Targets |-> 0]
      BY <2>1, FS_EmptySet DEF Init
    <2>3. QED
      BY <2>2 DEF Init, Board!Init
  <1>2. Inv /\ [Next]_vars => Inv'
    BY StepTypeOK, StepHeldRow, StepAdjustFollows, StepConserved DEF Inv
  <1>3. Inv /\ Inv' /\ [Next]_vars => [Board!Next]_<<likers, ShownCount>>
    BY StepRefines
  <1>4. QED
    BY InitInv, <1>1, <1>2, <1>3, PTL DEF Spec, ImplementsBoard, Board!Spec
================================================================================
