----------------------------- MODULE ThreadsProofs -----------------------------
(***************************************************************************)
(* Theorems about Threads for any finite sets of comments, replies and     *)
(* requests.  Conservation of the counters needs to know what a request    *)
(* that is about to write has in hand: a creation the only claim to an id  *)
(* that no row has yet, a deletion a row that exists and was found live,   *)
(* and for a reply the comment it is under.                                *)
(***************************************************************************)
EXTENDS Threads, FiniteSetTheorems, TLAPS

OnComment(op) == op \in {"createComment", "deleteComment"}
OnReply(op)   == op \in {"createReply", "deleteReply"}

\* What a request is about is of the kind that its operation is for.
Aimed ==
  \A r \in Requests : req[r].pc # "idle" =>
    /\ OnComment(req[r].op) => req[r].item \in Comments /\ req[r].under = NoItem
    /\ OnReply(req[r].op) => req[r].item \in Replies /\ req[r].under \in Comments
    /\ req[r].pc = "adjust" => req[r].op # "deletePost"

\* A reply that exists is under a comment.
RepliesHaveParents ==
  \A p \in Replies : reply[p] # "absent" => parent[p] \in Comments

\* An id chosen for a new row is free and no other creation has it.
CreatesFresh ==
  \A r \in Requests :
    /\ At(r, "write", "createComment") =>
         /\ comment[req[r].item] = "absent"
         /\ \A q \in Requests \ {r} :
              At(q, "write", "createComment") => req[q].item # req[r].item
    /\ At(r, "write", "createReply") =>
         /\ reply[req[r].item] = "absent"
         /\ \A q \in Requests \ {r} :
              At(q, "write", "createReply") => req[q].item # req[r].item

\* A row about to be deleted exists and was live when it was found.
DeletesFound ==
  \A r \in Requests :
    /\ At(r, "write", "deleteComment") =>
         comment[req[r].item] # "absent" /\ req[r].foundLive
    /\ At(r, "write", "deleteReply") =>
         /\ reply[req[r].item] # "absent" /\ req[r].foundLive
         /\ parent[req[r].item] = req[r].under

Shape == TypeOK /\ Aimed /\ RepliesHaveParents /\ CreatesFresh /\ DeletesFound

\* What deaths have taken from the post's counter, and given to it.
LostBounded == lost[NoItem] >= -deaths

-------------------------------------------------------------------------------
(* Type correctness and the shape of the requests.                         *)

LEMMA InitShape == Init => Shape
  <1> SUFFICES ASSUME Init PROVE Shape
    OBVIOUS
  <1>1. TypeOK
    <2>1. Idle \in Request
      BY DEF Idle, Request, Ops
    <2>2. /\ req \in [Requests -> Request]
          /\ comment \in [Comments -> Life] /\ reply \in [Replies -> Life]
          /\ parent \in [Replies -> Comments \cup {NoItem}]
          /\ replyCount \in [Comments -> Int]
      BY <2>1 DEF Init, Life
    <2>3. postDeleted \in BOOLEAN
      BY DEF Init
    <2>a. again \in [Counted -> Nat] /\ lost \in [Counted -> Int]
      BY DEF Init
    <2>4. commentCount \in Int /\ deaths \in Nat
      BY DEF Init
    <2>5. QED
      BY <2>2, <2>3, <2>a, <2>4 DEF TypeOK
  <1>2. Aimed /\ RepliesHaveParents /\ CreatesFresh /\ DeletesFound
    BY DEF Init, Aimed, RepliesHaveParents, CreatesFresh, DeletesFound, At, Idle
  <1>3. QED
    BY <1>1, <1>2 DEF Shape

\* A step that gives one request a new record leaves the others theirs.
LEMMA SlotGiven ==
  ASSUME TypeOK, NEW r \in Requests, NEW v \in Request,
         req' = [req EXCEPT ![r] = v]
  PROVE  /\ req' \in [Requests -> Request]
         /\ req'[r] = v
         /\ \A q \in Requests \ {r} : req'[q] = req[q]
  BY DEF TypeOK

\* The record of a request that has begun, and of one that has written.
LEMMA SlotStarts ==
  ASSUME TypeOK, NEW r \in Requests, NEW op \in Ops,
         NEW i \in Comments \cup Replies \cup {NoItem},
         NEW c \in Comments \cup {NoItem}, NEW live \in BOOLEAN,
         Start(r, op, i, c, live)
  PROVE  /\ req[r].pc = "idle" /\ req' \in [Requests -> Request]
         /\ req'[r] = [pc |-> "write", op |-> op, item |-> i, under |-> c,
                       foundLive |-> live]
         /\ \A q \in Requests \ {r} : req'[q] = req[q]
  <1>1. [pc |-> "write", op |-> op, item |-> i, under |-> c,
         foundLive |-> live] \in Request
    BY DEF Request
  <1>2. QED
    BY <1>1, SlotGiven DEF Start

LEMMA SlotWrites ==
  ASSUME TypeOK, NEW r \in Requests, ToAdjust(r)
  PROVE  /\ req' \in [Requests -> Request]
         /\ req'[r].pc = "adjust" /\ req'[r].op = req[r].op
         /\ req'[r].item = req[r].item /\ req'[r].under = req[r].under
         /\ \A q \in Requests \ {r} : req'[q] = req[q]
  BY DEF TypeOK, ToAdjust, Request

LEMMA SlotReturns ==
  ASSUME TypeOK, NEW r \in Requests, Return(r)
  PROVE  /\ req' \in [Requests -> Request]
         /\ req'[r].pc = "idle"
         /\ \A q \in Requests \ {r} : req'[q] = req[q]
  BY DEF TypeOK, Return, Request, Idle, Ops

\* A request that ends leaves the shape of the others alone.
LEMMA ReturnKeepsShape ==
  ASSUME Shape, NEW r \in Requests, Return(r),
         UNCHANGED <<comment, reply, parent, again>>,
         postDeleted' \in BOOLEAN, commentCount' \in Int,
         replyCount' \in [Comments -> Int], deaths' \in Nat,
         lost' \in [Counted -> Int]
  PROVE  Shape'
  <1> USE DEF Shape
  <1>1. /\ req' \in [Requests -> Request]
        /\ req'[r].pc = "idle"
        /\ \A q \in Requests \ {r} : req'[q] = req[q]
    BY SlotReturns
  <1>2. TypeOK'
    BY <1>1 DEF TypeOK
  <1>3. Aimed' /\ RepliesHaveParents'
    BY <1>1 DEF Aimed, RepliesHaveParents
  <1>4. CreatesFresh'
    BY <1>1 DEF CreatesFresh, At
  <1>5. DeletesFound'
    BY <1>1 DEF DeletesFound, At
  <1>6. QED
    BY <1>2, <1>3, <1>4, <1>5

LEMMA ArrivalKeepsShape ==
  ASSUME Shape, NEW r \in Requests, Arrival(r)
  PROVE  Shape'
  <1> USE DEF Shape
  <1>f. UNCHANGED <<rows, counters, history>>
    BY DEF Arrival, CreateCommentFindsPost, DeleteCommentFinds,
           CreateReplyFindsComment, DeleteReplyFinds, DeletePostFinds
  <1>1. ASSUME NEW c \in Comments, CreateCommentFindsPost(r, c) PROVE Shape'
    <2>1. /\ req[r].pc = "idle" /\ req' \in [Requests -> Request]
          /\ req'[r] = [pc |-> "write", op |-> "createComment", item |-> c,
                        under |-> NoItem, foundLive |-> FALSE]
          /\ \A q \in Requests \ {r} : req'[q] = req[q]
      BY <1>1, SlotStarts DEF CreateCommentFindsPost, Ops
    <2>2. comment[c] = "absent" /\ \A q \in Requests : req[q].item # c
      BY <1>1 DEF CreateCommentFindsPost
    <2>3. TypeOK'
      BY <1>f, <2>1 DEF TypeOK, rows, counters, history
    <2>4. Aimed' /\ RepliesHaveParents'
      BY <1>f, <2>1 DEF Aimed, RepliesHaveParents, OnComment, OnReply, rows
    <2>5. CreatesFresh'
      BY <1>f, <2>1, <2>2 DEF CreatesFresh, At, rows
    <2>6. DeletesFound'
      BY <1>f, <2>1 DEF DeletesFound, At, rows
    <2>7. QED
      BY <2>3, <2>4, <2>5, <2>6
  <1>2. ASSUME NEW c \in Comments, DeleteCommentFinds(r, c) PROVE Shape'
    <2>1. comment[c] = "live"
      BY <1>2 DEF DeleteCommentFinds, Visible
    <2>2. /\ req[r].pc = "idle" /\ req' \in [Requests -> Request]
          /\ req'[r] = [pc |-> "write", op |-> "deleteComment", item |-> c,
                        under |-> NoItem, foundLive |-> TRUE]
          /\ \A q \in Requests \ {r} : req'[q] = req[q]
      BY <1>2, <2>1, SlotStarts DEF DeleteCommentFinds, Ops
    <2>3. TypeOK'
      BY <1>f, <2>2 DEF TypeOK, rows, counters, history
    <2>4. Aimed' /\ RepliesHaveParents'
      BY <1>f, <2>2 DEF Aimed, RepliesHaveParents, OnComment, OnReply, rows
    <2>5. CreatesFresh'
      BY <1>f, <2>2 DEF CreatesFresh, At, rows
    <2>6. DeletesFound'
      BY <1>f, <2>1, <2>2 DEF DeletesFound, At, rows
    <2>7. QED
      BY <2>3, <2>4, <2>5, <2>6
  <1>3. ASSUME NEW c \in Comments, NEW p \in Replies,
               CreateReplyFindsComment(r, c, p)
        PROVE  Shape'
    <2>1. /\ req[r].pc = "idle" /\ req' \in [Requests -> Request]
          /\ req'[r] = [pc |-> "write", op |-> "createReply", item |-> p,
                        under |-> c, foundLive |-> FALSE]
          /\ \A q \in Requests \ {r} : req'[q] = req[q]
      BY <1>3, SlotStarts DEF CreateReplyFindsComment, Ops
    <2>2. reply[p] = "absent" /\ \A q \in Requests : req[q].item # p
      BY <1>3 DEF CreateReplyFindsComment
    <2>3. TypeOK'
      BY <1>f, <2>1 DEF TypeOK, rows, counters, history
    <2>4. Aimed' /\ RepliesHaveParents'
      BY <1>f, <2>1 DEF Aimed, RepliesHaveParents, OnComment, OnReply, rows
    <2>5. CreatesFresh'
      BY <1>f, <2>1, <2>2 DEF CreatesFresh, At, rows
    <2>6. DeletesFound'
      BY <1>f, <2>1 DEF DeletesFound, At, rows
    <2>7. QED
      BY <2>3, <2>4, <2>5, <2>6
  <1>4. ASSUME NEW p \in Replies, DeleteReplyFinds(r, p) PROVE Shape'
    <2>1. reply[p] = "live" /\ parent[p] \in Comments
      BY <1>4 DEF DeleteReplyFinds, Visible, RepliesHaveParents
    <2>2. /\ req[r].pc = "idle" /\ req' \in [Requests -> Request]
          /\ req'[r] = [pc |-> "write", op |-> "deleteReply", item |-> p,
                        under |-> parent[p], foundLive |-> TRUE]
          /\ \A q \in Requests \ {r} : req'[q] = req[q]
      BY <1>4, <2>1, SlotStarts DEF DeleteReplyFinds, Ops
    <2>3. TypeOK'
      BY <1>f, <2>2 DEF TypeOK, rows, counters, history
    <2>4. Aimed' /\ RepliesHaveParents'
      BY <1>f, <2>1, <2>2 DEF Aimed, RepliesHaveParents, OnComment, OnReply, rows
    <2>5. CreatesFresh'
      BY <1>f, <2>2 DEF CreatesFresh, At, rows
    <2>6. DeletesFound'
      BY <1>f, <2>1, <2>2 DEF DeletesFound, At, rows
    <2>7. QED
      BY <2>3, <2>4, <2>5, <2>6
  <1>5. CASE DeletePostFinds(r)
    <2>1. /\ req[r].pc = "idle" /\ req' \in [Requests -> Request]
          /\ req'[r] = [pc |-> "write", op |-> "deletePost", item |-> NoItem,
                        under |-> NoItem, foundLive |-> FALSE]
          /\ \A q \in Requests \ {r} : req'[q] = req[q]
      BY <1>5, SlotStarts DEF DeletePostFinds, Ops
    <2>3. TypeOK'
      BY <1>f, <2>1 DEF TypeOK, rows, counters, history
    <2>4. Aimed' /\ RepliesHaveParents'
      BY <1>f, <2>1 DEF Aimed, RepliesHaveParents, OnComment, OnReply, rows
    <2>5. CreatesFresh'
      BY <1>f, <2>1 DEF CreatesFresh, At, rows
    <2>6. DeletesFound'
      BY <1>f, <2>1 DEF DeletesFound, At, rows
    <2>7. QED
      BY <2>3, <2>4, <2>5, <2>6
  <1>6. QED
    BY <1>1, <1>2, <1>3, <1>4, <1>5 DEF Arrival

LEMMA CommentWritesKeepShape ==
  ASSUME Shape, NEW r \in Requests, CreateCommentWrites(r) \/ DeleteCommentWrites(r)
  PROVE  Shape'
  <1> USE DEF Shape
  <1>1. /\ ToAdjust(r) /\ req[r].pc = "write" /\ OnComment(req[r].op)
        /\ UNCHANGED <<reply, parent, postDeleted, counters, lost, deaths>>
    BY DEF CreateCommentWrites, DeleteCommentWrites, At, OnComment, history
  <1>2. /\ req' \in [Requests -> Request]
        /\ req'[r].pc = "adjust" /\ req'[r].op = req[r].op
        /\ req'[r].item = req[r].item /\ req'[r].under = req[r].under
        /\ \A q \in Requests \ {r} : req'[q] = req[q]
    BY <1>1, SlotWrites
  <1>3. req[r].item \in Comments
    BY <1>1 DEF Aimed
  <1>4. PICK life \in {"live", "deleted"} :
          comment' = [comment EXCEPT ![req[r].item] = life]
    BY DEF CreateCommentWrites, DeleteCommentWrites
  <1>5. again' \in [Counted -> Nat]
    BY DEF CreateCommentWrites, DeleteCommentWrites, NoteAgain, TypeOK, history
  <1>6. TypeOK'
    BY <1>1, <1>2, <1>4, <1>5 DEF TypeOK, counters, Life
  <1>7. Aimed' /\ RepliesHaveParents'
    BY <1>1, <1>2 DEF Aimed, RepliesHaveParents, OnComment
  <1>8. CreatesFresh'
    <2>1. ASSUME NEW q \in Requests, At(q, "write", "createComment")'
          PROVE  comment'[req'[q].item] = "absent"
      <3>1. q # r /\ req'[q] = req[q] /\ At(q, "write", "createComment")
        BY <1>2, <2>1 DEF At
      <3>2. comment[req[q].item] = "absent"
        BY <3>1 DEF CreatesFresh
      <3>3. req[r].item # req[q].item
        <4>1. CASE CreateCommentWrites(r)
          BY <3>1, <4>1 DEF CreatesFresh, CreateCommentWrites
        <4>2. CASE DeleteCommentWrites(r)
          BY <3>2, <4>2 DEF DeletesFound, DeleteCommentWrites
        <4>3. QED
          BY <4>1, <4>2
      <3>4. QED
        BY <3>1, <3>2, <3>3, <1>4 DEF TypeOK
    <2>2. \A q \in Requests :
            (At(q, "write", "createComment") \/ At(q, "write", "createReply"))'
              => q # r /\ req'[q] = req[q]
      BY <1>2 DEF At
    <2>3. QED
      BY <1>1, <2>1, <2>2 DEF CreatesFresh, At
  <1>9. DeletesFound'
    <2>1. \A q \in Requests :
            (At(q, "write", "deleteComment") \/ At(q, "write", "deleteReply"))'
              => q # r /\ req'[q] = req[q]
      BY <1>2 DEF At
    <2>2. \A c \in Comments : comment[c] # "absent" => comment'[c] # "absent"
      BY <1>4 DEF TypeOK
    <2>3. QED
      BY <1>1, <2>1, <2>2 DEF DeletesFound, At, Aimed, OnComment
  <1>10. QED
    BY <1>6, <1>7, <1>8, <1>9

LEMMA ReplyWritesKeepShape ==
  ASSUME Shape, NEW r \in Requests, CreateReplyWrites(r) \/ DeleteReplyWrites(r)
  PROVE  Shape'
  <1> USE DEF Shape
  <1>1. /\ ToAdjust(r) /\ req[r].pc = "write" /\ OnReply(req[r].op)
        /\ UNCHANGED <<comment, postDeleted, counters, lost, deaths>>
    BY DEF CreateReplyWrites, DeleteReplyWrites, At, OnReply, history
  <1>2. /\ req' \in [Requests -> Request]
        /\ req'[r].pc = "adjust" /\ req'[r].op = req[r].op
        /\ req'[r].item = req[r].item /\ req'[r].under = req[r].under
        /\ \A q \in Requests \ {r} : req'[q] = req[q]
    BY <1>1, SlotWrites
  <1>3. req[r].item \in Replies /\ req[r].under \in Comments
    BY <1>1 DEF Aimed
  <1>4. PICK life \in {"live", "deleted"} :
          reply' = [reply EXCEPT ![req[r].item] = life]
    BY DEF CreateReplyWrites, DeleteReplyWrites
  <1>a. /\ parent' \in [Replies -> Comments \cup {NoItem}]
        /\ parent'[req[r].item] \in Comments
        /\ \A p \in Replies : reply[p] # "absent" => parent'[p] = parent[p]
    <2>1. CASE CreateReplyWrites(r)
      <3>1. /\ reply[req[r].item] = "absent"
            /\ parent' = [parent EXCEPT ![req[r].item] = req[r].under]
        BY <2>1 DEF CreateReplyWrites, CreatesFresh, ParentOf
      <3>2. QED
        BY <3>1, <1>3 DEF TypeOK
    <2>2. CASE DeleteReplyWrites(r)
      BY <2>2, <1>3 DEF DeleteReplyWrites, DeletesFound, TypeOK
    <2>3. QED
      BY <2>1, <2>2
  <1>5. again' \in [Counted -> Nat]
    BY DEF CreateReplyWrites, DeleteReplyWrites, NoteAgain, TypeOK, history
  <1>6. TypeOK'
    BY <1>1, <1>2, <1>4, <1>5, <1>a DEF TypeOK, counters, Life
  <1>7. Aimed'
    BY <1>1, <1>2 DEF Aimed, OnReply
  <1>b. RepliesHaveParents'
    <2> SUFFICES ASSUME NEW p \in Replies, reply'[p] # "absent"
                 PROVE  parent'[p] \in Comments
      BY DEF RepliesHaveParents
    <2>1. CASE p = req[r].item
      BY <2>1, <1>a
    <2>2. CASE p # req[r].item
      BY <2>2, <1>4, <1>a DEF TypeOK, RepliesHaveParents
    <2>3. QED
      BY <2>1, <2>2
  <1>8. CreatesFresh'
    <2>1. ASSUME NEW q \in Requests, At(q, "write", "createReply")'
          PROVE  reply'[req'[q].item] = "absent"
      <3>1. q # r /\ req'[q] = req[q] /\ At(q, "write", "createReply")
        BY <1>2, <2>1 DEF At
      <3>2. reply[req[q].item] = "absent"
        BY <3>1 DEF CreatesFresh
      <3>3. req[r].item # req[q].item
        <4>1. CASE CreateReplyWrites(r)
          BY <3>1, <4>1 DEF CreatesFresh, CreateReplyWrites
        <4>2. CASE DeleteReplyWrites(r)
          BY <3>2, <4>2 DEF DeletesFound, DeleteReplyWrites
        <4>3. QED
          BY <4>1, <4>2
      <3>4. QED
        BY <3>1, <3>2, <3>3, <1>4 DEF TypeOK
    <2>2. \A q \in Requests :
            (At(q, "write", "createComment") \/ At(q, "write", "createReply"))'
              => q # r /\ req'[q] = req[q]
      BY <1>2 DEF At
    <2>3. QED
      BY <1>1, <2>1, <2>2 DEF CreatesFresh, At
  <1>9. DeletesFound'
    <2>1. \A q \in Requests :
            (At(q, "write", "deleteComment") \/ At(q, "write", "deleteReply"))'
              => q # r /\ req'[q] = req[q]
      BY <1>2 DEF At
    <2>2. \A p \in Replies : reply[p] # "absent" => reply'[p] # "absent"
      BY <1>4 DEF TypeOK
    <2>3. QED
      BY <1>1, <2>1, <2>2, <1>a DEF DeletesFound, At, Aimed, OnReply
  <1>10. QED
    BY <1>6, <1>7, <1>b, <1>8, <1>9

LEMMA StepShape == Shape /\ [Next]_vars => Shape'
  <1> SUFFICES ASSUME Shape, [Next]_vars PROVE Shape'
    OBVIOUS
  <1> USE DEF Shape
  <1>1. ASSUME NEW r \in Requests, AdjustCommentCount(r) PROVE Shape'
    BY <1>1, ReturnKeepsShape DEF AdjustCommentCount, TypeOK, Delta, rows, history
  <1>2. ASSUME NEW r \in Requests, AdjustReplyCount(r) PROVE Shape'
    <2>1. req[r].under \in Comments
      BY <1>2 DEF AdjustReplyCount, Aimed, OnReply
    <2>2. replyCount' \in [Comments -> Int]
      <3>1. replyCount[req[r].under] + Delta(req[r].op) \in Int
        BY <2>1 DEF TypeOK, Delta
      <3>2. QED
        BY <1>2, <3>1 DEF AdjustReplyCount, TypeOK
    <2>3. /\ Return(r) /\ UNCHANGED <<comment, reply, parent, again>>
          /\ postDeleted' \in BOOLEAN /\ commentCount' \in Int /\ deaths' \in Nat
          /\ lost' \in [Counted -> Int]
      BY <1>2 DEF AdjustReplyCount, TypeOK, rows, history
    <2>4. QED
      BY <2>2, <2>3, ReturnKeepsShape
  <1>3. ASSUME NEW r \in Requests, DeletePostWrites(r) PROVE Shape'
    BY <1>3, ReturnKeepsShape DEF DeletePostWrites, TypeOK, counters, history
  <1>4. ASSUME NEW r \in Requests, Dies(r) PROVE Shape'
    <2>a. Delta(req[r].op) \in Int /\ lost \in [Counted -> Int]
      BY DEF TypeOK, Delta
    <2>b. lost' \in {lost, [lost EXCEPT ![req[r].under] = @ + Delta(req[r].op)]}
      BY <1>4 DEF Dies
    <2>1. lost' \in [Counted -> Int]
      BY <2>a, <2>b
    <2>2. /\ Return(r) /\ UNCHANGED <<comment, reply, parent, again>>
          /\ postDeleted' \in BOOLEAN /\ commentCount' \in Int /\ deaths' \in Nat
          /\ replyCount' \in [Comments -> Int]
      BY <1>4 DEF Dies, TypeOK, counters, rows
    <2>3. QED
      BY <2>1, <2>2, ReturnKeepsShape
  <1>5. CASE UNCHANGED vars
    BY <1>5 DEF vars, rows, counters, history, TypeOK, Aimed, RepliesHaveParents,
                CreatesFresh, DeletesFound, At
  <1>6. QED
    BY <1>1, <1>2, <1>3, <1>4, <1>5, ArrivalKeepsShape, CommentWritesKeepShape,
       ReplyWritesKeepShape DEF Next, RequestStep

LEMMA ShapeAlways == Spec => []Shape
  BY InitShape, StepShape, PTL DEF Spec

(* The rows, counters and requests of a thread keep their types: every     *)
(* adjustment is of a counter there is, since a request that has written   *)
(* knows what its row is under.                                            *)
THEOREM TypeCorrect == Spec => []TypeOK
  <1>1. Shape => TypeOK
    BY DEF Shape
  <1>2. QED
    BY <1>1, ShapeAlways, PTL

-------------------------------------------------------------------------------
(* What a step does to the adjustments that are owed.                      *)

Owes(r, op)         == IF At(r, "adjust", op) THEN 1 ELSE 0
OwesUnder(r, op, c) == IF At(r, "adjust", op) /\ req[r].under = c THEN 1 ELSE 0

\* The column of a counter with what the history books to it, and with what
\* is still owed.
CommentBase  == commentCount + lost[NoItem] + again[NoItem]
ReplyBase(c) == replyCount[c] + lost[c] + again[c]
CommentSum   == CommentBase + Cardinality(Owed("createComment"))
                  - Cardinality(Owed("deleteComment"))
ReplySum(c)  == ReplyBase(c) + Cardinality(OwedUnder("createReply", c))
                  - Cardinality(OwedUnder("deleteReply", c))

LEMMA BasesTyped ==
  /\ TypeOK => CommentBase \in Int /\ \A c \in Comments : ReplyBase(c) \in Int
  /\ TypeOK' => CommentBase' \in Int /\ \A c \in Comments : ReplyBase(c)' \in Int
  BY DEF TypeOK, CommentBase, ReplyBase, Counted

LEMMA OwedFinite ==
  ASSUME NEW op
  PROVE  /\ IsFiniteSet(Owed(op)) /\ Cardinality(Owed(op)) \in Nat
         /\ \A c : /\ IsFiniteSet(OwedUnder(op, c))
                   /\ Cardinality(OwedUnder(op, c)) \in Nat
  <1>1. Owed(op) \subseteq Requests /\ \A c : OwedUnder(op, c) \subseteq Requests
    BY DEF Owed, OwedUnder
  <1>2. QED
    BY <1>1, ThreadsAssumption, FS_Subset, FS_CardinalityType

LEMMA OwedMoves ==
  ASSUME NEW r \in Requests, NEW op, \A q \in Requests \ {r} : req'[q] = req[q]
  PROVE  Cardinality(Owed(op)') = Cardinality(Owed(op)) + Owes(r, op)' - Owes(r, op)
  <1> DEFINE rest == Owed(op) \ {r}
  <1>1. IsFiniteSet(rest) /\ Cardinality(rest) \in Nat
    BY OwedFinite, FS_RemoveElement, FS_CardinalityType
  <1>2. Cardinality(Owed(op)) = Cardinality(rest) + Owes(r, op)
    <2>1. CASE At(r, "adjust", op)
      <3>1. Owed(op) = rest \cup {r} /\ r \notin rest
        BY <2>1 DEF Owed
      <3>2. QED
        BY <1>1, <2>1, <3>1, FS_AddElement DEF Owes
    <2>2. CASE ~At(r, "adjust", op)
      <3>1. Owed(op) = rest
        BY <2>2 DEF Owed
      <3>2. QED
        BY <1>1, <2>2, <3>1 DEF Owes
    <2>3. QED
      BY <2>1, <2>2
  <1>3. Cardinality(Owed(op)') = Cardinality(rest) + Owes(r, op)'
    <2>1. CASE At(r, "adjust", op)'
      <3>1. Owed(op)' = rest \cup {r} /\ r \notin rest
        BY <2>1 DEF Owed, At
      <3>2. QED
        BY <1>1, <2>1, <3>1, FS_AddElement DEF Owes
    <2>2. CASE ~At(r, "adjust", op)'
      <3>1. Owed(op)' = rest
        BY <2>2 DEF Owed, At
      <3>2. QED
        BY <1>1, <2>2, <3>1 DEF Owes
    <2>3. QED
      BY <2>1, <2>2
  <1>4. QED
    BY <1>1, <1>2, <1>3 DEF Owes

LEMMA OwedUnderMoves ==
  ASSUME NEW r \in Requests, NEW op, NEW c,
         \A q \in Requests \ {r} : req'[q] = req[q]
  PROVE  Cardinality(OwedUnder(op, c)') =
           Cardinality(OwedUnder(op, c)) + OwesUnder(r, op, c)' - OwesUnder(r, op, c)
  <1> DEFINE rest == OwedUnder(op, c) \ {r}
  <1>1. IsFiniteSet(rest) /\ Cardinality(rest) \in Nat
    BY OwedFinite, FS_RemoveElement, FS_CardinalityType
  <1>2. Cardinality(OwedUnder(op, c)) = Cardinality(rest) + OwesUnder(r, op, c)
    <2>1. CASE At(r, "adjust", op) /\ req[r].under = c
      <3>1. OwedUnder(op, c) = rest \cup {r} /\ r \notin rest
        BY <2>1 DEF Owed, OwedUnder
      <3>2. QED
        BY <1>1, <2>1, <3>1, FS_AddElement DEF OwesUnder
    <2>2. CASE ~(At(r, "adjust", op) /\ req[r].under = c)
      <3>1. OwedUnder(op, c) = rest
        BY <2>2 DEF Owed, OwedUnder
      <3>2. QED
        BY <1>1, <2>2, <3>1 DEF OwesUnder
    <2>3. QED
      BY <2>1, <2>2
  <1>3. Cardinality(OwedUnder(op, c)') = Cardinality(rest) + OwesUnder(r, op, c)'
    <2>1. CASE At(r, "adjust", op)' /\ req'[r].under = c
      <3>1. OwedUnder(op, c)' = rest \cup {r} /\ r \notin rest
        BY <2>1 DEF Owed, OwedUnder, At
      <3>2. QED
        BY <1>1, <2>1, <3>1, FS_AddElement DEF OwesUnder
    <2>2. CASE ~(At(r, "adjust", op)' /\ req'[r].under = c)
      <3>1. OwedUnder(op, c)' = rest
        BY <2>2 DEF Owed, OwedUnder, At
      <3>2. QED
        BY <1>1, <2>2, <3>1 DEF OwesUnder
    <2>3. QED
      BY <2>1, <2>2
  <1>4. QED
    BY <1>1, <1>2, <1>3 DEF OwesUnder

\* The two sums after a step of one request.
LEMMA SumsMove ==
  ASSUME TypeOK, TypeOK', NEW r \in Requests,
         \A q \in Requests \ {r} : req'[q] = req[q]
  PROVE  /\ CommentSum \in Int /\ CommentBase \in Int /\ CommentBase' \in Int
         /\ CommentSum' = CommentSum + (CommentBase' - CommentBase)
              + (Owes(r, "createComment")' - Owes(r, "createComment"))
              - (Owes(r, "deleteComment")' - Owes(r, "deleteComment"))
         /\ \A c \in Comments :
              /\ ReplySum(c) \in Int /\ ReplyBase(c) \in Int /\ ReplyBase(c)' \in Int
              /\ ReplySum(c)' = ReplySum(c) + (ReplyBase(c)' - ReplyBase(c))
                   + (OwesUnder(r, "createReply", c)' - OwesUnder(r, "createReply", c))
                   - (OwesUnder(r, "deleteReply", c)' - OwesUnder(r, "deleteReply", c))
  <1>1. /\ Cardinality(Owed("createComment")) \in Nat
        /\ Cardinality(Owed("deleteComment")) \in Nat
        /\ \A c : /\ Cardinality(OwedUnder("createReply", c)) \in Nat
                  /\ Cardinality(OwedUnder("deleteReply", c)) \in Nat
    BY OwedFinite
  <1>2. /\ Cardinality(Owed("createComment")') = Cardinality(Owed("createComment"))
             + Owes(r, "createComment")' - Owes(r, "createComment")
        /\ Cardinality(Owed("deleteComment")') = Cardinality(Owed("deleteComment"))
             + Owes(r, "deleteComment")' - Owes(r, "deleteComment")
    BY OwedMoves
  <1>3. ASSUME NEW c \in Comments
        PROVE  /\ ReplySum(c) \in Int /\ ReplyBase(c) \in Int /\ ReplyBase(c)' \in Int
               /\ ReplySum(c)' = ReplySum(c) + (ReplyBase(c)' - ReplyBase(c))
                    + (OwesUnder(r, "createReply", c)' - OwesUnder(r, "createReply", c))
                    - (OwesUnder(r, "deleteReply", c)' - OwesUnder(r, "deleteReply", c))
    <2>1. /\ Cardinality(OwedUnder("createReply", c)') =
               Cardinality(OwedUnder("createReply", c))
                 + OwesUnder(r, "createReply", c)' - OwesUnder(r, "createReply", c)
          /\ Cardinality(OwedUnder("deleteReply", c)') =
               Cardinality(OwedUnder("deleteReply", c))
                 + OwesUnder(r, "deleteReply", c)' - OwesUnder(r, "deleteReply", c)
      BY OwedUnderMoves
    <2>2. ReplyBase(c) \in Int /\ ReplyBase(c)' \in Int
      BY BasesTyped
    <2>3. QED
      BY <1>1, <2>1, <2>2 DEF ReplySum, OwesUnder
  <1>4. /\ CommentSum \in Int /\ CommentBase \in Int /\ CommentBase' \in Int
        /\ CommentSum' = CommentSum + (CommentBase' - CommentBase)
              + (Owes(r, "createComment")' - Owes(r, "createComment"))
              - (Owes(r, "deleteComment")' - Owes(r, "deleteComment"))
    <2>1. CommentBase \in Int /\ CommentBase' \in Int
      BY BasesTyped
    <2>2. QED
      BY <1>1, <1>2, <2>1 DEF CommentSum, Owes
  <1>5. QED
    BY <1>3, <1>4

-------------------------------------------------------------------------------
(* Every step keeps the sums and the live rows in balance: a row deleted a *)
(* second time and a death are in the history's part of the sum.           *)

CommentsBalance ==
  CommentSum' + Cardinality(LiveComments) = CommentSum + Cardinality(LiveComments)'

RepliesBalance ==
  \A c \in Comments :
    ReplySum(c)' + Cardinality(LiveReplies(c)) =
      ReplySum(c) + Cardinality(LiveReplies(c))'

LEMMA LiveFinite ==
  /\ IsFiniteSet(LiveComments) /\ Cardinality(LiveComments) \in Nat
  /\ \A c : IsFiniteSet(LiveReplies(c)) /\ Cardinality(LiveReplies(c)) \in Nat
  <1>1. LiveComments \subseteq Comments /\ \A c : LiveReplies(c) \subseteq Replies
    BY DEF LiveComments, LiveReplies
  <1>2. QED
    BY <1>1, ThreadsAssumption, FS_Subset, FS_CardinalityType

\* Steps of one request that leave the rows alone and whose adjustment, if it
\* was owed, is made or lost.
LEMMA QuietBalance ==
  ASSUME TypeOK, TypeOK', NEW r \in Requests,
         \A q \in Requests \ {r} : req'[q] = req[q],
         UNCHANGED <<comment, reply, parent>>,
         req'[r].pc # "adjust",
         CommentBase' = CommentBase
           + Owes(r, "createComment") - Owes(r, "deleteComment"),
         \A c \in Comments : ReplyBase(c)' = ReplyBase(c)
           + OwesUnder(r, "createReply", c) - OwesUnder(r, "deleteReply", c)
  PROVE  CommentsBalance /\ RepliesBalance
  <1>2. /\ \A op : Owes(r, op) \in Int /\ Owes(r, op)' = 0
        /\ \A op, c : OwesUnder(r, op, c) \in Int /\ OwesUnder(r, op, c)' = 0
    BY DEF Owes, OwesUnder, At
  <1>4. LiveComments' = LiveComments /\ \A c : LiveReplies(c)' = LiveReplies(c)
    BY DEF LiveComments, LiveReplies
  <1>5. CommentSum' = CommentSum
    BY <1>2, SumsMove
  <1>6. ASSUME NEW c \in Comments PROVE ReplySum(c)' = ReplySum(c)
    <2>1. /\ ReplySum(c) \in Int /\ ReplyBase(c) \in Int
          /\ ReplySum(c)' = ReplySum(c) + (ReplyBase(c)' - ReplyBase(c))
               + (OwesUnder(r, "createReply", c)' - OwesUnder(r, "createReply", c))
               - (OwesUnder(r, "deleteReply", c)' - OwesUnder(r, "deleteReply", c))
      BY SumsMove
    <2>2. QED
      BY <1>2, <2>1
  <1>7. QED
    BY <1>4, <1>5, <1>6 DEF CommentsBalance, RepliesBalance

LEMMA ArrivalBalance ==
  ASSUME Shape, Shape', NEW r \in Requests, Arrival(r)
  PROVE  CommentsBalance /\ RepliesBalance
  <1>1. UNCHANGED <<rows, counters, history>>
    BY DEF Arrival, CreateCommentFindsPost, DeleteCommentFinds,
           CreateReplyFindsComment, DeleteReplyFinds, DeletePostFinds
  <1>2. /\ req[r].pc = "idle" /\ req'[r].pc = "write"
        /\ \A q \in Requests \ {r} : req'[q] = req[q]
    BY DEF Arrival, CreateCommentFindsPost, DeleteCommentFinds, Start,
           CreateReplyFindsComment, DeleteReplyFinds, DeletePostFinds, TypeOK, Shape
  <1>3. /\ \A op : Owes(r, op) = 0
        /\ \A op, c : OwesUnder(r, op, c) = 0
    BY <1>2 DEF Owes, OwesUnder, At
  <1>4. TypeOK /\ TypeOK'
    BY DEF Shape
  <1>5. /\ CommentBase' = CommentBase /\ CommentBase \in Int
        /\ \A c \in Comments : ReplyBase(c)' = ReplyBase(c) /\ ReplyBase(c) \in Int
    BY <1>1, <1>4, BasesTyped DEF CommentBase, ReplyBase, counters, history
  <1>6. UNCHANGED <<comment, reply, parent>> /\ req'[r].pc # "adjust"
    BY <1>1, <1>2 DEF rows
  <1>7. /\ CommentBase' = CommentBase
             + Owes(r, "createComment") - Owes(r, "deleteComment")
        /\ \A c \in Comments : ReplyBase(c)' = ReplyBase(c)
             + OwesUnder(r, "createReply", c) - OwesUnder(r, "deleteReply", c)
    BY <1>3, <1>5
  <1>8. QED
    BY <1>2, <1>4, <1>6, <1>7, QuietBalance

\* An adjustment is made, or lost with its request: what was owed moves to the
\* column, or to the history.
LEMMA AdjustBalance ==
  ASSUME Shape, Shape', NEW r \in Requests,
         \/ AdjustCommentCount(r) \/ AdjustReplyCount(r)
         \/ DeletePostWrites(r) \/ Dies(r)
  PROVE  CommentsBalance /\ RepliesBalance
  <1>1. /\ UNCHANGED <<comment, reply, parent>> /\ req'[r].pc # "adjust"
        /\ \A q \in Requests \ {r} : req'[q] = req[q]
    BY SlotReturns
    DEF AdjustCommentCount, AdjustReplyCount, DeletePostWrites, Dies, rows, Shape
  <1>2. TypeOK /\ TypeOK'
    BY DEF Shape
  <1>3. /\ commentCount \in Int /\ \A c \in Comments : replyCount[c] \in Int
        /\ \A k \in Counted : again[k] \in Int /\ lost[k] \in Int
        /\ NoItem \in Counted /\ NoItem \notin Comments /\ Comments \subseteq Counted
    BY <1>2, ThreadsAssumption DEF TypeOK, Counted
  <1>4. CommentBase' = CommentBase
          + Owes(r, "createComment") - Owes(r, "deleteComment")
    <2>1. CASE At(r, "adjust", "createComment") \/ At(r, "adjust", "deleteComment")
      <3>1. /\ req[r].under = NoItem /\ OnComment(req[r].op)
            /\ Delta(req[r].op) \in Int
            /\ Delta(req[r].op) = Owes(r, "createComment") - Owes(r, "deleteComment")
        BY <2>1 DEF Shape, Aimed, At, OnComment, Delta, Owes
      <3>2. again' = again
        BY <2>1 DEF AdjustCommentCount, AdjustReplyCount, DeletePostWrites, Dies,
                    At, history
      <3>3. commentCount' + lost'[NoItem] = commentCount + lost[NoItem] + Delta(req[r].op)
        <4>1. CASE AdjustCommentCount(r)
          BY <1>3, <3>1, <4>1 DEF AdjustCommentCount, history
        <4>2. CASE Dies(r)
          <5>1. /\ commentCount' = commentCount
                /\ lost'[NoItem] = lost[NoItem] + Delta(req[r].op)
            BY <1>2, <1>3, <2>1, <3>1, <4>2 DEF Dies, At, counters, TypeOK
          <5>2. QED
            BY <1>3, <3>1, <5>1
        <4>3. QED
          BY <2>1, <4>1, <4>2 DEF AdjustReplyCount, DeletePostWrites, At
      <3>4. commentCount' \in Int /\ lost'[NoItem] \in Int
        BY <1>2, <1>3 DEF TypeOK
      <3>5. Owes(r, "createComment") \in Int /\ Owes(r, "deleteComment") \in Int
        BY DEF Owes
      <3>6. QED
        BY <1>3, <3>1, <3>2, <3>3, <3>4, <3>5 DEF CommentBase
    <2>2. CASE ~(At(r, "adjust", "createComment") \/ At(r, "adjust", "deleteComment"))
      <3>1. Owes(r, "createComment") = 0 /\ Owes(r, "deleteComment") = 0
        BY <2>2 DEF Owes
      <3>2. ~AdjustCommentCount(r)
        BY <2>2 DEF AdjustCommentCount, At
      <3>3. commentCount' = commentCount /\ again' = again
        BY <3>2 DEF AdjustReplyCount, DeletePostWrites, Dies, counters, history
      <3>4. lost'[NoItem] = lost[NoItem]
        <4>1. CASE Dies(r) /\ req[r].pc = "adjust"
          <5>1. OnReply(req[r].op)
            BY <1>2, <2>2, <4>1
            DEF Shape, Aimed, At, OnReply, TypeOK, Request, Ops
          <5>2. req[r].under \in Comments
            BY <4>1, <5>1 DEF Shape, Aimed
          <5>3. QED
            BY <1>2, <1>3, <4>1, <5>2 DEF Dies, TypeOK
        <4>2. CASE ~(Dies(r) /\ req[r].pc = "adjust")
          BY <3>2, <4>2 DEF AdjustReplyCount, DeletePostWrites, Dies, history
        <4>3. QED
          BY <4>1, <4>2
      <3>5. CommentBase' = CommentBase /\ CommentBase \in Int
        BY <1>2, <3>3, <3>4, BasesTyped DEF CommentBase
      <3>6. QED
        BY <3>1, <3>5
    <2>3. QED
      BY <2>1, <2>2
  <1>5. ASSUME NEW c \in Comments
        PROVE  ReplyBase(c)' = ReplyBase(c)
                 + OwesUnder(r, "createReply", c) - OwesUnder(r, "deleteReply", c)
    <2>1. CASE /\ At(r, "adjust", "createReply") \/ At(r, "adjust", "deleteReply")
               /\ req[r].under = c
      <3>1. /\ OnReply(req[r].op) /\ Delta(req[r].op) \in Int
            /\ Delta(req[r].op) = OwesUnder(r, "createReply", c)
                                    - OwesUnder(r, "deleteReply", c)
        BY <2>1 DEF At, OnReply, Delta, OwesUnder
      <3>2. again' = again
        BY <2>1 DEF AdjustCommentCount, AdjustReplyCount, DeletePostWrites, Dies,
                    At, history
      <3>3. replyCount'[c] + lost'[c] = replyCount[c] + lost[c] + Delta(req[r].op)
        <4>1. CASE AdjustReplyCount(r)
          <5>1. /\ replyCount'[c] = replyCount[c] + Delta(req[r].op)
                /\ lost'[c] = lost[c]
            BY <1>2, <2>1, <4>1 DEF AdjustReplyCount, TypeOK, history
          <5>2. QED
            BY <1>3, <3>1, <5>1
        <4>2. CASE Dies(r)
          <5>1. /\ replyCount'[c] = replyCount[c]
                /\ lost'[c] = lost[c] + Delta(req[r].op)
            BY <1>2, <1>3, <2>1, <4>2 DEF Dies, At, counters, TypeOK
          <5>2. QED
            BY <1>3, <3>1, <5>1
        <4>3. QED
          BY <2>1, <4>1, <4>2 DEF AdjustCommentCount, DeletePostWrites, At
      <3>4. replyCount'[c] \in Int /\ lost'[c] \in Int
        BY <1>2, <1>3 DEF TypeOK
      <3>5. OwesUnder(r, "createReply", c) \in Int /\ OwesUnder(r, "deleteReply", c) \in Int
        BY DEF OwesUnder
      <3>6. QED
        BY <1>3, <3>1, <3>2, <3>3, <3>4, <3>5 DEF ReplyBase
    <2>2. CASE ~(/\ At(r, "adjust", "createReply") \/ At(r, "adjust", "deleteReply")
                 /\ req[r].under = c)
      <3>1. OwesUnder(r, "createReply", c) = 0 /\ OwesUnder(r, "deleteReply", c) = 0
        BY <2>2 DEF OwesUnder
      <3>2. again' = again
        BY DEF AdjustCommentCount, AdjustReplyCount, DeletePostWrites, Dies, history
      <3>3. replyCount'[c] = replyCount[c]
        <4>1. CASE AdjustReplyCount(r)
          <5>1. req[r].under # c /\ req[r].under \in Comments
            BY <2>2, <4>1 DEF AdjustReplyCount, At, Shape, Aimed, OnReply
          <5>2. QED
            BY <1>2, <4>1, <5>1 DEF AdjustReplyCount, TypeOK
        <4>2. CASE ~AdjustReplyCount(r)
          BY <4>2 DEF AdjustCommentCount, DeletePostWrites, Dies, counters
        <4>3. QED
          BY <4>1, <4>2
      <3>4. lost'[c] = lost[c]
        <4>1. CASE Dies(r) /\ req[r].pc = "adjust"
          <5>1. req[r].under # c
            BY <1>2, <1>3, <2>2, <4>1
            DEF Shape, Aimed, At, OnComment, TypeOK, Request, Ops
          <5>2. QED
            BY <1>2, <1>3, <4>1, <5>1 DEF Dies, TypeOK
        <4>2. CASE ~(Dies(r) /\ req[r].pc = "adjust")
          BY <4>2 DEF AdjustCommentCount, AdjustReplyCount, DeletePostWrites, Dies,
                      history
        <4>3. QED
          BY <4>1, <4>2
      <3>5. ReplyBase(c)' = ReplyBase(c) /\ ReplyBase(c) \in Int
        BY <1>2, <3>2, <3>3, <3>4, BasesTyped DEF ReplyBase
      <3>6. QED
        BY <3>1, <3>5
    <2>3. QED
      BY <2>1, <2>2
  <1>6. QED
    BY <1>1, <1>2, <1>4, <1>5, QuietBalance

LEMMA CommentWritesBalance ==
  ASSUME Shape, Shape', NEW r \in Requests,
         CreateCommentWrites(r) \/ DeleteCommentWrites(r)
  PROVE  CommentsBalance /\ RepliesBalance
  <1> DEFINE c == req[r].item
  <1>1. /\ ToAdjust(r) /\ req[r].pc = "write" /\ OnComment(req[r].op)
        /\ UNCHANGED <<reply, parent, counters, lost>>
    BY DEF CreateCommentWrites, DeleteCommentWrites, At, OnComment, history
  <1>t. TypeOK /\ TypeOK'
    BY DEF Shape
  <1>2. /\ req'[r].pc = "adjust" /\ req'[r].op = req[r].op
        /\ \A q \in Requests \ {r} : req'[q] = req[q]
    BY <1>1, <1>t, SlotWrites
  <1>3. c \in Comments /\ req[r].under = NoItem
    BY <1>1 DEF Shape, Aimed
  <1>4. /\ NoItem \notin Comments /\ NoItem \in Counted /\ Comments \subseteq Counted
        /\ \A k \in Counted : again[k] \in Nat
        /\ commentCount \in Int /\ lost[NoItem] \in Int
    BY <1>t, ThreadsAssumption DEF TypeOK, Counted
  <1>5. RepliesBalance
    <2>1. \A d \in Comments :
            /\ OwesUnder(r, "createReply", d)' = 0 /\ OwesUnder(r, "deleteReply", d)' = 0
            /\ OwesUnder(r, "createReply", d) = 0 /\ OwesUnder(r, "deleteReply", d) = 0
      BY <1>1, <1>2 DEF OwesUnder, At, OnComment
    <2>2. \A d \in Comments : LiveReplies(d)' = LiveReplies(d)
      BY <1>1 DEF LiveReplies
    <2>a. \A d \in Comments : again'[d] = again[d]
      BY <1>3, <1>4, <1>t
      DEF CreateCommentWrites, DeleteCommentWrites, NoteAgain, TypeOK, history
    <2>b. \A d \in Comments : ReplyBase(d)' = ReplyBase(d)
      BY <1>1, <2>a DEF ReplyBase, counters
    <2>3. ASSUME NEW d \in Comments PROVE ReplySum(d)' = ReplySum(d)
      <3>1. /\ ReplySum(d) \in Int /\ ReplyBase(d) \in Int
            /\ ReplySum(d)' = ReplySum(d) + (ReplyBase(d)' - ReplyBase(d))
                 + (OwesUnder(r, "createReply", d)' - OwesUnder(r, "createReply", d))
                 - (OwesUnder(r, "deleteReply", d)' - OwesUnder(r, "deleteReply", d))
        BY <1>2, <1>t, SumsMove
      <3>2. QED
        BY <2>1, <2>b, <3>1
    <2>4. QED
      BY <2>2, <2>3 DEF RepliesBalance
  <1>6. /\ CommentSum \in Int /\ CommentBase \in Int
        /\ CommentSum' = CommentSum + (CommentBase' - CommentBase)
             + (Owes(r, "createComment")' - Owes(r, "createComment"))
             - (Owes(r, "deleteComment")' - Owes(r, "deleteComment"))
    BY <1>2, <1>t, SumsMove
  <1>7. CASE CreateCommentWrites(r)
    <2>1. comment[c] = "absent" /\ comment' = [comment EXCEPT ![c] = "live"]
      BY <1>7 DEF CreateCommentWrites, CreatesFresh, Shape
    <2>2. LiveComments' = LiveComments \cup {c} /\ c \notin LiveComments
      BY <1>3, <1>t, <2>1 DEF LiveComments, TypeOK
    <2>3. Cardinality(LiveComments)' = Cardinality(LiveComments) + 1
      BY <2>2, LiveFinite, FS_AddElement
    <2>4. CommentBase' = CommentBase
      BY <1>1, <1>7 DEF CreateCommentWrites, CommentBase, counters, history
    <2>5. CommentSum' = CommentSum + 1
      BY <1>2, <1>6, <1>7, <2>4 DEF CreateCommentWrites, Owes, At
    <2>6. QED
      BY <1>5, <1>6, <2>3, <2>5, LiveFinite DEF CommentsBalance
  <1>8. CASE DeleteCommentWrites(r)
    <2>1. /\ comment[c] # "absent" /\ req[r].foundLive
          /\ comment' = [comment EXCEPT ![c] = "deleted"]
      BY <1>8 DEF DeleteCommentWrites, DeletesFound, Shape
    <2>2. CommentSum' = CommentSum + (CommentBase' - CommentBase) - 1
      BY <1>2, <1>6, <1>8, <1>t, BasesTyped DEF DeleteCommentWrites, Owes, At
    <2>3. CASE comment[c] = "live"
      <3>1. LiveComments' = LiveComments \ {c} /\ c \in LiveComments
        BY <1>3, <1>t, <2>1, <2>3 DEF LiveComments, TypeOK
      <3>2. Cardinality(LiveComments)' = Cardinality(LiveComments) - 1
        BY <3>1, LiveFinite, FS_RemoveElement
      <3>3. CommentBase' = CommentBase
        BY <1>1, <1>8, <2>3 DEF DeleteCommentWrites, NoteAgain, CommentBase, counters
      <3>4. CommentSum' = CommentSum - 1
        BY <1>6, <2>2, <3>3
      <3>5. QED
        BY <1>5, <1>6, <3>2, <3>4, LiveFinite DEF CommentsBalance
    <2>4. CASE comment[c] # "live"
      <3>1. comment[c] = "deleted"
        BY <1>3, <1>t, <2>1, <2>4 DEF TypeOK, Life
      <3>2. again'[NoItem] = again[NoItem] + 1
        BY <1>3, <1>4, <1>8, <1>t, <2>1, <3>1 DEF DeleteCommentWrites, NoteAgain, TypeOK
      <3>3. CommentBase' = CommentBase + 1
        BY <1>1, <1>4, <3>2 DEF CommentBase, counters
      <3>4. LiveComments' = LiveComments
        BY <1>3, <1>t, <2>1, <3>1 DEF LiveComments, TypeOK
      <3>5. CommentSum' = CommentSum
        BY <1>6, <2>2, <3>3
      <3>6. QED
        BY <1>5, <3>4, <3>5 DEF CommentsBalance
    <2>5. QED
      BY <2>3, <2>4
  <1>9. QED
    BY <1>7, <1>8

LEMMA ReplyWritesBalance ==
  ASSUME Shape, Shape', NEW r \in Requests,
         CreateReplyWrites(r) \/ DeleteReplyWrites(r)
  PROVE  CommentsBalance /\ RepliesBalance
  <1>1. /\ ToAdjust(r) /\ req[r].pc = "write" /\ OnReply(req[r].op)
        /\ UNCHANGED <<comment, counters, lost>>
    BY DEF CreateReplyWrites, DeleteReplyWrites, At, OnReply, history
  <1>t. TypeOK /\ TypeOK'
    BY DEF Shape
  <1>3. PICK p \in Replies, c \in Comments : p = req[r].item /\ c = req[r].under
    BY <1>1 DEF Shape, Aimed
  <1>2. /\ req'[r].pc = "adjust" /\ req'[r].op = req[r].op /\ req'[r].under = c
        /\ \A q \in Requests \ {r} : req'[q] = req[q]
    BY <1>1, <1>3, <1>t, SlotWrites
  <1>4. /\ NoItem \notin Comments /\ NoItem \in Counted /\ Comments \subseteq Counted
        /\ again \in [Counted -> Nat]
        /\ \A d \in Comments : replyCount[d] \in Int /\ lost[d] \in Int
    BY <1>t, ThreadsAssumption DEF TypeOK, Counted
  <1>5. CommentsBalance
    <2>1. \A op \in {"createComment", "deleteComment"} :
            Owes(r, op)' = 0 /\ Owes(r, op) = 0
      BY <1>1, <1>2 DEF Owes, At, OnReply
    <2>2. LiveComments' = LiveComments
      BY <1>1 DEF LiveComments
    <2>a. again'[NoItem] = again[NoItem]
      BY <1>3, <1>4
      DEF CreateReplyWrites, DeleteReplyWrites, NoteAgain, history
    <2>b. CommentBase' = CommentBase
      BY <1>1, <2>a DEF CommentBase, counters
    <2>c. /\ CommentSum \in Int /\ CommentBase \in Int
          /\ CommentSum' = CommentSum + (CommentBase' - CommentBase)
               + (Owes(r, "createComment")' - Owes(r, "createComment"))
               - (Owes(r, "deleteComment")' - Owes(r, "deleteComment"))
      BY <1>2, <1>t, SumsMove
    <2>3. CommentSum' = CommentSum
      BY <2>1, <2>b, <2>c
    <2>4. QED
      BY <2>2, <2>3 DEF CommentsBalance
  <1>6. ASSUME NEW d \in Comments
        PROVE  /\ ReplySum(d) \in Int /\ ReplyBase(d) \in Int /\ ReplyBase(d)' \in Int
               /\ ReplySum(d)' = ReplySum(d) + (ReplyBase(d)' - ReplyBase(d))
                    + OwesUnder(r, "createReply", d)' - OwesUnder(r, "deleteReply", d)'
    <2>1. /\ ReplySum(d) \in Int /\ ReplyBase(d) \in Int /\ ReplyBase(d)' \in Int
          /\ ReplySum(d)' = ReplySum(d) + (ReplyBase(d)' - ReplyBase(d))
               + (OwesUnder(r, "createReply", d)' - OwesUnder(r, "createReply", d))
               - (OwesUnder(r, "deleteReply", d)' - OwesUnder(r, "deleteReply", d))
      BY <1>2, <1>t, SumsMove
    <2>2. \A op : OwesUnder(r, op, d) = 0
      BY <1>1 DEF OwesUnder, At
    <2>3. QED
      BY <2>1, <2>2 DEF OwesUnder
  <1>a. ASSUME NEW d \in Comments, again'[d] = again[d]
        PROVE  ReplyBase(d)' = ReplyBase(d)
    BY <1>1, <1>a DEF ReplyBase, counters
  <1>7. CASE CreateReplyWrites(r)
    <2>1. /\ reply[p] = "absent" /\ reply' = [reply EXCEPT ![p] = "live"]
          /\ parent' = [parent EXCEPT ![p] = c] /\ again' = again
      BY <1>3, <1>7 DEF CreateReplyWrites, CreatesFresh, ParentOf, Shape, history
    <2>2. ASSUME NEW d \in Comments
          PROVE  ReplySum(d)' + Cardinality(LiveReplies(d)) =
                   ReplySum(d) + Cardinality(LiveReplies(d))'
      <3>b. ReplyBase(d)' = ReplyBase(d)
        BY <1>a, <2>1
      <3>1. CASE d = c
        <4>1. LiveReplies(d)' = LiveReplies(d) \cup {p} /\ p \notin LiveReplies(d)
          BY <1>3, <1>t, <2>1, <3>1 DEF LiveReplies, TypeOK
        <4>2. Cardinality(LiveReplies(d))' = Cardinality(LiveReplies(d)) + 1
          BY <4>1, LiveFinite, FS_AddElement
        <4>a. OwesUnder(r, "createReply", d)' = 1 /\ OwesUnder(r, "deleteReply", d)' = 0
          BY <1>2, <1>7, <3>1 DEF CreateReplyWrites, OwesUnder, At
        <4>3. ReplySum(d)' = ReplySum(d) + 1
          BY <1>6, <3>b, <4>a
        <4>4. QED
          BY <1>6, <4>2, <4>3, LiveFinite
      <3>2. CASE d # c
        <4>1. LiveReplies(d)' = LiveReplies(d)
          BY <1>3, <1>t, <2>1, <3>2 DEF LiveReplies, TypeOK
        <4>a. OwesUnder(r, "createReply", d)' = 0 /\ OwesUnder(r, "deleteReply", d)' = 0
          BY <1>2, <3>2 DEF OwesUnder
        <4>2. ReplySum(d)' = ReplySum(d)
          BY <1>6, <3>b, <4>a
        <4>3. QED
          BY <4>1, <4>2
      <3>3. QED
        BY <3>1, <3>2
    <2>3. QED
      BY <1>5, <2>2 DEF RepliesBalance
  <1>8. CASE DeleteReplyWrites(r)
    <2>1. /\ reply[p] # "absent" /\ req[r].foundLive /\ parent[p] = c
          /\ reply' = [reply EXCEPT ![p] = "deleted"] /\ parent' = parent
      BY <1>3, <1>8 DEF DeleteReplyWrites, DeletesFound, Shape
    <2>o. /\ OwesUnder(r, "createReply", c)' = 0 /\ OwesUnder(r, "deleteReply", c)' = 1
          /\ \A d \in Comments \ {c} : /\ OwesUnder(r, "createReply", d)' = 0
                                       /\ OwesUnder(r, "deleteReply", d)' = 0
      BY <1>2, <1>8 DEF DeleteReplyWrites, OwesUnder, At
    <2>s. ASSUME NEW d \in Comments, d # c
          PROVE  ReplySum(d)' + Cardinality(LiveReplies(d)) =
                   ReplySum(d) + Cardinality(LiveReplies(d))'
      <3>1. LiveReplies(d)' = LiveReplies(d)
        BY <1>3, <1>t, <2>1, <2>s DEF LiveReplies, TypeOK
      <3>2. again'[d] = again[d]
        BY <1>3, <1>4, <1>8, <2>s DEF DeleteReplyWrites, NoteAgain
      <3>3. ReplySum(d)' = ReplySum(d)
        BY <1>6, <1>a, <2>o, <2>s, <3>2
      <3>4. QED
        BY <3>1, <3>3
    <2>2. CASE reply[p] = "live"
      <3>1. LiveReplies(c)' = LiveReplies(c) \ {p} /\ p \in LiveReplies(c)
        BY <1>3, <1>t, <2>1, <2>2 DEF LiveReplies, TypeOK
      <3>2. Cardinality(LiveReplies(c))' = Cardinality(LiveReplies(c)) - 1
        <4>1. IsFiniteSet(LiveReplies(c))
          BY LiveFinite
        <4>2. Cardinality(LiveReplies(c) \ {p}) = Cardinality(LiveReplies(c)) - 1
          BY <3>1, <4>1, FS_RemoveElement
        <4>3. QED
          BY <3>1, <4>2
      <3>3. again'[c] = again[c]
        BY <1>3, <1>8, <2>2 DEF DeleteReplyWrites, NoteAgain
      <3>4. ReplySum(c)' = ReplySum(c) - 1
        BY <1>3, <1>6, <1>a, <2>o, <3>3
      <3>5. ReplySum(c)' + Cardinality(LiveReplies(c)) =
              ReplySum(c) + Cardinality(LiveReplies(c))'
        BY <1>3, <1>6, <3>2, <3>4, LiveFinite
      <3>6. QED
        BY <1>5, <2>s, <3>5 DEF RepliesBalance
    <2>3. CASE reply[p] # "live"
      <3>1. reply[p] = "deleted"
        BY <1>3, <1>t, <2>1, <2>3 DEF TypeOK, Life
      <3>2. again'[c] = again[c] + 1
        BY <1>3, <1>4, <1>8, <2>1, <3>1 DEF DeleteReplyWrites, NoteAgain
      <3>3. ReplyBase(c)' = ReplyBase(c) + 1
        BY <1>1, <1>3, <1>4, <3>2 DEF ReplyBase, counters
      <3>4. LiveReplies(c)' = LiveReplies(c)
        BY <1>3, <1>t, <2>1, <3>1 DEF LiveReplies, TypeOK
      <3>5. ReplySum(c)' = ReplySum(c)
        BY <1>3, <1>6, <2>o, <3>3
      <3>6. QED
        BY <1>5, <2>s, <3>4, <3>5 DEF RepliesBalance
    <2>4. QED
      BY <2>2, <2>3
  <1>9. QED
    BY <1>7, <1>8

LEMMA StepBalance ==
  ASSUME Shape, Shape', [Next]_vars
  PROVE  CommentsBalance /\ RepliesBalance
  <1>1. ASSUME NEW r \in Requests, Arrival(r) PROVE CommentsBalance /\ RepliesBalance
    BY <1>1, ArrivalBalance
  <1>2. ASSUME NEW r \in Requests, RequestStep(r) \/ Dies(r)
        PROVE  CommentsBalance /\ RepliesBalance
    BY <1>2, AdjustBalance, CommentWritesBalance, ReplyWritesBalance DEF RequestStep
  <1>3. ASSUME UNCHANGED vars PROVE CommentsBalance /\ RepliesBalance
    <2>1. CommentSum' = CommentSum /\ LiveComments' = LiveComments
      BY <1>3 DEF vars, rows, counters, history, CommentBase, CommentSum,
                  LiveComments, Owed, At
    <2>2. /\ \A c \in Comments : ReplySum(c)' = ReplySum(c)
          /\ \A c : LiveReplies(c)' = LiveReplies(c)
      BY <1>3 DEF vars, rows, counters, history, ReplyBase, ReplySum,
                  LiveReplies, OwedUnder, Owed, At
    <2>3. QED
      BY <2>1, <2>2 DEF CommentsBalance, RepliesBalance
  <1>4. QED
    BY <1>1, <1>2, <1>3 DEF Next

\* A death takes at most one from what is counted as lost.
LEMMA StepLostBounded ==
  Shape /\ LostBounded /\ [Next]_vars => LostBounded'
  <1> SUFFICES ASSUME Shape, LostBounded, [Next]_vars PROVE LostBounded'
    OBVIOUS
  <1>1. deaths \in Nat /\ lost \in [Counted -> Int] /\ NoItem \in Counted
    BY DEF Shape, TypeOK, Counted
  <1>2. ASSUME NEW r \in Requests, Dies(r) PROVE LostBounded'
    <2>1. deaths' = deaths + 1
      BY <1>2 DEF Dies
    <2>2. lost'[NoItem] \in {lost[NoItem], lost[NoItem] + 1, lost[NoItem] - 1}
      BY <1>1, <1>2 DEF Dies, Delta
    <2>3. QED
      BY <1>1, <2>1, <2>2 DEF LostBounded
  <1>3. CASE ~ \E r \in Requests : Dies(r)
    <2>1. UNCHANGED <<lost, deaths>>
      BY <1>3 DEF Next, Arrival, RequestStep, CreateCommentFindsPost,
         DeleteCommentFinds, CreateReplyFindsComment, DeleteReplyFinds,
         DeletePostFinds, CreateCommentWrites, DeleteCommentWrites,
         AdjustCommentCount, CreateReplyWrites, DeleteReplyWrites,
         AdjustReplyCount, DeletePostWrites, history, vars
    <2>2. QED
      BY <2>1 DEF LostBounded
  <1>4. QED
    BY <1>2, <1>3

LEMMA SumsTyped ==
  /\ TypeOK => CommentSum \in Int /\ \A c \in Comments : ReplySum(c) \in Int
  /\ TypeOK' => CommentSum' \in Int /\ \A c \in Comments : ReplySum(c)' \in Int
  <1>1. ASSUME NEW S \in SUBSET Requests PROVE Cardinality(S) \in Nat
    BY ThreadsAssumption, FS_Subset, FS_CardinalityType
  <1>2. /\ \A op : Owed(op) \in SUBSET Requests /\ Owed(op)' \in SUBSET Requests
        /\ \A op, c : /\ OwedUnder(op, c) \in SUBSET Requests
                      /\ OwedUnder(op, c)' \in SUBSET Requests
    BY DEF Owed, OwedUnder
  <1>3. ASSUME TypeOK
        PROVE  CommentSum \in Int /\ \A c \in Comments : ReplySum(c) \in Int
    BY <1>1, <1>2, <1>3, BasesTyped DEF CommentSum, ReplySum
  <1>4. ASSUME TypeOK'
        PROVE  CommentSum' \in Int /\ \A c \in Comments : ReplySum(c)' \in Int
    BY <1>1, <1>2, <1>4, BasesTyped DEF CommentSum, ReplySum
  <1>5. QED
    BY <1>3, <1>4

LEMMA LiveCounted ==
  /\ Cardinality(LiveComments) \in Nat /\ Cardinality(LiveComments)' \in Nat
  /\ \A c : /\ Cardinality(LiveReplies(c)) \in Nat
            /\ Cardinality(LiveReplies(c))' \in Nat
  <1>1. /\ LiveComments' \subseteq Comments
        /\ \A c : LiveReplies(c)' \subseteq Replies
    BY DEF LiveComments, LiveReplies
  <1>2. /\ Cardinality(LiveComments)' \in Nat
        /\ \A c : Cardinality(LiveReplies(c))' \in Nat
    BY <1>1, ThreadsAssumption, FS_Subset, FS_CardinalityType
  <1>3. QED
    BY <1>2, LiveFinite

\* The conjuncts of CountsConserved in terms of the sums.
SumsExact ==
  /\ CommentSum = Cardinality(LiveComments)
  /\ \A c \in Comments : ReplySum(c) = Cardinality(LiveReplies(c))

LEMMA ConservedBySums ==
  ASSUME TypeOK, LostBounded
  PROVE  CountsConserved <=> SumsExact
  <1>1. /\ \A op : Cardinality(Owed(op)) \in Nat
        /\ \A op, c : Cardinality(OwedUnder(op, c)) \in Nat
    BY OwedFinite
  <1>2. /\ commentCount \in Int /\ lost[NoItem] \in Int /\ again[NoItem] \in Nat
        /\ deaths \in Nat /\ lost[NoItem] >= -deaths
        /\ \A c \in Comments :
             replyCount[c] \in Int /\ lost[c] \in Int /\ again[c] \in Nat
    BY DEF TypeOK, Counted, LostBounded
  <1>3. CommentCountConserved <=> CommentSum = Cardinality(LiveComments)
    BY <1>1, <1>2, LiveFinite DEF CommentCountConserved, CommentSum, CommentBase
  <1>4. ReplyCountConserved <=>
          \A c \in Comments : ReplySum(c) = Cardinality(LiveReplies(c))
    <2> SUFFICES ASSUME NEW c \in Comments
                 PROVE  (replyCount[c] + Cardinality(OwedUnder("createReply", c))
                           - Cardinality(OwedUnder("deleteReply", c)) + lost[c]
                             = Cardinality(LiveReplies(c)) - again[c])
                        <=> ReplySum(c) = Cardinality(LiveReplies(c))
      BY DEF ReplyCountConserved
    <2>1. QED
      BY <1>1, <1>2, LiveFinite DEF ReplySum, ReplyBase
  <1>5. CommentCountConserved => CommentCountNeverAbove
    BY <1>1, <1>2, LiveFinite DEF CommentCountConserved, CommentCountNeverAbove
  <1>6. QED
    BY <1>3, <1>4, <1>5 DEF CountsConserved, SumsExact

Accounted == Shape /\ LostBounded /\ SumsExact

LEMMA InitAccounted == Init => Accounted
  <1> SUFFICES ASSUME Init PROVE Accounted
    OBVIOUS
  <1>1. \A op : Owed(op) = {} /\ \A c : OwedUnder(op, c) = {}
    BY DEF Init, Owed, OwedUnder, At, Idle
  <1>2. LiveComments = {} /\ \A c : LiveReplies(c) = {}
    BY DEF Init, LiveComments, LiveReplies
  <1>3. CommentBase = 0 /\ \A c \in Comments : ReplyBase(c) = 0
    BY DEF Init, CommentBase, ReplyBase, Counted
  <1>4. SumsExact
    BY <1>1, <1>2, <1>3, FS_EmptySet DEF SumsExact, CommentSum, ReplySum
  <1>5. LostBounded
    BY DEF Init, LostBounded, Counted
  <1>6. QED
    BY <1>4, <1>5, InitShape DEF Accounted

LEMMA StepAccounted == Accounted /\ [Next]_vars => Accounted'
  <1> SUFFICES ASSUME Accounted, [Next]_vars PROVE Accounted'
    OBVIOUS
  <1>1. Shape /\ Shape' /\ TypeOK /\ TypeOK'
    BY StepShape DEF Accounted, Shape
  <1>2. /\ CommentSum \in Int /\ CommentSum' \in Int
        /\ \A c \in Comments : ReplySum(c) \in Int /\ ReplySum(c)' \in Int
    BY <1>1, SumsTyped
  <1>3. /\ Cardinality(LiveComments) \in Nat /\ Cardinality(LiveComments)' \in Nat
        /\ \A c : /\ Cardinality(LiveReplies(c)) \in Nat
                  /\ Cardinality(LiveReplies(c))' \in Nat
    BY LiveCounted
  <1>4. CommentsBalance /\ RepliesBalance
    BY <1>1, StepBalance
  <1>5. CommentSum' = Cardinality(LiveComments)'
    BY <1>2, <1>3, <1>4 DEF CommentsBalance, Accounted, SumsExact
  <1>6. ASSUME NEW c \in Comments PROVE ReplySum(c)' = Cardinality(LiveReplies(c))'
    BY <1>2, <1>3, <1>4 DEF RepliesBalance, Accounted, SumsExact
  <1>7. LostBounded'
    BY <1>1, StepLostBounded DEF Accounted
  <1>8. QED
    BY <1>1, <1>5, <1>6, <1>7 DEF Accounted, SumsExact

(* commentCount and replyCount, the adjustments in flight and those lost   *)
(* with a request that died are the live comments and replies, less one    *)
(* for each deletion of a row that another request had deleted meanwhile;  *)
(* and the post claims at most one comment too many for each death.  For   *)
(* any number of comments, replies, overlapping requests and deaths.       *)
THEOREM CountsAlwaysConserved == Spec => []CountsConserved
  <1>1. Accounted => CountsConserved
    BY ConservedBySums DEF Accounted, Shape
  <1>2. QED
    BY <1>1, InitAccounted, StepAccounted, PTL DEF Spec
================================================================================
