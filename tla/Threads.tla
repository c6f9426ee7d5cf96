-------------------------------- MODULE Threads --------------------------------
(***************************************************************************)
(* The threads under one community post: community.service.ts's posts,     *)
(* comments and replies, soft-deleted by a flag, with the denormalised     *)
(* commentCount of the post and replyCount of each comment.  Every handler *)
(* is find, write the row, adjust the counter: three statements.           *)
(***************************************************************************)
EXTENDS Integers, FiniteSets

CONSTANTS
  Comments, Replies, \* ids; a row is "absent" until it is created
  Requests,          \* requests handled at once
  NoItem,            \* no comment, no reply
  MaxDeaths          \* bound: requests that die between two statements

ASSUME ThreadsAssumption ==
  /\ IsFiniteSet(Comments) /\ IsFiniteSet(Replies) /\ IsFiniteSet(Requests)
  /\ NoItem \notin Comments \cup Replies
  /\ MaxDeaths \in Nat

VARIABLES
  postDeleted,  \* CommunityPost.isDeleted
  comment,      \* per id: "absent", "live" or "deleted"
  reply,        \* per id: "absent", "live" or "deleted"
  parent,       \* the comment a reply is under
  commentCount, \* CommunityPost.commentCount
  replyCount,   \* CommunityComment.replyCount
  req,          \* the requests in flight
  again,        \* history: per counter, deletions of a row that another
                \*   request had deleted after both found it live
  lost,         \* history: per counter, adjustments that died with their request
  deaths        \* requests that died so far

rows     == <<postDeleted, comment, reply, parent>>
counters == <<commentCount, replyCount>>
history  == <<again, lost, deaths>>
vars     == <<rows, counters, req, history>>

\* The counters by what they count under: a comment, or NoItem for the post.
Counted == Comments \cup {NoItem}

Life == {"absent", "live", "deleted"}
Ops  == {"createComment", "deleteComment", "createReply", "deleteReply",
         "deletePost"}
Request == [pc : {"idle", "write", "adjust"}, op : Ops,
            item : Comments \cup Replies \cup {NoItem},
            under : Comments \cup {NoItem}, foundLive : BOOLEAN]
Idle == [pc |-> "idle", op |-> "deletePost", item |-> NoItem,
         under |-> NoItem, foundLive |-> FALSE]

At(r, step, op)     == req[r].pc = step /\ req[r].op = op
Return(r)           == req' = [req EXCEPT ![r] = Idle]
Start(r, op, i, c, live) ==
  /\ req[r].pc = "idle"
  /\ req' = [req EXCEPT ![r] = [pc |-> "write", op |-> op, item |-> i,
                                under |-> c, foundLive |-> live]]
ToAdjust(r)         == req' = [req EXCEPT ![r].pc = "adjust"]

\* Variant: the handlers look for the row and not at its flag.
ExistsAtAll(life) == life # "absent"

\* A row the find of a handler accepts: present and not soft-deleted.
Visible(life) == life = "live"

\* The change of the counter that follows a write.
Delta(op) == IF op \in {"createComment", "createReply"} THEN 1 ELSE -1

-------------------------------------------------------------------------------
(* Comments                                                                *)

\* getPost; the new comment's id is chosen here, no two requests alike.
CreateCommentFindsPost(r, c) ==
  /\ ~postDeleted
  /\ comment[c] = "absent"
  /\ \A q \in Requests : req[q].item # c
  /\ Start(r, "createComment", c, NoItem, FALSE)
  /\ UNCHANGED <<rows, counters, history>>

CreateCommentWrites(r) ==
  /\ At(r, "write", "createComment")
  /\ comment' = [comment EXCEPT ![req[r].item] = "live"]
  /\ ToAdjust(r)
  /\ UNCHANGED <<postDeleted, reply, parent, counters, history>>

DeleteCommentFinds(r, c) ==
  /\ Visible(comment[c])
  /\ Start(r, "deleteComment", c, NoItem, comment[c] = "live")
  /\ UNCHANGED <<rows, counters, history>>

\* softDelete sets the flag by id, whether or not it is set already.
NoteAgain(r, life) ==
  again' = IF life = "deleted" /\ req[r].foundLive
             THEN [again EXCEPT ![req[r].under] = @ + 1] ELSE again

DeleteCommentWrites(r) ==
  LET c == req[r].item IN
  /\ At(r, "write", "deleteComment")
  /\ comment' = [comment EXCEPT ![c] = "deleted"]
  /\ NoteAgain(r, comment[c])
  /\ ToAdjust(r)
  /\ UNCHANGED <<postDeleted, reply, parent, counters, lost, deaths>>

AdjustCommentCount(r) ==
  /\ req[r].pc = "adjust"
  /\ req[r].op \in {"createComment", "deleteComment"}
  /\ commentCount' = commentCount + Delta(req[r].op)
  /\ Return(r)
  /\ UNCHANGED <<rows, replyCount, history>>

-------------------------------------------------------------------------------
(* Replies                                                                 *)

CreateReplyFindsComment(r, c, p) ==
  /\ Visible(comment[c])
  /\ reply[p] = "absent"
  /\ \A q \in Requests : req[q].item # p
  /\ Start(r, "createReply", p, c, FALSE)
  /\ UNCHANGED <<rows, counters, history>>

\* Variant: the reply is connected to the wrong row.
ParentItself(r) == req[r].item

ParentOf(r) == req[r].under

CreateReplyWrites(r) ==
  /\ At(r, "write", "createReply")
  /\ reply' = [reply EXCEPT ![req[r].item] = "live"]
  /\ parent' = [parent EXCEPT ![req[r].item] = ParentOf(r)]
  /\ ToAdjust(r)
  /\ UNCHANGED <<postDeleted, comment, counters, history>>

DeleteReplyFinds(r, p) ==
  /\ Visible(reply[p])
  /\ Start(r, "deleteReply", p, parent[p], reply[p] = "live")
  /\ UNCHANGED <<rows, counters, history>>

DeleteReplyWrites(r) ==
  LET p == req[r].item IN
  /\ At(r, "write", "deleteReply")
  /\ reply' = [reply EXCEPT ![p] = "deleted"]
  /\ NoteAgain(r, reply[p])
  /\ ToAdjust(r)
  /\ UNCHANGED <<postDeleted, comment, parent, counters, lost, deaths>>

AdjustReplyCount(r) ==
  /\ req[r].pc = "adjust"
  /\ req[r].op \in {"createReply", "deleteReply"}
  /\ replyCount' = [replyCount EXCEPT ![req[r].under] = @ + Delta(req[r].op)]
  /\ Return(r)
  /\ UNCHANGED <<rows, commentCount, history>>

-------------------------------------------------------------------------------
(* The post; nothing under it is touched.                                  *)

DeletePostFinds(r) ==
  /\ ~postDeleted
  /\ Start(r, "deletePost", NoItem, NoItem, FALSE)
  /\ UNCHANGED <<rows, counters, history>>

DeletePostWrites(r) ==
  /\ At(r, "write", "deletePost")
  /\ postDeleted' = TRUE
  /\ Return(r)
  /\ UNCHANGED <<comment, reply, parent, counters, history>>

Dies(r) ==
  /\ deaths < MaxDeaths
  /\ req[r].pc # "idle"
  /\ deaths' = deaths + 1
  /\ lost' = IF req[r].pc = "adjust"
               THEN [lost EXCEPT ![req[r].under] = @ + Delta(req[r].op)] ELSE lost
  /\ Return(r)
  /\ UNCHANGED <<rows, counters, again>>

-------------------------------------------------------------------------------
Init ==
  /\ postDeleted = FALSE
  /\ comment = [c \in Comments |-> "absent"]
  /\ reply = [p \in Replies |-> "absent"]
  /\ parent = [p \in Replies |-> NoItem]
  /\ commentCount = 0
  /\ replyCount = [c \in Comments |-> 0]
  /\ req = [r \in Requests |-> Idle]
  /\ again = [k \in Counted |-> 0]
  /\ lost = [k \in Counted |-> 0]
  /\ deaths = 0

RequestStep(r) ==
  \/ CreateCommentWrites(r)
  \/ DeleteCommentWrites(r)
  \/ AdjustCommentCount(r)
  \/ CreateReplyWrites(r)
  \/ DeleteReplyWrites(r)
  \/ AdjustReplyCount(r)
  \/ DeletePostWrites(r)

Arrival(r) ==
  \/ \E c \in Comments : CreateCommentFindsPost(r, c) \/ DeleteCommentFinds(r, c)
  \/ \E c \in Comments, p \in Replies : CreateReplyFindsComment(r, c, p)
  \/ \E p \in Replies : DeleteReplyFinds(r, p)
  \/ DeletePostFinds(r)

Next == \E r \in Requests : Arrival(r) \/ RequestStep(r) \/ Dies(r)

Spec == Init /\ [][Next]_vars

-------------------------------------------------------------------------------
TypeOK ==
  /\ postDeleted \in BOOLEAN
  /\ comment \in [Comments -> Life]
  /\ reply \in [Replies -> Life]
  /\ parent \in [Replies -> Comments \cup {NoItem}]
  /\ commentCount \in Int
  /\ replyCount \in [Comments -> Int]
  /\ req \in [Requests -> Request]
  /\ again \in [Counted -> Nat]
  /\ lost \in [Counted -> Int]
  /\ deaths \in Nat

Owed(op)         == {r \in Requests : At(r, "adjust", op)}
OwedUnder(op, c) == {r \in Owed(op) : req[r].under = c}
LiveComments     == {c \in Comments : comment[c] = "live"}
LiveReplies(c)   == {p \in Replies : reply[p] = "live" /\ parent[p] = c}

(* The post's commentCount, the adjustments in flight and those lost with  *)
(* a request that died add up to its live comments, less one for every     *)
(* deletion of a comment that another request had deleted since both found *)
(* it live: softDelete is not conditional, so each takes one.  Such a      *)
(* deletion is the only way the counter goes wrong without a death, and it *)
(* only ever makes it too small.                                           *)
CommentCountConserved ==
  commentCount + Cardinality(Owed("createComment"))
    - Cardinality(Owed("deleteComment")) + lost[NoItem]
      = Cardinality(LiveComments) - again[NoItem]

(* The same for the replyCount of each comment, deleted or not.            *)
ReplyCountConserved ==
  \A c \in Comments :
    replyCount[c] + Cardinality(OwedUnder("createReply", c))
      - Cardinality(OwedUnder("deleteReply", c)) + lost[c]
        = Cardinality(LiveReplies(c)) - again[c]

(* Without the history: the post never claims more comments than it has,   *)
(* but for one for each request that died.                                 *)
CommentCountNeverAbove ==
  commentCount + Cardinality(Owed("createComment"))
    - Cardinality(Owed("deleteComment")) <= Cardinality(LiveComments) + deaths

(* Both counters are conserved, whatever overlaps, is deleted twice or     *)
(* dies.                                                                   *)
CountsConserved ==
  CommentCountConserved /\ ReplyCountConserved /\ CommentCountNeverAbove
================================================================================
