----------------------------- MODULE Notifications -----------------------------
(***************************************************************************)
(* notification.service.ts for one user: the UserNotification rows and the *)
(* badge of an open client, which shows the last unread count that reached *)
(* it.  A request that changes the rows counts them in a later statement   *)
(* and pushes the number it read; the newest number is not the last to     *)
(* arrive.                                                                 *)
(***************************************************************************)
EXTENDS Integers, FiniteSets

CONSTANTS
  Notes,       \* ids of UserNotification rows
  NtRequests   \* requests in flight, dispatches among them

ASSUME NotificationsAssumption == IsFiniteSet(Notes)

VARIABLES
  notes,      \* id -> the row
  badge,      \* what the client shows
  nt,         \* the requests in flight
  misled      \* history: the last change of the badge or of the rows left
              \*   nobody to correct the badge

ntVars == <<notes, badge, nt, misled>>

NoteRow == [exists : BOOLEAN, isRead : BOOLEAN, isArchived : BOOLEAN]
NoNote  == [exists |-> FALSE, isRead |-> FALSE, isArchived |-> FALSE]

NtRequest == [pc : {"idle", "count", "push"}, unread : Nat, overtaken : BOOLEAN]
NtIdle == [pc |-> "idle", unread |-> 0, overtaken |-> FALSE]

NtAt(r, step) == nt[r].pc = step

\* Variant: archived rows count.
UnreadEvenArchived(rows) == {n \in Notes : rows[n].exists /\ ~rows[n].isRead}

\* The where of countUnread.
Unread(rows) ==
  {n \in Notes : rows[n].exists /\ ~rows[n].isRead /\ ~rows[n].isArchived}
CountUnread(rows) == Cardinality(Unread(rows))

\* What the client's list shows as new.
ShownUnread == {n \in Notes : /\ notes[n].exists
                              /\ ~notes[n].isRead /\ ~notes[n].isArchived}

\* r writes the rows and goes on as next; a count read before is overtaken.
WriteRows(r, rows, next) ==
  LET changed == CountUnread(rows) # CountUnread(notes) IN
  /\ notes' = rows
  /\ nt' = [q \in NtRequests |->
       IF q = r THEN next
       ELSE IF NtAt(q, "push") /\ changed
              THEN [nt[q] EXCEPT !.overtaken = TRUE] ELSE nt[q]]

-------------------------------------------------------------------------------
\* dispatch: createForUsers, then for each user emit, count, push.
Dispatch(r, n) ==
  /\ NtAt(r, "idle")
  /\ ~notes[n].exists
  /\ WriteRows(r, [notes EXCEPT ![n] = [NoNote EXCEPT !.exists = TRUE]],
               [NtIdle EXCEPT !.pc = "count"])
  /\ UNCHANGED <<badge, misled>>

\* Variant: an unknown id becomes a row.
UpsertedAsRead(n) == [notes EXCEPT ![n].isRead = TRUE]

\* updateMany by id: an unknown id changes nothing and is no error.
MarkedRead(n) ==
  IF notes[n].exists THEN [notes EXCEPT ![n].isRead = TRUE] ELSE notes

MarkRead(r, n) ==
  /\ NtAt(r, "idle")
  /\ WriteRows(r, MarkedRead(n), [NtIdle EXCEPT !.pc = "count"])
  /\ UNCHANGED <<badge, misled>>

\* Pushes 0 without counting.
MarkAllRead(r) ==
  /\ NtAt(r, "idle")
  /\ WriteRows(r, [n \in Notes |-> [notes[n] EXCEPT !.isRead = notes[n].exists]],
               [NtIdle EXCEPT !.pc = "push"])
  /\ UNCHANGED <<badge, misled>>

\* archive pushes nothing.
Archive(n) ==
  /\ notes[n].exists
  /\ notes' = [notes EXCEPT ![n].isArchived = TRUE]
  /\ nt' = [q \in NtRequests |->
       IF NtAt(q, "push") /\ n \in Unread(notes)
         THEN [nt[q] EXCEPT !.overtaken = TRUE] ELSE nt[q]]
  /\ misled' = (misled \/ n \in Unread(notes))
  /\ UNCHANGED badge

\* STALE_NOTIFICATIONS.
DeleteArchived(n) ==
  /\ notes[n].isArchived
  /\ notes' = [notes EXCEPT ![n] = NoNote]
  /\ UNCHANGED <<badge, nt, misled>>

\* The client asks GET /notifications/unread-count.
PollUnreadCount(r) ==
  /\ NtAt(r, "idle")
  /\ nt' = [nt EXCEPT ![r].pc = "count"]
  /\ UNCHANGED <<notes, badge, misled>>

CountRows(r) ==
  /\ NtAt(r, "count")
  /\ nt' = [nt EXCEPT ![r].pc = "push", ![r].unread = CountUnread(notes)]
  /\ UNCHANGED <<notes, badge, misled>>

\* NOTIFICATION_UNREAD_COUNT, or the reply of the poll, arrives.
PushCount(r) ==
  /\ NtAt(r, "push")
  /\ badge' = nt[r].unread
  /\ misled' = nt[r].overtaken
  /\ nt' = [nt EXCEPT ![r] = NtIdle]
  /\ UNCHANGED notes

\* The request fails or dies, or its push finds no socket of the client.
NtLost(r) ==
  /\ ~NtAt(r, "idle")
  /\ nt' = [nt EXCEPT ![r] = NtIdle]
  /\ misled' = TRUE
  /\ UNCHANGED <<notes, badge>>

-------------------------------------------------------------------------------
NtInit ==
  /\ notes = [n \in Notes |-> NoNote]
  /\ badge = 0
  /\ nt = [r \in NtRequests |-> NtIdle]
  /\ misled = FALSE

NtStep(r) ==
  \/ \E n \in Notes : Dispatch(r, n) \/ MarkRead(r, n)
  \/ MarkAllRead(r) \/ PollUnreadCount(r)
  \/ CountRows(r) \/ PushCount(r) \/ NtLost(r)

NtNext ==
  \/ \E r \in NtRequests : NtStep(r)
  \/ \E n \in Notes : Archive(n) \/ DeleteArchived(n)

NtSpec == NtInit /\ [][NtNext]_ntVars

-------------------------------------------------------------------------------
NtTypeOK ==
  /\ notes \in [Notes -> NoteRow]
  /\ badge \in Nat
  /\ nt \in [NtRequests -> NtRequest]
  /\ misled \in BOOLEAN
  /\ \A n \in Notes : ~notes[n].exists => notes[n] = NoNote

\* An exact number is still on its way to the client.
Correcting(r) == NtAt(r, "count") \/ (NtAt(r, "push") /\ ~nt[r].overtaken)

\* The badge differs from the unread notifications the client's list shows
\* only while a request is about to push the exact number, after a push that
\* was counted before another write and arrived last, after an unread
\* notification was archived (which pushes nothing), or after a lost push.
BadgeHasCause ==
  badge = Cardinality(ShownUnread) \/ misled \/ \E r \in NtRequests : Correcting(r)
===============================================================================
