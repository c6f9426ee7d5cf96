---------------------------- MODULE RealtimeProofs ----------------------------
(***************************************************************************)
(* Theorems about what a client is shown live, for any rows, sockets and   *)
(* requests.                                                               *)
(***************************************************************************)
EXTENDS Notifications, LiveSession, Presence, FiniteSetTheorems, TLAPS

(* The badge.                                                              *)

\* Counting finite rows gives a number.
LEMMA CountIsNat == \A rows : CountUnread(rows) \in Nat
  <1> SUFFICES ASSUME NEW rows PROVE CountUnread(rows) \in Nat
    OBVIOUS
  <1>1. IsFiniteSet(Unread(rows))
    BY NotificationsAssumption, FS_Subset DEF Unread
  <1>2. QED
    BY <1>1, FS_CardinalityType DEF CountUnread

\* What a request carries to the client is exact unless a write overtook it.
CarriedExact ==
  \A r \in NtRequests : NtAt(r, "push") /\ ~nt[r].overtaken =>
    nt[r].unread = CountUnread(notes)

\* Only a number that was read can be overtaken.
OnlyPushesOvertaken == \A r \in NtRequests : nt[r].overtaken => NtAt(r, "push")

NtInv == NtTypeOK /\ CarriedExact /\ OnlyPushesOvertaken /\ BadgeHasCause

\* The badge shows what the client lists as new.
LEMMA ShownIsUnread == ShownUnread = Unread(notes)
  BY DEF ShownUnread, Unread

\* A write by r, and the request it goes on as.
LEMMA WriteKeepsTypes ==
  ASSUME NtTypeOK, NEW r \in NtRequests, NEW rows \in [Notes -> NoteRow],
         \A n \in Notes : ~rows[n].exists => rows[n] = NoNote,
         NEW next \in NtRequest, WriteRows(r, rows, next), UNCHANGED <<badge, misled>>
  PROVE  NtTypeOK'
  <1>1. \A q \in NtRequests : [nt[q] EXCEPT !.overtaken = TRUE] \in NtRequest
    BY DEF NtTypeOK, NtRequest
  <1>2. nt' \in [NtRequests -> NtRequest]
    BY <1>1 DEF WriteRows, NtTypeOK
  <1>3. QED
    BY <1>2 DEF WriteRows, NtTypeOK

\* A write by r that goes on to count, or carries the exact number, leaves
\* nobody with a wrong number that is not marked as overtaken.
LEMMA WriteKeepsExact ==
  ASSUME NtTypeOK, CarriedExact, OnlyPushesOvertaken,
         NEW r \in NtRequests, NEW rows, NEW next \in NtRequest,
         WriteRows(r, rows, next), ~next.overtaken,
         next.pc = "count" \/ (next.pc = "push" /\ next.unread = CountUnread(rows))
  PROVE  CarriedExact' /\ OnlyPushesOvertaken' /\ BadgeHasCause'
  <1>1. nt'[r] = next /\ notes' = rows
    BY DEF WriteRows
  <1>2. Correcting(r)'
    BY <1>1 DEF Correcting, NtAt
  <1>3. ASSUME NEW q \in NtRequests, nt'[q].pc = "push", ~nt'[q].overtaken
        PROVE  nt'[q].unread = CountUnread(rows)
    <2>1. CASE q = r
      BY <1>1, <1>3, <2>1
    <2>2. CASE q # r
      <3>1. [nt[q] EXCEPT !.overtaken = TRUE].overtaken = TRUE
        BY DEF NtTypeOK, NtRequest
      <3>2. nt'[q] = nt[q]
              /\ (NtAt(q, "push") => CountUnread(rows) = CountUnread(notes))
        BY <1>3, <2>2, <3>1 DEF WriteRows
      <3>3. QED
        BY <1>3, <3>2 DEF CarriedExact, NtAt
    <2>3. QED
      BY <2>1, <2>2
  <1>4. CountUnread(notes)' = CountUnread(rows)
    BY <1>1 DEF CountUnread, Unread
  <1>5. ASSUME NEW q \in NtRequests, nt'[q].overtaken PROVE nt'[q].pc = "push"
    <2>1. [nt[q] EXCEPT !.overtaken = TRUE].pc = nt[q].pc
      BY DEF NtTypeOK, NtRequest
    <2>2. QED
      BY <1>1, <1>5, <2>1 DEF WriteRows, OnlyPushesOvertaken, NtAt
  <1>6. QED
    BY <1>2, <1>3, <1>4, <1>5 DEF CarriedExact, OnlyPushesOvertaken, BadgeHasCause, NtAt

LEMMA NtStepInv == NtInv /\ [NtNext]_ntVars => NtInv'
  <1> SUFFICES ASSUME NtInv, [NtNext]_ntVars PROVE NtInv'
    OBVIOUS
  <1> USE DEF NtInv
  <1>i. NtIdle \in NtRequest /\ NtIdle.pc = "idle"
    BY DEF NtIdle, NtRequest
  <1>o. ~NtIdle.overtaken
    BY DEF NtIdle
  <1>t. \A r \in NtRequests : nt[r] \in NtRequest
    BY DEF NtTypeOK
  <1>r. \A n \in Notes : notes[n] \in NoteRow
    BY DEF NtTypeOK
  <1>n. NoNote \in NoteRow /\ ~NoNote.exists
    BY DEF NoNote, NoteRow
  <1>c. [NtIdle EXCEPT !.pc = "count"] \in NtRequest
          /\ [NtIdle EXCEPT !.pc = "count"].pc = "count"
          /\ ~[NtIdle EXCEPT !.pc = "count"].overtaken
    BY DEF NtIdle, NtRequest
  <1>1. ASSUME NEW r \in NtRequests, NEW n \in Notes, Dispatch(r, n) PROVE NtInv'
    <2> DEFINE rows == [notes EXCEPT ![n] = [NoNote EXCEPT !.exists = TRUE]]
    <2>1. [NoNote EXCEPT !.exists = TRUE] \in NoteRow
            /\ [NoNote EXCEPT !.exists = TRUE].exists
      BY DEF NoNote, NoteRow
    <2>2. rows \in [Notes -> NoteRow] /\ \A m \in Notes : ~rows[m].exists => rows[m] = NoNote
      BY <2>1 DEF NtTypeOK
    <2>3. WriteRows(r, rows, [NtIdle EXCEPT !.pc = "count"]) /\ UNCHANGED <<badge, misled>>
      BY <1>1 DEF Dispatch
    <2> HIDE DEF rows
    <2>4. QED
      BY <1>c, <2>2, <2>3, WriteKeepsTypes, WriteKeepsExact
  <1>2. ASSUME NEW r \in NtRequests, NEW n \in Notes, MarkRead(r, n) PROVE NtInv'
    <2>1. [notes[n] EXCEPT !.isRead = TRUE] \in NoteRow
            /\ [notes[n] EXCEPT !.isRead = TRUE].exists = notes[n].exists
      BY <1>r DEF NoteRow
    <2>2. MarkedRead(n) \in [Notes -> NoteRow]
            /\ \A m \in Notes : ~MarkedRead(n)[m].exists => MarkedRead(n)[m] = NoNote
      BY <2>1 DEF NtTypeOK, MarkedRead
    <2>3. WriteRows(r, MarkedRead(n), [NtIdle EXCEPT !.pc = "count"])
            /\ UNCHANGED <<badge, misled>>
      BY <1>2 DEF MarkRead
    <2>4. QED
      BY <1>c, <2>2, <2>3, WriteKeepsTypes, WriteKeepsExact
  <1>3. ASSUME NEW r \in NtRequests, MarkAllRead(r) PROVE NtInv'
    <2> DEFINE rows == [n \in Notes |-> [notes[n] EXCEPT !.isRead = notes[n].exists]]
               next == [NtIdle EXCEPT !.pc = "push"]
    <2>1. ASSUME NEW n \in Notes
          PROVE  /\ rows[n] \in NoteRow /\ (rows[n].exists => rows[n].isRead)
                 /\ ~rows[n].exists => rows[n] = NoNote
      <3>1. rows[n] = [notes[n] EXCEPT !.isRead = notes[n].exists]
        OBVIOUS
      <3>2. rows[n] \in NoteRow /\ rows[n].exists = notes[n].exists
              /\ rows[n].isRead = notes[n].exists
        BY <1>r, <3>1 DEF NoteRow
      <3>3. ASSUME ~notes[n].exists PROVE rows[n] = NoNote
        <4>1. notes[n] = NoNote
          BY <3>3 DEF NtTypeOK
        <4>2. rows[n].exists = FALSE /\ rows[n].isRead = FALSE
                /\ rows[n].isArchived = FALSE
          BY <1>r, <3>1, <4>1 DEF NoNote, NoteRow
        <4>3. QED
          BY <3>2, <4>2 DEF NoNote, NoteRow
      <3>4. QED
        BY <3>2, <3>3
    <2>2. rows \in [Notes -> NoteRow]
      BY <2>1
    <2>3. Unread(rows) = {}
      BY <2>1 DEF Unread
    <2>4. CountUnread(rows) = 0
      BY <2>3, FS_EmptySet DEF CountUnread
    <2>5. next \in NtRequest /\ next.pc = "push" /\ ~next.overtaken /\ next.unread = 0
      BY DEF NtIdle, NtRequest
    <2>6. WriteRows(r, rows, next) /\ UNCHANGED <<badge, misled>>
      BY <1>3 DEF MarkAllRead
    <2> HIDE DEF rows, next
    <2>7. QED
      BY <2>1, <2>2, <2>4, <2>5, <2>6, WriteKeepsTypes, WriteKeepsExact
  <1>4. ASSUME NEW n \in Notes, Archive(n) PROVE NtInv'
    <2> DEFINE row == [notes[n] EXCEPT !.isArchived = TRUE]
    <2>1. row \in NoteRow /\ row.exists = notes[n].exists /\ row.isRead = notes[n].isRead
            /\ row.isArchived
      BY <1>r DEF NoteRow
    <2>2. notes' = [notes EXCEPT ![n] = row] /\ notes[n].exists /\ badge' = badge
      BY <1>4 DEF Archive
    <2>3. \A q \in NtRequests : [nt[q] EXCEPT !.overtaken = TRUE] \in NtRequest
            /\ [nt[q] EXCEPT !.overtaken = TRUE].overtaken
            /\ [nt[q] EXCEPT !.overtaken = TRUE].pc = nt[q].pc
      BY <1>t DEF NtRequest
    <2> HIDE DEF row
    <2>4. NtTypeOK'
      BY <1>4, <2>1, <2>2, <2>3 DEF Archive, NtTypeOK
    <2>5. CASE n \in Unread(notes)
      <3>1. misled' = TRUE
        BY <1>4, <2>5 DEF Archive
      <3>2. \A q \in NtRequests : nt'[q] = IF NtAt(q, "push")
              THEN [nt[q] EXCEPT !.overtaken = TRUE] ELSE nt[q]
        BY <1>4, <2>5 DEF Archive
      <3>3. \A q \in NtRequests : /\ nt'[q].pc = nt[q].pc
                                  /\ NtAt(q, "push") => nt'[q].overtaken
                                  /\ ~NtAt(q, "push") => ~nt'[q].overtaken
        BY <2>3, <3>2 DEF OnlyPushesOvertaken
      <3>4. CarriedExact' /\ OnlyPushesOvertaken'
        BY <3>3 DEF CarriedExact, OnlyPushesOvertaken, NtAt
      <3>5. BadgeHasCause'
        BY <3>1 DEF BadgeHasCause
      <3>6. QED
        BY <2>4, <3>4, <3>5
    <2>6. CASE n \notin Unread(notes)
      <3>1. Unread(notes') = Unread(notes)
        BY <2>1, <2>2, <2>6 DEF Unread, NtTypeOK
      <3>2. nt' = nt /\ misled' = misled
        BY <1>4, <2>6 DEF Archive, NtTypeOK
      <3>3. QED
        BY <2>2, <2>4, <3>1, <3>2, ShownIsUnread
           DEF CarriedExact, OnlyPushesOvertaken, BadgeHasCause, NtAt, CountUnread,
               Correcting, ShownUnread, Unread
    <2>7. QED
      BY <2>4, <2>5, <2>6
  <1>5. ASSUME NEW n \in Notes, DeleteArchived(n) PROVE NtInv'
    <2>1. notes' = [notes EXCEPT ![n] = NoNote] /\ notes[n].isArchived
            /\ UNCHANGED <<badge, nt, misled>>
      BY <1>5 DEF DeleteArchived
    <2>2. NtTypeOK'
      BY <1>n, <2>1 DEF NtTypeOK
    <2>3. Unread(notes') = Unread(notes) /\ ShownUnread' = ShownUnread
      BY <1>n, <2>1 DEF Unread, ShownUnread, NtTypeOK
    <2>4. QED
      BY <2>1, <2>2, <2>3
         DEF CarriedExact, OnlyPushesOvertaken, BadgeHasCause, NtAt, CountUnread,
             Correcting
  <1>6. ASSUME NEW r \in NtRequests, PollUnreadCount(r) PROVE NtInv'
    <2>1. nt' = [nt EXCEPT ![r].pc = "count"] /\ UNCHANGED <<notes, badge, misled>>
            /\ nt[r].pc = "idle"
      BY <1>6 DEF PollUnreadCount, NtAt
    <2>2. nt'[r] \in NtRequest /\ nt'[r].pc = "count" /\ ~nt'[r].overtaken
            /\ \A q \in NtRequests \ {r} : nt'[q] = nt[q]
      BY <1>t, <2>1 DEF NtRequest, NtTypeOK, OnlyPushesOvertaken, NtAt
    <2>3. NtTypeOK'
      BY <2>1, <2>2 DEF NtTypeOK
    <2>4. BadgeHasCause'
      BY <2>2 DEF BadgeHasCause, Correcting, NtAt
    <2>5. QED
      BY <2>1, <2>2, <2>3, <2>4
         DEF CarriedExact, OnlyPushesOvertaken, NtAt, CountUnread, Unread
  <1>7. ASSUME NEW r \in NtRequests, CountRows(r) PROVE NtInv'
    <2> DEFINE c == CountUnread(notes)
    <2>1. nt' = [nt EXCEPT ![r].pc = "push", ![r].unread = c]
            /\ UNCHANGED <<notes, badge, misled>> /\ nt[r].pc = "count"
      BY <1>7 DEF CountRows, NtAt
    <2>0. c \in Nat
      BY CountIsNat
    <2> HIDE DEF c
    <2>2. /\ nt'[r] \in NtRequest /\ nt'[r].pc = "push" /\ nt'[r].unread = c
          /\ ~nt'[r].overtaken
          /\ \A q \in NtRequests \ {r} : nt'[q] = nt[q]
      BY <1>t, <2>0, <2>1 DEF NtRequest, NtTypeOK, OnlyPushesOvertaken, NtAt
    <2>3. NtTypeOK'
      BY <2>1, <2>2 DEF NtTypeOK
    <2>4. CarriedExact' /\ OnlyPushesOvertaken'
      BY <2>1, <2>2 DEF CarriedExact, OnlyPushesOvertaken, NtAt, CountUnread, Unread, c
    <2>5. BadgeHasCause'
      BY <2>2 DEF BadgeHasCause, Correcting, NtAt
    <2>6. QED
      BY <2>3, <2>4, <2>5
  <1>8. ASSUME NEW r \in NtRequests, PushCount(r) \/ NtLost(r) PROVE NtInv'
    <2>1. nt' = [nt EXCEPT ![r] = NtIdle] /\ notes' = notes
      BY <1>8 DEF PushCount, NtLost
    <2>2. nt'[r] = NtIdle /\ \A q \in NtRequests \ {r} : nt'[q] = nt[q]
      BY <2>1 DEF NtTypeOK
    <2>3. NtTypeOK'
      BY <1>8, <1>i, <1>t, <2>1 DEF PushCount, NtLost, NtTypeOK, NtRequest
    <2>4. CarriedExact' /\ OnlyPushesOvertaken'
      BY <1>i, <1>o, <2>1, <2>2 DEF CarriedExact, OnlyPushesOvertaken, NtAt,
                                    CountUnread, Unread
    <2>5. BadgeHasCause'
      <3>1. CASE NtLost(r)
        BY <3>1 DEF NtLost, BadgeHasCause
      <3>2. CASE PushCount(r)
        <4>1. nt[r].overtaken => misled'
          BY <3>2 DEF PushCount
        <4>2. ~nt[r].overtaken => badge' = Cardinality(Unread(notes))
          BY <3>2 DEF PushCount, CarriedExact, CountUnread
        <4>3. ShownUnread' = Unread(notes)
          BY <2>1, ShownIsUnread DEF ShownUnread
        <4>4. QED
          BY <4>1, <4>2, <4>3 DEF BadgeHasCause
      <3>3. QED
        BY <1>8, <3>1, <3>2
    <2>6. QED
      BY <2>3, <2>4, <2>5
  <1>9. CASE UNCHANGED ntVars
    BY <1>9 DEF ntVars, NtTypeOK, CarriedExact, OnlyPushesOvertaken, BadgeHasCause,
                NtAt, CountUnread, Unread, ShownUnread, Correcting
  <1>10. QED
    BY <1>1, <1>2, <1>3, <1>4, <1>5, <1>6, <1>7, <1>8, <1>9 DEF NtNext, NtStep

LEMMA NtInitInv == NtInit => NtInv
  <1> SUFFICES ASSUME NtInit PROVE NtInv
    OBVIOUS
  <1>1. NtTypeOK
    BY DEF NtInit, NtTypeOK, NoteRow, NoNote, NtRequest, NtIdle
  <1>2. ShownUnread = {}
    BY DEF NtInit, ShownUnread, NoNote
  <1>3. BadgeHasCause
    BY <1>2, FS_EmptySet DEF NtInit, BadgeHasCause
  <1>4. QED
    BY <1>1, <1>3 DEF NtInit, NtInv, CarriedExact, OnlyPushesOvertaken, NtAt, NtIdle

(* Every reachable state of notifications is well typed, for any rows and   *)
(* requests.                                                               *)
THEOREM NtTypeCorrect == NtSpec => []NtTypeOK
  <1>1. NtInv => NtTypeOK
    BY DEF NtInv
  <1>2. QED
    BY <1>1, NtInitInv, NtStepInv, PTL DEF NtSpec

(* The badge of an open client is wrong only while the exact number is on   *)
(* its way, or for the causes named, for any rows and requests.            *)
THEOREM BadgeAlwaysHasCause == NtSpec => []BadgeHasCause
  <1>1. NtInv => BadgeHasCause
    BY DEF NtInv
  <1>2. QED
    BY <1>1, NtInitInv, NtStepInv, PTL DEF NtSpec

-------------------------------------------------------------------------------
(* Attendance.                                                             *)

\* A leave alone carries an interval, and no join is in the future.
LsShape ==
  /\ LsTypeOK
  /\ attendee.joinedAt =< clock
  /\ \A r \in LsRequests : ~LsAt(r, "leave") => ls[r].sec = 0

LsInv == LsShape /\ AttendanceSound

\* The units that the requests of Q carry, when q carries f[q].
UnitsOf(f, Q) == UNION {{q} \X (1..f[q]) : q \in Q}

LEMMA UnitsSplit ==
  ASSUME NEW f \in [LsRequests -> 0..MaxClock], NEW r \in LsRequests
  PROVE  /\ Cardinality(UnitsOf(f, LsRequests)) \in Nat
         /\ Cardinality(UnitsOf(f, LsRequests \ {r})) \in Nat
         /\ Cardinality(UnitsOf(f, LsRequests)) =
              Cardinality(UnitsOf(f, LsRequests \ {r})) + f[r]
  <1> DEFINE all == UnitsOf(f, LsRequests)
             rest == UnitsOf(f, LsRequests \ {r})
             mine == {r} \X (1..f[r])
  <1>m. MaxClock \in Nat /\ f[r] \in Nat /\ IsFiniteSet(LsRequests)
    BY LiveAssumption
  <1>1. IsFiniteSet(mine) /\ Cardinality(mine) = f[r]
    <2>1. IsFiniteSet({r}) /\ Cardinality({r}) = 1
      BY FS_Singleton
    <2>2. IsFiniteSet(1..f[r]) /\ Cardinality(1..f[r]) = f[r]
      BY <1>m, FS_Interval
    <2>3. IsFiniteSet(mine) /\ Cardinality(mine) = Cardinality({r}) * Cardinality(1..f[r])
      BY <2>1, <2>2, FS_Product
    <2>4. QED
      BY <2>1, <2>2, <2>3, <1>m
  <1>2. IsFiniteSet(rest) /\ Cardinality(rest) \in Nat
    <2>0. IsFiniteSet(1..MaxClock)
      BY <1>m, FS_Interval
    <2>1. IsFiniteSet(LsRequests \X (1..MaxClock))
      BY <1>m, <2>0, FS_Product
    <2>2. rest \in SUBSET (LsRequests \X (1..MaxClock))
      BY <1>m DEF UnitsOf
    <2>3. QED
      BY <2>1, <2>2, FS_Subset, FS_CardinalityType
  <1>3. all = rest \cup mine /\ rest \cap mine = {}
    BY DEF UnitsOf
  <1> HIDE DEF all, rest, mine
  <1>4. Cardinality(all) = Cardinality(rest) + Cardinality(mine) - Cardinality(rest \cap mine)
    BY <1>1, <1>2, <1>3, FS_Union
  <1>5. Cardinality(all) = Cardinality(rest) + f[r]
    BY <1>m, <1>1, <1>2, <1>3, <1>4, FS_EmptySet
  <1>6. Cardinality(all) \in Nat /\ Cardinality(rest) \in Nat
    BY <1>m, <1>2, <1>5
  <1>7. QED
    BY <1>5, <1>6 DEF all, rest

\* A step in which r alone starts or stops to carry.
LEMMA CarriedBySome ==
  ASSUME LsTypeOK, LsTypeOK', NEW r \in LsRequests,
         \A q \in LsRequests \ {r} : ls'[q].sec = ls[q].sec
  PROVE  /\ Carried \in Nat /\ Carried' \in Nat
         /\ Carried' = Carried + ls'[r].sec - ls[r].sec
  <1> DEFINE f == [q \in LsRequests |-> ls[q].sec]
             g == [q \in LsRequests |-> ls'[q].sec]
             n == Cardinality(UnitsOf(f, LsRequests \ {r}))
  <1>1. f \in [LsRequests -> 0..MaxClock] /\ g \in [LsRequests -> 0..MaxClock]
    BY DEF LsTypeOK, LsRequest
  <1>2. Carried = Cardinality(UnitsOf(f, LsRequests))
    <2>1. {CarriedBy(q) : q \in LsRequests} = {{q} \X (1..f[q]) : q \in LsRequests}
      BY DEF CarriedBy
    <2>2. QED
      BY <2>1 DEF Carried, UnitsOf
  <1>3. Carried' = Cardinality(UnitsOf(g, LsRequests))
    <2>1. {CarriedBy(q)' : q \in LsRequests} = {{q} \X (1..g[q]) : q \in LsRequests}
      BY DEF CarriedBy
    <2>2. QED
      BY <2>1 DEF Carried, UnitsOf
  <1>4. n = Cardinality(UnitsOf(g, LsRequests \ {r}))
    <2>1. {{q} \X (1..f[q]) : q \in LsRequests \ {r}}
            = {{q} \X (1..g[q]) : q \in LsRequests \ {r}}
      OBVIOUS
    <2>2. QED
      BY <2>1 DEF UnitsOf
  <1>5. f[r] = ls[r].sec /\ g[r] = ls'[r].sec
    OBVIOUS
  <1>6. f[r] \in Nat /\ g[r] \in Nat
    BY <1>1, LiveAssumption
  <1> HIDE DEF f, g, n
  <1>7. /\ Carried \in Nat /\ n \in Nat /\ Carried = n + f[r]
        /\ Carried' \in Nat /\ Carried' = n + g[r]
    <2>1. Carried \in Nat /\ n \in Nat /\ Carried = n + f[r]
      BY <1>1, <1>2, UnitsSplit DEF n
    <2>2. Carried' \in Nat /\ Carried' = n + g[r]
      BY <1>1, <1>3, <1>4, UnitsSplit
    <2>3. QED
      BY <2>1, <2>2
  <1>8. QED
    BY <1>5, <1>6, <1>7

LEMMA CarriedIsNat ==
  ASSUME LsTypeOK
  PROVE  Carried \in Nat
  <1> DEFINE f == [q \in LsRequests |-> ls[q].sec]
  <1>1. f \in [LsRequests -> 0..MaxClock]
    BY DEF LsTypeOK, LsRequest
  <1>2. Carried = Cardinality(UnitsOf(f, LsRequests))
    <2>1. {CarriedBy(q) : q \in LsRequests} = {{q} \X (1..f[q]) : q \in LsRequests}
      BY DEF CarriedBy
    <2>2. QED
      BY <2>1 DEF Carried, UnitsOf
  <1> HIDE DEF f
  <1>3. CASE LsRequests = {}
    <2>1. UnitsOf(f, LsRequests) = {}
      BY <1>3 DEF UnitsOf
    <2>2. QED
      BY <1>2, <2>1, FS_EmptySet
  <1>4. CASE LsRequests # {}
    BY <1>1, <1>2, <1>4, UnitsSplit
  <1>5. QED
    BY <1>3, <1>4

LEMMA LsIdleTyped ==
  LsIdle \in LsRequest /\ LsIdle.pc = "idle" /\ LsIdle.sec = 0 /\ ~LsIdle.overtaken
  BY LiveAssumption DEF LsIdle, LsRequest, LiveSessionStatus

\* A step that changes one request.
LEMMA LsSlotTyped ==
  ASSUME LsTypeOK, NEW r \in LsRequests, NEW v \in LsRequest,
         ls' = [ls EXCEPT ![r] = v]
  PROVE  /\ ls' \in [LsRequests -> LsRequest] /\ ls'[r] = v
         /\ \A q \in LsRequests \ {r} : ls'[q] = ls[q]
  BY DEF LsTypeOK

LEMMA LsReturns ==
  ASSUME LsTypeOK, NEW r \in LsRequests, LsReturn(r)
  PROVE  /\ ls' \in [LsRequests -> LsRequest] /\ ls'[r] = LsIdle
         /\ \A q \in LsRequests \ {r} : ls'[q] = ls[q]
  BY LsIdleTyped, LsSlotTyped DEF LsReturn

\* A request that starts: v is what it starts as.
LEMMA ChecksStart ==
  ASSUME LsTypeOK, NEW r \in LsRequests, NEW v \in LsRequest, Begins(r, v)
  PROVE  /\ ls[r].pc = "idle" /\ ls' \in [LsRequests -> LsRequest] /\ ls'[r] = v
         /\ \A q \in LsRequests \ {r} : ls'[q] = ls[q]
  BY LsSlotTyped DEF Begins, LsAt

\* A join or a status change starts: it carries nothing.
LEMMA StartsEmpty ==
  ASSUME LsTypeOK, NEW r \in LsRequests,
         \/ JoinChecks(r)
         \/ \E to \in {"LIVE", "COMPLETED", "CANCELLED"} : ChangeFindsSession(r, to)
  PROVE  /\ ls[r].pc = "idle" /\ ls' \in [LsRequests -> LsRequest]
         /\ ls'[r].pc \in {"join", "status"} /\ ls'[r].sec = 0
         /\ ls'[r].pc = "join" => liveStatus \notin Closed
         /\ \A q \in LsRequests \ {r} : ls'[q] = ls[q]
         /\ UNCHANGED <<clock, liveStatus, attendee, present, attended, surplus>>
  <1>1. CASE JoinChecks(r)
    <2> DEFINE v == [LsIdle EXCEPT !.pc = "join"]
    <2>2. Begins(r, v)
      BY <1>1 DEF JoinChecks
    <2>3. v \in LsRequest /\ v.pc = "join" /\ v.sec = 0
      BY LsIdleTyped DEF LsRequest
    <2> HIDE DEF v
    <2>4. /\ ls[r].pc = "idle" /\ ls' \in [LsRequests -> LsRequest] /\ ls'[r] = v
          /\ \A q \in LsRequests \ {r} : ls'[q] = ls[q]
      BY <2>2, <2>3, ChecksStart
    <2>5. QED
      BY <1>1, <2>3, <2>4 DEF JoinChecks, MayJoin
  <1>2. CASE \E to \in {"LIVE", "COMPLETED", "CANCELLED"} : ChangeFindsSession(r, to)
    <2>0. PICK to \in {"LIVE", "COMPLETED", "CANCELLED"} : ChangeFindsSession(r, to)
      BY <1>2
    <2> DEFINE v == [LsIdle EXCEPT !.pc = "status", !.to = to]
    <2>2. Begins(r, v) /\ to \in LiveSessionStatus
      BY <2>0 DEF ChangeFindsSession, LiveSessionStatus, Closed
    <2>3. v \in LsRequest /\ v.pc = "status" /\ v.sec = 0
      BY <2>2, LsIdleTyped DEF LsRequest
    <2> HIDE DEF v
    <2>4. /\ ls[r].pc = "idle" /\ ls' \in [LsRequests -> LsRequest] /\ ls'[r] = v
          /\ \A q \in LsRequests \ {r} : ls'[q] = ls[q]
      BY <2>2, <2>3, ChecksStart
    <2>5. QED
      BY <2>0, <2>3, <2>4 DEF ChangeFindsSession
  <1>3. QED
    BY <1>1, <1>2

\* A leave starts: it carries the interval it read.
LEMMA StartsLeave ==
  ASSUME LsShape, NEW r \in LsRequests, LeaveReadsRow(r)
  PROVE  /\ ls[r].pc = "idle" /\ ls' \in [LsRequests -> LsRequest]
         /\ ls'[r].pc = "leave" /\ ls'[r].sec = Interval /\ Interval \in Nat
         /\ \A q \in LsRequests \ {r} : ls'[q] = ls[q]
  <1> DEFINE v == [LsIdle EXCEPT !.pc = "leave", !.sec = Interval]
  <1>t. LsTypeOK
    BY DEF LsShape
  <1>2. Begins(r, v)
    BY DEF LeaveReadsRow
  <1>3. Interval \in 0..MaxClock /\ Interval \in Nat
    BY LiveAssumption DEF LsShape, LsTypeOK, LeaveReadsRow, NotJoined, Interval
  <1>5. v \in LsRequest /\ v.pc = "leave" /\ v.sec = Interval
    BY <1>3, LsIdleTyped DEF LsRequest
  <1> HIDE DEF v
  <1>6. /\ ls[r].pc = "idle" /\ ls' \in [LsRequests -> LsRequest] /\ ls'[r] = v
        /\ \A q \in LsRequests \ {r} : ls'[q] = ls[q]
    BY <1>t, <1>2, <1>5, ChecksStart
  <1>7. QED
    BY <1>3, <1>5, <1>6

\* A status change marks the joins under way.
LEMMA StatusWritten ==
  ASSUME LsTypeOK, NEW r \in LsRequests, ChangeWritesStatus(r)
  PROVE  /\ ls' \in [LsRequests -> LsRequest] /\ ls'[r] = LsIdle
         /\ \A q \in LsRequests \ {r} :
              /\ ls'[q].pc = ls[q].pc /\ ls'[q].sec = ls[q].sec
              /\ LsAt(q, "join") => ls'[q].overtaken
         /\ liveStatus' \in LiveSessionStatus
  <1>t. \A q \in LsRequests : ls[q] \in LsRequest
    BY DEF LsTypeOK
  <1>1. ls'[r] = LsIdle
    BY DEF ChangeWritesStatus
  <1>2. ASSUME NEW q \in LsRequests \ {r}
        PROVE  /\ ls'[q] \in LsRequest
               /\ ls'[q].pc = ls[q].pc /\ ls'[q].sec = ls[q].sec
               /\ LsAt(q, "join") => ls'[q].overtaken
    <2> DEFINE b == ls[q].overtaken \/ LsAt(q, "join")
    <2>1. ls'[q] = [ls[q] EXCEPT !.overtaken = b]
      BY DEF ChangeWritesStatus
    <2>2. b \in BOOLEAN /\ (LsAt(q, "join") => b)
      BY <1>t, Zenon
    <2> HIDE DEF b
    <2>3. QED
      BY <1>t, <2>1, <2>2 DEF LsRequest
  <1>3. ls' \in [LsRequests -> LsRequest]
    BY <1>1, <1>2, LsIdleTyped DEF ChangeWritesStatus
  <1>4. liveStatus' \in LiveSessionStatus
    BY <1>t DEF ChangeWritesStatus, LsRequest
  <1>5. QED
    BY <1>1, <1>2, <1>3, <1>4

LEMMA CarriedKept ==
  ASSUME ls' = ls
  PROVE  Carried' = Carried
  BY DEF Carried, CarriedBy

\* The shape, and the cause of a late join, in a step that changes at most one
\* request and no status.
LEMMA StepKeepsShape ==
  ASSUME LsShape, LateJoinHasCause, NEW r \in LsRequests,
         ls' \in [LsRequests -> LsRequest],
         \A q \in LsRequests \ {r} : ls'[q] = ls[q],
         ls'[r].pc # "leave" => ls'[r].sec = 0,
         ls'[r].pc = "join" => liveStatus \notin Closed,
         liveStatus' = liveStatus, clock' = clock,
         attendee' \in [joinedAt : -1..MaxClock, durationSec : Nat],
         attendee'.joinedAt =< clock, present' \in BOOLEAN,
         present' => attendee'.joinedAt \in 0..clock,
         attended' \in Nat, surplus' \in Int
  PROVE  LsShape' /\ LateJoinHasCause'
  <1>1. LsTypeOK'
    BY DEF LsShape, LsTypeOK
  <1>2. LsShape'
    BY <1>1 DEF LsShape, LsAt
  <1>3. LateJoinHasCause'
    BY DEF LateJoinHasCause, LsAt
  <1>4. QED
    BY <1>2, <1>3

LEMMA LsTyped ==
  ASSUME LsShape
  PROVE  /\ LsTypeOK /\ clock \in Nat /\ attendee.joinedAt \in Int
         /\ attendee.durationSec \in Nat /\ attended \in Nat /\ surplus \in Int
         /\ Interval \in Int /\ Open \in Nat
         /\ \A r \in LsRequests : ls[r].sec \in Nat
  <1>1. /\ LsTypeOK /\ clock \in Nat /\ attendee.joinedAt \in Int
        /\ attendee.durationSec \in Nat /\ attended \in Nat /\ surplus \in Int
    BY LiveAssumption DEF LsShape, LsTypeOK
  <1>2. Interval \in Int
    BY <1>1 DEF Interval
  <1>3. present => Interval \in Nat
    BY <1>1 DEF Interval, LsTypeOK
  <1>4. Open \in Nat
    BY <1>3 DEF Open
  <1>5. \A r \in LsRequests : ls[r].sec \in Nat
    BY LiveAssumption DEF LsShape, LsTypeOK, LsRequest
  <1>6. QED
    BY <1>1, <1>2, <1>4, <1>5

LEMMA LsTickInv ==
  ASSUME LsInv, Tick
  PROVE  LsInv'
  <1>i. LsShape /\ AttendanceConserved /\ LateJoinHasCause
    BY DEF LsInv, AttendanceSound
  <1>1. clock' = clock + 1 /\ clock' \in 0..MaxClock
    BY <1>i, LiveAssumption DEF Tick, LsShape, LsTypeOK
  <1>2. /\ attended' = attended + (IF present THEN 1 ELSE 0)
        /\ UNCHANGED <<liveStatus, attendee, ls, present, surplus>>
    BY DEF Tick
  <1>3. LsShape'
    <2>1. attended' \in Nat
      BY <1>i, <1>2, LsTyped
    <2>2. present' => attendee'.joinedAt \in 0..clock'
      BY <1>i, <1>1, <1>2 DEF LsShape, LsTypeOK
    <2>3. LsTypeOK'
      BY <1>i, <1>1, <1>2, <2>1, <2>2 DEF LsShape, LsTypeOK
    <2>4. attendee'.joinedAt =< clock'
      BY <1>i, <1>1, <1>2, LsTyped DEF LsShape
    <2>5. QED
      BY <1>i, <1>2, <2>3, <2>4 DEF LsShape, LsAt
  <1>4. Open' = Open + (IF present THEN 1 ELSE 0)
    BY <1>i, <1>1, <1>2, LsTyped DEF Open, Interval
  <1>5. Carried' = Carried /\ Carried \in Nat
    <2>1. LsTypeOK /\ LsTypeOK'
      BY <1>i, <1>3, LsTyped DEF LsShape
    <2>2. Carried' = Carried
      BY <1>2, CarriedKept
    <2>3. Carried \in Nat
      BY <2>1, CarriedIsNat
    <2>4. QED
      BY <2>2, <2>3
  <1>6. AttendanceConserved'
    BY <1>i, <1>2, <1>4, <1>5, LsTyped DEF AttendanceConserved
  <1>7. LateJoinHasCause'
    BY <1>i, <1>2 DEF LateJoinHasCause, LsAt
  <1>8. QED
    BY <1>3, <1>6, <1>7 DEF LsInv, AttendanceSound

LEMMA LsStepInv ==
  ASSUME LsInv, NEW r \in LsRequests, LsStep(r)
  PROVE  LsInv'
  <1>i. /\ LsShape /\ AttendanceConserved /\ LateJoinHasCause /\ LsTypeOK
        /\ present \in BOOLEAN
        /\ present => attendee.joinedAt \in 0..clock
        /\ attendee \in [joinedAt : -1..MaxClock, durationSec : Nat]
        /\ attendee.joinedAt =< clock
    BY DEF LsInv, AttendanceSound, LsShape, LsTypeOK
  <1>n. /\ clock \in Nat /\ attendee.joinedAt \in Int
        /\ attendee.durationSec \in Nat /\ attended \in Nat /\ surplus \in Int
        /\ Interval \in Int /\ Open \in Nat /\ ls[r].sec \in Nat
        /\ clock \in -1..MaxClock
    BY <1>i, LsTyped DEF LsTypeOK
  <1>c. /\ Carried \in Nat
        /\ attendee.durationSec + Carried + Open = attended + surplus
    BY <1>i, CarriedIsNat DEF AttendanceConserved
  <1>1. ASSUME ChangeWritesStatus(r) PROVE LsInv'
    <2>1. /\ ls' \in [LsRequests -> LsRequest] /\ ls'[r] = LsIdle
          /\ \A q \in LsRequests \ {r} :
               /\ ls'[q].pc = ls[q].pc /\ ls'[q].sec = ls[q].sec
               /\ LsAt(q, "join") => ls'[q].overtaken
          /\ liveStatus' \in LiveSessionStatus
      BY <1>1, <1>i, StatusWritten
    <2>2. ls[r].pc = "status" /\ UNCHANGED <<clock, attendee, present, attended, surplus>>
      BY <1>1 DEF ChangeWritesStatus, LsAt
    <2>3. LsTypeOK'
      BY <1>i, <2>1, <2>2 DEF LsTypeOK
    <2>4. LsShape'
      BY <1>i, <2>1, <2>2, <2>3, LsIdleTyped DEF LsShape, LsAt
    <2>5. ls[r].sec = 0 /\ ls'[r].sec = 0
      BY <1>i, <2>1, <2>2, LsIdleTyped DEF LsShape, LsAt
    <2>6. Carried' = Carried
      BY <1>i, <1>c, <2>1, <2>3, <2>5, CarriedBySome
    <2>7. AttendanceConserved'
      BY <1>c, <2>2, <2>6 DEF AttendanceConserved, Open, Interval
    <2>8. LateJoinHasCause'
      BY <2>1, LsIdleTyped DEF LateJoinHasCause, LsAt
    <2>9. QED
      BY <2>4, <2>7, <2>8 DEF LsInv, AttendanceSound
  <1>2. ASSUME \/ JoinChecks(r)
               \/ \E to \in {"LIVE", "COMPLETED", "CANCELLED"} : ChangeFindsSession(r, to)
        PROVE  LsInv'
    <2>1. /\ ls[r].pc = "idle" /\ ls' \in [LsRequests -> LsRequest]
          /\ ls'[r].pc \in {"join", "status"} /\ ls'[r].sec = 0
          /\ ls'[r].pc = "join" => liveStatus \notin Closed
          /\ \A q \in LsRequests \ {r} : ls'[q] = ls[q]
          /\ UNCHANGED <<clock, liveStatus, attendee, present, attended, surplus>>
      BY <1>2, <1>i, StartsEmpty
    <2>2. LsShape' /\ LateJoinHasCause'
      <3>1. /\ attendee' \in [joinedAt : -1..MaxClock, durationSec : Nat]
            /\ attendee'.joinedAt =< clock /\ attended' \in Nat /\ surplus' \in Int
        BY <1>i, <1>n, <2>1
      <3>2. present' = present /\ attendee'.joinedAt = attendee.joinedAt
        BY <2>1
      <3>3. present' \in BOOLEAN
        BY <1>i, <3>2
      <3>4. present' => attendee'.joinedAt \in 0..clock
        BY <1>i, <3>2
      <3>5. /\ ls'[r].pc # "leave" => ls'[r].sec = 0
            /\ ls'[r].pc = "join" => liveStatus \notin Closed
            /\ liveStatus' = liveStatus /\ clock' = clock
        BY <2>1
      <3>6. QED
        BY <1>i, <2>1, <3>1, <3>3, <3>4, <3>5, StepKeepsShape
    <2>3. ls[r].sec = 0
      BY <1>i, <2>1 DEF LsShape, LsAt
    <2>4. Carried' = Carried
      BY <1>i, <1>c, <2>1, <2>2, <2>3, CarriedBySome DEF LsShape
    <2>5. AttendanceConserved'
      BY <1>c, <2>1, <2>4 DEF AttendanceConserved, Open, Interval
    <2>6. QED
      BY <2>2, <2>5 DEF LsInv, AttendanceSound
  <1>3. ASSUME JoinWrites(r) PROVE LsInv'
    <2>1. /\ ls' \in [LsRequests -> LsRequest] /\ ls'[r] = LsIdle
          /\ \A q \in LsRequests \ {r} : ls'[q] = ls[q]
      BY <1>3, <1>i, LsReturns DEF JoinWrites
    <2>2. /\ ls[r].pc = "join" /\ present' /\ present' \in BOOLEAN
          /\ surplus' = surplus - Open
          /\ UNCHANGED <<clock, liveStatus, attended>>
      BY <1>3 DEF JoinWrites, LsAt
    <2>3. /\ attendee' \in [joinedAt : -1..MaxClock, durationSec : Nat]
          /\ attendee'.joinedAt = clock /\ attendee'.durationSec = attendee.durationSec
      BY <1>3, <1>i, <1>n DEF JoinWrites
    <2>4. LsShape' /\ LateJoinHasCause'
      <3>1. attendee'.joinedAt \in 0..clock /\ surplus' \in Int /\ attendee'.joinedAt =< clock
        BY <1>n, <2>2, <2>3
      <3>2. QED
        BY <1>i, <1>n, <2>1, <2>2, <2>3, <3>1, LsIdleTyped, StepKeepsShape
    <2>5. Carried' = Carried
      <3>1. ls[r].sec = 0
        BY <1>i, <2>2 DEF LsShape, LsAt
      <3>2. QED
        BY <1>i, <1>c, <2>1, <2>4, <3>1, LsIdleTyped, CarriedBySome DEF LsShape
    <2>6. Open' = 0
      BY <1>n, <2>2, <2>3 DEF Open, Interval
    <2>7. AttendanceConserved'
      BY <1>c, <1>n, <2>2, <2>3, <2>5, <2>6 DEF AttendanceConserved
    <2>8. QED
      BY <2>4, <2>7 DEF LsInv, AttendanceSound
  <1>4. ASSUME LeaveReadsRow(r) PROVE LsInv'
    <2>1. /\ ls[r].pc = "idle" /\ ls' \in [LsRequests -> LsRequest]
          /\ ls'[r].pc = "leave" /\ ls'[r].sec = Interval /\ Interval \in Nat
          /\ \A q \in LsRequests \ {r} : ls'[q] = ls[q]
      BY <1>4, <1>i, StartsLeave
    <2>2. /\ ~present' /\ present' \in BOOLEAN /\ surplus' = surplus + (Interval - Open)
          /\ UNCHANGED <<clock, liveStatus, attendee, attended>>
      BY <1>4 DEF LeaveReadsRow
    <2>3. surplus' \in Int
      BY <1>n, <2>2
    <2>4. LsShape' /\ LateJoinHasCause'
      BY <1>i, <1>n, <2>1, <2>2, <2>3, StepKeepsShape
    <2>5. Carried' = Carried + Interval
      <3>1. ls[r].sec = 0
        BY <1>i, <2>1 DEF LsShape, LsAt
      <3>2. Carried' = Carried + ls'[r].sec - ls[r].sec
        BY <1>i, <2>1, <2>4, CarriedBySome DEF LsShape
      <3>3. QED
        BY <1>c, <2>1, <3>1, <3>2
    <2>6. Open' = 0
      BY <2>2 DEF Open
    <2>7. AttendanceConserved'
      BY <1>c, <1>n, <2>2, <2>5, <2>6 DEF AttendanceConserved
    <2>8. QED
      BY <2>4, <2>7 DEF LsInv, AttendanceSound
  <1>5. ASSUME LeaveWritesRow(r) PROVE LsInv'
    <2>1. /\ ls' \in [LsRequests -> LsRequest] /\ ls'[r] = LsIdle
          /\ \A q \in LsRequests \ {r} : ls'[q] = ls[q]
      BY <1>5, <1>i, LsReturns DEF LeaveWritesRow
    <2>2. UNCHANGED <<clock, liveStatus, present, attended, surplus>>
      BY <1>5 DEF LeaveWritesRow
    <2>3. attendee.durationSec + ls[r].sec \in Nat
      BY <1>n
    <2>4. /\ attendee' \in [joinedAt : -1..MaxClock, durationSec : Nat]
          /\ attendee'.joinedAt = attendee.joinedAt
          /\ attendee'.durationSec = attendee.durationSec + ls[r].sec
      BY <1>5, <1>i, <2>3 DEF LeaveWritesRow, NewDuration
    <2>5. LsShape' /\ LateJoinHasCause'
      <3>1. /\ attendee' \in [joinedAt : -1..MaxClock, durationSec : Nat]
            /\ attendee'.joinedAt =< clock /\ attended' \in Nat /\ surplus' \in Int
        BY <1>i, <1>n, <2>1, <2>2, <2>4
      <3>2. present' = present /\ attendee'.joinedAt = attendee.joinedAt
        BY <2>1, <2>2, <2>4
      <3>3. present' \in BOOLEAN
        BY <1>i, <3>2
      <3>4. present' => attendee'.joinedAt \in 0..clock
        BY <1>i, <3>2
      <3>5. /\ ls'[r].pc # "leave" => ls'[r].sec = 0
            /\ ls'[r].pc = "join" => liveStatus \notin Closed
            /\ liveStatus' = liveStatus /\ clock' = clock
        BY <2>1, <2>2, <2>4, LsIdleTyped
      <3>6. QED
        BY <1>i, <2>1, <3>1, <3>3, <3>4, <3>5, StepKeepsShape
    <2>6. Carried' = Carried + ls'[r].sec - ls[r].sec
      BY <1>i, <2>1, <2>5, CarriedBySome DEF LsShape
    <2>7. Carried' = Carried - ls[r].sec
      BY <1>c, <1>n, <2>1, <2>6, LsIdleTyped
    <2>8. Open' = Open
      BY <2>2, <2>4 DEF Open, Interval
    <2>9. AttendanceConserved'
      BY <1>c, <1>n, <2>2, <2>4, <2>7, <2>8 DEF AttendanceConserved
    <2>10. QED
      BY <2>5, <2>9 DEF LsInv, AttendanceSound
  <1>6. ASSUME LsDies(r) PROVE LsInv'
    <2>1. /\ ls' \in [LsRequests -> LsRequest] /\ ls'[r] = LsIdle
          /\ \A q \in LsRequests \ {r} : ls'[q] = ls[q]
      BY <1>6, <1>i, LsReturns DEF LsDies
    <2>2. surplus' = surplus - ls[r].sec /\ UNCHANGED <<clock, liveStatus, attendee, present, attended>>
      BY <1>6 DEF LsDies
    <2>3. surplus' \in Int
      BY <1>n, <2>2
    <2>4. LsShape' /\ LateJoinHasCause'
      <3>1. /\ attendee' \in [joinedAt : -1..MaxClock, durationSec : Nat]
            /\ attendee'.joinedAt =< clock /\ attended' \in Nat /\ surplus' \in Int
        BY <1>i, <1>n, <2>1, <2>2, <2>3
      <3>2. present' = present /\ attendee'.joinedAt = attendee.joinedAt
        BY <2>1, <2>2, <2>3
      <3>3. present' \in BOOLEAN
        BY <1>i, <3>2
      <3>4. present' => attendee'.joinedAt \in 0..clock
        BY <1>i, <3>2
      <3>5. /\ ls'[r].pc # "leave" => ls'[r].sec = 0
            /\ ls'[r].pc = "join" => liveStatus \notin Closed
            /\ liveStatus' = liveStatus /\ clock' = clock
        BY <2>1, <2>2, <2>3, LsIdleTyped
      <3>6. QED
        BY <1>i, <2>1, <3>1, <3>3, <3>4, <3>5, StepKeepsShape
    <2>5. Carried' = Carried + ls'[r].sec - ls[r].sec
      BY <1>i, <2>1, <2>4, CarriedBySome DEF LsShape
    <2>6. Carried' = Carried - ls[r].sec
      BY <1>c, <1>n, <2>1, <2>5, LsIdleTyped
    <2>7. Open' = Open
      BY <2>2 DEF Open, Interval
    <2>8. AttendanceConserved'
      BY <1>c, <1>n, <2>2, <2>6, <2>7 DEF AttendanceConserved
    <2>9. QED
      BY <2>4, <2>8 DEF LsInv, AttendanceSound
  <1>7. QED
    BY <1>1, <1>2, <1>3, <1>4, <1>5, <1>6 DEF LsStep

LEMMA LsInitInv == LsInit => LsInv
  <1> SUFFICES ASSUME LsInit PROVE LsInv
    OBVIOUS
  <1>1. LsTypeOK
    <2>1. clock \in 0..MaxClock /\ attendee \in [joinedAt : -1..MaxClock, durationSec : Nat]
      BY LiveAssumption DEF LsInit, NotJoined
    <2>2. ls \in [LsRequests -> LsRequest] /\ liveStatus \in LiveSessionStatus
      BY LsIdleTyped DEF LsInit, LiveSessionStatus
    <2>3. attended \in Nat /\ surplus \in Int
      BY DEF LsInit
    <2>6. present \in BOOLEAN
      BY Zenon DEF LsInit
    <2>4. present => attendee.joinedAt \in 0..clock
      BY DEF LsInit
    <2>5. QED
      BY <2>1, <2>2, <2>3, <2>4, <2>6 DEF LsTypeOK
  <1>2. LsShape
    BY <1>1, LsIdleTyped DEF LsInit, LsShape, NotJoined
  <1>3. AttendanceConserved
    <2>1. \A r \in LsRequests : ls[r].sec = 0
      BY LsIdleTyped DEF LsInit
    <2>2. \A r \in LsRequests : CarriedBy(r) = {}
      BY <2>1 DEF CarriedBy
    <2>3. UNION {CarriedBy(r) : r \in LsRequests} = {}
      BY <2>2
    <2>4. Carried = 0
      BY <2>3, FS_EmptySet DEF Carried
    <2>5. QED
      BY <2>4 DEF LsInit, AttendanceConserved, Open
  <1>4. LateJoinHasCause
    BY LsIdleTyped DEF LsInit, LateJoinHasCause, LsAt
  <1>5. QED
    BY <1>2, <1>3, <1>4 DEF LsInv, AttendanceSound

LEMMA LsNextInv == LsInv /\ [LsNext]_lsVars => LsInv'
  <1> SUFFICES ASSUME LsInv, [LsNext]_lsVars PROVE LsInv'
    OBVIOUS
  <1>1. CASE Tick
    BY <1>1, LsTickInv
  <1>2. CASE \E r \in LsRequests : LsStep(r)
    BY <1>2, LsStepInv
  <1>3. CASE UNCHANGED lsVars
    <2>1. Carried' = Carried
      BY <1>3, CarriedKept DEF lsVars
    <2>2. LsShape'
      BY <1>3 DEF LsInv, LsShape, lsVars, LsTypeOK, LsAt
    <2>3. AttendanceSound'
      BY <1>3, <2>1 DEF LsInv, AttendanceSound, AttendanceConserved, LateJoinHasCause,
                        lsVars, LsAt, Open, Interval
    <2>4. QED
      BY <2>2, <2>3 DEF LsInv
  <1>4. QED
    BY <1>1, <1>2, <1>3 DEF LsNext

(* Every reachable state of a live session is well typed, for any requests   *)
(* and bounds: nobody is present without a join in the past.               *)
THEOREM LsTypeCorrect == LsSpec => []LsTypeOK
  <1>1. LsInv => LsTypeOK
    BY DEF LsInv, LsShape
  <1>2. QED
    BY <1>1, LsInitInv, LsNextInv, PTL DEF LsSpec

(* The seconds in the attendee's row, with those a leave has read and those *)
(* still open, are the seconds attended but for the repeated, restarted and *)
(* lost intervals; and a join reaches a closed session only by a status     *)
(* change between its check and its write.                                 *)
THEOREM AttendanceAlwaysSound == LsSpec => []AttendanceSound
  <1>1. LsInv => AttendanceSound
    BY DEF LsInv
  <1>2. QED
    BY <1>1, LsInitInv, LsNextInv, PTL DEF LsSpec

-------------------------------------------------------------------------------
(* Presence.                                                               *)

NothingToItself == \A p \in Processes : channel[p][p] = <<>>

\* Outside spread, what is said of a user is said by one process.
OneInvolved == \A u \in Members \ spread : \A p, q \in Involved(u) : p = q

IsLast(p, q, u, i) ==
  i \in Pending(p, q, u) /\ \A j \in Pending(p, q, u) : j =< i

\* The last announcement under way says how things are.
LastAnnounced(u) ==
  \A p, q \in Processes : \A i \in Pending(p, q, u) :
    IsLast(p, q, u, i) => (channel[p][q][i].online <=> Connected(u))

ViewRight(u) ==
  \A q \in Processes :
    (\A p \in Processes : Pending(p, q, u) = {}) => (u \in view[q] <=> Connected(u))

PreInv ==
  /\ PreTypeOK /\ NothingToItself /\ OneInvolved
  /\ \A u \in Members \ (spread \cup cutOff) : LastAnnounced(u) /\ ViewRight(u)

\* What Pending says of a queue after io.emit, and after its first message.
LEMMA PendingAppended ==
  ASSUME NEW c \in Seq(Announcement), NEW d, NEW m \in Announcement, d = Append(c, m)
  PROVE  /\ d \in Seq(Announcement)
         /\ DOMAIN d = DOMAIN c \cup {Len(c) + 1} /\ d[Len(c) + 1] = m
         /\ \A i \in DOMAIN c : d[i] = c[i] /\ i =< Len(c)
         /\ Len(c) \in Nat /\ DOMAIN c \subseteq Nat
  OBVIOUS

LEMMA PendingTail ==
  ASSUME NEW c \in Seq(Announcement), c # <<>>, NEW d, d = Tail(c)
  PROVE  /\ d \in Seq(Announcement) /\ Head(c) = c[1] /\ 1 \in DOMAIN c
         /\ DOMAIN c \subseteq Nat
         /\ \A i \in DOMAIN d : i + 1 \in DOMAIN c /\ d[i] = c[i + 1] /\ i \in Nat
         /\ \A i \in DOMAIN c : i > 1 => i - 1 \in DOMAIN d
         /\ \A i \in DOMAIN c : i >= 1
  OBVIOUS

\* A user that two processes are about is spread.
LEMMA TwoInvolvedSpread ==
  ASSUME NEW u \in Members, NoteSpread, u \notin spread'
  PROVE  u \notin spread /\ \A p, q \in Involved(u)' : p = q
  <1>1. u \notin spread /\ ~(Cardinality(Involved(u)') > 1)
    BY DEF NoteSpread
  <1>2. SUFFICES ASSUME NEW p \in Involved(u)', NEW q \in Involved(u)', p # q PROVE FALSE
    BY <1>1
  <1>3. Involved(u)' \in SUBSET Processes /\ IsFiniteSet(Processes)
    BY PresenceAssumption DEF Involved
  <1>4. IsFiniteSet(Involved(u)') /\ Cardinality(Involved(u)') \in Nat
    BY <1>3, FS_Subset, FS_CardinalityType
  <1>5. {p, q} \in SUBSET Involved(u)'
    BY <1>2
  <1>6. Cardinality({p, q}) = 2
    <2>1. IsFiniteSet({p}) /\ Cardinality({p}) = 1
      BY FS_Singleton
    <2>2. Cardinality({p} \cup {q}) = Cardinality({p}) + 1
      BY <1>2, <2>1, FS_AddElement
    <2>3. {p} \cup {q} = {p, q}
      OBVIOUS
    <2>4. QED
      BY <2>1, <2>2, <2>3
  <1>7. Cardinality({p, q}) =< Cardinality(Involved(u)')
    BY <1>4, <1>5, FS_Subset
  <1>8. QED
    BY <1>1, <1>4, <1>6, <1>7

\* io.emit: the others' queues grow by the message, the own clients hear it.
LEMMA Announced ==
  ASSUME PreTypeOK, NothingToItself, NEW p \in Processes, NEW m \in Announcement,
         Announce(p, m)
  PROVE  /\ channel' \in [Processes -> [Processes -> Seq(Announcement)]]
         /\ view' \in [Processes -> SUBSET Members]
         /\ \A q \in Processes \ {p} : channel'[p][q] = Append(channel[p][q], m)
         /\ channel'[p][p] = <<>>
         /\ \A r \in Processes \ {p} : channel'[r] = channel[r] /\ view'[r] = view[r]
         /\ view'[p] = Hear(view[p], m)
  <1> DEFINE c == [q \in Processes |-> IF q = p THEN channel[p][q] ELSE Append(channel[p][q], m)]
  <1>1. channel \in [Processes -> [Processes -> Seq(Announcement)]]
        /\ view \in [Processes -> SUBSET Members]
    BY DEF PreTypeOK
  <1>2. c \in [Processes -> Seq(Announcement)]
    BY <1>1
  <1>3. channel' = [channel EXCEPT ![p] = c] /\ view' = [view EXCEPT ![p] = Hear(@, m)]
    BY DEF Announce
  <1>4. /\ \A q \in Processes \ {p} : c[q] = Append(channel[p][q], m)
        /\ c[p] = <<>>
    BY DEF NothingToItself
  <1> HIDE DEF c
  <1>5. Hear(view[p], m) \in SUBSET Members
    BY <1>1 DEF Hear, Announcement
  <1>6. channel'[p] = c /\ \A r \in Processes \ {p} : channel'[r] = channel[r]
    BY <1>1, <1>3
  <1>7. channel' \in [Processes -> [Processes -> Seq(Announcement)]]
    BY <1>1, <1>2, <1>3
  <1>8. /\ view' \in [Processes -> SUBSET Members] /\ view'[p] = Hear(view[p], m)
        /\ \A r \in Processes \ {p} : view'[r] = view[r]
    BY <1>1, <1>3, <1>5
  <1>9. QED
    BY <1>4, <1>6, <1>7, <1>8

LEMMA PreTyped ==
  ASSUME PreTypeOK
  PROVE  /\ \A p, q \in Processes : channel[p][q] \in Seq(Announcement)
         /\ \A p, q \in Processes, u \in Members :
              Pending(p, q, u) \subseteq DOMAIN channel[p][q]
  BY DEF PreTypeOK, Pending

\* Which announcements about u are under way once p has announced m.
LEMMA AnnouncedPending ==
  ASSUME PreTypeOK, NothingToItself, NEW p \in Processes, NEW m \in Announcement,
         Announce(p, m), NEW r \in Processes, NEW q \in Processes, NEW u \in Members
  PROVE  /\ r # p \/ q = p \/ m.user # u =>
              /\ Pending(r, q, u)' = Pending(r, q, u)
              /\ \A i \in Pending(r, q, u) : channel'[r][q][i] = channel[r][q][i]
         /\ r = p /\ q # p /\ m.user = u =>
              /\ Pending(r, q, u)' # {}
              /\ \A i \in Pending(r, q, u)' :
                   IsLast(r, q, u, i)' => channel'[r][q][i] = m
  <1>a. /\ \A k \in Processes \ {p} : channel'[p][k] = Append(channel[p][k], m)
        /\ channel'[p][p] = <<>> /\ channel[p][p] = <<>>
        /\ \A k \in Processes \ {p} : channel'[k] = channel[k]
    BY Announced DEF NothingToItself
  <1>1. CASE r # p \/ q = p
    <2>1. channel'[r][q] = channel[r][q]
      BY <1>1, <1>a
    <2>2. QED
      BY <1>1, <2>1 DEF Pending
  <1>2. CASE r = p /\ q # p
    <2> DEFINE c == channel[r][q]
               d == channel'[r][q]
               n == Len(c) + 1
    <2>1. c \in Seq(Announcement) /\ d = Append(c, m)
      BY <1>2, <1>a, PreTyped
    <2>2. /\ DOMAIN d = DOMAIN c \cup {n} /\ d[n] = m
          /\ \A i \in DOMAIN c : d[i] = c[i] /\ i =< Len(c)
          /\ Len(c) \in Nat /\ DOMAIN c \subseteq Nat
      BY <2>1, PendingAppended
    <2>3. /\ Pending(r, q, u) = {i \in DOMAIN c : c[i].user = u}
          /\ Pending(r, q, u)' = {i \in DOMAIN d : d[i].user = u}
      BY DEF Pending
    <2> HIDE DEF c, d
    <2>4. ASSUME m.user # u
          PROVE  /\ Pending(r, q, u)' = Pending(r, q, u)
                 /\ \A i \in Pending(r, q, u) : d[i] = c[i]
      BY <2>2, <2>3, <2>4
    <2>5. ASSUME m.user = u
          PROVE  /\ Pending(r, q, u)' # {}
                 /\ \A i \in Pending(r, q, u)' : IsLast(r, q, u, i)' => d[i] = m
      <3>1. n \in Pending(r, q, u)'
        BY <2>2, <2>3, <2>5
      <3>2. ASSUME NEW i \in Pending(r, q, u)', IsLast(r, q, u, i)'
            PROVE  i = n
        <4>1. n =< i
          BY <3>1, <3>2 DEF IsLast
        <4>2. i \in DOMAIN c \/ i = n
          BY <2>2, <2>3, <3>2
        <4>3. i \in DOMAIN c => i =< Len(c) /\ i \in Nat
          BY <2>2
        <4>4. QED
          BY <2>2, <4>1, <4>2, <4>3
      <3>3. QED
        BY <2>2, <3>1, <3>2
    <2>6. QED
      BY <1>2, <2>4, <2>5 DEF c, d
  <1>3. QED
    BY <1>1, <1>2

\* A step that changes nothing about u.
LEMMA UserUndisturbed ==
  ASSUME NEW u \in Members, LastAnnounced(u), ViewRight(u),
         Connected(u)' <=> Connected(u),
         \A p, q \in Processes :
           /\ Pending(p, q, u)' = Pending(p, q, u)
           /\ \A i \in Pending(p, q, u) : channel'[p][q][i] = channel[p][q][i],
         \A q \in Processes : u \in view'[q] <=> u \in view[q]
  PROVE  LastAnnounced(u)' /\ ViewRight(u)'
  <1>1. LastAnnounced(u)'
    BY DEF LastAnnounced, IsLast
  <1>2. ViewRight(u)'
    BY DEF ViewRight
  <1>3. QED
    BY <1>1, <1>2

\* p announces what is true of the user, and no other process is about it.
LEMMA AnnounceInv ==
  ASSUME PreInv, NEW p \in Processes, NEW m \in Announcement,
         Announce(p, m), NoteSpread, cutOff' = cutOff,
         onlineUsers' \in [Processes -> [Members -> SUBSET Sockets]],
         \A u \in Members \ {m.user} : Connected(u)' <=> Connected(u),
         m.user \notin spread' =>
           /\ m.online <=> Connected(m.user)'
           /\ \A r \in Processes \ {p}, q \in Processes : Pending(r, q, m.user) = {}
  PROVE  PreInv'
  <1>i. PreTypeOK /\ NothingToItself /\ OneInvolved
    BY DEF PreInv
  <1>a. /\ channel' \in [Processes -> [Processes -> Seq(Announcement)]]
        /\ view' \in [Processes -> SUBSET Members]
        /\ channel'[p][p] = <<>>
        /\ \A r \in Processes \ {p} : channel'[r] = channel[r] /\ view'[r] = view[r]
        /\ view'[p] = Hear(view[p], m)
    BY <1>i, Announced
  <1>1. PreTypeOK'
    <2>1. spread' \cup cutOff' \subseteq Members
      BY <1>i DEF PreTypeOK, NoteSpread
    <2>2. QED
      BY <1>a, <2>1 DEF PreTypeOK
  <1>2. NothingToItself'
    BY <1>i, <1>a DEF NothingToItself
  <1>3. OneInvolved'
    BY TwoInvolvedSpread DEF OneInvolved
  <1>4. ASSUME NEW u \in Members \ (spread' \cup cutOff')
        PROVE  LastAnnounced(u)' /\ ViewRight(u)'
    <2>0. u \in Members \ (spread \cup cutOff) /\ u \notin spread'
      BY <1>4 DEF NoteSpread
    <2>1. CASE u # m.user
      <3>1. \A r, q \in Processes :
              /\ Pending(r, q, u)' = Pending(r, q, u)
              /\ \A i \in Pending(r, q, u) : channel'[r][q][i] = channel[r][q][i]
        BY <1>i, <2>1, AnnouncedPending
      <3>2. \A q \in Processes : u \in view'[q] <=> u \in view[q]
        BY <1>a, <2>1 DEF Hear
      <3>3. LastAnnounced(u) /\ ViewRight(u)
        BY <2>0 DEF PreInv
      <3>4. QED
        BY <2>1, <3>1, <3>2, <3>3, UserUndisturbed
    <2>2. CASE u = m.user
      <3>1. /\ m.online <=> Connected(u)'
            /\ \A r \in Processes \ {p}, q \in Processes : Pending(r, q, u) = {}
        BY <2>0, <2>2
      <3>2. \A r \in Processes \ {p}, q \in Processes : Pending(r, q, u)' = {}
        BY <1>i, <3>1, AnnouncedPending
      <3>3. \A q \in Processes \ {p} :
              /\ Pending(p, q, u)' # {}
              /\ \A i \in Pending(p, q, u)' :
                   IsLast(p, q, u, i)' => channel'[p][q][i] = m
        BY <1>i, <2>2, AnnouncedPending
      <3>4. Pending(p, p, u)' = {}
        BY <1>a DEF Pending
      <3>5. LastAnnounced(u)'
        <4>1. SUFFICES ASSUME NEW r \in Processes, NEW q \in Processes,
                              NEW i \in Pending(r, q, u)', IsLast(r, q, u, i)'
                       PROVE  channel'[r][q][i].online <=> Connected(u)'
          BY DEF LastAnnounced
        <4>2. r = p /\ q # p
          BY <3>2, <3>4
        <4>3. channel'[r][q][i] = m
          BY <3>3, <4>1, <4>2
        <4>4. QED
          BY <3>1, <4>3
      <3>6. ViewRight(u)'
        <4>1. SUFFICES ASSUME NEW q \in Processes,
                              \A r \in Processes : Pending(r, q, u)' = {}
                       PROVE  u \in view'[q] <=> Connected(u)'
          BY DEF ViewRight
        <4>2. q = p
          BY <3>3, <4>1
        <4>3. u \in view'[p] <=> m.online
          BY <1>a, <2>2 DEF Hear
        <4>4. QED
          BY <3>1, <4>2, <4>3
      <3>7. QED
        BY <3>5, <3>6
    <2>3. QED
      BY <2>1, <2>2
  <1>5. QED
    BY <1>1, <1>2, <1>3, <1>4 DEF PreInv

\* The sockets of one user on one process change.
LEMMA SocketsChange ==
  ASSUME PreTypeOK, NEW p \in Processes, NEW v \in Members, NEW S \in SUBSET Sockets,
         onlineUsers' = [onlineUsers EXCEPT ![p][v] = S]
  PROVE  /\ onlineUsers' \in [Processes -> [Members -> SUBSET Sockets]]
         /\ onlineUsers'[p][v] = S
         /\ \A q \in Processes, u \in Members :
              q # p \/ u # v => onlineUsers'[q][u] = onlineUsers[q][u]
         /\ \A u \in Members \ {v} : Connected(u)' <=> Connected(u)
  <1>t. onlineUsers \in [Processes -> [Members -> SUBSET Sockets]]
    BY DEF PreTypeOK
  <1> DEFINE w == [onlineUsers[p] EXCEPT ![v] = S]
  <1>1. /\ w \in [Members -> SUBSET Sockets] /\ w[v] = S
        /\ \A u \in Members \ {v} : w[u] = onlineUsers[p][u]
    BY <1>t
  <1>2. onlineUsers' = [onlineUsers EXCEPT ![p] = w]
    BY <1>t
  <1> HIDE DEF w
  <1>3. /\ onlineUsers' \in [Processes -> [Members -> SUBSET Sockets]]
        /\ onlineUsers'[p] = w
        /\ \A q \in Processes \ {p} : onlineUsers'[q] = onlineUsers[q]
    BY <1>t, <1>1, <1>2
  <1>4. \A q \in Processes, u \in Members :
          q # p \/ u # v => onlineUsers'[q][u] = onlineUsers[q][u]
    BY <1>1, <1>3
  <1>5. QED
    BY <1>1, <1>3, <1>4 DEF Connected

LEMMA ConnectInv ==
  ASSUME PreInv, NEW p \in Processes, NEW v \in Members, NEW s \in Sockets,
         Connect(p, v, s)
  PROVE  PreInv'
  <1> DEFINE m == [user |-> v, online |-> TRUE]
  <1>0. m \in Announcement /\ m.user = v /\ m.online
    BY DEF Announcement
  <1>i. PreTypeOK /\ NothingToItself /\ onlineUsers[p][v] \in SUBSET Sockets
    BY DEF PreInv, PreTypeOK
  <1>1. /\ onlineUsers' = [onlineUsers EXCEPT ![p][v] = onlineUsers[p][v] \cup {s}]
        /\ Announce(p, m) /\ NoteSpread /\ cutOff' = cutOff
    BY DEF Connect
  <1> HIDE DEF m
  <1>2. /\ onlineUsers' \in [Processes -> [Members -> SUBSET Sockets]]
        /\ onlineUsers'[p][v] = onlineUsers[p][v] \cup {s}
        /\ \A u \in Members \ {v} : Connected(u)' <=> Connected(u)
    <2> DEFINE S == onlineUsers[p][v] \cup {s}
    <2>1. S \in SUBSET Sockets /\ onlineUsers' = [onlineUsers EXCEPT ![p][v] = S]
      BY <1>i, <1>1
    <2>2. S = onlineUsers[p][v] \cup {s}
      OBVIOUS
    <2> HIDE DEF S
    <2>3. /\ onlineUsers' \in [Processes -> [Members -> SUBSET Sockets]]
          /\ onlineUsers'[p][v] = S
          /\ \A q \in Processes, u \in Members :
               q # p \/ u # v => onlineUsers'[q][u] = onlineUsers[q][u]
          /\ \A u \in Members \ {v} : Connected(u)' <=> Connected(u)
      BY ONLY <1>i, <2>1, SocketsChange, Zenon
    <2>4. QED
      BY <2>2, <2>3
  <1>3. ASSUME v \notin spread'
        PROVE  /\ m.online <=> Connected(v)'
               /\ \A r \in Processes \ {p}, q \in Processes : Pending(r, q, v) = {}
    <2>1. Connected(v)' /\ p \in Involved(v)'
      BY <1>2 DEF Connected, Involved
    <2>2. ASSUME NEW r \in Processes \ {p}, NEW q \in Processes, Pending(r, q, v) # {}
          PROVE  FALSE
      <3>1. Pending(r, q, v)' # {}
        BY <1>0, <1>1, <1>i, <2>2, AnnouncedPending
      <3>2. r \in Involved(v)'
        BY <3>1 DEF Involved
      <3>3. QED
        BY <1>1, <1>3, <2>1, <2>2, <3>2, TwoInvolvedSpread
    <2>3. QED
      BY <1>0, <2>1, <2>2
  <1>4. QED
    BY <1>0, <1>1, <1>2, <1>3, AnnounceInv

LEMMA DisconnectInv ==
  ASSUME PreInv, NEW p \in Processes, NEW v \in Members, NEW s \in Sockets,
         Disconnect(p, v, s)
  PROVE  PreInv'
  <1>i. /\ PreTypeOK /\ NothingToItself /\ OneInvolved
        /\ onlineUsers[p][v] \in SUBSET Sockets
    BY DEF PreInv, PreTypeOK
  <1>1. /\ s \in onlineUsers[p][v]
        /\ onlineUsers' = [onlineUsers EXCEPT ![p][v] = onlineUsers[p][v] \ {s}]
        /\ NoteSpread /\ cutOff' = cutOff
    BY DEF Disconnect
  <1>2. /\ onlineUsers' \in [Processes -> [Members -> SUBSET Sockets]]
        /\ onlineUsers'[p][v] = onlineUsers[p][v] \ {s}
        /\ \A q \in Processes \ {p} : onlineUsers'[q][v] = onlineUsers[q][v]
        /\ \A u \in Members \ {v} : Connected(u)' <=> Connected(u)
    <2> DEFINE S == onlineUsers[p][v] \ {s}
    <2>1. S \in SUBSET Sockets /\ onlineUsers' = [onlineUsers EXCEPT ![p][v] = S]
      BY <1>i, <1>1
    <2>2. S = onlineUsers[p][v] \ {s}
      OBVIOUS
    <2> HIDE DEF S
    <2>3. /\ onlineUsers' \in [Processes -> [Members -> SUBSET Sockets]]
          /\ onlineUsers'[p][v] = S
          /\ \A q \in Processes, u \in Members :
               q # p \/ u # v => onlineUsers'[q][u] = onlineUsers[q][u]
          /\ \A u \in Members \ {v} : Connected(u)' <=> Connected(u)
      BY ONLY <1>i, <2>1, SocketsChange, Zenon
    <2>4. QED
      BY <2>2, <2>3
  <1>3. CASE StillOnline(p, v, s)
    <2>1. channel' = channel /\ view' = view
      BY <1>3 DEF Disconnect
    <2>2. Connected(v)' /\ Connected(v)
      BY <1>1, <1>2, <1>3 DEF Connected, StillOnline
    <2>3. \A u \in Members : Connected(u)' <=> Connected(u)
      BY <1>2, <2>2
    <2>4. \A u \in Members \ (spread \cup cutOff) : LastAnnounced(u)' /\ ViewRight(u)'
      BY <2>1, <2>3, UserUndisturbed DEF PreInv, Pending
    <2>5. PreTypeOK' /\ NothingToItself' /\ spread \subseteq spread'
      BY <1>i, <1>1, <1>2, <2>1 DEF PreTypeOK, NothingToItself, NoteSpread
    <2>6. OneInvolved'
      BY <1>1, TwoInvolvedSpread DEF OneInvolved
    <2>7. QED
      BY <1>1, <2>4, <2>5, <2>6 DEF PreInv
  <1>4. CASE ~StillOnline(p, v, s)
    <2> DEFINE m == [user |-> v, online |-> FALSE]
    <2>0. m \in Announcement /\ m.user = v /\ ~m.online
      BY DEF Announcement
    <2>1. Announce(p, m)
      BY <1>4 DEF Disconnect
    <2> HIDE DEF m
    <2>2. ASSUME v \notin spread'
          PROVE  /\ m.online <=> Connected(v)'
                 /\ \A r \in Processes \ {p}, q \in Processes : Pending(r, q, v) = {}
      <3>1. v \notin spread /\ p \in Involved(v)
        BY <1>1, <2>2 DEF NoteSpread, Involved
      <3>2. \A r \in Processes \ {p} : r \notin Involved(v)
        BY <1>i, <3>1 DEF OneInvolved
      <3>3. /\ \A r \in Processes \ {p} : onlineUsers[r][v] = {}
            /\ \A r \in Processes \ {p}, q \in Processes : Pending(r, q, v) = {}
        BY <3>2 DEF Involved
      <3>4. onlineUsers'[p][v] = {}
        BY <1>2, <1>4 DEF StillOnline
      <3>5. ~Connected(v)'
        BY <1>2, <3>3, <3>4 DEF Connected
      <3>6. QED
        BY <2>0, <3>3, <3>5
    <2>3. QED
      BY <1>1, <1>2, <2>0, <2>1, <2>2, AnnounceInv
  <1>5. QED
    BY <1>3, <1>4

\* What is about a user can only become less when nothing is announced.
LEMMA InvolvedShrinks ==
  ASSUME OneInvolved, spread' = spread,
         \A u \in Members : Involved(u)' \subseteq Involved(u)
  PROVE  OneInvolved'
  BY DEF OneInvolved

LEMMA DeliverInv ==
  ASSUME PreInv, NEW p \in Processes, NEW q \in Processes, Deliver(p, q)
  PROVE  PreInv'
  <1> DEFINE c == channel[p][q]
             d == channel'[p][q]
             m == Head(c)
  <1>i. /\ PreTypeOK /\ NothingToItself /\ OneInvolved
        /\ channel \in [Processes -> [Processes -> Seq(Announcement)]]
        /\ view \in [Processes -> SUBSET Members]
    BY DEF PreInv, PreTypeOK
  <1>1. /\ c # <<>> /\ UNCHANGED <<onlineUsers, spread, cutOff>>
        /\ view' = [view EXCEPT ![q] = Hear(view[q], m)]
        /\ channel' = [channel EXCEPT ![p][q] = Tail(c)]
    BY DEF Deliver
  <1>2. c \in Seq(Announcement)
    BY <1>i
  <1>3. /\ channel' \in [Processes -> [Processes -> Seq(Announcement)]]
        /\ channel'[p][q] = Tail(c)
        /\ \A r, k \in Processes : r # p \/ k # q => channel'[r][k] = channel[r][k]
    <2> DEFINE w == [channel[p] EXCEPT ![q] = Tail(c)]
    <2>0. Tail(c) \in Seq(Announcement)
      BY <1>1, <1>2, PendingTail
    <2>1. /\ w \in [Processes -> Seq(Announcement)] /\ w[q] = Tail(c)
          /\ \A k \in Processes \ {q} : w[k] = channel[p][k]
      BY <1>i, <2>0
    <2>2. channel' = [channel EXCEPT ![p] = w]
      BY <1>1, <1>i
    <2> HIDE DEF w
    <2>3. /\ channel' \in [Processes -> [Processes -> Seq(Announcement)]]
          /\ channel'[p] = w
          /\ \A r \in Processes \ {p} : channel'[r] = channel[r]
      BY <1>i, <2>1, <2>2
    <2>4. QED
      BY <2>1, <2>3
  <1>4. /\ m = c[1] /\ 1 \in DOMAIN c /\ DOMAIN c \subseteq Nat /\ m \in Announcement
        /\ \A i \in DOMAIN d : i + 1 \in DOMAIN c /\ d[i] = c[i + 1] /\ i \in Nat
        /\ \A i \in DOMAIN c : i > 1 => i - 1 \in DOMAIN d
        /\ \A i \in DOMAIN c : i >= 1
    BY <1>1, <1>2, <1>3, PendingTail
  <1>5. \A u \in Members : /\ Pending(p, q, u) = {i \in DOMAIN c : c[i].user = u}
                           /\ Pending(p, q, u)' = {i \in DOMAIN d : d[i].user = u}
    BY DEF Pending
  <1>6. \A u \in Members, r, k \in Processes : r # p \/ k # q =>
          Pending(r, k, u)' = Pending(r, k, u)
    BY <1>3 DEF Pending
  <1> HIDE DEF c, d, m
  <1>7. /\ Hear(view[q], m) \in SUBSET Members /\ view' \in [Processes -> SUBSET Members]
        /\ view'[q] = Hear(view[q], m)
        /\ \A k \in Processes \ {q} : view'[k] = view[k]
    <2>1. Hear(view[q], m) \in SUBSET Members
      BY <1>i, <1>4 DEF Hear, Announcement
    <2>2. QED
      BY <1>i, <1>1, <2>1
  <1>8. PreTypeOK' /\ NothingToItself'
    <2>1. p # q
      BY <1>i, <1>1 DEF NothingToItself, c
    <2>2. QED
      BY <1>i, <1>1, <1>3, <1>7, <2>1 DEF PreTypeOK, NothingToItself
  <1>9. \A u \in Members : Pending(p, q, u)' # {} => Pending(p, q, u) # {}
    BY <1>4, <1>5
  <1>10. OneInvolved'
    <2>1. \A u \in Members : Involved(u)' \subseteq Involved(u)
      BY <1>1, <1>6, <1>9 DEF Involved
    <2>2. QED
      BY <1>1, <1>i, <2>1, InvolvedShrinks
  <1>11. ASSUME NEW u \in Members \ (spread \cup cutOff)
         PROVE  LastAnnounced(u)' /\ ViewRight(u)'
    <2>1. LastAnnounced(u) /\ ViewRight(u)
      BY DEF PreInv
    <2>2. Connected(u)' <=> Connected(u)
      BY <1>1 DEF Connected
    <2>3. ASSUME NEW i \in Pending(p, q, u)', IsLast(p, q, u, i)'
          PROVE  d[i].online <=> Connected(u)'
      <3>1. i \in DOMAIN d /\ d[i].user = u /\ \A j \in Pending(p, q, u)' : j =< i
        BY <1>5, <2>3 DEF IsLast
      <3>2. i + 1 \in Pending(p, q, u) /\ d[i] = c[i + 1] /\ i \in Nat
        BY <1>4, <1>5, <3>1
      <3>3. ASSUME NEW j \in Pending(p, q, u) PROVE j =< i + 1
        <4>1. j \in DOMAIN c /\ c[j].user = u /\ j \in Nat /\ j >= 1
          BY <1>4, <1>5
        <4>2. CASE j > 1
          <5>1. j - 1 \in DOMAIN d
            BY <1>4, <4>1, <4>2
          <5>2. d[j - 1] = c[j]
            BY <1>4, <4>1, <5>1
          <5>3. j - 1 \in Pending(p, q, u)'
            BY <1>5, <4>1, <5>1, <5>2
          <5>4. QED
            BY <3>1, <3>2, <4>1, <5>3
        <4>3. QED
          BY <3>2, <4>1, <4>2
      <3>4. IsLast(p, q, u, i + 1)
        BY <3>2, <3>3 DEF IsLast
      <3>5. c[i + 1].online <=> Connected(u)
        BY <2>1, <3>2, <3>4 DEF LastAnnounced, c
      <3>6. QED
        BY <2>2, <3>2, <3>5
    <2>4. LastAnnounced(u)'
      <3>1. SUFFICES ASSUME NEW r \in Processes, NEW k \in Processes,
                            NEW i \in Pending(r, k, u)', IsLast(r, k, u, i)'
                     PROVE  channel'[r][k][i].online <=> Connected(u)'
        BY DEF LastAnnounced
      <3>2. CASE r = p /\ k = q
        BY <2>3, <3>1, <3>2 DEF d
      <3>3. CASE r # p \/ k # q
        <4>1. channel'[r][k] = channel[r][k] /\ Pending(r, k, u)' = Pending(r, k, u)
          BY <1>3, <1>6, <3>3
        <4>2. i \in Pending(r, k, u) /\ IsLast(r, k, u, i)
          BY <3>1, <4>1 DEF IsLast
        <4>3. QED
          BY <2>1, <2>2, <4>1, <4>2 DEF LastAnnounced
      <3>4. QED
        BY <3>2, <3>3
    <2>5. ViewRight(u)'
      <3>1. SUFFICES ASSUME NEW k \in Processes,
                            \A r \in Processes : Pending(r, k, u)' = {}
                     PROVE  u \in view'[k] <=> Connected(u)'
        BY DEF ViewRight
      <3>2. CASE k = q /\ m.user = u
        <4>1. 1 \in Pending(p, q, u)
          BY <1>4, <1>5, <3>2
        <4>2. ASSUME NEW j \in Pending(p, q, u) PROVE j =< 1
          <5>1. j \in DOMAIN c /\ c[j].user = u /\ j \in Nat
            BY <1>4, <1>5
          <5>2. CASE j > 1
            <6>1. j - 1 \in DOMAIN d
              BY <1>4, <5>1, <5>2
            <6>2. d[j - 1] = c[j]
              BY <1>4, <5>1, <6>1
            <6>3. j - 1 \in Pending(p, q, u)'
              BY <1>5, <5>1, <6>1, <6>2
            <6>4. QED
              BY <3>1, <3>2, <6>3
          <5>3. QED
            BY <5>1, <5>2
        <4>3. IsLast(p, q, u, 1)
          BY <4>1, <4>2 DEF IsLast
        <4>4. m.online <=> Connected(u)
          BY <1>4, <2>1, <4>1, <4>3 DEF LastAnnounced, c
        <4>5. u \in view'[q] <=> m.online
          BY <1>7, <3>2 DEF Hear
        <4>6. QED
          BY <2>2, <3>2, <4>4, <4>5
      <3>3. CASE ~(k = q /\ m.user = u)
        <4>1. u \in view'[k] <=> u \in view[k]
          BY <1>7, <3>3 DEF Hear
        <4>2. \A r \in Processes : Pending(r, k, u) = {}
          <5>1. SUFFICES ASSUME NEW i \in Pending(p, q, u), k = q PROVE FALSE
            BY <1>6, <3>1
          <5>2. i \in DOMAIN c /\ c[i].user = u /\ i \in Nat /\ i >= 1
            BY <1>4, <1>5
          <5>3. i # 1
            BY <1>4, <3>3, <5>1, <5>2
          <5>4. i - 1 \in DOMAIN d
            BY <1>4, <5>2, <5>3
          <5>5. d[i - 1] = c[i]
            BY <1>4, <5>2, <5>4
          <5>6. i - 1 \in Pending(p, q, u)'
            BY <1>5, <5>2, <5>4, <5>5
          <5>7. QED
            BY <3>1, <5>1, <5>6
        <4>3. QED
          BY <2>1, <2>2, <4>1, <4>2 DEF ViewRight
      <3>4. QED
        BY <3>2, <3>3
    <2>6. QED
      BY <2>4, <2>5
  <1>12. QED
    BY <1>1, <1>8, <1>10, <1>11 DEF PreInv

LEMMA CrashInv ==
  ASSUME PreInv, NEW p \in Processes, ProcessCrashes(p)
  PROVE  PreInv'
  <1>i. /\ PreTypeOK /\ NothingToItself /\ OneInvolved
        /\ channel \in [Processes -> [Processes -> Seq(Announcement)]]
        /\ onlineUsers \in [Processes -> [Members -> SUBSET Sockets]]
    BY DEF PreInv, PreTypeOK
  <1>1. /\ cutOff' = cutOff \cup {u \in Members :
             onlineUsers[p][u] # {} \/ \E q \in Processes : Pending(q, p, u) # {}}
        /\ onlineUsers' = [onlineUsers EXCEPT ![p] = [u \in Members |-> {}]]
        /\ channel' = [q \in Processes |-> [channel[q] EXCEPT ![p] = <<>>]]
        /\ UNCHANGED <<view, spread>>
    BY DEF ProcessCrashes
  <1>2. /\ onlineUsers' \in [Processes -> [Members -> SUBSET Sockets]]
        /\ \A u \in Members : onlineUsers'[p][u] = {}
        /\ \A q \in Processes \ {p} : onlineUsers'[q] = onlineUsers[q]
    BY <1>1, <1>i
  <1>3. /\ channel' \in [Processes -> [Processes -> Seq(Announcement)]]
        /\ \A q \in Processes : channel'[q][p] = <<>>
        /\ \A r, q \in Processes : q # p => channel'[r][q] = channel[r][q]
    BY <1>1, <1>i
  <1>4. /\ \A u \in Members, r \in Processes : Pending(r, p, u)' = {}
        /\ \A u \in Members, r, q \in Processes : q # p =>
             Pending(r, q, u)' = Pending(r, q, u)
    BY <1>3 DEF Pending
  <1>5. PreTypeOK' /\ NothingToItself'
    BY <1>1, <1>2, <1>3, <1>i DEF PreTypeOK, NothingToItself
  <1>6. OneInvolved'
    <2>1. \A u \in Members : Involved(u)' \subseteq Involved(u)
      BY <1>2, <1>4 DEF Involved
    <2>2. QED
      BY <1>1, <1>i, <2>1, InvolvedShrinks
  <1>7. ASSUME NEW u \in Members \ (spread \cup cutOff')
        PROVE  LastAnnounced(u)' /\ ViewRight(u)'
    <2>1. /\ u \notin cutOff /\ onlineUsers[p][u] = {}
          /\ \A q \in Processes : Pending(q, p, u) = {}
      BY <1>1
    <2>2. Connected(u)' <=> Connected(u)
      BY <1>2, <2>1 DEF Connected
    <2>3. \A r, q \in Processes :
            /\ Pending(r, q, u)' = Pending(r, q, u)
            /\ \A i \in Pending(r, q, u) : channel'[r][q][i] = channel[r][q][i]
      BY <1>3, <1>4, <2>1
    <2>4. LastAnnounced(u) /\ ViewRight(u)
      BY <2>1 DEF PreInv
    <2>5. QED
      BY <1>1, <2>2, <2>3, <2>4, UserUndisturbed
  <1>8. QED
    BY <1>1, <1>5, <1>6, <1>7 DEF PreInv

LEMMA PreInitInv == PreInit => PreInv
  <1> SUFFICES ASSUME PreInit PROVE PreInv
    OBVIOUS
  <1>1. PreTypeOK /\ NothingToItself
    BY DEF PreInit, PreTypeOK, NothingToItself
  <1>2. \A p, q \in Processes, u \in Members : Pending(p, q, u) = {} /\ ~Connected(u)
    BY DEF PreInit, Pending, Connected
  <1>3. \A u \in Members : Involved(u) = {}
    BY <1>2 DEF PreInit, Involved
  <1>4. OneInvolved
    BY <1>3 DEF OneInvolved
  <1>5. \A u \in Members : LastAnnounced(u) /\ ViewRight(u)
    BY <1>2 DEF PreInit, LastAnnounced, ViewRight
  <1>6. QED
    BY <1>1, <1>4, <1>5 DEF PreInv

LEMMA PreStepInv == PreInv /\ [PreNext]_preVars => PreInv'
  <1> SUFFICES ASSUME PreInv, [PreNext]_preVars PROVE PreInv'
    OBVIOUS
  <1>1. ASSUME NEW p \in Processes, PreStep(p) PROVE PreInv'
    BY <1>1, ConnectInv, DisconnectInv, DeliverInv, CrashInv DEF PreStep
  <1>2. CASE UNCHANGED preVars
    <2>1. \A u \in Members : LastAnnounced(u)' = LastAnnounced(u) /\ ViewRight(u)' = ViewRight(u)
      BY <1>2 DEF preVars, LastAnnounced, ViewRight, IsLast, Pending, Connected
    <2>2. \A u \in Members : Involved(u)' = Involved(u)
      BY <1>2 DEF preVars, Involved, Pending
    <2>3. PreTypeOK' /\ NothingToItself' /\ OneInvolved' /\ UNCHANGED <<spread, cutOff>>
      BY <1>2, <2>2 DEF PreInv, preVars, PreTypeOK, NothingToItself, OneInvolved
    <2>4. QED
      BY <2>1, <2>3 DEF PreInv
  <1>3. QED
    BY <1>1, <1>2 DEF PreNext

(* Every reachable state of presence is well typed, for any users,          *)
(* processes and sockets.                                                  *)
THEOREM PreTypeCorrect == PreSpec => []PreTypeOK
  <1>1. PreInv => PreTypeOK
    BY DEF PreInv
  <1>2. QED
    BY <1>1, PreInitInv, PreStepInv, PTL DEF PreSpec

(* The clients of a process know whether a user is online once every        *)
(* announcement about the user has arrived, for any processes, sockets and *)
(* lengths of the channels: wrong only for a user who was on two processes *)
(* at a time, or whose process crashed.                                    *)
THEOREM PresenceViewAlwaysHasCause == PreSpec => []PresenceViewHasCause
  <1>1. PreInv => PresenceViewHasCause
    BY DEF PreInv, ViewRight, PresenceViewHasCause
  <1>2. QED
    BY <1>1, PreInitInv, PreStepInv, PTL DEF PreSpec
===============================================================================
