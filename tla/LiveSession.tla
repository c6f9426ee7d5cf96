------------------------------ MODULE LiveSession ------------------------------
(***************************************************************************)
(* live.service.ts for one session and one attendee: start, end and cancel *)
(* (a read, then an update whatever the status), join (status and          *)
(* enrollment are read, then the LiveAttendee row is upserted) and leave   *)
(* (joinedAt is read, then the time since then is added to durationSec).   *)
(* The room, its tokens and schedule's notification are left out; the      *)
(* clock ticks in whole units of durationSec.                              *)
(***************************************************************************)
EXTENDS Integers, FiniteSets

CONSTANTS
  LsRequests,   \* requests in flight
  MaxClock,     \* bound: the clock
  MaxDuration   \* bound: durationSec

ASSUME LiveAssumption ==
  MaxClock \in Nat /\ MaxDuration \in Nat /\ IsFiniteSet(LsRequests)

VARIABLES
  clock,
  liveStatus,   \* LiveSession.status
  attendee,     \* the LiveAttendee row
  ls,           \* the requests in flight
  present,      \* the attendee joined and has not asked to leave
  attended,     \* history: units spent present
  surplus       \* history: units added by a leave without a join before it,
                \*   less those of an interval that another join restarted or
                \*   whose leave died

lsVars == <<clock, liveStatus, attendee, ls, present, attended, surplus>>

Closed == {"CANCELLED", "COMPLETED"}
LiveSessionStatus == Closed \cup {"SCHEDULED", "LIVE"}
NotJoined == -1   \* joinedAt is null: there is no row

LsRequest == [pc : {"idle", "join", "leave", "status"},
              sec : 0..MaxClock, to : LiveSessionStatus, overtaken : BOOLEAN]
LsIdle == [pc |-> "idle", sec |-> 0, to |-> "LIVE", overtaken |-> FALSE]

LsAt(r, step)   == ls[r].pc = step
LsReturn(r)     == ls' = [ls EXCEPT ![r] = LsIdle]
Begins(r, next) == LsAt(r, "idle") /\ ls' = [ls EXCEPT ![r] = next]

\* The time since joinedAt; what of it is still open; the units of intervals
\* that a leave has read and not added yet.
Interval == clock - attendee.joinedAt
Open     == IF present THEN Interval ELSE 0
CarriedBy(r) == {r} \X (1..ls[r].sec)
Carried  == Cardinality(UNION {CarriedBy(r) : r \in LsRequests})

Tick ==
  /\ clock < MaxClock
  /\ clock' = clock + 1
  /\ attended' = attended + (IF present THEN 1 ELSE 0)
  /\ UNCHANGED <<liveStatus, attendee, ls, present, surplus>>

-------------------------------------------------------------------------------
(* start, end, cancel                                                      *)

\* getById and assertHostOrStaff; the status read is not looked at.
ChangeFindsSession(r, to) ==
  /\ Begins(r, [LsIdle EXCEPT !.pc = "status", !.to = to])
  /\ UNCHANGED <<clock, liveStatus, attendee, present, attended, surplus>>

\* The attendees' rows keep their open intervals.
ChangeWritesStatus(r) ==
  /\ LsAt(r, "status")
  /\ liveStatus' = ls[r].to
  /\ ls' = [q \in LsRequests |->
       IF q = r THEN LsIdle
       ELSE [ls[q] EXCEPT !.overtaken = @ \/ LsAt(q, "join")]]
  /\ UNCHANGED <<clock, attendee, present, attended, surplus>>

-------------------------------------------------------------------------------
(* join                                                                    *)

MayJoin(status) == status \notin Closed

\* Host and staff need no enrollment; whoever lacks one is refused.
JoinChecks(r) ==
  /\ MayJoin(liveStatus)
  /\ Begins(r, [LsIdle EXCEPT !.pc = "join"])
  /\ UNCHANGED <<clock, liveStatus, attendee, present, attended, surplus>>

\* upsertJoin restarts the interval of an attendee who never left.
JoinWrites(r) ==
  /\ LsAt(r, "join")
  /\ attendee' = [attendee EXCEPT !.joinedAt = clock]
  /\ present' = TRUE
  /\ surplus' = surplus - Open
  /\ LsReturn(r)
  /\ UNCHANGED <<clock, liveStatus, attended>>

-------------------------------------------------------------------------------
(* leave: recordLeave                                                      *)

LeaveReadsRow(r) ==
  /\ attendee.joinedAt # NotJoined
  /\ attendee.durationSec + Carried + Interval =< MaxDuration
  /\ Begins(r, [LsIdle EXCEPT !.pc = "leave", !.sec = Interval])
  /\ present' = FALSE
  /\ surplus' = surplus + (Interval - Open)
  /\ UNCHANGED <<clock, liveStatus, attendee, attended>>

\* Variant: the duration is set, not incremented.
DurationOfLast(sec) == sec

NewDuration(sec) == attendee.durationSec + sec

\* joinedAt stays: a second leave adds the same interval again.
LeaveWritesRow(r) ==
  /\ LsAt(r, "leave")
  /\ attendee' = [attendee EXCEPT !.durationSec = NewDuration(ls[r].sec)]
  /\ LsReturn(r)
  /\ UNCHANGED <<clock, liveStatus, present, attended, surplus>>

LsDies(r) ==
  /\ ~LsAt(r, "idle")
  /\ LsReturn(r)
  /\ surplus' = surplus - ls[r].sec
  /\ UNCHANGED <<clock, liveStatus, attendee, present, attended>>

-------------------------------------------------------------------------------
LsInit ==
  /\ clock = 0
  /\ liveStatus = "SCHEDULED"
  /\ attendee = [joinedAt |-> NotJoined, durationSec |-> 0]
  /\ ls = [r \in LsRequests |-> LsIdle]
  /\ present = FALSE
  /\ attended = 0 /\ surplus = 0

LsStep(r) ==
  \/ \E to \in {"LIVE", "COMPLETED", "CANCELLED"} : ChangeFindsSession(r, to)
  \/ ChangeWritesStatus(r)
  \/ JoinChecks(r) \/ JoinWrites(r)
  \/ LeaveReadsRow(r) \/ LeaveWritesRow(r)
  \/ LsDies(r)

LsNext == Tick \/ \E r \in LsRequests : LsStep(r)

LsSpec == LsInit /\ [][LsNext]_lsVars

-------------------------------------------------------------------------------
LsTypeOK ==
  /\ clock \in 0..MaxClock
  /\ liveStatus \in LiveSessionStatus
  /\ attendee \in [joinedAt : -1..MaxClock, durationSec : Nat]
  /\ ls \in [LsRequests -> LsRequest]
  /\ present \in BOOLEAN
  /\ attended \in Nat /\ surplus \in Int
  /\ present => attendee.joinedAt \in 0..clock

\* durationSec, with what is still to be added, is the time attended, but for
\* intervals counted twice by a repeated leave and intervals lost to a second
\* join or to a request that died.
AttendanceConserved ==
  attendee.durationSec + Carried + Open = attended + surplus

\* A join is recorded in a session that is cancelled or completed only when
\* the status changed between its check and its write.
LateJoinHasCause ==
  \A r \in LsRequests : LsAt(r, "join") /\ liveStatus \in Closed => ls[r].overtaken

\* Attendance is what the session's joins and leaves account for.
AttendanceSound == AttendanceConserved /\ LateJoinHasCause
===============================================================================
