------------------------------ MODULE Enrollment ------------------------------
(***************************************************************************)
(* enrollment.service.ts for one course: enroll and cancel, with the       *)
(* denormalised Course.enrollmentCount and the CourseProgress row that     *)
(* enroll creates.  A handler is a Node async function: every await of a   *)
(* Prisma call is a point where other requests run, so each database       *)
(* statement is one action and a request carries what it read between      *)
(* them in its record req[r].                                              *)
(*                                                                         *)
(* Curriculum and course-status handlers appear only through the one write *)
(* of theirs that this component can observe.                              *)
(***************************************************************************)
EXTENDS Naturals, FiniteSets

CONSTANTS
  Users,      \* learners
  Requests,   \* slots for enroll/cancel requests being handled at once
  Lessons,    \* lesson ids the course may have
  NoUser,     \* the user of a free slot
  CourseEdits, \* bound: the staff edits that happen while learners act
  Failures    \* may a request die (rejected statement, killed server)?

ASSUME EnrollmentAssumption ==
  /\ IsFiniteSet(Users)
  /\ IsFiniteSet(Lessons)
  /\ NoUser \notin Users
  /\ CourseEdits \subseteq {"status", "create", "delete"}
  /\ Failures \in BOOLEAN

VARIABLES
  published,       \* course.status = PUBLISHED
  lessons,         \* the lessons of the course
  enrollment,      \* Enrollment.status per user, "none" when there is no row
  enrollmentCount, \* Course.enrollmentCount
  courseProgress,  \* CourseProgress row per user
  req,             \* the requests in flight
  overtaken,       \* history: requests whose ACTIVE count changed since read
  countDrifted,    \* history: the last recalculation wrote an overtaken
                   \*   count, or a request died before recalculating
  stranded         \* history: users whose enroll died before the upsert of
                   \*   their CourseProgress row

courseVars == <<published, lessons>>
rowVars    == <<enrollment, enrollmentCount, courseProgress>>
history    == <<overtaken, countDrifted, stranded>>
vars       == <<courseVars, rowVars, req, history>>

Status == {"none", "ACTIVE", "CANCELLED"}

(* A CourseProgress row; completionPercent, a function of the other two    *)
(* numbers when it is written, is left out.                                *)
ProgressRow == [exists : BOOLEAN, total : Nat, completed : Nat,
                isCompleted : BOOLEAN]
NoRow == [exists |-> FALSE, total |-> 0, completed |-> 0,
          isCompleted |-> FALSE]

Steps == {"idle", "findRow", "writeRow", "countLessons", "upsertProgress",
          "countActive", "writeCount", "notify", "cancelRow"}
Request == [pc : Steps, op : {"enroll", "cancel"}, user : Users \cup {NoUser},
            saw : Status, total : Nat, count : Nat]
Idle == [pc |-> "idle", op |-> "enroll", user |-> NoUser, saw |-> "none",
         total |-> 0, count |-> 0]

\* Variant: update instead of upsert, which leaves a missing row missing.
UpdateTotal(row, n) == [row EXCEPT !.total = n]

(* What enroll's upsertCourseProgress does to a row: the create branch has *)
(* the schema's defaults, the update branch touches totalLessons alone.    *)
UpsertTotal(row, n) ==
  IF row.exists THEN [row EXCEPT !.total = n]
                ELSE [NoRow EXCEPT !.exists = TRUE, !.total = n]

At(r, step)   == req[r].pc = step
Goto(r, step) == req' = [req EXCEPT ![r].pc = step]
Return(r)     == req' = [req EXCEPT ![r] = Idle]

(* One statement that writes an Enrollment row.  Requests that have        *)
(* counted the ACTIVE rows and not yet stored the result are overtaken     *)
(* when the set of ACTIVE rows changes under them.                         *)
WriteStatus(u, s) ==
  /\ enrollment' = [enrollment EXCEPT ![u] = s]
  /\ overtaken' = IF enrollment[u] = s THEN overtaken
                  ELSE overtaken \cup {q \in Requests : At(q, "writeCount")}

-------------------------------------------------------------------------------
(* enroll                                                                  *)

\* findSummaryById and the PUBLISHED check; anything else is an error reply.
EnrollFindsCourse(r, u) ==
  /\ At(r, "idle")
  /\ published
  /\ req' = [req EXCEPT ![r] = [Idle EXCEPT !.pc = "findRow", !.user = u]]
  /\ UNCHANGED <<courseVars, rowVars, history>>

\* The existing row decides: 409 when ACTIVE, else update or create.
AlreadyEnrolled(s) == s = "ACTIVE"

EnrollFindsRow(r) ==
  /\ At(r, "findRow")
  /\ LET s == enrollment[req[r].user] IN
       IF AlreadyEnrolled(s)
         THEN Return(r)
         ELSE req' = [req EXCEPT ![r].pc = "writeRow", ![r].saw = s]
  /\ UNCHANGED <<courseVars, rowVars, history>>

\* create fails on the unique (userId, courseId) index when another request
\* created the row meanwhile (P2002, a 409); update by id never fails.
EnrollWritesRow(r) ==
  LET u == req[r].user IN
  /\ At(r, "writeRow")
  /\ \/ /\ req[r].saw = "none" /\ enrollment[u] # "none"
        /\ Return(r)
        /\ UNCHANGED <<enrollment, overtaken>>
     \/ /\ req[r].saw = "none" => enrollment[u] = "none"
        /\ WriteStatus(u, "ACTIVE")
        /\ Goto(r, "countLessons")
  /\ UNCHANGED <<courseVars, enrollmentCount, courseProgress, countDrifted,
                 stranded>>

EnrollCountsLessons(r) ==
  /\ At(r, "countLessons")
  /\ req' = [req EXCEPT ![r].pc = "upsertProgress",
                        ![r].total = Cardinality(lessons)]
  /\ UNCHANGED <<courseVars, rowVars, history>>

EnrollUpsertsProgress(r) ==
  LET u == req[r].user IN
  /\ At(r, "upsertProgress")
  /\ courseProgress' =
       [courseProgress EXCEPT ![u] = UpsertTotal(@, req[r].total)]
  /\ stranded' = stranded \ {u}
  /\ Goto(r, "countActive")
  /\ UNCHANGED <<courseVars, enrollment, enrollmentCount, overtaken,
                 countDrifted>>

\* The confirmation (notificationService.dispatch) touches nothing here.
EnrollNotifies(r) ==
  /\ At(r, "notify")
  /\ Return(r)
  /\ UNCHANGED <<courseVars, rowVars, history>>

-------------------------------------------------------------------------------
(* cancel                                                                  *)

\* findActive returns the row whatever its status; only ACTIVE goes on.
CancelFindsRow(r, u) ==
  /\ At(r, "idle")
  /\ enrollment[u] = "ACTIVE"
  /\ req' = [req EXCEPT ![r] = [Idle EXCEPT !.pc = "cancelRow",
                                            !.op = "cancel", !.user = u]]
  /\ UNCHANGED <<courseVars, rowVars, history>>

CancelWritesRow(r) ==
  /\ At(r, "cancelRow")
  /\ WriteStatus(req[r].user, "CANCELLED")
  /\ Goto(r, "countActive")
  /\ UNCHANGED <<courseVars, enrollmentCount, courseProgress, countDrifted,
                 stranded>>

-------------------------------------------------------------------------------
(* courseRepository.recalculateEnrollmentCount: two statements.            *)

\* Variants: the stored count minus one; the count without its status filter.
DecrementedCount == enrollmentCount - 1
CountAllRows == Cardinality({u \in Users : enrollment[u] # "none"})

RecalculatedCount == Cardinality({u \in Users : enrollment[u] = "ACTIVE"})

RecalculateCounts(r) ==
  /\ At(r, "countActive")
  /\ req' = [req EXCEPT ![r].pc = "writeCount", ![r].count = RecalculatedCount]
  /\ overtaken' = overtaken \ {r}
  /\ UNCHANGED <<courseVars, rowVars, countDrifted, stranded>>

RecalculateWrites(r) ==
  /\ At(r, "writeCount")
  /\ enrollmentCount' = req[r].count
  /\ countDrifted' = (r \in overtaken)
  /\ overtaken' = overtaken \ {r}
  /\ IF req[r].op = "enroll" THEN Goto(r, "notify") ELSE Return(r)
  /\ UNCHANGED <<courseVars, enrollment, courseProgress, stranded>>

-------------------------------------------------------------------------------
(* A statement is rejected or the server is killed: the request ends where *)
(* it is and what it wrote stays, there being no transaction.              *)

OwesCount(r) ==
  req[r].pc \in {"countLessons", "upsertProgress", "countActive", "writeCount"}
OwesProgress(r, u) ==
  req[r].user = u /\ req[r].pc \in {"countLessons", "upsertProgress"}

RequestDies(r) ==
  /\ Failures
  /\ ~At(r, "idle")
  /\ Return(r)
  /\ countDrifted' = (countDrifted \/ OwesCount(r))
  /\ stranded' = stranded \cup {u \in Users : OwesProgress(r, u)}
  /\ overtaken' = overtaken \ {r}
  /\ UNCHANGED <<courseVars, rowVars>>

-------------------------------------------------------------------------------
(* The course around it: changeStatus, createLesson and deleteLesson, each *)
(* reduced to its write.  Their guards read other state, several           *)
(* statements earlier, and do not bind the write.                          *)

SetPublished(b) ==
  /\ "status" \in CourseEdits
  /\ published # b
  /\ published' = b
  /\ UNCHANGED <<lessons, rowVars, req, history>>

CreateLesson(l) ==
  /\ "create" \in CourseEdits
  /\ l \notin lessons
  /\ lessons' = lessons \cup {l}
  /\ UNCHANGED <<published, rowVars, req, history>>

DeleteLesson(l) ==
  /\ "delete" \in CourseEdits
  /\ l \in lessons
  /\ lessons' = lessons \ {l}
  /\ UNCHANGED <<published, rowVars, req, history>>

-------------------------------------------------------------------------------
Init ==
  /\ published \in BOOLEAN
  /\ lessons \in SUBSET Lessons
  /\ enrollment = [u \in Users |-> "none"]
  /\ enrollmentCount = 0
  /\ courseProgress = [u \in Users |-> NoRow]
  /\ req = [r \in Requests |-> Idle]
  /\ overtaken = {}
  /\ countDrifted = FALSE
  /\ stranded = {}

\* What the server does on its own once a request has been accepted.
RequestStep(r) ==
  \/ EnrollFindsRow(r)
  \/ EnrollWritesRow(r)
  \/ EnrollCountsLessons(r)
  \/ EnrollUpsertsProgress(r)
  \/ EnrollNotifies(r)
  \/ CancelWritesRow(r)
  \/ RecalculateCounts(r)
  \/ RecalculateWrites(r)

CourseStep ==
  \/ \E b \in BOOLEAN : SetPublished(b)
  \/ \E l \in Lessons : CreateLesson(l) \/ DeleteLesson(l)

Next ==
  \/ \E r \in Requests, u \in Users : EnrollFindsCourse(r, u)
  \/ \E r \in Requests, u \in Users : CancelFindsRow(r, u)
  \/ \E r \in Requests : RequestStep(r)
  \/ \E r \in Requests : RequestDies(r)
  \/ CourseStep

Spec == Init /\ [][Next]_vars

-------------------------------------------------------------------------------
TypeOK ==
  /\ published \in BOOLEAN
  /\ lessons \in SUBSET Lessons
  /\ enrollment \in [Users -> Status]
  /\ enrollmentCount \in Nat
  /\ courseProgress \in [Users -> ProgressRow]
  /\ req \in [Requests -> Request]
  /\ overtaken \in SUBSET Requests
  /\ countDrifted \in BOOLEAN
  /\ stranded \in SUBSET Users
  /\ \A r \in Requests : ~At(r, "idle") => req[r].user \in Users

ActiveCount == Cardinality({u \in Users : enrollment[u] = "ACTIVE"})

(* recalculateEnrollmentCount has no transaction, so the denormalised      *)
(* count can only be wrong for three reasons: a request that wrote a row   *)
(* has not recalculated yet, the last count stored had been overtaken by   *)
(* another request, or a request died before it recalculated.              *)
WrongCountHasCause ==
  enrollmentCount # ActiveCount =>
    \/ countDrifted
    \/ \E r \in Requests : OwesCount(r)

(* A learner whose enrollment is ACTIVE has a CourseProgress row, unless   *)
(* the enroll that activated it is still before its upsert or died there;  *)
(* a second enroll (409) cannot overtake the first into that gap.          *)
MissingProgressHasCause ==
  \A u \in Users :
    (enrollment[u] = "ACTIVE" /\ ~courseProgress[u].exists) =>
      \/ u \in stranded
      \/ \E r \in Requests : OwesProgress(r, u)

(* Every activated learner gets a progress row in the end, unless the      *)
(* enroll that activated it died: the upsert after the Enrollment write is *)
(* reached whatever other requests do to the row in between.               *)
EnrolledGetsProgress ==
  \A u \in Users :
    enrollment[u] = "ACTIVE" ~> courseProgress[u].exists \/ u \in stranded
===============================================================================
