------------------------------- MODULE Learning -------------------------------
(***************************************************************************)
(* The learning core for one course: Enrollment together with              *)
(* progress.service.ts.  Both write the CourseProgress row (enroll its     *)
(* totalLessons, a progress update the rest of it), and both race with the *)
(* curriculum: deleting a lesson cascades to the LessonProgress rows.      *)
(*                                                                         *)
(* A LessonProgress row is abstracted to whether its status is COMPLETED.  *)
(***************************************************************************)
EXTENDS Enrollment

CONSTANTS
  Updates,      \* slots for PATCH progress requests handled at once
  Previews,     \* lessons with isPreview, open without an enrollment
  NoLesson,     \* the lesson of a free slot
  PercentBound  \* first completionPercent Decimal(5,2) cannot hold: 1000

ASSUME LearningAssumption ==
  /\ Previews \subseteq Lessons
  /\ NoLesson \notin Lessons
  /\ PercentBound \in Nat

VARIABLES
  lessonDone,    \* per user, the lessons whose LessonProgress is COMPLETED
  upd,           \* the progress updates in flight
  congratulated, \* users sent the "Course completed!" notification
  rewritten,     \* history: updates whose lesson row was written by another
                 \*   request after they read it
  outdated,      \* history: updates whose completed count changed since read
  progressDrifted, \* history: users whose row was last stored outdated, or
                 \*   not at all (request died, number out of range, lesson
                 \*   deleted)
  silenced       \* history: users whose announcing request died

updateVars == <<lessonDone, upd, congratulated, rewritten, outdated,
                progressDrifted, silenced>>
learningVars == <<vars, updateVars>>

\* The request's status field: COMPLETED, another status, or left out.
Inputs == {"COMPLETED", "OTHER", "absent"}

UpdateSteps == {"idle", "access", "readLesson", "writeLesson", "reads",
                "writeProgress", "announce"}
Reads  == {"count", "row"}
Update == [pc : UpdateSteps, user : Users \cup {NoUser},
           lesson : Lessons \cup {NoLesson}, input : Inputs,
           completes : BOOLEAN, pending : SUBSET Reads, count : Nat,
           row : ProgressRow]
IdleUpdate == [pc |-> "idle", user |-> NoUser, lesson |-> NoLesson,
               input |-> "absent", completes |-> FALSE, pending |-> Reads,
               count |-> 0, row |-> NoRow]

AtUpdate(r, step) == upd[r].pc = step
Finish(r)         == upd' = [upd EXCEPT ![r] = IdleUpdate]

\* Updates of u that have counted the completed lessons and still use it.
Counted(u) ==
  {q \in Updates : /\ upd[q].user = u
                   /\ upd[q].pc \in {"reads", "writeProgress", "announce"}
                   /\ "count" \notin upd[q].pending}

\* Variant: a missing status means IN_PROGRESS, whatever the row says.
ResolvesWithoutOld(input, old) == input = "COMPLETED"

\* status = input ?? old ?? IN_PROGRESS, as far as COMPLETED is concerned.
ResolvesToCompleted(input, old) ==
  IF input = "absent" THEN old ELSE input = "COMPLETED"

\* totalLessons = existing?.totalLessons ?? completedLessons
TotalUsed(row, count) == IF row.exists THEN row.total ELSE count

\* Variant: off by one.
IsCompletedEarly(count, total) == total > 0 /\ count + 1 >= total

\* isCompleted = totalLessons > 0 && completedLessons >= totalLessons
IsCompleted(count, total) == total > 0 /\ count >= total

\* Variant: a row that did not exist before is never announced.
AnnouncesKnownRow(row, count, total) ==
  IsCompleted(count, total) /\ row.exists /\ ~row.isCompleted

\* isCompleted && !wasCompleted, with row as it was read.
Announces(row, count, total) ==
  IsCompleted(count, total) /\ ~row.isCompleted

\* The percentage fits its column (with no total it is 0).
PercentFits(count, total) == total > 0 => count * 100 < PercentBound * total

\* Variants: completedLessons never shrinks; it is cut at totalLessons, so
\* that the percentage fits; totalLessons is updated too.
StoreGrowing(row, count, total) ==
  [exists |-> TRUE,
   total |-> IF row.exists THEN row.total ELSE total,
   completed |-> IF row.completed > count THEN row.completed ELSE count,
   isCompleted |-> IsCompleted(count, total)]
StoreCapped(row, count, total) ==
  [exists |-> TRUE,
   total |-> IF row.exists THEN row.total ELSE total,
   completed |-> IF count > total THEN total ELSE count,
   isCompleted |-> IsCompleted(count, total)]
StoreWithTotal(row, count, total) ==
  [exists |-> TRUE, total |-> total, completed |-> count,
   isCompleted |-> IsCompleted(count, total)]

\* upsertCourseProgress as recalculateCourseProgress calls it: only the
\* create branch stores a totalLessons.
StoreProgress(row, count, total) ==
  [exists |-> TRUE,
   total |-> IF row.exists THEN row.total ELSE total,
   completed |-> count,
   isCompleted |-> IsCompleted(count, total)]

-------------------------------------------------------------------------------
(* updateLessonProgress                                                    *)

UpdateFindsLesson(r, u, l, i) ==
  /\ AtUpdate(r, "idle")
  /\ l \in lessons
  /\ upd' = [upd EXCEPT ![r] =
       [IdleUpdate EXCEPT
          !.pc = IF l \in Previews THEN "readLesson" ELSE "access",
          !.user = u, !.lesson = l, !.input = i]]
  /\ UNCHANGED <<lessonDone, congratulated, rewritten, outdated,
                 progressDrifted, silenced>>

\* enrollmentService.hasActiveEnrollment; a 403 ends the request.
UpdateChecksAccess(r) ==
  /\ AtUpdate(r, "access")
  /\ IF enrollment[upd[r].user] = "ACTIVE"
       THEN upd' = [upd EXCEPT ![r].pc = "readLesson"]
       ELSE Finish(r)
  /\ UNCHANGED <<lessonDone, congratulated, rewritten, outdated,
                 progressDrifted, silenced>>

UpdateReadsLesson(r) ==
  /\ AtUpdate(r, "readLesson")
  /\ upd' = [upd EXCEPT
       ![r].pc = "writeLesson",
       ![r].completes =
          ResolvesToCompleted(upd[r].input,
                              upd[r].lesson \in lessonDone[upd[r].user])]
  /\ UNCHANGED <<lessonDone, congratulated, rewritten, outdated,
                 progressDrifted, silenced>>

\* The upsert fails on its foreign key when the lesson is gone.
UpdateWritesLesson(r) ==
  LET u == upd[r].user
      l == upd[r].lesson
      done == IF upd[r].completes THEN lessonDone[u] \cup {l}
                                  ELSE lessonDone[u] \ {l}
  IN
  /\ AtUpdate(r, "writeLesson")
  /\ \/ /\ l \notin lessons
        /\ Finish(r)
        /\ rewritten' = rewritten \ {r}
        /\ UNCHANGED <<lessonDone, outdated>>
     \/ /\ l \in lessons
        /\ lessonDone' = [lessonDone EXCEPT ![u] = done]
        /\ upd' = [upd EXCEPT ![r] =
                      [IdleUpdate EXCEPT !.pc = "reads", !.user = u]]
        /\ rewritten' = (rewritten \ {r}) \cup
             {q \in Updates \ {r} : /\ AtUpdate(q, "writeLesson")
                                    /\ upd[q].user = u /\ upd[q].lesson = l}
        /\ outdated' = IF done = lessonDone[u] THEN outdated
                       ELSE outdated \cup Counted(u)
  /\ UNCHANGED <<congratulated, progressDrifted, silenced>>

-------------------------------------------------------------------------------
(* recalculateCourseProgress: parallel reads (Promise.all, any order; the  *)
(* watch-time sum is left out), one upsert, perhaps a notification.        *)

AfterRead(r, what) ==
  IF upd[r].pending = {what} THEN "writeProgress" ELSE "reads"

RecalculateReadsCount(r) ==
  /\ AtUpdate(r, "reads") /\ "count" \in upd[r].pending
  /\ upd' = [upd EXCEPT ![r].pc = AfterRead(r, "count"),
                        ![r].pending = @ \ {"count"},
                        ![r].count = Cardinality(lessonDone[upd[r].user])]
  /\ UNCHANGED <<lessonDone, congratulated, rewritten, outdated,
                 progressDrifted, silenced>>

RecalculateReadsRow(r) ==
  /\ AtUpdate(r, "reads") /\ "row" \in upd[r].pending
  /\ upd' = [upd EXCEPT ![r].pc = AfterRead(r, "row"),
                        ![r].pending = @ \ {"row"},
                        ![r].row = courseProgress[upd[r].user]]
  /\ UNCHANGED <<lessonDone, congratulated, rewritten, outdated,
                 progressDrifted, silenced>>

RecalculateWritesRow(r) ==
  LET u == upd[r].user
      total == TotalUsed(upd[r].row, upd[r].count)
  IN
  /\ AtUpdate(r, "writeProgress")
  /\ \/ /\ ~PercentFits(upd[r].count, total)
        /\ Finish(r)
        /\ progressDrifted' = progressDrifted \cup {u}
        /\ outdated' = outdated \ {r}
        /\ UNCHANGED courseProgress
     \/ /\ PercentFits(upd[r].count, total)
        /\ courseProgress' =
             [courseProgress EXCEPT ![u] = StoreProgress(@, upd[r].count, total)]
        /\ progressDrifted' = IF r \in outdated THEN progressDrifted \cup {u}
                                                ELSE progressDrifted \ {u}
        /\ IF Announces(upd[r].row, upd[r].count, total)
             THEN /\ upd' = [upd EXCEPT ![r].pc = "announce"]
                  /\ UNCHANGED outdated
             ELSE /\ Finish(r)
                  /\ outdated' = outdated \ {r}
  /\ UNCHANGED <<lessonDone, congratulated, rewritten, silenced>>

RecalculateAnnounces(r) ==
  /\ AtUpdate(r, "announce")
  /\ congratulated' = congratulated \cup {upd[r].user}
  /\ Finish(r)
  /\ outdated' = outdated \ {r}
  /\ UNCHANGED <<lessonDone, rewritten, progressDrifted, silenced>>

-------------------------------------------------------------------------------
(* A progress update whose statement is rejected, or whose server dies.    *)

OwesRecalculation(r, u) ==
  upd[r].user = u /\ upd[r].pc \in {"reads", "writeProgress"}

UpdateDies(r) ==
  /\ Failures
  /\ ~AtUpdate(r, "idle")
  /\ Finish(r)
  /\ progressDrifted' =
       progressDrifted \cup {u \in Users : OwesRecalculation(r, u)}
  /\ silenced' = silenced \cup
       {u \in Users : AtUpdate(r, "announce") /\ upd[r].user = u}
  /\ rewritten' = rewritten \ {r}
  /\ outdated' = outdated \ {r}
  /\ UNCHANGED <<lessonDone, congratulated>>

-------------------------------------------------------------------------------
(* The curriculum.  Ids are uuids: one that a request still holds is not   *)
(* used again.  The cascade removes LessonProgress rows and recalculates   *)
(* no CourseProgress.                                                      *)

CreateFreshLesson(l) ==
  /\ CreateLesson(l)
  /\ \A r \in Updates : upd[r].lesson # l
  /\ UNCHANGED updateVars

\* Variant: no onDelete: Cascade on LessonProgress.
DoneUncascaded(l) == lessonDone

DoneWithout(l) == [u \in Users |-> lessonDone[u] \ {l}]

DeleteLessonCascade(l) ==
  LET hit == {u \in Users : l \in lessonDone[u]} IN
  /\ DeleteLesson(l)
  /\ lessonDone' = DoneWithout(l)
  /\ outdated' = outdated \cup UNION {Counted(u) : u \in hit}
  /\ progressDrifted' = progressDrifted \cup hit
  /\ rewritten' = rewritten \cup
       {q \in Updates : AtUpdate(q, "writeLesson") /\ upd[q].lesson = l}
  /\ UNCHANGED <<upd, congratulated, silenced>>

-------------------------------------------------------------------------------
LearningInit ==
  /\ Init
  /\ lessonDone = [u \in Users |-> {}]
  /\ upd = [r \in Updates |-> IdleUpdate]
  /\ congratulated = {}
  /\ rewritten = {}
  /\ outdated = {}
  /\ progressDrifted = {}
  /\ silenced = {}

\* Only storing the recalculated row touches a variable of Enrollment.
UpdateStep(r) ==
  \/ /\ \/ UpdateChecksAccess(r)
        \/ UpdateReadsLesson(r)
        \/ UpdateWritesLesson(r)
        \/ RecalculateReadsCount(r)
        \/ RecalculateReadsRow(r)
        \/ RecalculateAnnounces(r)
     /\ UNCHANGED vars
  \/ /\ RecalculateWritesRow(r)
     /\ UNCHANGED <<courseVars, enrollment, enrollmentCount, req, history>>

EnrollmentStep ==
  \/ \E r \in Requests, u \in Users :
       EnrollFindsCourse(r, u) \/ CancelFindsRow(r, u)
  \/ \E r \in Requests : RequestStep(r) \/ RequestDies(r)
  \/ \E b \in BOOLEAN : SetPublished(b)

LearningNext ==
  \/ EnrollmentStep /\ UNCHANGED updateVars
  \/ \E r \in Updates, u \in Users, l \in Lessons, i \in Inputs :
       UpdateFindsLesson(r, u, l, i) /\ UNCHANGED vars
  \/ \E r \in Updates : UpdateStep(r)
  \/ \E r \in Updates : UpdateDies(r) /\ UNCHANGED vars
  \/ \E l \in Lessons : CreateFreshLesson(l) \/ DeleteLessonCascade(l)

LearningSpec == LearningInit /\ [][LearningNext]_learningVars

(* Every awaited statement of a request that lives is answered in the end, *)
(* so an accepted request keeps taking its steps; nobody must send one.    *)
LearningFairSpec ==
  /\ LearningSpec
  /\ \A r \in Requests : WF_learningVars(RequestStep(r) /\ UNCHANGED updateVars)
  /\ \A r \in Updates : WF_learningVars(UpdateStep(r))

-------------------------------------------------------------------------------
LearningTypeOK ==
  /\ TypeOK
  /\ lessonDone \in [Users -> SUBSET lessons]
  /\ upd \in [Updates -> Update]
  /\ congratulated \subseteq Users
  /\ rewritten \subseteq Updates
  /\ outdated \subseteq Updates
  /\ progressDrifted \subseteq Users
  /\ silenced \subseteq Users

(* completedLessons of a row is the number of the user's completed lessons *)
(* unless a recalculation is still owed, or the last one stored a count    *)
(* that another request (a second tab, a lesson deletion) had outdated, or *)
(* was refused by the column because lessons completed since enrollment    *)
(* had pushed the percentage out of its range.                             *)
WrongProgressHasCause ==
  \A u \in Users :
    (courseProgress[u].exists /\
       courseProgress[u].completed # Cardinality(lessonDone[u])) =>
      \/ u \in progressDrifted
      \/ \E r \in Updates : OwesRecalculation(r, u)

(* However updates overlap, a course that its row calls completed has been *)
(* announced to the learner, or the request that will announce it is in    *)
(* flight (or has died): the isCompleted && !wasCompleted test never lets  *)
(* two updates each leave the announcement to the other.                   *)
CompletionAnnounced ==
  \A u \in Users :
    courseProgress[u].isCompleted =>
      \/ u \in congratulated
      \/ u \in silenced
      \/ \E r \in Updates : AtUpdate(r, "announce") /\ upd[r].user = u

(* "Course completed!" is sent to a learner who has not completed every    *)
(* lesson only if the update found no CourseProgress row to take a total   *)
(* from, or the row's total is no longer the number of lessons, or the     *)
(* learner's completed lessons changed after they were counted.            *)
FalseCongratulationHasCause ==
  \A r \in Updates :
    /\ AtUpdate(r, "announce")
    /\ upd[r].row.exists
    /\ upd[r].row.total = Cardinality(lessons)
    /\ r \notin outdated
    => lessonDone[upd[r].user] = lessons

(* A progress update without a status (a player saving its position) takes *)
(* a completed lesson back only when another request wrote that lesson     *)
(* after the update read it: the read-then-upsert is not atomic.           *)
SavedPositionKeepsCompletion ==
  [][\A r \in Updates :
       (AtUpdate(r, "writeLesson") /\ upd'[r].pc = "reads"
          /\ upd[r].input = "absent" /\ r \notin rewritten)
       => lessonDone'[upd[r].user] = lessonDone[upd[r].user]]_learningVars

(* The totalLessons a row was created with changes only by an enroll of    *)
(* the same user: neither progress updates nor the curriculum refresh it.  *)
TotalSetByEnrollOnly ==
  [][\A u \in Users :
       courseProgress[u].exists =>
         /\ courseProgress'[u].exists
         /\ courseProgress'[u].total # courseProgress[u].total =>
              \E r \in Requests : At(r, "upsertProgress") /\ req[r].user = u
    ]_learningVars

(* A completed course is announced in the end, unless the update that was  *)
(* to announce it died.                                                    *)
CompletionEventuallyAnnounced ==
  \A u \in Users :
    courseProgress[u].isCompleted ~> u \in congratulated \/ u \in silenced

(* What the notification of progress.service.ts says: "Congratulations on  *)
(* finishing the course."  Nobody is told so with lessons left to do.      *)
CongratulatedHaveFinished ==
  [][\A u \in congratulated' \ congratulated :
       lessonDone[u] = lessons]_learningVars
===============================================================================
