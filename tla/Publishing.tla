------------------------------ MODULE Publishing ------------------------------
(***************************************************************************)
(* Publishing one course: course.service.ts changeStatus, whose gate reads *)
(* the lessons in two statements and writes the status in a third, and     *)
(* curriculum.service.ts attachLessonVideo, which works on the Lesson row  *)
(* and on the S3 object the row names.  The other curriculum handlers      *)
(* (lesson create, update and delete, module delete) are one write each    *)
(* after reads that only authorise them, and happen whatever the status.   *)
(***************************************************************************)
EXTENDS Naturals, FiniteSets

CONSTANTS
  Lessons,   \* lesson ids the course may have
  Keys,      \* object keys under the LESSON_VIDEO folder
  Requests,  \* slots for changeStatus and attachLessonVideo requests
  NoLesson,  \* the lesson of a free slot
  NoKey,     \* videoKey = null
  Failures   \* may a request die (rejected statement, killed server)?

ASSUME PublishingAssumption ==
  /\ NoLesson \notin Lessons
  /\ NoKey \notin Keys
  /\ Failures \in BOOLEAN

VARIABLES
  status,    \* course.status
  lesson,    \* the Lesson row of each id
  objects,   \* keys with an S3 object
  req,       \* the requests in flight
  overtaken, \* history: publish requests for which an edit changed the
             \*   answer of a gate statement already passed
  loosened,  \* history: the course was last published by an overtaken
             \*   request, or made incomplete by an edit while published
  attached,  \* history: keys that some request has saved on a lesson
  reattached, \* history: keys that were saved more than once
  abandoned  \* history: keys deleted by a request that died before its save

courseVars == <<status, lesson, objects>>
history    == <<overtaken, loosened, attached, reattached, abandoned>>
vars       == <<courseVars, req, history>>

CourseStatus == {"DRAFT", "PUBLISHED", "ARCHIVED"}

\* contentType = VIDEO is the field video; other content has no gate.
Row   == [there : BOOLEAN, video : BOOLEAN, key : Keys \cup {NoKey}]
NoRow == [there |-> FALSE, video |-> FALSE, key |-> NoKey]

Steps == {"idle", "countLessons", "findMissing", "writeStatus",
          "headObject", "deleteOld", "writeKey"}
Request == [pc : Steps, status : CourseStatus,
            lesson : Lessons \cup {NoLesson},
            key : Keys \cup {NoKey}, old : Keys \cup {NoKey}]
Idle == [pc |-> "idle", status |-> "DRAFT", lesson |-> NoLesson,
         key |-> NoKey, old |-> NoKey]

At(r, step)   == req[r].pc = step
Goto(r, step) == req' = [req EXCEPT ![r].pc = step]
Return(r)     == req' = [req EXCEPT ![r] = Idle]

\* Variant: a lesson without a video has an empty key, not a null one.
MissingNever(rows) == {}

\* findVideoLessonsMissingVideo
MissingVideo(rows) ==
  {l \in Lessons : rows[l].there /\ rows[l].video /\ rows[l].key = NoKey}

Present(rows)  == {l \in Lessons : rows[l].there}

\* What a published course is to be.
Complete(rows) ==
  /\ Present(rows) # {}
  /\ \A l \in Present(rows) : rows[l].video => rows[l].key # NoKey

-------------------------------------------------------------------------------
(* changeStatus: any status may follow any other; only PUBLISHED is gated. *)

StatusFindsCourse(r, s) ==
  /\ At(r, "idle")
  /\ req' = [req EXCEPT ![r] =
       [Idle EXCEPT !.pc = IF s = "PUBLISHED" THEN "countLessons"
                                              ELSE "writeStatus",
                    !.status = s]]
  /\ UNCHANGED <<courseVars, history>>

PublishCountsLessons(r) ==
  /\ At(r, "countLessons")
  /\ IF Present(lesson) = {} THEN Return(r) ELSE Goto(r, "findMissing")
  /\ UNCHANGED <<courseVars, history>>

PublishFindsMissing(r) ==
  /\ At(r, "findMissing")
  /\ IF MissingVideo(lesson) = {} THEN /\ Goto(r, "writeStatus")
                                       /\ UNCHANGED overtaken
                                  ELSE /\ Return(r)
                                       /\ overtaken' = overtaken \ {r}
  /\ UNCHANGED <<courseVars, loosened, attached, reattached, abandoned>>

\* The audit record that follows touches nothing here.
StatusWrites(r) ==
  /\ At(r, "writeStatus")
  /\ status' = req[r].status
  /\ loosened' = (r \in overtaken)
  /\ overtaken' = overtaken \ {r}
  /\ Return(r)
  /\ UNCHANGED <<lesson, objects, attached, reattached, abandoned>>

-------------------------------------------------------------------------------
(* attachLessonVideo(lesson, key): read the lesson, check that the object  *)
(* exists, delete the object it replaces, save the key.                    *)

AttachFindsLesson(r, l, k) ==
  /\ At(r, "idle")
  /\ lesson[l].there
  /\ req' = [req EXCEPT ![r] =
       [Idle EXCEPT !.pc = "headObject", !.lesson = l, !.key = k,
                    !.old = lesson[l].key]]
  /\ UNCHANGED <<courseVars, history>>

\* Variant: any key is taken at its word.
AcceptsAnyKey(k) == TRUE

\* storageService.exists
UploadExists(k) == k \in objects

AttachChecksUpload(r) ==
  /\ At(r, "headObject")
  /\ IF ~UploadExists(req[r].key) THEN Return(r)
     ELSE Goto(r, IF req[r].old = NoKey THEN "writeKey" ELSE "deleteOld")
  /\ UNCHANGED <<courseVars, history>>

\* A failed delete is swallowed (.catch), so the object may survive it.
AttachDeletesOld(r) ==
  /\ At(r, "deleteOld")
  /\ \/ objects' = objects \ {req[r].old}
     \/ Failures /\ UNCHANGED objects
  /\ Goto(r, "writeKey")
  /\ UNCHANGED <<status, lesson, history>>

SavedVideo(row, k) == [row EXCEPT !.key = k, !.video = TRUE]

\* update throws (P2025, a 404) when the lesson is gone.
AttachWritesKey(r) ==
  LET l == req[r].lesson
      k == req[r].key
  IN
  /\ At(r, "writeKey")
  /\ IF lesson[l].there
       THEN /\ lesson' = [lesson EXCEPT ![l] = SavedVideo(@, k)]
            /\ attached' = attached \cup {k}
            /\ reattached' = reattached \cup (attached \cap {k})
       ELSE UNCHANGED <<lesson, attached, reattached>>
  /\ Return(r)
  /\ UNCHANGED <<status, objects, overtaken, loosened, abandoned>>

-------------------------------------------------------------------------------
(* A statement is rejected or the server is killed.                        *)

RequestDies(r) ==
  /\ Failures
  /\ ~At(r, "idle")
  /\ abandoned' = IF At(r, "writeKey") THEN abandoned \cup ({req[r].old} \ {NoKey})
                                       ELSE abandoned
  /\ overtaken' = overtaken \ {r}
  /\ Return(r)
  /\ UNCHANGED <<courseVars, loosened, attached, reattached>>

-------------------------------------------------------------------------------
(* Curriculum edits: one write each.                                       *)

EditLessons(rows) ==
  /\ lesson' = rows
  /\ overtaken' = overtaken \cup
       {q \in Requests :
          /\ req[q].status = "PUBLISHED"
          /\ \/ At(q, "findMissing") /\ Present(rows) = {}
             \/ At(q, "writeStatus") /\ ~Complete(rows)}
  /\ loosened' = (loosened \/ (status = "PUBLISHED" /\ ~Complete(rows)))
  /\ UNCHANGED <<status, objects, req, attached, reattached, abandoned>>

\* Ids are uuids: one that a request still holds is not used again.
CreateLesson(l, isVideo) ==
  /\ ~lesson[l].there
  /\ \A r \in Requests : req[r].lesson # l
  /\ EditLessons([lesson EXCEPT ![l] =
                    [there |-> TRUE, video |-> isVideo, key |-> NoKey]])

\* updateLesson may change contentType; videoKey is not in its input.
UpdateLesson(l, isVideo) ==
  /\ lesson[l].there
  /\ EditLessons([lesson EXCEPT ![l].video = isVideo])

\* Variant: the deleted row keeps its columns.
HiddenRow(row) == [row EXCEPT !.there = FALSE]

RemovedRow(row) == NoRow

\* deleteLesson, or deleteModule whose cascade removes its lessons.  The
\* objects stay in the bucket.
DeleteLessons(gone) ==
  /\ gone # {} /\ gone \subseteq Present(lesson)
  /\ EditLessons([l \in Lessons |->
                    IF l \in gone THEN RemovedRow(lesson[l]) ELSE lesson[l]])

\* The client puts a file at a signed URL; the URL is good more than once.
Upload(k) ==
  /\ k \notin objects
  /\ objects' = objects \cup {k}
  /\ UNCHANGED <<status, lesson, req, history>>

-------------------------------------------------------------------------------
Init ==
  /\ status = "DRAFT"
  /\ lesson = [l \in Lessons |-> NoRow]
  /\ objects = {}
  /\ req = [r \in Requests |-> Idle]
  /\ overtaken = {}
  /\ loosened = FALSE
  /\ attached = {}
  /\ reattached = {}
  /\ abandoned = {}

RequestStep(r) ==
  \/ PublishCountsLessons(r)
  \/ PublishFindsMissing(r)
  \/ StatusWrites(r)
  \/ AttachChecksUpload(r)
  \/ AttachDeletesOld(r)
  \/ AttachWritesKey(r)

Next ==
  \/ \E r \in Requests, s \in CourseStatus : StatusFindsCourse(r, s)
  \/ \E r \in Requests, l \in Lessons, k \in Keys : AttachFindsLesson(r, l, k)
  \/ \E r \in Requests : RequestStep(r)
  \/ \E r \in Requests : RequestDies(r)
  \/ \E l \in Lessons, isVideo \in BOOLEAN :
       CreateLesson(l, isVideo) \/ UpdateLesson(l, isVideo)
  \/ \E gone \in SUBSET Lessons : DeleteLessons(gone)
  \/ \E k \in Keys : Upload(k)

Spec == Init /\ [][Next]_vars

-------------------------------------------------------------------------------
TypeOK ==
  /\ status \in CourseStatus
  /\ lesson \in [Lessons -> Row]
  /\ \A l \in Lessons : ~lesson[l].there => lesson[l] = NoRow
  /\ objects \subseteq Keys
  /\ req \in [Requests -> Request]
  /\ overtaken \subseteq {r \in Requests : req[r].status = "PUBLISHED"}
  /\ loosened \in BOOLEAN
  /\ attached \subseteq Keys
  /\ reattached \subseteq attached
  /\ abandoned \subseteq Keys

(* A published course has a lesson, and a video key on every VIDEO lesson, *)
(* unless a curriculum edit made it incomplete while it was published or   *)
(* between the gate's reads and the status write.  Attaching videos never  *)
(* opens such a gap, however it interleaves with the gate.                 *)
IncompletePublishHasCause ==
  status = "PUBLISHED" /\ ~Complete(lesson) => loosened

(* A lesson names a video that is not in the bucket only while a request   *)
(* stands between deleting that object and saving the new key, or after    *)
(* one died there, or when the key was saved more than once (a retry, or   *)
(* one upload attached to two lessons).  Two attach requests with uploads  *)
(* of their own on one lesson, in any order, never produce it.             *)
DanglingVideoHasCause ==
  \A l \in Lessons :
    (lesson[l].key # NoKey /\ lesson[l].key \notin objects) =>
      \/ \E r \in Requests : At(r, "writeKey") /\ req[r].old = lesson[l].key
      \/ lesson[l].key \in abandoned
      \/ lesson[l].key \in reattached

(* attachLessonVideo checks that the file exists so that no key is "saved  *)
(* as the lesson's video, whether or not anything was actually uploaded":  *)
(* when a key is saved, its object is in the bucket.                       *)
SavedVideoExists ==
  [][\A r \in Requests :
       (At(r, "writeKey") /\ req'[r].pc = "idle"
          /\ lesson[req[r].lesson].there)
       => req[r].key \in objects]_vars
===============================================================================
