--------------------------- MODULE PublishingProofs ---------------------------
(***************************************************************************)
(* Theorems about Publishing for any lessons, keys and requests.           *)
(***************************************************************************)
EXTENDS Publishing, TLAPS

Attaching == {"headObject", "deleteOld", "writeKey"}

\* What the locals of a request are at its steps.
Shaped ==
  \A r \in Requests :
    /\ req[r].pc \in Attaching =>
         req[r].lesson \in Lessons /\ req[r].key \in Keys /\ req[r].status = "DRAFT"
    /\ req[r].pc \notin Attaching => req[r].old = NoKey
    /\ req[r].pc = "deleteOld" => req[r].old # NoKey
    /\ req[r].pc = "idle" => req[r].status = "DRAFT"
    /\ req[r].pc \in {"countLessons", "findMissing"} => req[r].status = "PUBLISHED"
    /\ r \in overtaken => req[r].pc \in {"findMissing", "writeStatus"}

\* What a publish request has seen still holds, unless an edit overtook it.
GateHolds ==
  \A r \in Requests : req[r].status = "PUBLISHED" /\ r \notin overtaken =>
    /\ req[r].pc = "findMissing" => Present(lesson) # {}
    /\ req[r].pc = "writeStatus" => Complete(lesson)

\* Keys on lessons, and keys about to be deleted, were saved once; those that
\* appear twice were saved twice.
KeysAccountedFor ==
  /\ \A l \in Lessons : lesson[l].key # NoKey => lesson[l].key \in attached
  /\ \A l, m \in Lessons :
       l # m /\ lesson[l].key = lesson[m].key /\ lesson[l].key # NoKey =>
         lesson[l].key \in reattached
  /\ \A r \in Requests : req[r].old # NoKey =>
       /\ req[r].old \in attached
       /\ \A l \in Lessons : l # req[r].lesson /\ lesson[l].key = req[r].old =>
            req[r].old \in reattached

\* The object that was checked is there, unless its key was saved before.
CheckedUploads ==
  \A r \in Requests : req[r].pc \in {"deleteOld", "writeKey"} =>
    req[r].key \in objects \cup attached

GateInv  == TypeOK /\ Shaped /\ GateHolds /\ IncompletePublishHasCause
VideoInv == TypeOK /\ Shaped /\ KeysAccountedFor /\ CheckedUploads /\ DanglingVideoHasCause

LEMMA IdleTyped ==
  /\ Idle \in Request /\ Idle.pc = "idle" /\ Idle.status = "DRAFT"
  /\ Idle.old = NoKey /\ Idle.lesson = NoLesson /\ Idle.key = NoKey
  BY DEF Idle, Request, Steps, CourseStatus

LEMMA RowTyped == NoRow \in Row /\ ~NoRow.there /\ NoRow.key = NoKey
  BY DEF NoRow, Row

Base == TypeOK /\ Shaped

\* A request moves on to v, and nothing that v says depends on has changed.
LEMMA SlotKeepsBase ==
  ASSUME Base, NEW r \in Requests, NEW v \in Request, req' = [req EXCEPT ![r] = v],
         UNCHANGED <<status, lesson, loosened, attached, reattached, abandoned>>,
         objects' \subseteq objects,
         v.pc \in Attaching => v.lesson \in Lessons /\ v.key \in Keys /\ v.status = "DRAFT",
         v.pc \notin Attaching => v.old = NoKey,
         v.pc = "deleteOld" => v.old # NoKey,
         v.pc = "idle" => v.status = "DRAFT",
         v.pc \in {"countLessons", "findMissing"} => v.status = "PUBLISHED",
         \/ overtaken' = overtaken \ {r}
         \/ overtaken' = overtaken /\ r \notin overtaken
         \/ /\ overtaken' = overtaken /\ v.status = "PUBLISHED"
            /\ v.pc \in {"findMissing", "writeStatus"}
  PROVE  Base'
  <1>1. req'[r] = v /\ \A q \in Requests \ {r} : req'[q] = req[q]
    BY DEF Base, TypeOK
  <1>2. TypeOK'
    BY <1>1 DEF Base, TypeOK
  <1>3. Shaped'
    BY <1>1 DEF Base, Shaped
  <1>4. QED
    BY <1>2, <1>3 DEF Base

\* A request ends after writing the course, the lessons or the bucket.
LEMMA ReturnKeepsBase ==
  ASSUME Base, NEW r \in Requests, Return(r), overtaken' = overtaken \ {r},
         status' \in CourseStatus, lesson' \in [Lessons -> Row],
         \A l \in Lessons : ~lesson'[l].there => lesson'[l] = NoRow,
         objects' \subseteq Keys, loosened' \in BOOLEAN, attached' \subseteq Keys,
         reattached' \subseteq attached', abandoned' \subseteq Keys
  PROVE  Base'
  <1>1. req'[r] = Idle /\ \A q \in Requests \ {r} : req'[q] = req[q]
    BY DEF Base, TypeOK, Return
  <1>2. req' \in [Requests -> Request]
    BY IdleTyped DEF Base, TypeOK, Return
  <1>3. TypeOK'
    BY <1>1, <1>2 DEF Base, TypeOK
  <1>4. Shaped'
    BY <1>1, IdleTyped DEF Base, Shaped, Attaching
  <1>5. QED
    BY <1>3, <1>4 DEF Base

\* A curriculum edit with well-formed rows.
LEMMA EditKeepsBase ==
  ASSUME Base, NEW rows, EditLessons(rows), rows \in [Lessons -> Row],
         \A l \in Lessons : ~rows[l].there => rows[l] = NoRow
  PROVE  Base'
  <1>1. /\ lesson' = rows /\ UNCHANGED <<status, objects, req, attached, reattached, abandoned>>
        /\ \A q \in overtaken' : q \in overtaken \/
             (q \in Requests /\ req[q].status = "PUBLISHED"
                /\ req[q].pc \in {"findMissing", "writeStatus"})
    BY DEF EditLessons, At
  <1>2. loosened' \in BOOLEAN
    BY DEF EditLessons, Base, TypeOK
  <1>3. TypeOK'
    BY <1>1, <1>2 DEF Base, TypeOK
  <1>4. Shaped'
    BY <1>1 DEF Base, Shaped
  <1>5. QED
    BY <1>3, <1>4 DEF Base

\* The rows of the three edits: no lesson gets a video key by an edit.
LEMMA EditedRows ==
  ASSUME Base, NEW l \in Lessons, NEW isVideo \in BOOLEAN, NEW gone \in SUBSET Lessons,
         CreateLesson(l, isVideo) \/ UpdateLesson(l, isVideo) \/ DeleteLessons(gone)
  PROVE  \E rows \in [Lessons -> Row] :
           /\ EditLessons(rows)
           /\ \A m \in Lessons : /\ ~rows[m].there => rows[m] = NoRow
                                 /\ rows[m].key \in {lesson[m].key, NoKey}
  <1>t. /\ lesson \in [Lessons -> Row] /\ \A m \in Lessons : lesson[m] \in Row
        /\ \A m \in Lessons : ~lesson[m].there => lesson[m] = NoRow
    BY DEF Base, TypeOK
  <1>1. CASE CreateLesson(l, isVideo)
    <2> DEFINE row == [there |-> TRUE, video |-> isVideo, key |-> NoKey]
               rows == [lesson EXCEPT ![l] = row]
    <2>1. row \in Row /\ row.there /\ row.key = NoKey
      BY DEF Row
    <2>2. EditLessons(rows)
      BY <1>1 DEF CreateLesson
    <2> HIDE DEF row
    <2>3. rows \in [Lessons -> Row] /\ rows[l] = row /\ \A m \in Lessons \ {l} : rows[m] = lesson[m]
      BY <1>t, <2>1
    <2> HIDE DEF rows
    <2>4. QED
      BY <1>t, <2>1, <2>2, <2>3
  <1>2. CASE UpdateLesson(l, isVideo)
    <2> DEFINE row == [lesson[l] EXCEPT !.video = isVideo]
               rows == [lesson EXCEPT ![l] = row]
    <2>1. row \in Row /\ row.there /\ row.key = lesson[l].key
      BY <1>t, <1>2 DEF Row, UpdateLesson
    <2>2. EditLessons(rows)
      BY <1>2 DEF UpdateLesson
    <2> HIDE DEF row
    <2>3. rows \in [Lessons -> Row] /\ rows[l] = row /\ \A m \in Lessons \ {l} : rows[m] = lesson[m]
      BY <1>t, <2>1
    <2> HIDE DEF rows
    <2>4. QED
      BY <1>t, <2>1, <2>2, <2>3
  <1>3. CASE DeleteLessons(gone)
    <2> DEFINE rows == [m \in Lessons |-> IF m \in gone THEN RemovedRow(lesson[m]) ELSE lesson[m]]
    <2>1. EditLessons(rows)
      BY <1>3 DEF DeleteLessons
    <2>2. \A m \in Lessons : rows[m] = NoRow \/ rows[m] = lesson[m]
      BY DEF RemovedRow
    <2>3. rows \in [Lessons -> Row]
      BY <1>t, RowTyped DEF RemovedRow
    <2> HIDE DEF rows
    <2>4. QED
      BY <1>t, <2>1, <2>2, <2>3, RowTyped
  <1>4. QED
    BY <1>1, <1>2, <1>3

LEMMA GotoForm ==
  ASSUME Base, NEW r \in Requests, NEW step \in Steps, Goto(r, step)
  PROVE  \E v \in Request :
           /\ req' = [req EXCEPT ![r] = v]
           /\ v.pc = step /\ v.status = req[r].status /\ v.lesson = req[r].lesson
           /\ v.key = req[r].key /\ v.old = req[r].old
  <1> DEFINE v == [req[r] EXCEPT !.pc = step]
  <1>1. req[r] \in Request
    BY DEF Base, TypeOK
  <1>2. /\ v \in Request /\ v.pc = step /\ v.status = req[r].status /\ v.lesson = req[r].lesson
        /\ v.key = req[r].key /\ v.old = req[r].old
    BY <1>1 DEF Request
  <1>3. req' = [req EXCEPT ![r] = v]
    BY DEF Goto
  <1>4. QED
    BY <1>2, <1>3

LEMMA FindsCourseForm ==
  ASSUME NEW r, NEW s \in CourseStatus, StatusFindsCourse(r, s)
  PROVE  \E v \in Request :
           /\ req' = [req EXCEPT ![r] = v]
           /\ v.pc = IF s = "PUBLISHED" THEN "countLessons" ELSE "writeStatus"
           /\ v.status = s /\ v.old = NoKey
  <1> DEFINE step == IF s = "PUBLISHED" THEN "countLessons" ELSE "writeStatus"
             v    == [Idle EXCEPT !.pc = step, !.status = s]
  <1>1. v \in Request /\ v.pc = step /\ v.status = s /\ v.old = NoKey
    BY DEF Idle, Request, Steps
  <1>2. req' = [req EXCEPT ![r] = v]
    BY DEF StatusFindsCourse
  <1>3. QED
    BY <1>1, <1>2

LEMMA FindsLessonForm ==
  ASSUME Base, NEW r, NEW l \in Lessons, NEW k \in Keys, AttachFindsLesson(r, l, k)
  PROVE  \E v \in Request :
           /\ req' = [req EXCEPT ![r] = v]
           /\ v.pc = "headObject" /\ v.status = "DRAFT"
           /\ v.lesson = l /\ v.key = k /\ v.old = lesson[l].key
  <1> DEFINE v == [Idle EXCEPT !.pc = "headObject", !.lesson = l, !.key = k,
                               !.old = lesson[l].key]
  <1>1. lesson[l].key \in Keys \cup {NoKey}
    BY DEF Base, TypeOK, Row
  <1>2. /\ v \in Request /\ v.pc = "headObject" /\ v.status = "DRAFT"
        /\ v.lesson = l /\ v.key = k /\ v.old = lesson[l].key
    BY <1>1 DEF Idle, Request, Steps, CourseStatus
  <1>3. req' = [req EXCEPT ![r] = v]
    BY DEF AttachFindsLesson
  <1>4. QED
    BY <1>2, <1>3

\* What saving a key does to the rows.
LEMMA WritesKeyForm ==
  ASSUME Base, NEW r \in Requests, AttachWritesKey(r)
  PROVE  /\ req[r].lesson \in Lessons /\ req[r].key \in Keys
         /\ lesson' \in [Lessons -> Row]
         /\ \A m \in Lessons \ {req[r].lesson} : lesson'[m] = lesson[m]
         /\ \A m \in Lessons : lesson'[m].there = lesson[m].there
         /\ \A m \in Lessons : ~lesson'[m].there => lesson'[m] = NoRow
         /\ \/ /\ lesson'[req[r].lesson].key = req[r].key
               /\ attached' = attached \cup {req[r].key}
               /\ reattached' = reattached \cup (attached \cap {req[r].key})
            \/ /\ UNCHANGED <<lesson, attached, reattached>>
               /\ lesson[req[r].lesson] = NoRow
  <1> DEFINE l == req[r].lesson  k == req[r].key
  <1>1. /\ l \in Lessons /\ k \in Keys /\ lesson \in [Lessons -> Row]
        /\ \A m \in Lessons : ~lesson[m].there => lesson[m] = NoRow
    BY DEF Base, TypeOK, Shaped, Attaching, AttachWritesKey, At
  <1>2. CASE ~lesson[l].there
    BY <1>1, <1>2 DEF AttachWritesKey
  <1>3. CASE lesson[l].there
    <2> DEFINE row == SavedVideo(lesson[l], k)
    <2>1. /\ lesson' = [lesson EXCEPT ![l] = row] /\ attached' = attached \cup {k}
          /\ reattached' = reattached \cup (attached \cap {k})
      BY <1>3 DEF AttachWritesKey
    <2>2. row \in Row /\ row.there /\ row.key = k
      BY <1>1, <1>3 DEF SavedVideo, Row
    <2> HIDE DEF row
    <2>3. /\ lesson' \in [Lessons -> Row] /\ lesson'[l] = row
          /\ \A m \in Lessons \ {l} : lesson'[m] = lesson[m]
      BY <1>1, <2>1, <2>2
    <2>4. QED
      BY <1>1, <1>3, <2>1, <2>2, <2>3
  <1>4. QED
    BY <1>2, <1>3

LEMMA StepBase ==
  ASSUME Base, [Next]_vars
  PROVE  Base'
  <1>1. ASSUME NEW r \in Requests, NEW s \in CourseStatus, StatusFindsCourse(r, s)
        PROVE  Base'
    <2>1. PICK v \in Request :
            /\ req' = [req EXCEPT ![r] = v]
            /\ v.pc = IF s = "PUBLISHED" THEN "countLessons" ELSE "writeStatus"
            /\ v.status = s /\ v.old = NoKey
      BY <1>1, FindsCourseForm
    <2>2. r \notin overtaken
      BY <1>1 DEF Base, Shaped, StatusFindsCourse, At
    <2>3. QED
      BY <1>1, <2>1, <2>2, SlotKeepsBase
         DEF StatusFindsCourse, courseVars, history, Attaching
  <1>2. ASSUME NEW r \in Requests, NEW l \in Lessons, NEW k \in Keys, AttachFindsLesson(r, l, k)
        PROVE  Base'
    <2>1. PICK v \in Request :
            /\ req' = [req EXCEPT ![r] = v]
            /\ v.pc = "headObject" /\ v.status = "DRAFT"
            /\ v.lesson = l /\ v.key = k /\ v.old = lesson[l].key
      BY <1>2, FindsLessonForm
    <2>2. r \notin overtaken
      BY <1>2 DEF Base, Shaped, AttachFindsLesson, At
    <2>3. QED
      BY <1>2, <2>1, <2>2, SlotKeepsBase
         DEF AttachFindsLesson, courseVars, history, Attaching
  <1>3. ASSUME NEW r \in Requests, PublishCountsLessons(r)
        PROVE  Base'
    <2>1. /\ req[r].status = "PUBLISHED" /\ req[r].old = NoKey /\ r \notin overtaken
          /\ UNCHANGED <<courseVars, history>>
      BY <1>3 DEF Base, Shaped, PublishCountsLessons, At, Attaching
    <2>2. CASE Return(r)
      BY <2>1, <2>2, IdleTyped, SlotKeepsBase DEF Return, courseVars, history, Attaching
    <2>3. CASE Goto(r, "findMissing")
      <3>1. "findMissing" \in Steps
        BY DEF Steps
      <3>2. PICK v \in Request :
              /\ req' = [req EXCEPT ![r] = v]
              /\ v.pc = "findMissing" /\ v.status = req[r].status /\ v.old = req[r].old
        BY <2>3, <3>1, GotoForm
      <3>3. QED
        BY <2>1, <3>2, SlotKeepsBase DEF courseVars, history, Attaching
    <2>4. QED
      BY <1>3, <2>2, <2>3 DEF PublishCountsLessons
  <1>4. ASSUME NEW r \in Requests, PublishFindsMissing(r)
        PROVE  Base'
    <2>1. /\ req[r].status = "PUBLISHED" /\ req[r].old = NoKey
          /\ UNCHANGED <<courseVars, loosened, attached, reattached, abandoned>>
      BY <1>4 DEF Base, Shaped, PublishFindsMissing, At, Attaching
    <2>2. CASE Return(r) /\ overtaken' = overtaken \ {r}
      BY <2>1, <2>2, IdleTyped, SlotKeepsBase DEF Return, courseVars, Attaching
    <2>3. CASE Goto(r, "writeStatus") /\ UNCHANGED overtaken
      <3>1. "writeStatus" \in Steps
        BY DEF Steps
      <3>2. PICK v \in Request :
              /\ req' = [req EXCEPT ![r] = v]
              /\ v.pc = "writeStatus" /\ v.status = req[r].status /\ v.old = req[r].old
        BY <2>3, <3>1, GotoForm
      <3>3. QED
        BY <2>1, <2>3, <3>2, SlotKeepsBase DEF courseVars, Attaching
    <2>4. QED
      BY <1>4, <2>2, <2>3 DEF PublishFindsMissing
  <1>5. ASSUME NEW r \in Requests, StatusWrites(r)
        PROVE  Base'
    <2>1. status' \in CourseStatus /\ loosened' \in BOOLEAN
      BY <1>5 DEF Base, TypeOK, Request, StatusWrites
    <2>2. QED
      BY <1>5, <2>1, ReturnKeepsBase DEF Base, TypeOK, StatusWrites
  <1>6. ASSUME NEW r \in Requests, AttachChecksUpload(r)
        PROVE  Base'
    <2>1. /\ req[r].status = "DRAFT" /\ r \notin overtaken
          /\ req[r].lesson \in Lessons /\ req[r].key \in Keys
          /\ UNCHANGED <<courseVars, history>>
      BY <1>6 DEF Base, Shaped, AttachChecksUpload, At, Attaching
    <2>2. CASE Return(r)
      BY <2>1, <2>2, IdleTyped, SlotKeepsBase DEF Return, courseVars, history, Attaching
    <2>3. CASE Goto(r, IF req[r].old = NoKey THEN "writeKey" ELSE "deleteOld")
      <3> DEFINE step == IF req[r].old = NoKey THEN "writeKey" ELSE "deleteOld"
      <3>1. step \in Steps
        BY DEF Steps
      <3>2. PICK v \in Request :
              /\ req' = [req EXCEPT ![r] = v]
              /\ v.pc = step /\ v.status = req[r].status /\ v.lesson = req[r].lesson
              /\ v.key = req[r].key /\ v.old = req[r].old
        BY <2>3, <3>1, GotoForm
      <3>3. QED
        BY <2>1, <3>2, SlotKeepsBase DEF courseVars, history, Attaching
    <2>4. QED
      BY <1>6, <2>2, <2>3 DEF AttachChecksUpload
  <1>7. ASSUME NEW r \in Requests, AttachDeletesOld(r)
        PROVE  Base'
    <2>1. /\ req[r].status = "DRAFT" /\ r \notin overtaken
          /\ req[r].lesson \in Lessons /\ req[r].key \in Keys
          /\ Goto(r, "writeKey")
      BY <1>7 DEF Base, Shaped, AttachDeletesOld, At, Attaching
    <2>2. objects' \subseteq objects
      BY <1>7 DEF AttachDeletesOld
    <2>3. "writeKey" \in Steps
      BY DEF Steps
    <2>4. PICK v \in Request :
            /\ req' = [req EXCEPT ![r] = v]
            /\ v.pc = "writeKey" /\ v.status = req[r].status /\ v.lesson = req[r].lesson
            /\ v.key = req[r].key /\ v.old = req[r].old
      BY <2>1, <2>3, GotoForm
    <2>5. QED
      BY <1>7, <2>1, <2>2, <2>4, SlotKeepsBase
         DEF AttachDeletesOld, history, Attaching
  <1>8. ASSUME NEW r \in Requests, AttachWritesKey(r)
        PROVE  Base'
    <2>1. r \notin overtaken
      BY <1>8 DEF Base, Shaped, AttachWritesKey, At
    <2>a. attached \subseteq Keys /\ reattached \subseteq attached
      BY DEF Base, TypeOK
    <2>b. /\ req[r].key \in Keys
          /\ \/ /\ attached' = attached \cup {req[r].key}
                /\ reattached' = reattached \cup (attached \cap {req[r].key})
             \/ UNCHANGED <<attached, reattached>>
      BY <1>8, WritesKeyForm
    <2>c. lesson' \in [Lessons -> Row]
      BY <1>8, WritesKeyForm
    <2>d. \A m \in Lessons : ~lesson'[m].there => lesson'[m] = NoRow
      BY <1>8, WritesKeyForm, Zenon
    <2>2. attached' \subseteq Keys /\ reattached' \subseteq attached'
      BY <2>a, <2>b
    <2>3. /\ Return(r) /\ overtaken' = overtaken \ {r}
          /\ status' \in CourseStatus /\ objects' \subseteq Keys
          /\ loosened' \in BOOLEAN /\ abandoned' \subseteq Keys
      BY <1>8, <2>1 DEF Base, TypeOK, AttachWritesKey
    <2>4. QED
      BY <2>2, <2>3, <2>c, <2>d, ReturnKeepsBase
  <1>9. ASSUME NEW r \in Requests, RequestDies(r)
        PROVE  Base'
    <2>1. abandoned' \subseteq Keys
      BY <1>9 DEF Base, TypeOK, Request, RequestDies
    <2>2. QED
      BY <1>9, <2>1, ReturnKeepsBase DEF Base, TypeOK, RequestDies, courseVars
  <1>10. ASSUME NEW l \in Lessons, NEW isVideo \in BOOLEAN, NEW gone \in SUBSET Lessons,
                CreateLesson(l, isVideo) \/ UpdateLesson(l, isVideo) \/ DeleteLessons(gone)
         PROVE  Base'
    BY <1>10, EditedRows, EditKeepsBase
  <1>11. ASSUME NEW k \in Keys, Upload(k)
         PROVE  Base'
    BY <1>11 DEF Upload, history, Base, TypeOK, Shaped
  <1>12. CASE UNCHANGED vars
    BY <1>12 DEF vars, courseVars, history, Base, TypeOK, Shaped
  <1>13. QED
    <2>1. ASSUME NEW gone \in SUBSET Lessons, DeleteLessons(gone)
          PROVE  Base'
      <3>1. PICK l : l \in Lessons
        BY <2>1 DEF DeleteLessons
      <3>2. QED
        BY <1>10, <2>1, <3>1
    <2>2. QED
      BY <1>1, <1>2, <1>3, <1>4, <1>5, <1>6, <1>7, <1>8, <1>9, <1>10, <1>11, <1>12, <2>1
         DEF Next, RequestStep

-------------------------------------------------------------------------------
(* The gate.                                                               *)

\* A request moves on to v over lessons that are no less complete, and what v
\* claims to have seen holds.
LEMMA SlotKeepsGate ==
  ASSUME GateInv, NEW r \in Requests, NEW v \in Request, req' = [req EXCEPT ![r] = v],
         overtaken \ {r} \subseteq overtaken',
         Present(lesson) # {} => Present(lesson') # {},
         Complete(lesson) => Complete(lesson'),
         v.status = "PUBLISHED" /\ r \notin overtaken' =>
           /\ v.pc = "findMissing" => Present(lesson') # {}
           /\ v.pc = "writeStatus" => Complete(lesson')
  PROVE  GateHolds'
  <1>1. req'[r] = v /\ \A q \in Requests \ {r} : req'[q] = req[q]
    BY DEF GateInv, TypeOK
  <1>2. ASSUME NEW q \in Requests, req'[q].status = "PUBLISHED", q \notin overtaken'
        PROVE  /\ req'[q].pc = "findMissing" => Present(lesson') # {}
               /\ req'[q].pc = "writeStatus" => Complete(lesson')
    <2>1. CASE q = r
      BY <1>1, <1>2, <2>1
    <2>2. CASE q # r
      BY <1>1, <1>2, <2>2 DEF GateInv, GateHolds
    <2>3. QED
      BY <2>1, <2>2
  <1>3. QED
    BY <1>2 DEF GateHolds

\* The two reads of the gate together are what Complete asks.
LEMMA GateReads ==
  ASSUME NEW rows, Present(rows) # {}, MissingVideo(rows) = {}
  PROVE  Complete(rows)
  BY DEF Complete, Present, MissingVideo

LEMMA SavingKeepsComplete ==
  ASSUME Base, NEW r \in Requests, AttachWritesKey(r)
  PROVE  /\ Present(lesson) # {} => Present(lesson') # {}
         /\ Complete(lesson) => Complete(lesson')
  <1>1. /\ req[r].lesson \in Lessons /\ req[r].key \in Keys
        /\ \A m \in Lessons \ {req[r].lesson} : lesson'[m] = lesson[m]
        /\ \/ lesson'[req[r].lesson].key = req[r].key
           \/ UNCHANGED lesson
    BY WritesKeyForm
  <1>2. \A m \in Lessons : lesson'[m].there = lesson[m].there
    BY WritesKeyForm
  <1>3. Present(lesson') = Present(lesson)
    BY <1>2 DEF Present
  <1>4. \A m \in Lessons : lesson'[m] = lesson[m] \/ lesson'[m].key # NoKey
    BY <1>1, PublishingAssumption
  <1>5. ASSUME Complete(lesson)
        PROVE  Complete(lesson')
    BY <1>3, <1>4, <1>5 DEF Complete, Present
  <1>6. QED
    BY <1>3, <1>5

LEMMA StepGateHolds ==
  ASSUME GateInv, [Next]_vars
  PROVE  GateHolds'
  <1>b. Base
    BY DEF GateInv, Base
  <1>0. ASSUME NEW r \in Requests, Return(r), UNCHANGED lesson,
               overtaken \ {r} \subseteq overtaken'
        PROVE  GateHolds'
    BY <1>0, IdleTyped, SlotKeepsGate DEF Return
  <1>1. ASSUME NEW r \in Requests, NEW s \in CourseStatus, StatusFindsCourse(r, s)
        PROVE  GateHolds'
    <2>1. PICK v \in Request :
            /\ req' = [req EXCEPT ![r] = v]
            /\ v.pc = IF s = "PUBLISHED" THEN "countLessons" ELSE "writeStatus"
            /\ v.status = s
      BY <1>1, FindsCourseForm
    <2>2. QED
      BY <1>1, <2>1, SlotKeepsGate DEF StatusFindsCourse, courseVars, history
  <1>2. ASSUME NEW r \in Requests, NEW l \in Lessons, NEW k \in Keys, AttachFindsLesson(r, l, k)
        PROVE  GateHolds'
    <2>1. PICK v \in Request : req' = [req EXCEPT ![r] = v] /\ v.pc = "headObject"
      BY <1>2, <1>b, FindsLessonForm
    <2>2. QED
      BY <1>2, <2>1, SlotKeepsGate DEF AttachFindsLesson, courseVars, history
  <1>3. ASSUME NEW r \in Requests, PublishCountsLessons(r)
        PROVE  GateHolds'
    <2>1. UNCHANGED <<courseVars, history>>
      BY <1>3 DEF PublishCountsLessons
    <2>2. CASE Present(lesson) = {}
      BY <1>0, <1>3, <2>1, <2>2 DEF PublishCountsLessons, courseVars, history
    <2>3. CASE Present(lesson) # {}
      <3>1. "findMissing" \in Steps /\ Goto(r, "findMissing")
        BY <1>3, <2>3 DEF Steps, PublishCountsLessons
      <3>2. PICK v \in Request : req' = [req EXCEPT ![r] = v] /\ v.pc = "findMissing"
        BY <1>b, <3>1, GotoForm
      <3>3. QED
        BY <2>1, <2>3, <3>2, SlotKeepsGate DEF courseVars, history
    <2>4. QED
      BY <2>2, <2>3
  <1>4. ASSUME NEW r \in Requests, PublishFindsMissing(r)
        PROVE  GateHolds'
    <2>1. UNCHANGED lesson /\ req[r].pc = "findMissing" /\ req[r].status = "PUBLISHED"
      BY <1>4, <1>b DEF PublishFindsMissing, courseVars, At, Base, Shaped
    <2>2. CASE MissingVideo(lesson) # {}
      BY <1>0, <1>4, <2>1, <2>2 DEF PublishFindsMissing
    <2>3. CASE MissingVideo(lesson) = {}
      <3>1. "writeStatus" \in Steps /\ Goto(r, "writeStatus") /\ UNCHANGED overtaken
        BY <1>4, <2>3 DEF Steps, PublishFindsMissing
      <3>2. PICK v \in Request : req' = [req EXCEPT ![r] = v] /\ v.pc = "writeStatus"
        BY <1>b, <3>1, GotoForm
      <3>3. r \notin overtaken => Complete(lesson)
        BY <2>1, <2>3, GateReads DEF GateInv, GateHolds
      <3>4. QED
        BY <2>1, <3>1, <3>2, <3>3, SlotKeepsGate
    <2>4. QED
      BY <2>2, <2>3
  <1>5. ASSUME NEW r \in Requests, StatusWrites(r) \/ RequestDies(r)
        PROVE  GateHolds'
    BY <1>0, <1>5 DEF StatusWrites, RequestDies, courseVars
  <1>6. ASSUME NEW r \in Requests, AttachChecksUpload(r)
        PROVE  GateHolds'
    <2>1. UNCHANGED <<courseVars, history>> /\ req[r].status = "DRAFT"
      BY <1>6, <1>b DEF AttachChecksUpload, At, Attaching, Base, Shaped
    <2>2. CASE Return(r)
      BY <1>0, <2>1, <2>2 DEF courseVars, history
    <2>3. CASE Goto(r, IF req[r].old = NoKey THEN "writeKey" ELSE "deleteOld")
      <3> DEFINE step == IF req[r].old = NoKey THEN "writeKey" ELSE "deleteOld"
      <3>1. step \in Steps
        BY DEF Steps
      <3>2. PICK v \in Request : req' = [req EXCEPT ![r] = v] /\ v.status = req[r].status
        BY <1>b, <2>3, <3>1, GotoForm
      <3>3. QED
        BY <2>1, <3>2, SlotKeepsGate DEF courseVars, history
    <2>4. QED
      BY <1>6, <2>2, <2>3 DEF AttachChecksUpload
  <1>7. ASSUME NEW r \in Requests, AttachDeletesOld(r)
        PROVE  GateHolds'
    <2>1. "writeKey" \in Steps /\ Goto(r, "writeKey") /\ UNCHANGED <<lesson, overtaken>>
      BY <1>7 DEF Steps, AttachDeletesOld, history
    <2>2. PICK v \in Request : req' = [req EXCEPT ![r] = v] /\ v.pc = "writeKey"
      BY <1>b, <2>1, GotoForm
    <2>3. QED
      BY <2>1, <2>2, SlotKeepsGate
  <1>8. ASSUME NEW r \in Requests, AttachWritesKey(r)
        PROVE  GateHolds'
    <2>1. /\ Present(lesson) # {} => Present(lesson') # {}
          /\ Complete(lesson) => Complete(lesson')
      BY <1>8, <1>b, SavingKeepsComplete
    <2>2. req' = [req EXCEPT ![r] = Idle] /\ UNCHANGED overtaken
      BY <1>8 DEF AttachWritesKey, Return
    <2>3. QED
      BY <2>1, <2>2, IdleTyped, SlotKeepsGate
  <1>9. ASSUME NEW rows, EditLessons(rows)
        PROVE  GateHolds'
    <2>1. lesson' = rows /\ UNCHANGED req
      BY <1>9 DEF EditLessons
    <2>2. ASSUME NEW q \in Requests, req[q].status = "PUBLISHED", q \notin overtaken'
          PROVE  /\ req[q].pc = "findMissing" => Present(rows) # {}
                 /\ req[q].pc = "writeStatus" => Complete(rows)
      BY <1>9, <2>2 DEF EditLessons, At
    <2>3. QED
      BY <2>1, <2>2 DEF GateHolds
  <1>10. ASSUME NEW l \in Lessons, NEW isVideo \in BOOLEAN,
                CreateLesson(l, isVideo) \/ UpdateLesson(l, isVideo)
         PROVE  GateHolds'
    BY <1>9, <1>10 DEF CreateLesson, UpdateLesson
  <1>11. ASSUME NEW gone \in SUBSET Lessons, DeleteLessons(gone)
         PROVE  GateHolds'
    BY <1>9, <1>11 DEF DeleteLessons
  <1>12. ASSUME UNCHANGED <<lesson, req, overtaken>>
         PROVE  GateHolds'
    BY <1>12 DEF GateInv, GateHolds
  <1>13. ASSUME NEW k \in Keys, Upload(k)
         PROVE  GateHolds'
    BY <1>12, <1>13 DEF Upload, history
  <1>14. CASE UNCHANGED vars
    BY <1>12, <1>14 DEF vars, courseVars, history
  <1>15. QED
    BY <1>1, <1>2, <1>3, <1>4, <1>5, <1>6, <1>7, <1>8, <1>10, <1>11, <1>13, <1>14
       DEF Next, RequestStep

LEMMA StepComplete ==
  ASSUME GateInv, [Next]_vars
  PROVE  IncompletePublishHasCause'
  <1>b. Base
    BY DEF GateInv, Base
  <1>1. ASSUME UNCHANGED <<status, loosened>>, Complete(lesson) => Complete(lesson')
        PROVE  IncompletePublishHasCause'
    BY <1>1 DEF GateInv, IncompletePublishHasCause
  <1>2. ASSUME NEW r \in Requests, StatusWrites(r)
        PROVE  IncompletePublishHasCause'
    <2>1. /\ req[r].pc = "writeStatus" /\ status' = req[r].status
          /\ loosened' = (r \in overtaken) /\ UNCHANGED lesson
      BY <1>2 DEF StatusWrites, At
    <2>2. req[r].status = "PUBLISHED" /\ r \notin overtaken => Complete(lesson)
      BY <2>1 DEF GateInv, GateHolds
    <2>3. QED
      BY <2>1, <2>2 DEF IncompletePublishHasCause
  <1>3. ASSUME NEW r \in Requests, AttachWritesKey(r)
        PROVE  IncompletePublishHasCause'
    BY <1>b, <1>1, <1>3, SavingKeepsComplete DEF AttachWritesKey
  <1>4. ASSUME NEW rows, EditLessons(rows)
        PROVE  IncompletePublishHasCause'
    BY <1>4 DEF EditLessons, IncompletePublishHasCause
  <1>5. ASSUME NEW l \in Lessons, NEW isVideo \in BOOLEAN,
               CreateLesson(l, isVideo) \/ UpdateLesson(l, isVideo)
        PROVE  IncompletePublishHasCause'
    BY <1>4, <1>5 DEF CreateLesson, UpdateLesson
  <1>6. ASSUME NEW gone \in SUBSET Lessons, DeleteLessons(gone)
        PROVE  IncompletePublishHasCause'
    BY <1>4, <1>6 DEF DeleteLessons
  <1>7. ASSUME UNCHANGED <<status, loosened, lesson>>
        PROVE  IncompletePublishHasCause'
    BY <1>1, <1>7
  <1>8. ASSUME NEW r \in Requests,
               \/ PublishCountsLessons(r) \/ PublishFindsMissing(r)
               \/ AttachChecksUpload(r) \/ AttachDeletesOld(r) \/ RequestDies(r)
        PROVE  IncompletePublishHasCause'
    BY <1>7, <1>8 DEF PublishCountsLessons, PublishFindsMissing, AttachChecksUpload,
                      AttachDeletesOld, RequestDies, courseVars, history
  <1>9. ASSUME NEW r \in Requests, NEW s \in CourseStatus, StatusFindsCourse(r, s)
        PROVE  IncompletePublishHasCause'
    BY <1>7, <1>9 DEF StatusFindsCourse, courseVars, history
  <1>10. ASSUME NEW r \in Requests, NEW l \in Lessons, NEW k \in Keys, AttachFindsLesson(r, l, k)
         PROVE  IncompletePublishHasCause'
    BY <1>7, <1>10 DEF AttachFindsLesson, courseVars, history
  <1>11. ASSUME NEW k \in Keys, Upload(k)
         PROVE  IncompletePublishHasCause'
    BY <1>7, <1>11 DEF Upload, history
  <1>12. CASE UNCHANGED vars
    BY <1>7, <1>12 DEF vars, courseVars, history
  <1>13. QED
    BY <1>2, <1>3, <1>5, <1>6, <1>8, <1>9, <1>10, <1>11, <1>12 DEF Next, RequestStep

LEMMA InitBase == Init => Base
  BY IdleTyped, RowTyped
     DEF Init, Base, TypeOK, Shaped, CourseStatus, Attaching

\* TypeOK of Publishing: the rows, the bucket and every request's locals stay
\* within what changeStatus and attachLessonVideo write.
THEOREM TypeCorrect == Spec => []TypeOK
  <1>1. Init => Base
    BY InitBase
  <1>2. Base /\ [Next]_vars => Base'
    BY StepBase
  <1>3. Base => TypeOK
    BY DEF Base
  <1>4. QED
    BY <1>1, <1>2, <1>3, PTL DEF Spec

\* A published course that is incomplete was made so by a curriculum edit,
\* while published or between changeStatus's reads and its write, whatever
\* videos were attached meanwhile.
THEOREM IncompletePublishAlwaysHasCause == Spec => []IncompletePublishHasCause
  <1>1. Init => GateInv
    <2>1. Init => GateHolds /\ IncompletePublishHasCause
      BY IdleTyped DEF Init, GateHolds, IncompletePublishHasCause
    <2>2. QED
      BY <2>1, InitBase DEF GateInv, Base
  <1>2. GateInv /\ [Next]_vars => GateInv'
    BY StepBase, StepGateHolds, StepComplete DEF GateInv, Base
  <1>3. GateInv => IncompletePublishHasCause
    BY DEF GateInv
  <1>4. QED
    BY <1>1, <1>2, <1>3, PTL DEF Spec

-------------------------------------------------------------------------------
(* The videos.                                                             *)

VideoParts == KeysAccountedFor /\ CheckedUploads /\ DanglingVideoHasCause

\* A request moves on to v over the same lessons and bucket.
LEMMA SlotKeepsVideo ==
  ASSUME VideoInv, NEW r \in Requests, NEW v \in Request, req' = [req EXCEPT ![r] = v],
         UNCHANGED <<lesson, objects, attached, reattached>>, abandoned \subseteq abandoned',
         v.old # NoKey => \/ v.old = req[r].old /\ v.lesson = req[r].lesson
                          \/ v.lesson \in Lessons /\ v.old = lesson[v.lesson].key,
         v.pc \in {"deleteOld", "writeKey"} => v.key \in objects \cup attached,
         req[r].pc = "writeKey" /\ req[r].old # NoKey => req[r].old \in abandoned'
  PROVE  VideoParts'
  <1>1. req'[r] = v /\ \A q \in Requests \ {r} : req'[q] = req[q]
    BY DEF VideoInv, TypeOK
  <1>2. /\ v.old # NoKey => v.old \in attached
        /\ v.old # NoKey => \A l \in Lessons : l # v.lesson /\ lesson[l].key = v.old =>
             v.old \in reattached
    BY DEF VideoInv, KeysAccountedFor
  <1>3. KeysAccountedFor'
    <2>1. ASSUME NEW q \in Requests, req'[q].old # NoKey
          PROVE  /\ req'[q].old \in attached
                 /\ \A l \in Lessons : l # req'[q].lesson /\ lesson[l].key = req'[q].old =>
                      req'[q].old \in reattached
      <3>1. CASE q = r
        BY <1>1, <1>2, <2>1, <3>1
      <3>2. CASE q # r
        BY <1>1, <2>1, <3>2 DEF VideoInv, KeysAccountedFor
      <3>3. QED
        BY <3>1, <3>2
    <2>2. QED
      BY <2>1 DEF VideoInv, KeysAccountedFor
  <1>4. CheckedUploads'
    BY <1>1 DEF VideoInv, CheckedUploads
  <1>5. DanglingVideoHasCause'
    <2>1. ASSUME NEW l \in Lessons, lesson[l].key # NoKey, lesson[l].key \notin objects
          PROVE  \/ \E q \in Requests : req'[q].pc = "writeKey" /\ req'[q].old = lesson[l].key
                 \/ lesson[l].key \in abandoned'
                 \/ lesson[l].key \in reattached
      <3>1. CASE \E q \in Requests : req[q].pc = "writeKey" /\ req[q].old = lesson[l].key
        BY <1>1, <2>1, <3>1
      <3>2. CASE lesson[l].key \in abandoned \cup reattached
        BY <3>2
      <3>3. QED
        BY <2>1, <3>1, <3>2 DEF VideoInv, DanglingVideoHasCause, At
    <2>2. QED
      BY <2>1 DEF DanglingVideoHasCause, At
  <1>6. QED
    BY <1>3, <1>4, <1>5 DEF VideoParts

\* An edit leaves a lesson its key or none.
LEMMA EditKeepsVideo ==
  ASSUME VideoInv, NEW rows \in [Lessons -> Row], EditLessons(rows),
         \A m \in Lessons : rows[m].key \in {lesson[m].key, NoKey}
  PROVE  VideoParts'
  <1>1. lesson' = rows /\ UNCHANGED <<objects, req, attached, reattached, abandoned>>
    BY DEF EditLessons
  <1>2. KeysAccountedFor'
    BY <1>1 DEF VideoInv, KeysAccountedFor
  <1>3. CheckedUploads'
    BY <1>1 DEF VideoInv, CheckedUploads
  <1>4. DanglingVideoHasCause'
    BY <1>1 DEF VideoInv, DanglingVideoHasCause, At
  <1>5. QED
    BY <1>2, <1>3, <1>4 DEF VideoParts

LEMMA DeleteKeepsVideo ==
  ASSUME VideoInv, NEW r \in Requests, AttachDeletesOld(r)
  PROVE  VideoParts'
  <1>b. Base
    BY DEF VideoInv, Base
  <1>1. /\ req[r].pc = "deleteOld" /\ req[r].old # NoKey
        /\ objects \ {req[r].old} \subseteq objects'
        /\ UNCHANGED <<lesson, attached, reattached, abandoned>>
    BY <1>b DEF AttachDeletesOld, At, history, Base, Shaped
  <1>2. "writeKey" \in Steps /\ Goto(r, "writeKey")
    BY DEF Steps, AttachDeletesOld
  <1>3. PICK v \in Request :
          /\ req' = [req EXCEPT ![r] = v]
          /\ v.pc = "writeKey" /\ v.lesson = req[r].lesson
          /\ v.key = req[r].key /\ v.old = req[r].old
    BY <1>b, <1>2, GotoForm
  <1>4. req'[r] = v /\ \A q \in Requests \ {r} : req'[q] = req[q]
    BY <1>3 DEF VideoInv, TypeOK
  <1>5. req[r].old \in attached
    BY <1>1 DEF VideoInv, KeysAccountedFor
  <1>6. KeysAccountedFor'
    BY <1>1, <1>3, <1>4 DEF VideoInv, KeysAccountedFor
  <1>7. CheckedUploads'
    <2>1. ASSUME NEW q \in Requests, req'[q].pc \in {"deleteOld", "writeKey"}
          PROVE  req'[q].key \in objects' \cup attached
      <3>1. req'[q].key \in objects \cup attached
        BY <1>1, <1>3, <1>4, <2>1 DEF VideoInv, CheckedUploads
      <3>2. QED
        BY <1>1, <1>5, <3>1
    <2>2. QED
      BY <1>1, <2>1 DEF CheckedUploads
  <1>8. DanglingVideoHasCause'
    <2>1. ASSUME NEW l \in Lessons, lesson[l].key # NoKey, lesson[l].key \notin objects'
          PROVE  \/ \E q \in Requests : req'[q].pc = "writeKey" /\ req'[q].old = lesson[l].key
                 \/ lesson[l].key \in abandoned \cup reattached
      <3>1. CASE lesson[l].key = req[r].old
        BY <1>3, <1>4, <3>1
      <3>2. CASE lesson[l].key # req[r].old
        <4>1. lesson[l].key \notin objects
          BY <1>1, <2>1, <3>2
        <4>2. CASE \E q \in Requests : req[q].pc = "writeKey" /\ req[q].old = lesson[l].key
          BY <1>1, <1>4, <4>2
        <4>3. QED
          BY <2>1, <4>1, <4>2 DEF VideoInv, DanglingVideoHasCause, At
      <3>3. QED
        BY <3>1, <3>2
    <2>2. QED
      BY <1>1, <2>1 DEF DanglingVideoHasCause, At
  <1>9. QED
    BY <1>6, <1>7, <1>8 DEF VideoParts

\* A saved key was checked, so its object is there unless it was saved before;
\* the object the request deleted is named by no other lesson unless saved twice.
LEMMA SaveKeepsVideo ==
  ASSUME VideoInv, NEW r \in Requests, AttachWritesKey(r)
  PROVE  VideoParts'
  <1> DEFINE l == req[r].lesson  k == req[r].key
             Saved == /\ lesson'[l].key = k
                      /\ attached' = attached \cup {k}
                      /\ reattached' = reattached \cup (attached \cap {k})
             Gone  == /\ UNCHANGED <<lesson, attached, reattached>>
                      /\ lesson[l] = NoRow
  <1>b. Base
    BY DEF VideoInv, Base
  <1>1. /\ l \in Lessons /\ k \in Keys
        /\ \A m \in Lessons \ {l} : lesson'[m] = lesson[m]
        /\ Saved \/ Gone
    BY <1>b, WritesKeyForm
  <1>2. /\ req[r].pc = "writeKey" /\ req' = [req EXCEPT ![r] = Idle]
        /\ UNCHANGED <<objects, abandoned>>
    BY DEF AttachWritesKey, Return, At
  <1>3. req'[r] = Idle /\ \A q \in Requests \ {r} : req'[q] = req[q]
    BY <1>2 DEF VideoInv, TypeOK
  <1>4. k \in objects \cup attached
    BY <1>2 DEF VideoInv, CheckedUploads
  <1>5. k # NoKey
    BY <1>1, PublishingAssumption
  <1>6. attached \subseteq attached' /\ reattached \subseteq reattached'
    BY <1>1
  <1>7. /\ \A q \in Requests : req'[q].old # NoKey => req'[q] = req[q]
        /\ \A q \in Requests : req'[q].pc \in {"deleteOld", "writeKey"} => req'[q] = req[q]
    BY <1>3, IdleTyped
  <1>8. \A m \in Lessons : lesson[m].key # NoKey => lesson[m].key \in attached
    BY DEF VideoInv, KeysAccountedFor
  <1> HIDE DEF l, k
  <1>9. KeysAccountedFor'
    <2>1. ASSUME NEW m \in Lessons, lesson'[m].key # NoKey
          PROVE  lesson'[m].key \in attached'
      BY <1>1, <1>6, <1>8, <2>1
    <2>2. ASSUME NEW m \in Lessons, NEW n \in Lessons, m # n,
                 lesson'[m].key = lesson'[n].key, lesson'[m].key # NoKey
          PROVE  lesson'[m].key \in reattached'
      <3>1. CASE m # l /\ n # l
        BY <1>1, <1>6, <2>2, <3>1 DEF VideoInv, KeysAccountedFor
      <3>2. CASE (m = l \/ n = l) /\ Saved
        BY <1>1, <1>8, <2>2, <3>2, <1>5
      <3>3. CASE Gone
        BY <2>2, <3>3 DEF VideoInv, KeysAccountedFor
      <3>4. QED
        BY <1>1, <3>1, <3>2, <3>3
    <2>3. ASSUME NEW q \in Requests, req'[q].old # NoKey
          PROVE  /\ req'[q].old \in attached'
                 /\ \A m \in Lessons : m # req'[q].lesson /\ lesson'[m].key = req'[q].old =>
                      req'[q].old \in reattached'
      <3>1. /\ req'[q] = req[q] /\ req[q].old \in attached
            /\ \A m \in Lessons : m # req[q].lesson /\ lesson[m].key = req[q].old =>
                 req[q].old \in reattached
        BY <1>7, <2>3 DEF VideoInv, KeysAccountedFor
      <3>2. QED
        BY <1>1, <1>6, <3>1
    <2>4. QED
      BY <2>1, <2>2, <2>3 DEF KeysAccountedFor
  <1>10. CheckedUploads'
    BY <1>2, <1>6, <1>7 DEF VideoInv, CheckedUploads
  <1>11. DanglingVideoHasCause'
    <2>1. ASSUME NEW m \in Lessons, lesson'[m].key # NoKey, lesson'[m].key \notin objects
          PROVE  \/ \E q \in Requests : req'[q].pc = "writeKey" /\ req'[q].old = lesson'[m].key
                 \/ lesson'[m].key \in abandoned \cup reattached'
      <3>1. CASE m = l /\ Saved
        BY <1>1, <1>4, <2>1, <3>1
      <3>2. CASE m # l \/ Gone
        <4>1. lesson'[m] = lesson[m]
          BY <1>1, <3>2
        <4>2. m # l
          BY <1>1, <2>1, <3>2, <4>1, RowTyped, <1>5
        <4>3. ASSUME req[r].old = lesson[m].key
              PROVE  lesson[m].key \in reattached
          BY <2>1, <4>1, <4>2, <4>3 DEF VideoInv, KeysAccountedFor, l
        <4>4. CASE \E q \in Requests \ {r} : req[q].pc = "writeKey" /\ req[q].old = lesson[m].key
          BY <1>3, <4>1, <4>4
        <4>5. CASE ~\E q \in Requests \ {r} : req[q].pc = "writeKey" /\ req[q].old = lesson[m].key
          <5>1. lesson[m].key \in abandoned \cup reattached
            BY <2>1, <4>1, <4>3, <4>5 DEF VideoInv, DanglingVideoHasCause, At
          <5>2. QED
            BY <1>6, <4>1, <5>1
        <4>6. QED
          BY <4>4, <4>5
      <3>3. QED
        BY <1>1, <3>1, <3>2
    <2>2. QED
      BY <1>2, <2>1 DEF DanglingVideoHasCause, At
  <1>12. QED
    BY <1>9, <1>10, <1>11 DEF VideoParts

LEMMA StepVideo ==
  ASSUME VideoInv, [Next]_vars
  PROVE  VideoParts'
  <1>b. Base
    BY DEF VideoInv, Base
  <1>0. ASSUME NEW r \in Requests, req' = [req EXCEPT ![r] = Idle],
               UNCHANGED <<lesson, objects, attached, reattached>>, abandoned \subseteq abandoned',
               req[r].pc = "writeKey" /\ req[r].old # NoKey => req[r].old \in abandoned'
        PROVE  VideoParts'
    BY <1>0, IdleTyped, SlotKeepsVideo
  <1>1. ASSUME NEW r \in Requests, NEW s \in CourseStatus, StatusFindsCourse(r, s)
        PROVE  VideoParts'
    <2>1. PICK v \in Request :
            /\ req' = [req EXCEPT ![r] = v]
            /\ v.pc = IF s = "PUBLISHED" THEN "countLessons" ELSE "writeStatus"
            /\ v.old = NoKey
      BY <1>1, FindsCourseForm
    <2>2. QED
      BY <1>1, <2>1, SlotKeepsVideo DEF StatusFindsCourse, At, courseVars, history
  <1>2. ASSUME NEW r \in Requests, NEW l \in Lessons, NEW k \in Keys, AttachFindsLesson(r, l, k)
        PROVE  VideoParts'
    <2>1. PICK v \in Request :
            /\ req' = [req EXCEPT ![r] = v]
            /\ v.pc = "headObject" /\ v.lesson = l /\ v.old = lesson[l].key
      BY <1>2, <1>b, FindsLessonForm
    <2>2. QED
      BY <1>2, <2>1, SlotKeepsVideo DEF AttachFindsLesson, At, courseVars, history
  <1>3. ASSUME NEW r \in Requests, NEW step \in {"findMissing", "writeStatus"},
               Goto(r, step), req[r].pc # "writeKey",
               UNCHANGED <<lesson, objects, attached, reattached, abandoned>>
        PROVE  VideoParts'
    <2>1. step \in Steps
      BY DEF Steps
    <2>2. PICK v \in Request :
            /\ req' = [req EXCEPT ![r] = v]
            /\ v.pc = step /\ v.lesson = req[r].lesson /\ v.old = req[r].old
      BY <1>3, <1>b, <2>1, GotoForm
    <2>3. QED
      BY <1>3, <2>2, SlotKeepsVideo
  <1>4. ASSUME NEW r \in Requests, PublishCountsLessons(r) \/ PublishFindsMissing(r)
        PROVE  VideoParts'
    <2>1. /\ req[r].pc # "writeKey"
          /\ Return(r) \/ Goto(r, "findMissing") \/ Goto(r, "writeStatus")
          /\ UNCHANGED <<lesson, objects, attached, reattached, abandoned>>
      BY <1>4 DEF PublishCountsLessons, PublishFindsMissing, At, courseVars, history
    <2>2. QED
      BY <1>0, <1>3, <2>1 DEF Return
  <1>5. ASSUME NEW r \in Requests, StatusWrites(r)
        PROVE  VideoParts'
    BY <1>0, <1>5 DEF StatusWrites, At, Return
  <1>6. ASSUME NEW r \in Requests, AttachChecksUpload(r)
        PROVE  VideoParts'
    <2>1. req[r].pc = "headObject" /\ UNCHANGED <<courseVars, history>>
      BY <1>6 DEF AttachChecksUpload, At
    <2>2. CASE Return(r)
      BY <1>0, <2>1, <2>2 DEF Return, courseVars, history
    <2>3. CASE ~Return(r)
      <3> DEFINE step == IF req[r].old = NoKey THEN "writeKey" ELSE "deleteOld"
      <3>1. step \in Steps /\ Goto(r, step) /\ req[r].key \in objects
        BY <1>6, <2>3 DEF Steps, AttachChecksUpload, UploadExists
      <3>2. PICK v \in Request :
              /\ req' = [req EXCEPT ![r] = v]
              /\ v.lesson = req[r].lesson /\ v.key = req[r].key /\ v.old = req[r].old
        BY <1>b, <3>1, GotoForm
      <3>3. QED
        BY <2>1, <3>1, <3>2, SlotKeepsVideo DEF courseVars, history
    <2>4. QED
      BY <2>2, <2>3
  <1>7. ASSUME NEW r \in Requests, RequestDies(r)
        PROVE  VideoParts'
    <2>1. /\ abandoned \subseteq abandoned'
          /\ req[r].pc = "writeKey" /\ req[r].old # NoKey => req[r].old \in abandoned'
      BY <1>7 DEF RequestDies, At
    <2>2. QED
      BY <1>0, <1>7, <2>1 DEF RequestDies, Return, courseVars
  <1>8. ASSUME NEW l \in Lessons, NEW isVideo \in BOOLEAN, NEW gone \in SUBSET Lessons,
               CreateLesson(l, isVideo) \/ UpdateLesson(l, isVideo) \/ DeleteLessons(gone)
        PROVE  VideoParts'
    <2>1. PICK rows \in [Lessons -> Row] :
            EditLessons(rows) /\ \A m \in Lessons : rows[m].key \in {lesson[m].key, NoKey}
      BY <1>8, <1>b, EditedRows
    <2>2. QED
      BY <2>1, EditKeepsVideo
  <1>9. ASSUME NEW gone \in SUBSET Lessons, DeleteLessons(gone)
        PROVE  VideoParts'
    <2>1. PICK l : l \in Lessons
      BY <1>9 DEF DeleteLessons
    <2>2. QED
      BY <1>8, <1>9, <2>1
  <1>10. ASSUME UNCHANGED <<lesson, req, attached, reattached, abandoned>>, objects \subseteq objects'
         PROVE  VideoParts'
    <2>1. KeysAccountedFor'
      BY <1>10 DEF VideoInv, KeysAccountedFor
    <2>2. CheckedUploads'
      BY <1>10 DEF VideoInv, CheckedUploads
    <2>3. DanglingVideoHasCause'
      BY <1>10 DEF VideoInv, DanglingVideoHasCause, At
    <2>4. QED
      BY <2>1, <2>2, <2>3 DEF VideoParts
  <1>11. ASSUME NEW k \in Keys, Upload(k)
         PROVE  VideoParts'
    BY <1>10, <1>11 DEF Upload, history
  <1>12. CASE UNCHANGED vars
    BY <1>10, <1>12 DEF vars, courseVars, history
  <1>13. QED
    BY <1>1, <1>2, <1>4, <1>5, <1>6, <1>7, <1>8, <1>9, <1>11, <1>12,
       DeleteKeepsVideo, SaveKeepsVideo DEF Next, RequestStep

\* A lesson names a video that is not in the bucket only between attachLessonVideo's
\* delete and its save, after a request that died there, or for a key saved twice.
THEOREM DanglingVideoAlwaysHasCause == Spec => []DanglingVideoHasCause
  <1>1. Init => VideoInv
    <2>1. Init => VideoParts
      BY IdleTyped, RowTyped
         DEF Init, VideoParts, KeysAccountedFor, CheckedUploads, DanglingVideoHasCause
    <2>2. QED
      BY <2>1, InitBase DEF VideoInv, VideoParts, Base
  <1>2. VideoInv /\ [Next]_vars => VideoInv'
    BY StepBase, StepVideo DEF VideoInv, VideoParts, Base
  <1>3. VideoInv => DanglingVideoHasCause
    BY DEF VideoInv
  <1>4. QED
    BY <1>1, <1>2, <1>3, PTL DEF Spec

===============================================================================
