---------------------------- MODULE LearningProofs ----------------------------
(***************************************************************************)
(* Theorems about Enrollment and about Learning, which is built on it, for *)
(* any number of learners, lessons, enroll and cancel requests and         *)
(* progress updates at once.                                               *)
(*                                                                         *)
(* Enrollment: the inductive invariant adds to the safety properties what  *)
(* the code relies on between the count and its write: the number a        *)
(* request carries is exact as long as nobody has overtaken it.            *)
(*                                                                         *)
(* Learning: what the recalculation relies on between its reads and its    *)
(* write is made an invariant: the count it carries is exact unless it is  *)
(* outdated, a completed row it read is one that has been or will be       *)
(* announced, and an update that announces has found the course completed  *)
(* by its own numbers.                                                     *)
(***************************************************************************)
EXTENDS Learning, FiniteSetTheorems, TLAPS

(* Enrollment.                                                             *)

\* The count a request is about to store is the current one, or overtaken.
CarriedCountExact ==
  \A r \in Requests :
    (At(r, "writeCount") /\ r \notin overtaken) => req[r].count = ActiveCount

Inv == /\ TypeOK
       /\ CarriedCountExact
       /\ WrongCountHasCause
       /\ MissingProgressHasCause

LEMMA CountsAreNat ==
  ASSUME TypeOK
  PROVE  ActiveCount \in Nat /\ RecalculatedCount \in Nat
         /\ Cardinality(lessons) \in Nat
  BY EnrollmentAssumption, FS_Subset, FS_CardinalityType
     DEF TypeOK, ActiveCount, RecalculatedCount

\* Storing a well-formed request in a slot keeps req well-formed.
LEMMA SlotTyped ==
  ASSUME TypeOK, NEW r \in Requests, NEW v \in Request,
         v.pc # "idle" => v.user \in Users,
         req' = [req EXCEPT ![r] = v]
  PROVE  /\ req' \in [Requests -> Request]
         /\ \A q \in Requests : req'[q].pc # "idle" => req'[q].user \in Users
  BY DEF TypeOK, At

LEMMA InitInv == Init => Inv
  <1> SUFFICES ASSUME Init PROVE Inv
    OBVIOUS
  <1>1. ActiveCount = 0
    <2>1. {u \in Users : enrollment[u] = "ACTIVE"} = {}
      BY DEF Init
    <2>2. QED
      BY <2>1, FS_EmptySet DEF ActiveCount
  <1>2. TypeOK
    BY DEF Init, TypeOK, Status, NoRow, ProgressRow, Idle, Request, Steps, At
  <1>3. CarriedCountExact
    BY DEF Init, CarriedCountExact, At, Idle
  <1>4. WrongCountHasCause
    BY <1>1 DEF Init, WrongCountHasCause
  <1>5. MissingProgressHasCause
    BY DEF Init, MissingProgressHasCause
  <1>6. QED
    BY <1>2, <1>3, <1>4, <1>5 DEF Inv

-------------------------------------------------------------------------------
(* Type correctness, one step per action.                                  *)

LEMMA StepTypeOK == TypeOK /\ [Next]_vars => TypeOK'
  <1> SUFFICES ASSUME TypeOK, [Next]_vars PROVE TypeOK'
    OBVIOUS
  <1> USE EnrollmentAssumption
        DEF TypeOK, At, Goto, Return, courseVars, rowVars, history, Status,
            Request, Steps, Idle
  <1>0. ActiveCount \in Nat /\ RecalculatedCount \in Nat
        /\ Cardinality(lessons) \in Nat
    BY CountsAreNat
  <1>1. ASSUME NEW r \in Requests, NEW u \in Users, EnrollFindsCourse(r, u)
        PROVE  TypeOK'
    BY <1>1 DEF EnrollFindsCourse
  <1>2. ASSUME NEW r \in Requests, EnrollFindsRow(r) PROVE TypeOK'
    BY <1>2 DEF EnrollFindsRow
  <1>3. ASSUME NEW r \in Requests, EnrollWritesRow(r) PROVE TypeOK'
    BY <1>3 DEF EnrollWritesRow, WriteStatus
  <1>4. ASSUME NEW r \in Requests, EnrollCountsLessons(r) PROVE TypeOK'
    <2> DEFINE n == Cardinality(lessons)
    <2>1. n \in Nat
      BY <1>0
    <2> DEFINE v == [req[r] EXCEPT !.pc = "upsertProgress", !.total = n]
    <2>2. v \in Request /\ v.user \in Users
      BY <1>4, <2>1 DEF EnrollCountsLessons
    <2>3. req' = [req EXCEPT ![r] = v]
      BY <1>4 DEF EnrollCountsLessons
    <2> HIDE DEF v
    <2>4. QED
      BY <1>4, <2>2, <2>3, SlotTyped DEF EnrollCountsLessons
  <1>5. ASSUME NEW r \in Requests, EnrollUpsertsProgress(r) PROVE TypeOK'
    <2> DEFINE u == req[r].user
               row == UpsertTotal(courseProgress[u], req[r].total)
    <2>1. u \in Users
      BY <1>5 DEF EnrollUpsertsProgress
    <2>2. row \in ProgressRow
      <3>1. courseProgress[u] \in ProgressRow /\ req[r].total \in Nat
        BY <2>1
      <3> HIDE DEF u
      <3>2. QED
        BY <3>1 DEF UpsertTotal, NoRow, ProgressRow
    <2>3. courseProgress' = [courseProgress EXCEPT ![u] = row]
      BY <1>5, <2>1 DEF EnrollUpsertsProgress
    <2> HIDE DEF row
    <2>4. QED
      BY <1>5, <2>1, <2>2, <2>3 DEF EnrollUpsertsProgress
  <1>6. ASSUME NEW r \in Requests, EnrollNotifies(r) PROVE TypeOK'
    BY <1>6 DEF EnrollNotifies
  <1>7. ASSUME NEW r \in Requests, NEW u \in Users, CancelFindsRow(r, u)
        PROVE  TypeOK'
    BY <1>7 DEF CancelFindsRow
  <1>8. ASSUME NEW r \in Requests, CancelWritesRow(r) PROVE TypeOK'
    BY <1>8 DEF CancelWritesRow, WriteStatus
  <1>9. ASSUME NEW r \in Requests, RecalculateCounts(r) PROVE TypeOK'
    <2> DEFINE n == RecalculatedCount
    <2>1. n \in Nat
      BY <1>0
    <2> DEFINE v == [req[r] EXCEPT !.pc = "writeCount", !.count = n]
    <2>2. v \in Request /\ v.user \in Users
      BY <1>9, <2>1 DEF RecalculateCounts
    <2>3. req' = [req EXCEPT ![r] = v]
      BY <1>9 DEF RecalculateCounts
    <2> HIDE DEF v
    <2>4. QED
      BY <1>9, <2>2, <2>3, SlotTyped DEF RecalculateCounts
  <1>10. ASSUME NEW r \in Requests, RecalculateWrites(r) PROVE TypeOK'
    BY <1>10 DEF RecalculateWrites
  <1>11. ASSUME NEW r \in Requests, RequestDies(r) PROVE TypeOK'
    BY <1>11 DEF RequestDies
  <1>12. ASSUME CourseStep PROVE TypeOK'
    BY <1>12 DEF CourseStep, SetPublished, CreateLesson, DeleteLesson
  <1>13. CASE UNCHANGED vars
    BY <1>13 DEF vars
  <1>14. QED
    BY <1>1, <1>2, <1>3, <1>4, <1>5, <1>6, <1>7, <1>8, <1>9, <1>10, <1>11,
       <1>12, <1>13 DEF Next, RequestStep

(* Every variable of the enrollment component keeps the type its column or *)
(* its handler gives it.                                                   *)
THEOREM TypeCorrect == Spec => []TypeOK
  <1>1. Init => TypeOK
    BY InitInv DEF Inv
  <1>2. QED
    BY <1>1, StepTypeOK, PTL DEF Spec

-------------------------------------------------------------------------------
(* The safety properties.                                                  *)

\* A write of a status other than the current one overtakes every request
\* that carries a count.
LEMMA WriteOvertakes ==
  ASSUME TypeOK, CarriedCountExact, NEW r \in Requests, NEW u \in Users,
         NEW s \in Status, NEW p \in Steps, p # "writeCount",
         WriteStatus(u, s), Goto(r, p)
  PROVE  CarriedCountExact'
  <1>1. \A q \in Requests : At(q, "writeCount")' => At(q, "writeCount")
                            /\ req'[q] = req[q]
    BY DEF Goto, At, TypeOK
  <1>2. CASE enrollment[u] = s
    <2>1. enrollment' = enrollment /\ overtaken' = overtaken
      BY <1>2 DEF WriteStatus, TypeOK
    <2>2. ActiveCount' = ActiveCount
      BY <2>1 DEF ActiveCount
    <2>3. QED
      BY <1>1, <2>1, <2>2 DEF CarriedCountExact
  <1>3. CASE enrollment[u] # s
    BY <1>1, <1>3 DEF WriteStatus, CarriedCountExact
  <1>4. QED
    BY <1>2, <1>3

\* Steps that leave the rows and the carried counts alone.
LEMMA CarriedFrame ==
  ASSUME CarriedCountExact, UNCHANGED enrollment,
         \A q \in Requests : At(q, "writeCount")' /\ q \notin overtaken' =>
            At(q, "writeCount") /\ q \notin overtaken
            /\ req'[q].count = req[q].count
  PROVE  CarriedCountExact'
  <1>1. ActiveCount' = ActiveCount
    BY DEF ActiveCount
  <1>2. QED
    BY <1>1 DEF CarriedCountExact

LEMMA StepCarried ==
  TypeOK /\ CarriedCountExact /\ [Next]_vars => CarriedCountExact'
  <1> SUFFICES ASSUME TypeOK, CarriedCountExact, [Next]_vars
               PROVE  CarriedCountExact'
    OBVIOUS
  <1> USE DEF At, Goto, Return, courseVars, rowVars, history, Idle
  <1>1. ASSUME NEW r \in Requests, NEW u \in Users, EnrollFindsCourse(r, u)
        PROVE  CarriedCountExact'
    BY <1>1, CarriedFrame DEF EnrollFindsCourse, TypeOK
  <1>2. ASSUME NEW r \in Requests, EnrollFindsRow(r)
        PROVE  CarriedCountExact'
    <2>1. \A q \in Requests \ {r} : req'[q] = req[q]
      BY <1>2 DEF EnrollFindsRow, TypeOK
    <2>2. req'[r].pc # "writeCount"
      BY <1>2 DEF EnrollFindsRow, TypeOK, Request
    <2>3. UNCHANGED <<enrollment, overtaken>>
      BY <1>2 DEF EnrollFindsRow
    <2>4. QED
      BY <2>1, <2>2, <2>3, CarriedFrame
  <1>3. ASSUME NEW r \in Requests, EnrollWritesRow(r)
        PROVE  CarriedCountExact'
    <2>1. CASE Return(r) /\ UNCHANGED <<enrollment, overtaken>>
      BY <1>3, <2>1, CarriedFrame DEF TypeOK
    <2>2. CASE WriteStatus(req[r].user, "ACTIVE") /\ Goto(r, "countLessons")
      <3>1. req[r].user \in Users
        BY <1>3 DEF EnrollWritesRow, TypeOK
      <3>2. QED
        BY <2>2, <3>1, WriteOvertakes DEF Status, Steps
    <2>3. QED
      BY <1>3, <2>1, <2>2 DEF EnrollWritesRow
  <1>4. ASSUME NEW r \in Requests, EnrollCountsLessons(r)
        PROVE  CarriedCountExact'
    BY <1>4, CarriedFrame DEF EnrollCountsLessons, TypeOK
  <1>5. ASSUME NEW r \in Requests, EnrollUpsertsProgress(r)
        PROVE  CarriedCountExact'
    BY <1>5, CarriedFrame DEF EnrollUpsertsProgress, TypeOK
  <1>6. ASSUME NEW r \in Requests, EnrollNotifies(r)
        PROVE  CarriedCountExact'
    BY <1>6, CarriedFrame DEF EnrollNotifies, TypeOK
  <1>7. ASSUME NEW r \in Requests, NEW u \in Users, CancelFindsRow(r, u)
        PROVE  CarriedCountExact'
    BY <1>7, CarriedFrame DEF CancelFindsRow, TypeOK
  <1>8. ASSUME NEW r \in Requests, CancelWritesRow(r)
        PROVE  CarriedCountExact'
    <2>1. req[r].user \in Users
      BY <1>8 DEF CancelWritesRow, TypeOK
    <2>2. QED
      BY <1>8, <2>1, WriteOvertakes DEF CancelWritesRow, Status, Steps
  <1>9. ASSUME NEW r \in Requests, RecalculateCounts(r)
        PROVE  CarriedCountExact'
    <2>1. ActiveCount' = ActiveCount /\ RecalculatedCount = ActiveCount
      BY <1>9 DEF RecalculateCounts, ActiveCount, RecalculatedCount
    <2> DEFINE v == [req[r] EXCEPT !.pc = "writeCount",
                                   !.count = RecalculatedCount]
    <2>2. req' = [req EXCEPT ![r] = v] /\ overtaken' = overtaken \ {r}
      BY <1>9 DEF RecalculateCounts
    <2>3. v.count = ActiveCount
      BY <2>1 DEF TypeOK, Request
    <2> HIDE DEF v
    <2>4. ASSUME NEW q \in Requests, req'[q].pc = "writeCount",
                 q \notin overtaken'
          PROVE  req'[q].count = ActiveCount'
      <3>1. CASE q = r
        BY <3>1, <2>1, <2>2, <2>3 DEF TypeOK
      <3>2. CASE q # r
        BY <3>2, <2>4, <2>1, <2>2 DEF TypeOK, CarriedCountExact
      <3>3. QED
        BY <3>1, <3>2
    <2>5. QED
      BY <2>4 DEF CarriedCountExact
  <1>10. ASSUME NEW r \in Requests, RecalculateWrites(r)
         PROVE  CarriedCountExact'
    <2>1. \A q \in Requests \ {r} : req'[q] = req[q]
      BY <1>10 DEF RecalculateWrites, TypeOK
    <2>2. req'[r].pc # "writeCount"
      BY <1>10 DEF RecalculateWrites, TypeOK, Request
    <2>3. UNCHANGED enrollment /\ overtaken' = overtaken \ {r}
      BY <1>10 DEF RecalculateWrites
    <2>4. QED
      BY <2>1, <2>2, <2>3, CarriedFrame
  <1>11. ASSUME NEW r \in Requests, RequestDies(r)
         PROVE  CarriedCountExact'
    BY <1>11, CarriedFrame DEF RequestDies, TypeOK
  <1>12. ASSUME CourseStep PROVE CarriedCountExact'
    BY <1>12, CarriedFrame
       DEF CourseStep, SetPublished, CreateLesson, DeleteLesson
  <1>13. CASE UNCHANGED vars
    BY <1>13, CarriedFrame DEF vars
  <1>14. QED
    BY <1>1, <1>2, <1>3, <1>4, <1>5, <1>6, <1>7, <1>8, <1>9, <1>10, <1>11,
       <1>12, <1>13 DEF Next, RequestStep

\* Steps that leave the rows and the count alone and relieve no request of
\* the recalculation it owes.
LEMMA WrongCountFrame ==
  ASSUME WrongCountHasCause, UNCHANGED <<enrollment, enrollmentCount>>,
         countDrifted => countDrifted',
         \A q \in Requests : OwesCount(q) => OwesCount(q)' \/ countDrifted'
  PROVE  WrongCountHasCause'
  <1>1. ActiveCount' = ActiveCount
    BY DEF ActiveCount
  <1>2. QED
    BY <1>1 DEF WrongCountHasCause

LEMMA StepWrongCount ==
  TypeOK /\ CarriedCountExact /\ WrongCountHasCause /\ [Next]_vars
    => WrongCountHasCause'
  <1> SUFFICES ASSUME TypeOK, CarriedCountExact, WrongCountHasCause,
                      [Next]_vars
               PROVE  WrongCountHasCause'
    OBVIOUS
  <1> USE DEF At, Goto, Return, courseVars, rowVars, history, Idle
  <1>0. \A r \in Requests : req[r] \in Request
    BY DEF TypeOK
  <1>1. ASSUME NEW r \in Requests, NEW u \in Users, EnrollFindsCourse(r, u)
        PROVE  WrongCountHasCause'
    BY <1>1, WrongCountFrame DEF EnrollFindsCourse, TypeOK, OwesCount
  <1>2. ASSUME NEW r \in Requests, EnrollFindsRow(r)
        PROVE  WrongCountHasCause'
    <2>1. \A q \in Requests \ {r} : req'[q] = req[q]
      BY <1>2 DEF EnrollFindsRow, TypeOK
    <2>2. ~OwesCount(r)
      BY <1>2 DEF EnrollFindsRow, OwesCount
    <2>3. UNCHANGED <<enrollment, enrollmentCount, countDrifted>>
      BY <1>2 DEF EnrollFindsRow
    <2>4. QED
      BY <2>1, <2>2, <2>3, WrongCountFrame DEF OwesCount
  <1>3. ASSUME NEW r \in Requests, EnrollWritesRow(r)
        PROVE  WrongCountHasCause'
    <2>1. CASE Return(r) /\ UNCHANGED enrollment
      BY <1>3, <2>1, WrongCountFrame DEF EnrollWritesRow, TypeOK, OwesCount
    <2>2. CASE Goto(r, "countLessons")
      <3>1. OwesCount(r)'
        BY <2>2, <1>0 DEF OwesCount, TypeOK, Request
      <3>2. QED
        BY <3>1 DEF WrongCountHasCause
    <2>3. QED
      BY <1>3, <2>1, <2>2 DEF EnrollWritesRow
  <1>4. ASSUME NEW r \in Requests, EnrollCountsLessons(r)
        PROVE  WrongCountHasCause'
    <2>1. OwesCount(r)'
      BY <1>4, <1>0 DEF EnrollCountsLessons, OwesCount, TypeOK, Request
    <2>2. QED
      BY <2>1 DEF WrongCountHasCause
  <1>5. ASSUME NEW r \in Requests, EnrollUpsertsProgress(r)
        PROVE  WrongCountHasCause'
    <2>1. OwesCount(r)'
      BY <1>5, <1>0 DEF EnrollUpsertsProgress, OwesCount, TypeOK, Request
    <2>2. QED
      BY <2>1 DEF WrongCountHasCause
  <1>6. ASSUME NEW r \in Requests, EnrollNotifies(r)
        PROVE  WrongCountHasCause'
    BY <1>6, WrongCountFrame DEF EnrollNotifies, TypeOK, OwesCount
  <1>7. ASSUME NEW r \in Requests, NEW u \in Users, CancelFindsRow(r, u)
        PROVE  WrongCountHasCause'
    BY <1>7, WrongCountFrame DEF CancelFindsRow, TypeOK, OwesCount
  <1>8. ASSUME NEW r \in Requests, CancelWritesRow(r)
        PROVE  WrongCountHasCause'
    <2>1. OwesCount(r)'
      BY <1>8, <1>0 DEF CancelWritesRow, OwesCount, TypeOK, Request
    <2>2. QED
      BY <2>1 DEF WrongCountHasCause
  <1>9. ASSUME NEW r \in Requests, RecalculateCounts(r)
        PROVE  WrongCountHasCause'
    <2>1. OwesCount(r)'
      BY <1>9, <1>0 DEF RecalculateCounts, OwesCount, TypeOK, Request
    <2>2. QED
      BY <2>1 DEF WrongCountHasCause
  <1>10. ASSUME NEW r \in Requests, RecalculateWrites(r)
         PROVE  WrongCountHasCause'
    <2>1. ActiveCount' = ActiveCount /\ enrollmentCount' = req[r].count
      BY <1>10 DEF RecalculateWrites, ActiveCount
    <2>2. CASE r \in overtaken
      BY <1>10, <2>2 DEF RecalculateWrites, WrongCountHasCause
    <2>3. CASE r \notin overtaken
      <3>1. req[r].count = ActiveCount
        BY <1>10, <2>3 DEF RecalculateWrites, CarriedCountExact
      <3>2. QED
        BY <2>1, <3>1 DEF WrongCountHasCause
    <2>4. QED
      BY <2>2, <2>3
  <1>11. ASSUME NEW r \in Requests, RequestDies(r)
         PROVE  WrongCountHasCause'
    BY <1>11, WrongCountFrame DEF RequestDies, TypeOK, OwesCount
  <1>12. ASSUME CourseStep PROVE WrongCountHasCause'
    BY <1>12, WrongCountFrame
       DEF CourseStep, SetPublished, CreateLesson, DeleteLesson, OwesCount
  <1>13. CASE UNCHANGED vars
    BY <1>13, WrongCountFrame DEF vars, OwesCount
  <1>14. QED
    BY <1>1, <1>2, <1>3, <1>4, <1>5, <1>6, <1>7, <1>8, <1>9, <1>10, <1>11,
       <1>12, <1>13 DEF Next, RequestStep

\* Steps that activate nobody, keep every row and relieve no request of the
\* upsert it owes.
LEMMA MissingFrame ==
  ASSUME MissingProgressHasCause,
         \A u \in Users :
           /\ enrollment'[u] = "ACTIVE" => enrollment[u] = "ACTIVE"
           /\ courseProgress[u].exists => courseProgress'[u].exists
           /\ u \in stranded => u \in stranded' \/ courseProgress'[u].exists
           /\ \A q \in Requests : OwesProgress(q, u) =>
                \/ OwesProgress(q, u)'
                \/ u \in stranded'
                \/ courseProgress'[u].exists
  PROVE  MissingProgressHasCause'
  BY DEF MissingProgressHasCause

LEMMA StepMissing ==
  TypeOK /\ MissingProgressHasCause /\ [Next]_vars => MissingProgressHasCause'
  <1> SUFFICES ASSUME TypeOK, MissingProgressHasCause, [Next]_vars
               PROVE  MissingProgressHasCause'
    OBVIOUS
  <1> USE DEF At, Goto, Return, courseVars, rowVars, history, Idle
  <1>0. \A r \in Requests : req[r] \in Request
    BY DEF TypeOK
  <1>1. ASSUME NEW r \in Requests, NEW u \in Users, EnrollFindsCourse(r, u)
        PROVE  MissingProgressHasCause'
    BY <1>1, MissingFrame DEF EnrollFindsCourse, TypeOK, OwesProgress
  <1>2. ASSUME NEW r \in Requests, EnrollFindsRow(r)
        PROVE  MissingProgressHasCause'
    <2>1. \A q \in Requests \ {r} : req'[q] = req[q]
      BY <1>2 DEF EnrollFindsRow, TypeOK
    <2>2. \A u \in Users : ~OwesProgress(r, u)
      BY <1>2 DEF EnrollFindsRow, OwesProgress
    <2>3. UNCHANGED <<enrollment, courseProgress, stranded>>
      BY <1>2 DEF EnrollFindsRow
    <2>4. QED
      BY <2>1, <2>2, <2>3, MissingFrame DEF OwesProgress
  <1>3. ASSUME NEW r \in Requests, EnrollWritesRow(r)
        PROVE  MissingProgressHasCause'
    <2>0. UNCHANGED <<courseProgress, stranded>>
          /\ \A u \in Users : ~OwesProgress(r, u)
      BY <1>3 DEF EnrollWritesRow, OwesProgress
    <2>1. CASE Return(r) /\ UNCHANGED enrollment
      BY <2>0, <2>1, MissingFrame DEF TypeOK, OwesProgress
    <2>2. CASE WriteStatus(req[r].user, "ACTIVE") /\ Goto(r, "countLessons")
      <3>1. req'[r].user = req[r].user /\ req'[r].pc = "countLessons"
        BY <2>2, <1>0 DEF TypeOK, Request
      <3>2. \A u \in Users \ {req[r].user} : enrollment'[u] = enrollment[u]
        BY <2>2 DEF WriteStatus, TypeOK
      <3>3. \A q \in Requests \ {r} : req'[q] = req[q]
        BY <2>2 DEF TypeOK
      <3>4. QED
        <4> SUFFICES ASSUME NEW u \in Users, enrollment'[u] = "ACTIVE",
                            ~courseProgress'[u].exists
                     PROVE  \/ u \in stranded'
                            \/ \E q \in Requests : OwesProgress(q, u)'
          BY DEF MissingProgressHasCause
        <4>1. CASE u = req[r].user
          BY <4>1, <3>1 DEF OwesProgress
        <4>2. CASE u # req[r].user
          <5>1. \/ u \in stranded
                \/ \E q \in Requests : OwesProgress(q, u)
            BY <4>2, <2>0, <3>2 DEF MissingProgressHasCause
          <5>2. QED
            BY <5>1, <2>0, <3>3 DEF OwesProgress
        <4>3. QED
          BY <4>1, <4>2
    <2>3. QED
      BY <1>3, <2>1, <2>2 DEF EnrollWritesRow
  <1>4. ASSUME NEW r \in Requests, EnrollCountsLessons(r)
        PROVE  MissingProgressHasCause'
    <2>1. \A q \in Requests \ {r} : req'[q] = req[q]
      BY <1>4 DEF EnrollCountsLessons, TypeOK
    <2>2. req'[r].user = req[r].user /\ req'[r].pc = "upsertProgress"
      BY <1>4, <1>0 DEF EnrollCountsLessons, TypeOK, Request
    <2>3. UNCHANGED <<enrollment, courseProgress, stranded>>
      BY <1>4 DEF EnrollCountsLessons
    <2>4. QED
      BY <2>1, <2>2, <2>3, MissingFrame DEF OwesProgress
  <1>5. ASSUME NEW r \in Requests, EnrollUpsertsProgress(r)
        PROVE  MissingProgressHasCause'
    <2> DEFINE u == req[r].user
    <2>1. u \in Users /\ courseProgress[u] \in ProgressRow
      BY <1>5 DEF EnrollUpsertsProgress, TypeOK
    <2>2. UpsertTotal(courseProgress[u], req[r].total).exists
      BY <2>1 DEF UpsertTotal, NoRow, ProgressRow
    <2>3. /\ courseProgress'[u].exists
          /\ \A v \in Users \ {u} : courseProgress'[v] = courseProgress[v]
      BY <1>5, <2>1, <2>2 DEF EnrollUpsertsProgress, TypeOK
    <2>4. /\ \A q \in Requests \ {r} : req'[q] = req[q]
          /\ UNCHANGED enrollment
          /\ stranded' = stranded \ {u}
      BY <1>5 DEF EnrollUpsertsProgress, TypeOK
    <2> HIDE DEF u
    <2>5. \A v \in Users \ {u} : ~OwesProgress(r, v)
      BY DEF OwesProgress, u
    <2>6. QED
      BY <2>3, <2>4, <2>5, MissingFrame DEF OwesProgress
  <1>6. ASSUME NEW r \in Requests, EnrollNotifies(r)
        PROVE  MissingProgressHasCause'
    BY <1>6, MissingFrame DEF EnrollNotifies, TypeOK, OwesProgress
  <1>7. ASSUME NEW r \in Requests, NEW u \in Users, CancelFindsRow(r, u)
        PROVE  MissingProgressHasCause'
    BY <1>7, MissingFrame DEF CancelFindsRow, TypeOK, OwesProgress
  <1>8. ASSUME NEW r \in Requests, CancelWritesRow(r)
        PROVE  MissingProgressHasCause'
    BY <1>8, MissingFrame
       DEF CancelWritesRow, WriteStatus, TypeOK, OwesProgress
  <1>9. ASSUME NEW r \in Requests, RecalculateCounts(r)
        PROVE  MissingProgressHasCause'
    <2>1. \A q \in Requests \ {r} : req'[q] = req[q]
      BY <1>9 DEF RecalculateCounts, TypeOK
    <2>2. \A u \in Users : ~OwesProgress(r, u)
      BY <1>9 DEF RecalculateCounts, OwesProgress
    <2>3. UNCHANGED <<enrollment, courseProgress, stranded>>
      BY <1>9 DEF RecalculateCounts
    <2>4. QED
      BY <2>1, <2>2, <2>3, MissingFrame DEF OwesProgress
  <1>10. ASSUME NEW r \in Requests, RecalculateWrites(r)
         PROVE  MissingProgressHasCause'
    <2>1. \A q \in Requests \ {r} : req'[q] = req[q]
      BY <1>10 DEF RecalculateWrites, TypeOK
    <2>2. \A u \in Users : ~OwesProgress(r, u)
      BY <1>10 DEF RecalculateWrites, OwesProgress
    <2>3. UNCHANGED <<enrollment, courseProgress, stranded>>
      BY <1>10 DEF RecalculateWrites
    <2>4. QED
      BY <2>1, <2>2, <2>3, MissingFrame DEF OwesProgress
  <1>11. ASSUME NEW r \in Requests, RequestDies(r)
         PROVE  MissingProgressHasCause'
    <2>1. \A q \in Requests \ {r} : req'[q] = req[q]
      BY <1>11 DEF RequestDies, TypeOK
    <2>2. UNCHANGED <<enrollment, courseProgress>>
      BY <1>11 DEF RequestDies
    <2>3. stranded' = stranded \cup {u \in Users : OwesProgress(r, u)}
      BY <1>11 DEF RequestDies
    <2>4. QED
      BY <2>1, <2>2, <2>3, MissingFrame DEF OwesProgress
  <1>12. ASSUME CourseStep PROVE MissingProgressHasCause'
    BY <1>12, MissingFrame
       DEF CourseStep, SetPublished, CreateLesson, DeleteLesson, OwesProgress
  <1>13. CASE UNCHANGED vars
    BY <1>13, MissingFrame DEF vars, OwesProgress
  <1>14. QED
    BY <1>1, <1>2, <1>3, <1>4, <1>5, <1>6, <1>7, <1>8, <1>9, <1>10, <1>11,
       <1>12, <1>13 DEF Next, RequestStep

(* enrollmentCount differs from the number of ACTIVE enrollments only for  *)
(* one of the three reasons WrongCountHasCause names, whatever the number  *)
(* of learners and of requests at once.                                    *)
THEOREM WrongCountAlwaysHasCause == Spec => []WrongCountHasCause
  <1>1. Init => CarriedCountExact /\ WrongCountHasCause
    BY InitInv DEF Inv
  <1>2. TypeOK /\ CarriedCountExact /\ WrongCountHasCause /\ [Next]_vars
          => CarriedCountExact' /\ WrongCountHasCause'
    BY StepCarried, StepWrongCount
  <1>3. QED
    BY <1>1, <1>2, TypeCorrect, PTL DEF Spec

(* An ACTIVE enrollment without a CourseProgress row belongs to an enroll  *)
(* that is still on its way to the upsert, or that died on that way.       *)
THEOREM MissingProgressAlwaysHasCause == Spec => []MissingProgressHasCause
  <1>1. Init => MissingProgressHasCause
    BY InitInv DEF Inv
  <1>2. QED
    BY <1>1, StepMissing, TypeCorrect, PTL DEF Spec

-------------------------------------------------------------------------------
(* Learning.                                                               *)

\* An update is about a learner and, until it has written it, a lesson, and
\* stores or announces only what both its reads have returned.
UpdatesAimed ==
  \A r \in Updates :
    /\ upd[r].pc # "idle" => upd[r].user \in Users
    /\ upd[r].pc \in {"access", "readLesson", "writeLesson"} =>
         upd[r].lesson \in Lessons
    /\ upd[r].pc \in {"writeProgress", "announce"} => upd[r].pending = {}

MissingRowsBlank ==
  \A u \in Users : ~courseProgress[u].exists => courseProgress[u] = NoRow

LearningShape == LearningTypeOK /\ UpdatesAimed /\ MissingRowsBlank

\* An update without a status writes back what its lesson row still says.
WritesWhatItRead(r) ==
  (AtUpdate(r, "writeLesson") /\ upd[r].input = "absent" /\ r \notin rewritten)
    => (upd[r].completes <=> upd[r].lesson \in lessonDone[upd[r].user])
ReadStillHolds == \A r \in Updates : WritesWhatItRead(r)

\* The number of completed lessons an update carries.
CarriesExact(r) ==
  (r \in Counted(upd[r].user) /\ r \notin outdated) =>
    upd[r].count = Cardinality(lessonDone[upd[r].user])
CarriedProgressExact == \A r \in Updates : CarriesExact(r)

\* The learner has been told, will be, or the update that was to tell died.
Announced(u) ==
  \/ u \in congratulated
  \/ u \in silenced
  \/ \E r \in Updates : AtUpdate(r, "announce") /\ upd[r].user = u

ReadRowsAnnounced ==
  \A r \in Updates : upd[r].row.isCompleted => Announced(upd[r].user)

CompletedRowsAnnounced ==
  \A u \in Users : courseProgress[u].isCompleted => Announced(u)

\* Rows that exist or not: a missing one counts no lesson.
ProgressExact ==
  \A u \in Users :
    \/ courseProgress[u].completed = Cardinality(lessonDone[u])
    \/ u \in progressDrifted
    \/ \E r \in Updates : OwesRecalculation(r, u)

AnnouncesCompleted ==
  \A r \in Updates : AtUpdate(r, "announce") =>
    IsCompleted(upd[r].count, TotalUsed(upd[r].row, upd[r].count))

LearningInv ==
  /\ LearningShape /\ ReadStillHolds /\ CarriedProgressExact
  /\ ReadRowsAnnounced /\ CompletedRowsAnnounced /\ ProgressExact
  /\ AnnouncesCompleted

-------------------------------------------------------------------------------
(* What each action does to its own update; the others keep theirs.        *)

LEMMA LessonsCounted ==
  ASSUME LearningTypeOK
  PROVE  /\ IsFiniteSet(lessons) /\ Cardinality(lessons) \in Nat
         /\ \A u \in Users : /\ IsFiniteSet(lessonDone[u])
                             /\ Cardinality(lessonDone[u]) \in Nat
  BY EnrollmentAssumption, FS_Subset, FS_CardinalityType DEF LearningTypeOK, TypeOK

LEMMA IdleUpdateTyped ==
  /\ IdleUpdate \in Update /\ NoRow \in ProgressRow
  /\ IdleUpdate.pc = "idle" /\ IdleUpdate.row = NoRow /\ ~NoRow.isCompleted
  /\ NoRow.completed = 0 /\ ~NoRow.exists
  <1>1. NoRow \in ProgressRow /\ ~NoRow.isCompleted /\ NoRow.completed = 0
        /\ ~NoRow.exists
    BY DEF NoRow, ProgressRow
  <1> HIDE DEF NoRow
  <1>2. QED
    BY <1>1 DEF IdleUpdate, Update, UpdateSteps, Reads, Inputs

LEMMA UpdateGiven ==
  ASSUME LearningTypeOK, NEW r \in Updates, NEW v \in Update,
         upd' = [upd EXCEPT ![r] = v]
  PROVE  /\ upd' \in [Updates -> Update] /\ upd'[r] = v
         /\ \A q \in Updates \ {r} : upd'[q] = upd[q]
  BY DEF LearningTypeOK

LEMMA UpdateFinishes ==
  ASSUME LearningTypeOK, NEW r \in Updates, Finish(r)
  PROVE  /\ upd' \in [Updates -> Update] /\ upd'[r] = IdleUpdate
         /\ \A q \in Updates \ {r} : upd'[q] = upd[q]
  BY IdleUpdateTyped, UpdateGiven DEF Finish

LEMMA UpdateStarts ==
  ASSUME LearningTypeOK, NEW r \in Updates, NEW u \in Users, NEW l \in Lessons,
         NEW i \in Inputs, UpdateFindsLesson(r, u, l, i)
  PROVE  /\ upd' \in [Updates -> Update] /\ upd[r].pc = "idle"
         /\ upd'[r].pc \in {"access", "readLesson"} /\ upd'[r].user = u
         /\ upd'[r].lesson = l /\ upd'[r].row = NoRow
         /\ \A q \in Updates \ {r} : upd'[q] = upd[q]
  <1> DEFINE p == IF l \in Previews THEN "readLesson" ELSE "access"
             v == [IdleUpdate EXCEPT !.pc = p, !.user = u, !.lesson = l, !.input = i]
  <1>1. v \in Update /\ v.pc = p /\ v.user = u /\ v.lesson = l /\ v.row = NoRow
    <2>1. IdleUpdate \in Update /\ IdleUpdate.row = NoRow /\ p \in UpdateSteps
      BY IdleUpdateTyped DEF UpdateSteps
    <2> HIDE DEF p
    <2>2. QED
      BY <2>1 DEF Update
  <1>2. upd' = [upd EXCEPT ![r] = v] /\ upd[r].pc = "idle"
    BY DEF UpdateFindsLesson, AtUpdate
  <1> HIDE DEF v
  <1>3. QED
    BY <1>1, <1>2, UpdateGiven

LEMMA AccessGranted ==
  ASSUME LearningTypeOK, NEW r \in Updates, upd' = [upd EXCEPT ![r].pc = "readLesson"]
  PROVE  /\ upd' \in [Updates -> Update]
         /\ upd'[r].pc = "readLesson" /\ upd'[r].user = upd[r].user
         /\ upd'[r].lesson = upd[r].lesson /\ upd'[r].row = upd[r].row
         /\ \A q \in Updates \ {r} : upd'[q] = upd[q]
  BY DEF LearningTypeOK, Update, UpdateSteps

LEMMA LessonRead ==
  ASSUME LearningTypeOK, NEW r \in Updates, UpdateReadsLesson(r)
  PROVE  /\ upd' \in [Updates -> Update]
         /\ upd'[r].pc = "writeLesson" /\ upd'[r].user = upd[r].user
         /\ upd'[r].lesson = upd[r].lesson /\ upd'[r].row = upd[r].row
         /\ upd'[r].input = upd[r].input
         /\ upd'[r].completes = ResolvesToCompleted(upd[r].input,
                                  upd[r].lesson \in lessonDone[upd[r].user])
         /\ \A q \in Updates \ {r} : upd'[q] = upd[q]
  <1> DEFINE b == ResolvesToCompleted(upd[r].input,
                    upd[r].lesson \in lessonDone[upd[r].user])
             v == [upd[r] EXCEPT !.pc = "writeLesson", !.completes = b]
  <1>1. b \in BOOLEAN
    <2>1. CASE upd[r].input = "absent"
      <3>1. b = (upd[r].lesson \in lessonDone[upd[r].user])
        BY <2>1 DEF ResolvesToCompleted
      <3>2. (upd[r].lesson \in lessonDone[upd[r].user]) \in BOOLEAN
        OBVIOUS
      <3> HIDE DEF b
      <3>3. QED
        BY <3>1, <3>2
    <2>2. CASE upd[r].input # "absent"
      BY <2>2, Zenon DEF ResolvesToCompleted
    <2>3. QED
      BY <2>1, <2>2
  <1>2. upd[r] \in Update
    BY DEF LearningTypeOK
  <1>3. upd' = [upd EXCEPT ![r] = v]
    BY DEF UpdateReadsLesson
  <1> HIDE DEF b
  <1>4. /\ v \in Update /\ v.pc = "writeLesson" /\ v.user = upd[r].user
        /\ v.lesson = upd[r].lesson /\ v.row = upd[r].row
        /\ v.input = upd[r].input /\ v.completes = b
    BY <1>1, <1>2 DEF Update, UpdateSteps
  <1> HIDE DEF v
  <1>5. QED
    BY <1>3, <1>4, UpdateGiven DEF b

LEMMA LessonWritten ==
  ASSUME LearningTypeOK, NEW r \in Updates, upd[r].user \in Users,
         upd' = [upd EXCEPT ![r] =
                   [IdleUpdate EXCEPT !.pc = "reads", !.user = upd[r].user]]
  PROVE  /\ upd' \in [Updates -> Update]
         /\ upd'[r].pc = "reads" /\ upd'[r].user = upd[r].user
         /\ upd'[r].pending = Reads /\ upd'[r].row = NoRow
         /\ \A q \in Updates \ {r} : upd'[q] = upd[q]
  <1> DEFINE u == upd[r].user
             v == [IdleUpdate EXCEPT !.pc = "reads", !.user = u]
  <1>1. u \in Users
    OBVIOUS
  <1> HIDE DEF u
  <1>2. v \in Update /\ v.pc = "reads" /\ v.user = u /\ v.pending = Reads
        /\ v.row = NoRow
    <2>1. IdleUpdate \in Update /\ IdleUpdate.row = NoRow
          /\ IdleUpdate.pending = Reads
      BY IdleUpdateTyped DEF IdleUpdate
    <2>2. QED
      BY <1>1, <2>1 DEF Update, UpdateSteps
  <1>3. upd' = [upd EXCEPT ![r] = v]
    BY DEF u
  <1> HIDE DEF v
  <1>4. QED
    BY <1>2, <1>3, UpdateGiven DEF u

\* A read that leaves nothing pending leads to the write.
LEMMA AfterReadIs ==
  ASSUME LearningTypeOK, NEW r \in Updates, NEW what \in Reads
  PROVE  /\ AfterRead(r, what) \in {"reads", "writeProgress"}
         /\ AfterRead(r, what) = "writeProgress" => upd[r].pending \ {what} = {}
  BY DEF AfterRead

LEMMA CountRead ==
  ASSUME LearningTypeOK, NEW r \in Updates, upd[r].user \in Users,
         RecalculateReadsCount(r)
  PROVE  /\ upd' \in [Updates -> Update]
         /\ upd'[r].pc \in {"reads", "writeProgress"}
         /\ upd'[r].user = upd[r].user
         /\ upd'[r].pending = upd[r].pending \ {"count"}
         /\ upd'[r].pc = "writeProgress" => upd'[r].pending = {}
         /\ upd'[r].count = Cardinality(lessonDone[upd[r].user])
         /\ upd'[r].row = upd[r].row
         /\ \A q \in Updates \ {r} : upd'[q] = upd[q]
  <1> DEFINE n == Cardinality(lessonDone[upd[r].user])
             p == AfterRead(r, "count")
             w == upd[r].pending \ {"count"}
             v == [upd[r] EXCEPT !.pc = p, !.pending = w, !.count = n]
  <1>1. /\ n \in Nat /\ p \in {"reads", "writeProgress"}
        /\ p = "writeProgress" => w = {}
    BY LessonsCounted, AfterReadIs DEF Reads
  <1>2. upd[r] \in Update /\ w \in SUBSET Reads
    BY DEF LearningTypeOK, Update
  <1>3. upd' = [upd EXCEPT ![r] = v]
    BY DEF RecalculateReadsCount
  <1> HIDE DEF n, p, w
  <1>4. /\ v \in Update /\ v.pc = p /\ v.user = upd[r].user /\ v.pending = w
        /\ v.count = n /\ v.row = upd[r].row
    BY <1>1, <1>2 DEF Update, UpdateSteps
  <1> HIDE DEF v
  <1>5. QED
    BY <1>1, <1>3, <1>4, UpdateGiven DEF n, w

LEMMA RowRead ==
  ASSUME LearningTypeOK, NEW r \in Updates, upd[r].user \in Users,
         RecalculateReadsRow(r)
  PROVE  /\ upd' \in [Updates -> Update]
         /\ upd'[r].pc \in {"reads", "writeProgress"}
         /\ upd'[r].user = upd[r].user
         /\ upd'[r].pending = upd[r].pending \ {"row"}
         /\ upd'[r].pc = "writeProgress" => upd'[r].pending = {}
         /\ upd'[r].count = upd[r].count
         /\ upd'[r].row = courseProgress[upd[r].user]
         /\ \A q \in Updates \ {r} : upd'[q] = upd[q]
  <1> DEFINE n == courseProgress[upd[r].user]
             p == AfterRead(r, "row")
             w == upd[r].pending \ {"row"}
             v == [upd[r] EXCEPT !.pc = p, !.pending = w, !.row = n]
  <1>1. /\ n \in ProgressRow /\ p \in {"reads", "writeProgress"}
        /\ p = "writeProgress" => w = {}
    BY AfterReadIs DEF Reads, LearningTypeOK, TypeOK
  <1>2. upd[r] \in Update /\ w \in SUBSET Reads
    BY DEF LearningTypeOK, Update
  <1>3. upd' = [upd EXCEPT ![r] = v]
    BY DEF RecalculateReadsRow
  <1> HIDE DEF n, p, w
  <1>4. /\ v \in Update /\ v.pc = p /\ v.user = upd[r].user /\ v.pending = w
        /\ v.count = upd[r].count /\ v.row = n
    BY <1>1, <1>2 DEF Update, UpdateSteps
  <1> HIDE DEF v
  <1>5. QED
    BY <1>1, <1>3, <1>4, UpdateGiven DEF n, w

LEMMA RowStored ==
  ASSUME LearningTypeOK, NEW r \in Updates,
         upd' = [upd EXCEPT ![r].pc = "announce"]
  PROVE  /\ upd' \in [Updates -> Update]
         /\ upd'[r].pc = "announce" /\ upd'[r].user = upd[r].user
         /\ upd'[r].pending = upd[r].pending /\ upd'[r].count = upd[r].count
         /\ upd'[r].row = upd[r].row
         /\ \A q \in Updates \ {r} : upd'[q] = upd[q]
  BY DEF LearningTypeOK, Update, UpdateSteps

-------------------------------------------------------------------------------
(* What Enrollment's steps do to the rows that both components write.      *)

LEMMA EnrollmentKeepsRows ==
  ASSUME TypeOK, MissingRowsBlank, [Next]_vars
  PROVE  \A u \in Users :
           /\ courseProgress'[u].completed = courseProgress[u].completed
           /\ courseProgress'[u].isCompleted = courseProgress[u].isCompleted
           /\ courseProgress[u].exists => courseProgress'[u].exists
           /\ ~courseProgress'[u].exists => courseProgress'[u] = NoRow
           /\ courseProgress[u].exists
                /\ courseProgress'[u].total # courseProgress[u].total =>
                  \E r \in Requests : At(r, "upsertProgress") /\ req[r].user = u
  <1>1. CASE UNCHANGED courseProgress
    BY <1>1 DEF MissingRowsBlank
  <1>2. ASSUME NEW r \in Requests, EnrollUpsertsProgress(r), NEW u \in Users
        PROVE  /\ courseProgress'[u].completed = courseProgress[u].completed
               /\ courseProgress'[u].isCompleted = courseProgress[u].isCompleted
               /\ courseProgress[u].exists => courseProgress'[u].exists
               /\ ~courseProgress'[u].exists => courseProgress'[u] = NoRow
               /\ courseProgress[u].exists
                    /\ courseProgress'[u].total # courseProgress[u].total =>
                      \E q \in Requests : At(q, "upsertProgress") /\ req[q].user = u
    <2>1. CASE u # req[r].user
      BY <1>2, <2>1 DEF EnrollUpsertsProgress, TypeOK, MissingRowsBlank
    <2>2. CASE u = req[r].user
      <3> DEFINE row == courseProgress[u]
                 n == req[r].total
      <3>1. row \in ProgressRow /\ (row.exists \/ row = NoRow)
        BY DEF TypeOK, MissingRowsBlank
      <3>2. courseProgress'[u] = UpsertTotal(row, n)
        BY <1>2, <2>2 DEF EnrollUpsertsProgress, TypeOK
      <3>3. At(r, "upsertProgress")
        BY <1>2 DEF EnrollUpsertsProgress
      <3> HIDE DEF row, n
      <3>4. /\ UpsertTotal(row, n).completed = row.completed
            /\ UpsertTotal(row, n).isCompleted = row.isCompleted
            /\ UpsertTotal(row, n).exists
        BY <3>1 DEF UpsertTotal, NoRow, ProgressRow
      <3>5. QED
        BY <2>2, <3>2, <3>3, <3>4 DEF row
    <2>3. QED
      BY <2>1, <2>2
  <1>3. UNCHANGED courseProgress \/ \E r \in Requests : EnrollUpsertsProgress(r)
    BY DEF Next, RequestStep, EnrollFindsCourse, CancelFindsRow, EnrollFindsRow,
       EnrollWritesRow, EnrollCountsLessons, EnrollNotifies, CancelWritesRow,
       RecalculateCounts, RecalculateWrites, RequestDies, CourseStep, SetPublished,
       CreateLesson, DeleteLesson, vars, rowVars
  <1>4. QED
    BY <1>1, <1>2, <1>3

LEMMA EnrollmentStepIsNext == EnrollmentStep => Next /\ UNCHANGED lessons
  <1>1. EnrollmentStep => Next
    BY DEF EnrollmentStep, Next, CourseStep
  <1>2. EnrollmentStep => UNCHANGED lessons
    BY DEF EnrollmentStep, RequestStep, EnrollFindsCourse, CancelFindsRow,
       EnrollFindsRow, EnrollWritesRow, EnrollCountsLessons, EnrollUpsertsProgress,
       EnrollNotifies, CancelWritesRow, RecalculateCounts, RecalculateWrites,
       RequestDies, SetPublished, courseVars
  <1>3. QED
    BY <1>1, <1>2

\* The one statement of a progress update that writes a CourseProgress row.
LEMMA StoredRow ==
  ASSUME LearningTypeOK, UpdatesAimed, NEW r \in Updates, RecalculateWritesRow(r)
  PROVE  /\ upd[r].user \in Users /\ upd[r].count \in Nat
         /\ courseProgress' \in [Users -> ProgressRow]
         /\ \A u \in Users \ {upd[r].user} : courseProgress'[u] = courseProgress[u]
         /\ \/ courseProgress' = courseProgress
            \/ /\ courseProgress'[upd[r].user] =
                    StoreProgress(courseProgress[upd[r].user], upd[r].count,
                                  TotalUsed(upd[r].row, upd[r].count))
               /\ courseProgress'[upd[r].user].exists
  <1> DEFINE u == upd[r].user
             n == upd[r].count
             old == courseProgress[u]
             total == TotalUsed(upd[r].row, n)
             new == StoreProgress(old, n, total)
  <1>1. u \in Users
    BY DEF RecalculateWritesRow, AtUpdate, UpdatesAimed
  <1>2. upd[r] \in Update /\ courseProgress \in [Users -> ProgressRow]
    BY DEF LearningTypeOK, TypeOK
  <1>3. n \in Nat /\ old \in ProgressRow /\ total \in Nat
    BY <1>1, <1>2 DEF Update, TotalUsed, ProgressRow
  <1>4. new \in ProgressRow /\ new.exists
    <2> HIDE DEF u, n, old, total
    <2>1. IsCompleted(n, total) \in BOOLEAN
      BY DEF IsCompleted
    <2>2. QED
      BY <1>3, <2>1 DEF StoreProgress, ProgressRow
  <1>5. courseProgress' = courseProgress \/ courseProgress' = [courseProgress EXCEPT ![u] = new]
    BY DEF RecalculateWritesRow
  <1> HIDE DEF new
  <1>6. /\ courseProgress' \in [Users -> ProgressRow]
        /\ \A v \in Users \ {u} : courseProgress'[v] = courseProgress[v]
        /\ courseProgress' = courseProgress \/ courseProgress'[u] = new
    BY <1>1, <1>2, <1>4, <1>5
  <1>7. QED
    BY <1>1, <1>3, <1>4, <1>6 DEF new

-------------------------------------------------------------------------------
(* Type correctness.                                                       *)

LEMMA InitLearningShape == LearningInit => LearningShape
  <1> SUFFICES ASSUME LearningInit PROVE LearningShape
    OBVIOUS
  <1>1. TypeOK
    BY InitInv DEF LearningInit, Inv
  <1>2. upd \in [Updates -> Update] /\ \A r \in Updates : upd[r].pc = "idle"
    BY IdleUpdateTyped DEF LearningInit
  <1>3. LearningTypeOK
    BY <1>1, <1>2 DEF LearningInit, LearningTypeOK
  <1>4. UpdatesAimed
    BY <1>2 DEF UpdatesAimed
  <1>5. MissingRowsBlank
    BY DEF LearningInit, Init, MissingRowsBlank
  <1>6. QED
    BY <1>3, <1>4, <1>5 DEF LearningShape

\* Steps of an update that touch no variable of Enrollment.
LEMMA UpdateKeepsShape ==
  ASSUME LearningShape, UNCHANGED vars, upd' \in [Updates -> Update],
         lessonDone' \in [Users -> SUBSET lessons], congratulated' \subseteq Users,
         rewritten' \subseteq Updates, outdated' \subseteq Updates,
         progressDrifted' \subseteq Users, silenced' \subseteq Users,
         UpdatesAimed'
  PROVE  LearningShape'
  <1>1. lessons' = lessons /\ courseProgress' = courseProgress
    BY DEF vars, courseVars, rowVars
  <1>2. TypeOK'
    BY DEF LearningShape, LearningTypeOK, TypeOK, vars, courseVars, rowVars, history, At
  <1>3. LearningTypeOK'
    BY <1>1, <1>2 DEF LearningTypeOK
  <1>4. MissingRowsBlank'
    BY <1>1 DEF LearningShape, MissingRowsBlank
  <1>5. QED
    BY <1>3, <1>4 DEF LearningShape

LEMMA StepLearningShape == LearningShape /\ [LearningNext]_learningVars => LearningShape'
  <1> SUFFICES ASSUME LearningShape, [LearningNext]_learningVars PROVE LearningShape'
    OBVIOUS
  <1>t. /\ LearningTypeOK /\ UpdatesAimed /\ MissingRowsBlank /\ TypeOK
        /\ upd \in [Updates -> Update] /\ lessonDone \in [Users -> SUBSET lessons]
        /\ congratulated \subseteq Users /\ rewritten \subseteq Updates
        /\ outdated \subseteq Updates /\ progressDrifted \subseteq Users
        /\ silenced \subseteq Users
    BY DEF LearningShape, LearningTypeOK
  <1>i. IdleUpdate.pc = "idle"
    BY IdleUpdateTyped
  <1>1. CASE EnrollmentStep /\ UNCHANGED updateVars
    <2>1. TypeOK' /\ lessons' = lessons
      BY <1>1, <1>t, EnrollmentStepIsNext, StepTypeOK
    <2>2. MissingRowsBlank'
      BY <1>1, <1>t, EnrollmentStepIsNext, EnrollmentKeepsRows DEF MissingRowsBlank
    <2>3. QED
      BY <1>1, <1>t, <2>1, <2>2 DEF updateVars, LearningShape, LearningTypeOK, UpdatesAimed
  <1>2. ASSUME NEW r \in Updates, NEW u \in Users, NEW l \in Lessons, NEW i \in Inputs,
               UpdateFindsLesson(r, u, l, i), UNCHANGED vars
        PROVE  LearningShape'
    <2>1. /\ upd' \in [Updates -> Update]
          /\ upd'[r].pc \in {"access", "readLesson"} /\ upd'[r].user = u
          /\ upd'[r].lesson = l
          /\ \A q \in Updates \ {r} : upd'[q] = upd[q]
      BY <1>2, <1>t, UpdateStarts
    <2>2. UpdatesAimed'
      BY <2>1, <1>t DEF UpdatesAimed
    <2>3. QED
      BY <1>2, <1>t, <2>1, <2>2, UpdateKeepsShape DEF UpdateFindsLesson
  <1>3. ASSUME NEW r \in Updates, UpdateChecksAccess(r), UNCHANGED vars
        PROVE  LearningShape'
    <2>1. CASE Finish(r)
      <3>1. /\ upd' \in [Updates -> Update] /\ upd'[r].pc = "idle"
            /\ \A q \in Updates \ {r} : upd'[q] = upd[q]
        BY <2>1, <1>t, <1>i, UpdateFinishes
      <3>2. UpdatesAimed'
        BY <3>1, <1>t DEF UpdatesAimed
      <3>3. QED
        BY <1>3, <1>t, <3>1, <3>2, UpdateKeepsShape DEF UpdateChecksAccess
    <2>2. CASE upd' = [upd EXCEPT ![r].pc = "readLesson"]
      <3>1. /\ upd' \in [Updates -> Update] /\ upd'[r].pc = "readLesson"
            /\ upd'[r].user = upd[r].user /\ upd'[r].lesson = upd[r].lesson
            /\ \A q \in Updates \ {r} : upd'[q] = upd[q]
        BY <2>2, <1>t, AccessGranted
      <3>2. UpdatesAimed'
        BY <1>3, <3>1, <1>t DEF UpdatesAimed, UpdateChecksAccess, AtUpdate
      <3>3. QED
        BY <1>3, <1>t, <3>1, <3>2, UpdateKeepsShape DEF UpdateChecksAccess
    <2>3. QED
      BY <1>3, <2>1, <2>2 DEF UpdateChecksAccess
  <1>4. ASSUME NEW r \in Updates, UpdateReadsLesson(r), UNCHANGED vars
        PROVE  LearningShape'
    <2>1. /\ upd' \in [Updates -> Update] /\ upd'[r].pc = "writeLesson"
          /\ upd'[r].user = upd[r].user /\ upd'[r].lesson = upd[r].lesson
          /\ \A q \in Updates \ {r} : upd'[q] = upd[q]
      BY <1>4, <1>t, LessonRead
    <2>2. UpdatesAimed'
      BY <1>4, <2>1, <1>t DEF UpdatesAimed, UpdateReadsLesson, AtUpdate
    <2>3. QED
      BY <1>4, <1>t, <2>1, <2>2, UpdateKeepsShape DEF UpdateReadsLesson
  <1>5. ASSUME NEW r \in Updates, UpdateWritesLesson(r), UNCHANGED vars
        PROVE  LearningShape'
    <2>0. upd[r].user \in Users /\ AtUpdate(r, "writeLesson")
      BY <1>5, <1>t DEF UpdateWritesLesson, AtUpdate, UpdatesAimed
    <2>1. CASE Finish(r) /\ rewritten' = rewritten \ {r}
                 /\ UNCHANGED <<lessonDone, outdated>>
      <3>1. /\ upd' \in [Updates -> Update] /\ upd'[r].pc = "idle"
            /\ \A q \in Updates \ {r} : upd'[q] = upd[q]
        BY <2>1, <1>t, <1>i, UpdateFinishes
      <3>2. UpdatesAimed'
        BY <3>1, <1>t DEF UpdatesAimed
      <3>3. QED
        BY <1>5, <1>t, <2>1, <3>1, <3>2, UpdateKeepsShape DEF UpdateWritesLesson
    <2>2. CASE ~(Finish(r) /\ rewritten' = rewritten \ {r}
                   /\ UNCHANGED <<lessonDone, outdated>>)
      <3>1. /\ upd' \in [Updates -> Update] /\ upd'[r].pc = "reads"
            /\ upd'[r].user = upd[r].user
            /\ \A q \in Updates \ {r} : upd'[q] = upd[q]
        BY <1>5, <2>0, <2>2, <1>t, LessonWritten DEF UpdateWritesLesson
      <3>2. UpdatesAimed'
        BY <2>0, <3>1, <1>t DEF UpdatesAimed
      <3>3. lessonDone' \in [Users -> SUBSET lessons]
        BY <1>5, <2>0, <2>2, <1>t DEF UpdateWritesLesson
      <3>4. rewritten' \subseteq Updates /\ outdated' \subseteq Updates
        BY <1>5, <2>2, <1>t DEF UpdateWritesLesson, Counted
      <3>5. QED
        BY <1>5, <1>t, <3>1, <3>2, <3>3, <3>4, UpdateKeepsShape DEF UpdateWritesLesson
    <2>3. QED
      BY <2>1, <2>2
  <1>6. ASSUME NEW r \in Updates, RecalculateReadsCount(r), UNCHANGED vars
        PROVE  LearningShape'
    <2>0. upd[r].user \in Users
      BY <1>6, <1>t DEF RecalculateReadsCount, AtUpdate, UpdatesAimed
    <2>1. /\ upd' \in [Updates -> Update]
          /\ upd'[r].pc \in {"reads", "writeProgress"}
          /\ upd'[r].user = upd[r].user
          /\ upd'[r].pc = "writeProgress" => upd'[r].pending = {}
          /\ \A q \in Updates \ {r} : upd'[q] = upd[q]
      BY <1>6, <2>0, <1>t, CountRead
    <2>2. UpdatesAimed'
      BY <2>0, <2>1, <1>t DEF UpdatesAimed
    <2>3. QED
      BY <1>6, <1>t, <2>1, <2>2, UpdateKeepsShape DEF RecalculateReadsCount
  <1>7. ASSUME NEW r \in Updates, RecalculateReadsRow(r), UNCHANGED vars
        PROVE  LearningShape'
    <2>0. upd[r].user \in Users
      BY <1>7, <1>t DEF RecalculateReadsRow, AtUpdate, UpdatesAimed
    <2>1. /\ upd' \in [Updates -> Update]
          /\ upd'[r].pc \in {"reads", "writeProgress"}
          /\ upd'[r].user = upd[r].user
          /\ upd'[r].pc = "writeProgress" => upd'[r].pending = {}
          /\ \A q \in Updates \ {r} : upd'[q] = upd[q]
      BY <1>7, <2>0, <1>t, RowRead
    <2>2. UpdatesAimed'
      BY <2>0, <2>1, <1>t DEF UpdatesAimed
    <2>3. QED
      BY <1>7, <1>t, <2>1, <2>2, UpdateKeepsShape DEF RecalculateReadsRow
  <1>8. ASSUME NEW r \in Updates, RecalculateAnnounces(r), UNCHANGED vars
        PROVE  LearningShape'
    <2>1. /\ upd' \in [Updates -> Update] /\ upd'[r].pc = "idle"
          /\ \A q \in Updates \ {r} : upd'[q] = upd[q]
      BY <1>8, <1>t, <1>i, UpdateFinishes DEF RecalculateAnnounces
    <2>2. UpdatesAimed'
      BY <2>1, <1>t DEF UpdatesAimed
    <2>3. upd[r].user \in Users
      BY <1>8, <1>t DEF RecalculateAnnounces, AtUpdate, UpdatesAimed
    <2>4. QED
      BY <1>8, <1>t, <2>1, <2>2, <2>3, UpdateKeepsShape DEF RecalculateAnnounces
  <1>9. ASSUME NEW r \in Updates, UpdateDies(r), UNCHANGED vars
        PROVE  LearningShape'
    <2>1. /\ upd' \in [Updates -> Update] /\ upd'[r].pc = "idle"
          /\ \A q \in Updates \ {r} : upd'[q] = upd[q]
      BY <1>9, <1>t, <1>i, UpdateFinishes DEF UpdateDies
    <2>2. UpdatesAimed'
      BY <2>1, <1>t DEF UpdatesAimed
    <2>3. QED
      BY <1>9, <1>t, <2>1, <2>2, UpdateKeepsShape DEF UpdateDies
  <1>10. ASSUME NEW r \in Updates, RecalculateWritesRow(r),
                UNCHANGED <<courseVars, enrollment, enrollmentCount, req, history>>
         PROVE  LearningShape'
    <2>1. /\ upd[r].user \in Users
          /\ courseProgress' \in [Users -> ProgressRow]
          /\ \A u \in Users \ {upd[r].user} : courseProgress'[u] = courseProgress[u]
          /\ courseProgress' = courseProgress \/ courseProgress'[upd[r].user].exists
      BY <1>10, <1>t, StoredRow
    <2>2. TypeOK'
      BY <1>10, <1>t, <2>1 DEF TypeOK, courseVars, history, At
    <2>3. MissingRowsBlank'
      BY <2>1, <1>t DEF MissingRowsBlank
    <2>4. upd' \in [Updates -> Update] /\ UpdatesAimed'
      <3>1. CASE Finish(r)
        <4>1. /\ upd' \in [Updates -> Update] /\ upd'[r].pc = "idle"
              /\ \A q \in Updates \ {r} : upd'[q] = upd[q]
          BY <3>1, <1>t, <1>i, UpdateFinishes
        <4>2. QED
          BY <4>1, <1>t DEF UpdatesAimed
      <3>2. CASE upd' = [upd EXCEPT ![r].pc = "announce"]
        <4>1. /\ upd' \in [Updates -> Update] /\ upd'[r].pc = "announce"
              /\ upd'[r].user = upd[r].user /\ upd'[r].pending = upd[r].pending
              /\ \A q \in Updates \ {r} : upd'[q] = upd[q]
          BY <3>2, <1>t, RowStored
        <4>2. upd[r].pending = {}
          BY <1>10, <1>t DEF RecalculateWritesRow, AtUpdate, UpdatesAimed
        <4>3. QED
          BY <2>1, <4>1, <4>2, <1>t DEF UpdatesAimed
      <3>3. QED
        BY <1>10, <3>1, <3>2 DEF RecalculateWritesRow
    <2>5. /\ lessonDone' = lessonDone /\ lessons' = lessons
          /\ UNCHANGED <<congratulated, rewritten, silenced>>
      BY <1>10 DEF RecalculateWritesRow, courseVars
    <2>6. outdated' \subseteq Updates /\ progressDrifted' \subseteq Users
      BY <1>10, <1>t, <2>1 DEF RecalculateWritesRow
    <2>7. QED
      BY <1>t, <2>2, <2>3, <2>4, <2>5, <2>6 DEF LearningShape, LearningTypeOK
  <1>11. ASSUME NEW l \in Lessons, CreateFreshLesson(l) PROVE LearningShape'
    <2>1. Next /\ UNCHANGED <<updateVars, courseProgress>>
          /\ lessons' = lessons \cup {l}
      BY <1>11 DEF CreateFreshLesson, CreateLesson, Next, CourseStep, rowVars
    <2>2. TypeOK'
      BY <1>t, <2>1, StepTypeOK
    <2>3. MissingRowsBlank' /\ UpdatesAimed'
      BY <1>t, <2>1 DEF MissingRowsBlank, UpdatesAimed, updateVars
    <2>4. lessonDone' \in [Users -> SUBSET lessons']
      BY <1>t, <2>1 DEF updateVars
    <2>5. QED
      BY <1>t, <2>1, <2>2, <2>3, <2>4 DEF LearningShape, LearningTypeOK, updateVars
  <1>12. ASSUME NEW l \in Lessons, DeleteLessonCascade(l) PROVE LearningShape'
    <2>1. Next /\ UNCHANGED <<upd, congratulated, silenced, courseProgress>>
          /\ lessons' = lessons \ {l}
      BY <1>12 DEF DeleteLessonCascade, DeleteLesson, Next, CourseStep, rowVars
    <2>2. TypeOK'
      BY <1>t, <2>1, StepTypeOK
    <2>3. MissingRowsBlank' /\ UpdatesAimed'
      BY <1>t, <2>1 DEF MissingRowsBlank, UpdatesAimed
    <2>4. lessonDone' \in [Users -> SUBSET lessons']
      BY <1>12, <1>t, <2>1 DEF DeleteLessonCascade, DoneWithout
    <2>5. /\ outdated' \subseteq Updates /\ progressDrifted' \subseteq Users
          /\ rewritten' \subseteq Updates
      BY <1>12, <1>t DEF DeleteLessonCascade, Counted
    <2>6. QED
      BY <1>t, <2>1, <2>2, <2>3, <2>4, <2>5 DEF LearningShape, LearningTypeOK
  <1>13. CASE UNCHANGED learningVars
    BY <1>13, <1>t, UpdateKeepsShape DEF learningVars, updateVars, UpdatesAimed
  <1>14. QED
    BY <1>1, <1>2, <1>3, <1>4, <1>5, <1>6, <1>7, <1>8, <1>9, <1>10, <1>11,
       <1>12, <1>13 DEF LearningNext, UpdateStep

LEMMA LearningShapeAlways == LearningSpec => []LearningShape
  BY InitLearningShape, StepLearningShape, PTL DEF LearningSpec

(* Rows, updates and the lessons a learner has completed keep their types: *)
(* a completed lesson is a lesson the course still has.                    *)
THEOREM LearningTypeCorrect == LearningSpec => []LearningTypeOK
  <1>1. LearningShape => LearningTypeOK
    BY DEF LearningShape
  <1>2. QED
    BY <1>1, LearningShapeAlways, PTL

-------------------------------------------------------------------------------
(* The read-then-upsert of a lesson's row.                                 *)

\* An update that a step leaves alone: its lesson's row changed only if the
\* step counted it among the rewritten.
LEMMA ReadHoldsOn ==
  ASSUME ReadStillHolds, NEW q \in Updates, upd'[q] = upd[q],
         q \notin rewritten' => q \notin rewritten,
         (AtUpdate(q, "writeLesson") /\ q \notin rewritten') =>
           (upd[q].lesson \in lessonDone'[upd[q].user]
              <=> upd[q].lesson \in lessonDone[upd[q].user])
  PROVE  WritesWhatItRead(q)'
  BY DEF ReadStillHolds, WritesWhatItRead, AtUpdate

LEMMA StepReadStillHolds ==
  LearningShape /\ ReadStillHolds /\ [LearningNext]_learningVars => ReadStillHolds'
  <1> SUFFICES ASSUME LearningShape, ReadStillHolds, [LearningNext]_learningVars,
                      NEW q \in Updates
               PROVE  WritesWhatItRead(q)'
    BY DEF ReadStillHolds
  <1>t. LearningTypeOK /\ UpdatesAimed
    BY DEF LearningShape
  <1>a. AtUpdate(q, "writeLesson") => upd[q].user \in Users
    BY <1>t DEF UpdatesAimed, AtUpdate
  <1>i. IdleUpdate.pc = "idle"
    BY IdleUpdateTyped
  <1>1. CASE UNCHANGED updateVars
    BY <1>1, ReadHoldsOn DEF WritesWhatItRead, AtUpdate, updateVars
  <1>2. ASSUME NEW r \in Updates, NEW u \in Users, NEW l \in Lessons, NEW i \in Inputs,
               UpdateFindsLesson(r, u, l, i)
        PROVE  WritesWhatItRead(q)'
    BY <1>2, <1>t, UpdateStarts, ReadHoldsOn DEF WritesWhatItRead, AtUpdate, UpdateFindsLesson
  <1>3. ASSUME NEW r \in Updates, UpdateChecksAccess(r)
        PROVE  WritesWhatItRead(q)'
    <2>1. upd'[r].pc \in {"idle", "readLesson"}
          /\ \A p \in Updates \ {r} : upd'[p] = upd[p]
      BY <1>3, <1>t, <1>i, UpdateFinishes, AccessGranted DEF UpdateChecksAccess
    <2>2. QED
      BY <1>3, <2>1, ReadHoldsOn DEF WritesWhatItRead, AtUpdate, UpdateChecksAccess
  <1>4. ASSUME NEW r \in Updates, UpdateReadsLesson(r)
        PROVE  WritesWhatItRead(q)'
    <2>1. CASE q # r
      BY <1>4, <1>t, <2>1, LessonRead, ReadHoldsOn DEF WritesWhatItRead, AtUpdate, UpdateReadsLesson
    <2>2. CASE q = r
      <3>1. lessonDone' = lessonDone
        BY <1>4 DEF UpdateReadsLesson
      <3>2. /\ upd'[r].user = upd[r].user /\ upd'[r].lesson = upd[r].lesson
            /\ upd'[r].input = upd[r].input
            /\ upd'[r].completes = ResolvesToCompleted(upd[r].input,
                                     upd[r].lesson \in lessonDone[upd[r].user])
        BY <1>4, <1>t, LessonRead
      <3>3. upd[r].input = "absent" =>
              upd'[r].completes = (upd[r].lesson \in lessonDone[upd[r].user])
        BY <3>2 DEF ResolvesToCompleted
      <3>4. QED
        BY <2>2, <3>1, <3>2, <3>3 DEF WritesWhatItRead
    <2>3. QED
      BY <2>1, <2>2
  <1>5. ASSUME NEW r \in Updates, UpdateWritesLesson(r)
        PROVE  WritesWhatItRead(q)'
    <2> DEFINE u == upd[r].user
               l == upd[r].lesson
    <2>0. u \in Users /\ AtUpdate(r, "writeLesson")
      BY <1>5, <1>t DEF UpdateWritesLesson, AtUpdate, UpdatesAimed
    <2>1. CASE Finish(r) /\ rewritten' = rewritten \ {r} /\ lessonDone' = lessonDone
      <3>1. upd'[r].pc = "idle" /\ \A p \in Updates \ {r} : upd'[p] = upd[p]
        BY <2>1, <1>t, <1>i, UpdateFinishes
      <3>2. QED
        BY <2>1, <3>1, ReadHoldsOn DEF WritesWhatItRead, AtUpdate
    <2>2. CASE ~(Finish(r) /\ rewritten' = rewritten \ {r} /\ lessonDone' = lessonDone)
      <3>1. upd'[r].pc = "reads" /\ \A p \in Updates \ {r} : upd'[p] = upd[p]
        BY <1>5, <2>0, <2>2, <1>t, LessonWritten DEF UpdateWritesLesson
      <3>2. rewritten' = (rewritten \ {r}) \cup
              {p \in Updates \ {r} : AtUpdate(p, "writeLesson")
                                       /\ upd[p].user = u /\ upd[p].lesson = l}
        BY <1>5, <2>2 DEF UpdateWritesLesson
      <3>3. \A v \in Users : \A m :
              (v # u \/ m # l) => (m \in lessonDone'[v] <=> m \in lessonDone[v])
        <4>1. \/ lessonDone' = [lessonDone EXCEPT ![u] = lessonDone[u] \cup {l}]
              \/ lessonDone' = [lessonDone EXCEPT ![u] = lessonDone[u] \ {l}]
          BY <1>5, <2>2 DEF UpdateWritesLesson
        <4>2. QED
          BY <4>1, <2>0, <1>t DEF LearningTypeOK
      <3>4. QED
        BY <1>a, <3>1, <3>2, <3>3, ReadHoldsOn DEF WritesWhatItRead, AtUpdate
    <2>3. QED
      BY <2>1, <2>2
  <1>6. ASSUME NEW r \in Updates, RecalculateReadsCount(r)
        PROVE  WritesWhatItRead(q)'
    <2>0. upd[r].user \in Users
      BY <1>6, <1>t DEF RecalculateReadsCount, AtUpdate, UpdatesAimed
    <2>1. QED
      BY <1>6, <2>0, <1>t, CountRead, ReadHoldsOn DEF WritesWhatItRead, AtUpdate, RecalculateReadsCount
  <1>7. ASSUME NEW r \in Updates, RecalculateReadsRow(r)
        PROVE  WritesWhatItRead(q)'
    <2>0. upd[r].user \in Users
      BY <1>7, <1>t DEF RecalculateReadsRow, AtUpdate, UpdatesAimed
    <2>1. QED
      BY <1>7, <2>0, <1>t, RowRead, ReadHoldsOn DEF WritesWhatItRead, AtUpdate, RecalculateReadsRow
  <1>8. ASSUME NEW r \in Updates, RecalculateWritesRow(r)
        PROVE  WritesWhatItRead(q)'
    <2>1. upd'[r].pc \in {"idle", "announce"}
          /\ \A p \in Updates \ {r} : upd'[p] = upd[p]
      BY <1>8, <1>t, <1>i, UpdateFinishes, RowStored DEF RecalculateWritesRow
    <2>2. QED
      BY <1>8, <2>1, ReadHoldsOn DEF WritesWhatItRead, AtUpdate, RecalculateWritesRow
  <1>9. ASSUME NEW r \in Updates, RecalculateAnnounces(r)
        PROVE  WritesWhatItRead(q)'
    BY <1>9, <1>t, <1>i, UpdateFinishes, ReadHoldsOn DEF WritesWhatItRead, AtUpdate, RecalculateAnnounces
  <1>10. ASSUME NEW r \in Updates, UpdateDies(r)
        PROVE  WritesWhatItRead(q)'
    <2>1. upd'[r].pc = "idle" /\ \A p \in Updates \ {r} : upd'[p] = upd[p]
      BY <1>10, <1>t, <1>i, UpdateFinishes DEF UpdateDies
    <2>2. QED
      BY <1>10, <2>1, ReadHoldsOn DEF WritesWhatItRead, AtUpdate, UpdateDies
  <1>11. ASSUME NEW l \in Lessons, DeleteLessonCascade(l)
         PROVE  WritesWhatItRead(q)'
    BY <1>11, <1>a, ReadHoldsOn DEF WritesWhatItRead, AtUpdate, DeleteLessonCascade, DoneWithout
  <1>12. QED
    BY <1>1, <1>2, <1>3, <1>4, <1>5, <1>6, <1>7, <1>8, <1>9, <1>10, <1>11
    DEF LearningNext, UpdateStep, CreateFreshLesson, learningVars

\* A step that moves an update is the arrival of its request, a statement of
\* its own or its death.
LEMMA MovedByItself ==
  ASSUME LearningShape, [LearningNext]_learningVars, NEW q \in Updates,
         upd'[q] # upd[q]
  PROVE  \/ \E u \in Users, l \in Lessons, i \in Inputs :
              UpdateFindsLesson(q, u, l, i) /\ UNCHANGED vars
         \/ UpdateStep(q)
         \/ UpdateDies(q) /\ UNCHANGED vars
  <1>t. LearningTypeOK /\ UpdatesAimed
    BY DEF LearningShape
  <1>1. ASSUME NEW r \in Updates, NEW u \in Users, NEW l \in Lessons, NEW i \in Inputs,
               UpdateFindsLesson(r, u, l, i)
        PROVE  q = r
    BY <1>1, <1>t, UpdateStarts
  <1>2. ASSUME NEW r \in Updates, UpdateStep(r) PROVE q = r
    <2>1. AtUpdate(r, "writeLesson") \/ AtUpdate(r, "reads") => upd[r].user \in Users
      BY <1>t DEF UpdatesAimed, AtUpdate
    <2>2. CASE UpdateChecksAccess(r)
      BY <2>2, <1>t, UpdateFinishes, AccessGranted DEF UpdateChecksAccess
    <2>3. CASE UpdateReadsLesson(r)
      BY <2>3, <1>t, LessonRead
    <2>4. CASE UpdateWritesLesson(r)
      BY <2>1, <2>4, <1>t, UpdateFinishes, LessonWritten DEF UpdateWritesLesson
    <2>5. CASE RecalculateReadsCount(r)
      BY <2>1, <2>5, <1>t, CountRead DEF RecalculateReadsCount
    <2>6. CASE RecalculateReadsRow(r)
      BY <2>1, <2>6, <1>t, RowRead DEF RecalculateReadsRow
    <2>7. CASE RecalculateAnnounces(r)
      BY <2>7, <1>t, UpdateFinishes DEF RecalculateAnnounces
    <2>8. CASE RecalculateWritesRow(r)
      BY <2>8, <1>t, UpdateFinishes, RowStored DEF RecalculateWritesRow
    <2>9. QED
      BY <1>2, <2>2, <2>3, <2>4, <2>5, <2>6, <2>7, <2>8 DEF UpdateStep
  <1>3. ASSUME NEW r \in Updates, UpdateDies(r) PROVE q = r
    BY <1>3, <1>t, UpdateFinishes DEF UpdateDies
  <1>4. CASE UNCHANGED upd
    BY <1>4
  <1>5. QED
    BY <1>1, <1>2, <1>3, <1>4 DEF LearningNext, CreateFreshLesson, DeleteLessonCascade,
       learningVars, updateVars

LEMMA LearningReadStillHolds == LearningSpec => [](LearningShape /\ ReadStillHolds)
  <1>1. LearningInit => LearningShape /\ ReadStillHolds
    <2>1. LearningInit => \A r \in Updates : upd[r].pc = "idle"
      BY IdleUpdateTyped DEF LearningInit
    <2>2. QED
      BY <2>1, InitLearningShape DEF ReadStillHolds, WritesWhatItRead, AtUpdate
  <1>2. QED
    BY <1>1, StepLearningShape, StepReadStillHolds, PTL DEF LearningSpec

(* A progress update without a status (a player saving its position) takes *)
(* a completed lesson back, or completes one, only when another request    *)
(* wrote that lesson between its findLessonProgress and its upsert.        *)
THEOREM SavedPositionAlwaysKeepsCompletion == LearningSpec => SavedPositionKeepsCompletion
  <1>1. ASSUME LearningShape, ReadStillHolds, [LearningNext]_learningVars,
               NEW r \in Updates, AtUpdate(r, "writeLesson"), upd'[r].pc = "reads",
               upd[r].input = "absent", r \notin rewritten
        PROVE  lessonDone'[upd[r].user] = lessonDone[upd[r].user]
    <2>t. /\ LearningTypeOK /\ UpdatesAimed /\ IdleUpdate.pc = "idle"
          /\ lessonDone \in [Users -> SUBSET lessons]
      BY <1>1, IdleUpdateTyped DEF LearningShape, LearningTypeOK
    <2>1. upd'[r] # upd[r]
      BY <1>1 DEF AtUpdate
    <2>2. UpdateWritesLesson(r)
      <3>1. ~UpdateDies(r)
        BY <1>1, <2>t, UpdateFinishes DEF UpdateDies
      <3>2. UpdateStep(r)
        BY <1>1, <2>1, <3>1, MovedByItself DEF UpdateFindsLesson, AtUpdate
      <3>3. QED
        BY <1>1, <3>2 DEF UpdateStep, AtUpdate, UpdateChecksAccess, UpdateReadsLesson,
           RecalculateReadsCount, RecalculateReadsRow, RecalculateAnnounces,
           RecalculateWritesRow
    <2>3. ~Finish(r)
      BY <1>1, <2>t, UpdateFinishes
    <2>4. lessonDone' = [lessonDone EXCEPT ![upd[r].user] =
            IF upd[r].completes THEN lessonDone[upd[r].user] \cup {upd[r].lesson}
                                ELSE lessonDone[upd[r].user] \ {upd[r].lesson}]
      BY <2>2, <2>3 DEF UpdateWritesLesson
    <2>5. upd[r].completes <=> upd[r].lesson \in lessonDone[upd[r].user]
      BY <1>1 DEF ReadStillHolds, WritesWhatItRead
    <2>6. upd[r].user \in Users
      BY <1>1, <2>t DEF UpdatesAimed, AtUpdate
    <2>7. QED
      BY <2>4, <2>5, <2>6, <2>t
  <1>2. LearningShape /\ ReadStillHolds /\ [LearningNext]_learningVars
          => [\A r \in Updates :
               (AtUpdate(r, "writeLesson") /\ upd'[r].pc = "reads"
                  /\ upd[r].input = "absent" /\ r \notin rewritten)
               => lessonDone'[upd[r].user] = lessonDone[upd[r].user]]_learningVars
    BY <1>1
  <1>3. QED
    BY <1>2, LearningReadStillHolds, PTL DEF LearningSpec, SavedPositionKeepsCompletion

-------------------------------------------------------------------------------
(* The CourseProgress row, written by two services.                        *)

LEMMA StepTotal ==
  ASSUME LearningShape, LearningNext, NEW u \in Users, courseProgress[u].exists
  PROVE  /\ courseProgress'[u].exists
         /\ courseProgress'[u].total # courseProgress[u].total =>
              \E r \in Requests : At(r, "upsertProgress") /\ req[r].user = u
  <1>t. LearningTypeOK /\ UpdatesAimed /\ TypeOK /\ MissingRowsBlank
    BY DEF LearningShape, LearningTypeOK
  <1>1. CASE EnrollmentStep
    BY <1>1, <1>t, EnrollmentStepIsNext, EnrollmentKeepsRows
  <1>2. CASE UNCHANGED courseProgress
    BY <1>2
  <1>3. ASSUME NEW r \in Updates, RecalculateWritesRow(r)
        PROVE  courseProgress'[u].exists
                 /\ courseProgress'[u].total = courseProgress[u].total
    <2> DEFINE v == upd[r].user
               old == courseProgress[v]
               n == upd[r].count
               total == TotalUsed(upd[r].row, n)
    <2>1. \/ courseProgress'[u] = courseProgress[u]
          \/ /\ u = v /\ courseProgress'[u].exists
             /\ courseProgress'[u] = StoreProgress(old, n, total)
      BY <1>3, <1>t, StoredRow
    <2> HIDE DEF n, total
    <2>2. old.exists => StoreProgress(old, n, total).total = old.total
      BY DEF StoreProgress
    <2>3. QED
      BY <2>1, <2>2
  <1>4. QED
    BY <1>1, <1>2, <1>3 DEF LearningNext, UpdateStep, CreateFreshLesson,
       DeleteLessonCascade, CreateLesson, DeleteLesson, vars, rowVars

(* The totalLessons a row was created with changes only by an enroll of    *)
(* the same user: neither progress updates nor the curriculum refresh it,  *)
(* and no step of either service removes a row.                            *)
THEOREM TotalAlwaysSetByEnrollOnly == LearningSpec => TotalSetByEnrollOnly
  <1>1. LearningShape /\ [LearningNext]_learningVars =>
          [\A u \in Users :
             courseProgress[u].exists =>
               /\ courseProgress'[u].exists
               /\ courseProgress'[u].total # courseProgress[u].total =>
                    \E r \in Requests : At(r, "upsertProgress") /\ req[r].user = u
          ]_learningVars
    BY StepTotal
  <1>2. QED
    BY <1>1, LearningShapeAlways, PTL DEF LearningSpec, TotalSetByEnrollOnly

-------------------------------------------------------------------------------
(* Each completion is announced by someone.                                *)

LEMMA StepAnnounced ==
  ASSUME LearningShape, [LearningNext]_learningVars, NEW u, Announced(u)
  PROVE  Announced(u)'
  <1>t. LearningTypeOK /\ UpdatesAimed
    BY DEF LearningShape
  <1>1. congratulated \subseteq congratulated'
    BY DEF LearningNext, UpdateFindsLesson, UpdateStep, UpdateChecksAccess,
       UpdateReadsLesson, UpdateWritesLesson, RecalculateReadsCount, RecalculateReadsRow,
       RecalculateAnnounces, RecalculateWritesRow, UpdateDies, CreateFreshLesson,
       DeleteLessonCascade, learningVars, updateVars
  <1>2. silenced \subseteq silenced'
    BY DEF LearningNext, UpdateFindsLesson, UpdateStep, UpdateChecksAccess,
       UpdateReadsLesson, UpdateWritesLesson, RecalculateReadsCount, RecalculateReadsRow,
       RecalculateAnnounces, RecalculateWritesRow, UpdateDies, CreateFreshLesson,
       DeleteLessonCascade, learningVars, updateVars
  <1>3. ASSUME NEW r \in Updates, AtUpdate(r, "announce"), upd[r].user = u
        PROVE  Announced(u)'
    <2>1. CASE upd'[r] = upd[r]
      BY <1>3, <2>1 DEF Announced, AtUpdate
    <2>2. CASE UpdateStep(r)
      <3>1. RecalculateAnnounces(r)
        BY <1>3, <2>2 DEF UpdateStep, AtUpdate, UpdateChecksAccess, UpdateReadsLesson,
           UpdateWritesLesson, RecalculateReadsCount, RecalculateReadsRow,
           RecalculateWritesRow
      <3>2. QED
        BY <1>3, <3>1 DEF RecalculateAnnounces, Announced
    <2>3. CASE UpdateDies(r)
      <3>1. u \in Users
        BY <1>3, <1>t DEF UpdatesAimed, AtUpdate
      <3>2. QED
        BY <1>3, <2>3, <3>1 DEF UpdateDies, Announced
    <2>4. QED
      BY <1>3, <2>1, <2>2, <2>3, MovedByItself DEF UpdateFindsLesson, AtUpdate
  <1>4. QED
    BY <1>1, <1>2, <1>3 DEF Announced

LEMMA StepReadRowsAnnounced ==
  LearningShape /\ ReadRowsAnnounced /\ CompletedRowsAnnounced
    /\ [LearningNext]_learningVars => ReadRowsAnnounced'
  <1> SUFFICES ASSUME LearningShape, ReadRowsAnnounced, CompletedRowsAnnounced,
                      [LearningNext]_learningVars, NEW q \in Updates,
                      NEW v, upd'[q].user = v, upd'[q].row.isCompleted
               PROVE  Announced(v)'
    BY DEF ReadRowsAnnounced, Announced, AtUpdate
  <1>t. LearningTypeOK /\ UpdatesAimed
    BY DEF LearningShape
  <1>i. IdleUpdate.row = NoRow /\ ~NoRow.isCompleted
    BY IdleUpdateTyped
  <1>1. CASE upd[q].row.isCompleted /\ upd'[q].user = upd[q].user
    <2>1. Announced(v)
      BY <1>1 DEF ReadRowsAnnounced
    <2>2. QED
      BY <2>1, StepAnnounced
  <1>2. CASE UpdateStep(q)
    <2>0. AtUpdate(q, "writeLesson") \/ AtUpdate(q, "reads") => upd[q].user \in Users
      BY <1>t DEF UpdatesAimed, AtUpdate
    <2>f. ~Finish(q)
      BY <1>t, <1>i, UpdateFinishes
    <2>1. CASE UpdateChecksAccess(q)
      BY <2>1, <2>f, <1>1, <1>t, AccessGranted DEF UpdateChecksAccess
    <2>2. CASE UpdateReadsLesson(q)
      BY <2>2, <1>1, <1>t, LessonRead
    <2>3. CASE UpdateWritesLesson(q)
      BY <2>0, <2>3, <2>f, <1>i, <1>t, LessonWritten DEF UpdateWritesLesson
    <2>4. CASE RecalculateReadsCount(q)
      BY <2>0, <2>4, <1>1, <1>t, CountRead DEF RecalculateReadsCount
    <2>5. CASE RecalculateReadsRow(q)
      <3>1. /\ upd[q].user \in Users /\ upd'[q].user = upd[q].user
            /\ upd'[q].row = courseProgress[upd[q].user]
        BY <2>0, <2>5, <1>t, RowRead DEF RecalculateReadsRow
      <3>2. Announced(v)
        BY <3>1 DEF CompletedRowsAnnounced
      <3>3. QED
        BY <3>2, StepAnnounced
    <2>6. CASE RecalculateWritesRow(q)
      BY <2>6, <2>f, <1>1, <1>t, RowStored DEF RecalculateWritesRow
    <2>7. QED
      BY <1>2, <2>f, <2>1, <2>2, <2>3, <2>4, <2>5, <2>6
      DEF UpdateStep, RecalculateAnnounces
  <1>3. CASE UpdateDies(q)
    BY <1>3, <1>i, <1>t, UpdateFinishes DEF UpdateDies
  <1>4. CASE \E u \in Users, l \in Lessons, i \in Inputs : UpdateFindsLesson(q, u, l, i)
    BY <1>4, <1>i, <1>t, UpdateStarts
  <1>5. QED
    BY <1>1, <1>2, <1>3, <1>4, MovedByItself

LEMMA StepCompletedRowsAnnounced ==
  LearningShape /\ ReadRowsAnnounced /\ CompletedRowsAnnounced
    /\ [LearningNext]_learningVars => CompletedRowsAnnounced'
  <1> SUFFICES ASSUME LearningShape, ReadRowsAnnounced, CompletedRowsAnnounced,
                      [LearningNext]_learningVars, NEW u \in Users,
                      courseProgress'[u].isCompleted
               PROVE  Announced(u)'
    BY DEF CompletedRowsAnnounced
  <1>t. LearningTypeOK /\ UpdatesAimed /\ TypeOK /\ MissingRowsBlank
    BY DEF LearningShape, LearningTypeOK
  <1>1. CASE courseProgress[u].isCompleted
    BY <1>1, StepAnnounced DEF CompletedRowsAnnounced
  <1>2. CASE EnrollmentStep
    BY <1>1, <1>2, <1>t, EnrollmentStepIsNext, EnrollmentKeepsRows
  <1>3. ASSUME NEW r \in Updates, RecalculateWritesRow(r), ~courseProgress[u].isCompleted
        PROVE  Announced(u)'
    <2> DEFINE n == upd[r].count
               total == TotalUsed(upd[r].row, n)
    <2>1. u = upd[r].user
          /\ courseProgress'[u] = StoreProgress(courseProgress[u], n, total)
      BY <1>3, <1>t, StoredRow
    <2>2. IsCompleted(n, total)
      BY <2>1 DEF StoreProgress
    <2>3. CASE upd[r].row.isCompleted
      BY <2>1, <2>3, StepAnnounced DEF ReadRowsAnnounced
    <2>4. CASE ~upd[r].row.isCompleted
      <3>1. Announces(upd[r].row, n, total)
        BY <2>2, <2>4 DEF Announces
      <3>2. courseProgress' # courseProgress
        BY <1>3
      <3>3. upd' = [upd EXCEPT ![r].pc = "announce"]
        BY <1>3, <3>1, <3>2 DEF RecalculateWritesRow
      <3>4. upd'[r].pc = "announce" /\ upd'[r].user = u
        BY <2>1, <3>3, <1>t, RowStored
      <3>5. QED
        BY <3>4 DEF Announced, AtUpdate
    <2>5. QED
      BY <2>3, <2>4
  <1>4. CASE UNCHANGED courseProgress
    BY <1>1, <1>4
  <1>5. QED
    BY <1>1, <1>2, <1>3, <1>4 DEF LearningNext, UpdateStep, CreateFreshLesson,
       DeleteLessonCascade, CreateLesson, DeleteLesson, vars, rowVars, learningVars

LEMMA InitAnnounced == LearningInit => ReadRowsAnnounced /\ CompletedRowsAnnounced
  BY IdleUpdateTyped DEF LearningInit, Init, ReadRowsAnnounced, CompletedRowsAnnounced

(* However updates overlap, a course that its row calls completed has been *)
(* announced to the learner, or the request that will announce it is in    *)
(* flight (or has died): the isCompleted && !wasCompleted test never lets  *)
(* two updates each leave the announcement to the other.                   *)
THEOREM CompletionAlwaysAnnounced == LearningSpec => []CompletionAnnounced
  <1>1. CompletedRowsAnnounced => CompletionAnnounced
    BY DEF CompletedRowsAnnounced, CompletionAnnounced, Announced
  <1>2. LearningSpec => [](LearningShape /\ ReadRowsAnnounced /\ CompletedRowsAnnounced)
    BY InitLearningShape, StepLearningShape, InitAnnounced, StepReadRowsAnnounced,
       StepCompletedRowsAnnounced, PTL DEF LearningSpec
  <1>3. QED
    BY <1>1, <1>2, PTL

-------------------------------------------------------------------------------
(* The count between its read and its write.                               *)

\* The set of lessons an update has counted changes under it only in a step
\* that marks it outdated.
LEMMA CountedSetHolds ==
  ASSUME LearningShape, [LearningNext]_learningVars, NEW q \in Updates,
         upd'[q] = upd[q], q \in Counted(upd[q].user), q \notin outdated'
  PROVE  q \notin outdated /\ lessonDone'[upd[q].user] = lessonDone[upd[q].user]
  <1>t. LearningTypeOK /\ UpdatesAimed /\ lessonDone \in [Users -> SUBSET lessons]
    BY DEF LearningShape, LearningTypeOK
  <1>u. upd[q].user \in Users /\ upd[q].pc # "idle"
    BY <1>t DEF Counted, UpdatesAimed
  <1>i. IdleUpdate.pc = "idle"
    BY IdleUpdateTyped
  <1>1. CASE UNCHANGED <<lessonDone, outdated>>
    BY <1>1
  <1>2. ASSUME NEW r \in Updates, UpdateWritesLesson(r)
        PROVE  q \notin outdated /\ lessonDone'[upd[q].user] = lessonDone[upd[q].user]
    <2> DEFINE u == upd[r].user
               done == IF upd[r].completes THEN lessonDone[u] \cup {upd[r].lesson}
                                           ELSE lessonDone[u] \ {upd[r].lesson}
    <2>1. \/ lessonDone' = lessonDone /\ outdated' = outdated
          \/ /\ lessonDone' = [lessonDone EXCEPT ![u] = done]
             /\ outdated' = IF done = lessonDone[u] THEN outdated
                            ELSE outdated \cup Counted(u)
      BY <1>2 DEF UpdateWritesLesson
    <2> HIDE DEF u, done
    <2>2. CASE done = lessonDone[u]
      BY <2>1, <2>2, <1>t
    <2>3. CASE done # lessonDone[u] /\ lessonDone' # lessonDone
      <3>1. q \notin outdated /\ q \notin Counted(u)
        BY <2>1, <2>3
      <3>2. upd[q].user # u
        BY <3>1
      <3>3. QED
        BY <2>1, <2>3, <3>1, <3>2, <1>t, <1>u
    <2>4. CASE lessonDone' = lessonDone
      BY <2>1, <2>4
    <2>5. QED
      BY <2>2, <2>3, <2>4
  <1>3. ASSUME NEW l \in Lessons, DeleteLessonCascade(l)
        PROVE  q \notin outdated /\ lessonDone'[upd[q].user] = lessonDone[upd[q].user]
    <2>1. q \notin outdated /\ l \notin lessonDone[upd[q].user]
      BY <1>3, <1>u DEF DeleteLessonCascade
    <2>2. QED
      BY <1>3, <1>u, <2>1, <1>t DEF DeleteLessonCascade, DoneWithout
  <1>4. ASSUME NEW r \in Updates, RecalculateWritesRow(r) \/ RecalculateAnnounces(r)
                                    \/ UpdateDies(r)
        PROVE  q \notin outdated /\ lessonDone'[upd[q].user] = lessonDone[upd[q].user]
    <2>1. lessonDone' = lessonDone
          /\ (outdated' = outdated \/ (Finish(r) /\ outdated' = outdated \ {r}))
      BY <1>4 DEF RecalculateWritesRow, RecalculateAnnounces, UpdateDies
    <2>2. CASE Finish(r) /\ outdated' = outdated \ {r}
      <3>1. q # r
        BY <2>2, <1>t, <1>i, <1>u, UpdateFinishes
      <3>2. QED
        BY <2>1, <2>2, <3>1
    <2>3. QED
      BY <2>1, <2>2
  <1>5. QED
    BY <1>1, <1>2, <1>3, <1>4 DEF LearningNext, UpdateFindsLesson, UpdateStep,
       UpdateChecksAccess, UpdateReadsLesson, RecalculateReadsCount, RecalculateReadsRow,
       CreateFreshLesson, learningVars, updateVars

LEMMA StepCarriedProgressExact ==
  LearningShape /\ CarriedProgressExact /\ [LearningNext]_learningVars
    => CarriedProgressExact'
  <1> SUFFICES ASSUME LearningShape, CarriedProgressExact, [LearningNext]_learningVars,
                      NEW q \in Updates
               PROVE  CarriesExact(q)'
    BY DEF CarriedProgressExact
  <1>t. LearningTypeOK /\ UpdatesAimed
    BY DEF LearningShape
  <1>i. IdleUpdate.pc = "idle"
    BY IdleUpdateTyped
  <1>1. CASE upd'[q] = upd[q]
    BY <1>1, CountedSetHolds DEF CarriedProgressExact, CarriesExact, Counted
  <1>2. CASE UpdateStep(q)
    <2>0. AtUpdate(q, "writeLesson") \/ AtUpdate(q, "reads") => upd[q].user \in Users
      BY <1>t DEF UpdatesAimed, AtUpdate
    <2>f. CASE Finish(q)
      BY <2>f, <1>i, <1>t, UpdateFinishes DEF CarriesExact, Counted
    <2>1. CASE UpdateChecksAccess(q)
      BY <2>1, <2>f, <1>t, AccessGranted DEF UpdateChecksAccess, CarriesExact, Counted
    <2>2. CASE UpdateReadsLesson(q)
      BY <2>2, <1>t, LessonRead DEF CarriesExact, Counted
    <2>3. CASE UpdateWritesLesson(q)
      BY <2>0, <2>3, <2>f, <1>t, LessonWritten
      DEF UpdateWritesLesson, CarriesExact, Counted, Reads
    <2>4. CASE RecalculateReadsCount(q)
      <3>1. /\ upd'[q].user = upd[q].user
            /\ upd'[q].count = Cardinality(lessonDone[upd[q].user])
        BY <2>0, <2>4, <1>t, CountRead DEF RecalculateReadsCount
      <3>2. lessonDone' = lessonDone
        BY <2>4 DEF RecalculateReadsCount
      <3>3. QED
        BY <3>1, <3>2 DEF CarriesExact
    <2>5. CASE RecalculateReadsRow(q)
      <3>1. /\ upd'[q].user = upd[q].user /\ upd'[q].count = upd[q].count
            /\ upd'[q].pending = upd[q].pending \ {"row"}
        BY <2>0, <2>5, <1>t, RowRead DEF RecalculateReadsRow
      <3>2. lessonDone' = lessonDone /\ outdated' = outdated /\ AtUpdate(q, "reads")
        BY <2>5 DEF RecalculateReadsRow
      <3>3. q \in Counted(upd[q].user)' => q \in Counted(upd[q].user)
        BY <3>1, <3>2 DEF Counted, AtUpdate
      <3>4. QED
        BY <3>1, <3>2, <3>3 DEF CarriedProgressExact, CarriesExact
    <2>6. CASE RecalculateWritesRow(q)
      <3>1. CASE upd' = [upd EXCEPT ![q].pc = "announce"] /\ outdated' = outdated
        <4>1. /\ upd'[q].user = upd[q].user /\ upd'[q].count = upd[q].count
              /\ upd'[q].pending = upd[q].pending
          BY <3>1, <1>t, RowStored
        <4>2. lessonDone' = lessonDone /\ AtUpdate(q, "writeProgress")
          BY <2>6 DEF RecalculateWritesRow
        <4>3. q \in Counted(upd[q].user)' => q \in Counted(upd[q].user)
          BY <4>1, <4>2 DEF Counted, AtUpdate
        <4>4. QED
          BY <3>1, <4>1, <4>2, <4>3 DEF CarriedProgressExact, CarriesExact
      <3>2. QED
        BY <2>6, <2>f, <3>1 DEF RecalculateWritesRow
    <2>7. QED
      BY <1>2, <2>f, <2>1, <2>2, <2>3, <2>4, <2>5, <2>6
      DEF UpdateStep, RecalculateAnnounces
  <1>3. CASE UpdateDies(q)
    BY <1>3, <1>i, <1>t, UpdateFinishes DEF UpdateDies, CarriesExact, Counted
  <1>4. CASE \E u \in Users, l \in Lessons, i \in Inputs : UpdateFindsLesson(q, u, l, i)
    BY <1>4, <1>t, UpdateStarts DEF CarriesExact, Counted
  <1>5. QED
    BY <1>1, <1>2, <1>3, <1>4, MovedByItself

-------------------------------------------------------------------------------
(* The completedLessons of a row.                                          *)

\* A step that changes neither number of u keeps what excuses a difference,
\* unless it is the write that settles it.
LEMMA ExcuseHolds ==
  ASSUME LearningShape, [LearningNext]_learningVars, NEW u \in Users,
         \A r \in Updates : RecalculateWritesRow(r) => upd[r].user # u,
         u \in progressDrifted \/ \E r \in Updates : OwesRecalculation(r, u)
  PROVE  u \in progressDrifted' \/ \E r \in Updates : OwesRecalculation(r, u)'
  <1>t. LearningTypeOK /\ UpdatesAimed
    BY DEF LearningShape
  <1>1. CASE u \in progressDrifted
    BY <1>1 DEF LearningNext, UpdateFindsLesson, UpdateStep, UpdateChecksAccess,
       UpdateReadsLesson, UpdateWritesLesson, RecalculateReadsCount, RecalculateReadsRow,
       RecalculateAnnounces, RecalculateWritesRow, UpdateDies, CreateFreshLesson,
       DeleteLessonCascade, learningVars, updateVars
  <1>2. ASSUME NEW r \in Updates, OwesRecalculation(r, u)
        PROVE  u \in progressDrifted' \/ \E q \in Updates : OwesRecalculation(q, u)'
    <2>1. CASE upd'[r] = upd[r]
      BY <1>2, <2>1 DEF OwesRecalculation
    <2>2. CASE UpdateDies(r)
      BY <1>2, <2>2 DEF UpdateDies
    <2>3. CASE UpdateStep(r)
      <3>1. upd[r].user = u /\ (AtUpdate(r, "reads") \/ AtUpdate(r, "writeProgress"))
        BY <1>2 DEF OwesRecalculation, AtUpdate
      <3>2. RecalculateReadsCount(r) \/ RecalculateReadsRow(r)
        BY <2>3, <3>1 DEF UpdateStep, AtUpdate, UpdateChecksAccess, UpdateReadsLesson,
           UpdateWritesLesson, RecalculateAnnounces
      <3>3. OwesRecalculation(r, u)'
        BY <3>1, <3>2, <1>t, CountRead, RowRead DEF OwesRecalculation
      <3>4. QED
        BY <3>3
    <2>4. QED
      BY <1>2, <2>1, <2>2, <2>3, MovedByItself
      DEF UpdateFindsLesson, AtUpdate, OwesRecalculation
  <1>3. QED
    BY <1>1, <1>2

LEMMA StepProgressExact ==
  LearningShape /\ CarriedProgressExact /\ ProgressExact /\ [LearningNext]_learningVars
    => ProgressExact'
  <1> SUFFICES ASSUME LearningShape, CarriedProgressExact, ProgressExact,
                      [LearningNext]_learningVars, NEW u \in Users
               PROVE  \/ courseProgress'[u].completed = Cardinality(lessonDone'[u])
                      \/ u \in progressDrifted'
                      \/ \E r \in Updates : OwesRecalculation(r, u)'
    BY DEF ProgressExact
  <1>t. /\ LearningTypeOK /\ UpdatesAimed /\ MissingRowsBlank /\ TypeOK
        /\ lessonDone \in [Users -> SUBSET lessons]
    BY DEF LearningShape, LearningTypeOK
  <1>1. CASE /\ courseProgress'[u].completed = courseProgress[u].completed
             /\ lessonDone'[u] = lessonDone[u]
             /\ \A r \in Updates : RecalculateWritesRow(r) => upd[r].user # u
    BY <1>1, ExcuseHolds DEF ProgressExact
  <1>2. ASSUME NEW r \in Updates, RecalculateWritesRow(r), upd[r].user = u
        PROVE  \/ courseProgress'[u].completed = Cardinality(lessonDone'[u])
               \/ u \in progressDrifted'
    <2> DEFINE n == upd[r].count
               total == TotalUsed(upd[r].row, n)
    <2>1. CASE ~PercentFits(n, total) \/ r \in outdated
      BY <1>2, <2>1 DEF RecalculateWritesRow
    <2>2. CASE PercentFits(n, total) /\ r \notin outdated
      <3>1. n = Cardinality(lessonDone[u])
        <4>1. upd[r].pc = "writeProgress" /\ upd[r].pending = {}
          BY <1>2, <1>t DEF RecalculateWritesRow, AtUpdate, UpdatesAimed
        <4>2. QED
          BY <1>2, <2>2, <4>1 DEF CarriedProgressExact, CarriesExact, Counted
      <3>2. /\ lessonDone' = lessonDone
            /\ courseProgress' = [courseProgress EXCEPT
                                    ![u] = StoreProgress(courseProgress[u], n, total)]
        BY <1>2, <2>2 DEF RecalculateWritesRow
      <3> HIDE DEF n, total
      <3>3. StoreProgress(courseProgress[u], n, total).completed = n
        BY DEF StoreProgress
      <3>4. QED
        BY <3>1, <3>2, <3>3, <1>t DEF TypeOK
    <2>3. QED
      BY <2>1, <2>2
  <1>3. CASE EnrollmentStep /\ UNCHANGED updateVars
    <2>1. courseProgress'[u].completed = courseProgress[u].completed
      BY <1>3, <1>t, EnrollmentStepIsNext, EnrollmentKeepsRows
    <2>2. QED
      BY <1>1, <1>2, <1>3, <2>1 DEF updateVars
  <1>4. ASSUME NEW r \in Updates, UpdateWritesLesson(r), UNCHANGED vars
        PROVE  \/ courseProgress'[u].completed = Cardinality(lessonDone'[u])
               \/ u \in progressDrifted'
               \/ \E q \in Updates : OwesRecalculation(q, u)'
    <2> DEFINE v == upd[r].user
               done == IF upd[r].completes THEN lessonDone[v] \cup {upd[r].lesson}
                                           ELSE lessonDone[v] \ {upd[r].lesson}
    <2>1. v \in Users /\ courseProgress' = courseProgress
      BY <1>4, <1>t DEF UpdateWritesLesson, AtUpdate, UpdatesAimed, vars, rowVars
    <2>2. CASE lessonDone' = lessonDone
      BY <1>1, <1>2, <2>1, <2>2
    <2>3. CASE lessonDone' # lessonDone
      <3>1. upd'[r].pc = "reads" /\ upd'[r].user = v
        BY <1>4, <2>1, <2>3, <1>t, LessonWritten DEF UpdateWritesLesson
      <3>2. lessonDone' = [lessonDone EXCEPT ![v] = done]
        BY <1>4, <2>3 DEF UpdateWritesLesson
      <3> HIDE DEF done
      <3>3. CASE u = v
        BY <3>1, <3>3 DEF OwesRecalculation
      <3>4. CASE u # v
        BY <1>1, <1>2, <2>1, <3>2, <3>4, <1>t
      <3>5. QED
        BY <3>3, <3>4
    <2>4. QED
      BY <2>2, <2>3
  <1>5. ASSUME NEW l \in Lessons, DeleteLessonCascade(l)
        PROVE  \/ courseProgress'[u].completed = Cardinality(lessonDone'[u])
               \/ u \in progressDrifted'
               \/ \E r \in Updates : OwesRecalculation(r, u)'
    <2>1. CASE l \in lessonDone[u]
      BY <1>5, <2>1 DEF DeleteLessonCascade
    <2>2. CASE l \notin lessonDone[u]
      <3>1. lessonDone'[u] = lessonDone[u]
        BY <1>5, <2>2 DEF DeleteLessonCascade, DoneWithout
      <3>2. courseProgress' = courseProgress
        BY <1>5 DEF DeleteLessonCascade, DeleteLesson, rowVars
      <3>3. QED
        BY <1>1, <1>2, <3>1, <3>2
    <2>3. QED
      BY <2>1, <2>2
  <1>6. ASSUME NEW r \in Updates, RecalculateWritesRow(r), upd[r].user # u
        PROVE  \/ courseProgress'[u].completed = Cardinality(lessonDone'[u])
               \/ u \in progressDrifted'
               \/ \E q \in Updates : OwesRecalculation(q, u)'
    <2>1. courseProgress'[u] = courseProgress[u]
      BY <1>6, <1>t, StoredRow
    <2>2. lessonDone' = lessonDone
      BY <1>6 DEF RecalculateWritesRow
    <2>3. QED
      BY <1>1, <1>2, <2>1, <2>2
  <1>7. CASE UNCHANGED <<courseProgress, lessonDone>>
    BY <1>1, <1>2, <1>7
  <1>8. QED
    BY <1>2, <1>3, <1>4, <1>5, <1>6, <1>7
    DEF LearningNext, UpdateFindsLesson, UpdateStep, UpdateChecksAccess, UpdateReadsLesson,
        RecalculateReadsCount, RecalculateReadsRow, RecalculateAnnounces, UpdateDies,
        CreateFreshLesson, CreateLesson, learningVars, updateVars, vars, rowVars

LEMMA StepAnnouncesCompleted ==
  LearningShape /\ AnnouncesCompleted /\ [LearningNext]_learningVars
    => AnnouncesCompleted'
  <1> SUFFICES ASSUME LearningShape, AnnouncesCompleted, [LearningNext]_learningVars,
                      NEW q \in Updates, upd'[q].pc = "announce"
               PROVE  IsCompleted(upd'[q].count, TotalUsed(upd'[q].row, upd'[q].count))
    BY DEF AnnouncesCompleted, AtUpdate
  <1>t. LearningTypeOK /\ UpdatesAimed
    BY DEF LearningShape
  <1>i. IdleUpdate.pc = "idle"
    BY IdleUpdateTyped
  <1>1. CASE upd'[q] = upd[q]
    BY <1>1 DEF AnnouncesCompleted, AtUpdate
  <1>2. CASE UpdateStep(q)
    <2>0. AtUpdate(q, "writeLesson") \/ AtUpdate(q, "reads") => upd[q].user \in Users
      BY <1>t DEF UpdatesAimed, AtUpdate
    <2>f. ~Finish(q)
      BY <1>i, <1>t, UpdateFinishes
    <2>1. ~UpdateChecksAccess(q) /\ ~UpdateReadsLesson(q)
      BY <2>f, <1>t, AccessGranted, LessonRead DEF UpdateChecksAccess
    <2>2. ~UpdateWritesLesson(q)
      BY <2>0, <2>f, <1>t, LessonWritten DEF UpdateWritesLesson
    <2>3. ~RecalculateReadsCount(q) /\ ~RecalculateReadsRow(q)
      BY <2>0, <1>t, CountRead, RowRead DEF RecalculateReadsCount, RecalculateReadsRow
    <2>4. RecalculateWritesRow(q)
      BY <1>2, <2>f, <2>1, <2>2, <2>3 DEF UpdateStep, RecalculateAnnounces
    <2>5. /\ upd' = [upd EXCEPT ![q].pc = "announce"]
          /\ Announces(upd[q].row, upd[q].count, TotalUsed(upd[q].row, upd[q].count))
      BY <2>4, <2>f DEF RecalculateWritesRow
    <2>6. upd'[q].row = upd[q].row /\ upd'[q].count = upd[q].count
      BY <2>5, <1>t, RowStored
    <2>7. QED
      BY <2>5, <2>6 DEF Announces
  <1>3. CASE UpdateDies(q)
    BY <1>3, <1>i, <1>t, UpdateFinishes DEF UpdateDies
  <1>4. CASE \E u \in Users, l \in Lessons, i \in Inputs : UpdateFindsLesson(q, u, l, i)
    BY <1>4, <1>t, UpdateStarts
  <1>5. QED
    BY <1>1, <1>2, <1>3, <1>4, MovedByItself

LEMMA InitLearningInv == LearningInit => LearningInv
  <1> SUFFICES ASSUME LearningInit PROVE LearningInv
    OBVIOUS
  <1>1. /\ \A r \in Updates : upd[r].pc = "idle"
        /\ \A u \in Users : courseProgress[u].completed = 0 /\ lessonDone[u] = {}
    BY IdleUpdateTyped DEF LearningInit, Init
  <1>2. ReadStillHolds /\ AnnouncesCompleted
    BY <1>1 DEF ReadStillHolds, WritesWhatItRead, AnnouncesCompleted, AtUpdate
  <1>3. CarriedProgressExact
    BY <1>1 DEF CarriedProgressExact, CarriesExact, Counted
  <1>4. ProgressExact
    BY <1>1, FS_EmptySet DEF ProgressExact
  <1>5. QED
    BY <1>2, <1>3, <1>4, InitLearningShape, InitAnnounced DEF LearningInv

LEMMA LearningInvAlways == LearningSpec => []LearningInv
  <1>1. LearningInv /\ [LearningNext]_learningVars => LearningInv'
    BY StepLearningShape, StepReadStillHolds, StepCarriedProgressExact,
       StepReadRowsAnnounced, StepCompletedRowsAnnounced, StepProgressExact,
       StepAnnouncesCompleted DEF LearningInv
  <1>2. QED
    BY <1>1, InitLearningInv, PTL DEF LearningSpec

(* completedLessons of a row is the number of the user's completed lessons *)
(* unless a recalculation is still owed, or the last one stored a count    *)
(* that another request (a second tab, a lesson deletion) had outdated.    *)
THEOREM WrongProgressAlwaysHasCause == LearningSpec => []WrongProgressHasCause
  <1>1. LearningInv => WrongProgressHasCause
    BY DEF LearningInv, ProgressExact, WrongProgressHasCause
  <1>2. QED
    BY <1>1, LearningInvAlways, PTL

(* "Course completed!" is sent to a learner who has not completed every    *)
(* lesson only if the update found no CourseProgress row to take a total   *)
(* from, or the row's total is no longer the number of lessons, or the     *)
(* learner's completed lessons changed after they were counted: then the   *)
(* count is at least the number of lessons, and a set of lessons of that   *)
(* size is all of them.                                                    *)
THEOREM FalseCongratulationAlwaysHasCause ==
  LearningSpec => []FalseCongratulationHasCause
  <1>1. ASSUME LearningInv, NEW r \in Updates, AtUpdate(r, "announce"),
               upd[r].row.exists, upd[r].row.total = Cardinality(lessons),
               r \notin outdated
        PROVE  lessonDone[upd[r].user] = lessons
    <2> DEFINE u == upd[r].user
    <2>t. LearningTypeOK /\ UpdatesAimed
      BY <1>1 DEF LearningInv, LearningShape
    <2>1. u \in Users /\ upd[r].pending = {}
      BY <1>1, <2>t DEF UpdatesAimed, AtUpdate
    <2>2. upd[r].count = Cardinality(lessonDone[u])
      BY <1>1, <2>1 DEF LearningInv, CarriedProgressExact, CarriesExact, Counted, AtUpdate
    <2>3. upd[r].count >= Cardinality(lessons)
      BY <1>1 DEF LearningInv, AnnouncesCompleted, IsCompleted, TotalUsed
    <2>4. /\ IsFiniteSet(lessons) /\ Cardinality(lessons) \in Nat
          /\ Cardinality(lessonDone[u]) \in Nat /\ lessonDone[u] \in SUBSET lessons
      BY <2>t, <2>1, LessonsCounted DEF LearningTypeOK
    <2> HIDE DEF u
    <2>5. /\ Cardinality(lessonDone[u]) =< Cardinality(lessons)
          /\ Cardinality(lessons) = Cardinality(lessonDone[u]) => lessons = lessonDone[u]
      BY <2>4, FS_Subset
    <2>6. Cardinality(lessons) = Cardinality(lessonDone[u])
      BY <2>2, <2>3, <2>4, <2>5
    <2>7. QED
      BY <2>5, <2>6 DEF u
  <1>2. LearningInv => FalseCongratulationHasCause
    BY <1>1 DEF FalseCongratulationHasCause
  <1>3. QED
    BY <1>2, LearningInvAlways, PTL

-------------------------------------------------------------------------------
(* Enrollment inside the learning core.                                    *)

\* The one step of a progress update on Enrollment's variables is none of
\* Enrollment's, and takes no row away.
LEMMA StepEnrollmentInv ==
  LearningShape /\ Inv /\ [LearningNext]_learningVars => Inv'
  <1> SUFFICES ASSUME LearningShape, Inv, [LearningNext]_learningVars PROVE Inv'
    OBVIOUS
  <1>t. LearningTypeOK /\ UpdatesAimed
    BY DEF LearningShape
  <1>1. CASE [Next]_vars
    BY <1>1, StepTypeOK, StepCarried, StepWrongCount, StepMissing DEF Inv
  <1>2. ASSUME NEW r \in Updates, RecalculateWritesRow(r),
               UNCHANGED <<courseVars, enrollment, enrollmentCount, req, history>>
        PROVE  Inv'
    <2>1. TypeOK'
      BY <1>2, StepLearningShape
      DEF LearningShape, LearningTypeOK
    <2>2. CarriedCountExact' /\ WrongCountHasCause'
      BY <1>2 DEF Inv, CarriedCountExact, WrongCountHasCause, ActiveCount, OwesCount,
         At, history
    <2>3. \A u \in Users : courseProgress[u].exists => courseProgress'[u].exists
      BY <1>2, <1>t, StoredRow
    <2>4. MissingProgressHasCause'
      BY <1>2, <2>3 DEF Inv, MissingProgressHasCause, OwesProgress, history
    <2>5. QED
      BY <2>1, <2>2, <2>4 DEF Inv
  <1>3. QED
    BY <1>1, <1>2, EnrollmentStepIsNext DEF LearningNext, UpdateStep, CreateFreshLesson,
       DeleteLessonCascade, Next, CourseStep, learningVars

(* Progress updates and the curriculum leave enrollment.service.ts what it *)
(* promises alone: with all of them at work on the course, a wrong         *)
(* enrollmentCount and a missing CourseProgress row still have only the    *)
(* causes that enroll and cancel give them.                                *)
THEOREM EnrollmentHoldsWhileLearning ==
  LearningSpec => [](WrongCountHasCause /\ MissingProgressHasCause)
  <1>1. LearningInit => Inv
    BY InitInv DEF LearningInit
  <1>2. Inv => WrongCountHasCause /\ MissingProgressHasCause
    BY DEF Inv
  <1>3. LearningSpec => []Inv
    BY <1>1, LearningShapeAlways, StepEnrollmentInv, PTL DEF LearningSpec
  <1>4. QED
    BY <1>2, <1>3, PTL
===============================================================================
