\* Two updates at once (two tabs), two lessons of which one is a preview,
\* and a lesson that may be added meanwhile.  With it the learner completes
\* twice the lessons counted at enrollment, which the column refuses.
CONSTANTS
  Users = {u1}
  Requests = {r1}
  Updates = {p1, p2}
  Lessons = {l1, l2}
  Previews = {l2}
  NoUser = NoUser
  NoLesson = NoLesson
  PercentBound = 200
  CourseEdits = {"create"}
  Failures = FALSE
SYMMETRY UpdateSymmetry
SPECIFICATION LearningSpec
INVARIANT CompletionAnnounced
INVARIANT WrongProgressHasCause
INVARIANT FalseCongratulationHasCause
