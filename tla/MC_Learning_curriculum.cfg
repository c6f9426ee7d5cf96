\* Two updates at once while the one lesson is deleted and recreated.
CONSTANTS
  Users = {u1}
  Requests = {r1}
  Updates = {p1, p2}
  Lessons = {l1}
  Previews = {}
  NoUser = NoUser
  NoLesson = NoLesson
  PercentBound = 200
  CourseEdits = {"status", "create", "delete"}
  Failures = FALSE
SYMMETRY UpdateSymmetry
SPECIFICATION LearningSpec
INVARIANT LearningTypeOK
INVARIANT WrongProgressHasCause
PROPERTY SavedPositionKeepsCompletion
PROPERTY TotalSetByEnrollOnly
