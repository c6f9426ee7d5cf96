\* Fair requests that may die, while the one lesson is deleted and recreated.
CONSTANTS
  Users = {u1}
  Requests = {r1}
  Updates = {p1}
  Lessons = {l1}
  Previews = {}
  NoUser = NoUser
  NoLesson = NoLesson
  PercentBound = 200
  CourseEdits = {"status", "create", "delete"}
  Failures = TRUE
SPECIFICATION LearningFairSpec
PROPERTY CompletionEventuallyAnnounced
PROPERTY EnrolledGetsProgress
