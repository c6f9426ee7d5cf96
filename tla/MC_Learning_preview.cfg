\* No overlap, no failures, fixed curriculum: one preview lesson is enough.
CONSTANTS
  Users = {u1}
  Requests = {r1}
  Updates = {p1}
  Lessons = {l1, l2}
  Previews = {l2}
  NoUser = NoUser
  NoLesson = NoLesson
  PercentBound = 1000
  CourseEdits = {"status"}
  Failures = FALSE
SPECIFICATION LearningSpec
PROPERTY CongratulatedHaveFinished
