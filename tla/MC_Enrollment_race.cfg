\* Two learners, three requests at once, no curriculum, requests may die.
CONSTANTS
  Users = {u1, u2}
  Requests = {r1, r2, r3}
  Lessons = {}
  NoUser = NoUser
  CourseEdits = {"status", "create", "delete"}
  Failures = TRUE
SYMMETRY Symmetry
SPECIFICATION Spec
INVARIANT TypeOK
INVARIANT WrongCountHasCause
INVARIANT MissingProgressHasCause
