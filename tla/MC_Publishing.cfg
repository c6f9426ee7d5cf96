\* Two requests (publish or attach) at once, two lessons, two uploads.
CONSTANTS
  Lessons = {l1, l2}
  Keys = {k1, k2}
  Requests = {r1, r2}
  NoLesson = NoLesson
  NoKey = NoKey
  Failures = TRUE
SYMMETRY Symmetry
SPECIFICATION Spec
INVARIANT TypeOK
INVARIANT IncompletePublishHasCause
INVARIANT DanglingVideoHasCause
