\* One request at a time, no failures.
CONSTANTS
  Lessons = {l1, l2}
  Keys = {k1}
  Requests = {r1}
  NoLesson = NoLesson
  NoKey = NoKey
  Failures = FALSE
SPECIFICATION Spec
PROPERTY SavedVideoExists
