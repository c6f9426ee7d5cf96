\* Two comments, two replies, three requests at once, one death.
CONSTANTS
  Comments = {c1, c2}
  Replies = {p1, p2}
  Requests = {r1, r2, r3}
  NoItem = NoItem
  MaxDeaths = 1
SYMMETRY Symmetry
SPECIFICATION Spec
INVARIANT TypeOK
INVARIANT CountsConserved
\* The instance stops when its ids are used up and its post is deleted.
CHECK_DEADLOCK FALSE
