\* Three overlapping toggles of two users on two targets, one death.
CONSTANTS
  Users = {u1, u2}
  Targets = {post, comment}
  Requests = {r1, r2, r3}
  NoUser = NoUser
  NoTarget = NoTarget
  MaxDeaths = 1
SYMMETRY Symmetry
SPECIFICATION Spec
INVARIANT TypeOK
INVARIANT LikeCountConserved
PROPERTY ImplementsBoard
