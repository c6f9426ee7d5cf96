\* Two requests at once, two codes, one login at a time with two tokens.
CONSTANTS
  Codes = {c1, c2}
  Requests = {r1, r2}
  Tokens = {t1, t2}
  Logins = {f1}
  NoCode = NoCode
  NoToken = NoToken
  NoLogin = NoLogin
  MaxAttempts = 1
  Failures = TRUE
SYMMETRY Symmetry
SPECIFICATION SesSpec
INVARIANT SesTypeOK
INVARIANT AttemptsBounded
INVARIANT AcceptedWhileOverlapping
INVARIANT OnlyNewestActive
INVARIANT OneSessionPerLogin
INVARIANT LoggedOutStaysOver
INVARIANT SurvivorHasCause
INVARIANT OldPasswordSessionHasCause
