\* One of each, or two where two race; MC_Services says why one service at a time.
CONSTANTS
  Users = {u1}
  Roles = {student, staff}
  Student = student
  AccRequests = {r1, r2}
  Views = {v1, v2}
  Settings = {s1}
  CaRequests = {r1, r2}
  MaxVersion = 1
  Columns = {c1}
  Objects = {o1, o2, o3}
  FlRequests = {r1, r2}
  NoObject = NoObject
  NoColumn = NoColumn
  Words = {"a word", "modules"}
  JobIds = {j1}
  Failures = TRUE
  LsRequests = {r1, r2}
  MaxClock = 2
  MaxDuration = 3
  Notes = {n1, n2}
  NtRequests = {r1, r2}
  Items = {i1, i2, i3}
  OrdRequests = {r1, r2}
  MaxOrder = 3
  Members = {u1}
  Processes = {p1, p2}
  Sockets = {w1, w2}
  MaxInFlight = 3
SPECIFICATION ServicesSpec
INVARIANTS
  ServicesTypeOK
  RolelessHasCause
  LockedOutStaysOut
  CallersAsDocumented
  StaleEntryHasCause
  BadgeHasCause
  AttendanceSound
  PresenceViewHasCause
  StoredKeysHaveCause
  SharedOrderHasCause
PROPERTIES
  LostRoleWearsOff
  JobsSettle
\* A call ends, jobs are done, and the clock, the table versions and the ids
\* are used up.
CHECK_DEADLOCK FALSE
