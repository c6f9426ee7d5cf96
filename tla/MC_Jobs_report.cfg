\* Two jobs, no accidents.
CONSTANTS
  JobIds = {j1, j2}
  Failures = FALSE
SPECIFICATION JobSpec
PROPERTY ReportAnnounced
\* The instance stops when its jobs are done.
CHECK_DEADLOCK FALSE
