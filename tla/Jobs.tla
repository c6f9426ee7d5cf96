--------------------------------- MODULE Jobs ---------------------------------
(***************************************************************************)
(* queues/index.ts and the processors that have a producer: e-mail,       *)
(* report and cleanup jobs.  A job is tried three times from its first     *)
(* statement; a worker may crash under it, which BullMQ notices (a stalled *)
(* job) and forgives once.  The worker process has no Socket.IO server     *)
(* (setIO is called in server.ts alone), and storage.upload refuses a type *)
(* that FILE_ENTITY_RULES does not list for the kind of file.              *)
(***************************************************************************)
EXTENDS Naturals, Sequences

CONSTANTS
  JobIds,
  Failures      \* whether statements may fail by accident and workers crash

ASSUME JobsAssumption == Failures \in BOOLEAN

VARIABLES
  kind,       \* job -> its queue, or "none"
  jobState,   \* job -> waiting, active, stalled, delayed, completed, failed
  step,       \* job -> the statement it is at
  attempts,   \* job -> attemptsMade
  stalls,     \* job -> times it stalled
  effects     \* job -> the statements that have taken effect

jobVars == <<kind, jobState, step, attempts, stalls, effects>>

Kinds == {"EMAIL", "REPORT", "CLEANUP"}

Statements == {"collectReportData", "upload", "createAsset", "createForUsers",
               "emitToUser", "deleteMany", "sendMail"}

\* The processors; dispatch is its insert and its first emit.
Processor(k) ==
  CASE k = "REPORT"  -> <<"collectReportData", "upload", "createAsset",
                          "createForUsers", "emitToUser">>
    [] k = "CLEANUP" -> <<"deleteMany">>
    [] OTHER         -> <<"sendMail">>

\* The classes of allowedMimeTypes, and the type of a report.
TemporaryMimeTypes == {"image", "video", "document"}
ReportMimeType     == "application/json"
HasSocketServer == FALSE

\* Statements that throw on every attempt.
Rejected(statement) ==
  \/ statement = "upload" /\ ReportMimeType \notin TemporaryMimeTypes
  \/ statement = "emitToUser" /\ ~HasSocketServer

MaxAttempts == 3     \* defaultJobOptions.attempts
MaxStalls   == 1     \* BullMQ's maxStalledCount

Settled(j)   == jobState[j] \in {"completed", "failed"}
Statement(j) == Processor(kind[j])[step[j]]

-------------------------------------------------------------------------------
Enqueue(j, k) ==
  /\ kind[j] = "none"
  /\ kind' = [kind EXCEPT ![j] = k]
  /\ jobState' = [jobState EXCEPT ![j] = "waiting"]
  /\ UNCHANGED <<step, attempts, stalls, effects>>

Start(j) ==
  /\ jobState[j] = "waiting"
  /\ jobState' = [jobState EXCEPT ![j] = "active"]
  /\ step' = [step EXCEPT ![j] = 1]
  /\ UNCHANGED <<kind, attempts, stalls, effects>>

StatementSucceeds(j) ==
  /\ jobState[j] = "active"
  /\ ~Rejected(Statement(j))
  /\ effects' = [effects EXCEPT ![j] = @ \cup {Statement(j)}]
  /\ IF step[j] = Len(Processor(kind[j]))
       THEN jobState' = [jobState EXCEPT ![j] = "completed"] /\ UNCHANGED step
       ELSE step' = [step EXCEPT ![j] = @ + 1] /\ UNCHANGED jobState
  /\ UNCHANGED <<kind, attempts, stalls>>

\* Variant: there is no limit.
AlwaysRetries(made) == TRUE

Retries(made) == made < MaxAttempts

\* It may have taken effect: the answer of the mail server was lost.
StatementFails(j) ==
  LET made == IF attempts[j] < MaxAttempts THEN attempts[j] + 1 ELSE MaxAttempts
  IN
  /\ jobState[j] = "active"
  /\ \/ Rejected(Statement(j)) /\ UNCHANGED effects
     \/ /\ Failures /\ ~Rejected(Statement(j))
        /\ \/ UNCHANGED effects
           \/ effects' = [effects EXCEPT ![j] = @ \cup {Statement(j)}]
  /\ attempts' = [attempts EXCEPT ![j] = made]
  /\ jobState' = [jobState EXCEPT ![j] = IF Retries(made) THEN "delayed" ELSE "failed"]
  /\ UNCHANGED <<kind, step, stalls>>

\* backoff
DelayEnds(j) ==
  /\ jobState[j] = "delayed"
  /\ jobState' = [jobState EXCEPT ![j] = "waiting"]
  /\ UNCHANGED <<kind, step, attempts, stalls, effects>>

WorkerCrashes(j) ==
  /\ Failures
  /\ jobState[j] = "active"
  /\ jobState' = [jobState EXCEPT ![j] = "stalled"]
  /\ UNCHANGED <<kind, step, attempts, stalls, effects>>

StalledNoticed(j) ==
  /\ jobState[j] = "stalled"
  /\ \/ /\ stalls[j] < MaxStalls
        /\ stalls' = [stalls EXCEPT ![j] = @ + 1]
        /\ jobState' = [jobState EXCEPT ![j] = "waiting"]
     \/ /\ stalls[j] = MaxStalls
        /\ jobState' = [jobState EXCEPT ![j] = "failed"]
        /\ UNCHANGED stalls
  /\ UNCHANGED <<kind, step, attempts, effects>>

-------------------------------------------------------------------------------
JobInit ==
  /\ kind = [j \in JobIds |-> "none"]
  /\ jobState = [j \in JobIds |-> "none"]
  /\ step = [j \in JobIds |-> 1]
  /\ attempts = [j \in JobIds |-> 0]
  /\ stalls = [j \in JobIds |-> 0]
  /\ effects = [j \in JobIds |-> {}]

\* What a running worker and BullMQ do without being asked.
Works(j) == Start(j) \/ StatementSucceeds(j) \/ StatementFails(j)
              \/ DelayEnds(j) \/ StalledNoticed(j)

JobNext ==
  \E j \in JobIds : (\E k \in Kinds : Enqueue(j, k)) \/ Works(j) \/ WorkerCrashes(j)

\* Workers are restarted, and take and run the jobs that wait.
JobFair == \A j \in JobIds : WF_jobVars(Works(j))

JobSpec == JobInit /\ [][JobNext]_jobVars /\ JobFair

-------------------------------------------------------------------------------
JobTypeOK ==
  /\ kind \in [JobIds -> Kinds \cup {"none"}]
  /\ jobState \in [JobIds -> {"none", "waiting", "active", "delayed", "stalled",
                              "completed", "failed"}]
  /\ attempts \in [JobIds -> 0..MaxAttempts] /\ stalls \in [JobIds -> 0..MaxStalls]
  /\ step \in [JobIds -> Nat] /\ effects \in [JobIds -> SUBSET Statements]
  /\ \A j \in JobIds :
       /\ jobState[j] = "none" <=> kind[j] = "none"
       /\ step[j] \in DOMAIN Processor(kind[j])
       /\ kind[j] # "none" => effects[j] \subseteq
            {Processor(kind[j])[i] : i \in DOMAIN Processor(kind[j])}
       /\ jobState[j] = "completed" => Statement(j) \in effects[j]

\* Whatever fails or crashes, a job that was enqueued is completed or given up:
\* three attempts and one stall bound the retries.
JobsSettle == \A j \in JobIds : kind[j] # "none" ~> Settled(j)

\* "Report generation started - you will be notified when it is ready", says
\* the reply of generateReport (admin.controller.ts).
ReportAnnounced ==
  \A j \in JobIds : kind[j] = "REPORT" ~> "createForUsers" \in effects[j]
===============================================================================
