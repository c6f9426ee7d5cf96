# Formal models of the EdTech LMS backend

TLA+ models, TLC model checks and TLAPS proofs for the API in `src/`. Paths
below are relative to the repository's `src/src` unless they start with
`prisma/` or `tests/`.

## 1. The system

An Express API in layers (route, controller, service, repository, Prisma,
PostgreSQL), a Socket.IO server in the same process, Redis for the cache and
for BullMQ queues, a separate worker process, and S3 for files. The business
logic is in `services/`; a repository method is one SQL statement (two or three
in the cases named below); controllers, routes and validators keep no state.

What makes the code hard to test is one fact: **every handler is a sequence of
awaited statements with no transaction around them** (the only
`$transaction`s are the two `reorder` methods). Every `await` is a point where
any other request, in this process or another, runs. A request that is rejected
half way, or whose process is killed, leaves what it wrote.

### Inventory

| Component | State | Operations | Hard behaviour | What makes it correct |
|---|---|---|---|---|
| Enrollment (`enrollment.service.ts`) | `Enrollment` row per (user, course), `Course.enrollmentCount`, the `CourseProgress` row | enroll (7 statements), cancel (4) | overlapping requests, partial failure | the count is the ACTIVE rows; an ACTIVE learner has a progress row |
| Learning progress (`progress.service.ts`) | `LessonProgress` per (user, lesson), `CourseProgress` per (user, course) | updateLessonProgress with recalculation | two tabs, curriculum changes, stale totals | completed count right; completion announced, once finished and not before |
| Course and publishing (`course.service.ts`) | `Course.status`, soft delete, image keys | changeStatus, create, update, remove, uploads | gate and write are separate statements | a published course is complete |
| Curriculum (`curriculum.service.ts`) | modules, lessons, resources, sort orders, S3 keys | create, update, delete, reorder, attachLessonVideo, uploads | database and S3 written in turn | a saved key names an object |
| Likes (`community.service.ts` toggleLike) | `CommunityLike` row per (user, target), `likeCount` | toggle | double clicks; counter after row | one like per user; count conserved |
| Threads (`community.service.ts`) | posts, comments, replies (soft-deleted), two counters, bookmarks, pins | create, delete | double delete; counter after row | counters conserved |
| Sessions (`auth.service.ts`) | refresh tokens, password | register, login, refresh, logout, reset | rotation races; reset against logins in flight | rotation yields one successor; reset ends old sessions |
| One-time codes (`otp.service.ts`) | codes with attempts and expiry | generate, verify | check then act | attempts limit; a code is used once |
| Users and roles (`user.service.ts`) | status, roles | assign, remove, status, delete | guard then write | a user keeps a role; a suspension lasts |
| Notifications (`notification.service.ts`) | notification, per-user rows | dispatch, markRead, markAllRead, archive | counts pushed out of order | the badge ends up right |
| Jobs and worker (`queues/`, `jobs/`) | BullMQ jobs, three attempts | e-mail, notification, report, cleanup | at-least-once processing of several statements | a retry does not repeat an effect |
| Cache and settings (`lib/cache.ts`, `category.service.ts`, `setting.service.ts`) | Redis keys with a TTL | read through, invalidate | fill racing with invalidation | stale for a TTL at most |
| Live classes (`live.service.ts`) | session status, attendance rows | schedule, start, end, cancel, join, leave | no status guards; leave twice | durations add up |
| Presence (`socket/`) | map of sockets per process | connect, disconnect | several processes | offline means offline |
| Files (`fileAsset.service.ts`, `storage/`) | `FileAsset` rows, S3 objects | upload, replace, delete | two stores | a row names an object |
| HTTP layer (`app.ts`, `routes/v1`, `middlewares/`) | none between calls | route matching, guards in order | a route shadowed by an earlier one, a guard in the wrong place | a call reaches its own controller, from the callers documented |
| Reports, audit log | rows | insert, one update | none of note | - |
| Search, analytics, mail, templates, live providers, configuration | none, or external | - | - | - |

Interactions: enroll, progress updates, live scheduling and comments call
`notificationService.dispatch`, which writes rows and pushes through Socket.IO.
Progress and live joining ask `enrollmentService.hasActiveEnrollment`. Enroll
and progress both write `CourseProgress`. Deleting a lesson cascades in the
database to `LessonProgress`. Auth and OTP enqueue e-mails for the worker, which
runs the same services in a process of its own.

## 2. Modules

| Module | Models | Used by |
|---|---|---|
| `Enrollment` | enroll, cancel, the recalculated count, one course | `Learning`, `LearningProofs`, `MC_Enrollment` |
| `Learning` | progress updates **composed with** `Enrollment` and curriculum edits | `LearningProofs`, `MC_Learning` |
| `LikeBoard` | abstract: likes and a count that move together | `Likes` (as `Board`) |
| `Likes` | toggleLike | `LikesProofs`, `MC_Likes` |
| `Threads` | posts, comments, replies and their counters | `ThreadsProofs`, `MC_Threads` |
| `Publishing` | changeStatus, attachLessonVideo, curriculum edits, the bucket | `PublishingProofs`, `MC_Publishing` |
| `Otp` | one-time codes: generateAndSend, verify, expiry and cleanup | `Sessions`, `SessionsProofs` |
| `Sessions` | login, refresh, logout, resetPassword **composed with** `Otp` | `MC_Sessions`, `SessionsProofs` |
| `Accounts` | roles, status and soft delete against register, login, refresh, verifyEmail | `MC_Services`, `ServicesProofs` |
| `CacheAside` | `lib/cache.ts` as categories and settings use it | `MC_Services`, `ServicesProofs` |
| `Notifications` | one user's rows and the badge of an open client | `RealtimeProofs`, `MC_Services` |
| `Files` | key columns, file rows, the bucket | `MC_Services`, `ServicesProofs` |
| `Jobs` | e-mail, report and cleanup jobs with attempts, stalls and crashes | `MC_Services`, `ServicesProofs`, `MC_Jobs` |
| `LiveSession` | start, end, cancel, join, leave | `RealtimeProofs`, `MC_Services` |
| `Presence` | socket maps of several processes and their announcements | `RealtimeProofs`, `MC_Services` |
| `Ordering` | sort orders of modules and lessons, reorder | `MC_Services`, `ServicesProofs` |
| `Http` | every route with its guards; matching | `HttpProofs`, `MC_Services` |
| `MC_Services` | the nine services above side by side, one of them at a time | `ServicesProofs` |
| `LikesProofs`, `ThreadsProofs`, `PublishingProofs`, `SessionsProofs` | theorems about the module of that name (and `Otp`) | - |
| `LearningProofs` | theorems about `Enrollment` and `Learning` | - |
| `RealtimeProofs` | theorems about `Notifications`, `LiveSession`, `Presence` | `ServicesProofs` |
| `HttpProofs` | theorems about `Http` | `ServicesProofs` |
| `ServicesProofs` | theorems about the other services and about all nine together | - |

Conventions:

- **A request is a record** `req[r]` (or `upd[r]`) whose `pc` names the next
  statement and whose other fields are the local variables still needed. One
  action is one awaited statement with the code around it. `Requests` bounds
  how many are handled at once; a slot is reused for any number of requests.
- **Error replies** (`throw`) end the request: `Return(r)`. Unique-index
  violations (P2002) and missing rows (P2025) are failure branches of the
  statement; `middlewares/errorHandler.middleware.ts` turns them into 409
  and 404.
- **Deaths** (`RequestDies`, `UpdateDies`, `Dies`) are a statement that the
  database rejects or a process that stops: the request ends and its writes
  stay. `Failures = FALSE` or `MaxDeaths = 0` turns them off.
- **History variables** (marked "history") record what happened, so that a
  property can say *why* a state may be wrong. No guard reads them.
- **Variants** (marked "Variant") are the same operator with a plausible bug;
  nothing uses them. They document which mistake each property would catch.
- Ids are UUIDs: an id that was deleted may be created again in a model only
  when no request still holds it, which stands for a new id.

### How state corresponds to the code

`Enrollment`: `enrollment[u]` is `Enrollment.status` ("none": no row),
`courseProgress[u]` the row without timestamps and percentage. EXPIRED and
COMPLETED enrollments are never written by the code and left out. The course is
one course; `SetPublished`, `CreateLesson`, `DeleteLesson` are the writes of
other components it can observe. Notifications are sent at the end of a
handler and touch nothing here.

`Learning`: `lessonDone[u]` is the set of lessons with a COMPLETED
`LessonProgress`. Watch times and positions do not influence the status and are
left out. The two reads that matter of the `Promise.all` in
`recalculateCourseProgress` run in either order. `completionPercent` enters as
whether it fits its `Decimal(5,2)` column: `PercentBound` is 1000 in the schema.

`Likes`: what `findExisting` returned is "none", "row" or "goneRow": the
delete is by the id of the row found, so a like deleted and created again is a
different row.

`Threads`: `softDelete` is unconditional, so its action is too. Deleting a
comment does not touch its replies, nor a post its comments. `again` counts,
per counter, the deletions of a row that another request had deleted since both
found it live, `lost` the adjustments that died with their request; the
post's counter is under `NoItem`.

`Publishing`: a lesson row is its existence, whether its content type is VIDEO,
and `videoKey`. The three curriculum writes are single actions, since the reads
before them only authorise. An object put by a signed URL is `Upload`.

`Otp`: the rows of one user and one purpose, since every statement filters by
both. A row is "active" while it is unused and unexpired; used and expired rows
answer every statement alike and are both "closed". `before` relates each row to the
newer ones by `createdAt`, which findLatestActive sorts by. Whether the code sent matches is a
free choice. Every caller in the repository leaves `consume` at its default, so
the variant "verify without consuming", which the comment above verify says the
reset uses (`services/otp.service.ts:30`), does not occur: a reset that fails
after verify needs a new code.

`Sessions`: a `RefreshToken` row is its state and its *family*, the login it
descends from; the column does not exist in the schema, it is what rotation
means. The user's password is not a value: `outOfDate` holds the families whose
login read a password that a reset replaced since, `loggedOut` the families
that a logout should have ended: it revoked their valid token, no refresh of
them was in flight and they had not forked. A wrong password, a blocked
account or an expired JWT is an error reply and changes nothing. A request is
in `ses` or in `req` and not in both; the reset passes from Otp's
"verified" to "revokeAll" with the write of the password. A row past its
`expiresAt` leaves the model when cleanup deletes it. register issues its first
token as a login does.

`Accounts`: the user row and the `UserRole` rows. `authenticate` never reads
them, so an access token is the set of roles it was signed with, in `access[u]`
until it expires. Which refresh tokens are valid is `Sessions`' matter; here
only whether there is one. BANNED and the DEACTIVATED of `remove` answer every
check as SUSPENDED does. `inside` holds the users who were let in, or whose
request had passed its checks, at the moment they were blocked.

`CacheAside`: a table is a version number and a cached value the version it was
computed from, so that stale means smaller. Categories are invalidated by
prefix, which is KEYS and then DEL; a setting by one DEL, whose failure fails
the request after the database write. Expiry of an entry is a step of its own.

`Notifications`: a row is read or not, archived or not, and the badge the last
number that arrived. Counting and pushing are separate statements of each
request.

`Files`: `column` stands for the four key columns (course thumbnail and banner,
lesson thumbnail, avatar), which one sequence of statements replaces; `rows` for
`FileAsset` rows and lesson resources. `Objects` are the keys that `buildKey`
makes; it puts a random uuid in each, so no key is made twice.

`Jobs`: a processor is the sequence of its statements; each attempt begins with
the first. `effects` are the statements that took effect, once or more often.
BullMQ itself (attempts, backoff, stalled jobs) is external and modelled as
`queues/index.ts` configures it. The notification queue has a processor, but
nothing calls its producer.

`LiveSession`: one session and one attendee; `durationSec` in ticks. `attended`
is the time between a join and the request to leave, `surplus` what the code
adds or forgets beyond it. `Carried` are the units that a leave has computed and
not yet added to the row.

`Presence`: a process has a map from users to sockets, and an ordered channel
to each other process (the Redis adapter, external).

`Ordering`: create reads the highest number and writes in a later statement;
`reorder` is the one transaction and so one action.

`Http`: a route is its verb, path, guards in registration order, and whom its
`@openapi` comment documents. A call meets the layers of `app.ts` and then the
routes one by one. One role per caller is enough: every guard asks whether
*some* role of the caller is listed.

## 3. Runs

Passing runs:

| Run | Instance | Shows |
|---|---|---|
| `enrollment_race` | 2 learners, 3 requests, deaths | `WrongCountHasCause`, `MissingProgressHasCause` |
| `learning_race` | 1 learner, 1 enroll or cancel, 2 updates, 2 lessons of which one may be added late, one a preview, the percentage overflows | `CompletionAnnounced`, `WrongProgressHasCause`, `FalseCongratulationHasCause` |
| `learning_curriculum` | 2 updates, 1 lesson deleted and recreated | `WrongProgressHasCause`, `SavedPositionKeepsCompletion`, `TotalSetByEnrollOnly` |
| `learning_live` | 1 update, 1 enroll or cancel, 1 lesson deleted and recreated, deaths, fair | `CompletionEventuallyAnnounced`, `EnrolledGetsProgress` |
| `likes` | 2 users, 2 targets, 3 toggles, 1 death | `LikeCountConserved`, `ImplementsBoard`: every toggle is one `Like` or `Unlike` of the board |
| `threads` | 2 comments, 2 replies, 3 requests, 1 death | `CountsConserved`: both counters, with what is in flight or was lost, are the live rows less the repeated deletions |
| `publishing` | 2 lessons, 2 uploads, 2 requests, deaths | `IncompletePublishHasCause`, `DanglingVideoHasCause` |
| `sessions` | 1 user, 2 requests, 2 codes, 2 tokens, one login at a time, 1 attempt, deaths | `OneSessionPerLogin`, `LoggedOutStaysOver`, `SurvivorHasCause`, `OldPasswordSessionHasCause`, `AttemptsBounded`, `AcceptedWhileOverlapping`, `OnlyNewestActive` |
| `services` | nine services, one at a time, each with 2 requests (or 1 call, 1 job) | below |

What `services` shows, per service:

| Service | Instance | Shows |
|---|---|---|
| `Accounts` | 1 user, 2 roles | `RolelessHasCause`, `LockedOutStaysOut`, `LostRoleWearsOff` |
| `CacheAside` | 2 category views, 1 setting, 1 write to each table | `StaleEntryHasCause`: a stale entry is about to be deleted, or a fill overlapped the write, or the invalidation failed |
| `Notifications` | 2 rows | `BadgeHasCause`: a badge is wrong for good only by a late push, an archive, or a lost push |
| `Files` | 1 column, 3 objects | `StoredKeysHaveCause`: a key without an object, and an object without a key, each have their causes |
| `Jobs` | 1 job of any kind, accidents and crashes | `JobsSettle` |
| `LiveSession` | clock to 2, durations to 3 | `AttendanceSound`: durations add up to the time attended, but for leaves without a join; late joins |
| `Presence` | 1 user, 2 processes, 2 sockets, 3 messages under way | `PresenceViewHasCause` |
| `Ordering` | 3 items, numbers to 3 | `SharedOrderHasCause` |
| `Http` | every route, every caller, 2 words for a free parameter, one of them a literal of other routes | `CallersAsDocumented` |

Type invariants are checked once per module, in the run that explores most.

Some wrong states are simply what the code does. The properties there say that
nothing *else* goes wrong and do not report the case itself: a user who is inside
when suspended stays in (`inside` in `LockedOutStaysOut`), a repeated leave
counts an interval again (`surplus` in `AttendanceSound`), a user connected to
two processes is announced offline by the first to let go (`spread` in
`PresenceViewHasCause`), a comment deleted twice lowers the counter twice
(`again` in `CountsConserved`), and a refresh in flight outlives a logout
(`LoggedOutStaysOver` speaks of the logouts that met none).

Violations, each a disagreement between the code and what its own text says:

| Run | Property | What happens |
|---|---|---|
| `learning_preview` | `CongratulatedHaveFinished` | no enrollment: completing one preview lesson of two sends "Course completed!", because without a row the completed count is its own total. Without previews the same happens to an update between enroll's first write and its upsert |
| `publishing_retry` | `SavedVideoExists` | a repeated attach deletes the object whose key it saves |
| `report_job` | `ReportAnnounced` | with nothing failing by accident, a report job uploads a type the storage rules refuse, three times, and the requester is never notified as the reply promised |

Other disagreements seen while modelling, without a run of their own:
`getBySlug` returns a course of any status where its comment says published;
start and cancel of a live session look at no status where their comments say
*scheduled*; the comment in `storage/storage.service.ts:102` gives the order
delete, then upload, and the code does the opposite; the OpenAPI default
requires a token on public routes that do not override it; `maxAttendees` is
enforced nowhere; a socket client is told nothing of who was online before it;
`reorder` does not check that the ids belong to the course or module.

### Bounds

Two actors of a kind are where every race of this code shows, since rows are
per user or per item and handlers never wait for one another; three requests
let a third invalidate what two are holding. One learner is enough in `Learning`: updates of different
users share no row but the course, which they only read. `PercentBound` is
scaled from 1000 to 200 in the passing runs, so that two completed lessons
against a stale total of one already overflow; with 1000 the branch would need
ten. `learning_race`, whose second lesson comes late, reaches that;
`learning_curriculum` has one lesson and does not. `MaxDeaths` is one where deaths are counted. `threads` sets
`CHECK_DEADLOCK FALSE`: its finite ids are used up and its post deleted in the
end; so do `services` and `report_job`, where a call ends, jobs are
done and the clock and ids are used up; all other instances run on for ever.

`services` picks one service in its first state (`part`). The services share no
row, so interleaving them would multiply states and show nothing new. One user
is enough in `Accounts`, `Notifications` and `Presence`, where every statement
is for one user; three objects let two replaces of a column that has one
overlap; one write to each table is enough for a fill to be late. In `Ordering`
two creates take the same number, and with a third item a reorder can name only
some of them.

In `sessions` the ids of one family are enough: a login whose tokens are
all gone from the table may begin again under the same name as a new login, two
tokens are the used one and its successor, and families share nothing but the
sweeps, which treat all alike. That several families at once change nothing is what the
theorems add. `MaxAttempts` is one, so that two overlapping verifications
already meet at the limit.

`CourseEdits` names which staff edits happen in an instance ("status",
"create", "delete"), to keep the curriculum fixed where the question is about
learners alone.

### Fairness

`LearningFairSpec` assumes weak fairness of the steps of a request
that was accepted: Node resumes a handler when its statement is answered, and a
statement that is never answered is a death of its request, which the liveness
run allows and its properties name. Nobody is obliged to send a request, to
publish or to edit. A request's step never is disabled by another request, so
weak fairness suffices. One update is enough there: that two of them do not
leave the announcement to each other is the invariant `CompletionAnnounced`,
checked with two.

`AccFair`: access tokens expire, since time passes. `JobFair`: workers take jobs
that wait and run them, a delay ends and a stalled job is noticed; a worker that
crashed is restarted. Crashes are not fair and may come at any statement.
`LostRoleWearsOff` needs nothing of the requests: a role that stays removed is
not signed into new tokens, whatever they do, once those that read it have
finished or been abandoned.

## 4. Proofs

The TLC runs check small instances; the theorems hold for any learners, targets
and requests (finite sets where cardinalities are taken).

**`LearningProofs`**, *enrollments*: `TypeCorrect`, `WrongCountAlwaysHasCause`,
`MissingProgressAlwaysHasCause`. `WrongCountHasCause` is not inductive: that a
stored count is right depends on the count a request carries. The strengthening
`CarriedCountExact` says that a request at "writeCount" that was not overtaken
carries the number of ACTIVE rows; `WriteStatus` keeps it by marking as overtaken
all requests that carry a count. `MissingProgressHasCause` is inductive with
the types: only enroll's first write makes a learner ACTIVE, and the request
that did so owes the row until its upsert or its death. One lemma per conjunct
and one step per action; frame lemmas serve the actions that leave a conjunct's
variables alone.

*Progress*: `LearningTypeCorrect`, `CompletionAlwaysAnnounced`,
`WrongProgressAlwaysHasCause`, `FalseCongratulationAlwaysHasCause`,
`SavedPositionAlwaysKeepsCompletion`, `TotalAlwaysSetByEnrollOnly`. `ReadStillHolds` relates what an update without a
status writes back to the lesson row it read, unless another update rewrote it;
the action property about saved positions follows. That a completed row is
announced needs the same of the rows that updates have *read* and carry
(`ReadRowsAnnounced`, `CompletedRowsAnnounced`): an update that reads a completed
row does not announce, so somebody else must have. Progress needs
`CarriedProgressExact`: a count that no later change made out of date is the
number of completed lessons. `ProgressExact` says it of the stored rows,
existing or not, and
`AnnouncesCompleted` that an update about to announce found the course completed
by the row and the count it read.
`EnrollmentHoldsWhileLearning` carries the three theorems of `Enrollment` over
to the composition: every step of `Learning` is a step of `Enrollment`, or an
update of the counters of the progress row, which keep its invariant.

**`LikesProofs`**: `TypeCorrect`, `LikeCountAlwaysConserved`,
`LikesImplementBoard`. `LikeCountConserved` is about
cardinalities of sets of requests; the argument is that a write adds one row
and one owed adjustment, an adjustment moves one from owed to stored, and that a
delete that succeeds removes a row: a request still labelled "row" holds the id of one
(`HeldRowExists`, a fact about the labels that only the induction needs), and one
labelled "goneRow" goes on to delete and fails. The history variable `lost` sums
the adjustments that died with their request, so that both the conservation
and the refinement hold with any number of deaths: the board's `count` is the
column plus what is in flight or was lost, and the column is short by exactly
`lost` for good, since the code never recounts it.

**`ThreadsProofs`**: `TypeCorrect`, `CountsAlwaysConserved`. The balance is the one of `LikesProofs` for two
counters. It rests on what a request has in hand before it writes: the id of a
creation has no row and belongs to no other request (`CreatesFresh`), a
deletion saw its row live (`DeletesFound`), and a reply that exists has a
parent (`RepliesHaveParents`). A soft delete of a row that another request has
deleted takes one from the counter and nothing from the live rows: `again`
counts it, so the equation holds without conditions, however often a row is
deleted and whoever dies. Without the history it says that the post never
claims more comments than it has, but for one per death (`LostBounded`).

**`SessionsProofs`**, codes (`Otp`): `OtpTypeCorrect`, `AttemptsAlwaysBounded`,
`AcceptedAlwaysOverlapping`, `OnlyNewestAlwaysActive`. The second and third
count what is in flight, which makes them inductive with the types. A
verification that read a code below the limit is a charge on it until it is
counted; attempts and charges together stay below `MaxAttempts` plus the
requests there are, since a new charge is only made while attempts are below
the limit and no request makes two at once. The acceptances are bounded in the
same way: once a code is accepted it is closed, and no new request finds it.
`OnlyNewestAlwaysActive` needs that `before` orders the rows, so that a new row
comes after every other, and that a generation which swept the codes closed all
but those created meanwhile.

**`SessionsProofs`**, sessions: `SessionsUseOtp` shows that every behaviour of
the composition is one of `Otp`, so that what is proved there holds here
(`SessionsAttemptsBounded`, `SessionsCodesKept`); `SesTypeCorrect`.
`OneSessionAlways` needs to know that a refresh
about to revoke holds a token of its own login (`HeldTokenOfLogin`): then
rotation takes a token from the valid ones for the one it is about to issue.
`LoggedOutAlwaysStaysOver`, `SurvivorAlwaysHasCause` and
`OldPasswordSessionAlwaysHasCause` are about logins
that have *ended* (`Ended`: no valid token and no request on its way to one): a
sweep ends every login that no request is busy with, so does a logout of the
one valid token such a login has, and what has ended stays so. `SesInv` is the conjunction; one lemma per conjunct.

**`PublishingProofs`**: `TypeCorrect`, `IncompletePublishAlwaysHasCause`,
`DanglingVideoAlwaysHasCause`. The causes need what a request knows.
`GateHolds` says that what a publish request has seen (a lesson; then a complete
course) still holds unless an edit overtook it: the gate's two reads together
are `Complete` (`GateReads`), and saving a video keeps a course complete. For
the videos, `KeysAccountedFor` says that every key on a lesson, and every key a
request will delete, was saved before, and that one met twice was saved twice;
`CheckedUploads` that a checked object is there unless its key had been saved.
So the object a request deletes is missed only by the lesson it is about to
rewrite. `Shaped` lists what the locals of a request are at each step. The
forms (`GotoForm`, `WritesKeyForm`, ...) say once what an action does to its
request and its lesson, and frame lemmas (`SlotKeeps...`) do the rest.

**`RealtimeProofs`**. *Badge* (`NtTypeCorrect`, `BadgeAlwaysHasCause`): it needs
`CarriedExact` (a request that was not overtaken carries the number of unread
rows) and `OnlyPushesOvertaken`. *Attendance* (`LsTypeCorrect`,
`AttendanceAlwaysSound`): the sum of the durations is over what the row holds
and what the leaves carry, so the lemmas are about that sum (`UnitsSplit`,
`CarriedBySome`: a request's units are a set of their own, of as many members
as it carries). The invariant adds that only a leave carries units and that no
join lies in the future. *Presence* (`PreTypeCorrect`,
`PresenceViewAlwaysHasCause`): a view is what the last announcement said, so
the invariant is about the last one under way (`LastAnnounced`: it says how
things are) and about the views once none is under way (`ViewRight`), for the
users that had sockets at one process only and were not cut off by a crash; for
them one process makes all announcements (`OneInvolved`), and its channel keeps
them in order.

**`ServicesProofs`**. *Accounts* (`AccTypeCorrect`, `RolelessAlwaysHasCause`,
`LockedOutAlwaysStaysOut`): `ActsOnRow` says that a request past its read has a
row to act on, `GuardStands` that a removal not overtaken since its guard
leaves a role; with them `RolelessHasCause` is inductive. `LockedOutStaysOut`
is inductive with the types: who is outside holds no token and no request that
would give one, and every way in starts with a check of the status. *Cache*
(`CaTypeCorrect`, `StaleEntryAlwaysHasCause`): inductive with the types, because
the history marks the fills a write overtakes. *Files* (`FlTypeCorrect`,
`StoredKeysAlwaysHaveCause`), by ownership: a new object is its request's alone
until it is named (`NewIsItsAlone`), no key is named twice (`NamedOnce`), an old
key is where the request read it or nowhere (`OldAtHome`), and what was deleted
is owed or torn (`DeletedOrLeft`). *Sort orders* (`OrdTypeCorrect`,
`SharedOrderAlwaysHasCause`): a create that nothing overtook holds a number
above all in use (`NextIsFree`), since `NextSortOrder` is one more than the
highest (`HighestExists`, from the well-foundedness of the naturals). *Jobs*:
`JobTypeCorrect`.

**`HttpProofs`**: `HttpTypeCorrect`, `CallersAlwaysAsDocumented`, for any set
`Words` of what clients write for a free parameter. Two facts are read off each
of the 21 route tables. Its guards fit (`Fits`): among the guards of a route and
of its router is the one that lets in the documented callers, where a role is
documented no other role check, where everyone is none at all, and a role check
in a route comes after authenticate. And it is orderly (`Orderly`): a route
differs from every later one by verb, by length, or by a literal where the later
path has no free parameter, so that it takes none of its calls, whatever the
word. The tables of a router are joined by `TablesJoin`
and `OrderlyJoin`. Along a call, the guards passed stay satisfied by its caller
(`GuardsPassed`) and the routes tried did not match (`RoutesTried`), so that the
route whose guards run is the one meant.

**`ServicesProofs`**, *together*: `ServicesKeepApart` says that a behaviour of `ServicesSpec`, which
runs one service, is a behaviour of each of the nine specifications, since a
step of one leaves the variables of the others alone. What is proved of each
alone therefore holds in the composition that TLC explores:
`ServicesTypeCorrect` and `ServicesSound`, the conjunction of the nine other
invariants of the run `services`.

Assumptions are those of the modules (`...Assumption` in each that needs
any): finite sets, distinguished values and bounds that are numbers. TLC
evaluates them in every run. `Presence` assumes finitely many processes, which
`spread` counts.

Only model-checked: liveness (`CompletionEventuallyAnnounced`,
`EnrolledGetsProgress`, `LostRoleWearsOff`, `JobsSettle`), since the prover does
not handle fairness and ENABLED. Every safety invariant that a run finds to hold
is also proved.
`SavedVideoExists`, `ReportAnnounced` and `CongratulatedHaveFinished` are false.
Recursive computations over data would be out of the prover's reach; the modules
have none.

## 5. Not modelled, and the plan

Left out because nothing is decided on a value read before: moderation reports
(one insert, one unguarded update), the audit log (one insert that nothing reads
back), `pinPost` and `toggleBookmark` (one row, no counter), course create,
update and soft delete, live `schedule`, profile fields. Left out because no
caller reaches them: the producer of the notification queue, `replaceFile`,
verify without consuming. Left out as read only, formatting or external: search
and analytics, mail, templates, live providers, configuration, OpenAPI and seed
data, the rooms of the sockets, rate limits (a limiter may refuse any call),
logging. The expiry of refresh tokens and codes is in `Sessions` and `Otp`; the
TTL of the cache is a step, its length is not.

Next, in this order:

1. `Notifications` composed with `Jobs`, once a producer of the notification
   queue is called.
2. `pinPost`, `toggleBookmark` and soft deletion of a course with what still
   refers to it.

## 6. Running

```
tlc -workers 2 -config MC_Enrollment_race.cfg MC_Enrollment.tla
tlapm LearningProofs.tla
tlapm ServicesProofs.tla      # several minutes
```
