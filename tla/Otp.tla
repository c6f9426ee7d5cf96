---------------------------------- MODULE Otp ----------------------------------
(***************************************************************************)
(* otp.service.ts for one user and one purpose: every statement of it      *)
(* filters by both.  generateAndSend invalidates the old codes and creates *)
(* a new one; verify reads the newest active code, compares, and either    *)
(* counts a failed attempt or marks the code used.  Both are several       *)
(* statements, and a user who resends or submits twice overlaps them.      *)
(*                                                                         *)
(* The handler that called verify goes on at "verified"; what it does      *)
(* there is its own business (module Sessions has resetPassword).          *)
(***************************************************************************)
EXTENDS Naturals, FiniteSets

CONSTANTS
  Codes,       \* ids of OtpCode rows
  Requests,    \* slots for requests handled at once
  NoCode,      \* the code of a request that holds none
  MaxAttempts, \* env.OTP_MAX_ATTEMPTS
  Failures     \* may a request die (rejected statement, killed server)?

ASSUME OtpAssumption ==
  /\ IsFiniteSet(Requests) /\ Requests # {}
  /\ NoCode \notin Codes
  /\ MaxAttempts \in Nat
  /\ Failures \in BOOLEAN

VARIABLES
  codes,    \* the rows: "free" is an id that no row has
  before,   \* pairs of rows, the first with the earlier createdAt
  req,      \* the requests in flight
  accepted, \* history: per code, how many verifications accepted it
  crossed,  \* history: generates during which another code was created
  doubled   \* history: the last create left an older code active

otpHistory == <<accepted, crossed, doubled>>
otpVars    == <<codes, before, req, otpHistory>>

\* "closed": isUsed or past expiresAt, which no statement tells apart.
CodeRow == [state : {"free", "active", "closed"}, attempts : Nat]
Free    == [state |-> "free", attempts |-> 0]

OtpSteps == {"idle", "createCode", "increment", "markUsed", "verified"}
OtpRequest == [pc : OtpSteps, code : Codes \cup {NoCode}]
IdleOtp == [pc |-> "idle", code |-> NoCode]

OtpAt(r, step)   == req[r].pc = step
OtpGoto(r, step) == req' = [req EXCEPT ![r].pc = step]
OtpReturn(r)     == req' = [req EXCEPT ![r] = IdleOtp]

Exists(c) == codes[c].state # "free"
Active    == {c \in Codes : codes[c].state = "active"}

\* The rows created after c's.
After(c)  == {d \in Codes : <<c, d>> \in before}

-------------------------------------------------------------------------------
(* generateAndSend                                                         *)

\* Variant: only the newest code is invalidated.
InvalidatesNewest(c) ==
  IF Exists(c) /\ After(c) = {} THEN "closed" ELSE codes[c].state

\* invalidateActiveForPurpose: every code not used, expired or not.
Invalidates(c) == IF Exists(c) THEN "closed" ELSE "free"

GenerateInvalidates(r) ==
  /\ OtpAt(r, "idle")
  /\ codes' = [c \in Codes |-> [codes[c] EXCEPT !.state = Invalidates(c)]]
  /\ OtpGoto(r, "createCode")
  /\ crossed' = crossed \ {r}
  /\ doubled' = FALSE
  /\ UNCHANGED <<before, accepted>>

\* The row is created with the schema's defaults; the e-mail follows.
GenerateCreates(r, c) ==
  /\ OtpAt(r, "createCode")
  /\ codes[c] = Free
  /\ \A q \in Requests : req[q].code # c
  /\ codes' = [codes EXCEPT ![c].state = "active"]
  /\ before' = before \cup {<<d, c>> : d \in {e \in Codes : Exists(e)}}
  /\ accepted' = [accepted EXCEPT ![c] = 0]
  /\ crossed' = (crossed \ {r}) \cup {q \in Requests \ {r} : OtpAt(q, "createCode")}
  /\ doubled' = (r \in crossed /\ Active # {})
  /\ OtpReturn(r)

-------------------------------------------------------------------------------
(* verify                                                                  *)

\* Variant: off by one.
ExhaustedLate(c) == codes[c].attempts > MaxAttempts

\* otp.attempts >= OTP_MAX_ATTEMPTS
Exhausted(c) == codes[c].attempts >= MaxAttempts

\* findLatestActive: unused, unexpired, the newest of them.
LatestActive(c) ==
  /\ c \in Active
  /\ After(c) \cap Active = {}

\* No active code, or one that is exhausted, is an error and changes
\* nothing.  The code sent by the client matches or not.
VerifyFinds(r, c, matches) ==
  /\ OtpAt(r, "idle")
  /\ LatestActive(c)
  /\ ~Exhausted(c)
  /\ req' = [req EXCEPT ![r] =
       [pc |-> IF matches THEN "markUsed" ELSE "increment", code |-> c]]
  /\ UNCHANGED <<codes, before, otpHistory>>

\* Both updates are by id and fail (P2025) when cleanup deleted the row.
VerifyCountsAttempt(r) ==
  LET c == req[r].code IN
  /\ OtpAt(r, "increment")
  /\ codes' = IF Exists(c) THEN [codes EXCEPT ![c].attempts = @ + 1] ELSE codes
  /\ OtpReturn(r)
  /\ UNCHANGED <<before, otpHistory>>

\* Variant: verification without consuming (consume = false).
KeepsState(c) == codes[c].state

\* markUsed, whatever the row says by now.
MarkedState(c) == "closed"

VerifyMarksUsed(r) ==
  LET c == req[r].code IN
  /\ OtpAt(r, "markUsed")
  /\ \/ /\ ~Exists(c)
        /\ OtpReturn(r)
        /\ UNCHANGED <<codes, accepted>>
     \/ /\ Exists(c)
        /\ codes' = [codes EXCEPT ![c].state = MarkedState(c)]
        /\ accepted' = [accepted EXCEPT ![c] = @ + 1]
        /\ req' = [req EXCEPT ![r] = [IdleOtp EXCEPT !.pc = "verified"]]
  /\ UNCHANGED <<before, crossed, doubled>>

\* The caller of verify goes on.
CallerReturns(r) ==
  /\ OtpAt(r, "verified")
  /\ OtpReturn(r)
  /\ UNCHANGED <<codes, before, otpHistory>>

-------------------------------------------------------------------------------
OtpDies(r) ==
  /\ Failures
  /\ ~OtpAt(r, "idle")
  /\ OtpReturn(r)
  /\ crossed' = crossed \ {r}
  /\ UNCHANGED <<codes, before, accepted, doubled>>

Expire(c) ==
  /\ codes[c].state = "active"
  /\ codes' = [codes EXCEPT ![c].state = "closed"]
  /\ UNCHANGED <<before, req, otpHistory>>

\* The daily job EXPIRED_OTPS: one deleteMany of expired and used rows.
Cleanup ==
  LET gone == {c \in Codes : codes[c].state = "closed"} IN
  /\ gone # {}
  /\ codes' = [c \in Codes |-> IF c \in gone THEN Free ELSE codes[c]]
  /\ before' = {p \in before : p[1] \notin gone /\ p[2] \notin gone}
  /\ UNCHANGED <<req, otpHistory>>

-------------------------------------------------------------------------------
OtpInit ==
  /\ codes = [c \in Codes |-> Free]
  /\ before = {}
  /\ req = [r \in Requests |-> IdleOtp]
  /\ accepted = [c \in Codes |-> 0]
  /\ crossed = {}
  /\ doubled = FALSE

\* The steps of a request inside otp.service.ts.
OtpStep(r) ==
  \/ GenerateInvalidates(r)
  \/ \E c \in Codes : GenerateCreates(r, c)
  \/ \E c \in Codes, matches \in BOOLEAN : VerifyFinds(r, c, matches)
  \/ VerifyCountsAttempt(r)
  \/ VerifyMarksUsed(r)

OtpTime == Cleanup \/ \E c \in Codes : Expire(c)

OtpNext ==
  \/ \E r \in Requests : OtpStep(r) \/ CallerReturns(r) \/ OtpDies(r)
  \/ OtpTime

OtpSpec == OtpInit /\ [][OtpNext]_otpVars

-------------------------------------------------------------------------------
OtpTypes ==
  /\ codes \in [Codes -> CodeRow]
  /\ req \in [Requests -> OtpRequest]
  /\ \A r \in Requests :
       req[r].code \in Codes <=> req[r].pc \in {"increment", "markUsed"}
  /\ accepted \in [Codes -> Nat]
  /\ crossed \in SUBSET Requests
  /\ doubled \in BOOLEAN

OtpTypeOK ==
  /\ OtpTypes
  /\ before \subseteq {c \in Codes : Exists(c)} \X {c \in Codes : Exists(c)}
  /\ \A c, d \in Codes :
       Exists(c) /\ Exists(d) /\ c # d => (c \in After(d) <=> d \notin After(c))
  /\ \A c \in Codes : c \notin After(c)

Counting(c)  == {r \in Requests : OtpAt(r, "increment") /\ req[r].code = c}
Accepting(c) == {r \in Requests : OtpAt(r, "markUsed") /\ req[r].code = c}

(* OTP_MAX_ATTEMPTS is read several statements before the attempt is       *)
(* counted, so requests that overlap can exceed it; however they do, the   *)
(* failed attempts on one code, counted and in flight, exceed it by less   *)
(* than the number of requests handled at once.                            *)
AttemptsBounded ==
  \A c \in Codes :
    Exists(c) => codes[c].attempts + Cardinality(Counting(c))
                   < MaxAttempts + Cardinality(Requests)

(* A code is good for one verification: whatever is accepted beyond the    *)
(* first was in flight together with it, so the acceptances, made and to   *)
(* come, are never more than the requests handled at once.                 *)
AcceptedWhileOverlapping ==
  \A c \in Codes :
    Exists(c) =>
      /\ accepted[c] + Cardinality(Accepting(c)) <= Cardinality(Requests)
      /\ accepted[c] > 0 => c \notin Active

(* After a resend only the newest code is accepted: an older one is active *)
(* only if two generateAndSend overlapped, one invalidating before and     *)
(* creating after the other created.                                       *)
OnlyNewestActive ==
  \A c \in Active : After(c) = {} \/ doubled
================================================================================
