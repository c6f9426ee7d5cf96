----------------------------- MODULE SessionsProofs -----------------------------
(***************************************************************************)
(* Theorems about Sessions and the one-time codes (Otp) it is composed     *)
(* with, for any number of codes, logins, tokens and requests and any      *)
(* limit of attempts.                                                      *)
(*                                                                         *)
(* Codes: both bounds count requests.  A request that was let through      *)
(* because of what it read is charged to the code until it has written,    *)
(* and at the moment it is let through the code has room for all requests. *)
(* That only the newest code is active rests on the invalidation that a    *)
(* generate nobody crossed still finds standing when it creates.           *)
(*                                                                         *)
(* Sessions: that a login keeps one session needs to know that a refresh   *)
(* about to revoke holds a token of its own login or none; what survives a *)
(* logout, or a sweep of all tokens, is decided by the logins that have    *)
(* ended: no valid token and no request on its way to one.                 *)
(***************************************************************************)
EXTENDS Sessions, FiniteSetTheorems, TLAPS

(* The one-time codes.                                                     *)

OtpInv == OtpTypes /\ AttemptsBounded /\ AcceptedWhileOverlapping

LEMMA RequestsCounted ==
  Cardinality(Requests) \in Nat /\ Cardinality(Requests) > 0
  BY OtpAssumption, FS_CardinalityType, FS_EmptySet

LEMMA ChargedFinite ==
  \A c \in Codes :
    /\ IsFiniteSet(Counting(c)) /\ Cardinality(Counting(c)) \in Nat
    /\ IsFiniteSet(Accepting(c)) /\ Cardinality(Accepting(c)) \in Nat
    /\ Cardinality(Counting(c)) <= Cardinality(Requests)
    /\ Cardinality(Accepting(c)) <= Cardinality(Requests)
  <1> SUFFICES ASSUME NEW c \in Codes
               PROVE  /\ IsFiniteSet(Counting(c))
                      /\ Cardinality(Counting(c)) \in Nat
                      /\ IsFiniteSet(Accepting(c))
                      /\ Cardinality(Accepting(c)) \in Nat
                      /\ Cardinality(Counting(c)) <= Cardinality(Requests)
                      /\ Cardinality(Accepting(c)) <= Cardinality(Requests)
    OBVIOUS
  <1>1. Counting(c) \subseteq Requests /\ Accepting(c) \subseteq Requests
    BY DEF Counting, Accepting
  <1>2. QED
    BY <1>1, OtpAssumption, FS_Subset, FS_CardinalityType

LEMMA OtpInitInv == OtpInit => OtpInv
  <1> SUFFICES ASSUME OtpInit PROVE OtpInv
    OBVIOUS
  <1>1. OtpTypes
    BY OtpAssumption
    DEF OtpInit, OtpTypes, CodeRow, Free, OtpRequest, OtpSteps, IdleOtp
  <1>2. \A c \in Codes : ~Exists(c)
    BY DEF OtpInit, Exists, Free
  <1>3. QED
    BY <1>1, <1>2 DEF OtpInv, AttemptsBounded, AcceptedWhileOverlapping

-------------------------------------------------------------------------------
LEMMA StepOtpTypes == OtpTypes /\ [OtpNext]_otpVars => OtpTypes'
  <1> SUFFICES ASSUME OtpTypes, [OtpNext]_otpVars PROVE OtpTypes'
    OBVIOUS
  <1> USE OtpAssumption DEF OtpTypes, OtpAt, OtpGoto, OtpReturn, IdleOtp,
        OtpRequest, OtpSteps, otpHistory
  <1>1. ASSUME NEW r \in Requests, GenerateInvalidates(r) PROVE OtpTypes'
    BY <1>1 DEF GenerateInvalidates, Invalidates, CodeRow
  <1>2. ASSUME NEW r \in Requests, NEW c \in Codes, GenerateCreates(r, c)
        PROVE  OtpTypes'
    <2>1. codes' \in [Codes -> CodeRow]
      BY <1>2 DEF GenerateCreates, CodeRow
    <2>2. QED
      BY <1>2, <2>1 DEF GenerateCreates
  <1>3. ASSUME NEW r \in Requests, NEW c \in Codes, NEW matches \in BOOLEAN,
               VerifyFinds(r, c, matches)
        PROVE  OtpTypes'
    BY <1>3 DEF VerifyFinds
  <1>4. ASSUME NEW r \in Requests, VerifyCountsAttempt(r) PROVE OtpTypes'
    <2>1. codes' \in [Codes -> CodeRow]
      BY <1>4 DEF VerifyCountsAttempt, CodeRow
    <2>2. QED
      BY <1>4, <2>1 DEF VerifyCountsAttempt
  <1>5. ASSUME NEW r \in Requests, VerifyMarksUsed(r) PROVE OtpTypes'
    <2>1. codes' \in [Codes -> CodeRow]
      BY <1>5 DEF VerifyMarksUsed, CodeRow, MarkedState
    <2>2. accepted' \in [Codes -> Nat]
      BY <1>5 DEF VerifyMarksUsed
    <2>3. QED
      BY <1>5, <2>1, <2>2 DEF VerifyMarksUsed
  <1>6. ASSUME NEW r \in Requests, CallerReturns(r) PROVE OtpTypes'
    BY <1>6 DEF CallerReturns
  <1>7. ASSUME NEW r \in Requests, OtpDies(r) PROVE OtpTypes'
    BY <1>7 DEF OtpDies
  <1>8. ASSUME NEW c \in Codes, Expire(c) PROVE OtpTypes'
    BY <1>8 DEF Expire, CodeRow
  <1>9. CASE Cleanup
    BY <1>9 DEF Cleanup, CodeRow, Free
  <1>10. CASE UNCHANGED otpVars
    BY <1>10 DEF otpVars
  <1>11. QED
    BY <1>1, <1>2, <1>3, <1>4, <1>5, <1>6, <1>7, <1>8, <1>9, <1>10
    DEF OtpNext, OtpStep, OtpTime

-------------------------------------------------------------------------------
(* Steps that charge nothing new to a code keep its bounds.                *)

AttemptsBound(c) ==
  Exists(c) => codes[c].attempts + Cardinality(Counting(c))
                 < MaxAttempts + Cardinality(Requests)
AcceptedBound(c) ==
  Exists(c) =>
    /\ accepted[c] + Cardinality(Accepting(c)) <= Cardinality(Requests)
    /\ accepted[c] > 0 => c \notin Active

LEMMA NoNewCharge ==
  ASSUME OtpTypes, OtpTypes', NEW c \in Codes,
         Exists(c)' => Exists(c),
         Exists(c)' => codes'[c].attempts = codes[c].attempts,
         Counting(c)' \subseteq Counting(c),
         AttemptsBound(c)
  PROVE  AttemptsBound(c)'
  <1>1. Cardinality(Counting(c)') <= Cardinality(Counting(c))
    BY ChargedFinite, FS_Subset
  <1>2. Cardinality(Counting(c)') \in Nat
    BY ChargedFinite, FS_Subset, FS_CardinalityType
  <1>3. Exists(c)' => codes[c].attempts \in Nat
    BY DEF OtpTypes, CodeRow
  <1>4. QED
    BY <1>1, <1>2, <1>3, ChargedFinite, RequestsCounted, OtpAssumption
    DEF AttemptsBound

LEMMA NoNewAcceptance ==
  ASSUME OtpTypes, OtpTypes', NEW c \in Codes,
         Exists(c)' => Exists(c),
         Exists(c)' => accepted'[c] = accepted[c],
         c \in Active' => c \in Active,
         Accepting(c)' \subseteq Accepting(c),
         AcceptedBound(c)
  PROVE  AcceptedBound(c)'
  <1>1. Cardinality(Accepting(c)') <= Cardinality(Accepting(c))
    BY ChargedFinite, FS_Subset
  <1>2. Cardinality(Accepting(c)') \in Nat
    BY ChargedFinite, FS_Subset, FS_CardinalityType
  <1>3. accepted[c] \in Nat
    BY DEF OtpTypes
  <1>4. QED
    BY <1>1, <1>2, <1>3, ChargedFinite, RequestsCounted DEF AcceptedBound

LEMMA QuietStep ==
  ASSUME OtpInv, OtpTypes', NEW c \in Codes,
         Exists(c)' => Exists(c),
         Exists(c)' => codes'[c].attempts = codes[c].attempts,
         accepted'[c] = accepted[c],
         c \in Active' => c \in Active,
         Counting(c)' \subseteq Counting(c),
         Accepting(c)' \subseteq Accepting(c)
  PROVE  AttemptsBound(c)' /\ AcceptedBound(c)'
  BY NoNewCharge, NoNewAcceptance
  DEF OtpInv, AttemptsBounded, AcceptedWhileOverlapping, AttemptsBound,
      AcceptedBound

-------------------------------------------------------------------------------
(* The steps that do charge or settle, then all of them.                   *)

LEMMA FindsCharges ==
  ASSUME OtpInv, OtpTypes', NEW r \in Requests, NEW d \in Codes,
         NEW matches \in BOOLEAN, VerifyFinds(r, d, matches), NEW c \in Codes
  PROVE  AttemptsBound(c)' /\ AcceptedBound(c)'
  <1>1. /\ codes' = codes /\ accepted' = accepted
        /\ Exists(c)' = Exists(c) /\ Active' = Active
    BY DEF VerifyFinds, Exists, Active, otpHistory
  <1>2. CASE c # d
    <2>1. Counting(c)' \subseteq Counting(c) /\ Accepting(c)' \subseteq Accepting(c)
      BY <1>2 DEF VerifyFinds, Counting, Accepting, OtpAt, OtpInv, OtpTypes
    <2>2. QED
      BY <1>1, <2>1, QuietStep
  <1>3. CASE c = d
    <2>1. codes[c].attempts < MaxAttempts /\ c \in Active /\ Exists(c)
      BY <1>3, OtpAssumption
      DEF VerifyFinds, Exhausted, LatestActive, Active, Exists, OtpInv,
          OtpTypes, CodeRow
    <2>2. accepted[c] = 0
      BY <2>1 DEF OtpInv, AcceptedWhileOverlapping, OtpTypes
    <2>3. Counting(c)' \subseteq Requests /\ Accepting(c)' \subseteq Requests
      BY DEF Counting, Accepting
    <2>4. /\ Cardinality(Counting(c)') \in Nat
          /\ Cardinality(Counting(c)') <= Cardinality(Requests)
          /\ Cardinality(Accepting(c)') \in Nat
          /\ Cardinality(Accepting(c)') <= Cardinality(Requests)
      BY <2>3, OtpAssumption, FS_Subset, FS_CardinalityType
    <2>5. codes[c].attempts \in Nat
      BY DEF OtpInv, OtpTypes, CodeRow
    <2>6. AttemptsBound(c)'
      BY <1>1, <2>1, <2>4, <2>5, RequestsCounted, OtpAssumption
      DEF AttemptsBound
    <2>7. AcceptedBound(c)'
      BY <1>1, <2>2, <2>4, RequestsCounted DEF AcceptedBound
    <2>8. QED
      BY <2>6, <2>7
  <1>4. QED
    BY <1>2, <1>3

LEMMA CreateStartsFresh ==
  ASSUME OtpInv, OtpTypes', NEW r \in Requests, NEW d \in Codes,
         GenerateCreates(r, d), NEW c \in Codes
  PROVE  AttemptsBound(c)' /\ AcceptedBound(c)'
  <1>1. /\ Counting(c)' \subseteq Counting(c)
        /\ Accepting(c)' \subseteq Accepting(c)
    BY DEF GenerateCreates, OtpReturn, IdleOtp, Counting, Accepting, OtpAt,
           OtpInv, OtpTypes
  <1>2. CASE c # d
    <2>1. codes'[c] = codes[c] /\ accepted'[c] = accepted[c]
      BY <1>2 DEF GenerateCreates, OtpInv, OtpTypes
    <2>2. QED
      BY <1>1, <2>1, QuietStep DEF Exists, Active
  <1>3. CASE c = d
    <2>1. Counting(c) = {} /\ Accepting(c) = {}
      BY <1>3 DEF GenerateCreates, Counting, Accepting
    <2>2. Cardinality(Counting(c)') = 0 /\ Cardinality(Accepting(c)') = 0
      BY <1>1, <2>1, FS_EmptySet
    <2>3. codes'[c].attempts = 0 /\ accepted'[c] = 0
      BY <1>3 DEF GenerateCreates, Free, OtpInv, OtpTypes
    <2>4. QED
      BY <2>2, <2>3, RequestsCounted, OtpAssumption
      DEF AttemptsBound, AcceptedBound
  <1>4. QED
    BY <1>2, <1>3

LEMMA CountSettles ==
  ASSUME OtpInv, OtpTypes', NEW r \in Requests, VerifyCountsAttempt(r),
         NEW c \in Codes
  PROVE  AttemptsBound(c)' /\ AcceptedBound(c)'
  <1>1. /\ Counting(c)' = Counting(c) \ {r}
        /\ Accepting(c)' \subseteq Accepting(c)
    BY DEF VerifyCountsAttempt, OtpReturn, IdleOtp, Counting, Accepting, OtpAt,
           OtpInv, OtpTypes
  <1>2. CASE c # req[r].code \/ ~Exists(req[r].code)
    <2>1. codes'[c] = codes[c] /\ accepted'[c] = accepted[c]
      BY <1>2 DEF VerifyCountsAttempt, OtpInv, OtpTypes, otpHistory
    <2>2. QED
      BY <1>1, <2>1, QuietStep DEF Exists, Active
  <1>3. CASE c = req[r].code /\ Exists(c)
    <2>1. /\ codes'[c].attempts = codes[c].attempts + 1
          /\ codes'[c].state = codes[c].state
          /\ accepted'[c] = accepted[c]
      BY <1>3 DEF VerifyCountsAttempt, OtpInv, OtpTypes, CodeRow, otpHistory
    <2>2. r \in Counting(c)
      BY <1>3 DEF VerifyCountsAttempt, Counting
    <2>3. Cardinality(Counting(c)') = Cardinality(Counting(c)) - 1
      BY <1>1, <2>2, ChargedFinite, FS_RemoveElement
    <2>4. codes[c].attempts \in Nat
      BY DEF OtpInv, OtpTypes, CodeRow
    <2>5. codes[c].attempts + Cardinality(Counting(c))
            < MaxAttempts + Cardinality(Requests)
      BY <1>3 DEF OtpInv, AttemptsBounded
    <2>6. AttemptsBound(c)'
      BY <2>1, <2>3, <2>4, <2>5, ChargedFinite, RequestsCounted, OtpAssumption
      DEF AttemptsBound
    <2>7. AcceptedBound(c)'
      <3>1. AcceptedBound(c)
        BY DEF OtpInv, AcceptedWhileOverlapping, AcceptedBound
      <3>2. Exists(c)' = Exists(c) /\ (c \in Active' => c \in Active)
        BY <2>1 DEF Exists, Active
      <3>3. QED
        BY <1>1, <2>1, <3>1, <3>2, NoNewAcceptance DEF OtpInv
    <2>8. QED
      BY <2>6, <2>7
  <1>4. QED
    BY <1>2, <1>3

LEMMA MarkSettles ==
  ASSUME OtpInv, OtpTypes', NEW r \in Requests, VerifyMarksUsed(r),
         NEW c \in Codes
  PROVE  AttemptsBound(c)' /\ AcceptedBound(c)'
  <1>1. /\ Counting(c)' \subseteq Counting(c)
        /\ Accepting(c)' = Accepting(c) \ {r}
    BY DEF VerifyMarksUsed, OtpReturn, IdleOtp, Counting, Accepting, OtpAt,
           OtpInv, OtpTypes
  <1>2. CASE c # req[r].code \/ ~Exists(req[r].code)
    <2>1. codes'[c] = codes[c] /\ accepted'[c] = accepted[c]
      BY <1>2 DEF VerifyMarksUsed, OtpInv, OtpTypes
    <2>2. QED
      BY <1>1, <2>1, QuietStep DEF Exists, Active
  <1>3. CASE c = req[r].code /\ Exists(c)
    <2>1. /\ codes'[c].attempts = codes[c].attempts
          /\ codes'[c].state = "closed"
          /\ accepted'[c] = accepted[c] + 1
      <3>1. /\ codes' = [codes EXCEPT ![c].state = "closed"]
            /\ accepted' = [accepted EXCEPT ![c] = @ + 1]
        BY <1>3 DEF VerifyMarksUsed, MarkedState
      <3>2. codes \in [Codes -> CodeRow] /\ accepted \in [Codes -> Nat]
        BY DEF OtpInv, OtpTypes
      <3>3. QED
        BY <3>1, <3>2 DEF CodeRow
    <2>2. r \in Accepting(c)
      BY <1>3 DEF VerifyMarksUsed, Accepting
    <2>3. Cardinality(Accepting(c)') = Cardinality(Accepting(c)) - 1
      BY <1>1, <2>2, ChargedFinite, FS_RemoveElement
    <2>4. accepted[c] \in Nat /\ c \notin Active'
      BY <2>1 DEF OtpInv, OtpTypes, Active
    <2>5. accepted[c] + Cardinality(Accepting(c)) <= Cardinality(Requests)
      BY <1>3 DEF OtpInv, AcceptedWhileOverlapping
    <2>6. AcceptedBound(c)'
      BY <2>1, <2>3, <2>4, <2>5, ChargedFinite, RequestsCounted
      DEF AcceptedBound
    <2>7. AttemptsBound(c)'
      <3>1. AttemptsBound(c)
        BY DEF OtpInv, AttemptsBounded, AttemptsBound
      <3>2. QED
        BY <1>1, <1>3, <2>1, <3>1, NoNewCharge DEF OtpInv
    <2>8. QED
      BY <2>6, <2>7
  <1>4. QED
    BY <1>2, <1>3

LEMMA StepBounds ==
  ASSUME OtpInv, OtpTypes', [OtpNext]_otpVars, NEW c \in Codes
  PROVE  AttemptsBound(c)' /\ AcceptedBound(c)'
  <1> USE DEF Counting, Accepting, OtpAt, OtpReturn, IdleOtp, Exists, Active,
              otpHistory
  <1>1. ASSUME NEW r \in Requests, GenerateInvalidates(r)
        PROVE  AttemptsBound(c)' /\ AcceptedBound(c)'
    <2>1. /\ codes'[c].attempts = codes[c].attempts
          /\ codes'[c].state = Invalidates(c)
      BY <1>1 DEF GenerateInvalidates, OtpInv, OtpTypes, CodeRow
    <2>2. Counting(c)' \subseteq Counting(c) /\ Accepting(c)' \subseteq Accepting(c)
      BY <1>1 DEF GenerateInvalidates, OtpGoto, OtpInv, OtpTypes, OtpRequest
    <2>3. accepted' = accepted
      BY <1>1 DEF GenerateInvalidates
    <2>4. QED
      BY <2>1, <2>2, <2>3, QuietStep DEF Invalidates
  <1>2. ASSUME NEW r \in Requests, CallerReturns(r) \/ OtpDies(r)
        PROVE  AttemptsBound(c)' /\ AcceptedBound(c)'
    <2>1. codes' = codes /\ accepted' = accepted
      BY <1>2 DEF CallerReturns, OtpDies
    <2>2. Counting(c)' \subseteq Counting(c) /\ Accepting(c)' \subseteq Accepting(c)
      BY <1>2 DEF CallerReturns, OtpDies, OtpInv, OtpTypes, OtpRequest
    <2>3. QED
      BY <2>1, <2>2, QuietStep
  <1>3. ASSUME NEW d \in Codes, Expire(d)
        PROVE  AttemptsBound(c)' /\ AcceptedBound(c)'
    <2>1. /\ codes'[c].attempts = codes[c].attempts
          /\ codes'[c].state \in {codes[c].state, "closed"}
          /\ codes'[c].state # codes[c].state => codes[c].state = "active"
      BY <1>3 DEF Expire, OtpInv, OtpTypes, CodeRow
    <2>2. req' = req /\ accepted' = accepted
      BY <1>3 DEF Expire
    <2>3. QED
      BY <2>1, <2>2, QuietStep
  <1>4. CASE Cleanup
    <2>1. codes'[c] = Free \/ codes'[c] = codes[c]
      BY <1>4 DEF Cleanup
    <2>2. req' = req /\ accepted' = accepted
      BY <1>4 DEF Cleanup
    <2>3. QED
      BY <2>1, <2>2, QuietStep DEF Free
  <1>5. CASE UNCHANGED otpVars
    BY <1>5, QuietStep DEF otpVars
  <1>6. QED
    BY <1>1, <1>2, <1>3, <1>4, <1>5, FindsCharges, CreateStartsFresh,
       CountSettles, MarkSettles
    DEF OtpNext, OtpStep, OtpTime

LEMMA StepOtpInv == OtpInv /\ [OtpNext]_otpVars => OtpInv'
  <1> SUFFICES ASSUME OtpInv, [OtpNext]_otpVars PROVE OtpInv'
    OBVIOUS
  <1>1. OtpTypes'
    BY StepOtpTypes DEF OtpInv
  <1>2. \A c \in Codes : AttemptsBound(c)' /\ AcceptedBound(c)'
    BY <1>1, StepBounds
  <1>3. QED
    BY <1>1, <1>2
    DEF OtpInv, AttemptsBounded, AcceptedWhileOverlapping, AttemptsBound,
        AcceptedBound

LEMMA OtpInvariant == OtpSpec => []OtpInv
  BY OtpInitInv, StepOtpInv, PTL DEF OtpSpec

(* However many verifications overlap, the failed attempts on a code stay  *)
(* below OTP_MAX_ATTEMPTS plus the number of requests handled at once.     *)
THEOREM AttemptsAlwaysBounded == OtpSpec => []AttemptsBounded
  <1>1. OtpInv => AttemptsBounded
    BY DEF OtpInv
  <1>2. QED
    BY <1>1, OtpInvariant, PTL

(* A code that has been accepted is never active again, and is accepted    *)
(* again only by requests that were in flight at the same time.            *)
THEOREM AcceptedAlwaysOverlapping == OtpSpec => []AcceptedWhileOverlapping
  <1>1. OtpInv => AcceptedWhileOverlapping
    BY DEF OtpInv
  <1>2. QED
    BY <1>1, OtpInvariant, PTL

-------------------------------------------------------------------------------
(* The newest code.                                                        *)

\* A generate that nobody crossed finds its invalidation still standing.
InvalidationStands ==
  \A r \in Requests : OtpAt(r, "createCode") /\ r \notin crossed => Active = {}

NewestInv == OtpTypeOK /\ InvalidationStands /\ OnlyNewestActive

\* The rows and their order, as a step leaves them.
RowsOrdered ==
  /\ before \subseteq {c \in Codes : Exists(c)} \X {c \in Codes : Exists(c)}
  /\ \A c, d \in Codes :
       Exists(c) /\ Exists(d) /\ c # d => (c \in After(d) <=> d \notin After(c))
  /\ \A c \in Codes : c \notin After(c)

LEMMA SameRowsOrdered ==
  ASSUME RowsOrdered, before' = before,
         \A c \in Codes : Exists(c)' <=> Exists(c)
  PROVE  RowsOrdered'
  BY DEF RowsOrdered, After

LEMMA StepRowsOrdered ==
  OtpTypes /\ RowsOrdered /\ [OtpNext]_otpVars => RowsOrdered'
  <1> SUFFICES ASSUME OtpTypes, RowsOrdered, [OtpNext]_otpVars PROVE RowsOrdered'
    OBVIOUS
  <1>t. codes \in [Codes -> CodeRow]
    BY DEF OtpTypes
  <1>1. ASSUME NEW r \in Requests, GenerateInvalidates(r) PROVE RowsOrdered'
    BY <1>1, <1>t, SameRowsOrdered DEF GenerateInvalidates, Invalidates, Exists, CodeRow
  <1>2. ASSUME NEW r \in Requests, NEW c \in Codes, GenerateCreates(r, c)
        PROVE  RowsOrdered'
    <2>1. /\ ~Exists(c) /\ Exists(c)'
          /\ \A d \in Codes \ {c} : Exists(d)' <=> Exists(d)
      BY <1>2, <1>t DEF GenerateCreates, Exists, Free, CodeRow
    <2>2. before' = before \cup {<<d, c>> : d \in {e \in Codes : Exists(e)}}
      BY <1>2 DEF GenerateCreates
    <2>3. \A d, e \in Codes : <<d, e>> \in before' <=>
            \/ <<d, e>> \in before
            \/ e = c /\ Exists(d)
      BY <2>2
    <2>4. \A d, e \in Codes : <<d, e>> \in before => Exists(d) /\ Exists(e)
      BY DEF RowsOrdered
    <2>5. before' \subseteq Codes \X Codes
      BY <2>2 DEF RowsOrdered
    <2>6. before' \subseteq {d \in Codes : Exists(d)'} \X {d \in Codes : Exists(d)'}
      BY <2>1, <2>3, <2>4, <2>5
    <2>7. \A d, e \in Codes : e \in After(d)' <=> <<d, e>> \in before'
      BY DEF After
    <2>8. \A d, e \in Codes : e \in After(d) <=> <<d, e>> \in before
      BY DEF After
    <2>9. QED
      BY <2>1, <2>3, <2>4, <2>6, <2>7, <2>8 DEF RowsOrdered
  <1>3. ASSUME NEW r \in Requests, NEW c \in Codes, NEW matches \in BOOLEAN,
               VerifyFinds(r, c, matches)
        PROVE  RowsOrdered'
    BY <1>3, SameRowsOrdered DEF VerifyFinds, Exists
  <1>4. ASSUME NEW r \in Requests, VerifyCountsAttempt(r) PROVE RowsOrdered'
    BY <1>4, <1>t, SameRowsOrdered DEF VerifyCountsAttempt, Exists, CodeRow
  <1>5. ASSUME NEW r \in Requests, VerifyMarksUsed(r) PROVE RowsOrdered'
    BY <1>5, <1>t, SameRowsOrdered DEF VerifyMarksUsed, Exists, CodeRow, MarkedState
  <1>6. ASSUME NEW r \in Requests, CallerReturns(r) \/ OtpDies(r) PROVE RowsOrdered'
    BY <1>6, SameRowsOrdered DEF CallerReturns, OtpDies, Exists
  <1>7. ASSUME NEW c \in Codes, Expire(c) PROVE RowsOrdered'
    BY <1>7, <1>t, SameRowsOrdered DEF Expire, Exists, CodeRow
  <1>8. CASE Cleanup
    <2> DEFINE gone == {c \in Codes : codes[c].state = "closed"}
    <2>1. \A c \in Codes : Exists(c)' <=> Exists(c) /\ c \notin gone
      BY <1>8 DEF Cleanup, Exists, Free
    <2>2. before' = {p \in before : p[1] \notin gone /\ p[2] \notin gone}
      BY <1>8 DEF Cleanup
    <2> HIDE DEF gone
    <2>3. \A d, e \in Codes : <<d, e>> \in before' <=>
            <<d, e>> \in before /\ d \notin gone /\ e \notin gone
      BY <2>2
    <2>4. before' \subseteq Codes \X Codes
      BY <2>2 DEF RowsOrdered
    <2>5. \A d, e \in Codes : <<d, e>> \in before => Exists(d) /\ Exists(e)
      BY DEF RowsOrdered
    <2>6. before' \subseteq {d \in Codes : Exists(d)'} \X {d \in Codes : Exists(d)'}
      BY <2>1, <2>3, <2>4, <2>5
    <2>7. \A d, e \in Codes : e \in After(d)' <=> <<d, e>> \in before'
      BY DEF After
    <2>8. \A d, e \in Codes : e \in After(d) <=> <<d, e>> \in before
      BY DEF After
    <2>9. QED
      BY <2>1, <2>3, <2>6, <2>7, <2>8 DEF RowsOrdered
  <1>9. CASE UNCHANGED otpVars
    BY <1>9, SameRowsOrdered DEF otpVars, Exists
  <1>10. QED
    BY <1>1, <1>2, <1>3, <1>4, <1>5, <1>6, <1>7, <1>8, <1>9
    DEF OtpNext, OtpStep, OtpTime

LEMMA OtpTypeOKIs == OtpTypeOK <=> OtpTypes /\ RowsOrdered
  BY DEF OtpTypeOK, RowsOrdered

\* A step that activates no code, orders no rows anew and starts no create.
LEMMA NoneActivated ==
  ASSUME InvalidationStands, OnlyNewestActive, Active' \subseteq Active,
         before' \subseteq before, doubled' = doubled,
         \A q \in Requests : (req'[q].pc = "createCode" /\ q \notin crossed') =>
           req[q].pc = "createCode" /\ q \notin crossed
  PROVE  InvalidationStands' /\ OnlyNewestActive'
  BY DEF InvalidationStands, OnlyNewestActive, OtpAt, After

LEMMA StepNewest ==
  NewestInv /\ [OtpNext]_otpVars => InvalidationStands' /\ OnlyNewestActive'
  <1> SUFFICES ASSUME NewestInv, [OtpNext]_otpVars
               PROVE  InvalidationStands' /\ OnlyNewestActive'
    OBVIOUS
  <1>t. /\ codes \in [Codes -> CodeRow] /\ req \in [Requests -> OtpRequest]
        /\ RowsOrdered /\ InvalidationStands /\ OnlyNewestActive
    BY OtpTypeOKIs DEF NewestInv, OtpTypes
  <1>i. IdleOtp.pc = "idle"
    BY DEF IdleOtp
  <1>1. ASSUME NEW r \in Requests, GenerateInvalidates(r)
        PROVE  InvalidationStands' /\ OnlyNewestActive'
    <2>1. Active' = {}
      BY <1>1, <1>t DEF GenerateInvalidates, Invalidates, Active, Exists, CodeRow
    <2>2. QED
      BY <2>1 DEF InvalidationStands, OnlyNewestActive
  <1>2. ASSUME NEW r \in Requests, NEW c \in Codes, GenerateCreates(r, c)
        PROVE  InvalidationStands' /\ OnlyNewestActive'
    <2>1. Active' = Active \cup {c} /\ ~Exists(c)
      BY <1>2, <1>t DEF GenerateCreates, Active, Exists, Free, CodeRow
    <2>2. \A q \in Requests : req'[q].pc = "createCode" => q \in crossed'
      BY <1>2, <1>t, <1>i DEF GenerateCreates, OtpReturn, OtpAt
    <2>3. ASSUME ~doubled' PROVE Active = {}
      BY <1>2, <1>t, <2>3 DEF GenerateCreates, InvalidationStands
    <2>4. After(c)' = {}
      <3>1. \A d \in Codes : <<c, d>> \notin before
        BY <2>1, <1>t DEF RowsOrdered
      <3>2. before' = before \cup {<<d, c>> : d \in {e \in Codes : Exists(e)}}
        BY <1>2 DEF GenerateCreates
      <3>3. \A d \in Codes : <<c, d>> \notin before'
        BY <3>1, <3>2, <2>1
      <3>4. QED
        BY <3>3 DEF After
    <2>5. OnlyNewestActive'
      BY <2>1, <2>3, <2>4 DEF OnlyNewestActive
    <2>6. InvalidationStands'
      BY <2>2 DEF InvalidationStands, OtpAt
    <2>7. QED
      BY <2>5, <2>6
  <1>3. ASSUME NEW r \in Requests, NEW c \in Codes, NEW matches \in BOOLEAN,
               VerifyFinds(r, c, matches)
        PROVE  InvalidationStands' /\ OnlyNewestActive'
    <2>1. \A q \in Requests : req'[q].pc = "createCode" => req[q].pc = "createCode"
      BY <1>3, <1>t DEF VerifyFinds
    <2>2. QED
      BY <1>3, <1>t, <2>1, NoneActivated DEF VerifyFinds, Active, otpHistory
  <1>4. ASSUME NEW r \in Requests, VerifyCountsAttempt(r)
        PROVE  InvalidationStands' /\ OnlyNewestActive'
    <2>1. \A q \in Requests : req'[q].pc = "createCode" => req[q].pc = "createCode"
      BY <1>4, <1>t, <1>i DEF VerifyCountsAttempt, OtpReturn
    <2>2. Active' \subseteq Active
      BY <1>4, <1>t DEF VerifyCountsAttempt, Active, CodeRow
    <2>3. QED
      BY <1>4, <1>t, <2>1, <2>2, NoneActivated DEF VerifyCountsAttempt, otpHistory
  <1>5. ASSUME NEW r \in Requests, VerifyMarksUsed(r)
        PROVE  InvalidationStands' /\ OnlyNewestActive'
    <2>1. \A q \in Requests : req'[q].pc = "createCode" => req[q].pc = "createCode"
      BY <1>5, <1>t, <1>i DEF VerifyMarksUsed, OtpReturn, IdleOtp
    <2>2. Active' \subseteq Active
      BY <1>5, <1>t DEF VerifyMarksUsed, Active, CodeRow, MarkedState
    <2>3. QED
      BY <1>5, <1>t, <2>1, <2>2, NoneActivated DEF VerifyMarksUsed
  <1>6. ASSUME NEW r \in Requests, CallerReturns(r) \/ OtpDies(r)
        PROVE  InvalidationStands' /\ OnlyNewestActive'
    <2>1. \A q \in Requests : (req'[q].pc = "createCode" /\ q \notin crossed') =>
            req[q].pc = "createCode" /\ q \notin crossed
      BY <1>6, <1>t, <1>i DEF CallerReturns, OtpDies, OtpReturn, otpHistory
    <2>2. QED
      BY <1>6, <1>t, <2>1, NoneActivated DEF CallerReturns, OtpDies, Active, otpHistory
  <1>7. ASSUME NEW c \in Codes, Expire(c)
        PROVE  InvalidationStands' /\ OnlyNewestActive'
    <2>1. Active' \subseteq Active
      BY <1>7, <1>t DEF Expire, Active, CodeRow
    <2>2. QED
      BY <1>7, <1>t, <2>1, NoneActivated DEF Expire, otpHistory
  <1>8. CASE Cleanup
    <2>1. Active' \subseteq Active /\ before' \subseteq before
      BY <1>8, <1>t DEF Cleanup, Active, Free
    <2>2. QED
      BY <1>8, <1>t, <2>1, NoneActivated DEF Cleanup, otpHistory
  <1>9. CASE UNCHANGED otpVars
    BY <1>9, <1>t, NoneActivated DEF otpVars, otpHistory, Active
  <1>10. QED
    BY <1>1, <1>2, <1>3, <1>4, <1>5, <1>6, <1>7, <1>8, <1>9
    DEF OtpNext, OtpStep, OtpTime

LEMMA NewestInvariant == OtpSpec => []NewestInv
  <1>1. OtpInit => NewestInv
    <2>1. OtpInit => \A c \in Codes : ~Exists(c) /\ c \notin Active
      BY DEF OtpInit, Exists, Active, Free
    <2>2. OtpInit => RowsOrdered
      BY <2>1 DEF OtpInit, RowsOrdered, After
    <2>3. OtpInit => InvalidationStands /\ OnlyNewestActive
      BY <2>1 DEF InvalidationStands, OnlyNewestActive, Active
    <2>4. QED
      BY <2>2, <2>3, OtpInitInv, OtpTypeOKIs DEF NewestInv, OtpInv
  <1>2. NewestInv /\ [OtpNext]_otpVars => NewestInv'
    <2>1. NewestInv /\ [OtpNext]_otpVars => OtpTypes' /\ RowsOrdered'
      BY OtpTypeOKIs, StepOtpTypes, StepRowsOrdered DEF NewestInv
    <2>2. OtpTypes' /\ RowsOrdered' => OtpTypeOK'
      BY DEF OtpTypeOK, RowsOrdered
    <2>3. QED
      BY <2>1, <2>2, StepNewest DEF NewestInv
  <1>3. QED
    BY <1>1, <1>2, PTL DEF OtpSpec

(* The rows of one user and purpose keep their types, and createdAt puts   *)
(* any two of them in order.                                               *)
THEOREM OtpTypeCorrect == OtpSpec => []OtpTypeOK
  <1>1. NewestInv => OtpTypeOK
    BY DEF NewestInv
  <1>2. QED
    BY <1>1, NewestInvariant, PTL

(* After a resend only the newest code is accepted: an older one is active *)
(* only if two generateAndSend overlapped, one invalidating before and     *)
(* creating after the other created.                                       *)
THEOREM OnlyNewestAlwaysActive == OtpSpec => []OnlyNewestActive
  <1>1. NewestInv => OnlyNewestActive
    BY DEF NewestInv
  <1>2. QED
    BY <1>1, NewestInvariant, PTL

-------------------------------------------------------------------------------
(* The sessions.                                                           *)

HeldTokenOfLogin ==
  \A r \in Requests :
    (At(r, "revoke") /\ tokens[ses[r].token].state # "free") =>
      tokens[ses[r].token].login = ses[r].login

Ended(f) == Valid(f) = {} /\ f \notin Busy

LoggedOutEnded == \A f \in loggedOut : Ended(f)

SweptEnded == \A f \in swept : f \in straddling \/ Ended(f)

OldPasswordEnded ==
  \A f \in outOfDate :
    \/ unswept
    \/ f \in straddling
    \/ \E r \in Requests : At(r, "revokeAll")
    \/ Ended(f)

SesInv ==
  SesTypes /\ HeldTokenOfLogin /\ OneSessionPerLogin /\ LoggedOutEnded
    /\ SweptEnded /\ OldPasswordEnded

LEMMA SessionsFinite ==
  \A f \in Logins :
    /\ IsFiniteSet(Valid(f)) /\ Cardinality(Valid(f)) \in Nat
    /\ IsFiniteSet(Issuing(f)) /\ Cardinality(Issuing(f)) \in Nat
  <1> SUFFICES ASSUME NEW f \in Logins
               PROVE  /\ IsFiniteSet(Valid(f)) /\ Cardinality(Valid(f)) \in Nat
                      /\ IsFiniteSet(Issuing(f))
                      /\ Cardinality(Issuing(f)) \in Nat
    OBVIOUS
  <1>1. Valid(f) \subseteq Tokens /\ Issuing(f) \subseteq Requests
    BY DEF Valid, Issuing
  <1>2. QED
    BY <1>1, SessionsAssumption, OtpAssumption, FS_Subset, FS_CardinalityType

LEMMA SesInitInv == SesInit => SesInv
  <1> SUFFICES ASSUME SesInit PROVE SesInv
    OBVIOUS
  <1> USE DEF SesInit, FreeToken, IdleSes, At
  <1>1. SesTypes
    BY SessionsAssumption
    DEF SesTypes, TokensOK, RequestsOK, SesHistoryOK, TokenRow, SesRequest,
        SesSteps
  <1>2. \A f \in Logins : Valid(f) = {} /\ Issuing(f) = {}
    BY DEF Valid, Issuing
  <1>3. OneSessionPerLogin
    <2>1. \A f \in Logins :
            Cardinality(Valid(f)) = 0 /\ Cardinality(Issuing(f)) = 0
      BY <1>2, FS_EmptySet
    <2>2. QED
      BY <2>1 DEF OneSessionPerLogin
  <1>4. HeldTokenOfLogin
    BY DEF HeldTokenOfLogin
  <1>5. LoggedOutEnded /\ SweptEnded /\ OldPasswordEnded
    BY DEF LoggedOutEnded, SweptEnded, OldPasswordEnded
  <1>6. QED
    BY <1>1, <1>3, <1>4, <1>5 DEF SesInv

-------------------------------------------------------------------------------
(* A step of the composition is a step of Otp or leaves Otp alone, and     *)
(* moves its sessions in one of these ways.                                *)

SessionMove ==
  \/ \E r \in Requests : SesStep(r)
  \/ SesTime
  \/ \E r \in Requests :
       /\ ses' = [ses EXCEPT ![r].pc = "revokeAll"]
       /\ outOfDate' = Known
       /\ UNCHANGED <<tokens, forked, swept, straddling, unswept, loggedOut>>
  \/ UNCHANGED sesVars

LEMMA MovesSessions == [SesNext]_allVars => SessionMove
  BY DEF SesNext, allVars, SessionMove, ResetUpdatesPassword

LEMMA SimulatesOtp == [SesNext]_allVars => [OtpNext]_otpVars
  <1> SUFFICES ASSUME [SesNext]_allVars PROVE [OtpNext]_otpVars
    OBVIOUS
  <1>1. ASSUME NEW r \in Requests, ResetUpdatesPassword(r) PROVE OtpNext
    BY <1>1 DEF ResetUpdatesPassword, OtpNext
  <1>2. ASSUME NEW r \in Requests, OtpStep(r) \/ OtpDies(r) PROVE OtpNext
    BY <1>2 DEF OtpNext
  <1>3. CASE OtpTime
    BY <1>3 DEF OtpNext
  <1>4. CASE UNCHANGED allVars
    BY <1>4 DEF allVars
  <1>5. QED
    BY <1>1, <1>2, <1>3, <1>4 DEF SesNext

(* The sessions use the one-time codes by the steps of otp.service.ts and  *)
(* by nothing else, so what holds of the codes alone holds here.           *)
THEOREM SessionsUseOtp == SesSpec => OtpSpec
  <1>1. SesInit => OtpInit
    BY DEF SesInit
  <1>2. QED
    BY <1>1, SimulatesOtp, PTL DEF SesSpec, OtpSpec

(* Overlapping resets cannot exceed the limit of attempts by more than the *)
(* requests that overlap.                                                  *)
THEOREM SessionsAttemptsBounded == SesSpec => []AttemptsBounded
  BY SessionsUseOtp, AttemptsAlwaysBounded, PTL

(* What resetPassword's codes promise alone they promise here: accepted    *)
(* once but for requests that overlap, and only the newest of them unless  *)
(* two resends crossed.                                                    *)
THEOREM SessionsCodesKept ==
  SesSpec => [](AcceptedWhileOverlapping /\ OnlyNewestActive)
  BY SessionsUseOtp, AcceptedAlwaysOverlapping, OnlyNewestAlwaysActive, PTL

-------------------------------------------------------------------------------
LEMMA TokensSwept ==
  ASSUME TokensOK, RevokeAll
  PROVE  /\ tokens' \in [Tokens -> TokenRow]
         /\ \A t \in Tokens :
              /\ tokens'[t].login = tokens[t].login
              /\ tokens'[t].state = "free" <=> tokens[t].state = "free"
              /\ tokens'[t].state # "valid"
  <1>1. ASSUME NEW t \in Tokens
        PROVE  /\ tokens'[t] \in TokenRow
               /\ tokens'[t].login = tokens[t].login
               /\ tokens'[t].state = "free" <=> tokens[t].state = "free"
               /\ tokens'[t].state # "valid"
    <2>1. tokens'[t] = [tokens[t] EXCEPT !.state = RevokedByAll(t)]
      BY DEF RevokeAll
    <2>2. /\ tokens[t] \in TokenRow
          /\ tokens[t].state \in {"free", "valid", "revoked"}
      BY DEF TokensOK, TokenRow
    <2>3. CASE tokens[t].state = "valid"
      <3>1. tokens'[t] = [tokens[t] EXCEPT !.state = "revoked"]
        BY <2>1, <2>3 DEF RevokedByAll
      <3>2. QED
        BY <2>2, <2>3, <3>1 DEF TokenRow
    <2>4. CASE tokens[t].state # "valid"
      <3>1. tokens'[t] = [tokens[t] EXCEPT !.state = tokens[t].state]
        BY <2>1, <2>4 DEF RevokedByAll
      <3>2. QED
        BY <2>2, <2>4, <3>1 DEF TokenRow
    <2>5. QED
      BY <2>3, <2>4
  <1>2. tokens' \in [Tokens -> TokenRow]
    BY <1>1 DEF RevokeAll
  <1>3. QED
    BY <1>1, <1>2

\* One token changes, and only its state, unless it is freed or issued.
LEMMA StepTokensOK ==
  SesTypes /\ SessionMove => TokensOK'
  <1> SUFFICES ASSUME SesTypes, SessionMove PROVE TokensOK'
    OBVIOUS
  <1> USE SessionsAssumption DEF SesTypes, TokensOK, TokenRow, FreeToken
  <1>1. CASE UNCHANGED tokens
    BY <1>1
  <1>2. ASSUME NEW r \in Requests, NEW t \in Tokens, IssueToken(r, t)
        PROVE  TokensOK'
    <2>1. ses[r].login \in Logins
      BY <1>2 DEF IssueToken, RequestsOK, At
    <2>2. QED
      BY <1>2, <2>1 DEF IssueToken
  <1>3. ASSUME NEW r \in Requests, RefreshRevokes(r) PROVE TokensOK'
    <2>1. \/ tokens' = tokens
          \/ /\ tokens' = [tokens EXCEPT ![ses[r].token].state = "revoked"]
             /\ ses[r].token \in Tokens /\ tokens[ses[r].token].state # "free"
      BY <1>3 DEF RefreshRevokes, RevokedState, RequestsOK, At
    <2>2. QED
      BY <2>1
  <1>4. ASSUME NEW r \in Requests, LogoutRevokes(r) PROVE TokensOK'
    <2>1. \/ tokens' = tokens
          \/ /\ tokens' = [tokens EXCEPT ![ses[r].token].state = "revoked"]
             /\ ses[r].token \in Tokens /\ tokens[ses[r].token].state # "free"
      BY <1>4 DEF LogoutRevokes, RequestsOK, At
    <2>2. QED
      BY <2>1
  <1>5. CASE RevokeAll
    BY <1>5, TokensSwept
  <1>6. ASSUME NEW old \in SUBSET Tokens,
               tokens' = [t \in Tokens |-> IF t \in old THEN FreeToken
                                           ELSE tokens[t]]
        PROVE  TokensOK'
    BY <1>6
  <1>7. ASSUME NEW t \in Tokens, TokenExpires(t) PROVE TokensOK'
    BY <1>7 DEF TokenExpires
  <1>8. QED
    BY <1>1, <1>2, <1>3, <1>4, <1>5, <1>6, <1>7
    DEF SessionMove, SesStep, SesTime, LoginChecks, RefreshChecks, LogoutFinds,
        ResetRevokesAll, SessionDies, LogoutAllDevices, CleanupTokens, sesVars

LEMMA StepRequestsOK ==
  SesTypes /\ SessionMove => RequestsOK'
  <1> SUFFICES ASSUME SesTypes, SessionMove PROVE RequestsOK'
    OBVIOUS
  <1> USE DEF SesTypes, RequestsOK, SesRequest, SesSteps, IdleSes
  <1>1. CASE UNCHANGED ses
    BY <1>1
  <1>2. ASSUME NEW r \in Requests, Return(r) PROVE RequestsOK'
    BY <1>2 DEF Return
  <1>3. ASSUME NEW r \in Requests, NEW f \in Logins, LoginChecks(r, f)
        PROVE  RequestsOK'
    BY <1>3 DEF LoginChecks
  <1>4. ASSUME NEW r \in Requests, NEW t \in Tokens, RefreshChecks(r, t)
        PROVE  RequestsOK'
    <2>1. tokens[t].login \in Logins
      BY <1>4, SessionsAssumption
      DEF RefreshChecks, Accepts, TokensOK, TokenRow
    <2>2. QED
      BY <1>4, <2>1 DEF RefreshChecks
  <1>5. ASSUME NEW r \in Requests, NEW t \in Tokens, LogoutFinds(r, t)
        PROVE  RequestsOK'
    BY <1>5 DEF LogoutFinds
  <1>6. ASSUME NEW r \in Requests, RefreshRevokes(r) PROVE RequestsOK'
    BY <1>6 DEF RefreshRevokes, Return, At
  <1>7. ASSUME NEW r \in Requests, ses' = [ses EXCEPT ![r].pc = "revokeAll"]
        PROVE  RequestsOK'
    BY <1>7
  <1>8. QED
    BY <1>1, <1>2, <1>3, <1>4, <1>5, <1>6, <1>7
    DEF SessionMove, SesStep, SesTime, IssueToken, LogoutRevokes,
        ResetRevokesAll, SessionDies, LogoutAllDevices, CleanupTokens,
        TokenExpires, sesVars

LEMMA StepSesTypes ==
  SesTypes /\ SessionMove => SesTypes'
  <1> SUFFICES ASSUME SesTypes, SessionMove PROVE SesTypes'
    OBVIOUS
  <1> USE DEF SesTypes, SesHistoryOK
  <1>1. ASSUME NEW r \in Requests, LogoutRevokes(r) PROVE SesHistoryOK'
    <2>1. loggedOut' \subseteq loggedOut \cup Logins
      BY <1>1 DEF LogoutRevokes, Cut
    <2>2. QED
      BY <1>1, <2>1 DEF LogoutRevokes
  <1>2. ASSUME NEW r \in Requests, RefreshRevokes(r) PROVE SesHistoryOK'
    <2>1. ses[r].login \in Logins
      BY <1>2 DEF RefreshRevokes, RequestsOK, At
    <2>2. QED
      BY <1>2, <2>1 DEF RefreshRevokes
  <1>3. ASSUME RevokeAll PROVE SesHistoryOK'
    BY <1>3 DEF RevokeAll, Known, Busy
  <1>4. ASSUME NEW r \in Requests, NEW f \in Logins, LoginChecks(r, f)
        PROVE  SesHistoryOK'
    BY <1>4 DEF LoginChecks
  <1>5. ASSUME NEW r \in Requests, SessionDies(r) PROVE SesHistoryOK'
    BY <1>5 DEF SessionDies
  <1>6. ASSUME UNCHANGED sesHistory PROVE SesHistoryOK'
    BY <1>6 DEF sesHistory
  <1>7. ASSUME outOfDate' = Known,
               UNCHANGED <<forked, swept, straddling, unswept, loggedOut>>
        PROVE  SesHistoryOK'
    BY <1>7 DEF Known, Busy
  <1>8. SesHistoryOK'
    BY <1>1, <1>2, <1>3, <1>4, <1>5, <1>6, <1>7
    DEF SessionMove, SesStep, SesTime, IssueToken, RefreshChecks, LogoutFinds,
        ResetRevokesAll, LogoutAllDevices, CleanupTokens, TokenExpires,
        sesVars, sesHistory
  <1>9. QED
    BY <1>8, StepTokensOK, StepRequestsOK DEF SesTypes

\* A token that a request at "revoke" holds keeps its login while it exists.
LEMMA HeldTokenKept ==
  ASSUME SesTypes, HeldTokenOfLogin,
         \A q \in Requests : ses'[q].pc = "revoke" => ses'[q] = ses[q],
         \A q \in Requests, t \in Tokens :
           (ses[q].token = t /\ tokens'[t].state # "free") =>
             tokens[t].state # "free" /\ tokens'[t].login = tokens[t].login
  PROVE  HeldTokenOfLogin'
  <1>1. SUFFICES ASSUME NEW q \in Requests, ses'[q].pc = "revoke",
                        tokens'[ses'[q].token].state # "free"
                 PROVE  tokens'[ses'[q].token].login = ses'[q].login
    BY DEF HeldTokenOfLogin, At
  <1>2. ses'[q] = ses[q] /\ ses[q].pc = "revoke"
    BY <1>1
  <1>3. ses[q].token \in Tokens
    BY <1>2 DEF SesTypes, RequestsOK
  <1>4. /\ tokens[ses[q].token].state # "free"
        /\ tokens'[ses[q].token].login = tokens[ses[q].token].login
    BY <1>1, <1>2, <1>3
  <1>5. tokens[ses[q].token].login = ses[q].login
    BY <1>2, <1>4 DEF HeldTokenOfLogin, At
  <1>6. QED
    BY <1>2, <1>4, <1>5

LEMMA StepHeldToken ==
  SesTypes /\ HeldTokenOfLogin /\ SessionMove => HeldTokenOfLogin'
  <1> SUFFICES ASSUME SesTypes, HeldTokenOfLogin, SessionMove
               PROVE  HeldTokenOfLogin'
    OBVIOUS
  <1> USE DEF SesTypes, TokensOK, RequestsOK, Return, IdleSes, TokenRow,
              FreeToken, SesRequest, SesSteps
  <1>1. ASSUME NEW r \in Requests, NEW f \in Logins, LoginChecks(r, f)
        PROVE  HeldTokenOfLogin'
    BY <1>1, HeldTokenKept DEF LoginChecks
  <1>2. ASSUME NEW r \in Requests, NEW t \in Tokens, RefreshChecks(r, t)
        PROVE  HeldTokenOfLogin'
    <2>1. /\ tokens' = tokens
          /\ ses'[r].token = t /\ ses'[r].login = tokens[t].login
          /\ \A q \in Requests \ {r} : ses'[q] = ses[q]
      BY <1>2 DEF RefreshChecks
    <2>2. QED
      BY <2>1 DEF HeldTokenOfLogin, At
  <1>3. ASSUME NEW r \in Requests, NEW t \in Tokens, LogoutFinds(r, t)
        PROVE  HeldTokenOfLogin'
    BY <1>3, HeldTokenKept DEF LogoutFinds
  <1>4. ASSUME NEW r \in Requests, NEW t \in Tokens, IssueToken(r, t)
        PROVE  HeldTokenOfLogin'
    BY <1>4, HeldTokenKept DEF IssueToken
  <1>5. ASSUME NEW r \in Requests, RefreshRevokes(r) PROVE HeldTokenOfLogin'
    <2>1. \A q \in Requests : ses'[q].pc = "revoke" => ses'[q] = ses[q]
      BY <1>5 DEF RefreshRevokes
    <2>2. \A t \in Tokens : tokens'[t].state # "free" =>
            tokens[t].state # "free" /\ tokens'[t].login = tokens[t].login
      BY <1>5 DEF RefreshRevokes, RevokedState, At
    <2>3. QED
      BY <2>1, <2>2, HeldTokenKept
  <1>6. ASSUME NEW r \in Requests, LogoutRevokes(r) PROVE HeldTokenOfLogin'
    <2>1. \A q \in Requests : ses'[q].pc = "revoke" => ses'[q] = ses[q]
      BY <1>6 DEF LogoutRevokes
    <2>2. \A t \in Tokens : tokens'[t].state # "free" =>
            tokens[t].state # "free" /\ tokens'[t].login = tokens[t].login
      BY <1>6 DEF LogoutRevokes, At
    <2>3. QED
      BY <2>1, <2>2, HeldTokenKept
  <1>7. CASE RevokeAll /\ (UNCHANGED ses \/ \E r \in Requests : Return(r))
    <2>1. \A q \in Requests : ses'[q].pc = "revoke" => ses'[q] = ses[q]
      BY <1>7
    <2>2. \A t \in Tokens : tokens'[t].state # "free" =>
            tokens[t].state # "free" /\ tokens'[t].login = tokens[t].login
      BY <1>7, TokensSwept
    <2>3. QED
      BY <2>1, <2>2, HeldTokenKept
  <1>8. ASSUME NEW r \in Requests, SessionDies(r) PROVE HeldTokenOfLogin'
    BY <1>8, HeldTokenKept DEF SessionDies
  <1>9. ASSUME NEW old \in SUBSET Tokens, UNCHANGED ses,
               tokens' = [t \in Tokens |-> IF t \in old THEN FreeToken
                                           ELSE tokens[t]]
        PROVE  HeldTokenOfLogin'
    BY <1>9, HeldTokenKept
  <1>10. ASSUME NEW t \in Tokens, TokenExpires(t) PROVE HeldTokenOfLogin'
    BY <1>10, HeldTokenKept DEF TokenExpires
  <1>11. ASSUME NEW r \in Requests, ses' = [ses EXCEPT ![r].pc = "revokeAll"],
                UNCHANGED tokens
         PROVE  HeldTokenOfLogin'
    BY <1>11, HeldTokenKept
  <1>12. CASE UNCHANGED sesVars
    BY <1>12, HeldTokenKept DEF sesVars
  <1>13. QED
    BY <1>1, <1>2, <1>3, <1>4, <1>5, <1>6, <1>7, <1>8, <1>9, <1>10, <1>11,
       <1>12
    DEF SessionMove, SesStep, SesTime, ResetRevokesAll, LogoutAllDevices,
        CleanupTokens

-------------------------------------------------------------------------------
(* One session per login.                                                  *)

OneSession(f) == Cardinality(Valid(f)) + Cardinality(Issuing(f)) <= 1

LEMMA OneSessionShrinks ==
  ASSUME NEW f \in Logins, OneSession(f),
         Valid(f)' \subseteq Valid(f), Issuing(f)' \subseteq Issuing(f)
  PROVE  OneSession(f)'
  <1>1. /\ Cardinality(Valid(f)') \in Nat
        /\ Cardinality(Valid(f)') <= Cardinality(Valid(f))
        /\ Cardinality(Issuing(f)') \in Nat
        /\ Cardinality(Issuing(f)') <= Cardinality(Issuing(f))
    BY SessionsFinite, FS_Subset, FS_CardinalityType
  <1>2. QED
    BY <1>1, SessionsFinite DEF OneSession

LEMMA LoginOpensOne ==
  ASSUME SesTypes, NEW r \in Requests, NEW f \in Logins, LoginChecks(r, f)
  PROVE  OneSession(f)'
  <1>1. Valid(f)' = {}
    BY DEF LoginChecks, Known, Valid
  <1>2. Issuing(f)' \subseteq {r}
    BY DEF LoginChecks, Known, Busy, Issuing, At, IsFree, SesTypes, RequestsOK
  <1>3. Cardinality(Valid(f)') = 0
    BY <1>1, FS_EmptySet
  <1>4. /\ Cardinality(Issuing(f)') \in Nat
        /\ Cardinality(Issuing(f)') <= 1
    <2>1. IsFiniteSet({r}) /\ Cardinality({r}) = 1
      BY FS_Singleton
    <2>2. /\ IsFiniteSet(Issuing(f)')
          /\ Cardinality(Issuing(f)') <= Cardinality({r})
      BY <1>2, <2>1, FS_Subset
    <2>3. QED
      BY <2>1, <2>2, FS_CardinalityType
  <1>5. QED
    BY <1>3, <1>4 DEF OneSession

LEMMA IssueKeepsOne ==
  ASSUME SesTypes, NEW r \in Requests, NEW t \in Tokens, IssueToken(r, t),
         NEW f \in Logins, OneSession(f)
  PROVE  OneSession(f)'
  <1>1. Issuing(f)' = Issuing(f) \ {r}
    BY DEF IssueToken, Return, IdleSes, Issuing, At, SesTypes, RequestsOK
  <1>2. CASE ses[r].login = f
    <2>1. Valid(f)' = Valid(f) \cup {t} /\ t \notin Valid(f)
      BY <1>2 DEF IssueToken, FreeToken, Valid, SesTypes, TokensOK
    <2>2. r \in Issuing(f)
      BY <1>2 DEF IssueToken, Issuing
    <2>3. Cardinality(Valid(f) \cup {t}) = Cardinality(Valid(f)) + 1
      BY <2>1, SessionsFinite, FS_AddElement
    <2>4. Cardinality(Issuing(f) \ {r}) = Cardinality(Issuing(f)) - 1
      BY <2>2, SessionsFinite, FS_RemoveElement
    <2>5. QED
      BY <1>1, <2>1, <2>3, <2>4, SessionsFinite DEF OneSession
  <1>3. CASE ses[r].login # f
    <2>1. Valid(f)' \subseteq Valid(f)
      BY <1>3 DEF IssueToken, Valid, SesTypes, TokensOK
    <2>2. QED
      BY <1>1, <2>1, OneSessionShrinks
  <1>4. QED
    BY <1>2, <1>3

LEMMA RotationKeepsOne ==
  ASSUME SesTypes, HeldTokenOfLogin, NEW r \in Requests, RefreshRevokes(r),
         NEW f \in Logins, f \notin forked', OneSession(f)
  PROVE  OneSession(f)'
  <1> DEFINE t == ses[r].token
  <1>1. t \in Tokens /\ At(r, "revoke")
    BY DEF RefreshRevokes, SesTypes, RequestsOK, At
  <1>2. Valid(f)' = Valid(f) \ {t}
    BY <1>1 DEF RefreshRevokes, RevokedState, Valid, SesTypes, TokensOK,
                TokenRow
  <1>3. CASE ses[r].login # f \/ tokens[t].state = "free"
    <2>1. Issuing(f)' \subseteq Issuing(f)
      BY <1>3 DEF RefreshRevokes, Return, IdleSes, Issuing, At, SesTypes,
                  RequestsOK, SesRequest
    <2>2. QED
      BY <1>2, <2>1, OneSessionShrinks
  <1>4. CASE ses[r].login = f /\ tokens[t].state # "free"
    <2>1. tokens[t].state = "valid"
      BY <1>1, <1>4 DEF RefreshRevokes, SesTypes, TokensOK, TokenRow
    <2>2. t \in Valid(f)
      BY <1>1, <1>4, <2>1 DEF HeldTokenOfLogin, Valid
    <2>3. Issuing(f)' = Issuing(f) \cup {r} /\ r \notin Issuing(f)
      BY <1>1, <1>4 DEF RefreshRevokes, Issuing, At, SesTypes, RequestsOK,
                        SesRequest
    <2>4. Cardinality(Valid(f) \ {t}) = Cardinality(Valid(f)) - 1
      BY <2>2, SessionsFinite, FS_RemoveElement
    <2>5. Cardinality(Issuing(f) \cup {r}) = Cardinality(Issuing(f)) + 1
      BY <2>3, SessionsFinite, FS_AddElement
    <2>6. QED
      BY <1>2, <2>3, <2>4, <2>5, SessionsFinite DEF OneSession
  <1>5. QED
    BY <1>3, <1>4

\* Every other step takes tokens and requests away, if anything.
LEMMA SessionsShrink ==
  ASSUME SesTypes, SessionMove, NEW f \in Logins
  PROVE  \/ Valid(f)' \subseteq Valid(f) /\ Issuing(f)' \subseteq Issuing(f)
         \/ \E r \in Requests : LoginChecks(r, f)
         \/ \E r \in Requests, t \in Tokens : IssueToken(r, t)
         \/ \E r \in Requests : RefreshRevokes(r)
  <1> USE DEF SesTypes, TokensOK, RequestsOK, Valid, Issuing, At, Return,
              IdleSes, FreeToken, SesRequest, SesSteps
  <1>1. ASSUME NEW r \in Requests, NEW g \in Logins \ {f}, LoginChecks(r, g)
        PROVE  Valid(f)' \subseteq Valid(f) /\ Issuing(f)' \subseteq Issuing(f)
    BY <1>1 DEF LoginChecks
  <1>2. ASSUME NEW r \in Requests, NEW t \in Tokens,
               RefreshChecks(r, t) \/ LogoutFinds(r, t)
        PROVE  Valid(f)' \subseteq Valid(f) /\ Issuing(f)' \subseteq Issuing(f)
    <2>1. /\ tokens' = tokens
          /\ ses'[r].pc \in {"revoke", "logout"}
          /\ \A q \in Requests \ {r} : ses'[q] = ses[q]
      <3>1. CASE RefreshChecks(r, t)
        BY <3>1 DEF RefreshChecks
      <3>2. CASE LogoutFinds(r, t)
        BY <3>2 DEF LogoutFinds
      <3>3. QED
        BY <1>2, <3>1, <3>2
    <2>2. QED
      BY <2>1
  <1>3. ASSUME NEW r \in Requests, LogoutRevokes(r)
        PROVE  Valid(f)' \subseteq Valid(f) /\ Issuing(f)' \subseteq Issuing(f)
    <2>1. \A t \in Tokens : tokens'[t].state = "valid" => tokens'[t] = tokens[t]
      BY <1>3 DEF LogoutRevokes
    <2>2. QED
      BY <1>3, <2>1 DEF LogoutRevokes
  <1>4. CASE RevokeAll /\ (UNCHANGED ses \/ \E r \in Requests : Return(r))
    BY <1>4, TokensSwept
  <1>5. ASSUME NEW r \in Requests, SessionDies(r)
        PROVE  Valid(f)' \subseteq Valid(f) /\ Issuing(f)' \subseteq Issuing(f)
    BY <1>5 DEF SessionDies
  <1>6. ASSUME NEW old \in SUBSET Tokens, CleanupTokens(old)
        PROVE  Valid(f)' \subseteq Valid(f) /\ Issuing(f)' \subseteq Issuing(f)
    BY <1>6 DEF CleanupTokens
  <1>7. ASSUME NEW t \in Tokens, TokenExpires(t)
        PROVE  Valid(f)' \subseteq Valid(f) /\ Issuing(f)' \subseteq Issuing(f)
    BY <1>7 DEF TokenExpires
  <1>8. ASSUME NEW r \in Requests, ses' = [ses EXCEPT ![r].pc = "revokeAll"],
               UNCHANGED tokens
        PROVE  Valid(f)' \subseteq Valid(f) /\ Issuing(f)' \subseteq Issuing(f)
    BY <1>8
  <1>9. CASE UNCHANGED sesVars
    BY <1>9 DEF sesVars
  <1>10. QED
    BY <1>1, <1>2, <1>3, <1>4, <1>5, <1>6, <1>7, <1>8, <1>9
    DEF SessionMove, SesStep, SesTime, ResetRevokesAll, LogoutAllDevices

LEMMA StepOneSession ==
  SesInv /\ SessionMove => OneSessionPerLogin'
  <1> SUFFICES ASSUME SesInv, SessionMove, NEW f \in Logins, f \notin forked'
               PROVE  OneSession(f)'
    BY DEF OneSessionPerLogin, OneSession
  <1>1. CASE \E r \in Requests : LoginChecks(r, f)
    BY <1>1, LoginOpensOne DEF SesInv
  <1>2. CASE ~\E r \in Requests : LoginChecks(r, f)
    <2>1. f \notin forked
      BY <1>2 DEF SessionMove, SesStep, SesTime, LoginChecks, IssueToken,
                  RefreshChecks, RefreshRevokes, LogoutFinds, LogoutRevokes,
                  ResetRevokesAll, RevokeAll, LogoutAllDevices, SessionDies,
                  CleanupTokens, TokenExpires, sesVars, sesHistory
    <2>2. OneSession(f)
      BY <2>1 DEF SesInv, OneSessionPerLogin, OneSession
    <2>3. QED
      BY <1>2, <2>2, SessionsShrink, OneSessionShrinks, IssueKeepsOne,
         RotationKeepsOne
      DEF SesInv
  <1>3. QED
    BY <1>1, <1>2

-------------------------------------------------------------------------------
(* What a logout or a sweep ends stays ended.                              *)

LEMMA EndedStays ==
  ASSUME SesTypes, SessionMove, NEW f \in Logins, Ended(f),
         ~\E r \in Requests : LoginChecks(r, f)
  PROVE  Ended(f)'
  <1> USE DEF SesTypes, TokensOK, RequestsOK, At, Return, IdleSes, FreeToken,
              SesRequest, SesSteps
  <1> DEFINE Quiet == \A r \in Requests :
               ses[r].pc \in {"revoke", "issue"} => ses[r].login # f
  <1>1. Quiet /\ Valid(f) = {}
    BY DEF Ended, Busy
  <1>2. Valid(f)' = {}
    <2>1. ASSUME NEW r \in Requests, NEW t \in Tokens, IssueToken(r, t)
          PROVE  Valid(f)' = {}
      <3>1. ses[r].login # f
        BY <1>1, <2>1 DEF IssueToken
      <3>2. QED
        BY <1>1, <2>1, <3>1 DEF IssueToken, Valid
    <2>2. ASSUME NEW r \in Requests, RefreshRevokes(r) PROVE Valid(f)' = {}
      <3>1. \A t \in Tokens : tokens'[t].state = "valid" => tokens'[t] = tokens[t]
        BY <2>2 DEF RefreshRevokes, RevokedState, TokenRow
      <3>2. Valid(f)' \subseteq Valid(f)
        BY <3>1 DEF Valid
      <3>3. QED
        BY <1>1, <3>2
    <2>3. QED
      BY <1>1, <2>1, <2>2, SessionsShrink
  <1>3. Quiet'
    <2>1. CASE UNCHANGED ses
      BY <1>1, <2>1
    <2>2. ASSUME NEW r \in Requests, Return(r) PROVE Quiet'
      BY <1>1, <2>2
    <2>3. ASSUME NEW r \in Requests, NEW g \in Logins, LoginChecks(r, g)
          PROVE  Quiet'
      <3>1. g # f
        BY <2>3
      <3>2. QED
        BY <1>1, <2>3, <3>1 DEF LoginChecks
    <2>4. ASSUME NEW r \in Requests, NEW t \in Tokens, RefreshChecks(r, t)
          PROVE  Quiet'
      <3>1. tokens[t].login # f
        BY <1>1, <2>4 DEF RefreshChecks, Accepts, Valid
      <3>2. /\ ses'[r].login = tokens[t].login
            /\ \A q \in Requests \ {r} : ses'[q] = ses[q]
        BY <2>4 DEF RefreshChecks
      <3>3. QED
        BY <1>1, <3>1, <3>2
    <2>5. ASSUME NEW r \in Requests, NEW t \in Tokens, LogoutFinds(r, t)
          PROVE  Quiet'
      BY <1>1, <2>5 DEF LogoutFinds
    <2>6. ASSUME NEW r \in Requests, RefreshRevokes(r) PROVE Quiet'
      <3>1. \/ Return(r)
            \/ /\ ses[r].pc = "revoke"
               /\ ses' = [ses EXCEPT ![r].pc = "issue", ![r].token = NoToken]
        BY <2>6 DEF RefreshRevokes
      <3>2. QED
        BY <1>1, <2>2, <3>1
    <2>7. ASSUME NEW r \in Requests, ses' = [ses EXCEPT ![r].pc = "revokeAll"]
          PROVE  Quiet'
      BY <1>1, <2>7
    <2>8. QED
      BY <2>1, <2>2, <2>3, <2>4, <2>5, <2>6, <2>7
      DEF SessionMove, SesStep, SesTime, IssueToken, LogoutRevokes,
          ResetRevokesAll, SessionDies, LogoutAllDevices, CleanupTokens,
          TokenExpires, sesVars
  <1>4. QED
    BY <1>2, <1>3 DEF Ended, Busy

Sweep == RevokeAll /\ (UNCHANGED ses \/ \E r \in Requests : Return(r))

\* A login that no request is busy with ends when all tokens are revoked.
LEMMA SweepEnds ==
  ASSUME SesTypes, Sweep, NEW f \in Logins, f \notin straddling'
  PROVE  Ended(f)'
  <1>1. Valid(f)' = {}
    BY TokensSwept DEF Sweep, Valid, SesTypes
  <1>2. f \notin Busy
    BY DEF Sweep, RevokeAll
  <1>3. f \notin Busy'
    <2>1. CASE UNCHANGED ses
      BY <1>2, <2>1 DEF Busy
    <2>2. ASSUME NEW r \in Requests, Return(r) PROVE f \notin Busy'
      BY <1>2, <2>2 DEF Busy, Return, IdleSes, SesTypes, RequestsOK
    <2>3. QED
      BY <2>1, <2>2 DEF Sweep
  <1>4. QED
    BY <1>1, <1>3 DEF Ended

\* What the other steps do to the history of a login that exists.
LEMMA HistoryKept ==
  ASSUME SessionMove, ~Sweep, NEW f \in Logins,
         ~\E r \in Requests : LoginChecks(r, f)
  PROVE  /\ f \in swept' => f \in swept
         /\ f \in straddling => f \in straddling'
         /\ unswept => unswept'
         /\ \/ f \in outOfDate' => f \in outOfDate
            \/ \E r \in Requests : ses' = [ses EXCEPT ![r].pc = "revokeAll"]
  <1> DEFINE Kept == /\ f \in swept' => f \in swept
                     /\ f \in straddling => f \in straddling'
                     /\ unswept => unswept'
                     /\ f \in outOfDate' => f \in outOfDate
  <1>1. ASSUME NEW r \in Requests, NEW g \in Logins, LoginChecks(r, g)
        PROVE  Kept
    BY <1>1 DEF LoginChecks
  <1>2. ASSUME NEW r \in Requests, RefreshRevokes(r) PROVE Kept
    BY <1>2 DEF RefreshRevokes
  <1>3. ASSUME NEW r \in Requests, SessionDies(r) PROVE Kept
    BY <1>3 DEF SessionDies
  <1>4. CASE UNCHANGED <<forked, outOfDate, swept, straddling, unswept>>
    BY <1>4
  <1>5. CASE UNCHANGED sesVars
    BY <1>4, <1>5 DEF sesVars, sesHistory
  <1>6. CASE \E r \in Requests : SesStep(r)
    BY <1>1, <1>2, <1>3, <1>4, <1>6
    DEF SesStep, Sweep, RefreshChecks, LogoutFinds, IssueToken, LogoutRevokes,
        ResetRevokesAll, sesHistory
  <1>7. CASE SesTime
    BY <1>4, <1>7
    DEF SesTime, Sweep, LogoutAllDevices, TokenExpires, CleanupTokens, sesHistory
  <1>8. QED
    BY <1>5, <1>6, <1>7 DEF SessionMove

LEMMA LoginIsFresh ==
  ASSUME NEW f \in Logins, NEW r \in Requests, LoginChecks(r, f)
  PROVE  f \notin swept' /\ f \notin outOfDate'
  BY DEF LoginChecks

\* A logout of a login that no refresh is busy with revokes its one token.
LEMMA LogoutEnds ==
  ASSUME SesInv, NEW r \in Requests, LogoutRevokes(r),
         NEW f \in loggedOut' \ loggedOut
  PROVE  Ended(f)'
  <1> USE DEF SesTypes, TokensOK, RequestsOK, At
  <1>1. PICK t \in Tokens : /\ ses[r].token = t
                            /\ tokens[t].state = "valid" /\ tokens[t].login = f
                            /\ tokens' = [tokens EXCEPT ![t].state = "revoked"]
                            /\ f \in Logins /\ f \notin Busy /\ f \notin forked
    BY DEF LogoutRevokes, Cut, SesInv
  <1>2. t \in Valid(f)
    BY <1>1 DEF Valid
  <1>3. Cardinality(Valid(f)) + Cardinality(Issuing(f)) <= 1
    BY <1>1 DEF SesInv, OneSessionPerLogin
  <1>4. Cardinality(Valid(f) \ {t}) = Cardinality(Valid(f)) - 1
    BY <1>1, <1>2, SessionsFinite, FS_RemoveElement
  <1>5. IsFiniteSet(Valid(f) \ {t}) /\ Cardinality(Valid(f) \ {t}) \in Nat
    BY <1>1, SessionsFinite, FS_RemoveElement, FS_CardinalityType
  <1>6. Cardinality(Valid(f) \ {t}) = 0
    BY <1>1, <1>3, <1>4, <1>5, SessionsFinite
  <1>7. Valid(f) \ {t} = {}
    BY <1>5, <1>6, FS_EmptySet
  <1>8. Valid(f)' = {}
    BY <1>1, <1>7 DEF Valid, SesInv, TokenRow
  <1>9. f \notin Busy'
    BY <1>1 DEF Busy, LogoutRevokes, Return, IdleSes, SesInv, SesRequest
  <1>10. QED
    BY <1>8, <1>9 DEF Ended

LEMMA StepLoggedOutEnded ==
  SesInv /\ SessionMove => LoggedOutEnded'
  <1> SUFFICES ASSUME SesInv, SessionMove, NEW f \in loggedOut'
               PROVE  Ended(f)'
    BY DEF LoggedOutEnded
  <1>1. f \in Logins /\ SesTypes
    BY StepSesTypes DEF SesInv, SesTypes, SesHistoryOK
  <1>2. CASE f \in loggedOut
    <2>1. ~\E r \in Requests : LoginChecks(r, f)
      BY DEF LoginChecks
    <2>2. QED
      BY <1>1, <1>2, <2>1, EndedStays DEF SesInv, LoggedOutEnded
  <1>3. CASE f \notin loggedOut
    <2>1. \E r \in Requests : LogoutRevokes(r)
      BY <1>3
      DEF SessionMove, SesStep, SesTime, LoginChecks, IssueToken, RefreshChecks,
          RefreshRevokes, LogoutFinds, ResetRevokesAll, RevokeAll,
          LogoutAllDevices, SessionDies, CleanupTokens, TokenExpires, sesVars,
          sesHistory
    <2>2. QED
      BY <1>3, <2>1, LogoutEnds
  <1>4. QED
    BY <1>2, <1>3

LEMMA StepSweptEnded ==
  SesInv /\ SessionMove => SweptEnded'
  <1> SUFFICES ASSUME SesInv, SessionMove, NEW f \in swept',
                      f \notin straddling'
               PROVE  Ended(f)'
    BY DEF SweptEnded
  <1>1. f \in Logins /\ SesTypes
    BY StepSesTypes DEF SesInv, SesTypes, SesHistoryOK
  <1>2. CASE Sweep
    BY <1>1, <1>2, SweepEnds
  <1>3. CASE ~Sweep
    <2>1. ~\E r \in Requests : LoginChecks(r, f)
      BY <1>1, LoginIsFresh
    <2>2. f \in swept /\ f \notin straddling
      BY <1>1, <1>3, <2>1, HistoryKept
    <2>3. QED
      BY <1>1, <2>1, <2>2, EndedStays DEF SesInv, SweptEnded
  <1>4. QED
    BY <1>2, <1>3

\* A reset about to revoke all tokens does it or dies.
LEMMA ResetKept ==
  ASSUME SesTypes, SessionMove, ~Sweep, NEW q \in Requests, At(q, "revokeAll")
  PROVE  unswept' \/ At(q, "revokeAll")'
  <1> USE DEF At, SesTypes, RequestsOK
  <1>1. ASSUME NEW r \in Requests, NEW f \in Logins, LoginChecks(r, f)
        PROVE  At(q, "revokeAll")'
    BY <1>1 DEF LoginChecks, IsFree
  <1>2. ASSUME NEW r \in Requests, NEW t \in Tokens, RefreshChecks(r, t)
        PROVE  At(q, "revokeAll")'
    BY <1>2 DEF RefreshChecks, IsFree
  <1>3. ASSUME NEW r \in Requests, NEW t \in Tokens, LogoutFinds(r, t)
        PROVE  At(q, "revokeAll")'
    BY <1>3 DEF LogoutFinds, IsFree
  <1>4. ASSUME NEW r \in Requests, NEW t \in Tokens, IssueToken(r, t)
        PROVE  At(q, "revokeAll")'
    BY <1>4 DEF IssueToken, Return
  <1>5. ASSUME NEW r \in Requests, RefreshRevokes(r)
        PROVE  At(q, "revokeAll")'
    <2>1. r # q /\ \A p \in Requests \ {r} : ses'[p] = ses[p]
      BY <1>5 DEF RefreshRevokes, Return
    <2>2. QED
      BY <2>1
  <1>6. ASSUME NEW r \in Requests, LogoutRevokes(r)
        PROVE  At(q, "revokeAll")'
    BY <1>6 DEF LogoutRevokes, Return
  <1>7. ASSUME NEW r \in Requests, SessionDies(r)
        PROVE  unswept' \/ At(q, "revokeAll")'
    BY <1>7 DEF SessionDies, Return
  <1>8. ASSUME NEW r \in Requests, ses' = [ses EXCEPT ![r].pc = "revokeAll"]
        PROVE  At(q, "revokeAll")'
    BY <1>8
  <1>9. CASE UNCHANGED ses
    BY <1>9
  <1>10. QED
    BY <1>1, <1>2, <1>3, <1>4, <1>5, <1>6, <1>7, <1>8, <1>9
    DEF SessionMove, SesStep, SesTime, Sweep, ResetRevokesAll,
        LogoutAllDevices, CleanupTokens, TokenExpires, sesVars

LEMMA StepOldPasswordEnded ==
  SesInv /\ SessionMove => OldPasswordEnded'
  <1> SUFFICES ASSUME SesInv, SessionMove, NEW f \in outOfDate',
                      f \notin straddling', ~unswept',
                      \A r \in Requests : ~At(r, "revokeAll")'
               PROVE  Ended(f)'
    BY DEF OldPasswordEnded
  <1>1. f \in Logins /\ SesTypes
    BY StepSesTypes DEF SesInv, SesTypes, SesHistoryOK
  <1>2. CASE Sweep
    BY <1>1, <1>2, SweepEnds
  <1>3. CASE ~Sweep
    <2>1. ~\E r \in Requests : LoginChecks(r, f)
      BY <1>1, LoginIsFresh
    <2>2. ASSUME NEW r \in Requests, ses' = [ses EXCEPT ![r].pc = "revokeAll"]
          PROVE  FALSE
      <3>1. ses \in [Requests -> SesRequest]
        BY DEF SesInv, SesTypes, RequestsOK
      <3>2. ses'[r].pc = "revokeAll"
        BY <2>2, <3>1 DEF SesRequest
      <3>3. QED
        BY <3>2 DEF At
    <2>3. f \in outOfDate /\ f \notin straddling /\ ~unswept
      BY <1>1, <1>3, <2>1, <2>2, HistoryKept
    <2>4. \A r \in Requests : ~At(r, "revokeAll")
      BY <1>1, <1>3, ResetKept
    <2>5. QED
      BY <1>1, <2>1, <2>3, <2>4, EndedStays DEF SesInv, OldPasswordEnded
  <1>4. QED
    BY <1>2, <1>3

LEMMA SesInvAlways == SesSpec => []SesInv
  <1>1. SesInv /\ [SesNext]_allVars => SesInv'
    BY MovesSessions, StepSesTypes, StepHeldToken, StepOneSession,
       StepLoggedOutEnded, StepSweptEnded, StepOldPasswordEnded
    DEF SesInv
  <1>2. QED
    BY <1>1, SesInitInv, PTL DEF SesSpec

(* Of all the tokens that descend from a login at most one is valid or     *)
(* about to be issued, unless a refresh revoked what another request had   *)
(* revoked: refresh, logout, revokeAll and cleanup in any order.           *)
THEOREM OneSessionAlways == SesSpec => []OneSessionPerLogin
  <1>1. SesInv => OneSessionPerLogin
    BY DEF SesInv
  <1>2. QED
    BY <1>1, SesInvAlways, PTL

(* A logout that met no refresh of its session in flight, and no fork of   *)
(* it, ends the session for good, for any logins, tokens and requests.     *)
THEOREM LoggedOutAlwaysStaysOver == SesSpec => []LoggedOutStaysOver
  <1>1. SesInv => LoggedOutStaysOver
    BY DEF SesInv, LoggedOutEnded, Ended, LoggedOutStaysOver
  <1>2. QED
    BY <1>1, SesInvAlways, PTL

(* logoutAllDevices and resetPassword end every session of an earlier      *)
(* login, except one with a login or a refresh in flight at their updateMany. *)
THEOREM SurvivorAlwaysHasCause == SesSpec => []SurvivorHasCause
  <1>1. SesInv => SurvivorHasCause
    BY DEF SesInv, SweptEnded, Ended, SurvivorHasCause
  <1>2. QED
    BY <1>1, SesInvAlways, PTL

(* A session of a replaced password is valid only before the reset's last  *)
(* statement, if the reset died before it, or if a request of the session  *)
(* was in flight at it.                                                    *)
THEOREM OldPasswordSessionAlwaysHasCause == SesSpec => []OldPasswordSessionHasCause
  <1>1. SesInv => OldPasswordSessionHasCause
    BY DEF SesInv, OldPasswordEnded, Ended, OldPasswordSessionHasCause
  <1>2. QED
    BY <1>1, SesInvAlways, PTL

-------------------------------------------------------------------------------
(* Types of the composition.                                               *)

\* A request is inside auth.service.ts or inside otp.service.ts.
InOneService == \A r \in Requests : ~At(r, "idle") => OtpAt(r, "idle")

LEMMA StepInOneService ==
  OtpTypes /\ SesTypes /\ InOneService /\ [SesNext]_allVars => InOneService'
  <1> SUFFICES ASSUME OtpTypes, SesTypes, InOneService, [SesNext]_allVars,
                      NEW q \in Requests, ses'[q].pc # "idle"
               PROVE  req'[q].pc = "idle"
    BY DEF InOneService, At, OtpAt
  <1>t. /\ ses \in [Requests -> SesRequest] /\ req \in [Requests -> OtpRequest]
        /\ IdleSes.pc = "idle" /\ IdleOtp.pc = "idle"
        /\ ses[q].pc # "idle" => req[q].pc = "idle"
    BY DEF OtpTypes, SesTypes, RequestsOK, InOneService, At, OtpAt, IdleSes, IdleOtp
  <1>1. ASSUME NEW r \in Requests, SesStep(r), UNCHANGED otpVars
        PROVE  req'[q].pc = "idle"
    <2>1. ASSUME q # r PROVE ses'[q] = ses[q]
      BY <1>1, <1>t, <2>1 DEF SesStep, LoginChecks, RefreshChecks, LogoutFinds, IssueToken,
         RefreshRevokes, LogoutRevokes, ResetRevokesAll, SessionDies, Return
    <2>2. ASSUME q = r, ses[q].pc = "idle" PROVE req[q].pc = "idle"
      BY <1>1, <2>2 DEF SesStep, LoginChecks, RefreshChecks, LogoutFinds, IssueToken,
         RefreshRevokes, LogoutRevokes, ResetRevokesAll, SessionDies, IsFree, At, OtpAt
    <2>3. QED
      BY <1>1, <1>t, <2>1, <2>2 DEF otpVars
  <1>2. CASE SesTime /\ UNCHANGED otpVars
    BY <1>2, <1>t DEF SesTime, LogoutAllDevices, TokenExpires, CleanupTokens, otpVars
  <1>3. ASSUME NEW r \in Requests, ResetUpdatesPassword(r) PROVE req'[q].pc = "idle"
    BY <1>3, <1>t DEF ResetUpdatesPassword, CallerReturns, OtpReturn
  <1>4. ASSUME NEW r \in Requests, At(r, "idle"), OtpStep(r) \/ OtpDies(r),
               UNCHANGED sesVars
        PROVE  req'[q].pc = "idle"
    <2>1. q # r
      BY <1>4 DEF At, sesVars
    <2>2. req'[q] = req[q]
      BY <1>4, <2>1, <1>t DEF OtpStep, GenerateInvalidates, GenerateCreates, VerifyFinds,
         VerifyCountsAttempt, VerifyMarksUsed, OtpDies, OtpGoto, OtpReturn
    <2>3. QED
      BY <1>4, <1>t, <2>2 DEF sesVars
  <1>5. CASE OtpTime /\ UNCHANGED sesVars
    BY <1>5, <1>t DEF OtpTime, Cleanup, Expire, sesVars
  <1>6. CASE UNCHANGED allVars
    BY <1>6, <1>t DEF allVars, otpVars, sesVars
  <1>7. QED
    BY <1>1, <1>2, <1>3, <1>4, <1>5, <1>6 DEF SesNext

(* Codes, tokens and the requests of both services keep their types, and   *)
(* resetPassword hands a request from one service to the other: none is    *)
(* ever inside both.                                                       *)
THEOREM SesTypeCorrect == SesSpec => []SesTypeOK
  <1>1. SesInit => InOneService
    BY DEF SesInit, InOneService, At, IdleSes
  <1>2. SesInv => SesTypes
    BY DEF SesInv
  <1>3. OtpTypeOK => OtpTypes
    BY DEF OtpTypeOK
  <1>4. SesSpec => []InOneService
    BY <1>1, <1>2, <1>3, SessionsUseOtp, OtpTypeCorrect, SesInvAlways, StepInOneService,
       PTL DEF SesSpec
  <1>5. OtpTypeOK /\ SesTypes /\ InOneService => SesTypeOK
    BY DEF SesTypeOK, InOneService
  <1>6. QED
    BY <1>2, <1>4, <1>5, SessionsUseOtp, OtpTypeCorrect, SesInvAlways, PTL
================================================================================
