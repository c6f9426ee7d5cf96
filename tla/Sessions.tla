------------------------------- MODULE Sessions -------------------------------
(***************************************************************************)
(* auth.service.ts for one registered user: login, refresh with rotation,  *)
(* logout, logoutAllDevices and resetPassword, composed with the one-time  *)
(* codes (Otp) for the purpose PASSWORD_RESET.                             *)
(*                                                                         *)
(* The refresh tokens that descend from one login are its family.  What    *)
(* the user row and the JWT contribute to a check (wrong password, blocked *)
(* account, expired token) is an error reply that changes nothing.         *)
(***************************************************************************)
EXTENDS Otp

CONSTANTS
  Tokens,   \* ids of RefreshToken rows
  Logins,   \* the families
  NoToken, NoLogin

ASSUME SessionsAssumption ==
  /\ IsFiniteSet(Tokens)
  /\ NoToken \notin Tokens /\ NoLogin \notin Logins

VARIABLES
  tokens,     \* the rows: "free" is an id that no row has
  ses,        \* the requests in flight outside otp.service.ts
  forked,     \* history: families in which a refresh revoked a token that
              \*   another request had revoked after it was read
  outOfDate,  \* history: families whose login read a password since replaced
  swept,      \* history: families that existed at the last revokeAllForUser
  straddling, \* history: families with a login or refresh in flight then
  unswept,    \* history: a reset died between its last two statements
  loggedOut   \* history: families whose one valid token a logout revoked
              \*   while no refresh of them was in flight

sesHistory == <<forked, outOfDate, swept, straddling, unswept, loggedOut>>
sesVars    == <<tokens, ses, sesHistory>>
allVars    == <<otpVars, sesVars>>

TokenRow == [state : {"free", "valid", "revoked"}, login : Logins \cup {NoLogin}]
FreeToken == [state |-> "free", login |-> NoLogin]

SesSteps == {"idle", "revoke", "issue", "logout", "revokeAll"}
SesRequest == [pc : SesSteps, token : Tokens \cup {NoToken},
               login : Logins \cup {NoLogin}]
IdleSes == [pc |-> "idle", token |-> NoToken, login |-> NoLogin]

At(r, step) == ses[r].pc = step
Return(r)   == ses' = [ses EXCEPT ![r] = IdleSes]
IsFree(r)   == At(r, "idle") /\ OtpAt(r, "idle")

Valid(f)   == {t \in Tokens : tokens[t].state = "valid" /\ tokens[t].login = f}
Issuing(f) == {r \in Requests : At(r, "issue") /\ ses[r].login = f}
Busy       == {f \in Logins : \E r \in Requests :
                 ses[r].pc \in {"revoke", "issue"} /\ ses[r].login = f}
Known      == Busy \cup {f \in Logins : \E t \in Tokens : tokens[t].login = f}

-------------------------------------------------------------------------------
(* login: the user row is read once; recordLogin and the JWTs touch        *)
(* nothing here.  (register issues its first token in the same way.)       *)

LoginChecks(r, f) ==
  /\ IsFree(r)
  /\ f \notin Known
  /\ ses' = [ses EXCEPT ![r] = [IdleSes EXCEPT !.pc = "issue", !.login = f]]
  /\ forked' = forked \ {f}
  /\ outOfDate' = outOfDate \ {f}
  /\ swept' = swept \ {f}
  /\ straddling' = straddling \ {f}
  /\ loggedOut' = loggedOut \ {f}
  /\ UNCHANGED <<tokens, unswept>>

\* issueTokens: the token of a login or the successor of a refresh.
IssueToken(r, t) ==
  /\ At(r, "issue")
  /\ tokens[t] = FreeToken
  /\ \A q \in Requests : ses[q].token # t
  /\ tokens' = [tokens EXCEPT ![t] = [state |-> "valid", login |-> ses[r].login]]
  /\ Return(r)
  /\ UNCHANGED sesHistory

-------------------------------------------------------------------------------
(* refresh                                                                 *)

\* Variant: the isRevoked check is missing.
AcceptsRevoked(t) == tokens[t].state # "free"

\* !stored || stored.isRevoked is an error.
Accepts(t) == tokens[t].state = "valid"

RefreshChecks(r, t) ==
  /\ IsFree(r)
  /\ Accepts(t)
  /\ ses' = [ses EXCEPT ![r] =
       [pc |-> "revoke", token |-> t, login |-> tokens[t].login]]
  /\ UNCHANGED <<tokens, sesHistory>>

\* Variants: the used token stays valid; its row is deleted.
KeepsToken(t)   == tokens[t].state
DeletesToken(t) == "free"

\* revoke, whatever the row says by now.
RevokedState(t) == "revoked"

\* The update is by id and fails (P2025) when cleanup deleted the row.
RefreshRevokes(r) ==
  LET t == ses[r].token IN
  /\ At(r, "revoke")
  /\ \/ /\ tokens[t].state = "free"
        /\ Return(r)
        /\ UNCHANGED <<tokens, forked>>
     \/ /\ tokens[t].state # "free"
        /\ tokens' = [tokens EXCEPT ![t].state = RevokedState(t)]
        /\ ses' = [ses EXCEPT ![r].pc = "issue", ![r].token = NoToken]
        /\ forked' = IF tokens[t].state = "revoked"
                       THEN forked \cup {ses[r].login} ELSE forked
  /\ UNCHANGED <<outOfDate, swept, straddling, unswept, loggedOut>>

-------------------------------------------------------------------------------
(* logout and logoutAllDevices                                             *)

LogoutFinds(r, t) ==
  /\ IsFree(r)
  /\ tokens[t].state = "valid"
  /\ ses' = [ses EXCEPT ![r] = [IdleSes EXCEPT !.pc = "logout", !.token = t]]
  /\ UNCHANGED <<tokens, sesHistory>>

\* For the history: the families that nothing keeps alive once t, which is
\* still valid, is revoked.
Cut(t) == IF tokens[t].state = "valid" THEN Logins \ (Busy \cup forked) ELSE {}

LogoutRevokes(r) ==
  LET t == ses[r].token IN
  /\ At(r, "logout")
  /\ tokens' = IF tokens[t].state = "free" THEN tokens
               ELSE [tokens EXCEPT ![t].state = "revoked"]
  /\ Return(r)
  /\ loggedOut' = loggedOut \cup ({tokens[t].login} \cap Cut(t))
  /\ UNCHANGED <<forked, outOfDate, swept, straddling, unswept>>

RevokedByAll(t) == IF tokens[t].state = "valid" THEN "revoked" ELSE tokens[t].state

\* revokeAllForUser is one updateMany.
RevokeAll ==
  /\ tokens' = [t \in Tokens |-> [tokens[t] EXCEPT !.state = RevokedByAll(t)]]
  /\ swept' = Known
  /\ straddling' = Busy
  /\ unswept' = FALSE
  /\ UNCHANGED <<forked, outOfDate, loggedOut>>

LogoutAllDevices == RevokeAll /\ UNCHANGED ses

-------------------------------------------------------------------------------
(* resetPassword: the code is verified by Otp's steps; then the password   *)
(* is replaced, then all tokens are revoked.                               *)

ResetUpdatesPassword(r) ==
  /\ CallerReturns(r)
  /\ ses' = [ses EXCEPT ![r].pc = "revokeAll"]
  /\ outOfDate' = Known
  /\ UNCHANGED <<tokens, forked, swept, straddling, unswept, loggedOut>>

ResetRevokesAll(r) ==
  /\ At(r, "revokeAll")
  /\ RevokeAll
  /\ Return(r)

-------------------------------------------------------------------------------
SessionDies(r) ==
  /\ Failures
  /\ ~At(r, "idle")
  /\ Return(r)
  /\ unswept' = (unswept \/ At(r, "revokeAll"))
  /\ UNCHANGED <<tokens, forked, outOfDate, swept, straddling, loggedOut>>

\* The daily job EXPIRED_REFRESH_TOKENS, for tokens revoked long enough.
CleanupTokens(old) ==
  /\ old # {}
  /\ \A t \in old : tokens[t].state = "revoked"
  /\ tokens' = [t \in Tokens |-> IF t \in old THEN FreeToken ELSE tokens[t]]
  /\ UNCHANGED <<ses, sesHistory>>

\* The job again, for a token whose expiresAt has passed.
TokenExpires(t) ==
  /\ tokens[t].state = "valid"
  /\ tokens' = [tokens EXCEPT ![t] = FreeToken]
  /\ UNCHANGED <<ses, sesHistory>>

-------------------------------------------------------------------------------
SesInit ==
  /\ OtpInit
  /\ tokens = [t \in Tokens |-> FreeToken]
  /\ ses = [r \in Requests |-> IdleSes]
  /\ forked = {} /\ outOfDate = {} /\ swept = {} /\ straddling = {}
  /\ loggedOut = {}
  /\ unswept = FALSE

SesStep(r) ==
  \/ \E f \in Logins : LoginChecks(r, f)
  \/ \E t \in Tokens : RefreshChecks(r, t) \/ LogoutFinds(r, t) \/ IssueToken(r, t)
  \/ RefreshRevokes(r)
  \/ LogoutRevokes(r)
  \/ ResetRevokesAll(r)
  \/ SessionDies(r)

SesTime ==
  \/ LogoutAllDevices
  \/ \E t \in Tokens : TokenExpires(t)
  \/ \E old \in SUBSET Tokens : CleanupTokens(old)

SesNext ==
  \/ (\E r \in Requests : SesStep(r)) /\ UNCHANGED otpVars
  \/ SesTime /\ UNCHANGED otpVars
  \/ \E r \in Requests : ResetUpdatesPassword(r)
  \/ \E r \in Requests : At(r, "idle") /\ (OtpStep(r) \/ OtpDies(r)) /\ UNCHANGED sesVars
  \/ OtpTime /\ UNCHANGED sesVars

SesSpec == SesInit /\ [][SesNext]_allVars

-------------------------------------------------------------------------------
TokensOK ==
  /\ tokens \in [Tokens -> TokenRow]
  /\ \A t \in Tokens : tokens[t].login = NoLogin <=> tokens[t].state = "free"

RequestsOK ==
  /\ ses \in [Requests -> SesRequest]
  /\ \A r \in Requests :
       /\ ses[r].pc \in {"revoke", "logout"} => ses[r].token \in Tokens
       /\ ses[r].pc \in {"revoke", "issue"} => ses[r].login \in Logins

SesHistoryOK ==
  /\ forked \cup outOfDate \cup swept \cup straddling \cup loggedOut
       \subseteq Logins
  /\ unswept \in BOOLEAN

SesTypes == TokensOK /\ RequestsOK /\ SesHistoryOK

SesTypeOK ==
  /\ OtpTypeOK
  /\ SesTypes
  /\ \A r \in Requests : ~At(r, "idle") => OtpAt(r, "idle")

(* Rotation keeps one session per login: of all the tokens that descend    *)
(* from a login at most one is valid or about to be issued, unless a       *)
(* refresh overlapped another request that revoked the same token.         *)
OneSessionPerLogin ==
  \A f \in Logins \ forked :
    Cardinality(Valid(f)) + Cardinality(Issuing(f)) <= 1

(* A session outlives its logout only by a refresh that overlapped it: once *)
(* a logout has revoked the valid token of a login that no refresh was busy *)
(* with, and whose rotation had not forked, no token of that login is ever  *)
(* valid again, whatever a client still holds or sends.                     *)
LoggedOutStaysOver == \A f \in loggedOut : Valid(f) = {}

(* After logoutAllDevices or a reset has revoked all tokens, a session of  *)
(* an earlier login is valid only if a login or a refresh of it was in     *)
(* flight at that statement.                                               *)
SurvivorHasCause ==
  \A f \in swept : Valid(f) # {} => f \in straddling

(* A session whose login used a password that has been replaced since is   *)
(* valid only while the reset is before its last statement, or if that     *)
(* reset died there, or if a request of the session was in flight when the *)
(* tokens were revoked.                                                    *)
OldPasswordSessionHasCause ==
  \A f \in outOfDate :
    Valid(f) # {} =>
      \/ unswept
      \/ f \in straddling
      \/ \E r \in Requests : At(r, "revokeAll")
================================================================================
