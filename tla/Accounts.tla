------------------------------- MODULE Accounts -------------------------------
(***************************************************************************)
(* The user row behind every session: user.service.ts (roles, status,      *)
(* soft delete) against the requests of auth.service.ts that read the row  *)
(* once and act on what they read: register, login, refresh, verifyEmail.  *)
(*                                                                         *)
(* authenticate never reads the row: an access token carries the roles it  *)
(* was signed with until it expires, whatever becomes of the user.  The    *)
(* audit rows, names and passwords are left out; Sessions models the       *)
(* refresh tokens one by one, of which only "is there a valid one" counts  *)
(* here.                                                                   *)
(***************************************************************************)
EXTENDS Integers, FiniteSets

CONSTANTS
  Users,
  Roles,
  Student,      \* the role register gives
  AccRequests   \* requests in flight

ASSUME AccountsAssumption == Student \in Roles /\ Users # {}

\* AccountStatus; "absent" is no row.  Nothing here tells BANNED, or the
\* DEACTIVATED of remove, from SUSPENDED.
Blocked == {"SUSPENDED"}
AccountStatus == Blocked \cup {"ACTIVE", "PENDING_VERIFICATION"}

VARIABLES
  status,      \* user -> AccountStatus, or "absent"
  roles,       \* user -> the UserRole rows
  session,     \* user -> a valid refresh token exists
  access,      \* user -> the role sets in unexpired access tokens
  acc,         \* the requests in flight
  raced,       \* history: users whose role was removed by a request that
               \*   another removal had overtaken after its check
  inside       \* history: users who were let in, or on their way in, when
               \*   they were blocked

accVars == <<status, roles, session, access, acc, raced, inside>>

AccSteps == {"idle", "create", "readRoles", "revoke", "issue", "verify",
             "assignRole", "removeRole", "setStatus"}
AccRequest == [pc : AccSteps, user : Users, held : SUBSET Roles,
               overtaken : BOOLEAN, to : Roles \cup AccountStatus]
AccIdle == [pc |-> "idle", user |-> CHOOSE u \in Users : TRUE, held |-> {},
            overtaken |-> FALSE, to |-> Student]

AccAt(r, step)   == acc[r].pc = step
AccReturn(r)     == acc' = [acc EXCEPT ![r] = AccIdle]
Starts(r, u, pc) == /\ AccAt(r, "idle")
                    /\ acc' = [acc EXCEPT ![r] = [AccIdle EXCEPT !.pc = pc, !.user = u]]
Exists(u) == status[u] # "absent"

\* u holds a token, or a request that has passed its checks will give it
\* one or reactivate it.
Entering(r, u) == acc[r].user = u
                    /\ acc[r].pc \in {"create", "readRoles", "revoke", "issue", "verify"}
Inside(u) == \/ session[u] \/ access[u] # {}
             \/ \E r \in AccRequests : Entering(r, u)

-------------------------------------------------------------------------------
(* auth.service.ts                                                         *)

RegisterFinds(r, u) ==
  /\ status[u] = "absent"
  /\ Starts(r, u, "create")
  /\ UNCHANGED <<status, roles, session, access, raced, inside>>

\* The e-mail is unique: a second create fails with P2002.
RegisterCreates(r) ==
  LET u == acc[r].user IN
  /\ AccAt(r, "create")
  /\ \/ /\ Exists(u)
        /\ AccReturn(r)
        /\ UNCHANGED <<status, roles>>
     \/ /\ ~Exists(u)
        /\ status' = [status EXCEPT ![u] = "PENDING_VERIFICATION"]
        /\ roles' = [roles EXCEPT ![u] = {Student}]
        /\ acc' = [acc EXCEPT ![r].pc = "issue", ![r].held = {Student}]
  /\ UNCHANGED <<session, access, raced, inside>>

\* Variant: the status check is missing.
AdmitsAnyone(u) == Exists(u)

MayLogIn(u) == Exists(u) /\ status[u] \notin Blocked

Login(r, u) ==
  /\ MayLogIn(u)
  /\ AccAt(r, "idle")
  /\ acc' = [acc EXCEPT ![r] =
       [AccIdle EXCEPT !.pc = "issue", !.user = u, !.held = roles[u]]]
  /\ UNCHANGED <<status, roles, session, access, raced, inside>>

\* refresh looks at the stored token, never at the status.
RefreshFindsToken(r, u) ==
  /\ session[u]
  /\ Starts(r, u, "readRoles")
  /\ UNCHANGED <<status, roles, session, access, raced, inside>>

\* Variant: the new token copies the roles of the tokens still live.
RolesOfOldTokens(u) == UNION access[u]

RolesToSign(u) == roles[u]

RefreshReadsRoles(r) ==
  /\ AccAt(r, "readRoles")
  /\ acc' = [acc EXCEPT ![r].pc = "revoke", ![r].held = RolesToSign(acc[r].user)]
  /\ UNCHANGED <<status, roles, session, access, raced, inside>>

\* Other sessions of the user may remain.
RefreshRevokes(r) ==
  /\ AccAt(r, "revoke")
  /\ \E left \in {FALSE, session[acc[r].user]} :
       session' = [session EXCEPT ![acc[r].user] = left]
  /\ acc' = [acc EXCEPT ![r].pc = "issue"]
  /\ UNCHANGED <<status, roles, access, raced, inside>>

IssueTokens(r) ==
  LET u == acc[r].user IN
  /\ AccAt(r, "issue")
  /\ access' = [access EXCEPT ![u] = @ \cup {acc[r].held}]
  /\ session' = [session EXCEPT ![u] = TRUE]
  /\ AccReturn(r)
  /\ UNCHANGED <<status, roles, raced, inside>>

\* verify-email is behind authenticate: a live access token, and a code that
\* Otp accepts.
VerifyEmail(r, u) ==
  /\ access[u] # {}
  /\ Starts(r, u, "verify")
  /\ UNCHANGED <<status, roles, session, access, raced, inside>>

MarkEmailVerified(r) ==
  /\ AccAt(r, "verify")
  /\ status' = [status EXCEPT ![acc[r].user] = "ACTIVE"]
  /\ AccReturn(r)
  /\ UNCHANGED <<roles, session, access, raced, inside>>

\* logout, logoutAllDevices, a password reset, or the token's expiresAt.
SessionEnds(u) ==
  /\ session[u]
  /\ session' = [session EXCEPT ![u] = FALSE]
  /\ UNCHANGED <<status, roles, access, acc, raced, inside>>

\* JWT_ACCESS_EXPIRES_IN after it was signed.
AccessExpires(u, held) ==
  /\ held \in access[u]
  /\ access' = [access EXCEPT ![u] = @ \ {held}]
  /\ UNCHANGED <<status, roles, session, acc, raced, inside>>

-------------------------------------------------------------------------------
(* user.service.ts, called by staff                                        *)

AssignFindsUser(r, u, role) ==
  /\ Exists(u)
  /\ AccAt(r, "idle")
  /\ acc' = [acc EXCEPT ![r] =
       [AccIdle EXCEPT !.pc = "assignRole", !.user = u, !.to = role]]
  /\ UNCHANGED <<status, roles, session, access, raced, inside>>

AssignRole(r) ==
  /\ AccAt(r, "assignRole")
  /\ roles' = [roles EXCEPT ![acc[r].user] = @ \cup {acc[r].to}]
  /\ AccReturn(r)
  /\ UNCHANGED <<status, session, access, raced, inside>>

\* Variant: the guard is missing.
RemovesLastRole(u, role) == TRUE

MayRemoveRole(u, role) == roles[u] # {role}

RemoveFindsUser(r, u, role) ==
  /\ Exists(u)
  /\ MayRemoveRole(u, role)
  /\ AccAt(r, "idle")
  /\ acc' = [acc EXCEPT ![r] =
       [AccIdle EXCEPT !.pc = "removeRole", !.user = u, !.to = role]]
  /\ UNCHANGED <<status, roles, session, access, raced, inside>>

RemoveRole(r) ==
  LET u == acc[r].user IN
  /\ AccAt(r, "removeRole")
  /\ roles' = [roles EXCEPT ![u] = @ \ {acc[r].to}]
  /\ acc' = [q \in AccRequests |->
       IF q = r THEN AccIdle
       ELSE IF AccAt(q, "removeRole") /\ acc[q].user = u
              THEN [acc[q] EXCEPT !.overtaken = TRUE] ELSE acc[q]]
  /\ raced' = IF acc[r].overtaken THEN raced \cup {u} ELSE raced
  /\ UNCHANGED <<status, session, access, inside>>

\* updateStatus, and remove (a status, and deletedAt, which none of this reads).
SetStatusFindsUser(r, u, to) ==
  /\ Exists(u)
  /\ AccAt(r, "idle")
  /\ acc' = [acc EXCEPT ![r] =
       [AccIdle EXCEPT !.pc = "setStatus", !.user = u, !.to = to]]
  /\ UNCHANGED <<status, roles, session, access, raced, inside>>

SetStatus(r) ==
  LET u == acc[r].user IN
  /\ AccAt(r, "setStatus")
  /\ status' = [status EXCEPT ![u] = acc[r].to]
  /\ inside' = IF acc[r].to \in Blocked /\ ~Inside(u)
                 THEN inside \ {u} ELSE inside \cup {u}
  /\ AccReturn(r)
  /\ UNCHANGED <<roles, session, access, raced>>

AccDies(r) ==
  /\ ~AccAt(r, "idle")
  /\ AccReturn(r)
  /\ UNCHANGED <<status, roles, session, access, raced, inside>>

-------------------------------------------------------------------------------
AccInit ==
  /\ status = [u \in Users |-> "absent"]
  /\ roles = [u \in Users |-> {}]
  /\ session = [u \in Users |-> FALSE]
  /\ access = [u \in Users |-> {}]
  /\ acc = [r \in AccRequests |-> AccIdle]
  /\ raced = {}
  /\ inside = Users

AccStep(r) ==
  \/ \E u \in Users : \/ RegisterFinds(r, u) \/ Login(r, u)
                      \/ RefreshFindsToken(r, u) \/ VerifyEmail(r, u)
                      \/ \E role \in Roles : AssignFindsUser(r, u, role)
                                               \/ RemoveFindsUser(r, u, role)
                      \/ \E to \in AccountStatus : SetStatusFindsUser(r, u, to)
  \/ RegisterCreates(r) \/ RefreshReadsRoles(r) \/ RefreshRevokes(r)
  \/ IssueTokens(r) \/ MarkEmailVerified(r)
  \/ AssignRole(r) \/ RemoveRole(r) \/ SetStatus(r) \/ AccDies(r)

AccTime(u) == SessionEnds(u) \/ \E held \in SUBSET Roles : AccessExpires(u, held)

AccNext ==
  \/ \E r \in AccRequests : AccStep(r)
  \/ \E u \in Users : AccTime(u)

\* Access tokens do expire.
AccFair == \A u \in Users : \A held \in SUBSET Roles :
             WF_accVars(AccessExpires(u, held))

AccSpec == AccInit /\ [][AccNext]_accVars /\ AccFair

-------------------------------------------------------------------------------
AccTypeOK ==
  /\ status \in [Users -> AccountStatus \cup {"absent"}]
  /\ roles \in [Users -> SUBSET Roles]
  /\ session \in [Users -> BOOLEAN]
  /\ access \in [Users -> SUBSET SUBSET Roles]
  /\ acc \in [AccRequests -> AccRequest]
  /\ raced \subseteq Users /\ inside \subseteq Users
  /\ \A r \in AccRequests :
       /\ acc[r].pc \in {"assignRole", "removeRole"} => acc[r].to \in Roles
       /\ acc[r].pc = "setStatus" => acc[r].to \in AccountStatus

\* The guard of updateRole keeps every user a role: one without any got there
\* by two removals that overlapped between the guard and the delete.
RolelessHasCause ==
  \A u \in Users : Exists(u) /\ roles[u] = {} => u \in raced

\* Whoever is suspended, banned or deleted while holding no token and with no
\* login, refresh or verification under way stays out: no later request lets
\* them in or reactivates them, until staff set another status.
LockedOutStaysOut ==
  \A u \in Users \ inside : status[u] \in Blocked /\ ~Inside(u)

\* A role taken away wears off: access tokens signed with it expire, and no
\* refresh signs it again.
LostRoleWearsOff ==
  \A u \in Users : \A role \in Roles :
    <>[](role \notin roles[u]) => <>[](\A held \in access[u] : role \notin held)
===============================================================================
