---------------------------- MODULE ServicesProofs ----------------------------
(***************************************************************************)
(* Theorems about the services that stand alone, for any users, roles,     *)
(* keys, columns, objects and requests.                                    *)
(*                                                                         *)
(* Accounts: what the last-role guard of updateRole saw still holds at the *)
(* delete, unless another removal overtook it.                             *)
(* CacheAside: a request that fetched a row that is gone stale is one that *)
(* a write overtook.                                                       *)
(* Files: ownership.  A key is named in one place at most, a request owns  *)
(* the key it made until it writes it somewhere, and the key a request is  *)
(* replacing or deleting can only be where it was read.                    *)
(***************************************************************************)
EXTENDS MC_Services, RealtimeProofs, HttpProofs, WellFoundedInduction

(* Accounts.                                                               *)

\* A request that got past its checks has a row to act on: rows never go away.
ActsOnRow ==
  /\ \A u \in Users : session[u] \/ access[u] # {} => Exists(u)
  /\ \A r \in AccRequests :
       acc[r].pc \notin {"idle", "create"} => Exists(acc[r].user)

\* What the guard of updateRole saw still holds at the delete, unless another
\* removal overtook it or the user has no role to lose.
GuardStands ==
  \A r \in AccRequests : AccAt(r, "removeRole") /\ ~acc[r].overtaken =>
    roles[acc[r].user] # {acc[r].to} \/ acc[r].user \in raced

LEMMA AccIdleTyped == AccIdle \in AccRequest /\ AccIdle.pc = "idle"
  <1>1. (CHOOSE u \in Users : TRUE) \in Users
    BY AccountsAssumption
  <1>2. QED
    BY <1>1, AccountsAssumption DEF AccIdle, AccRequest, AccSteps

LEMMA AccInitTypeOK == AccInit => AccTypeOK
  BY AccIdleTyped DEF AccInit, AccTypeOK, AccountStatus

\* A slot given a well-formed request keeps acc well-formed.
LEMMA AccSlotTyped ==
  ASSUME AccTypeOK, NEW r \in AccRequests, NEW v \in AccRequest,
         v.pc \in {"assignRole", "removeRole"} => v.to \in Roles,
         v.pc = "setStatus" => v.to \in AccountStatus,
         acc' = [acc EXCEPT ![r] = v]
  PROVE  /\ acc' \in [AccRequests -> AccRequest]
         /\ \A q \in AccRequests :
              /\ acc'[q].pc \in {"assignRole", "removeRole"} => acc'[q].to \in Roles
              /\ acc'[q].pc = "setStatus" => acc'[q].to \in AccountStatus
  BY DEF AccTypeOK

LEMMA AccStepTypeOK == AccTypeOK /\ [AccNext]_accVars => AccTypeOK'
  <1> SUFFICES ASSUME AccTypeOK, [AccNext]_accVars PROVE AccTypeOK'
    OBVIOUS
  <1>i. AccIdle \in AccRequest /\ AccIdle.pc = "idle"
    BY AccIdleTyped
  <1> USE AccountsAssumption DEF AccTypeOK, AccAt, AccReturn, Starts
  <1>1. ASSUME NEW r \in AccRequests, NEW u \in Users, RegisterFinds(r, u)
        PROVE  AccTypeOK'
    BY <1>1, <1>i DEF RegisterFinds, AccRequest, AccSteps
  <1>2. ASSUME NEW r \in AccRequests, RegisterCreates(r) PROVE AccTypeOK'
    BY <1>2, <1>i DEF RegisterCreates, AccRequest, AccSteps, AccountStatus
  <1>3. ASSUME NEW r \in AccRequests, NEW u \in Users, Login(r, u) PROVE AccTypeOK'
    BY <1>3, <1>i DEF Login, AccRequest, AccSteps
  <1>4. ASSUME NEW r \in AccRequests, NEW u \in Users, RefreshFindsToken(r, u)
        PROVE  AccTypeOK'
    BY <1>4, <1>i DEF RefreshFindsToken, AccRequest, AccSteps
  <1>5. ASSUME NEW r \in AccRequests, RefreshReadsRoles(r) PROVE AccTypeOK'
    <2> DEFINE held == RolesToSign(acc[r].user)
               v == [acc[r] EXCEPT !.pc = "revoke", !.held = held]
    <2>1. held \in SUBSET Roles
      BY DEF AccRequest, RolesToSign
    <2>2. acc' = [acc EXCEPT ![r] = v]
      BY <1>5 DEF RefreshReadsRoles
    <2> HIDE DEF held
    <2>a. acc[r] \in AccRequest
      OBVIOUS
    <2>3. v \in AccRequest /\ v.pc = "revoke"
      BY <2>1, <2>a DEF AccRequest, AccSteps
    <2> HIDE DEF v
    <2>4. QED
      BY <1>5, <2>2, <2>3, AccSlotTyped DEF RefreshReadsRoles
  <1>6. ASSUME NEW r \in AccRequests, RefreshRevokes(r) PROVE AccTypeOK'
    <2>1. session' \in [Users -> BOOLEAN]
      <3>1. PICK left \in {FALSE, session[acc[r].user]} :
              session' = [session EXCEPT ![acc[r].user] = left]
        BY <1>6 DEF RefreshRevokes
      <3>2. acc[r].user \in Users /\ left \in BOOLEAN
        BY DEF AccRequest
      <3>3. QED
        BY <3>1, <3>2
    <2>2. acc' = [acc EXCEPT ![r].pc = "issue"]
      BY <1>6 DEF RefreshRevokes
    <2>3. [acc[r] EXCEPT !.pc = "issue"] \in AccRequest
      BY DEF AccRequest, AccSteps
    <2>4. QED
      BY <1>6, <2>1, <2>2, <2>3, AccSlotTyped DEF RefreshRevokes
  <1>7. ASSUME NEW r \in AccRequests, IssueTokens(r) PROVE AccTypeOK'
    BY <1>7, <1>i DEF IssueTokens, AccRequest
  <1>8. ASSUME NEW r \in AccRequests, NEW u \in Users, VerifyEmail(r, u)
        PROVE  AccTypeOK'
    BY <1>8, <1>i DEF VerifyEmail, AccRequest, AccSteps
  <1>9. ASSUME NEW r \in AccRequests, MarkEmailVerified(r) PROVE AccTypeOK'
    BY <1>9, <1>i DEF MarkEmailVerified, AccountStatus
  <1>10. ASSUME NEW r \in AccRequests, NEW u \in Users, NEW role \in Roles,
                AssignFindsUser(r, u, role) \/ RemoveFindsUser(r, u, role)
         PROVE  AccTypeOK'
    <2>1. CASE AssignFindsUser(r, u, role)
      BY <2>1, <1>i DEF AssignFindsUser, AccRequest, AccSteps
    <2>2. CASE RemoveFindsUser(r, u, role)
      BY <2>2, <1>i DEF RemoveFindsUser, AccRequest, AccSteps
    <2>3. QED
      BY <1>10, <2>1, <2>2
  <1>11. ASSUME NEW r \in AccRequests, AssignRole(r) PROVE AccTypeOK'
    BY <1>11, <1>i DEF AssignRole, AccRequest
  <1>12. ASSUME NEW r \in AccRequests, RemoveRole(r) PROVE AccTypeOK'
    <2>1. acc[r].user \in Users
      BY DEF AccRequest
    <2>2. roles' \in [Users -> SUBSET Roles] /\ raced' \subseteq Users
      BY <1>12, <2>1 DEF RemoveRole
    <2>3. ASSUME NEW q \in AccRequests
          PROVE  /\ acc'[q] \in AccRequest
                 /\ acc'[q].pc \in {acc[q].pc, "idle"}
                 /\ acc'[q].pc # "idle" => acc'[q].to = acc[q].to
      <3>1. acc[q] \in AccRequest
        OBVIOUS
      <3>2. [acc[q] EXCEPT !.overtaken = TRUE] \in AccRequest
        BY <3>1 DEF AccRequest
      <3>3. acc'[q] \in {AccIdle, acc[q], [acc[q] EXCEPT !.overtaken = TRUE]}
        BY <1>12 DEF RemoveRole
      <3>4. QED
        BY <1>i, <3>1, <3>2, <3>3 DEF AccRequest
    <2>4. acc' \in [AccRequests -> AccRequest]
      BY <1>12, <2>3 DEF RemoveRole
    <2>5. QED
      BY <1>12, <2>2, <2>3, <2>4 DEF RemoveRole
  <1>13. ASSUME NEW r \in AccRequests, NEW u \in Users, NEW to \in AccountStatus,
                SetStatusFindsUser(r, u, to)
         PROVE  AccTypeOK'
    BY <1>13, <1>i DEF SetStatusFindsUser, AccRequest, AccSteps
  <1>14. ASSUME NEW r \in AccRequests, SetStatus(r) PROVE AccTypeOK'
    BY <1>14, <1>i DEF SetStatus, AccRequest
  <1>15. ASSUME NEW r \in AccRequests, AccDies(r) PROVE AccTypeOK'
    BY <1>15, <1>i DEF AccDies
  <1>16. ASSUME NEW u \in Users, AccTime(u) PROVE AccTypeOK'
    BY <1>16 DEF AccTime, SessionEnds, AccessExpires
  <1>17. CASE UNCHANGED accVars
    BY <1>17 DEF accVars
  <1>18. QED
    BY <1>1, <1>2, <1>3, <1>4, <1>5, <1>6, <1>7, <1>8, <1>9, <1>10, <1>11,
       <1>12, <1>13, <1>14, <1>15, <1>16, <1>17 DEF AccNext, AccStep

(* The user row, the tokens and the requests of user.service and            *)
(* auth.service keep their types.                                          *)
THEOREM AccTypeCorrect == AccSpec => []AccTypeOK
  BY AccInitTypeOK, AccStepTypeOK, PTL DEF AccSpec
-------------------------------------------------------------------------------
(* No row disappears, so a request past its checks has one to act on.      *)

LEMMA RowsStay ==
  ASSUME AccTypeOK, [AccNext]_accVars, NEW u \in Users, Exists(u)
  PROVE  Exists(u)'
  <1> USE DEF Exists
  <1>1. ASSUME status' = status PROVE Exists(u)'
    BY <1>1
  <1>2. ASSUME NEW r \in AccRequests, RegisterCreates(r) PROVE Exists(u)'
    BY <1>2 DEF RegisterCreates, AccTypeOK, AccRequest
  <1>3. ASSUME NEW r \in AccRequests, MarkEmailVerified(r) PROVE Exists(u)'
    BY <1>3 DEF MarkEmailVerified, AccTypeOK, AccRequest
  <1>4. ASSUME NEW r \in AccRequests, SetStatus(r) PROVE Exists(u)'
    <2>1. acc[r].to \in AccountStatus
      BY <1>4 DEF SetStatus, AccTypeOK, AccAt
    <2>2. acc[r].to # "absent"
      BY <2>1 DEF AccountStatus, Blocked
    <2>3. QED
      BY <1>4, <2>2 DEF SetStatus, AccTypeOK, AccRequest
  <1>5. QED
    BY <1>1, <1>2, <1>3, <1>4
       DEF AccNext, AccStep, AccTime, RegisterFinds, Login, RefreshFindsToken,
           RefreshReadsRoles, RefreshRevokes, IssueTokens, VerifyEmail,
           AssignFindsUser, AssignRole, RemoveFindsUser, RemoveRole,
           SetStatusFindsUser, AccDies, SessionEnds, AccessExpires, accVars

\* What a step must show: a request it moves past its checks, and a user it
\* gives a token, has a row.
LEMMA ActsFrame ==
  ASSUME AccTypeOK, ActsOnRow, [AccNext]_accVars,
         \A u \in Users : session'[u] \/ access'[u] # {} =>
           session[u] \/ access[u] # {} \/ Exists(u),
         \A r \in AccRequests : acc'[r].pc \notin {"idle", "create"} =>
           /\ acc'[r].user \in Users
           /\ \/ acc[r].pc \notin {"idle", "create"} /\ acc'[r].user = acc[r].user
              \/ Exists(acc'[r].user) \/ status'[acc'[r].user] # "absent"
  PROVE  ActsOnRow'
  <1>1. \A u \in Users : Exists(u) => Exists(u)'
    BY RowsStay
  <1>2. \A u \in Users : session'[u] \/ access'[u] # {} => Exists(u)'
    BY <1>1 DEF ActsOnRow
  <1>3. ASSUME NEW r \in AccRequests, acc'[r].pc \notin {"idle", "create"}
        PROVE  status'[acc'[r].user] # "absent"
    BY <1>1, <1>3 DEF ActsOnRow, Exists
  <1>4. QED
    BY <1>2, <1>3 DEF ActsOnRow, Exists

LEMMA StepActsOnRow ==
  AccTypeOK /\ ActsOnRow /\ [AccNext]_accVars => ActsOnRow'
  <1> SUFFICES ASSUME AccTypeOK, ActsOnRow, [AccNext]_accVars PROVE ActsOnRow'
    OBVIOUS
  <1>t. \A r \in AccRequests : acc[r] \in AccRequest /\ acc[r].user \in Users
    BY DEF AccTypeOK, AccRequest
  <1>a. \A r \in AccRequests : acc[r].pc \notin {"idle", "create"} =>
          Exists(acc[r].user)
    BY DEF ActsOnRow
  <1>i. AccIdle \in AccRequest /\ AccIdle.pc = "idle"
    BY AccIdleTyped
  <1>d. acc \in [AccRequests -> AccRequest]
    BY DEF AccTypeOK
  <1>1. ASSUME NEW r \in AccRequests, NEW u \in Users,
               RegisterFinds(r, u) \/ RefreshFindsToken(r, u) \/ VerifyEmail(r, u)
        PROVE  ActsOnRow'
    <2>0. PICK pc : acc' = [acc EXCEPT ![r] = [AccIdle EXCEPT !.pc = pc, !.user = u]]
      BY <1>1 DEF RegisterFinds, RefreshFindsToken, VerifyEmail, Starts
    <2>1. acc'[r].user = u /\ \A q \in AccRequests \ {r} : acc'[q] = acc[q]
      BY <2>0, <1>d, <1>i DEF AccRequest
    <2>2. UNCHANGED <<session, access>>
      BY <1>1 DEF RegisterFinds, RefreshFindsToken, VerifyEmail
    <2>3. acc'[r].pc \notin {"idle", "create"} => Exists(u)
      BY <1>1, <1>d, <1>i
         DEF RegisterFinds, RefreshFindsToken, VerifyEmail, Starts, ActsOnRow,
             AccRequest
    <2>4. QED
      BY <2>1, <2>2, <2>3, <1>t, ActsFrame
  <1>2. ASSUME NEW r \in AccRequests, NEW u \in Users,
               \/ Login(r, u)
               \/ \E role \in Roles : AssignFindsUser(r, u, role)
                                        \/ RemoveFindsUser(r, u, role)
               \/ \E to \in AccountStatus : SetStatusFindsUser(r, u, to)
        PROVE  ActsOnRow'
    <2>1. Exists(u) /\ UNCHANGED <<session, access>>
      BY <1>2 DEF Login, MayLogIn, AssignFindsUser, RemoveFindsUser, SetStatusFindsUser
    <2>0. \E pc, to : acc' = [acc EXCEPT ![r] =
            [AccIdle EXCEPT !.pc = pc, !.user = u, !.to = to]]
          \/ acc' = [acc EXCEPT ![r] =
            [AccIdle EXCEPT !.pc = pc, !.user = u, !.held = to]]
      BY <1>2 DEF Login, AssignFindsUser, RemoveFindsUser, SetStatusFindsUser
    <2>2. acc'[r].user = u /\ \A q \in AccRequests \ {r} : acc'[q] = acc[q]
      BY <2>0, <1>d, <1>i DEF AccRequest
    <2>3. QED
      BY <2>1, <2>2, <1>t, ActsFrame
  <1>3. ASSUME NEW r \in AccRequests, RegisterCreates(r) PROVE ActsOnRow'
    <2>1. \A q \in AccRequests \ {r} : acc'[q] = acc[q]
      BY <1>3, <1>d DEF RegisterCreates, AccReturn
    <2>2. UNCHANGED <<session, access>>
      BY <1>3 DEF RegisterCreates
    <2>3. acc'[r].pc = "idle"
            \/ (acc'[r].user = acc[r].user /\ status'[acc[r].user] # "absent")
      BY <1>3, <1>d, <1>i, <1>t DEF RegisterCreates, AccReturn, AccTypeOK, Exists, AccRequest
    <2>4. QED
      BY <2>1, <2>2, <2>3, <1>t, ActsFrame
  <1>4. ASSUME NEW r \in AccRequests,
               RefreshReadsRoles(r) \/ RefreshRevokes(r) \/ IssueTokens(r)
        PROVE  ActsOnRow'
    <2>1. \A q \in AccRequests \ {r} : acc'[q] = acc[q]
      BY <1>4, <1>d DEF RefreshReadsRoles, RefreshRevokes, IssueTokens, AccReturn
    <2>2. Exists(acc[r].user)
      BY <1>4, <1>a DEF RefreshReadsRoles, RefreshRevokes, IssueTokens, AccAt
    <2>3. acc'[r].pc = "idle" \/ acc'[r].user = acc[r].user
      BY <1>4, <1>d, <1>i, <1>t
         DEF RefreshReadsRoles, RefreshRevokes, IssueTokens, AccReturn, AccRequest
    <2>4. \A u \in Users \ {acc[r].user} : session'[u] = session[u] /\ access'[u] = access[u]
      BY <1>4 DEF RefreshReadsRoles, RefreshRevokes, IssueTokens, AccTypeOK
    <2>5. QED
      BY <2>1, <2>2, <2>3, <2>4, <1>t, ActsFrame
  <1>5. ASSUME NEW r \in AccRequests,
               MarkEmailVerified(r) \/ AssignRole(r) \/ SetStatus(r) \/ AccDies(r)
        PROVE  ActsOnRow'
    <2>1. acc'[r].pc = "idle" /\ \A q \in AccRequests \ {r} : acc'[q] = acc[q]
      BY <1>5, <1>d, <1>i DEF MarkEmailVerified, AssignRole, SetStatus, AccDies, AccReturn
    <2>2. UNCHANGED <<session, access>>
      BY <1>5 DEF MarkEmailVerified, AssignRole, SetStatus, AccDies
    <2>3. QED
      BY <2>1, <2>2, <1>t, ActsFrame
  <1>6. ASSUME NEW r \in AccRequests, RemoveRole(r) PROVE ActsOnRow'
    <2>1. UNCHANGED <<session, access>>
      BY <1>6 DEF RemoveRole
    <2>2. ASSUME NEW q \in AccRequests
          PROVE  \/ acc'[q].pc = "idle"
                 \/ acc'[q].pc = acc[q].pc /\ acc'[q].user = acc[q].user
      <3>1. acc'[q] \in {AccIdle, acc[q], [acc[q] EXCEPT !.overtaken = TRUE]}
        BY <1>6 DEF RemoveRole
      <3>2. QED
        BY <1>i, <1>t, <3>1 DEF AccRequest
    <2>3. QED
      BY <2>1, <2>2, <1>t, ActsFrame
  <1>7. ASSUME NEW u \in Users, AccTime(u) PROVE ActsOnRow'
    <2>1. acc' = acc
      BY <1>7 DEF AccTime, SessionEnds, AccessExpires
    <2>2. \A v \in Users : session'[v] \/ access'[v] # {} => session[v] \/ access[v] # {}
      BY <1>7 DEF AccTime, SessionEnds, AccessExpires, AccTypeOK
    <2>3. QED
      BY <2>1, <2>2, <1>t, ActsFrame
  <1>8. CASE UNCHANGED accVars
    BY <1>8, <1>t, ActsFrame DEF accVars
  <1>9. QED
    BY <1>1, <1>2, <1>3, <1>4, <1>5, <1>6, <1>7, <1>8
       DEF AccNext, AccStep
-------------------------------------------------------------------------------
(* The last-role guard, and the removals that overlap between it and the   *)
(* delete.                                                                 *)

RolesInv == AccTypeOK /\ ActsOnRow /\ GuardStands /\ RolelessHasCause

\* A step that takes away no role, forgives nobody, and checks the removals it
\* starts, keeps the guard standing and leaves nobody new without a role.
LEMMA GuardFrame ==
  ASSUME RolesInv,
         \A u \in Users :
           /\ roles[u] \subseteq roles'[u]
           /\ roles'[u] = roles[u] \/ u \in raced \/ ~Exists(u) \/ roles[u] # {}
           /\ status'[u] # "absent" => Exists(u) \/ roles'[u] # {},
         raced' = raced,
         \A q \in AccRequests : acc'[q].pc = "removeRole" =>
           /\ acc'[q].user \in Users
           /\ \/ MayRemoveRole(acc'[q].user, acc'[q].to) /\ roles' = roles
              \/ acc'[q] = acc[q]
  PROVE  GuardStands' /\ RolelessHasCause'
  <1>1. RolelessHasCause'
    BY DEF RolesInv, RolelessHasCause, Exists
  <1>2. ASSUME NEW q \in AccRequests, acc'[q].pc = "removeRole", ~acc'[q].overtaken
        PROVE  roles'[acc'[q].user] # {acc'[q].to} \/ acc'[q].user \in raced'
    <2>1. CASE MayRemoveRole(acc'[q].user, acc'[q].to) /\ roles' = roles
      BY <2>1 DEF MayRemoveRole
    <2>2. CASE acc'[q] = acc[q]
      <3>1. acc[q].user \in Users /\ Exists(acc[q].user)
        BY <1>2, <2>2 DEF RolesInv, ActsOnRow
      <3>2. roles[acc[q].user] # {acc[q].to} \/ acc[q].user \in raced
        BY <1>2, <2>2 DEF RolesInv, GuardStands, AccAt
      <3>3. QED
        BY <2>2, <3>1, <3>2
    <2>3. QED
      BY <1>2, <2>1, <2>2
  <1>3. QED
    BY <1>1, <1>2 DEF GuardStands, AccAt

\* The removal itself: it marks as overtaken whoever else had passed the check
\* for the same user, and adds to raced when it was overtaken itself.
LEMMA RemoveRoleGuards ==
  ASSUME RolesInv, NEW r \in AccRequests, RemoveRole(r)
  PROVE  GuardStands' /\ RolelessHasCause'
  <1> DEFINE u == acc[r].user
  <1>1. acc \in [AccRequests -> AccRequest] /\ u \in Users
    BY DEF RolesInv, AccTypeOK, AccRequest
  <1>2. roles' = [roles EXCEPT ![u] = @ \ {acc[r].to}] /\ status' = status
          /\ roles \in [Users -> SUBSET Roles]
    BY DEF RemoveRole, RolesInv, AccTypeOK
  <1>3. raced \subseteq raced' /\ (acc[r].overtaken => u \in raced')
    BY DEF RemoveRole
  <1>4. ASSUME NEW q \in AccRequests, acc'[q].pc = "removeRole", ~acc'[q].overtaken
        PROVE  roles'[acc'[q].user] # {acc'[q].to} \/ acc'[q].user \in raced'
    <2>1. q # r
      BY <1>4, AccIdleTyped DEF RemoveRole
    <2>2. acc'[q] = IF AccAt(q, "removeRole") /\ acc[q].user = u
                      THEN [acc[q] EXCEPT !.overtaken = TRUE] ELSE acc[q]
      BY <2>1 DEF RemoveRole
    <2>3. [acc[q] EXCEPT !.overtaken = TRUE].overtaken = TRUE
      BY <1>1 DEF AccRequest
    <2>4. acc'[q] = acc[q]
      BY <1>4, <2>2, <2>3
    <2>5. acc[q].user # u
      BY <1>4, <2>2, <2>3, <2>4 DEF AccAt
    <2>6. acc[q].user \in Users
      BY <1>1 DEF AccRequest
    <2>7. roles'[acc[q].user] = roles[acc[q].user]
      BY <1>2, <2>5, <2>6
    <2>8. roles[acc[q].user] # {acc[q].to} \/ acc[q].user \in raced
      BY <1>4, <2>4 DEF RolesInv, GuardStands, AccAt
    <2>9. QED
      BY <1>3, <2>4, <2>7, <2>8
  <1>5. ASSUME NEW v \in Users, status'[v] # "absent", roles'[v] = {}
        PROVE  v \in raced'
    <2>1. CASE roles[v] = {}
      BY <1>2, <1>3, <1>5, <2>1 DEF RolesInv, RolelessHasCause, Exists
    <2>2. CASE roles[v] # {}
      <3>1. v = u /\ roles[u] = {acc[r].to}
        BY <1>2, <1>5, <2>2
      <3>2. acc[r].overtaken \/ u \in raced
        BY <3>1 DEF RolesInv, GuardStands, RemoveRole, AccAt
      <3>3. QED
        BY <1>3, <3>1, <3>2
    <2>3. QED
      BY <2>1, <2>2
  <1>6. QED
    BY <1>4, <1>5 DEF GuardStands, RolelessHasCause, AccAt, Exists

LEMMA StepGuards == RolesInv /\ [AccNext]_accVars => RolesInv'
  <1> SUFFICES ASSUME RolesInv, [AccNext]_accVars
      PROVE  GuardStands' /\ RolelessHasCause'
    BY AccStepTypeOK, StepActsOnRow DEF RolesInv
  <1>i. AccIdle \in AccRequest /\ AccIdle.pc = "idle"
    BY AccIdleTyped
  <1>d. /\ acc \in [AccRequests -> AccRequest] /\ roles \in [Users -> SUBSET Roles]
        /\ status \in [Users -> AccountStatus \cup {"absent"}]
    BY DEF RolesInv, AccTypeOK
  <1>t. \A r \in AccRequests : acc[r] \in AccRequest /\ acc[r].user \in Users
    BY <1>d DEF AccRequest
  <1>1. ASSUME UNCHANGED <<status, roles, raced>>,
               \A q \in AccRequests : acc'[q].pc = "removeRole" => acc'[q] = acc[q]
        PROVE  GuardStands' /\ RolelessHasCause'
    BY <1>1, <1>t, GuardFrame DEF Exists
  <1>2. ASSUME NEW r \in AccRequests, NEW u \in Users,
               \/ RegisterFinds(r, u) \/ Login(r, u) \/ RefreshFindsToken(r, u)
               \/ VerifyEmail(r, u)
               \/ \E role \in Roles : AssignFindsUser(r, u, role)
               \/ \E to \in AccountStatus : SetStatusFindsUser(r, u, to)
        PROVE  GuardStands' /\ RolelessHasCause'
    <2>0. \E pc, x, v :
            /\ pc \in AccSteps \ {"removeRole"}
            /\ acc' = [acc EXCEPT ![r] = v]
            /\ \/ v = [AccIdle EXCEPT !.pc = pc, !.user = u]
               \/ v = [AccIdle EXCEPT !.pc = pc, !.user = u, !.to = x]
               \/ v = [AccIdle EXCEPT !.pc = pc, !.user = u, !.held = x]
      BY <1>2 DEF RegisterFinds, RefreshFindsToken, VerifyEmail, Starts, Login,
                  AssignFindsUser, SetStatusFindsUser, AccSteps
    <2>1. acc'[r].pc # "removeRole" /\ \A q \in AccRequests \ {r} : acc'[q] = acc[q]
      <3>1. PICK pc, x, v :
              /\ pc \in AccSteps \ {"removeRole"}
              /\ acc' = [acc EXCEPT ![r] = v]
              /\ \/ v = [AccIdle EXCEPT !.pc = pc, !.user = u]
                 \/ v = [AccIdle EXCEPT !.pc = pc, !.user = u, !.to = x]
                 \/ v = [AccIdle EXCEPT !.pc = pc, !.user = u, !.held = x]
        BY <2>0
      <3>2. v.pc = pc
        BY <3>1, <1>i DEF AccRequest
      <3>3. QED
        BY <3>1, <3>2, <1>d
    <2>2. UNCHANGED <<status, roles, raced>>
      BY <1>2 DEF RegisterFinds, RefreshFindsToken, VerifyEmail, Login,
                  AssignFindsUser, SetStatusFindsUser
    <2>3. QED
      BY <2>1, <2>2, <1>1
  <1>3. ASSUME NEW r \in AccRequests, NEW u \in Users, NEW role \in Roles,
               RemoveFindsUser(r, u, role)
        PROVE  GuardStands' /\ RolelessHasCause'
    <2>1. acc' = [acc EXCEPT ![r] =
            [AccIdle EXCEPT !.pc = "removeRole", !.user = u, !.to = role]]
      BY <1>3 DEF RemoveFindsUser
    <2>2. /\ acc'[r].user = u /\ acc'[r].to = role
          /\ \A q \in AccRequests \ {r} : acc'[q] = acc[q]
      BY <2>1, <1>d, <1>i DEF AccRequest
    <2>3. MayRemoveRole(u, role) /\ UNCHANGED <<status, roles, raced>>
      BY <1>3 DEF RemoveFindsUser
    <2>4. QED
      BY <2>2, <2>3, <1>t, GuardFrame DEF Exists
  <1>4. ASSUME NEW r \in AccRequests,
               \/ RefreshReadsRoles(r) \/ RefreshRevokes(r) \/ IssueTokens(r)
               \/ AccDies(r)
        PROVE  GuardStands' /\ RolelessHasCause'
    <2>1. acc'[r].pc # "removeRole" /\ \A q \in AccRequests \ {r} : acc'[q] = acc[q]
      BY <1>4, <1>d, <1>i, <1>t
         DEF RefreshReadsRoles, RefreshRevokes, IssueTokens, AccDies, AccReturn,
             AccRequest
    <2>2. UNCHANGED <<status, roles, raced>>
      BY <1>4 DEF RefreshReadsRoles, RefreshRevokes, IssueTokens, AccDies
    <2>3. QED
      BY <2>1, <2>2, <1>1
  <1>5. ASSUME NEW r \in AccRequests, RegisterCreates(r)
        PROVE  GuardStands' /\ RolelessHasCause'
    <2>1. \A q \in AccRequests \ {r} : acc'[q] = acc[q]
      BY <1>5, <1>d DEF RegisterCreates, AccReturn
    <2>2. acc'[r].pc # "removeRole" /\ raced' = raced
      BY <1>5, <1>d, <1>i, <1>t DEF RegisterCreates, AccReturn, AccRequest
    <2>3. CASE UNCHANGED <<status, roles>>
      BY <2>1, <2>2, <2>3, <1>1
    <2>4. CASE ~UNCHANGED <<status, roles>>
      <3>1. /\ ~Exists(acc[r].user)
            /\ status' = [status EXCEPT ![acc[r].user] = "PENDING_VERIFICATION"]
            /\ roles' = [roles EXCEPT ![acc[r].user] = {Student}]
        BY <1>5, <2>4 DEF RegisterCreates
      <3>2. \A q \in AccRequests : acc[q].pc = "removeRole" =>
              acc[q].user # acc[r].user
        BY <3>1 DEF RolesInv, ActsOnRow
      <3>3. ASSUME NEW q \in AccRequests, acc'[q].pc = "removeRole"
            PROVE  acc'[q] = acc[q] /\ acc[q].user \in Users
                     /\ roles'[acc[q].user] = roles[acc[q].user]
        BY <1>d, <1>t, <2>1, <2>2, <3>1, <3>2, <3>3
      <3>4. GuardStands'
        BY <2>2, <3>3 DEF GuardStands, RolesInv, AccAt
      <3>5. RolelessHasCause'
        BY <1>d, <1>t, <2>2, <3>1 DEF RolelessHasCause, RolesInv, Exists
      <3>6. QED
        BY <3>4, <3>5
    <2>5. QED
      BY <2>3, <2>4
  <1>6. ASSUME NEW r \in AccRequests, AssignRole(r)
        PROVE  GuardStands' /\ RolelessHasCause'
    <2>1. acc'[r].pc # "removeRole" /\ \A q \in AccRequests \ {r} : acc'[q] = acc[q]
      BY <1>6, <1>d, <1>i DEF AssignRole, AccReturn
    <2>2. UNCHANGED <<status, raced>>
            /\ roles' = [roles EXCEPT ![acc[r].user] = @ \cup {acc[r].to}]
      BY <1>6 DEF AssignRole
    <2>3. Exists(acc[r].user)
      BY <1>6 DEF RolesInv, ActsOnRow, AssignRole, AccAt
    <2>4. roles[acc[r].user] = {} => acc[r].user \in raced
      BY <1>t, <2>3 DEF RolesInv, RolelessHasCause
    <2>5. ASSUME NEW u \in Users
          PROVE  /\ roles[u] \subseteq roles'[u]
                 /\ roles'[u] = roles[u] \/ u \in raced \/ roles[u] # {}
      BY <1>d, <1>t, <2>2, <2>4
    <2>6. QED
      BY <1>t, <2>1, <2>2, <2>5, GuardFrame DEF Exists
  <1>7. ASSUME NEW r \in AccRequests, MarkEmailVerified(r) \/ SetStatus(r)
        PROVE  GuardStands' /\ RolelessHasCause'
    <2>1. acc'[r].pc # "removeRole" /\ \A q \in AccRequests \ {r} : acc'[q] = acc[q]
      BY <1>7, <1>d, <1>i DEF MarkEmailVerified, SetStatus, AccReturn
    <2>2. UNCHANGED <<roles, raced>> /\ \A u \in Users : status'[u] # "absent" =>
            status[u] # "absent" \/ u = acc[r].user
      BY <1>7, <1>d DEF MarkEmailVerified, SetStatus
    <2>3. Exists(acc[r].user)
      BY <1>7 DEF RolesInv, ActsOnRow, MarkEmailVerified, SetStatus, AccAt
    <2>4. QED
      BY <1>t, <2>1, <2>2, <2>3, GuardFrame DEF Exists
  <1>8. ASSUME NEW u \in Users, AccTime(u) PROVE GuardStands' /\ RolelessHasCause'
    BY <1>8, <1>1 DEF AccTime, SessionEnds, AccessExpires
  <1>9. CASE UNCHANGED accVars
    BY <1>9, <1>1 DEF accVars
  <1>10. QED
    BY <1>2, <1>3, <1>4, <1>5, <1>6, <1>7, <1>8, <1>9, RemoveRoleGuards
       DEF AccNext, AccStep

(* A user whose row exists keeps a role, unless two removals of theirs      *)
(* overlapped between the last-role check of updateRole and the delete.    *)
THEOREM RolelessAlwaysHasCause == AccSpec => []RolelessHasCause
  <1>1. AccInit => RolesInv
    BY AccInitTypeOK, AccIdleTyped
       DEF AccInit, RolesInv, ActsOnRow, GuardStands, RolelessHasCause, AccAt, Exists
  <1>2. RolesInv => RolelessHasCause
    BY DEF RolesInv
  <1>3. QED
    BY <1>1, <1>2, StepGuards, PTL DEF AccSpec
-------------------------------------------------------------------------------
(* Locking somebody out for good.                                          *)

\* A step that neither blocks nor unblocks anybody and lets in nobody who
\* stands blocked outside.
LEMMA OutsideFrame ==
  ASSUME LockedOutStaysOut, inside' = inside,
         \A u \in Users \ inside :
           /\ status'[u] = status[u] /\ ~session'[u] /\ access'[u] = {}
           /\ \A r \in AccRequests : acc'[r] = acc[r] \/ acc'[r].user # u
                \/ acc'[r].pc \notin {"create", "readRoles", "revoke", "issue", "verify"}
  PROVE  LockedOutStaysOut'
  BY DEF LockedOutStaysOut, Inside, Entering

LEMMA StepStaysOut ==
  AccTypeOK /\ LockedOutStaysOut /\ [AccNext]_accVars => LockedOutStaysOut'
  <1> SUFFICES ASSUME AccTypeOK, LockedOutStaysOut, [AccNext]_accVars
      PROVE  LockedOutStaysOut'
    OBVIOUS
  <1>i. AccIdle \in AccRequest /\ AccIdle.pc = "idle"
    BY AccIdleTyped
  <1>d. /\ acc \in [AccRequests -> AccRequest]
        /\ status \in [Users -> AccountStatus \cup {"absent"}]
        /\ session \in [Users -> BOOLEAN]
        /\ access \in [Users -> SUBSET SUBSET Roles]
    BY DEF AccTypeOK
  <1>t. \A r \in AccRequests : acc[r] \in AccRequest /\ acc[r].user \in Users
    BY <1>d DEF AccRequest
  <1>o. \A u \in Users \ inside :
          /\ status[u] \in Blocked /\ Exists(u)
          /\ ~session[u] /\ access[u] = {}
          /\ \A r \in AccRequests : ~Entering(r, u)
    BY DEF LockedOutStaysOut, Inside, Exists, Blocked
  <1>1. ASSUME NEW r \in AccRequests, NEW u \in Users, u \in inside,
               \E pc, x : acc' \in { [acc EXCEPT ![r] = [AccIdle EXCEPT !.pc = pc, !.user = u]],
                 [acc EXCEPT ![r] = [AccIdle EXCEPT !.pc = pc, !.user = u, !.held = x]] },
               UNCHANGED <<status, session, access, inside>>
        PROVE  LockedOutStaysOut'
    <2>1. PICK pc, x, v :
            /\ acc' = [acc EXCEPT ![r] = v]
            /\ \/ v = [AccIdle EXCEPT !.pc = pc, !.user = u]
               \/ v = [AccIdle EXCEPT !.pc = pc, !.user = u, !.held = x]
      BY <1>1
    <2>2. v.user = u
      BY <2>1, <1>i DEF AccRequest
    <2>3. acc'[r].user = u /\ \A q \in AccRequests \ {r} : acc'[q] = acc[q]
      BY <2>1, <2>2, <1>d
    <2>4. QED
      BY <1>1, <1>o, <2>3, OutsideFrame
  <1>2. ASSUME NEW r \in AccRequests, NEW u \in Users,
               \/ RegisterFinds(r, u) \/ Login(r, u)
               \/ RefreshFindsToken(r, u) \/ VerifyEmail(r, u)
        PROVE  LockedOutStaysOut'
    <2>1. u \in inside
      BY <1>2, <1>o DEF RegisterFinds, Login, MayLogIn, RefreshFindsToken,
                        VerifyEmail, Exists
    <2>2. QED
      BY <1>2, <2>1, <1>1
         DEF RegisterFinds, Login, RefreshFindsToken, VerifyEmail, Starts
  <1>3. ASSUME NEW r \in AccRequests, NEW u \in Users,
               \/ \E role \in Roles : AssignFindsUser(r, u, role)
                                        \/ RemoveFindsUser(r, u, role)
               \/ \E to \in AccountStatus : SetStatusFindsUser(r, u, to)
        PROVE  LockedOutStaysOut'
    <2>1. \E pc \in {"assignRole", "removeRole", "setStatus"} : \E x :
            acc' = [acc EXCEPT ![r] = [AccIdle EXCEPT !.pc = pc, !.user = u, !.to = x]]
      BY <1>3 DEF AssignFindsUser, RemoveFindsUser, SetStatusFindsUser
    <2>2. /\ acc'[r].pc \in {"assignRole", "removeRole", "setStatus"}
          /\ \A q \in AccRequests \ {r} : acc'[q] = acc[q]
      BY <2>1, <1>d, <1>i DEF AccRequest
    <2>3. UNCHANGED <<status, session, access, inside>>
      BY <1>3 DEF AssignFindsUser, RemoveFindsUser, SetStatusFindsUser
    <2>4. QED
      BY <2>2, <2>3, <1>o, OutsideFrame
  <1>4. ASSUME NEW r \in AccRequests,
               \/ RegisterCreates(r) \/ RefreshReadsRoles(r) \/ RefreshRevokes(r)
               \/ IssueTokens(r) \/ MarkEmailVerified(r)
        PROVE  LockedOutStaysOut'
    <2>1. acc[r].user \in inside
      BY <1>4, <1>o, <1>t DEF RegisterCreates, RefreshReadsRoles, RefreshRevokes,
           IssueTokens, MarkEmailVerified, AccAt, Entering
    <2>2. acc'[r].pc = "idle" \/ acc'[r].user = acc[r].user
      BY <1>4, <1>d, <1>i, <1>t DEF RegisterCreates, RefreshReadsRoles,
           RefreshRevokes, IssueTokens, MarkEmailVerified, AccReturn, AccRequest
    <2>3. \A q \in AccRequests \ {r} : acc'[q] = acc[q]
      BY <1>4, <1>d DEF RegisterCreates, RefreshReadsRoles,
           RefreshRevokes, IssueTokens, MarkEmailVerified, AccReturn
    <2>4. inside' = inside /\ \A u \in Users \ {acc[r].user} :
            status'[u] = status[u] /\ session'[u] = session[u] /\ access'[u] = access[u]
      BY <1>4, <1>d DEF RegisterCreates, RefreshReadsRoles,
           RefreshRevokes, IssueTokens, MarkEmailVerified
    <2>5. QED
      BY <1>o, <2>1, <2>2, <2>3, <2>4, OutsideFrame
  <1>5. ASSUME NEW r \in AccRequests, AssignRole(r) \/ AccDies(r)
        PROVE  LockedOutStaysOut'
    <2>1. acc'[r].pc = "idle" /\ \A q \in AccRequests \ {r} : acc'[q] = acc[q]
      BY <1>5, <1>d, <1>i DEF AssignRole, AccDies, AccReturn
    <2>2. UNCHANGED <<status, session, access, inside>>
      BY <1>5 DEF AssignRole, AccDies
    <2>3. QED
      BY <1>o, <2>1, <2>2, OutsideFrame
  <1>6. ASSUME NEW r \in AccRequests, RemoveRole(r) PROVE LockedOutStaysOut'
    <2>1. UNCHANGED <<status, session, access, inside>>
      BY <1>6 DEF RemoveRole
    <2>2. ASSUME NEW q \in AccRequests
          PROVE  acc'[q] = acc[q] \/ acc'[q].pc \in {"idle", "removeRole"}
      <3>1. \/ acc'[q] \in {AccIdle, acc[q]}
            \/ acc[q].pc = "removeRole" /\ acc'[q] = [acc[q] EXCEPT !.overtaken = TRUE]
        BY <1>6 DEF RemoveRole, AccAt
      <3>2. QED
        BY <1>i, <1>t, <3>1 DEF AccRequest
    <2>3. QED
      BY <1>o, <2>1, <2>2, OutsideFrame
  <1>7. ASSUME NEW r \in AccRequests, SetStatus(r) PROVE LockedOutStaysOut'
    <2> DEFINE u == acc[r].user
    <2>1. acc'[r].pc = "idle" /\ \A q \in AccRequests \ {r} : acc'[q] = acc[q]
      BY <1>7, <1>d, <1>i DEF SetStatus, AccReturn
    <2>2. UNCHANGED <<session, access>> /\ status' = [status EXCEPT ![u] = acc[r].to]
      BY <1>7 DEF SetStatus
    <2>3. \A v \in Users : ~Inside(v) => ~session[v] /\ access[v] = {}
            /\ \A q \in AccRequests : ~Entering(q, v)
      BY DEF Inside
    <2>4. ASSUME NEW v \in Users \ inside'
          PROVE  status'[v] \in Blocked /\ ~session'[v] /\ access'[v] = {}
                   /\ \A q \in AccRequests : acc'[q].user # v \/ acc'[q].pc \notin
                        {"create", "readRoles", "revoke", "issue", "verify"}
      <3>1. v # u => v \in Users \ inside
        BY <1>7 DEF SetStatus
      <3>2. v = u => acc[r].to \in Blocked /\ ~Inside(u)
        BY <1>7 DEF SetStatus
      <3>3. status'[v] \in Blocked
        BY <1>d, <1>t, <1>o, <2>2, <3>1, <3>2
      <3>4. ~session[v] /\ access[v] = {} /\ \A q \in AccRequests : ~Entering(q, v)
        BY <1>o, <2>3, <3>1, <3>2
      <3>5. QED
        BY <2>1, <2>2, <3>3, <3>4 DEF Entering
    <2>5. QED
      BY <2>4 DEF LockedOutStaysOut, Inside, Entering
  <1>8. ASSUME NEW u \in Users, AccTime(u) PROVE LockedOutStaysOut'
    <2>1. UNCHANGED <<status, acc, inside>>
      BY <1>8 DEF AccTime, SessionEnds, AccessExpires
    <2>2. \A v \in Users : (~session[v] => ~session'[v]) /\ access'[v] \subseteq access[v]
      BY <1>8, <1>d DEF AccTime, SessionEnds, AccessExpires
    <2>3. QED
      BY <1>o, <2>1, <2>2, OutsideFrame
  <1>9. CASE UNCHANGED accVars
    BY <1>9, <1>o, OutsideFrame DEF accVars
  <1>10. QED
    BY <1>2, <1>3, <1>4, <1>5, <1>6, <1>7, <1>8, <1>9 DEF AccNext, AccStep

(* Whoever is suspended, banned or deleted with no token and with no login,  *)
(* refresh or verification under way has no way back in through            *)
(* auth.service, until staff set another status.                           *)
THEOREM LockedOutAlwaysStaysOut == AccSpec => []LockedOutStaysOut
  <1>1. AccInit => LockedOutStaysOut
    BY DEF AccInit, LockedOutStaysOut
  <1>2. QED
    BY <1>1, AccInitTypeOK, AccStepTypeOK, StepStaysOut, PTL DEF AccSpec

-------------------------------------------------------------------------------
(* The cached views.                                                       *)

\* Every key belongs to a table, and a setting is its own table.
LEMMA TablesOfKeys ==
  /\ \A k \in Keys : TableOf(k) \in Tables
  /\ \A k \in Keys : \A t \in Settings : TableOf(k) = t => k = t
  /\ \A k \in Keys : TableOf(k) = "categories" <=> k \in Views
  BY CacheAssumption DEF Keys, Tables, TableOf

LEMMA CaIdleTyped == CaIdle \in CaRequest /\ CaIdle.pc = "idle"
  <1>1. (CHOOSE k \in Keys : TRUE) \in Keys
    BY CacheAssumption DEF Keys
  <1>2. "categories" \in Tables /\ 0 \in 0..MaxVersion
    BY CacheAssumption DEF Tables
  <1>3. QED
    BY <1>1, <1>2 DEF CaIdle, CaRequest, CaSteps

\* A step that changes one request.
LEMMA CaSlotTyped ==
  ASSUME CaTypeOK, NEW r \in CaRequests, NEW v \in CaRequest,
         v.pc = "keys" => v.table = "categories",
         ca' = [ca EXCEPT ![r] = v]
  PROVE  /\ ca' \in [CaRequests -> CaRequest]
         /\ \A q \in CaRequests : ca'[q].pc = "keys" => ca'[q].table = "categories"
  BY DEF CaTypeOK, CaAt

LEMMA CaStepTypeOK == CaTypeOK /\ [CaNext]_caVars => CaTypeOK'
  <1> SUFFICES ASSUME CaTypeOK, [CaNext]_caVars PROVE CaTypeOK'
    OBVIOUS
  <1>i. CaIdle \in CaRequest /\ CaIdle.pc = "idle"
    BY CaIdleTyped
  <1>t. \A r \in CaRequests : ca[r] \in CaRequest
    BY DEF CaTypeOK
  <1>n. MaxVersion \in Nat /\ NoEntry = -1
    BY CacheAssumption DEF NoEntry
  <1>c. Cached \subseteq Keys /\ Views \subseteq Keys /\ Settings \subseteq Keys
    BY DEF Cached, Keys
  <1>1. ASSUME NEW r \in CaRequests, NEW k \in Keys, ReadCache(r, k) PROVE CaTypeOK'
    <2>1. [CaIdle EXCEPT !.pc = "fetch", !.key = k] \in CaRequest
      BY <1>i DEF CaRequest, CaSteps
    <2>2. [CaIdle EXCEPT !.pc = "fetch", !.key = k].pc = "fetch"
      BY <1>i DEF CaRequest
    <2>3. QED
      BY <1>1, <2>1, <2>2, CaSlotTyped DEF ReadCache, CaTypeOK, CaAt
  <1>2. ASSUME NEW r \in CaRequests, Fetch(r) PROVE CaTypeOK'
    <2> DEFINE v == [ca[r] EXCEPT !.pc = "set", !.value = version[TableOf(ca[r].key)]]
    <2>1. version[TableOf(ca[r].key)] \in 0..MaxVersion
      BY <1>t, TablesOfKeys DEF CaTypeOK, CaRequest
    <2>2. v \in CaRequest /\ v.pc = "set"
      BY <1>t, <2>1 DEF CaRequest, CaSteps
    <2>3. ca' = [ca EXCEPT ![r] = v]
      BY <1>2 DEF Fetch
    <2> HIDE DEF v
    <2>4. QED
      BY <1>2, <2>2, <2>3, CaSlotTyped DEF Fetch, CaTypeOK, CaAt
  <1>3. ASSUME NEW r \in CaRequests, FillCache(r) PROVE CaTypeOK'
    <2>1. ca[r].key \in Keys /\ ca[r].value \in 0..MaxVersion
      BY <1>t DEF CaRequest
    <2>2. cache' \in [Keys -> 0..MaxVersion \cup {NoEntry}]
      BY <1>3, <2>1 DEF FillCache, CaTypeOK
    <2>3. lateFill' \cup uninvalidated' \subseteq Keys /\ version' = version
      BY <1>3, <2>1 DEF FillCache, CaTypeOK
    <2>4. ca' = [ca EXCEPT ![r] = CaIdle]
      BY <1>3 DEF FillCache, CaReturn
    <2>5. QED
      BY <1>i, <2>2, <2>3, <2>4, CaSlotTyped DEF CaTypeOK, CaAt
  <1>4. ASSUME NEW r \in CaRequests, NEW t \in Tables, StartWrite(r, t) PROVE CaTypeOK'
    <2>1. [CaIdle EXCEPT !.pc = "write", !.table = t] \in CaRequest
      BY <1>i DEF CaRequest, CaSteps
    <2>2. [CaIdle EXCEPT !.pc = "write", !.table = t].pc = "write"
      BY <1>i DEF CaRequest
    <2>3. QED
      BY <1>4, <2>1, <2>2, CaSlotTyped DEF StartWrite, CaTypeOK, CaAt
  <1>5. ASSUME NEW r \in CaRequests, Write(r) PROVE CaTypeOK'
    <2> DEFINE v == IF ca[r].table \in Settings
                      THEN [ca[r] EXCEPT !.pc = "del", !.found = {ca[r].table}]
                      ELSE [ca[r] EXCEPT !.pc = "keys"]
    <2>1. ca[r].table \in Tables
      BY <1>t DEF CaRequest
    <2>2. version' \in [Tables -> 0..MaxVersion]
      BY <1>5, <1>n, <2>1 DEF Write, CaTypeOK
    <2>3. v \in CaRequest /\ (v.pc = "keys" => v.table = "categories")
      <3>1. CASE ca[r].table \in Settings
        BY <1>t, <1>c, <3>1 DEF CaRequest, CaSteps
      <3>2. CASE ca[r].table \notin Settings
        BY <1>t, <2>1, <3>2 DEF CaRequest, CaSteps, Tables
      <3>3. QED
        BY <3>1, <3>2
    <2>4. ca' = [ca EXCEPT ![r] = v]
      BY <1>5 DEF Write, CaTypeOK
    <2> HIDE DEF v
    <2>5. QED
      BY <1>5, <2>2, <2>3, <2>4, CaSlotTyped DEF Write, CaTypeOK, CaAt
  <1>6. ASSUME NEW r \in CaRequests, FindKeys(r) PROVE CaTypeOK'
    <2> DEFINE v == [ca[r] EXCEPT !.pc = "del", !.found = FoundKeys]
    <2>1. v \in CaRequest /\ v.pc = "del"
      BY <1>t, <1>c DEF CaRequest, CaSteps, FoundKeys
    <2>2. ca' = [ca EXCEPT ![r] = v]
      BY <1>6 DEF FindKeys
    <2> HIDE DEF v
    <2>3. QED
      BY <1>6, <2>1, <2>2, CaSlotTyped DEF FindKeys, CaTypeOK, CaAt
  <1>7. ASSUME NEW r \in CaRequests, DeleteKeys(r) PROVE CaTypeOK'
    <2>1. ca' = [ca EXCEPT ![r] = CaIdle]
      BY <1>7 DEF DeleteKeys, CaReturn
    <2>2. cache' \in [Keys -> 0..MaxVersion \cup {NoEntry}]
      BY <1>7 DEF DeleteKeys, CaTypeOK
    <2>3. QED
      BY <1>7, <1>i, <2>1, <2>2, CaSlotTyped DEF DeleteKeys, CaTypeOK, CaAt
  <1>8. ASSUME NEW r \in CaRequests, CaEndsEarly(r) PROVE CaTypeOK'
    <2>1. ca' = [ca EXCEPT ![r] = CaIdle]
      BY <1>8 DEF CaEndsEarly, CaReturn
    <2>2. uninvalidated' \subseteq Keys
      BY <1>8, <1>c DEF CaEndsEarly, CaTypeOK, Stale
    <2>3. QED
      BY <1>8, <1>i, <2>1, <2>2, CaSlotTyped DEF CaEndsEarly, CaTypeOK, CaAt
  <1>9. ASSUME NEW k \in Keys, EntryExpires(k) PROVE CaTypeOK'
    BY <1>9 DEF EntryExpires, CaTypeOK, CaAt
  <1>10. CASE UNCHANGED caVars
    BY <1>10 DEF caVars, CaTypeOK, CaAt
  <1>11. QED
    BY <1>1, <1>2, <1>3, <1>4, <1>5, <1>6, <1>7, <1>8, <1>9, <1>10 DEF CaNext, CaStep

(* The cache, the tables and the requests keep their types.                *)
THEOREM CaTypeCorrect == CaSpec => []CaTypeOK
  <1>1. CaInit => CaTypeOK
    BY CaIdleTyped, CacheAssumption DEF CaInit, CaTypeOK, CaAt
  <1>2. QED
    BY <1>1, CaStepTypeOK, PTL DEF CaSpec

\* What a step must show: an entry stale after it was stale and still has its
\* cause, or has one now.
LEMMA StaleFrame ==
  ASSUME CaTypeOK, StaleEntryHasCause,
         \A k \in Stale' : \/ Owed(k)' \/ k \in lateFill' \/ k \in uninvalidated'
                           \/ /\ k \in Stale
                              /\ Owed(k) => Owed(k)'
                              /\ k \in lateFill => k \in lateFill'
                              /\ k \in uninvalidated => k \in uninvalidated'
  PROVE  StaleEntryHasCause'
  BY DEF StaleEntryHasCause

\* What other requests owe they still owe.
LEMMA OwedFrame ==
  ASSUME CaTypeOK, NEW r \in CaRequests, NEW k,
         \A q \in CaRequests \ {r} : ca'[q] = ca[q],
         CaAt(r, "keys") => k \notin Views \/ (ca'[r].pc = "del" /\ k \in ca'[r].found),
         CaAt(r, "del") => k \notin ca[r].found,
         Owed(k)
  PROVE  Owed(k)'
  BY DEF Owed, CaAt

LEMMA CaStepHasCause ==
  CaTypeOK /\ StaleEntryHasCause /\ [CaNext]_caVars => StaleEntryHasCause'
  <1> SUFFICES ASSUME CaTypeOK, StaleEntryHasCause, [CaNext]_caVars
      PROVE  StaleEntryHasCause'
    OBVIOUS
  <1>d. /\ ca \in [CaRequests -> CaRequest]
        /\ cache \in [Keys -> 0..MaxVersion \cup {NoEntry}]
        /\ version \in [Tables -> 0..MaxVersion]
    BY DEF CaTypeOK
  <1>t. \A r \in CaRequests : ca[r] \in CaRequest
    BY <1>d
  <1>1. ASSUME NEW r \in CaRequests, UNCHANGED <<version, cache, lateFill, uninvalidated>>,
               \A q \in CaRequests \ {r} : ca'[q] = ca[q],
               ~CaAt(r, "keys"), ~CaAt(r, "del")
        PROVE  StaleEntryHasCause'
    <2>1. Stale' = Stale
      BY <1>1 DEF Stale, Cached
    <2>2. QED
      BY <1>1, <2>1, OwedFrame, StaleFrame
  <1>2. ASSUME NEW r \in CaRequests,
               \/ \E k \in Keys : ReadCache(r, k)
               \/ \E t \in Tables : StartWrite(r, t)
               \/ Fetch(r)
        PROVE  StaleEntryHasCause'
    <2>1. UNCHANGED <<version, cache, lateFill, uninvalidated>>
      BY <1>2 DEF ReadCache, StartWrite, Fetch
    <2>2. \A q \in CaRequests \ {r} : ca'[q] = ca[q]
      BY <1>2, <1>d DEF ReadCache, StartWrite, Fetch
    <2>3. ~CaAt(r, "keys") /\ ~CaAt(r, "del")
      BY <1>2 DEF ReadCache, StartWrite, Fetch, CaAt
    <2>4. QED
      BY <2>1, <2>2, <2>3, <1>1
  <1>3. ASSUME NEW r \in CaRequests, FillCache(r) PROVE StaleEntryHasCause'
    <2> DEFINE l == ca[r].key
    <2>1. \A q \in CaRequests \ {r} : ca'[q] = ca[q]
      BY <1>3, <1>d DEF FillCache, CaReturn
    <2>2. /\ cache' = [cache EXCEPT ![l] = ca[r].value] /\ version' = version
          /\ l \in Keys
      BY <1>3, <1>t DEF FillCache, CaRequest
    <2>3. l \in Stale' => l \in lateFill'
      BY <1>3, <2>2, <1>d DEF FillCache, Stale
    <2>4. ASSUME NEW k \in Stale', k # l
          PROVE  /\ k \in Stale /\ (Owed(k) => Owed(k)')
                 /\ k \in lateFill => k \in lateFill'
                 /\ k \in uninvalidated => k \in uninvalidated'
      <3>1. k \in Stale
        BY <1>d, <2>2, <2>4 DEF Stale, Cached
      <3>2. Owed(k) => Owed(k)'
        BY <1>3, <2>1, OwedFrame DEF FillCache, CaAt
      <3>3. QED
        BY <1>3, <2>4, <3>1, <3>2 DEF FillCache
    <2>5. QED
      BY <2>3, <2>4, StaleFrame
  <1>4. ASSUME NEW r \in CaRequests, Write(r) PROVE StaleEntryHasCause'
    <2> DEFINE t == ca[r].table
    <2>1. t \in Tables /\ version' = [version EXCEPT ![t] = @ + 1]
            /\ UNCHANGED <<cache, lateFill, uninvalidated>>
      BY <1>4, <1>t DEF Write, CaRequest
    <2>2. \A q \in CaRequests \ {r} : ca'[q] = ca[q]
      BY <1>4, <1>d DEF Write
    <2>3. ASSUME NEW k \in Keys, TableOf(k) = t PROVE Owed(k)'
      <3>1. CASE t \in Settings
        <4>1. k = t
          BY <2>3, <3>1, TablesOfKeys
        <4>2. ca'[r] = [ca[r] EXCEPT !.pc = "del", !.found = {t}]
          BY <1>4, <1>d, <3>1 DEF Write
        <4>3. ca'[r].pc = "del" /\ ca'[r].found = {t}
          BY <1>t, <4>2 DEF CaRequest
        <4>4. QED
          BY <4>1, <4>3 DEF Owed, CaAt
      <3>2. CASE t \notin Settings
        <4>1. k \in Views
          BY <2>1, <2>3, <3>2, TablesOfKeys DEF Tables
        <4>2. ca'[r] = [ca[r] EXCEPT !.pc = "keys"]
          BY <1>4, <1>d, <3>2 DEF Write
        <4>3. ca'[r].pc = "keys"
          BY <1>t, <4>2 DEF CaRequest
        <4>4. QED
          BY <4>1, <4>3 DEF Owed, CaAt
      <3>3. QED
        BY <3>1, <3>2
    <2>4. ASSUME NEW k \in Stale', TableOf(k) # t
          PROVE  k \in Stale /\ (Owed(k) => Owed(k)')
      <3>1. k \in Keys /\ TableOf(k) \in Tables
        BY TablesOfKeys DEF Stale, Cached
      <3>2. k \in Stale
        BY <1>d, <2>1, <2>4, <3>1 DEF Stale, Cached
      <3>3. QED
        BY <1>4, <2>2, <3>2, OwedFrame DEF Write, CaAt
    <2>5. \A k \in Stale' : k \in Keys
      BY DEF Stale, Cached
    <2>6. QED
      BY <2>1, <2>3, <2>4, <2>5, StaleFrame
  <1>5. ASSUME NEW r \in CaRequests, FindKeys(r) PROVE StaleEntryHasCause'
    <2>1. UNCHANGED <<version, cache, lateFill, uninvalidated>> /\ CaAt(r, "keys")
      BY <1>5 DEF FindKeys
    <2>2. Stale' = Stale /\ Stale \subseteq Cached
      BY <2>1 DEF Stale, Cached
    <2>3. \A q \in CaRequests \ {r} : ca'[q] = ca[q]
      BY <1>5, <1>d DEF FindKeys
    <2>4. ca'[r].pc = "del" /\ ca'[r].found = FoundKeys
      BY <1>5, <1>d, <1>t DEF FindKeys, CaRequest
    <2>5. \A k \in Stale : Owed(k) => Owed(k)'
      BY <2>1, <2>2, <2>3, <2>4, OwedFrame DEF FoundKeys, CaAt
    <2>6. QED
      BY <2>1, <2>2, <2>5, StaleFrame
  <1>6. ASSUME NEW r \in CaRequests, DeleteKeys(r) PROVE StaleEntryHasCause'
    <2>1. \A q \in CaRequests \ {r} : ca'[q] = ca[q]
      BY <1>6, <1>d DEF DeleteKeys, CaReturn
    <2>2. ASSUME NEW k \in Stale' PROVE k \in Stale /\ k \notin ca[r].found
      BY <1>6 DEF DeleteKeys, Stale, Cached
    <2>3. \A k \in Stale' : Owed(k) => Owed(k)'
      BY <1>6, <2>1, <2>2, OwedFrame DEF DeleteKeys, CaAt
    <2>4. QED
      BY <1>6, <2>2, <2>3, StaleFrame DEF DeleteKeys
  <1>7. ASSUME NEW r \in CaRequests, CaEndsEarly(r) PROVE StaleEntryHasCause'
    <2>1. /\ UNCHANGED <<version, cache, lateFill>> /\ uninvalidated \subseteq uninvalidated'
          /\ Stale' = Stale
      BY <1>7 DEF CaEndsEarly, Stale, Cached
    <2>2. \A q \in CaRequests \ {r} : ca'[q] = ca[q]
      BY <1>7, <1>d DEF CaEndsEarly, CaReturn
    <2>3. ASSUME NEW k \in Stale, Owed(k) PROVE Owed(k)' \/ k \in uninvalidated'
      <3>1. CASE CaAt(r, "keys") /\ k \in Views
        BY <1>7, <3>1 DEF CaEndsEarly
      <3>2. CASE CaAt(r, "del") /\ k \in ca[r].found
        BY <1>7, <3>2 DEF CaEndsEarly, CaAt
      <3>3. CASE (CaAt(r, "keys") => k \notin Views) /\ (CaAt(r, "del") => k \notin ca[r].found)
        BY <2>2, <2>3, <3>3, OwedFrame
      <3>4. QED
        BY <3>1, <3>2, <3>3
    <2>4. QED
      BY <2>1, <2>3, StaleFrame
  <1>8. ASSUME NEW l \in Keys, EntryExpires(l) PROVE StaleEntryHasCause'
    <2>1. \A k \in Stale' : k \in Stale /\ k # l
      BY <1>8, <1>d DEF EntryExpires, Stale, Cached
    <2>2. \A k : Owed(k) => Owed(k)'
      BY <1>8 DEF EntryExpires, Owed, CaAt
    <2>3. QED
      BY <1>8, <2>1, <2>2, StaleFrame DEF EntryExpires
  <1>9. CASE UNCHANGED caVars
    BY <1>9 DEF caVars, StaleEntryHasCause, Stale, Cached, Owed, CaAt
  <1>10. QED
    BY <1>2, <1>3, <1>4, <1>5, <1>6, <1>7, <1>8, <1>9 DEF CaNext, CaStep

(* A cached view that differs from its table is about to be deleted, was     *)
(* stored late, or lost its invalidation, for any keys and any number of   *)
(* requests of getOrSetCache and of the services that write.               *)
THEOREM StaleEntryAlwaysHasCause == CaSpec => []StaleEntryHasCause
  <1>1. CaInit => StaleEntryHasCause
    <2>1. CaInit => Cached = {}
      BY DEF CaInit, Cached
    <2>2. QED
      BY <2>1 DEF StaleEntryHasCause, Stale
  <1>2. QED
    BY <1>1, CaTypeCorrect, CaStepHasCause, PTL DEF CaSpec

-------------------------------------------------------------------------------
(* Uploaded objects.                                                       *)

\* A key a request has made and not written yet: stored, its alone, named
\* nowhere.
NewIsItsAlone ==
  \A r \in FlRequests :
    /\ fl[r].new # NoObject <=> fl[r].pc \in {"deleteOld", "update", "createRow"}
    /\ fl[r].new # NoObject =>
         /\ fl[r].new \in stored \ Named
         /\ \A q \in FlRequests : /\ fl[q].old # fl[r].new
                                  /\ q # r => fl[q].new # fl[r].new

\* A key is named by one column or one row.
NamedOnce ==
  /\ rows \cap InColumns = {}
  /\ \A c, d \in Columns : column[c] = column[d] /\ column[c] # NoObject => c = d

\* The key a request read is where it was read, or nowhere.
OldAtHome ==
  \A r \in FlRequests :
    /\ fl[r].pc \in {"deleteOld", "update"} => fl[r].column \in Columns
    /\ fl[r].pc \in {"deleteObject", "deleteRow", "idle", "createRow"} =>
         fl[r].column = NoColumn
    /\ fl[r].pc \in {"idle", "createRow"} => fl[r].old = NoObject
    /\ fl[r].pc = "upload" /\ fl[r].column = NoColumn => fl[r].old = NoObject
    /\ fl[r].pc \in {"deleteObject", "deleteRow", "deleteOld"} => fl[r].old # NoObject
    /\ fl[r].old # NoObject =>
         /\ \A c \in Columns : column[c] = fl[r].old => c = fl[r].column /\ ~fl[r].gone
         /\ fl[r].old \in rows => fl[r].pc \in {"deleteObject", "deleteRow"}

\* An object that was to be deleted and is still there counts as left behind.
DeletedOrLeft ==
  \A r \in FlRequests : fl[r].pc \in {"update", "deleteRow"} /\ fl[r].old \in stored =>
    fl[r].old \in leftBehind

FlInv == FlTypeOK /\ NewIsItsAlone /\ NamedOnce /\ OldAtHome /\ DeletedOrLeft
           /\ StoredKeysHaveCause

LEMMA FlIdleTyped ==
  /\ FlIdle \in FlRequest /\ FlIdle.pc = "idle" /\ FlIdle.column = NoColumn
  /\ FlIdle.old = NoObject /\ FlIdle.new = NoObject /\ FlIdle.gone = FALSE
  BY DEF FlIdle, FlRequest, FlSteps

\* What is named: a key of a column, or of a row.
LEMMA NamedIs ==
  \A o : o \in Named <=> (o # NoObject /\ \E c \in Columns : column[c] = o) \/ o \in rows
  BY DEF Named, InColumns

\* The facts of FlInv in the form the steps use them.
LEMMA FlFacts ==
  ASSUME FlInv
  PROVE  /\ fl \in [FlRequests -> FlRequest]
         /\ column \in [Columns -> Objects \cup {NoObject}]
         /\ NoObject \notin stored \cup rows \cup torn \cup leftBehind
         /\ \A r \in FlRequests : fl[r] \in FlRequest
  BY FilesAssumption DEF FlInv, FlTypeOK

\* A step by r that touches neither the bucket nor a column nor a row.
LEMMA FlSlotFrame ==
  ASSUME FlInv, NEW r \in FlRequests, NEW v \in FlRequest, fl' = [fl EXCEPT ![r] = v],
         UNCHANGED <<stored, column, rows, flHistory>>,
         v.new = NoObject, fl[r].new = NoObject,
         fl[r].pc \notin {"update", "deleteRow"}, v.pc \in {"upload", "deleteObject"},
         v.old = NoObject \/ v.old \in Named,
         v.pc = "deleteObject" => v.old \in rows /\ v.column = NoColumn,
         v.pc = "upload" =>
           \/ v.column = NoColumn /\ v.old = NoObject
           \/ v.column \in Columns /\ v.old = column[v.column] /\ ~v.gone
  PROVE  FlInv'
  <1>1. fl'[r] = v /\ \A q \in FlRequests \ {r} : fl'[q] = fl[q]
    BY FlFacts
  <1>2. Named' = Named /\ InColumns' = InColumns
    BY DEF Named, InColumns
  <1>3. FlTypeOK'
    BY FlFacts DEF FlInv, FlTypeOK, flHistory
  <1>4. NewIsItsAlone'
    BY <1>1, <1>2, FlFacts DEF FlInv, NewIsItsAlone
  <1>5. NamedOnce'
    BY <1>2 DEF FlInv, NamedOnce
  <1>6. v.old # NoObject => /\ \A c \in Columns : column[c] = v.old => c = v.column /\ ~v.gone
                            /\ v.old \in rows => v.pc = "deleteObject"
    <2>1. v.pc = "deleteObject" => \A c \in Columns : column[c] # v.old
      BY FlFacts DEF FlInv, NamedOnce, InColumns
    <2>2. v.pc = "upload" /\ v.old # NoObject =>
            /\ \A c \in Columns : column[c] = v.old => c = v.column
            /\ v.old \notin rows
      BY DEF FlInv, NamedOnce, InColumns
    <2>3. QED
      BY <2>1, <2>2
  <1>7. v.pc = "deleteObject" => v.old # NoObject
    BY FlFacts
  <1>8. OldAtHome'
    BY <1>1, <1>6, <1>7, FilesAssumption DEF FlInv, OldAtHome
  <1>9. DeletedOrLeft'
    BY <1>1 DEF FlInv, DeletedOrLeft, flHistory
  <1>10. StoredKeysHaveCause'
    BY <1>1, <1>2 DEF FlInv, StoredKeysHaveCause, DanglingKeyHasCause, OrphanHasCause,
                      Finishing, flHistory
  <1>11. QED
    BY <1>3, <1>4, <1>5, <1>8, <1>9, <1>10 DEF FlInv

\* A request ends and neither bucket, columns nor rows change: what it had made
\* is left behind, what it had deleted is torn or named nowhere.
LEMMA FlReturnFrame ==
  ASSUME FlInv, NEW r \in FlRequests, fl' = [fl EXCEPT ![r] = FlIdle],
         UNCHANGED <<stored, column, rows>>,
         torn \subseteq torn', leftBehind \subseteq leftBehind',
         torn' \cup leftBehind' \subseteq Objects,
         fl[r].new # NoObject => fl[r].new \in leftBehind',
         fl[r].pc \in {"update", "deleteRow"} /\ fl[r].old \in Named =>
           fl[r].old \in torn'
  PROVE  FlInv'
  <1>1. fl'[r] = FlIdle /\ \A q \in FlRequests \ {r} : fl'[q] = fl[q]
    BY FlFacts
  <1>2. Named' = Named /\ InColumns' = InColumns
    BY DEF Named, InColumns
  <1>3. FlTypeOK'
    BY FlFacts, FlIdleTyped DEF FlInv, FlTypeOK
  <1>4. NewIsItsAlone'
    BY <1>1, <1>2, FlFacts, FlIdleTyped DEF FlInv, NewIsItsAlone
  <1>5. NamedOnce'
    BY <1>2 DEF FlInv, NamedOnce
  <1>6. OldAtHome'
    BY <1>1, FlIdleTyped DEF FlInv, OldAtHome
  <1>7. DeletedOrLeft'
    BY <1>1, FlIdleTyped DEF FlInv, DeletedOrLeft
  <1>8. DanglingKeyHasCause'
    BY <1>1, <1>2, FlIdleTyped DEF FlInv, StoredKeysHaveCause, DanglingKeyHasCause,
                                   Finishing
  <1>9. OrphanHasCause'
    BY <1>1, <1>2, FlIdleTyped, FlFacts DEF FlInv, StoredKeysHaveCause, OrphanHasCause
  <1>10. QED
    BY <1>3, <1>4, <1>5, <1>6, <1>7, <1>8, <1>9 DEF FlInv, StoredKeysHaveCause

LEMMA UploadKeeps ==
  ASSUME FlInv, NEW r \in FlRequests, NEW o \in Objects, Upload(r, o)
  PROVE  FlInv'
  <1> DEFINE next == IF fl[r].column = NoColumn THEN "createRow"
                     ELSE IF fl[r].old = NoObject THEN "update" ELSE "deleteOld"
  <1>0. o # NoObject /\ fl[r].pc = "upload" /\ fl[r].new = NoObject
    BY FilesAssumption DEF Upload, FlAt, FlInv, NewIsItsAlone
  <1>1. /\ fl'[r] \in FlRequest /\ fl'[r].new = o /\ fl'[r].pc = next
        /\ fl'[r].column = fl[r].column /\ fl'[r].old = fl[r].old
        /\ fl'[r].gone = fl[r].gone
        /\ \A q \in FlRequests \ {r} : fl'[q] = fl[q]
    BY FlFacts DEF Upload, FlRequest, FlSteps
  <1>2. stored' = stored \cup {o} /\ UNCHANGED <<column, rows>>
          /\ torn' = torn \ {o} /\ leftBehind' = leftBehind \ {o}
    BY DEF Upload
  <1>3. /\ o \notin stored /\ o \notin Named
        /\ \A q \in FlRequests : fl[q].old # o /\ fl[q].new # o
    BY DEF Upload, Fresh, Held
  <1>4. Named' = Named /\ InColumns' = InColumns
    BY <1>2 DEF Named, InColumns
  <1>5. FlTypeOK'
    <2>1. fl' \in [FlRequests -> FlRequest]
      BY <1>1, FlFacts DEF Upload
    <2>2. QED
      BY <1>2, <2>1 DEF FlInv, FlTypeOK
  <1>6. NewIsItsAlone'
    BY <1>0, <1>1, <1>2, <1>3, <1>4 DEF FlInv, NewIsItsAlone
  <1>7. NamedOnce'
    BY <1>2, <1>4 DEF FlInv, NamedOnce
  <1>8. OldAtHome'
    <2>1. fl[r].column # NoColumn => fl[r].column \in Columns
      BY FlFacts DEF FlRequest
    <2>2. next = "createRow" => fl[r].column = NoColumn /\ fl[r].old = NoObject
      BY <1>0 DEF FlInv, OldAtHome
    <2>3. fl[r].old # NoObject => fl[r].old \notin rows
      BY <1>0 DEF FlInv, OldAtHome
    <2>4. QED
      BY <1>1, <1>2, <2>1, <2>2, <2>3 DEF FlInv, OldAtHome
  <1>9. DeletedOrLeft'
    <2>1. next = "update" => fl[r].old = NoObject
      OBVIOUS
    <2>2. NoObject \notin stored'
      BY <1>0, <1>2, FlFacts
    <2>3. next # "deleteRow"
      OBVIOUS
    <2>4. QED
      BY <1>1, <1>2, <1>3, <2>1, <2>2, <2>3 DEF FlInv, DeletedOrLeft
  <1>10. DanglingKeyHasCause'
    <2>1. \A q \in FlRequests : \A x : Finishing(q, x) => Finishing(q, x)'
      BY <1>0, <1>1 DEF Finishing
    <2>2. QED
      BY <1>2, <1>4, <2>1 DEF FlInv, StoredKeysHaveCause, DanglingKeyHasCause
  <1>11. OrphanHasCause'
    BY <1>0, <1>1, <1>2, <1>4, FlFacts DEF FlInv, StoredKeysHaveCause, OrphanHasCause
  <1>12. QED
    BY <1>5, <1>6, <1>7, <1>8, <1>9, <1>10, <1>11 DEF FlInv, StoredKeysHaveCause

\* storage.delete of the key a request holds, in a replace and in a delete.
LEMMA DeleteKeeps ==
  ASSUME FlInv, NEW r \in FlRequests, ReplaceDeletesOld(r) \/ DeleteObject(r)
  PROVE  FlInv'
  <1> DEFINE x == fl[r].old
  <1>0. /\ x # NoObject /\ x \in Objects
        /\ fl[r].pc \in {"deleteOld", "deleteObject"}
    <2>1. fl[r].pc \in {"deleteOld", "deleteObject"}
      BY DEF ReplaceDeletesOld, DeleteObject, FlAt
    <2>2. x # NoObject
      BY <2>1 DEF FlInv, OldAtHome
    <2>3. QED
      BY <2>1, <2>2, FlFacts DEF FlRequest
  <1>1. /\ fl'[r] \in FlRequest /\ fl'[r].new = fl[r].new /\ fl'[r].old = x
        /\ fl'[r].column = fl[r].column /\ fl'[r].gone = fl[r].gone
        /\ fl[r].pc = "deleteOld" => fl'[r].pc = "update"
        /\ fl[r].pc = "deleteObject" => fl'[r].pc = "deleteRow"
        /\ \A q \in FlRequests \ {r} : fl'[q] = fl[q]
    BY FlFacts DEF ReplaceDeletesOld, DeleteObject, FlAt, FlRequest, FlSteps
  <1>2. /\ UNCHANGED <<column, rows, torn>>
        /\ \/ stored' = stored \ {x} /\ leftBehind' = leftBehind
           \/ stored' = stored /\ leftBehind' = leftBehind \cup {x}
    BY DEF ReplaceDeletesOld, DeleteObject, WithoutObject
  <1>3. Named' = Named /\ InColumns' = InColumns
    BY <1>2 DEF Named, InColumns
  <1> HIDE DEF x
  <1>4. FlTypeOK'
    <2>1. fl' \in [FlRequests -> FlRequest]
      BY <1>1, FlFacts DEF ReplaceDeletesOld, DeleteObject
    <2>2. QED
      BY <1>0, <1>2, <2>1 DEF FlInv, FlTypeOK
  <1>5. NewIsItsAlone'
    <2>1. \A q \in FlRequests : fl[q].new # NoObject => fl[q].new # x
      BY DEF FlInv, NewIsItsAlone, x
    <2>2. \A q \in FlRequests : fl[q].new # NoObject => fl[q].new \in stored'
      BY <1>2, <2>1 DEF FlInv, NewIsItsAlone
    <2>3. \A q \in FlRequests : fl'[q].new = fl[q].new /\ fl'[q].old = fl[q].old
      BY <1>1 DEF x
    <2>4. \A q \in FlRequests :
            fl'[q].pc \in {"deleteOld", "update", "createRow"}
              <=> fl[q].pc \in {"deleteOld", "update", "createRow"}
      BY <1>0, <1>1
    <2>5. QED
      BY <1>3, <2>2, <2>3, <2>4 DEF FlInv, NewIsItsAlone
  <1>6. NamedOnce'
    BY <1>2, <1>3 DEF FlInv, NamedOnce
  <1>7. OldAtHome'
    BY <1>0, <1>1, <1>2 DEF FlInv, OldAtHome, x
  <1>8. DeletedOrLeft'
    <2>1. \A q \in FlRequests \ {r} :
            fl'[q].pc \in {"update", "deleteRow"} /\ fl'[q].old \in stored' =>
              fl'[q].old \in leftBehind'
      BY <1>1, <1>2 DEF FlInv, DeletedOrLeft
    <2>2. x \in stored' => x \in leftBehind'
      BY <1>2
    <2>3. QED
      BY <1>1, <2>1, <2>2 DEF DeletedOrLeft
  <1>9. DanglingKeyHasCause'
    <2>1. \A q \in FlRequests : \A o : Finishing(q, o) => Finishing(q, o)'
      BY <1>0, <1>1 DEF Finishing
    <2>2. ASSUME NEW o, o = x PROVE Finishing(r, o)'
      BY <1>0, <1>1, <2>2 DEF Finishing
    <2>3. QED
      BY <1>2, <1>3, <2>1, <2>2 DEF FlInv, StoredKeysHaveCause, DanglingKeyHasCause
  <1>10. OrphanHasCause'
    <2>1. \A q \in FlRequests : fl'[q].new = fl[q].new
      BY <1>1
    <2>2. QED
      BY <1>2, <1>3, <2>1 DEF FlInv, StoredKeysHaveCause, OrphanHasCause
  <1>11. QED
    BY <1>4, <1>5, <1>6, <1>7, <1>8, <1>9, <1>10 DEF FlInv, StoredKeysHaveCause

LEMMA UpdateKeeps ==
  ASSUME FlInv, NEW r \in FlRequests, ReplaceUpdatesColumn(r)
  PROVE  FlInv'
  <1> DEFINE c == fl[r].column
             new == fl[r].new
             old == fl[r].old
  <1>0. /\ fl[r].pc = "update" /\ c \in Columns /\ new # NoObject
        /\ new \in stored \ Named /\ new \in Objects
    BY FlFacts DEF ReplaceUpdatesColumn, FlAt, FlInv, OldAtHome, NewIsItsAlone, FlTypeOK
  <1>1. fl' = [fl EXCEPT ![r] = FlIdle]
    BY DEF ReplaceUpdatesColumn, FlReturn
  <1>2. fl'[r] = FlIdle /\ \A q \in FlRequests \ {r} : fl'[q] = fl[q]
    BY <1>1, FlFacts
  <1>3. UNCHANGED <<stored, rows, torn>>
    BY DEF ReplaceUpdatesColumn
  <1>4. old \notin rows
    <2>1. CASE old = NoObject
      BY <2>1, FlFacts
    <2>2. CASE old # NoObject
      BY <1>0, <2>2 DEF FlInv, OldAtHome
    <2>3. QED
      BY <2>1, <2>2
  <1>5. CASE fl[r].gone
    <2>1. column' = column /\ leftBehind' = leftBehind \cup {new}
      BY <1>5 DEF ReplaceUpdatesColumn
    <2>2. old \notin Named
      BY <1>0, <1>4, <1>5, NamedIs DEF FlInv, OldAtHome
    <2>3. torn' \cup leftBehind' \subseteq Objects
      BY <1>0, <1>3, <2>1 DEF FlInv, FlTypeOK
    <2>4. QED
      BY <1>1, <1>3, <2>1, <2>2, <2>3, FlReturnFrame
  <1>6. CASE ~fl[r].gone
    <2>1. /\ column' = [column EXCEPT ![c] = new]
          /\ leftBehind' = leftBehind \cup ({column[c]} \ {old, NoObject})
      BY <1>6 DEF ReplaceUpdatesColumn
    <2>2. /\ column'[c] = new
          /\ \A d \in Columns \ {c} : column'[d] = column[d]
      BY <1>0, <2>1, FlFacts
    <2>3. \A d \in Columns : column[d] # new
      BY <1>0, NamedIs
    <2> HIDE DEF c, new, old
    <2>4. FlTypeOK'
      <3>1. fl' \in [FlRequests -> FlRequest]
        BY <1>1, FlFacts, FlIdleTyped
      <3>2. column[c] \in Objects \cup {NoObject}
        BY <1>0, FlFacts
      <3>3. column' \in [Columns -> Objects \cup {NoObject}]
        BY <1>0, <2>1, FlFacts
      <3>4. QED
        BY <1>3, <2>1, <3>1, <3>2, <3>3 DEF FlInv, FlTypeOK
    <2>5. \A o : o \in Named' <=> (o # NoObject /\ \E d \in Columns : column'[d] = o) \/ o \in rows
      BY <1>3 DEF Named, InColumns
    <2>6. NewIsItsAlone'
      <3>1. ASSUME NEW q \in FlRequests \ {r}, fl[q].new # NoObject
            PROVE  fl[q].new # new /\ fl[q].new \notin Named'
        <4>1. fl[q].new # new /\ fl[q].new \notin Named
          BY <1>0, <3>1 DEF FlInv, NewIsItsAlone, new
        <4>2. QED
          BY <2>2, <2>5, <3>1, <4>1, NamedIs
      <3>2. QED
        BY <1>2, <1>3, <3>1, FlIdleTyped DEF FlInv, NewIsItsAlone
    <2>7. NamedOnce'
      <3>1. new \notin rows
        BY <1>0, NamedIs
      <3>2. \A o \in rows : \A d \in Columns : column'[d] # o
        BY <2>2, <3>1, FlFacts DEF FlInv, NamedOnce, InColumns
      <3>3. rows' \cap InColumns' = {}
        BY <1>3, <3>2 DEF InColumns
      <3>4. \A d, e \in Columns : column'[d] = column'[e] /\ column'[d] # NoObject => d = e
        BY <2>2, <2>3 DEF FlInv, NamedOnce
      <3>5. QED
        BY <3>3, <3>4 DEF NamedOnce
    <2>8. OldAtHome'
      <3>1. \A q \in FlRequests \ {r} : fl[q].old # new
        BY <1>0 DEF FlInv, NewIsItsAlone, new
      <3>2. QED
        BY <1>2, <1>3, <2>2, <3>1, FlIdleTyped DEF FlInv, OldAtHome
    <2>9. DeletedOrLeft'
      BY <1>2, <1>3, <2>1, FlIdleTyped DEF FlInv, DeletedOrLeft
    <2>10. DanglingKeyHasCause'
      <3>1. ASSUME NEW o \in Named' \ stored' PROVE o \in Named \ stored /\ o # old
        <4>1. o # new
          BY <1>0, <1>3
        <4>2. o \in rows \/ \E d \in Columns \ {c} : column[d] = o /\ o # NoObject
          BY <2>2, <2>5, <4>1
        <4>3. o # old
          BY <1>0, <1>4, <4>2 DEF FlInv, OldAtHome, old, c
        <4>4. QED
          BY <1>3, <4>2, <4>3, NamedIs
      <3>2. \A q \in FlRequests : \A o : Finishing(q, o) /\ o # old => Finishing(q, o)'
        BY <1>2 DEF Finishing, old
      <3>3. QED
        BY <1>3, <3>1, <3>2 DEF FlInv, StoredKeysHaveCause, DanglingKeyHasCause
    <2>11. OrphanHasCause'
      <3>1. ASSUME NEW o \in stored' \ Named'
            PROVE  o \in leftBehind' \/ \E q \in FlRequests : fl'[q].new = o
        <4>1. o # new /\ o # NoObject
          BY <1>0, <1>3, <2>2, <2>5, <3>1, FlFacts
        <4>2. CASE o \in Named
          <5>1. column[c] = o
            BY <1>3, <2>2, <2>5, <3>1, <4>1, <4>2, NamedIs
          <5>2. o = old => o \in leftBehind
            BY <1>0, <1>3, <3>1 DEF FlInv, DeletedOrLeft, old
          <5>3. QED
            BY <2>1, <4>1, <5>1, <5>2
        <4>3. CASE o \notin Named
          <5>1. o \in leftBehind \/ \E q \in FlRequests : fl[q].new = o
            BY <1>3, <3>1, <4>3 DEF FlInv, StoredKeysHaveCause, OrphanHasCause
          <5>2. QED
            BY <1>2, <2>1, <4>1, <5>1 DEF new
        <4>4. QED
          BY <4>2, <4>3
      <3>2. QED
        BY <3>1 DEF OrphanHasCause
    <2>12. QED
      BY <2>4, <2>6, <2>7, <2>8, <2>9, <2>10, <2>11 DEF FlInv, StoredKeysHaveCause
  <1>7. QED
    BY <1>5, <1>6

LEMMA CreateRowKeeps ==
  ASSUME FlInv, NEW r \in FlRequests, CreateRow(r)
  PROVE  FlInv'
  <1> DEFINE new == fl[r].new
  <1>0. /\ fl[r].pc = "createRow" /\ new # NoObject
        /\ new \in stored \ Named /\ new \in Objects
    BY FlFacts DEF CreateRow, FlAt, FlInv, NewIsItsAlone, FlTypeOK
  <1>1. fl'[r] = FlIdle /\ \A q \in FlRequests \ {r} : fl'[q] = fl[q]
    BY FlFacts DEF CreateRow, FlReturn
  <1>2. rows' = rows \cup {new} /\ UNCHANGED <<stored, column, torn, leftBehind>>
    BY DEF CreateRow, flHistory
  <1>3. Named' = Named \cup {new} /\ InColumns' = InColumns /\ new \notin InColumns
    BY <1>0, <1>2 DEF Named, InColumns
  <1> HIDE DEF new
  <1>4. FlTypeOK'
    <2>1. fl' \in [FlRequests -> FlRequest]
      BY FlFacts, FlIdleTyped DEF CreateRow, FlReturn
    <2>2. QED
      BY <1>0, <1>2, <2>1 DEF FlInv, FlTypeOK
  <1>5. \A q \in FlRequests \ {r} : fl[q].new # new /\ fl[q].old # new
    BY <1>0 DEF FlInv, NewIsItsAlone, new
  <1>6. NewIsItsAlone'
    BY <1>1, <1>2, <1>3, <1>5, FlIdleTyped DEF FlInv, NewIsItsAlone
  <1>7. NamedOnce'
    BY <1>2, <1>3 DEF FlInv, NamedOnce
  <1>8. OldAtHome'
    BY <1>1, <1>2, <1>5, FlIdleTyped DEF FlInv, OldAtHome
  <1>9. DeletedOrLeft'
    BY <1>1, <1>2, FlIdleTyped DEF FlInv, DeletedOrLeft
  <1>10. DanglingKeyHasCause'
    BY <1>0, <1>1, <1>2, <1>3 DEF FlInv, StoredKeysHaveCause, DanglingKeyHasCause,
                                  Finishing
  <1>11. OrphanHasCause'
    BY <1>1, <1>2, <1>3 DEF FlInv, StoredKeysHaveCause, OrphanHasCause, new
  <1>12. QED
    BY <1>4, <1>6, <1>7, <1>8, <1>9, <1>10, <1>11 DEF FlInv, StoredKeysHaveCause

LEMMA DeleteRowKeeps ==
  ASSUME FlInv, NEW r \in FlRequests, DeleteRow(r)
  PROVE  FlInv'
  <1> DEFINE old == fl[r].old
  <1>0. /\ fl[r].pc = "deleteRow" /\ fl[r].new = NoObject /\ old # NoObject
        /\ fl[r].column = NoColumn /\ \A c \in Columns : column[c] # old
    BY FilesAssumption DEF DeleteRow, FlAt, FlInv, NewIsItsAlone, OldAtHome
  <1>1. fl'[r] = FlIdle /\ \A q \in FlRequests \ {r} : fl'[q] = fl[q]
    BY FlFacts DEF DeleteRow, FlReturn
  <1>2. rows' = rows \ {old} /\ UNCHANGED <<stored, column, torn, leftBehind>>
    BY DEF DeleteRow, flHistory
  <1>3. Named' = Named \ {old} /\ InColumns' = InColumns
    BY <1>0, <1>2 DEF Named, InColumns
  <1> HIDE DEF old
  <1>4. FlTypeOK'
    <2>1. fl' \in [FlRequests -> FlRequest]
      BY FlFacts, FlIdleTyped DEF DeleteRow, FlReturn
    <2>2. QED
      BY <1>2, <2>1 DEF FlInv, FlTypeOK
  <1>5. NewIsItsAlone'
    BY <1>0, <1>1, <1>2, <1>3, FlIdleTyped DEF FlInv, NewIsItsAlone
  <1>6. NamedOnce'
    BY <1>2, <1>3 DEF FlInv, NamedOnce
  <1>7. OldAtHome'
    BY <1>1, <1>2, FlIdleTyped DEF FlInv, OldAtHome
  <1>8. DeletedOrLeft'
    BY <1>1, <1>2, FlIdleTyped DEF FlInv, DeletedOrLeft
  <1>9. DanglingKeyHasCause'
    BY <1>1, <1>2, <1>3 DEF FlInv, StoredKeysHaveCause, DanglingKeyHasCause,
                            Finishing, old
  <1>10. OrphanHasCause'
    <2>1. old \in stored => old \in leftBehind
      BY <1>0 DEF FlInv, DeletedOrLeft, old
    <2>2. QED
      BY <1>0, <1>1, <1>2, <1>3, <2>1, FlFacts
         DEF FlInv, StoredKeysHaveCause, OrphanHasCause
  <1>11. QED
    BY <1>4, <1>5, <1>6, <1>7, <1>8, <1>9, <1>10 DEF FlInv, StoredKeysHaveCause

LEMMA CleanupKeeps ==
  ASSUME FlInv, NEW o \in Objects, CleanupRow(o)
  PROVE  FlInv'
  <1>1. /\ rows' = rows \ {o} /\ leftBehind' = leftBehind \cup {o} /\ o \in rows
        /\ UNCHANGED <<stored, column, fl, torn>>
    BY DEF CleanupRow
  <1>2. InColumns' = InColumns /\ Named' \subseteq Named /\ Named \subseteq Named' \cup {o}
    BY <1>1 DEF Named, InColumns
  <1>3. FlTypeOK'
    BY <1>1 DEF FlInv, FlTypeOK
  <1>4. NewIsItsAlone' /\ NamedOnce' /\ OldAtHome' /\ DeletedOrLeft'
    BY <1>1, <1>2 DEF FlInv, NewIsItsAlone, NamedOnce, OldAtHome, DeletedOrLeft
  <1>5. StoredKeysHaveCause'
    BY <1>1, <1>2 DEF FlInv, StoredKeysHaveCause, DanglingKeyHasCause, OrphanHasCause,
                      Finishing
  <1>6. QED
    BY <1>3, <1>4, <1>5 DEF FlInv

LEMMA DeleteOwnerKeeps ==
  ASSUME FlInv, NEW c \in Columns, DeleteOwner(c)
  PROVE  FlInv'
  <1> DEFINE key == column[c]
  <1>0. key \in Objects \cup {NoObject}
    BY FlFacts
  <1>1. /\ column'[c] = NoObject /\ \A d \in Columns \ {c} : column'[d] = column[d]
        /\ leftBehind' = leftBehind \cup ({key} \ {NoObject})
        /\ UNCHANGED <<stored, rows, torn>>
    BY FlFacts DEF DeleteOwner
  <1>2. ASSUME NEW q \in FlRequests
        PROVE  /\ fl'[q] \in FlRequest
               /\ fl'[q].pc = fl[q].pc /\ fl'[q].new = fl[q].new
               /\ fl'[q].old = fl[q].old /\ fl'[q].column = fl[q].column
               /\ fl'[q].gone <=> fl[q].gone \/ fl[q].column = c
    BY FlFacts DEF DeleteOwner, FlRequest
  <1>3. InColumns' = InColumns \ {key} /\ \A o : o \in Named' => o \in Named
    BY <1>1 DEF FlInv, Named, InColumns, NamedOnce
  <1>4. \A o \in Named : o \in Named' \/ (o = key /\ o # NoObject)
    BY <1>1, FlFacts DEF Named, InColumns
  <1> HIDE DEF key
  <1>5. FlTypeOK'
    <2>1. fl' \in [FlRequests -> FlRequest]
      BY <1>2 DEF DeleteOwner
    <2>2. column' \in [Columns -> Objects \cup {NoObject}]
      BY FlFacts DEF DeleteOwner
    <2>3. QED
      BY <1>0, <1>1, <2>1, <2>2 DEF FlInv, FlTypeOK
  <1>6. NewIsItsAlone'
    BY <1>1, <1>2, <1>3 DEF FlInv, NewIsItsAlone
  <1>7. NamedOnce'
    BY <1>1, <1>3 DEF FlInv, NamedOnce
  <1>8. OldAtHome'
    <2>1. ASSUME NEW q \in FlRequests, fl[q].old # NoObject, NEW d \in Columns,
                 column'[d] = fl[q].old
          PROVE  d = fl[q].column /\ ~fl'[q].gone
      <3>1. d # c
        BY <1>1, <2>1
      <3>2. d = fl[q].column /\ ~fl[q].gone
        BY <1>1, <2>1, <3>1 DEF FlInv, OldAtHome
      <3>3. QED
        BY <1>2, <3>1, <3>2
    <2>2. QED
      BY <1>1, <1>2, <2>1 DEF FlInv, OldAtHome
  <1>9. DeletedOrLeft'
    BY <1>1, <1>2 DEF FlInv, DeletedOrLeft
  <1>10. DanglingKeyHasCause'
    BY <1>1, <1>2, <1>3 DEF FlInv, StoredKeysHaveCause, DanglingKeyHasCause, Finishing
  <1>11. OrphanHasCause'
    BY <1>1, <1>2, <1>4 DEF FlInv, StoredKeysHaveCause, OrphanHasCause
  <1>12. QED
    BY <1>5, <1>6, <1>7, <1>8, <1>9, <1>10, <1>11 DEF FlInv, StoredKeysHaveCause

LEMMA FlStepInv == FlInv /\ [FlNext]_flVars => FlInv'
  <1> SUFFICES ASSUME FlInv, [FlNext]_flVars PROVE FlInv'
    OBVIOUS
  <1>1. ASSUME NEW r \in FlRequests, NEW c \in Columns, ReplaceReadsColumn(r, c)
        PROVE  FlInv'
    <2> DEFINE v == [FlIdle EXCEPT !.pc = "upload", !.column = c, !.old = column[c]]
    <2>1. /\ v \in FlRequest /\ v.new = NoObject /\ v.pc = "upload" /\ ~v.gone
          /\ v.column = c /\ v.old = column[c]
      BY FlFacts, FlIdleTyped DEF FlRequest, FlSteps
    <2>2. fl[r].pc = "idle" /\ fl[r].new = NoObject
      BY <1>1 DEF ReplaceReadsColumn, FlAt, FlInv, NewIsItsAlone
    <2>3. fl' = [fl EXCEPT ![r] = v] /\ UNCHANGED <<stored, column, rows, flHistory>>
      BY <1>1 DEF ReplaceReadsColumn
    <2>4. v.old = NoObject \/ v.old \in Named
      BY <2>1, NamedIs
    <2> HIDE DEF v
    <2>5. QED
      BY <2>1, <2>2, <2>3, <2>4, FlSlotFrame
  <1>2. ASSUME NEW r \in FlRequests, StartUpload(r) PROVE FlInv'
    <2> DEFINE v == [fl[r] EXCEPT !.pc = "upload"]
    <2>1. fl[r].pc = "idle" /\ fl[r].new = NoObject /\ fl[r].old = NoObject
            /\ fl[r].column = NoColumn
      BY <1>2 DEF StartUpload, FlAt, FlInv, NewIsItsAlone, OldAtHome
    <2>2. /\ v \in FlRequest /\ v.new = NoObject /\ v.pc = "upload"
          /\ v.column = NoColumn /\ v.old = NoObject
      BY <2>1, FlFacts DEF FlRequest, FlSteps
    <2>3. fl' = [fl EXCEPT ![r] = v] /\ UNCHANGED <<stored, column, rows, flHistory>>
      BY <1>2 DEF StartUpload
    <2> HIDE DEF v
    <2>4. QED
      BY <2>1, <2>2, <2>3, FlSlotFrame
  <1>3. ASSUME NEW r \in FlRequests, NEW o \in Objects, DeleteFindsRow(r, o) PROVE FlInv'
    <2> DEFINE v == [FlIdle EXCEPT !.pc = "deleteObject", !.old = o]
    <2>1. /\ v \in FlRequest /\ v.new = NoObject /\ v.pc = "deleteObject"
          /\ v.column = NoColumn /\ v.old = o
      BY FlIdleTyped DEF FlRequest, FlSteps
    <2>2. fl[r].pc = "idle" /\ fl[r].new = NoObject
      BY <1>3 DEF DeleteFindsRow, FlAt, FlInv, NewIsItsAlone
    <2>3. fl' = [fl EXCEPT ![r] = v] /\ UNCHANGED <<stored, column, rows, flHistory>>
            /\ o \in rows
      BY <1>3 DEF DeleteFindsRow
    <2>4. v.old \in Named
      BY <2>1, <2>3, NamedIs
    <2> HIDE DEF v
    <2>5. QED
      BY <2>1, <2>2, <2>3, <2>4, FlSlotFrame
  <1>4. ASSUME NEW r \in FlRequests, FlDies(r) PROVE FlInv'
    <2>1. fl' = [fl EXCEPT ![r] = FlIdle] /\ UNCHANGED <<stored, column, rows>>
            /\ leftBehind' = leftBehind \cup ({fl[r].new} \ {NoObject})
      BY <1>4 DEF FlDies, FlReturn
    <2>2. torn' = IF fl[r].pc \in {"update", "deleteRow"}
                    THEN torn \cup ({fl[r].old} \ {NoObject}) ELSE torn
      BY <1>4 DEF FlDies
    <2>3. fl[r].new \in Objects \cup {NoObject} /\ fl[r].old \in Objects \cup {NoObject}
      BY FlFacts DEF FlRequest
    <2>4. NoObject \notin Named
      BY FlFacts DEF Named, InColumns
    <2>5. torn' \cup leftBehind' \subseteq Objects
      BY <2>1, <2>2, <2>3 DEF FlInv, FlTypeOK
    <2>6. QED
      BY <2>1, <2>2, <2>4, <2>5, FlReturnFrame
  <1>5. CASE UNCHANGED flVars
    <2>1. Named' = Named /\ InColumns' = InColumns
      BY <1>5 DEF flVars, Named, InColumns
    <2>2. QED
      BY <1>5, <2>1 DEF flVars, flHistory, FlInv, FlTypeOK, NewIsItsAlone, NamedOnce,
           OldAtHome, DeletedOrLeft, StoredKeysHaveCause, DanglingKeyHasCause,
           OrphanHasCause, Finishing
  <1>6. QED
    BY <1>1, <1>2, <1>3, <1>4, <1>5, UploadKeeps, DeleteKeeps, UpdateKeeps,
       CreateRowKeeps, DeleteRowKeeps, CleanupKeeps, DeleteOwnerKeeps
       DEF FlNext, FlStep

LEMMA FlInitInv == FlInit => FlInv
  <1> SUFFICES ASSUME FlInit PROVE FlInv
    OBVIOUS
  <1>1. Named = {} /\ InColumns = {}
    BY DEF FlInit, Named, InColumns
  <1>2. FlTypeOK
    BY FlIdleTyped DEF FlInit, FlTypeOK
  <1>3. QED
    BY <1>1, <1>2, FlIdleTyped
       DEF FlInit, FlInv, NewIsItsAlone, NamedOnce, OldAtHome, DeletedOrLeft,
           StoredKeysHaveCause, DanglingKeyHasCause, OrphanHasCause

(* Every reachable state of the files is well typed, for any columns,       *)
(* objects and requests.                                                   *)
THEOREM FlTypeCorrect == FlSpec => []FlTypeOK
  <1>1. FlInv => FlTypeOK
    BY DEF FlInv
  <1>2. QED
    BY <1>1, FlInitInv, FlStepInv, PTL DEF FlSpec

(* Bucket and database disagree only for the causes named, for any columns,  *)
(* objects and overlapping replaces, uploads and deletes: no interleaving  *)
(* of replaces that all end leaves a column naming an object that is gone. *)
THEOREM StoredKeysAlwaysHaveCause == FlSpec => []StoredKeysHaveCause
  <1>1. FlInv => StoredKeysHaveCause
    BY DEF FlInv
  <1>2. QED
    BY <1>1, FlInitInv, FlStepInv, PTL DEF FlSpec

-------------------------------------------------------------------------------
(* Sort orders.                                                            *)

\* A create that nothing overtook holds a number above all in use.
NextIsFree ==
  \A r \in OrdRequests : OrdAt(r, "create") /\ ~ord[r].overtaken =>
    \A i \in Live : sortOrder[i] < ord[r].next

OrdInv == OrdTypeOK /\ NextIsFree /\ SharedOrderHasCause

\* The highest of some numbers of at most m, as aggregate's _max finds it.
LEMMA HighestExists ==
  ASSUME NEW m \in Nat, NEW S \in SUBSET (-1..m), S # {}
  PROVE  Max(S) \in S /\ \A x \in S : x =< Max(S)
  <1> DEFINE D == {n \in Nat : m - n \in S}
  <1>1. D \in SUBSET Nat /\ D # {}
    <2>1. PICK x \in S : TRUE
      OBVIOUS
    <2>2. m - x \in Nat /\ m - (m - x) = x
      BY <2>1
    <2>3. QED
      BY <2>1, <2>2
  <1>2. PICK d \in D : \A n \in D : d =< n
    <2> DEFINE R == OpToRel(<, Nat)
    <2>1. IsWellFoundedOn(R, Nat)
      BY NatLessThanWellFounded
    <2>2. \A n, k \in Nat : n < k <=> <<n, k>> \in R
      BY DEF OpToRel
    <2> HIDE DEF R
    <2>3. PICK d \in D : \A n \in D : <<n, d>> \notin R
      BY <1>1, <2>1, WFMin
    <2>4. d \in Nat /\ D \subseteq Nat
      BY <2>3
    <2> HIDE DEF D
    <2>5. \A n \in D : d =< n
      <3>1. SUFFICES ASSUME NEW n \in D
                     PROVE  d =< n
        OBVIOUS
      <3>2. n \in Nat /\ ~(n < d)
        BY <2>2, <2>3, <2>4
      <3>3. QED
        BY <2>4, <3>2
    <2>6. QED
      BY <2>5
  <1>3. m - d \in S /\ \A x \in S : x =< m - d
    <2>1. m - d \in S /\ d \in Nat
      BY <1>2
    <2>2. ASSUME NEW x \in S
          PROVE  x =< m - d
      <3>1. m - x \in Nat /\ m - (m - x) = x /\ x \in Int
        BY <2>2
      <3>2. d =< m - x
        BY <1>2, <3>1
      <3>3. QED
        BY <2>1, <3>1, <3>2
    <2>3. QED
      BY <2>1, <2>2
  <1>4. QED
    BY <1>3 DEF Max

LEMMA NextIsAbove ==
  ASSUME OrdTypeOK
  PROVE  NextSortOrder \in Nat /\ \A i \in Live : sortOrder[i] < NextSortOrder
  <1> DEFINE S == {sortOrder[i] : i \in Live} \cup {-1}
  <1>1. S \in SUBSET (-1..MaxOrder) /\ S # {} /\ MaxOrder \in Nat
    BY OrderingAssumption DEF OrdTypeOK, Live, NoItem
  <1>2. Max(S) \in S /\ \A x \in S : x =< Max(S)
    BY <1>1, HighestExists
  <1>3. Max(S) \in -1..MaxOrder
    BY <1>1, <1>2
  <1>4. \A i \in Live : sortOrder[i] \in Int /\ sortOrder[i] =< Max(S)
    BY <1>1, <1>2
  <1>5. NextSortOrder = Max(S) + 1
    BY DEF NextSortOrder
  <1> HIDE DEF S
  <1>6. QED
    BY <1>3, <1>4, <1>5

LEMMA StepOrd ==
  ASSUME OrdInv, [OrdNext]_ordVars
  PROVE  OrdInv'
  <1>t. /\ sortOrder \in [Items -> 0..MaxOrder \cup {NoItem}] /\ tangled \in BOOLEAN
        /\ ord \in [OrdRequests -> OrdRequest] /\ MaxOrder \in Nat
        /\ \A r \in OrdRequests : ord[r] \in OrdRequest /\ ord[r].next \in Nat
    BY OrderingAssumption DEF OrdInv, OrdTypeOK, OrdRequest
  <1>i. OrdIdle \in OrdRequest /\ OrdIdle.pc = "idle"
    BY OrderingAssumption DEF OrdIdle, OrdRequest
  <1>1. ASSUME NEW r \in OrdRequests, CreateReadsOrder(r)
        PROVE  OrdInv'
    <2> DEFINE n == NextSortOrder
               v == [OrdIdle EXCEPT !.pc = "create", !.next = n]
    <2>1. n \in 0..MaxOrder /\ \A i \in Live : sortOrder[i] < n
      BY <1>1, <1>t, NextIsAbove DEF CreateReadsOrder, OrdInv
    <2>2. ord' = [ord EXCEPT ![r] = v] /\ UNCHANGED <<sortOrder, tangled>>
      BY <1>1 DEF CreateReadsOrder
    <2> HIDE DEF n
    <2>3. v \in OrdRequest /\ v.pc = "create" /\ v.next = n
      BY <2>1 DEF OrdIdle, OrdRequest
    <2> HIDE DEF v
    <2>4. /\ ord' \in [OrdRequests -> OrdRequest] /\ ord'[r] = v
          /\ \A q \in OrdRequests \ {r} : ord'[q] = ord[q]
      BY <1>t, <2>2, <2>3
    <2>5. OrdTypeOK'
      BY <1>t, <2>2, <2>4 DEF OrdTypeOK
    <2>6. NextIsFree'
      BY <2>1, <2>2, <2>3, <2>4 DEF NextIsFree, OrdAt, OrdInv, Live
    <2>7. SharedOrderHasCause'
      BY <2>2 DEF SharedOrderHasCause, OrdInv, Live
    <2>8. QED
      BY <2>5, <2>6, <2>7 DEF OrdInv
  <1>2. ASSUME NEW r \in OrdRequests, CreateDies(r)
        PROVE  OrdInv'
    <2>1. /\ ord' \in [OrdRequests -> OrdRequest] /\ ord'[r] = OrdIdle
          /\ \A q \in OrdRequests \ {r} : ord'[q] = ord[q]
          /\ UNCHANGED <<sortOrder, tangled>>
      BY <1>2, <1>t, <1>i DEF CreateDies
    <2>2. OrdTypeOK'
      BY <1>t, <2>1 DEF OrdTypeOK
    <2>3. NextIsFree'
      BY <2>1, <1>i DEF NextIsFree, OrdAt, OrdInv, Live
    <2>4. SharedOrderHasCause'
      BY <2>1 DEF SharedOrderHasCause, OrdInv, Live
    <2>5. QED
      BY <2>2, <2>3, <2>4 DEF OrdInv
  <1>3. ASSUME NEW r \in OrdRequests, NEW i \in Items, CreateItem(r, i)
        PROVE  OrdInv'
    <2>1. /\ ord[r].pc = "create" /\ i \notin Live /\ ord' = Overtaking(r)
          /\ sortOrder' = [sortOrder EXCEPT ![i] = ord[r].next]
          /\ tangled' = (tangled \/ ord[r].overtaken)
      BY <1>3 DEF CreateItem, OrdAt
    <2>2. /\ sortOrder'[i] = ord[r].next /\ \A j \in Items \ {i} : sortOrder'[j] = sortOrder[j]
          /\ sortOrder' \in [Items -> 0..MaxOrder \cup {NoItem}]
      BY <1>t, <2>1 DEF OrdRequest
    <2>3. /\ ord' \in [OrdRequests -> OrdRequest]
          /\ \A q \in OrdRequests : ord'[q].pc = "create" => ord'[q].overtaken
      BY <1>t, <1>i, <2>1 DEF Overtaking, OrdAt, OrdRequest
    <2>4. OrdTypeOK'
      BY <1>t, <2>1, <2>2, <2>3 DEF OrdTypeOK, OrdRequest
    <2>5. NextIsFree'
      BY <2>3 DEF NextIsFree, OrdAt
    <2>6. SharedOrderHasCause'
      <3>1. ASSUME NEW j \in Items, NEW k \in Items, j # k,
                   sortOrder'[j] # NoItem, sortOrder'[k] # NoItem,
                   sortOrder'[j] = sortOrder'[k], ~tangled'
            PROVE  FALSE
        <4>1. \A m \in Live : sortOrder[m] < ord[r].next
          BY <2>1, <3>1, <1>t DEF OrdInv, NextIsFree, OrdAt, OrdRequest
        <4>2. \A m \in Live : sortOrder[m] # ord[r].next
          BY <4>1, <1>t DEF Live
        <4>3. CASE j = i \/ k = i
          BY <2>2, <3>1, <4>2, <4>3 DEF Live
        <4>4. CASE j # i /\ k # i
          BY <2>1, <2>2, <3>1, <4>4 DEF Live, OrdInv, SharedOrderHasCause
        <4>5. QED
          BY <4>3, <4>4
      <3>2. QED
        BY <3>1 DEF SharedOrderHasCause, Live
    <2>7. QED
      BY <2>4, <2>5, <2>6 DEF OrdInv
  <1>4. ASSUME NEW i \in Items, DeleteItem(i)
        PROVE  OrdInv'
    <2>1. /\ sortOrder' \in [Items -> 0..MaxOrder \cup {NoItem}]
          /\ sortOrder'[i] = NoItem /\ \A j \in Items \ {i} : sortOrder'[j] = sortOrder[j]
          /\ UNCHANGED <<ord, tangled>>
      BY <1>4, <1>t DEF DeleteItem
    <2>2. OrdTypeOK'
      BY <1>t, <2>1 DEF OrdTypeOK
    <2>3. NextIsFree'
      BY <2>1 DEF NextIsFree, OrdAt, OrdInv, Live
    <2>4. SharedOrderHasCause'
      BY <2>1 DEF SharedOrderHasCause, OrdInv, Live
    <2>5. QED
      BY <2>2, <2>3, <2>4 DEF OrdInv
  <1>5. ASSUME NEW items \in SUBSET Live \ {{}}, NEW place \in Places(items),
               Reorder(items, place)
        PROVE  OrdInv'
    <2>1. /\ items \subseteq Live /\ place \in [items -> 0..MaxOrder]
          /\ \A i, j \in items : place[i] = place[j] => i = j
      BY <1>5 DEF Places
    <2>2. /\ \A i \in Items : sortOrder'[i] = IF i \in items THEN place[i] ELSE sortOrder[i]
          /\ sortOrder' \in [Items -> 0..MaxOrder \cup {NoItem}]
          /\ tangled' = (items # Live)
      BY <1>5, <1>t, <2>1 DEF Reorder
    <2>3. /\ ord' \in [OrdRequests -> OrdRequest]
          /\ \A q \in OrdRequests : ord'[q].pc = "create" => ord'[q].overtaken
      BY <1>5, <1>t DEF Reorder, OrdAt, OrdRequest
    <2>4. OrdTypeOK'
      BY <2>2, <2>3 DEF OrdTypeOK
    <2>5. NextIsFree'
      BY <2>3 DEF NextIsFree, OrdAt
    <2>6. SharedOrderHasCause'
      <3>1. ASSUME NEW j \in Items, NEW k \in Items, j # k,
                   sortOrder'[j] # NoItem, sortOrder'[k] # NoItem,
                   sortOrder'[j] = sortOrder'[k], items = Live
            PROVE  FALSE
        BY <2>1, <2>2, <3>1 DEF Live
      <3>2. QED
        BY <2>2, <3>1 DEF SharedOrderHasCause, Live
    <2>7. QED
      BY <2>4, <2>5, <2>6 DEF OrdInv
  <1>6. CASE UNCHANGED ordVars
    BY <1>6 DEF ordVars, OrdInv, OrdTypeOK, NextIsFree, OrdAt, SharedOrderHasCause, Live
  <1>7. QED
    BY <1>1, <1>2, <1>3, <1>4, <1>5, <1>6 DEF OrdNext

LEMMA OrdInitInv == OrdInit => OrdInv
  <1> SUFFICES ASSUME OrdInit PROVE OrdInv
    OBVIOUS
  <1>1. Live = {}
    BY DEF OrdInit, Live
  <1>2. NextIsFree /\ SharedOrderHasCause
    BY <1>1 DEF NextIsFree, SharedOrderHasCause
  <1>3. OrdIdle \in OrdRequest
    BY OrderingAssumption DEF OrdIdle, OrdRequest
  <1>4. OrdTypeOK
    BY <1>3 DEF OrdInit, OrdTypeOK
  <1>5. QED
    BY <1>2, <1>4 DEF OrdInv

LEMMA OrdStepInv == OrdInv /\ [OrdNext]_ordVars => OrdInv'
  BY StepOrd

\* Every reachable state of a list is well typed: no number exceeds its bound,
\* for any items and requests.
THEOREM OrdTypeCorrect == OrdSpec => []OrdTypeOK
  <1>1. OrdInv => OrdTypeOK
    BY DEF OrdInv
  <1>2. QED
    BY <1>1, OrdInitInv, OrdStepInv, PTL DEF OrdSpec

\* Two modules or lessons share a place only after a create whose number was
\* taken before it was used, or a reorder that left some of them out.
THEOREM SharedOrderAlwaysHasCause == OrdSpec => []SharedOrderHasCause
  <1>1. OrdInv => SharedOrderHasCause
    BY DEF OrdInv
  <1>2. QED
    BY <1>1, OrdInitInv, OrdStepInv, PTL DEF OrdSpec

-------------------------------------------------------------------------------
(* Jobs.                                                                   *)

StatementsOf(k) == {Processor(k)[i] : i \in DOMAIN Processor(k)}

JobInv ==
  /\ JobTypeOK
  /\ \A j \in JobIds : kind[j] = "none" => effects[j] = {}

LEMMA ProcessorTyped ==
  ASSUME NEW k \in Kinds \cup {"none"}
  PROVE  /\ DOMAIN Processor(k) = 1..Len(Processor(k)) /\ Len(Processor(k)) \in Nat
         /\ 1 \in DOMAIN Processor(k) /\ StatementsOf(k) \in SUBSET Statements
  <1>1. Processor(k) \in Seq(Statements) /\ Processor(k) # <<>>
    <2>1. CASE k = "REPORT"
      <3>1. Processor(k) = <<"collectReportData", "upload", "createAsset",
                             "createForUsers", "emitToUser">>
        BY <2>1 DEF Processor
      <3>2. QED
        BY <3>1 DEF Statements
    <2>2. CASE k = "CLEANUP"
      <3>1. Processor(k) = <<"deleteMany">>
        BY <2>2 DEF Processor
      <3>2. QED
        BY <3>1 DEF Statements
    <2>3. CASE k \in {"EMAIL", "none"}
      <3>1. Processor(k) = <<"sendMail">>
        BY <2>3 DEF Processor
      <3>2. QED
        BY <3>1 DEF Statements
    <2>4. QED
      BY <2>1, <2>2, <2>3 DEF Kinds
  <1>2. QED
    BY <1>1 DEF StatementsOf

\* The part of JobInv that is about one job.
JobRight(j) ==
  /\ jobState[j] = "none" <=> kind[j] = "none"
  /\ step[j] \in DOMAIN Processor(kind[j])
  /\ effects[j] \subseteq (IF kind[j] = "none" THEN {} ELSE StatementsOf(kind[j]))
  /\ jobState[j] = "completed" => Statement(j) \in effects[j]

JobShape ==
  /\ kind \in [JobIds -> Kinds \cup {"none"}]
  /\ jobState \in [JobIds -> {"none", "waiting", "active", "delayed", "stalled",
                              "completed", "failed"}]
  /\ attempts \in [JobIds -> 0..MaxAttempts] /\ stalls \in [JobIds -> 0..MaxStalls]
  /\ step \in [JobIds -> Nat] /\ effects \in [JobIds -> SUBSET Statements]

LEMMA JobInvParts == JobInv <=> JobShape /\ \A j \in JobIds : JobRight(j)
  <1>1. ASSUME JobShape
        PROVE  (JobTypeOK /\ \A j \in JobIds : kind[j] = "none" => effects[j] = {})
                 <=> \A j \in JobIds : JobRight(j)
    BY <1>1 DEF JobShape, JobTypeOK, JobRight, StatementsOf
  <1>2. JobInv => JobShape
    BY DEF JobInv, JobTypeOK, JobShape
  <1>3. QED
    BY <1>1, <1>2 DEF JobInv

LEMMA JobInvPartsAfter == (JobShape /\ \A j \in JobIds : JobRight(j))' => JobInv'
  <1> SUFFICES ASSUME JobShape', \A j \in JobIds : JobRight(j)' PROVE JobInv'
    OBVIOUS
  <1>1. JobTypeOK'
    BY DEF JobShape, JobTypeOK, JobRight, StatementsOf
  <1>2. \A j \in JobIds : kind'[j] = "none" => effects'[j] = {}
    BY DEF JobRight
  <1>3. QED
    BY <1>1, <1>2 DEF JobInv

\* A step of one job that stays right.
LEMMA OneJob ==
  ASSUME JobInv, JobShape', NEW j \in JobIds, JobRight(j)',
         \A i \in JobIds \ {j} :
           /\ kind'[i] = kind[i] /\ jobState'[i] = jobState[i]
           /\ step'[i] = step[i] /\ effects'[i] = effects[i]
  PROVE  JobInv'
  <1>1. \A i \in JobIds \ {j} : JobRight(i)'
    BY JobInvParts DEF JobRight, Statement
  <1>2. QED
    BY <1>1, JobInvPartsAfter

LEMMA JobStepInv == JobInv /\ [JobNext]_jobVars => JobInv'
  <1> SUFFICES ASSUME JobInv, [JobNext]_jobVars PROVE JobInv'
    OBVIOUS
  <1>s. JobShape /\ \A j \in JobIds : JobRight(j)
    BY JobInvParts
  <1>1. ASSUME NEW j \in JobIds, NEW k \in Kinds, Enqueue(j, k) PROVE JobInv'
    <2>1. JobShape'
      BY <1>1, <1>s DEF Enqueue, JobShape
    <2>2. /\ kind'[j] = k /\ jobState'[j] = "waiting" /\ step'[j] = step[j]
          /\ effects'[j] = effects[j] /\ kind[j] = "none"
          /\ \A i \in JobIds \ {j} :
               /\ kind'[i] = kind[i] /\ jobState'[i] = jobState[i]
               /\ step'[i] = step[i] /\ effects'[i] = effects[i]
      BY <1>1, <1>s DEF Enqueue, JobShape
    <2>3. step[j] = 1 /\ effects[j] = {} /\ k # "none"
      BY <2>2, <1>s DEF JobRight, Processor, Kinds
    <2>4. step'[j] \in DOMAIN Processor(k)
      BY <2>2, <2>3, ProcessorTyped
    <2>5. JobRight(j)'
      BY <2>2, <2>3, <2>4 DEF JobRight
    <2>6. QED
      BY <2>1, <2>2, <2>5, OneJob
  <1>2. ASSUME NEW j \in JobIds, Start(j) PROVE JobInv'
    <2>1. JobShape'
      BY <1>2, <1>s DEF Start, JobShape
    <2>2. /\ kind' = kind /\ jobState'[j] = "active" /\ step'[j] = 1
          /\ effects' = effects /\ jobState[j] = "waiting"
          /\ \A i \in JobIds \ {j} : jobState'[i] = jobState[i] /\ step'[i] = step[i]
      BY <1>2, <1>s DEF Start, JobShape
    <2>3. 1 \in DOMAIN Processor(kind[j])
      BY <1>s, ProcessorTyped DEF JobShape
    <2>4. JobRight(j)'
      BY <1>s, <2>2, <2>3 DEF JobRight
    <2>5. QED
      BY <2>1, <2>2, <2>4, OneJob
  <1>3. ASSUME NEW j \in JobIds, StatementSucceeds(j) PROVE JobInv'
    <2> DEFINE did == effects[j] \cup {Statement(j)}
    <2>1. /\ jobState[j] = "active" /\ kind' = kind /\ effects' = [effects EXCEPT ![j] = did]
          /\ UNCHANGED <<kind, attempts, stalls>>
      BY <1>3 DEF StatementSucceeds
    <2>2. kind[j] # "none" /\ step[j] \in DOMAIN Processor(kind[j])
          /\ kind[j] \in Kinds \cup {"none"} /\ effects[j] \subseteq StatementsOf(kind[j])
      BY <1>s, <2>1 DEF JobRight, JobShape
    <2>3. did \subseteq StatementsOf(kind[j]) /\ did \in SUBSET Statements /\ Statement(j) \in did
      BY <2>2, ProcessorTyped DEF Statement, StatementsOf
    <2> HIDE DEF did
    <2>4. /\ effects' \in [JobIds -> SUBSET Statements] /\ effects'[j] = did
          /\ \A i \in JobIds \ {j} : effects'[i] = effects[i]
      BY <1>s, <2>1, <2>3 DEF JobShape
    <2>5. CASE step[j] = Len(Processor(kind[j]))
      <3>1. jobState' = [jobState EXCEPT ![j] = "completed"] /\ step' = step
        BY <1>3, <2>5 DEF StatementSucceeds
      <3>2. JobShape'
        BY <1>s, <2>1, <2>4, <3>1 DEF JobShape
      <3>3. jobState'[j] = "completed" /\ \A i \in JobIds \ {j} : jobState'[i] = jobState[i]
        BY <1>s, <3>1 DEF JobShape
      <3>4. Statement(j)' = Statement(j)
        BY <2>1, <3>1 DEF Statement
      <3>5. JobRight(j)'
        BY <2>1, <2>2, <2>3, <2>4, <3>1, <3>3, <3>4 DEF JobRight
      <3>6. QED
        BY <2>1, <2>4, <3>1, <3>2, <3>3, <3>5, OneJob
    <2>6. CASE step[j] # Len(Processor(kind[j]))
      <3>1. jobState' = jobState /\ step' = [step EXCEPT ![j] = step[j] + 1]
        BY <1>3, <2>6 DEF StatementSucceeds
      <3>2. step[j] + 1 \in DOMAIN Processor(kind[j]) /\ step[j] + 1 \in Nat
        BY <2>2, <2>6, ProcessorTyped
      <3>3. /\ step' \in [JobIds -> Nat] /\ step'[j] = step[j] + 1
            /\ \A i \in JobIds \ {j} : step'[i] = step[i]
        BY <1>s, <3>1, <3>2 DEF JobShape
      <3>4. JobShape'
        BY <1>s, <2>1, <2>4, <3>1, <3>3 DEF JobShape
      <3>5. JobRight(j)'
        BY <2>1, <2>2, <2>3, <2>4, <3>1, <3>2, <3>3 DEF JobRight
      <3>6. QED
        BY <2>1, <2>4, <3>1, <3>3, <3>4, <3>5, OneJob
    <2>7. QED
      BY <2>5, <2>6
  <1>4. ASSUME NEW j \in JobIds, StatementFails(j) PROVE JobInv'
    <2> DEFINE made == IF attempts[j] < MaxAttempts THEN attempts[j] + 1 ELSE MaxAttempts
    <2>1. /\ jobState[j] = "active"
          /\ effects' = effects \/ effects' = [effects EXCEPT ![j] = effects[j] \cup {Statement(j)}]
          /\ attempts' = [attempts EXCEPT ![j] = made]
          /\ jobState' = [jobState EXCEPT ![j] = IF Retries(made) THEN "delayed" ELSE "failed"]
          /\ UNCHANGED <<kind, step, stalls>>
      BY <1>4 DEF StatementFails
    <2>2. kind[j] # "none" /\ step[j] \in DOMAIN Processor(kind[j])
          /\ kind[j] \in Kinds \cup {"none"} /\ effects[j] \subseteq StatementsOf(kind[j])
      BY <1>s, <2>1 DEF JobRight, JobShape
    <2>3. made \in 0..MaxAttempts
      BY <1>s DEF JobShape, MaxAttempts
    <2>4. effects[j] \cup {Statement(j)} \subseteq StatementsOf(kind[j])
          /\ effects[j] \cup {Statement(j)} \in SUBSET Statements
      BY <2>2, ProcessorTyped DEF Statement, StatementsOf
    <2>5. /\ effects' \in [JobIds -> SUBSET Statements] /\ effects'[j] \subseteq StatementsOf(kind[j])
          /\ \A i \in JobIds \ {j} : effects'[i] = effects[i]
      BY <1>s, <2>1, <2>2, <2>4 DEF JobShape
    <2>6. /\ jobState' \in [JobIds -> {"none", "waiting", "active", "delayed", "stalled",
                                       "completed", "failed"}]
          /\ jobState'[j] \in {"delayed", "failed"}
          /\ \A i \in JobIds \ {j} : jobState'[i] = jobState[i]
      BY <1>s, <2>1 DEF JobShape
    <2>7. attempts' \in [JobIds -> 0..MaxAttempts]
      BY <1>s, <2>1, <2>3 DEF JobShape
    <2>8. JobShape'
      BY <1>s, <2>1, <2>5, <2>6, <2>7 DEF JobShape
    <2>9. JobRight(j)'
      BY <2>1, <2>2, <2>5, <2>6 DEF JobRight
    <2>10. QED
      BY <2>1, <2>5, <2>6, <2>8, <2>9, OneJob
  <1>5. ASSUME NEW j \in JobIds, DelayEnds(j) \/ WorkerCrashes(j) \/ StalledNoticed(j)
        PROVE  JobInv'
    <2>1. /\ jobState[j] \in {"delayed", "active", "stalled"}
          /\ \E s \in {"waiting", "stalled", "failed"} : jobState' = [jobState EXCEPT ![j] = s]
          /\ UNCHANGED <<kind, step, attempts, effects>>
          /\ \/ stalls' = stalls
             \/ stalls[j] < MaxStalls /\ stalls' = [stalls EXCEPT ![j] = stalls[j] + 1]
      BY <1>5 DEF DelayEnds, WorkerCrashes, StalledNoticed
    <2>2. stalls' \in [JobIds -> 0..MaxStalls]
      <3>1. stalls[j] < MaxStalls => stalls[j] + 1 \in 0..MaxStalls
        BY <1>s DEF JobShape, MaxStalls
      <3>2. QED
        BY <1>s, <2>1, <3>1 DEF JobShape
    <2>3. /\ jobState' \in [JobIds -> {"none", "waiting", "active", "delayed", "stalled",
                                       "completed", "failed"}]
          /\ jobState'[j] \in {"waiting", "stalled", "failed"}
          /\ \A i \in JobIds \ {j} : jobState'[i] = jobState[i]
      BY <1>s, <2>1 DEF JobShape
    <2>4. JobShape'
      BY <1>s, <2>1, <2>2, <2>3 DEF JobShape
    <2>5. JobRight(j)'
      BY <1>s, <2>1, <2>3 DEF JobRight
    <2>6. QED
      BY <2>1, <2>3, <2>4, <2>5, OneJob
  <1>6. CASE UNCHANGED jobVars
    BY <1>s, <1>6, JobInvPartsAfter DEF jobVars, JobShape, JobRight, Statement
  <1>7. QED
    BY <1>1, <1>2, <1>3, <1>4, <1>5, <1>6 DEF JobNext, Works

(* A job only takes effect by statements of its processor, one after the   *)
(* other, and is completed only by a statement that took effect, for any   *)
(* jobs.                                                                   *)
THEOREM JobTypeCorrect == JobSpec => []JobTypeOK
  <1>1. JobInit => JobInv
    <2> SUFFICES ASSUME JobInit PROVE JobInv
      OBVIOUS
    <2>1. JobShape
      BY DEF JobInit, JobShape, MaxAttempts, MaxStalls
    <2>2. \A j \in JobIds : JobRight(j)
      BY DEF JobInit, JobRight, Processor
    <2>3. QED
      BY <2>1, <2>2, JobInvParts
  <1>2. JobInv => JobTypeOK
    BY DEF JobInv
  <1>3. QED
    BY <1>1, <1>2, JobStepInv, PTL DEF JobSpec

-------------------------------------------------------------------------------
(* The composition.                                                        *)

\* A step of the services is, for each of them, a step of its own or none.
LEMMA ServicesStepsAreTheirs ==
  ASSUME [ServicesNext]_servicesVars
  PROVE  /\ [AccNext]_accVars
        /\ [CaNext]_caVars
        /\ [FlNext]_flVars
        /\ [HttpNext]_httpVars
        /\ [JobNext]_jobVars
        /\ [LsNext]_lsVars
        /\ [NtNext]_ntVars
        /\ [OrdNext]_ordVars
        /\ [PreNext]_preVars
  <1>1. CASE UNCHANGED servicesVars
    BY <1>1 DEF servicesVars
  <1>2. CASE Runs("accounts", AccNext) /\ UNCHANGED <<caVars, flVars, httpVars, jobVars, lsVars, ntVars, ordVars, preVars>>
    BY <1>2 DEF Runs
  <1>3. CASE Runs("cache", CaNext) /\ UNCHANGED <<accVars, flVars, httpVars, jobVars, lsVars, ntVars, ordVars, preVars>>
    BY <1>3 DEF Runs
  <1>4. CASE Runs("files", FlNext) /\ UNCHANGED <<accVars, caVars, httpVars, jobVars, lsVars, ntVars, ordVars, preVars>>
    BY <1>4 DEF Runs
  <1>5. CASE Runs("http", HttpNext) /\ UNCHANGED <<accVars, caVars, flVars, jobVars, lsVars, ntVars, ordVars, preVars>>
    BY <1>5 DEF Runs
  <1>6. CASE Runs("jobs", JobNext) /\ UNCHANGED <<accVars, caVars, flVars, httpVars, lsVars, ntVars, ordVars, preVars>>
    BY <1>6 DEF Runs
  <1>7. CASE Runs("live", LsNext) /\ UNCHANGED <<accVars, caVars, flVars, httpVars, jobVars, ntVars, ordVars, preVars>>
    BY <1>7 DEF Runs
  <1>8. CASE Runs("notifications", NtNext) /\ UNCHANGED <<accVars, caVars, flVars, httpVars, jobVars, lsVars, ordVars, preVars>>
    BY <1>8 DEF Runs
  <1>9. CASE Runs("ordering", OrdNext) /\ UNCHANGED <<accVars, caVars, flVars, httpVars, jobVars, lsVars, ntVars, preVars>>
    BY <1>9 DEF Runs
  <1>10. CASE Runs("presence", PreNext) /\ UNCHANGED <<accVars, caVars, flVars, httpVars, jobVars, lsVars, ntVars, ordVars>>
    BY <1>10 DEF Runs
  <1>11. QED
    BY <1>1, <1>2, <1>3, <1>4, <1>5, <1>6, <1>7, <1>8, <1>9, <1>10 DEF ServicesNext

(* Each service behaves beside the others as it does alone: whatever it     *)
(* promises alone it promises here.                                        *)
THEOREM ServicesKeepApart ==
  ServicesSpec =>
    /\ AccSpec /\ CaSpec /\ FlSpec /\ HttpSpec /\ JobSpec
    /\ LsSpec /\ NtSpec /\ OrdSpec /\ PreSpec
  <1>1. (ServicesInit => AccInit) /\ ([ServicesNext]_servicesVars => [AccNext]_accVars)
    BY ServicesStepsAreTheirs DEF ServicesInit
  <1>2. (ServicesInit => CaInit) /\ ([ServicesNext]_servicesVars => [CaNext]_caVars)
    BY ServicesStepsAreTheirs DEF ServicesInit
  <1>3. (ServicesInit => FlInit) /\ ([ServicesNext]_servicesVars => [FlNext]_flVars)
    BY ServicesStepsAreTheirs DEF ServicesInit
  <1>4. (ServicesInit => HttpInit) /\ ([ServicesNext]_servicesVars => [HttpNext]_httpVars)
    BY ServicesStepsAreTheirs DEF ServicesInit
  <1>5. (ServicesInit => JobInit) /\ ([ServicesNext]_servicesVars => [JobNext]_jobVars)
    BY ServicesStepsAreTheirs DEF ServicesInit
  <1>6. (ServicesInit => LsInit) /\ ([ServicesNext]_servicesVars => [LsNext]_lsVars)
    BY ServicesStepsAreTheirs DEF ServicesInit
  <1>7. (ServicesInit => NtInit) /\ ([ServicesNext]_servicesVars => [NtNext]_ntVars)
    BY ServicesStepsAreTheirs DEF ServicesInit
  <1>8. (ServicesInit => OrdInit) /\ ([ServicesNext]_servicesVars => [OrdNext]_ordVars)
    BY ServicesStepsAreTheirs DEF ServicesInit
  <1>9. (ServicesInit => PreInit) /\ ([ServicesNext]_servicesVars => [PreNext]_preVars)
    BY ServicesStepsAreTheirs DEF ServicesInit
  <1>10. QED
    BY <1>1, <1>2, <1>3, <1>4, <1>5, <1>6, <1>7, <1>8, <1>9, PTL
       DEF ServicesSpec, AccSpec, CaSpec, FlSpec, HttpSpec, JobSpec, LsSpec, NtSpec,
           OrdSpec, PreSpec

(* Every service keeps its types beside the others, for any values of the   *)
(* constants of all of them.                                               *)
THEOREM ServicesTypeCorrect == ServicesSpec => []ServicesTypeOK
  <1>1. (/\ AccTypeOK /\ CaTypeOK /\ FlTypeOK /\ HttpTypeOK /\ JobTypeOK /\ LsTypeOK
         /\ NtTypeOK /\ OrdTypeOK /\ PreTypeOK) => ServicesTypeOK
    BY DEF ServicesTypeOK
  <1>2. QED
    BY <1>1, ServicesKeepApart, AccTypeCorrect, CaTypeCorrect, FlTypeCorrect,
       HttpTypeCorrect, JobTypeCorrect, LsTypeCorrect, NtTypeCorrect, OrdTypeCorrect,
       PreTypeCorrect, PTL

(* Accounts, cached views, files, attendance, badges, sort orders and       *)
(* presence go wrong beside the others only for the causes they do alone,  *)
(* who is locked out stays out, and a route answers whom it documents.     *)
THEOREM ServicesSound ==
  ServicesSpec => [](/\ RolelessHasCause /\ LockedOutStaysOut /\ StaleEntryHasCause
                     /\ StoredKeysHaveCause /\ AttendanceSound /\ BadgeHasCause
                     /\ SharedOrderHasCause /\ PresenceViewHasCause
                     /\ CallersAsDocumented)
  BY ServicesKeepApart, RolelessAlwaysHasCause, LockedOutAlwaysStaysOut,
     StaleEntryAlwaysHasCause, StoredKeysAlwaysHaveCause, AttendanceAlwaysSound,
     BadgeAlwaysHasCause, SharedOrderAlwaysHasCause, PresenceViewAlwaysHasCause,
     CallersAlwaysAsDocumented, PTL
===============================================================================
