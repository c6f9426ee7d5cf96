--------------------------------- MODULE Http ---------------------------------
(***************************************************************************)
(* The HTTP layer: what app.ts, the routers of routes/v1 and the           *)
(* middlewares do with a call before a controller sees it.  Express tries  *)
(* the routes of a router in the order they were registered, skips those   *)
(* that do not match, and runs the guards of a matching route one by one   *)
(* until one of them replies.  Bodies, queries and the wording of replies  *)
(* are left out; a validator, a limiter or an upload may refuse any call.  *)
(*                                                                         *)
(* A route is its verb, its path below the mount point, its guards in      *)
(* order, and whom its @openapi comment documents as its callers.          *)
(***************************************************************************)
EXTENDS Naturals, Sequences, FiniteSets

-------------------------------------------------------------------------------
(* Roles, permissions, guards                                              *)

STAFF_ROLES              == {"SUPER_ADMIN", "ADMIN"}
MODERATION_ROLES         == STAFF_ROLES \cup {"MODERATOR"}
CONTENT_MANAGEMENT_ROLES == STAFF_ROLES \cup {"INSTRUCTOR"}
ALL_ROLES == MODERATION_ROLES \cup CONTENT_MANAGEMENT_ROLES
               \cup {"STUDENT", "FUTURE_READY"}

\* The holders of the two permissions that a route requires.
PermissionHolders == [AUDIT_READ |-> {"SUPER_ADMIN", "ADMIN"},
                      SETTINGS_MANAGE |-> {"SUPER_ADMIN", "ADMIN"}]

CONSTANT Words   \* what clients write for a free parameter

\* Who calls: a role in a valid token, an expired or forged token, or no token.
Anonymous == {"no token", "bad token"}
Callers   == ALL_ROLES \cup Anonymous

Validate   == <<"validate">>
SignedIn   == <<"authenticate">>
Staff      == <<"requireStaff">>
Moderators == <<"requireModeration">>
Authors    == <<"requireContent">>
UploadFile    == <<"upload">>    \* directUpload.single

\* Documented callers.  "owner", "author" and "host" are left to the services.
Public     == "no security"
Secured    == "bearerAuth"
StaffOnly  == "(staff only)"
AuthorOnly == "(instructor or staff)"
ModeratorOnly == "(moderator only)"
NoDoc      == "no @openapi comment"

\* Who the comment over the route in routes/v1 says may call.  The default that
\* config/swagger.ts gives to every route of the rendered document, bearerAuth,
\* is not read here: a comment without "security" counts as open.
DocumentedCallers(doc) ==
  CASE doc = StaffOnly     -> STAFF_ROLES
    [] doc = AuthorOnly    -> CONTENT_MANAGEMENT_ROLES
    [] doc = ModeratorOnly -> MODERATION_ROLES
    [] doc = Secured       -> ALL_ROLES
    [] OTHER               -> Callers

Route(verb, path, guards, doc) ==
  [verb |-> verb, path |-> path, guards |-> guards, doc |-> doc]
GET(path, guards, doc)    == Route("GET", path, guards, doc)
POST(path, guards, doc)   == Route("POST", path, guards, doc)
PUT(path, guards, doc)    == Route("PUT", path, guards, doc)
PATCH(path, guards, doc)  == Route("PATCH", path, guards, doc)
DELETE(path, guards, doc) == Route("DELETE", path, guards, doc)

-------------------------------------------------------------------------------
(* routes/v1                                                               *)

AuthRoutes == <<
  POST(<<"register">>, <<"authLimit">> \o Validate, Public),
  POST(<<"login">>, <<"authLimit">> \o Validate, Public),
  POST(<<"refresh">>, Validate, Public),
  POST(<<"logout">>, Validate, Public),
  POST(<<"logout-all">>, SignedIn, Secured) >>

AuthCodeRoutes == <<
  POST(<<"forgot-password">>, <<"otpLimit">> \o Validate, Public),
  POST(<<"reset-password">>, <<"otpLimit">> \o Validate, Public),
  POST(<<"verify-email">>, SignedIn \o Validate, Secured),
  POST(<<"resend-otp">>, <<"otpLimit", "optionalAuthenticate">> \o Validate, Public),
  GET(<<"me">>, SignedIn, Secured) >>

\* Variant: the parameter route is registered before /me.
UsersByIdFirst == <<
  GET(<<":id">>, Staff \o Validate, StaffOnly),
  GET(<<"me">>, <<>>, Secured),
  GET(<<>>, Staff \o Validate, StaffOnly) >>

UsersRoutes == <<
  GET(<<"me">>, <<>>, Secured),
  PATCH(<<"me">>, Validate, Secured),
  POST(<<"me", "avatar">>, UploadFile, Secured),
  GET(<<>>, Staff \o Validate, StaffOnly),
  GET(<<":id">>, Staff \o Validate, StaffOnly),
  PATCH(<<":id", "status">>, Staff \o Validate, StaffOnly),
  PATCH(<<":id", "role">>, Staff \o Validate, StaffOnly),
  DELETE(<<":id">>, Staff \o Validate, StaffOnly) >>

CategoriesRoutes ==
  LET guarded == SignedIn \o Staff \o Validate IN <<
  GET(<<>>, Validate, Public),
  GET(<<":id">>, Validate, Public),
  POST(<<>>, guarded, StaffOnly),
  PATCH(<<":id">>, guarded, StaffOnly),
  DELETE(<<":id">>, guarded, StaffOnly) >>

ContentGuards == SignedIn \o Authors

CoursesReadRoutes == <<
  GET(<<>>, <<"optionalAuthenticate">> \o Validate, Public),
  GET(<<"slug", ":slug">>, Validate, Public),
  GET(<<":id">>, Validate, Public) >>

CoursesWriteRoutes ==
  LET guarded == ContentGuards \o Validate IN <<
  POST(<<>>, guarded, AuthorOnly),
  PATCH(<<":id">>, guarded, AuthorOnly),
  PATCH(<<":id", "status">>, guarded, Secured),
  POST(<<":id", "thumbnail">>, guarded \o UploadFile, Secured),
  POST(<<":id", "banner">>, guarded \o UploadFile, Secured),
  DELETE(<<":id">>, guarded, AuthorOnly) >>

CourseModulesRoutes ==
  LET guarded == ContentGuards \o Validate IN <<
  GET(<<":courseId", "modules">>, Validate, Public),
  POST(<<":courseId", "modules">>, guarded, Secured),
  PATCH(<<":courseId", "modules", "reorder">>, guarded, Secured) >>

ModulesRoutes ==
  LET guarded == ContentGuards \o Validate IN <<
  PATCH(<<":moduleId">>, guarded, Secured),
  DELETE(<<":moduleId">>, guarded, Secured),
  GET(<<":moduleId", "lessons">>, Validate, Public),
  POST(<<":moduleId", "lessons">>, guarded, Secured),
  PATCH(<<":moduleId", "lessons", "reorder">>, guarded, Secured) >>

LessonsRoutes ==
  LET guarded == ContentGuards \o Validate IN <<
  PATCH(<<":lessonId">>, guarded, Secured),
  DELETE(<<":lessonId">>, guarded, Secured),
  GET(<<":lessonId", "video-url">>, SignedIn \o Validate, Secured),
  POST(<<":lessonId", "video">>, guarded, Secured),
  POST(<<":lessonId", "thumbnail">>, guarded \o UploadFile, Secured) >>

LessonResourcesRoutes == <<
  GET(<<":lessonId", "resources">>, Validate, Public),
  POST(<<":lessonId", "resources">>, ContentGuards \o UploadFile \o Validate, Secured) >>

ResourcesRoutes == <<DELETE(<<":resourceId">>, ContentGuards \o Validate, Secured)>>

EnrollmentsRoutes == <<
  GET(<<"me">>, Validate, Secured),
  POST(<<":courseId">>, Validate, Secured),
  DELETE(<<":courseId">>, Validate, Secured),
  GET(<<":courseId", "roster">>, Validate, Secured) >>

ProgressRoutes == <<
  GET(<<>>, <<>>, Secured),
  GET(<<"courses", ":courseId">>, Validate, Secured),
  GET(<<"lessons", ":lessonId">>, Validate, Secured),
  PATCH(<<"lessons", ":lessonId">>, Validate, Secured) >>

LiveRoutes == <<
  GET(<<>>, Validate, Secured),
  POST(<<>>, Authors \o Validate, Secured),
  GET(<<":id">>, Validate, Secured),
  POST(<<":id", "start">>, Authors \o Validate, Secured),
  POST(<<":id", "end">>, Authors \o Validate, Secured),
  POST(<<":id", "cancel">>, Authors \o Validate, Secured),
  POST(<<":id", "join">>, Validate, Secured),
  POST(<<":id", "leave">>, Validate, Secured),
  GET(<<":id", "attendance">>, Authors \o Validate, Secured) >>

PostsRoutes == <<
  GET(<<"posts">>, Validate, Secured),
  POST(<<"posts">>, Validate, Secured),
  GET(<<"posts", ":postId">>, Validate, Secured),
  DELETE(<<"posts", ":postId">>, Validate, Secured),
  PATCH(<<"posts", ":postId", "pin">>, Moderators \o Validate, ModeratorOnly),
  POST(<<"posts", ":postId", "like">>, Validate, Secured),
  POST(<<"posts", ":postId", "bookmark">>, Validate, Secured),
  GET(<<"bookmarks">>, Validate, NoDoc) >>

CommentsRoutes == <<
  GET(<<"posts", ":postId", "comments">>, Validate, Secured),
  POST(<<"posts", ":postId", "comments">>, Validate, Secured),
  DELETE(<<"comments", ":commentId">>, Validate, Secured),
  POST(<<"comments", ":commentId", "like">>, Validate, Secured),
  GET(<<"comments", ":commentId", "replies">>, Validate, Secured),
  POST(<<"comments", ":commentId", "replies">>, Validate, Secured),
  DELETE(<<"replies", ":replyId">>, Validate, Secured),
  POST(<<"replies", ":replyId", "like">>, Validate, Secured) >>

ReportsRoutes == <<
  POST(<<"reports">>, Validate, Secured),
  GET(<<"reports">>, Moderators \o Validate, ModeratorOnly),
  PATCH(<<"reports", ":id">>, Moderators \o Validate, ModeratorOnly) >>

NotificationsRoutes == <<
  GET(<<>>, Validate, Secured),
  GET(<<"unread-count">>, <<>>, NoDoc),
  PATCH(<<"read-all">>, <<>>, NoDoc),
  PATCH(<<":id", "read">>, Validate, Secured),
  PATCH(<<":id", "archive">>, Validate, Secured) >>

SearchRoutes == <<
  GET(<<"courses">>, Validate, Public),
  GET(<<"community">>, SignedIn \o Validate, NoDoc),
  GET(<<"live">>, SignedIn \o Validate, NoDoc),
  GET(<<"students">>, SignedIn \o Staff \o Validate, NoDoc) >>

AdminRoutes ==
  LET settings == <<"SETTINGS_MANAGE">> \o Validate IN <<
  GET(<<"dashboard">>, <<>>, Secured),
  GET(<<"analytics", "courses">>, <<>>, NoDoc),
  GET(<<"analytics", "students">>, <<>>, NoDoc),
  GET(<<"analytics", "community">>, <<>>, NoDoc),
  GET(<<"analytics", "live-classes">>, <<>>, NoDoc),
  GET(<<"activity">>, <<>>, NoDoc),
  POST(<<"reports", "generate">>, Validate, Secured),
  GET(<<"audit-logs">>, <<"AUDIT_READ">> \o Validate, NoDoc),
  GET(<<"settings">>, settings, NoDoc),
  GET(<<"settings", ":key">>, settings, Secured),
  PUT(<<"settings", ":key">>, settings, Secured),
  DELETE(<<"settings", ":key">>, settings, Secured) >>

StorageRoutes == <<
  POST(<<"upload", ":entityType">>, Validate \o UploadFile, Secured),
  POST(<<"signed-upload-url">>, Validate, Secured),
  GET(<<":id", "signed-download-url">>, Validate, Secured),
  DELETE(<<":id">>, Validate, Secured) >>

\* A router: what its router.use runs for every call below its mount point,
\* whether or not a route matches, and its routes.
Mounted(use, routes) == [use |-> use, routes |-> routes]
Routers == [
  auth          |-> Mounted(<<>>, AuthRoutes \o AuthCodeRoutes),
  users         |-> Mounted(SignedIn, UsersRoutes),
  categories    |-> Mounted(<<>>, CategoriesRoutes),
  courses       |-> Mounted(<<>>, CoursesReadRoutes \o CoursesWriteRoutes
                                    \o CourseModulesRoutes),
  modules       |-> Mounted(<<>>, ModulesRoutes),
  lessons       |-> Mounted(<<>>, LessonsRoutes \o LessonResourcesRoutes),
  resources     |-> Mounted(<<>>, ResourcesRoutes),
  enrollments   |-> Mounted(SignedIn, EnrollmentsRoutes),
  progress      |-> Mounted(SignedIn, ProgressRoutes),
  live          |-> Mounted(SignedIn, LiveRoutes),
  community     |-> Mounted(SignedIn, PostsRoutes \o CommentsRoutes \o ReportsRoutes),
  notifications |-> Mounted(SignedIn, NotificationsRoutes),
  search        |-> Mounted(<<>>, SearchRoutes),
  admin         |-> Mounted(SignedIn \o Staff, AdminRoutes),
  storage       |-> Mounted(SignedIn, StorageRoutes)]

\* Parameters; a free one is not validated as a UUID, and may be any word.
FreeParameters == {":slug", ":key", ":entityType"}
Parameters == FreeParameters \cup
  {":id", ":courseId", ":moduleId", ":lessonId", ":resourceId", ":postId",
   ":commentId", ":replyId"}

\* A path that a client writes for a route.
Filled(path, word) ==
  [i \in DOMAIN path |-> IF path[i] \in FreeParameters THEN word
                         ELSE IF path[i] \in Parameters THEN "a UUID" ELSE path[i]]

Matches(route, verb, path) ==
  /\ route.verb = verb
  /\ Len(route.path) = Len(path)
  /\ \A i \in DOMAIN path : route.path[i] \in Parameters \cup {path[i]}

-------------------------------------------------------------------------------
(* A call on its way                                                       *)

VARIABLES
  call,      \* router, number of the route the client means, path, caller
  layer,     \* 0 for what runs before the routes, then the route tried
  guard,     \* the guard to run next; 0 when the route is yet to be matched
  user,      \* req.user: its role, or "none"
  outcome    \* "pending", a status that a guard replied with, or "handled"

httpVars == <<call, layer, guard, user, outcome>>

RoutesOf(name) == Routers[name].routes
Tried == RoutesOf(call.router)[layer]
Meant == RoutesOf(call.router)[call.route]

\* app.ts and v1/index.ts: what runs before the routes of a router.
FrontGuards(name) == <<"parse", "globalLimit">> \o Routers[name].use
Guards == IF layer = 0 THEN FrontGuards(call.router) ELSE Tried.guards

Allowed(g) ==
  CASE g = "requireStaff"      -> STAFF_ROLES
    [] g = "requireModeration" -> MODERATION_ROLES
    [] g = "requireContent"    -> CONTENT_MANAGEMENT_ROLES
    [] g \in DOMAIN PermissionHolders -> PermissionHolders[g]
Restricts(g) == g \in {"requireStaff", "requireModeration", "requireContent"}
                        \cup DOMAIN PermissionHolders

\* The statuses a guard may reply with; a limiter, a validator, an upload or a
\* parser may also let the call pass.
Refusals(g) ==
  CASE g = "authenticate" -> IF call.caller \in Anonymous THEN {"401"} ELSE {}
    [] Restricts(g) -> IF user = "none" THEN {"401"}
                       ELSE IF user \notin Allowed(g) THEN {"403"} ELSE {}
    [] g \in {"globalLimit", "authLimit", "otpLimit"} -> {"429"}
    [] g \in {"parse", "validate", "upload"} -> {"400"}
    [] g = "optionalAuthenticate" -> {}

Certain(g) == g = "authenticate" \/ Restricts(g)
Passes(g)  == Certain(g) => Refusals(g) = {}

OnItsWay == outcome = "pending"
Running  == OnItsWay /\ (layer = 0 \/ guard > 0)

PassGuard ==
  /\ Running
  /\ guard =< Len(Guards)
  /\ Passes(Guards[guard])
  /\ user' = IF /\ Guards[guard] \in {"authenticate", "optionalAuthenticate"}
                /\ call.caller \notin Anonymous
               THEN call.caller ELSE user
  /\ guard' = guard + 1
  /\ UNCHANGED <<call, layer, outcome>>

RefuseCall ==
  /\ Running
  /\ guard =< Len(Guards)
  /\ \E s \in Refusals(Guards[guard]) : outcome' = s
  /\ UNCHANGED <<call, layer, guard, user>>

EnterRoutes ==
  /\ OnItsWay /\ layer = 0 /\ guard > Len(Guards)
  /\ layer' = 1 /\ guard' = 0
  /\ UNCHANGED <<call, user, outcome>>

TryRoute ==
  /\ OnItsWay /\ layer \in DOMAIN RoutesOf(call.router) /\ guard = 0
  /\ IF Matches(Tried, call.verb, call.path)
       THEN guard' = 1 /\ UNCHANGED layer
       ELSE layer' = layer + 1 /\ UNCHANGED guard
  /\ UNCHANGED <<call, user, outcome>>

\* The controller is called.
HandleCall ==
  /\ Running /\ layer > 0 /\ guard > Len(Guards)
  /\ outcome' = "handled"
  /\ UNCHANGED <<call, layer, guard, user>>

NotFound ==
  /\ OnItsWay /\ layer > Len(RoutesOf(call.router))
  /\ outcome' = "404"
  /\ UNCHANGED <<call, layer, guard, user>>

-------------------------------------------------------------------------------
NoRoute == [verb |-> "PUT", path |-> <<"nothing", "here">>]
Calls(name, caller) ==
  LET aims == RoutesOf(name) \o <<NoRoute>> IN
  {[router |-> name, route |-> n, verb |-> aims[n].verb,
    path |-> Filled(aims[n].path, word), caller |-> caller] :
      n \in DOMAIN aims, word \in Words}
AllCalls == UNION {Calls(name, caller) : name \in DOMAIN Routers, caller \in Callers}

NoCall == [router |-> "none", route |-> 0, verb |-> "none", path |-> <<>>,
           caller |-> "no token"]

Accept(c) ==
  /\ outcome = "idle"
  /\ call' = c /\ layer' = 0 /\ guard' = 1 /\ user' = "none"
  /\ outcome' = "pending"

HttpInit == call = NoCall /\ layer = 0 /\ guard = 0 /\ user = "none" /\ outcome = "idle"

HttpNext ==
  \/ \E c \in AllCalls : Accept(c)
  \/ PassGuard \/ RefuseCall \/ EnterRoutes \/ TryRoute \/ HandleCall \/ NotFound

HttpSpec == HttpInit /\ [][HttpNext]_httpVars

-------------------------------------------------------------------------------
HttpTypeOK ==
  /\ call \in AllCalls \cup {NoCall}
  /\ user \in ALL_ROLES \cup {"none"}
  /\ outcome \in {"idle", "pending", "handled", "400", "401", "403", "404", "429"}
  /\ outcome \notin {"idle", "404"} => layer \in 0..Len(RoutesOf(call.router)) + 1
  /\ guard \in Nat

IsRoute == call.route \in DOMAIN RoutesOf(call.router)

\* A call reaches the controller of the route it was written for, never that
\* of a route registered before it or after it, and then its caller is one the
\* route is documented for.  Whoever is documented by role, or as everyone, is
\* not turned away for lack of a token or a role, and no call of a route ends
\* in 404.
CallersAsDocumented ==
  outcome \notin {"idle", "pending"} =>
    /\ outcome = "handled" =>
         /\ layer = call.route
         /\ call.caller \in DocumentedCallers(Meant.doc)
    /\ outcome \in {"401", "403"} /\ IsRoute /\ Meant.doc # NoDoc
         /\ (outcome = "401" \/ Meant.doc # Secured) =>
           call.caller \notin DocumentedCallers(Meant.doc)
    /\ outcome = "404" => ~IsRoute
===============================================================================
