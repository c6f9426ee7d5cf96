------------------------------ MODULE HttpProofs ------------------------------
(***************************************************************************)
(* Theorems about Http: the tables of routes are orderly and their guards  *)
(* fit what is documented of them, which is read off each table once; and  *)
(* a call that follows such tables reaches its own handler when its caller *)
(* is one of those documented, and is refused otherwise.                   *)
(***************************************************************************)
EXTENDS Http, TLAPS

(* The guards of the tables.                                               *)

GuardNames ==
  {"parse", "globalLimit", "authLimit", "otpLimit", "authenticate",
   "optionalAuthenticate", "requireStaff", "requireModeration", "requireContent",
   "AUDIT_READ", "SETTINGS_MANAGE", "validate", "upload"}

GuardLists == Seq(GuardNames)

GuardsIn(g) == {g[i] : i \in DOMAIN g}
SignsInFirst(g) == 1 \in DOMAIN g /\ g[1] = "authenticate"

Restricting ==
  {"requireStaff", "requireModeration", "requireContent", "AUDIT_READ", "SETTINGS_MANAGE"}

\* The guard that lets in the documented callers and nobody else.
Bar(doc) ==
  CASE doc = Secured       -> "authenticate"
    [] doc = StaffOnly     -> "requireStaff"
    [] doc = AuthorOnly    -> "requireContent"
    [] doc = ModeratorOnly -> "requireModeration"

ByRole == {StaffOnly, AuthorOnly, ModeratorOnly}

\* The guards of a router and of one of its routes let in whom the comment on
\* the route documents, and ask for a role only of those who are signed in.
Fits(use, guards, doc) ==
  LET all == GuardsIn(use) \cup GuardsIn(guards) IN
  /\ guards \in GuardLists
  /\ doc \in ByRole \cup {Public, Secured, NoDoc}
  /\ doc \in ByRole \cup {Secured} => Bar(doc) \in all
  /\ doc = Public => all \cap (Restricting \cup {"authenticate"}) = {}
  /\ doc \in ByRole => all \cap Restricting \subseteq {Bar(doc)}
  /\ GuardsIn(guards) \cap Restricting # {} => SignsInFirst(use) \/ SignsInFirst(guards)

LEMMA VerbKeepsGuards ==
  /\ \A p, g, d : GET(p, g, d).guards = g /\ GET(p, g, d).doc = d
  /\ \A p, g, d : POST(p, g, d).guards = g /\ POST(p, g, d).doc = d
  /\ \A p, g, d : PUT(p, g, d).guards = g /\ PUT(p, g, d).doc = d
  /\ \A p, g, d : PATCH(p, g, d).guards = g /\ PATCH(p, g, d).doc = d
  /\ \A p, g, d : DELETE(p, g, d).guards = g /\ DELETE(p, g, d).doc = d
  BY DEF GET, POST, PUT, PATCH, DELETE, Route

LEMMA GuardListsTyped ==
  /\ <<>> \in GuardLists /\ Validate \in GuardLists /\ SignedIn \in GuardLists
  /\ Staff \in GuardLists /\ Moderators \in GuardLists /\ Authors \in GuardLists
  /\ UploadFile \in GuardLists /\ <<"authLimit">> \in GuardLists
  /\ <<"otpLimit">> \in GuardLists /\ <<"optionalAuthenticate">> \in GuardLists
  /\ <<"otpLimit", "optionalAuthenticate">> \in GuardLists
  /\ <<"AUDIT_READ">> \in GuardLists /\ <<"SETTINGS_MANAGE">> \in GuardLists
  /\ <<"parse", "globalLimit">> \in GuardLists
  BY DEF GuardLists, GuardNames, Validate, SignedIn, Staff, Moderators, Authors, UploadFile

LEMMA GuardsListed ==
  /\ GuardsIn(<<>>) = {} /\ GuardsIn(Validate) = {"validate"}
  /\ GuardsIn(SignedIn) = {"authenticate"} /\ GuardsIn(Staff) = {"requireStaff"}
  /\ GuardsIn(Moderators) = {"requireModeration"}
  /\ GuardsIn(Authors) = {"requireContent"} /\ GuardsIn(UploadFile) = {"upload"}
  /\ GuardsIn(<<"authLimit">>) = {"authLimit"} /\ GuardsIn(<<"otpLimit">>) = {"otpLimit"}
  /\ GuardsIn(<<"optionalAuthenticate">>) = {"optionalAuthenticate"}
  /\ GuardsIn(<<"otpLimit", "optionalAuthenticate">>) = {"otpLimit", "optionalAuthenticate"}
  /\ GuardsIn(<<"AUDIT_READ">>) = {"AUDIT_READ"}
  /\ GuardsIn(<<"SETTINGS_MANAGE">>) = {"SETTINGS_MANAGE"}
  /\ GuardsIn(<<"parse", "globalLimit">>) = {"parse", "globalLimit"}
  /\ SignsInFirst(SignedIn)
  BY DEF GuardsIn, SignsInFirst, Validate, SignedIn, Staff, Moderators, Authors, UploadFile

LEMMA GuardListsJoin ==
  ASSUME NEW s \in GuardLists, NEW t \in GuardLists
  PROVE  /\ s \o t \in GuardLists
         /\ GuardsIn(s \o t) = GuardsIn(s) \cup GuardsIn(t)
         /\ SignsInFirst(s) => SignsInFirst(s \o t)
  <1>1. s \o t \in GuardLists
    BY DEF GuardLists
  <1>2. GuardsIn(s \o t) \subseteq GuardsIn(s) \cup GuardsIn(t)
    <2> SUFFICES ASSUME NEW i \in DOMAIN (s \o t)
                 PROVE  (s \o t)[i] \in GuardsIn(s) \cup GuardsIn(t)
      BY DEF GuardsIn
    <2>1. CASE i \in 1..Len(s)
      <3>1. (s \o t)[i] = s[i] /\ i \in DOMAIN s
        BY <2>1 DEF GuardLists
      <3>2. QED
        BY <3>1 DEF GuardsIn
    <2>2. CASE i \notin 1..Len(s)
      <3>1. (s \o t)[i] = t[i - Len(s)] /\ i - Len(s) \in DOMAIN t
        BY <2>2 DEF GuardLists
      <3>2. QED
        BY <3>1 DEF GuardsIn
    <2>3. QED
      BY <2>1, <2>2
  <1>3. GuardsIn(s) \subseteq GuardsIn(s \o t)
    <2> SUFFICES ASSUME NEW i \in DOMAIN s PROVE s[i] \in GuardsIn(s \o t)
      BY DEF GuardsIn
    <2>1. (s \o t)[i] = s[i] /\ i \in DOMAIN (s \o t)
      BY DEF GuardLists
    <2>2. QED
      BY <2>1 DEF GuardsIn
  <1>4. GuardsIn(t) \subseteq GuardsIn(s \o t)
    <2> SUFFICES ASSUME NEW i \in DOMAIN t PROVE t[i] \in GuardsIn(s \o t)
      BY DEF GuardsIn
    <2>1. (s \o t)[i + Len(s)] = t[i] /\ i + Len(s) \in DOMAIN (s \o t)
      BY DEF GuardLists
    <2>2. QED
      BY <2>1 DEF GuardsIn
  <1>5. SignsInFirst(s) => SignsInFirst(s \o t)
    BY DEF GuardLists, SignsInFirst
  <1>6. QED
    BY <1>1, <1>2, <1>3, <1>4, <1>5

\* The guard lists of the tables: what is in them, and which begin with
\* authenticate.
LEMMA JoinedLists ==
  /\ <<"authLimit">> \o Validate \in GuardLists
  /\ GuardsIn(<<"authLimit">> \o Validate) = {"authLimit", "validate"}
  /\ <<"otpLimit">> \o Validate \in GuardLists
  /\ GuardsIn(<<"otpLimit">> \o Validate) = {"otpLimit", "validate"}
  /\ <<"optionalAuthenticate">> \o Validate \in GuardLists
  /\ GuardsIn(<<"optionalAuthenticate">> \o Validate) = {"optionalAuthenticate", "validate"}
  /\ <<"otpLimit", "optionalAuthenticate">> \o Validate \in GuardLists
  /\ GuardsIn(<<"otpLimit", "optionalAuthenticate">> \o Validate)
       = {"otpLimit", "optionalAuthenticate", "validate"}
  /\ <<"AUDIT_READ">> \o Validate \in GuardLists
  /\ GuardsIn(<<"AUDIT_READ">> \o Validate) = {"AUDIT_READ", "validate"}
  /\ <<"SETTINGS_MANAGE">> \o Validate \in GuardLists
  /\ GuardsIn(<<"SETTINGS_MANAGE">> \o Validate) = {"SETTINGS_MANAGE", "validate"}
  /\ Staff \o Validate \in GuardLists
  /\ GuardsIn(Staff \o Validate) = {"requireStaff", "validate"}
  /\ Moderators \o Validate \in GuardLists
  /\ GuardsIn(Moderators \o Validate) = {"requireModeration", "validate"}
  /\ Authors \o Validate \in GuardLists
  /\ GuardsIn(Authors \o Validate) = {"requireContent", "validate"}
  /\ Validate \o UploadFile \in GuardLists
  /\ GuardsIn(Validate \o UploadFile) = {"validate", "upload"}
  BY GuardListsTyped, GuardsListed, GuardListsJoin

LEMMA SignedInLists ==
  /\ SignedIn \o Validate \in GuardLists /\ SignsInFirst(SignedIn \o Validate)
  /\ GuardsIn(SignedIn \o Validate) = {"authenticate", "validate"}
  /\ SignedIn \o Staff \in GuardLists /\ SignsInFirst(SignedIn \o Staff)
  /\ GuardsIn(SignedIn \o Staff) = {"authenticate", "requireStaff"}
  /\ SignedIn \o Staff \o Validate \in GuardLists
  /\ SignsInFirst(SignedIn \o Staff \o Validate)
  /\ GuardsIn(SignedIn \o Staff \o Validate) = {"authenticate", "requireStaff", "validate"}
  /\ ContentGuards \o Validate \in GuardLists /\ SignsInFirst(ContentGuards \o Validate)
  /\ GuardsIn(ContentGuards \o Validate) = {"authenticate", "requireContent", "validate"}
  /\ ContentGuards \o Validate \o UploadFile \in GuardLists
  /\ SignsInFirst(ContentGuards \o Validate \o UploadFile)
  /\ GuardsIn(ContentGuards \o Validate \o UploadFile)
       = {"authenticate", "requireContent", "validate", "upload"}
  /\ ContentGuards \o UploadFile \o Validate \in GuardLists
  /\ SignsInFirst(ContentGuards \o UploadFile \o Validate)
  /\ GuardsIn(ContentGuards \o UploadFile \o Validate)
       = {"authenticate", "requireContent", "validate", "upload"}
  <1>1. /\ SignedIn \o Validate \in GuardLists /\ SignsInFirst(SignedIn \o Validate)
        /\ GuardsIn(SignedIn \o Validate) = {"authenticate", "validate"}
        /\ SignedIn \o Staff \in GuardLists /\ SignsInFirst(SignedIn \o Staff)
        /\ GuardsIn(SignedIn \o Staff) = {"authenticate", "requireStaff"}
        /\ SignedIn \o Authors \in GuardLists /\ SignsInFirst(SignedIn \o Authors)
        /\ GuardsIn(SignedIn \o Authors) = {"authenticate", "requireContent"}
    BY GuardListsTyped, GuardsListed, GuardListsJoin
  <1>2. /\ SignedIn \o Staff \o Validate \in GuardLists
        /\ SignsInFirst(SignedIn \o Staff \o Validate)
        /\ GuardsIn(SignedIn \o Staff \o Validate)
             = {"authenticate", "requireStaff", "validate"}
    BY <1>1, GuardListsTyped, GuardsListed, GuardListsJoin
  <1>3. /\ ContentGuards \o Validate \in GuardLists
        /\ SignsInFirst(ContentGuards \o Validate)
        /\ GuardsIn(ContentGuards \o Validate) = {"authenticate", "requireContent", "validate"}
        /\ ContentGuards \o UploadFile \in GuardLists
        /\ SignsInFirst(ContentGuards \o UploadFile)
        /\ GuardsIn(ContentGuards \o UploadFile) = {"authenticate", "requireContent", "upload"}
    BY <1>1, GuardListsTyped, GuardsListed, GuardListsJoin DEF ContentGuards
  <1>4. /\ ContentGuards \o Validate \o UploadFile \in GuardLists
        /\ SignsInFirst(ContentGuards \o Validate \o UploadFile)
        /\ GuardsIn(ContentGuards \o Validate \o UploadFile)
             = {"authenticate", "requireContent", "validate", "upload"}
        /\ ContentGuards \o UploadFile \o Validate \in GuardLists
        /\ SignsInFirst(ContentGuards \o UploadFile \o Validate)
        /\ GuardsIn(ContentGuards \o UploadFile \o Validate)
             = {"authenticate", "requireContent", "validate", "upload"}
    BY <1>3, GuardListsTyped, GuardsListed, GuardListsJoin
  <1>5. QED
    BY <1>1, <1>2, <1>3, <1>4

\* Routers that ask for a token route by route, if at all.
LEMMA OpenFits ==
  /\ Fits(<<>>, Validate, Public)
  /\ Fits(<<>>, <<"authLimit">> \o Validate, Public)
  /\ Fits(<<>>, <<"otpLimit">> \o Validate, Public)
  /\ Fits(<<>>, <<"optionalAuthenticate">> \o Validate, Public)
  /\ Fits(<<>>, <<"otpLimit", "optionalAuthenticate">> \o Validate, Public)
  /\ Fits(<<>>, SignedIn, Secured)
  /\ Fits(<<>>, SignedIn \o Validate, Secured)
  /\ Fits(<<>>, SignedIn \o Validate, NoDoc)
  /\ Fits(<<>>, SignedIn \o Staff \o Validate, StaffOnly)
  /\ Fits(<<>>, SignedIn \o Staff \o Validate, NoDoc)
  /\ Fits(<<>>, ContentGuards \o Validate, AuthorOnly)
  /\ Fits(<<>>, ContentGuards \o Validate, Secured)
  /\ Fits(<<>>, ContentGuards \o Validate \o UploadFile, Secured)
  /\ Fits(<<>>, ContentGuards \o UploadFile \o Validate, Secured)
  BY GuardListsTyped, GuardsListed, JoinedLists, SignedInLists
     DEF Fits, Bar, ByRole, Restricting, Public, Secured, StaffOnly, AuthorOnly,
         ModeratorOnly, NoDoc

\* Routers that ask everyone for a token.
LEMMA SignedInFits ==
  /\ Fits(SignedIn, <<>>, Secured) /\ Fits(SignedIn, <<>>, NoDoc)
  /\ Fits(SignedIn, Validate, Secured) /\ Fits(SignedIn, Validate, NoDoc)
  /\ Fits(SignedIn, UploadFile, Secured) /\ Fits(SignedIn, Validate \o UploadFile, Secured)
  /\ Fits(SignedIn, Staff \o Validate, StaffOnly)
  /\ Fits(SignedIn, Moderators \o Validate, ModeratorOnly)
  /\ Fits(SignedIn, Authors \o Validate, Secured)
  /\ Fits(SignedIn \o Staff, <<>>, Secured) /\ Fits(SignedIn \o Staff, <<>>, NoDoc)
  /\ Fits(SignedIn \o Staff, Validate, Secured)
  /\ Fits(SignedIn \o Staff, <<"AUDIT_READ">> \o Validate, NoDoc)
  /\ Fits(SignedIn \o Staff, <<"SETTINGS_MANAGE">> \o Validate, NoDoc)
  /\ Fits(SignedIn \o Staff, <<"SETTINGS_MANAGE">> \o Validate, Secured)
  BY GuardListsTyped, GuardsListed, JoinedLists, SignedInLists
     DEF Fits, Bar, ByRole, Restricting, Public, Secured, StaffOnly, AuthorOnly,
         ModeratorOnly, NoDoc

\* A table is a sequence of routes whose guards fit the router they are under.
Table(use, t) ==
  \E R : t \in Seq(R) /\ \A route \in R : Fits(use, route.guards, route.doc)

LEMMA TablesJoin ==
  ASSUME NEW use, NEW s, NEW t, Table(use, s), Table(use, t)
  PROVE  Table(use, s \o t)
  <1>1. PICK R : s \in Seq(R) /\ \A route \in R : Fits(use, route.guards, route.doc)
    BY DEF Table
  <1>2. PICK Q : t \in Seq(Q) /\ \A route \in Q : Fits(use, route.guards, route.doc)
    BY DEF Table
  <1>3. s \in Seq(R \cup Q) /\ t \in Seq(R \cup Q)
    BY <1>1, <1>2
  <1>4. s \o t \in Seq(R \cup Q)
    BY <1>3
  <1>5. QED
    BY <1>1, <1>2, <1>4 DEF Table

LEMMA AuthTyped == Table(<<>>, AuthRoutes)
  <1> DEFINE R == {AuthRoutes[n] : n \in 1..5}
  <1>1. AuthRoutes \in Seq(R)
    BY DEF AuthRoutes
  <1>2. \A n \in 1..5 : Fits(<<>>, AuthRoutes[n].guards, AuthRoutes[n].doc)
    BY VerbKeepsGuards, OpenFits DEF AuthRoutes
  <1>3. QED
    BY <1>1, <1>2 DEF Table

LEMMA AuthCodeTyped == Table(<<>>, AuthCodeRoutes)
  <1> DEFINE R == {AuthCodeRoutes[n] : n \in 1..5}
  <1>1. AuthCodeRoutes \in Seq(R)
    BY DEF AuthCodeRoutes
  <1>2. \A n \in 1..5 : Fits(<<>>, AuthCodeRoutes[n].guards, AuthCodeRoutes[n].doc)
    BY VerbKeepsGuards, OpenFits DEF AuthCodeRoutes
  <1>3. QED
    BY <1>1, <1>2 DEF Table

LEMMA UsersTyped == Table(SignedIn, UsersRoutes)
  <1> DEFINE R == {UsersRoutes[n] : n \in 1..8}
  <1>1. UsersRoutes \in Seq(R)
    BY DEF UsersRoutes
  <1>2. \A n \in 1..8 : Fits(SignedIn, UsersRoutes[n].guards, UsersRoutes[n].doc)
    BY VerbKeepsGuards, SignedInFits DEF UsersRoutes
  <1>3. QED
    BY <1>1, <1>2 DEF Table

LEMMA CategoriesTyped == Table(<<>>, CategoriesRoutes)
  <1> DEFINE R == {CategoriesRoutes[n] : n \in 1..5}
  <1>1. CategoriesRoutes \in Seq(R)
    BY DEF CategoriesRoutes
  <1>2. \A n \in 1..5 : Fits(<<>>, CategoriesRoutes[n].guards, CategoriesRoutes[n].doc)
    BY VerbKeepsGuards, OpenFits DEF CategoriesRoutes
  <1>3. QED
    BY <1>1, <1>2 DEF Table

LEMMA CoursesReadTyped == Table(<<>>, CoursesReadRoutes)
  <1> DEFINE R == {CoursesReadRoutes[n] : n \in 1..3}
  <1>1. CoursesReadRoutes \in Seq(R)
    BY DEF CoursesReadRoutes
  <1>2. \A n \in 1..3 :
        Fits(<<>>, CoursesReadRoutes[n].guards, CoursesReadRoutes[n].doc)
    BY VerbKeepsGuards, OpenFits DEF CoursesReadRoutes
  <1>3. QED
    BY <1>1, <1>2 DEF Table

LEMMA CoursesWriteTyped == Table(<<>>, CoursesWriteRoutes)
  <1> DEFINE R == {CoursesWriteRoutes[n] : n \in 1..6}
  <1>1. CoursesWriteRoutes \in Seq(R)
    BY DEF CoursesWriteRoutes
  <1>2. \A n \in 1..6 :
        Fits(<<>>, CoursesWriteRoutes[n].guards, CoursesWriteRoutes[n].doc)
    BY VerbKeepsGuards, OpenFits DEF CoursesWriteRoutes
  <1>3. QED
    BY <1>1, <1>2 DEF Table

LEMMA CourseModulesTyped == Table(<<>>, CourseModulesRoutes)
  <1> DEFINE R == {CourseModulesRoutes[n] : n \in 1..3}
  <1>1. CourseModulesRoutes \in Seq(R)
    BY DEF CourseModulesRoutes
  <1>2. \A n \in 1..3 :
        Fits(<<>>, CourseModulesRoutes[n].guards, CourseModulesRoutes[n].doc)
    BY VerbKeepsGuards, OpenFits DEF CourseModulesRoutes
  <1>3. QED
    BY <1>1, <1>2 DEF Table

LEMMA ModulesTyped == Table(<<>>, ModulesRoutes)
  <1> DEFINE R == {ModulesRoutes[n] : n \in 1..5}
  <1>1. ModulesRoutes \in Seq(R)
    BY DEF ModulesRoutes
  <1>2. \A n \in 1..5 : Fits(<<>>, ModulesRoutes[n].guards, ModulesRoutes[n].doc)
    BY VerbKeepsGuards, OpenFits DEF ModulesRoutes
  <1>3. QED
    BY <1>1, <1>2 DEF Table

LEMMA LessonsTyped == Table(<<>>, LessonsRoutes)
  <1> DEFINE R == {LessonsRoutes[n] : n \in 1..5}
  <1>1. LessonsRoutes \in Seq(R)
    BY DEF LessonsRoutes
  <1>2. \A n \in 1..5 : Fits(<<>>, LessonsRoutes[n].guards, LessonsRoutes[n].doc)
    BY VerbKeepsGuards, OpenFits DEF LessonsRoutes
  <1>3. QED
    BY <1>1, <1>2 DEF Table

LEMMA LessonResourcesTyped == Table(<<>>, LessonResourcesRoutes)
  <1> DEFINE R == {LessonResourcesRoutes[n] : n \in 1..2}
  <1>1. LessonResourcesRoutes \in Seq(R)
    BY DEF LessonResourcesRoutes
  <1>2. \A n \in 1..2 :
        Fits(<<>>, LessonResourcesRoutes[n].guards, LessonResourcesRoutes[n].doc)
    BY VerbKeepsGuards, OpenFits DEF LessonResourcesRoutes
  <1>3. QED
    BY <1>1, <1>2 DEF Table

LEMMA ResourcesTyped == Table(<<>>, ResourcesRoutes)
  <1> DEFINE R == {ResourcesRoutes[n] : n \in 1..1}
  <1>1. ResourcesRoutes \in Seq(R)
    BY DEF ResourcesRoutes
  <1>2. \A n \in 1..1 : Fits(<<>>, ResourcesRoutes[n].guards, ResourcesRoutes[n].doc)
    BY VerbKeepsGuards, OpenFits DEF ResourcesRoutes
  <1>3. QED
    BY <1>1, <1>2 DEF Table

LEMMA EnrollmentsTyped == Table(SignedIn, EnrollmentsRoutes)
  <1> DEFINE R == {EnrollmentsRoutes[n] : n \in 1..4}
  <1>1. EnrollmentsRoutes \in Seq(R)
    BY DEF EnrollmentsRoutes
  <1>2. \A n \in 1..4 :
        Fits(SignedIn, EnrollmentsRoutes[n].guards, EnrollmentsRoutes[n].doc)
    BY VerbKeepsGuards, SignedInFits DEF EnrollmentsRoutes
  <1>3. QED
    BY <1>1, <1>2 DEF Table

LEMMA ProgressTyped == Table(SignedIn, ProgressRoutes)
  <1> DEFINE R == {ProgressRoutes[n] : n \in 1..4}
  <1>1. ProgressRoutes \in Seq(R)
    BY DEF ProgressRoutes
  <1>2. \A n \in 1..4 : Fits(SignedIn, ProgressRoutes[n].guards, ProgressRoutes[n].doc)
    BY VerbKeepsGuards, SignedInFits DEF ProgressRoutes
  <1>3. QED
    BY <1>1, <1>2 DEF Table

LEMMA LiveTyped == Table(SignedIn, LiveRoutes)
  <1> DEFINE R == {LiveRoutes[n] : n \in 1..9}
  <1>1. LiveRoutes \in Seq(R)
    BY DEF LiveRoutes
  <1>2. \A n \in 1..9 : Fits(SignedIn, LiveRoutes[n].guards, LiveRoutes[n].doc)
    BY VerbKeepsGuards, SignedInFits DEF LiveRoutes
  <1>3. QED
    BY <1>1, <1>2 DEF Table

LEMMA PostsTyped == Table(SignedIn, PostsRoutes)
  <1> DEFINE R == {PostsRoutes[n] : n \in 1..8}
  <1>1. PostsRoutes \in Seq(R)
    BY DEF PostsRoutes
  <1>2. \A n \in 1..8 : Fits(SignedIn, PostsRoutes[n].guards, PostsRoutes[n].doc)
    BY VerbKeepsGuards, SignedInFits DEF PostsRoutes
  <1>3. QED
    BY <1>1, <1>2 DEF Table

LEMMA CommentsTyped == Table(SignedIn, CommentsRoutes)
  <1> DEFINE R == {CommentsRoutes[n] : n \in 1..8}
  <1>1. CommentsRoutes \in Seq(R)
    BY DEF CommentsRoutes
  <1>2. \A n \in 1..8 : Fits(SignedIn, CommentsRoutes[n].guards, CommentsRoutes[n].doc)
    BY VerbKeepsGuards, SignedInFits DEF CommentsRoutes
  <1>3. QED
    BY <1>1, <1>2 DEF Table

LEMMA ReportsTyped == Table(SignedIn, ReportsRoutes)
  <1> DEFINE R == {ReportsRoutes[n] : n \in 1..3}
  <1>1. ReportsRoutes \in Seq(R)
    BY DEF ReportsRoutes
  <1>2. \A n \in 1..3 : Fits(SignedIn, ReportsRoutes[n].guards, ReportsRoutes[n].doc)
    BY VerbKeepsGuards, SignedInFits DEF ReportsRoutes
  <1>3. QED
    BY <1>1, <1>2 DEF Table

LEMMA NotificationsTyped == Table(SignedIn, NotificationsRoutes)
  <1> DEFINE R == {NotificationsRoutes[n] : n \in 1..5}
  <1>1. NotificationsRoutes \in Seq(R)
    BY DEF NotificationsRoutes
  <1>2. \A n \in 1..5 :
        Fits(SignedIn, NotificationsRoutes[n].guards, NotificationsRoutes[n].doc)
    BY VerbKeepsGuards, SignedInFits DEF NotificationsRoutes
  <1>3. QED
    BY <1>1, <1>2 DEF Table

LEMMA SearchTyped == Table(<<>>, SearchRoutes)
  <1> DEFINE R == {SearchRoutes[n] : n \in 1..4}
  <1>1. SearchRoutes \in Seq(R)
    BY DEF SearchRoutes
  <1>2. \A n \in 1..4 : Fits(<<>>, SearchRoutes[n].guards, SearchRoutes[n].doc)
    BY VerbKeepsGuards, OpenFits DEF SearchRoutes
  <1>3. QED
    BY <1>1, <1>2 DEF Table

LEMMA StorageTyped == Table(SignedIn, StorageRoutes)
  <1> DEFINE R == {StorageRoutes[n] : n \in 1..4}
  <1>1. StorageRoutes \in Seq(R)
    BY DEF StorageRoutes
  <1>2. \A n \in 1..4 : Fits(SignedIn, StorageRoutes[n].guards, StorageRoutes[n].doc)
    BY VerbKeepsGuards, SignedInFits DEF StorageRoutes
  <1>3. QED
    BY <1>1, <1>2 DEF Table

LEMMA AdminTyped == Table(SignedIn \o Staff, AdminRoutes)
  <1> DEFINE R == {AdminRoutes[n] : n \in 1..12}
  <1>1. AdminRoutes \in Seq(R)
    BY DEF AdminRoutes
  <1>2. \A n \in 1..6 :
        Fits(SignedIn \o Staff, AdminRoutes[n].guards, AdminRoutes[n].doc)
    BY VerbKeepsGuards, SignedInFits DEF AdminRoutes
  <1>3. \A n \in 7..12 : Fits(SignedIn \o Staff, AdminRoutes[n].guards, AdminRoutes[n].doc)
    BY VerbKeepsGuards, SignedInFits DEF AdminRoutes
  <1>4. \A n \in 1..12 : Fits(SignedIn \o Staff, AdminRoutes[n].guards, AdminRoutes[n].doc)
    BY <1>2, <1>3
  <1>5. \A route \in R : Fits(SignedIn \o Staff, route.guards, route.doc)
    BY <1>4
  <1> HIDE DEF R
  <1>6. QED
    BY <1>1, <1>5 DEF Table

\* A path element that is not a parameter, nor what is written for one that
\* is validated.
Literal(x) == x \notin Parameters \cup {"a UUID"}

\* Route r does not match a path written for route s, whatever word stands in
\* it for a free parameter.
Apart(r, s) ==
  \/ r.verb # s.verb
  \/ Len(r.path) # Len(s.path)
  \/ \E i \in 1..Len(r.path) : /\ Literal(r.path[i]) /\ r.path[i] # s.path[i]
                               /\ s.path[i] \notin FreeParameters

IsPath(p) == Len(p) \in Nat /\ DOMAIN p = 1..Len(p)

Before(s, t) == \A n \in DOMAIN t : \A m \in DOMAIN s : Apart(s[m], t[n])

\* No route takes the calls of a later one, or one that no route is for.
Orderly(t) ==
  /\ \A n \in DOMAIN t : \A m \in 1..n-1 : Apart(t[m], t[n])
  /\ \A m \in DOMAIN t : Apart(t[m], NoRoute) /\ IsPath(t[m].path)

LEMMA OrderlyJoin ==
  ASSUME NEW use, NEW s, NEW t, Table(use, s), Table(use, t)
  PROVE  /\ Orderly(s) /\ Orderly(t) /\ Before(s, t) => Orderly(s \o t)
         /\ \A u : Before(s, u) /\ Before(t, u) => Before(s \o t, u)
  <1>1. PICK R : s \in Seq(R) /\ t \in Seq(R)
    <2>1. PICK R1 : s \in Seq(R1)
      BY DEF Table
    <2>2. PICK R2 : t \in Seq(R2)
      BY DEF Table
    <2>3. s \in Seq(R1 \cup R2) /\ t \in Seq(R1 \cup R2)
      BY <2>1, <2>2
    <2>4. QED
      BY <2>3
  <1>2. /\ DOMAIN (s \o t) = 1..Len(s) + Len(t) /\ Len(s) \in Nat /\ Len(t) \in Nat
        /\ DOMAIN s = 1..Len(s) /\ DOMAIN t = 1..Len(t)
        /\ \A n \in 1..Len(s) + Len(t) :
             \/ n \in DOMAIN s /\ (s \o t)[n] = s[n]
             \/ n > Len(s) /\ n - Len(s) \in DOMAIN t /\ (s \o t)[n] = t[n - Len(s)]
    BY <1>1
  <1> DEFINE j == s \o t
  <1>3. /\ DOMAIN j = 1..Len(s) + Len(t)
        /\ \A n \in 1..Len(s) + Len(t) :
             \/ n \in DOMAIN s /\ j[n] = s[n]
             \/ n > Len(s) /\ n - Len(s) \in DOMAIN t /\ j[n] = t[n - Len(s)]
    BY <1>2
  <1> HIDE DEF j
  <1>4. Orderly(s) /\ Orderly(t) /\ Before(s, t) => Orderly(j)
    <2> SUFFICES ASSUME Orderly(s), Orderly(t), Before(s, t) PROVE Orderly(j)
      OBVIOUS
    <2>1. ASSUME NEW n \in DOMAIN j, NEW m \in 1..n-1 PROVE Apart(j[m], j[n])
      <3>1. n \in 1..Len(s) + Len(t) /\ m \in 1..Len(s) + Len(t) /\ m < n
            /\ n \in Nat /\ m \in Nat
        BY <1>2, <1>3, <2>1
      <3>2. CASE n \in DOMAIN s /\ j[n] = s[n]
        <4>1. m \in DOMAIN s /\ j[m] = s[m] /\ m \in 1..n-1
          BY <1>2, <1>3, <3>1, <3>2
        <4>2. QED
          BY <3>2, <4>1 DEF Orderly
      <3>3. CASE n > Len(s) /\ n - Len(s) \in DOMAIN t /\ j[n] = t[n - Len(s)]
        <4>1. CASE m \in DOMAIN s /\ j[m] = s[m]
          BY <3>3, <4>1 DEF Before
        <4>2. CASE m > Len(s) /\ m - Len(s) \in DOMAIN t /\ j[m] = t[m - Len(s)]
          <5>1. m - Len(s) \in 1..(n - Len(s)) - 1
            BY <1>2, <3>1, <3>3, <4>2
          <5>2. QED
            BY <3>3, <4>2, <5>1 DEF Orderly
        <4>3. QED
          BY <1>3, <3>1, <4>1, <4>2
      <3>4. QED
        BY <1>3, <3>1, <3>2, <3>3
    <2>2. ASSUME NEW m \in DOMAIN j PROVE Apart(j[m], NoRoute) /\ IsPath(j[m].path)
      BY <1>3 DEF Orderly
    <2>3. QED
      BY <2>1, <2>2 DEF Orderly
  <1>5. \A u : Before(s, u) /\ Before(t, u) => Before(j, u)
    BY <1>3 DEF Before
  <1>6. QED
    BY <1>4, <1>5 DEF j

LEMMA AuthOrderly == Orderly(AuthRoutes \o AuthCodeRoutes)
  <1>1. /\ Literal("register")
        /\ Literal("login")
        /\ Literal("refresh")
        /\ Literal("logout")
        /\ Literal("logout-all")
        /\ Literal("forgot-password")
        /\ Literal("reset-password")
        /\ Literal("verify-email")
    BY DEF Literal, Parameters, FreeParameters
  <1>2. DOMAIN AuthRoutes = 1..5
    BY DEF AuthRoutes
  <1>3. /\ AuthRoutes[1].verb = "POST" /\ AuthRoutes[1].path = <<"register">>
        /\ AuthRoutes[2].verb = "POST" /\ AuthRoutes[2].path = <<"login">>
        /\ AuthRoutes[3].verb = "POST" /\ AuthRoutes[3].path = <<"refresh">>
        /\ AuthRoutes[4].verb = "POST" /\ AuthRoutes[4].path = <<"logout">>
        /\ AuthRoutes[5].verb = "POST" /\ AuthRoutes[5].path = <<"logout-all">>
    BY DEF AuthRoutes, GET, POST, PUT, PATCH, DELETE, Route
  <1>4. DOMAIN AuthCodeRoutes = 1..5
    BY DEF AuthCodeRoutes
  <1>5. /\ AuthCodeRoutes[1].verb = "POST"
        /\ AuthCodeRoutes[1].path = <<"forgot-password">>
        /\ AuthCodeRoutes[2].verb = "POST"
        /\ AuthCodeRoutes[2].path = <<"reset-password">>
        /\ AuthCodeRoutes[3].verb = "POST"
        /\ AuthCodeRoutes[3].path = <<"verify-email">>
        /\ AuthCodeRoutes[4].verb = "POST" /\ AuthCodeRoutes[4].path = <<"resend-otp">>
        /\ AuthCodeRoutes[5].verb = "GET" /\ AuthCodeRoutes[5].path = <<"me">>
    BY DEF AuthCodeRoutes, GET, POST, PUT, PATCH, DELETE, Route
  <1>6. \A m \in 1..5 : IsPath(AuthRoutes[m].path)
    BY <1>3 DEF IsPath
  <1>7. \A m \in 1..5 : Apart(AuthRoutes[m], NoRoute)
    BY <1>3, <1>1 DEF Apart, NoRoute, FreeParameters
  <1>8. \A m \in 1..1 : Apart(AuthRoutes[m], AuthRoutes[2])
    BY <1>3, <1>1 DEF Apart, FreeParameters
  <1>9. \A m \in 1..2 : Apart(AuthRoutes[m], AuthRoutes[3])
    BY <1>3, <1>1 DEF Apart, FreeParameters
  <1>10. \A m \in 1..3 : Apart(AuthRoutes[m], AuthRoutes[4])
    BY <1>3, <1>1 DEF Apart, FreeParameters
  <1>11. \A m \in 1..4 : Apart(AuthRoutes[m], AuthRoutes[5])
    BY <1>3, <1>1 DEF Apart, FreeParameters
  <1>12. ASSUME NEW n \in 1..5, NEW m \in 1..n-1
         PROVE  Apart(AuthRoutes[m], AuthRoutes[n])
    <2>1. n = 1 \/ n = 2 \/ n = 3 \/ n = 4 \/ n = 5
      OBVIOUS
    <2>2. QED
      BY <2>1, <1>8, <1>9, <1>10, <1>11
  <1>13. Orderly(AuthRoutes)
    BY <1>2, <1>7, <1>6, <1>12 DEF Orderly
  <1>14. \A m \in 1..5 : IsPath(AuthCodeRoutes[m].path)
    BY <1>5 DEF IsPath
  <1>15. \A m \in 1..5 : Apart(AuthCodeRoutes[m], NoRoute)
    BY <1>5, <1>1 DEF Apart, NoRoute, FreeParameters
  <1>16. \A m \in 1..1 : Apart(AuthCodeRoutes[m], AuthCodeRoutes[2])
    BY <1>5, <1>1 DEF Apart, FreeParameters
  <1>17. \A m \in 1..2 : Apart(AuthCodeRoutes[m], AuthCodeRoutes[3])
    BY <1>5, <1>1 DEF Apart, FreeParameters
  <1>18. \A m \in 1..3 : Apart(AuthCodeRoutes[m], AuthCodeRoutes[4])
    BY <1>5, <1>1 DEF Apart, FreeParameters
  <1>19. \A m \in 1..4 : Apart(AuthCodeRoutes[m], AuthCodeRoutes[5])
    BY <1>5, <1>1 DEF Apart, FreeParameters
  <1>20. ASSUME NEW n \in 1..5, NEW m \in 1..n-1
         PROVE  Apart(AuthCodeRoutes[m], AuthCodeRoutes[n])
    <2>1. n = 1 \/ n = 2 \/ n = 3 \/ n = 4 \/ n = 5
      OBVIOUS
    <2>2. QED
      BY <2>1, <1>16, <1>17, <1>18, <1>19
  <1>21. Orderly(AuthCodeRoutes)
    BY <1>4, <1>15, <1>14, <1>20 DEF Orderly
  <1>22. \A m \in 1..5 : Apart(AuthRoutes[m], AuthCodeRoutes[1])
    BY SMTT(60), <1>3, <1>5, <1>1 DEF Apart, FreeParameters
  <1>23. \A m \in 1..5 : Apart(AuthRoutes[m], AuthCodeRoutes[2])
    BY SMTT(60), <1>3, <1>5, <1>1 DEF Apart, FreeParameters
  <1>24. \A m \in 1..5 : Apart(AuthRoutes[m], AuthCodeRoutes[3])
    BY SMTT(60), <1>3, <1>5, <1>1 DEF Apart, FreeParameters
  <1>25. \A m \in 1..5 : Apart(AuthRoutes[m], AuthCodeRoutes[4])
    BY SMTT(60), <1>3, <1>5, <1>1 DEF Apart, FreeParameters
  <1>26. \A m \in 1..5 : Apart(AuthRoutes[m], AuthCodeRoutes[5])
    BY SMTT(60), <1>3, <1>5, <1>1 DEF Apart, FreeParameters
  <1>27. ASSUME NEW n \in 1..5, NEW m \in 1..5
         PROVE  Apart(AuthRoutes[m], AuthCodeRoutes[n])
    <2>1. n = 1 \/ n = 2 \/ n = 3 \/ n = 4 \/ n = 5
      OBVIOUS
    <2>2. QED
      BY <2>1, <1>22, <1>23, <1>24, <1>25, <1>26
  <1>28. Before(AuthRoutes, AuthCodeRoutes)
    BY <1>2, <1>4, <1>27 DEF Before
  <1>29. QED
    BY <1>13, <1>21, <1>28, AuthTyped, AuthCodeTyped, OrderlyJoin

LEMMA UsersOrderly == Orderly(UsersRoutes)
  <1>1. /\ Literal("me")
        /\ Literal("status")
    BY DEF Literal, Parameters, FreeParameters
  <1>2. DOMAIN UsersRoutes = 1..8
    BY DEF UsersRoutes
  <1>3. /\ UsersRoutes[1].verb = "GET" /\ UsersRoutes[1].path = <<"me">>
        /\ UsersRoutes[2].verb = "PATCH" /\ UsersRoutes[2].path = <<"me">>
        /\ UsersRoutes[3].verb = "POST" /\ UsersRoutes[3].path = <<"me", "avatar">>
        /\ UsersRoutes[4].verb = "GET" /\ UsersRoutes[4].path = <<>>
        /\ UsersRoutes[5].verb = "GET" /\ UsersRoutes[5].path = <<":id">>
        /\ UsersRoutes[6].verb = "PATCH" /\ UsersRoutes[6].path = <<":id", "status">>
        /\ UsersRoutes[7].verb = "PATCH" /\ UsersRoutes[7].path = <<":id", "role">>
        /\ UsersRoutes[8].verb = "DELETE" /\ UsersRoutes[8].path = <<":id">>
    BY DEF UsersRoutes, GET, POST, PUT, PATCH, DELETE, Route
  <1>4. /\ Len(UsersRoutes[4].path) = 0
        /\ Len(UsersRoutes[5].path) = 1
    BY <1>3
  <1>5. \A m \in 1..8 : IsPath(UsersRoutes[m].path)
    BY <1>3 DEF IsPath
  <1>6. \A m \in 1..8 : Apart(UsersRoutes[m], NoRoute)
    BY <1>3, <1>1 DEF Apart, NoRoute, FreeParameters
  <1>7. \A m \in 1..1 : Apart(UsersRoutes[m], UsersRoutes[2])
    BY SMTT(60), <1>3, <1>1 DEF Apart, FreeParameters
  <1>8. \A m \in 1..2 : Apart(UsersRoutes[m], UsersRoutes[3])
    BY SMTT(60), <1>3, <1>1 DEF Apart, FreeParameters
  <1>9. \A m \in 1..3 : Apart(UsersRoutes[m], UsersRoutes[4])
    BY SMTT(60), <1>3, <1>1 DEF Apart, FreeParameters
  <1>10. \A m \in 1..4 : Apart(UsersRoutes[m], UsersRoutes[5])
    BY SMTT(60), <1>3, <1>1 DEF Apart, FreeParameters
  <1>11. \A m \in 1..5 : Apart(UsersRoutes[m], UsersRoutes[6])
    BY SMTT(60), <1>3, <1>1 DEF Apart, FreeParameters
  <1>12. \A m \in 1..6 : Apart(UsersRoutes[m], UsersRoutes[7])
    BY SMTT(60), <1>3, <1>1 DEF Apart, FreeParameters
  <1>13. \A m \in 1..7 : Apart(UsersRoutes[m], UsersRoutes[8])
    BY SMTT(60), <1>3, <1>1 DEF Apart, FreeParameters
  <1>14. ASSUME NEW n \in 1..8, NEW m \in 1..n-1
         PROVE  Apart(UsersRoutes[m], UsersRoutes[n])
    <2>1. n = 1 \/ n = 2 \/ n = 3 \/ n = 4 \/ n = 5 \/ n = 6 \/ n = 7 \/ n = 8
      OBVIOUS
    <2>2. QED
      BY <2>1, <1>7, <1>8, <1>9, <1>10, <1>11, <1>12, <1>13
  <1>15. Orderly(UsersRoutes)
    BY <1>2, <1>6, <1>5, <1>14 DEF Orderly
  <1>16. QED
    BY <1>15

LEMMA CategoriesOrderly == Orderly(CategoriesRoutes)
  <1>1. DOMAIN CategoriesRoutes = 1..5
    BY DEF CategoriesRoutes
  <1>2. /\ CategoriesRoutes[1].verb = "GET" /\ CategoriesRoutes[1].path = <<>>
        /\ CategoriesRoutes[2].verb = "GET" /\ CategoriesRoutes[2].path = <<":id">>
        /\ CategoriesRoutes[3].verb = "POST" /\ CategoriesRoutes[3].path = <<>>
        /\ CategoriesRoutes[4].verb = "PATCH" /\ CategoriesRoutes[4].path = <<":id">>
        /\ CategoriesRoutes[5].verb = "DELETE" /\ CategoriesRoutes[5].path = <<":id">>
    BY DEF CategoriesRoutes, GET, POST, PUT, PATCH, DELETE, Route
  <1>3. /\ Len(CategoriesRoutes[1].path) = 0
        /\ Len(CategoriesRoutes[2].path) = 1
        /\ Len(CategoriesRoutes[3].path) = 0
    BY <1>2
  <1>4. \A m \in 1..5 : IsPath(CategoriesRoutes[m].path)
    BY <1>2 DEF IsPath
  <1>5. \A m \in 1..5 : Apart(CategoriesRoutes[m], NoRoute)
    BY <1>2 DEF Apart, NoRoute
  <1>6. Apart(CategoriesRoutes[1], CategoriesRoutes[2])
    BY <1>3 DEF Apart
  <1>7. \A m \in 1..2 : Apart(CategoriesRoutes[m], CategoriesRoutes[3])
    BY <1>2 DEF Apart
  <1>8. \A m \in 1..3 : Apart(CategoriesRoutes[m], CategoriesRoutes[4])
    BY <1>2 DEF Apart
  <1>9. \A m \in 1..4 : Apart(CategoriesRoutes[m], CategoriesRoutes[5])
    BY <1>2 DEF Apart
  <1>10. ASSUME NEW n \in 1..5, NEW m \in 1..n-1
         PROVE  Apart(CategoriesRoutes[m], CategoriesRoutes[n])
    <2>1. n = 1 \/ n = 2 \/ n = 3 \/ n = 4 \/ n = 5
      OBVIOUS
    <2>2. QED
      BY <2>1, <1>6, <1>7, <1>8, <1>9
  <1>11. Orderly(CategoriesRoutes)
    BY <1>1, <1>5, <1>4, <1>10 DEF Orderly
  <1>12. QED
    BY <1>11

LEMMA CoursesOrderly == Orderly(CoursesReadRoutes \o CoursesWriteRoutes \o CourseModulesRoutes)
  <1>1. /\ Literal("slug")
        /\ Literal("thumbnail")
        /\ Literal("banner")
    BY DEF Literal, Parameters, FreeParameters
  <1>2. DOMAIN CoursesReadRoutes = 1..3
    BY DEF CoursesReadRoutes
  <1>3. /\ CoursesReadRoutes[1].verb = "GET" /\ CoursesReadRoutes[1].path = <<>>
        /\ CoursesReadRoutes[2].verb = "GET"
        /\ CoursesReadRoutes[2].path = <<"slug", ":slug">>
        /\ CoursesReadRoutes[3].verb = "GET" /\ CoursesReadRoutes[3].path = <<":id">>
    BY DEF CoursesReadRoutes, GET, POST, PUT, PATCH, DELETE, Route
  <1>4. DOMAIN CoursesWriteRoutes = 1..6
    BY DEF CoursesWriteRoutes
  <1>5. /\ CoursesWriteRoutes[1].verb = "POST" /\ CoursesWriteRoutes[1].path = <<>>
        /\ CoursesWriteRoutes[2].verb = "PATCH"
        /\ CoursesWriteRoutes[2].path = <<":id">>
        /\ CoursesWriteRoutes[3].verb = "PATCH"
        /\ CoursesWriteRoutes[3].path = <<":id", "status">>
        /\ CoursesWriteRoutes[4].verb = "POST"
        /\ CoursesWriteRoutes[4].path = <<":id", "thumbnail">>
        /\ CoursesWriteRoutes[5].verb = "POST"
        /\ CoursesWriteRoutes[5].path = <<":id", "banner">>
        /\ CoursesWriteRoutes[6].verb = "DELETE"
        /\ CoursesWriteRoutes[6].path = <<":id">>
    BY DEF CoursesWriteRoutes, GET, POST, PUT, PATCH, DELETE, Route
  <1>6. DOMAIN CourseModulesRoutes = 1..3
    BY DEF CourseModulesRoutes
  <1>7. /\ CourseModulesRoutes[1].verb = "GET"
        /\ CourseModulesRoutes[1].path = <<":courseId", "modules">>
        /\ CourseModulesRoutes[2].verb = "POST"
        /\ CourseModulesRoutes[2].path = <<":courseId", "modules">>
        /\ CourseModulesRoutes[3].verb = "PATCH"
        /\ CourseModulesRoutes[3].path = <<":courseId", "modules", "reorder">>
    BY DEF CourseModulesRoutes, GET, POST, PUT, PATCH, DELETE, Route
  <1>8. /\ Len(CoursesReadRoutes[1].path) = 0
        /\ Len(CoursesReadRoutes[2].path) = 2
        /\ Len(CoursesReadRoutes[3].path) = 1
    BY <1>3
  <1>9. \A m \in 1..3 : IsPath(CoursesReadRoutes[m].path)
    BY <1>3 DEF IsPath
  <1>10. \A m \in 1..3 : Apart(CoursesReadRoutes[m], NoRoute)
    BY <1>3, <1>1 DEF Apart, NoRoute, FreeParameters
  <1>11. Apart(CoursesReadRoutes[1], CoursesReadRoutes[2])
    BY <1>8 DEF Apart
  <1>12. Apart(CoursesReadRoutes[1], CoursesReadRoutes[3])
    BY <1>8 DEF Apart
  <1>13. \A m \in 2..2 : Apart(CoursesReadRoutes[m], CoursesReadRoutes[3])
    BY <1>3, <1>1 DEF Apart, FreeParameters
  <1>14. ASSUME NEW n \in 1..3, NEW m \in 1..n-1
         PROVE  Apart(CoursesReadRoutes[m], CoursesReadRoutes[n])
    <2>1. n = 1 \/ n = 2 \/ n = 3
      OBVIOUS
    <2>2. QED
      BY <2>1, <1>11, <1>12, <1>13
  <1>15. Orderly(CoursesReadRoutes)
    BY <1>2, <1>10, <1>9, <1>14 DEF Orderly
  <1>16. /\ Len(CoursesWriteRoutes[1].path) = 0
        /\ Len(CoursesWriteRoutes[4].path) = 2
        /\ Len(CoursesWriteRoutes[5].path) = 2
    BY <1>5
  <1>17. \A m \in 1..6 : IsPath(CoursesWriteRoutes[m].path)
    BY <1>5 DEF IsPath
  <1>18. \A m \in 1..6 : Apart(CoursesWriteRoutes[m], NoRoute)
    BY <1>5, <1>1 DEF Apart, NoRoute, FreeParameters
  <1>19. \A m \in 1..1 : Apart(CoursesWriteRoutes[m], CoursesWriteRoutes[2])
    BY <1>5, <1>1 DEF Apart, FreeParameters
  <1>20. \A m \in 1..2 : Apart(CoursesWriteRoutes[m], CoursesWriteRoutes[3])
    BY <1>5, <1>1 DEF Apart, FreeParameters
  <1>21. Apart(CoursesWriteRoutes[1], CoursesWriteRoutes[4])
    BY <1>16 DEF Apart
  <1>22. \A m \in 2..3 : Apart(CoursesWriteRoutes[m], CoursesWriteRoutes[4])
    BY <1>5, <1>1 DEF Apart, FreeParameters
  <1>23. Apart(CoursesWriteRoutes[1], CoursesWriteRoutes[5])
    BY <1>16 DEF Apart
  <1>24. \A m \in 2..4 : Apart(CoursesWriteRoutes[m], CoursesWriteRoutes[5])
    BY <1>5, <1>1 DEF Apart, FreeParameters
  <1>25. \A m \in 1..5 : Apart(CoursesWriteRoutes[m], CoursesWriteRoutes[6])
    BY <1>5, <1>1 DEF Apart, FreeParameters
  <1>26. ASSUME NEW n \in 1..6, NEW m \in 1..n-1
         PROVE  Apart(CoursesWriteRoutes[m], CoursesWriteRoutes[n])
    <2>1. n = 1 \/ n = 2 \/ n = 3 \/ n = 4 \/ n = 5 \/ n = 6
      OBVIOUS
    <2>2. QED
      BY <2>1, <1>19, <1>20, <1>21, <1>22, <1>23, <1>24, <1>25
  <1>27. Orderly(CoursesWriteRoutes)
    BY <1>4, <1>18, <1>17, <1>26 DEF Orderly
  <1>28. \A m \in 1..3 : IsPath(CourseModulesRoutes[m].path)
    BY <1>7 DEF IsPath
  <1>29. \A m \in 1..3 : Apart(CourseModulesRoutes[m], NoRoute)
    BY <1>7, <1>1 DEF Apart, NoRoute, FreeParameters
  <1>30. \A m \in 1..1 : Apart(CourseModulesRoutes[m], CourseModulesRoutes[2])
    BY <1>7, <1>1 DEF Apart, FreeParameters
  <1>31. \A m \in 1..2 : Apart(CourseModulesRoutes[m], CourseModulesRoutes[3])
    BY <1>7, <1>1 DEF Apart, FreeParameters
  <1>32. ASSUME NEW n \in 1..3, NEW m \in 1..n-1
         PROVE  Apart(CourseModulesRoutes[m], CourseModulesRoutes[n])
    <2>1. n = 1 \/ n = 2 \/ n = 3
      OBVIOUS
    <2>2. QED
      BY <2>1, <1>30, <1>31
  <1>33. Orderly(CourseModulesRoutes)
    BY <1>6, <1>29, <1>28, <1>32 DEF Orderly
  <1>34. \A m \in 1..3 : Apart(CoursesReadRoutes[m], CoursesWriteRoutes[1])
    BY SMTT(60), <1>3, <1>5, <1>1 DEF Apart, FreeParameters
  <1>35. \A m \in 1..3 : Apart(CoursesReadRoutes[m], CoursesWriteRoutes[2])
    BY SMTT(60), <1>3, <1>5, <1>1 DEF Apart, FreeParameters
  <1>36. \A m \in 1..3 : Apart(CoursesReadRoutes[m], CoursesWriteRoutes[3])
    BY SMTT(60), <1>3, <1>5, <1>1 DEF Apart, FreeParameters
  <1>37. \A m \in 1..3 : Apart(CoursesReadRoutes[m], CoursesWriteRoutes[4])
    BY SMTT(60), <1>3, <1>5, <1>1 DEF Apart, FreeParameters
  <1>38. \A m \in 1..3 : Apart(CoursesReadRoutes[m], CoursesWriteRoutes[5])
    BY SMTT(60), <1>3, <1>5, <1>1 DEF Apart, FreeParameters
  <1>39. \A m \in 1..3 : Apart(CoursesReadRoutes[m], CoursesWriteRoutes[6])
    BY SMTT(60), <1>3, <1>5, <1>1 DEF Apart, FreeParameters
  <1>40. ASSUME NEW n \in 1..6, NEW m \in 1..3
         PROVE  Apart(CoursesReadRoutes[m], CoursesWriteRoutes[n])
    <2>1. n = 1 \/ n = 2 \/ n = 3 \/ n = 4 \/ n = 5 \/ n = 6
      OBVIOUS
    <2>2. QED
      BY <2>1, <1>34, <1>35, <1>36, <1>37, <1>38, <1>39
  <1>41. Before(CoursesReadRoutes, CoursesWriteRoutes)
    BY <1>2, <1>4, <1>40 DEF Before
  <1>42. \A m \in 1..3 : Apart(CoursesReadRoutes[m], CourseModulesRoutes[1])
    BY SMTT(60), <1>3, <1>7, <1>1 DEF Apart, FreeParameters
  <1>43. \A m \in 1..3 : Apart(CoursesReadRoutes[m], CourseModulesRoutes[2])
    BY SMTT(60), <1>3, <1>7, <1>1 DEF Apart, FreeParameters
  <1>44. \A m \in 1..3 : Apart(CoursesReadRoutes[m], CourseModulesRoutes[3])
    BY SMTT(60), <1>3, <1>7, <1>1 DEF Apart, FreeParameters
  <1>45. ASSUME NEW n \in 1..3, NEW m \in 1..3
         PROVE  Apart(CoursesReadRoutes[m], CourseModulesRoutes[n])
    <2>1. n = 1 \/ n = 2 \/ n = 3
      OBVIOUS
    <2>2. QED
      BY <2>1, <1>42, <1>43, <1>44
  <1>46. Before(CoursesReadRoutes, CourseModulesRoutes)
    BY <1>2, <1>6, <1>45 DEF Before
  <1>47. \A m \in 1..6 : Apart(CoursesWriteRoutes[m], CourseModulesRoutes[1])
    BY SMTT(60), <1>5, <1>7, <1>1 DEF Apart, FreeParameters
  <1>48. \A m \in 1..6 : Apart(CoursesWriteRoutes[m], CourseModulesRoutes[2])
    BY SMTT(60), <1>5, <1>7, <1>1 DEF Apart, FreeParameters
  <1>49. \A m \in 1..6 : Apart(CoursesWriteRoutes[m], CourseModulesRoutes[3])
    <2>1. /\ Len(CoursesWriteRoutes[1].path) = 0 /\ Len(CoursesWriteRoutes[2].path) = 1
          /\ Len(CoursesWriteRoutes[3].path) = 2 /\ Len(CoursesWriteRoutes[4].path) = 2
          /\ Len(CoursesWriteRoutes[5].path) = 2 /\ Len(CoursesWriteRoutes[6].path) = 1
      BY <1>5
    <2>2. Len(CourseModulesRoutes[3].path) = 3
      BY <1>7
    <2>3. /\ Apart(CoursesWriteRoutes[1], CourseModulesRoutes[3])
          /\ Apart(CoursesWriteRoutes[2], CourseModulesRoutes[3])
          /\ Apart(CoursesWriteRoutes[3], CourseModulesRoutes[3])
          /\ Apart(CoursesWriteRoutes[4], CourseModulesRoutes[3])
          /\ Apart(CoursesWriteRoutes[5], CourseModulesRoutes[3])
          /\ Apart(CoursesWriteRoutes[6], CourseModulesRoutes[3])
      BY <2>1, <2>2 DEF Apart
    <2>4. ASSUME NEW m \in 1..6 PROVE Apart(CoursesWriteRoutes[m], CourseModulesRoutes[3])
      <3>1. m = 1 \/ m = 2 \/ m = 3 \/ m = 4 \/ m = 5 \/ m = 6
        OBVIOUS
      <3>2. QED
        BY <2>3, <3>1
    <2>5. QED
      BY <2>4
  <1>50. ASSUME NEW n \in 1..3, NEW m \in 1..6
         PROVE  Apart(CoursesWriteRoutes[m], CourseModulesRoutes[n])
    <2>1. n = 1 \/ n = 2 \/ n = 3
      OBVIOUS
    <2>2. QED
      BY <2>1, <1>47, <1>48, <1>49
  <1>51. Before(CoursesWriteRoutes, CourseModulesRoutes)
    BY <1>4, <1>6, <1>50 DEF Before
  <1>52. /\ Orderly(CoursesReadRoutes \o CoursesWriteRoutes)
         /\ Before(CoursesReadRoutes \o CoursesWriteRoutes, CourseModulesRoutes)
    BY <1>15, <1>27, <1>33, <1>41, <1>46, <1>51, CoursesReadTyped, CoursesWriteTyped,
       CourseModulesTyped, OrderlyJoin
  <1>53. QED
    BY <1>52, <1>15, <1>27, <1>33, CoursesReadTyped, CoursesWriteTyped,
       CourseModulesTyped, TablesJoin, OrderlyJoin

LEMMA ModulesOrderly == Orderly(ModulesRoutes)
  <1>1. DOMAIN ModulesRoutes = 1..5
    BY DEF ModulesRoutes
  <1>2. /\ ModulesRoutes[1].verb = "PATCH" /\ ModulesRoutes[1].path = <<":moduleId">>
        /\ ModulesRoutes[2].verb = "DELETE" /\ ModulesRoutes[2].path = <<":moduleId">>
        /\ ModulesRoutes[3].verb = "GET"
        /\ ModulesRoutes[3].path = <<":moduleId", "lessons">>
        /\ ModulesRoutes[4].verb = "POST"
        /\ ModulesRoutes[4].path = <<":moduleId", "lessons">>
        /\ ModulesRoutes[5].verb = "PATCH"
        /\ ModulesRoutes[5].path = <<":moduleId", "lessons", "reorder">>
    BY DEF ModulesRoutes, GET, POST, PUT, PATCH, DELETE, Route
  <1>3. \A m \in 1..5 : IsPath(ModulesRoutes[m].path)
    BY <1>2 DEF IsPath
  <1>4. \A m \in 1..5 : Apart(ModulesRoutes[m], NoRoute)
    BY <1>2 DEF Apart, NoRoute
  <1>5. \A m \in 1..1 : Apart(ModulesRoutes[m], ModulesRoutes[2])
    BY <1>2 DEF Apart
  <1>6. \A m \in 1..2 : Apart(ModulesRoutes[m], ModulesRoutes[3])
    BY <1>2 DEF Apart
  <1>7. \A m \in 1..3 : Apart(ModulesRoutes[m], ModulesRoutes[4])
    BY <1>2 DEF Apart
  <1>8. \A m \in 1..4 : Apart(ModulesRoutes[m], ModulesRoutes[5])
    BY <1>2 DEF Apart
  <1>9. ASSUME NEW n \in 1..5, NEW m \in 1..n-1
        PROVE  Apart(ModulesRoutes[m], ModulesRoutes[n])
    <2>1. n = 1 \/ n = 2 \/ n = 3 \/ n = 4 \/ n = 5
      OBVIOUS
    <2>2. QED
      BY <2>1, <1>5, <1>6, <1>7, <1>8
  <1>10. Orderly(ModulesRoutes)
    BY <1>1, <1>4, <1>3, <1>9 DEF Orderly
  <1>11. QED
    BY <1>10

LEMMA LessonsOrderly == Orderly(LessonsRoutes \o LessonResourcesRoutes)
  <1>1. /\ Literal("video")
        /\ Literal("video-url")
        /\ Literal("thumbnail")
    BY DEF Literal, Parameters, FreeParameters
  <1>2. DOMAIN LessonsRoutes = 1..5
    BY DEF LessonsRoutes
  <1>3. /\ LessonsRoutes[1].verb = "PATCH" /\ LessonsRoutes[1].path = <<":lessonId">>
        /\ LessonsRoutes[2].verb = "DELETE" /\ LessonsRoutes[2].path = <<":lessonId">>
        /\ LessonsRoutes[3].verb = "GET"
        /\ LessonsRoutes[3].path = <<":lessonId", "video-url">>
        /\ LessonsRoutes[4].verb = "POST"
        /\ LessonsRoutes[4].path = <<":lessonId", "video">>
        /\ LessonsRoutes[5].verb = "POST"
        /\ LessonsRoutes[5].path = <<":lessonId", "thumbnail">>
    BY DEF LessonsRoutes, GET, POST, PUT, PATCH, DELETE, Route
  <1>4. DOMAIN LessonResourcesRoutes = 1..2
    BY DEF LessonResourcesRoutes
  <1>5. /\ LessonResourcesRoutes[1].verb = "GET"
        /\ LessonResourcesRoutes[1].path = <<":lessonId", "resources">>
        /\ LessonResourcesRoutes[2].verb = "POST"
        /\ LessonResourcesRoutes[2].path = <<":lessonId", "resources">>
    BY DEF LessonResourcesRoutes, GET, POST, PUT, PATCH, DELETE, Route
  <1>6. \A m \in 1..5 : IsPath(LessonsRoutes[m].path)
    BY <1>3 DEF IsPath
  <1>7. \A m \in 1..5 : Apart(LessonsRoutes[m], NoRoute)
    BY <1>3, <1>1 DEF Apart, NoRoute, FreeParameters
  <1>8. \A m \in 1..1 : Apart(LessonsRoutes[m], LessonsRoutes[2])
    BY <1>3, <1>1 DEF Apart, FreeParameters
  <1>9. \A m \in 1..2 : Apart(LessonsRoutes[m], LessonsRoutes[3])
    BY <1>3, <1>1 DEF Apart, FreeParameters
  <1>10. \A m \in 1..3 : Apart(LessonsRoutes[m], LessonsRoutes[4])
    BY <1>3, <1>1 DEF Apart, FreeParameters
  <1>11. \A m \in 1..4 : Apart(LessonsRoutes[m], LessonsRoutes[5])
    BY <1>3, <1>1 DEF Apart, FreeParameters
  <1>12. ASSUME NEW n \in 1..5, NEW m \in 1..n-1
         PROVE  Apart(LessonsRoutes[m], LessonsRoutes[n])
    <2>1. n = 1 \/ n = 2 \/ n = 3 \/ n = 4 \/ n = 5
      OBVIOUS
    <2>2. QED
      BY <2>1, <1>8, <1>9, <1>10, <1>11
  <1>13. Orderly(LessonsRoutes)
    BY <1>2, <1>7, <1>6, <1>12 DEF Orderly
  <1>14. \A m \in 1..2 : IsPath(LessonResourcesRoutes[m].path)
    BY <1>5 DEF IsPath
  <1>15. \A m \in 1..2 : Apart(LessonResourcesRoutes[m], NoRoute)
    BY <1>5, <1>1 DEF Apart, NoRoute, FreeParameters
  <1>16. \A m \in 1..1 : Apart(LessonResourcesRoutes[m], LessonResourcesRoutes[2])
    BY <1>5, <1>1 DEF Apart, FreeParameters
  <1>17. ASSUME NEW n \in 1..2, NEW m \in 1..n-1
         PROVE  Apart(LessonResourcesRoutes[m], LessonResourcesRoutes[n])
    <2>1. n = 1 \/ n = 2
      OBVIOUS
    <2>2. QED
      BY <2>1, <1>16
  <1>18. Orderly(LessonResourcesRoutes)
    BY <1>4, <1>15, <1>14, <1>17 DEF Orderly
  <1>19. \A m \in 1..5 : Apart(LessonsRoutes[m], LessonResourcesRoutes[1])
    BY SMTT(60), <1>3, <1>5, <1>1 DEF Apart, FreeParameters
  <1>20. \A m \in 1..5 : Apart(LessonsRoutes[m], LessonResourcesRoutes[2])
    BY SMTT(60), <1>3, <1>5, <1>1 DEF Apart, FreeParameters
  <1>21. ASSUME NEW n \in 1..2, NEW m \in 1..5
         PROVE  Apart(LessonsRoutes[m], LessonResourcesRoutes[n])
    <2>1. n = 1 \/ n = 2
      OBVIOUS
    <2>2. QED
      BY <2>1, <1>19, <1>20
  <1>22. Before(LessonsRoutes, LessonResourcesRoutes)
    BY <1>2, <1>4, <1>21 DEF Before
  <1>23. QED
    BY <1>13, <1>18, <1>22, LessonsTyped, LessonResourcesTyped, OrderlyJoin

LEMMA ResourcesOrderly == Orderly(ResourcesRoutes)
  <1>1. DOMAIN ResourcesRoutes = 1..1
    BY DEF ResourcesRoutes
  <1>2. /\ ResourcesRoutes[1].verb = "DELETE"
        /\ ResourcesRoutes[1].path = <<":resourceId">>
    BY DEF ResourcesRoutes, GET, POST, PUT, PATCH, DELETE, Route
  <1>3. \A m \in 1..1 : IsPath(ResourcesRoutes[m].path)
    BY <1>2 DEF IsPath
  <1>4. \A m \in 1..1 : Apart(ResourcesRoutes[m], NoRoute)
    BY <1>2 DEF Apart, NoRoute
  <1>5. Orderly(ResourcesRoutes)
    BY <1>1, <1>4, <1>3 DEF Orderly
  <1>6. QED
    BY <1>5

LEMMA EnrollmentsOrderly == Orderly(EnrollmentsRoutes)
  <1>1. DOMAIN EnrollmentsRoutes = 1..4
    BY DEF EnrollmentsRoutes
  <1>2. /\ EnrollmentsRoutes[1].verb = "GET" /\ EnrollmentsRoutes[1].path = <<"me">>
        /\ EnrollmentsRoutes[2].verb = "POST"
        /\ EnrollmentsRoutes[2].path = <<":courseId">>
        /\ EnrollmentsRoutes[3].verb = "DELETE"
        /\ EnrollmentsRoutes[3].path = <<":courseId">>
        /\ EnrollmentsRoutes[4].verb = "GET"
        /\ EnrollmentsRoutes[4].path = <<":courseId", "roster">>
    BY DEF EnrollmentsRoutes, GET, POST, PUT, PATCH, DELETE, Route
  <1>3. \A m \in 1..4 : IsPath(EnrollmentsRoutes[m].path)
    BY <1>2 DEF IsPath
  <1>4. \A m \in 1..4 : Apart(EnrollmentsRoutes[m], NoRoute)
    BY <1>2 DEF Apart, NoRoute
  <1>5. \A m \in 1..1 : Apart(EnrollmentsRoutes[m], EnrollmentsRoutes[2])
    BY <1>2 DEF Apart
  <1>6. \A m \in 1..2 : Apart(EnrollmentsRoutes[m], EnrollmentsRoutes[3])
    BY <1>2 DEF Apart
  <1>7. \A m \in 1..3 : Apart(EnrollmentsRoutes[m], EnrollmentsRoutes[4])
    BY <1>2 DEF Apart
  <1>8. ASSUME NEW n \in 1..4, NEW m \in 1..n-1
        PROVE  Apart(EnrollmentsRoutes[m], EnrollmentsRoutes[n])
    <2>1. n = 1 \/ n = 2 \/ n = 3 \/ n = 4
      OBVIOUS
    <2>2. QED
      BY <2>1, <1>5, <1>6, <1>7
  <1>9. Orderly(EnrollmentsRoutes)
    BY <1>1, <1>4, <1>3, <1>8 DEF Orderly
  <1>10. QED
    BY <1>9

LEMMA ProgressOrderly == Orderly(ProgressRoutes)
  <1>1. /\ Literal("courses")
    BY DEF Literal, Parameters, FreeParameters
  <1>2. DOMAIN ProgressRoutes = 1..4
    BY DEF ProgressRoutes
  <1>3. /\ ProgressRoutes[1].verb = "GET" /\ ProgressRoutes[1].path = <<>>
        /\ ProgressRoutes[2].verb = "GET"
        /\ ProgressRoutes[2].path = <<"courses", ":courseId">>
        /\ ProgressRoutes[3].verb = "GET"
        /\ ProgressRoutes[3].path = <<"lessons", ":lessonId">>
        /\ ProgressRoutes[4].verb = "PATCH"
        /\ ProgressRoutes[4].path = <<"lessons", ":lessonId">>
    BY DEF ProgressRoutes, GET, POST, PUT, PATCH, DELETE, Route
  <1>4. /\ Len(ProgressRoutes[1].path) = 0
        /\ Len(ProgressRoutes[2].path) = 2
        /\ Len(ProgressRoutes[3].path) = 2
    BY <1>3
  <1>5. \A m \in 1..4 : IsPath(ProgressRoutes[m].path)
    BY <1>3 DEF IsPath
  <1>6. \A m \in 1..4 : Apart(ProgressRoutes[m], NoRoute)
    BY <1>3, <1>1 DEF Apart, NoRoute, FreeParameters
  <1>7. Apart(ProgressRoutes[1], ProgressRoutes[2])
    BY <1>4 DEF Apart
  <1>8. Apart(ProgressRoutes[1], ProgressRoutes[3])
    BY <1>4 DEF Apart
  <1>9. \A m \in 2..2 : Apart(ProgressRoutes[m], ProgressRoutes[3])
    BY <1>3, <1>1 DEF Apart, FreeParameters
  <1>10. \A m \in 1..3 : Apart(ProgressRoutes[m], ProgressRoutes[4])
    BY <1>3, <1>1 DEF Apart, FreeParameters
  <1>11. ASSUME NEW n \in 1..4, NEW m \in 1..n-1
         PROVE  Apart(ProgressRoutes[m], ProgressRoutes[n])
    <2>1. n = 1 \/ n = 2 \/ n = 3 \/ n = 4
      OBVIOUS
    <2>2. QED
      BY <2>1, <1>7, <1>8, <1>9, <1>10
  <1>12. Orderly(ProgressRoutes)
    BY <1>2, <1>6, <1>5, <1>11 DEF Orderly
  <1>13. QED
    BY <1>12

LEMMA LiveOrderly == Orderly(LiveRoutes)
  <1>1. /\ Literal("start")
        /\ Literal("end")
        /\ Literal("cancel")
        /\ Literal("join")
    BY DEF Literal, Parameters, FreeParameters
  <1>2. DOMAIN LiveRoutes = 1..9
    BY DEF LiveRoutes
  <1>3. /\ LiveRoutes[1].verb = "GET" /\ LiveRoutes[1].path = <<>>
        /\ LiveRoutes[2].verb = "POST" /\ LiveRoutes[2].path = <<>>
        /\ LiveRoutes[3].verb = "GET" /\ LiveRoutes[3].path = <<":id">>
        /\ LiveRoutes[4].verb = "POST" /\ LiveRoutes[4].path = <<":id", "start">>
        /\ LiveRoutes[5].verb = "POST" /\ LiveRoutes[5].path = <<":id", "end">>
        /\ LiveRoutes[6].verb = "POST" /\ LiveRoutes[6].path = <<":id", "cancel">>
        /\ LiveRoutes[7].verb = "POST" /\ LiveRoutes[7].path = <<":id", "join">>
        /\ LiveRoutes[8].verb = "POST" /\ LiveRoutes[8].path = <<":id", "leave">>
        /\ LiveRoutes[9].verb = "GET" /\ LiveRoutes[9].path = <<":id", "attendance">>
    BY DEF LiveRoutes, GET, POST, PUT, PATCH, DELETE, Route
  <1>4. /\ Len(LiveRoutes[1].path) = 0
        /\ Len(LiveRoutes[2].path) = 0
        /\ Len(LiveRoutes[3].path) = 1
        /\ Len(LiveRoutes[4].path) = 2
        /\ Len(LiveRoutes[5].path) = 2
        /\ Len(LiveRoutes[6].path) = 2
        /\ Len(LiveRoutes[7].path) = 2
        /\ Len(LiveRoutes[8].path) = 2
        /\ Len(LiveRoutes[9].path) = 2
    BY <1>3
  <1>5. \A m \in 1..9 : IsPath(LiveRoutes[m].path)
    BY <1>3 DEF IsPath
  <1>6. \A m \in 1..9 : Apart(LiveRoutes[m], NoRoute)
    BY <1>3, <1>1 DEF Apart, NoRoute, FreeParameters
  <1>7. \A m \in 1..1 : Apart(LiveRoutes[m], LiveRoutes[2])
    BY SMTT(60), <1>3, <1>1 DEF Apart, FreeParameters
  <1>8. Apart(LiveRoutes[1], LiveRoutes[3])
    BY <1>4 DEF Apart
  <1>9. \A m \in 2..2 : Apart(LiveRoutes[m], LiveRoutes[3])
    BY SMTT(60), <1>3, <1>1 DEF Apart, FreeParameters
  <1>10. \A m \in 1..3 : Apart(LiveRoutes[m], LiveRoutes[4])
    BY SMTT(60), <1>3, <1>1 DEF Apart, FreeParameters
  <1>11. \A m \in 1..4 : Apart(LiveRoutes[m], LiveRoutes[5])
    BY SMTT(60), <1>3, <1>1 DEF Apart, FreeParameters
  <1>12. \A m \in 1..5 : Apart(LiveRoutes[m], LiveRoutes[6])
    BY SMTT(60), <1>3, <1>1 DEF Apart, FreeParameters
  <1>13. \A m \in 1..6 : Apart(LiveRoutes[m], LiveRoutes[7])
    BY SMTT(60), <1>3, <1>1 DEF Apart, FreeParameters
  <1>14. \A m \in 1..7 : Apart(LiveRoutes[m], LiveRoutes[8])
    BY SMTT(60), <1>3, <1>1 DEF Apart, FreeParameters
  <1>15. Apart(LiveRoutes[1], LiveRoutes[9])
    BY <1>4 DEF Apart
  <1>16. \A m \in 2..8 : Apart(LiveRoutes[m], LiveRoutes[9])
    BY SMTT(60), <1>3, <1>1 DEF Apart, FreeParameters
  <1>17. ASSUME NEW n \in 1..9, NEW m \in 1..n-1
         PROVE  Apart(LiveRoutes[m], LiveRoutes[n])
    <2>1. n = 1 \/ n = 2 \/ n = 3 \/ n = 4 \/ n = 5 \/ n = 6 \/ n = 7 \/ n = 8 \/ n = 9
      OBVIOUS
    <2>2. QED
      BY <2>1, <1>7, <1>8, <1>9, <1>10, <1>11, <1>12, <1>13, <1>14, <1>15, <1>16
  <1>18. Orderly(LiveRoutes)
    BY <1>2, <1>6, <1>5, <1>17 DEF Orderly
  <1>19. QED
    BY <1>18

LEMMA CommunityOrderly == Orderly(PostsRoutes \o CommentsRoutes \o ReportsRoutes)
  <1>1. /\ Literal("posts")
        /\ Literal("like")
        /\ Literal("bookmark")
        /\ Literal("bookmarks")
        /\ Literal("comments")
    BY DEF Literal, Parameters, FreeParameters
  <1>2. DOMAIN PostsRoutes = 1..8
    BY DEF PostsRoutes
  <1>3. /\ PostsRoutes[1].verb = "GET" /\ PostsRoutes[1].path = <<"posts">>
        /\ PostsRoutes[2].verb = "POST" /\ PostsRoutes[2].path = <<"posts">>
        /\ PostsRoutes[3].verb = "GET" /\ PostsRoutes[3].path = <<"posts", ":postId">>
        /\ PostsRoutes[4].verb = "DELETE"
        /\ PostsRoutes[4].path = <<"posts", ":postId">>
        /\ PostsRoutes[5].verb = "PATCH"
        /\ PostsRoutes[5].path = <<"posts", ":postId", "pin">>
        /\ PostsRoutes[6].verb = "POST"
        /\ PostsRoutes[6].path = <<"posts", ":postId", "like">>
        /\ PostsRoutes[7].verb = "POST"
        /\ PostsRoutes[7].path = <<"posts", ":postId", "bookmark">>
        /\ PostsRoutes[8].verb = "GET" /\ PostsRoutes[8].path = <<"bookmarks">>
    BY DEF PostsRoutes, GET, POST, PUT, PATCH, DELETE, Route
  <1>4. DOMAIN CommentsRoutes = 1..8
    BY DEF CommentsRoutes
  <1>5. /\ CommentsRoutes[1].verb = "GET"
        /\ CommentsRoutes[1].path = <<"posts", ":postId", "comments">>
        /\ CommentsRoutes[2].verb = "POST"
        /\ CommentsRoutes[2].path = <<"posts", ":postId", "comments">>
        /\ CommentsRoutes[3].verb = "DELETE"
        /\ CommentsRoutes[3].path = <<"comments", ":commentId">>
        /\ CommentsRoutes[4].verb = "POST"
        /\ CommentsRoutes[4].path = <<"comments", ":commentId", "like">>
        /\ CommentsRoutes[5].verb = "GET"
        /\ CommentsRoutes[5].path = <<"comments", ":commentId", "replies">>
        /\ CommentsRoutes[6].verb = "POST"
        /\ CommentsRoutes[6].path = <<"comments", ":commentId", "replies">>
        /\ CommentsRoutes[7].verb = "DELETE"
        /\ CommentsRoutes[7].path = <<"replies", ":replyId">>
        /\ CommentsRoutes[8].verb = "POST"
        /\ CommentsRoutes[8].path = <<"replies", ":replyId", "like">>
    BY DEF CommentsRoutes, GET, POST, PUT, PATCH, DELETE, Route
  <1>6. DOMAIN ReportsRoutes = 1..3
    BY DEF ReportsRoutes
  <1>7. /\ ReportsRoutes[1].verb = "POST" /\ ReportsRoutes[1].path = <<"reports">>
        /\ ReportsRoutes[2].verb = "GET" /\ ReportsRoutes[2].path = <<"reports">>
        /\ ReportsRoutes[3].verb = "PATCH"
        /\ ReportsRoutes[3].path = <<"reports", ":id">>
    BY DEF ReportsRoutes, GET, POST, PUT, PATCH, DELETE, Route
  <1>8. \A m \in 1..8 : IsPath(PostsRoutes[m].path)
    BY <1>3 DEF IsPath
  <1>9. \A m \in 1..8 : Apart(PostsRoutes[m], NoRoute)
    BY <1>3, <1>1 DEF Apart, NoRoute, FreeParameters
  <1>10. \A m \in 1..1 : Apart(PostsRoutes[m], PostsRoutes[2])
    BY SMTT(60), <1>3, <1>1 DEF Apart, FreeParameters
  <1>11. \A m \in 1..2 : Apart(PostsRoutes[m], PostsRoutes[3])
    <2>1. Len(PostsRoutes[1].path) # Len(PostsRoutes[3].path)
      BY <1>3
    <2>2. PostsRoutes[2].verb # PostsRoutes[3].verb
      BY <1>3
    <2>3. QED
      BY <2>1, <2>2 DEF Apart
  <1>12. \A m \in 1..3 : Apart(PostsRoutes[m], PostsRoutes[4])
    BY SMTT(60), <1>3, <1>1 DEF Apart, FreeParameters
  <1>13. \A m \in 1..4 : Apart(PostsRoutes[m], PostsRoutes[5])
    BY SMTT(60), <1>3, <1>1 DEF Apart, FreeParameters
  <1>14. \A m \in 1..5 : Apart(PostsRoutes[m], PostsRoutes[6])
    BY SMTT(60), <1>3, <1>1 DEF Apart, FreeParameters
  <1>15. \A m \in 1..6 : Apart(PostsRoutes[m], PostsRoutes[7])
    BY SMTT(60), <1>3, <1>1 DEF Apart, FreeParameters
  <1>16. \A m \in 1..7 : Apart(PostsRoutes[m], PostsRoutes[8])
    BY SMTT(60), <1>3, <1>1 DEF Apart, FreeParameters
  <1>17. ASSUME NEW n \in 1..8, NEW m \in 1..n-1
         PROVE  Apart(PostsRoutes[m], PostsRoutes[n])
    <2>1. n = 1 \/ n = 2 \/ n = 3 \/ n = 4 \/ n = 5 \/ n = 6 \/ n = 7 \/ n = 8
      OBVIOUS
    <2>2. QED
      BY <2>1, <1>10, <1>11, <1>12, <1>13, <1>14, <1>15, <1>16
  <1>18. Orderly(PostsRoutes)
    BY <1>2, <1>9, <1>8, <1>17 DEF Orderly
  <1>19. \A m \in 1..8 : IsPath(CommentsRoutes[m].path)
    BY <1>5 DEF IsPath
  <1>20. \A m \in 1..8 : Apart(CommentsRoutes[m], NoRoute)
    BY <1>5, <1>1 DEF Apart, NoRoute, FreeParameters
  <1>21. \A m \in 1..1 : Apart(CommentsRoutes[m], CommentsRoutes[2])
    BY SMTT(60), <1>5, <1>1 DEF Apart, FreeParameters
  <1>22. \A m \in 1..2 : Apart(CommentsRoutes[m], CommentsRoutes[3])
    BY SMTT(60), <1>5, <1>1 DEF Apart, FreeParameters
  <1>23. \A m \in 1..3 : Apart(CommentsRoutes[m], CommentsRoutes[4])
    BY SMTT(60), <1>5, <1>1 DEF Apart, FreeParameters
  <1>24. \A m \in 1..4 : Apart(CommentsRoutes[m], CommentsRoutes[5])
    BY SMTT(60), <1>5, <1>1 DEF Apart, FreeParameters
  <1>25. \A m \in 1..5 : Apart(CommentsRoutes[m], CommentsRoutes[6])
    BY SMTT(60), <1>5, <1>1 DEF Apart, FreeParameters
  <1>26. \A m \in 1..6 : Apart(CommentsRoutes[m], CommentsRoutes[7])
    BY SMTT(60), <1>5, <1>1 DEF Apart, FreeParameters
  <1>27. \A m \in 1..7 : Apart(CommentsRoutes[m], CommentsRoutes[8])
    BY SMTT(60), <1>5, <1>1 DEF Apart, FreeParameters
  <1>28. ASSUME NEW n \in 1..8, NEW m \in 1..n-1
         PROVE  Apart(CommentsRoutes[m], CommentsRoutes[n])
    <2>1. n = 1 \/ n = 2 \/ n = 3 \/ n = 4 \/ n = 5 \/ n = 6 \/ n = 7 \/ n = 8
      OBVIOUS
    <2>2. QED
      BY <2>1, <1>21, <1>22, <1>23, <1>24, <1>25, <1>26, <1>27
  <1>29. Orderly(CommentsRoutes)
    BY <1>4, <1>20, <1>19, <1>28 DEF Orderly
  <1>30. \A m \in 1..3 : IsPath(ReportsRoutes[m].path)
    BY <1>7 DEF IsPath
  <1>31. \A m \in 1..3 : Apart(ReportsRoutes[m], NoRoute)
    BY <1>7, <1>1 DEF Apart, NoRoute, FreeParameters
  <1>32. \A m \in 1..1 : Apart(ReportsRoutes[m], ReportsRoutes[2])
    BY <1>7, <1>1 DEF Apart, FreeParameters
  <1>33. \A m \in 1..2 : Apart(ReportsRoutes[m], ReportsRoutes[3])
    BY <1>7, <1>1 DEF Apart, FreeParameters
  <1>34. ASSUME NEW n \in 1..3, NEW m \in 1..n-1
         PROVE  Apart(ReportsRoutes[m], ReportsRoutes[n])
    <2>1. n = 1 \/ n = 2 \/ n = 3
      OBVIOUS
    <2>2. QED
      BY <2>1, <1>32, <1>33
  <1>35. Orderly(ReportsRoutes)
    BY <1>6, <1>31, <1>30, <1>34 DEF Orderly
  <1>36. \A m \in 1..8 : Apart(PostsRoutes[m], CommentsRoutes[1])
    BY SMTT(60), <1>3, <1>5, <1>1 DEF Apart, FreeParameters
  <1>37. \A m \in 1..8 : Apart(PostsRoutes[m], CommentsRoutes[2])
    BY SMTT(60), <1>3, <1>5, <1>1 DEF Apart, FreeParameters
  <1>38. \A m \in 1..8 : Apart(PostsRoutes[m], CommentsRoutes[3])
    BY SMTT(60), <1>3, <1>5, <1>1 DEF Apart, FreeParameters
  <1>39. \A m \in 1..8 : Apart(PostsRoutes[m], CommentsRoutes[4])
    BY SMTT(60), <1>3, <1>5, <1>1 DEF Apart, FreeParameters
  <1>40. \A m \in 1..8 : Apart(PostsRoutes[m], CommentsRoutes[5])
    BY SMTT(60), <1>3, <1>5, <1>1 DEF Apart, FreeParameters
  <1>41. \A m \in 1..8 : Apart(PostsRoutes[m], CommentsRoutes[6])
    BY SMTT(60), <1>3, <1>5, <1>1 DEF Apart, FreeParameters
  <1>42. \A m \in 1..8 : Apart(PostsRoutes[m], CommentsRoutes[7])
    BY SMTT(60), <1>3, <1>5, <1>1 DEF Apart, FreeParameters
  <1>43. \A m \in 1..8 : Apart(PostsRoutes[m], CommentsRoutes[8])
    BY SMTT(60), <1>3, <1>5, <1>1 DEF Apart, FreeParameters
  <1>44. ASSUME NEW n \in 1..8, NEW m \in 1..8
         PROVE  Apart(PostsRoutes[m], CommentsRoutes[n])
    <2>1. n = 1 \/ n = 2 \/ n = 3 \/ n = 4 \/ n = 5 \/ n = 6 \/ n = 7 \/ n = 8
      OBVIOUS
    <2>2. QED
      BY <2>1, <1>36, <1>37, <1>38, <1>39, <1>40, <1>41, <1>42, <1>43
  <1>45. Before(PostsRoutes, CommentsRoutes)
    BY <1>2, <1>4, <1>44 DEF Before
  <1>46. \A m \in 1..8 : Apart(PostsRoutes[m], ReportsRoutes[1])
    BY SMTT(60), <1>3, <1>7, <1>1 DEF Apart, FreeParameters
  <1>47. \A m \in 1..8 : Apart(PostsRoutes[m], ReportsRoutes[2])
    BY SMTT(60), <1>3, <1>7, <1>1 DEF Apart, FreeParameters
  <1>48. \A m \in 1..8 : Apart(PostsRoutes[m], ReportsRoutes[3])
    BY SMTT(60), <1>3, <1>7, <1>1 DEF Apart, FreeParameters
  <1>49. ASSUME NEW n \in 1..3, NEW m \in 1..8
         PROVE  Apart(PostsRoutes[m], ReportsRoutes[n])
    <2>1. n = 1 \/ n = 2 \/ n = 3
      OBVIOUS
    <2>2. QED
      BY <2>1, <1>46, <1>47, <1>48
  <1>50. Before(PostsRoutes, ReportsRoutes)
    BY <1>2, <1>6, <1>49 DEF Before
  <1>51. \A m \in 1..8 : Apart(CommentsRoutes[m], ReportsRoutes[1])
    BY SMTT(60), <1>5, <1>7, <1>1 DEF Apart, FreeParameters
  <1>52. \A m \in 1..8 : Apart(CommentsRoutes[m], ReportsRoutes[2])
    BY SMTT(60), <1>5, <1>7, <1>1 DEF Apart, FreeParameters
  <1>53. \A m \in 1..8 : Apart(CommentsRoutes[m], ReportsRoutes[3])
    BY SMTT(60), <1>5, <1>7, <1>1 DEF Apart, FreeParameters
  <1>54. ASSUME NEW n \in 1..3, NEW m \in 1..8
         PROVE  Apart(CommentsRoutes[m], ReportsRoutes[n])
    <2>1. n = 1 \/ n = 2 \/ n = 3
      OBVIOUS
    <2>2. QED
      BY <2>1, <1>51, <1>52, <1>53
  <1>55. Before(CommentsRoutes, ReportsRoutes)
    BY <1>4, <1>6, <1>54 DEF Before
  <1>56. /\ Orderly(PostsRoutes \o CommentsRoutes)
         /\ Before(PostsRoutes \o CommentsRoutes, ReportsRoutes)
    BY <1>18, <1>29, <1>35, <1>45, <1>50, <1>55, PostsTyped, CommentsTyped, ReportsTyped,
       OrderlyJoin
  <1>57. QED
    BY <1>56, <1>18, <1>29, <1>35, PostsTyped, CommentsTyped, ReportsTyped, TablesJoin,
       OrderlyJoin

LEMMA NotificationsOrderly == Orderly(NotificationsRoutes)
  <1>1. /\ Literal("read")
    BY DEF Literal, Parameters, FreeParameters
  <1>2. DOMAIN NotificationsRoutes = 1..5
    BY DEF NotificationsRoutes
  <1>3. /\ NotificationsRoutes[1].verb = "GET" /\ NotificationsRoutes[1].path = <<>>
        /\ NotificationsRoutes[2].verb = "GET"
        /\ NotificationsRoutes[2].path = <<"unread-count">>
        /\ NotificationsRoutes[3].verb = "PATCH"
        /\ NotificationsRoutes[3].path = <<"read-all">>
        /\ NotificationsRoutes[4].verb = "PATCH"
        /\ NotificationsRoutes[4].path = <<":id", "read">>
        /\ NotificationsRoutes[5].verb = "PATCH"
        /\ NotificationsRoutes[5].path = <<":id", "archive">>
    BY DEF NotificationsRoutes, GET, POST, PUT, PATCH, DELETE, Route
  <1>4. /\ Len(NotificationsRoutes[1].path) = 0
        /\ Len(NotificationsRoutes[2].path) = 1
    BY <1>3
  <1>5. \A m \in 1..5 : IsPath(NotificationsRoutes[m].path)
    BY <1>3 DEF IsPath
  <1>6. \A m \in 1..5 : Apart(NotificationsRoutes[m], NoRoute)
    BY <1>3, <1>1 DEF Apart, NoRoute, FreeParameters
  <1>7. Apart(NotificationsRoutes[1], NotificationsRoutes[2])
    BY <1>4 DEF Apart
  <1>8. \A m \in 1..2 : Apart(NotificationsRoutes[m], NotificationsRoutes[3])
    BY <1>3, <1>1 DEF Apart, FreeParameters
  <1>9. \A m \in 1..3 : Apart(NotificationsRoutes[m], NotificationsRoutes[4])
    BY <1>3, <1>1 DEF Apart, FreeParameters
  <1>10. \A m \in 1..4 : Apart(NotificationsRoutes[m], NotificationsRoutes[5])
    BY <1>3, <1>1 DEF Apart, FreeParameters
  <1>11. ASSUME NEW n \in 1..5, NEW m \in 1..n-1
         PROVE  Apart(NotificationsRoutes[m], NotificationsRoutes[n])
    <2>1. n = 1 \/ n = 2 \/ n = 3 \/ n = 4 \/ n = 5
      OBVIOUS
    <2>2. QED
      BY <2>1, <1>7, <1>8, <1>9, <1>10
  <1>12. Orderly(NotificationsRoutes)
    BY <1>2, <1>6, <1>5, <1>11 DEF Orderly
  <1>13. QED
    BY <1>12

LEMMA SearchOrderly == Orderly(SearchRoutes)
  <1>1. /\ Literal("courses")
        /\ Literal("community")
        /\ Literal("live")
    BY DEF Literal, Parameters, FreeParameters
  <1>2. DOMAIN SearchRoutes = 1..4
    BY DEF SearchRoutes
  <1>3. /\ SearchRoutes[1].verb = "GET" /\ SearchRoutes[1].path = <<"courses">>
        /\ SearchRoutes[2].verb = "GET" /\ SearchRoutes[2].path = <<"community">>
        /\ SearchRoutes[3].verb = "GET" /\ SearchRoutes[3].path = <<"live">>
        /\ SearchRoutes[4].verb = "GET" /\ SearchRoutes[4].path = <<"students">>
    BY DEF SearchRoutes, GET, POST, PUT, PATCH, DELETE, Route
  <1>4. \A m \in 1..4 : IsPath(SearchRoutes[m].path)
    BY <1>3 DEF IsPath
  <1>5. \A m \in 1..4 : Apart(SearchRoutes[m], NoRoute)
    BY <1>3, <1>1 DEF Apart, NoRoute, FreeParameters
  <1>6. \A m \in 1..1 : Apart(SearchRoutes[m], SearchRoutes[2])
    BY <1>3, <1>1 DEF Apart, FreeParameters
  <1>7. \A m \in 1..2 : Apart(SearchRoutes[m], SearchRoutes[3])
    BY <1>3, <1>1 DEF Apart, FreeParameters
  <1>8. \A m \in 1..3 : Apart(SearchRoutes[m], SearchRoutes[4])
    BY <1>3, <1>1 DEF Apart, FreeParameters
  <1>9. ASSUME NEW n \in 1..4, NEW m \in 1..n-1
        PROVE  Apart(SearchRoutes[m], SearchRoutes[n])
    <2>1. n = 1 \/ n = 2 \/ n = 3 \/ n = 4
      OBVIOUS
    <2>2. QED
      BY <2>1, <1>6, <1>7, <1>8
  <1>10. Orderly(SearchRoutes)
    BY <1>2, <1>5, <1>4, <1>9 DEF Orderly
  <1>11. QED
    BY <1>10

LEMMA AdminOrderly == Orderly(AdminRoutes)
  <1>1. /\ Literal("dashboard")
        /\ Literal("courses")
        /\ Literal("analytics")
        /\ Literal("students")
        /\ Literal("community")
        /\ Literal("activity")
        /\ Literal("audit-logs")
        /\ Literal("settings")
    BY DEF Literal, Parameters, FreeParameters
  <1>2. DOMAIN AdminRoutes = 1..12
    BY DEF AdminRoutes
  <1>3. /\ AdminRoutes[1].verb = "GET" /\ AdminRoutes[1].path = <<"dashboard">>
        /\ AdminRoutes[2].verb = "GET"
        /\ AdminRoutes[2].path = <<"analytics", "courses">>
        /\ AdminRoutes[3].verb = "GET"
        /\ AdminRoutes[3].path = <<"analytics", "students">>
        /\ AdminRoutes[4].verb = "GET"
        /\ AdminRoutes[4].path = <<"analytics", "community">>
        /\ AdminRoutes[5].verb = "GET"
        /\ AdminRoutes[5].path = <<"analytics", "live-classes">>
        /\ AdminRoutes[6].verb = "GET" /\ AdminRoutes[6].path = <<"activity">>
        /\ AdminRoutes[7].verb = "POST"
        /\ AdminRoutes[7].path = <<"reports", "generate">>
        /\ AdminRoutes[8].verb = "GET" /\ AdminRoutes[8].path = <<"audit-logs">>
        /\ AdminRoutes[9].verb = "GET" /\ AdminRoutes[9].path = <<"settings">>
        /\ AdminRoutes[10].verb = "GET" /\ AdminRoutes[10].path = <<"settings", ":key">>
        /\ AdminRoutes[11].verb = "PUT" /\ AdminRoutes[11].path = <<"settings", ":key">>
        /\ AdminRoutes[12].verb = "DELETE"
        /\ AdminRoutes[12].path = <<"settings", ":key">>
    BY DEF AdminRoutes, GET, POST, PUT, PATCH, DELETE, Route
  <1>4. \A m \in 1..12 : IsPath(AdminRoutes[m].path)
    BY <1>3 DEF IsPath
  <1>5. \A m \in 1..12 : Apart(AdminRoutes[m], NoRoute)
    <2>1. \A m \in (1..12) \ {11} : AdminRoutes[m].verb # NoRoute.verb
      BY <1>3 DEF NoRoute
    <2>2. Apart(AdminRoutes[11], NoRoute)
      BY <1>3, <1>1 DEF Apart, NoRoute, FreeParameters
    <2>3. QED
      BY <2>1, <2>2 DEF Apart
  <1>6. \A m \in 1..1 : Apart(AdminRoutes[m], AdminRoutes[2])
    BY SMTT(60), <1>3, <1>1 DEF Apart, FreeParameters
  <1>7. \A m \in 1..2 : Apart(AdminRoutes[m], AdminRoutes[3])
    BY SMTT(60), <1>3, <1>1 DEF Apart, FreeParameters
  <1>8. \A m \in 1..3 : Apart(AdminRoutes[m], AdminRoutes[4])
    BY SMTT(60), <1>3, <1>1 DEF Apart, FreeParameters
  <1>9. \A m \in 1..4 : Apart(AdminRoutes[m], AdminRoutes[5])
    BY SMTT(60), <1>3, <1>1 DEF Apart, FreeParameters
  <1>10. \A m \in 1..5 : Apart(AdminRoutes[m], AdminRoutes[6])
    BY SMTT(60), <1>3, <1>1 DEF Apart, FreeParameters
  <1>11. \A m \in 1..6 : Apart(AdminRoutes[m], AdminRoutes[7])
    BY SMTT(60), <1>3, <1>1 DEF Apart, FreeParameters
  <1>12. \A m \in 1..7 : Apart(AdminRoutes[m], AdminRoutes[8])
    BY SMTT(60), <1>3, <1>1 DEF Apart, FreeParameters
  <1>13. \A m \in 1..8 : Apart(AdminRoutes[m], AdminRoutes[9])
    BY SMTT(60), <1>3, <1>1 DEF Apart, FreeParameters
  <1>14. \A m \in 1..9 : Apart(AdminRoutes[m], AdminRoutes[10])
    BY SMTT(60), <1>3, <1>1 DEF Apart, FreeParameters
  <1>15. \A m \in 1..10 : Apart(AdminRoutes[m], AdminRoutes[11])
    BY SMTT(60), <1>3, <1>1 DEF Apart, FreeParameters
  <1>16. \A m \in 1..11 : Apart(AdminRoutes[m], AdminRoutes[12])
    BY SMTT(60), <1>3, <1>1 DEF Apart, FreeParameters
  <1>17. ASSUME NEW n \in 1..12, NEW m \in 1..n-1
         PROVE  Apart(AdminRoutes[m], AdminRoutes[n])
    <2>1. n = 1 \/ n = 2 \/ n = 3 \/ n = 4 \/ n = 5 \/ n = 6
          \/ n = 7 \/ n = 8 \/ n = 9 \/ n = 10 \/ n = 11 \/ n = 12
      OBVIOUS
    <2>2. QED
      BY <2>1, <1>6, <1>7, <1>8, <1>9, <1>10, <1>11, <1>12, <1>13, <1>14, <1>15, <1>16
  <1>18. Orderly(AdminRoutes)
    BY <1>2, <1>5, <1>4, <1>17 DEF Orderly
  <1>19. QED
    BY <1>18

LEMMA StorageOrderly == Orderly(StorageRoutes)
  <1>1. DOMAIN StorageRoutes = 1..4
    BY DEF StorageRoutes
  <1>2. /\ StorageRoutes[1].verb = "POST"
        /\ StorageRoutes[1].path = <<"upload", ":entityType">>
        /\ StorageRoutes[2].verb = "POST"
        /\ StorageRoutes[2].path = <<"signed-upload-url">>
        /\ StorageRoutes[3].verb = "GET"
        /\ StorageRoutes[3].path = <<":id", "signed-download-url">>
        /\ StorageRoutes[4].verb = "DELETE" /\ StorageRoutes[4].path = <<":id">>
    BY DEF StorageRoutes, GET, POST, PUT, PATCH, DELETE, Route
  <1>3. \A m \in 1..4 : IsPath(StorageRoutes[m].path)
    BY <1>2 DEF IsPath
  <1>4. \A m \in 1..4 : Apart(StorageRoutes[m], NoRoute)
    BY <1>2 DEF Apart, NoRoute
  <1>5. \A m \in 1..1 : Apart(StorageRoutes[m], StorageRoutes[2])
    BY <1>2 DEF Apart
  <1>6. \A m \in 1..2 : Apart(StorageRoutes[m], StorageRoutes[3])
    BY <1>2 DEF Apart
  <1>7. \A m \in 1..3 : Apart(StorageRoutes[m], StorageRoutes[4])
    BY <1>2 DEF Apart
  <1>8. ASSUME NEW n \in 1..4, NEW m \in 1..n-1
        PROVE  Apart(StorageRoutes[m], StorageRoutes[n])
    <2>1. n = 1 \/ n = 2 \/ n = 3 \/ n = 4
      OBVIOUS
    <2>2. QED
      BY <2>1, <1>5, <1>6, <1>7
  <1>9. Orderly(StorageRoutes)
    BY <1>1, <1>4, <1>3, <1>8 DEF Orderly
  <1>10. QED
    BY <1>9

-------------------------------------------------------------------------------
(* The routers.                                                            *)

RouterNames ==
  {"auth", "users", "categories", "courses", "modules", "lessons", "resources",
   "enrollments", "progress", "live", "community", "notifications", "search",
   "admin", "storage"}

LEMMA RoutersTyped ==
  /\ DOMAIN Routers = RouterNames
  /\ \A name \in RouterNames :
       /\ Table(Routers[name].use, RoutesOf(name)) /\ Orderly(RoutesOf(name))
       /\ Routers[name].use \in {<<>>, SignedIn, SignedIn \o Staff}
  <1>1. DOMAIN Routers = RouterNames
    BY DEF Routers, RouterNames
  <1>2. /\ RoutesOf("auth") = AuthRoutes \o AuthCodeRoutes
        /\ RoutesOf("users") = UsersRoutes
        /\ RoutesOf("categories") = CategoriesRoutes
        /\ RoutesOf("courses") = CoursesReadRoutes \o CoursesWriteRoutes
                                   \o CourseModulesRoutes
        /\ RoutesOf("modules") = ModulesRoutes
        /\ RoutesOf("lessons") = LessonsRoutes \o LessonResourcesRoutes
        /\ RoutesOf("resources") = ResourcesRoutes
        /\ RoutesOf("enrollments") = EnrollmentsRoutes
        /\ RoutesOf("progress") = ProgressRoutes
        /\ RoutesOf("live") = LiveRoutes
        /\ RoutesOf("community") = PostsRoutes \o CommentsRoutes \o ReportsRoutes
        /\ RoutesOf("notifications") = NotificationsRoutes
        /\ RoutesOf("search") = SearchRoutes
        /\ RoutesOf("admin") = AdminRoutes
        /\ RoutesOf("storage") = StorageRoutes
    BY DEF RoutesOf, Routers, Mounted
  <1>3. /\ Routers["auth"].use = <<>> /\ Routers["users"].use = SignedIn
        /\ Routers["categories"].use = <<>> /\ Routers["courses"].use = <<>>
        /\ Routers["modules"].use = <<>> /\ Routers["lessons"].use = <<>>
        /\ Routers["resources"].use = <<>> /\ Routers["enrollments"].use = SignedIn
        /\ Routers["progress"].use = SignedIn /\ Routers["live"].use = SignedIn
        /\ Routers["community"].use = SignedIn
        /\ Routers["notifications"].use = SignedIn /\ Routers["search"].use = <<>>
        /\ Routers["admin"].use = SignedIn \o Staff
        /\ Routers["storage"].use = SignedIn
    BY DEF Routers, Mounted
  <1>4. /\ Table(<<>>, AuthRoutes \o AuthCodeRoutes)
        /\ Table(<<>>, CoursesReadRoutes \o CoursesWriteRoutes \o CourseModulesRoutes)
        /\ Table(<<>>, LessonsRoutes \o LessonResourcesRoutes)
        /\ Table(SignedIn, PostsRoutes \o CommentsRoutes \o ReportsRoutes)
    BY TablesJoin, AuthTyped, AuthCodeTyped, CoursesReadTyped, CoursesWriteTyped,
       CourseModulesTyped, LessonsTyped, LessonResourcesTyped, PostsTyped,
       CommentsTyped, ReportsTyped
  <1>5. \A name \in RouterNames : Table(Routers[name].use, RoutesOf(name))
    BY <1>2, <1>3, <1>4, UsersTyped, CategoriesTyped, ModulesTyped, ResourcesTyped,
       EnrollmentsTyped, ProgressTyped, LiveTyped, NotificationsTyped, SearchTyped,
       AdminTyped, StorageTyped DEF RouterNames
  <1>6. \A name \in RouterNames : Orderly(RoutesOf(name))
    BY <1>2, AuthOrderly, UsersOrderly, CategoriesOrderly, CoursesOrderly,
       ModulesOrderly, LessonsOrderly, ResourcesOrderly, EnrollmentsOrderly,
       ProgressOrderly, LiveOrderly, CommunityOrderly, NotificationsOrderly,
       SearchOrderly, AdminOrderly, StorageOrderly DEF RouterNames
  <1>7. \A name \in RouterNames : Routers[name].use \in {<<>>, SignedIn, SignedIn \o Staff}
    BY <1>3 DEF RouterNames
  <1>8. QED
    BY <1>1, <1>5, <1>6, <1>7

\* What runs before the routes, and that it asks for a role only after a token.
LEMMA FrontRight ==
  ASSUME NEW name \in RouterNames
  PROVE  /\ FrontGuards(name) \in GuardLists
         /\ GuardsIn(FrontGuards(name)) =
              {"parse", "globalLimit"} \cup GuardsIn(Routers[name].use)
         /\ \A i \in DOMAIN FrontGuards(name) : FrontGuards(name)[i] \in Restricting =>
              \E j \in 1..i-1 : j \in DOMAIN FrontGuards(name)
                                  /\ FrontGuards(name)[j] = "authenticate"
  <1> DEFINE start == <<"parse", "globalLimit">>
             use == Routers[name].use
  <1>1. start \in GuardLists /\ use \in GuardLists /\ FrontGuards(name) = start \o use
    BY RoutersTyped, GuardListsTyped, SignedInLists DEF FrontGuards
  <1>2. /\ FrontGuards(name) \in GuardLists
        /\ GuardsIn(FrontGuards(name)) = {"parse", "globalLimit"} \cup GuardsIn(use)
    BY <1>1, GuardListsJoin, GuardsListed
  <1>3. \A i \in DOMAIN use : use[i] \in Restricting => i # 1 /\ use[1] = "authenticate"
    <2>1. CASE use = <<>>
      BY <2>1
    <2>2. CASE use = SignedIn
      BY <2>2 DEF SignedIn, Restricting
    <2>3. CASE use = SignedIn \o Staff
      BY <2>3, SignedInLists DEF SignsInFirst, Restricting
    <2>4. QED
      BY <2>1, <2>2, <2>3, RoutersTyped
  <1>4. ASSUME NEW i \in DOMAIN FrontGuards(name), FrontGuards(name)[i] \in Restricting
        PROVE  \E j \in 1..i-1 : j \in DOMAIN FrontGuards(name)
                                   /\ FrontGuards(name)[j] = "authenticate"
    <2>1. /\ DOMAIN FrontGuards(name) = 1..Len(use) + 2 /\ Len(use) \in Nat
          /\ DOMAIN use = 1..Len(use)
          /\ FrontGuards(name)[1] = "parse" /\ FrontGuards(name)[2] = "globalLimit"
          /\ \A k \in 1..Len(use) : FrontGuards(name)[k + 2] = use[k]
      BY <1>1 DEF GuardLists
    <2>2. i \in Nat /\ i > 2
      BY <1>4, <2>1 DEF Restricting
    <2>3. /\ i - 2 \in DOMAIN use /\ FrontGuards(name)[(i - 2) + 2] = use[i - 2]
          /\ (i - 2) + 2 = i
      BY <2>1, <2>2
    <2>4. i - 2 # 1 /\ use[1] = "authenticate"
      BY <1>3, <1>4, <2>3
    <2>5. 1 \in DOMAIN use /\ FrontGuards(name)[1 + 2] = "authenticate" /\ 1 + 2 = 3
          /\ 3 \in DOMAIN FrontGuards(name) /\ 3 \in 1..i-1
      BY <2>1, <2>2, <2>3, <2>4
    <2>6. QED
      BY <2>5
  <1>5. QED
    BY <1>2, <1>4

LEMMA CallTyped ==
  ASSUME NEW c \in AllCalls
  PROVE  /\ c.router \in RouterNames /\ c.caller \in Callers
         /\ Len(RoutesOf(c.router)) \in Nat
         /\ DOMAIN RoutesOf(c.router) = 1..Len(RoutesOf(c.router))
         /\ FrontGuards(c.router) \in GuardLists
         /\ \A n \in DOMAIN RoutesOf(c.router) :
              RoutesOf(c.router)[n].guards \in GuardLists
  <1>1. PICK name \in DOMAIN Routers, caller \in Callers : c \in Calls(name, caller)
    BY DEF AllCalls
  <1>2. c.router = name /\ c.caller = caller
    BY <1>1 DEF Calls
  <1>3. /\ name \in RouterNames /\ Table(Routers[name].use, RoutesOf(name))
        /\ FrontGuards(name) \in GuardLists
    BY RoutersTyped, FrontRight
  <1>4. /\ Len(RoutesOf(name)) \in Nat /\ DOMAIN RoutesOf(name) = 1..Len(RoutesOf(name))
        /\ \A n \in DOMAIN RoutesOf(name) : RoutesOf(name)[n].guards \in GuardLists
    BY <1>3 DEF Table, Fits
  <1>5. QED
    BY <1>2, <1>3, <1>4

LEMMA FilledMatches ==
  ASSUME NEW r, NEW word \in Words, IsPath(r.path)
  PROVE  Matches(r, r.verb, Filled(r.path, word))
  <1> DEFINE p == Filled(r.path, word)
  <1>1. DOMAIN p = DOMAIN r.path /\ Len(p) = Len(r.path)
    BY DEF Filled, IsPath
  <1>2. \A i \in DOMAIN p : r.path[i] \in Parameters \cup {p[i]}
    BY DEF Filled, Parameters
  <1>3. QED
    BY <1>1, <1>2 DEF Matches

LEMMA ApartNoMatch ==
  ASSUME NEW r, NEW t, NEW word \in Words, IsPath(r.path), IsPath(t.path), Apart(r, t)
  PROVE  ~Matches(r, t.verb, Filled(t.path, word))
  <1> DEFINE p == Filled(t.path, word)
  <1>1. DOMAIN p = DOMAIN t.path /\ Len(p) = Len(t.path)
    BY DEF Filled, IsPath
  <1>2. \A i \in DOMAIN t.path : t.path[i] \notin FreeParameters =>
             p[i] \in {"a UUID", t.path[i]}
    BY DEF Filled
  <1>3. CASE r.verb # t.verb \/ Len(r.path) # Len(t.path)
    BY <1>1, <1>3 DEF Matches
  <1>4. CASE Len(r.path) = Len(t.path)
               /\ \E i \in 1..Len(r.path) : /\ Literal(r.path[i]) /\ r.path[i] # t.path[i]
                                            /\ t.path[i] \notin FreeParameters
    <2>1. PICK i \in 1..Len(r.path) : /\ Literal(r.path[i]) /\ r.path[i] # t.path[i]
                                      /\ t.path[i] \notin FreeParameters
      BY <1>4
    <2>2. i \in DOMAIN p /\ p[i] \in {"a UUID", t.path[i]}
      BY <1>1, <1>2, <1>4, <2>1 DEF IsPath
    <2>3. r.path[i] \notin Parameters \cup {p[i]}
      BY <2>1, <2>2 DEF Literal
    <2>4. QED
      BY <2>2, <2>3 DEF Matches
  <1>5. QED
    BY <1>3, <1>4 DEF Apart, FreeParameters

\* A call matches the route it was written for and none before that.
LEMMA MeantMatches ==
  ASSUME NEW c \in AllCalls
  PROVE  LET table == RoutesOf(c.router) IN
         /\ c.route \in DOMAIN table =>
              /\ Matches(table[c.route], c.verb, c.path)
              /\ \A m \in 1..c.route-1 : ~Matches(table[m], c.verb, c.path)
         /\ c.route \notin DOMAIN table =>
              \A m \in DOMAIN table : ~Matches(table[m], c.verb, c.path)
  <1> DEFINE table == RoutesOf(c.router)
             aims == table \o <<NoRoute>>
  <1>1. PICK name \in DOMAIN Routers, caller \in Callers : c \in Calls(name, caller)
    BY DEF AllCalls
  <1>2. c.router = name
    BY <1>1 DEF Calls
  <1>3. PICK word \in Words : /\ c.route \in DOMAIN aims /\ c.verb = aims[c.route].verb
                              /\ c.path = Filled(aims[c.route].path, word)
    BY <1>1, <1>2 DEF Calls
  <1>4. PICK R : table \in Seq(R)
    BY <1>2, RoutersTyped DEF Table
  <1>5. Orderly(table)
    BY <1>2, RoutersTyped
  <1>6. /\ Len(table) \in Nat /\ DOMAIN table = 1..Len(table)
        /\ DOMAIN aims = 1..Len(table) + 1 /\ aims[Len(table) + 1] = NoRoute
        /\ \A n \in DOMAIN table : aims[n] = table[n]
    BY <1>4
  <1>7. IsPath(NoRoute.path)
    BY DEF IsPath, NoRoute
  <1> HIDE DEF table, aims
  <1>8. ASSUME c.route \in DOMAIN table
        PROVE  /\ Matches(table[c.route], c.verb, c.path)
               /\ \A m \in 1..c.route-1 : ~Matches(table[m], c.verb, c.path)
    <2>1. c.verb = table[c.route].verb /\ c.path = Filled(table[c.route].path, word)
      BY <1>3, <1>6, <1>8
    <2>2. Matches(table[c.route], c.verb, c.path)
      BY <1>5, <1>8, <2>1, FilledMatches DEF Orderly
    <2>3. ASSUME NEW m \in 1..c.route-1 PROVE ~Matches(table[m], c.verb, c.path)
      <3>1. m \in DOMAIN table
        BY <1>6, <1>8
      <3>2. /\ Apart(table[m], table[c.route]) /\ IsPath(table[m].path)
            /\ IsPath(table[c.route].path)
        BY <1>5, <1>8, <3>1 DEF Orderly
      <3>3. QED
        BY <2>1, <3>2, ApartNoMatch
    <2>4. QED
      BY <2>2, <2>3
  <1>9. ASSUME c.route \notin DOMAIN table, NEW m \in DOMAIN table
        PROVE  ~Matches(table[m], c.verb, c.path)
    <2>1. c.verb = NoRoute.verb /\ c.path = Filled(NoRoute.path, word)
      BY <1>3, <1>6, <1>9
    <2>2. Apart(table[m], NoRoute) /\ IsPath(table[m].path)
      BY <1>5, <1>9 DEF Orderly
    <2>3. QED
      BY <1>7, <2>1, <2>2, ApartNoMatch
  <1>10. QED
    BY <1>8, <1>9 DEF table

-------------------------------------------------------------------------------
(* A call on its way.                                                      *)

LEMMA GuardsReply ==
  ASSUME NEW g \in GuardNames
  PROVE  Refusals(g) \subseteq {"400", "401", "403", "429"}
  <1>1. DOMAIN PermissionHolders = {"AUDIT_READ", "SETTINGS_MANAGE"}
    BY DEF PermissionHolders
  <1>2. CASE g \in {"requireStaff", "requireModeration", "requireContent",
                    "AUDIT_READ", "SETTINGS_MANAGE"}
    BY <1>1, <1>2 DEF Refusals, Restricts
  <1>3. CASE g \in {"globalLimit", "authLimit", "otpLimit"}
    BY <1>1, <1>3 DEF Refusals, Restricts
  <1>4. CASE g \in {"parse", "validate", "upload"}
    BY <1>1, <1>4 DEF Refusals, Restricts
  <1>5. CASE g \in {"authenticate", "optionalAuthenticate"}
    BY <1>1, <1>5 DEF Refusals, Restricts
  <1>6. QED
    BY <1>2, <1>3, <1>4, <1>5 DEF GuardNames

\* A call under way is before the routes, at one of them, or past the last.
OnCourse ==
  outcome = "pending" =>
    /\ call \in AllCalls
    /\ \/ layer = 0 /\ guard >= 1
       \/ layer \in DOMAIN RoutesOf(call.router)
       \/ layer = Len(RoutesOf(call.router)) + 1 /\ guard = 0

HttpInv == HttpTypeOK /\ OnCourse

LEMMA HttpStepInv == HttpInv /\ [HttpNext]_httpVars => HttpInv'
  <1> SUFFICES ASSUME HttpInv, [HttpNext]_httpVars PROVE HttpInv'
    OBVIOUS
  <1>t. HttpTypeOK /\ OnCourse /\ guard \in Nat
    BY DEF HttpInv, HttpTypeOK
  <1>p. ASSUME outcome = "pending"
        PROVE  /\ call \in AllCalls /\ call.router \in RouterNames /\ call.caller \in Callers
               /\ Len(RoutesOf(call.router)) \in Nat
               /\ DOMAIN RoutesOf(call.router) = 1..Len(RoutesOf(call.router))
               /\ layer \in 0..Len(RoutesOf(call.router)) + 1
               /\ FrontGuards(call.router) \in GuardLists
               /\ \A n \in DOMAIN RoutesOf(call.router) :
                    RoutesOf(call.router)[n].guards \in GuardLists
               /\ \/ layer = 0 /\ guard >= 1
                  \/ layer \in DOMAIN RoutesOf(call.router)
                  \/ layer = Len(RoutesOf(call.router)) + 1 /\ guard = 0
    BY <1>p, <1>t, CallTyped DEF OnCourse, HttpTypeOK
  <1>r. ASSUME Running
        PROVE  /\ outcome = "pending" /\ Guards \in GuardLists
               /\ guard >= 1
    <2>1. outcome = "pending"
      BY <1>r DEF Running, OnItsWay
    <2>2. CASE layer = 0
      BY <1>p, <2>1, <2>2 DEF Guards
    <2>3. CASE layer # 0
      <3>1. guard > 0 /\ layer \in DOMAIN RoutesOf(call.router)
        BY <1>p, <1>r, <1>t, <2>1, <2>3 DEF Running
      <3>2. QED
        BY <1>p, <1>t, <2>1, <2>3, <3>1 DEF Guards, Tried
    <2>4. QED
      BY <2>1, <2>2, <2>3
  <1>1. ASSUME NEW c \in AllCalls, Accept(c) PROVE HttpInv'
    <2>1. call' = c /\ layer' = 0 /\ guard' = 1 /\ user' = "none" /\ outcome' = "pending"
      BY <1>1 DEF Accept
    <2>2. 0 \in 0..Len(RoutesOf(c.router)) + 1
      BY CallTyped
    <2>3. HttpTypeOK'
      BY <2>1, <2>2 DEF HttpTypeOK, RoutesOf
    <2>4. OnCourse'
      BY <2>1 DEF OnCourse
    <2>5. QED
      BY <2>3, <2>4 DEF HttpInv
  <1>2. ASSUME PassGuard PROVE HttpInv'
    <2>1. /\ Running /\ guard' = guard + 1 /\ UNCHANGED <<call, layer, outcome>>
          /\ \/ user' = user
             \/ call.caller \notin Anonymous /\ user' = call.caller
      BY <1>2 DEF PassGuard
    <2>2. user' \in ALL_ROLES \cup {"none"}
      BY <1>p, <1>r, <1>t, <2>1 DEF HttpTypeOK, Callers
    <2>3. guard' \in Nat /\ guard' >= 1
      BY <1>t, <2>1
    <2>4. HttpTypeOK'
      BY <1>t, <2>1, <2>2, <2>3 DEF HttpTypeOK, RoutesOf
    <2>5. layer # Len(RoutesOf(call.router)) + 1 \/ layer = 0
      BY <1>p, <1>r, <2>1
    <2>6. OnCourse'
      BY <1>p, <1>r, <2>1, <2>3, <2>5 DEF OnCourse, RoutesOf
    <2>7. QED
      BY <2>4, <2>6 DEF HttpInv
  <1>3. ASSUME RefuseCall PROVE HttpInv'
    <2>1. /\ Running /\ guard =< Len(Guards) /\ outcome' \in Refusals(Guards[guard])
          /\ UNCHANGED <<call, layer, guard, user>>
      BY <1>3 DEF RefuseCall
    <2>2. Guards[guard] \in GuardNames
      <3>1. Guards \in Seq(GuardNames) /\ guard \in 1..Len(Guards)
        BY <1>r, <1>t, <2>1 DEF GuardLists
      <3>2. QED
        BY <3>1
    <2>3. outcome' \in {"400", "401", "403", "429"}
      BY <2>1, <2>2, GuardsReply
    <2>4. HttpTypeOK'
      BY <1>p, <1>r, <1>t, <2>1, <2>3 DEF HttpTypeOK, RoutesOf
    <2>5. QED
      BY <2>3, <2>4 DEF HttpInv, OnCourse
  <1>4. ASSUME EnterRoutes PROVE HttpInv'
    <2>1. /\ outcome = "pending" /\ layer' = 1 /\ guard' = 0
          /\ UNCHANGED <<call, user, outcome>>
      BY <1>4 DEF EnterRoutes, OnItsWay
    <2>2. 1 \in 0..Len(RoutesOf(call.router)) + 1
          /\ (1 \in DOMAIN RoutesOf(call.router) \/ 1 = Len(RoutesOf(call.router)) + 1)
      BY <1>p, <2>1
    <2>3. HttpTypeOK'
      BY <1>t, <2>1, <2>2 DEF HttpTypeOK, RoutesOf
    <2>4. OnCourse'
      BY <1>p, <2>1, <2>2 DEF OnCourse, RoutesOf
    <2>5. QED
      BY <2>3, <2>4 DEF HttpInv
  <1>5. ASSUME TryRoute PROVE HttpInv'
    <2>1. /\ outcome = "pending" /\ layer \in DOMAIN RoutesOf(call.router) /\ guard = 0
          /\ \/ guard' = 1 /\ layer' = layer
             \/ layer' = layer + 1 /\ guard' = guard
          /\ UNCHANGED <<call, user, outcome>>
      BY <1>5 DEF TryRoute, OnItsWay
    <2>2. /\ layer' \in 0..Len(RoutesOf(call.router)) + 1 /\ guard' \in Nat
          /\ \/ layer' \in DOMAIN RoutesOf(call.router)
             \/ layer' = Len(RoutesOf(call.router)) + 1 /\ guard' = 0
      BY <1>p, <2>1
    <2>3. HttpTypeOK'
      BY <1>t, <2>1, <2>2 DEF HttpTypeOK, RoutesOf
    <2>4. OnCourse'
      BY <1>p, <2>1, <2>2 DEF OnCourse, RoutesOf
    <2>5. QED
      BY <2>3, <2>4 DEF HttpInv
  <1>6. ASSUME HandleCall \/ NotFound PROVE HttpInv'
    <2>1. /\ outcome = "pending" /\ outcome' \in {"handled", "404"}
          /\ UNCHANGED <<call, layer, guard, user>>
      BY <1>6 DEF HandleCall, NotFound, Running, OnItsWay
    <2>2. HttpTypeOK'
      BY <1>p, <1>t, <2>1 DEF HttpTypeOK, RoutesOf
    <2>3. QED
      BY <2>1, <2>2 DEF HttpInv, OnCourse
  <1>7. CASE UNCHANGED httpVars
    BY <1>t, <1>7 DEF httpVars, HttpInv, HttpTypeOK, OnCourse, RoutesOf
  <1>8. QED
    BY <1>1, <1>2, <1>3, <1>4, <1>5, <1>6, <1>7 DEF HttpNext

\* What a guard that a call has passed says of its caller.
Satisfied(g) ==
  /\ g = "authenticate" => user = call.caller /\ call.caller \in ALL_ROLES
  /\ g \in Restricting => call.caller \in Allowed(g)

GuardsPassed ==
  /\ user # "none" => user = call.caller /\ call.caller \in ALL_ROLES
  /\ layer = 0 => \A i \in DOMAIN FrontGuards(call.router) : i < guard =>
       Satisfied(FrontGuards(call.router)[i])
  /\ layer > 0 => \A g \in GuardsIn(FrontGuards(call.router)) : Satisfied(g)
  /\ layer > 0 /\ guard > 0 =>
       \A i \in DOMAIN Tried.guards : i < guard => Satisfied(Tried.guards[i])

\* The routes before the one being tried did not match, and one whose guards
\* run did.
RoutesTried ==
  layer > 0 =>
    /\ \A m \in 1..layer-1 : ~Matches(RoutesOf(call.router)[m], call.verb, call.path)
    /\ guard > 0 => Matches(Tried, call.verb, call.path)

UnderWay == outcome = "pending" => GuardsPassed /\ RoutesTried

\* What is known of a call under way, from the tables.
LEMMA CallPending ==
  ASSUME HttpInv, outcome = "pending"
  PROVE  /\ call \in AllCalls /\ call.router \in RouterNames /\ call.caller \in Callers
         /\ Len(RoutesOf(call.router)) \in Nat /\ guard \in Nat /\ layer \in Nat
         /\ DOMAIN RoutesOf(call.router) = 1..Len(RoutesOf(call.router))
         /\ FrontGuards(call.router) \in GuardLists
         /\ \A n \in DOMAIN RoutesOf(call.router) :
              RoutesOf(call.router)[n].guards \in GuardLists
         /\ \/ layer = 0 /\ guard >= 1
            \/ layer \in DOMAIN RoutesOf(call.router)
            \/ layer = Len(RoutesOf(call.router)) + 1 /\ guard = 0
  <1>1. /\ call \in AllCalls /\ guard \in Nat
        /\ \/ layer = 0 /\ guard >= 1
           \/ layer \in DOMAIN RoutesOf(call.router)
           \/ layer = Len(RoutesOf(call.router)) + 1 /\ guard = 0
    BY DEF HttpInv, HttpTypeOK, OnCourse
  <1>2. /\ call.router \in RouterNames /\ call.caller \in Callers
        /\ Len(RoutesOf(call.router)) \in Nat
        /\ DOMAIN RoutesOf(call.router) = 1..Len(RoutesOf(call.router))
        /\ FrontGuards(call.router) \in GuardLists
        /\ \A n \in DOMAIN RoutesOf(call.router) :
             RoutesOf(call.router)[n].guards \in GuardLists
    BY <1>1, CallTyped
  <1>3. layer \in Nat
    BY <1>1, <1>2
  <1>4. QED
    BY <1>1, <1>2, <1>3

\* The guards that run are those before the routes or those of a route.
LEMMA GuardRunning ==
  ASSUME HttpInv, Running, guard =< Len(Guards)
  PROVE  /\ outcome = "pending" /\ guard \in DOMAIN Guards
         /\ Guards \in GuardLists /\ Guards[guard] \in GuardNames
         /\ \/ layer = 0 /\ Guards = FrontGuards(call.router)
            \/ /\ layer \in DOMAIN RoutesOf(call.router) /\ layer > 0 /\ guard > 0
               /\ Guards = Tried.guards
  <1>1. outcome = "pending" /\ (layer = 0 \/ guard > 0)
    BY DEF Running, OnItsWay
  <1>2. \/ layer = 0 /\ Guards = FrontGuards(call.router) /\ guard >= 1
        \/ /\ layer \in DOMAIN RoutesOf(call.router) /\ layer > 0 /\ guard > 0
           /\ Guards = Tried.guards
    BY <1>1, CallPending DEF Guards
  <1>3. Guards \in GuardLists /\ guard \in Nat /\ guard >= 1
    BY <1>1, <1>2, CallPending DEF Tried
  <1>4. guard \in DOMAIN Guards /\ Guards[guard] \in GuardNames
    BY <1>3 DEF GuardLists
  <1>5. QED
    BY <1>1, <1>2, <1>3, <1>4

LEMMA RestrictingGuards ==
  \A g : Restricts(g) <=> g \in Restricting
  <1>1. DOMAIN PermissionHolders = {"AUDIT_READ", "SETTINGS_MANAGE"}
    BY DEF PermissionHolders
  <1>2. QED
    BY <1>1 DEF Restricts, Restricting

LEMMA RefusalsOf ==
  /\ Refusals("authenticate") = IF call.caller \in Anonymous THEN {"401"} ELSE {}
  /\ \A g \in Restricting :
       Refusals(g) = IF user = "none" THEN {"401"}
                     ELSE IF user \notin Allowed(g) THEN {"403"} ELSE {}
  /\ \A g \in GuardNames \ (Restricting \cup {"authenticate"}) :
       Refusals(g) \subseteq {"400", "429"}
  <1>1. Refusals("authenticate") = IF call.caller \in Anonymous THEN {"401"} ELSE {}
    <2>1. DOMAIN PermissionHolders = {"AUDIT_READ", "SETTINGS_MANAGE"}
      BY DEF PermissionHolders
    <2>2. ~Restricts("authenticate")
      BY <2>1 DEF Restricts
    <2>3. QED
      BY <2>2 DEF Refusals
  <1>2. ASSUME NEW g \in Restricting
        PROVE  Refusals(g) = IF user = "none" THEN {"401"}
                             ELSE IF user \notin Allowed(g) THEN {"403"} ELSE {}
    <2>1. Restricts(g) /\ g # "authenticate"
      BY RestrictingGuards DEF Restricting
    <2>2. g \notin {"globalLimit", "authLimit", "otpLimit", "parse", "validate", "upload",
                    "optionalAuthenticate"}
      BY DEF Restricting
    <2>3. QED
      BY <2>1, <2>2 DEF Refusals
  <1>3. ASSUME NEW g \in GuardNames \ (Restricting \cup {"authenticate"})
        PROVE  Refusals(g) \subseteq {"400", "429"}
    <2>1. ~Restricts(g) /\ g # "authenticate"
      BY RestrictingGuards
    <2>2. g \in {"globalLimit", "authLimit", "otpLimit", "parse", "validate", "upload",
                 "optionalAuthenticate"}
      BY DEF GuardNames, Restricting
    <2>3. QED
      BY <2>1, <2>2 DEF Refusals
  <1>4. QED
    BY <1>1, <1>2, <1>3

LEMMA RolesApart ==
  /\ ALL_ROLES \cap Anonymous = {} /\ "none" \notin ALL_ROLES
  /\ Callers = ALL_ROLES \cup Anonymous
  BY DEF Callers, ALL_ROLES, Anonymous, MODERATION_ROLES, CONTENT_MANAGEMENT_ROLES,
         STAFF_ROLES

\* A guard that the call passes is satisfied, and those before it stay so.
LEMMA PassingSatisfies ==
  ASSUME HttpInv, GuardsPassed, PassGuard
  PROVE  /\ \A g : g = Guards[guard] => Satisfied(g)'
         /\ \A g : Satisfied(g) => Satisfied(g)'
         /\ user' # "none" => user' = call.caller /\ call.caller \in ALL_ROLES
         /\ UNCHANGED <<call, layer, outcome>> /\ guard' = guard + 1
  <1>1. /\ Running /\ guard =< Len(Guards) /\ Passes(Guards[guard])
        /\ user' = IF /\ Guards[guard] \in {"authenticate", "optionalAuthenticate"}
                      /\ call.caller \notin Anonymous
                     THEN call.caller ELSE user
        /\ guard' = guard + 1 /\ UNCHANGED <<call, layer, outcome>>
    BY DEF PassGuard
  <1>2. /\ user # "none" => user = call.caller /\ call.caller \in ALL_ROLES
        /\ call.caller \in Callers
    BY <1>1, GuardRunning, CallPending DEF GuardsPassed
  <1>3. user' # "none" => user' = call.caller /\ call.caller \in ALL_ROLES
    BY <1>1, <1>2, RolesApart
  <1>4. ASSUME NEW g, Satisfied(g) PROVE Satisfied(g)'
    BY <1>1, <1>4 DEF Satisfied, Allowed
  <1>5. ASSUME NEW g, g = Guards[guard] PROVE Satisfied(g)'
    <2>1. CASE g = "authenticate"
      <3>1. Refusals(g) = {}
        BY <1>1, <1>5, <2>1 DEF Passes, Certain
      <3>2. call.caller \notin Anonymous
        BY <2>1, <3>1, RefusalsOf
      <3>3. user' = call.caller /\ call.caller \in ALL_ROLES /\ call' = call
        BY <1>1, <1>2, <1>5, <2>1, <3>2, RolesApart
      <3>4. g \notin Restricting
        BY <2>1 DEF Restricting
      <3>5. QED
        BY <2>1, <3>3, <3>4 DEF Satisfied
    <2>2. CASE g \in Restricting
      <3>1. Refusals(g) = {} /\ Restricts(g) /\ g # "authenticate"
        BY <1>1, <1>5, <2>2, RestrictingGuards DEF Passes, Certain, Restricting
      <3>2. user # "none" /\ user \in Allowed(g)
        BY <2>2, <3>1, RefusalsOf
      <3>3. call.caller \in Allowed(g) /\ call' = call
        BY <1>1, <1>2, <3>2
      <3>4. QED
        BY <3>1, <3>3 DEF Satisfied, Allowed
    <2>3. CASE g # "authenticate" /\ g \notin Restricting
      BY <2>3 DEF Satisfied
    <2>4. QED
      BY <2>1, <2>2, <2>3
  <1>6. QED
    BY <1>1, <1>3, <1>4, <1>5

LEMMA StepUnderWay ==
  ASSUME HttpInv, UnderWay, [HttpNext]_httpVars
  PROVE  UnderWay'
  <1>1. ASSUME NEW c \in AllCalls, Accept(c) PROVE UnderWay'
    <2>1. layer' = 0 /\ guard' = 1 /\ user' = "none" /\ call' = c
      BY <1>1 DEF Accept
    <2>2. \A i \in DOMAIN FrontGuards(c.router) : ~(i < 1)
      BY CallTyped DEF GuardLists
    <2>3. \A i \in DOMAIN FrontGuards(call'.router) : ~(i < guard')
      BY <2>1, <2>2
    <2>4. ~(layer' > 0)
      BY <2>1
    <2>5. GuardsPassed'
      BY <2>1, <2>3, <2>4 DEF GuardsPassed
    <2>6. QED
      BY <2>4, <2>5 DEF UnderWay, RoutesTried
  <1>2. ASSUME PassGuard PROVE UnderWay'
    <2>1. /\ outcome = "pending" /\ guard =< Len(Guards) /\ Running
      BY <1>2 DEF PassGuard, Running, OnItsWay
    <2>2. GuardsPassed /\ RoutesTried
      BY <2>1 DEF UnderWay
    <2>3. /\ \A g : g = Guards[guard] => Satisfied(g)'
          /\ \A g : Satisfied(g) => Satisfied(g)'
          /\ user' # "none" => user' = call.caller /\ call.caller \in ALL_ROLES
          /\ call' = call /\ layer' = layer /\ outcome' = outcome /\ guard' = guard + 1
      BY <1>2, <2>2, PassingSatisfies
    <2>4. /\ guard \in Nat /\ layer \in Nat
          /\ \/ layer = 0 /\ Guards = FrontGuards(call.router)
             \/ layer > 0 /\ guard > 0 /\ Guards = Tried.guards
          /\ Guards \in GuardLists
      BY <2>1, GuardRunning, CallPending
    <2>5. \A i \in DOMAIN Guards : i \in Nat
      BY <2>4 DEF GuardLists
    <2>6. Tried' = Tried /\ FrontGuards(call'.router) = FrontGuards(call.router)
      BY <2>3 DEF Tried, RoutesOf
    <2>7. ASSUME \A i \in DOMAIN Guards : i < guard => Satisfied(Guards[i]),
                 NEW i \in DOMAIN Guards, i < guard + 1, NEW g, g = Guards[i]
          PROVE  Satisfied(g)'
      <3>1. i < guard \/ i = guard
        BY <2>4, <2>5, <2>7
      <3>2. QED
        BY <2>3, <2>7, <3>1
    <2>8. CASE layer = 0 /\ Guards = FrontGuards(call.router)
      <3>1. \A i \in DOMAIN Guards : i < guard => Satisfied(Guards[i])
        BY <2>2, <2>8 DEF GuardsPassed
      <3>2. \A i \in DOMAIN Guards : \A g : i < guard + 1 /\ g = Guards[i] => Satisfied(g)'
        BY <2>7, <3>1
      <3>3. ASSUME NEW i \in DOMAIN FrontGuards(call.router), i < guard',
                   NEW g, g = FrontGuards(call.router)[i]
            PROVE  Satisfied(g)'
        BY <2>3, <2>8, <3>2, <3>3
      <3>4. GuardsPassed'
        BY <2>3, <2>8, <3>3 DEF GuardsPassed
      <3>5. QED
        BY <2>3, <2>8, <3>4 DEF UnderWay, RoutesTried
    <2>9. CASE layer > 0 /\ guard > 0 /\ Guards = Tried.guards
      <3>1. \A i \in DOMAIN Guards : i < guard => Satisfied(Guards[i])
        BY <2>2, <2>9 DEF GuardsPassed
      <3>2. \A i \in DOMAIN Guards : \A g : i < guard + 1 /\ g = Guards[i] => Satisfied(g)'
        BY <2>7, <3>1
      <3>3. \A g \in GuardsIn(FrontGuards(call.router)) : Satisfied(g)'
        BY <2>2, <2>3, <2>9 DEF GuardsPassed
      <3>4. layer' # 0
        BY <2>3, <2>4, <2>9
      <3>5. GuardsPassed'
        BY <2>3, <2>6, <2>9, <3>2, <3>3, <3>4 DEF GuardsPassed
      <3>6. RoutesTried'
        BY <2>2, <2>3, <2>6, <2>9 DEF RoutesTried, RoutesOf
      <3>7. QED
        BY <3>5, <3>6 DEF UnderWay
    <2>10. QED
      BY <2>4, <2>8, <2>9
  <1>3. ASSUME RefuseCall PROVE UnderWay'
    <2>1. Running /\ guard =< Len(Guards) /\ outcome' \in Refusals(Guards[guard])
      BY <1>3 DEF RefuseCall
    <2>2. outcome' \in {"400", "401", "403", "429"}
      BY <2>1, GuardRunning, GuardsReply
    <2>3. QED
      BY <2>2 DEF UnderWay
  <1>4. ASSUME EnterRoutes PROVE UnderWay'
    <2>1. /\ outcome = "pending" /\ layer = 0 /\ guard > Len(FrontGuards(call.router))
          /\ layer' = 1 /\ guard' = 0 /\ UNCHANGED <<call, user, outcome>>
      BY <1>4 DEF EnterRoutes, OnItsWay, Guards
    <2>2. GuardsPassed
      BY <2>1 DEF UnderWay
    <2>3. \A i \in DOMAIN FrontGuards(call.router) : i < guard
      <3>1. FrontGuards(call.router) \in GuardLists /\ guard \in Nat
        BY <2>1, CallPending
      <3>2. QED
        BY <2>1, <3>1 DEF GuardLists
    <2>4. \A g \in GuardsIn(FrontGuards(call.router)) : Satisfied(g)
      BY <2>1, <2>2, <2>3 DEF GuardsPassed, GuardsIn
    <2>5. \A g : Satisfied(g) => Satisfied(g)'
      BY <2>1 DEF Satisfied, Allowed
    <2>6. GuardsPassed'
      BY <2>1, <2>2, <2>4, <2>5 DEF GuardsPassed
    <2>7. QED
      BY <2>1, <2>6 DEF UnderWay, RoutesTried
  <1>5. ASSUME TryRoute PROVE UnderWay'
    <2>1. /\ outcome = "pending" /\ layer \in DOMAIN RoutesOf(call.router) /\ guard = 0
          /\ \/ /\ Matches(Tried, call.verb, call.path)
                /\ guard' = 1 /\ layer' = layer
             \/ /\ ~Matches(Tried, call.verb, call.path)
                /\ layer' = layer + 1 /\ guard' = guard
          /\ UNCHANGED <<call, user, outcome>>
      BY <1>5 DEF TryRoute, OnItsWay
    <2>2. GuardsPassed /\ RoutesTried /\ layer \in Nat /\ layer > 0
      BY <2>1, CallPending DEF UnderWay
    <2>3. \A g : Satisfied(g) => Satisfied(g)'
      BY <2>1 DEF Satisfied, Allowed
    <2>4. layer' # 0 /\ layer' > 0 /\ layer' \in Nat
      BY <2>1, <2>2
    <2>5. CASE Matches(Tried, call.verb, call.path) /\ guard' = 1 /\ layer' = layer
      <3>1. Tried' = Tried /\ layer \in DOMAIN RoutesOf(call.router)
        BY <2>1, <2>5 DEF Tried, RoutesOf
      <3>2. \A i \in DOMAIN Tried.guards : ~(i < 1)
        <4>1. Tried.guards \in GuardLists
          BY <2>1, CallPending DEF Tried
        <4>2. QED
          BY <4>1 DEF GuardLists
      <3>3. GuardsPassed'
        BY <2>1, <2>2, <2>3, <2>4, <2>5, <3>1, <3>2 DEF GuardsPassed
      <3>4. RoutesTried'
        BY <2>1, <2>2, <2>5, <3>1 DEF RoutesTried, RoutesOf
      <3>5. QED
        BY <3>3, <3>4 DEF UnderWay
    <2>6. CASE ~Matches(Tried, call.verb, call.path) /\ layer' = layer + 1 /\ guard' = guard
      <3>1. GuardsPassed'
        BY <2>1, <2>2, <2>3, <2>4, <2>6 DEF GuardsPassed
      <3>2. \A m \in 1..(layer + 1)-1 : m \in 1..layer-1 \/ m = layer
        BY <2>2
      <3>3. RoutesTried'
        BY <2>1, <2>2, <2>6, <3>2 DEF RoutesTried, RoutesOf, Tried
      <3>4. QED
        BY <3>1, <3>3 DEF UnderWay
    <2>7. QED
      BY <2>1, <2>5, <2>6
  <1>6. ASSUME HandleCall \/ NotFound PROVE UnderWay'
    <2>1. outcome' \in {"handled", "404"}
      BY <1>6 DEF HandleCall, NotFound
    <2>2. QED
      BY <2>1 DEF UnderWay
  <1>7. CASE UNCHANGED httpVars
    BY <1>7 DEF httpVars, UnderWay, GuardsPassed, RoutesTried, Satisfied, Allowed, Tried,
                RoutesOf
  <1>8. QED
    BY <1>1, <1>2, <1>3, <1>4, <1>5, <1>6, <1>7 DEF HttpNext

\* A route whose guards run is the one the call was written for.
LEMMA TriedIsMeant ==
  ASSUME HttpInv, UnderWay, outcome = "pending",
         layer \in DOMAIN RoutesOf(call.router), guard > 0
  PROVE  layer = call.route /\ IsRoute
  <1> DEFINE table == RoutesOf(call.router)
  <1>1. /\ call \in AllCalls /\ DOMAIN table = 1..Len(table) /\ Len(table) \in Nat
        /\ layer \in 1..Len(table) /\ layer > 0
    BY CallPending
  <1>2. /\ Matches(table[layer], call.verb, call.path)
        /\ \A m \in 1..layer-1 : ~Matches(table[m], call.verb, call.path)
    BY <1>1 DEF UnderWay, RoutesTried, Tried
  <1>3. call.route \in DOMAIN table
    BY <1>1, <1>2, MeantMatches
  <1>4. /\ Matches(table[call.route], call.verb, call.path)
        /\ \A m \in 1..call.route-1 : ~Matches(table[m], call.verb, call.path)
    BY <1>1, <1>3, MeantMatches
  <1>5. ~(layer < call.route) /\ ~(call.route < layer)
    BY <1>1, <1>2, <1>3, <1>4
  <1>6. QED
    BY <1>1, <1>3, <1>5 DEF IsRoute

\* What the tables say of the route a call was written for.
LEMMA MeantFits ==
  ASSUME HttpInv, outcome = "pending", IsRoute
  PROVE  Fits(Routers[call.router].use, Meant.guards, Meant.doc)
  BY CallPending, RoutersTyped DEF IsRoute, Meant, Table

LEMMA BarAdmits ==
  ASSUME NEW doc \in ByRole \cup {Secured}
  PROVE  /\ DocumentedCallers(doc) \subseteq ALL_ROLES
         /\ doc = Secured => DocumentedCallers(doc) = ALL_ROLES /\ Bar(doc) = "authenticate"
         /\ doc \in ByRole => /\ Bar(doc) \in Restricting
                              /\ DocumentedCallers(doc) = Allowed(Bar(doc))
  <1>1. DocumentedCallers(Secured) = ALL_ROLES /\ Bar(Secured) = "authenticate"
    BY DEF DocumentedCallers, Bar, Secured, StaffOnly, AuthorOnly, ModeratorOnly
  <1>2. /\ DocumentedCallers(StaffOnly) = STAFF_ROLES /\ Bar(StaffOnly) = "requireStaff"
        /\ DocumentedCallers(AuthorOnly) = CONTENT_MANAGEMENT_ROLES
        /\ Bar(AuthorOnly) = "requireContent"
        /\ DocumentedCallers(ModeratorOnly) = MODERATION_ROLES
        /\ Bar(ModeratorOnly) = "requireModeration"
    BY DEF DocumentedCallers, Bar, Secured, StaffOnly, AuthorOnly, ModeratorOnly
  <1>3. /\ Allowed("requireStaff") = STAFF_ROLES
        /\ Allowed("requireContent") = CONTENT_MANAGEMENT_ROLES
        /\ Allowed("requireModeration") = MODERATION_ROLES
    <2>1. /\ DOMAIN PermissionHolders = {"AUDIT_READ", "SETTINGS_MANAGE"}
          /\ "requireStaff" \notin DOMAIN PermissionHolders
          /\ "requireContent" \notin DOMAIN PermissionHolders
          /\ "requireModeration" \notin DOMAIN PermissionHolders
      BY DEF PermissionHolders
    <2>2. Allowed("requireStaff") = STAFF_ROLES
      BY <2>1 DEF Allowed
    <2>3. Allowed("requireContent") = CONTENT_MANAGEMENT_ROLES
      BY <2>1 DEF Allowed
    <2>4. Allowed("requireModeration") = MODERATION_ROLES
      BY <2>1 DEF Allowed
    <2>5. QED
      BY <2>2, <2>3, <2>4
  <1>4. /\ STAFF_ROLES \subseteq ALL_ROLES /\ CONTENT_MANAGEMENT_ROLES \subseteq ALL_ROLES
        /\ MODERATION_ROLES \subseteq ALL_ROLES
    BY DEF ALL_ROLES, MODERATION_ROLES, CONTENT_MANAGEMENT_ROLES
  <1>5. Secured \notin ByRole
    BY DEF ByRole, Secured, StaffOnly, AuthorOnly, ModeratorOnly
  <1>6. CASE doc = Secured
    BY <1>1, <1>5, <1>6
  <1>7. CASE doc \in ByRole
    BY <1>2, <1>3, <1>4, <1>5, <1>7 DEF ByRole, Restricting
  <1>8. QED
    BY <1>6, <1>7

\* Documented for everyone: no guard of such a route asks for a token.
LEMMA OpenToAll ==
  ASSUME NEW doc \in {Public, NoDoc}
  PROVE  DocumentedCallers(doc) = Callers /\ doc \notin ByRole \cup {Secured}
  BY DEF DocumentedCallers, ByRole, Public, NoDoc, Secured, StaffOnly, AuthorOnly,
         ModeratorOnly

LEMMA HandledByItsOwn ==
  ASSUME HttpInv, UnderWay, HandleCall
  PROVE  CallersAsDocumented'
  <1>1. /\ outcome = "pending" /\ (layer = 0 \/ guard > 0) /\ layer > 0
        /\ guard > Len(Guards) /\ outcome' = "handled"
        /\ call' = call /\ layer' = layer
    BY DEF HandleCall, Running, OnItsWay
  <1>2. layer \in DOMAIN RoutesOf(call.router) /\ guard > 0 /\ guard \in Nat
    BY <1>1, CallPending
  <1>3. layer = call.route /\ IsRoute /\ Tried = Meant
    BY <1>1, <1>2, TriedIsMeant DEF Tried, Meant
  <1>4. /\ \A g \in GuardsIn(FrontGuards(call.router)) : Satisfied(g)
        /\ \A i \in DOMAIN Tried.guards : i < guard => Satisfied(Tried.guards[i])
    BY <1>1, <1>2 DEF UnderWay, GuardsPassed
  <1>5. \A i \in DOMAIN Tried.guards : i < guard
    <2>1. Tried.guards \in GuardLists /\ guard > Len(Tried.guards)
      BY <1>1, <1>2, CallPending DEF Guards, Tried
    <2>2. QED
      BY <1>2, <2>1 DEF GuardLists
  <1>6. \A g \in GuardsIn(Routers[call.router].use) \cup GuardsIn(Meant.guards) :
          Satisfied(g)
    BY <1>1, <1>3, <1>4, <1>5, CallPending, FrontRight DEF GuardsIn
  <1>7. Fits(Routers[call.router].use, Meant.guards, Meant.doc)
    BY <1>1, <1>3, MeantFits
  <1>8. call.caller \in DocumentedCallers(Meant.doc)
    <2>1. CASE Meant.doc \in {Public, NoDoc}
      BY <1>1, <2>1, CallPending, OpenToAll
    <2>2. CASE Meant.doc \in ByRole \cup {Secured}
      <3>1. Satisfied(Bar(Meant.doc))
        BY <1>6, <1>7, <2>2 DEF Fits
      <3>2. QED
        BY <2>2, <3>1, BarAdmits DEF Satisfied
    <2>3. QED
      BY <1>7, <2>1, <2>2 DEF Fits
  <1>9. Meant' = Meant
    BY <1>1 DEF Meant, RoutesOf
  <1>10. QED
    BY <1>1, <1>3, <1>8, <1>9 DEF CallersAsDocumented

LEMMA RefusedAsDocumented ==
  ASSUME HttpInv, UnderWay, RefuseCall
  PROVE  CallersAsDocumented'
  <1>1. /\ Running /\ guard =< Len(Guards) /\ outcome' \in Refusals(Guards[guard])
        /\ UNCHANGED <<call, layer, guard, user>>
    BY DEF RefuseCall
  <1>2. /\ outcome = "pending" /\ guard \in DOMAIN Guards
        /\ Guards \in GuardLists /\ Guards[guard] \in GuardNames
        /\ \/ layer = 0 /\ Guards = FrontGuards(call.router)
           \/ /\ layer \in DOMAIN RoutesOf(call.router) /\ layer > 0 /\ guard > 0
              /\ Guards = Tried.guards
    BY <1>1, GuardRunning
  <1>3. GuardsPassed /\ call.router \in RouterNames /\ call.caller \in Callers
    BY <1>2, CallPending DEF UnderWay
  <1>4. outcome' \in {"400", "401", "403", "429"}
    BY <1>1, <1>2, GuardsReply
  <1> DEFINE g == Guards[guard]
             use == Routers[call.router].use
  <1>5. ASSUME outcome' \in {"401", "403"}, IsRoute, Meant.doc # NoDoc,
               outcome' = "401" \/ Meant.doc # Secured
        PROVE  call.caller \notin DocumentedCallers(Meant.doc)
    <2>1. Fits(use, Meant.guards, Meant.doc)
      BY <1>2, <1>5, MeantFits
    <2>2. /\ g \in Restricting \cup {"authenticate"}
          /\ g = "authenticate" => call.caller \in Anonymous
          /\ g \in Restricting => \/ outcome' = "401" /\ user = "none"
                                  \/ /\ outcome' = "403" /\ user # "none"
                                     /\ user \notin Allowed(g)
      BY <1>1, <1>2, <1>5, RefusalsOf
    <2>3. g \in GuardsIn(use) \cup GuardsIn(Meant.guards)
      <3>1. CASE layer = 0 /\ Guards = FrontGuards(call.router)
        <4>1. g \in GuardsIn(FrontGuards(call.router))
          BY <1>2, <3>1 DEF GuardsIn
        <4>2. g \notin {"parse", "globalLimit"}
          BY <2>2 DEF Restricting
        <4>3. QED
          BY <1>3, <4>1, <4>2, FrontRight
      <3>2. CASE /\ layer \in DOMAIN RoutesOf(call.router) /\ layer > 0 /\ guard > 0
                 /\ Guards = Tried.guards
        <4>1. Tried = Meant
          BY <1>2, <3>2, TriedIsMeant DEF Tried, Meant
        <4>2. QED
          BY <1>2, <3>2, <4>1 DEF GuardsIn
      <3>3. QED
        BY <1>2, <3>1, <3>2
    <2>4. Meant.doc \in ByRole \cup {Secured}
      <3>1. Meant.doc # Public
        BY <2>1, <2>2, <2>3 DEF Fits
      <3>2. QED
        BY <1>5, <2>1, <3>1 DEF Fits
    <2>5. CASE g = "authenticate"
      BY <2>2, <2>4, <2>5, BarAdmits, RolesApart
    <2>6. CASE g \in Restricting
      <3>1. user # "none"
        <4>1. CASE layer = 0 /\ Guards = FrontGuards(call.router)
          <5>1. PICK j \in 1..guard-1 : j \in DOMAIN Guards /\ Guards[j] = "authenticate"
            BY <1>2, <1>3, <2>6, <4>1, FrontRight
          <5>2. Satisfied("authenticate")
            <6>1. j < guard
              BY <1>2, <5>1, CallPending
            <6>2. QED
              BY <1>3, <4>1, <5>1, <6>1 DEF GuardsPassed
          <5>3. QED
            BY <5>2, RolesApart DEF Satisfied
        <4>2. CASE /\ layer \in DOMAIN RoutesOf(call.router) /\ layer > 0 /\ guard > 0
                   /\ Guards = Tried.guards
          <5>1. Tried = Meant
            BY <1>2, <4>2, TriedIsMeant DEF Tried, Meant
          <5>2. SignsInFirst(use) \/ SignsInFirst(Meant.guards)
            BY <1>2, <2>1, <2>6, <4>2, <5>1 DEF Fits, GuardsIn
          <5>3. Satisfied("authenticate")
            <6>1. CASE SignsInFirst(use)
              <7>1. "authenticate" \in GuardsIn(use)
                BY <6>1 DEF SignsInFirst, GuardsIn
              <7>2. QED
                BY <1>3, <4>2, <7>1, FrontRight DEF GuardsPassed
            <6>2. CASE SignsInFirst(Meant.guards)
              <7>1. 1 \in DOMAIN Guards /\ Guards[1] = "authenticate"
                BY <4>2, <5>1, <6>2 DEF SignsInFirst
              <7>2. guard # 1 /\ guard \in Nat /\ guard > 0
                BY <1>2, <2>6, <4>2, <7>1, CallPending DEF Restricting
              <7>3. 1 < guard
                BY <7>2
              <7>4. QED
                BY <1>3, <4>2, <7>1, <7>3 DEF GuardsPassed
            <6>3. QED
              BY <5>2, <6>1, <6>2
          <5>4. QED
            BY <5>3, RolesApart DEF Satisfied
        <4>3. QED
          BY <1>2, <4>1, <4>2
      <3>2. outcome' = "403" /\ call.caller \notin Allowed(g)
        BY <1>3, <2>2, <2>6, <3>1 DEF GuardsPassed
      <3>3. Meant.doc \in ByRole /\ g = Bar(Meant.doc)
        <4>1. Meant.doc \in ByRole
          BY <1>5, <2>4, <3>2
        <4>2. QED
          BY <2>1, <2>3, <2>6, <4>1 DEF Fits
      <3>4. QED
        BY <3>2, <3>3, BarAdmits
    <2>7. QED
      BY <2>2, <2>5, <2>6
  <1>6. Meant' = Meant /\ IsRoute' = IsRoute /\ call' = call
    BY <1>1 DEF Meant, IsRoute, RoutesOf
  <1>7. QED
    BY <1>4, <1>5, <1>6 DEF CallersAsDocumented

LEMMA NotFoundIsNoRoute ==
  ASSUME HttpInv, UnderWay, NotFound
  PROVE  CallersAsDocumented'
  <1>1. /\ outcome = "pending" /\ layer > Len(RoutesOf(call.router))
        /\ outcome' = "404" /\ call' = call
    BY DEF NotFound, OnItsWay
  <1>2. /\ call \in AllCalls /\ Len(RoutesOf(call.router)) \in Nat /\ layer \in Nat
        /\ DOMAIN RoutesOf(call.router) = 1..Len(RoutesOf(call.router))
    BY <1>1, CallPending
  <1>3. \A m \in 1..layer-1 : ~Matches(RoutesOf(call.router)[m], call.verb, call.path)
    BY <1>1, <1>2 DEF UnderWay, RoutesTried
  <1>4. ~IsRoute
    <2>1. ASSUME call.route \in DOMAIN RoutesOf(call.router) PROVE FALSE
      <3>1. call.route \in 1..layer-1
        BY <1>1, <1>2, <2>1
      <3>2. Matches(RoutesOf(call.router)[call.route], call.verb, call.path)
        BY <1>2, <2>1, MeantMatches
      <3>3. QED
        BY <1>3, <3>1, <3>2
    <2>2. QED
      BY <2>1 DEF IsRoute
  <1>5. IsRoute' = IsRoute
    BY <1>1 DEF IsRoute, RoutesOf
  <1>6. QED
    BY <1>1, <1>4, <1>5 DEF CallersAsDocumented

(* A call under way is at a guard or a route of its router, and every guard *)
(* of every route is one that the middlewares know, so that a call that     *)
(* ends has reached a handler or a status of the error handler.            *)
THEOREM HttpTypeCorrect == HttpSpec => []HttpTypeOK
  <1>1. HttpInit => HttpInv
    BY DEF HttpInit, HttpInv, HttpTypeOK, OnCourse
  <1>2. HttpInv => HttpTypeOK
    BY DEF HttpInv
  <1>3. QED
    BY <1>1, <1>2, HttpStepInv, PTL DEF HttpSpec

(* A call reaches the controller of the route it was written for, with a    *)
(* caller that the route is documented for, and nobody documented is turned *)
(* away for lack of a token or a role, whichever guards, limits and         *)
(* validators run on the way.                                              *)
THEOREM CallersAlwaysAsDocumented == HttpSpec => []CallersAsDocumented
  <1>1. HttpInit => HttpInv /\ UnderWay /\ CallersAsDocumented
    BY DEF HttpInit, HttpInv, HttpTypeOK, OnCourse, UnderWay, CallersAsDocumented
  <1>2. ASSUME HttpInv, UnderWay, CallersAsDocumented, [HttpNext]_httpVars
        PROVE  CallersAsDocumented'
    <2>1. ASSUME outcome' = outcome \/ outcome' \in {"idle", "pending"}, call' = call,
                 layer' = layer \/ outcome' \in {"idle", "pending"}
          PROVE  CallersAsDocumented'
      BY <1>2, <2>1 DEF CallersAsDocumented, Meant, IsRoute, RoutesOf
    <2>2. ASSUME NEW c \in AllCalls, Accept(c) PROVE CallersAsDocumented'
      BY <2>2 DEF Accept, CallersAsDocumented
    <2>3. ASSUME PassGuard \/ EnterRoutes \/ TryRoute PROVE CallersAsDocumented'
      <3>1. outcome' = "pending"
        BY <2>3 DEF PassGuard, EnterRoutes, TryRoute, Running, OnItsWay
      <3>2. QED
        BY <3>1 DEF CallersAsDocumented
    <2>4. CASE UNCHANGED httpVars
      BY <2>1, <2>4 DEF httpVars
    <2>5. QED
      BY <1>2, <2>2, <2>3, <2>4, HandledByItsOwn, RefusedAsDocumented, NotFoundIsNoRoute
         DEF HttpNext
  <1>3. QED
    BY <1>1, <1>2, HttpStepInv, StepUnderWay, PTL DEF HttpSpec
===============================================================================
