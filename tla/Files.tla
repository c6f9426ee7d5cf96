--------------------------------- MODULE Files ---------------------------------
(***************************************************************************)
(* Stored objects and the keys that name them.  A column (a course's       *)
(* thumbnail or banner, a lesson's thumbnail, a user's avatar) is replaced *)
(* by reading its key, storing the new object, deleting the old one and    *)
(* writing the column.  A row (a FileAsset, or a lesson resource with a    *)
(* file) is written after its object is stored and deleted after its       *)
(* object.  Types, sizes and URLs are left out: a refused upload changes   *)
(* nothing.                                                                *)
(***************************************************************************)
EXTENDS FiniteSets

CONSTANTS
  Columns,      \* key columns of courses, lessons and users
  Objects,      \* keys that buildKey can make
  FlRequests,   \* requests in flight
  NoObject, NoColumn

ASSUME FilesAssumption == NoObject \notin Objects /\ NoColumn \notin Columns

VARIABLES
  stored,       \* the objects in the bucket
  column,       \* column -> its key, or NoObject
  rows,         \* the keys of the rows
  fl,           \* the requests in flight
  torn,         \* history: keys whose request failed or died after the object
                \*   was deleted
  leftBehind    \* history: keys whose delete failed or whose request died,
                \*   that a replace which had read another key overwrote, or
                \*   whose lesson or temporary row was deleted

flHistory == <<torn, leftBehind>>
flVars == <<stored, column, rows, fl, flHistory>>

FlSteps == {"idle", "upload", "deleteOld", "update", "createRow",
            "deleteObject", "deleteRow"}
FlRequest == [pc : FlSteps, column : Columns \cup {NoColumn}, gone : BOOLEAN,
              old : Objects \cup {NoObject}, new : Objects \cup {NoObject}]
FlIdle == [pc |-> "idle", column |-> NoColumn, gone |-> FALSE,
           old |-> NoObject, new |-> NoObject]

FlAt(r, step) == fl[r].pc = step
FlReturn(r)   == fl' = [fl EXCEPT ![r] = FlIdle]

InColumns == {column[c] : c \in Columns} \ {NoObject}
Named     == InColumns \cup rows
Held      == {fl[r].old : r \in FlRequests} \cup {fl[r].new : r \in FlRequests}

\* uuidv4: nothing names or holds the key yet.
Fresh(o) == o \notin stored \cup Named \cup Held

-------------------------------------------------------------------------------
(* uploadThumbnail, uploadBanner, uploadLessonThumbnail, updateAvatar      *)

ReplaceReadsColumn(r, c) ==
  /\ FlAt(r, "idle")
  /\ fl' = [fl EXCEPT ![r] =
       [FlIdle EXCEPT !.pc = "upload", !.column = c, !.old = column[c]]]
  /\ UNCHANGED <<stored, column, rows, flHistory>>

\* upload, of a replace and of a new row.
Upload(r, o) ==
  /\ FlAt(r, "upload")
  /\ Fresh(o)
  /\ stored' = stored \cup {o}
  /\ fl' = [fl EXCEPT ![r].new = o,
       ![r].pc = IF fl[r].column = NoColumn THEN "createRow"
                 ELSE IF fl[r].old = NoObject THEN "update" ELSE "deleteOld"]
  /\ torn' = torn \ {o} /\ leftBehind' = leftBehind \ {o}
  /\ UNCHANGED <<column, rows>>

\* Variant: the old object is forgotten.
WithoutDeleting(key) == stored

WithoutObject(key) == stored \ {key}

\* storage.replace: a delete that fails is logged and forgotten.
ReplaceDeletesOld(r) ==
  /\ FlAt(r, "deleteOld")
  /\ \/ /\ stored' = WithoutObject(fl[r].old)
        /\ UNCHANGED leftBehind
     \/ /\ leftBehind' = leftBehind \cup {fl[r].old}
        /\ UNCHANGED stored
  /\ fl' = [fl EXCEPT ![r].pc = "update"]
  /\ UNCHANGED <<column, rows, torn>>

\* The update is by id: it fails (P2025) when the owner is gone.
ReplaceUpdatesColumn(r) ==
  LET c == fl[r].column IN
  /\ FlAt(r, "update")
  /\ \/ /\ fl[r].gone
        /\ leftBehind' = leftBehind \cup {fl[r].new}
        /\ UNCHANGED column
     \/ /\ ~fl[r].gone
        /\ column' = [column EXCEPT ![c] = fl[r].new]
        /\ leftBehind' = leftBehind \cup ({column[c]} \ {fl[r].old, NoObject})
  /\ FlReturn(r)
  /\ UNCHANGED <<stored, rows, torn>>

\* deleteLesson and deleteModule leave the objects behind.
DeleteOwner(c) ==
  /\ column' = [column EXCEPT ![c] = NoObject]
  /\ fl' = [r \in FlRequests |-> [fl[r] EXCEPT !.gone = @ \/ fl[r].column = c]]
  /\ leftBehind' = leftBehind \cup ({column[c]} \ {NoObject})
  /\ UNCHANGED <<stored, rows, torn>>

-------------------------------------------------------------------------------
(* uploadFile, deleteFile; addResource, removeResource                     *)

StartUpload(r) ==
  /\ FlAt(r, "idle")
  /\ fl' = [fl EXCEPT ![r].pc = "upload"]
  /\ UNCHANGED <<stored, column, rows, flHistory>>

CreateRow(r) ==
  /\ FlAt(r, "createRow")
  /\ rows' = rows \cup {fl[r].new}
  /\ FlReturn(r)
  /\ UNCHANGED <<stored, column, flHistory>>

DeleteFindsRow(r, o) ==
  /\ FlAt(r, "idle")
  /\ o \in rows
  /\ fl' = [fl EXCEPT ![r] = [FlIdle EXCEPT !.pc = "deleteObject", !.old = o]]
  /\ UNCHANGED <<stored, column, rows, flHistory>>

\* A delete that fails ends deleteFile, and is ignored by removeResource.
DeleteObject(r) ==
  /\ FlAt(r, "deleteObject")
  /\ \/ /\ stored' = WithoutObject(fl[r].old)
        /\ UNCHANGED leftBehind
     \/ /\ leftBehind' = leftBehind \cup {fl[r].old}
        /\ UNCHANGED stored
  /\ fl' = [fl EXCEPT ![r].pc = "deleteRow"]
  /\ UNCHANGED <<column, rows, torn>>

DeleteRow(r) ==
  /\ FlAt(r, "deleteRow")
  /\ rows' = rows \ {fl[r].old}
  /\ FlReturn(r)
  /\ UNCHANGED <<stored, column, flHistory>>

\* TEMPORARY_FILES, and the cascade of deleteLesson to its resources, delete
\* rows, never objects.
CleanupRow(o) ==
  /\ o \in rows
  /\ rows' = rows \ {o}
  /\ leftBehind' = leftBehind \cup {o}
  /\ UNCHANGED <<stored, column, fl, torn>>

\* The request dies, or a statement of it fails.
FlDies(r) ==
  /\ ~FlAt(r, "idle")
  /\ torn' = IF fl[r].pc \in {"update", "deleteRow"}
               THEN torn \cup ({fl[r].old} \ {NoObject}) ELSE torn
  /\ leftBehind' = leftBehind \cup ({fl[r].new} \ {NoObject})
  /\ FlReturn(r)
  /\ UNCHANGED <<stored, column, rows>>

-------------------------------------------------------------------------------
FlInit ==
  /\ stored = {} /\ rows = {}
  /\ column = [c \in Columns |-> NoObject]
  /\ fl = [r \in FlRequests |-> FlIdle]
  /\ torn = {} /\ leftBehind = {}

FlStep(r) ==
  \/ \E c \in Columns : ReplaceReadsColumn(r, c)
  \/ \E o \in Objects : Upload(r, o) \/ DeleteFindsRow(r, o)
  \/ ReplaceDeletesOld(r) \/ ReplaceUpdatesColumn(r)
  \/ StartUpload(r) \/ CreateRow(r) \/ DeleteObject(r) \/ DeleteRow(r)
  \/ FlDies(r)

FlNext ==
  \/ \E r \in FlRequests : FlStep(r)
  \/ \E c \in Columns : DeleteOwner(c)
  \/ \E o \in Objects : CleanupRow(o)

FlSpec == FlInit /\ [][FlNext]_flVars

-------------------------------------------------------------------------------
FlTypeOK ==
  /\ stored \cup rows \cup torn \cup leftBehind \subseteq Objects
  /\ column \in [Columns -> Objects \cup {NoObject}]
  /\ fl \in [FlRequests -> FlRequest]

\* r has deleted the object and will write its column or delete its row.
Finishing(r, o) == fl[r].pc \in {"update", "deleteRow"} /\ fl[r].old = o

\* A column or row never names an object that is gone, but while the request
\* that deleted the object is under way, or once it died.  Two overlapping
\* replaces of one column are no exception.
DanglingKeyHasCause ==
  \A o \in Named \ stored : o \in torn \/ \E r \in FlRequests : Finishing(r, o)

\* An object that nothing names is held by a request under way, or was left
\* behind: its delete failed, its request died, a replace that had read an
\* older key overwrote it, or its owner was deleted.
OrphanHasCause ==
  \A o \in stored \ Named : o \in leftBehind \/ \E r \in FlRequests : fl[r].new = o

\* Storage and database disagree only for the causes named.
StoredKeysHaveCause == DanglingKeyHasCause /\ OrphanHasCause
===============================================================================
