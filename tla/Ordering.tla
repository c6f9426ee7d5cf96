------------------------------- MODULE Ordering -------------------------------
(***************************************************************************)
(* The sortOrder of the modules of a course, and of the lessons of a       *)
(* module: createModule and createLesson read the highest number in use    *)
(* and create in a later statement; reorder renumbers the ids a client     *)
(* sends in one transaction, whether or not they are all there are.        *)
(***************************************************************************)
EXTENDS Integers, FiniteSets, FiniteSetsExt

CONSTANTS
  Items,         \* ids of modules, or of lessons
  OrdRequests,   \* creates in flight
  MaxOrder       \* bound: sort orders

ASSUME OrderingAssumption == IsFiniteSet(Items) /\ MaxOrder \in Nat

VARIABLES
  sortOrder,   \* item -> its number, or NoItem
  ord,         \* the creates in flight
  tangled      \* history: since the last complete reorder, a create was
               \*   overtaken or a reorder named only some of the items

ordVars == <<sortOrder, ord, tangled>>

NoItem == -1
Live   == {i \in Items : sortOrder[i] # NoItem}

OrdRequest == [pc : {"idle", "create"}, next : 0..MaxOrder, overtaken : BOOLEAN]
OrdIdle == [pc |-> "idle", next |-> 0, overtaken |-> FALSE]

OrdAt(r, step) == ord[r].pc = step
Overtaking(r)  == [q \in OrdRequests |->
                     IF q = r THEN OrdIdle
                     ELSE [ord[q] EXCEPT !.overtaken = @ \/ OrdAt(q, "create")]]

\* Variant: the number of items instead of the highest number.
CountOfItems == Cardinality(Live)

NextSortOrder == Max({sortOrder[i] : i \in Live} \cup {-1}) + 1

CreateReadsOrder(r) ==
  /\ OrdAt(r, "idle")
  /\ NextSortOrder =< MaxOrder
  /\ ord' = [ord EXCEPT ![r] = [OrdIdle EXCEPT !.pc = "create", !.next = NextSortOrder]]
  /\ UNCHANGED <<sortOrder, tangled>>

CreateItem(r, i) ==
  /\ OrdAt(r, "create")
  /\ i \notin Live
  /\ sortOrder' = [sortOrder EXCEPT ![i] = ord[r].next]
  /\ ord' = Overtaking(r)
  /\ tangled' = (tangled \/ ord[r].overtaken)

CreateDies(r) ==
  /\ OrdAt(r, "create")
  /\ ord' = [ord EXCEPT ![r] = OrdIdle]
  /\ UNCHANGED <<sortOrder, tangled>>

DeleteItem(i) ==
  /\ i \in Live
  /\ sortOrder' = [sortOrder EXCEPT ![i] = NoItem]
  /\ UNCHANGED <<ord, tangled>>

\* An id that is gone rolls the transaction back.  Whose items the ids are is
\* not checked, so a reorder may name any of them, at any index.
Reorder(items, place) ==
  /\ sortOrder' = [i \in Items |-> IF i \in items THEN place[i] ELSE sortOrder[i]]
  /\ ord' = [q \in OrdRequests |->
       [ord[q] EXCEPT !.overtaken = @ \/ OrdAt(q, "create")]]
  /\ tangled' = (items # Live)

\* The index of each id in orderedIds; an id sent twice keeps the last, and
\* ids of other lists take indices too.
Places(items) == {place \in [items -> 0..MaxOrder] :
                    \A i, j \in items : place[i] = place[j] => i = j}

-------------------------------------------------------------------------------
OrdInit ==
  /\ sortOrder = [i \in Items |-> NoItem]
  /\ ord = [r \in OrdRequests |-> OrdIdle]
  /\ tangled = FALSE

OrdNext ==
  \/ \E r \in OrdRequests : \/ CreateReadsOrder(r) \/ CreateDies(r)
                            \/ \E i \in Items : CreateItem(r, i)
  \/ \E i \in Items : DeleteItem(i)
  \/ \E items \in SUBSET Live \ {{}} : \E place \in Places(items) : Reorder(items, place)

OrdSpec == OrdInit /\ [][OrdNext]_ordVars

-------------------------------------------------------------------------------
OrdTypeOK ==
  /\ sortOrder \in [Items -> 0..MaxOrder \cup {NoItem}]
  /\ ord \in [OrdRequests -> OrdRequest]
  /\ tangled \in BOOLEAN

\* Two items share a place in the list only after a create whose number was
\* taken before it was used, or a reorder that left items out; deleting never
\* frees a number for a second owner, and a complete reorder always repairs.
SharedOrderHasCause ==
  (\E i, j \in Live : i # j /\ sortOrder[i] = sortOrder[j]) => tangled
===============================================================================
