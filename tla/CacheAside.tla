------------------------------ MODULE CacheAside ------------------------------
(***************************************************************************)
(* lib/cache.ts as category.service.ts uses it (one key per view of the    *)
(* table, all invalidated by prefix: KEYS, then DEL), and setting.service  *)
(* (one key, DEL, and a Redis error fails the request).                    *)
(*                                                                         *)
(* A table (all categories, or one setting) is a version number that every *)
(* write increments: a cached value is the version it was computed from.   *)
(***************************************************************************)
EXTENDS Integers, FiniteSets

CONSTANTS
  Views,        \* the keys cache:categories:*
  Settings,     \* the keys settings:*
  CaRequests,   \* requests in flight
  MaxVersion    \* bound: writes to one table

ASSUME CacheAssumption ==
  /\ MaxVersion \in Nat
  /\ "categories" \notin Settings /\ Views \cap Settings = {}
  /\ Views \cup Settings # {}

Keys   == Views \cup Settings
Tables == {"categories"} \cup Settings
TableOf(k) == IF k \in Views THEN "categories" ELSE k

VARIABLES
  version,      \* table -> its version
  cache,        \* key -> version of the value Redis holds, or NoEntry
  ca,           \* the requests in flight
  lateFill,     \* history: keys whose entry was stale when it was stored
  uninvalidated \* history: keys of a write whose invalidation failed or died

caVars == <<version, cache, ca, lateFill, uninvalidated>>

NoEntry == -1
CaSteps == {"idle", "fetch", "set", "write", "keys", "del"}
CaRequest == [pc : CaSteps, key : Keys, table : Tables,
              value : 0..MaxVersion, found : SUBSET Keys]
CaIdle == [pc |-> "idle", key |-> CHOOSE k \in Keys : TRUE,
           table |-> "categories", value |-> 0, found |-> {}]

CaAt(r, step) == ca[r].pc = step
CaReturn(r)   == ca' = [ca EXCEPT ![r] = CaIdle]
Cached        == {k \in Keys : cache[k] # NoEntry}
Stale         == {k \in Cached : cache[k] # version[TableOf(k)]}

-------------------------------------------------------------------------------
(* getOrSetCache: get, fetcher, set                                        *)

\* A hit is served without a step.  When Redis fails, a view is computed
\* nevertheless; a setting is an error.
ReadCache(r, k) ==
  /\ CaAt(r, "idle")
  /\ k \in Settings => k \notin Cached
  /\ ca' = [ca EXCEPT ![r] = [CaIdle EXCEPT !.pc = "fetch", !.key = k]]
  /\ UNCHANGED <<version, cache, lateFill, uninvalidated>>

Fetch(r) ==
  /\ CaAt(r, "fetch")
  /\ ca' = [ca EXCEPT ![r].pc = "set", ![r].value = version[TableOf(ca[r].key)]]
  /\ UNCHANGED <<version, cache, lateFill, uninvalidated>>

FillCache(r) ==
  LET k == ca[r].key IN
  /\ CaAt(r, "set")
  /\ cache' = [cache EXCEPT ![k] = ca[r].value]
  /\ lateFill' = IF ca[r].value = version[TableOf(k)]
                   THEN lateFill \ {k} ELSE lateFill \cup {k}
  /\ uninvalidated' = uninvalidated \ {k}
  /\ CaReturn(r)
  /\ UNCHANGED version

-------------------------------------------------------------------------------
(* create, update, remove of a category; set, remove of a setting          *)

StartWrite(r, t) ==
  /\ CaAt(r, "idle")
  /\ ca' = [ca EXCEPT ![r] = [CaIdle EXCEPT !.pc = "write", !.table = t]]
  /\ UNCHANGED <<version, cache, lateFill, uninvalidated>>

Write(r) ==
  /\ CaAt(r, "write")
  /\ version[ca[r].table] < MaxVersion
  /\ version' = [version EXCEPT ![ca[r].table] = @ + 1]
  /\ ca' = [ca EXCEPT ![r] = IF ca[r].table \in Settings
       THEN [@ EXCEPT !.pc = "del", !.found = {ca[r].table}]
       ELSE [@ EXCEPT !.pc = "keys"]]
  /\ UNCHANGED <<cache, lateFill, uninvalidated>>

\* Variant: del is given only the first key found.
FirstKeyOnly == {k \in Views \cap Cached : k = CHOOSE l \in Views \cap Cached : TRUE}

FoundKeys == Views \cap Cached

\* keys(prefix*): an entry stored later is not deleted.
FindKeys(r) ==
  /\ CaAt(r, "keys")
  /\ ca' = [ca EXCEPT ![r].pc = "del", ![r].found = FoundKeys]
  /\ UNCHANGED <<version, cache, lateFill, uninvalidated>>

DeleteKeys(r) ==
  /\ CaAt(r, "del")
  /\ cache' = [k \in Keys |-> IF k \in ca[r].found THEN NoEntry ELSE cache[k]]
  /\ lateFill' = lateFill \ ca[r].found
  /\ uninvalidated' = uninvalidated \ ca[r].found
  /\ CaReturn(r)
  /\ UNCHANGED version

\* The row is gone or its name is taken (P2025, P2002), a get or set fails in
\* Redis, or the process dies: only a written table is left uninvalidated.
CaEndsEarly(r) ==
  /\ ~CaAt(r, "idle")
  /\ uninvalidated' =
       IF CaAt(r, "keys") THEN uninvalidated \cup (Stale \cap Views)
       ELSE IF CaAt(r, "del") THEN uninvalidated \cup (Stale \cap ca[r].found)
       ELSE uninvalidated
  /\ CaReturn(r)
  /\ UNCHANGED <<version, cache, lateFill>>

\* The TTL of an entry.
EntryExpires(k) ==
  /\ k \in Cached
  /\ cache' = [cache EXCEPT ![k] = NoEntry]
  /\ lateFill' = lateFill \ {k}
  /\ uninvalidated' = uninvalidated \ {k}
  /\ UNCHANGED <<version, ca>>

-------------------------------------------------------------------------------
CaInit ==
  /\ version = [t \in Tables |-> 0]
  /\ cache = [k \in Keys |-> NoEntry]
  /\ ca = [r \in CaRequests |-> CaIdle]
  /\ lateFill = {} /\ uninvalidated = {}

CaStep(r) ==
  \/ \E k \in Keys : ReadCache(r, k)
  \/ Fetch(r) \/ FillCache(r)
  \/ \E t \in Tables : StartWrite(r, t)
  \/ Write(r) \/ FindKeys(r) \/ DeleteKeys(r)
  \/ CaEndsEarly(r)

CaNext == (\E r \in CaRequests : CaStep(r)) \/ \E k \in Keys : EntryExpires(k)

CaSpec == CaInit /\ [][CaNext]_caVars

-------------------------------------------------------------------------------
CaTypeOK ==
  /\ version \in [Tables -> 0..MaxVersion]
  /\ cache \in [Keys -> 0..MaxVersion \cup {NoEntry}]
  /\ ca \in [CaRequests -> CaRequest]
  /\ lateFill \cup uninvalidated \subseteq Keys
  /\ \A r \in CaRequests : CaAt(r, "keys") => ca[r].table = "categories"

\* A write still owes the deletion of k.
Owed(k) == \E r \in CaRequests : \/ CaAt(r, "keys") /\ k \in Views
                                 \/ CaAt(r, "del") /\ k \in ca[r].found

\* A view of the table that differs from the table is about to be deleted by a
\* write under way, was computed before a write and stored after it, or lost
\* its invalidation to a failure of Redis or of the process.
StaleEntryHasCause ==
  \A k \in Stale : Owed(k) \/ k \in lateFill \/ k \in uninvalidated
===============================================================================
