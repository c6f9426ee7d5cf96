------------------------------- MODULE Presence -------------------------------
(***************************************************************************)
(* socket/index.ts: each API process keeps a map of the sockets its users  *)
(* hold on it, and announces USER_ONLINE and USER_OFFLINE to the clients   *)
(* of every process: to its own at once, to those of the others through    *)
(* the Redis adapter, in order.  A view is what the clients of one process *)
(* were told last; a client that starts is told nothing of who is online.  *)
(***************************************************************************)
EXTENDS Naturals, FiniteSets, Sequences

CONSTANTS
  Members,      \* users
  Processes,    \* API processes
  Sockets,      \* socket ids
  MaxInFlight   \* bound: messages from one process to another

ASSUME PresenceAssumption == MaxInFlight \in Nat /\ IsFiniteSet(Processes)

VARIABLES
  onlineUsers,  \* process -> user -> its sockets there
  channel,      \* process -> process -> messages under way
  view,         \* process -> users its clients believe online
  spread,       \* history: users with sockets or announcements of two
                \*   processes at a time
  cutOff        \* history: users whose process crashed under them, or whose
                \*   announcement a crashed process did not hear

preVars == <<onlineUsers, channel, view, spread, cutOff>>

Announcement == [user : Members, online : BOOLEAN]

Connected(u) == \E p \in Processes : onlineUsers[p][u] # {}
InUse(s)     == \E p \in Processes, u \in Members : s \in onlineUsers[p][u]

\* Announcements of p about u still on their way to q.
Pending(p, q, u) == {i \in DOMAIN channel[p][q] : channel[p][q][i].user = u}
Involved(u) == {p \in Processes : \/ onlineUsers[p][u] # {}
                                  \/ \E q \in Processes : Pending(p, q, u) # {}}
Hear(users, m) == IF m.online THEN users \cup {m.user} ELSE users \ {m.user}

\* io.emit
Announce(p, m) ==
  /\ \A q \in Processes \ {p} : Len(channel[p][q]) < MaxInFlight
  /\ channel' = [channel EXCEPT ![p] =
       [q \in Processes |-> IF q = p THEN @[q] ELSE Append(@[q], m)]]
  /\ view' = [view EXCEPT ![p] = Hear(@, m)]

NoteSpread == spread' = spread \cup {u \in Members : Cardinality(Involved(u)') > 1}

-------------------------------------------------------------------------------
\* The handshake verifies the access token; then markUserOnline and emit.
Connect(p, u, s) ==
  /\ ~InUse(s)
  /\ onlineUsers' = [onlineUsers EXCEPT ![p][u] = @ \cup {s}]
  /\ Announce(p, [user |-> u, online |-> TRUE])
  /\ NoteSpread
  /\ UNCHANGED cutOff

\* Variant: any disconnect is announced.
NeverStillOnline(p, u, s) == FALSE

\* The result of markUserOffline.
StillOnline(p, u, s) == onlineUsers[p][u] \ {s} # {}

Disconnect(p, u, s) ==
  /\ s \in onlineUsers[p][u]
  /\ onlineUsers' = [onlineUsers EXCEPT ![p][u] = @ \ {s}]
  /\ IF StillOnline(p, u, s) THEN UNCHANGED <<channel, view>>
     ELSE Announce(p, [user |-> u, online |-> FALSE])
  /\ NoteSpread
  /\ UNCHANGED cutOff

Deliver(p, q) ==
  /\ channel[p][q] # <<>>
  /\ view' = [view EXCEPT ![q] = Hear(@, Head(channel[p][q]))]
  /\ channel' = [channel EXCEPT ![p][q] = Tail(@)]
  /\ UNCHANGED <<onlineUsers, spread, cutOff>>

\* The process ends without a disconnect event, its sockets with it, and its
\* clients, who reconnect, miss what was on its way to them.  What it has
\* published still arrives.
ProcessCrashes(p) ==
  /\ cutOff' = cutOff \cup {u \in Members :
       onlineUsers[p][u] # {} \/ \E q \in Processes : Pending(q, p, u) # {}}
  /\ onlineUsers' = [onlineUsers EXCEPT ![p] = [u \in Members |-> {}]]
  /\ channel' = [q \in Processes |-> [channel[q] EXCEPT ![p] = <<>>]]
  /\ UNCHANGED <<view, spread>>

-------------------------------------------------------------------------------
PreInit ==
  /\ onlineUsers = [p \in Processes |-> [u \in Members |-> {}]]
  /\ channel = [p \in Processes |-> [q \in Processes |-> <<>>]]
  /\ view = [p \in Processes |-> {}]
  /\ spread = {} /\ cutOff = {}

PreStep(p) ==
  \/ \E u \in Members, s \in Sockets : Connect(p, u, s) \/ Disconnect(p, u, s)
  \/ \E q \in Processes : Deliver(p, q)
  \/ ProcessCrashes(p)

PreNext == \E p \in Processes : PreStep(p)

PreSpec == PreInit /\ [][PreNext]_preVars

-------------------------------------------------------------------------------
PreTypeOK ==
  /\ onlineUsers \in [Processes -> [Members -> SUBSET Sockets]]
  /\ channel \in [Processes -> [Processes -> Seq(Announcement)]]
  /\ view \in [Processes -> SUBSET Members]
  /\ spread \cup cutOff \subseteq Members

\* The clients of a process have the right idea of whether a user is online as
\* soon as every announcement about the user has arrived there, however many
\* tabs were opened and closed: unless the user was on two processes at a
\* time, or a process crashed under the user.
PresenceViewHasCause ==
  \A u \in Members \ (spread \cup cutOff) : \A q \in Processes :
    (\A p \in Processes : Pending(p, q, u) = {}) => (u \in view[q] <=> Connected(u))
===============================================================================
