--------------------------- MODULE SessionServer ---------------------------
(***************************************************************************)
(* The sessions of modules/backend/collab: the server of index.js and the  *)
(* sockets that ws-server.js attaches to it.  A message is handled in one  *)
(* step, and what is broadcast arrives in order.  An update over a socket  *)
(* is broadcast twice, by its handler and by the server's event, with the  *)
(* same state: told counts it once.                                        *)
(*                                                                         *)
(* A session's state is the number of patches it has taken in.  The list   *)
(* of clients, which only grows, and answers to the sender are left out.   *)
(***************************************************************************)
EXTENDS Integers, Sequences, FiniteSets

CONSTANTS Sessions, Sockets,
          Clients,     \* client ids; a message may come without one
          MaxPatches   \* bound

ASSUME SessionsAssumption == MaxPatches \in Nat

VARIABLES sessions,        \* id -> session, or None
          sessionClients,  \* id -> its sockets
          sessionOf,       \* socket._sessionId
          open,
          told,            \* history: socket -> id -> the state it joined in, plus what it
                           \* heard since
          strangers        \* history: sessions changed under owner-only by another

sessionsVars == <<sessions, sessionClients, sessionOf, open, told, strangers>>

None == "none"
NoClient == "null"
Modes == {"open", "read-only", "owner-only"}
NoSession == [mode |-> None, owner |-> NoClient, patches |-> 0]

SessionsInit ==
  /\ sessions = [s \in Sessions |-> NoSession]
  /\ sessionClients = [s \in Sessions |-> {}]
  /\ sessionOf = [k \in Sockets |-> None]
  /\ open = Sockets
  /\ told = [k \in Sockets |-> [s \in Sessions |-> 0]]
  /\ strangers = {}

Exists(s) == sessions[s] # NoSession

\* Mutant of the next operator: only the others are told.
HeardByOthers(s, k) == sessionClients[s] \ {k}

\* Those an update of socket k is broadcast to.
HeardBy(s, k) == sessionClients[s]

\* A socket that was in another session stays in that one's set.
AddClientToSession(s, k) ==
  /\ sessionClients' = [sessionClients EXCEPT ![s] = @ \cup {k}]
  /\ sessionOf' = [sessionOf EXCEPT ![k] = s]

\* The creator becomes the owner, if it says who it is.
Create(k, s, client, mode) ==
  /\ k \in open /\ ~Exists(s)
  /\ sessions' = [sessions EXCEPT ![s] = [mode |-> mode, owner |-> client, patches |-> 0]]
  /\ AddClientToSession(s, k)
  /\ told' = [told EXCEPT ![k][s] = 0]
  /\ UNCHANGED <<open, strangers>>

Allowed(s, client) == sessions[s].mode = "owner-only" => client = sessions[s].owner

\* The newcomer is not told the state.
Join(k, s, client) ==
  /\ k \in open /\ Exists(s) /\ Allowed(s, client)
  /\ AddClientToSession(s, k)
  /\ told' = [told EXCEPT ![k][s] = sessions[s].patches]
  /\ UNCHANGED <<sessions, open, strangers>>

\* Mutant of the next operator: a session that is not open to all is its owner's.
MayUpdateReadOnly(s, client) == sessions[s].mode # "open" => client = sessions[s].owner

MayUpdate(s, client) == sessions[s].mode # "read-only" /\ Allowed(s, client)

\* Any socket may update any session, its own or not.
Update(k, s, client) ==
  /\ k \in open /\ Exists(s) /\ MayUpdate(s, client)
  /\ sessions[s].patches < MaxPatches
  /\ sessions' = [sessions EXCEPT ![s].patches = @ + 1]
  /\ told' = [j \in Sockets |-> IF j \in HeardBy(s, k) THEN [told[j] EXCEPT ![s] = @ + 1] ELSE told[j]]
  /\ strangers' = IF sessions[s].mode = "read-only"
                     \/ (sessions[s].mode = "owner-only" /\ client # sessions[s].owner)
                  THEN strangers \cup {s} ELSE strangers
  /\ UNCHANGED <<sessionClients, sessionOf, open>>

\* A session without an owner is anybody's.
SetPermissions(k, s, client, mode) ==
  /\ k \in open /\ Exists(s)
  /\ sessions[s].owner = NoClient \/ client = sessions[s].owner
  /\ sessions' = [sessions EXCEPT ![s].mode = mode]
  /\ UNCHANGED <<sessionClients, sessionOf, open, told, strangers>>

\* removeClient() looks at the session it joined last.
Close(k) ==
  /\ k \in open /\ open' = open \ {k}
  /\ sessionClients' = [s \in Sessions |-> IF s = sessionOf[k] THEN sessionClients[s] \ {k}
                                           ELSE sessionClients[s]]
  /\ UNCHANGED <<sessions, sessionOf, told, strangers>>

SessionsNext ==
  \/ \E k \in Sockets, s \in Sessions, client \in Clients \cup {NoClient} :
       \/ Join(k, s, client) \/ Update(k, s, client)
       \/ \E mode \in Modes : Create(k, s, client, mode) \/ SetPermissions(k, s, client, mode)
  \/ \E k \in Sockets : Close(k)

SessionsSpec == SessionsInit /\ [][SessionsNext]_sessionsVars

----------------------------------------------------------------------------
SessionsTyped ==
  /\ \A s \in Sessions :
       /\ sessions[s] \in [mode : Modes \cup {None}, owner : Clients \cup {NoClient},
                           patches : 0..MaxPatches]
       /\ sessionClients[s] \subseteq Sockets
  /\ sessionOf \in [Sockets -> Sessions \cup {None}]
  /\ open \subseteq Sockets /\ strangers \subseteq Sessions
  /\ told \in [Sockets -> [Sessions -> 0..MaxPatches]]

\* Whoever joins, leaves and changes permissions meanwhile: a session that is read-only
\* or its owner's is changed by nobody else, a member hears of every change from its
\* joining on, and a closed socket is left behind only in a session it had joined
\* before another.
SessionsGuarded ==
  /\ strangers = {}
  /\ \A s \in Sessions : \A k \in sessionClients[s] :
       /\ told[k][s] = sessions[s].patches
       /\ k \in open \/ sessionOf[k] # s
=============================================================================
