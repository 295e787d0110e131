------------------------- MODULE WebSocketManager -------------------------
(***************************************************************************)
(* modules/integration/websocket-manager.mjs: clients under ids, their     *)
(* channel subscriptions, and one heartbeat timer per connection whose     *)
(* callback holds on to the client object it was started for while it      *)
(* looks clients up by id.                                                 *)
(*                                                                         *)
(* A connection stands for that object.  A client may come back under its  *)
(* id before or after its old connection was taken out.  Time passes in    *)
(* ticks, H to a heartbeatInterval; timers that are due together may run   *)
(* in either order.  Messages are reduced to the lastActivity they set.    *)
(***************************************************************************)
EXTENDS Integers, FiniteSets

CONSTANTS ClientIds, Channels,
          H,               \* heartbeatInterval, in ticks
          MaxConnections,
          MaxConnects,     \* bound: connections made in all
          Vanishing,       \* bound: the connections whose peer may vanish
          NoId             \* not a client id

ASSUME Assumption ==
  /\ H \in Nat \ {0} /\ MaxConnections \in Nat \ {0} /\ MaxConnects \in Nat \ {0}
  /\ NoId \notin ClientIds

Connections == 1..MaxConnects
None == 0          \* no connection
Off == -1          \* a timer that is not running
Dead == 2 * H + 1  \* idle times from here on are all the same

VARIABLES clients,        \* id -> its connection, or None
          connects,       \* connections made so far (connectionCount)
          owner,          \* connection -> id
          subscriptions,  \* connection -> its channels
          idle,           \* connection -> ticks since its lastActivity
          heartbeat,      \* connection -> ticks to its next beat, or Off
          channels,       \* channel -> ids subscribed
          silent,         \* connections whose peer has gone without a word
          replaced        \* history: ids taken over while still connected

vars == <<clients, connects, owner, subscriptions, idle, heartbeat, channels, silent, replaced>>

Init ==
  /\ clients = [id \in ClientIds |-> None]
  /\ connects = 0
  /\ owner = [c \in Connections |-> NoId]
  /\ subscriptions = [c \in Connections |-> {}]
  /\ idle = [c \in Connections |-> 0]
  /\ heartbeat = [c \in Connections |-> Off]
  /\ channels = [ch \in Channels |-> {}]
  /\ silent = {}
  /\ replaced = {}

Connected == {id \in ClientIds : clients[id] # None}
Made(c) == c <= connects

----------------------------------------------------------------------------
\* Mutant: the interval is started at twice its length.
HandleConnectionSlow(id) ==
  /\ Cardinality(Connected) < MaxConnections
  /\ connects < MaxConnects
  /\ LET c == connects + 1
     IN /\ connects' = c
        /\ owner' = [owner EXCEPT ![c] = id]
        /\ clients' = [clients EXCEPT ![id] = c]
        /\ heartbeat' = [heartbeat EXCEPT ![c] = 2 * H]
  /\ replaced' = IF id \in Connected THEN replaced \cup {id} ELSE replaced
  /\ UNCHANGED <<subscriptions, idle, channels, silent>>

\* A new client object goes under the id, over whatever is there.
HandleConnection(id) ==
  /\ Cardinality(Connected) < MaxConnections
  /\ connects < MaxConnects
  /\ LET c == connects + 1
     IN /\ connects' = c
        /\ owner' = [owner EXCEPT ![c] = id]
        /\ clients' = [clients EXCEPT ![id] = c]
        /\ heartbeat' = [heartbeat EXCEPT ![c] = H]
  /\ replaced' = IF id \in Connected THEN replaced \cup {id} ELSE replaced
  /\ UNCHANGED <<subscriptions, idle, channels, silent>>

\* Mutant: the client leaves without being unsubscribed.
DisconnectKeepChannels(id) ==
  /\ clients' = [clients EXCEPT ![id] = None]
  /\ UNCHANGED <<channels, subscriptions>>

\* handleDisconnection, on whatever connection the id has now.
Disconnect(id) ==
  LET c == clients[id]
  IN /\ channels' = [ch \in Channels |->
                       IF ch \in subscriptions[c] THEN channels[ch] \ {id} ELSE channels[ch]]
     /\ subscriptions' = [subscriptions EXCEPT ![c] = {}]
     /\ clients' = [clients EXCEPT ![id] = None]

\* The server using the manager sees the socket close.
HandleDisconnection(id) ==
  /\ id \in Connected
  /\ Disconnect(id)
  /\ UNCHANGED <<connects, owner, idle, heartbeat, silent, replaced>>

CloseConnection(id) == HandleDisconnection(id)

Subscribe(id, ch) ==
  /\ id \in Connected
  /\ channels' = [channels EXCEPT ![ch] = @ \cup {id}]
  /\ subscriptions' = [subscriptions EXCEPT ![clients[id]] = @ \cup {ch}]
  /\ UNCHANGED <<clients, connects, owner, idle, heartbeat, silent, replaced>>

Unsubscribe(id, ch) ==
  /\ id \in Connected
  /\ channels' = [channels EXCEPT ![ch] = @ \ {id}]
  /\ subscriptions' = [subscriptions EXCEPT ![clients[id]] = @ \ {ch}]
  /\ UNCHANGED <<clients, connects, owner, idle, heartbeat, silent, replaced>>

\* Mutant: lastActivity is not refreshed by what the server sends.
ActiveNever(ids) == UNCHANGED idle

\* sendToClient to each of ids that is connected: sending counts as activity.
Active(ids) ==
  idle' = [c \in Connections |->
             IF \E id \in ids \cap Connected : clients[id] = c THEN 0 ELSE idle[c]]

SendToClient(id) ==
  /\ Active({id})
  /\ UNCHANGED <<clients, connects, owner, subscriptions, heartbeat, channels, silent, replaced>>

\* broadcastAll().
BroadcastAll ==
  /\ Active(Connected)
  /\ UNCHANGED <<clients, connects, owner, subscriptions, heartbeat, channels, silent, replaced>>

Broadcast(ch) ==
  /\ Active(channels[ch])
  /\ UNCHANGED <<clients, connects, owner, subscriptions, heartbeat, channels, silent, replaced>>

\* Mutant: a beat that finds its client gone leaves the interval running.
BeatForEver(c) ==
  LET id == owner[c]
  IN /\ heartbeat[c] = 0
     /\ \/ /\ id \notin Connected
           /\ heartbeat' = [heartbeat EXCEPT ![c] = H]
           /\ UNCHANGED <<clients, subscriptions, idle, channels>>
        \/ /\ id \in Connected
           /\ idle[c] > 2 * H
           /\ Disconnect(id)
           /\ heartbeat' = [heartbeat EXCEPT ![c] = Off]
           /\ UNCHANGED idle
        \/ /\ id \in Connected
           /\ idle[c] <= 2 * H
           /\ Active({id})
           /\ heartbeat' = [heartbeat EXCEPT ![c] = H]
           /\ UNCHANGED <<clients, subscriptions, channels>>
     /\ UNCHANGED <<connects, owner, silent, replaced>>

\* The callback of the interval started for c.
Beat(c) ==
  LET id == owner[c]
  IN /\ heartbeat[c] = 0
     /\ \/ /\ id \notin Connected
           /\ heartbeat' = [heartbeat EXCEPT ![c] = Off]
           /\ UNCHANGED <<clients, subscriptions, idle, channels>>
        \/ /\ id \in Connected
           /\ idle[c] > 2 * H
           /\ Disconnect(id)
           /\ heartbeat' = [heartbeat EXCEPT ![c] = Off]
           /\ UNCHANGED idle
        \/ /\ id \in Connected
           /\ idle[c] <= 2 * H
           /\ Active({id})
           /\ heartbeat' = [heartbeat EXCEPT ![c] = H]
           /\ UNCHANGED <<clients, subscriptions, channels>>
     /\ UNCHANGED <<connects, owner, silent, replaced>>

\* The network: the peer of a connection vanishes and nothing reports it.
FallSilent(c) ==
  /\ c \in Vanishing /\ Made(c) /\ c \notin silent
  /\ silent' = silent \cup {c}
  /\ UNCHANGED <<clients, connects, owner, subscriptions, idle, heartbeat, channels, replaced>>

Tick ==
  /\ \A c \in Connections : heartbeat[c] # 0
  /\ heartbeat' = [c \in Connections |-> IF heartbeat[c] = Off THEN Off ELSE heartbeat[c] - 1]
  /\ idle' = [c \in Connections |->
                IF Made(c) /\ idle[c] < Dead THEN idle[c] + 1 ELSE idle[c]]
  /\ UNCHANGED <<clients, connects, owner, subscriptions, channels, silent, replaced>>

----------------------------------------------------------------------------
Next ==
  \/ \E id \in ClientIds :
       \/ HandleConnection(id) \/ HandleDisconnection(id)
       \/ CloseConnection(id) \/ SendToClient(id)
       \/ \E ch \in Channels : Subscribe(id, ch) \/ Unsubscribe(id, ch)
  \/ BroadcastAll
  \/ \E ch \in Channels : Broadcast(ch)
  \/ \E c \in Connections : Beat(c) \/ FallSilent(c)
  \/ Tick

Spec == Init /\ [][Next]_vars

\* Time passes and timers run; clients and the network owe nothing.
FairSpec == Spec /\ WF_vars(Tick) /\ \A c \in Connections : WF_vars(Beat(c))

----------------------------------------------------------------------------
\* Types: ids and connections refer to each other, timers stay within H.
TypeOK ==
  /\ clients \in [ClientIds -> Connections \cup {None}]
  /\ connects \in 0..MaxConnects
  /\ owner \in [Connections -> ClientIds \cup {NoId}]
  /\ subscriptions \in [Connections -> SUBSET Channels]
  /\ idle \in [Connections -> 0..Dead]
  /\ heartbeat \in [Connections -> 0..H \cup {Off}]
  /\ channels \in [Channels -> SUBSET ClientIds]
  /\ silent \subseteq Connections
  /\ replaced \subseteq ClientIds

\* What the manager tells of its clients.
GetChannelSubscribers(ch) == channels[ch]
GetClientSubscriptions(id) == IF id \in Connected THEN subscriptions[clients[id]] ELSE {}
GetClientInfo(id) == [id |-> id, subscriptions |-> GetClientSubscriptions(id)]
GetAllClients == {GetClientInfo(id) : id \in Connected}
Statistics == [totalConnections |-> connects, activeConnections |-> Cardinality(Connected),
               totalChannels |-> Cardinality({ch \in Channels : channels[ch] # {}})]

\* The two sides of a subscription agree: a channel the client holds has the
\* client, and an id in a channel is a connected client that holds it, unless
\* that id was ever connected over a live entry, which strands the old
\* connection's channels.
SubscriptionsAgree ==
  /\ \A id \in ClientIds, ch \in Channels :
       LET holds == ch \in GetClientSubscriptions(id)
       IN /\ holds => id \in GetChannelSubscribers(ch)
          /\ id \in GetChannelSubscribers(ch) => holds \/ id \in replaced
  /\ replaced = {} =>
       Statistics.totalChannels = Cardinality(UNION {info.subscriptions : info \in GetAllClients})
  /\ Statistics.activeConnections <= Statistics.totalConnections

\* A beat takes a client out only if the id had an earlier connection: the
\* timer of that one, which measures an object nobody sends to any more.
KillsOnlyAfterReconnect ==
  [][\A id \in Connected :
       ((\E c \in Connections : heartbeat[c] = 0 /\ heartbeat'[c] = Off) /\ clients'[id] = None)
         => \E c \in Connections : c < clients[id] /\ owner[c] = id]_vars

Current(c) == \E id \in ClientIds : clients[id] = c

\* Timers are not leaked: that of a connection that is gone or was replaced
\* comes to an end.
TimersEnd == []<>(\A c \in Connections : Made(c) /\ ~Current(c) => heartbeat[c] = Off)

\* "Client appears dead": a connection whose peer has vanished is taken out.
DeadClientsGo ==
  \A c \in Connections : (c \in silent) ~> ~Current(c)
=============================================================================
