------------------------ MODULE WebSocketManagerProofs ------------------------
(***************************************************************************)
(* The safety properties of WebSocketManager, for any ids, channels,       *)
(* heartbeat interval and number of connections.                           *)
(*                                                                         *)
(* The inductive invariant says what ties ids and connections together:    *)
(* the entry of an id is the newest connection it made, and what was never *)
(* connected is blank.  That keeps a heartbeat from taking out a client    *)
(* that connected once: until its id comes back, the timer of a connection *)
(* and its idle time are reset together, and idle is at most what the      *)
(* timer has run of its interval.                                          *)
(***************************************************************************)
EXTENDS WebSocketManager, FiniteSetTheorems, TLAPS

UnmadeAreBlank ==
  \A c \in Connections :
    c > connects => /\ owner[c] = NoId
                    /\ subscriptions[c] = {}
                    /\ idle[c] = 0
                    /\ heartbeat[c] = Off

NewestIsCurrent ==
  \A id \in ClientIds :
    clients[id] # None => /\ clients[id] <= connects
                          /\ owner[clients[id]] = id
                          /\ \A c \in Connections : owner[c] = id => c <= clients[id]

(* The id of connection c had none before.                                 *)
First(c) == \A b \in Connections : b < c => owner[b] # owner[c]

FirstIsHeard ==
  \A id \in ClientIds :
    clients[id] # None /\ First(clients[id]) =>
      /\ heartbeat[clients[id]] \in 0 .. H
      /\ idle[clients[id]] + heartbeat[clients[id]] <= H

(* The two sides of SubscriptionsAgree that speak of single subscriptions. *)
SidesAgree ==
  \A id \in ClientIds, ch \in Channels :
    LET holds == clients[id] # None /\ ch \in subscriptions[clients[id]]
    IN /\ holds => id \in channels[ch]
       /\ id \in channels[ch] => holds \/ id \in replaced

IInv == TypeOK /\ UnmadeAreBlank /\ NewestIsCurrent /\ FirstIsHeard /\ SidesAgree

-------------------------------------------------------------------------------
LEMMA Numbers ==
  /\ H \in Nat \ {0} /\ MaxConnects \in Nat \ {0} /\ NoId \notin ClientIds
  /\ Connections = 1..MaxConnects /\ None \notin Connections /\ Off \notin 0 .. H
  /\ Dead \in Nat /\ 0 \in 0..Dead /\ H \in 0 .. H /\ 0 + H <= H
BY Assumption DEF Connections, None, Off, Dead

(* An id that is connected has a connection of its own.                    *)
LEMMA CurrentFacts ==
  ASSUME IInv, NEW id \in Connected
  PROVE  /\ id \in ClientIds /\ clients[id] \in Connections /\ clients[id] # None
         /\ owner[clients[id]] = id
         /\ \A other \in ClientIds : other # id => clients[other] # clients[id]
BY DEF IInv, TypeOK, NewestIsCurrent, Connected

(* Sending never makes a client idle for longer.                           *)
LEMMA ActiveFacts ==
  ASSUME TypeOK, NEW ids, Active(ids)
  PROVE  /\ idle' \in [Connections -> 0..Dead]
         /\ \A c \in Connections : idle'[c] = 0 \/ idle'[c] = idle[c]
         /\ \A id \in ids \cap Connected : idle'[clients[id]] = 0
<1>1. \A c \in Connections :
        idle'[c] = IF \E id \in ids \cap Connected : clients[id] = c THEN 0 ELSE idle[c]
  BY DEF Active
<1>2. \A c \in Connections : idle[c] \in 0..Dead
  BY DEF TypeOK
<1>3. idle' \in [Connections -> 0..Dead]
  BY <1>2, Numbers DEF Active
<1>4. \A id \in ids \cap Connected : clients[id] \in Connections
  BY DEF TypeOK, Connected
<1> QED
  BY <1>1, <1>3, <1>4

(* Taking a client out removes it from the channels of its connection, and *)
(* touches neither the other clients nor their subscriptions.              *)
LEMMA DisconnectFacts ==
  ASSUME IInv, NEW id \in Connected, Disconnect(id), UNCHANGED <<connects, owner, replaced>>
  PROVE  /\ clients' \in [ClientIds -> Connections \cup {None}]
         /\ subscriptions' \in [Connections -> SUBSET Channels]
         /\ channels' \in [Channels -> SUBSET ClientIds]
         /\ \A b \in ClientIds : clients'[b] = IF b = id THEN None ELSE clients[b]
         /\ \A c \in Connections : subscriptions[c] = {} => subscriptions'[c] = {}
         /\ NewestIsCurrent'
         /\ SidesAgree'
<1>1. /\ clients' = [clients EXCEPT ![id] = None]
      /\ subscriptions' = [subscriptions EXCEPT ![clients[id]] = {}]
      /\ channels' = [ch \in Channels |-> IF ch \in subscriptions[clients[id]]
                                           THEN channels[ch] \ {id} ELSE channels[ch]]
  BY DEF Disconnect
<1>2. clients \in [ClientIds -> Connections \cup {None}] /\ subscriptions \in [Connections -> SUBSET Channels]
  BY DEF IInv, TypeOK
<1>3. channels \in [Channels -> SUBSET ClientIds]
  BY DEF IInv, TypeOK
<1>4. clients' \in [ClientIds -> Connections \cup {None}] /\ subscriptions' \in [Connections -> SUBSET Channels]
  BY <1>1, <1>2, CurrentFacts
<1>5. channels' \in [Channels -> SUBSET ClientIds]
  BY <1>1, <1>3
<1>6. \A b \in ClientIds : clients'[b] = IF b = id THEN None ELSE clients[b]
  BY <1>1, <1>2, CurrentFacts
<1>7. \A c \in Connections : subscriptions'[c] = IF c = clients[id] THEN {} ELSE subscriptions[c]
  BY <1>1, <1>2, CurrentFacts
<1>8. NewestIsCurrent'
  BY <1>6 DEF IInv, NewestIsCurrent
<1>9. SidesAgree'
  <2> SUFFICES ASSUME NEW b \in ClientIds, NEW ch \in Channels
               PROVE  LET holds == clients'[b] # None /\ ch \in subscriptions'[clients'[b]]
                      IN /\ holds => b \in channels'[ch]
                         /\ b \in channels'[ch] => holds \/ b \in replaced
    BY DEF SidesAgree
  <2>1. LET holds == clients[b] # None /\ ch \in subscriptions[clients[b]]
        IN /\ holds => b \in channels[ch]
           /\ b \in channels[ch] => holds \/ b \in replaced
    BY DEF IInv, SidesAgree
  <2>2. channels'[ch] = IF ch \in subscriptions[clients[id]] THEN channels[ch] \ {id} ELSE channels[ch]
    BY <1>1
  <2>3. CASE b = id
    BY <2>1, <2>2, <2>3, <1>6, CurrentFacts
  <2>4. CASE b # id
    <3>1. clients'[b] = clients[b] /\ clients[b] # clients[id]
      BY <2>4, <1>6, CurrentFacts
    <3>2. clients[b] # None => subscriptions'[clients[b]] = subscriptions[clients[b]]
      BY <3>1, <1>2, <1>7
    <3> QED
      BY <3>1, <3>2, <2>1, <2>2, <2>4
  <2> QED
    BY <2>3, <2>4
<1> QED
  BY <1>4, <1>5, <1>6, <1>7, <1>8, <1>9

-------------------------------------------------------------------------------
LEMMA InitIInv == Init => IInv
<1> SUFFICES ASSUME Init PROVE IInv
  OBVIOUS
<1>1. /\ clients = [id \in ClientIds |-> None] /\ connects = 0
      /\ owner = [c \in Connections |-> NoId] /\ subscriptions = [c \in Connections |-> {}]
      /\ idle = [c \in Connections |-> 0] /\ heartbeat = [c \in Connections |-> Off]
      /\ channels = [ch \in Channels |-> {}] /\ silent = {} /\ replaced = {}
  BY DEF Init
<1>2. TypeOK
  BY <1>1, Numbers DEF TypeOK
<1>3. UnmadeAreBlank
  BY <1>1 DEF UnmadeAreBlank
<1>4. NewestIsCurrent /\ FirstIsHeard /\ SidesAgree
  BY <1>1 DEF NewestIsCurrent, FirstIsHeard, SidesAgree
<1> QED
  BY <1>2, <1>3, <1>4 DEF IInv

(* A new connection is newer than every other, and was blank.              *)
LEMMA HandleConnectionIInv ==
  ASSUME IInv, NEW id \in ClientIds, HandleConnection(id)
  PROVE  IInv'
<1> DEFINE c == connects + 1
<1>1. /\ connects < MaxConnects
      /\ connects' = c
      /\ owner' = [owner EXCEPT ![c] = id]
      /\ clients' = [clients EXCEPT ![id] = c]
      /\ heartbeat' = [heartbeat EXCEPT ![c] = H]
      /\ replaced' = IF id \in Connected THEN replaced \cup {id} ELSE replaced
      /\ UNCHANGED <<subscriptions, idle, channels, silent>>
  BY DEF HandleConnection
<1>2. connects \in Nat /\ c \in Connections /\ c \in Nat \ {0}
  BY <1>1, Numbers DEF IInv, TypeOK
<1>3. c > connects /\ connects' \in 0..MaxConnects
  BY <1>1, <1>2, Numbers
<1>4. /\ owner[c] = NoId /\ subscriptions[c] = {} /\ idle[c] = 0 /\ heartbeat[c] = Off
  BY <1>2, <1>3 DEF IInv, UnmadeAreBlank
<1> HIDE DEF c
<1>5. /\ \A b \in Connections : owner'[b] = IF b = c THEN id ELSE owner[b]
      /\ \A b \in Connections : heartbeat'[b] = IF b = c THEN H ELSE heartbeat[b]
      /\ \A b \in ClientIds : clients'[b] = IF b = id THEN c ELSE clients[b]
  BY <1>1, <1>2 DEF IInv, TypeOK
<1>6. c # None
  BY <1>2, Numbers
<1>7. TypeOK'
  <2>1. owner' \in [Connections -> ClientIds \cup {NoId}]
    BY <1>1, <1>2 DEF IInv, TypeOK
  <2>2. clients' \in [ClientIds -> Connections \cup {None}]
    BY <1>1, <1>2 DEF IInv, TypeOK
  <2>3. heartbeat' \in [Connections -> 0..H \cup {Off}]
    BY <1>1, <1>2, Numbers DEF IInv, TypeOK
  <2> QED
    BY <2>1, <2>2, <2>3, <1>1, <1>3 DEF IInv, TypeOK
<1>8. UnmadeAreBlank'
  <2>1. \A b \in Connections : b > connects' => b # c /\ b > connects
    BY <1>1, <1>2, <1>3, Numbers
  <2> QED
    BY <2>1, <1>1, <1>5 DEF IInv, UnmadeAreBlank
<1>9. NewestIsCurrent'
  <2> SUFFICES ASSUME NEW b \in ClientIds, clients'[b] # None
               PROVE  /\ clients'[b] <= connects' /\ owner'[clients'[b]] = b
                      /\ \A d \in Connections : owner'[d] = b => d <= clients'[b]
    BY DEF NewestIsCurrent
  <2>1. CASE b = id
    <3>1. clients'[b] = c /\ owner'[c] = id
      BY <2>1, <1>2, <1>5
    <3>2. ASSUME NEW d \in Connections, owner'[d] = b
          PROVE  d <= c
      <4>1. d = c \/ owner[d] # NoId
        BY <3>2, <1>5, Numbers
      <4>2. d = c \/ ~(d > connects)
        BY <4>1 DEF IInv, UnmadeAreBlank
      <4>3. d \in Nat
        BY Numbers
      <4> QED
        BY <4>2, <4>3, <1>2 DEF c
    <3> QED
      BY <3>1, <3>2, <2>1, <1>1, <1>2
  <2>2. CASE b # id
    <3>1. /\ clients'[b] = clients[b] /\ clients[b] \in Connections /\ clients[b] <= connects
          /\ owner[clients[b]] = b /\ \A d \in Connections : owner[d] = b => d <= clients[b]
      BY <2>2, <1>5 DEF IInv, TypeOK, NewestIsCurrent
    <3>2. clients[b] # c
      BY <3>1, <1>4, Numbers
    <3>3. clients[b] <= connects'
      BY <3>1, <1>1, <1>2, Numbers DEF c
    <3> QED
      BY <3>1, <3>2, <3>3, <2>2, <1>5
  <2> QED
    BY <2>1, <2>2
<1>10. FirstIsHeard'
  <2> SUFFICES ASSUME NEW b \in ClientIds, clients'[b] # None,
                      \A d \in Connections : d < clients'[b] => owner'[d] # owner'[clients'[b]]
               PROVE  /\ heartbeat'[clients'[b]] \in 0 .. H
                      /\ idle'[clients'[b]] + heartbeat'[clients'[b]] <= H
    BY DEF FirstIsHeard, First
  <2>1. CASE b = id
    BY <2>1, <1>1, <1>2, <1>4, <1>5, Numbers
  <2>2. CASE b # id
    <3>1. clients'[b] = clients[b] /\ clients[b] \in Connections /\ owner[clients[b]] = b
      BY <2>2, <1>5 DEF IInv, TypeOK, NewestIsCurrent
    <3>2. clients[b] # c
      BY <3>1, <1>4, Numbers
    <3>3. ASSUME NEW d \in Connections, d < clients[b]
          PROVE  owner[d] # owner[clients[b]]
      <4>1. owner'[d] # owner'[clients[b]]
        BY <3>1, <3>3
      <4>2. owner'[clients[b]] = owner[clients[b]]
        BY <3>1, <3>2, <1>5
      <4>3. d # c
        <5>1. clients[b] <= connects /\ clients[b] \in Nat /\ d \in Nat
          BY <3>1, <2>2, <1>5, Numbers DEF IInv, NewestIsCurrent
        <5> QED
          BY <5>1, <3>3, <1>2, <1>3
      <4> QED
        BY <4>1, <4>2, <4>3, <1>5
    <3>4. First(clients[b])
      BY <3>3 DEF First
    <3> QED
      BY <3>1, <3>2, <3>4, <1>1, <1>5 DEF IInv, FirstIsHeard
  <2> QED
    BY <2>1, <2>2
<1>11. SidesAgree'
  <2> SUFFICES ASSUME NEW b \in ClientIds, NEW ch \in Channels
               PROVE  LET holds == clients'[b] # None /\ ch \in subscriptions[clients'[b]]
                      IN /\ holds => b \in channels[ch]
                         /\ b \in channels[ch] => holds \/ b \in replaced'
    BY <1>1 DEF SidesAgree
  <2>1. LET holds == clients[b] # None /\ ch \in subscriptions[clients[b]]
        IN /\ holds => b \in channels[ch]
           /\ b \in channels[ch] => holds \/ b \in replaced
    BY DEF IInv, SidesAgree
  <2>2. replaced \subseteq replaced' /\ (clients[id] # None => id \in replaced')
    BY <1>1 DEF Connected
  <2> QED
    BY <2>1, <2>2, <1>4, <1>5, <1>6
<1> QED
  BY <1>7, <1>8, <1>9, <1>10, <1>11 DEF IInv

LEMMA HandleDisconnectionIInv ==
  ASSUME IInv, NEW id \in ClientIds, HandleDisconnection(id)
  PROVE  IInv'
<1>1. id \in Connected /\ Disconnect(id) /\ UNCHANGED <<connects, owner, idle, heartbeat, silent, replaced>>
  BY DEF HandleDisconnection
<1>2. TypeOK'
  BY <1>1, DisconnectFacts DEF IInv, TypeOK
<1>3. UnmadeAreBlank'
  BY <1>1, DisconnectFacts DEF IInv, UnmadeAreBlank
<1>4. FirstIsHeard'
  BY <1>1, DisconnectFacts DEF IInv, FirstIsHeard, First
<1> QED
  BY <1>1, <1>2, <1>3, <1>4, DisconnectFacts DEF IInv

(* Both sides of a subscription change together.                           *)
LEMMA SubscribeIInv ==
  ASSUME IInv, NEW id \in ClientIds, NEW ch \in Channels, Subscribe(id, ch) \/ Unsubscribe(id, ch)
  PROVE  IInv'
<1>1. id \in Connected /\ UNCHANGED <<clients, connects, owner, idle, heartbeat, silent, replaced>>
  BY DEF Subscribe, Unsubscribe
<1>2. \/ /\ channels' = [channels EXCEPT ![ch] = @ \cup {id}]
         /\ subscriptions' = [subscriptions EXCEPT ![clients[id]] = @ \cup {ch}]
      \/ /\ channels' = [channels EXCEPT ![ch] = @ \ {id}]
         /\ subscriptions' = [subscriptions EXCEPT ![clients[id]] = @ \ {ch}]
  BY DEF Subscribe, Unsubscribe
<1>3. channels \in [Channels -> SUBSET ClientIds] /\ subscriptions \in [Connections -> SUBSET Channels]
  BY DEF IInv, TypeOK
<1>4. channels' \in [Channels -> SUBSET ClientIds] /\ subscriptions' \in [Connections -> SUBSET Channels]
  BY <1>1, <1>2, <1>3, CurrentFacts
<1>5. /\ \A k \in Channels : k # ch => channels'[k] = channels[k]
      /\ \A c \in Connections : c # clients[id] => subscriptions'[c] = subscriptions[c]
      /\ \A b \in ClientIds : b # id => (b \in channels'[ch] <=> b \in channels[ch])
      /\ \A k \in Channels : k # ch => (k \in subscriptions'[clients[id]] <=> k \in subscriptions[clients[id]])
      /\ id \in channels'[ch] <=> ch \in subscriptions'[clients[id]]
  BY <1>1, <1>2, <1>3, CurrentFacts
<1>6. TypeOK'
  BY <1>1, <1>4 DEF IInv, TypeOK
<1>7. UnmadeAreBlank'
  <2>1. ~(clients[id] > connects)
    BY <1>1, CurrentFacts, Numbers DEF IInv, NewestIsCurrent, TypeOK
  <2> QED
    BY <2>1, <1>1, <1>5 DEF IInv, UnmadeAreBlank
<1>8. NewestIsCurrent' /\ FirstIsHeard'
  BY <1>1 DEF IInv, NewestIsCurrent, FirstIsHeard, First
<1>9. SidesAgree'
  <2> SUFFICES ASSUME NEW b \in ClientIds, NEW k \in Channels
               PROVE  LET holds == clients[b] # None /\ k \in subscriptions'[clients[b]]
                      IN /\ holds => b \in channels'[k]
                         /\ b \in channels'[k] => holds \/ b \in replaced
    BY <1>1 DEF SidesAgree
  <2>1. LET holds == clients[b] # None /\ k \in subscriptions[clients[b]]
        IN /\ holds => b \in channels[k]
           /\ b \in channels[k] => holds \/ b \in replaced
    BY DEF IInv, SidesAgree
  <2>2. clients[b] # None => clients[b] \in Connections
    BY DEF IInv, TypeOK
  <2>3. CASE b = id
    <3>1. CASE k = ch
      BY <2>3, <3>1, <1>1, <1>5, CurrentFacts
    <3>2. CASE k # ch
      BY <2>1, <2>3, <3>2, <1>5
    <3> QED
      BY <3>1, <3>2
  <2>4. CASE b # id
    <3>1. clients[b] # clients[id]
      BY <2>4, <1>1, CurrentFacts
    <3>2. b \in channels'[k] <=> b \in channels[k]
      BY <2>4, <1>5
    <3> QED
      BY <3>1, <3>2, <2>1, <2>2, <1>5
  <2> QED
    BY <2>3, <2>4
<1> QED
  BY <1>6, <1>7, <1>8, <1>9 DEF IInv

(* sendToClient(), broadcast() and broadcastAll().                         *)
LEMMA SendIInv ==
  ASSUME IInv, NEW ids, Active(ids),
         UNCHANGED <<clients, connects, owner, subscriptions, heartbeat, channels, silent, replaced>>
  PROVE  IInv'
<1>1. /\ idle' \in [Connections -> 0..Dead]
      /\ \A c \in Connections : idle'[c] = 0 \/ idle'[c] = idle[c]
  BY ActiveFacts DEF IInv
<1>2. TypeOK' /\ UnmadeAreBlank' /\ NewestIsCurrent' /\ SidesAgree'
  BY <1>1 DEF IInv, TypeOK, UnmadeAreBlank, NewestIsCurrent, SidesAgree
<1>3. FirstIsHeard'
  <2> SUFFICES ASSUME NEW b \in ClientIds, clients[b] # None, First(clients[b])
               PROVE  /\ heartbeat[clients[b]] \in 0 .. H
                      /\ idle'[clients[b]] + heartbeat[clients[b]] <= H
    BY DEF FirstIsHeard, First
  <2>1. /\ heartbeat[clients[b]] \in 0 .. H /\ clients[b] \in Connections
        /\ idle[clients[b]] + heartbeat[clients[b]] <= H
    BY DEF IInv, TypeOK, FirstIsHeard
  <2> QED
    BY <2>1, <1>1, Numbers
<1> QED
  BY <1>2, <1>3 DEF IInv

(* A beat that finds its client, resets it and the timer together; a beat  *)
(* that does not, or takes it out, is not that of a current connection.    *)
LEMMA BeatIInv ==
  ASSUME IInv, NEW c \in Connections, Beat(c)
  PROVE  IInv'
<1> DEFINE id == owner[c]
<1>1. heartbeat[c] = 0 /\ UNCHANGED <<connects, owner, silent, replaced>>
  BY DEF Beat
<1>2. ~(c > connects)
  BY <1>1, Numbers DEF IInv, UnmadeAreBlank, Off
<1>3. CASE /\ id \notin Connected
           /\ heartbeat' = [heartbeat EXCEPT ![c] = Off]
           /\ UNCHANGED <<clients, subscriptions, idle, channels>>
  <2>1. TypeOK'
    <3>1. heartbeat' \in [Connections -> 0..H \cup {Off}]
      BY <1>3 DEF IInv, TypeOK
    <3> QED
      BY <3>1, <1>1, <1>3 DEF IInv, TypeOK
  <2>2. UnmadeAreBlank' /\ NewestIsCurrent' /\ SidesAgree'
    BY <1>1, <1>2, <1>3 DEF IInv, TypeOK, UnmadeAreBlank, NewestIsCurrent, SidesAgree
  <2>3. \A b \in ClientIds : clients[b] # None => clients[b] # c /\ clients[b] \in Connections
    BY <1>3, CurrentFacts DEF Connected
  <2>4. FirstIsHeard'
    BY <2>3, <1>1, <1>3 DEF IInv, TypeOK, FirstIsHeard, First
  <2> QED
    BY <2>1, <2>2, <2>4 DEF IInv
<1>4. CASE /\ id \in Connected
           /\ Disconnect(id)
           /\ heartbeat' = [heartbeat EXCEPT ![c] = Off]
           /\ UNCHANGED idle
  <2> HIDE DEF id
  <2>1. TypeOK'
    <3>1. heartbeat' \in [Connections -> 0..H \cup {Off}]
      BY <1>4 DEF IInv, TypeOK
    <3> QED
      BY <3>1, <1>1, <1>4, DisconnectFacts DEF IInv, TypeOK
  <2>2. \A b \in Connections : heartbeat'[b] = IF b = c THEN Off ELSE heartbeat[b]
    BY <1>4 DEF IInv, TypeOK
  <2>3. UnmadeAreBlank'
    BY <2>2, <1>1, <1>2, <1>4, DisconnectFacts DEF IInv, UnmadeAreBlank
  <2>4. FirstIsHeard'
    <3> SUFFICES ASSUME NEW b \in ClientIds, clients'[b] # None,
                        \A d \in Connections : d < clients'[b] => owner'[d] # owner'[clients'[b]]
                 PROVE  /\ heartbeat'[clients'[b]] \in 0 .. H
                        /\ idle'[clients'[b]] + heartbeat'[clients'[b]] <= H
      BY DEF FirstIsHeard, First
    <3>1. b # id /\ clients'[b] = clients[b] /\ clients[b] \in Connections
      BY <1>1, <1>4, DisconnectFacts DEF IInv, TypeOK
    <3>2. clients[b] # c
      BY <3>1, CurrentFacts DEF Connected, id
    <3>3. First(clients[b])
      BY <3>1, <1>1 DEF First
    <3> QED
      BY <3>1, <3>2, <3>3, <2>2, <1>4 DEF IInv, FirstIsHeard
  <2> QED
    BY <2>1, <2>3, <2>4, <1>1, <1>4, DisconnectFacts DEF IInv
<1>5. CASE /\ id \in Connected
           /\ Active({id})
           /\ heartbeat' = [heartbeat EXCEPT ![c] = H]
           /\ UNCHANGED <<clients, subscriptions, channels>>
  <2>1. /\ idle' \in [Connections -> 0..Dead]
        /\ \A b \in Connections : idle'[b] = 0 \/ idle'[b] = idle[b]
        /\ idle'[clients[id]] = 0
    BY <1>5, ActiveFacts DEF IInv
  <2> HIDE DEF id
  <2>2. TypeOK'
    <3>1. heartbeat' \in [Connections -> 0..H \cup {Off}]
      BY <1>5, Numbers DEF IInv, TypeOK
    <3> QED
      BY <3>1, <2>1, <1>1, <1>5 DEF IInv, TypeOK
  <2>3. \A b \in Connections : heartbeat'[b] = IF b = c THEN H ELSE heartbeat[b]
    BY <1>5 DEF IInv, TypeOK
  <2>4. UnmadeAreBlank' /\ NewestIsCurrent' /\ SidesAgree'
    BY <2>1, <2>3, <1>1, <1>2, <1>5 DEF IInv, UnmadeAreBlank, NewestIsCurrent, SidesAgree
  <2>5. FirstIsHeard'
    <3> SUFFICES ASSUME NEW b \in ClientIds, clients[b] # None, First(clients[b])
                 PROVE  /\ heartbeat'[clients[b]] \in 0 .. H
                        /\ idle'[clients[b]] + heartbeat'[clients[b]] <= H
      BY <1>1, <1>5 DEF FirstIsHeard, First
    <3>1. /\ heartbeat[clients[b]] \in 0 .. H /\ clients[b] \in Connections
          /\ idle[clients[b]] + heartbeat[clients[b]] <= H /\ idle[clients[b]] \in 0..Dead
      BY DEF IInv, TypeOK, FirstIsHeard
    <3>2. CASE clients[b] = c
      <4>1. b = id
        BY <3>2, CurrentFacts DEF Connected, id
      <4>2. idle'[clients[b]] = 0 /\ heartbeat'[clients[b]] = H
        BY <4>1, <3>2, <2>1, <2>3
      <4> QED
        BY <4>2, Numbers
    <3>3. CASE clients[b] # c
      <4>1. heartbeat'[clients[b]] = heartbeat[clients[b]]
        BY <3>1, <3>3, <2>3
      <4>2. idle'[clients[b]] = 0 \/ idle'[clients[b]] = idle[clients[b]]
        BY <3>1, <2>1
      <4> QED
        BY <4>1, <4>2, <3>1, Numbers
    <3> QED
      BY <3>2, <3>3
  <2> QED
    BY <2>2, <2>4, <2>5 DEF IInv
<1> QED
  BY <1>3, <1>4, <1>5 DEF Beat

(* A tick takes from the timer what it adds to the idle time.              *)
LEMMA TickIInv ==
  ASSUME IInv, Tick
  PROVE  IInv'
<1>1. /\ \A c \in Connections : heartbeat[c] # 0
      /\ heartbeat' = [c \in Connections |-> IF heartbeat[c] = Off THEN Off ELSE heartbeat[c] - 1]
      /\ idle' = [c \in Connections |-> IF Made(c) /\ idle[c] < Dead THEN idle[c] + 1 ELSE idle[c]]
      /\ UNCHANGED <<clients, connects, owner, subscriptions, channels, silent, replaced>>
  BY DEF Tick
<1>2. \A c \in Connections : heartbeat[c] \in 0..H \cup {Off} /\ idle[c] \in 0..Dead
  BY DEF IInv, TypeOK
<1>3. \A c \in Connections : /\ heartbeat[c] # Off => heartbeat[c] - 1 \in 0..H
                             /\ idle[c] < Dead => idle[c] + 1 \in 0..Dead
  BY <1>1, <1>2, Numbers
<1>4. TypeOK'
  <2>1. heartbeat' \in [Connections -> 0..H \cup {Off}]
    BY <1>1, <1>3
  <2>2. idle' \in [Connections -> 0..Dead]
    BY <1>1, <1>2, <1>3
  <2> QED
    BY <2>1, <2>2, <1>1 DEF IInv, TypeOK
<1>5. UnmadeAreBlank'
  <2>1. \A c \in Connections : c > connects => ~Made(c)
    BY Numbers DEF Made, IInv, TypeOK
  <2> QED
    BY <2>1, <1>1 DEF IInv, UnmadeAreBlank
<1>6. NewestIsCurrent' /\ SidesAgree'
  BY <1>1 DEF IInv, NewestIsCurrent, SidesAgree
<1>7. FirstIsHeard'
  <2> SUFFICES ASSUME NEW b \in ClientIds, clients[b] # None, First(clients[b])
               PROVE  /\ heartbeat'[clients[b]] \in 0 .. H
                      /\ idle'[clients[b]] + heartbeat'[clients[b]] <= H
    BY <1>1 DEF FirstIsHeard, First
  <2>1. /\ heartbeat[clients[b]] \in 0 .. H /\ clients[b] \in Connections
        /\ idle[clients[b]] + heartbeat[clients[b]] <= H
    BY DEF IInv, TypeOK, FirstIsHeard
  <2>2. heartbeat[clients[b]] # Off /\ heartbeat[clients[b]] # 0
    BY <2>1, <1>1, Numbers
  <2>3. /\ heartbeat'[clients[b]] = heartbeat[clients[b]] - 1
        /\ idle'[clients[b]] = idle[clients[b]] + 1 \/ idle'[clients[b]] = idle[clients[b]]
    BY <2>1, <2>2, <1>1
  <2>4. idle[clients[b]] \in Nat
    BY <2>1, <1>2
  <2> DEFINE h  == heartbeat[clients[b]]
             h1 == heartbeat'[clients[b]]
             i  == idle[clients[b]]
             i1 == idle'[clients[b]]
  <2>5. h \in Nat /\ h >= 1 /\ h <= H /\ i + h <= H /\ h1 = h - 1 /\ (i1 = i + 1 \/ i1 = i)
    BY <2>1, <2>2, <2>3, Numbers
  <2> HIDE DEF h, h1, i, i1
  <2>6. h1 \in 0 .. H /\ i1 + h1 <= H
    BY <2>4, <2>5, Numbers DEF i
  <2> QED
    BY <2>6 DEF h1, i1
<1> QED
  BY <1>4, <1>5, <1>6, <1>7 DEF IInv

LEMMA QuietIInv ==
  ASSUME IInv, (\E c \in Connections : FallSilent(c)) \/ UNCHANGED vars
  PROVE  IInv'
<1>1. /\ UNCHANGED <<clients, connects, owner, subscriptions, idle, heartbeat, channels, replaced>>
      /\ silent' \subseteq silent \cup Connections
  BY DEF FallSilent, vars
<1>2. TypeOK'
  BY <1>1 DEF IInv, TypeOK
<1>3. UnmadeAreBlank' /\ NewestIsCurrent' /\ FirstIsHeard' /\ SidesAgree'
  BY <1>1 DEF IInv, UnmadeAreBlank, NewestIsCurrent, FirstIsHeard, First, SidesAgree
<1> QED
  BY <1>2, <1>3 DEF IInv

LEMMA NextIInv == IInv /\ [Next]_vars => IInv'
<1> SUFFICES ASSUME IInv, [Next]_vars PROVE IInv'
  OBVIOUS
<1>1. ASSUME NEW id \in ClientIds, SendToClient(id) PROVE IInv'
  BY <1>1, SendIInv DEF SendToClient
<1>2. ASSUME BroadcastAll PROVE IInv'
  BY <1>2, SendIInv DEF BroadcastAll
<1>3. ASSUME NEW ch \in Channels, Broadcast(ch) PROVE IInv'
  BY <1>3, SendIInv DEF Broadcast
<1> QED
  BY <1>1, <1>2, <1>3, HandleConnectionIInv, HandleDisconnectionIInv, SubscribeIInv, BeatIInv,
     TickIInv, QuietIInv DEF Next, CloseConnection

(* The sizes that getStatistics() tells.                                   *)
LEMMA StatisticsAgree ==
  ASSUME IInv
  PROVE  /\ Cardinality(Connected) <= connects
         /\ replaced = {} =>
              {ch \in Channels : channels[ch] # {}} = UNION {info.subscriptions : info \in GetAllClients}
<1>1. Cardinality(Connected) <= connects
  <2> DEFINE f == [id \in Connected |-> clients[id]]
  <2>1. connects \in Nat
    BY DEF IInv, TypeOK
  <2>2. IsFiniteSet(1..connects) /\ Cardinality(1..connects) = connects
    BY <2>1, FS_Interval
  <2>3. \A id \in Connected : clients[id] \in 1..connects
    <3>1. TAKE id \in Connected
    <3>2. clients[id] \in Connections /\ clients[id] <= connects
      BY CurrentFacts DEF IInv, NewestIsCurrent
    <3> QED
      BY <3>2, <2>1, Numbers
  <2>4. \A a, b \in Connected : a # b => clients[a] # clients[b]
    BY CurrentFacts
  <2>5. f \in Injection(Connected, 1..connects)
    BY <2>3, <2>4 DEF Injection, IsInjective
  <2> QED
    BY <2>2, <2>5, FS_Injection
<1>2. ASSUME replaced = {}
      PROVE  {ch \in Channels : channels[ch] # {}} = UNION {info.subscriptions : info \in GetAllClients}
  <2>1. \A id \in ClientIds, ch \in Channels :
          id \in channels[ch] <=> id \in Connected /\ ch \in subscriptions[clients[id]]
    BY <1>2 DEF IInv, SidesAgree, Connected
  <2>2. \A ch : ch \in UNION {info.subscriptions : info \in GetAllClients}
                 <=> \E id \in Connected : ch \in subscriptions[clients[id]]
    <3>1. \A id \in Connected : GetClientInfo(id).subscriptions = subscriptions[clients[id]]
      BY DEF GetClientInfo, GetClientSubscriptions
    <3> QED
      BY <3>1 DEF GetAllClients
  <2>3. \A id \in Connected : id \in ClientIds /\ subscriptions[clients[id]] \subseteq Channels
    BY CurrentFacts DEF IInv, TypeOK
  <2>4. \A ch \in Channels : channels[ch] \subseteq ClientIds
    BY DEF IInv, TypeOK
  <2> HIDE DEF IInv
  <2> QED
    BY <2>1, <2>2, <2>3, <2>4
<1> QED
  BY <1>1, <1>2

LEMMA AgreeFollows == IInv => SubscriptionsAgree
<1> SUFFICES ASSUME IInv PROVE SubscriptionsAgree
  OBVIOUS
<1>1. ASSUME NEW id \in ClientIds, NEW ch \in Channels
      PROVE  LET holds == ch \in GetClientSubscriptions(id)
             IN /\ holds => id \in GetChannelSubscribers(ch)
                /\ id \in GetChannelSubscribers(ch) => holds \/ id \in replaced
  BY DEF IInv, SidesAgree, GetClientSubscriptions, GetChannelSubscribers, Connected
<1>2. replaced = {} =>
        Statistics.totalChannels = Cardinality(UNION {info.subscriptions : info \in GetAllClients})
  BY StatisticsAgree DEF Statistics
<1>3. Statistics.activeConnections <= Statistics.totalConnections
  BY StatisticsAgree DEF Statistics
<1> QED
  BY <1>1, <1>2, <1>3 DEF SubscriptionsAgree

(* Only a beat ends a timer, and that of a connection that was made.  It   *)
(* is the connection's own beat, when there was no earlier one, that finds *)
(* it idle for at most an interval.                                        *)
LEMMA KillStep ==
  ASSUME IInv, [Next]_vars,
         NEW id \in Connected, NEW t \in Connections,
         heartbeat[t] = 0, heartbeat'[t] = Off, clients'[id] = None
  PROVE  \E c \in Connections : c < clients[id] /\ owner[c] = id
<1>1. /\ id \in ClientIds /\ clients[id] \in Connections /\ clients[id] # None
      /\ owner[clients[id]] = id
      /\ \A other \in ClientIds : other # id => clients[other] # clients[id]
  BY CurrentFacts
<1>2. heartbeat'[t] # heartbeat[t]
  BY Numbers DEF Off
<1>3. PICK c \in Connections : Beat(c)
  <2>1. ~Tick
    BY DEF Tick
  <2>2. ASSUME NEW b \in ClientIds, HandleConnection(b)
        PROVE  FALSE
    <3>1. heartbeat'[t] = H \/ heartbeat'[t] = heartbeat[t]
      BY <2>2 DEF HandleConnection, IInv, TypeOK
    <3> QED
      BY <3>1, <1>2, Numbers DEF Off
  <2>3. \/ \E b \in ClientIds :
             \/ HandleConnection(b) \/ HandleDisconnection(b) \/ SendToClient(b)
             \/ \E ch \in Channels : Subscribe(b, ch) \/ Unsubscribe(b, ch)
        \/ BroadcastAll \/ (\E ch \in Channels : Broadcast(ch))
        \/ \E c \in Connections : Beat(c) \/ FallSilent(c)
        \/ Tick \/ UNCHANGED vars
    BY DEF Next, CloseConnection
  <2>4. ASSUME UNCHANGED heartbeat PROVE FALSE
    BY <1>2, <2>4
  <2>5. ASSUME NEW b \in ClientIds,
               HandleDisconnection(b) \/ SendToClient(b)
                 \/ (\E ch \in Channels : Subscribe(b, ch) \/ Unsubscribe(b, ch))
        PROVE  FALSE
    BY <2>4, <2>5 DEF HandleDisconnection, SendToClient, Subscribe, Unsubscribe
  <2>6. ASSUME BroadcastAll \/ (\E ch \in Channels : Broadcast(ch))
                 \/ (\E c \in Connections : FallSilent(c)) \/ UNCHANGED vars
        PROVE  FALSE
    BY <2>4, <2>6 DEF BroadcastAll, Broadcast, FallSilent, vars
  <2> QED
    BY <2>1, <2>2, <2>3, <2>5, <2>6
<1>4. clients' # clients
  BY <1>1
<1>5. owner[c] \in Connected /\ idle[c] > 2 * H /\ Disconnect(owner[c]) /\ heartbeat[c] = 0
  BY <1>3, <1>4 DEF Beat
<1>6. owner[c] = id
  <2>1. clients' = [clients EXCEPT ![owner[c]] = None]
    BY <1>5 DEF Disconnect
  <2> QED
    BY <2>1, <1>1 DEF IInv, TypeOK
<1>7. c <= clients[id] /\ c \in Nat /\ clients[id] \in Nat
  BY <1>1, <1>6, Numbers DEF IInv, NewestIsCurrent
<1>8. CASE c < clients[id]
  BY <1>6, <1>8
<1>9. CASE c = clients[id]
  <2>1. ~First(clients[id])
    <3>1. SUFFICES ASSUME First(clients[id]) PROVE FALSE
      OBVIOUS
    <3>2. idle[c] + heartbeat[c] <= H /\ idle[c] \in Nat
      BY <3>1, <1>1, <1>9 DEF IInv, TypeOK, FirstIsHeard
    <3> QED
      BY <3>2, <1>5, Numbers
  <2> QED
    BY <2>1, <1>1 DEF First
<1> QED
  BY <1>7, <1>8, <1>9

-------------------------------------------------------------------------------
(* The properties follow from an invariant that every step preserves.      *)
THEOREM Inductive == Spec => []IInv
<1> QED
  BY InitIInv, NextIInv, PTL DEF Spec

(* Every variable of the manager keeps its type: no timer runs below zero. *)
THEOREM TypeCorrect == Spec => []TypeOK
<1>1. IInv => TypeOK
  BY DEF IInv
<1> QED
  BY Inductive, <1>1, PTL

(* Whatever connects, subscribes, comes back and is timed out in whatever  *)
(* order: a channel and its clients agree, except for ids that were once   *)
(* connected over a live entry, and so do the numbers of getStatistics().  *)
THEOREM BothSidesAgree == Spec => []SubscriptionsAgree
BY Inductive, AgreeFollows, PTL

(* handleConnection() never stops an old timer, and that is the only way   *)
(* in which startHeartbeat()'s callback takes a client out.                *)
THEOREM NoFirstKill == Spec => KillsOnlyAfterReconnect
<1>1. ASSUME IInv, [Next]_vars
      PROVE  [\A id \in Connected :
               ((\E c \in Connections : heartbeat[c] = 0 /\ heartbeat'[c] = Off) /\ clients'[id] = None)
                 => \E c \in Connections : c < clients[id] /\ owner[c] = id]_vars
  BY <1>1, KillStep
<1> QED
  BY Inductive, <1>1, PTL DEF Spec, KillsOnlyAfterReconnect
===============================================================================
