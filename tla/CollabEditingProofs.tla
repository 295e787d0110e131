----------------------- MODULE CollabEditingProofs -----------------------
(***************************************************************************)
(* Who is in a session, what a tab shows of it and what it gets, for any   *)
(* tabs, users, session ids, texts and breakable connections:              *)
(* NobodyLeftBehind, OnlyATwinOrphans, PresenceAgrees and                  *)
(* NothingMissedNorTwice of CollabEditing.                                 *)
(*                                                                         *)
(* The server keeps the members of a session by user and its sockets by    *)
(* tab, and handleDisconnect removes the user for one socket of it.  What  *)
(* holds the two together is that a tab joins once: its join is the first  *)
(* message of its socket, and a tab that has joined and left never comes   *)
(* back.  So a tab whose user is not a member any more, or whose session   *)
(* was deleted or made anew, has a twin that is gone for good (IInv).      *)
(*                                                                         *)
(* On that rest what a tab shows (ShownInv) and what it gets (GetsInv):    *)
(* each handler changes the server's record and tells the sockets of the   *)
(* session in one step, and a channel is FIFO.                             *)
(*                                                                         *)
(* Nothing here depends on what an edit does to a text: Transform, ApplyOp *)
(* and CalculateOperation are never expanded.                              *)
(***************************************************************************)
EXTENDS CollabEditing, TLAPS

\* The part of the types that the argument uses.
Shaped ==
  /\ DOMAIN sessions \subseteq Ids
  /\ \A i \in DOMAIN sessions : "members" \in DOMAIN sessions[i]
  /\ clients \in [Tabs -> Ids \cup {NoSession}]
  /\ born \in [Ids -> Nat]
  /\ DOMAIN joinedAt = Tabs /\ DOMAIN tab = Tabs /\ DOMAIN up = Tabs
  /\ \A t \in Tabs :
       /\ {"phase", "id"} \subseteq DOMAIN tab[t]
       /\ tab[t].phase # "idle" => tab[t].id \in Ids
       /\ up[t] \in Seq(Range(up[t]))

\* No join is under way from tab t.
NoJoin(t) == \A k \in 1..Len(up[t]) : up[t][k].type # "join"

\* A tab joins once, before anything else.
JoinsOnce ==
  \A t \in Tabs :
    /\ tab[t].phase = "idle" => clients[t] = NoSession /\ up[t] = <<>>
    /\ \A k \in 1..Len(up[t]) :
         up[t][k].type = "join" => k = 1 /\ clients[t] = NoSession

\* A tab that was in a session and is in none will not be in one again.
Gone(t) == clients[t] = NoSession /\ tab[t].phase # "idle" /\ NoJoin(t)
TwinGone(t) == \E u \in Tabs \ {t} : UserOf[u] = UserOf[t] /\ Gone(u)

\* A tab in a session is counted in it, or has a twin that is gone.
CountedIn ==
  \A t \in Tabs : clients[t] # NoSession =>
    \/ Attached(t) /\ UserOf[t] \in sessions[clients[t]].members
    \/ TwinGone(t)

IInv == Shaped /\ JoinsOnce /\ NobodyLeftBehind /\ CountedIn

-------------------------------------------------------------------------------
(* Channels.                                                                *)

LEMMA AppendFacts ==
  ASSUME NEW s, s \in Seq(Range(s)), NEW m
  PROVE  /\ Append(s, m) \in Seq(Range(Append(s, m)))
         /\ Len(s) \in Nat /\ Len(Append(s, m)) = Len(s) + 1
         /\ \A k \in 1..Len(s) : Append(s, m)[k] = s[k]
         /\ Append(s, m)[Len(s) + 1] = m
<1> DEFINE S == Range(s) \cup {m}
<1>1. s \in Seq(S) /\ m \in S
  BY DEF Range
<1> HIDE DEF S
<1>2. /\ Append(s, m) \in Seq(S)
      /\ Len(s) \in Nat /\ Len(Append(s, m)) = Len(s) + 1
      /\ \A k \in 1..Len(s) : Append(s, m)[k] = s[k]
      /\ Append(s, m)[Len(s) + 1] = m
      /\ DOMAIN Append(s, m) = 1..Len(Append(s, m))
  BY <1>1
<1>3. Append(s, m) \in Seq(Range(Append(s, m)))
  <2> DEFINE a == Append(s, m)
  <2>1. a \in Seq(S) /\ DOMAIN a = 1..Len(a)
    BY <1>2
  <2> HIDE DEF a
  <2>2. a \in Seq(Range(a))
    BY <2>1 DEF Range
  <2> QED BY <2>2 DEF a
<1> QED BY <1>2, <1>3

LEMMA TailFacts ==
  ASSUME NEW s, s \in Seq(Range(s)), s # <<>>
  PROVE  /\ Tail(s) \in Seq(Range(Tail(s)))
         /\ Len(s) \in Nat /\ Len(s) >= 1 /\ Len(Tail(s)) = Len(s) - 1
         /\ Head(s) = s[1]
         /\ \A k \in 1..Len(Tail(s)) : k + 1 \in 1..Len(s) /\ Tail(s)[k] = s[k + 1]
<1> DEFINE S == Range(s)
<1> HIDE DEF S
<1>1. s \in Seq(S)
  BY DEF S
<1>2. /\ Tail(s) \in Seq(S) /\ DOMAIN Tail(s) = 1..Len(Tail(s))
      /\ Len(s) \in Nat /\ Len(s) >= 1 /\ Len(Tail(s)) = Len(s) - 1
      /\ Head(s) = s[1]
      /\ \A k \in 1..Len(Tail(s)) : k + 1 \in 1..Len(s) /\ Tail(s)[k] = s[k + 1]
  BY <1>1
<1>3. ASSUME NEW a, a \in Seq(S), DOMAIN a = 1..Len(a)
      PROVE  a \in Seq(Range(a))
  BY <1>3 DEF Range
<1> QED BY <1>2, <1>3

LEMMA PrefixFacts ==
  ASSUME NEW s, s \in Seq(Range(s)), NEW n \in 0..Len(s)
  PROVE  /\ SubSeq(s, 1, n) \in Seq(Range(SubSeq(s, 1, n)))
         /\ Len(s) \in Nat /\ Len(SubSeq(s, 1, n)) = n
         /\ \A k \in 1..n : SubSeq(s, 1, n)[k] = s[k]
<1> DEFINE S == Range(s)
<1> HIDE DEF S
<1>1. s \in Seq(S)
  BY DEF S
<1>2. /\ SubSeq(s, 1, n) \in Seq(S)
      /\ DOMAIN SubSeq(s, 1, n) = 1..Len(SubSeq(s, 1, n))
      /\ Len(s) \in Nat /\ Len(SubSeq(s, 1, n)) = n
      /\ \A k \in 1..n : SubSeq(s, 1, n)[k] = s[k]
  BY <1>1
<1>3. ASSUME NEW a, a \in Seq(S), DOMAIN a = 1..Len(a)
      PROVE  a \in Seq(Range(a))
  BY <1>3 DEF Range
<1> QED BY <1>2, <1>3

-------------------------------------------------------------------------------
(* The steps of a tab.                                                      *)

\* What a step of tab t owes the invariant: the server is as it was, the other
\* tabs are as they were, and t sends no join but its first message.
LEMMA TabSteps ==
  ASSUME IInv, NEW t \in Tabs, UNCHANGED server,
         DOMAIN tab' = Tabs, DOMAIN up' = Tabs,
         \A u \in Tabs \ {t} : tab'[u] = tab[u] /\ up'[u] = up[u],
         {"phase", "id"} \subseteq DOMAIN tab'[t],
         tab'[t].phase # "idle", tab'[t].id \in Ids,
         up'[t] \in Seq(Range(up'[t])),
         \A k \in 1..Len(up'[t]) :
           up'[t][k].type = "join" => k = 1 /\ clients[t] = NoSession,
         tab[t].phase # "idle" /\ NoJoin(t) => NoJoin(t)'
  PROVE  IInv'
<1>0. UNCHANGED <<sessions, clients, born, joinedAt>>
  BY DEF server
<1>1. Shaped'
  <2>1. ASSUME NEW u \in Tabs
        PROVE  /\ {"phase", "id"} \subseteq DOMAIN tab'[u]
               /\ tab'[u].phase # "idle" => tab'[u].id \in Ids
               /\ up'[u] \in Seq(Range(up'[u]))
    BY DEF IInv, Shaped
  <2> QED BY <1>0, <2>1 DEF IInv, Shaped
<1>2. JoinsOnce'
  BY <1>0 DEF IInv, JoinsOnce
<1>3. NobodyLeftBehind'
  BY <1>0 DEF IInv, NobodyLeftBehind
<1>4. ASSUME NEW u \in Tabs, Gone(u) PROVE Gone(u)'
  BY <1>0, <1>4 DEF Gone, NoJoin
<1>5. CountedIn'
  <2> SUFFICES ASSUME NEW u \in Tabs, clients'[u] # NoSession
               PROVE  \/ Attached(u)' /\ UserOf[u] \in sessions'[clients'[u]].members
                      \/ TwinGone(u)'
    BY DEF CountedIn
  <2>1. \/ Attached(u) /\ UserOf[u] \in sessions[clients[u]].members
        \/ TwinGone(u)
    BY <1>0 DEF IInv, CountedIn
  <2>2. CASE Attached(u) /\ UserOf[u] \in sessions[clients[u]].members
    BY <1>0, <2>2 DEF Attached
  <2>3. CASE TwinGone(u)
    BY <1>4, <2>3 DEF TwinGone
  <2> QED BY <2>1, <2>2, <2>3
<1> QED BY <1>1, <1>2, <1>3, <1>5 DEF IInv

\* What SendUp does to the channels.
LEMMA SendUpFacts ==
  ASSUME IInv, NEW t \in Tabs, NEW m, SendUp(t, m)
  PROVE  /\ DOMAIN up' = Tabs
         /\ \A u \in Tabs \ {t} : up'[u] = up[u]
         /\ up'[t] \in Seq(Range(up'[t]))
         /\ Len(up[t]) \in Nat
         /\ \A k \in 1..Len(up'[t]) : \/ k \in 1..Len(up[t]) /\ up'[t][k] = up[t][k]
                                      \/ k = Len(up[t]) + 1 /\ up'[t][k] = m
<1>1. DOMAIN up = Tabs /\ up[t] \in Seq(Range(up[t]))
  BY DEF IInv, Shaped
<1>2. /\ DOMAIN up' = Tabs
      /\ \A u \in Tabs \ {t} : up'[u] = up[u]
      /\ up'[t] = up[t] \/ up'[t] = Append(up[t], m)
  BY <1>1 DEF SendUp
<1>3. /\ Append(up[t], m) \in Seq(Range(Append(up[t], m)))
      /\ Len(up[t]) \in Nat /\ Len(Append(up[t], m)) = Len(up[t]) + 1
      /\ \A k \in 1..Len(up[t]) : Append(up[t], m)[k] = up[t][k]
      /\ Append(up[t], m)[Len(up[t]) + 1] = m
  BY <1>1, AppendFacts
<1>4. CASE up'[t] = up[t]
  BY <1>1, <1>2, <1>3, <1>4
<1>5. CASE up'[t] = Append(up[t], m)
  <2> DEFINE a == Append(up[t], m)
  <2>1. /\ up'[t] = a /\ a \in Seq(Range(a))
        /\ Len(up[t]) \in Nat /\ Len(a) = Len(up[t]) + 1
        /\ \A k \in 1..Len(up[t]) : a[k] = up[t][k]
        /\ a[Len(up[t]) + 1] = m
    BY <1>3, <1>5
  <2> HIDE DEF a
  <2>2. ASSUME NEW k \in 1..Len(a)
        PROVE  \/ k \in 1..Len(up[t]) /\ a[k] = up[t][k]
               \/ k = Len(up[t]) + 1 /\ a[k] = m
    BY <2>1
  <2> QED BY <1>2, <2>1, <2>2
<1> QED BY <1>2, <1>4, <1>5

\* A message that is no join may be sent at any time.
LEMMA SendsNoJoin ==
  ASSUME IInv, NEW t \in Tabs, NEW m, SendUp(t, m), m.type # "join"
  PROVE  /\ \A k \in 1..Len(up'[t]) :
              up'[t][k].type = "join" => k = 1 /\ clients[t] = NoSession
         /\ NoJoin(t) => NoJoin(t)'
<1>1. \A k \in 1..Len(up'[t]) : \/ k \in 1..Len(up[t]) /\ up'[t][k] = up[t][k]
                                \/ k = Len(up[t]) + 1 /\ up'[t][k] = m
  BY SendUpFacts
<1>2. \A k \in 1..Len(up[t]) : up[t][k].type = "join" => k = 1 /\ clients[t] = NoSession
  BY DEF IInv, JoinsOnce
<1> QED BY <1>1, <1>2 DEF NoJoin

LEMMA ConnectKeeps ==
  ASSUME IInv, NEW t \in Tabs, NEW id \in Ids, Connect(t, id)
  PROVE  IInv'
<1> DEFINE m == [type |-> "join"]
<1>1. /\ tab[t].phase = "idle" /\ SendUp(t, m) /\ UNCHANGED server
      /\ tab' = [tab EXCEPT ![t].phase = "open", ![t].id = id]
  BY DEF Connect
<1>2. DOMAIN tab = Tabs /\ {"phase", "id"} \subseteq DOMAIN tab[t]
  BY DEF IInv, Shaped
<1>3. clients[t] = NoSession /\ up[t] = <<>>
  BY <1>1 DEF IInv, JoinsOnce
<1> HIDE DEF m
<1>4. /\ DOMAIN up' = Tabs
      /\ \A u \in Tabs \ {t} : up'[u] = up[u]
      /\ up'[t] \in Seq(Range(up'[t]))
      /\ \A k \in 1..Len(up'[t]) : \/ k \in 1..Len(up[t]) /\ up'[t][k] = up[t][k]
                                   \/ k = Len(up[t]) + 1 /\ up'[t][k] = m
  BY <1>1, SendUpFacts
<1>5. \A k \in 1..Len(up'[t]) : k = 1
  BY <1>3, <1>4
<1>6. /\ DOMAIN tab' = Tabs /\ \A u \in Tabs \ {t} : tab'[u] = tab[u]
      /\ {"phase", "id"} \subseteq DOMAIN tab'[t]
      /\ tab'[t].phase = "open" /\ tab'[t].id = id
  BY <1>1, <1>2
<1> QED BY <1>1, <1>3, <1>4, <1>5, <1>6, TabSteps

\* A step of t that leaves its id and does not take it back to "idle".
LEMMA TabGoesOn ==
  ASSUME IInv, NEW t \in Tabs, UNCHANGED server,
         tab[t].phase # "idle",
         DOMAIN tab' = Tabs, \A u \in Tabs \ {t} : tab'[u] = tab[u],
         {"phase", "id"} \subseteq DOMAIN tab'[t],
         tab'[t].phase # "idle", tab'[t].id = tab[t].id,
         \/ UNCHANGED up
         \/ \E m : SendUp(t, m) /\ m.type # "join"
  PROVE  IInv'
<1>1. /\ DOMAIN up = Tabs /\ tab[t].id \in Ids /\ up[t] \in Seq(Range(up[t]))
      /\ \A k \in 1..Len(up[t]) : up[t][k].type = "join" => k = 1 /\ clients[t] = NoSession
  BY DEF IInv, Shaped, JoinsOnce
<1>2. CASE UNCHANGED up
  <2>1. NoJoin(t) => NoJoin(t)'
    BY <1>2 DEF NoJoin
  <2> QED BY <1>1, <1>2, <2>1, TabSteps
<1>3. CASE \E m : SendUp(t, m) /\ m.type # "join"
  <2>1. PICK m : SendUp(t, m) /\ m.type # "join"
    BY <1>3
  <2>2. /\ DOMAIN up' = Tabs
        /\ \A u \in Tabs \ {t} : up'[u] = up[u]
        /\ up'[t] \in Seq(Range(up'[t]))
    BY <2>1, SendUpFacts
  <2>3. /\ \A k \in 1..Len(up'[t]) :
             up'[t][k].type = "join" => k = 1 /\ clients[t] = NoSession
        /\ NoJoin(t) => NoJoin(t)'
    BY <2>1, SendsNoJoin
  <2> QED BY <1>1, <2>2, <2>3, TabSteps
<1> QED BY <1>2, <1>3

\* What an edit does, whatever the operation.
LEMMA EditFacts ==
  ASSUME IInv, NEW t \in Tabs, NEW new, Edit(t, new)
  PROVE  /\ UNCHANGED server /\ UNCHANGED <<down, link>> /\ tab[t].phase = "joined"
         /\ DOMAIN tab' = Tabs /\ \A u \in Tabs \ {t} : tab'[u] = tab[u]
         /\ DOMAIN tab'[t] = DOMAIN tab[t]
         /\ \A f \in DOMAIN tab[t] \ {"text", "lastValue", "queue"} : tab'[t][f] = tab[t][f]
         /\ UNCHANGED up \/ \E m : SendUp(t, m) /\ m.type # "join"
<1> DEFINE ops == CalculateOperation(tab[t].lastValue, new)
           edited == Edited(tab[t], new, ops)
           m == OperationMessage(ops[1], Len(edited.queue))
<1>1. /\ UNCHANGED server /\ UNCHANGED <<down, link>> /\ tab[t].phase = "joined"
      /\ tab' = [tab EXCEPT ![t] = edited]
      /\ UNCHANGED up \/ SendUp(t, m)
  BY DEF Edit
<1>2. m.type = "operation"
  BY DEF OperationMessage
<1>3. /\ DOMAIN edited = DOMAIN tab[t]
      /\ \A f \in DOMAIN tab[t] \ {"text", "lastValue", "queue"} : edited[f] = tab[t][f]
  BY DEF Edited
<1>4. DOMAIN tab = Tabs
  BY DEF IInv, Shaped
<1> HIDE DEF m, edited
<1>5. /\ DOMAIN tab' = Tabs /\ \A u \in Tabs \ {t} : tab'[u] = tab[u]
      /\ tab'[t] = edited
  BY <1>1, <1>4
<1>6. m.type # "join"
  BY <1>2
<1> QED BY <1>1, <1>3, <1>5, <1>6

LEMMA EditKeeps ==
  ASSUME IInv, NEW t \in Tabs, NEW new, Edit(t, new)
  PROVE  IInv'
<1>1. {"phase", "id"} \subseteq DOMAIN tab[t]
  BY DEF IInv, Shaped
<1>2. /\ UNCHANGED server /\ tab[t].phase = "joined"
      /\ DOMAIN tab' = Tabs /\ \A u \in Tabs \ {t} : tab'[u] = tab[u]
      /\ {"phase", "id"} \subseteq DOMAIN tab'[t]
      /\ tab'[t]["phase"] = "joined" /\ tab'[t]["id"] = tab[t]["id"]
      /\ UNCHANGED up \/ \E m : SendUp(t, m) /\ m.type # "join"
  BY <1>1, EditFacts
<1> QED BY <1>2, TabGoesOn

LEMMA ReceiveKeeps ==
  ASSUME IInv, NEW t \in Tabs, Receive(t)
  PROVE  IInv'
<1> DEFINE m == Head(down[t])
           changed == Received(tab[t], m)
<1>1. /\ tab[t].phase \in {"open", "joined"} /\ UNCHANGED server /\ UNCHANGED up
      /\ tab' = [tab EXCEPT ![t] = changed]
  BY DEF Receive
<1>2. DOMAIN tab = Tabs /\ {"phase", "id"} \subseteq DOMAIN tab[t]
  BY DEF IInv, Shaped
<1> HIDE DEF m
<1>3. /\ {"phase", "id"} \subseteq DOMAIN changed
      /\ changed.phase \in {tab[t].phase, "joined"} /\ changed.id = tab[t].id
  <2>1. CASE m.type = "joined"
    BY <1>2, <2>1 DEF Received
  <2>2. CASE m.type = "user-joined"
    BY <1>2, <2>2 DEF Received
  <2>3. CASE m.type = "user-left"
    BY <1>2, <2>3 DEF Received
  <2>4. CASE m.type = "operation"
    BY <1>2, <2>4 DEF Received
  <2>5. CASE m.type \notin {"joined", "user-joined", "user-left", "operation"}
    BY <1>2, <2>5 DEF Received
  <2> QED BY <2>1, <2>2, <2>3, <2>4, <2>5
<1> HIDE DEF changed
<1>4. /\ DOMAIN tab' = Tabs /\ \A u \in Tabs \ {t} : tab'[u] = tab[u]
      /\ tab'[t] = changed
  BY <1>1, <1>2
<1> QED BY <1>1, <1>3, <1>4, TabGoesOn

LEMMA ClosingKeeps ==
  ASSUME IInv, NEW t \in Tabs, Disconnect(t) \/ NoticeClose(t)
  PROVE  IInv'
<1> DEFINE m == [type |-> "leave"]
<1>1. /\ tab[t].phase \in {"open", "joined"} /\ UNCHANGED server
      /\ tab' = [tab EXCEPT ![t].phase = "closed"]
      /\ UNCHANGED up \/ SendUp(t, m)
  BY DEF Disconnect, NoticeClose
<1>2. m.type # "join"
  OBVIOUS
<1>3. DOMAIN tab = Tabs /\ {"phase", "id"} \subseteq DOMAIN tab[t]
  BY DEF IInv, Shaped
<1> HIDE DEF m
<1>4. /\ DOMAIN tab' = Tabs /\ \A u \in Tabs \ {t} : tab'[u] = tab[u]
      /\ {"phase", "id"} \subseteq DOMAIN tab'[t]
      /\ tab'[t].phase = "closed" /\ tab'[t].id = tab[t].id
  BY <1>1, <1>3
<1> QED BY <1>1, <1>2, <1>4, TabGoesOn

LEMMA CutKeeps ==
  ASSUME IInv, NEW t \in Tabs, Cut(t)
  PROVE  IInv'
<1>1. /\ tab[t].phase \in {"open", "joined"} /\ UNCHANGED server /\ UNCHANGED tab
  BY DEF Cut
<1>2. PICK n \in 0..Len(up[t]) : up' = [up EXCEPT ![t] = SubSeq(@, 1, n)]
  BY DEF Cut
<1>3. /\ DOMAIN tab = Tabs /\ {"phase", "id"} \subseteq DOMAIN tab[t] /\ tab[t].id \in Ids
      /\ DOMAIN up = Tabs /\ up[t] \in Seq(Range(up[t]))
  BY <1>1 DEF IInv, Shaped
<1>4. DOMAIN up' = Tabs /\ up'[t] = SubSeq(up[t], 1, n)
      /\ \A u \in Tabs \ {t} : up'[u] = up[u]
  BY <1>2, <1>3
<1>5. /\ up'[t] \in Seq(Range(up'[t])) /\ Len(up[t]) \in Nat /\ Len(up'[t]) = n
      /\ \A k \in 1..n : up'[t][k] = up[t][k]
  BY <1>2, <1>3, <1>4, PrefixFacts
<1>6. \A k \in 1..Len(up'[t]) : k \in 1..Len(up[t]) /\ up'[t][k] = up[t][k]
  BY <1>5
<1>7. \A k \in 1..Len(up[t]) : up[t][k].type = "join" => k = 1 /\ clients[t] = NoSession
  BY DEF IInv, JoinsOnce
<1>8. NoJoin(t) => NoJoin(t)'
  BY <1>6 DEF NoJoin
<1>9. /\ DOMAIN tab' = Tabs /\ \A u \in Tabs \ {t} : tab'[u] = tab[u] /\ up'[u] = up[u]
      /\ {"phase", "id"} \subseteq DOMAIN tab'[t] /\ tab'[t].phase # "idle" /\ tab'[t].id \in Ids
      /\ UNCHANGED server
  BY <1>1, <1>3, <1>4
<1>10. \A k \in 1..Len(up'[t]) : up'[t][k].type = "join" => k = 1 /\ clients[t] = NoSession
  BY <1>6, <1>7
<1> QED BY <1>4, <1>5, <1>8, <1>9, <1>10, TabSteps

-------------------------------------------------------------------------------
(* The steps of the server.                                                 *)

\* The server takes the first message of tab t: no join is left behind it.
LEMMA TakeFacts ==
  ASSUME IInv, NEW t \in Tabs, up[t] # <<>>,
         up' = [up EXCEPT ![t] = Tail(@)], UNCHANGED tab
  PROVE  /\ DOMAIN up' = Tabs
         /\ \A u \in Tabs : up'[u] \in Seq(Range(up'[u]))
         /\ \A u \in Tabs \ {t} : up'[u] = up[u]
         /\ NoJoin(t)'
         /\ tab[t].phase # "idle" /\ tab[t].id \in Ids
         /\ Head(up[t]).type = "join" => clients[t] = NoSession /\ ~NoJoin(t)
<1>1. /\ DOMAIN up = Tabs /\ \A u \in Tabs : up[u] \in Seq(Range(up[u]))
      /\ tab[t].phase # "idle" /\ tab[t].id \in Ids
      /\ \A k \in 1..Len(up[t]) : up[t][k].type = "join" => k = 1 /\ clients[t] = NoSession
  BY DEF IInv, Shaped, JoinsOnce
<1>2. /\ Tail(up[t]) \in Seq(Range(Tail(up[t])))
      /\ Len(up[t]) \in Nat /\ Len(up[t]) >= 1 /\ Len(Tail(up[t])) = Len(up[t]) - 1
      /\ Head(up[t]) = up[t][1]
      /\ \A k \in 1..Len(Tail(up[t])) : k + 1 \in 1..Len(up[t]) /\ Tail(up[t])[k] = up[t][k + 1]
  BY <1>1, TailFacts
<1>3. DOMAIN up' = Tabs /\ up'[t] = Tail(up[t]) /\ \A u \in Tabs \ {t} : up'[u] = up[u]
  BY <1>1
<1>4. \A u \in Tabs : up'[u] \in Seq(Range(up'[u]))
  BY <1>1, <1>2, <1>3
<1>5. NoJoin(t)'
  <2> SUFFICES ASSUME NEW k \in 1..Len(up'[t]), up'[t][k].type = "join"
               PROVE  FALSE
    BY DEF NoJoin
  <2>1. k \in 1..Len(Tail(up[t])) /\ up'[t][k] = Tail(up[t])[k]
    BY <1>3
  <2>2. k + 1 \in 1..Len(up[t]) /\ up[t][k + 1].type = "join"
    BY <1>2, <2>1
  <2>3. k + 1 = 1
    BY <1>1, <2>2
  <2>4. k \in Nat /\ k >= 1
    BY <1>2, <2>1
  <2> QED BY <2>3, <2>4
<1>6. Head(up[t]).type = "join" => clients[t] = NoSession /\ ~NoJoin(t)
  <2>1. 1 \in 1..Len(up[t])
    BY <1>2
  <2> QED BY <1>1, <1>2, <2>1 DEF NoJoin
<1> QED BY <1>1, <1>3, <1>4, <1>5, <1>6

LEMMA JoinKeeps ==
  ASSUME IInv, NEW t \in Tabs, up[t] # <<>>, HandleJoin(t),
         up' = [up EXCEPT ![t] = Tail(@)], UNCHANGED tab
  PROVE  IInv'
<1> DEFINE id == tab[t].id
           user == UserOf[t]
           fresh == id \notin DOMAIN sessions
           session == IF fresh THEN NewSession ELSE sessions[id]
           joined == [session EXCEPT !.members = @ \cup {user}]
           length == Len(joined.history)
<1>1. /\ Head(up[t]).type = "join"
      /\ sessions' = MapSet(sessions, id, joined)
      /\ born' = IF fresh THEN [born EXCEPT ![id] = @ + 1] ELSE born
      /\ clients' = [clients EXCEPT ![t] = id]
      /\ joinedAt' = [joinedAt EXCEPT ![t] = [birth |-> born'[id], length |-> length]]
  BY DEF HandleJoin
<1>2. /\ DOMAIN up' = Tabs
      /\ \A u \in Tabs : up'[u] \in Seq(Range(up'[u]))
      /\ \A u \in Tabs \ {t} : up'[u] = up[u]
      /\ NoJoin(t)'
      /\ tab[t].phase # "idle" /\ id \in Ids
      /\ clients[t] = NoSession /\ ~NoJoin(t)
  BY <1>1, TakeFacts
<1>3. /\ DOMAIN sessions \subseteq Ids
      /\ \A i \in DOMAIN sessions : "members" \in DOMAIN sessions[i]
      /\ clients \in [Tabs -> Ids \cup {NoSession}] /\ born \in [Ids -> Nat]
      /\ DOMAIN joinedAt = Tabs
  BY DEF IInv, Shaped
<1>4. "members" \in DOMAIN session
  BY <1>3 DEF NewSession
<1>5. "members" \in DOMAIN joined /\ joined.members = session.members \cup {user}
  BY <1>4
<1>6. ~fresh => session = sessions[id]
  OBVIOUS
<1>7. fresh => session.members = {}
  BY DEF NewSession
<1> HIDE DEF joined, session, length, fresh, user, id
<1>8. /\ DOMAIN sessions' = DOMAIN sessions \cup {id}
      /\ sessions'[id] = joined
      /\ \A i \in DOMAIN sessions \ {id} : sessions'[i] = sessions[i]
  BY <1>1 DEF MapSet
<1>9. /\ born' \in [Ids -> Nat]
      /\ \A i \in Ids : i # id \/ ~fresh => born'[i] = born[i]
      /\ clients' \in [Tabs -> Ids \cup {NoSession}]
      /\ clients'[t] = id /\ \A u \in Tabs \ {t} : clients'[u] = clients[u]
      /\ DOMAIN joinedAt' = Tabs /\ joinedAt'[t].birth = born'[id]
      /\ \A u \in Tabs \ {t} : joinedAt'[u] = joinedAt[u]
  BY <1>1, <1>2, <1>3
<1>10. Shaped'
  <2>1. \A i \in DOMAIN sessions' : "members" \in DOMAIN sessions'[i]
    BY <1>3, <1>5, <1>8
  <2> QED BY <1>2, <1>3, <1>8, <1>9, <2>1 DEF IInv, Shaped
<1>11. JoinsOnce'
  <2> SUFFICES ASSUME NEW u \in Tabs
               PROVE  /\ tab'[u].phase = "idle" => clients'[u] = NoSession /\ up'[u] = <<>>
                      /\ \A k \in 1..Len(up'[u]) :
                           up'[u][k].type = "join" => k = 1 /\ clients'[u] = NoSession
    BY DEF JoinsOnce
  <2>1. CASE u = t
    BY <1>2, <2>1 DEF NoJoin
  <2>2. CASE u # t
    BY <1>2, <1>9, <2>2 DEF IInv, JoinsOnce
  <2> QED BY <2>1, <2>2
<1>12. NobodyLeftBehind'
  <2> SUFFICES ASSUME NEW i \in DOMAIN sessions'
               PROVE  /\ sessions'[i].members # {}
                      /\ \A w \in sessions'[i].members :
                           \E u \in Tabs : clients'[u] = i /\ UserOf[u] = w
    BY DEF NobodyLeftBehind
  <2>1. CASE i = id
    <3>1. sessions'[i].members = session.members \cup {user}
      BY <1>5, <1>8, <2>1
    <3>2. ASSUME NEW w \in session.members
          PROVE  \E u \in Tabs : clients'[u] = i /\ UserOf[u] = w
      <4>1. ~fresh /\ w \in sessions[id].members
        BY <1>6, <1>7
      <4>2. id \in DOMAIN sessions
        BY <4>1 DEF fresh
      <4>3. PICK u \in Tabs : clients[u] = id /\ UserOf[u] = w
        BY <4>1, <4>2 DEF IInv, NobodyLeftBehind
      <4> QED BY <1>9, <2>1, <4>3
    <3>3. clients'[t] = i /\ UserOf[t] = user
      BY <1>9, <2>1 DEF user
    <3> QED BY <3>1, <3>2, <3>3
  <2>2. CASE i # id
    <3>1. i \in DOMAIN sessions /\ sessions'[i] = sessions[i]
      BY <1>8, <2>2
    <3>2. ASSUME NEW w \in sessions[i].members
          PROVE  \E u \in Tabs : clients'[u] = i /\ UserOf[u] = w
      <4>1. PICK u \in Tabs : clients[u] = i /\ UserOf[u] = w
        BY <3>1, <3>2 DEF IInv, NobodyLeftBehind
      <4>2. i # NoSession
        BY <1>3, <3>1, Assumption
      <4> QED BY <1>2, <1>9, <4>1, <4>2
    <3> QED BY <3>1, <3>2 DEF IInv, NobodyLeftBehind
  <2> QED BY <2>1, <2>2
<1>13. CountedIn'
  <2> SUFFICES ASSUME NEW u \in Tabs, clients'[u] # NoSession
               PROVE  \/ Attached(u)' /\ UserOf[u] \in sessions'[clients'[u]].members
                      \/ TwinGone(u)'
    BY DEF CountedIn
  <2>1. CASE u = t
    <3>1. UserOf[u] \in joined.members
      BY <1>5, <2>1 DEF user
    <3> QED BY <1>8, <1>9, <2>1, <3>1 DEF Attached
  <2>2. CASE u # t
    <3>1. clients'[u] = clients[u] /\ clients[u] # NoSession
      BY <1>9, <2>2
    <3>2. CASE Attached(u) /\ UserOf[u] \in sessions[clients[u]].members
      <4>1. /\ clients[u] \in DOMAIN sessions /\ clients[u] \in Ids
            /\ born[clients[u]] = joinedAt[u].birth
        BY <1>3, <3>2 DEF Attached
      <4>2. born'[clients[u]] = born[clients[u]]
        BY <1>9, <4>1 DEF fresh
      <4>3. UserOf[u] \in sessions'[clients[u]].members
        BY <1>5, <1>6, <1>8, <3>2, <4>1 DEF fresh
      <4> QED BY <1>8, <1>9, <2>2, <3>1, <4>1, <4>2, <4>3 DEF Attached
    <3>3. CASE TwinGone(u)
      <4>1. PICK v \in Tabs \ {u} : UserOf[v] = UserOf[u] /\ Gone(v)
        BY <3>3 DEF TwinGone
      <4>2. v # t
        BY <1>2, <4>1 DEF Gone
      <4>3. Gone(v)'
        BY <1>2, <1>9, <4>1, <4>2 DEF Gone, NoJoin
      <4> QED BY <4>1, <4>3 DEF TwinGone
    <3> QED BY <3>1, <3>2, <3>3 DEF IInv, CountedIn
  <2> QED BY <2>1, <2>2
<1> QED BY <1>10, <1>11, <1>12, <1>13 DEF IInv

LEMMA OperationKeeps ==
  ASSUME IInv, NEW t \in Tabs, up[t] # <<>>, HandleOperation(t),
         up' = [up EXCEPT ![t] = Tail(@)], UNCHANGED tab
  PROVE  IInv'
<1>1. /\ DOMAIN up' = Tabs
      /\ \A u \in Tabs : up'[u] \in Seq(Range(up'[u]))
      /\ \A u \in Tabs \ {t} : up'[u] = up[u]
      /\ NoJoin(t)' /\ tab[t].phase # "idle"
  BY TakeFacts
<1>2. UNCHANGED <<clients, born, joinedAt>>
  BY DEF HandleOperation
<1>3. \A i \in DOMAIN sessions : "members" \in DOMAIN sessions[i]
  BY DEF IInv, Shaped
<1>4. /\ DOMAIN sessions' = DOMAIN sessions
      /\ \A i \in DOMAIN sessions : /\ "members" \in DOMAIN sessions'[i]
                                    /\ sessions'[i].members = sessions[i].members
  <2> DEFINE id == clients[t]
             op == Head(up[t]).op
             done == Transform(op, ConcurrentOps(sessions[id].history, op))
             text == ApplyOp(sessions[id].gcode, done)
             history == Append(sessions[id].history, HistoryEntry(t, done))
  <2>1. \/ UNCHANGED sessions
        \/ sessions' = [sessions EXCEPT ![id].gcode = text, ![id].history = history]
    BY DEF HandleOperation
  <2> HIDE DEF id, op, done, text, history
  <2> QED BY <1>3, <2>1
<1>5. Shaped'
  BY <1>1, <1>2, <1>4 DEF IInv, Shaped
<1>6. JoinsOnce'
  <2> SUFFICES ASSUME NEW u \in Tabs
               PROVE  /\ tab'[u].phase = "idle" => clients'[u] = NoSession /\ up'[u] = <<>>
                      /\ \A k \in 1..Len(up'[u]) :
                           up'[u][k].type = "join" => k = 1 /\ clients'[u] = NoSession
    BY DEF JoinsOnce
  <2>1. CASE u = t
    BY <1>1, <2>1 DEF NoJoin
  <2>2. CASE u # t
    BY <1>1, <1>2, <2>2 DEF IInv, JoinsOnce
  <2> QED BY <2>1, <2>2
<1>7. NobodyLeftBehind'
  BY <1>2, <1>4 DEF IInv, NobodyLeftBehind
<1>8. ASSUME NEW u \in Tabs, Gone(u) PROVE Gone(u)'
  <2>1. CASE u = t
    BY <1>1, <1>2, <1>8, <2>1 DEF Gone
  <2>2. CASE u # t
    BY <1>1, <1>2, <1>8, <2>2 DEF Gone, NoJoin
  <2> QED BY <2>1, <2>2
<1>9. CountedIn'
  <2> SUFFICES ASSUME NEW u \in Tabs, clients[u] # NoSession
               PROVE  \/ Attached(u)' /\ UserOf[u] \in sessions'[clients[u]].members
                      \/ TwinGone(u)'
    BY <1>2 DEF CountedIn
  <2>1. CASE Attached(u) /\ UserOf[u] \in sessions[clients[u]].members
    BY <1>2, <1>4, <2>1 DEF Attached
  <2>2. CASE TwinGone(u)
    BY <1>8, <2>2 DEF TwinGone
  <2> QED BY <2>1, <2>2 DEF IInv, CountedIn
<1> QED BY <1>5, <1>6, <1>7, <1>9 DEF IInv

\* A tab with no join under way leaves its session: by its message, or because
\* its connection is closed.
LEMMA LeavingKeeps ==
  ASSUME IInv, NEW t \in Tabs, HandleDisconnect(t), UNCHANGED tab,
         DOMAIN up' = Tabs,
         \A u \in Tabs : up'[u] \in Seq(Range(up'[u])),
         \A u \in Tabs \ {t} : up'[u] = up[u],
         NoJoin(t)', tab[t].phase # "idle"
  PROVE  IInv'
<1> DEFINE id == clients[t]
           left == sessions[id].members \ {UserOf[t]}
<1>1. /\ UNCHANGED <<born, joinedAt>>
      /\ clients' = [clients EXCEPT ![t] = NoSession]
      /\ IF id \notin DOMAIN sessions
           THEN UNCHANGED sessions
           ELSE sessions' = IF left = {}
                              THEN Restrict(sessions, DOMAIN sessions \ {id})
                              ELSE [sessions EXCEPT ![id].members = left]
  BY DEF HandleDisconnect
<1>2. /\ DOMAIN sessions \subseteq Ids
      /\ \A i \in DOMAIN sessions : "members" \in DOMAIN sessions[i]
      /\ clients \in [Tabs -> Ids \cup {NoSession}]
  BY DEF IInv, Shaped
<1> HIDE DEF left, id
<1>3. /\ clients' \in [Tabs -> Ids \cup {NoSession}]
      /\ clients'[t] = NoSession
      /\ \A u \in Tabs \ {t} : clients'[u] = clients[u]
  BY <1>1, <1>2
\* What is left of the sessions.
<1>4. /\ DOMAIN sessions' = IF id \in DOMAIN sessions /\ left = {}
                              THEN DOMAIN sessions \ {id} ELSE DOMAIN sessions
      /\ \A i \in DOMAIN sessions' :
           /\ "members" \in DOMAIN sessions'[i]
           /\ sessions'[i].members = IF i = id THEN left ELSE sessions[i].members
  <2>1. CASE id \notin DOMAIN sessions
    BY <1>1, <1>2, <2>1
  <2>2. CASE id \in DOMAIN sessions /\ left = {}
    <3>1. sessions' = [i \in DOMAIN sessions \ {id} |-> sessions[i]]
      BY <1>1, <2>2 DEF Restrict
    <3> QED BY <1>2, <2>2, <3>1
  <2>3. CASE id \in DOMAIN sessions /\ left # {}
    BY <1>1, <1>2, <2>3
  <2> QED BY <2>1, <2>2, <2>3
<1>5. Shaped'
  <2>1. DOMAIN sessions' \subseteq Ids
    BY <1>2, <1>4
  <2> QED BY <1>1, <1>3, <1>4, <2>1 DEF IInv, Shaped
<1>6. JoinsOnce'
  <2> SUFFICES ASSUME NEW u \in Tabs
               PROVE  /\ tab'[u].phase = "idle" => clients'[u] = NoSession /\ up'[u] = <<>>
                      /\ \A k \in 1..Len(up'[u]) :
                           up'[u][k].type = "join" => k = 1 /\ clients'[u] = NoSession
    BY DEF JoinsOnce
  <2>1. CASE u = t
    BY <2>1 DEF NoJoin
  <2>2. CASE u # t
    BY <1>3, <2>2 DEF IInv, JoinsOnce
  <2> QED BY <2>1, <2>2
<1>7. NobodyLeftBehind'
  <2> SUFFICES ASSUME NEW i \in DOMAIN sessions'
               PROVE  /\ sessions'[i].members # {}
                      /\ \A w \in sessions'[i].members :
                           \E u \in Tabs : clients'[u] = i /\ UserOf[u] = w
    BY DEF NobodyLeftBehind
  <2>1. /\ i \in DOMAIN sessions /\ i # NoSession
        /\ sessions[i].members # {}
        /\ \A w \in sessions[i].members : \E u \in Tabs : clients[u] = i /\ UserOf[u] = w
    BY <1>2, <1>4, Assumption DEF IInv, NobodyLeftBehind
  <2>2. CASE i = id
    <3>1. left # {} /\ sessions'[i].members = left
      BY <1>4, <2>1, <2>2
    <3>2. ASSUME NEW w \in left
          PROVE  \E u \in Tabs : clients'[u] = i /\ UserOf[u] = w
      <4>1. w \in sessions[i].members /\ w # UserOf[t]
        BY <2>2 DEF left
      <4>2. PICK u \in Tabs : clients[u] = i /\ UserOf[u] = w
        BY <2>1, <4>1
      <4> QED BY <1>3, <4>1, <4>2
    <3> QED BY <3>1, <3>2
  <2>3. CASE i # id
    <3>1. sessions'[i].members = sessions[i].members
      BY <1>4, <2>3
    <3>2. ASSUME NEW w \in sessions[i].members
          PROVE  \E u \in Tabs : clients'[u] = i /\ UserOf[u] = w
      <4>1. PICK u \in Tabs : clients[u] = i /\ UserOf[u] = w
        BY <2>1
      <4>2. u # t
        BY <2>3, <4>1 DEF id
      <4> QED BY <1>3, <4>1, <4>2
    <3> QED BY <2>1, <3>1, <3>2
  <2> QED BY <2>2, <2>3
<1>8. Gone(t)'
  BY <1>3 DEF Gone
<1>9. CountedIn'
  <2> SUFFICES ASSUME NEW u \in Tabs, clients'[u] # NoSession
               PROVE  \/ Attached(u)' /\ UserOf[u] \in sessions'[clients'[u]].members
                      \/ TwinGone(u)'
    BY DEF CountedIn
  <2>1. u # t /\ clients'[u] = clients[u] /\ clients[u] # NoSession
    BY <1>3
  <2>2. CASE Attached(u) /\ UserOf[u] \in sessions[clients[u]].members
    <3>1. CASE clients[u] = id /\ UserOf[u] = UserOf[t]
      BY <1>8, <2>1, <3>1 DEF TwinGone
    <3>2. CASE clients[u] = id /\ UserOf[u] # UserOf[t]
      <4>1. UserOf[u] \in left
        BY <2>2, <3>2 DEF left
      <4>2. id \in DOMAIN sessions'
        BY <1>4, <2>2, <3>2, <4>1 DEF Attached
      <4> QED BY <1>1, <1>4, <2>1, <2>2, <3>2, <4>1, <4>2 DEF Attached
    <3>3. CASE clients[u] # id
      <4>1. clients[u] \in DOMAIN sessions'
        BY <1>4, <2>2, <3>3 DEF Attached
      <4> QED BY <1>1, <1>4, <2>1, <2>2, <3>3, <4>1 DEF Attached
    <3> QED BY <3>1, <3>2, <3>3
  <2>3. CASE TwinGone(u)
    <3>1. PICK v \in Tabs \ {u} : UserOf[v] = UserOf[u] /\ Gone(v)
      BY <2>3 DEF TwinGone
    <3>2. Gone(v)'
      <4>1. CASE v = t
        BY <1>8, <4>1
      <4>2. CASE v # t
        BY <1>3, <3>1, <4>2 DEF Gone, NoJoin
      <4> QED BY <4>1, <4>2
    <3> QED BY <3>1, <3>2 DEF TwinGone
  <2> QED BY <2>1, <2>2, <2>3 DEF IInv, CountedIn
<1> QED BY <1>5, <1>6, <1>7, <1>9 DEF IInv

-------------------------------------------------------------------------------
LEMMA Initially == Init => IInv
<1> SUFFICES ASSUME Init PROVE IInv
  OBVIOUS
<1>1. Shaped
  <2>1. \A t \in Tabs : {"phase", "id"} \subseteq DOMAIN tab[t] /\ tab[t].phase = "idle"
    BY DEF Init, NewTab
  <2>2. \A t \in Tabs : up[t] \in Seq(Range(up[t]))
    BY DEF Init
  <2> QED BY <2>1, <2>2 DEF Init, Shaped
<1>2. JoinsOnce
  BY DEF Init, JoinsOnce
<1>3. NobodyLeftBehind
  BY DEF Init, NobodyLeftBehind
<1>4. CountedIn
  BY DEF Init, CountedIn
<1> QED BY <1>1, <1>2, <1>3, <1>4 DEF IInv

LEMMA StepsKeep == IInv /\ [Next]_vars => IInv'
<1> SUFFICES ASSUME IInv, [Next]_vars PROVE IInv'
  OBVIOUS
<1>1. CASE UNCHANGED vars
  <2>1. UNCHANGED <<sessions, clients, born, joinedAt, up, tab>>
    BY <1>1 DEF vars
  <2>2. Shaped' /\ JoinsOnce' /\ NobodyLeftBehind'
    BY <2>1 DEF IInv, Shaped, JoinsOnce, NobodyLeftBehind
  <2>3. CountedIn'
    BY <2>1 DEF IInv, CountedIn, Attached, TwinGone, Gone, NoJoin
  <2> QED BY <2>2, <2>3 DEF IInv
<1>2. CASE Next
  <2> PICK t \in Tabs : \/ \E id \in Ids : Connect(t, id)
                        \/ \E new \in Keystrokes(tab[t].text) : Edit(t, new)
                        \/ Receive(t) \/ Disconnect(t) \/ NoticeClose(t) \/ Cut(t)
                        \/ HandleMessage(t) \/ ServerClose(t)
    BY <1>2 DEF Next
  <2>1. CASE \E id \in Ids : Connect(t, id)
    BY <2>1, ConnectKeeps
  <2>2. CASE \E new \in Keystrokes(tab[t].text) : Edit(t, new)
    BY <2>2, EditKeeps
  <2>3. CASE Receive(t)
    BY <2>3, ReceiveKeeps
  <2>4. CASE Disconnect(t) \/ NoticeClose(t)
    BY <2>4, ClosingKeeps
  <2>5. CASE Cut(t)
    BY <2>5, CutKeeps
  <2>6. CASE HandleMessage(t)
    <3>1. /\ up[t] # <<>> /\ up' = [up EXCEPT ![t] = Tail(@)] /\ UNCHANGED tab
          /\ HandleJoin(t) \/ HandleOperation(t) \/ HandleLeave(t)
      BY <2>6 DEF HandleMessage
    <3>2. CASE HandleJoin(t)
      BY <3>1, <3>2, JoinKeeps
    <3>3. CASE HandleOperation(t)
      BY <3>1, <3>3, OperationKeeps
    <3>4. CASE HandleLeave(t)
      <4>1. HandleDisconnect(t)
        BY <3>4 DEF HandleLeave
      <4>2. /\ DOMAIN up' = Tabs
            /\ \A u \in Tabs : up'[u] \in Seq(Range(up'[u]))
            /\ \A u \in Tabs \ {t} : up'[u] = up[u]
            /\ NoJoin(t)' /\ tab[t].phase # "idle"
        BY <3>1, TakeFacts
      <4> QED BY <3>1, <4>1, <4>2, LeavingKeeps
    <3> QED BY <3>1, <3>2, <3>3, <3>4
  <2>7. CASE ServerClose(t)
    <3>1. up[t] = <<>> /\ clients[t] # NoSession /\ HandleDisconnect(t) /\ UNCHANGED <<up, tab>>
      BY <2>7 DEF ServerClose
    <3>2. tab[t].phase # "idle"
      BY <3>1 DEF IInv, JoinsOnce
    <3>3. DOMAIN up' = Tabs /\ \A u \in Tabs : up'[u] = up[u] /\ up'[u] \in Seq(Range(up'[u]))
      BY <3>1 DEF IInv, Shaped
    <3>4. NoJoin(t)'
      BY <3>1 DEF NoJoin
    <3> QED BY <3>1, <3>2, <3>3, <3>4, LeavingKeeps
  <2> QED BY <2>1, <2>2, <2>3, <2>4, <2>5, <2>6, <2>7
<1> QED BY <1>1, <1>2

THEOREM Inductive == Spec => []IInv
BY Initially, StepsKeep, PTL DEF Spec

\* A member of a session is the user of a socket that is in it, and no session
\* is without members, however tabs join, leave, share a user or break off.
THEOREM MembersHaveSockets == Spec => []NobodyLeftBehind
<1>1. IInv => NobodyLeftBehind
  BY DEF IInv
<1> QED BY <1>1, Inductive, PTL

\* A connected tab loses its session, or the count of it, only to a tab of the
\* same user that left.
THEOREM SessionsLostToTwins == Spec => []OnlyATwinOrphans
<1>1. IInv => OnlyATwinOrphans
  BY DEF IInv, CountedIn, OnlyATwinOrphans, TwinGone, Gone
<1> QED BY <1>1, Inductive, PTL

-------------------------------------------------------------------------------
(* What a tab shows.                                                        *)
(*                                                                         *)
(* Each handler that changes the members of a session tells the sockets in *)
(* it, in the same step; a joining tab is sent the whole list first.  So    *)
(* the list a tab ends up with once its channel is empty is the server's.   *)

ShownShaped ==
  /\ DOMAIN down = Tabs /\ DOMAIN link = Tabs
  /\ \A t \in Tabs : down[t] \in Seq(Range(down[t])) /\ "users" \in DOMAIN tab[t]
  /\ \A i \in DOMAIN sessions : sessions[i].members \subseteq Users

Agrees(t) ==
  (clients[t] # NoSession /\ Reaches(t)) =>
    \A w \in Users :
      WillShow(down[t], tab[t].users, w)
        <=> clients[t] \in DOMAIN sessions /\ w \in sessions[clients[t]].members

ShownInv == ShownShaped /\ \A t \in Tabs : Agrees(t)

LEMMA ShownInvImplies == ShownInv => PresenceAgrees
<1> SUFFICES ASSUME ShownInv, NEW t \in Tabs, clients[t] # NoSession, Reaches(t)
             PROVE  Presence(t) = IF clients[t] \in DOMAIN sessions
                                  THEN sessions[clients[t]].members ELSE {}
  BY DEF PresenceAgrees
<1>1. \A w \in Users :
        WillShow(down[t], tab[t].users, w)
          <=> clients[t] \in DOMAIN sessions /\ w \in sessions[clients[t]].members
  BY DEF ShownInv, Agrees
<1>2. clients[t] \in DOMAIN sessions => sessions[clients[t]].members \subseteq Users
  BY DEF ShownInv, ShownShaped
<1> QED BY <1>1, <1>2 DEF Presence

\* A message at the end of a channel has the last word about whom it concerns.
LEMMA WillShowAppend ==
  ASSUME NEW s, s \in Seq(Range(s)), NEW m, NEW users, NEW w
  PROVE  WillShow(Append(s, m), users, w)
           <=> IF Concerns(m, w) THEN Says(m, w) ELSE WillShow(s, users, w)
<1> DEFINE a == Append(s, m)
           C(x) == Concerns(x, w)
           Y(x) == Says(x, w)
<1>1. /\ a \in Seq(Range(a))
      /\ Len(s) \in Nat /\ Len(a) = Len(s) + 1
      /\ \A k \in 1..Len(s) : a[k] = s[k]
      /\ a[Len(s) + 1] = m
  BY AppendFacts
<1> HIDE DEF a
<1>2. DOMAIN s = 1..Len(s) /\ DOMAIN a = 1..Len(a)
  BY <1>1
<1>3. WillShow(a, users, w) <=>
        \/ \E k \in 1..Len(a) : C(a[k]) /\ Y(a[k]) /\ \A j \in 1..Len(a) : j > k => ~C(a[j])
        \/ w \in users /\ \A k \in 1..Len(a) : ~C(a[k])
  BY <1>2 DEF WillShow
<1>4. WillShow(s, users, w) <=>
        \/ \E k \in 1..Len(s) : C(s[k]) /\ Y(s[k]) /\ \A j \in 1..Len(s) : j > k => ~C(s[j])
        \/ w \in users /\ \A k \in 1..Len(s) : ~C(s[k])
  BY <1>2 DEF WillShow
<1>5. Len(s) + 1 \in 1..Len(a) /\ \A k \in 1..Len(s) : k \in 1..Len(a) /\ k < Len(s) + 1
  BY <1>1
<1>6. \A k \in 1..Len(a) : k = Len(s) + 1 \/ k \in 1..Len(s)
  BY <1>1
<1> HIDE DEF C, Y
<1>7. CASE C(m)
  <2>1. ASSUME NEW k \in 1..Len(a), \A j \in 1..Len(a) : j > k => ~C(a[j])
        PROVE  k = Len(s) + 1
    BY <1>1, <1>5, <1>6, <1>7, <2>1
  <2>2. \A j \in 1..Len(a) : j > Len(s) + 1 => ~C(a[j])
    BY <1>1
  <2>3. WillShow(a, users, w) <=> Y(m)
    BY <1>1, <1>3, <1>5, <1>7, <2>1, <2>2
  <2> QED BY <1>7, <2>3 DEF C, Y, a
<1>8. CASE ~C(m)
  <2>1. ASSUME NEW k \in 1..Len(a), C(a[k])
        PROVE  k \in 1..Len(s)
    BY <1>1, <1>6, <1>8, <2>1
  <2>2. ASSUME NEW k \in 1..Len(s)
        PROVE  (\A j \in 1..Len(a) : j > k => ~C(a[j])) <=> (\A j \in 1..Len(s) : j > k => ~C(s[j]))
    BY <1>1, <1>5, <1>6, <1>8
  <2>3. (\A k \in 1..Len(a) : ~C(a[k])) <=> (\A k \in 1..Len(s) : ~C(s[k]))
    BY <1>1, <1>5, <1>6, <1>8
  <2>4. WillShow(a, users, w) <=> WillShow(s, users, w)
    BY <1>1, <1>3, <1>4, <1>5, <2>1, <2>2, <2>3
  <2> QED BY <1>8, <2>4 DEF C, a
<1> QED BY <1>7, <1>8

\* Taking the first message of a channel in changes nothing in what will be shown.
LEMMA WillShowTail ==
  ASSUME NEW s, s \in Seq(Range(s)), s # <<>>, NEW users, NEW after, NEW w,
         w \in after <=> IF Concerns(Head(s), w) THEN Says(Head(s), w) ELSE w \in users
  PROVE  WillShow(Tail(s), after, w) <=> WillShow(s, users, w)
<1> DEFINE a == Tail(s)
           C(x) == Concerns(x, w)
           Y(x) == Says(x, w)
<1>1. /\ a \in Seq(Range(a))
      /\ Len(s) \in Nat /\ Len(s) >= 1 /\ Len(a) = Len(s) - 1
      /\ Head(s) = s[1]
      /\ \A k \in 1..Len(a) : k + 1 \in 1..Len(s) /\ a[k] = s[k + 1]
  BY TailFacts
<1> HIDE DEF a
<1>2. DOMAIN s = 1..Len(s) /\ DOMAIN a = 1..Len(a)
  BY <1>1
<1>3. WillShow(a, after, w) <=>
        \/ \E k \in 1..Len(a) : C(a[k]) /\ Y(a[k]) /\ \A j \in 1..Len(a) : j > k => ~C(a[j])
        \/ w \in after /\ \A k \in 1..Len(a) : ~C(a[k])
  BY <1>2 DEF WillShow
<1>4. WillShow(s, users, w) <=>
        \/ \E k \in 1..Len(s) : C(s[k]) /\ Y(s[k]) /\ \A j \in 1..Len(s) : j > k => ~C(s[j])
        \/ w \in users /\ \A k \in 1..Len(s) : ~C(s[k])
  BY <1>2 DEF WillShow
<1>5. w \in after <=> IF C(s[1]) THEN Y(s[1]) ELSE w \in users
  BY <1>1
<1>6. 1 \in 1..Len(s) /\ \A k \in 1..Len(s) : k = 1 \/ (k - 1 \in 1..Len(a) /\ a[k - 1] = s[k])
  <2> SUFFICES ASSUME NEW k \in 1..Len(s), k # 1
               PROVE  k - 1 \in 1..Len(a) /\ a[k - 1] = s[k]
    BY <1>1
  <2>1. k - 1 \in 1..Len(a) /\ (k - 1) + 1 = k
    BY <1>1
  <2> QED BY <1>1, <2>1
<1> HIDE DEF C, Y
<1>7. ASSUME NEW k \in 1..Len(a)
      PROVE  (\A j \in 1..Len(a) : j > k => ~C(a[j])) <=> (\A j \in 1..Len(s) : j > k + 1 => ~C(s[j]))
  <2>1. ASSUME \A j \in 1..Len(a) : j > k => ~C(a[j]), NEW j \in 1..Len(s), j > k + 1
        PROVE  ~C(s[j])
    <3>1. j # 1 /\ j - 1 > k
      BY <1>1, <2>1
    <3> QED BY <1>6, <2>1, <3>1
  <2>2. ASSUME \A j \in 1..Len(s) : j > k + 1 => ~C(s[j]), NEW j \in 1..Len(a), j > k
        PROVE  ~C(a[j])
    <3>1. j + 1 > k + 1
      BY <1>1, <2>2
    <3> QED BY <1>1, <2>2, <3>1
  <2> QED BY <2>1, <2>2
<1>8. (\A k \in 1..Len(a) : ~C(a[k])) <=> (\A j \in 1..Len(s) : j > 1 => ~C(s[j]))
  <2>1. ASSUME \A k \in 1..Len(a) : ~C(a[k]), NEW j \in 1..Len(s), j > 1
        PROVE  ~C(s[j])
    BY <1>6, <2>1
  <2>2. ASSUME \A j \in 1..Len(s) : j > 1 => ~C(s[j]), NEW k \in 1..Len(a)
        PROVE  ~C(a[k])
    <3>1. k + 1 > 1
      BY <1>1
    <3> QED BY <1>1, <2>2, <3>1
  <2> QED BY <2>1, <2>2
<1>9. (\A k \in 1..Len(s) : ~C(s[k])) <=> ~C(s[1]) /\ \A k \in 1..Len(a) : ~C(a[k])
  BY <1>1, <1>6
<1>10. (\E k \in 1..Len(s) : C(s[k]) /\ Y(s[k]) /\ \A j \in 1..Len(s) : j > k => ~C(s[j]))
         <=> \/ C(s[1]) /\ Y(s[1]) /\ \A k \in 1..Len(a) : ~C(a[k])
             \/ \E k \in 1..Len(a) : C(a[k]) /\ Y(a[k]) /\ \A j \in 1..Len(a) : j > k => ~C(a[j])
  <2>1. ASSUME NEW k \in 1..Len(s), C(s[k]), Y(s[k]), \A j \in 1..Len(s) : j > k => ~C(s[j])
        PROVE  \/ C(s[1]) /\ Y(s[1]) /\ \A j \in 1..Len(a) : ~C(a[j])
               \/ \E i \in 1..Len(a) : C(a[i]) /\ Y(a[i]) /\ \A j \in 1..Len(a) : j > i => ~C(a[j])
    <3>1. CASE k = 1
      BY <1>8, <2>1, <3>1
    <3>2. CASE k # 1
      <4>1. k - 1 \in 1..Len(a) /\ a[k - 1] = s[k] /\ (k - 1) + 1 = k
        BY <1>1, <1>6, <3>2
      <4>2. \A j \in 1..Len(a) : j > k - 1 => ~C(a[j])
        BY <1>7, <2>1, <4>1
      <4> QED BY <2>1, <4>1, <4>2
    <3> QED BY <3>1, <3>2
  <2>2. ASSUME C(s[1]), Y(s[1]), \A k \in 1..Len(a) : ~C(a[k])
        PROVE  \E k \in 1..Len(s) : C(s[k]) /\ Y(s[k]) /\ \A j \in 1..Len(s) : j > k => ~C(s[j])
    BY <1>6, <1>8, <2>2
  <2>3. ASSUME NEW k \in 1..Len(a), C(a[k]), Y(a[k]), \A j \in 1..Len(a) : j > k => ~C(a[j])
        PROVE  \E i \in 1..Len(s) : C(s[i]) /\ Y(s[i]) /\ \A j \in 1..Len(s) : j > i => ~C(s[j])
    <3>1. k + 1 \in 1..Len(s) /\ C(s[k + 1]) /\ Y(s[k + 1])
      BY <1>1, <2>3
    <3>2. \A j \in 1..Len(s) : j > k + 1 => ~C(s[j])
      BY <1>7, <2>3
    <3> QED BY <3>1, <3>2
  <2> QED BY <2>1, <2>2, <2>3
<1> QED BY <1>3, <1>4, <1>5, <1>9, <1>10 DEF a

\* What Broadcast does to the channels.
LEMMA BroadcastFacts ==
  ASSUME ShownShaped, NEW channels, DOMAIN channels = Tabs,
         \A u \in Tabs : channels[u] \in Seq(Range(channels[u])), NEW To, NEW m
  PROVE  /\ DOMAIN Broadcast(channels, To, m) = Tabs
         /\ \A u \in Tabs :
              /\ Broadcast(channels, To, m)[u]
                   = IF u \in To /\ Reaches(u) THEN Append(channels[u], m) ELSE channels[u]
              /\ Broadcast(channels, To, m)[u] \in Seq(Range(Broadcast(channels, To, m)[u]))
<1>1. /\ DOMAIN Broadcast(channels, To, m) = Tabs
      /\ \A u \in Tabs : Broadcast(channels, To, m)[u]
           = IF u \in To /\ Reaches(u) THEN Append(channels[u], m) ELSE channels[u]
  BY DEF Broadcast
<1>2. \A u \in Tabs : Append(channels[u], m) \in Seq(Range(Append(channels[u], m)))
  BY AppendFacts
<1> QED BY <1>1, <1>2

\* A step of tab t that the server has no part in.
LEMMA TabShows ==
  ASSUME ShownInv, NEW t \in Tabs, UNCHANGED <<sessions, clients>>,
         DOMAIN down' = Tabs,
         DOMAIN link' = Tabs,
         \A u \in Tabs \ {t} : down'[u] = down[u] /\ tab'[u] = tab[u] /\ link'[u] = link[u],
         down'[t] \in Seq(Range(down'[t])), "users" \in DOMAIN tab'[t],
         Agrees(t)'
  PROVE  ShownInv'
<1>1. ShownShaped'
  BY DEF ShownInv, ShownShaped
<1>2. \A u \in Tabs \ {t} : Agrees(u)'
  <2> SUFFICES ASSUME NEW u \in Tabs \ {t} PROVE Agrees(u)'
    OBVIOUS
  <2>1. Agrees(u) /\ down'[u] = down[u] /\ tab'[u] = tab[u] /\ link'[u] = link[u]
    BY DEF ShownInv
  <2>2. Reaches(u)' <=> Reaches(u)
    BY <2>1 DEF Reaches
  <2>3. \A w : WillShow(down[u], tab[u].users, w)' <=> WillShow(down[u], tab[u].users, w)
    BY <2>1
  <2> QED BY <2>1, <2>2, <2>3 DEF Agrees
<1> QED BY <1>1, <1>2 DEF ShownInv

\* Another tab's channel and page are as they were.
LEMMA TabStepsShow ==
  ASSUME IInv, ShownInv, NEW t \in Tabs,
         \/ \E id \in Ids : Connect(t, id)
         \/ \E new : Edit(t, new)
         \/ Receive(t) \/ Disconnect(t) \/ NoticeClose(t) \/ Cut(t)
  PROVE  ShownInv'
<1>1. /\ DOMAIN tab = Tabs /\ DOMAIN down = Tabs /\ DOMAIN link = Tabs
      /\ {"phase", "id", "users"} \subseteq DOMAIN tab[t]
      /\ down[t] \in Seq(Range(down[t]))
  BY DEF IInv, Shaped, ShownInv, ShownShaped
<1>2. <<>> \in Seq(Range(<<>>))
  OBVIOUS
<1>3. CASE \E id \in Ids : Connect(t, id)
  <2>1. PICK id \in Ids : Connect(t, id)
    BY <1>3
  <2>2. /\ tab[t].phase = "idle" /\ UNCHANGED <<sessions, clients, down, link>>
        /\ tab' = [tab EXCEPT ![t].phase = "open", ![t].id = id]
    BY <2>1 DEF Connect, server
  <2>3. clients'[t] = NoSession
    BY <2>2 DEF IInv, JoinsOnce
  <2>4. /\ \A u \in Tabs \ {t} : tab'[u] = tab[u]
        /\ "users" \in DOMAIN tab'[t]
    BY <1>1, <2>2
  <2>5. Agrees(t)'
    BY <2>3 DEF Agrees
  <2> QED BY <1>1, <2>2, <2>4, <2>5, TabShows
<1>4. CASE \E new : Edit(t, new)
  <2>1. PICK new : Edit(t, new)
    BY <1>4
  <2>2. /\ UNCHANGED server /\ UNCHANGED <<down, link>>
        /\ \A u \in Tabs \ {t} : tab'[u] = tab[u]
        /\ "users" \in DOMAIN tab'[t]
        /\ tab'[t]["phase"] = tab[t]["phase"] /\ tab'[t]["users"] = tab[t]["users"]
    BY <1>1, <2>1, EditFacts
  <2>3. UNCHANGED <<sessions, clients, down, link>>
    BY <2>2 DEF server
  <2>4. Reaches(t)' <=> Reaches(t)
    BY <2>2 DEF Reaches
  <2>5. Agrees(t)'
    BY <2>2, <2>3, <2>4 DEF ShownInv, Agrees
  <2> QED BY <1>1, <2>2, <2>3, <2>5, TabShows
<1>5. CASE Receive(t)
  <2> DEFINE m == Head(down[t])
             changed == Received(tab[t], m)
  <2>1. /\ tab[t].phase \in {"open", "joined"} /\ down[t] # <<>>
        /\ UNCHANGED <<sessions, clients, link>>
        /\ tab' = [tab EXCEPT ![t] = changed]
        /\ down' = [down EXCEPT ![t] = Tail(@)]
    BY <1>5 DEF Receive, server
  <2> HIDE DEF m
  <2>2. /\ "users" \in DOMAIN changed
        /\ changed.phase \in {tab[t].phase, "joined"}
        /\ \A w : w \in changed.users <=> IF Concerns(m, w) THEN Says(m, w) ELSE w \in tab[t].users
    <3>1. CASE m.type = "joined"
      BY <1>1, <3>1 DEF Received, Concerns, Says
    <3>2. CASE m.type = "user-joined"
      BY <1>1, <3>2 DEF Received, Concerns, Says
    <3>3. CASE m.type = "user-left"
      BY <1>1, <3>3 DEF Received, Concerns, Says
    <3>4. CASE m.type = "operation"
      BY <1>1, <3>4 DEF Received, Concerns
    <3>5. CASE m.type \notin {"joined", "user-joined", "user-left", "operation"}
      BY <1>1, <3>5 DEF Received, Concerns
    <3> QED BY <3>1, <3>2, <3>3, <3>4, <3>5
  <2> HIDE DEF changed
  <2>3. /\ \A u \in Tabs \ {t} : tab'[u] = tab[u] /\ down'[u] = down[u]
        /\ tab'[t] = changed /\ down'[t] = Tail(down[t]) /\ DOMAIN down' = Tabs
    BY <1>1, <2>1
  <2>4. Tail(down[t]) \in Seq(Range(Tail(down[t])))
    BY <1>1, <2>1, TailFacts
  <2>5. Reaches(t)' => Reaches(t)
    BY <2>1 DEF Reaches
  <2>6. ASSUME NEW w
        PROVE  WillShow(Tail(down[t]), changed.users, w) <=> WillShow(down[t], tab[t].users, w)
    <3>1. w \in changed.users <=> IF Concerns(Head(down[t]), w) THEN Says(Head(down[t]), w)
                                  ELSE w \in tab[t].users
      BY <2>2 DEF m
    <3> QED BY <1>1, <2>1, <3>1, WillShowTail
  <2>7. Agrees(t)'
    BY <2>1, <2>3, <2>5, <2>6 DEF ShownInv, Agrees
  <2>8. DOMAIN link' = Tabs /\ down'[t] \in Seq(Range(down'[t])) /\ "users" \in DOMAIN tab'[t]
    BY <1>1, <2>1, <2>2, <2>3, <2>4
  <2> QED BY <2>1, <2>3, <2>7, <2>8, TabShows
<1>6. CASE Disconnect(t) \/ NoticeClose(t)
  <2>1. /\ UNCHANGED <<sessions, clients, link>>
        /\ tab' = [tab EXCEPT ![t].phase = "closed"]
        /\ down' = [down EXCEPT ![t] = <<>>] \/ UNCHANGED down
    BY <1>6 DEF Disconnect, NoticeClose, server
  <2>2. /\ \A u \in Tabs \ {t} : tab'[u] = tab[u] /\ down'[u] = down[u]
        /\ tab'[t].phase = "closed" /\ "users" \in DOMAIN tab'[t]
        /\ down'[t] \in {<<>>, down[t]} /\ DOMAIN down' = Tabs
    BY <1>1, <2>1
  <2>3. Agrees(t)'
    BY <2>2 DEF Agrees, Reaches
  <2> QED BY <1>1, <1>2, <2>1, <2>2, <2>3, TabShows
<1>7. CASE Cut(t)
  <2>1. /\ UNCHANGED <<sessions, clients, tab>> /\ link[t] = "up"
        /\ link' = [link EXCEPT ![t] = "cut"]
        /\ down' = [down EXCEPT ![t] = <<>>]
    BY <1>7 DEF Cut, server
  <2>2. /\ DOMAIN down' = Tabs /\ DOMAIN link' = Tabs
        /\ down'[t] = <<>> /\ link'[t] = "cut"
        /\ \A u \in Tabs \ {t} : down'[u] = down[u] /\ link'[u] = link[u]
    BY <1>1, <2>1
  <2>3. Agrees(t)'
    BY <2>2 DEF Agrees, Reaches
  <2> QED BY <1>1, <1>2, <2>1, <2>2, <2>3, TabShows
<1> QED BY <1>3, <1>4, <1>5, <1>6, <1>7

\* The broadcasts of the three handlers.  Of the tabs other than t only those of
\* the session t joins, works in or leaves are concerned.
LEMMA JoinShows ==
  ASSUME IInv, ShownInv, NEW t \in Tabs, up[t] # <<>>, HandleJoin(t),
         up' = [up EXCEPT ![t] = Tail(@)], UNCHANGED <<tab, link>>
  PROVE  ShownInv'
<1> DEFINE id == tab[t].id
           user == UserOf[t]
           fresh == id \notin DOMAIN sessions
           session == IF fresh THEN NewSession ELSE sessions[id]
           joined == [session EXCEPT !.members = @ \cup {user}]
           state == [type |-> "joined", gcode |-> joined.gcode, users |-> joined.members]
           news == [type |-> "user-joined", user |-> user]
           first == Broadcast(down, {t}, state)
<1>1. /\ Head(up[t]).type = "join"
      /\ sessions' = MapSet(sessions, id, joined)
      /\ clients' = [clients EXCEPT ![t] = id]
      /\ down' = Broadcast(first, Others(id, t), news)
  BY DEF HandleJoin
<1>2. clients[t] = NoSession /\ id \in Ids
  BY <1>1, TakeFacts
<1>3. /\ DOMAIN sessions \subseteq Ids
      /\ \A i \in DOMAIN sessions : "members" \in DOMAIN sessions[i] /\ sessions[i].members \subseteq Users
      /\ clients \in [Tabs -> Ids \cup {NoSession}]
      /\ ShownShaped
  BY DEF IInv, Shaped, ShownInv, ShownShaped
<1>4. user \in Users
  BY Assumption DEF UserOf
<1>5. /\ "members" \in DOMAIN joined /\ joined.members = session.members \cup {user}
      /\ session.members = IF fresh THEN {} ELSE sessions[id].members
  BY <1>3 DEF NewSession
<1>6. /\ state.type = "joined" /\ state.users = joined.members
      /\ news.type = "user-joined" /\ news.user = user
  OBVIOUS
<1>7. /\ \A w : Concerns(state, w) /\ (Says(state, w) <=> w \in joined.members)
      /\ \A w : (Concerns(news, w) <=> w = user) /\ Says(news, w)
  BY <1>6 DEF Concerns, Says
<1> HIDE DEF news, state, joined, session
<1>8. /\ DOMAIN first = Tabs
      /\ \A u \in Tabs :
           /\ first[u] = IF u = t /\ Reaches(u) THEN Append(down[u], state) ELSE down[u]
           /\ first[u] \in Seq(Range(first[u]))
  <2>1. /\ DOMAIN down = Tabs
        /\ \A u \in Tabs : down[u] \in Seq(Range(down[u]))
    BY <1>3 DEF ShownShaped
  <2> QED BY <1>3, <2>1, BroadcastFacts
<1> HIDE DEF first
<1>9. /\ DOMAIN down' = Tabs
      /\ \A u \in Tabs :
           /\ down'[u] = IF u \in Others(id, t) /\ Reaches(u) THEN Append(first[u], news) ELSE first[u]
           /\ down'[u] \in Seq(Range(down'[u]))
  BY <1>1, <1>3, <1>8, BroadcastFacts
<1> HIDE DEF fresh, user, id
<1>10. /\ DOMAIN sessions' = DOMAIN sessions \cup {id}
       /\ sessions'[id] = joined
       /\ \A i \in DOMAIN sessions \ {id} : sessions'[i] = sessions[i]
       /\ clients'[t] = id /\ \A u \in Tabs \ {t} : clients'[u] = clients[u]
  BY <1>1, <1>3 DEF MapSet
<1>11. ShownShaped'
  <2>1. \A i \in DOMAIN sessions' : sessions'[i].members \subseteq Users
    BY <1>3, <1>4, <1>5, <1>10 DEF fresh
  <2> QED BY <1>3, <1>9, <2>1 DEF ShownShaped
<1>12. ASSUME NEW u \in Tabs PROVE Agrees(u)'
  <2> SUFFICES ASSUME clients'[u] # NoSession, Reaches(u), NEW w \in Users
               PROVE  WillShow(down'[u], tab[u].users, w)
                        <=> clients'[u] \in DOMAIN sessions' /\ w \in sessions'[clients'[u]].members
    BY DEF Agrees, Reaches
  <2>1. CASE u = t
    <3>1. down'[u] = Append(down[u], state)
      BY <1>8, <1>9, <2>1 DEF Others
    <3>2. down[u] \in Seq(Range(down[u]))
      BY <1>3 DEF ShownShaped
    <3>3. WillShow(down'[u], tab[u].users, w) <=> w \in joined.members
      BY <1>7, <3>1, <3>2, WillShowAppend
    <3> QED BY <1>10, <2>1, <3>3
  <2>2. CASE u # t
    <3>1. /\ clients'[u] = clients[u] /\ first[u] = down[u]
          /\ WillShow(down[u], tab[u].users, w)
               <=> clients[u] \in DOMAIN sessions /\ w \in sessions[clients[u]].members
      BY <1>8, <1>10, <2>2 DEF ShownInv, Agrees
    <3>2. CASE clients[u] = id
      <4>1. down'[u] = Append(down[u], news)
        BY <1>9, <2>2, <3>1, <3>2 DEF Others
      <4>2. down[u] \in Seq(Range(down[u]))
        BY <1>3 DEF ShownShaped
      <4>3. WillShow(down'[u], tab[u].users, w) <=> w = user \/ WillShow(down[u], tab[u].users, w)
        BY <1>7, <4>1, <4>2, WillShowAppend
      <4>4. w \in joined.members <=> w = user \/ (id \in DOMAIN sessions /\ w \in sessions[id].members)
        BY <1>5 DEF fresh
      <4> QED BY <1>10, <3>1, <3>2, <4>3, <4>4
    <3>3. CASE clients[u] # id
      <4>1. down'[u] = down[u]
        BY <1>9, <3>1, <3>3 DEF Others
      <4> QED BY <1>10, <3>1, <3>3, <4>1
    <3> QED BY <3>2, <3>3
  <2> QED BY <2>1, <2>2
<1> QED BY <1>11, <1>12 DEF ShownInv

LEMMA OperationShows ==
  ASSUME IInv, ShownInv, NEW t \in Tabs, HandleOperation(t), UNCHANGED <<tab, link>>
  PROVE  ShownInv'
<1> DEFINE id == clients[t]
           op == Head(up[t]).op
           done == Transform(op, ConcurrentOps(sessions[id].history, op))
           text == ApplyOp(sessions[id].gcode, done)
           history == Append(sessions[id].history, HistoryEntry(t, done))
           m == Remote(t, done, Len(sessions[id].history) + 1)
<1>1. /\ UNCHANGED clients
      /\ \/ UNCHANGED <<sessions, down>>
         \/ /\ sessions' = [sessions EXCEPT ![id].gcode = text, ![id].history = history]
            /\ down' = Broadcast(down, Others(id, t), m)
  BY DEF HandleOperation
<1>2. m.type = "operation"
  BY DEF Remote
<1>3. \A w : ~Concerns(m, w)
  BY <1>2 DEF Concerns
<1> HIDE DEF id, op, done, text, history, m
<1>4. /\ \A i \in DOMAIN sessions : "members" \in DOMAIN sessions[i]
      /\ ShownShaped
      /\ DOMAIN down = Tabs
      /\ \A u \in Tabs : down[u] \in Seq(Range(down[u]))
  BY DEF IInv, Shaped, ShownInv, ShownShaped
<1>5. /\ DOMAIN sessions' = DOMAIN sessions
      /\ \A i \in DOMAIN sessions : sessions'[i].members = sessions[i].members
  BY <1>1, <1>4
<1>6. /\ DOMAIN down' = Tabs
      /\ \A u \in Tabs : /\ down'[u] = down[u] \/ down'[u] = Append(down[u], m)
                         /\ down'[u] \in Seq(Range(down'[u]))
  <2>1. CASE UNCHANGED down
    BY <1>4, <2>1
  <2>2. CASE down' = Broadcast(down, Others(id, t), m)
    <3> DEFINE b == Broadcast(down, Others(id, t), m)
    <3>1. /\ DOMAIN b = Tabs
          /\ \A u \in Tabs :
               /\ b[u] = IF u \in Others(id, t) /\ Reaches(u) THEN Append(down[u], m) ELSE down[u]
               /\ b[u] \in Seq(Range(b[u]))
      BY <1>4, BroadcastFacts
    <3>2. down' = b
      BY <2>2
    <3> HIDE DEF b
    <3> QED BY <3>1, <3>2
  <2> QED BY <1>1, <2>1, <2>2
<1>7. \A u \in Tabs : \A users, w : WillShow(down'[u], users, w) <=> WillShow(down[u], users, w)
  BY <1>3, <1>4, <1>6, WillShowAppend
<1>8. ShownShaped'
  BY <1>4, <1>5, <1>6 DEF ShownShaped
<1>9. ASSUME NEW u \in Tabs PROVE Agrees(u)'
  BY <1>1, <1>5, <1>7 DEF ShownInv, Agrees, Reaches
<1> QED BY <1>8, <1>9 DEF ShownInv

LEMMA LeavingShows ==
  ASSUME IInv, ShownInv, NEW t \in Tabs, HandleDisconnect(t), UNCHANGED <<tab, link>>
  PROVE  ShownInv'
<1> DEFINE id == clients[t]
           user == UserOf[t]
           left == sessions[id].members \ {user}
           m == [type |-> "user-left", user |-> user]
<1>1. /\ clients' = [clients EXCEPT ![t] = NoSession]
      /\ IF id \notin DOMAIN sessions
           THEN UNCHANGED <<sessions, down>>
           ELSE /\ sessions' = IF left = {}
                                 THEN Restrict(sessions, DOMAIN sessions \ {id})
                                 ELSE [sessions EXCEPT ![id].members = left]
                /\ down' = Broadcast(down, Others(id, t), m)
  BY DEF HandleDisconnect
<1>2. m.type = "user-left" /\ m.user = user
  OBVIOUS
<1>3. \A w : (Concerns(m, w) <=> w = user) /\ ~Says(m, w)
  BY <1>2 DEF Concerns, Says
<1>4. /\ \A i \in DOMAIN sessions : "members" \in DOMAIN sessions[i] /\ sessions[i].members \subseteq Users
      /\ clients \in [Tabs -> Ids \cup {NoSession}]
      /\ ShownShaped
      /\ DOMAIN down = Tabs
      /\ \A u \in Tabs : down[u] \in Seq(Range(down[u]))
  BY DEF IInv, Shaped, ShownInv, ShownShaped
<1>5. \A w : w \in left <=> w \in sessions[id].members /\ w # user
  OBVIOUS
<1> HIDE DEF left, m, user, id
<1>6. clients'[t] = NoSession /\ \A u \in Tabs \ {t} : clients'[u] = clients[u]
  BY <1>1, <1>4
<1>7. CASE id \notin DOMAIN sessions
  <2>1. UNCHANGED <<sessions, down>>
    BY <1>1, <1>7
  <2>2. ShownShaped'
    BY <1>4, <2>1 DEF ShownShaped
  <2>3. ASSUME NEW u \in Tabs PROVE Agrees(u)'
    BY <1>6, <2>1 DEF ShownInv, Agrees, Reaches
  <2> QED BY <2>2, <2>3 DEF ShownInv
<1>8. CASE id \in DOMAIN sessions
  <2>1. /\ DOMAIN sessions' = IF left = {} THEN DOMAIN sessions \ {id} ELSE DOMAIN sessions
        /\ \A i \in DOMAIN sessions' :
             sessions'[i].members = IF i = id THEN left ELSE sessions[i].members
    <3>1. CASE left = {}
      <4>1. sessions' = [i \in DOMAIN sessions \ {id} |-> sessions[i]]
        BY <1>1, <1>8, <3>1 DEF Restrict
      <4> QED BY <3>1, <4>1
    <3>2. CASE left # {}
      BY <1>1, <1>4, <1>8, <3>2
    <3> QED BY <3>1, <3>2
  <2>2. /\ DOMAIN down' = Tabs
        /\ \A u \in Tabs :
             /\ down'[u] = IF u \in Others(id, t) /\ Reaches(u) THEN Append(down[u], m) ELSE down[u]
             /\ down'[u] \in Seq(Range(down'[u]))
    BY <1>1, <1>4, <1>8, BroadcastFacts
  <2>3. ShownShaped'
    <3>1. \A i \in DOMAIN sessions' : sessions'[i].members \subseteq Users
      BY <1>4, <1>5, <1>8, <2>1
    <3> QED BY <1>4, <2>2, <3>1 DEF ShownShaped
  <2>4. ASSUME NEW u \in Tabs PROVE Agrees(u)'
    <3> SUFFICES ASSUME clients'[u] # NoSession, Reaches(u), NEW w \in Users
                 PROVE  WillShow(down'[u], tab[u].users, w)
                          <=> clients'[u] \in DOMAIN sessions' /\ w \in sessions'[clients'[u]].members
      BY DEF Agrees, Reaches
    <3>1. /\ u # t /\ clients'[u] = clients[u]
          /\ WillShow(down[u], tab[u].users, w)
               <=> clients[u] \in DOMAIN sessions /\ w \in sessions[clients[u]].members
      BY <1>6 DEF ShownInv, Agrees
    <3>2. CASE clients[u] = id
      <4>1. down'[u] = Append(down[u], m)
        BY <2>2, <3>1, <3>2 DEF Others
      <4>2. WillShow(down'[u], tab[u].users, w) <=> w # user /\ WillShow(down[u], tab[u].users, w)
        BY <1>3, <1>4, <4>1, WillShowAppend
      <4>3. WillShow(down'[u], tab[u].users, w) <=> w \in left
        BY <1>5, <1>8, <3>1, <3>2, <4>2
      <4> QED BY <1>8, <2>1, <3>1, <3>2, <4>3
    <3>3. CASE clients[u] # id
      <4>1. down'[u] = down[u]
        BY <2>2, <3>3 DEF Others
      <4> QED BY <2>1, <3>1, <3>3, <4>1
    <3> QED BY <3>2, <3>3
  <2> QED BY <2>3, <2>4 DEF ShownInv
<1> QED BY <1>7, <1>8

LEMMA ShownInitially == Init => ShownInv
<1> SUFFICES ASSUME Init PROVE ShownInv
  OBVIOUS
<1>1. \A t \in Tabs : down[t] = <<>> /\ "users" \in DOMAIN tab[t] /\ clients[t] = NoSession
  BY DEF Init, NewTab
<1>2. <<>> \in Seq(Range(<<>>))
  OBVIOUS
<1>3. ShownShaped
  BY <1>1, <1>2 DEF Init, ShownShaped
<1> QED BY <1>1, <1>3 DEF ShownInv, Agrees

LEMMA StepsShow == IInv /\ ShownInv /\ [Next]_vars => ShownInv'
<1> SUFFICES ASSUME IInv, ShownInv, [Next]_vars PROVE ShownInv'
  OBVIOUS
<1>1. CASE UNCHANGED vars
  <2>1. UNCHANGED <<sessions, clients, down, link, tab>>
    BY <1>1 DEF vars
  <2> QED BY <2>1 DEF ShownInv, ShownShaped, Agrees, Reaches
<1>2. CASE Next
  <2> PICK t \in Tabs : \/ \E id \in Ids : Connect(t, id)
                        \/ \E new \in Keystrokes(tab[t].text) : Edit(t, new)
                        \/ Receive(t) \/ Disconnect(t) \/ NoticeClose(t) \/ Cut(t)
                        \/ HandleMessage(t) \/ ServerClose(t)
    BY <1>2 DEF Next
  <2>1. CASE \/ \E id \in Ids : Connect(t, id)
             \/ \E new \in Keystrokes(tab[t].text) : Edit(t, new)
             \/ Receive(t) \/ Disconnect(t) \/ NoticeClose(t) \/ Cut(t)
    BY <2>1, TabStepsShow
  <2>2. CASE HandleMessage(t)
    <3>1. /\ up[t] # <<>> /\ up' = [up EXCEPT ![t] = Tail(@)] /\ UNCHANGED <<tab, link>>
          /\ HandleJoin(t) \/ HandleOperation(t) \/ HandleLeave(t)
      BY <2>2 DEF HandleMessage
    <3> QED BY <3>1, JoinShows, OperationShows, LeavingShows DEF HandleLeave
  <2>3. CASE ServerClose(t)
    BY <2>3, LeavingShows DEF ServerClose
  <2> QED BY <2>1, <2>2, <2>3
<1> QED BY <1>1, <1>2

\* Once the messages under way to it are in, a connected tab shows the users the
\* server has in its session.
THEOREM ShowsTheMembers == Spec => []PresenceAgrees
<1>1. Init => IInv /\ ShownInv
  BY Initially, ShownInitially
<1>2. IInv /\ ShownInv /\ [Next]_vars => IInv' /\ ShownInv'
  BY StepsKeep, StepsShow
<1>3. ShownInv => PresenceAgrees
  BY ShownInvImplies
<1> QED BY <1>1, <1>2, <1>3, PTL DEF Spec

-------------------------------------------------------------------------------
(* What a tab gets.                                                         *)
(*                                                                         *)
(* The server appends an operation to the history and sends it to the      *)
(* other sockets of the session in one step, and a channel is FIFO: so the *)
(* places received, followed by those under way, are the places due.  A    *)
(* session made anew counts as another one.                                *)

Ops(channel) == {k \in DOMAIN channel : IsOperation(channel[k])}

\* got and channel hold what tab t is due of h after its first "from" entries.
Whole(got, channel, h, from, t) ==
  /\ \A p : (p \in (from + 1)..Len(h) /\ h[p].by # t)
              <=> \/ \E i \in 1..Len(got) : got[i] = p
                  \/ \E k \in Ops(channel) : channel[k].at = p
  /\ \A i, j \in 1..Len(got) : i < j => got[i] < got[j]
  /\ \A i \in 1..Len(got), k \in Ops(channel) : got[i] < channel[k].at
  /\ \A j, k \in Ops(channel) : j < k => channel[j].at < channel[k].at
  /\ \A k \in Ops(channel) : /\ channel[k].op = h[channel[k].at].op
                             /\ channel[k].by = h[channel[k].at].by

LEMMA OpsAppend ==
  ASSUME NEW s, s \in Seq(Range(s)), NEW m
  PROVE  /\ IsOperation(m) => Ops(Append(s, m)) = Ops(s) \cup {Len(s) + 1}
         /\ ~IsOperation(m) => Ops(Append(s, m)) = Ops(s)
         /\ \A k \in Ops(s) : k \in 1..Len(s) /\ Append(s, m)[k] = s[k]
         /\ Append(s, m)[Len(s) + 1] = m /\ Len(s) \in Nat
<1> DEFINE a == Append(s, m)
<1>1. /\ a \in Seq(Range(a))
      /\ Len(s) \in Nat /\ Len(a) = Len(s) + 1
      /\ \A k \in 1..Len(s) : a[k] = s[k]
      /\ a[Len(s) + 1] = m
  BY AppendFacts
<1> HIDE DEF a
<1>2. DOMAIN s = 1..Len(s) /\ DOMAIN a = 1..Len(a)
  BY <1>1
<1>3. \A k : k \in 1..Len(a) <=> k \in 1..Len(s) \/ k = Len(s) + 1
  BY <1>1
<1>4. /\ IsOperation(m) => Ops(a) = Ops(s) \cup {Len(s) + 1}
      /\ ~IsOperation(m) => Ops(a) = Ops(s)
  BY <1>1, <1>2, <1>3 DEF Ops
<1>5. \A k \in Ops(s) : k \in 1..Len(s) /\ a[k] = s[k]
  BY <1>1, <1>2 DEF Ops
<1> QED BY <1>1, <1>4, <1>5 DEF a

LEMMA OpsTail ==
  ASSUME NEW s, s \in Seq(Range(s)), s # <<>>
  PROVE  /\ 1 \in Ops(s) <=> IsOperation(Head(s))
         /\ Head(s) = s[1]
         /\ \A k \in Ops(Tail(s)) : k \in Nat /\ k >= 1 /\ k + 1 \in Ops(s) /\ Tail(s)[k] = s[k + 1]
         /\ \A k \in Ops(s) : \/ k = 1
                              \/ k - 1 \in Ops(Tail(s)) /\ Tail(s)[k - 1] = s[k] /\ k \in Nat /\ k > 1
<1> DEFINE a == Tail(s)
<1>1. /\ a \in Seq(Range(a))
      /\ Len(s) \in Nat /\ Len(s) >= 1 /\ Len(a) = Len(s) - 1
      /\ Head(s) = s[1]
      /\ \A k \in 1..Len(a) : k + 1 \in 1..Len(s) /\ a[k] = s[k + 1]
  BY TailFacts
<1> HIDE DEF a
<1>2. DOMAIN s = 1..Len(s) /\ DOMAIN a = 1..Len(a)
  BY <1>1
<1>3. \A k \in 1..Len(s) : k = 1 \/ (k \in Nat /\ k > 1 /\ k - 1 \in 1..Len(a) /\ a[k - 1] = s[k])
  <2> SUFFICES ASSUME NEW k \in 1..Len(s), k # 1
               PROVE  k \in Nat /\ k > 1 /\ k - 1 \in 1..Len(a) /\ a[k - 1] = s[k]
    OBVIOUS
  <2>1. k \in Nat /\ k > 1 /\ k - 1 \in 1..Len(a) /\ (k - 1) + 1 = k
    BY <1>1
  <2> QED BY <1>1, <2>1
<1>4. 1 \in Ops(s) <=> IsOperation(Head(s))
  BY <1>1, <1>2 DEF Ops
<1>5. \A k \in Ops(a) : k \in Nat /\ k >= 1 /\ k + 1 \in Ops(s) /\ a[k] = s[k + 1]
  BY <1>1, <1>2 DEF Ops
<1>6. \A k \in Ops(s) : \/ k = 1
                        \/ k - 1 \in Ops(a) /\ a[k - 1] = s[k] /\ k \in Nat /\ k > 1
  BY <1>2, <1>3 DEF Ops
<1> QED BY <1>1, <1>4, <1>5, <1>6 DEF a

\* A message that is no operation changes nothing in what a tab gets.
LEMMA WholeNews ==
  ASSUME NEW got, NEW s, s \in Seq(Range(s)), NEW h, NEW from, NEW t, NEW m,
         ~IsOperation(m), Whole(got, s, h, from, t)
  PROVE  Whole(got, Append(s, m), h, from, t)
<1> DEFINE a == Append(s, m)
<1>1. Ops(a) = Ops(s) /\ \A k \in Ops(s) : a[k] = s[k]
  BY OpsAppend
<1> HIDE DEF a
<1>2. Whole(got, a, h, from, t)
  BY <1>1 DEF Whole
<1> QED BY <1>2 DEF a

\* An operation of another tab, kept and sent.
LEMMA WholeOperation ==
  ASSUME NEW got, NEW s, s \in Seq(Range(s)), NEW h, h \in Seq(Range(h)),
         NEW from \in Nat, from <= Len(h), NEW t, NEW m, NEW e,
         IsOperation(m), m.at = Len(h) + 1, m.op = e.op, m.by = e.by, e.by # t,
         Whole(got, s, h, from, t)
  PROVE  Whole(got, Append(s, m), Append(h, e), from, t)
<1> DEFINE a == Append(s, m)
           b == Append(h, e)
           n == Len(h) + 1
<1>1. /\ Ops(a) = Ops(s) \cup {Len(s) + 1}
      /\ \A k \in Ops(s) : k \in 1..Len(s) /\ a[k] = s[k]
      /\ a[Len(s) + 1] = m /\ Len(s) \in Nat
  BY OpsAppend
<1>2. /\ Len(h) \in Nat /\ Len(b) = n
      /\ \A k \in 1..Len(h) : b[k] = h[k]
      /\ b[n] = e
  BY AppendFacts
<1> HIDE DEF a, b
<1>3. \A p : p \in (from + 1)..Len(b) <=> p \in (from + 1)..Len(h) \/ p = n
  BY <1>2
<1>4. \A p \in (from + 1)..Len(h) : p \in 1..Len(h) /\ p < n /\ b[p] = h[p]
  BY <1>2
<1>5. /\ \A i \in 1..Len(got) : got[i] \in (from + 1)..Len(h)
      /\ \A k \in Ops(s) : s[k].at \in (from + 1)..Len(h)
  BY DEF Whole
<1>6. ASSUME NEW p
      PROVE  (p \in (from + 1)..Len(b) /\ b[p].by # t)
               <=> \/ \E i \in 1..Len(got) : got[i] = p
                   \/ \E k \in Ops(a) : a[k].at = p
  <2>1. CASE p = n
    BY <1>1, <1>2, <1>3, <2>1
  <2>2. CASE p # n
    <3>1. (p \in (from + 1)..Len(b) /\ b[p].by # t) <=> (p \in (from + 1)..Len(h) /\ h[p].by # t)
      BY <1>3, <1>4, <2>2
    <3>2. (\E k \in Ops(a) : a[k].at = p) <=> (\E k \in Ops(s) : s[k].at = p)
      BY <1>1, <2>2
    <3> QED BY <3>1, <3>2 DEF Whole
  <2> QED BY <2>1, <2>2
<1>7. \A i \in 1..Len(got), k \in Ops(a) : got[i] < a[k].at
  BY <1>1, <1>4, <1>5 DEF Whole
<1>8. \A j, k \in Ops(a) : j < k => a[j].at < a[k].at
  <2> SUFFICES ASSUME NEW j \in Ops(a), NEW k \in Ops(a), j < k
               PROVE  a[j].at < a[k].at
    OBVIOUS
  <2>1. j \in Ops(s)
    BY <1>1
  <2>2. CASE k \in Ops(s)
    BY <1>1, <2>1, <2>2 DEF Whole
  <2>3. CASE k = Len(s) + 1
    BY <1>1, <1>4, <1>5, <2>1, <2>3
  <2> QED BY <1>1, <2>2, <2>3
<1>9. \A k \in Ops(a) : a[k].op = b[a[k].at].op /\ a[k].by = b[a[k].at].by
  <2> SUFFICES ASSUME NEW k \in Ops(a)
               PROVE  a[k].op = b[a[k].at].op /\ a[k].by = b[a[k].at].by
    OBVIOUS
  <2>1. CASE k \in Ops(s)
    <3>1. a[k] = s[k] /\ b[s[k].at] = h[s[k].at]
      BY <1>1, <1>4, <1>5, <2>1
    <3> QED BY <2>1, <3>1 DEF Whole
  <2>2. CASE k = Len(s) + 1
    BY <1>1, <1>2, <2>2
  <2> QED BY <1>1, <2>1, <2>2
<1>10. \A i, j \in 1..Len(got) : i < j => got[i] < got[j]
  BY DEF Whole
<1>11. Whole(got, a, b, from, t)
  BY <1>6, <1>7, <1>8, <1>9, <1>10 DEF Whole
<1> QED BY <1>11 DEF a, b

\* An operation of the tab itself is kept and not sent to it.
LEMMA WholeOwn ==
  ASSUME NEW got, NEW s, NEW h, h \in Seq(Range(h)), NEW from \in Nat, NEW t, NEW e,
         e.by = t, Whole(got, s, h, from, t)
  PROVE  Whole(got, s, Append(h, e), from, t)
<1> DEFINE b == Append(h, e)
           n == Len(h) + 1
<1>1. /\ Len(h) \in Nat /\ Len(b) = n
      /\ \A k \in 1..Len(h) : b[k] = h[k]
      /\ b[n] = e
  BY AppendFacts
<1> HIDE DEF b
<1>2. \A p : p \in (from + 1)..Len(b) /\ p # n => p \in (from + 1)..Len(h)
  BY <1>1
<1>3. \A p \in (from + 1)..Len(h) : p \in (from + 1)..Len(b) /\ p # n /\ b[p] = h[p]
  BY <1>1
<1>4. \A p : (p \in (from + 1)..Len(b) /\ b[p].by # t) <=> (p \in (from + 1)..Len(h) /\ h[p].by # t)
  BY <1>1, <1>2, <1>3
<1>5. \A k \in Ops(s) : b[s[k].at] = h[s[k].at]
  BY <1>3 DEF Whole
<1>6. Whole(got, s, b, from, t)
  BY <1>4, <1>5 DEF Whole
<1> QED BY <1>6 DEF b

\* The tab takes in the first message of its channel.
LEMMA WholeTaken ==
  ASSUME NEW got \in Seq(Nat), NEW s, s \in Seq(Range(s)), s # <<>>,
         NEW h, NEW from, NEW t, NEW after,
         after = IF IsOperation(Head(s)) THEN Append(got, Head(s).at) ELSE got,
         IsOperation(Head(s)) => Head(s).at \in Nat,
         Whole(got, s, h, from, t)
  PROVE  Whole(after, Tail(s), h, from, t)
<1> DEFINE a == Tail(s)
<1>1. /\ 1 \in Ops(s) <=> IsOperation(Head(s))
      /\ Head(s) = s[1]
      /\ \A k \in Ops(a) : k \in Nat /\ k >= 1 /\ k + 1 \in Ops(s) /\ a[k] = s[k + 1]
      /\ \A k \in Ops(s) : \/ k = 1
                           \/ k - 1 \in Ops(a) /\ a[k - 1] = s[k] /\ k \in Nat /\ k > 1
  BY OpsTail
<1> HIDE DEF a
<1>2. \A j, k \in Ops(a) : j < k => a[j].at < a[k].at
  <2> SUFFICES ASSUME NEW j \in Ops(a), NEW k \in Ops(a), j < k
               PROVE  a[j].at < a[k].at
    OBVIOUS
  <2>1. j + 1 \in Ops(s) /\ k + 1 \in Ops(s) /\ j + 1 < k + 1
    BY <1>1
  <2> QED BY <1>1, <2>1 DEF Whole
<1>3. \A k \in Ops(a) : a[k].op = h[a[k].at].op /\ a[k].by = h[a[k].at].by
  BY <1>1 DEF Whole
<1>4. CASE ~IsOperation(Head(s))
  <2>1. after = got
    BY <1>4
  <2>2. \A p : (\E k \in Ops(a) : a[k].at = p) <=> (\E k \in Ops(s) : s[k].at = p)
    BY <1>1, <1>4
  <2>3. \A i \in 1..Len(got), k \in Ops(a) : got[i] < a[k].at
    BY <1>1 DEF Whole
  <2>4. Whole(got, a, h, from, t)
    BY <1>2, <1>3, <2>2, <2>3 DEF Whole
  <2> QED BY <2>1, <2>4 DEF a
<1>5. CASE IsOperation(Head(s))
  <2> DEFINE p1 == s[1].at
             n == Len(got) + 1
  <2>1. /\ Len(got) \in Nat /\ Len(after) = n
        /\ \A i \in 1..Len(got) : after[i] = got[i]
        /\ after[n] = p1
    BY <1>1, <1>5
  <2>2. \A i : i \in 1..Len(after) <=> i \in 1..Len(got) \/ i = n
    BY <2>1
  <2>3. ASSUME NEW p
        PROVE  (\E i \in 1..Len(got) : got[i] = p) \/ (\E k \in Ops(s) : s[k].at = p)
                 <=> (\E i \in 1..Len(after) : after[i] = p) \/ (\E k \in Ops(a) : a[k].at = p)
    <3>1. (\E k \in Ops(s) : s[k].at = p) <=> p = p1 \/ \E k \in Ops(a) : a[k].at = p
      <4>1. ASSUME NEW k \in Ops(s), s[k].at = p
            PROVE  p = p1 \/ \E j \in Ops(a) : a[j].at = p
        BY <1>1, <4>1, Zenon
      <4>2. ASSUME NEW j \in Ops(a), a[j].at = p
            PROVE  \E k \in Ops(s) : s[k].at = p
        BY <1>1, <4>2, Zenon
      <4>3. 1 \in Ops(s)
        BY <1>1, <1>5
      <4> QED BY <4>1, <4>2, <4>3
    <3>2. (\E i \in 1..Len(after) : after[i] = p) <=> p = p1 \/ \E i \in 1..Len(got) : got[i] = p
      <4> HIDE DEF p1, n
      <4> QED BY <2>1, <2>2, Zenon
    <3> QED BY <3>1, <3>2
  <2>4. \A i \in 1..Len(got) : got[i] < p1
    BY <1>1, <1>5 DEF Whole
  <2>5. \A k \in Ops(a) : p1 < a[k].at
    <3> SUFFICES ASSUME NEW k \in Ops(a) PROVE p1 < a[k].at
      OBVIOUS
    <3>1. k + 1 \in Ops(s) /\ 1 \in Ops(s) /\ 1 < k + 1
      BY <1>1, <1>5
    <3> QED BY <1>1, <3>1 DEF Whole
  <2>6. \A i, j \in 1..Len(after) : i < j => after[i] < after[j]
    <3> SUFFICES ASSUME NEW i \in 1..Len(after), NEW j \in 1..Len(after), i < j
                 PROVE  after[i] < after[j]
      OBVIOUS
    <3>1. i \in 1..Len(got)
      BY <2>1
    <3>2. CASE j \in 1..Len(got)
      BY <2>1, <3>1, <3>2 DEF Whole
    <3>3. CASE j = n
      BY <2>1, <2>4, <3>1, <3>3
    <3> QED BY <2>2, <3>2, <3>3
  <2>7. \A i \in 1..Len(after), k \in Ops(a) : after[i] < a[k].at
    <3> SUFFICES ASSUME NEW i \in 1..Len(after), NEW k \in Ops(a)
                 PROVE  after[i] < a[k].at
      OBVIOUS
    <3>1. CASE i \in 1..Len(got)
      BY <1>1, <2>1, <3>1 DEF Whole
    <3>2. CASE i = n
      BY <2>1, <2>5, <3>2
    <3> QED BY <2>2, <3>1, <3>2
  <2>8. Whole(after, a, h, from, t)
    BY <1>2, <1>3, <2>3, <2>6, <2>7 DEF Whole
  <2> QED BY <2>8 DEF a
<1> QED BY <1>4, <1>5

\* The part of the types that this argument uses.
PlacesShaped ==
  /\ \A t \in Tabs :
       /\ "got" \in DOMAIN tab[t] /\ tab[t].got \in Seq(Nat)
       /\ \A k \in Ops(down[t]) : down[t][k].at \in Nat
       /\ joinedAt[t].birth \in Nat /\ joinedAt[t].length \in Nat
  /\ \A i \in DOMAIN sessions :
       /\ "history" \in DOMAIN sessions[i]
       /\ sessions[i].history \in Seq(Range(sessions[i].history))

\* Until its join is handled a tab is sent no operation.
NotYet(t) == tab[t].phase = "idle" \/ ~NoJoin(t)
StartsEmpty == \A t \in Tabs : NotYet(t) => tab[t].got = <<>> /\ Ops(down[t]) = {}

\* A tab joined a creation of its session that was the last one at the time,
\* and a history only grows.
JoinedBefore ==
  \A t \in Tabs :
    /\ clients[t] # NoSession => joinedAt[t].birth <= born[clients[t]]
    /\ Attached(t) => joinedAt[t].length <= Len(sessions[clients[t]].history)

Complete(t) ==
  (Attached(t) /\ Reaches(t)) =>
    Whole(tab[t].got, down[t], sessions[clients[t]].history, joinedAt[t].length, t)

GetsInv == PlacesShaped /\ StartsEmpty /\ JoinedBefore /\ \A t \in Tabs : Complete(t)

LEMMA GetsInvImplies == GetsInv => NothingMissedNorTwice
<1> SUFFICES ASSUME GetsInv, NEW t \in Tabs, Attached(t), Reaches(t)
             PROVE  /\ Due(t) = Range(tab[t].got) \cup {down[t][k].at : k \in InFlight(t)}
                    /\ InOrder(t) /\ AsKept(t)
  BY DEF NothingMissedNorTwice
<1> DEFINE h == sessions[clients[t]].history
           got == tab[t].got
           from == joinedAt[t].length
<1>1. Whole(got, down[t], h, from, t) /\ got \in Seq(Nat)
  BY DEF GetsInv, Complete, PlacesShaped
<1>2. InFlight(t) = Ops(down[t])
  BY DEF InFlight, Ops
<1>3. DOMAIN got = 1..Len(got)
  BY <1>1
<1> HIDE DEF h, got, from
<1>4. \A p : p \in Range(got) <=> \E i \in 1..Len(got) : got[i] = p
  BY <1>3 DEF Range
<1>5. Due(t) = {p \in (from + 1)..Len(h) : h[p].by # t}
  BY DEF Due, h, from
<1>6. Due(t) = Range(got) \cup {down[t][k].at : k \in InFlight(t)}
  BY <1>1, <1>2, <1>4, <1>5 DEF Whole
<1>7. InOrder(t)
  BY <1>1, <1>2, <1>3 DEF InOrder, Whole, got
<1>8. AsKept(t)
  BY <1>1, <1>2 DEF AsKept, Whole, h
<1> QED BY <1>6, <1>7, <1>8 DEF got

\* A step of tab t that the server has no part in.
LEMMA TabGets ==
  ASSUME IInv, GetsInv, NEW t \in Tabs, UNCHANGED server,
         \A u \in Tabs \ {t} : /\ down'[u] = down[u] /\ tab'[u] = tab[u]
                               /\ link'[u] = link[u] /\ up'[u] = up[u],
         "got" \in DOMAIN tab'[t], tab'[t].got \in Seq(Nat),
         \A k \in Ops(down'[t]) : down'[t][k].at \in Nat,
         NotYet(t)' => NotYet(t) /\ tab'[t].got = <<>> /\ Ops(down'[t]) = {},
         Complete(t)'
  PROVE  GetsInv'
<1>1. UNCHANGED <<sessions, clients, born, joinedAt>>
  BY DEF server
<1>2. PlacesShaped'
  BY <1>1 DEF GetsInv, PlacesShaped
<1>3. ASSUME NEW u \in Tabs \ {t}
      PROVE  /\ NotYet(u)' <=> NotYet(u)
             /\ Complete(u)'
  <2>1. down'[u] = down[u] /\ tab'[u] = tab[u] /\ link'[u] = link[u] /\ up'[u] = up[u]
    OBVIOUS
  <2>2. NotYet(u)' <=> NotYet(u)
    BY <2>1 DEF NotYet, NoJoin
  <2>3. /\ Reaches(u)' <=> Reaches(u)
        /\ Attached(u)' <=> Attached(u)
    BY <1>1, <2>1 DEF Reaches, Attached
  <2>4. Complete(u)
    BY DEF GetsInv
  <2> QED BY <1>1, <2>1, <2>2, <2>3, <2>4 DEF Complete
<1>4. StartsEmpty'
  BY <1>3 DEF GetsInv, StartsEmpty
<1>5. JoinedBefore'
  BY <1>1 DEF GetsInv, JoinedBefore, Attached
<1> QED BY <1>2, <1>3, <1>4, <1>5 DEF GetsInv

LEMMA NoOps == Ops(<<>>) = {}
BY DEF Ops

LEMMA TabStepsGet ==
  ASSUME IInv, ShownInv, GetsInv, NEW t \in Tabs,
         \/ \E id \in Ids : Connect(t, id)
         \/ \E new : Edit(t, new)
         \/ Receive(t) \/ Disconnect(t) \/ NoticeClose(t) \/ Cut(t)
  PROVE  GetsInv'
<1>1. /\ DOMAIN tab = Tabs /\ DOMAIN down = Tabs /\ DOMAIN link = Tabs /\ DOMAIN up = Tabs
      /\ {"phase", "id", "users", "got"} \subseteq DOMAIN tab[t]
      /\ down[t] \in Seq(Range(down[t])) /\ up[t] \in Seq(Range(up[t]))
      /\ tab[t].got \in Seq(Nat)
      /\ \A k \in Ops(down[t]) : down[t][k].at \in Nat
      /\ NotYet(t) => tab[t].got = <<>> /\ Ops(down[t]) = {}
      /\ Complete(t)
  BY DEF IInv, Shaped, ShownInv, ShownShaped, GetsInv, PlacesShaped, StartsEmpty
<1>2. CASE \E id \in Ids : Connect(t, id)
  <2>1. PICK id \in Ids : Connect(t, id)
    BY <1>2
  <2> DEFINE m == [type |-> "join"]
  <2>2. /\ tab[t].phase = "idle" /\ UNCHANGED server /\ UNCHANGED <<down, link>>
        /\ tab' = [tab EXCEPT ![t].phase = "open", ![t].id = id]
        /\ SendUp(t, m)
    BY <2>1 DEF Connect
  <2> HIDE DEF m
  <2>3. \A u \in Tabs \ {t} : up'[u] = up[u]
    BY <2>2, SendUpFacts
  <2>4. /\ \A u \in Tabs \ {t} : tab'[u] = tab[u]
        /\ "got" \in DOMAIN tab'[t] /\ tab'[t].got = tab[t].got
    BY <1>1, <2>2
  <2>5. NotYet(t)
    BY <2>2 DEF NotYet
  <2>6. Complete(t)'
    <3>1. clients'[t] = NoSession /\ sessions' = sessions
      BY <2>2 DEF IInv, JoinsOnce, server
    <3>2. ~Attached(t)'
      BY <3>1, Assumption DEF IInv, Shaped, Attached
    <3> QED BY <3>2 DEF Complete
  <2> QED BY <1>1, <2>2, <2>3, <2>4, <2>5, <2>6, TabGets
<1>3. CASE \E new : Edit(t, new)
  <2>1. PICK new : Edit(t, new)
    BY <1>3
  <2>2. /\ UNCHANGED server /\ UNCHANGED <<down, link>>
        /\ \A u \in Tabs \ {t} : tab'[u] = tab[u]
        /\ "got" \in DOMAIN tab'[t]
        /\ tab'[t]["phase"] = tab[t]["phase"] /\ tab'[t]["got"] = tab[t]["got"]
        /\ UNCHANGED up \/ \E m : SendUp(t, m) /\ m.type # "join"
    BY <1>1, <2>1, EditFacts
  <2>3. /\ \A u \in Tabs \ {t} : up'[u] = up[u]
        /\ NoJoin(t) => NoJoin(t)'
    <3>1. CASE UNCHANGED up
      BY <3>1 DEF NoJoin
    <3>2. CASE \E m : SendUp(t, m) /\ m.type # "join"
      BY <3>2, SendUpFacts, SendsNoJoin
    <3> QED BY <2>2, <3>1, <3>2
  <2>4. NotYet(t)' => NotYet(t)
    BY <2>2, <2>3 DEF NotYet
  <2>5. Complete(t)'
    <3>1. /\ Reaches(t)' <=> Reaches(t)
          /\ Attached(t)' <=> Attached(t)
          /\ UNCHANGED <<sessions, clients, joinedAt>>
      BY <2>2 DEF Reaches, Attached, server
    <3> QED BY <1>1, <2>2, <3>1 DEF Complete
  <2> QED BY <1>1, <2>2, <2>3, <2>4, <2>5, TabGets
<1>4. CASE Receive(t)
  <2> DEFINE m == Head(down[t])
             changed == Received(tab[t], m)
  <2>1. /\ tab[t].phase \in {"open", "joined"} /\ down[t] # <<>>
        /\ UNCHANGED server /\ UNCHANGED <<up, link>>
        /\ tab' = [tab EXCEPT ![t] = changed]
        /\ down' = [down EXCEPT ![t] = Tail(@)]
    BY <1>4 DEF Receive
  <2> HIDE DEF m
  <2>2. /\ "got" \in DOMAIN changed
        /\ changed.phase \in {tab[t].phase, "joined"}
        /\ changed.got = IF IsOperation(m) THEN Append(tab[t].got, m.at) ELSE tab[t].got
    <3>1. CASE m.type = "joined"
      BY <1>1, <3>1 DEF Received, IsOperation
    <3>2. CASE m.type = "user-joined"
      BY <1>1, <3>2 DEF Received, IsOperation
    <3>3. CASE m.type = "user-left"
      BY <1>1, <3>3 DEF Received, IsOperation
    <3>4. CASE m.type = "operation"
      BY <1>1, <3>4 DEF Received, IsOperation
    <3>5. CASE m.type \notin {"joined", "user-joined", "user-left", "operation"}
      BY <1>1, <3>5 DEF Received, IsOperation
    <3> QED BY <3>1, <3>2, <3>3, <3>4, <3>5
  <2> HIDE DEF changed
  <2>3. /\ \A u \in Tabs \ {t} : tab'[u] = tab[u] /\ down'[u] = down[u]
        /\ tab'[t] = changed /\ down'[t] = Tail(down[t])
    BY <1>1, <2>1
  <2>4. /\ 1 \in Ops(down[t]) <=> IsOperation(m)
        /\ m = down[t][1]
        /\ \A k \in Ops(Tail(down[t])) : k + 1 \in Ops(down[t]) /\ Tail(down[t])[k] = down[t][k + 1]
    BY <1>1, <2>1, OpsTail DEF m
  <2>5. IsOperation(m) => m.at \in Nat
    BY <1>1, <2>4
  <2>6. /\ tab'[t].got \in Seq(Nat) /\ "got" \in DOMAIN tab'[t]
        /\ \A k \in Ops(down'[t]) : down'[t][k].at \in Nat
    <3>1. changed.got \in Seq(Nat)
      <4> DEFINE got == tab[t].got
      <4>1. got \in Seq(Nat) /\ (IsOperation(m) => m.at \in Nat)
            /\ changed.got = IF IsOperation(m) THEN Append(got, m.at) ELSE got
        BY <1>1, <2>2, <2>5
      <4> HIDE DEF got
      <4> QED BY <4>1
    <3>2. \A k \in Ops(Tail(down[t])) : Tail(down[t])[k].at \in Nat
      BY <1>1, <2>4
    <3> QED BY <2>2, <2>3, <3>1, <3>2
  <2>7. NotYet(t)' => NotYet(t) /\ tab'[t].got = <<>> /\ Ops(down'[t]) = {}
    <3> SUFFICES ASSUME NotYet(t)'
                 PROVE  NotYet(t) /\ tab'[t].got = <<>> /\ Ops(down'[t]) = {}
      OBVIOUS
    <3>1. ~NoJoin(t)
      BY <2>1, <2>2, <2>3 DEF NotYet, NoJoin
    <3>2. tab[t].got = <<>> /\ Ops(down[t]) = {} /\ NotYet(t)
      BY <1>1, <3>1 DEF NotYet
    <3> QED BY <2>2, <2>3, <2>4, <3>2
  <2>8. Complete(t)'
    <3> SUFFICES ASSUME Attached(t)', Reaches(t)'
                 PROVE  Whole(tab[t].got, down[t], sessions[clients[t]].history, joinedAt[t].length, t)'
      BY DEF Complete
    <3>1. Attached(t) /\ UNCHANGED <<sessions, clients, joinedAt>>
      BY <2>1 DEF Attached, server
    <3>2. Reaches(t)
      BY <2>1 DEF Reaches
    <3>3. Whole(tab[t].got, down[t], sessions[clients[t]].history, joinedAt[t].length, t)
      BY <1>1, <3>1, <3>2 DEF Complete
    <3>4. /\ changed.got = IF IsOperation(Head(down[t])) THEN Append(tab[t].got, Head(down[t]).at)
                           ELSE tab[t].got
          /\ IsOperation(Head(down[t])) => Head(down[t]).at \in Nat
      BY <2>2, <2>5 DEF m
    <3>5. Whole(changed.got, Tail(down[t]), sessions[clients[t]].history, joinedAt[t].length, t)
      BY <1>1, <2>1, <3>3, <3>4, WholeTaken
    <3> QED BY <2>3, <3>1, <3>5
  <2> QED BY <2>1, <2>3, <2>6, <2>7, <2>8, TabGets
<1>5. CASE Disconnect(t) \/ NoticeClose(t)
  <2> DEFINE m == [type |-> "leave"]
  <2>1. /\ UNCHANGED server /\ UNCHANGED link
        /\ tab[t].phase \in {"open", "joined"}
        /\ tab' = [tab EXCEPT ![t].phase = "closed"]
        /\ down' = [down EXCEPT ![t] = <<>>] \/ UNCHANGED down
        /\ UNCHANGED up \/ SendUp(t, m)
    BY <1>5 DEF Disconnect, NoticeClose
  <2>2. m.type # "join"
    OBVIOUS
  <2> HIDE DEF m
  <2>3. /\ \A u \in Tabs \ {t} : up'[u] = up[u]
        /\ NoJoin(t) => NoJoin(t)'
    <3>1. CASE UNCHANGED up
      BY <3>1 DEF NoJoin
    <3>2. CASE SendUp(t, m)
      BY <2>2, <3>2, SendUpFacts, SendsNoJoin
    <3> QED BY <2>1, <3>1, <3>2
  <2>4. /\ \A u \in Tabs \ {t} : tab'[u] = tab[u] /\ down'[u] = down[u]
        /\ tab'[t].phase = "closed" /\ "got" \in DOMAIN tab'[t] /\ tab'[t].got = tab[t].got
        /\ down'[t] \in {<<>>, down[t]}
    BY <1>1, <2>1
  <2>5. NotYet(t)' => NotYet(t)
    BY <2>3, <2>4 DEF NotYet
  <2>6. (\A k \in Ops(down'[t]) : down'[t][k].at \in Nat) /\ (Ops(down[t]) = {} => Ops(down'[t]) = {})
    BY <1>1, <2>4, NoOps
  <2>7. Complete(t)'
    BY <2>4 DEF Complete, Reaches
  <2> QED BY <1>1, <2>1, <2>3, <2>4, <2>5, <2>6, <2>7, TabGets
<1>6. CASE Cut(t)
  <2>1. /\ UNCHANGED server /\ UNCHANGED tab
        /\ link' = [link EXCEPT ![t] = "cut"]
        /\ down' = [down EXCEPT ![t] = <<>>]
    BY <1>6 DEF Cut
  <2>2. PICK n \in 0..Len(up[t]) : up' = [up EXCEPT ![t] = SubSeq(@, 1, n)]
    BY <1>6 DEF Cut
  <2>3. /\ down'[t] = <<>> /\ link'[t] = "cut" /\ up'[t] = SubSeq(up[t], 1, n)
        /\ \A u \in Tabs \ {t} : down'[u] = down[u] /\ link'[u] = link[u] /\ up'[u] = up[u]
    BY <1>1, <2>1, <2>2
  <2>4. NoJoin(t) => NoJoin(t)'
    <3>1. Len(up[t]) \in Nat /\ Len(up'[t]) = n /\ \A k \in 1..n : up'[t][k] = up[t][k]
      BY <1>1, <2>2, <2>3, PrefixFacts
    <3>2. \A k \in 1..Len(up'[t]) : k \in 1..Len(up[t]) /\ up'[t][k] = up[t][k]
      BY <3>1
    <3> QED BY <3>2 DEF NoJoin
  <2>5. NotYet(t)' => NotYet(t)
    BY <2>1, <2>4 DEF NotYet
  <2>6. (\A k \in Ops(down'[t]) : down'[t][k].at \in Nat) /\ Ops(down'[t]) = {}
    BY <2>3, NoOps
  <2>7. Complete(t)'
    BY <2>3 DEF Complete, Reaches
  <2> QED BY <1>1, <2>1, <2>3, <2>5, <2>6, <2>7, TabGets
<1> QED BY <1>2, <1>3, <1>4, <1>5, <1>6

\* What a step sends a tab besides operations.
NewsOnly(u) == down'[u] = down[u] \/ \E m : ~IsOperation(m) /\ down'[u] = Append(down[u], m)

LEMMA NewsFacts ==
  ASSUME ShownInv, NEW u \in Tabs, NewsOnly(u)
  PROVE  /\ Ops(down'[u]) = Ops(down[u])
         /\ \A k \in Ops(down[u]) : down'[u][k] = down[u][k]
         /\ \A got, h, from : Whole(got, down[u], h, from, u) => Whole(got, down'[u], h, from, u)
<1>1. down[u] \in Seq(Range(down[u]))
  BY DEF ShownInv, ShownShaped
<1>2. CASE down'[u] = down[u]
  BY <1>2
<1>3. CASE \E m : ~IsOperation(m) /\ down'[u] = Append(down[u], m)
  <2>1. PICK m : ~IsOperation(m) /\ down'[u] = Append(down[u], m)
    BY <1>3
  <2> QED BY <1>1, <2>1, OpsAppend, WholeNews
<1> QED BY <1>2, <1>3 DEF NewsOnly

\* The server takes a message of tab t: nobody who has not joined has joined, but t.
LEMMA ServerNotYet ==
  ASSUME NEW t \in Tabs, UNCHANGED tab, \A u \in Tabs \ {t} : up'[u] = up[u],
         NoJoin(t)', tab[t].phase # "idle"
  PROVE  /\ ~NotYet(t)'
         /\ \A u \in Tabs \ {t} : NotYet(u)' <=> NotYet(u)
BY DEF NotYet, NoJoin

LEMMA JoinGets ==
  ASSUME IInv, ShownInv, GetsInv, NEW t \in Tabs, up[t] # <<>>, HandleJoin(t),
         up' = [up EXCEPT ![t] = Tail(@)], UNCHANGED <<tab, link>>
  PROVE  GetsInv'
<1> DEFINE id == tab[t].id
           user == UserOf[t]
           fresh == id \notin DOMAIN sessions
           session == IF fresh THEN NewSession ELSE sessions[id]
           joined == [session EXCEPT !.members = @ \cup {user}]
           length == Len(joined.history)
           state == [type |-> "joined", gcode |-> joined.gcode, users |-> joined.members]
           news == [type |-> "user-joined", user |-> user]
           first == Broadcast(down, {t}, state)
<1>1. /\ Head(up[t]).type = "join"
      /\ sessions' = MapSet(sessions, id, joined)
      /\ born' = IF fresh THEN [born EXCEPT ![id] = @ + 1] ELSE born
      /\ clients' = [clients EXCEPT ![t] = id]
      /\ joinedAt' = [joinedAt EXCEPT ![t] = [birth |-> born'[id], length |-> length]]
      /\ down' = Broadcast(first, Others(id, t), news)
  BY DEF HandleJoin
<1>2. /\ clients[t] = NoSession /\ id \in Ids /\ ~NoJoin(t)
      /\ tab[t].phase # "idle" /\ NoJoin(t)'
      /\ \A u \in Tabs \ {t} : up'[u] = up[u]
  BY <1>1, TakeFacts
<1>3. /\ DOMAIN sessions \subseteq Ids
      /\ clients \in [Tabs -> Ids \cup {NoSession}] /\ born \in [Ids -> Nat]
      /\ DOMAIN joinedAt = Tabs
      /\ ShownShaped /\ PlacesShaped
      /\ DOMAIN down = Tabs /\ \A u \in Tabs : down[u] \in Seq(Range(down[u]))
  BY DEF IInv, Shaped, ShownInv, ShownShaped, GetsInv
<1>4. /\ joined.history = session.history
      /\ "history" \in DOMAIN joined
      /\ joined.history \in Seq(Range(joined.history))
      /\ ~fresh => joined.history = sessions[id].history
  <2>1. CASE fresh
    <3>1. session = NewSession
      BY <2>1
    <3> HIDE DEF session
    <3>2. "history" \in DOMAIN session /\ session.history = <<>>
      BY <3>1 DEF NewSession
    <3>3. "history" \in DOMAIN joined /\ joined.history = <<>>
      BY <3>2
    <3>4. <<>> \in Seq(Range(<<>>))
      OBVIOUS
    <3> HIDE DEF joined
    <3> QED BY <2>1, <3>2, <3>3, <3>4
  <2>2. CASE ~fresh
    <3>1. session = sessions[id] /\ id \in DOMAIN sessions
      BY <2>2
    <3> HIDE DEF session
    <3>2. /\ "history" \in DOMAIN session /\ session.history = sessions[id].history
          /\ session.history \in Seq(Range(session.history))
      BY <1>3, <3>1 DEF PlacesShaped
    <3>3. "history" \in DOMAIN joined /\ joined.history = session.history
      BY <3>2
    <3> QED BY <3>2, <3>3
  <2> QED BY <2>1, <2>2
<1>5. ~IsOperation(state) /\ ~IsOperation(news)
  BY DEF IsOperation
<1> HIDE DEF state, news, joined, session, user
\* Everybody is sent news only.
<1>6. \A u \in Tabs : NewsOnly(u)
  <2>1. /\ DOMAIN first = Tabs
        /\ \A u \in Tabs :
             /\ first[u] = IF u = t /\ Reaches(u) THEN Append(down[u], state) ELSE down[u]
             /\ first[u] \in Seq(Range(first[u]))
    BY <1>3, BroadcastFacts
  <2> HIDE DEF first
  <2>2. \A u \in Tabs :
          down'[u] = IF u \in Others(id, t) /\ Reaches(u) THEN Append(first[u], news) ELSE first[u]
    <3> DEFINE b == Broadcast(first, Others(id, t), news)
    <3>1. \A u \in Tabs :
            b[u] = IF u \in Others(id, t) /\ Reaches(u) THEN Append(first[u], news) ELSE first[u]
      BY DEF Broadcast
    <3> QED BY <1>1, <3>1
  <2> HIDE DEF id
  <2>3. down'[t] = down[t] \/ down'[t] = Append(down[t], state)
    BY <2>1, <2>2 DEF Others
  <2>4. \A u \in Tabs \ {t} : down'[u] = down[u] \/ down'[u] = Append(down[u], news)
    BY <2>1, <2>2
  <2> QED BY <1>5, <2>3, <2>4 DEF NewsOnly
<1> HIDE DEF first, length, fresh, id
<1>7. \A u \in Tabs : /\ Ops(down'[u]) = Ops(down[u])
                      /\ \A k \in Ops(down[u]) : down'[u][k] = down[u][k]
                      /\ \A got, h, from : Whole(got, down[u], h, from, u)
                                             => Whole(got, down'[u], h, from, u)
  BY <1>6, NewsFacts
<1>8. /\ DOMAIN sessions' = DOMAIN sessions \cup {id}
      /\ sessions'[id] = joined
      /\ \A i \in DOMAIN sessions \ {id} : sessions'[i] = sessions[i]
      /\ clients'[t] = id /\ \A u \in Tabs \ {t} : clients'[u] = clients[u]
      /\ \A u \in Tabs \ {t} : joinedAt'[u] = joinedAt[u]
      /\ joinedAt'[t].birth = born'[id] /\ joinedAt'[t].length = length
  BY <1>1, <1>3 DEF MapSet
<1>9. /\ born' \in [Ids -> Nat]
      /\ \A i \in Ids : i # id \/ ~fresh => born'[i] = born[i]
      /\ fresh => born'[id] = born[id] + 1
  BY <1>1, <1>2, <1>3
<1>10. length \in Nat
  BY <1>4 DEF length
<1>11. PlacesShaped'
  <2>1. \A u \in Tabs : \A k \in Ops(down'[u]) : down'[u][k].at \in Nat
    BY <1>3, <1>7 DEF PlacesShaped
  <2>2. \A u \in Tabs : joinedAt'[u].birth \in Nat /\ joinedAt'[u].length \in Nat
    BY <1>2, <1>3, <1>8, <1>9, <1>10 DEF PlacesShaped
  <2>3. \A i \in DOMAIN sessions' : /\ "history" \in DOMAIN sessions'[i]
                                    /\ sessions'[i].history \in Seq(Range(sessions'[i].history))
    BY <1>3, <1>4, <1>8 DEF PlacesShaped
  <2> QED BY <1>3, <2>1, <2>2, <2>3 DEF PlacesShaped
<1>12. /\ ~NotYet(t)'
       /\ \A u \in Tabs \ {t} : NotYet(u)' <=> NotYet(u)
  BY <1>2, ServerNotYet
<1>13. StartsEmpty'
  BY <1>7, <1>12 DEF GetsInv, StartsEmpty
\* Another tab that is in a session created before is in one that was not made anew.
<1>14. ASSUME NEW u \in Tabs \ {t}, Attached(u)'
       PROVE  Attached(u) /\ sessions'[clients'[u]].history = sessions[clients[u]].history
  <2>1. /\ clients'[u] = clients[u] /\ clients[u] \in DOMAIN sessions'
        /\ born'[clients[u]] = joinedAt[u].birth
    BY <1>8, <1>14 DEF Attached
  <2>2. CASE clients[u] = id
    <3>1. clients[u] # NoSession
      BY <1>2, <2>2, Assumption
    <3>2. joinedAt[u].birth <= born[id]
      BY <2>2, <3>1 DEF GetsInv, JoinedBefore
    <3>3. born[id] \in Nat /\ joinedAt[u].birth \in Nat
      BY <1>2, <1>3 DEF PlacesShaped
    <3>4. ~fresh
      BY <1>9, <2>1, <2>2, <3>2, <3>3
    <3>5. id \in DOMAIN sessions /\ born[id] = joinedAt[u].birth
      BY <1>2, <1>9, <2>1, <2>2, <3>4 DEF fresh
    <3> QED BY <1>4, <1>8, <2>1, <2>2, <3>4, <3>5 DEF Attached
  <2>3. CASE clients[u] # id
    <3>1. clients[u] \in DOMAIN sessions /\ clients[u] \in Ids
      BY <1>3, <1>8, <2>1, <2>3
    <3>2. born[clients[u]] = joinedAt[u].birth
      BY <1>9, <2>1, <2>3, <3>1
    <3> QED BY <1>8, <2>1, <2>3, <3>1, <3>2 DEF Attached
  <2> QED BY <2>2, <2>3
<1>15. JoinedBefore'
  <2> SUFFICES ASSUME NEW u \in Tabs
               PROVE  /\ clients'[u] # NoSession => joinedAt'[u].birth <= born'[clients'[u]]
                      /\ Attached(u)' => joinedAt'[u].length <= Len(sessions'[clients'[u]].history)
    BY DEF JoinedBefore
  <2>1. CASE u = t
    <3>1. born'[id] \in Nat
      BY <1>2, <1>9
    <3> QED BY <1>8, <1>10, <2>1, <3>1 DEF length
  <2>2. CASE u # t
    <3>1. ASSUME clients'[u] # NoSession
          PROVE  joinedAt'[u].birth <= born'[clients'[u]]
      <4>1. /\ clients'[u] = clients[u] /\ clients[u] \in Ids /\ joinedAt'[u] = joinedAt[u]
            /\ joinedAt[u].birth <= born[clients[u]]
        BY <1>3, <1>8, <2>2, <3>1 DEF GetsInv, JoinedBefore
      <4>2. /\ born[clients[u]] \in Nat /\ joinedAt[u].birth \in Nat
            /\ born'[clients[u]] \in {born[clients[u]], born[clients[u]] + 1}
        BY <1>3, <1>9, <4>1 DEF PlacesShaped
      <4> QED BY <4>1, <4>2
    <3>2. ASSUME Attached(u)'
          PROVE  joinedAt'[u].length <= Len(sessions'[clients'[u]].history)
      BY <1>8, <1>14, <2>2, <3>2 DEF GetsInv, JoinedBefore
    <3> QED BY <3>1, <3>2
  <2> QED BY <2>1, <2>2
<1>16. ASSUME NEW u \in Tabs PROVE Complete(u)'
  <2> SUFFICES ASSUME Attached(u)', Reaches(u)
               PROVE  Whole(tab[u].got, down'[u], sessions'[clients'[u]].history, joinedAt'[u].length, u)
    BY DEF Complete, Reaches
  <2>1. CASE u = t
    <3>1. tab[t].got = <<>> /\ Ops(down[t]) = {}
      BY <1>2 DEF GetsInv, StartsEmpty, NotYet
    <3>2. Len(tab[t].got) = 0 /\ Ops(down'[t]) = {}
      BY <1>7, <3>1
    <3>3. \A p : ~(p \in (length + 1)..Len(joined.history))
      BY <1>10 DEF length
    <3>4. Whole(tab[t].got, down'[t], joined.history, length, t)
      BY <3>2, <3>3 DEF Whole
    <3> QED BY <1>8, <2>1, <3>4
  <2>2. CASE u # t
    <3>1. /\ Attached(u) /\ sessions'[clients'[u]].history = sessions[clients[u]].history
          /\ joinedAt'[u] = joinedAt[u]
      BY <1>8, <1>14, <2>2
    <3>2. Whole(tab[u].got, down[u], sessions[clients[u]].history, joinedAt[u].length, u)
      BY <3>1 DEF GetsInv, Complete
    <3> QED BY <1>7, <3>1, <3>2
  <2> QED BY <2>1, <2>2
<1> QED BY <1>11, <1>13, <1>15, <1>16 DEF GetsInv

LEMMA OperationGets ==
  ASSUME IInv, ShownInv, GetsInv, NEW t \in Tabs, up[t] # <<>>, HandleOperation(t),
         up' = [up EXCEPT ![t] = Tail(@)], UNCHANGED <<tab, link>>
  PROVE  GetsInv'
<1> DEFINE id == clients[t]
           op == Head(up[t]).op
           done == Transform(op, ConcurrentOps(sessions[id].history, op))
           text == ApplyOp(sessions[id].gcode, done)
           e == HistoryEntry(t, done)
           h == sessions[id].history
           m == Remote(t, done, Len(h) + 1)
           history == Append(h, e)
<1>1. /\ UNCHANGED <<clients, born, joinedAt>>
      /\ \/ UNCHANGED <<sessions, down>>
         \/ /\ id \in DOMAIN sessions
            /\ sessions' = [sessions EXCEPT ![id].gcode = text, ![id].history = history]
            /\ down' = Broadcast(down, Others(id, t), m)
  BY DEF HandleOperation
<1>2. /\ IsOperation(m) /\ m.at = Len(h) + 1 /\ m.op = e.op /\ m.by = e.by /\ e.by = t
  BY DEF IsOperation, Remote, HistoryEntry
<1> HIDE DEF op, done, text, e, m, history
<1>3. /\ tab[t].phase # "idle" /\ NoJoin(t)'
      /\ \A u \in Tabs \ {t} : up'[u] = up[u]
  BY TakeFacts
<1>4. /\ ~NotYet(t)'
      /\ \A u \in Tabs \ {t} : NotYet(u)' <=> NotYet(u)
  BY <1>3, ServerNotYet
<1>5. CASE UNCHANGED <<sessions, down>>
  <2>1. PlacesShaped' /\ JoinedBefore'
    BY <1>1, <1>5 DEF GetsInv, PlacesShaped, JoinedBefore, Attached
  <2>2. StartsEmpty'
    BY <1>4, <1>5 DEF GetsInv, StartsEmpty
  <2>3. \A u \in Tabs : Complete(u)'
    BY <1>1, <1>5 DEF GetsInv, Complete, Attached, Reaches
  <2> QED BY <2>1, <2>2, <2>3 DEF GetsInv
<1>6. CASE /\ id \in DOMAIN sessions
           /\ sessions' = [sessions EXCEPT ![id].gcode = text, ![id].history = history]
           /\ down' = Broadcast(down, Others(id, t), m)
  <2>1. /\ DOMAIN sessions \subseteq Ids /\ id # NoSession
        /\ ShownShaped /\ PlacesShaped
        /\ DOMAIN down = Tabs /\ \A u \in Tabs : down[u] \in Seq(Range(down[u]))
        /\ h \in Seq(Range(h)) /\ "history" \in DOMAIN sessions[id]
    BY <1>6, Assumption DEF IInv, Shaped, ShownInv, ShownShaped, GetsInv, PlacesShaped
  <2>2. /\ DOMAIN sessions' = DOMAIN sessions
        /\ sessions'[id].history = history /\ "history" \in DOMAIN sessions'[id]
        /\ \A i \in DOMAIN sessions \ {id} : sessions'[i] = sessions[i]
    BY <1>6, <2>1
  <2>3. /\ history \in Seq(Range(history))
        /\ Len(h) \in Nat /\ Len(history) = Len(h) + 1
    BY <2>1, AppendFacts DEF history
  <2>4. \A u \in Tabs :
          down'[u] = IF u \in Others(id, t) /\ Reaches(u) THEN Append(down[u], m) ELSE down[u]
    <3> DEFINE b == Broadcast(down, Others(id, t), m)
    <3>1. \A u \in Tabs :
            b[u] = IF u \in Others(id, t) /\ Reaches(u) THEN Append(down[u], m) ELSE down[u]
      BY DEF Broadcast
    <3> QED BY <1>6, <3>1
  <2> HIDE DEF id
  <2>5. ASSUME NEW u \in Tabs, u \notin Others(id, t)
        PROVE  down'[u] = down[u]
    BY <2>4, <2>5
\* Who is sent the operation has joined.
  <2>6. ASSUME NEW u \in Others(id, t)
        PROVE  u \in Tabs /\ u # t /\ clients[u] = id /\ ~NotYet(u)
    <3>1. u \in Tabs /\ u # t /\ clients[u] = id
      BY DEF Others
    <3>2. tab[u].phase # "idle" /\ NoJoin(u)
      BY <2>1, <3>1 DEF IInv, JoinsOnce, NoJoin
    <3> QED BY <3>1, <3>2 DEF NotYet
  <2>7. PlacesShaped'
    <3>1. ASSUME NEW u \in Tabs PROVE \A k \in Ops(down'[u]) : down'[u][k].at \in Nat
      <4>1. CASE down'[u] = down[u]
        BY <2>1, <4>1 DEF PlacesShaped
      <4>2. CASE down'[u] = Append(down[u], m)
        <5>1. /\ Ops(Append(down[u], m)) = Ops(down[u]) \cup {Len(down[u]) + 1}
              /\ \A k \in Ops(down[u]) : Append(down[u], m)[k] = down[u][k]
              /\ Append(down[u], m)[Len(down[u]) + 1] = m
          BY <1>2, <2>1, OpsAppend
        <5>2. m.at \in Nat
          BY <1>2, <2>3
        <5> DEFINE a == Append(down[u], m)
        <5>3. /\ Ops(a) = Ops(down[u]) \cup {Len(down[u]) + 1}
              /\ \A k \in Ops(down[u]) : a[k] = down[u][k]
              /\ a[Len(down[u]) + 1] = m
              /\ down'[u] = a
          BY <4>2, <5>1
        <5> HIDE DEF a
        <5> QED BY <2>1, <5>2, <5>3 DEF PlacesShaped
      <4> QED BY <2>4, <4>1, <4>2
    <3>2. \A i \in DOMAIN sessions' : /\ "history" \in DOMAIN sessions'[i]
                                      /\ sessions'[i].history \in Seq(Range(sessions'[i].history))
      BY <2>1, <2>2, <2>3 DEF PlacesShaped
    <3> QED BY <1>1, <2>1, <3>1, <3>2 DEF PlacesShaped
  <2>8. StartsEmpty'
    BY <1>4, <2>5, <2>6 DEF GetsInv, StartsEmpty
  <2>9. JoinedBefore'
    <3> SUFFICES ASSUME NEW u \in Tabs
                 PROVE  /\ clients[u] # NoSession => joinedAt[u].birth <= born[clients[u]]
                        /\ Attached(u) => joinedAt[u].length <= Len(sessions'[clients[u]].history)
      BY <1>1, <2>2 DEF JoinedBefore, Attached
    <3>1. /\ clients[u] # NoSession => joinedAt[u].birth <= born[clients[u]]
          /\ Attached(u) => joinedAt[u].length <= Len(sessions[clients[u]].history)
      BY DEF GetsInv, JoinedBefore
    <3>2. CASE clients[u] = id
      <4>1. joinedAt[u].length \in Nat
        BY <2>1 DEF PlacesShaped
      <4> QED BY <2>2, <2>3, <3>1, <3>2, <4>1
    <3>3. CASE clients[u] # id
      BY <2>2, <3>1, <3>3 DEF Attached
    <3> QED BY <3>2, <3>3
  <2>10. ASSUME NEW u \in Tabs PROVE Complete(u)'
    <3> SUFFICES ASSUME Attached(u), Reaches(u)
                 PROVE  Whole(tab[u].got, down'[u], sessions'[clients[u]].history, joinedAt[u].length, u)
      BY <1>1, <2>2 DEF Complete, Reaches, Attached
    <3>1. Whole(tab[u].got, down[u], sessions[clients[u]].history, joinedAt[u].length, u)
      BY DEF GetsInv, Complete
    <3>2. CASE clients[u] # id
      <4>1. down'[u] = down[u]
        BY <2>5, <2>6, <3>2
      <4>2. sessions'[clients[u]] = sessions[clients[u]]
        BY <2>2, <3>2 DEF Attached
      <4> QED BY <3>1, <4>1, <4>2
    <3>3. CASE clients[u] = id /\ u = t
      <4>1. down'[u] = down[u]
        BY <2>5, <2>6, <3>3
      <4>2. Whole(tab[u].got, down[u], history, joinedAt[u].length, u)
        BY <1>2, <2>1, <3>1, <3>3, WholeOwn DEF PlacesShaped, history
      <4> QED BY <2>2, <3>3, <4>1, <4>2
    <3>4. CASE clients[u] = id /\ u # t
      <4>1. down'[u] = Append(down[u], m)
        BY <2>4, <3>4 DEF Others
      <4>2. joinedAt[u].length \in Nat /\ joinedAt[u].length <= Len(h) /\ down[u] \in Seq(Range(down[u]))
        BY <2>1, <3>4 DEF GetsInv, JoinedBefore, PlacesShaped
      <4>3. Whole(tab[u].got, Append(down[u], m), history, joinedAt[u].length, u)
        BY <1>2, <2>1, <3>1, <3>4, <4>2, WholeOperation DEF history
      <4> QED BY <2>2, <3>4, <4>1, <4>3
    <3> QED BY <3>2, <3>3, <3>4
  <2> QED BY <2>7, <2>8, <2>9, <2>10 DEF GetsInv
<1> QED BY <1>1, <1>5, <1>6

LEMMA LeavingGets ==
  ASSUME IInv, ShownInv, GetsInv, NEW t \in Tabs, HandleDisconnect(t), UNCHANGED <<tab, link>>,
         \A u \in Tabs \ {t} : up'[u] = up[u], NoJoin(t)', tab[t].phase # "idle"
  PROVE  GetsInv'
<1> DEFINE id == clients[t]
           left == sessions[id].members \ {UserOf[t]}
           m == [type |-> "user-left", user |-> UserOf[t]]
<1>1. /\ UNCHANGED <<born, joinedAt>>
      /\ clients' = [clients EXCEPT ![t] = NoSession]
      /\ \/ UNCHANGED <<sessions, down>>
         \/ /\ \/ sessions' = Restrict(sessions, DOMAIN sessions \ {id})
               \/ sessions' = [sessions EXCEPT ![id].members = left]
            /\ down' = Broadcast(down, Others(id, t), m)
  BY DEF HandleDisconnect
<1>2. ~IsOperation(m)
  BY DEF IsOperation
<1> HIDE DEF left, m
<1>3. /\ DOMAIN sessions \subseteq Ids /\ NoSession \notin Ids
      /\ clients \in [Tabs -> Ids \cup {NoSession}]
      /\ ShownShaped /\ PlacesShaped
      /\ DOMAIN down = Tabs /\ \A u \in Tabs : down[u] \in Seq(Range(down[u]))
  BY Assumption DEF IInv, Shaped, ShownInv, ShownShaped, GetsInv
<1>4. /\ clients'[t] = NoSession
      /\ \A u \in Tabs \ {t} : clients'[u] = clients[u]
  BY <1>1, <1>3
\* What is left of the sessions has its history.
<1>5. /\ DOMAIN sessions' \subseteq DOMAIN sessions
      /\ \A i \in DOMAIN sessions' : /\ "history" \in DOMAIN sessions'[i]
                                     /\ sessions'[i].history = sessions[i].history
  <2>1. \A i \in DOMAIN sessions : "history" \in DOMAIN sessions[i]
    BY <1>3 DEF PlacesShaped
  <2>2. CASE UNCHANGED sessions
    BY <2>1, <2>2
  <2>3. CASE sessions' = Restrict(sessions, DOMAIN sessions \ {id})
    <3>1. sessions' = [i \in DOMAIN sessions \ {id} |-> sessions[i]]
      BY <2>3 DEF Restrict
    <3> QED BY <2>1, <3>1
  <2>4. CASE sessions' = [sessions EXCEPT ![id].members = left]
    BY <2>1, <2>4
  <2> QED BY <1>1, <2>2, <2>3, <2>4
<1>6. \A u \in Tabs : NewsOnly(u)
  <2>1. CASE UNCHANGED down
    BY <2>1 DEF NewsOnly
  <2>2. CASE down' = Broadcast(down, Others(id, t), m)
    <3> DEFINE b == Broadcast(down, Others(id, t), m)
    <3>1. \A u \in Tabs :
            b[u] = IF u \in Others(id, t) /\ Reaches(u) THEN Append(down[u], m) ELSE down[u]
      BY DEF Broadcast
    <3>2. down' = b
      BY <2>2
    <3> HIDE DEF b
    <3> QED BY <1>2, <3>1, <3>2 DEF NewsOnly
  <2> QED BY <1>1, <2>1, <2>2
<1>7. \A u \in Tabs : /\ Ops(down'[u]) = Ops(down[u])
                      /\ \A k \in Ops(down[u]) : down'[u][k] = down[u][k]
                      /\ \A got, h, from : Whole(got, down[u], h, from, u)
                                             => Whole(got, down'[u], h, from, u)
  BY <1>6, NewsFacts
<1> HIDE DEF id
<1>8. PlacesShaped'
  <2>1. \A u \in Tabs : \A k \in Ops(down'[u]) : down'[u][k].at \in Nat
    BY <1>3, <1>7 DEF PlacesShaped
  <2>2. \A i \in DOMAIN sessions' : /\ "history" \in DOMAIN sessions'[i]
                                    /\ sessions'[i].history \in Seq(Range(sessions'[i].history))
    BY <1>3, <1>5 DEF PlacesShaped
  <2> QED BY <1>1, <1>3, <2>1, <2>2 DEF PlacesShaped
<1>9. StartsEmpty'
  <2>1. /\ ~NotYet(t)'
        /\ \A u \in Tabs \ {t} : NotYet(u)' <=> NotYet(u)
    BY ServerNotYet
  <2> QED BY <1>7, <2>1 DEF GetsInv, StartsEmpty
<1>10. ASSUME NEW u \in Tabs, Attached(u)'
       PROVE  /\ Attached(u) /\ clients'[u] = clients[u]
              /\ sessions'[clients'[u]].history = sessions[clients[u]].history
  <2>1. clients'[u] \in DOMAIN sessions' /\ born[clients'[u]] = joinedAt[u].birth
    BY <1>1, <1>10 DEF Attached
  <2>2. u # t /\ clients'[u] = clients[u]
    BY <1>3, <1>4, <1>5, <2>1
  <2> QED BY <1>5, <2>1, <2>2 DEF Attached
<1>11. JoinedBefore'
  BY <1>1, <1>4, <1>10 DEF GetsInv, JoinedBefore
<1>12. ASSUME NEW u \in Tabs PROVE Complete(u)'
  <2> SUFFICES ASSUME Attached(u)', Reaches(u)
               PROVE  Whole(tab[u].got, down'[u], sessions'[clients'[u]].history, joinedAt[u].length, u)
    BY <1>1 DEF Complete, Reaches
  <2>1. Attached(u) /\ sessions'[clients'[u]].history = sessions[clients[u]].history
    BY <1>10
  <2>2. Whole(tab[u].got, down[u], sessions[clients[u]].history, joinedAt[u].length, u)
    BY <2>1 DEF GetsInv, Complete
  <2> QED BY <1>7, <2>1, <2>2
<1> QED BY <1>8, <1>9, <1>11, <1>12 DEF GetsInv

LEMMA GetsInitially == Init => GetsInv
<1> SUFFICES ASSUME Init PROVE GetsInv
  OBVIOUS
<1>1. \A t \in Tabs : /\ down[t] = <<>> /\ clients[t] = NoSession
                      /\ "got" \in DOMAIN tab[t] /\ tab[t].got = <<>>
                      /\ joinedAt[t].birth = 0 /\ joinedAt[t].length = 0
  BY DEF Init, NewTab
<1>2. DOMAIN sessions = {}
  BY DEF Init
<1>3. PlacesShaped
  <2>1. <<>> \in Seq(Nat) /\ 0 \in Nat
    OBVIOUS
  <2>2. \A t \in Tabs : Ops(down[t]) = {}
    BY <1>1, NoOps
  <2> QED BY <1>1, <1>2, <2>1, <2>2 DEF PlacesShaped
<1>4. StartsEmpty
  BY <1>1, NoOps DEF StartsEmpty
<1>5. \A t \in Tabs : ~Attached(t)
  BY <1>2 DEF Attached
<1> QED BY <1>1, <1>3, <1>4, <1>5 DEF GetsInv, JoinedBefore, Complete

LEMMA StepsGet == IInv /\ ShownInv /\ GetsInv /\ [Next]_vars => GetsInv'
<1> SUFFICES ASSUME IInv, ShownInv, GetsInv, [Next]_vars PROVE GetsInv'
  OBVIOUS
<1>1. CASE UNCHANGED vars
  <2>1. UNCHANGED <<sessions, clients, born, up, down, link, tab, joinedAt>>
    BY <1>1 DEF vars
  <2>2. PlacesShaped' /\ JoinedBefore'
    BY <2>1 DEF GetsInv, PlacesShaped, JoinedBefore, Attached
  <2>3. StartsEmpty'
    BY <2>1 DEF GetsInv, StartsEmpty, NotYet, NoJoin
  <2>4. \A t \in Tabs : Complete(t)'
    BY <2>1 DEF GetsInv, Complete, Attached, Reaches
  <2> QED BY <2>2, <2>3, <2>4 DEF GetsInv
<1>2. CASE Next
  <2> PICK t \in Tabs : \/ \E id \in Ids : Connect(t, id)
                        \/ \E new \in Keystrokes(tab[t].text) : Edit(t, new)
                        \/ Receive(t) \/ Disconnect(t) \/ NoticeClose(t) \/ Cut(t)
                        \/ HandleMessage(t) \/ ServerClose(t)
    BY <1>2 DEF Next
  <2>1. CASE \/ \E id \in Ids : Connect(t, id)
             \/ \E new \in Keystrokes(tab[t].text) : Edit(t, new)
             \/ Receive(t) \/ Disconnect(t) \/ NoticeClose(t) \/ Cut(t)
    BY <2>1, TabStepsGet
  <2>2. CASE HandleMessage(t)
    <3>1. /\ up[t] # <<>> /\ up' = [up EXCEPT ![t] = Tail(@)] /\ UNCHANGED <<tab, link>>
          /\ HandleJoin(t) \/ HandleOperation(t) \/ HandleLeave(t)
      BY <2>2 DEF HandleMessage
    <3>2. CASE HandleLeave(t)
      <4>1. /\ \A u \in Tabs \ {t} : up'[u] = up[u]
            /\ NoJoin(t)' /\ tab[t].phase # "idle"
        BY <3>1, TakeFacts
      <4> QED BY <3>1, <3>2, <4>1, LeavingGets DEF HandleLeave
    <3> QED BY <3>1, <3>2, JoinGets, OperationGets
  <2>3. CASE ServerClose(t)
    <3>1. up[t] = <<>> /\ clients[t] # NoSession /\ HandleDisconnect(t) /\ UNCHANGED <<up, link, tab>>
      BY <2>3 DEF ServerClose
    <3>2. tab[t].phase # "idle"
      BY <3>1 DEF IInv, JoinsOnce
    <3>3. NoJoin(t)'
      BY <3>1 DEF NoJoin
    <3> QED BY <3>1, <3>2, <3>3, LeavingGets
  <2> QED BY <2>1, <2>2, <2>3
<1> QED BY <1>1, <1>2

\* What a connected tab has received, with what is under way to it, is every
\* operation of the others since it joined, once, in the order of the history.
THEOREM GetsEachOperationOnce == Spec => []NothingMissedNorTwice
<1>1. Init => IInv /\ ShownInv /\ GetsInv
  BY Initially, ShownInitially, GetsInitially
<1>2. IInv /\ ShownInv /\ GetsInv /\ [Next]_vars => IInv' /\ ShownInv' /\ GetsInv'
  BY StepsKeep, StepsShow, StepsGet
<1>3. GetsInv => NothingMissedNorTwice
  BY GetsInvImplies
<1> QED BY <1>1, <1>2, <1>3, PTL DEF Spec
=============================================================================
