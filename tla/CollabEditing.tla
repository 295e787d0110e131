--------------------------- MODULE CollabEditing ---------------------------
(***************************************************************************)
(* Collaborative G-code editing: the server of                             *)
(* modules/backend/websocket-server.mjs, the client library of             *)
(* modules/presentation/collaborative-client.mjs and the page that drives  *)
(* it, Simulator/web/front.html.                                           *)
(*                                                                         *)
(* A tab is one client with one socket; two tabs may carry the same user   *)
(* id (it is an option of the client).  A socket is two FIFO channels that *)
(* may be cut: what is still in flight is lost from some point on, and     *)
(* each end notices the close in its own time.  Cursor moves and chat      *)
(* lines, which are only passed on, are left out, and so is the fate of a  *)
(* tab's text after it has disconnected.                                   *)
(***************************************************************************)
EXTENDS Integers, Sequences, SequencesExt, FiniteSets, Functions

CONSTANTS Tabs,        \* the clients, each connecting at most once
          Users,       \* a user id is the set of the tabs it was given to
          Ids,         \* session ids
          Chars,       \* the characters typed
          Prefilled,   \* the tabs whose page shows a program before it connects
          Now,         \* Date.now(): milliseconds, all of one size to this code
          Writing,     \* bound: the tabs that edit
          MaxEdits,    \* bound: local edits of each of them
          Breakable,   \* bound: the tabs whose connection may break
          NoSession    \* not an id

ASSUME Assumption ==
  /\ NoSession \notin Ids
  /\ \A t \in Tabs : \E u \in Users : t \in u
  /\ Chars # {} /\ Prefilled \subseteq Tabs
  /\ MaxEdits \in Nat /\ Now \in Nat /\ Now > MaxEdits

UserOf == [t \in Tabs |-> CHOOSE u \in Users : t \in u]
StartText == [t \in Tabs |-> IF t \in Prefilled THEN <<CHOOSE c \in Chars : TRUE>> ELSE <<>>]
EditsOf == [t \in Tabs |-> IF t \in Writing THEN MaxEdits ELSE 0]

VARIABLES sessions,  \* server: id -> session, of the ids that have one
          clients,   \* server: socket -> id of the session it joined
          born,      \* server: how often each id's session was created
          up, down,  \* the two channels of each socket
          link,      \* "up" or "cut"
          tab,       \* the client and its page
          joinedAt   \* history: which creation of the session, and how far
                     \* its operations had got, when the tab joined

vars == <<sessions, clients, born, up, down, link, tab, joinedAt>>
server == <<sessions, clients, born, joinedAt>>

----------------------------------------------------------------------------
(* Texts and operations.  An operation is an insert (text) or a delete      *)
(* (length) at a position counted from 0.                                   *)

Least(x, y) == IF x <= y THEN x ELSE y
Most(x, y) == IF x >= y THEN x ELSE y

Insert(p, s) == [type |-> "insert", position |-> p, text |-> s, length |-> 0]
Delete(p, n) == [type |-> "delete", position |-> p, text |-> <<>>, length |-> n]

\* String.substring clamps its arguments to the length of the string.
Before(s, p) == SubSeq(s, 1, Least(p, Len(s)))
After(s, p) == SubSeq(s, Least(p, Len(s)) + 1, Len(s))

ApplyOp(s, op) == Before(s, op.position) \o op.text \o After(s, op.position + op.length)

\* transformPair, the same on both sides.
TransformPair(op1, op2) ==
  CASE op2.type = "insert" /\ op2.position <= op1.position ->
         [op1 EXCEPT !.position = @ + Len(op2.text)]
    [] op2.type = "delete" /\ op2.position < op1.position ->
         [op1 EXCEPT !.position = Most(op2.position, @ - op2.length)]
    [] OTHER -> op1

Transform(op, ops) == FoldLeft(TransformPair, op, ops)

\* The filter compares the time of an operation with a count of operations.
ConcurrentOps(history, op) ==
  LET concurrent == SelectSeq(history, LAMBDA h : h.timestamp > op.baseVersion)
  IN [k \in DOMAIN concurrent |-> concurrent[k].op]

\* findFirstDiff and calculateOperation of the page.
FirstDiff(s, t) ==
  LET n == Least(Len(s), Len(t))
      D == {i \in 1..n : s[i] # t[i]}
  IN IF D = {} THEN n ELSE (CHOOSE i \in D : \A j \in D : i <= j) - 1

\* Mutant: the length of a deletion has the wrong sign.
CalculateOperationSigned(old, new) ==
  LET p == FirstDiff(old, new)
      n == Len(new) - Len(old)
  IN CASE n > 0 -> <<Insert(p, SubSeq(new, p + 1, p + n))>>
       [] n < 0 -> <<Delete(p, n)>>
       [] OTHER -> <<>>

CalculateOperation(old, new) ==
  LET p == FirstDiff(old, new)
      n == Len(new) - Len(old)
  IN CASE n > 0 -> <<Insert(p, SubSeq(new, p + 1, p + n))>>
       [] n < 0 -> <<Delete(p, -n)>>
       [] OTHER -> <<>>

----------------------------------------------------------------------------
NewSession == [members |-> {}, gcode |-> <<>>, history |-> <<>>]
NewTab(t) ==
  [phase |-> "idle", id |-> NoSession, text |-> StartText[t], lastValue |-> StartText[t],
   queue |-> <<>>, users |-> {}, got |-> <<>>]

Init ==
  /\ sessions = [i \in {} |-> NewSession]
  /\ clients = [t \in Tabs |-> NoSession]
  /\ born = [i \in Ids |-> 0]
  /\ up = [t \in Tabs |-> <<>>]
  /\ down = [t \in Tabs |-> <<>>]
  /\ link = [t \in Tabs |-> "up"]
  /\ tab = [t \in Tabs |-> NewTab(t)]
  /\ joinedAt = [t \in Tabs |-> [birth |-> 0, length |-> 0]]

\* What the client writes to its socket: gone if the connection is.
SendUp(t, m) == up' = [up EXCEPT ![t] = IF link[t] = "up" THEN Append(@, m) ELSE @]

\* What the server writes.  To is the set of sockets that get m.
Reaches(t) == link[t] = "up" /\ tab[t].phase \in {"open", "joined"}
Broadcast(channels, To, m) ==
  [t \in Tabs |-> IF t \in To /\ Reaches(t) THEN Append(channels[t], m) ELSE channels[t]]
Others(id, t) == {u \in Tabs : clients[u] = id} \ {t}

----------------------------------------------------------------------------
(* The client.                                                              *)

\* The socket opens and the client asks to join (a connection that fails or
\* times out before that leaves no trace at the server).
Connect(t, id) ==
  /\ tab[t].phase = "idle"
  /\ tab' = [tab EXCEPT ![t].phase = "open", ![t].id = id]
  /\ SendUp(t, [type |-> "join"])
  /\ UNCHANGED <<server, down, link>>

\* What the page and the client remember of an edit, and what the client sends.
Edited(c, new, ops) ==
  [c EXCEPT !.text = new, !.lastValue = new, !.queue = @ \o ops]
OperationMessage(op, version) ==
  [type |-> "operation", op |-> op @@ [baseVersion |-> version]]

\* The user types or deletes a character: the page's input listener works out
\* the operation from the text it saw at the LAST LOCAL edit, and the client
\* queues and sends it.
Edit(t, new) ==
  /\ tab[t].phase = "joined"
  /\ Len(tab[t].queue) < EditsOf[t]
  /\ LET ops == CalculateOperation(tab[t].lastValue, new)
         edited == Edited(tab[t], new, ops)
     IN /\ tab' = [tab EXCEPT ![t] = edited]
        /\ IF ops = <<>>
             THEN UNCHANGED up
             ELSE SendUp(t, OperationMessage(ops[1], Len(edited.queue)))
  /\ UNCHANGED <<server, down, link>>

\* The texts one keystroke away from s.
Keystrokes(s) ==
  {Before(s, p) \o <<c>> \o After(s, p) : p \in 0..Len(s), c \in Chars}
    \cup {Before(s, p) \o After(s, p + 1) : p \in 0..(Len(s) - 1)}

\* handleMessage of client c: it transforms an operation against every local
\* one (its queue is never cleared) and the page applies it without an input event.
Received(c, m) ==
  LET remote == Transform(m.op, c.queue)
  IN CASE m.type = "joined" ->
            [c EXCEPT !.phase = "joined", !.users = m.users,
                      !.text = IF m.gcode = <<>> THEN @ ELSE m.gcode]
       [] m.type = "user-joined" -> [c EXCEPT !.users = @ \cup {m.user}]
       [] m.type = "user-left" -> [c EXCEPT !.users = @ \ {m.user}]
       [] m.type = "operation" ->
            [c EXCEPT !.text = ApplyOp(@, remote),
                      !.got = Append(@, m.at)]
       [] OTHER -> c

Receive(t) ==
  /\ tab[t].phase \in {"open", "joined"}
  /\ down[t] # <<>>
  /\ tab' = [tab EXCEPT ![t] = Received(@, Head(down[t]))]
  /\ down' = [down EXCEPT ![t] = Tail(@)]
  /\ UNCHANGED <<server, up, link>>

\* disconnect(): a leave message, then the socket is closed.
Disconnect(t) ==
  /\ tab[t].phase \in {"open", "joined"}
  /\ tab' = [tab EXCEPT ![t].phase = "closed"]
  /\ SendUp(t, [type |-> "leave"])
  /\ down' = [down EXCEPT ![t] = <<>>]
  /\ UNCHANGED <<server, link>>

\* onclose after the connection broke.
NoticeClose(t) ==
  /\ tab[t].phase \in {"open", "joined"}
  /\ link[t] = "cut"
  /\ tab' = [tab EXCEPT ![t].phase = "closed"]
  /\ UNCHANGED <<server, up, down, link>>

\* The network: a prefix of what the tab sent still arrives.  What the tab
\* still receives is dropped here: it can send nothing more, so no other part
\* of the state depends on it.
Cut(t) ==
  /\ tab[t].phase \in {"open", "joined"}
  /\ link[t] = "up" /\ t \in Breakable
  /\ link' = [link EXCEPT ![t] = "cut"]
  /\ \E i \in 0..Len(up[t]) : up' = [up EXCEPT ![t] = SubSeq(@, 1, i)]
  /\ down' = [down EXCEPT ![t] = <<>>]
  /\ UNCHANGED <<server, tab>>

----------------------------------------------------------------------------
(* The server: each handler runs to its end before the next one starts.     *)

\* Map.set: the entry is made or replaced.
MapSet(map, key, value) ==
  [k \in DOMAIN map \cup {key} |-> IF k = key THEN value ELSE map[k]]

\* Mutant: the state sent is taken before the user is added.
HandleJoinStateFirst(t) ==
  LET id == tab[t].id
      user == UserOf[t]
      fresh == id \notin DOMAIN sessions
      session == IF fresh THEN NewSession ELSE sessions[id]
      state == [type |-> "joined", gcode |-> session.gcode, users |-> session.members]
  IN /\ Head(up[t]).type = "join"
     /\ sessions' = MapSet(sessions, id, [session EXCEPT !.members = @ \cup {user}])
     /\ born' = IF fresh THEN [born EXCEPT ![id] = @ + 1] ELSE born
     /\ clients' = [clients EXCEPT ![t] = id]
     /\ joinedAt' = [joinedAt EXCEPT ![t] =
                       [birth |-> born'[id], length |-> Len(session.history)]]
     /\ down' = Broadcast(Broadcast(down, {t}, state),
                          Others(id, t), [type |-> "user-joined", user |-> user])

HandleJoin(t) ==
  LET id == tab[t].id
      user == UserOf[t]
      fresh == id \notin DOMAIN sessions
      session == IF fresh THEN NewSession ELSE sessions[id]
      joined == [session EXCEPT !.members = @ \cup {user}]
      state == [type |-> "joined", gcode |-> joined.gcode, users |-> joined.members]
  IN /\ Head(up[t]).type = "join"
     /\ sessions' = MapSet(sessions, id, joined)
     /\ born' = IF fresh THEN [born EXCEPT ![id] = @ + 1] ELSE born
     /\ clients' = [clients EXCEPT ![t] = id]
     /\ joinedAt' = [joinedAt EXCEPT ![t] =
                       [birth |-> born'[id], length |-> Len(joined.history)]]
     /\ down' = Broadcast(Broadcast(down, {t}, state),
                          Others(id, t), [type |-> "user-joined", user |-> user])

\* What is kept of an operation of tab t, and what the others are sent; "at", its
\* place in the history, is there for the properties.
HistoryEntry(t, op) == [op |-> op, by |-> t, timestamp |-> Now]
Remote(t, op, place) == [type |-> "operation", op |-> op, by |-> t, at |-> place]

\* Mutant: the sender gets its own operation back.
HandleOperationToAll(t) ==
  LET id == clients[t]
      op == Head(up[t]).op
      done == Transform(op, ConcurrentOps(sessions[id].history, op))
      place == Len(sessions[id].history) + 1
  IN /\ Head(up[t]).type = "operation"
     /\ IF id \notin DOMAIN sessions
          THEN UNCHANGED <<sessions, down>>
          ELSE /\ sessions' = [sessions EXCEPT
                    ![id].gcode = ApplyOp(@, done),
                    ![id].history = Append(@, HistoryEntry(t, done))]
               /\ down' = Broadcast(down, {u \in Tabs : clients[u] = id}, Remote(t, done, place))
     /\ UNCHANGED <<clients, born, joinedAt>>

\* Mutant: operations behind the history are refused.
HandleOperationVersioned(t) ==
  LET id == clients[t]
      op == Head(up[t]).op
      done == Transform(op, ConcurrentOps(sessions[id].history, op))
      place == Len(sessions[id].history) + 1
  IN /\ Head(up[t]).type = "operation"
     /\ IF id \notin DOMAIN sessions \/ op.baseVersion <= Len(sessions[id].history)
          THEN UNCHANGED <<sessions, down>>
          ELSE /\ sessions' = [sessions EXCEPT
                    ![id].gcode = ApplyOp(@, done),
                    ![id].history = Append(@, HistoryEntry(t, done))]
               /\ down' = Broadcast(down, Others(id, t), Remote(t, done, place))
     /\ UNCHANGED <<clients, born, joinedAt>>

HandleOperation(t) ==
  LET id == clients[t]
      op == Head(up[t]).op
      done == Transform(op, ConcurrentOps(sessions[id].history, op))
      place == Len(sessions[id].history) + 1
  IN /\ Head(up[t]).type = "operation"
     /\ IF id \notin DOMAIN sessions
          THEN UNCHANGED <<sessions, down>>
          ELSE /\ sessions' = [sessions EXCEPT
                    ![id].gcode = ApplyOp(@, done),
                    ![id].history = Append(@, HistoryEntry(t, done))]
               /\ down' = Broadcast(down, Others(id, t), Remote(t, done, place))
     /\ UNCHANGED <<clients, born, joinedAt>>

\* Mutant: the session is closed with one user left in it.
HandleDisconnectEarly(t) ==
  LET id == clients[t]
      left == sessions[id].members \ {UserOf[t]}
  IN /\ IF id \notin DOMAIN sessions
          THEN UNCHANGED <<sessions, down>>
          ELSE /\ sessions' = IF Cardinality(left) <= 1
                                THEN Restrict(sessions, DOMAIN sessions \ {id})
                                ELSE [sessions EXCEPT ![id].members = left]
               /\ down' = Broadcast(down, Others(id, t),
                                    [type |-> "user-left", user |-> UserOf[t]])
     /\ clients' = [clients EXCEPT ![t] = NoSession]
     /\ UNCHANGED <<born, joinedAt>>

HandleDisconnect(t) ==
  LET id == clients[t]
      left == sessions[id].members \ {UserOf[t]}
  IN /\ IF id \notin DOMAIN sessions
          THEN UNCHANGED <<sessions, down>>
          ELSE /\ sessions' = IF left = {}
                                THEN Restrict(sessions, DOMAIN sessions \ {id})
                                ELSE [sessions EXCEPT ![id].members = left]
               /\ down' = Broadcast(down, Others(id, t),
                                    [type |-> "user-left", user |-> UserOf[t]])
     /\ clients' = [clients EXCEPT ![t] = NoSession]
     /\ UNCHANGED <<born, joinedAt>>

\* Mutant: leave forgets the socket and not the user.
HandleLeaveSocketOnly(t) ==
  /\ Head(up[t]).type = "leave"
  /\ clients' = [clients EXCEPT ![t] = NoSession]
  /\ UNCHANGED <<sessions, down, born, joinedAt>>

HandleLeave(t) == Head(up[t]).type = "leave" /\ HandleDisconnect(t)

\* One message of a socket, or its close once all that came before is handled.
HandleMessage(t) ==
  /\ up[t] # <<>>
  /\ HandleJoin(t) \/ HandleOperation(t) \/ HandleLeave(t)
  /\ up' = [up EXCEPT ![t] = Tail(@)]
  /\ UNCHANGED <<link, tab>>

ServerClose(t) ==
  /\ up[t] = <<>> /\ clients[t] # NoSession
  /\ link[t] = "cut" \/ tab[t].phase = "closed"
  /\ HandleDisconnect(t)
  /\ UNCHANGED <<up, link, tab>>

----------------------------------------------------------------------------
Next ==
  \E t \in Tabs :
    \/ \E id \in Ids : Connect(t, id)
    \/ \E new \in Keystrokes(tab[t].text) : Edit(t, new)
    \/ Receive(t) \/ Disconnect(t) \/ NoticeClose(t) \/ Cut(t)
    \/ HandleMessage(t) \/ ServerClose(t)

Spec == Init /\ [][Next]_vars

\* Messages that arrive are handled and closed connections are noticed at both
\* ends (TCP and the event loops), though not each tab is promised its turn; users
\* owe nothing.
PagesServed == \E t \in Tabs : Receive(t) \/ NoticeClose(t)
ServerServed == \E t \in Tabs : HandleMessage(t) \/ ServerClose(t)
Fairness == WF_vars(PagesServed) /\ WF_vars(ServerServed)
FairSpec == Spec /\ Fairness

----------------------------------------------------------------------------
Op == [type : {"insert", "delete"}, position : Nat, text : Seq(Chars), length : Nat]

\* Every part of the state has its type; an operation never gets a negative
\* position on either side, however often it is transformed.
TypeOK ==
  /\ DOMAIN sessions \subseteq Ids
  /\ \A i \in DOMAIN sessions :
       /\ sessions[i].members \subseteq Users
       /\ sessions[i].gcode \in Seq(Chars)
       /\ \A k \in DOMAIN sessions[i].history : sessions[i].history[k].op.position \in Nat
  /\ clients \in [Tabs -> Ids \cup {NoSession}]
  /\ born \in [Ids -> Nat]
  /\ link \in [Tabs -> {"up", "cut"}]
  /\ \A t \in Tabs :
       /\ tab[t].phase \in {"idle", "open", "joined", "closed"}
       /\ tab[t].text \in Seq(Chars) /\ tab[t].queue \in Seq(Op)
       /\ tab[t].users \subseteq Users

\* A tab the server still counts in, whose session is the one it joined.
Attached(t) ==
  /\ clients[t] \in DOMAIN sessions
  /\ born[clients[t]] = joinedAt[t].birth

\* The places in its session's history of what tab t has to get: what the others
\* did since the state it was sent on joining.
Due(t) ==
  LET h == sessions[clients[t]].history
  IN {k \in (joinedAt[t].length + 1)..Len(h) : h[k].by # t}

IsOperation(m) == m.type = "operation"
InFlight(t) == {k \in DOMAIN down[t] : IsOperation(down[t][k])}

\* What a connected tab has received, with what is under way to it, is what it
\* has to get, each once and in the order of the server's history: nothing is
\* missed between the state and the first broadcast, nothing is its own, and an
\* operation under way is the one the server keeps at that place.
InOrder(t) ==
  LET got == tab[t].got IN
  /\ \A i, j \in DOMAIN got : i < j => got[i] < got[j]
  /\ \A i \in DOMAIN got, k \in InFlight(t) : got[i] < down[t][k].at
  /\ \A j, k \in InFlight(t) : j < k => down[t][j].at < down[t][k].at
AsKept(t) ==
  \A k \in InFlight(t) :
    LET m == down[t][k]
        kept == sessions[clients[t]].history[m.at]
    IN m.op = kept.op /\ m.by = kept.by
NothingMissedNorTwice ==
  \A t \in Tabs : (Attached(t) /\ Reaches(t)) =>
    /\ Due(t) = Range(tab[t].got) \cup {down[t][k].at : k \in InFlight(t)}
    /\ InOrder(t) /\ AsKept(t)

\* The last message about user w on its way to a tab says whether the tab will
\* show w; if there is none, the list it shows now does.
Concerns(m, w) ==
  m.type = "joined" \/ (m.type \in {"user-joined", "user-left"} /\ m.user = w)
Says(m, w) == m.type = "user-joined" \/ (m.type = "joined" /\ w \in m.users)
WillShow(channel, users, w) ==
  \/ \E k \in DOMAIN channel :
       /\ Concerns(channel[k], w) /\ Says(channel[k], w)
       /\ \A j \in DOMAIN channel : j > k => ~Concerns(channel[j], w)
  \/ w \in users /\ \A k \in DOMAIN channel : ~Concerns(channel[k], w)
Presence(t) == {w \in Users : WillShow(down[t], tab[t].users, w)}

\* The list of users a connected tab shows, once the messages under way to it
\* are in, is the list the server has, whatever joined, left, broke or was
\* recreated meanwhile, and no other session's users show up in it.
PresenceAgrees ==
  \A t \in Tabs : (clients[t] # NoSession /\ Reaches(t)) =>
    Presence(t) = IF clients[t] \in DOMAIN sessions
                  THEN sessions[clients[t]].members ELSE {}

\* The members of a session are users of sockets that are in it: no user is
\* left behind in a session, and no session outlives its users.
NobodyLeftBehind ==
  \A i \in DOMAIN sessions :
    /\ sessions[i].members # {}
    /\ \A u \in sessions[i].members : \E t \in Tabs : clients[t] = i /\ UserOf[t] = u

\* A session with its text goes away under a connected tab only through another
\* tab of the same user: handleDisconnect removes users, not sockets.
OnlyATwinOrphans ==
  \A t \in Tabs : (clients[t] # NoSession /\ ~Attached(t)) =>
    \E u \in Tabs \ {t} : UserOf[u] = UserOf[t] /\ clients[u] = NoSession /\ tab[u].phase # "idle"

\* An operation under way from a tab that stays connected, in a session that
\* stays, reaches each of the others that stay.
Awaited(t, u, k) ==
  /\ t # u /\ Reaches(t) /\ Reaches(u)
  /\ Attached(t) /\ Attached(u) /\ clients[t] = clients[u]
  /\ k \in DOMAIN tab[t].queue
  /\ LET h == sessions[clients[t]].history
         known == {i \in DOMAIN h : i <= joinedAt[u].length} \cup Range(tab[u].got)
     IN \A i \in known : ~(h[i].by = t /\ h[i].op.baseVersion = k)
EditsPropagate == []<>(\A t, u \in Tabs : \A k \in 1..EditsOf[t] : ~Awaited(t, u, k))

\* The promise of operational transformation: when nothing is in flight,
\* every connected tab shows the text of its session.
Converged ==
  (\A t \in Tabs : up[t] = <<>> /\ down[t] = <<>>) =>
    \A t \in Tabs : (Attached(t) /\ tab[t].phase = "joined" /\ link[t] = "up") =>
      tab[t].text = sessions[clients[t]].gcode
=============================================================================
