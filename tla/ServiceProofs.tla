--------------------------- MODULE ServiceProofs ---------------------------
(***************************************************************************)
(* The main invariants of five services, for every value of their          *)
(* constants: the session server, the gateway, the stores that sync with   *)
(* each other, the accounts and the loader.  They share no state, and no   *)
(* theorem speaks of two of them.                                          *)
(*                                                                         *)
(* Every part has the same form: the types and the facts that make the     *)
(* invariant inductive, a lemma for each action or for actions alike, and  *)
(* the theorem, which rests on the assumption of its module.               *)
(***************************************************************************)
EXTENDS SessionServer, ApiGateway, DataSync, Accounts, ProgressiveLoader,
        FiniteSetTheorems, TLAPS

----------------------------------------------------------------------------
(****************************************************************************)
(* The session server: a session is changed by whom it lets, and its members *)
(* hear of it.                                                              *)
(****************************************************************************)

(* The types, with every bound of the model left out but that on patches.  *)
SharedTyped ==
  /\ sessions \in [Sessions -> [mode : Modes \cup {None},
                                owner : Clients \cup {NoClient},
                                patches : 0..MaxPatches]]
  /\ sessionClients \in [Sessions -> SUBSET Sockets]
  /\ sessionOf \in [Sockets -> Sessions \cup {None}]
  /\ open \subseteq Sockets /\ strangers \subseteq Sessions
  /\ told \in [Sockets -> [Sessions -> 0..MaxPatches]]

(* A session that was made has one of the modes, and only such a one has   *)
(* members.                                                                *)
SharedMade ==
  \A s \in Sessions :
    /\ sessions[s] = NoSession \/ sessions[s].mode \in Modes
    /\ sessionClients[s] # {} => Exists(s)

SharedInv == SharedTyped /\ SharedMade /\ SessionsGuarded

LEMMA SharedInit ==
  ASSUME MaxPatches \in Nat, SessionsInit
  PROVE  SharedInv
BY DEF SessionsInit, SharedInv, SharedTyped, SharedMade, SessionsGuarded, NoSession,
       Modes, None, NoClient, Exists

(* The creator is the first member there is.                               *)
LEMMA SharedCreate ==
  ASSUME MaxPatches \in Nat, SharedInv, NEW k \in Sockets, NEW s \in Sessions,
         NEW client \in Clients \cup {NoClient}, NEW mode \in Modes,
         Create(k, s, client, mode)
  PROVE  SharedInv'
<1> USE DEF SharedInv, Create, AddClientToSession
<1> DEFINE made == [mode |-> mode, owner |-> client, patches |-> 0]
<1>1. made # NoSession /\ made.patches = 0 /\ made.mode = mode
  BY DEF Modes, NoSession, None
<1>2. sessions' = [sessions EXCEPT ![s] = made]
  OBVIOUS
<1>3. SharedTyped'
  BY DEF SharedTyped
<1>4. SharedMade'
  BY <1>1, <1>2 DEF SharedTyped, SharedMade, Exists
<1>5. \A j \in sessionClients'[s] : j = k
  BY DEF SharedTyped, SharedMade
<1>6. SessionsGuarded'
  BY <1>1, <1>2, <1>5 DEF SharedTyped, SessionsGuarded
<1> QED BY <1>3, <1>4, <1>6

(* A newcomer is counted from the state it finds.                          *)
LEMMA SharedJoin ==
  ASSUME MaxPatches \in Nat, SharedInv, NEW k \in Sockets, NEW s \in Sessions,
         NEW client \in Clients \cup {NoClient}, Join(k, s, client)
  PROVE  SharedInv'
<1> USE DEF SharedInv, Join, AddClientToSession
<1>1. SharedTyped'
  BY DEF SharedTyped
<1>2. SharedMade'
  BY DEF SharedTyped, SharedMade, Exists
<1>3. SessionsGuarded'
  BY DEF SharedTyped, SessionsGuarded
<1> QED BY <1>1, <1>2, <1>3

(* The members, and nobody else, have heard of as many patches as there    *)
(* are; and the one who made this one was allowed to.                      *)
LEMMA SharedUpdate ==
  ASSUME MaxPatches \in Nat, SharedInv, NEW k \in Sockets, NEW s \in Sessions,
         NEW client \in Clients \cup {NoClient}, Update(k, s, client)
  PROVE  SharedInv'
<1> USE DEF SharedInv, Update, HeardBy
<1>1. /\ sessions[s].mode \in Modes
      /\ sessions' = [sessions EXCEPT ![s] = [sessions[s] EXCEPT !.patches = @ + 1]]
      /\ sessions'[s].patches = sessions[s].patches + 1 /\ sessions'[s].mode = sessions[s].mode
  BY DEF SharedTyped, SharedMade, Exists
<1>2. \A j \in sessionClients[s] : told[j][s] = sessions[s].patches
  BY DEF SessionsGuarded
<1>3. told' \in [Sockets -> [Sessions -> 0..MaxPatches]]
  BY <1>2 DEF SharedTyped
<1>4. SharedTyped'
  <2> DEFINE next == [sessions[s] EXCEPT !.patches = @ + 1]
  <2>1. /\ sessions[s] \in [mode : Modes \cup {None},
                            owner : Clients \cup {NoClient}, patches : 0..MaxPatches]
        /\ sessions[s].patches + 1 \in 0..MaxPatches
    BY DEF SharedTyped
  <2>2. next \in [mode : Modes \cup {None},
                  owner : Clients \cup {NoClient}, patches : 0..MaxPatches]
    BY <2>1
  <2>3. sessions' = [sessions EXCEPT ![s] = next]
    BY <1>1
  <2> HIDE DEF next
  <2>4. sessions' \in [Sessions -> [mode : Modes \cup {None},
                                    owner : Clients \cup {NoClient}, patches : 0..MaxPatches]]
    BY <2>2, <2>3 DEF SharedTyped
  <2> QED BY <2>4, <1>3 DEF SharedTyped
<1>5. SharedMade'
  BY <1>1 DEF SharedTyped, SharedMade, Exists, NoSession, Modes, None
<1>6. strangers' = {}
  BY DEF SessionsGuarded, MayUpdate, Allowed
<1>7. ASSUME NEW t \in Sessions, NEW j \in sessionClients'[t]
      PROVE  told'[j][t] = sessions'[t].patches /\ (j \in open' \/ sessionOf'[j] # t)
  <2>1. CASE t = s
    BY <1>1, <1>2, <2>1 DEF SharedTyped, SessionsGuarded
  <2>2. CASE t # s
    BY <1>1, <2>2 DEF SharedTyped, SessionsGuarded
  <2> QED BY <2>1, <2>2
<1> QED BY <1>4, <1>5, <1>6, <1>7 DEF SessionsGuarded

LEMMA SharedSetPermissions ==
  ASSUME MaxPatches \in Nat, SharedInv, NEW k \in Sockets, NEW s \in Sessions,
         NEW client \in Clients \cup {NoClient}, NEW mode \in Modes,
         SetPermissions(k, s, client, mode)
  PROVE  SharedInv'
<1> USE DEF SharedInv, SetPermissions
<1>1. /\ sessions'[s].mode = mode /\ sessions'[s].patches = sessions[s].patches
      /\ sessions'[s] # NoSession
  BY DEF SharedTyped, NoSession, Modes, None
<1>2. SharedTyped'
  BY DEF SharedTyped
<1>3. SharedMade'
  BY <1>1 DEF SharedTyped, SharedMade, Exists
<1>4. SessionsGuarded'
  BY <1>1 DEF SharedTyped, SessionsGuarded
<1> QED BY <1>2, <1>3, <1>4

(* A socket that closes leaves the session it joined last.                 *)
LEMMA SharedClose ==
  ASSUME MaxPatches \in Nat, SharedInv, NEW k \in Sockets, Close(k)
  PROVE  SharedInv'
<1> USE DEF SharedInv, Close
<1>1. \A s \in Sessions : /\ sessionClients'[s] \subseteq sessionClients[s]
                          /\ s = sessionOf[k] => k \notin sessionClients'[s]
  OBVIOUS
<1>2. SharedTyped'
  BY DEF SharedTyped
<1>3. SharedMade'
  BY <1>1 DEF SharedTyped, SharedMade, Exists
<1>4. SessionsGuarded'
  BY <1>1 DEF SharedTyped, SessionsGuarded
<1> QED BY <1>2, <1>3, <1>4

LEMMA SharedStep ==
  ASSUME MaxPatches \in Nat, SharedInv, [SessionsNext]_sessionsVars
  PROVE  SharedInv'
<1>1. CASE UNCHANGED sessionsVars
  BY <1>1 DEF sessionsVars, SharedInv, SharedTyped, SharedMade, SessionsGuarded, Exists
<1>2. CASE SessionsNext
  BY <1>2, SharedCreate, SharedJoin, SharedUpdate, SharedSetPermissions, SharedClose DEF SessionsNext
<1> QED BY <1>1, <1>2

(* SessionsGuarded and the types, for any sessions, sockets and clients.   *)
THEOREM SessionsAreGuarded == SessionsSpec => [](SessionsTyped /\ SessionsGuarded)
<1>1. SessionsInit => SharedInv
  BY SharedInit, SessionsAssumption
<1>2. SharedInv /\ [SessionsNext]_sessionsVars => SharedInv'
  BY SharedStep, SessionsAssumption
<1>3. SharedInv => SessionsTyped /\ SessionsGuarded
  BY DEF SharedInv, SharedTyped, SessionsTyped
<1> QED BY <1>1, <1>2, <1>3, PTL DEF SessionsSpec

----------------------------------------------------------------------------
(****************************************************************************)
(* The gateway: requests within two windows' limits, no answer later than it *)
(* was told to come back, counters that agree.  The times a client's      *)
(* requests passed at are a sequence that grows at its end, so that what is *)
(* counted between two times follows from sets of its indices.              *)
(****************************************************************************)

(* The requests admitted from a time on, and those between two times.      *)
From(times, lo) == {i \in DOMAIN times : times[i] >= lo}
Between(times, lo, hi) == {i \in DOMAIN times : times[i] \in lo..hi}

(* What holds of a client's limiter, of the times its requests passed it   *)
(* and of when it was told to come back.  No request passes after the    *)
(* window it is counted in; those of the present window are within the     *)
(* limit, and so are those that came in the length of a window before it.  *)
Passed(times, time) == \A i \in DOMAIN times : times[i] <= time

Windowed(l, times, back, time) ==
  /\ l.count >= 1 /\ l.window \in 0..time
  /\ \A i \in DOMAIN times : times[i] <= l.window + Window
  /\ Cardinality(From(times, l.window)) <= l.count
  /\ Cardinality(From(times, l.window)) <= limit
  /\ Cardinality(Between(times, l.window - Window, l.window - 1)) <= limit
  /\ l.count > limit => back >= l.window + Window

Doubled(times) == \A from \in Int : Cardinality(Between(times, from, from + Window)) <= 2 * limit

LimiterSound(l, times, back, time) ==
  /\ Passed(times, time)
  /\ (l = NoLimiter /\ times = <<>>) \/ Windowed(l, times, back, time)
  /\ Doubled(times)

(* Sets of indices are finite.                                             *)
LEMMA Indices ==
  ASSUME NEW times \in Seq(Nat), NEW S \in SUBSET DOMAIN times
  PROVE  IsFiniteSet(S) /\ Cardinality(S) \in Nat
<1>1. DOMAIN times = 1..Len(times) /\ Len(times) \in Nat
  OBVIOUS
<1>2. IsFiniteSet(DOMAIN times)
  BY <1>1, FS_Interval
<1> QED BY <1>2, FS_Subset, FS_CardinalityType

LEMMA Smaller ==
  ASSUME NEW times \in Seq(Nat), NEW S \in SUBSET DOMAIN times, NEW T \in SUBSET S
  PROVE  Cardinality(T) <= Cardinality(S) /\ Cardinality(T) \in Nat /\ Cardinality(S) \in Nat
BY Indices, FS_Subset

LEMMA Both ==
  ASSUME NEW times \in Seq(Nat), NEW S \in SUBSET DOMAIN times, NEW T \in SUBSET DOMAIN times,
         NEW U \in SUBSET (S \cup T)
  PROVE  Cardinality(U) <= Cardinality(S) + Cardinality(T)
<1>1. IsFiniteSet(S) /\ IsFiniteSet(T) /\ IsFiniteSet(S \cup T)
  BY Indices
<1>2. Cardinality(S \cup T) = Cardinality(S) + Cardinality(T) - Cardinality(S \cap T)
  BY <1>1, FS_Union
<1>3. /\ Cardinality(S) \in Nat /\ Cardinality(T) \in Nat /\ Cardinality(S \cap T) \in Nat
      /\ Cardinality(S \cup T) \in Nat /\ Cardinality(U) \in Nat
  <2>1. S \cap T \in SUBSET DOMAIN times /\ S \cup T \in SUBSET DOMAIN times /\ U \in SUBSET DOMAIN times
    OBVIOUS
  <2> QED BY <2>1, Indices
<1>4. Cardinality(U) <= Cardinality(S \cup T)
  BY Smaller
<1> QED BY <1>2, <1>3, <1>4

(* A request that passes now has the last index.                         *)
LEMMA Appended ==
  ASSUME NEW times \in Seq(Nat), NEW time \in Nat
  PROVE  /\ Append(times, time) \in Seq(Nat)
         /\ DOMAIN Append(times, time) = DOMAIN times \cup {Len(times) + 1}
         /\ Len(times) + 1 \notin DOMAIN times
         /\ \A i \in DOMAIN times : Append(times, time)[i] = times[i] /\ times[i] \in Nat
         /\ Append(times, time)[Len(times) + 1] = time
BY SMTT(20)

(* One more is counted where the new time belongs.                         *)
LEMMA OneMore ==
  ASSUME NEW times \in Seq(Nat), NEW time \in Nat, NEW S \in SUBSET DOMAIN times,
         NEW T, T \subseteq S \cup {Len(times) + 1}
  PROVE  Cardinality(T) <= Cardinality(S) + 1 /\ Cardinality(T) \in Nat
<1>1. T \in SUBSET DOMAIN Append(times, time) /\ S \in SUBSET DOMAIN Append(times, time)
      /\ {Len(times) + 1} \in SUBSET DOMAIN Append(times, time)
  BY Appended
<1>2. Cardinality(T) <= Cardinality(S) + Cardinality({Len(times) + 1})
  BY <1>1, Both, Appended
<1>3. Cardinality({Len(times) + 1}) = 1
  BY FS_Singleton
<1>4. Cardinality(T) \in Nat
  BY <1>1, Indices, Appended
<1> QED BY <1>2, <1>3, <1>4

(* The longest wait a client is told of ends with its window.            *)
LEMMA RoundedUp ==
  ASSUME NEW x \in Nat, NEW second \in Nat \ {0}
  PROVE  second * ((x + second - 1) \div second) >= x
<1> DEFINE y == x + second - 1
           q == y \div second
           r == y % second
<1>1. y \in Int /\ q \in Int /\ r \in Int
  OBVIOUS
<1>2. y = second * q + r
  BY <1>1
<1>3. r < second
  OBVIOUS
<1>4. second * q \in Int
  BY <1>1
<1> QED
  <2> DEFINE p == second * q
  <2>1. y = p + r /\ y = x + second - 1 /\ p \in Int
    BY <1>2, <1>4
  <2> HIDE DEF y, q, r, p
  <2>2. p >= x
    BY <1>1, <1>3, <2>1
  <2> QED BY <2>2 DEF p, q, y

(* Time goes by.                                                           *)
LEMMA LimiterLater ==
  ASSUME NEW l, NEW times \in Seq(Nat), NEW back \in Nat, NEW time \in Nat, NEW later \in Nat,
         LimiterSound(l, times, back, time), time <= later
  PROVE  LimiterSound(l, times, back, later)
<1>1. \A i \in DOMAIN times : times[i] \in Nat
  OBVIOUS
<1>2. \A i \in DOMAIN times : times[i] <= later
  BY <1>1 DEF LimiterSound, Passed
<1>3. l.window \in 0..time => l.window \in 0..later
  OBVIOUS
<1> QED BY <1>2, <1>3 DEF LimiterSound, Passed, Windowed

(* The first request after the window, or of all, starts the next one: the *)
(* requests of the old window are all that came in the length of a window  *)
(* before the new one.                                                     *)
LEMMA WindowStarts ==
  ASSUME NEW l \in [count : Nat, window : Int], NEW times \in Seq(Nat),
         NEW back \in Nat, NEW time \in Nat, LimiterSound(l, times, back, time),
         l = NoLimiter \/ time - l.window > Window
  PROVE  LimiterSound([count |-> 1, window |-> time], Append(times, time), back, time)
<1> DEFINE new == [count |-> 1, window |-> time]
           all == Append(times, time)
           before == Between(all, time - Window, time - 1)
<1> USE GatewayAssumption
<1>1. /\ all \in Seq(Nat)
      /\ DOMAIN all = DOMAIN times \cup {Len(times) + 1}
      /\ \A i \in DOMAIN times : all[i] = times[i] /\ times[i] \in Nat
      /\ all[Len(times) + 1] = time
      /\ Len(times) + 1 \notin DOMAIN times
  BY Appended
<1> HIDE DEF all
<1>2. ASSUME NEW i \in DOMAIN times
      PROVE  /\ times[i] < time
             /\ times[i] >= time - Window => l # NoLimiter /\ times[i] >= l.window
  <2>1. CASE l = NoLimiter
    <3>1. ~Windowed(l, times, back, time)
      BY <2>1 DEF Windowed, NoLimiter
    <3>2. times = <<>>
      BY <3>1 DEF LimiterSound
    <3> QED BY <3>2
  <2>2. CASE l # NoLimiter
    <3>1. time - l.window > Window /\ l.window \in 0..time /\ times[i] <= l.window + Window
      BY <2>2 DEF LimiterSound, Windowed
    <3> QED BY <2>2, <3>1, <1>1
  <2> QED BY <2>1, <2>2
<1>3. From(all, time) \subseteq {} \cup {Len(times) + 1}
  BY <1>1, <1>2 DEF From
<1>4. Cardinality(From(all, time)) <= 1
  <2>1. Cardinality(From(all, time)) <= Cardinality({}) + 1
    BY <1>3, OneMore
  <2> QED BY <2>1, FS_EmptySet
<1>5. before \subseteq DOMAIN times /\ (l = NoLimiter => before = {})
  BY <1>1, <1>2 DEF Between
<1>6. l # NoLimiter => before \subseteq From(times, l.window)
  BY <1>1, <1>2 DEF Between, From
<1>7. Cardinality(before) <= limit
  <2>1. CASE l = NoLimiter
    <3>1. Cardinality(before) = 0
      BY <2>1, <1>5, FS_EmptySet
    <3> HIDE DEF before
    <3> QED BY <3>1
  <2>2. CASE l # NoLimiter
    <3>1. From(times, l.window) \in SUBSET DOMAIN times
      BY DEF From
    <3>2. Cardinality(From(times, l.window)) <= limit
      BY <2>2 DEF LimiterSound, Windowed
    <3> QED BY <3>1, <3>2, <2>2, <1>6, Smaller
  <2> QED BY <2>1, <2>2
<1>8. ASSUME NEW from \in Int
      PROVE  Cardinality(Between(all, from, from + Window)) <= 2 * limit
  <2>1. CASE time \notin from..(from + Window)
    <3>1. Between(all, from, from + Window) = Between(times, from, from + Window)
      BY <2>1, <1>1 DEF Between
    <3> QED BY <3>1 DEF LimiterSound, Doubled
  <2>2. CASE time \in from..(from + Window)
    <3>1. Between(all, from, from + Window) \subseteq before \cup {Len(times) + 1}
      BY <2>2, <1>1, <1>2 DEF Between
    <3>2. Cardinality(Between(all, from, from + Window)) <= Cardinality(before) + 1
          /\ Cardinality(Between(all, from, from + Window)) \in Nat /\ Cardinality(before) \in Nat
      BY <3>1, <1>1, <1>5, OneMore, Indices
    <3> QED BY <3>2, <1>7
  <2> QED BY <2>1, <2>2
<1>9. \A i \in DOMAIN all : all[i] <= time /\ all[i] <= time + Window
  BY <1>1, <1>2
<1>10. new.count = 1 /\ new.window = time
  OBVIOUS
<1>11. From(all, time) \subseteq DOMAIN all
  BY DEF From
<1>12. Cardinality(From(all, time)) \in Nat
  BY <1>1, <1>11, Indices
<1> HIDE DEF new, before
<1>13. Windowed(new, all, back, time)
  <2>1. Cardinality(Between(all, new.window - Window, new.window - 1)) <= limit
    BY <1>7, <1>10 DEF before
  <2>2. Cardinality(From(all, new.window)) <= new.count /\ Cardinality(From(all, new.window)) <= limit
    BY <1>4, <1>10, <1>12
  <2> QED BY <2>1, <2>2, <1>9, <1>10 DEF Windowed
<1>14. LimiterSound(new, all, back, time)
  BY <1>8, <1>9, <1>13 DEF LimiterSound, Passed, Doubled
<1> QED BY <1>14 DEF all, new

LEMMA TwoLimits ==
  \A a, b, n \in Nat : \A c \in Nat : a <= n /\ b <= n /\ c <= a + b => c <= 2 * n
OBVIOUS

(* A request within the window and the limit.                              *)
LEMMA WindowCounts ==
  ASSUME NEW l \in [count : Nat, window : Int], NEW times \in Seq(Nat),
         NEW back \in Nat, NEW time \in Nat, LimiterSound(l, times, back, time),
         l # NoLimiter, time - l.window <= Window, l.count + 1 <= limit
  PROVE  LimiterSound([l EXCEPT !.count = @ + 1], Append(times, time), back, time)
<1> DEFINE new == [l EXCEPT !.count = @ + 1]
           all == Append(times, time)
           before == Between(all, l.window - Window, l.window - 1)
<1> USE GatewayAssumption
<1>1. /\ all \in Seq(Nat)
      /\ DOMAIN all = DOMAIN times \cup {Len(times) + 1}
      /\ \A i \in DOMAIN times : all[i] = times[i] /\ times[i] \in Nat
      /\ all[Len(times) + 1] = time
      /\ Len(times) + 1 \notin DOMAIN times
  BY Appended
<1>2. new.count = l.count + 1 /\ new.window = l.window /\ l.window \in 0..time /\ l.count >= 1
  BY DEF LimiterSound, Windowed
<1>3. From(times, l.window) \in SUBSET DOMAIN times /\ From(all, l.window) \in SUBSET DOMAIN all
  BY DEF From
<1> HIDE DEF all, new
<1>4. From(all, l.window) \subseteq From(times, l.window) \cup {Len(times) + 1}
  BY <1>1 DEF From
<1>5. /\ Cardinality(From(all, l.window)) <= Cardinality(From(times, l.window)) + 1
      /\ Cardinality(From(all, l.window)) \in Nat /\ Cardinality(From(times, l.window)) \in Nat
  BY <1>3, <1>4, OneMore, Indices
<1>6. Cardinality(From(times, l.window)) <= l.count
  BY DEF LimiterSound, Windowed
<1>7. Cardinality(From(all, l.window)) <= l.count + 1
  BY <1>5, <1>6
<1>8. before = Between(times, l.window - Window, l.window - 1)
  <2>1. time > l.window - 1
    BY <1>2
  <2>2. ASSUME NEW i \in DOMAIN all
        PROVE  i \in before <=> i \in Between(times, l.window - Window, l.window - 1)
    <3>1. CASE i \in DOMAIN times
      BY <3>1, <1>1 DEF Between
    <3>2. CASE i = Len(times) + 1
      <4>1. all[i] = time /\ i \notin DOMAIN times /\ time \notin (l.window - Window)..(l.window - 1)
        BY <3>2, <2>1, <1>1, <1>2
      <4> QED BY <4>1 DEF Between
    <3> QED BY <3>1, <3>2, <1>1
  <2>3. before \subseteq DOMAIN all /\ Between(times, l.window - Window, l.window - 1) \subseteq DOMAIN all
    BY <1>1 DEF Between
  <2> HIDE DEF before
  <2> QED BY <2>2, <2>3
<1>9. Cardinality(before) <= limit
  BY <1>8 DEF LimiterSound, Windowed
<1>10. ASSUME NEW from \in Int
      PROVE  Cardinality(Between(all, from, from + Window)) <= 2 * limit
  <2>1. CASE time \notin from..(from + Window)
    <3>1. Between(all, from, from + Window) = Between(times, from, from + Window)
      BY <2>1, <1>1 DEF Between
    <3> QED BY <3>1 DEF LimiterSound, Doubled
  <2>2. CASE time \in from..(from + Window)
    <3>1. Between(all, from, from + Window) \subseteq From(all, l.window) \cup before
      <4>1. ASSUME NEW i \in DOMAIN all, all[i] \in from..(from + Window)
            PROVE  all[i] >= l.window \/ all[i] \in (l.window - Window)..(l.window - 1)
        <5>1. all[i] \in Nat /\ all[i] >= from /\ time <= from + Window /\ l.window <= time /\ l.window \in Nat
          BY <4>1, <2>2, <1>1, <1>2
        <5>2. Window \in Nat
          OBVIOUS
        <5> QED BY <5>1, <5>2
      <4> QED BY <4>1 DEF Between, From
    <3>2. before \in SUBSET DOMAIN all
      BY DEF Between
    <3>3. /\ Cardinality(Between(all, from, from + Window)) <= Cardinality(From(all, l.window)) + Cardinality(before)
          /\ Cardinality(before) \in Nat /\ Cardinality(Between(all, from, from + Window)) \in Nat
      <4>1. Between(all, from, from + Window) \in SUBSET DOMAIN all
        BY DEF Between
      <4> QED BY <4>1, <3>1, <3>2, <1>1, <1>3, Both, Indices
    <3>4. Cardinality(From(all, l.window)) \in Nat /\ Cardinality(From(all, l.window)) <= limit
      BY <1>3, <1>5, <1>7
    <3>5. limit \in Nat
      OBVIOUS
    <3> QED BY <3>3, <3>4, <3>5, <1>9, TwoLimits
  <2> QED BY <2>1, <2>2
<1>11. \A i \in DOMAIN all : all[i] <= time /\ all[i] <= l.window + Window
  BY <1>1, <1>2 DEF LimiterSound, Windowed, Passed
<1> HIDE DEF before
<1>12. Cardinality(From(all, l.window)) <= limit /\ ~(l.count + 1 > limit)
  BY <1>5, <1>7
<1>13. Windowed(new, all, back, time)
  <2>1. Cardinality(Between(all, new.window - Window, new.window - 1)) <= limit
    BY <1>2, <1>9 DEF before
  <2>2. Cardinality(From(all, new.window)) <= new.count /\ Cardinality(From(all, new.window)) <= limit
    BY <1>2, <1>7, <1>12
  <2> QED BY <2>1, <2>2, <1>2, <1>11, <1>12 DEF Windowed
<1>14. LimiterSound(new, all, back, time)
  BY <1>10, <1>11, <1>13 DEF LimiterSound, Passed, Doubled
<1> QED BY <1>14 DEF all, new

LEMMA PastTheWindow ==
  \A length, time \in Nat : \A start \in 0..time, p \in Int :
    p >= length - (time - start) => time + p >= start + length /\ time + p \in Nat
OBVIOUS

(* A request refused in the window: what it is told ends after the window. *)
LEMMA WindowRefuses ==
  ASSUME NEW l \in [count : Nat, window : Int], NEW times \in Seq(Nat),
         NEW back \in Nat, NEW time \in Nat, LimiterSound(l, times, back, time),
         l # NoLimiter, time - l.window <= Window, NEW wait,
         wait = (Window - (time - l.window) + Second - 1) \div Second
  PROVE  /\ LimiterSound([l EXCEPT !.count = @ + 1], times, time + Second * wait, time)
         /\ time + Second * wait \in Nat
<1> DEFINE new == [l EXCEPT !.count = @ + 1]
           told2 == time + Second * wait
<1> USE GatewayAssumption
<1>1. new.count = l.count + 1 /\ new.window = l.window /\ l.window \in 0..time /\ l.count >= 1
  BY DEF LimiterSound, Windowed
<1>2. Window - (time - l.window) \in Nat
  BY <1>1
<1>3. Second * wait >= Window - (time - l.window)
  BY <1>2, RoundedUp
<1>4. Second * wait \in Int
  <2>1. wait \in Int
    BY <1>2
  <2> QED BY <2>1
<1>5. told2 >= l.window + Window /\ told2 \in Nat
  <2>1. Second * wait \in Int /\ Window \in Nat
    BY <1>4
  <2> QED BY <1>1, <1>3, <2>1, PastTheWindow
<1>6. From(times, l.window) \in SUBSET DOMAIN times
  BY DEF From
<1>7. Cardinality(From(times, l.window)) \in Nat
  BY <1>6, Indices
<1> HIDE DEF new, told2
<1>8. Windowed(l, times, back, time)
  BY DEF LimiterSound
<1>9. Windowed(new, times, told2, time)
  <2>1. Cardinality(From(times, new.window)) <= new.count
    BY <1>1, <1>7, <1>8 DEF Windowed
  <2> QED BY <2>1, <1>1, <1>5, <1>8 DEF Windowed
<1>10. LimiterSound(new, times, told2, time)
  BY <1>9 DEF LimiterSound
<1> QED BY <1>5, <1>10 DEF new, told2

LEMMA SmallerSeq ==
  ASSUME NEW S, NEW T, NEW s \in Seq(S), \A i \in DOMAIN s : s[i] \in T
  PROVE  s \in Seq(T)
<1>1. Len(s) \in Nat /\ DOMAIN s = 1..Len(s) /\ s = [i \in 1..Len(s) |-> s[i]]
  OBVIOUS
<1>2. s \in [1..Len(s) -> T]
  BY <1>1
<1> QED BY <1>1, <1>2

GateTyped ==
  /\ gateNow \in 0..MaxGateTime /\ running \in Nat /\ requestCount \in 0..MaxApiRequests /\ errorCount \in Nat
  /\ routes \subseteq Routes /\ apiKeys \in [KeyIds -> {"none", "active", "revoked"}]
  /\ rateLimiters \in [ApiClients -> [count : Nat, window : Int]]
  /\ answered \in [Statuses -> Nat]
  /\ admitted \in [ApiClients -> Seq(Nat)]
  /\ comeBack \in [ApiClients -> Nat]

Total(f) == f[200] + f[401] + f[404] + f[429] + f[500]

(* Every request is with its handler or answered, and no limiter has       *)
(* counted more than there were.                                           *)
GateCounted ==
  /\ requestCount = running + Total(answered)
  /\ errorCount = answered[500]
  /\ running > 0 \/ answered[200] > 0 => routes # {}
  /\ \A c \in ApiClients : rateLimiters[c].count <= requestCount

GateSound == \A c \in ApiClients : LimiterSound(rateLimiters[c], admitted[c], comeBack[c], gateNow)

GateInv == GateTyped /\ GateCounted /\ GateSound

LEMMA GateInit == ASSUME GatewayInit PROVE GateInv
<1> USE GatewayAssumption DEF GatewayInit
<1>1. GateTyped
  BY DEF GateTyped, NoLimiter, Statuses
<1>2. GateCounted
  BY DEF GateCounted, NoLimiter, Statuses, Total
<1>3. ASSUME NEW from \in Int PROVE Cardinality(Between(<<>>, from, from + Window)) <= 2 * limit
  <2>1. Between(<<>>, from, from + Window) = {}
    BY DEF Between
  <2>2. Cardinality(Between(<<>>, from, from + Window)) = 0
    BY <2>1, FS_EmptySet
  <2> QED BY <2>2
<1>4. LimiterSound(NoLimiter, <<>>, 0, 0)
  BY <1>3 DEF LimiterSound, Passed, Doubled
<1>5. GateSound
  BY <1>4 DEF GateSound
<1> QED BY <1>1, <1>2, <1>5 DEF GateInv

(* What the limiter makes of a request is a record, and counts one at      *)
(* least and one more at most.                                             *)
LEMMA GateLimiter ==
  ASSUME GateInv, NEW c \in ApiClients
  PROVE  /\ Limiter(c) \in [count : Nat, window : Int]
         /\ Limiter(c).count <= rateLimiters[c].count + 1
         /\ Limiter(c).count <= 1 + requestCount
<1>1. rateLimiters[c] \in [count : Nat, window : Int] /\ gateNow \in Nat /\ requestCount \in Nat
      /\ rateLimiters[c].count <= requestCount
  BY GatewayAssumption DEF GateInv, GateTyped, GateCounted
<1>2. CASE rateLimiters[c] = NoLimiter \/ gateNow - rateLimiters[c].window > Window
  <2>1. Limiter(c) = [count |-> 1, window |-> gateNow]
    BY <1>2 DEF Limiter
  <2> QED BY <2>1, <1>1
<1>3. CASE ~(rateLimiters[c] = NoLimiter \/ gateNow - rateLimiters[c].window > Window)
  <2>1. Limiter(c) = [rateLimiters[c] EXCEPT !.count = @ + 1]
    BY <1>3 DEF Limiter
  <2> QED BY <2>1, <1>1
<1> QED BY <1>2, <1>3

(* A request that passes the limiter leaves every limiter sound.           *)
LEMMA GateAdmitted ==
  ASSUME GateInv, NEW c \in ApiClients, Admitted(c)
  PROVE  GateSound'
<1> USE GatewayAssumption DEF GateInv, Admitted
<1>1. /\ rateLimiters[c] \in [count : Nat, window : Int] /\ admitted[c] \in Seq(Nat)
      /\ comeBack[c] \in Nat /\ gateNow \in Nat /\ LimiterSound(rateLimiters[c], admitted[c], comeBack[c], gateNow)
  BY DEF GateTyped, GateSound
<1>2. LimiterSound(Limiter(c), Append(admitted[c], gateNow), comeBack[c], gateNow)
  <2>1. CASE rateLimiters[c] = NoLimiter \/ gateNow - rateLimiters[c].window > Window
    <3>1. Limiter(c) = [count |-> 1, window |-> gateNow]
      BY <2>1 DEF Limiter
    <3> QED BY <3>1, <2>1, <1>1, WindowStarts
  <2>2. CASE ~(rateLimiters[c] = NoLimiter \/ gateNow - rateLimiters[c].window > Window)
    <3>1. Limiter(c) = [rateLimiters[c] EXCEPT !.count = @ + 1]
      BY <2>2 DEF Limiter
    <3>2. rateLimiters[c].count + 1 <= limit /\ gateNow - rateLimiters[c].window <= Window
      BY <3>1, <2>2, <1>1
    <3>3. LimiterSound([rateLimiters[c] EXCEPT !.count = @ + 1], Append(admitted[c], gateNow), comeBack[c], gateNow)
      BY <3>2, <2>2, <1>1, WindowCounts
    <3> QED BY <3>1, <3>3
  <2> QED BY <2>1, <2>2
<1>3. /\ rateLimiters'[c] = Limiter(c) /\ admitted'[c] = Append(admitted[c], gateNow)
      /\ comeBack'[c] = comeBack[c] /\ gateNow' = gateNow
  BY DEF GateTyped
<1>4. ASSUME NEW d \in ApiClients, d # c
      PROVE  /\ rateLimiters'[d] = rateLimiters[d] /\ admitted'[d] = admitted[d]
             /\ comeBack'[d] = comeBack[d] /\ gateNow' = gateNow
  BY <1>4 DEF GateTyped
<1>5. ASSUME NEW d \in ApiClients PROVE LimiterSound(rateLimiters'[d], admitted'[d], comeBack'[d], gateNow')
  <2>1. CASE d = c
    BY <2>1, <1>2, <1>3
  <2>2. CASE d # c
    BY <2>2, <1>4 DEF GateSound
  <2> QED BY <2>1, <2>2
<1> QED BY <1>5 DEF GateSound, LimiterSound, Passed, Windowed, Doubled, From, Between

(* A refused one, too; its limiter was in its window.                      *)
LEMMA GateRefused ==
  ASSUME GateInv, NEW c \in ApiClients, RateLimited(c)
  PROVE  GateSound' /\ comeBack' \in [ApiClients -> Nat]
<1> USE GatewayAssumption DEF GateInv, RateLimited
<1>1. /\ rateLimiters[c] \in [count : Nat, window : Int] /\ admitted[c] \in Seq(Nat)
      /\ comeBack[c] \in Nat /\ gateNow \in Nat /\ LimiterSound(rateLimiters[c], admitted[c], comeBack[c], gateNow)
  BY DEF GateTyped, GateSound
<1>2. rateLimiters[c] # NoLimiter /\ gateNow - rateLimiters[c].window <= Window
      /\ Limiter(c) = [rateLimiters[c] EXCEPT !.count = @ + 1]
  BY <1>1 DEF Limiter
<1> DEFINE wait == RetryAfter(Limiter(c))
<1>3. wait = (Window - (gateNow - rateLimiters[c].window) + Second - 1) \div Second
  BY <1>1, <1>2 DEF RetryAfter
<1> HIDE DEF wait
<1>4. /\ LimiterSound(Limiter(c), admitted[c], gateNow + Second * wait, gateNow)
      /\ gateNow + Second * wait \in Nat
  <2>1. /\ LimiterSound([rateLimiters[c] EXCEPT !.count = @ + 1], admitted[c], gateNow + Second * wait, gateNow)
        /\ gateNow + Second * wait \in Nat
    BY <1>1, <1>2, <1>3, WindowRefuses
  <2> QED BY <2>1, <1>2
<1>5. comeBack' = [comeBack EXCEPT ![c] = gateNow + Second * wait]
  BY DEF wait
<1>6. /\ rateLimiters'[c] = Limiter(c) /\ admitted'[c] = admitted[c]
      /\ comeBack'[c] = gateNow + Second * wait /\ gateNow' = gateNow
  BY <1>5 DEF GateTyped
<1>7. ASSUME NEW d \in ApiClients, d # c
      PROVE  /\ rateLimiters'[d] = rateLimiters[d] /\ admitted'[d] = admitted[d]
             /\ comeBack'[d] = comeBack[d] /\ gateNow' = gateNow
  BY <1>5, <1>7 DEF GateTyped
<1>8. ASSUME NEW d \in ApiClients PROVE LimiterSound(rateLimiters'[d], admitted'[d], comeBack'[d], gateNow')
  <2>1. CASE d = c
    BY <2>1, <1>4, <1>6
  <2>2. CASE d # c
    BY <2>2, <1>7 DEF GateSound
  <2> QED BY <2>1, <2>2
<1>9. GateSound'
  BY <1>8 DEF GateSound, LimiterSound, Passed, Windowed, Doubled, From, Between
<1> QED BY <1>4, <1>5, <1>9 DEF GateTyped

(* What leaves the limiters alone leaves them sound.                       *)
LEMMA GateStill ==
  ASSUME GateInv, UNCHANGED <<gateNow, rateLimiters, admitted, comeBack>>
  PROVE  GateSound'
BY DEF GateInv, GateSound, LimiterSound, Passed, Windowed, Doubled, From, Between

LEMMA Sums ==
  \A a, b, c, d, e, v, w, x, y, z \in Int :
    (a + v) + (b + w) + (c + x) + (d + y) + (e + z) = (a + b + c + d + e) + (v + w + x + y + z)
OBVIOUS

LEMMA Addends ==
  \A a, b, c, d, e \in Nat : a + b + c + d + e \in Nat /\ e <= a + b + c + d + e
OBVIOUS

LEMMA GateNumbers ==
  ASSUME NEW f \in [Statuses -> Nat]
  PROVE  /\ f[200] \in Nat /\ f[401] \in Nat /\ f[404] \in Nat /\ f[429] \in Nat /\ f[500] \in Nat
         /\ Total(f) \in Nat /\ f[500] <= Total(f)
<1>1. f[200] \in Nat /\ f[401] \in Nat /\ f[404] \in Nat /\ f[429] \in Nat /\ f[500] \in Nat
  BY DEF Statuses
<1> QED BY <1>1, Addends DEF Total

(* An answer is one more of its status, and one more in all.               *)
LEMMA GateAnswer ==
  ASSUME GateTyped, NEW status \in Statuses, Answer(status)
  PROVE  /\ answered' \in [Statuses -> Nat]
         /\ answered'[500] = answered[500] + (IF status = 500 THEN 1 ELSE 0)
         /\ status # 200 => answered'[200] = answered[200]
         /\ Total(answered)' = Total(answered) + 1
<1> DEFINE one(s) == IF status = s THEN 1 ELSE 0
<1>1. answered' = [answered EXCEPT ![status] = answered[status] + 1]
  BY DEF Answer
<1>2. answered \in [Statuses -> Nat]
  BY DEF GateTyped
<1>3. answered' \in [Statuses -> Nat]
  BY <1>1, <1>2
<1>4. ASSUME NEW s \in Statuses PROVE answered'[s] = answered[s] + one(s) /\ one(s) \in Int
  BY <1>1, <1>2
<1>5. one(200) + one(401) + one(404) + one(429) + one(500) = 1
  BY DEF Statuses
<1> HIDE DEF one
<1>6. /\ answered'[200] = answered[200] + one(200) /\ one(200) \in Int
      /\ answered'[401] = answered[401] + one(401) /\ one(401) \in Int
      /\ answered'[404] = answered[404] + one(404) /\ one(404) \in Int
      /\ answered'[429] = answered[429] + one(429) /\ one(429) \in Int
      /\ answered'[500] = answered[500] + one(500) /\ one(500) \in Int
  BY <1>4 DEF Statuses
<1>7. /\ answered[200] \in Int /\ answered[401] \in Int /\ answered[404] \in Int
      /\ answered[429] \in Int /\ answered[500] \in Int
  BY <1>2, GateNumbers
<1>8. Total(answered') = (answered[200] + one(200)) + (answered[401] + one(401)) + (answered[404] + one(404))
                         + (answered[429] + one(429)) + (answered[500] + one(500))
  BY <1>6 DEF Total
<1>9. Total(answered') = Total(answered) + (one(200) + one(401) + one(404) + one(429) + one(500))
  <2> DEFINE a == answered[200]  b == answered[401]  c == answered[404]
             d == answered[429]  e == answered[500]
             v == one(200)  w == one(401)  x == one(404)  y == one(429)  z == one(500)
  <2>1. /\ a \in Int /\ b \in Int /\ c \in Int /\ d \in Int /\ e \in Int
        /\ v \in Int /\ w \in Int /\ x \in Int /\ y \in Int /\ z \in Int
    BY <1>6, <1>7
  <2>2. Total(answered') = (a + v) + (b + w) + (c + x) + (d + y) + (e + z)
    BY <1>8
  <2>3. Total(answered) = a + b + c + d + e
    BY DEF Total
  <2> HIDE DEF a, b, c, d, e, v, w, x, y, z
  <2>4. Total(answered') = Total(answered) + (v + w + x + y + z)
    BY <2>1, <2>2, <2>3
  <2> QED BY <2>4 DEF v, w, x, y, z
<1>10. Total(answered)' = Total(answered')
  BY DEF Total
<1>11. Total(answered)' = Total(answered) + 1
  BY <1>5, <1>9, <1>10
<1>12. /\ answered'[500] = answered[500] + (IF status = 500 THEN 1 ELSE 0)
       /\ status # 200 => answered'[200] = answered[200]
  BY <1>6, <1>7 DEF one
<1> QED BY <1>3, <1>11, <1>12

LEMMA GateSilent == ASSUME UNCHANGED answered PROVE Total(answered)' = Total(answered)
BY DEF Total

LEMMA GateRequest ==
  ASSUME GateInv, NEW c \in ApiClients,
         \/ RateLimited(c)
         \/ \E route \in Routes : RouteNotFound(c, route) \/ CallHandler(c, route)
  PROVE  GateInv'
<1>1. GateTyped /\ GateCounted
  BY DEF GateInv
<1>2. /\ Limiter(c) \in [count : Nat, window : Int]
      /\ Limiter(c).count <= 1 + requestCount
  BY GateLimiter
<1>3. Total(answered) \in Nat /\ answered[500] \in Nat /\ answered[200] \in Nat /\ running \in Nat
  BY <1>1, GateNumbers DEF GateTyped
<1>4. /\ rateLimiters' = [rateLimiters EXCEPT ![c] = Limiter(c)]
      /\ requestCount' = requestCount + 1 /\ requestCount < MaxApiRequests
      /\ gateNow' = gateNow /\ routes' = routes /\ apiKeys' = apiKeys /\ errorCount' = errorCount
  BY DEF RateLimited, RouteNotFound, CallHandler, Admitted, Counted, setupVars
<1>5. requestCount \in Nat /\ requestCount' \in 0..MaxApiRequests
  BY <1>1, <1>4, GatewayAssumption DEF GateTyped
<1>6. /\ gateNow' \in 0..MaxGateTime /\ routes' \subseteq Routes /\ errorCount' \in Nat
      /\ apiKeys' \in [KeyIds -> {"none", "active", "revoked"}]
  BY <1>1, <1>4 DEF GateTyped
<1>7. /\ rateLimiters' \in [ApiClients -> [count : Nat, window : Int]]
      /\ \A d \in ApiClients : rateLimiters'[d].count <= requestCount'
  <2>1. ASSUME NEW d \in ApiClients PROVE rateLimiters'[d].count <= requestCount'
    <3>1. CASE d = c
      BY <3>1, <1>1, <1>2, <1>4, <1>5 DEF GateTyped
    <3>2. CASE d # c
      <4>1. rateLimiters'[d] = rateLimiters[d] /\ rateLimiters[d].count \in Nat
            /\ rateLimiters[d].count <= requestCount
        BY <3>2, <1>1, <1>4 DEF GateTyped, GateCounted
      <4> QED BY <4>1, <1>4, <1>5
    <3> QED BY <3>1, <3>2
  <2>2. rateLimiters' \in [ApiClients -> [count : Nat, window : Int]]
    BY <1>1, <1>2, <1>4 DEF GateTyped
  <2> QED BY <2>1, <2>2
<1>8. CASE RateLimited(c)
  <2>1. Answer(429) /\ running' = running /\ admitted' = admitted
    BY <1>8 DEF RateLimited
  <2>2. comeBack' \in [ApiClients -> Nat] /\ GateSound'
    BY <1>8, GateRefused
  <2>3. /\ answered' \in [Statuses -> Nat] /\ Total(answered)' = Total(answered) + 1
        /\ answered'[500] = answered[500] /\ answered'[200] = answered[200]
    <3>1. 429 \in Statuses
      BY DEF Statuses
    <3> QED BY <3>1, <2>1, <1>1, <1>3, GateAnswer
  <2>4. GateTyped'
    <3>1. running' \in Nat /\ admitted' \in [ApiClients -> Seq(Nat)]
      BY <1>1, <2>1 DEF GateTyped
    <3> QED BY <3>1, <1>6, <1>5, <1>7, <2>2, <2>3 DEF GateTyped
  <2>5. GateCounted'
    BY <1>1, <1>3, <1>4, <1>5, <1>7, <2>1, <2>3 DEF GateCounted
  <2> QED BY <2>2, <2>4, <2>5 DEF GateInv
<1>9. CASE Admitted(c)
  <2>1. admitted' \in [ApiClients -> Seq(Nat)] /\ comeBack' = comeBack
    <3>1. gateNow \in Nat
      BY <1>1, GatewayAssumption DEF GateTyped
    <3>2. Append(admitted[c], gateNow) \in Seq(Nat)
      BY <3>1, <1>1 DEF GateTyped
    <3> QED BY <1>1, <1>9, <3>2 DEF GateTyped, Admitted
  <2>2. ASSUME NEW route \in Routes, RouteNotFound(c, route) PROVE GateInv'
    <3>1. Answer(404) /\ running' = running
      BY <2>2 DEF RouteNotFound
    <3>2. /\ answered' \in [Statuses -> Nat] /\ Total(answered)' = Total(answered) + 1
          /\ answered'[500] = answered[500] /\ answered'[200] = answered[200]
      <4>1. 404 \in Statuses
        BY DEF Statuses
      <4> QED BY <4>1, <3>1, <1>1, <1>3, GateAnswer
    <3>3. GateTyped'
      <4>1. running' \in Nat /\ comeBack' \in [ApiClients -> Nat]
        BY <1>1, <2>1, <3>1 DEF GateTyped
      <4> QED BY <4>1, <1>6, <1>5, <1>7, <2>1, <3>2 DEF GateTyped
    <3>4. GateCounted'
      BY <1>1, <1>3, <1>4, <1>5, <1>7, <3>1, <3>2 DEF GateCounted
    <3> QED BY <1>9, <3>3, <3>4, GateAdmitted DEF GateInv
  <2>3. ASSUME NEW route \in Routes, CallHandler(c, route) PROVE GateInv'
    <3>1. answered' = answered /\ running' = running + 1 /\ routes # {}
      BY <2>3 DEF CallHandler
    <3>2. Total(answered)' = Total(answered)
      BY <3>1, GateSilent
    <3>3. GateTyped'
      <4>1. running' \in Nat
        BY <1>3, <3>1
      <4>2. answered' \in [Statuses -> Nat] /\ comeBack' \in [ApiClients -> Nat]
        BY <1>1, <2>1, <3>1 DEF GateTyped
      <4> QED BY <4>1, <4>2, <1>6, <1>5, <1>7, <2>1 DEF GateTyped
    <3>4. GateCounted'
      BY <1>1, <1>3, <1>4, <1>5, <1>7, <3>1, <3>2 DEF GateCounted
    <3> QED BY <1>9, <3>3, <3>4, GateAdmitted DEF GateInv
  <2>4. CASE RateLimited(c)
    BY <2>4, <1>8
  <2> QED BY <2>2, <2>3, <2>4
<1> QED BY <1>8, <1>9 DEF RouteNotFound, CallHandler

(* The steps that ask no limiter.                                          *)
LEMMA GateAnswers ==
  ASSUME GateInv,
         Unauthorized \/ Malformed \/ HandlerAnswers \/ HandlerFails
  PROVE  GateInv'
<1> USE GatewayAssumption DEF GateInv, Counted, setupVars
<1>1. 200 \in Statuses /\ 401 \in Statuses /\ 500 \in Statuses
  BY DEF Statuses
<1>2. Total(answered) \in Nat /\ answered[500] \in Nat /\ answered[200] \in Nat /\ running \in Nat
  BY GateNumbers DEF GateTyped
<1>3. ASSUME NEW c \in ApiClients PROVE rateLimiters[c].count \in Nat
  BY DEF GateTyped
<1>4. requestCount \in Nat /\ errorCount \in Nat
  BY DEF GateTyped
<1>5. GateSound'
  BY GateStill DEF Unauthorized, Malformed, HandlerAnswers, HandlerFails
<1>6. CASE Unauthorized
  <2> USE DEF Unauthorized
  <2>1. /\ answered' \in [Statuses -> Nat] /\ Total(answered)' = Total(answered) + 1
        /\ answered'[500] = answered[500] + 0
        /\ running > 0 \/ answered'[200] = answered[200]
    BY <1>6, <1>1, <1>2, GateAnswer
  <2>2. GateTyped'
    BY <1>6, <2>1 DEF GateTyped
  <2>3. GateCounted'
    BY <1>6, <1>2, <1>3, <2>1, <1>4 DEF GateCounted
  <2> QED BY <2>2, <2>3, <1>5
<1>7. CASE Malformed
  <2> USE DEF Malformed
  <2>1. /\ answered' \in [Statuses -> Nat] /\ Total(answered)' = Total(answered) + 1
        /\ answered'[500] = answered[500] + 1
        /\ running > 0 \/ answered'[200] = answered[200]
    BY <1>7, <1>1, <1>2, GateAnswer
  <2>2. GateTyped'
    BY <1>7, <2>1 DEF GateTyped
  <2>3. GateCounted'
    BY <1>7, <1>2, <1>3, <2>1, <1>4 DEF GateCounted
  <2> QED BY <2>2, <2>3, <1>5
<1>8. CASE HandlerAnswers
  <2> USE DEF HandlerAnswers
  <2>1. /\ answered' \in [Statuses -> Nat] /\ Total(answered)' = Total(answered) + 1
        /\ answered'[500] = answered[500] + 0
        /\ running > 0 \/ answered'[200] = answered[200]
    BY <1>8, <1>1, <1>2, GateAnswer
  <2>2. GateTyped'
    BY <1>8, <2>1 DEF GateTyped
  <2>3. GateCounted'
    BY <1>8, <1>2, <1>3, <2>1, <1>4 DEF GateCounted
  <2> QED BY <2>2, <2>3, <1>5
<1>9. CASE HandlerFails
  <2> USE DEF HandlerFails
  <2>1. /\ answered' \in [Statuses -> Nat] /\ Total(answered)' = Total(answered) + 1
        /\ answered'[500] = answered[500] + 1
        /\ running > 0 \/ answered'[200] = answered[200]
    BY <1>9, <1>1, <1>2, GateAnswer
  <2>2. GateTyped'
    BY <1>9, <2>1 DEF GateTyped
  <2>3. GateCounted'
    BY <1>9, <1>2, <1>3, <2>1, <1>4 DEF GateCounted
  <2> QED BY <2>2, <2>3, <1>5
<1> QED BY <1>6, <1>7, <1>8, <1>9

LEMMA GateSetup ==
  ASSUME GateInv,
         \/ \E route \in Routes : RegisterRoute(route)
         \/ \E k \in KeyIds : RegisterAPIKey(k) \/ RevokeAPIKey(k)
  PROVE  GateInv'
<1> USE DEF GateInv, RegisterRoute, RegisterAPIKey, RevokeAPIKey, requestVars
<1>1. GateTyped'
  BY DEF GateTyped
<1>2. running > 0 \/ answered[200] > 0 => routes' # {}
  BY DEF GateCounted
<1>3. GateCounted'
  BY <1>2, GateSilent DEF GateCounted
<1> QED BY <1>1, <1>3, GateStill

LEMMA GateTick == ASSUME GateInv, GatewayTick PROVE GateInv'
<1> USE DEF GateInv, GatewayTick, setupVars
<1>1. GateTyped' /\ gateNow \in Nat /\ gateNow' \in Nat /\ gateNow <= gateNow'
  BY GatewayAssumption DEF GateTyped
<1>2. GateCounted'
  BY GateSilent DEF GateCounted
<1>3. ASSUME NEW c \in ApiClients PROVE LimiterSound(rateLimiters[c], admitted[c], comeBack[c], gateNow')
  BY <1>1, LimiterLater DEF GateTyped, GateSound
<1>4. GateSound'
  BY <1>3 DEF GateSound, LimiterSound, Passed, Windowed, Doubled, From, Between
<1> QED BY <1>1, <1>2, <1>4

LEMMA GateStep ==
  ASSUME GateInv, [GatewayNext]_gatewayVars
  PROVE  GateInv'
<1>1. CASE UNCHANGED gatewayVars
  <2>1. GateSound'
    BY <1>1, GateStill DEF gatewayVars
  <2>2. GateTyped'
    BY <1>1 DEF gatewayVars, GateInv, GateTyped
  <2>3. GateCounted'
    BY <1>1, GateSilent DEF gatewayVars, GateInv, GateCounted
  <2> QED BY <2>1, <2>2, <2>3 DEF GateInv
<1>2. CASE GatewayNext
  BY <1>2, GateRequest, GateAnswers, GateSetup, GateTick DEF GatewayNext
<1> QED BY <1>1, <1>2

(* The invariant gives the types and the properties that runs check.       *)
LEMMA GateTypes == ASSUME GateInv PROVE GatewayTyped
<1> USE GatewayAssumption DEF GateInv
<1>1. Total(answered) \in Nat /\ answered[500] \in Nat /\ answered[500] <= Total(answered)
  BY GateNumbers DEF GateTyped
<1>2. running \in 0..MaxApiRequests /\ errorCount \in 0..MaxApiRequests
  BY <1>1 DEF GateTyped, GateCounted
<1>3. ASSUME NEW c \in ApiClients
      PROVE  /\ rateLimiters[c].count \in 0..MaxApiRequests
             /\ rateLimiters[c].window \in -1..gateNow
             /\ admitted[c] \in Seq(0..gateNow)
  <2>1. LimiterSound(rateLimiters[c], admitted[c], comeBack[c], gateNow) /\ admitted[c] \in Seq(Nat)
    BY DEF GateSound, GateTyped
  <2>2. rateLimiters[c].count \in 0..MaxApiRequests
    BY DEF GateTyped, GateCounted
  <2>3. rateLimiters[c].window \in -1..gateNow
    BY <2>1 DEF GateTyped, LimiterSound, Windowed, NoLimiter
  <2>4. \A i \in DOMAIN admitted[c] : admitted[c][i] \in 0..gateNow
    BY <2>1 DEF GateTyped, LimiterSound, Passed
  <2>5. admitted[c] \in Seq(0..gateNow)
    <3> DEFINE times == admitted[c]
    <3>1. times \in Seq(Nat) /\ \A i \in DOMAIN times : times[i] \in 0..gateNow
      BY <2>1, <2>4
    <3> HIDE DEF times
    <3>2. times \in Seq(0..gateNow)
      BY <3>1, SmallerSeq
    <3> QED BY <3>2 DEF times
  <2> QED BY <2>2, <2>3, <2>5
<1> QED BY <1>2, <1>3 DEF GateTyped, GatewayTyped

LEMMA GateHolds == ASSUME GateInv PROVE Gateway
<1> USE GatewayAssumption DEF GateInv
<1>1. ASSUME NEW c \in ApiClients, NEW from \in 0..gateNow
      PROVE  AdmittedIn(c, from, from + Window) <= 2 * limit
  <2>1. AdmittedIn(c, from, from + Window) = Cardinality(Between(admitted[c], from, from + Window))
    BY DEF AdmittedIn, Between
  <2>2. from \in Int
    BY DEF GateTyped
  <2> QED BY <2>1, <2>2 DEF GateSound, LimiterSound, Doubled
<1>2. ASSUME NEW c \in ApiClients, rateLimiters[c].count > limit, gateNow > comeBack[c]
      PROVE  gateNow - rateLimiters[c].window > Window
  <2>1. LimiterSound(rateLimiters[c], admitted[c], comeBack[c], gateNow)
    BY DEF GateSound
  <2>2. rateLimiters[c] # NoLimiter
    BY <1>2 DEF NoLimiter
  <2>3. comeBack[c] >= rateLimiters[c].window + Window /\ comeBack[c] \in Nat /\ gateNow \in Nat
        /\ rateLimiters[c].window \in Int
    BY <2>1, <2>2, <1>2 DEF LimiterSound, Windowed, GateTyped
  <2> QED BY <2>3, <1>2
<1>3. {c \in ApiClients : rateLimiters[c] # NoLimiter} = {c \in ApiClients : rateLimiters[c].count > 0}
  <2>1. ASSUME NEW c \in ApiClients
        PROVE  rateLimiters[c] # NoLimiter <=> rateLimiters[c].count > 0
    <3>1. LimiterSound(rateLimiters[c], admitted[c], comeBack[c], gateNow) /\ rateLimiters[c].count \in Nat
      BY DEF GateSound, GateTyped
    <3> QED BY <3>1 DEF LimiterSound, Windowed, NoLimiter
  <2> QED BY <2>1
<1>4. LimitHolds
  BY <1>1, <1>2 DEF LimitHolds
<1>5. CountersAgree
  <2>1. requestCount = running + answered[200] + answered[401] + answered[404]
                               + answered[429] + answered[500]
    <3>1. /\ answered[200] \in Int /\ answered[401] \in Int /\ answered[404] \in Int
          /\ answered[429] \in Int /\ answered[500] \in Int /\ running \in Int
      BY GateNumbers DEF GateTyped
    <3>2. requestCount = running + (answered[200] + answered[401] + answered[404] + answered[429] + answered[500])
      BY DEF GateCounted, Total
    <3>3. \A r, a, b, c, d, e \in Int : r + (a + b + c + d + e) = r + a + b + c + d + e
      OBVIOUS
    <3> QED BY <3>1, <3>2, <3>3
  <2>2. GatewayStatistics.totalRequests = requestCount /\ GatewayStatistics.totalErrors = errorCount
        /\ GatewayStatistics.registeredRoutes = Cardinality(routes)
        /\ GatewayStatistics.activeRateLimiters = Cardinality({c \in ApiClients : rateLimiters[c] # NoLimiter})
    BY DEF GatewayStatistics
  <2>3. Documentation.endpoints = routes
    BY DEF Documentation
  <2>4. {c \in ApiClients : rateLimiters[c] # NoLimiter} = {c \in ApiClients : rateLimiters[c].count > 0}
    BY <1>3
  <2>5. errorCount = answered[500] /\ (answered[200] > 0 => routes # {})
    BY DEF GateCounted
  <2> QED BY <2>1, <2>2, <2>3, <2>4, <2>5 DEF CountersAgree
<1> QED BY <1>4, <1>5 DEF Gateway

(* Gateway and the types, for every limit and length of the window.        *)
THEOREM GatewayHolds == GatewaySpec => [](GatewayTyped /\ Gateway)
<1>1. GatewayInit => GateInv
  BY GateInit
<1>2. GateInv /\ [GatewayNext]_gatewayVars => GateInv'
  BY GateStep
<1>3. GateInv => GatewayTyped /\ Gateway
  BY GateTypes, GateHolds
<1> QED BY <1>1, <1>2, <1>3, PTL DEF GatewaySpec

----------------------------------------------------------------------------
(****************************************************************************)
(* The stores: those that have synced with each other since the last write  *)
(* hold the same.  What one of them has taken in wins when the other takes  *)
(* it in.                                                                   *)
(****************************************************************************)

SyncValues == {Undefined} \cup {Object(f) : f \in SUBSET (Fields \cup {"entry"})}
SyncEntries == [value : SyncValues, timestamp : 0..MaxTime, version : 0..MaxVersion]

(* What a replica that has taken in the other's entry f holds in e: if not *)
(* the same value, one that wins when the other takes it in.               *)
Taken(e, f) ==
  \/ f = Absent
  \/ /\ e # Absent
     /\ e.value = f.value \/ (e.timestamp >= f.timestamp /\ e.version # f.version)

Agreed(e, f) == (e = Absent <=> f = Absent) /\ e.value = f.value

SyncTyped ==
  /\ store \in [Replicas -> [Keys -> SyncEntries]]
  /\ strategy \in Strategies /\ now \in 1..MaxTime /\ tie \in BOOLEAN
  /\ history \in [Replicas -> [Keys -> SUBSET {Undefined, Object({"entry"})}]]
  /\ conflicts \in [Replicas -> SUBSET Keys]
  /\ synced \subseteq Replicas

(* No entry is stamped with a time to come, and one that was written has a *)
(* version and the time before it in its history.                          *)
SyncStamped ==
  \A r \in Replicas, k \in Keys :
    /\ store[r][k].timestamp <= now
    /\ store[r][k] # Absent =>
         store[r][k].version >= 1 /\ Undefined \in history[r][k]

SyncTaken ==
  ~tie /\ strategy # "MANUAL" =>
    /\ \A r \in synced, k \in Keys : Taken(store[r][k], store[Peer(r)][k])
    /\ synced = Replicas => \A r \in Replicas, k \in Keys : Agreed(store[r][k], store[Peer(r)][k])

SyncInv == SyncTyped /\ SyncStamped /\ SyncTaken

(* The two replicas are each other's peers.                                *)
LEMMA Peers ==
  ASSUME NEW r \in Replicas
  PROVE  /\ Peer(r) \in Replicas /\ Peer(r) # r
         /\ Peer(Peer(r)) = r
         /\ Replicas = {r, Peer(r)}
<1>1. PICK p, q \in Replicas : p # q /\ Replicas = {p, q}
  BY StoresAssumption
<1>2. Peer(r) \in Replicas /\ Peer(r) # r
  BY <1>1 DEF Peer
<1>3. Peer(Peer(r)) \in Replicas /\ Peer(Peer(r)) # Peer(r)
  BY <1>1, <1>2 DEF Peer
<1> QED BY <1>1, <1>2, <1>3

LEMMA Written ==
  ASSUME now \in 1..MaxTime, NEW old \in SyncEntries, NEW value \in SyncValues,
         old.version < MaxVersion
  PROVE  /\ Entry(old, value) \in SyncEntries
         /\ Entry(old, value).value = value
         /\ Entry(old, value).timestamp = now
         /\ Entry(old, value).version = old.version + 1
         /\ Entry(old, value) # Absent
<1>1. old.version \in Nat /\ MaxVersion \in Nat /\ now \in Nat
  BY StoresAssumption DEF SyncEntries
<1>2. old.version + 1 \in 0..MaxVersion /\ now \in 0..MaxTime /\ old.version + 1 # 0
  BY <1>1
<1>3. Entry(old, value) = [value |-> value, timestamp |-> now, version |-> old.version + 1]
  BY DEF Entry
<1>4. Absent.version = 0
  BY DEF Absent
<1> QED BY <1>2, <1>3, <1>4 DEF SyncEntries

(* What a resolution gives is a value.                                     *)
LEMMA ResolvedTyped ==
  ASSUME strategy \in Strategies, strategy # "MANUAL",
         NEW local \in SyncEntries, NEW remote \in SyncEntries
  PROVE  Resolved(local, remote) \in SyncValues
<1>1. local.value \in SyncValues /\ remote.value \in SyncValues
  BY DEF SyncEntries
<1>2. Newer(local, remote) \in SyncValues /\ Older(local, remote) \in SyncValues
  BY <1>1 DEF Newer, Older
<1>3. ASSUME local.value.kind = "object", remote.value.kind = "object"
      PROVE  Object(local.value.fields \cup remote.value.fields) \in SyncValues
  <2>1. PICK f \in SUBSET (Fields \cup {"entry"}) : local.value = Object(f)
    BY <1>1, <1>3 DEF SyncValues, Undefined
  <2>2. PICK g \in SUBSET (Fields \cup {"entry"}) : remote.value = Object(g)
    BY <1>1, <1>3 DEF SyncValues, Undefined
  <2>3. local.value.fields = f /\ remote.value.fields = g
    BY <2>1, <2>2 DEF Object
  <2>4. f \cup g \in SUBSET (Fields \cup {"entry"})
    OBVIOUS
  <2> QED BY <2>3, <2>4 DEF SyncValues
<1>4. strategy \in {"LAST_WRITE_WINS", "FIRST_WRITE_WINS", "MERGE"}
  BY StoresAssumption
<1>5. CASE strategy = "LAST_WRITE_WINS"
  BY <1>5, <1>2 DEF Resolved
<1>6. CASE strategy = "FIRST_WRITE_WINS"
  BY <1>6, <1>2 DEF Resolved
<1>7. CASE strategy = "MERGE"
  BY <1>7, <1>2, <1>3 DEF Resolved
<1> QED BY <1>4, <1>5, <1>6, <1>7

(* What is merged is the local entry as it was, or written anew.           *)
LEMMA MergedWrites ==
  ASSUME strategy \in Strategies, NEW local \in SyncEntries, NEW remote \in SyncEntries
  PROVE  \/ Merged(local, remote) = local
         \/ \E value \in SyncValues : Merged(local, remote) = Entry(local, value)
<1>1. remote.value \in SyncValues
  BY DEF SyncEntries
<1>2. CASE remote = Absent
  BY <1>2 DEF Merged
<1>3. CASE remote # Absent /\ local = Absent
  BY <1>1, <1>3 DEF Merged
<1>4. CASE /\ remote # Absent /\ local # Absent
           /\ local.timestamp = remote.timestamp \/ Unresolved(local, remote)
  BY <1>4 DEF Merged
<1>5. CASE /\ remote # Absent /\ local # Absent
           /\ ~(local.timestamp = remote.timestamp \/ Unresolved(local, remote))
  <2>1. CASE local.version # remote.version
    BY <1>1, <1>5, <2>1 DEF Merged
  <2>2. CASE local.version = remote.version /\ local.value = remote.value
    BY <1>1, <1>5, <2>2 DEF Merged
  <2>3. CASE local.version = remote.version /\ local.value # remote.value
    <3>1. strategy # "MANUAL"
      BY <1>5, <2>3 DEF Unresolved
    <3>2. Resolved(local, remote) \in SyncValues
      BY <3>1, ResolvedTyped
    <3> QED BY <3>2, <1>5, <2>3 DEF Merged
  <2> QED BY <2>1, <2>2, <2>3
<1> QED BY <1>2, <1>3, <1>4, <1>5

LEMMA MergedTyped ==
  ASSUME strategy \in Strategies, now \in 1..MaxTime,
         NEW local \in SyncEntries, NEW remote \in SyncEntries,
         local.version < MaxVersion, local.timestamp <= now
  PROVE  /\ Merged(local, remote) \in SyncEntries
         /\ Merged(local, remote).timestamp <= now
         /\ Merged(local, remote) # local =>
              Merged(local, remote) # Absent /\ Merged(local, remote).version >= 1
<1>1. CASE Merged(local, remote) = local
  BY <1>1
<1>2. CASE \E value \in SyncValues : Merged(local, remote) = Entry(local, value)
  <2>1. PICK value \in SyncValues : Merged(local, remote) = Entry(local, value)
    BY <1>2
  <2>2. /\ Merged(local, remote) \in SyncEntries
        /\ Merged(local, remote).timestamp = now
        /\ Merged(local, remote).version = local.version + 1
        /\ Merged(local, remote) # Absent
    BY <2>1, Written
  <2>3. now \in Int /\ local.version \in Nat
    BY DEF SyncEntries
  <2> QED BY <2>2, <2>3
<1> QED BY <1>1, <1>2, MergedWrites

(* One sync takes the other's entries in.                                  *)
LEMMA MergedTakes ==
  ASSUME strategy \in Strategies, strategy # "MANUAL", now \in 1..MaxTime,
         NEW local \in SyncEntries, NEW remote \in SyncEntries,
         local.version < MaxVersion, remote.timestamp <= now,
         local.timestamp = remote.timestamp => local.value = remote.value
  PROVE  Taken(Merged(local, remote), remote)
<1>1. /\ remote.value \in SyncValues /\ local.version \in Nat /\ remote.version \in Nat
      /\ local.timestamp \in Nat /\ remote.timestamp \in Nat
  BY DEF SyncEntries
<1>2. ~Unresolved(local, remote)
  BY DEF Unresolved
<1>3. /\ Entry(local, remote.value).value = remote.value
      /\ Entry(local, remote.value) # Absent
  BY <1>1, Written
<1>4. CASE remote = Absent
  BY <1>4 DEF Taken
<1>5. CASE remote # Absent /\ local = Absent
  <2>1. Merged(local, remote) = Entry(local, remote.value)
    BY <1>5 DEF Merged
  <2> QED BY <2>1, <1>3 DEF Taken
<1>6. CASE remote # Absent /\ local # Absent /\ local.timestamp = remote.timestamp
  <2>1. Merged(local, remote) = local
    BY <1>6 DEF Merged
  <2> QED BY <2>1, <1>6 DEF Taken
<1>7. CASE /\ remote # Absent /\ local # Absent /\ local.timestamp # remote.timestamp
           /\ local.version = remote.version
  <2>1. CASE local.value = remote.value
    <3>1. Merged(local, remote) = Entry(local, remote.value)
      BY <1>2, <1>7, <2>1 DEF Merged
    <3> QED BY <3>1, <1>3 DEF Taken
  <2>2. CASE local.value # remote.value
    <3> DEFINE e == Entry(local, Resolved(local, remote))
    <3>1. Merged(local, remote) = e
      BY <1>2, <1>7, <2>2 DEF Merged
    <3>2. e # Absent /\ e.timestamp = now /\ e.version = local.version + 1
      BY ResolvedTyped, Written
    <3>3. e.timestamp >= remote.timestamp /\ e.version # remote.version
      BY <3>2, <1>1, <1>7
    <3> QED BY <3>1, <3>2, <3>3 DEF Taken
  <2> QED BY <2>1, <2>2
<1>8. CASE /\ remote # Absent /\ local # Absent /\ local.timestamp # remote.timestamp
           /\ local.version # remote.version /\ remote.timestamp > local.timestamp
  <2>1. Merged(local, remote) = Entry(local, remote.value)
    BY <1>2, <1>8 DEF Merged
  <2> QED BY <2>1, <1>3 DEF Taken
<1>9. CASE /\ remote # Absent /\ local # Absent /\ local.timestamp # remote.timestamp
           /\ local.version # remote.version /\ ~(remote.timestamp > local.timestamp)
  <2>1. Merged(local, remote) = local
    BY <1>2, <1>9 DEF Merged
  <2> QED BY <2>1, <1>1, <1>9 DEF Taken
<1> QED BY <1>4, <1>5, <1>6, <1>7, <1>8, <1>9

(* And when the other has taken in this one's before, they agree.          *)
LEMMA MergedAgrees ==
  ASSUME strategy \in Strategies, strategy # "MANUAL", now \in 1..MaxTime,
         NEW local \in SyncEntries, NEW remote \in SyncEntries,
         local.version < MaxVersion, Taken(remote, local),
         local.timestamp = remote.timestamp => local.value = remote.value
  PROVE  Agreed(Merged(local, remote), remote)
<1>1. /\ remote.value \in SyncValues /\ local.version \in Nat /\ remote.version \in Nat
      /\ local.timestamp \in Nat /\ remote.timestamp \in Nat
  BY DEF SyncEntries
<1>2. ~Unresolved(local, remote)
  BY DEF Unresolved
<1>3. /\ Entry(local, remote.value).value = remote.value
      /\ Entry(local, remote.value) # Absent
  BY <1>1, Written
<1>4. CASE remote = Absent
  <2>1. Merged(local, remote) = local /\ local = Absent
    BY <1>4 DEF Merged, Taken
  <2> QED BY <2>1, <1>4 DEF Agreed
<1>5. CASE remote # Absent /\ local = Absent
  <2>1. Merged(local, remote) = Entry(local, remote.value)
    BY <1>5 DEF Merged
  <2> QED BY <2>1, <1>3, <1>5 DEF Agreed
<1>6. CASE remote # Absent /\ local # Absent /\ local.value = remote.value
  <2>1. Merged(local, remote) = local \/ Merged(local, remote) = Entry(local, remote.value)
    BY <1>2, <1>6 DEF Merged
  <2> QED BY <2>1, <1>3, <1>6 DEF Agreed
<1>7. CASE remote # Absent /\ local # Absent /\ local.value # remote.value
  <2>1. remote.timestamp > local.timestamp /\ remote.version # local.version
    BY <1>1, <1>7 DEF Taken
  <2>2. local.timestamp # remote.timestamp
    BY <2>1, <1>1
  <2>3. Merged(local, remote) = Entry(local, remote.value)
    BY <1>2, <1>7, <2>1, <2>2 DEF Merged
  <2> QED BY <2>3, <1>3, <1>7 DEF Agreed
<1> QED BY <1>4, <1>5, <1>6, <1>7

LEMMA AgreedTaken ==
  ASSUME NEW e, NEW f, Agreed(e, f)
  PROVE  Taken(e, f) /\ Taken(f, e) /\ Agreed(f, e)
BY DEF Agreed, Taken

LEMMA SyncInit == ASSUME StoresInit PROVE SyncInv
<1> USE StoresAssumption DEF StoresInit
<1>1. Absent \in SyncEntries /\ Absent.timestamp = 0
  BY DEF SyncEntries, Absent, SyncValues
<1>2. SyncTyped
  <2>1. store \in [Replicas -> [Keys -> SyncEntries]]
    BY <1>1
  <2>2. history \in [Replicas -> [Keys -> SUBSET {Undefined, Object({"entry"})}]]
    OBVIOUS
  <2>3. now \in 1..MaxTime
    OBVIOUS
  <2>4. tie \in BOOLEAN /\ synced \subseteq Replicas /\ strategy \in Strategies
    BY Zenon
  <2>5. conflicts \in [Replicas -> SUBSET Keys]
    OBVIOUS
  <2> QED BY <2>1, <2>2, <2>3, <2>5, <2>4 DEF SyncTyped
<1>3. SyncStamped
  BY <1>1 DEF SyncStamped
<1>4. SyncTaken
  <2>1. Replicas # {}
    BY StoresAssumption
  <2> QED BY <2>1 DEF SyncTaken
<1> QED BY <1>2, <1>3, <1>4 DEF SyncInv

(* The invariant is kept by whatever writes one entry.                     *)
LEMMA SyncWrite ==
  ASSUME SyncInv, NEW r \in Replicas, NEW k \in Keys,
         NEW value \in SyncValues, Write(r, k, value), conflicts' \in [Replicas -> SUBSET Keys]
  PROVE  SyncInv'
<1> USE DEF SyncInv, Write
<1> DEFINE new == Entry(store[r][k], value)
<1>1. store[r][k] \in SyncEntries /\ store[r][k].version < MaxVersion /\ now \in 1..MaxTime
  BY DEF SyncTyped
<1>2. new \in SyncEntries /\ new.timestamp = now /\ new.version = store[r][k].version + 1
  BY <1>1, Written
<1>3. new.version >= 1 /\ new.timestamp <= now
  BY <1>1, <1>2 DEF SyncEntries
<1>4. store' = [store EXCEPT ![r][k] = new]
  OBVIOUS
<1> HIDE DEF new
<1>5. Kept(store[r][k]) \in {Undefined, Object({"entry"})}
  BY DEF Kept
<1>6. SyncTyped'
  <2>1. store' \in [Replicas -> [Keys -> SyncEntries]]
    BY <1>2, <1>4 DEF SyncTyped
  <2>2. history' \in [Replicas -> [Keys -> SUBSET {Undefined, Object({"entry"})}]]
    <3>1. history[r][k] \cup {Kept(store[r][k])} \in SUBSET {Undefined, Object({"entry"})}
      BY <1>5 DEF SyncTyped
    <3> QED BY <3>1 DEF SyncTyped
  <2>3. synced' = {} /\ now' = now /\ tie' = tie /\ strategy' = strategy
    OBVIOUS
  <2> QED BY <2>1, <2>2, <2>3 DEF SyncTyped
<1>7. ASSUME NEW q \in Replicas, NEW j \in Keys
      PROVE  /\ store'[q][j].timestamp <= now'
             /\ store'[q][j] # Absent =>
                  store'[q][j].version >= 1 /\ Undefined \in history'[q][j]
  <2>1. CASE q = r /\ j = k
    <3>1. store'[q][j] = new
      BY <2>1, <1>4 DEF SyncTyped
    <3>2. history'[q][j] = history[r][k] \cup {Kept(store[r][k])}
      BY <2>1 DEF SyncTyped
    <3>3. Undefined \in history'[q][j]
      BY <3>2 DEF SyncStamped, Kept
    <3> QED BY <3>1, <3>3, <1>3
  <2>2. CASE ~(q = r /\ j = k)
    <3>1. store'[q][j] = store[q][j] /\ history'[q][j] = history[q][j]
      BY <2>2, <1>4 DEF SyncTyped
    <3> QED BY <3>1 DEF SyncStamped
  <2> QED BY <2>1, <2>2
<1>8. SyncTaken'
  <2>1. Replicas # {}
    OBVIOUS
  <2> QED BY <2>1 DEF SyncTaken
<1> QED BY <1>6, <1>7, <1>8 DEF SyncStamped

LEMMA SyncWrites ==
  ASSUME SyncInv, NEW r \in Replicas, NEW k \in Keys,
         \/ SetKey(r, k) \/ Rollback(r, k) \/ ResolveConflictManually(r, k)
  PROVE  SyncInv'
<1> USE DEF SyncInv
<1>1. \A f \in Fields : Object({f}) \in SyncValues
  BY DEF SyncValues
<1>2. \A old \in history[r][k] : old \in SyncValues
  BY DEF SyncTyped, SyncValues
<1>3. conflicts \in [Replicas -> SUBSET Keys]
  BY DEF SyncTyped
<1>4. CASE SetKey(r, k)
  BY <1>4, <1>1, <1>3, SyncWrite DEF SetKey
<1>5. CASE Rollback(r, k)
  BY <1>5, <1>2, <1>3, SyncWrite DEF Rollback
<1>6. CASE ResolveConflictManually(r, k)
  BY <1>6, <1>1, <1>3, SyncWrite DEF ResolveConflictManually
<1> QED BY <1>4, <1>5, <1>6

LEMMA SyncDelete ==
  ASSUME SyncInv, NEW r \in Replicas, NEW k \in Keys, Delete(r, k)
  PROVE  SyncInv'
<1> USE DEF SyncInv, Delete
<1>1. Absent \in SyncEntries /\ Absent.timestamp = 0
  BY StoresAssumption DEF SyncEntries, Absent, SyncValues
<1>2. SyncTyped'
  BY <1>1 DEF SyncTyped
<1>3. ASSUME NEW q \in Replicas, NEW j \in Keys
      PROVE  store'[q][j] = store[q][j] \/ store'[q][j] = Absent
  BY DEF SyncTyped
<1>4. SyncStamped'
  BY <1>1, <1>3 DEF SyncStamped, SyncTyped
<1>5. SyncTaken'
  <2>1. Replicas # {}
    OBVIOUS
  <2> QED BY <2>1 DEF SyncTaken
<1> QED BY <1>2, <1>4, <1>5

(* A sync takes the other's entries in, and makes the two agree when the   *)
(* other had taken in this one's.                                          *)
LEMMA SyncSyncs ==
  ASSUME SyncInv, NEW r \in Replicas, SyncWithRemote(r, store[Peer(r)])
  PROVE  SyncInv'
<1> USE DEF SyncInv
<1> DEFINE p == Peer(r)
           merged(k) == Merged(store[r][k], store[p][k])
<1>1. p \in Replicas /\ p # r /\ Peer(p) = r /\ Replicas = {r, p}
  BY Peers, StoresAssumption
<1> HIDE DEF p
<1>2. /\ \A k \in Keys : store[r][k].version < MaxVersion
      /\ store' = [store EXCEPT ![r] = [k \in Keys |-> merged(k)]]
      /\ synced' = synced \cup {r}
      /\ strategy' = strategy /\ now' = now
  BY DEF SyncWithRemote, p
<1>3. history' = [history EXCEPT ![r] = [k \in Keys |->
        IF store'[r][k] # store[r][k] THEN history[r][k] \cup {Kept(store[r][k])} ELSE history[r][k]]]
  BY DEF SyncWithRemote
<1>4. tie' = (tie \/ \E k \in Keys : /\ store[r][k].timestamp = store[p][k].timestamp
                                     /\ store[r][k].value # store[p][k].value)
  BY DEF SyncWithRemote, p
<1>5. conflicts' \in [Replicas -> SUBSET Keys]
  BY DEF SyncWithRemote, SyncTyped
<1>6. /\ now \in 1..MaxTime /\ strategy \in Strategies
      /\ \A k \in Keys : store[r][k] \in SyncEntries /\ store[p][k] \in SyncEntries
      /\ \A k \in Keys : store[r][k].timestamp <= now /\ store[p][k].timestamp <= now
  BY <1>1 DEF SyncTyped, SyncStamped
<1>7. ASSUME NEW k \in Keys
      PROVE  /\ merged(k) \in SyncEntries /\ merged(k).timestamp <= now
             /\ merged(k) # store[r][k] => merged(k) # Absent /\ merged(k).version >= 1
  BY <1>2, <1>6, MergedTyped
<1> HIDE DEF merged
<1>8. \A k \in Keys : store'[r][k] = merged(k) /\ store'[p][k] = store[p][k]
  BY <1>1, <1>2 DEF SyncTyped
<1>9. SyncTyped'
  <2>1. [k \in Keys |-> merged(k)] \in [Keys -> SyncEntries]
    BY <1>7
  <2>2. store' \in [Replicas -> [Keys -> SyncEntries]]
    BY <2>1, <1>2 DEF SyncTyped
  <2>3. \A k \in Keys : Kept(store[r][k]) \in {Undefined, Object({"entry"})}
    BY DEF Kept
  <2>4. history' \in [Replicas -> [Keys -> SUBSET {Undefined, Object({"entry"})}]]
    BY <2>3, <1>3 DEF SyncTyped
  <2>5. tie' \in BOOLEAN
    BY <1>4
  <2> QED BY <2>2, <2>4, <2>5, <1>2, <1>5 DEF SyncTyped
<1>10. SyncStamped'
  <2>1. ASSUME NEW k \in Keys
        PROVE  /\ store'[r][k].timestamp <= now'
               /\ store'[r][k] # Absent =>
                    store'[r][k].version >= 1 /\ Undefined \in history'[r][k]
    <3>1. CASE merged(k) = store[r][k]
      <4>1. store'[r][k] = store[r][k] /\ history'[r][k] = history[r][k]
        BY <3>1, <1>8, <1>3 DEF SyncTyped
      <4> QED BY <4>1, <1>2 DEF SyncStamped
    <3>2. CASE merged(k) # store[r][k]
      <4>1. store'[r][k] = merged(k) /\ history'[r][k] = history[r][k] \cup {Kept(store[r][k])}
        BY <3>2, <1>8, <1>3 DEF SyncTyped
      <4>2. Undefined \in history'[r][k]
        BY <4>1 DEF SyncStamped, Kept
      <4> QED BY <4>1, <4>2, <3>2, <1>2, <1>7
    <3> QED BY <3>1, <3>2
  <2>2. ASSUME NEW k \in Keys
        PROVE  /\ store'[p][k].timestamp <= now'
               /\ store'[p][k] # Absent =>
                    store'[p][k].version >= 1 /\ Undefined \in history'[p][k]
    <3>1. store'[p][k] = store[p][k] /\ history'[p][k] = history[p][k]
      BY <1>1, <1>8, <1>3 DEF SyncTyped
    <3> QED BY <3>1, <1>1, <1>2 DEF SyncStamped
  <2> QED BY <2>1, <2>2, <1>1 DEF SyncStamped
<1>11. ASSUME ~tie', strategy' # "MANUAL"
       PROVE  /\ \A q \in synced', k \in Keys : Taken(store'[q][k], store'[Peer(q)][k])
              /\ synced' = Replicas =>
                   \A q \in Replicas, k \in Keys : Agreed(store'[q][k], store'[Peer(q)][k])
  <2>1. /\ ~tie /\ strategy # "MANUAL"
        /\ \A k \in Keys : store[r][k].timestamp = store[p][k].timestamp => store[r][k].value = store[p][k].value
    BY <1>2, <1>4, <1>11
  <2>2. \A k \in Keys : Taken(merged(k), store[p][k])
    BY <2>1, <1>2, <1>6, MergedTakes DEF merged
  <2>3. Peer(r) = p
    BY DEF p
  <2>4. ASSUME p \in synced, NEW k \in Keys PROVE Agreed(merged(k), store[p][k])
    <3>1. Taken(store[p][k], store[r][k])
      BY <2>1, <2>4, <1>1 DEF SyncTaken
    <3> QED BY <3>1, <2>1, <1>2, <1>6, MergedAgrees DEF merged
  <2>5. CASE p \in synced
    <3>1. ASSUME NEW q \in Replicas, NEW k \in Keys
          PROVE  /\ Agreed(store'[q][k], store'[Peer(q)][k])
                 /\ Taken(store'[q][k], store'[Peer(q)][k])
      <4>1. Agreed(merged(k), store[p][k]) /\ store'[r][k] = merged(k) /\ store'[p][k] = store[p][k]
        BY <2>4, <2>5, <1>8
      <4>2. Agreed(store'[r][k], store'[p][k])
        BY <4>1
      <4>3. /\ Agreed(store'[p][k], store'[r][k]) /\ Taken(store'[r][k], store'[p][k])
            /\ Taken(store'[p][k], store'[r][k])
        BY <4>2, AgreedTaken
      <4>4. CASE q = r
        BY <4>2, <4>3, <4>4, <2>3
      <4>5. CASE q = p
        BY <4>2, <4>3, <4>5, <1>1
      <4> QED BY <4>4, <4>5, <1>1
    <3>2. synced' \subseteq Replicas
      BY <1>2 DEF SyncTyped
    <3> QED BY <3>1, <3>2
  <2>6. CASE p \notin synced
    <3>1. synced' = {r} /\ synced' # Replicas
      BY <2>6, <1>1, <1>2 DEF SyncTyped
    <3>2. \A k \in Keys : Taken(store'[r][k], store'[p][k])
      BY <2>2, <1>8
    <3> QED BY <3>1, <3>2, <2>3
  <2> QED BY <2>5, <2>6
<1>12. SyncTaken'
  BY <1>11, Zenon DEF SyncTaken
<1> QED BY <1>9, <1>10, <1>12

LEMMA SyncTick == ASSUME SyncInv, Tick PROVE SyncInv'
<1> USE StoresAssumption DEF SyncInv, Tick
<1>1. SyncTyped'
  BY DEF SyncTyped
<1>2. now' = now + 1 /\ now \in Nat
  BY DEF SyncTyped
<1>3. ASSUME NEW q \in Replicas, NEW j \in Keys PROVE store[q][j].timestamp <= now'
  BY <1>2 DEF SyncStamped, SyncTyped, SyncEntries
<1>4. SyncStamped'
  BY <1>3 DEF SyncStamped
<1>5. store' = store /\ strategy' = strategy /\ synced' = synced /\ tie' = tie
  OBVIOUS
<1>6. SyncTaken'
  <2> HIDE DEF Tick
  <2> QED BY <1>5, Zenon DEF SyncTaken
<1> QED BY <1>1, <1>4, <1>6

LEMMA SyncStill == ASSUME SyncInv, UNCHANGED storesVars PROVE SyncInv'
BY DEF storesVars, SyncInv, SyncTyped, SyncStamped, SyncTaken, Taken, Agreed, Peer

LEMMA SyncStep ==
  ASSUME SyncInv, [StoresNext]_storesVars
  PROVE  SyncInv'
<1>1. CASE UNCHANGED storesVars
  BY <1>1, SyncStill
<1>2. CASE StoresNext
  BY <1>2, SyncWrites, SyncDelete, SyncSyncs, SyncTick, SyncStill DEF StoresNext, Read
<1> QED BY <1>1, <1>2

LEMMA SyncAgrees ==
  ASSUME SyncInv
  PROVE  StoresTyped /\ SyncedStoresAgree
<1> USE DEF SyncInv
<1>1. StoresTyped
  BY DEF SyncTyped, SyncEntries, SyncValues, StoresTyped, Data
<1>2. ASSUME synced = Replicas, ~tie, strategy # "MANUAL", NEW r \in Replicas
      PROVE  /\ \A k \in Keys : Get(r, k) = Get(Peer(r), k)
             /\ ComputeChecksum(r) = ComputeChecksum(Peer(r))
             /\ Statistics(r).totalKeys = Statistics(Peer(r)).totalKeys
  <2>1. \A k \in Keys : Agreed(store[r][k], store[Peer(r)][k])
    BY <1>2 DEF SyncTaken
  <2>2. \A k \in Keys : Get(r, k) = Get(Peer(r), k)
    BY <2>1 DEF Agreed, Get
  <2>3. {x \in Keys : store[r][x] # Absent} = {x \in Keys : store[Peer(r)][x] # Absent}
    BY <2>1 DEF Agreed
  <2>4. ComputeChecksum(r) = ComputeChecksum(Peer(r))
    BY <2>2, <2>3 DEF ComputeChecksum
  <2> QED BY <2>2, <2>4 DEF Statistics
<1>3. \A r \in Replicas, k \in Keys :
        VersionHistory(r, k) \subseteq {Undefined, Object({"entry"})}
  BY DEF SyncTyped, VersionHistory
<1>4. ASSUME NEW r \in Replicas, ChecksumThrows(r)
      PROVE  \E k \in Keys : Get(r, k) = Undefined /\ Undefined \in VersionHistory(r, k)
  BY <1>4 DEF ChecksumThrows, SyncStamped, VersionHistory
<1> QED BY <1>1, <1>2, <1>3, <1>4 DEF SyncedStoresAgree

(* SyncedStoresAgree and the types, for any two stores, keys and values.   *)
THEOREM StoresAgree == StoresSpec => [](StoresTyped /\ SyncedStoresAgree)
<1>1. StoresInit => SyncInv
  BY SyncInit
<1>2. SyncInv /\ [StoresNext]_storesVars => SyncInv'
  BY SyncStep
<1>3. SyncInv => StoresTyped /\ SyncedStoresAgree
  BY SyncAgrees
<1> QED BY <1>1, <1>2, <1>3, PTL DEF StoresSpec

----------------------------------------------------------------------------
(****************************************************************************)
(* The accounts: one for a name and for an email, whatever overlaps, and    *)
(* passwords replaced by those who knew one.                                *)
(****************************************************************************)

Rows == [name : Names, email : Emails, password : Passwords, active : BOOLEAN]

(* An account has as many passwords in its history as it has had, the last *)
(* of which it has.                                                        *)
Paired ==
  /\ Len(changes) = Len(users)
  /\ \A u \in DOMAIN users : Len(changes[u]) >= 1 /\ users[u].password = changes[u][Len(changes[u])]

Distinct ==
  \A u, v \in DOMAIN users : u # v => users[u].name # users[v].name /\ users[u].email # users[v].email

(* What a request has found: its account, and that the password it was     *)
(* given is one the account has had, before the one it wrote.              *)
RequestSound(q) ==
  /\ q.kind \in {"password", "profile"} \/ q.pc \in {"verified", "201"} => q.id \in DOMAIN users
  /\ q.kind = "password" /\ q.pc = "verified" =>
       \E i \in 1..Len(changes[q.id]) : changes[q.id][i] = q.password
  /\ q.kind = "password" /\ q.pc = "200" =>
       \E i \in 1..(Len(changes[q.id]) - 1) : changes[q.id][i] = q.password

(* Every account was made by one request.                                  *)
MadeByOne ==
  /\ \A r, q \in DOMAIN requests :
       r # q /\ requests[r].pc = "201" /\ requests[q].pc = "201" => requests[r].id # requests[q].id
  /\ \A u \in DOMAIN users : \E r \in DOMAIN requests : requests[r].pc = "201" /\ requests[r].id = u

SigningInv ==
  /\ AccountsTyped
  /\ Paired
  /\ Distinct
  /\ \A r \in DOMAIN requests : RequestSound(requests[r])
  /\ MadeByOne

(* Sequences that get one more element, and those that get another one.    *)
LEMMA Longer ==
  ASSUME NEW S, NEW s \in Seq(S), NEW x \in S
  PROVE  /\ Append(s, x) \in Seq(S)
         /\ Len(Append(s, x)) = Len(s) + 1 /\ Len(s) \in Nat
         /\ DOMAIN Append(s, x) = DOMAIN s \cup {Len(s) + 1} /\ DOMAIN s = 1..Len(s)
         /\ Len(s) + 1 \notin DOMAIN s
         /\ \A i \in DOMAIN s : Append(s, x)[i] = s[i] /\ s[i] \in S
         /\ Append(s, x)[Len(s) + 1] = x
BY SMTT(20)

LEMMA Replaced ==
  ASSUME NEW S, NEW s \in Seq(S), NEW r \in DOMAIN s, NEW x \in S
  PROVE  /\ [s EXCEPT ![r] = x] \in Seq(S)
         /\ DOMAIN [s EXCEPT ![r] = x] = DOMAIN s
         /\ Len([s EXCEPT ![r] = x]) = Len(s)
         /\ [s EXCEPT ![r] = x][r] = x
         /\ \A i \in DOMAIN s : i # r => [s EXCEPT ![r] = x][i] = s[i]
BY SMTT(20)

LEMMA SigningInit == ASSUME AccountsInit PROVE SigningInv
<1> USE DEF AccountsInit
<1>1. DOMAIN users = {} /\ DOMAIN requests = {}
  OBVIOUS
<1>2. AccountsTyped
  BY <1>1 DEF AccountsTyped
<1>3. Paired
  BY <1>1 DEF Paired
<1> QED BY <1>1, <1>2, <1>3 DEF SigningInv, Distinct, MadeByOne

(* A request that arrives has found nothing yet, but its sender's token.   *)
LEMMA Arrives ==
  ASSUME SigningInv, NEW q \in Request, RequestSound(q), q.pc # "201",
         requests' = Append(requests, q), UNCHANGED <<users, tokens, changes>>
  PROVE  SigningInv'
<1> USE DEF SigningInv
<1>1. requests \in Seq(Request)
  BY DEF AccountsTyped
<1>2. /\ requests' \in Seq(Request)
      /\ DOMAIN requests' = DOMAIN requests \cup {Len(requests) + 1}
      /\ \A r \in DOMAIN requests : requests'[r] = requests[r]
      /\ requests'[Len(requests) + 1] = q
  BY <1>1, Longer
<1>3. AccountsTyped'
  BY <1>2 DEF AccountsTyped
<1>4. Paired' /\ Distinct'
  BY DEF Paired, Distinct
<1>5. ASSUME NEW r \in DOMAIN requests' PROVE RequestSound(requests'[r])
  <2>1. CASE r \in DOMAIN requests
    BY <2>1, <1>2
  <2>2. CASE r = Len(requests) + 1
    BY <2>2, <1>2
  <2> QED BY <2>1, <2>2, <1>2
<1>6. (\A r \in DOMAIN requests : RequestSound(requests[r]))'
  BY <1>5 DEF RequestSound
<1>7. MadeByOne'
  BY <1>2 DEF MadeByOne
<1> QED BY <1>3, <1>4, <1>6, <1>7

(* A request that moves on, and makes no account.                          *)
LEMMA MovesOn ==
  ASSUME SigningInv, NEW r \in DOMAIN requests, NEW q \in Request, RequestSound(q),
         q.pc # "201", requests[r].pc # "201",
         requests' = [requests EXCEPT ![r] = q], tokens' \subseteq DOMAIN users,
         UNCHANGED <<users, changes>>
  PROVE  SigningInv'
<1> USE DEF SigningInv
<1>1. requests \in Seq(Request)
  BY DEF AccountsTyped
<1>2. /\ requests' \in Seq(Request)
      /\ DOMAIN requests' = DOMAIN requests
      /\ \A i \in DOMAIN requests : i # r => requests'[i] = requests[i]
      /\ requests'[r] = q
  BY <1>1, Replaced
<1>3. AccountsTyped'
  BY <1>2 DEF AccountsTyped
<1>4. Paired' /\ Distinct'
  BY DEF Paired, Distinct
<1>5. \A i \in DOMAIN requests' : RequestSound(requests'[i])
  BY <1>2
<1>6. (\A i \in DOMAIN requests : RequestSound(requests[i]))'
  BY <1>5 DEF RequestSound
<1>7. MadeByOne'
  BY <1>2 DEF MadeByOne
<1> QED BY <1>3, <1>4, <1>6, <1>7

LEMMA Typed ==
  ASSUME SigningInv, NEW r \in DOMAIN requests
  PROVE  requests[r] \in Request /\ RequestSound(requests[r])
BY DEF SigningInv, AccountsTyped

LEMMA SigningArrive ==
  ASSUME SigningInv,
         \/ \E name \in Names, email \in Emails, p \in Passwords : Register(name, email, p)
         \/ \E name \in Names, p \in Passwords : Login(name, p)
         \/ \E id \in tokens, p \in Passwords, new \in Passwords : ChangePassword(id, p, new)
         \/ \E id \in tokens, email \in Emails : UpdateProfile(id, email)
  PROVE  SigningInv'
<1>1. Some(Names) \in Names /\ Some(Emails) \in Emails /\ Some(Passwords) \in Passwords
  BY AccountsAssumption DEF Some
<1>2. tokens \subseteq DOMAIN users /\ \A u \in DOMAIN users : u \in Nat
  BY DEF SigningInv, AccountsTyped
<1>3. ASSUME NEW asks \in {"register", "login", "password", "profile"}, NEW name \in Names,
             NEW email \in Emails, NEW p \in Passwords, NEW new \in Passwords,
             NEW id \in Nat, NEW pc \in {"name", "write"},
             asks \in {"password", "profile"} => id \in DOMAIN users,
             Arrive(asks, name, email, p, new, id, pc)
      PROVE  SigningInv'
  <2> DEFINE q == [kind |-> asks, name |-> name, email |-> email, password |-> p, new |-> new,
                   id |-> id, pc |-> pc]
  <2>1. q \in Request
    BY DEF Request
  <2>2. RequestSound(q) /\ q.pc # "201"
    BY <1>3 DEF RequestSound
  <2>3. requests' = Append(requests, q) /\ UNCHANGED <<users, tokens, changes>>
    BY <1>3 DEF Arrive
  <2> QED BY <2>1, <2>2, <2>3, Arrives
<1>4. CASE \E name \in Names, email \in Emails, p \in Passwords : Register(name, email, p)
  BY <1>3, <1>4 DEF Register, Nobody
<1>5. CASE \E name \in Names, p \in Passwords : Login(name, p)
  BY <1>1, <1>3, <1>5 DEF Login, Nobody
<1>6. CASE \E id \in tokens, p \in Passwords, new \in Passwords : ChangePassword(id, p, new)
  BY <1>1, <1>2, <1>3, <1>6 DEF ChangePassword
<1>7. CASE \E id \in tokens, email \in Emails : UpdateProfile(id, email)
  BY <1>1, <1>2, <1>3, <1>7 DEF UpdateProfile
<1> QED BY <1>4, <1>5, <1>6, <1>7

(* The steps of a request before it writes, and those that fail.           *)
LEMMA Goes ==
  ASSUME SigningInv, NEW r \in DOMAIN requests, NEW pc \in {"email", "write", "200", "401", "409", "500"},
         requests[r].pc # "201", requests[r].kind = "password" => pc # "200",
         Goto(r, pc), tokens' \subseteq DOMAIN users, UNCHANGED <<users, changes>>
  PROVE  SigningInv'
<1> DEFINE q == [requests[r] EXCEPT !.pc = pc]
<1>1. requests[r] \in Request /\ RequestSound(requests[r])
  BY Typed
<1>2. q \in Request
  BY <1>1 DEF Request
<1>3. q.kind = requests[r].kind /\ q.id = requests[r].id /\ q.pc = pc
  BY <1>1 DEF Request
<1>4. requests' = [requests EXCEPT ![r] = q]
  BY DEF Goto
<1> HIDE DEF q
<1>5. RequestSound(q)
  BY <1>1, <1>3 DEF RequestSound
<1> QED BY <1>2, <1>3, <1>4, <1>5, MovesOn

LEMMA Finds ==
  ASSUME SigningInv, NEW r \in DOMAIN requests, FindName(r) \/ FindEmail(r)
  PROVE  SigningInv'
<1>1. tokens' \subseteq DOMAIN users /\ UNCHANGED <<users, changes>>
  BY DEF FindName, FindEmail, SigningInv, AccountsTyped
<1>2. CASE FindName(r)
  <2>1. requests[r].kind # "password" /\ requests[r].pc # "201"
    BY <1>2 DEF FindName, At
  <2>2. Goto(r, "409") \/ Goto(r, "email")
    BY <1>2 DEF FindName
  <2> QED BY <2>1, <2>2, <1>1, Goes
<1>3. CASE FindEmail(r)
  <2>1. requests[r].kind # "password" /\ requests[r].pc # "201"
    BY <1>3 DEF FindEmail, At
  <2>2. Goto(r, "409") \/ Goto(r, "write")
    BY <1>3 DEF FindEmail
  <2> QED BY <2>1, <2>2, <1>1, Goes
<1> QED BY <1>2, <1>3

(* The active user that has a name or an email is the one that is found.   *)
LEMMA Found ==
  ASSUME users \in Seq(Rows), Distinct, NEW field \in {"name", "email"}, NEW value
  PROVE  /\ FindBy(field, value) # 0 =>
              /\ FindBy(field, value) \in DOMAIN users
              /\ users[FindBy(field, value)].active
         /\ \A u \in DOMAIN users : users[u][field] = value =>
              (FindBy(field, value) = u <=> users[u].active)
<1> DEFINE found == {u \in DOMAIN users : users[u].active /\ users[u][field] = value}
<1>1. FindBy(field, value) = IF found = {} THEN 0 ELSE CHOOSE u \in found : TRUE
  BY DEF FindBy, Nobody
<1>2. 0 \notin DOMAIN users /\ \A u \in DOMAIN users : u \in Nat
  OBVIOUS
<1>3. \A u, v \in found : u = v
  BY DEF Distinct
<1>4. found # {} => (CHOOSE u \in found : TRUE) \in found
  OBVIOUS
<1>5. ASSUME NEW u \in DOMAIN users, users[u][field] = value
      PROVE  FindBy(field, value) = u <=> users[u].active
  <2>1. CASE users[u].active
    <3>1. u \in found
      BY <1>5, <2>1
    <3> QED BY <3>1, <2>1, <1>1, <1>3, <1>4
  <2>2. CASE ~users[u].active
    <3>1. u \notin found
      BY <2>2
    <3>2. FindBy(field, value) # u
      BY <3>1, <1>1, <1>2, <1>4
    <3> QED BY <3>2, <2>2
  <2> QED BY <2>1, <2>2
<1>6. FindBy(field, value) # 0 => FindBy(field, value) \in found
  BY <1>1, <1>4
<1> QED BY <1>5, <1>6

(* The password that is right is the last of its account.                  *)
LEMMA Verifies ==
  ASSUME SigningInv, NEW r \in DOMAIN requests, Verify(r)
  PROVE  SigningInv'
<1> DEFINE q == requests[r]
           id == IF q.kind = "login" THEN FindBy("name", q.name)
                 ELSE IF users[q.id].active THEN q.id ELSE Nobody
           new == IF id = Nobody THEN q.id ELSE id
           pc == IF id = Nobody THEN (IF q.kind = "login" THEN "401" ELSE "500")
                 ELSE IF users[id].password = q.password THEN "verified" ELSE "401"
           next == [q EXCEPT !.id = new, !.pc = pc]
<1>1. /\ q.kind \in {"login", "password"} /\ q.pc = "name"
      /\ requests' = [requests EXCEPT ![r] = next]
      /\ UNCHANGED <<users, tokens, changes>>
  BY DEF Verify
<1>2. q \in Request /\ RequestSound(q)
  BY Typed
<1>3. users \in Seq(Rows) /\ Distinct /\ tokens \subseteq DOMAIN users
      /\ \A u \in DOMAIN users : u \in Nat /\ u # 0
  BY DEF SigningInv, AccountsTyped, Rows
<1>4. q.kind = "password" => q.id \in DOMAIN users
  BY <1>2 DEF RequestSound
<1>5. id # Nobody => id \in DOMAIN users
  BY <1>1, <1>3, <1>4, Found DEF Nobody
<1>6. q.kind = "password" => new = q.id
  OBVIOUS
<1>7. new \in Nat /\ pc \in {"401", "500", "verified"}
      /\ (pc = "verified" => new = id /\ id \in DOMAIN users /\ users[id].password = q.password)
  BY <1>2, <1>3, <1>5 DEF Request, Nobody
<1> HIDE DEF new, pc, id
<1>8. next \in Request /\ next.kind = q.kind /\ next.id = new /\ next.pc = pc
      /\ next.password = q.password
  BY <1>2, <1>7 DEF Request
<1> HIDE DEF next
<1>9. ASSUME pc = "verified" PROVE \E i \in 1..Len(changes[new]) : changes[new][i] = q.password
  <2>1. new \in DOMAIN users /\ users[new].password = q.password
    BY <1>7, <1>9
  <2>2. Len(changes[new]) >= 1 /\ changes[new][Len(changes[new])] = q.password
    BY <2>1 DEF SigningInv, Paired
  <2>3. changes[new] \in Seq(Passwords)
    <3>1. DOMAIN changes = DOMAIN users /\ changes \in Seq(Seq(Passwords))
      BY DEF SigningInv, Paired, AccountsTyped
    <3> QED BY <3>1, <2>1
  <2>4. Len(changes[new]) \in 1..Len(changes[new])
    BY <2>2, <2>3
  <2> QED BY <2>2, <2>4
<1>10. RequestSound(next)
  BY <1>1, <1>4, <1>6, <1>7, <1>8, <1>9 DEF RequestSound
<1>11. next.pc # "201" /\ requests[r].pc # "201"
  BY <1>1, <1>7, <1>8
<1> QED BY <1>1, <1>3, <1>8, <1>10, <1>11, MovesOn

LEMMA Issues ==
  ASSUME SigningInv, NEW r \in DOMAIN requests, IssueToken(r)
  PROVE  SigningInv'
<1>1. /\ requests[r].kind = "login" /\ requests[r].pc = "verified" /\ Goto(r, "200")
      /\ tokens' = tokens \cup {requests[r].id} /\ UNCHANGED <<users, changes>>
  BY DEF IssueToken, At
<1>2. requests[r].id \in DOMAIN users
  BY <1>1, Typed DEF RequestSound
<1>3. tokens' \subseteq DOMAIN users
  BY <1>1, <1>2 DEF SigningInv, AccountsTyped
<1> QED BY <1>1, <1>3, Goes

(* What requests have found stays found when accounts are added, and their *)
(* histories grow.                                                         *)
LEMMA StaysFound ==
  ASSUME DOMAIN users \subseteq DOMAIN users',
         \A u \in DOMAIN users : /\ Len(changes[u]) \in Nat /\ Len(changes'[u]) \in Nat
                                 /\ Len(changes[u]) <= Len(changes'[u])
                                 /\ \A i \in 1..Len(changes[u]) : changes'[u][i] = changes[u][i],
         NEW q, RequestSound(q), q.kind = "password" => q.id \in DOMAIN users
  PROVE  RequestSound(q)'
<1>1. CASE q.kind = "password"
  <2>1. /\ 1..Len(changes[q.id]) \subseteq 1..Len(changes'[q.id])
        /\ 1..(Len(changes[q.id]) - 1) \subseteq 1..(Len(changes'[q.id]) - 1)
        /\ 1..(Len(changes[q.id]) - 1) \subseteq 1..Len(changes[q.id])
    BY <1>1
  <2>2. \A i \in 1..Len(changes[q.id]) : changes'[q.id][i] = changes[q.id][i]
    BY <1>1
  <2> QED BY <1>1, <2>1, <2>2 DEF RequestSound
<1>2. CASE q.kind # "password"
  BY <1>2 DEF RequestSound
<1> QED BY <1>1, <1>2

(* A new account: the only one with its name and its email, since the      *)
(* table refuses another, and the only one of its request.                 *)
LEMMA Creates ==
  ASSUME SigningInv, NEW r \in DOMAIN requests, CreateUser(r)
  PROVE  SigningInv'
<1> DEFINE q == requests[r]
           row == [name |-> q.name, email |-> q.email, password |-> q.password, active |-> TRUE]
           n == Len(users) + 1
           made == [q EXCEPT !.pc = "201", !.id = n]
<1>1. q.kind = "register" /\ q.pc = "write"
  BY DEF CreateUser, At
<1>2. /\ q \in Request /\ RequestSound(q)
      /\ users \in Seq(Rows) /\ changes \in Seq(Seq(Passwords)) /\ requests \in Seq(Request)
      /\ tokens \subseteq DOMAIN users /\ Len(users) \in Nat
  BY Typed DEF SigningInv, AccountsTyped, Rows
<1>3. CASE ~Unique(q.name, q.email)
  <2>1. Goto(r, "500") /\ UNCHANGED <<users, tokens, changes>>
    BY <1>3 DEF CreateUser
  <2> QED BY <2>1, <1>1, <1>2, Goes
<1>4. CASE Unique(q.name, q.email)
  <2>1. /\ users' = Append(users, row) /\ changes' = Append(changes, <<q.password>>)
        /\ requests' = [requests EXCEPT ![r] = made] /\ tokens' = tokens \cup {n}
    BY <1>4 DEF CreateUser
  <2>2. row \in Rows /\ row.name = q.name /\ row.email = q.email /\ row.password = q.password
    BY <1>2 DEF Rows, Request
  <2>3. made \in Request /\ made.kind = q.kind /\ made.id = n /\ made.pc = "201"
    <3>1. n \in Nat /\ q \in Request
      BY <1>2
    <3> HIDE DEF n, q
    <3> QED BY <3>1 DEF Request
  <2>4. <<q.password>> \in Seq(Passwords) /\ Len(<<q.password>>) = 1 /\ <<q.password>>[1] = q.password
    BY <1>2 DEF Request
  <2> HIDE DEF row, made
  <2>5. /\ users' \in Seq(Rows) /\ Len(users') = n
        /\ DOMAIN users' = DOMAIN users \cup {n} /\ DOMAIN users = 1..Len(users) /\ n \notin DOMAIN users
        /\ \A u \in DOMAIN users : users'[u] = users[u]
        /\ users'[n] = row
    BY <2>1, <2>2, <1>2, Longer
  <2>6. Len(changes) = Len(users) /\ DOMAIN changes = 1..Len(changes)
    BY <1>2 DEF SigningInv, Paired
  <2>7. /\ changes' \in Seq(Seq(Passwords)) /\ Len(changes') = n
        /\ \A u \in DOMAIN users : changes'[u] = changes[u] /\ changes[u] \in Seq(Passwords)
        /\ changes'[n] = <<q.password>>
    BY <2>1, <2>4, <2>5, <2>6, <1>2, Longer
  <2>8. /\ requests' \in Seq(Request) /\ DOMAIN requests' = DOMAIN requests
        /\ \A i \in DOMAIN requests : i # r => requests'[i] = requests[i]
        /\ requests'[r] = made
    BY <2>1, <2>3, <1>2, Replaced
  <2>9. AccountsTyped'
    BY <2>1, <2>5, <2>7, <2>8, <1>2 DEF AccountsTyped, Rows
  <2>10. Paired'
    <3>1. ASSUME NEW u \in DOMAIN users'
          PROVE  Len(changes'[u]) >= 1 /\ users'[u].password = changes'[u][Len(changes'[u])]
      <4>1. CASE u \in DOMAIN users
        BY <4>1, <2>5, <2>7 DEF SigningInv, Paired
      <4>2. CASE u = n
        BY <4>2, <2>2, <2>4, <2>5, <2>7
      <4> QED BY <4>1, <4>2, <2>5
    <3> QED BY <3>1, <2>5, <2>7 DEF Paired
  <2>11. Distinct'
    <3>1. \A u \in DOMAIN users : users[u].name # q.name /\ users[u].email # q.email
      BY <1>4 DEF Unique
    <3>2. ASSUME NEW u \in DOMAIN users', NEW v \in DOMAIN users', u # v
          PROVE  users'[u].name # users'[v].name /\ users'[u].email # users'[v].email
      <4>1. CASE u \in DOMAIN users /\ v \in DOMAIN users
        BY <4>1, <3>2, <2>5 DEF SigningInv, Distinct
      <4>2. CASE u = n /\ v \in DOMAIN users
        BY <4>2, <3>1, <2>2, <2>5
      <4>3. CASE v = n /\ u \in DOMAIN users
        BY <4>3, <3>1, <2>2, <2>5
      <4> QED BY <4>1, <4>2, <4>3, <3>2, <2>5
    <3> QED BY <3>2 DEF Distinct
  <2>12. ASSUME NEW i \in DOMAIN requests', NEW p, p = requests'[i] PROVE RequestSound(p)'
    <3>1. CASE i = r
      <4>1. p.id \in DOMAIN users' /\ p.kind = "register" /\ p.pc = "201"
        BY <3>1, <2>3, <2>5, <2>8, <2>12, <1>1
      <4> QED BY <4>1 DEF RequestSound
    <3>2. CASE i # r
      <4>1. p = requests[i] /\ RequestSound(requests[i])
        BY <3>2, <2>8, <2>12 DEF SigningInv
      <4>2. RequestSound(p)
        BY <4>1
      <4>3. p.kind = "password" => p.id \in DOMAIN users
        BY <4>2 DEF RequestSound
      <4>4. \A u \in DOMAIN users : Len(changes[u]) \in Nat /\ changes'[u] = changes[u]
        BY <2>7
      <4> QED BY <4>2, <4>3, <4>4, <2>5, StaysFound
    <3> QED BY <3>1, <3>2
  <2>13. (\A i \in DOMAIN requests : RequestSound(requests[i]))'
    BY <2>12 DEF RequestSound
  <2>14. \A i \in DOMAIN requests : requests[i].pc = "201" => requests[i].id \in DOMAIN users
    BY DEF SigningInv, RequestSound
  <2>15. MadeByOne'
    <3>1. ASSUME NEW i \in DOMAIN requests', NEW j \in DOMAIN requests', i # j,
                 requests'[i].pc = "201", requests'[j].pc = "201"
          PROVE  requests'[i].id # requests'[j].id
      <4>1. CASE i # r /\ j # r
        BY <4>1, <3>1, <2>8 DEF SigningInv, MadeByOne
      <4>2. CASE i = r
        BY <4>2, <3>1, <2>3, <2>5, <2>8, <2>14
      <4>3. CASE j = r
        BY <4>3, <3>1, <2>3, <2>5, <2>8, <2>14
      <4> QED BY <4>1, <4>2, <4>3
    <3>2. ASSUME NEW u \in DOMAIN users'
          PROVE  \E i \in DOMAIN requests' : requests'[i].pc = "201" /\ requests'[i].id = u
      <4>1. CASE u \in DOMAIN users
        <5>1. PICK i \in DOMAIN requests : requests[i].pc = "201" /\ requests[i].id = u
          BY <4>1 DEF SigningInv, MadeByOne
        <5> QED BY <5>1, <1>1, <2>8
      <4>2. CASE u = n
        BY <4>2, <2>3, <2>8
      <4> QED BY <4>1, <4>2, <2>5
    <3> QED BY <3>1, <3>2 DEF MadeByOne
  <2> QED BY <2>9, <2>10, <2>11, <2>13, <2>15 DEF SigningInv
<1> QED BY <1>3, <1>4

(* Rows that are rewritten by a request that is answered by 200, and       *)
(* histories that only grow.                                               *)
LEMMA Rewrites ==
  ASSUME SigningInv, NEW r \in DOMAIN requests, NEW q \in Request,
         requests' = [requests EXCEPT ![r] = q], q.pc # "201", requests[r].pc # "201",
         users' \in Seq(Rows), changes' \in Seq(Seq(Passwords)), DOMAIN users' = DOMAIN users,
         \A u \in DOMAIN users : /\ Len(changes[u]) <= Len(changes'[u])
                                 /\ \A i \in 1..Len(changes[u]) : changes'[u][i] = changes[u][i],
         Paired', Distinct', \A p : p = q => RequestSound(p)', UNCHANGED tokens
  PROVE  SigningInv'
<1>1. /\ requests \in Seq(Request) /\ tokens \subseteq DOMAIN users
      /\ \A u \in DOMAIN users : Len(changes[u]) \in Nat /\ Len(changes'[u]) \in Nat
  <2>1. DOMAIN changes = DOMAIN users /\ DOMAIN changes' = DOMAIN users
    <3>1. DOMAIN changes = 1..Len(changes) /\ DOMAIN users = 1..Len(users)
      BY DEF SigningInv, AccountsTyped
    <3>2. DOMAIN changes' = 1..Len(changes') /\ DOMAIN users' = 1..Len(users')
      OBVIOUS
    <3> QED BY <3>1, <3>2 DEF SigningInv, Paired
  <2> QED BY <2>1 DEF SigningInv, AccountsTyped
<1>2. /\ requests' \in Seq(Request)
      /\ DOMAIN requests' = DOMAIN requests
      /\ \A i \in DOMAIN requests : i # r => requests'[i] = requests[i]
      /\ requests'[r] = q
  BY <1>1, Replaced
<1>3. AccountsTyped'
  BY <1>1, <1>2 DEF AccountsTyped, Rows
<1>4. ASSUME NEW i \in DOMAIN requests', NEW p, p = requests'[i] PROVE RequestSound(p)'
  <2>1. CASE i = r
    BY <2>1, <1>2, <1>4
  <2>2. CASE i # r
    <3>1. p = requests[i] /\ RequestSound(requests[i])
      BY <2>2, <1>2, <1>4 DEF SigningInv
    <3>2. RequestSound(p)
      BY <3>1
    <3>3. p.kind = "password" => p.id \in DOMAIN users
      BY <3>2 DEF RequestSound
    <3> QED BY <3>2, <3>3, <1>1, StaysFound
  <2> QED BY <2>1, <2>2
<1>5. (\A i \in DOMAIN requests : RequestSound(requests[i]))'
  <2>1. ASSUME NEW i \in DOMAIN requests' PROVE RequestSound(requests[i])'
    <3>1. PICK p : p = requests'[i]
      OBVIOUS
    <3>2. RequestSound(p)'
      BY <1>4, <3>1
    <3> QED BY <3>1, <3>2 DEF RequestSound
  <2> QED BY <2>1
<1>6. MadeByOne'
  BY <1>2 DEF SigningInv, MadeByOne
<1> QED BY <1>3, <1>5, <1>6 DEF SigningInv

(* The new password is the last of the history, after the one that was     *)
(* verified, wherever that one is.                                         *)
LEMMA Changes ==
  ASSUME SigningInv, NEW r \in DOMAIN requests, UpdatePassword(r)
  PROVE  SigningInv'
<1> DEFINE q == requests[r]
           row == [users[q.id] EXCEPT !.password = q.new]
           next == [q EXCEPT !.pc = "200"]
           past == changes[q.id]
           longer == Append(past, q.new)
<1>1. /\ q.kind = "password" /\ q.pc = "verified"
      /\ requests' = [requests EXCEPT ![r] = next]
      /\ users' = [users EXCEPT ![q.id] = row]
      /\ changes' = [changes EXCEPT ![q.id] = longer]
      /\ UNCHANGED tokens
  BY DEF UpdatePassword, At, Goto
<1>2. /\ q \in Request /\ RequestSound(q)
      /\ users \in Seq(Rows) /\ changes \in Seq(Seq(Passwords))
  BY Typed DEF SigningInv, AccountsTyped, Rows
<1>3. q.id \in DOMAIN users /\ \E i \in 1..Len(past) : past[i] = q.password
  BY <1>1, <1>2 DEF RequestSound
<1>4. DOMAIN changes = DOMAIN users
  BY <1>2 DEF SigningInv, Paired
<1>5. past \in Seq(Passwords) /\ q.new \in Passwords /\ users[q.id] \in Rows
  BY <1>2, <1>3, <1>4 DEF Request
<1>6. row \in Rows /\ row.name = users[q.id].name /\ row.email = users[q.id].email /\ row.password = q.new
  BY <1>5 DEF Rows
<1>7. next \in Request /\ next.kind = q.kind /\ next.id = q.id /\ next.password = q.password
      /\ next.pc = "200"
  BY <1>2 DEF Request
<1>8. /\ longer \in Seq(Passwords) /\ Len(longer) = Len(past) + 1 /\ Len(past) \in Nat
      /\ longer[Len(past) + 1] = q.new
      /\ \A i \in 1..Len(past) : longer[i] = past[i]
  BY <1>5, Longer
<1> HIDE DEF row, next, longer
<1>9. /\ users' \in Seq(Rows) /\ DOMAIN users' = DOMAIN users /\ Len(users') = Len(users)
      /\ \A u \in DOMAIN users : u # q.id => users'[u] = users[u]
      /\ users'[q.id] = row
  BY <1>1, <1>2, <1>3, <1>6, Replaced
<1>10. /\ changes' \in Seq(Seq(Passwords)) /\ Len(changes') = Len(changes)
       /\ \A u \in DOMAIN users : u # q.id => changes'[u] = changes[u]
       /\ changes'[q.id] = longer
  BY <1>1, <1>2, <1>3, <1>4, <1>8, Replaced
<1>11. \A u \in DOMAIN users : /\ Len(changes[u]) <= Len(changes'[u])
                               /\ \A i \in 1..Len(changes[u]) : changes'[u][i] = changes[u][i]
  <2>1. ASSUME NEW u \in DOMAIN users
        PROVE  /\ Len(changes[u]) <= Len(changes'[u])
               /\ \A i \in 1..Len(changes[u]) : changes'[u][i] = changes[u][i]
    <3>1. CASE u = q.id
      <4>1. changes[u] = past /\ changes'[u] = longer
        BY <3>1, <1>10
      <4> HIDE DEF past
      <4>2. Len(past) <= Len(longer)
        BY <1>8
      <4> QED BY <4>1, <4>2, <1>8
    <3>2. CASE u # q.id
      <4>1. Len(changes[u]) \in Nat
        BY <1>2, <1>4
      <4> QED BY <4>1, <3>2, <1>10
    <3> QED BY <3>1, <3>2
  <2> QED BY <2>1
<1>12. Paired'
  <2>1. ASSUME NEW u \in DOMAIN users'
        PROVE  Len(changes'[u]) >= 1 /\ users'[u].password = changes'[u][Len(changes'[u])]
    <3>1. CASE u = q.id
      BY <3>1, <1>6, <1>8, <1>9, <1>10
    <3>2. CASE u # q.id
      BY <3>2, <1>9, <1>10 DEF SigningInv, Paired
    <3> QED BY <3>1, <3>2
  <2> QED BY <2>1, <1>9, <1>10 DEF SigningInv, Paired
<1>13. Distinct'
  <2>1. \A u \in DOMAIN users : users'[u].name = users[u].name /\ users'[u].email = users[u].email
    BY <1>6, <1>9
  <2> QED BY <2>1, <1>9 DEF SigningInv, Distinct
<1>14. ASSUME NEW p, p = next PROVE RequestSound(p)'
  <2>1. p.kind = "password" /\ p.pc = "200" /\ p.id = q.id /\ p.id \in DOMAIN users'
        /\ p.password = q.password
    BY <1>1, <1>3, <1>7, <1>9, <1>14
  <2>2. \E i \in 1..(Len(changes'[p.id]) - 1) : changes'[p.id][i] = p.password
    BY <2>1, <1>3, <1>8, <1>10
  <2> QED BY <2>1, <2>2 DEF RequestSound
<1>15. next.pc # "201" /\ q.pc # "201"
  BY <1>1, <1>7
<1> QED BY <1>1, <1>7, <1>9, <1>10, <1>11, <1>12, <1>13, <1>14, <1>15, Rewrites

(* A row that changes its email for one nobody else has, or its state.     *)
LEMMA SigningKept ==
  ASSUME SigningInv, NEW u \in DOMAIN users, NEW row \in Rows,
         users' = [users EXCEPT ![u] = row], UNCHANGED changes,
         row.name = users[u].name, row.password = users[u].password,
         \A v \in DOMAIN users : v # u => users[v].email # row.email
  PROVE  /\ users' \in Seq(Rows) /\ DOMAIN users' = DOMAIN users
         /\ Paired' /\ Distinct'
<1>1. users \in Seq(Rows)
  BY DEF SigningInv, AccountsTyped, Rows
<1>2. /\ users' \in Seq(Rows) /\ DOMAIN users' = DOMAIN users /\ Len(users') = Len(users)
      /\ \A v \in DOMAIN users : v # u => users'[v] = users[v]
      /\ users'[u] = row
  BY <1>1, Replaced
<1>3. Paired'
  BY <1>2 DEF SigningInv, Paired
<1>4. Distinct'
  <2>1. ASSUME NEW v \in DOMAIN users, NEW w \in DOMAIN users, v # w
        PROVE  users'[v].name # users'[w].name /\ users'[v].email # users'[w].email
    <3>1. CASE v # u /\ w # u
      BY <3>1, <2>1, <1>2 DEF SigningInv, Distinct
    <3>2. CASE v = u
      BY <3>2, <2>1, <1>2 DEF SigningInv, Distinct
    <3>3. CASE w = u
      BY <3>3, <2>1, <1>2 DEF SigningInv, Distinct
    <3> QED BY <3>1, <3>2, <3>3
  <2> QED BY <2>1, <1>2 DEF Distinct
<1> QED BY <1>2, <1>3, <1>4

LEMMA Profiles ==
  ASSUME SigningInv, NEW r \in DOMAIN requests, WriteProfile(r)
  PROVE  SigningInv'
<1> DEFINE q == requests[r]
           row == [users[q.id] EXCEPT !.email = q.email]
           next == [q EXCEPT !.pc = "200"]
           free == \A u \in DOMAIN users \ {q.id} : users[u].email # q.email
<1>1. q.kind = "profile" /\ q.pc = "write" /\ UNCHANGED <<tokens, changes>>
  BY DEF WriteProfile, At
<1>2. /\ q \in Request /\ RequestSound(q)
      /\ users \in Seq(Rows) /\ changes \in Seq(Seq(Passwords)) /\ tokens \subseteq DOMAIN users
  BY Typed DEF SigningInv, AccountsTyped, Rows
<1>3. q.id \in DOMAIN users
  BY <1>1, <1>2 DEF RequestSound
<1>4. CASE ~free
  <2>1. Goto(r, "500") /\ UNCHANGED users
    BY <1>4 DEF WriteProfile
  <2> QED BY <2>1, <1>1, <1>2, Goes
<1>5. CASE free
  <2>1. users' = [users EXCEPT ![q.id] = row] /\ requests' = [requests EXCEPT ![r] = next]
    BY <1>5 DEF WriteProfile, Goto
  <2>2. users[q.id] \in Rows /\ q.email \in Emails
    BY <1>2, <1>3 DEF Request
  <2>3. row \in Rows /\ row.name = users[q.id].name /\ row.password = users[q.id].password
        /\ row.email = q.email
    BY <2>2 DEF Rows
  <2>4. next \in Request /\ next.kind = q.kind /\ next.id = q.id /\ next.pc = "200"
    BY <1>2 DEF Request
  <2>5. \A v \in DOMAIN users : v # q.id => users[v].email # row.email
    BY <1>5, <2>3
  <2> HIDE DEF row, next, free
  <2>6. users' \in Seq(Rows) /\ DOMAIN users' = DOMAIN users /\ Paired' /\ Distinct'
    BY <1>1, <1>3, <2>1, <2>3, <2>5, SigningKept
  <2>7. ASSUME NEW p, p = next PROVE RequestSound(p)'
    <3>1. p.kind = "profile" /\ p.pc = "200" /\ p.id \in DOMAIN users'
      BY <2>4, <2>6, <2>7, <1>1, <1>3
    <3> QED BY <3>1 DEF RequestSound
  <2>8. next.pc # "201" /\ q.pc # "201"
    BY <1>1, <2>4
  <2>9. \A u \in DOMAIN users : /\ Len(changes[u]) <= Len(changes'[u])
                                /\ \A i \in 1..Len(changes[u]) : changes'[u][i] = changes[u][i]
    <3>1. DOMAIN changes = DOMAIN users
      BY <1>2 DEF SigningInv, Paired
    <3> QED BY <1>1, <1>2, <3>1
  <2> QED BY <1>1, <1>2, <2>1, <2>4, <2>6, <2>7, <2>8, <2>9, Rewrites
<1> QED BY <1>4, <1>5

LEMMA Deactivates ==
  ASSUME SigningInv, NEW u \in DOMAIN users, Deactivate(u)
  PROVE  SigningInv'
<1> DEFINE row == [users[u] EXCEPT !.active = FALSE]
<1>1. users' = [users EXCEPT ![u] = row] /\ UNCHANGED <<tokens, requests, changes>>
  BY DEF Deactivate
<1>2. users[u] \in Rows
  <2>1. users \in Seq(Rows)
    BY DEF SigningInv, AccountsTyped, Rows
  <2> QED BY <2>1
<1>3. row \in Rows /\ row.name = users[u].name /\ row.password = users[u].password
      /\ row.email = users[u].email
  BY <1>2 DEF Rows
<1>4. \A v \in DOMAIN users : v # u => users[v].email # row.email
  BY <1>3 DEF SigningInv, Distinct
<1> HIDE DEF row
<1>5. users' \in Seq(Rows) /\ DOMAIN users' = DOMAIN users /\ Paired' /\ Distinct'
  BY <1>1, <1>3, <1>4, SigningKept
<1>6. AccountsTyped'
  BY <1>1, <1>5 DEF SigningInv, AccountsTyped, Rows
<1>7. (\A r \in DOMAIN requests : RequestSound(requests[r]))'
  BY <1>1, <1>5 DEF SigningInv, RequestSound
<1>8. MadeByOne'
  BY <1>1, <1>5 DEF SigningInv, MadeByOne
<1> QED BY <1>5, <1>6, <1>7, <1>8 DEF SigningInv

LEMMA SigningStep ==
  ASSUME SigningInv, [AccountsNext]_accountsVars
  PROVE  SigningInv'
<1>1. CASE \/ \E name \in Names, email \in Emails, p \in Passwords : Register(name, email, p)
           \/ \E name \in Names, p \in Passwords : Login(name, p)
           \/ \E id \in tokens, p \in Passwords, new \in Passwords : ChangePassword(id, p, new)
           \/ \E id \in tokens, email \in Emails : UpdateProfile(id, email)
  BY <1>1, SigningArrive
<1>2. CASE \E r \in DOMAIN requests :
             \/ FindName(r) \/ FindEmail(r) \/ CreateUser(r) \/ Verify(r)
             \/ IssueToken(r) \/ UpdatePassword(r) \/ WriteProfile(r)
  BY <1>2, Finds, Creates, Verifies, Issues, Changes, Profiles
<1>3. CASE \E u \in DOMAIN users : Deactivate(u)
  BY <1>3, Deactivates
<1>4. CASE UNCHANGED accountsVars
  <2>1. UNCHANGED <<users, tokens, requests, changes>>
    BY <1>4 DEF accountsVars
  <2>2. AccountsTyped'
    BY <2>1 DEF SigningInv, AccountsTyped
  <2>3. Paired' /\ Distinct' /\ MadeByOne'
    BY <2>1 DEF SigningInv, Paired, Distinct, MadeByOne
  <2>4. (\A r \in DOMAIN requests : RequestSound(requests[r]))'
    BY <2>1 DEF SigningInv, RequestSound
  <2> QED BY <2>2, <2>3, <2>4 DEF SigningInv
<1> QED BY <1>1, <1>2, <1>3, <1>4 DEF AccountsNext

(* The accounts that are listed have a request of their own each.          *)
LEMMA SigningCounted ==
  ASSUME SigningInv
  PROVE  Count <= Cardinality({r \in DOMAIN requests : requests[r].pc = "201"})
<1> DEFINE made == {r \in DOMAIN requests : requests[r].pc = "201"}
           owner == [r \in made |-> requests[r].id]
           owned == {owner[r] : r \in made}
<1>1. users \in Seq(Rows) /\ requests \in Seq(Request)
  BY DEF SigningInv, AccountsTyped, Rows
<1>2. IsFiniteSet(made)
  <2>1. IsFiniteSet(1..Len(requests))
    BY <1>1, FS_Interval
  <2>2. made \subseteq 1..Len(requests)
    BY <1>1
  <2> QED BY <2>1, <2>2, FS_Subset
<1>3. IsFiniteSet(owned) /\ Cardinality(owned) <= Cardinality(made)
  <2>1. owner \in Surjection(made, owned)
    BY DEF Surjection
  <2> QED BY <2>1, <1>2, FS_Surjection
<1>4. List \subseteq owned
  BY DEF SigningInv, MadeByOne, List
<1>5. Cardinality(List) <= Cardinality(owned)
  BY <1>3, <1>4, FS_Subset
<1>6. Cardinality(made) \in Nat /\ Cardinality(owned) \in Nat /\ Cardinality(List) \in Nat
  BY <1>2, <1>3, <1>4, FS_Subset, FS_CardinalityType
<1> HIDE DEF owned, made
<1>7. Cardinality(List) <= Cardinality(made)
  BY <1>3, <1>5, <1>6
<1> QED BY <1>7 DEF Count, made

LEMMA SigningRight ==
  ASSUME SigningInv
  PROVE  AccountsSound
<1>1. users \in Seq(Rows) /\ Distinct /\ tokens \subseteq DOMAIN users
      /\ \A u \in DOMAIN users : u # 0
  BY DEF SigningInv, AccountsTyped, Rows
<1>2. \A u \in tokens : Me(u) = u
        <=> (FindBy("name", users[u].name) = u /\ FindBy("email", users[u].email) = u)
  <2>1. ASSUME NEW u \in tokens
        PROVE  Me(u) = u
          <=> (FindBy("name", users[u].name) = u /\ FindBy("email", users[u].email) = u)
    <3>1. u \in DOMAIN users /\ u # 0
      BY <1>1
    <3>2. FindBy("name", users[u].name) = u <=> users[u].active
      <4>1. users[u]["name"] = users[u].name
        OBVIOUS
      <4> QED BY <3>1, <4>1, <1>1, Found
    <3>3. FindBy("email", users[u].email) = u <=> users[u].active
      BY <3>1, <1>1, Found
    <3>4. Me(u) = u <=> users[u].active
      BY <3>1 DEF Me, Nobody
    <3> QED BY <3>2, <3>3, <3>4
  <2> QED BY <2>1
<1>3. UNION {Search(term) : term \in Names \cup Emails} = List
  <2>1. ASSUME NEW u \in List PROVE u \in Search(users[u].name) /\ users[u].name \in Names
    <3>1. u \in DOMAIN users /\ users[u].active
      BY DEF List
    <3>2. users[u] \in Rows
      BY <3>1, <1>1
    <3>3. users[u].name \in Names
      BY <3>2 DEF Rows
    <3> QED BY <3>1, <3>3 DEF List, Search
  <2> QED BY <2>1 DEF Search
<1>4. \A r \in DOMAIN requests : requests[r].kind = "password" /\ requests[r].pc = "200" =>
       \E i \in 1..(Len(changes[requests[r].id]) - 1) : changes[requests[r].id][i] = requests[r].password
  BY DEF SigningInv, RequestSound
<1>5. \A r, q \in DOMAIN requests :
       r # q /\ requests[r].pc = "201" /\ requests[q].pc = "201" => requests[r].id # requests[q].id
  BY DEF SigningInv, MadeByOne
<1>6. \A u \in DOMAIN users : users[u].password = changes[u][Len(changes[u])]
  BY DEF SigningInv, Paired
<1>7. \A u, v \in DOMAIN users : u # v =>
       users[u].name # users[v].name /\ users[u].email # users[v].email
  BY <1>1 DEF Distinct
<1> QED BY <1>2, <1>3, <1>4, <1>5, <1>6, <1>7, SigningCounted DEF AccountsSound

THEOREM AccountsAreSound == AccountsSpec => [](AccountsTyped /\ AccountsSound)
<1>1. AccountsInit => SigningInv
  BY SigningInit
<1>2. SigningInv /\ [AccountsNext]_accountsVars => SigningInv'
  BY SigningStep
<1>3. SigningInv => AccountsTyped /\ AccountsSound
  BY SigningRight DEF SigningInv
<1> QED BY <1>1, <1>2, <1>3, PTL DEF AccountsSpec

----------------------------------------------------------------------------
(****************************************************************************)
(* The progressive loader: a call that was cancelled works no further and   *)
(* never completes, as long as no other call starts and clears the flag.    *)
(****************************************************************************)

(* A call that was cancelled has its look at the flag ahead of it still,   *)
(* and the flag is set.                                                    *)
LoaderAhead == \A c \in DOMAIN asked : isCancelled /\ Looks(c)

LoaderInv == LoaderTyped /\ LoaderAhead /\ CancelledNeverCompletes

(* What CancelledNeverCompletes says of a call whether cancelled or not.   *)
Counts(call) ==
  /\ call.state = "complete" => call.done = call.units
  /\ call.processed <= call.done
  /\ kind = "processor" => call.done <= call.results

LEMMA Twentieth == ASSUME NEW g \in Nat PROVE g \div 20 \in Nat
OBVIOUS

LEMMA Product == ASSUME NEW g \in Nat, NEW h \in Nat PROVE g * h \in Nat
OBVIOUS

LEMMA LoaderUnits == ASSUME NEW n \in Nat PROVE Units(n) \in Nat
<1>1. GridPoints \in Nat
  BY LoaderAssumption, Product DEF GridPoints
<1>2. GridPoints \div 20 \in Nat
  BY <1>1, Twentieth
<1> QED BY <1>2 DEF Units

(* A chunk, with whatever comes of it.                                     *)
LEMMA LoaderWorked ==
  ASSUME LoaderTyped, NEW call \in Call, call.state = "running", Counts(call),
         NEW how \in Outcomes, NEW throws \in BOOLEAN
  PROVE  /\ Worked(call, how, throws) \in Call
         /\ Worked(call, how, throws).state \in {"running", "rejected"}
         /\ Worked(call, how, throws).units = call.units
         /\ Counts(Worked(call, how, throws))
<1> DEFINE left  == IF how \in {"throws", "half"} THEN call.processed ELSE call.processed + 1
           state == IF throws THEN "rejected" ELSE call.state
           new   == Worked(call, how, throws)
<1>1. how \in {"ok", "comment", "throws", "half"} /\ (kind = "processor" => how # "comment")
  BY DEF Outcomes, LoaderTyped, Kinds
<1>2. Results(how) \in Nat /\ (how # "comment" => Results(how) >= 1)
  BY <1>1 DEF Results
<1>3. call.done \in Nat /\ call.results \in Nat /\ call.processed \in Nat
  BY DEF Call
<1>4. left \in Nat /\ left <= call.done + 1
  BY <1>3 DEF Counts
<1>5. state \in {"running", "rejected"}
  OBVIOUS
<1>6. new = [call EXCEPT !.done = @ + 1, !.results = @ + Results(how), !.processed = left,
                         !.state = state]
  BY <1>3 DEF Worked
<1> HIDE DEF left, state, new
<1>7. /\ new \in Call /\ new.state = state /\ new.units = call.units
      /\ new.done = call.done + 1 /\ new.results = call.results + Results(how)
      /\ new.processed = left
  <2>1. PICK s \in {"running"} \cup Ended, u \in Nat, d \in Nat, r \in Nat, q \in Nat :
          call = [state |-> s, units |-> u, done |-> d, results |-> r, processed |-> q]
    BY DEF Call
  <2>2. new = [state |-> state, units |-> u, done |-> d + 1, results |-> r + Results(how),
               processed |-> left]
    BY <1>6, <2>1
  <2>3. state \in {"running"} \cup Ended /\ d + 1 \in Nat /\ r + Results(how) \in Nat
    BY <1>2, <1>5 DEF Ended
  <2>4. new \in Call
    BY <1>4, <2>2, <2>3 DEF Call
  <2> QED BY <2>1, <2>2, <2>4
<1>8. Counts(new)
  BY <1>1, <1>2, <1>3, <1>4, <1>5, <1>7 DEF Counts
<1> QED BY <1>5, <1>7, <1>8 DEF new

LEMMA LoaderInitially == ASSUME LoaderInit PROVE LoaderInv
<1> USE DEF LoaderInit
<1>1. DOMAIN calls = {} /\ DOMAIN asked = {} /\ calls \in Seq(Call)
  OBVIOUS
<1> QED BY <1>1 DEF LoaderInv, LoaderTyped, LoaderAhead, CancelledNeverCompletes

(* A new call clears the flag, and nobody counts as cancelled.             *)
LEMMA LoaderStart ==
  ASSUME LoaderInv, NEW n \in 0..Chunks, NEW how \in Outcomes, NEW throws \in BOOLEAN,
         Start(n, how, throws)
  PROVE  LoaderInv'
<1> USE DEF LoaderInv, Start
<1>0. n \in Nat
  BY LoaderAssumption
<1>1. Units(n) \in Nat
  BY <1>0, LoaderUnits
<1> DEFINE call == IF n > 0 THEN Worked(Called(n), how, throws)
                   ELSE Finished([Called(0) EXCEPT !.units = 0],
                                 IF kind = "mesh" THEN "nothing" ELSE "complete", throws)
<1>2. call \in Call /\ Counts(call)
  <2>1. CASE n > 0
    <3>1. Called(n) \in Call /\ Called(n).state = "running" /\ Counts(Called(n))
      BY <1>1 DEF Called, Call, Counts
    <3> QED BY <2>1, <3>1, LoaderWorked
  <2>2. CASE ~(n > 0)
    <3> DEFINE state == IF throws THEN "rejected" ELSE IF kind = "mesh" THEN "nothing" ELSE "complete"
    <3>1. call = [state |-> state, units |-> 0, done |-> 0, results |-> 0, processed |-> 0]
      BY <2>2 DEF Finished, Called
    <3>2. state \in Ended
      BY DEF Ended
    <3> QED BY <3>1, <3>2 DEF Call, Counts
  <2> QED BY <2>1, <2>2
<1>3. calls' = Append(calls, call) /\ kind' = kind /\ DOMAIN asked' = {}
  OBVIOUS
<1> HIDE DEF call
<1>4. /\ calls' \in Seq(Call) /\ DOMAIN calls' = DOMAIN calls \cup {Len(calls) + 1}
      /\ \A c \in DOMAIN calls : calls'[c] = calls[c]
      /\ calls'[Len(calls) + 1] = call
  BY <1>2, <1>3, Longer DEF LoaderTyped
<1>5. LoaderTyped' /\ LoaderAhead'
  BY <1>3, <1>4 DEF LoaderTyped, LoaderAhead
<1>6. ASSUME NEW c \in DOMAIN calls' PROVE Counts(calls'[c])
  BY <1>2, <1>4 DEF Counts, CancelledNeverCompletes
<1>7. CancelledNeverCompletes'
  BY <1>3, <1>6 DEF CancelledNeverCompletes, Counts
<1> QED BY <1>5, <1>7

(* Those that are cancelled are running.                                   *)
LEMMA LoaderCancel == ASSUME LoaderInv, Cancel PROVE LoaderInv'
<1> USE DEF LoaderInv, Cancel
<1>1. /\ DOMAIN asked' = {c \in Running : Looks(c)}
      /\ \A c \in DOMAIN asked' : asked'[c] = calls[c].done
  OBVIOUS
<1>2. \A c \in DOMAIN calls : calls[c] \in Call /\ calls[c].done \in Nat
  <2>1. \A c \in DOMAIN calls : calls[c] \in Call
    BY DEF LoaderTyped
  <2> QED BY <2>1 DEF Call
<1>3. LoaderTyped'
  BY <1>1, <1>2 DEF LoaderTyped, Running
<1>4. LoaderAhead'
  BY <1>1 DEF LoaderAhead, Looks, LastLook
<1>5. CancelledNeverCompletes'
  BY <1>1 DEF CancelledNeverCompletes, Running
<1> QED BY <1>3, <1>4, <1>5

(* One call goes on: not beyond its chunks if it was cancelled.            *)
LEMMA LoaderGoesOn ==
  ASSUME LoaderInv, NEW c \in DOMAIN calls, NEW call \in Call, Counts(call),
         calls' = [calls EXCEPT ![c] = call], UNCHANGED <<kind, delays, isCancelled, asked>>,
         call.units = calls[c].units,
         c \in DOMAIN asked =>
           call.done = calls[c].done /\ call.state \in {"running", "cancelled", "rejected"}
  PROVE  LoaderInv'
<1> USE DEF LoaderInv
<1>1. /\ calls' \in Seq(Call) /\ DOMAIN calls' = DOMAIN calls
      /\ \A d \in DOMAIN calls : d # c => calls'[d] = calls[d]
      /\ calls'[c] = call
  BY Replaced DEF LoaderTyped
<1>2. LoaderTyped'
  BY <1>1 DEF LoaderTyped
<1>3. ASSUME NEW d \in DOMAIN asked' PROVE isCancelled' /\ Looks(d)'
  <2>1. isCancelled /\ Looks(d) /\ d \in DOMAIN calls
    BY DEF LoaderAhead, LoaderTyped
  <2> QED BY <1>1, <2>1 DEF Looks, LastLook, GridPoints
<1>4. LoaderAhead'
  BY <1>3 DEF LoaderAhead
<1>5. ASSUME NEW d \in DOMAIN calls
      PROVE  /\ Counts(calls'[d])
             /\ d \in DOMAIN asked =>
                  calls'[d].done = asked[d] /\ calls'[d].state \in {"running", "cancelled", "rejected"}
  BY <1>1 DEF CancelledNeverCompletes, Counts
<1>6. CancelledNeverCompletes'
  BY <1>1, <1>5 DEF CancelledNeverCompletes, Counts
<1> QED BY <1>2, <1>4, <1>6

LEMMA LoaderNextChunk ==
  ASSUME LoaderInv, NEW c \in DOMAIN calls, NEW how \in Outcomes, NEW throws \in BOOLEAN,
         NextChunk(c, how, throws)
  PROVE  LoaderInv'
<1> USE DEF LoaderInv, NextChunk
<1>1. calls[c] \in Call /\ calls[c].state = "running" /\ Counts(calls[c])
  BY DEF LoaderTyped, Turn, Running, CancelledNeverCompletes, Counts
<1>2. /\ Worked(calls[c], how, throws) \in Call
      /\ Worked(calls[c], how, throws).units = calls[c].units
      /\ Counts(Worked(calls[c], how, throws))
  BY <1>1, LoaderWorked
<1>3. c \notin DOMAIN asked
  BY DEF LoaderAhead, GoesOn
<1> QED BY <1>2, <1>3, LoaderGoesOn

(* A call that stops says so, or rejects; one that completes has done all  *)
(* its chunks, and either was not cancelled or looked at the flag before.  *)
LEMMA LoaderEnds ==
  ASSUME LoaderInv, NEW c \in DOMAIN calls, NEW throws \in BOOLEAN,
         StopCancelled(c, throws) \/ Complete(c, throws)
  PROVE  LoaderInv'
<1> USE DEF LoaderInv
<1>1. calls[c] \in Call /\ calls[c].state = "running" /\ Counts(calls[c])
  BY DEF LoaderTyped, StopCancelled, Complete, Turn, Running, CancelledNeverCompletes, Counts
<1>2. CASE StopCancelled(c, throws)
  <2> DEFINE call == Finished(calls[c], "cancelled", throws)
  <2>1. /\ call \in Call /\ call.units = calls[c].units /\ call.done = calls[c].done
        /\ call.state \in {"cancelled", "rejected"} /\ Counts(call)
    BY <1>1 DEF Finished, Call, Ended, Counts
  <2> QED BY <1>2, <2>1, LoaderGoesOn DEF StopCancelled
<1>3. CASE Complete(c, throws)
  <2> DEFINE call == Finished(calls[c], "complete", throws)
  <2>1. calls[c].done = calls[c].units
    BY <1>3 DEF Complete
  <2>2. /\ call \in Call /\ call.units = calls[c].units
        /\ Counts(call)
    BY <1>1, <2>1 DEF Finished, Call, Ended, Counts
  <2>3. c \notin DOMAIN asked
    BY <1>1, <1>3, <2>1 DEF LoaderAhead, Looks, Complete, Call
  <2> QED BY <1>3, <2>2, <2>3, LoaderGoesOn DEF Complete
<1> QED BY <1>2, <1>3

LEMMA LoaderStep == ASSUME LoaderInv, [LoaderNext]_loaderVars PROVE LoaderInv'
<1>1. CASE UNCHANGED loaderVars
  BY <1>1 DEF loaderVars, LoaderInv, LoaderTyped, LoaderAhead, CancelledNeverCompletes, Looks,
             LastLook, GridPoints
<1>2. CASE LoaderNext
  BY <1>2, LoaderStart, LoaderCancel, LoaderNextChunk, LoaderEnds DEF LoaderNext
<1> QED BY <1>1, <1>2

(* CancelledNeverCompletes and the types, for calls of any length, meshes  *)
(* of any size and all three loaders, with sleeps or without.              *)
THEOREM CancelledStaysCancelled == LoaderSpec => [](LoaderTyped /\ CancelledNeverCompletes)
<1>1. LoaderInit => LoaderInv
  BY LoaderInitially
<1>2. LoaderInv /\ [LoaderNext]_loaderVars => LoaderInv'
  BY LoaderStep
<1>3. LoaderInv => LoaderTyped /\ CancelledNeverCompletes
  BY DEF LoaderInv
<1> QED BY <1>1, <1>2, <1>3, PTL DEF LoaderSpec
============================================================================
