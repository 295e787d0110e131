------------------------ MODULE WebSerialLinkProofs ------------------------
(***************************************************************************)
(* The safety properties of WebSerialLink, for every set of ports and      *)
(* however many calls and faults there are.                                *)
(*                                                                         *)
(* Two inductive invariants.  Final is why a disconnect() that has         *)
(* resolved is final: there is no port left to connect to, so neither the  *)
(* timer that disconnect() armed nor an open() that resolves late can      *)
(* bring a connection about.  IInv is why a connection is whole: a reader  *)
(* holds only ports that are open, the reader of the connection has a loop *)
(* that will notice its end, and as long as no connect() crosses another   *)
(* call, one call at a time is under way and none of them while connected. *)
(* A connection that an exception made deaf is exempt from the last two:   *)
(* unless calls crossed it has no loop, and disconnect() may cut it.       *)
(***************************************************************************)
EXTENDS WebSerialLink, FiniteSetTheorems, TLAPS

Final == asked = "disconnected" => ~isConnected /\ port = NoPort

HeldPortsAreOpen == \A p \in Ports : held[p] # 0 => portState[p] \in {"open", "closing"}

ReaderIsWatched ==
  isConnected /\ streams \notin deaf =>
    /\ streams # 0 /\ LoopsOn(streams) # {}
    /\ \E p \in Ports : held[p] = streams /\ portState[p] \in {"open", "closing"}

Active(d) == pc[d] \in {"cancelling", "closingWriter", "closingPort"}

OneAtATime ==
  /\ ~(Opening /\ Disconnecting)
  /\ isConnected => ~Opening /\ (streams \notin deaf => ~Disconnecting)
  /\ \A d, e \in Calls : Active(d) /\ Active(e) => d = e
  /\ \A p \in Ports : portState[p] = "opening" => p = port
  /\ \A p \in Ports : portState[p] = "closing" => p = port /\ \E d \in Calls : pc[d] = "closingPort"

OneLoopOrNone ==
  /\ ~isConnected => loops = {}
  /\ isConnected /\ streams \in deaf => loops = {}
  /\ isConnected /\ streams \notin deaf =>
       /\ port # NoPort /\ portState[port] = "open" /\ held[port] = streams
       /\ streams \notin broken
       /\ \E l \in loops : loops = {l} /\ l.reader = streams

IInv ==
  /\ TypeOK /\ IsFiniteSet(loops)
  /\ HeldPortsAreOpen
  /\ ReaderIsWatched
  /\ ~crossed => OneAtATime /\ OneLoopOrNone

-----------------------------------------------------------------------------
(* What the end of loops does to the connection and the timers: whether    *)
(* they tell or an exception keeps them from it, none of them is left      *)
(* reading for a connection that is not deaf.                              *)
Lost(ended) ==
  /\ loops' = loops \ ended /\ IsFiniteSet(loops')
  /\ isConnected' \in BOOLEAN /\ (isConnected' => isConnected)
  /\ isConnected' => \A l \in ended : l.reader \in deaf'
  /\ ~isConnected' /\ isConnected => ended # {}
  /\ deaf \subseteq deaf' /\ deaf' \subseteq 1..sessions
  /\ \A r \in deaf' \ deaf : \E l \in ended : l.reader = r
  /\ reconnectAttempts' \in 0..maxReconnectAttempts /\ timers' \in Nat
  /\ faults' \in 0..MaxFaults

LEMMA Losing ==
  ASSUME TypeOK, IsFiniteSet(loops), NEW done \in SUBSET loops, NEW failed \in SUBSET loops,
         NEW f \in Nat, LoopsEnd(done, failed, f)
  PROVE  Lost(done \cup failed)
<1> DEFINE left == maxReconnectAttempts - reconnectAttempts
           Limited(calls) == IF calls < left THEN calls ELSE left
           told(quiet) == (done \cup failed) \ quiet
           n(quiet, again) == Limited(Cardinality(told(quiet)) + Cardinality(again))
<1>1. PICK quiet \in SUBSET failed, again \in SUBSET done, unarmed \in 0..maxReconnectAttempts :
        /\ unarmed <= n(quiet, again)
        /\ faults' = f + (IF quiet \cup again = {} /\ unarmed = 0 THEN 0 ELSE 1)
        /\ faults' <= MaxFaults
        /\ loops' = loops \ (done \cup failed)
        /\ isConnected' = (isConnected /\ told(quiet) = {})
        /\ deaf' = deaf \cup {l.reader : l \in quiet}
        /\ reconnectAttempts' = reconnectAttempts + n(quiet, again)
        /\ timers' = timers + (n(quiet, again) - unarmed)
  BY DEF LoopsEnd
<1>2. IsFiniteSet(told(quiet)) /\ IsFiniteSet(again) /\ IsFiniteSet(loops')
  <2>1. told(quiet) \in SUBSET loops /\ again \in SUBSET loops /\ loops' \in SUBSET loops
    BY <1>1
  <2> QED BY <2>1, FS_Subset
<1>3. Cardinality(told(quiet)) \in Nat /\ Cardinality(again) \in Nat
  BY <1>2, FS_CardinalityType
<1>4. n(quiet, again) \in 0..left
  <2>1. left \in Nat
    BY BoundsAssumption DEF TypeOK
  <2>2. Cardinality(told(quiet)) + Cardinality(again) \in Nat
    BY <1>3
  <2> HIDE DEF left, told
  <2> QED BY <2>1, <2>2
<1>5. reconnectAttempts' \in 0..maxReconnectAttempts /\ timers' \in Nat
  <2>1. \A m \in 0..left : /\ reconnectAttempts + m \in 0..maxReconnectAttempts
                           /\ unarmed <= m => timers + (m - unarmed) \in Nat
    BY BoundsAssumption DEF TypeOK
  <2> HIDE DEF n, left
  <2> QED BY <1>1, <1>4, <2>1
<1>6. faults' \in 0..MaxFaults
  <2>1. faults' \in Nat
    BY <1>1
  <2> QED BY <1>1, <2>1, BoundsAssumption
<1>7. deaf \subseteq deaf' /\ deaf' \subseteq 1..sessions
  <2>1. \A l \in loops : l.reader \in 1..sessions
    BY DEF TypeOK
  <2>2. deaf \subseteq 1..sessions
    BY DEF TypeOK
  <2>3. deaf' = deaf \cup {l.reader : l \in quiet} /\ quiet \in SUBSET loops
    BY <1>1
  <2> QED BY <2>1, <2>2, <2>3
<1>8. ASSUME isConnected' PROVE isConnected /\ \A l \in done \cup failed : l.reader \in deaf'
  <2>1. isConnected /\ told(quiet) = {}
    BY <1>1, <1>8
  <2>2. done \cup failed \subseteq quiet
    BY <2>1
  <2>3. \A l \in quiet : l.reader \in deaf'
    BY <1>1
  <2> QED BY <2>1, <2>2, <2>3
<1>9. /\ isConnected' \in BOOLEAN /\ loops' = loops \ (done \cup failed)
      /\ ~isConnected' /\ isConnected => done \cup failed # {}
      /\ \A r \in deaf' \ deaf : \E l \in done \cup failed : l.reader = r
  BY <1>1
<1> QED BY <1>2, <1>5, <1>6, <1>7, <1>8, <1>9 DEF Lost

LEMMA IInvInit == Init => IInv
<1> SUFFICES ASSUME Init PROVE IInv
  OBVIOUS
<1>1. TypeOK
  <2>1. /\ portState \in [Ports -> {"closed", "opening", "open", "closing", "lost"}]
        /\ held \in [Ports -> 0..sessions]
        /\ pc \in [Calls -> {"notCalled", "cancelling", "closingWriter", "closingPort", "resolved", "rejected"}]
    BY DEF Init
  <2>2. reconnectAttempts \in 0..maxReconnectAttempts /\ connects \in 0..MaxConnects /\ faults \in 0..MaxFaults
    BY BoundsAssumption DEF Init
  <2>3. /\ isConnected \in BOOLEAN /\ crossed \in BOOLEAN /\ port \in Ports \cup {NoPort}
        /\ asked \in {"nothing", "connect", "disconnect", "disconnected"}
    BY DEF Init
  <2>4. /\ streams \in 0..sessions /\ sessions \in Nat /\ timers \in Nat
        /\ loops \subseteq [loop : 1..sessions, reader : 1..sessions]
        /\ broken \subseteq 1..sessions /\ deaf \subseteq 1..sessions
    <3>1. streams = 0 /\ sessions = 0 /\ timers = 0 /\ loops = {} /\ broken = {} /\ deaf = {}
      BY DEF Init
    <3> QED BY <3>1
  <2> QED BY <2>1, <2>2, <2>3, <2>4 DEF TypeOK
<1>2. IsFiniteSet(loops)
  BY FS_EmptySet DEF Init
<1>3. HeldPortsAreOpen /\ ReaderIsWatched /\ OneAtATime /\ OneLoopOrNone
  BY DEF Init, HeldPortsAreOpen, ReaderIsWatched, OneAtATime, OneLoopOrNone, Opening, Disconnecting, Active
<1> QED BY <1>1, <1>2, <1>3 DEF IInv

(* connect() up to its await, asked for by the user or by a timer.         *)
LEMMA ConnectIInv ==
  ASSUME IInv, NEW p \in Ports, Connect(p), TypeOK',
         UNCHANGED <<isConnected, streams, loops, broken, held, deaf, pc>>
  PROVE  IInv'
<1>1. TypeOK /\ ~isConnected /\ ~isConnected'
  BY DEF IInv, Connect
<1>2. HeldPortsAreOpen' /\ ReaderIsWatched'
  BY <1>1 DEF IInv, Connect, TypeOK, HeldPortsAreOpen, ReaderIsWatched
<1>3. ASSUME ~crossed' PROVE OneAtATime' /\ OneLoopOrNone'
  <2>1. ~crossed /\ ~Disconnecting /\ ~Opening
    BY <1>3 DEF Connect
  <2>2. ~Disconnecting'
    BY <2>1 DEF Disconnecting
  <2>3. \A q \in Ports : portState[q] # "opening" /\ portState[q] # "closing"
    BY <2>1 DEF IInv, OneAtATime, Opening, Disconnecting
  <2>4. \A q \in Ports : portState'[q] # "closing" /\ (portState'[q] = "opening" => q = port')
    BY <2>3, <1>1 DEF Connect, TypeOK
  <2>5. OneAtATime'
    BY <1>1, <2>1, <2>2, <2>4 DEF OneAtATime, IInv, Active
  <2>6. OneLoopOrNone'
    BY <1>1, <2>1 DEF IInv, OneLoopOrNone
  <2> QED BY <2>5, <2>6
<1> QED BY <1>2, <1>3 DEF IInv

LEMMA UserConnectsIInv ==
  ASSUME IInv, NEW p \in Ports, UserConnects(p)
  PROVE  IInv'
<1>1. TypeOK'
  <2>1. TypeOK /\ connects + 1 \in 0..MaxConnects
    BY BoundsAssumption DEF IInv, UserConnects, TypeOK
  <2> QED BY <2>1 DEF UserConnects, Connect, TypeOK
<1> QED BY <1>1, ConnectIInv DEF UserConnects

LEMMA TimerFiresIInv ==
  ASSUME IInv, TimerFires
  PROVE  IInv'
<1>1. TypeOK'
  <2>1. TypeOK /\ timers - 1 \in Nat
    BY DEF IInv, TypeOK, TimerFires
  <2>2. CASE port # NoPort /\ Connect(port)
    BY <2>1, <2>2 DEF TimerFires, Connect, TypeOK, userVars
  <2>3. CASE UNCHANGED <<port, portState, crossed>>
    BY <2>1, <2>3 DEF TimerFires, TypeOK, userVars
  <2> QED BY <2>2, <2>3 DEF TimerFires
<1>2. CASE port # NoPort /\ Connect(port)
  BY <1>1, <1>2, ConnectIInv DEF IInv, TypeOK, TimerFires
<1>3. CASE UNCHANGED <<port, portState, crossed>>
  BY <1>1, <1>3 DEF TimerFires, IInv, HeldPortsAreOpen, ReaderIsWatched, OneAtATime, OneLoopOrNone,
       Opening, Disconnecting, Active, LoopsOn
<1> QED BY <1>2, <1>3 DEF TimerFires

LEMMA OpenRejectsIInv ==
  ASSUME IInv, NEW p \in Ports, OpenRejects(p)
  PROVE  IInv'
<1>1. /\ portState[p] = "opening" /\ portState' = [portState EXCEPT ![p] = "closed"]
      /\ UNCHANGED <<isConnected, port, streams, loops, broken, held, deaf, pc, crossed>>
  BY DEF OpenRejects
<1>2. TypeOK
  BY DEF IInv
<1>3. TypeOK' /\ IsFiniteSet(loops')
  BY <1>2 DEF OpenRejects, userVars, TypeOK, IInv
<1>4. HeldPortsAreOpen' /\ ReaderIsWatched'
  BY <1>1, <1>2 DEF IInv, TypeOK, HeldPortsAreOpen, ReaderIsWatched, LoopsOn
<1>5. ASSUME ~crossed' PROVE OneAtATime' /\ OneLoopOrNone'
  <2>1. OneAtATime /\ OneLoopOrNone
    BY <1>1, <1>5 DEF IInv
  <2>2. Opening /\ ~isConnected
    BY <1>1, <2>1 DEF Opening, OneAtATime
  <2> QED BY <1>1, <1>2, <2>1, <2>2 DEF OneAtATime, OneLoopOrNone, Opening, Disconnecting, Active, TypeOK
<1> QED BY <1>3, <1>4, <1>5 DEF IInv

(* open() resolves: the new reader has a loop of its own, or the           *)
(* connection is deaf.  Unless calls crossed, the port is this.port and    *)
(* there was no loop.                                                      *)
LEMMA OpenResolvesIInv ==
  ASSUME IInv, NEW p \in Ports, OpenResolves(p)
  PROVE  IInv'
<1>1. /\ portState[p] = "opening" /\ portState' = [portState EXCEPT ![p] = "open"]
      /\ UNCHANGED <<port, timers, broken, pc, connects, crossed, asked>>
  BY DEF OpenResolves, userVars
<1>2. TypeOK /\ IsFiniteSet(loops)
  BY DEF IInv
<1>3. CASE Readable(p)
  <2> DEFINE s == sessions + 1
             new == [loop |-> s, reader |-> s]
             Starts == loops' = loops \cup {new} /\ UNCHANGED <<deaf, faults>>
             Throws == /\ faults < MaxFaults /\ faults' = faults + 1
                       /\ deaf' = deaf \cup {s} /\ UNCHANGED loops
  <2>1. /\ sessions' = s /\ streams' = s /\ isConnected' = TRUE /\ reconnectAttempts' = 0
        /\ held' = [held EXCEPT ![port] = s]
    BY <1>3 DEF OpenResolves
  <2>2. Starts \/ Throws
    BY <1>3 DEF OpenResolves
  <2>3. port \in Ports /\ (port = p \/ portState[port] = "open")
    BY <1>2, <1>3 DEF Readable, TypeOK
  <2>4. s \in Nat /\ s # 0 /\ s \notin deaf /\ s \notin broken
    BY <1>2 DEF TypeOK
  <2>5. TypeOK'
    <3>1. loops' \subseteq [loop : 1..sessions', reader : 1..sessions']
      BY <1>2, <2>1, <2>2 DEF TypeOK
    <3>2. sessions' \in Nat /\ streams' \in 0..sessions' /\ broken' \subseteq 1..sessions'
      BY <1>1, <1>2, <2>1 DEF TypeOK
    <3>5. deaf' \subseteq 1..sessions'
      <4>1. deaf \subseteq 1..s /\ s \in 1..s
        BY <1>2, <2>4 DEF TypeOK
      <4> QED BY <2>1, <2>2, <4>1
    <3>3. held' \in [Ports -> 0..sessions']
      <4>1. held \in [Ports -> 0..s] /\ s \in 0..s
        BY <1>2 DEF TypeOK
      <4> QED BY <2>1, <4>1
    <3>4. faults' \in 0..MaxFaults
      BY <1>2, <2>2, BoundsAssumption DEF TypeOK
    <3> QED BY <1>1, <1>2, <2>1, <3>1, <3>2, <3>3, <3>4, <3>5, BoundsAssumption DEF TypeOK
  <2>6. IsFiniteSet(loops')
    BY <1>2, <2>2, FS_AddElement
  <2>7. HeldPortsAreOpen'
    BY <1>1, <1>2, <2>1, <2>3 DEF IInv, TypeOK, HeldPortsAreOpen
  <2>8. held'[port] = streams' /\ portState'[port] = "open"
    BY <1>1, <1>2, <2>1, <2>3 DEF TypeOK
  <2>9. ReaderIsWatched'
    <3>1. CASE Starts
      <4>1. new \in LoopsOn(streams)' /\ streams' # 0
        BY <2>1, <2>4, <3>1 DEF LoopsOn
      <4> QED BY <2>3, <2>8, <4>1 DEF ReaderIsWatched
    <3>2. CASE Throws
      BY <2>1, <3>2 DEF ReaderIsWatched
    <3> QED BY <2>2, <3>1, <3>2
  <2>10. ASSUME ~crossed' PROVE OneAtATime' /\ OneLoopOrNone'
    <3>1. OneAtATime /\ OneLoopOrNone
      BY <1>1, <2>10 DEF IInv
    <3>2. Opening /\ ~Disconnecting /\ ~isConnected /\ p = port /\ loops = {}
      BY <1>1, <3>1 DEF Opening, OneAtATime, OneLoopOrNone
    <3>3. \A q \in Ports : portState'[q] # "opening" /\ portState'[q] # "closing"
      BY <1>1, <1>2, <3>1, <3>2 DEF OneAtATime, TypeOK, Disconnecting
    <3>4. ~Opening' /\ ~Disconnecting'
      BY <1>1, <3>2, <3>3 DEF Opening, Disconnecting
    <3>5. OneAtATime'
      BY <1>1, <3>1, <3>3, <3>4 DEF OneAtATime, Active
    <3>6. CASE Starts
      <4>1. loops' = {new} /\ new.reader = streams' /\ streams' \notin broken' /\ streams' \notin deaf'
        BY <1>1, <2>1, <2>4, <3>2, <3>6
      <4>2. port' # NoPort /\ portState'[port'] = "open" /\ held'[port'] = streams'
        BY <1>1, <2>3, <2>8, NoPortAssumption
      <4> QED BY <2>1, <3>5, <4>1, <4>2 DEF OneLoopOrNone
    <3>7. CASE Throws
      BY <2>1, <3>2, <3>5, <3>7 DEF OneLoopOrNone
    <3> QED BY <2>2, <3>6, <3>7
  <2> QED BY <2>5, <2>6, <2>7, <2>9, <2>10 DEF IInv
<1>4. CASE ~Readable(p)
  <2>1. UNCHANGED <<sessions, streams, held, isConnected, reconnectAttempts, loops, deaf, faults>>
    BY <1>4 DEF OpenResolves
  <2>2. TypeOK'
    BY <1>1, <1>2, <2>1 DEF TypeOK
  <2>3. HeldPortsAreOpen' /\ ReaderIsWatched'
    BY <1>1, <1>2, <2>1 DEF IInv, TypeOK, HeldPortsAreOpen, ReaderIsWatched, LoopsOn
  <2>4. ASSUME ~crossed' PROVE OneAtATime' /\ OneLoopOrNone'
    <3>1. OneAtATime /\ OneLoopOrNone
      BY <1>1, <2>4 DEF IInv
    <3>2. Opening /\ ~Disconnecting /\ ~isConnected
      BY <1>1, <3>1 DEF Opening, OneAtATime
    <3> QED BY <1>1, <1>2, <2>1, <3>1, <3>2 DEF OneAtATime, OneLoopOrNone, Opening, Disconnecting, Active, TypeOK
  <2> QED BY <1>2, <2>1, <2>2, <2>3, <2>4 DEF IInv
<1> QED BY <1>3, <1>4

-----------------------------------------------------------------------------
(* Unless calls crossed, the end of loops leaves a connection as it is, or *)
(* no loop at all.                                                         *)
LEMMA LosingUncrossed ==
  ASSUME IInv, OneLoopOrNone, NEW ended \in SUBSET loops, UNCHANGED streams,
         loops' = loops \ ended, isConnected' => isConnected, deaf \subseteq deaf',
         isConnected' => \A l \in ended : l.reader \in deaf',
         ~isConnected' /\ isConnected => ended # {},
         \A r \in deaf' \ deaf : \E l \in ended : l.reader = r
  PROVE  /\ ~isConnected' => loops' = {}
         /\ isConnected' /\ streams \in deaf' => loops' = {}
         /\ isConnected' /\ streams \notin deaf' => isConnected /\ streams \notin deaf /\ loops' = loops
<1>1. CASE ~isConnected \/ streams \in deaf
  BY <1>1 DEF OneLoopOrNone
<1>2. CASE isConnected /\ streams \notin deaf
  <2>1. PICK l \in loops : loops = {l} /\ l.reader = streams
    BY <1>2 DEF OneLoopOrNone
  <2>2. CASE l \in ended
    <3>1. loops' = {} /\ (isConnected' => streams \in deaf')
      BY <2>1, <2>2
    <3> QED BY <3>1
  <2>3. CASE l \notin ended
    <3>1. ended = {} /\ loops' = loops
      BY <2>1, <2>3
    <3>2. isConnected' \/ ~isConnected
      BY <3>1
    <3>3. isConnected' /\ streams \in deaf' => FALSE
      BY <1>2, <3>1
    <3> QED BY <1>2, <3>1, <3>2, <3>3
  <2> QED BY <2>2, <2>3
<1> QED BY <1>1, <1>2

(* Data: a loop reads on from the reader of the connection, if any.        *)
LEMMA ReadIInv ==
  ASSUME IInv, NEW l \in loops, Read(l)
  PROVE  IInv'
<1>1. /\ loops' = (loops \ {l}) \cup
              (IF isConnected /\ streams # 0 THEN {[l EXCEPT !.reader = streams]} ELSE {})
      /\ UNCHANGED <<isConnected, port, streams, sessions, broken, portState, held, deaf, pc, crossed>>
  BY DEF Read
<1>2. TypeOK /\ IsFiniteSet(loops) /\ l \in [loop : 1..sessions, reader : 1..sessions]
  BY DEF IInv, TypeOK
<1>3. isConnected /\ streams # 0 =>
        [l EXCEPT !.reader = streams] \in [loop : 1..sessions, reader : 1..sessions]
  BY <1>2 DEF TypeOK
<1>4. TypeOK'
  BY <1>1, <1>2, <1>3 DEF Read, userVars, TypeOK
<1>5. IsFiniteSet(loops')
  <2>1. IsFiniteSet(loops \ {l})
    BY <1>2, FS_RemoveElement
  <2> QED BY <1>1, <2>1, FS_AddElement
<1>6. HeldPortsAreOpen'
  BY <1>1 DEF IInv, HeldPortsAreOpen
<1>7. ReaderIsWatched'
  <2>1. SUFFICES ASSUME isConnected, streams \notin deaf PROVE LoopsOn(streams)' # {}
    BY <1>1 DEF IInv, ReaderIsWatched
  <2>2. [l EXCEPT !.reader = streams] \in loops' /\ streams # 0
    BY <1>1, <2>1 DEF IInv, ReaderIsWatched
  <2>3. [l EXCEPT !.reader = streams].reader = streams
    BY <1>2
  <2> QED BY <1>1, <2>2, <2>3 DEF LoopsOn
<1>8. ASSUME ~crossed' PROVE OneAtATime' /\ OneLoopOrNone'
  <2>1. OneAtATime /\ OneLoopOrNone
    BY <1>1, <1>8 DEF IInv
  <2>2. isConnected /\ streams \notin deaf /\ loops = {l} /\ l.reader = streams /\ streams # 0
    BY <2>1 DEF IInv, OneLoopOrNone, ReaderIsWatched
  <2>3. [l EXCEPT !.reader = streams] = l
    BY <1>2, <2>2
  <2>4. loops' = loops
    BY <1>1, <2>2, <2>3
  <2> QED BY <1>1, <2>1, <2>4 DEF OneAtATime, OneLoopOrNone, Opening, Disconnecting, Active
<1> QED BY <1>4, <1>5, <1>6, <1>7, <1>8 DEF IInv

(* Loops end while the ports stay as they are: they tell, or leave their   *)
(* readers deaf.                                                           *)
LEMMA LoopsEndIInv ==
  ASSUME IInv, TypeOK', IsFiniteSet(loops'), NEW ended \in SUBSET loops, loops' = loops \ ended,
         isConnected' => isConnected, deaf \subseteq deaf',
         isConnected' => \A l \in ended : l.reader \in deaf',
         ~isConnected' /\ isConnected => ended # {},
         \A r \in deaf' \ deaf : \E l \in ended : l.reader = r,
         UNCHANGED <<port, streams, broken, portState, held, pc, crossed>>
  PROVE  IInv'
<1>1. HeldPortsAreOpen'
  BY DEF IInv, HeldPortsAreOpen
<1>2. ReaderIsWatched'
  <2>1. SUFFICES ASSUME isConnected', streams \notin deaf' PROVE ReaderIsWatched'
    BY DEF ReaderIsWatched
  <2>2. isConnected /\ streams \notin deaf
    BY <2>1
  <2>3. LoopsOn(streams)' = LoopsOn(streams)
    BY <2>1 DEF LoopsOn
  <2> QED BY <2>2, <2>3 DEF IInv, ReaderIsWatched
<1>3. ASSUME ~crossed' PROVE OneAtATime' /\ OneLoopOrNone'
  <2>1. OneAtATime /\ OneLoopOrNone
    BY <1>3 DEF IInv
  <2>2. /\ ~isConnected' => loops' = {}
        /\ isConnected' /\ streams \in deaf' => loops' = {}
        /\ isConnected' /\ streams \notin deaf' => isConnected /\ streams \notin deaf /\ loops' = loops
    BY <2>1, LosingUncrossed
  <2>3. OneLoopOrNone'
    BY <2>1, <2>2 DEF OneLoopOrNone
  <2>4. OneAtATime'
    BY <2>1, <2>2 DEF OneAtATime, Opening, Disconnecting, Active
  <2> QED BY <2>3, <2>4
<1> QED BY <1>1, <1>2, <1>3 DEF IInv

LEMMA ReadThrowsIInv ==
  ASSUME IInv, NEW l \in loops, ReadThrows(l)
  PROVE  IInv'
<1>1. /\ LoopsEnd({}, {l}, faults + 1)
      /\ UNCHANGED <<port, streams, sessions, broken, portState, held, pc, connects, asked, crossed>>
  BY DEF ReadThrows, userVars
<1>2. TypeOK /\ IsFiniteSet(loops) /\ {l} \in SUBSET loops /\ {} \in SUBSET loops /\ {} \cup {l} = {l}
  BY DEF IInv
<1>3. faults + 1 \in Nat
  BY <1>2 DEF TypeOK
<1>4. Lost({l})
  BY <1>1, <1>2, <1>3, Losing
<1>5. TypeOK'
  BY <1>1, <1>2, <1>4 DEF TypeOK, Lost
<1> QED BY <1>1, <1>2, <1>4, <1>5, LoopsEndIInv DEF Lost

LEMMA ReadAbortsIInv ==
  ASSUME IInv, NEW l \in loops, ReadAborts(l)
  PROVE  IInv'
<1>1. /\ loops' = loops \ {l} /\ deaf' = deaf \cup {l.reader}
      /\ faults < MaxFaults /\ faults' = faults + 1
      /\ UNCHANGED <<isConnected, port, streams, reconnectAttempts, sessions, timers, broken, portState,
                     held, pc, connects, asked, crossed>>
  BY DEF ReadAborts, userVars
<1>2. TypeOK /\ IsFiniteSet(loops) /\ {l} \in SUBSET loops /\ l.reader \in 1..sessions
  BY DEF IInv, TypeOK
<1>3. IsFiniteSet(loops')
  BY <1>1, <1>2, FS_RemoveElement
<1>4. faults' \in 0..MaxFaults
  BY <1>1, <1>2, BoundsAssumption DEF TypeOK
<1>5. TypeOK'
  BY <1>1, <1>2, <1>4 DEF TypeOK
<1> QED BY <1>1, <1>2, <1>3, <1>5, LoopsEndIInv

(* The device goes: if it was the one of the connection, the loops that    *)
(* watch its reader tell, or the connection is deaf.                       *)
LEMMA DeviceGoesIInv ==
  ASSUME IInv, NEW p \in Ports, DeviceGoes(p)
  PROVE  IInv'
<1> DEFINE ended == IF held[p] = 0 THEN {} ELSE LoopsOn(held[p])
<1>1. /\ portState[p] = "open" /\ held' = [held EXCEPT ![p] = 0]
      /\ UNCHANGED <<port, streams, sessions, broken, pc, connects, asked, crossed>>
  BY DEF DeviceGoes, userVars
<1>2. PICK s \in {"closed", "lost"} : portState' = [portState EXCEPT ![p] = s]
  BY DEF DeviceGoes
<1>3. PICK done \in SUBSET ended : LoopsEnd(done, ended \ done, faults + 1)
  BY DEF DeviceGoes
<1>4. TypeOK /\ IsFiniteSet(loops) /\ ended \in SUBSET loops
  BY DEF IInv, LoopsOn
<1>5. held[p] = streams /\ streams # 0 => ended = LoopsOn(streams)
  OBVIOUS
<1> HIDE DEF ended
<1>6. Lost(ended)
  <2>1. /\ done \in SUBSET loops /\ ended \ done \in SUBSET loops /\ faults + 1 \in Nat
        /\ done \cup (ended \ done) = ended
    BY <1>4 DEF TypeOK
  <2>2. Lost(done \cup (ended \ done))
    BY <1>3, <1>4, <2>1, Losing
  <2> QED BY <2>1, <2>2
<1>7. TypeOK'
  <2>1. held' \in [Ports -> 0..sessions']
    BY <1>1, <1>4 DEF TypeOK
  <2>2. portState' \in [Ports -> {"closed", "opening", "open", "closing", "lost"}]
    BY <1>2, <1>4 DEF TypeOK
  <2> QED BY <1>1, <1>4, <1>6, <2>1, <2>2 DEF TypeOK, Lost
<1>8. HeldPortsAreOpen'
  BY <1>1, <1>2, <1>4 DEF IInv, TypeOK, HeldPortsAreOpen
<1>9. ASSUME isConnected', streams' \notin deaf'
      PROVE  /\ isConnected /\ streams \notin deaf /\ held[p] # streams
             /\ LoopsOn(streams)' = LoopsOn(streams)
  <2>1. isConnected /\ streams \notin deaf /\ streams \notin deaf'
    BY <1>1, <1>6, <1>9 DEF Lost
  <2>2. \A k \in ended : k.reader # streams
    BY <1>6, <1>9, <2>1 DEF Lost
  <2>3. streams # 0 /\ LoopsOn(streams) # {}
    BY <2>1 DEF IInv, ReaderIsWatched
  <2>4. held[p] # streams
    BY <1>5, <2>2, <2>3 DEF LoopsOn
  <2>5. LoopsOn(streams)' = LoopsOn(streams)
    BY <1>1, <1>6, <2>2 DEF LoopsOn, Lost
  <2> QED BY <2>1, <2>4, <2>5
<1>10. ReaderIsWatched'
  <2>1. SUFFICES ASSUME isConnected', streams' \notin deaf'
                 PROVE  /\ streams' # 0 /\ LoopsOn(streams)' # {}
                        /\ \E q \in Ports : held'[q] = streams' /\ portState'[q] \in {"open", "closing"}
    BY DEF ReaderIsWatched
  <2>2. PICK q \in Ports : held[q] = streams /\ portState[q] \in {"open", "closing"}
    BY <1>9, <2>1 DEF IInv, ReaderIsWatched
  <2>3. q # p /\ held'[q] = streams' /\ portState'[q] \in {"open", "closing"}
    BY <1>1, <1>2, <1>4, <1>9, <2>1, <2>2 DEF TypeOK
  <2>4. streams' # 0 /\ LoopsOn(streams)' # {}
    BY <1>1, <1>9, <2>1 DEF IInv, ReaderIsWatched
  <2> QED BY <2>3, <2>4
<1>11. ASSUME ~crossed' PROVE OneAtATime' /\ OneLoopOrNone'
  <2>1. OneAtATime /\ OneLoopOrNone
    BY <1>1, <1>11 DEF IInv
  <2>2. /\ ~isConnected' => loops' = {}
        /\ isConnected' /\ streams \in deaf' => loops' = {}
        /\ isConnected' /\ streams \notin deaf' => isConnected /\ streams \notin deaf /\ loops' = loops
    BY <1>1, <1>4, <1>6, <2>1, LosingUncrossed DEF Lost
  <2>3. \A q \in Ports : portState'[q] \in {"opening", "closing"} => portState'[q] = portState[q]
    BY <1>2, <1>4 DEF TypeOK
  <2>4. isConnected' /\ streams \notin deaf' => port # p
    BY <1>1, <1>9, <2>1, <2>2 DEF OneLoopOrNone
  <2>5. OneLoopOrNone'
    BY <1>1, <1>2, <1>4, <2>1, <2>2, <2>4 DEF OneLoopOrNone, TypeOK
  <2>6. OneAtATime'
    BY <1>1, <1>6, <2>1, <2>2, <2>3 DEF OneAtATime, Opening, Disconnecting, Active, Lost
  <2> QED BY <2>5, <2>6
<1> QED BY <1>6, <1>7, <1>8, <1>10, <1>11 DEF IInv, Lost

-----------------------------------------------------------------------------
(* disconnect() ends the reads of the connection's reader, whose loops     *)
(* take that for a lost connection: unless it is deaf, the machine is not  *)
(* connected from then on.                                                 *)
LEMMA DisconnectIInv ==
  ASSUME IInv, NEW d \in Calls, Disconnect(d)
  PROVE  IInv'
<1> DEFINE ended == LoopsOn(streams)
<1>1. /\ isConnected /\ pc[d] = "notCalled" /\ pc' = [pc EXCEPT ![d] = "cancelling"]
      /\ LoopsEnd(ended, {}, faults)
      /\ held' = [p \in Ports |-> IF held[p] = streams THEN 0 ELSE held[p]]
      /\ asked' = "disconnect" /\ crossed' = (crossed \/ Opening \/ Disconnecting)
      /\ UNCHANGED <<port, streams, sessions, broken, portState, connects>>
  BY DEF Disconnect
<1>2. TypeOK /\ IsFiniteSet(loops) /\ ended \in SUBSET loops
  BY DEF IInv, LoopsOn
<1>3. streams \notin deaf => \E l \in ended : l.reader = streams
  BY <1>1 DEF IInv, LoopsOn, ReaderIsWatched
<1> HIDE DEF ended
<1>4. Lost(ended)
  <2>1. {} \in SUBSET loops /\ ended \cup {} = ended /\ faults \in Nat
    BY <1>2 DEF TypeOK
  <2>2. Lost(ended \cup {})
    BY <1>1, <1>2, <2>1, Losing
  <2> QED BY <2>1, <2>2
<1>5. isConnected' => streams \in deaf'
  BY <1>3, <1>4 DEF Lost
<1>6. TypeOK'
  <2>1. held' \in [Ports -> 0..sessions']
    BY <1>1, <1>2 DEF TypeOK
  <2>2. crossed' \in BOOLEAN
    BY <1>1, <1>2 DEF TypeOK, Opening, Disconnecting
  <2>3. pc' \in [Calls -> {"notCalled", "cancelling", "closingWriter", "closingPort", "resolved", "rejected"}]
    BY <1>1, <1>2 DEF TypeOK
  <2> QED BY <1>1, <1>2, <1>4, <2>1, <2>2, <2>3 DEF TypeOK, Lost
<1>7. HeldPortsAreOpen' /\ ReaderIsWatched'
  BY <1>1, <1>5 DEF IInv, HeldPortsAreOpen, ReaderIsWatched
<1>8. ASSUME ~crossed' PROVE OneAtATime' /\ OneLoopOrNone'
  <2>1. OneAtATime /\ OneLoopOrNone /\ ~Opening /\ ~Disconnecting
    BY <1>1, <1>8 DEF IInv
  <2>2. /\ ~isConnected' => loops' = {}
        /\ isConnected' /\ streams \in deaf' => loops' = {}
    BY <1>1, <1>2, <1>4, <2>1, LosingUncrossed DEF Lost
  <2>3. OneLoopOrNone'
    BY <1>1, <1>5, <2>2 DEF OneLoopOrNone
  <2>4. ~Opening' /\ \A p \in Ports : portState'[p] # "opening" /\ portState'[p] # "closing"
    BY <1>1, <2>1 DEF Opening, Disconnecting, OneAtATime
  <2>5. \A e, f \in Calls : Active(e)' /\ Active(f)' => e = f
    BY <1>1, <1>2, <2>1 DEF Active, Disconnecting, TypeOK
  <2>6. OneAtATime'
    BY <1>1, <1>5, <2>4, <2>5 DEF OneAtATime
  <2> QED BY <2>3, <2>6
<1> QED BY <1>4, <1>6, <1>7, <1>8 DEF IInv, Lost

(* A step of disconnect() past its first await that leaves the loops       *)
(* alone: unless calls crossed, the machine is disconnected already or its *)
(* connection is deaf, and no other call is under way.                     *)
LEMMA DisconnectingUncrossed ==
  ASSUME IInv, ~crossed, NEW d \in Calls, Active(d)
  PROVE  /\ isConnected => streams \in deaf
         /\ loops = {} /\ ~Opening
         /\ \A e \in Calls : Active(e) => e = d
         /\ \A p \in Ports : portState[p] # "opening"
         /\ \A p \in Ports : portState[p] = "closing" => p = port /\ pc[d] = "closingPort"
<1>1. OneAtATime /\ OneLoopOrNone /\ Disconnecting
  BY DEF IInv, Active, Disconnecting
<1>2. \A e \in Calls : pc[e] = "closingPort" => Active(e)
  BY DEF Active
<1> QED BY <1>1, <1>2 DEF OneAtATime, OneLoopOrNone, Opening

(* The connection is cleared.                                              *)
LEMMA FinishIInv ==
  ASSUME IInv, NEW d \in Calls, Active(d), Finish(d), TypeOK',
         UNCHANGED <<loops, held, broken, deaf, crossed>>,
         \A p \in Ports : held[p] # 0 => portState'[p] \in {"open", "closing"},
         \A p \in Ports : portState'[p] = "opening" => portState[p] = "opening",
         ~crossed => \A p \in Ports : portState'[p] # "closing"
  PROVE  IInv'
<1>1. /\ pc' = [pc EXCEPT ![d] = "resolved"] /\ isConnected' = FALSE /\ streams' = 0 /\ port' = NoPort
  BY DEF Finish
<1>2. HeldPortsAreOpen' /\ ReaderIsWatched'
  BY <1>1 DEF HeldPortsAreOpen, ReaderIsWatched
<1>3. ASSUME ~crossed' PROVE OneAtATime' /\ OneLoopOrNone'
  <2>1. /\ loops = {} /\ \A e \in Calls : Active(e) => e = d
        /\ \A p \in Ports : portState'[p] # "opening" /\ portState'[p] # "closing"
    BY <1>3, DisconnectingUncrossed
  <2>2. \A e \in Calls : ~Active(e)'
    BY <1>1, <2>1 DEF Active, IInv, TypeOK
  <2>3. ~Opening' /\ ~Disconnecting'
    BY <2>1, <2>2 DEF Opening, Disconnecting, Active
  <2>4. OneAtATime'
    BY <2>1, <2>2, <2>3 DEF OneAtATime
  <2>5. OneLoopOrNone'
    BY <1>1, <2>1 DEF OneLoopOrNone
  <2> QED BY <2>4, <2>5
<1> QED BY <1>2, <1>3 DEF IInv

(* disconnect() goes on, and the connection stays as it is.                *)
LEMMA GoesOnIInv ==
  ASSUME IInv, NEW d \in Calls, Active(d), TypeOK',
         NEW s \in {"closingWriter", "closingPort", "rejected"}, pc' = [pc EXCEPT ![d] = s],
         UNCHANGED <<isConnected, streams, port, loops, held, deaf, crossed>>,
         \A p \in Ports : portState[p] \in {"open", "closing"} => portState'[p] \in {"open", "closing"},
         \A p \in Ports : portState'[p] = "opening" => portState[p] = "opening",
         ~crossed => \A p \in Ports : portState'[p] = "closing" => p = port /\ s = "closingPort"
  PROVE  IInv'
<1>1. TypeOK
  BY DEF IInv
<1>2. HeldPortsAreOpen' /\ ReaderIsWatched'
  BY DEF IInv, HeldPortsAreOpen, ReaderIsWatched, LoopsOn
<1>3. ASSUME ~crossed' PROVE OneAtATime' /\ OneLoopOrNone'
  <2>1. /\ isConnected => streams \in deaf
        /\ loops = {} /\ \A e \in Calls : Active(e) => e = d
        /\ \A p \in Ports : portState'[p] # "opening"
        /\ \A p \in Ports : portState'[p] = "closing" => p = port /\ s = "closingPort"
    BY <1>3, DisconnectingUncrossed
  <2>2. \A e \in Calls : Active(e)' => e = d
    BY <1>1, <2>1 DEF Active, TypeOK
  <2>3. pc'[d] = s
    BY <1>1 DEF TypeOK
  <2>4. OneAtATime'
    BY <2>1, <2>2, <2>3 DEF OneAtATime, Opening
  <2>5. OneLoopOrNone'
    BY <2>1 DEF OneLoopOrNone
  <2> QED BY <2>4, <2>5
<1> QED BY <1>2, <1>3 DEF IInv

LEMMA ClosePortIInv ==
  ASSUME IInv, NEW d \in Calls, pc[d] \in {"cancelling", "closingWriter"}, ClosePort(d),
         UNCHANGED <<reconnectAttempts, sessions, loops, timers, broken, held, deaf, connects, faults, crossed>>
  PROVE  IInv'
<1>1. TypeOK /\ Active(d) /\ pc[d] # "closingPort"
  BY DEF IInv, Active
<1>2. ~crossed => \A p \in Ports : portState[p] # "closing"
  BY <1>1, DisconnectingUncrossed
<1>3. CASE PortReadable /\ UNCHANGED <<isConnected, streams, port, asked>>
  <2>1. /\ port \in Ports /\ portState[port] = "open" /\ portState' = [portState EXCEPT ![port] = "closing"]
        /\ pc' = [pc EXCEPT ![d] = "closingPort"]
    BY <1>1, <1>3 DEF ClosePort, PortReadable, Finish, TypeOK
  <2>2. TypeOK'
    BY <1>1, <1>3, <2>1 DEF TypeOK
  <2>3. /\ \A p \in Ports : portState[p] \in {"open", "closing"} => portState'[p] \in {"open", "closing"}
        /\ \A p \in Ports : portState'[p] = "opening" => portState[p] = "opening"
        /\ ~crossed => \A p \in Ports : portState'[p] = "closing" => p = port
    BY <1>1, <1>2, <2>1 DEF TypeOK
  <2> QED BY <1>1, <1>3, <2>1, <2>2, <2>3, GoesOnIInv
<1>4. CASE Finish(d) /\ UNCHANGED portState
  <2>1. TypeOK'
    <3>1. asked' \in {"nothing", "connect", "disconnect", "disconnected"}
      BY <1>1, <1>4 DEF Finish, TypeOK
    <3>2. pc' \in [Calls -> {"notCalled", "cancelling", "closingWriter", "closingPort", "resolved", "rejected"}]
      BY <1>1, <1>4 DEF Finish, TypeOK
    <3>3. isConnected' = FALSE /\ streams' = 0 /\ port' = NoPort /\ portState' = portState
      BY <1>4 DEF Finish
    <3>4. streams' \in 0..sessions' /\ held' \in [Ports -> 0..sessions'] /\ sessions' \in Nat
      BY <1>1, <3>3 DEF TypeOK
    <3>5. /\ reconnectAttempts' \in 0..maxReconnectAttempts /\ timers' \in Nat
          /\ loops' \subseteq [loop : 1..sessions', reader : 1..sessions']
          /\ broken' \subseteq 1..sessions' /\ deaf' \subseteq 1..sessions'
          /\ connects' \in 0..MaxConnects /\ faults' \in 0..MaxFaults /\ crossed' \in BOOLEAN
      BY <1>1 DEF TypeOK
    <3> QED BY <1>1, <3>1, <3>2, <3>3, <3>4, <3>5 DEF TypeOK
  <2>2. HeldPortsAreOpen
    BY DEF IInv
  <2> QED BY <1>1, <1>2, <1>4, <2>1, <2>2, FinishIInv DEF HeldPortsAreOpen
<1> QED BY <1>3, <1>4 DEF ClosePort

LEMMA CancelledIInv ==
  ASSUME IInv, NEW d \in Calls, Cancelled(d)
  PROVE  IInv'
<1>1. /\ TypeOK /\ pc[d] = "cancelling" /\ Active(d)
      /\ UNCHANGED <<reconnectAttempts, sessions, loops, timers, held, deaf, connects, faults, crossed>>
  BY DEF Cancelled, IInv, Active
<1>2. CASE ClosePort(d) /\ UNCHANGED broken
  BY <1>1, <1>2, ClosePortIInv
<1>3. CASE /\ streams # 0 /\ broken' = broken \cup {streams}
           /\ pc' = [pc EXCEPT ![d] = "closingWriter"]
           /\ UNCHANGED <<isConnected, streams, port, asked, portState>>
  <2>1. TypeOK'
    BY <1>1, <1>3 DEF TypeOK
  <2>2. ~crossed => \A p \in Ports : portState[p] # "closing"
    BY <1>1, DisconnectingUncrossed
  <2> QED BY <1>1, <1>3, <2>1, <2>2, GoesOnIInv
<1> QED BY <1>2, <1>3 DEF Cancelled

LEMMA WriterClosedIInv ==
  ASSUME IInv, NEW d \in Calls, WriterClosed(d)
  PROVE  IInv'
BY ClosePortIInv DEF WriterClosed

LEMMA PortClosedIInv ==
  ASSUME IInv, NEW d \in Calls, NEW p \in Ports, PortClosed(d, p)
  PROVE  IInv'
<1>1. /\ TypeOK /\ pc[d] = "closingPort" /\ Active(d)
      /\ portState[p] = "closing" /\ held[p] = 0
      /\ portState' = [portState EXCEPT ![p] = "closed"] /\ Finish(d)
      /\ UNCHANGED <<reconnectAttempts, sessions, loops, timers, broken, held, deaf, connects, faults, crossed>>
  BY DEF PortClosed, IInv, Active
<1>2. TypeOK'
  BY <1>1 DEF Finish, TypeOK
<1>3. \A q \in Ports : held[q] # 0 => portState'[q] \in {"open", "closing"}
  BY <1>1 DEF IInv, HeldPortsAreOpen, TypeOK
<1>4. ~crossed => \A q \in Ports : portState'[q] # "closing"
  <2>1. SUFFICES ASSUME ~crossed, NEW q \in Ports, portState'[q] = "closing" PROVE FALSE
    OBVIOUS
  <2>2. q # p /\ portState[q] = "closing"
    BY <1>1, <2>1 DEF TypeOK
  <2>3. q = port /\ p = port
    BY <1>1, <2>1, <2>2, DisconnectingUncrossed
  <2> QED BY <2>2, <2>3
<1>5. \A q \in Ports : portState'[q] = "opening" => portState[q] = "opening"
  BY <1>1 DEF TypeOK
<1> QED BY <1>1, <1>2, <1>3, <1>4, <1>5, FinishIInv

LEMMA DisconnectRejectsIInv ==
  ASSUME IInv, NEW d \in Calls, DisconnectRejects(d)
  PROVE  IInv'
<1>1. /\ TypeOK /\ Active(d) /\ pc' = [pc EXCEPT ![d] = "rejected"]
      /\ portState' = [p \in Ports |-> IF pc[d] = "closingPort" /\ portState[p] = "closing" THEN "open" ELSE portState[p]]
      /\ UNCHANGED <<isConnected, port, streams, loops, broken, held, deaf, crossed>>
  BY DEF DisconnectRejects, IInv, Active
<1>2. TypeOK'
  <2>1. portState' \in [Ports -> {"closed", "opening", "open", "closing", "lost"}]
    BY <1>1 DEF TypeOK
  <2> QED BY <1>1, <2>1 DEF DisconnectRejects, userVars, TypeOK
<1>3. ~crossed => \A p \in Ports : portState[p] = "closing" => pc[d] = "closingPort"
  BY <1>1, DisconnectingUncrossed
<1>4. /\ \A p \in Ports : portState[p] \in {"open", "closing"} => portState'[p] \in {"open", "closing"}
      /\ \A p \in Ports : portState'[p] = "opening" => portState[p] = "opening"
      /\ ~crossed => \A p \in Ports : portState'[p] # "closing"
  BY <1>1, <1>3
<1> QED BY <1>1, <1>2, <1>3, <1>4, GoesOnIInv

LEMMA IInvStep == IInv /\ [Next]_vars => IInv'
<1> SUFFICES ASSUME IInv, [Next]_vars PROVE IInv'
  OBVIOUS
<1>1. CASE UNCHANGED vars
  <2>1. TypeOK' /\ IsFiniteSet(loops')
    BY <1>1 DEF vars, userVars, IInv, TypeOK
  <2>2. HeldPortsAreOpen' /\ ReaderIsWatched'
    BY <1>1 DEF vars, userVars, IInv, HeldPortsAreOpen, ReaderIsWatched, LoopsOn
  <2>3. ~crossed' => OneAtATime' /\ OneLoopOrNone'
    BY <1>1 DEF vars, userVars, IInv, OneAtATime, OneLoopOrNone, Opening, Disconnecting, Active
  <2> QED BY <2>1, <2>2, <2>3 DEF IInv
<1>2. CASE \E p \in Ports : UserConnects(p) \/ OpenRejects(p) \/ OpenResolves(p) \/ DeviceGoes(p)
  BY <1>2, UserConnectsIInv, OpenRejectsIInv, OpenResolvesIInv, DeviceGoesIInv
<1>3. CASE \E l \in loops : Read(l) \/ ReadThrows(l) \/ ReadAborts(l)
  BY <1>3, ReadIInv, ReadThrowsIInv, ReadAbortsIInv
<1>4. CASE TimerFires
  BY <1>4, TimerFiresIInv
<1>5. CASE \E d \in Calls : Disconnect(d) \/ Cancelled(d) \/ WriterClosed(d) \/ DisconnectRejects(d)
  BY <1>5, DisconnectIInv, CancelledIInv, WriterClosedIInv, DisconnectRejectsIInv
<1>6. CASE \E d \in Calls, p \in Ports : PortClosed(d, p)
  BY <1>6, PortClosedIInv
<1> QED BY <1>1, <1>2, <1>3, <1>4, <1>5, <1>6 DEF Next

(* The link's variables have their types: the attempts stay within the     *)
(* limit of handleDisconnect, and no reader is of a connect() to come.     *)
THEOREM TypeCorrect == Spec => []TypeOK
<1>1. IInv => TypeOK
  BY DEF IInv
<1> QED BY <1>1, IInvInit, IInvStep, PTL DEF Spec

(* While it says it is connected, and no exception of a listener or an     *)
(* AbortError made the connection deaf, its reader holds an open port and  *)
(* the loss of the device is noticed; and unless a connect() was begun while   *)
(* another call was under way, the port is this.port, exactly one loop     *)
(* reads from it, and its writer is usable (connect, disconnect, the       *)
(* reading loop, handleDisconnect and its timer).                          *)
THEOREM WholeConnection == Spec => []ConnectionIsWhole
<1>1. IInv => ConnectionIsWhole
  <2>1. ASSUME IInv, isConnected, streams \notin deaf, ~crossed
        PROVE  /\ port # NoPort /\ portState[port] = "open" /\ held[port] = streams
               /\ Cardinality(loops) = 1 /\ \A l \in loops : l.reader = streams
               /\ streams \notin broken
    <3>1. /\ port # NoPort /\ portState[port] = "open" /\ held[port] = streams /\ streams \notin broken
          /\ \E l \in loops : loops = {l} /\ l.reader = streams
      BY <2>1 DEF IInv, OneLoopOrNone
    <3> QED BY <3>1, FS_Singleton
  <2>2. ASSUME IInv, isConnected, streams \notin deaf
        PROVE  \E p \in Ports : held[p] = streams /\ portState[p] \in {"open", "closing"}
    BY <2>2 DEF IInv, ReaderIsWatched
  <2> QED BY <2>1, <2>2 DEF ConnectionIsWhole
<1> QED BY <1>1, IInvInit, IInvStep, PTL DEF Spec

-----------------------------------------------------------------------------
(* A disconnect() that has resolved is final.                              *)
LEMMA FinalInit == Init => Final
BY DEF Init, Final

(* A lost connection never is a new one.                                   *)
LEMMA LossOnly ==
  ASSUME NEW done, NEW failed, NEW f, LoopsEnd(done, failed, f)
  PROVE  isConnected' => isConnected
BY DEF LoopsEnd

(* The ends of disconnect().                                               *)
LEMMA FinishFinal ==
  ASSUME NEW d, Finish(d)
  PROVE  Final'
BY DEF Finish, Final

LEMMA ClosePortFinal ==
  ASSUME Final, NEW d, ClosePort(d)
  PROVE  Final'
<1>1. CASE Finish(d)
  BY <1>1, FinishFinal
<1>2. CASE UNCHANGED <<isConnected, streams, port, asked>>
  BY <1>2 DEF Final
<1> QED BY <1>1, <1>2 DEF ClosePort

LEMMA FinalStep == Final /\ [Next]_vars => Final'
<1> SUFFICES ASSUME Final, [Next]_vars PROVE Final'
  OBVIOUS
<1>1. CASE UNCHANGED vars
  BY <1>1 DEF vars, userVars, Final
<1>2. ASSUME NEW p \in Ports, UserConnects(p) PROVE Final'
  BY <1>2 DEF UserConnects, Final
<1>3. ASSUME NEW p \in Ports, OpenRejects(p) PROVE Final'
  BY <1>3 DEF OpenRejects, userVars, Final
<1>4. ASSUME NEW p \in Ports, OpenResolves(p) PROVE Final'
  <2>1. port' = port /\ asked' = asked
    BY <1>4 DEF OpenResolves, userVars
  <2>2. CASE Readable(p)
    <3>1. port # NoPort
      BY <2>2 DEF Readable
    <3> QED BY <2>1, <3>1 DEF Final
  <2>3. CASE ~Readable(p)
    <3>1. isConnected' = isConnected
      BY <1>4, <2>3 DEF OpenResolves
    <3> QED BY <2>1, <3>1 DEF Final
  <2> QED BY <2>2, <2>3
<1>5. ASSUME NEW p \in Ports, DeviceGoes(p) PROVE Final'
  <2>1. port' = port /\ asked' = asked
    BY <1>5 DEF DeviceGoes, userVars
  <2>2. isConnected' => isConnected
    BY <1>5, LossOnly DEF DeviceGoes
  <2> QED BY <2>1, <2>2 DEF Final
<1>6. ASSUME NEW l \in loops, Read(l) PROVE Final'
  BY <1>6 DEF Read, userVars, Final
<1>7. ASSUME NEW l \in loops, ReadThrows(l) PROVE Final'
  <2>1. port' = port /\ asked' = asked
    BY <1>7 DEF ReadThrows, userVars
  <2>2. isConnected' => isConnected
    BY <1>7, LossOnly DEF ReadThrows
  <2> QED BY <2>1, <2>2 DEF Final
<1>14. ASSUME NEW l \in loops, ReadAborts(l) PROVE Final'
  BY <1>14 DEF ReadAborts, userVars, Final
<1>8. CASE TimerFires
  <2>1. isConnected' = isConnected /\ asked' = asked
    BY <1>8 DEF TimerFires, userVars
  <2>2. port = NoPort => port' = port
    BY <1>8 DEF TimerFires
  <2> QED BY <2>1, <2>2 DEF Final
<1>9. ASSUME NEW d \in Calls, Disconnect(d) PROVE Final'
  BY <1>9 DEF Disconnect, Final
<1>10. ASSUME NEW d \in Calls, Cancelled(d) PROVE Final'
  <2>1. CASE ClosePort(d)
    BY <2>1, ClosePortFinal
  <2>2. CASE UNCHANGED <<isConnected, streams, port, asked, portState>>
    BY <2>2 DEF Final
  <2> QED BY <1>10, <2>1, <2>2 DEF Cancelled
<1>11. ASSUME NEW d \in Calls, WriterClosed(d) PROVE Final'
  BY <1>11, ClosePortFinal DEF WriterClosed
<1>12. ASSUME NEW d \in Calls, NEW p \in Ports, PortClosed(d, p) PROVE Final'
  BY <1>12, FinishFinal DEF PortClosed
<1>13. ASSUME NEW d \in Calls, DisconnectRejects(d) PROVE Final'
  BY <1>13 DEF DisconnectRejects, userVars, Final
<1> QED
  BY <1>1, <1>2, <1>3, <1>4, <1>5, <1>6, <1>7, <1>8, <1>9, <1>10, <1>11, <1>12, <1>13, <1>14 DEF Next

(* Once disconnect() has resolved, the machine stays disconnected until    *)
(* the user connects again (disconnect, handleDisconnect and its timer).   *)
THEOREM StaysDisconnected == Spec => []DisconnectIsFinal
<1>1. Final => DisconnectIsFinal
  BY DEF Final, DisconnectIsFinal
<1> QED BY <1>1, FinalInit, FinalStep, PTL DEF Spec
=============================================================================
