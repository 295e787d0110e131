---------------------------- MODULE WebSerialLink ----------------------------
(***************************************************************************)
(* The link to the controller of modules/hardware/webserial-api.mjs: one   *)
(* WebSerialAPI object and the serial ports of the browser under it.       *)
(*                                                                         *)
(* connect(), disconnect(), the reading loops and the reconnect timers     *)
(* share isConnected, port, reader and writer, and each awaits the port in *)
(* the middle: the calls of one may come between two steps of another.     *)
(* A step here runs from one await to the next.                            *)
(*                                                                         *)
(* reader and writer are set and cleared together: `streams' is the number *)
(* of the successful connect() that made both, 0 for null.                 *)
(*                                                                         *)
(* A port is "lost" when its device has gone and the browser still holds   *)
(* it open: it has no readable stream and open() rejects.                  *)
(*                                                                         *)
(* Events are emitted in the middle of a step, and a listener that throws  *)
(* ends it there.  Such an exception is a fault, as a device that goes is. *)
(***************************************************************************)
EXTENDS Integers, FiniteSets

CONSTANTS Ports, NoPort,
          maxReconnectAttempts,
          MaxConnects, MaxDisconnects, MaxFaults   \* bounds: calls of the user, faults

ASSUME NoPortAssumption == NoPort \notin Ports
ASSUME BoundsAssumption ==
  maxReconnectAttempts \in Nat /\ MaxConnects \in Nat /\ MaxDisconnects \in Nat /\ MaxFaults \in Nat

Calls == 1..MaxDisconnects

VARIABLES isConnected, port, streams, reconnectAttempts,
          sessions,     \* successful connects so far
          loops,        \* the reading loops: the one of connect `loop' awaits a read of `reader'
          timers,       \* reconnect timeouts to come
          broken,       \* the streams whose writer was closed
          portState, held,   \* the ports, and whose reader holds each (0: nobody's)
          deaf,         \* history: the streams whose reading loop an exception kept from starting or telling
          pc,           \* disconnect call -> how far it has got
          connects, faults,  \* how many there were
          asked,        \* history: what the user asked for last, and got
          crossed       \* history: a connect() began while a disconnect() or another open() was under way

userVars == <<connects, asked>>
vars == <<isConnected, port, streams, reconnectAttempts, sessions, loops, timers, broken,
          portState, held, deaf, pc, faults, crossed, userVars>>

Init ==
  /\ isConnected = FALSE /\ port = NoPort /\ streams = 0 /\ reconnectAttempts = 0
  /\ sessions = 0 /\ loops = {} /\ timers = 0 /\ broken = {} /\ deaf = {}
  /\ portState = [p \in Ports |-> "closed"] /\ held = [p \in Ports |-> 0]
  /\ pc = [d \in Calls |-> "notCalled"]
  /\ connects = 0 /\ faults = 0
  /\ asked = "nothing" /\ crossed = FALSE

Disconnecting == \E d \in Calls : pc[d] \in {"cancelling", "closingWriter", "closingPort"}
Opening == \E p \in Ports : portState[p] = "opening"

----------------------------------------------------------------------------
\* connect(p) up to its await.  The port is this.port from now on, even if
\* open() rejects, as it does at once for a port that is not closed.
Connect(p) ==
  /\ ~isConnected
  /\ port' = p
  /\ portState' = IF portState[p] = "closed" THEN [portState EXCEPT ![p] = "opening"] ELSE portState
  /\ crossed' = (crossed \/ Disconnecting \/ Opening)

UserConnects(p) ==
  /\ connects < MaxConnects
  /\ Connect(p)
  /\ connects' = connects + 1
  /\ asked' = "connect"
  /\ UNCHANGED <<isConnected, streams, reconnectAttempts, sessions, loops, timers, broken, held, deaf, pc, faults>>

OpenRejects(p) ==
  /\ portState[p] = "opening"
  /\ portState' = [portState EXCEPT ![p] = "closed"]
  /\ UNCHANGED <<isConnected, port, streams, reconnectAttempts, sessions, loops, timers, broken, held, deaf, pc, faults, crossed, userVars>>

\* getReader() of this.port succeeds once p is open.
Readable(p) ==
  port # NoPort /\ (port = p \/ portState[port] = "open") /\ held[port] = 0

\* Mutant: the reading loop is not started.
OpenResolvesUnread(p) ==
  /\ portState[p] = "opening"
  /\ portState' = [portState EXCEPT ![p] = "open"]
  /\ \/ /\ Readable(p)
        /\ sessions' = sessions + 1
        /\ streams' = sessions'
        /\ held' = [held EXCEPT ![port] = sessions']
        /\ isConnected' = TRUE
        /\ reconnectAttempts' = 0
     \/ /\ ~Readable(p)
        /\ UNCHANGED <<sessions, streams, held, isConnected, reconnectAttempts>>
  /\ UNCHANGED <<port, loops, timers, broken, deaf, pc, faults, crossed, userVars>>

\* open() of p resolves.  connect() goes on with this.port, whatever that is
\* by now: if it has no readable stream, or one that another reader holds,
\* getReader() throws and p stays open with nobody to close it.  If a
\* listener of connected throws, connect() rejects with the connection made
\* and nothing that reads from it.
OpenResolves(p) ==
  /\ portState[p] = "opening"
  /\ portState' = [portState EXCEPT ![p] = "open"]
  /\ \/ /\ Readable(p)
        /\ sessions' = sessions + 1
        /\ streams' = sessions'
        /\ held' = [held EXCEPT ![port] = sessions']
        /\ isConnected' = TRUE
        /\ reconnectAttempts' = 0
        /\ \/ /\ loops' = loops \cup {[loop |-> sessions', reader |-> sessions']}
              /\ UNCHANGED <<deaf, faults>>
           \/ /\ faults < MaxFaults /\ faults' = faults + 1
              /\ deaf' = deaf \cup {sessions'}
              /\ UNCHANGED loops
     \/ /\ ~Readable(p)
        /\ UNCHANGED <<sessions, streams, held, isConnected, reconnectAttempts, loops, deaf, faults>>
  /\ UNCHANGED <<port, timers, broken, pc, crossed, userVars>>

----------------------------------------------------------------------------
\* The loops of `done' find the stream ended and call handleDisconnect(); those
\* of `failed' catch an exception, emit error and call it.  Listeners that
\* throw, on top of the faults f there are:
\*  - of error: the loops of `quiet' call nothing;
\*  - of reconnecting: `unarmed' attempts are counted and get no timer, and
\*    the loops of `again', which catch that, call handleDisconnect() twice.
LoopsEnd(done, failed, f) ==
  \E quiet \in SUBSET failed, again \in SUBSET done, unarmed \in 0..maxReconnectAttempts :
    LET told == (done \cup failed) \ quiet
        left == maxReconnectAttempts - reconnectAttempts
        Limited(calls) == IF calls < left THEN calls ELSE left
        n == Limited(Cardinality(told) + Cardinality(again))
    IN /\ Limited(Cardinality(again)) <= unarmed /\ unarmed <= n
       /\ faults' = f + (IF quiet \cup again = {} /\ unarmed = 0 THEN 0 ELSE 1)
       /\ faults' <= MaxFaults
       /\ loops' = loops \ (done \cup failed)
       /\ isConnected' = (isConnected /\ told = {})
       /\ deaf' = deaf \cup {l.reader : l \in quiet}
       /\ reconnectAttempts' = reconnectAttempts + n
       /\ timers' = timers + (n - unarmed)

LoopsOn(reader) == {l \in loops : l.reader = reader}

\* Data arrives: the loop reads on, from whatever this.reader is by now.
Read(l) ==
  /\ loops' = (loops \ {l}) \cup
       (IF isConnected /\ streams # 0 THEN {[l EXCEPT !.reader = streams]} ELSE {})
  /\ UNCHANGED <<isConnected, port, streams, reconnectAttempts, sessions, timers, broken, portState, held, deaf, pc, faults, crossed, userVars>>

\* A listener throws in handleData(): the catch of the loop takes it for the
\* end of the connection.  The port stays open and its reader locked.
ReadThrows(l) ==
  /\ LoopsEnd({}, {l}, faults + 1)
  /\ UNCHANGED <<port, streams, sessions, broken, portState, held, pc, crossed, userVars>>

\* The same, but what is thrown, by the read or a listener, is an AbortError.
ReadAborts(l) ==
  /\ faults < MaxFaults /\ faults' = faults + 1
  /\ loops' = loops \ {l}
  /\ deaf' = deaf \cup {l.reader}
  /\ UNCHANGED <<isConnected, port, streams, reconnectAttempts, sessions, timers, broken, portState, held, pc, crossed, userVars>>

\* The device goes: every read that awaits the port ends or rejects.
DeviceGoes(p) ==
  /\ portState[p] = "open"
  /\ \E s \in {"closed", "lost"} : portState' = [portState EXCEPT ![p] = s]
  /\ LET ended == IF held[p] = 0 THEN {} ELSE LoopsOn(held[p])
     IN \E done \in SUBSET ended : LoopsEnd(done, ended \ done, faults + 1)
  /\ held' = [held EXCEPT ![p] = 0]
  /\ UNCHANGED <<port, streams, sessions, broken, pc, crossed, userVars>>

\* The reconnect timeout.  Its connect() may be refused (Already connected);
\* whatever becomes of it, nobody looks.
TimerFires ==
  /\ timers > 0
  /\ timers' = timers - 1
  /\ \/ port # NoPort /\ Connect(port)
     \/ (port = NoPort \/ isConnected) /\ UNCHANGED <<port, portState, crossed>>
  /\ UNCHANGED <<isConnected, streams, reconnectAttempts, sessions, loops, broken, held, deaf, pc, faults, userVars>>

----------------------------------------------------------------------------
\* disconnect() up to the await of reader.cancel(), which ends the reads of
\* that reader before it resolves: their loop takes it for a lost connection.
Disconnect(d) ==
  /\ isConnected
  /\ pc[d] = "notCalled"
  /\ pc' = [pc EXCEPT ![d] = "cancelling"]
  /\ LoopsEnd(LoopsOn(streams), {}, faults)
  /\ held' = [p \in Ports |-> IF held[p] = streams THEN 0 ELSE held[p]]
  /\ asked' = "disconnect"
  /\ crossed' = (crossed \/ Opening \/ Disconnecting)
  /\ UNCHANGED <<port, streams, sessions, broken, portState, connects>>

\* Mutant: the port is remembered.
FinishKeepsPort(d) ==
  /\ pc' = [pc EXCEPT ![d] = "resolved"]
  /\ isConnected' = FALSE /\ streams' = 0
  /\ asked' = IF asked = "disconnect" THEN "disconnected" ELSE asked
  /\ UNCHANGED port

\* The end of disconnect(), which clears whatever connection there is; a
\* listener of disconnected that throws only makes it reject.
Finish(d) ==
  /\ pc' = [pc EXCEPT ![d] = "resolved"]
  /\ isConnected' = FALSE /\ streams' = 0 /\ port' = NoPort
  /\ asked' = IF asked = "disconnect" THEN "disconnected" ELSE asked

PortReadable == port # NoPort /\ portState[port] = "open"

\* Its way after the writer: the port is closed if it is readable.
ClosePort(d) ==
  \/ /\ PortReadable
     /\ portState' = [portState EXCEPT ![port] = "closing"]
     /\ pc' = [pc EXCEPT ![d] = "closingPort"]
     /\ UNCHANGED <<isConnected, streams, port, asked>>
  \/ /\ ~PortReadable
     /\ Finish(d)
     /\ UNCHANGED portState

\* reader.cancel() has resolved; the writer is the one of now.
Cancelled(d) ==
  /\ pc[d] = "cancelling"
  /\ \/ /\ streams # 0 /\ streams \notin broken
        /\ broken' = broken \cup {streams}
        /\ pc' = [pc EXCEPT ![d] = "closingWriter"]
        /\ UNCHANGED <<isConnected, streams, port, asked, portState>>
     \/ streams = 0 /\ ClosePort(d) /\ UNCHANGED broken
  /\ UNCHANGED <<reconnectAttempts, sessions, loops, timers, held, deaf, connects, faults, crossed>>

WriterClosed(d) ==
  /\ pc[d] = "closingWriter"
  /\ ClosePort(d)
  /\ UNCHANGED <<reconnectAttempts, sessions, loops, timers, broken, held, deaf, connects, faults, crossed>>

\* close() of a port whose stream a reader holds rejects.
PortClosed(d, p) ==
  /\ pc[d] = "closingPort"
  /\ portState[p] = "closing" /\ held[p] = 0
  /\ portState' = [portState EXCEPT ![p] = "closed"]
  /\ Finish(d)
  /\ UNCHANGED <<reconnectAttempts, sessions, loops, timers, broken, held, deaf, connects, faults, crossed>>

\* An await of disconnect() rejects, or writer.close() does for a writer that
\* is closed: disconnect() rejects and leaves everything as it is.
DisconnectRejects(d) ==
  /\ pc[d] \in {"cancelling", "closingWriter", "closingPort"}
  /\ pc' = [pc EXCEPT ![d] = "rejected"]
  /\ portState' = [p \in Ports |-> IF pc[d] = "closingPort" /\ portState[p] = "closing" THEN "open" ELSE portState[p]]
  /\ UNCHANGED <<isConnected, port, streams, reconnectAttempts, sessions, loops, timers, broken, held, deaf, faults, crossed, userVars>>

----------------------------------------------------------------------------
Next ==
  \/ \E p \in Ports : UserConnects(p) \/ OpenRejects(p) \/ OpenResolves(p) \/ DeviceGoes(p)
  \/ \E l \in loops : Read(l) \/ ReadThrows(l) \/ ReadAborts(l)
  \/ TimerFires
  \/ \E d \in Calls :
       \/ Disconnect(d) \/ Cancelled(d) \/ WriterClosed(d) \/ DisconnectRejects(d)
       \/ \E p \in Ports : PortClosed(d, p)

Spec == Init /\ [][Next]_vars

\* What the browser was asked for comes to an end, and timeouts expire.
FairSpec ==
  /\ Spec
  /\ WF_vars(TimerFires)
  /\ \A p \in Ports : WF_vars(OpenResolves(p) \/ OpenRejects(p))
  /\ \A d \in Calls :
       WF_vars(Cancelled(d) \/ WriterClosed(d) \/ DisconnectRejects(d) \/ \E p \in Ports : PortClosed(d, p))

----------------------------------------------------------------------------
\* Types.
TypeOK ==
  /\ isConnected \in BOOLEAN /\ crossed \in BOOLEAN
  /\ port \in Ports \cup {NoPort}
  /\ streams \in 0..sessions /\ sessions \in Nat
  /\ reconnectAttempts \in 0..maxReconnectAttempts /\ timers \in Nat
  /\ loops \subseteq [loop : 1..sessions, reader : 1..sessions]
  /\ broken \subseteq 1..sessions /\ deaf \subseteq 1..sessions
  /\ portState \in [Ports -> {"closed", "opening", "open", "closing", "lost"}]
  /\ held \in [Ports -> 0..sessions]
  /\ pc \in [Calls -> {"notCalled", "cancelling", "closingWriter", "closingPort", "resolved", "rejected"}]
  /\ connects \in 0..MaxConnects /\ faults \in 0..MaxFaults
  /\ asked \in {"nothing", "connect", "disconnect", "disconnected"}

\* Once disconnect() has resolved the machine stays disconnected until the
\* user connects again, although disconnect() itself arms a reconnect timer.
DisconnectIsFinal == asked = "disconnected" => ~isConnected

\* While it says it is connected, its reader holds a port that is open: a
\* device that goes is noticed, however the calls cross.  Unless a connect()
\* was ever begun while a disconnect() or another open() was under way, that
\* port is this.port, one loop reads from it and no other loop is left, and
\* the writer is usable.  An exception can leave it connected with nobody to
\* notice, and only this: a listener of connected threw, so that no loop was
\* started, or the loop met an AbortError or a listener of error that threw.
ConnectionIsWhole ==
  isConnected /\ streams \notin deaf =>
    /\ \E p \in Ports : held[p] = streams /\ portState[p] \in {"open", "closing"}
    /\ ~crossed =>
         /\ port # NoPort /\ portState[port] = "open" /\ held[port] = streams
         /\ Cardinality(loops) = 1 /\ \A l \in loops : l.reader = streams
         /\ streams \notin broken

\* "Retry will happen in handleDisconnect": a lost connection is tried again
\* until it is back, the attempts are used up, or the user steps in.
RetriesAreExhausted ==
  timers > 0 ~> isConnected \/ reconnectAttempts = maxReconnectAttempts \/ asked # "connect"

=============================================================================
