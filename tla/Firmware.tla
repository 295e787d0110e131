------------------------------ MODULE Firmware -------------------------------
(***************************************************************************)
(* The way of a command to the firmware, the lines it travels in, and the  *)
(* simulated firmware it is tried on.                                      *)
(***************************************************************************)
EXTENDS Integers, Sequences, FiniteSets, SequencesExt

(***************************************************************************)
(* The simulated gateway of modules/backend/firmware-gateway, the command  *)
(* queue of modules/backend/firmware-queue with the gateway as its         *)
(* handler, and the sockets of modules/backend/gateway/ws-bridge.js, which *)
(* send past the queue and hear every answer.                              *)
(*                                                                         *)
(* A command is the number it got when it was enqueued or sent; the timers *)
(* of one kind run in the order they were set.                             *)
(***************************************************************************)

CONSTANTS Sockets,
          MaxCommands, MaxCalls   \* bounds

VARIABLES connected,
          connecting, disconnecting,   \* calls of connect() and disconnect() that wait
          sent,         \* commands the gateway waits to answer, in order
          answered,     \* history: those it has answered
          queue, processing,
          fate,         \* history: command -> what became of an enqueued one
          last,         \* the commands numbered so far
          sockets,      \* open ones
          errors        \* history: sockets that were told of an error

linkVars == <<connected, connecting, disconnecting, sent, answered, queue, processing,
          fate, last, sockets, errors>>

Commands == 1..MaxCommands

LinkInit ==
  /\ connected = FALSE /\ connecting = 0 /\ disconnecting = 0
  /\ sent = <<>> /\ answered = <<>>
  /\ queue = <<>> /\ processing = {}
  /\ fate = [c \in Commands |-> "none"]
  /\ last = 0 /\ sockets = {} /\ errors = {}

Connect ==
  /\ connecting < MaxCalls /\ connecting' = connecting + 1
  /\ UNCHANGED <<connected, disconnecting, sent, answered, queue, processing, fate, last, sockets, errors>>

Connected ==
  /\ connecting > 0 /\ connecting' = connecting - 1
  /\ connected' = TRUE
  /\ UNCHANGED <<disconnecting, sent, answered, queue, processing, fate, last, sockets, errors>>

\* Until its timer runs the gateway still takes commands.
Disconnect ==
  /\ connected /\ disconnecting < MaxCalls /\ disconnecting' = disconnecting + 1
  /\ UNCHANGED <<connected, connecting, sent, answered, queue, processing, fate, last, sockets, errors>>

Disconnected ==
  /\ disconnecting > 0 /\ disconnecting' = disconnecting - 1
  /\ connected' = FALSE
  /\ UNCHANGED <<connecting, sent, answered, queue, processing, fate, last, sockets, errors>>

Enqueue ==
  /\ last < MaxCommands /\ last' = last + 1
  /\ queue' = Append(queue, last + 1)
  /\ fate' = [fate EXCEPT ![last + 1] = "queued"]
  /\ UNCHANGED <<connected, connecting, disconnecting, sent, answered, processing, sockets, errors>>

Clear ==
  /\ queue # <<>> /\ queue' = <<>>
  /\ fate' = [c \in Commands |-> IF Contains(queue, c) THEN "cleared" ELSE fate[c]]
  /\ UNCHANGED <<connected, connecting, disconnecting, sent, answered, processing, last, sockets, errors>>

\* Mutant of the next operator: the flag is not looked at.
MayProcessAlways == TRUE

MayProcess == processing = {}

\* processNext(): the command leaves the queue before sendCommand() is called, which
\* rejects it at once when the gateway is not connected.
ProcessNext ==
  /\ MayProcess /\ queue # <<>> /\ queue' = Tail(queue)
  /\ IF connected
     THEN /\ processing' = processing \cup {queue[1]} /\ sent' = Append(sent, queue[1])
          /\ fate' = [fate EXCEPT ![queue[1]] = "processing"]
     ELSE /\ fate' = [fate EXCEPT ![queue[1]] = "lost"]
          /\ UNCHANGED <<processing, sent>>
  /\ UNCHANGED <<connected, connecting, disconnecting, answered, last, sockets, errors>>

\* A blank command is falsy: dequeue() takes it, and processNext() reports an
\* empty queue.
DropBlank ==
  /\ MayProcess /\ queue # <<>> /\ queue' = Tail(queue)
  /\ fate' = [fate EXCEPT ![queue[1]] = "lost"]
  /\ UNCHANGED <<connected, connecting, disconnecting, sent, answered, processing, last, sockets, errors>>

\* Mutant of the next operator: the answers of a closed link are dropped.
AnswerIfConnected ==
  /\ sent # <<>> /\ sent' = Tail(sent)
  /\ answered' = IF connected THEN Append(answered, sent[1]) ELSE answered

\* The 10 ms timer of sendCommand(), whether or not the link is still there.
Answer ==
  /\ sent # <<>> /\ sent' = Tail(sent)
  /\ answered' = Append(answered, sent[1])

Data ==
  /\ Answer
  /\ processing' = processing \ {sent[1]}
  /\ fate' = IF sent[1] \in processing THEN [fate EXCEPT ![sent[1]] = "processed"] ELSE fate
  /\ UNCHANGED <<connected, connecting, disconnecting, queue, last, sockets, errors>>

Connection(s) ==
  /\ s \notin sockets /\ sockets' = sockets \cup {s}
  /\ UNCHANGED <<connected, connecting, disconnecting, sent, answered, queue, processing, fate, last, errors>>

Close(s) ==
  /\ s \in sockets /\ sockets' = sockets \ {s}
  /\ UNCHANGED <<connected, connecting, disconnecting, sent, answered, queue, processing, fate, last, errors>>

\* A socket's message goes to the gateway, not to the queue; only the sender hears
\* of an error.
Message(s) ==
  /\ s \in sockets /\ last < MaxCommands
  /\ last' = last + 1
  /\ IF connected
     THEN sent' = Append(sent, last + 1) /\ UNCHANGED <<errors, fate>>
     ELSE /\ errors' = errors \cup {s} /\ fate' = [fate EXCEPT ![last + 1] = "lost"]
          /\ UNCHANGED sent
  /\ UNCHANGED <<connected, connecting, disconnecting, answered, queue, processing, sockets>>

LinkNext ==
  \/ Connect \/ Connected \/ Disconnect \/ Disconnected
  \/ Enqueue \/ Clear \/ ProcessNext \/ DropBlank \/ Data
  \/ \E s \in Sockets : Connection(s) \/ Close(s) \/ Message(s)


----------------------------------------------------------------------------
LinkTyped ==
  /\ connected \in BOOLEAN
  /\ connecting \in 0..MaxCalls /\ disconnecting \in 0..MaxCalls
  /\ sent \in Seq(Commands) /\ answered \in Seq(Commands) /\ queue \in Seq(Commands)
  /\ processing \subseteq Commands /\ last \in 0..MaxCommands
  /\ fate \in [Commands -> {"none", "queued", "processing", "processed", "lost", "cleared"}]
  /\ sockets \subseteq Sockets /\ errors \subseteq Sockets

\* With sockets sending past the queue, connections coming and going and calls that
\* wait, the queue still has one command at the gateway at a time and hands them on
\* in order; every command has one place, and the gateway answers each it took
\* once, in the order it took them, though the link has closed meanwhile.
CommandsKeepTheirOrder ==
  /\ Cardinality(processing) <= 1 /\ processing \subseteq ToSet(sent)
  /\ IsInjective(answered \o sent)
  /\ \A i, j \in DOMAIN queue : i < j => queue[i] < queue[j]
  /\ \A c \in Commands :
       /\ fate[c] = "queued" <=> Contains(queue, c)
       /\ fate[c] = "processed" => Contains(answered, c)
       /\ c <= last => fate[c] # "none" \/ Contains(answered \o sent, c)
  /\ \A c, d \in Commands : c < d /\ fate[c] = "queued" => fate[d] \notin {"processing", "processed"}

-----------------------------------------------------------------------------
(***************************************************************************)
(* What goes over the link of modules/hardware/webserial-api.mjs: commands *)
(* that send() writes, and the chunks that handleData() splits into lines. *)
(*                                                                         *)
(* A command is a sequence of words; the word NL is the end of a line, at  *)
(* either end of it or between.  Of a line of the controller its kind is   *)
(* kept, of a status report the positions it has.  A chunk may end within  *)
(* a line: each part of it is then split and read as a line of its own.    *)
(***************************************************************************)

CONSTANTS Texts,               \* commands given to send(), none of them empty
          Positions,
          MaxSends, MaxLines   \* bounds

VARIABLES isConnected,
          pending,    \* words the controller has since the last end of a line
          executed,   \* lines the controller has taken
          events,     \* what was emitted, a status with its positions
          written,    \* history: commands given to send()
          said,       \* history: lines of the controller, whole or cut
          tail        \* the part of a cut line that has not been read

lineVars == <<isConnected, pending, executed, events, written, said, tail>>

NL == "end of line"
Nothing == [kind |-> "none"]
Simple(kind) == [kind |-> kind]
Zero == 0

\* A report has a machine position, a work position or both.
Report(mPos, wPos) == [kind |-> "status", mPos |-> mPos, wPos |-> wPos]
AtMostOne == {{p} : p \in Positions} \cup {{}}
Lines == {Simple(k) : k \in {"ok", "error", "data"}} \cup {Report(m, w) : m, w \in AtMostOne}

LineInit ==
  /\ isConnected \in BOOLEAN
  /\ pending = <<>> /\ executed = <<>> /\ events = <<>> /\ written = <<>> /\ said = <<>> /\ tail = Nothing

\* The lines that are complete in what was written, and what is left.
Taken(words) ==
  FoldLeft(LAMBDA a, w : IF w = NL THEN [lines |-> Append(a.lines, a.rest), rest |-> <<>>]
                         ELSE [a EXCEPT !.rest = Append(@, w)],
           [lines |-> <<>>, rest |-> <<>>], words)

\* trim(): from the first word to the last one.
Trimmed(command) ==
  LET at == {i \in DOMAIN command : command[i] # NL}
  IN IF at = {} THEN <<>> ELSE SubSeq(command, Min(at), Max(at))

\* Mutant of the next operator: the end of the line is written.
WrittenWithEnd(command) == Append(Trimmed(command), NL)

\* concat() leaves cmd as it is: nothing ends the last line.
Written(command) == Trimmed(command)

\* An empty command throws, and so does every one while there is no connection.
WriteCommand(command) ==
  LET taken == Taken(pending \o Written(command))
  IN /\ isConnected /\ Len(written) < MaxSends /\ written' = Append(written, command)
     /\ pending' = taken.rest /\ executed' = executed \o taken.lines
     /\ UNCHANGED <<isConnected, events, said, tail>>

\* A position that the report does not have is 0.
ParseStatusReport(report) ==
  LET Of(positions) == IF positions = {} THEN Zero ELSE CHOOSE p \in positions : TRUE
  IN [kind |-> "status", mPos |-> Of(report.mPos), wPos |-> Of(report.wPos)]

\* handleData() of a line that is whole.
HandleLine(line) == IF line.kind = "status" THEN ParseStatusReport(line) ELSE line

\* Of one that is cut: it has no ">", or no "<", and "ok" is not "ok" any more;
\* an error is told by its beginning.
HandleHead(line, long) == IF line.kind = "error" /\ long THEN line ELSE Simple("data")
HandleTail == Simple("data")

Say(line) ==
  /\ Len(said) < MaxLines /\ tail = Nothing
  /\ said' = Append(said, [line |-> line, cut |-> FALSE])
  /\ events' = Append(events, HandleLine(line))
  /\ UNCHANGED <<isConnected, pending, executed, written, tail>>

SayCut(line, long) ==
  /\ Len(said) < MaxLines /\ tail = Nothing
  /\ said' = Append(said, [line |-> line, cut |-> TRUE])
  /\ events' = Append(events, HandleHead(line, long)) /\ tail' = line
  /\ UNCHANGED <<isConnected, pending, executed, written>>

ReadTail ==
  /\ tail # Nothing /\ tail' = Nothing /\ events' = Append(events, HandleTail)
  /\ UNCHANGED <<isConnected, pending, executed, written, said>>

LineNext ==
  \/ \E command \in Texts : WriteCommand(command)
  \/ \E line \in Lines, long \in BOOLEAN : Say(line) \/ SayCut(line, long)
  \/ ReadTail
  \/ ~isConnected /\ UNCHANGED lineVars

----------------------------------------------------------------------------
Heard(kind) == Len(SelectSeq(events, LAMBDA e : e.kind = kind))
Whole(kind) == Len(SelectSeq(said, LAMBDA l : l.line.kind = kind /\ ~l.cut))
EndsWithin(command) == Len(SelectSeq(Trimmed(command), LAMBDA w : w = NL))

LineTyped ==
  /\ isConnected \in BOOLEAN /\ written \in Seq(Texts) /\ Len(written) <= MaxSends
  /\ NL \notin ToSet(pending) /\ \A line \in ToSet(executed) : NL \notin ToSet(line)
  /\ tail \in Lines \cup {Nothing} /\ Len(said) <= MaxLines

\* Whatever is sent and wherever chunks end: the controller takes one line for each end
\* of a line within a command and none for the end of a command, so that commands of one
\* line are never taken and the last words sent wait; exactly the lines that came whole
\* are heard as what they are, so that an ok that was cut is lost; and a report without
\* a work position puts the work position to 0.
LinesAreWhole ==
  /\ Len(executed) = FoldLeft(LAMBDA n, c : n + EndsWithin(c), 0, written)
  /\ pending = <<>> => \A c \in ToSet(written) : Trimmed(c) = <<>>
  /\ \A kind \in {"ok", "status"} : Heard(kind) = Whole(kind)
  /\ Heard("error") >= Whole("error")
  /\ \A e \in ToSet(events) : e.kind = "status" =>
       \E r \in ToSet(said) : /\ r.line.kind = "status" /\ ~r.cut
                              /\ <<{e.mPos}, {e.wPos}>> =
                                   <<IF r.line.mPos = {} THEN {Zero} ELSE r.line.mPos,
                                     IF r.line.wPos = {} THEN {Zero} ELSE r.line.wPos>>

-----------------------------------------------------------------------------
(***************************************************************************)
(* The simulated controller of modules/backend/firmware/mock-grbl.js.      *)
(* Each command sets a timer and, when that runs, a second one; homing     *)
(* sets one ten times as long.  None is ever cancelled.                    *)
(*                                                                         *)
(* Time is in units of responseDelay; timers due at once run in the order  *)
(* they were set.  A position is the name of the command that moved there. *)
(* The feed rate, modes, units and spindle are left out.                   *)
(***************************************************************************)

CONSTANTS Moves,       \* G0 and G1 commands
          Others,      \* G-code that does not move
          HomeDelay,   \* 10 in the code
          MaxTimers    \* bound

VARIABLES state, position,
          timers,    \* timers set, in order: what they do and the time left
          owed,      \* history: commands that have had no ok
          resumed    \* history: resumed from a hold, and not Idle since

mockVars == <<state, position, timers, owed, resumed>>

Origin == "origin"

MockInit ==
  /\ state = "Idle" /\ position = Origin /\ timers = <<>>
  /\ owed = 0 /\ resumed = FALSE

Timer(does, command, delay) == [does |-> does, command |-> command, left |-> delay]

Send(command) ==
  /\ Len(timers) < MaxTimers
  /\ timers' = Append(timers, Timer("process", command, 1))
  /\ owed' = owed + 1
  /\ UNCHANGED <<state, position, resumed>>

ExecuteHome ==
  /\ Len(timers) < MaxTimers
  /\ state' = "Home"
  /\ timers' = Append(timers, Timer("home", Origin, HomeDelay))
  /\ owed' = owed + 1
  /\ UNCHANGED <<position, resumed>>

\* `ok' at once, as for `?' and `$' commands, which change nothing.
ExecuteFeedHold ==
  /\ state' = "Hold"
  /\ UNCHANGED <<position, timers, owed, resumed>>

\* With no command under way nothing will take it out of Run.
ExecuteResume ==
  /\ state = "Hold" /\ state' = "Run" /\ resumed' = TRUE
  /\ UNCHANGED <<position, timers, owed>>

Reset ==
  /\ state' = "Idle" /\ position' = Origin /\ resumed' = FALSE
  /\ UNCHANGED <<timers, owed>>

Due == SelectInSeq(timers, LAMBDA t : t.left = 0)
Run(does) == Due # 0 /\ timers[Due].does = does

\* Mutant of the next operator: only a command that moves sets the second timer,
\* and it is the other ones that finish.
CompletesOthers(command) == command \in Others

Completes(command) == TRUE

\* ok is sent as soon as the command is taken, and it is Idle two delays later.
ProcessCommand ==
  /\ Run("process")
  /\ LET command == timers[Due].command
     IN /\ IF command \in Moves THEN position' = command /\ state' = "Run"
                                ELSE UNCHANGED <<position, state>>
        /\ timers' = LET rest == RemoveAt(timers, Due)
                     IN IF Completes(command) THEN Append(rest, Timer("complete", command, 2)) ELSE rest
  /\ owed' = owed - 1
  /\ UNCHANGED resumed

\* It is Idle whatever it was: held, homing, or running the next command.
Complete ==
  /\ Run("complete")
  /\ state' = "Idle" /\ timers' = RemoveAt(timers, Due) /\ resumed' = FALSE
  /\ UNCHANGED <<position, owed>>

Homed ==
  /\ Run("home")
  /\ state' = "Idle" /\ position' = Origin /\ timers' = RemoveAt(timers, Due)
  /\ resumed' = FALSE /\ owed' = owed - 1

Tick ==
  /\ timers # <<>> /\ Due = 0
  /\ timers' = [i \in DOMAIN timers |-> [timers[i] EXCEPT !.left = @ - 1]]
  /\ UNCHANGED <<state, position, owed, resumed>>

MockNext ==
  \/ \E command \in Moves \cup Others : Send(command)
  \/ ExecuteHome \/ ExecuteFeedHold \/ ExecuteResume \/ Reset
  \/ ProcessCommand \/ Complete \/ Homed \/ Tick


\* What it reports; a `?' is answered with both.
GetPosition == position
GetState == [state |-> state, position |-> position]
SendStatusReport == <<state, position>>

----------------------------------------------------------------------------
MockTyped ==
  /\ state \in {"Idle", "Run", "Hold", "Home"}
  /\ position \in Moves \cup {Origin}
  /\ timers \in Seq([does : {"process", "complete", "home"}, command : Moves \cup Others \cup {Origin},
                     left : 0..HomeDelay])
  /\ owed \in 0..MaxTimers /\ resumed \in BOOLEAN

Waiting(does) == Len(SelectSeq(timers, LAMBDA t : t.does \in does))

\* Across holds, homing, resets and commands in any number, each command and homing
\* is acknowledged once, a reset not taking back what is under way; and the machine
\* is in Run or Home only as long as a timer will end it, but for a hold that was resumed.
AcknowledgedAndEnding ==
  /\ owed = Waiting({"process", "home"})
  /\ SendStatusReport = <<GetState.state, GetPosition>>
  /\ GetState.state = "Home" => Waiting({"home"}) > 0
  /\ GetState.state = "Run" => resumed \/ Waiting({"complete"}) > 0

-----------------------------------------------------------------------------
\* The three share no state.
vars == <<linkVars, lineVars, mockVars>>
Init == LinkInit /\ LineInit /\ MockInit
Next ==
  \/ LinkNext /\ UNCHANGED <<lineVars, mockVars>>
  \/ LineNext /\ UNCHANGED <<linkVars, mockVars>>
  \/ MockNext /\ UNCHANGED <<linkVars, lineVars>>
Spec == Init /\ [][Next]_vars

TypeOK == LinkTyped /\ LineTyped /\ MockTyped
==============================================================================
