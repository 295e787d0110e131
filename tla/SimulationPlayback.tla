------------------------- MODULE SimulationPlayback -------------------------
(***************************************************************************)
(* Playing a G-code program in the simulator: SimulationController, which  *)
(* holds the place in the program and the flags, and the runner            *)
(* TimeBasedSimulationRunner, whose animation frames move that place by    *)
(* the time that went by (simulation-controller.mjs).  A program is a      *)
(* sequence of the times its commands take; the executor the runner is     *)
(* given reports that time for a command whenever it is asked, as the one  *)
(* of the tests does, or no metrics at all (None).                         *)
(*                                                                         *)
(* Time is counted in ticks and only differences are kept: what            *)
(* `performance.now() - lastFrameTime` would be.  The page has one pending *)
(* callback for animationFrameId at most (armed); callbacks requested      *)
(* earlier and never cancelled, because animationFrameId was overwritten,  *)
(* are counted by stray.                                                   *)
(***************************************************************************)
EXTENDS Naturals, Sequences, FiniteSetsExt

CONSTANTS
  Programs,    \* programs that can be loaded: sequences of times, or None
  Names,       \* names of bookmarks
  Speeds,      \* what setPlaybackSpeed() can leave, after its clamp
  None,        \* no metrics, no bookmark
  MaxDelta,    \* ticks between two animation frames at most
  MaxClicks    \* calls of the page on the runner and the controller

Assumption ==
  /\ None \notin Nat
  /\ \A p \in Programs : p \in Seq(Nat \cup {None})
  /\ Speeds \subseteq Nat \ {0} /\ 1 \in Speeds
  /\ MaxDelta \in Nat \ {0} /\ MaxClicks \in Nat

VARIABLES
  commands,       \* the program loaded
  index,          \* state.currentCommandIndex
  isRunning, isPaused,
  playbackSpeed,
  bookmarks,      \* name -> index, or None
  sinceFrame,     \* now - lastFrameTime
  armed,          \* the callback animationFrameId stands for is pending
  stray,          \* other callbacks pending
  due,            \* callbacks of the present frame still to be called
  owed,           \* history: time run, not paused, since a frame accounted for it
  played,         \* history: simulation time the last callback advanced by
  clicks          \* calls made so far

stateVars == <<index, isRunning, isPaused, playbackSpeed>>
frameVars == <<sinceFrame, armed, stray, due>>
vars == <<commands, stateVars, bookmarks, frameVars, owed, played, clicks>>

Moving == isRunning /\ ~isPaused
NoBookmarks == [n \in Names |-> None]

\* new SimulationState()
FreshState ==
  /\ index' = 0 /\ playbackSpeed' = 1
  /\ isRunning' = FALSE /\ isPaused' = FALSE

Init ==
  /\ commands = << >> /\ index = 0 /\ playbackSpeed = 1
  /\ isRunning = FALSE /\ isPaused = FALSE
  /\ bookmarks = NoBookmarks
  /\ sinceFrame = 0 /\ armed = FALSE /\ stray = 0 /\ due = 0
  /\ owed = 0 /\ played = 0 /\ clicks = 0

-----------------------------------------------------------------------------
(* The page's calls, between two frames *)

Click == due = 0 /\ clicks < MaxClicks /\ clicks' = clicks + 1 /\ played' = 0


Initialize ==
  /\ Click
  /\ commands' \in Programs
  /\ FreshState /\ bookmarks' = NoBookmarks
  /\ UNCHANGED <<frameVars, owed>>

\* Bookmarks are kept: reset() leaves the program loaded.
Reset ==
  /\ Click
  /\ FreshState
  /\ UNCHANGED <<commands, bookmarks, frameVars, owed>>

SetPlaybackSpeed ==
  /\ Click
  /\ playbackSpeed' \in Speeds
  /\ UNCHANGED <<commands, index, isRunning, isPaused, bookmarks, frameVars, owed>>

Place(i) ==
  /\ index' = i
  /\ UNCHANGED <<commands, isRunning, isPaused, playbackSpeed, bookmarks, frameVars, owed>>

JumpToCommand == Click /\ \E i \in 0..Len(commands) : Place(i)
JumpToBookmark == Click /\ \E n \in Names : bookmarks[n] # None /\ Place(bookmarks[n])
NextCommand == Click /\ index < Len(commands) /\ Place(index + 1)
PreviousCommand == Click /\ index > 0 /\ Place(index - 1)

AddBookmark ==
  /\ Click
  /\ \E n \in Names : bookmarks' = [bookmarks EXCEPT ![n] = index]
  /\ UNCHANGED <<commands, stateVars, frameVars, owed>>

RemoveBookmark ==
  /\ Click
  /\ \E n \in Names : bookmarks[n] # None /\ bookmarks' = [bookmarks EXCEPT ![n] = None]
  /\ UNCHANGED <<commands, stateVars, frameVars, owed>>

\* requestAnimationFrame(loop): what animationFrameId stood for is forgotten.
RequestFrame ==
  /\ armed' = TRUE
  /\ stray' = stray + (IF armed THEN 1 ELSE 0)

TakeTime == sinceFrame' = 0 /\ owed' = 0

BeginRun ==
  /\ isRunning' = TRUE /\ isPaused' = FALSE
  /\ TakeTime
  /\ RequestFrame
  /\ UNCHANGED <<commands, index, playbackSpeed, bookmarks, due>>

Start == Click /\ BeginRun

Pause ==
  /\ Click
  /\ isPaused' = TRUE
  /\ armed' = FALSE
  /\ UNCHANGED <<commands, index, isRunning, playbackSpeed, bookmarks, sinceFrame, stray, due, owed>>

ResumeCatchesUp ==
  /\ Click
  /\ \/ ~isRunning /\ BeginRun
     \/ /\ isRunning
        /\ isPaused' = FALSE
        /\ owed' = 0
        /\ RequestFrame
        /\ UNCHANGED <<commands, index, isRunning, playbackSpeed, bookmarks, sinceFrame, due>>

Resume ==
  /\ Click
  /\ \/ ~isRunning /\ BeginRun
     \/ /\ isRunning
        /\ isPaused' = FALSE
        /\ TakeTime
        /\ RequestFrame
        /\ UNCHANGED <<commands, index, isRunning, playbackSpeed, bookmarks, due>>

Stop ==
  /\ Click
  /\ isRunning' = FALSE /\ isPaused' = FALSE
  /\ armed' = FALSE
  /\ UNCHANGED <<commands, index, playbackSpeed, bookmarks, sinceFrame, stray, due, owed>>

-----------------------------------------------------------------------------
(* The animation frames *)

\* The while loop of executeTimeStep(): the commands that fit in the time left
\* are done, each taking its time off it; the place reached and what is left.
Measured(i) == i < Len(commands) /\ commands[i + 1] # None

Fits(i, time) == time > 0 /\ Measured(i) /\ commands[i + 1] <= time

Play ==
  LET run[i \in 0..Len(commands), time \in 0..(MaxDelta * Max(Speeds))] ==
        IF Fits(i, time) THEN run[i + 1, time - commands[i + 1]]
        ELSE [place |-> i, left |-> time]
  IN run

\* What is left is spent on the command it does not suffice for, and the next
\* frame begins that command again.
ExecuteTimeStep(time) ==
  LET end == Play[index, time]
  IN IF Moving
     THEN /\ index' = end.place
          /\ played' = IF Measured(end.place) THEN time ELSE time - end.left
          /\ isRunning' = (end.place < Len(commands))
          /\ isPaused' = FALSE
     ELSE UNCHANGED <<index, isRunning, isPaused>> /\ played' = 0

BeginFrame ==
  /\ due = 0 /\ stray + (IF armed THEN 1 ELSE 0) > 0
  /\ due' = stray + (IF armed THEN 1 ELSE 0)
  /\ stray' = 0 /\ armed' = FALSE
  /\ played' = 0
  /\ UNCHANGED <<commands, stateVars, bookmarks, sinceFrame, owed, clicks>>

CallbackOnce ==
  /\ due > 0
  /\ due' = due - 1
  /\ TakeTime
  /\ ExecuteTimeStep(sinceFrame * playbackSpeed)
  /\ UNCHANGED <<commands, playbackSpeed, bookmarks, armed, stray, clicks>>

Callback ==
  /\ due > 0
  /\ due' = due - 1
  /\ TakeTime
  /\ ExecuteTimeStep(sinceFrame * playbackSpeed)
  /\ IF Moving' THEN RequestFrame ELSE UNCHANGED <<armed, stray>>
  /\ UNCHANGED <<commands, playbackSpeed, bookmarks, clicks>>

\* Time goes by; owed grows only while the simulation is to move.
Tick ==
  /\ due = 0 /\ sinceFrame < MaxDelta
  /\ sinceFrame' = sinceFrame + 1
  /\ owed' = IF Moving THEN owed + 1 ELSE owed
  /\ played' = 0
  /\ UNCHANGED <<commands, stateVars, bookmarks, armed, stray, due, clicks>>

Next ==
  \/ Initialize \/ Reset \/ SetPlaybackSpeed
  \/ JumpToCommand \/ JumpToBookmark \/ NextCommand \/ PreviousCommand
  \/ AddBookmark \/ RemoveBookmark
  \/ Start \/ Pause \/ Resume \/ Stop
  \/ BeginFrame \/ Callback \/ Tick

\* The browser calls the frames that are requested. Time goes by between frames,
\* however short they are apart: strong fairness, as a frame's callbacks, which
\* take no time here, disable Tick in between.
Fairness == WF_vars(BeginFrame) /\ WF_vars(Callback) /\ SF_vars(Tick)

Spec == Init /\ [][Next]_vars /\ Fairness

-----------------------------------------------------------------------------
(* Properties *)

\* The types; the place and every bookmark are places of the program loaded,
\* so jumpToBookmark() never throws after another program was loaded.
TypeOK ==
  /\ commands \in Programs \cup {<< >>}
  /\ index \in 0..Len(commands)
  /\ isRunning \in BOOLEAN /\ isPaused \in BOOLEAN /\ armed \in BOOLEAN
  /\ playbackSpeed \in Speeds
  /\ bookmarks \in [Names -> (0..Len(commands)) \cup {None}]
  /\ sinceFrame \in 0..MaxDelta /\ owed \in 0..MaxDelta
  /\ stray \in 0..MaxClicks /\ due \in 0..MaxClicks
  /\ played \in Nat /\ clicks \in 0..MaxClicks

\* Whatever was clicked, and however many animation loops Start and Resume have
\* set going, a callback plays no more than the time that went by, at the speed
\* set, while the simulation was to move and that no other callback played: the
\* loops do not add up and a pause is never caught up with.
TimePlayedOnce == [][played' <= owed * playbackSpeed]_vars

\* A program whose commands each fit in one tick is played to its end unless the
\* page stops or pauses it.  It does not hold for longer commands: what a frame
\* did of one is not kept, and a command longer than every frame is begun again
\* for ever.
ShortProgramsFinish ==
  (Moving /\ \A i \in DOMAIN commands : commands[i] \in {0, 1}) ~> ~Moving
=============================================================================
