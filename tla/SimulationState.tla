--------------------------- MODULE SimulationState ---------------------------
(***************************************************************************)
(* What modules/simulation/simulation-controller.mjs measures of a program *)
(* and remembers of it: SimulationStatistics, the state besides the place  *)
(* and the flags, bookmarks' copies and the snapshots.  Times are those of *)
(* distances that divide by their feed.  Positions, the range of speeds,   *)
(* which is kept like that of feeds, averages, which their caller works    *)
(* out, and formats are left out; SimulationPlayback has the place in time.*)
(***************************************************************************)
EXTENDS Integers

CONSTANTS Length,      \* of the program
          Feeds,
          MaxDistance  \* bound: of what is advanced altogether

Assumption == Length \in Nat /\ 0 \notin Feeds /\ Feeds \subseteq Nat

VARIABLES state,            \* index, feed rate, spindle and elapsed time
          statistics,
          stateSnapshots,   \* index -> a clone of the state, or NoSnapshot
          stale,            \* history: the state was reset, the snapshots were not
          early             \* history: statistics were finalized before any feed was recorded

vars == <<state, statistics, stateSnapshots, stale, early>>

NoSnapshot == [index |-> -1]
NewState == [index |-> 0, feedRate |-> 0, spindleRunning |-> FALSE, elapsedTime |-> 0]
Infinity == 1000000
NewStatistics ==
  [total |-> 0, cutting |-> 0, rapid |-> 0, time |-> 0, startStops |-> 0,
   minFeed |-> Infinity, maxFeed |-> 0]
NoSnapshots == [i \in 0..Length |-> NoSnapshot]

Init ==
  /\ state = NewState /\ statistics = NewStatistics /\ stateSnapshots = NoSnapshots
  /\ stale = FALSE /\ early = FALSE

Initialize ==
  /\ state' = NewState /\ statistics' = NewStatistics /\ stateSnapshots' = NoSnapshots
  /\ stale' = FALSE /\ early' = FALSE

\* The snapshots of the run before stay.
Reset ==
  /\ state' = NewState /\ statistics' = NewStatistics /\ stale' = TRUE /\ early' = FALSE
  /\ UNCHANGED stateSnapshots

Least(a, b) == IF a < b THEN a ELSE b
Most(a, b) == IF a > b THEN a ELSE b

RecordFeedRate(s, feed) ==
  IF feed > 0 THEN [s EXCEPT !.minFeed = Least(@, feed), !.maxFeed = Most(@, feed)] ELSE s

UpdateFeedRate(feed) ==
  /\ state' = [state EXCEPT !.feedRate = feed]
  /\ statistics' = RecordFeedRate(statistics, feed)
  /\ UNCHANGED <<stateSnapshots, stale, early>>

\* Mutant of the next operator: every update starts or stops the spindle.
SwitchedAlways(running) == 1

Switched(running) == IF state.spindleRunning # running THEN 1 ELSE 0

\* Counted modulo 2.
UpdateSpindleSpeed(running) ==
  /\ state' = [state EXCEPT !.spindleRunning = running]
  /\ statistics' = [statistics EXCEPT !.startStops = (@ + Switched(running)) % 2]
  /\ UNCHANGED <<stateSnapshots, stale, early>>

AddDistance(s, distance, isCutting) ==
  [s EXCEPT !.total = @ + distance, !.cutting = @ + (IF isCutting THEN distance ELSE 0),
            !.rapid = @ + (IF isCutting THEN 0 ELSE distance)]

\* Without a feed nothing moves.  The runner gives the feed that its executor says the
\* command has: it need not be the one of the state, and it is recorded nowhere.
AdvanceSimulation(distance, isCutting, feedRate) ==
  /\ feedRate > 0 /\ statistics.total + distance <= MaxDistance
  /\ LET time == (distance * 60) \div feedRate
     IN /\ state' = [state EXCEPT !.elapsedTime = @ + time]
        /\ statistics' = [AddDistance(statistics, distance, isCutting) EXCEPT !.time = @ + time]
  /\ UNCHANGED <<stateSnapshots, stale, early>>

\* A run that was never given a feed has the range from 0, and keeps that end of it.
Finalize ==
  /\ statistics' = [statistics EXCEPT !.minFeed = IF @ = Infinity THEN 0 ELSE @]
  /\ early' = (early \/ statistics.minFeed = Infinity)
  /\ UNCHANGED <<state, stateSnapshots, stale>>

SaveSnapshot ==
  /\ stateSnapshots' = [stateSnapshots EXCEPT ![state.index] = state]
  /\ UNCHANGED <<state, statistics, stale, early>>

\* With the snapshot that is saved by itself.
NextCommand ==
  /\ state.index < Length
  /\ state' = [state EXCEPT !.index = @ + 1]
  /\ stateSnapshots' = [stateSnapshots EXCEPT ![state'.index] = state']
  /\ UNCHANGED <<statistics, stale, early>>

PreviousCommand ==
  /\ state.index > 0 /\ state' = [state EXCEPT !.index = @ - 1]
  /\ UNCHANGED <<statistics, stateSnapshots, stale, early>>

\* By index or to a bookmark: what it held of feed and spindle is not restored.
JumpToCommand(i) ==
  /\ state' = [state EXCEPT !.index = i, !.elapsedTime = 0]
  /\ UNCHANGED <<statistics, stateSnapshots, stale, early>>

Next ==
  \/ Initialize \/ Reset \/ Finalize \/ SaveSnapshot \/ NextCommand \/ PreviousCommand
  \/ \E feed \in Feeds \cup {0} : UpdateFeedRate(feed)
  \/ \E running \in BOOLEAN : UpdateSpindleSpeed(running)
  \/ \E distance, feedRate \in Feeds, isCutting \in BOOLEAN :
       AdvanceSimulation(distance, isCutting, feedRate)
  \/ \E i \in 0..Length : JumpToCommand(i)

Spec == Init /\ [][Next]_vars

----------------------------------------------------------------------------
GetSnapshot(i) == stateSnapshots[i]

TypeOK ==
  /\ state.index \in 0..Length /\ state.feedRate \in Feeds \cup {0} /\ state.spindleRunning \in BOOLEAN
  /\ \A i \in 0..Length : GetSnapshot(i) = NoSnapshot \/ GetSnapshot(i).index = i
  /\ statistics.total \in 0..MaxDistance /\ stale \in BOOLEAN /\ early \in BOOLEAN

\* Through jumps, resets and updates in any order: an odd number of switches means that the
\* spindle runs, distances add up and go with time, the time of the place reached is part
\* of the time of the run.  The range of feeds is the one of those recorded, with the feed
\* of the state among them; finalized before there was one, it starts at 0 for the rest
\* of the run.  The feeds that distances are advanced at are not among them: a run may
\* have gone far and have no range.  A snapshot of a place is a state of this run unless
\* reset() was called: that keeps those of the run before, whose feed was never recorded.
StatisticsAgree ==
  /\ statistics.startStops = 1 <=> state.spindleRunning
  /\ statistics.total = statistics.cutting + statistics.rapid
  /\ statistics.total = 0 <=> statistics.time = 0
  /\ state.elapsedTime <= statistics.time
  /\ early => statistics.minFeed = 0
  /\ ~early => IF statistics.maxFeed = 0 THEN statistics.minFeed = Infinity
               ELSE statistics.minFeed > 0 /\ statistics.minFeed <= statistics.maxFeed
  /\ state.feedRate <= statistics.maxFeed
  /\ ~early /\ state.feedRate > 0 => statistics.minFeed <= state.feedRate
  /\ ~stale => \A i \in 0..Length : GetSnapshot(i) # NoSnapshot =>
       GetSnapshot(i).elapsedTime <= statistics.time /\ GetSnapshot(i).feedRate <= statistics.maxFeed
=============================================================================
