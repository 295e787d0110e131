------------------------------- MODULE Jogging -------------------------------
(***************************************************************************)
(* What moves the machine by hand, and what follows where it is: two classes*)
(* of modules/hardware that only the page connects.                        *)
(***************************************************************************)
EXTENDS Integers, Sequences, FiniteSets, SequencesExt

(***************************************************************************)
(* modules/hardware/jog-controls.mjs: single and continuous jogs, and the  *)
(* keys.  A key repeats its keydown while it is held; a release elsewhere, *)
(* the page having lost the focus, is not heard.  Listeners do not throw.  *)
(***************************************************************************)

CONSTANTS Keys, increments, Feeds, normalFeed, rapidFeed,
          Given,    \* distances and feeds a program gives, of any sign and size
          MaxJogs   \* bound

JogAssumption ==
  /\ increments # {} /\ 0 \notin increments /\ Given \subseteq Int
  /\ normalFeed \in Feeds /\ normalFeed > 0 /\ rapidFeed \in Nat \ {0}

VARIABLES keyState,        \* keys the controls take for held
          held,            \* those that are
          currentIncrement, currentFeed,
          jogging,         \* the continuous jog's key (its axis and direction), or none
          jogs,            \* jog commands sent: by key or program, distance, feed
          presses          \* history: presses of each key, and releases nobody heard

jogVars == <<keyState, held, currentIncrement, currentFeed, jogging, jogs, presses>>

None == "none"

JogInit ==
  /\ keyState = {} /\ held = {} /\ jogging = None /\ jogs = <<>>
  /\ currentIncrement \in increments /\ currentFeed = normalFeed
  /\ presses = [k \in Keys |-> [made |-> 0, unheard |-> 0]]

\* A distance of 0 is one; a feed of 0 is none.
Jog(k, by, distance, feed) ==
  Append(jogs, [key |-> k, by |-> by, distance |-> IF distance < 0 THEN -distance ELSE distance,
                feed |-> IF feed = 0 THEN currentFeed ELSE feed])

\* jog() called by a program, which a continuous jog does not hinder: neither the distance
\* nor the feed is checked.
Call(k, distance, feed) ==
  /\ Len(jogs) < MaxJogs /\ jogs' = Jog(k, "program", distance, feed)
  /\ UNCHANGED <<keyState, held, currentIncrement, currentFeed, jogging, presses>>

\* Mutant of the next operator: the repetitions of a held key jog too.
KeyDownRepeating(k) ==
  /\ keyState' = keyState \cup {k} /\ Len(jogs) < MaxJogs
  /\ jogs' = Jog(k, "key", currentIncrement, 0)

KeyDown(k) ==
  IF k \in keyState THEN UNCHANGED <<keyState, jogs>>
  ELSE /\ keyState' = keyState \cup {k} /\ Len(jogs) < MaxJogs
       /\ jogs' = Jog(k, "key", currentIncrement, 0)

Press(k) ==
  /\ k \notin held /\ held' = held \cup {k} /\ KeyDown(k) /\ presses[k].made < MaxJogs
  /\ presses' = [presses EXCEPT ![k].made = @ + 1]
  /\ UNCHANGED <<currentIncrement, currentFeed, jogging>>

Repeat(k) ==
  /\ k \in held /\ KeyDown(k)
  /\ UNCHANGED <<held, currentIncrement, currentFeed, jogging, presses>>

Release(k) ==
  /\ k \in held /\ held' = held \ {k} /\ keyState' = keyState \ {k}
  /\ UNCHANGED <<currentIncrement, currentFeed, jogging, jogs, presses>>

ReleaseUnheard(k) ==
  /\ k \in held /\ held' = held \ {k} /\ presses' = [presses EXCEPT ![k].unheard = @ + 1]
  /\ UNCHANGED <<keyState, currentIncrement, currentFeed, jogging, jogs>>

SetIncrement(i) ==
  /\ i \in increments /\ currentIncrement' = i
  /\ UNCHANGED <<keyState, held, currentFeed, jogging, jogs, presses>>

SetFeedRate(feed) ==
  /\ feed > 0 /\ currentFeed' = feed
  /\ UNCHANGED <<keyState, held, currentIncrement, jogging, jogs, presses>>

StartContinuousJog(k) ==
  /\ jogging = None /\ jogging' = k
  /\ UNCHANGED <<keyState, held, currentIncrement, currentFeed, jogs, presses>>

StopContinuousJog ==
  /\ jogging # None /\ jogging' = None
  /\ UNCHANGED <<keyState, held, currentIncrement, currentFeed, jogs, presses>>

\* rapidJog(): at the rapid feed, whatever feed is set.
RapidJog(k) == Call(k, currentIncrement, rapidFeed)

\* getIncrements() and getStatus()
Increments == increments
Status == [jogging |-> jogging # None, axis |-> jogging, feedRate |-> currentFeed, increment |-> currentIncrement]

JogNext ==
  \/ StopContinuousJog
  \/ \E i \in increments : SetIncrement(i)
  \/ \E feed \in Feeds : SetFeedRate(feed)
  \/ \E k \in Keys :
       \/ Press(k) \/ Repeat(k) \/ Release(k) \/ ReleaseUnheard(k) \/ StartContinuousJog(k) \/ RapidJog(k)
       \/ \E distance \in Given, feed \in Given : Call(k, distance, feed)


----------------------------------------------------------------------------
JogsOf(k) == Cardinality({i \in DOMAIN jogs : jogs[i].key = k /\ jogs[i].by = "key"})

JogTyped ==
  /\ keyState \subseteq Keys /\ held \subseteq Keys /\ currentIncrement \in increments
  /\ currentFeed \in Feeds /\ jogging \in Keys \cup {None} /\ Len(jogs) <= MaxJogs

\* A held key is taken for held; a key taken for held and not held had a release nobody
\* heard, and does nothing when pressed again; so each key jogs at most once for each of
\* its presses, however long it is held, and misses one only for a release that was not
\* heard.  The jogs of keys have an increment of the list and a feed that is positive; a
\* program's may have any feed but 0.
JogsFollowKeys ==
  /\ held \subseteq keyState
  /\ \A k \in Keys :
       /\ k \in keyState \ held => presses[k].unheard > 0
       /\ JogsOf(k) \in (presses[k].made - presses[k].unheard)..presses[k].made
  /\ \A i \in DOMAIN jogs : /\ jogs[i].by = "key" => jogs[i].distance \in Increments
                            /\ IF jogs[i].by = "key" THEN jogs[i].feed > 0 ELSE jogs[i].feed # 0
  /\ Status.increment \in Increments /\ (Status.jogging <=> Status.axis \in Keys)

-----------------------------------------------------------------------------
(***************************************************************************)
(* modules/hardware/position-feedback.mjs, one axis for three: status      *)
(* reports with a machine position, a work position or both; an offset; a  *)
(* history of bounded length.                                              *)
(***************************************************************************)

CONSTANTS Positions, Offsets, historySize,
          MaxReports   \* bound

TrackAssumption == historySize \in Nat \ {0}

VARIABLES currentPosition, machinePosition, offset, positionHistory,
          reports,   \* history: how many reports there were
          jumps      \* history: of those since, entries of the history not reached from the one before

trackVars == <<currentPosition, machinePosition, offset, positionHistory, reports, jumps>>

TrackInit ==
  /\ currentPosition = 0 /\ machinePosition = 0 /\ offset = 0
  /\ positionHistory = <<>> /\ reports = 0 /\ jumps = {}

Distance(a, b) == IF a > b THEN a - b ELSE b - a

\* Mutant of the next operator: the oldest entry is never let go.
RecordedAll(entry) == Append(positionHistory, entry)

Recorded(entry) ==
  LET longer == Append(positionHistory, entry)
  IN IF Len(longer) > historySize THEN Tail(longer) ELSE longer

\* A work position is taken as it is; a machine position alone is shifted by the offset.
Work(mPos, wPos, machine) ==
  IF wPos # {} THEN CHOOSE p \in wPos : TRUE
  ELSE IF mPos # {} THEN machine - offset ELSE currentPosition

\* mPos and wPos are sets of at most one position.
UpdatePosition(mPos, wPos) ==
  LET machine == IF mPos # {} THEN CHOOSE p \in mPos : TRUE ELSE machinePosition
      work == Work(mPos, wPos, machine)
  IN /\ reports < MaxReports /\ reports' = reports + 1
     /\ machinePosition' = machine /\ currentPosition' = work
     /\ positionHistory' = Recorded([position |-> work, delta |-> Distance(currentPosition, work), number |-> reports + 1])
     /\ UNCHANGED <<offset, jumps>>

\* The current work position is not recomputed.
SetOffset(o) ==
  /\ offset' = o
  /\ UNCHANGED <<currentPosition, machinePosition, positionHistory, reports, jumps>>

ClearHistory ==
  /\ positionHistory' = <<>>
  /\ UNCHANGED <<currentPosition, machinePosition, offset, reports, jumps>>

\* The history stays, and its next entry starts from 0.
Reset ==
  /\ currentPosition' = 0 /\ machinePosition' = 0 /\ offset' = 0
  /\ jumps' = jumps \cup {reports + 1}
  /\ UNCHANGED <<positionHistory, reports>>

TrackNext ==
  \/ ClearHistory \/ Reset
  \/ \E o \in Offsets : SetOffset(o)
  \/ \E p, q \in Positions : UpdatePosition({p}, {q}) \/ UpdatePosition({p}, {}) \/ UpdatePosition({}, {q})


----------------------------------------------------------------------------
(* getStats()                                                              *)
TotalDistance == FoldLeft(LAMBDA a, e : a + e.delta, 0, positionHistory)
Visited == {positionHistory[i].position : i \in DOMAIN positionHistory}
Span ==
  IF Visited = {} THEN 0
  ELSE (CHOOSE p \in Visited : \A q \in Visited : q <= p) - (CHOOSE p \in Visited : \A q \in Visited : p <= q)

GetPosition == [work |-> currentPosition, machine |-> machinePosition, offset |-> offset]
GetHistory(limit) ==
  IF limit = 0 \/ limit >= Len(positionHistory) THEN positionHistory
  ELSE SubSeq(positionHistory, Len(positionHistory) - limit + 1, Len(positionHistory))
GetStats == [positions |-> Len(positionHistory), totalDistance |-> TotalDistance, span |-> Span]

TrackTyped ==
  /\ {currentPosition, machinePosition, offset} \subseteq Int
  /\ reports \in 0..MaxReports /\ jumps \subseteq 1..(MaxReports + 1)

\* Whatever reports of both kinds, offsets, clears and resets follow each other: the
\* history keeps the latest reports, gapless and no more than it may; each entry is
\* reached from the one before by its distance unless a reset came between; and then
\* the distance travelled is no less than the span between the extreme positions.
HistoryIsATrack ==
  /\ Len(positionHistory) <= historySize
  /\ \A i \in 2..Len(positionHistory) :
       /\ positionHistory[i].number = positionHistory[i - 1].number + 1
       /\ positionHistory[i].number \notin jumps =>
            positionHistory[i].delta = Distance(positionHistory[i].position, positionHistory[i - 1].position)
  /\ positionHistory # <<>> => Last(positionHistory).number = reports
  /\ (\A i \in DOMAIN positionHistory : positionHistory[i].number \notin jumps) => GetStats.totalDistance >= GetStats.span
  /\ \A limit \in 1..historySize : positionHistory # <<>> =>
       /\ Last(GetHistory(limit)).number = reports /\ Len(GetHistory(limit)) <= limit
       /\ reports + 1 \notin jumps => Last(GetHistory(limit)).position = GetPosition.work

-----------------------------------------------------------------------------
Assumption == JogAssumption /\ TrackAssumption

\* The two share no state.
vars == <<jogVars, trackVars>>
Init == JogInit /\ TrackInit
Next ==
  \/ JogNext /\ UNCHANGED trackVars
  \/ TrackNext /\ UNCHANGED jogVars
Spec == Init /\ [][Next]_vars

TypeOK == JogTyped /\ TrackTyped
==============================================================================
