------------------------------- MODULE GCode -------------------------------
(***************************************************************************)
(* modules/gcode: a program, the passes of the optimizer over it, and its  *)
(* three readers: the tool path, the scan for tool changes, the detector   *)
(* of collisions.  A command is a function from the letters it has, each   *)
(* once, to their values; positions are whole millimetres, so that the     *)
(* tolerances of comparisons are none.                                     *)
(***************************************************************************)
EXTENDS Integers, Sequences, FiniteSets, SequencesExt, Functions

CONSTANTS Commands, Tools, Offsets, Limits,
          MaxCommands   \* bound

VARIABLES program,
          tools,       \* the library: the offset of each tool it has
          activeTool

vars == <<program, tools, activeTool>>

Axes == {"X", "Y", "Z"}
Null == -1
Has(c, letter) == letter \in DOMAIN c
Is(c, letter, value) == Has(c, letter) /\ c[letter] = value
IsMoveCommand(c) == Has(c, "G") /\ c["G"] \in 0..3
Origin == [a \in Axes |-> 0]

\* Where a command leads, from a position.
Target(c, pos) == [a \in Axes |-> IF Has(c, a) THEN c[a] ELSE pos[a]]

Init == program = <<>> /\ tools = <<>> /\ activeTool = Null

-----------------------------------------------------------------------------
(* The optimizer.                                                          *)

\* What a line says again of a command once it was rewritten.
Rewritten == {"G", "M", "T", "X", "Y", "Z", "I", "J", "K", "F", "S", "P", "R"}
ReconstructLine(c) == Restrict(c, DOMAIN c \cap Rewritten)

\* Mutant of the next operator: a redundant move goes with its feed and its speed.
RedundantStepWhole(s, c) ==
  IF IsMoveCommand(c) /\ DOMAIN c \cap Axes # {} /\ Target(c, s.pos) = s.pos
    THEN [s EXCEPT !.removed = @ + 1]
    ELSE [s EXCEPT !.out = Append(@, c), !.pos = IF IsMoveCommand(c) THEN Target(c, s.pos) ELSE @]

\* A move to where the machine is goes, but for its feed and its speed.
RedundantStep(s, c) ==
  LET to == Target(c, s.pos)
      kept == Restrict(c, DOMAIN c \cap {"G", "F", "S"})
  IN IF IsMoveCommand(c) /\ DOMAIN c \cap Axes # {} /\ to = s.pos
       THEN [s EXCEPT !.removed = @ + 1,
                      !.out = IF Has(c, "F") \/ Has(c, "S") THEN Append(@, kept) ELSE @]
       ELSE [s EXCEPT !.out = Append(@, c), !.pos = IF IsMoveCommand(c) THEN to ELSE @]
RemoveRedundantMoves(p) ==
  FoldLeft(RedundantStep, [out |-> <<>>, pos |-> Origin, removed |-> 0], p)

\* The coordinates a command names, the others read as 0.
Named(c) == Target(c, Origin)
Vector(c, d) == [a \in Axes |-> Named(d)[a] - Named(c)[a]]
SameDirection(v, w) ==
  \/ v = Origin \/ w = Origin
  \/ /\ v["X"] * w["X"] + v["Y"] * w["Y"] + v["Z"] * w["Z"] > 0
     /\ \A a, b \in Axes : v[a] * w[b] = v[b] * w[a]
AreCollinear(c, d, e) == SameDirection(Vector(c, d), Vector(d, e))

FeedOf(c) == IF Has(c, "F") THEN c["F"] ELSE 0

\* A run of G1 goes over what has no G, until another motion, feed or direction.
Ends(p, segment, c, feed) ==
  \/ c["G"] # 1
  \/ feed # 0 /\ FeedOf(c) # 0 /\ feed # FeedOf(c)
  \/ /\ Len(segment) >= 2
     /\ ~AreCollinear(p[segment[Len(segment) - 1]], p[Last(segment)], c)
SegmentStep(p, s, j) ==
  IF ~s.open THEN s
  ELSE IF ~Has(p[j], "G") THEN [s EXCEPT !.next = j + 1]
  ELSE IF Ends(p, s.segment, p[j], FeedOf(p[s.segment[1]])) THEN [s EXCEPT !.open = FALSE]
  ELSE [s EXCEPT !.segment = Append(@, j), !.next = j + 1]
Segment(p, i) ==
  FoldLeft(LAMBDA s, j : SegmentStep(p, s, j), [segment |-> <<i>>, next |-> i + 1, open |-> TRUE],
           [k \in 1..(Len(p) - i) |-> i + k])

WithFeed(c, feed) ==
  IF feed = 0 THEN c ELSE [l \in DOMAIN c \cup {"F"} |-> IF l = "F" THEN feed ELSE c[l]]
\* A run becomes its last move, at the feed of its first.
Combined(p, s, i, run) ==
  IF Len(run.segment) > 2
    THEN [out |-> Append(s.out, WithFeed(p[Last(run.segment)], FeedOf(p[i]))), next |-> run.next,
          combined |-> s.combined + Len(run.segment) - 1]
    ELSE [s EXCEPT !.out = Append(@, p[i])]
CombineStep(p, s, i) ==
  IF i < s.next THEN s
  ELSE IF Is(p[i], "G", 1) THEN Combined(p, s, i, Segment(p, i))
  ELSE [s EXCEPT !.out = Append(@, p[i])]
CombineCollinearSegments(p) ==
  FoldLeft(LAMBDA s, i : CombineStep(p, s, i), [out |-> <<>>, next |-> 1, combined |-> 0],
           [i \in DOMAIN p |-> i])

\* A feed or speed that was the last one given goes, and the command if nothing is left.
DuplicateStep(s, c) ==
  LET again == {l \in DOMAIN c \cap {"F", "S"} : c[l] = s.last[l]}
      rest == Restrict(c, DOMAIN c \ again)
      empty == again # {} /\ DOMAIN rest \cap {"G", "M", "T", "X", "Y", "Z", "F", "S"} = {}
  IN [out |-> IF empty THEN s.out ELSE Append(s.out, ReconstructLine(rest)),
      last |-> [l \in {"F", "S"} |-> IF Has(c, l) THEN c[l] ELSE s.last[l]],
      removed |-> s.removed + Cardinality(again)]
RemoveDuplicateCommands(p) ==
  FoldLeft(DuplicateStep,
           [out |-> <<>>, last |-> [l \in {"F", "S"} |-> Null], removed |-> 0], p)

Passes == {"redundant", "collinear", "duplicates"}

WithoutRedundant(p, passes) == IF "redundant" \in passes THEN RemoveRedundantMoves(p).out ELSE p
WithoutCollinear(p, passes) == IF "collinear" \in passes THEN CombineCollinearSegments(p).out ELSE p
WithoutDuplicates(p, passes) == IF "duplicates" \in passes THEN RemoveDuplicateCommands(p).out ELSE p
Reconstructed(p) == [i \in DOMAIN p |-> ReconstructLine(p[i])]

OptimizeGCode(p, passes) ==
  Reconstructed(WithoutDuplicates(WithoutCollinear(WithoutRedundant(p, passes), passes), passes))

\* Each pass on its own, over the program as it is.
PotentialReduction(p, passes) ==
  (IF "redundant" \in passes THEN RemoveRedundantMoves(p).removed ELSE 0)
  + (IF "collinear" \in passes THEN CombineCollinearSegments(p).combined ELSE 0)
  + (IF "duplicates" \in passes THEN RemoveDuplicateCommands(p).removed ELSE 0)

-----------------------------------------------------------------------------
(* The detector of collisions.                                             *)

Start == [pos |-> Origin, feed |-> Null, running |-> FALSE]
DetectorStep(s, c) ==
  [pos |-> IF IsMoveCommand(c) THEN Target(c, s.pos) ELSE s.pos,
   feed |-> IF Has(c, "F") THEN c["F"] ELSE s.feed,
   running |-> \/ Is(c, "M", 3) \/ Is(c, "M", 4)
               \/ s.running /\ ~Is(c, "M", 5)]
After(p, i) == FoldLeft(DetectorStep, Start, SubSeq(p, 1, i))

Beside(at, a) ==
  at[a] + Limits.toolRadius > Limits.piece[a][1] /\ at[a] - Limits.toolRadius < Limits.piece[a][2]

\* What is wrong with a command, in the state it leaves and from where it came.
Warnings(c, from, s) ==
  LET rapid == Is(c, "G", 0)
      deep == (IF s.pos["Z"] > from["Z"] THEN s.pos["Z"] - from["Z"] ELSE from["Z"] - s.pos["Z"])
                > Limits.maxRapidPlunge
  IN {w \in {"bounds", "rapid plunge", "negative z", "feed missing", "feed high",
             "spindle high", "workpiece"} :
        \/ w = "spindle high" /\ Has(c, "S") /\ c["S"] > Limits.maxSpindleSpeed
        \/ /\ IsMoveCommand(c)
           /\ \/ /\ w = "bounds"
                 /\ \E a \in Axes : s.pos[a] < Limits.min[a] \/ s.pos[a] > Limits.max[a]
              \/ w = "rapid plunge" /\ rapid /\ deep
              \/ w = "negative z" /\ rapid /\ ~deep /\ s.pos["Z"] < 0
              \/ w = "feed missing" /\ Is(c, "G", 1) /\ s.feed = Null
              \/ w = "feed high" /\ s.feed > Limits.maxFeedRate
              \/ /\ w = "workpiece" /\ s.running
                 /\ s.pos["Z"] > Limits.pieceTop /\ s.pos["Z"] < Limits.pieceTop + Limits.minSafeZ
                 /\ (Beside(s.pos, "X") \/ Beside(s.pos, "Y"))}

DetectCollisions(p) ==
  [i \in DOMAIN p |-> Warnings(p[i], After(p, i - 1).pos, After(p, i))]
Severe == {"bounds", "rapid plunge", "feed high", "spindle high"}
Safe(p) == \A i \in DOMAIN p : DetectCollisions(p)[i] \cap Severe = {}

-----------------------------------------------------------------------------
(* The tool path and the scan for tool changes.                            *)

\* The tools that are selected in the library, in turn: by T, and by H beside G43.
Selections(p) ==
  FlattenSeq([i \in DOMAIN p |->
    (IF Has(p[i], "T") THEN <<p[i]["T"]>> ELSE <<>>)
    \o (IF Is(p[i], "G", 43) /\ Has(p[i], "H") THEN <<p[i]["H"]>> ELSE <<>>)])

OffsetOf(tool) == IF tool \in DOMAIN tools THEN tools[tool] ELSE 0
Point(at, type, tool) == [at |-> at, type |-> type, tool |-> tool]

PathStep(s, c) ==
  LET selected == IF Has(c, "T") THEN c["T"] ELSE s.tool
      tool == IF Is(c, "G", 43) /\ Has(c, "H") THEN c["H"] ELSE selected
      active == Is(c, "G", 43) \/ (s.active /\ ~Is(c, "G", 49))
      pos == Target(c, s.pos)
      type == IF Is(c, "G", 0) THEN "rapid" ELSE IF Is(c, "G", 1) THEN "cut" ELSE "other"
  IN [pos |-> pos, tool |-> tool, active |-> active,
      points |-> s.points
        \o (IF Is(c, "M", 6) THEN <<Point(s.pos, "tool-change", selected)>> ELSE <<>>)
        \o <<Point([pos EXCEPT !["Z"] = @ + IF active THEN OffsetOf(tool) ELSE 0], type, tool)>>]
ParseGCodeToPoints(p) ==
  FoldLeft(PathStep, [pos |-> Origin, tool |-> 0, active |-> FALSE, points |-> <<>>], p).points

\* Mutant of the next operator: M6 is noted before the tool beside it.
ScanStepLate(s, c) ==
  LET tool == IF Has(c, "T") THEN c["T"] ELSE s.tool
  IN [tool |-> tool,
      changes |-> s.changes \o (IF Is(c, "M", 6) THEN <<[tool |-> s.tool, m6 |-> TRUE]>> ELSE <<>>)
                  \o (IF Has(c, "T") THEN <<[tool |-> tool, m6 |-> FALSE]>> ELSE <<>>)]

\* A tool is noted for a T, and again for M6.
ScanStep(s, c) ==
  LET tool == IF Has(c, "T") THEN c["T"] ELSE s.tool
  IN [tool |-> tool,
      changes |-> s.changes \o (IF Has(c, "T") THEN <<[tool |-> tool, m6 |-> FALSE]>> ELSE <<>>)
                  \o (IF Is(c, "M", 6) THEN <<[tool |-> tool, m6 |-> TRUE]>> ELSE <<>>)]
ScanToolChanges(p) == FoldLeft(ScanStep, [tool |-> Null, changes |-> <<>>], p).changes

-----------------------------------------------------------------------------
(* The page's calls.                                                       *)

AppendCommand(c) ==
  /\ Len(program) < MaxCommands
  /\ program' = Append(program, c)
  /\ UNCHANGED <<tools, activeTool>>

Optimize(passes) ==
  /\ program' = OptimizeGCode(program, passes)
  /\ UNCHANGED <<tools, activeTool>>

Added(new, library) == [t \in DOMAIN library \cup new |-> IF t \in DOMAIN library THEN library[t] ELSE 0]

\* The path is drawn: its tools are selected in the library, the missing ones added.
DrawPath ==
  LET selected == Selections(program)
  IN /\ tools' = Added(ToSet(selected), tools)
     /\ activeTool' = IF selected = <<>> THEN activeTool ELSE Last(selected)
     /\ UNCHANGED program

AddTool(t, offset) ==
  /\ tools' = [u \in DOMAIN tools \cup {t} |-> IF u = t THEN offset ELSE tools[u]]
  /\ UNCHANGED <<program, activeTool>>
SelectTool(t) ==
  /\ tools' = Added({t}, tools) /\ activeTool' = t
  /\ UNCHANGED program
RemoveTool(t) ==
  /\ tools' = Restrict(tools, DOMAIN tools \ {t})
  /\ UNCHANGED <<program, activeTool>>
Clear ==
  /\ tools' = <<>> /\ activeTool' = Null
  /\ UNCHANGED program
LoadFromJSON(library, active) ==
  /\ tools' = library /\ activeTool' = active
  /\ UNCHANGED program

Libraries == UNION {[S -> Offsets] : S \in SUBSET Tools}

Next ==
  \/ \E c \in Commands : AppendCommand(c)
  \/ \E passes \in SUBSET Passes : Optimize(passes)
  \/ DrawPath
  \/ \E t \in Tools : SelectTool(t) \/ RemoveTool(t) \/ \E o \in Offsets : AddTool(t, o)
  \/ Clear
  \/ \E library \in Libraries, t \in Tools \cup {Null} : LoadFromJSON(library, t)

Spec == Init /\ [][Next]_vars

-----------------------------------------------------------------------------
(* Properties.                                                             *)

TypeOK ==
  /\ Len(program) <= MaxCommands /\ \A i \in DOMAIN program : DOMAIN program[i] # {}
  /\ tools \in Libraries
  /\ activeTool \in Tools \cup {Null}

\* Where the machine really moves, in turn, and at which feed.
Cuts(p) ==
  LET states == [i \in 1..(Len(p) + 1) |-> After(p, i - 1)]
      moving == SelectSeq([i \in DOMAIN p |-> i + 1], LAMBDA i : states[i].pos # states[i - 1].pos)
  IN [k \in DOMAIN moving |-> states[moving[k]]]

\* What the pass over redundant moves takes for granted: coordinates are those of one
\* origin and stand beside a G0 or G1, in a line that does nothing else.  With G92, G91
\* or an arc it takes moves away that lead somewhere: of G1 X1, G92 X0, G1 X1 the second.
PlainMoves(p) ==
  \A i \in DOMAIN p :
    /\ Has(p[i], "G") => p[i]["G"] \in {0, 1, 43, 49}
    /\ DOMAIN p[i] \cap Axes # {} => IsMoveCommand(p[i])
    /\ IsMoveCommand(p[i]) => DOMAIN p[i] \cap {"M", "T"} = {}

\* Every pass rewrites every line, and loses what else it has: the H of a G43.
Rewritable(p) == \A i \in DOMAIN p : DOMAIN p[i] \subseteq Rewritten

\* What passes may not change, of p that has become new.
KeptBy(passes, p, new) ==
  /\ Cuts(new) = Cuts(p)
  /\ ScanToolChanges(new) = ScanToolChanges(p)
  /\ Len(p) - Len(new) <= PotentialReduction(p, passes)
  /\ new # p => OptimizeGCode(new, passes) = new /\ (Safe(p) => Safe(new))

\* The passes that are to leave the machining alone: no segments are combined.  A
\* program that is rewritten without a loss, and has plain moves if redundant ones are
\* to go, still goes to the same places in turn, at the same feeds and with the same
\* spindle, and changes tools as before; if it is safe it stays safe; passes are done
\* at once, and take no more lines away than was announced.
PassesKeepTheProgram ==
  Rewritable(program) =>
    \A passes \in (SUBSET {"redundant", "duplicates"}) \ {{}} :
      ("redundant" \in passes => PlainMoves(program)) =>
        KeptBy(passes, program, OptimizeGCode(program, passes))

\* The tool that is in force after i commands, and whether its offset is.
ToolInForce(p, i) ==
  LET selected == Selections(SubSeq(p, 1, i)) IN IF selected = <<>> THEN 0 ELSE Last(selected)
OffsetInForce(p, i) ==
  \E k \in 1..i : Is(p[k], "G", 43) /\ \A l \in (k + 1)..i : ~Is(p[l], "G", 49)

RaisedAt(i) ==
  [After(program, i).pos EXCEPT !["Z"] = @ +
     IF OffsetInForce(program, i) THEN OffsetOf(ToolInForce(program, i)) ELSE 0]
Points(path, changes) == SelectSeq(path, LAMBDA q : (q.type = "tool-change") = changes)
Changed(points) == [i \in DOMAIN points |-> points[i].tool]
Found(changes) == [i \in DOMAIN changes |-> IF changes[i].tool = Null THEN 0 ELSE changes[i].tool]

\* The readers tell the same of a program: the path goes where the detector sees the
\* machine, raised by the offset in force, if only moves have coordinates; and the
\* path changes tools where the scan finds M6, if no offset names another tool.
ReadersAgree ==
  /\ (\A i \in DOMAIN program : DOMAIN program[i] \cap Axes # {} => IsMoveCommand(program[i]))
     => \A i \in DOMAIN program : Points(ParseGCodeToPoints(program), FALSE)[i].at = RaisedAt(i)
  /\ (\A i \in DOMAIN program : ~Has(program[i], "H"))
     => Changed(Points(ParseGCodeToPoints(program), TRUE))
          = Found(SelectSeq(ScanToolChanges(program), LAMBDA c : c.m6))
=============================================================================
