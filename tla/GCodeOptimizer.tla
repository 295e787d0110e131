--------------------------- MODULE GCodeOptimizer ---------------------------
(***************************************************************************)
(* modules/ml/gcode-optimizer.mjs: a program is regrouped by tool, reordered*)
(* by distance, clamped to the workspace and thinned out.  A command keeps *)
(* the number of its line, which is what the new program is written from.  *)
(* x stands for both axes of the plane, and tools have whole numbers;      *)
(* feeds, lengths and improvements in percent are left out, and a time is  *)
(* one of two.                                                             *)
(***************************************************************************)
EXTENDS Integers, Sequences, FiniteSets, SequencesExt

CONSTANTS Xs, Zs, Tools, workspace,
          MaxLines   \* bound

VARIABLES program,       \* the last one given, <<>> at first
          options,
          optimization   \* the answer

vars == <<program, options, optimization>>

Null == -1

\* A line names any of the three: moves, lifts and tool changes, or none of them.
Commands == [x : Xs \cup {Null}, z : Zs \cup {Null}, tool : Tools \cup {Null}]

Options == [toolChanges : BOOLEAN, collisions : BOOLEAN]
NoAnswer == [lines |-> <<>>, original |-> 0, reduced |-> 0, changes |-> 0]

Init == program = <<>> /\ options = [toolChanges |-> TRUE, collisions |-> TRUE] /\ optimization = NoAnswer

\* Numbered groups come in the order of their numbers, and the lines without a tool, or
\* with number 0, last.
OptimizeToolChanges(p) ==
  LET lines == [i \in DOMAIN p |-> i]
      tools == SetToSortSeq(Tools \ {0}, LAMBDA a, b : a < b)
  IN FlattenSeq([k \in DOMAIN tools |-> SelectSeq(lines, LAMBDA i : p[i].tool = tools[k])])
       \o SelectSeq(lines, LAMBDA i : p[i].tool \in {Null, 0})

Or(value, other) == IF value = Null THEN other ELSE value
Square(a) == a * a

\* The first of the nearest moves, or the first command when no move is left.
Nearest(p, rest, at) ==
  LET moves == {i \in DOMAIN rest : p[rest[i]].x # Null}
      distance(i) == Square(p[rest[i]].x - at.x) + Square(Or(p[rest[i]].z, at.z) - at.z)
  IN IF moves = {} THEN 1
     ELSE CHOOSE i \in moves : \A j \in moves \ {i} :
            distance(i) < distance(j) \/ (distance(i) = distance(j) /\ i < j)

PathStep(p, s) ==
  LET i == Nearest(p, s.rest, s.at)
      c == p[s.rest[i]]
  IN [rest |-> RemoveAt(s.rest, i), at |-> [x |-> Or(c.x, s.at.x), z |-> Or(c.z, s.at.z)],
      out |-> Append(s.out, s.rest[i])]

OptimizePath(p, lines) ==
  FoldLeft(LAMBDA s, line : PathStep(p, s),
           [rest |-> lines, at |-> [x |-> 0, z |-> 0], out |-> <<>>], lines).out

\* A negative coordinate would be Null here, so only the upper side is met.
Clamped(c) ==
  [c EXCEPT !.x = IF @ > workspace THEN workspace ELSE @, !.z = IF @ > workspace THEN workspace ELSE @]

SamePlace(c, d) == c.x = d.x /\ c.z = d.z

\* Mutant of the next operator: compares with every line kept, not with the last.
CompressAll(p, lines) ==
  FoldLeft(LAMBDA out, line : IF \E i \in DOMAIN out : SamePlace(p[out[i]], p[line])
                              THEN out ELSE Append(out, line), <<>>, lines)

\* Commands without coordinates are all in the same place.
CompressRedundantMoves(p, lines) ==
  FoldLeft(LAMBDA out, line : IF out # <<>> /\ SamePlace(p[Last(out)], p[line])
                              THEN out ELSE Append(out, line), <<>>, lines)

\* Changes to another tool than the last one named.
ToolChanges(p, lines) ==
  LET tools == SelectSeq(lines, LAMBDA i : p[i].tool # Null)
  IN Cardinality({i \in DOMAIN tools : i = 1 \/ p[tools[i]].tool # p[tools[i - 1]].tool})

\* Reordering takes the commands off the list it is given: off the parsed one itself when
\* the tools were not regrouped into another list, and its length is asked for at the end.
Optimize(p, o) ==
  LET lines == [i \in DOMAIN p |-> i]
      path == OptimizePath(p, IF o.toolChanges THEN OptimizeToolChanges(p) ELSE lines)
      safe == IF o.collisions THEN [i \in DOMAIN p |-> Clamped(p[i])] ELSE p
      kept == CompressRedundantMoves(safe, path)
      original == IF o.toolChanges THEN Len(p) ELSE 0
  IN /\ program' = p /\ options' = o
     /\ optimization' = [lines |-> kept, original |-> original, reduced |-> original - Len(kept),
                         changes |-> ToolChanges(p, lines) - ToolChanges(p, kept)]

Next == program = <<>> /\ \E p \in SeqOf(Commands, MaxLines) \ {<<>>}, o \in Options : Optimize(p, o)

Spec == Init /\ [][Next]_vars

----------------------------------------------------------------------------
(* What is said of a program: analyze(), compareStrategies() and           *)
(* suggestParameters(), which reads none of it.                            *)

\* Counts every difference between neighbours, back to naming no tool included.
FoundToolChanges(p) == Cardinality({i \in 2..Len(p) : p[i].tool # p[i - 1].tool})
RedundantMoves(p) == Cardinality({i \in 2..Len(p) : SamePlace(p[i], p[i - 1])})

Metrics(p, hours) ==
  [toolChanges |-> ToolChanges(p, [i \in DOMAIN p |-> i]), commandCount |-> Len(p), hours |-> hours]

IdentifyOptimizationOpportunities(p) ==
  (IF FoundToolChanges(p) > 3 THEN {"TOOL_CHANGES"} ELSE {}) \cup (IF RedundantMoves(p) > 0 THEN {"REDUNDANT_MOVES"} ELSE {})
Recommendations(m) ==
  (IF m.toolChanges > 5 THEN {"consolidate"} ELSE {}) \cup (IF m.hours > 1 THEN {"faster"} ELSE {})
  \cup (IF m.commandCount > 1000 THEN {"simplify"} ELSE {})

Analyze(p, hours) ==
  [metrics |-> Metrics(p, hours), opportunities |-> IdentifyOptimizationOpportunities(p),
   recommendations |-> Recommendations(Metrics(p, hours))]

Strategies ==
  << [name |-> "MINIMIZE_TIME", time |-> 60, quality |-> 20, wear |-> 20],
     [name |-> "MINIMIZE_TOOL_WEAR", time |-> 20, quality |-> 30, wear |-> 50],
     [name |-> "MAXIMIZE_QUALITY", time |-> 20, quality |-> 70, wear |-> 10],
     [name |-> "BALANCED", time |-> 33, quality |-> 33, wear |-> 34] >>

\* In thousandths: the count as it is, the others as parts of one.
StrategyScore(m, w) ==
  10 * m.commandCount * w.time + (IF m.toolChanges > 10 THEN 10 ELSE m.toolChanges) * w.quality
    + 10 * (IF m.hours > 1 THEN 1 ELSE m.hours) * w.wear

\* The first of the best.
CompareStrategies(m) ==
  FoldLeft(LAMBDA best, s : IF StrategyScore(m, s) > StrategyScore(m, best) THEN s ELSE best, Strategies[1], Strategies).name

\* Diameters in thousandths, rounded.
Rate(base, diameter) == (2 * base * 3175 + diameter) \div (2 * diameter)
SuggestParameters(material, diameter) ==
  LET base(aluminum, steel, plastic, wood, other) ==
        CASE material = "aluminum" -> aluminum [] material = "steel" -> steel
          [] material = "plastic" -> plastic [] material = "wood" -> wood [] OTHER -> other
  IN [feedRate |-> Rate(base(200, 80, 300, 150, 100), diameter),
      spindleSpeed |-> Rate(base(1000, 500, 1200, 800, 800), diameter),
      depthOfCut |-> diameter \div 2, stepOver |-> (4 * diameter) \div 10]

----------------------------------------------------------------------------
TypeOK ==
  /\ program \in Seq(Commands) /\ options \in Options
  /\ \A i \in DOMAIN optimization.lines : optimization.lines[i] \in DOMAIN program

\* Of every program: no line is written twice; one that is left out stood, when it was
\* reached, right behind one in the same place within the workspace, so that each place
\* named before is still named; every move comes before everything that is none, tool
\* and spindle commands included, these keep their order, unless regrouped, and each that
\* differs from the one before it; and the count of lines saved is right if the tools
\* were regrouped, and of the whole program, negative, otherwise.  A program that was
\* regrouped has no more tool changes than before if no line names both a tool and a
\* place in the plane; one with such lines may get more, as they are then reordered by
\* distance (G1 X1 T1, G1 X9 T1, G1 X5 T2 does).
\* The redundant moves an analysis counts are those a thinning alone would save, and of
\* the strategies compared the same one is recommended for every program.
ProgramRearranged ==
  LET out == optimization.lines
      place(i) == IF options.collisions THEN Clamped(program[i]) ELSE program[i]
  IN /\ \A i, j \in DOMAIN out : i # j => out[i] # out[j]
     /\ \A line \in DOMAIN program : \E i \in DOMAIN out : SamePlace(place(line), place(out[i]))
     /\ \A i, j \in DOMAIN out : program[out[i]].x # Null /\ program[out[j]].x = Null => i < j
     /\ \A i, j \in DOMAIN out : j = i + 1 => ~SamePlace(place(out[i]), place(out[j]))
     /\ ~options.toolChanges =>
          LET others == SelectSeq([i \in DOMAIN program |-> i], LAMBDA i : program[i].x = Null)
          IN /\ \A i \in DOMAIN others : i > 1 /\ ~SamePlace(place(others[i]), place(others[i - 1]))
                                        => others[i] \in ToSet(out)
             /\ \A i, j \in DOMAIN out : i < j /\ {out[i], out[j]} \subseteq ToSet(others) => out[i] < out[j]
     /\ options.toolChanges /\ (\A i \in DOMAIN program : program[i].x = Null \/ program[i].tool = Null)
          => optimization.changes >= 0
     /\ RedundantMoves(program) =
          Len(program) - Len(CompressRedundantMoves(program, [i \in DOMAIN program |-> i]))
     /\ FoundToolChanges(program) >= Metrics(program, 0).toolChanges - 1
     /\ out # <<>> => \A hours \in {0, 1} :
          /\ CompareStrategies(Metrics(program, hours)) = "MINIMIZE_TIME"
          /\ "REDUNDANT_MOVES" \in Analyze(program, hours).opportunities <=>
               \E i \in 2..Len(program) : SamePlace(program[i], program[i - 1])
     /\ optimization.reduced = (IF options.toolChanges THEN Len(program) ELSE 0) - Len(out)
=============================================================================
