------------------------- MODULE CuttingRecommenders -------------------------
(***************************************************************************)
(* What modules/ml recommends for a cut: the tool selector, and the feed   *)
(* and speed recommender.                                                  *)
(***************************************************************************)
EXTENDS Integers, Sequences, FiniteSets, SequencesExt

(***************************************************************************)
(* modules/ml/tool-selector.mjs: which tools suit an operation, and what   *)
(* recorded wear and usage say of a tool.  Lengths are in micrometres,     *)
(* costs in units, wear in percent.  The material asked for is no criterion*)
(* in the code; ids of calls, times and texts are left out.                *)
(***************************************************************************)

CONSTANTS ToolIds,                \* the tools something is recorded of
          Wears, Finishes,
          MaxWear, MaxUsage       \* bounds

VARIABLES wearData, usageHistory,   \* per tool; the code filters one list by tool
          selection, prediction     \* the last answers

toolVars == <<wearData, usageHistory, selection, prediction>>

Tool(id, type, diameter, carbide, operations, cost) ==
  [id |-> id, type |-> type, diameter |-> diameter, carbide |-> carbide,
   operations |-> operations, cost |-> cost]

toolLibrary ==
  << Tool("em_1_flute", "End Mill", 1000, TRUE, {"MILLING", "ENGRAVING"}, 8),
     Tool("em_2_flute", "End Mill", 2000, TRUE, {"MILLING"}, 12),
     Tool("em_3_flute", "End Mill", 3175, TRUE, {"MILLING"}, 15),
     Tool("em_6_flute", "End Mill", 6000, TRUE, {"MILLING"}, 25),
     Tool("dr_1", "Drill", 1000, FALSE, {"DRILLING"}, 2),
     Tool("dr_2", "Drill", 2000, FALSE, {"DRILLING"}, 3),
     Tool("dr_3", "Drill", 3175, TRUE, {"DRILLING"}, 6),
     Tool("eng_v30", "Engraving Bit", 250, TRUE, {"ENGRAVING"}, 5),
     Tool("eng_v60", "Engraving Bit", 500, TRUE, {"ENGRAVING"}, 7),
     Tool("fm_10", "Face Mill", 10000, TRUE, {"FACING"}, 45) >>

Operations == {"DRILLING", "MILLING", "ENGRAVING", "TURNING", "FACING"}

NoSelection == [operation |-> "none", chosen |-> <<>>, wear |-> 0]
NoPrediction == [tool |-> "none", level |-> "LOW", life |-> 0, risk |-> 0]

ToolInit ==
  /\ wearData = [t \in ToolIds |-> <<>>] /\ usageHistory = [t \in ToolIds |-> <<>>]
  /\ selection = NoSelection /\ prediction = NoPrediction

Away(a, b) == IF a > b THEN a - b ELSE b - a

\* In twentieths of a thousandth of a point.
Score(tool) == 10 * (100000 - 10 * Away(tool.diameter, 3175)) + (IF tool.carbide THEN 500000 ELSE 250000)

\* Mutant of the next operator: worst first.
RankedWorst(operation) ==
  SetToSortSeq({i \in DOMAIN toolLibrary : operation \in toolLibrary[i].operations},
    LAMBDA i, j : Score(toolLibrary[i]) < Score(toolLibrary[j])
                  \/ (Score(toolLibrary[i]) = Score(toolLibrary[j]) /\ i < j))

\* The candidates by score; equals keep the order of the library.
Ranked(operation) ==
  SetToSortSeq({i \in DOMAIN toolLibrary : operation \in toolLibrary[i].operations},
    LAMBDA i, j : Score(toolLibrary[i]) > Score(toolLibrary[j])
                  \/ (Score(toolLibrary[i]) = Score(toolLibrary[j]) /\ i < j))

\* In percent; a facing operation has no rate, and the product is no number.
WearPrediction(operation) ==
  CASE operation = "DRILLING" -> 5 [] operation = "MILLING" -> 8
    [] operation = "ENGRAVING" -> 3 [] operation = "TURNING" -> 6 [] OTHER -> -1

\* The first three.  Without a candidate the call fails.
SelectTools(operation) ==
  LET ranked == Ranked(operation)
  IN /\ ranked # <<>>
     /\ selection' = [operation |-> operation, wear |-> WearPrediction(operation),
                      chosen |-> SubSeq(ranked, 1, IF Len(ranked) < 3 THEN Len(ranked) ELSE 3)]
     /\ UNCHANGED <<wearData, usageHistory, prediction>>

RecordWear(t, percent) ==
  /\ Len(wearData[t]) < MaxWear /\ wearData' = [wearData EXCEPT ![t] = Append(@, percent)]
  /\ UNCHANGED <<usageHistory, selection, prediction>>

RecordUsage(t, surfaceFinish) ==
  /\ Len(usageHistory[t]) < MaxUsage
  /\ usageHistory' = [usageHistory EXCEPT ![t] = Append(@, surfaceFinish)]
  /\ UNCHANGED <<wearData, selection, prediction>>

Total(s) == FoldLeft(LAMBDA a, v : a + v, 0, s)
\* The average of all measurements, the first ones included, in hundredths.
AverageWear(t) == IF wearData[t] = <<>> THEN 0 ELSE (100 * Total(wearData[t])) \div Len(wearData[t])

\* Mutant of the next operator: the two weights are exchanged.
FailureProbabilitySwapped(t, risk) == (30 * AverageWear(t) + 70 * 100 * risk) \div 100

FailureProbability(t, risk) == (70 * AverageWear(t) + 30 * 100 * risk) \div 100

Risk(probability) ==
  IF probability < 2000 THEN "LOW" ELSE IF probability < 5000 THEN "MEDIUM"
  ELSE IF probability < 8000 THEN "HIGH" ELSE "CRITICAL"

\* The risk factors are drawn below 30, and are 0 for a tool that was not used.
PredictFailure(t, risk) ==
  /\ usageHistory[t] = <<>> => risk = 0
  /\ prediction' = [tool |-> t, level |-> Risk(FailureProbability(t, risk)), life |-> 10000 - AverageWear(t),
                    risk |-> FailureProbability(t, risk)]
  /\ UNCHANGED <<wearData, usageHistory, selection>>

ToolNext ==
  \/ \E operation \in Operations : SelectTools(operation)
  \/ \E t \in ToolIds :
       \/ \E percent \in Wears : RecordWear(t, percent)
       \/ \E surfaceFinish \in Finishes : RecordUsage(t, surfaceFinish)
       \/ \E risk \in {0, 29} : PredictFailure(t, risk)


----------------------------------------------------------------------------
(* analyzeTool(), getInventoryRecommendations() and getStatistics()        *)

Status(t) ==
  IF wearData[t] = <<>> THEN "NEW" ELSE IF AverageWear(t) < 2000 THEN "GOOD"
  ELSE IF AverageWear(t) < 5000 THEN "FAIR" ELSE IF AverageWear(t) < 8000 THEN "WORN" ELSE "CRITICAL"

BreakageRisk(t) == IF 120 * AverageWear(t) > 1000000 THEN 10000 ELSE (120 * AverageWear(t)) \div 100

\* The last five measurements against up to five before them.  Below five the end of
\* slice() is negative and counts from the end: three or four are compared with their
\* own first one or three.
WearTrend(t) ==
  LET s == wearData[t]
      recent == SubSeq(s, IF Len(s) > 5 THEN Len(s) - 4 ELSE 1, Len(s))
      end == IF Len(s) < 5 THEN 2 * Len(s) - 5 ELSE Len(s) - 5
      older == SubSeq(s, IF Len(s) > 10 THEN Len(s) - 9 ELSE 1, end)
  IN IF Len(s) < 2 \/ older = <<>> THEN 0
     ELSE (100 * Total(recent)) \div Len(recent) - (100 * Total(older)) \div Len(older)

Average(s) == IF s = <<>> THEN 0 ELSE Total(s) \div Len(s)
RemainingLife(t) == 10000 - AverageWear(t)

\* What it advises.
ToolRecommendations(t) ==
  (IF BreakageRisk(t) > 7000 THEN {"replace"} ELSE {}) \cup (IF WearTrend(t) > 5 THEN {"monitor"} ELSE {})
  \cup (IF 2 * Total(usageHistory[t]) > 3 * Len(usageHistory[t]) THEN {"finish"} ELSE {})

AnalyzeTool(t) ==
  [usageCount |-> Len(usageHistory[t]), averageWear |-> AverageWear(t), wearTrend |-> WearTrend(t),
   remaining |-> RemainingLife(t), finish |-> Average(usageHistory[t]), breakageRisk |-> BreakageRisk(t),
   recommendations |-> ToolRecommendations(t)]

\* Of all tools.
ToolStatistics ==
  LET all == FoldLeft(LAMBDA a, t : a \o wearData[t], <<>>, SetToSeq(ToolIds))
  IN [usages |-> Total([i \in 1..Cardinality(ToolIds) |-> Len(usageHistory[SetToSeq(ToolIds)[i]])]),
      toolsInUse |-> Cardinality({t \in ToolIds : usageHistory[t] # <<>>}), averageWear |-> Average(all)]

\* Hours of a life, and what is charged, by tool.
ToolLife(tool) ==
  CASE tool.type = "End Mill" -> 200 [] tool.type = "Engraving Bit" -> 50 [] tool.type = "Face Mill" -> 300 [] OTHER -> 100
Cost(tool, quantity) == tool.cost * quantity

FailureRecommendation(level) ==
  CASE level = "LOW" -> "continue" [] level = "MEDIUM" -> "monitor" [] level = "HIGH" -> "plan" [] OTHER -> "replace now"

Listed == {t \in ToolIds : usageHistory[t] # <<>> /\ wearData[t] # <<>>}

ToolTyped ==
  /\ wearData \in [ToolIds -> Seq(Wears)] /\ usageHistory \in [ToolIds -> Seq(Finishes)]
  /\ selection.operation \in Operations \cup {"none"} /\ prediction.tool \in ToolIds \cup {"none"}

\* Three answers about one tool agree: a risk of breaking above 70 is at least WORN, a tool
\* the inventory calls CRITICAL is predicted HIGH, a HIGH prediction is of a tool WORN by
\* then, and no wear at all makes a prediction CRITICAL: the urgent advice is never given.
\* Wear that is called accelerating rose between two of its measurements, and two or five
\* of them have no trend, though three or four have.
\* A tool is never chosen before one of its material that is nearer the preferred
\* diameter, every chosen one does the operation, and only FACING has no wear to predict.
ToolsJudged ==
  /\ selection = NoSelection =>   \* nothing recorded depends on it
     \A t \in ToolIds : LET analysis == AnalyzeTool(t) IN
       /\ BreakageRisk(t) > 7000 => Status(t) \in {"WORN", "CRITICAL"}
       /\ Status(t) = "CRITICAL" => Risk(FailureProbability(t, 0)) = "HIGH"
       /\ Risk(FailureProbability(t, 29)) = "HIGH" => Status(t) \in {"WORN", "CRITICAL"}
       /\ Len(wearData[t]) \in {0, 1, 2, 5} => analysis.wearTrend = 0
       /\ "monitor" \in analysis.recommendations =>
            \E i, j \in DOMAIN wearData[t] : i < j /\ wearData[t][i] < wearData[t][j]
       /\ "replace" \in analysis.recommendations => analysis.remaining < 4200
       /\ t \in Listed => Status(t) # "NEW" /\ analysis.usageCount # 0
  /\ prediction.level # "CRITICAL" /\ FailureRecommendation(prediction.level) # "replace now"
  /\ prediction.level = "HIGH" => prediction.life <= 10000 - prediction.risk + 900
  /\ ToolStatistics.usages > 0 <=> ToolStatistics.toolsInUse > 0
  /\ \A i, j \in DOMAIN selection.chosen : i < j =>
       LET a == toolLibrary[selection.chosen[i]]
           b == toolLibrary[selection.chosen[j]]
       IN a.carbide = b.carbide => Away(a.diameter, 3175) <= Away(b.diameter, 3175)
  /\ \A i \in DOMAIN selection.chosen : selection.operation \in toolLibrary[selection.chosen[i]].operations
  /\ selection.wear = -1 <=> selection.operation = "FACING"
  /\ \A i \in DOMAIN selection.chosen : LET tool == toolLibrary[selection.chosen[i]]
       IN selection.wear = -1 <=> ToolLife(tool) = 300 /\ Cost(tool, 2) = 90

-----------------------------------------------------------------------------
(***************************************************************************)
(* modules/ml/feed-speed-recommender.mjs: feed, speed, depth and step over *)
(* for a material and a tool, adapted to feedback, predicted for a quality,*)
(* and the record of what was tried.  Feeds, depths, steps and diameters   *)
(* are in thousandths, speeds in turns, divisions rounded down; a          *)
(* recommendation rounds its feed and speed as the code does.  Confidences *)
(* (random), deviations, times and texts are left out.                     *)
(***************************************************************************)

CONSTANTS Diameters, Vibrations, Temperatures, Qualities,   \* inputs; vibration in percent
          MaxAdaptations, MaxHistory                        \* bounds

VARIABLES recommendation,       \* the last one, with what it was asked for
          current,              \* the parameters in use, adapted so far
          feedbacks,            \* history: the feedback of each adaptation, and the feed before and after
          performanceHistory

feedVars == <<recommendation, current, feedbacks, performanceHistory>>

Parameters(feedRate, spindleSpeed, depthOfCut, stepOver) ==
  [feedRate |-> feedRate, spindleSpeed |-> spindleSpeed, depthOfCut |-> depthOfCut, stepOver |-> stepOver]

calibrationData ==
  [aluminum |-> Parameters(200000, 3000, 2000, 1500), steel |-> Parameters(80000, 1500, 1000, 800),
   plastic |-> Parameters(300000, 3500, 2500, 2000), wood |-> Parameters(150000, 2000, 3000, 2500),
   titanium |-> Parameters(30000, 500, 500, 300)]

Materials == DOMAIN calibrationData \cup {"other"}
FinishGrades == {"FINE", "STANDARD", "DRAFT"}
MachineTypes == {"CNC_MILL", "CNC_LATHE", "DESKTOP_CNC", "GENERIC"}

\* An unknown material is cut like aluminum.
BaseParameters(material) == calibrationData[IF material = "other" THEN "aluminum" ELSE material]

Scaled(p, feed, speed, depth, by) ==
  [p EXCEPT !.feedRate = (@ * feed) \div by, !.spindleSpeed = (@ * speed) \div by, !.depthOfCut = (@ * depth) \div by]

\* Mutant of the next operator: a fine finish only gets shallower.
CorrectedDepthOnly(material, diameter, finish) ==
  LET p == Scaled(BaseParameters(material), 3175, 3175, diameter, diameter)
  IN IF finish = "FINE" THEN Scaled(p, 10, 10, 12, 10)
     ELSE IF finish = "DRAFT" THEN Scaled(p, 13, 10, 12, 10) ELSE p

\* By the diameter; then a fine finish slows, a draft hastens.
Corrected(material, diameter, finish) ==
  LET p == Scaled(BaseParameters(material), 3175, 3175, diameter, diameter)
  IN IF finish = "FINE" THEN Scaled(p, 7, 10, 8, 10)
     ELSE IF finish = "DRAFT" THEN Scaled(p, 13, 10, 12, 10) ELSE p

Margin(machineType) ==
  CASE machineType = "CNC_MILL" -> 80 [] machineType = "CNC_LATHE" -> 75
    [] machineType = "DESKTOP_CNC" -> 60 [] OTHER -> 90

Safe(p, machineType) ==
  LET margin == Margin(machineType)
  IN [feedRate |-> 1000 * ((p.feedRate * margin + 50000) \div 100000),
      spindleSpeed |-> (p.spindleSpeed * margin + 50) \div 100,
      depthOfCut |-> (p.depthOfCut * margin) \div 100, stepOver |-> (p.stepOver * margin) \div 100]

\* There is no entry for a lathe, which is taken for a generic machine.
Capable(p, machineType) ==
  LET feed == IF machineType = "CNC_MILL" THEN 5000 ELSE IF machineType = "DESKTOP_CNC" THEN 1000 ELSE 2000
      rpm == IF machineType = "CNC_MILL" THEN 24000 ELSE IF machineType = "DESKTOP_CNC" THEN 12000 ELSE 15000
      depth == IF machineType = "CNC_MILL" THEN 50 ELSE IF machineType = "DESKTOP_CNC" THEN 20 ELSE 30
  IN p.feedRate <= 1000 * feed /\ p.spindleSpeed <= rpm /\ p.depthOfCut <= 1000 * depth

Warned(p) == p.feedRate > 3000000 \/ p.spindleSpeed > 18000 \/ p.depthOfCut > 5000

\* Around what the material asks for, before the margin of the machine.
Alternatives(p) == <<Scaled(p, 80, 110, 100, 100), Scaled(p, 110, 90, 100, 100)>>

Coolant(material) ==
  CASE material \in {"aluminum", "titanium"} -> "flood" [] material = "steel" -> "oil" [] material = "plastic" -> "air"
    [] material = "wood" -> "dust" [] OTHER -> "none"

\* Per turn and depth, in hundredths, a tenth at least.
EstimatedFinish(p) ==
  LET estimate == ((p.feedRate \div 1000) * p.depthOfCut) \div p.spindleSpeed
  IN IF estimate < 10 THEN 10 ELSE estimate

NoRecommendation == [material |-> "none"]

FeedInit ==
  /\ recommendation = NoRecommendation /\ current = BaseParameters("steel")
  /\ feedbacks = <<>> /\ performanceHistory = <<>>

GetRecommendations(material, diameter, finish, machineType) ==
  LET safe == Safe(Corrected(material, diameter, finish), machineType)
  IN /\ recommendation' = [material |-> material, diameter |-> diameter, finish |-> finish,
                           machine |-> machineType, parameters |-> safe,
                           capable |-> Capable(safe, machineType), warned |-> Warned(safe),
                           coolant |-> Coolant(material), estimate |-> EstimatedFinish(safe),
                           alternatives |-> Alternatives(Corrected(material, diameter, finish))]
     /\ UNCHANGED <<current, feedbacks, performanceHistory>>

\* One after the other, each on what the ones before it left.
AdaptedFeed(feed, vibration, temperature, quality) ==
  LET vibrating == IF vibration > 70 THEN (feed * 85) \div 100
                   ELSE IF vibration < 30 THEN (feed * 110) \div 100 ELSE feed
      hot == IF temperature > 60 THEN (vibrating * 9) \div 10 ELSE vibrating
  IN IF quality > 85 THEN (hot * 105) \div 100 ELSE hot

\* What is said of an adaptation: any change of the feed is put down to vibration.
Rationale(f) ==
  IF f.vibration \in 30..70 /\ f.temperature <= 60 /\ f.quality <= 85 THEN "none"
  ELSE IF f.vibration > 70 THEN "high" ELSE "low"

\* What is adapted is the caller's; nothing bounds it.
GetAdaptiveRecommendations(vibration, temperature, quality) ==
  /\ Len(feedbacks) < MaxAdaptations
  /\ LET feed == AdaptedFeed(current.feedRate, vibration, temperature, quality)
     IN /\ current' = [current EXCEPT !.feedRate = feed,
                        !.spindleSpeed = IF vibration > 70 THEN (@ * 110) \div 100
                                         ELSE IF vibration < 30 THEN (@ * 90) \div 100 ELSE @]
        /\ feedbacks' = Append(feedbacks, [vibration |-> vibration, temperature |-> temperature,
                                 quality |-> quality, before |-> current.feedRate, after |-> feed])
  /\ UNCHANGED <<recommendation, performanceHistory>>

RecordPerformance(success, finish, wear) ==
  /\ Len(performanceHistory) < MaxHistory
  /\ performanceHistory' = Append(performanceHistory, [success |-> success, finish |-> finish, wear |-> wear])
  /\ UNCHANGED <<recommendation, current, feedbacks>>

\* Calls that read nothing of each other's are explored apart.
FeedNext ==
  \/ /\ feedbacks = <<>> /\ performanceHistory = <<>>
     /\ \E material \in Materials, diameter \in Diameters, finish \in FinishGrades, machineType \in MachineTypes :
          GetRecommendations(material, diameter, finish, machineType)
  \/ /\ recommendation = NoRecommendation /\ performanceHistory = <<>>
     /\ \E vibration \in Vibrations, temperature \in Temperatures, quality \in Qualities :
          GetAdaptiveRecommendations(vibration, temperature, quality)
  \/ /\ recommendation = NoRecommendation /\ feedbacks = <<>>
     /\ \E success \in BOOLEAN, finish \in {0, 1, 2}, wear \in {0, 4} : RecordPerformance(success, finish, wear)


----------------------------------------------------------------------------
(* predictOptimalParameters(), getParameterRanges(), analyzeHistorical...  *)

\* Tables of their own, without titanium.
Predicted(material, quality) ==
  LET p == CASE material \in {"aluminum", "steel", "plastic", "wood"} -> BaseParameters(material)
             [] OTHER -> Parameters(100000, 2000, 2000, 1500)
  IN IF quality = "FINE" THEN Scaled(p, 6, 10, 8, 10)
     ELSE IF quality = "DRAFT" THEN Scaled(p, 13, 10, 10, 10) ELSE p

\* The caller's limits on a prediction; a limit of 0 is none.
Constrained(p, maxFeedRate, maxRPM) ==
  [p EXCEPT !.feedRate = IF maxFeedRate # 0 /\ maxFeedRate < @ THEN maxFeedRate ELSE @,
            !.spindleSpeed = IF maxRPM # 0 /\ maxRPM < @ THEN maxRPM ELSE @]

\* In the middle of the ranges of getParameterRanges(), the step two fifths of the tool.
Recommended(material, diameter) ==
  LET c == IF material = "other" THEN Parameters(100000, 1000, 2000, 0) ELSE BaseParameters(material)
  IN [c EXCEPT !.stepOver = (4 * diameter) \div 10]

InRanges(p, material, diameter) ==
  LET c == Recommended(material, diameter)
  IN /\ 2 * p.feedRate >= c.feedRate /\ p.feedRate <= 2 * c.feedRate
     /\ 2 * p.spindleSpeed >= c.spindleSpeed /\ p.spindleSpeed <= 2 * c.spindleSpeed
     /\ p.depthOfCut >= 100 /\ p.depthOfCut <= 3 * c.depthOfCut
     /\ 10 * p.stepOver >= diameter /\ p.stepOver <= diameter

\* In hundredths; a finish that is not known adds nothing.
PerformanceScore(r) == (IF r.finish = 0 THEN 0 ELSE 100 \div r.finish) - 50 * r.wear

\* The first of the best successful records, 0 if there is none.
TopPerformer ==
  LET better(i, j) == PerformanceScore(performanceHistory[i]) > PerformanceScore(performanceHistory[j])
      good == {i \in DOMAIN performanceHistory : performanceHistory[i].success}
  IN IF good = {} THEN 0
     ELSE CHOOSE i \in good : \A j \in good \ {i} : better(i, j) \/ (~better(j, i) /\ i < j)

Successes == Len(SelectSeq(performanceHistory, LAMBDA r : r.success))

\* Of the latest records; of none there is no analysis.
AnalyzeHistory(limit) ==
  LET count == Len(performanceHistory)
      history == SubSeq(performanceHistory, IF count > limit THEN count - limit + 1 ELSE 1, count)
      finishes == [i \in DOMAIN history |-> history[i].finish]
  IN [totalRecords |-> Len(history),
      successRate |-> (100 * Len(SelectSeq(history, LAMBDA r : r.success))) \div Len(history),
      average |-> FoldLeft(+, 0, finishes) \div Len(history),
      least |-> FoldLeft(LAMBDA a, v : IF v < a THEN v ELSE a, Head(finishes), finishes),
      most |-> FoldLeft(LAMBDA a, v : IF v > a THEN v ELSE a, 0, finishes)]

Statistics ==
  [totalPerformanceRecords |-> Len(performanceHistory),
   successRate |-> IF performanceHistory = <<>> THEN 0 ELSE (100 * Successes) \div Len(performanceHistory)]

FeedTyped ==
  /\ recommendation.material \in Materials \cup {"none"}
  /\ current \in [feedRate : Nat, spindleSpeed : Nat, depthOfCut : Nat, stepOver : Nat]
  /\ Len(feedbacks) <= MaxAdaptations /\ Len(performanceHistory) <= MaxHistory

\* The tables of three calls agree: a recommendation for a tool of a millimetre or more is
\* within its machine and warns of nothing, a finer finish is never faster or deeper, and
\* what is predicted lies in the ranges of the material, titanium apart, which the
\* prediction's tables lack.  After any feedback a vibrating machine is fed less; a hot
\* tool is fed faster only if it cut smoothly and well, and slowing a hot tool is put down
\* to low vibration.  On a lathe or a desktop machine both alternatives are faster than
\* what is safe.  The best record is a success.
FeedsAreSafe ==
  /\ recommendation.material # "none" =>
       LET r == recommendation
           p(finish) == Safe(Corrected(r.material, r.diameter, finish), r.machine)
       IN /\ r.diameter >= 1000 => r.capable /\ ~r.warned
          /\ p("FINE").feedRate <= p("STANDARD").feedRate /\ p("STANDARD").feedRate <= p("DRAFT").feedRate
          /\ p("FINE").depthOfCut <= p("STANDARD").depthOfCut /\ r.parameters = p(r.finish)
          /\ InRanges(Predicted(r.material, r.finish), r.material, 3175) <=> r.material # "titanium"
          /\ InRanges(Recommended(r.material, r.diameter), r.material, r.diameter)
          /\ LET limited == Constrained(Predicted(r.material, r.finish), 50000, 0)
             IN limited.feedRate <= 50000 /\ limited.spindleSpeed = Predicted(r.material, r.finish).spindleSpeed
          /\ r.alternatives[2].feedRate > r.parameters.feedRate
          /\ r.machine \in {"CNC_LATHE", "DESKTOP_CNC"} => r.alternatives[1].feedRate > r.parameters.feedRate
          /\ r.finish = "FINE" => r.estimate <= EstimatedFinish(p("DRAFT"))
          /\ r.coolant = "none" <=> r.material = "other"
  /\ \A i \in DOMAIN feedbacks :
       LET f == feedbacks[i]
       IN /\ f.vibration > 70 => f.after < f.before
          /\ f.temperature > 60 /\ f.after > f.before => f.vibration < 30 /\ f.quality > 85
          /\ f.after < f.before => Rationale(f) = "high" \/ f.temperature > 60
          /\ f.after # f.before => Rationale(f) # "none"
  /\ TopPerformer # 0 =>
       /\ performanceHistory[TopPerformer].success
       /\ \A i \in DOMAIN performanceHistory : performanceHistory[i].success =>
            PerformanceScore(performanceHistory[i]) <= PerformanceScore(performanceHistory[TopPerformer])
  /\ performanceHistory # <<>> =>
       LET all == AnalyzeHistory(MaxHistory)
       IN /\ all.least <= all.average /\ all.average <= all.most /\ all.successRate = Statistics.successRate
          /\ AnalyzeHistory(1).least >= all.least /\ (TopPerformer = 0 <=> all.successRate = 0)

-----------------------------------------------------------------------------
\* The two share no state.
vars == <<toolVars, feedVars>>
Init == ToolInit /\ FeedInit
Next ==
  \/ ToolNext /\ UNCHANGED feedVars
  \/ FeedNext /\ UNCHANGED toolVars
Spec == Init /\ [][Next]_vars

TypeOK == ToolTyped /\ FeedTyped
==============================================================================
