------------------------ MODULE FailuresAndAnomalies -------------------------
(***************************************************************************)
(* What modules/ml expects to fail and what it finds out of the ordinary:  *)
(* the failure predictor, and the anomaly detector.                        *)
(***************************************************************************)
EXTENDS Integers, Sequences, FiniteSets, SequencesExt

(***************************************************************************)
(* modules/ml/failure-predictor.mjs for one tool, one machine and one      *)
(* component.  Factors are in hundredths, rounded down where the code      *)
(* divides; what it combines is in hundredths of a percent.  Ids, texts    *)
(* and the rounding of what is shown are left out.                         *)
(***************************************************************************)

CONSTANTS Durations, Finishes,                  \* of recorded operations
          Hours, Vibrations, Temperatures,      \* inputs; vibrations in hundredths
          Components, Cycles,
          FailureTypes,
          MaxOperations, MaxPredictions, MaxFailures   \* bounds

VARIABLES operationHistory,
          failureHistory,  \* the types of what failed
          predictions,     \* their levels, in order
          criticalEvents,  \* those announced as critical
          last             \* the last prediction in full

failureVars == <<operationHistory, failureHistory, predictions, criticalEvents, last>>

NoPrediction == [kind |-> "none"]
FailureInit == operationHistory = <<>> /\ failureHistory = <<>> /\ predictions = <<>> /\ criticalEvents = 0 /\ last = NoPrediction

Least(a, b) == IF a < b THEN a ELSE b
Most(a, b) == IF a > b THEN a ELSE b
Total(s) == FoldLeft(LAMBDA a, v : a + v, 0, s)
\* The first of the levels whose limit is above the value.
Level(value, limits, levels) ==
  levels[Cardinality({i \in DOMAIN limits : value >= limits[i]}) + 1]

----------------------------------------------------------------------------
(* predictToolBreakage()                                                   *)

ChipControls == {"NORMAL", "IRREGULAR", "POOR", "SEVERE", "OTHER"}

\* Hours against a hundred times the average duration.
UsageRisk(hours) ==
  LET count == Len(operationHistory)
      average100 == (100 * Total([i \in 1..count |-> operationHistory[i].duration])) \div count
  IN (90 * Least(hours, Most(1, average100))) \div Most(1, average100)

VibrationRisk(vibration) == Level(vibration, <<30, 60, 80>>, <<10, 40, 70, 95>>)
ThermalRisk(temperature) == Level(temperature, <<40, 60, 80>>, <<10, 30, 60, 90>>)
ChipRisk(chips) ==
  CASE chips = "NORMAL" -> 10 [] chips = "IRREGULAR" -> 40 [] chips = "POOR" -> 70
    [] chips = "SEVERE" -> 95 [] OTHER -> 50

\* Mutant of the next operator: a finish better than the average counts like a worse one.
SurfaceRiskAbs(finish) ==
  LET known == SelectSeq([i \in DOMAIN operationHistory |-> operationHistory[i].finish], LAMBDA f : f > 0)
      worse == Len(known) * finish - Total(known)
  IN IF known = <<>> THEN 30
     ELSE Least((100 * Most(worse, -worse)) \div Most(Len(known), Total(known)), 95)

\* Against the average of the finishes that are known.
SurfaceRisk(finish) ==
  LET known == SelectSeq([i \in DOMAIN operationHistory |-> operationHistory[i].finish], LAMBDA f : f > 0)
      worse == Len(known) * finish - Total(known)
  IN IF known = <<>> THEN 30
     ELSE Least((100 * Most(worse, 0)) \div Most(Len(known), Total(known)), 95)

Combined(hours, vibration, temperature, chips, finish) ==
  30 * UsageRisk(hours) + 25 * VibrationRisk(vibration) + 20 * ThermalRisk(temperature)
    + 15 * ChipRisk(chips) + 10 * SurfaceRisk(finish)

RiskLevel(risk) == Level(risk, <<2000, 5000, 8000>>, <<"LOW", "MEDIUM", "HIGH", "CRITICAL">>)

Predict(prediction, level, announced) ==
  /\ Len(predictions) < MaxPredictions
  /\ predictions' = Append(predictions, [kind |-> prediction.kind, level |-> level])
  /\ criticalEvents' = criticalEvents + (IF level = "CRITICAL" /\ announced THEN 1 ELSE 0)
  /\ last' = prediction /\ UNCHANGED <<operationHistory, failureHistory>>

\* Without a history the answer is UNKNOWN and nothing is kept.
PredictToolBreakage(hours, vibration, temperature, chips, finish) ==
  /\ operationHistory # <<>>
  /\ LET risk == Combined(hours, vibration, temperature, chips, finish)
     IN Predict([kind |-> "tool", level |-> RiskLevel(risk), left |-> Most(0, 10000 - risk)],
                RiskLevel(risk), TRUE)

----------------------------------------------------------------------------
(* predictSpindleFatigue(): the axial limit is 1, the radial one 0.5.      *)

SpindleFatigue(rpm, hours, vibration, noise, temperature) ==
  30 * (Least((70 * rpm) \div 24000, 100) + Least((30 * hours) \div 2000, 100))
    + 35 * ((50 * Least(vibration, 100) + 50 * Least(2 * vibration, 100)) \div 100)
    + 20 * Least(noise, 100)
    + 15 * Most(0, Least((100 * (temperature - 20)) \div 60, 100))

FatigueLevel(fatigue) == Level(fatigue, <<3000, 6000, 8500>>, <<"HEALTHY", "AGING", "FATIGUED", "CRITICAL">>)

PredictSpindleFatigue(rpm, hours, vibration, noise, temperature) ==
  LET fatigue == SpindleFatigue(rpm, hours, vibration, noise, temperature)
  IN Predict([kind |-> "spindle", level |-> FatigueLevel(fatigue), left |-> Most(0, 50000 - 5 * fatigue)],
             FatigueLevel(fatigue), TRUE)

----------------------------------------------------------------------------
(* predictSurfaceDegradation(): the increase is relative to the last       *)
(* finish, and 0 / 0 without one, which every comparison refuses.          *)

DegradationLevel(percent) ==
  Level(percent, <<500, 1500, 3000>>, <<"MINIMAL", "MODERATE", "SIGNIFICANT", "SEVERE">>)

\* Effects of wear, feed and depth; the two latter end at 0.3 and 0.2 percent.
Degradation(usage, feed, depth) ==
  60 * usage + Least((30 * feed) \div 500, 30) + Least((20 * depth) \div 5, 20)

PredictSurfaceDegradation(usage, feed, depth, finish) ==
  LET percent == Degradation(usage, feed, depth)
      level == IF finish = 0 THEN "SEVERE" ELSE DegradationLevel(percent)
  IN Predict([kind |-> "surface", level |-> level, known |-> finish # 0,
              needed |-> finish # 0 /\ percent > 1500], level, FALSE)

----------------------------------------------------------------------------
(* predictComponentWear()                                                  *)

\* Expected hours, and wear in hundredths of a percent of a thousand cycles.
WearFactors(component) ==
  CASE component = "SPINDLE_BEARING" -> [hours |-> 2000, cycles |-> 100]
    [] component = "BALLSCREW" -> [hours |-> 5000, cycles |-> 50]
    [] component = "SERVO_MOTOR" -> [hours |-> 3000, cycles |-> 80]
    [] component = "LEADSCREW" -> [hours |-> 1500, cycles |-> 200]
    [] OTHER -> [hours |-> 2000, cycles |-> 100]

\* load and cooling in percent.
Wear(component, hours, cycles, load, cooling) ==
  LET factors == WearFactors(component)
  IN Least((7000 * hours) \div factors.hours
             + (Least((cycles * factors.cycles) \div 1000, 3000) * load) \div 100
             + 10 * (100 - cooling), 10000)

WearLevel(wear) == Level(wear, <<3000, 6000, 8000>>, <<"GOOD", "FAIR", "WORN", "CRITICAL">>)

PredictComponentWear(component, hours, cycles, load, cooling) ==
  LET wear == Wear(component, hours, cycles, load, cooling)
  IN Predict([kind |-> "component", level |-> WearLevel(wear),
              left |-> Most(0, WearFactors(component).hours - hours)], WearLevel(wear), TRUE)

RecordOperation(duration, finish) ==
  /\ Len(operationHistory) < MaxOperations
  /\ operationHistory' = Append(operationHistory, [duration |-> duration, finish |-> finish])
  /\ UNCHANGED <<failureHistory, predictions, criticalEvents, last>>

RecordFailure(type) ==
  /\ Len(failureHistory) < MaxFailures /\ failureHistory' = Append(failureHistory, type)
  /\ UNCHANGED <<operationHistory, predictions, criticalEvents, last>>

\* Mutant of the next operator: of tools alone.
CriticalPredictionsOfTools ==
  Len(SelectSeq(predictions, LAMBDA p : p.level = "CRITICAL" /\ p.kind = "tool"))

\* getFailureSummary() asks for riskLevel and fatigueLevel, and a component has a wearLevel.
CriticalPredictions ==
  Len(SelectSeq(predictions, LAMBDA p : p.level = "CRITICAL" /\ p.kind \in {"tool", "spindle"}))

GetFailureSummary ==
  [totalPredictions |-> Len(predictions), criticalPredictions |-> CriticalPredictions,
   recordedFailures |-> Len(failureHistory),
   failuresByType |-> [type \in ToSet(failureHistory) |-> Len(SelectSeq(failureHistory, LAMBDA f : f = type))]]

Statistics ==
  [totalPredictions |-> Len(predictions), criticalPredictions |-> CriticalPredictions,
   recordedFailures |-> Len(failureHistory), operationRecords |-> Len(operationHistory)]

\* What a prediction advises, by its level: the worst one asks for a replacement, at once
\* for all but a surface; and by when.
Ranks ==
  [tool |-> <<"LOW", "MEDIUM", "HIGH", "CRITICAL">>, spindle |-> <<"HEALTHY", "AGING", "FATIGUED", "CRITICAL">>,
   surface |-> <<"MINIMAL", "MODERATE", "SIGNIFICANT", "SEVERE">>, component |-> <<"GOOD", "FAIR", "WORN", "CRITICAL">>]
Recommendation(p) ==
  CASE <<p.kind, p.level>> \in {<<"tool", "HIGH">>, <<"spindle", "FATIGUED">>, <<"component", "WORN">>} -> "plan replacement"
    [] p.kind = "surface" /\ p.level = "SIGNIFICANT" -> "consider replacement"
    [] p.kind = "surface" /\ p.level = "SEVERE" -> "replace"
    [] p.level = "CRITICAL" -> "replace immediately"
    [] OTHER -> "monitor or continue"
Actions(p) ==
  CASE p.kind # "tool" \/ p.level = "LOW" -> {}
    [] p.level = "MEDIUM" -> {"monitor", "record"}
    [] p.level = "HIGH" -> {"reduce parameters", "prepare replacement", "monitor"}
    [] OTHER -> {"stop", "replace", "inspect"}
\* Months; surfaces and tools have no schedule.
Schedule(p) ==
  LET rank == SelectInSeq(Ranks[p.kind], LAMBDA level : level = p.level)
  IN CASE p.kind = "spindle" -> <<6, 3, 1, 0>>[rank] [] p.kind = "component" -> <<12, 6, 3, 0>>[rank] [] OTHER -> -1

FailureNext ==
  \/ \E duration \in Durations, finish \in Finishes : RecordOperation(duration, finish)
  \/ \E type \in FailureTypes : RecordFailure(type)
  \/ \E hours \in Hours, vibration \in Vibrations, temperature \in Temperatures :
       \/ \E chips \in ChipControls, finish \in Finishes :
            PredictToolBreakage(hours, vibration, temperature, chips, finish)
       \/ \E rpm \in {0, 24000}, noise \in {0, 100} :
            PredictSpindleFatigue(rpm, hours, vibration, noise, temperature)
  \/ \E usage \in {0, 25, 100}, feed \in {0, 500}, depth \in {0, 5}, finish \in Finishes :
       PredictSurfaceDegradation(usage, feed, depth, finish)
  \/ \E component \in Components, hours \in Hours, cycles \in Cycles, load, cooling \in {0, 100} :
       PredictComponentWear(component, hours, cycles, load, cooling)


----------------------------------------------------------------------------
FailureTyped ==
  /\ operationHistory \in Seq([duration : Durations, finish : Finishes])
  /\ Len(predictions) <= MaxPredictions /\ criticalEvents \in 0..MaxPredictions
  /\ failureHistory \in Seq(FailureTypes)

ComponentCriticals ==
  Len(SelectSeq(predictions, LAMBDA p : p.level = "CRITICAL" /\ p.kind = "component"))

\* Whatever the history holds (asked before the first prediction), a longer, hotter or rougher use, a worse finish or more
\* vibration never lowers the risk of a tool.
RiskGrows ==
  operationHistory # <<>> /\ last = NoPrediction =>
    \A h1, h2 \in Hours, v1, v2 \in Vibrations, t1, t2 \in Temperatures, f1, f2 \in Finishes :
      h1 <= h2 /\ v1 <= v2 /\ t1 <= t2 /\ f1 <= f2 =>
        \A chips \in {"NORMAL", "SEVERE"} :
          Combined(h1, v1, t1, chips, f1) <= Combined(h2, v2, t2, "SEVERE", f2)

\* The level of a prediction, the life it leaves and the intervention it asks for agree:
\* no life left means the worst level (for a component the two worst), and a surface
\* without a known finish is SEVERE and asks for nothing.
LevelsAgree ==
  /\ last.kind = "tool" => (last.level = "CRITICAL" <=> last.left <= 2000)
  /\ last.kind = "spindle" => (last.left = 0 => last.level = "CRITICAL")
  /\ last.kind = "component" => (last.left = 0 => last.level \in {"WORN", "CRITICAL"})
  /\ last.kind = "surface" =>
       IF last.known THEN last.needed => last.level \in {"SIGNIFICANT", "SEVERE"}
       ELSE last.level = "SEVERE" /\ ~last.needed

\* What is advised agrees with what is announced: every prediction that asks for a
\* replacement at once was announced as critical and the others were not, a schedule at
\* once is of those alone, and a severe surface asks for a replacement nobody announces.
AdviceAgrees ==
  /\ Len(SelectSeq(predictions, LAMBDA p : Recommendation(p) = "replace immediately")) = criticalEvents
  /\ \A i \in DOMAIN predictions : LET p == predictions[i]
       IN /\ Schedule(p) = 0 <=> p.level = "CRITICAL" /\ p.kind # "tool"
          /\ "stop" \in Actions(p) <=> p.kind = "tool" /\ p.level = "CRITICAL"
          /\ Recommendation(p) = "replace" => p.level # "CRITICAL" /\ Actions(p) = {}

\* With these, the summary counts as critical every prediction announced as critical,
\* components apart, and never a surface, and its failures by type are all that were
\* recorded, whatever was predicted of them.
PredictionsAgree ==
  /\ RiskGrows /\ LevelsAgree /\ AdviceAgrees
  /\ GetFailureSummary.criticalPredictions + ComponentCriticals = criticalEvents
  /\ Statistics.recordedFailures =
       FoldFunction(LAMBDA n, total : n + total, 0, GetFailureSummary.failuresByType)

-----------------------------------------------------------------------------
(***************************************************************************)
(* modules/ml/anomaly-detector.mjs for one sensor of one machine: readings *)
(* are compared, as they come, with a baseline taken from earlier ones, and*)
(* analysed in windows.  Means and deviations are compared exactly, both   *)
(* sides squared and multiplied out.  Times, ids, texts and the rounding of*)
(* what a report shows are left out.                                       *)
(***************************************************************************)

CONSTANTS Values, thermalLimit,
          baselineWindow,
          MaxReadings, MaxBaselines   \* bounds

AnomalyAssumption == baselineWindow \in Nat \ {0}

VARIABLES readings, baseline,
          anomalies,    \* what was recorded, with the baseline it was compared with
          baselines     \* history: how often a baseline was taken

anomalyVars == <<readings, baseline, anomalies, baselines>>

\* The last n elements.
LastOf(s, n) == SubSeq(s, IF Len(s) > n THEN Len(s) - n + 1 ELSE 1, Len(s))
SampleTotal(s) == FoldLeft(LAMBDA a, v : a + v, 0, s)

\* Count, sum, and the variance times the square of the count.
SampleOf(s) ==
  LET sum == SampleTotal(s)
  IN [count |-> Len(s), sum |-> sum,
      spread |-> Len(s) * FoldLeft(LAMBDA a, v : a + v * v, 0, s) - sum * sum, from |-> ToSet(s)]

AnomalyInit == readings = <<>> /\ baseline = SampleOf(<<>>) /\ anomalies = <<>> /\ baselines = 0

Larger(a, b) == IF a > b THEN a ELSE b
\* The square of the distance from the mean, in squared counts.
Distance(v, st) == (st.count * v - st.sum) * (st.count * v - st.sum)

\* |v - mean| / max(stdDev, 0.1) > 2.5
Deviates(v, st) ==
  st.count > 0 /\ 400 * Distance(v, st) > 25 * Larger(100 * st.spread, st.count * st.count)

\* _classifySensorSeverity: below 3, below 4.
Severity(v, st) ==
  LET limit == Larger(100 * st.spread, st.count * st.count)
  IN IF 100 * Distance(v, st) < 9 * limit THEN "LOW"
     ELSE IF 100 * Distance(v, st) < 16 * limit THEN "MEDIUM" ELSE "HIGH"

RecordReading(v) ==
  /\ Len(readings) < MaxReadings /\ readings' = Append(readings, v)
  /\ anomalies' = IF Deviates(v, baseline)
                  THEN Append(anomalies, [value |-> v, severity |-> Severity(v, baseline), by |-> baseline])
                  ELSE anomalies
  /\ UNCHANGED <<baseline, baselines>>

\* From the latest readings, anomalous ones included.
InitializeBaseline ==
  /\ readings # <<>> /\ baselines < MaxBaselines /\ baselines' = baselines + 1
  /\ baseline' = SampleOf(LastOf(readings, baselineWindow))
  /\ UNCHANGED <<readings, anomalies>>

AnomalyNext == InitializeBaseline \/ \E v \in Values : RecordReading(v)


----------------------------------------------------------------------------
(* The analyses, of a window of readings: whatever is read, any window.    *)

\* Those further from the mean than so many deviations.
Beyond(s, deviations) ==
  LET st == SampleOf(s)
  IN {i \in DOMAIN s : Distance(s[i], st) > deviations * deviations * st.spread}

\* Mutant of the next operator: peaks of two deviations.
DetectPeaksOfTwo(s) ==
  {i \in Beyond(s, 2) : 1 < i /\ i < Len(s) /\ s[i] > s[i - 1] /\ s[i] > s[i + 1]}

DetectPeaks(s) ==
  {i \in Beyond(s, 3) : 1 < i /\ i < Len(s) /\ s[i] > s[i - 1] /\ s[i] > s[i + 1]}

AcousticAnomalies(s) == Beyond(s, 2)

\* The changes over 10 among the first ten readings of the window, not the last.
FrequencyShifts(s) ==
  {i \in 2..(IF Len(s) < 10 THEN Len(s) ELSE 10) : s[i] - s[i - 1] > 10 \/ s[i - 1] - s[i] > 10}

RapidTemperatureChange(s) ==
  LET recent == LastOf(s, 5)
      older == LastOf(SubSeq(s, 1, Len(s) - Len(recent)), 5)
  IN older # <<>> /\ SampleTotal(recent) * Len(older) - SampleTotal(older) * Len(recent) > 5 * Len(recent) * Len(older)

Overheated(s) == {i \in DOMAIN s : s[i] > thermalLimit}

\* Of the mean, against six, eight and nine and a half tenths of the limit.
ThermalStatus(s) ==
  LET mean100 == 100 * SampleTotal(s)
      below(percent) == mean100 < percent * thermalLimit * Len(s)
  IN IF below(60) THEN "COOL" ELSE IF below(80) THEN "NORMAL" ELSE IF below(95) THEN "WARM" ELSE "HOT"

\* Of the axes with peaks, of which there are three at most.
VibrationSeverity(axes) ==
  IF axes = 0 THEN "NORMAL" ELSE IF axes = 1 THEN "LOW" ELSE IF axes < 5 THEN "MEDIUM" ELSE "HIGH"
DetectVibrationAnomalies(s) ==
  [readings |-> Len(s), peaks |-> DetectPeaks(s), severity |-> VibrationSeverity(IF DetectPeaks(s) = {} THEN 0 ELSE 1)]

NoiseLevel(s) ==
  LET below(noise) == SampleTotal(s) < noise * Len(s)
  IN IF below(20) THEN "QUIET" ELSE IF below(50) THEN "NORMAL" ELSE IF below(75) THEN "LOUD" ELSE "VERY_LOUD"
Peak(s) == FoldLeft(Larger, 0, s)
AcousticIssues(s) ==
  (IF 4 * SampleOf(s).spread > SampleTotal(s) * SampleTotal(s) THEN {"variability"} ELSE {})
  \cup (IF Len(s) * Peak(s) > 2 * SampleTotal(s) THEN {"spikes"} ELSE {})
DetectAcousticAnomalies(s) ==
  [anomalies |-> AcousticAnomalies(s), shifts |-> FrequencyShifts(s), noise |-> NoiseLevel(s),
   issues |-> AcousticIssues(s), severity |-> IF AcousticAnomalies(s) = {} THEN "NORMAL" ELSE "MEDIUM"]

ThermalRecommendation(s) ==
  IF ThermalStatus(s) \in {"COOL", "NORMAL"} THEN "normal"
  ELSE IF ThermalStatus(s) = "WARM" THEN "monitor" ELSE "reduce load"
DetectThermalAnomalies(s) ==
  [anomalies |-> Cardinality(Overheated(s)) + (IF RapidTemperatureChange(s) THEN 1 ELSE 0),
   status |-> ThermalStatus(s), recommendation |-> ThermalRecommendation(s)]

\* The latest reading, over a tenth away from what is expected, which counts as a tenth
\* at least.
DetectProcessDeviation(s, expected) ==
  LET away == Larger(Last(s) - expected, expected - Last(s))
      over(tenths) == 100 * away > tenths * Larger(10 * expected, 1)
  IN IF over(3) THEN "HIGH" ELSE IF over(1) THEN "MEDIUM" ELSE "NONE"

AnomalyReport ==
  [total |-> Len(anomalies), bySeverity |-> [severity \in {"LOW", "MEDIUM", "HIGH", "CRITICAL"} |->
     Cardinality({i \in DOMAIN anomalies : anomalies[i].severity = severity})]]

\* getStatistics(): a rate is asked of the readings there are.
AnomalyRate == IF readings = <<>> THEN 0 ELSE (100 * Len(anomalies)) \div Len(readings)

AnomalyTyped ==
  /\ readings \in Seq(Values) /\ Len(readings) <= MaxReadings
  /\ \A i \in DOMAIN anomalies : anomalies[i].severity \in {"LOW", "MEDIUM", "HIGH"}
  /\ baseline.count <= baselineWindow

\* What the thresholds mean for small samples, which no test of a few readings shows: a
\* reading is an anomaly to a baseline that contains its value only if that baseline has
\* eight readings or more; a vibration peak takes a window of eleven, an acoustic anomaly
\* one of six, and in fewer a spike is variability, too; a temperature that rises rapidly
\* or a hot mean rests on readings that do.  Every anomaly counts under one severity.
AnomaliesNeedReadings ==
  /\ \A i \in DOMAIN anomalies : anomalies[i].value \in anomalies[i].by.from => anomalies[i].by.count >= 8
  /\ AnomalyRate \in 0..100
  /\ AnomalyReport.total = LET by == AnomalyReport.bySeverity IN by["LOW"] + by["MEDIUM"] + by["HIGH"]
  /\ readings # <<>> /\ baselines = 0 =>   \* no analysis asks for the baseline
       LET vibration == DetectVibrationAnomalies(readings)
           acoustic == DetectAcousticAnomalies(readings)
           thermal == DetectThermalAnomalies(readings)
       IN /\ vibration.peaks # {} => vibration.readings >= 11
          /\ acoustic.severity = "MEDIUM" => Len(readings) >= 6
          /\ Len(readings) < 6 /\ "spikes" \in acoustic.issues => "variability" \in acoustic.issues
          /\ \A i \in acoustic.shifts : i <= 10 /\ readings[i] # readings[i - 1]
          /\ thermal.anomalies > Cardinality(Overheated(readings)) =>
               Len(readings) >= 6 /\ \E i, j \in DOMAIN readings : i < j /\ readings[j] > readings[i] + 5
          /\ Overheated(readings) = DOMAIN readings => thermal.status = "HOT" /\ thermal.recommendation = "reduce load"
          /\ thermal.recommendation = "reduce load" =>
               \E i \in DOMAIN readings : DetectProcessDeviation(<<readings[i]>>, thermalLimit) = "NONE" \/ i \in Overheated(readings)

-----------------------------------------------------------------------------
Assumption == AnomalyAssumption

\* The two share no state.
vars == <<failureVars, anomalyVars>>
Init == FailureInit /\ AnomalyInit
Next ==
  \/ FailureNext /\ UNCHANGED anomalyVars
  \/ AnomalyNext /\ UNCHANGED failureVars
Spec == Init /\ [][Next]_vars

TypeOK == FailureTyped /\ AnomalyTyped
==============================================================================
