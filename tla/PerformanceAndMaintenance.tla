---------------------- MODULE PerformanceAndMaintenance ----------------------
(***************************************************************************)
(* The performance monitor and the predictive maintenance engine of        *)
(* modules/monitoring.                                                     *)
(***************************************************************************)
EXTENDS Integers, Sequences, FiniteSets, SequencesExt

(***************************************************************************)
(* The metrics and alerts of modules/monitoring/performance-monitor.mjs.   *)
(* Every call and every tick of the monitoring interval is a step.         *)
(*                                                                         *)
(* Metadata is left out; every metric has the same thresholds.             *)
(***************************************************************************)

CONSTANTS Names,              \* of metrics, in the order _collectSystemMetrics() records them
          Values,
          historySize,
          warning, critical,  \* alertThresholds, 0 for none
          Quiet,              \* the 5000 ms between alerts of a kind, in ticks
          MaxTime, MaxAlerts  \* bounds

PerformanceAssumption == historySize \in Nat \ {0} /\ Quiet \in Nat \ {0} /\ warning <= critical

VARIABLES now, metrics,      \* name -> its last values
          alerts,            \* metric, severity, time and resolved of each
          triggered,         \* length of alertHistory
          intervals,         \* of monitoringIntervals that run
          isMonitoring,
          exceeded           \* history: metric and severity -> when last exceeded, since
                             \* the alerts were cleared

performanceVars == <<now, metrics, alerts, triggered, intervals, isMonitoring, exceeded>>

Severities == {"WARNING", "CRITICAL"}
Never == 0

PerformanceInit ==
  /\ now = 1 /\ alerts = <<>> /\ triggered = 0
  /\ metrics = [n \in ToSet(Names) |-> <<>>]
  /\ intervals = 0 /\ isMonitoring = FALSE
  /\ exceeded = [n \in ToSet(Names), s \in Severities |-> Never]

Above(value, threshold) == threshold # 0 /\ value > threshold

\* _checkThresholds(): a critical value is not a warning, too.
AlertSeverity(value) ==
  CASE Above(value, critical) -> "CRITICAL"
    [] Above(value, warning) /\ ~Above(value, critical) -> "WARNING"
    [] OTHER -> "none"

\* Mutant of the next operator: one alert keeps every other of the metric quiet.
SilencedByMetric(list, name, severity) ==
  \E i \in DOMAIN list : list[i].name = name /\ now - list[i].timestamp < Quiet

\* A resolved alert silences others, too.
Silenced(list, name, severity) ==
  \E i \in DOMAIN list :
    list[i].name = name /\ list[i].severity = severity /\ now - list[i].timestamp < Quiet


Kept(values) == IF Len(values) > historySize THEN Tail(values) ELSE values

\* recordMetric(): what it makes of the values, the alerts and the history.
Recorded(s, name, value) ==
  LET values   == Append(s.metrics[name], value)
      severity == AlertSeverity(value)
      alert    == [name |-> name, severity |-> severity, timestamp |-> now, resolved |-> FALSE]
  IN [metrics  |-> [s.metrics EXCEPT ![name] = Kept(values)],
      alerts   |-> IF severity = "none" \/ Silenced(s.alerts, name, severity) THEN s.alerts
                   ELSE Append(s.alerts, alert),
      exceeded |-> IF severity = "none" THEN s.exceeded
                   ELSE [s.exceeded EXCEPT ![name, severity] = now]]

Becomes(s) ==
  /\ metrics' = s.metrics /\ alerts' = s.alerts /\ exceeded' = s.exceeded
  /\ triggered' = triggered + Len(s.alerts) - Len(alerts)
  /\ triggered' <= MaxAlerts
  /\ UNCHANGED <<now, intervals, isMonitoring>>

Now == [metrics |-> metrics, alerts |-> alerts, exceeded |-> exceeded]

RecordMetric(name, value) == Becomes(Recorded(Now, name, value))

CollectSystemMetrics(value) ==
  /\ intervals > 0
  /\ Becomes(FoldLeft(LAMBDA s, name : Recorded(s, name, value[name]), Now, Names))

StartMonitoring ==
  /\ ~isMonitoring
  /\ isMonitoring' = TRUE /\ intervals' = intervals + 1
  /\ UNCHANGED <<now, metrics, alerts, triggered, exceeded>>

StopMonitoring ==
  /\ isMonitoring
  /\ isMonitoring' = FALSE /\ intervals' = 0
  /\ UNCHANGED <<now, metrics, alerts, triggered, exceeded>>

ResolveAlert(i) ==
  /\ alerts' = [alerts EXCEPT ![i].resolved = TRUE]
  /\ UNCHANGED <<now, metrics, triggered, intervals, isMonitoring, exceeded>>

\* The alert history stays.
ClearMetrics ==
  /\ metrics' = [n \in ToSet(Names) |-> <<>>]
  /\ alerts' = <<>>
  /\ exceeded' = [n \in ToSet(Names), s \in Severities |-> Never]
  /\ UNCHANGED <<now, triggered, intervals, isMonitoring>>

Tick ==
  /\ now < MaxTime /\ now' = now + 1
  /\ UNCHANGED <<metrics, alerts, triggered, intervals, isMonitoring, exceeded>>

PerformanceNext ==
  \/ \E name \in ToSet(Names), value \in Values : RecordMetric(name, value)
  \/ \E value \in [ToSet(Names) -> Values] : CollectSystemMetrics(value)
  \/ StartMonitoring \/ StopMonitoring
  \/ \E i \in DOMAIN alerts : ResolveAlert(i)
  \/ ClearMetrics \/ Tick


----------------------------------------------------------------------------
\* _updateAggregates(), while there are values.
Least(values) == CHOOSE v \in ToSet(values) : \A w \in ToSet(values) : v <= w
Greatest(values) == CHOOSE v \in ToSet(values) : \A w \in ToSet(values) : v >= w
Aggregates(values) ==
  [min |-> Least(values), max |-> Greatest(values), count |-> Len(values),
   sum |-> FoldLeft(+, 0, values), latest |-> values[Len(values)]]

\* Of means, in percent, against one at least; a baseline of 0 is none.
CompareToBaseline(name, baseline) ==
  IF metrics[name] = <<>> \/ baseline = 0 THEN [known |-> FALSE, isAboveBaseline |-> FALSE, deviation |-> 0]
  ELSE LET a == Aggregates(metrics[name])
       IN [known |-> TRUE, isAboveBaseline |-> a.sum > a.count * baseline,
           deviation |-> (100 * (a.sum - a.count * baseline)) \div (a.count * baseline)]

\* getAlerts(): resolved or not.
Alerts(severity, name) ==
  SelectSeq(alerts, LAMBDA a : severity \in {"any", a.severity} /\ name \in {"any", a.name})

\* exportMetrics(): every alert there ever was.
Exported == [metrics |-> [n \in {n \in ToSet(Names) : metrics[n] # <<>>} |-> metrics[n]], alerts |-> triggered]

\* getStatistics(): the resolved ones are counted as active.
PerformanceStatistics == [activeAlerts |-> Len(alerts), totalAlertsTriggered |-> triggered]

----------------------------------------------------------------------------
PerformanceTyped ==
  /\ now \in 1..MaxTime /\ triggered \in 0..MaxAlerts
  /\ \A n \in ToSet(Names) : metrics[n] \in Seq(Values) /\ Len(metrics[n]) <= historySize
  /\ alerts \in Seq([name : ToSet(Names), severity : Severities, timestamp : 1..now,
                     resolved : BOOLEAN])
  /\ intervals \in 0..1 /\ isMonitoring \in BOOLEAN

\* However values are recorded by callers and by the interval, every metric that has
\* gone above a threshold since the alerts were cleared has an alert of that severity
\* from less than Quiet before, alerts of a kind keep that distance, the interval runs
\* exactly while monitoring is on, and the sum of what is kept lies between count times
\* its least and its greatest value.  A metric is above a baseline only if one of the
\* values kept is, none is compared with a baseline of 0, and an export has more alerts
\* than are active, never fewer.
AlertsTold ==
  /\ \A n \in ToSet(Names), s \in Severities : exceeded[n, s] # Never =>
       \E i \in DOMAIN alerts : /\ alerts[i].name = n /\ alerts[i].severity = s
                                /\ exceeded[n, s] - alerts[i].timestamp \in 0..(Quiet - 1)
  /\ \A i, j \in DOMAIN alerts :
       i < j /\ alerts[i].name = alerts[j].name /\ alerts[i].severity = alerts[j].severity
         => alerts[j].timestamp - alerts[i].timestamp >= Quiet
  /\ isMonitoring <=> intervals = 1
  /\ PerformanceStatistics.activeAlerts <= PerformanceStatistics.totalAlertsTriggered
  /\ \A n \in ToSet(Names) : metrics[n] # <<>> =>
       LET a == Aggregates(metrics[n])
       IN /\ a.count * a.min <= a.sum /\ a.sum <= a.count * a.max /\ a.latest \in a.min..a.max
          /\ \A baseline \in Values \cup {0} : LET c == CompareToBaseline(n, baseline)
               IN /\ c.known <=> baseline # 0
                  /\ c.isAboveBaseline => a.max > baseline /\ c.deviation >= 0
  /\ \A n \in ToSet(Names) :
       /\ Len(Alerts("any", n)) = Len(Alerts("WARNING", n)) + Len(Alerts("CRITICAL", n))
       /\ Len(Alerts("any", n)) <= Exported.alerts
       /\ alerts # <<>> => DOMAIN Exported.metrics # {}

-----------------------------------------------------------------------------
(***************************************************************************)
(* The predictions, health scores and recommendations of                   *)
(* modules/monitoring/predictive-maintenance-engine.mjs.  Every call is a  *)
(* step.                                                                   *)
(*                                                                         *)
(* Numbers are in tenths: of the life of the equipment, of each factor of  *)
(* its wear and of each of its health.  Dates of failure and the routine   *)
(* maintenance after 30 days are left out.                                 *)
(***************************************************************************)

CONSTANTS Equipment,
          Hours,                  \* operatingHours / maxLifeHours
          Feeds, Speeds,          \* feedRate / 100; spindleSpeed / 3000 * 1.2
          Heats, Vibrations,      \* temperature / 20; vibration over its threshold
          Healths,                \* of the vibration, temperature and efficiency together
          maxPredictions,         \* 1000 in the code
          MaxPredictions          \* bound

MaintenanceAssumption == Hours \subseteq 0..10 /\ maxPredictions \in Nat \ {0}

VARIABLES hours,             \* equipment -> its operatingHours, or Unregistered
          predictions,       \* equipment -> wear, remaining hours and severity of each
          historicalData,    \* number of predictions of all equipment
          healthScores,      \* equipment -> tenths, or Unregistered
          recommendations    \* equipment -> actions

maintenanceVars == <<hours, predictions, historicalData, healthScores, recommendations>>

Unregistered == -1

MaintenanceInit ==
  /\ hours = [e \in Equipment |-> Unregistered]
  /\ predictions = [e \in Equipment |-> <<>>] /\ historicalData = 0
  /\ healthScores = [e \in Equipment |-> Unregistered]
  /\ recommendations = [e \in Equipment |-> {}]

\* Again, too: what was predicted and recommended stays.
RegisterEquipment(e, h) ==
  /\ hours' = [hours EXCEPT ![e] = h]
  /\ healthScores' = [healthScores EXCEPT ![e] = 10]
  /\ UNCHANGED <<predictions, historicalData, recommendations>>

AtLeast(least, factor) == IF factor < least THEN least ELSE factor

Worn == 100000   \* 1.0, the product of the tenths

\* predictWear(): however hard the use, equipment of no hours has no wear.
Wear(h, feed, speed, heat, vibration) ==
  LET wear == h * AtLeast(5, feed) * AtLeast(8, speed) * AtLeast(10, heat) * AtLeast(10, vibration)
  IN IF wear > Worn THEN Worn ELSE wear


Severity(wear) ==
  CASE wear > 90000 -> "CRITICAL"
    [] wear > 70000 /\ wear <= 90000 -> "WARNING"
    [] OTHER -> "NORMAL"

\* Tenths of its life, times Worn.
Remaining(h, wear) == (10 - h) * (Worn - wear)

PredictWear(e, feed, speed, heat, vibration) ==
  LET wear == Wear(hours[e], feed, speed, heat, vibration)
      all  == Append(predictions[e], [wear |-> wear, remaining |-> Remaining(hours[e], wear),
                                      severity |-> Severity(wear), hours |-> hours[e]])
  IN /\ hours[e] # Unregistered /\ historicalData < MaxPredictions
     /\ predictions' = [predictions EXCEPT ![e] = IF Len(all) > maxPredictions THEN Tail(all) ELSE all]
     /\ historicalData' = historicalData + 1
     /\ UNCHANGED <<hours, healthScores, recommendations>>

\* The mean of the wear factor, 1 down to 0.5, and of three others.
CalculateHealthScore(e, others) ==
  LET score == (20 - hours[e] + 2 * others) \div 8
  IN /\ hours[e] # Unregistered
     /\ healthScores' = [healthScores EXCEPT ![e] = IF score > 10 THEN 10 ELSE score]
     /\ UNCHANGED <<hours, predictions, historicalData, recommendations>>

\* For a prediction that the caller has kept and the score there is; what was
\* recommended before is replaced.
GenerateRecommendations(e, p) ==
  /\ recommendations' = [recommendations EXCEPT ![e] =
       (CASE p.severity = "CRITICAL" -> {"REPLACE_IMMEDIATELY"}
          [] p.severity = "WARNING"  -> {"PLAN_REPLACEMENT"}
          [] OTHER                   -> {})
       \cup IF healthScores[e] < 5 THEN {"MAINTENANCE_INSPECTION"} ELSE {}]
  /\ UNCHANGED <<hours, predictions, historicalData, healthScores>>

MaintenanceNext == \E e \in Equipment :
  \/ \E h \in Hours : RegisterEquipment(e, h)
  \/ \E feed \in Feeds, speed \in Speeds, heat \in Heats, vibration \in Vibrations :
       PredictWear(e, feed, speed, heat, vibration)
  \/ \E others \in Healths : CalculateHealthScore(e, others)
  \/ \E i \in DOMAIN predictions[e] : GenerateRecommendations(e, predictions[e][i])


----------------------------------------------------------------------------
\* detectAnomalies() keeps nothing: whether it is worth a warning, of limits of its own,
\* half again the vibration that counts as wear, 60 degrees, and the stability and the
\* runout of the feed.
DetectAnomalies(heat, vibration, unstable, runout) ==
  (IF vibration > 15 THEN {"EXCESSIVE_VIBRATION"} ELSE {}) \cup (IF heat > 30 THEN {"HIGH_TEMPERATURE"} ELSE {})
  \cup (IF unstable THEN {"UNSTABLE_FEED_RATE"} ELSE {}) \cup (IF runout THEN {"SPINDLE_RUNOUT"} ELSE {})

\* What there is of equipment, registered or not; its last maintenance is its registration.
GetPredictions(e, limit) ==
  LET n == Len(predictions[e]) IN SubSeq(predictions[e], IF n > limit THEN n - limit + 1 ELSE 1, n)
MaintenanceHistory(e) == IF hours[e] = Unregistered THEN {} ELSE {"LAST_MAINTENANCE"}

\* getStatistics(): equipment that is critical is counted among the warnings, too.
Scored(below) == {e \in Equipment : healthScores[e] # Unregistered /\ healthScores[e] < below}
Statistics == [registeredEquipment |-> Cardinality({e \in Equipment : hours[e] # Unregistered}),
               criticalEquipment |-> Cardinality(Scored(3)), warningEquipment |-> Cardinality(Scored(7)),
               totalPredictions |-> historicalData]

----------------------------------------------------------------------------
MaintenanceTyped ==
  /\ hours \in [Equipment -> Hours \cup {Unregistered}]
  /\ \A e \in Equipment : predictions[e] \in
       Seq([wear : 0..Worn, remaining : 0..(10 * Worn),
            severity : {"NORMAL", "WARNING", "CRITICAL"}, hours : Hours])
  /\ healthScores \in [Equipment -> Unregistered..10]
  /\ recommendations \in [Equipment -> SUBSET
       {"REPLACE_IMMEDIATELY", "PLAN_REPLACEMENT", "MAINTENANCE_INSPECTION"}]

Rank(severity) == CASE severity = "NORMAL" -> 0 [] severity = "WARNING" -> 1 [] OTHER -> 2

\* Of two predictions for equipment of the same age the more severe one leaves it no
\* more time, equipment is told one thing about its replacement, and that only after a
\* prediction; heat or vibration that is reported as an anomaly also wears, of equipment
\* that is neither new nor worn out (the limits of the two were chosen apart); and the
\* statistics count each critical one as a warning, among equipment that is registered.
MaintenanceConsistent ==
  /\ \A e \in Equipment :
       /\ Len(predictions[e]) <= maxPredictions
       /\ \A i, j \in DOMAIN predictions[e] :
            LET p == predictions[e][i]
                q == predictions[e][j]
            IN p.hours = q.hours /\ Rank(p.severity) > Rank(q.severity) => p.remaining <= q.remaining
       /\ ~({"REPLACE_IMMEDIATELY", "PLAN_REPLACEMENT"} \subseteq recommendations[e])
       /\ recommendations[e] # {} => GetPredictions(e, 1) # <<>> /\ MaintenanceHistory(e) # {}
       /\ Len(GetPredictions(e, 1)) <= 1
  /\ historicalData = 0 => \A heat, vibration \in {10, 15, 16, 30, 31, 40}, h \in Hours :
       LET calm == Wear(h, 10, 10, 10, 10)
       IN DetectAnomalies(heat, vibration, FALSE, FALSE) # {} /\ calm \in 1..(Worn - 1) =>
            Wear(h, 10, 10, heat, vibration) > calm
  /\ Statistics.criticalEquipment <= Statistics.warningEquipment
  /\ Statistics.warningEquipment <= Statistics.registeredEquipment

-----------------------------------------------------------------------------
Assumption == PerformanceAssumption /\ MaintenanceAssumption

\* The two share no state.
vars == <<performanceVars, maintenanceVars>>
Init == PerformanceInit /\ MaintenanceInit
Next ==
  \/ PerformanceNext /\ UNCHANGED maintenanceVars
  \/ MaintenanceNext /\ UNCHANGED performanceVars
Spec == Init /\ [][Next]_vars

TypeOK == PerformanceTyped /\ MaintenanceTyped
==============================================================================
