------------------------- MODULE MetricsAndDashboard -------------------------
(***************************************************************************)
(* The metrics of a machine and the dashboard that shows them: the metrics *)
(* aggregator of modules/hardware, and the dashboard manager of            *)
(* modules/monitoring.                                                     *)
(***************************************************************************)
EXTENDS Integers, Sequences, FiniteSets, SequencesExt, FiniteSetsExt

(***************************************************************************)
(* The buffers, alerts and aggregates of                                   *)
(* modules/hardware/machine-metrics-aggregator.mjs.  Every call is a step. *)
(*                                                                         *)
(* Of each kind of metrics the numbers that are compared with a limit are  *)
(* kept: the temperature of the spindle, the commanded and the actual feed *)
(* rate, the temperatures of the machine, the squared acceleration and the *)
(* total power.                                                            *)
(***************************************************************************)

CONSTANTS metricsBufferSize,
          thermalWarningTemp, thermalCriticalTemp,
          Temps, Components,        \* components: those of `thermal' that differ
          Feeds, Accelerations, Powers,
          MaxRecords                \* bound

MetricAssumption == metricsBufferSize \in Nat \ {0} /\ thermalWarningTemp <= thermalCriticalTemp

Types == {"spindle", "feed", "thermal", "vibration", "power"}
Missing == -1   \* an actual feed rate that is undefined

VARIABLES metrics,      \* type -> its buffer
          known,        \* types with an entry in the Map
          aggregates,   \* type -> the sampleCount of its aggregate, 0 for none
          metricsCollected, thermalAlerts, powerSpikes,
          told,         \* alerts of the last call
          recorded,     \* history: type and metrics of every call
          resetAt       \* history: number of calls before the last reset

metricVars == <<metrics, known, aggregates, metricsCollected, thermalAlerts, powerSpikes, told,
          recorded, resetAt>>

MetricInit ==
  /\ metrics = [t \in Types |-> <<>>] /\ known = {} /\ aggregates = [t \in Types |-> 0]
  /\ metricsCollected = 0 /\ thermalAlerts = 0 /\ powerSpikes = 0
  /\ told = {} /\ recorded = <<>> /\ resetAt = 0

Critical(temp) == temp > thermalCriticalTemp
Thermal(component, temp) ==
  CASE Critical(temp) -> {<<"thermalCritical", component>>}
    [] temp > thermalWarningTemp /\ ~Critical(temp) -> {<<"thermalWarning", component>>}
    [] OTHER -> {}

\* Mutant of the next operator: the newest is dropped.
BufferedOld(buffer, m) == IF Len(buffer) < metricsBufferSize THEN Append(buffer, m) ELSE buffer

Buffered(buffer, m) ==
  IF Len(buffer) < metricsBufferSize THEN Append(buffer, m) ELSE Tail(Append(buffer, m))

Record(type, m, alerts) ==
  /\ Len(recorded) < MaxRecords
  /\ metrics' = [metrics EXCEPT ![type] = Buffered(@, m)]
  /\ known' = known \cup {type}
  /\ recorded' = Append(recorded, [type |-> type, metrics |-> m])
  /\ told' = alerts
  /\ thermalAlerts' = thermalAlerts + Cardinality({a \in alerts : a[1] = "thermalCritical"})
  /\ powerSpikes' = powerSpikes + Cardinality({a \in alerts : a[1] = "powerSpike"})
  /\ metricsCollected' = IF type = "spindle" THEN metricsCollected + 1 ELSE metricsCollected
  /\ UNCHANGED <<aggregates, resetAt>>

\* The speed 0 of a spindle that stands throws, however hot it is.
RecordSpindleMetrics(speed, temp) ==
  /\ speed # 0
  /\ Record("spindle", temp, Thermal("spindle", temp))

\* A deviation of more than a tenth; none when the actual rate is missing.
RecordFeedMetrics(commanded, actual) ==
  LET deviation == IF actual < commanded THEN commanded - actual ELSE actual - commanded
      least     == IF commanded < 1 THEN 1 ELSE commanded
  IN Record("feed", <<commanded, IF actual = Missing THEN 0 ELSE actual>>,
            IF actual # Missing /\ 10 * deviation > least THEN {<<"feedRateDeviation", "feed">>}
            ELSE {})

RecordThermalMetrics(temps) ==
  Record("thermal", temps, UNION {Thermal(c, temps[c]) : c \in Components})

RecordVibrationMetrics(x, y, z) ==
  LET squared == x * x + y * y + z * z
  IN Record("vibration", squared, IF squared > 25 THEN {<<"vibrationWarning", "vibration">>} ELSE {})

RecordPowerMetrics(total) ==
  Record("power", total, IF total > 5000 THEN {<<"powerSpike", "power">>} ELSE {})

CalculateAggregates(type) ==
  /\ metrics[type] # <<>>
  /\ aggregates' = [aggregates EXCEPT ![type] = Len(metrics[type])]
  /\ UNCHANGED <<metrics, known, metricsCollected, thermalAlerts, powerSpikes, told, recorded, resetAt>>

\* getDashboardState(): all of them.
GetDashboardState ==
  /\ aggregates' = [t \in Types |-> IF metrics[t] = <<>> THEN aggregates[t] ELSE Len(metrics[t])]
  /\ UNCHANGED <<metrics, known, metricsCollected, thermalAlerts, powerSpikes, told, recorded, resetAt>>

\* The statistics stay.
ResetMetrics ==
  /\ metrics' = [t \in Types |-> <<>>] /\ aggregates' = [t \in Types |-> 0]
  /\ resetAt' = Len(recorded)
  /\ UNCHANGED <<known, metricsCollected, thermalAlerts, powerSpikes, told, recorded>>

MetricNext ==
  \/ \E speed \in {0, 1}, temp \in Temps : RecordSpindleMetrics(speed, temp)
  \/ \E commanded \in Feeds, actual \in Feeds \cup {Missing} : RecordFeedMetrics(commanded, actual)
  \/ \E temps \in [Components -> Temps] : RecordThermalMetrics(temps)
  \/ \E x, z \in Accelerations : RecordVibrationMetrics(x, 0, z)
  \/ \E total \in Powers : RecordPowerMetrics(total)
  \/ \E type \in Types : CalculateAggregates(type)
  \/ GetDashboardState \/ ResetMetrics


----------------------------------------------------------------------------
MetricData(type, limit) ==
  LET n == Len(metrics[type])
  IN IF limit = 0 \/ limit >= n THEN metrics[type] ELSE SubSeq(metrics[type], n - limit + 1, n)

MetricStatistics == [metricsCollected |-> metricsCollected, thermalAlerts |-> thermalAlerts,
               powerSpikes |-> powerSpikes, activeMetricTypes |-> Cardinality(known)]

----------------------------------------------------------------------------
MetricTyped ==
  /\ DOMAIN metrics = Types /\ known \subseteq Types
  /\ aggregates \in [Types -> 0..metricsBufferSize]
  /\ metricsCollected \in Nat /\ thermalAlerts \in Nat /\ powerSpikes \in Nat
  /\ Len(recorded) <= MaxRecords /\ resetAt \in 0..Len(recorded)

Since(type) ==
  LET mine == SelectSeq(SubSeq(recorded, resetAt + 1, Len(recorded)), LAMBDA r : r.type = type)
  IN [i \in DOMAIN mine |-> mine[i].metrics]
TempsOf(r) == CASE r.type = "spindle" -> {r.metrics}
                [] r.type = "thermal" -> {r.metrics[c] : c \in Components}
                [] OTHER -> {}
Hot == SelectSeq(recorded, LAMBDA r : \E t \in TempsOf(r) : Critical(t))

\* A buffer holds the last metrics of its kind since the last reset and nothing else;
\* an aggregate is of metrics that are there, never of more than the buffer has, however
\* calls and resets interleave; and each call that a too hot part was in has raised an
\* alert that the statistics have, through every reset.
MetricsKept ==
  /\ \A t \in Types : /\ IsSuffix(metrics[t], Since(t))
                      /\ Len(metrics[t]) = IF Len(Since(t)) < metricsBufferSize THEN Len(Since(t))
                                           ELSE metricsBufferSize
                      /\ aggregates[t] <= Len(metrics[t])
                      /\ \A limit \in 0..metricsBufferSize : IsSuffix(MetricData(t, limit), Since(t))
  /\ MetricStatistics.thermalAlerts >= Len(Hot) /\ (Hot = <<>> => MetricStatistics.thermalAlerts = 0)
  /\ MetricStatistics.activeMetricTypes = Cardinality({recorded[i].type : i \in DOMAIN recorded})

-----------------------------------------------------------------------------
(***************************************************************************)
(* The clients of modules/monitoring/realtime-dashboard-manager.mjs, their *)
(* subscriptions, kept on both sides, and the updates queued for them.     *)
(* Every call is a step.                                                   *)
(*                                                                         *)
(* Updates are numbered in the order of publication; of a view state it is *)
(* only kept whether it was changed.  Refresh intervals are left out, and  *)
(* so are events, but for deliveryError, whose listeners may throw, or     *)
(* queue an update; they may not flush again.                              *)
(***************************************************************************)

CONSTANTS Metrics,
          maxClients,
          MaxRegistrations, MaxUpdates,  \* bounds
          MaxStops   \* bound: flushes stopped by a listener

DashboardAssumption == maxClients \in Nat

Clients == 1..MaxRegistrations

VARIABLES clientSequence,
          clients,
          viewStates,      \* client -> its view configuration and filters
          subscribed,      \* client -> the metrics it holds
          subscriptions,   \* metric -> the clients it holds
          updateQueue,     \* client and number of each update
          throwing,        \* clients whose connection throws on send()
          audience,        \* history: update -> the clients it was queued for
          delivered,       \* history: client -> the updates sent to it
          lost,            \* history: client -> updates whose send() threw
          wiped,           \* history: updates that a listener queued during a flush
          stops            \* history: how many flushes a listener stopped

histories == <<audience, delivered, lost, wiped, stops>>

dashboardVars == <<clientSequence, clients, viewStates, subscribed, subscriptions, updateQueue, throwing,
          histories>>

DashboardInit ==
  /\ clientSequence = 0 /\ clients = {} /\ throwing = {}
  /\ viewStates = [c \in Clients |-> "none"]
  /\ subscribed = [c \in Clients |-> {}]
  /\ subscriptions = [m \in Metrics |-> {}]
  /\ updateQueue = <<>> /\ audience = <<>>
  /\ delivered = [c \in Clients |-> <<>>] /\ lost = [c \in Clients |-> {}]
  /\ wiped = {} /\ stops = 0

RegisterClient ==
  /\ Cardinality(clients) < maxClients /\ clientSequence < MaxRegistrations
  /\ clientSequence' = clientSequence + 1
  /\ clients' = clients \cup {clientSequence'}
  /\ viewStates' = [viewStates EXCEPT ![clientSequence'] = "default"]
  /\ UNCHANGED <<subscribed, subscriptions, updateQueue, throwing, histories>>

SubscribeToMetric(c, m) ==
  /\ c \in clients
  /\ subscribed' = [subscribed EXCEPT ![c] = @ \cup {m}]
  /\ subscriptions' = [subscriptions EXCEPT ![m] = @ \cup {c}]
  /\ UNCHANGED <<clientSequence, clients, viewStates, updateQueue, throwing, histories>>

\* What was queued before is still delivered.
UnsubscribeFromMetric(c, m) ==
  /\ c \in clients /\ m \in subscribed[c]
  /\ subscribed' = [subscribed EXCEPT ![c] = @ \ {m}]
  /\ subscriptions' = [subscriptions EXCEPT ![m] = @ \ {c}]
  /\ UNCHANGED <<clientSequence, clients, viewStates, updateQueue, throwing, histories>>

\* Mutant of the next action: the metrics keep the client.
UnregisterClientOnly(c) ==
  /\ c \in clients /\ clients' = clients \ {c} /\ viewStates' = [viewStates EXCEPT ![c] = "none"]
  /\ subscribed' = [subscribed EXCEPT ![c] = {}]
  /\ UNCHANGED <<clientSequence, subscriptions, updateQueue, throwing, histories>>

\* Also by closeConnection().  The queue keeps what was meant for the client.
UnregisterClient(c) ==
  /\ c \in clients /\ clients' = clients \ {c} /\ viewStates' = [viewStates EXCEPT ![c] = "none"]
  /\ subscriptions' = [m \in Metrics |-> IF m \in subscribed[c] THEN subscriptions[m] \ {c}
                                         ELSE subscriptions[m]]
  /\ subscribed' = [subscribed EXCEPT ![c] = {}]
  /\ UNCHANGED <<clientSequence, updateQueue, throwing, histories>>

Queue(to) ==
  /\ Len(audience) < MaxUpdates
  /\ audience' = Append(audience, to)
  /\ updateQueue' = updateQueue \o
       [i \in 1..Cardinality(to) |-> [client |-> SetToSeq(to)[i], update |-> Len(audience')]]
  /\ UNCHANGED <<clientSequence, clients, viewStates, subscribed, subscriptions, throwing, delivered, lost, wiped, stops>>

PublishMetricUpdate(m) ==
  /\ subscriptions[m] \cap clients # {}
  /\ Queue(subscriptions[m] \cap clients)

BroadcastMessage == clients # {} /\ Queue(clients)

\* updateViewState() and updateFilters(), which throw for a client that has gone.
UpdateViewState(c) ==
  /\ c \in clients /\ viewStates' = [viewStates EXCEPT ![c] = "set"]
  /\ UNCHANGED <<clientSequence, clients, subscribed, subscriptions, updateQueue, throwing, histories>>

QueuedFor(c) ==
  LET mine == SelectSeq(updateQueue, LAMBDA q : q.client = c)
  IN [i \in DOMAIN mine |-> mine[i].update]

Sent(to) == [c \in Clients |-> IF c \in to THEN delivered[c] \o QueuedFor(c) ELSE delivered[c]]

\* One message to each client that is still there, in the order in which they were first
\* queued for.  When its send() throws, all of its updates are gone, and the listeners of
\* deliveryError are called: what one of them queues is emptied with the rest, and one
\* that throws leaves the queue as it was, with the updates that were sent already.
FlushUpdates ==
  LET queued  == {c \in clients : QueuedFor(c) # <<>>}
      failing == queued \cap throwing
      first(c) == SelectInSeq(updateQueue, LAMBDA q : q.client = c)
  IN /\ updateQueue # <<>>
     /\ \/ /\ delivered' = Sent(queued \ failing)
           /\ lost' = [c \in Clients |-> IF c \in failing THEN lost[c] \cup ToSet(QueuedFor(c)) ELSE lost[c]]
           /\ updateQueue' = <<>> /\ stops' = stops
           /\ \/ UNCHANGED <<audience, wiped>>
              \/ /\ failing # {} /\ Len(audience) < MaxUpdates
                 /\ audience' = Append(audience, clients) /\ wiped' = wiped \cup {Len(audience')}
        \/ /\ failing # {} /\ stops < MaxStops /\ stops' = stops + 1
           /\ delivered' = Sent({c \in queued : \A f \in failing : first(c) < first(f)})
           /\ UNCHANGED <<lost, updateQueue, audience, wiped>>
     /\ UNCHANGED <<clientSequence, clients, viewStates, subscribed, subscriptions, throwing>>

\* The connection closes, or opens, without a call of the manager.
ConnectionTurns(c) ==
  /\ c \in clients
  /\ throwing' = IF c \in throwing THEN throwing \ {c} ELSE throwing \cup {c}
  /\ UNCHANGED <<clientSequence, clients, viewStates, subscribed, subscriptions, updateQueue, histories>>

DashboardNext ==
  \/ RegisterClient \/ BroadcastMessage \/ FlushUpdates
  \/ \E c \in Clients, m \in Metrics : SubscribeToMetric(c, m) \/ UnsubscribeFromMetric(c, m)
  \/ \E c \in Clients : UnregisterClient(c) \/ ConnectionTurns(c) \/ UpdateViewState(c)
  \/ \E m \in Metrics : PublishMetricUpdate(m)


----------------------------------------------------------------------------
\* getStatistics(), getAllClients().
DashboardStatistics == [
  connectedClients    |-> Cardinality(clients),
  metricsBeingTracked |-> Cardinality({m \in Metrics : subscriptions[m] # {}}),
  totalSubscriptions  |-> MapThenSumSet(LAMBDA m : Cardinality(subscriptions[m]), Metrics),
  updateQueueLength   |-> Len(updateQueue)]

ClientInfo(c) == [subscriptions |-> subscribed[c], viewState |-> viewStates[c]]
AllClients == [c \in clients |-> Cardinality(subscribed[c])]
MetricSubscribers(m) == subscriptions[m]

SubscriptionCounts == MapThenSumSet(LAMBDA c : AllClients[c], clients)

----------------------------------------------------------------------------
DashboardTyped ==
  /\ clientSequence \in 0..MaxRegistrations /\ clients \subseteq 1..clientSequence
  /\ subscribed \in [Clients -> SUBSET Metrics]
  /\ subscriptions \in [Metrics -> SUBSET Clients]
  /\ updateQueue \in Seq([client : Clients, update : 1..MaxUpdates])
  /\ throwing \subseteq Clients /\ viewStates \in [Clients -> {"none", "default", "set"}]
  /\ audience \in Seq(SUBSET Clients) /\ Len(audience) <= MaxUpdates
  /\ stops \in 0..MaxStops /\ wiped \subseteq DOMAIN audience

\* Through connections, departures and publications in any order, both sides of the
\* subscriptions agree and name present clients only, who alone have a view state; and
\* every update goes to those it was queued for, once and in the order of publication, if
\* no listener of deliveryError throws, and once more at most for each that did.  A client
\* that is still there has it, or will with the next flush, unless its own connection
\* threw, or a listener queued it during a flush: such an update reaches nobody.
UpdatesReach ==
  /\ \A c \in Clients, m \in Metrics :
       c \in MetricSubscribers(m) <=> c \in clients /\ m \in ClientInfo(c).subscriptions
  /\ \A c \in Clients : ClientInfo(c).viewState # "none" <=> c \in DOMAIN AllClients
  /\ DashboardStatistics.totalSubscriptions = SubscriptionCounts
  /\ DashboardStatistics.connectedClients <= maxClients
  /\ \A c \in Clients :
       /\ stops = 0 => \A i, j \in DOMAIN delivered[c] : i < j => delivered[c][i] < delivered[c][j]
       /\ \A n \in ToSet(delivered[c]) :
            /\ c \in audience[n] /\ n \notin wiped
            /\ Len(SelectSeq(delivered[c], LAMBDA m : m = n)) <= 1 + stops
  /\ \A n \in DOMAIN audience : \A c \in audience[n] \cap clients :
       n \in ToSet(delivered[c]) \cup lost[c] \cup ToSet(QueuedFor(c)) \cup wiped

-----------------------------------------------------------------------------
Assumption == MetricAssumption /\ DashboardAssumption

\* The two share no state.
vars == <<metricVars, dashboardVars>>
Init == MetricInit /\ DashboardInit
Next ==
  \/ MetricNext /\ UNCHANGED dashboardVars
  \/ DashboardNext /\ UNCHANGED metricVars
Spec == Init /\ [][Next]_vars

TypeOK == MetricTyped /\ DashboardTyped
==============================================================================
