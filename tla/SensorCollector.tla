--------------------------- MODULE SensorCollector ---------------------------
(***************************************************************************)
(* modules/hardware/sensor-data-collector.mjs: samples of a sensor are     *)
(* calibrated, bounded, checked for outliers, filtered, buffered and handed*)
(* to the subscribers.  Quotients are rounded down.  Streaming, which      *)
(* nothing reads, units, times and statistics are left out.                *)
(***************************************************************************)
EXTENDS Integers, Sequences, FiniteSets, SequencesExt

CONSTANTS Sensors, Values,
          Bounds,                   \* minValue of a configuration; the maximum is 10 - minValue
          bufferSize, filterTypes, filterWindow,
          Lasting, Once,            \* subscribers; the latter unsubscribe when they are called
          MaxSamples, MaxSubscriptions   \* bounds

Assumption == {bufferSize, filterWindow} \subseteq Nat \ {0}

VARIABLES filterType, sensors, dataBuffers, calibrations, subscriptions, stats,
          taken,     \* history: samples offered while active and in bounds
          notified   \* history: who had subscribed to the last sample, and who was called

vars == <<filterType, sensors, dataBuffers, calibrations, subscriptions, stats, taken, notified>>

None == -99
Unregistered == [registered |-> FALSE, active |-> FALSE, minValue |-> 0, maxValue |-> 0, lastReading |-> None]

Init ==
  /\ filterType \in filterTypes
  /\ sensors = [s \in Sensors |-> Unregistered] /\ dataBuffers = [s \in Sensors |-> <<>>]
  /\ calibrations = [s \in Sensors |-> [offset |-> 0, scale |-> 1]]
  /\ subscriptions = [s \in Sensors |-> <<>>]
  /\ stats = [samplesCollected |-> 0, outliersRejected |-> 0, sensorErrors |-> 0]
  /\ taken = 0 /\ notified = [subscribed |-> <<>>, called |-> <<>>]

\* A limit of 0 is taken for none: `config.minValue || -Infinity`.
Limit(value, infinity) == IF value = 0 THEN infinity ELSE value

RegisterSensor(s, minValue, active) ==
  /\ ~sensors[s].registered
  /\ sensors' = [sensors EXCEPT ![s] =
       [registered |-> TRUE, active |-> active, minValue |-> Limit(minValue, -1000),
        maxValue |-> Limit(10 - minValue, 1000), lastReading |-> None]]
  /\ dataBuffers' = [dataBuffers EXCEPT ![s] = <<>>]
  /\ calibrations' = [calibrations EXCEPT ![s] = [offset |-> 0, scale |-> 1]]
  /\ UNCHANGED <<filterType, subscriptions, stats, taken, notified>>

CalibrateSensor(s, offset, scale) ==
  /\ sensors[s].registered
  /\ calibrations' = [calibrations EXCEPT ![s] = [offset |-> offset, scale |-> scale]]
  /\ UNCHANGED <<filterType, sensors, dataBuffers, subscriptions, stats, taken, notified>>

\* Of the calibrated values; what the detection is about.
FarOut(buffer, v) ==
  LET n == Len(buffer)
      sum == FoldLeft(LAMBDA a, b : a + b.calibrated, 0, buffer)
      spread == n * FoldLeft(LAMBDA a, b : a + b.calibrated * b.calibrated, 0, buffer) - sum * sum
  IN n > 1 /\ spread > 0 /\ (n * v - sum) * (n * v - sum) > 9 * spread

\* A sample has no field "value": the mean and deviation computed from it are not numbers,
\* and "stdDev > 0" is false whatever is buffered.
OutlierDetected(buffer, v) == FALSE

\* What a buffered sample counts for: the calibrated value if the filtered one is 0.
Weight(b) == IF b.filtered = 0 THEN b.calibrated ELSE b.filtered

\* Mutant of the next operator: the sum is divided by the window also before it is full.
FilteredByWindow(buffer, v) ==
  IF buffer = <<>> THEN v
  ELSE LET recent == SubSeq(buffer, Max({1, Len(buffer) - filterWindow + 1}), Len(buffer))
       IN FoldLeft(LAMBDA a, b : a + Weight(b), 0, recent) \div filterWindow

\* The average is over the samples before this one, filtered themselves: the sample has no
\* part in it.  Two tests expect it to have one (sensor-data-collector.test.mjs:130, 272).
Filtered(buffer, v) ==
  LET window == IF filterWindow < Len(buffer) THEN filterWindow ELSE Len(buffer)
      recent == SubSeq(buffer, Len(buffer) - window + 1, Len(buffer))
  IN CASE filterType = "moving-average" ->
            IF window = 0 THEN v ELSE FoldLeft(LAMBDA a, b : a + Weight(b), 0, recent) \div window
       [] filterType = "low-pass" -> (3 * v + 7 * (IF buffer = <<>> THEN v ELSE Weight(Last(buffer)))) \div 10
       [] OTHER -> v

\* The list is walked while a subscriber takes itself off it: the next one moves into the
\* place already visited.
NotifySubscriptions(list) ==
  FoldLeft(LAMBDA s, x :
             IF s.at > Len(s.list) THEN s
             ELSE LET c == s.list[s.at]
                      first == CHOOSE i \in DOMAIN s.list : s.list[i] = c /\ \A j \in 1..(i - 1) : s.list[j] # c
                  IN IF c \in Once
                     THEN [list |-> RemoveAt(s.list, first), at |-> s.at + 1, called |-> Append(s.called, c)]
                     ELSE [s EXCEPT !.at = @ + 1, !.called = Append(@, c)],
           [list |-> list, at |-> 1, called |-> <<>>], list)

Refused(s, v) ==
  LET calibrated == (v - calibrations[s].offset) * calibrations[s].scale
  IN ~sensors[s].active \/ calibrated < sensors[s].minValue \/ calibrated > sensors[s].maxValue

RecordSample(s, v) ==
  /\ sensors[s].registered /\ taken + stats.sensorErrors < MaxSamples
  /\ \/ /\ Refused(s, v) /\ stats' = [stats EXCEPT !.sensorErrors = @ + 1]
        /\ UNCHANGED <<sensors, dataBuffers, subscriptions, taken, notified>>
     \/ LET calibrated == (v - calibrations[s].offset) * calibrations[s].scale
            filtered == Filtered(dataBuffers[s], calibrated)
            buffer == Append(dataBuffers[s], [calibrated |-> calibrated, filtered |-> filtered])
            walk == NotifySubscriptions(subscriptions[s])
        IN /\ ~Refused(s, v) /\ taken' = taken + 1
           /\ IF OutlierDetected(dataBuffers[s], calibrated)
              THEN /\ stats' = [stats EXCEPT !.outliersRejected = @ + 1]
                   /\ UNCHANGED <<sensors, dataBuffers, subscriptions, notified>>
              ELSE /\ stats' = [stats EXCEPT !.samplesCollected = @ + 1]
                   /\ sensors' = [sensors EXCEPT ![s].lastReading = filtered]
                   /\ dataBuffers' = [dataBuffers EXCEPT ![s] = IF Len(buffer) > bufferSize THEN Tail(buffer) ELSE buffer]
                   /\ subscriptions' = [subscriptions EXCEPT ![s] = walk.list]
                   /\ notified' = [subscribed |-> subscriptions[s], called |-> walk.called]
  /\ UNCHANGED <<filterType, calibrations>>

Subscribe(s, c) ==
  /\ sensors[s].registered /\ Len(subscriptions[s]) < MaxSubscriptions
  /\ subscriptions' = [subscriptions EXCEPT ![s] = Append(@, c)]
  /\ UNCHANGED <<filterType, sensors, dataBuffers, calibrations, stats, taken, notified>>

\* Of all sensors; the last reading stays.
ClearBuffers ==
  /\ dataBuffers' = [s \in Sensors |-> <<>>]
  /\ UNCHANGED <<filterType, sensors, calibrations, subscriptions, stats, taken, notified>>

Next ==
  \/ ClearBuffers
  \/ \E s \in Sensors :
       \/ \E minValue \in Bounds, active \in BOOLEAN : RegisterSensor(s, minValue, active)
       \/ \E offset \in {0, 1} : CalibrateSensor(s, offset, 1)
       \/ \E v \in Values : RecordSample(s, v)
       \/ \E c \in Lasting \cup Once : Subscribe(s, c)

Spec == Init /\ [][Next]_vars

\* What the collector tells of itself.
GetSensorReading(s) == sensors[s].lastReading
GetBuffer(s, limit) ==
  IF limit > 0 /\ limit < Len(dataBuffers[s])
  THEN SubSeq(dataBuffers[s], Len(dataBuffers[s]) - limit + 1, Len(dataBuffers[s])) ELSE dataBuffers[s]
SensorStatistics(s) ==
  LET values == {b.filtered : b \in ToSet(dataBuffers[s])}
  IN [count |-> Len(dataBuffers[s]), latest |-> Last(dataBuffers[s]).filtered,
      min |-> CHOOSE v \in values : \A w \in values : v <= w,
      max |-> CHOOSE v \in values : \A w \in values : w <= v]
GetSensors == {s \in Sensors : sensors[s].registered}
Statistics ==
  [registeredSensors |-> Cardinality(GetSensors), activeSensors |-> Cardinality({s \in Sensors : sensors[s].active}),
   samplesCollected |-> stats.samplesCollected, sensorErrors |-> stats.sensorErrors]

----------------------------------------------------------------------------
TypeOK ==
  /\ filterType \in filterTypes /\ taken \in 0..MaxSamples
  /\ \A s \in Sensors :
       /\ Len(dataBuffers[s]) <= bufferSize
       /\ subscriptions[s] \in Seq(Lasting \cup Once)
       /\ ~sensors[s].registered => dataBuffers[s] = <<>>

\* However samples, calibrations, subscriptions and clears follow each other: what is
\* buffered was in bounds, a limit of 0 apart; each accepted sample is buffered and
\* counted; a moving average lies among the values it is the average of, also before the
\* window is full; a low pass lies between what it had and what came; and a sample misses
\* a subscriber only behind one that left while it was called.
SensorsRead ==
  /\ stats.samplesCollected + stats.outliersRejected = taken
  /\ Statistics.activeSensors <= Statistics.registeredSensors
  /\ (\E s \in GetSensors : dataBuffers[s] # <<>>) => Statistics.samplesCollected > 0
  /\ \A s \in Sensors : LET buffer == dataBuffers[s] IN
       /\ \A i \in DOMAIN buffer :
            /\ sensors[s].active /\ (sensors[s].minValue > 0 => buffer[i].calibrated >= sensors[s].minValue)
            /\ filterType = "moving-average" /\ i > 1 /\ (i > filterWindow \/ Len(buffer) < bufferSize) =>
                 LET averaged == {Weight(buffer[j]) : j \in Max({1, i - filterWindow})..(i - 1)}
                 IN buffer[i].filtered \in Min(averaged)..Max(averaged)
            /\ filterType = "low-pass" /\ i > 1 /\ buffer[i - 1].filtered > 0 /\ buffer[i].calibrated > 0 =>
                 /\ buffer[i].filtered <= buffer[i].calibrated \/ buffer[i].filtered <= buffer[i - 1].filtered
                 /\ buffer[i].filtered >= buffer[i].calibrated \/ buffer[i].filtered >= buffer[i - 1].filtered
       /\ buffer # <<>> => /\ GetSensorReading(s) = SensorStatistics(s).latest
                           /\ GetBuffer(s, 1) = <<Last(buffer)>>
                           /\ SensorStatistics(s).latest \in SensorStatistics(s).min..SensorStatistics(s).max
  /\ LET list == notified.subscribed
     IN \A i \in DOMAIN list : (i = 1 \/ list[i - 1] \notin Once) => list[i] \in ToSet(notified.called)

----------------------------------------------------------------------------
\* tests/ut/hardware/sensor-data-collector.test.mjs, "should detect and reject outliers":
\* a sample more than three deviations from those buffered does not enter the buffer.
OutliersRejected ==
  [][\A s \in Sensors : stats'.samplesCollected > stats.samplesCollected /\ dataBuffers'[s] # dataBuffers[s]
       => ~FarOut(dataBuffers[s], Last(dataBuffers'[s]).calibrated)]_vars

\* The same file, "should apply moving average filter": the average of a window that holds
\* the sample itself.
MovingAverageMoves ==
  [][\A s \in Sensors :
       filterType = "moving-average" /\ Len(dataBuffers'[s]) = Len(dataBuffers[s]) + 1 /\ Len(dataBuffers'[s]) <= filterWindow
       => Last(dataBuffers'[s]).filtered =
            FoldLeft(LAMBDA a, b : a + b.calibrated, 0, dataBuffers'[s]) \div Len(dataBuffers'[s])]_vars
=============================================================================
