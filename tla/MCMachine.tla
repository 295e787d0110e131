----------------------------- MODULE MCMachine ------------------------------
(* What stands between the pages and the machine, and what watches and judges *)
(* it, in one instance: the parts share no state, and a behaviour is one    *)
(* of them.                    *)
EXTENDS WebSerialLink

VARIABLES part,  \* the part of the system whose calls are made
          linesIsConnected, pending, executed, events, written, said, tail,
          registered, state, connected, connectionAttempts, calls,
          devicesTimers, wanted, denied, detected, type, rootCause, status, phase,
          step, faultHistory, recoveryAttempts, successfulRecoveries,
          failedRecoveries, final, firmwareConnected, connecting,
          disconnecting, sent, answered, queue, processing, fate, last,
          sockets, errors, firmwareState, position, firmwareTimers, owed,
          resumed, filterType, sensors, dataBuffers, calibrations,
          subscriptions, stats, taken, notified, keyState, joggerHeld,
          currentIncrement, currentFeed, jogging, jogs, presses,
          currentPosition, machinePosition, offset, positionHistory, reports,
          jumps, tools, wearData, now, toolingStats, ended, profiles,
          activeProfile, created, given, metrics, known, aggregates,
          metricsCollected, thermalAlerts, powerSpikes, told, recorded,
          resetAt, clientSequence, clients, viewStates, subscribed,
          meteredSubscriptions, updateQueue, throwing, audience, delivered,
          lost, wiped, stops, operationHistory, failureHistory, predictions, criticalEvents,
          failingLast, readings, baseline, anomalies, baselines,
          toolsWearData, usageHistory, selection, prediction, recommendation,
          current, feedbacks, performanceHistory, monitorNow, monitorMetrics,
          alerts, triggered, intervals, isMonitoring, exceeded, hours,
          monitorPredictions, historicalData, healthScores, recommendations,
          streamNow, streamEvents, eventWindows, rapid, streamAnomalies,
          arrived, today, eventLog, otherLog, archiveCount, totalLogged,
          logged, lastLogged, program, options, optimization

Devices == INSTANCE DevicesAndFaults WITH
  Devices <- {"d", "e"}, Discovered <- <<"d", "e">>, maxDevices <- 1,
  reconnectAttempts <- 2, MaxCalls <- 3, MaxTimers <- 1, MaxFaults <- 2,
  faultHistorySize <- 1,
  Types <- {"spindle_overheat", "tool_breakage", "bearing_wear"},
  Symptoms <- {{}, {"hot", "spindle load"}}, timers <- devicesTimers
\* Commands of one line, of none and of several, with ends of lines around them.
NL == "end of line"
Texts == {<<NL>>, <<"a">>, <<NL, "a", NL>>, <<"a", NL, "a">>, <<"a", NL, "a", NL, NL, "a">>}
Commanded == INSTANCE Firmware WITH
  Sockets <- {"s"}, MaxCommands <- 3, MaxCalls <- 1, Moves <- {"m"},
  Others <- {"o"}, HomeDelay <- 4, MaxTimers <- 3, Texts <- Texts,
  Positions <- {3}, MaxSends <- 2, MaxLines <- 2,
  isConnected <- linesIsConnected, connected <- firmwareConnected, state <- firmwareState,
  timers <- firmwareTimers
Collector == INSTANCE SensorCollector WITH
  Sensors <- {"s"}, Values <- {2, 6}, Bounds <- {0, 1}, bufferSize <- 3,
  filterTypes <- {"moving-average", "low-pass"}, filterWindow <- 2,
  Lasting <- {"a"}, Once <- {"o"}, MaxSamples <- 3, MaxSubscriptions <- 2
Jogger == INSTANCE Jogging WITH
  Keys <- {"w", "s"}, increments <- {1}, Feeds <- {1}, normalFeed <- 1, Given <- {-2, 0, 7},
  rapidFeed <- 2, MaxJogs <- 3, Positions <- {0, 3}, Offsets <- {1},
  historySize <- 2, MaxReports <- 4, held <- joggerHeld
Tooling == INSTANCE ToolsAndProfiles WITH
  Tools <- {"t"}, Wears <- {20, 46, 60}, Runouts <- {6}, Step <- 60,
  MaxTime <- 120, MaxMeasurements <- 3, Generated <- {"p", "q"}, Areas <- {5},
  Shapes <- {{}, {"specs", "toolOffsets"}}, OffsetTools <- {"t"}, maxProfiles <- 2, MaxOffsets <- 2,
  stats <- toolingStats
Aggregated == INSTANCE MetricsAndDashboard WITH
  metricsBufferSize <- 2, thermalWarningTemp <- 60, thermalCriticalTemp <- 80,
  Temps <- {20, 81}, Components <- {"motorTemp"}, Feeds <- {0, 100},
  Accelerations <- {0, 4}, Powers <- {5001}, MaxRecords <- 3,
  Metrics <- {"m", "n"}, maxClients <- 2, MaxRegistrations <- 2,
  MaxUpdates <- 2, MaxStops <- 1, subscriptions <- meteredSubscriptions
Predicted == INSTANCE FailuresAndAnomalies WITH
  Durations <- {0, 2}, Finishes <- {0, 2}, Hours <- {0, 150, 2300},
  Vibrations <- {20, 60, 80}, Temperatures <- {20, 60, 80},
  Components <- {"BALLSCREW", "LEADSCREW"}, Cycles <- {0, 30000},
  FailureTypes <- {"f"}, MaxOperations <- 2, MaxPredictions <- 1,
  MaxFailures <- 1, Values <- {0, 20}, thermalLimit <- 15,
  baselineWindow <- 9, MaxReadings <- 11, MaxBaselines <- 1,
  last <- failingLast
Advised == INSTANCE CuttingRecommenders WITH
  ToolIds <- {"em_1_flute"}, Wears <- {0, 100}, Finishes <- {1}, MaxWear <- 6,
  MaxUsage <- 1, Diameters <- {500, 1000, 3175, 6000},
  Vibrations <- {20, 50, 80}, Temperatures <- {40, 70}, Qualities <- {50, 90},
  MaxAdaptations <- 2, MaxHistory <- 2, wearData <- toolsWearData
Monitored == INSTANCE PerformanceAndMaintenance WITH
  Names <- <<"a">>, Values <- {1, 5, 9}, historySize <- 2, warning <- 3,
  critical <- 7, Quiet <- 2, MaxTime <- 4, MaxAlerts <- 3, Equipment <- {"t"},
  Hours <- {0, 8}, Feeds <- {10, 20}, Speeds <- {4, 12}, Heats <- {10},
  Vibrations <- {10, 20}, Healths <- {0, 20, 30}, maxPredictions <- 2,
  MaxPredictions <- 3, now <- monitorNow, metrics <- monitorMetrics,
  predictions <- monitorPredictions
Recorded == INSTANCE EventsAndAudit WITH
  Values <- {0, 20}, windowSize <- 1, MetricWindow <- 1, Recent <- 1,
  maxEventsPerWindow <- 3, MaxTime <- 1, MaxEvents <- 7, MaxStray <- 1,
  maxLogSize <- 2, retention <- 1, MaxDays <- 2,
  MaxLogged <- 4, MaxOthers <- 2, now <- streamNow, events <- streamEvents,
  anomalies <- streamAnomalies
Programs == INSTANCE GCodeOptimizer WITH
  Xs <- {1, 9}, Zs <- {2}, Tools <- {0, 1, 2}, workspace <- 3, MaxLines <- 3

ASSUME Devices!Assumption
ASSUME Collector!Assumption
ASSUME Jogger!Assumption
ASSUME Tooling!Assumption
ASSUME Aggregated!Assumption
ASSUME Predicted!Assumption
ASSUME Monitored!Assumption
ASSUME Recorded!Assumption

linesVars == <<linesIsConnected, pending, executed, events, written, said, tail>>
devicesVars == <<registered, state, connected, connectionAttempts, calls,
                 devicesTimers, wanted, denied>>
faultyVars == <<detected, type, rootCause, status, phase, step, faultHistory,
                recoveryAttempts, successfulRecoveries, failedRecoveries,
                final>>
firmwareVars == <<firmwareConnected, connecting, disconnecting, sent,
                  answered, queue, processing, fate, last, sockets, errors>>
mockVars == <<firmwareState, position, firmwareTimers, owed, resumed>>
collectorVars == <<filterType, sensors, dataBuffers, calibrations,
                   subscriptions, stats, taken, notified>>
joggerVars == <<keyState, joggerHeld, currentIncrement, currentFeed, jogging,
                jogs, presses>>
trackVars == <<currentPosition, machinePosition, offset, positionHistory,
               reports, jumps>>
toolingVars == <<tools, wearData, now, toolingStats, ended>>
profiledVars == <<profiles, activeProfile, created, given>>
meteredVars == <<metrics, known, aggregates, metricsCollected, thermalAlerts,
                 powerSpikes, told, recorded, resetAt>>
boardsVars == <<clientSequence, clients, viewStates, subscribed,
                meteredSubscriptions, updateQueue, throwing, audience,
                delivered, lost, wiped, stops>>
failingVars == <<operationHistory, failureHistory, predictions,
                 criticalEvents, failingLast>>
anomalousVars == <<readings, baseline, anomalies, baselines>>
toolsVars == <<toolsWearData, usageHistory, selection, prediction>>
feedsVars == <<recommendation, current, feedbacks, performanceHistory>>
monitorVars == <<monitorNow, monitorMetrics, alerts, triggered, intervals,
                 isMonitoring, exceeded>>
maintainedVars == <<hours, monitorPredictions, historicalData, healthScores,
                    recommendations>>
streamVars == <<streamNow, streamEvents, eventWindows, rapid, streamAnomalies,
                arrived>>
auditVars == <<today, eventLog, otherLog, archiveCount, totalLogged, logged,
               lastLogged>>
programsVars == <<program, options, optimization>>

Parts == {"link", "lines", "devices", "faulty", "firmware", "mock", "collector",
          "jogger", "track", "tooling", "profiled", "metered", "boards",
          "failing", "anomalous", "tools", "feeds", "monitor", "maintained",
          "stream", "audit", "programs"}

MCInit ==
  /\ part \in Parts
  /\ Init /\ Devices!Init /\ Commanded!Init /\ Collector!Init
  /\ Jogger!Init /\ Tooling!Init /\ Aggregated!Init /\ Predicted!Init
  /\ Advised!Init /\ Monitored!Init /\ Recorded!Init /\ Programs!Init
  /\ part # "lines" => ~linesIsConnected
  /\ part # "collector" => filterType = "low-pass"

\* The variables of the parts whose turn it is not.
OthersStay ==
  /\ IF part = "link" THEN TRUE ELSE UNCHANGED vars
  /\ IF part = "lines" THEN TRUE ELSE UNCHANGED linesVars
  /\ IF part = "devices" THEN TRUE ELSE UNCHANGED devicesVars
  /\ IF part = "faulty" THEN TRUE ELSE UNCHANGED faultyVars
  /\ IF part = "firmware" THEN TRUE ELSE UNCHANGED firmwareVars
  /\ IF part = "mock" THEN TRUE ELSE UNCHANGED mockVars
  /\ IF part = "collector" THEN TRUE ELSE UNCHANGED collectorVars
  /\ IF part = "jogger" THEN TRUE ELSE UNCHANGED joggerVars
  /\ IF part = "track" THEN TRUE ELSE UNCHANGED trackVars
  /\ IF part = "tooling" THEN TRUE ELSE UNCHANGED toolingVars
  /\ IF part = "profiled" THEN TRUE ELSE UNCHANGED profiledVars
  /\ IF part = "metered" THEN TRUE ELSE UNCHANGED meteredVars
  /\ IF part = "boards" THEN TRUE ELSE UNCHANGED boardsVars
  /\ IF part = "failing" THEN TRUE ELSE UNCHANGED failingVars
  /\ IF part = "anomalous" THEN TRUE ELSE UNCHANGED anomalousVars
  /\ IF part = "tools" THEN TRUE ELSE UNCHANGED toolsVars
  /\ IF part = "feeds" THEN TRUE ELSE UNCHANGED feedsVars
  /\ IF part = "monitor" THEN TRUE ELSE UNCHANGED monitorVars
  /\ IF part = "maintained" THEN TRUE ELSE UNCHANGED maintainedVars
  /\ IF part = "stream" THEN TRUE ELSE UNCHANGED streamVars
  /\ IF part = "audit" THEN TRUE ELSE UNCHANGED auditVars
  /\ IF part = "programs" THEN TRUE ELSE UNCHANGED programsVars

MCNext ==
  \/ part = "link" /\ Next /\ OthersStay /\ UNCHANGED part
  \/ part = "lines" /\ Commanded!LineNext /\ OthersStay /\ UNCHANGED part
  \/ part = "devices" /\ Devices!DeviceNext /\ OthersStay /\ UNCHANGED part
  \/ part = "faulty" /\ Devices!FaultNext /\ OthersStay /\ UNCHANGED part
  \/ part = "firmware" /\ Commanded!LinkNext /\ OthersStay /\ UNCHANGED part
  \/ part = "mock" /\ Commanded!MockNext /\ OthersStay /\ UNCHANGED part
  \/ part = "collector" /\ Collector!Next /\ OthersStay /\ UNCHANGED part
  \/ part = "jogger" /\ Jogger!JogNext /\ OthersStay /\ UNCHANGED part
  \/ part = "track" /\ Jogger!TrackNext /\ OthersStay /\ UNCHANGED part
  \/ part = "tooling" /\ Tooling!WearNext /\ OthersStay /\ UNCHANGED part
  \/ part = "profiled" /\ Tooling!ProfileNext /\ OthersStay /\ UNCHANGED part
  \/ part = "metered" /\ Aggregated!MetricNext /\ OthersStay /\ UNCHANGED part
  \/ part = "boards" /\ Aggregated!DashboardNext /\ OthersStay /\ UNCHANGED part
  \/ part = "failing" /\ Predicted!FailureNext /\ OthersStay /\ UNCHANGED part
  \/ part = "anomalous" /\ Predicted!AnomalyNext /\ OthersStay /\ UNCHANGED part
  \/ part = "tools" /\ Advised!ToolNext /\ OthersStay /\ UNCHANGED part
  \/ part = "feeds" /\ Advised!FeedNext /\ OthersStay /\ UNCHANGED part
  \/ part = "monitor" /\ Monitored!PerformanceNext /\ OthersStay /\ UNCHANGED part
  \/ part = "maintained" /\ Monitored!MaintenanceNext /\ OthersStay /\ UNCHANGED part
  \/ part = "stream" /\ Recorded!StreamNext /\ OthersStay /\ UNCHANGED part
  \/ part = "audit" /\ Recorded!AuditNext /\ OthersStay /\ UNCHANGED part
  \/ part = "programs" /\ Programs!Next /\ OthersStay /\ UNCHANGED part

MCvars == <<part, vars, linesVars, devicesVars, faultyVars, firmwareVars,
            mockVars, collectorVars, joggerVars, trackVars, toolingVars,
            profiledVars, meteredVars, boardsVars, failingVars, anomalousVars,
            toolsVars, feedsVars, monitorVars, maintainedVars, streamVars,
            auditVars, programsVars>>
MCSpec == MCInit /\ [][MCNext]_MCvars

\* The types of the part whose turn it is.
AllTyped ==
  CASE part = "link" -> TypeOK
    [] part = "lines" -> Commanded!LineTyped
    [] part = "devices" -> Devices!DeviceTyped
    [] part = "faulty" -> Devices!FaultTyped
    [] part = "firmware" -> Commanded!LinkTyped
    [] part = "mock" -> Commanded!MockTyped
    [] part = "collector" -> Collector!TypeOK
    [] part = "jogger" -> Jogger!JogTyped
    [] part = "track" -> Jogger!TrackTyped
    [] part = "tooling" -> Tooling!WearTyped
    [] part = "profiled" -> Tooling!ProfileTyped
    [] part = "metered" -> Aggregated!MetricTyped
    [] part = "boards" -> Aggregated!DashboardTyped
    [] part = "failing" -> Predicted!FailureTyped
    [] part = "anomalous" -> Predicted!AnomalyTyped
    [] part = "tools" -> Advised!ToolTyped
    [] part = "feeds" -> Advised!FeedTyped
    [] part = "monitor" -> Monitored!PerformanceTyped
    [] part = "maintained" -> Monitored!MaintenanceTyped
    [] part = "stream" -> Recorded!StreamTyped
    [] part = "audit" -> Recorded!AuditTyped
    [] part = "programs" -> Programs!TypeOK


=============================================================================
