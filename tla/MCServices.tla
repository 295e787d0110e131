----------------------------- MODULE MCServices -----------------------------
(* What servers keep for their callers, in one instance.  The parts share   *)
(* no state: a behaviour is one of them, and the others stay as they are.   *)
EXTENDS WorkerPool, DataSync, ApiGateway

VARIABLES part,  \* the part of the system whose calls are made
          accepted, lastId, messages, inHand, deadLetterQueue, processed,
          expired, budget, deliveries, consumers, totalProcessed, totalFailed,
          dropped, policy, cache, hits, cacheExpired, accessOrder, anyExpired,
          machines, fleetOf, status, capacity, currentLoad, members,
          totalCapacity, allocations, reported, resized, operationsNow, valid, rateLimits,
          activeRequests, requestHistory, last,
          operationsAccepted, storageNow, versionHistory, storageHistory,
          uploadedAt, owner, permissions, memberCount, log, emptied,
          activeUsers, version, comments, messageQueue, operations, text,
          stale, models, trainingData, inferenceStats, answers, batches,
          commands, index, isRunning, isPaused, playbackSpeed, bookmarks,
          sinceFrame, armed, stray, due, owed, played, clicks

Messages == INSTANCE MessageQueue WITH
  MaxQueueSize <- 2, MaxDeadLetters <- 1, Budgets <- {3},
  Priorities <- {"HIGH", "LOW"}, MaxData <- 3
Cache == INSTANCE CacheManager WITH
  Keys <- {"a", "b", "c"}, maxSize <- 2, MaxHits <- 1, expired <- cacheExpired
Fleets == INSTANCE Fleet WITH
  Fleets <- {"f", "g"}, Machines <- {"m", "n"}, Jobs <- {"j"}, Capacities <- {1, 2},
  maxMachinesPerFleet <- 2, Loads <- {3}, Required <- {2},
  Durations <- {1}, MaxDebt <- 1
Operations == INSTANCE RemoteOperations WITH
  Keys <- {"k"}, rateLimitPerMinute <- 1, Minute <- 2, maxRetries <- 1,
  MaxTime <- 4, MaxRequests <- 3, now <- operationsNow,
  accepted <- operationsAccepted
Projects == INSTANCE CloudProjects WITH
  MaxVersions <- 3, MaxTime <- 2, MaxHistory <- 4, Users <- {"a", "b"},
  MaxLog <- 1, now <- storageNow
Edits == INSTANCE CollabOT WITH
  Users <- {"a", "b"}, maxConcurrentUsers <- 1, TextLength <- 2, MaxOps <- 2,
  MaxLength <- 2, MaxComments <- 1
Models == INSTANCE ModelManager WITH
  ModelIds <- {"a", "b"}, maxModels <- 1, Samples <- {1},
  TestPercents <- {20}, MaxInferences <- 2
Playing == INSTANCE SimulationPlayback WITH
  Programs <- {<<1, 0, 1>>, <<2, -1>>, <<1>>}, Names <- {"mark"},
  Speeds <- {1, 2}, None <- -1, MaxDelta <- 2, MaxClicks <- 6

ASSUME Messages!Assumption
ASSUME Cache!Assumption
ASSUME Fleets!Assumption
ASSUME Operations!Assumption
ASSUME Edits!Assumption
ASSUME Models!Assumption
ASSUME Playing!Assumption

messagesVars == <<accepted, lastId, messages, inHand, deadLetterQueue,
                  processed, expired, budget, deliveries, consumers,
                  totalProcessed, totalFailed, dropped>>
cacheVars == <<policy, cache, hits, cacheExpired, accessOrder, anyExpired>>
fleetVars == <<machines, fleetOf, status, capacity, currentLoad, members,
               totalCapacity, allocations, reported, resized>>
operationsVars == <<operationsNow, valid, rateLimits, activeRequests,
                    requestHistory, last, operationsAccepted>>
storageVars == <<storageNow, versionHistory, storageHistory, uploadedAt>>
sharingVars == <<owner, permissions, memberCount, log, emptied>>
editsVars == <<activeUsers, version, comments, messageQueue, operations, text,
               stale>>
modelsVars == <<models, trainingData, inferenceStats, answers, batches>>
playbackVars == <<commands, index, isRunning, isPaused, playbackSpeed,
                  bookmarks, sinceFrame, armed, stray, due, owed, played,
                  clicks>>

Parts == {"workers", "messages", "cache", "sync", "gate", "fleet", "operations",
          "storage", "sharing", "edits", "models", "playback"}

MCInit ==
  /\ part \in Parts
  /\ Init /\ Messages!Init /\ Cache!Init /\ StoresInit /\ GatewayInit
  /\ Fleets!Init /\ Operations!Init /\ Projects!Init /\ Edits!Init
  /\ Models!Init /\ Playing!Init
  /\ part # "cache" => policy = "LRU"
  /\ part # "sync" => strategy = "MERGE"

\* The variables of the parts whose turn it is not.
OthersStay ==
  /\ IF part = "workers" THEN TRUE ELSE UNCHANGED vars
  /\ IF part = "messages" THEN TRUE ELSE UNCHANGED messagesVars
  /\ IF part = "cache" THEN TRUE ELSE UNCHANGED cacheVars
  /\ IF part = "sync" THEN TRUE ELSE UNCHANGED storesVars
  /\ IF part = "gate" THEN TRUE ELSE UNCHANGED gatewayVars
  /\ IF part = "fleet" THEN TRUE ELSE UNCHANGED fleetVars
  /\ IF part = "operations" THEN TRUE ELSE UNCHANGED operationsVars
  /\ IF part = "storage" THEN TRUE ELSE UNCHANGED storageVars
  /\ IF part = "sharing" THEN TRUE ELSE UNCHANGED sharingVars
  /\ IF part = "edits" THEN TRUE ELSE UNCHANGED editsVars
  /\ IF part = "models" THEN TRUE ELSE UNCHANGED modelsVars
  /\ IF part = "playback" THEN TRUE ELSE UNCHANGED playbackVars

MCNext ==
  \/ part = "workers" /\ Next /\ OthersStay /\ UNCHANGED part
  \/ part = "messages" /\ Messages!Next /\ OthersStay /\ UNCHANGED part
  \/ part = "cache" /\ Cache!Next /\ OthersStay /\ UNCHANGED part
  \/ part = "sync" /\ StoresNext /\ OthersStay /\ UNCHANGED part
  \/ part = "gate" /\ GatewayNext /\ OthersStay /\ UNCHANGED part
  \/ part = "fleet" /\ Fleets!Next /\ OthersStay /\ UNCHANGED part
  \/ part = "operations" /\ Operations!Next /\ OthersStay /\ UNCHANGED part
  \/ part = "storage" /\ Projects!StorageNext /\ OthersStay /\ UNCHANGED part
  \/ part = "sharing" /\ Projects!SharingNext /\ OthersStay /\ UNCHANGED part
  \/ part = "edits" /\ Edits!Next /\ OthersStay /\ UNCHANGED part
  \/ part = "models" /\ Models!Next /\ OthersStay /\ UNCHANGED part
  \/ part = "playback" /\ Playing!Next /\ OthersStay /\ UNCHANGED part

MCvars == <<part, vars, messagesVars, cacheVars, storesVars, gatewayVars,
            fleetVars, operationsVars, storageVars, sharingVars, editsVars,
            modelsVars, playbackVars>>
MCSpec == MCInit /\ [][MCNext]_MCvars

\* The types of the part whose turn it is.
AllTyped ==
  CASE part = "workers" -> TypeOK
    [] part = "messages" -> Messages!TypeOK
    [] part = "cache" -> Cache!TypeOK
    [] part = "sync" -> StoresTyped
    [] part = "gate" -> GatewayTyped
    [] part = "fleet" -> Fleets!TypeOK
    [] part = "operations" -> Operations!TypeOK
    [] part = "storage" -> Projects!StorageTyped
    [] part = "sharing" -> Projects!SharingTyped
    [] part = "edits" -> Edits!TypeOK
    [] part = "models" -> Models!TypeOK
    [] part = "playback" -> Playing!TypeOK

\* What comes about by itself: the timers of calls and the frames of playback run, and
\* messages are consumed, and end.
Of(p, Step) == part = p /\ Step
MCFairSpec ==
  /\ MCSpec
  /\ \A t \in Tasks : WF_vars(Of("workers", Timeout(t)))
  /\ WF_messagesVars(Of("messages", Messages!Consumes))
  /\ WF_messagesVars(Of("messages", Messages!HandlerEnds))
  /\ WF_playbackVars(Of("playback", Playing!BeginFrame))
  /\ WF_playbackVars(Of("playback", Playing!Callback))
  /\ SF_playbackVars(Of("playback", Playing!Tick))

\* No callback plays more time than went by.
TimePlayedOnce ==
  [][part = "playback" => played' <= owed * playbackSpeed]_MCvars

\* Messages are consumed, and short programs are played to their end.
WorkEnds == Messages!EverythingIsConsumed /\ Playing!ShortProgramsFinish

=============================================================================
