--------------------------- MODULE EventsAndAudit ---------------------------
(***************************************************************************)
(* The events of modules/monitoring as they stream by, and as they are     *)
(* kept for an audit.                                                      *)
(***************************************************************************)
EXTENDS Integers, Sequences, FiniteSets, SequencesExt

(***************************************************************************)
(* The events of modules/monitoring/event-stream-processor.mjs: buffered,  *)
(* counted in a window, matched with patterns and, when they are metrics,  *)
(* compared with the recent ones.  Every call is a step.                   *)
(*                                                                         *)
(* Events are errors and values of one metric.  Their timestamp is the     *)
(* caller's: it may be late, early or missing.  The patterns of single     *)
(* metrics, which look at the event only, and the anomalies of a replay,   *)
(* which are drawn at random, are left out.                                *)
(***************************************************************************)

CONSTANTS Values,               \* of the metric
          windowSize,           \* in ticks
          MetricWindow,         \* the 60000 ms of _detectAnomalies(), whatever windowSize is
          Recent,               \* the 5000 ms of rapid_errors, in ticks
          maxEventsPerWindow,
          MaxTime, MaxEvents,   \* bounds
          MaxStray              \* bound: events whose timestamp is not the time of the call

StreamAssumption ==
  /\ {windowSize, MetricWindow, Recent} \subseteq 1..999 /\ MaxTime \in 0..999
  /\ maxEventsPerWindow \in Nat

\* No timestamp: undefined compares with nothing, and neither does this.
Missing == -1000

VARIABLES now, events,
          eventWindows,   \* start and number of events of each
          rapid,          \* "rapid_errors" was among the patterns of the last event
          anomalies,      \* severity, number of values compared with, and whether its own is one
          arrived         \* history: time of the call, and timestamp, of all events

streamVars == <<now, events, eventWindows, rapid, anomalies, arrived>>

StreamInit ==
  /\ now = 0 /\ events = <<>> /\ eventWindows = <<>> /\ rapid = FALSE
  /\ anomalies = <<>> /\ arrived = <<>>

\* Mutant of the next operator: the window is kept for as long again.
OpenKept(w) == now - w.startTime < 2 * windowSize

Open(w) == now - w.startTime < windowSize

\* _updateWindows(): one window is open at most; the first event after it starts
\* another, and no limit holds for the events it keeps.
Windows ==
  LET open == SelectSeq(eventWindows, Open)
  IN IF open = <<>> THEN <<[startTime |-> now, eventCount |-> 1]>>
     ELSE [open EXCEPT ![1].eventCount = @ + 1]

\* _identifyPatterns(): one error is enough, and any event shows it.
RapidErrors(list) ==
  \E i \in DOMAIN list : list[i].type = "error" /\ now - list[i].timestamp < Recent

\* _detectAnomalies(): the z-score of the value among the last 30 of the last minute, its
\* own being one if its timestamp is, with its squares multiplied out; the standard
\* deviation is taken for 0.1 at least.
InMinute(e) == now - e.timestamp < MetricWindow
Compared(list) ==
  LET metric == SelectSeq(list, LAMBDA e : e.type = "metric" /\ InMinute(e))
      first  == IF Len(metric) > 30 THEN Len(metric) - 29 ELSE 1
  IN [i \in 1..(Len(metric) - first + 1) |-> metric[first + i - 1].value]

\* z > k
Deviates(values, value, k) ==
  LET n   == Len(values)
      sum == FoldLeft(+, 0, values)
      squares == FoldLeft(LAMBDA s, v : s + v * v, 0, values)
      variance == n * squares - sum * sum                  \* times n * n
      distance == (n * value - sum) * (n * value - sum)    \* times n * n
  IN IF 100 * variance < n * n THEN 100 * distance > k * k * n * n
     ELSE distance > k * k * variance

Severity(values, value) == IF Deviates(values, value, 3) THEN "CRITICAL" ELSE "WARNING"

ProcessEvent(event) ==
  LET all  == Append(events, event)
      kept == IF Len(all) > 2 * maxEventsPerWindow THEN Tail(all) ELSE all
      values == Compared(kept)
      stray(a) == a.timestamp # a.at
      arrival  == [at |-> now, timestamp |-> event.timestamp]
  IN /\ Len(arrived) < MaxEvents
     /\ Len(SelectSeq(Append(arrived, arrival), stray)) <= MaxStray
     /\ arrived' = Append(arrived, arrival)
     /\ events' = kept
     /\ eventWindows' = Windows
     /\ rapid' = RapidErrors(kept)
     /\ anomalies' =
          IF event.type = "metric" /\ Len(values) >= 5 /\ Deviates(values, event.value, 2)
          THEN Append(anomalies, [severity |-> Severity(values, event.value),
                                  among |-> Len(values), own |-> InMinute(event)])
          ELSE anomalies
     /\ UNCHANGED now

ClearOldEvents(olderThan) ==
  /\ events' = SelectSeq(events, LAMBDA e : now - e.timestamp < olderThan)
  /\ events' # events
  /\ UNCHANGED <<now, eventWindows, rapid, anomalies, arrived>>

StreamTick ==
  /\ now < MaxTime /\ now' = now + 1
  /\ UNCHANGED <<events, eventWindows, rapid, anomalies, arrived>>

Stamps == {Missing} \cup 0..MaxTime
Error(stamp) == [type |-> "error", value |-> 0, timestamp |-> stamp]
Metric(v, stamp) == [type |-> "metric", value |-> v, timestamp |-> stamp]

StreamNext ==
  \/ \E stamp \in Stamps : ProcessEvent(Error(stamp))
  \/ \E v \in Values, stamp \in Stamps : ProcessEvent(Metric(v, stamp))
  \/ \E olderThan \in 1..MaxTime : ClearOldEvents(olderThan)
  \/ StreamTick

----------------------------------------------------------------------------
\* getStatistics(): of the last window, whether it is still open or not.
StreamStatistics ==
  [totalEventsProcessed |-> Len(arrived), currentBufferedEvents |-> Len(events),
   windowCount |-> Len(eventWindows),
   eventCount |-> IF eventWindows = <<>> THEN 0 ELSE Last(eventWindows).eventCount]

EventsByTimeRange(from, to) == SelectSeq(events, LAMBDA e : e.timestamp >= from /\ e.timestamp <= to)
EventsByType(type) == SelectSeq(events, LAMBDA e : e.type = type)
CurrentWindow == IF eventWindows = <<>> THEN 0 ELSE Len(eventWindows)

\* replayEvents(): the patterns of each event are looked for among all events, as of now.
Replay(from, to) ==
  LET replayed == EventsByTimeRange(from, to)
  IN [eventsReplayed |-> Len(replayed),
      patternsIdentified |-> IF replayed # <<>> /\ RapidErrors(events) THEN {"rapid_errors"} ELSE {}]

----------------------------------------------------------------------------
StreamTyped ==
  /\ now \in 0..MaxTime
  /\ events \in Seq([type : {"error", "metric"}, value : Values \cup {0}, timestamp : Stamps])
  /\ eventWindows \in Seq([startTime : 0..now, eventCount : 1..MaxEvents])
  /\ rapid \in BOOLEAN
  /\ anomalies \in Seq([severity : {"WARNING", "CRITICAL"}, among : 5..30, own : BOOLEAN])

\* Whatever arrives when, and whatever its timestamp, the buffer stays within its bound;
\* there is one window at most, which has counted exactly the events that came since it
\* started, and none that came after its end.  A value that counts among those that say
\* what is normal is no anomaly among fewer than six, nor critical among fewer than
\* eleven; one whose own timestamp is late or missing can be either among five.  A
\* replay finds rapid errors only if there are some now, not when the replayed ones
\* came: a stream without recent timestamps replays without any.
StreamCounted ==
  /\ Len(events) <= 2 * maxEventsPerWindow
  /\ StreamStatistics.currentBufferedEvents <= StreamStatistics.totalEventsProcessed
  /\ StreamStatistics.windowCount <= 1
  /\ \A i \in DOMAIN eventWindows :
       LET w == eventWindows[i]
       IN /\ w.eventCount = Len(SelectSeq(arrived, LAMBDA a : a.at >= w.startTime))
          /\ \A j \in DOMAIN arrived : arrived[j].at - w.startTime < windowSize
  /\ CurrentWindow = StreamStatistics.windowCount
  /\ \A to \in 0..now : \A from \in 0..to :
       /\ Replay(from, to).eventsReplayed + Replay(to + 1, now).eventsReplayed = Len(EventsByTimeRange(from, now))
       /\ Replay(from, to).patternsIdentified \subseteq Replay(0, now).patternsIdentified
       /\ (\A i \in DOMAIN events : now - events[i].timestamp >= Recent)
            => Replay(from, to).patternsIdentified = {}
  /\ EventsByType("error") = <<>> => Replay(0, now).patternsIdentified = {}
  /\ \A i \in DOMAIN anomalies :
       anomalies[i].own =>
         /\ anomalies[i].among >= 6
         /\ anomalies[i].severity = "CRITICAL" => anomalies[i].among >= 11

-----------------------------------------------------------------------------
(***************************************************************************)
(* The event log of modules/monitoring/audit-compliance-logger.mjs, which  *)
(* is archived when it is too long, and the reports made from it.          *)
(*                                                                         *)
(* An entry is its time, whether it failed and whether its details, which  *)
(* stay the caller's object though the entry is frozen, were changed since *)
(* it was hashed.  A hash of 32 bits is taken to tell.  Users and resources*)
(* are left out.                                                           *)
(***************************************************************************)

CONSTANTS maxLogSize,
          retention,            \* retentionDays
          MaxDays, MaxLogged, MaxOthers    \* bounds

AuditAssumption == maxLogSize \in Nat /\ retention \in Nat

VARIABLES today, eventLog,
          otherLog,      \* accessLog and operationLog
          archiveCount,
          totalLogged,
          logged,        \* history: every entry that was logged
          lastLogged     \* history: the time of the last call of logEvent()

auditVars == <<today, eventLog, otherLog, archiveCount, totalLogged, logged, lastLogged>>

AuditInit ==
  /\ today = 0 /\ otherLog = <<>> /\ eventLog = <<>> /\ logged = <<>> /\ lastLogged = 0
  /\ archiveCount = 0 /\ totalLogged = 0

\* Mutant of the next operator: an entry as old as the retention goes, too.
KeptYounger(log) == SelectSeq(log, LAMBDA e : e.timestamp > today - retention)

\* _archiveLog(): what is older is dropped, with an event that says how much it was.
Kept(log) == SelectSeq(log, LAMBDA e : e.timestamp >= today - retention)

LogEvent(status) ==
  LET entry == [timestamp |-> today, status |-> status, changed |-> FALSE]
      all   == Append(eventLog, entry)
      full  == Len(all) > maxLogSize
  IN /\ totalLogged < MaxLogged /\ totalLogged' = totalLogged + 1
     /\ logged' = Append(logged, entry) /\ lastLogged' = today
     /\ eventLog' = IF full THEN Kept(all) ELSE all
     /\ archiveCount' = IF full /\ Kept(all) # all THEN archiveCount + 1 ELSE archiveCount
     /\ UNCHANGED <<today, otherLog>>

AuditTick ==
  /\ today < MaxDays /\ today' = today + 1
  /\ UNCHANGED <<eventLog, otherLog, archiveCount, totalLogged, logged, lastLogged>>

\* logAccess() and logOperation(): nothing archives these.
LogOther(kind) ==
  /\ Len(otherLog) < MaxOthers /\ otherLog' = Append(otherLog, [timestamp |-> today, kind |-> kind])
  /\ UNCHANGED <<today, eventLog, archiveCount, totalLogged, logged, lastLogged>>

\* A caller goes on using the object it gave as details.
DetailsChange(i) ==
  /\ eventLog' = [eventLog EXCEPT ![i].changed = TRUE]
  /\ UNCHANGED <<today, otherLog, archiveCount, totalLogged, logged, lastLogged>>

AuditNext ==
  \/ AuditTick
  \/ \E kind \in {"access", "operation"} : LogOther(kind)
  \/ \E i \in DOMAIN eventLog : DetailsChange(i)
  \/ \E status \in {"SUCCESS", "FAILED"} : LogEvent(status)

----------------------------------------------------------------------------
\* generateComplianceReport(): from what the log still has; with no events the success
\* rate is 0 / 0.
Within(log, from, to) == SelectSeq(log, LAMBDA e : e.timestamp \in from..to)
Failed(log) == SelectSeq(log, LAMBDA e : e.status = "FAILED")

ComplianceReport(from, to) ==
  LET found == Within(eventLog, from, to)
  IN [totalEvents |-> Len(found), failedEvents |-> Len(Failed(found)),
      integrityStatus |-> "VERIFIED",
      complianceStatus |-> IF Failed(found) = <<>> THEN "COMPLIANT" ELSE "NON_COMPLIANT"]

VerifyIntegrity(i) == ~eventLog[i].changed

\* searchAuditLog() and getOperationHistory(): a period that begins or ends at 0 is none.
Period(log, from, to) == IF from # 0 /\ to # 0 THEN Within(log, from, to) ELSE log

\* slice(0, criteria.limit || 1000): the first ones.
Lesser(m, n) == IF m < n THEN m ELSE n
SearchAuditLog(status, from, to, limit) ==
  LET found == Period(SelectSeq(eventLog, LAMBDA e : status \in {"any", e.status}), from, to)
  IN SubSeq(found, 1, Lesser(IF limit = 0 THEN 1000 ELSE limit, Len(found)))

\* slice(-limit): the last ones, and all of them with a limit of 0.
Newest(log, limit) == IF limit = 0 THEN log ELSE SubSeq(log, Len(log) - Lesser(limit, Len(log)) + 1, Len(log))

OthersOf(kind) == SelectSeq(otherLog, LAMBDA e : e.kind = kind)
AccessHistory(limit) == Newest(OthersOf("access"), limit)
OperationHistory(from, to, limit) == Newest(Period(OthersOf("operation"), from, to), limit)
ExportAuditTrail ==
  [events |-> Len(eventLog), accesses |-> Len(OthersOf("access")), operations |-> Len(OthersOf("operation"))]

\* getStatistics()
AuditStatistics ==
  [currentLogSize |-> Len(eventLog), totalLogged |-> totalLogged, archiveCount |-> archiveCount]

----------------------------------------------------------------------------
AuditTyped ==
  /\ today \in 0..MaxDays /\ lastLogged \in 0..today
  /\ eventLog \in Seq([timestamp : 0..today, status : {"SUCCESS", "FAILED"}, changed : BOOLEAN])
  /\ otherLog \in Seq([timestamp : 0..today, kind : {"access", "operation"}])
  /\ archiveCount \in 0..MaxLogged /\ totalLogged \in 0..MaxLogged

\* The log is the end of what was logged, in order, and what archiving has taken from
\* its beginning is older than the retention: a report on a period that is not counts
\* every event and every failure of it.  The log is longer than maxLogSize only with
\* entries that were all within the retention when the last one came, and each archive
\* took something.  What a caller changed in the details of an entry shows when it is
\* verified, and never in a report, which is VERIFIED whatever was changed.  A search
\* finds the failures of a report up to its limit, the oldest of them, where a history
\* gives the newest: with a limit below their number, the last failure is not found.
ReportsComplete ==
  /\ LET archived == Len(logged) - Len(eventLog)
     IN /\ archived >= 0
        /\ \A i \in DOMAIN eventLog : LET e == eventLog[i]
             IN [e EXCEPT !.changed = FALSE] = logged[archived + i] /\ (VerifyIntegrity(i) <=> e = logged[archived + i])
  /\ \A from \in 0..today, to \in 0..today : from >= today - retention =>
       LET r == ComplianceReport(from, to)
       IN /\ r.totalEvents = Len(Within(logged, from, to))
          /\ from # 0 /\ to # 0 => \A limit \in 1..MaxLogged :
               LET found == SearchAuditLog("FAILED", from, to, limit)
               IN /\ Len(found) = Lesser(limit, r.failedEvents)
                  /\ IsPrefix(found, SearchAuditLog("FAILED", from, to, 0))
          /\ r.complianceStatus = "NON_COMPLIANT" <=> Failed(Within(logged, from, to)) # <<>>
  /\ Len(eventLog) > maxLogSize => \A i \in DOMAIN eventLog :
       eventLog[i].timestamp >= lastLogged - retention
  /\ ExportAuditTrail.accesses + ExportAuditTrail.operations = Len(otherLog)
  /\ \A limit \in 1..MaxOthers :
       /\ Len(OperationHistory(0, today, limit)) = Lesser(limit, ExportAuditTrail.operations)
       /\ Len(AccessHistory(limit)) = Lesser(limit, ExportAuditTrail.accesses)
       /\ otherLog # <<>> =>
            Last(otherLog) \in ToSet(OperationHistory(0, today, limit)) \cup ToSet(AccessHistory(limit))
  /\ AuditStatistics.archiveCount <= AuditStatistics.totalLogged - AuditStatistics.currentLogSize

-----------------------------------------------------------------------------
Assumption == StreamAssumption /\ AuditAssumption

\* The two share no state.
vars == <<streamVars, auditVars>>
Init == StreamInit /\ AuditInit
Next ==
  \/ StreamNext /\ UNCHANGED auditVars
  \/ AuditNext /\ UNCHANGED streamVars
Spec == Init /\ [][Next]_vars

TypeOK == StreamTyped /\ AuditTyped
=============================================================================
