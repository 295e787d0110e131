-------------------------- MODULE DevicesAndFaults ---------------------------
(***************************************************************************)
(* What modules/hardware keeps of the devices of a machine and of the      *)
(* faults detected in it: the device manager, and the fault detection and  *)
(* recovery.                                                               *)
(***************************************************************************)
EXTENDS Integers, Sequences, FiniteSets, SequencesExt

(***************************************************************************)
(* The devices of modules/hardware/device-manager.mjs.  connectDevice()    *)
(* and disconnectDevice() await a timer of 100 ms each, so that the calls  *)
(* under way end in the order in which they were made; each sets the state *)
(* it leads to whatever was called in between.                             *)
(*                                                                         *)
(* Nothing fails in the try block but a listener of deviceConnected.  The  *)
(* process is one that survives the rejection of a reconnection's promise. *)
(* Adapters and metrics other than `connected' are left out.               *)
(***************************************************************************)

CONSTANTS Devices,
          Discovered,           \* those discoverDevices() finds, in its order
          maxDevices, reconnectAttempts,
          MaxCalls, MaxTimers   \* bounds

DeviceAssumption == maxDevices \in Nat \ {0} /\ reconnectAttempts \in Nat

VARIABLES registered, state,
          connected,            \* metrics.connected
          connectionAttempts,
          calls,                \* the calls awaiting their timer, in order
          timers,               \* device -> reconnections under setTimeout
          wanted,               \* history: device -> where its last call was to lead
          denied                \* history: devices told that they are connected, by a call
                                \* that has been the last one, while a disconnection had still to end

deviceVars == <<registered, state, connected, connectionAttempts, calls, timers, wanted, denied>>

DeviceInit ==
  /\ registered = {}
  /\ state = [d \in Devices |-> "disconnected"]
  /\ connected = [d \in Devices |-> FALSE]
  /\ connectionAttempts = [d \in Devices |-> 0]
  /\ calls = <<>>
  /\ timers = [d \in Devices |-> 0]
  /\ wanted = [d \in Devices |-> "disconnected"] /\ denied = {}

\* Mutant of the next action: the limit is checked for one device too few.
RegisterDeviceOneMore(d) ==
  /\ Cardinality(registered) <= maxDevices /\ d \notin registered
  /\ registered' = registered \cup {d}
  /\ UNCHANGED <<state, connected, connectionAttempts, calls, timers, wanted, denied>>

RegisterDevice(d) ==
  /\ Cardinality(registered) < maxDevices /\ d \notin registered
  /\ registered' = registered \cup {d}
  /\ UNCHANGED <<state, connected, connectionAttempts, calls, timers, wanted, denied>>

\* The limit may stop it half way: the devices before that are registered.
DiscoverDevices ==
  /\ LET new  == SelectSeq(Discovered, LAMBDA d : d \notin registered)
         room == maxDevices - Cardinality(registered)
     IN registered' = registered \cup
          ToSet(SubSeq(new, 1, IF Len(new) <= room THEN Len(new) ELSE room))
  /\ UNCHANGED <<state, connected, connectionAttempts, calls, timers, wanted, denied>>

\* The newest call that is under way for a device is a disconnection.
Disconnecting(d) ==
  LET under == SelectSeq(calls, LAMBDA c : c.device = d)
  IN under # <<>> /\ Last(under).to = "disconnected"

Begin(d, call) ==
  /\ d \in registered /\ Len(calls) < MaxCalls
  /\ calls' = Append(calls, [device |-> d, to |-> call])
  /\ wanted' = [wanted EXCEPT ![d] = call] /\ denied' = denied \ {d}

\* The code of connectDevice() before its await.  It returns at once when connected,
\* though a disconnection may be under way that an older connection has hidden.
Connecting(d) ==
  IF state[d] = "connected"
  THEN /\ d \in registered /\ wanted' = [wanted EXCEPT ![d] = "connected"]
       /\ denied' = IF Disconnecting(d) THEN denied \cup {d} ELSE denied
       /\ UNCHANGED <<state, calls>>
  ELSE Begin(d, "connected") /\ state' = [state EXCEPT ![d] = "connecting"]

ConnectDevice(d) ==
  Connecting(d) /\ UNCHANGED <<registered, connected, connectionAttempts, timers>>

DisconnectDevice(d) ==
  /\ Begin(d, "disconnected")
  /\ state' = [state EXCEPT ![d] = "disconnecting"]
  /\ UNCHANGED <<registered, connected, connectionAttempts, timers>>

\* Mutant of the next operator: connecting may take longer than disconnecting.
EndingByKind(to) == {i \in DOMAIN calls : calls[i].to = to /\ \A j \in 1..(i - 1) : calls[j].to # to}

\* The call whose timer is next.
Ending(to) == {i \in DOMAIN calls : i = 1 /\ calls[i].to = to}

Connected ==
  /\ \E i \in Ending("connected") :
     LET d == calls[i].device
     IN /\ calls' = RemoveAt(calls, i)
        /\ state' = [state EXCEPT ![d] = "connected"]
        /\ connected' = [connected EXCEPT ![d] = TRUE]
        /\ connectionAttempts' = [connectionAttempts EXCEPT ![d] = 0]
  /\ UNCHANGED <<registered, timers, wanted, denied>>

\* A listener of deviceConnected throws, after the attempts were reset.
ConnectionError ==
  /\ \E i \in Ending("connected") :
     LET d == calls[i].device
         attempts == 1
     IN /\ calls' = RemoveAt(calls, i)
        /\ state' = [state EXCEPT ![d] = "error"]
        /\ connected' = [connected EXCEPT ![d] = TRUE]
        /\ connectionAttempts' = [connectionAttempts EXCEPT ![d] = attempts]
        /\ IF attempts < reconnectAttempts
           THEN timers[d] < MaxTimers /\ timers' = [timers EXCEPT ![d] = @ + 1]
           ELSE UNCHANGED timers
  /\ UNCHANGED <<registered, wanted, denied>>

Disconnected ==
  /\ \E i \in Ending("disconnected") :
     LET d == calls[i].device
     IN /\ calls' = RemoveAt(calls, i)
        /\ state' = [state EXCEPT ![d] = "disconnected"]
        /\ connected' = [connected EXCEPT ![d] = FALSE]
  /\ UNCHANGED <<registered, connectionAttempts, timers, wanted, denied>>

\* disconnectDevice() leaves the timer running: it connects the device again.
Reconnect(d) ==
  /\ timers[d] > 0 /\ timers' = [timers EXCEPT ![d] = @ - 1]
  /\ Connecting(d)
  /\ UNCHANGED <<registered, connected, connectionAttempts>>

\* sendCommand() awaits nothing and changes metrics only; the others throw.
SendCommand(d) == state[d] = "connected" /\ UNCHANGED deviceVars

DeviceNext ==
  \/ DiscoverDevices \/ Connected \/ ConnectionError \/ Disconnected
  \/ \E d \in Devices : \/ RegisterDevice(d) \/ ConnectDevice(d) \/ DisconnectDevice(d)
                        \/ Reconnect(d) \/ SendCommand(d)


\* What the manager tells of its devices.
GetDeviceState(d) == [state |-> state[d], connected |-> connected[d]]
GetDevices == [d \in registered |-> GetDeviceState(d)]
GetDeviceMetrics(d) == [connected |-> connected[d], connectionAttempts |-> connectionAttempts[d]]
DeviceStatistics == [totalDevices |-> Cardinality(registered),
               connectedDevices |-> Cardinality({d \in registered : state[d] = "connected"})]

----------------------------------------------------------------------------
DeviceTyped ==
  /\ registered \subseteq Devices
  /\ state \in [Devices -> {"disconnected", "connecting", "connected", "disconnecting", "error"}]
  /\ connected \in [Devices -> BOOLEAN]
  /\ connectionAttempts \in [Devices -> 0..1]
  /\ calls \in Seq([device : Devices, to : {"connected", "disconnected"}])
  /\ timers \in [Devices -> 0..MaxTimers]
  /\ wanted \in [Devices -> {"connected", "disconnected"}] /\ denied \subseteq registered

Idle(d) == \A i \in DOMAIN calls : calls[i].device # d

\* However the calls for a device overlap, it ends where the last of them was to lead
\* (or in error), with the metrics in step: a state that an older call overwrites is
\* set again by the newer one.  The exception is a connect that returned at once for a
\* connection that a pending disconnect then ended: that device ends disconnected.  No
\* registration or discovery exceeds the limit.
LastCallWins ==
  /\ DeviceStatistics.totalDevices <= maxDevices
  /\ \A d \in DOMAIN GetDevices : Idle(d) =>
       /\ \/ GetDevices[d].state = wanted[d] /\ d \notin denied
          \/ GetDevices[d].state = "error" /\ wanted[d] = "connected"
          \/ GetDevices[d].state = "disconnected" /\ d \in denied
       /\ GetDeviceMetrics(d).connected = (wanted[d] = "connected" /\ d \notin denied)
       /\ GetDeviceState(d).state = "error" => GetDeviceMetrics(d).connectionAttempts > 0
  /\ DeviceStatistics.connectedDevices <= Cardinality({d \in registered : connected[d]})

-----------------------------------------------------------------------------
(***************************************************************************)
(* The faults of modules/hardware/fault-detection-recovery.mjs and the     *)
(* recovery that detectFault() starts for some of them: the steps of a     *)
(* sequence, each a timer of 500 ms, then an event; when a listener of     *)
(* that event throws, the recovery counts as failed, and the steps of the  *)
(* shutdown follow. Nothing else makes a recovery fail.                    *)
(*                                                                         *)
(* A type is the words looked for in its name. What a step does is the     *)
(* name in an event; a cause is the condition of the sensor data it is     *)
(* told for.                                                               *)
(***************************************************************************)

CONSTANTS MaxFaults,          \* bound: faults detected
          faultHistorySize,
          Types,              \* of faults detected
          Symptoms            \* sets of conditions the sensor data may meet

Words == [spindle_overheat |-> {"spindle", "overheat"}, feed_instability |-> {"feed"},
          vibration_warning |-> {"vibration"}, tool_breakage |-> {"tool"},
          power_fault |-> {"power"}, bearing_wear |-> {"bearing"}]

FaultAssumption == faultHistorySize \in Nat \ {0} /\ Types \subseteq DOMAIN Words

recoverySequences ==
  [spindle_overheat  |-> <<"reduce_spindle_speed", "increase_coolant_flow", "pause_cutting", "monitor_temperature">>,
   feed_instability  |-> <<"reduce_feed_rate", "check_tool_wear", "verify_workpiece_clamp", "resume_with_lower_feed">>,
   vibration_warning |-> <<"reduce_spindle_load", "stabilize_position", "check_tool_runout", "resume_operation">>,
   tool_breakage     |-> <<"emergency_stop", "retract_spindle", "log_incident", "raise_alarm">>,
   power_fault       |-> <<"safe_stop", "cut_spindle", "retract_axes", "wait_for_restart">>]
shutdownSequence == <<"stop_spindle", "retract_all_axes", "disable_servos", "raise_emergency_alarm">>

\* The conditions looked at for a type, and the first of them that is met.
Causes(type) ==
  (IF Words[type] \cap {"thermal", "spindle", "overheat"} # {}
   THEN <<"hot", "no coolant", "spindle load">> ELSE <<>>)
  \o (IF "vibration" \in Words[type] THEN <<"runout", "hot bearing", "not clamped">> ELSE <<>>)
  \o (IF "feed" \in Words[type] THEN <<"tool wear", "fast feed">> ELSE <<>>)
  \o (IF "power" \in Words[type] THEN <<"low voltage", "overcurrent">> ELSE <<>>)

AnalyzeRootCause(type, symptoms) ==
  LET met == SelectSeq(Causes(type), LAMBDA c : c \in symptoms)
  IN IF met = <<>> THEN "Unknown" ELSE met[1]

RecommendedAction(type) ==
  IF "tool" \in Words[type] THEN "Replace tool immediately"
  ELSE IF "bearing" \in Words[type] THEN "Schedule bearing replacement"
  ELSE IF Words[type] \cap {"thermal", "spindle", "overheat"} # {} THEN "Check cooling system"
  ELSE IF "vibration" \in Words[type] THEN "Balance spindle and check runout"
  ELSE "Perform preventive maintenance"

VARIABLES detected,       \* stats.faultsDetected: the faults are 1..detected
          type, rootCause,
          status, phase, step,
          faultHistory,
          recoveryAttempts, successfulRecoveries, failedRecoveries,
          final           \* history: faults resolved with no recovery under way

faultVars == <<detected, type, rootCause, status, phase, step, faultHistory,
          recoveryAttempts, successfulRecoveries, failedRecoveries, final>>
about == <<type, rootCause>>

Faults == 1..MaxFaults
Statuses == {"none", "detected", "recovering", "recovered", "recovery_failed", "resolved"}

FaultInit ==
  /\ detected = 0
  /\ type = [f \in Faults |-> "none"] /\ rootCause = [f \in Faults |-> "none"]
  /\ status = [f \in Faults |-> "none"]
  /\ phase = [f \in Faults |-> "none"]
  /\ step = [f \in Faults |-> 0]
  /\ faultHistory = <<>>
  /\ recoveryAttempts = 0 /\ successfulRecoveries = 0 /\ failedRecoveries = 0
  /\ final = {}

\* Mutant of the next operator: the newest is dropped.
PushedDropsNewest(f) ==
  IF Len(faultHistory) = faultHistorySize THEN faultHistory ELSE Append(faultHistory, f)

Pushed(f) ==
  LET pushed == Append(faultHistory, f)
  IN IF Len(pushed) > faultHistorySize THEN Tail(pushed) ELSE pushed

\* automatic: enableAutoRecovery and a severity above 0.5.
DetectFault(t, symptoms, automatic) ==
  LET f == detected + 1
      recovers == automatic /\ t \in DOMAIN recoverySequences
  IN /\ detected < MaxFaults /\ detected' = f
     /\ type' = [type EXCEPT ![f] = t]
     /\ rootCause' = [rootCause EXCEPT ![f] = AnalyzeRootCause(t, symptoms)]
     /\ faultHistory' = Pushed(f)
     /\ status' = [status EXCEPT ![f] = IF recovers THEN "recovering" ELSE "detected"]
     /\ phase' = [phase EXCEPT ![f] = IF recovers THEN "recovery" ELSE "none"]
     /\ recoveryAttempts' = recoveryAttempts + (IF recovers THEN 1 ELSE 0)
     /\ UNCHANGED <<step, successfulRecoveries, failedRecoveries, final>>

Sequence(f) == IF phase[f] = "shutdown" THEN shutdownSequence ELSE recoverySequences[type[f]]
Done(f) == step[f] = Len(Sequence(f))

\* The timer of one step; the loop awaits the next one.
ExecuteRecoveryStep(f) ==
  /\ phase[f] # "none" /\ ~Done(f)
  /\ step' = [step EXCEPT ![f] = @ + 1]
  /\ UNCHANGED <<about, detected, status, phase, faultHistory, recoveryAttempts,
                 successfulRecoveries, failedRecoveries, final>>

\* Mutant of the next action: the status is left as it is.
RecoverySuccessfulSilently(f) ==
  /\ phase[f] = "recovery" /\ Done(f)
  /\ phase' = [phase EXCEPT ![f] = "none"]
  /\ successfulRecoveries' = successfulRecoveries + 1
  /\ UNCHANGED <<about, detected, status, step, faultHistory, recoveryAttempts, failedRecoveries, final>>

RecoverySuccessful(f) ==
  /\ phase[f] = "recovery" /\ Done(f)
  /\ status' = [status EXCEPT ![f] = "recovered"]
  /\ phase' = [phase EXCEPT ![f] = "none"]
  /\ successfulRecoveries' = successfulRecoveries + 1
  /\ UNCHANGED <<about, detected, step, faultHistory, recoveryAttempts, failedRecoveries, final>>

\* A listener of recoverySuccessful throws: both counters have been raised.
RecoveryFailed(f) ==
  /\ phase[f] = "recovery" /\ Done(f)
  /\ status' = [status EXCEPT ![f] = "recovery_failed"]
  /\ phase' = [phase EXCEPT ![f] = "shutdown"]
  /\ step' = [step EXCEPT ![f] = 0]
  /\ successfulRecoveries' = successfulRecoveries + 1
  /\ failedRecoveries' = failedRecoveries + 1
  /\ UNCHANGED <<about, detected, faultHistory, recoveryAttempts, final>>

SafeShutdownComplete(f) ==
  /\ phase[f] = "shutdown" /\ Done(f)
  /\ phase' = [phase EXCEPT ![f] = "none"]
  /\ UNCHANGED <<about, detected, status, step, faultHistory, recoveryAttempts,
                 successfulRecoveries, failedRecoveries, final>>

\* It stops no recovery.
ResolveFault(f) ==
  /\ status[f] # "none"
  /\ status' = [status EXCEPT ![f] = "resolved"]
  /\ final' = IF phase[f] = "recovery" THEN final ELSE final \cup {f}
  /\ UNCHANGED <<about, detected, phase, step, faultHistory, recoveryAttempts,
                 successfulRecoveries, failedRecoveries>>

Recovery(f) == \/ ExecuteRecoveryStep(f) \/ RecoverySuccessful(f)
               \/ RecoveryFailed(f) \/ SafeShutdownComplete(f)

FaultNext ==
  \/ \E t \in Types, symptoms \in Symptoms, automatic \in BOOLEAN : DetectFault(t, symptoms, automatic)
  \/ \E f \in Faults : Recovery(f) \/ ResolveFault(f)


\* What is told of the faults.
GetFaultDetails(f) == [status |-> status[f], rootCause |-> rootCause[f],
                       recommendedAction |-> RecommendedAction(type[f])]
GetFaultHistory(n) ==
  IF n > 0 /\ n < Len(faultHistory)
  THEN SubSeq(faultHistory, Len(faultHistory) - n + 1, Len(faultHistory)) ELSE faultHistory
GetFaultsByType(t) == {f \in ToSet(faultHistory) : type[f] = t}
GetActiveFaults == {f \in ToSet(faultHistory) : status[f] \in {"detected", "recovering"}}
FaultStatistics == [faultsDetected |-> detected, activeFaults |-> Cardinality(GetActiveFaults),
               recoveryAttempts |-> recoveryAttempts]

----------------------------------------------------------------------------
FaultTyped ==
  /\ detected \in 0..MaxFaults
  /\ status \in [Faults -> Statuses]
  /\ phase \in [Faults -> {"none", "recovery", "shutdown"}]
  /\ step \in [Faults -> 0..4]
  /\ faultHistory \in Seq(Faults)
  /\ recoveryAttempts \in 0..MaxFaults /\ successfulRecoveries \in 0..MaxFaults
  /\ failedRecoveries \in 0..MaxFaults /\ final \subseteq Faults

\* Recoveries overlap one another and resolveFault(); still a fault that says it
\* is recovering has its recovery under way, a resolution sticks unless it came
\* during one, every attempt that has ended counts as a success and the failed ones twice,
\* and getActiveFaults(), which reads the history, misses an active fault only
\* once faultHistorySize newer ones have been detected.
FaultsSettle ==
  /\ \A f \in 1..detected :
       /\ status[f] = "recovering" => phase[f] = "recovery"
       /\ phase[f] = "shutdown" => status[f] \in {"recovery_failed", "resolved"}
       /\ f \in final => status[f] = "resolved"
       /\ f \in ToSet(GetFaultHistory(0)) <=> f > detected - faultHistorySize
       /\ f \in GetActiveFaults \/ f <= detected - faultHistorySize
            <=> GetFaultDetails(f).status \in {"detected", "recovering"} \/ f <= detected - faultHistorySize
       /\ GetFaultDetails(f).rootCause \in ToSet(Causes(type[f])) \cup {"Unknown"}
       /\ GetFaultDetails(f).recommendedAction = "Check cooling system" => "hot" \in ToSet(Causes(type[f]))
  /\ FaultStatistics.activeFaults <= faultHistorySize
  /\ ToSet(faultHistory) = UNION {GetFaultsByType(t) : t \in Types}
  /\ recoveryAttempts = successfulRecoveries + Cardinality({f \in Faults : phase[f] = "recovery"})
  /\ failedRecoveries <= successfulRecoveries

-----------------------------------------------------------------------------
Assumption == DeviceAssumption /\ FaultAssumption

\* The two share no state.
vars == <<deviceVars, faultVars>>
Init == DeviceInit /\ FaultInit
Next ==
  \/ DeviceNext /\ UNCHANGED faultVars
  \/ FaultNext /\ UNCHANGED deviceVars
Spec == Init /\ [][Next]_vars

TypeOK == DeviceTyped /\ FaultTyped
==============================================================================
