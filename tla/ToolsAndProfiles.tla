-------------------------- MODULE ToolsAndProfiles ---------------------------
(***************************************************************************)
(* Two records of the machine under modules/machine: how its tools wear, and*)
(* the profiles of its set-up.                                             *)
(***************************************************************************)
EXTENDS Integers, Sequences, FiniteSets, SequencesExt

(***************************************************************************)
(* modules/hardware/tool-wear-measurement.mjs.  Wear and runout are in     *)
(* hundredths of a millimetre against the default thresholds, times in     *)
(* minutes.  Geometry, coatings and the spikes themselves are left out.    *)
(***************************************************************************)

CONSTANTS Tools, Wears, Runouts,
          Step,                     \* minutes a tick of the clock stands for
          MaxTime, MaxMeasurements  \* bounds

VARIABLES tools, wearData, now, stats,
          ended    \* history: tools that broke or were replaced

wearVars == <<tools, wearData, now, stats, ended>>

vbbThreshold == 50
vbcThreshold == 30
treeThreshold == 5

NoMeasurement == [type |-> "none", value |-> 0, severity |-> "normal", time |-> 0]
Unregistered == [registered |-> FALSE, active |-> FALSE, lastMeasurement |-> NoMeasurement]

WearInit ==
  /\ tools = [t \in Tools |-> Unregistered] /\ wearData = [t \in Tools |-> <<>>] /\ now = 0
  /\ stats = [breakagesDetected |-> 0, toolsReplaced |-> 0] /\ ended = {}

\* Once and for all: a replaced tool keeps its id.
RegisterTool(t) ==
  /\ ~tools[t].registered
  /\ tools' = [tools EXCEPT ![t] = [Unregistered EXCEPT !.registered = TRUE, !.active = TRUE]]
  /\ UNCHANGED <<wearData, now, stats, ended>>

\* Mutant of the next operator: critical only when the threshold itself is reached.
SeverityLate(value, threshold) ==
  IF value >= threshold THEN "critical" ELSE IF 10 * value >= 7 * threshold THEN "warning" ELSE "normal"

\* At nine and seven tenths of the threshold.
Severity(value, threshold) ==
  IF 10 * value >= 9 * threshold THEN "critical" ELSE IF 10 * value >= 7 * threshold THEN "warning" ELSE "normal"

Measured(t, measurement) ==
  /\ tools[t].registered /\ Len(wearData[t]) < MaxMeasurements
  /\ wearData' = [wearData EXCEPT ![t] = Append(@, measurement)]

\* Also for a tool that is no longer active.
RecordWear(t, type, threshold, value) ==
  LET measurement == [type |-> type, value |-> value, severity |-> Severity(value, threshold), time |-> now]
  IN /\ Measured(t, measurement)
     /\ tools' = [tools EXCEPT ![t].lastMeasurement = measurement]
     /\ UNCHANGED <<now, stats, ended>>

RecordFlankWear(t, value) == RecordWear(t, "flank_wear", vbbThreshold, value)
RecordCraterWear(t, value) == RecordWear(t, "crater_wear", vbcThreshold, value)

MonitorRunout(t, tir) ==
  /\ Measured(t, [type |-> "runout", value |-> tir, time |-> now,
       severity |-> IF tir > 2 * treeThreshold THEN "critical" ELSE IF tir > treeThreshold THEN "warning" ELSE "normal"])
  /\ UNCHANGED <<tools, now, stats, ended>>

Deactivate(t) == tools' = [tools EXCEPT ![t].active = FALSE] /\ ended' = ended \cup {t}

\* Some peak of sound, vibration or force is above its limit; again for a broken tool.
DetectBreakage(t) ==
  /\ tools[t].registered /\ stats.breakagesDetected < 2
  /\ Deactivate(t) /\ stats' = [stats EXCEPT !.breakagesDetected = @ + 1]
  /\ UNCHANGED <<wearData, now>>

ReplaceTool(t) ==
  /\ tools[t].registered /\ stats.toolsReplaced < 2
  /\ Deactivate(t) /\ stats' = [stats EXCEPT !.toolsReplaced = @ + 1]
  /\ UNCHANGED <<wearData, now>>

Tick == now < MaxTime /\ now' = now + Step /\ UNCHANGED <<tools, wearData, stats, ended>>

WearNext ==
  \/ Tick
  \/ \E t \in Tools :
       \/ RegisterTool(t) \/ DetectBreakage(t) \/ ReplaceTool(t)
       \/ \E value \in Wears : RecordFlankWear(t, value) \/ RecordCraterWear(t, value)
       \/ \E tir \in Runouts : MonitorRunout(t, tir)


----------------------------------------------------------------------------
(* predictRemainingLife()                                                  *)

\* Flank and crater wear of the last minutes, in one list.
Recent(t, minutes) == SelectSeq(wearData[t], LAMBDA m : m.time >= now - minutes /\ m.type # "runout")

\* calculateWearRate(), times the minutes of the window: over its length, whatever lies
\* between the measurements.
WearDifference(t, minutes) ==
  IF Len(Recent(t, minutes)) < 2 THEN 0 ELSE Last(Recent(t, minutes)).value - Recent(t, minutes)[1].value

\* A crater measurement has no flank value, which then counts as 0.
RemainingWear(t) ==
  LET m == tools[t].lastMeasurement IN vbbThreshold - (IF m.type = "flank_wear" THEN m.value ELSE 0)
Predicts(t) == WearDifference(t, 120) > 0
RemainingMinutes(t) == (120 * RemainingWear(t)) \div WearDifference(t, 120)

\* getToolStatus(): the rate of the prediction takes the place of the rate of an hour;
\* without a prediction that rate stays.
ToolStatus(t) ==
  [active |-> tools[t].active, lastMeasurement |-> tools[t].lastMeasurement,
   wear |-> IF Predicts(t) THEN WearDifference(t, 120) ELSE WearDifference(t, 60),
   over |-> IF Predicts(t) THEN 120 ELSE 60]
GetTools == {t \in Tools : tools[t].registered}
Statistics == [toolsMonitored |-> Cardinality(GetTools), breakagesDetected |-> stats.breakagesDetected,
               toolsReplaced |-> stats.toolsReplaced, activeTool |-> Cardinality({t \in Tools : tools[t].active})]

WearTyped ==
  /\ now \in 0..MaxTime /\ ended \subseteq Tools
  /\ \A t \in Tools : tools[t].lastMeasurement.severity \in {"normal", "warning", "critical"}

\* With measurements of three kinds in any order, before and after a tool ended: a tool
\* that broke or was replaced is never active again, not even by registering it; runout
\* changes no prediction; and a life that is predicted is more than a tenth of the threshold
\* away from its end unless the flank wear was critical, past it when the threshold is
\* passed, and always that of a new tool when the crater was measured last.
WearJudged ==
  \A t \in Tools :
    /\ ToolStatus(t).active <=> t \in GetTools /\ t \notin ended
    /\ ToolStatus(t).over = 60 /\ ToolStatus(t).wear > 0 => Recent(t, 120)[1].value > Recent(t, 60)[1].value
    /\ LET wear == SelectSeq(wearData[t], LAMBDA m : m.type # "runout")
       IN wear # <<>> => tools[t].lastMeasurement = Last(wear)
    /\ Predicts(t) =>
         LET m == tools[t].lastMeasurement
         IN /\ m.type = "flank_wear" /\ m.severity # "critical" => 10 * RemainingWear(t) > vbbThreshold
            /\ m.type = "flank_wear" /\ m.value > vbbThreshold => RemainingMinutes(t) < 0
            /\ m.type = "crater_wear" => RemainingMinutes(t) = (120 * vbbThreshold) \div WearDifference(t, 120)
    /\ Statistics.toolsMonitored - Statistics.activeTool = Cardinality(ended)
    /\ Statistics.breakagesDetected + Statistics.toolsReplaced >= Cardinality(ended)

-----------------------------------------------------------------------------
(***************************************************************************)
(* modules/hardware/machine-profiles.mjs.  A profile is kept under a key   *)
(* and has an id of its own, which an update may change and an import      *)
(* chooses.  Work areas and other data are one number; names are left out. *)
(* A profile that was imported or updated need not have all its parts: what*)
(* reads a part that is missing throws and changes nothing.                *)
(***************************************************************************)

CONSTANTS Generated,        \* the ids createProfile() draws from
          Areas, OffsetTools, maxProfiles,
          Shapes,           \* the sets of parts an import or an update may give
          MaxOffsets        \* bound

ProfileAssumption == "default" \notin Generated /\ maxProfiles \in Nat \ {0} /\ Shapes \subseteq SUBSET {"specs", "toolOffsets"}

VARIABLES profiles, activeProfile,
          created,     \* history: keys in use that createProfile() made
          given        \* history: keys whose profile an import or an update gave

profileVars == <<profiles, activeProfile, created, given>>

Keys == Generated \cup {"default"}
PartsOfProfile == {"specs", "toolOffsets"}
NoProfile == [id |-> "none", has |-> {}, area |-> 0, toolOffsets |-> <<>>]
Profile(id, has, area) == [id |-> id, has |-> has, area |-> area, toolOffsets |-> <<>>]
Has(k) == profiles[k] # NoProfile
Kept == {k \in Keys : Has(k)}
DefaultArea == 5

ProfileInit ==
  /\ profiles = [k \in Keys |-> IF k = "default" THEN Profile("default", PartsOfProfile, DefaultArea) ELSE NoProfile]
  /\ activeProfile = "default" /\ created = {} /\ given = {}

\* An area of 0 is none, and the default one is taken.
CreateProfile(k, area) ==
  /\ k \in Generated /\ ~Has(k) /\ Cardinality(Kept) < maxProfiles
  /\ profiles' = [profiles EXCEPT ![k] = Profile(k, PartsOfProfile, IF area = 0 THEN DefaultArea ELSE area)]
  /\ created' = created \cup {k} /\ given' = given \ {k} /\ UNCHANGED activeProfile

\* Object.assign: also the id and the area as they are given; a part may be taken away.
UpdateProfile(k, id, has, area) ==
  /\ Has(k) /\ given' = given \cup {k}
  /\ profiles' = [profiles EXCEPT ![k] =
       [id |-> id, has |-> has, area |-> area,
        toolOffsets |-> IF "toolOffsets" \in has THEN @.toolOffsets ELSE <<>>]]
  /\ UNCHANGED <<activeProfile, created>>

\* Mutant of the next action: the active profile is not given up.
DeleteProfileStaying(k) ==
  /\ k # "default" /\ Has(k) /\ profiles' = [profiles EXCEPT ![k] = NoProfile]
  /\ created' = created \ {k} /\ given' = given \ {k} /\ UNCHANGED activeProfile

DeleteProfile(k) ==
  /\ k # "default" /\ Has(k) /\ profiles' = [profiles EXCEPT ![k] = NoProfile]
  /\ activeProfile' = IF activeProfile = k THEN "default" ELSE activeProfile
  /\ created' = created \ {k} /\ given' = given \ {k}

SetActiveProfile(k) ==
  /\ Has(k) /\ activeProfile' = k /\ UNCHANGED <<profiles, created, given>>

\* Over a profile of that id, the default and the active one included; no bound is asked,
\* and no part but an id and a name.
ImportProfile(id, has, area) ==
  /\ profiles' = [profiles EXCEPT ![id] = Profile(id, has, area)]
  /\ created' = created \ {id} /\ given' = given \cup {id} /\ UNCHANGED activeProfile

\* exportProfile() and importProfile(): the profile comes back under its own id.
ImportExported(k) ==
  /\ Has(k) /\ profiles' = [profiles EXCEPT ![profiles[k].id] = profiles[k]]
  /\ created' = created \ {profiles[k].id} /\ given' = given \cup {profiles[k].id}
  /\ UNCHANGED activeProfile

\* An id may be added again; each offset is told from the others by its number.
AddToolOffset(k, tool) ==
  /\ Has(k) /\ "toolOffsets" \in profiles[k].has /\ Len(profiles[k].toolOffsets) < MaxOffsets
  /\ profiles' = [profiles EXCEPT ![k].toolOffsets =
       Append(@, [tool |-> tool, number |-> IF @ = <<>> THEN 1 ELSE Last(@).number + 1])]
  /\ \A i \in DOMAIN profiles[k].toolOffsets : profiles[k].toolOffsets[i].number < MaxOffsets
  /\ UNCHANGED <<activeProfile, created, given>>

Offsets(k, tool) == {i \in DOMAIN profiles[k].toolOffsets : profiles[k].toolOffsets[i].tool = tool}
\* The first one, which getToolOffset() answers with too.
ToolOffset(k, tool) == CHOOSE i \in Offsets(k, tool) : \A j \in Offsets(k, tool) : i <= j

RemoveToolOffset(k, tool) ==
  /\ Has(k) /\ Offsets(k, tool) # {}
  /\ profiles' = [profiles EXCEPT ![k].toolOffsets = RemoveAt(@, ToolOffset(k, tool))]
  /\ UNCHANGED <<activeProfile, created, given>>

ProfileNext ==
  \E k \in Keys :
    \/ DeleteProfile(k) \/ SetActiveProfile(k) \/ ImportExported(k)
    \/ \E area \in Areas : CreateProfile(k, area)
    \/ \E has \in Shapes, area \in Areas :
         ImportProfile(k, has, area) \/ \E id \in Keys : UpdateProfile(k, id, has, area)
    \/ \E tool \in OffsetTools : AddToolOffset(k, tool) \/ RemoveToolOffset(k, tool)


----------------------------------------------------------------------------
\* listProfiles() shows the own ids, and marks as active those equal to the active key.
ListedActive == {k \in Kept : profiles[k].id = activeProfile}

ListProfiles == [k \in Kept |-> [id |-> profiles[k].id, active |-> k \in ListedActive]]
GetActiveProfile == profiles[activeProfile]
ToolOffsetOf(k, tool) == profiles[k].toolOffsets[ToolOffset(k, tool)]
Answers(k) == profiles[k].has   \* the parts it can be asked for
ValidBounds(k, position) == position \in 0..profiles[k].area
Stats == [totalProfiles |-> Cardinality(Kept), activeProfile |-> activeProfile, profiles |-> ListProfiles]

ProfileTyped ==
  /\ activeProfile \in Keys /\ created \subseteq Generated /\ given \subseteq Keys
  /\ \A k \in Keys : profiles[k].id \in Keys \cup {"none"} /\ Len(profiles[k].toolOffsets) <= MaxOffsets

\* Whatever is created, updated, imported and deleted: there is a default and an active
\* profile, which can be asked for its bounds and offsets unless an import or an update
\* gave it without; created ones stay within the bound, the list marks the active one and
\* no other unless an update changed an id, and offsets are looked up and removed oldest
\* first.
ProfilesHold ==
  /\ Has("default") /\ GetActiveProfile # NoProfile
  /\ \A k \in {"default", activeProfile} \ given :
       Answers(k) = PartsOfProfile /\ \E position \in 0..DefaultArea : ValidBounds(k, position)
  /\ Stats.totalProfiles <= maxProfiles + Cardinality(Kept \ created)
  /\ Cardinality(created) < maxProfiles
  /\ {k \in DOMAIN Stats.profiles : Stats.profiles[k].active} # {Stats.activeProfile} => \E k \in Kept : profiles[k].id # k
  /\ \A k \in Kept, tool \in OffsetTools :
       /\ \A i, j \in DOMAIN profiles[k].toolOffsets :
            i < j => profiles[k].toolOffsets[i].number < profiles[k].toolOffsets[j].number
       /\ Offsets(k, tool) # {} =>
            \A i \in Offsets(k, tool) :
              ToolOffsetOf(k, tool).number <= profiles[k].toolOffsets[i].number

-----------------------------------------------------------------------------
Assumption == ProfileAssumption

\* The two share no state.
vars == <<wearVars, profileVars>>
Init == WearInit /\ ProfileInit
Next ==
  \/ WearNext /\ UNCHANGED profileVars
  \/ ProfileNext /\ UNCHANGED wearVars
Spec == Init /\ [][Next]_vars

TypeOK == WearTyped /\ ProfileTyped
==============================================================================
