------------------------------- MODULE Fleet -------------------------------
(***************************************************************************)
(* The machines of modules/cloud/fleet-management.mjs and the jobs it      *)
(* allocates to the least loaded one.  Every call is a step.               *)
(*                                                                         *)
(* Names, places, processing power and maintenance records are left out.   *)
(* A missing estimatedDuration is the duration 0; the other figures are    *)
(* there and are numbers.                                                  *)
(***************************************************************************)
EXTENDS Integers, Sequences, FiniteSets, SequencesExt, FiniteSetsExt

CONSTANTS Fleets, Machines, Jobs,
          Capacities,           \* that a registration may give
          maxMachinesPerFleet,
          Loads,                \* what a heartbeat may report
          Required, Durations,  \* of a job
          MaxDebt               \* bound: of a load below 0

Assumption == Capacities \subseteq Nat /\ maxMachinesPerFleet \in Nat \ {0}

VARIABLES machines,      \* the keys of the Map, in the order of registration
          fleetOf, status, capacity, currentLoad,
          members,       \* fleet -> its list of machines
          totalCapacity, \* fleet -> the capacity it has added up
          allocations,   \* machine -> jobs allocated to it
          reported,      \* history: machine -> load of its last heartbeat
          resized        \* history: the machines registered with different capacities

vars == <<machines, fleetOf, status, capacity, currentLoad, members, totalCapacity, allocations, reported, resized>>

Init ==
  /\ machines = <<>>
  /\ fleetOf = [m \in Machines |-> CHOOSE f \in Fleets : TRUE]
  /\ status = [m \in Machines |-> "OFFLINE"]
  /\ capacity = [m \in Machines |-> 0] /\ currentLoad = [m \in Machines |-> 0]
  /\ members = [f \in Fleets |-> <<>>]
  /\ totalCapacity = [f \in Fleets |-> 0]
  /\ allocations = [m \in Machines |-> <<>>]
  /\ reported = [m \in Machines |-> 0] /\ resized = {}

Registered(m) == Contains(machines, m)

\* A second registration replaces the machine, its capacity included, and lists it twice.
RegisterMachine(m, f, c) ==
  /\ Len(members[f]) < maxMachinesPerFleet
  /\ machines' = IF Registered(m) THEN machines ELSE Append(machines, m)
  /\ fleetOf' = [fleetOf EXCEPT ![m] = f]
  /\ status' = [status EXCEPT ![m] = "OFFLINE"]
  /\ capacity' = [capacity EXCEPT ![m] = c] /\ currentLoad' = [currentLoad EXCEPT ![m] = 0]
  /\ members' = [members EXCEPT ![f] = Append(@, m)]
  /\ totalCapacity' = [totalCapacity EXCEPT ![f] = @ + c]
  /\ reported' = [reported EXCEPT ![m] = 0]
  /\ resized' = IF Registered(m) /\ c # capacity[m] THEN resized \cup {m} ELSE resized
  /\ UNCHANGED allocations

\* The machine's own figure replaces what was allocated to it.  healthy: its CPU and
\* memory are below maxResourceUtilization.
ReportHeartbeat(m, load, healthy) ==
  /\ Registered(m)
  /\ status' = [status EXCEPT ![m] = IF healthy THEN "ONLINE" ELSE "DEGRADED"]
  /\ currentLoad' = [currentLoad EXCEPT ![m] = load]
  /\ reported' = [reported EXCEPT ![m] = load]
  /\ UNCHANGED <<machines, fleetOf, capacity, members, totalCapacity, allocations, resized>>

\* Only OFFLINE is skipped: not DEGRADED nor MAINTENANCE_SCHEDULED, nor a machine
\* whose heartbeat is machineTimeoutMs old.
Candidates(fleet, required) ==
  {i \in DOMAIN machines :
     LET m == machines[i]
     IN /\ status[m] # "OFFLINE" /\ fleet \in {fleetOf[m], "any"}
        /\ currentLoad[m] + required <= capacity[m]}

LeastLoaded(candidates) ==
  CHOOSE i \in candidates : \A j \in candidates :
    \/ currentLoad[machines[i]] < currentLoad[machines[j]]
    \/ currentLoad[machines[i]] = currentLoad[machines[j]] /\ i <= j

\* Mutant of the next action: the capacity that is checked is the load before.
AllocateJobUnchecked(j, fleet, required, duration) ==
  LET fits == Candidates(fleet, 0)
      m    == machines[LeastLoaded(fits)]
  IN /\ fits # {} /\ Len(allocations[m]) < Cardinality(Jobs)
     /\ currentLoad' = [currentLoad EXCEPT ![m] = @ + required]
     /\ allocations' = [allocations EXCEPT ![m] = Append(@, [job |-> j, duration |-> duration])]
     /\ UNCHANGED <<machines, fleetOf, status, capacity, members, totalCapacity, reported, resized>>

AllocateJob(j, fleet, required, duration) ==
  LET fits == Candidates(fleet, required)
      m    == machines[LeastLoaded(fits)]
  IN /\ fits # {} /\ Len(allocations[m]) < Cardinality(Jobs)
     /\ currentLoad' = [currentLoad EXCEPT ![m] = @ + required]
     /\ allocations' = [allocations EXCEPT ![m] = Append(@, [job |-> j, duration |-> duration])]
     /\ UNCHANGED <<machines, fleetOf, status, capacity, members, totalCapacity, reported, resized>>

\* The load falls by the duration of the job, not by its capacity.
CompleteJob(m, j) ==
  LET i == SelectInSeq(allocations[m], LAMBDA a : a.job = j)
  IN /\ Registered(m) /\ i # 0
     /\ currentLoad[m] - allocations[m][i].duration >= -MaxDebt
     /\ currentLoad' = [currentLoad EXCEPT ![m] = @ - allocations[m][i].duration]
     /\ allocations' = [allocations EXCEPT ![m] = RemoveAt(@, i)]
     /\ UNCHANGED <<machines, fleetOf, status, capacity, members, totalCapacity, reported, resized>>

\* Until the next heartbeat.
ScheduleMaintenance(m) ==
  /\ Registered(m)
  /\ status' = [status EXCEPT ![m] = "MAINTENANCE_SCHEDULED"]
  /\ UNCHANGED <<machines, fleetOf, capacity, currentLoad, members, totalCapacity, allocations, reported, resized>>

Next ==
  \/ \E m \in Machines :
       \/ \E f \in Fleets, c \in Capacities : RegisterMachine(m, f, c)
       \/ \E load \in Loads, healthy \in BOOLEAN : ReportHeartbeat(m, load, healthy)
       \/ \E j \in Jobs : CompleteJob(m, j)
       \/ ScheduleMaintenance(m)
  \/ \E j \in Jobs, fleet \in Fleets \cup {"any"}, required \in Required, duration \in Durations :
       AllocateJob(j, fleet, required, duration)

Spec == Init /\ [][Next]_vars

----------------------------------------------------------------------------
(* What the manager tells.                                                  *)

Total(figure, list) == FoldLeft(LAMBDA sum, m : sum + figure[m], 0, list)

\* getFleetStatus(): a machine that is listed twice counts twice.
FleetStatus(f) == [
  onlineMachines |-> Len(SelectSeq(members[f], LAMBDA m : status[m] = "ONLINE")),
  totalCapacity  |-> Total(capacity, members[f]),
  usedCapacity   |-> Total(currentLoad, members[f])]

\* getStatistics(): over the Map of machines.
Statistics == [
  onlineMachines |-> Cardinality({i \in DOMAIN machines : status[machines[i]] = "ONLINE"}),
  totalCapacity  |-> Total(capacity, machines),
  usedCapacity   |-> Total(currentLoad, machines)]

----------------------------------------------------------------------------
MaxLoad == CHOOSE x \in Loads \cup Capacities : \A y \in Loads \cup Capacities : y <= x

TypeOK ==
  /\ machines \in Seq(Machines) /\ fleetOf \in [Machines -> Fleets]
  /\ status \in [Machines -> {"OFFLINE", "ONLINE", "DEGRADED", "MAINTENANCE_SCHEDULED"}]
  /\ capacity \in [Machines -> Capacities \cup {0}] /\ currentLoad \in [Machines -> (-MaxDebt)..MaxLoad]
  /\ \A m \in Machines : allocations[m] \in Seq([job : Jobs, duration : Durations])
  /\ totalCapacity \in [Fleets -> Nat]
  /\ reported \in [Machines -> Loads \cup {0}] /\ resized \subseteq Machines

\* However heartbeats, allocations, completions and registrations interleave, no
\* allocation takes a machine beyond its capacity of now: its load is above that only
\* when it reported so itself; it has jobs only since it was registered, and each
\* fleet stays within its size and lists the machines that name it, so that what the
\* fleets report together misses no machine.  The capacity a fleet has added up is the
\* one getFleetStatus() sums, unless a machine it lists came back with another one,
\* which is added to the old.
LoadsWithinCapacity ==
  /\ IsInjective(machines)
  /\ \A m \in Machines :
       /\ currentLoad[m] <= capacity[m] \/ currentLoad[m] <= reported[m]
       /\ allocations[m] # <<>> \/ status[m] # "OFFLINE" => Registered(m)
       /\ Registered(m) => Contains(members[fleetOf[m]], m)
  /\ \A f \in Fleets : /\ Len(members[f]) <= maxMachinesPerFleet
                       /\ \/ FleetStatus(f).totalCapacity = totalCapacity[f]
                          \/ ToSet(members[f]) \cap resized # {}
                       /\ \A i \in DOMAIN members[f] : Registered(members[f][i])
  /\ LET Sum(Of(_)) == MapThenSumSet(Of, Fleets)
     IN /\ Sum(LAMBDA f : FleetStatus(f).onlineMachines) >= Statistics.onlineMachines
        /\ Sum(LAMBDA f : FleetStatus(f).totalCapacity) >= Statistics.totalCapacity
=============================================================================
