------------------------------ MODULE DataSync ------------------------------
(***************************************************************************)
(* Two stores of modules/integration/data-sync-manager.mjs that sync with  *)
(* each other: each calls syncWithRemote() with what the other's store     *)
(* holds. Nothing is awaited: a sync is one step.                          *)
(*                                                                         *)
(* An object value is the set of its fields, so that merging is union; a   *)
(* key without an entry is absent. The change log, the sync states and the *)
(* limits of 1000 versions and 10000 changes are left out.                 *)
(***************************************************************************)
EXTENDS Integers, FiniteSets

CONSTANTS Replicas,   \* two
          Keys, Fields,
          Strategies,
          MaxTime, MaxVersion   \* bounds

ASSUME StoresAssumption ==
  /\ \E p, q \in Replicas : p # q /\ Replicas = {p, q}
  /\ Strategies \subseteq {"LAST_WRITE_WINS", "FIRST_WRITE_WINS", "MERGE", "MANUAL"}
  /\ MaxTime \in Nat \ {0} /\ MaxVersion \in Nat

VARIABLES store,      \* replica -> key -> entry, or Absent
          strategy,   \* options.conflictStrategy of both
          history,    \* replica -> key -> what its past versions hold
          conflicts,  \* replica -> key -> an unresolved conflict is recorded
          now,        \* Date.now()
          synced,     \* history: the replicas that synced since the last write
          tie         \* history: different values with one timestamp were met

storesVars == <<store, strategy, history, conflicts, now, synced, tie>>

Object(fields) == [kind |-> "object", fields |-> fields]
Undefined == [kind |-> "undefined", fields |-> {}]
Absent == [value |-> Undefined, timestamp |-> 0, version |-> 0]
Data == [Keys -> [value : {Undefined} \cup {Object(f) : f \in SUBSET (Fields \cup {"entry"})},
                  timestamp : 0..MaxTime, version : 0..MaxVersion]]
Peer(r) == CHOOSE q \in Replicas : q # r

StoresInit ==
  /\ store = [r \in Replicas |-> [k \in Keys |-> Absent]]
  /\ strategy \in Strategies
  /\ history = [r \in Replicas |-> [k \in Keys |-> {}]]
  /\ conflicts = [r \in Replicas |-> {}]
  /\ now = 1 /\ synced = {} /\ tie = FALSE

\* set(): a new version, stamped with the present time.
Entry(old, value) == [value |-> value, timestamp |-> now, version |-> old.version + 1]

\* The version history keeps the old entry, not its value.
Kept(old) == IF old = Absent THEN Undefined ELSE Object({"entry"})

Write(r, k, value) ==
  /\ store[r][k].version < MaxVersion
  /\ store' = [store EXCEPT ![r][k] = Entry(@, value)]
  /\ history' = [history EXCEPT ![r][k] = @ \cup {Kept(store[r][k])}]
  /\ synced' = {}
  /\ UNCHANGED <<strategy, now, tie>>

SetKey(r, k) ==
  /\ \E f \in Fields : Write(r, k, Object({f}))
  /\ UNCHANGED conflicts

Rollback(r, k) ==
  /\ \E old \in history[r][k] : Write(r, k, old)
  /\ UNCHANGED conflicts

ResolveConflictManually(r, k) ==
  /\ k \in conflicts[r]
  /\ \E f \in Fields : Write(r, k, Object({f}))
  /\ conflicts' = [conflicts EXCEPT ![r] = @ \ {k}]

\* delete() leaves no trace in the store.
Delete(r, k) ==
  /\ store[r][k] # Absent
  /\ store' = [store EXCEPT ![r][k] = Absent]
  /\ synced' = {}
  /\ UNCHANGED <<strategy, history, conflicts, now, tie>>

Newer(local, remote) == IF local.timestamp > remote.timestamp THEN local.value ELSE remote.value
Older(local, remote) == IF local.timestamp < remote.timestamp THEN local.value ELSE remote.value

\* _resolveConflict(); a strategy it does not know resolves nothing.
Resolved(local, remote) ==
  CASE strategy = "LAST_WRITE_WINS"  -> Newer(local, remote)
    [] strategy = "FIRST_WRITE_WINS" -> Older(local, remote)
    [] strategy = "MERGE" ->
         IF local.value.kind = "object" /\ remote.value.kind = "object"
         THEN Object(local.value.fields \cup remote.value.fields)
         ELSE Newer(local, remote)

Unresolved(local, remote) ==
  /\ local # Absent /\ remote # Absent
  /\ local.timestamp # remote.timestamp /\ local.version = remote.version
  /\ local.value # remote.value
  /\ strategy = "MANUAL"

\* Mutant of the next operator: what is not newer is no conflict.
MergedIfNewer(local, remote) ==
  IF remote = Absent \/ local.timestamp >= remote.timestamp THEN local
  ELSE IF local = Absent THEN Entry(local, remote.value)
  ELSE IF Unresolved(local, remote) THEN local
  ELSE Entry(local, IF local.version = remote.version /\ local.value # remote.value
                    THEN Resolved(local, remote) ELSE remote.value)

\* What syncWithRemote() makes of one key.
Merged(local, remote) ==
  IF remote = Absent THEN local
  ELSE IF local = Absent THEN Entry(local, remote.value)
  ELSE IF local.timestamp = remote.timestamp \/ Unresolved(local, remote) THEN local
  ELSE IF local.version = remote.version
       THEN Entry(local, IF local.value = remote.value THEN remote.value ELSE Resolved(local, remote))
  ELSE IF remote.timestamp > local.timestamp THEN Entry(local, remote.value)
  ELSE local

SyncWithRemote(r, data) ==
  /\ \A k \in Keys : store[r][k].version < MaxVersion
  /\ store' = [store EXCEPT ![r] = [k \in Keys |-> Merged(@[k], data[k])]]
  /\ history' = [history EXCEPT ![r] =
       [k \in Keys |-> IF store'[r][k] # store[r][k] THEN @[k] \cup {Kept(store[r][k])} ELSE @[k]]]
  /\ conflicts' = [conflicts EXCEPT ![r] = @ \cup {k \in Keys : Unresolved(store[r][k], data[k])}]
  /\ synced' = synced \cup {r}
  /\ tie' = (tie \/ \E k \in Keys : /\ store[r][k].timestamp = data[k].timestamp
                                    /\ store[r][k].value # data[k].value)
  /\ UNCHANGED <<strategy, now>>

Tick ==
  /\ now < MaxTime /\ now' = now + 1
  /\ UNCHANGED <<store, strategy, history, conflicts, synced, tie>>

\* The bounds are reached: reads change nothing.
Read == UNCHANGED storesVars

StoresNext ==
  \/ \E r \in Replicas, k \in Keys :
       SetKey(r, k) \/ Rollback(r, k) \/ ResolveConflictManually(r, k) \/ Delete(r, k)
  \/ \E r \in Replicas : SyncWithRemote(r, store[Peer(r)])
  \/ Tick \/ Read

StoresSpec == StoresInit /\ [][StoresNext]_storesVars

\* What a store tells of itself.  The checksum sums over its entries, whatever
\* their order.
Get(r, k) == store[r][k].value
VersionHistory(r, k) == history[r][k]
ComputeChecksum(r) == {<<k, Get(r, k)>> : k \in {x \in Keys : store[r][x] # Absent}}
ChecksumThrows(r) == \E k \in Keys : store[r][k] # Absent /\ Get(r, k) = Undefined
Statistics(r) == [totalKeys |-> Cardinality(ComputeChecksum(r)), unresolvedConflicts |-> Cardinality(conflicts[r])]

----------------------------------------------------------------------------
StoresTyped ==
  /\ store \in [Replicas -> Data]
  /\ strategy \in Strategies /\ now \in 1..MaxTime /\ tie \in BOOLEAN
  /\ \A r \in Replicas : conflicts[r] \subseteq Keys
  /\ synced \subseteq Replicas

\* Once each store has taken in the other's data, with no write in between, both
\* hold the same values and tell the same checksum, whatever writes and deletions
\* went before: the merged entries, stamped anew, win on the way back.  Only
\* writes of one millisecond never meet, and conflicts left to somebody.  What
\* is rolled back to is an entry of the history or the time before the first
\* write, whose undefined value computeChecksum() throws at, and at nothing else.
SyncedStoresAgree ==
  /\ synced = Replicas /\ ~tie /\ strategy # "MANUAL" =>
       \A r \in Replicas :
         /\ \A k \in Keys : Get(r, k) = Get(Peer(r), k)
         /\ ComputeChecksum(r) = ComputeChecksum(Peer(r))
         /\ Statistics(r).totalKeys = Statistics(Peer(r)).totalKeys
  /\ \A r \in Replicas, k \in Keys : VersionHistory(r, k) \subseteq {Undefined, Object({"entry"})}
  /\ \A r \in Replicas : ChecksumThrows(r) =>
       \E k \in Keys : Get(r, k) = Undefined /\ Undefined \in VersionHistory(r, k)
=============================================================================
