---------------------------- MODULE CacheManager ----------------------------
(***************************************************************************)
(* The cache of modules/integration/cache-manager.mjs: a Map of entries    *)
(* that expire, kept at maxSize by an eviction policy.                     *)
(*                                                                         *)
(* A call is a step. A key is got or computed without a pause in between.  *)
(* Values, sizes and metadata are left out: deletePattern() and            *)
(* invalidateByMetadata() delete some set of keys.                         *)
(***************************************************************************)
EXTENDS Integers, Sequences, SequencesExt

CONSTANTS Keys,
          maxSize,   \* options.maxSize
          MaxHits    \* bound: hits of an entry

Assumption == maxSize \in Nat \ {0} /\ MaxHits \in Nat

VARIABLES policy,       \* options.evictionPolicy
          cache,        \* the keys of the Map, in its order of insertion
          hits,         \* key -> accessCount of its entry
          expired,      \* keys of entries past their expiresAt
          accessOrder,
          anyExpired    \* history: get() has deleted an expired entry

vars == <<policy, cache, hits, expired, accessOrder, anyExpired>>

Has(key) == Contains(cache, key)
Without(s, keys) == SelectSeq(s, LAMBDA k : k \notin keys)

Init ==
  /\ policy \in {"LRU", "LFU", "FIFO"}
  /\ cache = <<>> /\ accessOrder = <<>>
  /\ hits = [k \in Keys |-> 0]
  /\ expired = {} /\ anyExpired = FALSE

\* Only LRU keeps accessOrder.
Touch(order, key) == IF policy = "LRU" THEN Append(Without(order, {key}), key) ELSE order

\* An expired entry leaves the Map, and its key stays in accessOrder.
GetExpired(key) ==
  /\ key \in expired
  /\ cache' = Without(cache, {key}) /\ expired' = expired \ {key}
  /\ anyExpired' = TRUE
  /\ UNCHANGED <<policy, hits, accessOrder>>

GetHit(key) ==
  /\ Has(key) /\ key \notin expired /\ hits[key] < MaxHits
  /\ hits' = [hits EXCEPT ![key] = @ + 1]
  /\ accessOrder' = Touch(accessOrder, key)
  /\ UNCHANGED <<policy, cache, expired, anyExpired>>

\* The first of the least frequently used, in the order of the Map.
LeastFrequent ==
  CHOOSE k \in ToSet(cache) :
    \A i \in DOMAIN cache :
      \/ hits[cache[i]] > hits[k]
      \/ hits[cache[i]] = hits[k] /\ \E j \in 1..i : cache[j] = k

\* Mutant of the next operator: LFU asks accessOrder, too.
VictimByOrder == IF accessOrder = <<>> THEN {} ELSE {accessOrder[1]}

\* _evict(): the key it settles on, if any.  FIFO finds accessOrder empty.
Victim ==
  IF policy = "LFU" THEN {LeastFrequent}
  ELSE IF accessOrder = <<>> THEN {} ELSE {accessOrder[1]}

Set(key) ==
  LET victim == IF Len(cache) >= maxSize /\ ~Has(key) THEN Victim ELSE {}
  IN /\ cache' = LET left == Without(cache, victim)
                 IN IF Has(key) THEN left ELSE Append(left, key)
     /\ accessOrder' = Touch(Without(accessOrder, victim), key)
     /\ hits' = [k \in Keys |-> IF k \in victim \cup {key} THEN 0 ELSE hits[k]]
     /\ expired' = expired \ (victim \cup {key})
     /\ UNCHANGED <<policy, anyExpired>>

\* getOrCompute(), mget() and mset().
GetOrCompute(key) == GetHit(key) \/ (~Has(key) /\ Set(key))
Mget(keys) == \E key \in keys : GetExpired(key) \/ GetHit(key)
Mset(keys) == \E key \in keys : Set(key)

\* Mutant of the next action: accessOrder is not cleaned up.
DeleteLeavesOrder(keys) ==
  /\ keys # {} /\ keys \subseteq ToSet(cache)
  /\ cache' = Without(cache, keys)
  /\ hits' = [k \in Keys |-> IF k \in keys THEN 0 ELSE hits[k]]
  /\ expired' = expired \ keys
  /\ UNCHANGED <<policy, accessOrder, anyExpired>>

Delete(keys) ==
  /\ keys # {} /\ keys \subseteq ToSet(cache)
  /\ cache' = Without(cache, keys)
  /\ accessOrder' = Without(accessOrder, keys)
  /\ hits' = [k \in Keys |-> IF k \in keys THEN 0 ELSE hits[k]]
  /\ expired' = expired \ keys
  /\ UNCHANGED <<policy, anyExpired>>

DeletePattern(keys) == Delete(keys)
InvalidateByMetadata(keys) == Delete(keys)

Clear ==
  /\ cache' = <<>> /\ accessOrder' = <<>>
  /\ hits' = [k \in Keys |-> 0]
  /\ expired' = {}
  /\ UNCHANGED <<policy, anyExpired>>

\* Date.now() passes an entry's expiresAt.
Expire(key) ==
  /\ Has(key) /\ key \notin expired
  /\ expired' = expired \cup {key}
  /\ UNCHANGED <<policy, cache, hits, accessOrder, anyExpired>>

Next ==
  \/ \E key \in Keys : GetOrCompute(key) \/ Expire(key)
  \/ Mget(Keys) \/ Mset(Keys)
  \/ \E keys \in SUBSET Keys : DeletePattern(keys) \/ InvalidateByMetadata(keys)
  \/ Clear

Spec == Init /\ [][Next]_vars

\* What the cache tells of itself; the expired entries nobody asked for count.
GetKeys(pattern) == SelectSeq(cache, LAMBDA k : k \in pattern)
GetEntry(key) == IF Has(key) THEN [accessCount |-> hits[key]] ELSE [accessCount |-> -1]
Statistics == [currentSize |-> Len(cache), utilizationPercent |-> (100 * Len(cache)) \div maxSize]

----------------------------------------------------------------------------
TypeOK ==
  /\ policy \in {"LRU", "LFU", "FIFO"}
  /\ cache \in Seq(Keys) /\ accessOrder \in Seq(Keys)
  /\ hits \in [Keys -> 0..MaxHits] /\ expired \subseteq ToSet(cache)
  /\ anyExpired \in BOOLEAN

\* accessOrder, which eviction goes by, lists each key once and every cached one.
OrderCoversCache ==
  policy = "LRU" => /\ IsInjective(accessOrder)
                    /\ ToSet(cache) \subseteq ToSet(accessOrder)

\* The cache keeps to maxSize and evicts what it says, LRU until the first
\* entry is found expired, whose key stays in accessOrder to be evicted once
\* more.  FIFO never evicts: only LRU fills the list it takes its victim from.
KeepsItsSize ==
  /\ IsInjective(cache) /\ OrderCoversCache
  /\ ToSet(GetKeys(Keys)) = {k \in Keys : GetEntry(k).accessCount >= 0}
  /\ policy = "LFU" \/ (policy = "LRU" /\ ~anyExpired) =>
       Statistics.currentSize <= maxSize /\ Statistics.utilizationPercent <= 100
=============================================================================
