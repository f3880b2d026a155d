------------------------------ MODULE PlanCache ------------------------------
(***************************************************************************)
(* PlanCache of llm/plan_cache.py, with a capacity: a dict whose insertion  *)
(* order is the order of eviction.  Counters of an entry, which nothing in  *)
(* the repository reads, are left out, and so is the mode without capacity, *)
(* which no builder uses.                                                   *)
(***************************************************************************)
EXTENDS Naturals, SequencesExt

CONSTANT CacheCapacity

ASSUME CapacityAssumption == CacheCapacity \in Nat \ {0}

\* order: the keys, next to be evicted first.
EmptyCache == [order |-> <<>>, entry |-> <<>>]

Cached(cache) == DOMAIN cache.entry
Live(cache, key) == key \in Cached(cache) /\ ~cache.entry[key].stale

\* Mutant: only a store moves a key.
Touched_Never(order, key) == order
Touched(order, key) ==
  LET at == CHOOSE i \in DOMAIN order : order[i] = key
  IN  Append(RemoveAt(order, at), key)

\* get: to find an entry is to use it.
Got(cache, key) == [cache EXCEPT !.order = Touched(@, key)]

\* _enforce_size_invariant.
Trimmed(cache) ==
  LET excess == IF Len(cache.order) > CacheCapacity THEN Len(cache.order) - CacheCapacity ELSE 0
      evicted == ToSet(SubSeq(cache.order, 1, excess))
  IN  [order |-> SubSeq(cache.order, excess + 1, Len(cache.order)),
       entry |-> [k \in Cached(cache) \ evicted |-> cache.entry[k]]]

\* put: a key that is there keeps its place.
Put(cache, key, plan) ==
  Trimmed([order |-> IF key \in Cached(cache) THEN cache.order ELSE Append(cache.order, key),
           entry |-> [k \in Cached(cache) \cup {key} |->
                        IF k = key THEN [plan |-> plan, stale |-> FALSE] ELSE cache.entry[k]]])

Refreshed(cache, key, plan) ==
  [order |-> Touched(cache.order, key),
   entry |-> [cache.entry EXCEPT ![key] = [plan |-> plan, stale |-> FALSE]]]

MarkedStale(cache, key) ==
  [order |-> cache.order, entry |-> [cache.entry EXCEPT ![key].stale = TRUE]]
=============================================================================
