--------------------------- MODULE ExpiringCache ---------------------------
(***************************************************************************)
(* ExpiringCache: each value says itself whether it has expired, through   *)
(* is_expired of the user's Expires, which may panic.  Where that happens  *)
(* before anything has changed it is a step that does nothing; after the   *)
(* entry has left the map it loses the entry.                              *)
(***************************************************************************)
EXTENDS MapStore

\* The expiries a stored value may carry, an instant already past included.
Expiries == 0..MaxTime \cup {Never}

\* The batch is out of the map and counted before the first callback.
expiring_notify_evicted(entries) ==
    /\ evictions' = evictions + Cardinality(entries)
    /\ Report(entries)

ExpiringTakeOut(gone) ==
    /\ store' = Without(gone)
    /\ expiring_notify_evicted({store[k] : k \in gone})

\* is_expired of an entry that is out of the map panics: it is neither counted
\* nor reported.
Lose == lost' = lost + 1 /\ Report({}) /\ UNCHANGED evictions

\* cache_get and cache_get_mut.
expiring_cache_get(k) ==
    /\ Begin
    /\ \/ Live(k) /\ Hit /\ UNCHANGED <<store, evictions, pc, removed>>
       \/ k \in Held /\ ~Live(k) /\ Miss /\ ExpiringTakeOut({k})
       \/ k \notin Held /\ Miss /\ UNCHANGED <<store, evictions, pc, removed>>
    /\ UNCHANGED <<key, ledger>>

\* cache_get_with_expiry_status: an expired entry is a miss, and stays.
expiring_cache_get_with_expiry_status(k) ==
    /\ Begin
    /\ \/ Live(k) /\ Hit
       \/ ~Live(k) /\ Miss
    /\ UNCHANGED <<store, evictions, pc, key, removed, ledger>>

\* The displaced value is asked whether it has expired when the new one is in.
expiring_cache_set(k, exp) ==
    /\ Begin
    /\ store' = With(k, exp)
    /\ entered' = entered + 1
    /\ \/ k \in Held /\ ~Live(k) /\ expiring_notify_evicted({store[k]}) /\ UNCHANGED <<replaced, lost>>
       \/ Live(k) /\ replaced' = replaced + 1 /\ Report({}) /\ UNCHANGED <<evictions, lost>>
       \/ k \in Held /\ Lose /\ UNCHANGED replaced
       \/ k \notin Held /\ Report({}) /\ UNCHANGED <<evictions, replaced, lost>>
    /\ UNCHANGED <<hits, misses, key, lookups, silent>>

\* The get-or-set operations, fallible and async ones included, up to the call
\* of the factory.  An expired entry stays until the factory has returned.
expiring_cache_get_or_set_with_mut(k) ==
    /\ Begin
    /\ \/ Live(k) /\ Hit /\ UNCHANGED <<pc, key>>
       \/ ~Live(k) /\ Miss /\ pc' = "factory" /\ key' = k
    /\ UNCHANGED <<store, evictions, removed, ledger>>

\* The factory returns: the new value replaces the expired one, which is then
\* counted and reported.
ExpiringFactoryReturns(exp) ==
    /\ pc = "factory"
    /\ UNCHANGED ops
    /\ store' = With(key, exp)
    /\ expiring_notify_evicted({store[k] : k \in Held \cap {key}})
    /\ entered' = entered + 1
    /\ UNCHANGED <<clock, settings, hits, misses, key, lookups, silent, replaced, lost, notified, cut>>

\* The value is asked whether it has expired when it is out of the map.
expiring_cache_remove(k) ==
    /\ Begin
    /\ k \in Held
    /\ \/ ExpiringTakeOut({k}) /\ UNCHANGED lost
       \/ store' = Without({k}) /\ Lose
    /\ UNCHANGED <<hits, misses, key, lookups, entered, silent, replaced>>

expiring_cache_remove_entry(k) ==
    /\ Begin
    /\ k \in Held
    /\ ExpiringTakeOut({k})
    /\ UNCHANGED <<hits, misses, key, lookups, ledger>>

expiring_evict ==
    /\ Begin
    /\ ExpiringTakeOut({k \in Held : ~Live(k)})
    /\ UNCHANGED <<hits, misses, key, lookups, ledger>>

expiring_retain(keep) ==
    /\ Begin
    /\ ExpiringTakeOut({k \in Held : ~Live(k) \/ k \notin keep})
    /\ UNCHANGED <<hits, misses, key, lookups, ledger>>

expiring_cache_clear_with_on_evict ==
    /\ Begin
    /\ ExpiringTakeOut(Held)
    /\ UNCHANGED <<hits, misses, key, lookups, ledger>>

ExpiringNext ==
    \/ \E k \in Keys :
          \/ expiring_cache_get(k) \/ expiring_cache_get_with_expiry_status(k)
          \/ expiring_cache_get_or_set_with_mut(k) \/ expiring_cache_remove(k) \/ expiring_cache_remove_entry(k)
    \/ \E k \in Keys, exp \in Expiries : expiring_cache_set(k, exp)
    \/ \E exp \in Expiries : ExpiringFactoryReturns(exp)
    \/ \E keep \in SUBSET Keys : expiring_retain(keep)
    \/ expiring_evict \/ expiring_cache_clear_with_on_evict
=============================================================================
