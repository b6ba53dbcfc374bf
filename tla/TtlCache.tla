------------------------------ MODULE TtlCache ------------------------------
(***************************************************************************)
(* TtlCache: one TTL for the store, an expiry instant for each entry.      *)
(***************************************************************************)
EXTENDS MapStore

\* now.checked_add(ttl), with None as Never.
ttl_checked_add(now, d) == IF now + d > EndOfTime THEN Never ELSE now + d

ttl_compute_expires_at(now) == IF ttl = 0 THEN Never ELSE ttl_checked_add(now, ttl)

\* A refresh while expiry is disabled keeps the deadline the entry has.
ttl_refreshed_expires_at(now, current) == IF ttl = 0 THEN current ELSE ttl_checked_add(now, ttl)

\* A hit renews the deadline if the cache refreshes on hits.
Touched(k) ==
    IF refresh THEN [store EXCEPT ![k] =
                        [val |-> store[k].val, exp |-> ttl_refreshed_expires_at(clock, store[k].exp)]]
    ELSE store

\* Mutant: a batch is counted as one entry.
CountOnce(entries) ==
    /\ evictions' = evictions + (IF entries = {} THEN 0 ELSE 1)
    /\ Report(entries)

\* The batch is out of the map and counted before the first callback.
ttl_notify_evicted(entries) ==
    /\ evictions' = evictions + Cardinality(entries)
    /\ Report(entries)

\* Mutant: the entries are reported from inside the scan.
TakeOutLater(gone) ==
    /\ ttl_notify_evicted({store[k] : k \in gone})
    /\ UNCHANGED store

TtlTakeOut(gone) ==
    /\ store' = Without(gone)
    /\ ttl_notify_evicted({store[k] : k \in gone})

\* cache_get and cache_get_mut.
ttl_cache_get(k) ==
    /\ Begin
    /\ \/ Live(k) /\ Hit /\ store' = Touched(k) /\ UNCHANGED <<evictions, pc, removed>>
       \/ k \in Held /\ ~Live(k) /\ Miss /\ TtlTakeOut({k})
       \/ k \notin Held /\ Miss /\ UNCHANGED <<store, evictions, pc, removed>>
    /\ UNCHANGED <<key, ledger>>

\* cache_get_with_expiry_status: an expired entry is a miss, and stays.
ttl_cache_get_with_expiry_status(k) ==
    /\ Begin
    /\ \/ Live(k) /\ Hit /\ store' = Touched(k)
       \/ ~Live(k) /\ Miss /\ UNCHANGED store
    /\ UNCHANGED <<evictions, pc, key, removed, ledger>>

\* The entry goes in, with the expiry of `now`.  A displaced one that is live is
\* handed back, one that has expired is counted and reported.
ttl_set_entry(k, now) ==
    /\ store' = With(k, ttl_compute_expires_at(now))
    /\ entered' = entered + 1
    /\ \/ k \in Held /\ ~Live(k) /\ ttl_notify_evicted({store[k]}) /\ UNCHANGED replaced
       \/ Live(k) /\ replaced' = replaced + 1 /\ Report({}) /\ UNCHANGED evictions
       \/ k \notin Held /\ Report({}) /\ UNCHANGED <<evictions, replaced>>
    /\ UNCHANGED <<silent, lost>>

ttl_cache_set(k) ==
    /\ Begin
    /\ ttl_set_entry(k, clock)
    /\ UNCHANGED <<hits, misses, key, lookups>>

\* Mutant: the miss is counted when the factory has returned.
ttl_get_or_set_counts_late(k) ==
    /\ Begin
    /\ \/ /\ Live(k) /\ Hit /\ store' = Touched(k)
          /\ UNCHANGED <<pc, key>>
       \/ /\ ~Live(k)
          /\ lookups' = lookups + 1
          /\ pc' = "factory" /\ key' = k
          /\ UNCHANGED <<store, hits, misses>>
    /\ UNCHANGED <<evictions, removed, ledger>>

\* The get-or-set operations, fallible and async ones included, up to the call
\* of the factory.  An expired entry stays until the factory has returned.
ttl_cache_get_or_set_with_mut(k) ==
    /\ Begin
    /\ \/ /\ Live(k) /\ Hit /\ store' = Touched(k)
          /\ UNCHANGED <<pc, key>>
       \/ /\ ~Live(k) /\ Miss
          /\ pc' = "factory" /\ key' = k
          /\ UNCHANGED store
    /\ UNCHANGED <<evictions, removed, ledger>>

\* Mutant: the lifetime is counted from the lookup, one instant ago.
FactoryAnchorsEarly ==
    /\ pc = "factory" /\ clock > 0
    /\ UNCHANGED ops
    /\ ttl_set_entry(key, clock - 1)
    /\ UNCHANGED <<clock, settings, hits, misses, key, lookups, notified, cut>>

\* The factory returns: the lifetime counts from now.
TtlFactoryReturns ==
    /\ pc = "factory"
    /\ UNCHANGED ops
    /\ ttl_set_entry(key, clock)
    /\ UNCHANGED <<clock, settings, hits, misses, key, lookups, notified, cut>>

\* cache_remove and cache_remove_entry; liveness only decides what is returned.
ttl_cache_remove(k) ==
    /\ Begin
    /\ k \in Held
    /\ TtlTakeOut({k})
    /\ UNCHANGED <<hits, misses, key, lookups, ledger>>

ttl_evict ==
    /\ Begin
    /\ TtlTakeOut({k \in Held : ~Live(k)})
    /\ UNCHANGED <<hits, misses, key, lookups, ledger>>

\* retain; a predicate that panics leaves the cache untouched.
ttl_retain(keep) ==
    /\ Begin
    /\ TtlTakeOut({k \in Held : ~Live(k) \/ k \notin keep})
    /\ UNCHANGED <<hits, misses, key, lookups, ledger>>

ttl_cache_clear_with_on_evict ==
    /\ Begin
    /\ TtlTakeOut(Held)
    /\ UNCHANGED <<hits, misses, key, lookups, ledger>>

\* set_ttl (zero disables expiry), unset_ttl and set_refresh_on_hit.
ttl_set_ttl ==
    /\ pc = "idle" /\ ops < MaxOps /\ ops' = ops + 1
    /\ ttl' \in Ttls /\ refresh' \in BOOLEAN
    /\ UNCHANGED <<kind, clock, store, metrics, pc, key, removed, lookups, ledger, notified, cut>>

TtlNext ==
    \/ \E k \in Keys :
          \/ ttl_cache_get(k) \/ ttl_cache_get_with_expiry_status(k) \/ ttl_cache_set(k)
          \/ ttl_cache_get_or_set_with_mut(k) \/ ttl_cache_remove(k)
    \/ TtlFactoryReturns
    \/ \E keep \in SUBSET Keys : ttl_retain(keep)
    \/ ttl_evict \/ ttl_cache_clear_with_on_evict \/ ttl_set_ttl
=============================================================================
