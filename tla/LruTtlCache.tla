----------------------------- MODULE LruTtlCache -----------------------------
(***************************************************************************)
(* LruTtlCache: an LruCache whose entries carry an expiry instant.         *)
(***************************************************************************)
EXTENDS BoundedStore

\* Instant::checked_add, with None as Never.
lru_ttl_checked_add(now, d) == IF now + d > EndOfTime THEN Never ELSE now + d

lru_ttl_compute_expires_at(d, now) == IF d = 0 THEN Never ELSE lru_ttl_checked_add(now, d)

\* Mutant: compute_expires_at(ttl, now).or(current).
lru_ttl_refreshed_or_current(d, now, current) ==
    IF lru_ttl_compute_expires_at(d, now) = Never THEN current ELSE lru_ttl_compute_expires_at(d, now)

\* A refresh with expiry disabled keeps the deadline the entry has.
lru_ttl_refreshed_expires_at(d, now, current) == IF d = 0 THEN current ELSE lru_ttl_checked_add(now, d)

\* A live entry goes to the front, renewed if the cache refreshes on hits.
Touch(k) ==
    store' = Fronted(k, IF refresh THEN lru_ttl_refreshed_expires_at(ttl, clock, EntryOf(k).exp)
                        ELSE EntryOf(k).exp)

\* Entries leave, counted by the wrapper before on_evict hears of them.
LruTtlRemove(gone) ==
    /\ store' = Without(gone)
    /\ evictions' = evictions + Cardinality(gone)

\* cache_get and cache_get_mut.
lru_ttl_cache_get(k) ==
    /\ Begin
    /\ \/ Live(k) /\ Hit /\ Touch(k) /\ UNCHANGED evictions
       \/ k \in Held /\ ~Live(k) /\ Miss /\ LruTtlRemove({k})
       \/ k \notin Held /\ Miss /\ UNCHANGED <<store, evictions>>
    /\ UNCHANGED <<settings, store_evictions, progress, ledger>>

\* cache_get_with_expiry_status: an expired entry is a miss, and stays.
lru_ttl_cache_get_with_expiry_status(k) ==
    /\ Begin
    /\ \/ Live(k) /\ Hit /\ Touch(k)
       \/ ~Live(k) /\ Miss /\ UNCHANGED store
    /\ UNCHANGED <<settings, store_evictions, evictions, progress, ledger>>

\* cache_set up to check_capacity.  set_entry learns of the entry it displaced
\* only when the inner store returns, and judges it by the time it began.
lru_ttl_cache_set(k) ==
    /\ Begin
    /\ store' = Fronted(k, lru_ttl_compute_expires_at(ttl, clock))
    /\ entered' = entered + 1
    /\ replaced' = IF Live(k) THEN replaced + 1 ELSE replaced
    /\ displaced' = IF k \in Held /\ ~Live(k) THEN EntryOf(k).exp ELSE Absent
    /\ pc' = "check"
    /\ UNCHANGED <<settings, metrics, silent, lost, resizing, short>>

\* The cache_get_or_set_with family.  The miss is counted when the factory is
\* called; the factory may then give no value, and an expired entry stays.  The
\* capacity is checked for a new key only.
lru_ttl_cache_get_or_set_with(k) ==
    /\ Begin
    /\ \/ /\ Live(k) /\ Hit /\ Touch(k)
          /\ UNCHANGED <<evictions, pc, entered>>
       \/ /\ ~Live(k) /\ Miss
          /\ UNCHANGED <<store, evictions, pc, entered>>
       \/ /\ k \in Held /\ ~Live(k) /\ Miss
          /\ store' = Fronted(k, lru_ttl_compute_expires_at(ttl, clock))
          /\ entered' = entered + 1
          /\ evictions' = evictions + 1
          /\ UNCHANGED pc
       \/ /\ k \notin Held /\ Miss
          /\ store' = Fronted(k, lru_ttl_compute_expires_at(ttl, clock))
          /\ entered' = entered + 1
          /\ pc' = "check"
          /\ UNCHANGED evictions
    /\ UNCHANGED <<settings, store_evictions, displaced, silent, replaced, lost, resizing, short>>

\* Mutant: the second copy of the bound is left behind.
CheckedKeepsSize ==
    /\ pc = "check" /\ Len(store) <= capacity
    /\ pc' = "idle" /\ displaced' = Absent /\ resizing' = FALSE
    /\ evictions' = IF displaced # Absent THEN evictions + 1 ELSE evictions
    /\ UNCHANGED <<clock, store, settings, hits, misses, store_evictions, ops, ledger, short>>

\* The inner store returns: set_entry counts the expired entry it displaced, or
\* set_max_size copies the new bound.
LruTtlChecked ==
    /\ pc = "check" /\ Len(store) <= capacity
    /\ pc' = "idle" /\ displaced' = Absent /\ resizing' = FALSE
    /\ evictions' = IF displaced # Absent THEN evictions + 1 ELSE evictions
    /\ size' = IF resizing THEN capacity ELSE size
    /\ UNCHANGED <<clock, store, kind, capacity, ttl, refresh, hits, misses, store_evictions,
                   ops, ledger, short>>

\* set_max_size and try_set_max_size.
lru_ttl_set_max_size(n) == SetMaxSize(n)

\* evict and retain: doomed_indices, then remove_and_notify.  A predicate that
\* panics leaves all as it was.  evict keeps every key that is live.
lru_ttl_retain(keep) ==
    /\ Begin
    /\ LruTtlRemove({k \in Held : ~Live(k) \/ k \notin keep})
    /\ UNCHANGED <<settings, hits, misses, store_evictions, progress, ledger>>

\* cache_remove and cache_remove_entry.
lru_ttl_cache_remove(k) ==
    /\ Begin
    /\ LruTtlRemove({k} \cap Held)
    /\ UNCHANGED <<settings, hits, misses, store_evictions, progress, ledger>>

lru_ttl_cache_clear_with_on_evict ==
    /\ Begin
    /\ LruTtlRemove(Held)
    /\ UNCHANGED <<settings, hits, misses, store_evictions, progress, ledger>>

\* set_ttl, unset_ttl and set_refresh_on_hit.
Configure ==
    /\ Begin
    /\ ttl' \in Ttls /\ refresh' \in BOOLEAN
    /\ UNCHANGED <<kind, store, capacity, size, metrics, progress, ledger>>

LruTtlNext ==
    \/ \E k \in Keys :
          \/ lru_ttl_cache_get(k) \/ lru_ttl_cache_get_with_expiry_status(k) \/ lru_ttl_cache_set(k)
          \/ lru_ttl_cache_get_or_set_with(k) \/ lru_ttl_cache_remove(k)
    \/ LruTtlChecked
    \/ \E n \in 0..MaxSize : lru_ttl_set_max_size(n)
    \/ \E keep \in SUBSET Keys : lru_ttl_retain(keep)
    \/ lru_ttl_cache_clear_with_on_evict
    \/ Configure
=============================================================================
