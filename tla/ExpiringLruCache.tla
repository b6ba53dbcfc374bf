-------------------------- MODULE ExpiringLruCache --------------------------
(***************************************************************************)
(* ExpiringLruCache: an LruCache whose values say themselves whether they  *)
(* have expired, through is_expired of the user's Expires, which may       *)
(* panic.  Where that happens before anything has changed it is a step     *)
(* that does nothing; after the entry has left the store it loses it.      *)
(***************************************************************************)
EXTENDS BoundedStore

\* The expiries a stored value may carry, an instant already past included.
Expiries == 0..MaxTime \cup {Never}

\* Entries leave, counted by the wrapper before on_evict hears of them.
ExpiringLruRemove(gone) ==
    /\ store' = Without(gone)
    /\ evictions' = evictions + Cardinality(gone)

\* cache_get and cache_get_mut.
expiring_lru_cache_get(k) ==
    /\ Begin
    /\ \/ Live(k) /\ Hit /\ store' = Fronted(k, EntryOf(k).exp) /\ UNCHANGED evictions
       \/ k \in Held /\ ~Live(k) /\ Miss /\ ExpiringLruRemove({k})
       \/ k \notin Held /\ Miss /\ UNCHANGED <<store, evictions>>
    /\ UNCHANGED <<settings, store_evictions, progress, ledger>>

\* cache_get_with_expiry_status: an expired entry is a miss, and stays.
expiring_lru_cache_get_with_expiry_status(k) ==
    /\ Begin
    /\ \/ Live(k) /\ Hit /\ store' = Fronted(k, EntryOf(k).exp)
       \/ ~Live(k) /\ Miss /\ UNCHANGED store
    /\ UNCHANGED <<settings, store_evictions, evictions, progress, ledger>>

\* cache_set up to check_capacity.
expiring_lru_cache_set(k, exp) ==
    /\ Begin
    /\ store' = Fronted(k, exp)
    /\ entered' = entered + 1
    /\ displaced' = IF k \in Held THEN EntryOf(k).exp ELSE Absent
    /\ pc' = "check"
    /\ UNCHANGED <<settings, metrics, silent, replaced, lost, resizing, short>>

\* The inner store returns.  The displaced value is asked only now whether it
\* has expired: it is counted, handed back, or lost to a panic.
ExpiringLruChecked ==
    /\ pc = "check" /\ Len(store) <= capacity
    /\ pc' = "idle" /\ displaced' = Absent /\ resizing' = FALSE
    /\ \/ displaced = Absent /\ UNCHANGED <<evictions, replaced, lost>>
       \/ /\ displaced # Absent /\ ~LiveUntil(displaced)
          /\ evictions' = evictions + 1
          /\ UNCHANGED <<replaced, lost>>
       \/ /\ displaced # Absent /\ LiveUntil(displaced)
          /\ replaced' = replaced + 1
          /\ UNCHANGED <<evictions, lost>>
       \/ /\ displaced # Absent
          /\ lost' = lost + 1
          /\ UNCHANGED <<evictions, replaced>>
    /\ UNCHANGED <<clock, store, settings, hits, misses, store_evictions, ops,
                   entered, silent, short>>

\* The get-or-set operations.  The miss is counted when the factory is called;
\* the factory may then give no value, and an expired entry stays.  The
\* capacity is checked for a new key only.
expiring_lru_cache_get_or_set_with_mut(k, exp) ==
    /\ Begin
    /\ \/ /\ Live(k) /\ Hit /\ store' = Fronted(k, EntryOf(k).exp)
          /\ UNCHANGED <<evictions, pc, entered>>
       \/ /\ ~Live(k) /\ Miss
          /\ UNCHANGED <<store, evictions, pc, entered>>
       \/ /\ k \in Held /\ ~Live(k) /\ Miss
          /\ store' = Fronted(k, exp)
          /\ entered' = entered + 1
          /\ evictions' = evictions + 1
          /\ UNCHANGED pc
       \/ /\ k \notin Held /\ Miss
          /\ store' = Fronted(k, exp)
          /\ entered' = entered + 1
          /\ pc' = "check"
          /\ UNCHANGED evictions
    /\ UNCHANGED <<settings, store_evictions, displaced, silent, replaced, lost, resizing, short>>

\* The value is asked whether it has expired when it is out of the store.
expiring_lru_cache_remove(k) ==
    /\ Begin
    /\ k \in Held
    /\ \/ ExpiringLruRemove({k}) /\ UNCHANGED lost
       \/ store' = Without({k}) /\ lost' = lost + 1 /\ UNCHANGED evictions
    /\ UNCHANGED <<settings, hits, misses, store_evictions, progress, entered, silent, replaced>>

expiring_lru_cache_remove_entry(k) ==
    /\ Begin
    /\ k \in Held
    /\ ExpiringLruRemove({k})
    /\ UNCHANGED <<settings, hits, misses, store_evictions, progress, ledger>>

\* set_max_size and try_set_max_size.
expiring_lru_set_max_size(n) == SetMaxSize(n)

\* evict and retain: doomed_indices, then remove_and_notify.  evict keeps every
\* key that is live.
expiring_lru_retain(keep) ==
    /\ Begin
    /\ ExpiringLruRemove({k \in Held : ~Live(k) \/ k \notin keep})
    /\ UNCHANGED <<settings, hits, misses, store_evictions, progress, ledger>>

expiring_lru_cache_clear_with_on_evict ==
    /\ Begin
    /\ ExpiringLruRemove(Held)
    /\ UNCHANGED <<settings, hits, misses, store_evictions, progress, ledger>>

ExpiringLruNext ==
    \/ \E k \in Keys :
          \/ expiring_lru_cache_get(k) \/ expiring_lru_cache_get_with_expiry_status(k)
          \/ expiring_lru_cache_remove(k) \/ expiring_lru_cache_remove_entry(k)
          \/ \E exp \in Expiries : expiring_lru_cache_set(k, exp) \/ expiring_lru_cache_get_or_set_with_mut(k, exp)
    \/ ExpiringLruChecked
    \/ \E n \in 0..MaxSize : expiring_lru_set_max_size(n)
    \/ \E keep \in SUBSET Keys : expiring_lru_retain(keep)
    \/ expiring_lru_cache_clear_with_on_evict
=============================================================================
