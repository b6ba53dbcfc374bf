---------------------------- MODULE UnboundCache ----------------------------
(***************************************************************************)
(* UnboundCache: nothing expires and evictions are not counted.            *)
(***************************************************************************)
EXTENDS MapStore

\* cache_get, cache_get_mut and cache_get_read.
unbound_cache_get(k) ==
    /\ Begin
    /\ \/ k \in Held /\ Hit
       \/ k \notin Held /\ Miss
    /\ UNCHANGED <<store, evictions, pc, key, removed, ledger>>

unbound_cache_set(k) ==
    /\ Begin
    /\ store' = With(k, Never)
    /\ UNCHANGED <<metrics, pc, key, removed, lookups, ledger>>

\* The get-or-set operations, up to the call of the factory.
unbound_cache_get_or_set_with_mut(k) ==
    /\ Begin
    /\ \/ k \in Held /\ Hit /\ UNCHANGED <<pc, key>>
       \/ k \notin Held /\ Miss /\ pc' = "factory" /\ key' = k
    /\ UNCHANGED <<store, evictions, removed, ledger>>

UnboundFactoryReturns ==
    /\ pc = "factory"
    /\ UNCHANGED ops
    /\ store' = With(key, Never)
    /\ Report({})
    /\ UNCHANGED <<clock, settings, metrics, key, lookups, ledger, notified, cut>>

unbound_cache_remove_entry(k) ==
    /\ Begin
    /\ k \in Held
    /\ store' = Without({k})
    /\ Report({store[k]})
    /\ UNCHANGED <<metrics, key, lookups, ledger>>

unbound_cache_clear_with_on_evict ==
    /\ Begin
    /\ store' = Without(Keys)
    /\ Report({store[k] : k \in Held})
    /\ UNCHANGED <<metrics, key, lookups, ledger>>

\* retain calls on_evict from the predicate of HashMap::retain, while the entry
\* is in the map.  `removed` is what the predicate will reject.
unbound_retain(keep) ==
    /\ Begin
    /\ removed' = {store[k] : k \in Held \ keep}
    /\ pc' = IF removed' = {} THEN "idle" ELSE "retain"
    /\ UNCHANGED <<store, metrics, key, lookups, ledger>>

\* on_evict returns and the map drops the entry, or it panics and the entry
\* stays; or `keep` panics on another entry.
RetainStep ==
    /\ pc = "retain"
    /\ \/ \E k \in Held : store[k] \in removed /\
             /\ notified' = notified \cup {store[k].val}
             /\ \/ /\ store' = Without({k})
                   /\ removed' = removed \ {store[k]}
                   /\ pc' = IF removed' = {} THEN "idle" ELSE "retain"
                   /\ UNCHANGED cut
                \/ cut' = cut \cup {store[k].val} /\ Report({}) /\ UNCHANGED store
       \/ Report({}) /\ UNCHANGED <<store, notified, cut>>
    /\ UNCHANGED <<clock, settings, metrics, key, ops, lookups, ledger>>

UnboundNext ==
    \/ \E k \in Keys : unbound_cache_get(k) \/ unbound_cache_set(k) \/ unbound_cache_get_or_set_with_mut(k) \/ unbound_cache_remove_entry(k)
    \/ UnboundFactoryReturns
    \/ unbound_cache_clear_with_on_evict
    \/ \E keep \in SUBSET Keys : unbound_retain(keep)
    \/ RetainStep
=============================================================================
