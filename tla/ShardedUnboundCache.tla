------------------------- MODULE ShardedUnboundCache -------------------------
(* ShardedUnboundCache: no expiry, no bound and no eviction counter. *)
EXTENDS ShardedStore

unbound_build ==
    /\ capacity = [s \in ShardIds |-> 0] /\ total_capacity = 0
    /\ ttl = 0 /\ refresh = FALSE

UnboundFrame == UNCHANGED <<aside, clock, bounds, settings, silent, lost, zeroed, notified, shrinks>>

unbound_cache_get(t, k) ==
    /\ Begin(t)
    /\ \/ Holds(k) /\ Hit(t, k)
       \/ ~Holds(k) /\ Miss(t, k)
    /\ UNCHANGED <<store, order, entered, replaced>>
    /\ UnboundFrame

unbound_cache_set(t, k) ==
    /\ Begin(t)
    /\ store' = [store EXCEPT ![k] = [val |-> ops + 1, exp |-> Never]]
    /\ entered' = Counted(entered, k, 1)
    /\ \/ Holds(k) /\ replaced' = Counted(replaced, k, 1) /\ Return(t, store[k].val)
       \/ ~Holds(k) /\ Return(t, 0) /\ UNCHANGED replaced
    /\ UNCHANGED <<order, counters>>
    /\ UnboundFrame

\* cache_remove, cache_remove_entry and cache_delete.
unbound_cache_remove_entry(t, k) ==
    /\ Begin(t)
    /\ \/ ~Holds(k) /\ Return(t, 0) /\ UNCHANGED <<store, order, evictions>>
       \/ /\ Holds(k)
          /\ TakeOutUncounted(t, {k}, [NoCall EXCEPT !.op = "remove_entry", !.key = k, !.val = store[k].val])
    /\ UNCHANGED <<hits, misses, entered, replaced>>
    /\ UnboundFrame

unbound_retain(t) == AtShard(t, "retain") /\ SweepUncounted(t, InShard(t) \ call[t].keep)

unbound_cache_clear_with_on_evict(t) == AtShard(t, "drain") /\ SweepUncounted(t, InShard(t))

\* From the first shard to the last.
unbound_deep_clone(t) == StartCopy(t, "deep_clone", EmptyCopy) \/ CloneShard(t)

unbound_copy_from(t) ==
    \/ \E h \in Hashers : StartCopy(t, "copy_from", [EmptyCopy EXCEPT !.hasher = h])
    \/ AtCopy(t, "copy_from") /\ CopyShard(t, WithEntries(InShard(t)))

UnboundNext ==
    \E t \in Threads :
       \/ \E k \in Keys : unbound_cache_get(t, k) \/ unbound_cache_set(t, k) \/ unbound_cache_remove_entry(t, k)
       \/ unbound_retain(t) \/ unbound_cache_clear_with_on_evict(t)
=============================================================================
