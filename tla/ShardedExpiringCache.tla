------------------------ MODULE ShardedExpiringCache ------------------------
(***************************************************************************)
(* ShardedExpiringCache: the values say themselves whether they have       *)
(* expired, when they are asked.  is_expired is user code and may panic.   *)
(***************************************************************************)
EXTENDS ShardedStore

expiring_build ==
    /\ capacity = [s \in ShardIds |-> 0] /\ total_capacity = 0
    /\ ttl = 0 /\ refresh = FALSE

ExpiringFrame == UNCHANGED <<aside, clock, bounds, settings, silent, zeroed, notified, shrinks>>

\* is_expired panics before anything is changed or counted.
AskPanics(t) == Return(t, 0) /\ UNCHANGED <<store, order, counters>>

\* The look under the read lock.
expiring_cache_get(t, k) ==
    /\ Begin(t)
    /\ \/ Live(k, clock) /\ Hit(t, k)
       \/ ~Holds(k) /\ Miss(t, k)
       \/ Stale(k, clock) /\ Enter(t, "recheck", [NoCall EXCEPT !.op = "get", !.key = k]) /\ UNCHANGED counters
       \/ Holds(k) /\ Return(t, 0) /\ UNCHANGED counters
    /\ UNCHANGED <<store, order, entered, replaced, lost>>
    /\ ExpiringFrame

\* The second look, under the write lock.
ExpiringRecheck(t) ==
    /\ pc[t] = "recheck"
    /\ LET k == call[t].key IN
          \/ ~Holds(k) /\ Miss(t, k) /\ UNCHANGED <<store, order>>
          \/ Live(k, clock) /\ Hit(t, k) /\ UNCHANGED <<store, order>>
          \/ Stale(k, clock) /\ TakeOut(t, {k}, call[t]) /\ UNCHANGED <<hits, misses>>
          \/ Holds(k) /\ AskPanics(t)
    /\ UNCHANGED <<ops, entered, replaced, lost>>
    /\ ExpiringFrame

\* cache_get_with_expiry_status: counts and removes nothing.
expiring_cache_get_with_expiry_status(t, k) ==
    /\ Begin(t)
    /\ \/ Live(k, clock) /\ hits' = Counted(hits, k, 1) /\ UNCHANGED misses
       \/ ~Live(k, clock) /\ misses' = Counted(misses, k, 1) /\ UNCHANGED hits
       \/ Holds(k) /\ UNCHANGED <<hits, misses>>
    /\ UNCHANGED <<store, order, evictions, thread, entered, replaced, lost>>
    /\ ExpiringFrame

\* The swap, and the question to the displaced value under the same lock.
expiring_cache_set(t, k, exp) ==
    /\ Begin(t)
    /\ store' = [store EXCEPT ![k] = [val |-> ops + 1, exp |-> exp]]
    /\ entered' = Counted(entered, k, 1)
    /\ \/ ~Holds(k) /\ Return(t, 0) /\ UNCHANGED <<replaced, lost>>
       \/ Live(k, clock) /\ Return(t, store[k].val) /\ replaced' = Counted(replaced, k, 1) /\ UNCHANGED lost
       \/ /\ Stale(k, clock)
          /\ removed' = [removed EXCEPT ![t] = {store[k].val}]
          /\ call' = [call EXCEPT ![t] = [NoCall EXCEPT !.op = "set", !.key = k]]
          /\ Goto(t, "count")
          /\ UNCHANGED <<ret, replaced, lost>>
       \/ Holds(k) /\ Return(t, 0) /\ lost' = Counted(lost, k, 1) /\ UNCHANGED replaced
    /\ UNCHANGED <<order, counters>>
    /\ ExpiringFrame

\* cache_remove, and cache_remove_entry with cache_delete.
expiring_cache_remove(t, k, op) ==
    /\ Begin(t)
    /\ \/ ~Holds(k) /\ Return(t, 0) /\ UNCHANGED <<store, order, evictions>>
       \/ /\ Holds(k)
          /\ TakeOut(t, {k}, [NoCall EXCEPT !.op = op, !.key = k, !.now = clock,
                                            !.val = store[k].val, !.exp = store[k].exp])
    /\ UNCHANGED <<hits, misses, entered, replaced, lost>>
    /\ ExpiringFrame

ExpiringOverdue(t) == {k \in InShard(t) : Expired(store[k], clock)}

expiring_evict(t) == AtShard(t, "evict") /\ Sweep(t, ExpiringOverdue(t))

expiring_retain(t) == AtShard(t, "retain") /\ Sweep(t, ExpiringOverdue(t) \cup (InShard(t) \ call[t].keep))

expiring_cache_clear_with_on_evict(t) == AtShard(t, "drain") /\ Sweep(t, InShard(t))

\* From the first shard to the last.
expiring_deep_clone(t) == StartCopy(t, "deep_clone", EmptyCopy) \/ CloneShard(t)

expiring_copy_from(t) ==
    \/ \E h \in Hashers : StartCopy(t, "copy_from", [EmptyCopy EXCEPT !.hasher = h])
    \/ AtCopy(t, "copy_from") /\ CopyShard(t, WithEntries({k \in InShard(t) : Live(k, clock)}))

ExpiringNext ==
    \E t \in Threads :
       \/ \E k \in Keys :
             \/ expiring_cache_get(t, k) \/ expiring_cache_get_with_expiry_status(t, k)
             \/ \E exp \in Expiries : expiring_cache_set(t, k, exp)
             \/ \E op \in {"remove", "remove_entry"} : expiring_cache_remove(t, k, op)
       \/ ExpiringRecheck(t) \/ expiring_evict(t) \/ expiring_retain(t) \/ expiring_cache_clear_with_on_evict(t)
=============================================================================
