----------------------- MODULE ShardedExpiringLruCache -----------------------
(***************************************************************************)
(* ShardedExpiringLruCache: an LruCache per shard of values that say       *)
(* themselves whether they have expired.  is_expired is user code and may  *)
(* panic.  Removals, drains and displaced values are counted under the     *)
(* lock, in the inner store's counter; expired and filtered ones after it. *)
(***************************************************************************)
EXTENDS ShardedLruStore

expiring_lru_build ==
    /\ Bounded
    /\ ttl = 0 /\ refresh = FALSE

ExpiringLruFrame == UNCHANGED <<aside, clock, bounds, settings, silent, zeroed, mixed>>

\* A live entry is promoted, an expired one taken out; or is_expired panics.
expiring_lru_cache_get(t, k) ==
    /\ Begin(t)
    /\ \/ ~Holds(k) /\ Miss(t, k) /\ UNCHANGED <<store, order>>
       \/ Live(k, clock) /\ Hit(t, k) /\ order' = Promoted(k) /\ UNCHANGED store
       \/ /\ Stale(k, clock)
          /\ TakeOut(t, {k}, [NoCall EXCEPT !.op = "get", !.key = k])
          /\ UNCHANGED <<hits, misses>>
       \/ Holds(k) /\ Return(t, 0) /\ UNCHANGED <<store, order, counters>>
    /\ UNCHANGED <<entered, replaced, lost, notified, cut>>
    /\ ExpiringLruFrame

\* cache_get_with_expiry_status removes nothing.
expiring_lru_cache_get_with_expiry_status(t, k) ==
    /\ Begin(t)
    /\ \/ Live(k, clock) /\ hits' = Counted(hits, k, 1) /\ order' = Promoted(k) /\ UNCHANGED misses
       \/ ~Live(k, clock) /\ misses' = Counted(misses, k, 1) /\ UNCHANGED <<hits, order>>
       \/ Holds(k) /\ UNCHANGED <<hits, misses, order>>
    /\ UNCHANGED <<store, evictions, thread, entered, replaced, lost, notified, cut>>
    /\ ExpiringLruFrame

\* The inner set, the question to the displaced value and its count, all under
\* the lock.  A panic of the capacity loop, or of is_expired after it, leaves
\* that value undecided.
expiring_lru_cache_set(t, k, exp) ==
    /\ Begin(t)
    /\ \E outcome \in SetOutcomes(k) :
          LET Inner(extra) == InnerSet(k, [val |-> ops + 1, exp |-> exp], outcome, extra) IN
          \/ ~Holds(k) /\ Inner(0) /\ Return(t, 0) /\ UNCHANGED <<replaced, lost>>
          \/ /\ Live(k, clock) /\ ~outcome.panics
             /\ Inner(0)
             /\ Return(t, store[k].val)
             /\ replaced' = Counted(replaced, k, 1) /\ UNCHANGED lost
          \/ /\ Stale(k, clock) /\ ~outcome.panics
             /\ Inner(1)
             /\ removed' = [removed EXCEPT ![t] = {store[k].val}]
             /\ call' = [call EXCEPT ![t] = [NoCall EXCEPT !.op = "set", !.key = k]]
             /\ Goto(t, "notify")
             /\ UNCHANGED <<ret, replaced, lost>>
          \/ Holds(k) /\ Inner(0) /\ Return(t, 0) /\ lost' = Counted(lost, k, 1) /\ UNCHANGED replaced
    /\ UNCHANGED <<hits, misses>>
    /\ ExpiringLruFrame

\* cache_remove, and cache_remove_entry with cache_delete.
expiring_lru_cache_remove(t, k, op) ==
    /\ Begin(t)
    /\ \/ ~Holds(k) /\ Return(t, 0) /\ UNCHANGED <<store, order, evictions>>
       \/ /\ Holds(k)
          /\ TakeOutCounted(t, {k}, [NoCall EXCEPT !.op = op, !.key = k, !.now = clock,
                                                   !.val = store[k].val, !.exp = store[k].exp], hasher[k])
    /\ UNCHANGED <<hits, misses, entered, replaced, lost, notified, cut>>
    /\ ExpiringLruFrame

ExpiringLruOverdue(t) == {k \in InShard(t) : Expired(store[k], clock)}

expiring_lru_evict(t) == AtShard(t, "evict") /\ Sweep(t, ExpiringLruOverdue(t))

expiring_lru_retain(t) == AtShard(t, "retain") /\ Sweep(t, ExpiringLruOverdue(t) \cup (InShard(t) \ call[t].keep))

expiring_lru_cache_clear_with_on_evict(t) == AtShard(t, "drain") /\ SweepCounted(t, InShard(t))

\* From the first shard to the last.
expiring_lru_deep_clone(t) == StartCopy(t, "deep_clone", EmptyCopy) \/ CloneShard(t)

expiring_lru_copy_from(t) ==
    \/ \E c \in BoundedCopies : StartCopy(t, "copy_from", c)
    \/ AtCopy(t, "copy_from") /\ CopyShard(t, Copied(t, {k \in InShard(t) : Live(k, clock)}))

ExpiringLruNext ==
    \/ \E t \in Threads :
          \/ \E k \in Keys :
                \/ expiring_lru_cache_get(t, k) \/ expiring_lru_cache_get_with_expiry_status(t, k)
                \/ \E exp \in Expiries : expiring_lru_cache_set(t, k, exp)
                \/ \E op \in {"remove", "remove_entry"} : expiring_lru_cache_remove(t, k, op)
          \/ expiring_lru_evict(t) \/ expiring_lru_retain(t) \/ expiring_lru_cache_clear_with_on_evict(t)
    \/ LruCommon
=============================================================================
