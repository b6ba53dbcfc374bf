--------------------------- MODULE ShardedTtlCache ---------------------------
(***************************************************************************)
(* ShardedTtlCache: one expiry instant per entry.  A call reads the clock  *)
(* once, where that happens under the lock or, in cache_set, before it.    *)
(***************************************************************************)
EXTENDS ShardedStore

ttl_build ==
    /\ capacity = [s \in ShardIds |-> 0] /\ total_capacity = 0
    /\ ttl \in Ttls \ {0} /\ refresh \in BOOLEAN

TtlFrame == UNCHANGED <<aside, clock, bounds, settings, silent, lost, zeroed, notified, shrinks>>

\* compute_expires_at; the TTL is loaded when it is called.
ttl_compute_expires_at(now) == IF ttl = 0 THEN Never ELSE now + ttl

\* A hit under refresh_on_hit renews the entry; an unset TTL keeps its expiry.
TtlRenewed(k, now) ==
    [store EXCEPT ![k] = [val |-> store[k].val,
                          exp |-> IF ttl = 0 THEN store[k].exp ELSE ttl_compute_expires_at(now)]]

\* cache_get: one look under the write lock if it may renew the entry, else a
\* look under the read lock, and a second one if the entry has expired.  The
\* clock is read under the lock, the flag just before it.
ttl_cache_get(t, k) ==
    /\ Begin(t)
    /\ LET c == [NoCall EXCEPT !.op = "get", !.key = k, !.now = clock] IN
          \/ ~Holds(k) /\ Miss(t, k) /\ UNCHANGED <<store, order>>
          \/ /\ Live(k, clock) /\ Hit(t, k)
             /\ store' = IF refresh THEN TtlRenewed(k, clock) ELSE store
             /\ UNCHANGED order
          \/ Stale(k, clock) /\ refresh /\ TakeOut(t, {k}, c) /\ UNCHANGED <<hits, misses>>
          \/ Stale(k, clock) /\ ~refresh /\ Enter(t, "recheck", c) /\ UNCHANGED <<store, order, counters>>
    /\ UNCHANGED <<entered, replaced>>
    /\ TtlFrame

\* Mutant: the expired entry is taken out without a second look.
RecheckNothing(t) ==
    /\ pc[t] = "recheck"
    /\ LET k == call[t].key IN
          \/ ~Holds(k) /\ Miss(t, k) /\ UNCHANGED <<store, order>>
          \/ Holds(k) /\ TakeOut(t, {k}, call[t]) /\ UNCHANGED <<hits, misses>>
    /\ UNCHANGED <<ops, entered, replaced>>
    /\ TtlFrame

\* The second look, under the write lock, judges by the instant of the first.
TtlRecheck(t) ==
    /\ pc[t] = "recheck"
    /\ LET k == call[t].key IN
          \/ ~Holds(k) /\ Miss(t, k) /\ UNCHANGED <<store, order>>
          \/ Live(k, call[t].now) /\ Hit(t, k) /\ UNCHANGED <<store, order>>
          \/ Stale(k, call[t].now) /\ TakeOut(t, {k}, call[t]) /\ UNCHANGED <<hits, misses>>
    /\ UNCHANGED <<ops, entered, replaced>>
    /\ TtlFrame

\* cache_get_with_expiry_status counts, may renew, and removes nothing.  It
\* hands out an expired value as one, so it returns no value here.
ttl_cache_get_with_expiry_status(t, k) ==
    /\ Begin(t)
    /\ \/ /\ Live(k, clock)
          /\ hits' = Counted(hits, k, 1)
          /\ store' = IF refresh THEN TtlRenewed(k, clock) ELSE store
          /\ UNCHANGED misses
       \/ ~Live(k, clock) /\ misses' = Counted(misses, k, 1) /\ UNCHANGED <<hits, store>>
    /\ UNCHANGED <<order, evictions, thread, entered, replaced>>
    /\ TtlFrame

\* cache_set stamps the new entry before it waits for the lock.
ttl_cache_set(t, k) ==
    /\ Begin(t)
    /\ Enter(t, "write", [NoCall EXCEPT !.op = "set", !.key = k, !.now = clock,
                                        !.val = ops + 1, !.exp = ttl_compute_expires_at(clock)])
    /\ UNCHANGED <<store, order, counters, entered, replaced>>
    /\ TtlFrame

\* The swap.  A displaced entry that had expired is reported, a live one is
\* handed back.
TtlSetWrite(t) ==
    /\ pc[t] = "write"
    /\ LET c == call[t] IN
          /\ store' = [store EXCEPT ![c.key] = [val |-> c.val, exp |-> c.exp]]
          /\ \/ /\ Stale(c.key, c.now)
                /\ Goto(t, "count")
                /\ removed' = [removed EXCEPT ![t] = {store[c.key].val}]
                /\ UNCHANGED <<call, ret, replaced>>
             \/ Live(c.key, c.now) /\ Return(t, store[c.key].val) /\ replaced' = Counted(replaced, c.key, 1)
             \/ ~Holds(c.key) /\ Return(t, 0) /\ UNCHANGED replaced
    /\ entered' = Counted(entered, call[t].key, 1)
    /\ UNCHANGED <<order, counters, ops>>
    /\ TtlFrame

\* cache_remove, and cache_remove_entry with cache_delete.  `now` is the time
\* of the removal, which the code does not sample.
ttl_cache_remove(t, k, op) ==
    /\ Begin(t)
    /\ \/ ~Holds(k) /\ Return(t, 0) /\ UNCHANGED <<store, order, evictions>>
       \/ /\ Holds(k)
          /\ TakeOut(t, {k}, [NoCall EXCEPT !.op = op, !.key = k, !.now = clock,
                                            !.val = store[k].val, !.exp = store[k].exp])
    /\ UNCHANGED <<hits, misses, entered, replaced>>
    /\ TtlFrame

TtlOverdue(t) == {k \in InShard(t) : Expired(store[k], call[t].now)}

ttl_evict(t) == AtShard(t, "evict") /\ Sweep(t, TtlOverdue(t))

ttl_retain(t) == AtShard(t, "retain") /\ Sweep(t, TtlOverdue(t) \cup (InShard(t) \ call[t].keep))

ttl_cache_clear_with_on_evict(t) == AtShard(t, "drain") /\ Sweep(t, InShard(t))

\* From the first shard to the last.
ttl_deep_clone(t) == StartCopy(t, "deep_clone", EmptyCopy) \/ CloneShard(t)

\* Into a store with its own TTL; the entries keep their deadlines.  Its refresh
\* flag, which nothing reads before the copy is complete, is left off.
ttl_copy_from(t) ==
    \/ \E h \in Hashers, d \in Ttls \ {0} :
          StartCopy(t, "copy_from", [EmptyCopy EXCEPT !.hasher = h, !.ttl = d])
    \/ AtCopy(t, "copy_from") /\ CopyShard(t, WithEntries({k \in InShard(t) : Live(k, clock)}))

TtlNext ==
    \E t \in Threads :
       \/ \E k \in Keys :
             \/ ttl_cache_get(t, k) \/ ttl_cache_get_with_expiry_status(t, k) \/ ttl_cache_set(t, k)
             \/ \E op \in {"remove", "remove_entry"} : ttl_cache_remove(t, k, op)
       \/ TtlRecheck(t) \/ TtlSetWrite(t) \/ ttl_evict(t) \/ ttl_retain(t) \/ ttl_cache_clear_with_on_evict(t)
=============================================================================
