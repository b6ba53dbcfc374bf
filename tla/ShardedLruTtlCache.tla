------------------------- MODULE ShardedLruTtlCache -------------------------
(***************************************************************************)
(* ShardedLruTtlCache: an LruCache of expiring entries per shard.  A call  *)
(* samples the clock, and a get the refresh flag, before it waits for the  *)
(* shard's lock.                                                           *)
(***************************************************************************)
EXTENDS ShardedLruStore

lru_ttl_build ==
    /\ Bounded
    /\ ttl \in Ttls \ {0} /\ refresh \in BOOLEAN

LruTtlFrame == UNCHANGED <<aside, clock, bounds, settings, silent, zeroed, mixed>>

\* The TTL is loaded when this is called.
lru_ttl_compute_expires_at(now) == IF ttl = 0 THEN Never ELSE now + ttl

\* A hit under refresh_on_hit renews the entry; an unset TTL keeps its expiry.
LruTtlRenewed(k, now) ==
    [store EXCEPT ![k] = [val |-> store[k].val,
                          exp |-> IF ttl = 0 THEN store[k].exp ELSE lru_ttl_compute_expires_at(now)]]

\* cache_get and cache_get_with_expiry_status, up to the lock.
StartGet(t, k, op) ==
    /\ Begin(t)
    /\ Enter(t, "look", [NoCall EXCEPT !.op = op, !.key = k, !.now = clock, !.refresh = refresh])
    /\ UNCHANGED <<store, order, counters, entered, replaced, lost, notified, cut>>
    /\ LruTtlFrame

\* A live entry is promoted and perhaps renewed, an expired one taken out.
lru_ttl_cache_get(t) ==
    /\ pc[t] = "look" /\ call[t].op = "get"
    /\ LET k == call[t].key
           now == call[t].now IN
          \/ ~Holds(k) /\ Miss(t, k) /\ UNCHANGED <<store, order>>
          \/ /\ Live(k, now) /\ Hit(t, k)
             /\ order' = Promoted(k)
             /\ store' = IF call[t].refresh THEN LruTtlRenewed(k, now) ELSE store
          \/ Stale(k, now) /\ TakeOut(t, {k}, call[t]) /\ UNCHANGED <<hits, misses>>
    /\ UNCHANGED <<ops, entered, replaced, lost, notified, cut>>
    /\ LruTtlFrame

\* cache_get_with_expiry_status removes nothing and leaves an expired entry
\* where it is in the order.
lru_ttl_cache_get_with_expiry_status(t) ==
    /\ pc[t] = "look" /\ call[t].op = "status"
    /\ LET k == call[t].key
           now == call[t].now IN
          \/ /\ Live(k, now)
             /\ hits' = Counted(hits, k, 1)
             /\ order' = Promoted(k)
             /\ store' = IF call[t].refresh THEN LruTtlRenewed(k, now) ELSE store
             /\ UNCHANGED misses
          \/ ~Live(k, now) /\ misses' = Counted(misses, k, 1) /\ UNCHANGED <<hits, store, order>>
    /\ Return(t, 0)
    /\ UNCHANGED <<evictions, ops, entered, replaced, lost, notified, cut>>
    /\ LruTtlFrame

\* cache_set, up to the lock.
lru_ttl_cache_set(t, k) ==
    /\ Begin(t)
    /\ Enter(t, "write", [NoCall EXCEPT !.op = "set", !.key = k, !.now = clock,
                                        !.val = ops + 1, !.exp = lru_ttl_compute_expires_at(clock)])
    /\ UNCHANGED <<store, order, counters, entered, replaced, lost, notified, cut>>
    /\ LruTtlFrame

\* The inner set.  When a callback of its capacity loop panics, an expired entry
\* it displaced is not counted any more.
LruTtlSetWrite(t) ==
    /\ pc[t] = "write"
    /\ LET k == call[t].key
           now == call[t].now IN
       \E outcome \in SetOutcomes(k) :
          /\ InnerSet(k, [val |-> call[t].val, exp |-> call[t].exp], outcome, 0)
          /\ \/ ~Holds(k) /\ Return(t, 0) /\ UNCHANGED <<replaced, lost>>
             \/ /\ Live(k, now)
                /\ replaced' = Counted(replaced, k, 1)
                /\ Return(t, IF outcome.panics THEN 0 ELSE store[k].val)
                /\ UNCHANGED lost
             \/ Stale(k, now) /\ outcome.panics /\ Return(t, 0) /\ lost' = Counted(lost, k, 1) /\ UNCHANGED replaced
             \/ /\ Stale(k, now) /\ ~outcome.panics
                /\ Goto(t, "count")
                /\ removed' = [removed EXCEPT ![t] = {store[k].val}]
                /\ UNCHANGED <<call, ret, replaced, lost>>
    /\ UNCHANGED <<hits, misses, ops>>
    /\ LruTtlFrame

\* cache_remove, and cache_remove_entry with cache_delete.  `now` is the time
\* of the removal, which the code does not sample.
lru_ttl_cache_remove(t, k, op) ==
    /\ Begin(t)
    /\ \/ ~Holds(k) /\ Return(t, 0) /\ UNCHANGED <<store, order, evictions>>
       \/ /\ Holds(k)
          /\ TakeOut(t, {k}, [NoCall EXCEPT !.op = op, !.key = k, !.now = clock,
                                            !.val = store[k].val, !.exp = store[k].exp])
    /\ UNCHANGED <<hits, misses, entered, replaced, lost, notified, cut>>
    /\ LruTtlFrame

LruTtlOverdue(t) == {k \in InShard(t) : Expired(store[k], call[t].now)}

lru_ttl_evict(t) == AtShard(t, "evict") /\ Sweep(t, LruTtlOverdue(t))

lru_ttl_retain(t) == AtShard(t, "retain") /\ Sweep(t, LruTtlOverdue(t) \cup (InShard(t) \ call[t].keep))

lru_ttl_cache_clear_with_on_evict(t) == AtShard(t, "drain") /\ Sweep(t, InShard(t))

\* From the first shard to the last.
lru_ttl_deep_clone(t) == StartCopy(t, "deep_clone", EmptyCopy) \/ CloneShard(t)

\* The clock is read once, before the first shard; the entries keep their
\* deadlines in a store with its own TTL.  Its refresh flag, which nothing reads
\* before the copy is complete, is left off.
copy_from_lru_ttl(t) ==
    \/ \E c \in BoundedCopies, d \in Ttls \ {0} :
          StartCopy(t, "copy_from", [c EXCEPT !.ttl = d])
    \/ AtCopy(t, "copy_from") /\ CopyShard(t, Copied(t, {k \in InShard(t) : Live(k, call[t].now)}))

LruTtlNext ==
    \/ \E t \in Threads :
          \/ \E k \in Keys :
                \/ \E op \in {"get", "status"} : StartGet(t, k, op)
                \/ lru_ttl_cache_set(t, k)
                \/ \E op \in {"remove", "remove_entry"} : lru_ttl_cache_remove(t, k, op)
          \/ lru_ttl_cache_get(t) \/ lru_ttl_cache_get_with_expiry_status(t) \/ LruTtlSetWrite(t)
          \/ lru_ttl_evict(t) \/ lru_ttl_retain(t) \/ lru_ttl_cache_clear_with_on_evict(t)
    \/ LruCommon
=============================================================================
