--------------------------- MODULE ShardedLruCache ---------------------------
(* ShardedLruCache: an LruCache per shard, which counts the evictions itself. *)
EXTENDS ShardedLruStore

lru_build ==
    /\ Bounded
    /\ ttl = 0 /\ refresh = FALSE

LruFrame == UNCHANGED <<aside, clock, bounds, settings, silent, lost, zeroed, mixed>>

lru_cache_get(t, k) ==
    /\ Begin(t)
    /\ \/ Holds(k) /\ Hit(t, k) /\ order' = Promoted(k)
       \/ ~Holds(k) /\ Miss(t, k) /\ UNCHANGED order
    /\ UNCHANGED <<store, entered, replaced, notified, cut>>
    /\ LruFrame

lru_cache_set(t, k) ==
    /\ Begin(t)
    /\ \E outcome \in SetOutcomes(k) :
          /\ InnerSet(k, [val |-> ops + 1, exp |-> Never], outcome, 0)
          /\ \/ Holds(k) /\ replaced' = Counted(replaced, k, 1)
             \/ ~Holds(k) /\ UNCHANGED replaced
          /\ Return(t, IF Holds(k) /\ ~outcome.panics THEN store[k].val ELSE 0)
    /\ UNCHANGED <<hits, misses>>
    /\ LruFrame

\* cache_remove, cache_remove_entry and cache_delete.
lru_cache_remove_entry(t, k) ==
    /\ Begin(t)
    /\ \/ ~Holds(k) /\ Return(t, 0) /\ UNCHANGED <<store, order, evictions>>
       \/ /\ Holds(k)
          /\ TakeOutCounted(t, {k}, [NoCall EXCEPT !.op = "remove_entry", !.key = k, !.val = store[k].val],
                            hasher[k])
    /\ UNCHANGED <<hits, misses, entered, replaced, notified, cut>>
    /\ LruFrame

lru_retain(t) == AtShard(t, "retain") /\ SweepCounted(t, InShard(t) \ call[t].keep)

lru_cache_clear_with_on_evict(t) == AtShard(t, "drain") /\ SweepCounted(t, InShard(t))

\* From the first shard to the last.
lru_deep_clone(t) == StartCopy(t, "deep_clone", EmptyCopy) \/ CloneShard(t)

lru_copy_from(t) ==
    \/ \E c \in BoundedCopies : StartCopy(t, "copy_from", c)
    \/ AtCopy(t, "copy_from") /\ CopyShard(t, Copied(t, InShard(t)))

LruNext ==
    \/ \E t \in Threads :
          \/ \E k \in Keys : lru_cache_get(t, k) \/ lru_cache_set(t, k) \/ lru_cache_remove_entry(t, k)
          \/ lru_retain(t) \/ lru_cache_clear_with_on_evict(t)
    \/ LruCommon
=============================================================================
