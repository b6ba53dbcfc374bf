---------------------------- MODULE ShardedStore ----------------------------
(***************************************************************************)
(* What the sharded stores share: a map per shard behind a read-write      *)
(* lock, counters per shard, and calls by several threads.                 *)
(*                                                                         *)
(* What a thread does under a shard's lock is one step.  The counting and  *)
(* the on_evict callbacks that come after the unlock are one step each,    *)
(* and other threads (or the callback, which may use the cache there) run  *)
(* between them.  A callback may panic: the call then ends where it is,    *)
(* and the lock, which has no poisoning, is free again.                    *)
(***************************************************************************)
EXTENDS Naturals, Sequences, FiniteSets, Subsequences

CONSTANTS Threads, Keys,
          Shards,       \* the number of shards
          Hashers,      \* the ways keys may be spread over the shards
          StoreKinds,   \* the stores to be checked
          Absent,       \* no entry
          Ttls,         \* the TTLs configured or set, 0 for no expiry
          Never,        \* the expiry of an entry that does not expire
          MinPerShard,  \* the least capacity set_max_size gives one of many shards
          MaxSize,      \* bound: the capacities asked for
          MaxTime,      \* bound: the clock
          MaxOps        \* bound: the calls of a behaviour

ShardIds == 0..(Shards - 1)

ASSUME ShardedAssumption ==
    /\ Keys # {} /\ IsFiniteSet(Keys)
    /\ Shards \in Nat \ {0} /\ Hashers \subseteq [Keys -> ShardIds]
    /\ Ttls \subseteq Nat /\ MinPerShard \in Nat \ {0}
    /\ MaxSize \in Nat /\ MaxTime \in Nat /\ MaxOps \in Nat
    /\ Never \notin Nat
    /\ Absent \notin [val : Nat, exp : Nat \cup {Never}]

VARIABLES
    kind, hasher,               \* the store and the shard of each key
    clock,
    store,                      \* the maps of all the shards
    order,                      \* an LRU store's keys per shard, most recently used first
    capacity, total_capacity,   \* its bound per shard, and the one it reports
    ttl, refresh,               \* ttl_nanos and refresh
    hits, misses, evictions,    \* per shard; evictions with the inner store's own
    pc,                         \* where each thread is
    call,                       \* the arguments and locals of its call
    copy,                       \* the store that deep_clone or copy_from is filling
    removed,                    \* the values it took out and must report
    ret,                        \* what the last call of the thread returned, 0 for none
    ops,
    entered, silent, replaced,  \* ghosts per shard: entries stored, cleared, overwritten while live
    lost,                       \* ghost per shard: entries that left during a panic, uncounted
    zeroed,                     \* ghost per shard: evictions that a reset erased
    notified,                   \* ghost: the values on_evict was called with
    cut,                        \* ghost: the shards a panic left above their capacity
    mixed                       \* ghost: a resize overlapped another or was cut short

\* What no call on the store itself changes.
aside == <<kind, hasher, copy>>
counters == <<hits, misses, evictions>>
settings == <<ttl, refresh>>
bounds == <<capacity, total_capacity>>
thread == <<pc, call, removed, ret>>
shrinks == <<cut, mixed>>
ledger == <<entered, silent, replaced, lost, zeroed, notified>>
vars == <<aside, clock, store, order, bounds, settings, counters, thread, ops, ledger, shrinks>>

LruKinds == {"Lru", "LruTtl", "ExpiringLru"}
TtlKinds == {"Ttl", "LruTtl"}
ExpiringKinds == {"Expiring", "ExpiringLru"}

\* A call: `now` and `refresh` are what it sampled before it took the lock,
\* `shard` the one a sweep is at, `keep` the keys retain's predicate accepts.
NoCall == [op |-> "none", key |-> CHOOSE k \in Keys : TRUE, now |-> 0, refresh |-> FALSE,
           val |-> 0, exp |-> Never, shard |-> 0, keep |-> {}, size |-> 0]

\* A store without entries.  Its hit and miss counters are left out.
EmptyCopy ==
    [hasher |-> hasher, store |-> [k \in Keys |-> Absent], order |-> [s \in ShardIds |-> <<>>],
     evictions |-> [s \in ShardIds |-> 0], capacity |-> [s \in ShardIds |-> 0],
     total_capacity |-> 0, ttl |-> 0, refresh |-> FALSE]

\* Nobody uses the store.
Unused ==
    /\ kind \in StoreKinds /\ hasher \in Hashers
    /\ clock = 0
    /\ hits = [s \in ShardIds |-> 0] /\ misses = hits /\ evictions = hits
    /\ pc = [t \in Threads |-> "idle"]
    /\ call = [t \in Threads |-> NoCall]
    /\ copy = EmptyCopy
    /\ removed = [t \in Threads |-> {}]
    /\ ret = [t \in Threads |-> 0]
    /\ silent = hits /\ replaced = hits /\ lost = hits /\ zeroed = hits
    /\ notified = {} /\ cut = {} /\ mixed = FALSE

Init ==
    /\ Unused
    /\ store = [k \in Keys |-> Absent]
    /\ order = [s \in ShardIds |-> <<>>]
    /\ entered = [s \in ShardIds |-> 0] /\ ops = 0

-----------------------------------------------------------------------------

\* The expiries a value that says itself when it expires may carry, an instant
\* already past included.
Expiries == 0..MaxTime \cup {Never}

\* An entry is gone at the instant it expires.
Expired(e, now) == e.exp # Never /\ now >= e.exp

Holds(k) == store[k] # Absent

Live(k, now) == Holds(k) /\ ~Expired(store[k], now)

Stale(k, now) == Holds(k) /\ Expired(store[k], now)

Size(s) == Cardinality({k \in Keys : hasher[k] = s /\ Holds(k)})

Begin(t) ==
    /\ pc[t] = "idle"
    /\ ops < MaxOps
    /\ ops' = ops + 1

Goto(t, label) == pc' = [pc EXCEPT ![t] = label]

\* The call of thread t goes on with the arguments c.
Enter(t, label, c) ==
    /\ Goto(t, label)
    /\ call' = [call EXCEPT ![t] = c]
    /\ UNCHANGED <<removed, ret>>

\* The call of thread t ends and returns v.
Return(t, v) ==
    /\ Goto(t, "idle")
    /\ call' = [call EXCEPT ![t] = NoCall]
    /\ removed' = [removed EXCEPT ![t] = {}]
    /\ ret' = [ret EXCEPT ![t] = v]

Counted(f, k, n) == [f EXCEPT ![hasher[k]] = @ + n]

Hit(t, k) ==
    /\ hits' = Counted(hits, k, 1)
    /\ Return(t, store[k].val)
    /\ UNCHANGED <<misses, evictions>>

Miss(t, k) ==
    /\ misses' = Counted(misses, k, 1)
    /\ Return(t, 0)
    /\ UNCHANGED <<hits, evictions>>

\* The maps and the orders without some keys.
Without(keys) ==
    /\ store' = [k \in Keys |-> IF k \in keys THEN Absent ELSE store[k]]
    /\ order' = [s \in ShardIds |-> Pick(order[s], {i \in DOMAIN order[s] : order[s][i] \notin keys})]

\* The key is the most recently used of its shard.
Front(k) ==
    LET ord == order[hasher[k]] IN
    <<k>> \o Pick(ord, {i \in DOMAIN ord : ord[i] # k})

Promoted(k) == IF kind \in LruKinds THEN [order EXCEPT ![hasher[k]] = Front(k)] ELSE order

\* Mutant: the entries stay in the map until they are reported.
TakeNothing(t, keys, c, label) ==
    /\ UNCHANGED <<store, order>>
    /\ removed' = [removed EXCEPT ![t] = {store[k].val : k \in keys}]
    /\ call' = [call EXCEPT ![t] = c]
    /\ Goto(t, label)
    /\ UNCHANGED ret

\* Under the lock, the entries of `keys` leave the map; thread t goes on at
\* `label` to report them.
Take(t, keys, c, label) ==
    /\ Without(keys)
    /\ removed' = [removed EXCEPT ![t] = {store[k].val : k \in keys}]
    /\ call' = [call EXCEPT ![t] = c]
    /\ Goto(t, label)
    /\ UNCHANGED ret

\* They will be counted after the unlock.
TakeOut(t, keys, c) == Take(t, keys, c, "count") /\ UNCHANGED evictions

\* They are counted under the lock, all of them in the shard s.
TakeOutCounted(t, keys, c, s) ==
    /\ Take(t, keys, c, "notify")
    /\ evictions' = [evictions EXCEPT ![s] = @ + Cardinality(keys)]

\* They are not counted.
TakeOutUncounted(t, keys, c) == Take(t, keys, c, "notify") /\ UNCHANGED evictions

-----------------------------------------------------------------------------
(* Calls that visit one shard after the other. *)

SweepOps == {"retain", "drain", "clear", "reset"}
                \cup (IF kind \in TtlKinds \cup ExpiringKinds THEN {"evict"} ELSE {})

\* evict, retain, cache_clear_with_on_evict, clear and cache_reset_metrics.
\* cache_reset is a clear followed by cache_reset_metrics.
StartSweep(t) ==
    /\ Begin(t)
    /\ \E op \in SweepOps, keep \in SUBSET Keys :
          /\ op # "retain" => keep = {}
          /\ Enter(t, "sweep", [NoCall EXCEPT !.op = op, !.now = clock, !.keep = keep])
    /\ UNCHANGED <<aside, clock, store, order, bounds, settings, counters, ledger, shrinks>>

AtShard(t, op) == pc[t] = "sweep" /\ call[t].op = op /\ call[t].shard < Shards

NextShard(t) == [call[t] EXCEPT !.shard = @ + 1]

InShard(t) == {k \in Keys : hasher[k] = call[t].shard /\ Holds(k)}

SweepFrame == UNCHANGED <<aside, clock, bounds, settings, hits, misses, ops, ledger, shrinks>>

\* The shard has nothing to take out.
Skip(t) ==
    /\ Enter(t, "sweep", NextShard(t))
    /\ UNCHANGED <<store, order, evictions>>

\* The doomed entries of the shard, chosen before one of them is removed, leave
\* it, and are counted after the unlock.
Sweep(t, doomed) ==
    /\ \/ doomed = {} /\ Skip(t)
       \/ doomed # {} /\ TakeOut(t, doomed, NextShard(t))
    /\ SweepFrame

\* They are counted before it.
SweepCounted(t, doomed) ==
    /\ \/ doomed = {} /\ Skip(t)
       \/ doomed # {} /\ TakeOutCounted(t, doomed, NextShard(t), call[t].shard)
    /\ SweepFrame

\* They are not counted.
SweepUncounted(t, doomed) ==
    /\ \/ doomed = {} /\ Skip(t)
       \/ doomed # {} /\ TakeOutUncounted(t, doomed, NextShard(t))
    /\ SweepFrame

clear(t) ==
    /\ AtShard(t, "clear")
    /\ Without(InShard(t))
    /\ silent' = [silent EXCEPT ![call[t].shard] = @ + Cardinality(InShard(t))]
    /\ Enter(t, "sweep", NextShard(t))
    /\ UNCHANGED <<aside, clock, bounds, settings, counters, ops, entered, replaced, lost, zeroed, notified, shrinks>>

cache_reset_metrics(t) ==
    /\ AtShard(t, "reset")
    /\ LET s == call[t].shard IN
          /\ hits' = [hits EXCEPT ![s] = 0]
          /\ misses' = [misses EXCEPT ![s] = 0]
          /\ evictions' = [evictions EXCEPT ![s] = 0]
          /\ zeroed' = [zeroed EXCEPT ![s] = @ + evictions[s]]
    /\ Enter(t, "sweep", NextShard(t))
    /\ UNCHANGED <<aside, clock, store, order, bounds, settings, ops, entered, silent, replaced, lost, notified, shrinks>>

\* The last shard is done, or user code panicked while it chose entries: the
\* predicate of retain, or is_expired.
SweepEnds(t) ==
    /\ pc[t] = "sweep" /\ call[t].op # "resize"
    /\ \/ call[t].shard = Shards
       \/ call[t].op = "retain"
       \/ call[t].op = "evict" /\ kind \in ExpiringKinds
    /\ Return(t, 0)
    /\ UNCHANGED <<aside, clock, store, order, bounds, settings, counters, ops, ledger, shrinks>>

-----------------------------------------------------------------------------
(* Calls that fill a second store, shard by shard, while others use the first. *)

CopyFrame == UNCHANGED <<kind, hasher, clock, store, order, bounds, settings, counters, ledger, shrinks>>

\* Bound: one copy at a time.
StartCopy(t, op, target) ==
    /\ Begin(t)
    /\ \A u \in Threads : pc[u] \notin {"copy", "copied"}
    /\ Enter(t, "copy", [NoCall EXCEPT !.op = op, !.now = clock])
    /\ copy' = target
    /\ CopyFrame

AtCopy(t, op) == pc[t] = "copy" /\ call[t].op = op /\ call[t].shard < Shards

\* The shard's entries go into the copy; c is the copy then.
CopyShard(t, c) ==
    /\ Enter(t, "copy", NextShard(t))
    /\ copy' = c
    /\ UNCHANGED ops
    /\ CopyFrame

\* The copy with the entries of some keys as the store has them.
WithEntries(keys) ==
    [copy EXCEPT !.store = [k \in Keys |-> IF k \in keys THEN store[k] ELSE copy.store[k]]]

\* A shard's entries, order, bound and counters, under its read lock.
CloneShard(t) ==
    /\ AtCopy(t, "deep_clone")
    /\ LET s == call[t].shard IN
       CopyShard(t, [WithEntries(InShard(t)) EXCEPT !.order[s] = order[s],
                                                    !.capacity[s] = capacity[s],
                                                    !.evictions[s] = evictions[s]])

\* Every shard is copied: deep_clone reads the settings of the store, copy_from
\* keeps those of its builder.
CopyDone(t) ==
    /\ pc[t] = "copy" /\ call[t].shard = Shards
    /\ copy' = IF call[t].op = "copy_from" THEN copy
               ELSE [copy EXCEPT !.total_capacity = total_capacity, !.ttl = ttl, !.refresh = refresh]
    /\ Enter(t, "copied", call[t])
    /\ UNCHANGED ops
    /\ CopyFrame

\* The caller takes the copy; or, before, a panic of user code drops it: of a
\* value's clone or is_expired, or of the new store's on_evict.
CopyEnds(t) ==
    /\ pc[t] \in {"copy", "copied"}
    /\ Return(t, 0)
    /\ copy' = EmptyCopy
    /\ UNCHANGED ops
    /\ CopyFrame

-----------------------------------------------------------------------------
(* After the unlock. *)

\* Mutant: the entries are counted one by one, each after its callback.
CountLater(t) ==
    /\ pc[t] = "count"
    /\ Goto(t, "notify")
    /\ UNCHANGED <<aside, clock, store, order, bounds, settings, counters, call, removed, ret, ops, ledger, shrinks>>

\* Where thread t counts what it took out.  A sweep has moved its cursor to the
\* next shard already.
CountedIn(t) == IF call[t].op \in SweepOps THEN call[t].shard - 1 ELSE hasher[call[t].key]

\* All the entries are counted before the first is reported.
Count(t) ==
    /\ pc[t] = "count"
    /\ evictions' = [evictions EXCEPT ![CountedIn(t)] = @ + Cardinality(removed[t])]
    /\ Goto(t, "notify")
    /\ UNCHANGED <<aside, clock, store, order, bounds, settings, hits, misses, call, removed, ret, ops, ledger, shrinks>>

\* on_evict for one entry: it returns, or panics and ends the call.
Notify(t) ==
    /\ pc[t] = "notify"
    /\ \E v \in removed[t] :
          /\ notified' = notified \cup {v}
          /\ \/ /\ removed' = [removed EXCEPT ![t] = @ \ {v}]
                /\ UNCHANGED <<pc, call, ret>>
             \/ Return(t, 0)
    /\ UNCHANGED <<aside, clock, store, order, bounds, settings, counters, ops, entered, silent, replaced, lost, zeroed, shrinks>>

\* cache_remove judges the entry when the callback has returned.
RemovedValue(c) == IF c.op = "remove" /\ c.exp # Never /\ clock >= c.exp THEN 0 ELSE c.val

\* Every entry is reported; the rest of the call.
Reported(t) ==
    /\ pc[t] = "notify" /\ removed[t] = {}
    /\ \/ call[t].op = "get" /\ Miss(t, call[t].key)
       \/ call[t].op = "set" /\ Return(t, 0) /\ UNCHANGED counters
       \/ /\ call[t].op \in {"remove", "remove_entry"}
          /\ Return(t, RemovedValue(call[t]))
          /\ UNCHANGED counters
       \/ /\ call[t].op \in SweepOps
          /\ Goto(t, "sweep")
          /\ UNCHANGED <<counters, call, removed, ret>>
    /\ UNCHANGED <<aside, clock, store, order, bounds, settings, ops, ledger, shrinks>>

\* set_ttl, unset_ttl and set_refresh_on_hit.
Configure ==
    /\ kind \in TtlKinds
    /\ ops < MaxOps /\ ops' = ops + 1
    /\ ttl' \in Ttls /\ refresh' \in BOOLEAN
    /\ UNCHANGED <<aside, clock, store, order, bounds, counters, thread, ledger, shrinks>>

Tick ==
    /\ kind \in TtlKinds \cup ExpiringKinds
    /\ clock < MaxTime
    /\ clock' = clock + 1
    /\ UNCHANGED <<aside, store, order, bounds, settings, counters, thread, ops, ledger, shrinks>>

Done ==
    /\ \A t \in Threads : pc[t] = "idle"
    /\ ops = MaxOps
    /\ UNCHANGED vars

Common ==
    \/ \E t \in Threads :
          \/ StartSweep(t) \/ clear(t) \/ cache_reset_metrics(t) \/ SweepEnds(t)
          \/ Count(t) \/ Notify(t) \/ Reported(t)
    \/ Configure
    \/ Tick
    \/ Done

-----------------------------------------------------------------------------

Uncounted(s) == UNION {removed[t] : t \in {u \in Threads : pc[u] = "count" /\ CountedIn(u) = s}}

\* No entry leaves a shard unaccounted for: each one stored there is in its map,
\* or was cleared, overwritten while live, counted in that shard as evicted, or
\* is about to be counted there by the thread that took it out, whatever the
\* callbacks do; the unbound store keeps no such count.  The exception, `lost`, is an overwritten
\* entry whose fate was not decided when user code panicked under the lock.
Accounted ==
    kind # "Unbound" =>
        \A s \in ShardIds :
           entered[s] = Size(s) + silent[s] + replaced[s] + lost[s] + evictions[s] + zeroed[s]
                            + Cardinality(Uncounted(s))

\* on_evict hears of an entry at most once, from one thread, and only when it
\* has left the map: what a thread has still to report is in no map, was not
\* reported, and no other thread is to report it.
ReportedOnce ==
    LET stored == {store[k].val : k \in {j \in Keys : Holds(j)}} IN
    /\ notified \cap stored = {}
    /\ \A t \in Threads :
          removed[t] \cap (stored \cup notified \cup UNION {removed[u] : u \in Threads \ {t}}) = {}

\* Thread t takes a step of a call that may remove the live entry of key k.
MayRemove(t, k) ==
    /\ call[t] # call'[t]
    /\ \E c \in {call[t], call'[t]} :
          \/ c.op \in {"remove", "remove_entry", "drain", "clear"}
          \/ c.op = "retain" /\ k \notin c.keep

\* The shard of key k is full although k has left it.
StillFull(k) == kind \in LruKinds /\ Len(order'[hasher[k]]) >= capacity'[hasher[k]]

\* A live entry leaves the cache only by a call that asks for it, or to make
\* room in a shard that is full without it: a get or an evict never takes one
\* out, not even one another thread stored between two looks of the call, and a
\* resize or a set evicts no more than it must.
LiveStays ==
    [][\A k \in Keys :
          Live(k, clock) /\ store'[k] = Absent => StillFull(k) \/ \E t \in Threads : MayRemove(t, k)]_vars

\* A shard of an LRU store holds no more than its capacity when its lock is
\* free, unless a panic cut its shrink short and no set has finished it since.
ShardWithinCapacity ==
    \A s \in ShardIds : kind \in LruKinds /\ s \notin cut => Len(order[s]) <= capacity[s]

\* "observing a new total implies every shard has already adopted its new
\* per-shard cap" (capacity()): the bound of every shard is its part of the
\* reported total, but for the shards a running resize has passed, whose total
\* is not published yet; unless resizes overlapped or one was cut short.
CapacityPublished ==
    kind \in LruKinds /\ ~mixed =>
        \A s \in ShardIds :
            \/ total_capacity = Shards * capacity[s]
            \/ \E t \in Threads : call[t].op = "resize" /\ s < call[t].shard

Precedes(ord, k, j) == \E p, q \in DOMAIN ord : ord[p] = k /\ ord[q] = j /\ p < q

\* "preserving per-shard LRU ordering" (copy_from), "an independent deep copy"
\* (deep_clone): when a shard has been copied, each of its live entries is in the
\* copy as it was, or the copy's shard is full without it; and of two of its
\* entries in one shard of the copy the more recent one comes first, and is not
\* the one that found no room.
CopyKeepsRecent ==
    [][\A t \in Threads : pc[t] = "copy" /\ call'[t].shard = call[t].shard + 1 =>
          \A k \in InShard(t) : Live(k, clock) =>
             LET s == copy.hasher[k] IN
             /\ \/ copy'.store[k] = store[k]
                \/ kind \in LruKinds /\ Len(copy'.order[s]) = copy'.capacity[s]
             /\ \A j \in InShard(t) :
                   Precedes(order[hasher[k]], k, j) /\ copy.hasher[j] = s /\ copy'.store[j] # Absent
                       => Precedes(copy'.order[s], k, j)]_vars
=============================================================================
