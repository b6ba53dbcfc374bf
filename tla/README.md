# Verification of `cached`

A TLA+ development for the Rust crate `cached`: what the code in `src/` does,
as state machines, with the properties that make it correct checked by TLC on
small instances and, for the parts where that is possible, proved by TLAPS for
every value of the constants.

## 1. The system

`cached` gives a program memoised functions and the caches behind them.

| part | source | state | operations |
| --- | --- | --- | --- |
| `#[cached]` | `cached_proc_macro/src/cached.rs`, `helpers.rs` | one static store behind a lock; with `sync_writes = "by_key"` a table of bucket locks | the checks on the attributes and the choice of store, lock and lookup; the generated function and its `_prime_cache` companion |
| `#[once]` | `cached_proc_macro/src/once.rs` | one static `Option<(Instant, T)>` behind a lock | the generated function and its companion |
| `#[concurrent_cached]` | `cached_proc_macro/src/concurrent_cached.rs` | one store that synchronises itself | the same checks and choices; the generated function and its companion |
| `LRUList` | `src/lru_list.rs` | a vector of cells on two cyclic lists | push, move, remove, set, clear, iterate |
| single-owner stores | `src/stores/{lru,lru_ttl,ttl,ttl_sorted,expiring,expiring_lru,unbound}.rs`, `HashMap` in `stores/mod.rs` | a map, an order, expiry instants, counters | get, set, get-or-set (also async and fallible), remove, evict, retain, clear, reset, resize |
| sharded stores | `src/stores/sharded/*.rs` | one such map per shard behind a read-write lock, atomic counters | the same, from `&self`, by several threads; `deep_clone`, `copy_from` |
| `RedbCache` | `src/stores/redb.rs` | a table on disk | the same, one transaction after another |
| `RedisCache` | `src/stores/redis.rs` | keys on a server | the same, one round trip after another |
| `ConcurrentCached`, `ConcurrentCachedAsync` | `src/lib.rs` | none | get-or-set around any such store: a lookup, the factory, a store |

How they interact: a generated function looks its key up, runs the user's body
on a miss and stores the result; which locks are held across the body is what
the macro's arguments choose. The LRU stores are a hash table of cell indices
over an `LRUList`; `LruTtlCache` wraps the inner LRU store; each shard of a
sharded store is the inner store of its kind. User code runs in the middle of
all this: the body, the factory of get-or-set, predicates, and `on_evict`
callbacks. All of it may panic, and in async code may be dropped at an await.

What is hard here:

- the checks on a macro's attributes are scattered, and together must leave no
  combination whose generated code its store does not support;
- callers of a generated function interleave between lookup, body and store;
- a value seen under one lock or transaction is acted on under a later one;
- the clock moves between its reading and the use of what was read;
- a callback panics in the middle of a loop that evicts, and the store is used
  again as it was left;
- the process dies between commits that are not durable;
- commands of several clients interleave at a server, and a caller that saw an
  error does not know which of its own were served.

What each part owes its users:

| part | it is correct when |
| --- | --- |
| the macros | every accepted attribute list generates calls that the store and lock it chose have, and every attribute has an effect or an error |
| `#[cached]` | with `sync_writes` no two bodies run at once (per bucket with `"by_key"`) and none runs for a key that somebody filled meanwhile; an `Err` that falls back to the cached value never puts an older value over a newer one; no panic and no dropped future leaves a lock held |
| `#[once]` | with `sync_writes` the body runs at most once per time to live; an answer from the cache was live while the call ran; every call returns |
| `#[concurrent_cached]` | a failing body answers `Err` only when there was nothing to fall back to; an `Ok` is in the store |
| `LRUList`, `LruCache` | the links are two rings; hash table and list name the same cells; the victim is the least recently used; capacity holds; each eviction is counted once |
| `TtlCache`, `ExpiringCache`, `UnboundCache` | each lookup is a hit or a miss, each removed entry is counted and reported once and is gone when reported, a stored value has its whole time to live |
| `LruTtlCache`, `ExpiringLruCache` | the wrapper and the store inside it count no removal twice; capacity holds; deadlines move only by sets and refreshing hits |
| `TtlSortedCache` | map and ordered index agree; the size limit costs the entries that expire soonest and never the one being returned |
| sharded stores | all of the above under several threads; a live entry leaves only when a call asks for it or its shard is full; a resize publishes what the shards adopted; a copy has each shard as it was, most recent entries first |
| `RedbCache` | clean-ups that look in one transaction and delete in the next never delete or revert what was stored in between, as far as a wall clock that may be set back allows; a restart keeps what was promised |
| `RedisCache` | healing never deletes a decodable value, no cache touches another's keys, a clear leaves nothing it found |

## 2. Modules

| module | models |
| --- | --- |
| `MacroArgs`; `CachedArgs`, `OnceArgs`, `ConcurrentArgs` | what the macros ask of attributes, types and return types; each macro's checks and what it generates |
| `GeneratedFn`; `CachedFn`, `OnceFn`, `ConcurrentCachedFn` | callers, keys and panics that the generated functions share; the function each macro generates, the last with the get-or-set methods of the concurrent traits |
| `MCGenerated`, `GeneratedProofs` | a macro with an attribute list, then callers of what it generates; proofs about both |
| `LruList`, `LruOrder` | `LRUList` cell by cell; the abstract recency order it implements |
| `LruCache`, `MCLruCache`, `LruCacheProofs` | `LruCache` over `LruList`; the refinement mapping to `LruOrder`; proofs about list and cache |
| `MapStore`; `TtlCache`, `ExpiringCache`, `UnboundCache`; `MCMapStore`, `MapStoreProofs` | what the stores over one hash map share; each store; their composition; proofs |
| `Subsequences` | the elements of a sequence at some of its positions, which is what an order is once some entries have left it |
| `BoundedStore`; `LruTtlCache`, `ExpiringLruCache`; `MCBoundedStore`, `BoundedStoreProofs` | the same for the wrappers around an LRU store |
| `TtlSortedCache`, `TtlSortedCacheProofs` | `TtlSortedCache`; proofs |
| `ShardedStore`, `ShardedLruStore`; six `Sharded*Cache`; `MCShardedStore`; `ShardedStoreProofs`, `ShardedCacheProofs` | threads, locks and accounting the sharded stores share; what the LRU ones share; each store; their composition, and the same with a copy being made; proofs about what they share, and about the stores |
| `RedbCache`, `RedbCacheProofs` | `RedbCache` over a database that is external; proofs |
| `RedisStore`; `RedisCache`, `AsyncRedisCache`; `MCRedis` | key layout and scan pattern, the server (external) and calls in flight; the two handles; their composition |

The modules of one family EXTEND what they share, so their variables are the
same and the composition is a disjunction. Operations that two of them have in
common carry the store's name (`ttl_evict`, `expiring_evict`).

Definitions keep the names of the functions they model; `PROJECT.json` gives
the lines of each. An operator under a comment that begins with `Mutant:` is
not part of any specification: it is the definition after it with a plausible
mistake, kept to show that the property it is listed with would notice.

**How code becomes steps.** A stretch that runs under one lock, one transaction
or one `&mut self` borrow, and runs no user code, is one step. User code ends a
step: a body, a factory, `on_evict`, an `is_expired`, a predicate. Time and the
other threads move there, and it may panic; the operation then stops and the
object is used as it was left (the locks are `parking_lot`'s and the async
runtime's, which do not poison). Round trips end a step too. A value
is a number that no two stores share, so a stale value is distinguishable from
an equal newer one. Which store, mode or configuration it is, is chosen in
`Init` and never changes, so that one run covers all of them.

**Macros.** An attribute list is the set of its settings, one for each value
that the code tells apart (`max_size=0` is one); the function below it is its
return type, whether the value in it is a `cached::Return`, and whether it takes
`self` or is generic. `Accepts` is the conjunction of the macro's checks;
`Expansion` is the record of what is generated: store, lock, lookup, what an
entry holds. Which of several errors is reported first is left out.
`MCGenerated` starts with a macro, a list and a function; `Expand` turns the
list down or builds the function, and then its callers run.

**Generated functions.** `pc` is the thread's place: waiting for a bucket lock,
for the read or the write lock, in the body, storing. `writer` and `bucket` are
the locks held across the body; the locks held for a lookup only are guards.
The body returns a value or `Err`; a panic or a dropped future releases what
the guards would. `Expire` makes an entry stale at any time; so a value that a
fallback stores again although it has expired (`expires = true`) is in the model
a fresh entry that may expire at once. `OnceFn` has the clock itself: the
generated code reads it once before it waits for a lock, and again when it
stores. In `ConcurrentCachedFn` the store may fail; `CallMethod` is a call of
`cache_get_or_set_with` or `cache_try_get_or_set_with` on the same store, which
the trait defaults make of a get, the factory and a set.

**`LruList`.** `values` of the code is the functions `next`, `prev` and `value`
of the cell index. Cell 0 heads the free ring and cell 1 the occupied ring.
`LruCache` adds the table (`store`, the set of cells it can find), `capacity`,
the counters, and the loops that call `on_evict` one entry at a time.
`MCLruCache` maps the ring from cell 1 to a sequence; `LruOrder` is the
specification on such sequences.

**Stores that expire.** Deadlines are as in the code: an instant or `Never`
(no ttl, or an addition beyond `EndOfTime`). `MapStore` and `BoundedStore` carry
ghost counters: `entered`, `silent` (cleared), `replaced` (overwritten while
live), `lost` (displaced, and its own `is_expired` panicked). The counters of
the code must add up with them at every point a panic can leave the store in.

**Sharded stores.** Each thread has a `pc`, its `call` and the entries it has
`removed` and not yet counted or reported, because the code does both after it
has released the shard's lock. A get of the expiring kinds is two steps, a look
under the read lock and another under the write lock. A resize is one step per
shard and one that publishes the total. `copy` is the store that `deep_clone` or
`copy_from` is filling, one shard of the original per step; no other thread
sees it before the call returns.

**Redb.** `table` is the last commit, `disk` the last durable one. A get reads
(a snapshot), judges (the clock), and cleans up in a second transaction; a sweep
collects keys in one and deletes in another. `Crash` ends every call and opens
the database again with what `disk` holds. The clock is `SystemTime`, not the
monotonic clock of the other stores: `Tick` sets it to any time up to `MaxTime`,
an earlier one included, so the ages that the code clamps to zero occur. The ghost
`had` is the entries a get's row has held while it ran, `seen` the values of those
that were unexpired then or later. A get reads the row first and the clock
afterwards, so with a clock that is set back the two moments may be different
ones; with a clock that only goes forward what is unexpired at the second was so
at the first.

**Redis.** Every command of a pipeline is a step of its own, since no pipeline
here is a transaction. `Abandon` is a failing round trip or a dropped future;
what was sent may still be served. `Foreign` is another writer whose bytes do
not decode. `SCAN` returns any part of what matches and may end only when it has
returned all that was there since it began. Keys are sequences of characters,
because the escapes are what is at stake.

## 3. Runs

Each property has a mutant that TLC finds violated under the same
configuration. Unless a run says otherwise a deadlock is an error too.

| run | states | what it shows |
| --- | --- | --- |
| `generated_fns` | 413,416 | each macro, every attribute list of up to three parts and nine kinds of function: `CallsSupported`, `NothingIgnored`; then three calls by two callers on two keys in different buckets, in every combination of `sync_writes`, `unsync_reads`, `result_fallback` and fallible store that was accepted, with `force_refresh`, primes, expiry, stores that fail, panics and dropped futures: `OneBodyAtATime`, `ComputeOnlyWhenMissing`, `HoldsLatestOk`, `FallbackNotLost`, `OkMeansStored`, `HitLiveDuringCall` (the clock is read before the lock is waited for), `OncePerTtl`; `EveryCallReturns` under fairness |
| `lru_cache` | 175,215 | five operations on three keys at capacities one to three: `WellFormed`, `InSync`, `WithinCapacity`, `EvictionsExact`, `EvictsLeastRecent`, and `ImplementsOrder`: the cells implement `LruOrder` |
| `map_stores` | 248,094 | four operations on two keys of each of the three stores: `Accounted` (lookups and removals), `ReportedOnce`, `FullLifetime` |
| `bounded_stores` | 913,181 | four operations on three keys: `CountedOnce`, `WithinReported` (never more entries than `capacity()` says), `DeadlineKept` |
| `ttl_sorted` | 376,819 | four operations on three keys, a limit of one or two or none: `Lockstep`, `EvictionsExact`, `ProtectedStays`, `WithinLimit`, `DropsSoonest` |
| `redb` | 600,564 | three calls of two threads on one key, one restart, a wall clock that moves either way: `LiveNotDeleted`, `CleaningKeepsValues`, `GetReturnsLive`, `RestartKeepsPromise` |
| `sharded_stores` | about 1.4 million | three calls of two threads on two keys in one shard or two, each of the six stores: `Accounted`, `ReportedOnce`, `LiveStays`, `ShardWithinCapacity`, `CapacityPublished` |
| `sharded_copies` | about 800,000 | a store of three entries, a second one of any capacity, the copy made shard by shard while another thread makes a call or two: `CopyKeepsRecent` |
| `redis` | 2,071,308 | two calls on a blocking and an async handle, of any two of three caches, one foreign write, one tick: `HealKeepsValid`, `CachesApart`, `ClearedGone` |
| `unbound_retain` | violated | `NotifiedGone`, see section 5 |
| `lru_ttl_uncounted` | violated | `NeverUncounted`, see section 5 |
| `flag_typed` | violated | `FlagTyped`, see section 5 |

**Bounds.** `MaxOps`, `MaxCalls`, `MaxTime`, `MaxBoots` and `MaxForeign` bound a
behaviour, `MaxSize` the capacities asked for, `MaxParts` the attribute lists:
the checks are about one, two or three settings together, and `ty` and `create`, or
`key` and `convert`, count as one part. A `once` value lives two ticks of three,
so it is stored, expires and is stored again. The races here are between two
callers: a third sees only what one of the two could have seen. Three keys are
what an LRU order needs to have a middle, and one more than a capacity of two;
two keys are what a shard needs to be full for one of them. Four operations
of a store reach what its properties are about. `lru_ttl_uncounted` has five: sets,
a shrink that a callback cuts short, and an overwrite. In `MapStore` and
`BoundedStore` the ttl 3 reaches past `EndOfTime`, so the overflow of an
`Instant` happens. The three Redis caches have names that differ only in what the
escapes tell apart: the separator, the escape character itself, and the
characters of a pattern. One ttl is below a millisecond. Three times are enough
for redb's clock: a row with a lifetime of one is stamped, expires, and is
unexpired again after a step back. Two calls and a foreign
write are enough there for a healing get to race a set, and for a clear to meet
an empty batch, two batches, and a write in between. The upper clamp of
`ttl_millis` is not reached. With two keys per shard the exception `cut` of
`ShardWithinCapacity` does not arise; `lru_cache` exercises a shrink that is cut
short. The `sharded_copies` run starts
with a filled store and makes the copy its first call, so two more calls can
fall between the copy's steps. The sharded runs identify states that differ only in the
threads' names (sound: no property names one) and in hit and miss counts and
returned values, which no guard and no property of the runs reads.

**Fairness.** Only `EveryCallReturns` needs it, in `generated_fns`: strong fairness
of each thread's own steps. It says that each thread is idle again and again. A thread that
waits for a lock is enabled only while the lock is free, so weak fairness would
let it starve; the locks are
`parking_lot` (eventual fairness) or the async runtime's (first come, first
served), and a body is assumed to return or unwind, a store to answer. Calls are not fair: nobody
has to call. A body that calls the same function again under its own lock, which
deadlocks by design, is excluded.

## 4. Proofs

For every value of the constants, under the named assumptions of the modules.

Every invariant that a run checks is proved, and every action property but the
ones named at the end of this section.

- **`GeneratedProofs`**, about the macros. `EveryListSupported`, for attribute
  lists of any length: whatever list a macro accepts, the calls it generates are
  ones that its store has; by cases on the lookup that is generated
  (`CachedCallsSupported`, `ConcurrentCallsSupported`). `NoAttributeIgnored`:
  every setting of an accepted list changes what is generated.
- **`GeneratedProofs`**, about `#[cached]`: `CachedMutualExclusion`,
  `NoRedundantBody` and `NoStaleFallback`, for any threads, keys, buckets and
  `bucket_for`. `OneBodyAtATime` alone is not inductive: it does not say who holds
  which lock. `CachedIInv` adds that (`CachedLockInv`: the cache lock and each
  bucket lock belong to exactly the threads that are where the code holds them)
  and which places each mode can reach (`CachedPathInv`). A lock is held by one
  thread, so two bodies under it are one. `ComputeOnlyWhenMissing` is preserved
  because whoever could make the key fresh needs the lock the computing thread
  holds.
- **`GeneratedProofs`**, about `#[once]`: `OnceMutualExclusion`,
  `AtMostOncePerTtl` and `HitsAreLive`, for any threads and any ttl. The invariant
  adds that no stamp or reading lies in the future (`OnceClockInv`), who holds the
  lock (`OnceLockInv`), and that a thread that computes because the value was too
  old still finds it so when it stores (`OnceExpiredInv`). The two action
  properties follow from it step by step.
- **`GeneratedProofs`**, about `#[concurrent_cached]`: `FallbackIsKept` and
  `OkIsStored`, for any threads and keys. The invariant adds that every value the
  store holds was stored by a call that could return it (`ConcurrentStoredInv`),
  and that a call that found an entry holds its value until it has a result
  (`ConcurrentFoundInv`).
- **`GeneratedProofs`**, about the whole: the three functions live in one
  specification, `FairSpec`, which first expands the macro. `GeneratedInv` says
  that the function that was generated satisfies its own invariant, that the
  other two were never called, and that the list was accepted. From it follow
  the properties of the run as the run states them (`ExclusiveBodies`,
  `NothingRecomputed`, `FallbackNeverOlder`, `FallbackAlwaysKept`,
  `EveryOkStored`, `BodyOncePerTtl`, `HitsLive`).
- **`LruCacheProofs`**, about the list: `ListAlwaysWellFormed`, for any items and
  any number of cells. The lemmas are about links alone: taking a cell out leaves
  the others linked (`UnlinkLeavesRest`), putting it behind another joins it to
  that one's ring (`LinkJoins`), hence a move moves (`MoveMoves`). The case that
  needs care is the growth in `push_front`, where the new cell and the free
  sentinel are linked one way only until the cell is moved.
- **`LruCacheProofs`**, about the cache: `TableAndListAgree`, `CapacityKept`,
  `EvictionsCounted`, `LeastRecentEvicted` and `ListStaysWellFormed`: the
  invariants of the `lru_cache` run and its action property, for any keys and
  capacities. Agreement of table and list is not inductive by itself, because
  which cell is evicted depends on the order. `IInv` adds that each occupied cell
  was used later than its successor (`OrderInv`), that the entry about to be
  returned was used last (`FreshInv`), and that an insertion goes one over the
  capacity and no more (`SizeInv`). No induction along the list is needed: from
  the cell with the least stamp the link can only lead to the sentinel, so that
  cell is `back` (`BackIsLeast`); and a cache over its capacity holds a second
  entry, so `back` is not the one just inserted (`VictimIsNotFresh`).
- **`MapStoreProofs`**: `EntriesAccounted`, `EvictionsReportedOnce` and
  `TtlFullLifetime`, for any keys, ttls and number of operations of the three
  stores. Each operation is one of a few changes of the map (`Looks`, `TakesOut`,
  `Loses`, `PutsIn`), which are shown once to keep the invariant. `IInv` adds that
  no two entries carry one value (`ValueInv`), without which one entry could be
  reported for another, and what may still be on its way to `on_evict`
  (`RemovedInv`): nothing between operations, and entries that are still in the
  map only inside `UnboundCache::retain`.
- **`BoundedStoreProofs`**: `DeparturesCountedOnce`, `CapacityReported` and
  `DeadlinesKept`, for any keys, capacities and ttls of the two wrappers. `IInv`
  adds that in `check_capacity` the store exceeds its capacity by one entry at most,
  and not at all when an entry was displaced (`BoundInv`): so no callback of that
  loop comes between an entry's leaving and its being counted, unless an earlier
  shrink was cut short (which is the case of `lru_ttl_uncounted` in section 5).
  The order is a sequence; what is left of it when entries leave is `Pick` of
  `Subsequences`, whose elements are characterised by their ranks
  (`PickElements`).
- **`TtlSortedCacheProofs`**: `MapAndIndexAgree`, `EvictionsCounted`,
  `ReturnedEntryStays`, `LimitKept` and `SoonestDropped`, all the properties of
  the `ttl_sorted` run, for any keys, limit and ttl. `IInv` is the conjunction of
  the four invariants, the types, and `TrimInv`: a trim after a set has at most
  one entry too many and has been told to drop it. The step that takes the first
  stamp of the index rests on `FirstIsFirst`, that a nonempty set of stamps has a
  first one in the order of the code.
- **`ShardedCacheProofs`**: `AccountedThroughout`, `ReportedOnceThroughout`,
  `ShardWithinCapacityThroughout`, `CapacityPublishedThroughout` and
  `LiveStaysThroughout`, all the properties of the `sharded_stores` run, for any
  threads, keys, shards, hashers and number of calls of the six stores. `IInv` has
  four parts besides the types and `Accounted`. `ThreadInv` says which calls can
  be at which point of the code. `ValueInv` says that a value is in one place: in
  a map, in the hands of one thread, about to be stored by one thread, or
  reported. `OrderInv` says that the order of a shard lists the keys it holds,
  each once. `BoundInv` says which bound each shard has while a resize is between
  two shards. Every step of every store is one of a few changes (`Rests`,
  `TakesOut`, `Clears`, `Sets`, `Shrinks`...), shown once to keep the invariant in
  `ShardedStoreProofs`; a lemma per action of `ShardedCacheProofs` then says which
  it is. The accounts of a shard are sums of
  cardinalities: what a thread takes out and has not counted is disjoint from
  what the others have in hand because values are in one place
  (`UncountedParts`), so the sum does not change when a thread counts. The lemmas
  of `ShardedStoreProofs` take what they use of finite sets as a
  hypothesis (`CountingLaws`); `ShardedCacheProofs` proves it from the library's
  theorems (`CountingLawsHold`), and no theorem assumes it.
  `LiveStays` needs little of the invariant. The sweeps and the gets that look
  twice take out what they judged under the write lock (`SweepLive`,
  `StaleLive`), and a trim stops as soon as the shard is within its bound
  (`TrimLive`).
- **`RedbCacheProofs`**: `LiveRowsStay`, `CleaningOnlyRestamps`,
  `RestartsKeepPromise` and `GetsAreLive`, all the properties of the `redb` run,
  for any threads, keys and number of restarts, and a wall clock that is set to any
  time at any step. `IInv` adds that a running get has had the entry its row holds
  (`HadInv`) and the one it is to judge (`SnapInv`), and has seen whatever it has
  had and is unexpired now (`SeenInv`). That clean-ups are safe follows from the
  second transaction, which judges each row again (`CleaningRows`): a get by the
  clock as it is, a sweep by the time it read. An entry that is expired by that
  time is expired now, unless the clock is behind it (`ExpiredStays`).

Only model-checked:

- `EveryCallReturns`, since liveness under fairness is out of the prover's reach;
- `ImplementsOrder`, the refinement of `LruOrder`: its mapping follows the links
  recursively, and what a recursive definition computes would have to be shown
  by induction over the list;
- `CopyKeepsRecent`: which entries a copy keeps is a fold over the order of a
  shard, and again needs an induction over data;
- the three properties of the `redis` run: `GlobMatch` of `RedisStore`
  is a recursive operator, so nothing that uses the module can be proved here.

## 5. Disagreements between the code and its documents

Checked by a run:

- `unbound_retain`: `UnboundCache::retain` calls `on_evict` inside the predicate
  of `HashMap::retain`. A callback that panics leaves its entry stored and served
  (`CHANGELOG.md:102` says the opposite).
- `lru_ttl_uncounted`: an overwrite of an expired entry is counted only after the
  inner store has trimmed; if a callback of that trim panics, the entry is gone
  and uncounted (`lru_ttl.rs:395` rules that out). It takes an earlier shrink cut
  short by a panic. `sharded/lru_ttl.rs:853` is the same code.
- `flag_typed`: `cache_err` with `with_cached_flag` is accepted on a function that
  returns `Result<Return<T>, E>`; an entry is then the whole `Result`, and the
  generated hit calls `set_was_cached` on it (`cached.rs:824`;
  `cached_proc_macro/src/lib.rs:105` says what the attribute needs).

Not given a run:

- `redb.rs:1311`: a sweep reads the wall clock once and judges by it in both passes.
  When the clock is set back after that (an NTP step), a row set or refreshed by
  the new clock can look expired by the old one and is deleted while it is live.
  The comment at 1350 says that the second look "ensures we never delete a live
  entry", and the documentation at 629 says of such a step only that it prolongs a
  lifetime. `LiveNotDeleted` has this as its one exception (`Outlived`); without
  it TLC finds the deletion with a sweep and a set after the step back.
- `sharded/lru.rs:441` says that observing a new total implies that every shard has
  adopted its bound. Two resizes that overlap may interleave shard by shard and
  leave shards of both bounds under the total of the one that published last, until
  the next resize. `CapacityPublished` leaves overlapping resizes out (`mixed`).
- `TtlSortedCache::evict` keeps an entry whose deadline is exactly now
  (`ttl_sorted.rs:590`), which lookups treat as expired (docs at 176 and 178).
- `LruTtlCache::capacity()` returns a copy that is stale after a shrink whose
  callback panicked (`lru_ttl.rs:573`; the doc is at 537).
- The sharded `cache_remove` judges liveness after the callback
  (`sharded/ttl.rs:813`): an entry that was live when removed can be answered
  with `None` (`lib.rs:2681`: "returning it if it was both present and still
  live").
- `sharded/lru_ttl.rs:789`: a refreshing hit uses an instant read before it
  waited for the lock, and may give an entry set meanwhile an earlier deadline.
- `redis.rs:1945`: `cache_remove` is `GET` and `DEL` in a pipeline that is not a
  transaction, though the comments at 3550 and 4713 call it atomic. A value set
  in between is deleted and returned to nobody, and two removals may return the
  same value.
- In the expiring stores an `is_expired` that panics after the displaced value
  has left the map loses the entry from every count (`lost`).
- `lib.rs:1984` accepts that a fallback of `#[concurrent_cached]` overwrites a
  newer value; the callers then see the older one for a whole ttl.
- `copy_from` of `ShardedTtlCache` and `ShardedLruTtlCache` keeps each entry's
  deadline. Their docs (`sharded/ttl.rs` near 1117, `sharded/lru_ttl.rs` near 1339
  and 1430) say that the target's TTL decides when a copied entry expires.
- `deep_clone` (`sharded/lru.rs:149`) reads the total capacity after it has copied
  the shards. During a resize the clone can have shards of both bounds and the
  new total, although the doc of `capacity()` says that a new total implies that
  every shard has adopted its bound.
- `cached_proc_macro/src/lib.rs:381` lists `result_fallback` as exclusive with
  `expires` on `#[concurrent_cached]`; the code accepts the two, as lib.rs:440
  says. lib.rs:394 says that `cache_prefix_block` has no effect on the in-memory
  and disk stores; the code turns it down there.
- `unsync_reads` beside `result_fallback` and a store of the user's own is
  accepted and has no effect: the lookup takes the write lock (lib.rs:78 says a
  shared read lock).
- The comment near `lru.rs:312`, "evicts at most one entry per call", is stale:
  `check_capacity` is a loop.

## 6. Not modelled, and the plan

Not modelled:

- In the macros: tokens, that is the rewriting of argument names and types, the
  documentation attached to what is generated, and the wording of errors.
- Iterators, formatting, `Debug`, error types, and the setters of builders. What
  `build` makes of them is in the `Init` of the stores.
- Of Redis: connection strings, pools and connection set-up, client-side caching
  and the byte formats. Of redb: opening files of several versions.
- The async methods of the stores that run the same code as the sync ones.
- The hash function, the machine-dependent default shard count, and the overflow
  errors of `per_shard_cap_from_total` (`checked_mul`), which need a size near
  `usize::MAX`.
- `copy_from`: the `refresh` flag of the target, which nothing reads while it is
  filled, is always off. `ShardedExpiringLruCache` asks each value whether it has
  expired after it has released the shard's read lock; the model asks when the
  shard is read, so a value that expires in between is still copied there.
- The two readings of the clock inside one write transaction of redb (one that
  judges, one that stamps a refresh) are one.
- In `lib.rs`: trait declarations and defaults that forward a call.
  `macros.rs` is documentation; `cached_proc_macro_types` is a value and a flag.

The definitions stand for about 10,800 lines, a little under a fifth of the lines
of the Rust files. Half of those lines are unit tests in the same files and a
large part of the rest is documentation; what is left besides is in the list
above. Mapping every line of it would bring the share to about a quarter.

Next, in this order:

1. A composition of `ConcurrentCachedFn` with a sharded store and with Redis, in
   place of its abstract store; `#[cached]` over a store that counts.
2. An abstract specification of a cache with expiry (a partial map that may
   forget) that `MapStore`, `BoundedStore` and one shard implement.
3. `CopyKeepsRecent` and `ImplementsOrder` for every size, if the folds and the
   recursive mapping they rest on are given definitions by rank, as `Pick` has.
