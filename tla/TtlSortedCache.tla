--------------------------- MODULE TtlSortedCache ---------------------------
(***************************************************************************)
(* TtlSortedCache: a hash map, and an index of its keys in the order in    *)
(* which they expire, which drives the expiry sweep and the size limit.    *)
(*                                                                         *)
(* One owner uses the cache.  The loop that trims it calls on_evict for    *)
(* each victim in turn, so each turn is a step, and the callback may panic *)
(* and end the operation there.  Where on_evict is only called when all is *)
(* done, its panic changes nothing and the operation is one step.          *)
(***************************************************************************)
EXTENDS Integers, FiniteSets

CONSTANTS Keys,       \* numbers: the keys are ordered
          Absent,     \* no entry
          Never,      \* the expiry of an entry that does not expire
          NoLimit,    \* size_limit = None
          NoStamp,    \* nothing is protected
          Ttls,       \* the TTLs used, 0 for no expiry
          MaxSize,    \* bound: the largest size limit
          MaxTime,    \* bound: the clock
          MaxOps      \* bound: the operations of a behaviour

ASSUME TtlSortedAssumption ==
    /\ Keys \subseteq Nat /\ Ttls \subseteq Nat
    /\ MaxSize \in Nat \ {0} /\ MaxTime \in Nat /\ MaxOps \in Nat
    /\ Never \notin Nat /\ NoLimit \notin Nat /\ Absent \notin Nat \cup {Never}
    /\ NoStamp \notin Keys

VARIABLES
    clock,
    map,                        \* the expiry of each key's entry, or Absent
    keys,                       \* the index: a set of stamps, taken in order
    ttl, size_limit,
    hits, misses, evictions,
    pc,                         \* "idle", or "trim" in retain_latest_at_protecting
    trim,                       \* its count still to drop, its cutoff, its protected stamp
    ops,
    entered, silent, replaced,  \* ghosts: entries stored, cleared, overwritten while live
    resizing                    \* ghost: set_max_size began and no trim ended since

metrics == <<hits, misses, evictions>>
ghosts == <<entered, silent, replaced, resizing>>
vars == <<clock, map, keys, ttl, size_limit, metrics, pc, trim, ops, ghosts>>

Stamp == [expiry : Nat \cup {Never}, key : Keys]

NoTrim == [drop |-> 0, cutoff |-> Never, protected |-> NoStamp]

\* build: a positive TTL, and a size limit that is not zero.
Init ==
    /\ clock = 0
    /\ map = [k \in Keys |-> Absent] /\ keys = {}
    /\ ttl \in Ttls \ {0} /\ size_limit \in 1..MaxSize \cup {NoLimit}
    /\ hits = 0 /\ misses = 0 /\ evictions = 0
    /\ pc = "idle" /\ trim = NoTrim
    /\ ops = 0
    /\ entered = 0 /\ silent = 0 /\ replaced = 0 /\ resizing = FALSE

-----------------------------------------------------------------------------

Held == {k \in Keys : map[k] # Absent}

cache_size == Cardinality(Held)

as_stamped(k) == [expiry |-> map[k], key |-> k]

\* is_expired_at: at or after the deadline.
is_expired_at(expiry, now) == expiry # Never /\ expiry <= now

Live(k) == map[k] # Absent /\ ~is_expired_at(map[k], clock)
Stale(k) == map[k] # Absent /\ is_expired_at(map[k], clock)

\* Mutant: the order of Option, where None comes first.
BeforeDefault(a, b) ==
    \/ a.expiry = Never /\ b.expiry # Never
    \/ a.expiry # Never /\ b.expiry # Never /\ a.expiry < b.expiry
    \/ a.expiry = b.expiry /\ a.key < b.key

\* Stamped::cmp: by expiry, never-expiring last, and then by key.
Before(a, b) ==
    \/ a.expiry # Never /\ b.expiry = Never
    \/ a.expiry # Never /\ b.expiry # Never /\ a.expiry < b.expiry
    \/ a.expiry = b.expiry /\ a.key < b.key

Begin ==
    /\ pc = "idle"
    /\ ops < MaxOps
    /\ ops' = ops + 1
    /\ UNCHANGED clock

Hit == hits' = hits + 1 /\ UNCHANGED misses
Miss == misses' = misses + 1 /\ UNCHANGED hits

\* The entries of `gone` leave the map and the index, and are counted.
Removed(gone) ==
    /\ map' = [k \in Keys |-> IF k \in gone THEN Absent ELSE map[k]]
    /\ keys' = keys \ {as_stamped(k) : k \in gone}
    /\ evictions' = evictions + Cardinality(gone)

\* cache_get and cache_get_mut: an expired entry is a miss, counted before it is
\* removed and on_evict called.
cache_get(k) ==
    /\ Begin
    /\ \/ map[k] = Absent /\ Miss /\ UNCHANGED <<map, keys, evictions>>
       \/ Live(k) /\ Hit /\ UNCHANGED <<map, keys, evictions>>
       \/ Stale(k) /\ Miss /\ Removed({k})
    /\ UNCHANGED <<ttl, size_limit, pc, trim, entered, silent, replaced, resizing>>

\* cache_get_read and cache_get_with_expiry_status: count, and change nothing.
cache_get_read(k) ==
    /\ Begin
    /\ \/ Live(k) /\ Hit
       \/ ~Live(k) /\ Miss
    /\ UNCHANGED <<map, keys, ttl, size_limit, evictions, pc, trim, entered, silent, replaced, resizing>>

-----------------------------------------------------------------------------

\* now + ttl; a zero TTL, and a sum past the last Instant, never expire.
expiry_for(d) == IF d = 0 THEN Never ELSE clock + d

\* Mutant: the stamp of the displaced entry stays in the index.
IndexedTwice(k, e) == keys \cup {[expiry |-> e, key |-> k]}

\* The new stamp goes in before the displaced one comes out.
Indexed(k, e) ==
    IF map[k] # Absent /\ map[k] # e
    THEN (keys \cup {[expiry |-> e, key |-> k]}) \ {as_stamped(k)}
    ELSE keys \cup {[expiry |-> e, key |-> k]}

\* set_inner up to the trim: the entry is in the map and the index, and a
\* displaced one that had expired is counted as evicted.
Stored(k, e) ==
    /\ map' = [map EXCEPT ![k] = e]
    /\ keys' = Indexed(k, e)
    /\ entered' = entered + 1
    /\ \/ map[k] = Absent /\ UNCHANGED <<evictions, replaced>>
       \/ Stale(k) /\ evictions' = evictions + 1 /\ UNCHANGED replaced
       \/ Live(k) /\ replaced' = replaced + 1 /\ UNCHANGED evictions

\* Mutant: one entry over the limit is let pass.
OverLate(n, count) == IF n > count + 1 THEN n - count ELSE 0

\* What retain_latest_at is to drop of n entries.
Over(n, count) == IF n > count THEN n - count ELSE 0

TrimTo(n, count, cutoff, protected) ==
    /\ trim' = [drop |-> Over(n, count), cutoff |-> cutoff, protected |-> protected]
    /\ pc' = "trim"

\* on_evict panicked on the displaced entry: what was to follow does not.
DisplacedPanics(k) ==
    Stale(k) /\ UNCHANGED <<pc, trim>>

\* cache_set, set and set_with(..).ttl(..).evict(), which sweeps as well.  With
\* no size limit only the sweep is left of the trim.
cache_set(k) ==
    /\ Begin
    /\ \E d \in Ttls \cup {ttl}, evict \in BOOLEAN : LET cutoff == IF evict THEN clock ELSE Never IN
          /\ Stored(k, expiry_for(d))
          /\ \/ DisplacedPanics(k)
             \/ size_limit # NoLimit /\ TrimTo(Cardinality(Held \cup {k}), size_limit, cutoff, NoStamp)
             \/ size_limit = NoLimit /\ evict /\ TrimTo(0, 0, cutoff, NoStamp)
             \/ size_limit = NoLimit /\ ~evict /\ UNCHANGED <<pc, trim>>
    /\ UNCHANGED <<ttl, size_limit, hits, misses, silent, resizing>>

\* The cache_get_or_set_with family: a live entry is a hit.  Otherwise the
\* factory gives a value, stored by set_and_get_mut, or gives none (an Err, a
\* panic, a dropped future) and an expired entry stays.
cache_get_or_set_with(k) ==
    /\ Begin
    /\ \/ Live(k) /\ Hit /\ UNCHANGED <<map, keys, evictions, pc, trim, entered, replaced>>
       \/ ~Live(k) /\ Miss /\ UNCHANGED <<map, keys, evictions, pc, trim, entered, replaced>>
       \/ /\ ~Live(k) /\ Miss
          /\ Stored(k, expiry_for(ttl))
          /\ LET n == Cardinality(Held \cup {k}) IN
                \/ DisplacedPanics(k)
                \/ size_limit # NoLimit /\ n > size_limit /\ TrimTo(n, size_limit, Never, k)
                \/ (size_limit # NoLimit => n <= size_limit) /\ UNCHANGED <<pc, trim>>
    /\ UNCHANGED <<ttl, size_limit, silent, resizing>>

\* set_max_size and try_set_max_size: zero is refused.
set_max_size(n) ==
    /\ Begin
    /\ n # 0
    /\ size_limit' = n
    /\ resizing' = TRUE
    /\ TrimTo(cache_size, n, Never, NoStamp)
    /\ UNCHANGED <<map, keys, ttl, metrics, entered, silent, replaced>>

retain_latest(count) ==
    /\ Begin
    /\ \E evict \in BOOLEAN : TrimTo(cache_size, count, IF evict THEN clock ELSE Never, NoStamp)
    /\ UNCHANGED <<map, keys, ttl, size_limit, metrics, ghosts>>

-----------------------------------------------------------------------------

\* Mutant: the protected stamp is a candidate like the others.
CandidatesAll == keys

\* pop_first_unprotected takes the first of these.
Candidates == {s \in keys : s.key # trim.protected}

First == CHOOSE s \in Candidates : \A r \in Candidates \ {s} : Before(s, r)

\* The victim is dropped for the size, or swept because it expired strictly
\* before the cutoff.
Drops ==
    /\ Candidates # {}
    /\ \/ trim.drop > 0
       \/ trim.cutoff # Never /\ First.expiry # Never /\ First.expiry < trim.cutoff

\* Mutant: the victim is counted when on_evict has returned.
TrimCountsLast ==
    /\ pc = "trim" /\ Drops
    /\ map' = [map EXCEPT ![First.key] = Absent]
    /\ keys' = keys \ {First}
    /\ \/ /\ evictions' = evictions + 1
          /\ trim' = [trim EXCEPT !.drop = IF trim.drop > 0 THEN trim.drop - 1 ELSE 0]
          /\ UNCHANGED pc
       \/ pc' = "idle" /\ trim' = NoTrim /\ UNCHANGED evictions
    /\ UNCHANGED <<clock, ttl, size_limit, hits, misses, ops, ghosts>>

\* A turn of the loop: the victim is removed and counted, and on_evict returns
\* or panics.
TrimStep ==
    /\ pc = "trim" /\ Drops
    /\ Removed({First.key})
    /\ \/ /\ trim' = [trim EXCEPT !.drop = IF trim.drop > 0 THEN trim.drop - 1 ELSE 0]
          /\ UNCHANGED pc
       \/ pc' = "idle" /\ trim' = NoTrim
    /\ UNCHANGED <<clock, ttl, size_limit, hits, misses, ops, ghosts>>

Trimmed ==
    /\ pc = "trim" /\ ~Drops
    /\ pc' = "idle" /\ trim' = NoTrim
    /\ resizing' = (resizing /\ size_limit # NoLimit /\ cache_size > size_limit)
    /\ UNCHANGED <<clock, map, keys, ttl, size_limit, metrics, ops, entered, silent, replaced>>

\* evict: the prefix of the index that expires strictly before now, so an entry
\* whose deadline is now stays although lookups call it expired.
evict ==
    /\ Begin
    /\ Removed({k \in Held : map[k] # Never /\ map[k] < clock})
    /\ UNCHANGED <<ttl, size_limit, hits, misses, pc, trim, ghosts>>

\* retain decides for every entry first; a predicate that panics changes nothing.
retain(keep) ==
    /\ Begin
    /\ Removed({k \in Held : is_expired_at(map[k], clock) \/ k \notin keep})
    /\ UNCHANGED <<ttl, size_limit, hits, misses, pc, trim, ghosts>>

\* cache_remove and cache_remove_entry.
cache_remove(k) ==
    /\ Begin
    /\ Removed({k} \cap Held)
    /\ UNCHANGED <<ttl, size_limit, hits, misses, pc, trim, ghosts>>

\* cache_clear, and cache_clear_with_on_evict without a callback.
cache_clear ==
    /\ Begin
    /\ map' = [k \in Keys |-> Absent] /\ keys' = {}
    /\ silent' = silent + cache_size
    /\ UNCHANGED <<ttl, size_limit, metrics, pc, trim, entered, replaced, resizing>>

cache_clear_with_on_evict ==
    /\ Begin
    /\ Removed(Held)
    /\ UNCHANGED <<ttl, size_limit, hits, misses, pc, trim, ghosts>>

\* cache_reset with `clears`, cache_reset_metrics without.
cache_reset(clears) ==
    /\ Begin
    /\ hits' = 0 /\ misses' = 0 /\ evictions' = 0
    /\ map' = IF clears THEN [k \in Keys |-> Absent] ELSE map
    /\ keys' = IF clears THEN {} ELSE keys
    /\ entered' = IF clears THEN 0 ELSE cache_size
    /\ silent' = 0 /\ replaced' = 0
    /\ UNCHANGED <<ttl, size_limit, pc, trim, resizing>>

\* set_ttl and unset_ttl: for the entries stored from now on.
set_ttl ==
    /\ Begin
    /\ ttl' \in Ttls
    /\ UNCHANGED <<map, keys, size_limit, metrics, pc, trim, ghosts>>

\* Time passes, also while on_evict runs.
Tick ==
    /\ clock < MaxTime
    /\ clock' = clock + 1
    /\ UNCHANGED <<map, keys, ttl, size_limit, metrics, pc, trim, ops, ghosts>>

Done == pc = "idle" /\ ops = MaxOps /\ clock = MaxTime /\ UNCHANGED vars

Next ==
    \/ \E k \in Keys :
          \/ cache_get(k) \/ cache_get_read(k) \/ cache_set(k) \/ cache_get_or_set_with(k)
          \/ cache_remove(k)
    \/ \E n \in 0..MaxSize : set_max_size(n)
    \/ \E n \in 0..MaxSize : retain_latest(n)
    \/ TrimStep \/ Trimmed
    \/ evict
    \/ \E keep \in SUBSET Keys : retain(keep)
    \/ cache_clear \/ cache_clear_with_on_evict
    \/ \E clears \in BOOLEAN : cache_reset(clears)
    \/ set_ttl
    \/ Tick
    \/ Done

Spec == Init /\ [][Next]_vars

-----------------------------------------------------------------------------

\* Map and index are in lockstep at every point a panic can leave the cache in:
\* no entry is invisible to the sweeps, and no stamp is left of one that is gone.
Lockstep == keys = {as_stamped(k) : k \in Held}

\* An entry leaves by being counted, except those cleared and those a set
\* replaced while they were live.
EvictionsExact == entered = cache_size + silent + replaced + evictions

\* The entry set_and_get_mut is to return is there for as long as the trim runs.
ProtectedStays == pc = "trim" /\ trim.protected # NoStamp => map[trim.protected] # Absent

\* Between operations the size limit holds, unless a panic cut a set_max_size
\* short and no trim has caught up since.
WithinLimit == pc = "idle" /\ size_limit # NoLimit /\ ~resizing => cache_size <= size_limit

\* The size limit costs the entries that expire soonest: what a trim removes
\* expires no later than anything it leaves, the protected entry aside.  Beyond
\* what it was asked to take it only takes entries whose time is over.
DropsSoonest ==
    [][pc = "trim" =>
          /\ \A s \in keys \ keys', r \in keys' :
                \/ r.key = trim.protected \/ r.expiry = Never
                \/ s.expiry # Never /\ s.expiry <= r.expiry
          /\ trim.drop = 0 => \A s \in keys \ keys' : is_expired_at(s.expiry, trim.cutoff)]_vars
=============================================================================
