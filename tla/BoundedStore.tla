---------------------------- MODULE BoundedStore ----------------------------
(***************************************************************************)
(* What LruTtlCache and ExpiringLruCache have in common: an LruCache inside *)
(* a wrapper whose entries expire.  The inner store is the sequence of its *)
(* entries, most recently used first (LruList and LruCache show that it is *)
(* one).                                                                   *)
(*                                                                         *)
(* The inner store evicts under check_capacity, calling on_evict for each  *)
(* victim; what the wrapper has to do for the same call comes after.  The  *)
(* callback may panic: the call ends where it is.                          *)
(***************************************************************************)
EXTENDS Naturals, Sequences, FiniteSets, Subsequences

CONSTANTS Keys,
          Absent,     \* no entry
          Never,      \* the expiry of an entry that does not expire
          Ttls,       \* the TTLs configured or set, 0 for no expiry
          EndOfTime,  \* the last representable Instant
          MaxSize,    \* bound: the largest capacity
          MaxTime,    \* bound: the clock
          MaxOps      \* bound: the operations of a behaviour

ASSUME BoundedStoreAssumption ==
    /\ Ttls \subseteq Nat
    /\ Never \notin Nat /\ Absent \notin Nat \cup {Never} /\ EndOfTime \in Nat
    /\ MaxSize \in Nat \ {0} /\ MaxTime \in Nat /\ MaxOps \in Nat

VARIABLES
    kind,                       \* which store it is
    clock,
    store,                      \* the entries, most recently used first
    capacity, size,             \* the inner store's bound, and LruTtlCache's copy of it
    ttl, refresh,               \* LruTtlCache's settings
    hits, misses,
    store_evictions,            \* counted by the inner store
    evictions,                  \* counted by the wrapper
    pc,                         \* "idle", or "check" in check_capacity
    displaced,                  \* the expiry of the entry cache_set displaced and has still to judge
    ops,
    entered, silent, replaced,  \* ghosts: entries stored, cleared, overwritten while live
    lost,                       \* ghost: entries dropped when their is_expired panicked
    resizing,                   \* ghost: set_max_size began and has not ended
    short                       \* ghost: a panic once cut a set_max_size short

settings == <<kind, capacity, size, ttl, refresh>>
metrics == <<hits, misses, store_evictions, evictions>>
ledger == <<entered, silent, replaced, lost>>
progress == <<pc, displaced, resizing, short>>
vars == <<clock, store, settings, metrics, progress, ops, ledger>>

Init ==
    /\ clock = 0
    /\ store = <<>>
    /\ capacity \in 1..MaxSize /\ size = capacity
    /\ \/ kind = "LruTtlCache" /\ ttl \in Ttls \ {0} /\ refresh \in BOOLEAN
       \/ kind = "ExpiringLruCache" /\ ttl = 0 /\ refresh = FALSE
    /\ hits = 0 /\ misses = 0 /\ store_evictions = 0 /\ evictions = 0
    /\ pc = "idle" /\ displaced = Absent
    /\ ops = 0
    /\ entered = 0 /\ silent = 0 /\ replaced = 0 /\ lost = 0
    /\ resizing = FALSE /\ short = FALSE

-----------------------------------------------------------------------------

Held == {store[i].key : i \in DOMAIN store}

EntryOf(k) == store[CHOOSE i \in DOMAIN store : store[i].key = k]

\* entry_live_at, and what is_expired denies: not at the deadline any more.
LiveUntil(exp) == exp # Never => clock < exp

Live(k) == k \in Held /\ LiveUntil(EntryOf(k).exp)

Without(gone) == Pick(store, {i \in DOMAIN store : store[i].key \notin gone})

\* The entry of k, with this expiry, at the front.
Fronted(k, exp) == <<[key |-> k, exp |-> exp]>> \o Without({k})

Begin ==
    /\ pc = "idle"
    /\ ops < MaxOps
    /\ ops' = ops + 1
    /\ UNCHANGED clock

Hit == hits' = hits + 1 /\ UNCHANGED misses
Miss == misses' = misses + 1 /\ UNCHANGED hits

\* Mutant: the wrapper counts what the inner store has counted.
CheckCountsTwice ==
    /\ pc = "check" /\ Len(store) > capacity
    /\ store' = SubSeq(store, 1, Len(store) - 1)
    /\ store_evictions' = store_evictions + 1
    /\ evictions' = evictions + 1
    /\ UNCHANGED <<clock, settings, hits, misses, progress, ops, ledger>>

\* A turn of the inner store's check_capacity: the last entry goes, counted.
\* on_evict returns or panics.
CheckCapacity ==
    /\ pc = "check" /\ Len(store) > capacity
    /\ store' = SubSeq(store, 1, Len(store) - 1)
    /\ store_evictions' = store_evictions + 1
    /\ \/ UNCHANGED progress
       \/ /\ pc' = "idle" /\ displaced' = Absent
          /\ resizing' = FALSE
          /\ short' = (short \/ resizing)
    /\ UNCHANGED <<clock, settings, hits, misses, evictions, ops, ledger>>

\* The inner store's set_max_size up to check_capacity; zero is refused.
SetMaxSize(n) ==
    /\ Begin
    /\ n # 0
    /\ capacity' = n
    /\ resizing' = TRUE
    /\ pc' = "check"
    /\ UNCHANGED <<kind, store, size, ttl, refresh, metrics, displaced, ledger, short>>

cache_clear ==
    /\ Begin
    /\ store' = <<>>
    /\ silent' = silent + Len(store)
    /\ UNCHANGED <<settings, metrics, progress, entered, replaced, lost>>

\* cache_reset empties the cache, cache_reset_metrics does not; both reset the
\* inner store's counters with their own.
cache_reset(clears) ==
    /\ Begin
    /\ store' = IF clears THEN <<>> ELSE store
    /\ hits' = 0 /\ misses' = 0 /\ store_evictions' = 0 /\ evictions' = 0
    /\ entered' = Len(store') /\ silent' = 0 /\ replaced' = 0 /\ lost' = 0
    /\ UNCHANGED <<settings, progress>>

\* Time passes, also while on_evict runs.
Tick ==
    /\ clock < MaxTime
    /\ clock' = clock + 1
    /\ UNCHANGED <<store, settings, metrics, progress, ops, ledger>>

Done == pc = "idle" /\ ops = MaxOps /\ clock = MaxTime /\ UNCHANGED vars

\* What the two share.
Common ==
    \/ CheckCapacity \/ cache_clear \/ Tick \/ Done
    \/ \E clears \in BOOLEAN : cache_reset(clears)

-----------------------------------------------------------------------------

Counted ==
    Len(store) + silent + replaced + store_evictions + evictions + lost
        + (IF displaced # Absent THEN 1 ELSE 0)

\* Each entry that left is counted once, by the inner store or by the wrapper,
\* as long as no panic has cut a set_max_size short.  The exception is an entry
\* already displaced whose own is_expired panicked.
CountedOnce == ~short => entered = Counted

\* Between calls the store holds no more than capacity() reports, and the bound
\* LruTtlCache keeps a second time is the one the inner store enforces, unless a
\* panic cut a set_max_size short.
WithinReported ==
    pc = "idle" /\ ~short => Len(store) <= capacity /\ (kind = "LruTtlCache" => size = capacity)

\* The deadline of an entry that is not stored anew moves only by a hit that
\* refreshes under a TTL, and every such hit moves it to the whole TTL from now,
\* or past the end of time: switching expiry off takes no deadline from an
\* entry, and no TTL is too long to renew one.
DeadlineKept ==
    [][LET renews == hits' > hits /\ refresh /\ ttl # 0 IN
       /\ entered' = entered =>
              \A i \in DOMAIN store, j \in DOMAIN store' :
                 store[i].key = store'[j].key /\ store[i].exp # store'[j].exp => renews
       /\ renews => Head(store').exp = IF clock + ttl > EndOfTime THEN Never ELSE clock + ttl]_vars

\* "a panicking callback must never leave an entry removed-but-uncounted"
\* (the comment of LruTtlCache's set_entry), with no exception.
NeverUncounted == kind = "LruTtlCache" => entered = Counted
=============================================================================
