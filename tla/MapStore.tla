------------------------------ MODULE MapStore ------------------------------
(***************************************************************************)
(* What the single-owner stores over one hash map have in common: the map, *)
(* the counters, and the user code that runs inside an operation.          *)
(*                                                                         *)
(* The owner runs one operation at a time.  An operation is one step up to *)
(* its factory or its first on_evict callback, which are the user's: time  *)
(* passes in them, and they may panic (or, for an async factory, be        *)
(* dropped).  The operation then ends where it is and the store is used    *)
(* again as it was left.                                                   *)
(***************************************************************************)
EXTENDS Naturals, FiniteSets

CONSTANTS Keys,
          Absent,     \* no entry
          Never,      \* the expiry of an entry that does not expire
          Ttls,       \* the TTLs configured or set, 0 for no expiry
          EndOfTime,  \* the last representable Instant
          MaxTime,    \* bound: the clock
          MaxOps      \* bound: the operations of a behaviour

ASSUME MapStoreAssumption ==
    /\ Ttls \subseteq Nat /\ Keys # {}
    /\ Never \notin Nat /\ EndOfTime \in Nat
    /\ MaxTime \in Nat /\ MaxOps \in Nat
    /\ Absent \notin [val : Nat, exp : Nat \cup {Never}]

VARIABLES
    kind,                       \* which store it is
    clock,
    store,                      \* the map
    ttl, refresh,               \* TtlCache's settings
    hits, misses, evictions,
    pc,                         \* "idle", or the user code the operation is in
    key,                        \* the key of the running get-or-set
    removed,                    \* the entries on_evict has still to be told of
    ops,
    lookups,                    \* ghost: lookups since the metrics were reset
    entered, silent, replaced,  \* ghosts: entries stored, cleared, overwritten while live
    lost,                       \* ghost: entries dropped when their is_expired panicked
    notified,                   \* ghost: the values on_evict was told of
    cut                         \* ghost: those of them whose retain on_evict's panic cut short

settings == <<kind, ttl, refresh>>
metrics == <<hits, misses, evictions>>
ledger == <<entered, silent, replaced, lost>>
vars == <<clock, store, settings, metrics, pc, key, removed, ops, lookups, ledger, notified, cut>>

Entry == [val : Nat, exp : Nat \cup {Never}]

Init ==
    /\ clock = 0
    /\ store = [k \in Keys |-> Absent]
    /\ kind \in {"TtlCache", "ExpiringCache", "UnboundCache"}
    /\ IF kind = "TtlCache" THEN ttl \in Ttls \ {0} /\ refresh \in BOOLEAN
       ELSE ttl = 0 /\ refresh = FALSE
    /\ hits = 0 /\ misses = 0 /\ evictions = 0
    /\ pc = "idle" /\ key = CHOOSE k \in Keys : TRUE
    /\ removed = {}
    /\ ops = 0 /\ lookups = 0
    /\ entered = 0 /\ silent = 0 /\ replaced = 0 /\ lost = 0
    /\ notified = {} /\ cut = {}

-----------------------------------------------------------------------------

Held == {k \in Keys : store[k] # Absent}

\* entry_live and is_expired: an entry is gone at the instant it expires.
Live(k) == k \in Held /\ (store[k].exp # Never => clock < store[k].exp)

Begin ==
    /\ pc = "idle"
    /\ ops < MaxOps
    /\ ops' = ops + 1
    /\ UNCHANGED <<clock, settings, notified, cut>>

Hit == hits' = hits + 1 /\ lookups' = lookups + 1 /\ UNCHANGED misses
Miss == misses' = misses + 1 /\ lookups' = lookups + 1 /\ UNCHANGED hits

\* The map without these entries.
Without(gone) == [k \in Keys |-> IF k \in gone THEN Absent ELSE store[k]]

\* The map with a new entry for k, valued by the number of the operation.
With(k, exp) == [store EXCEPT ![k] = [val |-> ops', exp |-> exp]]

\* on_evict will be told of these entries.
Report(entries) ==
    /\ removed' = entries
    /\ pc' = IF entries = {} THEN "idle" ELSE "notify"

\* on_evict is told of an entry.  It returns, or panics and ends the operation.
Notify ==
    /\ pc = "notify"
    /\ \E e \in removed :
          /\ notified' = notified \cup {e.val}
          /\ Report(removed \ {e}) \/ Report({})
    /\ UNCHANGED <<clock, store, settings, metrics, key, ops, lookups, ledger, cut>>

\* The factory returns Err, panics, or its future is dropped: nothing is stored.
FactoryFails ==
    /\ pc = "factory"
    /\ pc' = "idle"
    /\ UNCHANGED <<clock, store, settings, metrics, key, removed, ops, lookups, ledger, notified, cut>>

\* cache_clear: the entries go without being counted or reported.
cache_clear ==
    /\ Begin
    /\ store' = Without(Keys)
    /\ silent' = silent + Cardinality(Held)
    /\ UNCHANGED <<metrics, pc, key, removed, lookups, entered, replaced, lost>>

\* cache_reset_metrics, and cache_reset which clears the map first.
ResetMetrics(entries) ==
    /\ hits' = 0 /\ misses' = 0 /\ evictions' = 0
    /\ lookups' = 0 /\ entered' = entries /\ silent' = 0 /\ replaced' = 0 /\ lost' = 0
    /\ UNCHANGED <<pc, key, removed>>

cache_reset_metrics == Begin /\ ResetMetrics(Cardinality(Held)) /\ UNCHANGED store

cache_reset == Begin /\ store' = Without(Keys) /\ ResetMetrics(0)

Tick ==
    /\ clock < MaxTime
    /\ clock' = clock + 1
    /\ UNCHANGED <<store, settings, metrics, pc, key, removed, ops, lookups, ledger, notified, cut>>

Done ==
    /\ pc = "idle" /\ ops = MaxOps /\ clock = MaxTime
    /\ UNCHANGED vars

\* What the stores share.
Common == Notify \/ FactoryFails \/ cache_clear \/ cache_reset_metrics \/ cache_reset \/ Tick \/ Done

-----------------------------------------------------------------------------

\* Every entry that was stored is in the map, or was cleared, handed back by an
\* overwrite or counted as evicted, exactly once, wherever a factory failed or
\* a callback panicked.  The exception is an entry already displaced whose own
\* is_expired panicked.  UnboundCache does not count evictions.
\* Each lookup is a hit or a miss, those whose factory failed included.
Accounted ==
    /\ kind # "UnboundCache" => entered = Cardinality(Held) + silent + replaced + evictions + lost
    /\ hits + misses = lookups

Stored == {store[k].val : k \in Held}

\* on_evict is told of a value at most once and when it has left the map, so a
\* value cleaned up is never served.  The exception is the value whose callback
\* panicked inside UnboundCache::retain.
ReportedOnce ==
    /\ notified \cap Stored \subseteq cut
    /\ pc = "notify" => {e.val : e \in removed} \cap (Stored \cup notified) \subseteq cut

\* "retain and evict no longer fire on_evict for entries that remain in the
\* cache": no exception.
NotifiedGone == notified \cap Stored = {}

\* A value stored in TtlCache, by whichever operation and however long its
\* factory took, has the whole TTL ahead of it.
FullLifetime ==
    [][kind = "TtlCache" =>
          \A k \in Keys :
              store'[k] # Absent /\ (store[k] = Absent \/ store[k].val # store'[k].val) =>
                  store'[k].exp = Never \/ store'[k].exp - clock = ttl]_vars
=============================================================================
