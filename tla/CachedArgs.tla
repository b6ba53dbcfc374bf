----------------------------- MODULE CachedArgs -----------------------------
(***************************************************************************)
(* #[cached]: which attribute lists the macro accepts for which functions, *)
(* and what it generates for them: the store, the lock, the lookup and the *)
(* companions.                                                             *)
(***************************************************************************)
EXTENDS MacroArgs

nest_origin_fn(attrs) == "companions=false" \in attrs /\ "in_impl" \notin attrs

CompanionsVisOK(attrs) == "companions_vis=bad" \notin attrs

\* A method needs in_impl, and only a method may have it.
ReceiverOK(attrs, item) == item.receiver <=> "in_impl" \in attrs

\* The visibility of companions that are not there.
CompanionsOK(attrs) == nest_origin_fn(attrs) => ~Given(attrs, {"companions_vis", "companions_vis=bad"})

\* The cache is one static: its key cannot name a type parameter.
GenericOK(attrs, item) == item.generic # "no" => "convert" \in attrs

SizeOK(attrs) == "max_size=0" \notin attrs

ExpiresTtlOK(attrs) == "expires" \in attrs => ~has_ttl(attrs)

TtlOK(attrs) == resolve_ttl_duration(attrs)

RemovedOK(attrs) == ~Given(attrs, Removed)

\* Per-value expiry chooses the store itself, and the value it stores must
\* be the one that expires.
ExpiresStoreOK(attrs) ==
    "expires" \in attrs =>
        ~Given(attrs, {"ty", "create", "with_cached_flag", "unsync_reads", "refresh"})

\* Mutant: a refresh without a ttl is let through.
RefreshAnywhere(attrs) == TRUE

\* There must be a ttl to renew.
RefreshOK(attrs) ==
    "refresh" \in attrs => has_ttl(attrs) \/ Given(attrs, {"expires", "create"})

ExpiresValueOK(attrs) == "expires" \in attrs => ~Given(attrs, {"cache_none", "cache_err"})

FlagOK(attrs, item) == ~check_with_cache_flag(attrs, item)

\* cache_err, cache_none and result_fallback against the return type and each other.
ReturnOK(attrs, item) ==
    /\ "cache_err" \in attrs => is_result_return_type(item) /\ "result_fallback" \notin attrs
    /\ "cache_none" \in attrs => is_option_return_type(item)
    /\ "with_cached_flag" \in attrs => ~Given(attrs, {"result_fallback", "cache_none"})

NameOK(attrs) == "name=bad" \notin attrs

KeyOK(attrs) == make_cache_key_type(attrs)

check_create_conflicts(attrs) ==
    "create" \in attrs => ~(has_ttl(attrs) \/ Given(attrs, {"refresh", "max_size", "max_size=0"}))

\* The store the attributes choose, "error" where they choose none.
StoreOf(attrs) ==
    LET sized == Given(attrs, {"max_size", "max_size=0"})
        custom == Given(attrs, {"ty", "create"})
    IN IF "expires" \in attrs THEN IF sized THEN "ExpiringLruCache" ELSE "ExpiringCache"
       ELSE IF custom THEN IF {"ty", "create"} \subseteq attrs /\ ~sized /\ ~has_ttl(attrs)
                           THEN "custom" ELSE "error"
       ELSE IF has_ttl(attrs) THEN IF sized THEN "LruTtlCache" ELSE "TtlCache"
       ELSE IF sized THEN "LruCache" ELSE "UnboundCache"

\* Mutant: buckets are accepted in every mode.
BucketsAnywhere(attrs) == validate_sync_writes_buckets(attrs)

\* The number of buckets means something to by_key alone.
BucketsOK(attrs) ==
    /\ Given(attrs, {"sync_writes_buckets", "sync_writes_buckets=0"}) =>
           SyncWriteMode(attrs) = "ByKey"
    /\ validate_sync_writes_buckets(attrs)

\* Mutant: the check that the store can return an expired value is missing.
FallbackOnAnyStore(attrs, item) ==
    "result_fallback" \in attrs =>
        /\ SyncWriteMode(attrs) = "Disabled"
        /\ is_result_return_type(item)

\* A fallback needs a Result, a store that returns expired values, and no lock
\* held across the body.
FallbackOK(attrs, item) ==
    "result_fallback" \in attrs =>
        /\ SyncWriteMode(attrs) = "Disabled"
        /\ is_result_return_type(item)
        /\ has_ttl(attrs) \/ Given(attrs, {"ty", "expires"})

\* A shared lookup needs a lock that can be shared and a store that can be read
\* without changing it.
UnsyncOK(attrs) ==
    "unsync_reads" \in attrs =>
        /\ "sync_lock=mutex" \notin attrs
        /\ "ty" \in attrs \/ ~(has_ttl(attrs) \/ Given(attrs, {"max_size", "max_size=0"}))

ForceOK(attrs) == parse_force_refresh_block(attrs)

Accepts(attrs, item) ==
    /\ ~reject_concurrent_only_attrs(attrs)
    /\ CompanionsVisOK(attrs) /\ CompanionsOK(attrs)
    /\ ReceiverOK(attrs, item) /\ GenericOK(attrs, item)
    /\ SizeOK(attrs) /\ ExpiresTtlOK(attrs) /\ TtlOK(attrs) /\ RemovedOK(attrs)
    /\ ExpiresStoreOK(attrs) /\ RefreshOK(attrs) /\ ExpiresValueOK(attrs)
    /\ FlagOK(attrs, item) /\ ReturnOK(attrs, item)
    /\ NameOK(attrs) /\ KeyOK(attrs)
    /\ check_create_conflicts(attrs) /\ StoreOf(attrs) # "error"
    /\ BucketsOK(attrs) /\ FallbackOK(attrs, item) /\ UnsyncOK(attrs) /\ ForceOK(attrs)

-----------------------------------------------------------------------------

\* refresh_on_hit, which only the builders of the ttl stores are given.
RefreshOf(attrs) ==
    StoreOf(attrs) \in {"TtlCache", "LruTtlCache"} /\ "refresh" \in attrs

\* What tells a hit from a miss on the way out: the flag set on the clone.
ReturnBlock(attrs) == IF "with_cached_flag" \in attrs THEN "set_was_cached" ELSE "clone"

LockType(attrs) == IF "sync_lock=mutex" \in attrs THEN "Mutex" ELSE "RwLock"

\* The static: a plain lock, or a KeyedCache with its buckets.
StaticOf(attrs) ==
    IF SyncWriteMode(attrs) # "ByKey" THEN "lock"
    ELSE IF "sync_writes_buckets" \in attrs THEN "keyed" ELSE "keyed_64"

\* The trait method of the lookup.
LookupOf(attrs) ==
    IF "result_fallback" \in attrs THEN "cache_get_with_expiry_status"
    ELSE IF "unsync_reads" \in attrs THEN "cache_get_read" ELSE "cache_get"

\* The visible companions: in an impl only the hidden origin, next to a free
\* function the origin and the prime function, and neither when nested.
Companions(attrs) ==
    IF "in_impl" \in attrs THEN {"no_cache"}
    ELSE IF "companions=false" \in attrs THEN {} ELSE {"no_cache", "prime_cache"}

Expansion(attrs, item) ==
    [store       |-> StoreOf(attrs),
     ttl         |-> attrs \cap TtlSettings,
     refresh     |-> RefreshOf(attrs),
     key         |-> IF StoreOf(attrs) = "custom" THEN "custom" ELSE KeyType(attrs),
     convert     |-> KeyConversion(attrs),
     value       |-> find_value_type(attrs, item),
     hit         |-> ReturnBlock(attrs),
     lock        |-> LockType(attrs),
     static      |-> StaticOf(attrs),
     name        |-> "name" \in attrs,
     sync_writes |-> SyncWriteMode(attrs),
     lookup      |-> LookupOf(attrs),
     force       |-> build_force_refresh_guard(attrs),
     companions  |-> Companions(attrs),
     vis         |-> IF Companions(attrs) = {} THEN "none"
                     ELSE IF "companions_vis" \in attrs THEN "given" ELSE "inherited"]

\* The traits of the stores beside Cached.
CachedReadStores == {"UnboundCache", "TtlSortedCache", "custom"}
CloneCachedStores ==
    {"TtlCache", "LruTtlCache", "TtlSortedCache", "ExpiringCache", "ExpiringLruCache", "custom"}

-----------------------------------------------------------------------------

\* Every accepted list generates lookups its store has: cache_get_read only on a
\* CachedRead store behind a lock that can be shared, cache_get_with_expiry_status
\* only on a CloneCached store; and result_fallback never runs with a lock held
\* across the body.
CallsSupported(attrs, item) ==
    Accepts(attrs, item) =>
        LET e == Expansion(attrs, item)
        IN /\ e.lookup = "cache_get_read" => e.store \in CachedReadStores /\ e.lock = "RwLock"
           /\ e.lookup = "cache_get_with_expiry_status" =>
                  /\ e.store \in CloneCachedStores
                  /\ e.sync_writes = "Disabled"
                  /\ e.value = "inner" /\ is_result_return_type(item)

\* What the macro accepts although it changes nothing: the key type of a store
\* that names its own, and companions=false on a method, which has no prime
\* companion; and unsync_reads beside result_fallback, whose lookup takes the
\* write lock.
Redundant(attrs, s) ==
    \/ s = "key" /\ "ty" \in attrs
    \/ s = "companions=false" /\ "in_impl" \in attrs
    \/ s = "unsync_reads" /\ "result_fallback" \in attrs

\* No other attribute of an accepted list is without effect: leaving it out
\* generates different code or is an error.
NothingIgnored(attrs, item) ==
    Accepts(attrs, item) =>
        \A s \in attrs :
            \/ Redundant(attrs, s)
            \/ ~Accepts(attrs \ {s}, item)
            \/ Expansion(attrs \ {s}, item) # Expansion(attrs, item)

\* The value a hit marks with set_was_cached is a cached::Return.
FlagTyped(attrs, item) ==
    (Accepts(attrs, item) /\ "with_cached_flag" \in attrs) => EntryIsReturn(attrs, item)
=============================================================================
