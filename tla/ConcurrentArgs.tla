--------------------------- MODULE ConcurrentArgs ---------------------------
(***************************************************************************)
(* #[concurrent_cached]: which attribute lists the macro accepts for which *)
(* functions, and what it generates: the store (sharded, Redis, redb or    *)
(* the user's), its builder calls and what becomes of its errors.          *)
(***************************************************************************)
EXTENDS MacroArgs

check_create_conflicts(attrs) ==
    "create" \in attrs =>
        ~(\/ has_ttl(attrs)
          \/ Given(attrs, {"refresh", "cache_prefix_block", "disk_dir", "durable",
                           "max_size", "max_size=0", "shards", "shards=0"}))

reject_cached_only_attrs(attrs) ==
    Given(attrs, {"result", "option", "sync_writes=default", "sync_writes=by_key",
                  "sync_writes_buckets", "sync_writes_buckets=0", "sync_lock=mutex",
                  "unsync_reads"})

\* A method needs in_impl, and only a method may have it.
ReceiverOK(attrs, item) == item.receiver <=> "in_impl" \in attrs

CompanionsOK(attrs) ==
    ("companions=false" \in attrs /\ "in_impl" \notin attrs) =>
        ~Given(attrs, {"companions_vis", "companions_vis=bad"})

GenericOK(attrs, item) == item.generic # "no" => "convert" \in attrs

\* `time`, `time_refresh` and `size` are turned down by name, the others are
\* turned down earlier or unknown.
RemovedOK(attrs) == ~Given(attrs, Removed)

ExpiresTtlOK(attrs) == "expires" \in attrs => ~has_ttl(attrs)

TtlOK(attrs) == resolve_ttl_duration(attrs)

ExpiresOK(attrs) ==
    "expires" \in attrs =>
        ~Given(attrs, {"redis", "disk", "ty", "create", "refresh", "cache_none", "cache_err"})

\* cache_err, cache_none and result_fallback against the return type and each other.
ReturnOK(attrs, item) ==
    /\ Given(attrs, {"cache_err", "result_fallback"}) => is_result_return_type(item)
    /\ "cache_none" \in attrs => is_option_return_type(item)
    /\ "result_fallback" \in attrs => ~Given(attrs, {"cache_err", "with_cached_flag"})

\* An Option has no place for a store's error.
SmartOptionOK(attrs, item) ==
    is_smart_option(attrs, item) => ~Given(attrs, {"redis", "disk", "ty", "create"})

FlagOK(attrs, item) == ~check_with_cache_flag(attrs, item)

FlagNoneOK(attrs, item) ==
    ("with_cached_flag" \in attrs /\ is_option_return_type(item)) => is_smart_option(attrs, item)

NameOK(attrs) == "name=bad" \notin attrs

KeyOK(attrs) == make_cache_key_type(attrs)

-----------------------------------------------------------------------------

\* The four ways to a store; each is the attributes it accepts and the store.
get_redis_cache_type_and_create(attrs) ==
    /\ ~Given(attrs, {"disk_dir", "durable"})
    /\ "ty" \in attrs => "create" \in attrs
    /\ check_create_conflicts(attrs)
    /\ "create" \notin attrs => has_ttl(attrs)

get_disk_cache_type_and_create(attrs) ==
    /\ "cache_prefix_block" \notin attrs
    /\ "ty" \in attrs => "create" \in attrs
    /\ check_create_conflicts(attrs)

\* Mutant: the attributes of the other backends are dropped.
ShardedTakesAll(attrs) ==
    /\ ~Given(attrs, {"shards=0", "max_size=0"})
    /\ "refresh" \in attrs => has_ttl(attrs)

get_sharded_cache_type_and_create(attrs) ==
    /\ ~Given(attrs, {"shards=0", "max_size=0"})
    /\ "refresh" \in attrs => has_ttl(attrs)
    /\ ~Given(attrs, {"cache_prefix_block", "disk_dir", "durable"})

get_custom_cache_type_and_create(attrs) ==
    {"ty", "create"} \subseteq attrs /\ check_create_conflicts(attrs)

ShardedStore(attrs) ==
    LET sized == "max_size" \in attrs
    IN IF "expires" \in attrs
       THEN IF sized THEN "ShardedExpiringLruCache" ELSE "ShardedExpiringCache"
       ELSE IF has_ttl(attrs) THEN IF sized THEN "ShardedLruTtlCache" ELSE "ShardedTtlCache"
       ELSE IF sized THEN "ShardedLruCache" ELSE "ShardedUnboundCache"

\* The default in-memory stores, whose operations cannot fail.
infallible_default(attrs) == ~Given(attrs, {"redis", "disk", "ty", "create"})

\* Which of them the list selects, and whether it passes.
StoreOK(attrs) ==
    /\ ~({"redis", "disk"} \subseteq attrs)
    /\ Given(attrs, {"redis", "disk"}) =>
           ~Given(attrs, {"shards", "shards=0", "max_size", "max_size=0"})
    /\ "redis" \in attrs => get_redis_cache_type_and_create(attrs)
    /\ "disk" \in attrs => get_disk_cache_type_and_create(attrs)
    /\ (Given(attrs, {"ty", "create"}) /\ ~Given(attrs, {"redis", "disk"})) =>
           get_custom_cache_type_and_create(attrs)
    /\ infallible_default(attrs) => get_sharded_cache_type_and_create(attrs)

StoreOf(attrs) ==
    IF infallible_default(attrs) THEN ShardedStore(attrs)
    ELSE IF "ty" \in attrs THEN "custom"
    ELSE IF "redis" \in attrs THEN "RedisCache" ELSE "RedbCache"

\* Mutant: result_fallback is accepted on every store.
FallibleTakesFallback(attrs, item) ==
    ~infallible_default(attrs) =>
        is_result_return_type(item) /\ ~Given(attrs, {"cache_none", "cache_err"})

\* What only the infallible stores allow.
FallibleOK(attrs, item) ==
    ~infallible_default(attrs) =>
        /\ is_result_return_type(item)
        /\ ~Given(attrs, {"cache_none", "cache_err", "result_fallback"})

\* A fallback needs entries that expire.
FallbackOK(attrs) == "result_fallback" \in attrs => has_ttl(attrs) \/ "expires" \in attrs

MapErrorOK(attrs) ==
    /\ "map_error=bad" \notin attrs
    /\ "map_error" \in attrs => ~infallible_default(attrs)

CompanionsVisOK(attrs) == "companions_vis=bad" \notin attrs

ForceOK(attrs) == parse_force_refresh_block(attrs)

Accepts(attrs, item) ==
    /\ ~reject_cached_only_attrs(attrs)
    /\ ReceiverOK(attrs, item) /\ CompanionsOK(attrs) /\ GenericOK(attrs, item)
    /\ RemovedOK(attrs) /\ ExpiresTtlOK(attrs) /\ TtlOK(attrs) /\ ExpiresOK(attrs)
    /\ ReturnOK(attrs, item) /\ SmartOptionOK(attrs, item)
    /\ FlagOK(attrs, item) /\ FlagNoneOK(attrs, item) /\ NameOK(attrs) /\ KeyOK(attrs)
    /\ StoreOK(attrs) /\ FallibleOK(attrs, item) /\ FallbackOK(attrs) /\ MapErrorOK(attrs)
    /\ CompanionsVisOK(attrs) /\ ForceOK(attrs)

-----------------------------------------------------------------------------

\* The builder calls of the store that is generated; create replaces them all.
BuilderOf(attrs) ==
    IF "create" \in attrs THEN {"create"}
    ELSE attrs \cap (TtlSettings \cup
             CASE StoreOf(attrs) = "RedisCache" -> {"refresh", "cache_prefix_block"}
               [] StoreOf(attrs) = "RedbCache" -> {"refresh", "durable", "disk_dir"}
               [] StoreOf(attrs) \in {"ShardedTtlCache", "ShardedLruTtlCache"} -> {"refresh", "shards"}
               [] OTHER -> {"shards"})

\* What becomes of a store's error.
UnwrapOf(attrs) ==
    IF infallible_default(attrs) THEN "expect" ELSE IF "map_error" \in attrs THEN "map_err" ELSE "?"

\* The trait method of the lookup.
LookupOf(attrs) ==
    IF "result_fallback" \in attrs THEN "cache_get_with_expiry_status" ELSE "cache_get"

ReturnBlock(attrs) == IF "with_cached_flag" \in attrs THEN "set_was_cached" ELSE "clone"

Companions(attrs) ==
    IF "in_impl" \in attrs THEN {"no_cache"}
    ELSE IF "companions=false" \in attrs THEN {} ELSE {"prime_cache"}

Expansion(attrs, item) ==
    [store      |-> StoreOf(attrs),
     builder    |-> BuilderOf(attrs),
     key        |-> IF StoreOf(attrs) = "custom" THEN "custom" ELSE KeyType(attrs),
     convert    |-> KeyConversion(attrs),
     value      |-> find_value_type(attrs, item),
     hit        |-> ReturnBlock(attrs),
     unwrap     |-> UnwrapOf(attrs),
     lookup     |-> LookupOf(attrs),
     name       |-> "name" \in attrs,
     force      |-> build_force_refresh_guard(attrs),
     companions |-> Companions(attrs),
     vis        |-> IF Companions(attrs) = {} THEN "none"
                    ELSE IF "companions_vis" \in attrs THEN "given" ELSE "inherited"]

\* The stores that hand out expired values, ConcurrentCloneCached.
ConcurrentCloneCachedStores ==
    {"ShardedTtlCache", "ShardedLruTtlCache", "ShardedExpiringCache", "ShardedExpiringLruCache"}

-----------------------------------------------------------------------------

\* Every accepted list generates calls its store has: cache_get_with_expiry_status
\* only on a ConcurrentCloneCached store; a store that can fail only under a
\* function that can return its error; and `expect` only on one that cannot.
CallsSupported(attrs, item) ==
    Accepts(attrs, item) =>
        LET e == Expansion(attrs, item)
        IN /\ e.lookup = "cache_get_with_expiry_status" =>
                  e.store \in ConcurrentCloneCachedStores /\ e.value = "inner"
           /\ e.store \in {"RedisCache", "RedbCache", "custom"} <=> e.unwrap # "expect"
           /\ e.unwrap # "expect" => is_result_return_type(item)

\* What the macro accepts although it changes nothing: the key type and the
\* backend of a store that names its own, and companions=false on a method.
Redundant(attrs, s) ==
    \/ s \in {"key", "redis", "disk"} /\ "ty" \in attrs
    \/ s = "companions=false" /\ "in_impl" \in attrs

\* No other attribute of an accepted list is without effect: leaving it out
\* generates different code or is an error.
NothingIgnored(attrs, item) ==
    Accepts(attrs, item) =>
        \A s \in attrs :
            \/ Redundant(attrs, s)
            \/ ~Accepts(attrs \ {s}, item)
            \/ Expansion(attrs \ {s}, item) # Expansion(attrs, item)

\* The value a hit marks with set_was_cached is a cached::Return.
FlagTyped(attrs, item) ==
    (Accepts(attrs, item) /\ "with_cached_flag" \in attrs) => EntryIsReturn(attrs, item)
=============================================================================
