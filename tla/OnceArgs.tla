------------------------------ MODULE OnceArgs ------------------------------
(***************************************************************************)
(* #[once]: which attribute lists the macro accepts for which functions,   *)
(* and what it generates: an Option in a read-write lock, its expiry test  *)
(* and the companion.                                                      *)
(***************************************************************************)
EXTENDS MacroArgs

reject_once_specific_attrs(attrs) == "create" \in attrs

\* A method needs in_impl, and only a method may have it.
ReceiverOK(attrs, item) == item.receiver <=> "in_impl" \in attrs

CompanionsOK(attrs) ==
    ("companions=false" \in attrs /\ "in_impl" \notin attrs) =>
        ~Given(attrs, {"companions_vis", "companions_vis=bad"})

\* Of the attributes of earlier versions `time`, `result` and `option` are turned
\* down by name; the others are unknown to the macro.
RemovedOK(attrs) == ~Given(attrs, Removed)

ExpiresTtlOK(attrs) == "expires" \in attrs => ~has_ttl(attrs)

TtlOK(attrs) == resolve_ttl_duration(attrs)

LockOK(attrs) == ~Given(attrs, {"sync_lock=mutex", "unsync_reads"})

\* Mutant: the attributes of a keyed store are taken and dropped.
KeyedTaken(attrs) == ~Given(attrs, {"result_fallback", "max_size", "max_size=0", "ty"})

\* One value for all arguments has no keys, no size, no store to choose, and
\* nothing to renew or fall back to.
KeyedOK(attrs) ==
    ~Given(attrs, {"result_fallback", "refresh", "max_size", "max_size=0", "ty", "key", "convert"})

ExpiresValueOK(attrs) ==
    "expires" \in attrs => ~Given(attrs, {"with_cached_flag", "cache_none", "cache_err"})

FlagOK(attrs, item) == ~check_with_cache_flag(attrs, item)

ReturnOK(attrs, item) ==
    /\ "cache_err" \in attrs => is_result_return_type(item)
    /\ "cache_none" \in attrs => is_option_return_type(item) /\ "with_cached_flag" \notin attrs

\* The static cannot hold a value whose type names a type parameter.
GenericOK(item) == item.generic # "value"

NameOK(attrs) == "name=bad" \notin attrs

\* by_key and its buckets need keys.
SyncOK(attrs) ==
    /\ ~Given(attrs, {"sync_writes_buckets", "sync_writes_buckets=0"})
    /\ SyncWriteMode(attrs) # "ByKey"

ForceOK(attrs) == parse_force_refresh_block(attrs)

CompanionsVisOK(attrs) == "companions_vis=bad" \notin attrs

Accepts(attrs, item) ==
    /\ ~reject_concurrent_only_attrs(attrs) /\ ~reject_once_specific_attrs(attrs)
    /\ ReceiverOK(attrs, item) /\ CompanionsOK(attrs) /\ RemovedOK(attrs)
    /\ ExpiresTtlOK(attrs) /\ TtlOK(attrs) /\ LockOK(attrs) /\ KeyedOK(attrs)
    /\ ExpiresValueOK(attrs) /\ FlagOK(attrs, item) /\ ReturnOK(attrs, item)
    /\ GenericOK(item) /\ NameOK(attrs) /\ SyncOK(attrs) /\ ForceOK(attrs)
    /\ CompanionsVisOK(attrs)

-----------------------------------------------------------------------------

\* The static: the value alone, or with the instant it was stored at.
StoreOf(attrs) == IF has_ttl(attrs) THEN "Option<(Instant, V)>" ELSE "Option<V>"

\* The test between a value found and a value returned.
gen_return_cache_block(attrs) ==
    IF "expires" \in attrs THEN "is_expired" ELSE IF has_ttl(attrs) THEN "age" ELSE "none"

ReturnBlock(attrs) == IF "with_cached_flag" \in attrs THEN "set_was_cached" ELSE "clone"

\* The visible companions; the origin of a free function is always nested.
Companions(attrs) ==
    IF "in_impl" \in attrs THEN {"no_cache"}
    ELSE IF "companions=false" \in attrs THEN {} ELSE {"prime_cache"}

Expansion(attrs, item) ==
    [store       |-> StoreOf(attrs),
     ttl         |-> attrs \cap TtlSettings,
     expiry      |-> gen_return_cache_block(attrs),
     value       |-> find_value_type(attrs, item),
     hit         |-> ReturnBlock(attrs),
     name        |-> "name" \in attrs,
     sync_writes |-> SyncWriteMode(attrs),
     force       |-> build_force_refresh_guard(attrs),
     companions  |-> Companions(attrs),
     vis         |-> IF Companions(attrs) = {} THEN "none"
                     ELSE IF "companions_vis" \in attrs THEN "given" ELSE "inherited"]

-----------------------------------------------------------------------------

\* What the macro accepts although it changes nothing: companions=false on a
\* method, which has no prime companion.
Redundant(attrs, s) == s = "companions=false" /\ "in_impl" \in attrs

\* No other attribute of an accepted list is without effect: leaving it out
\* generates different code or is an error.
NothingIgnored(attrs, item) ==
    Accepts(attrs, item) =>
        \A s \in attrs :
            \/ Redundant(attrs, s)
            \/ ~Accepts(attrs \ {s}, item)
            \/ Expansion(attrs \ {s}, item) # Expansion(attrs, item)

\* The value a hit marks with set_was_cached is a cached::Return.
FlagTyped(attrs, item) ==
    (Accepts(attrs, item) /\ "with_cached_flag" \in attrs) => EntryIsReturn(attrs, item)
=============================================================================
