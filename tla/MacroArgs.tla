----------------------------- MODULE MacroArgs -----------------------------
(***************************************************************************)
(* What the attribute macros share: how an attribute list and the function *)
(* under it are read.                                                      *)
(*                                                                         *)
(* An attribute list is the set of its settings.  A setting is named after *)
(* its attribute, followed by its value where the macro tells values apart *)
(* ("max_size" is a size of at least 1, "max_size=0" is not; "=bad" is a   *)
(* value that does not parse).  Writing a default is writing nothing.      *)
(* item is the function: its return type (ret), whether the value in it is *)
(* a cached::Return (wrapped), whether it takes self (receiver), and where *)
(* it uses a type parameter (generic: "no", "key" or "value").             *)
(***************************************************************************)

Given(attrs, settings) == attrs \cap settings # {}

TtlSettings == {"ttl", "ttl=bad", "ttl_secs", "ttl_secs=0", "ttl_millis", "ttl_millis=0"}

\* At most one of the three, and not zero.
resolve_ttl_duration(attrs) ==
    /\ ~Given(attrs, {"ttl=bad", "ttl_secs=0", "ttl_millis=0"})
    /\ \A x, y \in attrs \cap TtlSettings : x = y

has_ttl(attrs) == Given(attrs, TtlSettings)

\* The attributes of #[concurrent_cached] that the other two macros turn down.
reject_concurrent_only_attrs(attrs) ==
    Given(attrs, {"disk", "redis", "map_error", "map_error=bad", "shards", "shards=0", "durable",
                  "disk_dir", "cache_prefix_block"})

\* The attributes of earlier versions.
Removed == {"time", "time_refresh", "unbound", "size", "result", "option"}

\* The parsed `sync_writes`, with its default.
SyncWriteMode(attrs) ==
    IF "sync_writes=by_key" \in attrs THEN "ByKey"
    ELSE IF "sync_writes=default" \in attrs THEN "Default" ELSE "Disabled"

validate_sync_writes_buckets(attrs) == "sync_writes_buckets=0" \notin attrs

is_result_return_type(item) == item.ret = "Result"

is_option_return_type(item) == item.ret = "Option"

\* Only the Ok of a Result, or the Some of an Option, is cached, unless the
\* list says otherwise.
is_smart_result(attrs, item) == is_result_return_type(item) /\ "cache_err" \notin attrs

is_smart_option(attrs, item) == is_option_return_type(item) /\ "cache_none" \notin attrs

\* What an entry holds: the inner value of the return type, or all of it.
find_value_type(attrs, item) ==
    IF is_smart_result(attrs, item) \/ is_smart_option(attrs, item) THEN "inner" ELSE "whole"

\* The return type is a cached::Return, bare or in a Result or an Option.
type_is_cached_return(item) == item.wrapped

\* with_cached_flag on a function that returns anything else.
check_with_cache_flag(attrs, item) == "with_cached_flag" \in attrs /\ ~type_is_cached_return(item)

\* What an entry holds is a cached::Return itself.
EntryIsReturn(attrs, item) ==
    item.wrapped /\ (item.ret = "plain" \/ find_value_type(attrs, item) = "inner")

\* Which key lists are accepted, and the type and the expression of the key.
make_cache_key_type(attrs) ==
    /\ "key" \in attrs => "convert" \in attrs
    /\ "convert" \in attrs => Given(attrs, {"key", "ty"})

KeyType(attrs) == IF "key" \in attrs THEN "given" ELSE IF "convert" \in attrs THEN "none" ELSE "derived"

KeyConversion(attrs) == IF "convert" \in attrs THEN "given" ELSE "derived"

\* A literal is not a predicate.
parse_force_refresh_block(attrs) == "force_refresh=lit" \notin attrs

\* The predicate that guards every hit, or the constant.
build_force_refresh_guard(attrs) == "force_refresh" \in attrs
=============================================================================
