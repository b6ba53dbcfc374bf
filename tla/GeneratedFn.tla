---------------------------- MODULE GeneratedFn ----------------------------
(***************************************************************************)
(* What the functions that the three macros generate have in common: the   *)
(* threads that call one, the store behind it and the lock it may hold     *)
(* while the body runs.                                                    *)
(***************************************************************************)
EXTENDS Naturals

CONSTANTS Threads,          \* the callers
          NoThread,         \* the owner of a free lock
          Keys,             \* what a function's arguments convert to
          Buckets,          \* KeyedCache's per-key locks
          bucket_for,       \* KeyedCache::bucket_for, a function of the key
          Empty,            \* no entry for the key, no value in the static
          Err,              \* an Err of the body or of the store
          Ttl,              \* the time to live of the value of #[once]
          MaxTime,          \* bound: the clock stops here
          MaxCalls          \* bound: the calls made in one behaviour

ASSUME ConstantsAssumption ==
    /\ NoThread \notin Threads
    /\ Keys # {}
    /\ bucket_for \in [Keys -> Buckets]
    /\ Ttl \in Nat \ {0}
    /\ MaxTime \in Nat
    /\ MaxCalls \in Nat
    /\ Err \notin Nat
    /\ Empty \notin Nat
    /\ Empty \notin [val : Nat, fresh : BOOLEAN]

VARIABLES
    macro,              \* "cached", "once" or "concurrent_cached"
    sync_writes,        \* its argument: "Disabled", "Default" or "ByKey"
    result_fallback,    \* its argument: an Err falls back to a cached value
    pc,                 \* where each thread is
    call,               \* what each thread is calling: number, key, force_refresh, prime
    result,             \* __cached_result of each thread, once its body has returned
    old,                \* __cached_old_val: what the lookup of result_fallback found
    writer,             \* the thread that holds the cache lock across its body
    cache,              \* the store: an entry, possibly expired, for each key
    calls               \* the calls made so far

Entry == [val : Nat, fresh : BOOLEAN]

Call == [id : Nat, key : Keys, force : BOOLEAN, prime : BOOLEAN]

NoCall == [id |-> 0, key |-> CHOOSE k \in Keys : TRUE, force |-> FALSE, prime |-> FALSE]

\* Nobody has called the function.
Uncalled ==
    /\ pc = [t \in Threads |-> "idle"]
    /\ call = [t \in Threads |-> NoCall]
    /\ result = [t \in Threads |-> Err]
    /\ old = [t \in Threads |-> Empty]
    /\ writer = NoThread
    /\ cache = [k \in Keys |-> Empty]
    /\ calls = 0

-----------------------------------------------------------------------------

Fresh(k) == cache[k] # Empty /\ cache[k].fresh

BucketOf(t) == bucket_for[call[t].key]

Goto(t, label) == pc' = [pc EXCEPT ![t] = label]

\* The thread calls the function, or its companion {fn}_prime_cache, for key k;
\* the force_refresh predicate, evaluated once, is f.
Calls(t, k, f, p) ==
    /\ pc[t] = "idle"
    /\ calls < MaxCalls
    /\ calls' = calls + 1
    /\ call' = [call EXCEPT ![t] = [id |-> calls + 1, key |-> k, force |-> f, prime |-> p]]

-----------------------------------------------------------------------------

\* The thread runs the body, for the function itself.
Computing(t) == pc[t] = "body" /\ ~call[t].prime

\* sync_writes: two callers never run the body at the same time, for any key in
\* Default mode, and for keys of one bucket in ByKey mode.
OneBodyAtATime ==
    \A t, u \in Threads :
        (t # u /\ Computing(t) /\ Computing(u)) =>
            \/ sync_writes = "Disabled"
            \/ sync_writes = "ByKey" /\ BucketOf(t) # BucketOf(u)

\* Every call returns, whoever panics or is dropped: each thread is idle again
\* and again, so none is left waiting for a lock.
EveryCallReturns == \A t \in Threads : []<>(pc[t] = "idle")
=============================================================================
