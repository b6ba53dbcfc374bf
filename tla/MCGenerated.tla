---------------------------- MODULE MCGenerated ----------------------------
(***************************************************************************)
(* The macros and the functions they generate, for TLC: a behaviour starts *)
(* with one of the macros over some attribute list and some function.      *)
(* Expand turns the list down or builds the function, with the modes the   *)
(* list asks for, and then its callers run.  Every key but k3 shares the   *)
(* bucket b1.                                                              *)
(***************************************************************************)
EXTENDS CachedFn, OnceFn, ConcurrentCachedFn

CONSTANTS k3, b1, b2,
          MaxParts          \* bound: the parts of an attribute list

VARIABLES
    attrs, item,        \* the macro's attribute list and its function, until they are expanded
    built               \* "no", "yes" or "rejected"

CachedList == INSTANCE CachedArgs
OnceList == INSTANCE OnceArgs
ConcurrentList == INSTANCE ConcurrentArgs

MCbucket_for == [k \in Keys |-> IF k = k3 THEN b2 ELSE b1]

modes == <<sync_writes, unsync_reads, result_fallback, fallible>>
vars == <<attrs, item, built, cached_vars, once_vars, concurrent_vars>>

-----------------------------------------------------------------------------

\* The settings a list is drawn from.
Common == {"ttl", "ttl_secs", "expires", "cache_err", "cache_none", "with_cached_flag",
           "result_fallback", "refresh", "max_size", "ty", "create", "key", "convert",
           "name", "in_impl", "companions=false", "companions_vis", "force_refresh"}

Settings ==
    [cached |-> Common \cup {"unsync_reads", "sync_lock=mutex", "sync_writes=default",
                             "sync_writes=by_key", "sync_writes_buckets"},
     once |-> Common \cup {"sync_writes=default", "sync_writes=by_key"},
     concurrent_cached |-> Common \cup {"redis", "disk", "shards", "map_error", "durable",
                                        "cache_prefix_block"}]

\* Every macro turns these down, whatever else the list says.
BadSettings ==
    {"ttl=bad", "ttl_secs=0", "ttl_millis=0", "max_size=0", "shards=0", "sync_writes_buckets=0",
     "companions_vis=bad", "name=bad", "force_refresh=lit", "map_error=bad",
     "time", "size", "unbound", "result", "option"}

\* What a list is put together from: single settings, and the two pairs that are
\* written together.
Parts(m) == {{s} : s \in Settings[m]} \cup {{"ty", "create"}, {"key", "convert"}}

\* Lists of up to MaxParts parts; a list sets an attribute once.
Lists(m) ==
    LET upto == {UNION {f[n] : n \in 1..MaxParts} : f \in [1..MaxParts -> Parts(m) \cup {{}}]}
    IN {a \in upto : ~({"sync_writes=default", "sync_writes=by_key"} \subseteq a)}
           \cup {{s} : s \in BadSettings}

\* Free functions of every return type, a method and two generic functions.
Items ==
    [ret : {"plain", "Result", "Option"}, wrapped : BOOLEAN, receiver : {FALSE}, generic : {"no"}]
        \cup [ret : {"Result"}, wrapped : {FALSE}, receiver : {TRUE}, generic : {"no"}]
        \cup [ret : {"plain"}, wrapped : {FALSE}, receiver : {FALSE}, generic : {"key", "value"}]

NoItem == [ret |-> "plain", wrapped |-> FALSE, receiver |-> FALSE, generic |-> "no"]

Accepted(m, a, i) ==
    CASE m = "cached" -> CachedList!Accepts(a, i)
      [] m = "once" -> OnceList!Accepts(a, i)
      [] m = "concurrent_cached" -> ConcurrentList!Accepts(a, i)

Init ==
    /\ macro \in DOMAIN Settings
    /\ attrs \in Lists(macro)
    /\ item \in Items
    /\ built = "no"
    /\ sync_writes = "Disabled" /\ unsync_reads = FALSE
    /\ result_fallback = FALSE /\ fallible = FALSE
    /\ CachedUncalled /\ OnceUncalled /\ ConcurrentUncalled

\* The macro runs: it reports an error, or generates the function whose modes
\* the three models describe.
Expand ==
    /\ built = "no"
    /\ attrs' = {} /\ item' = NoItem
    /\ \/ /\ ~Accepted(macro, attrs, item)
          /\ built' = "rejected"
          /\ UNCHANGED modes
       \/ /\ Accepted(macro, attrs, item)
          /\ built' = "yes"
          /\ sync_writes' = IF macro = "concurrent_cached" THEN "Disabled"
                            ELSE CachedList!SyncWriteMode(attrs)
          /\ unsync_reads' = (macro = "cached" /\ "unsync_reads" \in attrs)
          /\ result_fallback' = ("result_fallback" \in attrs)
          /\ fallible' = (macro = "concurrent_cached" /\ ~ConcurrentList!infallible_default(attrs))
    /\ UNCHANGED <<macro, pc, call, result, old, cache, calls, writer, bucket, latest, clock,
                   now, created, method, stored, unstored, found>>

\* What a function has no part in.
Frame(m) ==
    /\ macro = m /\ built = "yes"
    /\ UNCHANGED <<macro, attrs, item, built, modes>>
    /\ m # "cached" => UNCHANGED <<bucket, latest>>
    /\ m # "once" => UNCHANGED <<clock, now, created>>
    /\ m # "concurrent_cached" => UNCHANGED <<method, stored, unstored, found>>
    /\ m = "concurrent_cached" => UNCHANGED writer
    /\ m = "once" => UNCHANGED <<result, old, cache>>

Step(t) ==
    \/ Frame("cached") /\ CachedStep(t)
    \/ Frame("once") /\ OnceStep(t)
    \/ Frame("concurrent_cached") /\ ConcurrentStep(t)

Rejected == built = "rejected" /\ UNCHANGED vars

Next ==
    \/ Expand
    \/ Frame("cached") /\ CachedNext
    \/ Frame("once") /\ OnceNext
    \/ Frame("concurrent_cached") /\ ConcurrentNext
    \/ Rejected

\* A body terminates, a store answers, and the locks are eventually fair.
FairSpec == Init /\ [][Next]_vars /\ \A t \in Threads : SF_pc(Step(t))

-----------------------------------------------------------------------------

\* Every list a macro accepts generates a function that is one of the modelled
\* ones, over a store that has the methods the function calls.
CallsSupported ==
    /\ built = "no" => /\ macro = "cached" => CachedList!CallsSupported(attrs, item)
                       /\ macro = "concurrent_cached" => ConcurrentList!CallsSupported(attrs, item)
    /\ built = "yes" => CachedModesOK \/ OnceModesOK \/ ConcurrentModesOK

\* No attribute of an accepted list is without effect, but for the ones each
\* macro names: check_create_conflicts and its neighbours turn down what would be
\* "silently ignored".
NothingIgnored ==
    built = "no" =>
        /\ macro = "cached" => CachedList!NothingIgnored(attrs, item)
        /\ macro = "once" => OnceList!NothingIgnored(attrs, item)
        /\ macro = "concurrent_cached" => ConcurrentList!NothingIgnored(attrs, item)

\* A hit of a function with with_cached_flag marks a cached::Return.
FlagTyped ==
    built = "no" =>
        /\ macro = "cached" => CachedList!FlagTyped(attrs, item)
        /\ macro = "once" => OnceList!FlagTyped(attrs, item)
        /\ macro = "concurrent_cached" => ConcurrentList!FlagTyped(attrs, item)
=============================================================================
