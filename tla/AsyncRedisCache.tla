--------------------------- MODULE AsyncRedisCache ---------------------------
(* AsyncRedisCache: the same operations on a connection that is cloned, not *)
(* taken from a pool.  A future may be dropped at each await (Abandon).     *)
EXTENDS RedisStore

\* async_cache_get and async_cache_contains.
async_cache_get(c, k) ==
    LET key == generate_key(c, k)
    IN  Start(c, "get", k, <<Cmd("GET", {key})>> \o RefreshCmds(c, key))

\* An undecodable value is an error, or is deleted and is a miss.
GetAwaited(c) ==
    /\ Answered(c, "get")
    /\ \/ /\ Undecodable(c) /\ ~handle[c].strict
          /\ Send(c, "heal", <<[Cmd("EVAL", {generate_key(c, call[c].key)}) EXCEPT !.val = call[c].got]>>)
       \/ /\ Undecodable(c) => handle[c].strict
          /\ Return(c)

HealAwaited(c) == Answered(c, "heal") /\ Return(c)

async_cache_set(c, k) ==
    LET key == generate_key(c, k)
    IN  Start(c, "set", <<>>, <<Cmd("GET", {key}), SetCmd(c, key)>>)

\* The ttl is read when the future is made; until it is first polled its command
\* waits as if it were on its way, and one never polled is abandoned unserved.
async_cache_set_ref(c, k) == Start(c, "set", <<>>, <<SetCmd(c, generate_key(c, k))>>)

SetAwaited(c) == Answered(c, "set") /\ Return(c)

\* async_cache_remove and async_cache_remove_entry.
async_cache_remove(c, k) ==
    LET key == generate_key(c, k)
    IN  Start(c, "remove", <<>>, <<Cmd("GET", {key}), Cmd("DEL", {key})>>)

RemoveAwaited(c) ==
    /\ Answered(c, "remove")
    /\ Return(c)

async_cache_delete(c, k) == Start(c, "set", <<>>, <<Cmd("DEL", {generate_key(c, k)})>>)

\* async_cache_clear and async_cache_reset.
async_cache_clear(c) == Start(c, "clear", <<>>, <<Cmd("SCAN", {})>>)

BatchAwaited(c) ==
    /\ Answered(c, "clear")
    /\ Send(c, "cleared", IF call[c].batch # {} THEN <<Cmd("DEL", call[c].batch)>> ELSE <<>>)

ScanAgain(c) ==
    /\ Answered(c, "cleared")
    /\ IF call[c].more THEN Send(c, "clear", <<Cmd("SCAN", {})>>) ELSE Return(c)

\* set_ttl and unset_ttl.
set_ttl(c, ttl) == Configure(c, [handle[c] EXCEPT !.ttl = ttl])

set_refresh_on_hit(c, refresh) == Configure(c, [handle[c] EXCEPT !.refresh = refresh])

AsyncRedisNext ==
    \E c \in AsyncConns :
           \/ \E k \in Keys : \/ async_cache_get(c, k) \/ async_cache_set(c, k)
                              \/ async_cache_set_ref(c, k)
                              \/ async_cache_remove(c, k) \/ async_cache_delete(c, k)
           \/ GetAwaited(c) \/ HealAwaited(c) \/ SetAwaited(c) \/ RemoveAwaited(c)
           \/ async_cache_clear(c) \/ BatchAwaited(c) \/ ScanAgain(c)
           \/ \E ttl \in Ttls : set_ttl(c, ttl)
           \/ \E refresh \in BOOLEAN : set_refresh_on_hit(c, refresh)
=============================================================================
