----------------------------- MODULE RedisCache -----------------------------
(* RedisCache: the blocking handle.  A pool that has no connection to give *)
(* fails a call before it sends anything.                                  *)
EXTENDS RedisStore

\* cache_get and cache_contains.
cache_get(c, k) ==
    LET key == generate_key(c, k)
    IN  Start(c, "get", k, <<Cmd("GET", {key})>> \o RefreshCmds(c, key))

\* An undecodable value is an error, or is deleted and is a miss.
GetAnswered(c) ==
    /\ Answered(c, "get")
    /\ \/ /\ Undecodable(c) /\ ~handle[c].strict
          /\ Send(c, "heal", <<[Cmd("EVAL", {generate_key(c, call[c].key)}) EXCEPT !.val = call[c].got]>>)
       \/ /\ Undecodable(c) => handle[c].strict
          /\ Return(c)

Healed(c) == Answered(c, "heal") /\ Return(c)

\* The value displaced is read first, and is None when it does not decode.
cache_set(c, k) ==
    LET key == generate_key(c, k)
    IN  Start(c, "set", <<>>, <<Cmd("GET", {key}), SetCmd(c, key)>>)

\* cache_set_ref reads nothing back.
cache_set_ref(c, k) == Start(c, "set", <<>>, <<SetCmd(c, generate_key(c, k))>>)

SetAnswered(c) == Answered(c, "set") /\ Return(c)

\* cache_remove and cache_remove_entry.
cache_remove(c, k) ==
    LET key == generate_key(c, k)
    IN  Start(c, "remove", <<>>, <<Cmd("GET", {key}), Cmd("DEL", {key})>>)

\* The entry is gone whether or not its value decodes.
RemoveAnswered(c) ==
    /\ Answered(c, "remove")
    /\ Return(c)

cache_delete(c, k) == Start(c, "set", <<>>, <<Cmd("DEL", {generate_key(c, k)})>>)

\* cache_clear and cache_reset.
cache_clear(c) == Start(c, "clear", <<>>, <<Cmd("SCAN", {})>>)

\* Mutant: an empty batch ends the loop.
ClearStopsAtEmpty(c) ==
    /\ Answered(c, "clear")
    /\ IF call[c].batch # {} THEN Send(c, "cleared", <<Cmd("DEL", call[c].batch)>>)
                             ELSE /\ call' = [call EXCEPT ![c].op = "cleared", ![c].more = FALSE]
                                  /\ UNCHANGED <<db, settled>>

\* The keys of a batch are deleted; an empty batch is not the end.
ClearBatch(c) ==
    /\ Answered(c, "clear")
    /\ Send(c, "cleared", IF call[c].batch # {} THEN <<Cmd("DEL", call[c].batch)>> ELSE <<>>)

\* The loop ends when SCAN returned the cursor zero.
ClearNext(c) ==
    /\ Answered(c, "cleared")
    /\ IF call[c].more THEN Send(c, "clear", <<Cmd("SCAN", {})>>) ELSE Return(c)

\* set_ttl and unset_ttl.
set_ttl(c, ttl) == Configure(c, [handle[c] EXCEPT !.ttl = ttl])

set_refresh_on_hit(c, refresh) == Configure(c, [handle[c] EXCEPT !.refresh = refresh])

RedisNext ==
    \E c \in Conns \ AsyncConns :
           \/ \E k \in Keys : \/ cache_get(c, k) \/ cache_set(c, k) \/ cache_set_ref(c, k)
                              \/ cache_remove(c, k) \/ cache_delete(c, k)
           \/ GetAnswered(c) \/ Healed(c) \/ SetAnswered(c) \/ RemoveAnswered(c)
           \/ cache_clear(c) \/ ClearBatch(c) \/ ClearNext(c)
           \/ \E ttl \in Ttls : set_ttl(c, ttl)
           \/ \E refresh \in BOOLEAN : set_refresh_on_hit(c, refresh)
=============================================================================
