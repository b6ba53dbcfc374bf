------------------------------- MODULE MCRedis -------------------------------
(* A blocking and an async handle, of one cache or of two whose names differ *)
(* only in what the escapes tell apart.                                     *)
EXTENDS RedisStore

Sync == INSTANCE RedisCache
Async == INSTANCE AsyncRedisCache

\* Without the escape of the separator the second key of the first cache is the
\* first key of the second; without that of the escape character the second and
\* the third are one; and without the escapes of the pattern the first cache's
\* matches every key of the others.
MCCaches == {[namespace |-> <<":">>, prefix |-> <<"*">>],
             [namespace |-> <<>>, prefix |-> <<"*", ":">>],
             [namespace |-> <<>>, prefix |-> <<"*", "%", "3", "A">>]}
MCSettings == {[ttl |-> 0, refresh |-> FALSE, strict |-> FALSE],
               [ttl |-> 1, refresh |-> TRUE, strict |-> TRUE]}
MCKeys == {<<"k">>, <<":", "k">>}

Next == Server \/ Sync!RedisNext \/ Async!AsyncRedisNext

Spec == Init /\ [][Next]_vars
=============================================================================
