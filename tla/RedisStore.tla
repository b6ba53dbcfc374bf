----------------------------- MODULE RedisStore -----------------------------
(***************************************************************************)
(* A Redis server, and the calls of the caches in flight on their           *)
(* connections.                                                            *)
(*                                                                         *)
(* A call sends a pipeline and waits.  No pipeline of this code is a        *)
(* transaction (redis::pipe() without atomic()), so the server may serve    *)
(* commands of other connections between two commands of one.  The caller   *)
(* may be told nothing of what it sent: the round trip fails, or the future *)
(* that awaits it is dropped.  Its commands may still be served.            *)
(*                                                                         *)
(* A key is a sequence of one-character strings: what the code does to the  *)
(* characters is what keeps two caches apart.                               *)
(***************************************************************************)
EXTENDS Naturals, Sequences, FiniteSets, TLC

LOCAL INSTANCE SequencesExt
LOCAL INSTANCE Functions

CONSTANTS Conns,       \* connections, each used by one handle of a cache
          AsyncConns,  \* those of them an AsyncRedisCache uses
          Settings,    \* [ttl, refresh, strict] a cache is built with
          Caches,      \* the caches: [namespace, prefix]
          Keys,        \* the keys of each cache, as strings
          Ttls,        \* the ttls asked for, in fractions of a millisecond; 0 disables
          PerMilli,    \* how many of those make one
          MaxMillis,   \* i64::MAX
          MaxTime,     \* bound: the clock, in milliseconds
          MaxOps,      \* bound: the calls of a behaviour
          MaxForeign,  \* bound: the undecodable values other programs write
          Nothing,     \* nil
          Never        \* no deadline

VARIABLES db,       \* the server: [val, ok, deadline] at some keys; ok: it decodes
          now,      \* the server's clock
          handle,   \* what a connection's handle is and how it is set
          call,     \* the call in flight on each connection
          written,  \* the values written so far; each is a number of its own
          foreign,  \* how many of them are not decodable
          ops       \* the calls so far

vars == <<db, now, handle, call, written, foreign, ops>>
settled == <<now, handle, written, foreign, ops>>

-----------------------------------------------------------------------------
(* The key a cache stores an entry under, and the pattern cache_clear scans  *)
(* for.                                                                      *)

KEY_FIELD_SEPARATOR == ":"
KEY_FIELD_ESCAPE == "%"

\* Mutant: the separator is left in the fields.
escape_nothing(field) == field

\* Mutant: the escape character is left as it is.
escape_separator_only(field) ==
    FlattenSeq([i \in DOMAIN field |->
        IF field[i] = KEY_FIELD_SEPARATOR THEN <<"%", "3", "A">> ELSE <<field[i]>>])

\* escape_key_field: the separator and the escape character are percent-escaped.
escape_key_field(field) ==
    LET Escaped(c) == CASE c = KEY_FIELD_SEPARATOR -> <<"%", "3", "A">>
                        [] c = KEY_FIELD_ESCAPE -> <<"%", "2", "5">>
                        [] OTHER -> <<c>>
    IN  FlattenSeq([i \in DOMAIN field |-> Escaped(field[i])])

\* trim_end_matches(':').
canonical_namespace(namespace) ==
    SubSeq(namespace, 1, SelectLastInSeq(namespace, LAMBDA c : c # KEY_FIELD_SEPARATOR))

join_key_fields(namespace, prefix, key) ==
    namespace \o <<KEY_FIELD_SEPARATOR>> \o prefix \o <<KEY_FIELD_SEPARATOR>> \o key

generate_redis_key(namespace, prefix, key) ==
    join_key_fields(escape_key_field(canonical_namespace(namespace)),
                    escape_key_field(prefix),
                    escape_key_field(key))

escape_glob(s) ==
    LET Escaped(c) == IF c \in {"*", "?", "[", "]", "\\"} THEN <<"\\", c>> ELSE <<c>>
    IN  FlattenSeq([i \in DOMAIN s |-> Escaped(s[i])])

clear_match_pattern(namespace, prefix) ==
    join_key_fields(escape_glob(escape_key_field(canonical_namespace(namespace))),
                    escape_glob(escape_key_field(prefix)),
                    <<"*">>)

\* What SCAN MATCH does with the characters of a pattern these caches send:
\* `\` quotes the next one, `*` is any run, the rest are themselves.
RECURSIVE GlobMatch(_, _)
GlobMatch(pattern, s) ==
    CASE pattern = <<>> -> s = <<>>
      [] pattern # <<>> /\ Head(pattern) = "*" ->
            \E i \in 1..(Len(s) + 1) : GlobMatch(Tail(pattern), SubSeq(s, i, Len(s)))
      [] pattern # <<>> /\ Head(pattern) = "\\" ->
            s # <<>> /\ Head(s) = pattern[2] /\ GlobMatch(SubSeq(pattern, 3, Len(pattern)), Tail(s))
      [] OTHER -> s # <<>> /\ Head(s) = Head(pattern) /\ GlobMatch(Tail(pattern), Tail(s))

-----------------------------------------------------------------------------

Idle == [op |-> "idle", key |-> <<>>, cmds |-> <<>>, got |-> Nothing,
         batch |-> {}, more |-> FALSE, since |-> 0]

\* build: the prefix is not empty.
build(settings) ==
    {[cache |-> cache, ttl |-> s.ttl, refresh |-> s.refresh, strict |-> s.strict] :
        cache \in {c \in Caches : c.prefix # <<>>}, s \in settings}

\* ttl_millis and ttl_millis_i64, which are not called with a ttl of zero.
ttl_millis(ttl) ==
    LET capped == IF ttl \div PerMilli > MaxMillis THEN MaxMillis ELSE ttl \div PerMilli
    IN  IF capped < 1 THEN 1 ELSE capped

\* The keys of each cache, and those its pattern finds among the keys of all.
RedisKey == [cache \in Caches |-> [k \in Keys |-> generate_redis_key(cache.namespace, cache.prefix, k)]]
KeysOf == [cache \in Caches |-> {RedisKey[cache][k] : k \in Keys}]
Matching == [cache \in Caches |->
    {key \in UNION {KeysOf[d] : d \in Caches} :
        GlobMatch(clear_match_pattern(cache.namespace, cache.prefix), key)}]

generate_key(c, k) == RedisKey[handle[c].cache][k]

Init ==
    /\ handle \in [Conns -> build(Settings)]
    /\ db = <<>> /\ now = 0
    /\ call = [c \in Conns |-> Idle]
    /\ written = 0 /\ foreign = 0 /\ ops = 0

-----------------------------------------------------------------------------
(* What a call sends.                                                      *)

Cmd(name, keys) == [cmd |-> name, keys |-> keys, ttl |-> 0, val |-> Nothing]

\* A ttl of zero sends a plain SET.
SetCmd(c, key) == [Cmd("SET", {key}) EXCEPT !.ttl = handle[c].ttl]

\* A refreshing hit renews the lifetime, unless the ttl is disabled.
RefreshCmds(c, key) ==
    IF handle[c].refresh /\ handle[c].ttl # 0
    THEN <<[Cmd("PEXPIRE", {key}) EXCEPT !.ttl = handle[c].ttl]>>
    ELSE <<>>

Start(c, op, k, cmds) ==
    /\ call[c].op = "idle" /\ ops < MaxOps
    /\ ops' = ops + 1
    /\ call' = [call EXCEPT ![c] = [Idle EXCEPT !.op = op, !.key = k, !.cmds = cmds,
                                                !.since = IF op = "clear" THEN written ELSE 0]]
    /\ UNCHANGED <<db, now, handle, written, foreign>>

Send(c, op, cmds) ==
    /\ call' = [call EXCEPT ![c].op = op, ![c].cmds = cmds]
    /\ UNCHANGED <<db, settled>>

\* What the caller is told, a value or an error, is not followed further.
Return(c) ==
    /\ call' = [call EXCEPT ![c] = Idle]
    /\ UNCHANGED <<db, settled>>

\* A reply is there for the caller of an operation.
Answered(c, op) == call[c].op = op /\ call[c].cmds = <<>>

\* deserialize_cached_redis_value: neither MessagePack nor the older JSON.
Undecodable(c) == call[c].got # Nothing /\ ~call[c].got.ok

Configure(c, settings) ==
    /\ call[c].op = "idle" /\ ops < MaxOps
    /\ ops' = ops + 1
    /\ handle' = [handle EXCEPT ![c] = settings]
    /\ UNCHANGED <<db, now, call, written, foreign>>

-----------------------------------------------------------------------------
(* The server.                                                             *)

Next1(c, name) == call[c].cmds # <<>> /\ Head(call[c].cmds).cmd = name
TheKey(c) == CHOOSE key \in Head(call[c].cmds).keys : TRUE
Served(c) == [call EXCEPT ![c].cmds = Tail(@)]
Bytes(e) == [val |-> e.val, ok |-> e.ok]
Deadline(ttl) == IF ttl = 0 THEN Never ELSE now + ttl_millis(ttl)
Without(keys) == Restrict(db, DOMAIN db \ keys)

GET(c) ==
    /\ Next1(c, "GET")
    /\ call' = [Served(c) EXCEPT ![c].got = IF TheKey(c) \in DOMAIN db THEN Bytes(db[TheKey(c)]) ELSE Nothing]
    /\ UNCHANGED <<db, settled>>

PEXPIRE(c) ==
    /\ Next1(c, "PEXPIRE")
    /\ db' = IF TheKey(c) \in DOMAIN db
             THEN [db EXCEPT ![TheKey(c)].deadline = Deadline(Head(call[c].cmds).ttl)] ELSE db
    /\ call' = Served(c)
    /\ UNCHANGED settled

\* SET and PSETEX.
SET(c) ==
    /\ Next1(c, "SET")
    /\ written' = written + 1
    /\ db' = TheKey(c) :> [val |-> written', ok |-> TRUE, deadline |-> Deadline(Head(call[c].cmds).ttl)] @@ db
    /\ call' = Served(c)
    /\ UNCHANGED <<now, handle, foreign, ops>>

DEL(c) ==
    /\ Next1(c, "DEL")
    /\ db' = Without(Head(call[c].cmds).keys)
    /\ call' = Served(c)
    /\ UNCHANGED settled

\* Mutant: the key is deleted whatever it holds now.
SELF_HEAL_UNCONDITIONAL(c) ==
    /\ Next1(c, "EVAL")
    /\ db' = Without({TheKey(c)})
    /\ call' = Served(c)
    /\ UNCHANGED settled

\* The script: the key is deleted only if it still holds the bytes read.
SELF_HEAL_CONDITIONAL_DEL(c) ==
    /\ Next1(c, "EVAL")
    /\ db' = IF TheKey(c) \in DOMAIN db /\ Bytes(db[TheKey(c)]) = Head(call[c].cmds).val
             THEN Without({TheKey(c)}) ELSE db
    /\ call' = Served(c)
    /\ UNCHANGED settled

\* SCAN returns some of the keys that match.  The iteration may only end when it
\* has returned every key that was there, unwritten, since it began; those an
\* earlier batch returned are deleted by now.
SCAN(c) ==
    /\ Next1(c, "SCAN")
    /\ LET found == Matching[handle[c].cache] \cap DOMAIN db
       IN  \E batch \in SUBSET found, more \in BOOLEAN :
              /\ more \/ {key \in found : db[key].val <= call[c].since} \subseteq batch
              /\ call' = [Served(c) EXCEPT ![c].batch = batch, ![c].more = more]
    /\ UNCHANGED <<db, settled>>

\* The round trip fails, or the future that awaits it is dropped.
Abandon(c) ==
    /\ call[c].op \notin {"idle", "abandoned"}
    /\ call' = [call EXCEPT ![c] = [Idle EXCEPT !.op = "abandoned", !.cmds = call[c].cmds]]
    /\ UNCHANGED <<db, settled>>

\* What was left on an abandoned connection is served or is not.
Hangup(c) == call[c].op = "abandoned" /\ Return(c)

\* Another program, or another version of this one, writes a value that this
\* one cannot decode.
Foreign ==
    /\ foreign < MaxForeign
    /\ foreign' = foreign + 1
    /\ written' = written + 1
    /\ \E c \in Conns : \E key \in KeysOf[handle[c].cache] :
          db' = key :> [val |-> written', ok |-> FALSE, deadline |-> Never] @@ db
    /\ UNCHANGED <<now, handle, call, ops>>

Tick ==
    /\ now < MaxTime
    /\ now' = now + 1
    /\ db' = RestrictDomain(db, LAMBDA key : db[key].deadline = Never \/ db[key].deadline > now')
    /\ UNCHANGED <<handle, call, written, foreign, ops>>

Done == ops = MaxOps /\ (\A c \in Conns : call[c].op = "idle") /\ UNCHANGED vars

Server ==
    \/ \E c \in Conns :
          \/ GET(c) \/ PEXPIRE(c) \/ SET(c) \/ DEL(c) \/ SELF_HEAL_CONDITIONAL_DEL(c) \/ SCAN(c)
          \/ Abandon(c) \/ Hangup(c)
    \/ Foreign \/ Tick \/ Done

-----------------------------------------------------------------------------

\* The entry at a key was changed or removed by a command, not by its deadline.
Touched(key) ==
    now' = now /\ (key \notin DOMAIN db' \/ db'[key] # db[key])

\* A get never removes a value that decodes: the delete that heals a corrupt
\* entry is harmless to a value another client wrote after the read, also when
\* it is served long after its caller has gone.
HealKeepsValid ==
    [][\A c \in Conns : Next1(c, "EVAL") /\ call'[c].cmds = Tail(call[c].cmds) =>
          \A key \in DOMAIN db : db[key].ok => ~Touched(key)]_vars

\* Only the calls of its own cache change or remove an entry, whatever the
\* characters of the namespaces, prefixes and keys: no key of one cache is a
\* key of another and none matches the pattern of another's cache_clear.
CachesApart ==
    [][\A cache \in Caches : \A key \in KeysOf[cache] \cap DOMAIN db :
          Touched(key) => \/ foreign' # foreign
                          \/ \E c \in Conns : /\ handle[c].cache = cache /\ call[c].cmds # <<>>
                                              /\ call'[c].cmds = Tail(call[c].cmds)]_vars

\* When cache_clear returns without an error no entry remains that the cache
\* had when it was called and that nobody wrote since, whatever batches SCAN
\* returned, the empty ones included.
ClearedGone ==
    [][\A c \in Conns : call[c].op = "cleared" /\ call'[c] = Idle =>
          \A key \in KeysOf[handle[c].cache] \cap DOMAIN db' : db'[key].val > call[c].since]_vars
=============================================================================
