------------------------------ MODULE CachedFn ------------------------------
(***************************************************************************)
(* The function that #[cached] generates, called by several threads: the   *)
(* lookup, the body and the store of the result, and the locks held across *)
(* them in each `sync_writes` mode; and the `_prime_cache` companion.      *)
(*                                                                         *)
(* A critical section that runs no user code (lock, look up, unlock) is    *)
(* one step guarded by the lock; a lock held across the body is a          *)
(* variable.  The body of call number c returns the value c, so two values *)
(* are equal only when the same call computed them.                        *)
(***************************************************************************)
EXTENDS GeneratedFn

VARIABLES
    unsync_reads,     \* lookups take the read lock
    bucket,           \* the owner of each per-key lock
    latest            \* history: the last Ok of a body that was stored for each key

cached_modes == <<macro, sync_writes, unsync_reads, result_fallback>>

cached_vars == <<cached_modes, pc, call, result, old, writer, bucket, cache, calls, latest>>

\* The arguments the macro accepts together; no step changes them.
CachedModesOK ==
    /\ macro = "cached"
    /\ sync_writes \in {"Disabled", "Default", "ByKey"}
    /\ unsync_reads \in BOOLEAN
    /\ result_fallback \in BOOLEAN
    /\ result_fallback => sync_writes = "Disabled"

CachedTypeOK ==
    /\ CachedModesOK
    /\ pc \in [Threads -> {"idle", "read", "bucket", "get", "body", "prime_bucket", "set"}]
    /\ call \in [Threads -> Call]
    /\ result \in [Threads -> Nat \cup {Err}]
    /\ old \in [Threads -> Nat \cup {Empty}]
    /\ writer \in Threads \cup {NoThread}
    /\ bucket \in [Buckets -> Threads \cup {NoThread}]
    /\ cache \in [Keys -> Entry \cup {Empty}]
    /\ calls \in Nat
    /\ latest \in [Keys -> Nat]

CachedUncalled ==
    /\ Uncalled
    /\ bucket = [b \in Buckets |-> NoThread]
    /\ latest = [k \in Keys |-> 0]

CachedInit == CachedModesOK /\ CachedUncalled

-----------------------------------------------------------------------------

\* The function returns or unwinds: its locals go out of scope, and with them
\* every guard the thread holds.
CachedReturn(t) ==
    /\ Goto(t, "idle")
    /\ call' = [call EXCEPT ![t] = NoCall]
    /\ result' = [result EXCEPT ![t] = Err]
    /\ old' = [old EXCEPT ![t] = Empty]
    /\ writer' = IF writer = t THEN NoThread ELSE writer
    /\ bucket' = [b \in Buckets |-> IF bucket[b] = t THEN NoThread ELSE bucket[b]]

\* The entry point of each mode: ByKey takes the bucket lock first, Default
\* with unsync_reads looks under the read lock before it takes the write lock.
FirstStep ==
    IF sync_writes = "ByKey" THEN "bucket"
    ELSE IF sync_writes = "Default" /\ unsync_reads THEN "read" ELSE "get"

CachedCall(t) ==
    /\ \E k \in Keys, f \in BOOLEAN : Calls(t, k, f, FALSE)
    /\ Goto(t, FirstStep)
    /\ UNCHANGED <<cached_modes, result, old, writer, bucket, cache, latest>>

\* {fn}_prime_cache runs the body before it takes any lock.
CachedPrime(t) ==
    /\ \E k \in Keys : Calls(t, k, FALSE, TRUE)
    /\ Goto(t, "body")
    /\ UNCHANGED <<cached_modes, result, old, writer, bucket, cache, latest>>

\* Mutant: the bucket's lock is taken for reading.
LockBucketShared(t) ==
    /\ pc[t] \in {"bucket", "prime_bucket"}
    /\ bucket' = [bucket EXCEPT ![BucketOf(t)] = t]
    /\ Goto(t, IF pc[t] = "bucket" THEN "get" ELSE "set")
    /\ UNCHANGED <<cached_modes, call, result, old, writer, cache, calls, latest>>

\* bucket_for(&key), then the write lock of that bucket.
LockBucket(t) ==
    /\ pc[t] \in {"bucket", "prime_bucket"}
    /\ bucket[BucketOf(t)] = NoThread
    /\ bucket' = [bucket EXCEPT ![BucketOf(t)] = t]
    /\ Goto(t, IF pc[t] = "bucket" THEN "get" ELSE "set")
    /\ UNCHANGED <<cached_modes, call, result, old, writer, cache, calls, latest>>

\* Default with unsync_reads: the optimistic lookup under the read lock, which
\* has no side effects.
ReadUnsync(t) ==
    /\ pc[t] = "read"
    /\ writer = NoThread
    /\ \/ ~call[t].force /\ Fresh(call[t].key) /\ CachedReturn(t)
       \/ /\ call[t].force \/ ~Fresh(call[t].key)
          /\ Goto(t, "get")
          /\ UNCHANGED <<call, result, old, writer, bucket>>
    /\ UNCHANGED <<cached_modes, cache, calls, latest>>

\* The lookups that leave an expired entry in place: cache_get_read, and
\* cache_get_with_expiry_status.
Peeks == result_fallback \/ (unsync_reads /\ sync_writes # "Default")

\* cache_get drops the expired entry it misses on.
AfterMiss(k) == IF Peeks THEN cache ELSE [cache EXCEPT ![k] = Empty]

\* What result_fallback captures before the body runs, and then discards.
OldVal(k) ==
    IF result_fallback /\ cache[k] # Empty THEN cache[k].val ELSE Empty

\* The lookup under the cache lock.  A hit returns; otherwise the body runs,
\* under this same lock in Default mode.  force_refresh skips the lookup.
CachedGet(t) ==
    /\ pc[t] = "get"
    /\ writer = NoThread
    /\ \/ /\ ~call[t].force /\ Fresh(call[t].key)
          /\ CachedReturn(t)
          /\ UNCHANGED cache
       \/ /\ call[t].force \/ ~Fresh(call[t].key)
          /\ Goto(t, "body")
          /\ writer' = IF sync_writes = "Default" THEN t ELSE NoThread
          /\ cache' = IF call[t].force THEN cache ELSE AfterMiss(call[t].key)
          /\ old' = [old EXCEPT ![t] = OldVal(call[t].key)]
          /\ UNCHANGED <<call, result, bucket>>
    /\ UNCHANGED <<cached_modes, calls, latest>>

\* Mutant: a prime does not take the bucket lock for its store.
CachedBodyPrimeUnlocked(t) ==
    /\ pc[t] = "body"
    /\ \E r \in {call[t].id, Err} : result' = [result EXCEPT ![t] = r]
    /\ Goto(t, "set")
    /\ UNCHANGED <<cached_modes, call, old, writer, bucket, cache, calls, latest>>

\* The body returns Ok of its own value, or Err.
CachedBody(t) ==
    /\ pc[t] = "body"
    /\ \E r \in {call[t].id, Err} : result' = [result EXCEPT ![t] = r]
    /\ Goto(t, IF call[t].prime /\ sync_writes = "ByKey" THEN "prime_bucket" ELSE "set")
    /\ UNCHANGED <<cached_modes, call, old, writer, bucket, cache, calls, latest>>

\* The body panics, or the async caller is dropped while it awaits the body.
CachedUnwinds(t) ==
    /\ pc[t] = "body"
    /\ CachedReturn(t)
    /\ UNCHANGED <<cached_modes, cache, calls, latest>>

\* An async caller is dropped while it awaits a lock.
CachedDropped(t) ==
    /\ pc[t] \in {"read", "bucket", "get", "prime_bucket", "set"}
    /\ writer # t
    /\ CachedReturn(t)
    /\ UNCHANGED <<cached_modes, cache, calls, latest>>

\* Mutant: the fallback is the value captured before the body ran.
CachedResultSnapshot(t) ==
    IF result_fallback /\ ~call[t].prime /\ result[t] = Err /\ old[t] # Empty
    THEN old[t]
    ELSE result[t]

\* The result, after the fallback of result_fallback: on an Err, whatever the
\* cache holds now, expired or not, read under the lock the store takes.
CachedResult(t) ==
    IF /\ result_fallback /\ ~call[t].prime
       /\ result[t] = Err
       /\ cache[call[t].key] # Empty
    THEN cache[call[t].key].val
    ELSE result[t]

\* Only an Ok is stored, and a fallback is stored again as a fresh entry.
CachedSet(t) ==
    /\ pc[t] = "set"
    /\ writer \in {NoThread, t}
    /\ CachedReturn(t)
    /\ cache' = IF CachedResult(t) = Err THEN cache
                ELSE [cache EXCEPT ![call[t].key] = [val |-> CachedResult(t), fresh |-> TRUE]]
    /\ latest' = IF result[t] = Err THEN latest
                 ELSE [latest EXCEPT ![call[t].key] = result[t]]
    /\ UNCHANGED <<cached_modes, calls>>

\* Time passes the entry's expiry.
CachedExpire(k) ==
    /\ Fresh(k)
    /\ cache' = [cache EXCEPT ![k] = [val |-> cache[k].val, fresh |-> FALSE]]
    /\ UNCHANGED <<cached_modes, pc, call, result, old, writer, bucket, calls, latest>>

\* The store evicts the entry, or the program removes it through the static;
\* both need the cache lock.
CachedEvict(k) ==
    /\ writer = NoThread
    /\ cache[k] # Empty
    /\ cache' = [cache EXCEPT ![k] = Empty]
    /\ UNCHANGED <<cached_modes, pc, call, result, old, writer, bucket, calls, latest>>

CachedStep(t) ==
    \/ LockBucket(t)
    \/ ReadUnsync(t)
    \/ CachedGet(t)
    \/ CachedBody(t)
    \/ CachedUnwinds(t)
    \/ CachedSet(t)

CachedDone ==
    /\ calls = MaxCalls
    /\ \A t \in Threads : pc[t] = "idle"
    /\ UNCHANGED cached_vars

CachedNext ==
    \/ \E t \in Threads : CachedCall(t) \/ CachedPrime(t) \/ CachedStep(t) \/ CachedDropped(t)
    \/ \E k \in Keys : CachedExpire(k) \/ CachedEvict(k)
    \/ CachedDone

CachedSpec == CachedInit /\ [][CachedNext]_cached_vars

-----------------------------------------------------------------------------

\* sync_writes: while a caller that was not told to refresh runs the body, the
\* key has no fresh value: nobody computes what somebody else, a prime included,
\* has stored since the lookup.
ComputeOnlyWhenMissing ==
    \A t \in Threads :
        (sync_writes # "Disabled" /\ Computing(t) /\ ~call[t].force) =>
            ~Fresh(call[t].key)

\* The cache never goes back to an older value: what it holds for a key is the
\* last Ok stored for it, also after an Err was replaced by its fallback.
HoldsLatestOk ==
    macro = "cached" => \A k \in Keys : cache[k] # Empty => cache[k].val = latest[k]
=============================================================================
