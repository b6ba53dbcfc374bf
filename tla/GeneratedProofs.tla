--------------------------- MODULE GeneratedProofs ---------------------------
(***************************************************************************)
(* Proofs about the macros and the functions they generate: for attribute  *)
(* lists of any length, any number of threads, keys, buckets and calls,    *)
(* every mode and an unbounded clock.                                      *)
(***************************************************************************)
EXTENDS MCGenerated, TLAPS

\* Most steps need no arithmetic and are Zenon's; the others name their prover.
USE Zenon

\* The record a returned call leaves behind is well formed, and no prime.
LEMMA NoCallIsCall == NoCall \in Call /\ ~NoCall.prime
  BY ConstantsAssumption DEF NoCall, Call

-----------------------------------------------------------------------------

\* The steps a mode and a kind of call can be in.
CachedPathInv ==
    \A t \in Threads :
        /\ pc[t] \in {"bucket", "prime_bucket"} => sync_writes = "ByKey"
        /\ pc[t] = "prime_bucket" => call[t].prime
        /\ pc[t] \in {"bucket", "read", "get"} => ~call[t].prime
        /\ pc[t] = "read" => sync_writes = "Default"

\* The thread is between taking the cache lock for its whole call and returning.
HoldsWriter(t) ==
    sync_writes = "Default" /\ ~call[t].prime /\ pc[t] \in {"body", "set"}

\* The thread is between taking its bucket's lock and returning.
HoldsBucket(t) ==
    /\ sync_writes = "ByKey"
    /\ \/ pc[t] = "set"
       \/ pc[t] \in {"get", "body"} /\ ~call[t].prime

\* A lock is held by exactly the thread whose program counter says so.
CachedLockInv ==
    /\ \A t \in Threads : writer = t <=> HoldsWriter(t)
    /\ \A t \in Threads, b \in Buckets :
          bucket[b] = t <=> HoldsBucket(t) /\ BucketOf(t) = b

CachedIInv == CachedTypeOK /\ CachedPathInv /\ CachedLockInv /\ ComputeOnlyWhenMissing /\ HoldsLatestOk

-----------------------------------------------------------------------------

\* What a call returns, after the fallback, is a body's value or Err.
LEMMA CachedResultType ==
  ASSUME CachedTypeOK, NEW t \in Threads
  PROVE  CachedResult(t) \in Nat \cup {Err}
  BY ConstantsAssumption DEF CachedTypeOK, CachedResult, Entry, Call

\* What every step of the generated function keeps of its types.
LEMMA CachedTypeInductive == CachedTypeOK /\ [CachedNext]_cached_vars => CachedTypeOK'
<1> SUFFICES ASSUME CachedTypeOK, [CachedNext]_cached_vars
             PROVE  CachedTypeOK'
  OBVIOUS
<1> USE ConstantsAssumption, NoCallIsCall DEF CachedModesOK, cached_modes
<1>1. ASSUME NEW t \in Threads, CachedCall(t) PROVE CachedTypeOK'
  BY SMT, <1>1 DEF CachedCall, Calls, FirstStep, Goto, CachedTypeOK, Call
<1>2. ASSUME NEW t \in Threads, CachedPrime(t) PROVE CachedTypeOK'
  BY SMT, <1>2 DEF CachedPrime, Calls, Goto, CachedTypeOK, Call
<1>3. ASSUME NEW t \in Threads, LockBucket(t) PROVE CachedTypeOK'
  BY <1>3 DEF LockBucket, BucketOf, Goto, CachedTypeOK, Call
<1>4. ASSUME NEW t \in Threads, ReadUnsync(t) PROVE CachedTypeOK'
  BY SMT, <1>4 DEF ReadUnsync, CachedReturn, Goto, CachedTypeOK
<1>5. ASSUME NEW t \in Threads, CachedGet(t) PROVE CachedTypeOK'
  <2>1. OldVal(call[t].key) \in Nat \cup {Empty}
    BY DEF OldVal, CachedTypeOK, Call, Entry
  <2>2. QED BY SMT, <1>5, <2>1 DEF CachedGet, CachedReturn, Goto, AfterMiss, CachedTypeOK
<1>6. ASSUME NEW t \in Threads, CachedBody(t) PROVE CachedTypeOK'
  BY SMT, <1>6 DEF CachedBody, Goto, CachedTypeOK, Call
<1>7. ASSUME NEW t \in Threads, CachedUnwinds(t) PROVE CachedTypeOK'
  BY <1>7 DEF CachedUnwinds, CachedReturn, Goto, CachedTypeOK
<1>8. ASSUME NEW t \in Threads, CachedSet(t) PROVE CachedTypeOK'
  <2>1. cache' \in [Keys -> Entry \cup {Empty}]
    BY <1>8, CachedResultType DEF CachedSet, CachedTypeOK, Entry
  <2>2. QED BY <1>8, <2>1 DEF CachedSet, CachedReturn, Goto, CachedTypeOK
<1>9. ASSUME NEW k \in Keys, CachedExpire(k) PROVE CachedTypeOK'
  BY <1>9 DEF CachedExpire, Fresh, CachedTypeOK, Entry
<1>10. ASSUME NEW k \in Keys, CachedEvict(k) PROVE CachedTypeOK'
  BY <1>10 DEF CachedEvict, CachedTypeOK
<1>11. ASSUME NEW t \in Threads, CachedDropped(t) PROVE CachedTypeOK'
  BY <1>11 DEF CachedDropped, CachedReturn, Goto, CachedTypeOK
<1>12. CASE UNCHANGED cached_vars
  BY <1>12 DEF cached_vars, CachedTypeOK
<1>13. QED
  BY <1>1, <1>2, <1>3, <1>4, <1>5, <1>6, <1>7, <1>8, <1>9, <1>10, <1>11, <1>12
     DEF CachedNext, CachedStep, CachedDone

\* The state of the generated function keeps its type, whatever the mode.
THEOREM CachedTypeCorrect == CachedSpec => []CachedTypeOK
<1>1. CachedInit => CachedTypeOK
  BY SMT, NoCallIsCall DEF CachedInit, CachedUncalled, Uncalled, CachedTypeOK, CachedModesOK
<1>2. QED BY <1>1, CachedTypeInductive, PTL DEF CachedSpec

-----------------------------------------------------------------------------

\* Returning drops the locks of the thread that returns and of no other, and
\* leaves it where no lock is held.
LEMMA CachedReturnKeepsLocks ==
  ASSUME CachedTypeOK, CachedPathInv, CachedLockInv, NEW t \in Threads, CachedReturn(t), UNCHANGED cached_modes
  PROVE  CachedPathInv' /\ CachedLockInv'
<1> USE ConstantsAssumption DEF cached_modes
<1>1. /\ pc' = [pc EXCEPT ![t] = "idle"]
      /\ call' = [call EXCEPT ![t] = NoCall]
  BY DEF CachedReturn, Goto
<1>2. CachedPathInv'
  BY <1>1 DEF CachedPathInv, CachedTypeOK
<1>3. ASSUME NEW u \in Threads PROVE (writer = u <=> HoldsWriter(u))'
  <2>1. CASE u = t
    BY <1>1, <2>1 DEF CachedReturn, HoldsWriter, CachedTypeOK
  <2>2. CASE u # t
    BY SMT, <1>1, <2>2 DEF CachedReturn, CachedLockInv, HoldsWriter, CachedTypeOK
  <2>3. QED BY <2>1, <2>2
<1>4. ASSUME NEW u \in Threads, NEW b \in Buckets
      PROVE  (bucket[b] = u <=> HoldsBucket(u) /\ BucketOf(u) = b)'
  <2>1. CASE u = t
    BY <1>1, <2>1 DEF CachedReturn, HoldsBucket, CachedTypeOK
  <2>2. CASE u # t
    BY SMT, <1>1, <2>2 DEF CachedReturn, CachedLockInv, HoldsBucket, BucketOf, CachedTypeOK
  <2>3. QED BY <2>1, <2>2
<1>5. QED BY <1>2, <1>3, <1>4 DEF CachedLockInv

\* Every step keeps the owner of each lock in step with the program counters.
LEMMA LocksInductive ==
  ASSUME CachedTypeOK, CachedPathInv, CachedLockInv, [CachedNext]_cached_vars
  PROVE  CachedPathInv' /\ CachedLockInv'
<1>0. CachedModesOK
  BY DEF CachedTypeOK
<1> USE <1>0, ConstantsAssumption DEF CachedModesOK, cached_modes
<1>1. ASSUME NEW t \in Threads, CachedCall(t) PROVE CachedPathInv' /\ CachedLockInv'
  <2>1. PICK k \in Keys, f \in BOOLEAN :
          call' = [call EXCEPT ![t] = [id |-> calls + 1, key |-> k, force |-> f, prime |-> FALSE]]
    BY <1>1 DEF CachedCall, Calls
  <2>2. CachedPathInv'
    BY <1>1, <2>1 DEF CachedCall, Calls, FirstStep, Goto, CachedPathInv, CachedTypeOK
  <2>3. CachedLockInv'
    BY SMT, <1>1, <2>1 DEF CachedCall, Calls, FirstStep, Goto, CachedLockInv, HoldsWriter, HoldsBucket, BucketOf, CachedTypeOK
  <2>4. QED BY <2>2, <2>3
<1>2. ASSUME NEW t \in Threads, CachedPrime(t) PROVE CachedPathInv' /\ CachedLockInv'
  <2>1. PICK k \in Keys :
          call' = [call EXCEPT ![t] = [id |-> calls + 1, key |-> k, force |-> FALSE, prime |-> TRUE]]
    BY <1>2 DEF CachedPrime, Calls
  <2>2. CachedPathInv'
    BY <1>2, <2>1 DEF CachedPrime, Calls, Goto, CachedPathInv, CachedTypeOK
  <2>3. CachedLockInv'
    BY SMT, <1>2, <2>1 DEF CachedPrime, Calls, Goto, CachedLockInv, HoldsWriter, HoldsBucket, BucketOf, CachedTypeOK
  <2>4. QED BY <2>2, <2>3
<1>3. ASSUME NEW t \in Threads, LockBucket(t) PROVE CachedPathInv' /\ CachedLockInv'
  <2>1. CachedPathInv'
    BY <1>3 DEF LockBucket, Goto, CachedPathInv, CachedTypeOK
  <2>2. CachedLockInv'
    BY SMT, <1>3 DEF LockBucket, Goto, CachedPathInv, CachedLockInv, HoldsWriter, HoldsBucket, BucketOf, CachedTypeOK, Call
  <2>3. QED BY <2>1, <2>2
<1>4. ASSUME NEW t \in Threads, ReadUnsync(t) PROVE CachedPathInv' /\ CachedLockInv'
  <2>1. CASE CachedReturn(t)
    BY <1>4, <2>1, CachedReturnKeepsLocks DEF ReadUnsync
  <2>2. CASE Goto(t, "get") /\ UNCHANGED <<call, result, old, writer, bucket>>
    <3>1. CachedPathInv'
      BY <1>4, <2>2 DEF ReadUnsync, Goto, CachedPathInv, CachedTypeOK
    <3>2. CachedLockInv'
      BY SMT, <1>4, <2>2 DEF ReadUnsync, Goto, CachedPathInv, CachedLockInv, HoldsWriter, HoldsBucket, BucketOf, CachedTypeOK
    <3>3. QED BY <3>1, <3>2
  <2>3. QED BY <1>4, <2>1, <2>2 DEF ReadUnsync
<1>5. ASSUME NEW t \in Threads, CachedGet(t) PROVE CachedPathInv' /\ CachedLockInv'
  <2>1. CASE CachedReturn(t)
    BY <1>5, <2>1, CachedReturnKeepsLocks DEF CachedGet
  <2>2. CASE /\ Goto(t, "body")
             /\ writer' = IF sync_writes = "Default" THEN t ELSE NoThread
             /\ UNCHANGED <<call, bucket>>
    <3>1. CachedPathInv'
      BY <1>5, <2>2 DEF CachedGet, Goto, CachedPathInv, CachedTypeOK
    <3>2. CachedLockInv'
      BY SMT, <1>5, <2>2 DEF CachedGet, Goto, CachedPathInv, CachedLockInv, HoldsWriter, HoldsBucket, BucketOf, CachedTypeOK
    <3>3. QED BY <3>1, <3>2
  <2>3. QED BY <1>5, <2>1, <2>2 DEF CachedGet
<1>6. ASSUME NEW t \in Threads, CachedBody(t) PROVE CachedPathInv' /\ CachedLockInv'
  <2>1. CachedPathInv'
    BY <1>6 DEF CachedBody, Goto, CachedPathInv, CachedTypeOK
  <2>2. CachedLockInv'
    BY SMT, <1>6 DEF CachedBody, Goto, CachedPathInv, CachedLockInv, HoldsWriter, HoldsBucket, BucketOf, CachedTypeOK
  <2>3. QED BY <2>1, <2>2
<1>7. ASSUME NEW t \in Threads, CachedUnwinds(t) PROVE CachedPathInv' /\ CachedLockInv'
  BY <1>7, CachedReturnKeepsLocks DEF CachedUnwinds
<1>8. ASSUME NEW t \in Threads, CachedSet(t) PROVE CachedPathInv' /\ CachedLockInv'
  BY <1>8, CachedReturnKeepsLocks DEF CachedSet
<1>9. ASSUME NEW t \in Threads, CachedDropped(t) PROVE CachedPathInv' /\ CachedLockInv'
  BY <1>9, CachedReturnKeepsLocks DEF CachedDropped
<1>10. CASE UNCHANGED <<cached_modes, pc, call, writer, bucket>>
  BY SMT, <1>10 DEF CachedPathInv, CachedLockInv, HoldsWriter, HoldsBucket, BucketOf
<1>11. QED
  BY <1>1, <1>2, <1>3, <1>4, <1>5, <1>6, <1>7, <1>8, <1>9, <1>10
     DEF CachedNext, CachedStep, CachedDone, CachedExpire, CachedEvict, cached_vars

\* A step that stores nothing fresh cannot give a key that is being computed a
\* fresh value.
LEMMA NoNewFreshKeepsComputing ==
  ASSUME CachedTypeOK, ComputeOnlyWhenMissing, UNCHANGED cached_modes,
         \A k \in Keys : Fresh(k)' => Fresh(k),
         \A t \in Threads : Computing(t)' /\ ~call'[t].force /\ sync_writes # "Disabled" =>
             /\ call'[t] = call[t]
             /\ Computing(t) \/ ~Fresh(call[t].key)
  PROVE  ComputeOnlyWhenMissing'
  BY DEF ComputeOnlyWhenMissing, cached_modes, CachedTypeOK, Call

\* Every step leaves a key that is being computed without a fresh value: the
\* lookup saw none, and the store of another call needs a lock this one holds.
LEMMA ComputingInductive ==
  ASSUME CachedTypeOK, CachedPathInv, CachedLockInv, ComputeOnlyWhenMissing, [CachedNext]_cached_vars
  PROVE  ComputeOnlyWhenMissing'
<1>0. CachedModesOK
  BY DEF CachedTypeOK
<1> USE <1>0, ConstantsAssumption DEF CachedModesOK, cached_modes
<1>1. ASSUME NEW t \in Threads, CachedCall(t) PROVE ComputeOnlyWhenMissing'
  BY SMT, <1>1, NoNewFreshKeepsComputing
     DEF CachedCall, Calls, FirstStep, Goto, Computing, Fresh, CachedTypeOK
<1>2. ASSUME NEW t \in Threads, CachedPrime(t) PROVE ComputeOnlyWhenMissing'
  BY SMT, <1>2, NoNewFreshKeepsComputing
     DEF CachedPrime, Calls, Goto, Computing, Fresh, CachedTypeOK
<1>3. ASSUME NEW t \in Threads, LockBucket(t) PROVE ComputeOnlyWhenMissing'
  BY <1>3, NoNewFreshKeepsComputing
     DEF LockBucket, Goto, Computing, Fresh, CachedTypeOK
<1>4. ASSUME NEW t \in Threads, ReadUnsync(t) PROVE ComputeOnlyWhenMissing'
  BY SMT, <1>4, NoNewFreshKeepsComputing
     DEF ReadUnsync, CachedReturn, Goto, Computing, Fresh, CachedTypeOK
<1>5. ASSUME NEW t \in Threads, CachedGet(t) PROVE ComputeOnlyWhenMissing'
  <2>1. \A k \in Keys : Fresh(k)' => Fresh(k)
    BY <1>5 DEF CachedGet, Fresh, AfterMiss, CachedTypeOK, Call
  <2>2. QED
    BY SMT, <1>5, <2>1, NoNewFreshKeepsComputing
       DEF CachedGet, CachedReturn, Goto, Computing, CachedTypeOK
<1>6. ASSUME NEW t \in Threads, CachedBody(t) PROVE ComputeOnlyWhenMissing'
  BY <1>6, NoNewFreshKeepsComputing DEF CachedBody, Goto, Computing, Fresh, CachedTypeOK
<1>7. ASSUME NEW t \in Threads, CachedUnwinds(t) PROVE ComputeOnlyWhenMissing'
  BY <1>7, NoNewFreshKeepsComputing
     DEF CachedUnwinds, CachedReturn, Goto, Computing, Fresh, CachedTypeOK
<1>8. ASSUME NEW t \in Threads, CachedSet(t) PROVE ComputeOnlyWhenMissing'
  <2> SUFFICES ASSUME NEW u \in Threads, sync_writes # "Disabled",
                      Computing(u)', ~call'[u].force
               PROVE  ~Fresh(call[u].key)' /\ call'[u] = call[u]
    BY <1>8 DEF CachedSet, ComputeOnlyWhenMissing
  <2>1. u # t /\ Computing(u) /\ call'[u] = call[u]
    BY <1>8 DEF CachedSet, CachedReturn, Goto, Computing, CachedTypeOK
  <2>2. ~Fresh(call[u].key)
    BY <2>1 DEF ComputeOnlyWhenMissing
  <2>3. call[u].key # call[t].key
    <3>1. CASE sync_writes = "Default"
      BY SMT, <1>8, <2>1, <3>1 DEF CachedSet, Computing, CachedLockInv, HoldsWriter
    <3>2. CASE sync_writes = "ByKey"
      <4>1. bucket[BucketOf(t)] = t
        <5>1. BucketOf(t) \in Buckets
          BY DEF BucketOf, CachedTypeOK, Call
        <5>2. HoldsBucket(t)
          BY <1>8, <3>2 DEF CachedSet, HoldsBucket
        <5>3. QED BY <5>1, <5>2 DEF CachedLockInv
      <4>2. bucket[BucketOf(u)] = u
        BY SMT, <2>1, <3>2 DEF Computing, CachedLockInv, HoldsBucket, BucketOf, CachedTypeOK, Call
      <4>3. QED BY <2>1, <4>1, <4>2 DEF BucketOf
    <3>3. QED BY <3>1, <3>2
  <2>4. call[u].key \in Keys /\ call[t].key \in Keys
    BY DEF CachedTypeOK, Call
  <2>5. cache'[call[u].key] = cache[call[u].key]
    BY <1>8, <2>3, <2>4 DEF CachedSet, CachedTypeOK
  <2>6. QED BY <2>1, <2>2, <2>5 DEF Fresh
<1>9. ASSUME NEW k \in Keys, CachedExpire(k) PROVE ComputeOnlyWhenMissing'
  BY <1>9, NoNewFreshKeepsComputing DEF CachedExpire, Computing, Fresh, CachedTypeOK
<1>10. ASSUME NEW k \in Keys, CachedEvict(k) PROVE ComputeOnlyWhenMissing'
  BY <1>10, NoNewFreshKeepsComputing DEF CachedEvict, Computing, Fresh, CachedTypeOK
<1>11. ASSUME NEW t \in Threads, CachedDropped(t) PROVE ComputeOnlyWhenMissing'
  BY <1>11, NoNewFreshKeepsComputing
     DEF CachedDropped, CachedReturn, Goto, Computing, Fresh, CachedTypeOK
<1>12. CASE UNCHANGED cached_vars
  BY <1>12 DEF cached_vars, ComputeOnlyWhenMissing, Computing, Fresh
<1>13. QED
  BY <1>1, <1>2, <1>3, <1>4, <1>5, <1>6, <1>7, <1>8, <1>9, <1>10, <1>11, <1>12
     DEF CachedNext, CachedStep, CachedDone

\* Every step leaves in the cache only what was stored last for its key.
LEMMA LatestInductive ==
  ASSUME CachedTypeOK, CachedTypeOK', HoldsLatestOk, [CachedNext]_cached_vars
  PROVE  HoldsLatestOk'
<1>0. macro = "cached" /\ macro' = "cached"
  BY DEF CachedTypeOK, CachedModesOK
<1> USE <1>0, ConstantsAssumption
<1>1. ASSUME NEW t \in Threads, CachedGet(t) PROVE HoldsLatestOk'
  BY <1>1 DEF CachedGet, AfterMiss, HoldsLatestOk, CachedTypeOK
<1>2. ASSUME NEW t \in Threads, CachedSet(t) PROVE HoldsLatestOk'
  <2> SUFFICES ASSUME NEW k \in Keys, cache'[k] # Empty
               PROVE  cache'[k].val = latest'[k]
    BY DEF HoldsLatestOk
  <2>1. CASE k # call[t].key \/ CachedResult(t) = Err
    BY <1>2, <2>1 DEF CachedSet, CachedResult, HoldsLatestOk, CachedTypeOK
  <2>2. CASE k = call[t].key /\ CachedResult(t) # Err
    <3>1. cache'[k].val = CachedResult(t)
      BY <1>2, <2>2 DEF CachedSet, CachedTypeOK
    <3>2. latest'[k] = IF result[t] = Err THEN latest[k] ELSE result[t]
      BY <1>2, <2>2 DEF CachedSet, CachedTypeOK
    <3>3. QED BY <2>2, <3>1, <3>2 DEF CachedResult, HoldsLatestOk
  <2>3. QED BY <2>1, <2>2
<1>3. ASSUME NEW k \in Keys, CachedExpire(k) PROVE HoldsLatestOk'
  BY <1>3 DEF CachedExpire, Fresh, HoldsLatestOk, CachedTypeOK
<1>4. ASSUME NEW k \in Keys, CachedEvict(k) PROVE HoldsLatestOk'
  BY <1>4 DEF CachedEvict, HoldsLatestOk, CachedTypeOK
<1>5. CASE UNCHANGED <<cache, latest>>
  BY <1>5 DEF HoldsLatestOk
<1>6. QED
  BY <1>1, <1>2, <1>3, <1>4, <1>5
     DEF CachedNext, CachedStep, CachedDone, CachedCall, Calls, CachedPrime, LockBucket, ReadUnsync, CachedBody, CachedUnwinds, CachedDropped, cached_vars

-----------------------------------------------------------------------------

\* Before the first call the invariant holds.
LEMMA CachedStart == CachedInit => CachedIInv
<1> SUFFICES ASSUME CachedInit PROVE CachedIInv
  OBVIOUS
<1>1. CachedTypeOK
  BY NoCallIsCall DEF CachedInit, CachedUncalled, Uncalled, CachedTypeOK, CachedModesOK
<1>2. CachedPathInv
  BY DEF CachedInit, CachedUncalled, Uncalled, CachedPathInv
<1>3. CachedLockInv
  BY ConstantsAssumption DEF CachedInit, CachedUncalled, Uncalled, CachedLockInv, HoldsWriter, HoldsBucket
<1>4. ComputeOnlyWhenMissing
  BY DEF CachedInit, CachedUncalled, Uncalled, ComputeOnlyWhenMissing, Computing
<1>5. HoldsLatestOk
  BY DEF CachedInit, CachedUncalled, Uncalled, HoldsLatestOk
<1>6. QED BY <1>1, <1>2, <1>3, <1>4, <1>5 DEF CachedIInv

\* What a step of the generated #[cached] function preserves.
LEMMA CachedInductive == CachedIInv /\ [CachedNext]_cached_vars => CachedIInv'
  BY CachedTypeInductive, LocksInductive, ComputingInductive, LatestInductive DEF CachedIInv

\* The locks follow the program counters, and with them the properties below.
THEOREM CachedInvariance == CachedSpec => []CachedIInv
  BY CachedStart, CachedInductive, PTL DEF CachedSpec

\* The owner of a lock is the only one to run the body under it.
LEMMA CachedOneBody == CachedIInv => OneBodyAtATime
<1> SUFFICES ASSUME CachedIInv, NEW t \in Threads, NEW u \in Threads,
                    t # u, Computing(t), Computing(u), sync_writes # "Disabled"
             PROVE  sync_writes = "ByKey" /\ BucketOf(t) # BucketOf(u)
  BY DEF OneBodyAtATime
<1>1. sync_writes # "Default"
  BY DEF CachedIInv, CachedLockInv, HoldsWriter, Computing
<1>2. HoldsBucket(t) /\ HoldsBucket(u) /\ BucketOf(t) \in Buckets
  BY <1>1, ConstantsAssumption
     DEF CachedModesOK, HoldsBucket, Computing, BucketOf, CachedIInv, CachedTypeOK, Call
<1>3. QED BY SMT, <1>2 DEF CachedIInv, CachedLockInv, HoldsBucket

\* With sync_writes, the bodies of two calls never overlap: in Default mode for
\* any keys, in ByKey mode for keys of one bucket.
THEOREM CachedMutualExclusion == CachedSpec => []OneBodyAtATime
  BY CachedOneBody, CachedInvariance, PTL

\* With sync_writes, no call computes a value for a key that has a fresh one.
THEOREM NoRedundantBody == CachedSpec => []ComputeOnlyWhenMissing
<1>1. CachedIInv => ComputeOnlyWhenMissing
  BY DEF CachedIInv
<1>2. QED BY <1>1, CachedInvariance, PTL

\* In every mode the cache holds the last Ok stored for a key: the fallback of a
\* failed call never puts an older value back.
THEOREM NoStaleFallback == CachedSpec => []HoldsLatestOk
<1>1. CachedIInv => HoldsLatestOk
  BY DEF CachedIInv
<1>2. QED BY <1>1, CachedInvariance, PTL

-----------------------------------------------------------------------------

\* The clock never runs behind what was read from it.
OnceClockInv ==
    /\ \A t \in Threads : now[t] <= clock
    /\ created # Empty => created <= clock

\* With sync_writes, a call that is not a prime holds the write lock from its
\* second lookup to its return, and no other call holds it.
OnceLockInv ==
    \A t \in Threads :
        writer = t <=> sync_writes = "Default" /\ ~call[t].prime /\ pc[t] \in {"body", "set"}

\* A prime never looks the value up, and only sync_writes looks twice.
OncePathInv ==
    \A t \in Threads :
        /\ pc[t] \in {"read", "check"} => ~call[t].prime
        /\ pc[t] = "check" => sync_writes = "Default"

\* With sync_writes, a call that computes because the value was too old finds
\* it as old, or older, when it stores its own.
OnceExpiredInv ==
    \A t \in Threads :
        (sync_writes = "Default" /\ ~call[t].prime /\ ~call[t].force /\ pc[t] \in {"body", "set"} /\ created # Empty)
            => now[t] >= created + Ttl

OnceIInv == OnceTypeOK /\ OnceClockInv /\ OnceLockInv /\ OncePathInv /\ OnceExpiredInv

-----------------------------------------------------------------------------

\* A #[once] call that returns, and stores its result only while no other call
\* holds the write lock, keeps the invariant.
LEMMA OnceReturnKeeps ==
  ASSUME OnceIInv, NEW t \in Threads, OnceReturn(t), UNCHANGED <<once_modes, clock, calls>>,
         created' = created \/ (created' = clock /\ writer \in {NoThread, t})
  PROVE  OnceIInv'
<1> USE ConstantsAssumption DEF once_modes
<1>1. /\ pc' = [pc EXCEPT ![t] = "idle"]
      /\ call' = [call EXCEPT ![t] = NoCall]
      /\ now' = [now EXCEPT ![t] = 0]
      /\ writer' = IF writer = t THEN NoThread ELSE writer
  BY DEF OnceReturn, Goto
<1>2. OnceTypeOK'
  BY <1>1, NoCallIsCall DEF OnceIInv, OnceTypeOK, OnceModesOK
<1>3. OnceClockInv' /\ OncePathInv'
  BY SMT, <1>1 DEF OnceIInv, OnceTypeOK, OnceClockInv, OncePathInv
<1>4. OnceLockInv'
  BY <1>1 DEF OnceIInv, OnceTypeOK, OnceLockInv
<1>5. OnceExpiredInv'
  BY <1>1 DEF OnceIInv, OnceTypeOK, OnceLockInv, OnceExpiredInv
<1>6. QED BY <1>2, <1>3, <1>4, <1>5 DEF OnceIInv

\* What a step of the generated #[once] function preserves.
LEMMA OnceInductive == OnceIInv /\ [OnceNext]_once_vars => OnceIInv'
<1> SUFFICES ASSUME OnceIInv, [OnceNext]_once_vars PROVE OnceIInv'
  OBVIOUS
<1> USE ConstantsAssumption DEF once_modes, Goto
<1>0. NoCall.key \in Keys
  BY NoCallIsCall DEF Call
<1>a. ASSUME NEW t \in Threads, NEW f \in BOOLEAN, NEW p \in BOOLEAN,
             Calls(t, NoCall.key, f, p), now' = [now EXCEPT ![t] = clock] \/ now' = now,
             Goto(t, IF p THEN "body" ELSE "read"), UNCHANGED <<once_modes, clock, writer, created>>
      PROVE  OnceIInv'
  <2> DEFINE c == [id |-> calls + 1, key |-> NoCall.key, force |-> f, prime |-> p]
  <2>1. /\ pc[t] = "idle"
        /\ calls' = calls + 1
        /\ call' = [call EXCEPT ![t] = c]
        /\ pc' = [pc EXCEPT ![t] = IF p THEN "body" ELSE "read"]
    BY <1>a DEF Calls
  <2>2. c \in Call /\ c.prime = p
    BY SMT, <1>0 DEF Call, OnceIInv, OnceTypeOK
  <2> HIDE DEF c
  <2>3. OnceTypeOK'
    BY SMT, <1>a, <2>1, <2>2 DEF OnceIInv, OnceTypeOK, OnceModesOK
  <2>4. OnceClockInv'
    BY SMT, <1>a, <2>1 DEF OnceIInv, OnceTypeOK, OnceClockInv
  <2>5. OnceLockInv'
    BY <1>a, <2>1, <2>2 DEF OnceIInv, OnceTypeOK, OnceLockInv
  <2>6. OncePathInv'
    BY <1>a, <2>1, <2>2 DEF OnceIInv, OnceTypeOK, OncePathInv
  <2>7. ASSUME NEW u \in Threads, u # t
        PROVE  now'[u] = now[u] /\ call'[u] = call[u] /\ pc'[u] = pc[u]
    BY <1>a, <2>1, <2>7 DEF OnceIInv, OnceTypeOK
  <2>8. call'[t].prime = p /\ pc'[t] = IF p THEN "body" ELSE "read"
    BY <2>1, <2>2 DEF OnceIInv, OnceTypeOK
  <2>9. OnceExpiredInv'
    BY SMT, <1>a, <2>7, <2>8 DEF OnceIInv, OnceExpiredInv
  <2>10. QED BY <2>3, <2>4, <2>5, <2>6, <2>9 DEF OnceIInv
<1>1. ASSUME NEW t \in Threads, OnceCall(t) PROVE OnceIInv'
  BY <1>1, <1>a DEF OnceCall
<1>2. ASSUME NEW t \in Threads, OncePrime(t) PROVE OnceIInv'
  BY <1>2, <1>a DEF OncePrime
<1>3. ASSUME NEW t \in Threads, OnceRead(t) PROVE OnceIInv'
  <2>1. CASE OnceReturn(t)
    BY <1>3, <2>1, OnceReturnKeeps DEF OnceRead
  <2>2. CASE Goto(t, IF sync_writes = "Default" THEN "check" ELSE "body") /\ UNCHANGED <<call, now, writer>>
    <3>1. OnceTypeOK' /\ OnceClockInv'
      BY <1>3, <2>2 DEF OnceRead, OnceIInv, OnceTypeOK, OnceModesOK, OnceClockInv
    <3>2. OnceLockInv' /\ OncePathInv'
      BY <1>3, <2>2 DEF OnceRead, OnceIInv, OnceTypeOK, OnceModesOK, OnceLockInv, OncePathInv
    <3>3. OnceExpiredInv'
      BY <1>3, <2>2 DEF OnceRead, OnceIInv, OnceTypeOK, OnceExpiredInv
    <3>4. QED BY <3>1, <3>2, <3>3 DEF OnceIInv
  <2>3. QED BY <1>3, <2>1, <2>2 DEF OnceRead
<1>4. ASSUME NEW t \in Threads, OnceCheck(t) PROVE OnceIInv'
  <2>1. CASE OnceReturn(t)
    BY <1>4, <2>1, OnceReturnKeeps DEF OnceCheck
  <2>2. CASE ~IsHit(t) /\ Goto(t, "body") /\ writer' = t /\ UNCHANGED <<call, now>>
    <3>1. OnceTypeOK' /\ OnceClockInv'
      BY <1>4, <2>2 DEF OnceCheck, OnceIInv, OnceTypeOK, OnceModesOK, OnceClockInv
    <3>2. OnceLockInv' /\ OncePathInv'
      BY <1>4, <2>2 DEF OnceCheck, OnceIInv, OnceTypeOK, OnceModesOK, OnceLockInv, OncePathInv
    <3>3. created # Empty /\ ~call[t].force => now[t] >= created + Ttl
      BY SMT, <2>2 DEF IsHit, OnceIInv, OnceTypeOK
    <3>4. OnceExpiredInv'
      BY <1>4, <2>2, <3>3 DEF OnceCheck, OnceIInv, OnceTypeOK, OnceExpiredInv
    <3>5. QED BY <3>1, <3>2, <3>4 DEF OnceIInv
  <2>3. QED BY <1>4, <2>1, <2>2 DEF OnceCheck
<1>5. ASSUME NEW t \in Threads, OnceBody(t) PROVE OnceIInv'
  BY <1>5 DEF OnceBody, OnceIInv, OnceTypeOK, OnceModesOK, OnceClockInv, OnceLockInv, OncePathInv, OnceExpiredInv
<1>6. ASSUME NEW t \in Threads, OnceUnwinds(t) PROVE OnceIInv'
  BY <1>6, OnceReturnKeeps DEF OnceUnwinds
<1>7. ASSUME NEW t \in Threads, OnceSet(t) PROVE OnceIInv'
  BY <1>7, OnceReturnKeeps DEF OnceSet
<1>8. ASSUME NEW t \in Threads, OnceDropped(t) PROVE OnceIInv'
  BY <1>8, OnceReturnKeeps DEF OnceDropped
<1>9. CASE Tick
  BY SMT, <1>9 DEF Tick, OnceIInv, OnceTypeOK, OnceModesOK, OnceClockInv, OnceLockInv, OncePathInv, OnceExpiredInv
<1>10. CASE UNCHANGED once_vars
  BY <1>10 DEF once_vars, OnceIInv, OnceTypeOK, OnceModesOK, OnceClockInv, OnceLockInv, OncePathInv, OnceExpiredInv
<1>11. QED
  BY <1>1, <1>2, <1>3, <1>4, <1>5, <1>6, <1>7, <1>8, <1>9, <1>10 DEF OnceNext, OnceStep, OnceDone

\* Before the first call the invariant holds.
LEMMA OnceStart == OnceInit => OnceIInv
  BY SMT, ConstantsAssumption, NoCallIsCall
     DEF OnceInit, OnceUncalled, Uncalled, OnceModesOK, OnceIInv, OnceTypeOK, OnceClockInv, OnceLockInv, OncePathInv, OnceExpiredInv

\* The invariant holds throughout.
THEOREM OnceInvariance == OnceSpec => []OnceIInv
  BY OnceStart, OnceInductive, PTL DEF OnceSpec

\* The holder of the write lock is the only one to run the body under it.
LEMMA OnceOneBody == OnceIInv => OneBodyAtATime
  BY ConstantsAssumption DEF OnceIInv, OnceTypeOK, OnceModesOK, OnceLockInv, OneBodyAtATime, Computing

\* With sync_writes the bodies of two #[once] calls never overlap.
THEOREM OnceMutualExclusion == OnceSpec => []OneBodyAtATime
  BY OnceOneBody, OnceInvariance, PTL

\* With sync_writes, an ordinary call about to store has outwaited the value's ttl.
LEMMA OnceReplacesExpired ==
  ASSUME OnceIInv, NEW t \in Threads, sync_writes = "Default", pc[t] = "set",
         ~call[t].prime, ~call[t].force, created # Empty
  PROVE  clock >= created + Ttl
  BY SMT, ConstantsAssumption DEF OnceIInv, OnceTypeOK, OnceClockInv, OnceExpiredInv

\* With sync_writes an ordinary call replaces a value only once its ttl is over.
THEOREM AtMostOncePerTtl == OnceSpec => OncePerTtl
<1>1. OnceIInv /\ [OnceNext]_once_vars =>
        [\A t \in Threads :
            (sync_writes = "Default" /\ pc[t] = "set" /\ pc'[t] = "idle" /\ ~call[t].prime /\ ~call[t].force
                /\ created # Empty) => clock >= created + Ttl]_once_vars
  BY OnceReplacesExpired
<1>2. QED BY <1>1, OnceInvariance, PTL DEF OnceSpec, OncePerTtl

\* A lookup that returns found a value live at some instant since the call began.
LEMMA OnceHitLive ==
  ASSUME OnceIInv, NEW t \in Threads, OnceRead(t) \/ OnceCheck(t), pc'[t] = "idle"
  PROVE  \E i \in now[t]..clock : created <= i /\ i < created + Ttl
<1>1. IsHit(t)
  BY ConstantsAssumption DEF OnceRead, OnceCheck, Goto, OnceIInv, OnceTypeOK
<1>2. CASE created >= now[t]
  <2>1. created \in now[t]..clock /\ created < created + Ttl
    BY SMT, <1>1, <1>2, ConstantsAssumption DEF IsHit, OnceIInv, OnceTypeOK, OnceClockInv
  <2>2. QED BY SMT, <1>1, <1>2, <2>1, ConstantsAssumption DEF IsHit, OnceIInv, OnceTypeOK
<1>3. CASE ~(created >= now[t])
  <2>1. now[t] \in now[t]..clock /\ created <= now[t] /\ now[t] < created + Ttl
    BY SMT, <1>1, <1>3, ConstantsAssumption DEF IsHit, OnceIInv, OnceTypeOK, OnceClockInv
  <2>2. QED BY <2>1
<1>4. QED BY <1>2, <1>3

\* A cached answer was live at some instant of the call that got it.
THEOREM HitsAreLive == OnceSpec => HitLiveDuringCall
<1>1. OnceIInv /\ [OnceNext]_once_vars =>
        [\A t \in Threads :
            ((OnceRead(t) \/ OnceCheck(t)) /\ pc'[t] = "idle") =>
                \E i \in now[t]..clock : created <= i /\ i < created + Ttl]_once_vars
  BY OnceHitLive
<1>2. QED BY <1>1, OnceInvariance, PTL DEF OnceSpec, HitLiveDuringCall

-----------------------------------------------------------------------------

Methods == {"none", "cache_get_or_set_with", "cache_try_get_or_set_with"}

ConcurrentTypeInv ==
    /\ ConcurrentModesOK
    /\ pc \in [Threads -> {"idle", "get", "body", "set"}]
    /\ call \in [Threads -> Call]
    /\ method \in [Threads -> Methods]
    /\ old \in [Threads -> Nat \cup {Empty}]
    /\ result \in [Threads -> Nat \cup {Err}]
    /\ cache \in [Keys -> Entry \cup {Empty}]
    /\ calls \in Nat
    /\ found \in [Threads -> BOOLEAN]

\* Whatever a later call can be answered with has reached the store.
ConcurrentStoredInv ==
    /\ unstored = {}
    /\ \A k \in Keys : cache[k] # Empty => cache[k].val \in stored

\* A call that found an entry holds its value until it has a result.
ConcurrentFoundInv ==
    \A t \in Threads : FallsBack(t) /\ found[t] => old[t] # Empty

ConcurrentIInv == ConcurrentTypeInv /\ ConcurrentStoredInv /\ ConcurrentFoundInv

-----------------------------------------------------------------------------

\* The end of a call that returns r, an Err or a value the store holds, keeps
\* what the invariant says of the threads.
LEMMA ConcurrentReturnKeeps ==
  ASSUME ConcurrentIInv, NEW t \in Threads, NEW r, ConcurrentReturn(t, r), r = Err \/ r \in stored'
  PROVE  /\ pc' \in [Threads -> {"idle", "get", "body", "set"}]
         /\ call' \in [Threads -> Call]
         /\ method' \in [Threads -> Methods]
         /\ old' \in [Threads -> Nat \cup {Empty}]
         /\ result' \in [Threads -> Nat \cup {Err}]
         /\ found' \in [Threads -> BOOLEAN]
         /\ \A u \in Threads : result_fallback /\ method'[u] = "none" /\ found'[u] => old'[u] # Empty
         /\ unstored' = {}
<1>1. /\ pc' = [pc EXCEPT ![t] = "idle"]
      /\ call' = [call EXCEPT ![t] = NoCall]
      /\ method' = [method EXCEPT ![t] = "none"]
      /\ old' = [old EXCEPT ![t] = Empty]
      /\ result' = [result EXCEPT ![t] = Err]
      /\ found' = [found EXCEPT ![t] = FALSE]
      /\ unstored' = unstored \cup ({r} \ (stored' \cup {Err}))
  BY DEF ConcurrentReturn, Goto
<1>2. QED BY <1>1, NoCallIsCall DEF ConcurrentIInv, ConcurrentTypeInv, Methods, ConcurrentStoredInv, ConcurrentFoundInv, FallsBack

\* A call's result after the fallback is a value or Err.
LEMMA ConcurrentResultType ==
  ASSUME ConcurrentTypeInv, NEW t \in Threads
  PROVE  ConcurrentResult(t) \in Nat \cup {Err}
  BY DEF ConcurrentTypeInv, ConcurrentResult, FallsBack

\* What a step of the generated #[concurrent_cached] function preserves.
LEMMA ConcurrentInductive == ConcurrentIInv /\ [ConcurrentNext]_concurrent_vars => ConcurrentIInv'
<1> SUFFICES ASSUME ConcurrentIInv, [ConcurrentNext]_concurrent_vars PROVE ConcurrentIInv'
  OBVIOUS
<1> USE DEF concurrent_modes, ConcurrentModesOK, FallsBack
<1>1. ASSUME NEW t \in Threads, ConcurrentCall(t) PROVE ConcurrentIInv'
  <2>1. ConcurrentTypeInv'
    BY SMT, <1>1 DEF ConcurrentCall, Calls, Goto, ConcurrentIInv, ConcurrentTypeInv, Call
  <2>2. QED BY <1>1, <2>1 DEF ConcurrentCall, ConcurrentIInv, ConcurrentStoredInv, ConcurrentFoundInv
<1>a. ASSUME NEW t \in Threads, NEW m \in Methods \ {"none"}, CallMethod(t, m) PROVE ConcurrentIInv'
  <2>1. ConcurrentTypeInv'
    BY SMT, <1>a DEF CallMethod, Calls, Goto, ConcurrentIInv, ConcurrentTypeInv, Call
  <2>2. ConcurrentFoundInv'
    BY <1>a DEF CallMethod, ConcurrentIInv, ConcurrentTypeInv, ConcurrentFoundInv
  <2>3. QED BY <1>a, <2>1, <2>2 DEF CallMethod, ConcurrentIInv, ConcurrentStoredInv
<1>2. ASSUME NEW t \in Threads, ConcurrentGet(t) PROVE ConcurrentIInv'
  <2> DEFINE k == call[t].key
  <2>0. k \in Keys /\ cache[k] \in Entry \cup {Empty}
    BY DEF ConcurrentIInv, ConcurrentTypeInv, Call
  <2>1. CASE ~call[t].force /\ Fresh(k) /\ ConcurrentReturn(t, cache[k].val) /\ UNCHANGED cache
    <3>1. cache[k].val \in stored'
      BY <1>2, <2>0, <2>1 DEF ConcurrentGet, Fresh, ConcurrentIInv, ConcurrentStoredInv
    <3>2. QED BY <1>2, <2>1, <3>1, ConcurrentReturnKeeps DEF ConcurrentGet, ConcurrentIInv, ConcurrentTypeInv, ConcurrentStoredInv, ConcurrentFoundInv
  <2>2. CASE /\ Goto(t, "body")
             /\ old' = IF FallsBack(t) THEN [old EXCEPT ![t] = Stale(k)] ELSE old
             /\ found' = [found EXCEPT ![t] = FallsBack(t) /\ cache[k] # Empty]
             /\ cache' = IF FallsBack(t) THEN cache ELSE [cache EXCEPT ![k] = Empty]
             /\ UNCHANGED <<call, method, result, unstored>>
    <3>1. Stale(k) \in Nat \cup {Empty} /\ (cache[k] # Empty => Stale(k) # Empty)
      BY <2>0, ConstantsAssumption DEF Stale, Entry
    <3>2. ConcurrentTypeInv'
      BY <1>2, <2>0, <2>2, <3>1 DEF ConcurrentGet, Goto, ConcurrentIInv, ConcurrentTypeInv, ConcurrentModesOK
    <3>3. ConcurrentStoredInv'
      BY <1>2, <2>0, <2>2 DEF ConcurrentGet, ConcurrentIInv, ConcurrentTypeInv, ConcurrentStoredInv
    <3>4. ConcurrentFoundInv'
      BY <1>2, <2>2, <3>1 DEF ConcurrentGet, ConcurrentIInv, ConcurrentTypeInv, ConcurrentFoundInv
    <3>5. QED BY <3>2, <3>3, <3>4 DEF ConcurrentIInv
  <2>3. QED BY <1>2, <2>1, <2>2 DEF ConcurrentGet
<1>3. ASSUME NEW t \in Threads, ConcurrentGetFails(t) PROVE ConcurrentIInv'
  BY <1>3, ConcurrentReturnKeeps DEF ConcurrentGetFails, ConcurrentIInv, ConcurrentTypeInv, ConcurrentStoredInv, ConcurrentFoundInv
<1>4. ASSUME NEW t \in Threads, ConcurrentBody(t) PROVE ConcurrentIInv'
  <2>1. ConcurrentTypeInv'
    BY SMT, <1>4 DEF ConcurrentBody, Goto, ConcurrentIInv, ConcurrentTypeInv, Call
  <2>2. QED BY <1>4, <2>1 DEF ConcurrentBody, ConcurrentIInv, ConcurrentStoredInv, ConcurrentFoundInv
<1>5. ASSUME NEW t \in Threads, ConcurrentUnwinds(t) PROVE ConcurrentIInv'
  BY <1>5, ConcurrentReturnKeeps DEF ConcurrentUnwinds, ConcurrentIInv, ConcurrentTypeInv, ConcurrentStoredInv, ConcurrentFoundInv
<1>6. ASSUME NEW t \in Threads, ConcurrentWrite(t), ConcurrentResult(t) # Err, stored' = stored \cup {ConcurrentResult(t)}
      PROVE  /\ cache' \in [Keys -> Entry \cup {Empty}]
             /\ \A k \in Keys : cache'[k] # Empty => cache'[k].val \in stored'
  <2>1. ConcurrentResult(t) \in Nat /\ call[t].key \in Keys
    BY <1>6, ConcurrentResultType DEF ConcurrentIInv, ConcurrentTypeInv, Call
  <2>2. [val |-> ConcurrentResult(t), fresh |-> TRUE] \in Entry
    BY <2>1 DEF Entry
  <2>3. QED BY <1>6, <2>1, <2>2 DEF ConcurrentWrite, ConcurrentIInv, ConcurrentTypeInv, ConcurrentStoredInv
<1>7. ASSUME NEW t \in Threads, ConcurrentSet(t) PROVE ConcurrentIInv'
  <2>1. CASE ConcurrentResult(t) = Err /\ UNCHANGED <<cache, stored>>
    BY <1>7, <2>1, ConcurrentReturnKeeps DEF ConcurrentSet, ConcurrentIInv, ConcurrentTypeInv, ConcurrentStoredInv, ConcurrentFoundInv
  <2>2. CASE ConcurrentResult(t) # Err /\ ConcurrentWrite(t) /\ stored' = stored \cup {ConcurrentResult(t)}
    BY <1>6, <1>7, <2>2, ConcurrentReturnKeeps DEF ConcurrentSet, ConcurrentIInv, ConcurrentTypeInv, ConcurrentStoredInv, ConcurrentFoundInv
  <2>3. QED BY <1>7, <2>1, <2>2 DEF ConcurrentSet
<1>8. ASSUME NEW t \in Threads, ConcurrentSetFails(t) PROVE ConcurrentIInv'
  <2>1. CASE UNCHANGED <<cache, stored>>
    BY <1>8, <2>1, ConcurrentReturnKeeps DEF ConcurrentSetFails, ConcurrentIInv, ConcurrentTypeInv, ConcurrentStoredInv, ConcurrentFoundInv
  <2>2. CASE ConcurrentWrite(t) /\ stored' = stored \cup {ConcurrentResult(t)}
    BY <1>6, <1>8, <2>2, ConcurrentReturnKeeps DEF ConcurrentSetFails, ConcurrentIInv, ConcurrentTypeInv, ConcurrentStoredInv, ConcurrentFoundInv
  <2>3. QED BY <1>8, <2>1, <2>2 DEF ConcurrentSetFails
<1>9. ASSUME NEW k \in Keys, ConcurrentExpire(k) PROVE ConcurrentIInv'
  <2>1. [val |-> cache[k].val, fresh |-> FALSE] \in Entry
    BY <1>9 DEF ConcurrentExpire, Fresh, ConcurrentIInv, ConcurrentTypeInv, Entry
  <2>2. QED BY <1>9, <2>1 DEF ConcurrentExpire, Fresh, ConcurrentIInv, ConcurrentTypeInv, ConcurrentStoredInv, ConcurrentFoundInv
<1>10. ASSUME NEW k \in Keys, ConcurrentEvict(k) PROVE ConcurrentIInv'
  BY <1>10 DEF ConcurrentEvict, ConcurrentIInv, ConcurrentTypeInv, ConcurrentStoredInv, ConcurrentFoundInv
<1>11. CASE UNCHANGED concurrent_vars
  BY <1>11 DEF concurrent_vars, ConcurrentIInv, ConcurrentTypeInv, ConcurrentStoredInv, ConcurrentFoundInv
<1>12. QED
  BY <1>1, <1>a, <1>2, <1>3, <1>4, <1>5, <1>7, <1>8, <1>9, <1>10, <1>11
     DEF ConcurrentNext, ConcurrentStep, ConcurrentDone, cache_get_or_set_with, cache_try_get_or_set_with, Methods

\* Before the first call the invariant holds.
LEMMA ConcurrentStart == ConcurrentInit => ConcurrentIInv
  BY SMT, NoCallIsCall DEF ConcurrentInit, ConcurrentUncalled, Uncalled, Methods, FallsBack, ConcurrentModesOK, ConcurrentIInv, ConcurrentTypeInv, ConcurrentStoredInv, ConcurrentFoundInv

\* The strengthened invariant holds in every reachable state.
THEOREM ConcurrentInvariance == ConcurrentSpec => []ConcurrentIInv
  BY ConcurrentStart, ConcurrentInductive, PTL DEF ConcurrentSpec

\* A call that found an entry has a value to fall back to.
LEMMA ConcurrentFallback == ConcurrentIInv => FallbackNotLost
  BY SMT, ConstantsAssumption DEF ConcurrentIInv, ConcurrentTypeInv, ConcurrentFoundInv, FallbackNotLost, ConcurrentResult, FallsBack

\* With result_fallback, a call whose body failed returns Err only if its lookup
\* found neither a live nor an expired entry.
THEOREM FallbackIsKept == ConcurrentSpec => []FallbackNotLost
  BY ConcurrentFallback, ConcurrentInvariance, PTL

\* Every Ok a caller got, from the cache, the body or the fallback, had reached
\* the store.
THEOREM OkIsStored == ConcurrentSpec => []OkMeansStored
<1>1. ConcurrentIInv => OkMeansStored
  BY DEF ConcurrentIInv, ConcurrentStoredInv, OkMeansStored
<1>2. QED BY <1>1, ConcurrentInvariance, PTL

-----------------------------------------------------------------------------

\* #[cached]: the store of an accepted list that asks for result_fallback hands out
\* expired values, since the list has a ttl, expires or a type of its own.
LEMMA FallbackStore ==
    ASSUME NEW a, NEW i, CachedList!Accepts(a, i), "result_fallback" \in a
    PROVE  CachedList!StoreOf(a) \in CachedList!CloneCachedStores
BY DEF CachedList!Accepts, CachedList!FallbackOK, CachedList!StoreOf, CachedList!CloneCachedStores, CachedList!Given,
       CachedList!has_ttl, CachedList!check_create_conflicts, CachedList!SizeOK

\* #[cached]: the store of an accepted list that asks for unsync_reads can be read
\* without changing it.
LEMMA UnsyncStore ==
    ASSUME NEW a, NEW i, CachedList!Accepts(a, i), "unsync_reads" \in a
    PROVE  /\ CachedList!StoreOf(a) \in CachedList!CachedReadStores
           /\ "sync_lock=mutex" \notin a
BY DEF CachedList!Accepts, CachedList!UnsyncOK, CachedList!StoreOf, CachedList!CachedReadStores, CachedList!Given,
       CachedList!has_ttl, CachedList!ExpiresStoreOK

\* #[cached]: every list the macro accepts, of any length, generates calls its
\* store has, and never a fallback under a lock held across the body.
THEOREM CachedCallsSupported ==
    ASSUME NEW a, NEW i
    PROVE  CachedList!CallsSupported(a, i)
<1> SUFFICES ASSUME CachedList!Accepts(a, i) PROVE CachedList!CallsSupported(a, i)
  BY DEF CachedList!CallsSupported
<1> DEFINE e == CachedList!Expansion(a, i)
<1>1. ASSUME e.lookup = "cache_get_read"
      PROVE  e.store \in CachedList!CachedReadStores /\ e.lock = "RwLock"
  <2>1. "unsync_reads" \in a
    BY <1>1 DEF CachedList!Expansion, CachedList!LookupOf
  <2>2. QED BY <2>1, UnsyncStore DEF CachedList!Expansion, CachedList!LockType
<1>2. ASSUME e.lookup = "cache_get_with_expiry_status"
      PROVE  /\ e.store \in CachedList!CloneCachedStores
             /\ e.sync_writes = "Disabled"
             /\ e.value = "inner" /\ CachedList!is_result_return_type(i)
  <2>1. "result_fallback" \in a
    BY <1>2 DEF CachedList!Expansion, CachedList!LookupOf
  <2>2. e.store \in CachedList!CloneCachedStores
    BY <2>1, FallbackStore DEF CachedList!Expansion
  <2>3. e.sync_writes = "Disabled" /\ CachedList!is_result_return_type(i)
    BY <2>1 DEF CachedList!Expansion, CachedList!Accepts, CachedList!FallbackOK
  <2>4. "cache_err" \notin a
    BY <2>1 DEF CachedList!Accepts, CachedList!ReturnOK
  <2>5. QED BY <2>2, <2>3, <2>4 DEF CachedList!Expansion, CachedList!find_value_type, CachedList!is_smart_result
<1>3. QED BY <1>1, <1>2 DEF CachedList!CallsSupported

\* #[concurrent_cached]: every list the macro accepts, of any length, generates
\* calls its store has, and a store that can fail only under a function that can
\* return its error.
THEOREM ConcurrentCallsSupported ==
    ASSUME NEW a, NEW i
    PROVE  ConcurrentList!CallsSupported(a, i)
<1> SUFFICES ASSUME ConcurrentList!Accepts(a, i) PROVE ConcurrentList!CallsSupported(a, i)
  BY DEF ConcurrentList!CallsSupported
<1> DEFINE e == ConcurrentList!Expansion(a, i)
<1>1. /\ e.store = ConcurrentList!StoreOf(a)
      /\ e.unwrap = ConcurrentList!UnwrapOf(a)
      /\ e.lookup = ConcurrentList!LookupOf(a)
      /\ e.value = ConcurrentList!find_value_type(a, i)
  BY DEF ConcurrentList!Expansion
<1>2. e.unwrap # "expect" <=> ~ConcurrentList!infallible_default(a)
  BY <1>1 DEF ConcurrentList!UnwrapOf
<1>3. e.store \in {"RedisCache", "RedbCache", "custom"} <=> ~ConcurrentList!infallible_default(a)
  BY <1>1 DEF ConcurrentList!StoreOf, ConcurrentList!ShardedStore
<1>4. e.unwrap # "expect" => ConcurrentList!is_result_return_type(i)
  BY <1>2 DEF ConcurrentList!Accepts, ConcurrentList!FallibleOK
<1>5. ASSUME e.lookup = "cache_get_with_expiry_status"
      PROVE  e.store \in ConcurrentList!ConcurrentCloneCachedStores /\ e.value = "inner"
  <2>1. "result_fallback" \in a
    BY <1>1, <1>5 DEF ConcurrentList!LookupOf
  <2>2. ConcurrentList!infallible_default(a)
    BY <2>1 DEF ConcurrentList!Accepts, ConcurrentList!FallibleOK, ConcurrentList!Given
  <2>3. ConcurrentList!has_ttl(a) \/ "expires" \in a
    BY <2>1 DEF ConcurrentList!Accepts, ConcurrentList!FallbackOK
  <2>4. e.store \in ConcurrentList!ConcurrentCloneCachedStores
    BY <1>1, <2>2, <2>3
    DEF ConcurrentList!StoreOf, ConcurrentList!ShardedStore, ConcurrentList!ConcurrentCloneCachedStores
  <2>5. ConcurrentList!is_smart_result(a, i)
    BY <2>1 DEF ConcurrentList!Accepts, ConcurrentList!ReturnOK, ConcurrentList!Given, ConcurrentList!is_smart_result
  <2>6. QED BY <1>1, <2>4, <2>5 DEF ConcurrentList!find_value_type
<1>6. QED BY <1>2, <1>3, <1>4, <1>5 DEF ConcurrentList!CallsSupported

\* #[cached]: two lists agree on every part of the code they generate.
CachedAgree(a, b, i) ==
    /\ CachedList!StoreOf(b) = CachedList!StoreOf(a)
    /\ CachedList!RefreshOf(b) = CachedList!RefreshOf(a)
    /\ CachedList!KeyConversion(b) = CachedList!KeyConversion(a)
    /\ CachedList!ReturnBlock(b) = CachedList!ReturnBlock(a)
    /\ CachedList!LockType(b) = CachedList!LockType(a)
    /\ CachedList!StaticOf(b) = CachedList!StaticOf(a)
    /\ CachedList!SyncWriteMode(b) = CachedList!SyncWriteMode(a)
    /\ CachedList!LookupOf(b) = CachedList!LookupOf(a)
    /\ CachedList!build_force_refresh_guard(b) = CachedList!build_force_refresh_guard(a)
    /\ CachedList!Companions(b) = CachedList!Companions(a)
    /\ CachedList!find_value_type(b, i) = CachedList!find_value_type(a, i)
    /\ b \cap CachedList!TtlSettings = a \cap CachedList!TtlSettings
    /\ CachedList!StoreOf(a) = "custom" \/ CachedList!KeyType(b) = CachedList!KeyType(a)
    /\ "name" \in b <=> "name" \in a
    /\ CachedList!Companions(a) = {} \/ ("companions_vis" \in b <=> "companions_vis" \in a)

\* #[cached]: lists that generate the same code agree.
LEMMA CachedSameCode ==
    ASSUME NEW a, NEW b, NEW i, CachedList!Expansion(b, i) = CachedList!Expansion(a, i)
    PROVE  CachedAgree(a, b, i)
<1> DEFINE e == CachedList!Expansion(a, i)
           f == CachedList!Expansion(b, i)
<1>1. e = f
  OBVIOUS
<1>2. /\ e.store = CachedList!StoreOf(a)
      /\ e.ttl = a \cap CachedList!TtlSettings
      /\ e.refresh = CachedList!RefreshOf(a)
      /\ e.convert = CachedList!KeyConversion(a)
      /\ e.value = CachedList!find_value_type(a, i)
      /\ e.hit = CachedList!ReturnBlock(a)
      /\ e.lock = CachedList!LockType(a)
      /\ e.static = CachedList!StaticOf(a)
      /\ e.sync_writes = CachedList!SyncWriteMode(a)
      /\ e.lookup = CachedList!LookupOf(a)
      /\ e.force = CachedList!build_force_refresh_guard(a)
      /\ e.companions = CachedList!Companions(a)
      /\ f.store = CachedList!StoreOf(b)
      /\ f.ttl = b \cap CachedList!TtlSettings
      /\ f.refresh = CachedList!RefreshOf(b)
      /\ f.convert = CachedList!KeyConversion(b)
      /\ f.value = CachedList!find_value_type(b, i)
      /\ f.hit = CachedList!ReturnBlock(b)
      /\ f.lock = CachedList!LockType(b)
      /\ f.static = CachedList!StaticOf(b)
      /\ f.sync_writes = CachedList!SyncWriteMode(b)
      /\ f.lookup = CachedList!LookupOf(b)
      /\ f.force = CachedList!build_force_refresh_guard(b)
      /\ f.companions = CachedList!Companions(b)
  BY DEF CachedList!Expansion
<1>3. /\ e.name = ("name" \in a)
      /\ f.name = ("name" \in b)
      /\ e.vis = IF CachedList!Companions(a) = {} THEN "none" ELSE IF "companions_vis" \in a THEN "given" ELSE "inherited"
      /\ f.vis = IF CachedList!Companions(b) = {} THEN "none" ELSE IF "companions_vis" \in b THEN "given" ELSE "inherited"
      /\ e.key = IF CachedList!StoreOf(a) = "custom" THEN "custom" ELSE CachedList!KeyType(a)
      /\ f.key = IF CachedList!StoreOf(b) = "custom" THEN "custom" ELSE CachedList!KeyType(b)
  BY DEF CachedList!Expansion
<1> HIDE DEF e, f
<1>4. QED BY <1>1, <1>2, <1>3 DEF CachedAgree

\* #[cached]: leaving out a setting of an accepted list, other than the ones
\* Redundant names, changes some part of what is generated.
LEMMA CachedSettingMatters ==
    ASSUME NEW a \in SUBSET Settings["cached"], NEW i, NEW s \in a,
           ~({"sync_writes=default", "sync_writes=by_key"} \subseteq a),
           CachedList!Accepts(a, i), CachedList!Accepts(a \ {s}, i), ~CachedList!Redundant(a, s)
    PROVE  CachedList!Expansion(a \ {s}, i) # CachedList!Expansion(a, i)
<1> DEFINE b == a \ {s}
<1> SUFFICES ASSUME CachedList!Expansion(b, i) = CachedList!Expansion(a, i) PROVE FALSE
  OBVIOUS
<1>same. CachedAgree(a, b, i)
  BY CachedSameCode
<1> USE DEF CachedList!Given
<1>1. s \notin {"ttl", "ttl_secs"}
  <2>1. b \cap CachedList!TtlSettings = a \cap CachedList!TtlSettings
    BY <1>same DEF CachedAgree
  <2>2. QED BY <2>1 DEF CachedList!TtlSettings
<1>2. CachedList!StoreOf(b) = CachedList!StoreOf(a)
  BY <1>same DEF CachedAgree
<1>3. /\ CachedList!SizeOK(a) /\ CachedList!ExpiresStoreOK(a) /\ CachedList!check_create_conflicts(a)
      /\ CachedList!StoreOf(a) # "error" /\ CachedList!StoreOf(b) # "error" /\ CachedList!ReturnOK(a, i)
      /\ CachedList!RefreshOK(a) /\ CachedList!ReceiverOK(a, i) /\ CachedList!ReceiverOK(b, i)
      /\ CachedList!CompanionsOK(a) /\ CachedList!BucketsOK(a)
  BY DEF CachedList!Accepts
<1>4. s # "expires"
  BY <1>2 DEF CachedList!StoreOf
<1>5. s \notin {"ty", "create"}
  BY <1>3 DEF CachedList!StoreOf, CachedList!ExpiresStoreOK
<1>6. s # "max_size"
  <2> SUFFICES ASSUME s = "max_size" PROVE FALSE
    OBVIOUS
  <2>1. CachedList!has_ttl(b) = CachedList!has_ttl(a)
    BY DEF CachedList!has_ttl, CachedList!TtlSettings
  <2>2. QED BY <1>2, <1>3, <2>1 DEF CachedList!StoreOf, CachedList!SizeOK
<1>7. CachedList!find_value_type(b, i) = CachedList!find_value_type(a, i)
  BY <1>same DEF CachedAgree
<1>8. s \notin {"cache_err", "cache_none"}
  BY <1>3, <1>7
     DEF CachedList!ReturnOK, CachedList!find_value_type, CachedList!is_smart_result,
         CachedList!is_smart_option, CachedList!is_result_return_type, CachedList!is_option_return_type
<1>9. s # "with_cached_flag"
  BY <1>same DEF CachedAgree, CachedList!ReturnBlock
<1>10. CachedList!LookupOf(b) = CachedList!LookupOf(a)
  BY <1>same DEF CachedAgree
<1>11. s \notin {"result_fallback", "unsync_reads"}
  BY <1>10 DEF CachedList!LookupOf, CachedList!Redundant
<1>12. s # "refresh"
  <2> SUFFICES ASSUME s = "refresh" PROVE FALSE
    OBVIOUS
  <2>1. CachedList!StoreOf(a) \in {"TtlCache", "LruTtlCache"}
    BY <1>3 DEF CachedList!StoreOf, CachedList!RefreshOK, CachedList!ExpiresStoreOK,
                CachedList!check_create_conflicts
  <2>2. CachedList!RefreshOf(b) = CachedList!RefreshOf(a)
    BY <1>same DEF CachedAgree
  <2>3. QED BY <2>1, <2>2 DEF CachedList!RefreshOf
<1>13. s # "key"
  <2> SUFFICES ASSUME s = "key" PROVE FALSE
    OBVIOUS
  <2>1. CachedList!StoreOf(a) # "custom"
    BY DEF CachedList!StoreOf, CachedList!Redundant
  <2>2. CachedList!KeyType(b) = CachedList!KeyType(a)
    BY <2>1, <1>same DEF CachedAgree
  <2>3. QED BY <2>2 DEF CachedList!KeyType
<1>14. s # "convert"
  BY <1>same DEF CachedAgree, CachedList!KeyConversion
<1>15. s # "name"
  BY <1>same DEF CachedAgree
<1>16. s # "in_impl"
  BY <1>3 DEF CachedList!ReceiverOK
<1>17. CachedList!Companions(b) = CachedList!Companions(a)
  BY <1>same DEF CachedAgree
<1>18. s # "companions=false"
  BY <1>17 DEF CachedList!Companions, CachedList!Redundant
<1>19. s # "companions_vis"
  <2> SUFFICES ASSUME s = "companions_vis" PROVE FALSE
    OBVIOUS
  <2>1. CachedList!Companions(a) # {}
    BY <1>3 DEF CachedList!Companions, CachedList!CompanionsOK, CachedList!nest_origin_fn
  <2>2. QED BY <2>1, <1>same DEF CachedAgree
<1>20. s # "force_refresh"
  <2>1. CachedList!build_force_refresh_guard(b) = CachedList!build_force_refresh_guard(a)
    BY <1>same DEF CachedAgree
  <2>2. QED BY <2>1 DEF CachedList!build_force_refresh_guard
<1>21. s # "sync_lock=mutex"
  BY <1>same DEF CachedAgree, CachedList!LockType
<1>22. CachedList!SyncWriteMode(b) = CachedList!SyncWriteMode(a)
  BY <1>same DEF CachedAgree
<1>23. s \notin {"sync_writes=default", "sync_writes=by_key"}
  BY <1>22 DEF CachedList!SyncWriteMode
<1>24. CachedList!StaticOf(b) = CachedList!StaticOf(a)
  BY <1>same DEF CachedAgree
<1>25. s # "sync_writes_buckets"
  BY <1>3, <1>22, <1>24 DEF CachedList!StaticOf, CachedList!BucketsOK
<1>26. s \in Settings["cached"]
  OBVIOUS
<1>27. QED
  BY ONLY <1>1, <1>4, <1>5, <1>6, <1>8, <1>9, <1>11, <1>12, <1>13, <1>14, <1>15, <1>16, <1>18, <1>19, <1>20,
     <1>21, <1>23, <1>25, <1>26 DEF Settings, Common

\* #[once]: two lists agree on every part of the code they generate.
OnceAgree(a, b, i) ==
    /\ OnceList!gen_return_cache_block(b) = OnceList!gen_return_cache_block(a)
    /\ OnceList!ReturnBlock(b) = OnceList!ReturnBlock(a)
    /\ OnceList!SyncWriteMode(b) = OnceList!SyncWriteMode(a)
    /\ OnceList!build_force_refresh_guard(b) = OnceList!build_force_refresh_guard(a)
    /\ OnceList!Companions(b) = OnceList!Companions(a)
    /\ OnceList!find_value_type(b, i) = OnceList!find_value_type(a, i)
    /\ b \cap OnceList!TtlSettings = a \cap OnceList!TtlSettings
    /\ "name" \in b <=> "name" \in a
    /\ OnceList!Companions(a) = {} \/ ("companions_vis" \in b <=> "companions_vis" \in a)

\* #[once]: lists that generate the same code agree.
LEMMA OnceSameCode ==
    ASSUME NEW a, NEW b, NEW i, OnceList!Expansion(b, i) = OnceList!Expansion(a, i)
    PROVE  OnceAgree(a, b, i)
<1> DEFINE e == OnceList!Expansion(a, i)
           f == OnceList!Expansion(b, i)
<1>1. e = f
  OBVIOUS
<1>2. /\ e.ttl = a \cap OnceList!TtlSettings
      /\ e.expiry = OnceList!gen_return_cache_block(a)
      /\ e.value = OnceList!find_value_type(a, i)
      /\ e.hit = OnceList!ReturnBlock(a)
      /\ e.sync_writes = OnceList!SyncWriteMode(a)
      /\ e.force = OnceList!build_force_refresh_guard(a)
      /\ e.companions = OnceList!Companions(a)
      /\ f.ttl = b \cap OnceList!TtlSettings
      /\ f.expiry = OnceList!gen_return_cache_block(b)
      /\ f.value = OnceList!find_value_type(b, i)
      /\ f.hit = OnceList!ReturnBlock(b)
      /\ f.sync_writes = OnceList!SyncWriteMode(b)
      /\ f.force = OnceList!build_force_refresh_guard(b)
      /\ f.companions = OnceList!Companions(b)
  BY DEF OnceList!Expansion
<1>3. /\ e.name = ("name" \in a)
      /\ f.name = ("name" \in b)
      /\ e.vis = IF OnceList!Companions(a) = {} THEN "none" ELSE IF "companions_vis" \in a THEN "given" ELSE "inherited"
      /\ f.vis = IF OnceList!Companions(b) = {} THEN "none" ELSE IF "companions_vis" \in b THEN "given" ELSE "inherited"
  BY DEF OnceList!Expansion
<1> HIDE DEF e, f
<1>4. QED BY <1>1, <1>2, <1>3 DEF OnceAgree

\* #[once]: leaving out a setting of an accepted list, other than the one
\* Redundant names, changes some part of what is generated.
LEMMA OnceSettingMatters ==
    ASSUME NEW a \in SUBSET Settings["once"], NEW i, NEW s \in a,
           ~({"sync_writes=default", "sync_writes=by_key"} \subseteq a),
           OnceList!Accepts(a, i), OnceList!Accepts(a \ {s}, i), ~OnceList!Redundant(a, s)
    PROVE  OnceList!Expansion(a \ {s}, i) # OnceList!Expansion(a, i)
<1> DEFINE b == a \ {s}
<1> SUFFICES ASSUME OnceList!Expansion(b, i) = OnceList!Expansion(a, i) PROVE FALSE
  OBVIOUS
<1>same. OnceAgree(a, b, i)
  BY OnceSameCode
<1> USE DEF OnceList!Given
<1>1. s \notin {"ttl", "ttl_secs"}
  BY <1>same DEF OnceAgree, OnceList!TtlSettings
<1>2. /\ OnceList!KeyedOK(a) /\ ~OnceList!reject_once_specific_attrs(a) /\ OnceList!ReceiverOK(a, i)
      /\ OnceList!ReceiverOK(b, i) /\ OnceList!SyncOK(a) /\ OnceList!ReturnOK(a, i) /\ OnceList!CompanionsOK(a)
  BY DEF OnceList!Accepts
<1>3. s \notin {"result_fallback", "refresh", "max_size", "ty", "create", "key", "convert", "in_impl",
               "sync_writes=by_key"}
  BY <1>2 DEF OnceList!KeyedOK, OnceList!reject_once_specific_attrs, OnceList!ReceiverOK, OnceList!SyncOK,
              OnceList!SyncWriteMode
<1>4. OnceList!gen_return_cache_block(b) = OnceList!gen_return_cache_block(a)
  BY <1>same DEF OnceAgree
<1>5. s # "expires"
  BY <1>4 DEF OnceList!gen_return_cache_block
<1>6. OnceList!find_value_type(b, i) = OnceList!find_value_type(a, i)
  BY <1>same DEF OnceAgree
<1>7. s \notin {"cache_err", "cache_none"}
  BY <1>2, <1>6
     DEF OnceList!ReturnOK, OnceList!find_value_type, OnceList!is_smart_result,
         OnceList!is_smart_option, OnceList!is_result_return_type, OnceList!is_option_return_type
<1>8. s # "with_cached_flag"
  BY <1>same DEF OnceAgree, OnceList!ReturnBlock
<1>9. s # "name"
  BY <1>same DEF OnceAgree
<1>10. OnceList!Companions(b) = OnceList!Companions(a)
  BY <1>same DEF OnceAgree
<1>11. s # "companions=false"
  BY <1>10 DEF OnceList!Companions, OnceList!Redundant
<1>12. s # "companions_vis"
  <2> SUFFICES ASSUME s = "companions_vis" PROVE FALSE
    OBVIOUS
  <2>1. OnceList!Companions(a) # {}
    BY <1>2 DEF OnceList!Companions, OnceList!CompanionsOK
  <2>2. QED BY <2>1, <1>same DEF OnceAgree
<1>13. s # "force_refresh"
  <2>1. OnceList!build_force_refresh_guard(b) = OnceList!build_force_refresh_guard(a)
    BY <1>same DEF OnceAgree
  <2>2. QED BY <2>1 DEF OnceList!build_force_refresh_guard
<1>14. s # "sync_writes=default"
  BY <1>same DEF OnceAgree, OnceList!SyncWriteMode
<1>15. s \in Settings["once"]
  OBVIOUS
<1>16. QED
  BY ONLY <1>1, <1>3, <1>5, <1>7, <1>8, <1>9, <1>11, <1>12, <1>13, <1>14, <1>15 DEF Settings, Common

\* #[concurrent_cached]: two lists agree on every part of the code they generate.
ConcurrentAgree(a, b, i) ==
    /\ ConcurrentList!StoreOf(b) = ConcurrentList!StoreOf(a)
    /\ ConcurrentList!BuilderOf(b) = ConcurrentList!BuilderOf(a)
    /\ ConcurrentList!KeyConversion(b) = ConcurrentList!KeyConversion(a)
    /\ ConcurrentList!ReturnBlock(b) = ConcurrentList!ReturnBlock(a)
    /\ ConcurrentList!UnwrapOf(b) = ConcurrentList!UnwrapOf(a)
    /\ ConcurrentList!LookupOf(b) = ConcurrentList!LookupOf(a)
    /\ ConcurrentList!build_force_refresh_guard(b) = ConcurrentList!build_force_refresh_guard(a)
    /\ ConcurrentList!Companions(b) = ConcurrentList!Companions(a)
    /\ ConcurrentList!find_value_type(b, i) = ConcurrentList!find_value_type(a, i)
    /\ ConcurrentList!StoreOf(a) = "custom" \/ ConcurrentList!KeyType(b) = ConcurrentList!KeyType(a)
    /\ "name" \in b <=> "name" \in a
    /\ ConcurrentList!Companions(a) = {} \/ ("companions_vis" \in b <=> "companions_vis" \in a)

\* #[concurrent_cached]: lists that generate the same code agree.
LEMMA ConcurrentSameCode ==
    ASSUME NEW a, NEW b, NEW i, ConcurrentList!Expansion(b, i) = ConcurrentList!Expansion(a, i)
    PROVE  ConcurrentAgree(a, b, i)
<1> DEFINE e == ConcurrentList!Expansion(a, i)
           f == ConcurrentList!Expansion(b, i)
<1>1. e = f
  OBVIOUS
<1>2. /\ e.store = ConcurrentList!StoreOf(a)
      /\ e.builder = ConcurrentList!BuilderOf(a)
      /\ e.convert = ConcurrentList!KeyConversion(a)
      /\ e.value = ConcurrentList!find_value_type(a, i)
      /\ e.hit = ConcurrentList!ReturnBlock(a)
      /\ e.unwrap = ConcurrentList!UnwrapOf(a)
      /\ e.lookup = ConcurrentList!LookupOf(a)
      /\ e.force = ConcurrentList!build_force_refresh_guard(a)
      /\ e.companions = ConcurrentList!Companions(a)
      /\ f.store = ConcurrentList!StoreOf(b)
      /\ f.builder = ConcurrentList!BuilderOf(b)
      /\ f.convert = ConcurrentList!KeyConversion(b)
      /\ f.value = ConcurrentList!find_value_type(b, i)
      /\ f.hit = ConcurrentList!ReturnBlock(b)
      /\ f.unwrap = ConcurrentList!UnwrapOf(b)
      /\ f.lookup = ConcurrentList!LookupOf(b)
      /\ f.force = ConcurrentList!build_force_refresh_guard(b)
      /\ f.companions = ConcurrentList!Companions(b)
  BY DEF ConcurrentList!Expansion
<1>3. /\ e.name = ("name" \in a)
      /\ f.name = ("name" \in b)
      /\ e.vis = IF ConcurrentList!Companions(a) = {} THEN "none" ELSE IF "companions_vis" \in a THEN "given" ELSE "inherited"
      /\ f.vis = IF ConcurrentList!Companions(b) = {} THEN "none" ELSE IF "companions_vis" \in b THEN "given" ELSE "inherited"
      /\ e.key = IF ConcurrentList!StoreOf(a) = "custom" THEN "custom" ELSE ConcurrentList!KeyType(a)
      /\ f.key = IF ConcurrentList!StoreOf(b) = "custom" THEN "custom" ELSE ConcurrentList!KeyType(b)
  BY DEF ConcurrentList!Expansion
<1> HIDE DEF e, f
<1>4. QED BY <1>1, <1>2, <1>3 DEF ConcurrentAgree

\* The default stores are chosen exactly by the lists that name no other.
LEMMA InfallibleDefault ==
    ASSUME NEW a
    PROVE  ConcurrentList!infallible_default(a) <=>
               "redis" \notin a /\ "disk" \notin a /\ "ty" \notin a /\ "create" \notin a
BY DEF ConcurrentList!infallible_default, ConcurrentList!Given

\* #[concurrent_cached]: leaving out a setting of an accepted list, other than the
\* ones Redundant names, changes some part of what is generated.
LEMMA ConcurrentSettingMatters ==
    ASSUME NEW a \in SUBSET Settings["concurrent_cached"], NEW i, NEW s \in a,
           ConcurrentList!Accepts(a, i), ConcurrentList!Accepts(a \ {s}, i),
           ~ConcurrentList!Redundant(a, s)
    PROVE  ConcurrentList!Expansion(a \ {s}, i) # ConcurrentList!Expansion(a, i)
<1> DEFINE b == a \ {s}
<1> SUFFICES ASSUME ConcurrentList!Expansion(b, i) = ConcurrentList!Expansion(a, i) PROVE FALSE
  OBVIOUS
<1>same. ConcurrentAgree(a, b, i)
  BY ConcurrentSameCode
<1> USE DEF ConcurrentList!Given
<1>1. /\ ConcurrentList!StoreOK(a) /\ ConcurrentList!StoreOK(b) /\ ConcurrentList!ExpiresOK(a)
      /\ ConcurrentList!ReturnOK(a, i) /\ ConcurrentList!MapErrorOK(a) /\ ConcurrentList!ReceiverOK(a, i)
      /\ ConcurrentList!ReceiverOK(b, i) /\ ConcurrentList!CompanionsOK(a)
  BY DEF ConcurrentList!Accepts
<1>2. ConcurrentList!StoreOf(b) = ConcurrentList!StoreOf(a)
  BY <1>same DEF ConcurrentAgree
<1>3. ConcurrentList!BuilderOf(b) = ConcurrentList!BuilderOf(a)
  BY <1>same DEF ConcurrentAgree
<1>4. "create" \in a => ConcurrentList!check_create_conflicts(a)
  BY <1>1 DEF ConcurrentList!StoreOK, ConcurrentList!get_redis_cache_type_and_create,
     ConcurrentList!get_disk_cache_type_and_create, ConcurrentList!get_custom_cache_type_and_create
<1>5. "ty" \in a => "create" \in a
  BY <1>1 DEF ConcurrentList!StoreOK, ConcurrentList!get_redis_cache_type_and_create,
     ConcurrentList!get_disk_cache_type_and_create, ConcurrentList!get_custom_cache_type_and_create
<1>6. s \notin {"ttl", "ttl_secs"}
  <2> SUFFICES ASSUME s \in {"ttl", "ttl_secs"} PROVE FALSE
    OBVIOUS
  <2>1. "create" \notin a
    BY <1>4 DEF ConcurrentList!check_create_conflicts, ConcurrentList!has_ttl, ConcurrentList!TtlSettings
  <2>2. s \in ConcurrentList!BuilderOf(a) /\ s \notin ConcurrentList!BuilderOf(b)
    BY <2>1 DEF ConcurrentList!BuilderOf, ConcurrentList!TtlSettings
  <2>3. QED BY <1>3, <2>2
<1>7. s \notin {"refresh", "shards", "durable", "cache_prefix_block"}
  <2> SUFFICES ASSUME s \in {"refresh", "shards", "durable", "cache_prefix_block"} PROVE FALSE
    OBVIOUS
  <2>1. "create" \notin a
    BY <1>4 DEF ConcurrentList!check_create_conflicts
  <2>2. s \in ConcurrentList!BuilderOf(a)
    <3>1. CASE "redis" \in a
      <4>1. s \in {"refresh", "cache_prefix_block"}
        BY <1>1, <3>1 DEF ConcurrentList!StoreOK, ConcurrentList!get_redis_cache_type_and_create
      <4>2. ConcurrentList!StoreOf(a) = "RedisCache"
        BY <1>5, <2>1, <3>1, InfallibleDefault DEF ConcurrentList!StoreOf
      <4>3. QED BY <2>1, <4>1, <4>2 DEF ConcurrentList!BuilderOf
    <3>2. CASE "disk" \in a /\ "redis" \notin a
      <4>1. s \in {"refresh", "durable"}
        BY <1>1, <3>2 DEF ConcurrentList!StoreOK, ConcurrentList!get_disk_cache_type_and_create
      <4>2. ConcurrentList!StoreOf(a) = "RedbCache"
        BY <1>5, <2>1, <3>2, InfallibleDefault DEF ConcurrentList!StoreOf
      <4>3. QED BY <2>1, <4>1, <4>2 DEF ConcurrentList!BuilderOf
    <3>3. CASE "disk" \notin a /\ "redis" \notin a
      <4>1. ConcurrentList!infallible_default(a)
        BY <1>5, <2>1, <3>3, InfallibleDefault
      <4>2. s \in {"refresh", "shards"} /\ (s = "refresh" => ConcurrentList!has_ttl(a) /\ "expires" \notin a)
        BY <1>1, <4>1
           DEF ConcurrentList!StoreOK, ConcurrentList!get_sharded_cache_type_and_create, ConcurrentList!ExpiresOK
      <4>3. /\ ConcurrentList!StoreOf(a) \notin {"RedisCache", "RedbCache"}
            /\ s = "refresh" => ConcurrentList!StoreOf(a) \in {"ShardedTtlCache", "ShardedLruTtlCache"}
        BY <4>1, <4>2 DEF ConcurrentList!StoreOf, ConcurrentList!ShardedStore
      <4>4. QED BY <2>1, <4>2, <4>3 DEF ConcurrentList!BuilderOf
    <3>4. QED BY <3>1, <3>2, <3>3
  <2>3. s \notin ConcurrentList!BuilderOf(b)
    BY <2>1 DEF ConcurrentList!BuilderOf
  <2>4. QED BY <1>3, <2>2, <2>3
<1>8. s \notin {"expires", "max_size"}
  <2> SUFFICES ASSUME s \in {"expires", "max_size"} PROVE FALSE
    OBVIOUS
  <2>1. "redis" \notin a /\ "disk" \notin a /\ "create" \notin a
    BY <1>1, <1>4 DEF ConcurrentList!StoreOK, ConcurrentList!ExpiresOK, ConcurrentList!check_create_conflicts
  <2>2. ConcurrentList!infallible_default(a) /\ ConcurrentList!infallible_default(b)
    BY <1>5, <2>1, InfallibleDefault
  <2>3. ConcurrentList!has_ttl(b) = ConcurrentList!has_ttl(a)
    BY DEF ConcurrentList!has_ttl, ConcurrentList!TtlSettings
  <2>4. QED BY <1>2, <2>2, <2>3 DEF ConcurrentList!StoreOf, ConcurrentList!ShardedStore
<1>9. s \notin {"ty", "create"}
  <2>1. s # "ty"
    <3> SUFFICES ASSUME s = "ty" PROVE FALSE
      OBVIOUS
    <3>1. ConcurrentList!StoreOf(a) = "custom"
      BY InfallibleDefault DEF ConcurrentList!StoreOf
    <3>2. ConcurrentList!StoreOf(b) # "custom"
      BY DEF ConcurrentList!StoreOf, ConcurrentList!ShardedStore
    <3>3. QED BY <1>2, <3>1, <3>2
  <2>2. s # "create"
    <3> SUFFICES ASSUME s = "create" PROVE FALSE
      OBVIOUS
    <3>1. "create" \in ConcurrentList!BuilderOf(a)
      BY DEF ConcurrentList!BuilderOf
    <3>2. "create" \notin ConcurrentList!BuilderOf(b)
      BY DEF ConcurrentList!BuilderOf
    <3>3. QED BY <1>3, <3>1, <3>2
  <2>3. QED BY <2>1, <2>2
<1>10. s \notin {"redis", "disk"}
  <2> SUFFICES ASSUME s \in {"redis", "disk"} PROVE FALSE
    OBVIOUS
  <2>1. "ty" \notin a
    BY DEF ConcurrentList!Redundant
  <2>2. "redis" \notin b /\ "disk" \notin b
    BY <1>1 DEF ConcurrentList!StoreOK
  <2>3. "create" \notin b
    BY <1>1, <2>1, <2>2 DEF ConcurrentList!StoreOK, ConcurrentList!get_custom_cache_type_and_create
  <2>4. ConcurrentList!infallible_default(b) /\ ~ConcurrentList!infallible_default(a)
    BY <2>1, <2>2, <2>3, InfallibleDefault
  <2>5. QED BY <1>2, <2>1, <2>4 DEF ConcurrentList!StoreOf, ConcurrentList!ShardedStore
<1>11. ConcurrentList!find_value_type(b, i) = ConcurrentList!find_value_type(a, i)
  BY <1>same DEF ConcurrentAgree
<1>12. s \notin {"cache_err", "cache_none"}
  BY <1>1, <1>11
     DEF ConcurrentList!ReturnOK, ConcurrentList!find_value_type, ConcurrentList!is_smart_result,
         ConcurrentList!is_smart_option, ConcurrentList!is_result_return_type, ConcurrentList!is_option_return_type
<1>13. s # "with_cached_flag"
  BY <1>same DEF ConcurrentAgree, ConcurrentList!ReturnBlock
<1>14. s # "result_fallback"
  BY <1>same DEF ConcurrentAgree, ConcurrentList!LookupOf
<1>15. s # "key"
  <2> SUFFICES ASSUME s = "key" PROVE FALSE
    OBVIOUS
  <2>1. ConcurrentList!StoreOf(a) # "custom"
    BY DEF ConcurrentList!StoreOf, ConcurrentList!ShardedStore, ConcurrentList!Redundant
  <2>2. ConcurrentList!KeyType(b) = ConcurrentList!KeyType(a)
    BY <2>1, <1>same DEF ConcurrentAgree
  <2>3. QED BY <2>2 DEF ConcurrentList!KeyType
<1>16. s # "convert"
  BY <1>same DEF ConcurrentAgree, ConcurrentList!KeyConversion
<1>17. s # "map_error"
  <2> SUFFICES ASSUME s = "map_error" PROVE FALSE
    OBVIOUS
  <2>1. ~ConcurrentList!infallible_default(a)
    BY <1>1 DEF ConcurrentList!MapErrorOK
  <2>2. ~ConcurrentList!infallible_default(b)
    BY <2>1, InfallibleDefault
  <2>3. ConcurrentList!UnwrapOf(b) = ConcurrentList!UnwrapOf(a)
    BY <1>same DEF ConcurrentAgree
  <2>4. QED BY <2>1, <2>2, <2>3 DEF ConcurrentList!UnwrapOf
<1>18. s # "name"
  BY <1>same DEF ConcurrentAgree
<1>19. s # "in_impl"
  BY <1>1 DEF ConcurrentList!ReceiverOK
<1>20. ConcurrentList!Companions(b) = ConcurrentList!Companions(a)
  BY <1>same DEF ConcurrentAgree
<1>21. s # "companions=false"
  BY <1>20 DEF ConcurrentList!Companions, ConcurrentList!Redundant
<1>22. s # "companions_vis"
  <2> SUFFICES ASSUME s = "companions_vis" PROVE FALSE
    OBVIOUS
  <2>1. ConcurrentList!Companions(a) # {}
    BY <1>1 DEF ConcurrentList!Companions, ConcurrentList!CompanionsOK
  <2>2. QED BY <2>1, <1>same DEF ConcurrentAgree
<1>23. s # "force_refresh"
  <2>1. ConcurrentList!build_force_refresh_guard(b) = ConcurrentList!build_force_refresh_guard(a)
    BY <1>same DEF ConcurrentAgree
  <2>2. QED BY <2>1 DEF ConcurrentList!build_force_refresh_guard
<1>24. s \in Settings["concurrent_cached"]
  OBVIOUS
<1>25. QED
  BY ONLY <1>6, <1>7, <1>8, <1>9, <1>10, <1>12, <1>13, <1>14, <1>15, <1>16, <1>17, <1>18, <1>19, <1>21, <1>22,
     <1>23, <1>24 DEF Settings, Common

-----------------------------------------------------------------------------

\* A macro's list is one that can be written down until it is expanded, and no
\* function runs before that.
ListInv ==
    /\ macro \in DOMAIN Settings
    /\ built \in {"no", "yes", "rejected"}
    /\ built = "no" => attrs \in Lists(macro)
    /\ built # "yes" => /\ sync_writes = "Disabled" /\ CachedUncalled
                       /\ OnceUncalled /\ ConcurrentUncalled

\* The function that was generated keeps the invariant of its kind.
FunctionInv ==
    built = "yes" =>
        /\ macro = "cached" => CachedIInv
        /\ macro = "once" => OnceIInv
        /\ macro = "concurrent_cached" => ConcurrentIInv /\ sync_writes = "Disabled"

\* Nothing happens to what the other kinds of function use.
OthersInv ==
    /\ macro # "once" => created = Empty
    /\ macro = "once" => cache = [k \in Keys |-> Empty]
    /\ macro # "concurrent_cached" => unstored = {} /\ found = [t \in Threads |-> FALSE]

GeneratedInv == ListInv /\ FunctionInv /\ OthersInv

\* The lists of up to MaxParts parts are made of the macro's settings; the others
\* are a single setting that no macro accepts.
LEMMA ListsOfSettings ==
    ASSUME NEW m \in DOMAIN Settings, NEW a \in Lists(m)
    PROVE  \/ /\ a \in SUBSET Settings[m]
              /\ ~({"sync_writes=default", "sync_writes=by_key"} \subseteq a)
           \/ \E s \in BadSettings : a = {s}
<1>1. {"ty", "create"} \subseteq Settings[m] /\ {"key", "convert"} \subseteq Settings[m]
  BY SMT DEF Settings, Common
<1>2. \A p \in Parts(m) : p \subseteq Settings[m]
  BY SMT, <1>1 DEF Parts
<1>3. ASSUME NEW g \in [1..MaxParts -> Parts(m) \cup {{}}]
      PROVE  UNION {g[n] : n \in 1..MaxParts} \subseteq Settings[m]
  <2>1. \A n \in 1..MaxParts : g[n] \subseteq Settings[m]
    BY <1>2
  <2>2. QED BY <2>1
<1>4. QED BY <1>3 DEF Lists

\* No macro accepts one of the bad settings alone.
LEMMA BadRejected ==
    ASSUME NEW s \in BadSettings, NEW i
    PROVE  ~CachedList!Accepts({s}, i) /\ ~OnceList!Accepts({s}, i) /\ ~ConcurrentList!Accepts({s}, i)
<1>1. ~CachedList!Accepts({s}, i)
  BY DEF BadSettings, CachedList!Accepts, CachedList!TtlOK, CachedList!resolve_ttl_duration, CachedList!Given,
     CachedList!SizeOK, CachedList!reject_concurrent_only_attrs, CachedList!BucketsOK,
     CachedList!validate_sync_writes_buckets, CachedList!CompanionsVisOK, CachedList!NameOK, CachedList!ForceOK,
     CachedList!parse_force_refresh_block, CachedList!RemovedOK, CachedList!Removed
<1>2. ~OnceList!Accepts({s}, i)
  BY DEF BadSettings, OnceList!Accepts, OnceList!TtlOK, OnceList!resolve_ttl_duration, OnceList!Given,
     OnceList!KeyedOK, OnceList!reject_concurrent_only_attrs, OnceList!SyncOK,
     OnceList!CompanionsVisOK, OnceList!NameOK, OnceList!ForceOK,
     OnceList!parse_force_refresh_block, OnceList!RemovedOK, OnceList!Removed
<1>3. ~ConcurrentList!Accepts({s}, i)
  <2>1. CASE s \in {"shards=0", "max_size=0"}
    <3>1. ConcurrentList!infallible_default({s})
      BY <2>1, InfallibleDefault
    <3>2. QED BY <2>1, <3>1 DEF ConcurrentList!Accepts, ConcurrentList!StoreOK, ConcurrentList!Given,
              ConcurrentList!get_sharded_cache_type_and_create
  <2>2. CASE s \notin {"shards=0", "max_size=0"}
    BY <2>2 DEF BadSettings, ConcurrentList!Accepts, ConcurrentList!TtlOK, ConcurrentList!resolve_ttl_duration,
       ConcurrentList!Given, ConcurrentList!reject_cached_only_attrs, ConcurrentList!MapErrorOK,
       ConcurrentList!CompanionsVisOK, ConcurrentList!NameOK, ConcurrentList!ForceOK,
       ConcurrentList!parse_force_refresh_block, ConcurrentList!RemovedOK, ConcurrentList!Removed
  <2>3. QED BY <2>1, <2>2
<1>4. QED BY <1>1, <1>2, <1>3

\* The modes a list asks for are ones the generated function was modelled for.
LEMMA ExpandedModes ==
    ASSUME ListInv, Expand, built' = "yes"
    PROVE  /\ macro = "cached" => CachedModesOK'
           /\ macro = "once" => OnceModesOK'
           /\ macro = "concurrent_cached" => ConcurrentModesOK' /\ sync_writes' = "Disabled"
<1>1. /\ Accepted(macro, attrs, item) /\ macro' = macro
      /\ sync_writes' = IF macro = "concurrent_cached" THEN "Disabled" ELSE CachedList!SyncWriteMode(attrs)
      /\ unsync_reads' = (macro = "cached" /\ "unsync_reads" \in attrs)
      /\ result_fallback' = ("result_fallback" \in attrs)
      /\ fallible' = (macro = "concurrent_cached" /\ ~ConcurrentList!infallible_default(attrs))
  BY DEF Expand
<1>a. unsync_reads' \in BOOLEAN /\ result_fallback' \in BOOLEAN /\ fallible' \in BOOLEAN
  <2>1. (macro = "cached" /\ "unsync_reads" \in attrs) \in BOOLEAN
    OBVIOUS
  <2>2. ("result_fallback" \in attrs) \in BOOLEAN
    BY SMT
  <2>3. (macro = "concurrent_cached" /\ ~ConcurrentList!infallible_default(attrs)) \in BOOLEAN
    OBVIOUS
  <2>4. QED BY <1>1, <2>1, <2>2, <2>3
<1>b. result_fallback' => "result_fallback" \in attrs
  BY <1>1
<1>c. fallible' => ~ConcurrentList!infallible_default(attrs)
  BY <1>1
<1>2. CASE macro = "cached"
  <2>1. CachedList!Accepts(attrs, item)
    BY <1>1, <1>2 DEF Accepted
  <2>2. sync_writes' = CachedList!SyncWriteMode(attrs)
    BY <1>1, <1>2
  <2>3. sync_writes' \in {"Disabled", "Default", "ByKey"}
    BY <2>2 DEF CachedList!SyncWriteMode
  <2>4. "result_fallback" \in attrs => sync_writes' = "Disabled"
    BY <2>1, <2>2 DEF CachedList!Accepts, CachedList!FallbackOK
  <2>5. macro' = "cached"
    BY <1>1, <1>2
  <2>6. CachedModesOK'
    BY <1>a, <1>b, <2>3, <2>4, <2>5 DEF CachedModesOK
  <2>7. QED BY <1>2, <2>6
<1>3. CASE macro = "once"
  <2>1. OnceList!Accepts(attrs, item)
    BY <1>1, <1>3 DEF Accepted
  <2>2. QED BY <1>1, <1>3, <2>1
            DEF OnceList!Accepts, OnceList!SyncOK, OnceList!SyncWriteMode, CachedList!SyncWriteMode, OnceModesOK
<1>4. CASE macro = "concurrent_cached"
  <2>1. ConcurrentList!Accepts(attrs, item)
    BY <1>1, <1>4 DEF Accepted
  <2>2. "result_fallback" \in attrs => ConcurrentList!infallible_default(attrs)
    BY <2>1 DEF ConcurrentList!Accepts, ConcurrentList!FallibleOK, ConcurrentList!Given
  <2>3. macro' = "concurrent_cached" /\ sync_writes' = "Disabled"
    BY <1>1, <1>4
  <2>4. ConcurrentModesOK'
    BY <1>a, <1>b, <1>c, <2>2, <2>3 DEF ConcurrentModesOK
  <2>5. QED BY <1>4, <2>3, <2>4
<1>5. QED BY <1>2, <1>3, <1>4

\* An untouched function is one that nobody has called: it starts in its
\* invariant.
LEMMA ExpandKeeps == GeneratedInv /\ Expand => GeneratedInv'
<1> SUFFICES ASSUME GeneratedInv, Expand PROVE GeneratedInv'
  OBVIOUS
<1>1. /\ macro' = macro /\ built = "no" /\ built' \in {"yes", "rejected"}
      /\ built' = "rejected" => UNCHANGED modes
      /\ UNCHANGED <<pc, call, result, old, cache, calls, writer, bucket, latest, clock, now, created>>
      /\ UNCHANGED <<method, stored, unstored, found>>
  BY DEF Expand
<1>2. CachedUncalled' /\ OnceUncalled' /\ ConcurrentUncalled'
  <2>1. CachedUncalled /\ OnceUncalled /\ ConcurrentUncalled
    BY <1>1 DEF GeneratedInv, ListInv
  <2>2. QED BY <1>1, <2>1 DEF CachedUncalled, OnceUncalled, ConcurrentUncalled, Uncalled
<1>3. ListInv'
  BY <1>1, <1>2 DEF GeneratedInv, ListInv, modes
<1>4. OthersInv'
  BY <1>1 DEF GeneratedInv, OthersInv
<1>5. FunctionInv'
  <2> SUFFICES ASSUME built' = "yes"
               PROVE  /\ macro = "cached" => CachedIInv'
                      /\ macro = "once" => OnceIInv'
                      /\ macro = "concurrent_cached" => ConcurrentIInv' /\ sync_writes' = "Disabled"
    BY <1>1 DEF FunctionInv
  <2>1. /\ macro = "cached" => CachedModesOK'
        /\ macro = "once" => OnceModesOK'
        /\ macro = "concurrent_cached" => ConcurrentModesOK' /\ sync_writes' = "Disabled"
    BY ExpandedModes DEF GeneratedInv
  <2>2. CachedInit' => CachedIInv'
    BY CachedStart, PTL
  <2>3. OnceInit' => OnceIInv'
    BY OnceStart, PTL
  <2>4. ConcurrentInit' => ConcurrentIInv'
    BY ConcurrentStart, PTL
  <2>5. QED BY <1>2, <2>1, <2>2, <2>3, <2>4 DEF CachedInit, OnceInit, ConcurrentInit
<1>6. QED BY <1>3, <1>4, <1>5 DEF GeneratedInv

\* A step of the function that was generated, and of no other.
LEMMA FrameKeeps ==
    ASSUME GeneratedInv, NEW m \in DOMAIN Settings, Frame(m),
           m = "cached" => CachedNext,
           m = "once" => OnceNext,
           m = "concurrent_cached" => ConcurrentNext
    PROVE  GeneratedInv'
<1>1. macro = m /\ built = "yes" /\ macro' = m /\ built' = "yes" /\ attrs' = attrs /\ sync_writes' = sync_writes
  BY DEF Frame, modes
<1>2. ListInv'
  BY <1>1 DEF GeneratedInv, ListInv
<1>3. OthersInv'
  BY <1>1 DEF GeneratedInv, OthersInv, Frame
<1>4. FunctionInv'
  <2>1. CASE m = "cached"
    BY <1>1, <2>1, CachedInductive DEF GeneratedInv, FunctionInv
  <2>2. CASE m = "once"
    BY <1>1, <2>2, OnceInductive DEF GeneratedInv, FunctionInv
  <2>3. CASE m = "concurrent_cached"
    BY <1>1, <2>3, ConcurrentInductive DEF GeneratedInv, FunctionInv
  <2>4. QED BY <2>1, <2>2, <2>3 DEF Settings
<1>5. QED BY <1>2, <1>3, <1>4 DEF GeneratedInv

\* The whole: from an attribute list to the calls of the function.
THEOREM GeneratedInvariance == FairSpec => []GeneratedInv
<1>1. Init => GeneratedInv
  BY DEF Init, GeneratedInv, ListInv, FunctionInv, OthersInv, Uncalled, OnceUncalled, ConcurrentUncalled
<1>2. GeneratedInv /\ [Next]_vars => GeneratedInv'
  <2> SUFFICES ASSUME GeneratedInv, [Next]_vars PROVE GeneratedInv'
    OBVIOUS
  <2>1. CASE Expand
    BY <2>1, ExpandKeeps
  <2>2. CASE Frame("cached") /\ CachedNext
    BY <2>2, FrameKeeps DEF Settings
  <2>3. CASE Frame("once") /\ OnceNext
    BY <2>3, FrameKeeps DEF Settings
  <2>4. CASE Frame("concurrent_cached") /\ ConcurrentNext
    BY <2>4, FrameKeeps DEF Settings
  <2>5. CASE UNCHANGED vars
    <3>1. UNCHANGED cached_vars /\ UNCHANGED once_vars /\ UNCHANGED concurrent_vars
      BY <2>5 DEF vars
    <3>2. CachedIInv => CachedIInv'
      BY <3>1, CachedInductive
    <3>3. OnceIInv => OnceIInv'
      BY <3>1, OnceInductive
    <3>4. ConcurrentIInv => ConcurrentIInv'
      BY <3>1, ConcurrentInductive
    <3>5. UNCHANGED <<macro, built, attrs, sync_writes, created, cache, unstored, found>>
      BY <2>5 DEF vars, cached_vars, cached_modes, once_vars, concurrent_vars
    <3>6. FunctionInv'
      BY <3>2, <3>3, <3>4, <3>5 DEF GeneratedInv, FunctionInv
    <3>7. CachedUncalled' = CachedUncalled /\ OnceUncalled' = OnceUncalled /\ ConcurrentUncalled' = ConcurrentUncalled
      BY <3>1 DEF cached_vars, once_vars, concurrent_vars, CachedUncalled, OnceUncalled, ConcurrentUncalled, Uncalled
    <3>8. ListInv' /\ OthersInv'
      BY <3>5, <3>7 DEF GeneratedInv, ListInv, OthersInv
    <3>9. QED BY <3>6, <3>8 DEF GeneratedInv
  <2>6. QED BY <2>1, <2>2, <2>3, <2>4, <2>5 DEF Next, Rejected
<1>3. QED BY <1>1, <1>2, PTL DEF FairSpec

\* Every list a macro accepts generates calls its store has, in modes the
\* generated function is modelled for.
THEOREM EveryListSupported == FairSpec => []CallsSupported
<1>1. GeneratedInv => CallsSupported
  <2>1. ASSUME GeneratedInv, built = "yes" PROVE CachedModesOK \/ OnceModesOK \/ ConcurrentModesOK
    BY <2>1 DEF GeneratedInv, ListInv, FunctionInv, Settings, CachedIInv, CachedTypeOK, OnceIInv, OnceTypeOK,
                ConcurrentIInv, ConcurrentTypeInv
  <2>2. QED BY <2>1, CachedCallsSupported, ConcurrentCallsSupported DEF CallsSupported
<1>2. QED BY <1>1, GeneratedInvariance, PTL

\* No attribute of an accepted list is silently ignored, but for those each
\* macro's Redundant names, whatever MaxParts.
THEOREM NoAttributeIgnored == FairSpec => []NothingIgnored
<1>1. GeneratedInv => NothingIgnored
  <2> SUFFICES ASSUME GeneratedInv, built = "no"
               PROVE  /\ macro = "cached" => CachedList!NothingIgnored(attrs, item)
                      /\ macro = "once" => OnceList!NothingIgnored(attrs, item)
                      /\ macro = "concurrent_cached" => ConcurrentList!NothingIgnored(attrs, item)
    BY DEF NothingIgnored
  <2>1. macro \in DOMAIN Settings /\ attrs \in Lists(macro)
    BY DEF GeneratedInv, ListInv
  <2>2. CASE \E s \in BadSettings : attrs = {s}
    BY <2>2, BadRejected DEF CachedList!NothingIgnored, OnceList!NothingIgnored, ConcurrentList!NothingIgnored
  <2>3. CASE /\ attrs \in SUBSET Settings[macro]
             /\ ~({"sync_writes=default", "sync_writes=by_key"} \subseteq attrs)
    <3>1. CASE macro = "cached"
      BY <2>3, <3>1, CachedSettingMatters DEF CachedList!NothingIgnored
    <3>2. CASE macro = "once"
      BY <2>3, <3>2, OnceSettingMatters DEF OnceList!NothingIgnored
    <3>3. CASE macro = "concurrent_cached"
      BY <2>3, <3>3, ConcurrentSettingMatters DEF ConcurrentList!NothingIgnored
    <3>4. QED BY <2>1, <3>1, <3>2, <3>3 DEF Settings
  <2>4. QED BY <2>1, <2>2, <2>3, ListsOfSettings
<1>2. QED BY <1>1, GeneratedInvariance, PTL

\* Before a list is expanded, and after it was turned down, nobody computes.
LEMMA UnbuiltIdle ==
    ASSUME GeneratedInv, built # "yes", NEW t \in Threads
    PROVE  pc[t] = "idle" /\ sync_writes = "Disabled" /\ unstored = {} /\ ~found[t] /\ cache = [k \in Keys |-> Empty]
BY DEF GeneratedInv, ListInv, CachedUncalled, ConcurrentUncalled, Uncalled

\* What a macro generates, with any list it accepts, never lets two callers
\* compute at once where sync_writes forbids it.
THEOREM ExclusiveBodies == FairSpec => []OneBodyAtATime
<1>1. GeneratedInv => OneBodyAtATime
  <2>1. ASSUME GeneratedInv, built # "yes" PROVE OneBodyAtATime
    BY <2>1, UnbuiltIdle DEF OneBodyAtATime
  <2>2. ASSUME GeneratedInv, built = "yes" PROVE OneBodyAtATime
    <3>1. sync_writes = "Disabled" => OneBodyAtATime
      BY DEF OneBodyAtATime
    <3>2. QED BY <2>2, <3>1, CachedOneBody, OnceOneBody DEF GeneratedInv, ListInv, FunctionInv, Settings
  <2>3. QED BY <2>1, <2>2
<1>2. QED BY <1>1, GeneratedInvariance, PTL

\* With sync_writes, no call of a generated function computes a value for a key
\* that has a fresh one.
THEOREM NothingRecomputed == FairSpec => []ComputeOnlyWhenMissing
<1>1. GeneratedInv => ComputeOnlyWhenMissing
  <2>1. ASSUME GeneratedInv, built # "yes" PROVE ComputeOnlyWhenMissing
    BY <2>1, UnbuiltIdle DEF ComputeOnlyWhenMissing
  <2>2. ASSUME GeneratedInv, built = "yes", macro = "cached" PROVE ComputeOnlyWhenMissing
    BY <2>2 DEF GeneratedInv, FunctionInv, CachedIInv
  <2>3. ASSUME GeneratedInv, built = "yes", macro = "once" PROVE ComputeOnlyWhenMissing
    BY <2>3 DEF GeneratedInv, FunctionInv, OthersInv, OnceIInv, OnceTypeOK, Call, ComputeOnlyWhenMissing, Fresh
  <2>4. ASSUME GeneratedInv, built = "yes", macro = "concurrent_cached" PROVE ComputeOnlyWhenMissing
    BY <2>4 DEF GeneratedInv, FunctionInv, ComputeOnlyWhenMissing
  <2>5. QED BY <2>1, <2>2, <2>3, <2>4 DEF GeneratedInv, ListInv, Settings
<1>2. QED BY <1>1, GeneratedInvariance, PTL

\* What a function of #[cached] holds for a key is the last Ok stored for it.
THEOREM FallbackNeverOlder == FairSpec => []HoldsLatestOk
<1>1. GeneratedInv => HoldsLatestOk
  <2>1. ASSUME GeneratedInv, built # "yes" PROVE HoldsLatestOk
    BY <2>1 DEF GeneratedInv, ListInv, CachedUncalled, Uncalled, HoldsLatestOk
  <2>2. ASSUME GeneratedInv, built = "yes" PROVE HoldsLatestOk
    BY <2>2 DEF GeneratedInv, FunctionInv, CachedIInv, HoldsLatestOk
  <2>3. QED BY <2>1, <2>2
<1>2. QED BY <1>1, GeneratedInvariance, PTL

\* With result_fallback, a call of a generated function that fails although its
\* lookup found an entry falls back to it.
THEOREM FallbackAlwaysKept == FairSpec => []FallbackNotLost
<1>1. GeneratedInv => FallbackNotLost
  <2>1. ASSUME GeneratedInv, built # "yes" PROVE FallbackNotLost
    BY <2>1, UnbuiltIdle DEF FallbackNotLost
  <2>2. ASSUME GeneratedInv, built = "yes", macro = "concurrent_cached" PROVE FallbackNotLost
    BY <2>2, ConcurrentFallback DEF GeneratedInv, FunctionInv
  <2>3. ASSUME GeneratedInv, macro # "concurrent_cached" PROVE FallbackNotLost
    BY <2>3 DEF GeneratedInv, OthersInv, FallbackNotLost
  <2>4. QED BY <2>1, <2>2, <2>3
<1>2. QED BY <1>1, GeneratedInvariance, PTL

\* Every Ok a caller of a generated function got had reached its store.
THEOREM EveryOkStored == FairSpec => []OkMeansStored
<1>1. GeneratedInv => OkMeansStored
  <2>1. ASSUME GeneratedInv, built # "yes" PROVE OkMeansStored
    BY <2>1 DEF GeneratedInv, ListInv, ConcurrentUncalled, OkMeansStored
  <2>2. ASSUME GeneratedInv, built = "yes", macro = "concurrent_cached" PROVE OkMeansStored
    BY <2>2 DEF GeneratedInv, FunctionInv, ConcurrentIInv, ConcurrentStoredInv, OkMeansStored
  <2>3. ASSUME GeneratedInv, macro # "concurrent_cached" PROVE OkMeansStored
    BY <2>3 DEF GeneratedInv, OthersInv, OkMeansStored
  <2>4. QED BY <2>1, <2>2, <2>3
<1>2. QED BY <1>1, GeneratedInvariance, PTL

\* With sync_writes a function of #[once] replaces its value only once the ttl is
\* over, unless it is primed or told to refresh.
THEOREM BodyOncePerTtl == FairSpec => OncePerTtl
<1>1. GeneratedInv /\ [Next]_vars =>
        [\A t \in Threads :
            (sync_writes = "Default" /\ pc[t] = "set" /\ pc'[t] = "idle" /\ ~call[t].prime /\ ~call[t].force
                /\ created # Empty) => clock >= created + Ttl]_once_vars
  <2> SUFFICES ASSUME GeneratedInv, NEW t \in Threads, sync_writes = "Default", pc[t] = "set",
                      ~call[t].prime, ~call[t].force, created # Empty
               PROVE  clock >= created + Ttl
    OBVIOUS
  <2>1. built = "yes"
    BY UnbuiltIdle
  <2>2. macro = "once"
    BY DEF GeneratedInv, OthersInv
  <2>3. OnceIInv
    BY <2>1, <2>2 DEF GeneratedInv, FunctionInv
  <2>4. QED BY <2>3, OnceReplacesExpired
<1>2. QED BY <1>1, GeneratedInvariance, PTL DEF FairSpec, OncePerTtl

\* A hit of a function of #[once] was live at some instant of the call.
THEOREM HitsLive == FairSpec => HitLiveDuringCall
<1>1. GeneratedInv /\ [Next]_vars =>
        [\A t \in Threads :
            ((OnceRead(t) \/ OnceCheck(t)) /\ pc'[t] = "idle") =>
                \E i \in now[t]..clock : created <= i /\ i < created + Ttl]_once_vars
  <2> SUFFICES ASSUME GeneratedInv, NEW t \in Threads, OnceRead(t) \/ OnceCheck(t), pc'[t] = "idle"
               PROVE  \E i \in now[t]..clock : created <= i /\ i < created + Ttl
    OBVIOUS
  <2>1. built = "yes"
    BY UnbuiltIdle DEF OnceRead, OnceCheck
  <2>2. macro = "once"
    <3> SUFFICES ASSUME macro # "once" PROVE FALSE
      OBVIOUS
    <3>1. created = Empty
      BY DEF GeneratedInv, OthersInv
    <3>2. ~IsHit(t)
      BY <3>1 DEF IsHit
    <3>3. DOMAIN pc = Threads
      BY <2>1 DEF GeneratedInv, ListInv, FunctionInv, Settings, CachedIInv, CachedTypeOK, ConcurrentIInv, ConcurrentTypeInv
    <3>4. pc' = [pc EXCEPT ![t] = "check"] \/ pc' = [pc EXCEPT ![t] = "body"]
      BY <3>2 DEF OnceRead, OnceCheck, Goto
    <3>5. QED BY <3>3, <3>4
  <2>3. OnceIInv
    BY <2>1, <2>2 DEF GeneratedInv, FunctionInv
  <2>4. QED BY <2>3, OnceHitLive
<1>2. QED BY <1>1, GeneratedInvariance, PTL DEF FairSpec, HitLiveDuringCall
=============================================================================
