------------------------- MODULE ConcurrentCachedFn -------------------------
(***************************************************************************)
(* The function that #[concurrent_cached] generates over a store that      *)
(* synchronises itself: no lock is held from the lookup to the store of    *)
(* the result, each operation of the store is one step.  With fallible     *)
(* stores (Redis, redb) a lookup or a store may return an error, which the *)
(* function returns.  The body of call number c returns the value c.  The  *)
(* program may also call the get-or-set methods of ConcurrentCached and    *)
(* ConcurrentCachedAsync on the function's store, with a factory as body.  *)
(***************************************************************************)
EXTENDS GeneratedFn

VARIABLES
    fallible,   \* the store is one whose operations may fail
    method,     \* the method of the trait a thread is in, or "none" in the function
    stored,     \* history: the values that reached the store
    unstored,   \* history: the Ok values returned that had not reached the store
    found       \* history: whether each thread's lookup had an entry to fall back to

concurrent_modes == <<macro, result_fallback, fallible>>
concurrent_vars == <<concurrent_modes, pc, call, method, old, result, cache, calls, stored, unstored, found>>

\* What the macro accepts: result_fallback is rejected on every store but the
\* in-memory ones.
ConcurrentModesOK ==
    /\ macro = "concurrent_cached"
    /\ result_fallback \in BOOLEAN
    /\ fallible \in BOOLEAN
    /\ ~(result_fallback /\ fallible)

ConcurrentUncalled ==
    /\ Uncalled
    /\ method = [t \in Threads |-> "none"]
    /\ stored = {}
    /\ unstored = {}
    /\ found = [t \in Threads |-> FALSE]

ConcurrentInit == ConcurrentModesOK /\ ConcurrentUncalled

-----------------------------------------------------------------------------

\* The call ends and hands r to its caller.
ConcurrentReturn(t, r) ==
    /\ Goto(t, "idle")
    /\ call' = [call EXCEPT ![t] = NoCall]
    /\ method' = [method EXCEPT ![t] = "none"]
    /\ old' = [old EXCEPT ![t] = Empty]
    /\ result' = [result EXCEPT ![t] = Err]
    /\ found' = [found EXCEPT ![t] = FALSE]
    /\ unstored' = unstored \cup ({r} \ (stored' \cup {Err}))

\* A call for some key, which force_refresh may tell to skip the lookup, or a
\* prime, which has no lookup.
ConcurrentCall(t) ==
    /\ \E k \in Keys, f \in BOOLEAN, p \in BOOLEAN :
          /\ Calls(t, k, f, p)
          /\ Goto(t, IF p \/ (f /\ ~result_fallback) THEN "body" ELSE "get")
    /\ UNCHANGED <<concurrent_modes, method, old, result, cache, stored, unstored, found>>

\* A get-or-set method: cache_get, then on a miss the factory and cache_set.  The
\* async methods await the same calls in the same order.
CallMethod(t, m) ==
    /\ \E k \in Keys : Calls(t, k, FALSE, FALSE)
    /\ method' = [method EXCEPT ![t] = m]
    /\ Goto(t, "get")
    /\ UNCHANGED <<concurrent_modes, old, result, cache, stored, unstored, found>>

cache_get_or_set_with(t) == CallMethod(t, "cache_get_or_set_with")

cache_try_get_or_set_with(t) == CallMethod(t, "cache_try_get_or_set_with")

\* The call is one that falls back to an expired value.
FallsBack(t) == result_fallback /\ method[t] = "none"

\* Mutant: the stale value is looked up with cache_peek, which hides an expired one.
StaleOrHidden(k) == IF Fresh(k) THEN cache[k].val ELSE Empty

\* What cache_get_with_expiry_status or cache_peek_with_expiry_status hands over:
\* the value of the entry, expired or not.
Stale(k) == IF cache[k] = Empty THEN Empty ELSE cache[k].val

\* The lookup.  With result_fallback it leaves an expired entry in place and
\* keeps its value; without, cache_get drops the expired entry.
ConcurrentGet(t) ==
    /\ pc[t] = "get"
    /\ UNCHANGED <<concurrent_modes, calls, stored>>
    /\ \/ /\ ~call[t].force /\ Fresh(call[t].key)
          /\ ConcurrentReturn(t, cache[call[t].key].val)
          /\ UNCHANGED cache
       \/ /\ call[t].force \/ ~Fresh(call[t].key)
          /\ Goto(t, "body")
          /\ old' = IF FallsBack(t) THEN [old EXCEPT ![t] = Stale(call[t].key)] ELSE old
          /\ found' = [found EXCEPT ![t] = FallsBack(t) /\ cache[call[t].key] # Empty]
          /\ cache' = IF FallsBack(t) THEN cache ELSE [cache EXCEPT ![call[t].key] = Empty]
          /\ UNCHANGED <<call, method, result, unstored>>

\* The store's lookup fails, or the async caller is dropped while it awaits it:
\* the body does not run.
ConcurrentGetFails(t) ==
    /\ fallible
    /\ pc[t] = "get"
    /\ UNCHANGED <<concurrent_modes, cache, calls, stored>>
    /\ ConcurrentReturn(t, Err)

\* The body returns Ok of its own value, or Err, which the factory of
\* cache_get_or_set_with cannot.
ConcurrentBody(t) ==
    /\ pc[t] = "body"
    /\ \E r \in {call[t].id, Err} :
          /\ method[t] = "cache_get_or_set_with" => r # Err
          /\ result' = [result EXCEPT ![t] = r]
    /\ Goto(t, "set")
    /\ UNCHANGED <<concurrent_modes, call, method, old, cache, calls, stored, unstored, found>>

\* The body panics, or the async caller is dropped while it awaits the body.
ConcurrentUnwinds(t) ==
    /\ pc[t] = "body"
    /\ UNCHANGED <<concurrent_modes, cache, calls, stored>>
    /\ ConcurrentReturn(t, Err)

\* The result after the fallback to the value of this call's own lookup.
ConcurrentResult(t) ==
    IF FallsBack(t) /\ ~call[t].prime /\ result[t] = Err /\ old[t] # Empty
    THEN old[t]
    ELSE result[t]

\* Writing the call's result makes it the key's entry.
ConcurrentWrite(t) == cache' = [cache EXCEPT ![call[t].key] = [val |-> ConcurrentResult(t), fresh |-> TRUE]]

\* An Ok, a fallback included, is stored and returned; an Err is returned.
ConcurrentSet(t) ==
    /\ pc[t] = "set"
    /\ \/ ConcurrentResult(t) = Err /\ UNCHANGED <<cache, stored>>
       \/ ConcurrentResult(t) # Err /\ ConcurrentWrite(t) /\ stored' = stored \cup {ConcurrentResult(t)}
    /\ ConcurrentReturn(t, ConcurrentResult(t))
    /\ UNCHANGED <<concurrent_modes, calls>>

\* Mutant: a failed store is ignored.
ConcurrentSetFailsSilently(t) ==
    /\ fallible
    /\ pc[t] = "set"
    /\ ConcurrentResult(t) # Err
    /\ UNCHANGED <<concurrent_modes, cache, calls, stored>>
    /\ ConcurrentReturn(t, ConcurrentResult(t))

\* The store reports an error, or the async caller is dropped while it awaits
\* the store, whether or not the write reached it: the caller does not get the
\* value that was computed.
ConcurrentSetFails(t) ==
    /\ fallible
    /\ pc[t] = "set"
    /\ ConcurrentResult(t) # Err
    /\ \/ ConcurrentWrite(t) /\ stored' = stored \cup {ConcurrentResult(t)}
       \/ UNCHANGED <<cache, stored>>
    /\ ConcurrentReturn(t, Err)
    /\ UNCHANGED <<concurrent_modes, calls>>

\* Time passes the entry's expiry.
ConcurrentExpire(k) ==
    /\ Fresh(k)
    /\ cache' = [cache EXCEPT ![k] = [val |-> cache[k].val, fresh |-> FALSE]]
    /\ UNCHANGED <<concurrent_modes, pc, call, method, old, result, calls, stored, unstored, found>>

\* The store evicts the entry, or the program removes it.
ConcurrentEvict(k) ==
    /\ cache[k] # Empty
    /\ cache' = [cache EXCEPT ![k] = Empty]
    /\ UNCHANGED <<concurrent_modes, pc, call, method, old, result, calls, stored, unstored, found>>

ConcurrentDone ==
    /\ calls = MaxCalls
    /\ \A t \in Threads : pc[t] = "idle"
    /\ UNCHANGED concurrent_vars

ConcurrentStep(t) == ConcurrentGet(t) \/ ConcurrentGetFails(t) \/ ConcurrentBody(t) \/ ConcurrentUnwinds(t) \/ ConcurrentSet(t) \/ ConcurrentSetFails(t)

ConcurrentNext ==
    \/ \E t \in Threads :
          \/ ConcurrentCall(t) \/ cache_get_or_set_with(t) \/ cache_try_get_or_set_with(t)
          \/ ConcurrentStep(t)
    \/ \E k \in Keys : ConcurrentExpire(k) \/ ConcurrentEvict(k)
    \/ ConcurrentDone

ConcurrentSpec == ConcurrentInit /\ [][ConcurrentNext]_concurrent_vars

-----------------------------------------------------------------------------

\* result_fallback: a call whose body fails returns an Err only when its lookup
\* found no entry at all, not even an expired one.
FallbackNotLost ==
    \A t \in Threads :
        (FallsBack(t) /\ pc[t] = "set" /\ ~call[t].prime /\ ConcurrentResult(t) = Err) => ~found[t]

\* Every Ok a caller ever got had been stored: a failing store never passes
\* unnoticed.
OkMeansStored == unstored = {}
=============================================================================
