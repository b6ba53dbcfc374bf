------------------------- MODULE ShardedCacheProofs -------------------------
(***************************************************************************)
(* The calls of the six sharded caches keep the invariant of               *)
(* ShardedStoreProofs, and what it shows of them.                          *)
(***************************************************************************)
EXTENDS Integers, MCShardedStore, ShardedStoreProofs

\* Most steps need no arithmetic and are Zenon's; the others name their prover.
USE Zenon

\* As many as n numbers lie between 1 and n.
LEMMA IntervalSize ==
  ASSUME NEW n \in Nat
  PROVE  1 \in Int /\ n \in Int /\ (IF 1 > n THEN 0 ELSE n - 1 + 1) = n
  BY SMT

\* What is left and what was taken make up the whole.
LEMMA CountParts ==
  ASSUME NEW b \in Nat, NEW c \in Nat, NEW d \in Nat, d = c - b
  PROVE  c = d + b
  BY SMT

-----------------------------------------------------------------------------
(* ShardedUnboundCache. *)

\* ShardedUnboundCache::cache_get keeps the invariant.
LEMMA UnboundGet ==
  ASSUME CountingLaws, IInv, NEW t \in Threads, NEW k \in Keys, unbound_cache_get(t, k)
  PROVE  IInv'
<1>1. Free(t)
  <2>1. Begin(t) /\ Frame
    BY DEF unbound_cache_get, UnboundFrame, Frame, aside, bounds, settings, shrinks
  <2> QED
    BY <2>1, BeginFree
<1>2. CASE Holds(k) /\ Hit(t, k)
  BY <1>1, <1>2, HitKeeps DEF unbound_cache_get
<1>3. CASE Miss(t, k)
  BY <1>1, <1>3, MissKeeps DEF unbound_cache_get
<1> QED
  BY <1>2, <1>3 DEF unbound_cache_get

\* ShardedUnboundCache::cache_set keeps the invariant.
LEMMA UnboundSet ==
  ASSUME CountingLaws, IInv, kind = "Unbound", NEW t \in Threads, NEW k \in Keys, unbound_cache_set(t, k)
  PROVE  IInv'
<1> DEFINE e == [val |-> ops + 1, exp |-> Never]
<1>1. e \in Entry /\ e.val = ops + 1
  BY SMT DEF Entry, IInv, TypeOK
<1>2. Puts(k, e)
  BY DEF Puts, unbound_cache_set, UnboundFrame, counters, shrinks
<1> HIDE DEF e
<1>3. Brings(t, k, e)
  BY <1>1, BeginIs DEF Brings, unbound_cache_set, UnboundFrame, aside, bounds, settings, shrinks
<1>4. Storing(t, "idle", NoCall, k, e)
  BY <1>3, ReturnStores DEF unbound_cache_set
<1>5. Settles(t, "idle", NoCall, k, 0)
  BY DEF Settles, unbound_cache_set, UnboundFrame
<1>6. kind \notin LruKinds
  BY DEF LruKinds
<1> QED
  BY <1>2, <1>4, <1>5, <1>6, PlainSetKeeps

\* The removals of ShardedUnboundCache keep the invariant.
LEMMA UnboundRemove ==
  ASSUME CountingLaws, IInv, kind = "Unbound", NEW t \in Threads, NEW k \in Keys, unbound_cache_remove_entry(t, k)
  PROVE  IInv'
<1>1. Free(t)
  <2>1. Begin(t) /\ Frame
    BY DEF unbound_cache_remove_entry, UnboundFrame, Frame, aside, bounds, settings, shrinks
  <2> QED
    BY <2>1, BeginFree
<1>2. CASE Return(t, 0) /\ UNCHANGED <<store, order, evictions>>
  BY <1>1, <1>2, PlainKeeps
<1>3. CASE Holds(k) /\ TakeOutUncounted(t, {k}, ValueCall("remove_entry", k, store[k].val))
  <2>1. "remove_entry" \in Ops /\ store[k].val \in Nat /\ clock \in Nat /\ Shards \in Nat
    BY <1>3, ShardedAssumption DEF Ops, IInv, TypeOK, Holds, Entry
  <2>2. OnKey(ValueCall("remove_entry", k, store[k].val), k)
    BY SMT, <2>1, ValueCallIs DEF OnKey
  <2> QED
    BY <1>1, <1>3, <2>2, TakeKeyKeeps
<1> QED
  BY <1>2, <1>3 DEF unbound_cache_remove_entry, ValueCall

\* Every step of ShardedUnboundCache keeps the invariant.
LEMMA UnboundNextKeeps ==
  ASSUME CountingLaws, IInv, kind = "Unbound", UnboundNext
  PROVE  IInv'
<1>1. "retain" \in SweepOps /\ "drain" \in SweepOps
  BY DEF SweepOps
<1>2. ASSUME NEW t \in Threads, unbound_retain(t) \/ unbound_cache_clear_with_on_evict(t)
      PROVE  IInv'
  BY SMTT(30), <1>1, <1>2, SweepKeeps DEF unbound_retain, unbound_cache_clear_with_on_evict
<1> QED
  BY <1>2, UnboundGet, UnboundSet, UnboundRemove DEF UnboundNext

-----------------------------------------------------------------------------
(* ShardedTtlCache. *)

\* A new deadline is a number or none.
LEMMA TtlDeadline ==
  ASSUME IInv, NEW now \in Nat
  PROVE  ttl_compute_expires_at(now) \in Expiry
BY SMT DEF IInv, TypeOK, ttl_compute_expires_at, Expiry

\* A refresh moves a deadline and nothing else.
LEMMA TtlRenews ==
  ASSUME IInv, NEW k \in Keys, Holds(k), store' = TtlRenewed(k, clock)
  PROVE  Renews(k)
<1> DEFINE x == IF ttl = 0 THEN store[k].exp ELSE ttl_compute_expires_at(clock)
<1>1. x \in Expiry
  BY HeldEntry, TtlDeadline DEF IInv, TypeOK
<1>2. store' = [store EXCEPT ![k] = [val |-> store[k].val, exp |-> x]]
  BY DEF TtlRenewed
<1> QED
  BY <1>1, <1>2 DEF Renews, Expiry

\* The first look of ShardedTtlCache::cache_get keeps the invariant.
LEMMA TtlGet ==
  ASSUME CountingLaws, IInv, kind = "Ttl", NEW t \in Threads, NEW k \in Keys, ttl_cache_get(t, k)
  PROVE  IInv'
<1>1. Begin(t) /\ Frame
  BY DEF ttl_cache_get, TtlFrame, Frame, aside, bounds, settings, shrinks
<1> DEFINE c == TimeCall("get", k, clock)
<1>2. OnKey(c, k) /\ c.op = "get"
  <2>1. "get" \in Ops /\ clock \in Nat /\ Shards \in Nat
    BY ShardedAssumption DEF Ops, IInv, TypeOK
  <2> QED
    BY SMTT(30), <2>1, TimeCallIs DEF OnKey
<1>3. \/ Looks(t, k, c)
      \/ Enter(t, "recheck", c) /\ UNCHANGED <<store, order, evictions>>
  BY TtlRenews DEF Looks, ttl_cache_get, Live, Stale, counters, TimeCall
<1> HIDE DEF c
<1>4. CASE Looks(t, k, c)
  BY <1>1, <1>2, <1>4, BeginFree, LooksKeeps
<1>5. CASE Enter(t, "recheck", c) /\ UNCHANGED <<store, order, evictions>>
  BY <1>1, <1>2, <1>5, BeginIs, Untouched, EnterKeeps DEF OnKey
<1> QED
  BY <1>3, <1>4, <1>5

\* The arguments of a call on a key are still those.
LEMMA StillOnKey ==
  ASSUME IInv, NEW t \in Threads, call[t].op \in {"get", "set", "remove", "remove_entry"}
  PROVE  OnKey(call[t], call[t].key) /\ call[t].key \in Keys
BY DEF IInv, TypeOK, ThreadInv, Fits, OnKey, Call

\* A call that was waiting for the lock is free to return or to take an entry out.
LEMMA WaitingFree ==
  ASSUME IInv, NEW t \in Threads, pc[t] \in {"recheck", "look", "write"}, ops' = ops, Frame
  PROVE  Free(t)
BY OnlySweepsResize DEF Free

\* The entry that a call brings to its map.
LEMMA ArgumentsStored ==
  ASSUME IInv, NEW t \in Threads
  PROVE  \E e \in Entry : e = [val |-> call[t].val, exp |-> call[t].exp] /\ e.val = call[t].val
<1> DEFINE e == [val |-> call[t].val, exp |-> call[t].exp]
<1>1. e \in Entry /\ e.val = call[t].val
  BY DEF IInv, TypeOK, Call, Entry
<1> QED
  BY <1>1

\* Its second look, under the write lock, keeps the invariant.
LEMMA TtlRecheckKeeps ==
  ASSUME CountingLaws, IInv, kind = "Ttl", NEW t \in Threads, TtlRecheck(t)
  PROVE  IInv'
<1>1. pc[t] = "recheck" /\ ops' = ops /\ Frame
  BY DEF TtlRecheck, TtlFrame, Frame, aside, bounds, settings, shrinks
<1>2. PICK k \in Keys : k = call[t].key /\ OnKey(call[t], k)
  <2>1. call[t].op \in {"get", "set"}
    BY <1>1 DEF IInv, ThreadInv, Fits
  <2> QED
    BY <2>1, StillOnKey
<1>3. Looks(t, k, call[t])
  BY <1>2 DEF Looks, TtlRecheck, Live, Stale
<1> QED
  BY <1>1, <1>2, <1>3, WaitingFree, LooksKeeps

\* ShardedTtlCache::cache_get_with_expiry_status keeps the invariant.
LEMMA TtlStatus ==
  ASSUME CountingLaws, IInv, NEW t \in Threads, NEW k \in Keys, ttl_cache_get_with_expiry_status(t, k)
  PROVE  IInv'
<1>1. Begin(t) /\ Frame /\ UNCHANGED <<pc, call, removed, order, evictions>>
  BY DEF ttl_cache_get_with_expiry_status, TtlFrame, Frame, aside, bounds, settings, shrinks, thread
<1>2. store' = store \/ (Holds(k) /\ store' = TtlRenewed(k, clock))
  BY DEF ttl_cache_get_with_expiry_status, Live
<1>3. Touches
  <2>1. CASE store' = store
    BY <1>1, <2>1, Untouched
  <2>2. CASE Holds(k) /\ store' = TtlRenewed(k, clock)
    BY <1>1, <2>2, TtlRenews, TouchedOne
  <2> QED
    BY <1>2, <2>1, <2>2
<1> QED
  BY <1>1, <1>3, BeginIs, IdleKeeps

\* The start of ShardedTtlCache::cache_set, which reads the clock, keeps the
\* invariant.
LEMMA TtlSet ==
  ASSUME CountingLaws, IInv, NEW t \in Threads, NEW k \in Keys, ttl_cache_set(t, k)
  PROVE  IInv'
<1>1. Begin(t) /\ Frame /\ UNCHANGED <<store, order, evictions>>
  BY DEF ttl_cache_set, TtlFrame, Frame, aside, bounds, settings, shrinks, counters
<1>2. PICK c : c = EntryCall("set", k, clock, ops + 1, ttl_compute_expires_at(clock)) /\ Enter(t, "write", c)
  BY DEF ttl_cache_set, EntryCall
<1>3. c \in Call /\ c.op = "set" /\ c.now <= clock /\ c.shard <= Shards /\ c.val = ops + 1
  <2>1. "set" \in Ops /\ clock \in Nat /\ ops + 1 \in Nat /\ ttl_compute_expires_at(clock) \in Expiry
    BY SMTT(30), TtlDeadline DEF Ops, IInv, TypeOK
  <2>2. c \in Call /\ c.op = "set" /\ c.now = clock /\ c.shard = 0 /\ c.val = ops + 1
    BY SMTT(30), <1>2, <2>1, EntryCallIs
  <2> QED
    BY SMTT(30), <2>1, <2>2, ShardedAssumption
<1> QED
  BY <1>1, <1>2, <1>3, BeginIs, Untouched, EnterKeeps

\* The end of ShardedTtlCache::cache_set, under the write lock, keeps the
\* invariant.
LEMMA TtlSetWriteKeeps ==
  ASSUME CountingLaws, IInv, kind = "Ttl", NEW t \in Threads, TtlSetWrite(t)
  PROVE  IInv'
<1>1. pc[t] = "write" /\ ~Resizing(t) /\ kind \notin LruKinds /\ ops' = ops
  BY OnlySweepsResize DEF TtlSetWrite, LruKinds
<1>2. call[t].op \in {"get", "set"}
  BY <1>1 DEF IInv, ThreadInv, Fits
<1>3. PICK k \in Keys : k = call[t].key /\ OnKey(call[t], k)
  BY <1>2, StillOnKey
<1>4. PICK e \in Entry : e = [val |-> call[t].val, exp |-> call[t].exp] /\ e.val = call[t].val
  BY ArgumentsStored
<1>5. Puts(k, e)
  BY <1>3, <1>4 DEF Puts, TtlSetWrite, TtlFrame, shrinks, counters
<1>6. Brings(t, k, e)
  BY <1>1, <1>3, <1>4 DEF Brings, TtlSetWrite, TtlFrame, aside, bounds, settings, shrinks
<1>7. /\ \/ /\ Holds(k) /\ Goto(t, "count") /\ removed' = [removed EXCEPT ![t] = {store[k].val}]
            /\ call' = call /\ UNCHANGED replaced
         \/ \E v : Return(t, v) /\ Settles(t, "idle", NoCall, k, 0)
      /\ UNCHANGED lost
  BY <1>3 DEF TtlSetWrite, Stale, Live, TtlFrame, Settles
<1>8. ASSUME NEW v, Return(t, v), Settles(t, "idle", NoCall, k, 0)
      PROVE  IInv'
  <2>1. Storing(t, "idle", NoCall, k, e)
    BY <1>6, <1>8, ReturnStores
  <2> QED
    BY <1>1, <1>5, <1>8, <2>1, PlainSetKeeps
<1>9. CASE /\ Holds(k) /\ Goto(t, "count") /\ removed' = [removed EXCEPT ![t] = {store[k].val}]
           /\ call' = call /\ UNCHANGED replaced
  <2>1. call' = [call EXCEPT ![t] = call[t]]
    BY <1>9 DEF IInv, TypeOK
  <2>2. Storing(t, "count", call[t], k, e) /\ Home(call[t]) = hasher[k]
    BY <1>3, <1>6, <1>9, <2>1, ReportStores
  <2>3. Settles(t, "count", call[t], k, 0)
    BY <1>7, <1>9, <2>2 DEF Settles
  <2> QED
    BY <1>1, <1>5, <2>2, <2>3, PlainSetKeeps
<1> QED
  BY <1>7, <1>8, <1>9

\* The removals of ShardedTtlCache keep the invariant.
LEMMA TtlRemove ==
  ASSUME CountingLaws, IInv, kind = "Ttl", NEW t \in Threads, NEW k \in Keys, NEW op \in {"remove", "remove_entry"},
         ttl_cache_remove(t, k, op)
  PROVE  IInv'
<1>1. Free(t)
  <2>1. Begin(t) /\ Frame
    BY DEF ttl_cache_remove, TtlFrame, Frame, aside, bounds, settings, shrinks
  <2> QED
    BY <2>1, BeginFree
<1>2. CASE Return(t, 0) /\ UNCHANGED <<store, order, evictions>>
  BY <1>1, <1>2, PlainKeeps
<1>3. CASE Holds(k) /\ TakeOut(t, {k}, EntryCall(op, k, clock, store[k].val, store[k].exp))
  <2>1. OnKey(EntryCall(op, k, clock, store[k].val, store[k].exp), k)
    BY <1>3, RemoveCall
  <2> QED
    BY <1>1, <1>3, <2>1, TakeKeyKeeps
<1> QED
  BY <1>2, <1>3 DEF ttl_cache_remove, EntryCall

\* Every step of ShardedTtlCache keeps the invariant.
LEMMA TtlNextKeeps ==
  ASSUME CountingLaws, IInv, kind = "Ttl", TtlNext
  PROVE  IInv'
<1>1. {"retain", "drain", "evict"} \subseteq SweepOps
  BY DEF SweepOps, TtlKinds
<1>2. ASSUME NEW t \in Threads, ttl_evict(t) \/ ttl_retain(t) \/ ttl_cache_clear_with_on_evict(t)
      PROVE  IInv'
  <2>1. PICK op \in SweepOps, doomed \in SUBSET InShard(t) : AtShard(t, op) /\ Sweep(t, doomed)
    BY <1>1, <1>2 DEF ttl_evict, ttl_retain, ttl_cache_clear_with_on_evict, TtlOverdue
  <2> QED
    BY <2>1, SweepKeeps
<1> QED
  BY <1>2, TtlGet, TtlStatus, TtlSet, TtlRemove, TtlRecheckKeeps, TtlSetWriteKeeps DEF TtlNext

-----------------------------------------------------------------------------
(* ShardedExpiringCache. *)

\* The arguments of a call that only says its key.
LEMMA KeyCallOn ==
  ASSUME IInv, NEW k \in Keys, NEW op \in {"get", "set"}
  PROVE  OnKey(KeyCall(op, k), k) /\ KeyCall(op, k).op = op
<1>1. op \in Ops /\ clock \in Nat /\ Shards \in Nat
  BY ShardedAssumption DEF Ops, IInv, TypeOK
<1> DEFINE c == KeyCall(op, k)
<1>2. c \in Call /\ c.op = op /\ c.key = k /\ c.now = 0 /\ c.shard = 0
  BY SMTT(30), <1>1, KeyCallIs
<1> HIDE DEF c
<1>3. OnKey(c, k) /\ c.op = op
  BY SMTT(30), <1>1, <1>2 DEF OnKey
<1> QED
  BY <1>3 DEF c

\* A get looks under the read lock.
LEMMA ExpiringGet ==
  ASSUME CountingLaws, IInv, kind = "Expiring", NEW t \in Threads, NEW k \in Keys, expiring_cache_get(t, k)
  PROVE  IInv'
<1>1. Begin(t) /\ Frame
  BY DEF expiring_cache_get, ExpiringFrame, Frame, aside, bounds, settings, shrinks
<1>2. PICK c : c = KeyCall("get", k) /\ OnKey(c, k) /\ c.op = "get"
  BY KeyCallOn
<1>3. \/ Looks(t, k, c)
      \/ Enter(t, "recheck", c) /\ UNCHANGED <<store, order, evictions>>
  BY <1>2 DEF Looks, expiring_cache_get, Live, counters, KeyCall
<1>4. CASE Looks(t, k, c)
  BY <1>1, <1>2, <1>4, BeginFree, LooksKeeps
<1>5. CASE Enter(t, "recheck", c) /\ UNCHANGED <<store, order, evictions>>
  BY <1>1, <1>2, <1>5, BeginIs, Untouched, EnterKeeps DEF OnKey
<1> QED
  BY <1>3, <1>4, <1>5

\* The second look, under the write lock; is_expired may panic.
LEMMA ExpiringRecheckKeeps ==
  ASSUME CountingLaws, IInv, kind = "Expiring", NEW t \in Threads, ExpiringRecheck(t)
  PROVE  IInv'
<1>1. pc[t] = "recheck" /\ ops' = ops /\ Frame
  BY DEF ExpiringRecheck, ExpiringFrame, Frame, aside, bounds, settings, shrinks
<1>2. PICK k \in Keys : k = call[t].key /\ OnKey(call[t], k)
  <2>1. call[t].op \in {"get", "set"}
    BY <1>1 DEF IInv, ThreadInv, Fits
  <2> QED
    BY <2>1, StillOnKey
<1>3. Looks(t, k, call[t])
  BY <1>2 DEF Looks, ExpiringRecheck, Live, Stale, AskPanics, counters
<1> QED
  BY <1>1, <1>2, <1>3, WaitingFree, LooksKeeps

\* A look that removes nothing.
LEMMA ExpiringStatus ==
  ASSUME CountingLaws, IInv, NEW t \in Threads, NEW k \in Keys, expiring_cache_get_with_expiry_status(t, k)
  PROVE  IInv'
<1>1. Begin(t) /\ Frame /\ UNCHANGED <<pc, call, removed, store, order, evictions>>
  BY DEF expiring_cache_get_with_expiry_status, ExpiringFrame, Frame, aside, bounds, settings, shrinks, thread
<1>2. Touches
  BY <1>1, Untouched
<1> QED
  BY <1>1, <1>2, BeginIs, IdleKeeps

\* The entry that a set of a value with its own deadline stores.
LEMMA ValueStored ==
  ASSUME IInv, NEW exp \in Expiries
  PROVE  \E e \in Entry : e = [val |-> ops + 1, exp |-> exp] /\ e.val = ops + 1
<1> DEFINE e == [val |-> ops + 1, exp |-> exp]
<1>1. e \in Entry /\ e.val = ops + 1
  BY SMTT(30), ShardedAssumption DEF IInv, TypeOK, Entry, Expiries
<1> QED
  BY <1>1

\* A set swaps the values and asks the displaced one under the same lock.
LEMMA ExpiringSet ==
  ASSUME CountingLaws, IInv, kind = "Expiring", NEW t \in Threads, NEW k \in Keys, NEW exp \in Expiries,
         expiring_cache_set(t, k, exp)
  PROVE  IInv'
<1>1. kind \notin LruKinds
  BY DEF LruKinds
<1>2. PICK e \in Entry : e = [val |-> ops + 1, exp |-> exp] /\ e.val = ops + 1
  BY ValueStored
<1>3. Puts(k, e)
  BY <1>2 DEF Puts, expiring_cache_set, ExpiringFrame, shrinks, counters
<1>4. Brings(t, k, e)
  BY <1>2, BeginIs DEF Brings, expiring_cache_set, ExpiringFrame, aside, bounds, settings, shrinks
<1>5. ASSUME NEW v, Return(t, v), Settles(t, "idle", NoCall, k, 0)
      PROVE  IInv'
  <2>1. Storing(t, "idle", NoCall, k, e)
    BY <1>4, <1>5, ReturnStores
  <2> QED
    BY <1>1, <1>3, <1>5, <2>1, PlainSetKeeps
<1>6. CASE /\ Holds(k) /\ Goto(t, "count") /\ removed' = [removed EXCEPT ![t] = {store[k].val}]
           /\ call' = [call EXCEPT ![t] = KeyCall("set", k)] /\ UNCHANGED <<replaced, lost>>
  <2>1. PICK c : c = KeyCall("set", k) /\ OnKey(c, k)
    BY KeyCallOn
  <2>2. Storing(t, "count", c, k, e) /\ Home(c) = hasher[k]
    BY <1>4, <1>6, <2>1, ReportStores
  <2>3. Settles(t, "count", c, k, 0)
    BY <1>6, <2>2 DEF Settles
  <2> QED
    BY <1>1, <1>3, <2>2, <2>3, PlainSetKeeps
<1>7. \/ \E v : Return(t, v) /\ Settles(t, "idle", NoCall, k, 0)
      \/ /\ Holds(k) /\ Goto(t, "count") /\ removed' = [removed EXCEPT ![t] = {store[k].val}]
         /\ call' = [call EXCEPT ![t] = KeyCall("set", k)] /\ UNCHANGED <<replaced, lost>>
  BY DEF expiring_cache_set, Settles, Live, Stale, KeyCall
<1> QED
  BY <1>5, <1>6, <1>7

\* A remove.
LEMMA ExpiringRemove ==
  ASSUME CountingLaws, IInv, kind = "Expiring",
         NEW t \in Threads, NEW k \in Keys, NEW op \in {"remove", "remove_entry"},
         expiring_cache_remove(t, k, op)
  PROVE  IInv'
<1>1. Free(t)
  <2>1. Begin(t) /\ Frame
    BY DEF expiring_cache_remove, ExpiringFrame, Frame, aside, bounds, settings, shrinks
  <2> QED
    BY <2>1, BeginFree
<1>2. CASE Return(t, 0) /\ UNCHANGED <<store, order, evictions>>
  BY <1>1, <1>2, PlainKeeps
<1>3. CASE Holds(k) /\ TakeOut(t, {k}, EntryCall(op, k, clock, store[k].val, store[k].exp))
  <2>1. OnKey(EntryCall(op, k, clock, store[k].val, store[k].exp), k)
    BY <1>3, RemoveCall
  <2> QED
    BY <1>1, <1>3, <2>1, TakeKeyKeeps
<1> QED
  BY <1>2, <1>3 DEF expiring_cache_remove, EntryCall

\* Every step of the store.
LEMMA ExpiringNextKeeps ==
  ASSUME CountingLaws, IInv, kind = "Expiring", ExpiringNext
  PROVE  IInv'
<1>1. {"retain", "drain", "evict"} \subseteq SweepOps
  BY DEF SweepOps, ExpiringKinds
<1>2. ASSUME NEW t \in Threads, expiring_evict(t) \/ expiring_retain(t) \/ expiring_cache_clear_with_on_evict(t)
      PROVE  IInv'
  <2>1. PICK op \in SweepOps, doomed \in SUBSET InShard(t) : AtShard(t, op) /\ Sweep(t, doomed)
    BY <1>1, <1>2 DEF expiring_evict, expiring_retain, expiring_cache_clear_with_on_evict, ExpiringOverdue
  <2> QED
    BY <2>1, SweepKeeps
<1> QED
  BY <1>2, ExpiringGet, ExpiringStatus, ExpiringSet, ExpiringRemove, ExpiringRecheckKeeps DEF ExpiringNext

-----------------------------------------------------------------------------
(* ShardedLruCache. *)

\* A hit promotes.
LEMMA LruGet ==
  ASSUME CountingLaws, IInv, NEW t \in Threads, NEW k \in Keys, lru_cache_get(t, k)
  PROVE  IInv'
<1>1. Begin(t) /\ Frame /\ UNCHANGED store
  BY DEF lru_cache_get, LruFrame, Frame, aside, bounds, settings
<1>2. Free(t)
  BY <1>1, BeginFree
<1>3. CASE Holds(k) /\ Hit(t, k) /\ order' = Promoted(k)
  BY <1>1, <1>2, <1>3, HitKeeps
<1>4. CASE Miss(t, k) /\ UNCHANGED order
  BY <1>1, <1>2, <1>4, MissKeeps
<1> QED
  BY <1>3, <1>4 DEF lru_cache_get

\* A set overwrites the entry of its key and makes room for a new one.
LEMMA LruSet ==
  ASSUME CountingLaws, IInv, kind = "Lru", NEW t \in Threads, NEW k \in Keys, lru_cache_set(t, k)
  PROVE  IInv'
<1> DEFINE e == [val |-> ops + 1, exp |-> Never]
<1>1. e \in Entry /\ e.val = ops + 1 /\ kind \in LruKinds
  BY SMT DEF Entry, IInv, TypeOK, LruKinds
<1>2. PICK outcome \in SetOutcomes(k) :
         /\ InnerSet(k, e, outcome, 0)
         /\ \/ Holds(k) /\ replaced' = Counted(replaced, k, 1)
            \/ ~Holds(k) /\ UNCHANGED replaced
         /\ \E v : Return(t, v)
  BY DEF lru_cache_set
<1> HIDE DEF e
<1>3. Brings(t, k, e)
  BY <1>1, <1>2, BeginIs DEF Brings, lru_cache_set, LruFrame, aside, bounds, settings, InnerSet
<1>4. Storing(t, "idle", NoCall, k, e)
  BY <1>2, <1>3, ReturnStores
<1>5. Settles(t, "idle", NoCall, k, 0)
  BY <1>2 DEF Settles, lru_cache_set, LruFrame
<1> QED
  BY <1>1, <1>2, <1>4, <1>5, LruSetKeeps

\* A remove is counted under the lock.
LEMMA LruRemove ==
  ASSUME CountingLaws, IInv, NEW t \in Threads, NEW k \in Keys, lru_cache_remove_entry(t, k)
  PROVE  IInv'
<1>1. Free(t)
  <2>1. Begin(t) /\ Frame
    BY DEF lru_cache_remove_entry, LruFrame, Frame, aside, bounds, settings
  <2> QED
    BY <2>1, BeginFree
<1>2. CASE Return(t, 0) /\ UNCHANGED <<store, order, evictions>>
  BY <1>1, <1>2, PlainKeeps
<1>3. CASE Holds(k) /\ TakeOutCounted(t, {k}, ValueCall("remove_entry", k, store[k].val), hasher[k])
  <2>1. "remove_entry" \in Ops /\ store[k].val \in Nat /\ clock \in Nat /\ Shards \in Nat
    BY <1>3, HeldEntry, ShardedAssumption DEF Ops, IInv, TypeOK
  <2>2. OnKey(ValueCall("remove_entry", k, store[k].val), k)
    BY SMT, <2>1, ValueCallIs DEF OnKey
  <2> QED
    BY <1>1, <1>3, <2>2, TakeKeyKeeps
<1> QED
  BY <1>2, <1>3 DEF lru_cache_remove_entry, ValueCall

\* Every step of the store.
LEMMA LruNextKeeps ==
  ASSUME CountingLaws, IInv, kind = "Lru", LruNext
  PROVE  IInv'
<1>1. {"retain", "drain"} \subseteq SweepOps /\ kind \in LruKinds
  BY DEF SweepOps, LruKinds
<1>2. ASSUME NEW t \in Threads, lru_retain(t) \/ lru_cache_clear_with_on_evict(t)
      PROVE  IInv'
  <2>1. PICK op \in SweepOps, doomed \in SUBSET InShard(t) : AtShard(t, op) /\ SweepCounted(t, doomed)
    BY <1>1, <1>2 DEF lru_retain, lru_cache_clear_with_on_evict
  <2> QED
    BY <2>1, SweepKeeps
<1> QED
  BY <1>1, <1>2, LruGet, LruSet, LruRemove, LruCommonKeeps DEF LruNext

-----------------------------------------------------------------------------
(* ShardedLruTtlCache. *)

\* A new deadline is a number or none.
LEMMA LruTtlDeadline ==
  ASSUME IInv, NEW now \in Nat
  PROVE  lru_ttl_compute_expires_at(now) \in Expiry
BY SMT DEF IInv, TypeOK, lru_ttl_compute_expires_at, Expiry

\* A renewal changes the deadline alone.
LEMMA LruTtlRenews ==
  ASSUME IInv, NEW k \in Keys, Holds(k), NEW now \in Nat, store' = LruTtlRenewed(k, now)
  PROVE  Renews(k)
<1> DEFINE x == IF ttl = 0 THEN store[k].exp ELSE lru_ttl_compute_expires_at(now)
<1>1. x \in Expiry
  BY HeldEntry, LruTtlDeadline DEF IInv, TypeOK
<1>2. store' = [store EXCEPT ![k] = [val |-> store[k].val, exp |-> x]]
  BY DEF LruTtlRenewed
<1> QED
  BY <1>1, <1>2 DEF Renews, Expiry

\* A get samples the clock before it waits for the lock.
LEMMA LruTtlStart ==
  ASSUME CountingLaws, IInv, NEW t \in Threads, NEW k \in Keys, NEW op \in {"get", "status"}, StartGet(t, k, op)
  PROVE  IInv'
<1>1. Begin(t) /\ Frame /\ UNCHANGED <<store, order, evictions>>
  BY DEF StartGet, LruTtlFrame, Frame, aside, bounds, settings, counters
<1>2. PICK c : c = LookCall(op, k, clock, refresh) /\ Enter(t, "look", c)
  BY DEF StartGet, LookCall
<1>3. op \in Ops /\ clock \in Nat /\ refresh \in BOOLEAN /\ Shards \in Nat
  BY ShardedAssumption DEF Ops, IInv, TypeOK
<1>4. c \in Call /\ c.op = op /\ c.now = clock /\ c.shard = 0
  BY SMTT(30), <1>2, <1>3, LookCallIs
<1>5. c.op # "resize" /\ c.now <= clock /\ c.shard <= Shards
  BY SMTT(30), <1>3, <1>4
<1>6. Touches
  BY <1>1, Untouched
<1> QED
  BY <1>1, <1>2, <1>4, <1>5, <1>6, BeginIs, EnterKeeps

\* What a call that looks may do to the entry it finds.
LEMMA LruTtlFound ==
  ASSUME IInv, NEW t \in Threads, NEW k \in Keys, Holds(k),
         store' = IF call[t].refresh THEN LruTtlRenewed(k, call[t].now) ELSE store
  PROVE  store' = store \/ Renews(k)
<1>1. call[t].now \in Nat
  BY DEF IInv, TypeOK, Call
<1> QED
  BY <1>1, LruTtlRenews

\* A live entry is promoted and perhaps renewed, an expired one taken out.
LEMMA LruTtlGet ==
  ASSUME CountingLaws, IInv, kind = "LruTtl", NEW t \in Threads, lru_ttl_cache_get(t)
  PROVE  IInv'
<1>1. pc[t] = "look" /\ call[t].op = "get" /\ ops' = ops /\ Frame
  BY DEF lru_ttl_cache_get, LruTtlFrame, Frame, aside, bounds, settings
<1>2. PICK k \in Keys : k = call[t].key /\ OnKey(call[t], k)
  BY <1>1, StillOnKey
<1>3. Looks(t, k, call[t])
  BY <1>2, LruTtlFound DEF Looks, lru_ttl_cache_get, Live, Stale
<1> QED
  BY <1>1, <1>2, <1>3, WaitingFree, LooksKeeps

\* The look that removes nothing.
LEMMA LruTtlStatus ==
  ASSUME CountingLaws, IInv, NEW t \in Threads, lru_ttl_cache_get_with_expiry_status(t)
  PROVE  IInv'
<1>1. pc[t] = "look" /\ ops' = ops /\ Frame /\ UNCHANGED evictions /\ Return(t, 0)
  BY DEF lru_ttl_cache_get_with_expiry_status, LruTtlFrame, Frame, aside, bounds, settings
<1>2. Free(t)
  BY <1>1, WaitingFree
<1>3. PICK k \in Keys : k = call[t].key
  BY DEF IInv, TypeOK, Call
<1>4. \/ /\ Holds(k) /\ order' = Promoted(k)
         /\ store' = IF call[t].refresh THEN LruTtlRenewed(k, call[t].now) ELSE store
      \/ UNCHANGED <<store, order>>
  BY <1>3 DEF lru_ttl_cache_get_with_expiry_status, Live
<1>5. CASE UNCHANGED <<store, order>>
  BY <1>1, <1>2, <1>5, PlainKeeps
<1>6. CASE /\ Holds(k) /\ order' = Promoted(k)
           /\ store' = IF call[t].refresh THEN LruTtlRenewed(k, call[t].now) ELSE store
  <2>1. store' = store \/ Renews(k)
    BY <1>6, LruTtlFound
  <2>2. Touches
    BY <1>1, <1>6, <2>1, TouchedOne
  <2> QED
    BY <1>1, <1>2, <2>2, ReturnKeeps DEF Free
<1> QED
  BY <1>4, <1>5, <1>6

\* A set reads the clock and the TTL before it waits for the lock.
LEMMA LruTtlSet ==
  ASSUME CountingLaws, IInv, NEW t \in Threads, NEW k \in Keys, lru_ttl_cache_set(t, k)
  PROVE  IInv'
<1>1. Begin(t) /\ Frame /\ UNCHANGED <<store, order, evictions>>
  BY DEF lru_ttl_cache_set, LruTtlFrame, Frame, aside, bounds, settings, counters
<1>2. PICK c : c = EntryCall("set", k, clock, ops + 1, lru_ttl_compute_expires_at(clock)) /\ Enter(t, "write", c)
  BY DEF lru_ttl_cache_set, EntryCall
<1>3. c \in Call /\ c.op = "set" /\ c.now <= clock /\ c.shard <= Shards /\ c.val = ops + 1
  <2>1. "set" \in Ops /\ clock \in Nat /\ ops + 1 \in Nat /\ lru_ttl_compute_expires_at(clock) \in Expiry
    BY SMT, LruTtlDeadline DEF Ops, IInv, TypeOK
  <2>2. c \in Call /\ c.op = "set" /\ c.now = clock /\ c.shard = 0 /\ c.val = ops + 1
    BY SMT, <1>2, <2>1, EntryCallIs
  <2> QED
    BY SMT, <2>1, <2>2, ShardedAssumption
<1> QED
  BY <1>1, <1>2, <1>3, BeginIs, Untouched, EnterKeeps

\* The inner set, and what becomes of the entry that it displaces.
LEMMA LruTtlSetWriteKeeps ==
  ASSUME CountingLaws, IInv, kind = "LruTtl", NEW t \in Threads, LruTtlSetWrite(t)
  PROVE  IInv'
<1>1. pc[t] = "write" /\ ~Resizing(t) /\ kind \in LruKinds /\ ops' = ops
  BY OnlySweepsResize DEF LruTtlSetWrite, LruKinds
<1>2. call[t].op \in {"get", "set"}
  BY <1>1 DEF IInv, ThreadInv, Fits
<1>3. PICK k \in Keys : k = call[t].key /\ OnKey(call[t], k)
  BY <1>2, StillOnKey
<1>4. PICK e \in Entry : e = [val |-> call[t].val, exp |-> call[t].exp] /\ e.val = call[t].val
  BY ArgumentsStored
<1>5. PICK outcome \in SetOutcomes(k) :
         /\ InnerSet(k, e, outcome, 0)
         /\ \/ \E v : Return(t, v) /\ Settles(t, "idle", NoCall, k, 0)
            \/ /\ Holds(k) /\ Goto(t, "count") /\ removed' = [removed EXCEPT ![t] = {store[k].val}]
               /\ UNCHANGED <<call, replaced, lost>>
  BY <1>3, <1>4 DEF LruTtlSetWrite, Live, Stale, Settles
<1>6. Brings(t, k, e)
  BY <1>1, <1>3, <1>4, <1>5 DEF Brings, LruTtlSetWrite, LruTtlFrame, aside, bounds, settings, InnerSet
<1>7. ASSUME NEW v, Return(t, v), Settles(t, "idle", NoCall, k, 0)
      PROVE  IInv'
  <2>1. Storing(t, "idle", NoCall, k, e)
    BY <1>6, <1>7, ReturnStores
  <2> QED
    BY <1>1, <1>5, <1>7, <2>1, LruSetKeeps
<1>8. CASE /\ Holds(k) /\ Goto(t, "count") /\ removed' = [removed EXCEPT ![t] = {store[k].val}]
           /\ UNCHANGED <<call, replaced, lost>>
  <2>1. call' = [call EXCEPT ![t] = call[t]]
    BY <1>8 DEF IInv, TypeOK
  <2>2. Storing(t, "count", call[t], k, e) /\ Home(call[t]) = hasher[k]
    BY <1>3, <1>6, <1>8, <2>1, ReportStores
  <2>3. Settles(t, "count", call[t], k, 0)
    BY <1>8, <2>2 DEF Settles
  <2> QED
    BY <1>1, <1>5, <2>2, <2>3, LruSetKeeps
<1> QED
  BY <1>5, <1>7, <1>8

\* A remove.
LEMMA LruTtlRemove ==
  ASSUME CountingLaws, IInv, kind = "LruTtl", NEW t \in Threads, NEW k \in Keys, NEW op \in {"remove", "remove_entry"},
         lru_ttl_cache_remove(t, k, op)
  PROVE  IInv'
<1>1. Free(t)
  <2>1. Begin(t) /\ Frame
    BY DEF lru_ttl_cache_remove, LruTtlFrame, Frame, aside, bounds, settings
  <2> QED
    BY <2>1, BeginFree
<1>2. CASE Return(t, 0) /\ UNCHANGED <<store, order, evictions>>
  BY <1>1, <1>2, PlainKeeps
<1>3. CASE Holds(k) /\ TakeOut(t, {k}, EntryCall(op, k, clock, store[k].val, store[k].exp))
  <2>1. OnKey(EntryCall(op, k, clock, store[k].val, store[k].exp), k)
    BY <1>3, RemoveCall
  <2> QED
    BY <1>1, <1>3, <2>1, TakeKeyKeeps
<1> QED
  BY <1>2, <1>3 DEF lru_ttl_cache_remove, EntryCall

\* Every step of the store.
LEMMA LruTtlNextKeeps ==
  ASSUME CountingLaws, IInv, kind = "LruTtl", LruTtlNext
  PROVE  IInv'
<1>1. {"retain", "drain", "evict"} \subseteq SweepOps /\ kind \in LruKinds
  BY DEF SweepOps, TtlKinds, LruKinds
<1>2. ASSUME NEW t \in Threads, lru_ttl_evict(t) \/ lru_ttl_retain(t) \/ lru_ttl_cache_clear_with_on_evict(t)
      PROVE  IInv'
  <2>1. PICK op \in SweepOps, doomed \in SUBSET InShard(t) : AtShard(t, op) /\ Sweep(t, doomed)
    BY <1>1, <1>2 DEF lru_ttl_evict, lru_ttl_retain, lru_ttl_cache_clear_with_on_evict, LruTtlOverdue
  <2> QED
    BY <2>1, SweepKeeps
<1> QED
  BY <1>1, <1>2, LruTtlStart, LruTtlGet, LruTtlStatus, LruTtlSet, LruTtlSetWriteKeeps, LruTtlRemove,
     LruCommonKeeps DEF LruTtlNext

-----------------------------------------------------------------------------
(* ShardedExpiringLruCache. *)

\* A live entry is promoted, an expired one taken out; or is_expired panics.
LEMMA ExpiringLruGet ==
  ASSUME CountingLaws, IInv, kind = "ExpiringLru", NEW t \in Threads, NEW k \in Keys, expiring_lru_cache_get(t, k)
  PROVE  IInv'
<1>1. Begin(t) /\ Frame
  BY DEF expiring_lru_cache_get, ExpiringLruFrame, Frame, aside, bounds, settings
<1>2. PICK c : c = KeyCall("get", k) /\ OnKey(c, k)
  BY KeyCallOn
<1>3. Looks(t, k, c)
  BY <1>2 DEF Looks, expiring_lru_cache_get, Live, Stale, KeyCall, counters
<1> QED
  BY <1>1, <1>2, <1>3, BeginFree, LooksKeeps

\* A look that removes nothing and promotes a live entry.
LEMMA ExpiringLruStatus ==
  ASSUME CountingLaws, IInv, NEW t \in Threads, NEW k \in Keys, expiring_lru_cache_get_with_expiry_status(t, k)
  PROVE  IInv'
<1>1. Begin(t) /\ Frame /\ UNCHANGED <<pc, call, removed, store, evictions>>
  BY DEF expiring_lru_cache_get_with_expiry_status, ExpiringLruFrame, Frame, aside, bounds, settings, thread
<1>2. order' = order \/ (Holds(k) /\ order' = Promoted(k))
  BY DEF expiring_lru_cache_get_with_expiry_status, Live
<1>3. Touches
  <2>1. CASE order' = order
    BY <1>1, <2>1, Untouched
  <2>2. CASE Holds(k) /\ order' = Promoted(k)
    BY <1>1, <2>2, TouchedOne
  <2> QED
    BY <1>2, <2>1, <2>2
<1> QED
  BY <1>1, <1>3, BeginIs, IdleKeeps

\* A set asks the displaced value and counts it under the lock.
LEMMA ExpiringLruSet ==
  ASSUME CountingLaws, IInv, kind = "ExpiringLru", NEW t \in Threads, NEW k \in Keys, NEW exp \in Expiries,
         expiring_lru_cache_set(t, k, exp)
  PROVE  IInv'
<1>1. kind \in LruKinds
  BY DEF LruKinds
<1>2. PICK e \in Entry : e = [val |-> ops + 1, exp |-> exp] /\ e.val = ops + 1
  BY ValueStored
<1>3. PICK outcome \in SetOutcomes(k) :
         \/ InnerSet(k, e, outcome, 0) /\ \E v : Return(t, v) /\ Settles(t, "idle", NoCall, k, 0)
         \/ /\ InnerSet(k, e, outcome, 1)
            /\ Holds(k) /\ Goto(t, "notify") /\ removed' = [removed EXCEPT ![t] = {store[k].val}]
            /\ call' = [call EXCEPT ![t] = KeyCall("set", k)] /\ UNCHANGED <<replaced, lost>>
  BY <1>2 DEF expiring_lru_cache_set, Live, Stale, Settles, KeyCall
<1>4. Brings(t, k, e)
  BY <1>2, <1>3, BeginIs DEF Brings, expiring_lru_cache_set, ExpiringLruFrame, aside, bounds, settings, InnerSet
<1>5. ASSUME NEW v, Return(t, v), Settles(t, "idle", NoCall, k, 0), InnerSet(k, e, outcome, 0)
      PROVE  IInv'
  <2>1. Storing(t, "idle", NoCall, k, e)
    BY <1>4, <1>5, ReturnStores
  <2> QED
    BY <1>1, <1>5, <2>1, LruSetKeeps
<1>6. CASE /\ InnerSet(k, e, outcome, 1)
           /\ Holds(k) /\ Goto(t, "notify") /\ removed' = [removed EXCEPT ![t] = {store[k].val}]
           /\ call' = [call EXCEPT ![t] = KeyCall("set", k)] /\ UNCHANGED <<replaced, lost>>
  <2>1. PICK c : c = KeyCall("set", k) /\ OnKey(c, k)
    BY KeyCallOn
  <2>2. Storing(t, "notify", c, k, e)
    BY <1>4, <1>6, <2>1, ReportStores
  <2>3. Settles(t, "notify", c, k, 1)
    BY <1>6 DEF Settles
  <2> QED
    BY <1>1, <1>6, <2>2, <2>3, LruSetKeeps
<1> QED
  BY <1>3, <1>5, <1>6

\* A remove is counted under the lock.
LEMMA ExpiringLruRemove ==
  ASSUME CountingLaws, IInv, NEW t \in Threads, NEW k \in Keys, NEW op \in {"remove", "remove_entry"},
         expiring_lru_cache_remove(t, k, op)
  PROVE  IInv'
<1>1. Free(t)
  <2>1. Begin(t) /\ Frame
    BY DEF expiring_lru_cache_remove, ExpiringLruFrame, Frame, aside, bounds, settings
  <2> QED
    BY <2>1, BeginFree
<1>2. CASE Return(t, 0) /\ UNCHANGED <<store, order, evictions>>
  BY <1>1, <1>2, PlainKeeps
<1>3. CASE Holds(k) /\ TakeOutCounted(t, {k}, EntryCall(op, k, clock, store[k].val, store[k].exp), hasher[k])
  <2>1. OnKey(EntryCall(op, k, clock, store[k].val, store[k].exp), k)
    BY <1>3, RemoveCall
  <2> QED
    BY <1>1, <1>3, <2>1, TakeKeyKeeps
<1> QED
  BY <1>2, <1>3 DEF expiring_lru_cache_remove, EntryCall

\* Every step of the store.
LEMMA ExpiringLruNextKeeps ==
  ASSUME CountingLaws, IInv, kind = "ExpiringLru", ExpiringLruNext
  PROVE  IInv'
<1>1. {"retain", "drain", "evict"} \subseteq SweepOps /\ kind \in LruKinds
  BY DEF SweepOps, ExpiringKinds, LruKinds
<1>2. ASSUME NEW t \in Threads, expiring_lru_evict(t) \/ expiring_lru_retain(t)
      PROVE  IInv'
  <2>1. PICK op \in SweepOps, doomed \in SUBSET InShard(t) : AtShard(t, op) /\ Sweep(t, doomed)
    BY <1>1, <1>2 DEF expiring_lru_evict, expiring_lru_retain, ExpiringLruOverdue
  <2> QED
    BY <2>1, SweepKeeps
<1>3. ASSUME NEW t \in Threads, expiring_lru_cache_clear_with_on_evict(t)
      PROVE  IInv'
  BY <1>1, <1>3, SweepKeeps DEF expiring_lru_cache_clear_with_on_evict
<1> QED
  BY <1>1, <1>2, <1>3, ExpiringLruGet, ExpiringLruStatus, ExpiringLruSet, ExpiringLruRemove, LruCommonKeeps
  DEF ExpiringLruNext

-----------------------------------------------------------------------------
(* The invariant. *)

\* A store that was built with a bound has it in every shard, and has published
\* the bounds of the shards together.
LEMMA BuiltIs ==
  ASSUME Built
  PROVE  Configured
<1>1. ASSUME capacity = [s \in ShardIds |-> 0]
      PROVE  capacity \in Tally
  BY <1>1 DEF Tally
<1>2. \A n \in Ttls : n \in Nat
  BY ShardedAssumption
<1>3. CASE kind \in LruKinds
  <2>1. Bounded /\ (ttl = 0 \/ ttl \in Ttls) /\ refresh \in BOOLEAN
    BY <1>3 DEF Built, LruKinds, lru_build, lru_ttl_build, expiring_lru_build
  <2> QED
    BY SMTT(30), <1>2, <1>3, <2>1, BoundedIs DEF Configured, Kinds
<1>4. CASE kind \notin LruKinds
  <2>1. /\ kind \in {"Unbound", "Ttl", "Expiring"}
        /\ capacity = [s \in ShardIds |-> 0] /\ (ttl = 0 \/ ttl \in Ttls) /\ refresh \in BOOLEAN
    BY <1>4 DEF Built, LruKinds, unbound_build, ttl_build, expiring_build
  <2> QED
    BY SMTT(30), <1>1, <1>2, <1>4, <2>1 DEF Configured, Kinds
<1> QED
  BY <1>3, <1>4

\* A store that has just been built satisfies the invariant.
LEMMA InitIInv ==
  ASSUME CountingLaws, MCInit
  PROVE  IInv
  BY BuiltIs, EmptyIInv DEF MCInit

\* Every step of every store keeps the invariant.
LEMMA NextIInv ==
  ASSUME CountingLaws, IInv, [Next]_vars
  PROVE  IInv'
BY StutterIInv, CommonKeeps, UnboundNextKeeps, TtlNextKeeps, ExpiringNextKeeps, LruNextKeeps, LruTtlNextKeeps,
   ExpiringLruNextKeeps DEF Next

-----------------------------------------------------------------------------
(* Which entries leave the caches. *)

\* The unbounded store.
LEMMA UnboundLive ==
  ASSUME IInv, UnboundNext
  PROVE  LiveStep
<1> SUFFICES ASSUME NEW t \in Threads,
                    \/ \E k \in Keys : \/ unbound_cache_get(t, k) \/ unbound_cache_set(t, k)
                                       \/ unbound_cache_remove_entry(t, k)
                    \/ unbound_retain(t) \/ unbound_cache_clear_with_on_evict(t)
             PROVE  LiveStep
  BY DEF UnboundNext
<1>1. ASSUME NEW k \in Keys, unbound_cache_get(t, k)
      PROVE  LiveStep
  BY <1>1, StayLive DEF unbound_cache_get
<1>2. ASSUME NEW k \in Keys, unbound_cache_set(t, k)
      PROVE  LiveStep
  <2> DEFINE e == [val |-> ops + 1, exp |-> Never]
  <2>1. e \in Entry
    BY SMTT(30) DEF Entry, IInv, TypeOK
  <2>2. Placed(k, e)
    BY <1>2 DEF Placed, unbound_cache_set
  <2> HIDE DEF e
  <2> QED
    BY <2>1, <2>2, PutLive
<1>3. ASSUME NEW k \in Keys, unbound_cache_remove_entry(t, k)
      PROVE  LiveStep
  <2>1. CASE UNCHANGED store
    BY <2>1, StayLive
  <2>2. CASE Holds(k) /\ TakeOutUncounted(t, {k}, ValueCall("remove_entry", k, store[k].val))
    <3>1. PICK c : c = ValueCall("remove_entry", k, store[k].val) /\ OnKey(c, k) /\ c.op = "remove_entry"
      BY <2>2, ValueCallOn
    <3>2. Begin(t)
      BY <1>3 DEF unbound_cache_remove_entry
    <3>3. TakesOne(t, k, c)
      BY <2>2, <3>1 DEF TakesOne
    <3> QED
      BY <3>1, <3>2, <3>3, RemoveLive
  <2> QED
    BY <1>3, <2>1, <2>2 DEF unbound_cache_remove_entry, ValueCall
<1>4. CASE unbound_retain(t)
  <2>1. Dooms(t, "retain", InShard(t) \ call[t].keep)
    BY <1>4, SweepMoves DEF unbound_retain, Dooms
  <2> QED
    BY <2>1, SweepLive
<1>5. CASE unbound_cache_clear_with_on_evict(t)
  <2>1. Dooms(t, "drain", InShard(t))
    BY <1>5, SweepMoves DEF unbound_cache_clear_with_on_evict, Dooms
  <2> QED
    BY <2>1, SweepLive
<1> QED
  BY <1>1, <1>2, <1>3, <1>4, <1>5

\* The store with one TTL: a second look judges by the instant of the first, when
\* what it finds had expired already.
LEMMA TtlLive ==
  ASSUME IInv, TtlNext
  PROVE  LiveStep
<1> SUFFICES ASSUME NEW t \in Threads,
                    \/ \E k \in Keys :
                          \/ ttl_cache_get(t, k) \/ ttl_cache_get_with_expiry_status(t, k) \/ ttl_cache_set(t, k)
                          \/ \E op \in {"remove", "remove_entry"} : ttl_cache_remove(t, k, op)
                    \/ TtlRecheck(t) \/ TtlSetWrite(t)
                    \/ ttl_evict(t) \/ ttl_retain(t) \/ ttl_cache_clear_with_on_evict(t)
             PROVE  LiveStep
  BY DEF TtlNext
<1>0. clock \in Nat /\ call[t].now \in Nat /\ call[t].now <= clock
  BY DEF IInv, TypeOK, ThreadInv, Fits, Call
<1>1. ASSUME NEW k \in Keys, ttl_cache_get(t, k)
      PROVE  LiveStep
  <2>1. CASE store' = store \/ (Holds(k) /\ store' = TtlRenewed(k, clock))
    BY <2>1, TtlRenews, StayLive
  <2>2. ASSUME NEW c, Stale(k, clock), TakeOut(t, {k}, c)
        PROVE  LiveStep
    BY SMTT(30), <1>0, <2>2, StaleLive
  <2> QED
    BY <1>1, <2>1, <2>2 DEF ttl_cache_get, Live
<1>2. ASSUME NEW k \in Keys, ttl_cache_get_with_expiry_status(t, k)
      PROVE  LiveStep
  <2>1. store' = store \/ (Holds(k) /\ store' = TtlRenewed(k, clock))
    BY <1>2 DEF ttl_cache_get_with_expiry_status, Live
  <2> QED
    BY <2>1, TtlRenews, StayLive
<1>3. ASSUME NEW k \in Keys, ttl_cache_set(t, k)
      PROVE  LiveStep
  <2>1. store' = store
    BY <1>3 DEF ttl_cache_set
  <2> QED
    BY <2>1, StayLive
<1>4. ASSUME NEW k \in Keys, NEW op \in {"remove", "remove_entry"}, ttl_cache_remove(t, k, op)
      PROVE  LiveStep
  <2>1. Begin(t)
    BY <1>4 DEF ttl_cache_remove
  <2>2. CASE store' = store
    BY <2>2, StayLive
  <2>3. CASE Holds(k) /\ TakesOne(t, k, EntryCall(op, k, clock, store[k].val, store[k].exp))
    BY <2>1, <2>3, RemoveEntryLive
  <2> QED
    BY <1>4, <2>2, <2>3 DEF ttl_cache_remove, EntryCall, TakesOne
<1>5. CASE TtlRecheck(t)
  <2>1. call[t].key \in Keys
    BY DEF IInv, TypeOK, Call
  <2>2. store' = store \/ (Stale(call[t].key, call[t].now) /\ TakeOut(t, {call[t].key}, call[t]))
    BY <1>5 DEF TtlRecheck
  <2> QED
    BY <1>0, <2>1, <2>2, StayLive, StaleLive
<1>6. CASE TtlSetWrite(t)
  <2>1. call[t].key \in Keys
    BY DEF IInv, TypeOK, Call
  <2>2. PICK e \in Entry : e = [val |-> call[t].val, exp |-> call[t].exp]
    BY ArgumentsStored
  <2>3. Placed(call[t].key, e)
    BY <1>6, <2>2 DEF TtlSetWrite, Placed
  <2> QED
    BY <2>1, <2>3, PutLive
<1>7. CASE ttl_evict(t)
  <2>1. Dooms(t, "evict", TtlOverdue(t))
    BY <1>0, <1>7, SweepMoves, StillExpired DEF ttl_evict, Dooms, TtlOverdue, InShard
  <2> QED
    BY <2>1, SweepLive
<1>8. CASE ttl_retain(t)
  <2>1. Dooms(t, "retain", TtlOverdue(t) \cup (InShard(t) \ call[t].keep))
    BY <1>0, <1>8, SweepMoves, StillExpired DEF ttl_retain, Dooms, TtlOverdue, InShard
  <2> QED
    BY <2>1, SweepLive
<1>9. CASE ttl_cache_clear_with_on_evict(t)
  <2>1. Dooms(t, "drain", InShard(t))
    BY <1>9, SweepMoves DEF ttl_cache_clear_with_on_evict, Dooms
  <2> QED
    BY <2>1, SweepLive
<1> QED
  BY <1>1, <1>2, <1>3, <1>4, <1>5, <1>6, <1>7, <1>8, <1>9

\* The store whose values say when they expire: a second look asks again.
LEMMA ExpiringLive ==
  ASSUME IInv, ExpiringNext
  PROVE  LiveStep
<1> SUFFICES ASSUME NEW t \in Threads,
                    \/ \E k \in Keys :
                          \/ expiring_cache_get(t, k) \/ expiring_cache_get_with_expiry_status(t, k)
                          \/ \E exp \in Expiries : expiring_cache_set(t, k, exp)
                          \/ \E op \in {"remove", "remove_entry"} : expiring_cache_remove(t, k, op)
                    \/ ExpiringRecheck(t)
                    \/ expiring_evict(t) \/ expiring_retain(t) \/ expiring_cache_clear_with_on_evict(t)
             PROVE  LiveStep
  BY DEF ExpiringNext
<1>0. clock \in Nat
  BY DEF IInv, TypeOK
<1>1. ASSUME NEW k \in Keys, expiring_cache_get(t, k) \/ expiring_cache_get_with_expiry_status(t, k)
      PROVE  LiveStep
  <2>1. store' = store
    BY <1>1 DEF expiring_cache_get, expiring_cache_get_with_expiry_status
  <2> QED
    BY <2>1, StayLive
<1>2. ASSUME NEW k \in Keys, NEW exp \in Expiries, expiring_cache_set(t, k, exp)
      PROVE  LiveStep
  <2>1. PICK e \in Entry : e = [val |-> ops + 1, exp |-> exp]
    BY ValueStored
  <2>2. Placed(k, e)
    BY <1>2, <2>1 DEF expiring_cache_set, Placed
  <2> QED
    BY <2>2, PutLive
<1>3. ASSUME NEW k \in Keys, NEW op \in {"remove", "remove_entry"}, expiring_cache_remove(t, k, op)
      PROVE  LiveStep
  <2>1. Begin(t)
    BY <1>3 DEF expiring_cache_remove
  <2>2. CASE store' = store
    BY <2>2, StayLive
  <2>3. CASE Holds(k) /\ TakesOne(t, k, EntryCall(op, k, clock, store[k].val, store[k].exp))
    BY <2>1, <2>3, RemoveEntryLive
  <2> QED
    BY <1>3, <2>2, <2>3 DEF expiring_cache_remove, EntryCall, TakesOne
<1>4. CASE ExpiringRecheck(t)
  <2>1. call[t].key \in Keys
    BY DEF IInv, TypeOK, Call
  <2>2. store' = store \/ (Stale(call[t].key, clock) /\ TakeOut(t, {call[t].key}, call[t]))
    BY <1>4 DEF ExpiringRecheck, AskPanics
  <2> QED
    BY SMTT(30), <1>0, <2>1, <2>2, StayLive, StaleLive
<1>5. CASE expiring_evict(t)
  <2>1. Dooms(t, "evict", ExpiringOverdue(t))
    BY <1>5, SweepMoves DEF expiring_evict, Dooms, ExpiringOverdue
  <2> QED
    BY <2>1, SweepLive
<1>6. CASE expiring_retain(t)
  <2>1. Dooms(t, "retain", ExpiringOverdue(t) \cup (InShard(t) \ call[t].keep))
    BY <1>6, SweepMoves DEF expiring_retain, Dooms, ExpiringOverdue
  <2> QED
    BY <2>1, SweepLive
<1>7. CASE expiring_cache_clear_with_on_evict(t)
  <2>1. Dooms(t, "drain", InShard(t))
    BY <1>7, SweepMoves DEF expiring_cache_clear_with_on_evict, Dooms
  <2> QED
    BY <2>1, SweepLive
<1> QED
  BY <1>1, <1>2, <1>3, <1>4, <1>5, <1>6, <1>7

\* The bounded store.
LEMMA LruLive ==
  ASSUME CountingLaws, IInv, kind = "Lru", LruNext
  PROVE  LiveStep
<1>0. kind \in LruKinds
  BY DEF LruKinds
<1>1. ASSUME NEW t \in Threads, NEW k \in Keys, lru_cache_get(t, k)
      PROVE  LiveStep
  BY <1>1, StayLive DEF lru_cache_get
<1>2. ASSUME NEW t \in Threads, NEW k \in Keys, lru_cache_set(t, k)
      PROVE  LiveStep
  <2> DEFINE e == [val |-> ops + 1, exp |-> Never]
  <2>1. e \in Entry
    BY SMTT(30) DEF Entry, IInv, TypeOK
  <2>2. PICK outcome \in SetOutcomes(k) : InnerSet(k, e, outcome, 0)
    BY <1>2 DEF lru_cache_set
  <2>3. UNCHANGED capacity
    BY <1>2 DEF lru_cache_set, LruFrame, bounds
  <2> HIDE DEF e
  <2> QED
    BY <1>0, <2>1, <2>2, <2>3, InnerSetLive
<1>3. ASSUME NEW t \in Threads, NEW k \in Keys, lru_cache_remove_entry(t, k)
      PROVE  LiveStep
  <2>1. Begin(t)
    BY <1>3 DEF lru_cache_remove_entry
  <2>2. CASE store' = store
    BY <2>2, StayLive
  <2>3. CASE Holds(k) /\ TakesOne(t, k, ValueCall("remove_entry", k, store[k].val))
    <3>1. PICK c : c = ValueCall("remove_entry", k, store[k].val) /\ OnKey(c, k) /\ c.op = "remove_entry"
      BY <2>3, ValueCallOn
    <3> QED
      BY <2>1, <2>3, <3>1, RemoveLive
  <2> QED
    BY <1>3, <2>2, <2>3 DEF lru_cache_remove_entry, ValueCall, TakesOne
<1>4. ASSUME NEW t \in Threads, lru_retain(t)
      PROVE  LiveStep
  <2>1. Dooms(t, "retain", InShard(t) \ call[t].keep)
    BY <1>4, SweepMoves DEF lru_retain, Dooms
  <2> QED
    BY <2>1, SweepLive
<1>5. ASSUME NEW t \in Threads, lru_cache_clear_with_on_evict(t)
      PROVE  LiveStep
  <2>1. Dooms(t, "drain", InShard(t))
    BY <1>5, SweepMoves DEF lru_cache_clear_with_on_evict, Dooms
  <2> QED
    BY <2>1, SweepLive
<1> QED
  BY <1>0, <1>1, <1>2, <1>3, <1>4, <1>5, LruCommonLive DEF LruNext

\* The bounded store with one TTL: a get judges by an instant before its lock.
LEMMA LruTtlLive ==
  ASSUME CountingLaws, IInv, kind = "LruTtl", LruTtlNext
  PROVE  LiveStep
<1>0. kind \in LruKinds /\ \A t \in Threads : call[t].now \in Nat /\ call[t].now <= clock /\ call[t].key \in Keys
  BY DEF LruKinds, IInv, TypeOK, ThreadInv, Fits, Call
<1>1. ASSUME NEW t \in Threads, NEW k \in Keys,
             lru_ttl_cache_set(t, k) \/ \E op \in {"get", "status"} : StartGet(t, k, op)
      PROVE  LiveStep
  <2>1. store' = store
    BY <1>1 DEF lru_ttl_cache_set, StartGet
  <2> QED
    BY <2>1, StayLive
<1>2. ASSUME NEW t \in Threads, lru_ttl_cache_get(t) \/ lru_ttl_cache_get_with_expiry_status(t)
      PROVE  LiveStep
  <2>1. PICK k \in Keys, now \in Nat : k = call[t].key /\ now = call[t].now /\ now <= clock
    BY <1>0
  <2>2. \/ store' = store
        \/ Holds(k) /\ store' = LruTtlRenewed(k, now)
        \/ Stale(k, now) /\ TakeOut(t, {k}, call[t])
    BY <1>2, <2>1 DEF lru_ttl_cache_get, lru_ttl_cache_get_with_expiry_status, Live
  <2> QED
    BY <2>1, <2>2, LruTtlRenews, StayLive, StaleLive
<1>3. ASSUME NEW t \in Threads, LruTtlSetWrite(t)
      PROVE  LiveStep
  <2>1. PICK e \in Entry : e = [val |-> call[t].val, exp |-> call[t].exp]
    BY ArgumentsStored
  <2>2. PICK outcome \in SetOutcomes(call[t].key) : InnerSet(call[t].key, e, outcome, 0)
    BY <1>3, <2>1 DEF LruTtlSetWrite
  <2>3. UNCHANGED capacity
    BY <1>3 DEF LruTtlSetWrite, LruTtlFrame, bounds
  <2> QED
    BY <1>0, <2>2, <2>3, InnerSetLive
<1>4. ASSUME NEW t \in Threads, NEW k \in Keys, NEW op \in {"remove", "remove_entry"}, lru_ttl_cache_remove(t, k, op)
      PROVE  LiveStep
  <2>1. Begin(t)
    BY <1>4 DEF lru_ttl_cache_remove
  <2>2. CASE store' = store
    BY <2>2, StayLive
  <2>3. CASE Holds(k) /\ TakesOne(t, k, EntryCall(op, k, clock, store[k].val, store[k].exp))
    BY <2>1, <2>3, RemoveEntryLive
  <2> QED
    BY <1>4, <2>2, <2>3 DEF lru_ttl_cache_remove, EntryCall, TakesOne
<1>5. ASSUME NEW t \in Threads, lru_ttl_evict(t)
      PROVE  LiveStep
  <2>1. Dooms(t, "evict", LruTtlOverdue(t))
    BY <1>0, <1>5, SweepMoves, StillExpired DEF lru_ttl_evict, Dooms, LruTtlOverdue, InShard
  <2> QED
    BY <2>1, SweepLive
<1>6. ASSUME NEW t \in Threads, lru_ttl_retain(t)
      PROVE  LiveStep
  <2>1. Dooms(t, "retain", LruTtlOverdue(t) \cup (InShard(t) \ call[t].keep))
    BY <1>0, <1>6, SweepMoves, StillExpired DEF lru_ttl_retain, Dooms, LruTtlOverdue, InShard
  <2> QED
    BY <2>1, SweepLive
<1>7. ASSUME NEW t \in Threads, lru_ttl_cache_clear_with_on_evict(t)
      PROVE  LiveStep
  <2>1. Dooms(t, "drain", InShard(t))
    BY <1>7, SweepMoves DEF lru_ttl_cache_clear_with_on_evict, Dooms
  <2> QED
    BY <2>1, SweepLive
<1> QED
  BY <1>0, <1>1, <1>2, <1>3, <1>4, <1>5, <1>6, <1>7, LruCommonLive DEF LruTtlNext

\* The bounded store whose values say when they expire.
LEMMA ExpiringLruLive ==
  ASSUME CountingLaws, IInv, kind = "ExpiringLru", ExpiringLruNext
  PROVE  LiveStep
<1>0. kind \in LruKinds /\ clock \in Nat
  BY DEF LruKinds, IInv, TypeOK
<1>1. ASSUME NEW t \in Threads, NEW k \in Keys,
             expiring_lru_cache_get(t, k) \/ expiring_lru_cache_get_with_expiry_status(t, k)
      PROVE  LiveStep
  <2>1. store' = store \/ \E c : Stale(k, clock) /\ TakeOut(t, {k}, c)
    BY <1>1 DEF expiring_lru_cache_get, expiring_lru_cache_get_with_expiry_status
  <2> QED
    BY SMTT(30), <1>0, <2>1, StayLive, StaleLive
<1>2. ASSUME NEW t \in Threads, NEW k \in Keys, NEW exp \in Expiries, expiring_lru_cache_set(t, k, exp)
      PROVE  LiveStep
  <2>1. PICK e \in Entry : e = [val |-> ops + 1, exp |-> exp]
    BY ValueStored
  <2>2. PICK outcome \in SetOutcomes(k) : \E extra : InnerSet(k, e, outcome, extra)
    BY <1>2, <2>1 DEF expiring_lru_cache_set
  <2>3. UNCHANGED capacity
    BY <1>2 DEF expiring_lru_cache_set, ExpiringLruFrame, bounds
  <2> QED
    BY <1>0, <2>2, <2>3, InnerSetLive
<1>3. ASSUME NEW t \in Threads, NEW k \in Keys, NEW op \in {"remove", "remove_entry"},
             expiring_lru_cache_remove(t, k, op)
      PROVE  LiveStep
  <2>1. Begin(t)
    BY <1>3 DEF expiring_lru_cache_remove
  <2>2. CASE store' = store
    BY <2>2, StayLive
  <2>3. CASE Holds(k) /\ TakesOne(t, k, EntryCall(op, k, clock, store[k].val, store[k].exp))
    BY <2>1, <2>3, RemoveEntryLive
  <2> QED
    BY <1>3, <2>2, <2>3 DEF expiring_lru_cache_remove, EntryCall, TakesOne
<1>4. ASSUME NEW t \in Threads, expiring_lru_evict(t)
      PROVE  LiveStep
  <2>1. Dooms(t, "evict", ExpiringLruOverdue(t))
    BY <1>4, SweepMoves DEF expiring_lru_evict, Dooms, ExpiringLruOverdue
  <2> QED
    BY <2>1, SweepLive
<1>5. ASSUME NEW t \in Threads, expiring_lru_retain(t)
      PROVE  LiveStep
  <2>1. Dooms(t, "retain", ExpiringLruOverdue(t) \cup (InShard(t) \ call[t].keep))
    BY <1>5, SweepMoves DEF expiring_lru_retain, Dooms, ExpiringLruOverdue
  <2> QED
    BY <2>1, SweepLive
<1>6. ASSUME NEW t \in Threads, expiring_lru_cache_clear_with_on_evict(t)
      PROVE  LiveStep
  <2>1. Dooms(t, "drain", InShard(t))
    BY <1>6, SweepMoves DEF expiring_lru_cache_clear_with_on_evict, Dooms
  <2> QED
    BY <2>1, SweepLive
<1> QED
  BY <1>0, <1>1, <1>2, <1>3, <1>4, <1>5, <1>6, LruCommonLive DEF ExpiringLruNext

-----------------------------------------------------------------------------
(* Counting, from the library's theorems. *)

Lib == INSTANCE FiniteSetTheorems

\* The library's theorems speak of the same finite sets and cardinalities.
LEMMA SameCount ==
  \A S : (Lib!IsFiniteSet(S) <=> IsFiniteSet(S)) /\ Lib!Cardinality(S) = Cardinality(S)
  BY DEF IsFiniteSet, Cardinality, Lib!IsFiniteSet, Lib!Cardinality

\* Finite sets are counted as the lemmas assume.
LEMMA CountingLawsHold == CountingLaws
<1>1. EmptyLaw
  BY Lib!FS_EmptySet, SameCount DEF EmptyLaw
<1>2. IntervalLaw
  <2>1. ASSUME NEW n \in Nat
        PROVE  IsFiniteSet(1..n) /\ Cardinality(1..n) = n
    BY Lib!FS_Interval, IntervalSize, SameCount
  <2> QED
    BY <2>1 DEF IntervalLaw
<1>3. SubsetLaw
  <2>1. ASSUME NEW S, IsFiniteSet(S)
        PROVE  Cardinality(S) \in Nat
    BY <2>1, Lib!FS_CardinalityType, SameCount
  <2>2. ASSUME NEW S, IsFiniteSet(S), NEW T \in SUBSET S
        PROVE  /\ IsFiniteSet(T) /\ IsFiniteSet(S \ T)
               /\ Cardinality(T) \in Nat /\ Cardinality(S \ T) \in Nat
               /\ Cardinality(S) = Cardinality(S \ T) + Cardinality(T)
    <3>1. IsFiniteSet(T) /\ S \cap T = T
      BY <2>2, Lib!FS_Subset, SameCount
    <3>2. IsFiniteSet(S \ T) /\ Cardinality(S \ T) = Cardinality(S) - Cardinality(T)
      <4>1. Lib!IsFiniteSet(S \ T) /\ Lib!Cardinality(S \ T) = Lib!Cardinality(S) - Lib!Cardinality(S \cap T)
        BY <2>2, Lib!FS_Difference, SameCount
      <4>2. Lib!Cardinality(S \cap T) = Cardinality(T)
        BY <3>1, SameCount
      <4> QED
        BY <4>1, <4>2, SameCount
    <3>3. Cardinality(S) \in Nat /\ Cardinality(T) \in Nat /\ Cardinality(S \ T) \in Nat
      BY <2>1, <2>2, <3>1, <3>2
    <3> QED
      BY <3>1, <3>2, <3>3, CountParts
  <2> QED
    BY <2>1, <2>2 DEF SubsetLaw
<1>4. UnionLaw
  <2>1. ASSUME NEW S, NEW T, IsFiniteSet(S), IsFiniteSet(T)
        PROVE  IsFiniteSet(S \cup T)
    BY <2>1, Lib!FS_Union, SameCount
  <2> QED
    BY <2>1 DEF UnionLaw
<1>5. AddLaw
  <2>1. ASSUME NEW S, NEW x, IsFiniteSet(S), x \notin S
        PROVE  IsFiniteSet(S \cup {x}) /\ Cardinality(S \cup {x}) = Cardinality(S) + 1
    BY <2>1, Lib!FS_AddElement, SameCount
  <2> QED
    BY <2>1 DEF AddLaw
<1>6. OneToOneLaw
  <2>1. ASSUME NEW S, NEW T, NEW f, IsFiniteSet(S), OneToOne(f, S, T)
        PROVE  IsFiniteSet(T) /\ Cardinality(T) = Cardinality(S)
    <3>1. f \in Lib!Bijection(S, T)
      BY <2>1 DEF OneToOne, Lib!Bijection, Lib!Injection, Lib!Surjection, Lib!IsInjective
    <3> QED
      BY <2>1, <3>1, Lib!FS_Bijection, SameCount DEF Lib!ExistsBijection
  <2> QED
    BY <2>1 DEF OneToOneLaw
<1> QED
  BY <1>1, <1>2, <1>3, <1>4, <1>5, <1>6 DEF CountingLaws

-----------------------------------------------------------------------------
(* What the invariant shows. *)

\* The inductive invariant holds throughout.
THEOREM Invariance == Spec => []IInv
<1>1. MCInit => IInv
  BY CountingLawsHold, InitIInv
<1>2. IInv /\ [Next]_vars => IInv'
  BY CountingLawsHold, NextIInv
<1> QED
  BY <1>1, <1>2, PTL DEF Spec

\* Every entry that a shard took in is still there, was cleared silently, was
\* overwritten, was dropped undecided by a panic, is in the counter of evictions
\* or was when it was reset, or is in the hands of a thread about to count it.
THEOREM AccountedThroughout == Spec => []Accounted
<1>1. IInv => Accounted
  BY DEF IInv
<1> QED
  BY <1>1, Invariance, PTL

\* on_evict hears of a value once, and of none that the map still holds: a value
\* reported or in the hands of a thread is neither in the map nor in the hands
\* of another.
THEOREM ReportedOnceThroughout == Spec => []ReportedOnce
<1>1. IInv => ReportedOnce
  BY IInvReportedOnce
<1> QED
  BY <1>1, Invariance, PTL

\* A shard of a bounded store keeps to its capacity, unless a panic of a callback
\* cut its shrinking short and no set has finished it since.
THEOREM ShardWithinCapacityThroughout == Spec => []ShardWithinCapacity
<1>1. IInv => ShardWithinCapacity
  BY DEF IInv
<1> QED
  BY <1>1, Invariance, PTL

\* While no resize runs, the published capacity is that of the shards together,
\* unless resizes overlapped or a panic cut one short.
THEOREM CapacityPublishedThroughout == Spec => []CapacityPublished
<1>1. IInv => CapacityPublished
  BY DEF IInv
<1> QED
  BY <1>1, Invariance, PTL

\* A live entry leaves a sharded store only by a call that asks for it, or to make
\* room in a shard that is full without it: a get or an evict never takes one out,
\* whatever other threads do between its look and its lock.
THEOREM LiveStaysThroughout == Spec => LiveStays
<1>1. IInv /\ [Next]_vars => [LiveStep]_vars
  BY CountingLawsHold, CommonLive, UnboundLive, TtlLive, ExpiringLive, LruLive, LruTtlLive, ExpiringLruLive DEF Next
<1>2. [LiveStep]_vars
          => [\A k \in Keys : Live(k, clock) /\ store'[k] = Absent
                                  => StillFull(k) \/ \E t \in Threads : MayRemove(t, k)]_vars
  BY DEF LiveStep
<1> QED
  BY <1>1, <1>2, Invariance, PTL DEF Spec, LiveStays
=============================================================================
