--------------------------- MODULE MCShardedStore ---------------------------
(***************************************************************************)
(* The six sharded stores, one per behaviour, over two keys in one or two  *)
(* shards; and a copy being made of one of them, over three keys.          *)
(***************************************************************************)
EXTENDS ShardedUnboundCache, ShardedTtlCache, ShardedExpiringCache,
        ShardedLruCache, ShardedLruTtlCache, ShardedExpiringLruCache, TLC

CONSTANTS k1, k2, k3,
          Deadlines     \* what is left of the lives of the entries to copy, or Never

MCHashers == {(k1 :> 0 @@ k2 :> 0), (k1 :> 0 @@ k2 :> 1)}

Built ==
    \/ kind = "Unbound" /\ unbound_build
    \/ kind = "Ttl" /\ ttl_build
    \/ kind = "Expiring" /\ expiring_build
    \/ kind = "Lru" /\ lru_build
    \/ kind = "LruTtl" /\ lru_ttl_build
    \/ kind = "ExpiringLru" /\ expiring_lru_build

MCInit == Init /\ Built

Next ==
    \/ Common
    \/ kind = "Unbound" /\ UnboundNext
    \/ kind = "Ttl" /\ TtlNext
    \/ kind = "Expiring" /\ ExpiringNext
    \/ kind = "Lru" /\ LruNext
    \/ kind = "LruTtl" /\ LruTtlNext
    \/ kind = "ExpiringLru" /\ ExpiringLruNext

Spec == MCInit /\ [][Next]_vars

\* No guard and no property of the run reads the hit and miss counters or what
\* the calls returned.
View == <<aside, clock, store, order, bounds, settings, evictions, pc, call, removed, ops, ledger, shrinks>>

Symmetry == Permutations(Threads)

-----------------------------------------------------------------------------
(* deep_clone and copy_from, while another thread uses the store.  Each key *)
(* has been set once, in the order of Filling, before the behaviour starts. *)

Filling == <<k1, k2, k3>>

CopyHashers == {[k \in Keys |-> IF k \in second THEN 1 ELSE 0] : second \in {{}, {k2}}}

Filled(exps) ==
    /\ store = [k \in Keys |-> [val |-> CHOOSE i \in 1..3 : Filling[i] = k, exp |-> exps[k]]]
    /\ order = [s \in ShardIds |->
                   IF kind \notin LruKinds THEN <<>>
                   ELSE Pick(<<k3, k2, k1>>, {i \in 1..3 : hasher[<<k3, k2, k1>>[i]] = s})]
    /\ entered = [s \in ShardIds |-> Cardinality({k \in Keys : hasher[k] = s})] /\ ops = 3

CopyInit ==
    /\ Unused
    /\ \E exps \in [Keys -> IF kind \in TtlKinds \cup ExpiringKinds THEN Deadlines ELSE {Never}] :
          exps[k2] = Never /\ Filled(exps)
    /\ Built
    /\ \A s \in ShardIds : kind \in LruKinds => Len(order[s]) <= capacity[s]

Copies(t) ==
    \/ kind = "Unbound" /\ (unbound_deep_clone(t) \/ unbound_copy_from(t))
    \/ kind = "Ttl" /\ (ttl_deep_clone(t) \/ ttl_copy_from(t))
    \/ kind = "Expiring" /\ (expiring_deep_clone(t) \/ expiring_copy_from(t))
    \/ kind = "Lru" /\ (lru_deep_clone(t) \/ lru_copy_from(t))
    \/ kind = "LruTtl" /\ (lru_ttl_deep_clone(t) \/ copy_from_lru_ttl(t))
    \/ kind = "ExpiringLru" /\ (expiring_lru_deep_clone(t) \/ expiring_lru_copy_from(t))
    \/ CopyDone(t) \/ CopyEnds(t)

Copying == \E t \in Threads : pc[t] \in {"copy", "copied"}

\* Bound: the copy is the first call, and what is done after it is left out.
CopyNext ==
    \/ (ops = 3 \/ Copying) /\ \E t \in Threads : Copies(t)
    \/ Copying /\ Next
    \/ ops > 3 /\ ~Copying /\ UNCHANGED vars

CopySpec == CopyInit /\ [][CopyNext]_vars

CopyView == <<View, copy>>
=============================================================================
