--------------------------- MODULE ShardedLruStore ---------------------------
(***************************************************************************)
(* What the bounded sharded stores share: each shard is an LruCache.       *)
(*                                                                         *)
(* The callbacks of a capacity eviction run under the shard's lock, where  *)
(* nobody else can look, so the whole loop is one step; a callback that    *)
(* panics ends it after any of the victims.                                *)
(***************************************************************************)
EXTENDS ShardedStore, Folds

\* Mutant: the total is what was asked for, not what the shards add up to.
cap_as_asked(total) ==
    LET share == (total + Shards - 1) \div Shards
        per_shard == IF Shards > 1 /\ share < MinPerShard THEN MinPerShard ELSE share
    IN  [per_shard |-> per_shard, total |-> total]

\* The share of a shard is rounded up, and the total is their sum.
per_shard_cap_from_total(total) ==
    LET share == (total + Shards - 1) \div Shards
        per_shard == IF Shards > 1 /\ share < MinPerShard THEN MinPerShard ELSE share
    IN  [per_shard |-> per_shard, total |-> Shards * per_shard]

\* How the loop over `excess` victims may end: after n of them, by a panic or
\* because it is done.
Outcomes(ord, cap) ==
    LET excess == IF Len(ord) > cap THEN Len(ord) - cap ELSE 0 IN
    {[n |-> excess, panics |-> FALSE]} \cup [n : 1..excess, panics : {TRUE}]

Victims(ord, n) == {ord[i] : i \in (Len(ord) - n + 1)..Len(ord)}

\* The per-shard bounds a builder accepts: the share of a max_size, or a
\* per_shard_max_size.  Zero is refused.
resolve_per_shard_cap ==
    {per_shard_cap_from_total(n).per_shard : n \in 1..MaxSize} \cup 1..MaxSize

Bounded ==
    \E cap \in resolve_per_shard_cap :
       capacity = [s \in ShardIds |-> cap] /\ total_capacity = Shards * cap

\* check_capacity of the shard s, whose order is `ord` over the entries of
\* `contents`: n victims leave it, each counted before it is reported, and
\* `extra` more entries are counted.
Trim(s, ord, contents, n, extra) ==
    /\ order' = [order EXCEPT ![s] = SubSeq(ord, 1, Len(ord) - n)]
    /\ store' = [k \in Keys |-> IF k \in Victims(ord, n) THEN Absent ELSE contents[k]]
    /\ evictions' = [evictions EXCEPT ![s] = @ + n + extra]
    /\ notified' = notified \cup {contents[k].val : k \in Victims(ord, n)}

\* Mutant: the loop leaves one entry too many.
TrimLate(k) == Outcomes(Front(k), capacity[hasher[k]] + 1)

SetOutcomes(k) == Outcomes(Front(k), capacity[hasher[k]])

\* cache_set of the inner store, with an outcome of its capacity loop.
InnerSet(k, e, outcome, extra) ==
    /\ Trim(hasher[k], Front(k), [store EXCEPT ![k] = e], outcome.n, extra)
    /\ cut' = IF outcome.panics THEN cut ELSE cut \ {hasher[k]}
    /\ entered' = Counted(entered, k, 1)

\* Mutant: the new total is published before the shards have their bounds.
PublishFirst(t, n) ==
    /\ Begin(t)
    /\ n > 0
    /\ Enter(t, "sweep", [NoCall EXCEPT !.op = "resize", !.size = n])
    /\ mixed' = (mixed \/ \E u \in Threads : call[u].op = "resize")
    /\ total_capacity' = per_shard_cap_from_total(n).total
    /\ UNCHANGED <<aside, clock, store, order, capacity, settings, counters, ledger, cut>>

\* set_max_size and try_set_max_size; zero is refused.
set_max_size(t, n) ==
    /\ Begin(t)
    /\ n > 0
    /\ Enter(t, "sweep", [NoCall EXCEPT !.op = "resize", !.size = n])
    /\ mixed' = (mixed \/ \E u \in Threads : call[u].op = "resize")
    /\ UNCHANGED <<aside, clock, store, order, bounds, settings, counters, ledger, cut>>

\* One shard adopts its new bound and is trimmed to it.
ResizeShard(t) ==
    /\ AtShard(t, "resize")
    /\ LET s == call[t].shard
           cap == per_shard_cap_from_total(call[t].size).per_shard IN
       \E outcome \in Outcomes(order[s], cap) :
          /\ capacity' = [capacity EXCEPT ![s] = cap]
          /\ Trim(s, order[s], store, outcome.n, 0)
          /\ cut' = IF Len(order[s]) - outcome.n > cap THEN cut \cup {s} ELSE cut \ {s}
          /\ \/ outcome.panics /\ Return(t, 0) /\ mixed' = TRUE
             \/ ~outcome.panics /\ Enter(t, "sweep", NextShard(t)) /\ UNCHANGED mixed
    /\ UNCHANGED <<aside, clock, total_capacity, settings, hits, misses, ops, entered, silent, replaced, lost, zeroed>>

\* The new total is published when every shard has its bound.
Publish(t) ==
    /\ pc[t] = "sweep" /\ call[t].op = "resize" /\ call[t].shard = Shards
    /\ total_capacity' = per_shard_cap_from_total(call[t].size).total
    /\ Return(t, total_capacity)
    /\ UNCHANGED <<aside, clock, store, order, capacity, settings, counters, ops, ledger, shrinks>>

-----------------------------------------------------------------------------

\* The new store of a copy_from: another bound and hasher.
BoundedCopies ==
    {[EmptyCopy EXCEPT !.hasher = h, !.capacity = [s \in ShardIds |-> cap], !.total_capacity = Shards * cap] :
        h \in Hashers, cap \in resolve_per_shard_cap}

\* cache_set of the new store, for a key it does not hold.
Pushed(k, c) ==
    LET s == c.hasher[k]
        ord == <<k>> \o c.order[s]
        gone == IF Len(ord) > c.capacity[s] THEN {ord[Len(ord)]} ELSE {}
    IN [c EXCEPT !.order[s] = Pick(ord, {i \in DOMAIN ord : ord[i] \notin gone}),
                 !.store = [j \in Keys |-> IF j \in gone THEN Absent
                                           ELSE IF j = k THEN store[k] ELSE c.store[j]],
                 !.evictions[s] = @ + Cardinality(gone)]

\* Mutant: the entries are inserted in the order iter_order_raw yields them.
CopiedRecentFirst(t, keys) ==
    LET ord == order[call[t].shard]
        Last(I) == CHOOSE i \in I : \A j \in I : i >= j
    IN  MapThenFoldSet(Pushed, copy, LAMBDA i : ord[i], Last, {i \in DOMAIN ord : ord[i] \in keys})

\* Those entries of a shard that are in `keys`, inserted least recent first.
Copied(t, keys) ==
    LET ord == order[call[t].shard]
        First(I) == CHOOSE i \in I : \A j \in I : i <= j
    IN  MapThenFoldSet(Pushed, copy, LAMBDA i : ord[i], First, {i \in DOMAIN ord : ord[i] \in keys})

LruCommon ==
    \E t \in Threads :
       \/ \E n \in 0..MaxSize : set_max_size(t, n)
       \/ ResizeShard(t) \/ Publish(t)
=============================================================================
