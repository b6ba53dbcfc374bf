------------------------- MODULE ShardedStoreProofs -------------------------
(***************************************************************************)
(* What the six sharded stores keep true, for any number of threads, keys  *)
(* and shards.                                                             *)
(*                                                                         *)
(* Every step of every store is one of a few changes, seen from three      *)
(* sides: what it does to the values and their accounts, to the orders of  *)
(* the shards, and to the bounds.  Each side has its part of the invariant *)
(* and its changes.                                                        *)
(***************************************************************************)
EXTENDS ShardedLruStore, TLAPS

Entry == [val : Nat, exp : Nat \cup {Never}]

Kinds == {"Unbound", "Ttl", "Expiring"} \cup LruKinds

Labels == {"idle", "sweep", "recheck", "look", "write", "count", "notify"}

Ops == {"none", "get", "status", "set", "remove", "remove_entry",
        "retain", "drain", "clear", "reset", "evict", "resize"}

Call == [op : Ops, key : Keys, now : Nat, refresh : BOOLEAN, val : Nat,
         exp : Nat \cup {Never}, shard : Nat, keep : SUBSET Keys, size : Nat]

Tally == [ShardIds -> Nat]

TypeOK ==
    /\ kind \in Kinds /\ hasher \in [Keys -> ShardIds]
    /\ clock \in Nat /\ ops \in Nat /\ ttl \in Nat /\ refresh \in BOOLEAN
    /\ store \in [Keys -> Entry \cup {Absent}]
    /\ order \in [ShardIds -> Seq(Keys)]
    /\ capacity \in Tally
    /\ evictions \in Tally
    /\ pc \in [Threads -> Labels] /\ call \in [Threads -> Call]
    /\ removed \in [Threads -> SUBSET Nat]
    /\ entered \in Tally /\ silent \in Tally /\ replaced \in Tally /\ lost \in Tally /\ zeroed \in Tally
    /\ notified \in SUBSET Nat

\* A thread that is somewhere has the arguments that belong there.
Fits(label, c) ==
    /\ label = "idle" => c = NoCall
    /\ c.op = "resize" => label = "sweep"
    /\ label \in {"recheck", "write"} => c.op \in {"get", "set"}
    /\ label = "count" => kind # "Unbound" /\ (c.op \in SweepOps => c.shard # 0)
    /\ c.now <= clock /\ c.shard <= Shards

ThreadInv == \A t \in Threads : Fits(pc[t], call[t])

\* Where a value may be: in the map, in the hands of the thread that took it
\* out, in those of a thread about to store it, or reported.
Held(k, v) == Holds(k) /\ store[k].val = v
InHand(t, v) == v \in removed[t]
ToStore(t, v) == pc[t] = "write" /\ call[t].val = v

\* A value is in at most one of these places, and is the number of a call.
OnePlace(v) ==
    /\ \A k, j \in Keys : Held(k, v) /\ Held(j, v) => k = j
    /\ \A k \in Keys : Held(k, v) =>
          v \in 1..ops /\ v \notin notified /\ \A t \in Threads : ~InHand(t, v) /\ ~ToStore(t, v)
    /\ v \in notified => v \in 1..ops /\ \A t \in Threads : ~InHand(t, v) /\ ~ToStore(t, v)
    /\ \A t \in Threads : InHand(t, v) \/ ToStore(t, v) => v \in 1..ops
    /\ \A t, u \in Threads :
          /\ ~(InHand(t, v) /\ ToStore(u, v))
          /\ InHand(t, v) /\ InHand(u, v) => t = u
          /\ ToStore(t, v) /\ ToStore(u, v) => t = u

ValueInv ==
    /\ \A v \in Nat : OnePlace(v)
    /\ \A t \in Threads : removed[t] # {} => pc[t] \in {"count", "notify"}

HeldIn(s) == {k \in Keys : hasher[k] = s /\ Holds(k)}

\* The sequence has every key of the set, once.
Lists(ord, keys) ==
    /\ \A i \in DOMAIN ord : ord[i] \in keys
    /\ \A k \in keys : \E i \in DOMAIN ord : ord[i] = k
    /\ \A i, j \in DOMAIN ord : ord[i] = ord[j] => i = j

OrderInv == kind \in LruKinds => \A s \in ShardIds : Lists(order[s], HeldIn(s))

Share(n) == per_shard_cap_from_total(n).per_shard

Resizing(t) == call[t].op = "resize"

\* While resizes do not overlap, the one that runs has set the bound of every
\* shard it has visited.
BoundInv ==
    kind \in LruKinds /\ ~mixed =>
        /\ \A t, u \in Threads : Resizing(t) /\ Resizing(u) => t = u
        /\ \A t \in Threads : Resizing(t) =>
              \A s \in ShardIds : s < call[t].shard => capacity[s] = Share(call[t].size)

IInv ==
    /\ TypeOK /\ ThreadInv
    /\ ValueInv /\ Accounted
    /\ OrderInv /\ ShardWithinCapacity
    /\ BoundInv /\ CapacityPublished

-----------------------------------------------------------------------------
(* Counting.  What the steps need to know of finite sets is assumed by the   *)
(* lemmas as CountingLaws, and proved from the library's theorems where the  *)
(* lemmas are put together, in ShardedCacheProofs: the provers are slow      *)
(* where the library's theorems are in scope.                                *)

EmptyLaw ==
    /\ IsFiniteSet({}) /\ Cardinality({}) = 0
    /\ \A S : IsFiniteSet(S) /\ Cardinality(S) = 0 => S = {}

IntervalLaw == \A n \in Nat : IsFiniteSet(1..n) /\ Cardinality(1..n) = n

SubsetLaw ==
    \A S : IsFiniteSet(S) =>
        /\ Cardinality(S) \in Nat
        /\ \A T \in SUBSET S :
              /\ IsFiniteSet(T) /\ IsFiniteSet(S \ T)
              /\ Cardinality(T) \in Nat /\ Cardinality(S \ T) \in Nat
              /\ Cardinality(S) = Cardinality(S \ T) + Cardinality(T)

UnionLaw ==
    \A S, T : IsFiniteSet(S) /\ IsFiniteSet(T) => IsFiniteSet(S \cup T)

AddLaw ==
    \A S, x : IsFiniteSet(S) /\ x \notin S =>
        IsFiniteSet(S \cup {x}) /\ Cardinality(S \cup {x}) = Cardinality(S) + 1

\* The function takes each member of T once.
OneToOne(f, S, T) ==
    /\ f \in [S -> T]
    /\ \A x, y \in S : f[x] = f[y] => x = y
    /\ \A y \in T : \E x \in S : f[x] = y

OneToOneLaw ==
    \A S, T, f : IsFiniteSet(S) /\ OneToOne(f, S, T) => IsFiniteSet(T) /\ Cardinality(T) = Cardinality(S)

\* What is picked are the elements at the positions, each once, in their order.
PicksAt(s, I, S) ==
    /\ Pick(s, I) \in Seq(S) /\ Len(Pick(s, I)) = Cardinality(I)
    /\ Cardinality(I) \in 0..Len(s)
    /\ \A p \in DOMAIN Pick(s, I) : Nth(I, p) \in I /\ Pick(s, I)[p] = s[Nth(I, p)]
    /\ \A p, q \in DOMAIN Pick(s, I) : Nth(I, p) = Nth(I, q) => p = q
    /\ \A i \in I : \E p \in DOMAIN Pick(s, I) : Nth(I, p) = i

CountingLaws ==
    EmptyLaw /\ IntervalLaw /\ SubsetLaw /\ UnionLaw /\ AddLaw /\ OneToOneLaw

-----------------------------------------------------------------------------
(* Threads. *)

\* Thread t goes to a label with the arguments c; the other threads stay.
Moves(t, label, c) ==
    /\ label \in Labels /\ c \in Call /\ Fits(label, c)
    /\ pc' = [pc EXCEPT ![t] = label]
    /\ call' = [call EXCEPT ![t] = c]

\* Most steps need no arithmetic and are Zenon's; the others name their prover.
USE Zenon

-----------------------------------------------------------------------------
(* Sums. *)

\* A counter that nothing is added to.
LEMMA PlusZero == \A a, n \in Nat : a + 0 = a /\ a + n + 0 = a + n
BY SMT

\* One of five.
LEMMA OneOfFive ==
  /\ 1 + 0 + 0 + 0 + 0 = 1 /\ 0 + 1 + 0 + 0 + 0 = 1 /\ 0 + 0 + 1 + 0 + 0 = 1
  /\ 0 + 0 + 0 + 1 + 0 = 1 /\ 0 + 0 + 0 + 0 + 1 = 1
BY SMT

\* The account of a shard: a total and what it consists of.
Sums(total, a, b, c, d, e, f, g) == total = a + b + c + d + e + f + g

\* Part of the first term is counted as evicted.
LEMMA FirstMoves ==
  ASSUME NEW total, NEW a, NEW b, NEW c, NEW d, NEW e, NEW f, NEW g, NEW n,
         Sums(total, a + n, b, c, d, e, f, g),
         a \in Nat, b \in Nat, c \in Nat, d \in Nat, e \in Nat, f \in Nat, g \in Nat, n \in Nat
  PROVE  Sums(total, a, b, c, d, e + n, f, g)
BY SMT DEF Sums

\* Part of the last term is counted as evicted.
LEMMA LastMoves ==
  ASSUME NEW total, NEW a, NEW b, NEW c, NEW d, NEW e, NEW f, NEW g, NEW n,
         Sums(total, a, b, c, d, e, f, g + n),
         a \in Nat, b \in Nat, c \in Nat, d \in Nat, e \in Nat, f \in Nat, g \in Nat, n \in Nat
  PROVE  Sums(total, a, b, c, d, e + n, f, g)
BY SMT DEF Sums

\* One more is added to one of five terms; then n of the first are counted as evicted.
Gains(a, rest, n, da, dc, dd, de, dg) ==
    /\ rest + n = a + da /\ da + dc + dd + de + dg = 1
    /\ rest \in Nat /\ n \in Nat
    /\ da \in Nat /\ dc \in Nat /\ dd \in Nat /\ de \in Nat /\ dg \in Nat

\* Such a gain is one of the total.
LEMMA OneMore ==
  ASSUME NEW total, NEW a, NEW b, NEW c, NEW d, NEW e, NEW f, NEW g, NEW rest, NEW n,
         NEW da, NEW dc, NEW dd, NEW de, NEW dg,
         Sums(total, a, b, c, d, e, f, g), Gains(a, rest, n, da, dc, dd, de, dg),
         a \in Nat, b \in Nat, c \in Nat, d \in Nat, e \in Nat, f \in Nat, g \in Nat
  PROVE  Sums(total + 1, rest, b, c + dc, d + dd, e + n + de, f, g + dg)
BY SMT DEF Sums, Gains

-----------------------------------------------------------------------------
(* Picking. *)

\* A part of a whole is no larger, and smaller when something is left over.
LEMMA PartBetween ==
  ASSUME NEW a \in Nat, NEW b \in Nat, NEW c, c = a + b
  PROVE  /\ c \in Nat /\ b \in 0..c
         /\ b # 0 => b \in 1..c
         /\ a # 0 => b < c
         /\ b = c => a = 0
  BY SMT

\* Positions are ordered.
LEMMA PlacesOrdered ==
  ASSUME NEW n \in Nat, NEW i \in 1..n, NEW j \in 1..n
  PROVE  (i < j \/ j < i \/ i = j) /\ ~(i < i)
  BY SMT

\* The positions up to i are some of the positions, i among them, and there are
\* more of them up to a later one.
LEMMA PlacesUpTo ==
  ASSUME NEW n \in Nat, NEW I \in SUBSET (1..n), NEW i \in I
  PROVE  /\ {k \in I : k <= i} \in SUBSET I /\ i \in {k \in I : k <= i}
         /\ \A j \in I : i < j => j \notin {k \in I : k <= i} /\ {k \in I : k <= i} \in SUBSET {k \in I : k <= j}
<1>1. i \in Nat /\ i <= i /\ I \in SUBSET Nat
  BY SMT
<1>2. \A j, k \in Nat : i < j => ~(j <= i) /\ (k <= i => k <= j)
  BY SMT, <1>1
<1> QED
  BY <1>1, <1>2

\* The positions and the elements of a sequence.
LEMMA SequenceParts ==
  ASSUME NEW S, NEW s \in Seq(S)
  PROVE  Len(s) \in Nat /\ DOMAIN s = 1..Len(s) /\ \A i \in DOMAIN s : s[i] \in S
  BY SMT

\* A sequence made of m elements.
LEMMA SequenceOf ==
  ASSUME NEW S, NEW m \in Nat, NEW s \in [1..m -> S]
  PROVE  s \in Seq(S) /\ Len(s) = m /\ DOMAIN s = 1..m
  BY SMT

\* A position is ranked by its place among the others, and no two alike.
LEMMA RankInjective ==
  ASSUME CountingLaws, NEW n \in Nat, NEW I \in SUBSET (1..n)
  PROVE  /\ IsFiniteSet(I) /\ Cardinality(I) \in Nat /\ Cardinality(I) \in 0..n
         /\ \A i \in I : Rank(I, i) \in 1..Cardinality(I)
         /\ \A i, j \in I : Rank(I, i) = Rank(I, j) => i = j
<1>1. IsFiniteSet(1..n) /\ Cardinality(1..n) = n
  BY DEF CountingLaws, IntervalLaw
<1>2. IsFiniteSet(I) /\ Cardinality(I) \in Nat /\ Cardinality(I) \in 0..n
  <2>1. /\ IsFiniteSet(I) /\ Cardinality(I) \in Nat /\ Cardinality((1..n) \ I) \in Nat
        /\ n = Cardinality((1..n) \ I) + Cardinality(I)
    BY <1>1 DEF CountingLaws, SubsetLaw
  <2> QED
    BY <2>1, PartBetween
<1> DEFINE upto(i) == {j \in I : j <= i}
<1>3. ASSUME NEW i \in I
      PROVE  IsFiniteSet(upto(i)) /\ Rank(I, i) \in 1..Cardinality(I)
  <2>1. upto(i) \in SUBSET I /\ i \in upto(i)
    BY PlacesUpTo
  <2> HIDE DEF upto
  <2>2. /\ IsFiniteSet(upto(i)) /\ Cardinality(upto(i)) \in Nat /\ Cardinality(I \ upto(i)) \in Nat
        /\ Cardinality(I) = Cardinality(I \ upto(i)) + Cardinality(upto(i))
    BY <1>2, <2>1 DEF CountingLaws, SubsetLaw
  <2>3. Cardinality(upto(i)) # 0
    BY <2>1, <2>2 DEF CountingLaws, EmptyLaw
  <2>4. Cardinality(upto(i)) \in 1..Cardinality(I)
    BY <2>2, <2>3, PartBetween
  <2> QED
    BY <2>2, <2>4 DEF Rank, upto
<1>4. ASSUME NEW i \in I, NEW j \in I, i < j
      PROVE  Rank(I, i) < Rank(I, j)
  <2>1. upto(i) \in SUBSET upto(j) /\ j \in upto(j) \ upto(i)
    BY <1>4, PlacesUpTo
  <2>2. IsFiniteSet(upto(j))
    BY <1>3
  <2> HIDE DEF upto
  <2>3. /\ IsFiniteSet(upto(j) \ upto(i))
        /\ Cardinality(upto(i)) \in Nat /\ Cardinality(upto(j) \ upto(i)) \in Nat
        /\ Cardinality(upto(j)) = Cardinality(upto(j) \ upto(i)) + Cardinality(upto(i))
    BY <2>1, <2>2 DEF CountingLaws, SubsetLaw
  <2>4. Cardinality(upto(j) \ upto(i)) # 0
    BY <2>1, <2>3 DEF CountingLaws, EmptyLaw
  <2>5. Cardinality(upto(i)) < Cardinality(upto(j))
    BY <2>3, <2>4, PartBetween
  <2> QED
    BY <2>5 DEF Rank, upto
<1>5. ASSUME NEW i \in I, NEW j \in I, Rank(I, i) = Rank(I, j)
      PROVE  i = j
  <2>1. ~(Rank(I, i) < Rank(I, j)) /\ ~(Rank(I, j) < Rank(I, i))
    BY <1>2, <1>3, <1>5, PlacesOrdered
  <2>2. i \in 1..n /\ j \in 1..n
    OBVIOUS
  <2> QED
    BY <1>4, <2>1, <2>2, PlacesOrdered
<1> QED
  BY <1>2, <1>3, <1>5

\* Every rank is taken, by one position.
LEMMA NthInverse ==
  ASSUME CountingLaws, NEW n \in Nat, NEW I \in SUBSET (1..n)
  PROVE  /\ \A p \in 1..Cardinality(I) : Nth(I, p) \in I /\ Rank(I, Nth(I, p)) = p
         /\ \A i \in I : Nth(I, Rank(I, i)) = i
<1> DEFINE f == [i \in I |-> Rank(I, i)]
           m == Cardinality(I)
           T == {Rank(I, i) : i \in I}
<1>1. /\ IsFiniteSet(I) /\ m \in Nat /\ T \in SUBSET (1..m)
      /\ \A i, j \in I : Rank(I, i) = Rank(I, j) => i = j
  <2>1. /\ IsFiniteSet(I) /\ m \in Nat
        /\ \A i \in I : Rank(I, i) \in 1..m
        /\ \A i, j \in I : Rank(I, i) = Rank(I, j) => i = j
    BY RankInjective
  <2> QED
    BY <2>1
<1>2. OneToOne(f, I, T)
  BY <1>1 DEF OneToOne
<1>3. Cardinality(T) = m
  BY <1>1, <1>2 DEF CountingLaws, OneToOneLaw
<1>4. IsFiniteSet(1..m) /\ Cardinality(1..m) = m
  BY <1>1 DEF CountingLaws, IntervalLaw
<1>5. (1..m) \ T = {}
  <2> HIDE DEF T, m
  <2>1. /\ IsFiniteSet((1..m) \ T) /\ Cardinality((1..m) \ T) \in Nat
        /\ m = Cardinality((1..m) \ T) + m
    BY <1>1, <1>3, <1>4 DEF CountingLaws, SubsetLaw
  <2>2. Cardinality((1..m) \ T) = 0
    BY <1>1, <2>1, PartBetween
  <2> QED
    BY <2>1, <2>2 DEF CountingLaws, EmptyLaw
<1>6. ASSUME NEW p \in 1..m
      PROVE  Nth(I, p) \in I /\ Rank(I, Nth(I, p)) = p
  <2>1. \E i \in I : Rank(I, i) = p
    BY <1>5
  <2> QED
    BY <2>1 DEF Nth
<1> QED
  BY <1>1, <1>6

\* What is picked are the elements at the positions, each once, in their order.
LEMMA PickElements ==
  ASSUME CountingLaws, NEW S, NEW s \in Seq(S), NEW I \in SUBSET DOMAIN s
  PROVE  PicksAt(s, I, S)
<1> DEFINE m == Cardinality(I)
<1>1. Len(s) \in Nat /\ DOMAIN s = 1..Len(s) /\ I \in SUBSET (1..Len(s)) /\ \A i \in I : s[i] \in S
  BY SequenceParts
<1>2. m \in Nat /\ m \in 0..Len(s) /\ \A i \in I : Rank(I, i) \in 1..m
  BY <1>1, RankInjective
<1>3. /\ \A p \in 1..m : Nth(I, p) \in I /\ Rank(I, Nth(I, p)) = p
      /\ \A i \in I : Nth(I, Rank(I, i)) = i
  BY <1>1, NthInverse
<1>4. Pick(s, I) \in [1..m -> S] /\ \A p \in 1..m : Pick(s, I)[p] = s[Nth(I, p)]
  BY <1>1, <1>3 DEF Pick
<1>5. Pick(s, I) \in Seq(S) /\ Len(Pick(s, I)) = m /\ DOMAIN Pick(s, I) = 1..m
  BY <1>2, <1>4, SequenceOf
<1> HIDE DEF m
<1>6. \A p, q \in 1..m : Nth(I, p) = Nth(I, q) => p = q
  BY <1>3
<1>7. \A i \in I : \E p \in 1..m : Nth(I, p) = i
  BY <1>2, <1>3
<1> QED
  BY <1>2, <1>3, <1>4, <1>5, <1>6, <1>7 DEF PicksAt, m

-----------------------------------------------------------------------------
(* Where the threads are. *)

\* Only thread t has moved, and every thread is where its arguments belong.
LEMMA Moved ==
  ASSUME NEW t \in Threads, NEW label, NEW c, Moves(t, label, c), TypeOK, ThreadInv,
         UNCHANGED <<kind, hasher, clock>>
  PROVE  /\ pc' \in [Threads -> Labels] /\ call' \in [Threads -> Call] /\ ThreadInv'
         /\ pc'[t] = label /\ call'[t] = c
         /\ \A u \in Threads : u # t => pc'[u] = pc[u] /\ call'[u] = call[u]
<1>1. /\ pc' \in [Threads -> Labels] /\ call' \in [Threads -> Call]
      /\ pc'[t] = label /\ call'[t] = c
      /\ \A u \in Threads : u # t => pc'[u] = pc[u] /\ call'[u] = call[u]
  BY DEF Moves, TypeOK
<1>2. \A u \in Threads : Fits(pc'[u], call'[u])
  BY <1>1 DEF ThreadInv, Moves
<1>3. \A u \in Threads : Fits(pc[u], call[u])'
  BY <1>2 DEF Fits, SweepOps
<1> QED
  BY <1>1, <1>3 DEF ThreadInv

\* A thread that neither starts, goes on with nor ends a resize leaves the bounds
\* as they are.
BoundsKept(t, c) ==
    /\ ~Resizing(t) /\ c.op # "resize"
    /\ UNCHANGED <<capacity, total_capacity, mixed>>

\* A step that touches no bound, and starts or ends no resize, keeps what holds
\* of the bounds.
LEMMA KeepsBounds ==
  ASSUME NEW t \in Threads, NEW label, NEW c, Moves(t, label, c), TypeOK, ThreadInv,
         UNCHANGED <<kind, hasher, clock>>, BoundsKept(t, c), BoundInv, CapacityPublished
  PROVE  BoundInv' /\ CapacityPublished'
<1>1. /\ call'[t] = c
      /\ \A u \in Threads : u # t => call'[u] = call[u]
  BY Moved
<1>2. \A u \in Threads : (call'[u].op = "resize" <=> call[u].op = "resize")
  BY <1>1 DEF BoundsKept, Resizing
<1>3. \A u \in Threads : call[u].op = "resize" => call'[u] = call[u]
  BY <1>1 DEF BoundsKept, Resizing
<1>4. capacity' = capacity /\ total_capacity' = total_capacity /\ mixed' = mixed /\ kind' = kind
  BY DEF BoundsKept
<1>5. BoundInv'
  BY <1>2, <1>3, <1>4 DEF BoundInv, Resizing, LruKinds
<1>6. CapacityPublished'
  BY <1>2, <1>3, <1>4 DEF CapacityPublished, LruKinds
<1> QED
  BY <1>5, <1>6

-----------------------------------------------------------------------------
(* Values. *)

\* A value that is nowhere it was not before is still in one place.
LEMMA Stays ==
  ASSUME NEW v, OnePlace(v), ops \in Nat, ops' \in Nat, ops <= ops',
         \A k \in Keys : Held(k, v)' => Held(k, v),
         \A u \in Threads : (InHand(u, v)' => InHand(u, v)) /\ (ToStore(u, v)' => ToStore(u, v)),
         v \in notified' => v \in notified
  PROVE  OnePlace(v)'
<1>1. v \in 1..ops => v \in 1..ops'
  BY SMT
<1> QED
  BY <1>1 DEF OnePlace

\* A call that has not been made yet has no value anywhere.
LEMMA Fresh ==
  ASSUME TypeOK, ValueInv
  PROVE  /\ ops + 1 \in Nat /\ ops + 1 \notin notified
         /\ \A k \in Keys : ~Held(k, ops + 1)
         /\ \A u \in Threads : ~InHand(u, ops + 1) /\ ~ToStore(u, ops + 1)
<1>1. ops + 1 \in Nat /\ ops + 1 \notin 1..ops
  BY SMT DEF TypeOK
<1>2. OnePlace(ops + 1)
  BY <1>1 DEF ValueInv
<1> QED
  BY <1>1, <1>2 DEF OnePlace

\* A thread that is not reporting has nothing to report.
LEMMA EmptyHands ==
  ASSUME TypeOK, ValueInv, NEW t \in Threads, pc[t] \notin {"count", "notify"}
  PROVE  removed[t] = {} /\ removed = [removed EXCEPT ![t] = {}]
BY DEF TypeOK, ValueInv

\* Thread t goes on with nothing to report, perhaps with a new value to store.
Quiet(t, label, c) ==
    /\ pc[t] # "count" /\ label \notin {"count", "notify"}
    /\ removed' = [removed EXCEPT ![t] = {}]
    /\ \/ label # "write" /\ ops' \in {ops, ops + 1}
       \/ label = "write" /\ c.val = ops + 1 /\ ops' = ops + 1

\* Every key has the value it had, if it has one still.
NoNewValues == \A k \in Keys : Holds(k)' => Holds(k) /\ store'[k].val = store[k].val

\* When no value moves and nothing is reported, every value stays in one place.
LEMMA QuietValues ==
  ASSUME TypeOK, ThreadInv, ValueInv, NEW t \in Threads, NEW label, NEW c, Moves(t, label, c),
         UNCHANGED <<kind, hasher, clock>>,
         Quiet(t, label, c), NoNewValues, UNCHANGED notified
  PROVE  ValueInv' /\ removed' \in [Threads -> SUBSET Nat] /\ ops' \in Nat
<1>1. ops \in Nat /\ ops' \in Nat /\ ops <= ops'
  BY SMT DEF TypeOK, Quiet
<1>2. /\ pc'[t] = label /\ call'[t] = c
      /\ \A u \in Threads : u # t => pc'[u] = pc[u] /\ call'[u] = call[u]
  BY Moved
<1>3. /\ removed' \in [Threads -> SUBSET Nat] /\ removed'[t] = {}
      /\ \A u \in Threads : u # t => removed'[u] = removed[u]
  BY DEF TypeOK, Quiet
<1>4. \A u \in Threads : removed'[u] # {} => pc'[u] \in {"count", "notify"}
  BY <1>2, <1>3 DEF ValueInv
<1>5. ASSUME NEW v \in Nat
      PROVE  OnePlace(v)'
  <2>1. /\ \A k \in Keys : Held(k, v)' => Held(k, v)
        /\ \A u \in Threads : InHand(u, v)' => InHand(u, v)
        /\ \A u \in Threads : u # t => (ToStore(u, v)' => ToStore(u, v))
        /\ ToStore(t, v)' => v = ops + 1
        /\ v \in notified' => v \in notified
    BY <1>2, <1>3 DEF NoNewValues, Held, InHand, ToStore, Quiet
  <2>2. OnePlace(v)
    BY DEF ValueInv
  <2>3. CASE ~ToStore(t, v)'
    BY <1>1, <2>1, <2>2, <2>3, Stays
  <2>4. CASE ToStore(t, v)'
    <3>1. v = ops + 1 /\ v \in 1..ops'
      BY SMT, <1>1, <1>2, <2>1, <2>4 DEF ToStore, Quiet
    <3>2. /\ v \notin notified' /\ \A k \in Keys : ~Held(k, v)'
          /\ \A u \in Threads : ~InHand(u, v)' /\ (u # t => ~ToStore(u, v)')
      BY <2>1, <3>1, Fresh
    <3> QED
      BY <3>1, <3>2 DEF OnePlace
  <2> QED
    BY <2>3, <2>4
<1> QED
  BY <1>1, <1>3, <1>4, <1>5 DEF ValueInv

\* The entries of `keys` leave the map, into the hands of thread t.
Takes(t, label, keys) ==
    /\ pc[t] \notin {"count", "notify"} /\ label \in {"count", "notify"}
    /\ \A k \in keys : k \in Keys /\ Holds(k)
    /\ store' = [k \in Keys |-> IF k \in keys THEN Absent ELSE store[k]]
    /\ removed' = [removed EXCEPT ![t] = {store[k].val : k \in keys}]
    /\ ops' \in {ops, ops + 1}

\* Values that go from a map to the hands of the thread that took them out stay
\* in one place.
LEMMA TakenValues ==
  ASSUME TypeOK, ThreadInv, ValueInv, NEW t \in Threads, NEW label, NEW c, Moves(t, label, c),
         UNCHANGED <<kind, hasher, clock>>,
         NEW keys, Takes(t, label, keys), UNCHANGED notified
  PROVE  ValueInv' /\ removed' \in [Threads -> SUBSET Nat] /\ ops' \in Nat
<1>1. ops \in Nat /\ ops' \in Nat /\ ops <= ops'
  BY SMT DEF TypeOK, Takes
<1>2. /\ pc'[t] = label
      /\ \A u \in Threads : u # t => pc'[u] = pc[u] /\ call'[u] = call[u]
  BY Moved
<1>3. \A k \in keys : k \in Keys /\ Holds(k) /\ store[k].val \in Nat
  BY DEF TypeOK, Entry, Holds, Takes
<1>4. /\ removed' \in [Threads -> SUBSET Nat]
      /\ \A v : v \in removed'[t] => \E k \in keys : v = store[k].val
      /\ \A u \in Threads : u # t => removed'[u] = removed[u]
  BY SMT, <1>3 DEF TypeOK, Takes
<1>5. \A u \in Threads : removed'[u] # {} => pc'[u] \in {"count", "notify"}
  BY <1>2, <1>4 DEF ValueInv, Takes
<1>6. ASSUME NEW v \in Nat
      PROVE  OnePlace(v)'
  <2>1. /\ \A k \in Keys : Held(k, v)' => Held(k, v) /\ k \notin keys
        /\ \A u \in Threads : u # t => (InHand(u, v)' => InHand(u, v))
        /\ InHand(t, v)' => \E k \in keys : k \in Keys /\ Held(k, v)
        /\ \A u \in Threads : ToStore(u, v)' => ToStore(u, v)
        /\ v \in notified' => v \in notified
    BY <1>2, <1>3, <1>4 DEF Held, Holds, InHand, ToStore, Takes
  <2>2. OnePlace(v)
    BY DEF ValueInv
  <2>3. CASE ~InHand(t, v)'
    BY <1>1, <2>1, <2>2, <2>3, Stays
  <2>4. CASE InHand(t, v)'
    <3>1. PICK k \in keys : k \in Keys /\ Held(k, v)
      BY <2>1, <2>4
    <3>2. /\ v \in 1..ops' /\ v \notin notified'
          /\ \A u \in Threads : ~ToStore(u, v)' /\ (u # t => ~InHand(u, v)')
          /\ \A j \in Keys : ~Held(j, v)'
      BY SMT, <1>1, <2>1, <2>2, <3>1 DEF OnePlace
    <3> QED
      BY <3>2 DEF OnePlace
  <2> QED
    BY <2>3, <2>4
<1> QED
  BY <1>1, <1>4, <1>5, <1>6 DEF ValueInv

\* The entries of `gone` leave the map, and on_evict hears of them at once.
Evicts(gone) ==
    /\ \A k \in gone : k \in Keys /\ Holds(k)
    /\ store' = [k \in Keys |-> IF k \in gone THEN Absent ELSE store[k]]
    /\ notified' = notified \cup {store[k].val : k \in gone}

\* So do values that leave a map and are reported at once.
LEMMA EvictedValues ==
  ASSUME TypeOK, ThreadInv, ValueInv, NEW t \in Threads, NEW label, NEW c, Moves(t, label, c),
         UNCHANGED <<kind, hasher, clock>>,
         Quiet(t, label, c), label # "write", NEW gone, Evicts(gone)
  PROVE  /\ ValueInv' /\ removed' \in [Threads -> SUBSET Nat] /\ ops' \in Nat
         /\ notified' \in SUBSET Nat
<1>1. ops \in Nat /\ ops' \in Nat /\ ops <= ops'
  BY SMT DEF TypeOK, Quiet
<1>2. /\ pc'[t] = label /\ label # "write"
      /\ \A u \in Threads : u # t => pc'[u] = pc[u] /\ call'[u] = call[u]
  BY Moved
<1>3. /\ removed' \in [Threads -> SUBSET Nat] /\ removed'[t] = {}
      /\ \A u \in Threads : u # t => removed'[u] = removed[u]
  BY DEF TypeOK, Quiet
<1>4. \A u \in Threads : removed'[u] # {} => pc'[u] \in {"count", "notify"}
  BY <1>2, <1>3 DEF ValueInv
<1>5. \A k \in gone : k \in Keys /\ Holds(k) /\ store[k].val \in Nat
  BY DEF TypeOK, Entry, Holds, Evicts
<1>6. notified' \in SUBSET Nat
  BY <1>5 DEF TypeOK, Evicts
<1>7. ASSUME NEW v \in Nat
      PROVE  OnePlace(v)'
  <2>1. /\ \A k \in Keys : Held(k, v)' => Held(k, v) /\ k \notin gone
        /\ \A u \in Threads : InHand(u, v)' => InHand(u, v)
        /\ \A u \in Threads : ToStore(u, v)' => ToStore(u, v)
    BY <1>2, <1>3, <1>5 DEF Held, Holds, InHand, ToStore, Evicts
  <2>2. v \in notified' => v \in notified \/ \E k \in gone : k \in Keys /\ Held(k, v)
    BY <1>5 DEF Held, Evicts
  <2>3. OnePlace(v)
    BY DEF ValueInv
  <2>4. CASE v \in notified' => v \in notified
    BY <1>1, <2>1, <2>3, <2>4, Stays
  <2>5. CASE v \in notified' /\ v \notin notified
    <3>1. PICK k \in gone : k \in Keys /\ Held(k, v)
      BY <2>2, <2>5
    <3>2. /\ v \in 1..ops'
          /\ \A u \in Threads : ~ToStore(u, v)' /\ ~InHand(u, v)'
          /\ \A j \in Keys : ~Held(j, v)'
      BY SMT, <1>1, <2>1, <2>3, <3>1 DEF OnePlace
    <3> QED
      BY <3>2 DEF OnePlace
  <2> QED
    BY <2>4, <2>5
<1> QED
  BY <1>1, <1>3, <1>4, <1>6, <1>7 DEF ValueInv

\* Thread t stores e under k: a new value, or the one it came with.  The entries
\* of `gone` make room for it.  It keeps the displaced value in its hands if that
\* is still to be reported.
Stores(t, label, k, e, gone) ==
    LET contents == [store EXCEPT ![k] = e] IN
    /\ k \in Keys /\ e \in Entry /\ label # "write"
    /\ \/ pc[t] = "idle" /\ e.val = ops + 1 /\ ops' = ops + 1
       \/ pc[t] = "write" /\ e.val = call[t].val /\ ops' = ops
    /\ \/ label \notin {"count", "notify"} /\ removed' = [removed EXCEPT ![t] = {}]
       \/ label \in {"count", "notify"} /\ Holds(k) /\ removed' = [removed EXCEPT ![t] = {store[k].val}]
    /\ \A j \in gone : j \in Keys /\ (j = k \/ Holds(j))
    /\ store' = [j \in Keys |-> IF j \in gone THEN Absent ELSE contents[j]]
    /\ notified' = notified \cup {contents[j].val : j \in gone}

\* So do a value that is stored and the ones that leave to make room for it.
LEMMA StoredValues ==
  ASSUME TypeOK, ThreadInv, ValueInv, NEW t \in Threads, NEW label, NEW c, Moves(t, label, c),
         UNCHANGED <<kind, hasher, clock>>,
         NEW k, NEW e, NEW gone, Stores(t, label, k, e, gone)
  PROVE  /\ ValueInv' /\ removed' \in [Threads -> SUBSET Nat] /\ ops' \in Nat
         /\ notified' \in SUBSET Nat
<1> DEFINE contents == [store EXCEPT ![k] = e]
<1>1. ops \in Nat /\ ops' \in Nat /\ ops <= ops' /\ k \in Keys /\ e.val \in Nat
  BY SMT DEF TypeOK, Stores, Entry
<1>2. /\ pc'[t] = label /\ label # "write"
      /\ \A u \in Threads : u # t => pc'[u] = pc[u] /\ call'[u] = call[u]
  BY Moved DEF Stores
<1>3. /\ contents \in [Keys -> Entry \cup {Absent}]
      /\ contents[k] = e /\ \A j \in Keys : j # k => contents[j] = store[j]
  BY DEF TypeOK, Stores
<1>4. /\ \A j \in gone : j \in Keys /\ (j = k \/ Holds(j))
      /\ \A j \in Keys : store'[j] = IF j \in gone THEN Absent ELSE contents[j]
      /\ notified' = notified \cup {contents[j].val : j \in gone}
  BY DEF Stores
<1>5. \A j \in gone : contents[j].val \in Nat
  BY <1>1, <1>3, <1>4 DEF Entry, Holds
<1>6. notified' \in SUBSET Nat
  <2>1. {contents[j].val : j \in gone} \in SUBSET Nat
    BY <1>5
  <2> QED
    BY <1>4, <2>1 DEF TypeOK
<1>7. /\ removed' \in [Threads -> SUBSET Nat]
      /\ \A v \in removed'[t] : Holds(k) /\ v = store[k].val /\ label \in {"count", "notify"}
      /\ \A u \in Threads : u # t => removed'[u] = removed[u]
  <2>1. Holds(k) => store[k].val \in Nat
    BY <1>1 DEF TypeOK, Entry, Holds
  <2> QED
    BY <2>1 DEF TypeOK, Stores
<1>8. \A u \in Threads : removed'[u] # {} => pc'[u] \in {"count", "notify"}
  BY <1>2, <1>7 DEF ValueInv
<1> HIDE DEF contents
\* The new value was nowhere, or in the hands of this thread alone.
<1>9. /\ e.val \in 1..ops' /\ e.val \notin notified
      /\ \A j \in Keys : ~Held(j, e.val)
      /\ \A u \in Threads : ~InHand(u, e.val) /\ (u # t => ~ToStore(u, e.val))
  <2>1. CASE pc[t] = "idle" /\ e.val = ops + 1 /\ ops' = ops + 1
    BY SMT, <1>1, <2>1, Fresh
  <2>2. CASE pc[t] = "write" /\ e.val = call[t].val /\ ops' = ops
    <3>1. ToStore(t, e.val) /\ OnePlace(e.val)
      BY <1>1, <2>2 DEF ToStore, ValueInv
    <3> QED
      BY <2>2, <3>1 DEF OnePlace
  <2> QED
    BY <2>1, <2>2 DEF Stores
<1>10. ASSUME NEW v \in Nat
       PROVE  OnePlace(v)'
  <2>1. \A u \in Threads : /\ ToStore(u, v)' => ToStore(u, v) /\ u # t
                           /\ u # t => (InHand(u, v)' => InHand(u, v))
    BY <1>2, <1>7 DEF ToStore, InHand
  <2>2. InHand(t, v)' => Held(k, v)
    BY <1>7 DEF InHand, Held
  <2>3. \A j \in Keys : j # k => (Held(j, v)' => Held(j, v) /\ j \notin gone)
    BY <1>3, <1>4 DEF Held, Holds
  <2>4. Held(k, v)' => v = e.val /\ k \notin gone
    BY <1>1, <1>3, <1>4 DEF Held, Holds
  <2>5. v \in notified' => \/ v \in notified
                           \/ v = e.val /\ k \in gone
                           \/ \E j \in gone : j \in Keys /\ j # k /\ Held(j, v)
    BY <1>3, <1>4 DEF Held
  <2>6. OnePlace(v)
    BY DEF ValueInv
  <2>7. CASE v = e.val
    <3>1. /\ \A u \in Threads : ~ToStore(u, v)' /\ ~InHand(u, v)'
          /\ \A j \in Keys : Held(j, v)' => j = k
          /\ v \in notified' => k \in gone
      BY <1>1, <1>9, <2>1, <2>2, <2>3, <2>5, <2>7
    <3> QED
      BY <1>9, <2>4, <2>7, <3>1 DEF OnePlace
  <2>8. CASE v # e.val /\ \E j \in Keys : Held(j, v)
    <3>1. PICK j \in Keys : Held(j, v)
      BY <2>8
    <3>2. /\ v \in 1..ops' /\ v \notin notified
          /\ \A i \in Keys : Held(i, v) => i = j
          /\ \A u \in Threads : ~InHand(u, v) /\ ~ToStore(u, v)
      BY SMT, <1>1, <2>6, <3>1 DEF OnePlace
    <3>3. /\ \A i \in Keys : Held(i, v)' => i = j /\ j # k /\ j \notin gone
          /\ v \in notified' => j \in gone /\ j # k
          /\ \A u \in Threads : ~ToStore(u, v)' /\ (InHand(u, v)' => u = t /\ j = k)
      BY <1>1, <2>1, <2>2, <2>3, <2>4, <2>5, <2>8, <3>2
    <3> QED
      BY <3>2, <3>3 DEF OnePlace
  <2>9. CASE v # e.val /\ \A j \in Keys : ~Held(j, v)
    <3>1. /\ \A i \in Keys : ~Held(i, v)'
          /\ v \in notified' => v \in notified
          /\ \A u \in Threads : (InHand(u, v)' => InHand(u, v)) /\ (ToStore(u, v)' => ToStore(u, v))
      BY <1>1, <2>1, <2>2, <2>3, <2>4, <2>5, <2>9
    <3> QED
      BY <1>1, <2>6, <3>1, Stays
  <2> QED
    BY <2>7, <2>8, <2>9
<1> QED
  BY <1>1, <1>6, <1>7, <1>8, <1>10 DEF ValueInv

\* on_evict hears of one value that thread t has in its hands.
LEMMA ReportedValues ==
  ASSUME TypeOK, ThreadInv, ValueInv, NEW t \in Threads, NEW label, NEW c, Moves(t, label, c),
         UNCHANGED <<kind, hasher, clock, store, ops>>,
         NEW x \in removed[t], notified' = notified \cup {x}, label # "write",
         \/ removed' = [removed EXCEPT ![t] = @ \ {x}] /\ label = "notify"
         \/ removed' = [removed EXCEPT ![t] = {}]
  PROVE  ValueInv' /\ removed' \in [Threads -> SUBSET Nat] /\ notified' \in SUBSET Nat
<1>1. ops \in Nat /\ ops' = ops /\ x \in Nat
  BY DEF TypeOK
<1>2. /\ pc'[t] = label
      /\ \A u \in Threads : u # t => pc'[u] = pc[u] /\ call'[u] = call[u]
  BY Moved
<1>3. /\ removed' \in [Threads -> SUBSET Nat] /\ x \notin removed'[t]
      /\ removed'[t] \subseteq removed[t] /\ (removed'[t] # {} => label = "notify")
      /\ \A u \in Threads : u # t => removed'[u] = removed[u]
  BY DEF TypeOK
<1>4. \A u \in Threads : removed'[u] # {} => pc'[u] \in {"count", "notify"}
  BY <1>2, <1>3 DEF ValueInv
<1>5. notified' \in SUBSET Nat
  BY <1>1 DEF TypeOK
<1>6. ASSUME NEW v \in Nat
      PROVE  OnePlace(v)'
  <2>1. /\ \A k \in Keys : Held(k, v)' => Held(k, v)
        /\ \A u \in Threads : (InHand(u, v)' => InHand(u, v)) /\ (ToStore(u, v)' => ToStore(u, v))
    BY <1>2, <1>3 DEF Held, Holds, InHand, ToStore
  <2>2. OnePlace(v)
    BY DEF ValueInv
  <2>3. CASE v # x
    BY SMT, <1>1, <2>1, <2>2, <2>3, Stays
  <2>4. CASE v = x
    <3>1. InHand(t, v) /\ ~InHand(t, v)'
      BY <1>3, <2>4 DEF InHand
    <3>2. /\ v \in 1..ops'
          /\ \A k \in Keys : ~Held(k, v)'
          /\ \A u \in Threads : ~InHand(u, v)' /\ ~ToStore(u, v)'
      BY <1>1, <2>1, <2>2, <3>1 DEF OnePlace
    <3> QED
      BY <3>2 DEF OnePlace
  <2> QED
    BY <2>3, <2>4
<1> QED
  BY <1>3, <1>4, <1>5, <1>6 DEF ValueInv

-----------------------------------------------------------------------------
(* Accounts. *)

\* Where a call with these arguments counts what it took out.
Home(c) == IF c.op \in SweepOps THEN c.shard - 1 ELSE hasher[c.key]

\* What the threads other than t have to count in the shard s, and what t has.
OthersCount(t, s) == UNION {removed[u] : u \in {w \in Threads \ {t} : pc[w] = "count" /\ CountedIn(w) = s}}
ItCounts(t, s) == IF pc[t] = "count" /\ CountedIn(t) = s THEN removed[t] ELSE {}

\* What is uncounted in a shard is what thread t has to count there and what the
\* others have, which no step of t changes.
LEMMA UncountedParts ==
  ASSUME TypeOK, ThreadInv, NEW t \in Threads, NEW label, NEW c, Moves(t, label, c),
         UNCHANGED <<kind, hasher, clock>>,
         \A u \in Threads : u # t => removed'[u] = removed[u],
         NEW s
  PROVE  /\ Uncounted(s) = OthersCount(t, s) \cup ItCounts(t, s)
         /\ Uncounted(s)' = OthersCount(t, s) \cup ItCounts(t, s)'
         /\ ItCounts(t, s)' = IF label = "count" /\ Home(c) = s THEN removed'[t] ELSE {}
<1>1. /\ pc'[t] = label /\ call'[t] = c
      /\ \A u \in Threads : u # t => pc'[u] = pc[u] /\ call'[u] = call[u]
  BY SMT, Moved
<1>2. \A u \in Threads : CountedIn(u) = Home(call[u]) /\ CountedIn(u)' = Home(call'[u])
  BY DEF CountedIn, Home, SweepOps
<1>3. OthersCount(t, s)' = OthersCount(t, s)
  <2>1. \A u \in Threads \ {t} : /\ (pc'[u] = "count" /\ CountedIn(u)' = s) <=> (pc[u] = "count" /\ CountedIn(u) = s)
                                 /\ removed'[u] = removed[u]
    BY <1>1, <1>2
  <2> QED
    BY <2>1 DEF OthersCount
<1>4. Uncounted(s) = OthersCount(t, s) \cup ItCounts(t, s)
  BY DEF Uncounted, OthersCount, ItCounts
<1>5. Uncounted(s)' = OthersCount(t, s)' \cup ItCounts(t, s)'
  BY DEF Uncounted, OthersCount, ItCounts
<1>6. ItCounts(t, s)' = IF label = "count" /\ Home(c) = s THEN removed'[t] ELSE {}
  BY <1>1, <1>2 DEF ItCounts
<1> QED
  BY <1>3, <1>4, <1>5, <1>6

\* Only so many values exist, so those to be counted can be.
LEMMA UncountedFinite ==
  ASSUME CountingLaws, TypeOK, ValueInv, NEW s
  PROVE  IsFiniteSet(Uncounted(s)) /\ Cardinality(Uncounted(s)) \in Nat
<1>1. \A u \in Threads : \A v \in removed[u] : v \in 1..ops
  BY DEF TypeOK, ValueInv, OnePlace, InHand
<1>2. Uncounted(s) \in SUBSET (1..ops)
  BY <1>1 DEF Uncounted
<1>3. IsFiniteSet(1..ops)
  BY DEF TypeOK, CountingLaws, IntervalLaw
<1> QED
  BY <1>2, <1>3 DEF CountingLaws, SubsetLaw

\* The keys a shard holds are finitely many.
LEMMA HeldFinite ==
  ASSUME CountingLaws, NEW s
  PROVE  IsFiniteSet(HeldIn(s)) /\ Size(s) = Cardinality(HeldIn(s)) /\ Size(s) \in Nat
<1>1. HeldIn(s) \in SUBSET Keys /\ IsFiniteSet(Keys) /\ Size(s) = Cardinality(HeldIn(s))
  BY ShardedAssumption DEF HeldIn, Size
<1> QED
  BY <1>1 DEF CountingLaws, SubsetLaw

\* The values of some keys are as many as the keys.
LEMMA AsManyValues ==
  ASSUME CountingLaws, TypeOK, ValueInv, NEW keys \in SUBSET Keys, \A k \in keys : Holds(k)
  PROVE  /\ IsFiniteSet(keys) /\ IsFiniteSet({store[k].val : k \in keys})
         /\ Cardinality({store[k].val : k \in keys}) = Cardinality(keys)
         /\ Cardinality(keys) \in Nat
<1> DEFINE vals == {store[k].val : k \in keys}
           f == [k \in keys |-> store[k].val]
<1>1. IsFiniteSet(keys) /\ Cardinality(keys) \in Nat
  BY ShardedAssumption DEF CountingLaws, SubsetLaw
<1>2. \A k \in keys : store[k].val \in Nat
  BY DEF TypeOK, Entry, Holds
<1>3. \A k, j \in keys : store[k].val = store[j].val => k = j
  <2>1. ASSUME NEW k \in keys, NEW j \in keys, store[k].val = store[j].val
        PROVE  k = j
    <3>1. OnePlace(store[k].val) /\ Held(k, store[k].val) /\ Held(j, store[k].val)
      BY <1>2, <2>1 DEF ValueInv, Held
    <3> QED
      BY <3>1 DEF OnePlace
  <2> QED
    BY <2>1
<1>4. OneToOne(f, keys, vals)
  <2>1. f \in [keys -> vals] /\ \A v \in vals : \E k \in keys : f[k] = v
    OBVIOUS
  <2>2. \A k, j \in keys : f[k] = f[j] => k = j
    BY <1>3
  <2> QED
    BY <2>1, <2>2 DEF OneToOne
<1> QED
  BY <1>1, <1>4 DEF CountingLaws, OneToOneLaw

\* What is taken out of a set leaves the rest of it.
LEMMA Remainder ==
  ASSUME CountingLaws, NEW S, IsFiniteSet(S), NEW T \in SUBSET S
  PROVE  /\ IsFiniteSet(T) /\ IsFiniteSet(S \ T)
         /\ Cardinality(S) \in Nat /\ Cardinality(T) \in Nat /\ Cardinality(S \ T) \in Nat
         /\ Cardinality(S) = Cardinality(S \ T) + Cardinality(T)
BY DEF CountingLaws, SubsetLaw

\* The sizes of two sets without a common member add up.
LEMMA Together ==
  ASSUME CountingLaws, NEW S, IsFiniteSet(S), NEW T, IsFiniteSet(T), \A x \in S : x \notin T
  PROVE  Cardinality(S \cup T) = Cardinality(S) + Cardinality(T)
<1>1. IsFiniteSet(S \cup T) /\ S \in SUBSET (S \cup T)
  BY DEF CountingLaws, UnionLaw
<1>2. (S \cup T) \ S = T
  OBVIOUS
<1> QED
  BY SMT, <1>1, <1>2, Remainder

\* Accounted, in one shard.
Balanced(s) ==
    entered[s] = Size(s) + silent[s] + replaced[s] + lost[s] + evictions[s] + zeroed[s]
                     + Cardinality(Uncounted(s))

\* A counter of one shard is raised.
LEMMA Raised ==
  ASSUME NEW f \in Tally, NEW s \in ShardIds, NEW n \in Nat
  PROVE  /\ [f EXCEPT ![s] = @ + n] \in Tally
         /\ [f EXCEPT ![s] = @ + n][s] = f[s] + n
         /\ \A x \in ShardIds : x # s => [f EXCEPT ![s] = @ + n][x] = f[x]
BY SMT DEF Tally

\* Nothing happens to a shard.
LEMMA StillBalanced ==
  ASSUME NEW s, Balanced(s), Size(s)' = Size(s), Uncounted(s)' = Uncounted(s),
         entered'[s] = entered[s], silent'[s] = silent[s], replaced'[s] = replaced[s],
         lost'[s] = lost[s], evictions'[s] = evictions[s], zeroed'[s] = zeroed[s]
  PROVE  Balanced(s)'
BY DEF Balanced

-----------------------------------------------------------------------------
(* Orders. *)

\* A sequence that has every member of a set once is as long as the set is large.
LEMMA ListedLength ==
  ASSUME CountingLaws, NEW ord \in Seq(Keys), NEW S, Lists(ord, S)
  PROVE  IsFiniteSet(S) /\ Len(ord) = Cardinality(S) /\ Len(ord) \in Nat
<1>1. Len(ord) \in Nat /\ DOMAIN ord = 1..Len(ord)
  BY SMT
<1>2. OneToOne(ord, 1..Len(ord), S)
  <2>1. ord \in [1..Len(ord) -> S] /\ \A k \in S : \E i \in 1..Len(ord) : ord[i] = k
    BY SMT, <1>1 DEF Lists
  <2>2. \A i, j \in 1..Len(ord) : ord[i] = ord[j] => i = j
    BY <1>1 DEF Lists
  <2> QED
    BY <2>1, <2>2 DEF OneToOne
<1>3. IsFiniteSet(1..Len(ord)) /\ Cardinality(1..Len(ord)) = Len(ord)
  BY <1>1 DEF CountingLaws, IntervalLaw
<1> QED
  BY <1>1, <1>2, <1>3 DEF CountingLaws, OneToOneLaw

\* Without some keys, the sequence lists the others.
LEMMA PickedList ==
  ASSUME CountingLaws, NEW ord \in Seq(Keys), NEW S, Lists(ord, S), NEW gone
  PROVE  LET rest == Pick(ord, {i \in DOMAIN ord : ord[i] \notin gone})
         IN  rest \in Seq(Keys) /\ Lists(rest, S \ gone) /\ Len(rest) \in Nat /\ Len(rest) <= Len(ord)
<1> DEFINE I == {i \in DOMAIN ord : ord[i] \notin gone}
           rest == Pick(ord, I)
<1>1. I \in SUBSET DOMAIN ord /\ Len(ord) \in Nat /\ \A i \in I : i \in DOMAIN ord /\ ord[i] \notin gone
  BY SMT
<1>2. \A i \in DOMAIN ord : ord[i] \notin gone => i \in I
  OBVIOUS
<1> HIDE DEF I
<1>3. /\ rest \in Seq(Keys) /\ Len(rest) = Cardinality(I) /\ Cardinality(I) \in 0..Len(ord)
      /\ \A p \in DOMAIN rest : Nth(I, p) \in I /\ rest[p] = ord[Nth(I, p)]
      /\ \A p, q \in DOMAIN rest : Nth(I, p) = Nth(I, q) => p = q
      /\ \A i \in I : \E p \in DOMAIN rest : Nth(I, p) = i
  <2>1. PicksAt(ord, I, Keys)
    BY <1>1, PickElements
  <2> QED
    BY <2>1 DEF PicksAt
<1> HIDE DEF rest
<1>4. \A p \in DOMAIN rest : rest[p] \in S \ gone
  BY <1>1, <1>3 DEF Lists
<1>5. ASSUME NEW k \in S \ gone PROVE \E p \in DOMAIN rest : rest[p] = k
  <2>1. PICK i \in DOMAIN ord : ord[i] = k
    BY DEF Lists
  <2>2. PICK p \in DOMAIN rest : Nth(I, p) = i
    BY <1>2, <1>3, <2>1
  <2> QED
    BY <1>3, <2>1, <2>2
<1>6. \A p, q \in DOMAIN rest : rest[p] = rest[q] => p = q
  BY SMT, <1>1, <1>3 DEF Lists
<1>7. Len(rest) \in Nat /\ Len(rest) <= Len(ord)
  BY SMT, <1>1, <1>3
<1>8. rest \in Seq(Keys) /\ Lists(rest, S \ gone)
  BY <1>3, <1>4, <1>5, <1>6 DEF Lists
<1> QED
  BY <1>7, <1>8 DEF I, rest

\* With a key at the front, the sequence lists that key too.
LEMMA FrontList ==
  ASSUME CountingLaws, NEW ord \in Seq(Keys), NEW S, Lists(ord, S), NEW k \in Keys
  PROVE  LET front == <<k>> \o Pick(ord, {i \in DOMAIN ord : ord[i] # k})
         IN  front \in Seq(Keys) /\ Lists(front, S \cup {k})
<1> DEFINE I == {i \in DOMAIN ord : ord[i] # k}
           rest == Pick(ord, I)
           front == <<k>> \o rest
<1>1. I = {i \in DOMAIN ord : ord[i] \notin {k}}
  OBVIOUS
<1>2. rest \in Seq(Keys) /\ Lists(rest, S \ {k}) /\ Len(rest) \in Nat
  BY <1>1, PickedList
<1> HIDE DEF rest
<1>3. /\ front \in Seq(Keys) /\ DOMAIN front = 1..(Len(rest) + 1) /\ front[1] = k
      /\ \A i \in DOMAIN rest : i + 1 \in DOMAIN front /\ front[i + 1] = rest[i]
      /\ \A i \in DOMAIN front : i = 1 \/ (i - 1 \in DOMAIN rest /\ front[i] = rest[i - 1])
  BY SMT, <1>2
<1> HIDE DEF front
<1>4. \A i \in DOMAIN front : front[i] \in S \cup {k}
  BY <1>2, <1>3 DEF Lists
<1>5. ASSUME NEW j \in S \cup {k} PROVE \E i \in DOMAIN front : front[i] = j
  <2>1. CASE j = k
    <3>1. 1 \in DOMAIN front
      BY SMT, <1>2, <1>3
    <3> QED
      BY <1>3, <2>1, <3>1
  <2>2. CASE j # k
    <3>1. PICK i \in DOMAIN rest : rest[i] = j
      BY <1>2, <2>2 DEF Lists
    <3> QED
      BY <1>3, <3>1
  <2> QED
    BY <2>1, <2>2
<1>6. ASSUME NEW i \in DOMAIN front, NEW j \in DOMAIN front, front[i] = front[j] PROVE i = j
  <2>1. \A p \in DOMAIN rest : rest[p] # k
    BY <1>2 DEF Lists
  <2>2. i \in Nat /\ j \in Nat
    BY SMT, <1>2, <1>3
  <2>3. CASE i = 1 \/ j = 1
    BY SMT, <1>3, <1>6, <2>1, <2>3
  <2>4. CASE i # 1 /\ j # 1
    <3>1. /\ i - 1 \in DOMAIN rest /\ j - 1 \in DOMAIN rest /\ rest[i - 1] = rest[j - 1]
      BY <1>3, <1>6, <2>4
    <3>2. i - 1 = j - 1
      BY <1>2, <3>1 DEF Lists
    <3> QED
      BY SMT, <2>2, <3>2
  <2> QED
    BY <2>3, <2>4
<1>7. front \in Seq(Keys) /\ Lists(front, S \cup {k})
  BY <1>3, <1>4, <1>5, <1>6 DEF Lists
<1> QED
  BY <1>7 DEF front, rest

\* Without its last n keys, the sequence lists the others.
LEMMA TrimmedList ==
  ASSUME CountingLaws, NEW ord \in Seq(Keys), NEW S, Lists(ord, S), NEW n \in Nat, n <= Len(ord)
  PROVE  LET rest == SubSeq(ord, 1, Len(ord) - n)
         IN  /\ rest \in Seq(Keys) /\ Len(rest) = Len(ord) - n
             /\ Lists(rest, S \ Victims(ord, n))
             /\ Victims(ord, n) \in SUBSET S /\ Cardinality(Victims(ord, n)) = n
<1> DEFINE rest == SubSeq(ord, 1, Len(ord) - n)
           V == Victims(ord, n)
<1>1. Len(ord) \in Nat /\ DOMAIN ord = 1..Len(ord)
  BY SMT
<1>2. /\ rest \in Seq(Keys) /\ Len(rest) = Len(ord) - n /\ DOMAIN rest = 1..(Len(ord) - n)
      /\ \A i \in DOMAIN rest : i \in DOMAIN ord /\ i <= Len(ord) - n /\ rest[i] = ord[i]
  <2> DEFINE m == Len(ord) - n
  <2>1. m \in Nat /\ m <= Len(ord)
    BY SMT, <1>1
  <2> HIDE DEF m
  <2>2. \A i \in 1..m : i \in DOMAIN ord /\ ord[i] \in Keys /\ i <= m
    BY SMT, <1>1, <2>1
  <2>3. /\ SubSeq(ord, 1, m) \in Seq(Keys) /\ Len(SubSeq(ord, 1, m)) = m
        /\ \A i \in 1..m : SubSeq(ord, 1, m)[i] = ord[i]
    BY SMT, <2>1, <2>2
  <2>4. DOMAIN SubSeq(ord, 1, m) = 1..m
    BY SMT, <2>3
  <2> QED
    BY <2>2, <2>3, <2>4 DEF m
<1>3. \A k \in V : \E i \in DOMAIN ord : i > Len(ord) - n /\ ord[i] = k
  BY SMT, <1>1 DEF Victims
<1>4. \A i \in DOMAIN ord : i > Len(ord) - n => ord[i] \in V
  BY SMT, <1>1 DEF Victims
<1> HIDE DEF rest, V
<1>5. V \in SUBSET S
  BY SMT, <1>3 DEF Lists
<1>6. \A i \in DOMAIN rest : rest[i] \in S \ V
  <2>1. ASSUME NEW i \in DOMAIN rest, rest[i] \in V PROVE FALSE
    <3>1. PICK j \in DOMAIN ord : j > Len(ord) - n /\ ord[j] = rest[i]
      BY <1>3, <2>1
    <3>2. i = j
      BY <1>2, <3>1 DEF Lists
    <3> QED
      BY SMT, <1>1, <1>2, <3>1, <3>2
  <2> QED
    BY <1>2, <2>1 DEF Lists
<1>7. ASSUME NEW k \in S \ V PROVE \E i \in DOMAIN rest : rest[i] = k
  <2>1. PICK i \in DOMAIN ord : ord[i] = k
    BY DEF Lists
  <2>2. i \in DOMAIN rest
    BY SMT, <1>1, <1>2, <1>4, <2>1
  <2> QED
    BY <1>2, <2>1, <2>2
<1>8. Lists(rest, S \ V)
  BY <1>2, <1>6, <1>7 DEF Lists
<1>9. Cardinality(V) = n
  <2>1. IsFiniteSet(S) /\ Len(ord) = Cardinality(S) /\ Len(rest) = Cardinality(S \ V)
    BY <1>2, <1>8, ListedLength
  <2>2. /\ Cardinality(S) \in Nat /\ Cardinality(V) \in Nat /\ Cardinality(S \ V) \in Nat
        /\ Cardinality(S) = Cardinality(S \ V) + Cardinality(V)
    BY <1>5, <2>1, Remainder
  <2> QED
    BY SMT, <1>1, <1>2, <2>1, <2>2
<1> QED
  BY <1>2, <1>5, <1>8, <1>9 DEF rest, V

-----------------------------------------------------------------------------
(* Whole steps.  A step of a thread keeps the core of the invariant; what it *)
(* does to the bounds is seen apart.                                         *)

Core == TypeOK /\ ThreadInv /\ ValueInv /\ Accounted /\ OrderInv /\ ShardWithinCapacity

Step(t, label, c) == Moves(t, label, c) /\ UNCHANGED <<kind, hasher, clock, ttl, refresh>>

\* Thread t goes on; every key keeps its value, though perhaps not its expiry,
\* and a key may become the most recently used of its shard.
SameEntries ==
    /\ store' \in [Keys -> Entry \cup {Absent}]
    /\ \A k \in Keys : (Holds(k)' <=> Holds(k)) /\ (Holds(k) => store'[k].val = store[k].val)

Rests(t, label, c) ==
    /\ Step(t, label, c) /\ Quiet(t, label, c) /\ SameEntries
    /\ order' = order \/ \E k \in Keys : Holds(k) /\ order' = Promoted(k)
    /\ UNCHANGED <<capacity, evictions, entered, silent, replaced, lost, zeroed, notified, cut>>

\* A thread that neither had nor has entries to count leaves the count to the others.
LEMMA NothingToCount ==
  ASSUME TypeOK, ThreadInv, NEW t \in Threads, NEW label, NEW c, Moves(t, label, c),
         UNCHANGED <<kind, hasher, clock>>,
         \A u \in Threads : u # t => removed'[u] = removed[u],
         pc[t] # "count", label # "count", NEW s
  PROVE  Uncounted(s)' = Uncounted(s)
<1>1. /\ Uncounted(s) = OthersCount(t, s) \cup ItCounts(t, s)
      /\ Uncounted(s)' = OthersCount(t, s) \cup ItCounts(t, s)'
      /\ ItCounts(t, s)' = {}
  BY UncountedParts
<1>2. ItCounts(t, s) = {}
  BY DEF ItCounts
<1> QED
  BY <1>1, <1>2

\* What a step of a thread must be shown to keep.
LEMMA CoreParts ==
  ASSUME Core, NEW t \in Threads, NEW label, NEW c, Step(t, label, c),
         ValueInv', removed' \in [Threads -> SUBSET Nat], ops' \in Nat, notified' \in SUBSET Nat,
         store' \in [Keys -> Entry \cup {Absent}], order' \in [ShardIds -> Seq(Keys)],
         OrderInv', ShardWithinCapacity', capacity' \in Tally, evictions' \in Tally,
         entered' \in Tally, silent' \in Tally, replaced' \in Tally, lost' \in Tally, zeroed' \in Tally,
         kind # "Unbound" => \A s \in ShardIds : Balanced(s) => Balanced(s)'
  PROVE  Core'
<1>1. Moves(t, label, c) /\ UNCHANGED <<kind, hasher, clock>> /\ TypeOK /\ ThreadInv /\ Accounted
  BY DEF Core, Step
<1>2. pc' \in [Threads -> Labels] /\ call' \in [Threads -> Call] /\ ThreadInv'
  BY <1>1, Moved
<1>3. Accounted'
  BY <1>1 DEF Accounted, Balanced
<1>4. kind' \in Kinds /\ hasher' \in [Keys -> ShardIds] /\ clock' \in Nat /\ ttl' \in Nat
  BY <1>1 DEF TypeOK, Step
<1>5. refresh' \in BOOLEAN
  BY <1>1 DEF TypeOK, Step
<1>6. TypeOK'
  BY <1>2, <1>4, <1>5 DEF TypeOK, Entry, Call, Ops, Labels, Kinds, LruKinds, Tally, ShardIds
<1> QED
  BY <1>2, <1>3, <1>6 DEF Core

\* Such a step keeps the core of the invariant.
LEMMA RestsKeeps ==
  ASSUME CountingLaws, Core, NEW t \in Threads, NEW label, NEW c, Rests(t, label, c)
  PROVE  Core'
<1> USE DEF Core, Step
<1>1. Moves(t, label, c) /\ UNCHANGED <<kind, hasher, clock>>
  BY DEF Rests
<1>3. ValueInv' /\ removed' \in [Threads -> SUBSET Nat] /\ ops' \in Nat
  BY <1>1, QuietValues DEF Rests, SameEntries, NoNewValues
<1>4. \A s : HeldIn(s)' = HeldIn(s) /\ Size(s)' = Size(s)
  BY <1>1 DEF Rests, SameEntries, HeldIn, Size
<1>5. \A s : Uncounted(s)' = Uncounted(s)
  <2>1. /\ \A u \in Threads : u # t => removed'[u] = removed[u]
        /\ pc[t] # "count" /\ label # "count"
    BY DEF Rests, Quiet, TypeOK
  <2> QED
    BY <1>1, <2>1, NothingToCount
<1>6. \A s \in ShardIds : Balanced(s) => Balanced(s)'
  <2>1. \A s : /\ entered'[s] = entered[s] /\ silent'[s] = silent[s] /\ replaced'[s] = replaced[s]
               /\ lost'[s] = lost[s] /\ evictions'[s] = evictions[s] /\ zeroed'[s] = zeroed[s]
    BY DEF Rests
  <2> QED
    BY <1>4, <1>5, <2>1, StillBalanced
<1>7. order' \in [ShardIds -> Seq(Keys)] /\ OrderInv' /\ ShardWithinCapacity'
  <2>1. order \in [ShardIds -> Seq(Keys)] /\ hasher \in [Keys -> ShardIds] /\ capacity' = capacity /\ cut' = cut /\ kind' = kind
    BY <1>1 DEF TypeOK, Rests
  <2>2. CASE order' = order
    BY <1>4, <2>1, <2>2 DEF OrderInv, ShardWithinCapacity, LruKinds
  <2>3. ASSUME NEW k \in Keys, Holds(k), order' = Promoted(k), kind \in LruKinds
        PROVE  order' \in [ShardIds -> Seq(Keys)] /\ OrderInv' /\ ShardWithinCapacity'
    <3> DEFINE s == hasher[k]
    <3>1. s \in ShardIds /\ k \in HeldIn(s) /\ order[s] \in Seq(Keys) /\ Lists(order[s], HeldIn(s))
      BY <2>1, <2>3 DEF HeldIn, OrderInv
    <3>2. Front(k) \in Seq(Keys) /\ Lists(Front(k), HeldIn(s))
      <4>1. HeldIn(s) \cup {k} = HeldIn(s)
        BY <3>1
      <4> QED
        BY <3>1, <4>1, FrontList DEF Front
    <3>3. Len(Front(k)) = Len(order[s])
      BY <3>1, <3>2, ListedLength
    <3>4. order' = [order EXCEPT ![s] = Front(k)]
      BY <2>3 DEF Promoted
    <3> HIDE DEF s
    <3>5. order' \in [ShardIds -> Seq(Keys)] /\ order'[s] = Front(k) /\ \A x \in ShardIds : x # s => order'[x] = order[x]
      BY <2>1, <3>1, <3>2, <3>4
    <3>6. \A x \in ShardIds : Lists(order'[x], HeldIn(x)') /\ Len(order'[x]) = Len(order[x])
      BY <1>4, <2>3, <3>2, <3>3, <3>5 DEF OrderInv
    <3> QED
      BY <2>1, <3>5, <3>6 DEF OrderInv, ShardWithinCapacity, Lists
  <2> QED
    BY <2>2, <2>3 DEF Rests, Promoted
<1>8. /\ Step(t, label, c) /\ capacity' \in Tally /\ evictions' \in Tally /\ entered' \in Tally /\ silent' \in Tally
      /\ replaced' \in Tally /\ lost' \in Tally /\ zeroed' \in Tally /\ notified' \in SUBSET Nat
  BY DEF TypeOK, Rests
<1>9. store' \in [Keys -> Entry \cup {Absent}]
  BY DEF Rests, SameEntries
<1> HIDE DEF Core, Step
<1> QED
  BY <1>3, <1>6, <1>7, <1>8, <1>9, CoreParts

\* What is left in the shards is listed in their orders.
LEMMA WithoutOrders ==
  ASSUME CountingLaws, Core, NEW keys \in SUBSET Keys, Without(keys), UNCHANGED <<kind, hasher, capacity, cut>>
  PROVE  /\ store' \in [Keys -> Entry \cup {Absent}] /\ order' \in [ShardIds -> Seq(Keys)]
         /\ OrderInv' /\ ShardWithinCapacity'
         /\ \A s : HeldIn(s)' = HeldIn(s) \ keys
<1> USE DEF Core
<1>1. /\ order \in [ShardIds -> Seq(Keys)]
      /\ order' = [s \in ShardIds |-> Pick(order[s], {i \in DOMAIN order[s] : order[s][i] \notin keys})]
      /\ store' = [k \in Keys |-> IF k \in keys THEN Absent ELSE store[k]]
  BY DEF TypeOK, Without
<1>2. store' \in [Keys -> Entry \cup {Absent}]
  BY <1>1 DEF TypeOK
<1>3. \A s : HeldIn(s)' = HeldIn(s) \ keys
  BY <1>1 DEF HeldIn, Holds
<1>4. ASSUME NEW s \in ShardIds
      PROVE  /\ order'[s] \in Seq(Keys) /\ Len(order'[s]) \in Nat /\ Len(order'[s]) <= Len(order[s])
             /\ kind \in LruKinds => Lists(order'[s], HeldIn(s) \ keys)
  <2> DEFINE I == {i \in DOMAIN order[s] : order[s][i] \notin keys}
  <2>1. order[s] \in Seq(Keys) /\ order'[s] = Pick(order[s], I) /\ I \in SUBSET DOMAIN order[s]
    BY <1>1
  <2>2. CASE kind \in LruKinds
    <3>1. Lists(order[s], HeldIn(s))
      BY <2>2 DEF OrderInv
    <3> QED
      BY <2>1, <3>1, PickedList
  <2>3. CASE kind \notin LruKinds
    <3> HIDE DEF I
    <3>1. /\ Pick(order[s], I) \in Seq(Keys) /\ Len(Pick(order[s], I)) = Cardinality(I)
          /\ Cardinality(I) \in 0..Len(order[s])
      <4>1. PicksAt(order[s], I, Keys)
        BY <2>1, PickElements
      <4> QED
        BY <4>1 DEF PicksAt
    <3>2. Len(order[s]) \in Nat
      BY SMT, <2>1
    <3> QED
      BY SMT, <2>1, <2>3, <3>1, <3>2
  <2> QED
    BY <2>2, <2>3
<1>5. order' \in [ShardIds -> Seq(Keys)]
  BY <1>1, <1>4
<1>6. OrderInv'
  BY <1>3, <1>4 DEF OrderInv, LruKinds
<1>7. ShardWithinCapacity'
  <2>1. ASSUME NEW s \in ShardIds, kind \in LruKinds, s \notin cut
        PROVE  Len(order'[s]) <= capacity[s]
    <3>1. Len(order[s]) <= capacity[s]
      BY <2>1 DEF ShardWithinCapacity
    <3>2. capacity[s] \in Nat /\ order[s] \in Seq(Keys)
      BY <1>1 DEF TypeOK, Tally
    <3>3. Len(order'[s]) \in Nat /\ Len(order'[s]) <= Len(order[s])
      BY <1>4
    <3>4. Len(order[s]) \in Nat
      BY SMT, <3>2
    <3> QED
      BY SMT, <3>1, <3>2, <3>3, <3>4
  <2> QED
    BY <2>1 DEF ShardWithinCapacity, LruKinds
<1> QED
  BY <1>2, <1>3, <1>5, <1>6, <1>7

\* Thread t takes the entries of `keys` out of the shard s, to count them later
\* or counted already; the unbound store counts none.
TakesOut(t, label, c, keys, s) ==
    /\ Step(t, label, c) /\ Takes(t, label, keys) /\ Without(keys)
    /\ s \in ShardIds /\ keys \in SUBSET HeldIn(s)
    /\ \/ label = "count" /\ Home(c) = s /\ evictions' = evictions
       \/ label = "notify" /\ evictions' = [evictions EXCEPT ![s] = @ + Cardinality(keys)]
       \/ label = "notify" /\ kind = "Unbound" /\ evictions' = evictions
    /\ UNCHANGED <<capacity, entered, silent, replaced, lost, zeroed, notified, cut>>

\* The entries that left the map are counted, or will be, in the shard they left.
LEMMA TakesOutAccounted ==
  ASSUME CountingLaws, Core, NEW t \in Threads, NEW label, NEW c, NEW keys, NEW s, TakesOut(t, label, c, keys, s),
         kind # "Unbound", \A x : HeldIn(x)' = HeldIn(x) \ keys, NEW x \in ShardIds, Balanced(x)
  PROVE  Balanced(x)'
<1> USE DEF Core, Step
<1> DEFINE vals == {store[k].val : k \in keys}
<1>1. /\ Moves(t, label, c) /\ UNCHANGED <<kind, hasher, clock>> /\ s \in ShardIds
      /\ keys \in SUBSET HeldIn(s) /\ keys \in SUBSET Keys /\ \A k \in keys : Holds(k)
  BY DEF TakesOut, HeldIn
<1>2. /\ pc[t] # "count" /\ removed'[t] = vals
      /\ \A u \in Threads : u # t => removed'[u] = removed[u]
  BY DEF TakesOut, Takes, TypeOK
<1>3. /\ Uncounted(x) = OthersCount(t, x) \cup ItCounts(t, x)
      /\ Uncounted(x)' = OthersCount(t, x) \cup ItCounts(t, x)'
      /\ ItCounts(t, x)' = IF label = "count" /\ Home(c) = x THEN vals ELSE {}
      /\ ItCounts(t, x) = {}
  <2>1. ItCounts(t, x) = {}
    BY <1>2 DEF ItCounts
  <2> QED
    BY <1>1, <1>2, <2>1, UncountedParts
<1>4. /\ entered'[x] = entered[x] /\ silent'[x] = silent[x] /\ replaced'[x] = replaced[x]
      /\ lost'[x] = lost[x] /\ zeroed'[x] = zeroed[x]
  BY DEF TakesOut
<1>5. /\ Size(x) = Cardinality(HeldIn(x)) /\ Size(x)' = Cardinality(HeldIn(x)')
      /\ IsFiniteSet(HeldIn(x)) /\ HeldIn(x)' = HeldIn(x) \ keys
  BY HeldFinite DEF HeldIn, Size
<1>6. CASE x # s
  <2>1. HeldIn(x) \ keys = HeldIn(x)
    BY <1>1, <1>6 DEF HeldIn
  <2>2. evictions'[x] = evictions[x] /\ Uncounted(x)' = Uncounted(x)
    BY <1>3, <1>6 DEF TakesOut, TypeOK, Tally
  <2> QED
    BY <1>4, <1>5, <2>1, <2>2, StillBalanced
<1>7. CASE x = s
  <2>1. /\ IsFiniteSet(vals) /\ Cardinality(vals) = Cardinality(keys) /\ Cardinality(keys) \in Nat
    BY <1>1, AsManyValues
  <2>2. PICK n \in Nat : n = Cardinality(keys)
    BY <2>1
  <2>3. Size(x) \in Nat /\ Size(x)' \in Nat /\ Size(x) = Size(x)' + n
    BY SMT, <1>1, <1>5, <1>7, <2>2, Remainder
  <2>4. /\ entered[x] \in Nat /\ silent[x] \in Nat /\ replaced[x] \in Nat /\ lost[x] \in Nat
        /\ zeroed[x] \in Nat /\ evictions[x] \in Nat
    BY DEF TypeOK, Tally
  <2>5. IsFiniteSet(Uncounted(x)) /\ Cardinality(Uncounted(x)) \in Nat
    BY UncountedFinite
  <2>6. CASE label = "count" /\ Home(c) = s /\ evictions' = evictions
    <3>1. \A v \in OthersCount(t, x) : v \notin vals
      <4>1. ASSUME NEW v \in OthersCount(t, x), v \in vals PROVE FALSE
        <5>1. PICK u \in Threads : v \in removed[u]
          BY <4>1 DEF OthersCount
        <5>2. PICK k \in keys : v = store[k].val
          BY <4>1
        <5>3. v \in Nat /\ Held(k, v) /\ InHand(u, v) /\ k \in Keys
          BY <1>1, <5>1, <5>2 DEF TypeOK, Held, InHand
        <5> QED
          BY <5>3 DEF ValueInv, OnePlace
      <4> QED
        BY <4>1
    <3>2. Uncounted(x) = OthersCount(t, x) /\ Uncounted(x)' = Uncounted(x) \cup vals
      BY <1>3, <1>7, <2>6
    <3>3. Cardinality(Uncounted(x)') = Cardinality(Uncounted(x)) + n
      <4> HIDE DEF vals
      <4> QED
        BY SMT, <2>1, <2>2, <2>5, <3>1, <3>2, Together
    <3>4. evictions'[x] = evictions[x]
      BY <2>6
    <3> QED
      BY SMT, <1>4, <2>3, <2>4, <2>5, <3>3, <3>4 DEF Balanced
  <2>7. CASE label = "notify" /\ evictions' = [evictions EXCEPT ![s] = @ + Cardinality(keys)]
    <3>1. Uncounted(x)' = Uncounted(x)
      BY <1>3, <2>7
    <3>2. evictions'[x] = evictions[x] + n
      BY <1>7, <2>2, <2>7 DEF TypeOK, Tally
    <3> QED
      BY SMT, <1>4, <2>3, <2>4, <2>5, <3>1, <3>2 DEF Balanced
  <2> QED
    BY <2>6, <2>7 DEF TakesOut
<1> QED
  BY <1>6, <1>7

\* Such a step keeps the core of the invariant.
LEMMA TakesOutKeeps ==
  ASSUME CountingLaws, Core, NEW t \in Threads, NEW label, NEW c, NEW keys, NEW s, TakesOut(t, label, c, keys, s)
  PROVE  Core'
<1> USE DEF Core, Step
<1>1. /\ Moves(t, label, c) /\ UNCHANGED <<kind, hasher, clock>> /\ Takes(t, label, keys)
      /\ Without(keys) /\ keys \in SUBSET Keys /\ UNCHANGED <<capacity, cut>> /\ UNCHANGED notified
  BY DEF TakesOut, HeldIn
<1>2. ValueInv' /\ removed' \in [Threads -> SUBSET Nat] /\ ops' \in Nat
  BY <1>1, TakenValues
<1>3. /\ store' \in [Keys -> Entry \cup {Absent}] /\ order' \in [ShardIds -> Seq(Keys)]
      /\ OrderInv' /\ ShardWithinCapacity' /\ \A x : HeldIn(x)' = HeldIn(x) \ keys
  BY <1>1, WithoutOrders
<1>4. kind # "Unbound" => \A x \in ShardIds : Balanced(x) => Balanced(x)'
  BY <1>3, TakesOutAccounted
<1>5. evictions' \in Tally
  <2>1. Cardinality(keys) \in Nat
    BY <1>1, ShardedAssumption DEF CountingLaws, SubsetLaw
  <2>2. evictions \in Tally /\ s \in ShardIds
    BY DEF TypeOK, TakesOut
  <2>3. [evictions EXCEPT ![s] = @ + Cardinality(keys)] \in Tally
    BY <2>1, <2>2, Raised
  <2> QED
    BY <2>2, <2>3 DEF TakesOut
<1>6. /\ Step(t, label, c) /\ capacity' \in Tally /\ entered' \in Tally /\ silent' \in Tally
      /\ replaced' \in Tally /\ lost' \in Tally /\ zeroed' \in Tally /\ notified' \in SUBSET Nat
  BY DEF TypeOK, TakesOut
<1> HIDE DEF Core, Step
<1> QED
  BY <1>2, <1>3, <1>4, <1>5, <1>6, CoreParts

\* The shard s is emptied, and nobody hears of it.
Clears(t, label, c, s) ==
    /\ Step(t, label, c) /\ Quiet(t, label, c) /\ s \in ShardIds /\ Without(HeldIn(s))
    /\ silent' = [silent EXCEPT ![s] = @ + Cardinality(HeldIn(s))]
    /\ UNCHANGED <<capacity, evictions, entered, replaced, lost, zeroed, notified, cut>>

\* Such a step keeps the core of the invariant.
LEMMA ClearsKeeps ==
  ASSUME CountingLaws, Core, NEW t \in Threads, NEW label, NEW c, NEW s, Clears(t, label, c, s)
  PROVE  Core'
<1> USE DEF Core, Step
<1>1. /\ Moves(t, label, c) /\ UNCHANGED <<kind, hasher, clock>> /\ Quiet(t, label, c)
      /\ UNCHANGED <<capacity, cut>> /\ UNCHANGED notified /\ s \in ShardIds
      /\ HeldIn(s) \in SUBSET Keys /\ Without(HeldIn(s))
  BY DEF Clears, HeldIn
<1>2. /\ store' \in [Keys -> Entry \cup {Absent}] /\ order' \in [ShardIds -> Seq(Keys)]
      /\ OrderInv' /\ ShardWithinCapacity' /\ \A x : HeldIn(x)' = HeldIn(x) \ HeldIn(s)
  BY <1>1, WithoutOrders
<1>3. ValueInv' /\ removed' \in [Threads -> SUBSET Nat] /\ ops' \in Nat
  <2>1. NoNewValues
    BY <1>1 DEF Without, NoNewValues, Holds
  <2> QED
    BY <1>1, <2>1, QuietValues
<1>4. \A x : Uncounted(x)' = Uncounted(x)
  <2>1. /\ \A u \in Threads : u # t => removed'[u] = removed[u]
        /\ pc[t] # "count" /\ label # "count"
    BY <1>1 DEF Quiet, TypeOK
  <2> QED
    BY <1>1, <2>1, NothingToCount
<1>5. /\ \A x : Size(x) = Cardinality(HeldIn(x)) /\ Size(x)' = Cardinality(HeldIn(x)')
      /\ \A x : x # s => HeldIn(x) \ HeldIn(s) = HeldIn(x)
  BY DEF HeldIn, Size
<1>6. Size(s) \in Nat /\ Size(s)' = 0 /\ \A x : x # s => Size(x)' = Size(x)
  <2>1. HeldIn(s)' = {} /\ \A x : x # s => HeldIn(x)' = HeldIn(x)
    BY <1>2, <1>5
  <2> QED
    BY <1>5, <2>1, HeldFinite DEF CountingLaws, EmptyLaw
<1>7. /\ silent' \in Tally /\ silent'[s] = silent[s] + Size(s)
      /\ \A x \in ShardIds : x # s => silent'[x] = silent[x]
  BY SMT, <1>1, <1>5, <1>6 DEF TypeOK, Tally, Clears
<1>8. \A x : /\ entered'[x] = entered[x] /\ replaced'[x] = replaced[x] /\ lost'[x] = lost[x]
             /\ evictions'[x] = evictions[x] /\ zeroed'[x] = zeroed[x]
  BY DEF Clears
<1>9. ASSUME NEW x \in ShardIds, Balanced(x)
      PROVE  Balanced(x)'
  <2>1. CASE x # s
    BY <1>4, <1>6, <1>7, <1>8, <1>9, <2>1, StillBalanced
  <2>2. CASE x = s
    <3>1. /\ entered[x] \in Nat /\ silent[x] \in Nat /\ replaced[x] \in Nat /\ lost[x] \in Nat
          /\ zeroed[x] \in Nat /\ evictions[x] \in Nat /\ Cardinality(Uncounted(x)) \in Nat
      BY UncountedFinite DEF TypeOK, Tally
    <3> QED
      BY SMT, <1>4, <1>6, <1>7, <1>8, <1>9, <2>2, <3>1 DEF Balanced
  <2> QED
    BY <2>1, <2>2
<1>10. /\ Step(t, label, c) /\ capacity' \in Tally /\ entered' \in Tally /\ evictions' \in Tally
       /\ replaced' \in Tally /\ lost' \in Tally /\ zeroed' \in Tally /\ notified' \in SUBSET Nat
  BY DEF TypeOK, Clears
<1> HIDE DEF Core, Step
<1> QED
  BY <1>2, <1>3, <1>7, <1>9, <1>10, CoreParts

\* The counters of the shard s are zeroed.
Zeroes(t, label, c, s) ==
    /\ Step(t, label, c) /\ Quiet(t, label, c) /\ s \in ShardIds
    /\ evictions' = [evictions EXCEPT ![s] = 0]
    /\ zeroed' = [zeroed EXCEPT ![s] = @ + evictions[s]]
    /\ UNCHANGED <<store, order, capacity, entered, silent, replaced, lost, notified, cut>>

\* Such a step keeps the core of the invariant.
LEMMA ZeroesKeeps ==
  ASSUME CountingLaws, Core, NEW t \in Threads, NEW label, NEW c, NEW s, Zeroes(t, label, c, s)
  PROVE  Core'
<1> USE DEF Core, Step
<1>1. /\ Moves(t, label, c) /\ UNCHANGED <<kind, hasher, clock>> /\ Quiet(t, label, c)
      /\ UNCHANGED <<store, order, capacity, cut>> /\ UNCHANGED notified /\ s \in ShardIds
  BY DEF Zeroes
<1>2. ValueInv' /\ removed' \in [Threads -> SUBSET Nat] /\ ops' \in Nat
  <2>1. NoNewValues
    BY <1>1 DEF NoNewValues, Holds
  <2> QED
    BY <1>1, <2>1, QuietValues
<1>3. \A x : Uncounted(x)' = Uncounted(x) /\ HeldIn(x)' = HeldIn(x) /\ Size(x)' = Size(x)
  <2>1. /\ \A u \in Threads : u # t => removed'[u] = removed[u]
        /\ pc[t] # "count" /\ label # "count"
    BY <1>1 DEF Quiet, TypeOK
  <2>2. \A x : HeldIn(x)' = HeldIn(x) /\ Size(x)' = Size(x)
    BY <1>1 DEF HeldIn, Size, Holds
  <2> QED
    BY <1>1, <2>1, <2>2, NothingToCount
<1>4. /\ store' \in [Keys -> Entry \cup {Absent}] /\ order' \in [ShardIds -> Seq(Keys)]
      /\ OrderInv' /\ ShardWithinCapacity'
  BY <1>1, <1>3 DEF TypeOK, OrderInv, ShardWithinCapacity, LruKinds
<1>5. /\ evictions' \in Tally /\ zeroed' \in Tally
      /\ evictions'[s] = 0 /\ zeroed'[s] = zeroed[s] + evictions[s]
      /\ \A x \in ShardIds : x # s => evictions'[x] = evictions[x] /\ zeroed'[x] = zeroed[x]
  BY SMT, <1>1 DEF TypeOK, Tally, Zeroes
<1>6. \A x : /\ entered'[x] = entered[x] /\ replaced'[x] = replaced[x] /\ lost'[x] = lost[x]
             /\ silent'[x] = silent[x]
  BY DEF Zeroes
<1>7. ASSUME NEW x \in ShardIds, Balanced(x)
      PROVE  Balanced(x)'
  <2>1. CASE x # s
    BY <1>3, <1>5, <1>6, <1>7, <2>1, StillBalanced
  <2>2. CASE x = s
    <3>1. /\ entered[x] \in Nat /\ silent[x] \in Nat /\ replaced[x] \in Nat /\ lost[x] \in Nat
          /\ zeroed[x] \in Nat /\ evictions[x] \in Nat /\ Cardinality(Uncounted(x)) \in Nat /\ Size(x) \in Nat
      BY UncountedFinite, HeldFinite DEF TypeOK, Tally
    <3> QED
      BY SMT, <1>3, <1>5, <1>6, <1>7, <2>2, <3>1 DEF Balanced
  <2> QED
    BY <2>1, <2>2
<1>8. /\ Step(t, label, c) /\ capacity' \in Tally /\ entered' \in Tally /\ silent' \in Tally
      /\ replaced' \in Tally /\ lost' \in Tally /\ notified' \in SUBSET Nat
  BY DEF TypeOK, Zeroes
<1> HIDE DEF Core, Step
<1> QED
  BY <1>2, <1>4, <1>5, <1>7, <1>8, CoreParts

\* What storing an entry under k does to the order of its shard: n entries, those
\* of `gone`, make room for it.  After a panic there may be entries too many.
MakesRoom(k, n, gone) ==
    \/ kind \notin LruKinds /\ n = 0 /\ gone = {} /\ UNCHANGED <<order, cut>>
    \/ /\ kind \in LruKinds /\ n \in Nat /\ n <= Len(Front(k)) /\ gone = Victims(Front(k), n)
       /\ order' = [order EXCEPT ![hasher[k]] = SubSeq(Front(k), 1, Len(Front(k)) - n)]
       /\ \/ cut' = cut /\ n # 0
          \/ cut' = cut \ {hasher[k]} /\ Len(Front(k)) - n <= capacity[hasher[k]]

\* The shard of k has one entry more if it had none for k, and n fewer.
LEMMA RoomMade ==
  ASSUME CountingLaws, Core,
         NEW k \in Keys, NEW e \in Entry, NEW n, NEW gone, MakesRoom(k, n, gone), NEW s, s = hasher[k],
         UNCHANGED <<kind, hasher, capacity>>,
         store' = [j \in Keys |-> IF j \in gone THEN Absent ELSE [store EXCEPT ![k] = e][j]]
  PROVE  /\ order' \in [ShardIds -> Seq(Keys)] /\ OrderInv' /\ ShardWithinCapacity' /\ n \in Nat
         /\ \A x : x # s => Size(x)' = Size(x)
         /\ Size(s)' \in Nat /\ Size(s)' + n = Size(s) + (IF Holds(k) THEN 0 ELSE 1)
         /\ \A j \in gone : j = k \/ j \in HeldIn(s)
<1> USE DEF Core
<1> DEFINE all == HeldIn(s) \cup {k}
<1>1. /\ s \in ShardIds /\ order \in [ShardIds -> Seq(Keys)] /\ capacity \in Tally
      /\ store \in [Keys -> Entry \cup {Absent}] /\ e # Absent
  BY ShardedAssumption DEF TypeOK, Entry
<1>2. /\ \A x : HeldIn(x) = {j \in Keys : hasher[j] = x /\ store[j] # Absent}
      /\ \A x : HeldIn(x)' = {j \in Keys : hasher[j] = x /\ store'[j] # Absent}
      /\ \A x : Size(x) = Cardinality(HeldIn(x)) /\ Size(x)' = Cardinality(HeldIn(x)')
  BY DEF HeldIn, Holds, Size
<1>3. \A j \in Keys : store'[j] # Absent <=> j \notin gone /\ (j = k \/ store[j] # Absent)
  BY <1>1
<1>4. HeldIn(s)' = all \ gone /\ \A x : x # s => HeldIn(x)' = HeldIn(x) \ gone
  BY <1>2, <1>3
<1>5. /\ IsFiniteSet(HeldIn(s)) /\ IsFiniteSet(all) /\ Size(s) \in Nat
      /\ Cardinality(all) = Size(s) + (IF Holds(k) THEN 0 ELSE 1)
  <2>1. IsFiniteSet(HeldIn(s)) /\ Size(s) \in Nat
    BY HeldFinite
  <2>2. CASE Holds(k)
    <3>1. all = HeldIn(s)
      BY <2>2 DEF HeldIn
    <3>2. Cardinality(all) = Size(s)
      BY <1>2, <3>1
    <3> HIDE DEF all
    <3> QED
      BY SMT, <2>1, <2>2, <3>1, <3>2
  <2>3. CASE ~Holds(k)
    <3>1. k \notin HeldIn(s)
      BY <2>3 DEF HeldIn
    <3>2. IsFiniteSet(all) /\ Cardinality(all) = Cardinality(HeldIn(s)) + 1
      BY <2>1, <3>1 DEF CountingLaws, AddLaw
    <3> QED
      BY <1>2, <2>1, <2>3, <3>2
  <2> QED
    BY <2>2, <2>3
<1>6. Size(s)' = Cardinality(all \ gone)
  BY <1>2, <1>4
<1> HIDE DEF all
<1>7. CASE kind \notin LruKinds /\ n = 0 /\ gone = {} /\ UNCHANGED <<order, cut>>
  <2>1. /\ all \ gone = all /\ \A x : x # s => HeldIn(x)' = HeldIn(x)
    BY <1>4, <1>7
  <2>2. \A x : x # s => Size(x)' = Size(x)
    BY <1>2, <2>1
  <2>3. Size(s)' \in Nat /\ Size(s)' + n = Size(s) + (IF Holds(k) THEN 0 ELSE 1)
    BY SMT, <1>5, <1>6, <1>7, <2>1
  <2>4. OrderInv' /\ ShardWithinCapacity'
    BY <1>7 DEF OrderInv, ShardWithinCapacity, LruKinds
  <2> QED
    BY <1>1, <1>7, <2>2, <2>3, <2>4
<1>8. CASE /\ kind \in LruKinds /\ n \in Nat /\ n <= Len(Front(k)) /\ gone = Victims(Front(k), n)
           /\ order' = [order EXCEPT ![s] = SubSeq(Front(k), 1, Len(Front(k)) - n)]
           /\ \/ cut' = cut /\ n # 0
              \/ cut' = cut \ {s} /\ Len(Front(k)) - n <= capacity[s]
  <2> DEFINE rest == SubSeq(Front(k), 1, Len(Front(k)) - n)
  <2>1. order[s] \in Seq(Keys) /\ Lists(order[s], HeldIn(s))
    BY <1>1, <1>8 DEF OrderInv
  <2>2. Front(k) \in Seq(Keys) /\ Lists(Front(k), all)
    BY <2>1, FrontList DEF Front, all
  <2>3. Len(order[s]) = Size(s) /\ Len(Front(k)) = Cardinality(all) /\ Len(Front(k)) \in Nat
    BY <1>2, <2>1, <2>2, ListedLength
  <2>4. /\ rest \in Seq(Keys) /\ Len(rest) = Len(Front(k)) - n
        /\ Lists(rest, all \ gone) /\ gone \in SUBSET all
    BY <1>8, <2>2, TrimmedList
  <2>5. Len(rest) \in Nat /\ Len(rest) = Cardinality(all \ gone)
    BY <2>4, ListedLength
  <2> HIDE DEF rest
  <2>6. /\ order' \in [ShardIds -> Seq(Keys)] /\ order'[s] = rest
        /\ \A x \in ShardIds : x # s => order'[x] = order[x]
    BY <1>1, <1>8, <2>4 DEF rest
  <2>7. \A x : x # s => HeldIn(x)' = HeldIn(x)
    <3>1. \A j \in gone : hasher[j] = s
      BY <2>4 DEF all, HeldIn
    <3>2. \A x : x # s => HeldIn(x) \ gone = HeldIn(x)
      BY <3>1 DEF HeldIn
    <3> QED
      BY <1>4, <3>2
  <2>8. Size(s)' \in Nat /\ Size(s)' + n = Size(s) + (IF Holds(k) THEN 0 ELSE 1)
    BY SMT, <1>5, <1>6, <1>8, <2>3, <2>4, <2>5
  <2>9. OrderInv'
    <3>1. \A x \in ShardIds : Lists(order[x], HeldIn(x))
      BY <1>8 DEF OrderInv
    <3>2. \A x \in ShardIds : Lists(order'[x], HeldIn(x)')
      BY <1>4, <2>4, <2>6, <2>7, <3>1
    <3> QED
      BY <3>2 DEF OrderInv, Lists
  <2>10. ShardWithinCapacity'
    <3>1. ASSUME s \notin cut' PROVE Len(rest) <= capacity[s]
      <4>1. CASE cut' = cut \ {s} /\ Len(Front(k)) - n <= capacity[s]
        BY <2>4, <4>1
      <4>2. CASE cut' = cut /\ n # 0
        <5>1. Len(order[s]) <= capacity[s] /\ capacity[s] \in Nat
          BY <1>1, <1>8, <3>1, <4>2 DEF ShardWithinCapacity, Tally
        <5>2. Len(Front(k)) <= Size(s) + 1
          BY SMT, <1>5, <2>3
        <5> QED
          BY SMT, <1>5, <1>8, <2>3, <2>4, <4>2, <5>1, <5>2
      <4> QED
        BY <1>8, <4>1, <4>2
    <3>2. \A x \in ShardIds : x # s /\ x \notin cut' => x \notin cut
      BY <1>8
    <3> QED
      BY <1>8, <2>6, <3>1, <3>2 DEF ShardWithinCapacity, LruKinds
  <2>11. \A x : x # s => Size(x)' = Size(x)
    BY <1>2, <2>7
  <2>12. \A j \in gone : j = k \/ j \in HeldIn(s)
    BY <2>4 DEF all
  <2> QED
    BY <1>8, <2>6, <2>8, <2>9, <2>10, <2>11, <2>12
<1> QED
  BY <1>7, <1>8 DEF MakesRoom

\* What becomes of the entry that a set displaces: there was none; it is dropped,
\* as overwritten or with its fate undecided; thread t counts it later; or it is
\* counted already, as `extra`.
Settles(t, label, c, k, extra) ==
    \/ /\ label \notin {"count", "notify"} /\ extra = 0
       /\ \/ ~Holds(k) /\ UNCHANGED <<replaced, lost>>
          \/ Holds(k) /\ replaced' = Counted(replaced, k, 1) /\ UNCHANGED lost
          \/ Holds(k) /\ lost' = Counted(lost, k, 1) /\ UNCHANGED replaced
    \/ label = "count" /\ Holds(k) /\ Home(c) = hasher[k] /\ extra = 0 /\ UNCHANGED <<replaced, lost>>
    \/ label = "notify" /\ Holds(k) /\ extra = 1 /\ UNCHANGED <<replaced, lost>>

\* Thread t stores e under k, in a store that counts the n entries that make room
\* for it and `extra` more.
Sets(t, label, c, k, e, n, extra, gone) ==
    /\ Step(t, label, c) /\ Stores(t, label, k, e, gone)
    /\ MakesRoom(k, n, gone) /\ Settles(t, label, c, k, extra)
    /\ evictions' = [evictions EXCEPT ![hasher[k]] = @ + n + extra]
    /\ entered' = Counted(entered, k, 1)
    /\ UNCHANGED <<capacity, silent, zeroed>>

\* Such a step keeps every shard's account.
LEMMA SetsAccounted ==
  ASSUME CountingLaws, Core, NEW t \in Threads, NEW label, NEW c, NEW k, NEW e, NEW n, NEW extra, NEW gone,
         Sets(t, label, c, k, e, n, extra, gone), NEW x \in ShardIds, Balanced(x),
         n \in Nat, NEW s, s = hasher[k], \A y : y # s => Size(y)' = Size(y),
         Size(s)' \in Nat, Size(s)' + n = Size(s) + (IF Holds(k) THEN 0 ELSE 1)
  PROVE  Balanced(x)'
<1> USE DEF Core, Step
<1>1. /\ Moves(t, label, c) /\ UNCHANGED <<kind, hasher, clock>> /\ k \in Keys /\ s \in ShardIds
      /\ pc[t] # "count" /\ extra \in Nat
      /\ \A u \in Threads : u # t => removed'[u] = removed[u]
      /\ label = "count" => removed'[t] = {store[k].val}
  BY SMT DEF Sets, Stores, Settles, TypeOK
<1>2. /\ Uncounted(x) = OthersCount(t, x)
      /\ Uncounted(x)' = OthersCount(t, x) \cup (IF label = "count" /\ Home(c) = x THEN {store[k].val} ELSE {})
  <2>1. /\ Uncounted(x) = OthersCount(t, x) \cup ItCounts(t, x)
        /\ Uncounted(x)' = OthersCount(t, x) \cup ItCounts(t, x)'
        /\ ItCounts(t, x)' = IF label = "count" /\ Home(c) = x THEN removed'[t] ELSE {}
    BY <1>1, UncountedParts
  <2>2. ItCounts(t, x) = {}
    BY <1>1 DEF ItCounts
  <2> QED
    BY <1>1, <2>1, <2>2
<1>3. silent'[x] = silent[x] /\ zeroed'[x] = zeroed[x]
  BY DEF Sets
<1>4. CASE x # s
  <2>1. /\ entered'[x] = entered[x] /\ evictions'[x] = evictions[x]
    BY <1>1, <1>4 DEF Sets, Counted, TypeOK, Tally
  <2>2. replaced'[x] = replaced[x] /\ lost'[x] = lost[x]
    BY <1>1, <1>4 DEF Sets, Settles, Counted, TypeOK, Tally
  <2>3. label = "count" => Home(c) # x
    BY <1>4 DEF Sets, Settles
  <2>4. Uncounted(x)' = Uncounted(x)
    BY <1>2, <2>3
  <2> QED
    BY <1>3, <1>4, <2>1, <2>2, <2>4, StillBalanced
<1>5. CASE x = s
  <2>1. /\ entered[s] \in Nat /\ silent[s] \in Nat /\ replaced[s] \in Nat /\ lost[s] \in Nat
        /\ zeroed[s] \in Nat /\ evictions[s] \in Nat /\ Size(s) \in Nat
    BY <1>1, HeldFinite DEF TypeOK, Tally
  <2>2. IsFiniteSet(Uncounted(s)) /\ Cardinality(Uncounted(s)) \in Nat
    BY UncountedFinite
  <2>3. entered'[s] = entered[s] + 1 /\ evictions'[s] = evictions[s] + n + extra
    BY <1>1 DEF Sets, Counted, TypeOK, Tally
  <2>4. Holds(k) => Cardinality(Uncounted(s) \cup {store[k].val}) = Cardinality(Uncounted(s)) + 1
    <3>1. ASSUME Holds(k) PROVE store[k].val \notin Uncounted(s)
      <4>1. store[k].val \in Nat /\ Held(k, store[k].val)
        BY <1>1, <3>1 DEF TypeOK, Entry, Holds, Held
      <4>2. \A u \in Threads : store[k].val \notin removed[u]
        BY <1>1, <4>1 DEF ValueInv, OnePlace, InHand
      <4> QED
        BY <4>2 DEF Uncounted
    <3> QED
      BY <2>2, <3>1 DEF CountingLaws, AddLaw
  <2>5. PICK d \in Nat, dr \in Nat, dl \in Nat, du \in Nat :
           /\ d = (IF Holds(k) THEN 0 ELSE 1) /\ d + dr + dl + extra + du = 1
           /\ replaced'[s] = replaced[s] + dr /\ lost'[s] = lost[s] + dl
           /\ Cardinality(Uncounted(s)') = Cardinality(Uncounted(s)) + du
    <3>1. CASE label \notin {"count", "notify"} /\ extra = 0
      <4>1. Uncounted(s)' = Uncounted(s)
        BY <1>2, <1>5, <3>1
      <4>2. CASE ~Holds(k) /\ UNCHANGED <<replaced, lost>>
        <5> WITNESS 1 \in Nat, 0 \in Nat, 0 \in Nat, 0 \in Nat
        <5> QED
          BY <2>1, <2>2, <3>1, <4>1, <4>2, OneOfFive, PlusZero
      <4>3. CASE Holds(k) /\ replaced' = Counted(replaced, k, 1) /\ UNCHANGED lost
        <5>1. replaced'[s] = replaced[s] + 1 /\ lost'[s] = lost[s]
          BY <1>1, <4>3 DEF Counted, TypeOK, Tally
        <5> WITNESS 0 \in Nat, 1 \in Nat, 0 \in Nat, 0 \in Nat
        <5> QED
          BY <2>1, <2>2, <3>1, <4>1, <4>3, <5>1, OneOfFive, PlusZero
      <4>4. CASE Holds(k) /\ lost' = Counted(lost, k, 1) /\ UNCHANGED replaced
        <5>1. lost'[s] = lost[s] + 1 /\ replaced'[s] = replaced[s]
          BY <1>1, <4>4 DEF Counted, TypeOK, Tally
        <5> WITNESS 0 \in Nat, 0 \in Nat, 1 \in Nat, 0 \in Nat
        <5> QED
          BY <2>1, <2>2, <3>1, <4>1, <4>4, <5>1, OneOfFive, PlusZero
      <4> QED
        BY <3>1, <4>2, <4>3, <4>4 DEF Sets, Settles
    <3>2. CASE label = "count" /\ Holds(k) /\ Home(c) = s /\ extra = 0 /\ UNCHANGED <<replaced, lost>>
      <4>1. Uncounted(s)' = Uncounted(s) \cup {store[k].val}
        BY <1>2, <1>5, <3>2
      <4> WITNESS 0 \in Nat, 0 \in Nat, 0 \in Nat, 1 \in Nat
      <4> QED
        BY <2>1, <2>2, <2>4, <3>2, <4>1, OneOfFive, PlusZero
    <3>3. CASE label = "notify" /\ Holds(k) /\ extra = 1 /\ UNCHANGED <<replaced, lost>>
      <4>1. Uncounted(s)' = Uncounted(s)
        BY <1>2, <1>5, <3>3
      <4> WITNESS 0 \in Nat, 0 \in Nat, 0 \in Nat, 0 \in Nat
      <4> QED
        BY <2>1, <2>2, <3>3, <4>1, OneOfFive, PlusZero
    <3> QED
      BY <3>1, <3>2, <3>3 DEF Sets, Settles
  <2>6. Balanced(s)
    BY <1>5
  <2>7. silent'[s] = silent[s] /\ zeroed'[s] = zeroed[s] /\ Size(s)' + n = Size(s) + d /\ Size(s)' \in Nat
    BY <1>3, <1>5, <2>5
  <2>8. Sums(entered[s] + 1, Size(s)', silent[s], replaced[s] + dr, lost[s] + dl, evictions[s] + n + extra,
             zeroed[s], Cardinality(Uncounted(s)) + du)
    <3>1. Sums(entered[s], Size(s), silent[s], replaced[s], lost[s], evictions[s], zeroed[s], Cardinality(Uncounted(s)))
      BY <2>6 DEF Balanced, Sums
    <3>2. Gains(Size(s), Size(s)', n, d, dr, dl, extra, du)
      BY <1>1, <2>5, <2>7 DEF Gains
    <3> QED
      BY <2>1, <2>2, <3>1, <3>2, OneMore
  <2> QED
    BY <1>5, <2>3, <2>5, <2>7, <2>8 DEF Balanced, Sums
<1> QED
  BY <1>4, <1>5

\* Such a step keeps the core of the invariant.
LEMMA SetsKeeps ==
  ASSUME CountingLaws, Core, NEW t \in Threads, NEW label, NEW c, NEW k, NEW e, NEW n, NEW extra, NEW gone,
         Sets(t, label, c, k, e, n, extra, gone)
  PROVE  Core'
<1> USE DEF Core, Step
<1>1. /\ Moves(t, label, c) /\ UNCHANGED <<kind, hasher, clock>> /\ UNCHANGED <<kind, hasher, capacity>>
      /\ Stores(t, label, k, e, gone) /\ MakesRoom(k, n, gone) /\ k \in Keys /\ e \in Entry
      /\ store' = [j \in Keys |-> IF j \in gone THEN Absent ELSE [store EXCEPT ![k] = e][j]]
  BY DEF Sets, Stores
<1>2. /\ ValueInv' /\ removed' \in [Threads -> SUBSET Nat] /\ ops' \in Nat
      /\ notified' \in SUBSET Nat
  BY <1>1, StoredValues
<1>20. PICK s \in ShardIds : s = hasher[k]
  BY <1>1 DEF TypeOK
<1>3. /\ order' \in [ShardIds -> Seq(Keys)] /\ OrderInv' /\ ShardWithinCapacity' /\ n \in Nat
      /\ \A x : x # s => Size(x)' = Size(x)
      /\ Size(s)' \in Nat /\ Size(s)' + n = Size(s) + (IF Holds(k) THEN 0 ELSE 1)
  BY SMT, <1>1, <1>20, RoomMade
<1>4. \A x \in ShardIds : Balanced(x) => Balanced(x)'
  BY <1>3, <1>20, SetsAccounted
<1>5. store' \in [Keys -> Entry \cup {Absent}]
  BY <1>1 DEF TypeOK
<1>6. extra \in Nat
  BY SMT DEF Sets, Settles
<1>7. evictions' \in Tally /\ entered' \in Tally
  <2>1. evictions \in Tally /\ entered \in Tally /\ n + extra \in Nat
    BY SMT, <1>3, <1>6 DEF TypeOK
  <2>2. evictions[s] + n + extra = evictions[s] + (n + extra)
    BY SMT, <1>3, <1>6, <1>20, <2>1 DEF Tally
  <2>3. evictions' = [evictions EXCEPT ![s] = @ + (n + extra)] /\ entered' = [entered EXCEPT ![s] = @ + 1]
    BY <1>20, <2>2 DEF Sets, Counted
  <2> QED
    BY <1>20, <2>1, <2>3, Raised
<1>8. replaced' \in Tally /\ lost' \in Tally
  <2>1. replaced \in Tally /\ lost \in Tally
    BY DEF TypeOK
  <2>2. Counted(replaced, k, 1) \in Tally /\ Counted(lost, k, 1) \in Tally
    BY <1>20, <2>1, Raised DEF Counted
  <2> QED
    BY <2>1, <2>2 DEF Sets, Settles
<1>9. Step(t, label, c) /\ capacity' \in Tally /\ silent' \in Tally /\ zeroed' \in Tally
  BY DEF TypeOK, Sets
<1> HIDE DEF Core, Step
<1> QED
  BY <1>2, <1>3, <1>4, <1>5, <1>7, <1>8, <1>9, CoreParts

\* The shard s gets the bound cap, and n entries leave it.
Shrinks(t, label, c, s, cap, n) ==
    /\ Step(t, label, c) /\ Quiet(t, label, c) /\ label # "write"
    /\ kind \in LruKinds /\ s \in ShardIds /\ cap \in Nat /\ n \in Nat /\ n <= Len(order[s])
    /\ Evicts(Victims(order[s], n))
    /\ order' = [order EXCEPT ![s] = SubSeq(order[s], 1, Len(order[s]) - n)]
    /\ evictions' = [evictions EXCEPT ![s] = @ + n]
    /\ capacity' = [capacity EXCEPT ![s] = cap]
    /\ cut' = IF Len(order[s]) - n > cap THEN cut \cup {s} ELSE cut \ {s}
    /\ UNCHANGED <<entered, silent, replaced, lost, zeroed>>

\* Such a step keeps the core of the invariant.
LEMMA ShrinksKeeps ==
  ASSUME CountingLaws, Core, NEW t \in Threads, NEW label, NEW c, NEW s, NEW cap, NEW n, Shrinks(t, label, c, s, cap, n)
  PROVE  Core'
<1> USE DEF Core, Step
<1> DEFINE rest == SubSeq(order[s], 1, Len(order[s]) - n)
           gone == Victims(order[s], n)
<1>1. /\ Moves(t, label, c) /\ UNCHANGED <<kind, hasher, clock>> /\ Quiet(t, label, c)
      /\ label # "write" /\ Evicts(gone) /\ s \in ShardIds /\ cap \in Nat /\ n \in Nat
      /\ n <= Len(order[s]) /\ kind \in LruKinds
      /\ store' = [k \in Keys |-> IF k \in gone THEN Absent ELSE store[k]]
  BY DEF Shrinks, Evicts
<1>2. /\ ValueInv' /\ removed' \in [Threads -> SUBSET Nat] /\ ops' \in Nat
      /\ notified' \in SUBSET Nat
  BY <1>1, EvictedValues
<1>3. /\ order \in [ShardIds -> Seq(Keys)] /\ order[s] \in Seq(Keys) /\ Lists(order[s], HeldIn(s))
      /\ Len(order[s]) \in Nat
  BY SMT, <1>1 DEF TypeOK, OrderInv
<1>4. /\ rest \in Seq(Keys) /\ Len(rest) = Len(order[s]) - n
      /\ Lists(rest, HeldIn(s) \ gone)
      /\ gone \in SUBSET HeldIn(s) /\ Cardinality(gone) = n
  BY <1>1, <1>3, TrimmedList
<1> HIDE DEF gone
<1>5. HeldIn(s)' = HeldIn(s) \ gone /\ \A x : x # s => HeldIn(x)' = HeldIn(x)
  BY <1>1, <1>4 DEF HeldIn, Holds
<1>6. \A x : Size(x) = Cardinality(HeldIn(x)) /\ Size(x)' = Cardinality(HeldIn(x)')
  BY DEF HeldIn, Size
<1>7. Size(s) \in Nat /\ Size(s)' \in Nat /\ Size(s) = Size(s)' + n
  <2>1. IsFiniteSet(HeldIn(s))
    BY HeldFinite
  <2> QED
    BY <1>4, <1>5, <1>6, <2>1, Remainder
<1>8. \A x : Uncounted(x)' = Uncounted(x)
  <2>1. /\ \A u \in Threads : u # t => removed'[u] = removed[u]
        /\ pc[t] # "count" /\ label # "count"
    BY <1>1 DEF Quiet, TypeOK
  <2> QED
    BY <1>1, <2>1, NothingToCount
<1> HIDE DEF rest
<1>9. /\ order' \in [ShardIds -> Seq(Keys)] /\ order'[s] = rest
      /\ \A x \in ShardIds : x # s => order'[x] = order[x]
  BY <1>1, <1>3, <1>4 DEF Shrinks, rest
<1>10. /\ capacity' \in Tally /\ capacity'[s] = cap /\ \A x \in ShardIds : x # s => capacity'[x] = capacity[x]
  BY <1>1 DEF Shrinks, TypeOK, Tally
<1>11. OrderInv'
  BY <1>1, <1>4, <1>5, <1>9 DEF OrderInv, LruKinds
<1>12. ShardWithinCapacity'
  <2>1. s \notin cut' => Len(rest) <= cap
    BY SMT, <1>1, <1>3, <1>4 DEF Shrinks
  <2>2. \A x \in ShardIds : x # s /\ x \notin cut' => x \notin cut
    BY DEF Shrinks
  <2> QED
    BY <1>1, <1>9, <1>10, <2>1, <2>2 DEF ShardWithinCapacity, LruKinds
<1>13. /\ evictions' \in Tally /\ evictions'[s] = evictions[s] + n
       /\ \A x \in ShardIds : x # s => evictions'[x] = evictions[x]
  <2>1. evictions \in Tally /\ evictions' = [evictions EXCEPT ![s] = @ + n]
    BY DEF Shrinks, TypeOK
  <2>2. s \in ShardIds /\ n \in Nat
    BY <1>1
  <2> QED
    BY SMT, <2>1, <2>2 DEF Tally
<1>14. \A x : /\ entered'[x] = entered[x] /\ replaced'[x] = replaced[x] /\ lost'[x] = lost[x]
              /\ silent'[x] = silent[x] /\ zeroed'[x] = zeroed[x]
  BY DEF Shrinks
<1>15. ASSUME NEW x \in ShardIds, Balanced(x)
       PROVE  Balanced(x)'
  <2>1. CASE x # s
    BY <1>5, <1>6, <1>8, <1>13, <1>14, <1>15, <2>1, StillBalanced
  <2>2. CASE x = s
    <3>1. /\ entered[s] \in Nat /\ silent[s] \in Nat /\ replaced[s] \in Nat /\ lost[s] \in Nat
          /\ zeroed[s] \in Nat /\ evictions[s] \in Nat /\ Cardinality(Uncounted(s)) \in Nat /\ n \in Nat
      BY <1>1, UncountedFinite DEF TypeOK, Tally
    <3>2. Balanced(s)
      BY <1>15, <2>2
    <3>3. Sums(entered[s], Size(s)' + n, silent[s], replaced[s], lost[s], evictions[s], zeroed[s],
               Cardinality(Uncounted(s)))
      BY <1>7, <3>2 DEF Balanced, Sums
    <3>4. Sums(entered[s], Size(s)', silent[s], replaced[s], lost[s], evictions[s] + n, zeroed[s],
               Cardinality(Uncounted(s)))
      BY <1>7, <3>1, <3>3, FirstMoves
    <3> QED
      BY <1>8, <1>13, <1>14, <2>2, <3>4 DEF Balanced, Sums
  <2> QED
    BY <2>1, <2>2
<1>16. store' \in [Keys -> Entry \cup {Absent}]
  BY <1>1 DEF TypeOK
<1>17. /\ Step(t, label, c) /\ entered' \in Tally /\ silent' \in Tally /\ replaced' \in Tally
       /\ lost' \in Tally /\ zeroed' \in Tally
  BY DEF TypeOK, Shrinks
<1> HIDE DEF Core, Step
<1> QED
  BY <1>2, <1>9, <1>10, <1>11, <1>12, <1>13, <1>15, <1>16, <1>17, CoreParts

\* The map, the orders and the accounts are left alone.
Aside == UNCHANGED <<store, order, capacity, entered, silent, replaced, lost, zeroed, cut>>

\* Then they are as they were.
LEMMA AsideKeeps ==
  ASSUME Core, Aside, UNCHANGED <<kind, hasher>>
  PROVE  /\ store' \in [Keys -> Entry \cup {Absent}] /\ order' \in [ShardIds -> Seq(Keys)]
         /\ OrderInv' /\ ShardWithinCapacity' /\ capacity' \in Tally
         /\ entered' \in Tally /\ silent' \in Tally /\ replaced' \in Tally /\ lost' \in Tally /\ zeroed' \in Tally
         /\ \A x : Size(x)' = Size(x)
         /\ \A x : /\ entered'[x] = entered[x] /\ replaced'[x] = replaced[x] /\ lost'[x] = lost[x]
                   /\ silent'[x] = silent[x] /\ zeroed'[x] = zeroed[x]
<1> USE DEF Core, Aside
<1>1. \A x : HeldIn(x)' = HeldIn(x) /\ Size(x)' = Size(x)
  BY DEF HeldIn, Size, Holds
<1>2. OrderInv' /\ ShardWithinCapacity'
  BY <1>1 DEF OrderInv, ShardWithinCapacity, LruKinds
<1> QED
  BY <1>1, <1>2 DEF TypeOK

\* Thread t adds what it took out to the count of the shard it took it from.
Counts(t) ==
  /\ pc[t] = "count" /\ Step(t, "notify", call[t]) /\ Aside
  /\ evictions' = [evictions EXCEPT ![CountedIn(t)] = @ + Cardinality(removed[t])]
  /\ UNCHANGED <<removed, ops, notified>>

\* Counting what a thread took out keeps the core of the invariant.
LEMMA CountKeeps ==
  ASSUME CountingLaws, Core, NEW t \in Threads, Counts(t)
  PROVE  Core'
<1> USE DEF Core
<1>1. Moves(t, "notify", call[t]) /\ UNCHANGED <<kind, hasher, clock>> /\ UNCHANGED <<kind, hasher>>
      /\ pc[t] = "count" /\ removed' = removed /\ ops' = ops /\ notified' = notified
  BY DEF Counts, Step
<1>2. /\ pc'[t] = "notify" /\ call'[t] = call[t]
      /\ \A u \in Threads : u # t => pc'[u] = pc[u] /\ call'[u] = call[u]
  BY <1>1, Moved
<1>3. PICK s \in ShardIds : s = CountedIn(t)
  <2>1. call[t] \in Call /\ Fits("count", call[t])
    BY DEF Counts, TypeOK, ThreadInv
  <2> QED
    BY SMTT(30), <2>1, ShardedAssumption DEF CountedIn, Fits, ShardIds, Call, TypeOK
<1>4. ValueInv'
  <2>1. ASSUME NEW v \in Nat PROVE OnePlace(v)'
    <3>1. /\ \A k \in Keys : Held(k, v)' => Held(k, v)
          /\ \A u \in Threads : (InHand(u, v)' => InHand(u, v)) /\ (ToStore(u, v)' => ToStore(u, v))
          /\ v \in notified' => v \in notified
      BY <1>2 DEF Counts, Held, Holds, InHand, ToStore, Aside
    <3> QED
      BY SMT, <1>1, <3>1, Stays DEF ValueInv, TypeOK
  <2>2. \A u \in Threads : removed'[u] # {} => pc'[u] \in {"count", "notify"}
    BY <1>2 DEF Counts, ValueInv
  <2> QED
    BY <2>1, <2>2 DEF ValueInv
<1>5. /\ store' \in [Keys -> Entry \cup {Absent}] /\ order' \in [ShardIds -> Seq(Keys)]
      /\ OrderInv' /\ ShardWithinCapacity' /\ capacity' \in Tally
      /\ entered' \in Tally /\ silent' \in Tally /\ replaced' \in Tally /\ lost' \in Tally /\ zeroed' \in Tally
      /\ \A x : Size(x)' = Size(x)
      /\ \A x : /\ entered'[x] = entered[x] /\ replaced'[x] = replaced[x] /\ lost'[x] = lost[x]
                /\ silent'[x] = silent[x] /\ zeroed'[x] = zeroed[x]
  BY <1>1, AsideKeeps DEF Counts
<1>6. /\ \A x : Uncounted(x)' = OthersCount(t, x)
      /\ Uncounted(s) = OthersCount(t, s) \cup removed[t] /\ \A x : x # s => Uncounted(x) = OthersCount(t, x)
  <2>1. \A x : /\ Uncounted(x) = OthersCount(t, x) \cup ItCounts(t, x)
               /\ Uncounted(x)' = OthersCount(t, x) \cup ItCounts(t, x)'
               /\ ItCounts(t, x)' = {}
    BY SMT, <1>1, UncountedParts
  <2>2. ItCounts(t, s) = removed[t] /\ \A x : x # s => ItCounts(t, x) = {}
    BY <1>3 DEF Counts, ItCounts
  <2> QED
    BY <2>1, <2>2
<1>7. PICK n \in Nat : n = Cardinality(removed[t]) /\ Cardinality(Uncounted(s)) = Cardinality(Uncounted(s)') + n
  <2>1. \A v \in removed[t] : v \in Nat /\ \A u \in Threads : u # t => v \notin removed[u]
    BY DEF ValueInv, OnePlace, InHand, TypeOK
  <2>2. \A v \in OthersCount(t, s) : v \notin removed[t]
    BY <2>1 DEF OthersCount
  <2>3. IsFiniteSet(Uncounted(s)) /\ removed[t] \in SUBSET Uncounted(s) /\ Uncounted(s) \ removed[t] = OthersCount(t, s)
    BY <1>6, <2>2, UncountedFinite
  <2>4. /\ Cardinality(removed[t]) \in Nat
        /\ Cardinality(Uncounted(s)) = Cardinality(Uncounted(s) \ removed[t]) + Cardinality(removed[t])
    BY <2>3, Remainder
  <2> QED
    BY <1>6, <2>3, <2>4
<1>8. /\ evictions' \in Tally /\ evictions'[s] = evictions[s] + n
      /\ \A x \in ShardIds : x # s => evictions'[x] = evictions[x]
  <2>1. evictions \in Tally /\ evictions' = [evictions EXCEPT ![s] = @ + n]
    BY <1>3, <1>7 DEF Counts, TypeOK
  <2>2. s \in ShardIds /\ n \in Nat
    BY <1>3, <1>7
  <2> QED
    BY SMT, <2>1, <2>2 DEF Tally
<1>9. ASSUME NEW x \in ShardIds, Balanced(x)
      PROVE  Balanced(x)'
  <2>1. CASE x # s
    BY <1>5, <1>6, <1>8, <1>9, <2>1, StillBalanced
  <2>2. CASE x = s
    <3>1. /\ entered[s] \in Nat /\ silent[s] \in Nat /\ replaced[s] \in Nat /\ lost[s] \in Nat
          /\ zeroed[s] \in Nat /\ evictions[s] \in Nat /\ Cardinality(Uncounted(s)) \in Nat /\ Size(s) \in Nat
      <4>1. Cardinality(Uncounted(s)) \in Nat /\ Size(s) \in Nat
        BY UncountedFinite, HeldFinite
      <4> QED
        BY <1>3, <4>1 DEF TypeOK, Tally
    <3>2. Cardinality(Uncounted(s)') \in Nat
      <4>1. IsFiniteSet(Uncounted(s)) /\ Uncounted(s)' \in SUBSET Uncounted(s)
        BY <1>6, UncountedFinite
      <4> QED
        BY <4>1 DEF CountingLaws, SubsetLaw
    <3>3. Balanced(s)
      BY <1>9, <2>2
    <3>4. /\ entered'[s] = entered[s] /\ replaced'[s] = replaced[s] /\ lost'[s] = lost[s]
          /\ silent'[s] = silent[s] /\ zeroed'[s] = zeroed[s] /\ Size(s)' = Size(s)
      BY <1>5
    <3>5. evictions'[s] = evictions[s] + n /\ n \in Nat /\ Cardinality(Uncounted(s)) = Cardinality(Uncounted(s)') + n
      BY <1>7, <1>8
    <3>6. Sums(entered[s], Size(s), silent[s], replaced[s], lost[s], evictions[s], zeroed[s],
               Cardinality(Uncounted(s)') + n)
      BY <3>3, <3>5 DEF Balanced, Sums
    <3>7. Sums(entered[s], Size(s), silent[s], replaced[s], lost[s], evictions[s] + n, zeroed[s],
               Cardinality(Uncounted(s)'))
      BY <3>1, <3>2, <3>5, <3>6, LastMoves
    <3>8. Balanced(s)'
      BY <3>4, <3>5, <3>7 DEF Balanced, Sums
    <3> QED
      BY <2>2, <3>8
  <2> QED
    BY <2>1, <2>2
<1>10. removed' \in [Threads -> SUBSET Nat] /\ ops' \in Nat /\ notified' \in SUBSET Nat
  BY DEF Counts, TypeOK
<1>11. Step(t, "notify", call[t]) /\ notified' \in SUBSET Nat /\ \A x \in ShardIds : Balanced(x) => Balanced(x)'
  BY <1>9, <1>10 DEF Counts
<1> HIDE DEF Core
<1> QED
  BY <1>4, <1>5, <1>8, <1>10, <1>11, CoreParts

\* Thread t reports the value x; the callback returns, or ends the call.
Reports(t, label, c, x) ==
    /\ pc[t] = "notify" /\ Step(t, label, c) /\ Aside
    /\ label \in {"notify", "idle"}
    /\ x \in removed[t] /\ notified' = notified \cup {x}
    /\ \/ removed' = [removed EXCEPT ![t] = @ \ {x}] /\ label = "notify"
       \/ removed' = [removed EXCEPT ![t] = {}]
    /\ UNCHANGED <<evictions, ops>>

\* Such a step keeps the core of the invariant.
LEMMA NotifyKeeps ==
  ASSUME Core, NEW t \in Threads, NEW label, NEW c, NEW x, Reports(t, label, c, x)
  PROVE  Core'
<1> USE DEF Core, Reports
<1>1. /\ Moves(t, label, c) /\ UNCHANGED <<kind, hasher, clock>> /\ UNCHANGED <<kind, hasher>>
      /\ UNCHANGED <<kind, hasher, clock, store, ops>>
  BY DEF Step, Aside
<1>2. ValueInv' /\ removed' \in [Threads -> SUBSET Nat] /\ notified' \in SUBSET Nat
  BY <1>1, ReportedValues
<1>3. /\ store' \in [Keys -> Entry \cup {Absent}] /\ order' \in [ShardIds -> Seq(Keys)]
      /\ OrderInv' /\ ShardWithinCapacity' /\ capacity' \in Tally
      /\ entered' \in Tally /\ silent' \in Tally /\ replaced' \in Tally /\ lost' \in Tally /\ zeroed' \in Tally
      /\ \A y : Size(y)' = Size(y)
      /\ \A y : /\ entered'[y] = entered[y] /\ replaced'[y] = replaced[y] /\ lost'[y] = lost[y]
                /\ silent'[y] = silent[y] /\ zeroed'[y] = zeroed[y]
  BY <1>1, AsideKeeps
<1>4. \A y : Uncounted(y)' = Uncounted(y)
  <2>1. \A u \in Threads : u # t => removed'[u] = removed[u]
    BY DEF TypeOK
  <2> QED
    BY <1>1, <2>1, NothingToCount
<1>5. \A y \in ShardIds : Balanced(y) => Balanced(y)'
  BY <1>3, <1>4, StillBalanced
<1>6. evictions' \in Tally /\ ops' \in Nat /\ Step(t, label, c)
  BY DEF TypeOK
<1> HIDE DEF Core, Reports
<1> QED
  BY <1>2, <1>3, <1>5, <1>6, CoreParts

-----------------------------------------------------------------------------
(* Bounds. *)

\* A resize starts: it has set no bound yet.
LEMMA ResizeStarts ==
  ASSUME IInv, NEW t \in Threads, NEW label, NEW c, Moves(t, label, c), UNCHANGED <<kind, hasher, clock>>,
         c.op = "resize", c.shard = 0, ~Resizing(t), UNCHANGED <<capacity, total_capacity>>,
         mixed' = (mixed \/ \E u \in Threads : call[u].op = "resize")
  PROVE  BoundInv' /\ CapacityPublished'
<1>1. /\ call'[t] = c
      /\ \A u \in Threads : u # t => call'[u] = call[u]
  BY SMT, Moved DEF IInv
<1>2. ASSUME ~mixed' PROVE ~mixed /\ \A u \in Threads : ~Resizing(u)
  BY <1>2 DEF Resizing
<1>3. CapacityPublished'
  BY <1>2 DEF IInv, CapacityPublished, Resizing, LruKinds
<1>4. ASSUME ~mixed' PROVE \A u \in Threads : Resizing(u)' => u = t
  BY <1>1, <1>2, <1>4 DEF Resizing
<1>5. \A s \in ShardIds : ~(s < c.shard)
  BY SMT DEF ShardIds
<1> QED
  BY <1>1, <1>3, <1>4, <1>5 DEF BoundInv

\* It has set the bound of one more shard.
LEMMA ResizeGoesOn ==
  ASSUME IInv, NEW t \in Threads, NEW label, Moves(t, label, NextShard(t)), UNCHANGED <<kind, hasher, clock>>,
         Resizing(t), call[t].shard \in ShardIds,
         capacity' = [capacity EXCEPT ![call[t].shard] = Share(call[t].size)],
         UNCHANGED <<total_capacity, mixed>>
  PROVE  BoundInv' /\ CapacityPublished'
<1>1. /\ call'[t] = NextShard(t)
      /\ \A u \in Threads : u # t => call'[u] = call[u]
  BY Moved DEF IInv
<1>2. call[t] \in Call /\ capacity \in [ShardIds -> Nat]
  BY DEF IInv, TypeOK, Tally
<1>3. /\ call'[t].op = "resize" /\ call'[t].size = call[t].size /\ call'[t].shard = call[t].shard + 1
      /\ call[t].shard \in Nat
  BY <1>1, <1>2 DEF NextShard, Call, Resizing
<1>4. CapacityPublished'
  <2>1. /\ call[t].shard < call'[t].shard
        /\ \A s \in ShardIds : s < call[t].shard => s < call'[t].shard
    BY SMT, <1>3, ShardedAssumption DEF ShardIds
  <2>2. \A s \in ShardIds, u \in Threads :
            call[u].op = "resize" /\ s < call[u].shard => call'[u].op = "resize" /\ s < call'[u].shard
    BY <1>1, <1>3, <2>1
  <2>3. \A s \in ShardIds : s # call[t].shard => capacity'[s] = capacity[s]
    BY <1>2
  <2> QED
    BY <1>3, <2>1, <2>2, <2>3 DEF IInv, CapacityPublished, LruKinds
<1>5. ASSUME kind \in LruKinds, ~mixed
      PROVE  /\ \A u \in Threads : Resizing(u)' => u = t
             /\ \A s \in ShardIds : s < call'[t].shard => capacity'[s] = Share(call'[t].size)
  <2>1. \A u \in Threads : Resizing(u) => u = t
    BY <1>5 DEF IInv, BoundInv
  <2>2. \A s \in ShardIds : s < call[t].shard => capacity[s] = Share(call[t].size)
    BY <1>5 DEF IInv, BoundInv
  <2>3. \A s \in ShardIds : s \in Nat /\ (s < call'[t].shard => s < call[t].shard \/ s = call[t].shard)
    BY SMT, <1>3, ShardedAssumption DEF ShardIds
  <2>4. /\ capacity'[call[t].shard] = Share(call[t].size)
        /\ \A s \in ShardIds : s # call[t].shard => capacity'[s] = capacity[s]
    BY <1>2
  <2> QED
    BY <1>1, <1>3, <2>1, <2>2, <2>3, <2>4 DEF Resizing
<1>6. \A n : Share(n)' = Share(n)
  BY DEF Share, per_shard_cap_from_total
<1> QED
  BY <1>4, <1>5, <1>6 DEF BoundInv, LruKinds

\* It ends when every shard has its bound, and publishes their sum.
LEMMA ResizePublishes ==
  ASSUME IInv, NEW t \in Threads, NEW label, NEW c, Moves(t, label, c), UNCHANGED <<kind, hasher, clock>>,
         Resizing(t), call[t].shard = Shards, c.op # "resize", UNCHANGED <<capacity, mixed>>,
         total_capacity' = Shards * Share(call[t].size)
  PROVE  BoundInv' /\ CapacityPublished'
<1>1. /\ call'[t] = c
      /\ \A u \in Threads : u # t => call'[u] = call[u]
  BY SMT, Moved DEF IInv
<1>2. ASSUME kind \in LruKinds, ~mixed
      PROVE  /\ \A u \in Threads : ~Resizing(u)'
             /\ \A s \in ShardIds : capacity[s] = Share(call[t].size)
  <2>1. \A u \in Threads : Resizing(u) => u = t
    BY <1>2 DEF IInv, BoundInv
  <2>2. \A s \in ShardIds : s < Shards
    BY SMT, ShardedAssumption DEF ShardIds
  <2> QED
    BY <1>1, <1>2, <2>1, <2>2 DEF IInv, BoundInv, Resizing
<1> QED
  BY <1>2 DEF BoundInv, CapacityPublished, LruKinds

\* The core is part of the invariant.
LEMMA CoreOf == IInv => Core
BY DEF IInv, Core

\* A step of a thread that does not resize.
LEMMA Kept ==
  ASSUME IInv, NEW t \in Threads, NEW label, NEW c, Step(t, label, c), Core', BoundsKept(t, c)
  PROVE  IInv'
<1>1. BoundInv' /\ CapacityPublished'
  BY KeepsBounds DEF Step, IInv
<1> QED
  BY <1>1 DEF IInv, Core

-----------------------------------------------------------------------------
(* The steps of a call. *)

\* What most steps of a call leave alone.
Frame ==
    UNCHANGED <<kind, hasher, clock, ttl, refresh, capacity, total_capacity,
                entered, silent, replaced, lost, zeroed, notified, cut, mixed>>

\* The map and the orders as they are, an expiry or a place in an order aside.
Touches ==
    /\ SameEntries
    /\ order' = order \/ \E k \in Keys : Holds(k) /\ order' = Promoted(k)
    /\ UNCHANGED evictions

\* The arguments of no call.
LEMMA NoCallIs ==
  NoCall \in Call /\ NoCall.op = "none" /\ NoCall.now = 0 /\ NoCall.val = 0 /\ NoCall.shard = 0
<1>1. PICK k \in Keys : k = CHOOSE j \in Keys : TRUE
  BY ShardedAssumption
<1>2. NoCall = [op |-> "none", key |-> k, now |-> 0, refresh |-> FALSE,
                val |-> 0, exp |-> Never, shard |-> 0, keep |-> {}, size |-> 0]
  BY <1>1 DEF NoCall
<1> QED
  BY <1>2 DEF Call, Ops

\* A thread that is not in a sweep does not resize.
LEMMA OnlySweepsResize ==
  ASSUME IInv, NEW t \in Threads, pc[t] # "sweep"
  PROVE  ~Resizing(t)
BY DEF IInv, ThreadInv, Fits, Resizing

\* The end of a call.
LEMMA ReturnMoves ==
  ASSUME IInv, NEW t \in Threads, NEW v, Return(t, v)
  PROVE  Moves(t, "idle", NoCall) /\ removed' = [removed EXCEPT ![t] = {}]
<1>1. clock \in Nat /\ Shards \in Nat
  BY ShardedAssumption DEF IInv, TypeOK
<1>2. Fits("idle", NoCall)
  BY SMT, <1>1, NoCallIs DEF Fits
<1> QED
  BY <1>2, NoCallIs DEF Moves, Return, Goto, Labels

\* A call that ends without taking anything out.
LEMMA ReturnKeeps ==
  ASSUME CountingLaws, IInv, NEW t \in Threads, NEW v, Return(t, v), pc[t] # "count", ~Resizing(t),
         ops' \in {ops, ops + 1}, Touches, Frame
  PROVE  IInv'
<1>1. Moves(t, "idle", NoCall) /\ removed' = [removed EXCEPT ![t] = {}]
  BY ReturnMoves
<1>2. Step(t, "idle", NoCall)
  BY <1>1 DEF Step, Frame
<1>3. Rests(t, "idle", NoCall)
  BY <1>1, <1>2 DEF Rests, Quiet, Touches, Frame
<1>4. Core'
  BY <1>3, RestsKeeps DEF IInv, Core
<1>5. BoundsKept(t, NoCall)
  BY NoCallIs DEF BoundsKept, Frame
<1> QED
  BY <1>2, <1>4, <1>5, Kept

\* A call that goes on without taking anything out.
LEMMA EnterKeeps ==
  ASSUME CountingLaws, IInv, NEW t \in Threads, NEW label \in {"sweep", "recheck", "look", "write"}, NEW c \in Call,
         Enter(t, label, c), pc[t] \notin {"count", "notify"}, ~Resizing(t),
         c.now <= clock, c.shard <= Shards, c.op # "resize",
         label \in {"recheck", "write"} => c.op \in {"get", "set"},
         \/ label # "write" /\ ops' \in {ops, ops + 1}
         \/ label = "write" /\ c.val = ops + 1 /\ ops' = ops + 1,
         Touches, Frame
  PROVE  IInv'
<1>1. removed' = [removed EXCEPT ![t] = {}]
  BY EmptyHands DEF IInv, Enter
<1>2. Moves(t, label, c)
  <2>1. label \in Labels /\ Fits(label, c)
    BY DEF Fits, Labels
  <2> QED
    BY <2>1 DEF Moves, Enter, Goto
<1>3. Step(t, label, c)
  BY <1>2 DEF Step, Frame
<1>4. Rests(t, label, c)
  BY <1>1, <1>3 DEF Rests, Quiet, Touches, Frame
<1>5. Core'
  BY <1>4, RestsKeeps DEF IInv, Core
<1>6. BoundsKept(t, c)
  BY DEF BoundsKept, Frame
<1> QED
  BY <1>3, <1>5, <1>6, Kept

\* A call that leaves its thread where it is.
LEMMA IdleKeeps ==
  ASSUME CountingLaws, IInv, NEW t \in Threads, pc[t] = "idle", UNCHANGED <<pc, call, removed>>,
         ops' \in {ops, ops + 1}, Touches, Frame
  PROVE  IInv'
<1>1. removed' = [removed EXCEPT ![t] = {}] /\ ~Resizing(t)
  BY EmptyHands, OnlySweepsResize DEF IInv
<1>2. pc = [pc EXCEPT ![t] = "idle"] /\ call = [call EXCEPT ![t] = call[t]] /\ call[t] \in Call /\ Fits("idle", call[t])
  BY DEF IInv, TypeOK, ThreadInv
<1>3. Step(t, "idle", call[t])
  <2>1. Moves(t, "idle", call[t])
    BY <1>2 DEF Moves, Labels
  <2> QED
    BY <2>1 DEF Step, Frame
<1>4. Rests(t, "idle", call[t])
  <2>1. Quiet(t, "idle", call[t])
    BY <1>1 DEF Quiet
  <2> QED
    BY <1>3, <2>1 DEF Rests, Touches, Frame
<1>5. Core'
  BY <1>4, RestsKeeps DEF IInv, Core
<1>6. BoundsKept(t, call[t])
  BY <1>1 DEF BoundsKept, Frame, Resizing
<1> QED
  BY <1>3, <1>5, <1>6, Kept

\* The entries that are taken out of the shard s are to be counted there, or are
\* counted there already; the unbound store counts none.
Charged(label, c, s, keys) ==
    \/ /\ label = "count" /\ kind # "Unbound" /\ (c.op \in SweepOps => c.shard # 0)
       /\ Home(c) = s /\ UNCHANGED evictions
    \/ label = "notify" /\ evictions' = [evictions EXCEPT ![s] = @ + Cardinality(keys)]
    \/ label = "notify" /\ kind = "Unbound" /\ UNCHANGED evictions

\* A call that takes entries out of the shard s.
LEMMA TakeKeeps ==
  ASSUME CountingLaws, IInv, NEW t \in Threads, NEW label \in {"count", "notify"}, NEW c \in Call,
         NEW s \in ShardIds, NEW keys \in SUBSET HeldIn(s),
         Take(t, keys, c, label), pc[t] \notin {"count", "notify"}, ~Resizing(t),
         c.now <= clock, c.shard <= Shards, c.op # "resize",
         ops' \in {ops, ops + 1}, Frame, Charged(label, c, s, keys)
  PROVE  IInv'
<1>1. Moves(t, label, c)
  <2>1. label \in Labels /\ Fits(label, c)
    BY DEF Fits, Labels, Charged
  <2> QED
    BY <2>1 DEF Moves, Take, Goto
<1>2. Step(t, label, c)
  BY <1>1 DEF Step, Frame
<1>3. Takes(t, label, keys) /\ Without(keys)
  BY DEF Takes, Take, Without, HeldIn
<1>4. TakesOut(t, label, c, keys, s)
  BY <1>2, <1>3 DEF TakesOut, Frame, Charged
<1>5. Core'
  BY <1>4, TakesOutKeeps DEF IInv, Core
<1>6. BoundsKept(t, c)
  BY DEF BoundsKept, Frame
<1> QED
  BY <1>2, <1>5, <1>6, Kept

\* A call starts from an idle thread.
LEMMA BeginIs ==
  ASSUME IInv, NEW t \in Threads, Begin(t)
  PROVE  pc[t] = "idle" /\ ~Resizing(t) /\ ops' = ops + 1
BY OnlySweepsResize DEF Begin

\* The entries are left alone.
LEMMA Untouched ==
  ASSUME IInv, UNCHANGED <<store, order, evictions>>
  PROVE  Touches
BY DEF Touches, SameEntries, Holds, IInv, TypeOK

\* The entry of a key gets another expiry.
Renews(k) == \E x \in Nat \cup {Never} : store' = [store EXCEPT ![k] = [val |-> store[k].val, exp |-> x]]

\* The entry of a key is promoted, renewed, or both.
LEMMA TouchedOne ==
  ASSUME IInv, NEW k \in Keys, Holds(k), store' = store \/ Renews(k),
         order' = order \/ order' = Promoted(k), UNCHANGED evictions
  PROVE  Touches
<1>1. store \in [Keys -> Entry \cup {Absent}] /\ store[k] \in Entry /\ store[k].val \in Nat
  BY DEF IInv, TypeOK, Holds, Entry
<1>2. SameEntries
  <2>1. CASE store' = store
    BY <1>1, <2>1 DEF SameEntries, Holds
  <2>2. CASE Renews(k)
    <3>1. PICK x \in Nat \cup {Never} : store' = [store EXCEPT ![k] = [val |-> store[k].val, exp |-> x]]
      BY <2>2 DEF Renews
    <3>2. [val |-> store[k].val, exp |-> x] \in Entry /\ [val |-> store[k].val, exp |-> x] # Absent
      BY SMT, <1>1, ShardedAssumption DEF Entry
    <3> QED
      BY <1>1, <3>1, <3>2 DEF SameEntries, Holds
  <2> QED
    BY <2>1, <2>2
<1> QED
  BY <1>2 DEF Touches

\* A sweep goes on to the next shard.
LEMMA NextCall ==
  ASSUME IInv, NEW t \in Threads, call[t].shard < Shards
  PROVE  /\ NextShard(t) \in Call /\ NextShard(t).op = call[t].op /\ NextShard(t).now <= clock
         /\ NextShard(t).shard = call[t].shard + 1 /\ NextShard(t).shard <= Shards
         /\ call[t].shard \in ShardIds /\ NextShard(t).shard # 0 /\ NextShard(t).shard - 1 = call[t].shard
<1>1. call[t] \in Call /\ call[t].now <= clock /\ Shards \in Nat
  BY ShardedAssumption DEF IInv, TypeOK, ThreadInv, Fits
<1>2. call[t].shard \in Nat
  BY <1>1 DEF Call
<1>3. /\ NextShard(t) \in Call /\ NextShard(t).op = call[t].op /\ NextShard(t).now = call[t].now
      /\ NextShard(t).shard = call[t].shard + 1
  BY SMT, <1>1, <1>2 DEF NextShard, Call
<1> QED
  BY SMT, <1>1, <1>2, <1>3 DEF ShardIds

\* A thread at a shard of a sweep.
LEMMA SweepIs ==
  ASSUME IInv, NEW t \in Threads, NEW op, AtShard(t, op), op # "resize"
  PROVE  /\ pc[t] = "sweep" /\ ~Resizing(t) /\ NextShard(t).op = op
         /\ InShard(t) = HeldIn(call[t].shard)
         /\ removed' = removed => removed' = [removed EXCEPT ![t] = {}]
<1>1. NextShard(t).op = op
  BY NextCall DEF AtShard
<1>2. removed = [removed EXCEPT ![t] = {}]
  BY EmptyHands DEF AtShard, IInv
<1> QED
  BY <1>1, <1>2 DEF AtShard, Resizing, InShard, HeldIn

\* A sweep that finds nothing in a shard.
LEMMA SkipKeeps ==
  ASSUME CountingLaws, IInv, NEW t \in Threads, NEW op, AtShard(t, op), op # "resize", Skip(t), SweepFrame
  PROVE  IInv'
<1>1. /\ NextShard(t) \in Call /\ NextShard(t).op # "resize" /\ NextShard(t).now <= clock
      /\ NextShard(t).shard <= Shards /\ pc[t] = "sweep" /\ ~Resizing(t)
  BY SMT, NextCall, SweepIs DEF AtShard
<1>2. Frame
  BY DEF Frame, SweepFrame, aside, bounds, settings, ledger, shrinks
<1>3. Enter(t, "sweep", NextShard(t)) /\ Touches /\ ops' = ops
  BY Untouched DEF Skip, SweepFrame
<1> QED
  BY <1>1, <1>2, <1>3, EnterKeeps

\* A sweep of a shard whose entries are counted after the unlock, before it, or
\* not at all.
LEMMA SweepKeeps ==
  ASSUME CountingLaws, IInv, NEW t \in Threads, NEW op \in SweepOps, AtShard(t, op), NEW doomed \in SUBSET InShard(t),
         \/ kind # "Unbound" /\ Sweep(t, doomed)
         \/ SweepCounted(t, doomed)
         \/ kind = "Unbound" /\ SweepUncounted(t, doomed)
  PROVE  IInv'
<1>1. op # "resize"
  BY DEF SweepOps
<1>2. SweepFrame
  BY DEF Sweep, SweepCounted, SweepUncounted
<1>3. CASE Skip(t)
  BY <1>1, <1>2, <1>3, SkipKeeps
<1>4. CASE ~Skip(t)
  <2> DEFINE s == call[t].shard
  <2>1. /\ NextShard(t) \in Call /\ NextShard(t).op = op /\ NextShard(t).now <= clock
        /\ NextShard(t).shard <= Shards /\ NextShard(t).shard # 0 /\ NextShard(t).shard - 1 = s /\ s \in ShardIds
    BY NextCall DEF AtShard
  <2>2. pc[t] = "sweep" /\ ~Resizing(t) /\ InShard(t) = HeldIn(s)
    BY <1>1, SweepIs
  <2>3. Frame /\ ops' = ops
    BY <1>2 DEF Frame, SweepFrame, aside, bounds, settings, ledger, shrinks
  <2>4. Home(NextShard(t)) = s
    BY <2>1 DEF Home
  <2>6. \/ Take(t, doomed, NextShard(t), "count") /\ kind # "Unbound" /\ UNCHANGED evictions
        \/ Take(t, doomed, NextShard(t), "notify") /\ evictions' = [evictions EXCEPT ![s] = @ + Cardinality(doomed)]
        \/ Take(t, doomed, NextShard(t), "notify") /\ kind = "Unbound" /\ UNCHANGED evictions
    BY <1>4 DEF Sweep, SweepCounted, SweepUncounted, TakeOut, TakeOutCounted, TakeOutUncounted
  <2>5. PICK label \in {"count", "notify"} :
          Take(t, doomed, NextShard(t), label) /\ Charged(label, NextShard(t), s, doomed)
    BY <2>1, <2>4, <2>6 DEF Charged
  <2> HIDE DEF s
  <2> QED
    BY <1>1, <2>1, <2>2, <2>3, <2>5, TakeKeeps
<1> QED
  BY <1>3, <1>4

-----------------------------------------------------------------------------
(* The actions every store has. *)

\* A field of a call, and what the other fields are then.
LEMMA FieldSet ==
  ASSUME NEW c \in Call
  PROVE  /\ \A x \in Ops : LET d == [c EXCEPT !.op = x] IN
               d \in Call /\ d.op = x /\ d.key = c.key /\ d.now = c.now /\ d.val = c.val /\ d.shard = c.shard
         /\ \A x \in Keys : LET d == [c EXCEPT !.key = x] IN
               d \in Call /\ d.op = c.op /\ d.key = x /\ d.now = c.now /\ d.val = c.val /\ d.shard = c.shard
         /\ \A x \in Nat : LET d == [c EXCEPT !.now = x] IN
               d \in Call /\ d.op = c.op /\ d.key = c.key /\ d.now = x /\ d.val = c.val /\ d.shard = c.shard
         /\ \A x \in Nat : LET d == [c EXCEPT !.val = x] IN
               d \in Call /\ d.op = c.op /\ d.key = c.key /\ d.now = c.now /\ d.val = x /\ d.shard = c.shard
         /\ \A x \in Nat \cup {Never} : LET d == [c EXCEPT !.exp = x] IN
               d \in Call /\ d.op = c.op /\ d.key = c.key /\ d.now = c.now /\ d.val = c.val /\ d.shard = c.shard
         /\ \A x \in SUBSET Keys : LET d == [c EXCEPT !.keep = x] IN
               d \in Call /\ d.op = c.op /\ d.key = c.key /\ d.now = c.now /\ d.val = c.val /\ d.shard = c.shard
         /\ \A x \in Nat : LET d == [c EXCEPT !.size = x] IN
               d \in Call /\ d.op = c.op /\ d.key = c.key /\ d.now = c.now /\ d.val = c.val /\ d.shard = c.shard
BY DEF Call

\* Setting the refresh flag of a call makes a call.
LEMMA FlagSet ==
  ASSUME NEW c \in Call, NEW x \in BOOLEAN, NEW d, d = [c EXCEPT !.refresh = x]
  PROVE  d \in Call /\ d.op = c.op /\ d.key = c.key /\ d.now = c.now /\ d.val = c.val /\ d.shard = c.shard
BY DEF Call

\* The arguments of a sweep.
SweepCall(op, now, keep) == [NoCall EXCEPT !.op = op, !.now = now, !.keep = keep]

\* What a sweep starts with is a call, at the first shard.
LEMMA SweepCallIs ==
  ASSUME NEW op \in Ops, NEW now \in Nat, NEW keep \in SUBSET Keys
  PROVE  LET c == SweepCall(op, now, keep)
         IN  c \in Call /\ c.op = op /\ c.now = now /\ c.val = 0 /\ c.shard = 0
<1> DEFINE d1 == [NoCall EXCEPT !.op = op]
<1> DEFINE d2 == [d1 EXCEPT !.now = now]
<1> DEFINE d3 == [d2 EXCEPT !.keep = keep]
<1>1. d1 \in Call /\ d1.op = op /\ d1.now = 0 /\ d1.val = 0 /\ d1.shard = 0
  BY NoCallIs, FieldSet
<1> HIDE DEF d1
<1>2. d2 \in Call /\ d2.op = op /\ d2.now = now /\ d2.val = 0 /\ d2.shard = 0
  BY <1>1, FieldSet
<1> HIDE DEF d2
<1>3. d3 \in Call /\ d3.op = op /\ d3.now = now /\ d3.val = 0 /\ d3.shard = 0
  BY <1>2, FieldSet
<1> HIDE DEF d3
<1>4. SweepCall(op, now, keep) = d3
  BY DEF d1, d2, d3, SweepCall
<1> QED
  BY <1>3, <1>4

\* The arguments of a resize.
ResizeCall(op, n) == [NoCall EXCEPT !.op = op, !.size = n]

\* What a resize starts with is a call, at the first shard.
LEMMA ResizeCallIs ==
  ASSUME NEW op \in Ops, NEW n \in Nat
  PROVE  LET c == ResizeCall(op, n)
         IN  c \in Call /\ c.op = op /\ c.now = 0 /\ c.val = 0 /\ c.shard = 0
<1> DEFINE d1 == [NoCall EXCEPT !.op = op]
<1> DEFINE d2 == [d1 EXCEPT !.size = n]
<1>1. d1 \in Call /\ d1.op = op /\ d1.now = 0 /\ d1.val = 0 /\ d1.shard = 0
  BY NoCallIs, FieldSet
<1> HIDE DEF d1
<1>2. d2 \in Call /\ d2.op = op /\ d2.now = 0 /\ d2.val = 0 /\ d2.shard = 0
  BY <1>1, FieldSet
<1> HIDE DEF d2
<1>3. ResizeCall(op, n) = d2
  BY DEF d1, d2, ResizeCall
<1> QED
  BY <1>2, <1>3

\* The arguments of a call on a key.
KeyCall(op, k) == [NoCall EXCEPT !.op = op, !.key = k]

\* A call on a key is a call.
LEMMA KeyCallIs ==
  ASSUME NEW op \in Ops, NEW k \in Keys
  PROVE  LET c == KeyCall(op, k)
         IN  c \in Call /\ c.op = op /\ c.key = k /\ c.now = 0 /\ c.val = 0 /\ c.shard = 0
<1> DEFINE d1 == [NoCall EXCEPT !.op = op]
<1> DEFINE d2 == [d1 EXCEPT !.key = k]
<1>1. d1 \in Call /\ d1.op = op /\ d1.now = 0 /\ d1.val = 0 /\ d1.shard = 0
  BY NoCallIs, FieldSet
<1> HIDE DEF d1
<1>2. d2 \in Call /\ d2.op = op /\ d2.key = k /\ d2.now = 0 /\ d2.val = 0 /\ d2.shard = 0
  BY <1>1, FieldSet
<1> HIDE DEF d2
<1>3. KeyCall(op, k) = d2
  BY DEF d1, d2, KeyCall
<1> QED
  BY <1>2, <1>3

\* Those of a call that goes on with a value.
ValueCall(op, k, v) == [NoCall EXCEPT !.op = op, !.key = k, !.val = v]

\* A call on a key that has a value in hand is a call.
LEMMA ValueCallIs ==
  ASSUME NEW op \in Ops, NEW k \in Keys, NEW v \in Nat
  PROVE  LET c == ValueCall(op, k, v)
         IN  c \in Call /\ c.op = op /\ c.key = k /\ c.now = 0 /\ c.val = v /\ c.shard = 0
<1> DEFINE d1 == [NoCall EXCEPT !.op = op]
<1> DEFINE d2 == [d1 EXCEPT !.key = k]
<1> DEFINE d3 == [d2 EXCEPT !.val = v]
<1>1. d1 \in Call /\ d1.op = op /\ d1.now = 0 /\ d1.val = 0 /\ d1.shard = 0
  BY NoCallIs, FieldSet
<1> HIDE DEF d1
<1>2. d2 \in Call /\ d2.op = op /\ d2.key = k /\ d2.now = 0 /\ d2.val = 0 /\ d2.shard = 0
  BY <1>1, FieldSet
<1> HIDE DEF d2
<1>3. d3 \in Call /\ d3.op = op /\ d3.key = k /\ d3.now = 0 /\ d3.val = v /\ d3.shard = 0
  BY <1>2, FieldSet
<1> HIDE DEF d3
<1>4. ValueCall(op, k, v) = d3
  BY DEF d1, d2, d3, ValueCall
<1> QED
  BY <1>3, <1>4

\* Those of a call that looked at the clock.
TimeCall(op, k, now) == [NoCall EXCEPT !.op = op, !.key = k, !.now = now]

\* A call on a key that has read the clock is a call.
LEMMA TimeCallIs ==
  ASSUME NEW op \in Ops, NEW k \in Keys, NEW now \in Nat
  PROVE  LET c == TimeCall(op, k, now)
         IN  c \in Call /\ c.op = op /\ c.key = k /\ c.now = now /\ c.val = 0 /\ c.shard = 0
<1> DEFINE d1 == [NoCall EXCEPT !.op = op]
<1> DEFINE d2 == [d1 EXCEPT !.key = k]
<1> DEFINE d3 == [d2 EXCEPT !.now = now]
<1>1. d1 \in Call /\ d1.op = op /\ d1.now = 0 /\ d1.val = 0 /\ d1.shard = 0
  BY NoCallIs, FieldSet
<1> HIDE DEF d1
<1>2. d2 \in Call /\ d2.op = op /\ d2.key = k /\ d2.now = 0 /\ d2.val = 0 /\ d2.shard = 0
  BY <1>1, FieldSet
<1> HIDE DEF d2
<1>3. d3 \in Call /\ d3.op = op /\ d3.key = k /\ d3.now = now /\ d3.val = 0 /\ d3.shard = 0
  BY <1>2, FieldSet
<1> HIDE DEF d3
<1>4. TimeCall(op, k, now) = d3
  BY DEF d1, d2, d3, TimeCall
<1> QED
  BY <1>3, <1>4

\* Those of a call that looked at refresh_on_hit as well.
LookCall(op, k, now, r) == [NoCall EXCEPT !.op = op, !.key = k, !.now = now, !.refresh = r]

\* A call on a key that has read the clock and the refresh flag is a call.
LEMMA LookCallIs ==
  ASSUME NEW op \in Ops, NEW k \in Keys, NEW now \in Nat, NEW r \in BOOLEAN
  PROVE  LET c == LookCall(op, k, now, r)
         IN  c \in Call /\ c.op = op /\ c.key = k /\ c.now = now /\ c.val = 0 /\ c.shard = 0
<1> DEFINE d1 == [NoCall EXCEPT !.op = op]
<1> DEFINE d2 == [d1 EXCEPT !.key = k]
<1> DEFINE d3 == [d2 EXCEPT !.now = now]
<1> DEFINE d4 == [d3 EXCEPT !.refresh = r]
<1>1. d1 \in Call /\ d1.op = op /\ d1.now = 0 /\ d1.val = 0 /\ d1.shard = 0
  BY NoCallIs, FieldSet
<1> HIDE DEF d1
<1>2. d2 \in Call /\ d2.op = op /\ d2.key = k /\ d2.now = 0 /\ d2.val = 0 /\ d2.shard = 0
  BY <1>1, FieldSet
<1> HIDE DEF d2
<1>3. d3 \in Call /\ d3.op = op /\ d3.key = k /\ d3.now = now /\ d3.val = 0 /\ d3.shard = 0
  BY <1>2, FieldSet
<1> HIDE DEF d3
<1>4. d4 \in Call /\ d4.op = op /\ d4.key = k /\ d4.now = now /\ d4.val = 0 /\ d4.shard = 0
  BY SMT, <1>3, FlagSet
<1> HIDE DEF d4
<1>5. LookCall(op, k, now, r) = d4
  BY DEF d1, d2, d3, d4, LookCall
<1> QED
  BY <1>4, <1>5

\* The times that a deadline may be.
Expiry == Nat \cup {Never}

\* Those of a call that goes on with an entry.
EntryCall(op, k, now, v, x) == [NoCall EXCEPT !.op = op, !.key = k, !.now = now, !.val = v, !.exp = x]

\* A call on a key that has an entry in hand is a call.
LEMMA EntryCallIs ==
  ASSUME NEW op \in Ops, NEW k \in Keys, NEW now \in Nat, NEW v \in Nat, NEW x \in Expiry
  PROVE  LET c == EntryCall(op, k, now, v, x)
         IN  c \in Call /\ c.op = op /\ c.key = k /\ c.now = now /\ c.val = v /\ c.shard = 0
<1> DEFINE d1 == [NoCall EXCEPT !.op = op]
<1> DEFINE d2 == [d1 EXCEPT !.key = k]
<1> DEFINE d3 == [d2 EXCEPT !.now = now]
<1> DEFINE d4 == [d3 EXCEPT !.val = v]
<1> DEFINE d5 == [d4 EXCEPT !.exp = x]
<1>1. d1 \in Call /\ d1.op = op /\ d1.now = 0 /\ d1.val = 0 /\ d1.shard = 0
  BY NoCallIs, FieldSet
<1> HIDE DEF d1
<1>2. d2 \in Call /\ d2.op = op /\ d2.key = k /\ d2.now = 0 /\ d2.val = 0 /\ d2.shard = 0
  BY <1>1, FieldSet
<1> HIDE DEF d2
<1>3. d3 \in Call /\ d3.op = op /\ d3.key = k /\ d3.now = now /\ d3.val = 0 /\ d3.shard = 0
  BY <1>2, FieldSet
<1> HIDE DEF d3
<1>4. d4 \in Call /\ d4.op = op /\ d4.key = k /\ d4.now = now /\ d4.val = v /\ d4.shard = 0
  BY SMT, <1>3, FieldSet
<1> HIDE DEF d4
<1>5. d5 \in Call /\ d5.op = op /\ d5.key = k /\ d5.now = now /\ d5.val = v /\ d5.shard = 0
  BY SMT, <1>4, FieldSet DEF Expiry
<1> HIDE DEF d5
<1>6. EntryCall(op, k, now, v, x) = d5
  BY DEF d1, d2, d3, d4, d5, EntryCall
<1> QED
  BY <1>5, <1>6

\* A sweep starts.
LEMMA StartSweepKeeps ==
  ASSUME CountingLaws, IInv, NEW t \in Threads, StartSweep(t)
  PROVE  IInv'
<1>1. pc[t] = "idle" /\ ~Resizing(t) /\ ops' = ops + 1
  BY BeginIs DEF StartSweep
<1>2. PICK op \in SweepOps, keep \in SUBSET Keys : Enter(t, "sweep", SweepCall(op, clock, keep))
  BY DEF StartSweep, SweepCall
<1>3. op \in Ops /\ op # "resize" /\ clock \in Nat
  BY DEF SweepOps, Ops, IInv, TypeOK
<1>4. PICK c \in Call : Enter(t, "sweep", c) /\ c.op = op /\ c.now <= clock /\ c.shard <= Shards
  BY SMT, <1>2, <1>3, SweepCallIs, ShardedAssumption
<1>5. Frame /\ Touches
  BY Untouched DEF StartSweep, Frame, aside, bounds, settings, counters, ledger, shrinks
<1> QED
  BY <1>1, <1>3, <1>4, <1>5, EnterKeeps

\* A sweep goes on to the next shard: where that leads.
LEMMA EnterNext ==
  ASSUME IInv, NEW t \in Threads, NEW op, AtShard(t, op), op # "resize", Enter(t, "sweep", NextShard(t)),
         UNCHANGED <<kind, hasher, clock, ttl, refresh, ops>>
  PROVE  Step(t, "sweep", NextShard(t)) /\ Quiet(t, "sweep", NextShard(t))
<1>1. /\ NextShard(t) \in Call /\ NextShard(t).now <= clock /\ NextShard(t).shard <= Shards
      /\ NextShard(t).op # "resize" /\ pc[t] = "sweep"
  BY SMT, NextCall, SweepIs DEF AtShard
<1>2. Moves(t, "sweep", NextShard(t))
  BY <1>1 DEF Moves, Enter, Goto, Fits, Labels
<1>3. removed' = [removed EXCEPT ![t] = {}]
  BY SweepIs DEF Enter
<1> QED
  BY <1>1, <1>2, <1>3 DEF Step, Quiet

\* A shard is cleared.
LEMMA ClearKeeps ==
  ASSUME CountingLaws, IInv, NEW t \in Threads, clear(t)
  PROVE  IInv'
<1>1. /\ AtShard(t, "clear") /\ Enter(t, "sweep", NextShard(t)) /\ UNCHANGED <<kind, hasher, clock, ttl, refresh, ops>>
      /\ UNCHANGED <<capacity, total_capacity, evictions, entered, replaced, lost, zeroed, notified, cut, mixed>>
  BY DEF clear, aside, bounds, settings, counters, shrinks
<1>2. call[t].shard \in ShardIds /\ InShard(t) = HeldIn(call[t].shard) /\ ~Resizing(t) /\ NextShard(t).op = "clear"
  BY <1>1, NextCall, SweepIs DEF AtShard
<1>3. Step(t, "sweep", NextShard(t)) /\ Quiet(t, "sweep", NextShard(t))
  BY <1>1, EnterNext
<1>4. Clears(t, "sweep", NextShard(t), call[t].shard)
  BY <1>1, <1>2, <1>3 DEF Clears, clear
<1>5. Core'
  BY <1>4, ClearsKeeps DEF IInv, Core
<1>6. BoundsKept(t, NextShard(t))
  BY <1>1, <1>2 DEF BoundsKept
<1> QED
  BY <1>3, <1>5, <1>6, Kept

\* The counters of a shard are reset.
LEMMA ResetKeeps ==
  ASSUME CountingLaws, IInv, NEW t \in Threads, cache_reset_metrics(t)
  PROVE  IInv'
<1>1. /\ AtShard(t, "reset") /\ Enter(t, "sweep", NextShard(t)) /\ UNCHANGED <<kind, hasher, clock, ttl, refresh, ops>>
      /\ UNCHANGED <<store, order, capacity, total_capacity, entered, silent, replaced, lost, notified, cut, mixed>>
  BY DEF cache_reset_metrics, aside, bounds, settings, shrinks
<1>2. call[t].shard \in ShardIds /\ ~Resizing(t) /\ NextShard(t).op = "reset"
  BY <1>1, NextCall, SweepIs DEF AtShard
<1>3. Step(t, "sweep", NextShard(t)) /\ Quiet(t, "sweep", NextShard(t))
  BY <1>1, EnterNext
<1>4. Zeroes(t, "sweep", NextShard(t), call[t].shard)
  BY <1>1, <1>2, <1>3 DEF Zeroes, cache_reset_metrics
<1>5. Core'
  BY <1>4, ZeroesKeeps DEF IInv, Core
<1>6. BoundsKept(t, NextShard(t))
  BY <1>1, <1>2 DEF BoundsKept
<1> QED
  BY <1>3, <1>5, <1>6, Kept

\* A sweep ends.
LEMMA SweepEndsKeeps ==
  ASSUME CountingLaws, IInv, NEW t \in Threads, SweepEnds(t)
  PROVE  IInv'
<1>1. Return(t, 0) /\ pc[t] # "count" /\ ~Resizing(t) /\ ops' = ops
  BY DEF SweepEnds, Resizing
<1>2. Frame /\ Touches
  BY Untouched DEF SweepEnds, Frame, aside, bounds, settings, counters, ledger, shrinks
<1> QED
  BY <1>1, <1>2, ReturnKeeps

\* A thread counts what it took out.
LEMMA CountAction ==
  ASSUME CountingLaws, IInv, NEW t \in Threads, Count(t)
  PROVE  IInv'
<1>1. /\ pc[t] = "count" /\ Goto(t, "notify") /\ UNCHANGED <<call, removed, ops, notified, mixed, total_capacity>>
      /\ UNCHANGED <<kind, hasher, clock, ttl, refresh>> /\ Aside
      /\ evictions' = [evictions EXCEPT ![CountedIn(t)] = @ + Cardinality(removed[t])]
  BY DEF Count, Aside, aside, bounds, settings, ledger, shrinks
<1>2. call[t] \in Call /\ Fits("notify", call[t]) /\ call' = [call EXCEPT ![t] = call[t]]
  BY <1>1 DEF IInv, TypeOK, ThreadInv, Fits
<1>3. Step(t, "notify", call[t])
  <2>1. "notify" \in Labels
    BY DEF Labels
  <2> QED
    BY <1>1, <1>2, <2>1 DEF Step, Moves, Goto
<1>4. Core'
  <2>1. Counts(t)
    BY <1>1, <1>3 DEF Counts
  <2> QED
    BY <2>1, CountKeeps, CoreOf
<1>5. BoundsKept(t, call[t])
  BY <1>1, OnlySweepsResize DEF BoundsKept, Aside, Resizing
<1> QED
  BY <1>3, <1>4, <1>5, Kept

\* on_evict is called with one of the values.
LEMMA NotifyAction ==
  ASSUME IInv, NEW t \in Threads, Notify(t)
  PROVE  IInv'
<1>1. /\ pc[t] = "notify" /\ UNCHANGED <<ops, evictions, mixed, total_capacity, capacity>>
      /\ UNCHANGED <<kind, hasher, clock, ttl, refresh>> /\ Aside
  BY DEF Notify, Aside, aside, bounds, settings, counters, shrinks
<1>2. PICK v \in removed[t] :
        /\ notified' = notified \cup {v}
        /\ \/ removed' = [removed EXCEPT ![t] = @ \ {v}] /\ UNCHANGED <<pc, call>>
           \/ Return(t, 0)
  BY DEF Notify
<1>3. ~Resizing(t)
  BY <1>1, OnlySweepsResize
<1>4. CASE removed' = [removed EXCEPT ![t] = @ \ {v}] /\ UNCHANGED <<pc, call>>
  <2>1. /\ call[t] \in Call /\ Fits("notify", call[t])
        /\ call' = [call EXCEPT ![t] = call[t]] /\ pc' = [pc EXCEPT ![t] = "notify"]
    BY <1>1, <1>4 DEF IInv, TypeOK, ThreadInv
  <2>2. Step(t, "notify", call[t])
    BY <1>1, <2>1 DEF Step, Moves, Labels
  <2>3. Core'
    <3>1. Reports(t, "notify", call[t], v)
      BY <1>1, <1>2, <1>4, <2>2 DEF Reports
    <3> QED
      BY <3>1, NotifyKeeps, CoreOf
  <2> QED
    BY <1>1, <1>3, <2>2, <2>3, Kept DEF BoundsKept, Resizing
<1>5. CASE Return(t, 0)
  <2>1. Moves(t, "idle", NoCall) /\ removed' = [removed EXCEPT ![t] = {}]
    BY <1>5, ReturnMoves
  <2>2. Step(t, "idle", NoCall)
    BY <1>1, <2>1 DEF Step
  <2>3. Core'
    <3>1. Reports(t, "idle", NoCall, v)
      BY <1>1, <1>2, <2>1, <2>2 DEF Reports
    <3> QED
      BY <3>1, NotifyKeeps, CoreOf
  <2> QED
    BY <1>1, <1>3, <2>2, <2>3, Kept, NoCallIs DEF BoundsKept
<1> QED
  BY <1>2, <1>4, <1>5

\* The rest of a call that has reported every entry.
LEMMA ReportedAction ==
  ASSUME CountingLaws, IInv, NEW t \in Threads, Reported(t)
  PROVE  IInv'
<1>1. pc[t] = "notify" /\ removed[t] = {} /\ ops' = ops /\ UNCHANGED <<store, order>>
  BY DEF Reported
<1>2. Frame
  BY DEF Reported, Frame, aside, bounds, settings, ledger, shrinks
<1>3. Touches /\ UNCHANGED evictions
  <2>1. UNCHANGED evictions
    BY DEF Reported, Miss, counters
  <2> QED
    BY <1>1, <2>1, Untouched
<1>4. ~Resizing(t)
  BY <1>1, OnlySweepsResize
<1>5. \/ \E v : Return(t, v)
      \/ Goto(t, "sweep") /\ UNCHANGED <<call, removed>>
  BY DEF Reported, Miss
<1>6. ASSUME NEW v, Return(t, v)
      PROVE  IInv'
  BY <1>1, <1>2, <1>3, <1>4, <1>6, ReturnKeeps
<1>7. CASE Goto(t, "sweep") /\ UNCHANGED <<call, removed>>
  <2>1. call[t] \in Call /\ Fits("sweep", call[t]) /\ call' = [call EXCEPT ![t] = call[t]]
    BY <1>1, <1>7 DEF IInv, TypeOK, ThreadInv, Fits
  <2>2. Step(t, "sweep", call[t])
    <3>1. "sweep" \in Labels
      BY DEF Labels
    <3> QED
      BY <1>2, <1>7, <2>1, <3>1 DEF Step, Moves, Goto, Frame
  <2>3. removed' = [removed EXCEPT ![t] = {}]
    BY <1>1, <1>7 DEF IInv, TypeOK
  <2>4. Rests(t, "sweep", call[t])
    BY <1>1, <1>2, <1>3, <2>2, <2>3 DEF Rests, Quiet, Touches, Frame
  <2>5. Core'
    BY <2>4, RestsKeeps DEF IInv, Core
  <2> QED
    BY <1>2, <1>4, <2>2, <2>5, Kept DEF BoundsKept, Frame, Resizing
<1> QED
  BY <1>5, <1>6, <1>7

\* A setting changes, or time passes.
LEMMA AmbientKeeps ==
  ASSUME IInv, ttl' \in Nat, refresh' \in BOOLEAN, clock' \in Nat, clock <= clock', ops' \in {ops, ops + 1},
         UNCHANGED <<aside, store, order, bounds, counters, thread, ledger, shrinks>>
  PROVE  IInv'
<1>1. /\ UNCHANGED <<kind, hasher, store, order, capacity, total_capacity, evictions, pc, call, removed>>
      /\ UNCHANGED <<entered, silent, replaced, lost, zeroed, notified, cut, mixed>>
  BY DEF aside, bounds, counters, thread, ledger, shrinks
<1>2. TypeOK'
  BY SMT, <1>1 DEF IInv, TypeOK
<1>3. ThreadInv'
  <2>1. ASSUME NEW t \in Threads
        PROVE  Fits(pc[t], call[t])'
    <3>1. Fits(pc[t], call[t]) /\ call[t].now \in Nat /\ clock \in Nat /\ clock' \in Nat /\ clock <= clock'
      BY DEF IInv, TypeOK, ThreadInv, Call
    <3>2. call[t].now <= clock'
      BY SMT, <3>1 DEF Fits
    <3> QED
      BY <1>1, <3>1, <3>2 DEF Fits, SweepOps
  <2> QED
    BY <2>1 DEF ThreadInv
<1>4. ValueInv'
  <2>1. ops \in Nat /\ ops' \in Nat /\ ops <= ops'
    BY SMT DEF IInv, TypeOK
  <2>2. ASSUME NEW v \in Nat
        PROVE  OnePlace(v)'
    <3>1. OnePlace(v)
      BY DEF IInv, ValueInv
    <3>2. /\ \A k \in Keys : Held(k, v)' => Held(k, v)
          /\ \A u \in Threads : (InHand(u, v)' => InHand(u, v)) /\ (ToStore(u, v)' => ToStore(u, v))
      BY <1>1 DEF Held, Holds, InHand, ToStore
    <3> QED
      BY <1>1, <2>1, <3>1, <3>2, Stays
  <2> QED
    BY <1>1, <2>2 DEF IInv, ValueInv
<1>5. Accounted'
  <2>1. \A s : Size(s)' = Size(s) /\ Uncounted(s)' = Uncounted(s)
    BY SMT, <1>1 DEF Size, Holds, Uncounted, CountedIn, SweepOps
  <2> QED
    BY <1>1, <2>1 DEF IInv, Accounted
<1>6. OrderInv' /\ ShardWithinCapacity'
  <2>1. \A s : HeldIn(s)' = HeldIn(s)
    BY <1>1 DEF HeldIn, Holds
  <2>2. \A s \in ShardIds : Lists(order[s], HeldIn(s)) => Lists(order[s], HeldIn(s))'
    BY <1>1, <2>1 DEF Lists
  <2>3. OrderInv'
    BY <1>1, <2>2 DEF IInv, OrderInv
  <2> QED
    BY <1>1, <2>3 DEF IInv, ShardWithinCapacity
<1>7. BoundInv' /\ CapacityPublished'
  BY <1>1 DEF IInv, BoundInv, CapacityPublished, Resizing
<1> QED
  BY <1>2, <1>3, <1>4, <1>5, <1>6, <1>7 DEF IInv

\* The actions every store has keep the invariant.
LEMMA CommonKeeps ==
  ASSUME CountingLaws, IInv, Common
  PROVE  IInv'
<1>0. clock \in Nat /\ clock + 1 \in Nat /\ clock <= clock /\ clock <= clock + 1
  <2>1. clock \in Nat
    BY DEF IInv, TypeOK
  <2> QED
    BY SMT, <2>1
<1>1. CASE Configure
  BY <1>0, <1>1, AmbientKeeps, ShardedAssumption DEF Configure
<1>2. CASE Tick
  BY <1>0, <1>2, AmbientKeeps DEF Tick, IInv, TypeOK, settings
<1>3. CASE Done
  BY <1>0, <1>3, AmbientKeeps DEF Done, vars, settings, IInv, TypeOK
<1> QED
  BY <1>1, <1>2, <1>3, StartSweepKeeps, ClearKeeps, ResetKeeps, SweepEndsKeeps, CountAction, NotifyAction,
     ReportedAction DEF Common

-----------------------------------------------------------------------------
(* The actions every bounded store has. *)

\* A share is a number of entries.
LEMMA ShareIs ==
  ASSUME NEW n \in Nat
  PROVE  Share(n) \in Nat /\ per_shard_cap_from_total(n).total = Shards * Share(n)
<1>1. (n + Shards - 1) \div Shards \in Nat
  <2>1. Shards \in Nat /\ Shards > 0
    BY SMT, ShardedAssumption
  <2>2. PICK m \in Nat : m = n + Shards - 1
    BY SMT, <2>1
  <2>3. m \div Shards \in Nat
    BY SMT, <2>1
  <2> QED
    BY <2>2, <2>3
<1> QED
  BY <1>1, ShardedAssumption DEF Share, per_shard_cap_from_total

\* How many victims a trim takes.
LEMMA OutcomeIs ==
  ASSUME NEW ord \in Seq(Keys), NEW cap \in Nat, NEW outcome \in Outcomes(ord, cap)
  PROVE  /\ outcome.n \in Nat /\ outcome.n <= Len(ord)
         /\ outcome.panics => outcome.n # 0
         /\ ~outcome.panics => Len(ord) - outcome.n <= cap
         /\ outcome.n # 0 => Len(ord) - outcome.n >= cap
<1> DEFINE excess == IF Len(ord) > cap THEN Len(ord) - cap ELSE 0
<1>1. excess \in Nat /\ excess <= Len(ord) /\ Len(ord) - excess <= cap /\ Len(ord) \in Nat
      /\ (excess # 0 => Len(ord) - excess >= cap)
  BY SMT
<1>2. outcome = [n |-> excess, panics |-> FALSE] \/ outcome \in [n : 1..excess, panics : {TRUE}]
  BY DEF Outcomes
<1> HIDE DEF excess
<1>3. CASE outcome = [n |-> excess, panics |-> FALSE]
  BY <1>1, <1>3
<1>4. CASE outcome \in [n : 1..excess, panics : {TRUE}]
  <2>1. outcome.n \in 1..excess /\ outcome.panics \in {TRUE}
    BY <1>4
  <2>2. outcome.n \in Nat /\ outcome.n <= Len(ord) /\ outcome.n # 0 /\ Len(ord) - outcome.n >= cap
    BY SMT, <1>1, <2>1
  <2>3. outcome.panics
    BY <2>1
  <2> QED
    BY <2>2, <2>3
<1> QED
  BY <1>2, <1>3, <1>4

\* A resize starts.
LEMMA SetMaxSizeKeeps ==
  ASSUME CountingLaws, IInv, NEW t \in Threads, NEW n \in Nat, set_max_size(t, n)
  PROVE  IInv'
<1>1. /\ pc[t] = "idle" /\ ~Resizing(t) /\ ops' = ops + 1
      /\ Enter(t, "sweep", ResizeCall("resize", n))
      /\ mixed' = (mixed \/ \E u \in Threads : call[u].op = "resize")
  BY BeginIs DEF set_max_size, ResizeCall
<1>2. /\ UNCHANGED <<kind, hasher, clock, ttl, refresh, store, order, capacity, total_capacity, evictions>>
      /\ UNCHANGED <<entered, silent, replaced, lost, zeroed, notified, cut>>
  BY DEF set_max_size, aside, bounds, settings, counters, ledger
<1>3. PICK c \in Call : c.op = "resize" /\ c.now <= clock /\ c.shard = 0 /\ c.shard <= Shards /\ Enter(t, "sweep", c)
  <2>1. "resize" \in Ops /\ clock \in Nat /\ Shards \in Nat
    BY ShardedAssumption DEF Ops, IInv, TypeOK
  <2> QED
    BY SMT, <1>1, <2>1, ResizeCallIs
<1>4. Fits("sweep", c) /\ "sweep" \in Labels
  BY <1>3 DEF Fits, Labels
<1>5. Step(t, "sweep", c)
  BY <1>2, <1>3, <1>4 DEF Step, Moves, Enter, Goto
<1>6. removed' = [removed EXCEPT ![t] = {}]
  BY <1>1, <1>3, EmptyHands DEF Enter, IInv
<1>7. Touches
  BY <1>2, Untouched
<1>8. Rests(t, "sweep", c)
  BY <1>1, <1>2, <1>5, <1>6, <1>7 DEF Rests, Quiet, Touches
<1>9. Core'
  BY <1>8, RestsKeeps, CoreOf
<1>10. BoundInv' /\ CapacityPublished'
  BY <1>1, <1>2, <1>3, <1>5, ResizeStarts DEF Step
<1> QED
  BY <1>9, <1>10 DEF Core, IInv

\* A resize publishes the new total and ends.
LEMMA PublishKeeps ==
  ASSUME CountingLaws, IInv, NEW t \in Threads, Publish(t)
  PROVE  IInv'
<1>1. /\ pc[t] = "sweep" /\ Resizing(t) /\ call[t].shard = Shards /\ ops' = ops
      /\ total_capacity' = per_shard_cap_from_total(call[t].size).total /\ Return(t, total_capacity)
  BY DEF Publish, Resizing
<1>2. /\ UNCHANGED <<kind, hasher, clock, ttl, refresh, store, order, capacity, evictions, mixed>>
      /\ UNCHANGED <<entered, silent, replaced, lost, zeroed, notified, cut>>
  BY DEF Publish, aside, settings, counters, ledger, shrinks
<1>3. Moves(t, "idle", NoCall) /\ removed' = [removed EXCEPT ![t] = {}]
  BY <1>1, ReturnMoves
<1>4. Step(t, "idle", NoCall)
  BY <1>2, <1>3 DEF Step
<1>5. Touches
  BY <1>2, Untouched
<1>6. Rests(t, "idle", NoCall)
  BY <1>1, <1>2, <1>3, <1>4, <1>5 DEF Rests, Quiet, Touches
<1>7. Core'
  BY <1>6, RestsKeeps, CoreOf
<1>8. call[t].size \in Nat
  BY DEF IInv, TypeOK, Call
<1>9. total_capacity' = Shards * Share(call[t].size)
  BY <1>1, <1>8, ShareIs
<1>10. BoundInv' /\ CapacityPublished'
  BY <1>1, <1>2, <1>3, <1>9, NoCallIs, ResizePublishes
<1> QED
  BY <1>7, <1>10 DEF Core, IInv

\* One shard adopts its new bound.
LEMMA ResizeShardKeeps ==
  ASSUME CountingLaws, IInv, kind \in LruKinds, NEW t \in Threads, ResizeShard(t)
  PROVE  IInv'
<1>1. /\ pc[t] = "sweep" /\ Resizing(t) /\ call[t].shard < Shards /\ ops' = ops
      /\ UNCHANGED <<kind, hasher, clock, ttl, refresh, total_capacity, entered, silent, replaced, lost, zeroed>>
  BY DEF ResizeShard, AtShard, Resizing, aside, settings
<1>0. PICK s, cap : s = call[t].shard /\ cap = Share(call[t].size)
  OBVIOUS
<1>2. PICK outcome \in Outcomes(order[s], cap) :
        /\ capacity' = [capacity EXCEPT ![s] = cap]
        /\ Trim(s, order[s], store, outcome.n, 0)
        /\ cut' = IF Len(order[s]) - outcome.n > cap THEN cut \cup {s} ELSE cut \ {s}
        /\ \/ Return(t, 0) /\ mixed' = TRUE
           \/ Enter(t, "sweep", NextShard(t)) /\ UNCHANGED mixed
  BY <1>0 DEF ResizeShard, Share
<1>3. /\ s \in ShardIds /\ NextShard(t) \in Call /\ NextShard(t).op = "resize"
      /\ NextShard(t).now <= clock /\ NextShard(t).shard <= Shards
  BY <1>0, <1>1, NextCall DEF Resizing
<1>4. cap \in Nat
  <2>1. call[t].size \in Nat
    BY DEF IInv, TypeOK, Call
  <2> QED
    BY <1>0, <2>1, ShareIs
<1>5. order[s] \in Seq(Keys) /\ Lists(order[s], HeldIn(s))
  BY <1>3 DEF IInv, TypeOK, OrderInv
<1>6. PICK n \in Nat : n = outcome.n /\ n <= Len(order[s])
  BY <1>4, <1>5, OutcomeIs
<1>7. \A k \in Victims(order[s], n) : k \in Keys /\ Holds(k)
  <2>1. Victims(order[s], n) \in SUBSET HeldIn(s)
    BY <1>5, <1>6, TrimmedList
  <2> QED
    BY <2>1 DEF HeldIn
<1>8. /\ Evicts(Victims(order[s], n))
      /\ order' = [order EXCEPT ![s] = SubSeq(order[s], 1, Len(order[s]) - n)]
  BY <1>2, <1>6, <1>7 DEF Evicts, Trim
<1>9. evictions' = [evictions EXCEPT ![s] = @ + n]
  <2>1. evictions' = [evictions EXCEPT ![s] = @ + n + 0] /\ evictions[s] \in Nat
    BY <1>2, <1>3, <1>6 DEF Trim, IInv, TypeOK, Tally
  <2>2. evictions[s] + n + 0 = evictions[s] + n
    BY <1>6, <2>1, PlusZero
  <2> QED
    BY <2>1, <2>2
<1>10. ASSUME NEW label, label # "write", NEW c, Step(t, label, c), Quiet(t, label, c)
       PROVE  Core'
  <2>1. Shrinks(t, label, c, s, cap, n)
    BY <1>1, <1>2, <1>3, <1>4, <1>6, <1>8, <1>9, <1>10 DEF Shrinks
  <2> QED
    BY <2>1, ShrinksKeeps, CoreOf
<1>11. CASE Return(t, 0) /\ mixed' = TRUE
  <2>1. Moves(t, "idle", NoCall) /\ removed' = [removed EXCEPT ![t] = {}]
    BY <1>11, ReturnMoves
  <2>2. Step(t, "idle", NoCall) /\ Quiet(t, "idle", NoCall)
    BY <1>1, <2>1 DEF Step, Quiet
  <2>3. Core'
    BY <1>10, <2>2
  <2>4. BoundInv' /\ CapacityPublished'
    BY <1>11 DEF BoundInv, CapacityPublished
  <2> QED
    BY <2>3, <2>4 DEF Core, IInv
<1>12. CASE Enter(t, "sweep", NextShard(t)) /\ UNCHANGED mixed
  <2>1. Fits("sweep", NextShard(t)) /\ "sweep" \in Labels
    BY <1>3 DEF Fits, Labels
  <2>2. Step(t, "sweep", NextShard(t))
    BY <1>1, <1>3, <1>12, <2>1 DEF Step, Moves, Enter, Goto
  <2>3. removed' = [removed EXCEPT ![t] = {}]
    BY <1>1, <1>12, EmptyHands DEF Enter, IInv
  <2>4. Quiet(t, "sweep", NextShard(t))
    BY <1>1, <2>3 DEF Quiet
  <2>5. Core'
    BY <1>10, <2>2, <2>4
  <2>6. BoundInv' /\ CapacityPublished'
    <3>1. capacity' = [capacity EXCEPT ![call[t].shard] = Share(call[t].size)] /\ call[t].shard \in ShardIds
      BY <1>0, <1>2, <1>3
    <3>2. Moves(t, "sweep", NextShard(t)) /\ UNCHANGED <<kind, hasher, clock>>
      BY <1>1, <2>2 DEF Step
    <3> QED
      BY <1>1, <1>12, <3>1, <3>2, ResizeGoesOn
  <2> QED
    BY <2>5, <2>6 DEF Core, IInv
<1> QED
  BY <1>2, <1>11, <1>12

\* The actions every bounded store has keep the invariant.
LEMMA LruCommonKeeps ==
  ASSUME CountingLaws, IInv, kind \in LruKinds, LruCommon
  PROVE  IInv'
<1>1. \A n \in 0..MaxSize : n \in Nat
  BY SMT, ShardedAssumption
<1> QED
  BY <1>1, SetMaxSizeKeeps, ResizeShardKeeps, PublishKeeps DEF LruCommon

-----------------------------------------------------------------------------
(* The ways a call on one key goes. *)

\* Thread t is free to return or to take an entry out.
Free(t) == pc[t] \notin {"count", "notify"} /\ ~Resizing(t) /\ ops' \in {ops, ops + 1} /\ Frame

\* A call that returns and leaves the entries alone.
LEMMA PlainKeeps ==
  ASSUME CountingLaws, IInv, NEW t \in Threads, Free(t), NEW v, Return(t, v), UNCHANGED <<store, order, evictions>>
  PROVE  IInv'
<1>1. Touches
  BY Untouched
<1>2. pc[t] # "count" /\ ~Resizing(t) /\ ops' \in {ops, ops + 1} /\ Frame
  BY DEF Free
<1> QED
  BY <1>1, <1>2, ReturnKeeps

\* A miss keeps the invariant.
LEMMA MissKeeps ==
  ASSUME CountingLaws, IInv, NEW t \in Threads, Free(t), NEW k, Miss(t, k), UNCHANGED <<store, order>>
  PROVE  IInv'
<1>1. Return(t, 0) /\ UNCHANGED evictions
  BY DEF Miss
<1> QED
  BY <1>1, PlainKeeps

\* A hit, which may promote and renew the entry.
LEMMA HitKeeps ==
  ASSUME CountingLaws, IInv, NEW t \in Threads, Free(t), NEW k \in Keys, Holds(k), Hit(t, k),
         store' = store \/ Renews(k), order' = order \/ order' = Promoted(k)
  PROVE  IInv'
<1>1. Return(t, store[k].val) /\ UNCHANGED evictions
  BY DEF Hit
<1>2. pc[t] # "count" /\ ~Resizing(t) /\ ops' \in {ops, ops + 1} /\ Frame
  BY DEF Free
<1>3. Touches
  BY <1>1, TouchedOne
<1> QED
  BY <1>1, <1>2, <1>3, ReturnKeeps

\* The entry of k is taken out by a call that is no sweep.
OnKey(c, k) ==
    /\ c \in Call /\ c.op \in {"get", "set", "remove", "remove_entry"} /\ c.key = k
    /\ c.now <= clock /\ c.shard <= Shards

\* A call on a key is no sweep, and its shard is the key's.
LEMMA OnKeyIs ==
  ASSUME NEW k, NEW c, OnKey(c, k)
  PROVE  c.op # "resize" /\ Home(c) = hasher[k] /\ c.op \notin SweepOps
BY DEF OnKey, Home, SweepOps

\* Taking out the entry of one key keeps the invariant.
LEMMA TakeKeyKeeps ==
  ASSUME CountingLaws, IInv, NEW t \in Threads, Free(t), NEW k \in Keys, Holds(k), NEW c, OnKey(c, k),
         \/ kind # "Unbound" /\ TakeOut(t, {k}, c)
         \/ TakeOutCounted(t, {k}, c, hasher[k])
         \/ kind = "Unbound" /\ TakeOutUncounted(t, {k}, c)
  PROVE  IInv'
<1>1. PICK s \in ShardIds : s = hasher[k]
  BY DEF IInv, TypeOK
<1>2. PICK keys \in SUBSET HeldIn(s) : keys = {k}
  BY <1>1 DEF HeldIn
<1>3. /\ pc[t] \notin {"count", "notify"} /\ ~Resizing(t) /\ ops' \in {ops, ops + 1} /\ Frame
      /\ c \in Call /\ c.now <= clock /\ c.shard <= Shards /\ c.op # "resize" /\ Home(c) = s
      /\ (c.op \in SweepOps => c.shard # 0)
  BY <1>1, OnKeyIs DEF Free, OnKey
<1>4. PICK label \in {"count", "notify"} : Take(t, keys, c, label) /\ Charged(label, c, s, keys)
  <2>1. CASE kind # "Unbound" /\ TakeOut(t, {k}, c)
    BY <1>2, <1>3, <2>1 DEF Charged, TakeOut
  <2>2. CASE TakeOutCounted(t, {k}, c, hasher[k])
    BY <1>1, <1>2, <2>2 DEF Charged, TakeOutCounted
  <2>3. CASE kind = "Unbound" /\ TakeOutUncounted(t, {k}, c)
    BY <1>2, <2>3 DEF Charged, TakeOutUncounted
  <2> QED
    BY <2>1, <2>2, <2>3
<1> QED
  BY <1>3, <1>4, TakeKeeps

\* What a call comes to that looks at the entry of its key.
Looks(t, k, c) ==
    \/ Miss(t, k) /\ UNCHANGED <<store, order>>
    \/ /\ Holds(k) /\ Hit(t, k)
       /\ store' = store \/ Renews(k)
       /\ order' = order \/ order' = Promoted(k)
    \/ Holds(k) /\ TakeOut(t, {k}, c)
    \/ Return(t, 0) /\ UNCHANGED <<store, order, evictions>>

\* A call that looks: it misses, hits, takes the entry out or gives up.
LEMMA LooksKeeps ==
  ASSUME CountingLaws, IInv, kind # "Unbound", NEW t \in Threads, Free(t), NEW k \in Keys, NEW c, OnKey(c, k),
         Looks(t, k, c)
  PROVE  IInv'
<1>1. CASE Miss(t, k) /\ UNCHANGED <<store, order>>
  BY <1>1, MissKeeps
<1>2. CASE Holds(k) /\ Hit(t, k) /\ (store' = store \/ Renews(k)) /\ (order' = order \/ order' = Promoted(k))
  BY <1>2, HitKeeps
<1>3. CASE Holds(k) /\ TakeOut(t, {k}, c)
  BY <1>3, TakeKeyKeeps
<1>4. CASE Return(t, 0) /\ UNCHANGED <<store, order, evictions>>
  BY <1>4, PlainKeeps
<1> QED
  BY <1>1, <1>2, <1>3, <1>4 DEF Looks

\* Thread t stores e under k; what becomes of the map, the order and the counts of
\* the entries that leave is said apart.
Storing(t, label, c, k, e) ==
    /\ Step(t, label, c) /\ k \in Keys /\ e \in Entry /\ label # "write" /\ ~Resizing(t) /\ c.op # "resize"
    /\ \/ pc[t] = "idle" /\ e.val = ops + 1 /\ ops' = ops + 1
       \/ pc[t] = "write" /\ e.val = call[t].val /\ ops' = ops
    /\ \/ label \notin {"count", "notify"} /\ removed' = [removed EXCEPT ![t] = {}]
       \/ label \in {"count", "notify"} /\ Holds(k) /\ removed' = [removed EXCEPT ![t] = {store[k].val}]
    /\ entered' = Counted(entered, k, 1)
    /\ UNCHANGED <<capacity, total_capacity, silent, zeroed, mixed>>

\* Nothing is taken out of a map.
LEMMA NothingGone ==
  ASSUME NEW S, NEW f \in [Keys -> S]
  PROVE  f = [j \in Keys |-> IF j \in {} THEN Absent ELSE f[j]]
OBVIOUS

\* An unbounded store has room.
Puts(k, e) == store' = [store EXCEPT ![k] = e] /\ UNCHANGED <<order, evictions, notified, cut>>

\* Storing an entry in a shard that keeps no order keeps the invariant.
LEMMA PlainSetKeeps ==
  ASSUME CountingLaws, IInv, kind \notin LruKinds, NEW t \in Threads, NEW label, NEW c, NEW k, NEW e,
         Storing(t, label, c, k, e), Settles(t, label, c, k, 0), Puts(k, e)
  PROVE  IInv'
<1> USE DEF Puts
<1>1. k \in Keys /\ hasher[k] \in ShardIds /\ Step(t, label, c)
  BY DEF Storing, IInv, TypeOK
<1>2. Stores(t, label, k, e, {})
  <2>1. store \in [Keys -> Entry \cup {Absent}] /\ e \in Entry \cup {Absent}
    BY DEF IInv, TypeOK, Storing
  <2>2. [store EXCEPT ![k] = e] \in [Keys -> Entry \cup {Absent}]
    BY <1>1, <2>1
  <2>3. store' = [j \in Keys |-> IF j \in {} THEN Absent ELSE [store EXCEPT ![k] = e][j]]
    BY <2>2, NothingGone
  <2>4. notified' = notified \cup {[store EXCEPT ![k] = e][j].val : j \in {}}
    OBVIOUS
  <2> QED
    BY <2>3, <2>4 DEF Stores, Storing
<1>3. evictions' = [evictions EXCEPT ![hasher[k]] = @ + 0 + 0]
  <2>1. evictions \in [ShardIds -> Nat]
    BY DEF IInv, TypeOK, Tally
  <2> QED
    BY SMT, <1>1, <2>1
<1>4. MakesRoom(k, 0, {})
  BY DEF MakesRoom
<1>5. Sets(t, label, c, k, e, 0, 0, {})
  BY <1>1, <1>2, <1>3, <1>4 DEF Sets, Storing
<1>6. Core'
  BY <1>5, SetsKeeps, CoreOf
<1>7. BoundsKept(t, c)
  BY DEF Storing, BoundsKept
<1> QED
  BY <1>1, <1>6, <1>7, Kept

\* The order with the key in front.
LEMMA FrontIs ==
  ASSUME CountingLaws, IInv, kind \in LruKinds, NEW k \in Keys
  PROVE  Front(k) \in Seq(Keys) /\ Lists(Front(k), HeldIn(hasher[k]) \cup {k})
<1>1. hasher[k] \in ShardIds
  BY DEF IInv, TypeOK
<1>2. order[hasher[k]] \in Seq(Keys) /\ Lists(order[hasher[k]], HeldIn(hasher[k]))
  BY <1>1 DEF IInv, TypeOK, OrderInv
<1>3. PICK ord \in Seq(Keys) : ord = order[hasher[k]] /\ Lists(ord, HeldIn(hasher[k]))
  BY <1>2
<1>4. Front(k) = <<k>> \o Pick(ord, {i \in DOMAIN ord : ord[i] # k})
  BY <1>3 DEF Front
<1>5. PICK S : S = HeldIn(hasher[k]) /\ Lists(ord, S)
  BY <1>3
<1>6. LET front == <<k>> \o Pick(ord, {i \in DOMAIN ord : ord[i] # k})
      IN  front \in Seq(Keys) /\ Lists(front, S \cup {k})
  BY <1>5, FrontList
<1> QED
  BY <1>4, <1>5, <1>6

\* A bounded store makes room.
LEMMA LruSetKeeps ==
  ASSUME CountingLaws, IInv, kind \in LruKinds, NEW t \in Threads, NEW label, NEW c, NEW k, NEW e, NEW extra \in Nat,
         Storing(t, label, c, k, e), Settles(t, label, c, k, extra),
         NEW outcome \in SetOutcomes(k), InnerSet(k, e, outcome, extra)
  PROVE  IInv'
<1>1. PICK s \in ShardIds : s = hasher[k]
  BY DEF Storing, IInv, TypeOK
<1>2. /\ k \in Keys /\ capacity[s] \in Nat
      /\ Front(k) \in Seq(Keys) /\ Lists(Front(k), HeldIn(s) \cup {k})
  <2>1. k \in Keys /\ capacity[s] \in Nat
    BY DEF Storing, IInv, TypeOK, Tally
  <2> QED
    BY <1>1, <2>1, FrontIs
<1>3. PICK n \in Nat : /\ n = outcome.n /\ n <= Len(Front(k))
                       /\ outcome.panics => n # 0
                       /\ ~outcome.panics => Len(Front(k)) - n <= capacity[hasher[k]]
  BY <1>1, <1>2, OutcomeIs DEF SetOutcomes
<1> DEFINE gone == Victims(Front(k), n)
<1>5. \A j \in gone : j \in Keys /\ (j = k \/ Holds(j))
  <2>1. gone \in SUBSET (HeldIn(s) \cup {k})
    BY <1>2, <1>3, TrimmedList
  <2> QED
    BY <1>2, <2>1 DEF HeldIn
<1>6. /\ order' = [order EXCEPT ![hasher[k]] = SubSeq(Front(k), 1, Len(Front(k)) - n)]
      /\ store' = [j \in Keys |-> IF j \in gone THEN Absent ELSE [store EXCEPT ![k] = e][j]]
      /\ evictions' = [evictions EXCEPT ![hasher[k]] = @ + n + extra]
      /\ notified' = notified \cup {[store EXCEPT ![k] = e][j].val : j \in gone}
      /\ cut' = IF outcome.panics THEN cut ELSE cut \ {hasher[k]}
  <2>1. /\ Trim(hasher[k], Front(k), [store EXCEPT ![k] = e], n, extra)
        /\ cut' = IF outcome.panics THEN cut ELSE cut \ {hasher[k]}
    BY <1>3 DEF InnerSet
  <2> QED
    BY <2>1 DEF Trim
<1>4. gone = Victims(Front(k), n)
  OBVIOUS
<1> HIDE DEF gone
<1>7. Stores(t, label, k, e, gone)
  BY <1>5, <1>6 DEF Stores, Storing
<1>8. MakesRoom(k, n, gone)
  BY <1>3, <1>4, <1>6 DEF MakesRoom
<1>9. Sets(t, label, c, k, e, n, extra, gone)
  BY <1>6, <1>7, <1>8 DEF Sets, Storing
<1>10. Core'
  BY <1>9, SetsKeeps, CoreOf
<1>11. BoundsKept(t, c) /\ Step(t, label, c)
  BY DEF Storing, BoundsKept
<1> QED
  BY <1>10, <1>11, Kept

\* Thread t comes with e for the key k.
Brings(t, k, e) ==
    /\ k \in Keys /\ e \in Entry /\ ~Resizing(t)
    /\ \/ pc[t] = "idle" /\ e.val = ops + 1 /\ ops' = ops + 1
       \/ pc[t] = "write" /\ e.val = call[t].val /\ ops' = ops
    /\ entered' = Counted(entered, k, 1)
    /\ UNCHANGED <<kind, hasher, clock, ttl, refresh, capacity, total_capacity, silent, zeroed, mixed>>

\* It stores it and returns.
LEMMA ReturnStores ==
  ASSUME IInv, NEW t \in Threads, NEW k, NEW e, Brings(t, k, e), NEW v, Return(t, v)
  PROVE  Storing(t, "idle", NoCall, k, e)
<1>1. Moves(t, "idle", NoCall) /\ removed' = [removed EXCEPT ![t] = {}]
  BY ReturnMoves
<1>2. Step(t, "idle", NoCall)
  BY <1>1 DEF Step, Brings
<1>3. NoCall.op # "resize"
  BY NoCallIs
<1> QED
  BY <1>1, <1>2, <1>3 DEF Storing, Brings

\* It stores it and goes on to report the entry that was there.
LEMMA ReportStores ==
  ASSUME IInv, NEW t \in Threads, NEW k, NEW e, Brings(t, k, e), NEW c, OnKey(c, k), Holds(k),
         NEW label \in {"count", "notify"}, label = "count" => kind # "Unbound",
         Goto(t, label), call' = [call EXCEPT ![t] = c], removed' = [removed EXCEPT ![t] = {store[k].val}]
  PROVE  Storing(t, label, c, k, e) /\ Home(c) = hasher[k]
<1>1. c.op # "resize" /\ Home(c) = hasher[k] /\ c.op \notin SweepOps
  BY OnKeyIs
<1>2. label \in Labels /\ c \in Call /\ Fits(label, c)
  BY <1>1 DEF Labels, Fits, OnKey
<1>3. Step(t, label, c)
  BY <1>2 DEF Step, Moves, Goto, Brings
<1> QED
  BY <1>1, <1>3 DEF Storing, Brings

\* A call that starts is free to return or to take an entry out.
LEMMA BeginFree ==
  ASSUME IInv, NEW t \in Threads, Begin(t), Frame
  PROVE  Free(t)
BY BeginIs DEF Free

\* What is in an entry.
LEMMA HeldEntry ==
  ASSUME IInv, NEW k \in Keys, Holds(k)
  PROVE  store[k].val \in Nat /\ store[k].exp \in Expiry
BY DEF IInv, TypeOK, Holds, Entry, Expiry

\* The arguments of a remove that only says the value.
LEMMA ValueCallOn ==
  ASSUME IInv, NEW k \in Keys, Holds(k)
  PROVE  LET c == ValueCall("remove_entry", k, store[k].val) IN OnKey(c, k) /\ c.op = "remove_entry"
<1>1. "remove_entry" \in Ops /\ store[k].val \in Nat /\ clock \in Nat /\ Shards \in Nat
  BY HeldEntry, ShardedAssumption DEF Ops, IInv, TypeOK
<1> QED
  BY SMT, <1>1, ValueCallIs DEF OnKey

\* The arguments of a remove.
LEMMA RemoveCall ==
  ASSUME IInv, NEW k \in Keys, Holds(k), NEW op \in {"remove", "remove_entry"}
  PROVE  LET c == EntryCall(op, k, clock, store[k].val, store[k].exp) IN OnKey(c, k) /\ c.op = op
<1>1. op \in Ops /\ clock \in Nat /\ Shards \in Nat
  BY ShardedAssumption DEF Ops, IInv, TypeOK
<1>2. store[k].val \in Nat /\ store[k].exp \in Expiry
  BY HeldEntry
<1> DEFINE c == EntryCall(op, k, clock, store[k].val, store[k].exp)
<1>3. c \in Call /\ c.op = op /\ c.key = k /\ c.now = clock /\ c.shard = 0
  BY SMTT(30), <1>1, <1>2, EntryCallIs
<1> HIDE DEF c
<1>4. OnKey(c, k) /\ c.op = op
  BY SMT, <1>1, <1>3 DEF OnKey
<1> QED
  BY <1>4 DEF c

\* A step of something else.
LEMMA StutterIInv ==
  ASSUME IInv, UNCHANGED vars
  PROVE  IInv'
<1>1. UNCHANGED <<kind, hasher, clock, store, order, capacity, total_capacity, ttl, refresh, evictions,
                  pc, call, removed, ops, entered, silent, replaced, lost, zeroed, notified, cut, mixed>>
  BY DEF vars, aside, bounds, settings, counters, thread, ledger, shrinks
<1>2. TypeOK'
  BY <1>1 DEF IInv, TypeOK
<1>3. ThreadInv'
  BY <1>1 DEF IInv, ThreadInv, Fits, SweepOps
<1>4. ValueInv'
  BY SMTT(30), <1>1 DEF IInv, ValueInv, OnePlace, Held, InHand, ToStore, Holds
<1>5. Accounted'
  <2>1. \A s : Size(s)' = Size(s) /\ Uncounted(s)' = Uncounted(s)
    BY SMTT(30), <1>1 DEF Size, Uncounted, CountedIn, SweepOps, Holds
  <2> QED
    BY <1>1, <2>1 DEF IInv, Accounted
<1>6. OrderInv'
  BY SMTT(30), <1>1 DEF IInv, OrderInv, Lists, HeldIn, Holds
<1>7. ShardWithinCapacity'
  BY <1>1 DEF IInv, ShardWithinCapacity
<1>8. BoundInv'
  BY <1>1 DEF IInv, BoundInv, Resizing
<1>9. CapacityPublished'
  BY <1>1 DEF IInv, CapacityPublished
<1> QED
  BY <1>2, <1>3, <1>4, <1>5, <1>6, <1>7, <1>8, <1>9 DEF IInv

-----------------------------------------------------------------------------
(* A new store, and what the invariant says of reports. *)

\* What the builders give a store.
Configured ==
    /\ kind \in Kinds /\ ttl \in Nat /\ refresh \in BOOLEAN
    /\ capacity \in Tally
    /\ kind \in LruKinds => \A s \in ShardIds : total_capacity = Shards * capacity[s]

\* The builder of a bounded store gives every shard its share of the capacity.
LEMMA BoundedIs ==
  ASSUME Bounded
  PROVE  capacity \in Tally /\ \A s \in ShardIds : total_capacity = Shards * capacity[s]
<1>1. PICK cap \in resolve_per_shard_cap :
         capacity = [s \in ShardIds |-> cap] /\ total_capacity = Shards * cap
  BY DEF Bounded
<1>2. cap \in Nat
  <2>1. \A n \in 1..MaxSize : n \in Nat
    BY SMTT(30), ShardedAssumption
  <2>2. \A n \in 1..MaxSize : per_shard_cap_from_total(n).per_shard \in Nat
    BY <2>1, ShareIs DEF Share
  <2> QED
    BY <1>1, <2>1, <2>2 DEF resolve_per_shard_cap
<1> QED
  BY <1>1, <1>2 DEF Tally

\* A new store is empty, and nobody calls it.
LEMMA EmptyIInv ==
  ASSUME CountingLaws, Init, Configured
  PROVE  IInv
<1>1. Unused /\ ops = 0 /\ store = [k \in Keys |-> Absent] /\ order = [s \in ShardIds |-> <<>>]
      /\ entered = [s \in ShardIds |-> 0]
  BY DEF Init
<1>2. /\ \A k \in Keys : ~Holds(k)
      /\ \A t \in Threads : pc[t] = "idle" /\ call[t] = NoCall /\ removed[t] = {}
      /\ notified = {} /\ cut = {} /\ clock = 0
  BY <1>1 DEF Unused, Holds
<1>3. /\ \A s \in ShardIds : /\ entered[s] = 0 /\ silent[s] = 0 /\ replaced[s] = 0 /\ lost[s] = 0
                             /\ evictions[s] = 0 /\ zeroed[s] = 0 /\ order[s] = <<>>
      /\ entered \in Tally /\ silent \in Tally /\ replaced \in Tally /\ lost \in Tally
      /\ evictions \in Tally /\ zeroed \in Tally
  BY <1>1 DEF Unused, Tally
<1>4. TypeOK
  <2>1. hasher \in [Keys -> ShardIds]
    BY <1>1, ShardedAssumption DEF Unused
  <2>2. store \in [Keys -> Entry \cup {Absent}] /\ order \in [ShardIds -> Seq(Keys)] /\ clock \in Nat /\ ops \in Nat
    BY SMTT(30), <1>1 DEF Unused
  <2>3. "idle" \in Labels
    BY DEF Labels
  <2>4. pc \in [Threads -> Labels] /\ call \in [Threads -> Call] /\ removed \in [Threads -> SUBSET Nat]
        /\ notified \in SUBSET Nat
    BY <1>1, <2>3, NoCallIs DEF Unused
  <2> QED
    BY <1>1, <1>3, <2>1, <2>2, <2>4 DEF Configured, TypeOK
<1>5. ThreadInv
  <2>1. Fits("idle", NoCall)
    BY SMTT(30), <1>2, NoCallIs, ShardedAssumption DEF Fits
  <2> QED
    BY <1>2, <2>1 DEF ThreadInv
<1>6. ValueInv
  <2>1. ASSUME NEW v \in Nat
        PROVE  OnePlace(v)
    BY <1>2 DEF OnePlace, Held, InHand, ToStore
  <2> QED
    BY <1>2, <2>1 DEF ValueInv
<1>7. Accounted
  <2>1. ASSUME NEW s \in ShardIds
        PROVE  Size(s) = 0 /\ Cardinality(Uncounted(s)) = 0
    <3>1. {k \in Keys : hasher[k] = s /\ Holds(k)} = {} /\ Uncounted(s) = {}
      BY <1>2 DEF Uncounted
    <3> QED
      BY <3>1 DEF Size, CountingLaws, EmptyLaw
  <2> QED
    BY SMTT(30), <1>3, <2>1 DEF Accounted
<1>8. OrderInv
  <2>1. ASSUME NEW s \in ShardIds
        PROVE  Lists(order[s], HeldIn(s))
    BY SMTT(30), <1>2, <1>3 DEF Lists, HeldIn
  <2> QED
    BY <2>1 DEF OrderInv
<1>9. ShardWithinCapacity
  BY SMTT(30), <1>3, <1>4 DEF ShardWithinCapacity, TypeOK, Tally
<1>10. BoundInv
  BY <1>2, NoCallIs DEF BoundInv, Resizing
<1>11. CapacityPublished
  BY DEF Configured, CapacityPublished
<1> QED
  BY <1>4, <1>5, <1>6, <1>7, <1>8, <1>9, <1>10, <1>11 DEF IInv

\* Where values may be tells what on_evict has heard of.
LEMMA IInvReportedOnce ==
  ASSUME IInv
  PROVE  ReportedOnce
<1>1. ASSUME NEW k \in Keys, Holds(k)
      PROVE  store[k].val \notin notified /\ \A t \in Threads : store[k].val \notin removed[t]
  <2>1. store[k].val \in Nat
    BY <1>1, HeldEntry
  <2> QED
    BY <1>1, <2>1 DEF IInv, ValueInv, OnePlace, Held, InHand
<1>2. ASSUME NEW t \in Threads, NEW v \in removed[t]
      PROVE  v \notin notified /\ \A u \in Threads \ {t} : v \notin removed[u]
  <2>1. v \in Nat
    BY <1>2 DEF IInv, TypeOK
  <2> QED
    BY <1>2, <2>1 DEF IInv, ValueInv, OnePlace, InHand
<1> DEFINE stored == {store[k].val : k \in {j \in Keys : Holds(j)}}
<1>3. \A v \in stored : v \notin notified /\ \A t \in Threads : v \notin removed[t]
  BY <1>1
<1> HIDE DEF stored
<1>4. notified \cap stored = {}
  BY <1>3
<1>5. ASSUME NEW t \in Threads
      PROVE  removed[t] \cap (stored \cup notified \cup UNION {removed[u] : u \in Threads \ {t}}) = {}
  <2>1. \A v \in removed[t] : v \notin UNION {removed[u] : u \in Threads \ {t}}
    BY <1>2, <1>5
  <2> QED
    BY <1>2, <1>3, <2>1
<1> QED
  BY <1>4, <1>5 DEF ReportedOnce, stored

-----------------------------------------------------------------------------
(* Which entries leave. *)

\* The step of LiveStays.
LiveStep ==
    \A k \in Keys :
       Live(k, clock) /\ store'[k] = Absent => StillFull(k) \/ \E t \in Threads : MayRemove(t, k)

\* Every entry that leaves has expired.
OverdueLeave == \A k \in Keys : Holds(k) /\ store'[k] = Absent => Expired(store[k], clock)

\* A step by which only expired entries leave is one of LiveStays.
LEMMA OverdueLive ==
  ASSUME OverdueLeave
  PROVE  LiveStep
BY DEF OverdueLeave, LiveStep, Live

\* A step by which nothing changes, a deadline apart, is one of LiveStays.
LEMMA StayLive ==
  ASSUME IInv, store' = store \/ \E k \in Keys : Holds(k) /\ Renews(k)
  PROVE  LiveStep
<1>1. OverdueLeave
  <2>1. CASE store' = store
    BY <2>1 DEF OverdueLeave, Holds
  <2>2. ASSUME NEW k \in Keys, Holds(k), Renews(k)
        PROVE  OverdueLeave
    <3>1. PICK x \in Nat \cup {Never} : store' = [store EXCEPT ![k] = [val |-> store[k].val, exp |-> x]]
      BY <2>2 DEF Renews
    <3>2. store[k].val \in Nat
      BY <2>2, HeldEntry
    <3>3. [val |-> store[k].val, exp |-> x] # Absent
      BY SMTT(30), <3>1, <3>2, ShardedAssumption
    <3> QED
      BY <3>1, <3>3 DEF OverdueLeave, Holds, IInv, TypeOK
  <2> QED
    BY <2>1, <2>2
<1> QED
  BY <1>1, OverdueLive

\* The map with e for k.
Placed(k, e) == store' = [store EXCEPT ![k] = e]

\* A step that stores an entry and removes none is one of LiveStays.
LEMMA PutLive ==
  ASSUME IInv, NEW k \in Keys, NEW e \in Entry, Placed(k, e)
  PROVE  LiveStep
<1>1. e # Absent
  BY ShardedAssumption DEF Entry
<1>2. OverdueLeave
  BY <1>1 DEF OverdueLeave, Holds, IInv, TypeOK, Placed
<1> QED
  BY <1>2, OverdueLive

\* What had expired when it was looked at is expired still.
LEMMA StillExpired ==
  ASSUME IInv, NEW k \in Keys, Holds(k), NEW now \in Nat, now <= clock, Expired(store[k], now)
  PROVE  Expired(store[k], clock)
<1>1. store[k].exp \in Nat \cup {Never} /\ clock \in Nat
  BY HeldEntry DEF Expiry, IInv, TypeOK
<1> QED
  BY SMT, <1>1 DEF Expired

\* An expired entry is taken out.
LEMMA StaleLive ==
  ASSUME IInv, NEW k \in Keys, NEW now \in Nat, now <= clock, Stale(k, now),
         NEW t, NEW c, TakeOut(t, {k}, c)
  PROVE  LiveStep
<1>1. Expired(store[k], clock)
  BY StillExpired DEF Stale
<1>2. store' = [j \in Keys |-> IF j \in {k} THEN Absent ELSE store[j]]
  BY DEF TakeOut, Take, Without
<1>3. OverdueLeave
  BY <1>1, <1>2 DEF OverdueLeave, Holds
<1> QED
  BY <1>3, OverdueLive

\* Thread t takes an entry out, with the arguments c.
TakesOne(t, k, c) ==
    TakeOut(t, {k}, c) \/ TakeOutCounted(t, {k}, c, hasher[k]) \/ TakeOutUncounted(t, {k}, c)

\* A call that removes the entry of its key.
LEMMA RemoveLive ==
  ASSUME IInv, NEW t \in Threads, Begin(t), NEW k \in Keys, NEW c, OnKey(c, k), c.op \in {"remove", "remove_entry"},
         TakesOne(t, k, c)
  PROVE  LiveStep
<1>1. call[t] = NoCall
  BY DEF Begin, IInv, ThreadInv, Fits
<1>2. call'[t] = c
  <2>1. call' = [call EXCEPT ![t] = c]
    BY DEF TakesOne, TakeOut, TakeOutCounted, TakeOutUncounted, Take
  <2> QED
    BY <2>1 DEF IInv, TypeOK
<1>3. call[t] # call'[t]
  BY <1>1, <1>2, NoCallIs
<1> QED
  BY <1>2, <1>3 DEF LiveStep, MayRemove

\* Thread t takes the doomed entries of a shard out: expired ones, or such that
\* were to leave.
Dooms(t, op, doomed) ==
    /\ AtShard(t, op) /\ doomed \in SUBSET InShard(t)
    /\ \A k \in doomed : \/ Expired(store[k], clock)
                         \/ op \in {"drain", "clear"}
                         \/ op = "retain" /\ k \notin call[t].keep
    /\ store' = store \/ Without(doomed)
    /\ call' = [call EXCEPT ![t] = NextShard(t)]

\* It removes no live entry that it was not told to.
LEMMA SweepLive ==
  ASSUME IInv, NEW t \in Threads, NEW op, NEW doomed, Dooms(t, op, doomed)
  PROVE  LiveStep
<1>1. call[t].op = op /\ call[t].shard \in Nat
  BY DEF Dooms, AtShard, IInv, TypeOK, Call
<1>2. call'[t] # call[t]
  <2>1. call'[t] = NextShard(t)
    BY DEF Dooms, IInv, TypeOK
  <2>2. NextShard(t).shard = call[t].shard + 1
    BY DEF NextShard, IInv, TypeOK, Call
  <2> QED
    BY SMTT(30), <1>1, <2>1, <2>2
<1>3. ASSUME NEW k \in Keys, Live(k, clock), store'[k] = Absent
      PROVE  MayRemove(t, k)
  <2>1. k \in doomed
    BY <1>3 DEF Live, Holds, Without, Dooms
  <2>2. ~Expired(store[k], clock)
    BY <1>3 DEF Live
  <2> QED
    BY <1>1, <1>2, <2>1, <2>2 DEF MayRemove, Dooms
<1> QED
  BY <1>3 DEF LiveStep

\* What a sweep does to the map and to its arguments.
LEMMA SweepMoves ==
  ASSUME NEW t, NEW doomed, Sweep(t, doomed) \/ SweepCounted(t, doomed) \/ SweepUncounted(t, doomed)
  PROVE  (store' = store \/ Without(doomed)) /\ call' = [call EXCEPT ![t] = NextShard(t)]
BY DEF Sweep, SweepCounted, SweepUncounted, Skip, Enter, TakeOut, TakeOutCounted, TakeOutUncounted, Take

\* The shard s, with these contents and this order, is trimmed to its bound.
Trimming(s, ord, cap, outcome, contents, extra) ==
    /\ s \in ShardIds /\ ord \in Seq(Keys) /\ cap \in Nat /\ outcome \in Outcomes(ord, cap)
    /\ \A i \in DOMAIN ord : hasher[ord[i]] = s
    /\ \A k \in Keys : Holds(k) => contents[k] # Absent
    /\ Trim(s, ord, contents, outcome.n, extra)
    /\ capacity'[s] = cap

\* The capacity loop takes no more out than it must.
LEMMA TrimLive ==
  ASSUME IInv, kind \in LruKinds, NEW s, NEW ord, NEW cap, NEW outcome, NEW contents, NEW extra,
         Trimming(s, ord, cap, outcome, contents, extra)
  PROVE  LiveStep
<1>0. /\ s \in ShardIds /\ ord \in Seq(Keys) /\ cap \in Nat /\ outcome \in Outcomes(ord, cap)
      /\ \A i \in DOMAIN ord : hasher[ord[i]] = s
      /\ \A k \in Keys : Holds(k) => contents[k] # Absent
      /\ Trim(s, ord, contents, outcome.n, extra)
      /\ capacity'[s] = cap
  BY DEF Trimming
<1>1. outcome.n \in Nat /\ outcome.n <= Len(ord) /\ (outcome.n # 0 => Len(ord) - outcome.n >= cap)
  BY <1>0, OutcomeIs
<1>2. ASSUME NEW k \in Keys, Live(k, clock), store'[k] = Absent
      PROVE  StillFull(k)
  <2>1. k \in Victims(ord, outcome.n)
    BY <1>0, <1>2 DEF Trim, Live
  <2>2. PICK i \in (Len(ord) - outcome.n + 1)..Len(ord) : k = ord[i]
    BY <2>1 DEF Victims
  <2>3. outcome.n # 0 /\ i \in DOMAIN ord
    BY SMT, <1>0, <1>1, <2>2
  <2>4. hasher[k] = s
    BY <1>0, <2>2, <2>3
  <2>5. order'[s] = SubSeq(ord, 1, Len(ord) - outcome.n)
    <3>1. order' = [order EXCEPT ![s] = SubSeq(ord, 1, Len(ord) - outcome.n)]
      BY <1>0 DEF Trim
    <3>2. order \in [ShardIds -> Seq(Keys)]
      BY DEF IInv, TypeOK
    <3> QED
      BY <1>0, <3>1, <3>2
  <2>6. Len(order'[s]) = Len(ord) - outcome.n
    BY SMTT(30), <1>0, <1>1, <2>5
  <2> QED
    BY <1>0, <1>1, <2>3, <2>4, <2>6 DEF StillFull
<1> QED
  BY <1>2 DEF LiveStep

\* The steps that all the stores have: only a clear removes.
LEMMA CommonLive ==
  ASSUME IInv, Common
  PROVE  LiveStep
<1>1. ASSUME NEW t \in Threads, clear(t)
      PROVE  LiveStep
  <2>1. AtShard(t, "clear") /\ Without(InShard(t)) /\ call' = [call EXCEPT ![t] = NextShard(t)]
    BY <1>1 DEF clear, Enter
  <2>2. Dooms(t, "clear", InShard(t))
    BY <2>1 DEF Dooms
  <2> QED
    BY <2>2, SweepLive
<1>2. ASSUME NEW t \in Threads, \/ StartSweep(t) \/ cache_reset_metrics(t) \/ SweepEnds(t)
                                \/ Count(t) \/ Notify(t) \/ Reported(t)
      PROVE  store' = store
  BY <1>2 DEF StartSweep, cache_reset_metrics, SweepEnds, Count, Notify, Reported
<1>3. CASE Configure \/ Tick \/ Done
  BY <1>3, StayLive DEF Configure, Tick, Done, vars
<1> QED
  BY <1>1, <1>2, <1>3, StayLive DEF Common

\* A resize trims each shard to its new bound.
LEMMA LruCommonLive ==
  ASSUME IInv, kind \in LruKinds, LruCommon
  PROVE  LiveStep
<1>1. ASSUME NEW t \in Threads, ResizeShard(t)
      PROVE  LiveStep
  <2>1. PICK s, cap : s = call[t].shard /\ cap = Share(call[t].size)
    OBVIOUS
  <2>2. PICK outcome \in Outcomes(order[s], cap) :
           capacity' = [capacity EXCEPT ![s] = cap] /\ Trim(s, order[s], store, outcome.n, 0)
    BY <1>1, <2>1 DEF ResizeShard, Share
  <2>3. s \in ShardIds /\ cap \in Nat
    <3>1. call[t].size \in Nat /\ call[t].shard < Shards
      BY <1>1 DEF ResizeShard, AtShard, IInv, TypeOK, Call
    <3> QED
      BY <2>1, <3>1, NextCall, ShareIs
  <2>4. order[s] \in Seq(Keys) /\ capacity'[s] = cap
    BY <2>2, <2>3 DEF IInv, TypeOK, Tally
  <2>5. \A i \in DOMAIN order[s] : hasher[order[s][i]] = s
    BY <2>3 DEF IInv, OrderInv, Lists, HeldIn
  <2>6. \A k \in Keys : Holds(k) => store[k] # Absent
    BY DEF Holds
  <2>7. Trimming(s, order[s], cap, outcome, store, 0)
    BY <2>2, <2>3, <2>4, <2>5, <2>6 DEF Trimming
  <2> QED
    BY <2>7, TrimLive
<1>2. ASSUME NEW t \in Threads, NEW n, set_max_size(t, n)
      PROVE  store' = store
  BY <1>2 DEF set_max_size
<1>3. ASSUME NEW t \in Threads, Publish(t)
      PROVE  store' = store
  BY <1>3 DEF Publish
<1> QED
  BY <1>1, <1>2, <1>3, StayLive DEF LruCommon

\* A set of a bounded store makes room only in a shard that is full.
LEMMA InnerSetLive ==
  ASSUME CountingLaws, IInv, kind \in LruKinds,
         NEW k \in Keys, NEW e \in Entry, NEW outcome \in SetOutcomes(k), NEW extra,
         InnerSet(k, e, outcome, extra), UNCHANGED capacity
  PROVE  LiveStep
<1>1. PICK s \in ShardIds : s = hasher[k]
  BY DEF IInv, TypeOK
<1>2. PICK ord \in Seq(Keys) : ord = Front(k) /\ Lists(ord, HeldIn(s) \cup {k})
  BY <1>1, FrontIs
<1> DEFINE contents == [store EXCEPT ![k] = e]
<1>3. \A j \in Keys : Holds(j) => contents[j] # Absent
  BY ShardedAssumption DEF Holds, Entry, IInv, TypeOK
<1>4. Trim(s, ord, contents, outcome.n, extra)
  BY <1>1, <1>2 DEF InnerSet
<1> HIDE DEF contents
<1>5. capacity'[s] \in Nat /\ outcome \in Outcomes(ord, capacity'[s])
  BY <1>1, <1>2 DEF SetOutcomes, IInv, TypeOK, Tally
<1>6. \A i \in DOMAIN ord : hasher[ord[i]] = s
  BY <1>1, <1>2 DEF Lists, HeldIn
<1>7. Trimming(s, ord, capacity'[s], outcome, contents, extra)
  BY <1>2, <1>3, <1>4, <1>5, <1>6 DEF Trimming
<1> QED
  BY <1>7, TrimLive

\* A remove of an entry with a deadline.
LEMMA RemoveEntryLive ==
  ASSUME IInv, NEW t \in Threads, Begin(t), NEW k \in Keys, Holds(k), NEW op \in {"remove", "remove_entry"},
         TakesOne(t, k, EntryCall(op, k, clock, store[k].val, store[k].exp))
  PROVE  LiveStep
<1>1. PICK c : /\ c = EntryCall(op, k, clock, store[k].val, store[k].exp)
               /\ OnKey(c, k) /\ c.op = op
  BY RemoveCall
<1> QED
  BY <1>1, RemoveLive

=============================================================================
