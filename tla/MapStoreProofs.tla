--------------------------- MODULE MapStoreProofs ---------------------------
(***************************************************************************)
(* Proofs about TtlCache, ExpiringCache and UnboundCache, for any keys,    *)
(* TTLs and number of operations: every entry and every lookup is counted  *)
(* once, on_evict is told of a value once and when it has left the map,    *)
(* and a value stored in TtlCache has its whole time to live.              *)
(*                                                                         *)
(* Each operation of the three stores is one of a few changes of the map   *)
(* (Looks, TakesOut, PutsIn...).  That the changes keep the invariant is   *)
(* shown once, for all three.                                              *)
(***************************************************************************)
EXTENDS MCMapStore, FiniteSetTheorems, TLAPS

MapTypeOK ==
    /\ store \in [Keys -> Entry \cup {Absent}] /\ IsFiniteSet(Held)
    /\ clock \in Nat /\ ops \in Nat /\ ttl \in Nat /\ key \in Keys
    /\ hits \in Nat /\ misses \in Nat /\ lookups \in Nat
    /\ evictions \in Nat /\ entered \in Nat /\ silent \in Nat /\ replaced \in Nat /\ lost \in Nat
    /\ pc \in {"idle", "factory", "notify", "retain"}
    /\ removed \subseteq Entry

\* No two entries have one value, and none has a value yet to be stored.
ValueInv ==
    /\ \A k, j \in Held : store[k].val = store[j].val => k = j
    /\ \A k \in Held : store[k].val <= ops /\ (pc = "factory" => store[k].val # ops)
    /\ \A v \in notified : v <= ops /\ (pc = "factory" => v # ops)
    /\ notified \subseteq Nat

\* What on_evict has still to be told of: nothing between the operations, and
\* entries of the map inside UnboundCache::retain.
RemovedInv ==
    /\ \A e, f \in removed : e.val = f.val => e = f
    /\ \A e \in removed : e.val <= ops
    /\ pc \in {"idle", "factory"} => removed = {}
    /\ pc = "retain" => kind = "UnboundCache" /\ removed \subseteq {store[k] : k \in Held}

IInv == MapTypeOK /\ ValueInv /\ RemovedInv /\ Accounted /\ ReportedOnce

-----------------------------------------------------------------------------
(* The changes an operation can make.                                      *)

\* The lookups made are counted.
Tallied ==
    /\ hits' \in Nat /\ misses' \in Nat /\ lookups' \in Nat
    /\ hits' + misses' = lookups'

Unchanging == UNCHANGED <<kind, clock, notified, cut>> /\ ttl' \in Nat /\ key' \in Keys /\ Tallied

\* The operation is the next one, or the one whose factory has returned.
Numbered ==
    \/ pc = "idle" /\ ops' = ops + 1
    \/ pc = "factory" /\ ops' = ops

\* Every entry stays, though its deadline may move.
Looks ==
    /\ Unchanging /\ pc = "idle" /\ ops' = ops + 1
    /\ store' \in [Keys -> Entry \cup {Absent}]
    /\ \A k \in Keys : store'[k] = Absent <=> store[k] = Absent
    /\ \A k \in Held : store'[k].val = store[k].val
    /\ pc' \in {"idle", "factory"}
    /\ UNCHANGED <<evictions, removed, ledger>>

\* The entries of some keys leave, counted, and on_evict is to be told.
TakesOut(gone) ==
    /\ Unchanging /\ pc = "idle" /\ ops' = ops + 1
    /\ gone \subseteq Held /\ store' = Without(gone)
    /\ Report({store[k] : k \in gone})
    /\ \/ kind = "UnboundCache" /\ UNCHANGED evictions
       \/ kind # "UnboundCache" /\ evictions' = evictions + Cardinality({store[k] : k \in gone})
    /\ UNCHANGED ledger

\* An entry leaves that is not counted.
Loses(k) ==
    /\ Unchanging /\ pc = "idle" /\ ops' = ops + 1
    /\ k \in Held /\ store' = Without({k})
    /\ Report({})
    /\ lost' = lost + 1
    /\ UNCHANGED <<evictions, entered, silent, replaced>>

\* An entry that was displaced is counted as one of three.
Displaces ==
    \/ replaced' = replaced + 1 /\ UNCHANGED <<evictions, lost>>
    \/ evictions' = evictions + 1 /\ UNCHANGED <<replaced, lost>>
    \/ lost' = lost + 1 /\ UNCHANGED <<evictions, replaced>>

\* An entry goes in; on_evict may have to be told of the one it displaces.
PutsIn(k, exp) ==
    /\ Unchanging /\ Numbered
    /\ k \in Keys /\ exp \in Nat \cup {Never}
    /\ store' = With(k, exp)
    /\ \/ Report({})
       \/ k \in Held /\ Report({store[k]})
    /\ silent' = silent
    /\ \/ kind = "UnboundCache" /\ UNCHANGED <<entered, replaced, evictions, lost>>
       \/ /\ kind # "UnboundCache" /\ entered' = entered + 1
          /\ \/ k \in Held /\ Displaces
             \/ k \notin Held /\ UNCHANGED <<replaced, evictions, lost>>

-----------------------------------------------------------------------------
(* The map and the values in it.                                           *)

\* Most steps need no arithmetic and are Zenon's; the others name their prover.
USE Zenon

\* An entry of the map has a value and a deadline.
LEMMA HeldEntry ==
  ASSUME MapTypeOK, NEW k \in Held
  PROVE  /\ k \in Keys /\ store[k] \in Entry /\ store[k] # Absent
         /\ store[k].val \in Nat /\ store[k].exp \in Nat \cup {Never}
BY DEF MapTypeOK, Held, Entry

\* Entries taken out are gone, the others stay as they are.
LEMMA WithoutHeld ==
  ASSUME MapTypeOK, NEW gone, gone \subseteq Held, store' = Without(gone)
  PROVE  /\ store' \in [Keys -> Entry \cup {Absent}]
         /\ Held' = Held \ gone
         /\ \A k \in Held \ gone : store'[k] = store[k]
         /\ IsFiniteSet(Held') /\ IsFiniteSet(gone)
         /\ Cardinality(gone) \in Nat
         /\ Cardinality(Held) = Cardinality(Held') + Cardinality(gone)
<1>1. store' \in [Keys -> Entry \cup {Absent}]
  BY DEF MapTypeOK, Without
<1>2. Held' = Held \ gone
  BY DEF MapTypeOK, Without, Held
<1>3. \A k \in Held \ gone : store'[k] = store[k]
  BY DEF Without, Held
<1>4. IsFiniteSet(Held) /\ IsFiniteSet(gone) /\ Held \cap gone = gone
  BY FS_Subset DEF MapTypeOK
<1>5. /\ IsFiniteSet(Held \ gone)
      /\ Cardinality(Held \ gone) = Cardinality(Held) - Cardinality(gone)
  BY <1>4, FS_Difference
<1>6. Cardinality(Held) \in Nat /\ Cardinality(gone) \in Nat /\ Cardinality(Held \ gone) \in Nat
  BY <1>4, <1>5, FS_CardinalityType
<1> QED
  BY SMT, <1>1, <1>2, <1>3, <1>4, <1>5, <1>6

\* A batch of entries is as large as the set of its keys: no two are equal.
LEMMA BatchSize ==
  ASSUME MapTypeOK, ValueInv, NEW gone, gone \subseteq Held
  PROVE  Cardinality({store[k] : k \in gone}) = Cardinality(gone)
<1> DEFINE batch == {store[k] : k \in gone}
           f == [k \in gone |-> store[k]]
<1>1. IsFiniteSet(gone)
  BY FS_Subset DEF MapTypeOK
<1>2. f \in Bijection(gone, batch)
  <2>1. f \in [gone -> batch]
    OBVIOUS
  <2>2. \A k, j \in gone : f[k] = f[j] => k = j
    BY DEF ValueInv
  <2>3. \A e \in batch : \E k \in gone : f[k] = e
    OBVIOUS
  <2> QED
    BY <2>1, <2>2, <2>3 DEF Bijection, Injection, Surjection, IsInjective
<1> QED
  BY <1>1, <1>2, FS_Bijection DEF ExistsBijection

\* A new entry takes the place of the one the key had.
LEMMA WithHeld ==
  ASSUME MapTypeOK, NEW k \in Keys, NEW exp \in Nat \cup {Never}, ops' \in Nat,
         store' = With(k, exp)
  PROVE  /\ store' \in [Keys -> Entry \cup {Absent}]
         /\ Held' = Held \cup {k}
         /\ store'[k] = [val |-> ops', exp |-> exp]
         /\ \A j \in Keys : j # k => store'[j] = store[j]
         /\ IsFiniteSet(Held') /\ Cardinality(Held) \in Nat
         /\ Cardinality(Held') + (IF k \in Held THEN 1 ELSE 0) = Cardinality(Held) + 1
<1>1. [val |-> ops', exp |-> exp] \in Entry
  BY DEF Entry
<1>2. /\ store' \in [Keys -> Entry \cup {Absent}]
      /\ store'[k] = [val |-> ops', exp |-> exp]
      /\ \A j \in Keys : j # k => store'[j] = store[j]
  BY <1>1 DEF MapTypeOK, With
<1>3. Absent \notin Entry
  BY MapStoreAssumption DEF Entry
<1>4. Held' = Held \cup {k}
  BY <1>1, <1>2, <1>3 DEF Held
<1>5. IsFiniteSet(Held) /\ Cardinality(Held) \in Nat
  BY FS_CardinalityType DEF MapTypeOK
<1>6. /\ IsFiniteSet(Held \cup {k})
      /\ Cardinality(Held \cup {k}) = IF k \in Held THEN Cardinality(Held) ELSE Cardinality(Held) + 1
  BY <1>5, FS_AddElement
<1> QED
  BY SMT, <1>2, <1>4, <1>5, <1>6

-----------------------------------------------------------------------------
(* Each change keeps the invariant.                                        *)

\* A lookup that removes nothing keeps the invariant.
LEMMA LooksKeeps ==
  ASSUME IInv, Looks
  PROVE  IInv'
<1>1. Held' = Held /\ Stored' = Stored /\ removed = {} /\ pc' # "notify" /\ pc' # "retain"
  BY SMT DEF IInv, Looks, Held, Stored, RemovedInv
<1>2. MapTypeOK'
  BY SMT, <1>1 DEF IInv, MapTypeOK, Looks, Unchanging, Tallied, ledger
<1>3. ValueInv'
  BY SMT, <1>1, HeldEntry DEF IInv, ValueInv, Looks, Unchanging, MapTypeOK
<1>4. RemovedInv'
  BY <1>1 DEF IInv, RemovedInv, Looks
<1>5. Accounted'
  BY <1>1 DEF IInv, Accounted, Looks, Unchanging, Tallied, ledger
<1>6. ReportedOnce'
  BY <1>1 DEF IInv, ReportedOnce, Looks, Unchanging
<1> QED
  BY <1>2, <1>3, <1>4, <1>5, <1>6 DEF IInv

\* Taking out entries, counted and to be reported, keeps the invariant.
LEMMA TakesOutKeeps ==
  ASSUME IInv, NEW gone, TakesOut(gone)
  PROVE  IInv'
<1> DEFINE batch == {store[k] : k \in gone}
<1>1. /\ store' \in [Keys -> Entry \cup {Absent}]
      /\ Held' = Held \ gone
      /\ \A k \in Held \ gone : store'[k] = store[k]
      /\ IsFiniteSet(Held') /\ IsFiniteSet(gone)
      /\ Cardinality(gone) \in Nat
      /\ Cardinality(Held) = Cardinality(Held') + Cardinality(gone)
  BY WithoutHeld DEF IInv, TakesOut
<1>2. gone \subseteq Held /\ Cardinality(batch) = Cardinality(gone)
  BY BatchSize DEF IInv, TakesOut
<1>3. batch \subseteq Entry
  BY <1>2, HeldEntry DEF IInv
<1>4. removed' = batch /\ pc' = (IF batch = {} THEN "idle" ELSE "notify") /\ ops' = ops + 1
  BY DEF TakesOut, Report
<1>5. evictions' \in Nat /\ UNCHANGED <<entered, silent, replaced, lost>>
  BY SMT, <1>1, <1>2 DEF IInv, MapTypeOK, TakesOut, ledger
<1>6. MapTypeOK'
  BY SMT, <1>1, <1>3, <1>4, <1>5 DEF IInv, MapTypeOK, TakesOut, Unchanging, Tallied
<1>7. ValueInv'
  BY SMT, <1>1, <1>4, HeldEntry DEF IInv, ValueInv, MapTypeOK, TakesOut, Unchanging
<1>8. RemovedInv'
  <2>1. \A e, f \in batch : e.val = f.val => e = f
    BY SMT, <1>2 DEF IInv, ValueInv
  <2>2. \A e \in batch : e.val <= ops + 1
    BY SMT, <1>2, HeldEntry DEF IInv, ValueInv, MapTypeOK
  <2> QED
    BY <1>4, <2>1, <2>2 DEF RemovedInv
<1>9. Accounted'
  <2>1. CASE kind = "UnboundCache"
    BY <2>1 DEF Accounted, TakesOut, Unchanging, Tallied
  <2>2. CASE kind # "UnboundCache"
    <3>1. evictions' = evictions + Cardinality(gone)
      BY <1>2, <2>2 DEF TakesOut
    <3>2. entered = Cardinality(Held) + silent + replaced + evictions + lost
      BY <2>2 DEF IInv, Accounted
    <3>3. Cardinality(Held') \in Nat
      BY <1>1, FS_CardinalityType
    <3>4. entered' = Cardinality(Held') + silent' + replaced' + evictions' + lost'
      BY SMT, <1>1, <1>5, <3>1, <3>2, <3>3 DEF IInv, MapTypeOK
    <3> QED
      BY <3>4 DEF Accounted, TakesOut, Unchanging, Tallied
  <2> QED
    BY <2>1, <2>2
<1>10. ReportedOnce'
  <2>1. Stored' \subseteq Stored
    BY <1>1 DEF Stored
  <2>2. {e.val : e \in batch} \subseteq Stored
    BY <1>2 DEF Stored
  <2>3. {e.val : e \in batch} \cap Stored' = {}
    BY SMT, <1>1, <1>2 DEF Stored, IInv, ValueInv
  <2>4. notified' = notified /\ cut' = cut /\ notified \cap Stored \subseteq cut
    BY DEF TakesOut, Unchanging, IInv, ReportedOnce
  <2> QED
    BY <1>4, <2>1, <2>2, <2>3, <2>4 DEF ReportedOnce
<1> QED
  BY <1>6, <1>7, <1>8, <1>9, <1>10 DEF IInv

\* An entry that leaves as `lost` keeps the invariant.
LEMMA LosesKeeps ==
  ASSUME IInv, NEW k, Loses(k)
  PROVE  IInv'
<1>1. /\ store' \in [Keys -> Entry \cup {Absent}]
      /\ Held' = Held \ {k} /\ k \in Held
      /\ \A j \in Held \ {k} : store'[j] = store[j]
      /\ IsFiniteSet(Held')
      /\ Cardinality(Held) = Cardinality(Held') + 1
  <2>1. {k} \subseteq Held /\ store' = Without({k}) /\ Cardinality({k}) = 1
    BY FS_Singleton DEF Loses
  <2> QED
    BY SMTT(30), <2>1, WithoutHeld DEF IInv
<1>2. removed' = {} /\ pc' = "idle" /\ ops' = ops + 1 /\ lost' = lost + 1
  BY DEF Loses, Report
<1>3. MapTypeOK'
  BY SMT, <1>1, <1>2 DEF IInv, MapTypeOK, Loses, Unchanging, Tallied
<1>4. ValueInv'
  <2>1. \A j \in Held : store[j].val \in Nat /\ store[j].val <= ops
    BY HeldEntry DEF IInv, ValueInv
  <2>2. notified' = notified /\ ops \in Nat
    BY DEF IInv, MapTypeOK, Loses, Unchanging
  <2> QED
    BY SMT, <1>1, <1>2, <2>1, <2>2 DEF IInv, ValueInv
<1>5. RemovedInv'
  BY <1>2 DEF RemovedInv
<1>6. Accounted'
  <2>1. Cardinality(Held') \in Nat
    BY <1>1, FS_CardinalityType
  <2>2. /\ silent' = silent /\ replaced' = replaced /\ evictions' = evictions /\ entered' = entered
        /\ kind' = kind
    BY DEF Loses, Unchanging
  <2>3. kind # "UnboundCache" =>
            entered' = Cardinality(Held') + silent' + replaced' + evictions' + lost'
    BY SMT, <1>1, <1>2, <2>1, <2>2 DEF IInv, Accounted, MapTypeOK
  <2> QED
    BY <2>2, <2>3 DEF Accounted, Loses, Unchanging, Tallied
<1>7. ReportedOnce'
  BY <1>1, <1>2 DEF IInv, ReportedOnce, Stored, Loses, Unchanging
<1> QED
  BY <1>3, <1>4, <1>5, <1>6, <1>7 DEF IInv

\* Storing an entry, with the account of what it displaces, keeps the
\* invariant.
LEMMA PutsInKeeps ==
  ASSUME IInv, NEW k, NEW exp, PutsIn(k, exp)
  PROVE  IInv'
<1>1. ops' \in Nat /\ k \in Keys /\ exp \in Nat \cup {Never}
  BY SMT DEF IInv, MapTypeOK, PutsIn, Numbered
<1>2. /\ store' \in [Keys -> Entry \cup {Absent}]
      /\ Held' = Held \cup {k}
      /\ store'[k] = [val |-> ops', exp |-> exp]
      /\ \A j \in Keys : j # k => store'[j] = store[j]
      /\ IsFiniteSet(Held') /\ Cardinality(Held) \in Nat
      /\ Cardinality(Held') + (IF k \in Held THEN 1 ELSE 0) = Cardinality(Held) + 1
  BY <1>1, WithHeld DEF IInv, PutsIn
\* The new value is greater than any that was stored.
<1>3. /\ ops <= ops'
      /\ \A j \in Held : store[j].val < ops'
      /\ \A v \in notified : v < ops' /\ v \in Nat
  <2>1. \A j \in Held : store[j].val \in Nat /\ store[j].val <= ops
    BY HeldEntry DEF IInv, ValueInv
  <2>2. CASE pc = "idle" /\ ops' = ops + 1
    BY SMT, <2>1, <2>2 DEF IInv, ValueInv, MapTypeOK
  <2>3. CASE pc = "factory" /\ ops' = ops
    BY SMT, <2>1, <2>3 DEF IInv, ValueInv, MapTypeOK
  <2> QED
    BY <2>2, <2>3 DEF PutsIn, Numbered
<1>4. /\ \/ removed' = {}
         \/ k \in Held /\ removed' = {store[k]}
      /\ pc' = IF removed' = {} THEN "idle" ELSE "notify"
  BY DEF PutsIn, Report
<1>5. removed' \subseteq Entry
  BY SMT, <1>4, HeldEntry DEF IInv
<1>6. MapTypeOK'
  <2>1. entered' \in Nat /\ silent' \in Nat /\ replaced' \in Nat /\ evictions' \in Nat /\ lost' \in Nat
    BY SMT DEF IInv, MapTypeOK, PutsIn, Displaces
  <2> QED
    BY <1>1, <1>2, <1>4, <1>5, <2>1 DEF IInv, MapTypeOK, PutsIn, Unchanging, Tallied
<1>7. ValueInv'
  <2>1. \A j \in Held' : j # k => j \in Held /\ store'[j] = store[j] /\ store[j].val \in Nat
    BY <1>2, HeldEntry DEF IInv, Held
  <2>2. store'[k].val = ops'
    BY SMT, <1>2
  <2>3. \A j \in Held' : store'[j].val <= ops' /\ (j # k => store'[j].val < ops')
    BY SMT, <1>1, <1>3, <2>1, <2>2
  <2>4. \A i, j \in Held' : store'[i].val = store'[j].val => i = j
    BY SMT, <1>1, <2>1, <2>2, <2>3 DEF IInv, ValueInv
  <2>5. notified' = notified /\ notified \subseteq Nat /\ \A v \in notified : v <= ops'
    BY SMT, <1>1, <1>3 DEF IInv, ValueInv, PutsIn, Unchanging
  <2> QED
    BY <1>4, <2>3, <2>4, <2>5 DEF ValueInv
<1>8. RemovedInv'
  <2>1. \A e \in removed' : e.val <= ops'
    BY SMT, <1>1, <1>3, <1>4, HeldEntry DEF IInv
  <2> QED
    BY <1>4, <2>1 DEF RemovedInv
<1>9. Accounted'
  <2>1. CASE kind = "UnboundCache"
    BY <2>1 DEF Accounted, PutsIn, Unchanging, Tallied
  <2>2. CASE kind # "UnboundCache"
    <3>1. /\ silent \in Nat /\ replaced \in Nat /\ evictions \in Nat /\ lost \in Nat
          /\ Cardinality(Held) \in Nat /\ Cardinality(Held') \in Nat
          /\ entered = Cardinality(Held) + silent + replaced + evictions + lost
      BY <1>2, <2>2, FS_CardinalityType DEF IInv, MapTypeOK, Accounted
    <3>2. entered' = entered + 1 /\ silent' = silent
      BY <2>2 DEF PutsIn
    <3> DEFINE balanced == entered' = Cardinality(Held') + silent' + replaced' + evictions' + lost'
    <3>3. ASSUME k \in Held PROVE balanced
      <4>1. Cardinality(Held') = Cardinality(Held) /\ Displaces
        BY <1>2, <2>2, <3>1, <3>3 DEF PutsIn
      <4> QED
        BY SMT, <3>1, <3>2, <4>1 DEF Displaces
    <3>4. ASSUME k \notin Held PROVE balanced
      <4>1. /\ Cardinality(Held') = Cardinality(Held) + 1
            /\ UNCHANGED <<replaced, evictions, lost>>
        BY SMT, <1>2, <2>2, <3>1, <3>4 DEF PutsIn
      <4> QED
        BY SMT, <3>1, <3>2, <4>1
    <3>5. balanced
      BY <3>3, <3>4
    <3> QED
      BY <3>5 DEF Accounted, PutsIn, Unchanging, Tallied
  <2> QED
    BY <2>1, <2>2
<1>10. ReportedOnce'
  <2>1. notified' = notified /\ cut' = cut /\ notified \cap Stored \subseteq cut
    BY DEF PutsIn, Unchanging, IInv, ReportedOnce
  <2>2. Stored' \subseteq Stored \cup {ops'} /\ ops' \notin notified /\ ops' \notin Stored
    BY SMT, <1>1, <1>2, <1>3, HeldEntry DEF IInv, Stored, Held
  <2>3. ASSUME k \in Held, removed' = {store[k]}
        PROVE  store[k].val \in Stored /\ store[k].val \notin Stored'
    <3>1. \A j \in Held' : j # k => store'[j].val # store[k].val
      BY <1>2, <2>3 DEF IInv, ValueInv, Held
    <3>2. store'[k].val # store[k].val
      BY SMT, <1>1, <1>2, <1>3, <2>3, HeldEntry DEF IInv
    <3> QED
      BY <2>3, <3>1, <3>2 DEF Stored
  <2> QED
    BY <1>4, <2>1, <2>2, <2>3 DEF ReportedOnce
<1> QED
  BY <1>6, <1>7, <1>8, <1>9, <1>10 DEF IInv

\* on_evict: what it is told of had left the map, and is not told again.
LEMMA NotifyKeeps ==
  ASSUME IInv, Notify
  PROVE  IInv'
<1>1. PICK e \in removed : /\ notified' = notified \cup {e.val}
                           /\ Report(removed \ {e}) \/ Report({})
  BY DEF Notify
<1>2. /\ pc = "notify" /\ e \in Entry /\ e.val \in Nat /\ e.val <= ops
      /\ pc' \in {"idle", "notify"} /\ removed' \subseteq removed \ {e}
      /\ pc' = "idle" => removed' = {}
  BY <1>1 DEF Notify, Report, IInv, RemovedInv, MapTypeOK, Entry
<1>3. /\ UNCHANGED <<clock, store, kind, ttl, hits, misses, evictions, key, ops, lookups, cut>>
      /\ UNCHANGED <<entered, silent, replaced, lost>>
      /\ Held' = Held /\ Stored' = Stored
  BY DEF Notify, settings, metrics, ledger, Held, Stored
<1>4. MapTypeOK'
  BY <1>2, <1>3 DEF IInv, MapTypeOK
<1>5. ValueInv'
  <2>1. notified' \subseteq Nat /\ \A v \in notified' : v <= ops'
    BY <1>1, <1>2, <1>3 DEF IInv, ValueInv
  <2> QED
    BY <1>2, <1>3, <2>1 DEF IInv, ValueInv
<1>6. RemovedInv'
  BY <1>2, <1>3 DEF IInv, RemovedInv
<1>7. Accounted'
  BY <1>3 DEF IInv, Accounted
<1>8. ReportedOnce'
  <2>1. \A f \in removed' : f.val # e.val
    BY <1>1, <1>2 DEF IInv, RemovedInv
  <2>2. e.val \in Stored => e.val \in cut
    BY <1>1, <1>2 DEF IInv, ReportedOnce
  <2> QED
    BY <1>1, <1>2, <1>3, <2>1, <2>2 DEF IInv, ReportedOnce
<1> QED
  BY <1>4, <1>5, <1>6, <1>7, <1>8 DEF IInv

\* Steps that leave the map and what is reported of it alone.
LEMMA QuietKeeps ==
  ASSUME IInv, \/ FactoryFails
               \/ Tick
               \/ UNCHANGED vars
  PROVE  IInv'
<1>1. /\ UNCHANGED <<store, kind, ttl, hits, misses, evictions, key, removed, ops, lookups>>
      /\ UNCHANGED <<entered, silent, replaced, lost, notified, cut>>
      /\ clock' \in Nat
      /\ pc' = pc \/ (pc = "factory" /\ pc' = "idle")
      /\ Held' = Held /\ Stored' = Stored
  BY SMT DEF FactoryFails, Tick, vars, settings, metrics, ledger, IInv, MapTypeOK, Held, Stored
<1>2. MapTypeOK'
  BY <1>1 DEF IInv, MapTypeOK
<1>3. ValueInv' /\ RemovedInv'
  BY <1>1 DEF IInv, ValueInv, RemovedInv
<1>4. Accounted' /\ ReportedOnce'
  BY <1>1 DEF IInv, Accounted, ReportedOnce
<1> QED
  BY <1>2, <1>3, <1>4 DEF IInv

\* cache_clear and cache_reset: nothing is left to be counted or reported.
LEMMA ClearKeeps ==
  ASSUME IInv, cache_clear \/ cache_reset
  PROVE  IInv'
<1>1. /\ store' = Without(Keys) /\ Held \subseteq Keys
      /\ pc = "idle" /\ pc' = "idle" /\ removed = {} /\ removed' = {} /\ ops' = ops + 1
      /\ UNCHANGED <<kind, clock, ttl, key, notified, cut>>
  BY DEF cache_clear, cache_reset, ResetMetrics, Begin, settings, IInv, RemovedInv, Held
<1>2. store' \in [Keys -> Entry \cup {Absent}] /\ Held' = {} /\ Stored' = {}
  BY <1>1 DEF Without, Held, Stored
<1>3. /\ IsFiniteSet(Held') /\ Cardinality(Held') = 0
      /\ Cardinality(Held) \in Nat
  BY <1>2, FS_EmptySet, FS_CardinalityType DEF IInv, MapTypeOK
<1>4. /\ hits' \in Nat /\ misses' \in Nat /\ lookups' \in Nat /\ evictions' \in Nat
      /\ entered' \in Nat /\ silent' \in Nat /\ replaced' \in Nat /\ lost' \in Nat
  <2>1. CASE cache_clear
    BY SMT, <1>3, <2>1 DEF cache_clear, metrics, IInv, MapTypeOK
  <2>2. CASE cache_reset
    BY <2>2 DEF cache_reset, ResetMetrics
  <2> QED
    BY <2>1, <2>2
<1>5. MapTypeOK'
  BY SMT, <1>1, <1>2, <1>3, <1>4 DEF IInv, MapTypeOK
<1>6. ValueInv' /\ RemovedInv'
  BY SMT, <1>1, <1>2 DEF IInv, ValueInv, RemovedInv, MapTypeOK
<1>7. Accounted'
  <2>1. CASE cache_clear
    BY SMT, <1>1, <1>3, <2>1 DEF cache_clear, metrics, IInv, MapTypeOK, Accounted
  <2>2. CASE cache_reset
    BY SMT, <1>1, <1>3, <2>2 DEF cache_reset, ResetMetrics, Accounted
  <2> QED
    BY <2>1, <2>2
<1>8. ReportedOnce'
  BY <1>1, <1>2 DEF ReportedOnce
<1> QED
  BY <1>5, <1>6, <1>7, <1>8 DEF IInv

\* Resetting the counters, and the accounts with them, keeps the invariant.
LEMMA ResetMetricsKeeps ==
  ASSUME IInv, cache_reset_metrics
  PROVE  IInv'
<1>1. /\ pc = "idle" /\ pc' = "idle" /\ removed = {} /\ removed' = {} /\ ops' = ops + 1
      /\ UNCHANGED <<kind, clock, store, ttl, key, notified, cut>>
      /\ Held' = Held /\ Stored' = Stored
  BY DEF cache_reset_metrics, ResetMetrics, Begin, settings, IInv, RemovedInv, Held, Stored
<1>2. /\ hits' = 0 /\ misses' = 0 /\ evictions' = 0 /\ lookups' = 0
      /\ entered' = Cardinality(Held) /\ silent' = 0 /\ replaced' = 0 /\ lost' = 0
      /\ Cardinality(Held) \in Nat
  BY FS_CardinalityType DEF cache_reset_metrics, ResetMetrics, IInv, MapTypeOK
<1>3. MapTypeOK'
  BY SMT, <1>1, <1>2 DEF IInv, MapTypeOK
<1>4. ValueInv' /\ RemovedInv'
  BY SMT, <1>1, HeldEntry DEF IInv, ValueInv, RemovedInv, MapTypeOK
<1>5. Accounted' /\ ReportedOnce'
  BY SMT, <1>1, <1>2 DEF IInv, Accounted, ReportedOnce
<1> QED
  BY <1>3, <1>4, <1>5 DEF IInv

\* UnboundCache::retain up to its first callback: the entries stay for now.
LEMMA RetainKeeps ==
  ASSUME IInv, kind = "UnboundCache", NEW keep, unbound_retain(keep)
  PROVE  IInv'
<1>1. /\ pc = "idle" /\ ops' = ops + 1
      /\ removed' = {store[k] : k \in Held \ keep}
      /\ pc' = IF removed' = {} THEN "idle" ELSE "retain"
      /\ UNCHANGED <<kind, clock, store, ttl, key, notified, cut, hits, misses, lookups, evictions>>
      /\ UNCHANGED <<entered, silent, replaced, lost>>
      /\ Held' = Held /\ Stored' = Stored
  BY DEF unbound_retain, Begin, settings, metrics, ledger, Held, Stored
<1>2. removed' \subseteq {store[k] : k \in Held} /\ removed' \subseteq Entry
  BY <1>1, HeldEntry DEF IInv
<1>3. MapTypeOK'
  BY SMT, <1>1, <1>2 DEF IInv, MapTypeOK
<1>4. ValueInv'
  BY SMT, <1>1, HeldEntry DEF IInv, ValueInv, MapTypeOK
<1>5. RemovedInv'
  <2>1. \A e, f \in removed' : e.val = f.val => e = f
    BY SMT, <1>2 DEF IInv, ValueInv
  <2>2. \A e \in removed' : e.val <= ops + 1
    BY SMT, <1>2, HeldEntry DEF IInv, ValueInv, MapTypeOK
  <2> QED
    BY <1>1, <1>2, <2>1, <2>2 DEF RemovedInv
<1>6. Accounted' /\ ReportedOnce'
  BY <1>1 DEF IInv, Accounted, ReportedOnce
<1> QED
  BY <1>3, <1>4, <1>5, <1>6 DEF IInv

\* One callback of UnboundCache::retain: the entry leaves, or on_evict panics
\* and the value is in `cut`.
LEMMA RetainStepKeeps ==
  ASSUME IInv, RetainStep
  PROVE  IInv'
<1>1. /\ pc = "retain" /\ kind = "UnboundCache" /\ removed \subseteq {store[k] : k \in Held}
      /\ UNCHANGED <<kind, clock, ttl, key, ops, hits, misses, lookups, evictions>>
      /\ UNCHANGED <<entered, silent, replaced, lost>>
  BY DEF RetainStep, settings, metrics, ledger, IInv, RemovedInv
<1>2. Accounted'
  BY <1>1 DEF IInv, Accounted
<1>3. CASE removed' = {} /\ pc' = "idle" /\ UNCHANGED <<store, notified, cut>>
  <2>1. Held' = Held /\ Stored' = Stored
    BY <1>3 DEF Held, Stored
  <2> QED
    BY <1>1, <1>2, <1>3, <2>1 DEF IInv, MapTypeOK, ValueInv, RemovedInv, ReportedOnce
<1>4. ASSUME NEW k \in Held, store[k] \in removed,
             notified' = notified \cup {store[k].val}, cut' = cut \cup {store[k].val},
             removed' = {}, pc' = "idle", UNCHANGED store
      PROVE  IInv'
  <2>1. /\ Held' = Held /\ Stored' = Stored
        /\ store[k].val \in Nat /\ store[k].val <= ops
    BY <1>4, HeldEntry DEF IInv, ValueInv, Held, Stored
  <2>2. MapTypeOK'
    BY <1>1, <1>4, <2>1 DEF IInv, MapTypeOK
  <2>3. notified' \subseteq Nat /\ \A v \in notified' : v <= ops'
    BY <1>1, <1>4, <2>1 DEF IInv, ValueInv
  <2>4. ValueInv' /\ RemovedInv' /\ ReportedOnce'
    BY <1>1, <1>4, <2>1, <2>3 DEF IInv, ValueInv, RemovedInv, ReportedOnce
  <2> QED
    BY <1>2, <2>2, <2>4 DEF IInv
<1>5. ASSUME NEW k \in Held, store[k] \in removed,
             notified' = notified \cup {store[k].val}, UNCHANGED cut,
             store' = Without({k}),
             removed' = removed \ {store[k]}, pc' = IF removed' = {} THEN "idle" ELSE "retain"
      PROVE  IInv'
  <2>1. /\ store' \in [Keys -> Entry \cup {Absent}]
        /\ Held' = Held \ {k}
        /\ \A j \in Held \ {k} : store'[j] = store[j]
        /\ IsFiniteSet(Held')
    <3>1. MapTypeOK /\ {k} \subseteq Held /\ store' = Without({k})
      BY <1>5 DEF IInv
    <3>2. store' \in [Keys -> Entry \cup {Absent}] /\ Held' = Held \ {k}
      BY <3>1, WithoutHeld
    <3>3. \A j \in Held \ {k} : store'[j] = store[j]
      BY <3>1 DEF Without, Held
    <3>4. IsFiniteSet(Held')
      BY SMT, <3>1, WithoutHeld
    <3> QED
      BY <3>2, <3>3, <3>4
  <2>2. /\ store[k].val \in Nat /\ store[k].val <= ops
        /\ \A j \in Held \ {k} : store[j].val # store[k].val
    BY HeldEntry DEF IInv, ValueInv
  <2>3. MapTypeOK'
    BY <1>1, <1>5, <2>1 DEF IInv, MapTypeOK
  <2>4. ValueInv'
    <3>1. notified' \subseteq Nat /\ \A v \in notified' : v <= ops'
      BY <1>1, <1>5, <2>2 DEF IInv, ValueInv
    <3>2. ops' = ops /\ pc' # "factory"
      BY <1>1, <1>5
    <3>3. /\ \A i, j \in Held' : store'[i].val = store'[j].val => i = j
          /\ \A j \in Held' : store'[j].val <= ops
      BY SMT, <2>1 DEF IInv, ValueInv
    <3> QED
      BY <3>1, <3>2, <3>3 DEF ValueInv
  <2>5. RemovedInv'
    <3>1. removed' \subseteq {store'[j] : j \in Held'}
      <4> SUFFICES ASSUME NEW e \in removed' PROVE \E j \in Held' : e = store'[j]
        OBVIOUS
      <4>1. PICK j \in Held : e = store[j]
        BY <1>1, <1>5
      <4> QED
        BY <1>5, <2>1, <4>1
    <3> QED
      BY <1>1, <1>5, <3>1 DEF IInv, RemovedInv
  <2>6. ReportedOnce'
    <3>1. Stored' \subseteq Stored /\ store[k].val \notin Stored'
      BY <2>1, <2>2 DEF Stored
    <3> QED
      BY <1>5, <3>1 DEF IInv, ReportedOnce
  <2> QED
    BY <1>2, <2>3, <2>4, <2>5, <2>6 DEF IInv
<1> QED
  <2>1. CASE \E k \in Held : store[k] \in removed /\
             /\ notified' = notified \cup {store[k].val}
             /\ \/ /\ store' = Without({k})
                   /\ removed' = removed \ {store[k]}
                   /\ pc' = IF removed' = {} THEN "idle" ELSE "retain"
                   /\ UNCHANGED cut
                \/ cut' = cut \cup {store[k].val} /\ Report({}) /\ UNCHANGED store
    BY <1>4, <1>5, <2>1 DEF Report
  <2>2. CASE Report({}) /\ UNCHANGED <<store, notified, cut>>
    BY <1>3, <2>2 DEF Report
  <2> QED
    BY <2>1, <2>2 DEF RetainStep, Held, Without, Report

-----------------------------------------------------------------------------
(* TtlCache.                                                               *)

\* A deadline of TtlCache is an instant, or none.
LEMMA TtlDeadline ==
  ASSUME MapTypeOK
  PROVE  /\ ttl_compute_expires_at(clock) \in Nat \cup {Never}
         /\ \A current \in Nat \cup {Never} :
               ttl_refreshed_expires_at(clock, current) \in Nat \cup {Never}
BY SMT, MapStoreAssumption DEF MapTypeOK, ttl_compute_expires_at, ttl_refreshed_expires_at,
                          ttl_checked_add

\* A hit moves at most the deadline of its entry.
LEMMA TtlTouched ==
  ASSUME MapTypeOK, NEW k \in Held, store' = Touched(k)
  PROVE  /\ store' \in [Keys -> Entry \cup {Absent}]
         /\ \A j \in Keys : store'[j] = Absent <=> store[j] = Absent
         /\ \A j \in Held : store'[j].val = store[j].val
<1>1. /\ k \in Keys /\ store[k] \in Entry /\ store[k] # Absent
      /\ store[k].val \in Nat /\ store[k].exp \in Nat \cup {Never}
  BY HeldEntry
<1> DEFINE e == [val |-> store[k].val, exp |-> ttl_refreshed_expires_at(clock, store[k].exp)]
<1>2. e \in Entry /\ e.val = store[k].val /\ e # Absent
  <2>1. ttl_refreshed_expires_at(clock, store[k].exp) \in Nat \cup {Never}
    BY <1>1, TtlDeadline
  <2>2. e \in Entry /\ e.val = store[k].val
    BY <1>1, <2>1 DEF Entry
  <2> QED
    BY <2>2, MapStoreAssumption DEF Entry
<1>3. store' = store \/ store' = [store EXCEPT ![k] = e]
  BY DEF Touched
<1> QED
  BY <1>1, <1>2, <1>3 DEF MapTypeOK, Held

\* A step of TtlCache that is a lookup or changes the settings, or takes entries
\* out, or puts one in.
LEMMA TtlTakesOut ==
  ASSUME Unchanging, pc = "idle", ops' = ops + 1, UNCHANGED ledger, kind # "UnboundCache",
         NEW gone, gone \subseteq Held, TtlTakeOut(gone)
  PROVE  TakesOut(gone)
BY DEF TakesOut, TtlTakeOut, ttl_notify_evicted, Report, Without

\* The lookups of TtlCache look, or take out an expired entry.
LEMMA TtlGet ==
  ASSUME IInv, kind = "TtlCache", NEW k \in Keys,
         ttl_cache_get(k) \/ ttl_cache_get_with_expiry_status(k)
  PROVE  Looks \/ TakesOut({k})
<1>1. /\ pc = "idle" /\ ops' = ops + 1 /\ UNCHANGED <<kind, clock, notified, cut, ttl, key>>
      /\ UNCHANGED ledger
  BY DEF ttl_cache_get, ttl_cache_get_with_expiry_status, Begin, settings, ledger
<1>2. Hit \/ Miss
  BY DEF ttl_cache_get, ttl_cache_get_with_expiry_status, Hit, Miss
<1>3. Unchanging
  BY SMT, <1>1, <1>2 DEF Hit, Miss, Unchanging, Tallied, IInv, MapTypeOK, Accounted
<1>4. CASE /\ store' = store \/ (k \in Held /\ store' = Touched(k))
           /\ UNCHANGED <<evictions, pc, removed>>
  <2>1. /\ store' \in [Keys -> Entry \cup {Absent}]
        /\ \A j \in Keys : store'[j] = Absent <=> store[j] = Absent
        /\ \A j \in Held : store'[j].val = store[j].val
    BY <1>4, TtlTouched DEF IInv, MapTypeOK
  <2> QED
    BY <1>1, <1>3, <1>4, <2>1 DEF Looks
<1>5. CASE k \in Held /\ TtlTakeOut({k})
  <2>1. {k} \subseteq Held
    BY <1>5
  <2> QED
    BY <1>1, <1>3, <1>5, <2>1, TtlTakesOut
<1> QED
  BY <1>4, <1>5 DEF ttl_cache_get, ttl_cache_get_with_expiry_status, Live, Held

\* The start of a get-or-set of TtlCache, and a new TTL, take nothing out.
LEMMA TtlGetOrSet ==
  ASSUME IInv, NEW k \in Keys, ttl_cache_get_or_set_with_mut(k) \/ ttl_set_ttl
  PROVE  Looks
<1>1. /\ pc = "idle" /\ ops' = ops + 1 /\ UNCHANGED <<kind, clock, notified, cut>>
      /\ UNCHANGED <<evictions, removed, ledger>> /\ key' \in Keys /\ pc' \in {"idle", "factory"}
      /\ ttl' \in Nat
  BY MapStoreAssumption
     DEF ttl_cache_get_or_set_with_mut, ttl_set_ttl, Begin, settings, metrics, ledger, IInv,
         MapTypeOK
<1>2. Hit \/ Miss \/ UNCHANGED <<hits, misses, lookups>>
  BY DEF ttl_cache_get_or_set_with_mut, ttl_set_ttl, Hit, Miss, metrics
<1>3. Unchanging
  BY SMT, <1>1, <1>2 DEF Hit, Miss, Unchanging, Tallied, IInv, MapTypeOK, Accounted
<1>4. store' = store \/ (k \in Held /\ store' = Touched(k))
  BY DEF ttl_cache_get_or_set_with_mut, ttl_set_ttl, Live, Held
<1>5. /\ store' \in [Keys -> Entry \cup {Absent}]
      /\ \A j \in Keys : store'[j] = Absent <=> store[j] = Absent
      /\ \A j \in Held : store'[j].val = store[j].val
  BY <1>4, TtlTouched DEF IInv, MapTypeOK
<1> QED
  BY <1>1, <1>3, <1>5 DEF Looks

\* TtlCache::cache_set puts an entry in.
LEMMA TtlSet ==
  ASSUME IInv, kind = "TtlCache", NEW k \in Keys,
         \/ ttl_cache_set(k)
         \/ TtlFactoryReturns /\ k = key
  PROVE  PutsIn(k, ttl_compute_expires_at(clock))
<1>1. /\ Numbered /\ ttl_set_entry(k, clock)
      /\ UNCHANGED <<kind, clock, notified, cut, ttl, key, hits, misses, lookups>>
  BY DEF ttl_cache_set, TtlFactoryReturns, Begin, settings, Numbered
<1>2. Unchanging
  BY <1>1 DEF Unchanging, Tallied, IInv, MapTypeOK, Accounted
<1>3. /\ store' = With(k, ttl_compute_expires_at(clock)) /\ entered' = entered + 1
      /\ silent' = silent /\ lost' = lost
  BY <1>1 DEF ttl_set_entry, With
<1>4. ttl_compute_expires_at(clock) \in Nat \cup {Never}
  BY TtlDeadline DEF IInv
<1>5. \/ k \in Held /\ evictions' = evictions + 1 /\ replaced' = replaced /\ Report({store[k]})
      \/ k \in Held /\ replaced' = replaced + 1 /\ evictions' = evictions /\ Report({})
      \/ k \notin Held /\ UNCHANGED <<evictions, replaced>> /\ Report({})
  <2>1. Cardinality({store[k]}) = 1
    BY FS_Singleton
  <2> QED
    BY <1>1, <2>1 DEF ttl_set_entry, ttl_notify_evicted, Report, Live, Held
<1> QED
  BY <1>1, <1>2, <1>3, <1>4, <1>5 DEF PutsIn, Displaces

\* The removals and sweeps of TtlCache take entries out.
LEMMA TtlTakes ==
  ASSUME IInv, kind = "TtlCache",
         \/ \E k \in Keys : ttl_cache_remove(k)
         \/ \E keep : ttl_retain(keep)
         \/ ttl_evict
         \/ ttl_cache_clear_with_on_evict
  PROVE  \E gone : TakesOut(gone)
<1>1. /\ pc = "idle" /\ ops' = ops + 1 /\ UNCHANGED ledger
      /\ UNCHANGED <<kind, clock, notified, cut, ttl, key, hits, misses, lookups>>
  BY DEF ttl_cache_remove, ttl_retain, ttl_evict, ttl_cache_clear_with_on_evict, Begin, settings,
         ledger
<1>2. Unchanging
  BY <1>1 DEF Unchanging, Tallied, IInv, MapTypeOK, Accounted
<1>3. \E gone : gone \subseteq Held /\ TtlTakeOut(gone)
  <2>1. Held = Held
    BY DEF Held
  <2>2. CASE \E k \in Keys : ttl_cache_remove(k)
    <3>1. PICK k \in Keys : k \in Held /\ TtlTakeOut({k})
      BY <2>1, <2>2 DEF ttl_cache_remove
    <3>2. {k} \subseteq Held
      BY <3>1
    <3> QED
      BY <3>1, <3>2
  <2>3. CASE \E keep : ttl_retain(keep)
    <3>1. PICK keep : TtlTakeOut({k \in Held : ~Live(k) \/ k \notin keep})
      BY <2>1, <2>3 DEF ttl_retain
    <3> DEFINE gone == {k \in Held : ~Live(k) \/ k \notin keep}
    <3>2. gone \subseteq Held /\ TtlTakeOut(gone)
      BY <3>1
    <3> QED
      BY <3>2
  <2>4. CASE ttl_evict
    <3> DEFINE gone == {k \in Held : ~Live(k)}
    <3>1. gone \subseteq Held /\ TtlTakeOut(gone)
      BY <2>1, <2>4 DEF ttl_evict
    <3> QED
      BY <3>1
  <2>5. CASE ttl_cache_clear_with_on_evict
    BY <2>1, <2>5 DEF ttl_cache_clear_with_on_evict
  <2> QED
    BY <2>2, <2>3, <2>4, <2>5
<1> QED
  BY <1>1, <1>2, <1>3, TtlTakesOut

-----------------------------------------------------------------------------
(* ExpiringCache.                                                          *)

\* ExpiringCache counts the entries it takes out.
LEMMA ExpiringTakesOut ==
  ASSUME Unchanging, pc = "idle", ops' = ops + 1, UNCHANGED ledger, kind # "UnboundCache",
         NEW gone, gone \subseteq Held, ExpiringTakeOut(gone)
  PROVE  TakesOut(gone)
BY DEF TakesOut, ExpiringTakeOut, expiring_notify_evicted, Report, Without

\* The lookups of ExpiringCache look, or take out an expired entry.
LEMMA ExpiringGet ==
  ASSUME IInv, kind = "ExpiringCache", NEW k \in Keys,
         \/ expiring_cache_get(k)
         \/ expiring_cache_get_with_expiry_status(k)
         \/ expiring_cache_get_or_set_with_mut(k)
  PROVE  Looks \/ TakesOut({k})
<1>1. /\ pc = "idle" /\ ops' = ops + 1 /\ UNCHANGED <<kind, clock, notified, cut, ttl>>
      /\ UNCHANGED ledger /\ key' \in Keys
  BY DEF expiring_cache_get, expiring_cache_get_with_expiry_status,
         expiring_cache_get_or_set_with_mut, Begin, settings, ledger, IInv, MapTypeOK
<1>2. Hit \/ Miss
  BY DEF expiring_cache_get, expiring_cache_get_with_expiry_status,
         expiring_cache_get_or_set_with_mut, Hit, Miss
<1>3. Unchanging
  BY SMT, <1>1, <1>2 DEF Hit, Miss, Unchanging, Tallied, IInv, MapTypeOK, Accounted
<1>4. CASE UNCHANGED <<store, evictions, removed>> /\ pc' \in {"idle", "factory"}
  BY <1>1, <1>3, <1>4 DEF Looks, IInv, MapTypeOK
<1>5. CASE k \in Held /\ ExpiringTakeOut({k}) /\ key' = key
  <2>1. {k} \subseteq Held
    BY <1>5
  <2> QED
    BY <1>1, <1>3, <1>5, <2>1, ExpiringTakesOut
<1> QED
  BY <1>1, <1>4, <1>5
     DEF expiring_cache_get, expiring_cache_get_with_expiry_status,
         expiring_cache_get_or_set_with_mut, Held

\* A set of ExpiringCache, or its factory's return, puts an entry in.
LEMMA ExpiringSet ==
  ASSUME IInv, kind = "ExpiringCache", NEW k \in Keys, NEW exp \in Expiries,
         \/ expiring_cache_set(k, exp)
         \/ ExpiringFactoryReturns(exp) /\ k = key
  PROVE  PutsIn(k, exp)
<1>1. /\ Numbered
      /\ store' = With(k, exp) /\ entered' = entered + 1 /\ silent' = silent
      /\ UNCHANGED <<kind, clock, notified, cut, ttl, key, hits, misses, lookups>>
  BY DEF expiring_cache_set, ExpiringFactoryReturns, Begin, settings, With, Numbered
<1>2. Unchanging
  BY <1>1 DEF Unchanging, Tallied, IInv, MapTypeOK, Accounted
<1>3. exp \in Nat \cup {Never}
  BY SMT, MapStoreAssumption DEF Expiries
<1>4. /\ Cardinality({store[k]}) = 1
      /\ Cardinality({}) = 0
  BY FS_Singleton, FS_EmptySet
<1>5. \/ k \in Held /\ Displaces /\ Report({store[k]})
      \/ k \in Held /\ Displaces /\ Report({})
      \/ k \notin Held /\ UNCHANGED <<evictions, replaced, lost>> /\ Report({})
  <2>1. CASE expiring_cache_set(k, exp)
    BY <1>4, <2>1 DEF expiring_cache_set, expiring_notify_evicted, Lose, Report, Live, Held,
                      Displaces
  <2>2. CASE ExpiringFactoryReturns(exp) /\ k = key
    <3>1. expiring_notify_evicted({store[j] : j \in Held \cap {k}}) /\ UNCHANGED <<replaced, lost>>
      BY <2>2 DEF ExpiringFactoryReturns, Held
    <3>2. CASE k \in Held
      <4>1. {store[j] : j \in Held \cap {k}} = {store[k]}
        BY <3>2
      <4> QED
        BY <1>4, <3>1, <3>2, <4>1 DEF expiring_notify_evicted, Report, Displaces
    <3>3. CASE k \notin Held
      <4>1. {store[j] : j \in Held \cap {k}} = {}
        BY <3>3
      <4>2. evictions' = evictions
        BY SMT, <1>4, <3>1, <4>1 DEF expiring_notify_evicted, IInv, MapTypeOK
      <4> QED
        BY <3>1, <3>3, <4>1, <4>2 DEF expiring_notify_evicted, Report
    <3> QED
      BY <3>2, <3>3
  <2> QED
    BY <2>1, <2>2
<1> QED
  BY <1>1, <1>2, <1>3, <1>5 DEF PutsIn

\* The removals and sweeps of ExpiringCache take entries out, or lose one whose
\* is_expired panics.
LEMMA ExpiringTakes ==
  ASSUME IInv, kind = "ExpiringCache",
         \/ \E k \in Keys : expiring_cache_remove(k) \/ expiring_cache_remove_entry(k)
         \/ \E keep : expiring_retain(keep)
         \/ expiring_evict
         \/ expiring_cache_clear_with_on_evict
  PROVE  \/ \E gone : TakesOut(gone)
         \/ \E k : Loses(k)
<1>1. /\ pc = "idle" /\ ops' = ops + 1 /\ UNCHANGED <<entered, silent, replaced>>
      /\ UNCHANGED <<kind, clock, notified, cut, ttl, key, hits, misses, lookups>>
  BY DEF expiring_cache_remove, expiring_cache_remove_entry, expiring_retain, expiring_evict,
         expiring_cache_clear_with_on_evict, Begin, settings, ledger
<1>2. Unchanging
  BY <1>1 DEF Unchanging, Tallied, IInv, MapTypeOK, Accounted
<1>3. Held = Held
  BY DEF Held
<1>4. ASSUME NEW gone, gone \subseteq Held, ExpiringTakeOut(gone), lost' = lost
      PROVE  TakesOut(gone)
  BY <1>1, <1>2, <1>4, ExpiringTakesOut DEF ledger
<1>5. ASSUME NEW k \in Keys, expiring_cache_remove(k) \/ expiring_cache_remove_entry(k)
      PROVE  TakesOut({k}) \/ Loses(k)
  <2>1. k \in Held /\ {k} \subseteq Held
    BY <1>3, <1>5 DEF expiring_cache_remove, expiring_cache_remove_entry
  <2>2. \/ ExpiringTakeOut({k}) /\ lost' = lost
        \/ store' = Without({k}) /\ lost' = lost + 1 /\ Report({}) /\ evictions' = evictions
    BY <1>5 DEF expiring_cache_remove, expiring_cache_remove_entry, ledger, Lose, Report, Without
  <2> QED
    BY <1>1, <1>2, <1>4, <2>1, <2>2 DEF Loses
<1>6. ASSUME NEW keep, expiring_retain(keep)
      PROVE  \E gone : TakesOut(gone)
  <2> DEFINE gone == {k \in Held : ~Live(k) \/ k \notin keep}
  <2>1. gone \subseteq Held /\ ExpiringTakeOut(gone) /\ lost' = lost
    BY <1>3, <1>6 DEF expiring_retain, ledger
  <2> QED
    BY <1>4, <2>1
<1>7. ASSUME expiring_evict
      PROVE  \E gone : TakesOut(gone)
  <2> DEFINE gone == {k \in Held : ~Live(k)}
  <2>1. gone \subseteq Held /\ ExpiringTakeOut(gone) /\ lost' = lost
    BY <1>3, <1>7 DEF expiring_evict, ledger
  <2> QED
    BY <1>4, <2>1
<1>8. ASSUME expiring_cache_clear_with_on_evict
      PROVE  TakesOut(Held)
  BY <1>3, <1>4, <1>8 DEF expiring_cache_clear_with_on_evict, ledger
<1> QED
  BY <1>5, <1>6, <1>7, <1>8

-----------------------------------------------------------------------------
(* UnboundCache.                                                           *)

\* The lookups of UnboundCache remove nothing.
LEMMA UnboundLooks ==
  ASSUME IInv, NEW k \in Keys, unbound_cache_get(k) \/ unbound_cache_get_or_set_with_mut(k)
  PROVE  Looks
<1>1. /\ pc = "idle" /\ ops' = ops + 1 /\ UNCHANGED <<kind, clock, notified, cut, ttl>>
      /\ UNCHANGED <<store, evictions, removed, ledger>>
      /\ key' \in Keys /\ pc' \in {"idle", "factory"}
  BY DEF unbound_cache_get, unbound_cache_get_or_set_with_mut, Begin, settings, ledger, IInv,
         MapTypeOK
<1>2. Hit \/ Miss
  BY DEF unbound_cache_get, unbound_cache_get_or_set_with_mut, Hit, Miss
<1>3. Unchanging
  BY SMT, <1>1, <1>2 DEF Hit, Miss, Unchanging, Tallied, IInv, MapTypeOK, Accounted
<1> QED
  BY <1>1, <1>3 DEF Looks, IInv, MapTypeOK

\* UnboundCache::cache_set puts an entry in.
LEMMA UnboundSet ==
  ASSUME IInv, kind = "UnboundCache", NEW k \in Keys,
         \/ unbound_cache_set(k)
         \/ UnboundFactoryReturns /\ k = key
  PROVE  PutsIn(k, Never)
<1>1. /\ Numbered /\ store' = With(k, Never) /\ Report({})
      /\ UNCHANGED <<kind, clock, notified, cut, ttl, key, hits, misses, lookups, evictions>>
      /\ UNCHANGED <<entered, silent, replaced, lost>>
  BY DEF unbound_cache_set, UnboundFactoryReturns, Begin, settings, metrics, ledger, With, Report,
         Numbered, IInv, RemovedInv
<1>2. Unchanging
  BY <1>1 DEF Unchanging, Tallied, IInv, MapTypeOK, Accounted
<1> QED
  BY <1>1, <1>2 DEF PutsIn

\* The removals of UnboundCache take entries out.
LEMMA UnboundTakes ==
  ASSUME IInv, kind = "UnboundCache",
         \/ \E k \in Keys : unbound_cache_remove_entry(k)
         \/ unbound_cache_clear_with_on_evict
  PROVE  \E gone : TakesOut(gone)
<1>1. /\ pc = "idle" /\ ops' = ops + 1 /\ UNCHANGED <<evictions, ledger>>
      /\ UNCHANGED <<kind, clock, notified, cut, ttl, key, hits, misses, lookups>>
  BY DEF unbound_cache_remove_entry, unbound_cache_clear_with_on_evict, Begin, settings, metrics,
         ledger
<1>2. Unchanging
  BY <1>1 DEF Unchanging, Tallied, IInv, MapTypeOK, Accounted
<1>3. ASSUME NEW k \in Keys, unbound_cache_remove_entry(k)
      PROVE  TakesOut({k})
  <2>1. {k} \subseteq Held /\ {store[j] : j \in {k}} = {store[k]}
    BY <1>3 DEF unbound_cache_remove_entry, Held
  <2> QED
    BY <1>1, <1>2, <1>3, <2>1 DEF TakesOut, unbound_cache_remove_entry, Without, Report
<1>4. ASSUME unbound_cache_clear_with_on_evict
      PROVE  TakesOut(Held)
  <2>1. Without(Keys) = Without(Held)
    BY DEF Without, Held
  <2> QED
    BY <1>1, <1>2, <1>4, <2>1 DEF TakesOut, unbound_cache_clear_with_on_evict, Without, Report,
                                  Held
<1> QED
  BY <1>3, <1>4

-----------------------------------------------------------------------------
(* The theorems.                                                           *)

\* An empty store as it is built satisfies the invariant.
LEMMA InitIInv == Init => IInv
<1> SUFFICES ASSUME Init PROVE IInv
  OBVIOUS
<1>1. Held = {} /\ Stored = {}
  BY DEF Init, Held, Stored
<1>2. IsFiniteSet(Held) /\ Cardinality(Held) = 0
  BY <1>1, FS_EmptySet
<1>3. key \in Keys /\ ttl \in Nat
  <2>1. (CHOOSE k \in Keys : TRUE) \in Keys
    BY MapStoreAssumption
  <2>2. ttl \in Ttls \/ ttl = 0
    BY DEF Init
  <2>3. ttl \in Nat
    <3>1. \A t \in Ttls : t \in Nat
      BY MapStoreAssumption
    <3> QED
      BY SMT, <2>2, <3>1
  <2>4. key = CHOOSE k \in Keys : TRUE
    BY DEF Init
  <2> QED
    BY <2>1, <2>3, <2>4
<1>4. MapTypeOK
  BY <1>2, <1>3 DEF Init, MapTypeOK
<1>5. ValueInv /\ RemovedInv
  BY <1>1 DEF Init, ValueInv, RemovedInv
<1>6. Accounted /\ ReportedOnce
  BY SMT, <1>1, <1>2 DEF Init, Accounted, ReportedOnce
<1> QED
  BY <1>4, <1>5, <1>6 DEF IInv

\* What any step of any of the three stores does.
LEMMA Steps ==
  ASSUME IInv, [Next]_vars
  PROVE  \/ Looks \/ \E gone : TakesOut(gone)
         \/ \E k : Loses(k)
         \/ kind # "TtlCache" /\ \E k, exp : PutsIn(k, exp)
         \/ kind = "TtlCache" /\ \E k : PutsIn(k, ttl_compute_expires_at(clock))
         \/ Notify
         \/ FactoryFails \/ Tick \/ UNCHANGED vars
         \/ cache_clear \/ cache_reset
         \/ cache_reset_metrics
         \/ kind = "UnboundCache" /\ \E keep : unbound_retain(keep)
         \/ kind = "UnboundCache" /\ RetainStep
<1>1. ASSUME kind = "TtlCache", TtlNext
      PROVE  \/ Looks \/ \E gone : TakesOut(gone)
             \/ \E k : PutsIn(k, ttl_compute_expires_at(clock))
  <2>1. CASE \E k \in Keys : ttl_cache_get(k) \/ ttl_cache_get_with_expiry_status(k)
    BY <1>1, <2>1, TtlGet
  <2>2. CASE \E k \in Keys : ttl_cache_get_or_set_with_mut(k) \/ ttl_set_ttl
    BY <2>2, TtlGetOrSet
  <2>3. CASE \E k \in Keys : ttl_cache_set(k) \/ (TtlFactoryReturns /\ k = key)
    BY <1>1, <2>3, TtlSet
  <2>4. CASE \/ \E k \in Keys : ttl_cache_remove(k)
             \/ \E keep : ttl_retain(keep)
             \/ ttl_evict
             \/ ttl_cache_clear_with_on_evict
    BY <1>1, <2>4, TtlTakes
  <2>5. key \in Keys
    BY DEF IInv, MapTypeOK
  <2> QED
    BY <1>1, <2>1, <2>2, <2>3, <2>4, <2>5 DEF TtlNext
<1>2. ASSUME kind = "ExpiringCache", ExpiringNext
      PROVE  \/ Looks \/ \E gone : TakesOut(gone)
             \/ \E k : Loses(k)
             \/ \E k, exp : PutsIn(k, exp)
  <2>1. CASE \E k \in Keys : \/ expiring_cache_get(k) \/ expiring_cache_get_with_expiry_status(k)
                             \/ expiring_cache_get_or_set_with_mut(k)
    BY <1>2, <2>1, ExpiringGet
  <2>2. CASE \E k \in Keys, exp \in Expiries :
                \/ expiring_cache_set(k, exp)
                \/ ExpiringFactoryReturns(exp) /\ k = key
    BY <1>2, <2>2, ExpiringSet
  <2>3. CASE \/ \E k \in Keys : expiring_cache_remove(k) \/ expiring_cache_remove_entry(k)
             \/ \E keep : expiring_retain(keep)
             \/ expiring_evict
             \/ expiring_cache_clear_with_on_evict
    BY <1>2, <2>3, ExpiringTakes
  <2>4. key \in Keys
    BY DEF IInv, MapTypeOK
  <2> QED
    BY <1>2, <2>1, <2>2, <2>3, <2>4 DEF ExpiringNext
<1>3. ASSUME kind = "UnboundCache", UnboundNext
      PROVE  \/ Looks \/ \E gone : TakesOut(gone)
             \/ \E k, exp : PutsIn(k, exp)
             \/ \E keep : unbound_retain(keep)
             \/ RetainStep
  <2>1. CASE \E k \in Keys : unbound_cache_get(k) \/ unbound_cache_get_or_set_with_mut(k)
    BY <2>1, UnboundLooks
  <2>2. CASE \E k \in Keys : \/ unbound_cache_set(k)
                             \/ UnboundFactoryReturns /\ k = key
    BY <1>3, <2>2, UnboundSet
  <2>3. CASE \/ \E k \in Keys : unbound_cache_remove_entry(k)
             \/ unbound_cache_clear_with_on_evict
    BY <1>3, <2>3, UnboundTakes
  <2>4. key \in Keys
    BY DEF IInv, MapTypeOK
  <2> QED
    BY <1>3, <2>1, <2>2, <2>3, <2>4 DEF UnboundNext
<1>4. Done => UNCHANGED vars
  BY DEF Done
<1> QED
  BY <1>1, <1>2, <1>3, <1>4 DEF Next, Common

\* Every step of each of the three stores keeps the invariant.
LEMMA NextIInv == IInv /\ [Next]_vars => IInv'
<1> SUFFICES ASSUME IInv, [Next]_vars PROVE IInv'
  OBVIOUS
<1> QED
  BY Steps, LooksKeeps, TakesOutKeeps, LosesKeeps, PutsInKeeps, NotifyKeeps, QuietKeeps,
     ClearKeeps, ResetMetricsKeeps, RetainKeeps, RetainStepKeeps

\* The invariant holds throughout.
LEMMA Invariant == Spec => []IInv
BY InitIInv, NextIInv, PTL DEF Spec

\* Every entry stored in TtlCache or ExpiringCache is in the map, or was
\* cleared, handed back by an overwrite, counted as evicted or lost to a
\* panicking is_expired, exactly once; every lookup is a hit or a miss.  For
\* any keys, TTLs, factories and callbacks, failing ones included.
THEOREM EntriesAccounted == Spec => []Accounted
<1>1. IInv => Accounted
  BY DEF IInv
<1> QED
  BY <1>1, Invariant, PTL

\* on_evict is told of a value at most once, and then the value has left the
\* map, but for the value whose callback panicked inside UnboundCache::retain.
THEOREM EvictionsReportedOnce == Spec => []ReportedOnce
<1>1. IInv => ReportedOnce
  BY DEF IInv
<1> QED
  BY <1>1, Invariant, PTL

\* A value stored in TtlCache has the whole TTL of the moment it is stored,
\* however long its factory took; where the deadline is not representable it
\* has none.
THEOREM TtlFullLifetime == Spec => FullLifetime
<1> DEFINE Full == kind = "TtlCache" =>
                      \A k \in Keys :
                          store'[k] # Absent /\ (store[k] = Absent \/ store[k].val # store'[k].val) =>
                              store'[k].exp = Never \/ store'[k].exp - clock = ttl
<1>1. ASSUME IInv, [Next]_vars PROVE Full
  <2> SUFFICES ASSUME kind = "TtlCache", NEW k \in Keys,
                      store'[k] # Absent, store[k] = Absent \/ store[k].val # store'[k].val
               PROVE  store'[k].exp = Never \/ store'[k].exp - clock = ttl
    OBVIOUS
  <2>1. CASE store' = store
    BY <2>1
  <2>2. CASE Looks
    BY <2>2 DEF Looks, Held
  <2>3. CASE \E gone : store' = Without(gone)
    BY <2>3 DEF Without
  <2>4. ASSUME NEW j, PutsIn(j, ttl_compute_expires_at(clock))
        PROVE  store'[k].exp = Never \/ store'[k].exp - clock = ttl
    <3>1. CASE k = j
      <4>1. store'[k].exp = ttl_compute_expires_at(clock)
        BY SMT, <2>4, <3>1 DEF PutsIn, With, IInv, MapTypeOK
      <4> QED
        BY SMT, <1>1, <4>1 DEF ttl_compute_expires_at, ttl_checked_add, IInv, MapTypeOK
    <3>2. CASE k # j
      BY SMT, <2>4, <3>2 DEF PutsIn, With
    <3> QED
      BY <3>1, <3>2
  <2> QED
    <3>1. \A gone : TakesOut(gone) => store' = Without(gone)
      BY DEF TakesOut
    <3>2. \A j : Loses(j) => store' = Without({j})
      BY DEF Loses
    <3>3. Notify \/ FactoryFails \/ Tick \/ cache_reset_metrics \/ UNCHANGED vars => store' = store
      BY DEF Notify, FactoryFails, Tick, cache_reset_metrics, vars
    <3>4. cache_clear \/ cache_reset => store' = Without(Keys)
      BY DEF cache_clear, cache_reset
    <3> QED
      BY <1>1, <2>1, <2>2, <2>3, <2>4, <3>1, <3>2, <3>3, <3>4, Steps
<1>2. IInv /\ [Next]_vars => [Full]_vars
  BY <1>1
<1> QED
  BY <1>2, Invariant, PTL DEF Spec, FullLifetime
=============================================================================
