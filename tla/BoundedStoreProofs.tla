------------------------- MODULE BoundedStoreProofs -------------------------
(***************************************************************************)
(* Proofs about LruTtlCache and ExpiringLruCache, for any keys, capacities, *)
(* TTLs and number of operations: each entry that left is counted once,    *)
(* the store is within the capacity it reports, and a deadline moves only  *)
(* by a hit that refreshes.                                                *)
(*                                                                         *)
(* Each operation of the two stores makes one of a few changes (Touches,   *)
(* TakesOut, PutsIn...) that are shown once to keep the invariant.         *)
(***************************************************************************)
EXTENDS MCBoundedStore, SequenceTheorems, FiniteSetTheorems, TLAPS

Entries == [key : Keys, exp : Nat \cup {Never}]

Distinct(s) == \A i, j \in DOMAIN s : s[i].key = s[j].key => i = j

KeysOf(s) == {s[i].key : i \in DOMAIN s}

BoundedTypeOK ==
    /\ store \in Seq(Entries) /\ Distinct(store)
    /\ kind \in {"LruTtlCache", "ExpiringLruCache"} /\ clock \in Nat
    /\ ttl \in Nat /\ capacity \in Nat /\ hits \in Nat
    /\ store_evictions \in Nat /\ evictions \in Nat
    /\ entered \in Nat /\ silent \in Nat /\ replaced \in Nat /\ lost \in Nat
    /\ pc \in {"idle", "check"}
    /\ displaced \in Nat \cup {Never, Absent}

\* Between calls nothing is left to judge or to copy; only cache_set displaces.
ProgressInv ==
    /\ pc = "idle" => displaced = Absent /\ ~resizing
    /\ resizing => displaced = Absent
    /\ kind = "ExpiringLruCache" => ~refresh

\* In check_capacity the store is above its capacity by one new entry at most,
\* and not at all when an entry was displaced: no callback of the loop can then
\* panic before the displaced entry is judged.
BoundInv ==
    ~short =>
        /\ ~resizing => Len(store) <= capacity + 1 /\ (kind = "LruTtlCache" => size = capacity)
        /\ pc = "idle" \/ displaced # Absent => Len(store) <= capacity

IInv == BoundedTypeOK /\ ProgressInv /\ BoundInv /\ CountedOnce

-----------------------------------------------------------------------------
(* The changes an operation can make.                                      *)

Calls ==
    /\ pc = "idle" /\ ttl' \in Nat
    /\ UNCHANGED <<kind, clock, capacity, size, resizing, short, store_evictions, silent>>
    /\ (kind = "ExpiringLruCache") => (refresh' = refresh)

\* Nothing is found, or nothing looked for.
Looks ==
    /\ Calls /\ UNCHANGED <<store, hits, pc, displaced, evictions, entered, replaced, lost>>

Deadline == IF clock + ttl > EndOfTime THEN Never ELSE clock + ttl

\* A hit: the entry goes to the front, with a new deadline or the one it had.
Touches(k, exp) ==
    /\ Calls /\ k \in Held /\ store' = Fronted(k, exp)
    /\ \/ refresh /\ ttl # 0 /\ exp = Deadline
       \/ ~(refresh /\ ttl # 0) /\ exp = EntryOf(k).exp
    /\ hits' = hits + 1
    /\ UNCHANGED <<pc, displaced, evictions, entered, replaced, lost>>

\* The entries of some keys leave, counted by the wrapper.
TakesOut(gone) ==
    /\ Calls /\ gone \subseteq Held /\ store' = Without(gone)
    /\ evictions' = evictions + Cardinality(gone)
    /\ UNCHANGED <<hits, pc, displaced, entered, replaced, lost>>

\* An entry leaves that is not counted.
Loses(k) ==
    /\ Calls /\ k \in Held /\ store' = Without({k})
    /\ lost' = lost + 1
    /\ UNCHANGED <<hits, pc, displaced, evictions, entered, replaced>>

\* An entry goes in.  The one it displaces is counted, handed back or judged
\* later, and the capacity is checked if none was found expired.
PutsIn(k, exp) ==
    /\ Calls /\ k \in Keys /\ exp \in Nat \cup {Never}
    /\ store' = Fronted(k, exp) /\ entered' = entered + 1
    /\ \/ k \notin Held /\ pc' = "check" /\ displaced' = Absent /\ UNCHANGED <<evictions, replaced>>
       \/ /\ k \in Held /\ pc' = "check" /\ displaced' \in Nat \cup {Never}
          /\ UNCHANGED <<evictions, replaced>>
       \/ /\ k \in Held /\ pc' = "check" /\ displaced' = Absent
          /\ replaced' = replaced + 1 /\ UNCHANGED evictions
       \/ /\ k \in Held /\ pc' = "idle" /\ displaced' = Absent
          /\ evictions' = evictions + 1 /\ UNCHANGED replaced
    /\ UNCHANGED <<hits, lost>>

\* check_capacity is done: what was displaced is counted as one of three, and
\* LruTtlCache has copied the new bound.
Judges ==
    /\ pc = "check" /\ Len(store) <= capacity
    /\ pc' = "idle" /\ displaced' = Absent /\ ~resizing'
    /\ \/ displaced = Absent /\ UNCHANGED <<evictions, replaced, lost>>
       \/ displaced # Absent /\ evictions' = evictions + 1 /\ UNCHANGED <<replaced, lost>>
       \/ displaced # Absent /\ replaced' = replaced + 1 /\ UNCHANGED <<evictions, lost>>
       \/ displaced # Absent /\ lost' = lost + 1 /\ UNCHANGED <<evictions, replaced>>
    /\ (kind = "LruTtlCache") => (size' = IF resizing THEN capacity ELSE size)
    /\ UNCHANGED <<kind, clock, store, capacity, ttl, refresh, hits, store_evictions, entered, silent, short>>

-----------------------------------------------------------------------------
(* What Pick picks.                                                        *)

\* Most steps need no arithmetic and are Zenon's; the others name their prover.
USE Zenon

\* A position is ranked by its place among the others, and no two alike.
LEMMA RankInjective ==
  ASSUME NEW n \in Nat, NEW I \in SUBSET (1..n)
  PROVE  /\ IsFiniteSet(I) /\ Cardinality(I) \in 0..n
         /\ \A i \in I : Rank(I, i) \in 1..Cardinality(I)
         /\ \A i, j \in I : i < j => Rank(I, i) < Rank(I, j)
         /\ \A i, j \in I : Rank(I, i) = Rank(I, j) => i = j
<1>1. IsFiniteSet(1..n) /\ Cardinality(1..n) = n
  BY SMT, FS_Interval
<1>2. IsFiniteSet(I) /\ Cardinality(I) \in 0..n
  <2>1. IsFiniteSet(I) /\ Cardinality(I) <= Cardinality(1..n)
    BY <1>1, FS_Subset
  <2>2. Cardinality(I) \in Nat
    BY <2>1, FS_CardinalityType
  <2> QED
    BY SMT, <1>1, <2>1, <2>2
<1> DEFINE upto(i) == {j \in I : j <= i}
<1>3. ASSUME NEW i \in I
      PROVE  IsFiniteSet(upto(i)) /\ Rank(I, i) \in 1..Cardinality(I)
  <2>1. upto(i) \subseteq I /\ i \in upto(i)
    BY SMT
  <2>2. IsFiniteSet(upto(i)) /\ Cardinality(upto(i)) <= Cardinality(I) /\ Cardinality(upto(i)) \in Nat
    BY <1>2, <2>1, FS_Subset, FS_CardinalityType
  <2>3. Cardinality(upto(i)) # 0
    BY <2>1, <2>2, FS_EmptySet
  <2> QED
    BY SMT, <1>2, <2>2, <2>3 DEF Rank
<1>4. ASSUME NEW i \in I, NEW j \in I, i < j
      PROVE  Rank(I, i) < Rank(I, j)
  <2>1. upto(i) \subseteq upto(j) /\ j \in upto(j) /\ j \notin upto(i)
    <3>1. i \in Nat /\ j \in Nat /\ ~(j <= i)
      BY SMT, <1>4
    <3>2. \A k \in I : k \in Nat /\ (k <= i => k <= j)
      BY SMT, <1>4, <3>1
    <3>3. upto(i) \subseteq upto(j)
      BY <3>2
    <3>4. j \in upto(j) /\ j \notin upto(i)
      BY SMT, <3>1
    <3> QED
      BY <3>3, <3>4
  <2>2. IsFiniteSet(upto(j)) /\ upto(i) # upto(j)
    BY <1>3, <2>1
  <2>3. Cardinality(upto(i)) <= Cardinality(upto(j)) /\ Cardinality(upto(i)) # Cardinality(upto(j))
    BY <2>1, <2>2, FS_Subset
  <2> QED
    BY SMT, <1>3, <2>3 DEF Rank
<1>5. ASSUME NEW i \in I, NEW j \in I, Rank(I, i) = Rank(I, j)
      PROVE  i = j
  <2>1. i \in Nat /\ j \in Nat /\ Rank(I, i) \in Nat /\ Rank(I, j) \in Nat
    <3>1. Rank(I, i) \in 1..Cardinality(I) /\ Rank(I, j) \in 1..Cardinality(I)
      BY <1>3
    <3>2. i \in 1..n /\ j \in 1..n
      OBVIOUS
    <3> QED
      BY SMT, <1>2, <3>1, <3>2
  <2> QED
    BY SMT, <1>4, <1>5, <2>1
<1> QED
  BY <1>2, <1>3, <1>4, <1>5

\* Every rank is taken, by one position.
LEMMA NthInverse ==
  ASSUME NEW n \in Nat, NEW I \in SUBSET (1..n)
  PROVE  /\ \A p \in 1..Cardinality(I) : Nth(I, p) \in I /\ Rank(I, Nth(I, p)) = p
         /\ \A i \in I : Nth(I, Rank(I, i)) = i
<1> DEFINE f == [i \in I |-> Rank(I, i)]
           m == Cardinality(I)
<1>1. /\ IsFiniteSet(I) /\ m \in 0..n
      /\ \A i \in I : Rank(I, i) \in 1..m
      /\ \A i, j \in I : Rank(I, i) = Rank(I, j) => i = j
  BY RankInjective
<1>2. f \in Injection(I, 1..m)
  BY <1>1 DEF Injection, IsInjective
<1>3. IsFiniteSet(1..m) /\ Cardinality(1..m) = m
  BY SMT, <1>1, FS_Interval
<1>4. f \in Surjection(I, 1..m)
  BY <1>2, <1>3, FS_Injection
<1>5. ASSUME NEW p \in 1..m
      PROVE  \E i \in I : Rank(I, i) = p
  BY <1>4 DEF Surjection
<1>6. ASSUME NEW p \in 1..m
      PROVE  Nth(I, p) \in I /\ Rank(I, Nth(I, p)) = p
  BY <1>5 DEF Nth
<1> QED
  BY <1>1, <1>6

\* What is picked are the elements at the positions, each once, in their order.
LEMMA PickElements ==
  ASSUME NEW S, NEW s \in Seq(S), NEW I \in SUBSET DOMAIN s
  PROVE  /\ Pick(s, I) \in Seq(S) /\ Len(Pick(s, I)) = Cardinality(I)
         /\ IsFiniteSet(I) /\ Cardinality(I) \in 0..Len(s)
         /\ \A p \in DOMAIN Pick(s, I) : Nth(I, p) \in I /\ Pick(s, I)[p] = s[Nth(I, p)]
         /\ \A p, q \in DOMAIN Pick(s, I) : Nth(I, p) = Nth(I, q) => p = q
         /\ \A i \in I : \E p \in DOMAIN Pick(s, I) : Nth(I, p) = i
<1>1. Len(s) \in Nat /\ DOMAIN s = 1..Len(s) /\ I \in SUBSET (1..Len(s))
  BY SMT
<1>2. /\ IsFiniteSet(I) /\ Cardinality(I) \in 0..Len(s)
      /\ \A i \in I : Rank(I, i) \in 1..Cardinality(I)
  BY <1>1, RankInjective
<1>3. /\ \A p \in 1..Cardinality(I) : Nth(I, p) \in I /\ Rank(I, Nth(I, p)) = p
      /\ \A i \in I : Nth(I, Rank(I, i)) = i
  BY <1>1, NthInverse
<1>4. \A p \in 1..Cardinality(I) : s[Nth(I, p)] \in S
  BY SMT, <1>1, <1>3
<1>5. /\ Pick(s, I) \in Seq(S) /\ Len(Pick(s, I)) = Cardinality(I)
      /\ DOMAIN Pick(s, I) = 1..Cardinality(I)
  BY SMT, <1>2, <1>4 DEF Pick
<1> QED
  BY <1>2, <1>3, <1>5 DEF Pick

-----------------------------------------------------------------------------
(* The sequence of entries.                                                *)

\* Entries taken out are gone, the others stay as they are.
LEMMA WithoutFacts ==
  ASSUME store \in Seq(Entries), Distinct(store), NEW gone
  PROVE  /\ Without(gone) \in Seq(Entries) /\ Distinct(Without(gone))
         /\ KeysOf(Without(gone)) = Held \ gone
         /\ \A j \in DOMAIN Without(gone) : \E i \in DOMAIN store : Without(gone)[j] = store[i]
         /\ Len(store) \in Nat /\ Len(Without(gone)) \in Nat /\ Cardinality(Held \cap gone) \in Nat
         /\ Len(store) = Len(Without(gone)) + Cardinality(Held \cap gone)
<1> DEFINE I == {i \in DOMAIN store : store[i].key \notin gone}
           J == {i \in DOMAIN store : store[i].key \in gone}
           s == Without(gone)
<1>1. s = Pick(store, I) /\ I \in SUBSET DOMAIN store
  BY DEF Without
<1>2. /\ s \in Seq(Entries) /\ Len(s) = Cardinality(I)
      /\ \A p \in DOMAIN s : Nth(I, p) \in I /\ s[p] = store[Nth(I, p)]
      /\ \A p, q \in DOMAIN s : Nth(I, p) = Nth(I, q) => p = q
      /\ \A i \in I : \E p \in DOMAIN s : Nth(I, p) = i
  <2> HIDE DEF s, I
  <2> QED
    BY SMT, <1>1, PickElements
<1>3. Distinct(s)
  <2> HIDE DEF s
  <2> QED
    BY SMT, <1>2 DEF Distinct
<1>4. KeysOf(s) = Held \ gone
  <2> HIDE DEF s
  <2>1. KeysOf(s) = {store[i].key : i \in I}
    BY SMT, <1>2 DEF KeysOf
  <2> QED
    BY <2>1 DEF Held
<1>5. \A j \in DOMAIN s : \E i \in DOMAIN store : s[j] = store[i]
  <2> HIDE DEF s
  <2> QED
    BY <1>2
<1>6. /\ Len(store) \in Nat /\ DOMAIN store = 1..Len(store)
      /\ IsFiniteSet(DOMAIN store) /\ Cardinality(DOMAIN store) = Len(store)
  <2>1. Len(store) \in Nat /\ DOMAIN store = 1..Len(store)
    BY SMT
  <2>2. IsFiniteSet(1..Len(store)) /\ Cardinality(1..Len(store)) = Len(store)
    BY SMTT(30), <2>1, FS_Interval
  <2> QED
    BY <2>1, <2>2
<1>7. /\ IsFiniteSet(J) /\ IsFiniteSet(I) /\ Cardinality(J) \in Nat /\ Cardinality(I) \in Nat
      /\ Cardinality(I) = Len(store) - Cardinality(J)
  <2>1. I = DOMAIN store \ J /\ DOMAIN store \cap J = J /\ J \in SUBSET DOMAIN store
    OBVIOUS
  <2> HIDE DEF I, J
  <2>2. IsFiniteSet(J) /\ IsFiniteSet(I) /\ Cardinality(I) = Cardinality(DOMAIN store) - Cardinality(J)
    <3> DEFINE D == DOMAIN store
    <3>1. IsFiniteSet(D) /\ I = D \ J /\ D \cap J = J /\ J \in SUBSET D
      BY <1>6, <2>1
    <3> HIDE DEF D
    <3>2. IsFiniteSet(J) /\ IsFiniteSet(D \ J) /\ Cardinality(D \ J) = Cardinality(D) - Cardinality(D \cap J)
      BY <3>1, FS_Difference, FS_Subset
    <3> QED
      BY <3>1, <3>2 DEF D
  <2> QED
    BY <1>6, <2>2, FS_CardinalityType
<1>8. Cardinality(Held \cap gone) = Cardinality(J)
  <2> DEFINE f == [i \in J |-> store[i].key]
             G == Held \cap gone
  <2>1. f \in [J -> G]
    BY DEF Held
  <2>2. \A i, j \in J : f[i] = f[j] => i = j
    BY DEF Distinct
  <2>3. \A k \in G : \E i \in J : f[i] = k
    BY DEF Held
  <2>4. f \in Bijection(J, G)
    BY <2>1, <2>2, <2>3 DEF Bijection, Injection, Surjection, IsInjective
  <2> HIDE DEF f, J, G
  <2>5. Cardinality(G) = Cardinality(J)
    BY <1>7, <2>4, FS_Bijection DEF ExistsBijection
  <2> QED
    BY <2>5 DEF G
<1> HIDE DEF I, J, s
<1>9. Len(store) = Len(s) + Cardinality(Held \cap gone)
  BY SMT, <1>2, <1>6, <1>7, <1>8
<1> QED
  BY <1>2, <1>3, <1>4, <1>5, <1>6, <1>7, <1>8, <1>9 DEF s

\* The entry put at the front takes the place of the one its key had.
LEMMA FrontedFacts ==
  ASSUME store \in Seq(Entries), Distinct(store), NEW k \in Keys, NEW exp \in Nat \cup {Never}
  PROVE  /\ Fronted(k, exp) \in Seq(Entries) /\ Distinct(Fronted(k, exp))
         /\ Head(Fronted(k, exp)).exp = exp
         /\ \A j \in DOMAIN Fronted(k, exp) :
               \/ Fronted(k, exp)[j] = [key |-> k, exp |-> exp]
               \/ \E i \in DOMAIN store : Fronted(k, exp)[j] = store[i]
         /\ Len(store) \in Nat /\ Len(Fronted(k, exp)) \in Nat
         /\ k \in Held => Len(Fronted(k, exp)) = Len(store)
         /\ k \notin Held => Len(Fronted(k, exp)) = Len(store) + 1
<1> DEFINE e == [key |-> k, exp |-> exp]
           s == Without({k})
           t == Fronted(k, exp)
<1>1. /\ s \in Seq(Entries) /\ Distinct(s)
      /\ KeysOf(s) = Held \ {k}
      /\ \A j \in DOMAIN s : \E i \in DOMAIN store : s[j] = store[i]
      /\ Len(store) \in Nat /\ Len(s) \in Nat
      /\ Len(store) = Len(s) + Cardinality(Held \cap {k})
  BY WithoutFacts
<1>2. e \in Entries /\ e.key = k /\ e.exp = exp
  BY DEF Entries
<1> HIDE DEF s, e
<1>3. /\ t = <<e>> \o s /\ t \in Seq(Entries) /\ Len(t) = Len(s) + 1
      /\ DOMAIN t = 1..(Len(s) + 1)
      /\ t[1] = e /\ Head(t) = e
      /\ \A j \in DOMAIN t : j # 1 => t[j] = s[j - 1] /\ j - 1 \in DOMAIN s
  <2>1. t = <<e>> \o s
    BY DEF Fronted, e, s
  <2> HIDE DEF t
  <2> QED
    BY SMT, <1>1, <1>2, <2>1
<1> HIDE DEF t
<1>4. Distinct(t)
  <2>1. \A j \in DOMAIN s : s[j].key # k
    BY <1>1 DEF KeysOf
  <2> SUFFICES ASSUME NEW i \in DOMAIN t, NEW j \in DOMAIN t, t[i].key = t[j].key
               PROVE  i = j
    BY DEF Distinct
  <2>2. CASE i = 1 \/ j = 1
    BY <1>2, <1>3, <2>1, <2>2
  <2>3. CASE i # 1 /\ j # 1
    <3>1. i - 1 = j - 1
      BY SMT, <1>1, <1>3, <2>3 DEF Distinct
    <3> QED
      BY SMT, <1>1, <1>3, <3>1
  <2> QED
    BY <2>2, <2>3
<1>5. \A j \in DOMAIN t : t[j] = e \/ \E i \in DOMAIN store : t[j] = store[i]
  BY <1>1, <1>3
<1>6. /\ k \in Held => Len(t) = Len(store)
      /\ k \notin Held => Len(t) = Len(store) + 1
  <2>1. CASE k \in Held
    <3>1. Held \cap {k} = {k} /\ Cardinality({k}) = 1
      BY <2>1, FS_Singleton
    <3> QED
      BY <1>1, <1>3, <2>1, <3>1
  <2>2. CASE k \notin Held
    <3>1. Held \cap {k} = {} /\ Cardinality({}) = 0
      BY <2>2, FS_EmptySet
    <3>2. Len(store) = Len(s) + 0 /\ Len(s) \in Nat
      BY <1>1, <3>1
    <3> QED
      BY SMT, <1>3, <2>2, <3>2
  <2> QED
    BY <2>1, <2>2
<1>7. Len(t) \in Nat /\ Head(t).exp = exp
  BY SMT, <1>1, <1>2, <1>3
<1> QED
  BY <1>1, <1>3, <1>4, <1>5, <1>6, <1>7 DEF t, e

\* The entry of a key that is held.
LEMMA EntryOfFacts ==
  ASSUME store \in Seq(Entries), Distinct(store), NEW k \in Held
  PROVE  /\ k \in Keys /\ EntryOf(k).exp \in Nat \cup {Never}
         /\ \A i \in DOMAIN store : store[i].key = k => store[i] = EntryOf(k)
<1>1. \E i \in DOMAIN store : store[i].key = k
  BY DEF Held
<1> DEFINE i == CHOOSE i \in DOMAIN store : store[i].key = k
<1>2. i \in DOMAIN store /\ store[i].key = k
  BY <1>1
<1>3. EntryOf(k) = store[i]
  BY DEF EntryOf
<1> HIDE DEF i
<1>4. store[i] \in Entries
  BY SMT, <1>2
<1> QED
  BY <1>2, <1>3, <1>4 DEF Entries, Distinct

-----------------------------------------------------------------------------
(* Each change keeps the invariant.                                        *)

\* A lookup that finds nothing keeps the invariant.
LEMMA LooksKeeps ==
  ASSUME IInv, Looks
  PROVE  IInv'
<1>1. BoundedTypeOK'
  BY DEF IInv, BoundedTypeOK, Looks, Calls, Distinct
<1>2. ProgressInv' /\ BoundInv'
  BY SMT DEF IInv, ProgressInv, BoundInv, Looks, Calls
<1>3. CountedOnce'
  BY DEF IInv, CountedOnce, Counted, Looks, Calls
<1> QED
  BY <1>1, <1>2, <1>3 DEF IInv

\* A hit, which moves its entry to the front, keeps the invariant.
LEMMA TouchesKeeps ==
  ASSUME IInv, NEW k, NEW exp, Touches(k, exp)
  PROVE  IInv'
<1>1. k \in Keys /\ k \in Held /\ exp \in Nat \cup {Never}
  BY SMT, EntryOfFacts, BoundedStoreAssumption DEF IInv, BoundedTypeOK, Touches, Deadline
<1>2. store' \in Seq(Entries) /\ Distinct(store)' /\ Len(store') = Len(store)
  BY SMT, <1>1, FrontedFacts DEF IInv, BoundedTypeOK, Touches, Distinct
<1>3. BoundedTypeOK'
  BY SMT, <1>2 DEF IInv, BoundedTypeOK, Touches, Calls
<1>4. ProgressInv' /\ BoundInv'
  BY SMT, <1>2 DEF IInv, ProgressInv, BoundInv, Touches, Calls
<1>5. CountedOnce'
  BY <1>2 DEF IInv, CountedOnce, Counted, Touches, Calls
<1> QED
  BY <1>3, <1>4, <1>5 DEF IInv

\* Taking out entries, each counted by the wrapper, keeps the invariant.
LEMMA TakesOutKeeps ==
  ASSUME IInv, NEW gone, TakesOut(gone)
  PROVE  IInv'
<1>1. /\ store' \in Seq(Entries) /\ Distinct(store)'
      /\ Len(store) \in Nat /\ Len(store') \in Nat /\ Cardinality(gone) \in Nat
      /\ Len(store) = Len(store') + Cardinality(gone)
  <2>1. Held \cap gone = gone /\ store' = Without(gone)
    BY DEF TakesOut
  <2> QED
    BY <2>1, WithoutFacts DEF IInv, BoundedTypeOK, Distinct
<1>2. evictions' = evictions + Cardinality(gone) /\ evictions' \in Nat
  BY SMT, <1>1 DEF TakesOut, IInv, BoundedTypeOK
<1>3. BoundedTypeOK'
  BY <1>1, <1>2 DEF IInv, BoundedTypeOK, TakesOut, Calls
<1>4. ProgressInv'
  BY SMT DEF IInv, ProgressInv, TakesOut, Calls
<1>5. BoundInv'
  BY SMT, <1>1 DEF IInv, BoundInv, BoundedTypeOK, TakesOut, Calls
<1>6. CountedOnce'
  <2>1. /\ silent \in Nat /\ store_evictions \in Nat /\ lost \in Nat /\ evictions \in Nat
        /\ replaced \in Nat
    BY DEF IInv, BoundedTypeOK
  <2>2. /\ UNCHANGED <<short, entered, silent, replaced, store_evictions, lost>>
        /\ displaced = Absent /\ displaced' = Absent
    BY DEF IInv, ProgressInv, TakesOut, Calls
  <2>3. ~short => entered = Len(store) + silent + replaced + store_evictions + evictions + lost
    BY SMTT(30), <1>1, <2>1, <2>2 DEF IInv, CountedOnce, Counted
  <2>4. PICK n \in Nat : n = Cardinality(gone)
    BY <1>1
  <2>5. /\ Counted' = Len(store') + silent + replaced + store_evictions + (evictions + n) + lost
        /\ Len(store) = Len(store') + n /\ Len(store') \in Nat
    BY SMT, <1>1, <1>2, <2>1, <2>2, <2>4 DEF Counted
  <2>6. ~short => entered = Counted'
    BY SMTT(30), <2>1, <2>3, <2>5
  <2> QED
    BY <2>2, <2>6 DEF CountedOnce
<1> QED
  BY <1>3, <1>4, <1>5, <1>6 DEF IInv

\* An entry that leaves as `lost` keeps the invariant.
LEMMA LosesKeeps ==
  ASSUME IInv, NEW k, Loses(k)
  PROVE  IInv'
<1>1. /\ store' \in Seq(Entries) /\ Distinct(store)'
      /\ Len(store) \in Nat /\ Len(store') \in Nat
      /\ Len(store) = Len(store') + 1
  <2>1. Held \cap {k} = {k} /\ store' = Without({k}) /\ Cardinality({k}) = 1
    BY FS_Singleton DEF Loses
  <2> QED
    BY SMT, <2>1, WithoutFacts DEF IInv, BoundedTypeOK, Distinct
<1>2. lost' = lost + 1 /\ lost' \in Nat
  BY SMT DEF Loses, IInv, BoundedTypeOK
<1>3. BoundedTypeOK'
  BY <1>1, <1>2 DEF IInv, BoundedTypeOK, Loses, Calls
<1>4. ProgressInv'
  BY SMT DEF IInv, ProgressInv, Loses, Calls
<1>5. BoundInv'
  BY SMT, <1>1 DEF IInv, BoundInv, BoundedTypeOK, Loses, Calls
<1>6. CountedOnce'
  BY SMT, <1>1, <1>2 DEF IInv, CountedOnce, Counted, BoundedTypeOK, Loses, Calls
<1> QED
  BY <1>3, <1>4, <1>5, <1>6 DEF IInv

\* Storing an entry, over capacity by one at most, keeps the invariant.
LEMMA PutsInKeeps ==
  ASSUME IInv, NEW k, NEW exp, PutsIn(k, exp)
  PROVE  IInv'
<1>1. /\ store' \in Seq(Entries) /\ Distinct(store)'
      /\ Len(store) \in Nat /\ Len(store') \in Nat
      /\ k \in Held => Len(store') = Len(store)
      /\ k \notin Held => Len(store') = Len(store) + 1
  <2>1. store' = Fronted(k, exp) /\ k \in Keys /\ exp \in Nat \cup {Never}
    BY DEF PutsIn
  <2> QED
    BY SMT, <2>1, FrontedFacts DEF IInv, BoundedTypeOK, Distinct
<1>2. /\ evictions' \in Nat /\ replaced' \in Nat /\ entered' \in Nat
      /\ displaced' \in Nat \cup {Never, Absent} /\ pc' \in {"idle", "check"}
  BY SMT DEF PutsIn, IInv, BoundedTypeOK
<1>3. BoundedTypeOK'
  BY <1>1, <1>2 DEF IInv, BoundedTypeOK, PutsIn, Calls
<1>4. ProgressInv'
  BY SMT DEF IInv, ProgressInv, PutsIn, Calls
<1>5. BoundInv'
  <2>1. ~short => Len(store) <= capacity /\ (kind = "LruTtlCache" => size = capacity)
    BY DEF IInv, BoundInv, ProgressInv, PutsIn, Calls
  <2>2. UNCHANGED <<kind, short, capacity, size>> /\ capacity \in Nat
    BY DEF PutsIn, Calls, IInv, BoundedTypeOK
  <2>3. pc' = "idle" \/ displaced' # Absent => k \in Held
    BY DEF PutsIn
  <2> QED
    BY SMT, <1>1, <2>1, <2>2, <2>3 DEF BoundInv
<1>6. CountedOnce'
  <2>1. /\ UNCHANGED <<short, silent, store_evictions, lost>> /\ entered' = entered + 1
        /\ displaced = Absent
    BY DEF PutsIn, Calls, IInv, ProgressInv
  <2>2. /\ silent \in Nat /\ store_evictions \in Nat /\ lost \in Nat /\ evictions \in Nat
        /\ replaced \in Nat
    BY DEF IInv, BoundedTypeOK
  <2>3. ~short => entered = Len(store) + silent + replaced + store_evictions + evictions + lost
    BY SMT, <1>1, <2>1, <2>2 DEF IInv, CountedOnce, Counted
  <2>4. Absent \notin Nat \cup {Never}
    BY BoundedStoreAssumption
  <2>5. CASE k \notin Held /\ displaced' = Absent /\ UNCHANGED <<evictions, replaced>>
    BY SMT, <1>1, <2>1, <2>2, <2>3, <2>5 DEF CountedOnce, Counted
  <2>6. CASE k \in Held /\ displaced' \in Nat \cup {Never} /\ UNCHANGED <<evictions, replaced>>
    BY <1>1, <2>1, <2>2, <2>3, <2>4, <2>6 DEF CountedOnce, Counted
  <2>7. CASE k \in Held /\ displaced' = Absent /\ replaced' = replaced + 1 /\ UNCHANGED evictions
    BY SMTT(30), <1>1, <2>1, <2>2, <2>3, <2>7 DEF CountedOnce, Counted
  <2>8. CASE k \in Held /\ displaced' = Absent /\ evictions' = evictions + 1 /\ UNCHANGED replaced
    BY SMT, <1>1, <2>1, <2>2, <2>3, <2>8 DEF CountedOnce, Counted
  <2> QED
    BY <2>5, <2>6, <2>7, <2>8 DEF PutsIn
<1> QED
  BY <1>3, <1>4, <1>5, <1>6 DEF IInv

\* Counting what was displaced, after check_capacity, keeps the invariant.
LEMMA JudgesKeeps ==
  ASSUME IInv, Judges
  PROVE  IInv'
<1>1. UNCHANGED <<kind, clock, store, capacity, ttl, refresh, hits, store_evictions, entered, silent, short>>
  BY DEF Judges
<1>2. /\ silent \in Nat /\ store_evictions \in Nat /\ lost \in Nat /\ evictions \in Nat
      /\ replaced \in Nat /\ Len(store) \in Nat /\ entered \in Nat
  BY SMT DEF IInv, BoundedTypeOK
<1>3. evictions' \in Nat /\ replaced' \in Nat /\ lost' \in Nat
  BY SMT, <1>2 DEF Judges
<1>4. BoundedTypeOK'
  BY <1>1, <1>3 DEF IInv, BoundedTypeOK, Judges, Distinct
<1>5. ProgressInv'
  BY SMT, <1>1 DEF IInv, ProgressInv, Judges
<1>6. BoundInv'
  BY SMT, <1>1, <1>2 DEF IInv, BoundInv, BoundedTypeOK, Judges
<1>7. CountedOnce'
  <2>1. displaced' = Absent
    BY DEF Judges
  <2>2. CASE displaced = Absent /\ UNCHANGED <<evictions, replaced, lost>>
    BY <1>1, <1>2, <2>1, <2>2 DEF IInv, CountedOnce, Counted
  <2>3. CASE displaced # Absent /\ evictions' = evictions + 1 /\ UNCHANGED <<replaced, lost>>
    BY SMT, <1>1, <1>2, <2>1, <2>3 DEF IInv, CountedOnce, Counted
  <2>4. CASE displaced # Absent /\ replaced' = replaced + 1 /\ UNCHANGED <<evictions, lost>>
    BY SMT, <1>1, <1>2, <2>1, <2>4 DEF IInv, CountedOnce, Counted
  <2>5. CASE displaced # Absent /\ lost' = lost + 1 /\ UNCHANGED <<evictions, replaced>>
    BY SMT, <1>1, <1>2, <2>1, <2>5 DEF IInv, CountedOnce, Counted
  <2> QED
    BY <2>2, <2>3, <2>4, <2>5 DEF Judges
<1> QED
  BY <1>4, <1>5, <1>6, <1>7 DEF IInv

\* A victim leaves.  Where its callback panics, nothing was displaced, or a
\* set_max_size is cut short.
LEMMA CheckCapacityKeeps ==
  ASSUME IInv, CheckCapacity
  PROVE  IInv'
<1> DEFINE s == SubSeq(store, 1, Len(store) - 1)
<1>1. /\ store' = s /\ pc = "check" /\ Len(store) > capacity
      /\ Len(store) \in Nat /\ capacity \in Nat
      /\ UNCHANGED <<kind, clock, capacity, size, ttl, refresh, hits, evictions>>
      /\ UNCHANGED <<entered, silent, replaced, lost>>
      /\ store_evictions' = store_evictions + 1
  BY SMT DEF CheckCapacity, settings, ledger, IInv, BoundedTypeOK
<1>2. /\ s \in Seq(Entries) /\ Len(s) = Len(store) - 1
      /\ \A i \in DOMAIN s : i \in DOMAIN store /\ s[i] = store[i]
  <2>1. store \in Seq(Entries) /\ Len(store) - 1 \in 0..Len(store)
    BY SMT, <1>1 DEF IInv, BoundedTypeOK
  <2>2. /\ s \in Seq(Entries)
        /\ Len(s) = IF 1 <= Len(store) - 1 THEN (Len(store) - 1) - 1 + 1 ELSE 0
        /\ \A i \in 1..((Len(store) - 1) - 1 + 1) : s[i] = store[1 + i - 1]
    BY SMT, <1>1, <2>1, SubSeqProperties
  <2> HIDE DEF s
  <2>3. Len(s) = Len(store) - 1 /\ DOMAIN s = 1..(Len(store) - 1)
    <3>0. PICK n \in Nat : n = Len(store) /\ n >= 1
      BY SMT, <1>1
    <3>1. Len(s) = Len(store) - 1
      BY SMT, <2>2, <3>0
    <3>2. DOMAIN s = 1..Len(s)
      BY SMT, <2>2
    <3> QED
      BY <3>1, <3>2
  <2>4. \A i \in 1..(Len(store) - 1) : i \in DOMAIN store /\ s[i] = store[i]
    BY SMT, <1>1, <2>1, <2>2
  <2> QED
    BY <2>2, <2>3, <2>4
<1>3. Distinct(s)
  <2> HIDE DEF s
  <2> QED
    BY <1>2 DEF IInv, BoundedTypeOK, Distinct
<1>4. store' \in Seq(Entries) /\ Distinct(store)' /\ Len(store') = Len(store) - 1
  BY <1>1, <1>2, <1>3 DEF Distinct
<1>5. \/ UNCHANGED <<pc, displaced, resizing, short>>
      \/ /\ pc' = "idle" /\ displaced' = Absent /\ ~resizing'
         /\ short' = (short \/ resizing)
  BY DEF CheckCapacity, progress
<1>6. BoundedTypeOK'
  BY SMT, <1>1, <1>4, <1>5 DEF IInv, BoundedTypeOK
<1>7. ProgressInv'
  BY SMT, <1>1, <1>5 DEF IInv, ProgressInv
<1>8. ~short /\ ~resizing => Len(store) = capacity + 1 /\ displaced = Absent
  BY SMT, <1>1 DEF IInv, BoundInv
<1>9. resizing => displaced = Absent
  BY DEF IInv, ProgressInv
<1>10. BoundInv'
  <2>1. CASE UNCHANGED <<pc, displaced, resizing, short>>
    BY SMT, <1>1, <1>4, <1>8, <2>1 DEF IInv, BoundInv
  <2>2. CASE pc' = "idle" /\ displaced' = Absent /\ ~resizing' /\ short' = (short \/ resizing)
    <3>1. ~short' => ~short /\ ~resizing
      BY <2>2
    <3>2. ~short /\ ~resizing => (kind = "LruTtlCache" => size = capacity)
      BY DEF IInv, BoundInv
    <3> QED
      BY SMT, <1>1, <1>4, <1>8, <2>2, <3>1, <3>2 DEF BoundInv
  <2> QED
    BY <1>5, <2>1, <2>2
<1>11. CountedOnce'
  <2>1. ~short' => displaced' = displaced /\ ~short
    BY <1>5, <1>8, <1>9
  <2>2. /\ silent \in Nat /\ store_evictions \in Nat /\ lost \in Nat /\ evictions \in Nat
        /\ replaced \in Nat
    BY DEF IInv, BoundedTypeOK
  <2>3. ASSUME ~short' PROVE entered' = Counted'
    <3>1. displaced' = displaced /\ entered = Counted
      BY <2>1, <2>3 DEF IInv, CountedOnce
    <3> DEFINE d == IF displaced # Absent THEN 1 ELSE 0
    <3>2. d \in Nat /\ entered = Len(store) + silent + replaced + store_evictions + evictions + lost + d
      BY <3>1 DEF Counted
    <3>3. Counted' = Len(store') + silent' + replaced' + store_evictions' + evictions' + lost' + d
      BY <3>1 DEF Counted
    <3> HIDE DEF d
    <3>4. Counted' = (Len(store) - 1) + silent + replaced + (store_evictions + 1) + evictions + lost + d
      BY <1>1, <1>4, <3>3
    <3> QED
      BY SMT, <1>1, <2>2, <3>2, <3>4
  <2> QED
    BY <2>3 DEF CountedOnce
<1> QED
  BY <1>6, <1>7, <1>10, <1>11 DEF IInv

\* set_max_size begins: until it ends, the bounds may differ.
LEMMA SetMaxSizeKeeps ==
  ASSUME IInv, NEW n \in Nat, SetMaxSize(n)
  PROVE  IInv'
<1>1. /\ pc = "idle" /\ pc' = "check" /\ resizing' = TRUE /\ capacity' = n /\ displaced = Absent
      /\ UNCHANGED <<kind, clock, store, size, ttl, refresh, hits, store_evictions, evictions>>
      /\ UNCHANGED <<displaced, entered, silent, replaced, lost, short>>
  BY DEF SetMaxSize, Begin, metrics, ledger, IInv, ProgressInv
<1>2. BoundedTypeOK'
  BY <1>1 DEF IInv, BoundedTypeOK, Distinct
<1>3. ProgressInv' /\ BoundInv'
  BY <1>1 DEF IInv, ProgressInv, BoundInv
<1>4. CountedOnce'
  BY <1>1 DEF IInv, CountedOnce, Counted
<1> QED
  BY <1>2, <1>3, <1>4 DEF IInv

\* cache_clear and cache_reset: nothing is left to be counted.
LEMMA ClearKeeps ==
  ASSUME IInv, cache_clear \/ \E clears \in BOOLEAN : cache_reset(clears)
  PROVE  IInv'
<1>1. /\ pc = "idle" /\ displaced = Absent
      /\ UNCHANGED <<kind, clock, capacity, size, ttl, refresh, pc, displaced, resizing, short>>
      /\ store' = <<>> \/ store' = store
  BY DEF cache_clear, cache_reset, Begin, settings, progress, IInv, ProgressInv
<1>2. /\ store' \in Seq(Entries) /\ Distinct(store)'
      /\ Len(store) \in Nat /\ Len(store') \in Nat /\ Len(store') <= Len(store)
  <2>1. store \in Seq(Entries) /\ Distinct(store) /\ Len(store) \in Nat
    BY SMT DEF IInv, BoundedTypeOK
  <2>2. <<>> \in Seq(Entries) /\ Distinct(<<>>) /\ Len(<<>>) = 0
    BY SMT DEF Distinct
  <2>3. CASE store' = <<>>
    BY SMT, <2>1, <2>2, <2>3 DEF Distinct
  <2>4. CASE store' = store
    BY SMT, <2>1, <2>4 DEF Distinct
  <2> QED
    BY <1>1, <2>3, <2>4
<1>3. /\ silent \in Nat /\ store_evictions \in Nat /\ lost \in Nat /\ evictions \in Nat
      /\ replaced \in Nat /\ entered \in Nat /\ hits \in Nat
  BY DEF IInv, BoundedTypeOK
<1>4. \/ /\ store' = <<>> /\ silent' = silent + Len(store)
         /\ UNCHANGED <<hits, store_evictions, evictions, entered, replaced, lost>>
      \/ /\ hits' = 0 /\ store_evictions' = 0 /\ evictions' = 0
         /\ entered' = Len(store') /\ silent' = 0 /\ replaced' = 0 /\ lost' = 0
  BY DEF cache_clear, cache_reset, metrics
<1>5. BoundedTypeOK'
  <2>1. /\ hits' \in Nat /\ store_evictions' \in Nat /\ evictions' \in Nat
        /\ entered' \in Nat /\ silent' \in Nat /\ replaced' \in Nat /\ lost' \in Nat
    BY SMTT(30), <1>2, <1>3, <1>4
  <2> QED
    BY <1>1, <1>2, <2>1 DEF IInv, BoundedTypeOK
<1>6. ProgressInv'
  BY <1>1 DEF IInv, ProgressInv
<1>7. BoundInv'
  <2>1. capacity \in Nat
    BY DEF IInv, BoundedTypeOK
  <2> QED
    BY SMT, <1>1, <1>2, <2>1 DEF IInv, BoundInv
<1>8. CountedOnce'
  <2>1. CASE /\ store' = <<>> /\ silent' = silent + Len(store)
             /\ UNCHANGED <<hits, store_evictions, evictions, entered, replaced, lost>>
    <3>1. Len(store') = 0
      BY <2>1
    <3> QED
      BY SMT, <1>1, <1>2, <1>3, <2>1, <3>1 DEF IInv, CountedOnce, Counted
  <2>2. CASE /\ hits' = 0 /\ store_evictions' = 0 /\ evictions' = 0
             /\ entered' = Len(store') /\ silent' = 0 /\ replaced' = 0 /\ lost' = 0
    BY SMT, <1>1, <1>2, <2>2 DEF CountedOnce, Counted
  <2> QED
    BY <1>4, <2>1, <2>2
<1> QED
  BY <1>5, <1>6, <1>7, <1>8 DEF IInv

\* The passing of time keeps the invariant.
LEMMA TickKeeps ==
  ASSUME IInv, Tick \/ UNCHANGED vars
  PROVE  IInv'
<1>1. /\ clock' \in Nat
      /\ UNCHANGED <<kind, store, capacity, size, ttl, refresh, hits, store_evictions, evictions>>
      /\ UNCHANGED <<pc, displaced, resizing, short, entered, silent, replaced, lost>>
  BY SMT DEF Tick, vars, settings, metrics, progress, ledger, IInv, BoundedTypeOK
<1>2. BoundedTypeOK'
  BY <1>1 DEF IInv, BoundedTypeOK, Distinct
<1>3. ProgressInv' /\ BoundInv'
  BY <1>1 DEF IInv, ProgressInv, BoundInv
<1>4. CountedOnce'
  BY <1>1 DEF IInv, CountedOnce, Counted
<1> QED
  BY <1>2, <1>3, <1>4 DEF IInv

-----------------------------------------------------------------------------
(* LruTtlCache.                                                            *)

\* A deadline of LruTtlCache is an instant, or none.
LEMMA LruTtlDeadline ==
  ASSUME IInv
  PROVE  lru_ttl_compute_expires_at(ttl, clock) \in Nat \cup {Never}
BY SMT, BoundedStoreAssumption DEF IInv, BoundedTypeOK, lru_ttl_compute_expires_at, lru_ttl_checked_add

\* A hit of LruTtlCache.
LEMMA LruTtlHit ==
  ASSUME IInv, Calls, NEW k, Live(k), Touch(k), hits' = hits + 1,
         UNCHANGED <<pc, displaced, evictions, entered, replaced, lost>>
  PROVE  \E exp : Touches(k, exp)
<1> DEFINE old == EntryOf(k).exp
           exp == IF refresh THEN lru_ttl_refreshed_expires_at(ttl, clock, old) ELSE old
<1>1. k \in Held
  BY DEF Live
<1>2. store' = Fronted(k, exp)
  BY DEF Touch
<1>3. \/ refresh /\ ttl # 0 /\ exp = Deadline
      \/ ~(refresh /\ ttl # 0) /\ exp = old
  BY DEF lru_ttl_refreshed_expires_at, lru_ttl_checked_add, Deadline
<1> HIDE DEF exp
<1> QED
  BY <1>1, <1>2, <1>3 DEF Touches

\* LruTtlCache counts the entries it removes.
LEMMA LruTtlRemoves ==
  ASSUME Calls, NEW gone, gone \subseteq Held, LruTtlRemove(gone),
         UNCHANGED <<hits, pc, displaced, entered, replaced, lost>>
  PROVE  TakesOut(gone)
BY DEF TakesOut, LruTtlRemove

\* The lookups of LruTtlCache touch an entry, take out an expired one, or find
\* nothing.
LEMMA LruTtlGet ==
  ASSUME IInv, NEW k \in Keys, lru_ttl_cache_get(k) \/ lru_ttl_cache_get_with_expiry_status(k)
  PROVE  Looks \/ (\E exp : Touches(k, exp)) \/ TakesOut({k})
<1>1. Calls /\ UNCHANGED <<pc, displaced, entered, replaced, lost>>
  BY DEF lru_ttl_cache_get, lru_ttl_cache_get_with_expiry_status, Begin, settings,
         progress, ledger, Calls, IInv, BoundedTypeOK
<1>2. CASE Live(k) /\ Hit /\ Touch(k) /\ UNCHANGED evictions
  BY <1>1, <1>2, LruTtlHit DEF Hit
<1>3. CASE k \in Held /\ Miss /\ LruTtlRemove({k})
  <2>1. {k} \subseteq Held
    BY <1>3
  <2> QED
    BY <1>1, <1>3, <2>1, LruTtlRemoves DEF Miss
<1>4. CASE Miss /\ UNCHANGED <<store, evictions>>
  BY <1>1, <1>4 DEF Looks, Miss
<1> QED
  BY <1>2, <1>3, <1>4 DEF lru_ttl_cache_get, lru_ttl_cache_get_with_expiry_status

\* LruTtlCache::cache_set puts an entry in.
LEMMA LruTtlSet ==
  ASSUME IInv, NEW k \in Keys, lru_ttl_cache_set(k)
  PROVE  \E exp : PutsIn(k, exp)
<1> DEFINE exp == lru_ttl_compute_expires_at(ttl, clock)
<1>1. /\ Calls /\ UNCHANGED <<hits, evictions, lost>> /\ pc' = "check" /\ entered' = entered + 1
      /\ store' = Fronted(k, exp)
  BY DEF lru_ttl_cache_set, Begin, settings, metrics, Calls, IInv, BoundedTypeOK
<1>2. exp \in Nat \cup {Never}
  BY LruTtlDeadline
<1>3. replaced' = IF Live(k) THEN replaced + 1 ELSE replaced
  BY DEF lru_ttl_cache_set
<1>4. displaced' = IF k \in Held /\ ~Live(k) THEN EntryOf(k).exp ELSE Absent
  BY DEF lru_ttl_cache_set
<1>5. Live(k) => k \in Held
  BY DEF Live
<1>6. k \in Held => EntryOf(k).exp \in Nat \cup {Never}
  BY EntryOfFacts DEF IInv, BoundedTypeOK
<1> HIDE DEF exp
<1>7. CASE Live(k)
  BY <1>1, <1>2, <1>3, <1>4, <1>5, <1>7 DEF PutsIn
<1>8. CASE ~Live(k)
  BY <1>1, <1>2, <1>3, <1>4, <1>6, <1>8 DEF PutsIn
<1> QED
  BY <1>7, <1>8

\* get-or-set of LruTtlCache touches a live entry or puts one in.
LEMMA LruTtlGetOrSet ==
  ASSUME IInv, NEW k \in Keys, lru_ttl_cache_get_or_set_with(k)
  PROVE  Looks \/ (\E exp : Touches(k, exp)) \/ (\E exp : PutsIn(k, exp))
<1> DEFINE exp == lru_ttl_compute_expires_at(ttl, clock)
<1>1. Calls /\ UNCHANGED <<displaced, replaced, lost>> /\ displaced = Absent
  BY DEF lru_ttl_cache_get_or_set_with, Begin, settings, Calls, IInv, BoundedTypeOK,
         ProgressInv
<1>2. exp \in Nat \cup {Never}
  BY LruTtlDeadline
<1>3. CASE Live(k) /\ Hit /\ Touch(k) /\ UNCHANGED <<evictions, pc, entered>>
  BY <1>1, <1>3, LruTtlHit DEF Hit
<1>4. CASE Miss /\ UNCHANGED <<store, evictions, pc, entered>>
  BY <1>1, <1>4 DEF Looks, Miss
<1> HIDE DEF exp
<1>5. CASE /\ k \in Held /\ Miss /\ store' = Fronted(k, exp)
           /\ entered' = entered + 1 /\ evictions' = evictions + 1 /\ UNCHANGED pc
  BY <1>1, <1>2, <1>5 DEF PutsIn, Miss, Calls
<1>6. CASE /\ k \notin Held /\ Miss /\ store' = Fronted(k, exp)
           /\ entered' = entered + 1 /\ pc' = "check" /\ UNCHANGED evictions
  BY <1>1, <1>2, <1>6 DEF PutsIn, Miss
<1> QED
  BY <1>3, <1>4, <1>5, <1>6 DEF lru_ttl_cache_get_or_set_with, exp

\* The removals and sweeps of LruTtlCache take entries out.
LEMMA LruTtlTakes ==
  ASSUME IInv,
         \/ \E k \in Keys : lru_ttl_cache_remove(k)
         \/ \E keep : lru_ttl_retain(keep)
         \/ lru_ttl_cache_clear_with_on_evict
  PROVE  \E gone : TakesOut(gone)
<1>1. Calls /\ UNCHANGED <<hits, pc, displaced, entered, replaced, lost>>
  BY DEF lru_ttl_cache_remove, lru_ttl_retain, lru_ttl_cache_clear_with_on_evict, Begin,
         settings, progress, ledger, Calls, IInv, BoundedTypeOK
<1>2. ASSUME NEW k \in Keys, lru_ttl_cache_remove(k)
      PROVE  \E gone : TakesOut(gone)
  <2>1. {k} \cap Held \subseteq Held /\ LruTtlRemove({k} \cap Held)
    BY <1>2 DEF lru_ttl_cache_remove
  <2> QED
    BY <1>1, <2>1, LruTtlRemoves
<1>3. ASSUME NEW keep, lru_ttl_retain(keep)
      PROVE  \E gone : TakesOut(gone)
  <2> DEFINE gone == {k \in Held : ~Live(k) \/ k \notin keep}
  <2>1. gone \subseteq Held /\ LruTtlRemove(gone)
    BY <1>3 DEF lru_ttl_retain
  <2> QED
    BY <1>1, <2>1, LruTtlRemoves
<1>4. ASSUME lru_ttl_cache_clear_with_on_evict
      PROVE  TakesOut(Held)
  <2>1. LruTtlRemove(Held)
    BY <1>4 DEF lru_ttl_cache_clear_with_on_evict
  <2> QED
    BY <1>1, <2>1, LruTtlRemoves
<1> QED
  BY <1>2, <1>3, <1>4

\* The setters of LruTtlCache touch no entry.
LEMMA LruTtlConfigures ==
  ASSUME IInv, kind = "LruTtlCache", Configure
  PROVE  Looks
<1>1. ttl' \in Nat
  BY BoundedStoreAssumption DEF Configure
<1> QED
  BY <1>1 DEF Configure, Begin, metrics, progress, ledger, Looks, Calls

\* The end of check_capacity in LruTtlCache judges what was displaced.
LEMMA LruTtlKeepsChecked ==
  ASSUME IInv, LruTtlChecked
  PROVE  Judges
<1>1. /\ pc = "check" /\ Len(store) <= capacity
      /\ pc' = "idle" /\ displaced' = Absent /\ resizing' = FALSE
      /\ evictions' = IF displaced # Absent THEN evictions + 1 ELSE evictions
      /\ size' = IF resizing THEN capacity ELSE size
      /\ UNCHANGED <<clock, store, kind, capacity, ttl, refresh, hits, misses, store_evictions,
                     ops, entered, silent, replaced, lost, short>>
  BY DEF LruTtlChecked, ledger
<1> QED
  BY <1>1 DEF Judges

-----------------------------------------------------------------------------
(* ExpiringLruCache.                                                       *)

\* A hit of ExpiringLruCache: the entry keeps its expiry.
LEMMA ExpiringLruHit ==
  ASSUME IInv, kind = "ExpiringLruCache", Calls, NEW k, Live(k),
         store' = Fronted(k, EntryOf(k).exp), hits' = hits + 1,
         UNCHANGED <<pc, displaced, evictions, entered, replaced, lost>>
  PROVE  \E exp : Touches(k, exp)
<1>1. k \in Held /\ store' = Fronted(k, EntryOf(k).exp)
  BY DEF Live
<1>2. ~refresh
  BY DEF IInv, ProgressInv
<1> QED
  BY <1>1, <1>2 DEF Touches

\* ExpiringLruCache counts the entries it removes.
LEMMA ExpiringLruRemoves ==
  ASSUME Calls, NEW gone, gone \subseteq Held, ExpiringLruRemove(gone),
         UNCHANGED <<hits, pc, displaced, entered, replaced, lost>>
  PROVE  TakesOut(gone)
BY DEF TakesOut, ExpiringLruRemove

\* The lookups of ExpiringLruCache touch an entry, take out an expired one, or
\* find nothing.
LEMMA ExpiringLruGet ==
  ASSUME IInv, kind = "ExpiringLruCache", NEW k \in Keys,
         expiring_lru_cache_get(k) \/ expiring_lru_cache_get_with_expiry_status(k)
  PROVE  Looks \/ (\E exp : Touches(k, exp)) \/ TakesOut({k})
<1>1. Calls /\ UNCHANGED <<pc, displaced, entered, replaced, lost>>
  BY DEF expiring_lru_cache_get, expiring_lru_cache_get_with_expiry_status, Begin,
         settings, progress, ledger, Calls, IInv, BoundedTypeOK
<1>2. CASE /\ Live(k) /\ Hit /\ UNCHANGED evictions
           /\ store' = Fronted(k, EntryOf(k).exp)
  BY <1>1, <1>2, ExpiringLruHit DEF Hit
<1>3. CASE k \in Held /\ Miss /\ ExpiringLruRemove({k})
  <2>1. {k} \subseteq Held
    BY <1>3
  <2> QED
    BY <1>1, <1>3, <2>1, ExpiringLruRemoves DEF Miss
<1>4. CASE Miss /\ UNCHANGED <<store, evictions>>
  BY <1>1, <1>4 DEF Looks, Miss
<1> QED
  BY <1>2, <1>3, <1>4
     DEF expiring_lru_cache_get, expiring_lru_cache_get_with_expiry_status

\* ExpiringLruCache::cache_set puts an entry in.
LEMMA ExpiringLruSet ==
  ASSUME IInv, NEW k \in Keys, NEW exp \in Expiries, expiring_lru_cache_set(k, exp)
  PROVE  PutsIn(k, exp)
<1>1. /\ Calls /\ UNCHANGED <<hits, evictions, replaced, lost>> /\ pc' = "check"
      /\ entered' = entered + 1 /\ store' = Fronted(k, exp)
  BY DEF expiring_lru_cache_set, Begin, settings, metrics, Calls,
         IInv, BoundedTypeOK
<1>2. exp \in Nat \cup {Never}
  BY SMT, BoundedStoreAssumption DEF Expiries
<1>3. displaced' = IF k \in Held THEN EntryOf(k).exp ELSE Absent
  BY DEF expiring_lru_cache_set
<1>4. k \in Held => EntryOf(k).exp \in Nat \cup {Never}
  BY EntryOfFacts DEF IInv, BoundedTypeOK
<1> QED
  BY <1>1, <1>2, <1>3, <1>4 DEF PutsIn

\* get-or-set of ExpiringLruCache touches a live entry or puts one in.
LEMMA ExpiringLruGetOrSet ==
  ASSUME IInv, kind = "ExpiringLruCache", NEW k \in Keys, NEW exp \in Expiries,
         expiring_lru_cache_get_or_set_with_mut(k, exp)
  PROVE  Looks \/ (\E e : Touches(k, e)) \/ PutsIn(k, exp)
<1>1. Calls /\ UNCHANGED <<displaced, replaced, lost>> /\ displaced = Absent
  BY DEF expiring_lru_cache_get_or_set_with_mut, Begin, settings, Calls, IInv,
         BoundedTypeOK, ProgressInv
<1>2. exp \in Nat \cup {Never}
  BY SMT, BoundedStoreAssumption DEF Expiries
<1>3. CASE /\ Live(k) /\ Hit /\ UNCHANGED <<evictions, pc, entered>>
           /\ store' = Fronted(k, EntryOf(k).exp)
  BY <1>1, <1>3, ExpiringLruHit DEF Hit
<1>4. CASE Miss /\ UNCHANGED <<store, evictions, pc, entered>>
  BY <1>1, <1>4 DEF Looks, Miss
<1>5. CASE /\ k \in Held /\ Miss /\ store' = Fronted(k, exp)
           /\ entered' = entered + 1 /\ evictions' = evictions + 1 /\ UNCHANGED pc
  BY <1>1, <1>2, <1>5 DEF PutsIn, Miss, Calls
<1>6. CASE /\ k \notin Held /\ Miss /\ store' = Fronted(k, exp)
           /\ entered' = entered + 1 /\ pc' = "check" /\ UNCHANGED evictions
  BY <1>1, <1>2, <1>6 DEF PutsIn, Miss
<1> QED
  BY <1>3, <1>4, <1>5, <1>6 DEF expiring_lru_cache_get_or_set_with_mut

\* The removals and sweeps of ExpiringLruCache take entries out.
LEMMA ExpiringLruTakes ==
  ASSUME IInv,
         \/ \E k \in Keys : expiring_lru_cache_remove(k) \/ expiring_lru_cache_remove_entry(k)
         \/ \E keep : expiring_lru_retain(keep)
         \/ expiring_lru_cache_clear_with_on_evict
  PROVE  (\E gone : TakesOut(gone)) \/ (\E k : Loses(k))
<1>1. Calls /\ UNCHANGED <<hits, pc, displaced, entered, replaced>>
  BY DEF expiring_lru_cache_remove, expiring_lru_cache_remove_entry, expiring_lru_retain,
         expiring_lru_cache_clear_with_on_evict, Begin, settings,
         progress, ledger, Calls, IInv, BoundedTypeOK
<1>2. ASSUME NEW k \in Keys, expiring_lru_cache_remove(k) \/ expiring_lru_cache_remove_entry(k)
      PROVE  TakesOut({k}) \/ Loses(k)
  <2>1. k \in Held /\ {k} \subseteq Held
    BY <1>2 DEF expiring_lru_cache_remove, expiring_lru_cache_remove_entry
  <2>2. \/ ExpiringLruRemove({k}) /\ lost' = lost
        \/ store' = Without({k}) /\ lost' = lost + 1 /\ evictions' = evictions
    BY <1>2
       DEF expiring_lru_cache_remove, expiring_lru_cache_remove_entry, ledger
  <2> QED
    BY <1>1, <2>1, <2>2, ExpiringLruRemoves DEF Loses
<1>3. ASSUME NEW keep, expiring_lru_retain(keep)
      PROVE  \E gone : TakesOut(gone)
  <2> DEFINE gone == {k \in Held : ~Live(k) \/ k \notin keep}
  <2>1. gone \subseteq Held /\ ExpiringLruRemove(gone) /\ lost' = lost
    BY <1>3 DEF expiring_lru_retain, ledger
  <2> QED
    BY <1>1, <2>1, ExpiringLruRemoves
<1>4. ASSUME expiring_lru_cache_clear_with_on_evict
      PROVE  TakesOut(Held)
  <2>1. ExpiringLruRemove(Held) /\ lost' = lost
    BY <1>4 DEF expiring_lru_cache_clear_with_on_evict, ledger
  <2> QED
    BY <1>1, <2>1, ExpiringLruRemoves
<1> QED
  BY <1>2, <1>3, <1>4

\* The end of check_capacity in ExpiringLruCache judges what was displaced.
LEMMA ExpiringLruKeepsChecked ==
  ASSUME IInv, kind = "ExpiringLruCache", ExpiringLruChecked
  PROVE  Judges
BY DEF ExpiringLruChecked, settings, Judges

-----------------------------------------------------------------------------
(* The theorems.                                                           *)

\* An empty store as it is built satisfies the invariant.
LEMMA InitIInv == Init => IInv
<1> SUFFICES ASSUME Init PROVE IInv
  OBVIOUS
<1>1. store \in Seq(Entries) /\ Distinct(store) /\ Len(store) = 0
  BY SMT DEF Init, Distinct
<1>2. /\ kind \in {"LruTtlCache", "ExpiringLruCache"}
      /\ ttl \in Ttls \/ ttl = 0
      /\ kind = "ExpiringLruCache" => ~refresh
  BY DEF Init
<1>3. ttl \in Nat
  <2>1. \A t \in Ttls : t \in Nat
    BY BoundedStoreAssumption
  <2> QED
    BY SMT, <1>2, <2>1
<1>4. capacity \in Nat /\ size = capacity
  BY SMT, BoundedStoreAssumption DEF Init
<1>5. BoundedTypeOK
  BY <1>1, <1>2, <1>3, <1>4 DEF Init, BoundedTypeOK
<1>6. ProgressInv /\ BoundInv
  BY SMT, <1>1, <1>2, <1>4 DEF Init, ProgressInv, BoundInv
<1>7. CountedOnce
  BY SMT, <1>1 DEF Init, CountedOnce, Counted
<1> QED
  BY <1>5, <1>6, <1>7 DEF IInv

\* What any step of either store does.
LEMMA Steps ==
  ASSUME IInv, [Next]_vars
  PROVE  \/ Looks \/ (\E k, exp : Touches(k, exp))
         \/ (\E gone : TakesOut(gone)) \/ (\E k : Loses(k))
         \/ (\E k, exp : PutsIn(k, exp))
         \/ Judges \/ CheckCapacity
         \/ \E n \in Nat : SetMaxSize(n)
         \/ cache_clear \/ \E clears \in BOOLEAN : cache_reset(clears)
         \/ Tick \/ UNCHANGED vars
<1>1. \A n \in 0..MaxSize : n \in Nat
  BY SMT, BoundedStoreAssumption
<1>2. ASSUME kind = "LruTtlCache", LruTtlNext
      PROVE  \/ Looks \/ (\E k, exp : Touches(k, exp)) \/ (\E gone : TakesOut(gone))
             \/ (\E k, exp : PutsIn(k, exp)) \/ Judges
             \/ \E n \in Nat : SetMaxSize(n)
  <2>1. CASE \E k \in Keys : lru_ttl_cache_get(k) \/ lru_ttl_cache_get_with_expiry_status(k)
    BY <2>1, LruTtlGet
  <2>2. CASE \E k \in Keys : lru_ttl_cache_set(k)
    BY <2>2, LruTtlSet
  <2>3. CASE \E k \in Keys : lru_ttl_cache_get_or_set_with(k)
    BY <2>3, LruTtlGetOrSet
  <2>4. CASE \/ \E k \in Keys : lru_ttl_cache_remove(k)
             \/ \E keep : lru_ttl_retain(keep)
             \/ lru_ttl_cache_clear_with_on_evict
    BY <2>4, LruTtlTakes
  <2>5. CASE \E n \in 0..MaxSize : lru_ttl_set_max_size(n)
    BY <1>1, <2>5 DEF lru_ttl_set_max_size, SetMaxSize, Begin, metrics, ledger
  <2> QED
    BY <1>2, <2>1, <2>2, <2>3, <2>4, <2>5, LruTtlConfigures, LruTtlKeepsChecked DEF LruTtlNext
<1>3. ASSUME kind = "ExpiringLruCache", ExpiringLruNext
      PROVE  \/ Looks \/ (\E k, exp : Touches(k, exp)) \/ (\E gone : TakesOut(gone))
             \/ (\E k : Loses(k)) \/ (\E k, exp : PutsIn(k, exp)) \/ Judges
             \/ \E n \in Nat : SetMaxSize(n)
  <2>1. CASE \E k \in Keys : expiring_lru_cache_get(k) \/ expiring_lru_cache_get_with_expiry_status(k)
    BY <1>3, <2>1, ExpiringLruGet
  <2>2. CASE \E k \in Keys, exp \in Expiries : expiring_lru_cache_set(k, exp)
    BY <2>2, ExpiringLruSet
  <2>3. CASE \E k \in Keys, exp \in Expiries : expiring_lru_cache_get_or_set_with_mut(k, exp)
    BY <1>3, <2>3, ExpiringLruGetOrSet
  <2>4. CASE \/ \E k \in Keys : expiring_lru_cache_remove(k) \/ expiring_lru_cache_remove_entry(k)
             \/ \E keep : expiring_lru_retain(keep)
             \/ expiring_lru_cache_clear_with_on_evict
    BY <2>4, ExpiringLruTakes
  <2>5. CASE \E n \in 0..MaxSize : expiring_lru_set_max_size(n)
    BY <1>1, <2>5 DEF expiring_lru_set_max_size, SetMaxSize, Begin, metrics, ledger
  <2> QED
    BY <1>3, <2>1, <2>2, <2>3, <2>4, <2>5, ExpiringLruKeepsChecked DEF ExpiringLruNext
<1>4. Done => UNCHANGED vars
  BY DEF Done
<1> QED
  BY <1>2, <1>3, <1>4 DEF Next, Common

\* Every step of either store keeps the invariant.
LEMMA NextIInv == IInv /\ [Next]_vars => IInv'
<1> SUFFICES ASSUME IInv, [Next]_vars PROVE IInv'
  OBVIOUS
<1> QED
  BY Steps, LooksKeeps, TouchesKeeps, TakesOutKeeps, LosesKeeps, PutsInKeeps, JudgesKeeps,
     CheckCapacityKeeps, SetMaxSizeKeeps, ClearKeeps, TickKeeps

\* The invariant holds throughout.
LEMMA Invariant == Spec => []IInv
BY InitIInv, NextIInv, PTL DEF Spec

\* Each entry that left LruTtlCache or ExpiringLruCache was cleared, handed
\* back, counted by the inner store or by the wrapper, or lost to a panicking
\* is_expired, exactly once, as long as no panic cut a set_max_size short.
THEOREM DeparturesCountedOnce == Spec => []CountedOnce
<1>1. IInv => CountedOnce
  BY DEF IInv
<1> QED
  BY <1>1, Invariant, PTL

\* Between calls the store holds no more than its capacity, and LruTtlCache's
\* second copy of the bound agrees with it, as long as no panic cut a
\* set_max_size short.
THEOREM CapacityReported == Spec => []WithinReported
<1>1. IInv => WithinReported
  BY DEF IInv, BoundInv, ProgressInv, WithinReported
<1> QED
  BY <1>1, Invariant, PTL

\* The deadline of an entry moves only when the entry is stored anew or by a hit
\* that refreshes under a TTL, and then to the whole TTL from now, or past the
\* end of time.
THEOREM DeadlinesKept == Spec => DeadlineKept
<1> DEFINE renews == hits' > hits /\ refresh /\ ttl # 0
           Same == \A i \in DOMAIN store, j \in DOMAIN store' :
                      store[i].key = store'[j].key => store[i].exp = store'[j].exp
           Kept == /\ entered' = entered =>
                         \A i \in DOMAIN store, j \in DOMAIN store' :
                            store[i].key = store'[j].key /\ store[i].exp # store'[j].exp => renews
                   /\ renews => Head(store').exp = Deadline
<1>1. ASSUME IInv, [Next]_vars PROVE Kept
  <2>1. store \in Seq(Entries) /\ Distinct(store) /\ hits \in Nat
    BY <1>1 DEF IInv, BoundedTypeOK
  <2>2. ASSUME hits' = hits \/ hits' = 0 PROVE ~renews
    BY SMT, <2>1, <2>2
  <2>3. ASSUME \A j \in DOMAIN store' : \E i \in DOMAIN store : store'[j] = store[i]
        PROVE  Same
    BY <2>1, <2>3 DEF Distinct
  <2>4. ASSUME ~renews, Same \/ entered' = entered + 1 PROVE Kept
    <3>1. entered \in Nat
      BY <1>1 DEF IInv, BoundedTypeOK
    <3>2. entered' = entered + 1 => entered' # entered
      BY SMT, <3>1
    <3> HIDE DEF renews
    <3> QED
      BY <2>4, <3>2
  <2>5. ASSUME NEW k, NEW exp, Touches(k, exp) PROVE Kept
    <3>1. k \in Held /\ store' = Fronted(k, exp)
      BY <2>5 DEF Touches
    <3>2. /\ k \in Keys /\ EntryOf(k).exp \in Nat \cup {Never}
          /\ \A i \in DOMAIN store : store[i].key = k => store[i] = EntryOf(k)
      BY <2>1, <3>1, EntryOfFacts
    <3>3. exp \in Nat \cup {Never}
      BY SMTT(30), <1>1, <2>5, <3>2, BoundedStoreAssumption DEF Touches, Deadline, IInv, BoundedTypeOK
    <3>4. /\ Head(store').exp = exp
          /\ \A j \in DOMAIN store' : \/ store'[j] = [key |-> k, exp |-> exp]
                                      \/ \E i \in DOMAIN store : store'[j] = store[i]
      BY <2>1, <3>1, <3>2, <3>3, FrontedFacts
    <3>5. CASE refresh /\ ttl # 0 /\ exp = Deadline
      <4>1. renews
        BY SMT, <2>1, <2>5, <3>5 DEF Touches
      <4> HIDE DEF renews
      <4> QED
        BY <3>4, <3>5, <4>1
    <3>6. CASE ~(refresh /\ ttl # 0) /\ exp = EntryOf(k).exp
      <4>1. Same
        BY SMT, <2>1, <3>2, <3>4, <3>6 DEF Distinct
      <4>2. ~renews
        BY <3>6
      <4> QED
        BY <2>4, <4>1, <4>2
    <3> QED
      BY <2>5, <3>5, <3>6 DEF Touches
  <2>6. ASSUME Looks \/ Judges \/ Tick \/ (\E n \in Nat : SetMaxSize(n)) \/ UNCHANGED vars PROVE Kept
    <3>1. store' = store /\ hits' = hits
      BY <2>6 DEF Looks, Judges, Tick, SetMaxSize, vars, metrics
    <3> QED
      BY <2>2, <2>3, <2>4, <3>1
  <2>7. ASSUME NEW gone, store' = Without(gone), hits' = hits PROVE Kept
    <3>1. \A j \in DOMAIN Without(gone) : \E i \in DOMAIN store : Without(gone)[j] = store[i]
      BY <2>1, WithoutFacts
    <3> QED
      BY <2>2, <2>3, <2>4, <2>7, <3>1
  <2>8. ASSUME NEW k, NEW exp, PutsIn(k, exp) PROVE Kept
    BY <2>2, <2>4, <2>8 DEF PutsIn
  <2>9. ASSUME CheckCapacity PROVE Kept
    <3>1. store' = SubSeq(store, 1, Len(store) - 1) /\ hits' = hits
          /\ Len(store) > capacity /\ capacity \in Nat /\ Len(store) \in Nat
      BY SMT, <1>1, <2>9 DEF CheckCapacity, IInv, BoundedTypeOK
    <3>2. \A j \in DOMAIN store' : j \in DOMAIN store /\ store'[j] = store[j]
      BY SMT, <2>1, <3>1
    <3> QED
      BY <2>2, <2>3, <2>4, <3>1, <3>2
  <2>10. ASSUME cache_clear \/ \E clears \in BOOLEAN : cache_reset(clears) PROVE Kept
    <3>1. /\ store' = <<>> \/ store' = store
          /\ hits' = hits \/ hits' = 0
      BY <2>10 DEF cache_clear, cache_reset, metrics
    <3>2. Same
      BY SMT, <2>3, <3>1
    <3> QED
      BY <2>2, <2>4, <3>1, <3>2
  <2> HIDE DEF Kept
  <2> QED
    BY <1>1, <2>5, <2>6, <2>7, <2>8, <2>9, <2>10, Steps DEF TakesOut, Loses
<1>2. IInv /\ [Next]_vars => [Kept]_vars
  BY <1>1
<1> QED
  BY <1>2, Invariant, PTL DEF Spec, DeadlineKept, Deadline
=============================================================================
