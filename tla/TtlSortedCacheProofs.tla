------------------------ MODULE TtlSortedCacheProofs ------------------------
(***************************************************************************)
(* What TtlSortedCache keeps for any keys, TTLs and size limits, with a    *)
(* callback that may panic at any turn of a trim.                          *)
(***************************************************************************)
EXTENDS TtlSortedCache, FiniteSetTheorems, WellFoundedInduction, TLAPS

Expiry == Nat \cup {Never}

TypeOK ==
    /\ clock \in Nat
    /\ map \in [Keys -> Expiry \cup {Absent}]
    /\ ttl \in Nat /\ size_limit \in (Nat \ {0}) \cup {NoLimit}
    /\ evictions \in Nat /\ entered \in Nat /\ silent \in Nat /\ replaced \in Nat
    /\ pc \in {"idle", "trim"}
    /\ trim \in [drop : Nat, cutoff : Expiry, protected : Keys \cup {NoStamp}]
    /\ resizing \in BOOLEAN
    /\ IsFiniteSet(Held)

\* A trim that follows a set has at most one entry too many to drop, and drops
\* enough for the limit: a panic after its first victim leaves the limit kept.
TrimInv ==
    pc = "trim" /\ size_limit # NoLimit /\ ~resizing =>
        cache_size <= size_limit + 1 /\ cache_size <= size_limit + trim.drop

IInv == TypeOK /\ Lockstep /\ EvictionsExact /\ ProtectedStays /\ WithinLimit /\ TrimInv

-----------------------------------------------------------------------------

\* The least element of a set of naturals.
LEMMA LeastNatural ==
    ASSUME NEW T, T \subseteq Nat, T # {}
    PROVE  \E n \in T : \A m \in T : n <= m
<1> DEFINE R == OpToRel(<, Nat)
<1>1. IsWellFoundedOn(R, Nat)
  BY NatLessThanWellFounded
<1>2. \A x, y \in Nat : x < y => <<x, y>> \in R
  BY DEF OpToRel
<1> HIDE DEF R
<1>3. \E n \in T : \A m \in T : ~(<<m, n>> \in R)
  BY <1>1, WFMin
<1>4. PICK n \in T : \A m \in T : ~(<<m, n>> \in R)
  BY <1>3
<1>5. \A m \in T : ~(m < n)
  BY <1>2, <1>4
<1>6. \A m \in T : n <= m
  BY <1>5
<1> QED
  BY <1>6

\* The keys that may be dropped; their stamps are the candidates.
Droppable == {k \in Held : k # trim.protected}

\* In lockstep a candidate is the stamp of a droppable key.
LEMMA CandidatesAre ==
    ASSUME Lockstep
    PROVE  Candidates = {as_stamped(k) : k \in Droppable}
BY DEF Lockstep, Candidates, Droppable, as_stamped

\* pop_first_unprotected finds a first stamp: Stamped::cmp is a total order on
\* the stamps of different keys.
LEMMA FirstIsFirst ==
    ASSUME TypeOK, Lockstep, Candidates # {}
    PROVE  /\ First \in Candidates
           /\ \A r \in Candidates \ {First} : Before(First, r)
<1> DEFINE Mortal == {k \in Droppable : map[k] # Never}
<1>0. Droppable # {} /\ Droppable \subseteq Keys /\ Droppable \subseteq Nat
      /\ \A k \in Droppable : map[k] \in Expiry
  BY CandidatesAre, TtlSortedAssumption DEF Droppable, Held, TypeOK
<1>1. \E k \in Droppable : \A j \in Droppable \ {k} : Before(as_stamped(k), as_stamped(j))
  <2>1. CASE Mortal = {}
    <3>1. PICK k \in Droppable : \A j \in Droppable : k <= j
      BY <1>0, LeastNatural
    <3>2. \A j \in Droppable \ {k} : k < j /\ map[j] = Never /\ map[k] = Never
      BY <1>0, <2>1, <3>1
    <3> QED
      BY <3>2 DEF Before, as_stamped
  <2>2. CASE Mortal # {}
    <3> DEFINE E == {map[k] : k \in Mortal}
    <3>1. E \subseteq Nat /\ E # {}
      BY <1>0, <2>2 DEF Expiry
    <3>2. PICK e \in E : \A m \in E : e <= m
      BY <3>1, LeastNatural
    <3> DEFINE K == {k \in Mortal : map[k] = e}
    <3>3. K \subseteq Nat /\ K # {}
      BY <1>0, <3>2
    <3>4. PICK k \in K : \A j \in K : k <= j
      BY <3>3, LeastNatural
    <3>5. e \in Nat /\ e # Never
      BY <3>1, <3>2, TtlSortedAssumption
    <3>6. ASSUME NEW j \in Droppable \ {k}
          PROVE  Before(as_stamped(k), as_stamped(j))
      <4>1. map[k] = e
        BY <3>4
      <4>2. CASE map[j] = Never
        BY <3>5, <4>1, <4>2 DEF Before, as_stamped
      <4>3. CASE map[j] # Never /\ map[j] # e
        <5>1. map[j] \in E /\ map[j] \in Nat
          BY <1>0, <4>3 DEF Expiry
        <5>2. e < map[j]
          BY <3>2, <3>5, <4>3, <5>1
        <5> QED
          BY <3>5, <4>1, <4>3, <5>2 DEF Before, as_stamped
      <4>4. CASE map[j] = e
        <5>1. j \in K /\ j \in Nat /\ k \in Nat /\ j # k
          BY <1>0, <3>3, <3>4, <3>5, <4>4
        <5>2. k < j
          BY <3>4, <5>1
        <5> QED
          BY <4>1, <4>4, <5>2 DEF Before, as_stamped
      <4> QED
        BY <4>2, <4>3, <4>4
    <3> QED
      BY <3>4, <3>6
  <2> QED
    BY <2>1, <2>2
<1>2. PICK k \in Droppable : \A j \in Droppable \ {k} : Before(as_stamped(k), as_stamped(j))
  BY <1>1
<1>3. as_stamped(k) \in Candidates
      /\ \A r \in Candidates \ {as_stamped(k)} : Before(as_stamped(k), r)
  BY <1>2, CandidatesAre
<1> QED
  BY <1>3 DEF First

-----------------------------------------------------------------------------

\* The number of entries is a number.
LEMMA SizeIsNat == TypeOK => cache_size \in Nat
BY FS_CardinalityType DEF TypeOK, cache_size

\* Removing entries keeps map and index in step and counts what it removes.
LEMMA RemovedKeeps ==
    ASSUME IInv, NEW gone \in SUBSET Held, Removed(gone)
    PROVE  /\ map' \in [Keys -> Expiry \cup {Absent}]
           /\ Held' = Held \ gone
           /\ Lockstep'
           /\ IsFiniteSet(Held') /\ cache_size' \in Nat /\ cache_size' <= cache_size
           /\ evictions' \in Nat
           /\ cache_size' + evictions' = cache_size + evictions
<1>1. map' \in [Keys -> Expiry \cup {Absent}] /\ Held' = Held \ gone
  BY DEF Removed, IInv, TypeOK, Held
<1>2. Lockstep'
  <2>1. \A k \in Keys : k \notin gone => map'[k] = map[k]
    BY DEF Removed
  <2>2. keys = {[expiry |-> map[k], key |-> k] : k \in Held}
        /\ keys' = keys \ {[expiry |-> map[k], key |-> k] : k \in gone}
    BY DEF Removed, IInv, Lockstep, as_stamped
  <2>3. keys' = {[expiry |-> map[k], key |-> k] : k \in Held \ gone}
    BY <2>2
  <2>4. keys' = {[expiry |-> map'[k], key |-> k] : k \in Held \ gone}
    BY <2>1, <2>3 DEF Held
  <2> QED
    BY <1>1, <2>4 DEF Lockstep, as_stamped
<1>3. IsFiniteSet(Held) /\ Held \cap gone = gone /\ IsFiniteSet(gone)
  BY FS_Subset DEF IInv, TypeOK
<1>4. IsFiniteSet(Held \ gone) /\ Cardinality(Held \ gone) = Cardinality(Held) - Cardinality(gone)
  BY <1>3, FS_Difference
<1>5. Cardinality(gone) \in Nat /\ Cardinality(Held) \in Nat /\ Cardinality(Held \ gone) \in Nat
  BY <1>3, <1>4, FS_CardinalityType
<1>6. evictions \in Nat /\ evictions' = evictions + Cardinality(gone)
  BY DEF Removed, IInv, TypeOK
<1>7. cache_size = Cardinality(Held) /\ cache_size' = Cardinality(Held \ gone)
  BY <1>1 DEF cache_size
<1> QED
  BY <1>1, <1>2, <1>4, <1>5, <1>6, <1>7

\* An empty cache: nothing in the map, nothing in the index.
LEMMA ClearedKeeps ==
    ASSUME map' = [k \in Keys |-> Absent], keys' = {}
    PROVE  /\ map' \in [Keys -> Expiry \cup {Absent}]
           /\ Held' = {} /\ Lockstep'
           /\ IsFiniteSet(Held') /\ cache_size' = 0
<1>1. Held' = {}
  BY DEF Held
<1> QED
  BY <1>1, FS_EmptySet DEF Lockstep, cache_size

\* Storing an entry keeps map and index in step and accounts for the entry it
\* displaces.
LEMMA StoredKeeps ==
    ASSUME IInv, NEW k \in Keys, NEW e \in Expiry, Stored(k, e)
    PROVE  /\ map' \in [Keys -> Expiry \cup {Absent}]
           /\ Held' = Held \cup {k}
           /\ Lockstep'
           /\ IsFiniteSet(Held') /\ cache_size' \in Nat /\ cache_size' <= cache_size + 1 /\ cache_size' = Cardinality(Held \cup {k})
           /\ k \in Held => cache_size' = cache_size
           /\ evictions' \in Nat /\ replaced' \in Nat /\ entered' = entered + 1
           /\ cache_size' + replaced' + evictions' = cache_size + replaced + evictions + 1
<1>0. e # Absent /\ map \in [Keys -> Expiry \cup {Absent}]
  BY TtlSortedAssumption DEF Expiry, IInv, TypeOK
<1>1. map' \in [Keys -> Expiry \cup {Absent}] /\ Held' = Held \cup {k}
  BY <1>0 DEF Stored, Held
<1>2. Lockstep'
  <2>1. map'[k] = e /\ \A j \in Keys \ {k} : map'[j] = map[j]
    BY <1>0 DEF Stored
  <2>2. keys = {[expiry |-> map[j], key |-> j] : j \in Held}
    BY DEF IInv, Lockstep, as_stamped
  <2>3. keys' = {[expiry |-> map[j], key |-> j] : j \in Held \ {k}} \cup {[expiry |-> e, key |-> k]}
    <3>1. CASE map[k] # Absent /\ map[k] # e
      <4>1. keys' = (keys \cup {[expiry |-> e, key |-> k]}) \ {[expiry |-> map[k], key |-> k]}
        BY <3>1 DEF Stored, Indexed, as_stamped
      <4> QED
        BY <2>2, <3>1, <4>1
    <3>2. CASE map[k] = Absent \/ map[k] = e
      <4>1. keys' = keys \cup {[expiry |-> e, key |-> k]}
        BY <3>2 DEF Stored, Indexed
      <4> QED
        BY <2>2, <3>2, <4>1 DEF Held
    <3> QED
      BY <3>1, <3>2
  <2>4. keys' = {[expiry |-> map'[j], key |-> j] : j \in Held \cup {k}}
    BY <2>1, <2>3 DEF Held
  <2> QED
    BY <1>1, <2>4 DEF Lockstep, as_stamped
<1>3. IsFiniteSet(Held \cup {k})
      /\ Cardinality(Held \cup {k}) = IF k \in Held THEN Cardinality(Held) ELSE Cardinality(Held) + 1
  BY FS_AddElement DEF IInv, TypeOK
<1>4. cache_size \in Nat /\ cache_size = Cardinality(Held) /\ cache_size' = Cardinality(Held \cup {k})
  BY <1>1, SizeIsNat DEF cache_size, IInv
<1>5. cache_size' = IF k \in Held THEN cache_size ELSE cache_size + 1
  BY <1>3, <1>4
<1>6. evictions \in Nat /\ replaced \in Nat
  BY DEF IInv, TypeOK
<1>7. CASE k \notin Held
  <2>1. evictions' = evictions /\ replaced' = replaced
    BY <1>7 DEF Held, Stored, Stale, Live
  <2> QED
    BY <1>1, <1>2, <1>3, <1>4, <1>5, <1>6, <1>7, <2>1 DEF Stored
<1>8. CASE k \in Held
  <2>1. \/ evictions' = evictions + 1 /\ replaced' = replaced
        \/ evictions' = evictions /\ replaced' = replaced + 1
    BY <1>8 DEF Held, Stored
  <2> QED
    BY <1>1, <1>2, <1>3, <1>4, <1>5, <1>6, <1>8, <2>1 DEF Stored
<1> QED
  BY <1>7, <1>8

-----------------------------------------------------------------------------

\* What the invariant says of the entries alone.
EntriesOK ==
    /\ map \in [Keys -> Expiry \cup {Absent}]
    /\ IsFiniteSet(Held)
    /\ Lockstep
    /\ evictions \in Nat /\ entered \in Nat /\ silent \in Nat /\ replaced \in Nat
    /\ EvictionsExact

\* Removals keep the entries in order.
LEMMA RemovalOK ==
    ASSUME IInv, NEW gone \in SUBSET Held, Removed(gone), UNCHANGED <<entered, silent, replaced>>
    PROVE  EntriesOK' /\ cache_size' \in Nat /\ cache_size' <= cache_size /\ Held' = Held \ gone
<1>1. entered = cache_size + silent + replaced + evictions /\ cache_size \in Nat
      /\ silent \in Nat /\ replaced \in Nat /\ evictions \in Nat /\ entered \in Nat
  BY SizeIsNat DEF IInv, TypeOK, EvictionsExact
<1>2. entered' = cache_size' + silent' + replaced' + evictions'
  BY <1>1, RemovedKeeps
<1> QED
  BY <1>1, <1>2, RemovedKeeps DEF EntriesOK, EvictionsExact

\* So does storing an entry.
LEMMA StoreOK ==
    ASSUME IInv, NEW k \in Keys, NEW e \in Expiry, Stored(k, e), silent' = silent
    PROVE  EntriesOK'
<1>1. entered = cache_size + silent + replaced + evictions /\ cache_size \in Nat
      /\ silent \in Nat /\ replaced \in Nat /\ evictions \in Nat /\ entered \in Nat
  BY SizeIsNat DEF IInv, TypeOK, EvictionsExact
<1>m. map' \in [Keys -> Expiry \cup {Absent}] /\ Lockstep' /\ IsFiniteSet(Held')
  BY StoredKeeps
<1>2. /\ cache_size' \in Nat /\ evictions' \in Nat /\ replaced' \in Nat /\ entered' = entered + 1
      /\ cache_size' + replaced' + evictions' = cache_size + replaced + evictions + 1
  BY StoredKeeps
<1>3. silent' = silent /\ silent' \in Nat /\ entered' \in Nat
  BY <1>1, <1>2
<1>4. entered' = (cache_size + replaced + evictions + 1) + silent
  BY <1>1, <1>2
<1>5. entered' = (cache_size' + replaced' + evictions') + silent'
  BY <1>2, <1>3, <1>4
<1>6. entered' = cache_size' + silent' + replaced' + evictions'
  <2>1. cache_size' \in Nat /\ silent' \in Nat /\ replaced' \in Nat /\ evictions' \in Nat
    BY <1>2, <1>3
  <2> QED
    BY <1>5, <2>1
<1> QED
  BY <1>m, <1>1, <1>2, <1>3, <1>6 DEF EntriesOK, EvictionsExact

\* And leaving them alone.
LEMMA SameOK ==
    ASSUME IInv, UNCHANGED <<map, keys, evictions, entered, silent, replaced>>
    PROVE  EntriesOK' /\ cache_size' = cache_size /\ Held' = Held
<1>1. Held' = Held
  BY DEF Held
<1>2. cache_size' = cache_size
  BY <1>1 DEF cache_size
<1> QED
  BY <1>1, <1>2 DEF EntriesOK, IInv, TypeOK, Lockstep, as_stamped, EvictionsExact

\* An operation that ends without a trim.
LEMMA QuietKeeps ==
    ASSUME IInv, pc = "idle", UNCHANGED <<pc, trim, size_limit, resizing>>,
           clock' \in Nat, ttl' \in Nat, EntriesOK', WithinLimit'
    PROVE  IInv'
BY DEF IInv, TypeOK, EntriesOK, ProtectedStays, TrimInv

\* An operation that has removed entries and ends without a trim.
LEMMA RemovingKeeps ==
    ASSUME IInv, Begin, NEW gone \in SUBSET Held, Removed(gone),
           UNCHANGED <<pc, trim, ttl, size_limit, entered, silent, replaced, resizing>>
    PROVE  IInv'
<1>1. EntriesOK' /\ cache_size' \in Nat /\ cache_size' <= cache_size /\ pc = "idle" /\ clock' \in Nat /\ ttl' \in Nat
  BY RemovalOK DEF Begin, IInv, TypeOK
<1>2. WithinLimit'
  BY <1>1, SizeIsNat DEF IInv, TypeOK, WithinLimit
<1> QED
  BY <1>1, <1>2, QuietKeeps

\* An operation that changes no entry and ends without a trim.
LEMMA ReadingKeeps ==
    ASSUME IInv, Begin, UNCHANGED <<map, keys, evictions, entered, silent, replaced>>,
           UNCHANGED <<pc, trim, size_limit, resizing>>, ttl' \in Nat
    PROVE  IInv'
<1>1. EntriesOK' /\ cache_size' = cache_size /\ pc = "idle" /\ clock' \in Nat
  BY SameOK DEF Begin, IInv, TypeOK
<1>2. WithinLimit'
  BY <1>1 DEF IInv, WithinLimit
<1> QED
  BY <1>1, <1>2, QuietKeeps

\* What a trim is to drop is a number, and enough for its count.
LEMMA OverIs ==
    ASSUME NEW n \in Nat, NEW count \in Nat
    PROVE  Over(n, count) \in Nat /\ n <= count + Over(n, count) /\ (n <= count => Over(n, count) = 0)
BY DEF Over

\* A trim that begins is well formed.
LEMMA TrimToIs ==
    ASSUME NEW n \in Nat, NEW count \in Nat, NEW cutoff \in Expiry,
           NEW protected \in Keys \cup {NoStamp}, TrimTo(n, count, cutoff, protected)
    PROVE  /\ pc' = "trim"
           /\ trim' \in [drop : Nat, cutoff : Expiry, protected : Keys \cup {NoStamp}]
           /\ trim'.protected = protected /\ n <= count + trim'.drop
BY OverIs DEF TrimTo

\* An operation that goes on to trim.
LEMMA TrimKeeps ==
    ASSUME IInv, pc' = "trim",
           trim' \in [drop : Nat, cutoff : Expiry, protected : Keys \cup {NoStamp}],
           size_limit' \in (Nat \ {0}) \cup {NoLimit}, resizing' \in BOOLEAN,
           clock' \in Nat, ttl' \in Nat, EntriesOK', ProtectedStays', TrimInv'
    PROVE  IInv'
BY DEF IInv, TypeOK, EntriesOK, WithinLimit

\* The deadline of a new entry.
LEMMA ExpiryIs ==
    ASSUME TypeOK, NEW d \in Nat
    PROVE  expiry_for(d) \in Expiry
BY DEF expiry_for, Expiry, TypeOK

\* cache_set keeps the invariant, also when on_evict panics on what it displaced.
LEMMA SetKeeps ==
    ASSUME IInv, NEW k \in Keys, cache_set(k)
    PROVE  IInv'
<1>1. PICK d \in Ttls \cup {ttl}, ev \in BOOLEAN :
          LET cutoff == IF ev THEN clock ELSE Never IN
          /\ Stored(k, expiry_for(d))
          /\ \/ DisplacedPanics(k)
             \/ size_limit # NoLimit /\ TrimTo(Cardinality(Held \cup {k}), size_limit, cutoff, NoStamp)
             \/ size_limit = NoLimit /\ ev /\ TrimTo(0, 0, cutoff, NoStamp)
             \/ size_limit = NoLimit /\ ~ev /\ UNCHANGED <<pc, trim>>
  BY DEF cache_set
<1> DEFINE cutoff == IF ev THEN clock ELSE Never
           e == expiry_for(d)
<1>2. e \in Expiry /\ Stored(k, e)
  BY <1>1, ExpiryIs, TtlSortedAssumption DEF IInv, TypeOK
<1>3. /\ pc = "idle" /\ clock' = clock /\ clock' \in Nat /\ ttl' \in Nat
      /\ size_limit' = size_limit /\ resizing' = resizing /\ silent' = silent
      /\ size_limit \in (Nat \ {0}) \cup {NoLimit} /\ resizing \in BOOLEAN
      /\ cutoff \in Expiry /\ NoStamp \in Keys \cup {NoStamp}
  BY DEF cache_set, Begin, IInv, TypeOK, Expiry
<1> HIDE DEF e, cutoff
<1>4. EntriesOK'
  BY <1>2, <1>3, StoreOK
<1>5. /\ cache_size \in Nat /\ cache_size' \in Nat /\ cache_size' <= cache_size + 1
      /\ cache_size' = Cardinality(Held \cup {k}) /\ (k \in Held => cache_size' = cache_size)
  BY <1>2, StoredKeeps, SizeIsNat DEF IInv
<1>6. size_limit # NoLimit /\ ~resizing => cache_size <= size_limit
  BY <1>3 DEF IInv, WithinLimit
<1>7. CASE DisplacedPanics(k)
  <2>1. k \in Held /\ pc' = pc /\ trim' = trim
    BY <1>7 DEF DisplacedPanics, Stale, Held
  <2>2. WithinLimit'
    BY <1>3, <1>5, <1>6, <2>1 DEF WithinLimit
  <2> QED
    BY <1>3, <1>4, <2>1, <2>2, QuietKeeps
<1>8. CASE size_limit # NoLimit /\ TrimTo(Cardinality(Held \cup {k}), size_limit, cutoff, NoStamp)
  <2>1. TrimTo(cache_size', size_limit, cutoff, NoStamp) /\ size_limit \in Nat
    BY <1>3, <1>5, <1>8
  <2>2. /\ pc' = "trim"
        /\ trim' \in [drop : Nat, cutoff : Expiry, protected : Keys \cup {NoStamp}]
        /\ trim'.protected = NoStamp /\ cache_size' <= size_limit + trim'.drop
    BY <1>3, <1>5, <2>1, TrimToIs
  <2>3. TrimInv' /\ ProtectedStays'
    BY <1>3, <1>5, <1>6, <2>1, <2>2 DEF TrimInv, ProtectedStays
  <2> QED
    BY <1>3, <1>4, <2>2, <2>3, TrimKeeps
<1>9. CASE size_limit = NoLimit /\ TrimTo(0, 0, cutoff, NoStamp)
  <2>1. /\ pc' = "trim"
        /\ trim' \in [drop : Nat, cutoff : Expiry, protected : Keys \cup {NoStamp}]
        /\ trim'.protected = NoStamp
    BY <1>3, <1>9, TrimToIs
  <2>2. TrimInv' /\ ProtectedStays'
    BY <1>3, <1>9, <2>1 DEF TrimInv, ProtectedStays
  <2> QED
    BY <1>3, <1>4, <2>1, <2>2, TrimKeeps
<1>10. CASE size_limit = NoLimit /\ UNCHANGED <<pc, trim>>
  <2>1. WithinLimit'
    BY <1>3, <1>10 DEF WithinLimit
  <2> QED
    BY <1>3, <1>4, <1>10, <2>1, QuietKeeps
<1> QED
  BY <1>1, <1>7, <1>8, <1>9, <1>10 DEF cutoff

\* The get-or-set operations keep it: the entry to be returned is protected.
LEMMA GetOrSetKeeps ==
    ASSUME IInv, NEW k \in Keys, cache_get_or_set_with(k)
    PROVE  IInv'
<1> DEFINE e == expiry_for(ttl)
           n == Cardinality(Held \cup {k})
<1>1. CASE UNCHANGED <<map, keys, evictions, pc, trim, entered, replaced>>
  <2>1. Begin /\ UNCHANGED <<map, keys, evictions, entered, silent, replaced>>
        /\ UNCHANGED <<pc, trim, size_limit, resizing>> /\ ttl' \in Nat
    BY <1>1 DEF cache_get_or_set_with, IInv, TypeOK
  <2> QED
    BY <2>1, ReadingKeeps
<1>2. CASE /\ Stored(k, e)
           /\ \/ DisplacedPanics(k)
              \/ size_limit # NoLimit /\ n > size_limit /\ TrimTo(n, size_limit, Never, k)
              \/ (size_limit # NoLimit => n <= size_limit) /\ UNCHANGED <<pc, trim>>
  <2>1. e \in Expiry /\ Never \in Expiry
    BY ExpiryIs DEF IInv, TypeOK, Expiry
  <2>2. /\ pc = "idle" /\ clock' \in Nat /\ ttl' \in Nat
        /\ size_limit' = size_limit /\ resizing' = resizing /\ silent' = silent
        /\ size_limit \in (Nat \ {0}) \cup {NoLimit} /\ resizing \in BOOLEAN
    BY DEF cache_get_or_set_with, Begin, IInv, TypeOK
  <2> HIDE DEF e
  <2>3. EntriesOK'
    BY <1>2, <2>1, <2>2, StoreOK
  <2>4. /\ cache_size \in Nat /\ cache_size' \in Nat /\ cache_size' <= cache_size + 1
        /\ cache_size' = n /\ (k \in Held => cache_size' = cache_size) /\ k \in Held'
    BY <1>2, <2>1, StoredKeeps, SizeIsNat DEF IInv
  <2>5. size_limit # NoLimit /\ ~resizing => cache_size <= size_limit
    BY <2>2 DEF IInv, WithinLimit
  <2> HIDE DEF n
  <2>6. CASE DisplacedPanics(k)
    <3>1. k \in Held /\ pc' = pc /\ trim' = trim
      BY <2>6 DEF DisplacedPanics, Stale, Held
    <3>2. WithinLimit'
      BY <2>2, <2>4, <2>5, <3>1 DEF WithinLimit
    <3> QED
      BY <2>2, <2>3, <3>1, <3>2, QuietKeeps
  <2>7. CASE size_limit # NoLimit /\ TrimTo(n, size_limit, Never, k)
    <3>1. /\ pc' = "trim" /\ size_limit \in Nat
          /\ trim' \in [drop : Nat, cutoff : Expiry, protected : Keys \cup {NoStamp}]
          /\ trim'.protected = k /\ n <= size_limit + trim'.drop
      BY <2>1, <2>2, <2>4, <2>7, TrimToIs
    <3>2. TrimInv'
      BY <2>2, <2>4, <2>5, <2>7, <3>1 DEF TrimInv
    <3>3. ProtectedStays'
      BY <2>4, <3>1 DEF ProtectedStays, Held
    <3> QED
      BY <2>2, <2>3, <3>1, <3>2, <3>3, TrimKeeps
  <2>8. CASE (size_limit # NoLimit => n <= size_limit) /\ UNCHANGED <<pc, trim>>
    <3>1. WithinLimit'
      BY <2>2, <2>4, <2>8 DEF WithinLimit
    <3> QED
      BY <2>2, <2>3, <2>8, <3>1, QuietKeeps
  <2> QED
    BY <1>2, <2>6, <2>7, <2>8
<1> QED
  BY <1>1, <1>2 DEF cache_get_or_set_with

\* The victim of a turn is an entry, and not the protected one.
LEMMA VictimIs ==
    ASSUME IInv, Drops
    PROVE  /\ First.key \in Held /\ First.key # trim.protected
           /\ First = as_stamped(First.key)
<1>1. First \in Candidates
  BY FirstIsFirst DEF IInv, Drops
<1>2. PICK k \in Droppable : First = as_stamped(k)
  BY <1>1, CandidatesAre DEF IInv
<1> QED
  BY <1>2 DEF as_stamped, Droppable

\* A turn of the trim keeps the invariant, also when on_evict panics.
LEMMA TrimStepKeeps ==
    ASSUME IInv, TrimStep
    PROVE  IInv'
<1> DEFINE q == First.key
<1>1. q \in Held /\ q # trim.protected /\ {q} \in SUBSET Held
  BY VictimIs DEF TrimStep
<1>2. /\ Removed({q}) /\ UNCHANGED <<entered, silent, replaced>>
      /\ pc = "trim" /\ clock' \in Nat /\ ttl' \in Nat
      /\ size_limit' = size_limit /\ resizing' = resizing
      /\ size_limit \in (Nat \ {0}) \cup {NoLimit} /\ resizing \in BOOLEAN
      /\ trim \in [drop : Nat, cutoff : Expiry, protected : Keys \cup {NoStamp}]
  BY DEF TrimStep, ghosts, IInv, TypeOK
<1> HIDE DEF q
<1>3. EntriesOK' /\ Held' = Held \ {q}
  BY <1>1, <1>2, RemovalOK
<1>4. cache_size \in Nat /\ cache_size' = cache_size - 1 /\ cache_size' \in Nat
  <2>1. Cardinality(Held \ {q}) = Cardinality(Held) - 1
    BY <1>1, FS_RemoveElement DEF IInv, TypeOK
  <2>2. cache_size' \in Nat
    BY <1>1, <1>2, RemovalOK
  <2> QED
    BY <1>3, <2>1, <2>2, SizeIsNat DEF cache_size, IInv
<1>5. size_limit # NoLimit /\ ~resizing =>
          cache_size <= size_limit + 1 /\ cache_size <= size_limit + trim.drop
  BY <1>2 DEF IInv, TrimInv
<1>6. CASE pc' = "idle" /\ trim' = NoTrim
  <2>1. trim' \in [drop : Nat, cutoff : Expiry, protected : Keys \cup {NoStamp}]
    BY <1>6 DEF NoTrim, Expiry
  <2>2. WithinLimit' /\ TrimInv' /\ ProtectedStays'
    BY <1>2, <1>4, <1>5, <1>6 DEF WithinLimit, TrimInv, ProtectedStays
  <2> QED
    BY <1>2, <1>3, <1>6, <2>1, <2>2 DEF IInv, TypeOK, EntriesOK
<1>7. CASE /\ trim' = [trim EXCEPT !.drop = IF trim.drop > 0 THEN trim.drop - 1 ELSE 0]
           /\ UNCHANGED pc
  <2>1. /\ trim' \in [drop : Nat, cutoff : Expiry, protected : Keys \cup {NoStamp}]
        /\ trim'.protected = trim.protected /\ trim.drop \in Nat
        /\ trim'.drop = IF trim.drop > 0 THEN trim.drop - 1 ELSE 0
    BY <1>2, <1>7
  <2>2. TrimInv'
    BY <1>2, <1>4, <1>5, <2>1 DEF TrimInv
  <2>3. ProtectedStays'
    <3>1. trim.protected # NoStamp => trim.protected \in Held
      BY <1>2 DEF IInv, ProtectedStays, Held
    <3> QED
      BY <1>1, <1>3, <2>1, <3>1 DEF ProtectedStays, Held
  <2>4. pc' = "trim"
    BY <1>2, <1>7
  <2> QED
    BY <1>2, <1>3, <2>1, <2>2, <2>3, <2>4, TrimKeeps
<1> QED
  BY <1>6, <1>7 DEF TrimStep, q

\* The end of a trim: the size limit is kept, unless a resize was cut short.
LEMMA TrimmedKeeps ==
    ASSUME IInv, Trimmed
    PROVE  IInv'
<1>1. EntriesOK' /\ cache_size' = cache_size
  BY SameOK DEF Trimmed, metrics
<1>2. /\ pc = "trim" /\ pc' = "idle" /\ trim' = NoTrim /\ clock' \in Nat /\ ttl' \in Nat
      /\ size_limit' = size_limit /\ size_limit \in (Nat \ {0}) \cup {NoLimit}
      /\ resizing' = (resizing /\ size_limit # NoLimit /\ cache_size > size_limit)
      /\ trim.drop \in Nat /\ ~Drops
  BY DEF Trimmed, IInv, TypeOK
<1>3. trim' \in [drop : Nat, cutoff : Expiry, protected : Keys \cup {NoStamp}]
  BY <1>2 DEF NoTrim, Expiry
<1>4. cache_size \in Nat
  BY SizeIsNat DEF IInv
<1>5. ASSUME size_limit # NoLimit, ~resizing
      PROVE  cache_size <= size_limit
  <2>1. CASE trim.drop = 0
    BY <1>2, <1>4, <1>5, <2>1 DEF IInv, TrimInv
  <2>2. CASE trim.drop # 0
    <3>1. Candidates = {}
      BY <1>2, <2>2 DEF Drops
    <3>2. Held \subseteq {trim.protected}
      BY <3>1, CandidatesAre DEF Droppable, IInv
    <3>3. cache_size <= 1
      <4>1. IsFiniteSet({trim.protected}) /\ Cardinality({trim.protected}) = 1
            /\ Held \in SUBSET {trim.protected}
        BY <3>2, FS_Singleton
      <4>2. Cardinality(Held) <= Cardinality({trim.protected})
        BY <4>1, FS_Subset
      <4> QED
        BY <4>1, <4>2 DEF cache_size
    <3>4. size_limit \in Nat \ {0}
      BY <1>2, <1>5
    <3> QED
      BY <1>4, <3>3, <3>4
  <2> QED
    BY <2>1, <2>2
<1>6. TrimInv' /\ ProtectedStays' /\ resizing' \in BOOLEAN
  BY <1>2 DEF TrimInv, ProtectedStays
<1>7. WithinLimit'
  <2>1. CASE size_limit # NoLimit /\ ~(cache_size > size_limit)
    BY <1>1, <1>2, <1>4, <2>1 DEF WithinLimit
  <2>2. CASE size_limit = NoLimit
    BY <1>2, <2>2 DEF WithinLimit
  <2>3. CASE size_limit # NoLimit /\ cache_size > size_limit
    BY <1>1, <1>2, <1>4, <1>5, <2>3 DEF WithinLimit
  <2> QED
    BY <2>1, <2>2, <2>3
<1> QED
  BY <1>1, <1>2, <1>3, <1>6, <1>7 DEF IInv, TypeOK, EntriesOK

\* Clearing keeps the invariant: what it drops is silent.
LEMMA ClearKeeps ==
    ASSUME IInv, cache_clear
    PROVE  IInv'
<1>1. map' \in [Keys -> Expiry \cup {Absent}] /\ Lockstep' /\ IsFiniteSet(Held') /\ cache_size' = 0
  BY ClearedKeeps DEF cache_clear
<1>2. /\ cache_size \in Nat /\ silent \in Nat /\ replaced \in Nat /\ evictions \in Nat /\ entered \in Nat
      /\ entered = cache_size + silent + replaced + evictions
      /\ pc = "idle" /\ clock' \in Nat /\ ttl' \in Nat
      /\ UNCHANGED <<pc, trim, size_limit, resizing>>
      /\ evictions' = evictions /\ entered' = entered /\ replaced' = replaced
      /\ silent' = silent + cache_size
  BY SizeIsNat DEF cache_clear, Begin, metrics, IInv, TypeOK, EvictionsExact
<1>3. EntriesOK'
  BY <1>1, <1>2 DEF EntriesOK, EvictionsExact
<1>4. WithinLimit'
  BY <1>1, <1>2 DEF WithinLimit, IInv, TypeOK
<1> QED
  BY <1>2, <1>3, <1>4, QuietKeeps

\* Resetting keeps it: the counters start again from the entries there are.
LEMMA ResetKeeps ==
    ASSUME IInv, NEW clears \in BOOLEAN, cache_reset(clears)
    PROVE  IInv'
<1>1. /\ cache_size \in Nat /\ pc = "idle" /\ clock' \in Nat /\ ttl' \in Nat
      /\ UNCHANGED <<pc, trim, size_limit, resizing>>
      /\ evictions' = 0 /\ silent' = 0 /\ replaced' = 0
  BY SizeIsNat DEF cache_reset, Begin, IInv, TypeOK
<1>2. CASE clears
  <2>1. map' \in [Keys -> Expiry \cup {Absent}] /\ Lockstep' /\ IsFiniteSet(Held') /\ cache_size' = 0
    BY <1>2, ClearedKeeps DEF cache_reset
  <2>2. EntriesOK'
    BY <1>1, <1>2, <2>1 DEF EntriesOK, EvictionsExact, cache_reset
  <2>3. WithinLimit'
    BY <1>1, <2>1 DEF WithinLimit, IInv, TypeOK
  <2> QED
    BY <1>1, <2>2, <2>3, QuietKeeps
<1>3. CASE ~clears
  <2>1. map' = map /\ keys' = keys /\ entered' = cache_size
    BY <1>3 DEF cache_reset
  <2>2. Held' = Held
    BY <2>1 DEF Held
  <2>3. cache_size' = cache_size
    BY <2>2 DEF cache_size
  <2>4. EntriesOK'
    BY <1>1, <2>1, <2>2, <2>3 DEF EntriesOK, EvictionsExact, IInv, TypeOK, Lockstep, as_stamped
  <2>5. WithinLimit'
    BY <1>1, <2>3 DEF WithinLimit, IInv
  <2> QED
    BY <1>1, <2>4, <2>5, QuietKeeps
<1> QED
  BY <1>2, <1>3

\* A trim asked for by itself keeps it, with a new limit or the old one.
LEMMA ShrinkKeeps ==
    ASSUME IInv, NEW n \in 0..MaxSize, set_max_size(n) \/ retain_latest(n)
    PROVE  IInv'
<1>0. n \in Nat /\ cache_size \in Nat /\ NoStamp \in Keys \cup {NoStamp} /\ Never \in Expiry
  BY TtlSortedAssumption, SizeIsNat DEF Expiry, IInv
<1>1. EntriesOK' /\ cache_size' = cache_size /\ pc = "idle" /\ clock' \in Nat /\ ttl' \in Nat
  BY SameOK DEF set_max_size, retain_latest, metrics, ghosts, Begin, IInv, TypeOK
<1>2. CASE set_max_size(n)
  <2>1. TrimTo(cache_size, n, Never, NoStamp) /\ size_limit' = n /\ n # 0 /\ resizing' = TRUE
    BY <1>2 DEF set_max_size
  <2>2. /\ pc' = "trim"
        /\ trim' \in [drop : Nat, cutoff : Expiry, protected : Keys \cup {NoStamp}]
        /\ trim'.protected = NoStamp
    BY <1>0, <2>1, TrimToIs
  <2>3. TrimInv' /\ ProtectedStays'
    BY <2>1, <2>2 DEF TrimInv, ProtectedStays
  <2> QED
    BY <1>0, <1>1, <2>1, <2>2, <2>3, TrimKeeps
<1>3. CASE retain_latest(n)
  <2>1. PICK ev \in BOOLEAN : TrimTo(cache_size, n, IF ev THEN clock ELSE Never, NoStamp)
    BY <1>3 DEF retain_latest
  <2>2. (IF ev THEN clock ELSE Never) \in Expiry
    BY DEF Expiry, IInv, TypeOK
  <2>3. /\ pc' = "trim"
        /\ trim' \in [drop : Nat, cutoff : Expiry, protected : Keys \cup {NoStamp}]
        /\ trim'.protected = NoStamp
    BY <1>0, <2>1, <2>2, TrimToIs
  <2>4. size_limit' = size_limit /\ resizing' = resizing
        /\ size_limit \in (Nat \ {0}) \cup {NoLimit} /\ resizing \in BOOLEAN
    BY <1>3 DEF retain_latest, ghosts, IInv, TypeOK
  <2>5. ProtectedStays'
    BY <2>3 DEF ProtectedStays
  <2>6. TrimInv'
    <3>1. ASSUME size_limit # NoLimit, ~resizing
          PROVE  cache_size <= size_limit /\ size_limit \in Nat
      BY <1>1, <2>4, <3>1 DEF IInv, WithinLimit
    <3>2. trim'.drop \in Nat
      BY <2>3
    <3> QED
      BY <1>0, <1>1, <2>4, <3>1, <3>2 DEF TrimInv
  <2> QED
    BY <1>1, <2>3, <2>4, <2>5, <2>6, TrimKeeps
<1> QED
  BY <1>2, <1>3

\* Time passes.
LEMMA TickKeeps ==
    ASSUME IInv, Tick
    PROVE  IInv'
<1>1. EntriesOK' /\ cache_size' = cache_size /\ Held' = Held
  BY SameOK DEF Tick, metrics, ghosts
<1>2. clock' \in Nat /\ UNCHANGED <<map, ttl, size_limit, pc, trim, resizing>>
  BY DEF Tick, ghosts, IInv, TypeOK
<1> QED
  BY <1>1, <1>2 DEF IInv, TypeOK, EntriesOK, WithinLimit, TrimInv, ProtectedStays

\* The invariant is inductive.
LEMMA Invariance == Spec => []IInv
<1>1. Init => IInv
  <2> SUFFICES ASSUME Init PROVE IInv
    OBVIOUS
  <2>1. Held = {}
    BY DEF Init, Held
  <2>2. IsFiniteSet(Held) /\ cache_size = 0
    BY <2>1, FS_EmptySet DEF cache_size
  <2>3. TypeOK
    <3>1. NoTrim \in [drop : Nat, cutoff : Expiry, protected : Keys \cup {NoStamp}]
      BY DEF NoTrim, Expiry
    <3>2. size_limit \in (Nat \ {0}) \cup {NoLimit} /\ ttl \in Nat
      BY TtlSortedAssumption DEF Init
    <3>3. map \in [Keys -> Expiry \cup {Absent}]
      BY DEF Init
    <3> QED
      BY <2>2, <3>1, <3>2, <3>3 DEF Init, TypeOK
  <2>4. Lockstep
    BY <2>1 DEF Init, Lockstep
  <2>5. EvictionsExact /\ ProtectedStays /\ TrimInv
    BY <2>2 DEF Init, EvictionsExact, ProtectedStays, TrimInv
  <2>6. WithinLimit
    BY <2>2, <2>3 DEF WithinLimit, TypeOK
  <2> QED
    BY <2>3, <2>4, <2>5, <2>6 DEF IInv
<1>2. IInv /\ [Next]_vars => IInv'
  <2> SUFFICES ASSUME IInv, [Next]_vars PROVE IInv'
    OBVIOUS
  <2>0. ttl \in Nat
    BY DEF IInv, TypeOK
  <2>1. ASSUME NEW k \in Keys, cache_get(k) PROVE IInv'
    <3>1. CASE Stale(k) /\ Removed({k})
      <4>1. {k} \in SUBSET Held
        BY <3>1 DEF Stale, Held
      <4> QED
        BY <2>1, <3>1, <4>1, RemovingKeeps DEF cache_get
    <3>2. CASE UNCHANGED <<map, keys, evictions>>
      BY <2>0, <2>1, <3>2, ReadingKeeps DEF cache_get
    <3> QED
      BY <2>1, <3>1, <3>2 DEF cache_get
  <2>2. ASSUME NEW k \in Keys, cache_get_read(k) PROVE IInv'
    BY <2>0, <2>2, ReadingKeeps DEF cache_get_read
  <2>3. ASSUME NEW k \in Keys, cache_remove(k) PROVE IInv'
    BY <2>3, RemovingKeeps DEF cache_remove, ghosts
  <2>4. CASE evict
    <3>1. {k \in Held : map[k] # Never /\ map[k] < clock} \in SUBSET Held
      OBVIOUS
    <3> QED
      BY <2>4, <3>1, RemovingKeeps DEF evict, ghosts
  <2>5. ASSUME NEW keep \in SUBSET Keys, retain(keep) PROVE IInv'
    <3>1. {k \in Held : is_expired_at(map[k], clock) \/ k \notin keep} \in SUBSET Held
      OBVIOUS
    <3> QED
      BY <2>5, <3>1, RemovingKeeps DEF retain, ghosts
  <2>6. CASE cache_clear_with_on_evict
    BY <2>6, RemovingKeeps DEF cache_clear_with_on_evict, ghosts
  <2>7. CASE set_ttl
    BY <2>7, ReadingKeeps, TtlSortedAssumption DEF set_ttl, ghosts, metrics
  <2>8. CASE UNCHANGED vars
    <3>1. EntriesOK' /\ cache_size' = cache_size /\ Held' = Held
      BY <2>8, SameOK DEF vars, metrics, ghosts
    <3> QED
      BY <2>8, <3>1 DEF vars, ghosts, IInv, TypeOK, EntriesOK, WithinLimit, TrimInv, ProtectedStays
  <2>9. CASE Done
    BY <2>8, <2>9 DEF Done
  <2> QED
    BY <2>1, <2>2, <2>3, <2>4, <2>5, <2>6, <2>7, <2>8, <2>9, SetKeeps, GetOrSetKeeps, ShrinkKeeps,
       TrimStepKeeps, TrimmedKeeps, ClearKeeps, ResetKeeps, TickKeeps DEF Next
<1> QED
  BY <1>1, <1>2, PTL DEF Spec

-----------------------------------------------------------------------------

\* Lockstep: no entry is invisible to the sweeps and no stamp is left over,
\* wherever on_evict panics.
THEOREM MapAndIndexAgree == Spec => []Lockstep
<1>1. IInv => Lockstep
  BY DEF IInv
<1> QED
  BY <1>1, Invariance, PTL

\* EvictionsExact: every entry that left is counted once.
THEOREM EvictionsCounted == Spec => []EvictionsExact
<1>1. IInv => EvictionsExact
  BY DEF IInv
<1> QED
  BY <1>1, Invariance, PTL

\* ProtectedStays: the trim of set_and_get_mut never takes the entry it returns.
THEOREM ReturnedEntryStays == Spec => []ProtectedStays
<1>1. IInv => ProtectedStays
  BY DEF IInv
<1> QED
  BY <1>1, Invariance, PTL

\* WithinLimit: the size limit holds between operations, unless a panic cut a
\* set_max_size short.
THEOREM LimitKept == Spec => []WithinLimit
<1>1. IInv => WithinLimit
  BY DEF IInv
<1> QED
  BY <1>1, Invariance, PTL

\* DropsSoonest: a trim takes the entries that expire first, and beyond its
\* count only those whose time is over.
THEOREM SoonestDropped == Spec => DropsSoonest
<1>1. IInv /\ [Next]_vars =>
        [pc = "trim" =>
            /\ \A s \in keys \ keys', r \in keys' :
                  \/ r.key = trim.protected \/ r.expiry = Never
                  \/ s.expiry # Never /\ s.expiry <= r.expiry
            /\ trim.drop = 0 => \A s \in keys \ keys' : is_expired_at(s.expiry, trim.cutoff)]_vars
  <2> SUFFICES ASSUME IInv, Next, pc = "trim", NEW s \in keys \ keys'
               PROVE  /\ \A r \in keys' :
                            \/ r.key = trim.protected \/ r.expiry = Never
                            \/ s.expiry # Never /\ s.expiry <= r.expiry
                      /\ trim.drop = 0 => is_expired_at(s.expiry, trim.cutoff)
    OBVIOUS
  <2>1. TrimStep
    BY DEF Next, Begin, cache_get, cache_get_read, cache_set, cache_get_or_set_with, cache_remove,
           set_max_size, retain_latest, Trimmed, evict, retain, cache_clear, cache_clear_with_on_evict,
           cache_reset, set_ttl, Tick, Done
  <2>2. Drops /\ keys' = keys \ {First}
    <3>1. Drops /\ keys' = keys \ {as_stamped(k) : k \in {First.key}}
      BY <2>1 DEF TrimStep, Removed
    <3>2. First = as_stamped(First.key)
      BY <3>1, VictimIs
    <3> QED
      BY <3>1, <3>2
  <2>3. s = First /\ First \in Candidates /\ \A r \in Candidates \ {First} : Before(First, r)
    BY <2>2, FirstIsFirst DEF Drops, IInv
  <2>4. ASSUME NEW r \in keys', r.key # trim.protected, r.expiry # Never
        PROVE  s.expiry # Never /\ s.expiry <= r.expiry
    <3>1. r \in Candidates \ {First}
      BY <2>2, <2>4 DEF Candidates
    <3>2. Before(First, r)
      BY <2>3, <3>1
    <3>3. PICK j \in Held, k \in Held : r = as_stamped(j) /\ First = as_stamped(k)
      BY <2>3, <3>1 DEF Candidates, IInv, Lockstep
    <3>4. r.expiry \in Expiry /\ First.expiry \in Expiry
      BY <3>3 DEF as_stamped, Held, IInv, TypeOK
    <3> QED
      BY <2>3, <2>4, <3>2, <3>4 DEF Before, Expiry
  <2>5. ASSUME trim.drop = 0
        PROVE  is_expired_at(s.expiry, trim.cutoff)
    <3>1. trim.cutoff # Never /\ First.expiry # Never /\ First.expiry < trim.cutoff
      BY <2>2, <2>5 DEF Drops
    <3>2. PICK k \in Held : First = as_stamped(k)
      BY <2>3 DEF Candidates, IInv, Lockstep
    <3>3. First.expiry \in Nat /\ trim.cutoff \in Nat
      BY <3>1, <3>2 DEF as_stamped, Held, IInv, TypeOK, Expiry
    <3> QED
      BY <2>3, <3>1, <3>3 DEF is_expired_at
  <2> QED
    BY <2>4, <2>5
<1> QED
  BY <1>1, Invariance, PTL DEF Spec, DropsSoonest
=============================================================================
