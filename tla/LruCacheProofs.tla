--------------------------- MODULE LruCacheProofs ---------------------------
(***************************************************************************)
(* Proofs about LRUList and LruCache, for any keys, capacities and number  *)
(* of cells: the links agree in both directions and no link leads from one *)
(* list to the other; table and list agree, each eviction is counted once, *)
(* the capacity holds and only the least recently used entry is evicted.   *)
(***************************************************************************)
EXTENDS LruCache, FiniteSetTheorems, WellFoundedInduction, TLAPS

\* C is closed under the links, which agree.
Linked(C, nx, pv) ==
    \A j \in C : nx[j] \in C /\ pv[j] \in C /\ pv[nx[j]] = j /\ nx[pv[j]] = j

\* O is a union of whole lists.
Closed(C, O, nx) == \A j \in C : j \in O <=> nx[j] \in O

\* Most steps need no arithmetic and are Zenon's; the others name their prover.
USE Zenon

\* unlink leaves the cell's neighbours linked to each other.
LEMMA UnlinkLeavesRest ==
  ASSUME NEW C, NEW O, NEW nx \in [C -> C], NEW pv \in [C -> C], NEW i \in C,
         Linked(C, nx, pv), Closed(C, O, nx)
  PROVE  /\ UnlinkedNext(nx, pv, i) \in [C -> C]
         /\ UnlinkedPrev(nx, pv, i) \in [C -> C]
         /\ Linked(C \ {i}, UnlinkedNext(nx, pv, i), UnlinkedPrev(nx, pv, i))
         /\ Closed(C \ {i}, O, UnlinkedNext(nx, pv, i))
<1> DEFINE nx1 == UnlinkedNext(nx, pv, i)
           pv1 == UnlinkedPrev(nx, pv, i)
<1>1. nx1 \in [C -> C] /\ pv1 \in [C -> C]
  BY DEF UnlinkedNext, UnlinkedPrev, Linked
<1>2. ASSUME NEW j \in C \ {i}
      PROVE  /\ nx1[j] = IF nx[j] = i THEN nx[i] ELSE nx[j]
             /\ pv1[j] = IF pv[j] = i THEN pv[i] ELSE pv[j]
  BY DEF UnlinkedNext, UnlinkedPrev, Linked
<1>3. ASSUME NEW j \in C \ {i}
      PROVE  nx1[j] \in C \ {i} /\ pv1[j] \in C \ {i}
  BY SMT, <1>2 DEF Linked
<1>4. ASSUME NEW j \in C \ {i}
      PROVE  pv1[nx1[j]] = j /\ nx1[pv1[j]] = j
  BY SMT, <1>2, <1>3 DEF Linked
<1>5. Closed(C \ {i}, O, nx1)
  BY SMT, <1>2 DEF Closed, Linked
<1>6. QED BY <1>1, <1>3, <1>4, <1>5 DEF Linked

\* link_after puts a cell that is on no list behind p, on p's list.
LEMMA LinkJoins ==
  ASSUME NEW C, NEW O, NEW nx \in [C -> C], NEW pv \in [C -> C],
         NEW i \in C, NEW p \in C, i # p, i \notin O,
         Linked(C \ {i}, nx, pv), Closed(C \ {i}, O, nx)
  PROVE  /\ LinkedNext(nx, i, p) \in [C -> C]
         /\ LinkedPrev(nx, pv, i, p) \in [C -> C]
         /\ Linked(C, LinkedNext(nx, i, p), LinkedPrev(nx, pv, i, p))
         /\ p \in O => Closed(C, O \cup {i}, LinkedNext(nx, i, p))
         /\ p \notin O => Closed(C, O, LinkedNext(nx, i, p))
<1> DEFINE nx1 == LinkedNext(nx, i, p)
           pv1 == LinkedPrev(nx, pv, i, p)
<1>1. nx1 \in [C -> C] /\ pv1 \in [C -> C]
  BY DEF LinkedNext, LinkedPrev, Linked
<1>2. nx1[i] = nx[p] /\ nx1[p] = i /\ pv1[i] = p /\ pv1[nx[p]] = i
  BY DEF LinkedNext, LinkedPrev, Linked
<1>3. ASSUME NEW j \in C \ {i}, j # p PROVE nx1[j] = nx[j]
  BY <1>3 DEF LinkedNext
<1>4. ASSUME NEW j \in C \ {i}, j # nx[p] PROVE pv1[j] = pv[j]
  BY <1>4 DEF LinkedPrev
<1>5. Linked(C, nx1, pv1)
  BY SMT, <1>1, <1>2, <1>3, <1>4 DEF Linked
<1>6. p \in O => Closed(C, O \cup {i}, nx1)
  BY <1>2, <1>3 DEF Closed, Linked
<1>7. p \notin O => Closed(C, O, nx1)
  BY SMT, <1>2, <1>3 DEF Closed, Linked
<1>8. QED BY <1>1, <1>5, <1>6, <1>7

\* Moving a cell behind p keeps the links in agreement and takes the cell from
\* its list to p's.
LEMMA MoveMoves ==
  ASSUME NEW C, NEW O, NEW nx \in [C -> C], NEW pv \in [C -> C],
         NEW i \in C, NEW p \in C, i # p,
         Linked(C, nx, pv), Closed(C, O, nx)
  PROVE  /\ MovedNext(nx, pv, i, p) \in [C -> C]
         /\ MovedPrev(nx, pv, i, p) \in [C -> C]
         /\ Linked(C, MovedNext(nx, pv, i, p), MovedPrev(nx, pv, i, p))
         /\ p \in O => Closed(C, O \cup {i}, MovedNext(nx, pv, i, p))
         /\ p \notin O => Closed(C, O \ {i}, MovedNext(nx, pv, i, p))
<1> DEFINE nx1 == UnlinkedNext(nx, pv, i)
           pv1 == UnlinkedPrev(nx, pv, i)
<1>1. /\ nx1 \in [C -> C] /\ pv1 \in [C -> C]
      /\ Linked(C \ {i}, nx1, pv1)
      /\ Closed(C \ {i}, O, nx1)
  BY UnlinkLeavesRest
<1>2. Closed(C \ {i}, O \ {i}, nx1)
  BY <1>1 DEF Closed, Linked
<1> HIDE DEF nx1, pv1
<1>3. /\ LinkedNext(nx1, i, p) \in [C -> C]
      /\ LinkedPrev(nx1, pv1, i, p) \in [C -> C]
      /\ Linked(C, LinkedNext(nx1, i, p), LinkedPrev(nx1, pv1, i, p))
      /\ p \in O \ {i} => Closed(C, (O \ {i}) \cup {i}, LinkedNext(nx1, i, p))
      /\ p \notin O \ {i} => Closed(C, O \ {i}, LinkedNext(nx1, i, p))
  BY <1>1, <1>2, LinkJoins
<1>4. p \in O => Closed(C, O \cup {i}, LinkedNext(nx1, i, p))
  BY <1>3 DEF Closed
<1>5. QED
  BY <1>3, <1>4 DEF MovedNext, MovedPrev, nx1, pv1

-----------------------------------------------------------------------------

ListInv == ListTypeOK /\ LinksAgree /\ ListsApart

\* The cells on the occupied list, its sentinel included.
Ring == Occupied \cup {OCCUPIED}

\* The invariant in the form the lemmas above use.
LEMMA InvAsLinks ==
  ASSUME ListTypeOK
  PROVE  LinksAgree /\ ListsApart <=>
             /\ Linked(Cells, next, prev)
             /\ Closed(Cells, Ring, next)
             /\ value[FREE] = NoItem /\ value[OCCUPIED] = NoItem
  BY DEF ListTypeOK, LinksAgree, ListsApart, Linked, Closed, Ring

\* The two sentinels are cells, and neither holds an item.
LEMMA Sentinels ==
  ASSUME ListInv
  PROVE  FREE \in Cells /\ OCCUPIED \in Cells /\ FREE \notin Occupied /\ OCCUPIED \notin Occupied
  BY SMT DEF ListInv, ListTypeOK, ListsApart, Cells, FREE, OCCUPIED, Occupied

\* move_to_front keeps both lists whole.
LEMMA MoveToFrontKeeps ==
  ASSUME ListInv, NEW i \in Occupied, move_to_front(i)
  PROVE  ListInv'
<1>1. i \in Cells /\ i # OCCUPIED /\ OCCUPIED \in Cells /\ OCCUPIED \in Ring
  BY Sentinels DEF Occupied, Ring
<1>2. /\ next \in [Cells -> Cells] /\ prev \in [Cells -> Cells]
      /\ Linked(Cells, next, prev) /\ Closed(Cells, Ring, next)
      /\ value[FREE] = NoItem /\ value[OCCUPIED] = NoItem
  BY InvAsLinks DEF ListInv, ListTypeOK
<1>3. /\ next' \in [Cells -> Cells] /\ prev' \in [Cells -> Cells]
      /\ Linked(Cells, next', prev')
      /\ Closed(Cells, Ring \cup {i}, next')
  BY <1>1, <1>2, MoveMoves DEF move_to_front, Move
<1>4. Cells' = Cells /\ Ring' = Ring /\ Ring \cup {i} = Ring
  BY DEF move_to_front, Cells, Ring, Occupied
<1>5. ListTypeOK'
  BY <1>3, <1>4 DEF ListInv, ListTypeOK, move_to_front
<1>6. QED
  BY <1>2, <1>3, <1>4, <1>5, InvAsLinks DEF move_to_front, ListInv, ListTypeOK, LinksAgree, ListsApart, Linked, Closed, Ring

\* remove hands the cell over to the free list.
LEMMA RemoveKeeps ==
  ASSUME ListInv, NEW i \in Occupied, remove(i)
  PROVE  ListInv' /\ Occupied' = Occupied \ {i}
<1> USE ItemsAssumption
<1>1. i \in Cells /\ i # OCCUPIED /\ i # FREE /\ FREE \in Cells /\ FREE \notin Ring
  BY SMT, Sentinels DEF Occupied, Ring, FREE, OCCUPIED
<1>2. /\ next \in [Cells -> Cells] /\ prev \in [Cells -> Cells]
      /\ Linked(Cells, next, prev) /\ Closed(Cells, Ring, next)
      /\ value[FREE] = NoItem /\ value[OCCUPIED] = NoItem
  BY InvAsLinks DEF ListInv, ListTypeOK
<1>3. /\ next' \in [Cells -> Cells] /\ prev' \in [Cells -> Cells]
      /\ Linked(Cells, next', prev')
      /\ Closed(Cells, Ring \ {i}, next')
  BY <1>1, <1>2, MoveMoves DEF remove, Move
<1>4. Cells' = Cells
  BY DEF remove, Cells
<1>5. Occupied' = Occupied \ {i}
  BY <1>4 DEF remove, Occupied, ListInv, ListTypeOK
<1>6. Ring' = Ring \ {i}
  BY <1>1, <1>5 DEF Ring
<1>7. ListTypeOK'
  BY <1>3, <1>4 DEF ListInv, ListTypeOK, remove
<1>8. value'[FREE] = NoItem /\ value'[OCCUPIED] = NoItem
  BY SMT, <1>1, <1>2 DEF remove, ListInv, ListTypeOK
<1>9. LinksAgree' /\ ListsApart'
  BY <1>3, <1>4, <1>6, <1>8 DEF LinksAgree, ListsApart, Linked, Closed, Ring
<1>10. QED BY <1>5, <1>7, <1>9 DEF ListInv

\* push_front takes a cell that held nothing and puts it on the occupied list.
LEMMA PushFrontKeeps ==
  ASSUME ListInv, NEW item \in Items, push_front(item)
  PROVE  /\ ListInv'
         /\ FreshCell \notin Occupied
         /\ Occupied' = Occupied \cup {FreshCell}
         /\ value'[FreshCell] = item
         /\ \A j \in Occupied : value'[j] = value[j]
<1> USE ItemsAssumption
<1>1. /\ next \in [Cells -> Cells] /\ prev \in [Cells -> Cells]
      /\ Linked(Cells, next, prev) /\ Closed(Cells, Ring, next)
      /\ value[FREE] = NoItem /\ value[OCCUPIED] = NoItem
      /\ value \in [Cells -> Items \cup {NoItem}]
      /\ size \in Nat /\ size >= 2
  BY InvAsLinks DEF ListInv, ListTypeOK
<1>2. FREE \in Cells /\ OCCUPIED \in Cells /\ FREE \notin Ring /\ OCCUPIED \in Ring
  BY SMT, Sentinels DEF Ring, FREE, OCCUPIED
<1>3. CASE MustGrow
  <2> DEFINE C == 0..size
             nx == UnlinkedNext(GrownNext, GrownPrev, size)
             pv == UnlinkedPrev(GrownNext, GrownPrev, size)
  <2>1. FreshCell = size /\ size \in C /\ size \notin Cells /\ C = Cells \cup {size}
    BY SMT, <1>1, <1>3 DEF FreshCell, Cells
  <2>2. next[FREE] = FREE /\ prev[FREE] = FREE
    BY <1>1, <1>2, <1>3 DEF MustGrow, Linked
  <2>3. /\ GrownNext \in [C -> C] /\ GrownPrev \in [C -> C]
        /\ GrownNext[size] = FREE /\ GrownPrev[size] = FREE /\ GrownNext[FREE] = size
    BY <1>1, <1>2, <2>1 DEF GrownNext, GrownPrev, FREE
  <2>4. nx \in [C -> C] /\ pv \in [C -> C]
    BY <1>2, <2>1, <2>3 DEF UnlinkedNext, UnlinkedPrev
  <2>5. \A j \in Cells : nx[j] = next[j] /\ pv[j] = prev[j]
    BY <1>1, <1>2, <2>1, <2>2, <2>3 DEF UnlinkedNext, UnlinkedPrev, GrownNext, GrownPrev
  <2>6. C \ {size} = Cells
    BY <2>1
  <2>7. Linked(C \ {size}, nx, pv) /\ Closed(C \ {size}, Ring, nx)
    BY SMT, <1>1, <2>5, <2>6 DEF Linked, Closed
  <2>8. size # OCCUPIED /\ size \notin Ring /\ OCCUPIED \in C
    BY <1>1, <1>2, <2>1 DEF Ring, Occupied, OCCUPIED
  <2> HIDE DEF nx, pv, C
  <2>9. /\ LinkedNext(nx, size, OCCUPIED) \in [C -> C]
        /\ LinkedPrev(nx, pv, size, OCCUPIED) \in [C -> C]
        /\ Linked(C, LinkedNext(nx, size, OCCUPIED), LinkedPrev(nx, pv, size, OCCUPIED))
        /\ Closed(C, Ring \cup {size}, LinkedNext(nx, size, OCCUPIED))
    BY <1>2, <2>1, <2>4, <2>7, <2>8, LinkJoins
  <2>10. /\ next' = LinkedNext(nx, size, OCCUPIED)
         /\ prev' = LinkedPrev(nx, pv, size, OCCUPIED)
         /\ size' = size + 1
         /\ value' = [GrownValue EXCEPT ![size] = item]
    BY <1>3, <2>1 DEF push_front, Move, MovedNext, MovedPrev, nx, pv
  <2>11. Cells' = C
    BY SMT, <1>1, <2>10 DEF Cells, C
  <2>12. /\ value' \in [C -> Items \cup {NoItem}]
         /\ value'[size] = item
         /\ \A j \in Cells : value'[j] = value[j]
    BY <1>1, <2>1, <2>10 DEF GrownValue, C
  <2>13. Occupied' = Occupied \cup {size}
    BY <2>1, <2>11, <2>12 DEF Occupied
  <2>14. Ring' = Ring \cup {size}
    BY <2>13 DEF Ring
  <2>15. ListTypeOK'
    BY SMT, <1>1, <2>9, <2>10, <2>11, <2>12 DEF ListTypeOK
  <2>16. LinksAgree' /\ ListsApart'
    BY <1>1, <1>2, <2>9, <2>10, <2>11, <2>12, <2>14 DEF LinksAgree, ListsApart, Linked, Closed, Ring
  <2>17. \A j \in Occupied : j \in Cells
    BY DEF Occupied
  <2>18. QED BY <2>1, <2>12, <2>13, <2>15, <2>16, <2>17 DEF ListInv, Occupied
<1>4. CASE ~MustGrow
  <2> DEFINE i == next[FREE]
  <2>1. FreshCell = i /\ i \in Cells /\ i # FREE
    BY <1>1, <1>2, <1>4 DEF FreshCell, MustGrow
  <2>2. i \notin Ring /\ i # OCCUPIED
    BY <1>1, <1>2 DEF Closed
  <2> HIDE DEF i
  <2>3. /\ next' = MovedNext(next, prev, i, OCCUPIED)
        /\ prev' = MovedPrev(next, prev, i, OCCUPIED)
        /\ value' = [value EXCEPT ![i] = item]
        /\ size' = size
    BY <1>4, <2>1 DEF push_front, Move
  <2>4. /\ next' \in [Cells -> Cells] /\ prev' \in [Cells -> Cells]
        /\ Linked(Cells, next', prev')
        /\ Closed(Cells, Ring \cup {i}, next')
    BY <1>1, <1>2, <2>1, <2>2, <2>3, MoveMoves
  <2>5. Cells' = Cells
    BY <2>3 DEF Cells
  <2>6. /\ value' \in [Cells -> Items \cup {NoItem}] /\ value'[i] = item
        /\ \A j \in Cells : j # i => value'[j] = value[j]
    BY <1>1, <2>1, <2>3
  <2>7. Occupied' = Occupied \cup {i} /\ i \notin Occupied
    BY <2>1, <2>2, <2>5, <2>6 DEF Occupied, Ring
  <2>8. Ring' = Ring \cup {i}
    BY <2>7 DEF Ring
  <2>9. ListTypeOK'
    BY <1>1, <2>3, <2>4, <2>5, <2>6 DEF ListTypeOK
  <2>10. LinksAgree' /\ ListsApart'
    BY <1>1, <1>2, <2>1, <2>2, <2>4, <2>5, <2>6, <2>8
       DEF LinksAgree, ListsApart, Linked, Closed, Ring
  <2>11. \A j \in Occupied : value'[j] = value[j]
    BY <2>6, <2>7 DEF Occupied
  <2>12. QED BY <2>1, <2>6, <2>7, <2>9, <2>10, <2>11 DEF ListInv
<1>5. QED BY <1>3, <1>4

\* set replaces the item of a cell and moves nothing.
LEMMA SetKeeps ==
  ASSUME ListInv, NEW i \in Occupied, NEW item \in Items, set(i, item)
  PROVE  ListInv' /\ Occupied' = Occupied
<1> USE ItemsAssumption
<1>1. i \in Cells /\ i # FREE /\ i # OCCUPIED
  BY Sentinels DEF Occupied
<1>2. Cells' = Cells /\ Occupied' = Occupied
  BY <1>1 DEF set, Cells, Occupied, ListInv, ListTypeOK
<1>3. ListTypeOK'
  BY <1>1, <1>2 DEF set, ListInv, ListTypeOK
<1>4. LinksAgree' /\ ListsApart'
  BY SMT, <1>1, <1>2 DEF set, ListInv, ListTypeOK, LinksAgree, ListsApart
<1>5. QED BY <1>2, <1>3, <1>4 DEF ListInv

\* A cleared list is a new one.
LEMMA ClearKeeps ==
  ASSUME clear
  PROVE  ListInv' /\ Occupied' = {}
  BY SMT DEF clear, ListInv, ListTypeOK, LinksAgree, ListsApart, Cells, Occupied, FREE, OCCUPIED

\* LRUList's two lists stay whole and apart under every operation of the list.
THEOREM ListInvariance == ListSpec => []ListInv
<1>1. ListInit => ListInv
  BY SMT DEF ListInit, ListInv, ListTypeOK, LinksAgree, ListsApart, Cells, Occupied, FREE, OCCUPIED
<1>2. ListInv /\ [ListNext]_listVars => ListInv'
  <2> SUFFICES ASSUME ListInv, [ListNext]_listVars PROVE ListInv'
    OBVIOUS
  <2>1. CASE UNCHANGED listVars
    BY <2>1 DEF listVars, ListInv, ListTypeOK, LinksAgree, ListsApart, Cells, Occupied
  <2>2. QED
    BY <2>1, PushFrontKeeps, MoveToFrontKeeps, RemoveKeeps, SetKeeps, ClearKeeps DEF ListNext
<1>3. QED BY <1>1, <1>2, PTL DEF ListSpec

\* The links of LRUList agree in both directions and no link leads from a free
\* cell to an occupied one, whatever was done to it and however far it grew.
THEOREM ListAlwaysWellFormed == ListSpec => []WellFormed
<1>1. ListInv => WellFormed
  BY DEF ListInv, WellFormed
<1>2. QED BY <1>1, ListInvariance, PTL

-----------------------------------------------------------------------------

\* When the entry of a cell was last read or written.
Rank(i) == used[value[i]]

CacheTypeOK ==
    /\ capacity \in Nat \ {0}
    /\ evictions \in Nat /\ entered \in Nat /\ silent \in Nat /\ ops \in Nat
    /\ used \in [Items -> Nat]
    /\ pc \in {"idle", "check", "retain"}

\* A key has one cell.
Distinct == \A i, j \in Occupied : value[i] = value[j] => i = j

\* The occupied list is in the order of use, the latest first.
OrderInv ==
    /\ \A k \in Items : used[k] <= ops
    /\ \A i \in Occupied : next[i] # OCCUPIED => Rank(next[i]) < Rank(i)

\* The entry get_or_set_with_if will return was used last.
FreshInv ==
    fresh # NoCell =>
        /\ pc = "check" /\ fresh \in Occupied
        /\ \A j \in Occupied \ {fresh} : Rank(j) < Rank(fresh)

\* An insertion takes the cache one entry over its capacity, no more.
SizeInv ==
    ~resizing => cache_size <= (IF pc = "check" THEN capacity + 1 ELSE capacity)

IInv ==
    /\ ListInv /\ CacheTypeOK
    /\ store = Occupied /\ Distinct
    /\ pc = "retain" => doomed \subseteq Occupied
    /\ OrderInv /\ FreshInv /\ SizeInv
    /\ EvictionsExact

-----------------------------------------------------------------------------
(* What the operations of the list do to the order of use.                 *)

\* The item and the successor of an occupied cell.
LEMMA OccupiedCell ==
  ASSUME ListInv, NEW i \in Occupied
  PROVE  /\ i \in Cells /\ i # OCCUPIED /\ i # FREE /\ value[i] \in Items
         /\ next[i] \in Cells /\ prev[i] \in Cells
         /\ next[i] # OCCUPIED => next[i] \in Occupied
         /\ prev[next[i]] = i /\ next[prev[i]] = i
<1>1. i \in Cells /\ value[i] # NoItem
  BY DEF Occupied
<1>2. i # OCCUPIED /\ i # FREE
  BY Sentinels
<1>3. value[i] \in Items /\ next[i] \in Cells /\ prev[i] \in Cells
  BY <1>1 DEF ListInv, ListTypeOK
<1>4. next[i] # OCCUPIED => next[i] \in Occupied
  BY <1>1 DEF ListInv, ListsApart
<1>5. prev[next[i]] = i /\ next[prev[i]] = i
  BY <1>1 DEF ListInv, LinksAgree
<1> QED
  BY <1>1, <1>2, <1>3, <1>4, <1>5

\* Where the links lead once a cell was moved behind p.
LEMMA MovedNextIs ==
  ASSUME NEW C, NEW nx \in [C -> C], NEW pv \in [C -> C], NEW i \in C, NEW p \in C, i # p,
         Linked(C, nx, pv)
  PROVE  /\ MovedNext(nx, pv, i, p)[i] = IF nx[p] = i THEN nx[i] ELSE nx[p]
         /\ \A j \in C : j # i /\ j # p =>
               MovedNext(nx, pv, i, p)[j] = IF nx[j] = i THEN nx[i] ELSE nx[j]
<1>1. \A j \in C : UnlinkedNext(nx, pv, i)[j] = IF j = pv[i] THEN nx[i] ELSE nx[j]
  BY DEF UnlinkedNext
<1>2. \A j \in C : j = pv[i] <=> nx[j] = i
  BY DEF Linked
<1>3. UnlinkedNext(nx, pv, i) \in [C -> C]
  BY DEF UnlinkedNext
<1> QED
  BY <1>1, <1>2, <1>3 DEF MovedNext, LinkedNext

\* move_to_front of the cell of a key, which is now the key used last.
LEMMA TouchKeepsOrder ==
  ASSUME ListInv, CacheTypeOK, OrderInv, Distinct, NEW i \in Occupied,
         move_to_front(i), Touched(value[i]), ops' = ops + 1
  PROVE  ListInv' /\ Occupied' = Occupied /\ OrderInv' /\ Distinct' /\ used' \in [Items -> Nat]
<1>1. ListInv'
  BY MoveToFrontKeeps
<1>2. value' = value /\ Occupied' = Occupied
  BY DEF move_to_front, Occupied, Cells
<1>3. /\ used' \in [Items -> Nat]
      /\ used'[value[i]] = ops + 1
      /\ \A k \in Items : k # value[i] => used'[k] = used[k]
      /\ \A k \in Items : used'[k] <= ops'
  BY SMT, OccupiedCell DEF Touched, CacheTypeOK, OrderInv
<1>4. \A j \in Occupied : j # i => Rank(j)' = Rank(j) /\ Rank(j) <= ops /\ Rank(j) \in Nat
  BY SMT, <1>2, <1>3, OccupiedCell DEF Rank, Distinct, OrderInv, CacheTypeOK
<1>5. Rank(i)' = ops + 1
  BY <1>2, <1>3 DEF Rank
<1>6. /\ next'[i] = IF next[OCCUPIED] = i THEN next[i] ELSE next[OCCUPIED]
      /\ \A j \in Occupied : j # i => next'[j] = IF next[j] = i THEN next[i] ELSE next[j]
  <2>1. /\ next \in [Cells -> Cells] /\ prev \in [Cells -> Cells] /\ Linked(Cells, next, prev)
    BY InvAsLinks DEF ListInv, ListTypeOK
  <2>2. i \in Cells /\ OCCUPIED \in Cells /\ i # OCCUPIED
    BY Sentinels, OccupiedCell
  <2>3. next' = MovedNext(next, prev, i, OCCUPIED)
    BY DEF move_to_front, Move
  <2> QED
    BY SMT, <2>1, <2>2, <2>3, MovedNextIs, OccupiedCell
<1>7. next[OCCUPIED] # OCCUPIED => next[OCCUPIED] \in Occupied
  BY Sentinels DEF ListInv, ListsApart
<1>8. ASSUME NEW j \in Occupied, next'[j] # OCCUPIED
      PROVE  used'[value'[next'[j]]] < used'[value'[j]]
  <2>1. CASE j = i
    <3>1. next'[i] \in Occupied /\ next'[i] # i
      BY SMT, <1>6, <1>7, <1>8, <2>1, OccupiedCell DEF OrderInv, Rank, CacheTypeOK
    <3> QED
      BY SMT, <1>4, <1>5, <2>1, <3>1 DEF Rank, CacheTypeOK
  <2>2. CASE j # i /\ next[j] # i
    BY SMT, <1>4, <1>6, <1>8, <2>2, OccupiedCell DEF OrderInv, Rank
  <2>3. CASE j # i /\ next[j] = i
    <3>1. next'[j] = next[i] /\ next[i] # OCCUPIED /\ next[i] \in Occupied
      BY <1>6, <1>8, <2>3, OccupiedCell
    <3>2. Rank(next[i]) < Rank(i) /\ Rank(i) < Rank(j)
      BY <2>3, <3>1, OccupiedCell DEF OrderInv
    <3>3. Rank(i) \in Nat /\ Rank(j) \in Nat /\ Rank(next[i]) \in Nat
      BY <3>1, OccupiedCell DEF Rank, CacheTypeOK
    <3>4. next[i] # i /\ Rank(next[i]) < Rank(j)
      BY SMT, <3>2, <3>3
    <3> QED
      BY <1>4, <2>3, <3>1, <3>4 DEF Rank
  <2> QED
    BY <2>1, <2>2, <2>3
<1> QED
  BY <1>1, <1>2, <1>3, <1>8 DEF OrderInv, Distinct, Rank

\* push_front puts the new cell before all others and changes no other successor.
LEMMA PushFrontNext ==
  ASSUME ListInv, NEW item \in Items, push_front(item)
  PROVE  /\ next'[FreshCell] = next[OCCUPIED]
         /\ \A j \in Occupied : next'[j] = next[j]
<1>1. /\ next \in [Cells -> Cells] /\ prev \in [Cells -> Cells]
      /\ Linked(Cells, next, prev) /\ Closed(Cells, Ring, next)
      /\ size \in Nat /\ size >= 2
  BY InvAsLinks DEF ListInv, ListTypeOK
<1>2. FREE \in Cells /\ OCCUPIED \in Cells /\ FREE # OCCUPIED /\ FREE \notin Ring /\ OCCUPIED \in Ring
  BY SMT, Sentinels DEF Ring, FREE, OCCUPIED
<1>3. \A j \in Occupied : j \in Cells /\ j # FREE /\ j # OCCUPIED /\ next[j] \in Ring
  BY <1>1, OccupiedCell DEF Closed, Ring
<1>4. CASE MustGrow
  <2> DEFINE nx == UnlinkedNext(GrownNext, GrownPrev, size)
  <2>1. size \notin Cells /\ FreshCell = size
    BY SMT, <1>1, <1>4 DEF Cells, FreshCell
  <2>2. /\ size \in 0..size /\ FREE \in 0..size /\ OCCUPIED \in 0..size
        /\ size # FREE /\ size # OCCUPIED
        /\ \A j \in Cells : j \in 0..size /\ j # size
    BY SMT, <1>1 DEF Cells, FREE, OCCUPIED
  <2>3. /\ GrownNext[size] = FREE /\ GrownPrev[size] = FREE
        /\ \A j \in Cells : j # FREE => GrownNext[j] = next[j]
    BY <2>2 DEF GrownNext, GrownPrev
  <2>4. DOMAIN GrownNext = 0..size
    BY DEF GrownNext
  <2>5. nx = [GrownNext EXCEPT ![FREE] = FREE]
    BY <2>3 DEF UnlinkedNext
  <2> HIDE DEF nx
  <2>6. DOMAIN nx = 0..size /\ \A j \in Cells : j # FREE => nx[j] = next[j]
    BY <2>2, <2>3, <2>4, <2>5
  <2>7. next' = LinkedNext(nx, size, OCCUPIED)
    BY <1>4, <2>1 DEF push_front, Move, MovedNext, nx
  <2>8. /\ next'[size] = nx[OCCUPIED]
        /\ \A j \in 0..size : j # size /\ j # OCCUPIED => next'[j] = nx[j]
    BY <2>2, <2>6, <2>7 DEF LinkedNext
  <2> QED
    BY <1>2, <1>3, <2>1, <2>2, <2>6, <2>8
<1>5. CASE ~MustGrow
  <2> DEFINE i == next[FREE]
  <2>1. FreshCell = i /\ i \in Cells /\ i # FREE /\ i \notin Ring
    BY <1>1, <1>2, <1>5 DEF FreshCell, MustGrow, Closed
  <2> HIDE DEF i
  <2>2. next' = MovedNext(next, prev, i, OCCUPIED)
    BY <1>5, <2>1 DEF push_front, Move
  <2>3. i # OCCUPIED /\ next[OCCUPIED] # i
    BY <1>1, <1>2, <2>1 DEF Closed
  <2>4. \A j \in Occupied : j # i /\ next[j] # i
    BY <1>3, <2>1 DEF Ring
  <2>5. next'[i] = next[OCCUPIED]
    BY SMT, <1>1, <1>2, <2>1, <2>2, <2>3, MovedNextIs
  <2>6. \A j \in Occupied : next'[j] = next[j]
    BY SMT, <1>1, <1>2, <1>3, <2>1, <2>2, <2>3, <2>4, MovedNextIs
  <2> QED
    BY <2>1, <2>5, <2>6
<1> QED
  BY <1>4, <1>5

\* Insert of a key that has no cell: it is the key used last.
LEMMA InsertKeepsOrder ==
  ASSUME ListInv, CacheTypeOK, OrderInv, Distinct, NEW k \in Items,
         \A j \in Occupied : value[j] # k,
         push_front(k), Touched(k), ops' = ops + 1
  PROVE  /\ ListInv' /\ OrderInv' /\ Distinct' /\ used' \in [Items -> Nat]
         /\ FreshCell \notin Occupied /\ Occupied' = Occupied \cup {FreshCell}
         /\ \A j \in Occupied : Rank(j)' < used'[value'[FreshCell]]
<1>1. /\ ListInv' /\ FreshCell \notin Occupied
      /\ Occupied' = Occupied \cup {FreshCell}
      /\ value'[FreshCell] = k
      /\ \A j \in Occupied : value'[j] = value[j]
  BY PushFrontKeeps
<1>2. /\ next'[FreshCell] = next[OCCUPIED]
      /\ \A j \in Occupied : next'[j] = next[j]
  BY PushFrontNext
<1> DEFINE f == FreshCell
<1> HIDE DEF f
<1>3. /\ used' \in [Items -> Nat]
      /\ used'[k] = ops + 1
      /\ \A l \in Items : l # k => used'[l] = used[l]
      /\ \A l \in Items : used'[l] <= ops'
  BY SMT DEF Touched, CacheTypeOK, OrderInv
<1>4. \A j \in Occupied : used'[value'[j]] = used[value[j]] /\ used[value[j]] <= ops /\ used[value[j]] \in Nat
  BY <1>1, <1>3, OccupiedCell DEF OrderInv, CacheTypeOK
<1>5. \A j \in Occupied : used'[value'[j]] < used'[value'[f]]
  BY SMT, <1>1, <1>3, <1>4 DEF f, CacheTypeOK
<1>6. next[OCCUPIED] # OCCUPIED => next[OCCUPIED] \in Occupied
  BY Sentinels DEF ListInv, ListsApart
<1>7. ASSUME NEW j \in Occupied \cup {f}, next'[j] # OCCUPIED
      PROVE  used'[value'[next'[j]]] < used'[value'[j]]
  <2>1. CASE j = f
    BY <1>2, <1>5, <1>6, <1>7, <2>1 DEF f
  <2>2. CASE j \in Occupied
    BY SMT, <1>2, <1>4, <1>7, <2>2, OccupiedCell DEF OrderInv, Rank
  <2> QED
    BY <2>1, <2>2
<1>8. OrderInv'
  BY <1>1, <1>3, <1>7 DEF OrderInv, Rank, f
<1>9. Distinct'
  BY SMT, <1>1 DEF Distinct
<1> QED
  BY <1>1, <1>3, <1>5, <1>8, <1>9 DEF f, Rank

\* Whatever cell is removed, the others keep their order.
LEMMA RemoveKeepsOrder ==
  ASSUME ListInv, CacheTypeOK, OrderInv, Distinct, NEW i \in Occupied,
         remove(i), used' = used, ops' \in {ops, ops + 1}
  PROVE  /\ ListInv' /\ OrderInv' /\ Distinct' /\ Occupied' = Occupied \ {i}
         /\ \A j \in Occupied \ {i} : Rank(j)' = Rank(j)
<1>1. ListInv' /\ Occupied' = Occupied \ {i}
  BY RemoveKeeps
<1>2. \A j \in Occupied \ {i} : value'[j] = value[j]
  BY DEF remove, ListInv, ListTypeOK, Occupied
<1>3. \A j \in Occupied \ {i} : next'[j] = IF next[j] = i THEN next[i] ELSE next[j]
  <2>1. /\ next \in [Cells -> Cells] /\ prev \in [Cells -> Cells] /\ Linked(Cells, next, prev)
    BY InvAsLinks DEF ListInv, ListTypeOK
  <2>2. i \in Cells /\ FREE \in Cells /\ i # FREE
    BY Sentinels, OccupiedCell
  <2>3. next' = MovedNext(next, prev, i, FREE)
    BY DEF remove, Move
  <2>4. \A j \in Occupied \ {i} : j \in Cells /\ j # i /\ j # FREE
    BY OccupiedCell
  <2> QED
    BY SMT, <2>1, <2>2, <2>3, <2>4, MovedNextIs
<1>4. \A j \in Occupied : used[value[j]] \in Nat
  BY OccupiedCell DEF CacheTypeOK
<1>5. ASSUME NEW j \in Occupied \ {i}, next'[j] # OCCUPIED
      PROVE  used[value'[next'[j]]] < used[value'[j]]
  <2>1. CASE next[j] # i
    BY <1>2, <1>3, <1>5, <2>1, OccupiedCell DEF OrderInv, Rank
  <2>2. CASE next[j] = i
    <3>1. next'[j] = next[i] /\ next[i] # OCCUPIED /\ next[i] \in Occupied /\ i # OCCUPIED
      BY <1>3, <1>5, <2>2, OccupiedCell
    <3>2. used[value[next[i]]] < used[value[i]] /\ used[value[i]] < used[value[j]]
      BY <2>2, <3>1 DEF OrderInv, Rank
    <3>3. next[i] # i /\ used[value[next[i]]] < used[value[j]]
      BY SMT, <1>4, <3>1, <3>2
    <3> QED
      BY <1>2, <3>1, <3>3
  <2> QED
    BY <2>1, <2>2
<1>6. \A k \in Items : used[k] <= ops'
  BY SMT DEF OrderInv, CacheTypeOK
<1>7. OrderInv'
  BY <1>1, <1>5, <1>6 DEF OrderInv, Rank
<1>8. Distinct'
  BY <1>1, <1>2 DEF Distinct
<1> QED
  BY <1>1, <1>2, <1>7, <1>8 DEF Rank

\* A nonempty set of natural numbers has a least element.
LEMMA LeastOf ==
  ASSUME NEW T, T \subseteq Nat, T # {}
  PROVE  \E n \in T : \A m \in T : n <= m
<1> DEFINE R == OpToRel(<, Nat)
<1>1. IsWellFoundedOn(R, Nat)
  BY NatLessThanWellFounded
<1>2. \A x, y \in Nat : x < y => <<x, y>> \in R
  BY DEF OpToRel
<1> HIDE DEF R
<1>3. PICK n \in T : \A m \in T : ~(<<m, n>> \in R)
  BY <1>1, WFMin
<1>4. \A m \in T : ~(m < n)
  BY <1>2, <1>3
<1>5. \A m \in T : n <= m
  BY SMT, <1>4
<1> QED
  BY <1>5

\* The cell before the sentinel is the one used least recently: following the
\* links from the least recently used cell can only lead to the sentinel.
LEMMA BackIsLeast ==
  ASSUME ListInv, CacheTypeOK, OrderInv, Occupied # {}
  PROVE  back \in Occupied /\ \A j \in Occupied : Rank(back) <= Rank(j)
<1> DEFINE T == {Rank(j) : j \in Occupied}
<1>1. \A j \in Occupied : Rank(j) \in Nat
  BY OccupiedCell DEF Rank, CacheTypeOK
<1>2. T \subseteq Nat /\ T # {}
  BY <1>1
<1>3. PICK n \in T : \A m \in T : n <= m
  BY <1>2, LeastOf
<1>4. PICK i \in Occupied : Rank(i) = n
  BY <1>3
<1>5. \A j \in Occupied : Rank(i) <= Rank(j)
  BY <1>3, <1>4
<1>6. next[i] = OCCUPIED
  <2> SUFFICES ASSUME next[i] # OCCUPIED PROVE FALSE
    OBVIOUS
  <2>1. next[i] \in Occupied /\ Rank(next[i]) < Rank(i)
    BY OccupiedCell DEF OrderInv
  <2> QED
    BY SMT, <1>1, <1>5, <2>1
<1>7. i = back
  BY <1>6, OccupiedCell DEF back
<1> QED
  BY <1>5, <1>7

\* The table is a finite set of cells, counted by cache_size.
LEMMA StoreFinite ==
  ASSUME ListInv
  PROVE  IsFiniteSet(Occupied) /\ Cardinality(Occupied) \in Nat
<1>1. IsFiniteSet(Cells)
  BY SMT, FS_Interval DEF ListInv, ListTypeOK, Cells
<1>2. Occupied \subseteq Cells
  BY DEF Occupied
<1> QED
  BY <1>1, <1>2, FS_Subset, FS_CardinalityType

-----------------------------------------------------------------------------
(* The invariant, action by action.                                        *)

\* A step that leaves table, list and order alone.
LEMMA FrameKeeps ==
  ASSUME IInv, UNCHANGED <<listVars, store, used>>, ops' \in {ops, ops + 1}
  PROVE  /\ ListInv' /\ Distinct' /\ OrderInv' /\ store' = Occupied' /\ Occupied' = Occupied
         /\ \A j \in Occupied : Rank(j)' = Rank(j)
         /\ cache_size' = cache_size /\ cache_size \in Nat
<1>1. /\ size' = size /\ next' = next /\ prev' = prev /\ value' = value
      /\ store' = store /\ used' = used
  BY DEF listVars
<1>2. Cells' = Cells /\ Occupied' = Occupied
  BY <1>1 DEF Cells, Occupied
<1>3. ListInv'
  BY <1>1, <1>2 DEF IInv, ListInv, ListTypeOK, LinksAgree, ListsApart
<1>4. \A k \in Items : used[k] <= ops'
  BY SMT DEF IInv, OrderInv, CacheTypeOK
<1>5. OrderInv' /\ Distinct'
  BY <1>1, <1>2, <1>4 DEF IInv, OrderInv, Distinct, Rank
<1>6. cache_size' = cache_size /\ cache_size \in Nat
  BY <1>1, StoreFinite DEF cache_size, IInv
<1> QED
  BY <1>1, <1>2, <1>3, <1>5, <1>6 DEF IInv, Rank

\* cache_get
LEMMA GetKeeps ==
  ASSUME IInv, NEW k \in Items, cache_get(k)
  PROVE  IInv'
<1>1. /\ pc = "idle" /\ ops' = ops + 1 /\ pc' = pc /\ fresh' = fresh
      /\ store' = store /\ capacity' = capacity /\ evictions' = evictions
      /\ resizing' = resizing /\ entered' = entered /\ silent' = silent
  BY DEF cache_get, Begin
<1>2. fresh = NoCell
  BY <1>1 DEF IInv, FreshInv
<1>3. /\ ListInv' /\ Distinct' /\ OrderInv' /\ Occupied' = Occupied /\ used' \in [Items -> Nat]
  <2>1. ASSUME NEW i \in get_index(k), move_to_front(i), Touched(k)
        PROVE  ListInv' /\ Distinct' /\ OrderInv' /\ Occupied' = Occupied /\ used' \in [Items -> Nat]
    BY <1>1, <2>1, TouchKeepsOrder DEF IInv, get_index
  <2>2. ASSUME UNCHANGED <<listVars, used>>
        PROVE  ListInv' /\ Distinct' /\ OrderInv' /\ Occupied' = Occupied /\ used' \in [Items -> Nat]
    <3>1. used \in [Items -> Nat]
      BY DEF IInv, CacheTypeOK
    <3> QED
      BY <1>1, <2>2, <3>1, FrameKeeps
  <2> QED
    BY <2>1, <2>2 DEF cache_get
<1>4. CacheTypeOK'
  BY SMT, <1>1, <1>3 DEF IInv, CacheTypeOK
<1>5. SizeInv' /\ EvictionsExact' /\ FreshInv'
  BY <1>1, <1>2 DEF IInv, SizeInv, EvictionsExact, cache_size, FreshInv
<1> QED
  BY <1>1, <1>3, <1>4, <1>5 DEF IInv

\* push_front and insert_index, for a key the table does not have.
LEMMA InsertKeeps ==
  ASSUME IInv, NEW k \in Items, get_index(k) = {}, Insert(k), Touched(k), ops' = ops + 1
  PROVE  /\ ListInv' /\ OrderInv' /\ Distinct' /\ used' \in [Items -> Nat]
         /\ store' = Occupied' /\ FreshCell \in Occupied'
         /\ \A j \in Occupied' \ {FreshCell} : Rank(j)' < used'[value'[FreshCell]]
         /\ cache_size' = cache_size + 1 /\ entered' = entered + 1
<1>1. \A j \in Occupied : value[j] # k
  BY DEF IInv, get_index
<1>2. push_front(k) /\ store' = store \cup {FreshCell} /\ entered' = entered + 1
  BY DEF Insert
<1>3. /\ ListInv' /\ OrderInv' /\ Distinct' /\ used' \in [Items -> Nat]
      /\ FreshCell \notin Occupied /\ Occupied' = Occupied \cup {FreshCell}
      /\ \A j \in Occupied : Rank(j)' < used'[value'[FreshCell]]
  BY <1>1, <1>2, InsertKeepsOrder DEF IInv
<1>4. store = Occupied /\ IsFiniteSet(Occupied)
  BY StoreFinite DEF IInv
<1>5. cache_size' = cache_size + 1
  BY <1>2, <1>3, <1>4, FS_AddElement DEF cache_size
<1>6. \A j \in Occupied' \ {FreshCell} : j \in Occupied
  BY <1>3
<1> QED
  BY <1>2, <1>3, <1>4, <1>5, <1>6

\* cache_set: an overwrite renews the entry, an insertion is within the slack
\* that check_capacity takes back.
LEMMA CacheSetKeeps ==
  ASSUME IInv, NEW k \in Items, cache_set(k)
  PROVE  IInv'
<1>1. /\ pc = "idle" /\ ops' = ops + 1 /\ pc' = "check" /\ fresh' = fresh /\ Touched(k)
      /\ capacity' = capacity /\ evictions' = evictions
      /\ resizing' = resizing /\ silent' = silent
  BY DEF cache_set, Begin
<1>2. fresh = NoCell /\ cache_size \in Nat
  BY <1>1, StoreFinite DEF IInv, FreshInv, cache_size
<1>3. /\ ListInv' /\ Distinct' /\ OrderInv' /\ store' = Occupied' /\ used' \in [Items -> Nat]
      /\ \/ cache_size' = cache_size /\ entered' = entered
         \/ cache_size' = cache_size + 1 /\ entered' = entered + 1
  <2>1. ASSUME NEW i \in get_index(k), SetAndMove(i, k), UNCHANGED <<store, entered>>
        PROVE  /\ ListInv' /\ Distinct' /\ OrderInv' /\ store' = Occupied' /\ used' \in [Items -> Nat]
               /\ cache_size' = cache_size /\ entered' = entered
    <3>1. i \in Occupied /\ value[i] = k /\ store = Occupied
      BY DEF IInv, get_index
    <3>2. [value EXCEPT ![i] = k] = value
      BY <3>1 DEF IInv, ListInv, ListTypeOK
    <3>3. move_to_front(i)
      BY <2>1, <3>2 DEF SetAndMove, move_to_front
    <3>4. ListInv' /\ Distinct' /\ OrderInv' /\ Occupied' = Occupied /\ used' \in [Items -> Nat]
      BY <1>1, <3>1, <3>3, TouchKeepsOrder DEF IInv
    <3> QED
      BY <2>1, <3>1, <3>4 DEF cache_size
  <2>2. ASSUME get_index(k) = {}, Insert(k)
        PROVE  /\ ListInv' /\ Distinct' /\ OrderInv' /\ store' = Occupied' /\ used' \in [Items -> Nat]
               /\ cache_size' = cache_size + 1 /\ entered' = entered + 1
    BY <1>1, <2>2, InsertKeeps
  <2> QED
    BY <2>1, <2>2 DEF cache_set
<1>4. CacheTypeOK'
  BY SMT, <1>1, <1>3 DEF IInv, CacheTypeOK
<1>5. SizeInv'
  BY SMT, <1>1, <1>2, <1>3 DEF IInv, SizeInv, CacheTypeOK
<1>6. EvictionsExact'
  BY SMT, <1>1, <1>2, <1>3 DEF IInv, EvictionsExact, CacheTypeOK
<1>7. FreshInv'
  BY <1>1, <1>2 DEF FreshInv
<1> QED
  BY <1>1, <1>3, <1>4, <1>5, <1>6, <1>7 DEF IInv

\* get_or_set_with_if: a hit, an insertion whose cell will be read after the
\* capacity check, or a factory that gave no value.
LEMMA GetOrSetKeeps ==
  ASSUME IInv, NEW k \in Items, get_or_set_with_if(k)
  PROVE  IInv'
<1>1. /\ pc = "idle" /\ ops' = ops + 1
      /\ capacity' = capacity /\ evictions' = evictions
      /\ resizing' = resizing /\ silent' = silent
  BY DEF get_or_set_with_if, Begin
<1>2. fresh = NoCell /\ cache_size \in Nat /\ store = Occupied
  BY <1>1, StoreFinite DEF IInv, FreshInv, cache_size
<1>3. ASSUME NEW i \in get_index(k), move_to_front(i), Touched(k), UNCHANGED <<store, entered, pc, fresh>>
      PROVE  IInv'
  <2>1. ListInv' /\ Distinct' /\ OrderInv' /\ Occupied' = Occupied /\ used' \in [Items -> Nat]
    BY <1>1, <1>3, TouchKeepsOrder DEF IInv, get_index
  <2>2. CacheTypeOK'
    BY SMT, <1>1, <1>3, <2>1 DEF IInv, CacheTypeOK
  <2>3. SizeInv' /\ EvictionsExact' /\ FreshInv'
    BY <1>1, <1>2, <1>3 DEF IInv, SizeInv, EvictionsExact, cache_size, FreshInv
  <2> QED
    BY <1>1, <1>2, <1>3, <2>1, <2>2, <2>3 DEF IInv
<1>4. ASSUME get_index(k) = {}, Insert(k), Touched(k), fresh' = FreshCell, pc' = "check"
      PROVE  IInv'
  <2>1. /\ ListInv' /\ OrderInv' /\ Distinct' /\ used' \in [Items -> Nat]
        /\ store' = Occupied' /\ FreshCell \in Occupied'
        /\ \A j \in Occupied' \ {FreshCell} : Rank(j)' < used'[value'[FreshCell]]
        /\ cache_size' = cache_size + 1 /\ entered' = entered + 1
    BY <1>1, <1>4, InsertKeeps
  <2>2. CacheTypeOK'
    BY SMT, <1>1, <1>4, <2>1 DEF IInv, CacheTypeOK
  <2>3. FreshInv'
    BY <1>4, <2>1 DEF FreshInv, Rank
  <2>4. SizeInv'
    BY SMT, <1>1, <1>2, <1>4, <2>1 DEF IInv, SizeInv, CacheTypeOK
  <2>5. EvictionsExact'
    BY SMT, <1>1, <1>2, <2>1 DEF IInv, EvictionsExact, CacheTypeOK
  <2> QED
    BY <1>4, <2>1, <2>2, <2>3, <2>4, <2>5 DEF IInv
<1>5. ASSUME UNCHANGED <<listVars, store, used, entered, pc, fresh>>
      PROVE  IInv'
  <2>1. /\ ListInv' /\ Distinct' /\ OrderInv' /\ store' = Occupied' /\ cache_size' = cache_size
    BY <1>1, <1>5, FrameKeeps
  <2>2. CacheTypeOK'
    BY SMT, <1>1, <1>5 DEF IInv, CacheTypeOK
  <2>3. SizeInv' /\ EvictionsExact' /\ FreshInv'
    BY <1>1, <1>2, <1>5, <2>1 DEF IInv, SizeInv, EvictionsExact, FreshInv
  <2> QED
    BY <1>1, <1>5, <2>1, <2>2, <2>3 DEF IInv
<1> QED
  BY <1>3, <1>4, <1>5 DEF get_or_set_with_if

\* remove_index and pop_raw of a cell in use.
LEMMA RemovedKeeps ==
  ASSUME IInv, NEW i \in Occupied, RemoveCounted(i),
         UNCHANGED <<used, entered, silent>>, ops' \in {ops, ops + 1}
  PROVE  /\ ListInv' /\ OrderInv' /\ Distinct' /\ store' = Occupied'
         /\ Occupied' = Occupied \ {i}
         /\ \A j \in Occupied \ {i} : Rank(j)' = Rank(j)
         /\ cache_size \in Nat /\ cache_size' \in Nat /\ cache_size' = cache_size - 1
         /\ evictions' = evictions + 1 /\ EvictionsExact'
<1>1. store' = store \ {i} /\ remove(i) /\ evictions' = evictions + 1
  BY DEF RemoveCounted
<1>2. /\ ListInv' /\ OrderInv' /\ Distinct' /\ Occupied' = Occupied \ {i}
      /\ \A j \in Occupied \ {i} : Rank(j)' = Rank(j)
  BY <1>1, RemoveKeepsOrder DEF IInv
<1>3. store = Occupied /\ IsFiniteSet(Occupied) /\ cache_size \in Nat
  BY StoreFinite DEF IInv, cache_size
<1>4. cache_size' = cache_size - 1
  BY <1>1, <1>3, FS_RemoveElement DEF cache_size
<1>5. store' = Occupied' /\ cache_size' \in Nat
  <2>1. store' = Occupied'
    BY <1>1, <1>2, <1>3
  <2>2. IsFiniteSet(Occupied \ {i})
    BY <1>3, FS_RemoveElement
  <2> QED
    BY <1>2, <2>1, <2>2, FS_CardinalityType DEF cache_size
<1>6. EvictionsExact'
  <2>1. /\ entered = cache_size + evictions + silent
        /\ evictions \in Nat /\ silent \in Nat
    BY DEF IInv, EvictionsExact, CacheTypeOK
  <2> QED
    BY SMT, <1>1, <1>3, <1>4, <2>1 DEF EvictionsExact
<1> QED
  BY <1>1, <1>2, <1>3, <1>4, <1>5, <1>6

\* The entry that get_or_set_with_if has just inserted is not the victim: it
\* was used last, and the cache holds another.
LEMMA VictimIsNotFresh ==
  ASSUME IInv, cache_size > capacity
  PROVE  back \in Occupied /\ back # fresh
<1>1. store = Occupied /\ IsFiniteSet(Occupied) /\ cache_size \in Nat /\ capacity \in Nat \ {0}
  BY StoreFinite DEF IInv, cache_size, CacheTypeOK
<1>2. cache_size > 1
  BY SMT, <1>1
<1>3. ASSUME NEW x PROVE Occupied # {x} /\ Occupied # {}
  <2>1. Cardinality({x}) = 1 /\ Cardinality({}) = 0
    BY FS_Singleton, FS_EmptySet
  <2> QED
    BY SMT, <1>1, <1>2, <2>1 DEF cache_size
<1>4. back \in Occupied /\ \A j \in Occupied : Rank(back) <= Rank(j)
  BY <1>3, BackIsLeast DEF IInv
<1>5. ASSUME back = fresh PROVE FALSE
  <2>1. fresh \in Occupied /\ fresh # NoCell
    <3>1. fresh \in Occupied
      BY <1>4, <1>5
    <3>2. Occupied \subseteq Nat
      BY SMT DEF Occupied, Cells, IInv, ListInv, ListTypeOK
    <3> QED
      BY <3>1, <3>2, LruAssumption
  <2>2. PICK j \in Occupied : j # fresh
    BY SMT, <1>3, <2>1
  <2>3. Rank(j) < Rank(fresh) /\ Rank(fresh) <= Rank(j)
    BY <1>4, <1>5, <2>1, <2>2 DEF IInv, FreshInv
  <2>4. Rank(j) \in Nat /\ Rank(fresh) \in Nat
    BY <2>1, <2>2, OccupiedCell DEF Rank, IInv, CacheTypeOK
  <2> QED
    BY SMT, <2>3, <2>4
<1> QED
  BY <1>4, <1>5

\* An iteration of check_capacity, whether on_evict returns or panics.
LEMMA EvictKeeps ==
  ASSUME IInv, Evict
  PROVE  IInv'
<1>1. /\ pc = "check" /\ cache_size > capacity /\ RemoveCounted(back)
      /\ pc' \in {"check", "idle"} /\ fresh' = (IF pc' = "idle" THEN NoCell ELSE fresh)
      /\ capacity' = capacity /\ ops' = ops /\ used' = used /\ resizing' = resizing
      /\ entered' = entered /\ silent' = silent
  BY DEF Evict, ghosts
<1>2. back \in Occupied /\ back # fresh
  BY <1>1, VictimIsNotFresh
<1>3. /\ ListInv' /\ OrderInv' /\ Distinct' /\ store' = Occupied'
      /\ Occupied' = Occupied \ {back}
      /\ \A j \in Occupied \ {back} : Rank(j)' = Rank(j)
      /\ cache_size \in Nat /\ cache_size' \in Nat /\ cache_size' = cache_size - 1
      /\ evictions' = evictions + 1 /\ EvictionsExact'
  BY <1>1, <1>2, RemovedKeeps
<1>4. CacheTypeOK'
  BY SMT, <1>1, <1>3 DEF IInv, CacheTypeOK
<1>5. SizeInv'
  BY SMT, <1>1, <1>3 DEF IInv, SizeInv, CacheTypeOK
<1>6. FreshInv'
  <2> SUFFICES ASSUME fresh' # NoCell
               PROVE  /\ pc' = "check" /\ fresh' \in Occupied'
                      /\ \A j \in Occupied' \ {fresh'} : Rank(j)' < used'[value'[fresh']]
    BY DEF FreshInv, Rank
  <2>1. pc' = "check" /\ fresh' = fresh
    BY <1>1
  <2>2. fresh \in Occupied /\ \A j \in Occupied \ {fresh} : Rank(j) < Rank(fresh)
    BY <2>1 DEF IInv, FreshInv
  <2>3. fresh \in Occupied'
    BY <1>2, <1>3, <2>2
  <2>4. Rank(fresh)' = used'[value'[fresh']] /\ Rank(fresh)' = Rank(fresh)
    BY <1>2, <1>3, <2>1, <2>2 DEF Rank
  <2>5. \A j \in Occupied' \ {fresh'} : Rank(j)' < Rank(fresh)
    BY <1>3, <2>1, <2>2
  <2> QED
    BY <2>1, <2>3, <2>4, <2>5
<1> QED
  BY <1>1, <1>3, <1>4, <1>5, <1>6 DEF IInv

\* cache_remove
LEMMA CacheRemoveKeeps ==
  ASSUME IInv, NEW k \in Items, cache_remove(k)
  PROVE  IInv'
<1>1. /\ pc = "idle" /\ pc' = pc /\ ops' = ops + 1 /\ fresh' = fresh
      /\ capacity' = capacity /\ used' = used /\ resizing' = resizing
      /\ entered' = entered /\ silent' = silent
  BY DEF cache_remove, Begin, ghosts
<1>2. fresh = NoCell
  BY <1>1 DEF IInv, FreshInv
<1>3. /\ ListInv' /\ OrderInv' /\ Distinct' /\ store' = Occupied'
      /\ cache_size \in Nat /\ cache_size' \in Nat /\ cache_size' <= cache_size
      /\ evictions' \in Nat /\ EvictionsExact'
  <2>1. ASSUME NEW i \in get_index(k), RemoveCounted(i)
        PROVE  /\ ListInv' /\ OrderInv' /\ Distinct' /\ store' = Occupied'
               /\ cache_size \in Nat /\ cache_size' \in Nat /\ cache_size' <= cache_size
               /\ evictions' \in Nat /\ EvictionsExact'
    <3>1. i \in Occupied /\ evictions \in Nat
      BY DEF IInv, get_index, CacheTypeOK
    <3>2. /\ ListInv' /\ OrderInv' /\ Distinct' /\ store' = Occupied'
          /\ cache_size \in Nat /\ cache_size' \in Nat /\ cache_size' = cache_size - 1
          /\ evictions' = evictions + 1 /\ EvictionsExact'
      BY <1>1, <2>1, <3>1, RemovedKeeps
    <3> QED
      BY SMT, <3>1, <3>2
  <2>2. ASSUME UNCHANGED <<listVars, store, evictions>>
        PROVE  /\ ListInv' /\ OrderInv' /\ Distinct' /\ store' = Occupied'
               /\ cache_size \in Nat /\ cache_size' \in Nat /\ cache_size' <= cache_size
               /\ evictions' \in Nat /\ EvictionsExact'
    <3>1. /\ ListInv' /\ OrderInv' /\ Distinct' /\ store' = Occupied'
          /\ cache_size' = cache_size /\ cache_size \in Nat
      BY <1>1, <2>2, FrameKeeps
    <3>2. evictions' \in Nat /\ EvictionsExact'
      BY <1>1, <2>2, <3>1 DEF IInv, CacheTypeOK, EvictionsExact
    <3> QED
      BY SMT, <3>1, <3>2
  <2> QED
    BY <2>1, <2>2 DEF cache_remove
<1>4. CacheTypeOK'
  BY SMT, <1>1, <1>3 DEF IInv, CacheTypeOK
<1>5. SizeInv'
  BY SMT, <1>1, <1>3 DEF IInv, SizeInv, CacheTypeOK
<1>6. FreshInv'
  BY <1>1, <1>2 DEF FreshInv
<1> QED
  BY <1>1, <1>3, <1>4, <1>5, <1>6 DEF IInv

\* An iteration of retain's second loop.
LEMMA RetainStepKeeps ==
  ASSUME IInv, RetainStep
  PROVE  IInv'
<1>1. PICK i \in doomed :
         /\ RemoveCounted(i)
         /\ \/ doomed' = doomed \ {i} /\ pc' = pc
            \/ doomed' = {} /\ pc' = "idle"
  BY DEF RetainStep
<1>2. /\ pc = "retain" /\ fresh' = fresh /\ ops' = ops
      /\ capacity' = capacity /\ used' = used /\ resizing' = resizing
      /\ entered' = entered /\ silent' = silent
  BY DEF RetainStep, ghosts
<1>3. i \in Occupied /\ fresh = NoCell /\ doomed \subseteq Occupied
  BY <1>2 DEF IInv, FreshInv
<1>4. /\ ListInv' /\ OrderInv' /\ Distinct' /\ store' = Occupied'
      /\ Occupied' = Occupied \ {i}
      /\ cache_size \in Nat /\ cache_size' \in Nat /\ cache_size' = cache_size - 1
      /\ evictions' = evictions + 1 /\ EvictionsExact'
  BY <1>1, <1>2, <1>3, RemovedKeeps
<1>5. CacheTypeOK'
  BY SMT, <1>1, <1>2, <1>4 DEF IInv, CacheTypeOK
<1>6. SizeInv'
  BY SMT, <1>1, <1>2, <1>4 DEF IInv, SizeInv, CacheTypeOK
<1>7. doomed' \subseteq Occupied'
  BY <1>1, <1>3, <1>4
<1>8. FreshInv'
  BY <1>2, <1>3 DEF FreshInv
<1> QED
  BY <1>4, <1>5, <1>6, <1>7, <1>8 DEF IInv

\* The steps that touch no entry: the end of a loop, set_max_size, the start of
\* retain, cache_reset_metrics, and stuttering.
LEMMA ControlKeeps ==
  ASSUME IInv,
         \/ Checked \/ Retained \/ cache_reset_metrics \/ Done \/ UNCHANGED vars
         \/ \E n \in 0..MaxSize : set_max_size(n)
         \/ \E keep \in SUBSET Items : retain(keep)
  PROVE  IInv'
<1>1. UNCHANGED <<listVars, store, used>> /\ ops' \in {ops, ops + 1}
  BY DEF Checked, Retained, cache_reset_metrics, Done, set_max_size, retain, Begin, vars, cacheVars, ghosts
<1>2. /\ ListInv' /\ Distinct' /\ OrderInv' /\ store' = Occupied' /\ Occupied' = Occupied
      /\ \A j \in Occupied : Rank(j)' = Rank(j)
      /\ cache_size' = cache_size /\ cache_size \in Nat
  BY <1>1, FrameKeeps
<1>3. used' = used /\ value' = value
  BY <1>1 DEF listVars
<1>4. /\ capacity \in Nat \ {0} /\ evictions \in Nat /\ entered \in Nat /\ silent \in Nat /\ ops \in Nat
      /\ used \in [Items -> Nat] /\ pc \in {"idle", "check", "retain"}
      /\ entered = cache_size + evictions + silent
      /\ pc = "retain" => doomed \subseteq Occupied
      /\ pc # "check" => fresh = NoCell
  BY DEF IInv, CacheTypeOK, EvictionsExact, FreshInv
<1>5. CASE Checked
  <2>1. /\ pc' = "idle" /\ fresh' = NoCell /\ resizing' = FALSE /\ cache_size <= capacity
        /\ capacity' = capacity /\ evictions' = evictions /\ ops' = ops
        /\ entered' = entered /\ silent' = silent
    BY <1>5 DEF Checked
  <2> QED
    BY <1>2, <1>3, <1>4, <2>1 DEF IInv, CacheTypeOK, FreshInv, SizeInv, EvictionsExact
<1>6. CASE Retained
  <2>1. /\ pc = "retain" /\ pc' = "idle" /\ fresh' = fresh /\ resizing' = resizing
        /\ capacity' = capacity /\ evictions' = evictions /\ ops' = ops
        /\ entered' = entered /\ silent' = silent
    BY <1>6 DEF Retained, ghosts
  <2>2. SizeInv'
    BY <1>2, <2>1 DEF IInv, SizeInv
  <2> QED
    BY <1>2, <1>3, <1>4, <2>1, <2>2 DEF IInv, CacheTypeOK, FreshInv, EvictionsExact
<1>7. CASE cache_reset_metrics
  <2>1. /\ pc = "idle" /\ pc' = pc /\ fresh' = fresh /\ resizing' = resizing
        /\ capacity' = capacity /\ evictions' = 0 /\ ops' = ops + 1
        /\ entered' = cache_size /\ silent' = 0
    BY <1>7 DEF cache_reset_metrics, Begin
  <2>2. SizeInv'
    BY <1>2, <2>1 DEF IInv, SizeInv
  <2> QED
    BY SMT, <1>2, <1>3, <1>4, <2>1, <2>2 DEF IInv, CacheTypeOK, FreshInv, EvictionsExact
<1>8. CASE \E n \in 0..MaxSize : set_max_size(n)
  <2>1. /\ pc = "idle" /\ pc' = "check" /\ fresh' = fresh /\ resizing' = TRUE
        /\ capacity' \in Nat \ {0} /\ evictions' = evictions /\ ops' = ops + 1
        /\ entered' = entered /\ silent' = silent
    BY SMT, <1>8 DEF set_max_size, Begin
  <2> QED
    BY SMT, <1>2, <1>3, <1>4, <2>1 DEF IInv, CacheTypeOK, FreshInv, SizeInv, EvictionsExact
<1>9. CASE \E keep \in SUBSET Items : retain(keep)
  <2>1. /\ pc = "idle" /\ pc' = "retain" /\ fresh' = fresh /\ resizing' = resizing
        /\ capacity' = capacity /\ evictions' = evictions /\ ops' = ops + 1
        /\ entered' = entered /\ silent' = silent /\ doomed' \subseteq Occupied
    BY <1>9 DEF retain, Begin, ghosts
  <2>2. SizeInv'
    BY <1>2, <2>1 DEF IInv, SizeInv
  <2> QED
    BY SMT, <1>2, <1>3, <1>4, <2>1, <2>2 DEF IInv, CacheTypeOK, FreshInv, EvictionsExact
<1>10. CASE Done \/ UNCHANGED vars
  <2>1. /\ pc' = pc /\ fresh' = fresh /\ resizing' = resizing /\ doomed' = doomed
        /\ capacity' = capacity /\ evictions' = evictions /\ ops' = ops
        /\ entered' = entered /\ silent' = silent
    BY <1>10 DEF Done, vars, cacheVars, ghosts
  <2>2. FreshInv'
    BY <1>2, <1>3, <2>1 DEF IInv, FreshInv, Rank
  <2>3. SizeInv'
    BY <1>2, <2>1 DEF IInv, SizeInv
  <2> QED
    BY <1>2, <1>3, <1>4, <2>1, <2>2, <2>3 DEF IInv, CacheTypeOK, EvictionsExact
<1> QED
  BY <1>5, <1>6, <1>7, <1>8, <1>9, <1>10

\* cache_clear, cache_clear_with_on_evict and cache_reset leave a new table and
\* a new list, and their own account of what was in it.
LEMMA ClearingKeeps ==
  ASSUME IInv, cache_clear \/ cache_clear_with_on_evict \/ cache_reset
  PROVE  IInv'
<1>1. /\ pc = "idle" /\ pc' = pc /\ fresh' = fresh /\ ops' = ops + 1 /\ resizing' = resizing
      /\ capacity' = capacity /\ used' = used /\ clear /\ store' = {}
  BY DEF cache_clear, cache_clear_with_on_evict, cache_reset, Begin, ghosts
<1>2. ListInv' /\ Occupied' = {}
  BY <1>1, ClearKeeps
<1>3. cache_size' = 0
  BY <1>1, FS_EmptySet DEF cache_size
<1>4. /\ capacity \in Nat \ {0} /\ evictions \in Nat /\ entered \in Nat /\ silent \in Nat /\ ops \in Nat
      /\ entered = cache_size + evictions + silent /\ cache_size \in Nat
  BY StoreFinite DEF IInv, CacheTypeOK, EvictionsExact, cache_size
<1>5. evictions' \in Nat /\ entered' \in Nat /\ silent' \in Nat /\ entered' = evictions' + silent'
  <2>1. CASE cache_clear
    <3>1. silent' = silent + cache_size /\ evictions' = evictions /\ entered' = entered
      BY <2>1 DEF cache_clear
    <3> QED
      BY SMT, <1>4, <3>1
  <2>2. CASE cache_clear_with_on_evict
    <3>1. evictions' = evictions + cache_size /\ silent' = silent /\ entered' = entered
      BY <2>2 DEF cache_clear_with_on_evict, ghosts
    <3> QED
      BY SMT, <1>4, <3>1
  <2>3. CASE cache_reset
    BY SMT, <2>3 DEF cache_reset
  <2> QED
    BY <2>1, <2>2, <2>3
<1>6. CacheTypeOK'
  <2>1. /\ pc' = pc /\ ops' = ops + 1
        /\ capacity' = capacity /\ used' = used
    BY <1>1
  <2>2. ops' \in Nat /\ capacity' \in Nat \ {0}
    BY SMT, <1>4, <2>1
  <2>3. pc' \in {"idle", "check", "retain"} /\ used' \in [Items -> Nat]
    BY <2>1 DEF IInv, CacheTypeOK
  <2>4. evictions' \in Nat /\ entered' \in Nat /\ silent' \in Nat
    BY <1>5
  <2> QED
    BY <2>2, <2>3, <2>4 DEF CacheTypeOK
<1>7. EvictionsExact'
  BY SMT, <1>3, <1>5 DEF EvictionsExact
<1>8. OrderInv' /\ Distinct' /\ SizeInv'
  BY SMT, <1>1, <1>2, <1>3 DEF IInv, OrderInv, Distinct, SizeInv, CacheTypeOK
<1>9. FreshInv'
  BY <1>1 DEF IInv, FreshInv
<1> QED
  BY <1>1, <1>2, <1>6, <1>7, <1>8, <1>9 DEF IInv

\* The invariant holds of a new LruCache and is preserved by every operation.
THEOREM Invariance == Spec => []IInv
<1>1. Init => IInv
  <2> SUFFICES ASSUME Init PROVE IInv
    OBVIOUS
  <2>1. ListInv /\ Occupied = {}
    BY SMT DEF Init, ListInit, ListInv, ListTypeOK, LinksAgree, ListsApart, Cells, Occupied, FREE, OCCUPIED
  <2>2. cache_size = 0
    BY FS_EmptySet DEF Init, cache_size
  <2>3. CacheTypeOK
    <3>1. capacity \in Nat \ {0} /\ used \in [Items -> Nat]
      BY SMT, LruAssumption DEF Init
    <3> QED
      BY <3>1 DEF Init, CacheTypeOK
  <2>4. Distinct /\ OrderInv /\ FreshInv
    BY SMT, <2>1 DEF Init, Distinct, OrderInv, FreshInv
  <2>5. SizeInv /\ EvictionsExact
    BY SMT, <2>2, <2>3 DEF Init, SizeInv, EvictionsExact, CacheTypeOK
  <2> QED
    BY <2>1, <2>3, <2>4, <2>5 DEF IInv, Init
<1>2. IInv /\ [Next]_vars => IInv'
  BY GetKeeps, CacheSetKeeps, GetOrSetKeeps, CacheRemoveKeeps, EvictKeeps, RetainStepKeeps,
     ClearingKeeps, ControlKeeps DEF Next
<1> QED
  BY <1>1, <1>2, PTL DEF Spec

-----------------------------------------------------------------------------

\* WellFormed: the links of LRUList agree and the two lists stay apart as
\* LruCache drives them, wherever on_evict panics.
THEOREM ListStaysWellFormed == Spec => []WellFormed
<1>1. IInv => WellFormed
  BY DEF IInv, ListInv, WellFormed
<1> QED
  BY <1>1, Invariance, PTL

\* InSync: hash table and list name the same cells, one per key, so that
\* "LRU order and hash table out of sync" is never reached, and check_capacity
\* leaves the entry get_or_set_with_if has just inserted.
THEOREM TableAndListAgree == Spec => []InSync
<1>1. IInv => InSync
  BY DEF IInv, Distinct, FreshInv, InSync
<1> QED
  BY <1>1, Invariance, PTL

\* WithinCapacity: between operations the cache is within its capacity, unless
\* a panic stopped set_max_size.
THEOREM CapacityKept == Spec => []WithinCapacity
<1>1. ASSUME SizeInv, pc = "idle", ~resizing PROVE cache_size <= capacity
  BY <1>1 DEF SizeInv
<1>2. IInv => WithinCapacity
  BY <1>1 DEF IInv, WithinCapacity
<1> QED
  BY <1>2, Invariance, PTL

\* EvictionsExact: each entry that left the cache is counted once, except those
\* cache_clear dropped.
THEOREM EvictionsCounted == Spec => []EvictionsExact
<1>1. IInv => EvictionsExact
  BY DEF IInv
<1> QED
  BY <1>1, Invariance, PTL

\* EvictsLeastRecent: check_capacity evicts the key used least recently.
THEOREM LeastRecentEvicted == Spec => EvictsLeastRecent
<1> DEFINE Least == \A i \in store \ store' : \A j \in store : used[value[i]] <= used[value[j]]
<1>1. IInv /\ [Next]_vars => [pc = "check" => Least]_vars
  <2> SUFFICES ASSUME IInv, Next, pc = "check" PROVE Least
    OBVIOUS
  <2>1. ~Begin /\ pc # "retain" /\ ~Done
    BY DEF Begin, Done
  <2>2. Evict \/ Checked
    <3>1. \A k \in Items : ~cache_get(k) /\ ~cache_set(k) /\ ~get_or_set_with_if(k) /\ ~cache_remove(k)
      BY <2>1 DEF cache_get, cache_set, get_or_set_with_if, cache_remove
    <3>2. /\ \A n \in 0..MaxSize : ~set_max_size(n)
          /\ \A keep \in SUBSET Items : ~retain(keep)
      BY <2>1 DEF set_max_size, retain
    <3>3. ~RetainStep /\ ~Retained
      BY <2>1 DEF RetainStep, Retained
    <3>4. ~cache_clear /\ ~cache_clear_with_on_evict /\ ~cache_reset /\ ~cache_reset_metrics
      BY <2>1 DEF cache_clear, cache_clear_with_on_evict, cache_reset, cache_reset_metrics
    <3> QED
      BY <2>1, <3>1, <3>2, <3>3, <3>4 DEF Next
  <2>3. CASE Evict
    <3>1. cache_size > capacity /\ store' = store \ {back} /\ store = Occupied
      BY <2>3 DEF Evict, RemoveCounted, IInv
    <3>2. Occupied # {}
      BY <3>1, VictimIsNotFresh
    <3>3. \A j \in Occupied : Rank(back) <= Rank(j)
      BY <3>2, BackIsLeast DEF IInv
    <3> QED
      BY <3>1, <3>3 DEF Rank
  <2>4. CASE Checked
    BY <2>4 DEF Checked
  <2> QED
    BY <2>2, <2>3, <2>4
<1> QED
  BY <1>1, Invariance, PTL DEF Spec, EvictsLeastRecent
=============================================================================
