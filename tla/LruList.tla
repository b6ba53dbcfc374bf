------------------------------- MODULE LruList -------------------------------
(***************************************************************************)
(* LRUList: a doubly linked list kept in a vector.  Every cell is on one   *)
(* of two cyclic lists: the free cells, linked through cell 0, and the     *)
(* occupied cells, linked through cell 1, most recently used first.        *)
(*                                                                         *)
(* `values` of the code is three functions of the cell's index.  The       *)
(* operations are actions on them, which a cache conjoins with its own.    *)
(***************************************************************************)
EXTENDS Naturals

CONSTANTS Items,    \* what a cell holds
          NoItem    \* None

ASSUME ItemsAssumption == NoItem \notin Items

VARIABLES size,     \* values.len()
          next,     \* values[i].next
          prev,     \* values[i].prev
          value     \* values[i].value

listVars == <<size, next, prev, value>>

FREE == 0
OCCUPIED == 1

Cells == 0..(size - 1)

\* The cells that hold an item.
Occupied == {i \in Cells : value[i] # NoItem}

ListTypeOK ==
    /\ size \in Nat /\ size >= 2
    /\ next \in [Cells -> Cells]
    /\ prev \in [Cells -> Cells]
    /\ value \in [Cells -> Items \cup {NoItem}]

\* with_capacity: the two sentinels, each linked to itself.
ListInit ==
    /\ size = 2
    /\ next = [i \in 0..1 |-> i]
    /\ prev = [i \in 0..1 |-> i]
    /\ value = [i \in 0..1 |-> NoItem]

-----------------------------------------------------------------------------

\* unlink: the neighbours of a cell are linked to each other.
UnlinkedNext(nx, pv, i) == [nx EXCEPT ![pv[i]] = nx[i]]
UnlinkedPrev(nx, pv, i) == [pv EXCEPT ![nx[i]] = pv[i]]

\* link_after: the cell goes between p and its successor.
LinkedNext(nx, i, p) == [nx EXCEPT ![i] = nx[p], ![p] = i]

\* Mutant: the successor's back link is forgotten.
LinkedPrevOneWay(nx, pv, i, p) == [pv EXCEPT ![i] = p]

LinkedPrev(nx, pv, i, p) == [pv EXCEPT ![i] = p, ![nx[p]] = i]

\* unlink(i), then link_after(i, p).
MovedNext(nx, pv, i, p) == LinkedNext(UnlinkedNext(nx, pv, i), i, p)
MovedPrev(nx, pv, i, p) ==
    LinkedPrev(UnlinkedNext(nx, pv, i), UnlinkedPrev(nx, pv, i), i, p)

Move(nx, pv, i, p) ==
    /\ next' = MovedNext(nx, pv, i, p)
    /\ prev' = MovedPrev(nx, pv, i, p)

move_to_front(i) ==
    /\ Move(next, prev, i, OCCUPIED)
    /\ UNCHANGED <<size, value>>

\* push_front makes a cell when the free list is empty.  The free sentinel and
\* the new cell are linked in one direction only; unlinking the cell repairs it.
MustGrow == next[FREE] = FREE

GrownNext == [j \in 0..size |-> IF j = FREE THEN size ELSE IF j = size THEN FREE ELSE next[j]]
GrownPrev == [j \in 0..size |-> IF j = size THEN FREE ELSE prev[j]]
GrownValue == [j \in 0..size |-> IF j = size THEN NoItem ELSE value[j]]

\* The cell push_front fills: the first free one, or the new one at the end.
FreshCell == IF MustGrow THEN size ELSE next[FREE]

\* Mutant: the item goes to the end of the list.
push_back(item) ==
    \/ /\ MustGrow
       /\ size' = size + 1
       /\ value' = [GrownValue EXCEPT ![FreshCell] = item]
       /\ Move(GrownNext, GrownPrev, FreshCell, prev[OCCUPIED])
    \/ /\ ~MustGrow
       /\ value' = [value EXCEPT ![FreshCell] = item]
       /\ Move(next, prev, FreshCell, prev[OCCUPIED])
       /\ UNCHANGED size

push_front(item) ==
    \/ /\ MustGrow
       /\ size' = size + 1
       /\ value' = [GrownValue EXCEPT ![FreshCell] = item]
       /\ Move(GrownNext, GrownPrev, FreshCell, OCCUPIED)
    \/ /\ ~MustGrow
       /\ value' = [value EXCEPT ![FreshCell] = item]
       /\ Move(next, prev, FreshCell, OCCUPIED)
       /\ UNCHANGED size

\* remove: the cell goes to the free list and its item is taken out.
remove(i) ==
    /\ Move(next, prev, i, FREE)
    /\ value' = [value EXCEPT ![i] = NoItem]
    /\ UNCHANGED size

\* back: the least recently used cell, or the sentinel of an empty list.
back == prev[OCCUPIED]

set(i, item) ==
    /\ value' = [value EXCEPT ![i] = item]
    /\ UNCHANGED <<size, next, prev>>

\* clear, also the end of drain_into: only the sentinels remain.
clear ==
    /\ size' = 2
    /\ next' = [i \in 0..1 |-> i]
    /\ prev' = [i \in 0..1 |-> i]
    /\ value' = [i \in 0..1 |-> NoItem]

-----------------------------------------------------------------------------
(* The list by itself, as LruCache drives it: only cells that hold an item *)
(* are moved, replaced or removed.                                         *)

ListNext ==
    \/ \E item \in Items : push_front(item)
    \/ \E i \in Occupied : move_to_front(i) \/ remove(i)
    \/ \E i \in Occupied, item \in Items : set(i, item)
    \/ clear

ListSpec == ListInit /\ [][ListNext]_listVars

\* Following next and then prev, or prev and then next, comes back: the links
\* of every cell agree in both directions.
LinksAgree ==
    \A i \in Cells : prev[next[i]] = i /\ next[prev[i]] = i

\* No link crosses from one list to the other: a cell that holds an item is
\* only reachable from cells that hold one or the occupied sentinel.
ListsApart ==
    /\ value[FREE] = NoItem /\ value[OCCUPIED] = NoItem
    /\ \A i \in Cells :
          i \in Occupied \cup {OCCUPIED} <=> next[i] \in Occupied \cup {OCCUPIED}

\* The two lists of LRUList are rings of their own, whatever sequence of
\* push_front, move_to_front, set, remove and clear made them.
WellFormed == LinksAgree /\ ListsApart
=============================================================================
