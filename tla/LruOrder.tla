------------------------------ MODULE LruOrder ------------------------------
(***************************************************************************)
(* What LRUList promises: a sequence of items, most recently used first,   *)
(* each in a slot that stays the same while the item is in the list.       *)
(***************************************************************************)
EXTENDS Naturals, Sequences

CONSTANT Items

VARIABLE order      \* the sequence of [slot, item]

Slots == {order[p].slot : p \in DOMAIN order}

Init == order = <<>>

\* A new item takes a slot nobody holds, at the front.
Push(item) ==
    /\ Len(order') = Len(order) + 1
    /\ Tail(order') = order
    /\ Head(order').item = item
    /\ Head(order').slot \in Nat \ Slots

Without(s) == SelectSeq(order, LAMBDA e : e.slot # s)

Entry(s) == order[CHOOSE p \in DOMAIN order : order[p].slot = s]

Touch(s) == order' = <<Entry(s)>> \o Without(s)

Remove(s) == order' = Without(s)

Replace(s, item) ==
    order' = [p \in DOMAIN order |->
                 IF order[p].slot = s THEN [slot |-> s, item |-> item] ELSE order[p]]

\* Replace and Touch at once.
Renew(s, item) == order' = <<[slot |-> s, item |-> item]>> \o Without(s)

Clear == order' = <<>>

Next ==
    \/ \E item \in Items : Push(item)
    \/ \E s \in Slots : Touch(s) \/ Remove(s)
    \/ \E s \in Slots, item \in Items : Replace(s, item) \/ Renew(s, item)
    \/ Clear

Spec == Init /\ [][Next]_order
=============================================================================
