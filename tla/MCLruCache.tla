----------------------------- MODULE MCLruCache -----------------------------
(***************************************************************************)
(* LruCache for TLC: what the iterator of its list yields, and that the    *)
(* list implements LruOrder under that abstraction, as the cache drives it.*)
(***************************************************************************)
EXTENDS LruCache, Sequences

\* iter_indices: the occupied cells from the sentinel's successor on.
RECURSIVE IterFrom(_)
IterFrom(i) == IF next[i] = OCCUPIED THEN <<>> ELSE <<next[i]>> \o IterFrom(next[i])

iter_indices == IterFrom(OCCUPIED)

iter == [p \in DOMAIN iter_indices |->
            [slot |-> iter_indices[p], item |-> value[iter_indices[p]]]]

Order == INSTANCE LruOrder WITH order <- iter

\* LRUList implements the sequence: each operation has the effect on what
\* iter() yields that the sequence's operation has, in a slot that stays.
ImplementsOrder == Order!Spec
=============================================================================
