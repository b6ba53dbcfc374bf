---------------------------- MODULE Subsequences ----------------------------
(***************************************************************************)
(* The elements of a sequence at some of its positions, in their order.    *)
(***************************************************************************)
EXTENDS Naturals, Sequences, FiniteSets

\* How many of the positions come no later than i.
Rank(I, i) == Cardinality({j \in I : j <= i})

\* The p-th of the positions.
Nth(I, p) == CHOOSE i \in I : Rank(I, i) = p

\* The elements of s at the positions I.
Pick(s, I) == [p \in 1..Cardinality(I) |-> s[Nth(I, p)]]
=============================================================================
