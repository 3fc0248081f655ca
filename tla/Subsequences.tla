----------------------------- MODULE Subsequences -----------------------------
(***************************************************************************)
(* The places of a sequence that satisfy a condition, in their order: what *)
(* a loop that skips the others visits.  The places are counted and not    *)
(* recursed over, so that proofs can use them.                             *)
(***************************************************************************)
EXTENDS Integers, Sequences, FiniteSets

\* How many of the places L are no later than i.
Rank(L, i) == Cardinality({j \in L : j <= i})

Nth(L, m) == CHOOSE i \in L : Rank(L, i) = m

\* The entries of q at the places L.
Picked(q, L) == [m \in 1..Cardinality(L) |-> q[Nth(L, m)]]

\* q without its place i.
Without(q, i) == [j \in 1..(Len(q) - 1) |-> IF j < i THEN q[j] ELSE q[j + 1]]
===============================================================================
