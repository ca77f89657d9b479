------------------------------ MODULE Selections ------------------------------
(***************************************************************************)
(* What a Python list comprehension with a condition makes of a list: the  *)
(* elements at some of its positions, in their order.                      *)
(***************************************************************************)
EXTENDS Integers, Sequences, FiniteSets

\* The k-th of a set of positions, counted upwards.
Nth(P, k) == CHOOSE i \in P : Cardinality({j \in P : j <= i}) = k

\* The elements of s at the positions P.
Picked(s, P) == [k \in 1..Cardinality(P) |-> s[Nth(P, k)]]
=============================================================================
