------------------------------ MODULE Positions ------------------------------
(* The elements of a sequence at some of its positions, in their order. *)
EXTENDS Naturals, Sequences, FiniteSets

\* The elements of S, a set of positions up to n, in ascending order: in front
\* of the k-th one are exactly the positions up to which fewer than k elements
\* of S are found.
Ascending(S, n) ==
  [k \in 1..Cardinality(S) |->
     1 + Cardinality({i \in 1..n : Cardinality(S \cap (1..i)) < k})]

\* What is left of s when only the positions in S are kept.
Keep(s, S) ==
  [k \in 1..Cardinality(S) |-> s[Ascending(S, Len(s))[k]]]

=============================================================================
