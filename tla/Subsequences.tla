---------------------------- MODULE Subsequences ----------------------------
(***************************************************************************)
(* What a loop that copies some elements of a slice leaves, and the order  *)
(* a sort puts numbers in, by the rank of each element: without recursion, *)
(* so that it can be reasoned about.                                       *)
(***************************************************************************)
EXTENDS Integers, Sequences, FiniteSets

\* The i-th smallest of the numbers K.
Nth(K, i) == CHOOSE k \in K : Cardinality({j \in K : j < k}) = i - 1

\* The elements of s at the indices K, and those in the set S, in the order of s.
Subsequence(s, K) == [i \in 1..Cardinality(K) |-> s[Nth(K, i)]]
Among(s, S) == Subsequence(s, {i \in DOMAIN s : s[i] \in S})
=============================================================================
