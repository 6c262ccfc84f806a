------------------------------ MODULE IndexOrder ------------------------------
(***************************************************************************)
(* A loop over an array by index: what it visits i-th.                      *)
(***************************************************************************)
EXTENDS Naturals, FiniteSets

\* The i-th smallest of the indices in S has i - 1 smaller ones.
Nth(S, i) == CHOOSE x \in S : Cardinality({y \in S : y < x}) = i - 1
=============================================================================
