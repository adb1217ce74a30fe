------------------------------ MODULE Selection ------------------------------
(***************************************************************************)
(* What a comprehension over a list leaves of it, in the order it had.     *)
(* Written without SelectSeq, which has no definition for the provers.     *)
(***************************************************************************)
EXTENDS Naturals, Sequences, FiniteSets

(* The k-th of the positions in K.                                           *)
Nth(K, k) == CHOOSE i \in K : Cardinality({j \in K : j <= i}) = k

Selected(s, K) == [k \in 1..Cardinality(K) |-> s[Nth(K, k)]]
=============================================================================
