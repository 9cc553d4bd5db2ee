---------------------------- MODULE Subsequences ----------------------------
(***************************************************************************)
(* The elements of a sequence at some of its positions, in their order:    *)
(* what filter and filterNot of the queues' languages return.              *)
(***************************************************************************)
EXTENDS Integers, FiniteSets

\* The position with n - 1 positions of P below it.
Nth(P, n) == CHOOSE i \in P : Cardinality({k \in P : k <= i}) = n

Subsequence(s, P) == [n \in 1 .. Cardinality(P) |-> s[Nth(P, n)]]

=============================================================================
