----------------------------- MODULE Selections -----------------------------
(***************************************************************************)
(* What a loop collects that goes through a vector from front to back and  *)
(* takes the elements that pass a test.                                    *)
(***************************************************************************)
EXTENDS Integers, FiniteSets

\* The n-th smallest number of a set.
Nth(S, n) == CHOOSE i \in S : Cardinality({j \in S : j <= i}) = n

\* What stands at these places of a sequence, in its order.
Selected(s, places) == [n \in 1 .. Cardinality(places) |-> s[Nth(places, n)]]
=============================================================================
