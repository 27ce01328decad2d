------------------------------- MODULE Selection -------------------------------
(***************************************************************************)
(* What a filter keeps of a sequence: the elements at the places S, in     *)
(* their order.  Sequences' SelectSeq computes the same from a predicate;  *)
(* its recursion is out of the reach of a proof, a rank among S is not.    *)
(***************************************************************************)
EXTENDS FiniteSets, Naturals, Sequences

\* The number of places up to i, and the place with a number.
Rank(S, i) == Cardinality({j \in S : j <= i})
Nth(S, r)  == CHOOSE i \in S : Rank(S, i) = r

AtPlaces(s, S) == [r \in 1..Cardinality(S) |-> s[Nth(S, r)]]
================================================================================
