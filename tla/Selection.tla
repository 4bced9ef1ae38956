------------------------------- MODULE Selection -------------------------------
(***************************************************************************)
(* Array.prototype.filter: the members of a sequence at chosen places, in  *)
(* their order.  Places and not a predicate choose them, so that what is   *)
(* left out can depend on what comes before.                               *)
(***************************************************************************)
EXTENDS Integers, Sequences, FiniteSets

\* How many of the places come up to p.
Rank(P, p) == Cardinality({q \in P : q <= p})

\* The place with n places up to it, itself included.
Nth(P, n) == CHOOSE p \in P : Rank(P, p) = n

Selected(s, P) == [n \in 1 .. Cardinality(P) |-> s[Nth(P, n)]]

\* The members of s that are in a set.
Among(s, T) == Selected(s, {i \in DOMAIN s : s[i] \in T})

=============================================================================
