---------------------------- MODULE OrderedLists ----------------------------
(* Lists as the client holds them, without recursion: the order of a query's  *)
(* rows, and what Array.prototype.filter leaves of a list.                    *)
EXTENDS Integers, Sequences, FiniteSets

\* The numbers of a finite set in their order.
InOrder(S) == [k \in 1..Cardinality(S) |-> CHOOSE n \in S : Cardinality({m \in S : m <= n}) = k]

\* The entries of a list at some of its places, in the order of the list.
Filtered(list, places) == LET at == InOrder(places) IN [k \in DOMAIN at |-> list[at[k]]]
=============================================================================
