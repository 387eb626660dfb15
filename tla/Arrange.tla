------------------------------- MODULE Arrange -------------------------------
(* Lists in an order: the comprehensions and list.sort calls of the scripts. *)
(* As SetToSortSeq of the community modules, whose SortSeq the provers do    *)
(* not expand.                                                               *)
EXTENDS Naturals, FiniteSets, Sequences

\* The elements of S, each one before those it is to stand before.
Enumeration(S, before(_, _)) ==
    CHOOSE f \in [1 .. Cardinality(S) -> S] :
        \A i, j \in 1 .. Cardinality(S) : i < j => before(f[i], f[j])

\* The elements of a list at the places in S, in that order.
Arranged(list, S, before(_, _)) ==
    LET order == Enumeration(S, before)
    IN  [n \in 1 .. Cardinality(S) |-> list[order[n]]]

=============================================================================
