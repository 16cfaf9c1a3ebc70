------------------------------ MODULE Ordering ------------------------------
(***************************************************************************)
(* Lists in the order of a key, as ORDER BY and sorted() return them.      *)
(***************************************************************************)
EXTENDS Integers, Sequences, FiniteSets

\* The elements of a set by their keys, which are all different.
Ordered(S, key) ==
    [k \in 1 .. Cardinality(S) |->
        CHOOSE x \in S : Cardinality({y \in S : key[y] < key[x]}) = k - 1]

\* What a list has at some places, in its order.
Sublist(list, places) ==
    LET order == Ordered(places, [i \in places |-> i])
    IN  [k \in DOMAIN order |-> list[order[k]]]
=============================================================================
