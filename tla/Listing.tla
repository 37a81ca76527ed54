------------------------------- MODULE Listing -------------------------------
(***************************************************************************)
(* Lists in the order of a key, as Python's sort and list comprehensions   *)
(* make them.  A key is a triple of numbers, compared from the left; where *)
(* the sort of the code leaves two elements in the order they came in,     *)
(* their place is the last part of the key.                                *)
(***************************************************************************)
EXTENDS Naturals, Sequences, FiniteSets

Before(k, l) ==
    \/ k[1] < l[1]
    \/ k[1] = l[1] /\ k[2] < l[2]
    \/ k[1] = l[1] /\ k[2] = l[2] /\ k[3] < l[3]

Rank(key, p) == Cardinality({q \in DOMAIN key : Before(key[q], key[p])})

(* The places of key, which are finitely many and have different keys. *)
InOrder(key) ==
    [n \in 1 .. Cardinality(DOMAIN key) |-> CHOOSE p \in DOMAIN key : Rank(key, p) = n - 1]

Arranged(items, key) ==
    LET order == InOrder(key) IN [n \in 1 .. Cardinality(DOMAIN key) |-> items[order[n]]]

(* The items at some places of a list. *)
Picked(items, places) == Arranged(items, [p \in places |-> <<p, 0, 0>>])
=============================================================================
