------------------------------ MODULE Ordering ------------------------------
(***************************************************************************)
(* The lists the code makes of lists: filtered, and sorted by a comparison  *)
(* that breaks its ties by position, as Array.prototype.sort, which is      *)
(* stable, does.  A list is a function of its positions; a sorted one is    *)
(* that of the positions in their order, each the one that as many come     *)
(* before as are to its left.                                               *)
(***************************************************************************)
EXTENDS Integers, Sequences, FiniteSets, Functions

\* The members of a finite set, in the order of the pairs of `before'.
InOrder(S, before) ==
  [n \in 1..Cardinality(S) |-> CHOOSE i \in S : Cardinality({j \in S : <<j, i>> \in before}) = n - 1]

\* Of positions: the order of the list, and the stable ones by the numbers in `key'.
Listed(S) == {p \in S \X S : p[1] < p[2]}
Ascending(S, key) ==
  {p \in S \X S : key[p[1]] < key[p[2]] \/ (key[p[1]] = key[p[2]] /\ p[1] < p[2])}
Descending(S, key) ==
  {p \in S \X S : key[p[1]] > key[p[2]] \/ (key[p[1]] = key[p[2]] /\ p[1] < p[2])}

Arranged(list, order) == [n \in DOMAIN order |-> list[order[n]]]

\* The items of a list at some of its positions, in their order.
Selected(list, positions) == Arranged(list, InOrder(positions, Listed(positions)))
=============================================================================
