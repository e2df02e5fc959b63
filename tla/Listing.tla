------------------------------ MODULE Listing ------------------------------
(***************************************************************************)
(* A finite set as the sequence of its members in some order, and what     *)
(* list comprehensions and sort() make of a list: the members at some of   *)
(* its places, in their order or sorted.                                   *)
(***************************************************************************)
EXTENDS Integers, Sequences, FiniteSets

(* `before` is the set of pairs of members of which the first comes first. *)
Listed(S, before) ==
  [n \in 1..Cardinality(S) |->
     CHOOSE x \in S : Cardinality({y \in S : <<y, x>> \in before}) = n - 1]

Rising(places) == Listed(places, {p \in places \X places : p[1] < p[2]})
Filtered(s, places) ==
  LET order == Rising(places) IN [n \in 1..Cardinality(places) |-> s[order[n]]]

(* Tuples of one length in the order Python sorts them. *)
Precedes(x, y) ==
  \E i \in DOMAIN x : x[i] < y[i] /\ \A j \in 1..(i - 1) : x[j] = y[j]

(* `key` gives the key of each place. The sort is stable, as Python's is. *)
Before(key, i, j) == Precedes(key[i], key[j]) \/ (key[i] = key[j] /\ i < j)
ByKey(places, key) == Listed(places, {p \in places \X places : Before(key, p[1], p[2])})
Sorted(s, places, key) ==
  LET order == ByKey(places, key) IN [n \in 1..Cardinality(places) |-> s[order[n]]]
=============================================================================
