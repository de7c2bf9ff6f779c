------------------------------ MODULE Ascending ------------------------------
(***************************************************************************)
(* Finite sets in order, and what is left of a list when only some of its  *)
(* positions are kept.                                                     *)
(***************************************************************************)
EXTENDS Integers, FiniteSets

\* The elements of a finite set in the order of less, a function on pairs: the
\* place of an element is how many come before it.
Sorted(S, less) ==
    [k \in 1..Cardinality(S) |->
        CHOOSE x \in S : Cardinality({y \in S \ {x} : less[<<y, x>>]}) = k - 1]

\* The elements of a finite set of numbers, from the lowest to the highest.
Ascending(S) == Sorted(S, [pair \in S \X S |-> pair[1] < pair[2]])

\* The elements of the list at the positions, in the order of the list.
Only(list, positions) ==
    LET place == Ascending(positions) IN [k \in DOMAIN place |-> list[place[k]]]
=============================================================================
