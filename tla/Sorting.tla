-------------------------------- MODULE Sorting --------------------------------
(***************************************************************************)
(* Sets of numbers in their order, as Python's sorted gives it.            *)
(***************************************************************************)
EXTENDS Integers, FiniteSets

Before(S, x) == {y \in S : y < x}

(* sorted(S)[k]: the member that k others come before. *)
Nth(S, k) == CHOOSE x \in S : Cardinality(Before(S, x)) = k

InOrder(S) == [k \in 1 .. Cardinality(S) |-> Nth(S, k - 1)]
=============================================================================
