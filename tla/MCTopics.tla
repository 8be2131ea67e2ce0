------------------------------- MODULE MCTopics -------------------------------
(* Topics for TLC. *)
EXTENDS Topics, TLC

\* SET_OFFSET: one that is refused, the start, and one past the end.
MCOffsets == {-1, 0, 2}

MCSymmetry == Permutations(Topic) \cup Permutations(Consumer)
=============================================================================
