--------------------------- MODULE MCConsumerGroups ---------------------------
(* ConsumerGroups for TLC. *)
EXTENDS ConsumerGroups, TLC

MCSymmetry == Permutations(Group)
=============================================================================
