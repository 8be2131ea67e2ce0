\* Three consumers in two groups.
CONSTANTS
  g1 = g1
  g2 = g2
  q1 = q1
  Nil = Nil
  Consumer = {1, 2, 3}
  Group = {g1, g2}
  Queue = {q1}
SPECIFICATION Spec
SYMMETRY MCSymmetry
INVARIANTS
  TypeOK
  MembersWatched
  ClosedForgotten
  NoOrphanMembers
  TakerIsMember
  EveryMemberInTurn
CHECK_DEADLOCK FALSE
