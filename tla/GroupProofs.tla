----------------------------- MODULE GroupProofs -----------------------------
(* Proofs about ConsumerGroups, for any number of consumers and groups.     *)
EXTENDS ConsumerGroups, SortingProofs

(* TakerIsMember is not inductive: a member is selected on the way from     *)
(* join_group.  From there on it is in a group that exists, and not silent, *)
(* so that the heartbeat check passes it by.                                *)
InRotation(c) == pc[c] \in {"next", "take"}

RotatesAsMember ==
  \A c \in Consumer :
    InRotation(c) =>
      cur_g[c] \in groups /\ c \in members[cur_g[c]] /\ c \notin silent

GroupInv ==
  TypeOK /\ MembersWatched /\ ClosedForgotten /\ NoOrphanMembers /\ RotatesAsMember

LEMMA AdvanceType ==
  ASSUME NEW S \in SUBSET Consumer, S # {}, NEW i \in 0 .. Cardinality(Consumer)
  PROVE  Advance(S, i) \in 0 .. Cardinality(Consumer)
<1>1. IsFiniteSet(S) /\ Cardinality(S) <= Cardinality(Consumer)
  BY GroupAssumption, FS_Subset
<1>2. Cardinality(S) \in Nat /\ Cardinality(S) # 0 /\ Cardinality(Consumer) \in Nat
  BY <1>1, GroupAssumption, FS_CardinalityType, FS_EmptySet
<1>3. (i + 1) % Cardinality(S) \in 0 .. Cardinality(S) - 1
  BY <1>2
<1> QED
  BY <1>1, <1>2, <1>3 DEF Advance

LEMMA GroupInit == Init => GroupInv
<1> SUFFICES ASSUME Init
             PROVE  GroupInv
  OBVIOUS
<1>1. Cardinality(Consumer) \in Nat
  BY GroupAssumption, FS_CardinalityType
<1>2. TypeOK
  BY <1>1 DEF Init, TypeOK, Steps
<1> QED
  BY <1>2 DEF Init, GroupInv, MembersWatched, ClosedForgotten, NoOrphanMembers,
              RotatesAsMember, InRotation

LEMMA NewGroupInv ==
  ASSUME GroupInv, NEW g \in Group, NEW target \in Queue, NewGroup(g, target),
         UNCHANGED aliveVars
  PROVE  /\ groups' \subseteq Group
         /\ members' \in [Group -> SUBSET Consumer]
         /\ group_target' \in [Group -> Queue \cup {Nil}]
         /\ next_index' \in [Group -> 0 .. Cardinality(Consumer)]
         /\ members' = members
         /\ MembersWatched' /\ NoOrphanMembers'
<1> USE DEF GroupInv
<1>1. Cardinality(Consumer) \in Nat
  BY GroupAssumption, FS_CardinalityType
<1>2. members' = members
  BY DEF NewGroup, NoOrphanMembers, TypeOK
<1> QED
  BY <1>1, <1>2 DEF NewGroup, TypeOK, MembersWatched, NoOrphanMembers, aliveVars

LEMMA GroupStep == GroupInv /\ [Next]_vars => GroupInv'
<1> SUFFICES ASSUME GroupInv, [Next]_vars
             PROVE  GroupInv'
  OBVIOUS
<1> USE DEF GroupInv
<1>1. ASSUME NEW c \in Consumer, NEW g \in Group, NEW q \in Queue, CreateGroup(c, g, q)
      PROVE  GroupInv'
  <2>1. NewGroup(g, q) /\ UNCHANGED <<aliveVars, threadVars>>
    BY <1>1 DEF CreateGroup
  <2>2. TypeOK'
    BY <2>1, NewGroupInv DEF TypeOK, aliveVars, threadVars
  <2>3. ClosedForgotten' /\ RotatesAsMember'
    BY <2>1, NewGroupInv DEF NewGroup, ClosedForgotten, RotatesAsMember, InRotation, TypeOK,
                            aliveVars, threadVars
  <2> QED
    BY <2>1, <2>2, <2>3, NewGroupInv
<1>2. ASSUME NEW c \in Consumer, NEW g \in Group, NEW q \in Queue, ConsumeGroup(c, q, g)
      PROVE  GroupInv'
  <2>1. TypeOK'
    BY <1>2 DEF ConsumeGroup, TypeOK, Steps, managerVars, aliveVars
  <2> QED
    BY <1>2, <2>1 DEF ConsumeGroup, TypeOK, MembersWatched, ClosedForgotten, NoOrphanMembers,
                      RotatesAsMember, InRotation, managerVars, aliveVars
<1>3. ASSUME NEW c \in Consumer, NEW g \in Group, DeleteGroup(c, g)
      PROVE  GroupInv'
  <2>1. TypeOK'
    BY <1>3 DEF DeleteGroup, TypeOK, aliveVars, threadVars
  <2> QED
    BY <1>3, <2>1 DEF DeleteGroup, TypeOK, MembersWatched, ClosedForgotten, NoOrphanMembers,
                      RotatesAsMember, InRotation, aliveVars, threadVars
<1>4. ASSUME NEW c \in Consumer, NEW g \in Group, LeaveGroup(c, g)
      PROVE  GroupInv'
  <2>1. TypeOK'
    BY <1>4 DEF LeaveGroup, TypeOK, aliveVars, threadVars
  <2>2. RotatesAsMember'
    BY <1>4 DEF LeaveGroup, TypeOK, RotatesAsMember, InRotation, aliveVars, threadVars
  <2> QED
    BY <1>4, <2>1, <2>2 DEF LeaveGroup, TypeOK, MembersWatched, ClosedForgotten, NoOrphanMembers,
                            aliveVars, threadVars
<1>5. ASSUME NEW c \in Consumer, Disconnect(c)
      PROVE  GroupInv'
  <2>1. TypeOK'
    BY <1>5 DEF Disconnect, WithoutAll, TypeOK, Steps
  <2>2. RotatesAsMember'
    BY <1>5 DEF Disconnect, WithoutAll, TypeOK, RotatesAsMember, InRotation
  <2>3. ClosedForgotten'
    BY <1>5 DEF Disconnect, WithoutAll, TypeOK, ClosedForgotten
  <2> QED
    BY <1>5, <2>1, <2>2, <2>3 DEF Disconnect, WithoutAll, TypeOK, MembersWatched, NoOrphanMembers
<1>6. ASSUME NEW c \in Consumer, QueueExists(c)
      PROVE  GroupInv'
  <2>1. TypeOK'
    BY <1>6 DEF QueueExists, GoTo, Return, TypeOK, Steps, managerVars, aliveVars
  <2> QED
    BY <1>6, <2>1 DEF QueueExists, GoTo, Return, TypeOK, MembersWatched, ClosedForgotten,
                      NoOrphanMembers, RotatesAsMember, InRotation, managerVars, aliveVars
<1>7. ASSUME NEW c \in Consumer, CreateMissing(c)
      PROVE  GroupInv'
  <2>1. cur_g[c] \in Group /\ cur_q[c] \in Queue
    BY <1>7 DEF CreateMissing, TypeOK
  <2>2. CASE NewGroup(cur_g[c], cur_q[c]) /\ GoTo(c, "join")
    <3>1. UNCHANGED aliveVars
      BY <1>7 DEF CreateMissing
    <3>2. TypeOK'
      BY <2>1, <2>2, <3>1, NewGroupInv DEF GoTo, TypeOK, Steps, aliveVars
    <3>3. ClosedForgotten' /\ RotatesAsMember'
      BY <2>1, <2>2, <3>1, NewGroupInv
         DEF NewGroup, GoTo, ClosedForgotten, RotatesAsMember, InRotation, TypeOK, aliveVars
    <3> QED
      BY <2>1, <2>2, <3>1, <3>2, <3>3, NewGroupInv
  <2>3. CASE Return(c) /\ UNCHANGED managerVars
    <3>1. TypeOK'
      BY <1>7, <2>3 DEF CreateMissing, Return, TypeOK, Steps, managerVars, aliveVars
    <3> QED
      BY <1>7, <2>3, <3>1
         DEF CreateMissing, Return, TypeOK, MembersWatched, ClosedForgotten, NoOrphanMembers,
             RotatesAsMember, InRotation, managerVars, aliveVars
  <2> QED
    BY <1>7, <2>2, <2>3 DEF CreateMissing
<1>8. ASSUME NEW c \in Consumer, Join(c)
      PROVE  GroupInv'
  <2> DEFINE g == cur_g[c]
  <2>1. g \in Group /\ pc[c] = "join"
    BY <1>8 DEF Join, TypeOK
  <2>2. CASE g \in groups
    <3>1. /\ members' = [members EXCEPT ![g] = @ \cup {c}]
          /\ heartbeats' = heartbeats \cup {c} /\ silent' = silent \ {c}
          /\ GoTo(c, "next")
          /\ UNCHANGED <<groups, group_target, next_index>>
      BY <1>8, <2>2 DEF Join
    <3>2. TypeOK'
      BY <2>1, <3>1 DEF GoTo, TypeOK, Steps
    <3>3. ClosedForgotten'
      BY <2>1, <3>1 DEF GoTo, TypeOK, ClosedForgotten
    <3>4. RotatesAsMember'
      BY <2>1, <2>2, <3>1 DEF GoTo, TypeOK, RotatesAsMember, InRotation
    <3> QED
      BY <2>1, <2>2, <3>1, <3>2, <3>3, <3>4 DEF TypeOK, MembersWatched, NoOrphanMembers
  <2>3. CASE g \notin groups
    <3>1. Return(c) /\ UNCHANGED <<managerVars, aliveVars>>
      BY <1>8, <2>3 DEF Join, managerVars, aliveVars
    <3>2. TypeOK'
      BY <3>1 DEF Return, TypeOK, Steps, managerVars, aliveVars
    <3> QED
      BY <2>1, <3>1, <3>2
         DEF Return, TypeOK, MembersWatched, ClosedForgotten, NoOrphanMembers,
             RotatesAsMember, InRotation, managerVars, aliveVars
  <2> QED
    BY <2>2, <2>3
<1>9. ASSUME NEW c \in Consumer, NextConsumer(c)
      PROVE  GroupInv'
  <2>1. /\ UNCHANGED <<groups, members, group_target, aliveVars>>
        /\ pc[c] = "next" /\ cur_g[c] \in Group
        /\ GoTo(c, "take") \/ Return(c)
    BY <1>9 DEF NextConsumer, TypeOK
  <2>2. next_index' \in [Group -> 0 .. Cardinality(Consumer)]
    <3> DEFINE g == cur_g[c]
    <3>1. CASE members[g] # {} /\ next_index' = [next_index EXCEPT ![g] = Advance(members[g], @)]
      <4>1. Advance(members[g], next_index[g]) \in 0 .. Cardinality(Consumer)
        BY <2>1, <3>1, AdvanceType DEF TypeOK
      <4> QED
        BY <2>1, <3>1, <4>1 DEF TypeOK
    <3>2. CASE UNCHANGED next_index
      BY <3>2 DEF TypeOK
    <3> QED
      BY <1>9, <3>1, <3>2 DEF NextConsumer
  <2>3. TypeOK'
    BY <2>1, <2>2 DEF GoTo, Return, TypeOK, Steps, aliveVars
  <2> QED
    BY <2>1, <2>3
       DEF GoTo, Return, TypeOK, MembersWatched, ClosedForgotten, NoOrphanMembers,
           RotatesAsMember, InRotation, aliveVars
<1>10. ASSUME NEW c \in Consumer, Take(c)
       PROVE  GroupInv'
  <2>1. TypeOK'
    BY <1>10 DEF Take, Return, TypeOK, Steps, managerVars, aliveVars
  <2> QED
    BY <1>10, <2>1
       DEF Take, Return, TypeOK, MembersWatched, ClosedForgotten, NoOrphanMembers,
           RotatesAsMember, InRotation, managerVars, aliveVars
<1>11. ASSUME NEW c \in Consumer, FallSilent(c)
       PROVE  GroupInv'
  <2>1. TypeOK'
    BY <1>11 DEF FallSilent, TypeOK, managerVars, threadVars
  <2> QED
    BY <1>11, <2>1
       DEF FallSilent, TypeOK, MembersWatched, ClosedForgotten, NoOrphanMembers,
           RotatesAsMember, InRotation, managerVars, threadVars
<1>12. ASSUME CheckHeartbeats
       PROVE  GroupInv'
  <2>1. TypeOK'
    BY <1>12 DEF CheckHeartbeats, WithoutAll, TypeOK, threadVars
  <2>2. RotatesAsMember'
    BY <1>12 DEF CheckHeartbeats, WithoutAll, TypeOK, RotatesAsMember, InRotation, threadVars
  <2> QED
    BY <1>12, <2>1, <2>2
       DEF CheckHeartbeats, WithoutAll, TypeOK, MembersWatched, ClosedForgotten,
           NoOrphanMembers, threadVars
<1>13. CASE UNCHANGED vars
  BY <1>13
     DEF vars, managerVars, aliveVars, threadVars, TypeOK, MembersWatched, ClosedForgotten,
         NoOrphanMembers, RotatesAsMember, InRotation
<1> QED
  BY <1>1, <1>2, <1>3, <1>4, <1>5, <1>6, <1>7, <1>8, <1>9, <1>10, <1>11, <1>12, <1>13
     DEF Next, Command, RunsOn

LEMMA GroupInvariant == Spec => []GroupInv
BY GroupInit, GroupStep, PTL DEF Spec

-----------------------------------------------------------------------------
(* Type correctness; above all, the rotation's position stays bounded       *)
(* however groups shrink and grow (next_consumer).                          *)
THEOREM GroupTypes == Spec => []TypeOK
BY GroupInvariant, PTL DEF GroupInv

(* No member escapes the heartbeat check (join_group, leave_group).         *)
THEOREM MembersStayWatched == Spec => []MembersWatched
BY GroupInvariant, PTL DEF GroupInv

(* A connection that has closed is in no group                              *)
(* (remove_consumer_from_all_groups).                                       *)
THEOREM ClosedStayForgotten == Spec => []ClosedForgotten
BY GroupInvariant, PTL DEF GroupInv

(* A deleted group leaves no member behind, and a new one of its name       *)
(* starts empty (delete_group, create_group).                               *)
THEOREM NoMemberOrphaned == Spec => []NoOrphanMembers
BY GroupInvariant, PTL DEF GroupInv

(* Whoever goes to the queue for its group is a member of it, and the group *)
(* exists, for every interleaving of the five calls of CONSUME_GROUP        *)
(* (_cmd_consume_group).                                                    *)
THEOREM TakersBelong == Spec => []TakerIsMember
<1>1. GroupInv => TakerIsMember
  BY DEF GroupInv, RotatesAsMember, InRotation, TakerIsMember
<1> QED
  BY <1>1, GroupInvariant, PTL
-----------------------------------------------------------------------------
(* The rotation.  Integer division, as far as it is needed.                 *)
LEMMA Multiples ==
  ASSUME NEW n \in Nat \ {0}, NEW d \in Int, d # 0
  PROVE  n * d >= n \/ n * d <= -n
<1>1. CASE d >= 1
  <2>1. d - 1 \in Nat /\ n * (d - 1) >= 0 /\ n * d = n * (d - 1) + n
    BY <1>1
  <2> QED
    BY <2>1
<1>2. CASE d <= -1
  <2>1. -1 - d \in Nat /\ n * (-1 - d) >= 0 /\ n * d = -(n * (-1 - d)) - n
    BY <1>2
  <2> QED
    BY <2>1
<1> QED
  BY <1>1, <1>2

LEMMA Remainder ==
  ASSUME NEW n \in Nat \ {0}, NEW q \in Int, NEW r \in 0 .. n - 1
  PROVE  (n * q + r) % n = r
<1> DEFINE m == n * q + r
           d == q - (m \div n)
<1>1. m \in Int /\ (m \div n) \in Int /\ (m % n) \in 0 .. n - 1
  OBVIOUS
<1>2. m = n * (m \div n) + (m % n)
  BY <1>1
<1>3. n * d = (m % n) - r
  BY <1>1, <1>2
<1> HIDE DEF m
<1>4. d = 0
  <2>1. d \in Int /\ -n < (m % n) - r /\ (m % n) - r < n
    BY <1>1
  <2> HIDE DEF d
  <2>2. d # 0 => n * d >= n \/ n * d <= -n
    BY <2>1, Multiples
  <2> QED
    BY <1>3, <2>1, <2>2
<1>5. n * d = 0
  BY <1>4
<1> QED
  BY <1>1, <1>3, <1>5 DEF m

LEMMA NextRemainder ==
  ASSUME NEW n \in Nat \ {0}, NEW i \in Nat
  PROVE  /\ (i % n) \in 0 .. n - 1
         /\ (i + 1) % n = IF (i % n) + 1 = n THEN 0 ELSE (i % n) + 1
<1>1. (i \div n) \in Int /\ (i % n) \in 0 .. n - 1 /\ i = n * (i \div n) + (i % n)
  OBVIOUS
<1>2. CASE (i % n) + 1 = n
  <2>1. i + 1 = n * ((i \div n) + 1) + 0
    BY <1>1, <1>2
  <2>2. (n * ((i \div n) + 1) + 0) % n = 0
    BY <1>1, Remainder
  <2> QED
    BY <1>1, <1>2, <2>1, <2>2
<1>3. CASE (i % n) + 1 # n
  <2>1. i + 1 = n * (i \div n) + ((i % n) + 1) /\ (i % n) + 1 \in 0 .. n - 1
    BY <1>1, <1>3
  <2>2. (n * (i \div n) + ((i % n) + 1)) % n = (i % n) + 1
    BY <1>1, <2>1, Remainder
  <2> QED
    BY <1>1, <1>3, <2>1, <2>2
<1> QED
  BY <1>2, <1>3

(* k selections after a member of rank r it is the turn of this one.        *)
Turn(n, r, k) == IF r + k < n THEN r + k ELSE r + k - n

LEMMA TurnAdvances ==
  ASSUME NEW n \in Nat \ {0}, NEW r \in 0 .. n - 1, NEW k \in 1 .. n - 1
  PROVE  /\ Turn(n, r, k - 1) \in 0 .. n - 1 /\ Turn(n, r, k) \in 0 .. n - 1
         /\ Turn(n, r, k) = IF Turn(n, r, k - 1) + 1 = n THEN 0 ELSE Turn(n, r, k - 1) + 1
BY DEF Turn

(* next_consumer names all members in turn, from whatever position.         *)
LEMMA AllSelected ==
  ASSUME NEW S \in SUBSET Consumer, S # {}, NEW i \in Nat
  PROVE  Selections(S, i, Cardinality(S)) = S
<1> DEFINE n == Cardinality(S)
           D == 0 .. n - 1
           r == i % n
           IsPosition(p) == p = [k \in D |-> IF k = 0 THEN i ELSE Advance(S, p[k - 1])]
           position == CHOOSE p : IsPosition(p)
<1>1. S \in SUBSET Nat /\ IsFiniteSet(S) /\ n \in Nat \ {0}
  BY GroupAssumption, FS_Subset, FS_CardinalityType, FS_EmptySet
<1>2. r \in D
  BY <1>1, NextRemainder
<1> HIDE DEF n, r
<1>3. \E p : IsPosition(p)
  <2> DEFINE p == [k \in D |-> IF k = 0 THEN i ELSE Turn(n, r, k)]
  <2>1. ASSUME NEW k \in D, k # 0
        PROVE  Turn(n, r, k) = Advance(S, p[k - 1])
    <3>1. k \in 1 .. n - 1 /\ k - 1 \in D
      BY <1>1, <2>1
    <3>2. CASE k = 1
      <4>1. Turn(n, r, 1) = IF r + 1 = n THEN 0 ELSE r + 1
        BY <1>1, <1>2 DEF Turn
      <4>2. (i + 1) % n = IF r + 1 = n THEN 0 ELSE r + 1
        BY <1>1, NextRemainder DEF r
      <4> QED
        BY <3>1, <3>2, <4>1, <4>2 DEF Advance, n
    <3>3. CASE k # 1
      <4>1. p[k - 1] = Turn(n, r, k - 1)
        BY <1>1, <3>1, <3>3
      <4>2. Turn(n, r, k - 1) \in 0 .. n - 1
            /\ Turn(n, r, k) = IF Turn(n, r, k - 1) + 1 = n THEN 0 ELSE Turn(n, r, k - 1) + 1
        BY <1>1, <1>2, <3>1, TurnAdvances
      <4>3. ASSUME NEW x \in 0 .. n - 1
            PROVE  (x + 1) % n = IF x + 1 = n THEN 0 ELSE x + 1
        <5>1. x \in Nat /\ (x % n) = x
          BY <1>1
        <5>2. (x + 1) % n = IF (x % n) + 1 = n THEN 0 ELSE (x % n) + 1
          BY <1>1, <5>1, NextRemainder
        <5> QED
          BY <5>1, <5>2
      <4> QED
        BY <4>1, <4>2, <4>3 DEF Advance, n
    <3> QED
      BY <3>2, <3>3
  <2>2. p = [k \in D |-> IF k = 0 THEN i ELSE Advance(S, p[k - 1])]
    BY <2>1
  <2> QED
    BY <2>2
<1>4. IsPosition(position)
  BY <1>3
<1> HIDE DEF position
<1>5. \A k \in D : position[k] \in Nat /\ (position[k] % n) = Turn(n, r, k)
  <2> DEFINE Wrong == {k \in D : ~(position[k] \in Nat /\ (position[k] % n) = Turn(n, r, k))}
  <2>1. ASSUME NEW k \in Wrong, \A m \in Wrong : k <= m
        PROVE  FALSE
    <3>1. k # 0
      <4>1. position[0] = i /\ 0 \in D
        BY <1>1, <1>4
      <4>2. Turn(n, r, 0) = r
        BY <1>1, <1>2 DEF Turn
      <4> QED
        BY <2>1, <4>1, <4>2 DEF r
    <3>2. k \in 1 .. n - 1 /\ k - 1 \in D /\ k - 1 \notin Wrong
      BY <1>1, <2>1, <3>1
    <3>3. position[k] = (position[k - 1] + 1) % n
      BY <1>4, <3>1, <3>2 DEF Advance, n
    <3>4. position[k - 1] \in Nat /\ (position[k - 1] % n) = Turn(n, r, k - 1)
      BY <3>2
    <3>5. position[k] = Turn(n, r, k) /\ Turn(n, r, k) \in 0 .. n - 1
      <4>1. (position[k - 1] + 1) % n
              = IF (position[k - 1] % n) + 1 = n THEN 0 ELSE (position[k - 1] % n) + 1
        BY <1>1, <3>4, NextRemainder
      <4>2. Turn(n, r, k) \in 0 .. n - 1
            /\ Turn(n, r, k) = IF Turn(n, r, k - 1) + 1 = n THEN 0 ELSE Turn(n, r, k - 1) + 1
        BY <1>1, <1>2, <3>2, TurnAdvances
      <4> QED
        BY <3>3, <3>4, <4>1, <4>2
    <3>6. \A x \in 0 .. n - 1 : x \in Nat /\ (x % n) = x
      BY <1>1
    <3> QED
      BY <2>1, <3>5, <3>6
  <2>2. Wrong \in SUBSET Nat
    BY <1>1
  <2> HIDE DEF Wrong
  <2>3. Wrong = {}
    BY <2>1, <2>2, LeastNumber
  <2> QED
    BY <2>3 DEF Wrong
<1>6. Selections(S, i, n) = {Nth(S, Turn(n, r, k)) : k \in D}
  <2>1. Selections(S, i, n) = {MemberAt(S, position[k]) : k \in D}
    BY DEF Selections, position, n
  <2>2. \A k \in D : MemberAt(S, position[k]) = Nth(S, Turn(n, r, k))
    BY <1>5 DEF MemberAt, n
  <2> QED
    BY <2>1, <2>2
<1>7. ASSUME NEW k \in D
      PROVE  Nth(S, Turn(n, r, k)) \in S
  <2>1. Turn(n, r, k) \in 0 .. n - 1
    BY <1>1, <1>2 DEF Turn
  <2> QED
    BY <1>1, <2>1, NthRank DEF n
<1>8. ASSUME NEW x \in S
      PROVE  \E k \in D : Nth(S, Turn(n, r, k)) = x
  <2> DEFINE h == Rank(S, x)
             k == IF h >= r THEN h - r ELSE h - r + n
  <2>1. h \in 0 .. n - 1
    BY <1>1, RankType DEF n
  <2> HIDE DEF h
  <2>2. k \in D /\ Turn(n, r, k) = h
    BY <1>1, <1>2, <2>1 DEF Turn
  <2>3. Nth(S, h) = x
    BY <1>1, NthOfRank DEF h
  <2> QED
    BY <2>2, <2>3
<1> QED
  BY <1>6, <1>7, <1>8 DEF n

(* From any position, and however the members came and went before, as many *)
(* calls of next_consumer as there are members select each of them.         *)
THEOREM EveryMemberSelected == Spec => []EveryMemberInTurn
<1>1. TypeOK => EveryMemberInTurn
  <2>1. ASSUME TypeOK, NEW g \in groups, members[g] # {}
        PROVE  Selections(members[g], next_index[g], Cardinality(members[g])) = members[g]
    <3>1. g \in Group /\ members[g] \in SUBSET Consumer /\ next_index[g] \in Nat
      BY <2>1 DEF TypeOK
    <3> QED
      BY <2>1, <3>1, AllSelected
  <2> QED
    BY <2>1 DEF EveryMemberInTurn
<1> QED
  BY <1>1, GroupTypes, PTL
=============================================================================
