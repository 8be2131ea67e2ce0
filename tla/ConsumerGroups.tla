--------------------------- MODULE ConsumerGroups ---------------------------
(***************************************************************************)
(* Consumer groups: ConsumerGroupManager of src/consumer_group.py and the  *)
(* handlers of src/server.py that call it.  Every method of the manager is *)
(* one region of its lock, so one step here; CONSUME_GROUP makes up to     *)
(* five of these calls, and other threads come in between.                 *)
(*                                                                         *)
(* The keys of _groups, _group_targets and _next_index are the set groups. *)
(* Which queues exist is the queue manager's business: a test of it may go *)
(* either way.  What a member takes is in Broker (ConsumeStart).  PING     *)
(* sets Consumer.last_heartbeat, which nothing reads: it changes nothing.  *)
(***************************************************************************)
EXTENDS Sorting

CONSTANTS
  Consumer,     \* connections, as numbers in the order of their id strings
  Group, Queue,
  Nil           \* no group, no queue

ASSUME GroupAssumption ==
  /\ Consumer \subseteq Nat /\ IsFiniteSet(Consumer)
  /\ Nil \notin Group \cup Queue

VARIABLES
  groups,         \* the keys of _groups
  members,        \* members[g]: the set stored for g
  group_target,   \* the queue g was created for
  next_index,     \* the round-robin position of g
  heartbeats,     \* the consumers with an entry in _heartbeats
  silent,         \* those whose entry is older than the heartbeat timeout
  pc, cur_g, cur_q  \* the handler threads and their variables group, queue

managerVars == <<groups, members, group_target, next_index>>
aliveVars == <<heartbeats, silent>>
threadVars == <<pc, cur_g, cur_q>>
vars == <<managerVars, aliveVars, threadVars>>

Steps == {"idle", "closed", "queue_exists", "create", "join", "next", "take"}

(* Every variable stays in its type, a running handler has its group and   *)
(* its queue, and the position stays within the consumers there are.       *)
TypeOK ==
  /\ groups \subseteq Group
  /\ members \in [Group -> SUBSET Consumer]
  /\ group_target \in [Group -> Queue \cup {Nil}]
  /\ next_index \in [Group -> 0 .. Cardinality(Consumer)]
  /\ heartbeats \subseteq Consumer
  /\ silent \subseteq heartbeats
  /\ pc \in [Consumer -> Steps]
  /\ cur_g \in [Consumer -> Group \cup {Nil}]
  /\ cur_q \in [Consumer -> Queue \cup {Nil}]
  /\ \A c \in Consumer :
       pc[c] \notin {"idle", "closed"} => cur_g[c] \in Group /\ cur_q[c] \in Queue

Init ==
  /\ groups = {}
  /\ members = [g \in Group |-> {}]
  /\ group_target = [g \in Group |-> Nil]
  /\ next_index = [g \in Group |-> 0]
  /\ heartbeats = {} /\ silent = {}
  /\ pc = [c \in Consumer |-> "idle"]
  /\ cur_g = [c \in Consumer |-> Nil]
  /\ cur_q = [c \in Consumer |-> Nil]

-----------------------------------------------------------------------------
GoTo(c, step) == pc' = [pc EXCEPT ![c] = step] /\ UNCHANGED <<cur_g, cur_q>>

(* The handler answers and forgets its variables. *)
Return(c) ==
  /\ pc' = [pc EXCEPT ![c] = "idle"]
  /\ cur_g' = [cur_g EXCEPT ![c] = Nil]
  /\ cur_q' = [cur_q EXCEPT ![c] = Nil]

(* create_group raises for a name in use; the target is not looked at. *)
NewGroup(g, target) ==
  /\ g \notin groups
  /\ groups' = groups \cup {g}
  /\ members' = [members EXCEPT ![g] = {}]
  /\ group_target' = [group_target EXCEPT ![g] = target]
  /\ next_index' = [next_index EXCEPT ![g] = 0]

CreateGroup(c, g, target) ==
  /\ pc[c] = "idle"
  /\ NewGroup(g, target)
  /\ UNCHANGED <<aliveVars, threadVars>>

(* A deviation: the group deleted under its members. *)
DeletesUsedGroup(c, g) ==
  /\ pc[c] = "idle"
  /\ g \in groups
  /\ groups' = groups \ {g}
  /\ UNCHANGED <<members, group_target, next_index, aliveVars, threadVars>>

DeleteGroup(c, g) ==
  /\ pc[c] = "idle"
  /\ g \in groups
  /\ members[g] = {}
  /\ groups' = groups \ {g}
  /\ UNCHANGED <<members, group_target, next_index, aliveVars, threadVars>>

(* A deviation: leaving one group also ends the heartbeat. *)
LeavesUnwatched(c, g) ==
  /\ pc[c] = "idle"
  /\ g \in groups
  /\ members' = [members EXCEPT ![g] = @ \ {c}]
  /\ heartbeats' = heartbeats \ {c} /\ silent' = silent \ {c}
  /\ UNCHANGED <<groups, group_target, next_index, threadVars>>

LeaveGroup(c, g) ==
  /\ pc[c] = "idle"
  /\ g \in groups
  /\ members' = [members EXCEPT ![g] = @ \ {c}]
  /\ UNCHANGED <<groups, group_target, next_index, aliveVars, threadVars>>

-----------------------------------------------------------------------------
(* CONSUME_GROUP queue group: group_exists, and for a new name             *)
(* queue_exists and create_group.                                          *)
ConsumeGroup(c, q, g) ==
  /\ pc[c] = "idle"
  /\ pc' = [pc EXCEPT ![c] = IF g \in groups THEN "join" ELSE "queue_exists"]
  /\ cur_g' = [cur_g EXCEPT ![c] = g]
  /\ cur_q' = [cur_q EXCEPT ![c] = q]
  /\ UNCHANGED <<managerVars, aliveVars>>

QueueExists(c) ==
  /\ pc[c] = "queue_exists"
  /\ GoTo(c, "create") \/ Return(c)
  /\ UNCHANGED <<managerVars, aliveVars>>

(* The GroupExistsError of a group created in between is not caught here:  *)
(* ERR_INTERNAL.                                                           *)
CreateMissing(c) ==
  /\ pc[c] = "create"
  /\ \/ /\ NewGroup(cur_g[c], cur_q[c])
        /\ GoTo(c, "join")
     \/ /\ cur_g[c] \in groups
        /\ Return(c)
        /\ UNCHANGED managerVars
  /\ UNCHANGED aliveVars

(* Nor is the GroupNotFoundError of a group deleted in between. *)
Join(c) ==
  /\ pc[c] = "join"
  /\ LET g == cur_g[c] IN
     \/ /\ g \in groups
        /\ members' = [members EXCEPT ![g] = @ \cup {c}]
        /\ heartbeats' = heartbeats \cup {c} /\ silent' = silent \ {c}
        /\ GoTo(c, "next")
     \/ /\ g \notin groups
        /\ Return(c)
        /\ UNCHANGED <<members, heartbeats, silent>>
  /\ UNCHANGED <<groups, group_target, next_index>>

(* sorted(S)[i % len(S)] *)
MemberAt(S, i) == Nth(S, i % Cardinality(S))

(* Deviations: the position stands still, or grows without end. *)
KeepsPosition(S, i) == i
GrowsPosition(S, i) == i + 1
Advance(S, i) == (i + 1) % Cardinality(S)

(* next_consumer: the position moves on even if the caller is not the one  *)
(* selected and leaves empty-handed.                                       *)
NextConsumer(c) ==
  /\ pc[c] = "next"
  /\ LET g == cur_g[c]  S == members[g] IN
     \/ /\ g \in groups /\ S # {}
        /\ next_index' = [next_index EXCEPT ![g] = Advance(S, @)]
        /\ IF MemberAt(S, next_index[g]) = c THEN GoTo(c, "take") ELSE Return(c)
     \/ /\ g \notin groups \/ S = {}
        /\ Return(c)
        /\ UNCHANGED next_index
  /\ UNCHANGED <<groups, members, group_target, aliveVars>>

(* consume_from_queue, from the queue the command names. *)
Take(c) ==
  /\ pc[c] = "take"
  /\ Return(c)
  /\ UNCHANGED <<managerVars, aliveVars>>

-----------------------------------------------------------------------------
WithoutAll(gone) == members' = [g \in Group |-> members[g] \ gone]

(* A deviation: the heartbeat entry stays behind. *)
DisconnectsUnseen(c) ==
  /\ pc[c] = "idle"
  /\ pc' = [pc EXCEPT ![c] = "closed"]
  /\ WithoutAll({c})
  /\ UNCHANGED <<groups, group_target, next_index, aliveVars, cur_g, cur_q>>

(* _unregister_consumer: remove_consumer_from_all_groups. *)
Disconnect(c) ==
  /\ pc[c] = "idle"
  /\ pc' = [pc EXCEPT ![c] = "closed"]
  /\ WithoutAll({c})
  /\ heartbeats' = heartbeats \ {c} /\ silent' = silent \ {c}
  /\ UNCHANGED <<groups, group_target, next_index, cur_g, cur_q>>

(* check_timeouts, at the end of a pass of the checker thread. *)
CheckHeartbeats ==
  /\ silent # {}
  /\ WithoutAll(silent)
  /\ heartbeats' = heartbeats \ silent /\ silent' = {}
  /\ UNCHANGED <<groups, group_target, next_index, threadVars>>

(* Time.  The timeout of 30 seconds is far longer than a handler runs from *)
(* join_group to its answer.                                               *)
FallSilent(c) ==
  /\ c \in heartbeats \ silent
  /\ pc[c] \notin {"next", "take"}
  /\ silent' = silent \cup {c}
  /\ UNCHANGED <<managerVars, heartbeats, threadVars>>

-----------------------------------------------------------------------------
(* What a thread does for itself once it has a CONSUME_GROUP to execute. *)
RunsOn(c) ==
  \/ QueueExists(c) \/ CreateMissing(c) \/ Join(c) \/ NextConsumer(c) \/ Take(c)

Command(c) ==
  \/ \E g \in Group, q \in Queue : CreateGroup(c, g, q) \/ ConsumeGroup(c, q, g)
  \/ \E g \in Group : DeleteGroup(c, g) \/ LeaveGroup(c, g)
  \/ Disconnect(c)

Next ==
  \/ \E c \in Consumer : Command(c) \/ RunsOn(c) \/ FallSilent(c)
  \/ CheckHeartbeats

Spec == Init /\ [][Next]_vars

-----------------------------------------------------------------------------
(* A member is watched: in whatever group it stays, its heartbeat entry is *)
(* there to time out, so no rotation keeps a member that has fallen silent *)
(* for ever (join_group, leave_group, check_timeouts).                     *)
MembersWatched ==
  \A g \in Group : members[g] \subseteq heartbeats

(* A closed connection is in no rotation and no heartbeat entry brings it  *)
(* back (remove_consumer_from_all_groups).                                 *)
ClosedForgotten ==
  \A c \in Consumer :
    pc[c] = "closed" => c \notin heartbeats /\ \A g \in Group : c \notin members[g]

(* A group that does not exist has no members: a DELETE_GROUP between the  *)
(* steps of a CONSUME_GROUP never leaves somebody in a deleted group, whom *)
(* a new group of the name would then lack (delete_group).                 *)
NoOrphanMembers ==
  \A g \in Group \ groups : members[g] = {}

(* The one whose turn it is still belongs to the group when it goes to the *)
(* queue, whatever DELETE_GROUP and the heartbeat check did in between     *)
(* (_cmd_consume_group).                                                   *)
TakerIsMember ==
  \A c \in Consumer :
    pc[c] = "take" => cur_g[c] \in groups /\ c \in members[cur_g[c]]

(* From any position, members having come and gone since, as many          *)
(* selections as there are members name every member (next_consumer).      *)
Selections(S, i, n) ==
  LET position[k \in 0 .. n - 1] ==
        IF k = 0 THEN i ELSE Advance(S, position[k - 1])
  IN {MemberAt(S, position[k]) : k \in 0 .. n - 1}

EveryMemberInTurn ==
  \A g \in groups :
    members[g] # {} =>
      Selections(members[g], next_index[g], Cardinality(members[g])) = members[g]
=============================================================================
