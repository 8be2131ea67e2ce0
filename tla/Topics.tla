-------------------------------- MODULE Topics --------------------------------
(***************************************************************************)
(* Topics: TopicManager of src/topic_manager.py, the topic side of         *)
(* MessageRouter, and the handlers of src/server.py that call them.        *)
(*                                                                         *)
(* A topic has no store of its own: its messages are those of the registry *)
(* whose target has its name, in the order of their ids, and a reader's    *)
(* offset counts them.  An id is drawn before its message is registered;   *)
(* it sorts by the clock, which nobody sets back, and then by the counter. *)
(* No command calls consume_from_topic (Read); it is modelled as the       *)
(* method of the router that it is, for a thread with a consumer id.       *)
(***************************************************************************)
EXTENDS Sorting, Sequences, SequencesExt

CONSTANTS
  Consumer,    \* connections; consumer ids are never reused
  Topic,       \* topic names that pass _validate_name
  MaxTopics,   \* TopicManager._max_topics
  MaxId,       \* the bound on message ids
  Offsets,     \* the offsets a SET_OFFSET may carry
  Nil

ASSUME TopicsAssumption ==
  /\ MaxTopics \in Nat /\ MaxId \in Nat
  /\ Offsets \subseteq Int
  /\ Nil \notin Topic

Id == 1 .. MaxId

VARIABLES
  topics,         \* the keys of _topics
  subscribers,    \* subscribers[t]: the set stored for t
  subscriptions,  \* Consumer.subscriptions
  last_id,        \* the last id that was drawn
  target,         \* target[i]: the topic of message i, Nil when not registered
  dead,           \* the messages in the DLQ, whose target is "DLQ" meanwhile
  offset,         \* offset[t][c], in _topic_offsets
  pc, cur_t,      \* the handler threads and their variables topic,
  cur_i,          \* msg_id,
  cur_o,          \* offset
  \* history
  read,           \* read[t][c]: the ids returned to c, until t is shifted
  shifted         \* the topics in which positions have moved, or been set

managerVars == <<topics, subscribers>>
routerVars == <<last_id, target, dead, offset>>
threadVars == <<pc, cur_t, cur_i, cur_o>>
historyVars == <<read, shifted>>
vars == <<managerVars, subscriptions, routerVars, threadVars, historyVars>>

Steps == {"idle", "closed", "subscribed", "unsubscribed", "draw", "register",
          "persist", "select", "advance"}

(* Every variable stays in its type; there are never more topics than      *)
(* allowed.                                                                *)
TypeOK ==
  /\ topics \subseteq Topic /\ Cardinality(topics) <= MaxTopics
  /\ subscribers \in [Topic -> SUBSET Consumer]
  /\ subscriptions \in [Consumer -> SUBSET Topic]
  /\ last_id \in 0 .. MaxId
  /\ target \in [Id -> Topic \cup {Nil}]
  /\ dead \subseteq Id
  /\ offset \in [Topic -> [Consumer -> Nat]]
  /\ pc \in [Consumer -> Steps]
  /\ cur_t \in [Consumer -> Topic \cup {Nil}]
  /\ cur_i \in [Consumer -> 0 .. MaxId]
  /\ cur_o \in [Consumer -> Nat]
  /\ read \in [Topic -> [Consumer -> Seq(Id)]]
  /\ shifted \subseteq Topic

Init ==
  /\ topics = {}
  /\ subscribers = [t \in Topic |-> {}]
  /\ subscriptions = [c \in Consumer |-> {}]
  /\ last_id = 0
  /\ target = [i \in Id |-> Nil]
  /\ dead = {}
  /\ offset = [t \in Topic |-> [c \in Consumer |-> 0]]
  /\ pc = [c \in Consumer |-> "idle"]
  /\ cur_t = [c \in Consumer |-> Nil]
  /\ cur_i = [c \in Consumer |-> 0]
  /\ cur_o = [c \in Consumer |-> 0]
  /\ read = [t \in Topic |-> [c \in Consumer |-> <<>>]]
  /\ shifted = {}

-----------------------------------------------------------------------------
GoTo(c, step, t, i, o) ==
  /\ pc' = [pc EXCEPT ![c] = step]
  /\ cur_t' = [cur_t EXCEPT ![c] = t]
  /\ cur_i' = [cur_i EXCEPT ![c] = i]
  /\ cur_o' = [cur_o EXCEPT ![c] = o]

Return(c) == GoTo(c, "idle", Nil, 0, 0)

(* A deviation: the limit taken for a number that may be exceeded. *)
RoomForOneMore == Cardinality(topics) <= MaxTopics
RoomForTopic == Cardinality(topics) < MaxTopics

CreateTopic(c, t) ==
  /\ pc[c] = "idle"
  /\ t \notin topics /\ RoomForTopic
  /\ topics' = topics \cup {t}
  /\ subscribers' = [subscribers EXCEPT ![t] = {}]
  /\ UNCHANGED <<subscriptions, routerVars, threadVars, historyVars>>

(* A deviation: the topic deleted under its subscribers. *)
DeletesUsedTopic(c, t) ==
  /\ pc[c] = "idle"
  /\ t \in topics
  /\ topics' = topics \ {t}
  /\ UNCHANGED <<subscribers, subscriptions, routerVars, threadVars, historyVars>>

DeleteTopic(c, t) ==
  /\ pc[c] = "idle"
  /\ t \in topics
  /\ subscribers[t] = {}
  /\ topics' = topics \ {t}
  /\ UNCHANGED <<subscribers, subscriptions, routerVars, threadVars, historyVars>>

(* SUBSCRIBE and UNSUBSCRIBE change the topic, under the lock, and then    *)
(* the record of the consumer.                                             *)
Subscribe(c, t) ==
  /\ pc[c] = "idle"
  /\ t \in topics
  /\ subscribers' = [subscribers EXCEPT ![t] = @ \cup {c}]
  /\ GoTo(c, "subscribed", t, 0, 0)
  /\ UNCHANGED <<topics, subscriptions, routerVars, historyVars>>

Unsubscribe(c, t) ==
  /\ pc[c] = "idle"
  /\ t \in topics
  /\ subscribers' = [subscribers EXCEPT ![t] = @ \ {c}]
  /\ GoTo(c, "unsubscribed", t, 0, 0)
  /\ UNCHANGED <<topics, subscriptions, routerVars, historyVars>>

NoteSubscription(c) ==
  /\ pc[c] \in {"subscribed", "unsubscribed"}
  /\ subscriptions' = [subscriptions EXCEPT ![c] =
                         IF pc[c] = "subscribed" THEN @ \cup {cur_t[c]} ELSE @ \ {cur_t[c]}]
  /\ Return(c)
  /\ UNCHANGED <<managerVars, routerVars, historyVars>>

(* A deviation: a connection that closes without being unsubscribed. *)
LeavesSubscribed(c) ==
  /\ pc[c] = "idle"
  /\ pc' = [pc EXCEPT ![c] = "closed"]
  /\ UNCHANGED <<managerVars, subscriptions, routerVars, cur_t, cur_i, cur_o, historyVars>>

(* _unregister_consumer: remove_consumer_from_all. The offsets stay.       *)
Disconnect(c) ==
  /\ pc[c] = "idle"
  /\ pc' = [pc EXCEPT ![c] = "closed"]
  /\ subscribers' = [t \in Topic |-> subscribers[t] \ {c}]
  /\ UNCHANGED <<topics, subscriptions, routerVars, cur_t, cur_i, cur_o, historyVars>>

(* SET_OFFSET, for whatever topic; a negative offset is refused. *)
SetOffset(c, t, n) ==
  /\ pc[c] = "idle"
  /\ n >= 0
  /\ offset' = [offset EXCEPT ![t][c] = n]
  /\ shifted' = shifted \cup {t}
  /\ UNCHANGED <<managerVars, subscriptions, last_id, target, dead, threadVars, read>>

-----------------------------------------------------------------------------
(* The messages of a topic, as consume_from_topic collects and sorts them. *)
Messages(t) == {i \in Id \ dead : target[i] = t}
Sorted(t) == InOrder(Messages(t))

(* PUBLISH: topic_exists, the new id, the registry and the log. *)
Publish(c, t) ==
  /\ pc[c] = "idle"
  /\ t \in topics
  /\ GoTo(c, "draw", t, 0, 0)
  /\ UNCHANGED <<managerVars, subscriptions, routerVars, historyVars>>

DrawId(c) ==
  /\ pc[c] = "draw"
  /\ last_id < MaxId
  /\ last_id' = last_id + 1
  /\ GoTo(c, "register", cur_t[c], last_id', 0)
  /\ UNCHANGED <<managerVars, subscriptions, target, dead, offset, historyVars>>

(* A message with a later id may be there already. *)
Register(c) ==
  /\ pc[c] = "register"
  /\ LET t == cur_t[c]  i == cur_i[c] IN
     /\ target' = [target EXCEPT ![i] = t]
     /\ shifted' = IF \E j \in Messages(t) : j > i THEN shifted \cup {t} ELSE shifted
     /\ GoTo(c, "persist", t, i, 0)
  /\ UNCHANGED <<managerVars, subscriptions, last_id, dead, offset, read>>

PublishPersist(c) ==
  /\ pc[c] = "persist"
  /\ Return(c)
  /\ UNCHANGED <<managerVars, subscriptions, routerVars, historyVars>>

(* The time to live takes a message to the DLQ, REPLAY brings it back.     *)
Expire(i) ==
  /\ target[i] # Nil /\ i \notin dead
  /\ \A c \in Consumer : cur_i[c] # i
  /\ dead' = dead \cup {i}
  /\ shifted' = shifted \cup {target[i]}
  /\ UNCHANGED <<managerVars, subscriptions, last_id, target, offset, threadVars, read>>

Replay(i) ==
  /\ i \in dead
  /\ dead' = dead \ {i}
  /\ shifted' = shifted \cup {target[i]}
  /\ UNCHANGED <<managerVars, subscriptions, last_id, target, offset, threadVars, read>>

-----------------------------------------------------------------------------
(* consume_from_topic: the offset, the messages and the offset again, each *)
(* under a lock of its own.                                                *)
Read(c, t) ==
  /\ pc[c] = "idle"
  /\ GoTo(c, "select", t, 0, offset[t][c])
  /\ UNCHANGED <<managerVars, subscriptions, routerVars, historyVars>>

Select(c) ==
  /\ pc[c] = "select"
  /\ LET t == cur_t[c]  o == cur_o[c] IN
     \/ /\ o < Len(Sorted(t))
        /\ GoTo(c, "advance", t, Sorted(t)[o + 1], o)
     \/ /\ o >= Len(Sorted(t))
        /\ Return(c)
  /\ UNCHANGED <<managerVars, subscriptions, routerVars, historyVars>>

(* A deviation: the offset set to the number of messages there are by now. *)
SkipsToEnd(c) == Len(Sorted(cur_t[c]))
NextOffset(c) == cur_o[c] + 1

Advance(c) ==
  /\ pc[c] = "advance"
  /\ offset' = [offset EXCEPT ![cur_t[c]][c] = NextOffset(c)]
  /\ read' = IF cur_t[c] \in shifted THEN read
             ELSE [read EXCEPT ![cur_t[c]][c] = Append(@, cur_i[c])]
  /\ Return(c)
  /\ UNCHANGED <<managerVars, subscriptions, last_id, target, dead, shifted>>

-----------------------------------------------------------------------------
Command(c) ==
  \E t \in Topic :
    \/ CreateTopic(c, t) \/ DeleteTopic(c, t)
    \/ Subscribe(c, t) \/ Unsubscribe(c, t)
    \/ Publish(c, t) \/ Read(c, t)
    \/ \E n \in Offsets : SetOffset(c, t, n)

RunsOn(c) ==
  \/ NoteSubscription(c)
  \/ DrawId(c) \/ Register(c) \/ PublishPersist(c)
  \/ Select(c) \/ Advance(c)

Next ==
  \/ \E c \in Consumer : Command(c) \/ RunsOn(c) \/ Disconnect(c)
  \/ \E i \in Id : Expire(i) \/ Replay(i)

Spec == Init /\ [][Next]_vars

-----------------------------------------------------------------------------
(* The two records of who subscribes to what agree whenever a consumer is  *)
(* between two commands, whatever others create and delete meanwhile: its  *)
(* subscriptions are the topics that list it, and these exist (subscribe,  *)
(* delete_topic, _cmd_subscribe).                                          *)
SubscriptionsAgree ==
  \A c \in Consumer :
    pc[c] \notin {"closed", "subscribed", "unsubscribed"} =>
      /\ subscriptions[c] = {t \in Topic : c \in subscribers[t]}
      /\ subscriptions[c] \subseteq topics

(* A closed connection keeps no topic from being deleted: it subscribes to *)
(* nothing any more, and all other subscribers are open connections        *)
(* (remove_consumer_from_all).                                             *)
ClosedUnsubscribed ==
  \A t \in Topic : \A c \in subscribers[t] : pc[c] # "closed"

(* As long as messages were registered in the order of their ids, none has *)
(* gone to the DLQ and no offset was set, every reader of a topic gets its *)
(* messages from the first on, in order, each once, also those of an older *)
(* topic of the name; its offset says how many (consume_from_topic).       *)
ReadInOrder ==
  \A t \in Topic \ shifted, c \in Consumer :
    /\ IsPrefix(read[t][c], Sorted(t))
    /\ offset[t][c] = Len(read[t][c])
=============================================================================
