------------------------------ MODULE TopicProofs ------------------------------
(* Proofs about Topics, for any number of connections, topics and messages. *)
EXTENDS Topics, SortingProofs

SubscriptionTypes ==
  /\ topics \subseteq Topic
  /\ subscribers \in [Topic -> SUBSET Consumer]
  /\ subscriptions \in [Consumer -> SUBSET Topic]
  /\ pc \in [Consumer -> Steps]
  /\ cur_t \in [Consumer -> Topic \cup {Nil}]

Between(c) == pc[c] \in {"subscribed", "unsubscribed"}

Listing(c) == {t \in Topic : c \in subscribers[t]}

(* SubscriptionsAgree is not inductive: between the two steps of SUBSCRIBE  *)
(* and UNSUBSCRIBE the two records differ, in the one topic of the command. *)
RecordsMatch ==
  \A c \in Consumer :
    /\ pc[c] \notin {"closed", "subscribed", "unsubscribed"} => subscriptions[c] = Listing(c)
    /\ pc[c] = "subscribed" =>
         cur_t[c] \in Topic /\ subscriptions[c] \cup {cur_t[c]} = Listing(c)
    /\ pc[c] = "unsubscribed" =>
         cur_t[c] \in Topic /\ subscriptions[c] \ {cur_t[c]} = Listing(c)

NoSubscribersLeft == \A t \in Topic \ topics : subscribers[t] = {}

SubscriptionInv ==
  SubscriptionTypes /\ RecordsMatch /\ NoSubscribersLeft /\ ClosedUnsubscribed

LEMMA SubscriptionInit == Init => SubscriptionInv
BY DEF Init, SubscriptionInv, SubscriptionTypes, Steps, RecordsMatch, Listing,
       NoSubscribersLeft, ClosedUnsubscribed

(* A step that leaves both records alone and moves a handler elsewhere.     *)
LEMMA ElsewhereKeeps ==
  ASSUME SubscriptionInv, NEW c \in Consumer, ~Between(c), pc[c] # "closed",
         NEW step \in Steps \ {"subscribed", "unsubscribed", "closed"},
         NEW t \in Topic \cup {Nil}, NEW i, NEW o,
         GoTo(c, step, t, i, o), UNCHANGED <<managerVars, subscriptions>>
  PROVE  SubscriptionInv'
<1>1. SubscriptionTypes'
  BY DEF SubscriptionInv, SubscriptionTypes, GoTo, managerVars
<1>2. RecordsMatch'
  BY DEF SubscriptionInv, SubscriptionTypes, RecordsMatch, Listing, Between, GoTo, managerVars
<1>3. NoSubscribersLeft' /\ ClosedUnsubscribed'
  BY DEF SubscriptionInv, SubscriptionTypes, NoSubscribersLeft, ClosedUnsubscribed, GoTo,
         managerVars
<1> QED
  BY <1>1, <1>2, <1>3 DEF SubscriptionInv

LEMMA UntouchedKeeps ==
  ASSUME SubscriptionInv, UNCHANGED <<managerVars, subscriptions, pc, cur_t>>
  PROVE  SubscriptionInv'
BY DEF SubscriptionInv, SubscriptionTypes, RecordsMatch, Listing, NoSubscribersLeft,
       ClosedUnsubscribed, managerVars

LEMMA SubscribeKeeps ==
  ASSUME SubscriptionInv, NEW c \in Consumer, NEW t \in Topic, Subscribe(c, t)
  PROVE  SubscriptionInv'
<1>1. SubscriptionTypes'
  BY DEF Subscribe, GoTo, SubscriptionInv, SubscriptionTypes, Steps
<1>2. ASSUME NEW d \in Consumer, d # c
      PROVE  Listing(d)' = Listing(d) /\ UNCHANGED <<subscriptions[d], pc[d], cur_t[d]>>
  BY <1>2 DEF Subscribe, GoTo, Listing, SubscriptionInv, SubscriptionTypes
<1>3. Listing(c)' = Listing(c) \cup {t} /\ Listing(c) = subscriptions[c]
  BY DEF Subscribe, Listing, RecordsMatch, SubscriptionInv, SubscriptionTypes
<1>4. pc'[c] = "subscribed" /\ cur_t'[c] = t /\ UNCHANGED subscriptions
  BY DEF Subscribe, GoTo, SubscriptionInv, SubscriptionTypes
<1>5. RecordsMatch'
  BY <1>2, <1>3, <1>4 DEF RecordsMatch, SubscriptionInv
<1>6. NoSubscribersLeft' /\ ClosedUnsubscribed'
  BY DEF Subscribe, GoTo, NoSubscribersLeft, ClosedUnsubscribed, SubscriptionInv,
         SubscriptionTypes
<1> QED
  BY <1>1, <1>5, <1>6 DEF SubscriptionInv

LEMMA UnsubscribeKeeps ==
  ASSUME SubscriptionInv, NEW c \in Consumer, NEW t \in Topic, Unsubscribe(c, t)
  PROVE  SubscriptionInv'
<1>1. SubscriptionTypes'
  BY DEF Unsubscribe, GoTo, SubscriptionInv, SubscriptionTypes, Steps
<1>2. ASSUME NEW d \in Consumer, d # c
      PROVE  Listing(d)' = Listing(d) /\ UNCHANGED <<subscriptions[d], pc[d], cur_t[d]>>
  BY <1>2 DEF Unsubscribe, GoTo, Listing, SubscriptionInv, SubscriptionTypes
<1>3. Listing(c)' = Listing(c) \ {t} /\ Listing(c) = subscriptions[c]
  BY DEF Unsubscribe, Listing, RecordsMatch, SubscriptionInv, SubscriptionTypes
<1>4. pc'[c] = "unsubscribed" /\ cur_t'[c] = t /\ UNCHANGED subscriptions
  BY DEF Unsubscribe, GoTo, SubscriptionInv, SubscriptionTypes
<1>5. RecordsMatch'
  BY <1>2, <1>3, <1>4 DEF RecordsMatch, SubscriptionInv
<1>6. NoSubscribersLeft' /\ ClosedUnsubscribed'
  BY DEF Unsubscribe, GoTo, NoSubscribersLeft, ClosedUnsubscribed, SubscriptionInv,
         SubscriptionTypes
<1> QED
  BY <1>1, <1>5, <1>6 DEF SubscriptionInv

LEMMA NoteKeeps ==
  ASSUME SubscriptionInv, NEW c \in Consumer, NoteSubscription(c)
  PROVE  SubscriptionInv'
<1>1. cur_t[c] \in Topic /\ Between(c)
  BY DEF NoteSubscription, Between, RecordsMatch, SubscriptionInv
<1>2. SubscriptionTypes'
  BY <1>1 DEF NoteSubscription, Return, GoTo, SubscriptionInv, SubscriptionTypes, Steps,
              managerVars
<1>3. subscriptions'[c] = Listing(c)
  BY <1>1 DEF NoteSubscription, RecordsMatch, Between, SubscriptionInv, SubscriptionTypes
<1>4. pc'[c] = "idle"
  BY DEF NoteSubscription, Return, GoTo, SubscriptionInv, SubscriptionTypes
<1>5. ASSUME NEW d \in Consumer
      PROVE  Listing(d)' = Listing(d)
  BY DEF NoteSubscription, managerVars, Listing
<1>6. ASSUME NEW d \in Consumer, d # c
      PROVE  UNCHANGED <<subscriptions[d], pc[d], cur_t[d]>>
  BY <1>6 DEF NoteSubscription, Return, GoTo, SubscriptionInv, SubscriptionTypes
<1>7. RecordsMatch'
  BY <1>3, <1>4, <1>5, <1>6 DEF RecordsMatch, SubscriptionInv
<1>8. NoSubscribersLeft' /\ ClosedUnsubscribed'
  BY <1>4, <1>6 DEF NoteSubscription, managerVars, NoSubscribersLeft, ClosedUnsubscribed,
                    SubscriptionInv, SubscriptionTypes
<1> QED
  BY <1>2, <1>7, <1>8 DEF SubscriptionInv

LEMMA DisconnectKeeps ==
  ASSUME SubscriptionInv, NEW c \in Consumer, Disconnect(c)
  PROVE  SubscriptionInv'
<1>1. SubscriptionTypes'
  BY DEF Disconnect, SubscriptionInv, SubscriptionTypes, Steps
<1>2. ASSUME NEW d \in Consumer, d # c
      PROVE  Listing(d)' = Listing(d) /\ UNCHANGED <<subscriptions[d], pc[d], cur_t[d]>>
  BY <1>2 DEF Disconnect, Listing, SubscriptionInv, SubscriptionTypes
<1>3. pc'[c] = "closed"
  BY DEF Disconnect, SubscriptionInv, SubscriptionTypes
<1>4. RecordsMatch'
  BY <1>2, <1>3 DEF RecordsMatch, SubscriptionInv
<1>5. NoSubscribersLeft' /\ ClosedUnsubscribed'
  BY DEF Disconnect, NoSubscribersLeft, ClosedUnsubscribed, SubscriptionInv, SubscriptionTypes
<1> QED
  BY <1>1, <1>4, <1>5 DEF SubscriptionInv

LEMMA TopicsKeep ==
  ASSUME SubscriptionInv, NEW c \in Consumer, NEW t \in Topic,
         CreateTopic(c, t) \/ DeleteTopic(c, t)
  PROVE  SubscriptionInv'
<1>1. /\ topics' \subseteq Topic
      /\ UNCHANGED <<subscribers, subscriptions, pc, cur_t>>
      /\ \A u \in Topic \ topics' : subscribers[u] = {}
  <2>1. topics \subseteq Topic /\ subscribers \in [Topic -> SUBSET Consumer]
        /\ \A u \in Topic \ topics : subscribers[u] = {}
    BY DEF SubscriptionInv, SubscriptionTypes, NoSubscribersLeft
  <2>2. UNCHANGED <<subscriptions, pc, cur_t>>
    BY DEF CreateTopic, DeleteTopic, threadVars
  <2>3. CASE CreateTopic(c, t)
    <3>1. /\ t \notin topics /\ topics' = topics \cup {t}
          /\ subscribers' = [subscribers EXCEPT ![t] = {}]
      BY <2>3 DEF CreateTopic
    <3>2. subscribers' = subscribers
      BY <2>1, <3>1
    <3> QED
      BY <2>1, <2>2, <3>1, <3>2
  <2>4. CASE DeleteTopic(c, t)
    <3>1. /\ subscribers[t] = {} /\ topics' = topics \ {t} /\ subscribers' = subscribers
      BY <2>4 DEF DeleteTopic
    <3> QED
      BY <2>1, <2>2, <3>1
  <2> QED
    BY <2>3, <2>4
<1> QED
  BY <1>1 DEF SubscriptionInv, SubscriptionTypes, RecordsMatch, Listing, NoSubscribersLeft,
              ClosedUnsubscribed

LEMMA HandlersKeep ==
  ASSUME SubscriptionInv, NEW c \in Consumer,
         \/ \E t \in Topic : Publish(c, t) \/ Read(c, t)
         \/ DrawId(c) \/ Register(c) \/ PublishPersist(c) \/ Select(c) \/ Advance(c)
  PROVE  SubscriptionInv'
<1>1. /\ ~Between(c) /\ pc[c] # "closed"
      /\ UNCHANGED <<managerVars, subscriptions>>
      /\ cur_t[c] \in Topic \cup {Nil}
  BY DEF Publish, Read, DrawId, Register, PublishPersist, Select, Advance, Between,
         SubscriptionInv, SubscriptionTypes
<1>2. \E step \in Steps \ {"subscribed", "unsubscribed", "closed"}, t \in Topic \cup {Nil} :
        \E i, o : GoTo(c, step, t, i, o)
  <2>1. CASE \E t \in Topic : Publish(c, t) \/ Read(c, t)
    BY <2>1 DEF Publish, Read, Steps
  <2>2. CASE DrawId(c)
    BY <1>1, <2>2 DEF DrawId, Steps
  <2>3. CASE Register(c)
    BY <1>1, <2>3 DEF Register, Steps
  <2>4. CASE PublishPersist(c)
    BY <2>4 DEF PublishPersist, Return, Steps
  <2>5. CASE Select(c)
    <3>1. \/ GoTo(c, "advance", cur_t[c], Sorted(cur_t[c])[cur_o[c] + 1], cur_o[c])
          \/ Return(c)
      BY <2>5 DEF Select
    <3> QED
      BY <1>1, <3>1 DEF Return, Steps
  <2>6. CASE Advance(c)
    BY <2>6 DEF Advance, Return, Steps
  <2> QED
    BY <2>1, <2>2, <2>3, <2>4, <2>5, <2>6
<1> QED
  BY <1>1, <1>2, ElsewhereKeeps

LEMMA SubscriptionStep == SubscriptionInv /\ [Next]_vars => SubscriptionInv'
<1> SUFFICES ASSUME SubscriptionInv, [Next]_vars
             PROVE  SubscriptionInv'
  OBVIOUS
<1>1. ASSUME NEW c \in Consumer, Command(c)
      PROVE  SubscriptionInv'
  <2>1. ASSUME NEW t \in Topic, NEW n \in Offsets, SetOffset(c, t, n)
        PROVE  SubscriptionInv'
    BY <2>1, UntouchedKeeps DEF SetOffset, threadVars
  <2> QED
    BY <1>1, <2>1, TopicsKeep, SubscribeKeeps, UnsubscribeKeeps, HandlersKeep DEF Command
<1>2. ASSUME NEW c \in Consumer, RunsOn(c) \/ Disconnect(c)
      PROVE  SubscriptionInv'
  BY <1>2, NoteKeeps, HandlersKeep, DisconnectKeeps DEF RunsOn
<1>3. ASSUME NEW i \in Id, Expire(i) \/ Replay(i)
      PROVE  SubscriptionInv'
  BY <1>3, UntouchedKeeps DEF Expire, Replay, threadVars
<1>4. CASE UNCHANGED vars
  BY <1>4, UntouchedKeeps DEF vars, managerVars, threadVars
<1> QED
  BY <1>1, <1>2, <1>3, <1>4 DEF Next

LEMMA SubscriptionInvariant == Spec => []SubscriptionInv
BY SubscriptionInit, SubscriptionStep, PTL DEF Spec

-----------------------------------------------------------------------------
(* Between two commands a consumer's own record and the topics agree on     *)
(* what it subscribes to, and these topics exist, however the commands of   *)
(* others interleave with its own (subscribe, delete_topic).                *)
THEOREM RecordsAgree == Spec => []SubscriptionsAgree
<1>1. SubscriptionInv => SubscriptionsAgree
  BY DEF SubscriptionInv, SubscriptionTypes, RecordsMatch, Listing, NoSubscribersLeft,
         SubscriptionsAgree
<1> QED
  BY <1>1, SubscriptionInvariant, PTL

(* No closed connection keeps a topic from being deleted                    *)
(* (remove_consumer_from_all).                                              *)
THEOREM NobodyGoneSubscribes == Spec => []ClosedUnsubscribed
BY SubscriptionInvariant, PTL DEF SubscriptionInv

-----------------------------------------------------------------------------
(* The limit on topics.                                                     *)
TopicsBounded == IsFiniteSet(topics) /\ Cardinality(topics) <= MaxTopics

LEMMA TopicLimit ==
  ASSUME TopicsBounded, topics' = topics \/ \E c, t : CreateTopic(c, t) \/ DeleteTopic(c, t)
  PROVE  TopicsBounded'
<1>1. CASE topics' = topics
  BY <1>1 DEF TopicsBounded
<1>2. ASSUME NEW c, NEW t, CreateTopic(c, t)
      PROVE  TopicsBounded'
  <2>1. topics' = topics \cup {t} /\ t \notin topics /\ Cardinality(topics) < MaxTopics
    BY <1>2 DEF CreateTopic, RoomForTopic
  <2>2. IsFiniteSet(topics') /\ Cardinality(topics') = Cardinality(topics) + 1
    BY <2>1, FS_AddElement DEF TopicsBounded
  <2> QED
    BY <2>1, <2>2, FS_CardinalityType, TopicsAssumption DEF TopicsBounded
<1>3. ASSUME NEW c, NEW t, DeleteTopic(c, t)
      PROVE  TopicsBounded'
  <2>1. topics' \subseteq topics
    BY <1>3 DEF DeleteTopic
  <2>2. IsFiniteSet(topics') /\ Cardinality(topics') <= Cardinality(topics)
    BY <2>1, FS_Subset DEF TopicsBounded
  <2> QED
    BY <2>2, FS_CardinalityType, TopicsAssumption DEF TopicsBounded
<1> QED
  BY <1>1, <1>2, <1>3

LEMMA TopicsInvariant == Spec => []TopicsBounded
<1>1. Init => TopicsBounded
  BY FS_EmptySet, TopicsAssumption DEF Init, TopicsBounded
<1>2. TopicsBounded /\ [Next]_vars => TopicsBounded'
  <2> SUFFICES ASSUME TopicsBounded, [Next]_vars
               PROVE  TopicsBounded'
    OBVIOUS
  <2>1. topics' = topics \/ \E c, t : CreateTopic(c, t) \/ DeleteTopic(c, t)
    BY DEF Next, Command, RunsOn, Subscribe, Unsubscribe, Publish, Read, SetOffset,
           NoteSubscription, DrawId, Register, PublishPersist, Select, Advance, Disconnect,
           Expire, Replay, vars, managerVars
  <2> QED
    BY <2>1, TopicLimit
<1> QED
  BY <1>1, <1>2, PTL DEF Spec
-----------------------------------------------------------------------------
(* The rest of the state, and what a handler has in its variables.          *)
RouterTypes ==
  /\ last_id \in 0 .. MaxId
  /\ target \in [Id -> Topic \cup {Nil}]
  /\ dead \subseteq Id
  /\ offset \in [Topic -> [Consumer -> Nat]]
  /\ pc \in [Consumer -> Steps]
  /\ cur_t \in [Consumer -> Topic \cup {Nil}]
  /\ cur_i \in [Consumer -> 0 .. MaxId]
  /\ cur_o \in [Consumer -> Nat]
  /\ read \in [Topic -> [Consumer -> Seq(Id)]]
  /\ shifted \subseteq Topic

HandlersReady ==
  \A c \in Consumer :
    /\ pc[c] \in {"draw", "register", "persist", "select", "advance"} => cur_t[c] \in Topic
    /\ pc[c] \in {"register", "advance"} => cur_i[c] \in Id

(* An id that is drawn and not registered yet is nobody else's.             *)
IdsFresh ==
  /\ \A i \in dead : target[i] # Nil
  /\ \A i \in Id : target[i] # Nil => i <= last_id
  /\ \A c \in Consumer : pc[c] = "register" => cur_i[c] <= last_id /\ target[cur_i[c]] = Nil
  /\ \A c, d \in Consumer :
       pc[c] = "register" /\ pc[d] = "register" /\ cur_i[c] = cur_i[d] => c = d

(* ReadInOrder is not inductive: a reader that has gone half the way still  *)
(* has the offset it began with, and the message at that place.             *)
Selecting ==
  \A t \in Topic \ shifted, c \in Consumer : cur_t[c] = t =>
    /\ pc[c] \in {"select", "advance"} => cur_o[c] = offset[t][c]
    /\ pc[c] = "advance" =>
         cur_o[c] + 1 \in 1 .. Len(Sorted(t)) /\ cur_i[c] = Sorted(t)[cur_o[c] + 1]

ReadSoFar ==
  \A t \in Topic \ shifted, c \in Consumer :
    /\ Len(read[t][c]) <= Len(Sorted(t)) /\ offset[t][c] = Len(read[t][c])
    /\ \A k \in 1 .. Len(read[t][c]) : read[t][c][k] = Sorted(t)[k]

ReadInv == RouterTypes /\ HandlersReady /\ IdsFresh /\ Selecting /\ ReadSoFar

(* What a step may do to a topic in which positions count: nothing, or add  *)
(* to its end.                                                              *)
Extends(t) ==
  /\ Len(Sorted(t)) <= Len(Sorted(t)')
  /\ \A k \in 1 .. Len(Sorted(t)) : Sorted(t)'[k] = Sorted(t)[k]

LEMMA SortedType ==
  ASSUME NEW t
  PROVE  /\ Messages(t) \in SUBSET Nat /\ IsFiniteSet(Messages(t))
         /\ Sorted(t) \in Seq(Id) /\ Len(Sorted(t)) \in Nat
         /\ \A k \in 1 .. Len(Sorted(t)) : Sorted(t)[k] \in Id
<1>1. Messages(t) \subseteq Id /\ IsFiniteSet(Id) /\ Id \subseteq Nat
  BY TopicsAssumption, FS_Interval DEF Messages, Id
<1>2. Messages(t) \in SUBSET Nat /\ IsFiniteSet(Messages(t))
  BY <1>1, FS_Subset
<1>3. InOrder(Messages(t)) \in Seq(Messages(t))
  BY <1>2, InOrderType
<1> QED
  BY <1>1, <1>2, <1>3 DEF Sorted

LEMMA SameExtends ==
  ASSUME NEW t, Messages(t)' = Messages(t)
  PROVE  Extends(t)
<1>1. Sorted(t)' = Sorted(t)
  BY DEF Sorted
<1> QED
  BY <1>1, SortedType DEF Extends

LEMMA NewestExtends ==
  ASSUME NEW t, NEW i \in Id, Messages(t)' = Messages(t) \cup {i}, \A j \in Messages(t) : j < i
  PROVE  Extends(t)
<1>1. i \in Nat
  BY TopicsAssumption DEF Id
<1>2. /\ Len(InOrder(Messages(t) \cup {i})) = Len(InOrder(Messages(t))) + 1
      /\ \A k \in 1 .. Len(InOrder(Messages(t))) :
           InOrder(Messages(t) \cup {i})[k] = InOrder(Messages(t))[k]
  BY <1>1, SortedType, InOrderGrown
<1>3. Sorted(t)' = InOrder(Messages(t) \cup {i}) /\ Sorted(t) = InOrder(Messages(t))
  BY DEF Sorted
<1>4. Len(Sorted(t)) \in Nat
  BY SortedType
<1>5. Len(Sorted(t)) <= Len(Sorted(t)')
  BY <1>2, <1>3, <1>4
<1>6. \A k \in 1 .. Len(Sorted(t)) : Sorted(t)'[k] = Sorted(t)[k]
  BY <1>2, <1>3
<1> QED
  BY <1>5, <1>6 DEF Extends

(* A step that moves no offset.                                             *)
LEMMA ReadStays ==
  ASSUME ReadInv, UNCHANGED <<offset, read>>, shifted \subseteq shifted',
         \A t \in Topic \ shifted' : Extends(t)
  PROVE  ReadSoFar'
<1> SUFFICES ASSUME NEW t \in Topic \ shifted', NEW c \in Consumer
             PROVE  /\ Len(read[t][c]) <= Len(Sorted(t)') /\ offset[t][c] = Len(read[t][c])
                    /\ \A k \in 1 .. Len(read[t][c]) : read[t][c][k] = Sorted(t)'[k]
  BY DEF ReadSoFar
<1>1. t \notin shifted /\ read[t][c] \in Seq(Id)
  BY DEF ReadInv, RouterTypes
<1>2. /\ Len(read[t][c]) <= Len(Sorted(t)) /\ offset[t][c] = Len(read[t][c])
      /\ \A k \in 1 .. Len(read[t][c]) : read[t][c][k] = Sorted(t)[k]
  BY <1>1 DEF ReadInv, ReadSoFar
<1> QED
  BY <1>1, <1>2, SortedType DEF Extends

(* ... and leaves the readers under way where they are.                     *)
LEMMA OthersSelecting ==
  ASSUME ReadInv, UNCHANGED offset, shifted \subseteq shifted',
         \A t \in Topic \ shifted' : Extends(t),
         \A d \in Consumer : \/ UNCHANGED <<pc[d], cur_t[d], cur_i[d], cur_o[d]>>
                            \/ pc'[d] \notin {"select", "advance"}
  PROVE  Selecting'
<1> SUFFICES ASSUME NEW t \in Topic \ shifted', NEW d \in Consumer, cur_t'[d] = t,
                    pc'[d] \in {"select", "advance"}
             PROVE  /\ cur_o'[d] = offset[t][d]
                    /\ pc'[d] = "advance" =>
                         /\ cur_o'[d] + 1 \in 1 .. Len(Sorted(t)')
                         /\ cur_i'[d] = Sorted(t)'[cur_o'[d] + 1]
  BY DEF Selecting
<1>1. t \notin shifted /\ UNCHANGED <<pc[d], cur_t[d], cur_i[d], cur_o[d]>>
  OBVIOUS
<1>2. /\ cur_o[d] = offset[t][d]
      /\ pc[d] = "advance" =>
           cur_o[d] + 1 \in 1 .. Len(Sorted(t)) /\ cur_i[d] = Sorted(t)[cur_o[d] + 1]
  BY <1>1 DEF ReadInv, Selecting
<1> QED
  BY <1>1, <1>2, SortedType DEF Extends

LEMMA MovesOne ==
  ASSUME RouterTypes, NEW c \in Consumer, NEW step, NEW t, NEW i, NEW o, GoTo(c, step, t, i, o)
  PROVE  /\ \A d \in Consumer \ {c} : UNCHANGED <<pc[d], cur_t[d], cur_i[d], cur_o[d]>>
         /\ pc'[c] = step /\ cur_t'[c] = t /\ cur_i'[c] = i /\ cur_o'[c] = o
BY DEF RouterTypes, GoTo

LEMMA MoveTypes ==
  ASSUME RouterTypes, NEW c \in Consumer, NEW step \in Steps, NEW t \in Topic \cup {Nil},
         NEW i \in 0 .. MaxId, NEW o \in Nat, GoTo(c, step, t, i, o)
  PROVE  /\ pc' \in [Consumer -> Steps] /\ cur_t' \in [Consumer -> Topic \cup {Nil}]
         /\ cur_i' \in [Consumer -> 0 .. MaxId] /\ cur_o' \in [Consumer -> Nat]
BY DEF RouterTypes, GoTo

(* Steps of which the messages know nothing: a handler goes elsewhere.      *)
LEMMA MoveKeeps ==
  ASSUME ReadInv, NEW c \in Consumer, NEW step \in Steps \ {"advance"},
         NEW t \in Topic \cup {Nil}, NEW o \in Nat, NEW i \in 0 .. MaxId,
         GoTo(c, step, t, i, o), UNCHANGED <<routerVars, historyVars>>,
         step \in {"draw", "select", "persist"} => t \in Topic,
         step = "select" => o = offset[t][c],
         step # "register"
  PROVE  ReadInv'
<1> USE DEF ReadInv
<1>1. RouterTypes'
  BY MoveTypes DEF RouterTypes, routerVars, historyVars
<1>2. /\ \A d \in Consumer \ {c} : UNCHANGED <<pc[d], cur_t[d], cur_i[d], cur_o[d]>>
      /\ pc'[c] = step /\ cur_t'[c] = t /\ cur_i'[c] = i /\ cur_o'[c] = o
  BY MovesOne
<1>3. HandlersReady'
  BY <1>2 DEF HandlersReady
<1>4. IdsFresh'
  BY <1>2 DEF IdsFresh, routerVars
<1>5. ASSUME NEW u
      PROVE  Extends(u)
  BY SameExtends DEF Messages, routerVars
<1>6. ReadSoFar'
  BY <1>5, ReadStays DEF routerVars, historyVars
<1>7. Selecting'
  <2>1. CASE step # "select"
    <3>1. UNCHANGED offset /\ shifted \subseteq shifted'
      BY DEF routerVars, historyVars
    <3>2. \A d \in Consumer : \/ UNCHANGED <<pc[d], cur_t[d], cur_i[d], cur_o[d]>>
                               \/ pc'[d] \notin {"select", "advance"}
      BY <1>2, <2>1
    <3> QED
      BY <1>5, <3>1, <3>2, OthersSelecting
  <2>2. CASE step = "select"
    <3>1. /\ UNCHANGED <<offset, shifted>>
          /\ \A u : Sorted(u)' = Sorted(u)
      BY DEF Sorted, Messages, routerVars, historyVars
    <3> QED
      BY <1>2, <2>2, <3>1 DEF Selecting
  <2> QED
    BY <2>1, <2>2
<1> QED
  BY <1>1, <1>3, <1>4, <1>6, <1>7

LEMMA ReadFrame ==
  ASSUME ReadInv, UNCHANGED <<routerVars, threadVars, historyVars>>
  PROVE  ReadInv'
<1>1. UNCHANGED <<last_id, target, dead, offset, pc, cur_t, cur_i, cur_o, read, shifted>>
  BY DEF routerVars, threadVars, historyVars
<1>2. \A u : Sorted(u)' = Sorted(u)
  BY <1>1 DEF Sorted, Messages
<1>3. RouterTypes' /\ HandlersReady' /\ IdsFresh'
  BY <1>1 DEF ReadInv, RouterTypes, HandlersReady, IdsFresh
<1>4. Selecting' /\ ReadSoFar'
  BY <1>1, <1>2 DEF ReadInv, Selecting, ReadSoFar
<1> QED
  BY <1>3, <1>4 DEF ReadInv

LEMMA CloseKeeps ==
  ASSUME ReadInv, NEW c \in Consumer, Disconnect(c)
  PROVE  ReadInv'
<1>1. /\ pc[c] = "idle" /\ pc' = [pc EXCEPT ![c] = "closed"]
      /\ UNCHANGED <<last_id, target, dead, offset, cur_t, cur_i, cur_o, read, shifted>>
  BY DEF Disconnect, routerVars, historyVars
<1>2. \A u : Sorted(u)' = Sorted(u)
  BY <1>1 DEF Sorted, Messages
<1>3. RouterTypes'
  BY <1>1 DEF ReadInv, RouterTypes, Steps
<1>4. pc'[c] = "closed" /\ \A d \in Consumer \ {c} : pc'[d] = pc[d]
  BY <1>1 DEF ReadInv, RouterTypes
<1>5. HandlersReady' /\ IdsFresh'
  BY <1>1, <1>4 DEF ReadInv, HandlersReady, IdsFresh
<1>6. Selecting' /\ ReadSoFar'
  BY <1>1, <1>2, <1>4 DEF ReadInv, Selecting, ReadSoFar
<1> QED
  BY <1>3, <1>5, <1>6 DEF ReadInv

LEMMA SetOffsetKeeps ==
  ASSUME ReadInv, NEW c \in Consumer, NEW t \in Topic, NEW n \in Offsets, SetOffset(c, t, n)
  PROVE  ReadInv'
<1>1. /\ offset' = [offset EXCEPT ![t][c] = n] /\ n \in Nat
      /\ shifted' = shifted \cup {t}
      /\ UNCHANGED <<last_id, target, dead, pc, cur_t, cur_i, cur_o, read>>
  BY TopicsAssumption DEF SetOffset, threadVars
<1>2. \A u : Sorted(u)' = Sorted(u)
  BY <1>1 DEF Sorted, Messages
<1>3. RouterTypes'
  BY <1>1 DEF ReadInv, RouterTypes
<1>4. HandlersReady' /\ IdsFresh'
  BY <1>1 DEF ReadInv, HandlersReady, IdsFresh
<1>5. \A u \in Topic \ shifted' : u \notin shifted /\ offset'[u] = offset[u]
  BY <1>1 DEF ReadInv, RouterTypes
<1>6. Selecting' /\ ReadSoFar'
  BY <1>1, <1>2, <1>5 DEF ReadInv, Selecting, ReadSoFar
<1> QED
  BY <1>3, <1>4, <1>6 DEF ReadInv

LEMMA DrawKeeps ==
  ASSUME ReadInv, NEW c \in Consumer, DrawId(c)
  PROVE  ReadInv'
<1> USE DEF ReadInv
<1>1. /\ pc[c] = "draw" /\ last_id < MaxId /\ last_id' = last_id + 1
      /\ GoTo(c, "register", cur_t[c], last_id + 1, 0)
      /\ UNCHANGED <<target, dead, offset, read, shifted>>
  BY DEF DrawId, historyVars
<1>2. /\ cur_t[c] \in Topic /\ last_id + 1 \in Id /\ last_id + 1 \in 0 .. MaxId
      /\ last_id \in 0 .. MaxId
  BY <1>1, TopicsAssumption DEF HandlersReady, RouterTypes, Id
<1>3. RouterTypes'
  BY <1>1, <1>2, MoveTypes DEF RouterTypes, Steps
<1>4. /\ \A d \in Consumer \ {c} : UNCHANGED <<pc[d], cur_t[d], cur_i[d], cur_o[d]>>
      /\ pc'[c] = "register" /\ cur_t'[c] = cur_t[c] /\ cur_i'[c] = last_id + 1
  BY <1>1, MovesOne
<1>5. HandlersReady'
  BY <1>2, <1>4 DEF HandlersReady
<1>6. IdsFresh'
  <2>1. \A i \in Id : target[i] # Nil => i <= last_id + 1 /\ i # last_id + 1
    BY <1>2, TopicsAssumption DEF IdsFresh, Id
  <2>2. \A d \in Consumer \ {c} : pc[d] = "register" =>
          cur_i[d] <= last_id + 1 /\ cur_i[d] # last_id + 1
    BY <1>2 DEF IdsFresh, RouterTypes
  <2>3. (\A i \in dead : target[i] # Nil)' /\ (\A i \in Id : target[i] # Nil => i <= last_id)'
    BY <1>1, <2>1 DEF IdsFresh
  <2>4. target[last_id + 1] = Nil
    BY <1>2, <2>1
  <2>5. (\A d \in Consumer :
            pc[d] = "register" => cur_i[d] <= last_id /\ target[cur_i[d]] = Nil)'
    BY <1>1, <1>2, <1>4, <2>2, <2>4 DEF IdsFresh
  <2>6. (\A d, e \in Consumer :
            pc[d] = "register" /\ pc[e] = "register" /\ cur_i[d] = cur_i[e] => d = e)'
    BY <1>4, <2>2 DEF IdsFresh
  <2> QED
    BY <2>3, <2>5, <2>6 DEF IdsFresh
<1>7. ASSUME NEW u
      PROVE  Extends(u)
  BY <1>1, SameExtends DEF Messages
<1>8. ReadSoFar'
  BY <1>1, <1>7, ReadStays
<1>9. Selecting'
  BY <1>1, <1>4, <1>7, OthersSelecting
<1> QED
  BY <1>3, <1>5, <1>6, <1>8, <1>9

(* A message goes to the end of its topic, or what was read there before is *)
(* none of ReadInOrder's business any more.                                 *)
LEMMA RegisterKeeps ==
  ASSUME ReadInv, NEW c \in Consumer, Register(c)
  PROVE  ReadInv'
<1> USE DEF ReadInv
<1> DEFINE t == cur_t[c]
           i == cur_i[c]
<1>1. /\ pc[c] = "register" /\ target' = [target EXCEPT ![i] = t]
      /\ shifted' = IF \E j \in Messages(t) : j > i THEN shifted \cup {t} ELSE shifted
      /\ GoTo(c, "persist", t, i, 0)
      /\ UNCHANGED <<last_id, dead, offset, read>>
  BY DEF Register
<1>2. /\ t \in Topic /\ i \in Id /\ i \in 0 .. MaxId /\ i <= last_id
      /\ target[i] = Nil /\ i \notin dead
  BY <1>1 DEF HandlersReady, RouterTypes, IdsFresh
<1> HIDE DEF t, i
<1>3. RouterTypes'
  <2>1. shifted' \subseteq Topic /\ target' \in [Id -> Topic \cup {Nil}]
    BY <1>1, <1>2 DEF RouterTypes
  <2> QED
    BY <1>1, <1>2, <2>1, MoveTypes DEF RouterTypes, Steps
<1>4. /\ \A d \in Consumer \ {c} : UNCHANGED <<pc[d], cur_t[d], cur_i[d], cur_o[d]>>
      /\ pc'[c] = "persist" /\ cur_t'[c] = t
  BY <1>1, MovesOne
<1>5. HandlersReady'
  BY <1>2, <1>4 DEF HandlersReady
<1>6. target'[i] = t /\ \A j \in Id \ {i} : target'[j] = target[j]
  BY <1>1, <1>2 DEF RouterTypes
<1>7. IdsFresh'
  <2>1. \A d \in Consumer \ {c} : pc[d] = "register" => cur_i[d] \in Id /\ cur_i[d] # i
    BY <1>1 DEF IdsFresh, HandlersReady, i
  <2>2. t # Nil
    BY <1>2, TopicsAssumption
  <2>3. (\A j \in dead : target[j] # Nil)' /\ (\A j \in Id : target[j] # Nil => j <= last_id)'
    BY <1>1, <1>2, <1>6, <2>2 DEF IdsFresh, RouterTypes
  <2>4. (\A d \in Consumer :
            pc[d] = "register" => cur_i[d] <= last_id /\ target[cur_i[d]] = Nil)'
    BY <1>1, <1>4, <1>6, <2>1 DEF IdsFresh
  <2>5. (\A d, e \in Consumer :
            pc[d] = "register" /\ pc[e] = "register" /\ cur_i[d] = cur_i[e] => d = e)'
    BY <1>4 DEF IdsFresh
  <2> QED
    BY <2>3, <2>4, <2>5 DEF IdsFresh
<1>8. ASSUME NEW u \in Topic \ shifted'
      PROVE  Extends(u)
  <2>1. CASE u # t
    <3>1. Messages(u)' = Messages(u)
      BY <1>1, <1>2, <1>6, <2>1, TopicsAssumption DEF Messages
    <3> QED
      BY <3>1, SameExtends
  <2>2. CASE u = t
    <3>1. Messages(u)' = Messages(u) \cup {i} /\ i \notin Messages(u)
      BY <1>1, <1>2, <1>6, <2>2, TopicsAssumption DEF Messages
    <3>2. ASSUME NEW j \in Messages(u)
          PROVE  j < i
      <4>1. ~(j > i)
        BY <1>1, <1>8, <2>2
      <4>2. i \in Nat /\ j \in Nat /\ j # i
        BY <1>2, <3>1, SortedType, TopicsAssumption DEF Id
      <4> QED
        BY <4>1, <4>2
    <3> QED
      BY <1>2, <3>1, <3>2, NewestExtends
  <2> QED
    BY <2>1, <2>2
<1>9. shifted \subseteq shifted'
  BY <1>1
<1>10. ReadSoFar'
  BY <1>1, <1>8, <1>9, ReadStays
<1>11. Selecting'
  BY <1>1, <1>4, <1>8, <1>9, OthersSelecting
<1> QED
  BY <1>3, <1>5, <1>7, <1>10, <1>11

(* Expiry and REPLAY move positions: the topic is left out from there on.   *)
LEMMA DeadKeeps ==
  ASSUME ReadInv, NEW i \in Id, Expire(i) \/ Replay(i)
  PROVE  ReadInv'
<1> USE DEF ReadInv
<1>1. /\ target[i] \in Topic /\ shifted' = shifted \cup {target[i]}
      /\ dead' = dead \cup {i} \/ dead' = dead \ {i}
      /\ \A j \in dead' : target[j] # Nil
      /\ UNCHANGED <<last_id, target, offset, pc, cur_t, cur_i, cur_o, read>>
  BY DEF Expire, Replay, threadVars, IdsFresh, RouterTypes
<1>2. RouterTypes'
  BY <1>1 DEF RouterTypes
<1>3. HandlersReady' /\ IdsFresh'
  BY <1>1 DEF HandlersReady, IdsFresh
<1>4. ASSUME NEW u \in Topic \ shifted'
      PROVE  Extends(u)
  <2>1. Messages(u)' = Messages(u)
    BY <1>1 DEF Messages
  <2> QED
    BY <2>1, SameExtends
<1>5. ReadSoFar'
  BY <1>1, <1>4, ReadStays
<1>6. Selecting'
  <2>1. \A d \in Consumer : \/ UNCHANGED <<pc[d], cur_t[d], cur_i[d], cur_o[d]>>
                             \/ pc'[d] \notin {"select", "advance"}
    BY <1>1
  <2>2. UNCHANGED offset /\ shifted \subseteq shifted'
    BY <1>1
  <2> QED
    BY <1>4, <2>1, <2>2, OthersSelecting
<1> QED
  BY <1>2, <1>3, <1>5, <1>6

LEMMA SelectKeeps ==
  ASSUME ReadInv, NEW c \in Consumer, Select(c)
  PROVE  ReadInv'
<1> USE DEF ReadInv
<1> DEFINE t == cur_t[c]
           o == cur_o[c]
<1>1. /\ pc[c] = "select" /\ UNCHANGED <<routerVars, historyVars>>
      /\ t \in Topic /\ o \in Nat /\ cur_i[c] \in 0 .. MaxId
  BY DEF Select, HandlersReady, RouterTypes
<1>2. CASE Return(c)
  BY <1>1, <1>2, MoveKeeps, TopicsAssumption DEF Return, Steps
<1>3. CASE o < Len(Sorted(t)) /\ GoTo(c, "advance", t, Sorted(t)[o + 1], o)
  <2> DEFINE i == Sorted(t)[o + 1]
  <2>1. o + 1 \in 1 .. Len(Sorted(t)) /\ i \in Id /\ i \in 0 .. MaxId
    <3>1. o + 1 \in 1 .. Len(Sorted(t)) /\ i \in Id
      BY <1>1, <1>3, SortedType
    <3> QED
      BY <3>1, TopicsAssumption DEF Id
  <2>2. RouterTypes'
    BY <1>1, <1>3, <2>1, MoveTypes DEF RouterTypes, Steps, routerVars, historyVars
  <2>3. /\ \A d \in Consumer \ {c} : UNCHANGED <<pc[d], cur_t[d], cur_i[d], cur_o[d]>>
        /\ pc'[c] = "advance" /\ cur_t'[c] = t /\ cur_i'[c] = i /\ cur_o'[c] = o
    BY <1>3, MovesOne
  <2>4. /\ UNCHANGED <<last_id, target, dead, offset, read, shifted>>
        /\ \A u : Sorted(u)' = Sorted(u)
    BY <1>1 DEF Sorted, Messages, routerVars, historyVars
  <2>5. HandlersReady' /\ IdsFresh'
    BY <1>1, <2>1, <2>3, <2>4 DEF HandlersReady, IdsFresh
  <2>6. ReadSoFar'
    BY <2>4 DEF ReadSoFar
  <2>7. Selecting'
    <3> SUFFICES ASSUME NEW u \in Topic \ shifted, NEW d \in Consumer, cur_t'[d] = u
                 PROVE  /\ pc'[d] \in {"select", "advance"} => cur_o'[d] = offset[u][d]
                        /\ pc'[d] = "advance" =>
                             /\ cur_o'[d] + 1 \in 1 .. Len(Sorted(u))
                             /\ cur_i'[d] = Sorted(u)[cur_o'[d] + 1]
      BY <2>4 DEF Selecting
    <3>1. CASE d # c
      BY <2>3, <3>1 DEF Selecting
    <3>2. CASE d = c
      BY <1>1, <2>1, <2>3, <3>2 DEF Selecting
    <3> QED
      BY <3>1, <3>2
  <2> QED
    BY <2>2, <2>5, <2>6, <2>7
<1> QED
  BY <1>2, <1>3 DEF Select

(* The reader gets the message at its place and goes on to the next one.    *)
LEMMA AdvanceKeeps ==
  ASSUME ReadInv, NEW c \in Consumer, Advance(c)
  PROVE  ReadInv'
<1> USE DEF ReadInv
<1> DEFINE t == cur_t[c]
           o == cur_o[c]
<1>1. /\ pc[c] = "advance" /\ offset' = [offset EXCEPT ![t][c] = o + 1]
      /\ read' = IF t \in shifted THEN read ELSE [read EXCEPT ![t][c] = Append(@, cur_i[c])]
      /\ Return(c) /\ UNCHANGED <<last_id, target, dead, shifted>>
  BY DEF Advance, NextOffset
<1>2. t \in Topic /\ o \in Nat /\ cur_i[c] \in Id
  BY <1>1 DEF HandlersReady, RouterTypes
<1>3. /\ \A d \in Consumer \ {c} : UNCHANGED <<pc[d], cur_t[d], cur_i[d], cur_o[d]>>
      /\ pc'[c] = "idle"
  BY <1>1, MovesOne DEF Return
<1>4. \A u : Sorted(u)' = Sorted(u)
  BY <1>1 DEF Sorted, Messages
<1>5. RouterTypes'
  <2>1. offset' \in [Topic -> [Consumer -> Nat]] /\ read' \in [Topic -> [Consumer -> Seq(Id)]]
    <3>1. Append(read[t][c], cur_i[c]) \in Seq(Id)
      BY <1>2 DEF RouterTypes
    <3> QED
      BY <1>1, <1>2, <3>1 DEF RouterTypes
  <2>2. /\ pc' \in [Consumer -> Steps] /\ cur_t' \in [Consumer -> Topic \cup {Nil}]
        /\ cur_i' \in [Consumer -> 0 .. MaxId] /\ cur_o' \in [Consumer -> Nat]
    BY <1>1, MoveTypes, TopicsAssumption DEF Return, Steps
  <2> QED
    BY <1>1, <2>1, <2>2 DEF RouterTypes
<1>6. HandlersReady' /\ IdsFresh'
  BY <1>1, <1>3 DEF HandlersReady, IdsFresh
<1>7. \A u \in Topic, d \in Consumer : u # t \/ d # c =>
        offset'[u][d] = offset[u][d] /\ read'[u][d] = read[u][d]
  BY <1>1, <1>2 DEF RouterTypes
<1>8. Selecting'
  BY <1>1, <1>3, <1>4, <1>7 DEF Selecting
<1>9. ReadSoFar'
  <2> SUFFICES ASSUME NEW u \in Topic \ shifted, NEW d \in Consumer
               PROVE  /\ Len(read'[u][d]) <= Len(Sorted(u)) /\ offset'[u][d] = Len(read'[u][d])
                      /\ \A k \in 1 .. Len(read'[u][d]) : read'[u][d][k] = Sorted(u)[k]
    BY <1>1, <1>4 DEF ReadSoFar
  <2>1. CASE u # t \/ d # c
    BY <1>7, <2>1 DEF ReadSoFar
  <2>2. CASE u = t /\ d = c
    <3> DEFINE r == read[t][c]
    <3>1. r \in Seq(Id) /\ t \notin shifted
      BY <1>2, <2>2 DEF RouterTypes
    <3>2. Len(r) = o /\ \A k \in 1 .. Len(r) : r[k] = Sorted(t)[k]
      BY <1>1, <1>2, <3>1 DEF Selecting, ReadSoFar
    <3>3. o + 1 \in 1 .. Len(Sorted(t)) /\ cur_i[c] = Sorted(t)[o + 1]
      BY <1>1, <1>2, <3>1 DEF Selecting
    <3>4. read'[t][c] = Append(r, cur_i[c]) /\ offset'[t][c] = o + 1
      BY <1>1, <1>2, <3>1 DEF RouterTypes
    <3> HIDE DEF r
    <3>5. /\ Len(read'[t][c]) = o + 1
          /\ \A k \in 1 .. o + 1 : read'[t][c][k] = IF k = o + 1 THEN cur_i[c] ELSE r[k]
      BY <1>2, <3>1, <3>2, <3>4
    <3> QED
      BY <1>2, <2>2, <3>2, <3>3, <3>4, <3>5, SortedType
  <2> QED
    BY <2>1, <2>2
<1> QED
  BY <1>5, <1>6, <1>8, <1>9

LEMMA ReadInit == Init => ReadInv
<1> SUFFICES ASSUME Init
             PROVE  ReadInv
  OBVIOUS
<1>1. RouterTypes
  <2>1. <<>> \in Seq(Id) /\ 0 \in 0 .. MaxId
    BY TopicsAssumption
  <2> QED
    BY <2>1 DEF Init, RouterTypes, Steps
<1>2. HandlersReady /\ IdsFresh /\ Selecting
  BY DEF Init, HandlersReady, IdsFresh, Selecting
<1>3. ReadSoFar
  <2>1. ASSUME NEW t \in Topic \ shifted, NEW c \in Consumer
        PROVE  /\ Len(read[t][c]) <= Len(Sorted(t)) /\ offset[t][c] = Len(read[t][c])
               /\ \A k \in 1 .. Len(read[t][c]) : read[t][c][k] = Sorted(t)[k]
    <3>1. read[t][c] = <<>> /\ offset[t][c] = 0
      BY DEF Init
    <3> QED
      BY <3>1, SortedType
  <2> QED
    BY <2>1 DEF ReadSoFar
<1> QED
  BY <1>1, <1>2, <1>3 DEF ReadInv

LEMMA ReadStep == ReadInv /\ [Next]_vars => ReadInv'
<1> SUFFICES ASSUME ReadInv, [Next]_vars
             PROVE  ReadInv'
  OBVIOUS
<1>1. ASSUME NEW c \in Consumer, NEW t \in Topic,
             Subscribe(c, t) \/ Unsubscribe(c, t) \/ Publish(c, t) \/ Read(c, t)
      PROVE  ReadInv'
  <2>1. offset[t][c] \in Nat
    BY DEF ReadInv, RouterTypes
  <2>2. PICK step \in {"subscribed", "unsubscribed", "draw", "select"},
             o \in {0, offset[t][c]} :
          /\ GoTo(c, step, t, 0, o) /\ UNCHANGED <<routerVars, historyVars>>
          /\ step = "select" => o = offset[t][c]
    BY <1>1 DEF Subscribe, Unsubscribe, Publish, Read
  <2>3. step \in Steps \ {"advance"} /\ o \in Nat /\ 0 \in 0 .. MaxId
    BY <2>1, <2>2, TopicsAssumption DEF Steps
  <2> QED
    BY <2>2, <2>3, MoveKeeps
<1>2. ASSUME NEW c \in Consumer, NoteSubscription(c) \/ PublishPersist(c)
      PROVE  ReadInv'
  <2>1. GoTo(c, "idle", Nil, 0, 0) /\ UNCHANGED <<routerVars, historyVars>>
    BY <1>2 DEF NoteSubscription, PublishPersist, Return
  <2> QED
    BY <2>1, MoveKeeps, TopicsAssumption DEF Steps
<1>3. ASSUME NEW c \in Consumer, NEW t \in Topic,
             \/ CreateTopic(c, t) \/ DeleteTopic(c, t)
             \/ \E n \in Offsets : SetOffset(c, t, n)
      PROVE  ReadInv'
  BY <1>3, ReadFrame, SetOffsetKeeps DEF CreateTopic, DeleteTopic
<1>4. CASE UNCHANGED vars
  BY <1>4, ReadFrame DEF vars
<1>5. ASSUME NEW c \in Consumer, Command(c)
      PROVE  ReadInv'
  BY <1>1, <1>3, <1>5, Zenon DEF Command
<1>6. ASSUME NEW c \in Consumer, RunsOn(c) \/ Disconnect(c)
      PROVE  ReadInv'
  BY <1>2, <1>6, DrawKeeps, RegisterKeeps, SelectKeeps, AdvanceKeeps, CloseKeeps, Zenon
     DEF RunsOn
<1> QED
  BY <1>4, <1>5, <1>6, DeadKeeps, Zenon DEF Next

LEMMA ReadInvariant == Spec => []ReadInv
BY ReadInit, ReadStep, PTL DEF Spec

(* Readers get the messages of a topic from the first on, each once and in  *)
(* the order of the ids, and their offsets count them, for any number of    *)
(* publishers and readers, as long as positions mean anything               *)
(* (consume_from_topic).                                                    *)
THEOREM ReadersGetAll == Spec => []ReadInOrder
<1>1. ReadInv => ReadInOrder
  <2> SUFFICES ASSUME ReadInv, NEW t \in Topic \ shifted, NEW c \in Consumer
               PROVE  IsPrefix(read[t][c], Sorted(t)) /\ offset[t][c] = Len(read[t][c])
    BY DEF ReadInOrder
  <2> DEFINE r == read[t][c]
             s == Sorted(t)
  <2>1. r \in Seq(Id) /\ s \in Seq(Id) /\ Len(r) \in Nat /\ Len(s) \in Nat
    BY SortedType DEF ReadInv, RouterTypes
  <2>2. /\ Len(r) <= Len(s) /\ offset[t][c] = Len(r)
        /\ \A k \in 1 .. Len(r) : r[k] = s[k]
    BY DEF ReadInv, ReadSoFar
  <2> HIDE DEF r, s
  <2>3. SubSeq(r, 1, Len(r)) = [k \in 1 .. Len(r) |-> r[k]]
        /\ SubSeq(s, 1, Len(r)) = [k \in 1 .. Len(r) |-> s[k]]
    BY <2>1, <2>2
  <2>4. IsPrefix(r, s)
    BY <2>2, <2>3 DEF IsPrefix
  <2> QED
    BY <2>2, <2>4 DEF r, s
<1> QED
  BY <1>1, ReadInvariant, PTL

(* Type correctness; and there are never more topics than the manager       *)
(* allows, whoever creates and deletes them (create_topic).                 *)
THEOREM TopicTypes == Spec => []TypeOK
<1>1. SubscriptionInv /\ ReadInv /\ TopicsBounded => TypeOK
  BY DEF SubscriptionInv, SubscriptionTypes, ReadInv, RouterTypes, TopicsBounded, TypeOK
<1> QED
  BY <1>1, SubscriptionInvariant, ReadInvariant, TopicsInvariant, PTL
=============================================================================
