---------------------------- MODULE BrokerProofs ----------------------------
(* Proofs of the safety properties of QueueManager and of Broker.          *)
EXTENDS BrokerProperties, FiniteSetTheorems, TLAPS

(* The queue manager on its own.                                           *)

(* CapacityRespected is inductive with the types; NoOrphanItems is what    *)
(* lets CreateQueue start from an empty deque.                             *)
QueueInv == QueueTypeOK /\ CapacityRespected /\ NoOrphanItems

LEMMA CapacityIsPositive ==
  ASSUME NEW n \in Sizes
  PROVE  Capacity(n) \in Nat \ {0}
BY SizesAssumption DEF Capacity

LEMMA EnqueueInv ==
  ASSUME QueueInv, NEW q, NEW m \in Msg, Enqueue(q, m)
  PROVE  QueueInv'
<1> USE DEF QueueInv, QueueTypeOK, CapacityRespected, NoOrphanItems
<1>1. q \in Queue /\ q \in queues /\ items[q] \in Seq(Msg)
  BY DEF Enqueue, Accepts
<1>2. /\ Append(items[q], m) \in Seq(Msg)
      /\ Len(Append(items[q], m)) = Len(items[q]) + 1
  BY <1>1
<1>3. Len(items[q]) < max_size[q] /\ Len(items[q]) \in Nat
  BY <1>1 DEF Enqueue, Accepts
<1>4. QueueTypeOK'
  BY <1>1, <1>2 DEF Enqueue
<1>5. \A r \in queues : Len(items[r])' <= max_size[r]
  BY <1>1, <1>2, <1>3 DEF Enqueue
<1> QED
  BY <1>1, <1>4, <1>5 DEF Enqueue

LEMMA DequeueInv ==
  ASSUME QueueInv, NEW q \in Queue, Dequeue(q)
  PROVE  QueueInv'
<1> USE DEF QueueInv, QueueTypeOK, CapacityRespected, NoOrphanItems
<1>1. items[q] \in Seq(Msg) /\ items[q] # <<>> /\ q \in queues
  BY DEF Dequeue
<1>2. /\ Tail(items[q]) \in Seq(Msg)
      /\ Len(Tail(items[q])) = Len(items[q]) - 1
      /\ Len(items[q]) \in Nat
  BY <1>1
<1>3. \A r \in queues : Len(items[r])' <= max_size[r]
  BY <1>1, <1>2 DEF Dequeue
<1> QED
  BY <1>1, <1>2, <1>3 DEF Dequeue

LEMMA QueueStep == QueueInv /\ [QueueNext]_queueVars => QueueInv'
<1> SUFFICES ASSUME QueueInv, [QueueNext]_queueVars
             PROVE  QueueInv'
  OBVIOUS
<1> USE DEF QueueInv, QueueTypeOK, CapacityRespected, NoOrphanItems
<1>1. ASSUME NEW q \in Queue, NEW n \in Sizes, CreateQueue(q, n)
      PROVE  QueueInv'
  <2>1. QueueTypeOK' /\ NoOrphanItems'
    BY <1>1, CapacityIsPositive DEF CreateQueue
  <2>2. items'[q] = <<>> /\ max_size'[q] \in Nat
    BY <1>1, CapacityIsPositive DEF CreateQueue
  <2>3. Len(items'[q]) <= max_size'[q]
    BY <2>2
  <2> QED
    BY <1>1, <2>1, <2>3 DEF CreateQueue
<1>2. ASSUME NEW q \in Queue, DeleteQueue(q)
      PROVE  QueueInv'
  BY <1>2 DEF DeleteQueue
<1>3. CASE UNCHANGED queueVars
  BY <1>3 DEF queueVars
<1> QED
  BY <1>1, <1>2, <1>3, EnqueueInv, DequeueInv DEF QueueNext

(* The queues keep this invariant, whoever uses them.                      *)
LEMMA QueueAlwaysInv == QueueSpec => []QueueInv
<1>1. QueueInit => QueueInv
  BY SizesAssumption
     DEF QueueInit, QueueInv, QueueTypeOK, CapacityRespected, NoOrphanItems
<1> QED
  BY <1>1, QueueStep, PTL DEF QueueSpec

(* No queue outgrows the capacity it was created with (create_queue,       *)
(* enqueue), for any set of names, messages and sizes.                     *)
THEOREM QueueCapacity == QueueSpec => []CapacityRespected
BY QueueAlwaysInv, PTL DEF QueueInv

-----------------------------------------------------------------------------
(* The broker.                                                             *)
USE DEF shared, registry, queueVars, msgVars, clockVars, localVars,
        checkerVars

-----------------------------------------------------------------------------
(* Types, one lemma for each way the threads of clients move.              *)
LEMMA GoToTypes ==
  ASSUME ThreadTypeOK, NEW c \in Client, NEW step \in Steps,
         NEW m \in Msg \cup {Nil}, NEW q \in Queue \cup {Nil},
         step \in NeedsMessage => m \in Msg,
         step \in NeedsQueue => q \in Queue,
         GoTo(c, step, m, q)
  PROVE  ThreadTypeOK'
BY DEF ThreadTypeOK, GoTo

LEMMA GoBareTypes ==
  ASSUME ThreadTypeOK, NEW c \in Client,
         NEW step \in {"idle", "ack_batch", "replay_find", "replay_pop",
                       "replay_route"},
         GoTo(c, step, Nil, Nil)
  PROVE  ThreadTypeOK'
BY GoToTypes DEF Steps, NeedsMessage, NeedsQueue

LEMMA ReturnTypes ==
  ASSUME ThreadTypeOK, NEW c \in Client, Return(c)
  PROVE  ThreadTypeOK'
BY GoBareTypes DEF Return

LEMMA StayTypes ==
  ASSUME ThreadTypeOK, UNCHANGED <<pc, cur_m, cur_q>>
  PROVE  ThreadTypeOK'
BY DEF ThreadTypeOK

LEMMA ReplayGoesOnTypes ==
  ASSUME ThreadTypeOK, IdSetsTypeOK, NEW c \in Client,
         NEW rest \in SUBSET Msg, NEW done \in SUBSET Msg,
         ReplayGoesOn(c, rest, done)
  PROVE  ThreadTypeOK' /\ IdSetsTypeOK'
<1>1. PICK step \in {"replay_pop", "replay_route", "idle"} :
        GoTo(c, step, Nil, Nil)
  BY Zenon DEF ReplayGoesOn
<1>2. ThreadTypeOK'
  BY <1>1, GoBareTypes
<1>3. IdSetsTypeOK'
  BY DEF ReplayGoesOn, IdSetsTypeOK
<1> QED
  BY <1>2, <1>3

LEMMA ReplayQueuesNextTypes ==
  ASSUME ThreadTypeOK, NEW c \in Client, NEW rest,
         ReplayQueuesNext(c, rest)
  PROVE  ThreadTypeOK'
BY ReturnTypes, GoToTypes
   DEF ReplayQueuesNext, Steps, NeedsMessage, NeedsQueue

LEMMA MakePendingTypes ==
  ASSUME MessageTypeOK, NEW m \in Msg, MakePending(m)
  PROVE  /\ status' \in [Msg -> Statuses]
         /\ delivered_to' \in [Msg -> Client \cup {Nil}]
         /\ overdue' \subseteq Msg
BY DEF MakePending, MessageTypeOK, Statuses

LEMMA MarkDeadTypes ==
  ASSUME MessageTypeOK, NEW m \in Msg, MarkDead(m)
  PROVE  /\ status' \in [Msg -> Statuses]
         /\ target' \in [Msg -> Queue \cup {DLQ, Nil}]
         /\ original_target' \in [Msg -> Queue \cup {DLQ, Nil}]
BY DEF MarkDead, MessageTypeOK, Statuses

LEMMA TodoTypes ==
  ASSUME IdSetsTypeOK, NEW c \in Client, NEW S \in SUBSET Msg,
         todo' = [todo EXCEPT ![c] = S], replayed' = replayed
  PROVE  IdSetsTypeOK'
BY DEF IdSetsTypeOK

LEMMA EnqueueTypes ==
  ASSUME QueueTypeOK, NEW q, NEW m \in Msg, Enqueue(q, m)
  PROVE  QueueTypeOK'
<1>1. q \in Queue /\ items[q] \in Seq(Msg)
  BY DEF Enqueue, Accepts, QueueTypeOK
<1>2. Append(items[q], m) \in Seq(Msg)
  BY <1>1
<1> QED
  BY <1>1, <1>2 DEF Enqueue, QueueTypeOK

LEMMA SizeIsNat ==
  ASSUME messages \subseteq Msg
  PROVE  Cardinality(messages) \in Nat
BY BrokerAssumption, FS_Subset, FS_CardinalityType

LEMMA InitTypes == Init => TypeOK
BY SizesAssumption, BrokerAssumption
   DEF Init, QueueInit, TypeOK, QueueTypeOK, MessageTypeOK, ThreadTypeOK,
       IdSetsTypeOK, CheckerTypeOK, Statuses, Steps, CheckerSteps, Answers,
       NeedsMessage, NeedsQueue

LEMMA CommandTypes ==
  ASSUME TypeOK, NEW c \in Client, Command(c)
  PROVE  TypeOK'
<1> USE DEF TypeOK, QueueTypeOK, MessageTypeOK, IdSetsTypeOK, CheckerTypeOK
<1>1. ASSUME NEW q \in Queue, NEW n \in Sizes, CreateQueueCmd(c, q, n)
      PROVE  TypeOK'
  BY <1>1, CapacityIsPositive, StayTypes DEF CreateQueueCmd, CreateQueue
<1>2. ASSUME NEW q \in Queue, DeleteQueueCmd(c, q)
      PROVE  TypeOK'
  BY <1>2, StayTypes DEF DeleteQueueCmd, DeleteQueue
<1>3. ASSUME NEW q \in Queue, NEW m \in Msg, SendRegister(c, q, m)
      PROVE  TypeOK'
  BY <1>3, GoToTypes DEF SendRegister, Steps
<1>4. ASSUME NEW q \in Queue, ConsumeStart(c, q)
      PROVE  TypeOK'
  BY <1>4, GoToTypes DEF ConsumeStart, Steps, NeedsMessage
<1>5. ASSUME NEW m \in Msg, AckCheck(c, m)
      PROVE  TypeOK'
  <2>1. ThreadTypeOK'
    BY <1>5, GoToTypes, StayTypes DEF AckCheck, Steps, NeedsQueue
  <2> QED
    BY <1>5, <2>1 DEF AckCheck
<1>6. ASSUME NEW m \in Msg, NackCheck(c, m)
      PROVE  TypeOK'
  BY <1>6, GoToTypes DEF NackCheck, Steps, NeedsQueue
<1>7. ASSUME NEW m \in Msg, ReplayStart(c, m)
      PROVE  TypeOK'
  <2>1. ThreadTypeOK'
    BY <1>7, GoBareTypes DEF ReplayStart
  <2>2. {m} \in SUBSET Msg
    OBVIOUS
  <2>3. IdSetsTypeOK'
    BY <1>7, <2>2, TodoTypes DEF ReplayStart
  <2> QED
    BY <1>7, <2>1, <2>3 DEF ReplayStart
<1>8. ASSUME NEW S \in SUBSET messages \ {{}}, AckBatch(c, S)
      PROVE  TypeOK'
  <2>1. ThreadTypeOK'
    BY <1>8, GoBareTypes DEF AckBatch
  <2>2. S \in SUBSET Msg
    OBVIOUS
  <2>3. IdSetsTypeOK'
    BY <1>8, <2>2, TodoTypes DEF AckBatch
  <2> QED
    BY <1>8, <2>1, <2>3 DEF AckBatch
<1>9. CASE ReplayAll(c)
  <2>1. ThreadTypeOK'
    BY <1>9, GoBareTypes DEF ReplayAll
  <2> QED
    BY <1>9, <2>1 DEF ReplayAll, IdSetsTypeOK
<1>10. CASE Disconnect(c)
  <2>1. ThreadTypeOK'
    BY <1>10 DEF Disconnect, ThreadTypeOK, Steps, NeedsMessage, NeedsQueue
  <2> QED
    BY <1>10, <2>1 DEF Disconnect
<1> QED
  BY <1>1, <1>2, <1>3, <1>4, <1>5, <1>6, <1>7, <1>8, <1>9, <1>10
     DEF Command

LEMMA RunTypes ==
  ASSUME TypeOK, NEW c \in Client, RunsOn(c)
  PROVE  TypeOK'
<1> USE DEF TypeOK
<1>1. CASE SendEnqueue(c)
  <2> DEFINE q == cur_q[c]  m == cur_m[c]
  <2>1. q \in Queue /\ m \in Msg
    BY <1>1 DEF SendEnqueue, ThreadTypeOK, NeedsMessage, NeedsQueue
  <2>2. ThreadTypeOK'
    BY <1>1, <2>1, GoToTypes, ReturnTypes
       DEF SendEnqueue, Steps, NeedsMessage, NeedsQueue
  <2>3. QueueTypeOK'
    BY <1>1, <2>1, EnqueueTypes DEF SendEnqueue, QueueTypeOK
  <2>4. sent' \in [Msg -> Answers]
    BY <1>1, <2>1 DEF SendEnqueue, AnswerSend, MessageTypeOK, Answers
  <2> QED
    BY <1>1, <2>2, <2>3, <2>4
       DEF SendEnqueue, MessageTypeOK, IdSetsTypeOK, CheckerTypeOK
<1>2. CASE SendDelete(c)
  <2>1. sent' \in [Msg -> Answers]
    BY <1>2 DEF SendDelete, AnswerSend, MessageTypeOK, Answers
  <2> QED
    BY <1>2, <2>1, ReturnTypes
       DEF SendDelete, MessageTypeOK, IdSetsTypeOK, CheckerTypeOK, QueueTypeOK
<1>3. CASE SendPersist(c)
  <2>1. sent' \in [Msg -> Answers]
    BY <1>3 DEF SendPersist, AnswerSend, MessageTypeOK, Answers
  <2> QED
    BY <1>3, <2>1, ReturnTypes
       DEF SendPersist, MessageTypeOK, IdSetsTypeOK, CheckerTypeOK, QueueTypeOK
<1>4. CASE ConsumeDequeue(c)
  <2> DEFINE q == cur_q[c]
  <2>1. q \in Queue
    BY <1>4 DEF ConsumeDequeue, ThreadTypeOK, NeedsQueue
  <2>2. CASE Dequeue(q) /\ GoTo(c, "consume_mark", Head(items[q]), q)
    <3>1. Head(items[q]) \in Msg /\ Tail(items[q]) \in Seq(Msg)
      BY <2>1, <2>2 DEF Dequeue, QueueTypeOK
    <3>2. ThreadTypeOK'
      BY <2>1, <2>2, <3>1, GoToTypes DEF Steps, NeedsMessage, NeedsQueue
    <3>3. QueueTypeOK'
      BY <2>2, <3>1 DEF Dequeue, QueueTypeOK
    <3> QED
      BY <1>4, <3>2, <3>3
         DEF ConsumeDequeue, MessageTypeOK, IdSetsTypeOK, CheckerTypeOK
  <2>3. CASE Return(c) /\ UNCHANGED queueVars
    BY <1>4, <2>3, ReturnTypes
       DEF ConsumeDequeue, MessageTypeOK, IdSetsTypeOK, CheckerTypeOK,
           QueueTypeOK
  <2> QED
    BY <1>4, <2>2, <2>3 DEF ConsumeDequeue
<1>5. CASE MarkDelivered(c)
  <2>1. cur_m[c] \in Msg /\ cur_q[c] \in Queue
    BY <1>5 DEF MarkDelivered, ThreadTypeOK, NeedsMessage, NeedsQueue
  <2>2. ThreadTypeOK'
    BY <1>5, <2>1, GoToTypes, ReturnTypes
       DEF MarkDelivered, Steps, NeedsMessage, NeedsQueue
  <2>3. status' \in [Msg -> Statuses]
    BY <1>5, <2>1 DEF MarkDelivered, MessageTypeOK, Statuses
  <2>4. delivered_to' \in [Msg -> Client \cup {Nil}] /\ overdue' \subseteq Msg
    BY <1>5, <2>1 DEF MarkDelivered, MessageTypeOK
  <2> QED
    BY <1>5, <2>2, <2>3, <2>4
       DEF MarkDelivered, MessageTypeOK, IdSetsTypeOK, CheckerTypeOK,
           QueueTypeOK
<1>6. CASE AckSet(c)
  <2>1. cur_m[c] \in Msg
    BY <1>6 DEF AckSet, ThreadTypeOK, NeedsMessage
  <2>2. ThreadTypeOK'
    BY <1>6, GoToTypes, ReturnTypes
       DEF AckSet, Steps, NeedsMessage, NeedsQueue
  <2>3. status' \in [Msg -> Statuses]
    BY <1>6, <2>1 DEF AckSet, MessageTypeOK, Statuses
  <2> QED
    BY <1>6, <2>2, <2>3
       DEF AckSet, MessageTypeOK, IdSetsTypeOK, CheckerTypeOK, QueueTypeOK
<1>7. CASE NackSet(c)
  <2> DEFINE m == cur_m[c]
  <2>1. m \in Msg
    BY <1>7 DEF NackSet, ThreadTypeOK, NeedsMessage
  <2>2. ThreadTypeOK'
    BY <1>7, <2>1, GoToTypes, ReturnTypes
       DEF NackSet, Steps, NeedsMessage, NeedsQueue
  <2>3. retry_count' \in [Msg -> Nat]
    BY <1>7, <2>1 DEF NackSet, MessageTypeOK
  <2>4. CASE MarkDead(m) /\ UNCHANGED <<delivered_to, overdue>>
    BY <1>7, <2>1, <2>2, <2>3, <2>4, MarkDeadTypes
       DEF NackSet, MessageTypeOK, IdSetsTypeOK, CheckerTypeOK, QueueTypeOK
  <2>5. CASE MakePending(m) /\ UNCHANGED <<target, original_target>>
    BY <1>7, <2>1, <2>2, <2>3, <2>5, MakePendingTypes
       DEF NackSet, MessageTypeOK, IdSetsTypeOK, CheckerTypeOK, QueueTypeOK
  <2> QED
    BY <1>7, <2>4, <2>5 DEF NackSet
<1>8. ASSUME NEW m \in Msg, AckBatchCheck(c, m)
      PROVE  TypeOK'
  <2>1. ThreadTypeOK'
    BY <1>8, GoToTypes, ReturnTypes
       DEF AckBatchCheck, Steps, NeedsMessage, NeedsQueue
  <2>2. IdSetsTypeOK'
    BY <1>8 DEF AckBatchCheck, IdSetsTypeOK
  <2> QED
    BY <1>8, <2>1, <2>2
       DEF AckBatchCheck, MessageTypeOK, CheckerTypeOK, QueueTypeOK
<1>9. CASE ReplayReset(c)
  <2> DEFINE m == cur_m[c]
  <2>1. m \in Msg
    BY <1>9 DEF ReplayReset, ThreadTypeOK, NeedsMessage
  <2>2. todo[c] \ {m} \in SUBSET Msg /\ replayed[c] \cup {m} \in SUBSET Msg
    BY <2>1 DEF IdSetsTypeOK
  <2>3. ThreadTypeOK' /\ IdSetsTypeOK'
    BY <1>9, <2>2, ReplayGoesOnTypes DEF ReplayReset
  <2>4. /\ target' \in [Msg -> Queue \cup {DLQ, Nil}]
        /\ original_target' \in [Msg -> Queue \cup {DLQ, Nil}]
        /\ retry_count' \in [Msg -> Nat]
    BY <1>9, <2>1 DEF ReplayReset, MessageTypeOK
  <2> QED
    BY <1>9, <2>1, <2>3, <2>4, MakePendingTypes
       DEF ReplayReset, MessageTypeOK, CheckerTypeOK, QueueTypeOK
<1>10. CASE ReplayEnqueue(c)
  <2>1. cur_m[c] \in Msg
    BY <1>10 DEF ReplayEnqueue, ThreadTypeOK, NeedsMessage
  <2>2. ThreadTypeOK'
    BY <1>10, ReplayQueuesNextTypes, ReturnTypes DEF ReplayEnqueue
  <2>3. QueueTypeOK'
    BY <1>10, <2>1, EnqueueTypes DEF ReplayEnqueue, QueueTypeOK
  <2>4. IdSetsTypeOK'
    BY <1>10 DEF ReplayEnqueue, ReplayQueuesNext, IdSetsTypeOK
  <2> QED
    BY <1>10, <2>2, <2>3, <2>4
       DEF ReplayEnqueue, MessageTypeOK, CheckerTypeOK
<1>11. ASSUME NEW m \in Msg, ReplayRoute(c, m)
       PROVE  TypeOK'
  <2>1. ThreadTypeOK'
    BY <1>11, GoToTypes, ReplayQueuesNextTypes
       DEF ReplayRoute, Steps, NeedsMessage, NeedsQueue
  <2>2. IdSetsTypeOK'
    BY <1>11 DEF ReplayRoute, ReplayQueuesNext, IdSetsTypeOK
  <2> QED
    BY <1>11, <2>1, <2>2
       DEF ReplayRoute, MessageTypeOK, CheckerTypeOK, QueueTypeOK
<1> QED
  BY <1>1, <1>2, <1>3, <1>4, <1>5, <1>6, <1>7, <1>8, <1>9, <1>10, <1>11
     DEF RunsOn

LEMMA LockTypes ==
  ASSUME TypeOK, NEW c \in Client, TakesLock(c)
  PROVE  TypeOK'
<1> USE DEF TypeOK
<1>1. CASE NackInsert(c)
  <2>1. cur_m[c] \in Msg
    BY <1>1 DEF NackInsert, ThreadTypeOK, NeedsMessage
  <2> QED
    BY <1>1, <2>1, ReturnTypes
       DEF NackInsert, MessageTypeOK, IdSetsTypeOK, CheckerTypeOK, QueueTypeOK
<1>2. ASSUME NEW m \in Msg, ReplayPop(c, m)
      PROVE  TypeOK'
  <2>1. CASE GoTo(c, "replay_reset", m, Nil) /\ UNCHANGED <<todo, replayed>>
    BY <1>2, <2>1, GoToTypes
       DEF ReplayPop, Steps, NeedsQueue, MessageTypeOK, IdSetsTypeOK,
           CheckerTypeOK, QueueTypeOK
  <2>2. CASE ReplayGoesOn(c, todo[c] \ {m}, replayed[c])
    <3>1. todo[c] \ {m} \in SUBSET Msg /\ replayed[c] \in SUBSET Msg
      BY DEF IdSetsTypeOK
    <3>2. ThreadTypeOK' /\ IdSetsTypeOK'
      BY <2>2, <3>1, ReplayGoesOnTypes
    <3> QED
      BY <1>2, <3>2 DEF ReplayPop, MessageTypeOK, CheckerTypeOK, QueueTypeOK
  <2> QED
    BY <1>2, <2>1, <2>2 DEF ReplayPop
<1>3. ASSUME NEW t \in Queue \cup {DLQ}, ReplayFind(c, t)
      PROVE  TypeOK'
  <2> DEFINE found == {m \in dlq : original_target[m] = t}
  <2>1. found \in SUBSET Msg
    BY DEF MessageTypeOK
  <2>2. PICK step \in {"idle", "replay_pop"} : GoTo(c, step, Nil, Nil)
    BY <1>3, Zenon DEF ReplayFind
  <2>3. ThreadTypeOK'
    BY <2>2, GoBareTypes
  <2>4. IdSetsTypeOK'
    BY <1>3, <2>1, TodoTypes DEF ReplayFind
  <2> QED
    BY <1>3, <2>3, <2>4 DEF ReplayFind, MessageTypeOK, CheckerTypeOK,
                            QueueTypeOK
<1> QED
  BY <1>1, <1>2, <1>3 DEF TakesLock

LEMMA CheckerTypes ==
  ASSUME TypeOK, CheckerStep
  PROVE  TypeOK'
<1> USE DEF TypeOK, QueueTypeOK, IdSetsTypeOK, CheckerTypeOK, CheckerSteps,
            CheckerGoes
<1>1. CASE BeginPass
  BY <1>1, SizeIsNat, StayTypes DEF BeginPass, MessageTypeOK
<1>2. CASE TimeoutAct
  <2> DEFINE m == checker_m
  <2>1. m \in Msg
    BY <1>2 DEF TimeoutAct
  <2>2. retry_count' \in [Msg -> Nat]
    BY <1>2, <2>1 DEF TimeoutAct, MessageTypeOK
  <2>3. CASE /\ MarkDead(m)
             /\ CheckerGoes("stuck", m)
             /\ UNCHANGED <<delivered_to, overdue, timed_out>>
    <3>1. MessageTypeOK'
      BY <1>2, <2>1, <2>2, <2>3, MarkDeadTypes DEF TimeoutAct, MessageTypeOK
    <3> QED
      BY <1>2, <2>1, <2>3, <3>1, StayTypes DEF TimeoutAct
  <2>4. CASE /\ MakePending(m)
             /\ timed_out' = timed_out \cup {m}
             /\ CheckerGoes("timeouts", Nil)
             /\ UNCHANGED <<target, original_target>>
    <3>1. MessageTypeOK'
      BY <1>2, <2>1, <2>2, <2>4, MakePendingTypes DEF TimeoutAct, MessageTypeOK
    <3> QED
      BY <1>2, <2>1, <2>4, <3>1, StayTypes DEF TimeoutAct
  <2> QED
    BY <1>2, <2>3, <2>4 DEF TimeoutAct
<1>3. CASE EndTimeouts
  BY <1>3, StayTypes DEF EndTimeouts, EndPass, MessageTypeOK
<1>4. CASE ScanBroken
  BY <1>4, StayTypes DEF ScanBroken, EndPass, MessageTypeOK
<1>5. CASE TtlMove
  <2>1. MessageTypeOK'
    BY <1>5, MarkDeadTypes DEF TtlMove, MessageTypeOK
  <2> QED
    BY <1>5, <2>1, StayTypes DEF TtlMove
<1>6. CASE TtlInsert
  BY <1>6, StayTypes DEF TtlInsert, MessageTypeOK
<1>7. CASE EndTtl
  BY <1>7, StayTypes DEF EndTtl, EndPass, MessageTypeOK
<1>8. ASSUME NEW m \in Msg, ScanTimeout(m)
      PROVE  TypeOK'
  BY <1>8, StayTypes DEF ScanTimeout, MessageTypeOK
<1>9. ASSUME NEW m \in Msg, ScanTtl(m)
      PROVE  TypeOK'
  BY <1>9, StayTypes DEF ScanTtl, MessageTypeOK
<1> QED
  BY <1>1, <1>2, <1>3, <1>4, <1>5, <1>6, <1>7, <1>8, <1>9 DEF CheckerStep

LEMMA ClockTypes ==
  ASSUME TypeOK, ClockStep
  PROVE  TypeOK'
BY StayTypes
   DEF ClockStep, Elapse, Age, TypeOK, QueueTypeOK, MessageTypeOK,
       IdSetsTypeOK, CheckerTypeOK

LEMMA TypeStep == TypeOK /\ [Next]_vars => TypeOK'
<1> SUFFICES ASSUME TypeOK, [Next]_vars
             PROVE  TypeOK'
  OBVIOUS
<1>1. CASE UNCHANGED vars
  BY <1>1, StayTypes
     DEF vars, TypeOK, QueueTypeOK, MessageTypeOK, IdSetsTypeOK, CheckerTypeOK
<1> QED
  BY <1>1, CommandTypes, RunTypes, LockTypes, CheckerTypes, ClockTypes
     DEF Next

(* Every variable stays in its type, and no step of SEND, CONSUME, ACK,    *)
(* NACK, REPLAY or the checker uses a local variable that was not set.     *)
THEOREM TypeCorrect == Spec => []TypeOK
BY InitTypes, TypeStep, PTL DEF Spec

-----------------------------------------------------------------------------
(* The threads use the queues only as the queue manager allows.            *)
LEMMA QueueUse == TypeOK /\ [Next]_vars => [QueueNext]_queueVars
<1> SUFFICES ASSUME TypeOK, [Next]_vars
             PROVE  QueueNext \/ UNCHANGED queueVars
  OBVIOUS
<1> USE DEF TypeOK, QueueNext
<1>1. ASSUME NEW c \in Client, Command(c)
      PROVE  QueueNext \/ UNCHANGED queueVars
  BY <1>1
     DEF Command, CreateQueueCmd, DeleteQueueCmd, SendRegister, ConsumeStart,
         AckCheck, NackCheck, ReplayStart, AckBatch, ReplayAll, Disconnect
<1>2. ASSUME NEW c \in Client, RunsOn(c)
      PROVE  QueueNext \/ UNCHANGED queueVars
  <2>1. CASE SendEnqueue(c)
    <3>1. cur_q[c] \in Queue /\ cur_m[c] \in Msg
      BY <2>1 DEF SendEnqueue, ThreadTypeOK, NeedsMessage, NeedsQueue
    <3> QED
      BY <2>1, <3>1 DEF SendEnqueue
  <2>2. CASE ConsumeDequeue(c)
    <3>1. cur_q[c] \in Queue
      BY <2>2 DEF ConsumeDequeue, ThreadTypeOK, NeedsQueue
    <3> QED
      BY <2>2, <3>1 DEF ConsumeDequeue
  <2>3. CASE ReplayEnqueue(c)
    <3>1. cur_m[c] \in Msg
      BY <2>3 DEF ReplayEnqueue, ThreadTypeOK, NeedsMessage
    <3>2. CASE Enqueue(target[cur_m[c]], cur_m[c])
      BY <3>1, <3>2 DEF Enqueue, Accepts, QueueTypeOK
    <3> QED
      BY <2>3, <3>2 DEF ReplayEnqueue
  <2>4. CASE SendDelete(c) \/ SendPersist(c) \/ MarkDelivered(c)
             \/ AckSet(c) \/ NackSet(c) \/ ReplayReset(c)
    BY <2>4
       DEF SendDelete, SendPersist, MarkDelivered, AckSet, NackSet, ReplayReset
  <2>5. ASSUME NEW m \in Msg, AckBatchCheck(c, m) \/ ReplayRoute(c, m)
        PROVE  QueueNext \/ UNCHANGED queueVars
    BY <2>5 DEF AckBatchCheck, ReplayRoute
  <2> QED
    BY <1>2, <2>1, <2>2, <2>3, <2>4, <2>5 DEF RunsOn
<1>3. ASSUME NEW c \in Client, TakesLock(c)
      PROVE  UNCHANGED queueVars
  BY <1>3 DEF TakesLock, NackInsert, ReplayFind, ReplayPop
<1>4. CASE CheckerStep
  BY <1>4
     DEF CheckerStep, BeginPass, TimeoutAct, EndTimeouts, ScanBroken, TtlMove,
         TtlInsert, EndTtl, ScanTimeout, ScanTtl
<1>5. CASE ClockStep
  BY <1>5 DEF ClockStep, Elapse, Age
<1>6. CASE UNCHANGED vars
  BY <1>6 DEF vars
<1> QED
  BY <1>1, <1>2, <1>3, <1>4, <1>5, <1>6 DEF Next

(* Each step of the broker is one operation of QueueManager on the queues, *)
(* or leaves them alone: what holds of QueueManager carries over.          *)
LEMMA UsesQueueManager == Spec => QueueSpec
<1>1. Init => QueueInit
  BY DEF Init
<1> QED
  BY <1>1, InitTypes, TypeStep, QueueUse, PTL DEF Spec, QueueSpec

(* And therefore no queue of the broker outgrows its capacity.             *)
THEOREM BrokerCapacity == Spec => []CapacityRespected
BY UsesQueueManager, QueueCapacity, PTL

-----------------------------------------------------------------------------
(* The registry.  Ids leave it only in SendDelete, so what has to be shown *)
(* is that nobody else knows the id by then.                               *)
FullForgotten == \A m \in Msg : sent[m] = "full" => m \notin messages

RegInv == NoDanglingIds /\ UnusedUntouched /\ EnteringUnknown /\ FullForgotten

LEMMA RangeAppend ==
  ASSUME NEW s \in Seq(Msg), NEW m \in Msg
  PROVE  Range(Append(s, m)) = Range(s) \cup {m}
<1> DEFINE a == Append(s, m)  n == Len(s)
<1>1. /\ n \in Nat /\ DOMAIN s = 1 .. n /\ DOMAIN a = 1 .. n + 1
      /\ a[n + 1] = m
      /\ \A i \in 1 .. n : a[i] = s[i]
  OBVIOUS
<1>2. ASSUME NEW x \in Range(a)
      PROVE  x \in Range(s) \cup {m}
  BY <1>1 DEF Range
<1>3. ASSUME NEW x \in Range(s)
      PROVE  x \in Range(a)
  <2>1. PICK i \in 1 .. n : x = s[i]
    BY <1>1 DEF Range
  <2>2. i \in DOMAIN a /\ a[i] = x
    BY <1>1, <2>1
  <2> QED
    BY <2>2 DEF Range
<1>4. m \in Range(a)
  <2>1. n + 1 \in DOMAIN a
    BY <1>1
  <2> QED
    BY <1>1, <2>1 DEF Range
<1> QED
  BY <1>2, <1>3, <1>4

LEMMA RangeTail ==
  ASSUME NEW s \in Seq(Msg), s # <<>>
  PROVE  Range(Tail(s)) \subseteq Range(s) /\ Head(s) \in Range(s)
BY DEF Range

LEMMA RangeEmpty == Range(<<>>) = {}
BY DEF Range

LEMMA InitReg == Init => RegInv
BY RangeEmpty, BrokerAssumption
   DEF Init, QueueInit, RegInv, NoDanglingIds, UnusedUntouched,
       EnteringUnknown, OnlySenderKnows, Entering, FullForgotten

LEMMA CommandReg ==
  ASSUME TypeOK, RegInv, NEW c \in Client, Command(c)
  PROVE  RegInv'
<1> USE BrokerAssumption
    DEF RegInv, NoDanglingIds, UnusedUntouched, EnteringUnknown, OnlySenderKnows, Entering,
        FullForgotten, TypeOK, QueueTypeOK, MessageTypeOK, ThreadTypeOK,
        IdSetsTypeOK, GoTo, Return
<1>1. ASSUME NEW q \in Queue, NEW n \in Sizes, CreateQueueCmd(c, q, n)
      PROVE  RegInv'
  BY <1>1, RangeEmpty DEF CreateQueueCmd, CreateQueue
<1>2. ASSUME NEW q \in Queue, DeleteQueueCmd(c, q)
      PROVE  RegInv'
  BY <1>2 DEF DeleteQueueCmd, DeleteQueue
<1>3. ASSUME NEW q \in Queue, NEW m \in Msg, SendRegister(c, q, m)
      PROVE  RegInv'
  BY <1>3 DEF SendRegister
<1>4. ASSUME NEW q \in Queue, ConsumeStart(c, q)
      PROVE  RegInv'
  BY <1>4 DEF ConsumeStart
<1>5. ASSUME NEW m \in Msg, AckCheck(c, m)
      PROVE  RegInv'
  <2>1. CASE /\ Holds(c, m)
             /\ GoTo(c, "ack_set", m, Nil)
    BY <1>5, <2>1 DEF AckCheck, Holds
  <2>2. CASE UNCHANGED <<pc, cur_m, cur_q>>
    BY <1>5, <2>2 DEF AckCheck
  <2> QED
    BY <1>5, <2>1, <2>2 DEF AckCheck
<1>6. ASSUME NEW m \in Msg, NackCheck(c, m)
      PROVE  RegInv'
  BY <1>6 DEF NackCheck, Holds
<1>7. ASSUME NEW m \in Msg, ReplayStart(c, m)
      PROVE  RegInv'
  BY <1>7 DEF ReplayStart
<1>8. ASSUME NEW S \in SUBSET messages \ {{}}, AckBatch(c, S)
      PROVE  RegInv'
  BY <1>8 DEF AckBatch
<1>9. CASE ReplayAll(c)
  BY <1>9 DEF ReplayAll
<1>10. CASE Disconnect(c)
  BY <1>10 DEF Disconnect
<1> QED
  BY <1>1, <1>2, <1>3, <1>4, <1>5, <1>6, <1>7, <1>8, <1>9, <1>10 DEF Command

(* A thread handles registered messages, X, none of them one just being    *)
(* sent by another.                                                        *)
LEMMA MessagesReg ==
  ASSUME TypeOK, RegInv, NEW c \in Client, ~Entering(c),
         NEW X \in SUBSET messages,
         \A d \in Client : Entering(d) => cur_m[d] \notin X,
         NEW step, step \notin {"send_enqueue", "send_delete"},
         NEW m \in X \cup {Nil}, NEW q, GoTo(c, step, m, q),
         \A y \in Msg \ X :
           status'[y] = status[y] /\ retry_count'[y] = retry_count[y]
           /\ delivered_to'[y] = delivered_to[y],
         \A r \in Queue : Range(items'[r]) \subseteq Range(items[r]) \cup X,
         dlq' \subseteq dlq \cup X,
         \A d \in Client : replayed'[d] \subseteq replayed[d] \cup X,
         UNCHANGED <<messages, sent, aged, checker_m>>
  PROVE  RegInv'
<1>1. \A d \in Client : /\ cur_m'[d] = IF d = c THEN m ELSE cur_m[d]
                        /\ Entering(d)' => Entering(d) /\ d # c
  BY DEF GoTo, Entering, TypeOK, ThreadTypeOK
<1>2. /\ messages \subseteq Msg /\ Nil \notin Msg
      /\ NoDanglingIds /\ UnusedUntouched /\ EnteringUnknown /\ FullForgotten
  BY BrokerAssumption DEF TypeOK, MessageTypeOK, RegInv
<1>3. NoDanglingIds'
  <2>1. ASSUME NEW r \in Queue
        PROVE  Range(items'[r]) \subseteq messages
    <3>1. Range(items[r]) \subseteq messages
      BY <1>2 DEF NoDanglingIds
    <3> QED
      BY <3>1
  <2>2. \A d \in Client : cur_m'[d] \in messages \cup {Nil}
    BY <1>1, <1>2 DEF NoDanglingIds
  <2>3. /\ dlq' \subseteq messages
        /\ \A d \in Client : replayed'[d] \subseteq messages
    BY <1>2 DEF NoDanglingIds
  <2> QED
    BY <1>2, <2>1, <2>2, <2>3 DEF NoDanglingIds
<1>4. UnusedUntouched'
  BY <1>2 DEF UnusedUntouched
<1>5. EnteringUnknown'
  <2> SUFFICES ASSUME NEW d \in Client, Entering(d)'
               PROVE  OnlySenderKnows(d, cur_m[d])'
    BY DEF EnteringUnknown
  <2> DEFINE n == cur_m[d]
  <2>1. /\ cur_m'[d] = n /\ Entering(d) /\ d # c /\ n \notin X /\ n \in messages
        /\ n # Nil /\ n \in Msg
    <3>1. Entering(d) /\ d # c
      BY <1>1
    <3>2. n \in messages
      BY <1>2, <3>1 DEF EnteringUnknown, OnlySenderKnows
    <3> QED
      BY <1>1, <1>2, <3>1, <3>2
  <2>2. /\ sent'[n] = "none" /\ status'[n] = "PENDING"
        /\ retry_count'[n] = 0 /\ delivered_to'[n] = Nil
        /\ n \notin aged' /\ n \notin dlq' /\ n # checker_m'
    BY <1>2, <2>1 DEF EnteringUnknown, OnlySenderKnows
  <2>3. \A r \in Queue : n \notin Range(items'[r])
    BY <1>2, <2>1 DEF EnteringUnknown, OnlySenderKnows
  <2>4. ASSUME NEW e \in Client
        PROVE  n \notin replayed'[e] /\ (e # d => cur_m'[e] # n)
    BY <1>1, <1>2, <2>1 DEF EnteringUnknown, OnlySenderKnows
  <2> QED
    BY <2>1, <2>2, <2>3, <2>4 DEF OnlySenderKnows
<1>6. FullForgotten'
  BY <1>2 DEF FullForgotten
<1> QED
  BY <1>3, <1>4, <1>5, <1>6 DEF RegInv

LEMMA OneMessageReg ==
  ASSUME TypeOK, RegInv, NEW c \in Client, ~Entering(c),
         NEW x \in messages,
         \A d \in Client : Entering(d) => cur_m[d] # x,
         NEW step, step \notin {"send_enqueue", "send_delete"},
         NEW m \in {x, Nil}, NEW q, GoTo(c, step, m, q),
         \A y \in Msg \ {x} :
           status'[y] = status[y] /\ retry_count'[y] = retry_count[y]
           /\ delivered_to'[y] = delivered_to[y],
         \A r \in Queue : Range(items'[r]) \subseteq Range(items[r]) \cup {x},
         dlq' \subseteq dlq \cup {x},
         \A d \in Client : replayed'[d] \subseteq replayed[d] \cup {x},
         UNCHANGED <<messages, sent, aged, checker_m>>
  PROVE  RegInv'
BY MessagesReg, {x} \in SUBSET messages

LEMMA NoMessageReg ==
  ASSUME TypeOK, RegInv, NEW c \in Client, ~Entering(c),
         NEW step, step \notin {"send_enqueue", "send_delete"},
         NEW q, GoTo(c, step, Nil, q),
         dlq' \subseteq dlq,
         \A d \in Client : replayed'[d] \subseteq replayed[d],
         UNCHANGED <<items, status, retry_count, delivered_to, messages, sent,
                     aged, checker_m>>
  PROVE  RegInv'
BY MessagesReg, {} \in SUBSET messages

LEMMA ThreadsApart ==
  ASSUME RegInv, NEW c \in Client, ~Entering(c)
  PROVE  \A d \in Client : Entering(d) => cur_m[d] # cur_m[c]
BY DEF RegInv, EnteringUnknown, OnlySenderKnows

LEMMA DeliveredApart ==
  ASSUME RegInv, NEW m, status[m] = "DELIVERED" \/ m \in dlq
                          \/ \E e \in Client : m \in replayed[e]
  PROVE  \A d \in Client : Entering(d) => cur_m[d] # m
BY DEF RegInv, EnteringUnknown, OnlySenderKnows

LEMMA RunReg ==
  ASSUME TypeOK, RegInv, NEW c \in Client, RunsOn(c)
  PROVE  RegInv'
<1>1. CASE MarkDelivered(c)
  <2> DEFINE m == cur_m[c]
  <2>1. ~Entering(c) /\ m \in Msg /\ messages \subseteq Msg
    BY <1>1 DEF MarkDelivered, Entering, TypeOK, MessageTypeOK, ThreadTypeOK,
                NeedsMessage
  <2>2. \A d \in Client : Entering(d) => cur_m[d] # m
    BY <2>1, ThreadsApart
  <2>3. m \in messages
    BY <2>1, BrokerAssumption DEF RegInv, NoDanglingIds
  <2>4. GoTo(c, "idle", Nil, Nil)
    BY <1>1, <2>3 DEF MarkDelivered, Return
  <2>5. \A y \in Msg \ {m} :
          status'[y] = status[y] /\ retry_count'[y] = retry_count[y]
          /\ delivered_to'[y] = delivered_to[y]
    BY <1>1, <2>1 DEF MarkDelivered, TypeOK, MessageTypeOK
  <2>6. UNCHANGED <<items, dlq, replayed, messages, sent, aged, checker_m>>
    BY <1>1 DEF MarkDelivered
  <2> QED
    BY <2>1, <2>2, <2>3, <2>4, <2>5, <2>6, OneMessageReg
<1>2. CASE AckSet(c)
  <2> DEFINE m == cur_m[c]
  <2>1. ~Entering(c) /\ m \in Msg
    BY <1>2 DEF AckSet, Entering, TypeOK, ThreadTypeOK, NeedsMessage
  <2>2. \A d \in Client : Entering(d) => cur_m[d] # m
    BY <2>1, ThreadsApart
  <2>3. m \in messages
    BY <2>1, BrokerAssumption DEF RegInv, NoDanglingIds
  <2>4. PICK step \in {"idle", "ack_batch"} : GoTo(c, step, Nil, Nil)
    BY <1>2 DEF AckSet, Return
  <2>5. \A y \in Msg \ {m} :
          status'[y] = status[y] /\ retry_count'[y] = retry_count[y]
          /\ delivered_to'[y] = delivered_to[y]
    BY <1>2, <2>1 DEF AckSet, TypeOK, MessageTypeOK
  <2>6. UNCHANGED <<items, dlq, replayed, messages, sent, aged, checker_m>>
    BY <1>2 DEF AckSet
  <2> QED
    BY <2>1, <2>2, <2>3, <2>4, <2>5, <2>6, OneMessageReg
<1>3. CASE NackSet(c)
  <2> DEFINE m == cur_m[c]
  <2>1. ~Entering(c) /\ m \in Msg
    BY <1>3 DEF NackSet, Entering, TypeOK, ThreadTypeOK, NeedsMessage
  <2>2. \A d \in Client : Entering(d) => cur_m[d] # m
    BY <2>1, ThreadsApart
  <2>3. m \in messages
    BY <2>1, BrokerAssumption DEF RegInv, NoDanglingIds
  <2>4. PICK step \in {"idle", "nack_dlq"}, n \in {m, Nil} :
          GoTo(c, step, n, Nil)
    BY <1>3 DEF NackSet, Return
  <2>5. \A y \in Msg \ {m} :
          status'[y] = status[y] /\ retry_count'[y] = retry_count[y]
          /\ delivered_to'[y] = delivered_to[y]
    BY <1>3, <2>1 DEF NackSet, MakePending, MarkDead, TypeOK, MessageTypeOK
  <2>6. UNCHANGED <<items, dlq, replayed, messages, sent, aged, checker_m>>
    BY <1>3 DEF NackSet
  <2> QED
    BY <2>1, <2>2, <2>3, <2>4, <2>5, <2>6, OneMessageReg
<1>4. ASSUME NEW m \in Msg, AckBatchCheck(c, m)
      PROVE  RegInv'
  <2>1. ~Entering(c)
    BY <1>4 DEF AckBatchCheck, Entering
  <2>2. UNCHANGED <<items, dlq, replayed, messages, sent, aged, checker_m,
                    status, retry_count, delivered_to>>
    BY <1>4 DEF AckBatchCheck
  <2>3. CASE m \in messages /\ Holds(c, m) /\ GoTo(c, "ack_set", m, Nil)
    <3>1. \A d \in Client : Entering(d) => cur_m[d] # m
      BY <2>3, DeliveredApart DEF Holds
    <3> QED
      BY <2>1, <2>2, <2>3, <3>1, OneMessageReg
  <2>4. ASSUME NEW step \in {"idle", "ack_batch"}, GoTo(c, step, Nil, Nil)
        PROVE  RegInv'
    BY <2>1, <2>2, <2>4, NoMessageReg
  <2> QED
    BY <1>4, <2>3, <2>4 DEF AckBatchCheck, Return
<1>5. CASE ReplayEnqueue(c)
  <2> DEFINE m == cur_m[c]  q == target[m]
  <2>1. ~Entering(c) /\ m \in Msg
    BY <1>5 DEF ReplayEnqueue, Entering, TypeOK, ThreadTypeOK, NeedsMessage
  <2>2. \A d \in Client : Entering(d) => cur_m[d] # m
    BY <2>1, ThreadsApart
  <2>3. m \in messages
    BY <2>1, BrokerAssumption DEF RegInv, NoDanglingIds
  <2>4. UNCHANGED <<dlq, messages, sent, aged, checker_m, status, retry_count,
                    delivered_to>>
    BY <1>5 DEF ReplayEnqueue
  <2>5. PICK step \in {"idle", "replay_route"} : GoTo(c, step, Nil, Nil)
    BY <1>5 DEF ReplayEnqueue, ReplayQueuesNext, Return
  <2>6. \A d \in Client : replayed'[d] \subseteq replayed[d] \cup {m}
    BY <1>5 DEF ReplayEnqueue, ReplayQueuesNext, TypeOK, IdSetsTypeOK
  <2>7. ASSUME NEW r \in Queue
        PROVE  Range(items'[r]) \subseteq Range(items[r]) \cup {m}
    <3>1. CASE UNCHANGED items
      BY <3>1
    <3>2. CASE Enqueue(q, m)
      <4>1. /\ q \in Queue
            /\ items[q] \in Seq(Msg)
            /\ items' = [items EXCEPT ![q] = Append(items[q], m)]
            /\ items \in [Queue -> Seq(Msg)]
        BY <3>2 DEF Enqueue, Accepts, TypeOK, QueueTypeOK
      <4>2. Range(Append(items[q], m)) = Range(items[q]) \cup {m}
        BY <2>1, <4>1, RangeAppend
      <4> QED
        BY <4>1, <4>2
    <3> QED
      BY <1>5, <3>1, <3>2 DEF ReplayEnqueue
  <2> QED
    BY <2>1, <2>2, <2>3, <2>4, <2>5, <2>6, <2>7, OneMessageReg
<1>6. ASSUME NEW m \in Msg, ReplayRoute(c, m)
      PROVE  RegInv'
  <2>1. ~Entering(c) /\ m \in messages
    BY <1>6 DEF ReplayRoute, Entering, RegInv, NoDanglingIds
  <2>2. \A d \in Client : Entering(d) => cur_m[d] # m
    BY <1>6, DeliveredApart DEF ReplayRoute
  <2>3. UNCHANGED <<items, dlq, messages, sent, aged, checker_m, status,
                    retry_count, delivered_to>>
    BY <1>6, <2>1 DEF ReplayRoute
  <2>4. PICK step \in {"idle", "replay_route", "replay_enqueue"},
             n \in {m, Nil} :
          GoTo(c, step, n, Nil)
    BY <1>6 DEF ReplayRoute, ReplayQueuesNext, Return
  <2>5. \A d \in Client : replayed'[d] \subseteq replayed[d] \cup {m}
    BY <1>6 DEF ReplayRoute, ReplayQueuesNext, TypeOK, IdSetsTypeOK
  <2> QED
    BY <2>1, <2>2, <2>3, <2>4, <2>5, OneMessageReg
<1> USE BrokerAssumption
    DEF RegInv, NoDanglingIds, UnusedUntouched, EnteringUnknown, OnlySenderKnows, Entering,
        FullForgotten, TypeOK, QueueTypeOK, MessageTypeOK, ThreadTypeOK,
        IdSetsTypeOK, GoTo, Return
<1>7. CASE SendEnqueue(c)
  <2> DEFINE q == cur_q[c]  m == cur_m[c]
  <2>1. q \in Queue /\ m \in Msg /\ Entering(c)
    BY <1>7 DEF SendEnqueue, NeedsMessage, NeedsQueue
  <2>2. CASE /\ Enqueue(q, m)
             /\ GoTo(c, "send_persist", m, Nil)
             /\ UNCHANGED sent
    <3>1. Range(items'[q]) = Range(items[q]) \cup {m}
      BY <2>1, <2>2, RangeAppend DEF Enqueue
    <3> QED
      BY <1>7, <2>1, <2>2, <3>1 DEF SendEnqueue, Enqueue
  <2>3. CASE /\ Return(c)
             /\ AnswerSend(c, "refused")
             /\ UNCHANGED queueVars
    BY <1>7, <2>1, <2>3 DEF SendEnqueue, AnswerSend
  <2>4. CASE /\ GoTo(c, "send_delete", m, Nil)
             /\ UNCHANGED <<queueVars, sent>>
    BY <1>7, <2>1, <2>4 DEF SendEnqueue
  <2> QED
    BY <1>7, <2>2, <2>3, <2>4 DEF SendEnqueue
<1>8. CASE SendDelete(c)
  BY <1>8 DEF SendDelete, AnswerSend
<1>9. CASE SendPersist(c)
  BY <1>9 DEF SendPersist, AnswerSend, NeedsMessage
<1>10. CASE ConsumeDequeue(c)
  <2> DEFINE q == cur_q[c]
  <2>1. q \in Queue
    BY <1>10 DEF ConsumeDequeue, NeedsQueue
  <2>2. CASE Dequeue(q) /\ GoTo(c, "consume_mark", Head(items[q]), q)
    <3>1. /\ Range(items'[q]) \subseteq Range(items[q])
          /\ Head(items[q]) \in Range(items[q])
      BY <2>1, <2>2, RangeTail DEF Dequeue
    <3> QED
      BY <1>10, <2>1, <2>2, <3>1 DEF ConsumeDequeue, Dequeue
  <2>3. CASE Return(c) /\ UNCHANGED queueVars
    BY <1>10, <2>3 DEF ConsumeDequeue
  <2> QED
    BY <1>10, <2>2, <2>3 DEF ConsumeDequeue
<1>11. CASE ReplayReset(c)
  BY <1>11 DEF ReplayReset, MakePending, ReplayGoesOn, NeedsMessage
<1> QED
  BY <1>1, <1>2, <1>3, <1>4, <1>5, <1>6, <1>7, <1>8, <1>9, <1>10, <1>11
     DEF RunsOn

LEMMA LockReg ==
  ASSUME TypeOK, RegInv, NEW c \in Client, TakesLock(c)
  PROVE  RegInv'
<1>1. CASE NackInsert(c)
  <2> DEFINE m == cur_m[c]
  <2>1. ~Entering(c) /\ m \in Msg
    BY <1>1 DEF NackInsert, Entering, TypeOK, ThreadTypeOK, NeedsMessage
  <2>2. \A d \in Client : Entering(d) => cur_m[d] # m
    BY <2>1, ThreadsApart
  <2>3. m \in messages
    BY <2>1, BrokerAssumption DEF RegInv, NoDanglingIds
  <2>4. GoTo(c, "idle", Nil, Nil) /\ dlq' = dlq \cup {m}
    BY <1>1 DEF NackInsert, Return
  <2>5. UNCHANGED <<items, replayed, messages, sent, aged, checker_m, status,
                    retry_count, delivered_to>>
    BY <1>1 DEF NackInsert
  <2> QED
    BY <2>1, <2>2, <2>3, <2>4, <2>5, OneMessageReg
<1>2. ASSUME NEW m \in Msg, ReplayPop(c, m)
      PROVE  RegInv'
  <2>1. ~Entering(c)
    BY <1>2 DEF ReplayPop, Entering
  <2>2. UNCHANGED <<items, messages, sent, aged, checker_m, status,
                    retry_count, delivered_to>>
        /\ dlq' \subseteq dlq
    BY <1>2 DEF ReplayPop
  <2>3. CASE /\ m \in dlq
             /\ GoTo(c, "replay_reset", m, Nil)
             /\ UNCHANGED <<todo, replayed>>
    <3>1. m \in messages /\ \A d \in Client : Entering(d) => cur_m[d] # m
      BY <2>3, DeliveredApart DEF RegInv, NoDanglingIds
    <3> QED
      BY <2>1, <2>2, <2>3, <3>1, OneMessageReg
  <2>4. CASE ReplayGoesOn(c, todo[c] \ {m}, replayed[c])
    <3>1. PICK step \in {"replay_pop", "replay_route", "idle"} :
            GoTo(c, step, Nil, Nil)
      BY <2>4, Zenon DEF ReplayGoesOn
    <3>2. replayed' = replayed
      BY <2>4 DEF ReplayGoesOn, TypeOK, IdSetsTypeOK
    <3> QED
      BY <2>1, <2>2, <3>1, <3>2, NoMessageReg
  <2> QED
    BY <1>2, <2>3, <2>4 DEF ReplayPop
<1>3. ASSUME NEW t \in Queue \cup {DLQ}, ReplayFind(c, t)
      PROVE  RegInv'
  <2>1. ~Entering(c)
    BY <1>3 DEF ReplayFind, Entering
  <2>2. UNCHANGED <<items, messages, sent, aged, checker_m, status,
                    retry_count, delivered_to, dlq, replayed>>
    BY <1>3 DEF ReplayFind
  <2>3. PICK step \in {"idle", "replay_pop"} : GoTo(c, step, Nil, Nil)
    BY <1>3, Zenon DEF ReplayFind
  <2> QED
    BY <2>1, <2>2, <2>3, NoMessageReg
<1> QED
  BY <1>1, <1>2, <1>3 DEF TakesLock

LEMMA CheckerReg ==
  ASSUME TypeOK, RegInv, CheckerStep
  PROVE  RegInv'
<1> USE BrokerAssumption
    DEF RegInv, NoDanglingIds, UnusedUntouched, EnteringUnknown, OnlySenderKnows, Entering,
        FullForgotten, TypeOK, QueueTypeOK, MessageTypeOK, ThreadTypeOK,
        IdSetsTypeOK, CheckerTypeOK, CheckerGoes, EndPass
<1>1. CASE BeginPass
  BY <1>1 DEF BeginPass
<1>2. CASE TimeoutAct
  BY <1>2 DEF TimeoutAct, MarkDead, MakePending
<1>3. CASE EndTimeouts
  BY <1>3 DEF EndTimeouts
<1>4. CASE ScanBroken
  BY <1>4 DEF ScanBroken
<1>5. CASE TtlMove
  BY <1>5 DEF TtlMove, MarkDead
<1>6. CASE TtlInsert
  BY <1>6 DEF TtlInsert
<1>7. CASE EndTtl
  BY <1>7 DEF EndTtl
<1>8. ASSUME NEW m \in Msg, ScanTimeout(m)
      PROVE  RegInv'
  BY <1>8 DEF ScanTimeout
<1>9. ASSUME NEW m \in Msg, ScanTtl(m)
      PROVE  RegInv'
  BY <1>9 DEF ScanTtl
<1> QED
  BY <1>1, <1>2, <1>3, <1>4, <1>5, <1>6, <1>7, <1>8, <1>9 DEF CheckerStep

LEMMA ClockReg ==
  ASSUME TypeOK, RegInv, ClockStep
  PROVE  RegInv'
BY DEF ClockStep, Elapse, Age, RegInv, NoDanglingIds, UnusedUntouched,
       EnteringUnknown, OnlySenderKnows, Entering, FullForgotten, TypeOK,
       MessageTypeOK

LEMMA RegStep == TypeOK /\ RegInv /\ [Next]_vars => RegInv'
<1> SUFFICES ASSUME TypeOK, RegInv, [Next]_vars
             PROVE  RegInv'
  OBVIOUS
<1>1. CASE UNCHANGED vars
  BY <1>1
     DEF vars, RegInv, NoDanglingIds, UnusedUntouched, EnteringUnknown, OnlySenderKnows,
         Entering, FullForgotten
<1> QED
  BY <1>1, CommandReg, RunReg, LockReg, CheckerReg, ClockReg DEF Next

(* No id in a queue, in the DLQ or in the hands of a thread is missing     *)
(* from the registry: route_to_queue takes an id out again only while its  *)
(* sender alone knows it.                                                  *)
THEOREM NothingDangles == Spec => []NoDanglingIds
BY InitTypes, TypeStep, InitReg, RegStep, PTL DEF Spec, RegInv

(* A message refused for a full queue has left no trace.                   *)
THEOREM RefusalIsFinal == Spec => []FullSendForgotten
<1>1. TypeOK /\ RegInv => FullSendForgotten
  BY DEF RegInv, NoDanglingIds, FullForgotten, FullSendForgotten, Queued
<1> QED
  BY <1>1, InitTypes, TypeStep, InitReg, RegStep, PTL DEF Spec
=============================================================================
