--------------------------- MODULE RestartProofs ---------------------------
(* The broker over its log, through stops, kills, failures of the machine  *)
(* and new starts.                                                         *)
EXTENDS Restart, DeliveryProofs

USE DEF shared, registry, queueVars, msgVars, clockVars, localVars,
        checkerVars

(* What the process that runs has to remember for the next one.            *)

(* The handler of a SEND that is not answered yet is still there.          *)
SenderThere ==
  \A m \in messages :
    sent[m] = "none"
      => \E c \in Client : cur_m[c] = m /\ (Entering(c) \/ Storing(c))

(* Only a SEND that got as far as its log leaves a record, and it is not   *)
(* one that was refused.                                                   *)
LoggedAnswered == \A m \in logged \cup torn : sent[m] \in {"ok", "internal"}

(* What the index names and the log has is registered; the index in memory *)
(* is never behind the one on disk.                                        *)
KnownRegistered ==
  /\ recovered \subseteq logged \cup torn
  /\ up =>
       /\ saved \subseteq known
       /\ known \cap logged \subseteq messages
       /\ saved = {} /\ torn = {} => logged \subseteq messages

(* m is on the way to no consumer.                                         *)
Gone(m) ==
  /\ ~Queued(m) /\ ~InHand(m)
  /\ \A c \in Client : Entering(c) => cur_m[c] # m

AckedGone ==
  \A m \in acknowledged :
    /\ sent[m] = "none" => m \in messages
    /\ m \in Fresh => Gone(m)

(* A record has the name of a queue, not that of the DLQ.                  *)
FiledForQueue == \A m \in logged \cup torn : filed[m] \in Queue

-----------------------------------------------------------------------------
(* What a step of the broker leaves as it is.                              *)

(* A thread moves itself only; the checker and the clock move none.        *)
LEMMA ThreadMoves ==
  ASSUME TypeOK, NEW c \in Client, Command(c) \/ RunsOn(c) \/ TakesLock(c)
  PROVE  \A d \in Client \ {c} : pc'[d] = pc[d] /\ cur_m'[d] = cur_m[d]
<1> USE DEF TypeOK, ThreadTypeOK, GoTo, Return
<1>1. CASE Command(c)
  BY <1>1 DEF Command, CreateQueueCmd, DeleteQueueCmd, SendRegister,
              ConsumeStart, AckCheck, NackCheck, ReplayStart, AckBatch,
              ReplayAll, Disconnect
<1>2. CASE RunsOn(c)
  <2>1. CASE \/ SendEnqueue(c) \/ SendDelete(c) \/ SendPersist(c)
             \/ ConsumeDequeue(c) \/ MarkDelivered(c)
    BY <2>1 DEF SendEnqueue, SendDelete, SendPersist, ConsumeDequeue,
                MarkDelivered
  <2>2. CASE AckSet(c) \/ NackSet(c) \/ \E m \in Msg : AckBatchCheck(c, m)
    BY <2>2 DEF AckSet, NackSet, AckBatchCheck
  <2>3. CASE \/ ReplayReset(c) \/ ReplayEnqueue(c)
             \/ \E m \in Msg : ReplayRoute(c, m)
    BY <2>3 DEF ReplayReset, ReplayEnqueue, ReplayRoute, ReplayGoesOn,
                ReplayQueuesNext
  <2> QED
    BY <1>2, <2>1, <2>2, <2>3, Zenon DEF RunsOn
<1>3. CASE TakesLock(c)
  BY <1>3 DEF TakesLock, NackInsert, ReplayFind, ReplayPop, ReplayGoesOn
<1> QED
  BY <1>1, <1>2, <1>3

LEMMA NoThreadMoves ==
  ASSUME CheckerStep \/ ClockStep \/ UNCHANGED vars
  PROVE  UNCHANGED <<pc, cur_m, sent, messages, items, replayed>>
BY DEF CheckerStep, ClockStep, vars, BeginPass, TimeoutAct, EndTimeouts,
       ScanBroken, TtlMove, TtlInsert, EndTtl, ScanTimeout, ScanTtl, Elapse,
       Age

LEMMA AgedStay ==
  ASSUME [Next]_vars
  PROVE  aged \subseteq aged'
<1>1. ASSUME NEW c \in Client, Command(c) \/ RunsOn(c) \/ TakesLock(c)
      PROVE  aged' = aged
  BY <1>1
     DEF Command, CreateQueueCmd, DeleteQueueCmd, SendRegister, ConsumeStart,
         AckCheck, NackCheck, ReplayStart, AckBatch, ReplayAll, Disconnect,
         RunsOn, SendEnqueue, SendDelete, SendPersist, ConsumeDequeue,
         MarkDelivered, AckSet, NackSet, AckBatchCheck, ReplayReset,
         ReplayEnqueue, ReplayRoute, TakesLock, NackInsert, ReplayFind, ReplayPop
<1>2. CASE CheckerStep
  BY <1>2
     DEF CheckerStep, BeginPass, TimeoutAct, EndTimeouts, ScanBroken, TtlMove,
         TtlInsert, EndTtl, ScanTimeout, ScanTtl
<1>3. CASE ClockStep
  BY <1>3 DEF ClockStep, Elapse, Age
<1>4. CASE UNCHANGED vars
  BY <1>4 DEF vars
<1> QED
  BY <1>1, <1>2, <1>3, <1>4 DEF Next

(* Who answers a SEND, and who takes an id from the registry.              *)
LEMMA Answering ==
  ASSUME TypeOK, NEW c \in Client, Command(c) \/ RunsOn(c) \/ TakesLock(c)
  PROVE  \/ /\ Entering(c) \/ Storing(c)
            /\ SendEnqueue(c) \/ SendDelete(c) \/ SendPersist(c)
         \/ ~Entering(c) /\ ~Storing(c) /\ sent' = sent /\ messages \subseteq messages'
<1> USE DEF Entering, Storing
<1>1. CASE Command(c)
  BY <1>1 DEF Command, CreateQueueCmd, DeleteQueueCmd, SendRegister,
              ConsumeStart, AckCheck, NackCheck, ReplayStart, AckBatch,
              ReplayAll, Disconnect
<1>2. CASE RunsOn(c)
  BY <1>2 DEF RunsOn, SendEnqueue, SendDelete, SendPersist, ConsumeDequeue,
              MarkDelivered, AckSet, NackSet, AckBatchCheck, ReplayReset,
              ReplayEnqueue, ReplayRoute
<1>3. CASE TakesLock(c)
  BY <1>3 DEF TakesLock, NackInsert, ReplayFind, ReplayPop
<1> QED
  BY <1>1, <1>2, <1>3

(* An answered message keeps its answer and its place in the registry.     *)
LEMMA AnsweredStays ==
  ASSUME TypeOK, RegInv, OneStorer, [Next]_vars, NEW m \in Msg, sent[m] # "none"
  PROVE  sent'[m] = sent[m] /\ (m \in messages => m \in messages')
<1>1. ASSUME NEW c \in Client, Command(c) \/ RunsOn(c) \/ TakesLock(c)
      PROVE  sent'[m] = sent[m] /\ (m \in messages => m \in messages')
  <2>1. CASE /\ Entering(c) \/ Storing(c)
             /\ SendEnqueue(c) \/ SendDelete(c) \/ SendPersist(c)
    <3>1. cur_m[c] # m
      BY <2>1 DEF RegInv, EnteringUnknown, OnlySenderKnows, OneStorer
    <3> QED
      BY <2>1, <3>1
         DEF SendEnqueue, SendDelete, SendPersist, AnswerSend, TypeOK,
             MessageTypeOK
  <2> QED
    BY <1>1, <2>1, Answering
<1>2. CASE CheckerStep \/ ClockStep \/ UNCHANGED vars
  BY <1>2, NoThreadMoves
<1> QED
  BY <1>1, <1>2 DEF Next

(* An id enters the registry with its SEND, and leaves it if that finds    *)
(* the queue full.                                                         *)
LEMMA Registering ==
  ASSUME TypeOK, RegInv, [Next]_vars, NEW m \in messages' \ messages
  PROVE  \E c \in Client, q \in Queue : SendRegister(c, q, m)
<1>1. PICK c \in Client : Command(c) \/ RunsOn(c) \/ TakesLock(c)
  BY NoThreadMoves, Zenon DEF Next
<1>2. CASE Command(c)
  <2>1. PICK q \in Queue, n \in Msg : SendRegister(c, q, n)
    BY <1>2
       DEF Command, CreateQueueCmd, DeleteQueueCmd, ConsumeStart, AckCheck,
           NackCheck, ReplayStart, AckBatch, ReplayAll, Disconnect
  <2>2. n = m
    BY <2>1 DEF SendRegister
  <2> QED
    BY <2>1, <2>2
<1>3. CASE RunsOn(c)
  <2>1. ASSUME NEW n \in Msg, ReplayRoute(c, n)
        PROVE  messages' = messages
    BY <2>1 DEF ReplayRoute, RegInv, NoDanglingIds
  <2>2. messages' \subseteq messages
    BY <1>3, <2>1
       DEF RunsOn, SendEnqueue, SendDelete, SendPersist, ConsumeDequeue,
           MarkDelivered, AckSet, NackSet, AckBatchCheck, ReplayReset,
           ReplayEnqueue
  <2> QED
    BY <2>2
<1>4. CASE TakesLock(c)
  BY <1>4 DEF TakesLock, NackInsert, ReplayFind, ReplayPop
<1> QED
  BY <1>1, <1>2, <1>3, <1>4

LEMMA Leaving ==
  ASSUME TypeOK, [Next]_vars, NEW m \in messages \ messages'
  PROVE  \E c \in Client : SendDelete(c) /\ cur_m[c] = m
<1>1. PICK c \in Client : Command(c) \/ RunsOn(c) \/ TakesLock(c)
  BY NoThreadMoves, Zenon DEF Next
<1>2. SendEnqueue(c) \/ SendDelete(c) \/ SendPersist(c)
  BY <1>1, Answering
<1> QED
  BY <1>2 DEF SendEnqueue, SendDelete, SendPersist

LEMMA SenderStays ==
  ASSUME TypeOK, RegInv, OneStorer, SenderThere, [Next]_vars
  PROVE  SenderThere'
<1>1. CASE CheckerStep \/ ClockStep \/ UNCHANGED vars
  BY <1>1, NoThreadMoves DEF SenderThere, Entering, Storing
<1>2. ASSUME NEW c \in Client, Command(c) \/ RunsOn(c) \/ TakesLock(c)
      PROVE  SenderThere'
  <2> SUFFICES ASSUME NEW m \in messages', sent'[m] = "none"
               PROVE  \E d \in Client :
                        cur_m'[d] = m /\ (Entering(d)' \/ Storing(d)')
    BY DEF SenderThere
  <2>1. m \in Msg /\ sent[m] = "none"
    BY <1>2, AnsweredStays, TypeStep DEF TypeOK, MessageTypeOK, Next
  <2>2. CASE m \in messages
    <3>1. PICK d \in Client : cur_m[d] = m /\ (Entering(d) \/ Storing(d))
      BY <2>1, <2>2 DEF SenderThere
    <3>2. CASE d # c
      BY <1>2, <3>1, <3>2, ThreadMoves DEF Entering, Storing
    <3>3. CASE d = c
      <4>1. SendEnqueue(c) \/ SendDelete(c) \/ SendPersist(c)
        BY <1>2, <3>1, <3>3, Answering
      <4> QED
        BY <2>1, <3>1, <3>3, <4>1
           DEF SendEnqueue, SendDelete, SendPersist, AnswerSend, GoTo, Return,
               Entering, Storing, TypeOK, MessageTypeOK, ThreadTypeOK
    <3> QED
      BY <3>2, <3>3
  <2>3. CASE m \notin messages
    <3>1. PICK d \in Client, q \in Queue : SendRegister(d, q, m)
      BY <2>3, Registering
    <3> QED
      BY <3>1 DEF SendRegister, GoTo, Entering, TypeOK, ThreadTypeOK
  <2> QED
    BY <2>2, <2>3
<1> QED
  BY <1>1, <1>2 DEF Next

-----------------------------------------------------------------------------
(* A message that has been acknowledged stays away from the queues.        *)
LEMMA QueuedShrinks ==
  ASSUME QueueTypeOK, NEW m, NEW q, NEW x \in Msg,
         \/ UNCHANGED items
         \/ x # m /\ Enqueue(q, x)
         \/ q \in Queue /\ Dequeue(q)
         \/ q \in Queue /\ \E n \in Sizes : CreateQueue(q, n)
         \/ DeleteQueue(q)
  PROVE  Queued(m)' => Queued(m)
BY PlacesStay, PlacesEnqueue, PlacesDequeue, PlacesCreate DEF DeleteQueue

LEMMA Acking ==
  ASSUME TypeOK, RegInv, [Next]_vars, NEW c \in Client, NEW m, AckedBy(c, m)
  PROVE  /\ AckSet(c) /\ m = cur_m[c] /\ m \in messages
         /\ UNCHANGED <<items, messages, sent, aged>>
         /\ \A d \in Client \ {c} : pc'[d] = pc[d] /\ cur_m'[d] = cur_m[d]
<1>1. pc[c] = "ack_set" /\ pc'[c] # "ack_set" /\ cur_m[c] = m
  BY DEF AckedBy
<1>2. PICK d \in Client : Command(d) \/ RunsOn(d) \/ TakesLock(d)
  BY <1>1, NoThreadMoves, Zenon DEF Next
<1>3. d = c
  BY <1>1, <1>2, ThreadMoves
<1>4. AckSet(c)
  BY <1>1, <1>2, <1>3
     DEF Command, CreateQueueCmd, DeleteQueueCmd, SendRegister, ConsumeStart,
         AckCheck, NackCheck, ReplayStart, AckBatch, ReplayAll, Disconnect,
         RunsOn, SendEnqueue, SendDelete, SendPersist, ConsumeDequeue,
         MarkDelivered, NackSet, AckBatchCheck, ReplayReset, ReplayEnqueue,
         ReplayRoute, TakesLock, NackInsert, ReplayFind, ReplayPop
<1>5. m \in messages
  BY <1>1, BrokerAssumption
     DEF RegInv, NoDanglingIds, TypeOK, ThreadTypeOK, NeedsMessage
<1> QED
  BY <1>1, <1>2, <1>3, <1>4, <1>5, ThreadMoves DEF AckSet

(* What is about to be settled is no longer untried, and so in no queue    *)
(* and with no other consumer.                                             *)
LEMMA GoneAcked ==
  ASSUME TypeOK, RegInv, FreshDelivery, [Next]_vars,
         NEW c \in Client, NEW m \in Fresh, AckedBy(c, m)
  PROVE  Gone(m)'
<1>1. /\ pc[c] = "ack_set" /\ m = cur_m[c]
      /\ UNCHANGED items
      /\ \A d \in Client \ {c} : pc'[d] = pc[d] /\ cur_m'[d] = cur_m[d]
  BY Acking DEF AckedBy
<1>2. pc'[c] \in {"idle", "ack_batch"}
  BY Acking DEF AckSet, Return, GoTo, TypeOK, ThreadTypeOK
<1>3. ~Untried(m)
  BY <1>1 DEF Untried, Settling
<1>4. ~Queued(m) /\ \A d \in Client : ~Takes(d, m)
  BY <1>3 DEF FreshDelivery, FreshOK, SoleUser, Takes
<1>5. \A d \in Client : Entering(d) => cur_m[d] # m
  BY <1>1 DEF RegInv, EnteringUnknown, OnlySenderKnows, Entering
<1>6. ~InHand(m)'
  BY <1>1, <1>2, <1>4 DEF InHand, Takes
<1>7. \A d \in Client : Entering(d)' => cur_m'[d] # m
  BY <1>1, <1>2, <1>5 DEF Entering
<1>8. ~Queued(m)'
  BY <1>1, <1>4, PlacesStay
<1> QED
  BY <1>6, <1>7, <1>8 DEF Gone

(* What thread c does brings m neither into a queue nor into its hands.    *)
LEMMA ThreadGone ==
  ASSUME TypeOK, RegInv, FreshDelivery, NEW m \in Msg, m \in Fresh, Gone(m),
         NEW c \in Client, Command(c) \/ RunsOn(c) \/ TakesLock(c)
  PROVE  Gone(m)'
<1> SUFFICES /\ Queued(m)' => Queued(m)
             /\ cur_m'[c] = m
                  => pc'[c] \notin {"consume_mark", "send_enqueue", "send_delete"}
  BY ThreadMoves DEF Gone, InHand, Takes, Entering
<1> USE DEF TypeOK, QueueTypeOK, ThreadTypeOK, GoTo, Return
<1>0. /\ Nil # m /\ m \in messages
      /\ \A d \in Client : cur_m[d] = m => SoleUser(d, m)
  BY BrokerAssumption DEF FreshDelivery, FreshOK, Fresh
<1>1. CASE Command(c)
  <2>1. CASE \/ \E q \in Queue, n \in Sizes : CreateQueueCmd(c, q, n)
             \/ \E q \in Queue : DeleteQueueCmd(c, q)
    BY <2>1, QueuedShrinks DEF CreateQueueCmd, DeleteQueueCmd
  <2>2. CASE \/ \E q \in Queue, n \in Msg : SendRegister(c, q, n)
             \/ \E q \in Queue : ConsumeStart(c, q)
    BY <1>0, <2>2, PlacesStay DEF SendRegister, ConsumeStart
  <2>3. ASSUME NEW n \in Msg, AckCheck(c, n) \/ NackCheck(c, n) \/ ReplayStart(c, n)
        PROVE  /\ Queued(m)' => Queued(m)
               /\ cur_m'[c] = m
                    => pc'[c] \notin {"consume_mark", "send_enqueue", "send_delete"}
    BY <1>0, <2>3, PlacesStay DEF AckCheck, NackCheck, ReplayStart
  <2>4. CASE \/ \E S \in SUBSET messages \ {{}} : AckBatch(c, S)
             \/ ReplayAll(c)
             \/ Disconnect(c)
    BY <1>0, <2>4, PlacesStay DEF AckBatch, ReplayAll, Disconnect
  <2> QED
    BY <1>1, <2>1, <2>2, <2>3, <2>4, Zenon DEF Command
<1>2. CASE RunsOn(c)
  <2>1. CASE SendEnqueue(c) \/ SendDelete(c) \/ SendPersist(c)
    <3>1. /\ cur_m[c] \in Msg
          /\ pc[c] # "send_persist" => cur_m[c] # m
          /\ pc[c] = "send_persist" => cur_m'[c] = Nil /\ UNCHANGED items
          /\ cur_m'[c] \in {cur_m[c], Nil}
      BY <2>1 DEF SendEnqueue, SendDelete, SendPersist, NeedsMessage, Gone,
                  Entering
    <3>2. Queued(m)' => Queued(m)
      BY <2>1, <3>1, QueuedShrinks DEF SendEnqueue, SendDelete, SendPersist
    <3> QED
      BY <1>0, <2>1, <3>1, <3>2 DEF SendEnqueue, SendDelete, SendPersist
  <2>2. CASE ConsumeDequeue(c)
    <3>1. cur_q[c] \in Queue
      BY <2>2 DEF ConsumeDequeue, NeedsQueue
    <3>2. Queued(m)' => Queued(m)
      BY <2>2, <3>1, QueuedShrinks DEF ConsumeDequeue
    <3>3. CASE Dequeue(cur_q[c]) /\ cur_m'[c] = Head(items[cur_q[c]])
      <4>1. Queued(Head(items[cur_q[c]]))
        BY <3>1, <3>3, PlacesDequeue
      <4> QED
        BY <3>2, <3>3, <4>1 DEF Gone
    <3> QED
      BY <1>0, <2>2, <3>2, <3>3 DEF ConsumeDequeue
  <2>3. CASE MarkDelivered(c) \/ AckSet(c) \/ NackSet(c)
    BY <1>0, <2>3, PlacesStay DEF MarkDelivered, AckSet, NackSet
  <2>4. ASSUME NEW n \in Msg, AckBatchCheck(c, n) \/ ReplayRoute(c, n)
        PROVE  /\ Queued(m)' => Queued(m)
               /\ cur_m'[c] = m
                    => pc'[c] \notin {"consume_mark", "send_enqueue", "send_delete"}
    BY <1>0, <2>4, PlacesStay
       DEF AckBatchCheck, ReplayRoute, ReplayQueuesNext
  <2>5. CASE ReplayReset(c) \/ ReplayEnqueue(c)
    <3>1. cur_m[c] # m /\ cur_m[c] \in Msg /\ cur_m'[c] = Nil
      BY <1>0, <2>5
         DEF ReplayReset, ReplayEnqueue, ReplayGoesOn, ReplayQueuesNext,
             NeedsMessage, SoleUser
    <3>2. Queued(m)' => Queued(m)
      BY <2>5, <3>1, QueuedShrinks DEF ReplayReset, ReplayEnqueue
    <3> QED
      BY <1>0, <3>1, <3>2
  <2> QED
    BY <1>2, <2>1, <2>2, <2>3, <2>4, <2>5 DEF RunsOn
<1>3. CASE TakesLock(c)
  BY <1>0, <1>3, PlacesStay DEF TakesLock, NackInsert, ReplayFind, ReplayPop,
                                ReplayGoesOn
<1> QED
  BY <1>1, <1>2, <1>3

LEMMA GoneStays ==
  ASSUME TypeOK, RegInv, FreshDelivery, [Next]_vars, NEW m \in Fresh, Gone(m)
  PROVE  Gone(m)'
<1>1. m \in Msg
  BY DEF Fresh, TypeOK, MessageTypeOK
<1>2. CASE CheckerStep \/ ClockStep \/ UNCHANGED vars
  BY <1>2, NoThreadMoves, PlacesStay DEF Gone, InHand, Takes, Entering
<1> QED
  BY <1>1, <1>2, ThreadGone DEF Next

(* The messages ever acknowledged, after a step of the broker.             *)
LEMMA AckedStays ==
  ASSUME TypeOK, RegInv, OneStorer, FreshDelivery, AckedGone, [Next]_vars,
         acknowledged' =
           acknowledged \cup {m \in Msg : \E c \in Client : AckedBy(c, m)},
         acknowledged \subseteq Msg
  PROVE  AckedGone'
<1> SUFFICES ASSUME NEW m \in acknowledged'
             PROVE  /\ sent'[m] = "none" => m \in messages'
                    /\ m \in Fresh' => Gone(m)'
  BY DEF AckedGone
<1>1. CASE \E c \in Client : AckedBy(c, m)
  <2>1. PICK c \in Client : AckedBy(c, m)
    BY <1>1
  <2>2. m \in messages /\ UNCHANGED <<messages, aged>>
    BY <2>1, Acking
  <2>3. m \in Fresh' => m \in Fresh
    BY <2>2 DEF Fresh
  <2> QED
    BY <2>1, <2>2, <2>3, GoneAcked
<1>2. CASE m \in acknowledged
  <2>1. m \in Msg /\ (sent[m] = "none" => m \in messages)
    BY <1>2 DEF AckedGone
  <2>2. ASSUME m \in messages' \ messages
        PROVE  FALSE
    BY <2>1, <2>2, Registering DEF SendRegister
  <2>3. m \in Fresh' => m \in Fresh
    BY <2>2, AgedStay DEF Fresh
  <2>4. sent'[m] = "none" => m \in messages'
    <3>1. CASE sent[m] # "none"
      BY <2>1, <3>1, AnsweredStays
    <3>2. CASE m \in messages \ messages'
      <4>1. PICK c \in Client : SendDelete(c) /\ cur_m[c] = m
        BY <3>2, Leaving
      <4> QED
        BY <2>1, <4>1 DEF SendDelete, AnswerSend, TypeOK, MessageTypeOK
    <3> QED
      BY <2>1, <3>1, <3>2
  <2> QED
    BY <1>2, <2>3, <2>4, GoneStays DEF AckedGone
<1> QED
  BY <1>1, <1>2

-----------------------------------------------------------------------------
(* The inductive invariant: what holds with any MaxRetries, and what needs *)
(* two retries or more.  A process that is down remembers nothing.         *)
MemoryEmpty ==
  /\ queues = {} /\ items = [q \in Queue |-> <<>>]
  /\ messages = {} /\ dlq = {} /\ overdue = {}
  /\ status = [m \in Msg |-> "PENDING"]
  /\ retry_count = [m \in Msg |-> 0]
  /\ delivered_to = [m \in Msg |-> Nil]
  /\ pc = [c \in Client |-> "idle"]
  /\ cur_m = [c \in Client |-> Nil]
  /\ replayed = [c \in Client |-> {}]
  /\ checker_m = Nil

RestartInv ==
  /\ RestartTypeOK /\ QueueInv /\ RegInv
  /\ OneStorer /\ SenderThere
  /\ LoggedAnswered /\ KnownRegistered
  /\ ~up => MemoryEmpty

OnceInv == FreshDelivery /\ FiledForQueue /\ AckedGone

LEMMA RestartInitInv == RestartInit => RestartInv /\ OnceInv
<1> SUFFICES ASSUME RestartInit
             PROVE  RestartInv /\ OnceInv
  OBVIOUS
<1>1. Init /\ TypeOK /\ RegInv /\ FreshDelivery
  BY InitTypes, InitReg, InitFresh DEF RestartInit
<1>2. QueueInv /\ MemoryEmpty
  BY <1>1, SizesAssumption
     DEF Init, QueueInit, QueueInv, TypeOK, CapacityRespected, NoOrphanItems,
         MemoryEmpty
<1>3. RestartTypeOK
  BY <1>1 DEF RestartInit, RestartTypeOK, Log!LogInit, Log!LogTypeOK
<1>4. OneStorer /\ SenderThere
  BY <1>2 DEF MemoryEmpty, OneStorer, SenderThere, Storing
<1>5. LoggedAnswered /\ KnownRegistered /\ FiledForQueue /\ AckedGone
  BY DEF RestartInit, Log!LogInit, LoggedAnswered, KnownRegistered,
         FiledForQueue, AckedGone
<1> QED
  BY <1>1, <1>2, <1>3, <1>4, <1>5 DEF RestartInv, OnceInv

(* A message that is being stored.                                         *)
LEMMA StoredMessage ==
  ASSUME RestartInv, NEW c \in Client, Writing(c)
  PROVE  /\ cur_m[c] \in messages /\ cur_m[c] \in Msg /\ cur_m[c] \in Fresh
         /\ sent[cur_m[c]] = "none"
<1>1. cur_m[c] \in Msg /\ cur_m[c] # Nil
  BY BrokerAssumption
     DEF Writing, RestartInv, RestartTypeOK, TypeOK, ThreadTypeOK, NeedsMessage
<1>2. cur_m[c] \in messages
  BY <1>1 DEF RestartInv, RegInv, NoDanglingIds
<1>3. sent[cur_m[c]] = "none"
  BY DEF RestartInv, OneStorer, Storing, Writing
<1>4. cur_m[c] \notin aged
  BY <1>3 DEF RestartInv, RegInv, UnusedUntouched
<1> QED
  BY <1>1, <1>2, <1>3, <1>4 DEF Fresh

-----------------------------------------------------------------------------
(* A step of the broker, with or without a record.                         *)
LEMMA BrokerPart ==
  ASSUME RestartInv, [Next]_vars
  PROVE  TypeOK' /\ QueueInv' /\ RegInv' /\ OneStorer' /\ SenderThere'
<1>1. TypeOK /\ QueueInv /\ RegInv /\ OneStorer /\ SenderThere
  BY DEF RestartInv, RestartTypeOK
<1> QED
  BY <1>1, TypeStep, QueueUse, QueueStep, RegStep, StorerStep, SenderStays

(* The registry keeps what the log has.                                    *)
LEMMA LoggedStay ==
  ASSUME RestartInv, [Next]_vars, NEW m \in logged \cup torn
  PROVE  /\ sent'[m] \in {"ok", "internal"}
         /\ m \in messages => m \in messages'
<1>1. m \in Msg /\ sent[m] \in {"ok", "internal"}
  BY DEF RestartInv, LoggedAnswered, RestartTypeOK, Log!LogTypeOK
<1> QED
  BY <1>1, AnsweredStays DEF RestartInv, RestartTypeOK

LEMMA ServeQuietly ==
  ASSUME RestartInv, [Next]_vars, UNCHANGED <<logVars, stopping>>,
         acknowledged' \subseteq Msg, up
  PROVE  RestartInv'
<1>1. UNCHANGED <<up, logged, torn, saved, known, recovered, filed, stopping>>
  BY DEF logVars
<1>2. RestartTypeOK'
  BY <1>1, BrokerPart DEF RestartInv, RestartTypeOK, Log!LogTypeOK
<1>3. LoggedAnswered'
  BY <1>1, LoggedStay DEF LoggedAnswered
<1>4. KnownRegistered'
  BY <1>1, LoggedStay DEF RestartInv, KnownRegistered
<1> QED
  BY <1>1, <1>2, <1>3, <1>4, BrokerPart DEF RestartInv

LEMMA ServeLogging ==
  ASSUME RestartInv, [Next]_vars, up, UNCHANGED stopping, acknowledged' \subseteq Msg,
         NEW c \in Client, Writing(c), sent'[cur_m[c]] = "ok",
         Log!LogAppend(cur_m[c]), File({cur_m[c]})
  PROVE  RestartInv'
<1> DEFINE m == cur_m[c]
<1>1. m \in messages /\ m \in Msg
  BY StoredMessage
<1>2. /\ logged' = logged \cup {m} /\ known' = known \cup {m}
      /\ UNCHANGED <<up, torn, saved, recovered>>
  BY DEF Log!LogAppend
<1>3. m \in messages'
  <2>1. ASSUME m \notin messages'
        PROVE  FALSE
    <3>1. PICK d \in Client : SendDelete(d) /\ cur_m[d] = m
      BY <1>1, <2>1, Leaving DEF RestartInv, RestartTypeOK
    <3> QED
      BY <1>1, <3>1
         DEF SendDelete, AnswerSend, RestartInv, RestartTypeOK, TypeOK,
             MessageTypeOK
  <2> QED
    BY <2>1
<1>4. RestartTypeOK'
  <2>1. filed' \in [Msg -> Queue \cup {DLQ, Nil}]
    BY DEF File, RestartInv, RestartTypeOK, TypeOK, MessageTypeOK
  <2> QED
    BY <1>1, <1>2, <2>1, BrokerPart DEF RestartInv, RestartTypeOK, Log!LogTypeOK
<1>5. LoggedAnswered'
  BY <1>2, LoggedStay DEF LoggedAnswered
<1>6. KnownRegistered'
  BY <1>2, <1>3, LoggedStay DEF RestartInv, KnownRegistered
<1> QED
  BY <1>2, <1>4, <1>5, <1>6, BrokerPart DEF RestartInv

LEMMA ServeKeeps ==
  ASSUME RestartInv, Serve(Next)
  PROVE  RestartInv'
<1>1. acknowledged' \subseteq Msg
  BY DEF Serve, RestartInv, RestartTypeOK
<1> QED
  BY <1>1, ServeQuietly, ServeLogging, Zenon DEF Serve

LEMMA ServeOnce ==
  ASSUME RestartInv, OnceInv, MaxRetries >= 2, Serve(Next)
  PROVE  OnceInv'
<1>1. FreshDelivery'
  BY FreshStep DEF RestartInv, RestartTypeOK, OnceInv, Serve
<1>2. FiledForQueue'
  <2>1. CASE UNCHANGED logVars
    BY <2>1 DEF OnceInv, FiledForQueue, logVars
  <2>2. ASSUME NEW c \in Client, Writing(c), Log!LogAppend(cur_m[c]),
               File({cur_m[c]})
        PROVE  FiledForQueue'
    <3>1. cur_m[c] \in Fresh /\ cur_m[c] \in Msg
      BY <2>2, StoredMessage
    <3>2. target[cur_m[c]] \in Queue
      BY <3>1 DEF OnceInv, FreshDelivery, FreshOK
    <3>3. logged \cup torn \subseteq Msg
      BY DEF RestartInv, RestartTypeOK, Log!LogTypeOK
    <3> QED
      BY <2>2, <3>1, <3>2, <3>3 DEF OnceInv, FiledForQueue, Log!LogAppend, File
  <2> QED
    BY <2>1, <2>2 DEF Serve
<1>3. AckedGone'
  BY AckedStays DEF RestartInv, RestartTypeOK, OnceInv, Serve
<1> QED
  BY <1>1, <1>2, <1>3 DEF OnceInv

-----------------------------------------------------------------------------
(* The process ends.                                                       *)
LEMMA GoneMemory ==
  ASSUME RestartInv, MemoryGone
  PROVE  /\ TypeOK' /\ QueueInv' /\ RegInv' /\ OneStorer' /\ SenderThere'
         /\ MemoryEmpty' /\ FreshDelivery' /\ acknowledged' = acknowledged
         /\ stopping' = FALSE
<1>1. TypeOK'
  <2>1. QueueTypeOK' /\ IdSetsTypeOK' /\ CheckerTypeOK' /\ ThreadTypeOK'
    BY SizesAssumption
       DEF MemoryGone, QueueTypeOK, IdSetsTypeOK, CheckerTypeOK, CheckerSteps,
           ThreadTypeOK, Steps, NeedsMessage, NeedsQueue
  <2>2. MessageTypeOK'
    BY DEF MemoryGone, RestartInv, RestartTypeOK, TypeOK, MessageTypeOK,
           Statuses, Answers
  <2> QED
    BY <2>1, <2>2 DEF TypeOK
<1>2. MemoryEmpty' /\ acknowledged' = acknowledged /\ stopping' = FALSE
  BY DEF MemoryGone, MemoryEmpty
<1>3. QueueInv'
  BY <1>1, <1>2
     DEF TypeOK, QueueInv, CapacityRespected, NoOrphanItems, MemoryEmpty
<1>4. OneStorer' /\ SenderThere' /\ FreshDelivery'
  BY <1>2 DEF MemoryEmpty, OneStorer, SenderThere, Storing, FreshDelivery,
              Fresh
<1>5. RegInv'
  <2>1. NoDanglingIds' /\ EnteringUnknown' /\ FullForgotten'
    BY <1>2, RangeEmpty
       DEF MemoryEmpty, NoDanglingIds, EnteringUnknown, Entering,
           FullForgotten
  <2>2. UnusedUntouched'
    BY <1>2 DEF MemoryEmpty, MemoryGone, UnusedUntouched, RestartInv, RegInv,
                RestartTypeOK, TypeOK, MessageTypeOK
  <2> QED
    BY <2>1, <2>2 DEF RegInv
<1> QED
  BY <1>1, <1>2, <1>3, <1>4, <1>5

(* What a SEND has been told, and that one under way is told nothing.      *)
LEMMA GoneAnswers ==
  ASSUME RestartInv, MemoryGone
  PROVE  /\ \A m \in Msg : sent[m] # "none" => sent'[m] = sent[m]
         /\ \A c \in Client : Writing(c) => sent'[cur_m[c]] = "internal"
         /\ \A m \in messages : sent'[m] # "none"
<1>1. \A m \in Msg : sent'[m] = IF sent[m] = "none" /\ \E c \in Client : cur_m[c] = m
                                 THEN "internal" ELSE sent[m]
  BY DEF MemoryGone
<1>2. \A c \in Client : Writing(c) => sent'[cur_m[c]] = "internal"
  BY <1>1, StoredMessage
<1>3. \A m \in messages : sent'[m] # "none"
  BY <1>1 DEF RestartInv, SenderThere, RestartTypeOK, TypeOK, MessageTypeOK
<1> QED
  BY <1>1, <1>2, <1>3

LEMMA EndTypes ==
  ASSUME RestartInv, End \/ MachineFails
  PROVE  RestartTypeOK'
<1>1. TypeOK' /\ acknowledged' = acknowledged /\ stopping' = FALSE
  BY GoneMemory DEF End, MachineFails
<1>2. CASE MachineFails
  BY <1>1, <1>2
     DEF MachineFails, RestartInv, RestartTypeOK, Log!LogTypeOK, Log!LogFail,
         Log!Forgotten
<1>3. CASE End
  <2>1. filed' \in [Msg -> Queue \cup {DLQ, Nil}]
    BY <1>3 DEF End, File, RestartInv, RestartTypeOK, TypeOK, MessageTypeOK
  <2>2. {cur_m[c] : c \in {d \in Client : Writing(d)}} \subseteq Msg
    BY StoredMessage
  <2> QED
    BY <1>1, <1>3, <2>1, <2>2
       DEF End, RestartInv, RestartTypeOK, Log!LogTypeOK, Log!LogEnd,
           Log!Forgotten
<1> QED
  BY <1>2, <1>3

LEMMA EndRecords ==
  ASSUME RestartInv, End \/ MachineFails, NEW m \in logged' \cup torn'
  PROVE  /\ \/ m \in logged \cup torn
            \/ End /\ \E c \in Client : Writing(c) /\ m = cur_m[c]
         /\ recovered' = {} /\ up' = FALSE
BY DEF End, MachineFails, Log!LogEnd, Log!LogFail, Log!Forgotten

LEMMA EndKeeps ==
  ASSUME RestartInv, End \/ MachineFails
  PROVE  RestartInv'
<1>1. MemoryGone
  BY DEF End, MachineFails
<1>2. recovered' = {} /\ up' = FALSE
  BY DEF End, MachineFails, Log!LogEnd, Log!LogFail, Log!Forgotten
<1>3. LoggedAnswered'
  <2> SUFFICES ASSUME NEW m \in logged' \cup torn'
               PROVE  sent'[m] \in {"ok", "internal"}
    BY DEF LoggedAnswered
  <2>1. CASE m \in logged \cup torn
    <3>1. m \in Msg /\ sent[m] \in {"ok", "internal"}
      BY <2>1 DEF RestartInv, RestartTypeOK, Log!LogTypeOK, LoggedAnswered
    <3> QED
      BY <1>1, <3>1, GoneAnswers
  <2>2. CASE \E c \in Client : Writing(c) /\ m = cur_m[c]
    BY <1>1, <2>2, GoneAnswers
  <2> QED
    BY <2>1, <2>2, EndRecords
<1>4. KnownRegistered'
  BY <1>2 DEF KnownRegistered
<1> QED
  BY <1>1, <1>3, <1>4, EndTypes, GoneMemory DEF RestartInv

LEMMA EndOnce ==
  ASSUME RestartInv, OnceInv, End \/ MachineFails
  PROVE  OnceInv'
<1>1. MemoryGone
  BY DEF End, MachineFails
<1>2. FiledForQueue'
  <2> SUFFICES ASSUME NEW m \in logged' \cup torn'
               PROVE  filed'[m] \in Queue
    BY DEF FiledForQueue
  <2>1. \A c \in Client : Writing(c) => target[cur_m[c]] \in Queue
    BY StoredMessage DEF OnceInv, FreshDelivery, FreshOK
  <2>2. m \in Msg
    BY EndTypes DEF RestartTypeOK, Log!LogTypeOK
  <2>3. CASE MachineFails
    <3>1. m \in logged \cup torn /\ filed' = filed
      BY <2>3 DEF MachineFails, Log!LogFail
    <3> QED
      BY <3>1 DEF OnceInv, FiledForQueue
  <2>4. CASE End
    <3>1. \/ m \in logged \cup torn
          \/ \E c \in Client : Writing(c) /\ m = cur_m[c]
      BY EndRecords
    <3>2. filed'[m] = IF \E c \in Client : Writing(c) /\ m = cur_m[c]
                        THEN target[m] ELSE filed[m]
      BY <2>2, <2>4 DEF End, File
    <3> QED
      BY <2>1, <3>1, <3>2 DEF OnceInv, FiledForQueue
  <2> QED
    BY <2>3, <2>4
<1>3. AckedGone'
  <2>1. acknowledged' = acknowledged /\ messages' = {} /\ acknowledged \subseteq Msg
    BY <1>1 DEF MemoryGone, RestartInv, RestartTypeOK
  <2>2. \A m \in acknowledged : sent'[m] # "none"
    BY <1>1, <2>1, GoneAnswers DEF OnceInv, AckedGone
  <2> QED
    BY <2>1, <2>2 DEF AckedGone, Fresh
<1> QED
  BY <1>1, <1>2, <1>3, GoneMemory DEF OnceInv

-----------------------------------------------------------------------------
(* A stop that saves the index, and a start.                               *)
LEMMA StopKeeps ==
  ASSUME RestartInv, Stop
  PROVE  RestartInv'
<1>1. UNCHANGED <<vars, filed, acknowledged>> /\ stopping' = TRUE /\ up
      /\ saved' = known /\ UNCHANGED <<up, logged, torn, known, recovered>>
  BY DEF Stop, Log!LogSave
<1>2. TypeOK' /\ QueueInv' /\ RegInv' /\ OneStorer' /\ SenderThere'
  BY <1>1, BrokerPart
<1>3. RestartTypeOK'
  BY <1>1, <1>2 DEF RestartInv, RestartTypeOK, Log!LogTypeOK
<1>4. LoggedAnswered' /\ KnownRegistered'
  BY <1>1 DEF RestartInv, LoggedAnswered, KnownRegistered, vars
<1> QED
  BY <1>1, <1>2, <1>3, <1>4 DEF RestartInv

LEMMA StopOnce ==
  ASSUME OnceInv, Stop \/ UNCHANGED restartVars
  PROVE  OnceInv'
<1>1. UNCHANGED <<vars, filed, acknowledged, logged, torn>>
  BY DEF Stop, Log!LogSave, restartVars, logVars
<1>2. FreshDelivery'
  BY <1>1 DEF OnceInv, FreshDelivery, FreshOK, SoleUser, Untried, Queued,
              OnePlace, Settling, Takes, Fresh, vars
<1>3. FiledForQueue' /\ AckedGone'
  BY <1>1 DEF OnceInv, FiledForQueue, AckedGone, Gone, Fresh, Queued, InHand,
              Takes, Entering, vars
<1> QED
  BY <1>2, <1>3 DEF OnceInv

LEMMA StartRecovers ==
  ASSUME RestartInv, Start
  PROVE  /\ recovered' \subseteq logged \cup torn /\ messages' = recovered'
         /\ up' = TRUE /\ ~up /\ MemoryEmpty
         /\ UNCHANGED <<logged, torn, saved>>
         /\ saved # {} => saved \cap logged \subseteq recovered' /\ known' = saved
         /\ saved = {} => known' = recovered'
         /\ saved = {} /\ torn = {} => recovered' = logged
BY DEF Start, Log!LogStart, Log!Recoverable, RestartInv

LEMMA StartKeeps ==
  ASSUME RestartInv, Start
  PROVE  RestartInv'
<1>1. /\ recovered' \subseteq logged \cup torn /\ messages' = recovered'
      /\ up' = TRUE /\ ~up /\ MemoryEmpty
      /\ UNCHANGED <<logged, torn, saved>>
      /\ saved # {} => saved \cap logged \subseteq recovered' /\ known' = saved
      /\ saved = {} => known' = recovered'
      /\ saved = {} /\ torn = {} => recovered' = logged
  BY StartRecovers
<1>2. /\ UNCHANGED <<queues, items, max_size, status, original_target,
                     retry_count, delivered_to, dlq, clockVars, localVars,
                     checkerVars, sent, filed, stopping, acknowledged>>
      /\ target' = [m \in Msg |-> IF m \in messages' THEN filed[m] ELSE Nil]
  BY DEF Start
<1>3. messages' \subseteq Msg /\ known' \subseteq Msg
  BY <1>1 DEF RestartInv, RestartTypeOK, Log!LogTypeOK
<1>4. TypeOK'
  <2>1. QueueTypeOK' /\ IdSetsTypeOK' /\ CheckerTypeOK' /\ ThreadTypeOK'
    BY <1>2 DEF RestartInv, RestartTypeOK, TypeOK, QueueTypeOK, IdSetsTypeOK,
                CheckerTypeOK, ThreadTypeOK
  <2>2. MessageTypeOK'
    BY <1>2, <1>3 DEF RestartInv, RestartTypeOK, TypeOK, MessageTypeOK
  <2> QED
    BY <2>1, <2>2 DEF TypeOK
<1>5. RestartTypeOK'
  BY <1>1, <1>2, <1>3, <1>4 DEF RestartInv, RestartTypeOK, Log!LogTypeOK
<1>6. QueueInv'
  BY <1>2 DEF RestartInv, QueueInv, QueueTypeOK, CapacityRespected,
              NoOrphanItems
<1>7. OneStorer' /\ SenderThere' /\ LoggedAnswered'
  BY <1>1, <1>2
     DEF RestartInv, MemoryEmpty, OneStorer, Storing, SenderThere,
         LoggedAnswered
<1>8. KnownRegistered'
  BY <1>1 DEF KnownRegistered
<1>9. RegInv'
  <2>1. NoDanglingIds' /\ EnteringUnknown'
    BY <1>1, <1>2, RangeEmpty
       DEF MemoryEmpty, NoDanglingIds, EnteringUnknown, Entering
  <2>2. UnusedUntouched'
    BY <1>1, <1>2 DEF MemoryEmpty, UnusedUntouched, RestartInv, RegInv
  <2>3. FullForgotten'
    BY <1>1, <1>2 DEF FullForgotten, RestartInv, LoggedAnswered
  <2> QED
    BY <2>1, <2>2, <2>3 DEF RegInv
<1> QED
  BY <1>1, <1>5, <1>6, <1>7, <1>8, <1>9 DEF RestartInv

(* A restored message has all it needs to be delivered once, if it ever    *)
(* comes to a queue again.                                                 *)
LEMMA StartOnce ==
  ASSUME RestartInv, OnceInv, Start
  PROVE  OnceInv'
<1>1. /\ recovered' \subseteq logged \cup torn /\ messages' = recovered'
      /\ MemoryEmpty /\ UNCHANGED <<logged, torn>>
  BY StartRecovers
<1>2. /\ UNCHANGED <<items, status, retry_count, delivered_to, dlq, pc, cur_m,
                     replayed, checker_m, sent, filed, acknowledged>>
      /\ target' = [m \in Msg |-> IF m \in messages' THEN filed[m] ELSE Nil]
  BY DEF Start
<1>3. messages' \subseteq Msg
  BY <1>1 DEF RestartInv, RestartTypeOK, Log!LogTypeOK
<1>4. FreshDelivery'
  <2> SUFFICES ASSUME NEW m \in messages'
               PROVE  FreshOK(m)'
    BY DEF FreshDelivery, Fresh
  <2>1. /\ status'[m] = "PENDING" /\ retry_count'[m] = 0 /\ m \notin dlq'
        /\ checker_m' # m /\ \A c \in Client : cur_m'[c] # m /\ m \notin replayed'[c]
        /\ \A q \in Queue : items'[q] = <<>>
    BY <1>1, <1>2, <1>3, BrokerAssumption DEF MemoryEmpty
  <2>2. target'[m] \in Queue
    BY <1>1, <1>2, <1>3 DEF OnceInv, FiledForQueue
  <2>3. ~Queued(m)'
    BY <2>1, RangeEmpty DEF Queued
  <2>4. OnePlace(m)'
    BY <2>1 DEF OnePlace
  <2> QED
    BY <2>1, <2>2, <2>3, <2>4 DEF FreshOK
<1>5. FiledForQueue'
  BY <1>1, <1>2 DEF OnceInv, FiledForQueue
<1>6. AckedGone'
  BY <1>1, <1>2, RangeEmpty
     DEF MemoryEmpty, OnceInv, AckedGone, Gone, Queued, InHand, Takes,
         Entering
<1> QED
  BY <1>4, <1>5, <1>6 DEF OnceInv

-----------------------------------------------------------------------------
LEMMA RestartStep ==
  RestartInv /\ [RestartNext]_restartVars => RestartInv'
<1> SUFFICES ASSUME RestartInv, [RestartNext]_restartVars
             PROVE  RestartInv'
  OBVIOUS
<1>1. CASE UNCHANGED restartVars
  <2>1. UNCHANGED <<vars, logVars, stopping, acknowledged, up>>
    BY <1>1 DEF restartVars, logVars
  <2>2. CASE up
    BY <2>1, <2>2, ServeQuietly DEF RestartInv, RestartTypeOK
  <2>3. CASE ~up
    <3>1. TypeOK' /\ QueueInv' /\ RegInv' /\ OneStorer' /\ SenderThere'
      BY <2>1, BrokerPart
    <3>2. RestartTypeOK' /\ LoggedAnswered' /\ KnownRegistered' /\ MemoryEmpty'
      BY <2>1, <2>3, <3>1
         DEF RestartInv, RestartTypeOK, Log!LogTypeOK, logVars, LoggedAnswered,
             KnownRegistered, MemoryEmpty, vars
    <3> QED
      BY <3>1, <3>2 DEF RestartInv
  <2> QED
    BY <2>2, <2>3
<1> QED
  BY <1>1, ServeKeeps, EndKeeps, StopKeeps, StartKeeps DEF RestartNext

LEMMA OnceStep ==
  MaxRetries >= 2 /\ RestartInv /\ OnceInv /\ [RestartNext]_restartVars
    => OnceInv'
BY ServeOnce, EndOnce, StopOnce, StartOnce DEF RestartNext

LEMMA RestartInvariant == RestartSpec => []RestartInv
BY RestartInitInv, RestartStep, PTL DEF RestartSpec

LEMMA OnceInvariant == MaxRetries >= 2 => (RestartSpec => []OnceInv)
<1> SUFFICES ASSUME MaxRetries >= 2
             PROVE  RestartSpec => []OnceInv
  OBVIOUS
<1>1. RestartInv /\ OnceInv /\ [RestartNext]_restartVars => OnceInv'
  BY OnceStep
<1> QED
  BY <1>1, RestartInitInv, RestartInvariant, PTL DEF RestartSpec

-----------------------------------------------------------------------------
(* Every variable stays in its type, whenever the process ends and starts. *)
THEOREM RestartTypes == RestartSpec => []RestartTypeOK
BY RestartInvariant, PTL DEF RestartInv

(* The messages the log has are known to the process that runs: nothing a  *)
(* broker does takes one of them out of the registry (route_to_queue,      *)
(* recover).                                                               *)
THEOREM LoggedAreRegistered == RestartSpec => []LoggedRegistered
<1>1. RestartInv => LoggedRegistered
  BY DEF RestartInv, KnownRegistered, LoggedRegistered
<1> QED
  BY <1>1, RestartInvariant, PTL

(* With two retries or more, no message inside its time to live is acknowledged  *)
(* out once it has been acknowledged, by the process that took the ACK or  *)
(* by a later one.                                                         *)
THEOREM AckedNeverHandedOut ==
  MaxRetries >= 2 => (RestartSpec => AckedNotHandedOut)
<1> SUFFICES ASSUME MaxRetries >= 2
             PROVE  RestartSpec => AckedNotHandedOut
  OBVIOUS
<1>1. OnceInv => \A m \in Fresh, c \in Client :
                   HandedBy(c, m) => m \notin acknowledged
  BY DEF OnceInv, AckedGone, Gone, HandedBy, InHand
<1> QED
  BY <1>1, OnceInvariant, PTL DEF AckedNotHandedOut

(* What the broker promises inside one process holds over restarts too:    *)
(* there is one copy of a message inside its time to live, and two         *)
(* consumers do not contend for it.                                        *)
THEOREM OneCopyOverRestarts ==
  MaxRetries >= 2
    => (RestartSpec => [](SingleCopy /\ HolderUncontested))
<1> SUFFICES ASSUME MaxRetries >= 2
             PROVE  RestartSpec => [](SingleCopy /\ HolderUncontested)
  OBVIOUS
<1>1. OnceInv => SingleCopy /\ HolderUncontested
  BY FreshMeansSingle, FreshMeansUncontested DEF OnceInv
<1> QED
  BY <1>1, OnceInvariant, PTL

(* The registry of a new process has every id that it uses, a refused SEND *)
(* is not remembered by the log either, and the queues keep their bounds.  *)
THEOREM RegistryOverRestarts ==
  RestartSpec
    => [](NoDanglingIds /\ FullSendForgotten /\ CapacityRespected)
<1>1. RestartInv => NoDanglingIds /\ FullSendForgotten /\ CapacityRespected
  BY DEF RestartInv, RegInv, NoDanglingIds, FullForgotten, FullSendForgotten,
         Queued, QueueInv
<1> QED
  BY <1>1, RestartInvariant, PTL

(* The server uses its log as Persistence provides it: each step of the    *)
(* system is one of MessageLog's or none.                                  *)
THEOREM LogUsed == RestartSpec => Log!LogSpec
<1>1. RestartInit => Log!LogInit
  BY DEF RestartInit
<1>2. ASSUME RestartInv, [RestartNext]_restartVars
      PROVE  Log!LogNext \/ UNCHANGED logVars
  <2>1. CASE Serve(Next)
    <3>1. \/ \E c \in Client : Writing(c) /\ Log!LogAppend(cur_m[c])
          \/ UNCHANGED logVars
      BY <2>1, Zenon DEF Serve
    <3> QED
      BY <3>1, StoredMessage, <1>2 DEF Log!LogNext
  <2>2. CASE Stop \/ MachineFails \/ Start
    BY <2>2 DEF Stop, MachineFails, Start, Log!LogNext
  <2>3. CASE End
    <3>1. {cur_m[c] : c \in {d \in Client : Writing(d)}} \subseteq Msg
      BY <1>2, StoredMessage
    <3>2. ASSUME NEW W \in SUBSET Msg, Log!LogEnd(W)
          PROVE  Log!LogEnd(Msg)
      BY <3>2 DEF Log!LogEnd
    <3>3. Log!LogEnd(Msg)
      BY <2>3, <3>1, <3>2, Zenon DEF End
    <3> QED
      BY <3>3 DEF Log!LogNext
  <2>4. CASE UNCHANGED restartVars
    BY <2>4 DEF restartVars
  <2> QED
    BY <1>2, <2>1, <2>2, <2>3, <2>4 DEF RestartNext
<1>3. UNCHANGED logVars => UNCHANGED Log!logVars
  BY DEF logVars, Log!logVars
<1> QED
  BY <1>1, <1>2, <1>3, RestartInvariant, PTL DEF RestartSpec, Log!LogSpec
=============================================================================
