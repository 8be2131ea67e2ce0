--------------------------- MODULE DeliveryProofs ---------------------------
(* A message inside its time to live is delivered at most once, and one    *)
(* that was accepted is not lost before its first redelivery.              *)
EXTENDS BrokerProofs

USE DEF shared, registry, queueVars, msgVars, clockVars, localVars,
        checkerVars

(* The steps at which a thread acts on the message it has in hand.         *)
Active == {"consume_mark", "ack_set", "nack_set", "nack_dlq",
           "replay_reset", "replay_enqueue"}

-----------------------------------------------------------------------------
(* Places in the queues.                                                   *)
LEMMA PlacesStay ==
  ASSUME UNCHANGED items, NEW m
  PROVE  /\ OnePlace(m) => OnePlace(m)'
         /\ Queued(m)' <=> Queued(m)
BY DEF OnePlace, Queued

LEMMA PlacesCreate ==
  ASSUME QueueTypeOK, NEW q \in Queue, NEW n, CreateQueue(q, n), NEW m
  PROVE  /\ OnePlace(m) => OnePlace(m)'
         /\ Queued(m)' => Queued(m)
<1>1. /\ items'[q] = <<>>
      /\ \A r \in Queue : r # q => items'[r] = items[r]
  BY DEF CreateQueue, QueueTypeOK
<1>2. Len(items'[q]) = 0
  BY <1>1
<1>3. ASSUME OnePlace(m)
      PROVE  OnePlace(m)'
  <2> SUFFICES ASSUME NEW q1 \in Queue, NEW q2 \in Queue,
                      NEW i \in 1 .. Len(items'[q1]),
                      NEW j \in 1 .. Len(items'[q2]),
                      items'[q1][i] = m, items'[q2][j] = m
               PROVE  q1 = q2 /\ i = j
    BY DEF OnePlace
  <2>1. q1 # q /\ q2 # q
    BY <1>2
  <2> QED
    BY <1>1, <1>3, <2>1 DEF OnePlace
<1>4. Queued(m)' => Queued(m)
  BY <1>1, RangeEmpty DEF Queued
<1> QED
  BY <1>3, <1>4

LEMMA EnqueueFacts ==
  ASSUME QueueTypeOK, NEW q, NEW x \in Msg, Enqueue(q, x)
  PROVE  /\ q \in Queue /\ items[q] \in Seq(Msg) /\ Len(items[q]) \in Nat
         /\ Len(items'[q]) = Len(items[q]) + 1
         /\ items'[q][Len(items[q]) + 1] = x
         /\ \A i \in 1 .. Len(items[q]) : items'[q][i] = items[q][i]
         /\ \A r \in Queue : r # q => items'[r] = items[r]
         /\ Range(items'[q]) = Range(items[q]) \cup {x}
<1>1. q \in Queue /\ items[q] \in Seq(Msg) /\ Len(items[q]) \in Nat
  BY DEF Enqueue, Accepts, QueueTypeOK
<1>2. /\ items'[q] = Append(items[q], x)
      /\ \A r \in Queue : r # q => items'[r] = items[r]
  BY <1>1 DEF Enqueue, QueueTypeOK
<1> QED
  BY <1>1, <1>2, RangeAppend

LEMMA PlacesEnqueue ==
  ASSUME QueueTypeOK, NEW q, NEW x \in Msg, Enqueue(q, x), NEW m
  PROVE  /\ m # x => /\ OnePlace(m) => OnePlace(m)'
                     /\ Queued(m)' => Queued(m)
         /\ ~Queued(x) => OnePlace(x)'
<1> USE EnqueueFacts
<1>1. ASSUME m # x, OnePlace(m)
      PROVE  OnePlace(m)'
  <2> SUFFICES ASSUME NEW q1 \in Queue, NEW q2 \in Queue,
                      NEW i \in 1 .. Len(items'[q1]),
                      NEW j \in 1 .. Len(items'[q2]),
                      items'[q1][i] = m, items'[q2][j] = m
               PROVE  q1 = q2 /\ i = j
    BY DEF OnePlace
  <2>1. i \in 1 .. Len(items[q1]) /\ items[q1][i] = m
    BY <1>1
  <2>2. j \in 1 .. Len(items[q2]) /\ items[q2][j] = m
    BY <1>1
  <2> QED
    BY <1>1, <2>1, <2>2 DEF OnePlace
<1>2. ASSUME m # x, Queued(m)'
      PROVE  Queued(m)
  BY <1>2 DEF Queued
<1>3. ASSUME ~Queued(x)
      PROVE  OnePlace(x)'
  <2>1. ASSUME NEW r \in Queue, NEW i \in 1 .. Len(items'[r]),
               items'[r][i] = x
        PROVE  r = q /\ i = Len(items[q]) + 1
    <3>1. \A k \in 1 .. Len(items[r]) : items[r][k] # x
      <4>1. items[r] \in Seq(Msg)
        BY DEF QueueTypeOK
      <4> QED
        BY <1>3, <4>1 DEF Queued, Range
    <3> QED
      BY <2>1, <3>1
  <2> QED
    BY <2>1 DEF OnePlace
<1> QED
  BY <1>1, <1>2, <1>3

LEMMA PlacesDequeue ==
  ASSUME QueueTypeOK, NEW q \in Queue, Dequeue(q), NEW m
  PROVE  /\ OnePlace(m) => OnePlace(m)'
         /\ Queued(m)' => Queued(m)
         /\ Queued(Head(items[q]))
         /\ OnePlace(m) /\ m = Head(items[q]) => ~Queued(m)'
<1>1. /\ items[q] \in Seq(Msg) /\ items[q] # <<>>
      /\ items'[q] = Tail(items[q])
      /\ \A r \in Queue : r # q => items'[r] = items[r]
  BY DEF Dequeue, QueueTypeOK
<1>2. /\ Len(items[q]) \in Nat /\ Len(items[q]) >= 1
      /\ Len(items'[q]) = Len(items[q]) - 1
      /\ \A i \in 1 .. Len(items'[q]) : items'[q][i] = items[q][i + 1]
      /\ Head(items[q]) = items[q][1]
      /\ items'[q] \in Seq(Msg)
  BY <1>1
<1> DEFINE Before(r, i) == IF r = q THEN i + 1 ELSE i
<1>3. ASSUME NEW r \in Queue, NEW i \in 1 .. Len(items'[r])
      PROVE  /\ Before(r, i) \in 1 .. Len(items[r])
             /\ items'[r][i] = items[r][Before(r, i)]
             /\ r = q => Before(r, i) > 1
  <2>1. CASE r = q
    <3>1. /\ i + 1 \in 1 .. Len(items[q])
          /\ items'[q][i] = items[q][i + 1]
          /\ i + 1 > 1
      BY <1>2, <2>1
    <3> QED
      BY <2>1, <3>1
  <2>2. CASE r # q
    BY <1>1, <2>2
  <2> QED
    BY <2>1, <2>2
<1>4. ASSUME OnePlace(m)
      PROVE  OnePlace(m)'
  <2> SUFFICES ASSUME NEW q1 \in Queue, NEW q2 \in Queue,
                      NEW i \in 1 .. Len(items'[q1]),
                      NEW j \in 1 .. Len(items'[q2]),
                      items'[q1][i] = m, items'[q2][j] = m
               PROVE  q1 = q2 /\ i = j
    BY DEF OnePlace
  <2>1. q1 = q2 /\ Before(q1, i) = Before(q2, j)
    <3>1. /\ Before(q1, i) \in 1 .. Len(items[q1])
          /\ items[q1][Before(q1, i)] = m
      BY <1>3
    <3>2. /\ Before(q2, j) \in 1 .. Len(items[q2])
          /\ items[q2][Before(q2, j)] = m
      BY <1>3
    <3> HIDE DEF Before
    <3> QED
      BY <1>4, <3>1, <3>2 DEF OnePlace
  <2>2. i \in Int /\ j \in Int
    OBVIOUS
  <2> QED
    BY <2>1, <2>2
<1>5. /\ Queued(m)' => Queued(m)
      /\ Queued(Head(items[q]))
  BY <1>1, RangeTail DEF Queued
<1>6. ASSUME OnePlace(m), m = Head(items[q]), Queued(m)'
      PROVE  FALSE
  <2>1. PICK r \in Queue : m \in Range(items'[r])
    BY <1>6 DEF Queued
  <2>2. items'[r] \in Seq(Msg)
    BY <1>1, <1>2, <2>1 DEF QueueTypeOK
  <2>3. PICK i \in 1 .. Len(items'[r]) : items'[r][i] = m
    BY <2>1, <2>2 DEF Range
  <2>4. /\ Before(r, i) \in 1 .. Len(items[r]) /\ items[r][Before(r, i)] = m
        /\ r = q => Before(r, i) > 1
    BY <1>3, <2>3
  <2>5. 1 \in 1 .. Len(items[q]) /\ items[q][1] = m
    BY <1>2, <1>6
  <2> QED
    <3> HIDE DEF Before
    <3>1. r = q /\ Before(r, i) = 1
      BY <1>6, <2>4, <2>5 DEF OnePlace
    <3> QED
      BY <2>4, <3>1
<1> QED
  BY <1>4, <1>5, <1>6

-----------------------------------------------------------------------------
(* What leaves FreshOK(m) as it is.                                        *)
LEMMA FreshFrame ==
  ASSUME NEW m, FreshOK(m),
         status'[m] = status[m], target'[m] = target[m],
         retry_count'[m] = retry_count[m],
         delivered_to'[m] = delivered_to[m],
         m \notin dlq',
         \A c \in Client : m \notin replayed'[c],
         checker_m' = m => checker_m = m /\ checker_pc' = checker_pc,
         OnePlace(m)', Queued(m)' => Queued(m),
         \A c \in Client :
           cur_m'[c] = m /\ pc'[c] \in Active
             => cur_m[c] = m /\ pc'[c] = pc[c]
  PROVE  FreshOK(m)'
<1>1. ASSUME NEW c \in Client, cur_m'[c] = m, pc'[c] \in Active
      PROVE  cur_m[c] = m /\ pc'[c] = pc[c]
  BY <1>1
<1>2. ASSUME Untried(m)
      PROVE  Untried(m)'
  BY <1>1, <1>2 DEF Untried, Settling, Active
<1>3. ASSUME NEW c \in Client, cur_m'[c] = m
      PROVE  SoleUser(c, m)'
  <2>1. CASE pc'[c] \notin Active
    BY <2>1 DEF SoleUser, Settling, Active
  <2>2. CASE pc'[c] \in Active
    <3>1. cur_m[c] = m /\ pc'[c] = pc[c] /\ SoleUser(c, m)
      BY <1>1, <1>3, <2>2 DEF FreshOK
    <3>2. pc'[c] = "consume_mark" =>
            /\ Untried(m)' /\ ~Queued(m)'
            /\ \A d \in Client : Takes(d, m)' => d = c
      BY <1>1, <1>2, <3>1 DEF SoleUser, Takes, Active
    <3>3. Settling(c)' =>
            /\ delivered_to'[m] \in {c, Nil}
            /\ \A d \in Client : Settling(d)' /\ cur_m'[d] = m => d = c
      BY <1>1, <3>1 DEF SoleUser, Settling, Active
    <3> QED
      BY <3>1, <3>2, <3>3 DEF SoleUser
  <2> QED
    BY <2>1, <2>2
<1> QED
  BY <1>2, <1>3 DEF FreshOK

(* A thread that moves with another message in hand, or with none.         *)
LEMMA OthersMove ==
  ASSUME TypeOK, NEW c \in Client, NEW step, NEW n, NEW q, GoTo(c, step, n, q),
         NEW m, n # m \/ step \notin Active
  PROVE  \A d \in Client :
           cur_m'[d] = m /\ pc'[d] \in Active => cur_m[d] = m /\ pc'[d] = pc[d]
BY DEF GoTo, TypeOK, ThreadTypeOK

(* A step of a thread that changes no message and no place of one.         *)
LEMMA QuietFresh ==
  ASSUME TypeOK, FreshDelivery, NEW c \in Client,
         NEW step, NEW n, NEW q, GoTo(c, step, n, q),
         step \notin Active \/ n \notin Msg,
         UNCHANGED <<items, msgVars, dlq, checkerVars>>,
         \A d \in Client : replayed'[d] \subseteq replayed[d],
         Fresh' \subseteq Fresh
  PROVE  FreshDelivery'
<1> SUFFICES ASSUME NEW m \in Fresh'
             PROVE  FreshOK(m)'
  BY DEF FreshDelivery
<1>1. FreshOK(m) /\ m \in Msg
  BY DEF FreshDelivery, Fresh, TypeOK, MessageTypeOK
<1>2. \A d \in Client :
        cur_m'[d] = m /\ pc'[d] \in Active => cur_m[d] = m /\ pc'[d] = pc[d]
  BY <1>1, OthersMove
<1>3. OnePlace(m)' /\ (Queued(m)' => Queued(m))
  BY <1>1, PlacesStay DEF FreshOK
<1>4. m \notin dlq' /\ \A d \in Client : m \notin replayed'[d]
  BY <1>1 DEF FreshOK
<1> QED
  BY <1>1, <1>2, <1>3, <1>4, FreshFrame

(* A step of a thread that takes the fresh message m in hand, of which it  *)
(* is the sole user then.                                                  *)
LEMMA HandFresh ==
  ASSUME TypeOK, FreshDelivery, NEW c \in Client,
         NEW step, NEW n \in Msg, NEW q, GoTo(c, step, n, q),
         UNCHANGED <<items, msgVars, dlq, checkerVars, replayed>>,
         Fresh' \subseteq Fresh,
         n \in Fresh => FreshOK(n)'
  PROVE  FreshDelivery'
<1> SUFFICES ASSUME NEW m \in Fresh', m # n
             PROVE  FreshOK(m)'
  BY DEF FreshDelivery
<1>1. FreshOK(m) /\ m \in Msg
  BY DEF FreshDelivery, Fresh, TypeOK, MessageTypeOK
<1>2. \A d \in Client :
        cur_m'[d] = m /\ pc'[d] \in Active => cur_m[d] = m /\ pc'[d] = pc[d]
  BY <1>1, OthersMove
<1>3. OnePlace(m)' /\ (Queued(m)' => Queued(m))
  BY <1>1, PlacesStay DEF FreshOK
<1>4. m \notin dlq' /\ \A d \in Client : m \notin replayed'[d]
  BY <1>1 DEF FreshOK
<1> QED
  BY <1>1, <1>2, <1>3, <1>4, FreshFrame

(* Its holder begins to acknowledge or to refuse a delivered message.      *)
LEMMA SettleFresh ==
  ASSUME TypeOK, FreshDelivery, NEW c \in Client, NEW m \in Msg, Holds(c, m),
         NEW step \in {"ack_set", "nack_set"}, GoTo(c, step, m, Nil),
         UNCHANGED <<items, msgVars, dlq, checkerVars, replayed>>,
         Fresh' \subseteq Fresh
  PROVE  FreshDelivery'
<1> SUFFICES ASSUME m \in Fresh
             PROVE  FreshOK(m)'
  BY HandFresh
<1>1. FreshOK(m) /\ status[m] = "DELIVERED" /\ delivered_to[m] = c
      /\ retry_count[m] = 0
  BY DEF FreshDelivery, FreshOK, Holds
<1>2. c # Nil
  BY BrokerAssumption
<1>3. ~Queued(m) /\ ~InHand(m)
  BY <1>1 DEF FreshOK, Untried, SoleUser, InHand, Takes
<1>4. \A d \in Client : Settling(d) /\ cur_m[d] = m => d = c
  BY <1>1, <1>2 DEF FreshOK, SoleUser
<1>5. \A d \in Client : /\ cur_m'[d] = IF d = c THEN m ELSE cur_m[d]
                        /\ pc'[d] = IF d = c THEN step ELSE pc[d]
  BY DEF GoTo, TypeOK, ThreadTypeOK
<1>6. ASSUME NEW d \in Client, cur_m'[d] = m
      PROVE  SoleUser(d, m)'
  <2>1. ~Takes(d, m)'
    BY <1>3, <1>5 DEF Takes, InHand
  <2>2. Settling(d)' => d = c
    BY <1>4, <1>5, <1>6 DEF Settling
  <2>3. \A e \in Client : Settling(e)' /\ cur_m'[e] = m => e = c
    BY <1>4, <1>5 DEF Settling
  <2>4. pc'[d] \notin {"nack_dlq", "replay_reset", "replay_enqueue"}
    BY <1>1, <1>5, <1>6 DEF FreshOK, SoleUser
  <2>5. pc'[d] = "nack_set" =>
          /\ retry_count'[m] <= 1
          /\ checker_m' = m => retry_count'[m] = 0
    BY <1>1
  <2>6. Settling(d)' => delivered_to'[m] \in {d, Nil}
    BY <1>1, <2>2
  <2> QED
    BY <1>6, <2>1, <2>2, <2>3, <2>4, <2>5, <2>6 DEF SoleUser, Takes
<1>7. OnePlace(m)' /\ ~Queued(m)'
  BY <1>1, <1>3, PlacesStay DEF FreshOK
<1> QED
  BY <1>1, <1>6, <1>7 DEF FreshOK
(* What a step does to a message that it is not about.                     *)
FieldsStay(m) ==
  /\ status'[m] = status[m] /\ target'[m] = target[m]
  /\ retry_count'[m] = retry_count[m] /\ delivered_to'[m] = delivered_to[m]

Undisturbed(m) ==
  /\ FieldsStay(m)
  /\ m \in dlq' => m \in dlq
  /\ \A c \in Client : m \in replayed'[c] => m \in replayed[c]
  /\ checker_m' = m => checker_m = m /\ checker_pc' = checker_pc
  /\ OnePlace(m) => OnePlace(m)'
  /\ Queued(m)' => Queued(m)
  /\ \A c \in Client :
       cur_m'[c] = m /\ pc'[c] \in Active => cur_m[c] = m /\ pc'[c] = pc[c]

LEMMA OneFresh ==
  ASSUME TypeOK, FreshDelivery, NEW x,
         Fresh' \ {x} \subseteq Fresh,
         \A m \in Fresh \ {x} : Undisturbed(m),
         x \in Fresh' => FreshOK(x)'
  PROVE  FreshDelivery'
<1> SUFFICES ASSUME NEW m \in Fresh', m # x
             PROVE  FreshOK(m)'
  BY DEF FreshDelivery
<1>1. FreshOK(m) /\ Undisturbed(m)
  BY DEF FreshDelivery
<1>2. OnePlace(m)' /\ m \notin dlq' /\ \A d \in Client : m \notin replayed'[d]
  BY <1>1 DEF FreshOK, Undisturbed
<1>3. /\ Queued(m)' => Queued(m)
      /\ checker_m' = m => checker_m = m /\ checker_pc' = checker_pc
      /\ \A c \in Client :
           cur_m'[c] = m /\ pc'[c] \in Active => cur_m[c] = m /\ pc'[c] = pc[c]
      /\ FieldsStay(m)
  BY <1>1 DEF Undisturbed
<1> QED
  BY <1>1, <1>2, <1>3, FreshFrame DEF FieldsStay

(* A step of a thread that is about no fresh message but x, which it may   *)
(* have in hand.                                                           *)
LEMMA ThreadFresh ==
  ASSUME TypeOK, FreshDelivery, NEW c \in Client, NEW x,
         NEW step, NEW n, NEW q, GoTo(c, step, n, q),
         n = x \/ step \notin Active \/ n \notin Msg,
         Fresh' \ {x} \subseteq Fresh,
         \A m \in Msg \ {x} : FieldsStay(m),
         dlq' \subseteq dlq \cup {x},
         \A d \in Client : replayed'[d] \subseteq replayed[d] \cup {x},
         \A m \in Msg \ {x} :
           (OnePlace(m) => OnePlace(m)') /\ (Queued(m)' => Queued(m)),
         UNCHANGED checkerVars,
         x \in Fresh' => FreshOK(x)'
  PROVE  FreshDelivery'
<1> SUFFICES ASSUME NEW m \in Fresh \ {x}
             PROVE  Undisturbed(m)
  BY OneFresh
<1>1. m \in Msg
  BY DEF Fresh, TypeOK, MessageTypeOK
<1>2. \A d \in Client :
        cur_m'[d] = m /\ pc'[d] \in Active => cur_m[d] = m /\ pc'[d] = pc[d]
  BY <1>1, OthersMove
<1> QED
  BY <1>1, <1>2 DEF Undisturbed

LEMMA NilNotFresh == TypeOK => Nil \notin messages
BY BrokerAssumption DEF TypeOK, MessageTypeOK

(* A step in which no thread moves and no message changes.                 *)
LEMMA RestFresh ==
  ASSUME TypeOK, FreshDelivery, Fresh' \subseteq Fresh,
         UNCHANGED <<pc, cur_m, replayed, msgVars, dlq>>,
         \A m \in Msg :
           /\ OnePlace(m) => OnePlace(m)'
           /\ Queued(m)' => Queued(m)
           /\ checker_m' = m /\ m \in Fresh
                => checker_m = m /\ checker_pc' = checker_pc
  PROVE  FreshDelivery'
<1> SUFFICES ASSUME NEW m \in Fresh
             PROVE  Undisturbed(m)
  BY OneFresh, NilNotFresh DEF Fresh
<1>1. m \in Msg
  BY DEF Fresh, TypeOK, MessageTypeOK
<1> QED
  BY <1>1 DEF Undisturbed, FieldsStay

-----------------------------------------------------------------------------
(* A message that is registered but not queued yet.                        *)
LEMMA EnteringFresh ==
  ASSUME TypeOK, RegInv, FreshDelivery, NEW c \in Client, Entering(c)
  PROVE  LET m == cur_m[c] IN
         /\ m \in Fresh /\ FreshOK(m) /\ Untried(m) /\ ~Queued(m)
         /\ \A d \in Client : d # c => cur_m[d] # m
<1> DEFINE m == cur_m[c]
<1>1. OnlySenderKnows(c, m)
  BY DEF RegInv, EnteringUnknown
<1>2. m \in Fresh /\ FreshOK(m) /\ ~Queued(m)
  BY <1>1 DEF OnlySenderKnows, Fresh, FreshDelivery, Queued
<1>3. Untried(m)
  BY <1>1 DEF OnlySenderKnows, Untried, Settling, Entering
<1> QED
  BY <1>1, <1>2, <1>3 DEF OnlySenderKnows

LEMMA RegisterFresh ==
  ASSUME TypeOK, RegInv, FreshDelivery, NEW c \in Client, NEW q \in Queue,
         NEW m \in Msg, SendRegister(c, q, m)
  PROVE  FreshDelivery'
<1>1. /\ m \notin messages /\ sent[m] = "none"
      /\ GoTo(c, "send_enqueue", m, q)
      /\ messages' = messages \cup {m}
      /\ target' = [target EXCEPT ![m] = q]
      /\ UNCHANGED <<items, status, retry_count, delivered_to, dlq, aged,
                     replayed, checkerVars>>
  BY DEF SendRegister
<1>2. Fresh' \ {m} \subseteq Fresh
  BY <1>1 DEF Fresh
<1>3. "send_enqueue" \notin Active
  BY DEF Active
<1>4. \A n \in Msg \ {m} : FieldsStay(n)
  BY <1>1 DEF FieldsStay, TypeOK, MessageTypeOK
<1>5. \A n : (OnePlace(n) => OnePlace(n)') /\ (Queued(n)' <=> Queued(n))
  BY <1>1, PlacesStay
<1>6. FreshOK(m)'
  <2>1. /\ status'[m] = "PENDING" /\ retry_count'[m] = 0
        /\ m \notin dlq' /\ checker_m' # m /\ target'[m] = q
        /\ \A d \in Client : m \notin replayed'[d]
    BY <1>1, BrokerAssumption
       DEF RegInv, UnusedUntouched, NoDanglingIds, TypeOK, MessageTypeOK
  <2>2. \A r \in Queue : m \notin Range(items[r])
    BY <1>1 DEF RegInv, NoDanglingIds
  <2>3. ~Queued(m) /\ OnePlace(m)
    BY <2>2 DEF Queued, OnePlace, Range, TypeOK, QueueTypeOK
  <2>4. \A d \in Client : cur_m'[d] = m => pc'[d] = "send_enqueue"
    BY <1>1, BrokerAssumption
       DEF GoTo, RegInv, NoDanglingIds, TypeOK, ThreadTypeOK
  <2>5. \A d \in Client : cur_m'[d] = m => SoleUser(d, m)'
    BY <2>4 DEF SoleUser, Settling
  <2> QED
    BY <1>5, <2>1, <2>3, <2>5 DEF FreshOK
<1> QED
  BY <1>1, <1>2, <1>3, <1>4, <1>5, <1>6, ThreadFresh

LEMMA CommandFresh ==
  ASSUME TypeOK, RegInv, FreshDelivery, NEW c \in Client, Command(c)
  PROVE  FreshDelivery'
<1> USE PlacesStay DEF Fresh, Active
<1>1. ASSUME NEW q \in Queue, NEW n \in Sizes, CreateQueueCmd(c, q, n)
      PROVE  FreshDelivery'
  <2>1. \A m : (OnePlace(m) => OnePlace(m)') /\ (Queued(m)' => Queued(m))
    BY <1>1, PlacesCreate DEF CreateQueueCmd, TypeOK
  <2> QED
    BY <1>1, <2>1, RestFresh DEF CreateQueueCmd
<1>2. ASSUME NEW q \in Queue, DeleteQueueCmd(c, q)
      PROVE  FreshDelivery'
  BY <1>2, RestFresh DEF DeleteQueueCmd, DeleteQueue
<1>3. ASSUME NEW q \in Queue, NEW m \in Msg, SendRegister(c, q, m)
      PROVE  FreshDelivery'
  BY <1>3, RegisterFresh
<1>4. ASSUME NEW q \in Queue, ConsumeStart(c, q)
      PROVE  FreshDelivery'
  BY <1>4, QuietFresh DEF ConsumeStart
<1>5. ASSUME NEW m \in Msg, AckCheck(c, m)
      PROVE  FreshDelivery'
  <2>1. CASE Holds(c, m) /\ GoTo(c, "ack_set", m, Nil)
    BY <1>5, <2>1, SettleFresh DEF AckCheck
  <2>2. CASE UNCHANGED <<pc, cur_m, cur_q>>
    BY <1>5, <2>2, RestFresh DEF AckCheck
  <2> QED
    BY <1>5, <2>1, <2>2 DEF AckCheck
<1>6. ASSUME NEW m \in Msg, NackCheck(c, m)
      PROVE  FreshDelivery'
  BY <1>6, SettleFresh DEF NackCheck
<1>7. ASSUME NEW m \in Msg, ReplayStart(c, m)
      PROVE  FreshDelivery'
  BY <1>7, QuietFresh DEF ReplayStart
<1>8. ASSUME NEW S \in SUBSET messages \ {{}}, AckBatch(c, S)
      PROVE  FreshDelivery'
  BY <1>8, QuietFresh DEF AckBatch
<1>9. CASE ReplayAll(c)
  BY <1>9, QuietFresh DEF ReplayAll
<1>10. CASE Disconnect(c)
  <2>1. \A m \in Fresh : Undisturbed(m)
    BY <1>10 DEF Disconnect, Undisturbed, FieldsStay, TypeOK, ThreadTypeOK
  <2> QED
    BY <1>10, <2>1, OneFresh, NilNotFresh DEF Disconnect
<1> QED
  BY <1>1, <1>2, <1>3, <1>4, <1>5, <1>6, <1>7, <1>8, <1>9, <1>10 DEF Command

-----------------------------------------------------------------------------
(* The steps of a handler that move or mark its message.                   *)
LEMMA SendFresh ==
  ASSUME TypeOK, RegInv, FreshDelivery, NEW c \in Client, SendEnqueue(c),
         NEW q, q = cur_q[c], NEW m, m = cur_m[c]
  PROVE  FreshDelivery'
<1>1. /\ Entering(c) /\ m \in Msg
      /\ UNCHANGED <<messages, aged, msgVars, dlq, replayed, checkerVars>>
  BY DEF SendEnqueue, Entering, TypeOK, ThreadTypeOK, NeedsMessage
<1>2. /\ m \in Fresh /\ FreshOK(m) /\ Untried(m) /\ ~Queued(m)
      /\ \A d \in Client : d # c => cur_m[d] # m
  BY <1>1, EnteringFresh
<1>3. Fresh' = Fresh
  BY <1>1 DEF Fresh
<1>4. CASE Enqueue(q, m) /\ GoTo(c, "send_persist", m, Nil)
  <2>1. "send_persist" \notin Active
    BY DEF Active
  <2>2. /\ OnePlace(m)'
        /\ \A n \in Msg \ {m} :
             (OnePlace(n) => OnePlace(n)') /\ (Queued(n)' => Queued(n))
    BY <1>1, <1>2, <1>4, PlacesEnqueue DEF TypeOK
  <2>3. \A d \in Client :
          cur_m'[d] = m => d = c /\ pc'[d] = "send_persist"
    BY <1>2, <1>4 DEF GoTo, TypeOK, ThreadTypeOK
  <2>4. Untried(m)'
    BY <1>1, <1>2, <2>3 DEF Untried, Settling
  <2>5. \A d \in Client : cur_m'[d] = m => SoleUser(d, m)'
    BY <2>3 DEF SoleUser, Settling
  <2>6. FreshOK(m)'
    BY <1>1, <1>2, <2>2, <2>4, <2>5 DEF FreshOK
  <2>7. \A n \in Msg \ {m} : FieldsStay(n)
    BY <1>1 DEF FieldsStay
  <2> QED
    BY <1>1, <1>3, <1>4, <2>1, <2>2, <2>6, <2>7, ThreadFresh
<1>5. ASSUME NEW step \in {"idle", "send_delete"}, NEW n, NEW r,
             GoTo(c, step, n, r), UNCHANGED items
      PROVE  FreshDelivery'
  <2>1. step \notin Active
    BY DEF Active
  <2> QED
    BY <1>1, <1>3, <1>5, <2>1, QuietFresh
<1> QED
  BY <1>4, <1>5 DEF SendEnqueue, Return

LEMMA DequeueFresh ==
  ASSUME TypeOK, FreshDelivery, NEW c \in Client, ConsumeDequeue(c),
         NEW q, q = cur_q[c], NEW x, x = Head(items[q])
  PROVE  FreshDelivery'
<1>1. /\ q \in Queue
      /\ UNCHANGED <<messages, aged, msgVars, dlq, replayed, checkerVars>>
  BY DEF ConsumeDequeue, TypeOK, ThreadTypeOK, NeedsQueue
<1>2. Fresh' = Fresh
  BY <1>1 DEF Fresh
<1>3. CASE Dequeue(q) /\ GoTo(c, "consume_mark", x, q)
  <2>1. \A n : (OnePlace(n) => OnePlace(n)') /\ (Queued(n)' => Queued(n))
    BY <1>1, <1>3, PlacesDequeue DEF TypeOK
  <2>2. Queued(x) /\ (OnePlace(x) => ~Queued(x)')
    BY <1>1, <1>3, PlacesDequeue DEF TypeOK
  <2>3. \A n \in Msg \ {x} : FieldsStay(n)
    BY <1>1 DEF FieldsStay
  <2>4. ASSUME x \in Fresh
        PROVE  FreshOK(x)'
    <3>1. FreshOK(x) /\ Untried(x) /\ OnePlace(x)' /\ ~Queued(x)'
      BY <2>1, <2>2, <2>4 DEF FreshDelivery, FreshOK
    <3>2. \A d \in Client : cur_m[d] = x => pc[d] \notin Active
      BY <2>2, <3>1 DEF FreshOK, SoleUser, Untried, Settling, Active
    <3>3. \A d \in Client :
            /\ cur_m'[d] = IF d = c THEN x ELSE cur_m[d]
            /\ pc'[d] = IF d = c THEN "consume_mark" ELSE pc[d]
      BY <1>3 DEF GoTo, TypeOK, ThreadTypeOK
    <3>4. \A d \in Client : cur_m'[d] = x => pc'[d] \notin Active \/ d = c
      BY <3>2, <3>3
    <3>5. Untried(x)'
      BY <1>1, <3>1, <3>3, <3>4 DEF Untried, Settling, Active
    <3>6. ASSUME NEW d \in Client, cur_m'[d] = x
          PROVE  SoleUser(d, x)'
      <4>1. CASE d # c
        BY <3>4, <3>6, <4>1 DEF SoleUser, Settling, Active
      <4>2. CASE d = c
        <5>1. pc'[d] = "consume_mark"
          BY <3>3, <4>2
        <5>2. \A e \in Client : Takes(e, x)' => e = d
          BY <3>4, <4>2 DEF Takes, Active
        <5> QED
          BY <3>1, <3>5, <5>1, <5>2 DEF SoleUser, Settling
      <4> QED
        BY <4>1, <4>2
    <3> QED
      BY <1>1, <3>1, <3>5, <3>6 DEF FreshOK
  <2> QED
    BY <1>1, <1>2, <1>3, <2>1, <2>3, <2>4, ThreadFresh
<1>4. CASE Return(c) /\ UNCHANGED queueVars
  BY <1>1, <1>2, <1>4, QuietFresh DEF Return, Active
<1> QED
  BY <1>3, <1>4 DEF ConsumeDequeue

(* When nobody has x in hand any more, only its fields count.              *)
LEMMA ReleasedFresh ==
  ASSUME NEW x, x \notin dlq', status'[x] # "DLQ", target'[x] \in Queue,
         retry_count'[x] \in 0 .. 2,
         status'[x] = "DELIVERED" => retry_count'[x] = 0,
         checker_m' = x => checker_pc' = "timeout_act" /\ retry_count'[x] <= 1,
         OnePlace(x)', ~Queued(x)',
         \A d \in Client : x \notin replayed'[d],
         \A d \in Client : cur_m'[d] = x => pc'[d] \notin Active
  PROVE  FreshOK(x)'
BY DEF FreshOK, SoleUser, Settling, Active

LEMMA MarkFresh ==
  ASSUME TypeOK, FreshDelivery, NEW c \in Client, MarkDelivered(c),
         NEW m, m = cur_m[c]
  PROVE  FreshDelivery'
<1>1. /\ m \in Msg /\ pc[c] = "consume_mark"
      /\ UNCHANGED <<messages, aged, items, target, retry_count, dlq,
                     replayed, checkerVars>>
  BY DEF MarkDelivered, TypeOK, ThreadTypeOK, NeedsMessage
<1>2. Fresh' = Fresh
  BY <1>1 DEF Fresh
<1>3. \A n : (OnePlace(n) => OnePlace(n)') /\ (Queued(n)' <=> Queued(n))
  BY <1>1, PlacesStay
<1>4. CASE GoTo(c, "idle", Nil, Nil) /\ status' = [status EXCEPT ![m] = "DELIVERED"]
           /\ delivered_to' = [delivered_to EXCEPT ![m] = c]
  <2>1. \A n \in Msg \ {m} : FieldsStay(n)
    BY <1>1, <1>4 DEF FieldsStay, TypeOK, MessageTypeOK
  <2>2. ASSUME m \in Fresh
        PROVE  FreshOK(m)'
    <3>1. FreshOK(m) /\ SoleUser(c, m)
      BY <2>2 DEF FreshDelivery, FreshOK
    <3>2. Untried(m) /\ ~Queued(m)
      BY <1>1, <3>1 DEF SoleUser
    <3>3. \A d \in Client : cur_m[d] = m => d = c \/ pc[d] \notin Active
      BY <1>1, <3>1, <3>2 DEF FreshOK, SoleUser, Untried, Settling, Takes, Active
    <3>4. \A d \in Client : cur_m'[d] = m => pc'[d] \notin Active
      BY <1>4, <3>3 DEF GoTo, Active, TypeOK, ThreadTypeOK
    <3>5. status'[m] = "DELIVERED"
      BY <1>1, <1>4 DEF TypeOK, MessageTypeOK
    <3> QED
      BY <1>1, <1>3, <3>1, <3>2, <3>4, <3>5, ReleasedFresh DEF FreshOK, Untried
  <2>3. "idle" \notin Active
    BY DEF Active
  <2> QED
    BY <1>1, <1>2, <1>3, <1>4, <2>1, <2>2, <2>3, ThreadFresh
<1>5. CASE GoTo(c, "consume", Nil, cur_q[c]) /\ UNCHANGED msgVars
  <2>1. "consume" \notin Active
    BY DEF Active
  <2> QED
    BY <1>1, <1>2, <1>5, <2>1, QuietFresh
<1> QED
  BY <1>1, <1>4, <1>5 DEF MarkDelivered, Return

(* Nobody but the checker has anything to do with a message that its       *)
(* holder is about to settle.                                              *)
LEMMA SettlerAlone ==
  ASSUME FreshDelivery, NEW c \in Client, Settling(c),
         NEW m \in Fresh, m = cur_m[c]
  PROVE  /\ FreshOK(m) /\ SoleUser(c, m) /\ ~Queued(m)
         /\ \A d \in Client : cur_m[d] = m => d = c \/ pc[d] \notin Active
<1>1. FreshOK(m) /\ SoleUser(c, m)
  BY DEF FreshDelivery, FreshOK
<1>2. ~Queued(m)
  BY <1>1 DEF FreshOK, Untried
<1>3. ASSUME NEW d \in Client, cur_m[d] = m, d # c
      PROVE  pc[d] \notin Active
  <2>1. SoleUser(d, m)
    BY <1>1, <1>3 DEF FreshOK
  <2>2. ~Settling(d)
    BY <1>1, <1>3 DEF SoleUser
  <2>3. ~Untried(m)
    BY DEF Untried
  <2> QED
    BY <2>1, <2>2, <2>3 DEF SoleUser, Settling, Active
<1> QED
  BY <1>1, <1>2, <1>3

LEMMA AckFresh ==
  ASSUME TypeOK, FreshDelivery, NEW c \in Client, AckSet(c),
         NEW m, m = cur_m[c]
  PROVE  FreshDelivery'
<1>1. /\ m \in Msg /\ Settling(c)
      /\ status' = [status EXCEPT ![m] = "ACKED"]
      /\ UNCHANGED <<messages, aged, items, target, retry_count, delivered_to,
                     dlq, replayed, checkerVars>>
  BY DEF AckSet, Settling, TypeOK, ThreadTypeOK, NeedsMessage
<1>2. Fresh' = Fresh
  BY <1>1 DEF Fresh
<1>3. \A n : (OnePlace(n) => OnePlace(n)') /\ (Queued(n)' <=> Queued(n))
  BY <1>1, PlacesStay
<1>4. PICK step \in {"idle", "ack_batch"} : GoTo(c, step, Nil, Nil)
  BY DEF AckSet, Return
<1>5. step \notin Active
  BY DEF Active
<1>6. \A n \in Msg \ {m} : FieldsStay(n)
  BY <1>1 DEF FieldsStay, TypeOK, MessageTypeOK
<1>7. ASSUME m \in Fresh
      PROVE  FreshOK(m)'
  <2>1. /\ FreshOK(m) /\ ~Queued(m)
        /\ \A d \in Client : cur_m[d] = m => d = c \/ pc[d] \notin Active
    BY <1>1, <1>7, SettlerAlone
  <2>2. \A d \in Client : cur_m'[d] = m => pc'[d] \notin Active
    BY <1>4, <1>5, <2>1 DEF GoTo, TypeOK, ThreadTypeOK
  <2>3. status'[m] = "ACKED" /\ retry_count[m] \in Nat
    BY <1>1 DEF TypeOK, MessageTypeOK
  <2> QED
    BY <1>1, <1>3, <2>1, <2>2, <2>3, ReleasedFresh DEF FreshOK
<1> QED
  BY <1>1, <1>2, <1>3, <1>4, <1>5, <1>6, <1>7, ThreadFresh

LEMMA NackFresh ==
  ASSUME TypeOK, FreshDelivery, MaxRetries >= 2, NEW c \in Client, NackSet(c),
         NEW m, m = cur_m[c]
  PROVE  FreshDelivery'
<1>1. /\ m \in Msg /\ Settling(c) /\ pc[c] = "nack_set"
      /\ retry_count' = [retry_count EXCEPT ![m] = @ + 1]
      /\ UNCHANGED <<messages, aged, items, dlq, replayed, checkerVars>>
  BY DEF NackSet, Settling, TypeOK, ThreadTypeOK, NeedsMessage
<1>2. Fresh' = Fresh
  BY <1>1 DEF Fresh
<1>3. \A n : (OnePlace(n) => OnePlace(n)') /\ (Queued(n)' <=> Queued(n))
  BY <1>1, PlacesStay
<1>4. /\ retry_count[m] \in Nat /\ MaxRetries \in Nat
      /\ retry_count'[m] = retry_count[m] + 1
  BY <1>1, BrokerAssumption DEF TypeOK, MessageTypeOK
<1>5. PICK step \in {"idle", "nack_dlq"}, n \in {m, Nil} : GoTo(c, step, n, Nil)
  BY DEF NackSet, Return
<1>6. \A y \in Msg \ {m} : FieldsStay(y)
  BY <1>1 DEF NackSet, MakePending, MarkDead, FieldsStay, TypeOK, MessageTypeOK
<1>7. ASSUME m \in Fresh
      PROVE  FreshOK(m)'
  <2>1. /\ FreshOK(m) /\ SoleUser(c, m) /\ ~Queued(m)
        /\ \A d \in Client : cur_m[d] = m => d = c \/ pc[d] \notin Active
    BY <1>1, <1>7, SettlerAlone
  <2>2. retry_count[m] <= 1 /\ (checker_m = m => retry_count[m] = 0)
    BY <1>1, <2>1 DEF SoleUser
  <2>3. /\ MakePending(m) /\ Return(c) /\ UNCHANGED target
    BY <1>4, <2>2 DEF NackSet, Exhausted
  <2>4. \A d \in Client : cur_m'[d] = m => pc'[d] \notin Active
    BY <2>1, <2>3 DEF Return, GoTo, Active, TypeOK, ThreadTypeOK
  <2>5. status'[m] = "PENDING"
    BY <1>1, <2>3 DEF MakePending, TypeOK, MessageTypeOK
  <2>6. checker_m' = m => checker_pc' = "timeout_act" /\ retry_count'[m] <= 1
    BY <1>1, <1>4, <2>1, <2>2 DEF FreshOK
  <2>7. retry_count'[m] \in 0 .. 2
    BY <1>4, <2>2
  <2>8. /\ m \notin dlq' /\ target'[m] \in Queue /\ OnePlace(m)' /\ ~Queued(m)'
        /\ \A d \in Client : m \notin replayed'[d]
    BY <1>1, <1>3, <2>1, <2>3 DEF FreshOK
  <2> QED
    BY <2>4, <2>5, <2>6, <2>7, <2>8, ReleasedFresh
<1>8. n = m \/ n \notin Msg
  BY BrokerAssumption
<1> QED
  BY <1>1, <1>2, <1>3, <1>5, <1>6, <1>7, <1>8, ThreadFresh

(* A message in the hands of a REPLAY is not fresh.                        *)
LEMMA ReplayedNotFresh ==
  ASSUME FreshDelivery, NEW c \in Client, NEW m,
         \/ m \in dlq \/ m \in replayed[c]
         \/ /\ cur_m[c] = m
            /\ pc[c] \in {"nack_dlq", "replay_reset", "replay_enqueue"}
  PROVE  m \notin Fresh
BY DEF FreshDelivery, FreshOK, SoleUser

LEMMA ResetFresh ==
  ASSUME TypeOK, FreshDelivery, NEW c \in Client, ReplayReset(c),
         NEW m, m = cur_m[c]
  PROVE  FreshDelivery'
<1>1. /\ m \in Msg /\ m \notin Fresh
      /\ UNCHANGED <<messages, aged, items, dlq, checkerVars>>
      /\ replayed' = [replayed EXCEPT ![c] = @ \cup {m}]
  BY ReplayedNotFresh
     DEF ReplayReset, ReplayGoesOn, TypeOK, ThreadTypeOK, NeedsMessage
<1>2. Fresh' = Fresh
  BY <1>1 DEF Fresh
<1>3. \A n : (OnePlace(n) => OnePlace(n)') /\ (Queued(n)' <=> Queued(n))
  BY <1>1, PlacesStay
<1>4. PICK step \in {"replay_pop", "replay_route", "idle"} :
        GoTo(c, step, Nil, Nil)
  BY Zenon DEF ReplayReset, ReplayGoesOn
<1>5. step \notin Active
  BY DEF Active
<1>6. \A n \in Msg \ {m} : FieldsStay(n)
  BY <1>1 DEF ReplayReset, MakePending, FieldsStay, TypeOK, MessageTypeOK
<1>7. \A d \in Client : replayed'[d] \subseteq replayed[d] \cup {m}
  BY <1>1 DEF TypeOK, IdSetsTypeOK
<1> QED
  BY <1>1, <1>2, <1>3, <1>4, <1>5, <1>6, <1>7, ThreadFresh

LEMMA RouteFresh ==
  ASSUME TypeOK, RegInv, FreshDelivery, NEW c \in Client, NEW m \in Msg,
         ReplayRoute(c, m)
  PROVE  FreshDelivery'
<1>1. /\ m \notin Fresh /\ messages' = messages
      /\ UNCHANGED <<aged, items, msgVars, dlq, checkerVars>>
  BY ReplayedNotFresh DEF ReplayRoute, RegInv, NoDanglingIds
<1>2. Fresh' = Fresh
  BY <1>1 DEF Fresh
<1>3. \A n : (OnePlace(n) => OnePlace(n)') /\ (Queued(n)' <=> Queued(n))
  BY <1>1, PlacesStay
<1>4. PICK step \in {"idle", "replay_route", "replay_enqueue"}, n \in {m, Nil} :
        GoTo(c, step, n, Nil)
  BY DEF ReplayRoute, ReplayQueuesNext, Return
<1>5. \A d \in Client : replayed'[d] \subseteq replayed[d]
  BY DEF ReplayRoute, ReplayQueuesNext, TypeOK, IdSetsTypeOK
<1>6. \A y \in Msg \ {m} : FieldsStay(y)
  BY <1>1 DEF FieldsStay
<1>7. n = m \/ n \notin Msg
  BY BrokerAssumption
<1> QED
  BY <1>1, <1>2, <1>3, <1>4, <1>5, <1>6, <1>7, ThreadFresh

LEMMA RequeueFresh ==
  ASSUME TypeOK, FreshDelivery, NEW c \in Client, ReplayEnqueue(c),
         NEW m, m = cur_m[c], NEW q, q = target[m]
  PROVE  FreshDelivery'
<1>1. /\ m \in Msg /\ m \notin Fresh
      /\ UNCHANGED <<messages, aged, msgVars, dlq, checkerVars>>
  BY ReplayedNotFresh DEF ReplayEnqueue, TypeOK, ThreadTypeOK, NeedsMessage
<1>2. Fresh' = Fresh
  BY <1>1 DEF Fresh
<1>3. \A n \in Msg \ {m} :
        (OnePlace(n) => OnePlace(n)') /\ (Queued(n)' => Queued(n))
  <2>1. CASE Enqueue(q, m)
    BY <1>1, <2>1, PlacesEnqueue DEF TypeOK
  <2>2. CASE UNCHANGED items
    BY <2>2, PlacesStay
  <2> QED
    BY <2>1, <2>2 DEF ReplayEnqueue
<1>4. PICK step \in {"idle", "replay_route"} : GoTo(c, step, Nil, Nil)
  BY DEF ReplayEnqueue, ReplayQueuesNext, Return
<1>5. \A d \in Client : replayed'[d] \subseteq replayed[d]
  BY DEF ReplayEnqueue, ReplayQueuesNext, TypeOK, IdSetsTypeOK
<1>6. \A y \in Msg \ {m} : FieldsStay(y)
  BY <1>1 DEF FieldsStay
<1>7. step \notin Active
  BY DEF Active
<1> QED
  BY <1>1, <1>2, <1>3, <1>4, <1>5, <1>6, <1>7, ThreadFresh

LEMMA RunFresh ==
  ASSUME TypeOK, RegInv, FreshDelivery, MaxRetries >= 2,
         NEW c \in Client, RunsOn(c)
  PROVE  FreshDelivery'
<1>1. CASE SendDelete(c) \/ SendPersist(c)
  <2>1. GoTo(c, "idle", Nil, Nil) /\ "idle" \notin Active
    BY <1>1 DEF SendDelete, SendPersist, Return, Active
  <2>2. /\ Fresh' \subseteq Fresh
        /\ UNCHANGED <<items, msgVars, dlq, checkerVars, replayed>>
    BY <1>1 DEF SendDelete, SendPersist, Fresh
  <2> QED
    BY <2>1, <2>2, QuietFresh
<1>2. ASSUME NEW m \in Msg, AckBatchCheck(c, m)
      PROVE  FreshDelivery'
  <2>1. /\ Fresh' = Fresh
        /\ UNCHANGED <<items, msgVars, dlq, checkerVars, replayed>>
    BY <1>2 DEF AckBatchCheck, Fresh
  <2>2. CASE Holds(c, m) /\ GoTo(c, "ack_set", m, Nil)
    BY <2>1, <2>2, SettleFresh
  <2>3. ASSUME NEW step \in {"idle", "ack_batch"}, GoTo(c, step, Nil, Nil)
        PROVE  FreshDelivery'
    BY <2>1, <2>3, QuietFresh DEF Active
  <2> QED
    BY <1>2, <2>2, <2>3 DEF AckBatchCheck, Return
<1> QED
  BY <1>1, <1>2, SendFresh, DequeueFresh, MarkFresh, AckFresh, NackFresh,
     ResetFresh, RouteFresh, RequeueFresh
     DEF RunsOn

LEMMA LockFresh ==
  ASSUME TypeOK, RegInv, FreshDelivery, NEW c \in Client, TakesLock(c)
  PROVE  FreshDelivery'
<1>1. CASE NackInsert(c)
  <2>1. PICK m : m = cur_m[c]
    OBVIOUS
  <2>2. /\ m \notin Fresh /\ dlq' = dlq \cup {m}
        /\ GoTo(c, "idle", Nil, Nil)
        /\ UNCHANGED <<messages, aged, items, msgVars, replayed, checkerVars>>
    BY <1>1, <2>1, ReplayedNotFresh DEF NackInsert, Return
  <2>3. Fresh' = Fresh /\ "idle" \notin Active
    BY <2>2 DEF Fresh, Active
  <2>4. \A n : (OnePlace(n) => OnePlace(n)') /\ (Queued(n)' <=> Queued(n))
    BY <2>2, PlacesStay
  <2>5. \A n \in Msg \ {m} : FieldsStay(n)
    BY <2>2 DEF FieldsStay
  <2> QED
    BY <2>2, <2>3, <2>4, <2>5, ThreadFresh
<1>2. ASSUME NEW m \in Msg, ReplayPop(c, m)
      PROVE  FreshDelivery'
  <2>1. UNCHANGED <<messages, aged, items, msgVars, checkerVars>>
    BY <1>2 DEF ReplayPop
  <2>2. Fresh' = Fresh
    BY <2>1 DEF Fresh
  <2>3. CASE m \in dlq /\ GoTo(c, "replay_reset", m, Nil)
             /\ UNCHANGED <<todo, replayed>>
    <3>1. m \notin Fresh /\ dlq' = dlq \ {m}
      BY <1>2, <2>3, ReplayedNotFresh DEF ReplayPop
    <3>2. \A n : (OnePlace(n) => OnePlace(n)') /\ (Queued(n)' <=> Queued(n))
      BY <2>1, PlacesStay
    <3>3. \A n \in Msg \ {m} : FieldsStay(n)
      BY <2>1 DEF FieldsStay
    <3> QED
      BY <2>1, <2>2, <2>3, <3>1, <3>2, <3>3, ThreadFresh
  <2>4. CASE m \notin dlq /\ ReplayGoesOn(c, todo[c] \ {m}, replayed[c])
    <3>1. PICK step \in {"replay_pop", "replay_route", "idle"} :
            GoTo(c, step, Nil, Nil)
      BY <2>4, Zenon DEF ReplayGoesOn
    <3>2. dlq' = dlq
      BY <1>2, <2>4 DEF ReplayPop
    <3>3. replayed' = replayed
      BY <2>4 DEF ReplayGoesOn, TypeOK, IdSetsTypeOK
    <3>4. step \notin Active
      BY DEF Active
    <3> QED
      BY <2>1, <2>2, <3>1, <3>2, <3>3, <3>4, QuietFresh
  <2> QED
    BY <1>2, <2>3, <2>4 DEF ReplayPop
<1>3. ASSUME NEW t \in Queue \cup {DLQ}, ReplayFind(c, t)
      PROVE  FreshDelivery'
  <2>1. UNCHANGED <<messages, aged, items, msgVars, checkerVars, dlq, replayed>>
    BY <1>3 DEF ReplayFind
  <2>2. Fresh' = Fresh
    BY <2>1 DEF Fresh
  <2>3. PICK step \in {"idle", "replay_pop"} : GoTo(c, step, Nil, Nil)
    BY <1>3, Zenon DEF ReplayFind
  <2>4. step \notin Active
    BY DEF Active
  <2> QED
    BY <2>1, <2>2, <2>3, <2>4, QuietFresh
<1> QED
  BY <1>1, <1>2, <1>3 DEF TakesLock

-----------------------------------------------------------------------------
(* The steps of the checker.                                               *)
LEMMA ScanFresh ==
  ASSUME TypeOK, FreshDelivery, NEW m \in Msg, ScanTimeout(m)
  PROVE  FreshDelivery'
<1>1. /\ Fresh' = Fresh
      /\ UNCHANGED <<items, msgVars, dlq, replayed, pc, cur_m>>
  BY DEF ScanTimeout, Fresh
<1>2. \A n : (OnePlace(n) => OnePlace(n)') /\ (Queued(n)' <=> Queued(n))
  BY <1>1, PlacesStay
<1>3. CASE UNCHANGED <<checker_pc, checker_m>>
  BY <1>1, <1>2, <1>3, RestFresh
<1>4. CASE status[m] = "DELIVERED" /\ checker_m' = m /\ checker_pc' = "timeout_act"
  <2>1. \A n \in Fresh \ {m} : Undisturbed(n)
    BY <1>1, <1>2, <1>4 DEF Undisturbed, FieldsStay
  <2>2. ASSUME m \in Fresh
        PROVE  FreshOK(m)'
    <3>1. FreshOK(m) /\ retry_count[m] = 0 /\ ~Untried(m)
      BY <1>4, <2>2 DEF FreshDelivery, FreshOK, Untried
    <3>2. \A d \in Client : cur_m'[d] = m => SoleUser(d, m)'
      BY <1>1, <3>1 DEF FreshOK, SoleUser, Settling
    <3> QED
      BY <1>1, <1>2, <1>4, <3>1, <3>2 DEF FreshOK
  <2> QED
    BY <1>1, <2>1, <2>2, OneFresh
<1> QED
  BY <1>3, <1>4 DEF ScanTimeout, CheckerGoes

LEMMA TimeoutFresh ==
  ASSUME TypeOK, FreshDelivery, MaxRetries >= 2, TimeoutAct,
         NEW m, m = checker_m
  PROVE  FreshDelivery'
<1>1. /\ m \in Msg /\ checker_pc = "timeout_act"
      /\ retry_count' = [retry_count EXCEPT ![m] = @ + 1]
      /\ UNCHANGED <<messages, aged, items, dlq, replayed, pc, cur_m>>
  BY DEF TimeoutAct, TypeOK, CheckerTypeOK
<1>2. Fresh' = Fresh
  BY <1>1 DEF Fresh
<1>3. \A n : (OnePlace(n) => OnePlace(n)') /\ (Queued(n)' <=> Queued(n))
  BY <1>1, PlacesStay
<1>4. /\ retry_count[m] \in Nat /\ MaxRetries \in Nat
      /\ retry_count'[m] = retry_count[m] + 1
  BY <1>1, BrokerAssumption DEF TypeOK, MessageTypeOK
<1>5. checker_m' \in {m, Nil}
  BY DEF TimeoutAct, CheckerGoes
<1>6. \A y \in Msg \ {m} : FieldsStay(y)
  BY <1>1
     DEF TimeoutAct, MakePending, MarkDead, FieldsStay, TypeOK, MessageTypeOK
<1>7. \A n \in Fresh \ {m} : n \in Msg /\ n # Nil
  BY BrokerAssumption DEF Fresh, TypeOK, MessageTypeOK
<1>8. \A n \in Fresh \ {m} : Undisturbed(n)
  BY <1>1, <1>3, <1>5, <1>6, <1>7 DEF Undisturbed
<1>9. ASSUME m \in Fresh
      PROVE  FreshOK(m)'
  <2>1. FreshOK(m) /\ retry_count[m] <= 1 /\ ~Untried(m) /\ ~Queued(m)
    BY <1>9 DEF FreshDelivery, FreshOK, Untried
  <2>2. /\ MakePending(m) /\ checker_m' = Nil /\ UNCHANGED target
    BY <1>4, <2>1 DEF TimeoutAct, CheckerGoes, Exhausted
  <2>3. /\ status'[m] = "PENDING" /\ delivered_to'[m] = Nil
        /\ checker_m' # m
    BY <1>1, <2>2, BrokerAssumption DEF MakePending, TypeOK, MessageTypeOK
  <2>4. ASSUME NEW d \in Client, cur_m[d] = m
        PROVE  SoleUser(d, m)'
    <3>1. SoleUser(d, m) /\ pc[d] # "consume_mark"
      BY <2>1, <2>4 DEF FreshOK, SoleUser
    <3>2. pc[d] = "nack_set" => retry_count'[m] <= 1
      BY <1>4, <3>1 DEF SoleUser
    <3> QED
      BY <1>1, <2>3, <3>1, <3>2 DEF SoleUser, Settling
  <2>5. retry_count'[m] <= 2
    BY <1>4, <2>1
  <2> QED
    BY <1>1, <1>3, <2>1, <2>2, <2>3, <2>4, <2>5 DEF FreshOK
<1> QED
  BY <1>2, <1>8, <1>9, OneFresh

LEMMA ExpireFresh ==
  ASSUME TypeOK, FreshDelivery, TtlMove \/ TtlInsert, NEW m, m = checker_m
  PROVE  FreshDelivery'
<1>1. /\ m \in Msg /\ checker_pc \in {"ttl_move", "ttl_insert"}
      /\ UNCHANGED <<messages, aged, items, replayed, pc, cur_m>>
      /\ dlq' \subseteq dlq \cup {m}
  BY DEF TtlMove, TtlInsert, TypeOK, CheckerTypeOK
<1>2. Fresh' = Fresh /\ m \notin Fresh
  BY <1>1 DEF Fresh, FreshDelivery, FreshOK
<1>3. \A n : (OnePlace(n) => OnePlace(n)') /\ (Queued(n)' <=> Queued(n))
  BY <1>1, PlacesStay
<1>4. checker_m' \in {m, Nil}
  BY DEF TtlMove, TtlInsert, CheckerGoes
<1>5. \A y \in Msg \ {m} : FieldsStay(y)
  BY <1>1 DEF TtlMove, TtlInsert, MarkDead, FieldsStay, TypeOK, MessageTypeOK
<1>6. \A n \in Fresh \ {m} : n \in Msg /\ n # Nil
  BY BrokerAssumption DEF Fresh, TypeOK, MessageTypeOK
<1>7. \A n \in Fresh \ {m} : Undisturbed(n)
  BY <1>1, <1>3, <1>4, <1>5, <1>6 DEF Undisturbed
<1> QED
  BY <1>2, <1>7, OneFresh

LEMMA CheckerFresh ==
  ASSUME TypeOK, FreshDelivery, MaxRetries >= 2, CheckerStep
  PROVE  FreshDelivery'
<1> USE PlacesStay, NilNotFresh DEF Fresh, CheckerGoes
<1>1. CASE BeginPass
  BY <1>1, RestFresh DEF BeginPass
<1>2. CASE EndTimeouts
  BY <1>2, RestFresh DEF EndTimeouts, EndPass
<1>3. CASE ScanBroken
  BY <1>3, RestFresh DEF ScanBroken, EndPass
<1>4. CASE EndTtl
  BY <1>4, RestFresh DEF EndTtl, EndPass
<1>5. ASSUME NEW m \in Msg, ScanTtl(m)
      PROVE  FreshDelivery'
  BY <1>5, RestFresh DEF ScanTtl
<1> QED
  BY <1>1, <1>2, <1>3, <1>4, <1>5, ScanFresh, TimeoutFresh, ExpireFresh
     DEF CheckerStep

LEMMA FreshStep ==
  MaxRetries >= 2 /\ TypeOK /\ RegInv /\ FreshDelivery /\ [Next]_vars
    => FreshDelivery'
<1> SUFFICES ASSUME MaxRetries >= 2, TypeOK, RegInv, FreshDelivery, [Next]_vars
             PROVE  FreshDelivery'
  OBVIOUS
<1>1. CASE ClockStep \/ UNCHANGED vars
  BY <1>1, PlacesStay, RestFresh DEF ClockStep, Elapse, Age, Fresh, vars
<1> QED
  BY <1>1, CommandFresh, RunFresh, LockFresh, CheckerFresh DEF Next

LEMMA InitFresh == Init => FreshDelivery
BY DEF Init, FreshDelivery, Fresh

LEMMA FreshAlways == MaxRetries >= 2 => (Spec => []FreshDelivery)
<1> SUFFICES ASSUME MaxRetries >= 2
             PROVE  Spec => []FreshDelivery
  OBVIOUS
<1>1. TypeOK /\ RegInv /\ FreshDelivery /\ [Next]_vars => FreshDelivery'
  BY FreshStep
<1> QED
  BY <1>1, InitTypes, TypeStep, InitReg, RegStep, InitFresh, PTL DEF Spec

-----------------------------------------------------------------------------
(* What the invariant says, in the terms of the promises.                  *)
LEMMA FreshMeansSingle == FreshDelivery => SingleCopy
<1> SUFFICES ASSUME FreshDelivery, NEW m \in Fresh
             PROVE  /\ OnePlace(m)
                    /\ \A c1, c2 \in Client :
                         Takes(c1, m) /\ Takes(c2, m) => c1 = c2
                    /\ ~(Queued(m) /\ InHand(m))
                    /\ Queued(m) \/ InHand(m) => status[m] = "PENDING"
  BY DEF SingleCopy
<1>1. FreshOK(m)
  BY DEF FreshDelivery
<1>2. ASSUME NEW c \in Client, Takes(c, m)
      PROVE  Untried(m) /\ ~Queued(m) /\ \A d \in Client : Takes(d, m) => d = c
  BY <1>1, <1>2 DEF FreshOK, SoleUser, Takes
<1> QED
  BY <1>1, <1>2 DEF FreshOK, Untried, InHand

LEMMA FreshMeansUncontested == FreshDelivery => HolderUncontested
BY DEF FreshDelivery, FreshOK, SoleUser, HolderUncontested

(* A message inside its time to live is never in two places, nor in a      *)
(* queue or on its way to a consumer while it is delivered, acknowledged   *)
(* or in the DLQ.                                                          *)
THEOREM DeliveredOnce == MaxRetries >= 2 => (Spec => []SingleCopy)
BY FreshAlways, FreshMeansSingle, PTL

(* Two consumers are never about to settle one message: the unlocked test  *)
(* and assignment of ack and nack race with the checker only.              *)
THEOREM OneHolder == MaxRetries >= 2 => (Spec => []HolderUncontested)
BY FreshAlways, FreshMeansUncontested, PTL

-----------------------------------------------------------------------------
(* A message that was accepted is not lost before its first redelivery.    *)

(* FreshPresent, taken apart: who should be somewhere, and where.          *)
Owed(m) ==
  /\ ~RefusedSent(m)
  /\ \A c \in Client : Entering(c) => cur_m[c] # m
  /\ retry_count[m] = 0

Present(m) == Queued(m) \/ InHand(m) \/ status[m] \in {"DELIVERED", "ACKED"}

LEMMA PresentMeans == FreshPresent <=> \A m \in Fresh : Owed(m) => Present(m)
BY DEF FreshPresent, Owed, Present

-----------------------------------------------------------------------------
(* A message being stored is known to have no answer yet, and it is stored *)
(* by one handler: the answer that its SEND gets is the only one.          *)
Storing(c) == pc[c] = "send_persist"

OneStorer ==
  \A c \in Client : Storing(c) =>
    /\ sent[cur_m[c]] = "none"
    /\ \A d \in Client : Storing(d) /\ cur_m[d] = cur_m[c] => d = c

LEMMA ThreadStorer ==
  ASSUME TypeOK, OneStorer, NEW c \in Client,
         NEW step, step # "send_persist", NEW n, NEW q, GoTo(c, step, n, q),
         UNCHANGED sent
  PROVE  OneStorer'
BY DEF OneStorer, Storing, GoTo, TypeOK, ThreadTypeOK

LEMMA RestStorer ==
  ASSUME OneStorer, UNCHANGED <<pc, cur_m, sent>>
  PROVE  OneStorer'
BY DEF OneStorer, Storing

LEMMA CommandStorer ==
  ASSUME TypeOK, OneStorer, NEW c \in Client, Command(c)
  PROVE  OneStorer'
<1>1. CASE Disconnect(c)
  BY <1>1 DEF Disconnect, OneStorer, Storing, TypeOK, ThreadTypeOK
<1>2. ASSUME NEW q \in Queue, NEW m \in Msg, SendRegister(c, q, m)
      PROVE  OneStorer'
  BY <1>2, ThreadStorer DEF SendRegister
<1>3. ASSUME NEW q \in Queue, ConsumeStart(c, q)
      PROVE  OneStorer'
  BY <1>3, ThreadStorer DEF ConsumeStart
<1>4. ASSUME NEW m \in Msg, AckCheck(c, m) \/ NackCheck(c, m) \/ ReplayStart(c, m)
      PROVE  OneStorer'
  BY <1>4, ThreadStorer, RestStorer DEF AckCheck, NackCheck, ReplayStart
<1>5. ASSUME NEW S \in SUBSET messages \ {{}}, AckBatch(c, S)
      PROVE  OneStorer'
  BY <1>5, ThreadStorer DEF AckBatch
<1>6. CASE ReplayAll(c)
  BY <1>6, ThreadStorer DEF ReplayAll
<1>7. ASSUME NEW q \in Queue, NEW n \in Sizes, CreateQueueCmd(c, q, n)
      PROVE  OneStorer'
  BY <1>7, RestStorer DEF CreateQueueCmd
<1>8. ASSUME NEW q \in Queue, DeleteQueueCmd(c, q)
      PROVE  OneStorer'
  BY <1>8, RestStorer DEF DeleteQueueCmd
<1> QED
  BY <1>1, <1>2, <1>3, <1>4, <1>5, <1>6, <1>7, <1>8 DEF Command

(* The three steps that answer a SEND.                                     *)
LEMMA SendStorer ==
  ASSUME TypeOK, RegInv, OneStorer, NEW c \in Client,
         SendEnqueue(c) \/ SendDelete(c) \/ SendPersist(c),
         NEW m, m = cur_m[c]
  PROVE  OneStorer'
<1>1. m \in Msg /\ pc \in [Client -> Steps] /\ sent \in [Msg -> Answers]
      /\ cur_m \in [Client -> Msg \cup {Nil}]
  BY DEF SendEnqueue, SendDelete, SendPersist, TypeOK, ThreadTypeOK,
         MessageTypeOK, NeedsMessage
<1>2. Entering(c) \/ Storing(c)
  BY DEF SendEnqueue, SendDelete, SendPersist, Entering, Storing
<1>3. /\ sent[m] = "none"
      /\ \A d \in Client : Storing(d) /\ cur_m[d] = m => d = c
  BY <1>2 DEF RegInv, EnteringUnknown, OnlySenderKnows, OneStorer
<1>4. /\ \A d \in Client \ {c} : pc'[d] = pc[d] /\ cur_m'[d] = cur_m[d]
      /\ \A y \in Msg \ {m} : sent'[y] = sent[y]
      /\ pc'[c] = "send_persist" => cur_m'[c] = m /\ sent' = sent
  BY <1>1 DEF SendEnqueue, SendDelete, SendPersist, Return, GoTo, AnswerSend
<1>5. ASSUME NEW d \in Client, Storing(d)'
      PROVE  /\ sent'[cur_m'[d]] = "none"
             /\ d # c => Storing(d) /\ cur_m[d] # m /\ cur_m'[d] = cur_m[d]
  <2>1. CASE d = c
    BY <1>3, <1>4, <1>5, <2>1 DEF Storing
  <2>2. CASE d # c
    <3>1. Storing(d) /\ cur_m[d] # m /\ cur_m'[d] = cur_m[d]
      BY <1>3, <1>4, <1>5, <2>2 DEF Storing
    <3>2. cur_m[d] \in Msg
      BY <3>1 DEF Storing, TypeOK, ThreadTypeOK, NeedsMessage
    <3> QED
      BY <1>4, <3>1, <3>2 DEF OneStorer
  <2> QED
    BY <2>1, <2>2
<1>6. pc'[c] = "send_persist" => cur_m'[c] = m
  BY <1>4
<1> QED
  BY <1>5, <1>6 DEF OneStorer, Storing

LEMMA RunStorer ==
  ASSUME TypeOK, RegInv, OneStorer, NEW c \in Client, RunsOn(c)
  PROVE  OneStorer'
<1>1. CASE SendEnqueue(c) \/ SendDelete(c) \/ SendPersist(c)
  BY <1>1, SendStorer
<1>2. CASE ConsumeDequeue(c) \/ MarkDelivered(c)
  BY <1>2, ThreadStorer DEF ConsumeDequeue, MarkDelivered, Return
<1>3. CASE AckSet(c) \/ NackSet(c)
  BY <1>3, ThreadStorer DEF AckSet, NackSet, Return
<1>4. ASSUME NEW m \in Msg, AckBatchCheck(c, m) \/ ReplayRoute(c, m)
      PROVE  OneStorer'
  BY <1>4, ThreadStorer DEF AckBatchCheck, ReplayRoute, ReplayQueuesNext, Return
<1>5. CASE ReplayReset(c) \/ ReplayEnqueue(c)
  <2>1. PICK step \in {"replay_pop", "replay_route", "idle"} :
          GoTo(c, step, Nil, Nil)
    BY <1>5, Zenon
       DEF ReplayReset, ReplayEnqueue, ReplayGoesOn, ReplayQueuesNext, Return
  <2> QED
    BY <1>5, <2>1, ThreadStorer DEF ReplayReset, ReplayEnqueue
<1> QED
  BY <1>1, <1>2, <1>3, <1>4, <1>5 DEF RunsOn

LEMMA LockStorer ==
  ASSUME TypeOK, OneStorer, NEW c \in Client, TakesLock(c)
  PROVE  OneStorer'
<1>1. CASE NackInsert(c)
  BY <1>1, ThreadStorer DEF NackInsert, Return
<1>2. ASSUME NEW m \in Msg, ReplayPop(c, m)
      PROVE  OneStorer'
  <2>1. PICK step \in {"replay_pop", "replay_route", "idle", "replay_reset"},
             n \in {m, Nil} : GoTo(c, step, n, Nil)
    BY <1>2, Zenon DEF ReplayPop, ReplayGoesOn
  <2> QED
    BY <1>2, <2>1, ThreadStorer DEF ReplayPop
<1>3. ASSUME NEW t \in Queue \cup {DLQ}, ReplayFind(c, t)
      PROVE  OneStorer'
  <2>1. PICK step \in {"idle", "replay_pop"} : GoTo(c, step, Nil, Nil)
    BY <1>3, Zenon DEF ReplayFind
  <2> QED
    BY <1>3, <2>1, ThreadStorer DEF ReplayFind
<1> QED
  BY <1>1, <1>2, <1>3 DEF TakesLock

LEMMA OthersStorer ==
  ASSUME OneStorer, CheckerStep \/ ClockStep \/ UNCHANGED vars
  PROVE  OneStorer'
BY RestStorer
   DEF CheckerStep, ClockStep, vars, BeginPass, TimeoutAct, EndTimeouts,
       ScanBroken, TtlMove, TtlInsert, EndTtl, ScanTimeout, ScanTtl, Elapse,
       Age

LEMMA StorerStep == TypeOK /\ RegInv /\ OneStorer /\ [Next]_vars => OneStorer'
BY CommandStorer, RunStorer, LockStorer, OthersStorer DEF Next

-----------------------------------------------------------------------------
(* What a queue keeps.                                                     *)
LEMMA QueuedStays ==
  ASSUME UNCHANGED items, NEW m
  PROVE  Queued(m) => Queued(m)'
BY DEF Queued

LEMMA QueuedCreate ==
  ASSUME QueueTypeOK, NoOrphanItems, NEW q \in Queue, NEW n, CreateQueue(q, n),
         NEW m
  PROVE  Queued(m) => Queued(m)'
<1>1. items' = items
  BY DEF CreateQueue, QueueTypeOK, NoOrphanItems
<1> QED
  BY <1>1, QueuedStays

LEMMA QueuedEnqueue ==
  ASSUME QueueTypeOK, NEW q, NEW x \in Msg, Enqueue(q, x), NEW m
  PROVE  /\ Queued(m) => Queued(m)'
         /\ Queued(x)'
BY EnqueueFacts DEF Queued

LEMMA QueuedDequeue ==
  ASSUME QueueTypeOK, NEW q \in Queue, Dequeue(q), NEW m, m # Head(items[q])
  PROVE  Queued(m) => Queued(m)'
<1>1. /\ items[q] \in Seq(Msg) /\ items[q] # <<>>
      /\ items'[q] = Tail(items[q])
      /\ \A r \in Queue : r # q => items'[r] = items[r]
  BY DEF Dequeue, QueueTypeOK
<1>2. ASSUME m \in Range(items[q])
      PROVE  m \in Range(Tail(items[q]))
  <2>1. PICK i \in 1 .. Len(items[q]) : items[q][i] = m
    BY <1>1, <1>2 DEF Range
  <2>2. /\ Head(items[q]) = items[q][1]
        /\ Tail(items[q]) \in Seq(Msg)
        /\ Len(Tail(items[q])) = Len(items[q]) - 1
        /\ \A j \in 1 .. Len(items[q]) - 1 : Tail(items[q])[j] = items[q][j + 1]
        /\ Len(items[q]) \in Nat
    BY <1>1
  <2>3. i # 1
    BY <2>1, <2>2
  <2>4. /\ i - 1 \in 1 .. Len(Tail(items[q]))
        /\ Tail(items[q])[i - 1] = m
    BY <2>1, <2>2, <2>3
  <2>5. DOMAIN Tail(items[q]) = 1 .. Len(Tail(items[q]))
    BY <2>2
  <2> QED
    BY <2>4, <2>5, Zenon DEF Range
<1> QED
  BY <1>1, <1>2 DEF Queued

-----------------------------------------------------------------------------
(* What leaves a message where it is.                                      *)
LEMMA ThreadPresent ==
  ASSUME TypeOK, FreshPresent, NEW c \in Client,
         NEW step, NEW n, NEW q, GoTo(c, step, n, q),
         NEW m \in Fresh, Owed(m)',
         Entering(c) => cur_m[c] # m,
         ~Takes(c, m),
         status'[m] = status[m], retry_count'[m] = retry_count[m],
         RefusedSent(m) => RefusedSent(m)',
         Queued(m) => Queued(m)'
  PROVE  Present(m)'
<1>1. \A d \in Client \ {c} : pc'[d] = pc[d] /\ cur_m'[d] = cur_m[d]
  BY DEF GoTo, TypeOK, ThreadTypeOK
<1>2. \A d \in Client : Entering(d) => cur_m[d] # m
  BY <1>1 DEF Owed, Entering
<1>3. Present(m)
  BY <1>2, PresentMeans DEF Owed
<1>4. InHand(m) => InHand(m)'
  BY <1>1 DEF InHand, Takes
<1> QED
  BY <1>3, <1>4 DEF Present

(* A step of a thread that changes neither a message nor an answer.        *)
LEMMA QuietPresent ==
  ASSUME TypeOK, FreshPresent, NEW c \in Client,
         ~Entering(c), pc[c] # "consume_mark",
         NEW step, NEW n, NEW q, GoTo(c, step, n, q),
         Fresh' \subseteq Fresh,
         UNCHANGED <<items, status, retry_count, sent>>
  PROVE  FreshPresent'
<1> SUFFICES ASSUME NEW m \in Fresh', Owed(m)'
             PROVE  Present(m)'
  BY PresentMeans DEF FreshPresent, Owed, Present
<1> QED
  BY ThreadPresent, QueuedStays DEF Takes, RefusedSent

(* A step in which no thread moves.                                        *)
LEMMA RestPresent ==
  ASSUME FreshPresent, Fresh' \subseteq Fresh, NEW x,
         UNCHANGED <<pc, cur_m, sent>>,
         \A m \in Fresh \ {x} :
           /\ status'[m] = status[m] /\ retry_count'[m] = retry_count[m]
           /\ Queued(m) => Queued(m)',
         x \in Fresh' => ~Owed(x)'
  PROVE  FreshPresent'
<1> SUFFICES ASSUME NEW m \in Fresh', Owed(m)'
             PROVE  Present(m)'
  BY DEF FreshPresent, Owed, Present
<1>1. m \in Fresh \ {x}
  OBVIOUS
<1>2. Owed(m) => Present(m)
  BY <1>1, PresentMeans
<1>3. Owed(m)
  BY <1>1 DEF Owed, Entering, RefusedSent
<1>4. InHand(m) => InHand(m)'
  BY DEF InHand, Takes
<1> QED
  BY <1>1, <1>2, <1>3, <1>4 DEF Present

-----------------------------------------------------------------------------
(* Commands.                                                               *)
LEMMA CommandPresent ==
  ASSUME TypeOK, NoOrphanItems, FreshPresent, NEW c \in Client, Command(c)
  PROVE  FreshPresent'
<1> USE DEF Fresh, Entering
<1>1. ASSUME NEW q \in Queue, NEW n \in Sizes, CreateQueueCmd(c, q, n)
      PROVE  FreshPresent'
  <2>1. \A m : Queued(m) => Queued(m)'
    BY <1>1, QueuedCreate DEF CreateQueueCmd, TypeOK
  <2> QED
    BY <1>1, <2>1, RestPresent, NilNotFresh DEF CreateQueueCmd
<1>2. ASSUME NEW q \in Queue, DeleteQueueCmd(c, q)
      PROVE  FreshPresent'
  BY <1>2, RestPresent, QueuedStays, NilNotFresh DEF DeleteQueueCmd, DeleteQueue
<1>3. ASSUME NEW q \in Queue, NEW x \in Msg, SendRegister(c, q, x)
      PROVE  FreshPresent'
  <2> SUFFICES ASSUME NEW m \in Fresh', Owed(m)'
               PROVE  Present(m)'
    BY DEF FreshPresent, Owed, Present
  <2>1. /\ GoTo(c, "send_enqueue", x, q) /\ pc[c] = "idle"
        /\ Fresh' \subseteq Fresh \cup {x}
        /\ UNCHANGED <<items, status, retry_count, sent>>
    BY <1>3 DEF SendRegister
  <2>2. pc'[c] = "send_enqueue" /\ cur_m'[c] = x
    BY <2>1 DEF GoTo, TypeOK, ThreadTypeOK
  <2>3. m # x
    BY <2>2 DEF Owed
  <2> QED
    BY <2>1, <2>3, ThreadPresent, QueuedStays DEF Takes, RefusedSent
<1>4. ASSUME NEW q \in Queue, ConsumeStart(c, q)
      PROVE  FreshPresent'
  BY <1>4, QuietPresent DEF ConsumeStart
<1>5. ASSUME NEW m \in Msg, AckCheck(c, m)
      PROVE  FreshPresent'
  <2>1. CASE GoTo(c, "ack_set", m, Nil)
    BY <1>5, <2>1, QuietPresent DEF AckCheck
  <2>2. CASE UNCHANGED <<pc, cur_m, cur_q>>
    BY <1>5, <2>2, RestPresent, QueuedStays, NilNotFresh DEF AckCheck
  <2> QED
    BY <1>5, <2>1, <2>2 DEF AckCheck
<1>6. ASSUME NEW m \in Msg, NackCheck(c, m) \/ ReplayStart(c, m)
      PROVE  FreshPresent'
  BY <1>6, QuietPresent DEF NackCheck, ReplayStart
<1>7. ASSUME NEW S \in SUBSET messages \ {{}}, AckBatch(c, S)
      PROVE  FreshPresent'
  BY <1>7, QuietPresent DEF AckBatch
<1>8. CASE ReplayAll(c)
  BY <1>8, QuietPresent DEF ReplayAll
<1>9. CASE Disconnect(c)
  <2> SUFFICES ASSUME NEW m \in Fresh', Owed(m)'
               PROVE  Present(m)'
    BY DEF FreshPresent, Owed, Present
  <2>1. /\ pc[c] = "idle" /\ \A d \in Client \ {c} : pc'[d] = pc[d]
        /\ UNCHANGED <<cur_m, items, status, retry_count, sent, messages, aged>>
    BY <1>9 DEF Disconnect, TypeOK, ThreadTypeOK
  <2>2. m \in Fresh /\ Owed(m)
    BY <2>1 DEF Owed, RefusedSent
  <2>3. Present(m)
    BY <2>2, PresentMeans
  <2>4. InHand(m) => InHand(m)'
    BY <2>1 DEF InHand, Takes
  <2> QED
    BY <2>1, <2>3, <2>4, QueuedStays DEF Present
<1> QED
  BY <1>1, <1>2, <1>3, <1>4, <1>5, <1>6, <1>7, <1>8, <1>9 DEF Command

-----------------------------------------------------------------------------
(* The steps of a handler.                                                 *)
LEMMA SendPresent ==
  ASSUME TypeOK, RegInv, OneStorer, FreshPresent, NEW c \in Client,
         SendEnqueue(c) \/ SendDelete(c) \/ SendPersist(c)
  PROVE  FreshPresent'
<1> SUFFICES ASSUME NEW m \in Fresh', Owed(m)'
             PROVE  Present(m)'
  BY DEF FreshPresent, Owed, Present
<1> DEFINE x == cur_m[c]
<1>1. /\ x \in Msg /\ m \in Msg /\ m \in Fresh
      /\ status' = status /\ retry_count' = retry_count
      /\ pc[c] # "consume_mark"
  BY DEF SendEnqueue, SendDelete, SendPersist, TypeOK, ThreadTypeOK,
         MessageTypeOK, NeedsMessage, Fresh
<1>2. PICK step, n, q : GoTo(c, step, n, q)
  BY DEF SendEnqueue, SendDelete, SendPersist, Return
<1>3. Queued(m) => Queued(m)'
  BY <1>1, QueuedEnqueue, QueuedStays
     DEF SendEnqueue, SendDelete, SendPersist, TypeOK
<1>4. RefusedSent(m) => RefusedSent(m)'
  <2>1. sent[x] = "none"
    BY DEF SendEnqueue, SendDelete, SendPersist, RegInv, EnteringUnknown,
           OnlySenderKnows, Entering, OneStorer, Storing
  <2>2. m # x => sent'[m] = sent[m]
    BY <1>1 DEF SendEnqueue, SendDelete, SendPersist, AnswerSend, TypeOK,
                MessageTypeOK
  <2> QED
    BY <2>1, <2>2 DEF RefusedSent
<1>5. CASE Entering(c) /\ m = x
  <2>1. CASE SendEnqueue(c)
    <3>1. CASE Enqueue(cur_q[c], x)
      BY <1>1, <1>5, <3>1, QueuedEnqueue DEF TypeOK, Present
    <3>2. CASE Return(c) /\ AnswerSend(c, "refused")
      BY <1>1, <1>5, <3>2
         DEF AnswerSend, TypeOK, MessageTypeOK, Owed, RefusedSent
    <3>3. CASE GoTo(c, "send_delete", x, Nil)
      BY <1>5, <3>3 DEF GoTo, TypeOK, ThreadTypeOK, Owed, Entering
    <3> QED
      BY <2>1, <3>1, <3>2, <3>3 DEF SendEnqueue
  <2>2. CASE SendDelete(c)
    BY <1>5, <2>2 DEF SendDelete, Fresh
  <2>3. CASE SendPersist(c)
    BY <1>5, <2>3 DEF SendPersist, Entering
  <2> QED
    BY <2>1, <2>2, <2>3
<1>6. CASE ~(Entering(c) /\ m = x)
  BY <1>1, <1>2, <1>3, <1>4, <1>6, ThreadPresent DEF Takes
<1> QED
  BY <1>5, <1>6

LEMMA ConsumePresent ==
  ASSUME TypeOK, FreshPresent, NEW c \in Client,
         ConsumeDequeue(c) \/ MarkDelivered(c)
  PROVE  FreshPresent'
<1> SUFFICES ASSUME NEW m \in Fresh', Owed(m)'
             PROVE  Present(m)'
  BY DEF FreshPresent, Owed, Present
<1>1. /\ m \in Fresh /\ m \in Msg /\ ~Entering(c)
      /\ sent' = sent /\ retry_count' = retry_count
  BY DEF ConsumeDequeue, MarkDelivered, Fresh, Entering, TypeOK, MessageTypeOK
<1>2. CASE ConsumeDequeue(c)
  <2>1. cur_q[c] \in Queue /\ status' = status /\ pc[c] # "consume_mark"
    BY <1>2 DEF ConsumeDequeue, TypeOK, ThreadTypeOK, NeedsQueue
  <2>2. CASE Dequeue(cur_q[c])
             /\ GoTo(c, "consume_mark", Head(items[cur_q[c]]), cur_q[c])
    <3>1. CASE m = Head(items[cur_q[c]])
      <4>1. pc'[c] = "consume_mark" /\ cur_m'[c] = m
        BY <2>2, <3>1 DEF GoTo, TypeOK, ThreadTypeOK
      <4> QED
        BY <4>1 DEF Present, InHand, Takes
    <3>2. CASE m # Head(items[cur_q[c]])
      <4>1. Queued(m) => Queued(m)'
        BY <2>1, <2>2, <3>2, QueuedDequeue DEF TypeOK
      <4> QED
        BY <1>1, <2>1, <2>2, <4>1, ThreadPresent DEF Takes, RefusedSent
    <3> QED
      BY <3>1, <3>2
  <2>3. CASE Return(c) /\ UNCHANGED queueVars
    BY <1>1, <2>1, <2>3, ThreadPresent, QueuedStays
       DEF Takes, RefusedSent, Return
  <2> QED
    BY <1>2, <2>2, <2>3 DEF ConsumeDequeue
<1>3. CASE MarkDelivered(c)
  <2>1. cur_m[c] \in Msg
    BY <1>3 DEF MarkDelivered, TypeOK, ThreadTypeOK, NeedsMessage
  <2>2. CASE m = cur_m[c]
    <3>1. m \in messages
      BY <1>1 DEF Fresh
    <3>2. status'[m] = "DELIVERED"
      BY <1>1, <1>3, <2>2, <3>1 DEF MarkDelivered, TypeOK, MessageTypeOK
    <3> QED
      BY <3>2 DEF Present
  <2>3. CASE m # cur_m[c]
    <3>1. status'[m] = status[m] /\ items' = items
      BY <1>1, <1>3, <2>1, <2>3 DEF MarkDelivered, TypeOK, MessageTypeOK
    <3>2. PICK step, n, q : GoTo(c, step, n, q)
      BY <1>3 DEF MarkDelivered, Return
    <3> QED
      BY <1>1, <2>3, <3>1, <3>2, ThreadPresent, QueuedStays
         DEF Takes, RefusedSent
  <2> QED
    BY <2>2, <2>3
<1> QED
  BY <1>2, <1>3

(* A step of a thread that settles or resets its message.                  *)
LEMMA SettlePresent ==
  ASSUME TypeOK, FreshDelivery, FreshPresent, NEW c \in Client,
         AckSet(c) \/ NackSet(c) \/ ReplayReset(c)
  PROVE  FreshPresent'
<1> SUFFICES ASSUME NEW m \in Fresh', Owed(m)'
             PROVE  Present(m)'
  BY DEF FreshPresent, Owed, Present
<1> DEFINE x == cur_m[c]
<1>1. /\ m \in Fresh /\ m \in Msg /\ x \in Msg
      /\ ~Entering(c) /\ pc[c] # "consume_mark"
      /\ sent' = sent /\ items' = items
  BY DEF AckSet, NackSet, ReplayReset, Fresh, Entering, TypeOK, MessageTypeOK,
         ThreadTypeOK, NeedsMessage
<1>2. PICK step, n, q : GoTo(c, step, n, q)
  BY DEF AckSet, NackSet, ReplayReset, ReplayGoesOn, Return
<1>3. CASE m # x
  <2>1. status'[m] = status[m]
    BY <1>1, <1>3
       DEF AckSet, NackSet, ReplayReset, MakePending, MarkDead, TypeOK,
           MessageTypeOK
  <2>2. retry_count'[m] = retry_count[m]
    BY <1>1, <1>3 DEF AckSet, NackSet, ReplayReset, TypeOK, MessageTypeOK
  <2> QED
    BY <1>1, <1>2, <2>1, <2>2, ThreadPresent, QueuedStays
       DEF Takes, RefusedSent
<1>4. CASE m = x
  <2>1. CASE AckSet(c)
    <3>1. status'[m] = "ACKED"
      BY <1>1, <1>4, <2>1 DEF AckSet, TypeOK, MessageTypeOK
    <3> QED
      BY <3>1 DEF Present
  <2>2. CASE NackSet(c)
    <3>1. retry_count'[m] = retry_count[m] + 1 /\ retry_count[m] \in Nat
      BY <1>1, <1>4, <2>2 DEF NackSet, TypeOK, MessageTypeOK
    <3> QED
      BY <3>1 DEF Owed
  <2>3. CASE ReplayReset(c)
    BY <1>1, <1>4, <2>3, ReplayedNotFresh DEF ReplayReset
  <2> QED
    BY <2>1, <2>2, <2>3
<1> QED
  BY <1>3, <1>4

LEMMA RunPresent ==
  ASSUME TypeOK, RegInv, FreshDelivery, OneStorer, FreshPresent,
         NEW c \in Client, RunsOn(c)
  PROVE  FreshPresent'
<1>1. ASSUME NEW m \in Msg, AckBatchCheck(c, m)
      PROVE  FreshPresent'
  <2>1. PICK step, n, q : GoTo(c, step, n, q)
    BY <1>1 DEF AckBatchCheck, Return
  <2> QED
    BY <1>1, <2>1, QuietPresent DEF AckBatchCheck, Entering, Fresh
<1>2. ASSUME NEW m \in Msg, ReplayRoute(c, m)
      PROVE  FreshPresent'
  <2>1. PICK step, n, q : GoTo(c, step, n, q)
    BY <1>2 DEF ReplayRoute, ReplayQueuesNext, Return
  <2>2. messages' = messages
    BY <1>2 DEF ReplayRoute, RegInv, NoDanglingIds
  <2> QED
    BY <1>2, <2>1, <2>2, QuietPresent DEF ReplayRoute, Entering, Fresh
<1>3. CASE ReplayEnqueue(c)
  <2> SUFFICES ASSUME NEW m \in Fresh', Owed(m)'
               PROVE  Present(m)'
    BY DEF FreshPresent, Owed, Present
  <2>1. PICK step, n, q : GoTo(c, step, n, q)
    BY <1>3 DEF ReplayEnqueue, ReplayQueuesNext, Return
  <2>2. /\ m \in Fresh /\ ~Entering(c) /\ pc[c] # "consume_mark"
        /\ cur_m[c] \in Msg
        /\ UNCHANGED <<status, retry_count, sent>>
    BY <1>3 DEF ReplayEnqueue, Fresh, Entering, TypeOK, ThreadTypeOK,
                NeedsMessage
  <2>3. Queued(m) => Queued(m)'
    BY <1>3, <2>2, QueuedEnqueue, QueuedStays DEF ReplayEnqueue, TypeOK
  <2> QED
    BY <2>1, <2>2, <2>3, ThreadPresent DEF Takes, RefusedSent
<1> QED
  BY <1>1, <1>2, <1>3, SendPresent, ConsumePresent, SettlePresent DEF RunsOn

LEMMA LockPresent ==
  ASSUME TypeOK, FreshPresent, NEW c \in Client, TakesLock(c)
  PROVE  FreshPresent'
<1>1. PICK step, n, q : GoTo(c, step, n, q)
  BY DEF TakesLock, NackInsert, ReplayFind, ReplayPop, ReplayGoesOn, Return
<1>2. /\ ~Entering(c) /\ pc[c] # "consume_mark" /\ Fresh' = Fresh
      /\ UNCHANGED <<items, status, retry_count, sent>>
  BY DEF TakesLock, NackInsert, ReplayFind, ReplayPop, Entering, Fresh
<1> QED
  BY <1>1, <1>2, QuietPresent

-----------------------------------------------------------------------------
(* The checker and the clock: a timeout charges a retry, and what expires  *)
(* is not fresh.                                                           *)
LEMMA CheckerPresent ==
  ASSUME TypeOK, FreshDelivery, FreshPresent, CheckerStep \/ ClockStep
  PROVE  FreshPresent'
<1>1. /\ Fresh' \subseteq Fresh
      /\ UNCHANGED <<pc, cur_m, sent, items>>
  BY DEF CheckerStep, ClockStep, BeginPass, TimeoutAct, EndTimeouts,
         ScanBroken, TtlMove, TtlInsert, EndTtl, ScanTimeout, ScanTtl, EndPass,
         Elapse, Age, Fresh
<1>2. \A m : Queued(m) => Queued(m)'
  BY <1>1, QueuedStays
<1>3. CASE TimeoutAct
  <2>1. checker_m \in Msg
    BY <1>3 DEF TimeoutAct, TypeOK, CheckerTypeOK
  <2>2. /\ retry_count'[checker_m] = retry_count[checker_m] + 1
        /\ retry_count[checker_m] \in Nat
        /\ \A m \in Msg \ {checker_m} :
             retry_count'[m] = retry_count[m] /\ status'[m] = status[m]
    BY <1>3, <2>1
       DEF TimeoutAct, MakePending, MarkDead, TypeOK, MessageTypeOK
  <2>3. PICK x : x = checker_m
    OBVIOUS
  <2>4. retry_count'[x] # 0
    BY <2>2, <2>3
  <2>5. ~Owed(x)'
    BY <2>4 DEF Owed
  <2>6. \A m \in Fresh \ {x} :
          retry_count'[m] = retry_count[m] /\ status'[m] = status[m]
    BY <2>2, <2>3 DEF Fresh, TypeOK, MessageTypeOK
  <2> QED
    BY <1>1, <1>2, <2>5, <2>6, RestPresent
<1>4. CASE TtlMove
  <2>1. checker_m \in Msg /\ checker_m \notin Fresh
    BY <1>4 DEF TtlMove, TypeOK, CheckerTypeOK, FreshDelivery, FreshOK
  <2>2. \A m \in Fresh :
          retry_count'[m] = retry_count[m] /\ status'[m] = status[m]
    BY <1>4, <2>1 DEF TtlMove, MarkDead, TypeOK, MessageTypeOK, Fresh
  <2> QED
    BY <1>1, <1>2, <2>2, RestPresent, NilNotFresh DEF Fresh
<1>5. CASE UNCHANGED <<status, retry_count>>
  BY <1>1, <1>2, <1>5, RestPresent, NilNotFresh DEF Fresh
<1> QED
  BY <1>3, <1>4, <1>5
     DEF CheckerStep, ClockStep, BeginPass, EndTimeouts, ScanBroken, TtlInsert,
         EndTtl, ScanTimeout, ScanTtl, EndPass, Elapse, Age

LEMMA PresentStep ==
  ASSUME TypeOK, RegInv, NoOrphanItems, FreshDelivery, OneStorer, FreshPresent,
         [Next]_vars
  PROVE  FreshPresent'
<1>1. CASE UNCHANGED vars
  BY <1>1, RestPresent, QueuedStays, NilNotFresh DEF vars, Fresh
<1> QED
  BY <1>1, CommandPresent, RunPresent, LockPresent, CheckerPresent DEF Next

-----------------------------------------------------------------------------
(* With two retries or more, a message whose SEND was answered +OK and     *)
(* that has neither expired nor been charged with a retry is in a queue,   *)
(* in a consumer's hands, delivered or acknowledged, whatever the other    *)
(* handlers and the checker do.                                            *)
THEOREM AcceptedStay == MaxRetries >= 2 => (Spec => []AcceptedNotLost)
<1> SUFFICES ASSUME MaxRetries >= 2
             PROVE  Spec => []AcceptedNotLost
  OBVIOUS
<1>1. Init => OneStorer /\ FreshPresent
  BY DEF Init, OneStorer, Storing, FreshPresent, Fresh
<1>2. RegInv /\ FreshPresent => AcceptedNotLost
  BY DEF RegInv, EnteringUnknown, OnlySenderKnows, FreshPresent,
         AcceptedNotLost, RefusedSent
<1>3. Spec => []FreshDelivery
  BY FreshAlways
<1>4. Spec => []NoOrphanItems
  BY UsesQueueManager, QueueAlwaysInv, PTL DEF QueueInv
<1> QED
  BY <1>1, <1>2, <1>3, <1>4, InitTypes, TypeStep, InitReg, RegStep, StorerStep,
     PresentStep, PTL DEF Spec
=============================================================================
