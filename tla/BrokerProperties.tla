-------------------------- MODULE BrokerProperties --------------------------
(* What the broker promises, and the invariants that make it true.         *)
EXTENDS Broker, Functions

(* Where a message can be: in a queue, at most in one place of one queue,  *)
(* or taken out of it by a consumer that has not marked it delivered yet.  *)
Queued(m) == \E q \in Queue : m \in Range(items[q])

OnePlace(m) ==
  \A q1, q2 \in Queue : \A i \in 1 .. Len(items[q1]), j \in 1 .. Len(items[q2]) :
    items[q1][i] = m /\ items[q2][j] = m => q1 = q2 /\ i = j

Takes(c, m) == pc[c] = "consume_mark" /\ cur_m[c] = m
InHand(m) == \E c \in Client : Takes(c, m)

(* The messages inside their time to live. *)
Fresh == messages \ aged

-----------------------------------------------------------------------------
(* Every id a queue, the DLQ or a handler still uses is registered: a full *)
(* queue is the only reason to forget a message, and such a message has    *)
(* reached nobody (route_to_queue).                                        *)
NoDanglingIds ==
  /\ \A q \in Queue : Range(items[q]) \subseteq messages
  /\ dlq \subseteq messages
  /\ \A c \in Client : cur_m[c] \in messages \cup {Nil}
  /\ \A c \in Client : replayed[c] \subseteq messages
  /\ checker_m \in messages \cup {Nil}

(* A message whose SEND was refused for a full queue is not delivered,     *)
(* replayed or found by a later command (route_to_queue, QueueFullError).  *)
FullSendForgotten ==
  \A m \in Msg : sent[m] = "full" => m \notin messages /\ ~Queued(m)

(* At most one consumer: a message inside its time to live is in one place *)
(* of one queue or in the hands of one consumer, not in both, and in       *)
(* neither while it is delivered, acknowledged or in the DLQ.              *)
SingleCopy ==
  \A m \in Fresh :
    /\ OnePlace(m)
    /\ \A c1, c2 \in Client : Takes(c1, m) /\ Takes(c2, m) => c1 = c2
    /\ ~(Queued(m) /\ InHand(m))
    /\ Queued(m) \/ InHand(m) => status[m] = "PENDING"

(* No loss before the first redelivery: a message whose SEND was answered  *)
(* +OK and that has neither timed out nor been NACKed nor expired is in a  *)
(* queue, with a consumer, or acknowledged.                                *)
AcceptedNotLost ==
  \A m \in Fresh :
    sent[m] = "ok" /\ retry_count[m] = 0
      => Queued(m) \/ InHand(m) \/ status[m] \in {"DELIVERED", "ACKED"}

(* Only the time to live and more than MaxRetries retries lead to the DLQ, *)
(* and only a REPLAY leads out of it, although NACK and the checker may    *)
(* charge one delivery twice (nack, check_timeouts, _move_to_dlq).         *)
DlqOnlyExhausted ==
  \A m \in Fresh : m \in dlq \/ status[m] = "DLQ" => retry_count[m] > MaxRetries

(* Two consumers never acknowledge or refuse one message between their     *)
(* test and their assignment: the checker is the only rival of a holder    *)
(* (ack and nack hold no lock).                                            *)
Settling(c) == pc[c] \in {"ack_set", "nack_set"}

HolderUncontested ==
  \A c1, c2 \in Client :
    /\ Settling(c1) /\ cur_m[c1] \in Fresh
         => delivered_to[cur_m[c1]] \in {c1, Nil}
    /\ Settling(c1) /\ Settling(c2) /\ c1 # c2
         => cur_m[c1] # cur_m[c2] \/ cur_m[c1] \notin Fresh

(* Every command is answered, whatever other connections do with its queue *)
(* and its message; only for AckManager._lock may it wait for ever, when   *)
(* the checker has run into the lock that it holds itself (_move_to_dlq).  *)
StarvedOfLock(c) ==
  checker_pc = "stuck" /\ pc[c] \in {"nack_dlq", "replay_find", "replay_pop"}

CommandsAnswered ==
  \A c \in Client :
    pc[c] \notin {"idle", "closed"}
      ~> pc[c] \in {"idle", "closed"} \/ StarvedOfLock(c)

(* A delivery is settled: the message is acknowledged, or the timeout      *)
(* takes it back even from a consumer that is gone (check_timeouts), as    *)
(* long as the checker has not run into its own lock.                      *)
DeliveryResolves ==
  \A m \in Msg :
    status[m] = "DELIVERED" ~> status[m] # "DELIVERED" \/ checker_pc = "stuck"

-----------------------------------------------------------------------------
(* The parts of the inductive invariants from which BrokerProofs derives   *)
(* the safety properties.                                                  *)

(* An id nobody has used yet has no trace. *)
UnusedUntouched ==
  /\ \A m \in aged : sent[m] # "none"
  /\ \A m \in Msg :
       sent[m] = "none" /\ m \notin messages
         => status[m] = "PENDING" /\ retry_count[m] = 0
            /\ delivered_to[m] = Nil

(* Only its sender knows a message that is not in its queue yet. *)
Entering(c) == pc[c] \in {"send_enqueue", "send_delete"}

OnlySenderKnows(c, m) ==
  /\ m \in messages
  /\ sent[m] = "none" /\ status[m] = "PENDING" /\ retry_count[m] = 0
  /\ delivered_to[m] = Nil
  /\ m \notin aged /\ m \notin dlq /\ m # checker_m
  /\ \A q \in Queue : m \notin Range(items[q])
  /\ \A d \in Client : m \notin replayed[d] /\ (d # c => cur_m[d] # m)

EnteringUnknown ==
  \A c \in Client : Entering(c) => OnlySenderKnows(c, cur_m[c])

RefusedSent(m) == sent[m] \in {"refused", "full"}

(* With MaxRetries at least 2, the one delivery of a fresh message.        *)
Untried(m) ==
  /\ status[m] = "PENDING" /\ retry_count[m] = 0 /\ delivered_to[m] = Nil
  /\ checker_m # m
  /\ \A c \in Client : Settling(c) => cur_m[c] # m

(* What thread c, which has m in hand, may be doing with it.               *)
SoleUser(c, m) ==
  /\ pc[c] \notin {"nack_dlq", "replay_reset", "replay_enqueue"}
  /\ pc[c] = "consume_mark" =>
       /\ Untried(m) /\ ~Queued(m)
       /\ \A d \in Client : Takes(d, m) => d = c
  /\ Settling(c) =>
       /\ delivered_to[m] \in {c, Nil}
       /\ \A d \in Client : Settling(d) /\ cur_m[d] = m => d = c
  /\ pc[c] = "nack_set" =>
       retry_count[m] <= 1 /\ (checker_m = m => retry_count[m] = 0)

FreshOK(m) ==
  /\ m \notin dlq /\ status[m] # "DLQ" /\ target[m] \in Queue
  /\ retry_count[m] <= 2
  /\ status[m] = "DELIVERED" => retry_count[m] = 0
  /\ checker_m = m => checker_pc = "timeout_act" /\ retry_count[m] <= 1
  /\ OnePlace(m)
  /\ Queued(m) => Untried(m)
  /\ \A c \in Client : m \notin replayed[c]
  /\ \A c \in Client : cur_m[c] = m => SoleUser(c, m)

FreshDelivery == \A m \in Fresh : FreshOK(m)

(* A fresh message that has not been refused and is not being sent. *)
FreshPresent ==
  \A m \in Fresh :
    /\ ~RefusedSent(m)
    /\ \A c \in Client : Entering(c) => cur_m[c] # m
    /\ retry_count[m] = 0
    => Queued(m) \/ InHand(m) \/ status[m] \in {"DELIVERED", "ACKED"}
=============================================================================
