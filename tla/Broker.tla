------------------------------- MODULE Broker -------------------------------
(***************************************************************************)
(* The life of a message between SEND and ACK: the command handlers of     *)
(* src/server.py, with the message router, the ack manager and the queue   *)
(* manager they call, and the background checker thread.                   *)
(*                                                                         *)
(* One client is one connection, and so one handler thread that runs one   *)
(* command at a time.  A step of a thread is a stretch of code between two *)
(* points where another thread can come in and matter: a lock region, or a *)
(* test of a shared field followed by nothing that depends on it.          *)
(* AckManager._lock is the only lock held across steps (by check_timeouts).*)
(*                                                                         *)
(* Commands that answer an error and change nothing are stuttering steps.  *)
(* server.py does not import MessageStatus, so a statement that names it   *)
(* raises NameError: the handler ends with ERR_INTERNAL, the checker gives *)
(* its pass up.  What the code meant to do after such a statement is       *)
(* therefore not in this module.                                           *)
(***************************************************************************)
EXTENDS QueueManager, FiniteSets

CONSTANTS
  Client,       \* connections; consumer ids are never reused
  MaxRetries,   \* AckManager.max_retries
  MayAge,       \* the messages of which the time to live may run out
  DLQ,          \* the string "DLQ", which is also a legal queue name
  Nil           \* the empty string, or no message

ASSUME BrokerAssumption ==
  /\ MaxRetries \in Nat
  /\ MayAge \subseteq Msg
  /\ Nil \notin Client \cup Queue \cup Msg \cup {DLQ}
  /\ IsFiniteSet(Msg)

VARIABLES
  \* MessageRouter._messages and the fields of its messages
  messages,         \* the ids in the registry
  status, target, original_target, retry_count, delivered_to,
  \* AckManager._dlq
  dlq,
  \* what the clock has made of deliver_time and timestamp
  overdue,          \* the messages delivered longer than the ack timeout ago
  aged,             \* the messages older than their time to live
  \* the handler threads
  pc,               \* where the thread of a client stands
  cur_m, cur_q,     \* the local variables msg and queue
  todo,             \* ids an ACK_BATCH or a REPLAY has still to take
  replayed,         \* messages a REPLAY has taken out of the DLQ, to be queued
  \* the checker thread
  checker_pc, checker_m,
  seen,             \* the messages the iteration has passed
  used,             \* the size of the dictionary when the iteration began
  timed_out,        \* the result of check_timeouts
  \* what clients have been told
  sent              \* sent[m]: the answer to the SEND of m

msgVars     == <<status, target, original_target, retry_count, delivered_to>>
clockVars   == <<overdue, aged>>
localVars   == <<pc, cur_m, cur_q, todo, replayed>>
checkerVars == <<checker_pc, checker_m, seen, used, timed_out>>
\* what every thread can reach
registry == <<messages, msgVars, dlq, clockVars>>
shared == <<queueVars, registry>>
vars == <<shared, localVars, checkerVars, sent>>

Statuses == {"PENDING", "DELIVERED", "ACKED", "DLQ"}

Steps == {"idle", "closed", "send_enqueue", "send_delete", "send_persist",
          "consume", "consume_mark", "ack_set", "ack_batch", "nack_set",
          "nack_dlq", "replay_find", "replay_pop", "replay_reset",
          "replay_route", "replay_enqueue"}

CheckerSteps == {"sleep", "timeouts", "timeout_act", "ttl", "ttl_move",
                 "ttl_insert", "stuck"}

Answers == {"none", "ok", "refused", "full", "internal"}

NeedsMessage == {"send_enqueue", "send_delete", "send_persist",
                 "consume_mark", "ack_set", "nack_set", "nack_dlq",
                 "replay_reset", "replay_enqueue"}

NeedsQueue == {"send_enqueue", "consume", "consume_mark"}

MessageTypeOK ==
  /\ messages \subseteq Msg
  /\ status \in [Msg -> Statuses]
  /\ target \in [Msg -> Queue \cup {DLQ, Nil}]
  /\ original_target \in [Msg -> Queue \cup {DLQ, Nil}]
  /\ retry_count \in [Msg -> Nat]
  /\ delivered_to \in [Msg -> Client \cup {Nil}]
  /\ dlq \subseteq Msg /\ overdue \subseteq Msg /\ aged \subseteq Msg
  /\ sent \in [Msg -> Answers]

\* A step that uses a local variable finds it set.
ThreadTypeOK ==
  /\ pc \in [Client -> Steps]
  /\ cur_m \in [Client -> Msg \cup {Nil}]
  /\ cur_q \in [Client -> Queue \cup {Nil}]
  /\ \A c \in Client : pc[c] \in NeedsMessage => cur_m[c] \in Msg
  /\ \A c \in Client : pc[c] \in NeedsQueue => cur_q[c] \in Queue

IdSetsTypeOK ==
  /\ todo \in [Client -> SUBSET Msg]
  /\ replayed \in [Client -> SUBSET Msg]

CheckerTypeOK ==
  /\ checker_pc \in CheckerSteps
  /\ checker_m \in Msg \cup {Nil}
  /\ checker_pc \in {"timeout_act", "ttl_move", "ttl_insert", "stuck"}
       => checker_m \in Msg
  /\ seen \subseteq Msg /\ used \in Nat /\ timed_out \subseteq Msg

(* Every variable stays in its type, and no thread reaches a step that     *)
(* uses a local variable without having set it.                            *)
TypeOK ==
  /\ QueueTypeOK
  /\ MessageTypeOK
  /\ ThreadTypeOK
  /\ IdSetsTypeOK
  /\ CheckerTypeOK

Init ==
  /\ QueueInit
  /\ messages = {}
  /\ status = [m \in Msg |-> "PENDING"]
  /\ target = [m \in Msg |-> Nil]
  /\ original_target = [m \in Msg |-> Nil]
  /\ retry_count = [m \in Msg |-> 0]
  /\ delivered_to = [m \in Msg |-> Nil]
  /\ dlq = {} /\ overdue = {} /\ aged = {}
  /\ pc = [c \in Client |-> "idle"]
  /\ cur_m = [c \in Client |-> Nil]
  /\ cur_q = [c \in Client |-> Nil]
  /\ todo = [c \in Client |-> {}]
  /\ replayed = [c \in Client |-> {}]
  /\ checker_pc = "sleep" /\ checker_m = Nil
  /\ seen = {} /\ used = 0 /\ timed_out = {}
  /\ sent = [m \in Msg |-> "none"]

-----------------------------------------------------------------------------
(* Thread c goes to a step with its local variables msg and queue set.     *)
GoTo(c, step, m, q) ==
  /\ pc' = [pc EXCEPT ![c] = step]
  /\ cur_m' = [cur_m EXCEPT ![c] = m]
  /\ cur_q' = [cur_q EXCEPT ![c] = q]

(* The handler returns, or raises and _dispatch answers ERR_INTERNAL. *)
Return(c) == GoTo(c, "idle", Nil, Nil)

(* check_timeouts holds AckManager._lock while it scans, and for ever once *)
(* it has called _move_to_dlq, which takes the same lock again.            *)
AckLockHeld == checker_pc \in {"timeouts", "timeout_act", "stuck"}

(* A deviation: the last retry taken for one too many. *)
AtLimit(retries) == retries >= MaxRetries

(* One retry more than nack and check_timeouts allow. *)
Exhausted(retries) == retries > MaxRetries

(* The fields back to PENDING, as nack, check_timeouts and replay do. *)
MakePending(m) ==
  /\ status' = [status EXCEPT ![m] = "PENDING"]
  /\ delivered_to' = [delivered_to EXCEPT ![m] = Nil]
  /\ overdue' = overdue \ {m}

(* The fields as _move_to_dlq sets them, before it takes the lock. *)
MarkDead(m) ==
  /\ original_target' = [original_target EXCEPT ![m] = target[m]]
  /\ target' = [target EXCEPT ![m] = DLQ]
  /\ status' = [status EXCEPT ![m] = "DLQ"]

-----------------------------------------------------------------------------
(* CREATE_QUEUE, DELETE_QUEUE: one region of QueueManager._lock each. *)
CreateQueueCmd(c, q, n) ==
  /\ pc[c] = "idle"
  /\ CreateQueue(q, n)
  /\ UNCHANGED <<registry, localVars, checkerVars, sent>>

DeleteQueueCmd(c, q) ==
  /\ pc[c] = "idle"
  /\ DeleteQueue(q)
  /\ UNCHANGED <<registry, localVars, checkerVars, sent>>

(* The connection ends, with the thread between two commands (a handler    *)
(* that is running goes on to its end first).  Unregistering a consumer    *)
(* changes no message.                                                     *)
Disconnect(c) ==
  /\ pc[c] = "idle"
  /\ pc' = [pc EXCEPT ![c] = "closed"]
  /\ UNCHANGED <<shared, cur_m, cur_q, todo, replayed, checkerVars,
                 sent>>

-----------------------------------------------------------------------------
(* SEND: route_to_queue registers the message before it tries the queue,   *)
(* takes it out again only if the queue is full, and the handler writes it *)
(* to disk when it can already be consumed.                                *)
SendRegister(c, q, m) ==
  /\ pc[c] = "idle"
  /\ sent[m] = "none" /\ m \notin messages
  /\ messages' = messages \cup {m}
  /\ target' = [target EXCEPT ![m] = q]
  /\ GoTo(c, "send_enqueue", m, q)
  /\ UNCHANGED <<queueVars, status, original_target, retry_count,
                 delivered_to, dlq, clockVars, todo, replayed, checkerVars,
                 sent>>

(* The answer to the SEND that c is executing. *)
AnswerSend(c, answer) == sent' = [sent EXCEPT ![cur_m[c]] = answer]

(* A deviation: the clean-up forgotten for a full queue, as it is for the  *)
(* other errors.                                                           *)
FullIsRefused(c) ==
  /\ pc[c] = "send_enqueue"
  /\ LET q == cur_q[c]  m == cur_m[c] IN
     \/ /\ Enqueue(q, m)
        /\ GoTo(c, "send_persist", m, Nil)
        /\ UNCHANGED sent
     \/ /\ ~Accepts(q, m)
        /\ Return(c)
        /\ AnswerSend(c, "full")
        /\ UNCHANGED queueVars
  /\ UNCHANGED <<registry, todo, replayed, checkerVars>>

SendEnqueue(c) ==
  /\ pc[c] = "send_enqueue"
  /\ LET q == cur_q[c]  m == cur_m[c] IN
     \/ /\ Enqueue(q, m)
        /\ GoTo(c, "send_persist", m, Nil)
        /\ UNCHANGED sent
     \/ /\ m \in Oversized \/ q \notin queues
        /\ Return(c)
        /\ AnswerSend(c, "refused")
        /\ UNCHANGED queueVars
     \/ /\ ~Accepts(q, m) /\ m \notin Oversized /\ q \in queues
        /\ GoTo(c, "send_delete", m, Nil)
        /\ UNCHANGED <<queueVars, sent>>
  /\ UNCHANGED <<registry, todo, replayed, checkerVars>>

SendDelete(c) ==
  /\ pc[c] = "send_delete"
  /\ messages' = messages \ {cur_m[c]}
  /\ Return(c)
  /\ AnswerSend(c, "full")
  /\ UNCHANGED <<queueVars, msgVars, dlq, clockVars, todo, replayed,
                 checkerVars>>

(* A deviation: a SEND that could not be stored is taken back, but not out *)
(* of its queue.                                                           *)
PersistRollsBack(c) ==
  /\ pc[c] = "send_persist"
  /\ \/ AnswerSend(c, "ok") /\ UNCHANGED messages
     \/ AnswerSend(c, "internal") /\ messages' = messages \ {cur_m[c]}
  /\ Return(c)
  /\ UNCHANGED <<queueVars, msgVars, dlq, clockVars, todo, replayed,
                 checkerVars>>

(* persistence.append returns or raises (the disk is full, or the log is   *)
(* closed); the message is in the queue either way.                        *)
SendPersist(c) ==
  /\ pc[c] = "send_persist"
  /\ \E answer \in {"ok", "internal"} : AnswerSend(c, answer)
  /\ Return(c)
  /\ UNCHANGED <<shared, todo, replayed, checkerVars>>

-----------------------------------------------------------------------------
(* CONSUME, and CONSUME_GROUP for the member whose turn it is. *)
ConsumeStart(c, q) ==
  /\ pc[c] = "idle"
  /\ GoTo(c, "consume", Nil, q)
  /\ UNCHANGED <<shared, todo, replayed, checkerVars, sent>>

(* A deviation: a long poll without a deadline. *)
PollsForever(c) ==
  /\ pc[c] = "consume"
  /\ LET q == cur_q[c] IN
     /\ Dequeue(q)
     /\ GoTo(c, "consume_mark", Head(items[q]), q)
  /\ UNCHANGED <<registry, todo, replayed, checkerVars, sent>>

(* One turn of the loop.  A long poll on an empty queue sleeps and tries   *)
(* again until its deadline, and then ends like a poll that does not wait. *)
ConsumeDequeue(c) ==
  /\ pc[c] = "consume"
  /\ LET q == cur_q[c] IN
     \/ /\ Dequeue(q)
        /\ GoTo(c, "consume_mark", Head(items[q]), q)
     \/ /\ q \notin queues \/ items[q] = <<>>
        /\ Return(c)
        /\ UNCHANGED queueVars
  /\ UNCHANGED <<registry, todo, replayed, checkerVars, sent>>

(* A deviation: the message handed out but not marked. *)
MarksNothing(c) ==
  /\ pc[c] = "consume_mark"
  /\ Return(c)
  /\ UNCHANGED <<shared, todo, replayed, checkerVars, sent>>

(* The status is set whatever it was; an id that is not registered is      *)
(* skipped.                                                                *)
MarkDelivered(c) ==
  /\ pc[c] = "consume_mark"
  /\ LET m == cur_m[c] IN
     \/ /\ m \in messages
        /\ status' = [status EXCEPT ![m] = "DELIVERED"]
        /\ delivered_to' = [delivered_to EXCEPT ![m] = c]
        /\ overdue' = overdue \ {m}
        /\ Return(c)
     \/ /\ m \notin messages
        /\ GoTo(c, "consume", Nil, cur_q[c])
        /\ UNCHANGED <<status, delivered_to, overdue>>
  /\ UNCHANGED <<queueVars, messages, target, original_target, retry_count,
                 dlq, aged, todo, replayed, checkerVars, sent>>

-----------------------------------------------------------------------------
(* ACK: one of a message that is not DELIVERED is answered +OK and changes *)
(* nothing.  The test and the assignment are apart: ack holds no lock.     *)
(* The first operator is a deviation: delivered_to not compared.           *)
AnyoneHolds(c, m) == status[m] = "DELIVERED"
Holds(c, m) == status[m] = "DELIVERED" /\ delivered_to[m] = c

AckCheck(c, m) ==
  /\ pc[c] = "idle"
  /\ m \in messages
  /\ Holds(c, m)
  /\ GoTo(c, "ack_set", m, Nil)
  /\ UNCHANGED <<shared, todo, replayed, checkerVars, sent>>

(* For ACK and for each id of an ACK_BATCH. *)
AckSet(c) ==
  /\ pc[c] = "ack_set"
  /\ status' = [status EXCEPT ![cur_m[c]] = "ACKED"]
  /\ IF todo[c] = {} THEN Return(c) ELSE GoTo(c, "ack_batch", Nil, Nil)
  /\ UNCHANGED <<queueVars, messages, target, original_target, retry_count,
                 delivered_to, dlq, clockVars, todo, replayed, checkerVars,
                 sent>>

(* ACK_BATCH: the ids that do not exist are failures and change nothing. *)
AckBatch(c, S) ==
  /\ pc[c] = "idle"
  /\ todo' = [todo EXCEPT ![c] = S]
  /\ GoTo(c, "ack_batch", Nil, Nil)
  /\ UNCHANGED <<shared, replayed, checkerVars, sent>>

(* The next id of the batch, in the order the client gave them. *)
AckBatchCheck(c, m) ==
  /\ pc[c] = "ack_batch"
  /\ m \in todo[c]
  /\ LET rest == todo[c] \ {m} IN
     /\ todo' = [todo EXCEPT ![c] = rest]
     /\ \/ /\ m \in messages /\ Holds(c, m)
           /\ GoTo(c, "ack_set", m, Nil)
        \/ /\ ~(m \in messages /\ Holds(c, m))
           /\ IF rest = {} THEN Return(c) ELSE GoTo(c, "ack_batch", Nil, Nil)
  /\ UNCHANGED <<shared, replayed, checkerVars, sent>>

-----------------------------------------------------------------------------
(* NACK, with the test and the assignments apart.  The statement that would *)
(* queue the message again names MessageStatus: the handler ends there.     *)
NackCheck(c, m) ==
  /\ pc[c] = "idle"
  /\ m \in messages
  /\ Holds(c, m)
  /\ GoTo(c, "nack_set", m, Nil)
  /\ UNCHANGED <<shared, todo, replayed, checkerVars, sent>>

NackSet(c) ==
  /\ pc[c] = "nack_set"
  /\ LET m == cur_m[c]
         retries == retry_count[m] + 1
     IN /\ retry_count' = [retry_count EXCEPT ![m] = retries]
        /\ \/ /\ Exhausted(retries)
              /\ MarkDead(m)
              /\ GoTo(c, "nack_dlq", m, Nil)
              /\ UNCHANGED <<delivered_to, overdue>>
           \/ /\ ~Exhausted(retries)
              /\ MakePending(m)
              /\ Return(c)
              /\ UNCHANGED <<target, original_target>>
  /\ UNCHANGED <<queueVars, messages, dlq, aged, todo, replayed, checkerVars,
                 sent>>

NackInsert(c) ==
  /\ pc[c] = "nack_dlq"
  /\ ~AckLockHeld
  /\ dlq' = dlq \cup {cur_m[c]}
  /\ Return(c)
  /\ UNCHANGED <<queueVars, messages, msgVars, clockVars, todo, replayed,
                 checkerVars, sent>>

-----------------------------------------------------------------------------
(* REPLAY of one id, REPLAY_ALL of the ids whose original target is t.     *)
ReplayStart(c, m) ==
  /\ pc[c] = "idle"
  /\ m \in messages
  /\ todo' = [todo EXCEPT ![c] = {m}]
  /\ GoTo(c, "replay_pop", Nil, Nil)
  /\ UNCHANGED <<shared, replayed, checkerVars, sent>>

ReplayAll(c) ==
  /\ pc[c] = "idle"
  /\ GoTo(c, "replay_find", Nil, Nil)
  /\ UNCHANGED <<shared, todo, replayed, checkerVars, sent>>

(* The target t of the command matters here only, under the lock.          *)
ReplayFind(c, t) ==
  /\ pc[c] = "replay_find"
  /\ ~AckLockHeld
  /\ LET found == {m \in dlq : original_target[m] = t} IN
     /\ todo' = [todo EXCEPT ![c] = found]
     /\ GoTo(c, IF found = {} THEN "idle" ELSE "replay_pop", Nil, Nil)
  /\ UNCHANGED <<shared, replayed, checkerVars, sent>>

(* After one id: the next, or on to the queues with those that were found. *)
ReplayGoesOn(c, rest, done) ==
  /\ todo' = [todo EXCEPT ![c] = rest]
  /\ replayed' = [replayed EXCEPT ![c] = done]
  /\ GoTo(c, IF rest # {} THEN "replay_pop"
             ELSE IF done # {} THEN "replay_route" ELSE "idle", Nil, Nil)

ReplayPop(c, m) ==
  /\ pc[c] = "replay_pop"
  /\ m \in todo[c]
  /\ ~AckLockHeld
  /\ dlq' = dlq \ {m}
  /\ \/ /\ m \in dlq
        /\ GoTo(c, "replay_reset", m, Nil)
        /\ UNCHANGED <<todo, replayed>>
     \/ /\ m \notin dlq
        /\ ReplayGoesOn(c, todo[c] \ {m}, replayed[c])
  /\ UNCHANGED <<queueVars, messages, msgVars, clockVars, checkerVars,
                 sent>>

(* The fields, after the lock has been released. *)
ReplayReset(c) ==
  /\ pc[c] = "replay_reset"
  /\ LET m == cur_m[c] IN
     /\ target' = [target EXCEPT ![m] = original_target[m]]
     /\ original_target' = [original_target EXCEPT ![m] = Nil]
     /\ retry_count' = [retry_count EXCEPT ![m] = 0]
     /\ MakePending(m)
     /\ ReplayGoesOn(c, todo[c] \ {m}, replayed[c] \cup {m})
  /\ UNCHANGED <<queueVars, messages, dlq, aged, checkerVars, sent>>

(* With m done, the rest of the replayed messages. *)
ReplayQueuesNext(c, rest) ==
  /\ replayed' = [replayed EXCEPT ![c] = rest]
  /\ IF rest = {} THEN Return(c) ELSE GoTo(c, "replay_route", Nil, Nil)

(* restore_message, which does nothing to a registered message, and        *)
(* queue_exists.                                                           *)
ReplayRoute(c, m) ==
  /\ pc[c] = "replay_route"
  /\ m \in replayed[c]
  /\ messages' = messages \cup {m}
  /\ \/ /\ target[m] \in queues
        /\ GoTo(c, "replay_enqueue", m, Nil)
        /\ UNCHANGED replayed
     \/ /\ target[m] \notin queues
        /\ ReplayQueuesNext(c, replayed[c] \ {m})
  /\ UNCHANGED <<queueVars, msgVars, dlq, clockVars, todo, checkerVars,
                 sent>>

(* enqueue, with the target as it is by now.  What enqueue raises ends the *)
(* command, and with it the messages that were still to be queued.         *)
ReplayEnqueue(c) ==
  /\ pc[c] = "replay_enqueue"
  /\ LET m == cur_m[c]  q == target[m] IN
     \/ /\ Enqueue(q, m)
        /\ ReplayQueuesNext(c, replayed[c] \ {m})
     \/ /\ ~Accepts(q, m)
        /\ replayed' = [replayed EXCEPT ![c] = {}]
        /\ Return(c)
        /\ UNCHANGED queueVars
  /\ UNCHANGED <<registry, todo, checkerVars, sent>>

-----------------------------------------------------------------------------
(* The checker thread, every five seconds.  The two scans iterate the      *)
(* registry itself, in some order; when its size is no longer what it was  *)
(* at the start, the next step of the iteration raises RuntimeError.       *)
CheckerGoes(step, m) == checker_pc' = step /\ checker_m' = m

ScanGoesOn == used = Cardinality(messages)

(* The pass ends, by its end or by an exception; the result is dropped. *)
EndPass ==
  /\ CheckerGoes("sleep", Nil)
  /\ seen' = {} /\ used' = 0 /\ timed_out' = {}

BeginPass ==
  /\ checker_pc = "sleep"
  /\ CheckerGoes("timeouts", Nil)
  /\ used' = Cardinality(messages)
  /\ UNCHANGED <<shared, localVars, seen, timed_out, sent>>

(* A deviation: the scan leaves the messages of a closed connection to     *)
(* somebody else.                                                          *)
ScansConnected(m) ==
  /\ checker_pc = "timeouts"
  /\ ScanGoesOn
  /\ m \in messages \ seen
  /\ seen' = seen \cup {m}
  /\ IF /\ status[m] = "DELIVERED" /\ m \in overdue
        /\ pc[delivered_to[m]] # "closed"
       THEN CheckerGoes("timeout_act", m)
       ELSE UNCHANGED <<checker_pc, checker_m>>
  /\ UNCHANGED <<shared, localVars, used, timed_out, sent>>

ScanTimeout(m) ==
  /\ checker_pc = "timeouts"
  /\ ScanGoesOn
  /\ m \in messages \ seen
  /\ seen' = seen \cup {m}
  /\ IF status[m] = "DELIVERED" /\ m \in overdue
       THEN CheckerGoes("timeout_act", m)
       ELSE UNCHANGED <<checker_pc, checker_m>>
  /\ UNCHANGED <<shared, localVars, used, timed_out, sent>>

(* One more retry, or _move_to_dlq: the thread then waits for a lock that  *)
(* it holds itself.                                                        *)
TimeoutAct ==
  /\ checker_pc = "timeout_act"
  /\ LET m == checker_m
         retries == retry_count[m] + 1
     IN /\ retry_count' = [retry_count EXCEPT ![m] = retries]
        /\ \/ /\ Exhausted(retries)
              /\ MarkDead(m)
              /\ CheckerGoes("stuck", m)
              /\ UNCHANGED <<delivered_to, overdue, timed_out>>
           \/ /\ ~Exhausted(retries)
              /\ MakePending(m)
              /\ timed_out' = timed_out \cup {m}
              /\ CheckerGoes("timeouts", Nil)
              /\ UNCHANGED <<target, original_target>>
  /\ UNCHANGED <<queueVars, messages, dlq, aged, localVars, seen, used,
                 sent>>

(* With a result, the loop in _checker_loop raises NameError on its first  *)
(* message; without one, the pass goes on to check_ttl.                    *)
EndTimeouts ==
  /\ checker_pc = "timeouts"
  /\ ScanGoesOn
  /\ messages \subseteq seen
  /\ IF timed_out = {}
       THEN /\ CheckerGoes("ttl", Nil)
            /\ seen' = {}
            /\ UNCHANGED <<used, timed_out>>
       ELSE EndPass
  /\ UNCHANGED <<shared, localVars, sent>>

ScanBroken ==
  /\ checker_pc \in {"timeouts", "ttl"}
  /\ ~ScanGoesOn
  /\ EndPass
  /\ UNCHANGED <<shared, localVars, sent>>

ScanTtl(m) ==
  /\ checker_pc = "ttl"
  /\ ScanGoesOn
  /\ m \in messages \ seen
  /\ seen' = seen \cup {m}
  /\ IF status[m] \in {"PENDING", "DELIVERED"} /\ m \in aged
       THEN CheckerGoes("ttl_move", m)
       ELSE UNCHANGED <<checker_pc, checker_m>>
  /\ UNCHANGED <<shared, localVars, used, timed_out, sent>>

(* The status EXPIRED is overwritten at once by _move_to_dlq. *)
TtlMove ==
  /\ checker_pc = "ttl_move"
  /\ MarkDead(checker_m)
  /\ CheckerGoes("ttl_insert", checker_m)
  /\ UNCHANGED <<queueVars, messages, retry_count, delivered_to, dlq,
                 clockVars, localVars, seen, used, timed_out, sent>>

TtlInsert ==
  /\ checker_pc = "ttl_insert"
  /\ dlq' = dlq \cup {checker_m}
  /\ CheckerGoes("ttl", Nil)
  /\ UNCHANGED <<queueVars, messages, msgVars, clockVars, localVars, seen,
                 used, timed_out, sent>>

(* The heartbeat check that follows changes no message. *)
EndTtl ==
  /\ checker_pc = "ttl"
  /\ ScanGoesOn
  /\ messages \subseteq seen
  /\ EndPass
  /\ UNCHANGED <<shared, localVars, sent>>

-----------------------------------------------------------------------------
(* Time.  Each scan reads the clock once, before its first message, so the *)
(* clock moves only between two passes.  A message outlives its SEND by    *)
(* far more than a handler takes (a day, against milliseconds).            *)
Elapse(m) ==
  /\ checker_pc = "sleep"
  /\ m \in messages \ overdue
  /\ status[m] = "DELIVERED"
  /\ overdue' = overdue \cup {m}
  /\ UNCHANGED <<queueVars, messages, msgVars, dlq, aged, localVars,
                 checkerVars, sent>>

Age(m) ==
  /\ checker_pc = "sleep"
  /\ m \in (messages \cap MayAge) \ aged
  /\ sent[m] # "none"
  /\ aged' = aged \cup {m}
  /\ UNCHANGED <<queueVars, messages, msgVars, dlq, overdue, localVars,
                 checkerVars, sent>>

-----------------------------------------------------------------------------
(* What c does for itself inside a command, and where it waits for a lock  *)
(* that the checker may hold.                                              *)
RunsOn(c) ==
  \/ SendEnqueue(c) \/ SendDelete(c) \/ SendPersist(c)
  \/ ConsumeDequeue(c) \/ MarkDelivered(c)
  \/ AckSet(c) \/ NackSet(c)
  \/ \E m \in Msg : AckBatchCheck(c, m)
  \/ ReplayReset(c) \/ ReplayEnqueue(c)
  \/ \E m \in Msg : ReplayRoute(c, m)

TakesLock(c) ==
  \/ NackInsert(c)
  \/ \E t \in Queue \cup {DLQ} : ReplayFind(c, t)
  \/ \E m \in Msg : ReplayPop(c, m)

Command(c) ==
  \/ \E q \in Queue, n \in Sizes : CreateQueueCmd(c, q, n)
  \/ \E q \in Queue : DeleteQueueCmd(c, q)
  \/ \E q \in Queue, m \in Msg : SendRegister(c, q, m)
  \/ \E q \in Queue : ConsumeStart(c, q)
  \/ \E m \in Msg : AckCheck(c, m) \/ NackCheck(c, m) \/ ReplayStart(c, m)
  \/ \E S \in SUBSET messages \ {{}} : AckBatch(c, S)
  \/ ReplayAll(c)
  \/ Disconnect(c)

CheckerStep ==
  \/ BeginPass \/ TimeoutAct \/ EndTimeouts \/ ScanBroken
  \/ TtlMove \/ TtlInsert \/ EndTtl
  \/ \E m \in Msg : ScanTimeout(m) \/ ScanTtl(m)

ClockStep == \E m \in Msg : Elapse(m) \/ Age(m)

Next ==
  \/ \E c \in Client : Command(c) \/ RunsOn(c) \/ TakesLock(c)
  \/ CheckerStep
  \/ ClockStep

Spec == Init /\ [][Next]_vars

(* Threads that can run do run; a thread that waits for a lock gets it when *)
(* the lock is free again and again (the checker sleeps five seconds        *)
(* between passes); the ack timeout of a delivered message passes.  Nothing *)
(* makes a client send a command or a message grow old.                     *)
Fairness ==
  /\ \A c \in Client : WF_vars(RunsOn(c)) /\ SF_vars(TakesLock(c))
  /\ WF_vars(CheckerStep)
  /\ \A m \in Msg : SF_vars(Elapse(m))

FairSpec == Spec /\ Fairness
=============================================================================
