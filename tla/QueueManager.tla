---------------------------- MODULE QueueManager ----------------------------
(***************************************************************************)
(* The queue manager, src/queue_manager.py: named FIFO queues of bounded   *)
(* length.  Every method body is one region of QueueManager._lock, so each *)
(* is one atomic action here; a call that raises leaves the state as it is *)
(* and is a stuttering step.                                               *)
(*                                                                         *)
(* The dictionary _queues is split in three: its keys, and for each key    *)
(* the deque and the capacity stored with it.  Broker uses these actions   *)
(* as the queue part of the steps of its threads.                          *)
(***************************************************************************)
EXTENDS Integers, Sequences

CONSTANTS
  Queue,            \* queue names that pass _validate_name
  Msg,              \* message ids
  Oversized,        \* the messages whose body exceeds max_message_bytes
  Sizes,            \* the values of max_size a CREATE_QUEUE may carry
  DefaultMaxSize    \* _default_max_size

ASSUME SizesAssumption ==
  /\ Oversized \subseteq Msg
  /\ Sizes \subseteq Int
  /\ DefaultMaxSize \in Nat \ {0}

VARIABLES
  queues,     \* the keys of _queues
  items,      \* items[q]: the deque of message ids waiting in q
  max_size    \* max_size[q]: the capacity of q

queueVars == <<queues, items, max_size>>

QueueTypeOK ==
  /\ queues \subseteq Queue
  /\ items \in [Queue -> Seq(Msg)]
  /\ max_size \in [Queue -> Nat \ {0}]

QueueInit ==
  /\ queues = {}
  /\ items = [q \in Queue |-> <<>>]
  /\ max_size = [q \in Queue |-> DefaultMaxSize]

-----------------------------------------------------------------------------
(* A deviation, as are the operators of this kind below: each changes the  *)
(* definition after it as a slip in the code would.  No action uses them.  *)
SizeAsGiven(n) == n

(* A size of zero or less, like an absent one, stands for the default. *)
Capacity(n) == IF n <= 0 THEN DefaultMaxSize ELSE n

CreateQueue(q, n) ==
  /\ q \notin queues
  /\ queues' = queues \cup {q}
  /\ items' = [items EXCEPT ![q] = <<>>]
  /\ max_size' = [max_size EXCEPT ![q] = Capacity(n)]

DeleteQueue(q) ==
  /\ q \in queues
  /\ items[q] = <<>>
  /\ queues' = queues \ {q}
  /\ UNCHANGED <<items, max_size>>

(* A deviation: the capacity test as `len(q) > max_size` would write it. *)
AcceptsOneTooMany(q, m) ==
  q \in queues /\ m \notin Oversized /\ Len(items[q]) <= max_size[q]

(* enqueue raises unless the body is valid, q exists and q has room. *)
Accepts(q, m) ==
  q \in queues /\ m \notin Oversized /\ Len(items[q]) < max_size[q]

Enqueue(q, m) ==
  /\ Accepts(q, m)
  /\ items' = [items EXCEPT ![q] = Append(@, m)]
  /\ UNCHANGED <<queues, max_size>>

(* A deviation: the head returned and left in the queue. *)
PeekHead(q) ==
  /\ q \in queues
  /\ items[q] # <<>>
  /\ UNCHANGED queueVars

Dequeue(q) ==
  /\ q \in queues
  /\ items[q] # <<>>
  /\ items' = [items EXCEPT ![q] = Tail(@)]
  /\ UNCHANGED <<queues, max_size>>

-----------------------------------------------------------------------------
QueueNext ==
  \E q \in Queue :
    \/ \E n \in Sizes : CreateQueue(q, n)
    \/ DeleteQueue(q)
    \/ \E m \in Msg : Enqueue(q, m)
    \/ Dequeue(q)

QueueSpec == QueueInit /\ [][QueueNext]_queueVars

(* No queue is ever longer than the capacity it was created with, whatever *)
(* size the client asked for (create_queue, enqueue).                      *)
CapacityRespected ==
  \A q \in queues : Len(items[q]) <= max_size[q]

(* What the proofs need besides: a name that is not in use has no messages *)
(* left over (delete_queue's QueueNotEmptyError).                          *)
NoOrphanItems ==
  \A q \in Queue \ queues : items[q] = <<>>
=============================================================================
