------------------------------- MODULE Restart -------------------------------
(***************************************************************************)
(* The broker over its log, through stops, kills, failures of the machine  *)
(* and new starts: Broker composed with MessageLog, which Persistence      *)
(* implements.                                                             *)
(*                                                                         *)
(* A process loses all that Broker's variables stand for; what clients     *)
(* have been told and how old a message is (its record has the time) do    *)
(* not go with it.  Connections are new, but have the ids of old ones: the *)
(* counter of consumer ids starts again.                                   *)
(***************************************************************************)
EXTENDS BrokerProperties

VARIABLES
  up, logged, torn, saved, known, recovered,  \* MessageLog's
  filed,      \* the target in the record of a message
  stopping,   \* stop has saved the index and the process is about to end
  acknowledged \* the messages ever marked ACKED, in whatever process

Log == INSTANCE MessageLog

logVars == <<up, logged, torn, saved, known, recovered, filed>>
restartVars == <<vars, logVars, stopping, acknowledged>>

RestartTypeOK ==
  /\ TypeOK /\ Log!LogTypeOK
  /\ filed \in [Msg -> Queue \cup {DLQ, Nil}]
  /\ stopping \in BOOLEAN /\ (stopping => up)
  /\ acknowledged \subseteq Msg

RestartInit ==
  /\ Init /\ Log!LogInit
  /\ filed = [m \in Msg |-> Nil]
  /\ stopping = FALSE
  /\ acknowledged = {}

-----------------------------------------------------------------------------
(* m is marked delivered, and the CONSUME of c ends with it; m is marked   *)
(* acknowledged.                                                           *)
HandedBy(c, m) == Takes(c, m) /\ pc'[c] = "idle"
AckedBy(c, m) == pc[c] = "ack_set" /\ cur_m[c] = m /\ pc'[c] # "ack_set"

Writing(c) == pc[c] = "send_persist"

(* The record of a message has the target it has while it is written. *)
File(S) == filed' = [m \in Msg |-> IF m \in S THEN target[m] ELSE filed[m]]

(* A step A of the broker: a SEND is answered +OK when its message is in   *)
(* the log, and a server that stops begins no pass of the checker.         *)
Serve(A) ==
  /\ up
  /\ A
  /\ stopping => ~BeginPass
  /\ \/ \E c \in Client :
          /\ Writing(c) /\ sent'[cur_m[c]] = "ok"
          /\ Log!LogAppend(cur_m[c])
          /\ File({cur_m[c]})
     \/ /\ \A c \in Client : Writing(c) => sent'[cur_m[c]] # "ok"
        /\ UNCHANGED logVars
  /\ acknowledged' = acknowledged \cup {m \in Msg : \E c \in Client : AckedBy(c, m)}
  /\ UNCHANGED stopping

(* stop: the listening socket is closed, and after at most five seconds    *)
(* for each thread the index is saved.                                     *)
Stop ==
  /\ ~stopping
  /\ Log!LogSave
  /\ stopping' = TRUE
  /\ UNCHANGED <<vars, filed, acknowledged>>

(* Memory is gone; a command under way is not answered any more.           *)
MemoryGone ==
  /\ queues' = {} /\ items' = [q \in Queue |-> <<>>]
  /\ max_size' = [q \in Queue |-> DefaultMaxSize]
  /\ messages' = {} /\ dlq' = {} /\ overdue' = {}
  /\ status' = [m \in Msg |-> "PENDING"]
  /\ target' = [m \in Msg |-> Nil] /\ original_target' = [m \in Msg |-> Nil]
  /\ retry_count' = [m \in Msg |-> 0]
  /\ delivered_to' = [m \in Msg |-> Nil]
  /\ pc' = [c \in Client |-> "idle"]
  /\ cur_m' = [c \in Client |-> Nil] /\ cur_q' = [c \in Client |-> Nil]
  /\ todo' = [c \in Client |-> {}] /\ replayed' = [c \in Client |-> {}]
  /\ checker_pc' = "sleep" /\ checker_m' = Nil
  /\ seen' = {} /\ used' = 0 /\ timed_out' = {}
  /\ sent' = [m \in Msg |->
                IF sent[m] = "none" /\ \E c \in Client : cur_m[c] = m
                  THEN "internal" ELSE sent[m]]
  /\ stopping' = FALSE
  /\ UNCHANGED <<aged, acknowledged>>

(* The process ends, after stop or killed at any time. *)
End ==
  /\ LET writing == {cur_m[c] : c \in {d \in Client : Writing(d)}} IN
     Log!LogEnd(writing) /\ File(writing)
  /\ MemoryGone

MachineFails ==
  /\ Log!LogFail
  /\ MemoryGone
  /\ UNCHANGED filed

(* A deviation: only what index.json names is given to the router. *)
RestoresIndexed ==
  /\ Log!LogStart
  /\ messages' = recovered' \cap saved
  /\ target' = [m \in Msg |-> IF m \in messages' THEN filed[m] ELSE Nil]
  /\ UNCHANGED <<queueVars, status, original_target, retry_count, delivered_to, dlq,
                 clockVars, localVars, checkerVars, sent, filed, stopping, acknowledged>>

(* A deviation: the queues filled again, with what was acknowledged too. *)
ResumesQueues ==
  /\ Log!LogStart
  /\ messages' = recovered'
  /\ target' = [m \in Msg |-> IF m \in messages' THEN filed[m] ELSE Nil]
  /\ queues' = {filed[m] : m \in recovered'}
  /\ items' \in {f \in [Queue -> UNION {[1 .. n -> recovered'] : n \in 0 .. 1}] :
                   UNION {Range(f[q]) : q \in Queue} = recovered'}
  /\ UNCHANGED <<max_size, status, original_target, retry_count, delivered_to, dlq,
                 clockVars, localVars, checkerVars, sent, filed, stopping, acknowledged>>

(* start: recover, and restore_message for each.  No queue is created and  *)
(* nothing is enqueued.                                                    *)
Start ==
  /\ Log!LogStart
  /\ messages' = recovered'
  /\ target' = [m \in Msg |-> IF m \in messages' THEN filed[m] ELSE Nil]
  /\ UNCHANGED <<queueVars, status, original_target, retry_count, delivered_to, dlq,
                 clockVars, localVars, checkerVars, sent, filed, stopping, acknowledged>>

RestartNext ==
  \/ Serve(Next)
  \/ Stop \/ End \/ MachineFails \/ Start

RestartSpec == RestartInit /\ [][RestartNext]_restartVars

(* The fairness of Broker, while the process is up, and a stop that has    *)
(* begun ends.  Nothing makes anybody stop, kill or start the server.      *)
RestartFairness ==
  /\ \A c \in Client :
       WF_restartVars(Serve(RunsOn(c))) /\ SF_restartVars(Serve(TakesLock(c)))
  /\ WF_restartVars(Serve(CheckerStep))
  /\ \A m \in Msg : SF_restartVars(Serve(Elapse(m)))
  /\ WF_restartVars(stopping /\ End)

FairRestartSpec == RestartSpec /\ RestartFairness

-----------------------------------------------------------------------------
(* A message that has been acknowledged and is inside its time to live is  *)
(* not handed to a consumer again, although neither the record nor the     *)
(* index tells of the ACK, although the checker may have undone it, and    *)
(* wherever the process has ended in between (ack, recover,                *)
(* restore_message).                                                       *)
AckedNotHandedOut ==
  [][\A m \in Fresh, c \in Client : HandedBy(c, m) => m \notin acknowledged]_restartVars

(* A message the log has is known to the process that runs, unless an      *)
(* index.json from before it or a torn record hides it (start).            *)
LoggedRegistered ==
  up /\ torn = {} =>
    \A m \in logged : (saved # {} => m \in saved \cup known) => m \in messages
=============================================================================
