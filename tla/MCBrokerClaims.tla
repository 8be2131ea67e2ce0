---------------------------- MODULE MCBrokerClaims ----------------------------
(* What the specification of the broker, src/openspec/.../specs, says of   *)
(* the life of a message.  The code does otherwise: each of these is       *)
(* refuted by a run of its own.                                            *)
EXTENDS BrokerProperties, TLC

MCSizes == {0, 1}

(* "M1 is marked deliverable again at once and can be consumed by another  *)
(* consumer" (message-acknowledgment/spec.md, NACK; _cmd_nack).            *)
NackMakesConsumable ==
  \A c \in Client, m \in Msg :
    pc[c] = "nack_set" /\ cur_m[c] = m /\ retry_count[m] < MaxRetries
      ~> Queued(m) \/ status[m] = "DLQ"

(* "M5 has used up its retries and times out again: it is moved to the     *)
(* dead letter queue" (message-acknowledgment/spec.md, maximum retries;    *)
(* check_timeouts).                                                        *)
ExhaustedReachesDlq ==
  \A m \in Msg :
    checker_pc = "timeout_act" /\ checker_m = m /\ retry_count[m] >= MaxRetries
      ~> m \in dlq

(* "M1 is marked acknowledged and not delivered to anybody any more"       *)
(* (message-acknowledgment/spec.md, ACK; ack against check_timeouts).      *)
AckedIsFinal ==
  [][\A m \in Msg : status[m] = "ACKED" => status'[m] = "ACKED"]_vars
=============================================================================
