---------------------------- MODULE MCPersistence ----------------------------
(* Persistence for TLC, and what its specification says of it              *)
(* (message-persistence/spec.md).                                          *)
EXTENDS Persistence, TLC

CONSTANT Long
MCLength == [m \in Msg |-> IF m \in Long THEN 3 ELSE 2]
MCSymmetry == Permutations(Thread) \cup Permutations(Long) \cup Permutations(Msg \ Long)

Answered == {m \in Msg \ lost : answer[m] = "ok"}

(* "After a crash, with 500 messages persisted, the segments are scanned   *)
(* and all 500 messages recovered" (crash recovery; recover): with every   *)
(* record whole nothing is missing after a start.                          *)
CrashRecoversAll ==
  /\ server = "up"
  /\ \A s \in Segment : \A i \in DOMAIN log[s] : Whole(log[s][i])
  => Answered \subseteq DOMAIN index

(* "The incomplete last record is dropped and the other messages are       *)
(* recovered" (damaged segment; recover), also those that were appended    *)
(* behind it.                                                              *)
TornTailHarmless ==
  server = "up" /\ index_file = Empty => Answered \subseteq DOMAIN index
=============================================================================
