------------------------------ MODULE MCRestart ------------------------------
(* Restart for TLC. *)
EXTENDS Restart

\* CREATE_QUEUE sizes: one that is refused as zero, and one place.
MCSizes == {0, 1}
=============================================================================
