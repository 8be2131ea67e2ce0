------------------------------ MODULE MCBroker ------------------------------
(* Broker for TLC: what the configurations cannot write down themselves.   *)
EXTENDS BrokerProperties, TLC

\* CREATE_QUEUE sizes: one that is refused as zero, and one place.
MCSizes == {0, 1}

MCSymmetry == Permutations(Client) \cup Permutations(Msg)
=============================================================================
