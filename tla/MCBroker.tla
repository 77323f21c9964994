------------------------------ MODULE MCBroker ------------------------------
(* Small instances of Broker for TLC.                                      *)
EXTENDS Broker, TLC

MCSymmetry == Permutations(SessionId) \cup Permutations(Conn)
=============================================================================
