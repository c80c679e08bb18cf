------------------------ MODULE MCTransportManager ------------------------
(* Small instances of TransportManager for TLC. *)
EXTENDS TransportManager, TLC

Symmetric == Permutations(Handshakers) \cup Permutations(Senders)

===========================================================================
