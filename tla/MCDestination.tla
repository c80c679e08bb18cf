--------------------------- MODULE MCDestination ---------------------------
(* A Destination with two inbound tunnels and one outbound one for TLC. *)
EXTENDS Destination
=============================================================================
