-------------------------- MODULE MCBoundedChannel --------------------------
(* A small instance of BoundedChannel: two senders make more calls than the    *)
(* queue has slots, with a budget that can run out before the slots do.        *)
EXTENDS BoundedChannel, TLC

CONSTANTS s1, s2

\* One sender waits for room and answers only, the other also tries.
Clients == (s1 :> {"try", "request"}) @@ (s2 :> {"request"})

=============================================================================
