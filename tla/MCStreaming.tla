---------------------------- MODULE MCStreaming ----------------------------
(* Small streams for TLC.  A cfg chooses the uses the applications make of one. *)
EXTENDS Streaming, TLC

CONSTANTS alice, bob

\* Messages of each end over a stream that nobody ends.
DataOnly(fromAlice, fromBob) ==
    [send |-> (alice :> fromAlice) @@ (bob :> fromBob), synPayload |-> FALSE,
     close |-> {}, reset |-> {}, remove |-> {}]

\* A message in the SYN and as many back, while both ends close the stream, some
\* reset it, and the responder may drop it.
Ending(fromBob, resets) ==
    [send |-> (alice :> 1) @@ (bob :> fromBob), synPayload |-> TRUE,
     close |-> {alice, bob}, reset |-> resets, remove |-> {bob}]

\* The same with the first message in the SYN.
Opening(fromAlice, fromBob) == [DataOnly(fromAlice, fromBob) EXCEPT !.synPayload = TRUE]

\* One message more than a reader that stalls may be made to hold, in two uses: one
\* with racing timers, and one in which the stalled reader itself sends.
Racing == {Opening(4, 0), Ending(1, {}), Ending(0, {alice})}
Talking == Racing \cup {Opening(4, 1)}

ThreeAndOne == {DataOnly(3, 1)}

=============================================================================
