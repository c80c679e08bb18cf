-------------------------- MODULE StreamingWindows --------------------------
(***************************************************************************)
(* The per-connection policies of the streaming core: send window,         *)
(* receive window and congestion window (send_window.rs, recv_window.rs,   *)
(* congestion.rs under crates/i2pr-client/src/streaming), as operators on  *)
(* the record of one connection.                                           *)
(*                                                                         *)
(* A packet counts one unit, so the byte limits coincide with the packet   *)
(* limits.  Sequence numbers stay far below 2^32 and the 255-entry NACK    *)
(* ceiling above every receive window (at most 128), so neither is met.    *)
(***************************************************************************)
EXTENDS Integers, Sequences, FiniteSetsExt

CONSTANTS
    SendWindow,      \* max_send_window_packets
    RecvWindow,      \* max_recv_window_packets
    InitialWindow    \* INITIAL_CONGESTION_WINDOW

ASSUME WindowAssumption ==
    /\ SendWindow \in Nat \ {0} /\ RecvWindow \in Nat \ {0} /\ InitialWindow \in Nat \ {0}
    /\ InitialWindow <= SendWindow

Larger(a, b) == IF a >= b THEN a ELSE b

\* highest_received before any packet was accepted.
Nothing == 0

\* The windows StreamingConnection::new_* makes, before there is a connection.
FreshWindows ==
    [state |-> "absent", next |-> 1, unacked |-> {}, lastAck |-> 0,
     cwnd |-> InitialWindow, inFlight |-> 0, ackedSince |-> 0,
     nextExpected |-> 1, reorder |-> <<>>, highest |-> Nothing]

-----------------------------------------------------------------------------
(* congestion.rs; the minimum window is 1, the maximum the send window. *)

RecordSent(c) == [c EXCEPT !.inFlight = @ + 1]

\* One acknowledged packet's growth sample.
GrowthSample(w) ==
    IF w.ackedSince + 1 < w.cwnd THEN [w EXCEPT !.ackedSince = @ + 1]
    ELSE [w EXCEPT !.ackedSince = 0, !.cwnd = IF @ + 1 <= SendWindow THEN @ + 1 ELSE SendWindow]

\* Once for every newly acknowledged packet.
RecordAcked(c, packets) ==
    LET grown == FoldSet(LAMBDA s, w : GrowthSample(w), c, packets)
    IN  [c EXCEPT !.inFlight = Larger(@ - Cardinality(packets), 0),
                  !.cwnd = grown.cwnd, !.ackedSince = grown.ackedSince]

RecordLoss(c) == [c EXCEPT !.cwnd = Larger(@ \div 2, 1), !.ackedSince = 0]

-----------------------------------------------------------------------------
(* send_window.rs *)

\* evaluate of both windows: Accept and Allow.
HasRoom(c) == Cardinality(c.unacked) + 1 <= SendWindow /\ c.cwnd > c.inFlight

Enqueue(c) == RecordSent([c EXCEPT !.unacked = @ \cup {c.next}, !.next = @ + 1])

\* A NACK at or above ack_through is ignored.
ValidNacks(through, nacks) == {s \in nacks : s < through}

\* acknowledge, and the congestion samples receive_ack draws from its outcome.
Acknowledge(c, through, nacks) ==
    LET nacked == ValidNacks(through, nacks)
        covered == {s \in c.unacked : s <= through}
        floor == IF nacked = {} THEN through ELSE Min(nacked) - 1
        cleared == [c EXCEPT !.unacked = @ \ (covered \ nacked), !.lastAck = Larger(@, floor)]
        sampled == RecordAcked(cleared, covered \ nacked)
    IN  IF through < c.lastAck THEN c
        ELSE IF covered \cap nacked = {} THEN sampled
        ELSE RecordLoss(sampled)

-----------------------------------------------------------------------------
(* recv_window.rs; reorder maps a buffered sequence to its payload. *)

Decision(c, seq) ==
    IF seq < c.nextExpected THEN "duplicate"
    ELSE IF seq = c.nextExpected THEN "delivered"
    ELSE IF seq >= c.nextExpected + RecvWindow THEN "tooFar"
    ELSE "buffered"

\* First sequence after seq that is neither seq nor contiguous to it in the
\* reorder buffer.
AfterRun(c, seq) ==
    CHOOSE n \in seq + 1 .. seq + RecvWindow + 1 :
        n \notin DOMAIN c.reorder /\ seq + 1 .. n - 1 \subseteq DOMAIN c.reorder

\* Fault: the drained reorder entries are discarded.
Released_OwnOnly(c, seq, msg) == <<msg>>

\* The payloads one in-order packet releases, its own first.
Released(c, seq, msg) ==
    <<msg>> \o [i \in 1 .. AfterRun(c, seq) - seq - 1 |-> c.reorder[seq + i]]

\* Fault: a packet that is refused still raises the acknowledgement ceiling.
Receive_NotesRefused(c, seq, msg) ==
    LET noted == [c EXCEPT !.highest = Larger(@, seq)]
    IN  IF Decision(c, seq) = "delivered"
        THEN [noted EXCEPT !.nextExpected = AfterRun(c, seq),
                           !.reorder = [s \in DOMAIN @ \ (seq .. AfterRun(c, seq) - 1) |-> @[s]]]
        ELSE noted

Receive(c, seq, msg) ==
    LET noted == [c EXCEPT !.highest = Larger(@, seq)]
        after == AfterRun(c, seq)
    IN  CASE Decision(c, seq) = "delivered" ->
                 [noted EXCEPT !.nextExpected = after,
                               !.reorder = [s \in DOMAIN @ \ (seq .. after - 1) |-> @[s]]]
          [] Decision(c, seq) = "buffered" ->
                 [noted EXCEPT !.reorder = [s \in DOMAIN @ \cup {seq} |-> IF s = seq THEN msg ELSE @[s]]]
          [] OTHER -> c

\* ack_view: what every outgoing packet says of the packets received.
AckThrough(c) ==
    IF c.highest = Nothing THEN 0 ELSE Larger(c.highest, c.nextExpected - 1)

Nacks(c) == {s \in c.nextExpected .. AckThrough(c) - 1 : s \notin DOMAIN c.reorder}

=============================================================================
