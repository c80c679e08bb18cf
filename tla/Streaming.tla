----------------------------- MODULE Streaming -----------------------------
(***************************************************************************)
(* One stream between two StreamingManagers                                *)
(* (crates/i2pr-client/src/streaming/manager.rs, connection.rs): the       *)
(* handshake, data with cumulative and negative acknowledgements, delayed  *)
(* acknowledgements, retransmission, CLOSE, RESET and removal, over a      *)
(* network that delays, reorders and loses packets.  Duplicates are the    *)
(* retransmissions of packets that also arrive.                            *)
(*                                                                         *)
(* Both ends run this code, signatures and port tuples are the right ones, *)
(* and no packet asks for a delay.  Messages are numbered in the order the *)
(* application hands them over; a message the pump has written to its      *)
(* socket is in got.  The manager is driven under one lock, so a handler   *)
(* is one step.                                                            *)
(***************************************************************************)
EXTENDS StreamingWindows

CONSTANTS
    Originator, Responder,
    MaxRetransmit,   \* max_retransmit_count
    DeliveredCap,    \* delivered_cap_bytes, in messages
    Uses,            \* bound: what the two applications may do with the stream
    RacingTimers,    \* bound: the uses in which a retransmission timer may fire while answers
                     \* are on the way
    MaxLoss          \* bound: packets the network loses

Ends == {Originator, Responder}
Peer(e) == IF e = Originator THEN Responder ELSE Originator

\* The payload of a packet without one.
Empty == 0

ASSUME StreamAssumption ==
    /\ Originator # Responder
    /\ MaxRetransmit \in Nat /\ DeliveredCap \in Nat \ {0} /\ MaxLoss \in Nat
    \* messages each end hands over, whether the first one rides in the SYN, and
    \* the ends that may close, reset or drop the stream
    /\ \A u \in Uses : u.send \in [Ends -> Nat] /\ u.synPayload \in BOOLEAN
    /\ \A u \in Uses : u.close \subseteq Ends /\ u.reset \subseteq Ends /\ u.remove \subseteq Ends
    /\ RacingTimers \subseteq Uses

VARIABLES
    conn,        \* StreamingConnection of each end
    addressed,   \* whether remote_stream_id is set
    tracked,     \* outbound_packets: sequence -> packet and retransmit_count
    pendingAck,  \* whether a standalone ACK is scheduled
    queue,       \* pending_delivered
    sent, got,   \* messages handed over; messages the application drained
    givenUp,     \* sequences whose retransmission was abandoned
    net, losses, \* packets on the way; packets lost
    use          \* what the applications do in this behaviour; never changes

vars == <<conn, addressed, tracked, pendingAck, queue, sent, got, givenUp, net, losses, use>>

States == {"absent", "removed", "OutboundSynSent", "InboundSynReceived", "Established",
           "ClosingLocal", "ClosingRemote", "Reset", "Closed"}

Kinds == {"SYN", "SYNresponse", "data", "ack", "CLOSE", "RESET"}

State(e) == conn[e].state
Live(e) == State(e) \notin {"absent", "removed"}
IsTerminal(e) == State(e) \in {"Reset", "Closed"}

\* The states in which acknowledgements are scheduled and emitted.
ActiveStates == {"OutboundSynSent", "InboundSynReceived", "Established"}

OverCap(e) == Len(queue[e]) >= DeliveredCap

\* Fault: stream id 0 finds the connection too.
Packet_Found(e, kind, seq, msg) ==
    [to |-> Peer(e), kind |-> kind, seq |-> seq, msg |-> msg, known |-> TRUE,
     through |-> AckThrough(conn[e]), nacks |-> Nacks(conn[e]), noAck |-> FALSE]

\* A packet of e; every kind carries the current acknowledgement view.
Packet(e, kind, seq, msg) ==
    [to |-> Peer(e), kind |-> kind, seq |-> seq, msg |-> msg, known |-> addressed[e],
     through |-> AckThrough(conn[e]), nacks |-> Nacks(conn[e]), noAck |-> FALSE]

Track(e, p) ==
    tracked' = [tracked EXCEPT ![e] = [s \in DOMAIN @ \cup {p.seq} |->
                    IF s = p.seq THEN [packet |-> p, count |-> 0] ELSE @[s]]]

Init ==
    /\ conn = [e \in Ends |-> FreshWindows]
    /\ addressed = [e \in Ends |-> FALSE]
    /\ tracked = [e \in Ends |-> <<>>]
    /\ pendingAck = [e \in Ends |-> FALSE]
    /\ queue = [e \in Ends |-> <<>>]
    /\ sent = [e \in Ends |-> 0]
    /\ got = [e \in Ends |-> <<>>]
    /\ givenUp = [e \in Ends |-> {}]
    /\ net = {}
    /\ losses = 0
    /\ use \in Uses

-----------------------------------------------------------------------------
(* The handshake. *)

\* connect: the SYN is queued once and not tracked for retransmission.
Connect ==
    LET e == Originator
        first == IF use.synPayload THEN 1 ELSE Empty
    IN  /\ State(e) = "absent"
        /\ conn' = [conn EXCEPT ![e].state = "OutboundSynSent"]
        /\ sent' = [sent EXCEPT ![e] = first]
        /\ net' = {Packet(e, "SYN", 0, first)}
        /\ UNCHANGED <<addressed, tracked, pendingAck, queue, got, givenUp, losses, use>>

\* handle_inbound_syn with a listener and room in its backlog.
HandleInboundSyn(p) ==
    LET e == Responder
    IN  /\ p.kind = "SYN" /\ State(e) = "absent"
        /\ conn' = [conn EXCEPT ![e].state = "InboundSynReceived"]
        /\ addressed' = [addressed EXCEPT ![e] = TRUE]
        /\ net' = net \ {p}
        /\ UNCHANGED <<tracked, pendingAck, queue, sent, got, givenUp, losses, use>>

\* handle_inbound_syn without a listener or with its backlog full: the new
\* connection is rolled back.
RefuseInboundSyn(p) ==
    /\ p.kind = "SYN"
    /\ net' = net \ {p}
    /\ UNCHANGED <<conn, addressed, tracked, pendingAck, queue, sent, got, givenUp, losses, use>>

\* accept_inbound_syn: the response is tracked under sequence 0.
AcceptInboundSyn ==
    LET e == Responder
        p == Packet(e, "SYNresponse", 0, Empty)
    IN  /\ State(e) = "InboundSynReceived"
        /\ conn' = [conn EXCEPT ![e].state = "Established"]
        /\ Track(e, p)
        /\ queue' = [queue EXCEPT ![e] = IF use.synPayload THEN Append(@, 1) ELSE @]
        /\ net' = net \cup {p}
        /\ UNCHANGED <<addressed, pendingAck, sent, got, givenUp, losses, use>>

\* handle_inbound_syn_response: the stream id is taken over before the state
\* transition, which a repeated response fails.
HandleSynResponse(p) ==
    LET e == Originator
    IN  /\ p.kind = "SYNresponse" /\ Live(e)
        /\ addressed' = [addressed EXCEPT ![e] = TRUE]
        /\ conn' = [conn EXCEPT ![e].state = IF @ = "OutboundSynSent" THEN "Established" ELSE @]
        /\ net' = net \ {p}
        /\ UNCHANGED <<tracked, pendingAck, queue, sent, got, givenUp, losses, use>>

-----------------------------------------------------------------------------
(* Local calls. *)

\* Fault: the packet acknowledges also over the cap.
SendData_Ungated(e) ==
    LET p == Packet(e, "data", conn[e].next, sent[e] + 1)
    IN  /\ State(e) = "Established" /\ sent[e] < use.send[e] /\ HasRoom(conn[e])
        /\ conn' = [conn EXCEPT ![e] = Enqueue(@)]
        /\ sent' = [sent EXCEPT ![e] = @ + 1]
        /\ Track(e, p)
        /\ net' = net \cup {p}
        /\ pendingAck' = [pendingAck EXCEPT ![e] = FALSE]
        /\ UNCHANGED <<addressed, queue, got, givenUp, losses, use>>

\* send_data: over the cap the packet carries NO_ACK and leaves the scheduled
\* acknowledgement alone.
SendData(e) ==
    LET p == [Packet(e, "data", conn[e].next, sent[e] + 1) EXCEPT !.noAck = OverCap(e)]
    IN  /\ State(e) = "Established" /\ sent[e] < use.send[e] /\ HasRoom(conn[e])
        /\ conn' = [conn EXCEPT ![e] = Enqueue(@)]
        /\ sent' = [sent EXCEPT ![e] = @ + 1]
        /\ Track(e, p)
        /\ net' = net \cup {p}
        /\ pendingAck' = [pendingAck EXCEPT ![e] = @ /\ OverCap(e)]
        /\ UNCHANGED <<addressed, queue, got, givenUp, losses, use>>

\* Fault: queueing the CLOSE ends the stream.
Closing_AtOnce(state) == "Closed"

\* The state after the local CLOSE is queued.
Closing(state) == IF state = "Established" THEN "ClosingLocal" ELSE "Closed"

\* send_close: the CLOSE takes the next sequence without entering the window.
SendClose(e) ==
    LET p == Packet(e, "CLOSE", conn[e].next, Empty)
    IN  /\ e \in use.close /\ State(e) \in {"Established", "ClosingRemote"}
        /\ conn' = [conn EXCEPT ![e].state = Closing(@)]
        /\ Track(e, p)
        /\ net' = net \cup {p}
        /\ pendingAck' = [pendingAck EXCEPT ![e] = FALSE]
        /\ UNCHANGED <<addressed, queue, sent, got, givenUp, losses, use>>

\* send_reset; a second one would only repeat the packet.
SendReset(e) ==
    /\ e \in use.reset /\ Live(e) /\ ~IsTerminal(e)
    /\ conn' = [conn EXCEPT ![e].state = "Reset"]
    /\ net' = net \cup {Packet(e, "RESET", 0, Empty)}
    /\ pendingAck' = [pendingAck EXCEPT ![e] = FALSE]
    /\ UNCHANGED <<addressed, tracked, queue, sent, got, givenUp, losses, use>>

\* drain_delivered_for: the pump takes everything queued, in any state.
Drain(e) ==
    /\ queue[e] # <<>>
    /\ got' = [got EXCEPT ![e] = @ \o queue[e]]
    /\ queue' = [queue EXCEPT ![e] = <<>>]
    /\ UNCHANGED <<conn, addressed, tracked, pendingAck, sent, givenUp, net, losses, use>>

\* remove_connection: the windows stay for the properties to look at.
RemoveConnection(e) ==
    /\ e \in use.remove /\ Live(e)
    /\ conn' = [conn EXCEPT ![e].state = "removed"]
    /\ addressed' = [addressed EXCEPT ![e] = FALSE]
    /\ tracked' = [tracked EXCEPT ![e] = <<>>]
    /\ pendingAck' = [pendingAck EXCEPT ![e] = FALSE]
    /\ queue' = [queue EXCEPT ![e] = <<>>]
    /\ UNCHANGED <<sent, got, givenUp, net, losses, use>>

-----------------------------------------------------------------------------
(* Data, CLOSE, RESET and plain acknowledgements. *)

\* Control flags act first.
AfterControl(state, kind) ==
    CASE kind = "CLOSE" /\ state = "Established" -> "ClosingRemote"
      [] kind = "CLOSE" /\ state = "ClosingLocal" -> "Closed"
      [] kind = "RESET" /\ state # "Closed" -> "Reset"
      [] OTHER -> state

\* The retransmission records an acknowledgement leaves.
StillTracked(records, p) ==
    LET kept == {s \in DOMAIN records : s > p.through \/ s \in ValidNacks(p.through, p.nacks)}
    IN  [s \in kept |-> records[s]]

\* Fault: a duplicate schedules nothing.
SchedulesAck_New(decision, state) ==
    decision \in {"delivered", "buffered"} /\ state \in ActiveStates

\* New data and duplicates schedule one coalesced acknowledgement.
SchedulesAck(decision, state) ==
    decision \in {"delivered", "buffered", "duplicate"} /\ state \in ActiveStates

\* The delivered bytes of a release: the one packet without a payload, the
\* peer's CLOSE, adds nothing.
Payloads(out) ==
    IF \E i \in DOMAIN out : out[i] = Empty
    THEN LET i == CHOOSE i \in DOMAIN out : out[i] = Empty
         IN  [k \in 1 .. Len(out) - 1 |-> out[IF k < i THEN k ELSE k + 1]]
    ELSE out

\* handle_data_packet: control, then the acknowledgement, then the receive
\* window, then the schedule of the answer and the delivery.
HandleData(e, p) ==
    LET state == AfterControl(State(e), p.kind)
        terminated == state \in {"Reset", "Closed"}
        acks == ~p.noAck /\ ~terminated
        acked == IF acks THEN Acknowledge(conn[e], p.through, p.nacks) ELSE conn[e]
        enters == ~terminated /\ p.seq # 0
        decision == IF enters THEN Decision(acked, p.seq) ELSE "none"
        out == IF decision = "delivered" THEN Released(acked, p.seq, p.msg) ELSE <<>>
    IN  /\ p.kind \in {"data", "ack", "CLOSE", "RESET"} /\ p.known /\ Live(e)
        /\ conn' = [conn EXCEPT ![e] =
                       [(IF enters THEN Receive(acked, p.seq, p.msg) ELSE acked) EXCEPT !.state = state]]
        /\ tracked' = [tracked EXCEPT ![e] = IF acks THEN StillTracked(@, p) ELSE @]
        /\ pendingAck' = [pendingAck EXCEPT ![e] =
                             ~terminated /\ (@ \/ SchedulesAck(decision, state))]
        /\ queue' = [queue EXCEPT ![e] = @ \o Payloads(out)]
        /\ net' = net \ {p}
        /\ UNCHANGED <<addressed, sent, got, givenUp, losses, use>>

\* process_inbound_packet without a connection for the packet's stream id.
DropUnknown(e, p) ==
    /\ p.kind # "SYN" /\ (~p.known \/ ~Live(e))
    /\ net' = net \ {p}
    /\ UNCHANGED <<conn, addressed, tracked, pendingAck, queue, sent, got, givenUp, losses, use>>

Deliver(p) ==
    \/ HandleInboundSyn(p)
    \/ RefuseInboundSyn(p)
    \/ HandleSynResponse(p)
    \/ HandleData(p.to, p)
    \/ DropUnknown(p.to, p)

-----------------------------------------------------------------------------
(* The polls of the delivery sweep. *)

\* poll_acks; over the cap the deadline is put off, which changes nothing here.
PollAcks(e) ==
    /\ pendingAck[e]
    /\ State(e) \in ActiveStates => ~OverCap(e)
    /\ pendingAck' = [pendingAck EXCEPT ![e] = FALSE]
    /\ net' = IF State(e) \in ActiveStates THEN net \cup {Packet(e, "ack", 0, Empty)} ELSE net
    /\ UNCHANGED <<conn, addressed, tracked, queue, sent, got, givenUp, losses, use>>

\* Nothing is on its way and nothing scheduled.
Quiet == net = {} /\ \A e \in Ends : ~pendingAck[e]

\* A packet sent once more.
Repeated(record) == [record EXCEPT !.count = @ + 1]

\* poll_retransmits with the given sequences expired.  A packet out of attempts
\* loses its record; its window slot and its in-flight count stay.
PollRetransmits(e, expired) ==
    LET spent == {s \in expired : tracked[e][s].count >= MaxRetransmit}
    IN  /\ expired # {}
        /\ use \in RacingTimers \/ (Quiet /\ expired = DOMAIN tracked[e])
        /\ tracked' = [tracked EXCEPT ![e] = [s \in DOMAIN @ \ spent |->
                          IF s \in expired THEN Repeated(@[s]) ELSE @[s]]]
        /\ givenUp' = [givenUp EXCEPT ![e] = @ \cup spent]
        /\ net' = net \cup {tracked[e][s].packet : s \in expired \ spent}
        /\ UNCHANGED <<conn, addressed, pendingAck, queue, sent, got, losses, use>>

\* The network loses a packet.
Lose(p) ==
    /\ losses < MaxLoss
    /\ net' = net \ {p}
    /\ losses' = losses + 1
    /\ UNCHANGED <<conn, addressed, tracked, pendingAck, queue, sent, got, givenUp, use>>

Sweep(e) ==
    \/ PollAcks(e)
    \/ \E expired \in SUBSET DOMAIN tracked[e] : PollRetransmits(e, expired)

Next ==
    \/ Connect
    \/ AcceptInboundSyn
    \/ \E e \in Ends : SendData(e) \/ SendClose(e) \/ SendReset(e) \/ Drain(e) \/ RemoveConnection(e)
    \/ \E p \in net : Deliver(p) \/ Lose(p)
    \/ \E e \in Ends : Sweep(e)

\* Packets travel, the sweep task polls both managers again and again, a
\* listener accepts and the pumps drain; nobody is obliged to send.
Fairness ==
    /\ WF_vars(\E p \in net : Deliver(p))
    /\ WF_vars(AcceptInboundSyn)
    /\ \A e \in Ends : WF_vars(Sweep(e)) /\ WF_vars(Drain(e))

Spec == Init /\ [][Next]_vars /\ Fairness

-----------------------------------------------------------------------------
(* Properties. *)

PacketType ==
    [to : Ends, kind : Kinds, seq : Nat, msg : Nat, known : BOOLEAN,
     through : Nat, nacks : SUBSET Nat, noAck : BOOLEAN]

\* Types of the connections, the manager's tables and the network.
TypeOK ==
    /\ \A e \in Ends :
          /\ conn[e].state \in States
          /\ conn[e].unacked \subseteq 1 .. conn[e].next - 1
          /\ conn[e].cwnd \in 1 .. SendWindow /\ conn[e].ackedSince \in 0 .. conn[e].cwnd
          /\ conn[e].nextExpected \in Nat \ {0} /\ conn[e].highest \in Nat
          /\ \A s \in DOMAIN tracked[e] :
                tracked[e][s].packet \in PacketType /\ tracked[e][s].count \in 0 .. MaxRetransmit
          /\ sent[e] \in 0 .. Larger(use.send[e], 1)
          /\ queue[e] \in Seq(Nat) /\ got[e] \in Seq(Nat)
    /\ addressed \in [Ends -> BOOLEAN] /\ pendingAck \in [Ends -> BOOLEAN]
    /\ net \subseteq PacketType
    /\ losses \in 0 .. MaxLoss /\ use \in Uses

\* What the application of an end has received or can drain.
Received(e) == got[e] \o queue[e]

\* The application sees exactly the messages its peer handed over, each once and
\* in order, however the packets that carry them (the SYN included) are delayed,
\* reordered, lost and retransmitted (recv_window.rs receive, handle_data_packet).
InOrderOnce ==
    \A e \in Ends :
        /\ Len(Received(e)) <= sent[Peer(e)]
        /\ \A i \in 1 .. Len(Received(e)) : Received(e)[i] = i

\* The receiver has taken the packet with this sequence into its window.
Holds(e, seq) == seq < conn[e].nextExpected \/ seq \in DOMAIN conn[e].reorder

\* A packet leaves the send window only once the receiver holds it, and its
\* retransmission record only then or when its attempts are spent: stale,
\* repeated and selective acknowledgements never clear a packet that is still
\* missing (send_window.rs acknowledge, handle_data_packet).
ClearedIsHeld ==
    \A e \in Ends : \A s \in 1 .. conn[e].next - 1 :
        \/ s \in conn[e].unacked /\ (Live(e) => s \in DOMAIN tracked[e] \cup givenUp[e])
        \/ Holds(Peer(e), s)

\* The SYN response is repeated until the originator has its stream id: data that
\* overtakes the response cannot make the originator confirm it
\* (accept_inbound_syn, process_inbound_packet).
SynResponseConfirmed ==
    Live(Responder) /\ State(Responder) # "InboundSynReceived" /\ ~IsTerminal(Responder) =>
        \/ 0 \in DOMAIN tracked[Responder] \cup givenUp[Responder]
        \/ addressed[Originator]
        \/ State(Originator) = "removed"

\* The congestion policy's in-flight count is the number of unacknowledged
\* packets, which the send window bounds, and the reorder buffer never holds a
\* packet outside the receive window (record_sent, record_acked, evaluate).  A
\* reader that stalls holds back its peer, also while it sends data itself: because
\* acknowledgements stop at the cap, what is delivered and undrained stays within
\* what the last acknowledgement covered (less than the cap and, out of order, less
\* than a receive window, or the message of the SYN) and one send window (poll_acks,
\* send_data).
WindowsExact ==
    /\ TypeOK
    /\ \A e \in Ends :
        /\ conn[e].inFlight = Cardinality(conn[e].unacked)
        /\ conn[e].inFlight <= SendWindow
        /\ \A s \in DOMAIN conn[e].reorder :
              conn[e].nextExpected < s /\ s < conn[e].nextExpected + RecvWindow
        /\ Len(queue[e]) <= Larger((DeliveredCap - 1) + (RecvWindow - 1), IF use.synPayload THEN 1 ELSE 0)
                              + SendWindow

\* No end is Closed while the other still takes the stream for open: an end that
\* merely sent its CLOSE waits for the peer's (send_close, handle_data_packet).
ClosedTogether ==
    \A e \in Ends : State(e) = "Closed" => State(Peer(e)) \notin ActiveStates

\* A stream that nobody closes recovers from lost packets and lost
\* acknowledgements: the send window always empties again (poll_retransmits, the
\* acknowledgement of duplicates in handle_data_packet).
Recovers ==
    \A e \in Ends : conn[e].unacked # {} ~> conn[e].unacked = {}

\* "After RESET or full close no queued or subsequent application bytes are ever
\* delivered" (plans/closure/destination-streaming/129-status.md): a drain after
\* the end of the connection returns nothing (drain_delivered_for).
NothingAfterTerminal ==
    [][\A e \in Ends : IsTerminal(e) => got'[e] = got[e]]_vars

\* A packet whose retransmissions are exhausted gives its window slot back, as the
\* comment of SendWindowPolicy::remove has it (poll_retransmits).
GivenUpIsReleased ==
    \A e \in Ends : givenUp[e] \cap conn[e].unacked = {}

=============================================================================
