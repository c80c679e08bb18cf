-------------------------- MODULE StreamingProofs --------------------------
(***************************************************************************)
(* Proofs about Streaming for every window size, retransmission limit, use *)
(* of the stream and number of lost packets: both ends see the messages of *)
(* their peer once and in order, acknowledgements clear only what the      *)
(* receiver holds, no end is Closed while its peer takes the stream for    *)
(* open, and the SYN response is repeated until it is confirmed.           *)
(*                                                                         *)
(* The argument follows the packets.  Whatever an end has put on the       *)
(* network or keeps for retransmission stays true of that end (GoodPacket) *)
(* because an end only moves forward (Evolves); the receiver's window then *)
(* holds what good packets carry (InWindow).                               *)
(***************************************************************************)
EXTENDS Streaming, TLAPS

\* The time the solvers have for a leaf; one that is interrupted is tried again.
USE SMTT(30), Z3T(30), ZenonT(30), SMTT(40)

ConnFields == {"state", "next", "unacked", "lastAck", "cwnd", "inFlight", "ackedSince",
               "nextExpected", "reorder", "highest"}

IsFcn(f) == f = [x \in DOMAIN f |-> f[x]]

\* Every missing sequence of the receive window from n has a next one.
Gaps(reorder, n) ==
    \A m \in n .. n + RecvWindow :
        m \notin DOMAIN reorder =>
            \E l \in m + 1 .. n + RecvWindow + 1 :
                l \notin DOMAIN reorder /\ m + 1 .. l - 1 \subseteq DOMAIN reorder

\* The record of a connection; its congestion fields and lastAck are left open.
IsConn(c) ==
    /\ IsFcn(c) /\ DOMAIN c = ConnFields
    /\ c.state \in States
    /\ c.next \in Nat \ {0} /\ c.nextExpected \in Nat \ {0} /\ c.highest \in Nat
    /\ c.unacked \subseteq Nat
    /\ IsFcn(c.reorder)
    /\ \A s \in DOMAIN c.reorder :
          s \in Nat /\ c.nextExpected < s /\ s < c.nextExpected + RecvWindow /\ c.reorder[s] \in Nat
    /\ Gaps(c.reorder, c.nextExpected)

Records(e) ==
    /\ IsFcn(tracked[e])
    /\ \A s \in DOMAIN tracked[e] : s \in Nat /\ tracked[e][s] \in [packet : PacketType, count : Nat]

Types ==
    /\ conn = [e \in Ends |-> conn[e]] /\ \A e \in Ends : IsConn(conn[e])
    /\ tracked = [e \in Ends |-> tracked[e]] /\ \A e \in Ends : Records(e)
    /\ addressed \in [Ends -> BOOLEAN] /\ pendingAck \in [Ends -> BOOLEAN]
    /\ queue \in [Ends -> Seq(Nat)] /\ got \in [Ends -> Seq(Nat)]
    /\ sent \in [Ends -> Nat]
    /\ givenUp = [e \in Ends |-> givenUp[e]]
    /\ net \subseteq PacketType /\ use \in Uses

\* The states of an end that queued its CLOSE or is past the stream.
Ended == {"ClosingLocal", "Closed", "Reset", "removed"}

\* The states in which payloads enter the receive window.
Taking == {"OutboundSynSent", "Established", "ClosingLocal", "ClosingRemote"}

\* The responder has answered the SYN.
Answered == State(Responder) \notin {"absent", "InboundSynReceived"}

\* How far the message numbers of an end run ahead of its sequence numbers.
Offset(e) == IF e = Originator /\ use.synPayload THEN 1 ELSE 0

\* What every packet of e says stays true of e.
GoodPacket(e, p) ==
    /\ p.to = Peer(e)
    /\ State(e) # "absent"
    /\ p.known => addressed[e] \/ State(e) = "removed"
    /\ (p.known /\ e = Originator) \/ p.kind = "SYNresponse" => Answered
    /\ p.kind \in {"SYN", "SYNresponse", "ack", "RESET"} => p.seq = 0
    /\ p.kind = "data" => p.seq \in 1 .. conn[e].next - 1 /\ p.msg = p.seq + Offset(e)
    /\ p.kind = "CLOSE" => p.seq = conn[e].next /\ p.msg = Empty /\ State(e) \in Ended
    /\ \A s \in 1 .. p.through : s \in ValidNacks(p.through, p.nacks) \/ Holds(e, s)

Packets(e) ==
    {p \in net : p.to = Peer(e)} \cup {tracked[e][s].packet : s \in DOMAIN tracked[e]}

PacketsGood == \A e \in Ends : \A p \in Packets(e) : GoodPacket(e, p)

\* The content of the packet of e with sequence s.
Carries(e, s, m) ==
    \/ s \in 1 .. conn[e].next - 1 /\ m = s + Offset(e)
    \/ s = conn[e].next /\ m = Empty /\ State(e) \in Ended

\* The messages among the packets of Peer(e) that e has taken in order.
Below(e) ==
    (IF conn[e].nextExpected <= conn[Peer(e)].next THEN conn[e].nextExpected ELSE conn[Peer(e)].next)
        - 1 + Offset(Peer(e))

\* The receiving side of e.
InWindow(e) ==
    /\ \/ conn[e].highest < conn[e].nextExpected
       \/ conn[e].highest \in DOMAIN conn[e].reorder
    /\ \A s \in DOMAIN conn[e].reorder : Carries(Peer(e), s, conn[e].reorder[s])
    /\ \/ conn[e].nextExpected <= conn[Peer(e)].next
       \/ conn[e].nextExpected = conn[Peer(e)].next + 1 /\ State(Peer(e)) \in Ended
    /\ Len(Received(e)) <= Below(e)
    /\ State(e) \in Taking => Len(Received(e)) = Below(e)
    /\ \A i \in 1 .. Len(Received(e)) : Received(e)[i] = i

\* Nothing was sent or received yet.
Untouched(e) ==
    /\ conn[e].next = 1 /\ conn[e].nextExpected = 1 /\ conn[e].reorder = <<>>
    /\ sent[e] = 0 /\ got[e] = <<>> /\ queue[e] = <<>>

\* How the two ends come into being.
Beginnings ==
    /\ State(Originator) # "InboundSynReceived" /\ State(Responder) # "OutboundSynSent"
    /\ \A e \in Ends : State(e) = "absent" => Untouched(e)
    /\ ~Answered => Untouched(Responder) /\ ~addressed[Originator]
    /\ State(Originator) = "absent" => State(Responder) = "absent"
    /\ \A e \in Ends : State(e) # "absent" => sent[e] = conn[e].next - 1 + Offset(e)

\* Who has closed.
Endings == \A e \in Ends : State(e) \in {"ClosingRemote", "Closed"} => State(Peer(e)) \in Ended

StreamInv ==
    /\ Types /\ Beginnings /\ PacketsGood /\ Endings
    /\ \A e \in Ends : InWindow(e)
    /\ ClearedIsHeld /\ SynResponseConfirmed

-----------------------------------------------------------------------------
(* The two ends, and the records of connections. *)

\* Each end is the other's peer.
LEMMA TwoEnds ==
    ASSUME NEW e \in Ends
    PROVE  /\ Peer(e) \in Ends /\ Peer(e) # e /\ Peer(Peer(e)) = e
           /\ \A x \in Ends : x = e \/ x = Peer(e)
  BY StreamAssumption DEF Ends, Peer

\* The fields of c that no change of state touches are those of d.
SameWindows(c, d) ==
    /\ d.next = c.next /\ d.unacked = c.unacked
    /\ d.nextExpected = c.nextExpected /\ d.reorder = c.reorder /\ d.highest = c.highest

\* A new state leaves the windows alone.
LEMMA NewState ==
    ASSUME NEW c, IsConn(c), NEW v \in States
    PROVE  /\ IsConn([c EXCEPT !.state = v])
           /\ [c EXCEPT !.state = v].state = v
           /\ SameWindows(c, [c EXCEPT !.state = v])
  BY DEF IsConn, IsFcn, ConnFields, SameWindows

\* A state assignment of the model, for both ends.
LEMMA StateStep ==
    ASSUME Types, NEW e \in Ends, NEW v \in States, conn' = [conn EXCEPT ![e].state = v]
    PROVE  /\ conn' = [x \in Ends |-> conn'[x]] /\ \A x \in Ends : IsConn(conn'[x])
           /\ conn'[e].state = v /\ SameWindows(conn[e], conn'[e])
           /\ conn'[Peer(e)] = conn[Peer(e)]
  <1>1. conn' = [conn EXCEPT ![e] = [conn[e] EXCEPT !.state = v]]  OBVIOUS
  <1>2. conn'[e] = [conn[e] EXCEPT !.state = v] /\ conn'[Peer(e)] = conn[Peer(e)]
        /\ conn' = [x \in Ends |-> conn'[x]]
    BY <1>1, TwoEnds, ZenonT(60) DEF Types
  <1>3. IsConn(conn[e]) /\ IsConn(conn[Peer(e)])  BY TwoEnds DEF Types
  <1> QED  BY <1>2, <1>3, NewState, TwoEnds, ZenonT(60)

\* enqueue: the next sequence enters the send window.
LEMMA EnqueueIs ==
    ASSUME NEW c, IsConn(c)
    PROVE  /\ IsConn(Enqueue(c))
           /\ Enqueue(c).state = c.state /\ Enqueue(c).next = c.next + 1
           /\ Enqueue(c).unacked = c.unacked \cup {c.next}
           /\ Enqueue(c).nextExpected = c.nextExpected /\ Enqueue(c).reorder = c.reorder
           /\ Enqueue(c).highest = c.highest
  <1> DEFINE d == [c EXCEPT !.unacked = @ \cup {c.next}, !.next = @ + 1]
             i == d.inFlight + 1
             z == [d EXCEPT !.inFlight = i]
  <1>1. Enqueue(c) = z  BY DEF Enqueue, RecordSent
  <1>2. /\ IsFcn(d) /\ DOMAIN d = ConnFields /\ d.state = c.state /\ d.next = c.next + 1
        /\ d.unacked = c.unacked \cup {c.next} /\ d.nextExpected = c.nextExpected
        /\ d.reorder = c.reorder /\ d.highest = c.highest
    BY ZenonT(60) DEF IsConn, IsFcn, ConnFields
  <1> HIDE DEF d, i
  <1>3. /\ IsFcn(z) /\ DOMAIN z = ConnFields /\ z.state = d.state /\ z.next = d.next
        /\ z.unacked = d.unacked /\ z.nextExpected = d.nextExpected
        /\ z.reorder = d.reorder /\ z.highest = d.highest
    BY <1>2, ZenonT(60) DEF IsFcn, ConnFields
  <1> HIDE DEF z
  <1> QED  BY <1>1, <1>2, <1>3 DEF IsConn

\* acknowledge: at most the covered packets that are not nacked leave the send
\* window; the receive side stays.
LEMMA AcknowledgeIs ==
    ASSUME NEW c, IsConn(c), NEW through \in Nat, NEW nacks \in SUBSET Nat
    PROVE  LET a == Acknowledge(c, through, nacks)
           IN  /\ IsConn(a) /\ a.state = c.state /\ a.next = c.next
               /\ \A s \in c.unacked : s \in a.unacked
                                       \/ (s <= through /\ s \notin ValidNacks(through, nacks))
               /\ a.unacked \subseteq c.unacked
               /\ a.nextExpected = c.nextExpected /\ a.reorder = c.reorder /\ a.highest = c.highest
  <1> DEFINE gone == {s \in c.unacked : s <= through} \ ValidNacks(through, nacks)
             Same(a) == /\ IsConn(a) /\ a.state = c.state /\ a.next = c.next
                        /\ a.nextExpected = c.nextExpected /\ a.reorder = c.reorder
                        /\ a.highest = c.highest
  <1>1. ASSUME NEW last PROVE Same([c EXCEPT !.unacked = @ \ gone, !.lastAck = last])
                              /\ [c EXCEPT !.unacked = @ \ gone, !.lastAck = last].unacked = c.unacked \ gone
    BY ZenonT(60) DEF IsConn, IsFcn, ConnFields
  <1>2. ASSUME NEW d, Same(d), NEW packets
        PROVE Same(RecordAcked(d, packets)) /\ RecordAcked(d, packets).unacked = d.unacked
    <2> DEFINE grown == FoldSet(LAMBDA s, w : GrowthSample(w), d, packets)
               i == Larger(d.inFlight - Cardinality(packets), 0)
               w == grown.cwnd
               k == grown.ackedSince
               z == [d EXCEPT !.inFlight = i, !.cwnd = w, !.ackedSince = k]
    <2>1. RecordAcked(d, packets) = z  BY DEF RecordAcked
    <2> HIDE DEF i, w, k
    <2>2. /\ IsFcn(z) /\ DOMAIN z = ConnFields /\ z.state = d.state /\ z.next = d.next
          /\ z.unacked = d.unacked /\ z.nextExpected = d.nextExpected
          /\ z.reorder = d.reorder /\ z.highest = d.highest
      BY <1>2, ZenonT(60) DEF IsConn, IsFcn, ConnFields
    <2> HIDE DEF z
    <2> QED  BY <1>2, <2>1, <2>2 DEF IsConn
  <1>3. ASSUME NEW d, Same(d) PROVE Same(RecordLoss(d)) /\ RecordLoss(d).unacked = d.unacked
    <2> DEFINE w == Larger(d.cwnd \div 2, 1)
               z == [d EXCEPT !.cwnd = w, !.ackedSince = 0]
    <2>1. RecordLoss(d) = z  BY DEF RecordLoss
    <2> HIDE DEF w
    <2>2. /\ IsFcn(z) /\ DOMAIN z = ConnFields /\ z.state = d.state /\ z.next = d.next
          /\ z.unacked = d.unacked /\ z.nextExpected = d.nextExpected
          /\ z.reorder = d.reorder /\ z.highest = d.highest
      BY <1>3, ZenonT(60) DEF IsConn, IsFcn, ConnFields
    <2> HIDE DEF z
    <2> QED  BY <1>3, <2>1, <2>2 DEF IsConn
  <1> DEFINE nacked == ValidNacks(through, nacks)
             covered == {s \in c.unacked : s <= through}
             floor == IF nacked = {} THEN through ELSE Min(nacked) - 1
             last == Larger(c.lastAck, floor)
             cleared == [c EXCEPT !.unacked = @ \ gone, !.lastAck = last]
             sampled == RecordAcked(cleared, gone)
             a == Acknowledge(c, through, nacks)
  <1>4. a = IF through < c.lastAck THEN c ELSE IF covered \cap nacked = {} THEN sampled
            ELSE RecordLoss(sampled)
    BY DEF Acknowledge
  <1> HIDE DEF last
  <1>5. Same(cleared) /\ cleared.unacked = c.unacked \ gone  BY <1>1, ZenonT(60)
  <1> HIDE DEF cleared
  <1>6. Same(sampled) /\ sampled.unacked = c.unacked \ gone  BY <1>2, <1>5
  <1> HIDE DEF sampled
  <1>7. Same(RecordLoss(sampled)) /\ RecordLoss(sampled).unacked = c.unacked \ gone  BY <1>3, <1>6
  <1>8. Same(c)  OBVIOUS
  <1>9. Same(a) /\ (a.unacked = c.unacked \/ a.unacked = c.unacked \ gone)
    BY <1>4, <1>6, <1>7, <1>8
  <1> HIDE DEF a
  <1> QED  BY <1>9 DEF a

\* Two fresh ends.
LEMMA FreshStart ==
    ASSUME Init
    PROVE  StreamInv
  <1>1. /\ \A e \in Ends : conn[e] = FreshWindows /\ ~addressed[e] /\ tracked[e] = <<>>
                           /\ queue[e] = <<>> /\ got[e] = <<>> /\ sent[e] = 0
        /\ net = {} /\ use \in Uses
    BY DEF Init
  <1>2. /\ FreshWindows.state = "absent" /\ FreshWindows.next = 1 /\ FreshWindows.unacked = {}
        /\ FreshWindows.nextExpected = 1 /\ FreshWindows.reorder = <<>> /\ FreshWindows.highest = 0
        /\ IsFcn(FreshWindows) /\ DOMAIN FreshWindows = ConnFields
    BY DEF FreshWindows, Nothing, IsFcn, ConnFields
  <1>3. IsConn(FreshWindows)
    <2>1. DOMAIN <<>> = {} /\ IsFcn(<<>>)  BY DEF IsFcn
    <2>2. Gaps(<<>>, 1)
      <3> SUFFICES ASSUME NEW m \in 1 .. 1 + RecvWindow
                   PROVE  \E l \in m + 1 .. 1 + RecvWindow + 1 :
                              l \notin {} /\ m + 1 .. l - 1 \subseteq {}
        BY <2>1 DEF Gaps
      <3>1. m + 1 \in m + 1 .. 1 + RecvWindow + 1 /\ m + 1 .. m + 1 - 1 \subseteq {}
        BY WindowAssumption
      <3> QED  BY <3>1
    <2> QED  BY <1>2, <2>1, <2>2 DEF IsConn, States
  <1>4. \A e \in Ends : Records(e) /\ Untouched(e) /\ State(e) = "absent" /\ Received(e) = <<>>
    BY <1>1, <1>2 DEF Records, IsFcn, Untouched, State, Received
  <1>5. Types
    <2>1. /\ conn = [e \in Ends |-> conn[e]] /\ tracked = [e \in Ends |-> tracked[e]]
          /\ givenUp = [e \in Ends |-> givenUp[e]]
      BY ZenonT(60) DEF Init
    <2>2. /\ addressed \in [Ends -> BOOLEAN] /\ pendingAck \in [Ends -> BOOLEAN]
          /\ queue \in [Ends -> Seq(Nat)] /\ got \in [Ends -> Seq(Nat)] /\ sent \in [Ends -> Nat]
      BY DEF Init
    <2> QED  BY <1>1, <1>3, <1>4, <2>1, <2>2 DEF Types
  <1>6. Originator \in Ends /\ Responder \in Ends  BY DEF Ends
  <1>7. Beginnings /\ Endings /\ SynResponseConfirmed
    BY <1>1, <1>4, <1>6 DEF Beginnings, Endings, SynResponseConfirmed, Live
  <1>8. PacketsGood  BY <1>1 DEF PacketsGood, Packets
  <1>9. ASSUME NEW e \in Ends PROVE InWindow(e)
    <2>1. Peer(e) \in Ends  BY TwoEnds
    <2>2. conn[e].nextExpected = 1 /\ conn[Peer(e)].next = 1 /\ conn[e].highest = 0
          /\ conn[e].reorder = <<>>
      BY <1>1, <1>2, <2>1
    <2>3. Below(e) = Offset(Peer(e)) /\ Offset(Peer(e)) \in Nat  BY <2>2 DEF Below, Offset
    <2>4. State(e) \notin Taking  BY <1>4 DEF Taking
    <2> QED  BY <1>4, <2>2, <2>3, <2>4 DEF InWindow
  <1>10. ClearedIsHeld  BY <1>1, <1>2 DEF ClearedIsHeld
  <1> QED  BY <1>5, <1>7, <1>8, <1>9, <1>10 DEF StreamInv

-----------------------------------------------------------------------------
(* Ends only move forward, and what that preserves. *)

\* What of e's receive side a step leaves alone.
SameReceiver(e) ==
    /\ conn'[e].nextExpected = conn[e].nextExpected /\ conn'[e].reorder = conn[e].reorder
    /\ conn'[e].highest = conn[e].highest
\* An end never reopens, never renumbers, never loses a packet it holds, and
\* keeps its peer's stream id until it is removed.
Evolves(e) ==
    /\ State(e) \in Ended => State(e)' \in Ended
    /\ State(e) = "removed" => State(e)' = "removed"
    /\ State(e) # "absent" => State(e)' # "absent"
    /\ conn[e].next <= conn'[e].next
    /\ State(e) \in Ended => conn'[e].next = conn[e].next
    /\ \A s \in Nat : Holds(e, s) => Holds(e, s)'
    /\ addressed[e] => addressed'[e] \/ State(e)' = "removed"

Forward == use' = use /\ (Answered => Answered') /\ \A e \in Ends : Evolves(e)

\* A step that leaves e's windows alone moves e forward when its state does.
LEMMA StateEvolves ==
    ASSUME Types, NEW e \in Ends, SameWindows(conn[e], conn'[e]),
           State(e) \in Ended => State(e)' \in Ended,
           State(e) = "removed" => State(e)' = "removed",
           State(e) # "absent" => State(e)' # "absent",
           addressed[e] => addressed'[e] \/ State(e)' = "removed"
    PROVE  Evolves(e)
  <1>1. conn[e].next \in Nat  BY DEF Types, IsConn
  <1> QED  BY <1>1 DEF Evolves, SameWindows, Holds

\* What a packet says stays true.
LEMMA GoodStays ==
    ASSUME Types, Types', Forward, NEW e \in Ends, NEW p \in PacketType, GoodPacket(e, p)
    PROVE  GoodPacket(e, p)'
  <1>1. conn[e].next \in Nat /\ conn'[e].next \in Nat  BY DEF Types, IsConn
  <1>2. Evolves(e) /\ use' = use /\ (Answered => Answered')  BY DEF Forward
  <1>3. Offset(e)' = Offset(e)  BY <1>2 DEF Offset
  <1>4. \A s \in 1 .. p.through : s \in ValidNacks(p.through, p.nacks) \/ Holds(e, s)'
    <2>1. \A s \in Nat : Holds(e, s) => Holds(e, s)'  BY <1>2 DEF Evolves
    <2>2. \A s \in 1 .. p.through : s \in ValidNacks(p.through, p.nacks) \/ Holds(e, s)
      BY DEF GoodPacket
    <2>3. \A s \in 1 .. p.through : s \in Nat  BY DEF PacketType
    <2> QED  BY <2>1, <2>2, <2>3, ZenonT(60)
  <1>5. p.known => addressed'[e] \/ State(e)' = "removed"  BY <1>2 DEF GoodPacket, Evolves
  <1>6. p.kind = "data" => p.seq \in 1 .. conn'[e].next - 1 /\ p.msg = p.seq + Offset(e)'
    BY <1>1, <1>2, <1>3 DEF GoodPacket, Evolves
  <1>7. p.kind = "CLOSE" => p.seq = conn'[e].next /\ p.msg = Empty /\ State(e)' \in Ended
    BY <1>2 DEF GoodPacket, Evolves
  <1>8. State(e)' # "absent"  BY <1>2 DEF GoodPacket, Evolves
  <1> QED  BY <1>2, <1>4, <1>5, <1>6, <1>7, <1>8 DEF GoodPacket

\* Packets are typed.
LEMMA PacketsTyped ==
    ASSUME Types, NEW e \in Ends, NEW p \in Packets(e)
    PROVE  p \in PacketType
  BY DEF Types, Packets, Records

\* A step whose new packets are good keeps all packets good.
LEMMA PacketsStay ==
    ASSUME Types, Types', Forward, PacketsGood,
           \A e \in Ends : \A p \in Packets(e)' : p \in Packets(e) \/ GoodPacket(e, p)'
    PROVE  PacketsGood'
  <1> SUFFICES ASSUME NEW e \in Ends, NEW p \in Packets(e)', p \in Packets(e)
               PROVE  GoodPacket(e, p)'
    BY DEF PacketsGood
  <1>1. p \in PacketType /\ GoodPacket(e, p)  BY PacketsTyped DEF PacketsGood
  <1> QED  BY <1>1, GoodStays

\* e receives nothing in this step.
ReceivesNothing(e) ==
    /\ SameReceiver(e) /\ Received(e)' = Received(e)
    /\ State(e)' \in Taking => State(e) \in Taking

\* The receive side of an end outlives what its peer does.
LEMMA WindowStays ==
    ASSUME Types, Types', Forward, NEW e \in Ends, InWindow(e), ReceivesNothing(e)
    PROVE  InWindow(e)'
  <1> DEFINE o == Peer(e)
  <1>1. o \in Ends  BY TwoEnds
  <1>2. /\ conn[o].next \in Nat /\ conn'[o].next \in Nat /\ conn[e].nextExpected \in Nat
        /\ \A s \in DOMAIN conn[e].reorder : s \in Nat
    BY <1>1, ZenonT(60) DEF Types, IsConn
  <1>3. /\ conn[o].next <= conn'[o].next
        /\ State(o) \in Ended => conn'[o].next = conn[o].next /\ State(o)' \in Ended
    BY <1>1 DEF Forward, Evolves
  <1>4. Offset(o)' = Offset(o) /\ Offset(o) \in Nat  BY DEF Forward, Offset
  <1>5. /\ conn'[e].nextExpected = conn[e].nextExpected /\ conn'[e].reorder = conn[e].reorder
        /\ conn'[e].highest = conn[e].highest /\ Received(e)' = Received(e)
    BY DEF ReceivesNothing, SameReceiver
  <1>6. Below(e)' = Below(e)
    BY <1>2, <1>3, <1>4, <1>5 DEF Below, InWindow
  <1>7. ASSUME NEW s \in DOMAIN conn'[e].reorder PROVE Carries(o, s, conn[e].reorder[s])'
    <2>1. s \in Nat /\ Carries(o, s, conn[e].reorder[s])  BY <1>2, <1>5 DEF InWindow
    <2>2. conn'[e].reorder[s] = conn[e].reorder[s]  BY <1>5
    <2> QED  BY <1>2, <1>3, <1>4, <2>1, <2>2 DEF Carries
  <1>8. \/ conn'[e].nextExpected <= conn'[o].next
        \/ conn'[e].nextExpected = conn'[o].next + 1 /\ State(o)' \in Ended
    BY <1>2, <1>3, <1>5 DEF InWindow
  <1> HIDE DEF o
  <1> QED  BY <1>5, <1>6, <1>7, <1>8 DEF InWindow, ReceivesNothing, o

\* e's part of ClearedIsHeld.
ClearedAt(e) ==
    \A s \in 1 .. conn[e].next - 1 :
        \/ s \in conn[e].unacked /\ (Live(e) => s \in DOMAIN tracked[e] \cup givenUp[e])
        \/ Holds(Peer(e), s)

\* e sends no data and is acknowledged none in this step.
SendsNothing(e) ==
    /\ conn'[e].next = conn[e].next /\ conn'[e].unacked = conn[e].unacked
    /\ Live(e)' => \/ conn[e].next = 1
                   \/ /\ Live(e)
                      /\ DOMAIN tracked[e] \cup givenUp[e] \subseteq DOMAIN tracked'[e] \cup givenUp'[e]

\* The send side of an end outlives what its peer does.
LEMMA ClearedStays ==
    ASSUME Types, Forward, NEW e \in Ends, ClearedAt(e), SendsNothing(e)
    PROVE  ClearedAt(e)'
  <1>1. Peer(e) \in Ends  BY TwoEnds
  <1>2. \A s \in Nat : Holds(Peer(e), s) => Holds(Peer(e), s)'  BY <1>1 DEF Forward, Evolves
  <1>3. conn[e].next \in Nat  BY DEF Types, IsConn
  <1> SUFFICES ASSUME NEW s \in 1 .. conn[e].next - 1
               PROVE  \/ s \in conn'[e].unacked /\ (Live(e)' => s \in DOMAIN tracked'[e] \cup givenUp'[e])
                      \/ Holds(Peer(e), s)'
    BY DEF ClearedAt, SendsNothing
  <1>4. CASE Holds(Peer(e), s)  BY <1>2, <1>3, <1>4
  <1>5. CASE ~Holds(Peer(e), s)
    <2>1. s \in conn[e].unacked /\ (Live(e) => s \in DOMAIN tracked[e] \cup givenUp[e])
      BY <1>5 DEF ClearedAt
    <2>2. conn[e].next # 1  BY <1>3
    <2> QED  BY <2>1, <2>2, ZenonT(60) DEF SendsNothing
  <1> QED  BY <1>4, <1>5

\* The responder's answer is out and its connection alive.
Repeats == Live(Responder) /\ State(Responder) # "InboundSynReceived" /\ ~IsTerminal(Responder)

\* The record of the answer outlives the step.
AnswerKept ==
    Repeats' => /\ Repeats
                /\ 0 \in DOMAIN tracked[Responder] \cup givenUp[Responder] =>
                       0 \in DOMAIN tracked'[Responder] \cup givenUp'[Responder]

\* The answer stays tracked, or confirmed.
LEMMA AnswerStays ==
    ASSUME Forward, SynResponseConfirmed, AnswerKept
    PROVE  SynResponseConfirmed'
  <1>1. Evolves(Originator)  BY DEF Forward, Ends
  <1> QED  BY <1>1 DEF SynResponseConfirmed, AnswerKept, Repeats, Evolves

\* e enters ClosingRemote or Closed only after its peer's CLOSE.
ClosesAfter(e) ==
    State(e)' \in {"ClosingRemote", "Closed"} =>
        State(e) \in {"ClosingRemote", "Closed"} \/ State(Peer(e)) \in Ended

\* An end that has closed stays closed.
LEMMA EndingsStay ==
    ASSUME Forward, Endings, \A e \in Ends : ClosesAfter(e)
    PROVE  Endings'
  <1> SUFFICES ASSUME NEW e \in Ends, State(e)' \in {"ClosingRemote", "Closed"}
               PROVE  State(Peer(e))' \in Ended
    BY DEF Endings
  <1>1. Peer(e) \in Ends  BY TwoEnds
  <1>2. State(Peer(e)) \in Ended  BY DEF Endings, ClosesAfter
  <1> QED  BY <1>1, <1>2 DEF Forward, Evolves

\* The parts of the invariant, put together again after a step.
LEMMA Combine ==
    ASSUME StreamInv, Types', Beginnings', Forward,
           \A e \in Ends : \A p \in Packets(e)' : p \in Packets(e) \/ GoodPacket(e, p)',
           \A e \in Ends : ReceivesNothing(e) \/ InWindow(e)',
           \A e \in Ends : SendsNothing(e) \/ ClearedAt(e)',
           AnswerKept \/ SynResponseConfirmed',
           \A e \in Ends : ClosesAfter(e)
    PROVE  StreamInv'
  <1>1. PacketsGood'  BY PacketsStay DEF StreamInv
  <1>2. Endings'  BY EndingsStay DEF StreamInv
  <1>3. \A e \in Ends : InWindow(e)'  BY WindowStays DEF StreamInv
  <1>4. ClearedIsHeld'
    <2>1. \A e \in Ends : ClearedAt(e)  BY DEF StreamInv, ClearedIsHeld, ClearedAt
    <2>2. \A e \in Ends : ClearedAt(e)'  BY <2>1, ClearedStays DEF StreamInv
    <2> QED  BY <2>2 DEF ClearedIsHeld, ClearedAt
  <1>5. SynResponseConfirmed'  BY AnswerStays DEF StreamInv
  <1> QED  BY <1>1, <1>2, <1>3, <1>4, <1>5 DEF StreamInv

-----------------------------------------------------------------------------
(* New packets. *)

\* ack_view covers only what is held or named missing.
LEMMA ViewSound ==
    ASSUME Types, NEW e \in Ends, InWindow(e)
    PROVE  /\ AckThrough(conn[e]) \in Nat /\ Nacks(conn[e]) \in SUBSET Nat
           /\ \A s \in 1 .. AckThrough(conn[e]) :
                 s \in ValidNacks(AckThrough(conn[e]), Nacks(conn[e])) \/ Holds(e, s)
  <1> DEFINE c == conn[e]
             t == AckThrough(c)
  <1>1. /\ c.highest \in Nat /\ c.nextExpected \in Nat /\ c.nextExpected >= 1
        /\ \A s \in DOMAIN c.reorder : s \in Nat
        /\ c.highest < c.nextExpected \/ c.highest \in DOMAIN c.reorder
    BY DEF Types, IsConn, InWindow
  <1>2. t \in Nat /\ (t = 0 \/ t = c.nextExpected - 1 \/ (t = c.highest /\ c.nextExpected <= t))
    BY <1>1 DEF AckThrough, Larger, Nothing
  <1>3. Nacks(c) = {s \in c.nextExpected .. t - 1 : s \notin DOMAIN c.reorder}  BY DEF Nacks
  <1> HIDE DEF t
  <1>4. Nacks(c) \in SUBSET Nat  BY <1>1, <1>2, <1>3
  <1>5. ASSUME NEW s \in 1 .. t PROVE s \in ValidNacks(t, Nacks(c)) \/ Holds(e, s)
    <2>1. CASE s < c.nextExpected  BY <2>1 DEF Holds
    <2>2. CASE ~(s < c.nextExpected)
      <3>1. t = c.highest /\ t \in DOMAIN c.reorder  BY <1>1, <1>2, <2>2
      <3>2. CASE s \in DOMAIN c.reorder  BY <3>2 DEF Holds
      <3>3. CASE s \notin DOMAIN c.reorder
        <4>1. s < t  BY <1>2, <3>1, <3>3
        <4>2. s \in c.nextExpected .. t - 1  BY <1>1, <1>2, <2>2, <4>1
        <4> QED  BY <1>3, <3>3, <4>1, <4>2 DEF ValidNacks
      <3> QED  BY <3>2, <3>3
    <2> QED  BY <2>1, <2>2
  <1> QED  BY <1>2, <1>4, <1>5 DEF t

\* A packet that e builds in a step is good after it.
LEMMA NewPacket ==
    ASSUME StreamInv, Forward, NEW e \in Ends, NEW k \in Kinds, NEW seq \in Nat, NEW m \in Nat,
           NEW q, q = Packet(e, k, seq, m) \/ q = [Packet(e, k, seq, m) EXCEPT !.noAck = OverCap(e)],
           State(e)' # "absent",
           k = "SYNresponse" => Answered',
           k \in {"SYN", "SYNresponse", "ack", "RESET"} => seq = 0,
           k = "data" => seq \in 1 .. conn'[e].next - 1 /\ m = seq + Offset(e)',
           k = "CLOSE" => seq = conn'[e].next /\ m = Empty /\ State(e)' \in Ended
    PROVE  q \in PacketType /\ GoodPacket(e, q)' /\ q.to = Peer(e) /\ q.seq = seq
  <1> DEFINE t == AckThrough(conn[e])
             n == Nacks(conn[e])
  <1>1. t \in Nat /\ n \in SUBSET Nat /\ \A s \in 1 .. t : s \in ValidNacks(t, n) \/ Holds(e, s)
    BY ViewSound DEF StreamInv
  <1>2. addressed[e] \in BOOLEAN /\ Peer(e) \in Ends  BY TwoEnds DEF StreamInv, Types
  <1>3. OverCap(e) \in BOOLEAN
    <2>1. ASSUME NEW a, NEW b PROVE (a >= b) = TRUE \/ (a >= b) = FALSE  BY ONLY SMTT(30), Z3T(30)
    <2>2. OverCap(e) = TRUE \/ OverCap(e) = FALSE  BY <2>1, ZenonT(60) DEF OverCap
    <2> QED  BY <2>2, ZenonT(60)
  <1>4. /\ q.to = Peer(e) /\ q.kind = k /\ q.seq = seq /\ q.msg = m /\ q.known = addressed[e]
        /\ q.through = t /\ q.nacks = n
    <2> DEFINE P == [to |-> Peer(e), kind |-> k, seq |-> seq, msg |-> m, known |-> addressed[e],
                     through |-> t, nacks |-> n, noAck |-> FALSE]
    <2>1. P = Packet(e, k, seq, m)  BY DEF Packet
    <2>2. CASE q = P  BY <2>2
    <2>3. CASE q = [P EXCEPT !.noAck = OverCap(e)]
      <3> DEFINE b == OverCap(e)
      <3> HIDE DEF t, n, b
      <3> QED  BY <2>3 DEF b
    <2> QED  BY <2>1, <2>2, <2>3
  <1>5. q \in PacketType
    <2>1. Packet(e, k, seq, m) \in PacketType
      BY <1>1, <1>2, ZenonT(60) DEF Packet, PacketType
    <2>2. [Packet(e, k, seq, m) EXCEPT !.noAck = OverCap(e)] \in PacketType
      BY <1>3, <2>1 DEF PacketType
    <2> QED  BY <2>1, <2>2, ZenonT(60)
  <1> HIDE DEF t, n
  <1>6. \A s \in 1 .. t : s \in ValidNacks(t, n) \/ Holds(e, s)'
    <2>1. \A s \in Nat : Holds(e, s) => Holds(e, s)'  BY DEF Forward, Evolves
    <2>2. t \in Nat  BY <1>1
    <2>3. \A s \in 1 .. t : s \in Nat  BY ONLY <2>2, SMTT(30), Z3T(30)
    <2> QED  BY <1>1, <2>1, <2>3, ZenonT(60)
  <1>7. addressed[e] => addressed'[e] \/ State(e)' = "removed"  BY DEF Forward, Evolves
  <1>8. addressed[e] /\ e = Originator => Answered'
    BY DEF Forward, StreamInv, Beginnings
  <1> QED  BY <1>4, <1>5, <1>6, <1>7, <1>8 DEF GoodPacket

\* q joins the retransmission records of e.
Joined(e, q) ==
    /\ tracked' = [x \in Ends |-> tracked'[x]] /\ \A x \in Ends : Records(x)'
    /\ tracked'[Peer(e)] = tracked[Peer(e)]
    /\ DOMAIN tracked'[e] = DOMAIN tracked[e] \cup {q.seq}
    /\ \A s \in DOMAIN tracked'[e] :
          \/ tracked'[e][s].packet = q
          \/ s \in DOMAIN tracked[e] /\ tracked'[e][s] = tracked[e][s]

\* A tracked packet: the other records stay.
LEMMA TrackIs ==
    ASSUME Types, NEW e \in Ends, NEW q \in PacketType, Track(e, q)
    PROVE  Joined(e, q)
  <1> DEFINE old == tracked[e]
             new == [s \in DOMAIN old \cup {q.seq} |->
                        IF s = q.seq THEN [packet |-> q, count |-> 0] ELSE old[s]]
  <1>1. tracked' = [tracked EXCEPT ![e] = new]  BY DEF Track
  <1>2. /\ IsFcn(new) /\ DOMAIN new = DOMAIN old \cup {q.seq}
        /\ \A s \in DOMAIN new : IF s = q.seq THEN new[s] = [packet |-> q, count |-> 0]
                                 ELSE s \in DOMAIN old /\ new[s] = old[s]
    BY ZenonT(60) DEF IsFcn
  <1> HIDE DEF new
  <1>3. tracked'[e] = new /\ tracked'[Peer(e)] = tracked[Peer(e)]
        /\ tracked' = [x \in Ends |-> tracked'[x]]
    BY <1>1, TwoEnds, ZenonT(60) DEF Types
  <1>4. Records(e) /\ Records(Peer(e)) /\ q.seq \in Nat  BY TwoEnds DEF Types, PacketType
  <1>5. \A s \in DOMAIN new : s \in Nat /\ new[s] \in [packet : PacketType, count : Nat]
    BY <1>2, <1>4 DEF Records
  <1>6. Records(e)'  BY <1>2, <1>3, <1>5 DEF Records
  <1>7. Records(Peer(e))'  BY <1>3, <1>4 DEF Records
  <1>8. \A x \in Ends : Records(x)'  BY <1>6, <1>7, TwoEnds
  <1>9. \A s \in DOMAIN new : new[s].packet = q \/ (s \in DOMAIN old /\ new[s] = old[s])
    BY <1>2
  <1> QED  BY <1>2, <1>3, <1>8, <1>9 DEF Joined

\* A step of e that puts q on the network, and perhaps tracks it.
LEMMA OneNewPacket ==
    ASSUME NEW e \in Ends, NEW q, q.to = Peer(e), GoodPacket(e, q)', net' \subseteq net \cup {q},
           \A x \in Ends : \A s \in DOMAIN tracked'[x] :
               \/ x = e /\ tracked'[x][s].packet = q
               \/ s \in DOMAIN tracked[x] /\ tracked'[x][s].packet = tracked[x][s].packet
    PROVE  \A x \in Ends : \A p \in Packets(x)' : p \in Packets(x) \/ GoodPacket(x, p)'
  <1> SUFFICES ASSUME NEW x \in Ends, NEW p \in Packets(x)'
               PROVE  p \in Packets(x) \/ (x = e /\ p = q)
    OBVIOUS
  <1>1. CASE p \in net' /\ p.to = Peer(x)
    <2>1. p.to = Peer(e) => x = e  BY <1>1, TwoEnds, ZenonT(60)
    <2> QED  BY <1>1, <2>1 DEF Packets
  <1>2. CASE \E s \in DOMAIN tracked'[x] : p = tracked'[x][s].packet  BY <1>2 DEF Packets
  <1> QED  BY <1>1, <1>2 DEF Packets

\* A step that puts nothing new on the network.
LEMMA NoNewPacket ==
    ASSUME PacketsGood, \A p \in net' : p \in net \/ \E x \in Ends : p \in Packets(x),
           \A x \in Ends : \A s \in DOMAIN tracked'[x] :
               s \in DOMAIN tracked[x] /\ tracked'[x][s].packet = tracked[x][s].packet
    PROVE  \A x \in Ends : \A p \in Packets(x)' : p \in Packets(x) \/ GoodPacket(x, p)'
  <1> SUFFICES ASSUME NEW x \in Ends, NEW p \in Packets(x)' PROVE p \in Packets(x)
    OBVIOUS
  <1>1. CASE p \in net' /\ p.to = Peer(x)
    <2>1. CASE p \in net  BY <1>1, <2>1 DEF Packets
    <2>2. CASE p \notin net
      <3>1. PICK y \in Ends : p \in Packets(y)  BY <1>1, <2>2
      <3>2. p.to = Peer(y)  BY <3>1 DEF PacketsGood, GoodPacket
      <3> QED  BY <1>1, <3>1, <3>2, TwoEnds, ZenonT(60)
    <2> QED  BY <2>1, <2>2
  <1>2. CASE \E s \in DOMAIN tracked'[x] : p = tracked'[x][s].packet  BY <1>2 DEF Packets
  <1> QED  BY <1>1, <1>2 DEF Packets

-----------------------------------------------------------------------------
(* One lemma for each action. *)

\* An end whose connection a step leaves alone.
LEMMA Standing ==
    ASSUME Types, NEW x \in Ends, conn'[x] = conn[x], addressed'[x] = addressed[x]
    PROVE  Evolves(x) /\ SameReceiver(x) /\ ClosesAfter(x)
  <1>1. Evolves(x)  BY StateEvolves DEF SameWindows, State
  <1> QED  BY <1>1 DEF SameReceiver, ClosesAfter, State

\* Both ends stand still.
LEMMA BothStanding ==
    ASSUME StreamInv, conn' = conn, addressed' = addressed, use' = use
    PROVE  /\ Forward /\ \A e \in Ends : SameReceiver(e) /\ ClosesAfter(e)
           /\ sent' = sent /\ queue' = queue /\ got' = got => Beginnings'
  <1>1. \A e \in Ends : Evolves(e) /\ SameReceiver(e) /\ ClosesAfter(e)
    BY Standing DEF StreamInv
  <1>2. Answered' = Answered  BY DEF Answered, State
  <1>3. ASSUME sent' = sent, queue' = queue, got' = got
        PROVE  Beginnings'
    <2>1. \A e \in Ends : Untouched(e) => Untouched(e)'  BY <1>3 DEF Untouched
    <2>2. Originator \in Ends /\ Responder \in Ends  BY DEF Ends
    <2> QED  BY <1>2, <1>3, <2>1, <2>2 DEF StreamInv, Beginnings, State, Offset
  <1> QED  BY <1>1, <1>2, <1>3 DEF Forward

\* Packets only leave the network: a refused SYN, a packet for no stream, a loss.
LEMMA NetShrinks ==
    ASSUME StreamInv, net' \subseteq net,
           UNCHANGED <<conn, addressed, tracked, pendingAck, queue, sent, got, givenUp, use>>
    PROVE  StreamInv'
  <1>1. Forward /\ Beginnings' /\ \A e \in Ends : SameReceiver(e) /\ ClosesAfter(e)
    BY BothStanding DEF Received
  <1>2. Types'  BY DEF StreamInv, Types, Records
  <1>3. \A e \in Ends : ReceivesNothing(e)  BY <1>1 DEF ReceivesNothing, Received, State
  <1>4. \A e \in Ends : SendsNothing(e)  BY DEF SendsNothing, Live, State
  <1>5. AnswerKept  BY DEF AnswerKept, Repeats, Live, IsTerminal, State
  <1>6. \A e \in Ends : \A p \in Packets(e)' : p \in Packets(e) \/ GoodPacket(e, p)'
    BY NoNewPacket DEF StreamInv
  <1> QED  BY <1>1, <1>2, <1>3, <1>4, <1>5, <1>6, Combine

\* connect
LEMMA ConnectKeeps ==
    ASSUME StreamInv, Connect
    PROVE  StreamInv'
  <1> DEFINE e == Originator
             o == Responder
             first == IF use.synPayload THEN 1 ELSE Empty
  <1>0. PICK q : q = Packet(e, "SYN", 0, first)  OBVIOUS
  <1>1. e \in Ends /\ o \in Ends /\ Peer(e) = o /\ Peer(o) = e /\ e # o /\ \A x \in Ends : x = e \/ x = o
    BY StreamAssumption DEF Ends, Peer
  <1>2. /\ State(e) = "absent" /\ conn' = [conn EXCEPT ![e].state = "OutboundSynSent"]
        /\ sent' = [sent EXCEPT ![e] = first] /\ net' = {q}
        /\ UNCHANGED <<addressed, tracked, pendingAck, queue, got, givenUp, losses, use>>
    BY <1>0 DEF Connect
  <1>3. Types  BY DEF StreamInv
  <1>4. /\ conn' = [x \in Ends |-> conn'[x]] /\ \A x \in Ends : IsConn(conn'[x])
        /\ conn'[e].state = "OutboundSynSent" /\ SameWindows(conn[e], conn'[e])
        /\ conn'[o] = conn[o]
    BY <1>1, <1>2, <1>3, StateStep, ZenonT(60) DEF States
  <1>5. Evolves(o) /\ SameReceiver(o) /\ ClosesAfter(o)  BY <1>1, <1>2, <1>3, <1>4, Standing
  <1>6. Evolves(e) /\ SameReceiver(e) /\ ClosesAfter(e)
    <2>1. Evolves(e)  BY <1>1, <1>2, <1>3, <1>4, StateEvolves DEF State, Ended
    <2> QED  BY <2>1, <1>4 DEF SameWindows, SameReceiver, ClosesAfter, State
  <1>7. Forward  BY <1>1, <1>2, <1>4, <1>5, <1>6 DEF Forward, Answered, State
  <1>8. first \in Nat /\ first = Offset(e)  BY DEF Empty, Offset
  <1>9. q \in PacketType /\ GoodPacket(e, q)' /\ q.to = Peer(e)
    <2> HIDE DEF first
    <2>1. State(e)' # "absent" /\ "SYN" \in Kinds /\ 0 \in Nat  BY <1>4 DEF State, Kinds
    <2> QED  BY <1>0, <1>1, <1>7, <1>8, <2>1, NewPacket
  <1> HIDE DEF first
  <1>10. sent' \in [Ends -> Nat] /\ sent'[e] = first /\ sent'[o] = sent[o]
    BY <1>1, <1>2, <1>3, <1>8 DEF Types
  <1>11. Types'  BY <1>2, <1>3, <1>4, <1>9, <1>10, ZenonT(60) DEF Types, Records
  <1>12. Untouched(e) /\ Untouched(o) /\ State(o) = "absent"
    BY <1>1, <1>2 DEF StreamInv, Beginnings
  <1>13. Untouched(o)'  BY <1>2, <1>4, <1>10, <1>12 DEF Untouched
  <1>14. Beginnings'
    <2>1. State(o)' = "absent" /\ State(e)' = "OutboundSynSent"  BY <1>4, <1>12 DEF State
    <2>2. ~addressed'[e]  BY <1>2, <1>12 DEF StreamInv, Beginnings, Answered
    <2>3. sent'[e] = conn'[e].next - 1 + Offset(e)'
      <3>1. conn'[e].next = 1  BY <1>4, <1>12 DEF SameWindows, Untouched
      <3>2. Offset(e)' = Offset(e)  BY <1>2 DEF Offset
      <3> QED  BY <1>8, <1>10, <3>1, <3>2
    <2> QED  BY <1>1, <1>13, <2>1, <2>2, <2>3 DEF Beginnings, Answered
  <1>15. ReceivesNothing(o)  BY <1>2, <1>4, <1>5, ZenonT(60) DEF ReceivesNothing, Received, State
  <1>16. InWindow(e)'
    <2>1. Received(e)' = <<>>  BY <1>2, <1>12 DEF Received, Untouched
    <2>2. conn'[e].nextExpected = 1 /\ conn'[e].reorder = <<>> /\ conn'[o].next = 1
      BY <1>4, <1>12 DEF SameWindows, Untouched
    <2>3. conn'[e].highest = conn[e].highest /\ conn[e].nextExpected = 1 /\ conn[e].reorder = <<>>
      BY <1>4, <1>12 DEF SameWindows, Untouched
    <2>4. conn'[e].highest < conn'[e].nextExpected \/ conn'[e].highest \in DOMAIN conn'[e].reorder
      BY <1>1, <2>2, <2>3 DEF StreamInv, InWindow
    <2>5. Below(e)' = 0
      <3>1. Offset(o)' = 0  BY <1>1 DEF Offset
      <3> QED  BY <1>1, <2>2, <3>1 DEF Below
    <2> QED  BY <1>1, <2>1, <2>2, <2>4, <2>5 DEF InWindow
  <1>17. \A x \in Ends : SendsNothing(x)
    <2>1. SendsNothing(e)  BY <1>4, <1>12 DEF SendsNothing, SameWindows, Untouched
    <2>2. SendsNothing(o)  BY <1>4, <1>12 DEF SendsNothing, Untouched
    <2> QED  BY <1>1, <2>1, <2>2
  <1>18. AnswerKept  BY <1>4, <1>12 DEF AnswerKept, Repeats, Live, State
  <1>19. \A x \in Ends : \A p \in Packets(x)' : p \in Packets(x) \/ GoodPacket(x, p)'
    <2>1. net' \subseteq net \cup {q}  BY <1>2
    <2>2. \A x \in Ends : \A s \in DOMAIN tracked'[x] :
              s \in DOMAIN tracked[x] /\ tracked'[x][s].packet = tracked[x][s].packet
      BY <1>2
    <2> QED  BY <1>1, <1>9, <2>1, <2>2, OneNewPacket
  <1> QED
    BY <1>1, <1>5, <1>6, <1>7, <1>11, <1>14, <1>15, <1>16, <1>17, <1>18, <1>19, Combine

\* handle_inbound_syn that makes a connection
LEMMA InboundSynKeeps ==
    ASSUME StreamInv, NEW p \in net, p.to \in Ends, HandleInboundSyn(p)
    PROVE  StreamInv'
  <1> DEFINE e == Originator
             o == Responder
  <1>1. e \in Ends /\ o \in Ends /\ Peer(e) = o /\ Peer(o) = e /\ e # o /\ \A x \in Ends : x = e \/ x = o
    BY StreamAssumption DEF Ends, Peer
  <1>2. /\ State(o) = "absent" /\ conn' = [conn EXCEPT ![o].state = "InboundSynReceived"]
        /\ addressed' = [addressed EXCEPT ![o] = TRUE] /\ net' \subseteq net
        /\ UNCHANGED <<tracked, pendingAck, queue, sent, got, givenUp, losses, use>>
    BY DEF HandleInboundSyn
  <1>3. Types  BY DEF StreamInv
  <1>4. /\ conn' = [x \in Ends |-> conn'[x]] /\ \A x \in Ends : IsConn(conn'[x])
        /\ conn'[o].state = "InboundSynReceived" /\ SameWindows(conn[o], conn'[o])
        /\ conn'[e] = conn[e]
    BY <1>1, <1>2, <1>3, StateStep, ZenonT(60) DEF States
  <1>5. addressed' \in [Ends -> BOOLEAN] /\ addressed'[e] = addressed[e] /\ addressed'[o]
    BY <1>1, <1>2, <1>3 DEF Types
  <1>6. Evolves(e) /\ SameReceiver(e) /\ ClosesAfter(e)  BY <1>1, <1>3, <1>4, <1>5, Standing
  <1>7. Evolves(o) /\ SameReceiver(o) /\ ClosesAfter(o)
    <2>1. Evolves(o)  BY <1>1, <1>2, <1>3, <1>4, <1>5, StateEvolves DEF State, Ended
    <2> QED  BY <2>1, <1>4 DEF SameWindows, SameReceiver, ClosesAfter, State
  <1>8. ~Answered /\ ~Answered'  BY <1>2, <1>4 DEF Answered, State
  <1>9. Forward  BY <1>1, <1>2, <1>6, <1>7, <1>8 DEF Forward
  <1>10. Types'  BY <1>2, <1>3, <1>4, <1>5, ZenonT(60) DEF Types, Records
  <1>11. Untouched(o) /\ Untouched(o)' /\ ~addressed[e]
    <2>1. Untouched(o) /\ ~addressed[e]  BY <1>8 DEF StreamInv, Beginnings
    <2> QED  BY <2>1, <1>2, <1>4 DEF Untouched, SameWindows
  <1>12. State(e) # "absent" /\ State(e)' # "absent"
    <2>1. p.to = o \/ p.to = e  BY <1>1
    <2>2. CASE p.to = o
      <3>1. p \in Packets(e)  BY <1>1, <2>2 DEF Packets
      <3> QED  BY <1>1, <1>4, <3>1 DEF StreamInv, PacketsGood, GoodPacket, State
    <2>3. CASE p.to = e
      <3>1. p \in Packets(o)  BY <1>1, <2>3 DEF Packets
      <3> QED  BY <1>1, <1>2, <3>1 DEF StreamInv, PacketsGood, GoodPacket
    <2> QED  BY <2>1, <2>2, <2>3
  <1>13. Beginnings'
    <2>1. sent'[o] = conn'[o].next - 1 + Offset(o)'
      <3>1. Offset(o)' = 0  BY <1>1 DEF Offset
      <3> QED  BY <1>11, <3>1 DEF Untouched
    <2>2. sent'[e] = conn'[e].next - 1 + Offset(e)'
      BY <1>1, <1>2, <1>4, <1>12 DEF StreamInv, Beginnings, Offset
    <2> QED  BY <1>1, <1>2, <1>4, <1>5, <1>11, <1>12, <2>1, <2>2 DEF Beginnings, StreamInv, State
  <1>14. \A x \in Ends : ReceivesNothing(x)
    <2>1. ReceivesNothing(e)  BY <1>2, <1>4, <1>6, ZenonT(60) DEF ReceivesNothing, Received, State
    <2>2. ReceivesNothing(o)  BY <1>2, <1>4, <1>7 DEF ReceivesNothing, Received, State, Taking
    <2> QED  BY <1>1, <2>1, <2>2
  <1>15. \A x \in Ends : SendsNothing(x)
    <2>1. SendsNothing(e)  BY <1>2, <1>4, ZenonT(60) DEF SendsNothing, Live, State
    <2>2. SendsNothing(o)  BY <1>4, <1>11 DEF SendsNothing, SameWindows, Untouched
    <2> QED  BY <1>1, <2>1, <2>2
  <1>16. AnswerKept  BY <1>4 DEF AnswerKept, Repeats, State
  <1>17. \A x \in Ends : \A r \in Packets(x)' : r \in Packets(x) \/ GoodPacket(x, r)'
    BY <1>2, NoNewPacket DEF StreamInv
  <1> QED
    BY <1>1, <1>6, <1>7, <1>9, <1>10, <1>13, <1>14, <1>15, <1>16, <1>17, Combine

\* A step that only gives the connection of e the state v.
Moves(e, v) ==
    /\ conn' = [conn EXCEPT ![e].state = v] /\ use' = use /\ sent' = sent
    /\ v \in States \ {"absent", "InboundSynReceived", "OutboundSynSent"} /\ Live(e)
    /\ State(e) \in Ended => v \in Ended
    /\ v \in {"ClosingRemote", "Closed"} =>
           State(e) \in {"ClosingRemote", "Closed"} \/ State(Peer(e)) \in Ended
    /\ addressed' \in [Ends -> BOOLEAN] /\ addressed'[Peer(e)] = addressed[Peer(e)]
    /\ addressed[e] => addressed'[e] \/ v = "removed"
    /\ Answered \/ ~addressed'[Originator]
    /\ queue' \in [Ends -> Seq(Nat)] /\ queue'[Peer(e)] = queue[Peer(e)] /\ got' = got

\* What such a step preserves.
LEMMA Moved ==
    ASSUME StreamInv, NEW e \in Ends, NEW v, Moves(e, v)
    PROVE  /\ Forward /\ Beginnings'
           /\ conn' = [x \in Ends |-> conn'[x]] /\ \A x \in Ends : IsConn(conn'[x])
           /\ conn'[e].state = v /\ SameWindows(conn[e], conn'[e]) /\ conn'[Peer(e)] = conn[Peer(e)]
           /\ \A x \in Ends : SameReceiver(x) /\ ClosesAfter(x)
  <1> DEFINE o == Peer(e)
  <1>1. o \in Ends /\ o # e /\ Peer(o) = e /\ \A x \in Ends : x = e \/ x = o  BY TwoEnds
  <1>2. Types  BY DEF StreamInv
  <1>3. /\ conn' = [conn EXCEPT ![e].state = v] /\ use' = use /\ sent' = sent
        /\ v \in States /\ v # "absent" /\ v # "InboundSynReceived" /\ v # "OutboundSynSent"
        /\ State(e) # "absent" /\ State(e) # "removed"
    BY DEF Moves, Live
  <1>4. /\ conn' = [x \in Ends |-> conn'[x]] /\ \A x \in Ends : IsConn(conn'[x])
        /\ conn'[e].state = v /\ SameWindows(conn[e], conn'[e]) /\ conn'[o] = conn[o]
    BY <1>2, <1>3, StateStep, ZenonT(60)
  <1> HIDE DEF o
  <1>5. Evolves(o) /\ SameReceiver(o) /\ ClosesAfter(o)
    BY <1>1, <1>2, <1>4, Standing DEF Moves, o
  <1>6. Evolves(e) /\ SameReceiver(e) /\ ClosesAfter(e)
    <2>1. Evolves(e)  BY <1>2, <1>3, <1>4, StateEvolves, ZenonT(60) DEF State, Moves
    <2> QED  BY <2>1, <1>4 DEF SameWindows, SameReceiver, ClosesAfter, State, Moves
  <1>7. Originator \in Ends /\ Responder \in Ends  BY DEF Ends
  <1>8. State(o)' = State(o) /\ State(e)' = v  BY <1>4 DEF State
  <1>9. (Answered => Answered') /\ (~Answered' => Responder = o /\ ~Answered)
    BY <1>1, <1>3, <1>7, <1>8 DEF Answered
  <1>10. Forward  BY <1>1, <1>3, <1>5, <1>6, <1>9 DEF Forward
  <1>11. Untouched(o) => Untouched(o)'
    BY <1>3, <1>4 DEF Untouched, Moves, o
  <1>12. Beginnings'
    <2>1. State(Originator)' # "InboundSynReceived" /\ State(Responder)' # "OutboundSynSent"
      BY <1>1, <1>3, <1>7, <1>8 DEF StreamInv, Beginnings
    <2>2. \A x \in Ends : State(x)' = "absent" => Untouched(x)'
      BY <1>1, <1>3, <1>8, <1>11 DEF StreamInv, Beginnings
    <2>3. ~Answered' => Untouched(Responder)' /\ ~addressed'[Originator]
      BY <1>9, <1>11 DEF StreamInv, Beginnings, Moves
    <2>4. State(Originator)' = "absent" => State(Responder)' = "absent"
      BY <1>1, <1>3, <1>7, <1>8 DEF StreamInv, Beginnings
    <2>5. ASSUME NEW x \in Ends, State(x)' # "absent"
          PROVE  sent'[x] = conn'[x].next - 1 + Offset(x)'
      <3>1. State(x) # "absent"  BY <1>1, <1>3, <1>8, <2>5
      <3>2. conn'[x].next = conn[x].next  BY <1>1, <1>4 DEF SameWindows
      <3>3. Offset(x)' = Offset(x)  BY <1>3 DEF Offset
      <3> QED  BY <1>3, <3>1, <3>2, <3>3 DEF StreamInv, Beginnings
    <2> QED  BY <2>1, <2>2, <2>3, <2>4, <2>5 DEF Beginnings
  <1> QED  BY <1>1, <1>4, <1>5, <1>6, <1>10, <1>12 DEF o

\* accept_inbound_syn
LEMMA AcceptKeeps ==
    ASSUME StreamInv, AcceptInboundSyn
    PROVE  StreamInv'
  <1> DEFINE e == Responder
             o == Originator
  <1>0. PICK q : q = Packet(e, "SYNresponse", 0, Empty)  OBVIOUS
  <1>1. e \in Ends /\ o \in Ends /\ Peer(e) = o /\ Peer(o) = e /\ e # o /\ \A x \in Ends : x = e \/ x = o
    BY StreamAssumption DEF Ends, Peer
  <1>2. /\ State(e) = "InboundSynReceived" /\ conn' = [conn EXCEPT ![e].state = "Established"]
        /\ Track(e, q) /\ net' = net \cup {q}
        /\ queue' = [queue EXCEPT ![e] = IF use.synPayload THEN Append(@, 1) ELSE @]
        /\ UNCHANGED <<addressed, pendingAck, sent, got, givenUp, losses, use>>
    BY <1>0 DEF AcceptInboundSyn
  <1>3. Types  BY DEF StreamInv
  <1>4. ~Answered /\ Untouched(e) /\ ~addressed[o]
    BY <1>2 DEF StreamInv, Beginnings, Answered
  <1>5. /\ queue' \in [Ends -> Seq(Nat)] /\ queue'[o] = queue[o]
        /\ queue'[e] = IF use.synPayload THEN <<1>> ELSE <<>>
    <2>1. queue \in [Ends -> Seq(Nat)] /\ queue[e] = <<>>  BY <1>3, <1>4 DEF Types, Untouched
    <2>2. CASE use.synPayload
      <3>1. queue' = [queue EXCEPT ![e] = <<1>>]  BY <1>2, <2>1, <2>2
      <3> QED  BY <1>1, <2>1, <2>2, <3>1
    <2>3. CASE ~use.synPayload
      <3>1. queue' = [queue EXCEPT ![e] = <<>>]  BY <1>2, <2>1, <2>3
      <3> QED  BY <1>1, <2>1, <2>3, <3>1
    <2> QED  BY <2>2, <2>3
  <1>6. Moves(e, "Established")
    BY <1>1, <1>2, <1>3, <1>4, <1>5 DEF Moves, Types, States, Live, Ended
  <1>7. /\ Forward /\ Beginnings'
        /\ conn' = [x \in Ends |-> conn'[x]] /\ \A x \in Ends : IsConn(conn'[x])
        /\ conn'[e].state = "Established" /\ SameWindows(conn[e], conn'[e]) /\ conn'[o] = conn[o]
        /\ \A x \in Ends : SameReceiver(x) /\ ClosesAfter(x)
    BY <1>1, <1>6, Moved
  <1>8. q \in PacketType /\ GoodPacket(e, q)' /\ q.to = Peer(e) /\ q.seq = 0
    <2>1. State(e)' # "absent" /\ Answered' /\ "SYNresponse" \in Kinds /\ 0 \in Nat /\ Empty \in Nat
      BY <1>7 DEF State, Kinds, Answered, Empty
    <2> QED  BY <1>0, <1>1, <1>7, <2>1, NewPacket
  <1>9. /\ tracked' = [x \in Ends |-> tracked'[x]] /\ \A x \in Ends : Records(x)'
        /\ tracked'[o] = tracked[o] /\ DOMAIN tracked'[e] = DOMAIN tracked[e] \cup {0}
        /\ \A s \in DOMAIN tracked'[e] : tracked'[e][s].packet = q
                                         \/ (s \in DOMAIN tracked[e] /\ tracked'[e][s] = tracked[e][s])
    <2>1. Joined(e, q)  BY <1>1, <1>2, <1>3, <1>8, TrackIs
    <2> QED  BY <1>1, <1>8, <2>1, ZenonT(60) DEF Joined
  <1>10. Types'  BY <1>2, <1>3, <1>5, <1>7, <1>8, <1>9, ZenonT(60) DEF Types
  <1>11. ReceivesNothing(o)  BY <1>1, <1>2, <1>5, <1>7, ZenonT(60) DEF ReceivesNothing, Received, State
  <1>12. InWindow(e)'
    <2>1. Received(e)' = IF use.synPayload THEN <<1>> ELSE <<>>
      <3>1. got'[e] = <<>>  BY <1>2, <1>4 DEF Untouched
      <3> QED  BY <1>5, <3>1 DEF Received
    <2>2. conn'[e].nextExpected = 1 /\ conn'[e].reorder = <<>> /\ conn'[o].next \in Nat \ {0}
      BY <1>1, <1>4, <1>7 DEF SameWindows, Untouched, IsConn
    <2>3. conn'[e].highest = conn[e].highest /\ conn[e].nextExpected = 1 /\ conn[e].reorder = <<>>
      BY <1>4, <1>7 DEF SameWindows, Untouched
    <2>4. conn'[e].highest < conn'[e].nextExpected \/ conn'[e].highest \in DOMAIN conn'[e].reorder
      BY <1>1, <2>2, <2>3 DEF StreamInv, InWindow
    <2>5. Below(e)' = Offset(o)' /\ Offset(o)' = IF use.synPayload THEN 1 ELSE 0
      <3>1. Offset(o)' = IF use.synPayload THEN 1 ELSE 0  BY <1>2 DEF Offset
      <3> QED  BY <1>1, <2>2, <3>1 DEF Below
    <2>6. Len(Received(e)') = Below(e)' /\ \A i \in 1 .. Len(Received(e)') : Received(e)'[i] = i
      BY <2>1, <2>5
    <2>7. Len(Received(e)') <= Below(e)'  BY <2>5, <2>6
    <2>8. conn'[e].nextExpected <= conn'[o].next  BY <2>2
    <2> QED  BY <1>1, <2>2, <2>4, <2>6, <2>7, <2>8 DEF InWindow
  <1>13. \A x \in Ends : SendsNothing(x)
    <2>1. SendsNothing(e)  BY <1>4, <1>7 DEF SendsNothing, SameWindows, Untouched
    <2>2. SendsNothing(o)  BY <1>2, <1>7, <1>9 DEF SendsNothing, Live, State
    <2> QED  BY <1>1, <2>1, <2>2
  <1>14. SynResponseConfirmed'  BY <1>9 DEF SynResponseConfirmed
  <1>15. \A x \in Ends : \A p \in Packets(x)' : p \in Packets(x) \/ GoodPacket(x, p)'
    <2>1. net' \subseteq net \cup {q}  BY <1>2
    <2>2. \A x \in Ends : \A s \in DOMAIN tracked'[x] :
              \/ x = e /\ tracked'[x][s].packet = q
              \/ s \in DOMAIN tracked[x] /\ tracked'[x][s].packet = tracked[x][s].packet
      BY <1>1, <1>9
    <2> QED  BY <1>1, <1>8, <2>1, <2>2, OneNewPacket
  <1> QED
    BY <1>1, <1>7, <1>10, <1>11, <1>12, <1>13, <1>14, <1>15, Combine

\* A packet on the network is good for its sender.
LEMMA NetGood ==
    ASSUME StreamInv, NEW p \in net
    PROVE  p \in PacketType /\ p.to \in Ends /\ GoodPacket(Peer(p.to), p)
  <1>1. p \in PacketType /\ p.to \in Ends  BY DEF StreamInv, Types, PacketType
  <1>2. p \in Packets(Peer(p.to)) /\ Peer(p.to) \in Ends  BY <1>1, TwoEnds DEF Packets
  <1> QED  BY <1>1, <1>2 DEF StreamInv, PacketsGood

\* handle_inbound_syn_response
LEMMA SynResponseKeeps ==
    ASSUME StreamInv, NEW p \in net, HandleSynResponse(p)
    PROVE  StreamInv'
  <1> DEFINE e == Originator
             o == Responder
  <1>0. PICK v : v = IF State(e) = "OutboundSynSent" THEN "Established" ELSE State(e)  OBVIOUS
  <1>1. e \in Ends /\ o \in Ends /\ Peer(e) = o /\ Peer(o) = e /\ e # o /\ \A x \in Ends : x = e \/ x = o
    BY StreamAssumption DEF Ends, Peer
  <1>2. /\ p.kind = "SYNresponse" /\ Live(e)
        /\ addressed' = [addressed EXCEPT ![e] = TRUE] /\ net' \subseteq net
        /\ UNCHANGED <<tracked, pendingAck, queue, sent, got, givenUp, losses, use>>
    BY DEF HandleSynResponse
  <1>3. conn' = [conn EXCEPT ![e].state = v]  BY <1>0 DEF HandleSynResponse, State
  <1>4. Types  BY DEF StreamInv
  <1>5. Answered  BY <1>2, NetGood DEF GoodPacket
  <1>6. /\ addressed' \in [Ends -> BOOLEAN] /\ addressed'[o] = addressed[o] /\ addressed'[e]
    BY <1>1, <1>2, <1>4, ZenonT(60) DEF Types
  <1>7. Moves(e, v)
    <2>1. State(e) \in States /\ State(e) # "InboundSynReceived" /\ State(e) # "absent"
      BY <1>1, <1>2, <1>4 DEF StreamInv, Beginnings, Types, IsConn, State, Live
    <2>2. v \in States /\ v # "absent" /\ v # "InboundSynReceived" /\ v # "OutboundSynSent"
      BY <1>0, <2>1 DEF States
    <2> QED  BY <1>0, <1>1, <1>2, <1>3, <1>4, <1>5, <1>6, <2>2, ZenonT(60) DEF Moves, Types, Ended
  <1>8. /\ Forward /\ Beginnings'
        /\ conn' = [x \in Ends |-> conn'[x]] /\ \A x \in Ends : IsConn(conn'[x])
        /\ conn'[e].state = v /\ SameWindows(conn[e], conn'[e]) /\ conn'[o] = conn[o]
        /\ \A x \in Ends : SameReceiver(x) /\ ClosesAfter(x)
    BY <1>1, <1>7, Moved
  <1>9. Types'  BY <1>2, <1>4, <1>6, <1>8 DEF Types, Records
  <1>10. \A x \in Ends : ReceivesNothing(x)
    <2>1. ReceivesNothing(o)  BY <1>1, <1>2, <1>8 DEF ReceivesNothing, Received, State
    <2>2. ReceivesNothing(e)
      BY <1>0, <1>1, <1>2, <1>8 DEF ReceivesNothing, Received, State, Taking
    <2> QED  BY <1>1, <2>1, <2>2
  <1>11. \A x \in Ends : SendsNothing(x)
    <2>1. SendsNothing(e)  BY <1>2, <1>8 DEF SendsNothing, SameWindows
    <2>2. SendsNothing(o)  BY <1>2, <1>8 DEF SendsNothing, Live, State
    <2> QED  BY <1>1, <2>1, <2>2
  <1>12. AnswerKept  BY <1>2, <1>8 DEF AnswerKept, Repeats, Live, IsTerminal, State
  <1>13. \A x \in Ends : \A r \in Packets(x)' : r \in Packets(x) \/ GoodPacket(x, r)'
    BY <1>2, NoNewPacket DEF StreamInv
  <1> QED  BY <1>8, <1>9, <1>10, <1>11, <1>12, <1>13, Combine

\* send_close
LEMMA CloseKeeps ==
    ASSUME StreamInv, NEW e \in Ends, SendClose(e)
    PROVE  StreamInv'
  <1> DEFINE o == Peer(e)
  <1>0. PICK q, v : q = Packet(e, "CLOSE", conn[e].next, Empty) /\ v = Closing(State(e))  OBVIOUS
  <1>1. o \in Ends /\ o # e /\ Peer(o) = e /\ \A x \in Ends : x = e \/ x = o  BY TwoEnds
  <1>2. /\ State(e) \in {"Established", "ClosingRemote"}
        /\ Track(e, q) /\ net' = net \cup {q}
        /\ pendingAck' = [pendingAck EXCEPT ![e] = FALSE]
        /\ UNCHANGED <<addressed, queue, sent, got, givenUp, losses, use>>
    BY <1>0 DEF SendClose
  <1>3. conn' = [conn EXCEPT ![e].state = v]  BY <1>0 DEF SendClose, State
  <1>4. Types  BY DEF StreamInv
  <1>5. v \in {"ClosingLocal", "Closed"} /\ (v = "Closed" => State(o) \in Ended)
    BY <1>0, <1>2 DEF Closing, StreamInv, Endings
  <1>6. Answered \/ ~addressed[Originator]  BY DEF StreamInv, Beginnings
  <1>7. Moves(e, v)
    BY <1>1, <1>2, <1>3, <1>4, <1>5, <1>6 DEF Moves, Types, Ended, States, Live
  <1>8. /\ Forward /\ Beginnings'
        /\ conn' = [x \in Ends |-> conn'[x]] /\ \A x \in Ends : IsConn(conn'[x])
        /\ conn'[e].state = v /\ SameWindows(conn[e], conn'[e]) /\ conn'[o] = conn[o]
        /\ \A x \in Ends : SameReceiver(x) /\ ClosesAfter(x)
    BY <1>7, Moved
  <1>9. q \in PacketType /\ GoodPacket(e, q)' /\ q.to = Peer(e) /\ q.seq = conn[e].next
    <2>1. State(e)' # "absent" /\ State(e)' \in Ended /\ "CLOSE" \in Kinds /\ Empty \in Nat
      BY <1>5, <1>8 DEF State, Kinds, Ended, Empty
    <2>2. conn[e].next \in Nat /\ conn'[e].next = conn[e].next
      BY <1>4, <1>8 DEF Types, IsConn, SameWindows
    <2> QED  BY <1>0, <1>8, <2>1, <2>2, NewPacket
  <1>10. Joined(e, q)  BY <1>2, <1>4, <1>9, TrackIs
  <1>11. pendingAck' \in [Ends -> BOOLEAN]  BY <1>2, <1>4 DEF Types
  <1>12. Types'  BY <1>2, <1>4, <1>8, <1>9, <1>10, <1>11 DEF Types, Joined
  <1>13. \A x \in Ends : ReceivesNothing(x)
    <2>1. ReceivesNothing(o)  BY <1>1, <1>2, <1>8 DEF ReceivesNothing, Received, State
    <2>2. ReceivesNothing(e)
      BY <1>2, <1>8 DEF ReceivesNothing, Received, State, Taking
    <2> QED  BY <1>1, <2>1, <2>2
  <1>14. \A x \in Ends : SendsNothing(x)
    <2>1. SendsNothing(e)  BY <1>2, <1>8, <1>10 DEF SendsNothing, SameWindows, Live, Joined
    <2>2. SendsNothing(o)  BY <1>2, <1>8, <1>10 DEF SendsNothing, Live, State, Joined
    <2> QED  BY <1>1, <2>1, <2>2
  <1>15. AnswerKept
    <2>1. Responder = e \/ Responder = o  BY <1>1 DEF Ends
    <2>2. CASE Responder = e
      BY <1>2, <1>10, <2>2 DEF AnswerKept, Repeats, Live, IsTerminal, Joined
    <2>3. CASE Responder = o
      BY <1>2, <1>8, <1>10, <2>3, ZenonT(60) DEF AnswerKept, Repeats, Live, IsTerminal, State, Joined
    <2> QED  BY <2>1, <2>2, <2>3
  <1>16. \A x \in Ends : \A p \in Packets(x)' : p \in Packets(x) \/ GoodPacket(x, p)'
    <2>1. net' \subseteq net \cup {q}  BY <1>2
    <2>2. \A x \in Ends : \A s \in DOMAIN tracked'[x] :
              \/ x = e /\ tracked'[x][s].packet = q
              \/ s \in DOMAIN tracked[x] /\ tracked'[x][s].packet = tracked[x][s].packet
      BY <1>1, <1>10 DEF Joined
    <2> QED  BY <1>9, <2>1, <2>2, OneNewPacket
  <1> QED  BY <1>8, <1>12, <1>13, <1>14, <1>15, <1>16, Combine

\* send_reset
LEMMA ResetKeeps ==
    ASSUME StreamInv, NEW e \in Ends, SendReset(e)
    PROVE  StreamInv'
  <1> DEFINE o == Peer(e)
  <1>0. PICK q : q = Packet(e, "RESET", 0, Empty)  OBVIOUS
  <1>1. o \in Ends /\ o # e /\ Peer(o) = e /\ \A x \in Ends : x = e \/ x = o  BY TwoEnds
  <1>2. /\ Live(e) /\ conn' = [conn EXCEPT ![e].state = "Reset"]
        /\ net' = net \cup {q} /\ pendingAck' = [pendingAck EXCEPT ![e] = FALSE]
        /\ UNCHANGED <<addressed, tracked, queue, sent, got, givenUp, losses, use>>
    BY <1>0 DEF SendReset
  <1>3. Types  BY DEF StreamInv
  <1>4. Answered \/ ~addressed[Originator]  BY DEF StreamInv, Beginnings
  <1>5. Moves(e, "Reset")
    BY <1>1, <1>2, <1>3, <1>4 DEF Moves, Types, Ended, States
  <1>6. /\ Forward /\ Beginnings'
        /\ conn' = [x \in Ends |-> conn'[x]] /\ \A x \in Ends : IsConn(conn'[x])
        /\ conn'[e].state = "Reset" /\ SameWindows(conn[e], conn'[e]) /\ conn'[o] = conn[o]
        /\ \A x \in Ends : SameReceiver(x) /\ ClosesAfter(x)
    BY <1>5, Moved
  <1>7. q \in PacketType /\ GoodPacket(e, q)' /\ q.to = Peer(e)
    <2>1. State(e)' # "absent" /\ "RESET" \in Kinds /\ Empty \in Nat /\ 0 \in Nat
      BY <1>6 DEF State, Kinds, Empty
    <2> QED  BY <1>0, <1>6, <2>1, NewPacket
  <1>8. pendingAck' \in [Ends -> BOOLEAN]  BY <1>2, <1>3 DEF Types
  <1>9. Types'  BY <1>2, <1>3, <1>6, <1>7, <1>8, ZenonT(60) DEF Types, Records
  <1>10. \A x \in Ends : ReceivesNothing(x)
    <2>1. ReceivesNothing(o)  BY <1>1, <1>2, <1>6 DEF ReceivesNothing, Received, State
    <2>2. ReceivesNothing(e)  BY <1>2, <1>6 DEF ReceivesNothing, Received, State, Taking
    <2> QED  BY <1>1, <2>1, <2>2
  <1>11. \A x \in Ends : SendsNothing(x)
    <2>1. SendsNothing(e)  BY <1>2, <1>6 DEF SendsNothing, SameWindows
    <2>2. SendsNothing(o)  BY <1>2, <1>6 DEF SendsNothing, Live, State
    <2> QED  BY <1>1, <2>1, <2>2
  <1>12. AnswerKept
    <2>1. Responder = e \/ Responder = o  BY <1>1 DEF Ends
    <2>2. CASE Responder = e  BY <1>6, <2>2 DEF AnswerKept, Repeats, IsTerminal, State
    <2>3. CASE Responder = o
      BY <1>2, <1>6, <2>3 DEF AnswerKept, Repeats, Live, IsTerminal, State
    <2> QED  BY <2>1, <2>2, <2>3
  <1>13. \A x \in Ends : \A p \in Packets(x)' : p \in Packets(x) \/ GoodPacket(x, p)'
    <2>1. net' \subseteq net \cup {q}  BY <1>2
    <2>2. \A x \in Ends : \A s \in DOMAIN tracked'[x] :
              s \in DOMAIN tracked[x] /\ tracked'[x][s].packet = tracked[x][s].packet
      BY <1>2
    <2> QED  BY <1>7, <2>1, <2>2, OneNewPacket
  <1> QED  BY <1>6, <1>9, <1>10, <1>11, <1>12, <1>13, Combine

\* The first messages of what was received are still in order.
LEMMA Prefix ==
    ASSUME NEW a \in Seq(Nat), NEW b \in Seq(Nat), \A i \in 1 .. Len(a \o b) : (a \o b)[i] = i
    PROVE  Len(a) <= Len(a \o b) /\ \A i \in 1 .. Len(a) : a[i] = i
  <1>1. Len(a) \in Nat /\ Len(b) \in Nat /\ Len(a \o b) = Len(a) + Len(b)  OBVIOUS
  <1>2. \A i \in 1 .. Len(a) : (a \o b)[i] = a[i]  OBVIOUS
  <1> QED  BY <1>1, <1>2

\* remove_connection
LEMMA RemoveKeeps ==
    ASSUME StreamInv, NEW e \in Ends, RemoveConnection(e)
    PROVE  StreamInv'
  <1> DEFINE o == Peer(e)
  <1>1. o \in Ends /\ o # e /\ Peer(o) = e /\ \A x \in Ends : x = e \/ x = o  BY TwoEnds
  <1>2. /\ Live(e) /\ conn' = [conn EXCEPT ![e].state = "removed"]
        /\ addressed' = [addressed EXCEPT ![e] = FALSE]
        /\ tracked' = [tracked EXCEPT ![e] = <<>>]
        /\ pendingAck' = [pendingAck EXCEPT ![e] = FALSE]
        /\ queue' = [queue EXCEPT ![e] = <<>>]
        /\ UNCHANGED <<sent, got, givenUp, net, losses, use>>
    BY DEF RemoveConnection
  <1>3. Types  BY DEF StreamInv
  <1>4. /\ addressed' \in [Ends -> BOOLEAN] /\ addressed'[o] = addressed[o] /\ ~addressed'[e]
        /\ queue' \in [Ends -> Seq(Nat)] /\ queue'[o] = queue[o] /\ queue'[e] = <<>>
        /\ pendingAck' \in [Ends -> BOOLEAN]
    BY <1>1, <1>2, <1>3 DEF Types
  <1>5. Answered \/ ~addressed'[Originator]
    BY <1>1, <1>4 DEF StreamInv, Beginnings, Ends
  <1>6. Moves(e, "removed")
    BY <1>1, <1>2, <1>3, <1>4, <1>5 DEF Moves, Ended, States
  <1>7. /\ Forward /\ Beginnings'
        /\ conn' = [x \in Ends |-> conn'[x]] /\ \A x \in Ends : IsConn(conn'[x])
        /\ conn'[e].state = "removed" /\ SameWindows(conn[e], conn'[e]) /\ conn'[o] = conn[o]
        /\ \A x \in Ends : SameReceiver(x) /\ ClosesAfter(x)
    BY <1>6, Moved
  <1>8. /\ tracked' = [x \in Ends |-> tracked'[x]] /\ tracked'[e] = <<>>
        /\ tracked'[o] = tracked[o]
    BY <1>1, <1>2, <1>3, ZenonT(60) DEF Types
  <1>9. \A x \in Ends : Records(x)'
    <2>1. Records(e)'  BY <1>8 DEF Records, IsFcn
    <2>2. Records(o)'  BY <1>1, <1>3, <1>8 DEF Types, Records
    <2> QED  BY <1>1, <2>1, <2>2
  <1>10. Types'  BY <1>2, <1>3, <1>4, <1>7, <1>8, <1>9, ZenonT(60) DEF Types
  <1>11. ReceivesNothing(o)  BY <1>1, <1>2, <1>4, <1>7 DEF ReceivesNothing, Received, State
  <1>12. InWindow(e)'
    <2>1. got[e] \in Seq(Nat) /\ queue[e] \in Seq(Nat)  BY <1>3 DEF Types
    <2>2. Received(e)' = got[e]  BY <1>2, <1>4, <2>1 DEF Received
    <2>3. InWindow(e)  BY DEF StreamInv
    <2>4. Len(got[e]) <= Len(Received(e)) /\ \A i \in 1 .. Len(got[e]) : got[e][i] = i
      BY <2>1, <2>3, Prefix, ZenonT(60) DEF InWindow, Received
    <2>5. Below(e)' = Below(e)
      BY <1>2, <1>7 DEF Below, SameWindows, Offset
    <2>6. Len(Received(e)) <= Below(e) /\ Below(e) \in Int /\ Len(Received(e)) \in Nat /\ Len(got[e]) \in Nat
      <3>1. Received(e) \in Seq(Nat)  BY <2>1 DEF Received
      <3>2. Below(e) \in Int
        BY <1>1, <1>3 DEF Below, Offset, Types, IsConn
      <3> QED  BY <2>1, <2>3, <3>1, <3>2 DEF InWindow
    <2>7. Len(got[e]) <= Below(e)  BY <2>4, <2>6
    <2>8. State(e)' \notin Taking  BY <1>7 DEF State, Taking
    <2>9. \A s, m : Carries(o, s, m)' <=> Carries(o, s, m)  BY <1>2, <1>7, ZenonT(60) DEF Carries, State, Offset
    <2>10. \A s \in DOMAIN conn'[e].reorder : Carries(o, s, conn[e].reorder[s])'
      BY <1>7, <2>3, <2>9 DEF InWindow, SameWindows
    <2> QED
      BY <1>7, <2>2, <2>3, <2>4, <2>5, <2>7, <2>8, <2>10 DEF InWindow, SameWindows, State
  <1>13. \A x \in Ends : SendsNothing(x)
    <2>1. SendsNothing(e)  BY <1>7 DEF SendsNothing, SameWindows, Live, State
    <2>2. SendsNothing(o)  BY <1>2, <1>7, <1>8 DEF SendsNothing, Live, State
    <2> QED  BY <1>1, <2>1, <2>2
  <1>14. AnswerKept
    <2>1. Responder = e \/ Responder = o  BY <1>1 DEF Ends
    <2>2. CASE Responder = e  BY <1>7, <2>2 DEF AnswerKept, Repeats, Live, State
    <2>3. CASE Responder = o
      BY <1>2, <1>7, <1>8, <2>3 DEF AnswerKept, Repeats, Live, IsTerminal, State
    <2> QED  BY <2>1, <2>2, <2>3
  <1>15. \A x \in Ends : \A p \in Packets(x)' : p \in Packets(x) \/ GoodPacket(x, p)'
    <2>1. \A x \in Ends : \A s \in DOMAIN tracked'[x] :
              s \in DOMAIN tracked[x] /\ tracked'[x][s].packet = tracked[x][s].packet
      BY <1>1, <1>8
    <2> QED  BY <1>2, <2>1, NoNewPacket DEF StreamInv
  <1> QED  BY <1>1, <1>7, <1>10, <1>11, <1>12, <1>13, <1>14, <1>15, Combine

\* drain_delivered_for
LEMMA DrainKeeps ==
    ASSUME StreamInv, NEW e \in Ends, Drain(e)
    PROVE  StreamInv'
  <1> DEFINE o == Peer(e)
  <1>1. o \in Ends /\ o # e /\ Peer(o) = e /\ \A x \in Ends : x = e \/ x = o  BY TwoEnds
  <1>2. /\ queue[e] # <<>>
        /\ got' = [got EXCEPT ![e] = @ \o queue[e]] /\ queue' = [queue EXCEPT ![e] = <<>>]
        /\ UNCHANGED <<conn, addressed, tracked, pendingAck, sent, givenUp, net, losses, use>>
    BY DEF Drain
  <1>3. Types  BY DEF StreamInv
  <1>4. /\ got' \in [Ends -> Seq(Nat)] /\ queue' \in [Ends -> Seq(Nat)]
        /\ got'[e] = got[e] \o queue[e] /\ got'[o] = got[o] /\ queue'[e] = <<>> /\ queue'[o] = queue[o]
    BY <1>1, <1>2, <1>3 DEF Types
  <1>5. Received(e)' = Received(e) /\ Received(o)' = Received(o)
    <2>1. got[e] \o queue[e] \in Seq(Nat)  BY <1>3 DEF Types
    <2>2. (got[e] \o queue[e]) \o <<>> = got[e] \o queue[e]  BY <2>1
    <2> QED  BY <1>4, <2>2 DEF Received
  <1>6. Forward /\ \A x \in Ends : SameReceiver(x) /\ ClosesAfter(x)
    BY <1>2, BothStanding
  <1>7. Types'  BY <1>2, <1>3, <1>4, ZenonT(60) DEF Types, Records
  <1>8. Beginnings'
    <2>1. ~Untouched(e)  BY <1>2 DEF Untouched
    <2>2. Untouched(o) => Untouched(o)'  BY <1>2, <1>4 DEF Untouched
    <2>3. Responder \in Ends /\ Originator \in Ends  BY DEF Ends
    <2> QED
      BY <1>1, <1>2, <2>1, <2>2, <2>3 DEF StreamInv, Beginnings, Answered, State, Offset
  <1>9. \A x \in Ends : ReceivesNothing(x)
    BY <1>1, <1>2, <1>5, <1>6 DEF ReceivesNothing, State
  <1>10. \A x \in Ends : SendsNothing(x)  BY <1>2 DEF SendsNothing, Live, State
  <1>11. AnswerKept  BY <1>2 DEF AnswerKept, Repeats, Live, IsTerminal, State
  <1>12. \A x \in Ends : \A p \in Packets(x)' : p \in Packets(x) \/ GoodPacket(x, p)'
    BY <1>2, NoNewPacket DEF StreamInv
  <1> QED  BY <1>6, <1>7, <1>8, <1>9, <1>10, <1>11, <1>12, Combine

\* poll_acks
LEMMA PollAcksKeeps ==
    ASSUME StreamInv, NEW e \in Ends, PollAcks(e)
    PROVE  StreamInv'
  <1>0. PICK q : q = Packet(e, "ack", 0, Empty)  OBVIOUS
  <1>1. /\ pendingAck' = [pendingAck EXCEPT ![e] = FALSE]
        /\ net' = IF State(e) \in ActiveStates THEN net \cup {q} ELSE net
        /\ UNCHANGED <<conn, addressed, tracked, queue, sent, got, givenUp, losses, use>>
    BY <1>0 DEF PollAcks
  <1>2. Types  BY DEF StreamInv
  <1>3. Forward /\ Beginnings' /\ \A x \in Ends : SameReceiver(x) /\ ClosesAfter(x)
    BY <1>1, BothStanding
  <1>4. pendingAck' \in [Ends -> BOOLEAN]  BY <1>1, <1>2 DEF Types
  <1>5. State(e) \in ActiveStates => q \in PacketType /\ GoodPacket(e, q)' /\ q.to = Peer(e)
    <2>1. "ack" \in Kinds /\ Empty \in Nat /\ 0 \in Nat  BY DEF Kinds, Empty
    <2>2. State(e) \in ActiveStates => State(e)' # "absent"  BY <1>1 DEF State, ActiveStates
    <2> QED  BY <1>0, <1>3, <2>1, <2>2, NewPacket
  <1>6. net' \subseteq PacketType  BY <1>1, <1>2, <1>5 DEF Types
  <1>7. Types'  BY <1>1, <1>2, <1>4, <1>6 DEF Types, Records
  <1>8. \A x \in Ends : ReceivesNothing(x)  BY <1>1, <1>3 DEF ReceivesNothing, Received, State
  <1>9. \A x \in Ends : SendsNothing(x)  BY <1>1 DEF SendsNothing, Live, State
  <1>10. AnswerKept  BY <1>1 DEF AnswerKept, Repeats, Live, IsTerminal, State
  <1>11. \A x \in Ends : \A p \in Packets(x)' : p \in Packets(x) \/ GoodPacket(x, p)'
    <2>1. \A x \in Ends : \A s \in DOMAIN tracked'[x] :
              s \in DOMAIN tracked[x] /\ tracked'[x][s].packet = tracked[x][s].packet
      BY <1>1
    <2>2. CASE State(e) \in ActiveStates
      <3>1. net' \subseteq net \cup {q}  BY <1>1, <2>2
      <3> QED  BY <1>5, <2>1, <2>2, <3>1, OneNewPacket
    <2>3. CASE State(e) \notin ActiveStates
      <3>1. net' = net  BY <1>1, <2>3
      <3> QED  BY <2>1, <3>1, NoNewPacket DEF StreamInv
    <2> QED  BY <2>2, <2>3
  <1> QED  BY <1>3, <1>7, <1>8, <1>9, <1>10, <1>11, Combine

\* poll_retransmits
LEMMA PollRetransmitsKeeps ==
    ASSUME StreamInv, NEW e \in Ends, NEW expired \in SUBSET DOMAIN tracked[e],
           PollRetransmits(e, expired)
    PROVE  StreamInv'
  <1> DEFINE o == Peer(e)
             spent == {s \in expired : tracked[e][s].count >= MaxRetransmit}
             new == [s \in DOMAIN tracked[e] \ spent |->
                        IF s \in expired THEN Repeated(tracked[e][s]) ELSE tracked[e][s]]
  <1>1. o \in Ends /\ o # e /\ Peer(o) = e /\ \A x \in Ends : x = e \/ x = o  BY TwoEnds
  <1>2. /\ tracked' = [tracked EXCEPT ![e] = new]
        /\ givenUp' = [givenUp EXCEPT ![e] = @ \cup spent]
        /\ net' = net \cup {tracked[e][s].packet : s \in expired \ spent}
        /\ UNCHANGED <<conn, addressed, pendingAck, queue, sent, got, losses, use>>
    BY DEF PollRetransmits
  <1>3. Types /\ Records(e)  BY DEF StreamInv, Types
  <1>4. Forward /\ Beginnings' /\ \A x \in Ends : SameReceiver(x) /\ ClosesAfter(x)
    BY <1>2, BothStanding
  <1>5. /\ IsFcn(new) /\ DOMAIN new = DOMAIN tracked[e] \ spent
        /\ \A s \in DOMAIN new : new[s] \in [packet : PacketType, count : Nat]
                                 /\ new[s].packet = tracked[e][s].packet
    <2>1. IsFcn(new) /\ DOMAIN new = DOMAIN tracked[e] \ spent  BY ZenonT(60) DEF IsFcn
    <2>2. ASSUME NEW s \in DOMAIN tracked[e] \ spent
          PROVE  new[s] \in [packet : PacketType, count : Nat] /\ new[s].packet = tracked[e][s].packet
      <3> DEFINE r == tracked[e][s]
      <3>1. r \in [packet : PacketType, count : Nat]  BY <1>3 DEF Records
      <3>2. new[s] = IF s \in expired THEN [r EXCEPT !.count = @ + 1] ELSE r  BY DEF Repeated
      <3> HIDE DEF r, new, spent
      <3>3. new[s] \in [packet : PacketType, count : Nat] /\ new[s].packet = r.packet  BY <3>1, <3>2
      <3> QED  BY <3>3, ZenonT(60) DEF r
    <2> HIDE DEF new
    <2> QED  BY <2>1, <2>2, ZenonT(60)
  <1> HIDE DEF new, spent
  <1>6. /\ tracked'[e] = new /\ tracked'[o] = tracked[o] /\ tracked' = [x \in Ends |-> tracked'[x]]
        /\ givenUp'[e] = givenUp[e] \cup spent /\ givenUp'[o] = givenUp[o]
        /\ givenUp' = [x \in Ends |-> givenUp'[x]]
    BY <1>1, <1>2, <1>3, ZenonT(60) DEF Types
  <1>7. \A x \in Ends : Records(x)'
    <2>1. Records(e)'  BY <1>3, <1>5, <1>6 DEF Records
    <2>2. Records(o)'  BY <1>1, <1>3, <1>6 DEF Types, Records
    <2> QED  BY <1>1, <2>1, <2>2
  <1>8. \A p \in net' : p \in net \/ p \in Packets(e)  BY <1>2 DEF Packets
  <1>9. net' \subseteq PacketType  BY <1>3, <1>8, PacketsTyped DEF Types
  <1>10. Types'  BY <1>2, <1>3, <1>6, <1>7, <1>9 DEF Types
  <1>11. \A x \in Ends : ReceivesNothing(x)  BY <1>2, <1>4 DEF ReceivesNothing, Received, State
  <1>12. \A x \in Ends : DOMAIN tracked[x] \cup givenUp[x] \subseteq DOMAIN tracked'[x] \cup givenUp'[x]
    BY <1>1, <1>5, <1>6
  <1>13. \A x \in Ends : SendsNothing(x)  BY <1>2, <1>12 DEF SendsNothing, Live, State
  <1>14. AnswerKept
    <2>1. Responder \in Ends  BY DEF Ends
    <2> QED  BY <1>2, <1>12, <2>1 DEF AnswerKept, Repeats, Live, IsTerminal, State
  <1>15. \A x \in Ends : \A p \in Packets(x)' : p \in Packets(x) \/ GoodPacket(x, p)'
    <2>1. \A x \in Ends : \A s \in DOMAIN tracked'[x] :
              s \in DOMAIN tracked[x] /\ tracked'[x][s].packet = tracked[x][s].packet
      BY <1>1, <1>5, <1>6
    <2> QED  BY <1>8, <2>1, NoNewPacket DEF StreamInv
  <1> QED  BY <1>4, <1>10, <1>11, <1>13, <1>14, <1>15, Combine

\* send_data
LEMMA SendKeeps ==
    ASSUME StreamInv, NEW e \in Ends, SendData(e)
    PROVE  StreamInv'
  <1> DEFINE o == Peer(e)
             n == conn[e].next
  <1>0. PICK q : q = [Packet(e, "data", n, sent[e] + 1) EXCEPT !.noAck = OverCap(e)]  BY ZenonT(60)
  <1>1. o \in Ends /\ o # e /\ Peer(o) = e /\ \A x \in Ends : x = e \/ x = o  BY TwoEnds
  <1>2. /\ State(e) = "Established" /\ conn' = [conn EXCEPT ![e] = Enqueue(conn[e])]
        /\ sent' = [sent EXCEPT ![e] = @ + 1] /\ Track(e, q) /\ net' = net \cup {q}
        /\ UNCHANGED <<addressed, queue, got, givenUp, losses, use>>
    BY <1>0 DEF SendData
  <1>3. Types /\ IsConn(conn[e]) /\ n \in Nat \ {0}  BY DEF StreamInv, Types, IsConn
  <1>4. /\ conn'[e] = Enqueue(conn[e]) /\ conn'[o] = conn[o] /\ conn' = [x \in Ends |-> conn'[x]]
        /\ sent' \in [Ends -> Nat] /\ sent'[e] = sent[e] + 1 /\ sent'[o] = sent[o]
    <2>1. conn'[e] = Enqueue(conn[e]) /\ conn'[o] = conn[o] /\ conn' = [x \in Ends |-> conn'[x]]
      BY <1>1, <1>2, <1>3, ZenonT(60) DEF Types
    <2>2. sent' \in [Ends -> Nat] /\ sent'[e] = sent[e] + 1 /\ sent'[o] = sent[o]
      BY <1>1, <1>2, <1>3 DEF Types
    <2> QED  BY <2>1, <2>2
  <1>5. /\ IsConn(conn'[e]) /\ State(e)' = "Established" /\ conn'[e].next = n + 1
        /\ conn'[e].unacked = conn[e].unacked \cup {n} /\ conn'[e].nextExpected = conn[e].nextExpected
        /\ conn'[e].reorder = conn[e].reorder /\ conn'[e].highest = conn[e].highest
    BY <1>2, <1>3, <1>4, EnqueueIs DEF State
  <1>6. \A x \in Ends : IsConn(conn'[x])  BY <1>1, <1>3, <1>4, <1>5, ZenonT(60) DEF Types
  <1>7. Evolves(o) /\ SameReceiver(o) /\ ClosesAfter(o)  BY <1>1, <1>2, <1>3, <1>4, Standing, ZenonT(60)
  <1>8. Evolves(e) /\ SameReceiver(e) /\ ClosesAfter(e)
    <2>1. SameReceiver(e) /\ ClosesAfter(e)  BY <1>5, ZenonT(60) DEF SameReceiver, ClosesAfter, Ended
    <2>2. n <= conn'[e].next  BY <1>3, <1>5
    <2>3. \A s \in Nat : Holds(e, s) => Holds(e, s)'  BY <1>5 DEF Holds
    <2> QED  BY <1>2, <1>5, <2>1, <2>2, <2>3, ZenonT(60) DEF Evolves, Ended
  <1>9. Forward  BY <1>1, <1>2, <1>4, <1>5, <1>7, <1>8 DEF Forward, Answered, State
  <1>10. Offset(e)' = Offset(e) /\ Offset(e) \in Nat /\ sent[e] = n - 1 + Offset(e)
    BY <1>2 DEF Offset, StreamInv, Beginnings
  <1>11. q \in PacketType /\ GoodPacket(e, q)' /\ q.to = Peer(e) /\ q.seq = n
    <2>1. "data" \in Kinds /\ State(e)' # "absent" /\ n \in Nat  BY <1>3, <1>5 DEF Kinds
    <2>2. sent[e] + 1 \in Nat /\ sent[e] + 1 = n + Offset(e)' /\ n \in 1 .. conn'[e].next - 1
      BY <1>3, <1>5, <1>10
    <2> HIDE DEF n
    <2> QED  BY <1>0, <1>9, <2>1, <2>2, NewPacket
  <1>12. Joined(e, q)  BY <1>2, <1>3, <1>11, TrackIs
  <1>13. pendingAck' \in [Ends -> BOOLEAN]
    <2>1. pendingAck' = [pendingAck EXCEPT ![e] = @ /\ OverCap(e)]  BY DEF SendData
    <2>2. (pendingAck[e] /\ OverCap(e)) \in BOOLEAN  BY ZenonT(60)
    <2> QED  BY <1>3, <2>1, <2>2, ZenonT(60) DEF Types
  <1>14. Types'  BY <1>2, <1>3, <1>4, <1>6, <1>11, <1>12, <1>13 DEF Types, Joined
  <1>15. Beginnings'
    <2>1. State(o)' = State(o)  BY <1>4 DEF State
    <2>2. Untouched(o) => Untouched(o)'  BY <1>2, <1>4, ZenonT(60) DEF Untouched
    <2>3. Responder \in Ends /\ Originator \in Ends  BY DEF Ends
    <2>4. State(Originator)' = State(Originator) /\ State(Responder)' = State(Responder)
      BY <1>1, <1>2, <1>5, <2>1, <2>3
    <2>5. ~Answered' => Untouched(Responder)' /\ ~addressed'[Originator]
      BY <1>1, <1>2, <1>5, <2>2, <2>3, <2>4, ZenonT(60) DEF StreamInv, Beginnings, Answered
    <2>6. \A x \in Ends : State(x)' = "absent" => Untouched(x)'
      BY <1>1, <1>5, <2>1, <2>2, ZenonT(60) DEF StreamInv, Beginnings
    <2>7. sent'[e] = conn'[e].next - 1 + Offset(e)'  BY <1>3, <1>4, <1>5, <1>10
    <2>8. State(o)' # "absent" => sent'[o] = conn'[o].next - 1 + Offset(o)'
      BY <1>1, <1>2, <1>4, <2>1 DEF StreamInv, Beginnings, Offset
    <2>9. \A x \in Ends : State(x)' # "absent" => sent'[x] = conn'[x].next - 1 + Offset(x)'
      BY <1>1, <2>7, <2>8
    <2> QED  BY <2>4, <2>5, <2>6, <2>9, ZenonT(60) DEF StreamInv, Beginnings
  <1>16. \A x \in Ends : ReceivesNothing(x)
    <2>1. ReceivesNothing(o)  BY <1>1, <1>2, <1>4, <1>7, ZenonT(60) DEF ReceivesNothing, Received, State
    <2>2. ReceivesNothing(e)  BY <1>2, <1>5, <1>8, ZenonT(60) DEF ReceivesNothing, Received, Taking
    <2> QED  BY <1>1, <2>1, <2>2
  <1>17. SendsNothing(o)  BY <1>1, <1>2, <1>4, <1>12 DEF SendsNothing, Live, State, Joined
  <1>18. ClearedAt(e)'
    <2> SUFFICES ASSUME NEW s \in 1 .. conn'[e].next - 1
                 PROVE  \/ s \in conn'[e].unacked /\ s \in DOMAIN tracked'[e] \cup givenUp'[e]
                        \/ Holds(o, s)'
      BY DEF ClearedAt
    <2>1. CASE s = n  BY <1>5, <1>11, <1>12, <2>1 DEF Joined
    <2>2. CASE s # n
      <3>1. s \in 1 .. n - 1  BY <1>3, <1>5, <2>2
      <3>2. \/ s \in conn[e].unacked /\ s \in DOMAIN tracked[e] \cup givenUp[e]
            \/ Holds(o, s)
        BY <1>2, <3>1 DEF StreamInv, ClearedIsHeld, Live
      <3>3. Holds(o, s) => Holds(o, s)'  BY <1>4 DEF Holds
      <3> QED  BY <1>2, <1>5, <1>12, <3>2, <3>3, ZenonT(60) DEF Joined
    <2> QED  BY <2>1, <2>2
  <1>19. AnswerKept
    <2>1. Responder = e \/ Responder = o  BY <1>1 DEF Ends
    <2>2. CASE Responder = e
      BY <1>2, <1>12, <2>2 DEF AnswerKept, Repeats, Live, IsTerminal, Joined
    <2>3. CASE Responder = o
      BY <1>2, <1>4, <1>12, <2>3, ZenonT(60) DEF AnswerKept, Repeats, Live, IsTerminal, State, Joined
    <2> QED  BY <2>1, <2>2, <2>3
  <1>20. \A x \in Ends : \A p \in Packets(x)' : p \in Packets(x) \/ GoodPacket(x, p)'
    <2>1. net' \subseteq net \cup {q}  BY <1>2
    <2>2. \A x \in Ends : \A s \in DOMAIN tracked'[x] :
              \/ x = e /\ tracked'[x][s].packet = q
              \/ s \in DOMAIN tracked[x] /\ tracked'[x][s].packet = tracked[x][s].packet
      BY <1>1, <1>12 DEF Joined
    <2> QED  BY <1>11, <2>1, <2>2, OneNewPacket
  <1> QED
    BY <1>1, <1>7, <1>8, <1>9, <1>14, <1>15, <1>16, <1>17, <1>18, <1>19, <1>20, Combine

-----------------------------------------------------------------------------
(* What a packet may bring. *)

\* The packet's sequence reaches the receive window.
Enters(e, p) == AfterControl(State(e), p.kind) \notin {"Reset", "Closed"} /\ p.seq # 0

\* Control flags lead from states to states.
LEMMA ControlTypes ==
    ASSUME NEW s \in States, NEW k
    PROVE  AfterControl(s, k) \in States
  BY DEF AfterControl, States

\* A packet that reaches the receive window is data or a CLOSE of the peer, and
\* its receiver takes data.
LEMMA EntersIs ==
    ASSUME StreamInv, NEW e \in Ends, NEW p \in PacketType, GoodPacket(Peer(e), p),
           HandleData(e, p), Enters(e, p)
    PROVE  Carries(Peer(e), p.seq, p.msg) /\ State(e) \in Taking
  <1> DEFINE o == Peer(e)
  <1>1. o \in Ends /\ o # e /\ Originator \in Ends /\ Responder \in Ends
        /\ (e = Responder => o = Originator)
    BY TwoEnds, StreamAssumption DEF Ends, Peer
  <1>2. p.kind \in {"data", "CLOSE"} /\ p.known /\ Live(e)
    BY ZenonT(60) DEF HandleData, GoodPacket, Enters
  <1>3. Carries(o, p.seq, p.msg)  BY <1>2 DEF GoodPacket, Carries
  <1>4. State(e) \in States  BY DEF StreamInv, Types, IsConn, State
  <1>5. State(e) # "InboundSynReceived"
    <2>1. CASE e = Responder  BY <1>1, <1>2, <2>1, ZenonT(60) DEF GoodPacket, Answered
    <2>2. CASE e = Originator  BY <2>2 DEF StreamInv, Beginnings
    <2> QED  BY <2>1, <2>2, ZenonT(60) DEF Ends
  <1>6. State(e) \notin {"Reset", "Closed"}
    BY <1>2 DEF Enters, AfterControl
  <1> QED  BY <1>2, <1>3, <1>4, <1>5, <1>6, ZenonT(60) DEF Live, States, Taking

\* The l numbers behind m.
Onward(m, l) == [k \in 1 .. l |-> m + k]

\* One sequence behind another.
LEMMA Behind ==
    ASSUME NEW a \in Seq(Nat), NEW b \in Seq(Nat)
    PROVE  /\ a \o b \in Seq(Nat) /\ Len(a) \in Nat /\ Len(b) \in Nat
           /\ Len(a \o b) = Len(a) + Len(b)
           /\ \A i \in 1 .. Len(a) + Len(b) :
                 (a \o b)[i] = IF i <= Len(a) THEN a[i] ELSE b[i - Len(a)]
  OBVIOUS

\* The numbers from one on.
Numbered(x) == \A i \in 1 .. Len(x) : x[i] = i

\* Consecutive numbers continue consecutive numbers.
LEMMA Continued ==
    ASSUME NEW a \in Seq(Nat), NEW b \in Seq(Nat), NEW l \in Nat, NEW m \in Nat, m = Len(a \o b),
           Numbered(a \o b)
    PROVE  /\ b \o Onward(m, l) \in Seq(Nat) /\ Len(a \o (b \o Onward(m, l))) = m + l
           /\ Numbered(a \o (b \o Onward(m, l)))
  <1> DEFINE c == Onward(m, l)
  <1>1. c \in Seq(Nat) /\ Len(c) = l /\ \A k \in 1 .. l : c[k] = m + k  BY DEF Onward
  <1> HIDE DEF c
  <1> DEFINE d == b \o c
  <1>2. Len(a) \in Nat /\ Len(b) \in Nat /\ m = Len(a) + Len(b)  OBVIOUS
  <1>3. \A i \in 1 .. m : i = IF i <= Len(a) THEN a[i] ELSE b[i - Len(a)]
    <2>1. ASSUME NEW i \in 1 .. m PROVE (a \o b)[i] = IF i <= Len(a) THEN a[i] ELSE b[i - Len(a)]
      BY <1>2
    <2> QED  BY <2>1 DEF Numbered
  <1>4. d \in Seq(Nat) /\ Len(d) = Len(b) + l
    <2>1. c \in Seq(Nat) /\ Len(c) = l  BY <1>1
    <2>2. Len(b \o c) = Len(b) + Len(c) /\ b \o c \in Seq(Nat)  BY <2>1, Behind, ZenonT(60)
    <2> QED  BY <2>1, <2>2
  <1>5. \A j \in 1 .. Len(b) + l : d[j] = IF j <= Len(b) THEN b[j] ELSE c[j - Len(b)]
    BY <1>1, <1>2
  <1> HIDE DEF d
  <1>6. Len(a \o d) = m + l
    <2>1. Len(a \o d) = Len(a) + Len(d)  BY <1>4, Behind, ZenonT(60)
    <2> QED  BY <1>2, <1>4, <2>1
  <1>7. ASSUME NEW i \in 1 .. m + l PROVE (a \o d)[i] = i
    <2>1. (a \o d)[i] = IF i <= Len(a) THEN a[i] ELSE d[i - Len(a)]  BY <1>2, <1>4
    <2>2. CASE i <= m
      <3>1. CASE i <= Len(a)  BY <1>2, <1>3, <2>1, <2>2, <3>1
      <3>2. CASE ~(i <= Len(a))
        <4>1. i - Len(a) \in 1 .. Len(b) + l /\ i - Len(a) <= Len(b) /\ i \in 1 .. m
          BY <1>2, <2>2, <3>2
        <4> QED  BY <1>3, <1>5, <2>1, <3>2, <4>1, ZenonT(60)
      <3> QED  BY <3>1, <3>2, ZenonT(60)
    <2>3. CASE ~(i <= m)
      <3>1. i - Len(a) \in 1 .. Len(b) + l /\ ~(i - Len(a) <= Len(b)) /\ ~(i <= Len(a))
            /\ i - Len(a) - Len(b) \in 1 .. l /\ m + (i - Len(a) - Len(b)) = i
        BY <1>2, <2>3
      <3> QED  BY <1>1, <1>5, <2>1, <3>1, ZenonT(60)
    <2> QED  BY <2>2, <2>3, ZenonT(60)
  <1> QED  BY <1>4, <1>6, <1>7 DEF c, d, Numbered
=============================================================================
