-------------------------- MODULE StreamDataProofs --------------------------
(***************************************************************************)
(* handle_data_packet and the theorems about Streaming.  The receive       *)
(* window releases what the good packets of the peer carry, in their       *)
(* order; with the other handlers of StreamingProofs every step keeps the  *)
(* invariant StreamInv.                                                    *)
(***************************************************************************)
EXTENDS StreamingProofs

\* The time the solvers have for a leaf; one that is interrupted is tried again.
USE SMTT(30), Z3T(30), ZenonT(30), SMTT(40)

-----------------------------------------------------------------------------
(* The receive window. *)

\* The run behind an in-order packet ends inside the window: at the first
\* sequence that is not buffered.
LEMMA AfterRunIs ==
    ASSUME NEW c, IsConn(c)
    PROVE  /\ AfterRun(c, c.nextExpected) \in Nat
           /\ AfterRun(c, c.nextExpected) > c.nextExpected
           /\ AfterRun(c, c.nextExpected) \notin DOMAIN c.reorder
           /\ \A s \in Nat : c.nextExpected < s /\ s < AfterRun(c, c.nextExpected)
                             => s \in DOMAIN c.reorder
  <1> DEFINE n == c.nextExpected
             P(a) == a \notin DOMAIN c.reorder /\ n + 1 .. a - 1 \subseteq DOMAIN c.reorder
  <1>1. n \in Nat /\ RecvWindow \in Nat /\ n \notin DOMAIN c.reorder  BY WindowAssumption DEF IsConn
  <1>2. n \in n .. n + RecvWindow  BY <1>1
  <1>3. \E l \in n + 1 .. n + RecvWindow + 1 : P(l)  BY <1>1, <1>2, ZenonT(60) DEF IsConn, Gaps
  <1>4. AfterRun(c, n) = CHOOSE a \in n + 1 .. n + RecvWindow + 1 : P(a)  BY DEF AfterRun
  <1>5. AfterRun(c, n) \in n + 1 .. n + RecvWindow + 1 /\ P(AfterRun(c, n))
    BY <1>3, <1>4, ZenonT(60)
  <1> QED  BY <1>1, <1>5

\* The receive window of r is the one of c after receive of this packet.
Took(c, seq, msg, r) ==
    /\ c.nextExpected <= r.nextExpected
    /\ \A s \in DOMAIN c.reorder : s < r.nextExpected \/ s \in DOMAIN r.reorder
    /\ Decision(c, seq) = "delivered" =>
          /\ r.nextExpected = AfterRun(c, seq)
          /\ \A s \in DOMAIN r.reorder : s \in DOMAIN c.reorder /\ r.reorder[s] = c.reorder[s]
          /\ r.highest = Larger(c.highest, seq)
    /\ Decision(c, seq) = "buffered" =>
          /\ r.nextExpected = c.nextExpected /\ DOMAIN r.reorder = DOMAIN c.reorder \cup {seq}
          /\ \A s \in DOMAIN c.reorder \ {seq} : r.reorder[s] = c.reorder[s]
          /\ r.reorder[seq] = msg /\ r.highest = Larger(c.highest, seq)
    /\ Decision(c, seq) \notin {"delivered", "buffered"} =>
          r.nextExpected = c.nextExpected /\ r.reorder = c.reorder /\ r.highest = c.highest

\* What receive does to the window.
LEMMA ReceiveIs ==
    ASSUME NEW c, IsConn(c), NEW seq \in Nat, NEW msg \in Nat
    PROVE  /\ IsConn(Receive(c, seq, msg)) /\ Receive(c, seq, msg).state = c.state
           /\ Receive(c, seq, msg).next = c.next /\ Receive(c, seq, msg).unacked = c.unacked
           /\ Took(c, seq, msg, Receive(c, seq, msg))
  <1> DEFINE r == Receive(c, seq, msg)
             h == Larger(c.highest, seq)
             after == AfterRun(c, seq)
             noted == [c EXCEPT !.highest = h]
  <1>1. h \in Nat  BY DEF Larger, IsConn
  <1>2. CASE Decision(c, seq) = "delivered"
    <2> DEFINE left == DOMAIN c.reorder \ (seq .. after - 1)
               buf == [s \in left |-> c.reorder[s]]
               z == [noted EXCEPT !.nextExpected = after, !.reorder = buf]
    <2>1. seq = c.nextExpected  BY <1>2 DEF Decision
    <2>2. noted.reorder = c.reorder  BY ZenonT(60) DEF IsConn, IsFcn, ConnFields
    <2>3. r = z  BY <1>2, <2>2 DEF Receive
    <2>4. after \in Nat /\ after > c.nextExpected /\ after \notin DOMAIN c.reorder
          /\ \A s \in Nat : c.nextExpected < s /\ s < after => s \in DOMAIN c.reorder
      BY <2>1, AfterRunIs
    <2> HIDE DEF h, after
    <2>5. IsFcn(buf) /\ DOMAIN buf = left /\ \A s \in left : buf[s] = c.reorder[s]
      BY ZenonT(60) DEF IsFcn
    <2> HIDE DEF buf
    <2>6. /\ IsFcn(z) /\ DOMAIN z = ConnFields /\ z.state = c.state /\ z.next = c.next
          /\ z.unacked = c.unacked /\ z.nextExpected = after
          /\ z.reorder = buf /\ z.highest = h
      BY ZenonT(60) DEF IsConn, IsFcn, ConnFields
    <2> HIDE DEF z
    <2>7. ASSUME NEW s \in left
          PROVE s \in Nat /\ after < s /\ s < after + RecvWindow /\ c.reorder[s] \in Nat
      <3>1. s \in Nat /\ c.nextExpected < s /\ s < c.nextExpected + RecvWindow /\ c.reorder[s] \in Nat
            /\ c.nextExpected \in Nat /\ RecvWindow \in Nat /\ ~(s \in seq .. after - 1) /\ s # after
        BY <2>4, WindowAssumption DEF IsConn
      <3> QED  BY <2>1, <2>4, <3>1
    <2>12. Gaps(buf, after)
      <3> SUFFICES ASSUME NEW m \in after .. after + RecvWindow, m \notin left
                   PROVE  \E l \in m + 1 .. after + RecvWindow + 1 :
                              l \notin left /\ m + 1 .. l - 1 \subseteq left
        BY <2>5 DEF Gaps
      <3>1. /\ seq \in Nat /\ after \in Nat /\ RecvWindow \in Nat /\ seq < after /\ m \in Nat
            /\ \A s \in DOMAIN c.reorder : s \in Nat /\ s < seq + RecvWindow
        BY <2>1, <2>4, WindowAssumption DEF IsConn
      <3>2. CASE m <= seq + RecvWindow
        <4>1. m \in seq .. seq + RecvWindow /\ m \notin DOMAIN c.reorder  BY <3>1, <3>2
        <4>2. PICK l \in m + 1 .. seq + RecvWindow + 1 :
                  l \notin DOMAIN c.reorder /\ m + 1 .. l - 1 \subseteq DOMAIN c.reorder
          BY <2>1, <4>1, ZenonT(60) DEF IsConn, Gaps
        <4>3. l \in m + 1 .. after + RecvWindow + 1 /\ m + 1 .. l - 1 \subseteq left  BY <3>1, <4>2
        <4> QED  BY <4>2, <4>3
      <3>3. CASE m > seq + RecvWindow
        <4>1. m + 1 \in m + 1 .. after + RecvWindow + 1 /\ m + 1 \notin left
              /\ m + 1 .. m + 1 - 1 \subseteq left
          BY <3>1, <3>3
        <4> QED  BY <4>1
      <3> QED  BY <3>1, <3>2, <3>3
    <2>8. IsConn(r)  BY <1>1, <2>3, <2>4, <2>5, <2>6, <2>7, <2>12 DEF IsConn
    <2>9. \A s \in DOMAIN c.reorder : s < after \/ s \in left
      BY <2>1, <2>4 DEF IsConn
    <2>10. c.nextExpected <= after  BY <2>4 DEF IsConn
    <2>11. r.highest = Larger(c.highest, seq) /\ r.nextExpected = AfterRun(c, seq)
      BY <2>3, <2>6 DEF h, after
    <2> QED  BY <1>2, <2>3, <2>5, <2>6, <2>8, <2>9, <2>10, <2>11 DEF Took
  <1>3. CASE Decision(c, seq) = "buffered"
    <2> DEFINE buf == [s \in DOMAIN c.reorder \cup {seq} |-> IF s = seq THEN msg ELSE c.reorder[s]]
               z == [noted EXCEPT !.reorder = buf]
    <2>1. c.nextExpected < seq /\ seq < c.nextExpected + RecvWindow
      BY <1>3, WindowAssumption DEF Decision, IsConn
    <2>2. noted.reorder = c.reorder  BY ZenonT(60) DEF IsConn, IsFcn, ConnFields
    <2>3. r = z  BY <1>3, <2>2 DEF Receive
    <2>4. /\ IsFcn(buf) /\ DOMAIN buf = DOMAIN c.reorder \cup {seq} /\ buf[seq] = msg
          /\ \A s \in DOMAIN c.reorder \ {seq} : buf[s] = c.reorder[s]
      BY ZenonT(60) DEF IsFcn
    <2> HIDE DEF buf, h
    <2>5. /\ IsFcn(z) /\ DOMAIN z = ConnFields /\ z.state = c.state /\ z.next = c.next
          /\ z.unacked = c.unacked /\ z.nextExpected = c.nextExpected
          /\ z.reorder = buf /\ z.highest = h
      BY ZenonT(60) DEF IsConn, IsFcn, ConnFields
    <2> HIDE DEF z
    <2>9. Gaps(buf, c.nextExpected)
      <3> DEFINE n == c.nextExpected
                 held == DOMAIN c.reorder
      <3> SUFFICES ASSUME NEW m \in n .. n + RecvWindow, m \notin held \cup {seq}
                   PROVE  \E l \in m + 1 .. n + RecvWindow + 1 :
                              l \notin held \cup {seq} /\ m + 1 .. l - 1 \subseteq held \cup {seq}
        BY <2>4 DEF Gaps
      <3>1. n \in Nat /\ RecvWindow \in Nat  BY WindowAssumption DEF IsConn
      <3>2. PICK l \in m + 1 .. n + RecvWindow + 1 : l \notin held /\ m + 1 .. l - 1 \subseteq held
        BY ZenonT(60) DEF IsConn, Gaps
      <3>3. CASE l # seq  BY <3>2, <3>3
      <3>4. CASE l = seq
        <4>1. seq \in n .. n + RecvWindow  BY <2>1, <3>1
        <4>2. PICK k \in seq + 1 .. n + RecvWindow + 1 :
                  k \notin held /\ seq + 1 .. k - 1 \subseteq held
          BY <3>2, <3>4, <4>1, ZenonT(60) DEF IsConn, Gaps
        <4>3. k \in m + 1 .. n + RecvWindow + 1 /\ k # seq
              /\ m + 1 .. k - 1 \subseteq (m + 1 .. seq - 1) \cup {seq} \cup (seq + 1 .. k - 1)
          BY <3>1, <3>4, <4>2
        <4> QED  BY <3>2, <3>4, <4>2, <4>3
      <3> QED  BY <3>3, <3>4
    <2>6. IsConn(r)  BY <1>1, <2>1, <2>3, <2>4, <2>5, <2>9 DEF IsConn
    <2>7. r.highest = Larger(c.highest, seq)  BY <2>3, <2>5 DEF h
    <2>8. c.nextExpected <= c.nextExpected  BY DEF IsConn
    <2> QED  BY <1>3, <2>3, <2>4, <2>5, <2>6, <2>7, <2>8 DEF Took
  <1>4. CASE Decision(c, seq) \notin {"delivered", "buffered"}
    <2>1. r = c  BY <1>4 DEF Receive
    <2>2. c.nextExpected <= c.nextExpected  BY DEF IsConn
    <2> QED  BY <1>4, <2>1, <2>2 DEF Took
  <1> QED  BY <1>2, <1>3, <1>4

-----------------------------------------------------------------------------
(* handle_data_packet, field by field. *)

\* The send side: only covered packets that are not nacked are cleared.
LEMMA DataSendSide ==
    ASSUME Types, NEW e \in Ends, NEW p \in PacketType, HandleData(e, p)
    PROVE  /\ conn' = [x \in Ends |-> conn'[x]] /\ \A x \in Ends : IsConn(conn'[x])
           /\ conn'[Peer(e)] = conn[Peer(e)]
           /\ conn'[e].state = AfterControl(State(e), p.kind) /\ conn'[e].next = conn[e].next
           /\ \A s \in conn[e].unacked : s \in conn'[e].unacked
                                         \/ (s <= p.through /\ s \notin ValidNacks(p.through, p.nacks))
           /\ tracked' = [x \in Ends |-> tracked'[x]] /\ \A x \in Ends : Records(x)'
           /\ tracked'[Peer(e)] = tracked[Peer(e)]
           /\ \A s \in DOMAIN tracked'[e] : s \in DOMAIN tracked[e] /\ tracked'[e][s] = tracked[e][s]
           /\ \A s \in DOMAIN tracked[e] : s \in DOMAIN tracked'[e]
                                         \/ (s <= p.through /\ s \notin ValidNacks(p.through, p.nacks))
  <1> DEFINE st == AfterControl(State(e), p.kind)
             acks == ~p.noAck /\ ~(st \in {"Reset", "Closed"})
             acked == IF acks THEN Acknowledge(conn[e], p.through, p.nacks) ELSE conn[e]
             c == IF Enters(e, p) THEN Receive(acked, p.seq, p.msg) ELSE acked
             z == [c EXCEPT !.state = st]
             left == IF acks THEN StillTracked(tracked[e], p) ELSE tracked[e]
  <1>1. p.through \in Nat /\ p.nacks \in SUBSET Nat /\ p.seq \in Nat /\ p.msg \in Nat
    BY DEF PacketType
  <1>2. IsConn(conn[e]) /\ State(e) \in States  BY DEF Types, IsConn, State
  <1>3. /\ IsConn(acked) /\ acked.next = conn[e].next
        /\ \A s \in conn[e].unacked : s \in acked.unacked
                                      \/ (s <= p.through /\ s \notin ValidNacks(p.through, p.nacks))
    <2>1. CASE acks  BY <2>1, <1>1, <1>2, AcknowledgeIs
    <2>2. CASE ~acks  BY <2>2, <1>2
    <2> QED  BY <2>1, <2>2
  <1>4. conn' = [conn EXCEPT ![e] = z] /\ tracked' = [tracked EXCEPT ![e] = left]
    BY DEF HandleData, Enters
  <1> HIDE DEF acked
  <1>5. IsConn(c) /\ c.next = acked.next /\ c.unacked = acked.unacked
    <2> DEFINE r == Receive(acked, p.seq, p.msg)
    <2>1. IsConn(r) /\ r.next = acked.next /\ r.unacked = acked.unacked
      BY <1>1, <1>3, ReceiveIs, ZenonT(60)
    <2> HIDE DEF r
    <2>2. c = IF Enters(e, p) THEN r ELSE acked  BY DEF r
    <2> QED  BY <1>3, <2>1, <2>2
  <1>6. st \in States  BY <1>2, ControlTypes
  <1> HIDE DEF c, st
  <1>7. IsConn(z) /\ z.state = st /\ z.next = c.next /\ z.unacked = c.unacked
    BY <1>5, <1>6, NewState DEF SameWindows
  <1> HIDE DEF z
  <1>8. conn'[e] = z /\ conn'[Peer(e)] = conn[Peer(e)] /\ conn' = [x \in Ends |-> conn'[x]]
    BY <1>4, TwoEnds, ZenonT(60) DEF Types
  <1>9. \A x \in Ends : IsConn(conn'[x])
    BY <1>7, <1>8, TwoEnds, ZenonT(60) DEF Types
  <1>10. /\ IsFcn(left)
         /\ \A s \in DOMAIN left : s \in DOMAIN tracked[e] /\ left[s] = tracked[e][s]
         /\ \A s \in DOMAIN tracked[e] : s \in Nat
         /\ \A s \in DOMAIN tracked[e] : s \in DOMAIN left
                                      \/ (~(s > p.through) /\ s \notin ValidNacks(p.through, p.nacks))
    <2>1. Records(e)  BY DEF Types
    <2>2. CASE acks  BY <2>1, <2>2, ZenonT(60) DEF StillTracked, Records, IsFcn
    <2>3. CASE ~acks  BY <2>1, <2>3, ZenonT(60) DEF Records, IsFcn
    <2> QED  BY <2>2, <2>3
  <1> HIDE DEF left
  <1>11. tracked'[e] = left /\ tracked'[Peer(e)] = tracked[Peer(e)]
         /\ tracked' = [x \in Ends |-> tracked'[x]]
    BY <1>4, TwoEnds, ZenonT(60) DEF Types
  <1>12. ASSUME NEW x \in Ends PROVE Records(x)'
    <2>1. Records(x) /\ Records(e)  BY DEF Types
    <2>2. CASE x = e  BY <1>10, <1>11, <2>1, <2>2, ZenonT(60) DEF Records
    <2>3. CASE x = Peer(e)  BY <1>11, <2>1, <2>3, ZenonT(60) DEF Records
    <2> QED  BY <2>2, <2>3, TwoEnds
  <1>13. \A s \in DOMAIN tracked[e] : s \in DOMAIN left
                                      \/ (s <= p.through /\ s \notin ValidNacks(p.through, p.nacks))
    BY <1>1, <1>10
  <1>14. /\ conn'[e].state = AfterControl(State(e), p.kind) /\ conn'[e].next = conn[e].next
         /\ \A s \in conn[e].unacked : s \in conn'[e].unacked
                                       \/ (s <= p.through /\ s \notin ValidNacks(p.through, p.nacks))
    BY <1>3, <1>5, <1>7, <1>8 DEF st
  <1> QED  BY <1>8, <1>9, <1>10, <1>11, <1>12, <1>13, <1>14

\* A release keeps everything before the CLOSE.
LEMMA PayloadsIs ==
    ASSUME NEW out \in Seq(Nat), NEW n \in Nat,
           \/ n = Len(out) /\ \A i \in 1 .. n : out[i] # Empty
           \/ n + 1 = Len(out) /\ \A i \in 1 .. n + 1 : out[i] = Empty <=> i = n + 1
    PROVE  Payloads(out) = [k \in 1 .. n |-> out[k]]
  <1>1. CASE n = Len(out) /\ \A i \in 1 .. n : out[i] # Empty
    BY <1>1 DEF Payloads
  <1>2. CASE n + 1 = Len(out) /\ \A i \in 1 .. n + 1 : out[i] = Empty <=> i = n + 1
    <2> DEFINE at == CHOOSE i \in DOMAIN out : out[i] = Empty
    <2>1. DOMAIN out = 1 .. n + 1 /\ n + 1 \in 1 .. n + 1 /\ Len(out) - 1 = n  BY <1>2
    <2>2. at = n + 1  BY <1>2, <2>1
    <2>3. Payloads(out) = [k \in 1 .. Len(out) - 1 |-> out[IF k < at THEN k ELSE k + 1]]
      BY <1>2, <2>1 DEF Payloads
    <2> HIDE DEF at
    <2>4. \A k \in 1 .. n : (IF k < at THEN k ELSE k + 1) = k  BY <2>2
    <2> QED  BY <2>1, <2>3, <2>4, ZenonT(60)
  <1> QED  BY <1>1, <1>2

\* The receive side.
LEMMA DataReceiveSide ==
    ASSUME Types, NEW e \in Ends, NEW p \in PacketType, HandleData(e, p)
    PROVE  /\ got' = got /\ queue' = [x \in Ends |-> queue'[x]] /\ queue'[Peer(e)] = queue[Peer(e)]
           /\ Enters(e, p) => Took(conn[e], p.seq, p.msg, conn'[e])
           /\ ~Enters(e, p) => SameReceiver(e)
           /\ IF Enters(e, p) /\ p.seq = conn[e].nextExpected
              THEN queue'[e] = queue[e] \o Payloads(Released(conn[e], p.seq, p.msg))
              ELSE queue'[e] = queue[e]
  <1> DEFINE st == AfterControl(State(e), p.kind)
             acks == ~p.noAck /\ ~(st \in {"Reset", "Closed"})
             acked == IF acks THEN Acknowledge(conn[e], p.through, p.nacks) ELSE conn[e]
             r == Receive(acked, p.seq, p.msg)
             c == IF Enters(e, p) THEN r ELSE acked
             z == [c EXCEPT !.state = st]
             decision == IF Enters(e, p) THEN Decision(acked, p.seq) ELSE "none"
             out == IF decision = "delivered" THEN Released(acked, p.seq, p.msg) ELSE <<>>
  <1>1. p.through \in Nat /\ p.nacks \in SUBSET Nat /\ p.seq \in Nat /\ p.msg \in Nat
    BY DEF PacketType
  <1>2. IsConn(conn[e]) /\ State(e) \in States  BY DEF Types, IsConn, State
  <1>3. /\ IsConn(acked) /\ acked.nextExpected = conn[e].nextExpected
        /\ acked.reorder = conn[e].reorder /\ acked.highest = conn[e].highest
    <2>1. CASE acks  BY <2>1, <1>1, <1>2, AcknowledgeIs
    <2>2. CASE ~acks  BY <2>2, <1>2
    <2> QED  BY <2>1, <2>2
  <1>4. conn' = [conn EXCEPT ![e] = z] /\ queue' = [queue EXCEPT ![e] = @ \o Payloads(out)]
        /\ got' = got
    BY DEF HandleData, Enters
  <1> HIDE DEF acked
  <1>5. IsConn(r) /\ Took(acked, p.seq, p.msg, r)  BY <1>1, <1>3, ReceiveIs, ZenonT(60)
  <1>6. st \in States  BY <1>2, ControlTypes
  <1> HIDE DEF r, st
  <1>7. IsConn(c)  BY <1>3, <1>5
  <1> HIDE DEF c
  <1>8. z.nextExpected = c.nextExpected /\ z.reorder = c.reorder /\ z.highest = c.highest
    BY <1>6, <1>7, NewState DEF SameWindows
  <1> HIDE DEF z
  <1>9. conn'[e] = z  BY <1>4, ZenonT(60) DEF Types
  <1>10. /\ Decision(acked, p.seq) = Decision(conn[e], p.seq)
         /\ AfterRun(acked, p.seq) = AfterRun(conn[e], p.seq)
         /\ Released(acked, p.seq, p.msg) = Released(conn[e], p.seq, p.msg)
    <2>1. AfterRun(acked, p.seq) = AfterRun(conn[e], p.seq)  BY <1>3 DEF AfterRun
    <2>2. Decision(acked, p.seq) = Decision(conn[e], p.seq)  BY <1>3 DEF Decision
    <2>3. Released(acked, p.seq, p.msg) = Released(conn[e], p.seq, p.msg)
      BY <1>3, <2>1, ZenonT(60) DEF Released
    <2> QED  BY <2>1, <2>2, <2>3
  <1>11. ASSUME Enters(e, p) PROVE Took(conn[e], p.seq, p.msg, conn'[e])
    <2>1. c = r  BY <1>11 DEF c
    <2> QED  BY <1>3, <1>5, <1>8, <1>9, <1>10, <2>1 DEF Took
  <1>12. ASSUME ~Enters(e, p) PROVE SameReceiver(e)
    <2>1. c = acked  BY <1>12 DEF c
    <2> QED  BY <1>3, <1>8, <1>9, <2>1 DEF SameReceiver
  <1>13. queue'[e] = queue[e] \o Payloads(out) /\ queue'[Peer(e)] = queue[Peer(e)]
         /\ queue' = [x \in Ends |-> queue'[x]]
    <2>1. queue = [x \in Ends |-> queue[x]]  BY DEF Types
    <2> HIDE DEF out
    <2> QED  BY <1>4, <2>1, TwoEnds, ZenonT(60)
  <1>14. decision = "delivered" <=> Enters(e, p) /\ p.seq = conn[e].nextExpected
    <2>1. Decision(conn[e], p.seq) = "delivered" <=> p.seq = conn[e].nextExpected
      BY <1>1, <1>2 DEF Decision, IsConn
    <2>2. decision = IF Enters(e, p) THEN Decision(conn[e], p.seq) ELSE "none"  BY <1>10
    <2> HIDE DEF decision
    <2> QED  BY <2>1, <2>2
  <1>15. CASE decision = "delivered"
    <2>1. out = Released(conn[e], p.seq, p.msg)  BY <1>10, <1>15
    <2> QED  BY <1>4, <1>11, <1>13, <1>14, <1>15, <2>1, ZenonT(60)
  <1>16. CASE decision # "delivered"
    <2>1. out = <<>>  BY <1>16
    <2>3. Payloads(out) = <<>>  BY <2>1 DEF Payloads
    <2>4. queue[e] \in Seq(Nat)  BY DEF Types
    <2>5. queue'[e] = queue[e] \o <<>>  BY <1>13, <2>3, ZenonT(60)
    <2>6. queue'[e] = queue[e]  BY <2>4, <2>5
    <2> QED  BY <1>4, <1>11, <1>12, <1>13, <1>14, <1>16, <2>6, ZenonT(60)
  <1> QED  BY <1>15, <1>16, ZenonT(60)

-----------------------------------------------------------------------------
(* handle_data_packet. *)

\* The smaller of where the run ends and the sequence of the sender's CLOSE.
Upto(after, close) == IF after <= close THEN after ELSE close

\* What an in-order packet releases: the sender's next messages, and no more than
\* the packets the sender numbered.
LEMMA RunIs ==
    ASSUME NEW o \in Ends, IsConn(conn[o]), NEW c, IsConn(c), NEW msg,
           Carries(o, c.nextExpected, msg),
           \A s \in DOMAIN c.reorder : Carries(o, s, c.reorder[s])
    PROVE  LET n == c.nextExpected
               after == AfterRun(c, n)
               upto == Upto(after, conn[o].next)
           IN  /\ n <= upto /\ upto \in Nat
               /\ after <= conn[o].next \/ (after = conn[o].next + 1 /\ State(o) \in Ended)
               /\ Payloads(Released(c, n, msg)) = Onward(n - 1 + Offset(o), upto - n)
  <1> DEFINE n == c.nextExpected
             N == conn[o].next
             F == Offset(o)
             after == AfterRun(c, n)
             upto == Upto(after, N)
             out == Released(c, n, msg)
  <1>1. n \in Nat /\ N \in Nat /\ n >= 1 /\ N >= 1 /\ F \in Nat  BY DEF IsConn, Offset
  <1>2. /\ after \in Nat /\ after > n
        /\ \A s \in Nat : n < s /\ s < after => s \in DOMAIN c.reorder
    BY AfterRunIs
  <1>3. /\ out \in Seq(Nat) /\ Len(out) = after - n /\ DOMAIN out = 1 .. after - n
        /\ \A k \in 1 .. after - n : out[k] = IF k = 1 THEN msg ELSE c.reorder[n + k - 1]
    <2> DEFINE rest == [i \in 1 .. after - n - 1 |-> c.reorder[n + i]]
    <2>1. out = <<msg>> \o rest  BY DEF Released
    <2> HIDE DEF out, after, n
    <2>2. after - n - 1 \in Nat  BY <1>1, <1>2
    <2>3. msg \in Nat  BY <1>1 DEF Carries, F, Empty
    <2>4. \A i \in 1 .. after - n - 1 : c.reorder[n + i] \in Nat
      <3> SUFFICES ASSUME NEW i \in 1 .. after - n - 1 PROVE n + i \in DOMAIN c.reorder
        BY DEF IsConn
      <3>1. n + i \in Nat /\ n < n + i /\ n + i < after  BY <1>1, <1>2
      <3> QED  BY <1>2, <3>1
    <2>8. rest \in Seq(Nat) /\ Len(rest) = after - n - 1
          /\ \A i \in 1 .. after - n - 1 : rest[i] = c.reorder[n + i]
      BY <2>2, <2>4
    <2> HIDE DEF rest
    <2>5. Len(<<msg>>) = 1 /\ <<msg>>[1] = msg  OBVIOUS
    <2>6. out \in Seq(Nat) /\ Len(out) = after - n /\ DOMAIN out = 1 .. after - n
      BY <1>1, <1>2, <2>1, <2>3, <2>8
    <2>7. ASSUME NEW k \in 1 .. after - n
          PROVE  out[k] = IF k = 1 THEN msg ELSE c.reorder[n + k - 1]
      <3>1. CASE k = 1  BY <2>1, <2>8, <3>1
      <3>2. CASE k # 1
        <4>1. k - 1 \in 1 .. after - n - 1 /\ n + (k - 1) = n + k - 1  BY <1>1, <1>2, <3>2
        <4>2. out[k] = rest[k - 1]  BY <1>1, <1>2, <2>1, <2>8, <3>2
        <4> QED  BY <2>8, <3>2, <4>1, <4>2
      <3> QED  BY <3>1, <3>2
    <2> QED  BY <2>6, <2>7
  <1> HIDE DEF out, after, n, N, F
  <1>4. ASSUME NEW k \in 1 .. after - n PROVE Carries(o, n + k - 1, out[k])
    <2>1. CASE k = 1  BY <1>1, <1>3, <2>1 DEF n
    <2>2. CASE k # 1
      <3>1. n + k - 1 \in Nat /\ n < n + k - 1 /\ n + k - 1 < after  BY <1>1, <1>2, <2>2
      <3> QED  BY <1>2, <1>3, <2>2, <3>1
    <2> QED  BY <2>1, <2>2
  <1>5. \A k \in 1 .. after - n :
            \/ n + k - 1 < N /\ out[k] = n + k - 1 + F
            \/ n + k - 1 = N /\ out[k] = Empty /\ State(o) \in Ended
    BY <1>1, <1>4 DEF Carries, N, F
  <1>6. after - n \in 1 .. after - n /\ 1 \in 1 .. after - n  BY <1>1, <1>2
  <1>7. after <= N \/ (after = N + 1 /\ State(o) \in Ended)  BY <1>1, <1>2, <1>5, <1>6
  <1>8. upto \in Nat /\ n <= upto /\ upto - n \in Nat
    <2>1. n <= N  BY <1>1, <1>5, <1>6
    <2> QED  BY <1>1, <1>2, <2>1 DEF Upto
  <1>9. \/ upto - n = after - n /\ \A k \in 1 .. after - n : out[k] # Empty
        \/ upto - n + 1 = after - n /\ \A k \in 1 .. after - n : out[k] = Empty <=> k = after - n
    <2>1. ASSUME NEW k \in 1 .. after - n PROVE out[k] # Empty <=> n + k - 1 < N
      BY <1>1, <1>5, <1>2 DEF Empty
    <2>2. CASE after <= N  BY <1>1, <1>2, <2>1, <2>2 DEF Upto
    <2>3. CASE after = N + 1  BY <1>1, <1>2, <2>1, <2>3 DEF Upto
    <2> QED  BY <1>7, <2>2, <2>3
  <1>10. Payloads(out) = [k \in 1 .. upto - n |-> out[k]]
    <2>1. PICK l : l = upto - n  OBVIOUS
    <2>2. l \in Nat  BY <1>8, <2>1
    <2>3. \/ l = Len(out) /\ \A i \in 1 .. l : out[i] # Empty
          \/ l + 1 = Len(out) /\ \A i \in 1 .. l + 1 : out[i] = Empty <=> i = l + 1
      <3>1. l + 1 = after - n => 1 .. l + 1 = 1 .. after - n  OBVIOUS
      <3> QED  BY <1>3, <1>9, <2>1, <3>1
    <2>4. Payloads(out) = [k \in 1 .. l |-> out[k]]  BY <1>3, <2>2, <2>3, PayloadsIs, ZenonT(60)
    <2> QED  BY <2>1, <2>4
  <1>11. ASSUME NEW k \in 1 .. upto - n PROVE out[k] = n - 1 + F + k
    <2>1. k \in 1 .. after - n /\ n + k - 1 < N  BY <1>1, <1>2, <1>7 DEF Upto
    <2>2. n + k - 1 + F = n - 1 + F + k  BY <1>1
    <2> QED  BY <1>1, <1>5, <2>1, <2>2
  <1>12. Payloads(out) = [k \in 1 .. upto - n |-> n - 1 + F + k]  BY <1>10, <1>11, ZenonT(60)
  <1> QED  BY <1>7, <1>8, <1>12 DEF n, N, F, after, out, Onward

\* The receive window after an in-order packet.
LEMMA DeliveredWindow ==
    ASSUME StreamInv, NEW e \in Ends, NEW p \in PacketType, GoodPacket(Peer(e), p),
           HandleData(e, p), Enters(e, p), p.seq = conn[e].nextExpected
    PROVE  InWindow(e)' /\ queue'[e] \in Seq(Nat)
  <1> DEFINE o == Peer(e)
             c == conn[e]
             r == conn'[e]
             n == c.nextExpected
             N == conn[o].next
             after == AfterRun(c, n)
             upto == Upto(after, N)
  <1>1. o \in Ends /\ Types  BY TwoEnds DEF StreamInv
  <1>2. IsConn(c) /\ IsConn(conn[o])  BY <1>1 DEF Types
  <1>3. IsConn(r) /\ conn'[o] = conn[o]  BY <1>1, DataSendSide
  <1>4. got' = got /\ Took(c, n, p.msg, r) /\ queue'[e] = queue[e] \o Payloads(Released(c, n, p.msg))
    BY <1>1, DataReceiveSide, ZenonT(60)
  <1>5. use' = use  BY DEF HandleData
  <1>6. State(e) \in Taking /\ Carries(o, n, p.msg)  BY EntersIs
  <1>7. InWindow(e)  BY ZenonT(60) DEF StreamInv
  <1>8. /\ n <= upto /\ upto \in Nat
        /\ after <= N \/ (after = N + 1 /\ State(o) \in Ended)
        /\ Payloads(Released(c, n, p.msg)) = Onward(n - 1 + Offset(o), upto - n)
    BY <1>1, <1>2, <1>6, <1>7, RunIs, ZenonT(60) DEF InWindow
  <1>9. /\ n \in Nat /\ n >= 1 /\ N \in Nat /\ c.highest \in Nat /\ Offset(o) \in Nat
        /\ \A s \in DOMAIN c.reorder : s \in Nat
        /\ after \in Nat /\ n < after
    BY <1>2, AfterRunIs DEF IsConn, Offset
  <1>10. /\ r.nextExpected = after
         /\ \A s \in DOMAIN r.reorder : s \in DOMAIN c.reorder /\ r.reorder[s] = c.reorder[s]
         /\ \A s \in DOMAIN c.reorder : s < after \/ s \in DOMAIN r.reorder
         /\ r.highest = Larger(c.highest, n)
    <2>1. Decision(c, n) = "delivered"  BY <1>9 DEF Decision
    <2> QED  BY <1>4, <2>1 DEF Took
  <1>11. Offset(o)' = Offset(o) /\ \A s, m : Carries(o, s, m)' <=> Carries(o, s, m)
    BY <1>3, <1>5, ZenonT(60) DEF Offset, Carries, State
  <1>12. Below(e) = n - 1 + Offset(o) /\ Below(e)' = upto - 1 + Offset(o)
    <2>1. n <= N  BY <1>8, <1>9 DEF Upto
    <2> QED  BY <1>3, <1>9, <1>10, <1>11, <2>1, ZenonT(60) DEF Below, Upto
  <1> HIDE DEF upto, after, n, N
  <1>13. /\ queue'[e] \in Seq(Nat) /\ Len(Received(e)') = Below(e)'
         /\ \A i \in 1 .. Len(Received(e)') : Received(e)'[i] = i
    <2> DEFINE a == got[e]
               b == queue[e]
               m == n - 1 + Offset(o)
               l == upto - n
    <2>1. a \in Seq(Nat) /\ b \in Seq(Nat) /\ m \in Nat /\ l \in Nat  BY <1>1, <1>8, <1>9 DEF Types
    <2>2. m = Len(a \o b) /\ Numbered(a \o b)
      BY <1>6, <1>7, <1>12, ZenonT(60) DEF InWindow, Received, Numbered
    <2>3. queue'[e] = b \o Onward(m, l) /\ got'[e] = a  BY <1>4, <1>8
    <2>4. m + l = Below(e)'  BY <1>8, <1>9, <1>12
    <2> HIDE DEF m, l, a, b
    <2>5. /\ b \o Onward(m, l) \in Seq(Nat) /\ Len(a \o (b \o Onward(m, l))) = m + l
          /\ Numbered(a \o (b \o Onward(m, l)))
      BY <2>1, <2>2, Continued, ZenonT(60)
    <2>6. Received(e)' = a \o (b \o Onward(m, l))  BY <2>3 DEF Received
    <2> QED  BY <2>3, <2>4, <2>5, <2>6, ZenonT(60) DEF Numbered
  <1>14. r.highest < r.nextExpected \/ r.highest \in DOMAIN r.reorder
    <2>1. c.highest < n \/ c.highest \in DOMAIN c.reorder  BY <1>7 DEF InWindow, n
    <2> QED  BY <1>9, <1>10, <2>1 DEF Larger
  <1>15. \A s \in DOMAIN r.reorder : Carries(o, s, conn[e].reorder[s])'
    <2>1. \A s \in DOMAIN c.reorder : Carries(o, s, c.reorder[s])  BY <1>7 DEF InWindow
    <2>2. \A s \in DOMAIN r.reorder : Carries(o, s, c.reorder[s])  BY <1>10, <2>1
    <2> QED  BY <1>10, <1>11, <2>2
  <1>16. \/ r.nextExpected <= conn'[o].next
         \/ r.nextExpected = conn'[o].next + 1 /\ State(o)' \in Ended
    BY <1>3, <1>8, <1>10 DEF N, State
  <1>17. Len(Received(e)') <= Below(e)'  BY <1>8, <1>9, <1>12, <1>13
  <1> QED  BY <1>13, <1>14, <1>15, <1>16, <1>17 DEF InWindow

\* The receive window after any packet.
LEMMA DataWindow ==
    ASSUME StreamInv, NEW e \in Ends, NEW p \in PacketType, GoodPacket(Peer(e), p),
           HandleData(e, p)
    PROVE  (ReceivesNothing(e) \/ InWindow(e)') /\ queue'[e] \in Seq(Nat)
  <1> DEFINE o == Peer(e)
             c == conn[e]
             r == conn'[e]
  <1>1. o \in Ends /\ Types  BY TwoEnds DEF StreamInv
  <1>2. IsConn(c) /\ IsConn(conn[o]) /\ queue[e] \in Seq(Nat)  BY <1>1 DEF Types
  <1>3. CASE Enters(e, p) /\ p.seq = c.nextExpected  BY <1>3, DeliveredWindow
  <1>4. CASE ~(Enters(e, p) /\ p.seq = c.nextExpected)
    <2>1. queue'[e] = queue[e] /\ got' = got /\ Received(e)' = Received(e)
      BY <1>1, <1>4, DataReceiveSide, ZenonT(60) DEF Received
    <2>2. State(e)' \in Taking => State(e) \in Taking
      <3>1. State(e)' = AfterControl(State(e), p.kind)  BY <1>1, DataSendSide DEF State
      <3> QED  BY <3>1 DEF AfterControl, Taking
    <2>3. CASE ~Enters(e, p)
      BY <1>1, <1>2, <2>1, <2>2, <2>3, DataReceiveSide, ZenonT(60) DEF ReceivesNothing
    <2>4. CASE Enters(e, p)
      <3>1. Took(c, p.seq, p.msg, r)  BY <1>1, <2>4, DataReceiveSide, ZenonT(60)
      <3>2. CASE Decision(c, p.seq) # "buffered"
        <4>1. Decision(c, p.seq) # "delivered"
          BY <1>2, <1>4, <2>4 DEF Decision, IsConn, PacketType
        <4>2. SameReceiver(e)  BY <3>1, <3>2, <4>1 DEF Took, SameReceiver
        <4> QED  BY <1>2, <2>1, <2>2, <4>2 DEF ReceivesNothing
      <3>3. CASE Decision(c, p.seq) = "buffered"
        <4>1. /\ r.nextExpected = c.nextExpected /\ DOMAIN r.reorder = DOMAIN c.reorder \cup {p.seq}
              /\ \A s \in DOMAIN c.reorder \ {p.seq} : r.reorder[s] = c.reorder[s]
              /\ r.reorder[p.seq] = p.msg /\ r.highest = Larger(c.highest, p.seq)
          BY <3>1, <3>3 DEF Took
        <4>2. InWindow(e)  BY DEF StreamInv
        <4>3. conn'[o] = conn[o] /\ use' = use  BY <1>1, DataSendSide, ZenonT(60) DEF HandleData
        <4>4. Below(e)' = Below(e) /\ \A s, m : Carries(o, s, m)' <=> Carries(o, s, m)
          BY <4>1, <4>3 DEF Below, Offset, Carries, State
        <4>5. Carries(o, p.seq, p.msg)  BY <2>4, EntersIs
        <4>6. ASSUME NEW s \in DOMAIN r.reorder PROVE Carries(o, s, conn[e].reorder[s])'
          <5>1. CASE s = p.seq  BY <4>1, <4>4, <4>5, <5>1, ZenonT(60)
          <5>2. CASE s # p.seq  BY <4>1, <4>2, <4>4, <5>2 DEF InWindow
          <5> QED  BY <5>1, <5>2
        <4>7. r.highest < r.nextExpected \/ r.highest \in DOMAIN r.reorder
          BY <4>1, <4>2 DEF InWindow, Larger
        <4>8. \/ r.nextExpected <= conn'[o].next
              \/ r.nextExpected = conn'[o].next + 1 /\ State(o)' \in Ended
          BY <4>1, <4>2, <4>3 DEF InWindow, State
        <4> QED  BY <1>2, <2>1, <2>2, <4>2, <4>4, <4>6, <4>7, <4>8, ZenonT(60) DEF InWindow
      <3> QED  BY <3>2, <3>3
    <2> QED  BY <2>3, <2>4
  <1> QED  BY <1>3, <1>4

\* handle_data_packet moves its end forward.
LEMMA DataEvolves ==
    ASSUME StreamInv, NEW e \in Ends, NEW p \in PacketType, GoodPacket(Peer(e), p),
           HandleData(e, p)
    PROVE  Forward /\ \A x \in Ends : ClosesAfter(x)
  <1> DEFINE o == Peer(e)
             c == conn[e]
             r == conn'[e]
  <1>1. o \in Ends /\ o # e /\ (\A x \in Ends : x = e \/ x = o) /\ Types  BY TwoEnds DEF StreamInv
  <1>2. IsConn(c) /\ IsConn(r) /\ r.next = c.next /\ conn'[o] = conn[o]
        /\ State(e)' = AfterControl(State(e), p.kind)
    BY <1>1, DataSendSide, ZenonT(60) DEF Types, State
  <1>3. addressed' = addressed /\ use' = use /\ Live(e) /\ p.known  BY DEF HandleData
  <1>4. Evolves(o) /\ ClosesAfter(o)  BY <1>1, <1>2, <1>3, Standing
  <1>5. ASSUME NEW s \in Nat, Holds(e, s) PROVE Holds(e, s)'
    <2>1. CASE Enters(e, p)
      <3>1. c.nextExpected <= r.nextExpected
            /\ \A t \in DOMAIN c.reorder : t < r.nextExpected \/ t \in DOMAIN r.reorder
        BY <1>1, <2>1, DataReceiveSide, ZenonT(60) DEF Took
      <3> QED  BY <1>2, <1>5, <3>1 DEF Holds, IsConn
    <2>2. CASE ~Enters(e, p)
      <3>1. SameReceiver(e)  BY <1>1, <2>2, DataReceiveSide, ZenonT(60)
      <3> QED  BY <1>5, <3>1 DEF Holds, SameReceiver
    <2> QED  BY <2>1, <2>2, ZenonT(60)
  <1>6. /\ State(e) \in Ended => State(e)' \in Ended
        /\ State(e) # "absent" /\ State(e) # "removed" /\ State(e)' # "absent"
        /\ State(e) # "InboundSynReceived" => State(e)' # "InboundSynReceived"
    BY <1>2, <1>3 DEF AfterControl, Ended, Live
  <1>7. Evolves(e)
    <2>1. c.next \in Nat  BY <1>2 DEF IsConn
    <2> QED  BY <1>2, <1>3, <1>5, <1>6, <2>1 DEF Evolves
  <1>8. Answered => Answered'
    <2>1. Responder = e \/ Responder = o  BY <1>1 DEF Ends
    <2> QED  BY <1>2, <1>6, <2>1 DEF Answered, State
  <1>9. ClosesAfter(e)
    <2>1. p.kind = "CLOSE" => State(o) \in Ended  BY DEF GoodPacket
    <2> QED  BY <1>2, <2>1 DEF ClosesAfter, AfterControl
  <1> QED  BY <1>1, <1>3, <1>4, <1>7, <1>8, <1>9 DEF Forward

\* handle_data_packet
LEMMA DataKeeps ==
    ASSUME StreamInv, NEW p \in net, HandleData(p.to, p)
    PROVE  StreamInv'
  <1>0. PICK e : e = p.to  OBVIOUS
  <1> DEFINE o == Peer(e)
  <1>1. p \in PacketType /\ e \in Ends /\ GoodPacket(o, p) /\ HandleData(e, p)  BY <1>0, NetGood
  <1>2. /\ o \in Ends /\ o # e /\ Peer(o) = e /\ (\A x \in Ends : x = e \/ x = o)
        /\ Originator \in Ends /\ Responder \in Ends
    BY <1>1, TwoEnds DEF Ends
  <1>3. Types  BY DEF StreamInv
  <1>4. /\ Live(e) /\ p.known /\ net' \subseteq net
        /\ UNCHANGED <<addressed, sent, got, givenUp, losses, use>>
    BY <1>1, ZenonT(60) DEF HandleData
  <1>5. Forward /\ \A x \in Ends : ClosesAfter(x)  BY <1>1, DataEvolves
  <1>6. /\ conn' = [x \in Ends |-> conn'[x]] /\ \A x \in Ends : IsConn(conn'[x])
        /\ conn'[o] = conn[o]
        /\ conn'[e].state = AfterControl(State(e), p.kind) /\ conn'[e].next = conn[e].next
        /\ \A s \in conn[e].unacked : s \in conn'[e].unacked
                                      \/ (s <= p.through /\ s \notin ValidNacks(p.through, p.nacks))
        /\ tracked' = [x \in Ends |-> tracked'[x]] /\ \A x \in Ends : Records(x)'
        /\ tracked'[o] = tracked[o]
        /\ \A s \in DOMAIN tracked'[e] : s \in DOMAIN tracked[e] /\ tracked'[e][s] = tracked[e][s]
        /\ \A s \in DOMAIN tracked[e] : s \in DOMAIN tracked'[e]
                                      \/ (s <= p.through /\ s \notin ValidNacks(p.through, p.nacks))
    BY <1>1, <1>3, DataSendSide
  <1>7. /\ queue' = [x \in Ends |-> queue'[x]] /\ queue'[o] = queue[o] /\ queue'[e] \in Seq(Nat)
        /\ ReceivesNothing(e) \/ InWindow(e)'
    BY <1>1, <1>3, DataReceiveSide, DataWindow, ZenonT(60)
  <1>8. Types'
    <2>1. queue' \in [Ends -> Seq(Nat)]
      <3>1. \A x \in Ends : queue'[x] \in Seq(Nat)  BY <1>2, <1>3, <1>7, ZenonT(60) DEF Types
      <3> QED  BY <1>7, <3>1, ZenonT(60)
    <2>2. pendingAck' \in [Ends -> BOOLEAN]
      <3>1. PICK b : b \in BOOLEAN /\ pendingAck' = [pendingAck EXCEPT ![e] = b]
        BY <1>1, ZenonT(60) DEF HandleData
      <3> QED  BY <1>1, <1>3, <3>1 DEF Types
    <2> QED  BY <1>3, <1>4, <1>6, <2>1, <2>2 DEF Types
  <1>9. State(o)' = State(o) /\ State(e)' = AfterControl(State(e), p.kind)  BY <1>6 DEF State
  <1>10. e = Responder => Answered /\ (addressed[Originator] \/ State(Originator) = "removed")
    <2>1. e = Responder => o = Originator  BY <1>1, <1>2, StreamAssumption DEF Ends
    <2> QED  BY <1>1, <1>4, <2>1 DEF GoodPacket
  <1>11. Beginnings'
    <2>1. Untouched(o) => Untouched(o)'  BY <1>4, <1>6, <1>7 DEF Untouched
    <2>2. /\ State(e) # "absent" /\ State(e)' # "absent"
          /\ State(e)' = "InboundSynReceived" => State(e) = "InboundSynReceived"
          /\ State(e)' = "OutboundSynSent" => State(e) = "OutboundSynSent"
      BY <1>4, <1>9 DEF AfterControl, Live
    <2>3. State(Originator)' # "InboundSynReceived" /\ State(Responder)' # "OutboundSynSent"
      BY <1>2, <1>9, <2>2 DEF StreamInv, Beginnings
    <2>4. \A x \in Ends : State(x)' = "absent" => Untouched(x)'
      BY <1>2, <1>9, <2>1, <2>2 DEF StreamInv, Beginnings
    <2>5. ASSUME ~Answered' PROVE Untouched(Responder)' /\ ~addressed'[Originator]
      <3>1. ~Answered /\ Responder = o  BY <1>2, <1>5, <1>10, <2>5 DEF Forward
      <3> QED  BY <1>4, <2>1, <3>1, ZenonT(60) DEF StreamInv, Beginnings
    <2>6. State(Originator)' = "absent" => State(Responder)' = "absent"
      BY <1>2, <1>9, <2>2 DEF StreamInv, Beginnings
    <2>7. ASSUME NEW x \in Ends, State(x)' # "absent"
          PROVE  sent'[x] = conn'[x].next - 1 + Offset(x)'
      <3>1. conn'[x].next = conn[x].next /\ State(x) # "absent"  BY <1>2, <1>6, <1>9, <2>2, <2>7
      <3>2. Offset(x)' = Offset(x)  BY <1>4 DEF Offset
      <3> QED  BY <1>4, <3>1, <3>2, ZenonT(60) DEF StreamInv, Beginnings
    <2> QED  BY <2>3, <2>4, <2>5, <2>6, <2>7 DEF Beginnings
  <1>12. ReceivesNothing(o)
    BY <1>2, <1>4, <1>6, <1>7 DEF ReceivesNothing, SameReceiver, Received, State
  <1>13. SendsNothing(o)  BY <1>4, <1>6 DEF SendsNothing, Live, State
  <1>14. ClearedAt(e)'
    <2> SUFFICES ASSUME NEW s \in 1 .. conn[e].next - 1
                 PROVE  \/ s \in conn'[e].unacked /\ s \in DOMAIN tracked'[e] \cup givenUp'[e]
                        \/ Holds(o, s)'
      BY <1>6 DEF ClearedAt
    <2>1. Holds(o, s)' <=> Holds(o, s)  BY <1>6 DEF Holds
    <2>2. s <= p.through /\ s \notin ValidNacks(p.through, p.nacks) => Holds(o, s)
      <3>1. s \in Nat /\ s >= 1 /\ p.through \in Nat  BY <1>1, <1>3 DEF Types, IsConn, PacketType
      <3> QED  BY <1>1, <3>1 DEF GoodPacket
    <2>3. \/ s \in conn[e].unacked /\ s \in DOMAIN tracked[e] \cup givenUp[e]
          \/ Holds(o, s)
      BY <1>1, <1>4 DEF StreamInv, ClearedIsHeld
    <2> QED  BY <1>4, <1>6, <2>1, <2>2, <2>3
  <1>15. AnswerKept \/ SynResponseConfirmed'
    <2>1. CASE e = Responder
      <3>1. Originator = o  BY <1>2, <2>1, StreamAssumption
      <3> QED  BY <1>4, <1>9, <1>10, <2>1, <3>1 DEF SynResponseConfirmed
    <2>2. CASE o = Responder
      BY <1>4, <1>6, <2>2 DEF AnswerKept, Repeats, Live, IsTerminal, State
    <2> QED  BY <1>2, <2>1, <2>2
  <1>16. \A x \in Ends : \A q \in Packets(x)' : q \in Packets(x) \/ GoodPacket(x, q)'
    <2>1. \A x \in Ends : \A s \in DOMAIN tracked'[x] :
              s \in DOMAIN tracked[x] /\ tracked'[x][s].packet = tracked[x][s].packet
      BY <1>2, <1>6
    <2> QED  BY <1>4, <2>1, NoNewPacket DEF StreamInv
  <1>17. \A x \in Ends : ReceivesNothing(x) \/ InWindow(x)'  BY <1>2, <1>7, <1>12
  <1>18. \A x \in Ends : SendsNothing(x) \/ ClearedAt(x)'  BY <1>2, <1>13, <1>14
  <1> QED  BY <1>5, <1>8, <1>11, <1>15, <1>16, <1>17, <1>18, Combine

-----------------------------------------------------------------------------
(* The theorems. *)

\* Every step keeps the invariant.
LEMMA StreamStep ==
    ASSUME StreamInv, [Next]_vars
    PROVE  StreamInv'
  <1>1. CASE Connect  BY <1>1, ConnectKeeps
  <1>2. CASE AcceptInboundSyn  BY <1>2, AcceptKeeps
  <1>3. ASSUME NEW e \in Ends,
               SendData(e) \/ SendClose(e) \/ SendReset(e) \/ Drain(e) \/ RemoveConnection(e)
        PROVE  StreamInv'
    BY <1>3, SendKeeps, CloseKeeps, ResetKeeps, DrainKeeps, RemoveKeeps
  <1>4. ASSUME NEW p \in net, Deliver(p) PROVE StreamInv'
    <2>1. CASE HandleInboundSyn(p)  BY <2>1, NetGood, InboundSynKeeps
    <2>2. CASE RefuseInboundSyn(p)  BY <2>2, NetShrinks DEF RefuseInboundSyn
    <2>3. CASE HandleSynResponse(p)  BY <2>3, SynResponseKeeps
    <2>4. CASE HandleData(p.to, p)  BY <2>4, DataKeeps
    <2>5. CASE DropUnknown(p.to, p)  BY <2>5, NetShrinks DEF DropUnknown
    <2> QED  BY <1>4, <2>1, <2>2, <2>3, <2>4, <2>5 DEF Deliver
  <1>5. ASSUME NEW p \in net, Lose(p) PROVE StreamInv'
    BY <1>5, NetShrinks DEF Lose
  <1>6. ASSUME NEW e \in Ends, Sweep(e) PROVE StreamInv'
    BY <1>6, PollAcksKeeps, PollRetransmitsKeeps DEF Sweep
  <1>7. CASE UNCHANGED vars  BY <1>7, NetShrinks DEF vars
  <1> QED  BY <1>1, <1>2, <1>3, <1>4, <1>5, <1>6, <1>7 DEF Next

(***************************************************************************)
(* The inductive invariant holds in every reachable state: every packet on *)
(* the way or kept for retransmission still tells the truth about its      *)
(* sender, and every receive window holds what the peer's packets carry.   *)
(***************************************************************************)
THEOREM StreamInvariant == Spec => []StreamInv
  <1>1. Init => StreamInv  BY FreshStart
  <1>2. StreamInv /\ [Next]_vars => StreamInv'  BY StreamStep
  <1>3. QED  BY <1>1, <1>2, PTL DEF Spec

(***************************************************************************)
(* For any windows, retransmission limit and losses, each application sees *)
(* exactly the messages its peer handed over, once and in order            *)
(* (recv_window.rs receive, handle_data_packet).                           *)
(***************************************************************************)
THEOREM DeliveredOnceInOrder == Spec => []InOrderOnce
  <1>1. ASSUME StreamInv, NEW e \in Ends
        PROVE  /\ Len(Received(e)) <= sent[Peer(e)]
               /\ \A i \in 1 .. Len(Received(e)) : Received(e)[i] = i
    <2> DEFINE o == Peer(e)
    <2>1. o \in Ends /\ (o = Originator => e = Responder) /\ Originator \in Ends /\ Responder \in Ends
      BY StreamAssumption DEF Ends, Peer
    <2>2. conn[e].nextExpected \in Nat /\ conn[o].next \in Nat /\ Offset(o) \in Nat
      BY <1>1, <2>1, ZenonT(60) DEF StreamInv, Types, IsConn, Offset
    <2>3. Len(Received(e)) \in Nat /\ Len(Received(e)) <= Below(e)
          /\ \A i \in 1 .. Len(Received(e)) : Received(e)[i] = i
      <3>1. Received(e) \in Seq(Nat)  BY <1>1 DEF StreamInv, Types, Received
      <3> QED  BY <1>1, <3>1 DEF StreamInv, InWindow
    <2>4. Below(e) \in Int /\ Below(e) <= conn[o].next - 1 + Offset(o)  BY <2>2 DEF Below
    <2>5. CASE State(o) # "absent"
      <3>1. sent[o] = conn[o].next - 1 + Offset(o)  BY <1>1, <2>1, <2>5 DEF StreamInv, Beginnings
      <3> QED  BY <2>2, <2>3, <2>4, <3>1
    <2>6. CASE State(o) = "absent" /\ o = Originator
      <3>1. Untouched(o) /\ Untouched(e)  BY <1>1, <2>1, <2>6 DEF StreamInv, Beginnings
      <3>2. Received(e) = <<>> /\ sent[o] = 0  BY <3>1 DEF Received, Untouched
      <3> QED  BY <2>3, <3>2
    <2>7. CASE State(o) = "absent" /\ o # Originator
      <3>1. Untouched(o)  BY <1>1, <2>1, <2>7 DEF StreamInv, Beginnings
      <3>2. sent[o] = 0 /\ conn[o].next = 1 /\ Offset(o) = 0  BY <2>7, <3>1 DEF Untouched, Offset
      <3> QED  BY <2>3, <2>4, <3>2
    <2> QED  BY <2>5, <2>6, <2>7
  <1>2. StreamInv => InOrderOnce  BY <1>1 DEF InOrderOnce
  <1>3. QED  BY <1>2, StreamInvariant, PTL

(***************************************************************************)
(* However acknowledgements are delayed, repeated and reordered, a packet  *)
(* leaves the send window only when the receiver holds it, and its record  *)
(* only then or when its attempts are spent (send_window.rs acknowledge,   *)
(* handle_data_packet).                                                    *)
(***************************************************************************)
THEOREM OnlyHeldIsCleared == Spec => []ClearedIsHeld
  <1>1. StreamInv => ClearedIsHeld  BY DEF StreamInv
  <1>2. QED  BY <1>1, StreamInvariant, PTL

(***************************************************************************)
(* No end is Closed while its peer still takes the stream for open         *)
(* (send_close, handle_data_packet).                                       *)
(***************************************************************************)
THEOREM NoEndClosedAlone == Spec => []ClosedTogether
  <1>1. StreamInv => ClosedTogether
    BY DEF StreamInv, Endings, ClosedTogether, Ended, ActiveStates
  <1>2. QED  BY <1>1, StreamInvariant, PTL

(***************************************************************************)
(* The SYN response is repeated until the originator has its stream id     *)
(* (accept_inbound_syn, process_inbound_packet).                           *)
(***************************************************************************)
THEOREM AnswerIsConfirmed == Spec => []SynResponseConfirmed
  <1>1. StreamInv => SynResponseConfirmed  BY DEF StreamInv
  <1>2. QED  BY <1>1, StreamInvariant, PTL
=============================================================================
