----------------------------- MODULE MCTransit -----------------------------
(***************************************************************************)
(* Two builds compete for tunnel 1, one of them late; an outbound endpoint *)
(* on tunnel 2 replies through the router's own inbound gateway, tunnel 3; *)
(* a cell of tunnel 2 carries another build, and a fragmented message of   *)
(* tunnel 2 loops back to tunnel 3.  A build of the router's own comes     *)
(* back to it, directly and in a garlic message.                           *)
(***************************************************************************)
EXTENDS Transit

CONSTANTS peerA, peerB, routerR, routerS, self, inner, text

Build(id, peer, via, role, receive, router, tunnel, time, minimum) ==
  [id |-> id, peer |-> peer, via |-> via, role |-> role, receive |-> receive,
   nextRouter |-> router, nextTunnel |-> tunnel, time |-> time,
   minimum |-> minimum]

Early    == Build("early", peerA, "direct", "Participant", 1, routerR, 9, 0, 0)
Late     == Build("late", peerB, "garlic", "Participant", 1, routerR, 9, 1, 0)
Endpoint == Build("endpoint", peerA, "direct", "OutboundEndpoint", 2, self, 3, 0, 0)
Gateway  == Build("gateway", peerB, "direct", "InboundGateway", 3, routerS, 9, 1, 0)
Wide     == Build("wide", peerB, "direct", "Participant", 4, routerR, 9, 1, 2)
Own      == Build("own", peerB, "direct", "Participant", 4, routerR, 9, 0, 0)
Wrapped  == [Own EXCEPT !.via = "garlic"]
Inner    == Build("inner", peerA, "direct", "Participant", 4, routerR, 9, 0, 0)

MCBuilds == {Early, Late, Endpoint, Gateway, Wide, Own, Wrapped}
MCCreatorBuilds == {<<peerB, "own">>}
Body(of, part) == [of |-> of, part |-> part, len |-> 1]

MCInnerBuild == Body(inner, 1) :> Inner

Cell(tunnel, nonce, kind, seq, body, delivery) ==
  [tunnel |-> tunnel, nonce |-> nonce,
   frag |-> [kind |-> kind, id |-> 1, seq |-> seq, last |-> seq = 1,
             body |-> body, delivery |-> delivery]]

ToSelf == [router |-> self, tunnel |-> 3]

MCCells ==
  {Cell(1, "x", "unfragmented", 0, Body(text, 1), ToSelf),
   Cell(1, "y", "unfragmented", 0, Body(text, 1), ToSelf),
   Cell(2, "z", "unfragmented", 0, Body(inner, 1), ToSelf),
   Cell(2, "u", "first", 0, Body(text, 1), ToSelf),
   Cell(2, "v", "follow", 1, Body(text, 2), NoDelivery)}
=============================================================================
