---------------------------- MODULE TransitHop ----------------------------
(***************************************************************************)
(* What one live transit registration does with the cells of its tunnel    *)
(* (i2pr-tunnel/src/transit.rs, data.rs, layer.rs): the exact-replay       *)
(* window, the per-role handling of a cell, and the fragmenting of a whole *)
(* message by a gateway.                                                   *)
(*                                                                         *)
(* A cell is [tunnel, nonce, frag].  The nonce stands for the fresh random *)
(* IV of the cell: two cells built at different times never share it, and  *)
(* a hop's layer transform, a permutation, keeps cells apart.              *)
(***************************************************************************)
EXTENDS Reassembler, Sequences

CONSTANTS WindowCapacity,     \* tokens a replay window can hold
          FragmentIdMax       \* the largest fragment id (2^32 - 1 in u32)

Observe(window, token) ==
  IF token \in window THEN "replay"
  ELSE IF Cardinality(window) >= WindowCapacity THEN "full" ELSE "first"

(***************************************************************************)
(* Registrations.  expires is in whole seconds; window, reassembler and    *)
(* nextId are the data plane of the role (a gateway has only nextId, zero  *)
(* until it is seeded).                                                    *)
(***************************************************************************)
FreshRegistration(build, expires) ==
  [build |-> build.id, previous |-> build.peer, role |-> build.role,
   expires |-> expires, nextRouter |-> build.nextRouter,
   nextTunnel |-> build.nextTunnel, window |-> {},
   reassembler |-> EmptyReassembler, nextId |-> 0]

Outcome(reg, what, out) == [reg |-> reg, what |-> what, out |-> out]

ForwardCell(reg, cell) == [cell EXCEPT !.tunnel = reg.nextTunnel]

\* The last hop of an outbound tunnel: only a completed message leaves it.
ProcessObepRecord(reg, cell, now) ==
  LET ins == InsertWithDelivery(reg.reassembler, cell.frag, now)
      r == [reg EXCEPT !.reassembler = ins.state]
  IN Outcome(r, IF ~ins.ok THEN "Error"
                ELSE IF ins.out = {} THEN "Fragment" ELSE "Deliver", ins.out)

ProcessTunnelData(reg, cell, peer, now) ==
  LET seen == Observe(reg.window, cell.nonce)
      observed == [reg EXCEPT !.window = @ \union {cell.nonce}]
  IN CASE reg.expires <= now -> Outcome(reg, "Expired", {})
       [] reg.expires > now /\ reg.previous # peer
            -> Outcome(reg, "PreviousPeerMismatch", {})
       [] OTHER ->
            CASE reg.role = "InboundGateway"
                   -> Outcome(reg, "Forward", {ForwardCell(reg, cell)})
              [] reg.role # "InboundGateway" /\ seen = "replay"
                   -> Outcome(reg, "DuplicateOrReplay", {})
              [] reg.role # "InboundGateway" /\ seen = "full"
                   -> Outcome(reg, "WindowFull", {})
              [] reg.role = "Participant" /\ seen = "first"
                   -> Outcome(observed, "Forward", {ForwardCell(reg, cell)})
              [] reg.role = "OutboundEndpoint" /\ seen = "first"
                   -> ProcessObepRecord(observed, cell, now)

(***************************************************************************)
(* Gateways.  A message is a sequence of bodies, one per cell it needs.    *)
(* Message id zero is refused, so nothing is built.                        *)
(***************************************************************************)
FragmentCompleteMessage(message, id, delivery) ==
  LET n == Len(message)
      Frag(k) == [kind |-> IF n = 1 THEN "unfragmented"
                           ELSE IF k = 0 THEN "first" ELSE "follow",
                  id |-> id, seq |-> k, last |-> k > 0 /\ k = n - 1,
                  body |-> message[k + 1],
                  delivery |-> IF k = 0 THEN delivery ELSE NoDelivery]
  IN IF id = 0 THEN {} ELSE {Frag(k) : k \in 0 .. n - 1}

\* Mutant: the gateway never moves past its first id.
ClaimedId_Constant(nextId, seed) == 1

\* The claimed id: the seed (never zero) at the first ingress.
ClaimedId(nextId, seed) == IF nextId = 0 THEN seed ELSE nextId

\* wrapping_add(1), skipping zero.
IdAfter(id) == IF id = FragmentIdMax THEN 1 ELSE id + 1

(***************************************************************************)
(* A whole message entering an inbound tunnel at its gateway.  An expired  *)
(* registration, or one of another role, drops it.                         *)
(***************************************************************************)
ProcessTunnelGateway(reg, message, seed, now) ==
  LET id == ClaimedId(reg.nextId, seed)
      frags == FragmentCompleteMessage(message, id, "Local")
  IN IF reg.expires <= now \/ reg.role # "InboundGateway"
     THEN Outcome(reg, "Dropped", {})
     ELSE Outcome([reg EXCEPT !.nextId = IdAfter(id)], "Forward",
                  {[tunnel |-> reg.nextTunnel,
                    nonce |-> <<"ibgw", id, f.seq, f.body>>, frag |-> f] :
                      f \in frags})
=============================================================================
