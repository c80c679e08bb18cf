----------------------------- MODULE TunnelPath -----------------------------
(***************************************************************************)
(* A message's way through a pair of tunnels: the sender's outbound        *)
(* gateway cuts it into cells, a transit participant relays them, the      *)
(* outbound endpoint reassembles the message and passes it on to the       *)
(* inbound gateway of the receiver's tunnel, which cuts it again for the   *)
(* receiver's own reassembler.                                             *)
(*                                                                         *)
(* A link between two hops is the set of cells ever put on it.  The next   *)
(* hop may take any of them, at any time, any number of times: cells are   *)
(* lost, late, reordered and repeated.  Only the last link hands a cell    *)
(* over at most once (the receiver has no replay window and relies on its  *)
(* transport session for that), and so does the gateway message between    *)
(* the two tunnels.                                                        *)
(***************************************************************************)
EXTENDS TransitHop

CONSTANTS Messages,       \* the messages of the sending destination
          Lengths,        \* Lengths[m]: the bytes of each piece of m
          RandomId,       \* RandomId[m]: the nonzero id drawn for m
          Foreign,        \* malformed cells a faulty inbound hop adds
          Seeds,          \* what the inbound gateway's sequence may start at
          OutboundExpires, InboundExpires,   \* when the tunnels expire
          MaxNow

ASSUME PathAssumption ==
  /\ \A m \in Messages : RandomId[m] \in 1 .. FragmentIdMax
  /\ \A m, n \in Messages : m # n => RandomId[m] # RandomId[n]
  /\ 0 \notin Seeds

VARIABLES now, taken,        \* the clock; the messages the sender took
          toRelay, toObep,   \* cells put on the first and the second link
          relay, obep, ibgw, \* the three transit registrations
          gateway,           \* messages on their way to the inbound gateway
          toReceiver,        \* cells on the last link
          receiver,          \* the receiver's reassembler
          inbox,             \* what the receiver was handed, in order
          dropped            \* history: messages some hop gave up on

vars == <<now, taken, toRelay, toObep, relay, obep, ibgw, gateway,
          toReceiver, receiver, inbox, dropped>>

Bodies(m) ==
  [k \in 1 .. Len(Lengths[m]) |-> [of |-> m, part |-> k, len |-> Lengths[m][k]]]

Hop(peer, role, expires, next) ==
  FreshRegistration([id |-> role, peer |-> peer, role |-> role,
                     nextRouter |-> next, nextTunnel |-> next], expires)

Init ==
  /\ now = 0
  /\ taken = {} /\ toRelay = {} /\ toObep = {} /\ gateway = {}
  /\ relay = Hop("sender", "Participant", OutboundExpires, "obep")
  /\ obep = Hop("relay", "OutboundEndpoint", OutboundExpires, "none")
  /\ ibgw = Hop("creator", "InboundGateway", InboundExpires, "receiver")
  /\ toReceiver = Foreign /\ receiver = EmptyReassembler /\ inbox = <<>>
  /\ dropped = {}

(***************************************************************************)
(* The sender's outbound gateway.                                          *)
(***************************************************************************)
ForwardCells(m) ==
  /\ m \notin taken
  /\ now < OutboundExpires
  /\ taken' = taken \union {m}
  /\ toRelay' = toRelay \union
       {[tunnel |-> "relay", nonce |-> <<"obgw", m, f.seq>>, frag |-> f] :
          f \in FragmentCompleteMessage(Bodies(m), RandomId[m], "Tunnel")}
  /\ UNCHANGED <<now, toObep, relay, obep, ibgw, gateway, toReceiver,
                 receiver, inbox, dropped>>

\* The messages a reassembler gave up on: a piece it held is neither held
\* any more nor part of what came out.
Pieces(r) == UNION {Range(r.partials[k].received) : k \in DOMAIN r.partials}

GivenUp(before, after, out) ==
  {b.of : b \in Pieces(before) \ (Pieces(after)
                                    \union UNION {Range(x.message) : x \in out})}

Relay(c) ==
  LET res == ProcessTunnelData(relay, c, "sender", now)
  IN /\ relay' = res.reg
     /\ toObep' = toObep \union res.out
     /\ dropped' = IF res.what \in {"Expired", "WindowFull"}
                   THEN dropped \union {c.frag.body.of} ELSE dropped
     /\ UNCHANGED <<now, taken, toRelay, obep, ibgw, gateway, toReceiver,
                    receiver, inbox>>

Endpoint(c) ==
  LET res == ProcessTunnelData(obep, c, "relay", now)
      gone == GivenUp(obep.reassembler, res.reg.reassembler, res.out)
  IN /\ obep' = res.reg
     /\ gateway' = gateway \union {x \in res.out : x.delivery = "Tunnel"}
     /\ dropped' = dropped \union gone \union
                     (IF res.what \in {"Expired", "WindowFull", "Error"}
                      THEN {c.frag.body.of} ELSE {})
     /\ UNCHANGED <<now, taken, toRelay, toObep, relay, ibgw, toReceiver,
                    receiver, inbox>>

\* The message as the gateway sees it: one body per cell it will need.
AsSequence(x) == [k \in 1 .. Cardinality(DOMAIN x) |-> x[k - 1]]

InboundGateway(x, seed) ==
  LET res == ProcessTunnelGateway(ibgw, AsSequence(x.message), seed, now)
  IN /\ ibgw' = res.reg
     /\ gateway' = gateway \ {x}
     /\ toReceiver' = toReceiver \union res.out
     /\ dropped' = IF res.what = "Dropped"
                   THEN dropped \union {x.message[0].of} ELSE dropped
     /\ UNCHANGED <<now, taken, toRelay, toObep, relay, obep, receiver, inbox>>

\* The receiver's endpoint takes only what is addressed to itself.
Receive(c) ==
  LET ins == InsertWithDelivery(receiver, c.frag, now)
      gone == GivenUp(receiver, ins.state, ins.out)
      mine == {x \in ins.out : x.delivery = "Local"}
  IN /\ toReceiver' = toReceiver \ {c}
     /\ IF now >= InboundExpires
        THEN /\ dropped' = dropped \union {c.frag.body.of}
             /\ UNCHANGED <<receiver, inbox>>
        ELSE /\ receiver' = ins.state
             /\ inbox' = inbox \o [k \in 1 .. Cardinality(mine) |->
                                     AsSequence((CHOOSE x \in mine : TRUE).message)]
             /\ dropped' = dropped \union gone \union
                             (IF ins.ok THEN {} ELSE {c.frag.body.of})
     /\ UNCHANGED <<now, taken, toRelay, toObep, relay, obep, ibgw, gateway>>

Tick ==
  /\ now < MaxNow
  /\ now' = now + 1
  /\ UNCHANGED <<taken, toRelay, toObep, relay, obep, ibgw, gateway,
                 toReceiver, receiver, inbox, dropped>>

Next ==
  \/ \E m \in Messages : ForwardCells(m)
  \/ \E c \in toRelay : Relay(c)
  \/ \E c \in toObep : Endpoint(c)
  \/ \E x \in gateway, seed \in Seeds : InboundGateway(x, seed)
  \/ \E c \in toReceiver : Receive(c)
  \/ Tick

Spec == Init /\ [][Next]_vars

(***************************************************************************)
(* Properties.                                                             *)
(***************************************************************************)

(***************************************************************************)
(* The path implements the tunnel service: what the receiver's endpoint is *)
(* handed (LocalInboundEndpointRole::process) is always one of the         *)
(* messages the sender took, every byte of it and no byte of another, and  *)
(* no message is handed over twice, whatever the links lose or reorder and *)
(* all but the last repeat, with both reassemblers expiring and refusing.  *)
(***************************************************************************)
Service == INSTANCE TunnelService
             WITH Payloads <- {Bodies(m) : m \in Messages},
                  sent <- {Bodies(m) : m \in taken},
                  received <- inbox

ServiceSpec == Service!Spec

(***************************************************************************)
(* aggregate_bytes of each reassembler is the sum of what its partial      *)
(* messages hold, and no ceiling is passed: every way a partial message    *)
(* leaves (completion, expiry, conflict, too large) refunds exactly what   *)
(* it was charged.                                                         *)
(***************************************************************************)
RefundsExact ==
  \A r \in {obep.reassembler, receiver} :
    /\ r.bytes = MapThenSumSet(LAMBDA k: r.partials[k].bytes, DOMAIN r.partials)
    /\ \A k \in DOMAIN r.partials :
         /\ r.partials[k].bytes =
              MapThenSumSet(LAMBDA s: r.partials[k].received[s].len,
                            DOMAIN r.partials[k].received)
         /\ r.partials[k].bytes <= MessageMax
    /\ r.bytes <= AggregateMax
    /\ Cardinality(DOMAIN r.partials) <= Capacity

(***************************************************************************)
(* Nothing disappears in silence: a message the sender took was handed to  *)
(* the receiver, or a hop refused or expired part of it, or part of it is  *)
(* still on its way.  In particular a reassembler never sits on a message  *)
(* all of whose cells it has accepted, in whatever order they came.        *)
(***************************************************************************)
OnItsWay(m) ==
  \/ \E c \in toRelay : c.frag.body.of = m /\ c.nonce \notin relay.window
  \/ \E c \in toObep : c.frag.body.of = m /\ c.nonce \notin obep.window
  \/ \E x \in gateway : x.message[0].of = m
  \/ \E c \in toReceiver : c.frag.body.of = m

NoSilentLoss ==
  \A m \in taken \ dropped : Bodies(m) \in Range(inbox) \/ OnItsWay(m)
=============================================================================
