------------------------------ MODULE Transit ------------------------------
(***************************************************************************)
(* The transit side of one router: tunnel-build requests of other routers  *)
(* admitted, committed to the registry, answered, and rolled back when the *)
(* answer cannot be sent; the cells and gateway messages of the tunnels it *)
(* then serves; expiry and cancellation.  From i2pr-tunnel/src/transit.rs, *)
(* i2pr-daemon/src/transit_compose.rs and transit_owner.rs.                *)
(*                                                                         *)
(* A build is [id, peer, via, role, receive, nextRouter, nextTunnel, time, *)
(* minimum]: who sent it and how ("direct" or in a "garlic" message), and  *)
(* what its decrypted record says.  For an outbound endpoint nextRouter    *)
(* and nextTunnel are where the reply goes.  Any build, cell or gateway    *)
(* message may arrive any number of times.  Every handler runs to its end  *)
(* before the next begins, so admissions pending at a handler's end: none. *)
(***************************************************************************)
EXTENDS TransitHop

CONSTANTS Self,               \* this router
          Peers, Routers,     \* who sends to it, whom it sends to
          Builds, Cells,      \* what may arrive
          InnerBuild,         \* InnerBuild[b]: the build message a body holds
          CreatorBuilds,      \* <<peer, id>> of builds this router originated
          MaxActive, MaxActivePerPeer, Available, Lifetime, Skew,
          PeerCapacity, MaxNow,
          Seed                \* the nonzero draw a gateway starts its ids at

Roles == {"Participant", "InboundGateway", "OutboundEndpoint"}

ASSUME TransitAssumption ==
  /\ Self \notin Routers
  /\ Lifetime \in Nat \ {0}
  /\ MaxActive \in Nat /\ MaxActivePerPeer \in Nat
  /\ \A b \in Builds : b.peer \in Peers /\ b.role \in Roles
  /\ \A x \in DOMAIN InnerBuild :
       "role" \in DOMAIN InnerBuild[x] /\ InnerBuild[x].role \in Roles
  /\ Seed # 0

VARIABLES now,
          registry,      \* receive tunnel id -> live registration
          peerIndex,     \* routers an authenticated session leads to
          signalled,     \* the outer cancellation token is set
          cancelled,     \* the service has drained itself
          answered,      \* history: tunnels whose last commit the builder was told of
          relayed,       \* history: <<build, nonce>> of cells relayed
          relayedAgain   \* history: those relayed more than once

vars == <<now, registry, peerIndex, signalled, cancelled, answered, relayed,
          relayedAgain>>

history == <<answered, relayed, relayedAgain>>

Init ==
  /\ now = 0
  /\ registry = <<>>
  /\ peerIndex = {}
  /\ signalled = FALSE /\ cancelled = FALSE
  /\ answered = {} /\ relayed = {} /\ relayedAgain = {}

(***************************************************************************)
(* Admission.                                                              *)
(***************************************************************************)
\* Mutant: the lifetime runs from the arrival, not from the request's own time.
ExpiresAt_FromArrival(b) == now + Lifetime

ExpiresAt(b) == b.time + Lifetime

TimeInRange(b) == b.time <= now + Skew /\ ExpiresAt(b) > now

ActiveFor(reg, peer) == {t \in DOMAIN reg : reg[t].previous = peer}

Admissible(reg, b) ==
  /\ Cardinality(DOMAIN reg) < MaxActive
  /\ b.receive \notin DOMAIN reg
  /\ Cardinality(ActiveFor(reg, b.peer)) < MaxActivePerPeer
  /\ b.minimum <= Available

Insert(reg, t, registration) ==
  [u \in DOMAIN reg \union {t} |-> IF u = t THEN registration ELSE reg[u]]

\* The message-level transaction: the registry after it, and its answer.
RouteShortBuild(reg, b) ==
  IF ~TimeInRange(b) THEN [registry |-> reg, answer |-> "Fatal"]
  ELSE IF ~Admissible(reg, b) THEN [registry |-> reg, answer |-> "Rejected"]
  ELSE [registry |-> Insert(reg, b.receive, FreshRegistration(b, ExpiresAt(b))),
        answer |-> "Accepted"]

Rollback(reg, t) == Restrict(reg, DOMAIN reg \ {t})

(***************************************************************************)
(* Sending the answer.  ok is what the delivery seam says when there is a  *)
(* session to send on; anything but acceptance undoes the commit.  A       *)
(* rejection has nothing to undo.  (Mutant: a refused send undoes nothing, *)
(* only a missing session does.)                                           *)
(***************************************************************************)
DeliverDispatch_KeepsRefused(r, b, ok) ==
  LET accepted == b.nextRouter \in peerIndex /\ ok
  IN [registry |-> IF r.answer = "Accepted" /\ b.nextRouter \notin peerIndex
                   THEN Rollback(r.registry, b.receive) ELSE r.registry,
      accepted |-> r.answer # "Fatal" /\ accepted]

DeliverDispatch(r, b, ok) ==
  LET accepted == b.nextRouter \in peerIndex /\ ok
  IN [registry |-> IF r.answer = "Accepted" /\ ~accepted
                   THEN Rollback(r.registry, b.receive) ELSE r.registry,
      accepted |-> r.answer # "Fatal" /\ accepted]

IsSelfReply(r, b) ==
  r.answer # "Fatal" /\ b.role = "OutboundEndpoint" /\ b.nextRouter = Self

(***************************************************************************)
(* A reply addressed to this very router goes down its own inbound         *)
(* gateway.  The rejected dispatch names its receive tunnel too, so a      *)
(* failure rolls that id back whichever the answer was.                    *)
(***************************************************************************)
DeliverSelfReply(r, b, seed, ok) ==
  LET g == b.nextTunnel
      known == g \in DOMAIN r.registry
      res == ProcessTunnelGateway(r.registry[g], <<"otbrm">>, seed, now)
      forwarded == IF known /\ res.what = "Forward"
                   THEN [r.registry EXCEPT ![g] = res.reg] ELSE r.registry
      accepted == /\ known /\ res.what = "Forward"
                  /\ res.reg.nextRouter \in peerIndex /\ ok
  IN [registry |-> IF accepted THEN forwarded ELSE Rollback(forwarded, b.receive),
      accepted |-> accepted]

DeliverDispatched(r, b, seed, ok) ==
  IF IsSelfReply(r, b) THEN DeliverSelfReply(r, b, seed, ok)
                       ELSE DeliverDispatch(r, b, ok)

(***************************************************************************)
(* A build of this router's own is not transit's.  A direct one is told    *)
(* before the transaction, one in a garlic message after it.  committed    *)
(* says that the transaction accepted the build for its builder.           *)
(***************************************************************************)
DispatchBuild(reg, b, seed, ok) ==
  LET own == <<b.peer, b.id>> \in CreatorBuilds
      r == RouteShortBuild(reg, b)
      d == DeliverDispatched(r, b, seed, ok)
  IN IF own THEN [registry |-> IF b.via = "garlic" THEN r.registry ELSE reg,
                  committed |-> FALSE, accepted |-> FALSE]
     ELSE [registry |-> d.registry, committed |-> r.answer = "Accepted",
           accepted |-> d.accepted]

\* A commit is told of or not; a rejection, delivered or not, tells of none.
Told(given, b, d) ==
  IF ~d.committed THEN given
  ELSE IF d.accepted THEN given \union {b.receive} ELSE given \ {b.receive}

NoteAnswer(b, d) == answered' = Told(answered, b, d)

\* Mutant: a build is dispatched although the token is set.
ShortBuild_AfterSignal(b, seed, ok) ==
  LET d == DispatchBuild(registry, b, seed, ok)
  IN /\ registry' = d.registry
     /\ NoteAnswer(b, d)
     /\ UNCHANGED <<now, peerIndex, signalled, cancelled, relayed, relayedAgain>>

ShortBuild(b, seed, ok) ==
  LET d == DispatchBuild(registry, b, seed, ok)
  IN /\ ~signalled
     /\ registry' = d.registry
     /\ NoteAnswer(b, d)
     /\ UNCHANGED <<now, peerIndex, signalled, cancelled, relayed, relayedAgain>>

(***************************************************************************)
(* Cells.  A participant relays; a completed message of an outbound        *)
(* endpoint is another build request, or goes to this router's own inbound *)
(* gateway, or leaves.                                                     *)
(***************************************************************************)
Relays(t, res, c) ==
  /\ registry' = [registry EXCEPT ![t] = res.reg]
  /\ relayed' = relayed \union {<<res.reg.build, c.nonce>>}
  /\ relayedAgain' = relayedAgain \union ({<<res.reg.build, c.nonce>>} \cap relayed)
  /\ UNCHANGED answered

DeliversInnerBuild(t, res, x, peer, seed, ok) ==
  LET b == [InnerBuild[x.message[0]] EXCEPT !.peer = peer]
      d == DispatchBuild([registry EXCEPT ![t] = res.reg], b, seed, ok)
  IN /\ x.message[0] \in DOMAIN InnerBuild
     /\ registry' = d.registry
     /\ NoteAnswer(b, d)
     /\ UNCHANGED <<relayed, relayedAgain>>

DeliversMessage(t, res, x, seed) ==
  LET reg == [registry EXCEPT ![t] = res.reg]
      g == x.delivery.tunnel
      loop == x.delivery.router = Self /\ g \in DOMAIN reg
  IN /\ x.message[0] \notin DOMAIN InnerBuild
     /\ registry' = IF loop
          THEN [reg EXCEPT ![g] = ProcessTunnelGateway(reg[g],
                 [k \in 1 .. Cardinality(DOMAIN x.message) |-> x.message[k - 1]],
                 seed, now).reg]
          ELSE reg
     /\ UNCHANGED history

TunnelData(c, peer, seed, ok) ==
  LET t == c.tunnel
      res == ProcessTunnelData(registry[t], c, peer, now)
  IN /\ ~signalled
     /\ t \in DOMAIN registry
     /\ \/ res.what = "Forward" /\ Relays(t, res, c)
        \/ /\ res.what = "Deliver"
           /\ \E x \in res.out : \/ DeliversInnerBuild(t, res, x, peer, seed, ok)
                                 \/ DeliversMessage(t, res, x, seed)
        \/ /\ res.what \notin {"Forward", "Deliver"}
           /\ registry' = [registry EXCEPT ![t] = res.reg]
           /\ UNCHANGED history
     /\ UNCHANGED <<now, peerIndex, signalled, cancelled>>

TunnelGateway(t, seed) ==
  /\ ~signalled
  /\ registry' = [registry EXCEPT ![t] =
                    ProcessTunnelGateway(@, <<"nested">>, seed, now).reg]
  /\ UNCHANGED <<now, peerIndex, signalled, cancelled, history>>

(***************************************************************************)
(* Sessions, expiry, cancellation.                                         *)
(***************************************************************************)
InstallPeer(r) ==
  /\ r \in peerIndex \/ Cardinality(peerIndex) < PeerCapacity
  /\ peerIndex' = peerIndex \union {r}
  /\ UNCHANGED <<now, registry, signalled, cancelled, history>>

NoteSessionClosed(r) ==
  /\ peerIndex' = peerIndex \ {r}
  /\ UNCHANGED <<now, registry, signalled, cancelled, history>>

Expire ==
  /\ ~cancelled
  /\ registry' = Restrict(registry,
                   {t \in DOMAIN registry : registry[t].expires > now})
  /\ UNCHANGED <<now, peerIndex, signalled, cancelled, history>>

Drain ==
  /\ cancelled' = TRUE
  /\ registry' = <<>>
  /\ peerIndex' = {}

Cancel ==
  /\ signalled' = TRUE
  /\ Drain
  /\ UNCHANGED <<now, history>>

\* The outer owner sets the token; the service learns of it later.
Signal ==
  /\ signalled' = TRUE
  /\ UNCHANGED <<now, registry, peerIndex, cancelled, history>>

\* The next message of any kind drains the service and is itself dropped.
InboundWhenSignalled ==
  /\ signalled
  /\ Drain
  /\ UNCHANGED <<now, signalled, history>>

Tick ==
  /\ now < MaxNow
  /\ now' = now + 1
  /\ UNCHANGED <<registry, peerIndex, signalled, cancelled, history>>

Next ==
  \/ \E b \in Builds, ok \in BOOLEAN : ShortBuild(b, Seed, ok)
  \/ \E c \in Cells, peer \in Peers, ok \in BOOLEAN : TunnelData(c, peer, Seed, ok)
  \/ \E t \in DOMAIN registry : TunnelGateway(t, Seed)
  \/ \E r \in Routers : InstallPeer(r) \/ NoteSessionClosed(r)
  \/ Expire \/ Cancel \/ Signal \/ InboundWhenSignalled \/ Tick

Spec == Init /\ [][Next]_vars

(***************************************************************************)
(* Properties.                                                             *)
(***************************************************************************)

(***************************************************************************)
(* No tunnel is served whose builder was not told so: the acceptance that  *)
(* goes with the commit of every live registration was taken by the        *)
(* delivery seam (deliver_dispatch_with_rollback), also when the session   *)
(* goes, the token is set or the reply fails between commit and send, and  *)
(* also for a request repeated after an earlier answer.  The exception is  *)
(* a build of this router's own that comes back in a garlic message:       *)
(* dispatch_router_garlic commits it and then leaves it alone.             *)
(***************************************************************************)
NoDanglingRegistration ==
  \A t \in DOMAIN registry :
    \/ t \in answered
    \/ <<registry[t].previous, registry[t].build>> \in CreatorBuilds

(***************************************************************************)
(* A participant relays a cell of a tunnel at most once, over replayed     *)
(* cells and also replayed builds: no replay of the request brings an      *)
(* expired tunnel back with an empty replay window.  (A live one that a    *)
(* rejected self-reply takes away, see LiveUntilExpiry, would come back    *)
(* so; no endpoint request of the instance names a participant's tunnel.)  *)
(***************************************************************************)
RelayedOnce == relayedAgain = {}

(***************************************************************************)
(* The admission ceilings hold for what is live, in total and for every    *)
(* previous peer, however build requests, rollbacks and expiry interleave, *)
(* and once drained the service holds no tunnel again, whatever arrives:   *)
(* cancel() empties the registry and nothing dispatches after it.          *)
(***************************************************************************)
RegistryBounded ==
  /\ Cardinality(DOMAIN registry) <= MaxActive
  /\ \A p \in Peers : Cardinality(ActiveFor(registry, p)) <= MaxActivePerPeer
  /\ cancelled => DOMAIN registry = {}

(***************************************************************************)
(* A live registration goes only by its expiry or by cancellation: "Only   *)
(* Accepted leaves the registration live until its planned expiry", and a  *)
(* rejection installs nothing and has nothing to roll back                 *)
(* (deliver_self_reply_otbrm).                                             *)
(***************************************************************************)
LiveUntilExpiry ==
  [][\A t \in DOMAIN registry :
        t \in DOMAIN registry' \/ registry[t].expires <= now \/ cancelled']_vars
=============================================================================
