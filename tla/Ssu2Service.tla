----------------------------- MODULE Ssu2Service -----------------------------
(***************************************************************************)
(* Session ownership of the SSU2 runtime service on top of the transport   *)
(* manager (crates/i2pr-runtime/src/ssu2_runtime.rs).                       *)
(*                                                                         *)
(* The service keeps its own maps of pending handshakes and of sessions    *)
(* behind one mutex, next to the manager's map of links behind another.    *)
(* A handler holds the service mutex from start to end and calls the       *)
(* manager in between, so it is one step.  Two things are not: close_ssu2  *)
(* takes the session out under the mutex and closes the manager's link     *)
(* after it, and dial_ssu2 tests the shutdown flag before it locks.        *)
(*                                                                         *)
(* An address counts against each of its scopes (its exact IP, its         *)
(* subnet).  Handshake cryptography, datagrams, tokens, staging and        *)
(* resends are left out: what is kept is when an entry appears, is         *)
(* promoted, or goes away, so a datagram or a deadline shows as a          *)
(* nondeterministic choice of the handler it leads to.                     *)
(***************************************************************************)
EXTENDS LinkManager

CONSTANTS
    Dialers,        \* callers of dial_ssu2
    Slots,          \* inbound handshakes that may be pending at once
    Loops,          \* one loop task per bound socket family
    Addresses, Scopes,
    Published,      \* <<peer, address>>: what the RouterInfos say
    ScopesOf,       \* Address -> its exact IP and its subnet
    PendingPerScope, ActivePerScope   \* max_pending_per_ip / _per_subnet, max_active_...

NoAddr == "noAddress"

ASSUME ServiceAssumption ==
    /\ IsFiniteSet(Dialers) /\ IsFiniteSet(Slots) /\ IsFiniteSet(Loops)
    /\ NoAddr \notin Addresses
    /\ Published \subseteq Peers \X Addresses
    /\ ScopesOf \in [Addresses -> SUBSET Scopes]
    /\ PendingPerScope \in [Scopes -> 1 .. PendingLimit]
    /\ ActivePerScope \in [Scopes -> 1 .. ActiveLimit]

VARIABLES
    dials,         \* each dialer: pc, target and whether pending_outbound holds it
    dialAddrs,     \* pending_outbound_addrs
    pendIn,        \* slot -> source address of a pending_inbound entry, or none
    active,        \* link -> session; addr NoAddr where the map has no entry
    peerLinks,     \* peer_links
    pendingCount, activeCount,   \* pending_ip and pending_subnet, active_ip and active_subnet
    closing,       \* links whose close_ssu2 is between its two critical sections
    down,          \* the shutdown token
    loops          \* loop tasks still running

serviceVars == <<dials, dialAddrs, pendIn, active, peerLinks, pendingCount, activeCount, closing, down, loops>>
vars == <<linkVars, serviceVars>>

NoSession == [peer |-> CHOOSE p \in Peers : TRUE, addr |-> NoAddr]

IdleDialer == [pc |-> "idle", entry |-> FALSE, addr |-> NoAddr,
               c |-> [id |-> 1, peer |-> CHOOSE p \in Peers : TRUE, dir |-> "out"]]

Sessions == {l \in LinkIds : active[l].addr # NoAddr}
PendingOut == {d \in Dialers : dials[d].entry}
PendingIn == {i \in Slots : pendIn[i] # NoAddr}
PendingTotal == Cardinality(PendingOut) + Cardinality(PendingIn)

TypeOK ==
    /\ LinkTypeOK
    /\ dials \in [Dialers -> [pc : {"idle", "entering", "waiting"}, entry : BOOLEAN,
                              addr : Addresses \cup {NoAddr}, c : Candidate]]
    /\ dialAddrs \subseteq Addresses
    /\ pendIn \in [Slots -> Addresses \cup {NoAddr}]
    /\ active \in [LinkIds -> [peer : Peers, addr : Addresses \cup {NoAddr}]]
    /\ peerLinks \in [Peers -> SUBSET LinkIds]
    /\ pendingCount \in [Scopes -> Nat]
    /\ activeCount \in [Scopes -> Nat]
    /\ closing \subseteq LinkIds
    /\ down \in BOOLEAN
    /\ loops \subseteq Loops

Init ==
    /\ LinkInit
    /\ dials = [d \in Dialers |-> IdleDialer]
    /\ dialAddrs = {}
    /\ pendIn = [i \in Slots |-> NoAddr]
    /\ active = [l \in LinkIds |-> NoSession]
    /\ peerLinks = [p \in Peers |-> {}]
    /\ pendingCount = [x \in Scopes |-> 0]
    /\ activeCount = [x \in Scopes |-> 0]
    /\ closing = {}
    /\ down = FALSE
    /\ loops = Loops

-----------------------------------------------------------------------------
(* Counting maps.                                                          *)

\* count_up and subnet_up
CountUp(m, a) == [x \in Scopes |-> IF x \in ScopesOf[a] THEN m[x] + 1 ELSE m[x]]

\* count_down and subnet_down, saturating
CountDown(m, a) == [x \in Scopes |-> IF a # NoAddr /\ x \in ScopesOf[a] /\ m[x] > 0 THEN m[x] - 1 ELSE m[x]]

SessionsAt(x) == Cardinality({l \in Sessions : x \in ScopesOf[active[l].addr]})

\* active_capacity_locked
ActiveCapacity(a) ==
    /\ Cardinality(Sessions) < ActiveLimit
    /\ \A x \in ScopesOf[a] : activeCount[x] < ActivePerScope[x]

-----------------------------------------------------------------------------
(* Outbound dials.                                                         *)

\* dial_ssu2 up to the service mutex.
DialStart(d, p, a) ==
    /\ dials[d].pc = "idle"
    /\ ~down /\ <<p, a>> \in Published
    /\ dials' = [dials EXCEPT ![d] = [IdleDialer EXCEPT !.pc = "entering", !.addr = a, !.c.peer = p]]
    /\ UNCHANGED <<linkVars, dialAddrs, pendIn, active, peerLinks, pendingCount, activeCount, closing, down, loops>>

\* The dial is denied, or no randomness, or the staging queue is full.
DialDenied(d) ==
    /\ dials[d].pc = "entering"
    /\ dials' = [dials EXCEPT ![d] = IdleDialer]
    /\ UNCHANGED <<linkVars, dialAddrs, pendIn, active, peerLinks, pendingCount, activeCount, closing, down, loops>>

\* The body of dial_ssu2 under the mutex: admission, candidate, pending entry.
Enter(d) ==
    /\ pendingUsed' = pendingUsed + 1
    /\ nextLink' = nextLink + 1
    /\ dials' = [dials EXCEPT ![d].pc = "waiting", ![d].entry = TRUE, ![d].c.id = nextLink]
    /\ dialAddrs' = dialAddrs \cup {dials[d].addr}
    /\ pendingCount' = CountUp(pendingCount, dials[d].addr)
    /\ UNCHANGED <<links, peers, activeUsed, pendIn, active, peerLinks, activeCount, closing, down, loops>>

DialEnter(d) ==
    /\ dials[d].pc = "entering"
    /\ PendingTotal < PendingLimit /\ pendingUsed < PendingLimit
    /\ dials[d].addr \notin dialAddrs
    /\ ActiveCapacity(dials[d].addr)
    /\ nextLink <= MaxLinkId
    /\ Enter(d)

\* What abort_dial, fail_outbound_locked and promote_outbound_locked do to an
\* outbound entry; the entry's lease goes with it.
RemoveOutbound(d) ==
    /\ dialAddrs' = dialAddrs \ {dials[d].addr}
    /\ pendingCount' = CountDown(pendingCount, dials[d].addr)
    /\ pendingUsed' = pendingUsed - 1

\* fail_outbound_locked: backstop, exhausted resends, a failed machine.
FailOutbound(d) ==
    /\ loops # {}
    /\ dials[d].entry
    /\ RemoveOutbound(d)
    /\ dials' = [dials EXCEPT ![d].entry = FALSE]
    /\ UNCHANGED <<links, peers, nextLink, activeUsed, pendIn, active, peerLinks, activeCount, closing, down, loops>>

\* The caller's cancellation, the shutdown or the dial timeout: abort_dial.  A
\* completion that arrived first has already removed the entry.
AbortDial(d) ==
    /\ dials[d].pc = "waiting"
    /\ IF dials[d].entry THEN RemoveOutbound(d) ELSE UNCHANGED <<dialAddrs, pendingCount, pendingUsed>>
    /\ dials' = [dials EXCEPT ![d] = IdleDialer]
    /\ UNCHANGED <<links, peers, nextLink, activeUsed, pendIn, active, peerLinks, activeCount, closing, down, loops>>

-----------------------------------------------------------------------------
(* Promotion.                                                              *)

\* The decision is the one the handshake started with, when the peer had no link.
Promote_StaleDecision(c, a) ==
    LET outcome == RegisterOutcome(c, "AcceptNew")
    IN  /\ Register(c, "AcceptNew")
        /\ active' = IF outcome \in Accepted THEN [active EXCEPT ![c.id] = [peer |-> c.peer, addr |-> a]] ELSE active
        /\ peerLinks' = IF outcome \in Accepted THEN [peerLinks EXCEPT ![c.peer] = @ \cup {c.id}] ELSE peerLinks
        /\ activeCount' = IF outcome \in Accepted THEN CountUp(activeCount, a) ELSE activeCount

\* Registration at the authenticated gate and the session maps, shared by both
\* directions.  retired is the session of a replaced link.  A path that cannot
\* be set up closes the new link at once: Promote followed by EndSession.
Promote(c, a) ==
    LET duplicate == DuplicateResolution(c)
        outcome == RegisterOutcome(c, duplicate)
        retired == IF outcome = "ReplaceExisting" THEN Retired(c, duplicate) \cap Sessions ELSE {}
        given == IF retired = {} THEN activeCount ELSE CountDown(activeCount, active[FirstLink(c.peer)].addr)
    IN  /\ Register(c, duplicate)
        /\ active' = [l \in LinkIds |->
                         CASE outcome \in Accepted /\ l = c.id -> [peer |-> c.peer, addr |-> a]
                           [] l \in retired -> NoSession
                           [] OTHER -> active[l]]
        /\ peerLinks' = [peerLinks EXCEPT ![c.peer] = (@ \ retired) \cup (IF outcome \in Accepted THEN {c.id} ELSE {})]
        /\ activeCount' = IF outcome \in Accepted THEN CountUp(given, a) ELSE activeCount

\* promote_outbound_locked.  The dialer is told over a one-shot channel.
PromoteOutbound(d) ==
    /\ loops # {}
    /\ dials[d].entry
    /\ RemoveOutbound(d)
    /\ dials' = [dials EXCEPT ![d].entry = FALSE]
    /\ IF ActiveCapacity(dials[d].addr)
       THEN Promote(dials[d].c, dials[d].addr)
       ELSE UNCHANGED <<links, peers, activeUsed, active, peerLinks, activeCount>>
    /\ UNCHANGED <<nextLink, pendIn, closing, down, loops>>

\* The entry is taken out of pending_inbound; its lease goes with it.
RemoveInbound(i) ==
    /\ pendIn' = [pendIn EXCEPT ![i] = NoAddr]
    /\ pendingUsed' = pendingUsed - 1

\* promote_inbound_locked.  The peer becomes known here; a second, peer-bound
\* lease is admitted while the entry's own is still held.
PromoteInbound(i, p) ==
    LET a == pendIn[i]
        c == [id |-> nextLink, peer |-> p, dir |-> "in"]
        gate == ActiveCapacity(a) /\ pendingUsed < PendingLimit
    IN  /\ loops # {}
        /\ i \in PendingIn
        /\ nextLink <= MaxLinkId
        /\ RemoveInbound(i)
        /\ pendingCount' = CountDown(pendingCount, a)
        /\ nextLink' = IF ActiveCapacity(a) THEN nextLink + 1 ELSE nextLink
        /\ IF gate THEN Promote(c, a)
                   ELSE UNCHANGED <<links, peers, activeUsed, active, peerLinks, activeCount>>
        /\ UNCHANGED <<dials, dialAddrs, closing, down, loops>>

\* The peer's RouterInfo or the session is refused inside promote_inbound_locked.
RejectInbound(i) ==
    /\ loops # {}
    /\ i \in PendingIn
    /\ RemoveInbound(i)
    /\ pendingCount' = CountDown(pendingCount, pendIn[i])
    /\ UNCHANGED <<links, peers, nextLink, activeUsed, dials, dialAddrs, active, peerLinks, activeCount,
                   closing, down, loops>>

-----------------------------------------------------------------------------
(* Inbound handshakes.                                                     *)

\* admit_pending_inbound for a request that is answered with SessionCreated.
AdmitInbound(i, a) ==
    /\ loops # {}
    /\ pendIn[i] = NoAddr
    /\ PendingTotal < PendingLimit /\ pendingUsed < PendingLimit
    /\ \A x \in ScopesOf[a] : pendingCount[x] < PendingPerScope[x]
    /\ pendIn' = [pendIn EXCEPT ![i] = a]
    /\ pendingCount' = CountUp(pendingCount, a)
    /\ pendingUsed' = pendingUsed + 1
    /\ UNCHANGED <<links, peers, nextLink, activeUsed, dials, dialAddrs, active, peerLinks, activeCount,
                   closing, down, loops>>

\* An inbound entry ends without promotion.  These paths leave the counting maps
\* alone.
AbandonInbound(i) ==
    /\ loops # {}
    /\ i \in PendingIn
    /\ RemoveInbound(i)
    /\ UNCHANGED <<links, peers, nextLink, activeUsed, dials, dialAddrs, active, peerLinks, pendingCount,
                   activeCount, closing, down, loops>>

\* drive_timeouts_locked: the backstop has passed, or the machine ends on a resend.
TimeoutInbound(i) == AbandonInbound(i)

\* drive_pending_request and drive_pending_confirmed: the datagram ends the machine.
DropInbound(i) == AbandonInbound(i)

-----------------------------------------------------------------------------
(* Sessions.                                                               *)

\* remove_active_locked
RemoveActive(l) ==
    /\ active' = [active EXCEPT ![l] = NoSession]
    /\ peerLinks' = [peerLinks EXCEPT ![active[l].peer] = IF l \in Sessions THEN @ \ {l} ELSE @]
    /\ activeCount' = CountDown(activeCount, active[l].addr)

\* handle_active_datagram and drive_timeouts_locked when the session ends.
EndSession(l) ==
    /\ loops # {}
    /\ l \in Sessions
    /\ RemoveActive(l)
    /\ CloseLink(l)
    /\ UNCHANGED <<dials, dialAddrs, pendIn, pendingCount, closing, down, loops>>

\* The new address is counted, the old one not uncounted.
Migrate_KeepsOld(l, a) ==
    /\ loops # {}
    /\ l \in Sessions /\ a # active[l].addr
    /\ active' = [active EXCEPT ![l].addr = a]
    /\ activeCount' = CountUp(activeCount, a)
    /\ UNCHANGED <<linkVars, dials, dialAddrs, pendIn, peerLinks, pendingCount, closing, down, loops>>

\* accept_path_response_locked: the session moves to a validated address.
Migrate(l, a) ==
    /\ loops # {}
    /\ l \in Sessions /\ a # active[l].addr
    /\ active' = [active EXCEPT ![l].addr = a]
    /\ activeCount' = CountUp(CountDown(activeCount, active[l].addr), a)
    /\ UNCHANGED <<linkVars, dials, dialAddrs, pendIn, peerLinks, pendingCount, closing, down, loops>>

\* A caller learns a link's identifier when it is established.
Established(l) == l < nextLink /\ \A d \in PendingOut : dials[d].c.id # l

\* close_ssu2, first half: the session leaves the service ...
CloseSession(l) ==
    /\ Established(l) /\ l \notin closing
    /\ RemoveActive(l)
    /\ closing' = closing \cup {l}
    /\ UNCHANGED <<linkVars, dials, dialAddrs, pendIn, pendingCount, down, loops>>

\* ... second half: exactly this link leaves the manager.
CloseManagerLink(l) ==
    /\ l \in closing
    /\ CloseLink(l)
    /\ closing' = closing \ {l}
    /\ UNCHANGED <<dials, dialAddrs, pendIn, active, peerLinks, pendingCount, activeCount, down, loops>>

-----------------------------------------------------------------------------
(* Shutdown.                                                               *)

Shutdown ==
    /\ ~down
    /\ down' = TRUE
    /\ UNCHANGED <<linkVars, dials, dialAddrs, pendIn, active, peerLinks, pendingCount, activeCount, closing, loops>>

\* The pending handshakes go, their counts per source stay.
Cleanup_KeepsCounts(f) ==
    /\ f \in loops
    /\ loops' = loops \ {f}
    /\ dials' = [d \in Dialers |-> [dials[d] EXCEPT !.entry = FALSE]]
    /\ dialAddrs' = {}
    /\ pendIn' = [i \in Slots |-> NoAddr]
    /\ pendingUsed' = pendingUsed - PendingTotal
    /\ active' = [l \in LinkIds |-> NoSession]
    /\ peerLinks' = [p \in Peers |-> {}]
    /\ activeCount' = [x \in Scopes |-> activeCount[x] - SessionsAt(x)]
    /\ links' = [l \in LinkIds |-> IF l \in Sessions THEN NoLink ELSE links[l]]
    /\ peers' = [p \in Peers |-> peers[p] \ Sessions]
    /\ activeUsed' = activeUsed - Cardinality(Sessions \cap Live)
    /\ UNCHANGED <<nextLink, pendingCount, closing, down>>

\* A loop task sees the shutdown, or its child token is cancelled: cleanup_locked,
\* then the task ends.  Only the loops look at that token and the scope may cancel
\* it at any time, so it needs no variable; dials go on being admitted after it.
Cleanup(f) ==
    /\ f \in loops
    /\ loops' = loops \ {f}
    /\ dials' = [d \in Dialers |-> [dials[d] EXCEPT !.entry = FALSE]]
    /\ dialAddrs' = {}
    /\ pendIn' = [i \in Slots |-> NoAddr]
    /\ pendingCount' = [x \in Scopes |-> 0]
    /\ pendingUsed' = pendingUsed - PendingTotal
    /\ active' = [l \in LinkIds |-> NoSession]
    /\ peerLinks' = [p \in Peers |-> {}]
    /\ activeCount' = [x \in Scopes |-> IF activeCount[x] > SessionsAt(x) THEN activeCount[x] - SessionsAt(x) ELSE 0]
    /\ links' = [l \in LinkIds |-> IF l \in Sessions THEN NoLink ELSE links[l]]
    /\ peers' = [p \in Peers |-> peers[p] \ Sessions]
    /\ activeUsed' = activeUsed - Cardinality(Sessions \cap Live)
    /\ UNCHANGED <<nextLink, closing, down>>

DialerNext(d) ==
    \/ \E p \in Peers, a \in Addresses : DialStart(d, p, a)
    \/ DialDenied(d)
    \/ DialEnter(d)
    \/ FailOutbound(d)
    \/ AbortDial(d)
    \/ PromoteOutbound(d)

InboundNext(i) ==
    \/ \E a \in Addresses : AdmitInbound(i, a)
    \/ \E p \in Peers : PromoteInbound(i, p)
    \/ RejectInbound(i)
    \/ TimeoutInbound(i)
    \/ DropInbound(i)

LinkNext(l) ==
    \/ EndSession(l)
    \/ \E a \in Addresses : Migrate(l, a)
    \/ CloseSession(l)
    \/ CloseManagerLink(l)

Next ==
    \/ \E d \in Dialers : DialerNext(d)
    \/ \E i \in Slots : InboundNext(i)
    \/ \E l \in LinkIds : LinkNext(l)
    \/ Shutdown
    \/ \E f \in Loops : Cleanup(f)

\* A task that can run does run: a loop polls the shutdown token first, a dialer
\* awaits its mutex or the token, and close_ssu2 has no await between its halves.
Fairness ==
    /\ \A f \in Loops : WF_vars(down /\ Cleanup(f))
    /\ \A d \in Dialers : WF_vars(DialDenied(d) \/ DialEnter(d)) /\ WF_vars(down /\ AbortDial(d))
    /\ \A l \in LinkIds : WF_vars(CloseManagerLink(l))

Spec == Init /\ [][Next]_vars /\ Fairness

-----------------------------------------------------------------------------
(* Properties.                                                             *)

\* The two owners agree: a session always has its manager link, and a link
\* without a session is one whose close is between its two halves.  A peer has one
\* link at most: the duplicate decision is computed and applied in two critical
\* sections of the manager, but the service mutex spans both.
SessionsMatchLinks ==
    /\ \A l \in Sessions : l \in Live /\ links[l].peer = active[l].peer
    /\ Live \subseteq Sessions \cup closing
    /\ \A p \in Peers : peerLinks[p] = {l \in Sessions : active[l].peer = p}
    /\ \A p \in Peers : Cardinality(peers[p]) <= 1

PendingAt(x) ==
    Cardinality({d \in PendingOut : x \in ScopesOf[dials[d].addr]})
      + Cardinality({i \in PendingIn : x \in ScopesOf[pendIn[i]]})

\* The per-IP and per-subnet maps can be trusted with the ceilings: the session
\* counts are exact across replacement, migration to another address and closing,
\* and no handshake that is pending goes uncounted.  Every pending entry holds one
\* PendingHandshakes unit and every link one ActiveLinks unit, whichever of the many
\* exits it takes.
CountsExact ==
    /\ TypeOK
    /\ ActiveLeasesExact /\ pendingUsed = PendingTotal
    /\ \A x \in Scopes : activeCount[x] = SessionsAt(x) /\ PendingAt(x) <= pendingCount[x]

\* After shutdown everything is given back and stays so, also for a dial that
\* passed the shutdown test before the loops cleaned up.
BaselineRestored ==
    down ~> [](/\ pendingUsed = 0 /\ PendingTotal = 0 /\ dialAddrs = {}
               /\ activeUsed = 0 /\ Sessions = {} /\ Live = {}
               /\ \A x \in Scopes : pendingCount[x] = 0 /\ activeCount[x] = 0)

\* The claim that an ended handshake gives its permits back exactly once
\* (plan 158, section 7), for the per-IP and per-subnet permits: the maps count
\* what is pending.
PendingCountExact == \A x \in Scopes : pendingCount[x] = PendingAt(x)

\* The claim of the limits' documentation that max_active_per_ip and
\* max_active_per_subnet bound the sessions of a source.
ActivePerSourceBounded == \A x \in Scopes : SessionsAt(x) <= ActivePerScope[x]

\* The claim that successful authentication promotes to an active link: an
\* authenticated inbound handshake of a peer without a link is not turned away
\* while there is room for its session.
AuthenticatedIsPromoted ==
    [][\A i \in Slots, p \in Peers :
          PromoteInbound(i, p) /\ ActiveCapacity(pendIn[i]) /\ Cardinality(Live) < ActiveLimit /\ peers[p] = {}
             => peers'[p] # {}]_vars

=============================================================================
