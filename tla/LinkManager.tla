---------------------------- MODULE LinkManager ----------------------------
(***************************************************************************)
(* Link ownership of the transport manager                                 *)
(* (crates/i2pr-transport/src/manager.rs): the map of links, the index of  *)
(* links per peer, and the two admission classes that links and pending    *)
(* handshakes are charged to.  Every operator below is the body of one     *)
(* manager method under the manager's mutex, hence one atomic step.        *)
(*                                                                         *)
(* The module has no specification of its own.  TransportManager drives it *)
(* with arbitrary concurrent callers, Ssu2Service with the SSU2 runtime.   *)
(*                                                                         *)
(* Data kept: a link's peer, direction and lifecycle state.  Left out:     *)
(* creation time, transport kind and last termination category, which no   *)
(* decision of the manager reads.                                          *)
(***************************************************************************)
EXTENDS Integers, FiniteSets

CONSTANTS
    Peers,          \* remote routers
    OutboundWins,   \* the peers whose hash is above the local one
    MaxLinkId,      \* bound: how many link identifiers a behaviour draws
    PendingLimit,   \* TransportLimits::max_pending_handshakes
    ActiveLimit,    \* TransportLimits::max_active_links
    PeerLimit       \* TransportLimits::max_links_per_peer

ASSUME LinkAssumption ==
    /\ Peers # {}
    /\ OutboundWins \subseteq Peers
    /\ MaxLinkId \in Nat \ {0}
    /\ PendingLimit \in Nat \ {0}
    /\ ActiveLimit \in Nat \ {0}
    /\ PeerLimit \in 1 .. ActiveLimit

LinkIds == 1 .. MaxLinkId

Directions == {"in", "out"}

LinkStates == {"Authenticated", "Draining", "Closing", "Closed", "Failed"}

\* What LinkState::transition allows a registered link.
Successors(state) ==
    CASE state = "Authenticated" -> {"Draining", "Closing", "Failed"}
      [] state = "Draining"      -> {"Closing", "Closed", "Failed"}
      [] state = "Closing"       -> {"Closed"}
      [] state = "Failed"        -> {"Closed"}
      [] OTHER                   -> {}

Decisions == {"AcceptNew", "RejectNew", "ReplaceExisting", "RetainExistingDrainNew"}

VARIABLES
    links,        \* LinkId -> link; state "none" where the map has no entry
    peers,        \* PeerId -> set of LinkId; {} where the map has no entry
    nextLink,     \* LinkId::generate's counter
    activeUsed,   \* ResourceBudget usage of ActiveLinks
    pendingUsed   \* ResourceBudget usage of PendingHandshakes

linkVars == <<links, peers, nextLink, activeUsed, pendingUsed>>

Link == [peer : Peers, dir : Directions, state : LinkStates \cup {"none"}]

\* A candidate holds its identifier until it is registered.
Candidate == [id : LinkIds, peer : Peers, dir : Directions]

Live == {l \in LinkIds : links[l].state # "none"}

\* The value of links where the map has no entry.
NoLink == [peer |-> CHOOSE p \in Peers : TRUE, dir |-> "in", state |-> "none"]

LinkInit ==
    /\ links = [l \in LinkIds |-> NoLink]
    /\ peers = [p \in Peers |-> {}]
    /\ nextLink = 1
    /\ activeUsed = 0
    /\ pendingUsed = 0

LinkTypeOK ==
    /\ links \in [LinkIds -> Link]
    /\ peers \in [Peers -> SUBSET LinkIds]
    /\ nextLink \in 1 .. MaxLinkId + 1
    /\ activeUsed \in Nat
    /\ pendingUsed \in Nat

-----------------------------------------------------------------------------
(* The duplicate policy.                                                   *)

\* When the two directions meet, the one preferred by the order of the two
\* router hashes wins.
DirectionWins(c) == (c.dir = "out") <=> (c.peer \in OutboundWins)

Decide(existing, c) ==
    CASE existing.peer # c.peer -> "AcceptNew"
      [] existing.peer = c.peer /\ existing.dir = c.dir -> "RejectNew"
      [] existing.peer = c.peer /\ existing.dir # c.dir ->
            IF DirectionWins(c) THEN "ReplaceExisting" ELSE "RetainExistingDrainNew"

\* The peer's link with the smallest identifier.
FirstLink(p) == CHOOSE l \in peers[p] : \A m \in peers[p] : l <= m

\* TransportManager::duplicate_resolution
DuplicateResolution(c) ==
    IF peers[c.peer] = {} THEN "AcceptNew" ELSE Decide(links[FirstLink(c.peer)], c)

-----------------------------------------------------------------------------
(* Registration and removal.                                               *)

Occupied(c) == peers[c.peer] # {}

\* The CandidateDecision register_authenticated returns, or "Denied" when the
\* ActiveLinks budget refuses the lease.  A replacement gives the old lease
\* back before it asks for the new one.
RegisterOutcome(c, duplicate) ==
    CASE Occupied(c) /\ duplicate \in {"RejectNew", "RetainExistingDrainNew"} -> duplicate
      [] Occupied(c) /\ duplicate = "ReplaceExisting" ->
            IF activeUsed - 1 < ActiveLimit THEN "ReplaceExisting" ELSE "Denied"
      [] Occupied(c) /\ duplicate = "AcceptNew" ->
            CASE Cardinality(peers[c.peer]) >= PeerLimit -> "RejectPeerLimit"
              [] Cardinality(peers[c.peer]) < PeerLimit /\ Cardinality(Live) >= ActiveLimit -> "RejectGlobalLimit"
              [] OTHER -> IF activeUsed < ActiveLimit THEN "AcceptAdditional" ELSE "Denied"
      [] OTHER ->
            CASE Cardinality(Live) >= ActiveLimit -> "RejectGlobalLimit"
              [] OTHER -> IF activeUsed < ActiveLimit THEN "AcceptFirst" ELSE "Denied"

Accepted == {"AcceptFirst", "AcceptAdditional", "ReplaceExisting"}

\* The old link goes although the new one is refused.
Retired_AlsoRefused(c, duplicate) ==
    IF Occupied(c) /\ duplicate # "AcceptNew" THEN {FirstLink(c.peer)} ELSE {}

\* The links register_authenticated takes out of the map: the replaced one,
\* removed before the new lease is asked for, so also when that is refused.
Retired(c, duplicate) ==
    IF Occupied(c) /\ duplicate = "ReplaceExisting" THEN {FirstLink(c.peer)} ELSE {}

\* register_authenticated_inner with insert_link and remove_peer_link.
Register(c, duplicate) ==
    LET accepted == RegisterOutcome(c, duplicate) \in Accepted
        retired  == Retired(c, duplicate)
    IN  /\ links' = [l \in LinkIds |->
                        CASE accepted /\ l = c.id -> [peer |-> c.peer, dir |-> c.dir, state |-> "Authenticated"]
                          [] l \in retired        -> NoLink
                          [] OTHER                -> links[l]]
        /\ peers' = [peers EXCEPT ![c.peer] = (@ \ retired) \cup (IF accepted THEN {c.id} ELSE {})]
        /\ activeUsed' = (activeUsed - Cardinality(retired)) + (IF accepted THEN 1 ELSE 0)

\* The link leaves the map and stays in the per-peer index.
CloseLink_KeepsIndex(l) ==
    /\ links' = [links EXCEPT ![l] = NoLink]
    /\ activeUsed' = IF l \in Live THEN activeUsed - 1 ELSE activeUsed
    /\ UNCHANGED <<peers, nextLink, pendingUsed>>

\* TransportManager::close_link; a stale identifier changes nothing.
CloseLink(l) ==
    /\ links' = [links EXCEPT ![l] = NoLink]
    /\ peers' = [peers EXCEPT ![links[l].peer] = IF l \in Live THEN @ \ {l} ELSE @]
    /\ activeUsed' = IF l \in Live THEN activeUsed - 1 ELSE activeUsed
    /\ UNCHANGED <<nextLink, pendingUsed>>

-----------------------------------------------------------------------------
(* What both users of the manager rely on.                                 *)

\* The per-peer index holds exactly the links of the map.
IndexConsistent == \A p \in Peers : peers[p] = {l \in Live : links[l].peer = p}

\* One ActiveLinks unit per link: a removed link gives its unit back, and a
\* replacement never takes two.
ActiveLeasesExact == activeUsed = Cardinality(Live)

=============================================================================
