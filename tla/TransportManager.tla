-------------------------- MODULE TransportManager --------------------------
(***************************************************************************)
(* The transport manager under arbitrary concurrent callers                *)
(* (crates/i2pr-transport/src/manager.rs, delivery.rs, resource.rs).       *)
(*                                                                         *)
(* A handshaker is a thread that admits a pending handshake, asks for the  *)
(* duplicate policy once its peer is authenticated, and registers.  These  *)
(* are three critical sections, so the policy it acts on may be stale.     *)
(* A sender is a thread that takes a delivery capability, enqueues a       *)
(* message and later hands the queued delivery on or drops it.  The        *)
(* capability, the first check, the budget and the second check are four   *)
(* critical sections; the two releases are two more.  Anyone may close a   *)
(* link or move it through its lifecycle in between.                       *)
(***************************************************************************)
EXTENDS LinkManager, FiniteSetsExt

CONSTANTS
    Handshakers, Senders,
    Sizes,          \* encoded lengths of the messages sent
    LinkMessages,   \* TransportLimits::max_messages_per_link
    LinkBytes,      \* TransportLimits::max_bytes_per_link
    QueueItems,     \* TransportLimits::max_queued_messages
    QueueBytes      \* TransportLimits::max_buffered_bytes

ASSUME DeliveryAssumption ==
    /\ IsFiniteSet(Handshakers) /\ IsFiniteSet(Senders)
    /\ Sizes \subseteq Nat \ {0}
    /\ QueueItems \in Nat \ {0} /\ LinkMessages \in 1 .. QueueItems
    /\ QueueBytes \in Nat \ {0} /\ LinkBytes \in 1 .. QueueBytes

VARIABLES
    hs,           \* each handshaker's program counter, candidate and policy
    sends,        \* each sender's program counter, link and message size
    queued,       \* LinkId -> the link record's two queue counters
    itemsUsed,    \* ResourceBudget usage of CommandQueueItems
    bytesUsed     \* ResourceBudget usage of BufferedBytes

queueVars == <<sends, queued, itemsUsed, bytesUsed>>
vars == <<linkVars, hs, queueVars>>

HsPlaces == {"idle", "pending", "resolved", "registered"}
SendPlaces == {"idle", "capable", "checked", "admitted", "queued", "releasing"}

Empty == [messages |-> 0, bytes |-> 0]

NoCandidate == [id |-> 1, peer |-> CHOOSE p \in Peers : TRUE, dir |-> "in"]

TypeOK ==
    /\ LinkTypeOK
    /\ hs \in [Handshakers -> [pc : HsPlaces, c : Candidate, duplicate : Decisions]]
    /\ sends \in [Senders -> [pc : SendPlaces, link : LinkIds, size : Nat]]
    /\ queued \in [LinkIds -> [messages : Nat, bytes : Nat]]
    /\ itemsUsed \in Nat
    /\ bytesUsed \in Nat

IdleHandshaker == [pc |-> "idle", c |-> NoCandidate, duplicate |-> "AcceptNew"]
IdleSender == [pc |-> "idle", link |-> 1, size |-> 0]

Init ==
    /\ LinkInit
    /\ hs = [h \in Handshakers |-> IdleHandshaker]
    /\ sends = [s \in Senders |-> IdleSender]
    /\ queued = [l \in LinkIds |-> Empty]
    /\ itemsUsed = 0
    /\ bytesUsed = 0

\* A link's counters live in its record: they start at zero and go with it.
ForgetRemoved ==
    queued' = [l \in LinkIds |-> IF l \in Live /\ l \in Live' THEN queued[l] ELSE Empty]

-----------------------------------------------------------------------------
(* Handshakers.                                                            *)

Started(h, p, d) ==
    /\ pendingUsed' = pendingUsed + 1
    /\ nextLink' = nextLink + 1
    /\ hs' = [hs EXCEPT ![h] = [pc |-> "pending", c |-> [id |-> nextLink, peer |-> p, dir |-> d],
                                duplicate |-> "AcceptNew"]]
    /\ UNCHANGED <<links, peers, activeUsed, queueVars>>

\* begin_handshake and LinkCandidate::new.
Begin(h, p, d) ==
    /\ hs[h].pc = "idle"
    /\ nextLink <= MaxLinkId
    /\ pendingUsed < PendingLimit
    /\ Started(h, p, d)

\* The candidate is authenticated and the policy computed: duplicate_resolution.
Resolve(h) ==
    /\ hs[h].pc = "pending"
    /\ hs' = [hs EXCEPT ![h] = [pc |-> "resolved", c |-> hs[h].c,
                                duplicate |-> DuplicateResolution(hs[h].c)]]
    /\ UNCHANGED <<linkVars, queueVars>>

\* PendingHandshake::register up to the end of the critical section.
RegisterStep(h) ==
    /\ hs[h].pc = "resolved"
    /\ Register(hs[h].c, hs[h].duplicate)
    /\ ForgetRemoved
    /\ hs' = [hs EXCEPT ![h].pc = "registered"]
    /\ UNCHANGED <<nextLink, pendingUsed, sends, itemsUsed, bytesUsed>>

\* register refuses a candidate that is not authenticated or is of another peer
\* than the admission, before it takes the lock.
RegisterRefused(h) ==
    /\ hs[h].pc \in {"pending", "resolved"}
    /\ hs' = [hs EXCEPT ![h].pc = "registered"]
    /\ UNCHANGED <<linkVars, queueVars>>

\* The PendingHandshake is dropped: after register, or because the handshake failed.
ReleasePending(h) ==
    /\ hs[h].pc \in {"pending", "registered"}
    /\ pendingUsed' = pendingUsed - 1
    /\ hs' = [hs EXCEPT ![h] = IdleHandshaker]
    /\ UNCHANGED <<links, peers, nextLink, activeUsed, queueVars>>

-----------------------------------------------------------------------------
(* Senders.                                                                *)

Goto(s, place) == sends' = [sends EXCEPT ![s].pc = place]
GiveUp(s) == sends' = [sends EXCEPT ![s] = IdleSender]

\* delivery_capability: the first authenticated link of the peer.
Capability(s, p, size) ==
    LET usable == {l \in peers[p] : links[l].state = "Authenticated"}
    IN  /\ sends[s].pc = "idle"
        /\ usable # {}
        /\ sends' = [sends EXCEPT ![s] = [pc |-> "capable", link |-> Min(usable), size |-> size]]
        /\ UNCHANGED <<linkVars, hs, queued, itemsUsed, bytesUsed>>

\* The conditions enqueue_on_link tests under the lock, twice.
HasRoom(l, size) ==
    /\ l \in Live
    /\ links[l].state = "Authenticated"
    /\ queued[l].messages < LinkMessages
    /\ queued[l].bytes + size <= LinkBytes

\* The first check.  Cancellation and an elapsed deadline give up here too.
Check(s) ==
    /\ sends[s].pc = "capable"
    /\ \/ HasRoom(sends[s].link, sends[s].size) /\ Goto(s, "checked")
       \/ GiveUp(s)
    /\ UNCHANGED <<linkVars, hs, queued, itemsUsed, bytesUsed>>

\* admit_queue: one item and its bytes, together or not at all.
Admit(s) ==
    /\ sends[s].pc = "checked"
    /\ IF itemsUsed < QueueItems /\ bytesUsed + sends[s].size <= QueueBytes
       THEN /\ itemsUsed' = itemsUsed + 1
            /\ bytesUsed' = bytesUsed + sends[s].size
            /\ Goto(s, "admitted")
       ELSE GiveUp(s) /\ UNCHANGED <<itemsUsed, bytesUsed>>
    /\ UNCHANGED <<linkVars, hs, queued>>

\* The failed second check forgets the lease.
Count_KeepsLease(s) ==
    /\ sends[s].pc = "admitted"
    /\ IF HasRoom(sends[s].link, sends[s].size)
       THEN /\ queued' = [queued EXCEPT ![sends[s].link] =
                             [messages |-> @.messages + 1, bytes |-> @.bytes + sends[s].size]]
            /\ Goto(s, "queued")
       ELSE GiveUp(s) /\ UNCHANGED queued
    /\ UNCHANGED <<linkVars, hs, itemsUsed, bytesUsed>>

\* The second check and the link's counters.
Count(s) ==
    /\ sends[s].pc = "admitted"
    /\ IF HasRoom(sends[s].link, sends[s].size)
       THEN /\ queued' = [queued EXCEPT ![sends[s].link] =
                             [messages |-> @.messages + 1, bytes |-> @.bytes + sends[s].size]]
            /\ Goto(s, "queued")
            /\ UNCHANGED <<itemsUsed, bytesUsed>>
       ELSE /\ itemsUsed' = itemsUsed - 1
            /\ bytesUsed' = bytesUsed - sends[s].size
            /\ GiveUp(s)
            /\ UNCHANGED queued
    /\ UNCHANGED <<linkVars, hs>>

\* QueuedDelivery::into_request or its drop: first the lease ...
ReleaseLease(s) ==
    /\ sends[s].pc = "queued"
    /\ itemsUsed' = itemsUsed - 1
    /\ bytesUsed' = bytesUsed - sends[s].size
    /\ Goto(s, "releasing")
    /\ UNCHANGED <<linkVars, hs, queued>>

Less(a, b) == IF a >= b THEN a - b ELSE 0

\* The guard uncounts on the peer's current link instead of the one it was made for.
Uncount_CurrentLink(s) ==
    LET current == peers[links[sends[s].link].peer]
    IN  /\ sends[s].pc = "releasing"
        /\ queued' = IF current # {}
                     THEN [queued EXCEPT ![Min(current)] =
                              [messages |-> Less(@.messages, 1), bytes |-> Less(@.bytes, sends[s].size)]]
                     ELSE queued
        /\ GiveUp(s)
        /\ UNCHANGED <<linkVars, hs, itemsUsed, bytesUsed>>

\* ... then QueueAccounting, which finds its link by identifier or not at all.
Uncount(s) ==
    /\ sends[s].pc = "releasing"
    /\ queued' = IF sends[s].link \in Live
                 THEN [queued EXCEPT ![sends[s].link] =
                          [messages |-> Less(@.messages, 1), bytes |-> Less(@.bytes, sends[s].size)]]
                 ELSE queued
    /\ GiveUp(s)
    /\ UNCHANGED <<linkVars, hs, itemsUsed, bytesUsed>>

-----------------------------------------------------------------------------
(* Anyone.                                                                 *)

Close(l) ==
    /\ CloseLink(l)
    /\ ForgetRemoved
    /\ UNCHANGED <<hs, sends, itemsUsed, bytesUsed>>

\* transition_link
Transition(l, next) ==
    /\ next \in Successors(links[l].state)
    /\ links' = [links EXCEPT ![l].state = next]
    /\ UNCHANGED <<peers, nextLink, activeUsed, pendingUsed, hs, queueVars>>

HandshakerNext(h) ==
    \/ \E p \in Peers, d \in Directions : Begin(h, p, d)
    \/ Resolve(h)
    \/ RegisterStep(h)
    \/ RegisterRefused(h)
    \/ ReleasePending(h)

SenderNext(s) ==
    \/ \E p \in Peers, size \in Sizes : Capability(s, p, size)
    \/ Check(s)
    \/ Admit(s)
    \/ Count(s)
    \/ ReleaseLease(s)
    \/ Uncount(s)

Next ==
    \/ \E h \in Handshakers : HandshakerNext(h)
    \/ \E s \in Senders : SenderNext(s)
    \/ \E l \in Live : Close(l)
    \/ \E l \in Live, next \in LinkStates : Transition(l, next)

Spec == Init /\ [][Next]_vars

-----------------------------------------------------------------------------
(* Properties.                                                             *)

HoldingLease == {s \in Senders : sends[s].pc \in {"admitted", "queued"}}

CountedOn(l) == {s \in Senders : sends[s].pc \in {"queued", "releasing"} /\ sends[s].link = l}

\* Every byte of the messages of S, counted.
BytesOf(S) == Cardinality(UNION {{s} \X (1 .. sends[s].size) : s \in S})

\* Leases are exact on every path: each pending handshake, link and queued
\* delivery is charged once, however its owner gives it up (registration,
\* refusal, replacement, closing, a failed second check, hand-off).
LeasesExact ==
    /\ ActiveLeasesExact
    /\ pendingUsed = Cardinality({h \in Handshakers : hs[h].pc # "idle"})
    /\ itemsUsed = Cardinality(HoldingLease)
    /\ bytesUsed = BytesOf(HoldingLease)

\* A link's queue counters are exactly its outstanding deliveries: the guard of a
\* delivery that outlives its link must not uncount on the replacement, and the
\* saturating subtraction never has to saturate.  The configured ceilings hold
\* although each of them is checked in a critical section of its own: links per
\* peer and in total, messages and bytes per link and in total, pending handshakes.
QueueCountersExact ==
    /\ TypeOK
    /\ \A l \in Live :
        /\ queued[l].messages = Cardinality(CountedOn(l))
        /\ queued[l].bytes = BytesOf(CountedOn(l))
    /\ \A p \in Peers : Cardinality(peers[p]) <= PeerLimit
    /\ Cardinality(Live) <= ActiveLimit
    /\ pendingUsed <= PendingLimit
    /\ itemsUsed <= QueueItems /\ bytesUsed <= QueueBytes
    /\ \A l \in LinkIds : queued[l].messages <= LinkMessages /\ queued[l].bytes <= LinkBytes

\* A registration never costs a peer its last link: register_authenticated takes
\* the old link out before it asks for the new lease, and the lease is there.
RegisterKeepsPeerLinked ==
    [][\A h \in Handshakers, p \in Peers :
          hs[h].pc = "resolved" /\ hs'[h].pc = "registered" /\ peers[p] # {} => peers'[p] # {}]_vars

=============================================================================
