----------------------- MODULE TransportManagerProofs -----------------------
(***************************************************************************)
(* Proofs about TransportManager, for any number of handshakers, senders,  *)
(* peers, link identifiers, message sizes and ceilings: the index per peer *)
(* is exact, a registration never costs a peer its last link, every lease  *)
(* and every queue counter is exact, and no ceiling is exceeded.           *)
(***************************************************************************)
EXTENDS TransportManager, FiniteSetTheorems, TLAPS

\* The time the solvers have for a leaf; one that is interrupted is tried again.
USE SMTT(30), Z3T(30), ZenonT(30), SMTT(40)

Handshake == [pc : HsPlaces, c : Candidate, duplicate : Decisions]

Types ==
    /\ links \in [LinkIds -> Link]
    /\ peers \in [Peers -> SUBSET LinkIds]
    /\ nextLink \in 1 .. MaxLinkId + 1
    /\ hs \in [Handshakers -> Handshake]

\* The handshakers that still hold a link identifier they may register.
Pending(h) == hs[h].pc \in {"pending", "resolved"}

\* Identifiers are drawn once: those of links and of pending candidates are all
\* different and below the counter.
IdsFresh ==
    /\ \A l \in Live : l < nextLink
    /\ \A h \in Handshakers : Pending(h) =>
          /\ hs[h].c.id \in LinkIds \ Live
          /\ hs[h].c.id < nextLink
          /\ \A k \in Handshakers : Pending(k) /\ k # h => hs[k].c.id # hs[h].c.id

LinksBounded == activeUsed = Cardinality(Live) /\ activeUsed <= ActiveLimit

LinkInv == Types /\ IdsFresh /\ LinksBounded /\ IndexConsistent

-----------------------------------------------------------------------------

\* The links in the map are finitely many.
LEMMA LiveFinite ==
    /\ IsFiniteSet(Live) /\ Cardinality(Live) \in Nat
    /\ Live \subseteq LinkIds
  <1>1. IsFiniteSet(LinkIds)
    BY FS_Interval, LinkAssumption DEF LinkIds
  <1>2. Live \subseteq LinkIds
    BY DEF Live
  <1>3. QED
    BY <1>1, <1>2, FS_Subset, FS_CardinalityType

\* A nonempty set of identifiers has a smallest one.
LEMMA LeastExists ==
  ASSUME NEW S \in SUBSET Nat, S # {}
  PROVE  \E l \in S : \A m \in S : l <= m
  <1> DEFINE Below == {ss \in Nat \X Nat : ss[1] < ss[2]}
  <1>1. IsWellFoundedOn(Below, Nat)
    BY NatLessThanWellFounded DEF OpToRel
  <1>2. \A m, l \in Nat : m < l => <<m, l>> \in Below
    OBVIOUS
  <1> HIDE DEF Below
  <1>3. PICK l \in S : \A m \in S : ~(<<m, l>> \in Below)
    BY <1>1, WFMin, ZenonT(60)
  <1>4. ASSUME NEW m \in S PROVE l <= m
    <2>1. m \in Nat /\ l \in Nat /\ ~(m < l)
      BY <1>2, <1>3, ZenonT(60)
    <2>2. QED
      BY <2>1
  <1>5. QED
    BY <1>4

\* A peer that has links has a first one (the BTreeSet's smallest identifier).
LEMMA FirstLinkIn ==
  ASSUME Types, NEW p \in Peers, peers[p] # {}
  PROVE  FirstLink(p) \in peers[p]
  <1>1. peers[p] \in SUBSET Nat
    BY DEF Types, LinkIds
  <1>2. QED
    BY <1>1, LeastExists DEF FirstLink

\* The policy is always one of the four decisions.
LEMMA Decided ==
  ASSUME NEW c
  PROVE  DuplicateResolution(c) \in Decisions
  BY DEF DuplicateResolution, Decide, Decisions

\* What register_authenticated may do: replace the first link, add one within
\* the ceiling, or nothing.  A link is retired only if its successor is accepted.
LEMMA RegisterCases ==
  ASSUME LinkInv, NEW c, c.peer \in Peers, NEW duplicate \in Decisions
  PROVE  LET accepted == RegisterOutcome(c, duplicate) \in Accepted
             retired == Retired(c, duplicate)
         IN \/ ~accepted /\ retired = {}
            \/ /\ accepted /\ retired = {} /\ activeUsed < ActiveLimit
               /\ Cardinality(peers[c.peer]) < PeerLimit
            \/ /\ accepted /\ retired = {FirstLink(c.peer)}
               /\ FirstLink(c.peer) \in peers[c.peer]
  <1>1. activeUsed \in Nat /\ activeUsed <= ActiveLimit /\ ActiveLimit \in Nat
    BY LiveFinite, LinkAssumption DEF LinkInv, LinksBounded
  <1>a. PeerLimit \in Nat \ {0} /\ Cardinality(peers[c.peer]) \in Nat
    <2>1. peers[c.peer] \subseteq Live
      BY DEF LinkInv, IndexConsistent
    <2>2. QED
      BY <2>1, LiveFinite, FS_Subset, FS_CardinalityType, LinkAssumption
  <1>2. CASE Occupied(c) /\ duplicate \in {"RejectNew", "RetainExistingDrainNew"}
    BY <1>2 DEF RegisterOutcome, Retired, Accepted
  <1>3. CASE Occupied(c) /\ duplicate = "ReplaceExisting"
    <2>1. FirstLink(c.peer) \in peers[c.peer]
      BY <1>3, FirstLinkIn DEF Occupied, LinkInv
    <2>2. RegisterOutcome(c, duplicate) = "ReplaceExisting"
      BY <1>1, <1>3 DEF RegisterOutcome
    <2>3. QED
      BY <1>3, <2>1, <2>2 DEF Retired, Accepted
  <1>4. CASE Occupied(c) /\ duplicate = "AcceptNew"
    BY <1>a, <1>4 DEF RegisterOutcome, Retired, Accepted
  <1>5. CASE ~Occupied(c)
    <2>1. Cardinality(peers[c.peer]) = 0
      BY <1>5, FS_EmptySet DEF Occupied
    <2>2. QED
      BY <1>a, <1>5, <2>1 DEF RegisterOutcome, Retired, Accepted
  <1>6. QED
    BY <1>2, <1>3, <1>4, <1>5 DEF Decisions

\* Registering a fresh candidate keeps the map, the index and the budget
\* together, and leaves the peer linked.
LEMMA RegisterKeeps ==
  ASSUME LinkInv, NEW h \in Handshakers, RegisterStep(h)
  PROVE  LinkInv' /\ \A p \in Peers : peers[p] # {} => peers'[p] # {}
  <1> DEFINE c == hs[h].c
             accepted == RegisterOutcome(c, hs[h].duplicate) \in Accepted
             retired == Retired(c, hs[h].duplicate)
  <1>1. /\ c.id \in LinkIds \ Live /\ c.peer \in Peers /\ c.dir \in Directions
        /\ c.id < nextLink
        /\ hs[h].duplicate \in Decisions
        /\ Pending(h)
    BY DEF RegisterStep, LinkInv, IdsFresh, Pending, Types, Handshake, Candidate
  <1>2. \/ ~accepted /\ retired = {}
        \/ accepted /\ retired = {} /\ activeUsed < ActiveLimit
        \/ /\ accepted /\ retired = {FirstLink(c.peer)}
           /\ FirstLink(c.peer) \in peers[c.peer]
    BY <1>1, RegisterCases
  <1>0. retired \subseteq {l \in Live : links[l].peer = c.peer}
    BY <1>1, <1>2 DEF LinkInv, IndexConsistent
  <1> DEFINE new == [peer |-> c.peer, dir |-> c.dir, state |-> "Authenticated"]
  <1>3. /\ links' = [l \in LinkIds |-> IF accepted /\ l = c.id THEN new
                                      ELSE IF l \in retired THEN NoLink ELSE links[l]]
        /\ peers' = [peers EXCEPT ![c.peer] =
                       (@ \ retired) \cup (IF accepted THEN {c.id} ELSE {})]
        /\ activeUsed' = (activeUsed - Cardinality(retired)) + (IF accepted THEN 1 ELSE 0)
    <2>1. Register(c, hs[h].duplicate)
      BY DEF RegisterStep
    <2>2. c.id \notin retired
      BY <1>0, <1>1
    <2> HIDE DEF c, retired, accepted
    <2>3. QED
      BY <2>1, <2>2 DEF Register, c, retired, accepted
  <1>4. /\ nextLink' = nextLink
        /\ hs' = [hs EXCEPT ![h].pc = "registered"]
    BY DEF RegisterStep
  <1>5. /\ hs' \in [Handshakers -> Handshake]
        /\ ~Pending(h)'
        /\ \A k \in Handshakers : k # h => hs'[k] = hs[k]
    BY <1>4 DEF LinkInv, Types, Handshake, Pending, HsPlaces
  <1> HIDE DEF accepted, retired, c
  <1>6. NoLink \in Link /\ NoLink.state = "none"
    BY LinkAssumption DEF NoLink, Link, Directions
  <1>7. new \in Link /\ new.state # "none" /\ new.peer = c.peer
    BY <1>1 DEF Link, LinkStates
  <1> HIDE DEF new
  <1>9. Live' = (Live \ retired) \cup (IF accepted THEN {c.id} ELSE {})
    BY <1>1, <1>3, <1>6, <1>7, <1>0 DEF Live
  <1>10. links' \in [LinkIds -> Link]
    BY <1>3, <1>6, <1>7 DEF LinkInv, Types
  <1>11. peers' \in [Peers -> SUBSET LinkIds]
    BY <1>1, <1>3 DEF LinkInv, Types
  <1>12. IdsFresh'
    <2>1. \A l \in Live' : l < nextLink'
      BY <1>1, <1>4, <1>9 DEF IdsFresh, LinkInv
    <2>2. ASSUME NEW k \in Handshakers, Pending(k)'
          PROVE  /\ k # h /\ Pending(k) /\ hs'[k] = hs[k]
                 /\ hs[k].c.id \in LinkIds \ Live'
                 /\ hs[k].c.id < nextLink'
      <3>1. k # h /\ hs'[k] = hs[k] /\ Pending(k)
        BY <1>5, <2>2 DEF Pending
      <3>2. hs[k].c.id # c.id /\ hs[k].c.id \in LinkIds \ Live /\ hs[k].c.id < nextLink
        BY <1>1, <3>1 DEF LinkInv, IdsFresh, c
      <3>3. QED
        BY <1>4, <1>9, <3>1, <3>2
    <2>3. QED
      BY <2>1, <2>2 DEF IdsFresh, LinkInv
  <1>13. LinksBounded'
    <2>1. activeUsed = Cardinality(Live) /\ activeUsed \in Nat /\ ActiveLimit \in Nat
          /\ activeUsed <= ActiveLimit /\ IsFiniteSet(Live)
      BY LiveFinite, LinkAssumption DEF LinkInv, LinksBounded
    <2>2. CASE ~accepted /\ retired = {}
      BY <1>3, <1>9, <2>1, <2>2, FS_EmptySet DEF LinksBounded
    <2>3. CASE accepted /\ retired = {} /\ activeUsed < ActiveLimit
      <3>1. Live' = Live \cup {c.id} /\ c.id \notin Live
        BY <1>1, <1>9, <2>3
      <3>2. Cardinality(Live') = Cardinality(Live) + 1
        BY <3>1, <2>1, FS_AddElement, ZenonT(60)
      <3>3. QED
        BY <1>3, <2>1, <2>3, <3>2, FS_EmptySet DEF LinksBounded
    <2>4. CASE accepted /\ retired = {FirstLink(c.peer)}
      <3> DEFINE f == FirstLink(c.peer)
      <3>1. f \in Live /\ c.id \notin Live \ {f} /\ Live' = (Live \ {f}) \cup {c.id}
        BY <1>1, <1>0, <1>9, <2>4
      <3> HIDE DEF f
      <3>2. IsFiniteSet(Live \ {f}) /\ Cardinality(Live \ {f}) = Cardinality(Live) - 1
        BY <3>1, <2>1, FS_RemoveElement
      <3>3. Cardinality(Live') = Cardinality(Live \ {f}) + 1
        BY <3>1, <3>2, FS_AddElement, ZenonT(60)
      <3>4. Cardinality(retired) = 1
        BY <2>4, FS_Singleton
      <3>5. QED
        BY <1>3, <2>1, <2>4, <3>2, <3>3, <3>4 DEF LinksBounded
    <2>5. QED
      BY <1>2, <2>2, <2>3, <2>4
  <1>14. IndexConsistent'
    <2> SUFFICES ASSUME NEW p \in Peers
                 PROVE  peers'[p] = {l \in Live' : links'[l].peer = p}
      BY DEF IndexConsistent
    <2>1. peers[p] = {l \in Live : links[l].peer = p}
      BY DEF LinkInv, IndexConsistent
    <2>2. \A l \in Live \ retired : links'[l] = links[l] /\ l # c.id
      BY <1>1, <1>3, LiveFinite
    <2>3. accepted => links'[c.id].peer = c.peer
      BY <1>1, <1>3, <1>7
    <2>4. peers'[p] = IF p = c.peer THEN (peers[p] \ retired) \cup (IF accepted THEN {c.id} ELSE {})
                      ELSE peers[p]
      BY <1>1, <1>3, ZenonT(60) DEF LinkInv, Types
    <2>5. QED
      BY <1>0, <1>9, <2>1, <2>2, <2>3, <2>4
  <1>15. \A p \in Peers : peers[p] # {} => peers'[p] # {}
    BY <1>1, <1>2, <1>3 DEF LinkInv, Types
  <1>16. QED
    BY <1>4, <1>5, <1>10, <1>11, <1>12, <1>13, <1>14, <1>15 DEF LinkInv, Types

\* Closing a link takes it out of the map, the index and the budget together.
LEMMA CloseKeeps ==
  ASSUME LinkInv, NEW l \in Live, Close(l)
  PROVE  LinkInv'
  <1>1. /\ links' = [links EXCEPT ![l] = NoLink]
        /\ peers' = [peers EXCEPT ![links[l].peer] = @ \ {l}]
        /\ activeUsed' = activeUsed - 1
        /\ nextLink' = nextLink /\ hs' = hs
    BY DEF Close, CloseLink
  <1>2. l \in LinkIds /\ links[l] \in Link /\ links[l].peer \in Peers
    BY LiveFinite DEF LinkInv, Types, Link
  <1>3. NoLink \in Link /\ NoLink.state = "none"
    BY LinkAssumption DEF NoLink, Link, Directions
  <1>4. Live' = Live \ {l} /\ \A m \in Live' : links'[m] = links[m]
    BY <1>1, <1>2, <1>3 DEF Live, LinkInv, Types
  <1>5. Types'
    BY <1>1, <1>2, <1>3 DEF LinkInv, Types
  <1>6. IdsFresh'
    BY <1>1, <1>4 DEF LinkInv, IdsFresh, Pending
  <1>7. LinksBounded'
    <2>1. Cardinality(Live') = Cardinality(Live) - 1
      BY <1>4, LiveFinite, FS_RemoveElement, ZenonT(60)
    <2>2. QED
      BY <1>1, <2>1, LiveFinite, LinkAssumption DEF LinkInv, LinksBounded
  <1>8. IndexConsistent'
    BY <1>1, <1>2, <1>4 DEF LinkInv, IndexConsistent, Types
  <1>9. QED
    BY <1>5, <1>6, <1>7, <1>8 DEF LinkInv

\* A lifecycle transition changes a link's state and nothing else.
LEMMA TransitionKeeps ==
  ASSUME LinkInv, NEW l \in Live, NEW next \in LinkStates, Transition(l, next)
  PROVE  LinkInv'
  <1>1. /\ links' = [links EXCEPT ![l].state = next]
        /\ UNCHANGED <<peers, nextLink, activeUsed, hs>>
    BY DEF Transition
  <1>2. l \in LinkIds /\ links[l] \in Link /\ next # "none"
    BY LiveFinite DEF LinkInv, Types, LinkStates
  <1>3. links' \in [LinkIds -> Link]
    BY <1>1, <1>2 DEF LinkInv, Types, Link
  <1>4. Live' = Live /\ \A m \in LinkIds : links'[m].peer = links[m].peer
    BY <1>1, <1>2 DEF Live, LinkInv, Types, Link
  <1>5. IndexConsistent'
    BY <1>1, <1>4, LiveFinite DEF LinkInv, IndexConsistent
  <1>6. QED
    BY <1>1, <1>3, <1>4, <1>5 DEF LinkInv, Types, IdsFresh, Pending, LinksBounded

\* A handshaker that does not register leaves the links alone and draws fresh
\* identifiers only.
LEMMA HandshakeKeeps ==
  ASSUME LinkInv, NEW h \in Handshakers,
         \/ \E p \in Peers, d \in Directions : Begin(h, p, d)
         \/ Resolve(h) \/ RegisterRefused(h) \/ ReleasePending(h)
  PROVE  LinkInv' /\ UNCHANGED <<links, peers>>
  <1>1. UNCHANGED <<links, peers, activeUsed>>
    BY DEF Begin, Started, Resolve, RegisterRefused, ReleasePending, linkVars
  <1>2. Live' = Live
    BY <1>1 DEF Live
  <1>3. LinksBounded' /\ IndexConsistent'
    BY <1>1, <1>2 DEF LinkInv, LinksBounded, IndexConsistent
  <1>4. Types' /\ IdsFresh'
    <2>1. ASSUME NEW p \in Peers, NEW d \in Directions, Begin(h, p, d)
          PROVE  Types' /\ IdsFresh'
      <3>1. /\ hs' = [hs EXCEPT ![h] = [pc |-> "pending",
                         c |-> [id |-> nextLink, peer |-> p, dir |-> d],
                         duplicate |-> "AcceptNew"]]
            /\ nextLink' = nextLink + 1 /\ nextLink <= MaxLinkId
        BY <2>1 DEF Begin, Started
      <3>2. Types'
        <4>1. nextLink \in LinkIds /\ nextLink' \in 1 .. MaxLinkId + 1
          BY <3>1, LinkAssumption DEF LinkInv, Types, LinkIds
        <4>2. QED
          BY <1>1, <3>1, <4>1 DEF LinkInv, Types, Handshake, Candidate, HsPlaces, Decisions
      <3>3. nextLink \in LinkIds \ Live
        BY <3>1, LinkAssumption DEF LinkInv, Types, IdsFresh, LinkIds
      <3>4. /\ hs'[h].c.id = nextLink
            /\ \A k \in Handshakers : k # h => hs'[k] = hs[k]
        BY <3>1 DEF LinkInv, Types
      <3>5. \A k \in Handshakers : k # h /\ Pending(k)' =>
               /\ hs'[k].c.id \in LinkIds \ Live /\ hs'[k].c.id < nextLink
               /\ Pending(k)
        BY <3>4 DEF LinkInv, IdsFresh, Pending
      <3>6. \A l \in Live : l < nextLink + 1 /\ l \in Nat
        BY LiveFinite DEF LinkInv, IdsFresh, Types, LinkIds
      <3>7. \A k \in Handshakers : Pending(k)' =>
               /\ hs'[k].c.id \in LinkIds \ Live' /\ hs'[k].c.id < nextLink'
        BY <1>2, <3>1, <3>3, <3>4, <3>5 DEF LinkInv, Types, LinkIds
      <3>8. \A k, m \in Handshakers : Pending(k)' /\ Pending(m)' /\ m # k =>
               hs'[m].c.id # hs'[k].c.id
        <4> SUFFICES ASSUME NEW k \in Handshakers, NEW m \in Handshakers,
                            Pending(k)', Pending(m)', m # k
                     PROVE  hs'[m].c.id # hs'[k].c.id
          OBVIOUS
        <4>1. CASE k # h /\ m # h
          BY <4>1, <3>4, <3>5 DEF LinkInv, IdsFresh
        <4>2. CASE k = h \/ m = h
          BY <4>2, <3>4, <3>5 DEF LinkInv, Types, LinkIds
        <4>3. QED
          BY <4>1, <4>2
      <3>9. QED
        BY <1>2, <3>1, <3>2, <3>6, <3>7, <3>8 DEF IdsFresh
    <2>2. CASE Resolve(h) \/ RegisterRefused(h) \/ ReleasePending(h)
      <3>1. nextLink' = nextLink
        BY <2>2 DEF Resolve, RegisterRefused, ReleasePending, linkVars
      <3>2. /\ hs' \in [Handshakers -> Handshake]
            /\ \A k \in Handshakers : Pending(k)' => Pending(k) /\ hs'[k].c = hs[k].c
        <4>1. CASE Resolve(h)
          BY <4>1, Decided DEF Resolve, LinkInv, Types, Handshake, HsPlaces, Pending
        <4>2. CASE RegisterRefused(h)
          BY <4>2 DEF RegisterRefused, LinkInv, Types, Handshake, HsPlaces, Pending
        <4>3. CASE ReleasePending(h)
          BY <4>3, LinkAssumption DEF ReleasePending, IdleHandshaker, NoCandidate,
             LinkInv, Types, Handshake, HsPlaces, Pending, Candidate, LinkIds, Directions, Decisions
        <4>4. QED
          BY <2>2, <4>1, <4>2, <4>3
      <3>3. QED
        BY <1>1, <1>2, <3>1, <3>2 DEF LinkInv, Types, IdsFresh
    <2>3. QED
      BY <2>1, <2>2
  <1>5. QED
    BY <1>1, <1>3, <1>4 DEF LinkInv

\* Senders and stuttering leave links and handshakes alone.
LEMMA OthersKeep ==
  ASSUME LinkInv, UNCHANGED <<linkVars, hs>>
  PROVE  LinkInv'
  BY DEF LinkInv, Types, IdsFresh, Pending, LinksBounded, IndexConsistent, Live, linkVars

\* What a step of anyone else than the handshakers amounts to.
LEMMA SenderFrame ==
  ASSUME NEW s \in Senders, SenderNext(s)
  PROVE  UNCHANGED <<linkVars, hs>>
  BY ZenonT(60) DEF SenderNext, Capability, Check, Admit, Count, ReleaseLease, Uncount

\* Every step keeps the invariant.
LEMMA LinkStep == LinkInv /\ [Next]_vars => LinkInv'
  <1> SUFFICES ASSUME LinkInv, [Next]_vars PROVE LinkInv'
    OBVIOUS
  <1>1. ASSUME NEW h \in Handshakers, HandshakerNext(h) PROVE LinkInv'
    BY <1>1, RegisterKeeps, HandshakeKeeps DEF HandshakerNext
  <1>2. ASSUME NEW s \in Senders, SenderNext(s) PROVE LinkInv'
    BY <1>2, SenderFrame, OthersKeep
  <1>3. CASE UNCHANGED vars
    BY <1>3, OthersKeep DEF vars
  <1>4. QED
    BY <1>1, <1>2, <1>3, CloseKeeps, TransitionKeeps DEF Next

(***************************************************************************)
(* Map, index, budget and identifiers agree in every reachable state, with *)
(* any number of concurrent handshakes acting on stale decisions.          *)
(***************************************************************************)
THEOREM LinkInvariant == Spec => []LinkInv
  <1>1. Init => LinkInv
    <2> SUFFICES ASSUME Init PROVE LinkInv
      OBVIOUS
    <2>1. Live = {}
      BY DEF Init, LinkInit, Live, NoLink
    <2>2. Types
      BY LinkAssumption DEF Init, LinkInit, Types, NoLink, Link, Directions, Handshake,
         IdleHandshaker, NoCandidate, Candidate, LinkIds, HsPlaces, Decisions
    <2>3. IdsFresh
      BY <2>1 DEF Init, IdsFresh, Pending, IdleHandshaker
    <2>4. LinksBounded
      BY <2>1, FS_EmptySet, LinkAssumption DEF Init, LinkInit, LinksBounded
    <2>5. IndexConsistent
      BY <2>1 DEF Init, LinkInit, IndexConsistent
    <2>6. QED
      BY <2>2, <2>3, <2>4, <2>5 DEF LinkInv
  <1>2. QED
    BY <1>1, LinkStep, PTL DEF Spec

(***************************************************************************)
(* The per-peer index holds exactly the links of the map, although         *)
(* duplicate_resolution and register_authenticated are separate critical   *)
(* sections and links close in between.                                    *)
(***************************************************************************)
THEOREM IndexIsExact == Spec => []IndexConsistent
  <1>1. LinkInv => IndexConsistent
    BY DEF LinkInv
  <1>2. QED
    BY <1>1, LinkInvariant, PTL

(***************************************************************************)
(* A registration never costs a peer its last link: when the old link is   *)
(* removed first, the lease for the new one is there.                      *)
(***************************************************************************)
THEOREM PeersStayLinked == Spec => RegisterKeepsPeerLinked
  <1> DEFINE Linked == \A h \in Handshakers, p \in Peers :
               hs[h].pc = "resolved" /\ hs'[h].pc = "registered" /\ peers[p] # {}
                 => peers'[p] # {}
  <1>1. LinkInv /\ [Next]_vars => Linked
    <2> SUFFICES ASSUME LinkInv, [Next]_vars,
                        NEW h \in Handshakers, NEW p \in Peers,
                        hs[h].pc = "resolved", hs'[h].pc = "registered", peers[p] # {}
                 PROVE  peers'[p] # {}
      OBVIOUS
    <2>1. ASSUME NEW k \in Handshakers, HandshakerNext(k) PROVE peers'[p] # {}
      BY <2>1, RegisterKeeps, HandshakeKeeps DEF HandshakerNext
    <2>2. hs' # hs
      OBVIOUS
    <2>3. QED
      BY <2>1, <2>2, SenderFrame DEF Next, vars, Close, Transition
  <1>2. LinkInv /\ [Next]_vars => [Linked]_vars
    BY <1>1
  <1>3. QED
    BY <1>2, LinkInvariant, PTL DEF Spec, RegisterKeepsPeerLinked

-----------------------------------------------------------------------------
(* Counting: what a set of senders is charged.                             *)

\* One element per byte of the messages of S, with the sizes of f.
Bytes(S, f) == UNION {{s} \X (1 .. f[s].size) : s \in S}

\* Finitely many messages have finitely many bytes.
LEMMA BytesFinite ==
  ASSUME NEW S, IsFiniteSet(S), NEW f, \A s \in S : f[s].size \in Nat
  PROVE  IsFiniteSet(Bytes(S, f)) /\ Cardinality(Bytes(S, f)) \in Nat
  <1> DEFINE B == [s \in S |-> {s} \X (1 .. f[s].size)]
             T == {B[s] : s \in S}
  <1>1. IsFiniteSet(T)
    <2>1. B \in Surjection(S, T)
      BY ZenonT(60) DEF Surjection
    <2>2. QED
      BY <2>1, FS_Surjection
  <1>2. ASSUME NEW b \in T PROVE IsFiniteSet(b)
    <2>1. PICK s \in S : b = {s} \X (1 .. f[s].size)
      OBVIOUS
    <2>2. f[s].size \in Int /\ 1 \in Int
      OBVIOUS
    <2>3. IsFiniteSet(1 .. f[s].size)
      BY <2>2, FS_Interval
    <2>4. QED
      BY <2>1, <2>3, FS_Singleton, FS_Product, ZenonT(60)
  <1>3. Bytes(S, f) = UNION T
    BY DEF Bytes
  <1> HIDE DEF T
  <1>4. QED
    BY <1>1, <1>2, <1>3, FS_UNION, FS_CardinalityType

\* The bytes of messages that keep their sizes stay the same.
LEMMA BytesSame ==
  ASSUME NEW S, NEW f, NEW g, \A s \in S : g[s].size = f[s].size
  PROVE  Bytes(S, g) = Bytes(S, f)
  BY DEF Bytes

\* One message more adds its size.
LEMMA BytesAdd ==
  ASSUME NEW f, NEW S, IsFiniteSet(S), \A s \in S : f[s].size \in Nat,
         NEW x, x \notin S, f[x].size \in Nat
  PROVE  Cardinality(Bytes(S \cup {x}, f)) = Cardinality(Bytes(S, f)) + f[x].size
  <1> DEFINE A == Bytes(S, f)
             n == f[x].size
             X == {x} \X (1 .. n)
  <1>0. n \in Nat /\ n \in Int /\ 1 \in Int
    OBVIOUS
  <1>1. Bytes(S \cup {x}, f) = A \cup X
    BY DEF Bytes
  <1>2. A \cap X = {}
    BY DEF Bytes
  <1>3. IsFiniteSet(A) /\ Cardinality(A) \in Nat
    BY BytesFinite
  <1> HIDE DEF n
  <1>4. IsFiniteSet(X) /\ Cardinality(X) = n
    <2>1. IsFiniteSet(1 .. n) /\ Cardinality(1 .. n) = n
      BY <1>0, FS_Interval
    <2>2. IsFiniteSet({x}) /\ Cardinality({x}) = 1
      BY FS_Singleton, ZenonT(60)
    <2>3. IsFiniteSet(X) /\ Cardinality(X) = Cardinality({x}) * Cardinality(1 .. n)
      BY <2>1, <2>2, FS_Product, ZenonT(60)
    <2>4. QED
      BY ONLY <1>0, <2>1, <2>2, <2>3, SMTT(30), Z3T(30)
  <1> HIDE DEF A, X
  <1>5. Cardinality(A \cup X) = Cardinality(A) + Cardinality(X) - Cardinality(A \cap X)
    BY <1>3, <1>4, FS_Union, ZenonT(60)
  <1>6. Cardinality(A \cap X) = 0
    BY <1>2, FS_EmptySet, ZenonT(60)
  <1>7. Cardinality(A \cup X) = Cardinality(A) + n
    BY ONLY <1>0, <1>3, <1>4, <1>5, <1>6, SMTT(30), Z3T(30)
  <1>8. QED
    BY <1>1, <1>7, ZenonT(60) DEF A, n

\* One message less takes its size away.
LEMMA BytesRemove ==
  ASSUME NEW f, NEW S, IsFiniteSet(S), \A s \in S : f[s].size \in Nat, NEW x \in S
  PROVE  /\ Cardinality(Bytes(S \ {x}, f)) = Cardinality(Bytes(S, f)) - f[x].size
         /\ f[x].size <= Cardinality(Bytes(S, f))
  <1> DEFINE R == S \ {x}
  <1>1. IsFiniteSet(R)
    BY FS_RemoveElement, ZenonT(60)
  <1>2. S = R \cup {x} /\ x \notin R /\ f[x].size \in Nat /\ \A s \in R : f[s].size \in Nat
    OBVIOUS
  <1> HIDE DEF R
  <1>3. Cardinality(Bytes(R \cup {x}, f)) = Cardinality(Bytes(R, f)) + f[x].size
    BY ONLY <1>1, <1>2, BytesAdd, SMTT(30), Z3T(30)
  <1>4. Cardinality(Bytes(R, f)) \in Nat
    BY ONLY <1>1, <1>2, BytesFinite, SMTT(30), Z3T(30)
  <1>5. Cardinality(Bytes(S, f)) = Cardinality(Bytes(R, f)) + f[x].size
    BY ONLY <1>2, <1>3, SMTT(30), Z3T(30)
  <1>6. QED
    BY ONLY <1>2, <1>4, <1>5, SMTT(30), Z3T(30) DEF R

-----------------------------------------------------------------------------
(* Deliveries.                                                             *)

Sender == [pc : SendPlaces, link : LinkIds, size : Nat]

DeliveryTypes ==
    /\ sends \in [Senders -> Sender]
    /\ queued \in [LinkIds -> [messages : Nat, bytes : Nat]]
    /\ itemsUsed \in Nat /\ bytesUsed \in Nat

\* The link of a delivery was registered once: its identifier is none that a
\* pending candidate could still register.
LinksDrawn ==
    \A s \in Senders : sends[s].pc # "idle" =>
        /\ sends[s].link < nextLink
        /\ \A h \in Handshakers : Pending(h) => hs[h].c.id # sends[s].link

\* The budget is charged for the leases held, within its limits.
Charged ==
    /\ itemsUsed = Cardinality(HoldingLease) /\ itemsUsed <= QueueItems
    /\ bytesUsed = BytesOf(HoldingLease) /\ bytesUsed <= QueueBytes

\* A link in the map counts its outstanding deliveries, within its limits.
Counted ==
    /\ \A l \in Live : /\ queued[l].messages = Cardinality(CountedOn(l))
                       /\ queued[l].bytes = BytesOf(CountedOn(l))
    /\ \A l \in LinkIds : queued[l].messages <= LinkMessages /\ queued[l].bytes <= LinkBytes

DeliveryInv == DeliveryTypes /\ LinksDrawn /\ Charged /\ Counted

\* The sets of senders counted here are finite.
LEMMA SendersFinite ==
  /\ IsFiniteSet(HoldingLease) /\ HoldingLease \subseteq Senders
  /\ \A l : IsFiniteSet(CountedOn(l)) /\ CountedOn(l) \subseteq Senders
  <1>1. HoldingLease \subseteq Senders /\ \A l : CountedOn(l) \subseteq Senders
    BY DEF HoldingLease, CountedOn
  <1>2. QED
    BY <1>1, FS_Subset, DeliveryAssumption

\* A sender that moves on keeps its link and its message.
LEMMA GotoIs ==
  ASSUME DeliveryTypes, NEW s \in Senders, NEW place \in SendPlaces, Goto(s, place)
  PROVE  /\ sends' \in [Senders -> Sender]
         /\ sends'[s].pc = place
         /\ sends'[s].link = sends[s].link /\ sends'[s].size = sends[s].size
         /\ \A t \in Senders \ {s} : sends'[t] = sends[t]
  BY DEF Goto, DeliveryTypes, Sender

\* A sender that gives up is idle again.
LEMMA GiveUpIs ==
  ASSUME DeliveryTypes, NEW s \in Senders, GiveUp(s)
  PROVE  /\ sends' \in [Senders -> Sender]
         /\ sends'[s].pc = "idle"
         /\ \A t \in Senders \ {s} : sends'[t] = sends[t]
  <1>1. IdleSender \in Sender /\ IdleSender.pc = "idle"
    BY LinkAssumption DEF IdleSender, Sender, SendPlaces, LinkIds
  <1>2. QED
    BY <1>1 DEF GiveUp, DeliveryTypes

\* The charge stays right while nobody gains or loses a lease.
LEMMA ChargeSame ==
  ASSUME DeliveryTypes, Charged, NEW s \in Senders,
         \A t \in Senders \ {s} : sends'[t] = sends[t],
         \/ sends[s].pc \notin {"admitted", "queued"} /\ sends'[s].pc \notin {"admitted", "queued"}
         \/ /\ sends[s].pc \in {"admitted", "queued"} /\ sends'[s].pc \in {"admitted", "queued"}
            /\ sends'[s].size = sends[s].size,
         UNCHANGED <<itemsUsed, bytesUsed>>
  PROVE  Charged'
  <1>1. HoldingLease' = HoldingLease /\ \A t \in HoldingLease : sends'[t].size = sends[t].size
    BY DEF HoldingLease
  <1>2. Bytes(HoldingLease, sends') = Bytes(HoldingLease, sends)
    BY <1>1, BytesSame
  <1>3. BytesOf(HoldingLease)' = BytesOf(HoldingLease)
    BY <1>1, <1>2 DEF BytesOf, Bytes
  <1>4. QED
    BY <1>1, <1>3 DEF Charged

\* A new lease is charged.
LEMMA ChargeAdd ==
  ASSUME DeliveryTypes, Charged, NEW s \in Senders,
         \A t \in Senders \ {s} : sends'[t] = sends[t],
         sends[s].pc \notin {"admitted", "queued"}, sends'[s].pc \in {"admitted", "queued"},
         sends'[s].size = sends[s].size,
         itemsUsed < QueueItems, bytesUsed + sends[s].size <= QueueBytes,
         itemsUsed' = itemsUsed + 1, bytesUsed' = bytesUsed + sends[s].size
  PROVE  Charged'
  <1>1. HoldingLease' = HoldingLease \cup {s} /\ s \notin HoldingLease
        /\ \A t \in HoldingLease : sends'[t].size = sends[t].size
    BY DEF HoldingLease
  <1>2. sends'[s].size \in Nat /\ \A t \in HoldingLease : sends[t].size \in Nat
    BY SendersFinite DEF DeliveryTypes, Sender
  <1>3. Cardinality(Bytes(HoldingLease \cup {s}, sends'))
          = Cardinality(Bytes(HoldingLease, sends)) + sends[s].size
    <2> DEFINE H == HoldingLease
               g == sends'
    <2>1. /\ IsFiniteSet(H) /\ s \notin H
          /\ g[s].size \in Nat /\ \A t \in H : g[t].size \in Nat
      BY <1>1, <1>2, SendersFinite
    <2>2. Bytes(H, g) = Bytes(H, sends)
      BY <1>1, BytesSame
    <2> HIDE DEF H, g
    <2>3. Cardinality(Bytes(H \cup {s}, g)) = Cardinality(Bytes(H, g)) + g[s].size
      BY ONLY <2>1, BytesAdd, SMTT(30), Z3T(30)
    <2>4. QED
      BY <2>2, <2>3 DEF H, g
  <1>4. BytesOf(HoldingLease)' = BytesOf(HoldingLease) + sends[s].size
    BY <1>1, <1>3 DEF BytesOf, Bytes
  <1>5. Cardinality(HoldingLease') = Cardinality(HoldingLease) + 1
    BY <1>1, SendersFinite, FS_AddElement, ZenonT(60)
  <1>6. QED
    BY <1>4, <1>5, DeliveryAssumption DEF Charged, DeliveryTypes

\* A lease given up is no longer charged.
LEMMA ChargeRemove ==
  ASSUME DeliveryTypes, Charged, NEW s \in Senders,
         \A t \in Senders \ {s} : sends'[t] = sends[t],
         sends[s].pc \in {"admitted", "queued"}, sends'[s].pc \notin {"admitted", "queued"},
         itemsUsed' = itemsUsed - 1, bytesUsed' = bytesUsed - sends[s].size
  PROVE  Charged' /\ itemsUsed' \in Nat /\ bytesUsed' \in Nat
  <1>1. HoldingLease' = HoldingLease \ {s} /\ s \in HoldingLease
        /\ \A t \in HoldingLease \ {s} : sends'[t].size = sends[t].size
    BY DEF HoldingLease
  <1>2. \A t \in HoldingLease : sends[t].size \in Nat
    BY SendersFinite DEF DeliveryTypes, Sender
  <1>3. /\ Cardinality(Bytes(HoldingLease \ {s}, sends'))
             = Cardinality(Bytes(HoldingLease, sends)) - sends[s].size
        /\ sends[s].size <= Cardinality(Bytes(HoldingLease, sends))
    <2> DEFINE H == HoldingLease
               f == sends
    <2>1. IsFiniteSet(H) /\ s \in H /\ \A t \in H : f[t].size \in Nat
      BY <1>1, <1>2, SendersFinite
    <2>2. Bytes(H \ {s}, sends') = Bytes(H \ {s}, f)
      BY <1>1, BytesSame
    <2> HIDE DEF H, f
    <2>3. /\ Cardinality(Bytes(H \ {s}, f)) = Cardinality(Bytes(H, f)) - f[s].size
          /\ f[s].size <= Cardinality(Bytes(H, f))
      BY ONLY <2>1, BytesRemove, SMTT(30), Z3T(30)
    <2>4. QED
      BY <2>2, <2>3 DEF H, f
  <1>4. /\ BytesOf(HoldingLease)' = BytesOf(HoldingLease) - sends[s].size
        /\ sends[s].size <= BytesOf(HoldingLease)
    BY <1>1, <1>3 DEF BytesOf, Bytes
  <1>5. Cardinality(HoldingLease') = Cardinality(HoldingLease) - 1
    BY <1>1, SendersFinite, FS_RemoveElement, ZenonT(60)
  <1>6. Cardinality(HoldingLease) # 0 /\ sends[s].size \in Nat
    BY <1>1, <1>2, SendersFinite, FS_EmptySet
  <1>7. itemsUsed \in Nat \ {0} /\ bytesUsed \in Nat /\ sends[s].size <= bytesUsed
        /\ QueueItems \in Nat /\ QueueBytes \in Nat
    BY <1>4, <1>6, DeliveryAssumption DEF Charged, DeliveryTypes
  <1>8. itemsUsed' \in Nat /\ bytesUsed' \in Nat /\ itemsUsed' <= itemsUsed /\ bytesUsed' <= bytesUsed
    BY <1>6, <1>7
  <1>9. QED
    BY <1>4, <1>5, <1>7, <1>8 DEF Charged

\* The counters stay right while no delivery is counted or uncounted.
LEMMA CountSame ==
  ASSUME DeliveryTypes, Counted, NEW s \in Senders,
         \A t \in Senders \ {s} : sends'[t] = sends[t],
         \/ sends[s].pc \notin {"queued", "releasing"} /\ sends'[s].pc \notin {"queued", "releasing"}
         \/ /\ sends[s].pc \in {"queued", "releasing"} /\ sends'[s].pc \in {"queued", "releasing"}
            /\ sends'[s].link = sends[s].link /\ sends'[s].size = sends[s].size,
         Live' = Live, queued' = queued
  PROVE  Counted'
  <1>1. ASSUME NEW l \in Live
        PROVE  CountedOn(l)' = CountedOn(l) /\ BytesOf(CountedOn(l))' = BytesOf(CountedOn(l))
    <2>1. CountedOn(l)' = CountedOn(l) /\ \A t \in CountedOn(l) : sends'[t].size = sends[t].size
      BY DEF CountedOn
    <2>2. Bytes(CountedOn(l), sends') = Bytes(CountedOn(l), sends)
      BY <2>1, BytesSame
    <2>3. QED
      BY <2>1, <2>2, ZenonT(60) DEF BytesOf, Bytes
  <1>2. QED
    BY <1>1 DEF Counted

\* The second check counts one delivery on its link.
LEMMA CountAdd ==
  ASSUME DeliveryTypes, Counted, NEW s \in Senders, NEW l \in LinkIds, l = sends[s].link,
         HasRoom(l, sends[s].size),
         \A t \in Senders \ {s} : sends'[t] = sends[t],
         sends[s].pc \notin {"queued", "releasing"}, sends'[s].pc \in {"queued", "releasing"},
         sends'[s].link = sends[s].link, sends'[s].size = sends[s].size,
         Live' = Live,
         queued' = [queued EXCEPT ![l] =
                       [messages |-> @.messages + 1, bytes |-> @.bytes + sends[s].size]]
  PROVE  Counted' /\ queued' \in [LinkIds -> [messages : Nat, bytes : Nat]]
  <1> DEFINE C == CountedOn(l)
  <1>1. /\ l \in LinkIds /\ l \in Live /\ sends[s].size \in Nat
        /\ queued[l].messages \in Nat /\ queued[l].bytes \in Nat
        /\ queued[l].messages < LinkMessages /\ queued[l].bytes + sends[s].size <= LinkBytes
        /\ LinkMessages \in Nat /\ LinkBytes \in Nat
    BY DeliveryAssumption DEF HasRoom, DeliveryTypes, Sender
  <1>2. /\ queued'[l] = [messages |-> queued[l].messages + 1, bytes |-> queued[l].bytes + sends[s].size]
        /\ \A m \in LinkIds \ {l} : queued'[m] = queued[m]
        /\ queued' \in [LinkIds -> [messages : Nat, bytes : Nat]]
    BY <1>1 DEF DeliveryTypes
  <1>3. CountedOn(l)' = C \cup {s} /\ s \notin C /\ \A t \in C : sends'[t].size = sends[t].size
    BY DEF CountedOn
  <1>4. Cardinality(C \cup {s}) = Cardinality(C) + 1
    BY <1>3, SendersFinite, FS_AddElement, ZenonT(60)
  <1>5. Cardinality(Bytes(C \cup {s}, sends')) = Cardinality(Bytes(C, sends)) + sends[s].size
    <2> DEFINE g == sends'
    <2>1. /\ IsFiniteSet(C) /\ s \notin C
          /\ g[s].size \in Nat /\ \A t \in C : g[t].size \in Nat
      BY <1>1, <1>3, SendersFinite, ZenonT(60) DEF DeliveryTypes, Sender
    <2>2. Bytes(C, g) = Bytes(C, sends)
      BY <1>3, BytesSame
    <2> HIDE DEF C, g
    <2>3. Cardinality(Bytes(C \cup {s}, g)) = Cardinality(Bytes(C, g)) + g[s].size
      BY ONLY <2>1, BytesAdd, ZenonT(60)
    <2>4. QED
      BY <2>2, <2>3, ZenonT(60) DEF g
  <1>6. BytesOf(CountedOn(l))' = BytesOf(CountedOn(l)) + sends[s].size
    BY <1>3, <1>5, ZenonT(60) DEF BytesOf, Bytes
  <1>7. ASSUME NEW m \in Live, m # l
        PROVE  CountedOn(m)' = CountedOn(m) /\ BytesOf(CountedOn(m))' = BytesOf(CountedOn(m))
    <2>1. CountedOn(m)' = CountedOn(m) /\ \A t \in CountedOn(m) : sends'[t].size = sends[t].size
      BY <1>7, ZenonT(60) DEF CountedOn
    <2>2. Bytes(CountedOn(m), sends') = Bytes(CountedOn(m), sends)
      BY <2>1, BytesSame
    <2>3. QED
      BY <2>1, <2>2 DEF BytesOf, Bytes
  <1>8. \A m \in Live : m \in LinkIds
    BY LiveFinite
  <1>9. queued'[l].messages = queued[l].messages + 1 /\ queued'[l].bytes = queued[l].bytes + sends[s].size
    BY ONLY <1>2, SMTT(30), Z3T(30)
  <1>10. queued'[l].messages <= LinkMessages /\ queued'[l].bytes <= LinkBytes
    BY ONLY <1>1, <1>9, SMTT(30), Z3T(30)
  <1>11. queued[l].messages = Cardinality(C) /\ queued[l].bytes = BytesOf(CountedOn(l))
    BY <1>1 DEF Counted
  <1> HIDE DEF C
  <1>12. queued'[l].messages = Cardinality(CountedOn(l)') /\ queued'[l].bytes = BytesOf(CountedOn(l))'
    BY ONLY <1>3, <1>4, <1>6, <1>9, <1>11, ZenonT(60)
  <1>13. ASSUME NEW m \in Live'
         PROVE  /\ queued'[m].messages = Cardinality(CountedOn(m)')
                /\ queued'[m].bytes = BytesOf(CountedOn(m))'
    <2>1. CASE m = l
      BY <1>12, <2>1, ZenonT(60)
    <2>2. CASE m # l
      <3>1. m \in Live /\ queued'[m] = queued[m]
        BY <1>2, <1>8, <1>13, <2>2, ZenonT(60)
      <3>2. QED
        BY <1>7, <2>2, <3>1, ZenonT(60) DEF Counted
    <2>3. QED
      BY <2>1, <2>2, ZenonT(60)
  <1>14. \A m \in LinkIds : queued'[m].messages <= LinkMessages /\ queued'[m].bytes <= LinkBytes
    BY <1>2, <1>10 DEF Counted
  <1>15. QED
    BY <1>2, <1>13, <1>14, ZenonT(60) DEF Counted

\* Letting a delivery go uncounts it on its own link, and the subtraction does
\* not saturate.
LEMMA CountRemove ==
  ASSUME DeliveryTypes, Counted, NEW s \in Senders, NEW l \in LinkIds, l = sends[s].link,
         Uncount(s), Live' = Live,
         \A t \in Senders \ {s} : sends'[t] = sends[t], sends'[s].pc = "idle"
  PROVE  Counted' /\ queued' \in [LinkIds -> [messages : Nat, bytes : Nat]]
  <1> DEFINE C == CountedOn(l)
  <1>0. l \in LinkIds /\ sends[s].size \in Nat /\ sends[s].pc = "releasing"
    BY DEF DeliveryTypes, Sender, Uncount
  <1>1. ASSUME NEW m \in Live, m # l
        PROVE  CountedOn(m)' = CountedOn(m) /\ BytesOf(CountedOn(m))' = BytesOf(CountedOn(m))
    <2>1. CountedOn(m)' = CountedOn(m) /\ \A t \in CountedOn(m) : sends'[t].size = sends[t].size
      BY <1>1 DEF CountedOn
    <2>2. Bytes(CountedOn(m), sends') = Bytes(CountedOn(m), sends)
      BY <2>1, BytesSame
    <2>3. QED
      BY <2>1, <2>2, ZenonT(60) DEF BytesOf, Bytes
  <1>2. CASE l \notin Live
    <2>1. queued' = queued
      BY <1>2, ZenonT(60) DEF Uncount
    <2>2. QED
      BY <1>1, <1>2, <2>1 DEF Counted, DeliveryTypes
  <1>3. CASE l \in Live
    <2>1. CountedOn(l)' = C \ {s} /\ s \in C /\ \A t \in C \ {s} : sends'[t].size = sends[t].size
      BY <1>0 DEF CountedOn
    <2>2. Cardinality(C \ {s}) = Cardinality(C) - 1 /\ Cardinality(C) \in Nat \ {0}
      BY <2>1, SendersFinite, FS_RemoveElement, FS_EmptySet, FS_CardinalityType, ZenonT(60)
    <2>3. /\ Cardinality(Bytes(C \ {s}, sends')) = Cardinality(Bytes(C, sends)) - sends[s].size
          /\ sends[s].size <= Cardinality(Bytes(C, sends))
      <3> DEFINE f == sends
      <3>1. IsFiniteSet(C) /\ s \in C /\ \A t \in C : f[t].size \in Nat
        BY <2>1, SendersFinite DEF DeliveryTypes, Sender
      <3>2. Bytes(C \ {s}, sends') = Bytes(C \ {s}, f)
        BY <2>1, BytesSame
      <3> HIDE DEF C, f
      <3>3. /\ Cardinality(Bytes(C \ {s}, f)) = Cardinality(Bytes(C, f)) - f[s].size
            /\ f[s].size <= Cardinality(Bytes(C, f))
        BY ONLY <3>1, BytesRemove, SMTT(30), Z3T(30)
      <3>4. QED
        BY <3>2, <3>3 DEF f
    <2>4. /\ BytesOf(CountedOn(l))' = BytesOf(CountedOn(l)) - sends[s].size
          /\ sends[s].size <= BytesOf(CountedOn(l))
      BY <2>1, <2>3 DEF BytesOf, Bytes
    <2>5. /\ queued[l].messages = Cardinality(C) /\ queued[l].bytes = BytesOf(C)
          /\ queued[l].messages <= LinkMessages /\ queued[l].bytes <= LinkBytes
          /\ queued[l].messages \in Nat /\ queued[l].bytes \in Nat
      BY <1>0, <1>3 DEF Counted, DeliveryTypes
    <2>6. /\ queued' = [queued EXCEPT ![l] = [messages |-> queued[l].messages - 1,
                                              bytes |-> queued[l].bytes - sends[s].size]]
          /\ queued[l].messages - 1 \in Nat /\ queued[l].bytes - sends[s].size \in Nat
      <3>1. queued[l].messages >= 1 /\ queued[l].bytes >= sends[s].size
        BY <1>0, <2>2, <2>4, <2>5
      <3>2. /\ Less(queued[l].messages, 1) = queued[l].messages - 1
            /\ Less(queued[l].bytes, sends[s].size) = queued[l].bytes - sends[s].size
        BY <3>1 DEF Less
      <3>3. queued' = [queued EXCEPT ![l] = [messages |-> Less(@.messages, 1),
                                             bytes |-> Less(@.bytes, sends[s].size)]]
        BY <1>3 DEF Uncount
      <3>4. queued[l].messages - 1 \in Nat /\ queued[l].bytes - sends[s].size \in Nat
        BY <1>0, <2>5, <3>1
      <3>5. QED
        BY <3>2, <3>3, <3>4, ZenonT(60)
    <2>7. /\ queued'[l].messages = queued[l].messages - 1
          /\ queued'[l].bytes = queued[l].bytes - sends[s].size
          /\ \A m \in LinkIds \ {l} : queued'[m] = queued[m]
          /\ queued' \in [LinkIds -> [messages : Nat, bytes : Nat]]
      BY <1>0, <2>6 DEF DeliveryTypes
    <2>8. queued'[l].messages <= LinkMessages /\ queued'[l].bytes <= LinkBytes
      BY <1>0, <2>5, <2>7, DeliveryAssumption
    <2>9. queued'[l].messages = Cardinality(CountedOn(l)') /\ queued'[l].bytes = BytesOf(CountedOn(l))'
      BY <2>1, <2>2, <2>4, <2>5, <2>7
    <2>10. QED
      BY <1>1, <2>7, <2>8, <2>9, LiveFinite DEF Counted
  <1>4. QED
    BY <1>2, <1>3

\* The smallest link of a nonempty set is in it.
LEMMA MinIn ==
  ASSUME NEW S \in SUBSET Nat, S # {}
  PROVE  Min(S) \in S
  BY LeastExists, ZenonT(60) DEF Min

\* Every step of a sender keeps charges and counters exact.
LEMMA SenderKeeps ==
  ASSUME LinkInv, DeliveryInv, NEW s \in Senders, SenderNext(s)
  PROVE  DeliveryInv'
  <1>1. Live' = Live /\ nextLink' = nextLink /\ hs' = hs
    BY SenderFrame DEF linkVars, Live
  <1>2. \A h : Pending(h)' <=> Pending(h)
    BY <1>1 DEF Pending
  \* Links stay drawn when the sender keeps its link, gives up, or takes a live one.
  <1>3. ASSUME \A t \in Senders \ {s} : sends'[t] = sends[t],
               \/ sends'[s].pc = "idle"
               \/ sends[s].pc # "idle" /\ sends'[s].link = sends[s].link
               \/ sends'[s].link \in Live
        PROVE  LinksDrawn'
    <2> SUFFICES ASSUME NEW t \in Senders, sends'[t].pc # "idle"
                 PROVE  /\ sends'[t].link < nextLink
                        /\ \A h \in Handshakers : Pending(h) => hs[h].c.id # sends'[t].link
      BY <1>1, <1>2 DEF LinksDrawn
    <2>1. CASE t # s
      BY <1>3, <2>1 DEF DeliveryInv, LinksDrawn
    <2>2. CASE t = s
      BY <1>3, <2>2 DEF DeliveryInv, LinksDrawn, LinkInv, IdsFresh
    <2>3. QED
      BY <2>1, <2>2
  <1>4. ASSUME NEW p \in Peers, NEW size \in Sizes, Capability(s, p, size)
        PROVE  DeliveryInv'
    <2> DEFINE usable == {l \in peers[p] : links[l].state = "Authenticated"}
               new == [pc |-> "capable", link |-> Min(usable), size |-> size]
    <2>1. /\ sends[s].pc = "idle" /\ usable # {} /\ sends' = [sends EXCEPT ![s] = new]
          /\ UNCHANGED <<queued, itemsUsed, bytesUsed>>
      BY <1>4 DEF Capability
    <2>2. usable \subseteq Live /\ usable \in SUBSET Nat
      <3>1. usable \subseteq Live
        BY DEF LinkInv, IndexConsistent
      <3>2. LinkIds \subseteq Nat
        BY LinkAssumption DEF LinkIds
      <3>3. QED
        BY <3>1, <3>2, LiveFinite, ZenonT(60)
    <2>3. Min(usable) \in Live /\ Min(usable) \in LinkIds
      BY <2>1, <2>2, MinIn, LiveFinite
    <2> HIDE DEF usable
    <2>4. new \in Sender
      BY <2>3, DeliveryAssumption DEF Sender, SendPlaces
    <2>5. /\ sends' \in [Senders -> Sender] /\ sends'[s] = new
          /\ \A t \in Senders \ {s} : sends'[t] = sends[t]
      BY <2>1, <2>4 DEF DeliveryInv, DeliveryTypes
    <2>6. sends'[s].pc = "capable" /\ sends'[s].link \in Live
      BY <2>3, <2>5
    <2> HIDE DEF new
    <2>7. LinksDrawn'
      BY <1>3, <2>5, <2>6
    <2>8. Charged' /\ Counted'
      BY <1>1, <2>1, <2>5, <2>6, ChargeSame, CountSame DEF DeliveryInv
    <2>9. QED
      BY <2>1, <2>5, <2>7, <2>8 DEF DeliveryInv, DeliveryTypes
  <1>5. CASE Check(s)
    <2>1. sends[s].pc = "capable" /\ UNCHANGED <<queued, itemsUsed, bytesUsed>>
      BY <1>5, ZenonT(60) DEF Check
    <2>2. /\ sends' \in [Senders -> Sender]
          /\ \A t \in Senders \ {s} : sends'[t] = sends[t]
          /\ \/ sends'[s].pc = "idle"
             \/ sends'[s].pc = "checked" /\ sends'[s].link = sends[s].link
      BY <1>5, GotoIs, GiveUpIs DEF Check, SendPlaces, DeliveryInv
    <2>3. LinksDrawn'
      BY <1>3, <2>1, <2>2, ZenonT(60)
    <2>4. Charged' /\ Counted'
      BY <1>1, <2>1, <2>2, ChargeSame, CountSame DEF DeliveryInv
    <2>5. QED
      BY <2>1, <2>2, <2>3, <2>4 DEF DeliveryInv, DeliveryTypes
  <1>6. CASE Admit(s)
    <2>1. sends[s].pc = "checked" /\ queued' = queued
      BY <1>6 DEF Admit
    <2>2. CASE itemsUsed < QueueItems /\ bytesUsed + sends[s].size <= QueueBytes
      <3>1. /\ itemsUsed' = itemsUsed + 1 /\ bytesUsed' = bytesUsed + sends[s].size
            /\ Goto(s, "admitted")
        BY <1>6, <2>2 DEF Admit
      <3>2. /\ sends' \in [Senders -> Sender] /\ sends'[s].pc = "admitted"
            /\ sends'[s].link = sends[s].link /\ sends'[s].size = sends[s].size
            /\ \A t \in Senders \ {s} : sends'[t] = sends[t]
        BY <3>1, GotoIs DEF SendPlaces, DeliveryInv
      <3>3. LinksDrawn'
        BY <1>3, <2>1, <3>2, ZenonT(60)
      <3>4. Charged' /\ Counted'
        BY <1>1, <2>1, <2>2, <3>1, <3>2, ChargeAdd, CountSame DEF DeliveryInv
      <3>5. itemsUsed' \in Nat /\ bytesUsed' \in Nat
        BY <3>1 DEF DeliveryInv, DeliveryTypes, Sender
      <3>6. QED
        BY <2>1, <3>2, <3>3, <3>4, <3>5 DEF DeliveryInv, DeliveryTypes
    <2>3. CASE ~(itemsUsed < QueueItems /\ bytesUsed + sends[s].size <= QueueBytes)
      <3>1. GiveUp(s) /\ UNCHANGED <<itemsUsed, bytesUsed>>
        BY <1>6, <2>3 DEF Admit
      <3>2. /\ sends' \in [Senders -> Sender] /\ sends'[s].pc = "idle"
            /\ \A t \in Senders \ {s} : sends'[t] = sends[t]
        BY <3>1, GiveUpIs, ZenonT(60) DEF DeliveryInv
      <3>3. LinksDrawn' /\ Charged' /\ Counted'
        BY <1>1, <1>3, <2>1, <3>1, <3>2, ChargeSame, CountSame DEF DeliveryInv
      <3>4. QED
        BY <2>1, <3>1, <3>2, <3>3 DEF DeliveryInv, DeliveryTypes
    <2>4. QED
      BY <2>2, <2>3
  <1>7. CASE Count(s)
    <2>0. PICK l \in LinkIds : l = sends[s].link
      BY ZenonT(60) DEF DeliveryInv, DeliveryTypes, Sender
    <2>1. sends[s].pc = "admitted"
      BY <1>7 DEF Count
    <2>2. CASE HasRoom(l, sends[s].size)
      <3>1. /\ queued' = [queued EXCEPT ![l] =
                             [messages |-> @.messages + 1, bytes |-> @.bytes + sends[s].size]]
            /\ Goto(s, "queued") /\ UNCHANGED <<itemsUsed, bytesUsed>>
        BY <1>7, <2>0, <2>2, ZenonT(60) DEF Count
      <3>2. /\ sends' \in [Senders -> Sender] /\ sends'[s].pc = "queued"
            /\ sends'[s].link = sends[s].link /\ sends'[s].size = sends[s].size
            /\ \A t \in Senders \ {s} : sends'[t] = sends[t]
        BY <3>1, GotoIs DEF SendPlaces, DeliveryInv
      <3>3. LinksDrawn'
        BY <1>3, <2>1, <3>2, ZenonT(60)
      <3>4. Charged'
        BY <2>1, <3>1, <3>2, ChargeSame DEF DeliveryInv
      <3>5. Counted' /\ queued' \in [LinkIds -> [messages : Nat, bytes : Nat]]
        BY <1>1, <2>0, <2>1, <2>2, <3>1, <3>2, CountAdd, ZenonT(60) DEF DeliveryInv
      <3>6. QED
        BY <3>1, <3>2, <3>3, <3>4, <3>5, ZenonT(60) DEF DeliveryInv, DeliveryTypes
    <2>3. CASE ~HasRoom(l, sends[s].size)
      <3>1. /\ itemsUsed' = itemsUsed - 1 /\ bytesUsed' = bytesUsed - sends[s].size
            /\ GiveUp(s) /\ queued' = queued
        BY <1>7, <2>0, <2>3 DEF Count
      <3>2. /\ sends' \in [Senders -> Sender] /\ sends'[s].pc = "idle"
            /\ \A t \in Senders \ {s} : sends'[t] = sends[t]
        BY <3>1, GiveUpIs, ZenonT(60) DEF DeliveryInv
      <3>3. Charged' /\ itemsUsed' \in Nat /\ bytesUsed' \in Nat
        BY <2>1, <3>1, <3>2, ChargeRemove, ZenonT(60) DEF DeliveryInv
      <3>4. LinksDrawn' /\ Counted'
        BY <1>1, <1>3, <2>1, <3>1, <3>2, CountSame DEF DeliveryInv
      <3>5. QED
        BY <3>1, <3>2, <3>3, <3>4, ZenonT(60) DEF DeliveryInv, DeliveryTypes
    <2>4. QED
      BY <2>2, <2>3
  <1>8. CASE ReleaseLease(s)
    <2>1. /\ sends[s].pc = "queued" /\ queued' = queued /\ Goto(s, "releasing")
          /\ itemsUsed' = itemsUsed - 1 /\ bytesUsed' = bytesUsed - sends[s].size
      BY <1>8, ZenonT(60) DEF ReleaseLease
    <2>2. /\ sends' \in [Senders -> Sender] /\ sends'[s].pc = "releasing"
          /\ sends'[s].link = sends[s].link /\ sends'[s].size = sends[s].size
          /\ \A t \in Senders \ {s} : sends'[t] = sends[t]
      BY <2>1, GotoIs DEF SendPlaces, DeliveryInv
    <2>3. Charged' /\ itemsUsed' \in Nat /\ bytesUsed' \in Nat
      BY <2>1, <2>2, ChargeRemove, ZenonT(60) DEF DeliveryInv
    <2>4. LinksDrawn' /\ Counted'
      BY <1>1, <1>3, <2>1, <2>2, CountSame DEF DeliveryInv
    <2>5. QED
      BY <2>1, <2>2, <2>3, <2>4 DEF DeliveryInv, DeliveryTypes
  <1>9. CASE Uncount(s)
    <2>0. PICK l \in LinkIds : l = sends[s].link
      BY DEF DeliveryInv, DeliveryTypes, Sender
    <2>1. sends[s].pc = "releasing" /\ GiveUp(s) /\ UNCHANGED <<itemsUsed, bytesUsed>>
      BY <1>9 DEF Uncount
    <2>2. /\ sends' \in [Senders -> Sender] /\ sends'[s].pc = "idle"
          /\ \A t \in Senders \ {s} : sends'[t] = sends[t]
      BY <2>1, GiveUpIs, ZenonT(60) DEF DeliveryInv
    <2>3. Counted' /\ queued' \in [LinkIds -> [messages : Nat, bytes : Nat]]
      BY <1>1, <1>9, <2>0, <2>2, CountRemove, ZenonT(60) DEF DeliveryInv
    <2>4. LinksDrawn' /\ Charged'
      BY <1>3, <2>1, <2>2, ChargeSame, ZenonT(60) DEF DeliveryInv
    <2>5. QED
      BY <2>1, <2>2, <2>3, <2>4 DEF DeliveryInv, DeliveryTypes
  <1>10. QED
    BY <1>4, <1>5, <1>6, <1>7, <1>8, <1>9 DEF SenderNext

\* A link that leaves the map takes its counters along, and one that enters it
\* starts at zero: no delivery of an earlier link is counted on it.
LEMMA ForgetKeeps ==
  ASSUME LinkInv, DeliveryInv, ForgetRemoved, UNCHANGED <<sends, itemsUsed, bytesUsed>>,
         Live' \subseteq LinkIds,
         \A l \in Live' \ Live : \E h \in Handshakers : Pending(h) /\ hs[h].c.id = l,
         nextLink' = nextLink,
         \A h \in Handshakers : Pending(h)' => Pending(h) /\ hs'[h].c = hs[h].c
  PROVE  DeliveryInv'
  <1>1. queued' = [l \in LinkIds |-> IF l \in Live /\ l \in Live' THEN queued[l] ELSE Empty]
    BY DEF ForgetRemoved
  <1>2. Empty \in [messages : Nat, bytes : Nat] /\ Empty.messages = 0 /\ Empty.bytes = 0
    BY DEF Empty
  <1>3. DeliveryTypes'
    BY <1>1, <1>2 DEF DeliveryInv, DeliveryTypes
  <1>4. LinksDrawn'
    BY DEF DeliveryInv, LinksDrawn
  <1>5. Charged'
    BY DEF DeliveryInv, Charged, HoldingLease, BytesOf
  <1>6. Counted'
    <2>1. ASSUME NEW l \in Live'
          PROVE  /\ queued'[l].messages = Cardinality(CountedOn(l)')
                 /\ queued'[l].bytes = BytesOf(CountedOn(l))'
      <3>1. CountedOn(l)' = CountedOn(l) /\ BytesOf(CountedOn(l))' = BytesOf(CountedOn(l))
        BY ZenonT(60) DEF CountedOn, BytesOf
      <3>2. CASE l \in Live
        <4>1. queued'[l] = queued[l]
          BY <1>1, <3>2, <2>1, ZenonT(60)
        <4>2. QED
          BY <3>1, <3>2, <4>1 DEF DeliveryInv, Counted
      <3>3. CASE l \notin Live
        <4>1. queued'[l] = Empty
          BY <1>1, <3>3, <2>1, ZenonT(60)
        <4>2. PICK h \in Handshakers : Pending(h) /\ hs[h].c.id = l
          BY <3>3, <2>1
        <4>3. CountedOn(l) = {}
          BY <4>2 DEF CountedOn, DeliveryInv, LinksDrawn
        <4>4. BytesOf(CountedOn(l)) = 0
          BY <4>3, FS_EmptySet, ZenonT(60) DEF BytesOf
        <4>5. QED
          BY <1>2, <3>1, <4>1, <4>3, <4>4, FS_EmptySet, ZenonT(60)
      <3>4. QED
        BY <3>2, <3>3, ZenonT(60)
    <2>2. \A l \in LinkIds : queued'[l].messages <= LinkMessages /\ queued'[l].bytes <= LinkBytes
      BY <1>1, <1>2, DeliveryAssumption DEF DeliveryInv, Counted
    <2>3. QED
      BY <2>1, <2>2 DEF Counted
  <1>7. QED
    BY <1>3, <1>4, <1>5, <1>6 DEF DeliveryInv

\* Steps that leave the deliveries and the map's entries alone.
LEMMA DeliveryFrame ==
  ASSUME LinkInv, DeliveryInv, UNCHANGED queueVars, Live' = Live, nextLink' >= nextLink,
         nextLink' \in Nat,
         \A h \in Handshakers : Pending(h)' =>
            (Pending(h) /\ hs'[h].c = hs[h].c) \/ hs'[h].c.id = nextLink
  PROVE  DeliveryInv'
  <1>1. DeliveryTypes' /\ Charged' /\ Counted'
    <2>1. DeliveryTypes'
      BY ZenonT(60) DEF DeliveryInv, DeliveryTypes, queueVars
    <2>2. /\ HoldingLease' = HoldingLease /\ BytesOf(HoldingLease)' = BytesOf(HoldingLease)
          /\ \A l : CountedOn(l)' = CountedOn(l)
          /\ \A l : BytesOf(CountedOn(l))' = BytesOf(CountedOn(l))
      BY ZenonT(60) DEF HoldingLease, CountedOn, BytesOf, queueVars
    <2>3. QED
      BY <2>1, <2>2 DEF DeliveryInv, Charged, Counted, queueVars
  <1>2. LinksDrawn'
    <2> SUFFICES ASSUME NEW s \in Senders, sends[s].pc # "idle"
                 PROVE  /\ sends[s].link < nextLink'
                        /\ \A h \in Handshakers : Pending(h)' => hs'[h].c.id # sends[s].link
      BY DEF LinksDrawn, queueVars
    <2>1. /\ sends[s].link < nextLink /\ sends[s].link \in Nat /\ nextLink \in Nat
          /\ \A h \in Handshakers : Pending(h) => hs[h].c.id # sends[s].link
      BY LinkAssumption DEF DeliveryInv, LinksDrawn, DeliveryTypes, Sender, LinkIds, LinkInv, Types
    <2>2. QED
      BY <2>1
  <1>3. QED
    BY <1>1, <1>2, ZenonT(60) DEF DeliveryInv

\* Every step keeps the deliveries exact.
LEMMA DeliveryStep == LinkInv /\ DeliveryInv /\ [Next]_vars => DeliveryInv'
  <1> SUFFICES ASSUME LinkInv, DeliveryInv, [Next]_vars PROVE DeliveryInv'
    OBVIOUS
  <1>0. nextLink \in Nat
    BY LinkAssumption DEF LinkInv, Types
  <1>1. ASSUME NEW h \in Handshakers, RegisterStep(h) PROVE DeliveryInv'
    <2>1. /\ ForgetRemoved /\ UNCHANGED <<nextLink, sends, itemsUsed, bytesUsed>>
          /\ hs[h].pc = "resolved" /\ Register(hs[h].c, hs[h].duplicate)
          /\ hs' = [hs EXCEPT ![h].pc = "registered"]
      BY <1>1 DEF RegisterStep
    <2>2. \A k \in Handshakers : Pending(k)' => Pending(k) /\ hs'[k].c = hs[k].c
      BY <2>1 DEF LinkInv, Types, Handshake, Pending
    <2>3. Pending(h) /\ hs[h].c.id \in LinkIds
      BY <2>1 DEF Pending, LinkInv, IdsFresh
    <2>4. Live' \subseteq LinkIds
      BY DEF Live
    <2>5. \A l \in Live' \ Live : l = hs[h].c.id
      BY <2>1, LinkAssumption DEF Register, Live, NoLink
    <2>6. QED
      BY <2>1, <2>2, <2>3, <2>4, <2>5, ForgetKeeps
  <1>2. ASSUME NEW l \in Live, Close(l) PROVE DeliveryInv'
    <2>1. /\ ForgetRemoved /\ UNCHANGED <<nextLink, hs, sends, itemsUsed, bytesUsed>>
          /\ links' = [links EXCEPT ![l] = NoLink]
      BY <1>2 DEF Close, CloseLink
    <2>2. Live' \subseteq LinkIds /\ Live' \subseteq Live
      BY <2>1 DEF Live, NoLink, LinkInv, Types
    <2>3. QED
      BY <2>1, <2>2, ForgetKeeps DEF Pending
  <1>3. ASSUME NEW l \in Live, NEW next \in LinkStates, Transition(l, next) PROVE DeliveryInv'
    <2>1. UNCHANGED <<nextLink, hs, queueVars>> /\ links' = [links EXCEPT ![l].state = next]
      BY <1>3 DEF Transition
    <2>2. Live' = Live
      <3>1. l \in LinkIds /\ next # "none" /\ links[l].state # "none"
        BY DEF Live, LinkStates
      <3>2. \A m \in LinkIds : links'[m].state = IF m = l THEN next ELSE links[m].state
        BY <2>1, <3>1 DEF LinkInv, Types, Link
      <3>3. QED
        BY <3>1, <3>2 DEF Live
    <2>3. QED
      BY <1>0, <2>1, <2>2, DeliveryFrame DEF Pending
  <1>4. ASSUME NEW h \in Handshakers,
               \/ \E p \in Peers, d \in Directions : Begin(h, p, d)
               \/ Resolve(h) \/ RegisterRefused(h) \/ ReleasePending(h)
        PROVE  DeliveryInv'
    <2>1. UNCHANGED queueVars /\ Live' = Live
      BY <1>4 DEF Begin, Started, Resolve, RegisterRefused, ReleasePending, linkVars, Live
    <2>2. ASSUME NEW p \in Peers, NEW d \in Directions, Begin(h, p, d)
          PROVE  DeliveryInv'
      <3>1. /\ hs' = [hs EXCEPT ![h] = [pc |-> "pending",
                         c |-> [id |-> nextLink, peer |-> p, dir |-> d],
                         duplicate |-> "AcceptNew"]]
            /\ nextLink' = nextLink + 1
        BY <2>2 DEF Begin, Started
      <3>2. hs'[h].c.id = nextLink /\ \A k \in Handshakers : k # h => hs'[k] = hs[k]
        BY <3>1 DEF LinkInv, Types
      <3>3. QED
        BY <1>0, <2>1, <3>1, <3>2, DeliveryFrame DEF Pending
    <2>3. CASE Resolve(h) \/ RegisterRefused(h) \/ ReleasePending(h)
      <3>1. nextLink' = nextLink
        BY <2>3 DEF Resolve, RegisterRefused, ReleasePending, linkVars
      <3>2. \A k \in Handshakers : Pending(k)' => Pending(k) /\ hs'[k].c = hs[k].c
        BY <2>3 DEF Resolve, RegisterRefused, ReleasePending, IdleHandshaker,
           LinkInv, Types, Handshake, Pending
      <3>3. QED
        BY <1>0, <2>1, <3>1, <3>2, DeliveryFrame
    <2>4. QED
      BY <1>4, <2>2, <2>3
  <1>5. CASE UNCHANGED vars
    BY <1>0, <1>5, DeliveryFrame DEF vars, linkVars, Live, Pending
  <1>6. QED
    BY <1>1, <1>2, <1>3, <1>4, <1>5, SenderKeeps DEF Next, HandshakerNext

-----------------------------------------------------------------------------
(* Pending handshakes and the links of one peer.                           *)

\* The handshakes that hold an admission.
Admitted == {h \in Handshakers : hs[h].pc # "idle"}

Ceilings ==
    /\ pendingUsed = Cardinality(Admitted) /\ pendingUsed <= PendingLimit
    /\ \A p \in Peers : Cardinality(peers[p]) <= PeerLimit

\* The sets counted by the ceilings are finite.
LEMMA CeilingsFinite ==
  ASSUME LinkInv
  PROVE  /\ IsFiniteSet(Admitted)
         /\ \A p \in Peers : IsFiniteSet(peers[p]) /\ Cardinality(peers[p]) \in Nat
  <1>1. IsFiniteSet(Admitted)
    BY FS_Subset, DeliveryAssumption DEF Admitted
  <1>2. ASSUME NEW p \in Peers PROVE IsFiniteSet(peers[p]) /\ Cardinality(peers[p]) \in Nat
    <2>1. peers[p] \subseteq Live
      BY DEF LinkInv, IndexConsistent
    <2>2. QED
      BY <2>1, LiveFinite, FS_Subset, FS_CardinalityType
  <1>3. QED
    BY <1>1, <1>2

\* The decision is stale, the limits are not: a registration stays within the
\* limit of links per peer.
LEMMA RegisterWithinLimit ==
  ASSUME LinkInv, Ceilings, NEW h \in Handshakers, RegisterStep(h)
  PROVE  \A p \in Peers : Cardinality(peers'[p]) <= PeerLimit
  <1> DEFINE c == hs[h].c
             accepted == RegisterOutcome(c, hs[h].duplicate) \in Accepted
             retired == Retired(c, hs[h].duplicate)
  <1>1. c.peer \in Peers /\ c.id \in LinkIds \ Live /\ hs[h].duplicate \in Decisions
    BY ZenonT(60) DEF RegisterStep, LinkInv, IdsFresh, Pending, Types, Handshake, Candidate
  <1>2. \/ ~accepted /\ retired = {}
        \/ accepted /\ retired = {} /\ Cardinality(peers[c.peer]) < PeerLimit
        \/ /\ accepted /\ retired = {FirstLink(c.peer)}
           /\ FirstLink(c.peer) \in peers[c.peer]
    BY <1>1, RegisterCases
  <1>3. Register(c, hs[h].duplicate)
    BY DEF RegisterStep
  <1> HIDE DEF c, accepted, retired
  <1>4. peers' = [peers EXCEPT ![c.peer] = (@ \ retired) \cup (IF accepted THEN {c.id} ELSE {})]
    BY <1>3 DEF Register, accepted, retired
  <1> DEFINE old == peers[c.peer]
             new == (old \ retired) \cup (IF accepted THEN {c.id} ELSE {})
  <1>5. peers'[c.peer] = new /\ \A p \in Peers \ {c.peer} : peers'[p] = peers[p]
    BY <1>1, <1>4 DEF LinkInv, Types
  <1>6. c.id \notin old /\ IsFiniteSet(old) /\ Cardinality(old) \in Nat
        /\ Cardinality(old) <= PeerLimit /\ PeerLimit \in Nat
    <2>1. c.id \notin old
      BY <1>1 DEF LinkInv, IndexConsistent
    <2>2. PeerLimit \in Nat
      BY LinkAssumption
    <2>3. QED
      BY <1>1, <2>1, <2>2, CeilingsFinite, ZenonT(60) DEF Ceilings
  <1>7. Cardinality(new) <= PeerLimit
    <2>1. CASE ~accepted /\ retired = {}
      <3>1. new = old
        BY <2>1
      <3>2. QED
        BY <3>1, <1>6
    <2>2. CASE accepted /\ retired = {} /\ Cardinality(peers[c.peer]) < PeerLimit
      <3>1. new = old \cup {c.id}
        BY <2>2
      <3> HIDE DEF old, new
      <3>2. Cardinality(new) = Cardinality(old) + 1
        BY <1>6, <3>1, FS_AddElement, ZenonT(60)
      <3>3. QED
        BY <1>6, <2>2, <3>2 DEF old
    <2>3. CASE accepted /\ retired = {FirstLink(c.peer)} /\ FirstLink(c.peer) \in peers[c.peer]
      <3> DEFINE f == FirstLink(c.peer)
      <3>1. new = (old \ {f}) \cup {c.id} /\ f \in old
        BY <2>3
      <3> HIDE DEF old, new, f
      <3>2. IsFiniteSet(old \ {f}) /\ Cardinality(old \ {f}) = Cardinality(old) - 1
        BY <1>6, <3>1, FS_RemoveElement
      <3>3. Cardinality(new) = Cardinality(old \ {f}) + 1
        BY <1>6, <3>1, <3>2, FS_AddElement, ZenonT(60)
      <3>4. QED
        BY <1>6, <3>2, <3>3
    <2>4. QED
      BY <1>2, <2>1, <2>2, <2>3
  <1> HIDE DEF new
  <1>8. QED
    BY <1>5, <1>7 DEF Ceilings

\* Every step keeps the admissions exact and within the ceilings.
LEMMA CeilingsStep == LinkInv /\ Ceilings /\ [Next]_vars => Ceilings'
  <1> SUFFICES ASSUME LinkInv, Ceilings, [Next]_vars PROVE Ceilings'
    OBVIOUS
  <1>0. PendingLimit \in Nat /\ PeerLimit \in Nat /\ Cardinality(Admitted) \in Nat
    BY LinkAssumption, CeilingsFinite, FS_CardinalityType
  <1>1. ASSUME NEW h \in Handshakers, RegisterStep(h) PROVE Ceilings'
    <2>1. pendingUsed' = pendingUsed /\ hs[h].pc = "resolved"
          /\ hs' = [hs EXCEPT ![h].pc = "registered"]
      BY <1>1 DEF RegisterStep
    <2>2. Admitted' = Admitted
      BY <2>1 DEF Admitted, LinkInv, Types, Handshake
    <2>3. QED
      BY <1>1, <2>1, <2>2, RegisterWithinLimit DEF Ceilings
  <1>2. ASSUME NEW h \in Handshakers, NEW p \in Peers, NEW d \in Directions, Begin(h, p, d)
        PROVE  Ceilings'
    <2>1. /\ pendingUsed' = pendingUsed + 1 /\ pendingUsed < PendingLimit /\ peers' = peers
          /\ hs[h].pc = "idle"
          /\ hs'[h].pc = "pending" /\ \A k \in Handshakers \ {h} : hs'[k] = hs[k]
      BY <1>2 DEF Begin, Started, LinkInv, Types
    <2>2. Admitted' = Admitted \cup {h} /\ h \notin Admitted
      BY <2>1 DEF Admitted
    <2>3. Cardinality(Admitted') = Cardinality(Admitted) + 1
      BY <2>2, CeilingsFinite, FS_AddElement, ZenonT(60)
    <2>4. QED
      BY <1>0, <2>1, <2>3 DEF Ceilings
  <1>3. ASSUME NEW h \in Handshakers, ReleasePending(h) PROVE Ceilings'
    <2>1. /\ pendingUsed' = pendingUsed - 1 /\ peers' = peers
          /\ hs[h].pc # "idle"
          /\ hs'[h].pc = "idle" /\ \A k \in Handshakers \ {h} : hs'[k] = hs[k]
      BY <1>3 DEF ReleasePending, IdleHandshaker, LinkInv, Types
    <2>2. Admitted' = Admitted \ {h} /\ h \in Admitted
      BY <2>1 DEF Admitted
    <2>3. Cardinality(Admitted') = Cardinality(Admitted) - 1
      BY <2>2, CeilingsFinite, FS_RemoveElement
    <2>4. QED
      BY <1>0, <2>1, <2>3 DEF Ceilings
  <1>4. ASSUME NEW h \in Handshakers, Resolve(h) \/ RegisterRefused(h) PROVE Ceilings'
    <2>1. pendingUsed' = pendingUsed /\ peers' = peers
      BY <1>4 DEF Resolve, RegisterRefused, linkVars
    <2>2. Admitted' = Admitted
      BY <1>4 DEF Resolve, RegisterRefused, Admitted, LinkInv, Types, Handshake
    <2>3. QED
      BY <2>1, <2>2 DEF Ceilings
  <1>5. ASSUME NEW l \in Live, Close(l) PROVE Ceilings'
    <2>1. pendingUsed' = pendingUsed /\ hs' = hs
          /\ peers' = [peers EXCEPT ![links[l].peer] = @ \ {l}]
      BY <1>5 DEF Close, CloseLink
    <2>2. ASSUME NEW p \in Peers PROVE Cardinality(peers'[p]) <= PeerLimit
      <3>1. peers'[p] \subseteq peers[p]
        BY <2>1 DEF LinkInv, Types
      <3>2. Cardinality(peers'[p]) <= Cardinality(peers[p]) /\ Cardinality(peers'[p]) \in Nat
        BY <3>1, CeilingsFinite, FS_Subset, FS_CardinalityType
      <3>3. QED
        BY <1>0, <3>2, CeilingsFinite DEF Ceilings
    <2>3. Admitted' = Admitted
      BY <2>1 DEF Admitted
    <2>4. QED
      BY <2>1, <2>2, <2>3 DEF Ceilings
  <1>6. CASE UNCHANGED <<peers, pendingUsed, hs>>
    BY <1>6 DEF Ceilings, Admitted
  <1>7. ASSUME NEW s \in Senders, SenderNext(s) PROVE UNCHANGED <<peers, pendingUsed, hs>>
    BY <1>7, SenderFrame DEF linkVars
  <1>8. QED
    BY <1>1, <1>2, <1>3, <1>4, <1>5, <1>6, <1>7 DEF Next, HandshakerNext, Transition, vars, linkVars

-----------------------------------------------------------------------------

(***************************************************************************)
(* Deliveries, admissions and ceilings: the whole inductive invariant.     *)
(***************************************************************************)
THEOREM ManagerInvariant == Spec => [](LinkInv /\ DeliveryInv /\ Ceilings)
  <1>1. Init => DeliveryInv
    <2> SUFFICES ASSUME Init PROVE DeliveryInv
      OBVIOUS
    <2>1. /\ IdleSender \in Sender /\ IdleSender.pc = "idle"
          /\ Empty \in [messages : Nat, bytes : Nat] /\ Empty.messages = 0 /\ Empty.bytes = 0
      BY LinkAssumption DEF IdleSender, Sender, SendPlaces, LinkIds, Empty
    <2>2. DeliveryTypes /\ LinksDrawn
      BY <2>1 DEF Init, DeliveryTypes, LinksDrawn
    <2>3. HoldingLease = {} /\ Live = {}
      BY <2>1 DEF Init, HoldingLease, LinkInit, Live, NoLink
    <2>4. BytesOf(HoldingLease) = 0
      BY <2>3, FS_EmptySet DEF BytesOf
    <2>5. Charged
      BY <2>3, <2>4, FS_EmptySet, DeliveryAssumption DEF Init, Charged
    <2>6. Counted
      BY <2>1, <2>3, DeliveryAssumption DEF Init, Counted
    <2>7. QED
      BY <2>2, <2>5, <2>6 DEF DeliveryInv
  <1>2. Init => Ceilings
    <2> SUFFICES ASSUME Init PROVE Ceilings
      OBVIOUS
    <2>1. Admitted = {} /\ \A p \in Peers : peers[p] = {}
      BY DEF Init, LinkInit, Admitted, IdleHandshaker
    <2>2. QED
      BY <2>1, FS_EmptySet, LinkAssumption DEF Init, LinkInit, Ceilings
  <1>3. QED
    BY <1>1, <1>2, LinkInvariant, LinkStep, DeliveryStep, CeilingsStep, PTL DEF Spec

(***************************************************************************)
(* LeasesExact for every instance: each pending handshake, link and queued *)
(* delivery is charged to the budget exactly once, whichever way its owner *)
(* gives it up and however the critical sections of many callers mix.      *)
(***************************************************************************)
THEOREM LeasesAreExact == Spec => []LeasesExact
  <1>1. LinkInv /\ DeliveryInv /\ Ceilings => LeasesExact
    BY DEF LinkInv, LinksBounded, DeliveryInv, Charged, Ceilings, Admitted, LeasesExact,
       ActiveLeasesExact
  <1>2. QED
    BY <1>1, ManagerInvariant, PTL

(***************************************************************************)
(* QueueCountersExact for every instance: a link's counters are its        *)
(* outstanding deliveries, the guard of a delivery that outlives its link  *)
(* touches no other link, no subtraction saturates, and every configured   *)
(* ceiling holds although each is checked in a critical section of its own.*)
(***************************************************************************)
THEOREM QueuesAreExact == Spec => []QueueCountersExact
  <1>1. LinkInv /\ DeliveryInv /\ Ceilings => QueueCountersExact
    <2> SUFFICES ASSUME LinkInv, DeliveryInv, Ceilings PROVE QueueCountersExact
      OBVIOUS
    <2>1. pendingUsed \in Nat /\ activeUsed \in Nat
      BY CeilingsFinite, LiveFinite, FS_CardinalityType DEF Ceilings, LinkInv, LinksBounded
    <2>2. LinkTypeOK
      BY <2>1 DEF LinkTypeOK, LinkInv, Types
    <2>3. TypeOK
      BY <2>2 DEF TypeOK, LinkInv, Types, Handshake, DeliveryInv, DeliveryTypes, Sender
    <2>4. QED
      BY <2>3 DEF QueueCountersExact, DeliveryInv, Charged, Counted, Ceilings, LinkInv, LinksBounded
  <1>2. QED
    BY <1>1, ManagerInvariant, PTL
=============================================================================
