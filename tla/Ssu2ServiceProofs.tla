------------------------- MODULE Ssu2ServiceProofs -------------------------
(***************************************************************************)
(* Proofs about Ssu2Service, for any number of dialers, inbound slots,     *)
(* loops, peers, addresses, scopes and ceilings: the service's sessions    *)
(* and the manager's links stay together, a peer has one link at most, and *)
(* every counter agrees with what it counts.                               *)
(***************************************************************************)
EXTENDS Ssu2Service, FiniteSetTheorems, TLAPS

\* The time the solvers have for a leaf; one that is interrupted is tried again.
USE SMTT(30), Z3T(30), ZenonT(30), SMTT(40)

Session == [peer : Peers, addr : Addresses \cup {NoAddr}]

Dialer == [pc : {"idle", "entering", "waiting"}, entry : BOOLEAN,
           addr : Addresses \cup {NoAddr}, c : Candidate]

LinkTypes ==
    /\ links \in [LinkIds -> Link]
    /\ peers \in [Peers -> SUBSET LinkIds]
    /\ nextLink \in 1 .. MaxLinkId + 1
    /\ active \in [LinkIds -> Session]
    /\ peerLinks \in [Peers -> SUBSET LinkIds]
    /\ activeCount \in [Scopes -> Nat]
    /\ closing \subseteq LinkIds

PendingTypes ==
    /\ dials \in [Dialers -> Dialer]
    /\ dialAddrs \subseteq Addresses
    /\ pendIn \in [Slots -> Addresses \cup {NoAddr}]
    /\ pendingCount \in [Scopes -> Nat]
    /\ down \in BOOLEAN /\ loops \subseteq Loops

\* A link identifier is drawn once.  What is linked or being closed was drawn
\* for no pending dial, and no two pending dials hold the same one.
IdsFresh ==
    /\ \A l \in Live \cup closing : Established(l)
    /\ \A d \in PendingOut :
          /\ dials[d].c.id < nextLink
          /\ \A e \in PendingOut : e # d => dials[e].c.id # dials[d].c.id

\* A link is being closed only after its session is gone, and a peer has one link.
Owners ==
    /\ \A l \in Sessions : l \in Live /\ links[l].peer = active[l].peer
    /\ Live \subseteq Sessions \cup closing
    /\ Sessions \cap closing = {}
    /\ \A p \in Peers : peerLinks[p] = {l \in Sessions : active[l].peer = p}
    /\ \A l, m \in Live : links[l].peer = links[m].peer => l = m

\* The manager's budget counts the links, within its ceiling.
LinksBounded == activeUsed = Cardinality(Live) /\ activeUsed <= ActiveLimit

\* The service's counts per source count the sessions.
SessionsCounted == \A x \in Scopes : activeCount[x] = SessionsAt(x)

OwnerInv ==
    LinkTypes /\ IndexConsistent /\ IdsFresh /\ Owners /\ LinksBounded /\ SessionsCounted

\* A dial under way has an address, and only one that waits has an entry.
DialsSound ==
    \A d \in Dialers : /\ dials[d].pc = "entering" => dials[d].addr # NoAddr
                       /\ dials[d].entry => dials[d].pc = "waiting" /\ dials[d].addr # NoAddr

\* A pending entry holds one unit of the manager's budget and is counted at its
\* source.
PendingInv ==
    /\ PendingTypes
    /\ DialsSound
    /\ pendingUsed = PendingTotal
    /\ \A x \in Scopes : PendingAt(x) <= pendingCount[x]

ServiceInv == OwnerInv /\ PendingInv

-----------------------------------------------------------------------------
(* Counting.                                                               *)

\* The values that stand for no entry.
LEMMA NoEntries ==
  /\ NoSession \in Session /\ NoSession.addr = NoAddr
  /\ NoLink \in Link /\ NoLink.state = "none"
  /\ IdleDialer \in Dialer /\ ~IdleDialer.entry /\ IdleDialer.pc = "idle"
  <1>1. (CHOOSE p \in Peers : TRUE) \in Peers
    BY LinkAssumption
  <1>2. 1 \in LinkIds
    BY LinkAssumption DEF LinkIds
  <1>3. QED
    BY <1>1, <1>2 DEF NoSession, Session, NoLink, Link, Directions, IdleDialer, Dialer, Candidate

\* Sets of links are finite.
LEMMA LinksFinite ==
  ASSUME NEW S \in SUBSET LinkIds
  PROVE  IsFiniteSet(S) /\ Cardinality(S) \in Nat
  <1>1. IsFiniteSet(LinkIds)
    BY FS_Interval, LinkAssumption DEF LinkIds
  <1>2. QED
    BY <1>1, FS_Subset, FS_CardinalityType

\* A set with one more element is one larger.
LEMMA OneMore ==
  ASSUME NEW S, IsFiniteSet(S), NEW e, e \notin S
  PROVE  IsFiniteSet(S \cup {e}) /\ Cardinality(S \cup {e}) = Cardinality(S) + 1
  BY FS_AddElement, ZenonT(60)

\* A set without one of its elements is one smaller.
LEMMA OneLess ==
  ASSUME NEW S, IsFiniteSet(S), NEW e \in S
  PROVE  /\ IsFiniteSet(S \ {e}) /\ Cardinality(S \ {e}) = Cardinality(S) - 1
         /\ Cardinality(S) \in Nat /\ Cardinality(S \ {e}) \in Nat /\ Cardinality(S) > 0
  <1>1. IsFiniteSet(S \ {e}) /\ Cardinality(S \ {e}) = Cardinality(S) - 1
    BY FS_RemoveElement, ZenonT(60)
  <1>2. Cardinality(S) \in Nat /\ Cardinality(S \ {e}) \in Nat
    BY <1>1, FS_CardinalityType
  <1>3. QED
    BY ONLY <1>1, <1>2, SMTT(30), Z3T(30)

\* The sessions of f that count against a scope, and counts that agree with them.
At(f, x) == {l \in LinkIds : f[l].addr # NoAddr /\ x \in ScopesOf[f[l].addr]}

Exact(m, f) == m \in [Scopes -> Nat] /\ \A x \in Scopes : m[x] = Cardinality(At(f, x))

\* A session taken out is counted down at its address (remove_active_locked).
LEMMA CountedDown ==
  ASSUME NEW f \in [LinkIds -> Session], NEW m, Exact(m, f), NEW l \in LinkIds
  PROVE  Exact(CountDown(m, f[l].addr), [f EXCEPT ![l] = NoSession])
  <1> DEFINE g == [f EXCEPT ![l] = NoSession]
             n == CountDown(m, f[l].addr)
  <1>1. ASSUME NEW x \in Scopes PROVE n[x] \in Nat /\ n[x] = Cardinality(At(g, x))
    <2>1. m[x] \in Nat /\ m[x] = Cardinality(At(f, x))
      BY DEF Exact
    <2>2. At(g, x) = At(f, x) \ {l}
      BY NoEntries DEF At
    <2>3. IsFiniteSet(At(f, x))
      BY LinksFinite DEF At
    <2>4. l \in At(f, x) <=> f[l].addr # NoAddr /\ x \in ScopesOf[f[l].addr]
      BY DEF At
    <2>a. n[x] = IF l \in At(f, x) /\ m[x] > 0 THEN m[x] - 1 ELSE m[x]
      BY <2>4 DEF CountDown
    <2> HIDE DEF g, n
    <2>5. CASE l \in At(f, x)
      <3> DEFINE A == At(f, x)
      <3> HIDE DEF A
      <3>0. IsFiniteSet(A) /\ l \in A
        BY <2>3, <2>5 DEF A
      <3>1. Cardinality(A \ {l}) = Cardinality(A) - 1 /\ Cardinality(A) > 0
        BY ONLY <3>0, OneLess, SMTT(30), Z3T(30)
      <3>2. n[x] = m[x] - 1
        BY <2>a, <2>1, <2>5, <3>1 DEF A
      <3>3. Cardinality(At(g, x)) = m[x] - 1
        BY ONLY <2>1, <2>2, <3>1, SMTT(30), Z3T(30) DEF A
      <3>4. QED
        BY ONLY <2>1, <3>1, <3>2, <3>3, SMTT(30), Z3T(30) DEF A
    <2>6. CASE l \notin At(f, x)
      <3>1. At(g, x) = At(f, x)
        BY <2>2, <2>6
      <3>2. n[x] = m[x]
        BY <2>a, <2>6
      <3>3. QED
        BY <2>1, <3>1, <3>2
    <2>7. QED
      BY <2>5, <2>6
  <1>2. n \in [Scopes -> Nat]
    BY <1>1 DEF CountDown
  <1> HIDE DEF n, g
  <1>3. Exact(n, g)
    BY <1>1, <1>2 DEF Exact
  <1>4. QED
    BY <1>3 DEF n, g

\* A session put in is counted up at its address.
LEMMA CountedUp ==
  ASSUME NEW f \in [LinkIds -> Session], NEW m, Exact(m, f), NEW l \in LinkIds,
         f[l].addr = NoAddr, NEW a \in Addresses, NEW p \in Peers
  PROVE  Exact(CountUp(m, a), [f EXCEPT ![l] = [peer |-> p, addr |-> a]])
  <1> DEFINE g == [f EXCEPT ![l] = [peer |-> p, addr |-> a]]
             n == CountUp(m, a)
  <1>1. ASSUME NEW x \in Scopes PROVE n[x] \in Nat /\ n[x] = Cardinality(At(g, x))
    <2>1. m[x] \in Nat /\ m[x] = Cardinality(At(f, x))
      BY DEF Exact
    <2>2. At(g, x) = At(f, x) \cup (IF x \in ScopesOf[a] THEN {l} ELSE {}) /\ l \notin At(f, x)
      BY ServiceAssumption DEF At
    <2>3. IsFiniteSet(At(f, x))
      BY LinksFinite DEF At
    <2>4. Cardinality(At(f, x) \cup {l}) = Cardinality(At(f, x)) + 1
      BY <2>2, <2>3, OneMore
    <2>5. n[x] = IF x \in ScopesOf[a] THEN m[x] + 1 ELSE m[x]
      BY DEF CountUp
    <2> HIDE DEF g, n
    <2>6. CASE x \in ScopesOf[a]
      <3>1. At(g, x) = At(f, x) \cup {l}
        BY <2>2, <2>6
      <3>2. QED
        BY ONLY <2>1, <2>4, <2>5, <2>6, <3>1, SMTT(30), Z3T(30)
    <2>7. CASE x \notin ScopesOf[a]
      BY <2>1, <2>2, <2>5, <2>7
    <2>8. QED
      BY <2>6, <2>7
  <1>2. n \in [Scopes -> Nat]
    BY <1>1 DEF CountUp
  <1> HIDE DEF n, g
  <1>3. Exact(n, g)
    BY <1>1, <1>2 DEF Exact
  <1>4. QED
    BY <1>3 DEF n, g

\* The invariant's count of sessions, in these terms.
LEMMA SessionsExact ==
  ASSUME active \in [LinkIds -> Session], activeCount \in [Scopes -> Nat]
  PROVE  SessionsCounted <=> Exact(activeCount, active)
  <1>1. \A x : {l \in Sessions : x \in ScopesOf[active[l].addr]} = At(active, x)
    BY DEF Sessions, At
  <1>2. QED
    BY <1>1, ZenonT(60) DEF SessionsCounted, SessionsAt, Exact
-----------------------------------------------------------------------------
(* Pending handshakes.                                                     *)

Out(f) == {d \in Dialers : f[d].entry}

OutAt(f, x) == {d \in Dialers : f[d].entry /\ x \in ScopesOf[f[d].addr]}

In(g) == {i \in Slots : g[i] # NoAddr}

InAt(g, x) == {i \in Slots : g[i] # NoAddr /\ x \in ScopesOf[g[i]]}

\* The budget and the counts per source agree with the entries of f and g.
Agree(f, g, used, m) ==
  /\ used = Cardinality(Out(f)) + Cardinality(In(g))
  /\ m \in [Scopes -> Nat]
  /\ \A x \in Scopes : Cardinality(OutAt(f, x)) + Cardinality(InAt(g, x)) <= m[x]

\* The invariant's counts of pending entries, in these terms.
LEMMA PendingAgree ==
  ASSUME PendingTypes
  PROVE  /\ PendingInv <=> DialsSound /\ Agree(dials, pendIn, pendingUsed, pendingCount)
         /\ PendingOut = Out(dials) /\ PendingIn = In(pendIn)
  <1>1. PendingOut = Out(dials) /\ PendingIn = In(pendIn)
    BY DEF PendingOut, PendingIn, Out, In
  <1>2. \A x : PendingAt(x) = Cardinality(OutAt(dials, x)) + Cardinality(InAt(pendIn, x))
    <2>1. \A x : /\ {d \in PendingOut : x \in ScopesOf[dials[d].addr]} = OutAt(dials, x)
                 /\ {i \in PendingIn : x \in ScopesOf[pendIn[i]]} = InAt(pendIn, x)
      BY DEF PendingOut, PendingIn, OutAt, InAt
    <2>2. QED
      BY <2>1, ZenonT(60) DEF PendingAt
  <1>3. PendingTotal = Cardinality(Out(dials)) + Cardinality(In(pendIn))
    BY <1>1, ZenonT(60) DEF PendingTotal
  <1>4. QED
    BY <1>1, <1>2, <1>3, ZenonT(60) DEF PendingInv, PendingTypes, Agree

\* The same of the state after a step.
LEMMA PendingAgreeNext ==
  PendingTypes' => (PendingInv <=> DialsSound /\ Agree(dials, pendIn, pendingUsed, pendingCount))'
  <1>1. PendingTypes => (PendingInv <=> DialsSound /\ Agree(dials, pendIn, pendingUsed, pendingCount))
    BY PendingAgree
  <1>2. QED
    BY <1>1, PTL

\* Sets of entries are finite.
LEMMA EntriesFinite ==
  ASSUME NEW S, S \in SUBSET Dialers \/ S \in SUBSET Slots
  PROVE  IsFiniteSet(S) /\ Cardinality(S) \in Nat
  BY ServiceAssumption, FS_Subset, FS_CardinalityType

\* Counting down once for an entry that is counted.
LEMMA DownOnce ==
  ASSUME NEW m \in [Scopes -> Nat], NEW a \in Addresses
  PROVE  /\ CountDown(m, a) \in [Scopes -> Nat]
         /\ \A x \in Scopes : CountDown(m, a)[x] = IF x \in ScopesOf[a] /\ m[x] > 0 THEN m[x] - 1 ELSE m[x]
         /\ CountUp(m, a) \in [Scopes -> Nat]
         /\ \A x \in Scopes : CountUp(m, a)[x] = IF x \in ScopesOf[a] THEN m[x] + 1 ELSE m[x]
  <1>1. a # NoAddr
    BY ServiceAssumption
  <1>2. QED
    BY <1>1 DEF CountDown, CountUp

\* An outbound entry that is removed was counted, and is no longer.
LEMMA DialLeaves ==
  ASSUME NEW f, NEW g, NEW used, NEW m, Agree(f, g, used, m), NEW h,
         NEW d \in Dialers, f[d].entry = TRUE, h[d].entry = FALSE, f[d].addr \in Addresses,
         \A e \in Dialers \ {d} : h[e] = f[e]
  PROVE  Agree(h, g, used - 1, CountDown(m, f[d].addr))
  <1> DEFINE a == f[d].addr
             n == CountDown(m, a)
  <1>0. m \in [Scopes -> Nat] /\ a \in Addresses
    BY DEF Agree
  <1>1. n \in [Scopes -> Nat] /\ \A x \in Scopes : n[x] = IF x \in ScopesOf[a] /\ m[x] > 0 THEN m[x] - 1 ELSE m[x]
    BY <1>0, DownOnce
  <1>2. d \in Out(f) /\ Out(h) = Out(f) \ {d}
    BY DEF Out
  <1>3. /\ \A x : OutAt(h, x) = OutAt(f, x) \ {d}
        /\ \A x : d \in OutAt(f, x) <=> x \in ScopesOf[a]
    BY DEF OutAt
  <1> HIDE DEF a, n
  <1>4. used - 1 = Cardinality(Out(h)) + Cardinality(In(g))
    <2>1. IsFiniteSet(Out(f)) /\ Cardinality(In(g)) \in Nat
      BY EntriesFinite DEF Out, In
    <2>2. Cardinality(Out(f) \ {d}) = Cardinality(Out(f)) - 1 /\ Cardinality(Out(f)) \in Nat
      BY ONLY <1>2, <2>1, OneLess, ZenonT(60)
    <2>3. used = Cardinality(Out(f)) + Cardinality(In(g))
      BY DEF Agree
    <2>4. QED
      BY ONLY <1>2, <2>1, <2>2, <2>3, SMTT(30), Z3T(30)
  <1>5. ASSUME NEW x \in Scopes PROVE Cardinality(OutAt(h, x)) + Cardinality(InAt(g, x)) <= n[x]
    <2>1. IsFiniteSet(OutAt(f, x)) /\ Cardinality(OutAt(f, x)) \in Nat /\ Cardinality(InAt(g, x)) \in Nat
      BY EntriesFinite DEF OutAt, InAt
    <2>2. Cardinality(OutAt(f, x)) + Cardinality(InAt(g, x)) <= m[x] /\ m[x] \in Nat
      BY DEF Agree
    <2>3. CASE x \in ScopesOf[a]
      <3> DEFINE A == OutAt(f, x)
      <3>1. IsFiniteSet(A) /\ d \in A /\ OutAt(h, x) = A \ {d}
        BY <1>3, <2>1, <2>3
      <3> HIDE DEF A
      <3>2. Cardinality(A \ {d}) = Cardinality(A) - 1 /\ Cardinality(A) > 0 /\ Cardinality(A) \in Nat
        BY ONLY <3>1, OneLess, SMTT(30), Z3T(30)
      <3>3. n[x] = IF m[x] > 0 THEN m[x] - 1 ELSE m[x]
        BY <1>1, <2>3
      <3>4. Cardinality(A) + Cardinality(InAt(g, x)) <= m[x]
        BY <2>2 DEF A
      <3>5. Cardinality(OutAt(h, x)) = Cardinality(A) - 1
        BY ONLY <3>1, <3>2, SMTT(30), Z3T(30)
      <3>6. QED
        BY ONLY <2>1, <2>2, <3>2, <3>3, <3>4, <3>5, SMTT(30), Z3T(30)
    <2>4. CASE x \notin ScopesOf[a]
      <3>1. OutAt(h, x) = OutAt(f, x) \ {d} /\ d \notin OutAt(f, x)
        BY ONLY <1>3, <2>4, SMTT(30), Z3T(30)
      <3>2. OutAt(h, x) = OutAt(f, x)
        BY ONLY <3>1, SMTT(30), Z3T(30)
      <3>3. n[x] = m[x]
        BY ONLY <1>1, <2>4, SMTT(30), Z3T(30)
      <3>4. QED
        BY ONLY <2>2, <3>2, <3>3, SMTT(30), Z3T(30)
    <2>5. QED
      BY <2>3, <2>4
  <1>6. QED
    BY <1>1, <1>4, <1>5 DEF Agree, n, a

\* An outbound entry that is put in is counted.
LEMMA DialEnters ==
  ASSUME NEW f, NEW g, NEW used, NEW m, Agree(f, g, used, m), NEW h,
         NEW d \in Dialers, f[d].entry = FALSE, h[d].entry = TRUE, h[d].addr \in Addresses,
         \A e \in Dialers \ {d} : h[e] = f[e]
  PROVE  Agree(h, g, used + 1, CountUp(m, h[d].addr))
  <1> DEFINE a == h[d].addr
             n == CountUp(m, a)
  <1>0. m \in [Scopes -> Nat] /\ a \in Addresses
    BY DEF Agree
  <1>1. n \in [Scopes -> Nat] /\ \A x \in Scopes : n[x] = IF x \in ScopesOf[a] THEN m[x] + 1 ELSE m[x]
    BY <1>0, DownOnce
  <1>2. d \notin Out(f) /\ Out(h) = Out(f) \cup {d}
    BY DEF Out
  <1>3. /\ \A x : OutAt(h, x) = IF x \in ScopesOf[a] THEN OutAt(f, x) \cup {d} ELSE OutAt(f, x)
        /\ \A x : d \notin OutAt(f, x)
    BY DEF OutAt
  <1> HIDE DEF a, n
  <1>4. used + 1 = Cardinality(Out(h)) + Cardinality(In(g))
    <2>1. IsFiniteSet(Out(f)) /\ Cardinality(Out(f)) \in Nat /\ Cardinality(In(g)) \in Nat
      BY EntriesFinite DEF Out, In
    <2>2. Cardinality(Out(f) \cup {d}) = Cardinality(Out(f)) + 1
      BY ONLY <1>2, <2>1, OneMore, SMTT(30), Z3T(30)
    <2>3. used = Cardinality(Out(f)) + Cardinality(In(g))
      BY DEF Agree
    <2>4. QED
      BY ONLY <1>2, <2>1, <2>2, <2>3, SMTT(30), Z3T(30)
  <1>5. ASSUME NEW x \in Scopes PROVE Cardinality(OutAt(h, x)) + Cardinality(InAt(g, x)) <= n[x]
    <2>1. IsFiniteSet(OutAt(f, x)) /\ Cardinality(OutAt(f, x)) \in Nat /\ Cardinality(InAt(g, x)) \in Nat
      BY EntriesFinite DEF OutAt, InAt
    <2>2. Cardinality(OutAt(f, x)) + Cardinality(InAt(g, x)) <= m[x] /\ m[x] \in Nat
      BY DEF Agree
    <2>3. Cardinality(OutAt(f, x) \cup {d}) = Cardinality(OutAt(f, x)) + 1
      BY <1>3, <2>1, OneMore
    <2>4. CASE x \in ScopesOf[a]
      <3>1. OutAt(h, x) = OutAt(f, x) \cup {d} /\ n[x] = m[x] + 1
        BY <1>1, <1>3, <2>4
      <3>2. QED
        BY ONLY <2>1, <2>2, <2>3, <3>1, SMTT(30), Z3T(30)
    <2>5. CASE x \notin ScopesOf[a]
      <3>1. OutAt(h, x) = OutAt(f, x) /\ n[x] = m[x]
        BY <1>1, <1>3, <2>5
      <3>2. QED
        BY ONLY <2>2, <3>1, SMTT(30), Z3T(30)
    <2>6. QED
      BY <2>4, <2>5
  <1>6. QED
    BY <1>1, <1>4, <1>5 DEF Agree, n, a

\* An inbound entry that is removed was counted; whether it is counted down
\* depends on the path it leaves by.
LEMMA SlotLeaves ==
  ASSUME NEW f, NEW g, NEW used, NEW m, Agree(f, g, used, m), NEW h,
         NEW i \in Slots, g[i] \in Addresses, h[i] = NoAddr,
         \A j \in Slots \ {i} : h[j] = g[j]
  PROVE  Agree(f, h, used - 1, CountDown(m, g[i])) /\ Agree(f, h, used - 1, m)
  <1> DEFINE a == g[i]
             n == CountDown(m, a)
  <1>0. m \in [Scopes -> Nat] /\ a \in Addresses /\ a # NoAddr
    BY ServiceAssumption DEF Agree
  <1>1. n \in [Scopes -> Nat] /\ \A x \in Scopes : n[x] = IF x \in ScopesOf[a] /\ m[x] > 0 THEN m[x] - 1 ELSE m[x]
    BY <1>0, DownOnce
  <1>2. i \in In(g) /\ In(h) = In(g) \ {i}
    BY <1>0 DEF In
  <1>3. /\ \A x : InAt(h, x) = InAt(g, x) \ {i}
        /\ \A x : i \in InAt(g, x) <=> x \in ScopesOf[a]
    BY <1>0 DEF InAt
  <1> HIDE DEF a, n
  <1>4. used - 1 = Cardinality(Out(f)) + Cardinality(In(h))
    <2>1. IsFiniteSet(In(g)) /\ Cardinality(Out(f)) \in Nat
      BY EntriesFinite DEF Out, In
    <2>2. Cardinality(In(g) \ {i}) = Cardinality(In(g)) - 1 /\ Cardinality(In(g)) \in Nat
      BY ONLY <1>2, <2>1, OneLess, SMTT(30), Z3T(30)
    <2>3. used = Cardinality(Out(f)) + Cardinality(In(g))
      BY DEF Agree
    <2>4. QED
      BY ONLY <1>2, <2>1, <2>2, <2>3, SMTT(30), Z3T(30)
  <1>5. ASSUME NEW x \in Scopes
        PROVE  /\ Cardinality(OutAt(f, x)) + Cardinality(InAt(h, x)) <= n[x]
               /\ Cardinality(OutAt(f, x)) + Cardinality(InAt(h, x)) <= m[x]
    <2>1. IsFiniteSet(InAt(g, x)) /\ Cardinality(InAt(g, x)) \in Nat /\ Cardinality(OutAt(f, x)) \in Nat
      BY EntriesFinite DEF OutAt, InAt
    <2>2. Cardinality(OutAt(f, x)) + Cardinality(InAt(g, x)) <= m[x] /\ m[x] \in Nat
      BY DEF Agree
    <2>3. CASE x \in ScopesOf[a]
      <3> DEFINE A == InAt(g, x)
      <3>1. IsFiniteSet(A) /\ i \in A /\ InAt(h, x) = A \ {i}
        BY <1>3, <2>1, <2>3
      <3> HIDE DEF A
      <3>2. Cardinality(A \ {i}) = Cardinality(A) - 1 /\ Cardinality(A) > 0 /\ Cardinality(A) \in Nat
        BY ONLY <3>1, OneLess, SMTT(30), Z3T(30)
      <3>3. n[x] = IF m[x] > 0 THEN m[x] - 1 ELSE m[x]
        BY <1>1, <2>3
      <3>4. Cardinality(OutAt(f, x)) + Cardinality(A) <= m[x]
        BY <2>2 DEF A
      <3>5. Cardinality(InAt(h, x)) = Cardinality(A) - 1
        BY ONLY <3>1, <3>2, SMTT(30), Z3T(30)
      <3>6. QED
        BY ONLY <2>1, <2>2, <3>2, <3>3, <3>4, <3>5, SMTT(30), Z3T(30)
    <2>4. CASE x \notin ScopesOf[a]
      <3>1. InAt(h, x) = InAt(g, x) \ {i} /\ i \notin InAt(g, x)
        BY ONLY <1>3, <2>4, SMTT(30), Z3T(30)
      <3>2. InAt(h, x) = InAt(g, x)
        BY ONLY <3>1, SMTT(30), Z3T(30)
      <3>3. n[x] = m[x]
        BY ONLY <1>1, <2>4, SMTT(30), Z3T(30)
      <3>4. QED
        BY ONLY <2>2, <3>2, <3>3, SMTT(30), Z3T(30)
    <2>5. QED
      BY <2>3, <2>4
  <1>6. Agree(f, h, used - 1, n)
    BY ONLY <1>1, <1>4, <1>5, SMTT(30), Z3T(30) DEF Agree
  <1>7. Agree(f, h, used - 1, m)
    BY ONLY <1>0, <1>4, <1>5, SMTT(30), Z3T(30) DEF Agree
  <1>8. QED
    BY <1>6, <1>7 DEF n, a

\* An inbound entry that is put in is counted.
LEMMA SlotEnters ==
  ASSUME NEW f, NEW g, NEW used, NEW m, Agree(f, g, used, m), NEW h,
         NEW i \in Slots, NEW a \in Addresses, g[i] = NoAddr, h[i] = a,
         \A j \in Slots \ {i} : h[j] = g[j]
  PROVE  Agree(f, h, used + 1, CountUp(m, a))
  <1> DEFINE n == CountUp(m, a)
  <1>0. m \in [Scopes -> Nat] /\ a # NoAddr
    BY ServiceAssumption DEF Agree
  <1>1. n \in [Scopes -> Nat] /\ \A x \in Scopes : n[x] = IF x \in ScopesOf[a] THEN m[x] + 1 ELSE m[x]
    BY <1>0, DownOnce
  <1>2. i \notin In(g) /\ In(h) = In(g) \cup {i}
    BY <1>0 DEF In
  <1>3. /\ \A x : InAt(h, x) = IF x \in ScopesOf[a] THEN InAt(g, x) \cup {i} ELSE InAt(g, x)
        /\ \A x : i \notin InAt(g, x)
    BY <1>0 DEF InAt
  <1> HIDE DEF n
  <1>4. used + 1 = Cardinality(Out(f)) + Cardinality(In(h))
    <2>1. IsFiniteSet(In(g)) /\ Cardinality(Out(f)) \in Nat /\ Cardinality(In(g)) \in Nat
      BY EntriesFinite DEF Out, In
    <2>2. Cardinality(In(g) \cup {i}) = Cardinality(In(g)) + 1
      BY ONLY <1>2, <2>1, OneMore, SMTT(30), Z3T(30)
    <2>3. used = Cardinality(Out(f)) + Cardinality(In(g))
      BY DEF Agree
    <2>4. QED
      BY ONLY <1>2, <2>1, <2>2, <2>3, SMTT(30), Z3T(30)
  <1>5. ASSUME NEW x \in Scopes PROVE Cardinality(OutAt(f, x)) + Cardinality(InAt(h, x)) <= n[x]
    <2>1. IsFiniteSet(InAt(g, x)) /\ Cardinality(InAt(g, x)) \in Nat /\ Cardinality(OutAt(f, x)) \in Nat
      BY EntriesFinite DEF OutAt, InAt
    <2>2. Cardinality(OutAt(f, x)) + Cardinality(InAt(g, x)) <= m[x] /\ m[x] \in Nat
      BY DEF Agree
    <2>3. Cardinality(InAt(g, x) \cup {i}) = Cardinality(InAt(g, x)) + 1
      BY <1>3, <2>1, OneMore
    <2>4. CASE x \in ScopesOf[a]
      <3>1. InAt(h, x) = InAt(g, x) \cup {i} /\ n[x] = m[x] + 1
        BY <1>1, <1>3, <2>4
      <3>2. QED
        BY ONLY <2>1, <2>2, <2>3, <3>1, SMTT(30), Z3T(30)
    <2>5. CASE x \notin ScopesOf[a]
      <3>1. InAt(h, x) = InAt(g, x) /\ n[x] = m[x]
        BY <1>1, <1>3, <2>5
      <3>2. QED
        BY ONLY <2>2, <3>1, SMTT(30), Z3T(30)
    <2>6. QED
      BY <2>4, <2>5
  <1>6. QED
    BY <1>1, <1>4, <1>5 DEF Agree, n

\* What the steps of dial_ssu2 make of a dialer.
LEMMA DialerRecords ==
  ASSUME PendingTypes, NEW d \in Dialers
  PROVE  /\ \A p \in Peers, a \in Addresses :
              dials' = [dials EXCEPT ![d] = [IdleDialer EXCEPT !.pc = "entering", !.addr = a, !.c.peer = p]]
              => /\ dials' \in [Dialers -> Dialer]
                 /\ dials'[d].pc = "entering" /\ dials'[d].entry = FALSE /\ dials'[d].addr = a
                 /\ \A e \in Dialers \ {d} : dials'[e] = dials[e]
         /\ dials' = [dials EXCEPT ![d] = IdleDialer]
              => /\ dials' \in [Dialers -> Dialer]
                 /\ dials'[d].pc = "idle" /\ dials'[d].entry = FALSE
                 /\ \A e \in Dialers \ {d} : dials'[e] = dials[e]
         /\ dials' = [dials EXCEPT ![d].entry = FALSE]
              => /\ dials' \in [Dialers -> Dialer]
                 /\ dials'[d].pc = dials[d].pc /\ dials'[d].entry = FALSE
                 /\ dials'[d].addr = dials[d].addr
                 /\ \A e \in Dialers \ {d} : dials'[e] = dials[e]
         /\ \A id \in LinkIds :
              dials' = [dials EXCEPT ![d].pc = "waiting", ![d].entry = TRUE, ![d].c.id = id]
              => /\ dials' \in [Dialers -> Dialer]
                 /\ dials'[d].pc = "waiting" /\ dials'[d].entry = TRUE
                 /\ dials'[d].addr = dials[d].addr /\ dials'[d].c.id = id
                 /\ \A e \in Dialers \ {d} : dials'[e] = dials[e]
  <1>1. dials \in [Dialers -> Dialer] /\ dials[d] \in Dialer /\ dials[d].c \in Candidate
    BY DEF PendingTypes, Dialer
  <1>2. IdleDialer \in Dialer /\ ~IdleDialer.entry /\ IdleDialer.pc = "idle"
    BY NoEntries
  <1>3. ASSUME NEW p \in Peers, NEW a \in Addresses,
               dials' = [dials EXCEPT ![d] = [IdleDialer EXCEPT !.pc = "entering", !.addr = a, !.c.peer = p]]
        PROVE  /\ dials' \in [Dialers -> Dialer]
               /\ dials'[d].pc = "entering" /\ dials'[d].entry = FALSE /\ dials'[d].addr = a
               /\ \A e \in Dialers \ {d} : dials'[e] = dials[e]
    <2> DEFINE r == [IdleDialer EXCEPT !.pc = "entering", !.addr = a, !.c.peer = p]
    <2>1. r \in Dialer /\ r.pc = "entering" /\ r.entry = FALSE /\ r.addr = a
      BY <1>2, ZenonT(60) DEF Dialer, Candidate, IdleDialer
    <2> HIDE DEF r
    <2>2. dials' = [dials EXCEPT ![d] = r]
      BY <1>3 DEF r
    <2>3. QED
      BY ONLY <1>1, <2>1, <2>2, SMTT(30), Z3T(30)
  <1>4. ASSUME dials' = [dials EXCEPT ![d] = IdleDialer]
        PROVE  /\ dials' \in [Dialers -> Dialer]
               /\ dials'[d].pc = "idle" /\ dials'[d].entry = FALSE
               /\ \A e \in Dialers \ {d} : dials'[e] = dials[e]
    BY <1>1, <1>2, <1>4
  <1>5. ASSUME dials' = [dials EXCEPT ![d].entry = FALSE]
        PROVE  /\ dials' \in [Dialers -> Dialer]
               /\ dials'[d].pc = dials[d].pc /\ dials'[d].entry = FALSE
               /\ dials'[d].addr = dials[d].addr
               /\ \A e \in Dialers \ {d} : dials'[e] = dials[e]
    BY <1>1, <1>5, ZenonT(60) DEF Dialer
  <1>6. ASSUME NEW id \in LinkIds,
               dials' = [dials EXCEPT ![d].pc = "waiting", ![d].entry = TRUE, ![d].c.id = id]
        PROVE  /\ dials' \in [Dialers -> Dialer]
               /\ dials'[d].pc = "waiting" /\ dials'[d].entry = TRUE
               /\ dials'[d].addr = dials[d].addr /\ dials'[d].c.id = id
               /\ \A e \in Dialers \ {d} : dials'[e] = dials[e]
    <2> DEFINE r == [dials[d] EXCEPT !.pc = "waiting", !.entry = TRUE, !.c.id = id]
    <2>1. r \in Dialer /\ r.pc = "waiting" /\ r.entry = TRUE /\ r.addr = dials[d].addr /\ r.c.id = id
      BY <1>1, ZenonT(60) DEF Dialer, Candidate
    <2> HIDE DEF r
    <2>2. dials' = [dials EXCEPT ![d] = r]
      BY <1>1, <1>6, ZenonT(60) DEF r
    <2>3. QED
      BY ONLY <1>1, <2>1, <2>2, SMTT(30), Z3T(30)
  <1>7. QED
    BY <1>3, <1>4, <1>5, <1>6, ZenonT(60)

\* Counts do not depend on dialers without an entry.
LEMMA DialSame ==
  ASSUME NEW f, NEW g, NEW used, NEW m, Agree(f, g, used, m), NEW h,
         \A e \in Dialers : /\ h[e].entry <=> f[e].entry
                            /\ f[e].entry => h[e].addr = f[e].addr
  PROVE  Agree(h, g, used, m)
  <1>1. Out(h) = Out(f) /\ \A x : OutAt(h, x) = OutAt(f, x)
    BY DEF Out, OutAt
  <1>2. QED
    BY <1>1, ZenonT(60) DEF Agree

\* Each step of a dialer keeps the pending entries and their counts together.
LEMMA DialerPending ==
  ASSUME OwnerInv, PendingInv, NEW d \in Dialers, DialerNext(d)
  PROVE  PendingInv'
  <1>1. PendingTypes /\ DialsSound /\ Agree(dials, pendIn, pendingUsed, pendingCount)
    BY PendingAgree DEF PendingInv
  <1>2. SUFFICES PendingTypes' /\ DialsSound' /\ Agree(dials', pendIn', pendingUsed', pendingCount')
    BY PendingAgreeNext
  <1>3. CASE \E p \in Peers, a \in Addresses : DialStart(d, p, a)
    <2>1. PICK p \in Peers, a \in Addresses : DialStart(d, p, a)
      BY <1>3
    <2>2. /\ dials' \in [Dialers -> Dialer]
          /\ dials'[d].pc = "entering" /\ dials'[d].entry = FALSE /\ dials'[d].addr = a
          /\ \A e \in Dialers \ {d} : dials'[e] = dials[e]
      BY <1>1, <2>1, DialerRecords, ZenonT(60) DEF DialStart
    <2>3. dials[d].pc = "idle" /\ UNCHANGED <<dialAddrs, pendIn, pendingUsed, pendingCount, down, loops>>
      BY <2>1 DEF DialStart, linkVars
    <2>4. dials[d].entry = FALSE
      BY <1>1, <2>3 DEF DialsSound, PendingTypes, Dialer
    <2>5. \A e \in Dialers : /\ dials'[e].entry <=> dials[e].entry
                             /\ dials[e].entry => dials'[e].addr = dials[e].addr
      BY <2>2, <2>4
    <2>6. Agree(dials', pendIn, pendingUsed, pendingCount)
      BY <1>1, <2>5, DialSame
    <2>7. a # NoAddr
      BY ServiceAssumption
    <2>8. QED
      BY <1>1, <2>2, <2>3, <2>6, <2>7 DEF PendingTypes, DialsSound
  <1>4. CASE DialDenied(d)
    <2>1. /\ dials' \in [Dialers -> Dialer]
          /\ dials'[d].pc = "idle" /\ dials'[d].entry = FALSE
          /\ \A e \in Dialers \ {d} : dials'[e] = dials[e]
      BY <1>1, <1>4, DialerRecords, ZenonT(60) DEF DialDenied
    <2>2. dials[d].pc = "entering" /\ UNCHANGED <<dialAddrs, pendIn, pendingUsed, pendingCount, down, loops>>
      BY <1>4 DEF DialDenied, linkVars
    <2>3. dials[d].entry = FALSE
      BY <1>1, <2>2 DEF DialsSound, PendingTypes, Dialer
    <2>4. \A e \in Dialers : /\ dials'[e].entry <=> dials[e].entry
                             /\ dials[e].entry => dials'[e].addr = dials[e].addr
      BY <2>1, <2>3
    <2>5. Agree(dials', pendIn, pendingUsed, pendingCount)
      BY <1>1, <2>4, DialSame
    <2>6. QED
      BY <1>1, <2>1, <2>2, <2>5 DEF PendingTypes, DialsSound
  <1>5. CASE DialEnter(d)
    <2>1. nextLink \in LinkIds
      BY <1>5 DEF DialEnter, OwnerInv, LinkTypes, LinkIds
    <2>2. /\ dials' \in [Dialers -> Dialer]
          /\ dials'[d].pc = "waiting" /\ dials'[d].entry = TRUE /\ dials'[d].addr = dials[d].addr
          /\ \A e \in Dialers \ {d} : dials'[e] = dials[e]
      BY <1>1, <1>5, <2>1, DialerRecords, ZenonT(60) DEF DialEnter, Enter
    <2>3. /\ dials[d].pc = "entering" /\ UNCHANGED <<pendIn, down, loops>>
          /\ pendingUsed' = pendingUsed + 1 /\ pendingCount' = CountUp(pendingCount, dials[d].addr)
          /\ dialAddrs' = dialAddrs \cup {dials[d].addr}
      BY <1>5 DEF DialEnter, Enter
    <2>4. dials[d].entry = FALSE /\ dials[d].addr \in Addresses /\ dials[d].addr # NoAddr
      BY <1>1, <2>3 DEF DialsSound, PendingTypes, Dialer
    <2>5. Agree(dials', pendIn, pendingUsed + 1, CountUp(pendingCount, dials'[d].addr))
      <3> DEFINE h == dials'
      <3>1. h[d].entry = TRUE /\ h[d].addr \in Addresses /\ \A e \in Dialers \ {d} : h[e] = dials[e]
        BY <2>2, <2>4
      <3> HIDE DEF h
      <3>2. Agree(h, pendIn, pendingUsed + 1, CountUp(pendingCount, h[d].addr))
        BY <1>1, <2>4, <3>1, DialEnters, ZenonT(60)
      <3>3. QED
        BY <3>2 DEF h
    <2>6. Agree(dials', pendIn', pendingUsed', pendingCount')
      BY <2>2, <2>3, <2>5, ZenonT(60)
    <2>7. PendingTypes'
      BY <1>1, <2>2, <2>3, <2>4, <2>6, ZenonT(60) DEF PendingTypes, Agree
    <2>8. QED
      BY <1>1, <2>2, <2>4, <2>6, <2>7 DEF DialsSound
  <1>6. ASSUME dials[d].entry, RemoveOutbound(d), UNCHANGED <<pendIn, down, loops>>,
               \/ dials' = [dials EXCEPT ![d].entry = FALSE]
               \/ dials' = [dials EXCEPT ![d] = IdleDialer]
        PROVE  PendingTypes' /\ DialsSound' /\ Agree(dials', pendIn', pendingUsed', pendingCount')
    <2>1. /\ dials[d].entry = TRUE /\ dials[d].pc = "waiting"
          /\ dials[d].addr \in Addresses /\ dials[d].addr # NoAddr
      BY <1>1, <1>6 DEF DialsSound, PendingTypes, Dialer
    <2>2. /\ dials' \in [Dialers -> Dialer]
          /\ dials'[d].pc \in {"waiting", "idle"} /\ dials'[d].entry = FALSE
          /\ \A e \in Dialers \ {d} : dials'[e] = dials[e]
      BY <1>1, <1>6, <2>1, DialerRecords, ZenonT(60)
    <2>3. /\ pendingUsed' = pendingUsed - 1 /\ pendingCount' = CountDown(pendingCount, dials[d].addr)
          /\ dialAddrs' = dialAddrs \ {dials[d].addr}
      BY <1>6 DEF RemoveOutbound
    <2>4. Agree(dials', pendIn, pendingUsed - 1, CountDown(pendingCount, dials[d].addr))
      BY <1>1, <2>1, <2>2, DialLeaves, ZenonT(60)
    <2>5. Agree(dials', pendIn', pendingUsed', pendingCount')
      BY <1>6, <2>3, <2>4
    <2>6. PendingTypes'
      BY <1>1, <1>6, <2>2, <2>3, <2>5 DEF PendingTypes, Agree
    <2>7. QED
      BY <1>1, <2>2, <2>5, <2>6 DEF DialsSound
  <1>7. CASE FailOutbound(d) \/ PromoteOutbound(d)
    BY <1>6, <1>7 DEF FailOutbound, PromoteOutbound
  <1>8. CASE AbortDial(d)
    <2>1. CASE dials[d].entry
      BY <1>6, <1>8, <2>1 DEF AbortDial
    <2>2. CASE ~dials[d].entry
      <3>1. /\ dials' \in [Dialers -> Dialer]
            /\ dials'[d].pc = "idle" /\ dials'[d].entry = FALSE
            /\ \A e \in Dialers \ {d} : dials'[e] = dials[e]
        BY <1>1, <1>8, DialerRecords, ZenonT(60) DEF AbortDial
      <3>2. UNCHANGED <<dialAddrs, pendIn, pendingUsed, pendingCount, down, loops>>
        BY <1>8, <2>2 DEF AbortDial
      <3>3. \A e \in Dialers : /\ dials'[e].entry <=> dials[e].entry
                               /\ dials[e].entry => dials'[e].addr = dials[e].addr
        BY <2>2, <3>1
      <3>4. Agree(dials', pendIn, pendingUsed, pendingCount)
        BY <1>1, <3>3, DialSame
      <3>5. QED
        BY <1>1, <3>1, <3>2, <3>4 DEF PendingTypes, DialsSound
    <2>3. QED
      BY <2>1, <2>2
  <1>9. QED
    BY <1>3, <1>4, <1>5, <1>7, <1>8 DEF DialerNext

\* So does each step of an inbound handshake.
LEMMA InboundPending ==
  ASSUME OwnerInv, PendingInv, NEW i \in Slots, InboundNext(i)
  PROVE  PendingInv'
  <1>1. PendingTypes /\ DialsSound /\ Agree(dials, pendIn, pendingUsed, pendingCount)
    BY PendingAgree DEF PendingInv
  <1>2. SUFFICES PendingTypes' /\ DialsSound' /\ Agree(dials', pendIn', pendingUsed', pendingCount')
    BY PendingAgreeNext
  <1>3. UNCHANGED <<dials, dialAddrs, down, loops>>
    BY ZenonT(60) DEF InboundNext, AdmitInbound, PromoteInbound, RejectInbound, TimeoutInbound, DropInbound,
         AbandonInbound
  <1>4. SUFFICES /\ pendIn' \in [Slots -> Addresses \cup {NoAddr}]
                 /\ Agree(dials, pendIn', pendingUsed', pendingCount')
    BY <1>1, <1>3 DEF PendingTypes, DialsSound, Agree
  <1>5. CASE \E a \in Addresses : AdmitInbound(i, a)
    <2>1. PICK a \in Addresses : AdmitInbound(i, a)
      BY <1>5, ZenonT(60)
    <2>2. /\ pendIn' \in [Slots -> Addresses \cup {NoAddr}]
          /\ pendIn[i] = NoAddr /\ pendIn'[i] = a /\ \A j \in Slots \ {i} : pendIn'[j] = pendIn[j]
      BY <1>1, <2>1 DEF AdmitInbound, PendingTypes
    <2>3. pendingUsed' = pendingUsed + 1 /\ pendingCount' = CountUp(pendingCount, a)
      BY <2>1, ZenonT(60) DEF AdmitInbound
    <2>4. Agree(dials, pendIn', pendingUsed + 1, CountUp(pendingCount, a))
      BY <1>1, <2>2, SlotEnters
    <2>5. QED
      BY <2>2, <2>3, <2>4
  <1>6. ASSUME i \in PendingIn, RemoveInbound(i),
               pendingCount' \in {pendingCount, CountDown(pendingCount, pendIn[i])}
        PROVE  /\ pendIn' \in [Slots -> Addresses \cup {NoAddr}]
               /\ Agree(dials, pendIn', pendingUsed', pendingCount')
    <2>1. pendIn[i] \in Addresses
      BY <1>1, <1>6 DEF PendingIn, PendingTypes
    <2>2. /\ pendIn' \in [Slots -> Addresses \cup {NoAddr}]
          /\ pendIn'[i] = NoAddr /\ \A j \in Slots \ {i} : pendIn'[j] = pendIn[j]
          /\ pendingUsed' = pendingUsed - 1
      BY <1>1, <1>6 DEF RemoveInbound, PendingTypes
    <2>3. /\ Agree(dials, pendIn', pendingUsed - 1, CountDown(pendingCount, pendIn[i]))
          /\ Agree(dials, pendIn', pendingUsed - 1, pendingCount)
      BY <1>1, <2>1, <2>2, SlotLeaves
    <2>4. QED
      BY <1>6, <2>2, <2>3
  <1>7. CASE \E p \in Peers : PromoteInbound(i, p)
    BY <1>6, <1>7 DEF PromoteInbound
  <1>8. CASE RejectInbound(i) \/ TimeoutInbound(i) \/ DropInbound(i)
    BY <1>6, <1>8 DEF RejectInbound, TimeoutInbound, DropInbound,
         AbandonInbound
  <1>9. QED
    BY <1>5, <1>7, <1>8 DEF InboundNext

\* Cleaning up takes every entry away (cleanup_locked).
LEMMA CleanupPending ==
  ASSUME PendingInv, NEW f \in Loops, Cleanup(f)
  PROVE  PendingInv'
  <1>1. PendingTypes /\ DialsSound /\ Agree(dials, pendIn, pendingUsed, pendingCount)
    BY PendingAgree DEF PendingInv
  <1>2. SUFFICES PendingTypes' /\ DialsSound' /\ Agree(dials', pendIn', pendingUsed', pendingCount')
    BY PendingAgreeNext
  <1>3. /\ dials' = [d \in Dialers |-> [dials[d] EXCEPT !.entry = FALSE]]
        /\ dialAddrs' = {} /\ pendIn' = [i \in Slots |-> NoAddr]
        /\ pendingCount' = [x \in Scopes |-> 0] /\ pendingUsed' = pendingUsed - PendingTotal
        /\ down' = down /\ loops' = loops \ {f}
    BY DEF Cleanup
  <1>4. \A d \in Dialers : /\ [dials[d] EXCEPT !.entry = FALSE] \in Dialer
                           /\ [dials[d] EXCEPT !.entry = FALSE].entry = FALSE
                           /\ [dials[d] EXCEPT !.entry = FALSE].pc = dials[d].pc
                           /\ [dials[d] EXCEPT !.entry = FALSE].addr = dials[d].addr
    BY <1>1, ZenonT(60) DEF PendingTypes, Dialer
  <1>5. /\ dials' \in [Dialers -> Dialer]
        /\ \A d \in Dialers : /\ dials'[d].entry = FALSE /\ dials'[d].pc = dials[d].pc
                              /\ dials'[d].addr = dials[d].addr
    BY <1>3, <1>4, ZenonT(60)
  <1>6. /\ Out(dials') = {} /\ In(pendIn') = {}
        /\ \A x : OutAt(dials', x) = {} /\ InAt(pendIn', x) = {}
    BY <1>3, <1>5 DEF Out, In, OutAt, InAt
  <1>7. pendingUsed' = 0
    <2>1. pendingUsed = PendingTotal
      BY DEF PendingInv
    <2>2. PendingTotal \in Nat
      <3>1. Cardinality(PendingOut) \in Nat /\ Cardinality(PendingIn) \in Nat
        BY EntriesFinite DEF PendingOut, PendingIn
      <3>2. QED
        BY <3>1 DEF PendingTotal
    <2>3. QED
      BY ONLY <1>3, <2>1, <2>2, SMTT(30), Z3T(30)
  <1>8. Cardinality({}) = 0
    BY FS_EmptySet
  <1>9. Agree(dials', pendIn', pendingUsed', pendingCount')
    <2>1. pendingUsed' = Cardinality(Out(dials')) + Cardinality(In(pendIn'))
      BY <1>6, <1>7, <1>8
    <2>2. pendingCount' \in [Scopes -> Nat]
      BY <1>3
    <2>3. ASSUME NEW x \in Scopes
          PROVE Cardinality(OutAt(dials', x)) + Cardinality(InAt(pendIn', x)) <= pendingCount'[x]
      <3>1. pendingCount'[x] = 0
        BY <1>3
      <3>2. QED
        BY <1>6, <1>8, <3>1
    <2>4. QED
      BY ONLY <2>1, <2>2, <2>3, SMTT(30), Z3T(30) DEF Agree
  <1>10. QED
    BY <1>1, <1>3, <1>5, <1>9 DEF PendingTypes, DialsSound

\* Every step keeps the pending entries and their counts together.
LEMMA PendingStep ==
  ASSUME OwnerInv, PendingInv, [Next]_vars
  PROVE  PendingInv'
  <1>1. CASE Shutdown \/ UNCHANGED vars \/ \E l \in LinkIds : LinkNext(l)
    <2>1. /\ UNCHANGED <<dials, dialAddrs, pendIn, pendingCount, pendingUsed, loops>>
          /\ down' \in {down, TRUE}
      BY <1>1, ZenonT(60) DEF Shutdown, vars, linkVars, serviceVars, LinkNext, EndSession, Migrate, CloseSession,
                  CloseManagerLink, CloseLink
    <2>2. QED
      BY <2>1, ZenonT(60) DEF PendingInv, PendingTypes, DialsSound, PendingTotal, PendingOut, PendingIn, PendingAt
  <1>2. QED
    BY <1>1, DialerPending, InboundPending, CleanupPending DEF Next

-----------------------------------------------------------------------------
(* Sessions and links.                                                     *)

\* A peer that is linked has one link, which the policy compares a candidate with.
LEMMA OneLink ==
  ASSUME OwnerInv, NEW p \in Peers, peers[p] # {}
  PROVE  \E o \in Live : peers[p] = {o} /\ FirstLink(p) = o /\ links[o].peer = p
  <1>1. peers[p] = {l \in Live : links[l].peer = p}
    BY DEF OwnerInv, IndexConsistent
  <1>2. PICK o \in peers[p] : TRUE
    OBVIOUS
  <1>3. o \in Live /\ links[o].peer = p /\ peers[p] = {o}
    BY <1>1, <1>2 DEF OwnerInv, Owners
  <1>4. o <= o
    BY <1>3 DEF Live, LinkIds
  <1>5. FirstLink(p) = o
    BY <1>3, <1>4 DEF FirstLink
  <1>6. QED
    BY <1>3, <1>5

\* The links a promotion of c retires: the peer's, when the new direction wins.
Replaced(c) == peers[c.peer]

\* What an accepted promotion does: the new link and session, in place of
\* whatever the peer had.
Promoted(c, a) ==
  /\ links' = [l \in LinkIds |->
                 IF l = c.id THEN [peer |-> c.peer, dir |-> c.dir, state |-> "Authenticated"]
                 ELSE IF l \in Replaced(c) THEN NoLink ELSE links[l]]
  /\ peers' = [peers EXCEPT ![c.peer] = {c.id}]
  /\ activeUsed' = (activeUsed - Cardinality(Replaced(c))) + 1
  /\ activeUsed' <= ActiveLimit
  /\ active' = [l \in LinkIds |->
                  IF l = c.id THEN [peer |-> c.peer, addr |-> a]
                  ELSE IF l \in Replaced(c) \cap Sessions THEN NoSession ELSE active[l]]
  /\ peerLinks' = [peerLinks EXCEPT ![c.peer] = {c.id}]
  /\ Exact(activeCount', active')

\* A promotion is refused and changes nothing, or leaves the peer with exactly
\* the new link (register_authenticated under the service mutex).
LEMMA PromoteCases ==
  ASSUME OwnerInv, NEW c \in Candidate, c.id \notin Live, NEW a \in Addresses, Promote(c, a)
  PROVE  \/ UNCHANGED <<links, peers, activeUsed, active, peerLinks, activeCount>>
         \/ Promoted(c, a)
  <1>1. /\ c.id \in LinkIds /\ c.peer \in Peers /\ c.dir \in Directions
        /\ active \in [LinkIds -> Session] /\ links \in [LinkIds -> Link]
        /\ peers \in [Peers -> SUBSET LinkIds] /\ peerLinks \in [Peers -> SUBSET LinkIds]
        /\ activeCount \in [Scopes -> Nat]
    BY DEF Candidate, OwnerInv, LinkTypes
  <1>2. activeUsed = Cardinality(Live) /\ activeUsed \in Nat /\ activeUsed <= ActiveLimit
        /\ ActiveLimit \in Nat
    BY LinksFinite, LinkAssumption DEF OwnerInv, LinksBounded, Live
  <1>3. Exact(activeCount, active)
    BY <1>1, SessionsExact, ZenonT(60) DEF OwnerInv
  <1>4. Sessions \subseteq Live /\ c.id \notin Sessions /\ active[c.id].addr = NoAddr
    BY <1>1 DEF OwnerInv, Owners, Sessions
  <1>5. /\ peerLinks[c.peer] = {l \in Sessions : active[l].peer = c.peer}
        /\ peers[c.peer] = {l \in Live : links[l].peer = c.peer}
        /\ peerLinks[c.peer] = peers[c.peer] \cap Sessions
    BY <1>1, <1>4 DEF OwnerInv, Owners, IndexConsistent
  <1> DEFINE duplicate == DuplicateResolution(c)
             outcome == RegisterOutcome(c, duplicate)
             retired == Retired(c, duplicate)
             gone == IF outcome = "ReplaceExisting" THEN retired \cap Sessions ELSE {}
             given == IF gone = {} THEN activeCount ELSE CountDown(activeCount, active[FirstLink(c.peer)].addr)
             session == [peer |-> c.peer, addr |-> a]
             link == [peer |-> c.peer, dir |-> c.dir, state |-> "Authenticated"]
  <1>6. /\ links' = [l \in LinkIds |->
                       CASE outcome \in Accepted /\ l = c.id -> link
                         [] l \in retired -> NoLink
                         [] OTHER -> links[l]]
        /\ peers' = [peers EXCEPT ![c.peer] = (@ \ retired) \cup (IF outcome \in Accepted THEN {c.id} ELSE {})]
        /\ activeUsed' = (activeUsed - Cardinality(retired)) + (IF outcome \in Accepted THEN 1 ELSE 0)
        /\ active' = [l \in LinkIds |->
                        CASE outcome \in Accepted /\ l = c.id -> session
                          [] l \in gone -> NoSession
                          [] OTHER -> active[l]]
        /\ peerLinks' = [peerLinks EXCEPT ![c.peer] = (@ \ gone) \cup (IF outcome \in Accepted THEN {c.id} ELSE {})]
        /\ activeCount' = IF outcome \in Accepted THEN CountUp(given, a) ELSE activeCount
    BY ZenonT(60) DEF Promote, Register
  <1>7. CASE peers[c.peer] = {}
    <2>1. duplicate = "AcceptNew" /\ retired = {}
      BY <1>7 DEF DuplicateResolution, Retired, Occupied
    <2>2. outcome = IF Cardinality(Live) >= ActiveLimit THEN "RejectGlobalLimit" ELSE "AcceptFirst"
      BY <1>2, <1>7 DEF RegisterOutcome, Occupied
    <2>3. gone = {} /\ Cardinality({}) = 0
      BY <2>1, FS_EmptySet
    <2> HIDE DEF outcome, retired, gone, session, link
    <2>4. CASE outcome = "RejectGlobalLimit"
      <3>1. outcome \notin Accepted
        BY <2>4 DEF Accepted
      <3>2. QED
        BY <1>1, <1>2, <1>6, <2>1, <2>3, <3>1
    <2>5. CASE outcome = "AcceptFirst"
      <3>1. outcome \in Accepted /\ Replaced(c) = {} /\ activeUsed < ActiveLimit
        BY <1>2, <1>7, <2>2, <2>5 DEF Accepted, Replaced
      <3>2. /\ links' = [l \in LinkIds |-> IF l = c.id THEN link ELSE links[l]]
            /\ active' = [active EXCEPT ![c.id] = session]
            /\ peers' = [peers EXCEPT ![c.peer] = {c.id}]
            /\ activeUsed' = (activeUsed - 0) + 1
        BY <1>1, <1>6, <1>7, <2>1, <2>3, <3>1, ZenonT(60)
      <3>3. peerLinks' = [peerLinks EXCEPT ![c.peer] = {c.id}]
        BY <1>5, <1>6, <1>7, <2>3, <3>1, ZenonT(60)
      <3>4. Exact(activeCount', active')
        <4>1. activeCount' = CountUp(activeCount, a)
          BY <1>6, <2>3, <3>1
        <4>2. QED
          BY <1>1, <1>3, <1>4, <3>2, <4>1, CountedUp, ZenonT(60) DEF session
      <3>5. /\ links' = [l \in LinkIds |-> IF l = c.id THEN link
                                         ELSE IF l \in Replaced(c) THEN NoLink ELSE links[l]]
            /\ active' = [l \in LinkIds |->
                            IF l = c.id THEN session
                            ELSE IF l \in Replaced(c) \cap Sessions THEN NoSession ELSE active[l]]
        BY <1>1, <3>1, <3>2, ZenonT(60)
      <3>6. /\ activeUsed' = (activeUsed - Cardinality(Replaced(c))) + 1
            /\ activeUsed' <= ActiveLimit
        BY <1>2, <2>3, <3>1, <3>2
      <3>7. QED
        BY <3>2, <3>3, <3>4, <3>5, <3>6, ZenonT(60) DEF Promoted, session, link
    <2>6. QED
      BY <2>2, <2>4, <2>5, ZenonT(60)
  <1>8. CASE peers[c.peer] # {}
    <2>1. PICK o \in Live : peers[c.peer] = {o} /\ FirstLink(c.peer) = o /\ links[o].peer = c.peer
      BY <1>1, <1>8, OneLink
    <2>2. duplicate \in {"RejectNew", "ReplaceExisting", "RetainExistingDrainNew"}
      BY <1>8, <2>1 DEF DuplicateResolution, Decide
    <2>3. CASE duplicate # "ReplaceExisting"
      <3>1. outcome \notin Accepted /\ retired = {} /\ gone = {} /\ Cardinality({}) = 0
        BY <1>8, <2>2, <2>3, FS_EmptySet DEF RegisterOutcome, Occupied, Retired, Accepted
      <3> HIDE DEF outcome, retired, gone, session, link
      <3>2. QED
        BY <1>1, <1>2, <1>6, <3>1
    <2>4. CASE duplicate = "ReplaceExisting"
      <3>c. Occupied(c) /\ activeUsed - 1 < ActiveLimit
        <4>1. activeUsed \in Nat /\ activeUsed <= ActiveLimit /\ ActiveLimit \in Nat
          BY <1>2, ZenonT(60)
        <4>2. activeUsed - 1 < ActiveLimit
          BY ONLY <4>1, SMTT(30), Z3T(30)
        <4>3. QED
          BY <1>8, <4>2, ZenonT(60) DEF Occupied
      <3>d. RegisterOutcome(c, "ReplaceExisting") = "ReplaceExisting"
        BY ONLY <3>c, SMTT(30), Z3T(30) DEF RegisterOutcome
      <3>1. outcome = "ReplaceExisting" /\ retired = {o}
        BY <2>1, <2>4, <3>c, <3>d, ZenonT(60) DEF Retired
      <3>2. /\ gone = {o} \cap Sessions /\ outcome \in Accepted /\ Replaced(c) = {o}
            /\ Cardinality({o}) = 1 /\ o # c.id /\ o \in LinkIds
        BY <2>1, <3>1, FS_Singleton DEF Accepted, Replaced, Live
      <3>a. given = IF o \in Sessions THEN CountDown(activeCount, active[o].addr) ELSE activeCount
        BY <2>1, <3>2
      <3>b. activeUsed >= 1
        <4>1. Cardinality(Live) > 0
          BY <2>1, LinksFinite, OneLess, ZenonT(60) DEF Live
        <4>2. QED
          BY <1>2, <4>1
      <3> HIDE DEF outcome, retired, gone, session, link, given
      <3>3. /\ links' = [l \in LinkIds |-> IF l = c.id THEN link ELSE IF l \in {o} THEN NoLink ELSE links[l]]
            /\ peers' = [peers EXCEPT ![c.peer] = {c.id}]
            /\ activeUsed' = (activeUsed - 1) + 1
            /\ active' = [l \in LinkIds |->
                            IF l = c.id THEN session
                            ELSE IF l \in {o} \cap Sessions THEN NoSession ELSE active[l]]
            /\ activeCount' = CountUp(given, a)
        BY <1>1, <1>6, <2>1, <3>1, <3>2, ZenonT(60)
      <3>4. peerLinks' = [peerLinks EXCEPT ![c.peer] = {c.id}]
        BY <1>5, <1>6, <2>1, <3>2, ZenonT(60)
      <3>5. Exact(activeCount', active')
        <4>1. CASE o \in Sessions
          <5> DEFINE g == [active EXCEPT ![o] = NoSession]
          <5>1. Exact(given, g)
            BY <1>1, <1>3, <3>2, <3>a, <4>1, CountedDown, ZenonT(60)
          <5>2. g \in [LinkIds -> Session] /\ g[c.id].addr = NoAddr
            BY <1>1, <1>4, <3>2, NoEntries
          <5>3. active' = [g EXCEPT ![c.id] = session]
            BY <1>1, <3>2, <3>3, <4>1, ZenonT(60)
          <5> HIDE DEF g
          <5>4. QED
            BY <1>1, <3>3, <5>1, <5>2, <5>3, CountedUp DEF session
        <4>2. CASE o \notin Sessions
          <5>1. active' = [active EXCEPT ![c.id] = session] /\ given = activeCount
            BY <1>1, <3>3, <3>a, <4>2, ZenonT(60)
          <5>2. QED
            BY <1>1, <1>3, <1>4, <3>3, <5>1, CountedUp DEF session
        <4>3. QED
          BY <4>1, <4>2
      <3>6. QED
        BY <1>2, <3>2, <3>b, <3>3, <3>4, <3>5 DEF Promoted, session, link
    <2>5. QED
      BY <2>3, <2>4
  <1>9. QED
    BY <1>7, <1>8

\* Counts that agree with the sessions after a step.
LEMMA ExactNext == Exact(activeCount, active)' => SessionsCounted'
  <1>1. Exact(activeCount, active) => SessionsCounted
    <2>1. \A x : {l \in Sessions : x \in ScopesOf[active[l].addr]} = At(active, x)
      BY ZenonT(60) DEF Sessions, At
    <2>2. QED
      BY <2>1, ZenonT(60) DEF SessionsCounted, SessionsAt, Exact
  <1>2. QED
    BY <1>1, PTL

\* Identifiers stay fresh when dials only leave, the counter only grows, and what
\* becomes a link or is closed was established.
LEMMA StaysFresh ==
  ASSUME OwnerInv, PendingInv, nextLink' \in Int, nextLink' >= nextLink,
         PendingOut' \subseteq PendingOut,
         \A d \in PendingOut' : dials'[d].c.id = dials[d].c.id,
         \A l \in Live' \cup closing' :
            l \in Live \cup closing \/ (l < nextLink' /\ \A d \in PendingOut' : dials[d].c.id # l)
  PROVE  IdsFresh'
  <1>1. /\ nextLink \in Int
        /\ \A d \in PendingOut : dials[d].c.id \in Int
        /\ \A l \in Live \cup closing : l \in Int
    <2>1. nextLink \in 1 .. MaxLinkId + 1 /\ closing \subseteq LinkIds
      BY ZenonT(60) DEF OwnerInv, LinkTypes
    <2>2. dials \in [Dialers -> Dialer]
      BY ZenonT(60) DEF PendingInv, PendingTypes
    <2>3. \A d \in PendingOut : dials[d].c.id \in Int
      BY ONLY <2>2, SMTT(30), Z3T(30) DEF Dialer, Candidate, PendingOut, LinkIds
    <2>4. Live \subseteq LinkIds
      BY ZenonT(60) DEF Live
    <2>5. nextLink \in Int /\ \A l \in Live \cup closing : l \in Int
      BY ONLY <2>1, <2>4, SMTT(30), Z3T(30) DEF LinkIds
    <2>6. QED
      BY <2>3, <2>5, ZenonT(60)
  <1>2. ASSUME NEW l \in Live' \cup closing' PROVE Established(l)'
    <2>1. CASE l \in Live \cup closing
      <3>1. l < nextLink /\ \A d \in PendingOut : dials[d].c.id # l
        BY <2>1 DEF OwnerInv, IdsFresh, Established
      <3>2. l < nextLink'
        BY ONLY <1>1, <2>1, <3>1, nextLink' \in Int, nextLink' >= nextLink, SMTT(30), Z3T(30)
      <3>3. \A d \in PendingOut' : dials'[d].c.id # l
        BY <3>1
      <3>4. QED
        BY <3>2, <3>3 DEF Established
    <2>2. CASE l < nextLink' /\ \A d \in PendingOut' : dials[d].c.id # l
      BY <2>2 DEF Established
    <2>3. QED
      BY <2>1, <2>2
  <1>3. ASSUME NEW d \in PendingOut'
        PROVE  /\ dials'[d].c.id < nextLink'
               /\ \A e \in PendingOut' : e # d => dials'[e].c.id # dials'[d].c.id
    <2>1. /\ d \in PendingOut /\ dials'[d].c.id = dials[d].c.id
          /\ dials[d].c.id < nextLink /\ dials[d].c.id \in Int
      BY <1>1 DEF OwnerInv, IdsFresh
    <2>a. nextLink \in Int
      BY <1>1, ZenonT(60)
    <2>2. dials'[d].c.id < nextLink'
      BY ONLY <2>a, <2>1, nextLink' \in Int, nextLink' >= nextLink, SMTT(30), Z3T(30)
    <2>3. QED
      BY <2>1, <2>2, ZenonT(60) DEF OwnerInv, IdsFresh
  <1>4. QED
    BY <1>2, <1>3, ZenonT(60) DEF IdsFresh

\* Identifiers stay fresh when links only leave.
LEMMA LeavingFresh ==
  ASSUME OwnerInv, UNCHANGED <<dials, nextLink>>, PendingOut' = PendingOut,
         Live' \cup closing' \subseteq Live \cup closing
  PROVE  IdsFresh'
  <1>1. IdsFresh /\ dials' = dials /\ nextLink' = nextLink
    BY ZenonT(60) DEF OwnerInv
  <1>2. QED
    BY <1>1, ZenonT(60) DEF IdsFresh, Established

\* A step that leaves sessions and links alone.
LEMMA QuietKeeps ==
  ASSUME OwnerInv, UNCHANGED <<links, peers, activeUsed, active, peerLinks, activeCount, closing>>,
         nextLink' \in 1 .. MaxLinkId + 1, IdsFresh'
  PROVE  OwnerInv'
  <1>1. Live' = Live /\ Sessions' = Sessions
    BY DEF Live, Sessions
  <1>2. SessionsCounted'
    BY <1>1, ZenonT(60) DEF OwnerInv, SessionsCounted, SessionsAt
  <1>3. QED
    BY <1>1, <1>2 DEF OwnerInv, LinkTypes, IndexConsistent, Owners, LinksBounded

\* The links and sessions after an accepted promotion.
LEMMA PromotedSets ==
  ASSUME OwnerInv, NEW c \in Candidate, c.id \notin Live, NEW a \in Addresses, Promoted(c, a)
  PROVE  /\ Live' = (Live \ Replaced(c)) \cup {c.id}
         /\ Sessions' = (Sessions \ Replaced(c)) \cup {c.id}
         /\ Replaced(c) = {l \in Live : links[l].peer = c.peer}
         /\ \A l \in Live \ Replaced(c) : links'[l] = links[l]
         /\ \A l \in Sessions \ Replaced(c) : active'[l] = active[l]
         /\ links'[c.id].peer = c.peer /\ active'[c.id].peer = c.peer
         /\ links' \in [LinkIds -> Link] /\ active' \in [LinkIds -> Session]
  <1>1. /\ c.id \in LinkIds /\ c.peer \in Peers /\ c.dir \in Directions
        /\ active \in [LinkIds -> Session] /\ links \in [LinkIds -> Link]
    BY DEF Candidate, OwnerInv, LinkTypes
  <1> DEFINE link == [peer |-> c.peer, dir |-> c.dir, state |-> "Authenticated"]
             session == [peer |-> c.peer, addr |-> a]
             R == Replaced(c)
  <1>2. R = {l \in Live : links[l].peer = c.peer}
    BY <1>1 DEF Replaced, OwnerInv, IndexConsistent
  <1>3. Sessions \subseteq Live /\ Live \subseteq LinkIds
    BY DEF OwnerInv, Owners, Live
  <1>4. link \in Link /\ link.state # "none" /\ link.peer = c.peer
    BY <1>1 DEF Link, LinkStates
  <1>5. session \in Session /\ session.addr # NoAddr /\ session.peer = c.peer
    BY <1>1, ServiceAssumption, ZenonT(60) DEF Session
  <1>6. /\ links' = [l \in LinkIds |-> IF l = c.id THEN link ELSE IF l \in R THEN NoLink ELSE links[l]]
        /\ active' = [l \in LinkIds |-> IF l = c.id THEN session
                                       ELSE IF l \in R \cap Sessions THEN NoSession ELSE active[l]]
    BY ZenonT(60) DEF Promoted
  <1> HIDE DEF link, session, R
  <1>7. links' \in [LinkIds -> Link] /\ active' \in [LinkIds -> Session]
    BY <1>1, <1>4, <1>5, <1>6, NoEntries, ZenonT(60)
  <1>8. Live' = (Live \ R) \cup {c.id}
    BY <1>1, <1>4, <1>6, NoEntries, ZenonT(60) DEF Live
  <1>9. Sessions' = (Sessions \ R) \cup {c.id}
    BY <1>1, <1>5, <1>6, NoEntries, ZenonT(60) DEF Sessions
  <1>10. /\ \A l \in Live \ R : links'[l] = links[l]
         /\ \A l \in Sessions \ R : active'[l] = active[l]
    BY <1>3, <1>6, ZenonT(60)
  <1>11. links'[c.id].peer = c.peer /\ active'[c.id].peer = c.peer
    BY <1>1, <1>4, <1>5, <1>6
  <1>12. QED
    BY <1>2, <1>7, <1>8, <1>9, <1>10, <1>11 DEF R

\* An accepted promotion keeps both owners together.
LEMMA PromotedKeeps ==
  ASSUME OwnerInv, NEW c \in Candidate, c.id \notin Live \cup closing, NEW a \in Addresses,
         Promoted(c, a), closing' = closing, nextLink' \in 1 .. MaxLinkId + 1, IdsFresh'
  PROVE  OwnerInv'
  <1> DEFINE R == Replaced(c)
  <1>1. /\ Live' = (Live \ R) \cup {c.id}
        /\ Sessions' = (Sessions \ R) \cup {c.id}
        /\ R = {l \in Live : links[l].peer = c.peer}
        /\ \A l \in Live \ R : links'[l] = links[l]
        /\ \A l \in Sessions \ R : active'[l] = active[l]
        /\ links'[c.id].peer = c.peer /\ active'[c.id].peer = c.peer
        /\ links' \in [LinkIds -> Link] /\ active' \in [LinkIds -> Session]
    BY PromotedSets, ZenonT(60)
  <1>2. /\ peers' = [peers EXCEPT ![c.peer] = {c.id}]
        /\ peerLinks' = [peerLinks EXCEPT ![c.peer] = {c.id}]
        /\ activeUsed' = (activeUsed - Cardinality(R)) + 1 /\ activeUsed' <= ActiveLimit
        /\ Exact(activeCount', active')
    BY DEF Promoted
  <1>3. c.id \in LinkIds /\ c.peer \in Peers /\ Sessions \subseteq Live
    BY ZenonT(60) DEF Candidate, OwnerInv, Owners
  <1> HIDE DEF R
  <1>4. LinkTypes'
    BY <1>1, <1>2, <1>3, ZenonT(60) DEF OwnerInv, LinkTypes, Exact
  <1>5. \A l \in Live \ R : links[l].peer # c.peer
    BY <1>1, ZenonT(60)
  <1>6. IndexConsistent'
    <2> SUFFICES ASSUME NEW p \in Peers PROVE peers'[p] = {l \in Live' : links'[l].peer = p}
      BY ZenonT(60) DEF IndexConsistent
    <2>1. peers[p] = {l \in Live : links[l].peer = p}
      BY DEF OwnerInv, IndexConsistent
    <2>2. peers'[p] = IF p = c.peer THEN {c.id} ELSE peers[p]
      BY <1>2, <1>3, ZenonT(60) DEF OwnerInv, LinkTypes
    <2>3. ASSUME NEW l PROVE l \in peers'[p] <=> l \in Live' /\ links'[l].peer = p
      <3>1. CASE p = c.peer
        BY <1>1, <1>5, <2>2, <3>1, ZenonT(60)
      <3>2. CASE p # c.peer
        <4>1. peers'[p] = peers[p]
          BY <2>2, <3>2, ZenonT(60)
        <4>2. l \in peers'[p] <=> l \in Live /\ links[l].peer = p
          BY <2>1, <4>1, ZenonT(60)
        <4>3. l \in Live /\ links[l].peer = p => l \in Live \ R
          BY <1>1, <3>2, ZenonT(60)
        <4>4. QED
          BY <1>1, <3>2, <4>2, <4>3, ZenonT(60)
      <3>3. QED
        BY <3>1, <3>2, ZenonT(60)
    <2> DEFINE S == {l \in Live' : links'[l].peer = p}
    <2>4. \A l : l \in peers'[p] <=> l \in S
      BY <2>3, ZenonT(60)
    <2> HIDE DEF S
    <2>5. peers'[p] = S
      BY ONLY <2>4, ZenonT(60)
    <2>6. QED
      BY <2>5, ZenonT(60) DEF S
  <1>7. Owners'
    <2>1. \A l \in Sessions' : l \in Live' /\ links'[l].peer = active'[l].peer
      BY <1>1, <1>3, ZenonT(60) DEF OwnerInv, Owners
    <2>2. Live' \subseteq Sessions' \cup closing' /\ Sessions' \cap closing' = {}
      <3>1. Live \subseteq Sessions \cup closing /\ Sessions \cap closing = {}
        BY ZenonT(60) DEF OwnerInv, Owners
      <3>2. Live' = (Live \ R) \cup {c.id} /\ Sessions' = (Sessions \ R) \cup {c.id}
        BY <1>1, ZenonT(60)
      <3>3. QED
        BY ONLY <3>1, <3>2, c.id \notin Live \cup closing, closing' = closing, SMTT(30), Z3T(30)
    <2>3. ASSUME NEW p \in Peers PROVE peerLinks'[p] = {l \in Sessions' : active'[l].peer = p}
      <3>1. peerLinks[p] = {l \in Sessions : active[l].peer = p}
        BY DEF OwnerInv, Owners
      <3>2. peerLinks'[p] = IF p = c.peer THEN {c.id} ELSE peerLinks[p]
        BY <1>2, <1>3, ZenonT(60) DEF OwnerInv, LinkTypes
      <3>3. \A l \in Sessions : links[l].peer = active[l].peer
        BY ZenonT(60) DEF OwnerInv, Owners
      <3>4. QED
        BY <1>1, <1>3, <1>5, <3>1, <3>2, <3>3
    <2>4. \A l, m \in Live' : links'[l].peer = links'[m].peer => l = m
      BY <1>1, <1>5 DEF OwnerInv, Owners
    <2>5. QED
      BY <2>1, <2>2, <2>3, <2>4, ZenonT(60) DEF Owners
  <1>8. LinksBounded'
    <2>1. IsFiniteSet(Live) /\ IsFiniteSet(R) /\ IsFiniteSet(Live \ R)
          /\ Cardinality(Live) \in Nat /\ Cardinality(R) \in Nat /\ Cardinality(Live \ R) \in Nat
      BY <1>1, LinksFinite DEF Live
    <2>2. Cardinality(Live \ R) = Cardinality(Live) - Cardinality(R)
      <3>1. Live \cap R = R
        BY <1>1
      <3>2. Cardinality(Live \ R) = Cardinality(Live) - Cardinality(Live \cap R)
        BY <2>1, FS_Difference, ZenonT(60)
      <3>3. QED
        BY <3>1, <3>2, ZenonT(60)
    <2>3. Cardinality(Live') = Cardinality(Live \ R) + 1
      <3>1. c.id \notin Live \ R
        OBVIOUS
      <3>2. QED
        BY <1>1, <2>1, <3>1, OneMore, ZenonT(60)
    <2>4. activeUsed = Cardinality(Live)
      BY DEF OwnerInv, LinksBounded
    <2>5. activeUsed' = Cardinality(Live')
      BY ONLY <1>2, <2>1, <2>2, <2>3, <2>4, SMTT(30), Z3T(30)
    <2>6. QED
      BY <1>2, <2>5, ZenonT(60) DEF LinksBounded
  <1>9. SessionsCounted'
    BY <1>2, ExactNext
  <1>10. QED
    BY <1>4, <1>6, <1>7, <1>8, <1>9, ZenonT(60) DEF OwnerInv

\* A session is taken out of the service's maps, wherever it was.
LEMMA RemoveActiveIs ==
  ASSUME OwnerInv, NEW l \in LinkIds, RemoveActive(l)
  PROVE  /\ active' \in [LinkIds -> Session] /\ Sessions' = Sessions \ {l}
         /\ \A m \in Sessions' : active'[m] = active[m]
         /\ peerLinks' \in [Peers -> SUBSET LinkIds]
         /\ \A p \in Peers : peerLinks'[p] = {m \in Sessions' : active'[m].peer = p}
         /\ Exact(activeCount', active')
  <1>1. /\ active \in [LinkIds -> Session] /\ active[l].peer \in Peers
        /\ peerLinks \in [Peers -> SUBSET LinkIds] /\ activeCount \in [Scopes -> Nat]
    BY DEF OwnerInv, LinkTypes, Session
  <1>2. /\ active' = [active EXCEPT ![l] = NoSession]
        /\ peerLinks' = [peerLinks EXCEPT ![active[l].peer] = IF l \in Sessions THEN @ \ {l} ELSE @]
        /\ activeCount' = CountDown(activeCount, active[l].addr)
    BY DEF RemoveActive
  <1>3. active' \in [LinkIds -> Session] /\ Sessions' = Sessions \ {l}
    BY <1>1, <1>2, NoEntries DEF Sessions
  <1>4. \A m \in Sessions' : active'[m] = active[m]
    BY <1>1, <1>2, <1>3 DEF Sessions
  <1>5. ASSUME NEW p \in Peers
        PROVE  peerLinks'[p] \in SUBSET LinkIds /\ peerLinks'[p] = {m \in Sessions' : active'[m].peer = p}
    <2>1. peerLinks[p] = {m \in Sessions : active[m].peer = p}
      BY DEF OwnerInv, Owners
    <2>2. peerLinks'[p] = IF p = active[l].peer /\ l \in Sessions THEN peerLinks[p] \ {l} ELSE peerLinks[p]
      BY <1>1, <1>2, ZenonT(60)
    <2>3. QED
      BY <1>1, <1>3, <1>4, <2>1, <2>2
  <1>6. Exact(activeCount, active)
    BY <1>1, SessionsExact DEF OwnerInv
  <1>7. Exact(activeCount', active')
    BY <1>1, <1>2, <1>6, CountedDown, ZenonT(60)
  <1>8. peerLinks' \in [Peers -> SUBSET LinkIds]
    BY <1>1, <1>2, <1>5
  <1>9. QED
    BY <1>3, <1>4, <1>5, <1>7, <1>8

\* A link is taken out of the manager's maps, if it is there (close_link).
LEMMA CloseLinkIs ==
  ASSUME OwnerInv, NEW l \in LinkIds, CloseLink(l)
  PROVE  /\ links' \in [LinkIds -> Link] /\ Live' = Live \ {l}
         /\ \A m \in Live' : links'[m] = links[m]
         /\ peers' \in [Peers -> SUBSET LinkIds] /\ nextLink' = nextLink
         /\ IndexConsistent' /\ LinksBounded'
  <1>1. /\ links \in [LinkIds -> Link] /\ links[l].peer \in Peers
        /\ peers \in [Peers -> SUBSET LinkIds]
    BY DEF OwnerInv, LinkTypes, Link
  <1>2. /\ links' = [links EXCEPT ![l] = NoLink]
        /\ peers' = [peers EXCEPT ![links[l].peer] = IF l \in Live THEN @ \ {l} ELSE @]
        /\ activeUsed' = IF l \in Live THEN activeUsed - 1 ELSE activeUsed
        /\ nextLink' = nextLink
    BY DEF CloseLink
  <1>3. links' \in [LinkIds -> Link] /\ Live' = Live \ {l}
    BY <1>1, <1>2, NoEntries DEF Live
  <1>4. \A m \in Live' : links'[m] = links[m]
    BY <1>1, <1>2, <1>3, ZenonT(60) DEF Live
  <1>5. ASSUME NEW p \in Peers
        PROVE  peers'[p] \in SUBSET LinkIds /\ peers'[p] = {m \in Live' : links'[m].peer = p}
    <2>1. peers[p] = {m \in Live : links[m].peer = p}
      BY DEF OwnerInv, IndexConsistent
    <2>2. peers'[p] = IF p = links[l].peer /\ l \in Live THEN peers[p] \ {l} ELSE peers[p]
      BY <1>1, <1>2, ZenonT(60)
    <2>3. QED
      BY <1>1, <1>3, <1>4, <2>1, <2>2
  <1>6. LinksBounded'
    <2>1. activeUsed = Cardinality(Live) /\ activeUsed <= ActiveLimit /\ ActiveLimit \in Nat
      BY LinkAssumption DEF OwnerInv, LinksBounded
    <2>2. IsFiniteSet(Live) /\ Cardinality(Live) \in Nat
      BY LinksFinite DEF Live
    <2>3. CASE l \in Live
      <3>1. Cardinality(Live \ {l}) = Cardinality(Live) - 1
        BY ONLY <2>2, <2>3, OneLess, SMTT(30), Z3T(30)
      <3>2. QED
        BY <1>2, <1>3, <2>1, <2>2, <2>3, <3>1 DEF LinksBounded
    <2>4. CASE l \notin Live
      <3>1. Live' = Live
        BY <1>3, <2>4
      <3>2. QED
        BY <1>2, <2>1, <2>4, <3>1 DEF LinksBounded
    <2>5. QED
      BY <2>3, <2>4
  <1>7. peers' \in [Peers -> SUBSET LinkIds] /\ IndexConsistent'
    BY <1>1, <1>2, <1>5 DEF IndexConsistent
  <1>8. QED
    BY <1>2, <1>3, <1>4, <1>6, <1>7

\* Ending, moving and closing sessions keep both owners together.
LEMMA LinkOwner ==
  ASSUME OwnerInv, PendingInv, NEW l \in LinkIds, LinkNext(l)
  PROVE  OwnerInv'
  <1>0. UNCHANGED dials
    BY DEF LinkNext, EndSession, Migrate, CloseSession, CloseManagerLink
  <1>a. PendingOut' = PendingOut
    BY <1>0 DEF PendingOut
  <1>b. nextLink \in 1 .. MaxLinkId + 1 /\ nextLink \in Int
    <2>1. nextLink \in 1 .. MaxLinkId + 1
      BY ZenonT(60) DEF OwnerInv, LinkTypes
    <2>2. QED
      BY ONLY <2>1, SMTT(30), Z3T(30)
  <1>c. IdsFresh /\ Owners /\ Sessions \subseteq Live
    BY ZenonT(60) DEF OwnerInv, Owners
  <1>1. CASE EndSession(l)
    <2>1. RemoveActive(l) /\ CloseLink(l) /\ closing' = closing
      BY <1>1, ZenonT(60) DEF EndSession
    <2>2. /\ active' \in [LinkIds -> Session] /\ Sessions' = Sessions \ {l}
          /\ \A m \in Sessions' : active'[m] = active[m]
          /\ peerLinks' \in [Peers -> SUBSET LinkIds]
          /\ \A p \in Peers : peerLinks'[p] = {m \in Sessions' : active'[m].peer = p}
          /\ Exact(activeCount', active')
      BY <2>1, RemoveActiveIs
    <2>3. /\ links' \in [LinkIds -> Link] /\ Live' = Live \ {l}
          /\ \A m \in Live' : links'[m] = links[m]
          /\ peers' \in [Peers -> SUBSET LinkIds] /\ nextLink' = nextLink
          /\ IndexConsistent' /\ LinksBounded'
      BY <2>1, CloseLinkIs, ZenonT(60)
    <2>4. IdsFresh'
      BY <1>0, <1>a, <2>1, <2>3, LeavingFresh, ZenonT(60)
    <2>5. Owners'
      <3>1. \A m \in Sessions' : m \in Live' /\ links'[m].peer = active'[m].peer
        BY <1>c, <2>1, <2>2, <2>3, ZenonT(60) DEF Owners
      <3>2. Live' \subseteq Sessions' \cup closing' /\ Sessions' \cap closing' = {}
        BY <1>c, <2>1, <2>2, <2>3, ZenonT(60) DEF Owners
      <3>3. ASSUME NEW x \in Live', NEW y \in Live', links'[x].peer = links'[y].peer
            PROVE  x = y
        <4>1. x \in Live /\ y \in Live /\ links'[x] = links[x] /\ links'[y] = links[y]
          BY <2>3, ZenonT(60)
        <4>2. links[x].peer = links[y].peer
          BY ONLY <3>3, <4>1, ZenonT(60)
        <4>3. QED
          BY <1>c, <4>1, <4>2, ZenonT(60) DEF Owners
      <3>4. \A p \in Peers : peerLinks'[p] = {m \in Sessions' : active'[m].peer = p}
        BY <1>c, <2>1, <2>2, <2>3, ZenonT(60) DEF Owners
      <3>5. QED
        BY <3>1, <3>2, <3>3, <3>4, ZenonT(60) DEF Owners
    <2>6. LinkTypes'
      BY <2>1, <2>2, <2>3 DEF OwnerInv, LinkTypes, Exact
    <2>7. QED
      BY <2>2, <2>3, <2>4, <2>5, <2>6, ExactNext DEF OwnerInv
  <1>2. CASE CloseSession(l)
    <2>1. RemoveActive(l) /\ UNCHANGED linkVars /\ closing' = closing \cup {l} /\ Established(l)
      BY <1>2 DEF CloseSession
    <2>2. /\ active' \in [LinkIds -> Session] /\ Sessions' = Sessions \ {l}
          /\ \A m \in Sessions' : active'[m] = active[m]
          /\ peerLinks' \in [Peers -> SUBSET LinkIds]
          /\ \A p \in Peers : peerLinks'[p] = {m \in Sessions' : active'[m].peer = p}
          /\ Exact(activeCount', active')
      BY <2>1, RemoveActiveIs
    <2>3. Live' = Live /\ UNCHANGED <<links, peers, nextLink, activeUsed>>
      BY <2>1 DEF Live, linkVars
    <2>4. IdsFresh'
      BY <1>0, <1>a, <1>b, <2>1, <2>3, StaysFresh DEF Established
    <2>5. Owners'
      BY <1>c, <2>1, <2>2, <2>3, ZenonT(60) DEF Owners
    <2>6. LinkTypes' /\ IndexConsistent' /\ LinksBounded'
      BY <2>1, <2>2, <2>3, ZenonT(60) DEF OwnerInv, LinkTypes, Exact, IndexConsistent, LinksBounded
    <2>7. QED
      BY <2>2, <2>4, <2>5, <2>6, ExactNext DEF OwnerInv
  <1>3. CASE CloseManagerLink(l)
    <2>1. /\ l \in closing /\ CloseLink(l) /\ closing' = closing \ {l}
          /\ UNCHANGED <<active, peerLinks, activeCount>>
      BY <1>3 DEF CloseManagerLink
    <2>2. /\ links' \in [LinkIds -> Link] /\ Live' = Live \ {l}
          /\ \A m \in Live' : links'[m] = links[m]
          /\ peers' \in [Peers -> SUBSET LinkIds] /\ nextLink' = nextLink
          /\ IndexConsistent' /\ LinksBounded'
      BY <2>1, CloseLinkIs
    <2>3. Sessions' = Sessions
      BY <2>1, ZenonT(60) DEF Sessions
    <2>4. IdsFresh'
      <3>1. Live' \cup closing' \subseteq Live \cup closing
        BY <2>1, <2>2, ZenonT(60)
      <3>2. QED
        BY <1>0, <1>a, <2>2, <3>1, LeavingFresh, ZenonT(60)
    <2>5. Owners'
      <3>1. \A m \in Sessions' : m \in Live' /\ links'[m].peer = active'[m].peer
        BY <1>c, <2>1, <2>2, <2>3, ZenonT(60) DEF Owners
      <3>2. Live' \subseteq Sessions' \cup closing' /\ Sessions' \cap closing' = {}
        BY <1>c, <2>1, <2>2, <2>3, ZenonT(60) DEF Owners
      <3>3. ASSUME NEW x \in Live', NEW y \in Live', links'[x].peer = links'[y].peer
            PROVE  x = y
        <4>1. x \in Live /\ y \in Live /\ links'[x] = links[x] /\ links'[y] = links[y]
          BY <2>2, ZenonT(60)
        <4>2. links[x].peer = links[y].peer
          BY ONLY <3>3, <4>1, ZenonT(60)
        <4>3. QED
          BY <1>c, <4>1, <4>2, ZenonT(60) DEF Owners
      <3>4. \A p \in Peers : peerLinks'[p] = {m \in Sessions' : active'[m].peer = p}
        BY <1>c, <2>1, <2>2, <2>3 DEF Owners
      <3>5. QED
        BY <3>1, <3>2, <3>3, <3>4, ZenonT(60) DEF Owners
    <2>6. LinkTypes' /\ SessionsCounted'
      BY <2>1, <2>2, <2>3, ZenonT(60) DEF OwnerInv, LinkTypes, SessionsCounted, SessionsAt
    <2>7. QED
      BY <2>2, <2>4, <2>5, <2>6 DEF OwnerInv
  <1>4. CASE \E a \in Addresses : Migrate(l, a)
    <2>1. PICK a \in Addresses : Migrate(l, a)
      BY <1>4
    <2>2. /\ l \in Sessions /\ active' = [active EXCEPT ![l].addr = a]
          /\ activeCount' = CountUp(CountDown(activeCount, active[l].addr), a)
          /\ UNCHANGED <<links, peers, nextLink, activeUsed, peerLinks, closing>>
      BY <2>1 DEF Migrate, linkVars
    <2>3. active \in [LinkIds -> Session] /\ active[l] \in Session /\ active[l].peer \in Peers
      BY DEF OwnerInv, LinkTypes, Session
    <2> DEFINE g == [active EXCEPT ![l] = NoSession]
               n == CountDown(activeCount, active[l].addr)
               s == [peer |-> active[l].peer, addr |-> a]
    <2>4. s \in Session /\ s.addr # NoAddr /\ s.peer = active[l].peer
      BY <2>3, ServiceAssumption DEF Session
    <2>5. [active[l] EXCEPT !.addr = a] = s
      BY <2>3 DEF Session
    <2>6. active' = [active EXCEPT ![l] = s]
      BY <2>2, <2>3, <2>5, ZenonT(60)
    <2>7. Exact(activeCount, active)
      BY <2>3, SessionsExact DEF OwnerInv, LinkTypes
    <2>8. Exact(n, g)
      BY <2>3, <2>7, CountedDown, ZenonT(60)
    <2>9. g \in [LinkIds -> Session] /\ g[l].addr = NoAddr /\ active' = [g EXCEPT ![l] = s]
      BY <2>3, <2>6, NoEntries, ZenonT(60)
    <2>10. activeCount' = CountUp(n, a)
      BY <2>2
    <2> HIDE DEF g, n
    <2>11. Exact(activeCount', active')
      BY <2>3, <2>8, <2>9, <2>10, CountedUp, ZenonT(60) DEF s
    <2> HIDE DEF s
    <2>12. /\ active' \in [LinkIds -> Session] /\ Sessions' = Sessions /\ Live' = Live
           /\ \A m \in LinkIds : active'[m].peer = active[m].peer
      BY <2>2, <2>3, <2>4, <2>6, ZenonT(60) DEF Sessions, Live
    <2>13. IdsFresh'
      BY <1>0, <1>a, <1>b, <2>2, <2>12, StaysFresh
    <2>14. Owners'
      BY <1>c, <2>2, <2>12 DEF Owners, Sessions
    <2>15. LinkTypes' /\ IndexConsistent' /\ LinksBounded'
      BY <2>2, <2>11, <2>12, ZenonT(60) DEF OwnerInv, LinkTypes, Exact, IndexConsistent, LinksBounded
    <2>16. QED
      BY <2>11, <2>13, <2>14, <2>15, ExactNext DEF OwnerInv
  <1>5. QED
    BY <1>1, <1>2, <1>3, <1>4 DEF LinkNext

\* Cleaning up takes every session and its link away and leaves the links whose
\* close is under way (cleanup_locked).
LEMMA CleanupOwner ==
  ASSUME OwnerInv, PendingInv, NEW f \in Loops, Cleanup(f)
  PROVE  OwnerInv'
  <1>1. /\ dials' = [d \in Dialers |-> [dials[d] EXCEPT !.entry = FALSE]]
        /\ active' = [l \in LinkIds |-> NoSession]
        /\ peerLinks' = [p \in Peers |-> {}]
        /\ activeCount' = [x \in Scopes |-> IF activeCount[x] > SessionsAt(x)
                                           THEN activeCount[x] - SessionsAt(x) ELSE 0]
        /\ links' = [l \in LinkIds |-> IF l \in Sessions THEN NoLink ELSE links[l]]
        /\ peers' = [p \in Peers |-> peers[p] \ Sessions]
        /\ activeUsed' = activeUsed - Cardinality(Sessions \cap Live)
        /\ UNCHANGED <<nextLink, closing>>
    BY ZenonT(60) DEF Cleanup
  <1>2. /\ links \in [LinkIds -> Link] /\ peers \in [Peers -> SUBSET LinkIds]
        /\ nextLink \in 1 .. MaxLinkId + 1 /\ nextLink \in Int
        /\ Sessions \subseteq Live /\ Live \subseteq LinkIds
    BY DEF OwnerInv, LinkTypes, Owners, Live
  <1>3. Sessions' = {}
    BY <1>1, NoEntries DEF Sessions
  <1>4. links' \in [LinkIds -> Link] /\ Live' = Live \ Sessions
    BY <1>1, <1>2, NoEntries DEF Live
  <1>5. \A m \in Live' : links'[m] = links[m]
    BY <1>1, <1>2, <1>4
  <1>6. PendingOut' = {}
    <2>1. \A d \in Dialers : ~dials'[d].entry
      BY <1>1 DEF PendingInv, PendingTypes, Dialer
    <2>2. QED
      BY <2>1 DEF PendingOut
  <1>7. IdsFresh'
    BY <1>1, <1>2, <1>4, <1>6, StaysFresh
  <1>8. Owners'
    BY <1>1, <1>3, <1>4, <1>5 DEF OwnerInv, Owners
  <1>9. ASSUME NEW p \in Peers PROVE peers'[p] = {m \in Live' : links'[m].peer = p}
    <2>1. peers[p] = {m \in Live : links[m].peer = p}
      BY DEF OwnerInv, IndexConsistent
    <2>2. peers'[p] = peers[p] \ Sessions
      BY <1>1
    <2>3. QED
      BY <1>4, <1>5, <2>1, <2>2, ZenonT(60)
  <1>10. LinksBounded'
    <2>1. /\ IsFiniteSet(Live) /\ IsFiniteSet(Sessions) /\ Cardinality(Live) \in Nat
          /\ Cardinality(Sessions) \in Nat /\ Cardinality(Live \ Sessions) \in Nat
      BY <1>2, LinksFinite
    <2>2. Sessions \cap Live = Sessions /\ Live \cap Sessions = Sessions
      BY <1>2
    <2>3. Cardinality(Live \ Sessions) = Cardinality(Live) - Cardinality(Live \cap Sessions)
      BY <2>1, FS_Difference, ZenonT(60)
    <2>4. activeUsed = Cardinality(Live) /\ activeUsed <= ActiveLimit /\ ActiveLimit \in Nat
      BY LinkAssumption DEF OwnerInv, LinksBounded
    <2>5. /\ activeUsed' = activeUsed - Cardinality(Sessions)
          /\ Cardinality(Live') = Cardinality(Live) - Cardinality(Sessions)
      BY ONLY <1>1, <1>4, <2>2, <2>3, ZenonT(60)
    <2>6. QED
      BY ONLY <2>1, <2>4, <2>5, SMTT(30), Z3T(30) DEF LinksBounded
  <1>11. activeCount' = [x \in Scopes |-> 0]
    <2>1. ASSUME NEW x \in Scopes
          PROVE  (IF activeCount[x] > SessionsAt(x) THEN activeCount[x] - SessionsAt(x) ELSE 0) = 0
      <3>1. activeCount[x] = SessionsAt(x) /\ activeCount[x] \in Nat
        BY DEF OwnerInv, SessionsCounted, LinkTypes
      <3>2. QED
        BY <3>1
    <2>2. QED
      BY <1>1, <2>1
  <1>12. SessionsCounted'
    <2>1. \A x : {l \in Sessions' : x \in ScopesOf[active'[l].addr]} = {}
      BY <1>3
    <2>2. Cardinality({}) = 0
      BY FS_EmptySet
    <2>3. QED
      BY <1>11, <2>1, <2>2 DEF SessionsCounted, SessionsAt
  <1>13. LinkTypes'
    BY <1>1, <1>2, <1>4, <1>11, NoEntries DEF OwnerInv, LinkTypes
  <1>14. QED
    BY <1>7, <1>8, <1>9, <1>10, <1>12, <1>13 DEF OwnerInv, IndexConsistent

\* The steps of a dialer keep both owners together.
LEMMA DialerOwner ==
  ASSUME OwnerInv, PendingInv, NEW d \in Dialers, DialerNext(d)
  PROVE  OwnerInv'
  <1>1. /\ PendingTypes /\ nextLink \in 1 .. MaxLinkId + 1 /\ nextLink \in Int
        /\ dials \in [Dialers -> Dialer]
    BY DEF PendingInv, PendingTypes, OwnerInv, LinkTypes
  <1>2. ASSUME dials'[d].entry = FALSE, \A e \in Dialers \ {d} : dials'[e] = dials[e]
        PROVE  /\ PendingOut' \subseteq PendingOut /\ d \notin PendingOut'
               /\ \A e \in PendingOut' : dials'[e].c.id = dials[e].c.id
    BY <1>2 DEF PendingOut
  <1>3. ASSUME UNCHANGED <<links, peers, nextLink, activeUsed, active, peerLinks, activeCount, closing>>,
               dials'[d].entry = FALSE, \A e \in Dialers \ {d} : dials'[e] = dials[e]
        PROVE  OwnerInv'
    <2>1. Live' = Live
      BY <1>3 DEF Live
    <2>2. /\ PendingOut' \subseteq PendingOut
          /\ \A e \in PendingOut' : dials'[e].c.id = dials[e].c.id
      BY <1>2, <1>3, ZenonT(60)
    <2>a. nextLink' = nextLink /\ nextLink \in Int
      BY <1>1, <1>3, ZenonT(60)
    <2>b. Live' \cup closing' = Live \cup closing
      BY <1>3, <2>1, ZenonT(60)
    <2>3. nextLink' \in Int /\ nextLink' >= nextLink /\ Live' \cup closing' = Live \cup closing
      BY ONLY <2>a, <2>b, SMTT(30), Z3T(30)
    <2>4. IdsFresh'
      BY <2>2, <2>3, StaysFresh
    <2>5. QED
      BY <1>1, <1>3, <2>4, QuietKeeps, ZenonT(60)
  <1>4. CASE \E p \in Peers, a \in Addresses : DialStart(d, p, a)
    <2>1. UNCHANGED <<links, peers, nextLink, activeUsed, active, peerLinks, activeCount, closing>>
      BY <1>4 DEF DialStart, linkVars
    <2>2. dials'[d].entry = FALSE /\ \A e \in Dialers \ {d} : dials'[e] = dials[e]
      <3>1. PICK p \in Peers, a \in Addresses : DialStart(d, p, a)
        BY <1>4
      <3>2. dials' = [dials EXCEPT ![d] = [IdleDialer EXCEPT !.pc = "entering", !.addr = a, !.c.peer = p]]
        BY <3>1, ZenonT(60) DEF DialStart
      <3>3. QED
        BY <1>1, <3>2, DialerRecords, ZenonT(60)
    <2>3. QED
      BY <1>3, <2>1, <2>2, ZenonT(60)
  <1>5. CASE DialDenied(d) \/ FailOutbound(d) \/ AbortDial(d)
    <2>1. UNCHANGED <<links, peers, nextLink, activeUsed, active, peerLinks, activeCount, closing>>
      BY <1>5 DEF DialDenied, FailOutbound, AbortDial, linkVars
    <2>2. dials'[d].entry = FALSE /\ \A e \in Dialers \ {d} : dials'[e] = dials[e]
      BY <1>1, <1>5, DialerRecords, ZenonT(60) DEF DialDenied, FailOutbound, AbortDial
    <2>3. QED
      BY <1>3, <2>1, <2>2, ZenonT(60)
  <1>6. CASE DialEnter(d)
    <2>1. /\ UNCHANGED <<links, peers, activeUsed, active, peerLinks, activeCount, closing>>
          /\ nextLink <= MaxLinkId /\ nextLink' = nextLink + 1
      BY <1>6 DEF DialEnter, Enter
    <2>a. nextLink \in Int /\ nextLink' = nextLink + 1
      BY <1>1, <2>1, ZenonT(60)
    <2>2. nextLink \in LinkIds /\ nextLink' \in 1 .. MaxLinkId + 1
      BY <1>1, <2>1, LinkAssumption DEF LinkIds
    <2>3. dials'[d].c.id = nextLink /\ \A e \in Dialers \ {d} : dials'[e] = dials[e]
      BY <1>1, <1>6, <2>2, DialerRecords, ZenonT(60) DEF DialEnter, Enter
    <2>4. Live' = Live /\ Live \subseteq Int /\ closing \subseteq Int
      BY <2>1 DEF Live, LinkIds, OwnerInv, LinkTypes
    <2>5. PendingOut' \subseteq PendingOut \cup {d}
      BY <2>3, ZenonT(60) DEF PendingOut
    <2>6. ASSUME NEW e \in PendingOut', e # d
          PROVE  e \in PendingOut /\ dials'[e] = dials[e] /\ dials[e].c.id \in Int /\ dials[e].c.id < nextLink
      BY <1>1, <2>3, <2>5, <2>6 DEF PendingOut, Dialer, Candidate, LinkIds, OwnerInv, IdsFresh
    <2>7. ASSUME NEW l \in Live' \cup closing' PROVE Established(l)'
      <3>1. l < nextLink /\ l \in Int /\ \A e \in PendingOut : dials[e].c.id # l
        BY <2>1, <2>4, ZenonT(60) DEF OwnerInv, IdsFresh, Established
      <3>2. l < nextLink' /\ l # nextLink
        BY ONLY <2>a, <3>1, SMTT(30), Z3T(30)
      <3>3. \A e \in PendingOut' : dials'[e].c.id # l
        BY <2>3, <2>6, <3>1, <3>2, ZenonT(60)
      <3>4. QED
        BY <3>2, <3>3 DEF Established
    <2>8. ASSUME NEW e \in PendingOut'
          PROVE  /\ dials'[e].c.id < nextLink'
                 /\ \A g \in PendingOut' : g # e => dials'[g].c.id # dials'[e].c.id
      <3>1. dials'[e].c.id < nextLink'
        <4>1. nextLink < nextLink' /\ \A j \in Int : j < nextLink => j < nextLink'
          BY ONLY <2>a, SMTT(30), Z3T(30)
        <4>2. QED
          BY <2>3, <2>6, <4>1, ZenonT(60)
      <3>2. ASSUME NEW g \in PendingOut', g # e PROVE dials'[g].c.id # dials'[e].c.id
        <4>a. ~(nextLink < nextLink)
          BY ONLY <2>a, SMTT(30), Z3T(30)
        <4>1. CASE e = d
          BY <2>3, <2>6, <3>2, <4>1, <4>a, ZenonT(60)
        <4>2. CASE g = d
          BY <2>3, <2>6, <3>2, <4>2, <4>a, ZenonT(60)
        <4>3. CASE e # d /\ g # d
          BY <2>6, <3>2, <4>3, ZenonT(60) DEF OwnerInv, IdsFresh
        <4>4. QED
          BY <4>1, <4>2, <4>3, ZenonT(60)
      <3>3. QED
        BY <3>1, <3>2, ZenonT(60)
    <2>9. IdsFresh'
      BY <2>7, <2>8 DEF IdsFresh
    <2>10. QED
      BY <2>1, <2>2, <2>9, QuietKeeps
  <1>7. CASE PromoteOutbound(d)
    <2> DEFINE c == dials[d].c
               a == dials[d].addr
    <2>1. /\ dials[d].entry /\ UNCHANGED <<nextLink, closing>>
          /\ dials' = [dials EXCEPT ![d].entry = FALSE]
          /\ \/ UNCHANGED <<links, peers, activeUsed, active, peerLinks, activeCount>>
             \/ Promote(c, a)
      BY <1>7 DEF PromoteOutbound
    <2>2. dials'[d].entry = FALSE /\ \A e \in Dialers \ {d} : dials'[e] = dials[e]
      BY <1>1, <2>1, DialerRecords, ZenonT(60)
    <2>3. d \in PendingOut /\ a \in Addresses /\ c \in Candidate
      BY <1>1, <2>1, ZenonT(60) DEF PendingInv, DialsSound, Dialer, PendingOut
    <2>4. /\ c.id \notin Live \cup closing /\ c.id < nextLink
          /\ \A e \in PendingOut : e # d => dials[e].c.id # c.id
      BY <2>3 DEF OwnerInv, IdsFresh, Established
    <2>5. CASE UNCHANGED <<links, peers, activeUsed, active, peerLinks, activeCount>>
      BY <1>3, <2>1, <2>2, <2>5, ZenonT(60)
    <2>6. CASE Promoted(c, a)
      <3>1. Live' = (Live \ Replaced(c)) \cup {c.id}
        BY <2>3, <2>4, <2>6, PromotedSets, ZenonT(60)
      <3>a. /\ PendingOut' \subseteq PendingOut /\ d \notin PendingOut'
            /\ \A e \in PendingOut' : dials'[e].c.id = dials[e].c.id
        BY <1>2, <2>2, ZenonT(60)
      <3>b. nextLink' = nextLink /\ nextLink \in Int /\ closing' = closing
        BY <1>1, <2>1, ZenonT(60)
      <3>c. nextLink' \in Int /\ nextLink' >= nextLink
        BY ONLY <3>b, SMTT(30), Z3T(30)
      <3>d. \A l \in Live' \cup closing' : \/ l \in Live \cup closing
                                           \/ l < nextLink' /\ \A e \in PendingOut' : dials[e].c.id # l
        <4>1. c.id < nextLink' /\ \A e \in PendingOut' : dials[e].c.id # c.id
          BY <2>4, <3>a, <3>b, ZenonT(60)
        <4>2. \A l \in Live' \cup closing' : l \in Live \cup closing \/ l = c.id
          BY <3>1, <3>b, ZenonT(60)
        <4>3. ASSUME NEW l, l = c.id
              PROVE  l < nextLink' /\ \A e \in PendingOut' : dials[e].c.id # l
          BY <4>1, <4>3, ZenonT(60)
        <4>4. QED
          BY <4>2, <4>3, ZenonT(60)
      <3>2. IdsFresh'
        BY <3>a, <3>c, <3>d, StaysFresh, ZenonT(60)
      <3>3. QED
        BY <1>1, <2>1, <2>3, <2>4, <2>6, <3>2, PromotedKeeps
    <2>7. QED
      BY <2>1, <2>3, <2>4, <2>5, <2>6, PromoteCases
  <1>8. QED
    BY <1>4, <1>5, <1>6, <1>7, ZenonT(60) DEF DialerNext

\* The steps of an inbound handshake keep both owners together.
LEMMA InboundOwner ==
  ASSUME OwnerInv, PendingInv, NEW i \in Slots, InboundNext(i)
  PROVE  OwnerInv'
  <1>0. UNCHANGED <<dials, closing>>
    BY ZenonT(60) DEF InboundNext, AdmitInbound, PromoteInbound, RejectInbound, TimeoutInbound, DropInbound,
         AbandonInbound
  <1>1. /\ nextLink \in 1 .. MaxLinkId + 1 /\ nextLink \in Int
        /\ UNCHANGED <<dials, closing>>
    BY <1>0 DEF OwnerInv, LinkTypes
  <1>2. PendingOut' = PendingOut
    BY <1>1 DEF PendingOut
  <1>3. ASSUME UNCHANGED <<links, peers, activeUsed, active, peerLinks, activeCount>>,
               nextLink' \in 1 .. MaxLinkId + 1, nextLink' >= nextLink
        PROVE  OwnerInv'
    <2>a. nextLink' \in Int
      BY ONLY <1>3, SMTT(30), Z3T(30)
    <2>1. Live' = Live /\ nextLink' \in Int
      BY <1>3, <2>a, ZenonT(60) DEF Live
    <2>2. IdsFresh'
      BY <1>1, <1>2, <1>3, <2>1, StaysFresh
    <2>3. QED
      BY <1>1, <1>3, <2>2, QuietKeeps
  <1>4. CASE (\E a \in Addresses : AdmitInbound(i, a)) \/ RejectInbound(i) \/ TimeoutInbound(i) \/ DropInbound(i)
    <2>1. UNCHANGED <<links, peers, activeUsed, active, peerLinks, activeCount, nextLink>>
      BY <1>4, ZenonT(60) DEF AdmitInbound, RejectInbound, TimeoutInbound, DropInbound,
         AbandonInbound
    <2>2. nextLink' \in 1 .. MaxLinkId + 1 /\ nextLink' = nextLink /\ nextLink \in Int
      BY <1>1, <2>1, ZenonT(60)
    <2>3. nextLink' >= nextLink
      BY ONLY <2>2, SMTT(30), Z3T(30)
    <2>4. QED
      BY <1>3, <2>1, <2>2, <2>3, ZenonT(60)
  <1>5. CASE \E p \in Peers : PromoteInbound(i, p)
    <2>1. PICK p \in Peers : PromoteInbound(i, p)
      BY <1>5
    <2> DEFINE a == pendIn[i]
               c == [id |-> nextLink, peer |-> p, dir |-> "in"]
    <2>2. /\ i \in PendingIn /\ nextLink <= MaxLinkId
          /\ nextLink' \in {nextLink, nextLink + 1}
          /\ \/ UNCHANGED <<links, peers, activeUsed, active, peerLinks, activeCount>>
             \/ Promote(c, a) /\ nextLink' = nextLink + 1
      BY <2>1 DEF PromoteInbound
    <2>a. /\ nextLink \in 1 .. MaxLinkId + 1 /\ nextLink <= MaxLinkId /\ MaxLinkId \in Nat \ {0}
          /\ nextLink' \in {nextLink, nextLink + 1}
      BY <1>1, <2>2, LinkAssumption, ZenonT(60)
    <2>3. nextLink \in LinkIds /\ nextLink' \in 1 .. MaxLinkId + 1 /\ nextLink' >= nextLink /\ nextLink' \in Int
      BY ONLY <2>a, SMTT(30), Z3T(30) DEF LinkIds
    <2>4. a \in Addresses /\ c \in Candidate /\ c.id = nextLink
      BY <2>2, <2>3 DEF PendingIn, PendingInv, PendingTypes, Candidate, Directions
    <2> HIDE DEF a, c
    <2>5. c.id \notin Live \cup closing /\ \A e \in PendingOut : dials[e].c.id # c.id
      <3>1. \A l \in Live \cup closing : l < nextLink
        BY DEF OwnerInv, IdsFresh, Established
      <3>2. \A e \in PendingOut : dials[e].c.id < nextLink
        BY DEF OwnerInv, IdsFresh
      <3>3. QED
        <4>1. nextLink \in Int
          BY <1>1, ZenonT(60)
        <4>2. ~(nextLink < nextLink)
          BY ONLY <4>1, SMTT(30), Z3T(30)
        <4>3. QED
          BY <2>4, <3>1, <3>2, <4>2, ZenonT(60)
    <2>6. CASE UNCHANGED <<links, peers, activeUsed, active, peerLinks, activeCount>>
      BY <1>3, <2>3, <2>6, ZenonT(60)
    <2>7. CASE Promoted(c, a) /\ nextLink' = nextLink + 1
      <3>1. Live' = (Live \ Replaced(c)) \cup {c.id}
        BY <2>4, <2>5, <2>7, PromotedSets, ZenonT(60)
      <3>a. c.id = nextLink /\ nextLink \in Int /\ nextLink' = nextLink + 1
        BY <1>1, <2>4, <2>7, ZenonT(60)
      <3>2. c.id < nextLink'
        BY ONLY <3>a, SMTT(30), Z3T(30)
      <3>3. IdsFresh'
        BY <1>1, <1>2, <2>3, <2>5, <3>1, <3>2, StaysFresh, ZenonT(60)
      <3>4. QED
        BY <1>1, <2>3, <2>4, <2>5, <2>7, <3>3, PromotedKeeps, ZenonT(60)
    <2>8. QED
      BY <2>2, <2>4, <2>5, <2>6, <2>7, PromoteCases, ZenonT(60)
  <1>6. QED
    BY <1>4, <1>5 DEF InboundNext

\* Every step keeps both owners together.
LEMMA OwnerStep ==
  ASSUME OwnerInv, PendingInv, [Next]_vars
  PROVE  OwnerInv'
  <1>1. CASE Shutdown \/ UNCHANGED vars
    <2>1. UNCHANGED <<links, peers, nextLink, activeUsed, active, peerLinks, activeCount, closing, dials>>
      BY <1>1, ZenonT(60) DEF Shutdown, vars, linkVars, serviceVars
    <2>2. IdsFresh'
      BY <2>1 DEF OwnerInv, IdsFresh, Live, PendingOut, Established
    <2>3. QED
      BY <2>1, <2>2, QuietKeeps DEF OwnerInv, LinkTypes
  <1>2. QED
    BY <1>1, DialerOwner, InboundOwner, LinkOwner, CleanupOwner, ZenonT(60) DEF Next

\* The service starts with nothing.
LEMMA ServiceInit == Init => ServiceInv
  <1>1. SUFFICES ASSUME Init PROVE ServiceInv
    OBVIOUS
  <1>2. /\ links = [l \in LinkIds |-> NoLink] /\ peers = [p \in Peers |-> {}]
        /\ nextLink = 1 /\ activeUsed = 0 /\ pendingUsed = 0
        /\ dials = [d \in Dialers |-> IdleDialer] /\ dialAddrs = {}
        /\ pendIn = [i \in Slots |-> NoAddr] /\ active = [l \in LinkIds |-> NoSession]
        /\ peerLinks = [p \in Peers |-> {}]
        /\ pendingCount = [x \in Scopes |-> 0] /\ activeCount = [x \in Scopes |-> 0]
        /\ closing = {} /\ down = FALSE /\ loops = Loops
    BY <1>1 DEF Init, LinkInit
  <1>3. Live = {} /\ Sessions = {} /\ PendingOut = {} /\ PendingIn = {}
    BY <1>2, NoEntries DEF Live, Sessions, PendingOut, PendingIn
  <1>4. Cardinality({}) = 0 /\ ActiveLimit \in Nat /\ 1 \in 1 .. MaxLinkId + 1
    BY FS_EmptySet, LinkAssumption
  <1>5. LinkTypes /\ PendingTypes
    BY <1>2, <1>4, NoEntries, ZenonT(60) DEF LinkTypes, PendingTypes
  <1>6. IndexConsistent /\ IdsFresh /\ Owners
    BY <1>2, <1>3, ZenonT(60) DEF IndexConsistent, IdsFresh, Owners
  <1>7. LinksBounded
    <2>1. activeUsed = 0 /\ Cardinality(Live) = 0 /\ ActiveLimit \in Nat
      BY <1>2, <1>3, <1>4, ZenonT(60)
    <2>2. QED
      BY ONLY <2>1, SMTT(30), Z3T(30) DEF LinksBounded
  <1>8. SessionsCounted
    <2>1. \A x : {l \in Sessions : x \in ScopesOf[active[l].addr]} = {}
      BY <1>3
    <2>2. QED
      BY <1>2, <1>4, <2>1, ZenonT(60) DEF SessionsCounted, SessionsAt
  <1>9. DialsSound
    BY <1>2, NoEntries DEF DialsSound
  <1>10. pendingUsed = PendingTotal
    BY <1>2, <1>3, <1>4 DEF PendingTotal
  <1>11. ASSUME NEW x \in Scopes PROVE PendingAt(x) <= pendingCount[x]
    <2>1. /\ {d \in PendingOut : x \in ScopesOf[dials[d].addr]} = {}
          /\ {i \in PendingIn : x \in ScopesOf[pendIn[i]]} = {}
      BY <1>3
    <2>2. PendingAt(x) = Cardinality({}) + Cardinality({})
      BY ONLY <2>1, ZenonT(60) DEF PendingAt
    <2>3. pendingCount[x] = 0
      BY <1>2
    <2>4. QED
      BY ONLY <1>4, <2>2, <2>3, SMTT(30), Z3T(30)
  <1>12. QED
    BY <1>5, <1>6, <1>7, <1>8, <1>9, <1>10, <1>11 DEF ServiceInv, OwnerInv, PendingInv

\* The inductive invariant of the service: fresh identifiers, sessions and links
\* together, budgets and counts (ssu2_runtime.rs on top of manager.rs).
THEOREM ServiceInvariant == Spec => []ServiceInv
  <1>1. ServiceInv /\ [Next]_vars => ServiceInv'
    BY OwnerStep, PendingStep DEF ServiceInv
  <1>2. QED
    BY <1>1, ServiceInit, PTL DEF Spec

\* The service and the manager never disagree about a session for longer than a
\* close_ssu2 takes between its two halves, and no peer ever has two links.
THEOREM OwnersAgree == Spec => []SessionsMatchLinks
  <1>1. ServiceInv => SessionsMatchLinks
    <2>1. SUFFICES ASSUME ServiceInv PROVE SessionsMatchLinks
      OBVIOUS
    <2>2. ASSUME NEW p \in Peers PROVE Cardinality(peers[p]) <= 1
      <3>1. CASE peers[p] = {}
        <4>1. Cardinality(peers[p]) = 0
          BY <3>1, FS_EmptySet
        <4>2. QED
          BY <4>1
      <3>2. CASE peers[p] # {}
        <4>1. PICK o \in Live : peers[p] = {o}
          BY <2>1, <3>2, OneLink DEF ServiceInv
        <4>2. Cardinality(peers[p]) = 1
          BY <4>1, FS_Singleton, ZenonT(60)
        <4>3. QED
          BY <4>2
      <3>3. QED
        BY <3>1, <3>2
    <2>3. QED
      BY <2>1, <2>2 DEF ServiceInv, OwnerInv, Owners, SessionsMatchLinks
  <1>2. QED
    BY <1>1, ServiceInvariant, PTL

\* Whatever way a handshake or a session ends, the budgets hold one unit for each
\* that is left and the counts per source agree with the sessions and do not lose
\* a pending handshake (count_up, count_down, subnet_up, subnet_down).
THEOREM CountsAreExact == Spec => []CountsExact
  <1>1. ServiceInv => CountsExact
    <2>1. SUFFICES ASSUME ServiceInv PROVE CountsExact
      OBVIOUS
    <2>2. activeUsed \in Nat
      BY <2>1, LinksFinite DEF ServiceInv, OwnerInv, LinksBounded, Live
    <2>3. pendingUsed \in Nat
      <3>1. Cardinality(PendingOut) \in Nat /\ Cardinality(PendingIn) \in Nat
        BY EntriesFinite DEF PendingOut, PendingIn
      <3>2. QED
        BY <2>1, <3>1 DEF ServiceInv, PendingInv, PendingTotal
    <2>4. TypeOK
      BY <2>1, <2>2, <2>3 DEF ServiceInv, OwnerInv, PendingInv, LinkTypes, PendingTypes, TypeOK, LinkTypeOK,
                              Session, Dialer
    <2>5. QED
      BY <2>1, <2>4 DEF ServiceInv, OwnerInv, PendingInv, LinksBounded, SessionsCounted, CountsExact,
                        ActiveLeasesExact
  <1>2. QED
    BY <1>1, ServiceInvariant, PTL
=============================================================================
