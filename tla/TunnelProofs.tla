---------------------------- MODULE TunnelProofs ----------------------------
(*****************************************************************************)
(* Proofs about the router's tunnels.                                        *)
(* Destination, for every pool configuration and horizon: the tables follow  *)
(* the pool, replenishment keeps to its targets, an advertised lease has its *)
(* tunnel and the NetDB only moves forward.                                  *)
(* Transit, for any builds, cells, peers, routers and ceilings: every        *)
(* registration that is served was answered for, and the registry keeps to   *)
(* its ceilings and stays empty once drained.                                *)
(*****************************************************************************)
EXTENDS Destination, Transit, FiniteSetTheorems, TLAPS

\* The time the solvers have for a leaf; one that is interrupted is tried again.
USE SMTT(30), Z3T(30), ZenonT(30), SMTT(40)

-----------------------------------------------------------------------------
(* Least and greatest numbers.                                             *)

\* A nonempty set of naturals has a least element.
LEMMA LeastExists ==
    ASSUME NEW S \in SUBSET Nat, S # {}
    PROVE  \E m \in S : \A y \in S : m <= y
  <1> DEFINE Below == {ss \in Nat \X Nat : ss[1] < ss[2]}
  <1>1. IsWellFoundedOn(Below, Nat)  BY NatLessThanWellFounded DEF OpToRel
  <1>2. \A y, m \in Nat : y < m => <<y, m>> \in Below  OBVIOUS
  <1> HIDE DEF Below
  <1>3. PICK m \in S : \A y \in S : ~(<<y, m>> \in Below)  BY <1>1, WFMin, ZenonT(60)
  <1>4. ASSUME NEW y \in S PROVE m <= y
    <2>1. y \in Nat /\ m \in Nat /\ ~(y < m)  BY <1>2, <1>3, ZenonT(60)
    <2> QED  BY <2>1
  <1> QED  BY <1>4

LEMMA MinIs ==
    ASSUME NEW S \in SUBSET Nat, S # {}
    PROVE  Min(S) \in S /\ \A y \in S : Min(S) <= y
  <1>1. \E m \in S : \A y \in S : m <= y  BY LeastExists
  <1> QED  BY <1>1, ZenonT(60) DEF Min

\* A nonempty bounded one has a greatest.
LEMMA MaxIs ==
    ASSUME NEW b \in Nat, NEW S \in SUBSET (0 .. b), S # {}
    PROVE  Max(S) \in S /\ \A y \in S : Max(S) >= y
  <1> DEFINE T == {b - x : x \in S}
  <1>1. T \in SUBSET Nat /\ T # {}
    <2>1. \A x \in S : x \in Int /\ x <= b  OBVIOUS
    <2>2. \A x \in S : b - x \in Nat  BY <2>1
    <2> QED  BY <2>2, ZenonT(60)
  <1>2. PICK m \in T : \A y \in T : m <= y
    <2> HIDE DEF T
    <2> QED  BY <1>1, LeastExists
  <1>3. PICK x \in S : m = b - x  OBVIOUS
  <1>4. \A y \in S : b - y \in T /\ y \in Int  OBVIOUS
  <1>5. \A y \in S : x >= y  BY <1>2, <1>3, <1>4
  <1> QED  BY <1>5, ZenonT(60) DEF Max

LEMMA MinOfTwo ==
    ASSUME NEW a \in Int, NEW b \in Int
    PROVE  Min({a, b}) \in {a, b} /\ Min({a, b}) <= a /\ Min({a, b}) <= b
  <1>1. \E x \in {a, b} : \A y \in {a, b} : x <= y
    <2>1. CASE a <= b  BY <2>1
    <2>2. CASE b <= a  BY <2>2
    <2> QED  BY <2>1, <2>2
  <1>2. Min({a, b}) \in {a, b} /\ \A y \in {a, b} : Min({a, b}) <= y  BY <1>1, ZenonT(60) DEF Min
  <1> QED  BY <1>2, ZenonT(60)

LEMMA MaxOfTwo ==
    ASSUME NEW a \in Int, NEW b \in Int
    PROVE  Max({a, b}) \in {a, b} /\ Max({a, b}) >= a /\ Max({a, b}) >= b
  <1>1. \E x \in {a, b} : \A y \in {a, b} : x >= y
    <2>1. CASE a >= b  BY <2>1
    <2>2. CASE b >= a  BY <2>2
    <2> QED  BY <2>1, <2>2
  <1>2. Max({a, b}) \in {a, b} /\ \A y \in {a, b} : Max({a, b}) >= y  BY <1>1, ZenonT(60) DEF Max
  <1> QED  BY <1>2, ZenonT(60)

-----------------------------------------------------------------------------
(* The pool.                                                               *)

States == {"Initializing", "BuildingTunnels", "Usable", "Degraded"}

Runtime == [tunnels : [Slots -> Tunnels], failures : 0 .. FailureThreshold, record : Records,
            lastPublished : 0 .. Horizon + TunnelLifetime, state : States]

\* Two runtimes that advertise the same from the same tunnels.
SamePool(d, e) == d.tunnels = e.tunnels /\ d.record = e.record /\ d.lastPublished = e.lastPublished

LEMMA SameOf ==
    ASSUME NEW d, NEW e, d.tunnels = e.tunnels
    PROVE  /\ \A dir \in Directions : Of(d, dir) = Of(e, dir)
           /\ \A t : Sources(d, t) = Sources(e, t) /\ (Publishable(d, t) <=> Publishable(e, t))
  <1>1. \A dir \in Directions : Of(d, dir) = Of(e, dir)  BY ZenonT(60) DEF Of
  <1>2. \A t : Sources(d, t) = Sources(e, t)  BY ZenonT(60) DEF Of, Sources
  <1> QED  BY <1>1, <1>2, ZenonT(60) DEF Publishable

\* NoteFailures and Recompute leave the pool alone.
LEMMA NoteFailuresIs ==
    ASSUME NEW d \in Runtime, NEW n \in Nat
    PROVE  NoteFailures(d, n) \in Runtime /\ SamePool(NoteFailures(d, n), d)
  <1>1. FailureThreshold \in Nat  BY ConfigAssumption
  <1>2. Min({d.failures + n, FailureThreshold}) \in 0 .. FailureThreshold
    <2>1. d.failures \in Nat /\ d.failures + n \in Int  BY <1>1 DEF Runtime
    <2>2. PICK m : m = Min({d.failures + n, FailureThreshold})  OBVIOUS
    <2>a. FailureThreshold \in Int  BY <1>1
    <2>3. m \in {d.failures + n, FailureThreshold} /\ m <= FailureThreshold  
      BY <2>1, <2>2, <2>a, MinOfTwo, ZenonT(60)
    <2> QED  BY <1>1, <2>1, <2>2, <2>3
  <1>3. (IF n > 0 /\ d.state = "Usable" THEN "Degraded" ELSE d.state) \in States  BY DEF Runtime, States
  <1> QED  BY <1>2, <1>3, ZenonT(60) DEF NoteFailures, Runtime, SamePool

LEMMA RecomputeIs ==
    ASSUME NEW d \in Runtime, NEW t
    PROVE  Recompute(d, t) \in Runtime /\ SamePool(Recompute(d, t), d)
  <1> DEFINE p == PoolUsable(d, t) /\ d.record # NoRecord
             v == CASE p -> "Usable"
                    [] ~p ->
                       IF Of(d, "in") \cup Of(d, "out") = {} /\ d.state = "Initializing" THEN "Initializing"
                       ELSE IF ~PoolUsable(d, t) /\ d.state = "Usable" THEN "Degraded"
                       ELSE IF d.state = "Degraded" THEN "Degraded"
                       ELSE "BuildingTunnels"
  <1>1. v \in States  BY DEF States
  <1>2. Recompute(d, t) = [d EXCEPT !.state = v]  BY DEF Recompute
  <1> HIDE DEF v
  <1> QED  BY <1>1, <1>2 DEF Runtime, SamePool

\* Evict empties the slots it is given.
LEMMA EvictIs ==
    ASSUME NEW d \in Runtime, NEW gone \in SUBSET Slots
    PROVE  /\ Evict(d, gone) \in Runtime
           /\ Evict(d, gone).record = d.record /\ Evict(d, gone).lastPublished = d.lastPublished
           /\ \A s \in Slots : Evict(d, gone).tunnels[s] = IF s \in gone THEN NoTunnel ELSE d.tunnels[s]
           /\ \A dir \in Directions : Of(Evict(d, gone), dir) = Of(d, dir) \ gone
  <1> DEFINE f == [s \in Slots |-> IF s \in gone THEN NoTunnel ELSE d.tunnels[s]]
             e == Evict(d, gone)
  <1>1. d.tunnels \in [Slots -> Tunnels]  BY DEF Runtime
  <1>2. f \in [Slots -> Tunnels]  BY <1>1 DEF Tunnels
  <1>3. e = [d EXCEPT !.tunnels = f]  BY DEF Evict
  <1>4. \A s \in Slots : f[s] = IF s \in gone THEN NoTunnel ELSE d.tunnels[s]  OBVIOUS
  <1> HIDE DEF f, e
  <1>5. e \in Runtime /\ e.tunnels = f /\ e.record = d.record /\ e.lastPublished = d.lastPublished
    BY <1>2, <1>3 DEF Runtime
  <1>6. \A dir \in Directions : Of(e, dir) = Of(d, dir) \ gone
    <2>1. NoTunnel.dir \notin Directions  BY DEF NoTunnel, Directions
    <2> QED  BY <1>4, <1>5, <2>1 DEF Of
  <1> QED  BY <1>4, <1>5, <1>6 DEF e

\* What the pool evicts has expired, so no lease of it is still advertised.
LEMMA ExpiredIs ==
    ASSUME NEW d \in Runtime, NEW t \in Times
    PROVE  /\ Expired(d, t) \in SUBSET Slots
           /\ \A s \in Expired(d, t) : d.tunnels[s] # NoTunnel /\ Expires(d.tunnels[s]) <= t
  <1>1. \A s \in Slots : d.tunnels[s] # NoTunnel => d.tunnels[s].created \in Nat
    <2>1. d.tunnels \in [Slots -> Tunnels]  BY DEF Runtime
    <2> QED  BY <2>1 DEF Tunnels, Times
  <1>2. t \in Nat /\ TunnelLifetime \in Nat  BY ConfigAssumption DEF Times
  <1> QED  BY <1>1, <1>2 DEF Expired, Expires

Lease == [slot : Slots, end : 1 .. Horizon + TunnelLifetime]

\* The leases that the pool can back.
LEMMA SourcesIs ==
    ASSUME NEW d \in Runtime, NEW t \in Times
    PROVE  /\ Sources(d, t) \in SUBSET Lease
           /\ \A l \in Sources(d, t) : /\ l.slot \in Of(d, "in") /\ l.end = AdvertisedEnd(d.tunnels[l.slot])
                                       /\ l.end > t /\ Expires(d.tunnels[l.slot]) \in 0 .. Horizon + TunnelLifetime
           /\ Publishable(d, t) => Sources(d, t) # {}
  <1>1. \A s \in Of(d, "in") : s \in Slots /\ d.tunnels[s].created \in 1 .. Horizon
    <2>1. d.tunnels \in [Slots -> Tunnels]  BY DEF Runtime
    <2> QED  BY <2>1 DEF Of, Tunnels, NoTunnel, Times
  <1>2. /\ t \in Nat \ {0} /\ TunnelLifetime \in Nat /\ PublicationMargin \in Nat /\ Horizon \in Nat
        /\ MinimumUsable \in Nat \ {0}
    BY ConfigAssumption DEF Times
  <1>3. \A s \in Of(d, "in") : AdvertisedEnd(d.tunnels[s]) > t =>
            /\ AdvertisedEnd(d.tunnels[s]) \in 1 .. Horizon + TunnelLifetime
            /\ Expires(d.tunnels[s]) \in 0 .. Horizon + TunnelLifetime
    BY <1>1, <1>2 DEF AdvertisedEnd, Expires
  <1>4. \A l \in Sources(d, t) : \E s \in Of(d, "in") :
            AdvertisedEnd(d.tunnels[s]) > t /\ l = [slot |-> s, end |-> AdvertisedEnd(d.tunnels[s])]
    BY ZenonT(60) DEF Sources
  <1>5. ASSUME NEW l \in Sources(d, t)
        PROVE  /\ l \in Lease /\ l.slot \in Of(d, "in") /\ l.end = AdvertisedEnd(d.tunnels[l.slot])
               /\ l.end > t /\ Expires(d.tunnels[l.slot]) \in 0 .. Horizon + TunnelLifetime
    <2>1. PICK s \in Of(d, "in") :
              AdvertisedEnd(d.tunnels[s]) > t /\ l = [slot |-> s, end |-> AdvertisedEnd(d.tunnels[s])]
      BY <1>4
    <2>2. l.slot = s /\ l.end = AdvertisedEnd(d.tunnels[s])  BY <2>1
    <2>3. l \in Lease  BY <1>1, <1>3, <2>1 DEF Lease
    <2> QED  BY <1>3, <2>1, <2>2, <2>3
  <1>6. Publishable(d, t) => Sources(d, t) # {}
    <2> SUFFICES ASSUME Sources(d, t) = {} PROVE ~Publishable(d, t)
      OBVIOUS
    <2>1. Cardinality(Sources(d, t)) = 0  BY FS_EmptySet
    <2> QED  BY <1>2, <2>1 DEF Publishable
  <1> QED  BY <1>5, <1>6

-----------------------------------------------------------------------------
(* The invariant.                                                          *)

Bridges == [record : Records, inbound : SUBSET Slots, outbound : SUBSET Slots]
Publications == [pending : BOOLEAN, retryAt : 0 .. Horizon + RetryDelay]
Phases == [name : {"serving", "retiring", "drained"}, until : 0 .. Horizon + TunnelLifetime,
           cap : 0 .. Horizon + RetirementCap]

\* The lease of a tunnel that is still to be used has its tunnel in the pool.
Alive(record, d, t) ==
    \A l \in record.leases :
        l.end > t => l.slot \in Of(d, "in") /\ AdvertisedEnd(d.tunnels[l.slot]) = l.end

Tables(d, o, br) == o = Of(d, "in") /\ br.inbound = Of(d, "in") /\ br.outbound = Of(d, "out")

Targets(d, b) ==
    /\ Cardinality(Of(d, "in")) + b["in"] <= InboundTarget
    /\ Cardinality(Of(d, "out")) + b["out"] <= OutboundTarget
    /\ b["in"] + b["out"] <= Concurrency

\* No record outside the runtime is newer than its last one, and a record that is
\* due is newer than the one the floodfills have.
Ordered(d, br, pub, nd) ==
    /\ br.record.published <= d.lastPublished /\ nd.published <= d.lastPublished
    /\ pub.pending => nd.published < br.record.published

\* What a running group maintains from poll to poll.
Good(d, b, o, br, pub, nd, t) ==
    /\ Tables(d, o, br) /\ Targets(d, b)
    /\ Alive(br.record, d, t) /\ Alive(nd, d, t)
    /\ Ordered(d, br, pub, nd)

\* What its phase adds: while the group serves, the bridge carries the runtime's
\* record; afterwards nothing is built or published.
InPhase(name, d, b, br, pub) ==
    IF name = "serving" THEN d.record \in {NoRecord, br.record} ELSE b = NoBuilds /\ ~pub.pending

GroupTypes ==
    /\ time \in Times /\ dest \in Runtime
    /\ builds \in [Directions -> 0 .. Concurrency]
    /\ owners \in SUBSET Slots /\ bridge \in Bridges /\ publication \in Publications /\ netdb \in Records
    /\ command \in {"run", "graceful"} /\ phase \in Phases /\ service \in {"running", "failed", "stopped"}

GroupInv ==
    /\ GroupTypes
    /\ Running => /\ Good(dest, builds, owners, bridge, publication, netdb, time)
                  /\ InPhase(phase.name, dest, builds, bridge, publication)

-----------------------------------------------------------------------------
(* What a poll does to the runtime.                                        *)

\* The record after advance_time: none when there are too few leases; else the
\* one before, if it still says the truth; else a newer one.
Refreshed(e, d, t) ==
    \/ /\ ~Publishable(e, t) /\ e.record = NoRecord /\ e.lastPublished = d.lastPublished
    \/ /\ Publishable(e, t) /\ e.record # NoRecord /\ e.record.leases = Sources(e, t)
       /\ \/ e.record = d.record /\ e.lastPublished = d.lastPublished
          \/ e.record.published = e.lastPublished /\ e.lastPublished > d.lastPublished

LEMMA AdvanceTimeIs ==
    ASSUME NEW d \in Runtime, NEW t \in Times, ~AdvanceFails(d, t)
    PROVE  /\ AdvanceTime(d, t) \in Runtime
           /\ AdvanceTime(d, t).tunnels = Evict(d, Expired(d, t)).tunnels
           /\ Refreshed(AdvanceTime(d, t), d, t)
  <1> DEFINE kept == Evict(d, Expired(d, t))
             next == NextPublished(kept, t)
             fresh == [leases |-> Sources(kept, t), published |-> next]
             none == [kept EXCEPT !.record = NoRecord]
             new == [kept EXCEPT !.record = fresh, !.lastPublished = next]
             e == AdvanceTime(d, t)
  <1>1. kept \in Runtime /\ kept.record = d.record /\ kept.lastPublished = d.lastPublished
    BY ExpiredIs, EvictIs
  <1>2. Decision(kept, t) = "Regenerate" => CanSign(kept, t)  BY ZenonT(60) DEF AdvanceFails
  <1>3. /\ Sources(kept, t) \in SUBSET Lease
        /\ Publishable(kept, t) => Sources(kept, t) # {}
    BY <1>1, SourcesIs, ZenonT(60)
  <1>4. NoRecord \in Records /\ NoRecord.leases = {}  BY ConfigAssumption DEF NoRecord, Records
  <1>5. CASE ~Publishable(kept, t)
    <2>1. e = Recompute(none, t)  BY <1>5 DEF AdvanceTime, Decision
    <2>2. none \in Runtime /\ none.tunnels = kept.tunnels /\ none.record = NoRecord
          /\ none.lastPublished = d.lastPublished
      BY <1>1, <1>4 DEF Runtime
    <2> HIDE DEF none, kept
    <2>3. e \in Runtime /\ SamePool(e, none)  BY <2>1, <2>2, RecomputeIs
    <2>4. e.tunnels = kept.tunnels  BY <2>2, <2>3 DEF SamePool
    <2>5. ~Publishable(e, t)  BY <1>5, <2>4, SameOf, ZenonT(60)
    <2>6. e.record = NoRecord /\ e.lastPublished = d.lastPublished  BY <2>2, <2>3 DEF SamePool
    <2>7. Refreshed(e, d, t)  BY <2>5, <2>6, ZenonT(60) DEF Refreshed
    <2> QED  BY <2>3, <2>4, <2>7 DEF kept
  <1>6. CASE Publishable(kept, t) /\ Decision(kept, t) = "Regenerate"
    <2>1. e = Recompute(new, t)  BY <1>6 DEF AdvanceTime
    <2>2. /\ d.lastPublished \in Nat /\ t \in Nat /\ Horizon \in Nat /\ TunnelLifetime \in Nat
      BY ConfigAssumption DEF Runtime, Times
    <2>3. next \in Nat /\ next > d.lastPublished  BY <1>1, <2>2 DEF NextPublished
    <2>4. next <= Horizon + TunnelLifetime
      <3>1. PICK l \in Sources(kept, t) : l.end > next  BY <1>2, <1>3, <1>6, ZenonT(60) DEF CanSign
      <3>2. l.end \in Nat /\ l.end <= Horizon + TunnelLifetime  
        <4> HIDE DEF next, kept
        <4> QED  BY <1>3, <2>2 DEF Lease
      <3> HIDE DEF next, kept
      <3> QED  BY <2>2, <2>3, <3>1, <3>2
    <2>5. fresh \in Records
      <3> HIDE DEF next, kept
      <3> QED  BY <1>3, <2>2, <2>3, <2>4 DEF Records, Lease
    <2>6. new \in Runtime /\ new.tunnels = kept.tunnels /\ new.record = fresh /\ new.lastPublished = next
      <3> HIDE DEF next, fresh, kept
      <3>1. next \in 0 .. Horizon + TunnelLifetime  BY <2>2, <2>3, <2>4
      <3>2. kept \in Runtime  BY <1>1
      <3> QED  BY ONLY <2>5, <3>1, <3>2, ZenonT(60) DEF new, Runtime
    <2>7. fresh.leases = Sources(kept, t) /\ fresh.published = next /\ fresh # NoRecord
      BY <1>3, <1>4, <1>6
    <2> HIDE DEF new, fresh, next, kept
    <2>8. e \in Runtime /\ SamePool(e, new)  BY <2>1, <2>6, RecomputeIs
    <2>9. e.tunnels = kept.tunnels /\ e.record = fresh /\ e.lastPublished = next
      BY <2>6, <2>8, ZenonT(60) DEF SamePool
    <2>10. Publishable(e, t) /\ Sources(e, t) = Sources(kept, t)  BY <1>6, <2>9, SameOf, ZenonT(60)
    <2>11. Refreshed(e, d, t)  BY <2>3, <2>7, <2>9, <2>10, ZenonT(60) DEF Refreshed
    <2> QED  BY <2>8, <2>9, <2>11 DEF kept
  <1>7. CASE Publishable(kept, t) /\ Decision(kept, t) # "Regenerate"
    <2>1. Decision(kept, t) = "Retain" /\ kept.record.leases = Sources(kept, t)
      BY <1>7 DEF Decision
    <2>2. e = Recompute(kept, t)  BY <2>1 DEF AdvanceTime
    <2> HIDE DEF kept
    <2>3. e \in Runtime /\ SamePool(e, kept)  BY <1>1, <2>2, RecomputeIs
    <2>4. e.tunnels = kept.tunnels /\ e.record = d.record /\ e.lastPublished = d.lastPublished
      BY <1>1, <2>3, ZenonT(60) DEF SamePool
    <2>5. Publishable(e, t) /\ Sources(e, t) = Sources(kept, t)  BY <1>7, <2>4, SameOf, ZenonT(60)
    <2>6. e.record.leases = Sources(e, t) /\ e.record # NoRecord
      BY <1>1, <1>3, <1>4, <1>7, <2>1, <2>4, <2>5, ZenonT(60)
    <2>7. Refreshed(e, d, t)  BY <2>4, <2>5, <2>6, ZenonT(60) DEF Refreshed
    <2> QED  BY <2>3, <2>4, <2>7 DEF kept
  <1> QED  BY <1>5, <1>6, <1>7

\* A lease that has not ended survives the eviction of what has expired.
LEMMA AliveKept ==
    ASSUME NEW d \in Runtime, NEW e \in Runtime, NEW t \in Times, NEW r \in Records, Alive(r, d, t),
           e.tunnels = Evict(d, Expired(d, t)).tunnels
    PROVE  Alive(r, e, t)
  <1> SUFFICES ASSUME NEW l \in r.leases, l.end > t
               PROVE  l.slot \in Of(e, "in") /\ AdvertisedEnd(e.tunnels[l.slot]) = l.end
    BY ZenonT(60) DEF Alive
  <1> DEFINE s == l.slot
  <1>1. s \in Of(d, "in") /\ AdvertisedEnd(d.tunnels[s]) = l.end  BY ZenonT(60) DEF Alive
  <1>2. d.tunnels[s].created \in Nat /\ s \in Slots
    <2>1. d.tunnels \in [Slots -> Tunnels]  BY DEF Runtime
    <2> QED  BY <1>1, <2>1 DEF Tunnels, Times, Of, NoTunnel
  <1>3. Expires(d.tunnels[s]) > t
    <2>1. TunnelLifetime \in Nat /\ PublicationMargin \in Nat /\ t \in Nat  BY ConfigAssumption DEF Times
    <2> QED  BY <1>1, <1>2, <2>1 DEF AdvertisedEnd, Expires
  <1>4. s \notin Expired(d, t)
    <2>1. TunnelLifetime \in Nat /\ t \in Nat  BY ConfigAssumption DEF Times
    <2> QED  BY <1>2, <1>3, <2>1, ExpiredIs DEF Expires
  <1>5. Expired(d, t) \in SUBSET Slots /\ "in" \in Directions  BY ExpiredIs DEF Directions
  <1>6. e.tunnels[s] = d.tunnels[s]  BY <1>2, <1>4, <1>5, EvictIs
  <1> QED  BY <1>1, <1>2, <1>6, ZenonT(60) DEF Of

LEMMA OfFinite ==
    ASSUME NEW d, NEW dir
    PROVE  IsFiniteSet(Of(d, dir)) /\ Cardinality(Of(d, dir)) \in Nat /\ Of(d, dir) \in SUBSET Slots
  <1>1. Of(d, dir) \in SUBSET Slots  BY DEF Of
  <1>2. IsFiniteSet(Slots)  BY ConfigAssumption, FS_Interval DEF Slots
  <1> QED  BY <1>1, <1>2, FS_Subset, FS_CardinalityType

\* Fewer tunnels and fewer builds keep the targets.
LEMMA TargetsShrink ==
    ASSUME NEW d, NEW e, NEW b \in [Directions -> 0 .. Concurrency], NEW c \in [Directions -> 0 .. Concurrency],
           \A dir \in Directions : Of(e, dir) \subseteq Of(d, dir) /\ c[dir] <= b[dir],
           Targets(d, b)
    PROVE  Targets(e, c)
  <1>1. /\ Concurrency \in Nat /\ InboundTarget \in Nat /\ OutboundTarget \in Nat
        /\ "in" \in Directions /\ "out" \in Directions
    BY ConfigAssumption DEF Directions
  <1>2. \A dir \in Directions : /\ Cardinality(Of(e, dir)) <= Cardinality(Of(d, dir))
                                /\ Cardinality(Of(e, dir)) \in Nat /\ Cardinality(Of(d, dir)) \in Nat
    BY OfFinite, FS_Subset
  <1>3. \A dir \in Directions : b[dir] \in Nat /\ c[dir] \in Nat /\ c[dir] <= b[dir]  BY <1>1
  <1> QED  BY <1>1, <1>2, <1>3 DEF Targets

\* replenish_group_destination starts no more builds than the targets and the
\* concurrency leave room for.
LEMMA StartedIs ==
    ASSUME NEW d, NEW b \in [Directions -> 0 .. Concurrency], Targets(d, b),
           NEW n \in 0 .. SubmitLimit(d, b)
    PROVE  Started(d, b, n) \in [Directions -> 0 .. Concurrency] /\ Targets(d, Started(d, b, n))
  <1> DEFINE i == Deficit(d, b, "in")
             o == Deficit(d, b, "out")
             room == Concurrency - b["in"] - b["out"]
             x == Min({i, (n + 1) \div 2})
             inbound == Max({x, n - o})
  <1>1. /\ Concurrency \in Nat /\ InboundTarget \in Nat /\ OutboundTarget \in Nat
        /\ "in" \in Directions /\ "out" \in Directions
    BY ConfigAssumption DEF Directions
  <1>2. Cardinality(Of(d, "in")) \in Nat /\ Cardinality(Of(d, "out")) \in Nat  BY OfFinite
  <1>3. b["in"] \in Nat /\ b["out"] \in Nat  BY <1>1
  <1>4. /\ i = InboundTarget - Cardinality(Of(d, "in")) - b["in"]
        /\ o = OutboundTarget - Cardinality(Of(d, "out")) - b["out"]
    BY DEF Deficit
  <1>5. i \in Nat /\ o \in Nat /\ room \in Nat
    <2> HIDE DEF i, o
    <2> QED  BY <1>1, <1>2, <1>3, <1>4 DEF Targets
  <1>6. n \in Nat /\ n <= room /\ n <= i + o
    <2>1. SubmitLimit(d, b) = IF ReplacementPaused(d) THEN 0 ELSE Min({room, i + o})
      BY ZenonT(60) DEF SubmitLimit
    <2> HIDE DEF i, o, room
    <2>2. i + o \in Int /\ room \in Int  BY <1>5
    <2>3. Min({room, i + o}) \in {room, i + o} /\ Min({room, i + o}) <= room /\ Min({room, i + o}) <= i + o
      BY <2>2, MinOfTwo, ZenonT(60)
    <2>4. PICK m : m = Min({room, i + o})  OBVIOUS
    <2>5. m \in Nat /\ m <= room /\ m <= i + o  BY <1>5, <2>3, <2>4
    <2>6. CASE ReplacementPaused(d)
      <3>1. n \in 0 .. 0  BY <2>1, <2>6, ZenonT(60)
      <3> QED  BY <1>5, <3>1
    <2>7. CASE ~ReplacementPaused(d)
      <3>1. n \in 0 .. m  BY <2>1, <2>4, <2>7, ZenonT(60)
      <3> QED  BY <1>5, <2>5, <3>1
    <2> QED  BY <2>6, <2>7
  <1>7. PICK h : h = (n + 1) \div 2  OBVIOUS
  <1>8. h \in Nat /\ h <= n
    <2>1. n \in Nat  BY <1>6
    <2> QED  BY ONLY <1>7, <2>1, SMTT(30), Z3T(30)
  <1>9. x \in {i, h} /\ x <= i /\ x <= h
    <2> HIDE DEF i
    <2>1. i \in Int /\ h \in Int  BY <1>5, <1>8
    <2> QED  BY <1>7, <2>1, MinOfTwo, ZenonT(60)
  <1>10. x \in Nat /\ x <= i /\ x <= n
    <2> HIDE DEF i, x
    <2> QED  BY <1>5, <1>6, <1>8, <1>9
  <1>11. inbound \in {x, n - o} /\ inbound >= x /\ inbound >= n - o
    <2> HIDE DEF o, x
    <2>1. x \in Int /\ n - o \in Int  BY <1>5, <1>6, <1>10
    <2> QED  BY <2>1, MaxOfTwo, ZenonT(60)
  <1>12. inbound \in Nat /\ inbound <= i /\ inbound <= n /\ n - inbound <= o
    <2> HIDE DEF i, o, x, inbound
    <2> QED  BY <1>5, <1>6, <1>10, <1>11
  <1>13. Started(d, b, n) = [b EXCEPT !["in"] = @ + inbound, !["out"] = @ + (n - inbound)]
    BY ZenonT(60) DEF Started
  <1> HIDE DEF i, o, x, inbound
  <1>14. /\ b["in"] + inbound \in 0 .. Concurrency /\ b["out"] + (n - inbound) \in 0 .. Concurrency
    BY <1>1, <1>3, <1>5, <1>6, <1>12
  <1>15. /\ Started(d, b, n) \in [Directions -> 0 .. Concurrency]
         /\ Started(d, b, n)["in"] = b["in"] + inbound
         /\ Started(d, b, n)["out"] = b["out"] + (n - inbound)
    BY <1>13, <1>14 DEF Directions
  <1>16. Targets(d, Started(d, b, n))
    BY <1>1, <1>2, <1>3, <1>4, <1>5, <1>6, <1>12, <1>15 DEF Targets
  <1> QED  BY <1>15, <1>16

-----------------------------------------------------------------------------
(* A poll.                                                                 *)

LEMMA PhaseIs ==
    ASSUME GroupTypes, NEW d \in Runtime
    PROVE  PhaseAt(d) \in Phases /\ PhaseAt(d).name = IF Retires THEN "retiring" ELSE phase.name
  <1>1. CASE ~Retires  BY <1>1 DEF PhaseAt, GroupTypes
  <1>2. CASE Retires
    <2> DEFINE S == {time} \cup {Expires(d.tunnels[l.slot]) : l \in Sources(d, time)}
               bound == Horizon + TunnelLifetime
    <2>1. time \in Times /\ time \in 0 .. bound /\ bound \in Nat  BY ConfigAssumption DEF GroupTypes, Times
    <2>2. \A l \in Sources(d, time) : Expires(d.tunnels[l.slot]) \in 0 .. bound
      BY <2>1, SourcesIs, ZenonT(60)
    <2> HIDE DEF bound
    <2>3. S \in SUBSET (0 .. bound) /\ S # {}  BY <2>1, <2>2
    <2>4. PhaseAt(d) = [name |-> "retiring", until |-> Min({Max(S), time + RetirementTarget}),
                        cap |-> time + RetirementCap]
      BY <1>2, ZenonT(60) DEF PhaseAt, Retirement
    <2> HIDE DEF S
    <2>5. Max(S) \in 0 .. bound  BY <2>1, <2>3, MaxIs, ZenonT(60)
    <2>6. time + RetirementTarget \in Nat /\ time + RetirementCap \in 0 .. Horizon + RetirementCap
      BY <2>1, ConfigAssumption DEF Times
    <2>7. Min({Max(S), time + RetirementTarget}) \in 0 .. bound
      <3> DEFINE m == Max(S)
                 T == {m, time + RetirementTarget}
      <3>1. m \in 0 .. bound  BY <2>5, ZenonT(60)
      <3> HIDE DEF m
      <3>2. T \in SUBSET Nat /\ T # {} /\ m \in T  BY <2>1, <2>6, <3>1
      <3> HIDE DEF T
      <3>3. Min(T) \in T /\ \A y \in T : Min(T) <= y  BY <3>2, MinIs, ZenonT(60)
      <3>4. Min(T) \in Nat /\ Min(T) <= m  BY <3>2, <3>3, ZenonT(60)
      <3>5. Min(T) \in 0 .. bound  BY <2>1, <3>1, <3>4
      <3> QED  BY <3>5 DEF T, m
    <2> QED  BY <1>2, <2>4, <2>6, <2>7 DEF Phases, bound
  <1> QED  BY <1>1, <1>2

\* The withdrawal of builds and publication that begins a retirement.
LEMMA RetirementIs ==
    ASSUME GroupTypes, NEW d \in Runtime, NEW b \in [Directions -> 0 .. Concurrency],
           NEW o \in SUBSET Slots, NEW br \in Bridges,
           Good(d, b, o, br, publication, netdb, time), InPhase(phase.name, d, b, br, publication),
           NEW pub, pub = IF Retires THEN NoPublication ELSE publication
    PROVE  /\ BuildsAt(b) \in [Directions -> 0 .. Concurrency] /\ pub \in Publications
           /\ Good(d, BuildsAt(b), o, br, pub, netdb, time)
           /\ InPhase(PhaseAt(d).name, d, BuildsAt(b), br, pub)
  <1>1. CASE ~Retires
    <2>1. BuildsAt(b) = b /\ pub = publication /\ PhaseAt(d).name = phase.name
      BY <1>1, PhaseIs, ZenonT(60) DEF BuildsAt
    <2> QED  BY <2>1 DEF GroupTypes
  <1>2. CASE Retires
    <2>1. BuildsAt(b) = NoBuilds /\ pub = NoPublication /\ PhaseAt(d).name = "retiring"
      BY <1>2, PhaseIs, ZenonT(60) DEF BuildsAt
    <2>2. NoBuilds \in [Directions -> 0 .. Concurrency] /\ \A dir \in Directions : NoBuilds[dir] <= b[dir]
      BY ConfigAssumption DEF NoBuilds
    <2>3. NoPublication \in Publications /\ ~NoPublication.pending
      BY ConfigAssumption DEF NoPublication, Publications
    <2>4. Targets(d, NoBuilds)
      <3>1. Targets(d, b)  BY ZenonT(60) DEF Good
      <3> QED  BY <2>2, <3>1, TargetsShrink
    <2>5. Good(d, NoBuilds, o, br, NoPublication, netdb, time)
      BY <2>3, <2>4, ZenonT(60) DEF Good, Ordered
    <2>6. InPhase("retiring", d, NoBuilds, br, NoPublication)  BY <2>3 DEF InPhase
    <2> QED  BY <2>1, <2>2, <2>3, <2>5, <2>6, ZenonT(60)
  <1> QED  BY <1>1, <1>2, ZenonT(60)

\* How the conclusions about a step are put together.
LEMMA StepIs ==
    ASSUME GroupTypes, time' = time, command' = command,
           dest' \in Runtime, builds' \in [Directions -> 0 .. Concurrency], owners' \in SUBSET Slots,
           bridge' \in Bridges, publication' \in Publications, netdb' \in Records, phase' \in Phases,
           service' \in {"running", "failed", "stopped"},
           service' = "running" => /\ Good(dest', builds', owners', bridge', publication', netdb', time)
                                   /\ InPhase(phase'.name, dest', builds', bridge', publication')
    PROVE  GroupInv'
  <1>1. GroupTypes'
    BY ZenonT(60) DEF GroupTypes, Runtime, Bridges, Publications, Records, Phases, States, Tunnels, Times, Slots, Directions,
           NoTunnel
  <1>2. ASSUME service' = "running"
        PROVE  /\ Good(dest', builds', owners', bridge', publication', netdb', time')
               /\ InPhase(phase'.name, dest', builds', bridge', publication')
    BY <1>2
  <1> QED  BY <1>1, <1>2, ZenonT(60) DEF GroupInv, Running

LEMMA DrainsKeeps ==
    ASSUME GroupTypes, NEW d \in Runtime, NEW b \in [Directions -> 0 .. Concurrency],
           NEW o \in SUBSET Slots, NEW br \in Bridges, NEW pub \in Publications,
           Good(d, b, o, br, pub, netdb, time), InPhase(PhaseAt(d).name, d, b, br, pub),
           service = "running", time' = time, command' = command,
           Drains(d, b, o, br, pub)
    PROVE  GroupInv' /\ netdb' = netdb
  <1>1. /\ PhaseAt(d).name = "retiring" /\ phase' = [name |-> "drained", until |-> 0, cap |-> 0]
        /\ dest' = d /\ builds' = b /\ owners' = o /\ bridge' = br /\ publication' = pub
        /\ netdb' = netdb /\ service' = service
    BY ZenonT(60) DEF Drains
  <1>2. InPhase("drained", d, b, br, pub)  BY <1>1, ZenonT(60) DEF InPhase
  <1>3. phase' \in Phases /\ phase'.name = "drained"  BY <1>1, ConfigAssumption DEF Phases
  <1>4. netdb' \in Records  BY <1>1 DEF GroupTypes
  <1> QED  BY <1>1, <1>2, <1>3, <1>4, StepIs

LEMMA SameGood ==
    ASSUME NEW d, NEW e, SamePool(e, d), NEW b, NEW o, NEW br, NEW pub, NEW nd, NEW t,
           Good(d, b, o, br, pub, nd, t)
    PROVE  Good(e, b, o, br, pub, nd, t)
  <1>1. e.tunnels = d.tunnels /\ e.record = d.record /\ e.lastPublished = d.lastPublished
    BY DEF SamePool
  <1>2. Of(e, "in") = Of(d, "in") /\ Of(e, "out") = Of(d, "out")
    BY <1>1, SameOf, ZenonT(60) DEF Directions
  <1>3. Tables(e, o, br) /\ Targets(e, b)  BY <1>2, ZenonT(60) DEF Good, Tables, Targets
  <1>4. Alive(br.record, e, t) /\ Alive(nd, e, t)  BY <1>1, <1>2, ZenonT(60) DEF Good, Alive
  <1>5. Ordered(e, br, pub, nd)  BY <1>1, ZenonT(60) DEF Good, Ordered
  <1> QED  BY <1>3, <1>4, <1>5, ZenonT(60) DEF Good

\* The bridge without the roles of the evicted slots.
Swept(br, gone) == [br EXCEPT !.inbound = @ \ gone, !.outbound = @ \ gone]

Evicted(d, left, o, br, pub, nd, t) ==
    /\ Good(AdvanceTime(d, t), left, Disown(o, Expired(d, t)), Swept(br, Expired(d, t)), pub, nd, t)
    /\ Swept(br, Expired(d, t)) \in Bridges /\ Swept(br, Expired(d, t)).record = br.record

\* Publication seconds are numbers, and a refresh never takes one back.
LEMMA SecondsAreNat ==
    /\ \A d \in Runtime : d.lastPublished \in Nat
    /\ \A r \in Records : r.published \in Nat
    /\ \A br \in Bridges : br.record \in Records
  <1>1. 0 .. Horizon + TunnelLifetime \subseteq Nat  BY ConfigAssumption
  <1>2. \A d \in Runtime : d.lastPublished \in Nat  BY <1>1, ZenonT(60) DEF Runtime
  <1>3. \A r \in Records : r.published \in Nat  BY <1>1, ZenonT(60) DEF Records
  <1> QED  BY <1>2, <1>3, ZenonT(60) DEF Bridges

\* The eviction and the tables that follow it.
LEMMA EvictedGood ==
    ASSUME NEW t \in Times, NEW d \in Runtime, ~AdvanceFails(d, t),
           NEW b \in [Directions -> 0 .. Concurrency], NEW left \in [Directions -> 0 .. Concurrency],
           \A dir \in Directions : left[dir] <= b[dir],
           NEW o, NEW br \in Bridges, NEW pub, NEW nd \in Records,
           Good(d, b, o, br, pub, nd, t)
    PROVE  Evicted(d, left, o, br, pub, nd, t)
  <1> DEFINE gone == Expired(d, t)
             br1 == Swept(br, gone)
             e == AdvanceTime(d, t)
  <1>0. e \in Runtime /\ e.tunnels = Evict(d, Expired(d, t)).tunnels /\ Refreshed(e, d, t)
    BY AdvanceTimeIs
  <1> HIDE DEF e
  <1>1. br1 \in Bridges /\ br1.record = br.record /\ br1.inbound = br.inbound \ gone
        /\ br1.outbound = br.outbound \ gone
    BY ZenonT(60) DEF Bridges, Swept
  <1>2. gone \in SUBSET Slots  BY ExpiredIs
  <1>3. Of(e, "in") = Of(d, "in") \ gone /\ Of(e, "out") = Of(d, "out") \ gone
    <2>1. \A dir \in Directions : Of(e, dir) = Of(Evict(d, gone), dir)  BY <1>0, SameOf, ZenonT(60)
    <2> QED  BY <1>2, <2>1, EvictIs, ZenonT(60) DEF Directions
  <1> HIDE DEF br1
  <1>4. Tables(e, Disown(o, gone), br1)
    <2>1. o = Of(d, "in") /\ br.inbound = Of(d, "in") /\ br.outbound = Of(d, "out")
      BY ZenonT(60) DEF Good, Tables
    <2> QED  BY <1>1, <1>3, <2>1, ZenonT(60) DEF Tables, Disown
  <1>5. Targets(e, left)
    <2>1. Targets(d, b)  BY ZenonT(60) DEF Good
    <2>2. \A dir \in Directions : Of(e, dir) \subseteq Of(d, dir) /\ left[dir] <= b[dir]
      BY <1>3, ZenonT(60) DEF Directions
    <2> QED  BY <2>1, <2>2, TargetsShrink
  <1>6. Alive(br1.record, e, t) /\ Alive(nd, e, t)
    <2>1. Alive(br.record, d, t) /\ Alive(nd, d, t)  BY ZenonT(60) DEF Good
    <2>2. br.record \in Records  BY DEF Bridges
    <2> QED  BY <1>0, <1>1, <2>1, <2>2, AliveKept, ZenonT(60)
  <1>7. Ordered(e, br1, pub, nd)
    <2>1. Ordered(d, br, pub, nd)  BY ZenonT(60) DEF Good
    <2>2. e.lastPublished \in Nat /\ d.lastPublished \in Nat /\ br.record.published \in Nat /\ nd.published \in Nat
      BY <1>0, SecondsAreNat, ZenonT(60)
    <2>3. e.lastPublished = d.lastPublished \/ d.lastPublished < e.lastPublished  BY <1>0, ZenonT(60) DEF Refreshed
    <2>a. d.lastPublished <= e.lastPublished  BY ONLY <2>2, <2>3, SMTT(30), Z3T(30)
    <2>4. br1.record.published <= e.lastPublished /\ nd.published <= e.lastPublished
      <3>1. br1.record.published <= d.lastPublished /\ nd.published <= d.lastPublished
        BY <1>1, <2>1, ZenonT(60) DEF Ordered
      <3> QED  BY ONLY <1>1, <2>2, <2>a, <3>1, SMTT(30), Z3T(30)
    <2> QED  BY <1>1, <2>1, <2>4, ZenonT(60) DEF Ordered
  <1>8. Good(e, left, Disown(o, gone), br1, pub, nd, t)  BY <1>4, <1>5, <1>6, <1>7, ZenonT(60) DEF Good
  <1> QED  BY <1>1, <1>8, ZenonT(60) DEF e, br1, Evicted

\* The record that the bridge carries from then on and the publication that is due.
Carried(e, br) == IF Fresh(e) # NoRecord THEN Fresh(e) ELSE br.record
Due(e, br, pub) == Scheduled(pub, br.record, Fresh(e))

LEMMA CarriedIs ==
    ASSUME GroupTypes, NEW d \in Runtime, NEW e \in Runtime, Refreshed(e, d, time),
           NEW br \in Bridges, NEW pub \in Publications, d.record \in {NoRecord, br.record},
           Ordered(d, br, pub, netdb), Ordered(e, br, pub, netdb), Alive(br.record, e, time)
    PROVE  /\ Carried(e, br) \in Records /\ Due(e, br, pub) \in Publications /\ Alive(Carried(e, br), e, time)
           /\ e.record \in {NoRecord, Carried(e, br)}
           /\ Carried(e, br).published <= e.lastPublished
           /\ Due(e, br, pub).pending => netdb.published < Carried(e, br).published
  <1>a. PICK record : record = Carried(e, br)  BY ZenonT(60)
  <1>b. PICK due : due = Due(e, br, pub)  OBVIOUS
  <1> SUFFICES /\ record \in Records /\ due \in Publications /\ Alive(record, e, time)
               /\ e.record \in {NoRecord, record}
               /\ record.published <= e.lastPublished
               /\ due.pending => netdb.published < record.published
    BY <1>a, <1>b, ZenonT(60)
  <1>1. NoPublication \in Publications /\ ~NoPublication.pending
    BY ConfigAssumption DEF NoPublication, Publications
  <1>2. due \in Publications
    <2>1. [pub EXCEPT !.pending = TRUE] \in Publications  BY ZenonT(60) DEF Publications
    <2> QED  BY <1>b, <1>1, <2>1 DEF Due, Scheduled
  <1>3. br.record \in Records /\ e.record \in Records  BY DEF Bridges, Runtime
  <1>4. CASE ~Publishable(e, time)
    <2>1. Fresh(e) = NoRecord /\ record = br.record  BY <1>a, <1>4, ZenonT(60) DEF Carried, Fresh
    <2>2. due \in {pub, NoPublication}  BY <1>b, <2>1 DEF Due, Scheduled
    <2>3. e.record = NoRecord  BY <1>4, ZenonT(60) DEF Refreshed
    <2>4. due.pending => netdb.published < record.published  BY <1>1, <2>1, <2>2, ZenonT(60) DEF Ordered
    <2>5. record.published <= e.lastPublished  BY <2>1, ZenonT(60) DEF Ordered
    <2> QED  BY <1>2, <1>3, <2>1, <2>3, <2>4, <2>5, ZenonT(60)
  <1>5. CASE Publishable(e, time)
    <2>1. e.record # NoRecord /\ e.record.leases = Sources(e, time)  BY <1>5, ZenonT(60) DEF Refreshed
    <2>2. Fresh(e) = e.record /\ record = e.record  BY <1>a, <1>5, <2>1, ZenonT(60) DEF Carried, Fresh
    <2>3. Alive(record, e, time)
      <3>1. time \in Times  BY DEF GroupTypes
      <3> QED  BY <2>1, <2>2, <3>1, SourcesIs, ZenonT(60) DEF Alive
    <2>4. CASE e.record = d.record
      <3>1. record = br.record  BY <2>1, <2>2, <2>4, ZenonT(60)
      <3>2. due = pub  BY <1>b, <2>2, <3>1 DEF Due, Scheduled
      <3>3. due.pending => netdb.published < record.published  BY <3>1, <3>2, ZenonT(60) DEF Ordered
      <3>4. record.published <= e.lastPublished  BY <3>1, ZenonT(60) DEF Ordered
      <3> QED  BY <1>2, <1>3, <2>2, <2>3, <3>3, <3>4, ZenonT(60)
    <2>5. CASE e.record.published = e.lastPublished /\ e.lastPublished > d.lastPublished
      <3>1. e.lastPublished \in Nat /\ d.lastPublished \in Nat /\ netdb.published \in Nat
        BY SecondsAreNat, ZenonT(60) DEF GroupTypes
      <3>2. netdb.published <= d.lastPublished  BY ZenonT(60) DEF Ordered
      <3>3. netdb.published < record.published /\ record.published <= e.lastPublished
        BY ONLY <2>2, <2>5, <3>1, <3>2, SMTT(30), Z3T(30)
      <3> QED  BY <1>2, <1>3, <2>2, <2>3, <3>3, ZenonT(60)
    <2> QED  BY <1>5, <2>4, <2>5, ZenonT(60) DEF Refreshed
  <1> QED  BY <1>4, <1>5, ZenonT(60)

\* Only a newer record replaces the one the floodfills have.
Newer == netdb' # netdb => netdb'.published > netdb.published

LEMMA PublishIs ==
    ASSUME GroupTypes, NEW pub \in Publications, NEW record \in Records,
           pub.pending => netdb.published < record.published, Publish(pub, record)
    PROVE  /\ publication' \in Publications /\ netdb' \in {netdb, record} /\ netdb' \in Records /\ Newer
           /\ publication'.pending => netdb'.published < record.published
  <1>1. netdb \in Records  BY DEF GroupTypes
  <1>2. NoPublication \in Publications /\ ~NoPublication.pending
    BY ConfigAssumption DEF NoPublication, Publications
  <1>3. CASE publication' = pub /\ netdb' = netdb  BY <1>1, <1>3, ZenonT(60) DEF Newer
  <1>4. CASE pub.pending /\ publication' = NoPublication /\ netdb' = record
    <2>1. netdb.published \in Nat /\ record.published \in Nat  BY <1>1, ConfigAssumption DEF Records
    <2>2. netdb'.published > netdb.published  BY <1>4, <2>1
    <2> QED  BY <1>2, <1>4, <2>2, ZenonT(60) DEF Newer
  <1>5. CASE pub.pending /\ publication' = [pub EXCEPT !.retryAt = time + RetryDelay] /\ netdb' = netdb
    <2>1. time + RetryDelay \in 0 .. Horizon + RetryDelay  BY ConfigAssumption DEF GroupTypes, Times
    <2>2. publication' \in Publications  BY <1>5, <2>1, ZenonT(60) DEF Publications
    <2> QED  BY <1>1, <1>5, <2>2, ZenonT(60) DEF Newer
  <1> QED  BY <1>3, <1>4, <1>5, ZenonT(60) DEF Publish

LEMMA ServeKeeps ==
    ASSUME GroupTypes, NEW d \in Runtime, NEW e \in Runtime, Refreshed(e, d, time),
           NEW b \in [Directions -> 0 .. Concurrency], NEW o, NEW br \in Bridges, NEW pub \in Publications,
           d.record \in {NoRecord, br.record}, Ordered(d, br, pub, netdb),
           Good(e, b, o, br, pub, netdb, time), Serve(e, b, br, pub)
    PROVE  /\ dest' \in Runtime /\ builds' \in [Directions -> 0 .. Concurrency] /\ bridge' \in Bridges
           /\ publication' \in Publications /\ netdb' \in Records /\ Newer
           /\ Good(dest', builds', o, bridge', publication', netdb', time)
           /\ dest'.record \in {NoRecord, bridge'.record}
  <1>1. PICK record : record = Carried(e, br)  BY ZenonT(60)
  <1>2. PICK due : due = Due(e, br, pub)  OBVIOUS
  <1>3. /\ bridge' = [br EXCEPT !.record = record, !.inbound = Of(e, "in")]
        /\ Publish(due, record)
    BY <1>1, <1>2, ZenonT(60) DEF Serve, Carried, Due
  <1>4. PICK n \in 0 .. SubmitLimit(e, b) :
            builds' = Started(e, b, n) /\ (dest' = e \/ dest' = NoteFailures(e, 1))
    BY ZenonT(60) DEF Serve
  <1>5. Tables(e, o, br) /\ Targets(e, b) /\ Alive(br.record, e, time) /\ Alive(netdb, e, time)
        /\ Ordered(e, br, pub, netdb)
    BY ZenonT(60) DEF Good
  <1>6. /\ record \in Records /\ due \in Publications /\ Alive(record, e, time)
        /\ e.record \in {NoRecord, record} /\ record.published <= e.lastPublished
        /\ due.pending => netdb.published < record.published
    BY <1>1, <1>2, <1>5, CarriedIs, ZenonT(60)
  <1>7. /\ publication' \in Publications /\ netdb' \in {netdb, record} /\ netdb' \in Records /\ Newer
        /\ publication'.pending => netdb'.published < record.published
    BY <1>3, <1>6, PublishIs, ZenonT(60)
  <1>8. /\ bridge' \in Bridges /\ bridge'.record = record /\ bridge'.inbound = Of(e, "in")
        /\ bridge'.outbound = br.outbound
    <2>1. Of(e, "in") \in SUBSET Slots  BY OfFinite, ZenonT(60)
    <2> QED  BY <1>3, <1>6, <2>1, ZenonT(60) DEF Bridges
  <1>9. builds' \in [Directions -> 0 .. Concurrency] /\ Targets(e, builds')
    <2>1. Started(e, b, n) \in [Directions -> 0 .. Concurrency] /\ Targets(e, Started(e, b, n))
      BY <1>5, StartedIs, ZenonT(60)
    <2> QED  BY <1>4, <2>1, ZenonT(60)
  <1>10. dest' \in Runtime /\ SamePool(dest', e)
    <2>1. NoteFailures(e, 1) \in Runtime /\ SamePool(NoteFailures(e, 1), e)  BY NoteFailuresIs
    <2>2. SamePool(e, e)  BY ZenonT(60) DEF SamePool
    <2> QED  BY <1>4, <2>1, <2>2, ZenonT(60)
  <1>11. Good(e, builds', o, bridge', publication', netdb', time)
    <2>1. Tables(e, o, bridge')  BY <1>5, <1>8, ZenonT(60) DEF Tables
    <2>2. Alive(bridge'.record, e, time) /\ Alive(netdb', e, time)  BY <1>5, <1>6, <1>7, <1>8, ZenonT(60)
    <2>3. Ordered(e, bridge', publication', netdb')
      BY <1>5, <1>6, <1>7, <1>8, ZenonT(60) DEF Ordered
    <2> QED  BY <1>9, <2>1, <2>2, <2>3, ZenonT(60) DEF Good
  <1>12. Good(dest', builds', o, bridge', publication', netdb', time)  BY <1>10, <1>11, SameGood, ZenonT(60)
  <1>13. dest'.record \in {NoRecord, bridge'.record}  BY <1>6, <1>8, <1>10, ZenonT(60) DEF SamePool
  <1> QED  BY <1>7, <1>8, <1>9, <1>10, <1>12, <1>13, ZenonT(60)

LEMMA AdvancesKeeps ==
    ASSUME GroupTypes, NEW d \in Runtime, NEW b \in [Directions -> 0 .. Concurrency],
           NEW o \in SUBSET Slots, NEW br \in Bridges, NEW pub \in Publications,
           Good(d, b, o, br, pub, netdb, time), InPhase(PhaseAt(d).name, d, b, br, pub),
           service = "running", time' = time, command' = command,
           Advances(d, b, o, br, pub)
    PROVE  GroupInv' /\ Newer
  <1> DEFINE Left(lost) == [x \in Directions |-> b[x] - lost[x]]
             Noted(lost) == NoteFailures(d, lost["in"] + lost["out"])
  <1>1. PICK lost \in [Directions -> 0 .. Concurrency] :
            /\ \A x \in Directions : Left(lost)[x] >= 0
            /\ phase' = PhaseAt(d)
            /\ \/ /\ service' = "failed" /\ dest' = Evict(Noted(lost), Expired(Noted(lost), time))
                  /\ builds' = Left(lost) /\ owners' = o /\ bridge' = br /\ publication' = pub /\ netdb' = netdb
               \/ /\ ~AdvanceFails(Noted(lost), time) /\ PhaseAt(d).name = "retiring"
                  /\ dest' = AdvanceTime(Noted(lost), time) /\ builds' = Left(lost)
                  /\ owners' = Disown(o, Expired(Noted(lost), time)) /\ bridge' = Swept(br, Expired(Noted(lost), time))
                  /\ publication' = pub /\ netdb' = netdb /\ service' = service
               \/ /\ ~AdvanceFails(Noted(lost), time) /\ PhaseAt(d).name = "serving"
                  /\ owners' = Disown(o, Expired(Noted(lost), time))
                  /\ Serve(AdvanceTime(Noted(lost), time), Left(lost), Swept(br, Expired(Noted(lost), time)), pub)
                  /\ service' = service
    BY ZenonT(60) DEF Advances, Swept
  <1>2. PICK left : left = Left(lost)  BY ZenonT(60)
  <1>3. PICK d1 : d1 = Noted(lost)  OBVIOUS
  <1>4. left \in [Directions -> 0 .. Concurrency] /\ \A dir \in Directions : left[dir] <= b[dir]
    <2>1. Concurrency \in Nat  BY ConfigAssumption, ZenonT(60)
    <2>2. \A x \in Directions : left[x] = b[x] - lost[x] /\ left[x] >= 0  BY <1>1, <1>2
    <2>3. \A x \in Directions : b[x] \in 0 .. Concurrency /\ lost[x] \in 0 .. Concurrency  OBVIOUS
    <2>4. \A x \in Directions : left[x] \in 0 .. Concurrency /\ left[x] <= b[x]  BY <2>1, <2>2, <2>3
    <2>5. left = [x \in Directions |-> left[x]]  BY <1>2
    <2> QED  BY <2>4, <2>5
  <1>5. d1 \in Runtime /\ SamePool(d1, d)
    <2>1. lost["in"] + lost["out"] \in Nat  BY ConfigAssumption DEF Directions
    <2> QED  BY <1>3, <2>1, NoteFailuresIs, ZenonT(60)
  <1>6. Good(d1, b, o, br, pub, netdb, time)  BY <1>5, SameGood, ZenonT(60)
  <1>7. PICK gone : gone = Expired(d1, time)  OBVIOUS
  <1>8. PICK br1 : br1 = Swept(br, gone)  OBVIOUS
  <1>9. time \in Times /\ netdb \in Records  BY DEF GroupTypes
  <1>10. gone \in SUBSET Slots  BY <1>5, <1>7, <1>9, ExpiredIs, ZenonT(60)
  <1>11. phase' \in Phases  BY <1>1, PhaseIs, ZenonT(60)
  <1> HIDE DEF Left, Noted
  <1>12. CASE /\ service' = "failed" /\ dest' = Evict(d1, gone)
              /\ builds' = left /\ owners' = o /\ bridge' = br /\ publication' = pub /\ netdb' = netdb
    <2>1. dest' \in Runtime  BY <1>5, <1>10, <1>12, EvictIs, ZenonT(60)
    <2>2. service' # "running"  BY <1>12, ZenonT(60)
    <2>3. GroupInv'  BY <1>4, <1>9, <1>11, <1>12, <2>1, <2>2, StepIs, ZenonT(60)
    <2> QED  BY <1>12, <2>3, ZenonT(60) DEF Newer
  <1>13. ASSUME ~AdvanceFails(d1, time)
         PROVE  /\ AdvanceTime(d1, time) \in Runtime /\ Refreshed(AdvanceTime(d1, time), d1, time)
                /\ Good(AdvanceTime(d1, time), left, Disown(o, gone), br1, pub, netdb, time)
                /\ br1 \in Bridges /\ br1.record = br.record
    <2>1. PICK e : e = AdvanceTime(d1, time)  OBVIOUS
    <2>2. e \in Runtime /\ e.tunnels = Evict(d1, Expired(d1, time)).tunnels /\ Refreshed(e, d1, time)
      BY <1>5, <1>9, <1>13, <2>1, AdvanceTimeIs, ZenonT(60)
    <2>4. Good(e, left, Disown(o, gone), br1, pub, netdb, time) /\ br1 \in Bridges /\ br1.record = br.record
      <3>1. Evicted(d1, left, o, br, pub, netdb, time)  BY <1>4, <1>5, <1>6, <1>9, <1>13, EvictedGood, ZenonT(60)
      <3> QED  BY <1>7, <1>8, <2>1, <3>1, ZenonT(60) DEF Evicted
    <2> QED  BY <2>1, <2>2, <2>4, ZenonT(60)
  <1>14. owners' = Disown(o, gone) => owners' \in SUBSET Slots  BY DEF Disown
  <1>15. CASE /\ ~AdvanceFails(d1, time) /\ PhaseAt(d).name = "retiring"
              /\ dest' = AdvanceTime(d1, time) /\ builds' = left /\ owners' = Disown(o, gone) /\ bridge' = br1
              /\ publication' = pub /\ netdb' = netdb /\ service' = service
    <2>1. /\ dest' \in Runtime /\ bridge' \in Bridges
          /\ Good(dest', builds', owners', bridge', publication', netdb', time)
      BY <1>13, <1>15, ZenonT(60)
    <2>2. InPhase(phase'.name, dest', builds', bridge', publication')
      <3>1. b = NoBuilds /\ ~pub.pending  BY <1>15, ZenonT(60) DEF InPhase
      <3>2. left = NoBuilds
        <4>1. \A x \in Directions : left[x] <= 0 /\ left[x] \in Nat  BY <1>4, <3>1 DEF NoBuilds
        <4>2. \A x \in Directions : left[x] = 0  BY <4>1
        <4> QED  BY <1>4, <4>2 DEF NoBuilds
      <3>3. phase'.name = "retiring"  BY <1>1, <1>15, ZenonT(60)
      <3> QED  BY <1>15, <3>1, <3>2, <3>3, ZenonT(60) DEF InPhase
    <2>3. GroupInv'  BY <1>4, <1>9, <1>11, <1>14, <1>15, <2>1, <2>2, StepIs, ZenonT(60)
    <2> QED  BY <1>15, <2>3, ZenonT(60) DEF Newer
  <1>16. CASE /\ ~AdvanceFails(d1, time) /\ PhaseAt(d).name = "serving"
              /\ owners' = Disown(o, gone) /\ Serve(AdvanceTime(d1, time), left, br1, pub)
              /\ service' = service
    <2>1. d1.record \in {NoRecord, br1.record}
      <3>1. d.record \in {NoRecord, br.record}  BY <1>16, ZenonT(60) DEF InPhase
      <3> QED  BY <1>5, <1>13, <1>16, <3>1, ZenonT(60) DEF SamePool
    <2>2. Ordered(d1, br1, pub, netdb)
      <3>1. Ordered(d1, br, pub, netdb)  BY <1>6, ZenonT(60) DEF Good
      <3> QED  BY <1>13, <1>16, <3>1, ZenonT(60) DEF Ordered
    <2>3. PICK e : e = AdvanceTime(d1, time)  OBVIOUS
    <2>4. /\ e \in Runtime /\ Refreshed(e, d1, time) /\ br1 \in Bridges
          /\ Good(e, left, owners', br1, pub, netdb, time) /\ Serve(e, left, br1, pub)
      BY <1>13, <1>16, <2>3, ZenonT(60)
    <2>5. /\ dest' \in Runtime /\ builds' \in [Directions -> 0 .. Concurrency] /\ bridge' \in Bridges
          /\ publication' \in Publications /\ netdb' \in Records /\ Newer
          /\ Good(dest', builds', owners', bridge', publication', netdb', time)
          /\ dest'.record \in {NoRecord, bridge'.record}
      BY <1>4, <1>5, <2>1, <2>2, <2>4, ServeKeeps, ZenonT(60)
    <2>6. phase'.name = "serving"  BY <1>1, <1>16, ZenonT(60)
    <2>7. InPhase(phase'.name, dest', builds', bridge', publication')  BY <2>5, <2>6, ZenonT(60) DEF InPhase
    <2>8. GroupInv'  BY <1>11, <1>14, <1>16, <2>5, <2>7, StepIs, ZenonT(60)
    <2> QED  BY <2>5, <2>8, ZenonT(60)
  <1> QED  BY <1>1, <1>2, <1>3, <1>7, <1>8, <1>12, <1>15, <1>16, ZenonT(60)

\* A poll keeps the invariant whatever consistent state the message before it left.
LEMMA PollKeeps ==
    ASSUME GroupTypes, NEW d \in Runtime, NEW b \in [Directions -> 0 .. Concurrency],
           NEW o \in SUBSET Slots, NEW br \in Bridges,
           Good(d, b, o, br, publication, netdb, time), InPhase(phase.name, d, b, br, publication),
           service = "running", time' = time, command' = command,
           Poll(d, b, o, br)
    PROVE  GroupInv' /\ Newer
  <1>1. PICK pub : pub = IF Retires THEN NoPublication ELSE publication  OBVIOUS
  <1>2. Drains(d, BuildsAt(b), o, br, pub) \/ Advances(d, BuildsAt(b), o, br, pub)  BY <1>1, ZenonT(60) DEF Poll
  <1>3. PICK c : c = BuildsAt(b)  OBVIOUS
  <1>4. /\ c \in [Directions -> 0 .. Concurrency] /\ pub \in Publications
        /\ Good(d, c, o, br, pub, netdb, time) /\ InPhase(PhaseAt(d).name, d, c, br, pub)
    BY <1>1, <1>3, RetirementIs, ZenonT(60)
  <1>5. CASE Drains(d, c, o, br, pub)
    <2>1. GroupInv' /\ netdb' = netdb  BY <1>4, <1>5, DrainsKeeps, ZenonT(60)
    <2> QED  BY <2>1, ZenonT(60) DEF Newer
  <1>6. CASE Advances(d, c, o, br, pub)  BY <1>4, <1>6, AdvancesKeeps, ZenonT(60)
  <1> QED  BY <1>2, <1>3, <1>5, <1>6, ZenonT(60)

\* admit_inbound or admit_outbound fills the slot it is given.
Admitted(e, d, s, dir, t) ==
    /\ e \in Runtime /\ e.record = d.record /\ e.lastPublished = d.lastPublished
    /\ e.tunnels = [d.tunnels EXCEPT ![s] = [dir |-> dir, created |-> t]]

LEMMA AdmitIs ==
    ASSUME NEW d \in Runtime, NEW s \in Slots, NEW dir \in Directions, NEW t \in Times
    PROVE  Admitted(AdmitTunnel(d, s, dir, t), d, s, dir, t)
  <1> DEFINE f == [d.tunnels EXCEPT ![s] = [dir |-> dir, created |-> t]]
             v == IF d.state = "Initializing" THEN "BuildingTunnels" ELSE d.state
             e == [d EXCEPT !.tunnels = f, !.failures = 0, !.state = v]
  <1>1. f \in [Slots -> Tunnels]  BY DEF Runtime, Tunnels
  <1>2. v \in States /\ 0 \in 0 .. FailureThreshold  BY ConfigAssumption DEF Runtime, States
  <1>3. AdmitTunnel(d, s, dir, t) = Recompute(e, t)  BY DEF AdmitTunnel
  <1> HIDE DEF f, v
  <1>4. /\ e \in Runtime /\ e.tunnels = f /\ e.record = d.record /\ e.lastPublished = d.lastPublished
    BY <1>1, <1>2, ZenonT(60) DEF Runtime
  <1> HIDE DEF e
  <1>5. Recompute(e, t) \in Runtime /\ SamePool(Recompute(e, t), e)  BY <1>4, RecomputeIs
  <1> QED  BY <1>3, <1>4, <1>5, ZenonT(60) DEF SamePool, Admitted, f

\* While a build is under way there is room for its tunnel.
LEMMA SlotIsFree ==
    ASSUME NEW d \in Runtime, NEW b \in [Directions -> 0 .. Concurrency], Targets(d, b),
           NEW dir \in Directions, b[dir] > 0
    PROVE  LET s == Min({x \in Slots : d.tunnels[x] = NoTunnel}) IN s \in Slots /\ d.tunnels[s] = NoTunnel
  <1> DEFINE free == {x \in Slots : d.tunnels[x] = NoTunnel}
             used == Of(d, "in") \cup Of(d, "out")
  <1>1. /\ InboundTarget \in Nat /\ OutboundTarget \in Nat /\ Concurrency \in Nat
    BY ConfigAssumption
  <1>2. b["in"] \in Nat /\ b["out"] \in Nat /\ b["in"] + b["out"] > 0  BY <1>1 DEF Directions
  <1>3. IsFiniteSet(used) /\ Cardinality(used) <= Cardinality(Of(d, "in")) + Cardinality(Of(d, "out"))
    <2>1. /\ IsFiniteSet(Of(d, "in")) /\ IsFiniteSet(Of(d, "out")) /\ Cardinality(Of(d, "in")) \in Nat
          /\ Cardinality(Of(d, "out")) \in Nat
      BY OfFinite
    <2>2. /\ IsFiniteSet(used)
          /\ Cardinality(used) = Cardinality(Of(d, "in")) + Cardinality(Of(d, "out"))
                                 - Cardinality(Of(d, "in") \cap Of(d, "out"))
      BY <2>1, FS_Union
    <2>3. Cardinality(Of(d, "in") \cap Of(d, "out")) \in Nat
      BY <2>1, FS_Intersection, FS_CardinalityType, ZenonT(60)
    <2> QED  BY <2>1, <2>2, <2>3
  <1>4. Cardinality(used) < InboundTarget + OutboundTarget
    <2>1. /\ Cardinality(used) \in Nat /\ Cardinality(Of(d, "in")) \in Nat /\ Cardinality(Of(d, "out")) \in Nat
      BY <1>3, OfFinite, FS_CardinalityType
    <2> HIDE DEF used
    <2> QED  BY <1>1, <1>2, <1>3, <2>1 DEF Targets
  <1>5. Cardinality(Slots) = InboundTarget + OutboundTarget
    <2>1. PICK n \in Nat : n = InboundTarget + OutboundTarget /\ n > 0  BY ConfigAssumption
    <2>2. 1 \in Int /\ n \in Int  OBVIOUS
    <2>3. Cardinality(1 .. n) = IF 1 > n THEN 0 ELSE n - 1 + 1  BY ONLY <2>2, FS_Interval, SMTT(30), Z3T(30)
    <2>4. Cardinality(1 .. n) = n  BY <2>1, <2>3
    <2> QED  BY <2>1, <2>4, ZenonT(60) DEF Slots
  <1>6. Slots # used
    <2> HIDE DEF used
    <2>1. Cardinality(used) \in Nat  BY <1>3, FS_CardinalityType
    <2> QED  BY <1>1, <1>4, <1>5, <2>1
  <1>7. free # {}
    <2>1. PICK x \in Slots : x \notin used  BY <1>6 DEF Of
    <2>2. d.tunnels[x] \in Tunnels /\ d.tunnels[x].dir \notin Directions
      BY <2>1, ZenonT(60) DEF Runtime, Of, Directions
    <2>3. d.tunnels[x] = NoTunnel  BY <2>2, ZenonT(60) DEF Tunnels
    <2> QED  BY <2>3, ZenonT(60)
  <1>8. free \in SUBSET Nat  BY DEF Slots
  <1>9. Min(free) \in free
    <2> HIDE DEF free
    <2> QED  BY <1>7, <1>8, MinIs
  <1> QED  BY <1>9

-----------------------------------------------------------------------------
(* The steps of the driver.                                                *)

\* One build less, and the roles of an installed tunnel.
Less(b, dir) == [b EXCEPT ![dir] = @ - 1]
Inbound(dir, new) == IF dir = "in" THEN new ELSE {}
Installed(e, d, s, dir, t) ==
    /\ e.record = d.record /\ e.lastPublished = d.lastPublished
    /\ e.tunnels = [d.tunnels EXCEPT ![s] = [dir |-> dir, created |-> t]]
Joined(br, new, in) == [br EXCEPT !.inbound = @ \cup in, !.outbound = @ \cup (new \ in)]

\* A failed or rolled back build: the pool is as before, with one build less.
LEMMA ReplyFailedGood ==
    ASSUME NEW d \in Runtime, NEW e \in Runtime, SamePool(e, d), NEW b \in [Directions -> 0 .. Concurrency],
           NEW dir \in Directions, b[dir] > 0, NEW o, NEW br, NEW pub, NEW nd, NEW t,
           Good(d, b, o, br, pub, nd, t)
    PROVE  /\ Less(b, dir) \in [Directions -> 0 .. Concurrency]
           /\ Good(e, Less(b, dir), o, br, pub, nd, t)
  <1> DEFINE c == Less(b, dir)
  <1>1. c \in [Directions -> 0 .. Concurrency] /\ \A x \in Directions : c[x] <= b[x]
    BY ConfigAssumption DEF Less
  <1> HIDE DEF c
  <1>2. Good(e, b, o, br, pub, nd, t)  BY SameGood, ZenonT(60)
  <1>3. Targets(e, c)
    <2>1. Targets(e, b)  BY <1>2, ZenonT(60) DEF Good
    <2> QED  BY <1>1, <2>1, TargetsShrink
  <1>4. Good(e, c, o, br, pub, nd, t)  BY <1>2, <1>3, ZenonT(60) DEF Good
  <1> QED  BY <1>1, <1>4 DEF c

\* An installed build: one tunnel more, one build less.
LEMMA ReplyInstalledGood ==
    ASSUME NEW d \in Runtime, NEW e \in Runtime, NEW b \in [Directions -> 0 .. Concurrency],
           NEW dir \in Directions, b[dir] > 0, NEW s \in Slots, d.tunnels[s] = NoTunnel, NEW t \in Times,
           Installed(e, d, s, dir, t),
           NEW o \in SUBSET Slots, NEW br \in Bridges, NEW pub, NEW nd, Good(d, b, o, br, pub, nd, t)
    PROVE  /\ Less(b, dir) \in [Directions -> 0 .. Concurrency]
           /\ o \cup Inbound(dir, {s}) \in SUBSET Slots
           /\ Joined(br, {s}, Inbound(dir, {s})) \in Bridges
           /\ Joined(br, {s}, Inbound(dir, {s})).record = br.record
           /\ Good(e, Less(b, dir), o \cup Inbound(dir, {s}), Joined(br, {s}, Inbound(dir, {s})), pub, nd, t)
  <1> DEFINE in == Inbound(dir, {s})
             c == Less(b, dir)
             br1 == Joined(br, {s}, in)
  <1>1. /\ c \in [Directions -> 0 .. Concurrency] /\ c[dir] = b[dir] - 1
        /\ \A x \in Directions \ {dir} : c[x] = b[x]
    BY ConfigAssumption DEF Less
  <1>2. o \cup in \in SUBSET Slots  BY DEF Inbound
  <1>3. /\ br1 \in Bridges /\ br1.record = br.record /\ br1.inbound = br.inbound \cup in
        /\ br1.outbound = br.outbound \cup ({s} \ in)
    BY ZenonT(60) DEF Bridges, Joined, Inbound
  <1>4. \A x \in Slots : e.tunnels[x] = IF x = s THEN [dir |-> dir, created |-> t] ELSE d.tunnels[x]
    BY ZenonT(60) DEF Runtime, Installed
  <1>5. \A x \in Directions : Of(e, x) = IF x = dir THEN Of(d, x) \cup {s} ELSE Of(d, x)
    <2>1. NoTunnel.dir \notin Directions  BY DEF NoTunnel, Directions
    <2>2. [dir |-> dir, created |-> t].dir = dir  BY ZenonT(60)
    <2> QED  BY <1>4, <2>1, <2>2, ZenonT(60) DEF Of
  <1>6. \A x \in Directions : s \notin Of(d, x)  BY DEF Of, NoTunnel, Directions
  <1> HIDE DEF c, br1
  <1>7. Tables(e, o \cup in, br1)
    <2>1. o = Of(d, "in") /\ br.inbound = Of(d, "in") /\ br.outbound = Of(d, "out")  BY ZenonT(60) DEF Good, Tables
    <2>2. CASE dir = "in"
      <3>1. Of(e, "in") = Of(d, "in") \cup {s} /\ Of(e, "out") = Of(d, "out")  BY <1>5, <2>2, ZenonT(60) DEF Directions
      <3> QED  BY <1>3, <2>1, <2>2, <3>1, ZenonT(60) DEF Tables, Inbound
    <2>3. CASE dir = "out"
      <3>1. Of(e, "out") = Of(d, "out") \cup {s} /\ Of(e, "in") = Of(d, "in")  BY <1>5, <2>3, ZenonT(60) DEF Directions
      <3> QED  BY <1>3, <2>1, <2>3, <3>1, ZenonT(60) DEF Tables, Inbound
    <2> QED  BY <2>2, <2>3 DEF Directions
  <1>8. Targets(e, c)
    <2>1. Targets(d, b)  BY ZenonT(60) DEF Good
    <2>2. Cardinality(Of(e, dir)) = Cardinality(Of(d, dir)) + 1
      <3>1. Of(e, dir) = Of(d, dir) \cup {s} /\ s \notin Of(d, dir)  BY <1>5, <1>6, ZenonT(60)
      <3>2. IsFiniteSet(Of(d, dir))  BY OfFinite, ZenonT(60)
      <3> QED  BY <3>1, <3>2, FS_AddElement, ZenonT(60)
    <2>3. \A x \in Directions \ {dir} : Cardinality(Of(e, x)) = Cardinality(Of(d, x))  BY <1>5
    <2>4. \A x \in Directions : Cardinality(Of(e, x)) \in Nat /\ Cardinality(Of(d, x)) \in Nat  BY OfFinite
    <2>5. \A x \in Directions : b[x] \in Nat /\ c[x] \in Nat  BY <1>1, ConfigAssumption
    <2>6. /\ InboundTarget \in Nat /\ OutboundTarget \in Nat /\ Concurrency \in Nat
      BY ConfigAssumption
    <2> QED  BY <1>1, <2>1, <2>2, <2>3, <2>4, <2>5, <2>6 DEF Targets, Directions
  <1>9. ASSUME NEW r, Alive(r, d, t) PROVE Alive(r, e, t)
    <2>1. ASSUME NEW x \in Of(d, "in") PROVE x \in Of(e, "in") /\ e.tunnels[x] = d.tunnels[x]
      <3>1. x \in Slots /\ x # s  BY <1>6 DEF Of, Directions
      <3> QED  BY <1>4, <3>1, ZenonT(60) DEF Of
    <2> QED  BY <1>9, <2>1, ZenonT(60) DEF Alive
  <1>10. Alive(br1.record, e, t) /\ Alive(nd, e, t)  BY <1>3, <1>9, ZenonT(60) DEF Good
  <1>11. Ordered(e, br1, pub, nd)  BY <1>3, ZenonT(60) DEF Good, Ordered, Installed
  <1>12. Good(e, c, o \cup in, br1, pub, nd, t)  BY <1>7, <1>8, <1>10, <1>11, ZenonT(60) DEF Good
  <1> QED  BY <1>1, <1>2, <1>3, <1>12, ZenonT(60) DEF c, br1

LEMMA BuildReplyKeeps ==
    ASSUME GroupInv, NEW dir \in Directions, BuildReply(dir)
    PROVE  GroupInv' /\ Newer
  <1> DEFINE free == Min({x \in Slots : dest.tunnels[x] = NoTunnel})
             New(d, a, s) == IF d = a THEN {s} ELSE {}
  <1>1. PICK s : s = free  OBVIOUS
  <1>2. PICK admitted : admitted = AdmitTunnel(dest, s, dir, time)  OBVIOUS
  <1>3. /\ service = "running" /\ phase.name = "serving" /\ builds[dir] > 0 /\ time' = time /\ command' = command
    BY ZenonT(60) DEF BuildReply
  <1>4. PICK d \in {NoteFailures(dest, 1), MarkTunnelFailed(admitted, s), admitted} :
            Poll(d, Less(builds, dir), owners \cup Inbound(dir, New(d, admitted, s)),
                 Joined(bridge, New(d, admitted, s), Inbound(dir, New(d, admitted, s))))
    BY <1>1, <1>2, ZenonT(60) DEF BuildReply, Less, Joined, Inbound
  <1>a. PICK c : c = Less(builds, dir)  OBVIOUS
  <1>b. PICK new : new = New(d, admitted, s)  BY ZenonT(60)
  <1>c. PICK in : in = Inbound(dir, new)  OBVIOUS
  <1>d. PICK br1 : br1 = Joined(bridge, new, in)  OBVIOUS
  <1>e. Poll(d, c, owners \cup in, br1)  BY <1>4, <1>a, <1>b, <1>c, <1>d, ZenonT(60)
  <1>5. /\ GroupTypes /\ Good(dest, builds, owners, bridge, publication, netdb, time)
        /\ dest.record \in {NoRecord, bridge.record}
    BY <1>3, ZenonT(60) DEF GroupInv, Running, InPhase
  <1>6. /\ dest \in Runtime /\ builds \in [Directions -> 0 .. Concurrency] /\ owners \in SUBSET Slots
        /\ bridge \in Bridges /\ time \in Times
    BY <1>5, ZenonT(60) DEF GroupTypes
  <1>7. s \in Slots /\ dest.tunnels[s] = NoTunnel
    <2>1. Targets(dest, builds)  BY <1>5, ZenonT(60) DEF Good
    <2> QED  BY <1>1, <1>3, <1>6, <2>1, SlotIsFree, ZenonT(60)
  <1>8. /\ admitted \in Runtime /\ admitted.record = dest.record /\ admitted.lastPublished = dest.lastPublished
        /\ admitted.tunnels = [dest.tunnels EXCEPT ![s] = [dir |-> dir, created |-> time]]
    <2>1. Admitted(AdmitTunnel(dest, s, dir, time), dest, s, dir, time)  BY <1>6, <1>7, AdmitIs, ZenonT(60)
    <2>2. Admitted(admitted, dest, s, dir, time)  BY <1>2, <2>1, ZenonT(60)
    <2> QED  BY <2>2, ZenonT(60) DEF Admitted
  <1> HIDE DEF free
  <1>9. CASE d = admitted
    <2>1. new = {s} /\ in = Inbound(dir, {s})  BY <1>9, <1>b, <1>c, ZenonT(60)
    <2>2. /\ c \in [Directions -> 0 .. Concurrency] /\ owners \cup in \in SUBSET Slots
          /\ br1 \in Bridges /\ br1.record = bridge.record
          /\ Good(d, c, owners \cup in, br1, publication, netdb, time)
      <3>1. builds[dir] > 0 /\ Good(dest, builds, owners, bridge, publication, netdb, time)  BY <1>3, <1>5, ZenonT(60)
      <3>2. admitted \in Runtime /\ Installed(admitted, dest, s, dir, time)  BY <1>8 DEF Installed
      <3>3. /\ Less(builds, dir) \in [Directions -> 0 .. Concurrency]
            /\ owners \cup Inbound(dir, {s}) \in SUBSET Slots
            /\ Joined(bridge, {s}, Inbound(dir, {s})) \in Bridges
            /\ Joined(bridge, {s}, Inbound(dir, {s})).record = bridge.record
            /\ Good(admitted, Less(builds, dir), owners \cup Inbound(dir, {s}),
                    Joined(bridge, {s}, Inbound(dir, {s})), publication, netdb, time)
        BY <1>6, <1>7, <3>1, <3>2, ReplyInstalledGood, ZenonT(60)
      <3> QED  BY <1>9, <1>a, <1>d, <2>1, <3>3, ZenonT(60)
    <2>3. InPhase(phase.name, d, c, br1, publication)
      BY <1>3, <1>5, <1>8, <1>9, <2>2, ZenonT(60) DEF InPhase
    <2> QED  BY <1>3, <1>e, <1>5, <1>8, <1>9, <2>2, <2>3, PollKeeps, ZenonT(60)
  <1>10. CASE d # admitted
    <2>1. d \in Runtime /\ SamePool(d, dest)
      <3>1. CASE d = NoteFailures(dest, 1)  BY <1>6, <3>1, NoteFailuresIs
      <3>2. CASE d = MarkTunnelFailed(admitted, s)
        <4>1. PICK e : e = Evict(admitted, {s})  OBVIOUS
        <4>2. /\ e \in Runtime /\ e.record = dest.record /\ e.lastPublished = dest.lastPublished
              /\ \A x \in Slots : e.tunnels[x] = IF x \in {s} THEN NoTunnel ELSE admitted.tunnels[x]
          
          <5>1. {s} \in SUBSET Slots  BY <1>7
          <5>2. /\ Evict(admitted, {s}) \in Runtime /\ Evict(admitted, {s}).record = admitted.record
                /\ Evict(admitted, {s}).lastPublished = admitted.lastPublished
                /\ \A x \in Slots : Evict(admitted, {s}).tunnels[x]
                                     = IF x \in {s} THEN NoTunnel ELSE admitted.tunnels[x]
            BY <1>8, <5>1, EvictIs, ZenonT(60)
          <5> QED  BY <1>8, <4>1, <5>2, ZenonT(60)
        <4>3. e.tunnels = dest.tunnels
          <5>1. e.tunnels \in [Slots -> Tunnels] /\ dest.tunnels \in [Slots -> Tunnels]
            BY <1>6, <4>2, ZenonT(60) DEF Runtime
          <5>2. \A x \in Slots : e.tunnels[x] = dest.tunnels[x]  BY <1>7, <1>8, <4>2, <5>1, ZenonT(60)
          <5> QED  BY ONLY <5>1, <5>2, SMTT(30), Z3T(30)
        <4>4. d \in Runtime /\ SamePool(d, e)  BY <3>2, <4>1, <4>2, NoteFailuresIs, ZenonT(60) DEF MarkTunnelFailed
        <4> QED  BY <4>2, <4>3, <4>4, ZenonT(60) DEF SamePool
      <3> QED  BY <1>4, <1>10, <3>1, <3>2, ZenonT(60)
    <2>2. in = {} /\ new = {}  BY <1>10, <1>b, <1>c DEF Inbound
    <2>3. owners \cup in = owners /\ br1 = bridge  BY <1>6, <1>d, <2>2, ZenonT(60) DEF Joined, Bridges
    <2>4. c \in [Directions -> 0 .. Concurrency] /\ Good(d, c, owners, bridge, publication, netdb, time)
      BY <1>3, <1>5, <1>6, <1>a, <2>1, ReplyFailedGood, ZenonT(60)
    <2>5. InPhase(phase.name, d, c, bridge, publication)
      BY <1>3, <1>5, <2>1, ZenonT(60) DEF InPhase, SamePool
    <2> QED  BY <1>3, <1>e, <1>5, <1>6, <2>1, <2>3, <2>4, <2>5, PollKeeps, ZenonT(60)
  <1> QED  BY <1>9, <1>10

LEMMA GroupInvInit == GroupInit => GroupInv
  <1> SUFFICES ASSUME GroupInit PROVE GroupInv
    OBVIOUS
  <1>1. /\ time = 1 /\ owners = {} /\ netdb = NoRecord /\ command = "run" /\ service = "running"
        /\ dest = [tunnels |-> [s \in Slots |-> NoTunnel], failures |-> 0,
                   record |-> NoRecord, lastPublished |-> 0, state |-> "Initializing"]
        /\ builds = NoBuilds /\ bridge = [record |-> NoRecord, inbound |-> {}, outbound |-> {}]
        /\ publication = NoPublication /\ phase = [name |-> "serving", until |-> 0, cap |-> 0]
    BY ZenonT(60) DEF GroupInit, NoBuilds, NoPublication
  <1>2. NoRecord \in Records /\ NoRecord.leases = {} /\ NoRecord.published = 0
    <2>1. 0 \in 0 .. Horizon + TunnelLifetime  BY ConfigAssumption
    <2> QED  BY ONLY <2>1, SMTT(30), Z3T(30) DEF NoRecord, Records
  <1>3. dest \in Runtime
    <2>1. [s \in Slots |-> NoTunnel] \in [Slots -> Tunnels]  BY DEF Tunnels
    <2>2. 0 \in 0 .. FailureThreshold /\ 0 \in 0 .. Horizon + TunnelLifetime  BY ConfigAssumption
    <2> QED  BY <1>1, <1>2, <2>1, <2>2, ZenonT(60) DEF Runtime, States
  <1>4. NoBuilds \in [Directions -> 0 .. Concurrency] /\ NoBuilds["in"] = 0 /\ NoBuilds["out"] = 0
    <2>1. 0 \in 0 .. Concurrency  BY ConfigAssumption
    <2> QED  BY <2>1, ZenonT(60) DEF NoBuilds, Directions
  <1>5. bridge \in Bridges /\ publication \in Publications /\ phase \in Phases /\ time \in Times
    <2>1. 0 \in 0 .. Horizon + RetryDelay /\ 0 \in 0 .. Horizon + TunnelLifetime /\ 1 \in 1 .. Horizon
      BY ONLY ConfigAssumption, SMTT(30), Z3T(30)
    <2>2. bridge \in Bridges  BY <1>1, <1>2, ZenonT(60) DEF Bridges
    <2>3. publication \in Publications  BY <1>1, <2>1, ZenonT(60) DEF Publications, NoPublication
    <2>4. phase \in Phases
      <3>1. 0 \in 0 .. Horizon + RetirementCap  BY ONLY ConfigAssumption, SMTT(30), Z3T(30)
      <3> QED  BY <1>1, <2>1, <3>1, ZenonT(60) DEF Phases
    <2> QED  BY <1>1, <2>1, <2>2, <2>3, <2>4, ZenonT(60) DEF Times
  <1>6. GroupTypes  BY <1>1, <1>2, <1>3, <1>4, <1>5, ZenonT(60) DEF GroupTypes
  <1>7. Of(dest, "in") = {} /\ Of(dest, "out") = {}  
    <2>1. \A x \in Slots : dest.tunnels[x].dir = "none"  BY <1>1, ZenonT(60) DEF NoTunnel
    <2>2. "none" # "in" /\ "none" # "out"  OBVIOUS
    <2> QED  BY <2>1, <2>2, ZenonT(60) DEF Of
  <1>8. Tables(dest, owners, bridge)  BY <1>1, <1>7 DEF Tables
  <1>9. Targets(dest, builds)
    <2>1. Cardinality(Of(dest, "in")) = 0 /\ Cardinality(Of(dest, "out")) = 0
      BY <1>7, FS_EmptySet, ZenonT(60)
    <2>2. builds["in"] = 0 /\ builds["out"] = 0  BY <1>1, <1>4, ZenonT(60)
    <2> QED  BY <2>1, <2>2, ConfigAssumption DEF Targets
  <1>10. Alive(bridge.record, dest, time) /\ Alive(netdb, dest, time)  BY <1>1, <1>2, ZenonT(60) DEF Alive
  <1>11. Ordered(dest, bridge, publication, netdb)  
    <2>1. bridge.record = NoRecord /\ dest.lastPublished = 0 /\ ~publication.pending  BY <1>1, ZenonT(60) DEF NoPublication
    <2>2. 0 <= 0  OBVIOUS
    <2> QED  BY <1>1, <1>2, <2>1, <2>2, ZenonT(60) DEF Ordered
  <1>12. InPhase(phase.name, dest, builds, bridge, publication)  BY <1>1, ZenonT(60) DEF InPhase
  <1> QED  BY <1>6, <1>8, <1>9, <1>10, <1>11, <1>12, ZenonT(60) DEF GroupInv, Good

\* Time passes: fewer leases are still to be used.
LEMMA ClockKeeps ==
    ASSUME GroupInv, Clock
    PROVE  GroupInv' /\ netdb' = netdb
  <1>1. /\ service = "running" /\ time < Horizon /\ time' = time + 1
        /\ UNCHANGED <<dest, builds, owners, bridge, publication, netdb, command, phase, service>>
    BY ZenonT(60) DEF Clock
  <1>2. GroupTypes /\ time \in Nat /\ time' \in Times
    BY <1>1, ConfigAssumption DEF GroupInv, GroupTypes, Times
  <1>3. GroupTypes'
    BY <1>1, <1>2, ZenonT(60) DEF GroupTypes, Runtime, Bridges, Publications, Records, Phases, States, Tunnels, Times, Slots,
                      Directions, NoTunnel
  <1>4. /\ Good(dest, builds, owners, bridge, publication, netdb, time)
        /\ InPhase(phase.name, dest, builds, bridge, publication)
    BY <1>1, ZenonT(60) DEF GroupInv, Running
  <1>5. ASSUME NEW r \in Records, Alive(r, dest, time) PROVE Alive(r, dest, time + 1)
    <2>1. \A l \in r.leases : l.end \in Int  BY ConfigAssumption DEF Records
    <2>2. \A l \in r.leases : l.end > time + 1 => l.end > time  BY <1>2, <2>1
    <2> QED  BY <1>5, <2>2, ZenonT(60) DEF Alive
  <1>6. bridge.record \in Records /\ netdb \in Records  BY <1>2 DEF GroupTypes, Bridges
  <1>7. Good(dest, builds, owners, bridge, publication, netdb, time + 1)
    BY <1>4, <1>5, <1>6, ZenonT(60) DEF Good
  <1>8. /\ Good(dest', builds', owners', bridge', publication', netdb', time')
        /\ InPhase(phase'.name, dest', builds', bridge', publication')
    BY <1>1, <1>4, <1>7, ZenonT(60)
  <1> QED  BY <1>1, <1>3, <1>8 DEF GroupInv

LEMMA GroupInvNext == GroupInv /\ [GroupNext]_groupVars => GroupInv' /\ Newer
  <1> SUFFICES ASSUME GroupInv, [GroupNext]_groupVars PROVE GroupInv' /\ Newer
    OBVIOUS
  <1>1. CASE PollTimer
    <2>1. /\ service = "running" /\ Poll(dest, builds, owners, bridge) /\ time' = time /\ command' = command
      BY <1>1, ZenonT(60) DEF PollTimer
    <2>2. /\ GroupTypes /\ Good(dest, builds, owners, bridge, publication, netdb, time)
          /\ InPhase(phase.name, dest, builds, bridge, publication)
      BY <2>1, ZenonT(60) DEF GroupInv, Running
    <2>3. /\ dest \in Runtime /\ builds \in [Directions -> 0 .. Concurrency] /\ owners \in SUBSET Slots
          /\ bridge \in Bridges
      BY <2>2 DEF GroupTypes
    <2> QED  BY <2>1, <2>2, <2>3, PollKeeps, ZenonT(60)
  <1>2. CASE \E dir \in Directions : BuildReply(dir)  BY <1>2, BuildReplyKeeps, ZenonT(60)
  <1>3. CASE Clock
    <2>1. GroupInv' /\ netdb' = netdb  BY <1>3, ClockKeeps
    <2> QED  BY <2>1, ZenonT(60) DEF Newer
  <1>4. CASE Graceful \/ StopGroup \/ UNCHANGED groupVars
    <2>1. /\ UNCHANGED <<time, dest, builds, owners, bridge, publication, netdb, phase>>
          /\ service' = service \/ service' = "stopped"
          /\ command' = command \/ command' = "graceful"
      BY <1>4 DEF Graceful, StopGroup, groupVars
    <2>2. GroupTypes  BY ZenonT(60) DEF GroupInv
    <2>3. GroupTypes'
      BY <2>1, <2>2, ZenonT(60) DEF GroupTypes, Runtime, Bridges, Publications, Records, Phases, States, Tunnels, Times, Slots,
                        Directions, NoTunnel
    <2>4. ASSUME service' = "running"
          PROVE  /\ Good(dest', builds', owners', bridge', publication', netdb', time')
                 /\ InPhase(phase'.name, dest', builds', bridge', publication')
      <3>1. service = "running"  BY <2>1, <2>4
      <3>2. /\ Good(dest, builds, owners, bridge, publication, netdb, time)
            /\ InPhase(phase.name, dest, builds, bridge, publication)
        BY <3>1, ZenonT(60) DEF GroupInv, Running
      <3> QED  BY <2>1, <3>2, ZenonT(60)
    <2>5. GroupInv'  BY <2>3, <2>4, ZenonT(60) DEF GroupInv, Running
    <2> QED  BY <2>1, <2>5, ZenonT(60) DEF Newer
  <1> QED  BY <1>1, <1>2, <1>3, <1>4, ZenonT(60) DEF GroupNext

\* The inductive invariant of a Destination group: the types, and, while the
\* driver runs, the tables agree with the pool, the targets hold, the leases that
\* are still to be used have their tunnels and the records are in order.
THEOREM GroupInvariant == GroupSpec => []GroupInv
  <1>1. GroupInit => GroupInv  BY GroupInvInit
  <1>2. GroupInv /\ [GroupNext]_groupVars => GroupInv'  BY GroupInvNext
  <1> QED  BY <1>1, <1>2, PTL DEF GroupSpec

\* process_inbound and the eviction loop of the poll keep the owner table and the
\* bridge's roles exactly the tunnels of the pool.
THEOREM TablesAgree == GroupSpec => []TablesMatchPool
  <1>1. GroupInv => TablesMatchPool  BY ZenonT(60) DEF GroupInv, Good, Tables, TablesMatchPool
  <1> QED  BY <1>1, GroupInvariant, PTL

\* replenish_group_destination never overshoots a target or the concurrency, and
\* a group that retires neither builds nor publishes.
THEOREM NeverOvershoots == GroupSpec => []TargetsKept
  <1>1. GroupInv => TargetsKept
    <2> SUFFICES ASSUME GroupInv PROVE TargetsKept
      BY ZenonT(60)
    <2>1. GroupTypeOK
      BY ZenonT(60) DEF GroupInv, GroupTypes, GroupTypeOK, Runtime, States, Bridges, Publications, Phases
    <2>2. Running /\ phase.name # "serving" => builds = NoBuilds /\ ~publication.pending
      BY DEF GroupInv, InPhase
    <2>3. Running => Targets(dest, builds)  BY ZenonT(60) DEF GroupInv, Good
    <2> QED  BY <2>1, <2>2, <2>3, ZenonT(60) DEF TargetsKept, Targets
  <1> QED  BY <1>1, GroupInvariant, PTL

\* A lease in the NetDB that has not ended has its tunnel in the pool.
THEOREM AdvertisedAlive == GroupSpec => []AdvertisedIsAlive
  <1>1. GroupInv => AdvertisedIsAlive  BY ZenonT(60) DEF GroupInv, Good, Alive, AdvertisedIsAlive
  <1> QED  BY <1>1, GroupInvariant, PTL

\* A publication always replaces the floodfills' record by a newer one.
THEOREM FloodfillsAdvance == GroupSpec => NetDbAdvances
  <1>1. GroupInv /\ [GroupNext]_groupVars
        => [netdb' # netdb => netdb'.published > netdb.published]_groupVars
    BY GroupInvNext, ZenonT(60) DEF Newer
  <1> QED  BY <1>1, GroupInvariant, PTL DEF GroupSpec, NetDbAdvances

(***************************************************************************)
(* What the two properties need of a registry: registrations are records   *)
(* of a known role, each answered for, within the ceilings.  Stated of a   *)
(* registry value and the answers given, because a handler works on        *)
(* intermediate registries.                                                *)
(***************************************************************************)
Registration(g) ==
  /\ DOMAIN g = {"build", "previous", "role", "expires", "nextRouter",
                 "nextTunnel", "window", "reassembler", "nextId"}
  /\ g.role \in Roles

AnsweredFor(t, g, given) ==
  t \in given \/ <<g.previous, g.build>> \in CreatorBuilds

Sound(reg, given) ==
  /\ reg = [t \in DOMAIN reg |-> reg[t]]
  /\ IsFiniteSet(DOMAIN reg)
  /\ \A t \in DOMAIN reg : Registration(reg[t]) /\ AnsweredFor(t, reg[t], given)
  /\ Cardinality(DOMAIN reg) <= MaxActive
  /\ \A p \in Peers : Cardinality(ActiveFor(reg, p)) <= MaxActivePerPeer

TransitInv ==
  /\ Sound(registry, answered)
  /\ cancelled => signalled /\ DOMAIN registry = {}

(***************************************************************************)
(* One registry is another with registrations removed, and those left      *)
(* changed at most in their data plane.                                    *)
(***************************************************************************)
Alike(g, h) ==
  Registration(g) /\ g.build = h.build /\ g.previous = h.previous

Keeps(new, reg) ==
  /\ new = [t \in DOMAIN new |-> new[t]]
  /\ DOMAIN new \subseteq DOMAIN reg
  /\ \A t \in DOMAIN new : Alike(new[t], reg[t])

\* Keeping is transitive.
LEMMA KeepsTransitive ==
  ASSUME NEW a, NEW b, NEW c, Keeps(a, b), Keeps(b, c)
  PROVE  Keeps(a, c)
  BY ZenonT(60) DEF Keeps, Alike

\* A sound registry keeps itself, and any part of itself.
LEMMA PartKeeps ==
  ASSUME NEW reg, NEW given, Sound(reg, given), NEW S \in SUBSET DOMAIN reg
  PROVE  Keeps(Restrict(reg, S), reg) /\ Keeps(reg, reg)
  BY DEF Keeps, Alike, Sound, Restrict

\* Replacing the data plane of one registration keeps the registry.
LEMMA ReplaceKeeps ==
  ASSUME NEW reg, NEW given, Sound(reg, given), NEW t \in DOMAIN reg, NEW g,
         Alike(g, reg[t])
  PROVE  Keeps([reg EXCEPT ![t] = g], reg)
  BY ZenonT(60) DEF Keeps, Alike, Sound

\* What is kept of a sound registry is sound, also after further answers.
LEMMA KeepsSound ==
  ASSUME NEW reg, NEW new, NEW given, NEW more,
         Sound(reg, given), Keeps(new, reg), given \subseteq more
  PROVE  Sound(new, more)
  <1>1. IsFiniteSet(DOMAIN new) /\ Cardinality(DOMAIN new) <= Cardinality(DOMAIN reg)
    BY FS_Subset, ZenonT(60) DEF Sound, Keeps
  <1>2. /\ Cardinality(DOMAIN new) \in Nat /\ Cardinality(DOMAIN reg) \in Nat
        /\ Cardinality(DOMAIN reg) <= MaxActive
    BY <1>1, FS_CardinalityType, ZenonT(60) DEF Sound
  <1>3. \A t \in DOMAIN new : Registration(new[t]) /\ AnsweredFor(t, new[t], more)
    BY ZenonT(60) DEF Sound, Keeps, Alike, AnsweredFor
  <1>4. ASSUME NEW p \in Peers
        PROVE  Cardinality(ActiveFor(new, p)) <= MaxActivePerPeer
    <2>1. ActiveFor(new, p) \subseteq ActiveFor(reg, p)
      BY DEF ActiveFor, Keeps, Alike
    <2>2. ActiveFor(reg, p) \subseteq DOMAIN reg /\ IsFiniteSet(ActiveFor(reg, p))
      BY FS_Subset DEF ActiveFor, Sound
    <2>3. /\ IsFiniteSet(ActiveFor(new, p))
          /\ Cardinality(ActiveFor(new, p)) <= Cardinality(ActiveFor(reg, p))
      BY <2>1, <2>2, FS_Subset, ZenonT(60)
    <2>4. /\ Cardinality(ActiveFor(reg, p)) <= MaxActivePerPeer
          /\ Cardinality(ActiveFor(new, p)) \in Nat
          /\ Cardinality(ActiveFor(reg, p)) \in Nat
      BY <2>2, <2>3, FS_CardinalityType, ZenonT(60) DEF Sound
    <2>5. QED
      BY ONLY <2>3, <2>4, TransitAssumption, SMTT(30), Z3T(30)
  <1>5. QED
    BY <1>1, <1>2, <1>3, <1>4, TransitAssumption DEF Sound, Keeps

\* What was told of a tunnel that is not registered does not matter.
LEMMA UntoldSound ==
  ASSUME NEW reg, NEW given, NEW t, Sound(reg, given), t \notin DOMAIN reg
  PROVE  Sound(reg, given \ {t})
  <1>1. \A u \in DOMAIN reg : AnsweredFor(u, reg[u], given \ {t})
    BY ZenonT(60) DEF Sound, AnsweredFor
  <1>2. QED
    BY <1>1, ZenonT(60) DEF Sound

\* Committing an admissible build within the ceilings leaves a sound registry,
\* once the build is answered for (process_short_build_message).
LEMMA CommitSound ==
  ASSUME NEW reg, NEW given, NEW more, NEW b, NEW expires,
         Sound(reg, given), given \subseteq more, Admissible(reg, b),
         b.role \in Roles,
         b.receive \in more \/ <<b.peer, b.id>> \in CreatorBuilds
  PROVE  Sound(Insert(reg, b.receive, FreshRegistration(b, expires)), more)
  <1> DEFINE fresh == FreshRegistration(b, expires)
             new == Insert(reg, b.receive, fresh)
  <1>1. /\ fresh.build = b.id /\ fresh.previous = b.peer
        /\ Registration(fresh)
    BY ZenonT(60) DEF FreshRegistration, Registration
  <1>2. /\ DOMAIN new = DOMAIN reg \union {b.receive}
        /\ new = [t \in DOMAIN new |-> new[t]]
        /\ new[b.receive] = fresh
        /\ \A t \in DOMAIN reg : t # b.receive /\ new[t] = reg[t]
    BY ZenonT(60) DEF Insert, Admissible
  <1> HIDE DEF fresh, new
  <1>3. \A t \in DOMAIN new : Registration(new[t]) /\ AnsweredFor(t, new[t], more)
    BY <1>1, <1>2, ZenonT(60) DEF Sound, AnsweredFor
  <1>4. IsFiniteSet(DOMAIN new) /\ Cardinality(DOMAIN new) = Cardinality(DOMAIN reg) + 1
    <2>1. IsFiniteSet(DOMAIN reg) /\ b.receive \notin DOMAIN reg  BY <1>2, ZenonT(60) DEF Sound
    <2>2. QED
      BY <1>2, <2>1, FS_AddElement, ZenonT(60)
  <1>5. Cardinality(DOMAIN new) <= MaxActive
    BY <1>4, FS_CardinalityType, TransitAssumption DEF Admissible, Sound
  <1>6. ASSUME NEW p \in Peers
        PROVE  Cardinality(ActiveFor(new, p)) <= MaxActivePerPeer
    <2>1. CASE p # b.peer
      <3>1. ActiveFor(new, p) = ActiveFor(reg, p)
        BY <1>1, <1>2, <2>1, ZenonT(60) DEF ActiveFor
      <3>2. QED
        BY <3>1, ZenonT(60) DEF Sound
    <2>2. CASE p = b.peer
      <3>1. /\ ActiveFor(new, p) = ActiveFor(reg, p) \union {b.receive}
            /\ b.receive \notin ActiveFor(reg, p)
            /\ ActiveFor(reg, p) \subseteq DOMAIN reg
        BY <1>1, <1>2, <2>2, ZenonT(60) DEF ActiveFor
      <3>2. IsFiniteSet(ActiveFor(reg, p))
        BY <3>1, FS_Subset DEF Sound
      <3>3. Cardinality(ActiveFor(new, p)) = Cardinality(ActiveFor(reg, p)) + 1
        BY <3>1, <3>2, FS_AddElement, ZenonT(60)
      <3>4. /\ Cardinality(ActiveFor(reg, p)) \in Nat
            /\ Cardinality(ActiveFor(reg, p)) < MaxActivePerPeer
        BY <2>2, <3>2, FS_CardinalityType DEF Admissible
      <3>5. QED
        BY <3>3, <3>4, TransitAssumption
    <2>3. QED
      BY <2>1, <2>2, ZenonT(60)
  <1>7. QED
    BY <1>2, <1>3, <1>4, <1>5, <1>6, ZenonT(60) DEF Sound, new, fresh

\* A cell changes at most the data plane of its registration
\* (route_tunnel_data and the role handlers under it).
LEMMA DataAlike ==
  ASSUME NEW g, Registration(g), NEW cell, NEW peer, NEW instant
  PROVE  Alike(ProcessTunnelData(g, cell, peer, instant).reg, g)
  <1>1. Observe(g.window, cell.nonce) \in {"replay", "full", "first"}
    BY DEF Observe
  <1>2. \A w : LET o == [g EXCEPT !.window = w]
               IN /\ Alike(o, g)
                  /\ \A r : Alike([o EXCEPT !.reassembler = r], g)
    BY DEF Alike, Registration
  <1>3. Alike(g, g)
    BY DEF Alike
  <1>4. Alike(ProcessObepRecord([g EXCEPT !.window = @ \union {cell.nonce}], cell, instant).reg, g)
    BY <1>2, ZenonT(60) DEF ProcessObepRecord, Outcome
  <1>5. QED
    BY <1>1, <1>2, <1>3, <1>4, ZenonT(60) DEF ProcessTunnelData, Outcome, Registration, Roles

\* So does a message entering at a gateway (process_tunnel_gateway).
LEMMA GatewayAlike ==
  ASSUME NEW g, Registration(g), NEW message, NEW seed, NEW instant
  PROVE  Alike(ProcessTunnelGateway(g, message, seed, instant).reg, g)
  <1>1. \A n : Alike([g EXCEPT !.nextId = n], g)
    BY DEF Alike, Registration
  <1>2. Alike(g, g)
    BY DEF Alike
  <1>3. QED
    BY <1>1, <1>2 DEF ProcessTunnelGateway, Outcome

\* Undoing a commit leaves what was there before it, also when a gateway has
\* moved on in between (deliver_self_reply).
LEMMA UndoneKeeps ==
  ASSUME NEW reg, NEW given, Sound(reg, given), NEW t, NEW g, NEW f,
         Keeps(f, reg) \/ Keeps(f, Insert(reg, t, g))
  PROVE  Keeps(Rollback(f, t), reg)
  BY ZenonT(60) DEF Keeps, Alike, Insert, Rollback, Restrict

\* The message-level transaction commits an admissible build or nothing.
LEMMA RouteOutcome ==
  ASSUME NEW reg, NEW b
  PROVE  LET r == RouteShortBuild(reg, b)
         IN \/ r.registry = reg /\ r.answer # "Accepted"
            \/ /\ Admissible(reg, b)
               /\ r.registry = Insert(reg, b.receive, FreshRegistration(b, ExpiresAt(b)))
               /\ r.answer = "Accepted"
  BY ZenonT(60) DEF RouteShortBuild

\* A build leaves a sound registry, given the answer it was sent, whether its
\* reply is handed over, refused or has nowhere to go.
LEMMA DispatchSound ==
  ASSUME NEW reg, NEW given, Sound(reg, given), NEW b, b.role \in Roles,
         NEW seed, NEW ok \in BOOLEAN
  PROVE  LET d == DispatchBuild(reg, b, seed, ok)
         IN Sound(d.registry, Told(given, b, d))
  <1> DEFINE r == RouteShortBuild(reg, b)
             fresh == FreshRegistration(b, ExpiresAt(b))
             new == Insert(reg, b.receive, fresh)
             own == <<b.peer, b.id>> \in CreatorBuilds
             d == DispatchBuild(reg, b, seed, ok)
  <1>1. \/ r.registry = reg /\ r.answer # "Accepted"
        \/ Admissible(reg, b) /\ r.registry = new /\ r.answer = "Accepted"
    BY RouteOutcome
  <1> DEFINE more == given \union {b.receive}
             less == given \ {b.receive}
  <1>2. Sound(reg, given) /\ Sound(reg, more)
    <2>1. Keeps(reg, reg)  BY PartKeeps, ZenonT(60)
    <2>2. given \subseteq more  BY ZenonT(60)
    <2>3. QED
      BY <2>1, <2>2, KeepsSound, ZenonT(60)
  <1>3. Sound(r.registry, more) /\ (own => Sound(r.registry, given))
    <2>1. CASE r.registry = reg
      BY <1>2, <2>1, ZenonT(60)
    <2>2. CASE Admissible(reg, b) /\ r.registry = new
      BY <2>2, CommitSound
    <2>3. QED
      BY <1>1, <2>1, <2>2, ZenonT(60)
  <1> HIDE DEF r, fresh
  <1>4. ASSUME NEW f, Keeps(f, r.registry)
        PROVE  /\ Sound(f, more)
               /\ Sound(Rollback(f, b.receive), given)
               /\ Sound(Rollback(f, b.receive), less)
    <2>1. Sound(f, more)
      BY <1>3, <1>4, KeepsSound, ZenonT(60)
    <2>2. Keeps(Rollback(f, b.receive), reg)
      BY <1>1, <1>4, UndoneKeeps, ZenonT(60)
    <2>3. Sound(Rollback(f, b.receive), given)
      BY <2>2, KeepsSound, ZenonT(60)
    <2>4. b.receive \notin DOMAIN Rollback(f, b.receive)
      BY ZenonT(60) DEF Rollback, Restrict
    <2>5. QED
      BY <2>1, <2>3, <2>4, UntoldSound, ZenonT(60)
  <1>5. CASE own
    <2>1. d.committed = FALSE /\ d.registry \in {r.registry, reg}
      BY <1>5, ZenonT(60) DEF DispatchBuild, r
    <2>2. QED
      BY <1>2, <1>3, <1>5, <2>1, ZenonT(60) DEF Told
  <1>6. ASSUME ~own, NEW e, e = DeliverDispatched(r, b, seed, ok),
               IF e.accepted THEN Sound(e.registry, more) ELSE Sound(e.registry, less),
               r.answer # "Accepted" => Sound(e.registry, given)
        PROVE  Sound(d.registry, Told(given, b, d))
    <2>1. d = [registry |-> e.registry, committed |-> r.answer = "Accepted", accepted |-> e.accepted]
      BY <1>6, ZenonT(60) DEF DispatchBuild, r
    <2> HIDE DEF d
    <2>2. d.registry = e.registry /\ d.accepted = e.accepted /\ d.committed = (r.answer = "Accepted")
      BY <2>1, ZenonT(60)
    <2>3. QED
      BY <1>6, <2>2, ZenonT(60) DEF Told
  <1>7. CASE ~own /\ ~IsSelfReply(r, b)
    <2> DEFINE sent == b.nextRouter \in peerIndex /\ ok
    <2>1. PICK e : e = DeliverDispatch(r, b, ok)  OBVIOUS
    <2>2. Keeps(r.registry, r.registry)
      BY <1>3, PartKeeps, ZenonT(60)
    <2>3. CASE r.answer = "Accepted"
      <3>1. e.registry = IF sent THEN r.registry ELSE Rollback(r.registry, b.receive)
        BY <2>1, <2>3 DEF DeliverDispatch
      <3>2. e.accepted = (r.answer # "Fatal" /\ sent)
        BY <2>1 DEF DeliverDispatch
      <3>3. e.accepted <=> sent
        BY <3>2, <2>3, ZenonT(60)
      <3>4. Sound(Rollback(r.registry, b.receive), less)
        BY <2>2, <1>4, ZenonT(60)
      <3>5. IF e.accepted THEN Sound(e.registry, more) ELSE Sound(e.registry, less)
        BY <3>1, <3>3, <3>4, <1>3, ZenonT(60)
      <3>6. e = DeliverDispatched(r, b, seed, ok)
        BY <1>7, <2>1, ZenonT(60) DEF DeliverDispatched
      <3>7. QED
        BY <1>6, <1>7, <2>3, <3>5, <3>6, ZenonT(60)
    <2>4. CASE r.answer # "Accepted"
      <3>1. e.registry = reg
        <4>1. r.registry = reg  BY <1>1, <2>4, ZenonT(60)
        <4>2. QED
          BY <2>1, <2>4, <4>1, ZenonT(60) DEF DeliverDispatch
      <3>2. e = DeliverDispatched(r, b, seed, ok)
        BY <1>7, <2>1, ZenonT(60) DEF DeliverDispatched
      <3>3. d.registry = reg /\ d.committed = FALSE
        BY <1>7, <2>4, <3>1, <3>2, ZenonT(60) DEF DispatchBuild, r
      <3>4. QED
        BY <1>2, <3>3, ZenonT(60) DEF Told
    <2>5. QED
      BY <2>3, <2>4, ZenonT(60)
  <1>8. CASE ~own /\ IsSelfReply(r, b)
    <2> DEFINE g == b.nextTunnel
               known == g \in DOMAIN r.registry
               res == ProcessTunnelGateway(r.registry[g], <<"otbrm">>, seed, now)
               forwarded == IF known /\ res.what = "Forward"
                            THEN [r.registry EXCEPT ![g] = res.reg]
                            ELSE r.registry
    <2>1. PICK e : e = DeliverSelfReply(r, b, seed, ok)  OBVIOUS
    <2>2. Keeps(forwarded, r.registry)
      <3>1. CASE known /\ res.what = "Forward"
        <4>1. Alike(res.reg, r.registry[g])
          BY <3>1, <1>3, GatewayAlike, ZenonT(60) DEF Sound
        <4>2. QED
          BY <3>1, <4>1, <1>3, ReplaceKeeps, ZenonT(60)
      <3>2. CASE ~(known /\ res.what = "Forward")
        BY <3>2, <1>3, PartKeeps, ZenonT(60)
      <3>3. QED
        BY <3>1, <3>2, ZenonT(60)
    <2>3. e.registry = IF e.accepted THEN forwarded ELSE Rollback(forwarded, b.receive)
      BY <2>1, ZenonT(60) DEF DeliverSelfReply
    <2>4. r.answer # "Accepted" => Sound(forwarded, given)
      <3>1. SUFFICES ASSUME r.answer # "Accepted" PROVE Sound(forwarded, given)
        OBVIOUS
      <3>2. Keeps(forwarded, reg)  BY <1>1, <2>2, <3>1, ZenonT(60)
      <3>3. QED
        BY <3>2, KeepsSound, ZenonT(60)
    <2> HIDE DEF forwarded
    <2>5. IF e.accepted THEN Sound(e.registry, more) ELSE Sound(e.registry, less)
      BY <2>2, <2>3, <1>4, ZenonT(60)
    <2>6. r.answer # "Accepted" => Sound(e.registry, given)
      BY <2>2, <2>3, <2>4, <1>4, ZenonT(60)
    <2>7. e = DeliverDispatched(r, b, seed, ok)
      BY <1>8, <2>1, ZenonT(60) DEF DeliverDispatched
    <2>8. QED
      BY <1>6, <1>8, <2>5, <2>6, <2>7, ZenonT(60)
  <1>9. QED
    BY <1>5, <1>7, <1>8, ZenonT(60)

\* Nothing registered is sound.
LEMMA EmptySound ==
  ASSUME NEW given
  PROVE  Sound(<<>>, given) /\ DOMAIN <<>> = {}
  <1> DEFINE none == <<>>
  <1>1. DOMAIN none = {} /\ none = [t \in DOMAIN none |-> none[t]]
    OBVIOUS
  <1> HIDE DEF none
  <1>2. \A p : ActiveFor(none, p) = {}
    BY <1>1 DEF ActiveFor
  <1>3. IsFiniteSet(DOMAIN none) /\ Cardinality(DOMAIN none) = 0
    BY <1>1, FS_EmptySet
  <1>4. \A p : Cardinality(ActiveFor(none, p)) = 0
    BY <1>2, FS_EmptySet, ZenonT(60)
  <1>5. Sound(none, given)
    BY <1>1, <1>3, <1>4, TransitAssumption DEF Sound
  <1>6. QED
    BY <1>1, <1>5 DEF none

\* A cell keeps a sound registry sound: what a completed message does next
\* works on the registry the cell left behind (handle_tunnel_data_inner).
LEMMA TunnelDataSound ==
  ASSUME Sound(registry, answered),
         NEW c, NEW peer, NEW ok \in BOOLEAN, TunnelData(c, peer, Seed, ok)
  PROVE  Sound(registry', answered')
  <1> DEFINE t == c.tunnel
             res == ProcessTunnelData(registry[t], c, peer, now)
             reg == [registry EXCEPT ![t] = res.reg]
  <1>1. t \in DOMAIN registry /\ Alike(res.reg, registry[t])
    BY DataAlike DEF TunnelData, Sound
  <1>2. Keeps(reg, registry)
    BY <1>1, ReplaceKeeps, ZenonT(60)
  <1>3. Sound(reg, answered)
    BY <1>2, KeepsSound
  <1> HIDE DEF res, reg
  <1>4. CASE registry' = reg /\ answered' = answered
    BY <1>3, <1>4, ZenonT(60)
  <1>5. ASSUME NEW x, DeliversInnerBuild(t, res, x, peer, Seed, ok)
        PROVE  Sound(registry', answered')
    <2> DEFINE b == [InnerBuild[x.message[0]] EXCEPT !.peer = peer]
               d == DispatchBuild(reg, b, Seed, ok)
    <2>1. b.role \in Roles
      BY <1>5, TransitAssumption DEF DeliversInnerBuild
    <2>2. registry' = d.registry
          /\ answered' = Told(answered, b, d)
      BY <1>5, ZenonT(60) DEF DeliversInnerBuild, NoteAnswer, reg
    <2> HIDE DEF b
    <2>3. QED
      BY <2>1, <2>2, <1>3, DispatchSound, ZenonT(60)
  <1>6. ASSUME NEW x, DeliversMessage(t, res, x, Seed)
        PROVE  Sound(registry', answered')
    <2> DEFINE g == x.delivery.tunnel
               m == [k \in 1 .. Cardinality(DOMAIN x.message) |-> x.message[k - 1]]
               out == ProcessTunnelGateway(reg[g], m, Seed, now).reg
    <2>1. answered' = answered
      BY <1>6, ZenonT(60) DEF DeliversMessage, history
    <2>2. registry' = reg \/ (g \in DOMAIN reg /\ registry' = [reg EXCEPT ![g] = out])
      BY <1>6, ZenonT(60) DEF DeliversMessage, reg
    <2>3. CASE registry' = reg
      BY <2>1, <2>3, <1>3, ZenonT(60)
    <2>4. CASE g \in DOMAIN reg /\ registry' = [reg EXCEPT ![g] = out]
      <3>1. Alike(out, reg[g])
        BY <2>4, <1>3, GatewayAlike DEF Sound
      <3> HIDE DEF out
      <3>2. Keeps(registry', reg)
        BY <2>4, <3>1, <1>3, ReplaceKeeps, ZenonT(60)
      <3>3. QED
        BY <2>1, <3>2, <1>3, KeepsSound, ZenonT(60)
    <2>5. QED
      BY <2>2, <2>3, <2>4, ZenonT(60)
  <1>7. QED
    BY <1>4, <1>5, <1>6, ZenonT(60) DEF TunnelData, Relays, history, res, reg

\* Every step keeps the registry sound, and empty once it is drained.
LEMMA TransitStep == TransitInv /\ [Next]_vars => TransitInv'
  <1> SUFFICES ASSUME TransitInv, [Next]_vars PROVE TransitInv'
    BY ZenonT(60)
  <1>1. ASSUME NEW b \in Builds, NEW ok \in BOOLEAN, ShortBuild(b, Seed, ok)
        PROVE  TransitInv'
    <2>1. Sound(registry', answered')
      BY <1>1, DispatchSound, TransitAssumption, ZenonT(60) DEF ShortBuild, NoteAnswer, TransitInv
    <2>2. ~signalled /\ UNCHANGED <<signalled, cancelled>>
      BY <1>1, ZenonT(60) DEF ShortBuild
    <2>3. QED
      BY <2>1, <2>2 DEF TransitInv, Sound, AnsweredFor, ActiveFor
  <1>2. ASSUME NEW c \in Cells, NEW peer \in Peers, NEW ok \in BOOLEAN,
               TunnelData(c, peer, Seed, ok)
        PROVE  TransitInv'
    <2>1. Sound(registry', answered')
      BY <1>2, TunnelDataSound, ZenonT(60) DEF TransitInv
    <2>2. ~signalled /\ UNCHANGED <<signalled, cancelled>>
      BY <1>2, ZenonT(60) DEF TunnelData
    <2>3. QED
      BY <2>1, <2>2, ZenonT(60) DEF TransitInv, Sound, AnsweredFor, ActiveFor
  <1>3. ASSUME NEW t \in DOMAIN registry, TunnelGateway(t, Seed)
        PROVE  TransitInv'
    <2> DEFINE out == ProcessTunnelGateway(registry[t], <<"nested">>, Seed, now).reg
    <2>1. registry' = [registry EXCEPT ![t] = out] /\ answered' = answered
      BY <1>3 DEF TunnelGateway, history
    <2>2. Alike(out, registry[t])
      BY GatewayAlike DEF TransitInv, Sound
    <2> HIDE DEF out
    <2>3. Sound(registry', answered')
      BY <2>1, <2>2, ReplaceKeeps, KeepsSound, ZenonT(60) DEF TransitInv
    <2>4. ~signalled /\ UNCHANGED <<signalled, cancelled>>
      BY <1>3, ZenonT(60) DEF TunnelGateway
    <2>5. QED
      BY <2>3, <2>4 DEF TransitInv, Sound, AnsweredFor, ActiveFor
  <1>4. CASE Expire
    <2>1. Keeps(registry', registry)
      BY <1>4, PartKeeps, ZenonT(60) DEF Expire, TransitInv
    <2>2. Sound(registry', answered')
      BY <1>4, <2>1, KeepsSound, ZenonT(60) DEF Expire, TransitInv, history
    <2>3. QED
      BY <1>4, <2>2, ZenonT(60) DEF Expire, TransitInv, Sound, AnsweredFor, ActiveFor
  <1>5. CASE Cancel \/ InboundWhenSignalled
    <2>1. registry' = <<>> /\ signalled'
      BY <1>5 DEF Cancel, InboundWhenSignalled, Drain
    <2>2. Sound(registry', answered') /\ DOMAIN registry' = {}
      BY <2>1, EmptySound, ZenonT(60)
    <2>3. QED
      BY <2>1, <2>2 DEF TransitInv, Sound, AnsweredFor, ActiveFor
  <1>6. CASE /\ UNCHANGED <<registry, cancelled, answered>>
             /\ signalled' = signalled \/ signalled'
    BY <1>6 DEF TransitInv, Sound, AnsweredFor, ActiveFor
  <1>7. ASSUME NEW r \in Routers, InstallPeer(r) \/ NoteSessionClosed(r)
        PROVE  TransitInv'
    BY <1>6, <1>7, ZenonT(60) DEF InstallPeer, NoteSessionClosed, history
  <1>8. CASE Signal \/ Tick \/ UNCHANGED vars
    BY <1>6, <1>8 DEF Signal, Tick, vars, history
  <1>9. QED
    BY <1>1, <1>2, <1>3, <1>4, <1>5, <1>7, <1>8, ZenonT(60) DEF Next

(***************************************************************************)
(* The registry is sound in every reachable state: every registration is   *)
(* of a known role and answered for, and the admission ceilings hold.      *)
(***************************************************************************)
THEOREM TransitInvariant == Spec => []TransitInv
  <1>1. Init => TransitInv
    BY EmptySound, ZenonT(60) DEF Init, TransitInv
  <1>2. QED
    BY <1>1, TransitStep, PTL DEF Spec

(***************************************************************************)
(* For any builds, sessions and delivery failures, no tunnel is served     *)
(* whose builder was not told so (deliver_dispatch_with_rollback).         *)
(***************************************************************************)
THEOREM ServedIsAnswered == Spec => []NoDanglingRegistration
  <1>1. TransitInv => NoDanglingRegistration
    BY ZenonT(60) DEF TransitInv, Sound, AnsweredFor, NoDanglingRegistration
  <1>2. QED
    BY <1>1, TransitInvariant, PTL

(***************************************************************************)
(* For any ceilings, what is live keeps to them, in total and for every    *)
(* previous peer, and a drained service serves nothing again               *)
(* (TransitAdmissionReservation::check, cancel).                           *)
(***************************************************************************)
THEOREM CeilingsKept == Spec => []RegistryBounded
  <1>1. TransitInv => RegistryBounded
    BY DEF TransitInv, Sound, RegistryBounded
  <1>2. QED
    BY <1>1, TransitInvariant, PTL

=============================================================================
