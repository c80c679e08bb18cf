---------------------------- MODULE Destination ----------------------------
(* One router-owned Destination group of the daemon: its tunnel pool, the       *)
(* LeaseSet2 generated from the pool, the builds that replenish it, the tables  *)
(* that route inbound tunnel data to it and the publication of the record.      *)
(*   i2pr-client    pool.rs, leaseset.rs, registry.rs                           *)
(*   i2pr-daemon    service_product.rs, sam/streams.rs, service_lifecycle.rs    *)
(*                                                                              *)
(* One driver task owns the group: it polls on a timer and after every inbound  *)
(* message, and a poll is one step.  The clock counts seconds, as the code      *)
(* does; any number of polls falls into one second.                             *)
EXTENDS Integers, FiniteSets, FiniteSetsExt

CONSTANTS
    InboundTarget, OutboundTarget,  \* tunnels wanted per direction
    MinimumUsable,      \* minimum_usable_inbound
    Concurrency,        \* build_concurrency
    FailureThreshold,   \* failures in a row that pause replacement
    TunnelLifetime,           \* tunnel_lifetime_seconds
    PublicationMargin,  \* lease_publication_margin_seconds
    RotationMargin,     \* lease_rotation_margin_seconds
    RetryDelay,         \* seconds between failed publications
    RetirementTarget,   \* SERVICE_RETIREMENT_TARGET
    RetirementCap,      \* SERVICE_RETIREMENT_HARD_CAP
    Server,             \* whether the group publishes its record
    Horizon             \* bound on the clock

\* DestinationPoolConfig::try_new.
ASSUME ConfigAssumption ==
    /\ InboundTarget \in Nat \ {0} /\ OutboundTarget \in Nat \ {0}
    /\ MinimumUsable \in 1 .. InboundTarget
    /\ Concurrency \in Nat \ {0} /\ FailureThreshold \in Nat \ {0}
    /\ TunnelLifetime \in Nat \ {0} /\ PublicationMargin \in 0 .. TunnelLifetime - 1
    /\ RotationMargin \in Nat /\ RetryDelay \in Nat /\ Server \in BOOLEAN
    /\ RetirementCap \in Nat /\ RetirementTarget \in 0 .. RetirementCap
    /\ Horizon \in Nat \ {0}

Directions == {"in", "out"}
Slots == 1 .. InboundTarget + OutboundTarget
Times == 1 .. Horizon
NoTunnel == [dir |-> "none", created |-> 0]
Tunnels == [dir : Directions, created : Times] \cup {NoTunnel}

\* A record advertises leases (a tunnel and when its lease ends) and carries
\* the second it was published in.
NoRecord == [leases |-> {}, published |-> 0]

VARIABLES
    time,
    dest,         \* the DestinationRuntime: pool, LeaseSet2 lifecycle, readiness
    builds,       \* pending builds per direction
    owners,       \* inbound tunnels in the owner table
    bridge,       \* the projection the data path uses
    publication,  \* publication_pending and publication_retry_after
    netdb,        \* the last record a floodfill accepted
    command,      \* the LifecycleCommand
    phase,        \* serving, retiring until .until or at most .cap, or drained
    service       \* the daemon's service: running, failed or stopped

groupVars == <<time, dest, builds, owners, bridge, publication, netdb, command, phase, service>>

GroupInit ==
    /\ time = 1
    /\ dest = [tunnels |-> [s \in Slots |-> NoTunnel], failures |-> 0,
               record |-> NoRecord, lastPublished |-> 0, state |-> "Initializing"]
    /\ builds = [d \in Directions |-> 0]
    /\ owners = {}
    /\ bridge = [record |-> NoRecord, inbound |-> {}, outbound |-> {}]
    /\ publication = [pending |-> FALSE, retryAt |-> 0]
    /\ netdb = NoRecord
    /\ command = "run"
    /\ phase = [name |-> "serving", until |-> 0, cap |-> 0]
    /\ service = "running"

-----------------------------------------------------------------------------
(* DestinationTunnelPool: operators on the runtime d at second t.              *)

Of(d, dir) == {s \in Slots : d.tunnels[s].dir = dir}

Expires(x) == x.created + TunnelLifetime
AdvertisedEnd(x) == Expires(x) - PublicationMargin

\* inbound_lease_sources: the leases the pool can back.
Sources(d, t) ==
    {[slot |-> s, end |-> AdvertisedEnd(d.tunnels[s])] :
        s \in {i \in Of(d, "in") : Expires(d.tunnels[i]) > t /\ AdvertisedEnd(d.tunnels[i]) > t}}

Publishable(d, t) == Cardinality(Sources(d, t)) >= MinimumUsable
PoolUsable(d, t) == Publishable(d, t) /\ Of(d, "out") # {}
ReplacementPaused(d) == d.failures >= FailureThreshold

\* Fault: a tunnel is dropped when its lease should be rotated.
Expired_AtRotation(d, t) ==
    {s \in Slots : d.tunnels[s] # NoTunnel
                   /\ t - d.tunnels[s].created >= TunnelLifetime - PublicationMargin - RotationMargin}

\* advance_time of the pool: the slots it evicts.
Expired(d, t) == {s \in Slots : d.tunnels[s] # NoTunnel /\ t - d.tunnels[s].created >= TunnelLifetime}

Evict(d, gone) == [d EXCEPT !.tunnels = [s \in Slots |-> IF s \in gone THEN NoTunnel ELSE d.tunnels[s]]]

\* DestinationRuntime::note_build_failure, n times; the count matters only up
\* to the threshold.
NoteFailures(d, n) ==
    [d EXCEPT !.failures = Min({@ + n, FailureThreshold}),
              !.state = IF n > 0 /\ @ = "Usable" THEN "Degraded" ELSE @]

\* mark_tunnel_failed; also remove_tunnel followed by the caller's note_build_failure.
MarkTunnelFailed(d, s) == NoteFailures(Evict(d, {s}), 1)

-----------------------------------------------------------------------------
(* Readiness and the LeaseSet2 lifecycle.                                      *)

\* recompute_state
Recompute(d, t) ==
    [d EXCEPT !.state =
        CASE PoolUsable(d, t) /\ d.record # NoRecord -> "Usable"
          [] ~(PoolUsable(d, t) /\ d.record # NoRecord) ->
               IF Of(d, "in") \cup Of(d, "out") = {} /\ @ = "Initializing" THEN "Initializing"
               ELSE IF ~PoolUsable(d, t) /\ @ = "Usable" THEN "Degraded"
               ELSE IF @ = "Degraded" THEN "Degraded"
               ELSE "BuildingTunnels"]

\* admit_inbound or admit_outbound, then activate_tunnel.
AdmitTunnel(d, s, dir, t) ==
    Recompute([d EXCEPT !.tunnels[s] = [dir |-> dir, created |-> t], !.failures = 0,
                        !.state = IF @ = "Initializing" THEN "BuildingTunnels" ELSE @], t)

\* LeaseSetLifecycle::evaluate
Decision(d, t) ==
    IF ~Publishable(d, t) THEN "NotPublishable"
    ELSE IF \/ d.record.leases # Sources(d, t)
            \/ Min({l.end : l \in d.record.leases}) - RotationMargin <= t THEN "Regenerate"
    ELSE "Retain"

\* Fault: a record of the same second carries the same timestamp.
NextPublished_Clock(d, t) == t

\* generate: a record must be newer than the one before, or a floodfill keeps that one.
NextPublished(d, t) == IF d.lastPublished >= t THEN d.lastPublished + 1 ELSE t

\* build_signed_lease_set2 refuses a lease that ends before the record is published.
CanSign(d, t) == \A l \in Sources(d, t) : l.end > NextPublished(d, t)

\* advance_time of the runtime fails when a record is due and cannot be signed.
AdvanceFails(d, t) ==
    LET kept == Evict(d, Expired(d, t)) IN Decision(kept, t) = "Regenerate" /\ ~CanSign(kept, t)

\* DestinationRuntime::advance_time: evict, refresh the record, recompute.
AdvanceTime(d, t) ==
    LET kept == Evict(d, Expired(d, t))
    IN  CASE Decision(kept, t) = "NotPublishable" -> Recompute([kept EXCEPT !.record = NoRecord], t)
          [] Decision(kept, t) = "Regenerate" ->
               Recompute([kept EXCEPT
                   !.record = [leases |-> Sources(kept, t), published |-> NextPublished(kept, t)],
                   !.lastPublished = NextPublished(kept, t)], t)
          [] Decision(kept, t) = "Retain" -> Recompute(kept, t)

-----------------------------------------------------------------------------
(* The driver: advance_destination_pools_at, from what a message left behind.  *)

NoBuilds == [d \in Directions |-> 0]
NoPublication == [pending |-> FALSE, retryAt |-> 0]

\* RetirementState::begin: until the tunnels behind the leases have expired, though
\* not beyond the target; connections may prolong it up to the hard cap.
Retirement(expiries) ==
    [name  |-> "retiring",
     until |-> Min({Max({time} \cup expiries), time + RetirementTarget}),
     cap   |-> time + RetirementCap]

\* The first poll that sees the graceful command begins the retirement.
Retires == phase.name = "serving" /\ command = "graceful"

PhaseAt(d) ==
    IF Retires
    THEN Retirement({Expires(d.tunnels[l.slot]) : l \in Sources(d, time)})
    ELSE phase

BuildsAt(b) == IF Retires THEN NoBuilds ELSE b

\* Fault: builds under way do not count towards the target.
Deficit_IgnoresPending(d, b, dir) == (IF dir = "in" THEN InboundTarget ELSE OutboundTarget) - Cardinality(Of(d, dir))

\* replenish_group_destination: what is missing in a direction, ...
Deficit(d, b, dir) ==
    (IF dir = "in" THEN InboundTarget ELSE OutboundTarget) - Cardinality(Of(d, dir)) - b[dir]

\* ... how many builds may start (the coordinator's global limit may leave fewer) ...
SubmitLimit(d, b) ==
    IF ReplacementPaused(d) THEN 0
    ELSE Min({Concurrency - b["in"] - b["out"], Deficit(d, b, "in") + Deficit(d, b, "out")})

\* ... and destination_replenishment_order: the first n, inbound first, alternating.
Started(d, b, n) ==
    LET inbound == Max({Min({Deficit(d, b, "in"), (n + 1) \div 2}), n - Deficit(d, b, "out")})
    IN  [b EXCEPT !["in"] = @ + inbound, !["out"] = @ + (n - inbound)]

\* The record the bridge is to carry; none below the minimum.
Fresh(d) == IF Publishable(d, time) THEN d.record ELSE NoRecord

\* A changed record of a server is to be published, a withdrawn one no longer.
Scheduled(pub, old, fresh) ==
    CASE ~Server \/ old = fresh -> pub
      [] Server /\ old # fresh /\ fresh # NoRecord -> [pub EXCEPT !.pending = TRUE]
      [] OTHER -> NoPublication

\* The publications whose retry time has come are tried.
Publish(pub, record) ==
    \/ /\ ~(pub.pending /\ pub.retryAt <= time)
       /\ publication' = pub /\ netdb' = netdb
    \/ /\ pub.pending /\ pub.retryAt <= time
       /\ publication' = NoPublication /\ netdb' = record
    \/ /\ pub.pending /\ pub.retryAt <= time
       /\ publication' = [pub EXCEPT !.retryAt = time + RetryDelay] /\ netdb' = netdb

\* The rest of a poll of a serving group: refresh the bridge (below the minimum
\* it keeps the old record, and only its deadline, left out here, is cut short),
\* replenish, publish.
Serve(d, b, br, pub) ==
    LET record == IF Fresh(d) # NoRecord THEN Fresh(d) ELSE br.record
    IN  /\ bridge' = [br EXCEPT !.record = record, !.inbound = Of(d, "in")]
        /\ \E n \in 0 .. SubmitLimit(d, b) :
              /\ builds' = Started(d, b, n)
              /\ \/ dest' = d
                 \/ n < SubmitLimit(d, b) /\ dest' = NoteFailures(d, 1)  \* a submission fails
        /\ Publish(Scheduled(pub, br.record, Fresh(d)), record)

\* Fault: the owner of an expired tunnel stays in the table.
Disown_Never(o, gone) == o

\* unregister_inbound_tunnel_owner for the evicted slots.
Disown(o, gone) == o \ gone

\* The retirement may not last longer, whatever connections are left.
Capped(p) == p.name = "retiring" /\ time >= p.cap

\* The retirement has lasted long enough and no connection is left, or it is capped:
\* the cap is never before .until.
Drains(d, b, o, br, pub) ==
    /\ PhaseAt(d).name = "retiring" /\ time >= PhaseAt(d).until
    /\ phase' = [name |-> "drained", until |-> 0, cap |-> 0]
    /\ dest' = d /\ builds' = b /\ owners' = o /\ bridge' = br /\ publication' = pub
    /\ UNCHANGED <<netdb, service>>

\* A poll that goes on to the pool: lost builds time out first.
Advances(d, b, o, br, pub) ==
    \E lost \in [Directions -> 0 .. Concurrency] :
        LET left == [x \in Directions |-> b[x] - lost[x]]
            d1   == NoteFailures(d, lost["in"] + lost["out"])
            gone == Expired(d1, time)
            br1  == [br EXCEPT !.inbound = @ \ gone, !.outbound = @ \ gone]
        IN  /\ ~Capped(PhaseAt(d))
            /\ \A x \in Directions : left[x] >= 0
            /\ phase' = PhaseAt(d)
            /\ \/ /\ AdvanceFails(d1, time)          \* the error ends the service
                  /\ service' = "failed"
                  /\ dest' = Evict(d1, gone)
                  /\ builds' = left /\ owners' = o /\ bridge' = br /\ publication' = pub
                  /\ UNCHANGED netdb
               \/ /\ ~AdvanceFails(d1, time) /\ PhaseAt(d).name = "retiring"
                  /\ dest' = AdvanceTime(d1, time)
                  /\ builds' = left /\ owners' = Disown(o, gone) /\ bridge' = br1 /\ publication' = pub
                  /\ UNCHANGED <<netdb, service>>
               \/ /\ ~AdvanceFails(d1, time) /\ PhaseAt(d).name = "serving"
                  /\ owners' = Disown(o, gone)
                  /\ Serve(AdvanceTime(d1, time), left, br1, pub)
                  /\ UNCHANGED service

Poll(d, b, o, br) ==
    LET pub == IF Retires THEN NoPublication ELSE publication
    IN  Drains(d, BuildsAt(b), o, br, pub) \/ Advances(d, BuildsAt(b), o, br, pub)

-----------------------------------------------------------------------------
(* Steps of the driver and its surroundings.                                   *)

\* The 250 ms timer, or an inbound message that concerns no build.
PollTimer ==
    /\ service = "running" /\ phase.name # "drained"
    /\ Poll(dest, builds, owners, bridge)
    /\ UNCHANGED <<time, command>>

\* process_inbound with the reply to a build, and the poll that follows it: the
\* build failed or was not admitted, it was admitted and rolled back, or it is
\* installed with its owner or its outbound role.
BuildReply(dir) ==
    LET s        == Min({x \in Slots : dest.tunnels[x] = NoTunnel})
        admitted == AdmitTunnel(dest, s, dir, time)
    IN  /\ service = "running" /\ phase.name = "serving" /\ builds[dir] > 0
        /\ \E d \in {NoteFailures(dest, 1), MarkTunnelFailed(admitted, s), admitted} :
              LET new == IF d = admitted THEN {s} ELSE {}
                  in  == IF dir = "in" THEN new ELSE {}
              IN  Poll(d, [builds EXCEPT ![dir] = @ - 1], owners \cup in,
                       [bridge EXCEPT !.inbound = @ \cup in, !.outbound = @ \cup (new \ in)])
        /\ UNCHANGED <<time, command>>

Clock ==
    /\ service = "running" /\ time < Horizon
    /\ time' = time + 1
    /\ UNCHANGED <<dest, builds, owners, bridge, publication, netdb, command, phase, service>>

\* The operator asks the services to retire.
Graceful ==
    /\ service = "running" /\ command = "run"
    /\ command' = "graceful"
    /\ UNCHANGED <<time, dest, builds, owners, bridge, publication, netdb, phase, service>>

\* The hard command, or the end of the drained group.
StopGroup ==
    /\ service = "running"
    /\ service' = "stopped"
    /\ UNCHANGED <<time, dest, builds, owners, bridge, publication, netdb, command, phase>>

GroupNext ==
    \/ PollTimer \/ Clock \/ Graceful \/ StopGroup
    \/ \E dir \in Directions : BuildReply(dir)

GroupSpec == GroupInit /\ [][GroupNext]_groupVars

-----------------------------------------------------------------------------
(* Properties.                                                                 *)

Records == [leases : SUBSET [slot : Slots, end : 1 .. Horizon + TunnelLifetime], published : 0 .. Horizon + TunnelLifetime]

GroupTypeOK ==
    /\ time \in Times
    /\ dest.tunnels \in [Slots -> Tunnels] /\ dest.failures \in 0 .. FailureThreshold
    /\ dest.record \in Records /\ dest.lastPublished \in 0 .. Horizon + TunnelLifetime
    /\ dest.state \in {"Initializing", "BuildingTunnels", "Usable", "Degraded"}
    /\ builds \in [Directions -> 0 .. Concurrency]
    /\ owners \subseteq Slots
    /\ bridge.record \in Records /\ bridge.inbound \subseteq Slots /\ bridge.outbound \subseteq Slots
    /\ publication.pending \in BOOLEAN /\ publication.retryAt \in 0 .. Horizon + RetryDelay
    /\ netdb \in Records
    /\ command \in {"run", "graceful"}
    /\ phase.name \in {"serving", "retiring", "drained"} /\ phase.until \in 0 .. Horizon + TunnelLifetime
    /\ phase.cap \in 0 .. Horizon + RetirementCap
    /\ service \in {"running", "failed", "stopped"}

Running == service = "running"

\* The three tables that route tunnel data agree with the pool after every poll:
\* process_inbound and the eviction loop never leave an inbound tunnel without
\* its owner, an owner without its tunnel, or a role for a tunnel that is gone.
TablesMatchPool ==
    Running => /\ owners = Of(dest, "in") /\ bridge.inbound = Of(dest, "in")
               /\ bridge.outbound = Of(dest, "out")

\* Replenishment never overshoots: with the builds under way counted in, a
\* direction has at most its target of tunnels, and the builds stay within
\* their concurrency.  A group that retires starts nothing new: no build is under
\* way and no publication is due.
TargetsKept ==
    /\ GroupTypeOK
    /\ Running /\ phase.name # "serving" => builds = NoBuilds /\ ~publication.pending
    /\ Running =>
               /\ Cardinality(Of(dest, "in")) + builds["in"] <= InboundTarget
               /\ Cardinality(Of(dest, "out")) + builds["out"] <= OutboundTarget
               /\ builds["in"] + builds["out"] <= Concurrency

\* Remote routers never use a lease whose tunnel is gone: every lease of the
\* record in the NetDB that has not ended has its tunnel in the pool, also
\* after publications failed and while the group retires.
AdvertisedIsAlive ==
    Running => \A l \in netdb.leases :
        l.end > time => l.slot \in Of(dest, "in") /\ AdvertisedEnd(dest.tunnels[l.slot]) = l.end

\* What reaches the floodfills is always newer than what they have, also after a
\* withdrawal and within one second; an equal timestamp would be ignored.
NetDbAdvances == [][netdb' # netdb => netdb'.published > netdb.published]_groupVars

\* The claim that the same state does not regenerate unboundedly (plan 120,
\* section 9): a record that exists for these leases and this second is kept.
SameStateRetains ==
    [][dest'.record.leases = dest.record.leases /\ dest.record.published >= time
          => dest'.record = dest.record]_groupVars

=============================================================================
