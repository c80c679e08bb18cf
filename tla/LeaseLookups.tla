---------------------------- MODULE LeaseLookups ----------------------------
(***************************************************************************)
(* Resolving and publishing destinations through tunnels: the daemon's     *)
(* DestinationTunnelCoordinator (i2pr-daemon/src/destination_tunnels.rs),  *)
(* the one-lookup engine and the lease-set cache it drives (i2pr-netdb),   *)
(* and the provisioning tasks of service_product.rs that use it.           *)
(*                                                                         *)
(* One task at a time provisions (it borrows the transport handle), but    *)
(* the coordinator sits behind a mutex taken afresh for each step: begin,  *)
(* every reply, the read of the cache, compose and cancel are separate     *)
(* actions, and when Supervised other holders of the mutex step between    *)
(* them.  The pending table is keyed by request; the engine holds ONE      *)
(* lookup, and a reply is matched against that one whatever request it is  *)
(* ingested for.                                                           *)
(*                                                                         *)
(* A reply that a handler returns from without changing anything           *)
(* (malformed, wrong key, unknown request) is a stuttering step.  Left     *)
(* out: counters; search replies and delivery outcomes, which change only  *)
(* counters and a suggestion list nothing reads; the reply-path bound,     *)
(* which equals the lookup bound and is taken and freed with it.           *)
(***************************************************************************)
EXTENDS Integers, FiniteSets, Functions

CONSTANTS
    Resolvers,       \* resolutions the services ask for, in any order
    TargetOf,        \* [Resolvers -> [key, destination]]
    Publishers,      \* server destinations that publish their lease set
    Floodfills,      \* routers that may enter the RouterInfo store
    Replies,         \* DatabaseStore bodies a floodfill may answer with
    NoLookup, NoDestination, NoRecord,
    MaxPending,      \* MAX_CONCURRENT_LEASE_LOOKUPS
    MaxPublications, \* MAX_CONCURRENT_LEASE_PUBLICATIONS
    MaxAttempts,     \* MAX_LOOKUP_ATTEMPTS of a resolution
    MaxRetries,      \* MAX_LEASE_LOOKUP_RETRIES
    LookupDeadline,  \* DEFAULT_LEASE_LOOKUP_DEADLINE_MS
    MaxRecords, MaxBytes,  \* LeaseSet2StoreConfig
    Supervised,      \* TRUE: callers also cancel, expire and acknowledge
    MaxRequests, MaxNow    \* bounds of the model

ASSUME LeaseAssumption ==
    /\ Supervised \in BOOLEAN
    /\ \A n \in {MaxPending, MaxPublications, MaxAttempts, MaxRecords,
                 MaxRequests} : n \in Nat \ {0}
    /\ \A r \in Resolvers : TargetOf[r].destination \in {NoDestination, TargetOf[r].key}
    /\ LookupDeadline \in Nat /\ MaxBytes \in Nat
    /\ \A x \in Replies : /\ x.kind \in {"LeaseSet2", "EncryptedLeaseSet"}
                         /\ x.published \in Nat /\ x.len \in Nat

VARIABLES
    now,           \* now_ms
    floodfills,    \* the floodfill advertisers of the RouterInfo store
    nextId,        \* next_request_id
    engine,        \* lease_set2_lookup: NoLookup or the one active lookup
    pending,       \* request id -> PendingLeaseLookup
    cache,         \* LeaseSet2Store.records
    cacheBytes,    \* LeaseSet2Store.total_encoded_bytes
    publications,  \* request id -> message id, 0 before it is composed
    resolver,      \* what each resolution is doing
    publisher,     \* what each publication is doing
    accepted,      \* ghost: publication requests delivered to the transport
    newest         \* ghost: newest record installed so far, per destination

coordinator == <<floodfills, nextId, engine, pending, cache, cacheBytes,
                 publications>>
vars == <<now, coordinator, resolver, publisher, accepted, newest>>

With(f, x, value) == [y \in DOMAIN f \cup {x} |-> IF y = x THEN value ELSE f[y]]

Without(f, x) == Restrict(f, DOMAIN f \ {x})

Idle == [at |-> "idle", id |-> 0, attempts |-> 0, answer |-> NoRecord,
         installed |-> NoRecord]

Init ==
    /\ now = 0
    /\ floodfills = {}
    /\ nextId = 1
    /\ engine = NoLookup
    /\ pending = <<>>
    /\ cache = <<>>
    /\ cacheBytes = 0
    /\ publications = <<>>
    /\ resolver = [r \in Resolvers |-> Idle]
    /\ publisher = [p \in Publishers |-> [at |-> "idle", id |-> 0]]
    /\ accepted = {}
    /\ newest = [d \in {TargetOf[r].destination : r \in Resolvers} |-> 0]

---------------------------------------------------------------------------
(* The LeaseSet2 cache.                                                    *)

\* LeaseSet2Store::insert takes a record that is strictly newer than the one
\* it has for the destination, within the record and byte ceilings.
Takes(x) ==
    IF x.key \in DOMAIN cache
      THEN /\ x.published > cache[x.key].published
           /\ x.len > cache[x.key].len =>
                  cacheBytes + x.len - cache[x.key].len <= MaxBytes
      ELSE /\ Cardinality(DOMAIN cache) < MaxRecords
           /\ cacheBytes + x.len <= MaxBytes

\* Mutant: a replacement does not give back the bytes of the record it drops.
HeldBytes_Forgotten(x) == 0

HeldBytes(x) == IF x.key \in DOMAIN cache THEN cache[x.key].len ELSE 0

StoreInsert(x) ==
    IF Takes(x)
      THEN /\ cache' = With(cache, x.key, x)
           /\ cacheBytes' = cacheBytes + x.len - HeldBytes(x)
      ELSE UNCHANGED <<cache, cacheBytes>>

---------------------------------------------------------------------------
(* The engine: one lookup at a time.                                       *)

EngineIdle == engine = NoLookup

EngineStart(id, key) == engine' = [id |-> id, key |-> key]

EngineCancel == engine' = NoLookup

\* A DatabaseStore for the key under lookup ends it, whatever the cache says of
\* the record; an encrypted record is handed up unopened.
EngineAccepts(x) ==
    /\ ~EngineIdle
    /\ x.key = engine.key
    /\ engine' = NoLookup
    /\ IF x.kind = "LeaseSet2" THEN StoreInsert(x) ELSE UNCHANGED <<cache, cacheBytes>>

---------------------------------------------------------------------------
(* Resolving a target.                                                     *)

\* select_floodfill_candidates: every advertiser but the target itself.
Candidates(key) == floodfills \ {key}

\* The provisioning task is between two services.
Unoccupied ==
    /\ \A r \in Resolvers : resolver[r].at \notin {"waiting", "answered"}
    /\ \A p \in Publishers : publisher[p].at \notin {"begun", "composed"}

\* The resolution returns; its outcome is remembered, and the request it gave up.
Returns(r, outcome) ==
    resolver' = [resolver EXCEPT ![r] =
        [Idle EXCEPT !.at = outcome, !.id = IF outcome = "exhausted"
                                              THEN resolver[r].id ELSE 0]]

\* begin_lease_lookup_inner.  An engine that is busy refuses the lookup, and
\* the request id is spent all the same.
BeginLookup(r) ==
    /\ resolver[r].at = "idle"
    /\ Unoccupied
    /\ LET key == TargetOf[r].key
           full == Cardinality(DOMAIN pending) >= MaxPending
       IN  IF full \/ Candidates(key) = {}
             THEN /\ Returns(r, "failed")
                  /\ UNCHANGED <<nextId, engine, pending>>
             ELSE /\ nextId <= MaxRequests
                  /\ nextId' = nextId + 1
                  /\ IF ~EngineIdle
                       THEN /\ Returns(r, "failed")
                            /\ UNCHANGED <<engine, pending>>
                       ELSE /\ EngineStart(nextId, key)
                            /\ pending' = With(pending, nextId,
                                 [key |-> key,
                                  destination |-> TargetOf[r].destination,
                                  deadline |-> now + LookupDeadline,
                                  retries |-> 0])
                            /\ resolver' = [resolver EXCEPT ![r] =
                                 [Idle EXCEPT !.at = "waiting", !.id = nextId,
                                              !.attempts = 1]]
    /\ UNCHANGED <<now, floodfills, cache, cacheBytes, publications, publisher,
                   accepted, newest>>

\* Mutant: the coordinator completes a request with whatever the engine
\* accepted, without comparing the record with the request's destination.
Binds_Any(id, x) == TRUE

\* The destination check of ingest_tunnel_lease_store: a lease set must be the
\* one the request is for, and only a request without a destination takes an
\* encrypted record.
Binds(id, x) ==
    IF x.kind = "LeaseSet2"
      THEN pending[id].destination = x.key
      ELSE pending[id].destination = NoDestination

\* ingest_tunnel_lease_store on a reply the engine accepts: one for the key the
\* engine is looking up.  The engine is done with its lookup before the
\* coordinator decides whether the request is.
Ingest(r, x) ==
    /\ resolver[r].at = "waiting"
    /\ resolver[r].id \in DOMAIN pending
    /\ EngineAccepts(x)
    /\ IF Binds(resolver[r].id, x)
         THEN /\ pending' = Without(pending, resolver[r].id)
              /\ resolver' = [resolver EXCEPT ![r] =
                                 [Idle EXCEPT !.at = "answered", !.answer = x]]
         ELSE UNCHANGED <<pending, resolver>>
    /\ UNCHANGED <<now, floodfills, nextId, publications, publisher, accepted, newest>>

\* The ordinary resolution returns when a query cannot be sent; the encrypted one
\* leaves its loop without a message (resolve_encrypted_destination_for_service).
Undelivered(r) ==
    IF TargetOf[r].destination = NoDestination THEN "exhausted" ELSE "failed"

\* The cells could not be composed or the transport refused one.
DispatchFails(r) ==
    /\ resolver[r].at = "waiting"
    /\ Returns(r, Undelivered(r))
    /\ UNCHANGED <<now, coordinator, publisher, accepted, newest>>

\* The window of an attempt ends: query again, or give the target up.
WindowEnds(r) ==
    /\ resolver[r].at = "waiting"
    /\ IF resolver[r].attempts < MaxAttempts
         THEN resolver' = [resolver EXCEPT ![r].attempts = @ + 1]
         ELSE Returns(r, "exhausted")
    /\ UNCHANGED <<now, coordinator, publisher, accepted, newest>>

\* EncryptedServiceResolver::ingest_store: the record, once its own key is checked.
IngestStore(r) ==
    IF resolver[r].answer.key = TargetOf[r].key THEN resolver[r].answer ELSE NoRecord

\* Mutant: the service installs the record of its own reply, not the cached one.
Installable_Answer(r) == resolver[r].answer

\* What the resolution hands to the service: the cached record of the destination, or
\* the encrypted record.
Installable(r) ==
    LET target == TargetOf[r]
    IN  IF target.destination = NoDestination THEN IngestStore(r)
        ELSE IF target.key \in DOMAIN cache THEN cache[target.key] ELSE NoRecord

Install(r) ==
    /\ resolver[r].at = "answered"
    /\ LET x == Installable(r)
           d == TargetOf[r].destination
       IN  IF x = NoRecord
             THEN Returns(r, "failed") /\ UNCHANGED newest
             ELSE /\ resolver' = [resolver EXCEPT ![r] =
                                    [Idle EXCEPT !.at = "installed",
                                                 !.installed = x]]
                  /\ newest' = [newest EXCEPT ![d] =
                                  IF x.published > @ THEN x.published ELSE @]
    /\ UNCHANGED <<now, coordinator, publisher, accepted>>

\* The record does not unwrap, or the bridge is gone or refuses it.
InstallRefused(r) ==
    /\ resolver[r].at = "answered"
    /\ Returns(r, "failed")
    /\ UNCHANGED <<now, coordinator, publisher, accepted, newest>>

---------------------------------------------------------------------------
(* Publishing a lease set: publish_service_ls2_for_service.                *)

Publishes(p, state) == publisher' = [publisher EXCEPT ![p].at = state]

BeginPublication(p) ==
    /\ publisher[p].at = "idle"
    /\ Unoccupied
    /\ IF floodfills = {} \/ Cardinality(DOMAIN publications) >= MaxPublications
         THEN /\ Publishes(p, "failed")
              /\ UNCHANGED <<nextId, publications>>
         ELSE /\ nextId <= MaxRequests
              /\ nextId' = nextId + 1
              /\ publications' = With(publications, nextId, 0)
              /\ publisher' = [publisher EXCEPT ![p] = [at |-> "begun", id |-> nextId]]
    /\ UNCHANGED <<now, floodfills, engine, pending, cache, cacheBytes, resolver,
                   accepted, newest>>

\* cancel_ls2_publication, on every path that gives the attempt up.
GiveUp(p) ==
    /\ publications' = Without(publications, publisher[p].id)
    /\ Publishes(p, "failed")

\* compose_ls2_publication_via_tunnel; every publication carries one message id.
ComposePublication(p) ==
    /\ publisher[p].at = "begun"
    /\ \/ /\ publications' = [publications EXCEPT ![publisher[p].id] = 1]
          /\ Publishes(p, "composed")
       \/ GiveUp(p)
    /\ UNCHANGED <<now, floodfills, nextId, engine, pending, cache, cacheBytes,
                   resolver, accepted, newest>>

\* Mutant: a refused cell returns the error without cancelling the attempt.
DeliverPublication_Leaks(p) ==
    /\ publisher[p].at = "composed"
    /\ \/ /\ Publishes(p, "accepted")
          /\ accepted' = accepted \cup {publisher[p].id}
       \/ Publishes(p, "failed") /\ UNCHANGED accepted
    /\ UNCHANGED <<now, coordinator, resolver, newest>>

\* Every cell was accepted by the transport, or one was refused.
DeliverPublication(p) ==
    /\ publisher[p].at = "composed"
    /\ \/ /\ Publishes(p, "accepted")
          /\ accepted' = accepted \cup {publisher[p].id}
          /\ UNCHANGED publications
       \/ GiveUp(p) /\ UNCHANGED accepted
    /\ UNCHANGED <<now, floodfills, nextId, engine, pending, cache, cacheBytes,
                   resolver, newest>>

\* A failed attempt is retried; an accepted one is repeated when the leases change.
PublishAgain(p) ==
    /\ publisher[p].at \in {"failed", "accepted"}
    /\ nextId <= MaxRequests
    /\ publisher' = [publisher EXCEPT ![p] = [at |-> "idle", id |-> 0]]
    /\ UNCHANGED <<now, coordinator, resolver, accepted, newest>>

---------------------------------------------------------------------------
(* What the coordinator offers beside, and the product never calls.        *)

\* Mutant: a cancelled request leaves the engine at work.
CancelLookup_LeavesEngine(id) ==
    /\ Supervised
    /\ id \in DOMAIN pending
    /\ pending' = Without(pending, id)
    /\ UNCHANGED <<now, floodfills, nextId, engine, cache, cacheBytes, publications,
                   resolver, publisher, accepted, newest>>

\* cancel_lookup: frees the request and stops whatever the engine is doing.
CancelLookup(id) ==
    /\ Supervised
    /\ id \in DOMAIN pending
    /\ pending' = Without(pending, id)
    /\ EngineCancel
    /\ UNCHANGED <<now, floodfills, nextId, cache, cacheBytes, publications,
                   resolver, publisher, accepted, newest>>

ExpireLookups ==
    /\ Supervised
    /\ LET expired == {id \in DOMAIN pending : pending[id].deadline <= now}
       IN  /\ expired # {}
           /\ pending' = Restrict(pending, DOMAIN pending \ expired)
           /\ EngineCancel
    /\ UNCHANGED <<now, floodfills, nextId, cache, cacheBytes, publications,
                   resolver, publisher, accepted, newest>>

NoteTunnelLoss(id) ==
    /\ Supervised
    /\ id \in DOMAIN pending
    /\ IF pending[id].retries + 1 > MaxRetries
         THEN pending' = Without(pending, id) /\ EngineCancel
         ELSE /\ pending' = [pending EXCEPT ![id].retries = @ + 1]
              /\ UNCHANGED engine
    /\ UNCHANGED <<now, floodfills, nextId, cache, cacheBytes, publications,
                   resolver, publisher, accepted, newest>>

\* correlate_ls2_publication_status: the first publication with the message id.
CorrelateStatus ==
    /\ Supervised
    /\ LET composed == {id \in DOMAIN publications : publications[id] = 1}
       IN  \E id \in composed :
             /\ \A other \in composed : id <= other
             /\ publications' = Without(publications, id)
    /\ UNCHANGED <<now, floodfills, nextId, engine, pending, cache, cacheBytes,
                   resolver, publisher, accepted, newest>>

---------------------------------------------------------------------------
(* What the product calls beside its resolutions and publications.         *)

\* bootstrap_reference_router_info.
Bootstrap(f) ==
    /\ f \notin floodfills
    /\ floodfills' = floodfills \cup {f}
    /\ UNCHANGED <<now, nextId, engine, pending, cache, cacheBytes, publications,
                   resolver, publisher, accepted, newest>>

\* advance_time.
Tick ==
    /\ now < MaxNow
    /\ now' = now + 1
    /\ UNCHANGED <<coordinator, resolver, publisher, accepted, newest>>

Next ==
    \/ \E r \in Resolvers :
          \/ BeginLookup(r)
          \/ \E x \in Replies : Ingest(r, x)
          \/ DispatchFails(r)
          \/ WindowEnds(r)
          \/ Install(r)
          \/ InstallRefused(r)
    \/ \E p \in Publishers :
          \/ BeginPublication(p)
          \/ ComposePublication(p)
          \/ DeliverPublication(p)
          \/ PublishAgain(p)
    \/ \E id \in 1..MaxRequests : CancelLookup(id) \/ NoteTunnelLoss(id)
    \/ ExpireLookups
    \/ CorrelateStatus
    \/ \E f \in Floodfills : Bootstrap(f)
    \/ Tick

Spec == Init /\ [][Next]_vars

---------------------------------------------------------------------------
(* Properties.                                                             *)

\* The engine never works for a request the coordinator has forgotten, on any
\* mix of replies, cancellations, expiries and tunnel losses: a lookup nobody
\* can complete or cancel would block every later one.
EngineHasOwner ==
    engine # NoLookup =>
        /\ engine.id \in DOMAIN pending
        /\ engine.key = pending[engine.id].key

\* An ordinary resolution is only ever completed by a lease set, one for its own
\* destination, and what any resolution installs was filed under its own key
\* (ingest_tunnel_lease_store, EncryptedServiceResolver::ingest_store).
AnswerBinds ==
    \A r \in Resolvers :
        LET state == resolver[r]
            target == TargetOf[r]
        IN  /\ state.at = "answered" /\ target.destination # NoDestination =>
                   /\ state.answer.kind = "LeaseSet2"
                   /\ state.answer.key = target.destination
            /\ state.at = "installed" => state.installed.key = target.key

\* A stale answer never takes a destination back: although the engine completes a
\* lookup whether or not the cache took the record, no service installs a lease
\* set older than one installed before it for the same destination.
InstallsAdvance ==
    [][\A r \in Resolvers :
          /\ resolver[r].at # "installed" /\ resolver'[r].at = "installed"
          /\ TargetOf[r].destination # NoDestination
          => resolver'[r].installed.published >= newest[TargetOf[r].destination]]_vars

\* The bytes of the records cached under the given keys, one element for each.
BytesUnder(keys) == UNION {{key} \X (1 .. cache[key].len) : key \in keys}

\* The cache's running byte total counts the bytes of its records and stays within
\* the ceilings after any series of inserts and replacements (LeaseSet2Store::insert).
CacheExact ==
    /\ cacheBytes = Cardinality(BytesUnder(DOMAIN cache))
    /\ cacheBytes <= MaxBytes
    /\ Cardinality(DOMAIN cache) <= MaxRecords

\* A publication slot is held by an attempt in flight or by a publication that was
\* accepted, never by one that failed; and an attempt in flight still has its slot
\* (publish_service_ls2_for_service cancels on every failing path).
SlotsHeldByLive ==
    LET inFlight == {publisher[p].id :
                        p \in {q \in Publishers : publisher[q].at = "begun"}}
        composed == {publisher[p].id :
                        p \in {q \in Publishers : publisher[q].at = "composed"}}
    IN  /\ DOMAIN publications \subseteq inFlight \cup composed \cup accepted
        /\ inFlight \subseteq DOMAIN publications

\* A resolution that gave up has given its engine lookup up too: "The lookup engine
\* already released its slot when it produced the terminal failure".
ExhaustedReleasesEngine ==
    \A r \in Resolvers :
        resolver[r].at = "exhausted" /\ engine # NoLookup => engine.id # resolver[r].id
=============================================================================
