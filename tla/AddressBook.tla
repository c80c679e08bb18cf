---------------------------- MODULE AddressBook ----------------------------
(***************************************************************************)
(* The address-book owner (crates/i2pr-daemon/src/addressbook.rs) with its *)
(* books (i2pr-addressbook), its generation files                          *)
(* (i2pr-storage/src/address_book_generation.rs) and the refresh worker    *)
(* (i2pr-daemon/src/lib.rs), on a file system whose calls may fail and     *)
(* when the process or the machine stops at any point.                     *)
(*                                                                         *)
(* The daemon runs on one thread, so between two awaits nothing interleaves *)
(* but a crash: a transaction takes several steps here only so that each   *)
(* of its file operations can fail or be the last.  A renamed file has its *)
(* contents synced; the renames of a directory survive in order, and all   *)
(* of them once it is synced.  Destinations, validators of a fetch and the *)
(* keys of the configuration other than should_publish are left out.       *)
(***************************************************************************)
EXTENDS Naturals, FiniteSets

CONSTANTS
    Names,             \* hostnames
    Edited,            \* the books an operator edits
    SubscriptionSets,  \* the sets of URLs an operator configures
    Contents,          \* what a subscription may serve
    MaxEntries,        \* max_entries
    None, Invalid,     \* no file; a generation that does not decode
    MaxRevision,       \* bound: commits that change the book
    MaxFaults,         \* bound: file operations that fail
    MaxCrashes         \* bound: crashes

BookKinds == {"private", "local", "router", "published"}

\* AddressBook: the books, and the sources of those URLs that were fetched.
Sources == UNION {[urls -> Contents] : urls \in SUBSET UNION SubscriptionSets}
Generations ==
    [books : [BookKinds -> SUBSET Names], publish : BOOLEAN, subs : SubscriptionSets,
     sources : Sources, rev : Nat]

ASSUME BookAssumption ==
    /\ IsFiniteSet(Names)
    /\ Edited \subseteq BookKinds
    /\ {} \in SubscriptionSets
    /\ None \notin Generations /\ Invalid \notin Generations /\ None # Invalid
    /\ {MaxEntries, MaxRevision, MaxFaults, MaxCrashes} \subseteq Nat

VARIABLES
    dir,        \* the state directory: current, backup and published artifact
    survivors,  \* what a loss of power may leave of it
    phase,      \* down, starting, active or inactive (the sticky error)
    book,       \* ManagerState.addressbook
    op,         \* the transaction or activation under way
    shared,     \* SharedAddressBook: the snapshot that lookups and getters read
    queue,      \* RefreshQueue
    notify,     \* refresh_notify holds a permit
    worker,     \* the refresh service
    acked,      \* the last generation that a request or an activation ended with
    stored,     \* the last one of them that was synced
    tried,      \* the generations put up since that
    due,        \* a changed set has not been taken up for fetching
    faults, crashes

disk == <<dir, survivors>>
refresh == <<queue, notify, worker, due>>
vars == <<dir, survivors, phase, book, op, shared, queue, notify, worker,
          acked, stored, tried, due, faults, crashes>>

Idle == [stage |-> "idle"]
EmptyQueue == [active |-> None, pending |-> None, inFlight |-> FALSE]
Waiting == [at |-> "waiting"]

\* AddressBook::new
NewBook ==
    [books |-> [k \in BookKinds |-> {}], publish |-> FALSE,
     subs |-> {}, sources |-> [u \in {} |-> None], rev |-> 0]

Init ==
    /\ dir = [current |-> None, backup |-> None, artifact |-> None]
    /\ survivors = {dir}
    /\ phase = "down"
    /\ book = NewBook /\ op = Idle /\ shared = None
    /\ queue = EmptyQueue /\ notify = FALSE /\ worker = Waiting
    /\ acked = None /\ stored = None /\ tried = {} /\ due = FALSE
    /\ faults = 0 /\ crashes = 0

\* A file operation fails.
Fault == faults < MaxFaults /\ faults' = faults + 1

-----------------------------------------------------------------------------
(* The books. *)

Bump(b) == [b EXCEPT !.rev = @ + 1]

\* sync_published_from_router
SyncPublished(b) ==
    IF b.publish /\ b.books["published"] # b.books["router"]
    THEN Bump([b EXCEPT !.books["published"] = b.books["router"]])
    ELSE b

\* apply_entry
CanAdd(b, kind, n) == n \in b.books[kind] \/ Cardinality(b.books[kind]) < MaxEntries
Added(b, kind, n) == Bump([b EXCEPT !.books[kind] = @ \cup {n}])
CanDelete(b, kind, n) == n \in b.books[kind]
Deleted(b, kind, n) == Bump([b EXCEPT !.books[kind] = @ \ {n}])

\* replace_subscriptions: the sources of the URLs that stay are kept.
Subscribed(b, urls) ==
    IF urls = b.subs THEN b
    ELSE Bump([b EXCEPT !.subs = urls,
                        !.sources = [u \in DOMAIN b.sources \cap urls |-> b.sources[u]]])

\* apply_config
Configured(b, publish) ==
    IF publish = b.publish THEN b ELSE Bump([b EXCEPT !.publish = publish])

\* replace_subscription_sources, once the sources are accepted.
Refreshed(b, sources) ==
    IF sources = b.sources THEN b ELSE Bump([b EXCEPT !.sources = sources])

\* The sources cover exactly the configured URLs.
Covers(sources, b) == DOMAIN sources = b.subs

\* decode_generation puts the sources, when there are any, through
\* replace_subscription_sources again.
Decodable(g) == DOMAIN g.sources = {} \/ Covers(g.sources, g)

-----------------------------------------------------------------------------
(* The refresh queue: one active and one pending set. *)

\* push
Push(q, set) ==
    IF q.active = None THEN [q EXCEPT !.active = set, !.inFlight = FALSE]
    ELSE [q EXCEPT !.pending = set]

\* Fault: a set that coalesced behind the fetch is forgotten.
Finish_DropsPending(q) == EmptyQueue

\* finish_active
Finish(q) == [active |-> q.pending, pending |-> None, inFlight |-> FALSE]

-----------------------------------------------------------------------------
(* How a transaction and an activation end. *)

\* transact persisted the book, or activate has nothing left to persist: the
\* snapshot is published, and the caller goes on without an await.
Acknowledge ==
    /\ phase' = "active" /\ op' = Idle
    /\ shared' = book /\ acked' = book /\ stored' = book /\ tried' = {}
    /\ CASE op.for = "subscribe" ->
               /\ queue' = Push(queue, book.subs) /\ notify' = TRUE /\ due' = TRUE
               /\ UNCHANGED worker
         [] op.for = "fetch" ->
               /\ queue' = Finish(queue) /\ worker' = [at |-> "draining"]
               /\ UNCHANGED <<notify, due>>
         [] OTHER -> UNCHANGED refresh
    /\ UNCHANGED <<book, crashes>>

\* Fault: the update stays in memory although it was not stored.
Refuse_KeepsBook ==
    /\ op' = Idle
    /\ phase' = IF op.for = "activate" THEN "inactive" ELSE phase
    /\ IF op.for = "fetch"
       THEN queue' = Finish(queue) /\ worker' = [at |-> "draining"]
       ELSE UNCHANGED <<queue, worker>>
    /\ UNCHANGED <<book, shared, notify, due, acked, stored, tried, crashes>>

\* The transaction is rolled back in memory; a failed activation leaves the
\* subsystem inactive.
Refuse ==
    /\ op' = Idle
    /\ phase' = IF op.for = "activate" THEN "inactive" ELSE phase
    /\ book' = IF op.for = "activate" THEN NewBook ELSE op.old
    /\ IF op.for = "fetch"
       THEN queue' = Finish(queue) /\ worker' = [at |-> "draining"]
       ELSE UNCHANGED <<queue, worker>>
    /\ UNCHANGED <<shared, notify, due, acked, stored, tried, crashes>>

Goto(stage) ==
    /\ op' = [op EXCEPT !.stage = stage]
    /\ UNCHANGED <<phase, book, shared, queue, notify, worker, acked, stored, tried, due, crashes>>

Begin(for, next, stage) ==
    /\ book' = next /\ tried' = tried \cup {next}
    /\ op' = [stage |-> stage, for |-> for, old |-> book, prior |-> dir.artifact]

-----------------------------------------------------------------------------
(* The state directory. *)

\* The directory changes, for good once it is synced.
Rename(d) == dir' = d /\ survivors' = survivors \cup {d}
RenameAndSync(d) == dir' = d /\ survivors' = {d}

\* write_confined_artifact: refused before the rename, or not synced after it.
WriteFails(d) == UNCHANGED disk \/ Rename(d)

\* The published artifact is replaced by the router book.  An activation that has
\* changed nothing ends here.
WriteArtifact ==
    LET d == [dir EXCEPT !.artifact = book.books["router"]]
    IN  /\ op.stage = "artifact"
        /\ \/ /\ RenameAndSync(d)
              /\ IF op.for = "activate" /\ book = op.old THEN Acknowledge ELSE Goto("rotate")
              /\ UNCHANGED faults
           \/ Fault /\ WriteFails(d) /\ Refuse

\* AddressBookGenerationStore::publish: the temporary file is written and the
\* current generation becomes the backup ...
Rotate ==
    /\ op.stage = "rotate"
    /\ \/ /\ IF dir.current = None THEN UNCHANGED disk
             ELSE Rename([dir EXCEPT !.backup = dir.current, !.current = None])
          /\ Goto("install") /\ UNCHANGED faults
       \/ Fault /\ Goto("undo") /\ UNCHANGED disk

\* ... the new one becomes current ...
Install ==
    /\ op.stage = "install"
    /\ \/ Rename([dir EXCEPT !.current = book]) /\ Goto("sync") /\ UNCHANGED faults
       \/ Fault /\ Goto("undo") /\ UNCHANGED disk

\* Fault: the update is acknowledged before the renames are durable.
SyncDirectory_Skipped == op.stage = "sync" /\ Acknowledge /\ UNCHANGED <<dir, survivors, faults>>

\* ... and the directory is synced.
SyncDirectory ==
    /\ op.stage = "sync"
    /\ \/ RenameAndSync(dir) /\ Acknowledge /\ UNCHANGED faults
       \/ Fault /\ Goto("undo") /\ UNCHANGED disk

\* publish failed: a transaction puts the prior artifact back, whatever becomes of
\* that (a disk that has failed may fail again), and is refused.
Undo ==
    LET d == [dir EXCEPT !.artifact = op.prior]
    IN  /\ op.stage = "undo"
        /\ Refuse /\ UNCHANGED faults
        /\ IF book.publish /\ op.for # "activate" THEN RenameAndSync(d) \/ WriteFails(d)
           ELSE UNCHANGED disk

StoreStep == WriteArtifact \/ Rotate \/ Install \/ SyncDirectory \/ Undo

-----------------------------------------------------------------------------
(* Activation and crashes. *)

\* load_or_import: the current generation, else the backup.
Loaded(d) ==
    LET first == IF d.current # None /\ Decodable(d.current) THEN d.current ELSE d.backup
    IN  IF first # None
        THEN IF Decodable(first) THEN first ELSE Invalid
        ELSE IF d.current = None THEN None ELSE Invalid

\* import_snapshot_artifacts: of the four only the published book has a file here.
Imported(artifact) ==
    IF artifact = None THEN NewBook
    ELSE [NewBook EXCEPT !.books["published"] = artifact, !.rev = Cardinality(artifact)]

Deactivate ==
    /\ phase' = "inactive"
    /\ UNCHANGED <<book, op, shared, acked, tried>>

\* activate up to its first file operation that writes: load or import, then
\* reconcile_publication.  An activation that writes nothing syncs nothing.
Activate ==
    LET g == Loaded(dir)
    IN  /\ phase = "down"
        /\ \/ Fault /\ Deactivate
           \/ UNCHANGED faults /\ g = Invalid /\ Deactivate
           \/ /\ UNCHANGED faults /\ g = None
              /\ phase' = "starting"
              /\ Begin("activate", Imported(dir.artifact), "rotate")
              /\ UNCHANGED <<shared, acked>>
           \/ /\ UNCHANGED faults /\ g \notin {None, Invalid} /\ g.publish
              /\ phase' = "starting"
              /\ book' = SyncPublished(g) /\ tried' = tried \cup {book'}
              /\ op' = [stage |-> "artifact", for |-> "activate", old |-> g, prior |-> dir.artifact]
              /\ UNCHANGED <<shared, acked>>
           \/ /\ UNCHANGED faults /\ g \notin {None, Invalid} /\ ~g.publish
              /\ phase' = "active"
              /\ book' = g /\ shared' = g /\ acked' = g
              /\ UNCHANGED <<op, tried>>
        /\ UNCHANGED <<dir, survivors, stored, refresh, crashes>>

\* The process ends at any point and is started again.  The directory is as it was
\* and no more durable than before, or the machine stopped too: then what was not
\* synced may be there or not.
Crash ==
    /\ phase # "down" /\ crashes < MaxCrashes
    /\ crashes' = crashes + 1
    /\ \/ UNCHANGED disk
       \/ \E d \in survivors : dir' = d /\ survivors' = {d}
    /\ phase' = "down"
    /\ book' = NewBook /\ op' = Idle /\ shared' = None
    /\ queue' = EmptyQueue /\ notify' = FALSE /\ worker' = Waiting
    /\ due' = FALSE
    /\ UNCHANGED <<acked, stored, tried, faults>>

-----------------------------------------------------------------------------
(* Requests of an operator.  The daemon has one thread: a handler runs while   *)
(* the worker awaits, and to its end.                                         *)

AtAwait ==
    /\ op = Idle
    /\ worker.at \in {"waiting", "stopped"} \/ (worker.at = "fetching" /\ worker.set # {})

\* transact up to the first write.  A request whose prior artifact cannot be read is
\* refused and changes nothing.
Transact(for, next) ==
    LET b == SyncPublished(next)
    IN  /\ b.rev <= MaxRevision
        /\ Begin(for, b, IF b.publish THEN "artifact" ELSE "rotate")
        /\ UNCHANGED <<dir, survivors, phase, shared, queue, notify, due, acked, stored, faults,
                       crashes>>

Operator(for, next) == phase = "active" /\ AtAwait /\ Transact(for, next) /\ UNCHANGED worker

ApplyEntry(kind, n) ==
    \/ CanAdd(book, kind, n) /\ Operator("edit", Added(book, kind, n))
    \/ CanDelete(book, kind, n) /\ Operator("edit", Deleted(book, kind, n))

\* Only a changed set asks for a refresh.
ReplaceSubscriptions(urls) ==
    Operator(IF urls = book.subs THEN "edit" ELSE "subscribe", Subscribed(book, urls))

ApplyConfig(publish) == Operator("edit", Configured(book, publish))

-----------------------------------------------------------------------------
(* The refresh service. *)

Steps(at) == worker' = [at |-> at]
Free == phase = "active" /\ op = Idle
NotWorker == <<dir, survivors, phase, book, op, shared, acked, stored, tried, faults, crashes>>

\* refresh_requested
Wake ==
    /\ Free /\ worker.at = "waiting" /\ notify
    /\ notify' = FALSE /\ Steps("woken")
    /\ UNCHANGED <<queue, due>> /\ UNCHANGED NotWorker

\* The cadence elapsed: enqueue_current_for_refresh.
IntervalElapsed ==
    /\ Free /\ worker.at = "waiting"
    /\ queue' = Push(queue, book.subs) /\ Steps("woken")
    /\ UNCHANGED <<notify, due>> /\ UNCHANGED NotWorker

\* run_queued_fetches takes the active set; one that is no longer configured
\* fails without a fetch.
Take ==
    /\ Free /\ worker.at \in {"woken", "draining"}
    /\ \/ /\ queue.active = None \/ queue.inFlight
          /\ Steps("waiting") /\ UNCHANGED <<queue, due>>
       \/ /\ queue.active # None /\ ~queue.inFlight /\ queue.active # book.subs
          /\ queue' = Finish(queue) /\ Steps("draining") /\ UNCHANGED due
       \/ /\ queue.active # None /\ ~queue.inFlight /\ queue.active = book.subs
          /\ queue' = [queue EXCEPT !.inFlight = TRUE]
          /\ worker' = [at |-> "fetching", set |-> queue.active]
          /\ due' = FALSE
    /\ UNCHANGED notify /\ UNCHANGED NotWorker

\* A fetch of the set fails, is not usable or takes more than 300 seconds.
FetchFails ==
    /\ Free /\ worker.at = "fetching" /\ worker.set # {}
    /\ queue' = Finish(queue) /\ Steps("draining")
    /\ UNCHANGED <<notify, due>> /\ UNCHANGED NotWorker

\* Fault: the set is not compared again after the awaits.
Accepts_Unchecked(set, sources) == TRUE

\* The set was replaced while the worker awaited, or the sources do not cover it.
Accepts(set, sources) == book.subs = set /\ Covers(sources, book)

\* Every URL answered, with new contents or with those it already had.
FetchDone(sources) ==
    /\ Free /\ worker.at = "fetching" /\ DOMAIN sources = worker.set
    /\ \/ /\ Accepts(worker.set, sources)
          /\ Transact("fetch", Refreshed(book, sources)) /\ Steps("committing")
       \/ /\ ~Accepts(worker.set, sources)
          /\ queue' = Finish(queue) /\ Steps("draining")
          /\ UNCHANGED <<notify, due>> /\ UNCHANGED NotWorker

\* The service is cancelled at an await; a claimed slot is released
\* (release_refresh_after_cancel).
Cancel ==
    /\ Free /\ worker.at \in {"waiting", "woken", "fetching"}
    /\ worker.at = "fetching" => worker.set # {}
    /\ IF worker.at = "waiting" THEN UNCHANGED <<queue, notify>>
       ELSE queue' = Finish(queue) /\ notify' = (notify \/ queue.pending # None)
    /\ Steps("stopped")
    /\ UNCHANGED due /\ UNCHANGED NotWorker

Fetch ==
    /\ worker.at = "fetching"
    /\ FetchFails \/ \E sources \in [worker.set -> Contents] : FetchDone(sources)

-----------------------------------------------------------------------------
Next ==
    \/ Activate \/ Crash \/ StoreStep
    \/ \E kind \in Edited, n \in Names : ApplyEntry(kind, n)
    \/ \E urls \in SubscriptionSets : ReplaceSubscriptions(urls)
    \/ \E publish \in BOOLEAN : ApplyConfig(publish)
    \/ Wake \/ IntervalElapsed \/ Take \/ Fetch \/ Cancel

\* A handler and the worker run on, the runtime polls a task that is ready although
\* requests keep coming, and a fetch ends within its timeout; nobody is obliged to
\* send a request, and the cadence may be a month.
Spec ==
    /\ Init /\ [][Next]_vars
    /\ WF_vars(Activate \/ StoreStep \/ Take) /\ SF_vars(Wake \/ Fetch)

-----------------------------------------------------------------------------
(* Properties. *)

IsBook(b) ==
    b \in Generations /\ b.rev <= MaxRevision /\ DOMAIN b.sources \subseteq b.subs

\* The fields of the books, the files and the queue.  Entries of a subscription
\* are held only while its URL is configured, also when the operator replaces the
\* set while it is being fetched: neither the committed book nor the snapshot that
\* lookups read keeps or gains a source of another set (refresh_subscription_set,
\* replace_subscriptions).
SourcesConfigured ==
    /\ \A b \in ({book, shared, acked, stored, dir.current, dir.backup} \cup tried) \ {None} :
          IsBook(b)
    /\ dir \in survivors
    /\ {queue.active, queue.pending} \subseteq SubscriptionSets \cup {None}
    /\ queue.pending # None => queue.inFlight \/ worker.at \in {"waiting", "woken", "stopped"}

Files(d) == {d.current, d.backup} \ {None}

\* No acknowledged update is lost: whatever file operation fails and wherever the
\* process or the machine stops, the next activation loads the last generation that
\* was acknowledged as stored or one that was put up on top of it (publish,
\* load_or_import), also when an earlier activation went on from renames that were
\* never synced.  The files have to decode, which not every committed generation
\* does (OnlyCorruptionDeactivates).
AcknowledgedSurvives ==
    (\A d \in survivors : \A g \in Files(d) : Decodable(g)) =>
        \A d \in survivors : Loaded(d) \in {stored} \cup tried

\* Between requests lookups and getters read what was acknowledged last, never a
\* refused update.  While publication is on, the published book is the router book,
\* and the artifact too unless an update was refused since (transact,
\* reconcile_publication).
ViewsFollowCommits ==
    phase = "active" /\ op = Idle =>
        /\ book = acked /\ shared = book
        /\ book.publish => book.books["published"] = book.books["router"]
        /\ book.publish /\ tried = {} => dir.artifact = book.books["router"]

\* A changed set of subscriptions is fetched without waiting for the cadence,
\* although a fetch is under way and further changes coalesce behind it
\* (request_refresh, push, finish_active, run_queued_fetches).
RefreshServed == due ~> ~due \/ worker.at = "stopped"

\* "Corrupt current and backup fail into an inactive sticky-error state"
\* (specs/protocols/15-canonical-addressbook.md): files nobody corrupted, on a
\* disk that does not fail, activate.
OnlyCorruptionDeactivates == faults = 0 => phase # "inactive"

\* "failure leaves the prior current untouched" (the same, of the publication).
FailedPublishKeepsCurrent ==
    [][op.stage = "undo" /\ op'.stage = "idle" /\ acked # None => dir'.current = acked]_vars

=============================================================================
