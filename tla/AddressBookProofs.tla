------------------------- MODULE AddressBookProofs -------------------------
(***************************************************************************)
(* Proofs about AddressBook for any names, subscription sets, contents and *)
(* bounds: an acknowledged generation survives crashes and failing file    *)
(* operations, between requests lookups read what was acknowledged, and no *)
(* book holds sources of URLs that are not configured in it.               *)
(***************************************************************************)
EXTENDS AddressBook, FiniteSetTheorems, TLAPS

\* The time the solvers have for a leaf; one that is interrupted is tried again.
USE SMTT(30), Z3T(30), ZenonT(30), SMTT(40)

Slots == Generations \cup {None}
Artifacts == (SUBSET Names) \cup {None}
Dirs == [current : Slots, backup : Slots, artifact : Artifacts]
Stages == {"artifact", "rotate", "install", "sync", "undo"}
Purposes == {"activate", "edit", "subscribe", "fetch"}
Operations == [stage : Stages, for : Purposes, old : Generations, prior : Artifacts]

Types ==
    /\ book \in Generations
    /\ dir \in Dirs /\ survivors \subseteq Dirs
    /\ op \in {Idle} \cup Operations
    /\ tried \subseteq Generations
    /\ phase \in {"down", "starting", "active", "inactive"}

\* The generation a reader of the directory meets first.
Newest(d) == IF d.current # None THEN d.current ELSE d.backup

\* An activation that finds nothing to repair acknowledges what is there.
Fits(g) == Newest(dir) # None /\ (Decodable(Newest(dir)) => Newest(dir) = g)

\* What the files hold at each step of a transaction.
Staged ==
    /\ dir \in survivors
    /\ phase = "down" => op = Idle
    /\ phase = "active" \/ op.stage = "artifact" => Newest(dir) # None
    /\ op # Idle => book \in tried
    /\ op.stage = "sync" => dir.current = book
    /\ op.stage = "artifact" /\ op.for = "activate" /\ book = op.old => Fits(book)

\* Whatever a loss of power leaves, the newest generation is the one stored last or
\* was put up since, if it decodes at all.
NewestKnown ==
    \A d \in survivors :
        /\ Newest(d) = None => stored = None
        /\ Newest(d) # None /\ Decodable(Newest(d)) => Newest(d) \in {stored} \cup tried

StoreInv == Types /\ Staged /\ NewestKnown

\* The published book follows the router book.
Projected(b) == b.publish => b.books["published"] = b.books["router"]

\* What a transaction falls back to, and what it has written.
ViewInv ==
    /\ ViewsFollowCommits
    /\ op # Idle =>
          /\ Projected(book)
          /\ op.stage \in {"rotate", "install", "sync"} /\ book.publish =>
                dir.artifact = book.books["router"]
          /\ op.for = "activate" => phase = "starting"
          /\ op.for # "activate" =>
                phase = "active" /\ op.old = acked /\ shared = acked /\ Projected(acked)

-----------------------------------------------------------------------------
(* The books. *)

\* A function on some configured URLs is a map of sources.
LEMMA SourcesType ==
  ASSUME NEW urls \in SUBSET UNION SubscriptionSets, NEW sources \in [urls -> Contents]
  PROVE  sources \in Sources
  <1>1. [urls -> Contents] \in {[us -> Contents] : us \in SUBSET UNION SubscriptionSets}
    OBVIOUS
  <1> QED BY <1>1 DEF Sources

\* Every change of the books gives a book.
LEMMA BumpType ==
  ASSUME NEW b \in Generations
  PROVE  Bump(b) \in Generations
  BY DEF Bump, Generations

\* sync_published_from_router leaves the two books equal if they have to be.
LEMMA SyncType ==
  ASSUME NEW b \in Generations
  PROVE  SyncPublished(b) \in Generations /\ Projected(SyncPublished(b))
         /\ (SyncPublished(b).publish <=> b.publish)
  <1> DEFINE copied == [b.books EXCEPT !["published"] = b.books["router"]]
             c == [b EXCEPT !.books = copied]
  <1>a. copied \in [BookKinds -> SUBSET Names] /\ copied["published"] = copied["router"]
    BY DEF Generations, BookKinds
  <1> HIDE DEF copied
  <1>1. c \in Generations /\ c.publish = b.publish
        /\ c.books["published"] = c.books["router"]
    BY <1>a DEF Generations
  <1> HIDE DEF c
  <1>2. Bump(c) \in Generations /\ Bump(c).publish = c.publish /\ Bump(c).books = c.books
    <2>1. Bump(c) \in Generations BY <1>1, BumpType
    <2>2. Bump(c).publish = c.publish /\ Bump(c).books = c.books
      BY <1>1 DEF Bump, Generations
    <2> QED BY <2>1, <2>2
  <1>3. SyncPublished(b) = IF b.publish /\ b.books["published"] # b.books["router"]
                           THEN Bump(c) ELSE b
    BY DEF SyncPublished, c, copied
  <1> QED BY <1>1, <1>2, <1>3 DEF Projected

\* apply_entry.
LEMMA EntryType ==
  ASSUME NEW b \in Generations, NEW kind \in BookKinds, NEW n \in Names
  PROVE  Added(b, kind, n) \in Generations /\ Deleted(b, kind, n) \in Generations
  <1> DEFINE more == [b.books EXCEPT ![kind] = @ \cup {n}]
             fewer == [b.books EXCEPT ![kind] = @ \ {n}]
  <1>1. more \in [BookKinds -> SUBSET Names] /\ fewer \in [BookKinds -> SUBSET Names]
    BY DEF Generations
  <1> HIDE DEF more, fewer
  <1>2. [b EXCEPT !.books = more] \in Generations /\ [b EXCEPT !.books = fewer] \in Generations
    BY <1>1 DEF Generations
  <1>3. /\ Added(b, kind, n) = Bump([b EXCEPT !.books = more])
        /\ Deleted(b, kind, n) = Bump([b EXCEPT !.books = fewer])
    BY DEF Added, Deleted, more, fewer
  <1> QED BY <1>2, <1>3, BumpType

\* replace_subscriptions.
LEMMA SubscribedType ==
  ASSUME NEW b \in Generations, NEW urls \in SubscriptionSets
  PROVE  Subscribed(b, urls) \in Generations
  <1> DEFINE kept == [u \in DOMAIN b.sources \cap urls |-> b.sources[u]]
  <1>1. PICK dom \in SUBSET UNION SubscriptionSets : b.sources \in [dom -> Contents]
    BY DEF Generations, Sources
  <1>2. kept \in [dom \cap urls -> Contents]
    BY <1>1
  <1>3. dom \cap urls \in SUBSET UNION SubscriptionSets
    OBVIOUS
  <1>4. kept \in Sources
    BY <1>2, <1>3, SourcesType
  <1> HIDE DEF kept
  <1> DEFINE c == [b EXCEPT !.subs = urls]
  <1>5. c \in Generations
    BY DEF Generations
  <1> HIDE DEF c
  <1>6. [c EXCEPT !.sources = kept] \in Generations
    BY <1>4, <1>5 DEF Generations
  <1> QED BY <1>6, BumpType DEF Subscribed, kept, c

\* apply_config.
LEMMA ConfiguredType ==
  ASSUME NEW b \in Generations, NEW publish \in BOOLEAN
  PROVE  Configured(b, publish) \in Generations
  <1>1. [b EXCEPT !.publish = publish] \in Generations
    BY DEF Generations
  <1> QED BY <1>1, BumpType DEF Configured

\* replace_subscription_sources.
LEMMA RefreshedType ==
  ASSUME NEW b \in Generations, NEW sources \in [b.subs -> Contents]
  PROVE  Refreshed(b, sources) \in Generations
  <1>1. b.subs \in SUBSET UNION SubscriptionSets
    BY DEF Generations
  <1>2. sources \in Sources
    BY <1>1, SourcesType
  <1>3. [b EXCEPT !.sources = sources] \in Generations
    BY <1>2 DEF Generations
  <1> QED BY <1>3, BumpType DEF Refreshed

\* AddressBook::new.
LEMMA NewBookType == NewBook \in Generations /\ ~NewBook.publish
  <1> DEFINE urls == {}
             none == [u \in {} |-> None]
  <1>1. urls \in SUBSET UNION SubscriptionSets /\ none \in [urls -> Contents]
    OBVIOUS
  <1> HIDE DEF urls, none
  <1>2. none \in Sources
    BY <1>1, SourcesType
  <1>3. [k \in BookKinds |-> {}] \in [BookKinds -> SUBSET Names]
    OBVIOUS
  <1> QED BY <1>2, <1>3, BookAssumption DEF NewBook, Generations, none

\* import_snapshot_artifacts.
LEMMA ImportedType ==
  ASSUME NEW a \in Artifacts
  PROVE  Imported(a) \in Generations /\ ~Imported(a).publish
  <1>1. CASE a = None
    BY <1>1, NewBookType DEF Imported
  <1>2. CASE a # None
    <2>1. a \subseteq Names
      BY <1>2 DEF Artifacts
    <2>2. Cardinality(a) \in Nat
      BY <2>1, BookAssumption, FS_Subset, FS_CardinalityType
    <2> DEFINE books == [NewBook.books EXCEPT !["published"] = a]
               b == [NewBook EXCEPT !.books = books]
    <2>3. books \in [BookKinds -> SUBSET Names]
      BY <2>1, NewBookType DEF Generations, BookKinds
    <2> HIDE DEF books
    <2>4. b \in Generations /\ ~b.publish
      BY <2>3, NewBookType DEF Generations
    <2> HIDE DEF b
    <2>5. [b EXCEPT !.rev = Cardinality(a)] \in Generations
          /\ ~[b EXCEPT !.rev = Cardinality(a)].publish
      BY <2>2, <2>4 DEF Generations
    <2> QED BY <1>2, <2>5 DEF Imported, b, books
  <1> QED BY <1>1, <1>2

-----------------------------------------------------------------------------
(* The files. *)

\* Writing the artifact leaves the generations alone.
LEMMA ArtifactApart ==
  ASSUME NEW d \in Dirs, NEW a \in Artifacts
  PROVE  LET e == [d EXCEPT !.artifact = a]
         IN  /\ e \in Dirs /\ e.artifact = a /\ e.current = d.current
             /\ Newest(e) = Newest(d)
  BY DEF Dirs, Newest

\* load_or_import takes the newest generation if that decodes.
LEMMA LoadedIsNewest ==
  ASSUME NEW d \in Dirs, Loaded(d) \notin {None, Invalid}
  PROVE  /\ Loaded(d) \in Generations
         /\ Newest(d) # None
         /\ Decodable(Newest(d)) => Newest(d) = Loaded(d)
  <1> DEFINE first == IF d.current # None /\ Decodable(d.current) THEN d.current ELSE d.backup
  <1>1. Loaded(d) = IF first # None THEN IF Decodable(first) THEN first ELSE Invalid
                    ELSE IF d.current = None THEN None ELSE Invalid
    BY DEF Loaded
  <1>2. first # None /\ Loaded(d) = first
    BY <1>1
  <1>3. first \in Slots
    BY DEF Dirs
  <1>4. first \in Generations
    BY <1>2, <1>3 DEF Slots
  <1> QED BY <1>2, <1>4 DEF Newest

-----------------------------------------------------------------------------
(* The invariant. *)

Inv == StoreInv /\ ViewInv

\* A crash leaves the directory or one of the survivors, and nothing in memory.
LEMMA CrashKeeps == Inv /\ Crash => Inv'
  <1> SUFFICES ASSUME Inv, Crash PROVE Inv'
    OBVIOUS
  <1>1. Types'
    BY NewBookType DEF Inv, StoreInv, Types, Crash, disk
  <1>2. Staged'
    BY DEF Inv, StoreInv, Staged, Crash, Idle, disk
  <1>3. NewestKnown'
    BY DEF Inv, StoreInv, NewestKnown, Newest, Decodable, Covers, Crash, disk
  <1>4. ViewInv'
    BY DEF ViewInv, ViewsFollowCommits, Crash
  <1> QED BY <1>1, <1>2, <1>3, <1>4 DEF Inv, StoreInv

\* The worker between its commits.
LEMMA FrameKeeps == Inv /\ UNCHANGED NotWorker => Inv'
  BY DEF Inv, StoreInv, Types, Staged, Fits, NewestKnown, Newest, Decodable, Covers, ViewInv,
     ViewsFollowCommits, Projected, NotWorker

\* A request puts a book up, on top of what was acknowledged.
LEMMA TransactKeeps ==
  ASSUME Inv, phase = "active", op = Idle,
         NEW for \in Purposes \ {"activate"}, NEW next \in Generations, Transact(for, next)
  PROVE  Inv'
  <1> DEFINE b == SyncPublished(next)
  <1>1. b \in Generations /\ Projected(b)
    BY SyncType
  <1> HIDE DEF b
  <1>2. /\ book' = b /\ tried' = tried \cup {b}
        /\ op' = [stage |-> IF b.publish THEN "artifact" ELSE "rotate",
                  for |-> for, old |-> book, prior |-> dir.artifact]
        /\ UNCHANGED <<dir, survivors, phase, shared, acked, stored>>
    BY DEF Transact, Begin, b
  <1>3. op' \in Operations /\ op'.for = for /\ op'.old = book
        /\ op'.stage = (IF b.publish THEN "artifact" ELSE "rotate")
    BY <1>2 DEF Operations, Stages, Dirs, Inv, StoreInv, Types
  <1>4. Types'
    BY <1>1, <1>2, <1>3 DEF Inv, StoreInv, Types
  <1>5. Staged'
    BY <1>2, <1>3 DEF Inv, StoreInv, Staged, Newest
  <1>6. NewestKnown'
    BY <1>2 DEF Inv, StoreInv, NewestKnown, Newest, Decodable, Covers
  <1>7. ViewInv'
    <2>1. book = acked /\ shared = acked /\ Projected(acked)
      BY DEF Inv, ViewInv, ViewsFollowCommits, Projected
    <2>2. op' # Idle /\ ViewsFollowCommits'
      BY <1>3 DEF Idle, Operations, ViewsFollowCommits
    <2> QED BY <1>1, <1>2, <1>3, <2>1, <2>2 DEF ViewInv, Projected
  <1> QED BY <1>4, <1>5, <1>6, <1>7 DEF Inv, StoreInv

\* activate up to its first write.
LEMMA ActivateKeeps == Inv /\ Activate => Inv'
  <1> SUFFICES ASSUME Inv, Activate PROVE Inv'
    OBVIOUS
  <1> DEFINE g == Loaded(dir)
  <1>0. /\ phase = "down" /\ dir \in survivors /\ op = Idle /\ dir \in Dirs /\ dir.artifact \in Artifacts
        /\ UNCHANGED <<dir, survivors, stored>>
    BY DEF Inv, StoreInv, Types, Staged, Activate, Dirs
  <1>1. CASE Deactivate
    <2>1. phase' = "inactive" /\ UNCHANGED <<book, op, shared, acked, stored, tried, dir, survivors>>
      BY <1>0, <1>1 DEF Deactivate
    <2> QED BY <1>0, <2>1 DEF Inv, StoreInv, Types, Staged, Fits, NewestKnown, Newest, Decodable, Covers,
              ViewInv, ViewsFollowCommits, Projected
  <1>2. CASE /\ g = None /\ phase' = "starting"
             /\ Begin("activate", Imported(dir.artifact), "rotate")
             /\ UNCHANGED <<shared, acked>>
    <2> DEFINE b == Imported(dir.artifact)
    <2>1. b \in Generations /\ ~b.publish
      BY <1>0, ImportedType
    <2> HIDE DEF b
    <2>2. /\ book' = b /\ tried' = tried \cup {b}
          /\ op' = [stage |-> "rotate", for |-> "activate", old |-> book, prior |-> dir.artifact]
      BY <1>2 DEF Begin, b
    <2>3. op' \in Operations /\ op'.for = "activate" /\ op'.stage = "rotate"
      BY <1>0, <2>2 DEF Operations, Stages, Purposes, Inv, StoreInv, Types
    <2>4. Types'
      BY <1>0, <1>2, <2>1, <2>2, <2>3 DEF Inv, StoreInv, Types
    <2>5. Staged'
      BY <1>0, <1>2, <2>2, <2>3 DEF Inv, StoreInv, Staged
    <2>6. NewestKnown'
      BY <1>0, <1>2, <2>2 DEF Inv, StoreInv, NewestKnown, Newest, Decodable, Covers
    <2>7. ViewInv'
      BY <1>2, <2>1, <2>2, <2>3 DEF ViewInv, ViewsFollowCommits, Projected
    <2> QED BY <2>4, <2>5, <2>6, <2>7 DEF Inv, StoreInv
  <1>3. CASE /\ g \notin {None, Invalid} /\ g.publish /\ phase' = "starting"
             /\ book' = SyncPublished(g) /\ tried' = tried \cup {book'}
             /\ op' = [stage |-> "artifact", for |-> "activate", old |-> g, prior |-> dir.artifact]
             /\ UNCHANGED <<shared, acked>>
    <2>1. /\ g \in Generations /\ Newest(dir) # None
          /\ Decodable(Newest(dir)) => Newest(dir) = g
      BY <1>0, <1>3, LoadedIsNewest
    <2> HIDE DEF g
    <2>2. book' \in Generations /\ Projected(book')
      BY <1>3, <2>1, SyncType
    <2>3. op' \in Operations /\ op'.for = "activate" /\ op'.stage = "artifact" /\ op'.old = g
      BY <1>0, <1>3, <2>1 DEF Operations, Stages, Purposes
    <2>4. Types'
      BY <1>0, <1>3, <2>2, <2>3 DEF Inv, StoreInv, Types
    <2>5. Staged'
      BY <1>0, <1>3, <2>1, <2>3 DEF Inv, StoreInv, Staged, Fits, Newest, Decodable, Covers
    <2>6. NewestKnown'
      BY <1>0, <1>3 DEF Inv, StoreInv, NewestKnown, Newest, Decodable, Covers
    <2>7. ViewInv'
      BY <1>3, <2>2, <2>3 DEF ViewInv, ViewsFollowCommits, Projected
    <2> QED BY <2>4, <2>5, <2>6, <2>7 DEF Inv, StoreInv
  <1>4. CASE /\ g \notin {None, Invalid} /\ ~g.publish /\ phase' = "active"
             /\ book' = g /\ shared' = g /\ acked' = g
             /\ UNCHANGED <<op, tried>>
    <2>1. /\ g \in Generations /\ Newest(dir) # None
          /\ Decodable(Newest(dir)) => Newest(dir) = g
      BY <1>0, <1>4, LoadedIsNewest
    <2> HIDE DEF g
    <2>2. Types'
      BY <1>0, <1>4, <2>1 DEF Inv, StoreInv, Types
    <2>3. Staged'
      BY <1>0, <1>4, <2>1 DEF Staged, Idle, Newest
    <2>4. NewestKnown'
      BY <1>0, <1>4 DEF Inv, StoreInv, NewestKnown, Newest, Decodable, Covers
    <2>5. ViewInv'
      BY <1>0, <1>4 DEF ViewInv, ViewsFollowCommits, Projected
    <2> QED BY <2>2, <2>3, <2>4, <2>5 DEF Inv, StoreInv
  <1> QED BY <1>1, <1>2, <1>3, <1>4 DEF Activate

-----------------------------------------------------------------------------
(* The steps of a transaction. *)

\* Between two steps op is a record, and Idle is none of the stages.
LEMMA StageOp ==
  ASSUME Types, op.stage \in Stages
  PROVE  op \in Operations /\ op # Idle
  BY DEF Types, Stages, Idle

\* A transaction that is acknowledged leaves its book as the newest generation.
LEMMA AcknowledgeKeeps ==
  ASSUME Inv, op \in Operations, op # Idle, Acknowledge,
         NEW d \in Dirs, dir' = d, survivors' = {d},
         Newest(d) # None, Decodable(Newest(d)) => Newest(d) = book,
         book.publish => d.artifact = book.books["router"]
  PROVE  Inv'
  <1>1. /\ phase' = "active" /\ op' = Idle /\ shared' = book /\ acked' = book
        /\ stored' = book /\ tried' = {} /\ book' = book
    BY DEF Acknowledge
  <1>2. Types'
    BY <1>1 DEF Inv, StoreInv, Types
  <1>3. Staged'
    BY <1>1 DEF Staged, Idle, Newest
  <1>4. NewestKnown'
    BY <1>1 DEF NewestKnown, Newest, Decodable, Covers
  <1>5. Projected(book)
    BY DEF Inv, ViewInv
  <1>6. ViewInv'
    BY <1>1, <1>5 DEF ViewInv, ViewsFollowCommits, Projected
  <1> QED BY <1>2, <1>3, <1>4, <1>6 DEF Inv, StoreInv

\* A transaction that is refused leaves what was acknowledged in memory, and the
\* generations as they are.
LEMMA RefuseKeeps ==
  ASSUME Inv, op \in Operations, op # Idle, Refuse,
         NEW d \in Dirs, dir' = d, Newest(d) = Newest(dir),
         survivors' = survivors \/ survivors' = survivors \cup {d} \/ survivors' = {d},
         d \in survivors'
  PROVE  Inv'
  <1>1. /\ op' = Idle /\ UNCHANGED <<shared, acked, stored, tried>>
        /\ phase' = IF op.for = "activate" THEN "inactive" ELSE phase
        /\ book' = IF op.for = "activate" THEN NewBook ELSE op.old
    BY DEF Refuse
  <1>2. Types'
    BY <1>1, NewBookType DEF Inv, StoreInv, Types, Operations
  <1>3. phase # "down" /\ dir \in survivors /\ tried # {}
    BY DEF Inv, StoreInv, Staged
  <1>4. Staged'
    BY <1>1, <1>3 DEF Inv, StoreInv, Staged, Idle, Newest
  <1>5. NewestKnown'
    BY <1>1, <1>3 DEF Inv, StoreInv, NewestKnown, Newest, Decodable, Covers
  <1>6. ViewInv'
    <2>1. CASE op.for = "activate"
      BY <1>1, <2>1 DEF ViewInv, ViewsFollowCommits
    <2>2. CASE op.for # "activate"
      BY <1>1, <1>3, <2>2 DEF Inv, ViewInv, ViewsFollowCommits, Projected
    <2> QED BY <2>1, <2>2
  <1> QED BY <1>2, <1>4, <1>5, <1>6 DEF Inv, StoreInv

\* A step to the next stage.
LEMMA GotoKeeps ==
  ASSUME Inv, op \in Operations, op # Idle, NEW stage \in Stages \ {"artifact"}, Goto(stage),
         NEW d \in Dirs, dir' = d,
         survivors' = survivors \/ survivors' = survivors \cup {d} \/ survivors' = {d},
         d \in survivors',
         Newest(d) \in {Newest(dir), book}, Newest(d) = None => Newest(dir) = None,
         stage = "sync" => d.current = book,
         stage # "undo" /\ book.publish => d.artifact = book.books["router"]
  PROVE  Inv'
  <1>1. UNCHANGED <<phase, book, shared, acked, stored, tried>>
    BY DEF Goto
  <1>2. op' \in Operations /\ op'.stage = stage /\ op'.for = op.for /\ op'.old = op.old
    BY DEF Goto, Operations
  <1>3. op' # Idle
    BY <1>2 DEF Idle, Stages
  <1>4. Types'
    BY <1>1, <1>2 DEF Inv, StoreInv, Types
  <1>5. phase # "down" /\ dir \in survivors /\ book \in tried
    BY DEF Inv, StoreInv, Staged
  <1>6. Staged'
    BY <1>1, <1>2, <1>3, <1>5 DEF Inv, StoreInv, Staged, Newest
  <1>7. NewestKnown'
    BY <1>1, <1>5 DEF Inv, StoreInv, NewestKnown, Newest, Decodable, Covers
  <1>8. ViewInv'
    BY <1>1, <1>2, <1>3 DEF Inv, ViewInv, ViewsFollowCommits, Projected, Stages
  <1> QED BY <1>4, <1>6, <1>7, <1>8 DEF Inv, StoreInv

\* The artifact of the book is one.
LEMMA RouterArtifact ==
  ASSUME NEW b \in Generations
  PROVE  b.books["router"] \in Artifacts
  BY DEF Generations, BookKinds, Artifacts

\* Writing the artifact leaves the generations alone, whether it succeeds or not.
LEMMA WriteArtifactKeeps == Inv /\ WriteArtifact => Inv'
  <1> SUFFICES ASSUME Inv, WriteArtifact PROVE Inv'
    OBVIOUS
  <1> DEFINE d == [dir EXCEPT !.artifact = book.books["router"]]
  <1>1. op.stage = "artifact" /\ book \in Generations /\ dir \in Dirs /\ dir \in survivors
    BY DEF WriteArtifact, Inv, StoreInv, Types, Staged
  <1>2. op \in Operations /\ op # Idle
    BY <1>1, StageOp DEF Inv, StoreInv, Stages
  <1>3. d \in Dirs /\ d.artifact = book.books["router"] /\ Newest(d) = Newest(dir)
    BY <1>1, RouterArtifact, ArtifactApart
  <1>4. \/ /\ RenameAndSync(d)
           /\ IF op.for = "activate" /\ book = op.old THEN Acknowledge ELSE Goto("rotate")
        \/ WriteFails(d) /\ Refuse
    BY DEF WriteArtifact
  <1>5. RenameAndSync(d) => dir' = d /\ survivors' = {d}
    BY DEF RenameAndSync
  <1>6. WriteFails(d) => \/ dir' = dir /\ survivors' = survivors
                         \/ dir' = d /\ survivors' = survivors \cup {d}
    BY DEF WriteFails, Rename, disk
  <1> HIDE DEF d
  <1>7. CASE RenameAndSync(d) /\ op.for = "activate" /\ book = op.old /\ Acknowledge
    <2>1. Newest(d) # None /\ (Decodable(Newest(d)) => Newest(d) = book)
      BY <1>1, <1>3, <1>7 DEF Inv, StoreInv, Staged, Fits
    <2> QED BY <1>2, <1>3, <1>5, <1>7, <2>1, AcknowledgeKeeps
  <1>8. CASE RenameAndSync(d) /\ Goto("rotate")
    <2>1. "rotate" \in Stages \ {"artifact"}
      BY DEF Stages
    <2> QED BY <1>2, <1>3, <1>5, <1>8, <2>1, GotoKeeps
  <1>9. CASE WriteFails(d) /\ Refuse
    BY <1>1, <1>2, <1>3, <1>6, <1>9, RefuseKeeps
  <1> QED BY <1>4, <1>7, <1>8, <1>9

\* While there is no current generation, the backup is the newest.
LEMMA RotateKeeps == Inv /\ Rotate => Inv'
  <1> SUFFICES ASSUME Inv, Rotate PROVE Inv'
    OBVIOUS
  <1> DEFINE kept == [dir EXCEPT !.backup = dir.current]
             d == [kept EXCEPT !.current = None]
  <1>1. op.stage = "rotate" /\ book \in Generations /\ dir \in Dirs /\ dir \in survivors
    BY DEF Rotate, Inv, StoreInv, Types, Staged
  <1>2. op \in Operations /\ op # Idle
    BY <1>1, StageOp DEF Inv, StoreInv, Stages
  <1>3. d \in Dirs /\ d.artifact = dir.artifact /\ d.current = None /\ d.backup = dir.current
    <2>1. kept \in Dirs /\ kept.artifact = dir.artifact /\ kept.backup = dir.current
      BY <1>1 DEF Dirs
    <2> HIDE DEF kept
    <2> QED BY <2>1 DEF Dirs, Slots
  <1>4. \/ dir.current = None /\ dir' = dir /\ survivors' = survivors /\ Goto("install")
        \/ dir.current # None /\ dir' = d /\ survivors' = survivors \cup {d} /\ Goto("install")
        \/ dir' = dir /\ survivors' = survivors /\ Goto("undo")
    BY DEF Rotate, Rename, disk
  <1> HIDE DEF d, kept
  <1>5. dir.current # None => Newest(d) = Newest(dir)
    BY <1>3 DEF Newest
  <1>6. book.publish => dir.artifact = book.books["router"]
    BY <1>1, <1>2 DEF Inv, ViewInv
  <1>7. {"install", "undo"} \subseteq Stages \ {"artifact"}
    BY DEF Stages
  <1>8. CASE dir' = dir /\ survivors' = survivors /\ Goto("install")
    BY <1>1, <1>2, <1>6, <1>7, <1>8, GotoKeeps
  <1>9. CASE dir.current # None /\ dir' = d /\ survivors' = survivors \cup {d} /\ Goto("install")
    BY <1>1, <1>2, <1>3, <1>5, <1>6, <1>7, <1>9, GotoKeeps
  <1>10. CASE dir' = dir /\ survivors' = survivors /\ Goto("undo")
    BY <1>1, <1>2, <1>7, <1>10, GotoKeeps
  <1> QED BY <1>4, <1>8, <1>9, <1>10

\* The installed generation is one of those tried.
LEMMA InstallKeeps == Inv /\ Install => Inv'
  <1> SUFFICES ASSUME Inv, Install PROVE Inv'
    OBVIOUS
  <1> DEFINE d == [dir EXCEPT !.current = book]
  <1>1. op.stage = "install" /\ book \in Generations /\ dir \in Dirs /\ dir \in survivors
    BY DEF Install, Inv, StoreInv, Types, Staged
  <1>2. op \in Operations /\ op # Idle
    BY <1>1, StageOp DEF Inv, StoreInv, Stages
  <1>3. d \in Dirs /\ d.artifact = dir.artifact /\ d.current = book
    BY <1>1 DEF Dirs, Slots
  <1>4. \/ dir' = d /\ survivors' = survivors \cup {d} /\ Goto("sync")
        \/ dir' = dir /\ survivors' = survivors /\ Goto("undo")
    BY DEF Install, Rename, disk
  <1> HIDE DEF d
  <1>5. Newest(d) = book /\ book # None
    BY <1>1, <1>3, BookAssumption DEF Newest
  <1>6. book.publish => dir.artifact = book.books["router"]
    BY <1>1, <1>2 DEF Inv, ViewInv
  <1>7. {"sync", "undo"} \subseteq Stages \ {"artifact"}
    BY DEF Stages
  <1>8. CASE dir' = d /\ survivors' = survivors \cup {d} /\ Goto("sync")
    BY <1>1, <1>2, <1>3, <1>5, <1>6, <1>7, <1>8, GotoKeeps
  <1>9. CASE dir' = dir /\ survivors' = survivors /\ Goto("undo")
    BY <1>1, <1>2, <1>7, <1>9, GotoKeeps
  <1> QED BY <1>4, <1>8, <1>9

\* Only the synced directory is left once the update is acknowledged.
LEMMA SyncDirectoryKeeps == Inv /\ SyncDirectory => Inv'
  <1> SUFFICES ASSUME Inv, SyncDirectory PROVE Inv'
    OBVIOUS
  <1>1. /\ op.stage = "sync" /\ book \in Generations /\ dir \in Dirs /\ dir \in survivors
        /\ dir.current = book
    BY DEF SyncDirectory, Inv, StoreInv, Types, Staged
  <1>2. op \in Operations /\ op # Idle
    BY <1>1, StageOp DEF Inv, StoreInv, Stages
  <1>3. Newest(dir) = book /\ book # None
    BY <1>1, BookAssumption DEF Newest
  <1>4. book.publish => dir.artifact = book.books["router"]
    BY <1>1, <1>2 DEF Inv, ViewInv
  <1>5. \/ dir' = dir /\ survivors' = {dir} /\ Acknowledge
        \/ dir' = dir /\ survivors' = survivors /\ Goto("undo")
    BY DEF SyncDirectory, RenameAndSync, disk
  <1>6. CASE dir' = dir /\ survivors' = {dir} /\ Acknowledge
    BY <1>1, <1>2, <1>3, <1>4, <1>6, AcknowledgeKeeps
  <1>7. CASE dir' = dir /\ survivors' = survivors /\ Goto("undo")
    <2>1. "undo" \in Stages \ {"artifact"}
      BY DEF Stages
    <2> QED BY <1>1, <1>2, <1>7, <2>1, GotoKeeps
  <1> QED BY <1>5, <1>6, <1>7

\* Putting the artifact back leaves the generations alone.
LEMMA UndoKeeps == Inv /\ Undo => Inv'
  <1> SUFFICES ASSUME Inv, Undo PROVE Inv'
    OBVIOUS
  <1> DEFINE d == [dir EXCEPT !.artifact = op.prior]
  <1>1. op.stage = "undo" /\ dir \in Dirs /\ dir \in survivors /\ Refuse
    BY DEF Undo, Inv, StoreInv, Types, Staged
  <1>2. op \in Operations /\ op # Idle
    BY <1>1, StageOp DEF Inv, StoreInv, Stages
  <1>3. op.prior \in Artifacts
    BY <1>2 DEF Operations
  <1>4. d \in Dirs /\ Newest(d) = Newest(dir)
    BY <1>1, <1>3, ArtifactApart
  <1>5. \/ dir' = d /\ survivors' = {d}
        \/ dir' = d /\ survivors' = survivors \cup {d}
        \/ dir' = dir /\ survivors' = survivors
    BY DEF Undo, RenameAndSync, WriteFails, Rename, disk
  <1> HIDE DEF d
  <1> QED BY <1>1, <1>2, <1>4, <1>5, RefuseKeeps

-----------------------------------------------------------------------------
(* All steps. *)

\* A request of an operator begins a transaction.
LEMMA OperatorKeeps ==
  ASSUME Inv, NEW for \in Purposes \ {"activate"}, NEW next \in Generations, Operator(for, next)
  PROVE  Inv'
  BY TransactKeeps DEF Operator, AtAwait

\* Each request hands transact a book.
LEMMA RequestKeeps ==
  ASSUME Inv,
         \/ \E kind \in Edited, n \in Names : ApplyEntry(kind, n)
         \/ \E urls \in SubscriptionSets : ReplaceSubscriptions(urls)
         \/ \E publish \in BOOLEAN : ApplyConfig(publish)
  PROVE  Inv'
  <1>1. book \in Generations /\ {"edit", "subscribe"} \subseteq Purposes \ {"activate"}
    BY DEF Inv, StoreInv, Types, Purposes
  <1>2. ASSUME NEW kind \in Edited, NEW n \in Names, ApplyEntry(kind, n) PROVE Inv'
    <2>1. kind \in BookKinds
      BY BookAssumption
    <2>2. Added(book, kind, n) \in Generations /\ Deleted(book, kind, n) \in Generations
      BY <1>1, <2>1, EntryType
    <2> QED BY <1>1, <1>2, <2>2, OperatorKeeps DEF ApplyEntry
  <1>3. ASSUME NEW urls \in SubscriptionSets, ReplaceSubscriptions(urls) PROVE Inv'
    <2>1. Subscribed(book, urls) \in Generations
      BY <1>1, SubscribedType
    <2>2. CASE Operator("edit", Subscribed(book, urls))
      BY <1>1, <2>1, <2>2, OperatorKeeps
    <2>3. CASE Operator("subscribe", Subscribed(book, urls))
      BY <1>1, <2>1, <2>3, OperatorKeeps
    <2> QED BY <1>3, <2>2, <2>3 DEF ReplaceSubscriptions
  <1>4. ASSUME NEW publish \in BOOLEAN, ApplyConfig(publish) PROVE Inv'
    <2>1. Configured(book, publish) \in Generations
      BY <1>1, ConfiguredType
    <2> QED BY <1>1, <1>4, <2>1, OperatorKeeps DEF ApplyConfig
  <1> QED BY <1>2, <1>3, <1>4

\* The worker commits only sources that cover the configured set.
LEMMA WorkerKeeps ==
  ASSUME Inv, Wake \/ IntervalElapsed \/ Take \/ Fetch \/ Cancel
  PROVE  Inv'
  <1>1. CASE UNCHANGED NotWorker
    BY <1>1, FrameKeeps
  <1>2. ASSUME NEW sources \in [worker.set -> Contents],
               Free, Accepts(worker.set, sources), Transact("fetch", Refreshed(book, sources))
        PROVE  Inv'
    <2>1. sources \in [book.subs -> Contents] /\ book \in Generations
      BY <1>2 DEF Accepts, Inv, StoreInv, Types
    <2>2. Refreshed(book, sources) \in Generations /\ "fetch" \in Purposes \ {"activate"}
      BY <2>1, RefreshedType DEF Purposes
    <2> QED BY <1>2, <2>2, TransactKeeps DEF Free
  <1>3. \/ UNCHANGED NotWorker
        \/ \E sources \in [worker.set -> Contents] :
              Free /\ Accepts(worker.set, sources) /\ Transact("fetch", Refreshed(book, sources))
    BY DEF Wake, IntervalElapsed, Take, Fetch, FetchFails, FetchDone, Cancel
  <1> QED BY <1>1, <1>2, <1>3

\* Every step preserves the invariant.
LEMMA InvStep == Inv /\ [Next]_vars => Inv'
  <1> SUFFICES ASSUME Inv, [Next]_vars PROVE Inv'
    OBVIOUS
  <1>1. CASE StoreStep
    BY <1>1, WriteArtifactKeeps, RotateKeeps, InstallKeeps, SyncDirectoryKeeps, UndoKeeps DEF StoreStep
  <1>2. CASE UNCHANGED vars
    BY <1>2, FrameKeeps DEF vars, NotWorker
  <1> QED BY <1>1, <1>2, ActivateKeeps, CrashKeeps, RequestKeeps, WorkerKeeps DEF Next

\* The invariant holds before the first activation: the directory is empty.
LEMMA InvInit == Init => Inv
  <1> SUFFICES ASSUME Init PROVE Inv
    OBVIOUS
  <1>1. dir \in Dirs /\ Newest(dir) = None
    BY DEF Init, Dirs, Slots, Artifacts, Newest
  <1>2. Types
    BY <1>1, NewBookType DEF Init, Types
  <1>3. Staged
    BY DEF Init, Staged, Idle
  <1>4. NewestKnown
    BY <1>1 DEF Init, NewestKnown
  <1>5. ViewInv
    BY DEF Init, ViewInv, ViewsFollowCommits
  <1> QED BY <1>2, <1>3, <1>4, <1>5 DEF Inv, StoreInv

\* The inductive invariant of the address book holds in every behaviour.
THEOREM BookInvariant == Spec => []Inv
  BY InvInit, InvStep, PTL DEF Spec

\* Whatever file operation fails and wherever the process or the machine stops,
\* load_or_import finds the last generation acknowledged as stored or one put up on top
\* of it, as long as the files decode.
THEOREM AcknowledgedIsDurable == Spec => []AcknowledgedSurvives
  <1>1. Inv => AcknowledgedSurvives
    <2> SUFFICES ASSUME Inv, \A d \in survivors : \A g \in Files(d) : Decodable(g),
                        NEW d \in survivors
                 PROVE  Loaded(d) \in {stored} \cup tried
      BY DEF AcknowledgedSurvives
    <2>1. d.current # None => Decodable(d.current)
      BY DEF Files
    <2>2. d.backup # None => Decodable(d.backup)
      BY DEF Files
    <2>3. Loaded(d) = Newest(d)
      BY <2>1, <2>2 DEF Loaded, Newest
    <2>4. Newest(d) # None => Decodable(Newest(d))
      BY <2>1, <2>2 DEF Newest
    <2> QED BY <2>3, <2>4 DEF Inv, StoreInv, NewestKnown
  <1> QED BY <1>1, BookInvariant, PTL

\* Between requests lookups and getters read what was acknowledged last, and the
\* published book and its artifact follow the router book.
THEOREM ViewsAreCommitted == Spec => []ViewsFollowCommits
  <1>1. Inv => ViewsFollowCommits
    BY DEF Inv, ViewInv
  <1> QED BY <1>1, BookInvariant, PTL
-----------------------------------------------------------------------------
(* What the books hold, and what the worker is fetching. *)

\* The books in memory, in the files, and those that a step may fall back to.
Kept ==
    {book} \cup tried \cup ({shared, acked, stored} \ {None}) \cup (UNION {Files(d) : d \in survivors})
        \cup {o.old : o \in {op} \ {Idle}}

BooksSound == \A b \in Kept : IsBook(b) /\ Projected(b)

\* The artifact is written only to a directory that holds a generation, so an import
\* finds none.
ArtifactLater == \A d \in survivors : Newest(d) = None => d.artifact = None

Queues == [active : SubscriptionSets \cup {None}, pending : SubscriptionSets \cup {None},
           inFlight : BOOLEAN]

\* The worker keeps its claim on the queue until the fetched set is committed.
Claimed ==
    /\ queue \in Queues
    /\ phase = "down" => worker.at = "waiting"
    /\ worker.at \in {"waiting", "woken", "fetching", "committing", "draining", "stopped"}
    /\ worker.at \in {"fetching", "committing"} => queue.active # None /\ queue.inFlight
    /\ worker.at = "draining" => queue.pending = None /\ op = Idle
    /\ op # Idle => IF op.for = "fetch" THEN worker.at = "committing"
                    ELSE worker.at \in {"waiting", "stopped", "fetching"}

KeptInv == BooksSound /\ ArtifactLater /\ Claimed

\* The sources that a book holds are of configured URLs.
Covered(b) == DOMAIN b.sources \subseteq b.subs

\* A change of the entries or of the configuration leaves the sources alone.
LEMMA EntriesApart ==
  ASSUME NEW b \in Generations
  PROVE  /\ Bump(b).sources = b.sources /\ Bump(b).subs = b.subs
         /\ SyncPublished(b).sources = b.sources /\ SyncPublished(b).subs = b.subs
         /\ Projected(b) => SyncPublished(b) = b
  <1> DEFINE c == [b EXCEPT !.books = [b.books EXCEPT !["published"] = b.books["router"]]]
  <1>1. ASSUME NEW e \in Generations PROVE Bump(e).sources = e.sources /\ Bump(e).subs = e.subs
    BY DEF Bump, Generations
  <1>2. c \in Generations /\ c.sources = b.sources /\ c.subs = b.subs
    <2> DEFINE copied == [b.books EXCEPT !["published"] = b.books["router"]]
    <2>1. copied \in [BookKinds -> SUBSET Names]
      BY DEF Generations, BookKinds
    <2>2. c = [b EXCEPT !.books = copied]
      OBVIOUS
    <2> HIDE DEF copied, c
    <2> QED BY <2>1, <2>2 DEF Generations
  <1>3. SyncPublished(b) = IF b.publish /\ b.books["published"] # b.books["router"]
                           THEN Bump(c) ELSE b
    BY DEF SyncPublished
  <1> HIDE DEF c
  <1> QED BY <1>1, <1>2, <1>3 DEF Projected

\* Each request keeps sources of configured URLs only.
LEMMA RequestsCover ==
  ASSUME NEW b \in Generations, Covered(b)
  PROVE  /\ \A kind \in BookKinds, n \in Names :
               Covered(Added(b, kind, n)) /\ Covered(Deleted(b, kind, n))
         /\ \A urls \in SubscriptionSets : Covered(Subscribed(b, urls))
         /\ \A publish \in BOOLEAN : Covered(Configured(b, publish))
         /\ \A sources \in [b.subs -> Contents] : Covered(Refreshed(b, sources))
  <1>1. ASSUME NEW e \in Generations, Covered(e) PROVE Covered(Bump(e))
    BY <1>1, EntriesApart DEF Covered
  <1>2. ASSUME NEW kind \in BookKinds, NEW n \in Names
        PROVE  Covered(Added(b, kind, n)) /\ Covered(Deleted(b, kind, n))
    <2> DEFINE more == [b.books EXCEPT ![kind] = @ \cup {n}]
               fewer == [b.books EXCEPT ![kind] = @ \ {n}]
    <2>1. more \in [BookKinds -> SUBSET Names] /\ fewer \in [BookKinds -> SUBSET Names]
      BY DEF Generations
    <2>2. /\ Added(b, kind, n) = Bump([b EXCEPT !.books = more])
          /\ Deleted(b, kind, n) = Bump([b EXCEPT !.books = fewer])
      BY DEF Added, Deleted
    <2> HIDE DEF more, fewer
    <2>3. /\ [b EXCEPT !.books = more] \in Generations /\ Covered([b EXCEPT !.books = more])
          /\ [b EXCEPT !.books = fewer] \in Generations /\ Covered([b EXCEPT !.books = fewer])
      BY <2>1 DEF Generations, Covered
    <2> QED BY <1>1, <2>2, <2>3
  <1>3. ASSUME NEW urls \in SubscriptionSets PROVE Covered(Subscribed(b, urls))
    <2> DEFINE kept == [u \in DOMAIN b.sources \cap urls |-> b.sources[u]]
               e == [b EXCEPT !.subs = urls, !.sources = kept]
    <2>1. CASE urls = b.subs
      BY <2>1 DEF Subscribed
    <2>2. CASE urls # b.subs
      <3>1. Subscribed(b, urls) = Bump(e)
        BY <2>2 DEF Subscribed
      <3>2. DOMAIN kept \subseteq urls
        OBVIOUS
      <3> HIDE DEF kept
      <3>3. Bump(e).sources = kept /\ Bump(e).subs = urls
        BY DEF Bump, Generations
      <3> QED BY <3>1, <3>2, <3>3 DEF Covered
    <2> QED BY <2>1, <2>2
  <1>4. ASSUME NEW publish \in BOOLEAN PROVE Covered(Configured(b, publish))
    <2>1. [b EXCEPT !.publish = publish] \in Generations /\ Covered([b EXCEPT !.publish = publish])
      BY DEF Generations, Covered
    <2> QED BY <1>1, <2>1 DEF Configured
  <1>5. ASSUME NEW sources \in [b.subs -> Contents] PROVE Covered(Refreshed(b, sources))
    <2> DEFINE e == [b EXCEPT !.sources = sources]
    <2>1. Refreshed(b, sources) \in {b, Bump(e)}
      BY DEF Refreshed
    <2>2. Bump(e).sources = sources /\ Bump(e).subs = b.subs
      BY DEF Bump, Generations
    <2>3. DOMAIN sources = b.subs
      OBVIOUS
    <2> QED BY <2>1, <2>2, <2>3 DEF Covered
  <1> QED BY <1>2, <1>3, <1>4, <1>5

\* AddressBook::new holds nothing.
LEMMA NewBookSound == IsBook(NewBook) /\ Projected(NewBook) /\ ~NewBook.publish
  <1>1. NewBook.rev = 0 /\ NewBook.sources = [u \in {} |-> None] /\ NewBook.subs = {}
    BY DEF NewBook
  <1>2. 0 <= MaxRevision
    BY BookAssumption
  <1> QED BY <1>1, <1>2, NewBookType DEF IsBook, Projected

\* A step that adds no book but a new one.
LEMMA KeptStays ==
  ASSUME BooksSound, Kept' \subseteq Kept \cup {NewBook}
  PROVE  BooksSound'
  <1>1. \A b \in Kept' : IsBook(b) /\ Projected(b)
    BY NewBookSound DEF BooksSound
  <1> QED BY <1>1 DEF BooksSound, IsBook, Projected

\* The books after a step.
LEMMA KeptNext ==
  ASSUME NEW S, book' \in S, tried' \subseteq S, shared' \in S \cup {None}, acked' \in S \cup {None},
         stored' \in S \cup {None},
         \A d \in survivors' : Files(d) \subseteq S, op' = Idle \/ op'.old \in S
  PROVE  Kept' \subseteq S
  <1>1. Kept' = {book'} \cup tried' \cup ({shared', acked', stored'} \ {None})
                  \cup (UNION {Files(e) : e \in survivors'}) \cup {o.old : o \in {op'} \ {Idle}}
    BY ZenonT(60) DEF Kept, Files, Idle
  <1> QED BY <1>1

\* The books before it.
LEMMA KeptNow ==
  /\ book \in Kept /\ tried \subseteq Kept
  /\ shared \in Kept \cup {None} /\ acked \in Kept \cup {None} /\ stored \in Kept \cup {None}
  /\ \A d \in survivors : Files(d) \subseteq Kept
  /\ op # Idle => op.old \in Kept
  <1>1. /\ book \in Kept /\ tried \subseteq Kept
        /\ shared \in Kept \cup {None} /\ acked \in Kept \cup {None} /\ stored \in Kept \cup {None}
    BY DEF Kept
  <1>2. \A d \in survivors : Files(d) \subseteq Kept
    BY ZenonT(60) DEF Kept
  <1>3. op # Idle => op.old \in Kept
    BY ZenonT(60) DEF Kept
  <1> QED BY <1>1, <1>2, <1>3

\* The files of a directory of which one file is replaced.
LEMMA FilesStep ==
  ASSUME NEW d \in Dirs, NEW a \in Artifacts, NEW b \in Generations
  PROVE  /\ Files([d EXCEPT !.artifact = a]) = Files(d)
         /\ Files([d EXCEPT !.backup = d.current, !.current = None]) \subseteq Files(d)
         /\ [d EXCEPT !.backup = d.current, !.current = None].artifact = d.artifact
         /\ Files([d EXCEPT !.current = b]) \subseteq Files(d) \cup {b}
         /\ [d EXCEPT !.current = b].artifact = d.artifact
  BY DEF Files, Dirs

\* A transaction that goes on or ends keeps the books it found and put up.
LEMMA StoreKept ==
  ASSUME Inv, KeptInv, op # Idle, NEW d, Files(d) \subseteq Files(dir) \cup {book},
         survivors' = survivors \/ survivors' = survivors \cup {d} \/ survivors' = {d},
         Acknowledge \/ Refuse \/ \E stage \in Stages \ {"artifact"} : Goto(stage),
         Newest(d) = None => d.artifact = None
  PROVE  BooksSound' /\ ArtifactLater'
  <1>1. Files(dir) \subseteq Kept /\ book \in Kept /\ op.old \in Kept /\ op \in Operations
    BY KeptNow DEF Inv, StoreInv, Staged, Types
  <1>2. \A e \in survivors' : Files(e) \subseteq Kept
    BY <1>1, KeptNow
  <1>3. /\ book' \in Kept \cup {NewBook} /\ tried' \subseteq tried
        /\ shared' \in {shared, book} /\ acked' \in {acked, book} /\ stored' \in {stored, book}
        /\ op' = Idle \/ (op' \in Operations /\ op'.old = op.old /\ op'.stage # "artifact")
    <2>1. CASE Acknowledge
      BY <1>1, <2>1 DEF Acknowledge
    <2>2. CASE Refuse
      BY <1>1, <2>2 DEF Refuse
    <2>3. CASE \E stage \in Stages \ {"artifact"} : Goto(stage)
      BY <1>1, <2>3 DEF Goto, Operations
    <2> QED BY <2>1, <2>2, <2>3
  <1>4. Kept' \subseteq Kept \cup {NewBook}
    <2> DEFINE S == Kept \cup {NewBook}
    <2>1. book' \in S /\ tried' \subseteq S /\ shared' \in S \cup {None} /\ acked' \in S \cup {None}
          /\ stored' \in S \cup {None}
          /\ (\A e \in survivors' : Files(e) \subseteq S) /\ (op' = Idle \/ op'.old \in S)
      BY <1>1, <1>2, <1>3, KeptNow, ZenonT(60)
    <2> HIDE DEF S
    <2>2. Kept' \subseteq S
      BY <2>1, KeptNext
    <2> QED BY <2>2 DEF S
  <1>5. ArtifactLater'
    BY DEF KeptInv, ArtifactLater, Newest
  <1> QED BY <1>4, <1>5, KeptStays DEF KeptInv

\* The artifact is written where the directory has a generation.
LEMMA StoreStepKept ==
  ASSUME Inv, KeptInv, StoreStep
  PROVE  BooksSound' /\ ArtifactLater'
  <1>1. /\ op.stage \in Stages /\ op \in Operations /\ op # Idle
        /\ book \in Generations /\ dir \in Dirs /\ dir \in survivors
    <2>1. op.stage \in Stages
      BY DEF StoreStep, WriteArtifact, Rotate, Install, SyncDirectory, Undo, Stages
    <2> QED BY <2>1, StageOp DEF Inv, StoreInv, Types, Staged
  <1>2. Newest(dir) = None => dir.artifact = None
    BY <1>1 DEF KeptInv, ArtifactLater
  <1>3. {"rotate", "install", "sync", "undo"} \subseteq Stages \ {"artifact"}
    BY DEF Stages
  <1>4. Acknowledge \/ Refuse \/ \E stage \in Stages \ {"artifact"} : Goto(stage)
    BY <1>3 DEF StoreStep, WriteArtifact, Rotate, Install, SyncDirectory, Undo
  <1>5. ASSUME NEW a \in Artifacts, Newest(dir) # None
        PROVE  LET d == [dir EXCEPT !.artifact = a]
               IN  /\ Files(d) \subseteq Files(dir) \cup {book}
                   /\ Newest(d) = None => d.artifact = None
    <2>1. Files([dir EXCEPT !.artifact = a]) = Files(dir)
      BY <1>1, FilesStep, ZenonT(60)
    <2>2. Newest([dir EXCEPT !.artifact = a]) = Newest(dir)
      BY <1>1, ArtifactApart
    <2> QED BY <1>5, <2>1, <2>2
  <1>6. CASE WriteArtifact
    <2> DEFINE d == [dir EXCEPT !.artifact = book.books["router"]]
    <2>1. survivors' = survivors \/ survivors' = survivors \cup {d} \/ survivors' = {d}
      BY <1>6 DEF WriteArtifact, RenameAndSync, WriteFails, Rename, disk
    <2>2. Newest(dir) # None
      BY <1>6 DEF WriteArtifact, Inv, StoreInv, Staged
    <2>3. Files(d) \subseteq Files(dir) \cup {book} /\ (Newest(d) = None => d.artifact = None)
      BY <1>1, <1>5, <2>2, RouterArtifact
    <2> HIDE DEF d
    <2> QED BY <1>1, <1>4, <2>1, <2>3, StoreKept
  <1>7. CASE Rotate
    <2> DEFINE rotated == [dir EXCEPT !.backup = dir.current, !.current = None]
               d == IF dir.current = None THEN dir ELSE rotated
    <2>1. survivors' = survivors \/ survivors' = survivors \cup {d} \/ survivors' = {d}
      BY <1>7 DEF Rotate, Rename, disk
    <2>2. Files(rotated) \subseteq Files(dir) \cup {book} /\ rotated.backup = dir.current
      <3>1. Files(rotated) \subseteq Files(dir)
        BY <1>1, RouterArtifact, FilesStep, ZenonT(60)
      <3>2. rotated.backup = dir.current
        BY <1>1 DEF Dirs
      <3> QED BY <3>1, <3>2
    <2> HIDE DEF rotated
    <2>3. Files(d) \subseteq Files(dir) \cup {book} /\ (Newest(d) = None => d.artifact = None)
      BY <1>2, <2>2 DEF Newest
    <2> HIDE DEF d
    <2> QED BY <1>1, <1>4, <2>1, <2>3, StoreKept
  <1>8. CASE Install
    <2> DEFINE d == [dir EXCEPT !.current = book]
    <2>1. survivors' = survivors \/ survivors' = survivors \cup {d} \/ survivors' = {d}
      BY <1>8 DEF Install, Rename, disk
    <2>2. Files(d) \subseteq Files(dir) \cup {book}
      BY <1>1, RouterArtifact, FilesStep, ZenonT(60)
    <2>3. d.current = book /\ book # None
      BY <1>1, BookAssumption DEF Dirs
    <2> HIDE DEF d
    <2>4. Newest(d) # None
      BY <2>3 DEF Newest
    <2> QED BY <1>1, <1>4, <2>1, <2>2, <2>4, StoreKept
  <1>9. CASE SyncDirectory
    <2>1. survivors' = survivors \/ survivors' = {dir}
      BY <1>9 DEF SyncDirectory, RenameAndSync, disk
    <2> QED BY <1>1, <1>2, <1>4, <2>1, StoreKept
  <1>10. CASE Undo
    <2> DEFINE restored == [dir EXCEPT !.artifact = op.prior]
               d == IF op.for # "activate" THEN restored ELSE dir
    <2>1. survivors' = survivors \/ survivors' = survivors \cup {d} \/ survivors' = {d}
      BY <1>10 DEF Undo, RenameAndSync, WriteFails, Rename, disk
    <2>2. op.for # "activate" => Newest(dir) # None
      BY <1>1 DEF Inv, ViewInv, StoreInv, Staged
    <2>3. op.prior \in Artifacts
      BY <1>1 DEF Operations
    <2>4. op.for # "activate" => /\ Files(restored) \subseteq Files(dir) \cup {book}
                                 /\ Newest(restored) = None => restored.artifact = None
      BY <1>5, <2>2, <2>3
    <2> HIDE DEF restored
    <2>5. Files(d) \subseteq Files(dir) \cup {book} /\ (Newest(d) = None => d.artifact = None)
      BY <1>2, <2>4
    <2> HIDE DEF d
    <2> QED BY <1>1, <1>4, <2>1, <2>5, StoreKept
  <1> QED BY <1>6, <1>7, <1>8, <1>9, <1>10 DEF StoreStep

\* What a transaction puts up is sound.
LEMMA TransactKept ==
  ASSUME Inv, KeptInv, phase = "active", op = Idle, NEW for \in Purposes \ {"activate"},
         NEW next \in Generations, Covered(next), Transact(for, next)
  PROVE  BooksSound' /\ ArtifactLater'
  <1> DEFINE b == SyncPublished(next)
  <1>1. /\ b \in Generations /\ Projected(b) /\ b.sources = next.sources /\ b.subs = next.subs
    BY SyncType, EntriesApart
  <1>2. /\ b.rev <= MaxRevision /\ book' = b /\ tried' = tried \cup {b}
        /\ op' = [stage |-> IF b.publish THEN "artifact" ELSE "rotate",
                  for |-> for, old |-> book, prior |-> dir.artifact]
        /\ UNCHANGED <<survivors, shared, acked, stored>>
    BY DEF Transact, Begin
  <1> HIDE DEF b
  <1>3. IsBook(b)
    BY <1>1, <1>2 DEF IsBook, Covered
  <1>4. op'.old = book
    BY <1>2
  <1>5. Kept' \subseteq Kept \cup {b}
    <2> DEFINE S == Kept \cup {b}
    <2>1. book' \in S /\ tried' \subseteq S /\ shared' \in S \cup {None} /\ acked' \in S \cup {None}
          /\ stored' \in S \cup {None}
          /\ (\A d \in survivors' : Files(d) \subseteq S) /\ op'.old \in S
      BY <1>2, <1>4, KeptNow
    <2> HIDE DEF S
    <2>2. Kept' \subseteq S
      BY <2>1, KeptNext
    <2> QED BY <2>2 DEF S
  <1>6. \A e \in Kept' : IsBook(e) /\ Projected(e)
    BY <1>1, <1>3, <1>5 DEF KeptInv, BooksSound
  <1>7. ArtifactLater'
    BY <1>2 DEF KeptInv, ArtifactLater, Newest
  <1> QED BY <1>6, <1>7 DEF BooksSound, IsBook, Projected

\* A crash loses books, and an activation finds those that were kept.
LEMMA CrashKept ==
  ASSUME Inv, KeptInv, Crash
  PROVE  BooksSound' /\ ArtifactLater'
  <1>1. /\ book' = NewBook /\ op' = Idle /\ shared' = None /\ UNCHANGED <<acked, stored, tried>>
        /\ survivors' \subseteq survivors
    BY DEF Crash, disk
  <1>2. Kept' \subseteq Kept \cup {NewBook}
    <2> DEFINE S == Kept \cup {NewBook}
    <2>1. book' \in S /\ tried' \subseteq S /\ shared' \in S \cup {None} /\ acked' \in S \cup {None}
          /\ stored' \in S \cup {None}
          /\ (\A d \in survivors' : Files(d) \subseteq S)
      BY <1>1, KeptNow
    <2> HIDE DEF S
    <2>2. Kept' \subseteq S
      BY <1>1, <2>1, KeptNext
    <2> QED BY <2>2 DEF S
  <1>3. ArtifactLater'
    BY <1>1 DEF KeptInv, ArtifactLater, Newest
  <1> QED BY <1>2, <1>3, KeptStays DEF KeptInv

LEMMA ActivateKept ==
  ASSUME Inv, KeptInv, Activate
  PROVE  BooksSound' /\ ArtifactLater'
  <1> DEFINE g == Loaded(dir)
             S == Kept \cup {NewBook}
  <1>1. /\ phase = "down" /\ dir \in survivors /\ op = Idle /\ dir \in Dirs
        /\ UNCHANGED <<dir, survivors, stored>>
    BY DEF Inv, StoreInv, Types, Staged, Activate
  <1>2. ASSUME book' \in S, tried' \subseteq tried \cup {book'}, shared' \in {shared, book'},
               acked' \in {acked, book'}, op' = Idle \/ op'.old \in S
        PROVE  BooksSound' /\ ArtifactLater'
    <2>1. tried' \subseteq S /\ shared' \in S \cup {None} /\ acked' \in S \cup {None}
          /\ stored' \in S \cup {None} /\ (\A d \in survivors' : Files(d) \subseteq S)
      BY <1>1, <1>2, KeptNow
    <2>2. ArtifactLater'
      BY <1>1 DEF KeptInv, ArtifactLater, Newest
    <2> HIDE DEF S
    <2>3. Kept' \subseteq S
      BY <1>2, <2>1, KeptNext
    <2>4. Kept' \subseteq Kept \cup {NewBook}
      BY <2>3 DEF S
    <2> QED BY <2>2, <2>4, KeptStays DEF KeptInv
  <1>3. g \notin {None, Invalid} => g \in Generations /\ g \in Files(dir) /\ g \in Kept /\ Projected(g)
    <2>1. g \notin {None, Invalid} => g \in {dir.current, dir.backup}
      BY DEF Loaded
    <2>2. g \notin {None, Invalid} => g \in Files(dir)
      BY <2>1 DEF Files
    <2>3. g \notin {None, Invalid} => g \in Generations
      BY <1>1, LoadedIsNewest
    <2> HIDE DEF g
    <2> QED BY <1>1, <2>2, <2>3, KeptNow DEF KeptInv, BooksSound
  <1>4. CASE Deactivate
    BY <1>1, <1>2, <1>4, KeptNow DEF Deactivate, Idle
  <1>5. CASE /\ g = None /\ Begin("activate", Imported(dir.artifact), "rotate")
             /\ UNCHANGED <<shared, acked>>
    <2>1. Newest(dir) = None
      BY <1>5, BookAssumption DEF Loaded, Newest
    <2>2. dir.artifact = None
      BY <1>1, <2>1 DEF KeptInv, ArtifactLater
    <2>3. /\ book' = NewBook /\ tried' = tried \cup {book'}
          /\ op' = [stage |-> "rotate", for |-> "activate", old |-> book, prior |-> dir.artifact]
      BY <1>5, <2>2 DEF Begin, Imported
    <2>4. op'.old = book
      BY <2>3
    <2> QED BY <1>2, <1>5, <2>3, <2>4, KeptNow, ZenonT(60)
  <1>6. CASE /\ g \notin {None, Invalid} /\ g.publish
             /\ book' = SyncPublished(g) /\ tried' = tried \cup {book'}
             /\ op' = [stage |-> "artifact", for |-> "activate", old |-> g, prior |-> dir.artifact]
             /\ UNCHANGED <<shared, acked>>
    <2>1. book' = g /\ g \in Kept
      BY <1>3, <1>6, EntriesApart
    <2>2. op'.old = g
      BY <1>6
    <2> HIDE DEF g
    <2> QED BY <1>2, <1>6, <2>1, <2>2, ZenonT(60)
  <1>7. CASE /\ g \notin {None, Invalid} /\ book' = g /\ shared' = g /\ acked' = g
             /\ UNCHANGED <<op, tried>>
    <2>1. g \in Kept
      BY <1>3, <1>7
    <2> HIDE DEF g
    <2> QED BY <1>1, <1>2, <1>7, <2>1 DEF Idle
  <1> QED BY <1>4, <1>5, <1>6, <1>7 DEF Activate

\* A step of which the books are no part.
LEMMA FrameKept == KeptInv /\ UNCHANGED NotWorker => BooksSound' /\ ArtifactLater'
  <1> SUFFICES ASSUME KeptInv, UNCHANGED NotWorker PROVE BooksSound' /\ ArtifactLater'
    OBVIOUS
  <1>1. UNCHANGED <<dir, survivors, book, op, shared, acked, stored, tried>>
    BY DEF NotWorker
  <1>2. Kept' = Kept
    BY <1>1, ZenonT(60) DEF Kept, Files, Idle
  <1>3. ArtifactLater'
    BY <1>1 DEF KeptInv, ArtifactLater, Newest
  <1> QED BY <1>2, <1>3, KeptStays DEF KeptInv

\* The requests of an operator.
LEMMA RequestKept ==
  ASSUME Inv, KeptInv,
         \/ \E kind \in Edited, n \in Names : ApplyEntry(kind, n)
         \/ \E urls \in SubscriptionSets : ReplaceSubscriptions(urls)
         \/ \E publish \in BOOLEAN : ApplyConfig(publish)
  PROVE  BooksSound' /\ ArtifactLater'
  <1>1. book \in Generations /\ Covered(book)
    <2>1. book \in Kept
      BY KeptNow
    <2> QED BY <2>1 DEF KeptInv, BooksSound, IsBook, Covered
  <1>2. \E for \in Purposes \ {"activate"}, next \in Generations :
           Covered(next) /\ Operator(for, next)
    <2>1. {"edit", "subscribe"} \subseteq Purposes \ {"activate"}
      BY DEF Purposes
    <2>2. ASSUME NEW kind \in Edited, NEW n \in Names, ApplyEntry(kind, n)
          PROVE  \E next \in Generations : Covered(next) /\ Operator("edit", next)
      <3>1. kind \in BookKinds
        BY BookAssumption, ZenonT(60)
      <3>2. /\ Added(book, kind, n) \in Generations /\ Deleted(book, kind, n) \in Generations
            /\ Covered(Added(book, kind, n)) /\ Covered(Deleted(book, kind, n))
        BY <1>1, <3>1, EntryType, RequestsCover
      <3> QED BY <2>2, <3>2 DEF ApplyEntry
    <2>3. ASSUME NEW urls \in SubscriptionSets, ReplaceSubscriptions(urls)
          PROVE  \E next \in Generations :
                    Covered(next) /\ (Operator("edit", next) \/ Operator("subscribe", next))
      <3>1. Subscribed(book, urls) \in Generations /\ Covered(Subscribed(book, urls))
        BY <1>1, SubscribedType, RequestsCover
      <3> QED BY <2>3, <3>1, ZenonT(60) DEF ReplaceSubscriptions
    <2>4. ASSUME NEW publish \in BOOLEAN, ApplyConfig(publish)
          PROVE  \E next \in Generations : Covered(next) /\ Operator("edit", next)
      <3>1. Configured(book, publish) \in Generations /\ Covered(Configured(book, publish))
        BY <1>1, ConfiguredType, RequestsCover, ZenonT(60)
      <3> QED BY <2>4, <3>1, ZenonT(60) DEF ApplyConfig
    <2> QED BY <2>1, <2>2, <2>3, <2>4
  <1> QED BY <1>2, TransactKept DEF Operator, AtAwait

\* The worker commits a whole set of sources, and only to the set it was fetched for.
LEMMA WorkerKept ==
  ASSUME Inv, KeptInv, Wake \/ IntervalElapsed \/ Take \/ Fetch \/ Cancel
  PROVE  BooksSound' /\ ArtifactLater'
  <1>1. CASE UNCHANGED NotWorker
    BY <1>1, FrameKept
  <1>2. ASSUME NEW sources \in [worker.set -> Contents],
               Free, Accepts(worker.set, sources), Transact("fetch", Refreshed(book, sources))
        PROVE  BooksSound' /\ ArtifactLater'
    <2>1. sources \in [book.subs -> Contents] /\ book \in Generations /\ Covered(book)
      <3>1. book \in Kept
        BY KeptNow, ZenonT(60)
      <3> QED BY <1>2, <3>1 DEF Accepts, KeptInv, BooksSound, IsBook, Covered
    <2>2. /\ Refreshed(book, sources) \in Generations /\ Covered(Refreshed(book, sources))
          /\ "fetch" \in Purposes \ {"activate"}
      BY <2>1, RefreshedType, RequestsCover DEF Purposes
    <2> QED BY <1>2, <2>2, TransactKept DEF Free
  <1>3. \/ UNCHANGED NotWorker
        \/ \E sources \in [worker.set -> Contents] :
              Free /\ Accepts(worker.set, sources) /\ Transact("fetch", Refreshed(book, sources))
    BY DEF Wake, IntervalElapsed, Take, Fetch, FetchFails, FetchDone, Cancel
  <1> QED BY <1>1, <1>2, <1>3

\* push and finish_active on a queue of sets.
LEMMA QueueSteps ==
  ASSUME NEW q \in Queues, NEW set \in SubscriptionSets
  PROVE  /\ Push(q, set) \in Queues
         /\ q.active # None => Push(q, set).active = q.active /\ Push(q, set).inFlight = q.inFlight
         /\ Finish(q) \in Queues /\ Finish(q).pending = None
         /\ [q EXCEPT !.inFlight = TRUE] \in Queues
         /\ [q EXCEPT !.inFlight = TRUE].active = q.active
         /\ [q EXCEPT !.inFlight = TRUE].inFlight
  <1>1. Push(q, set) \in Queues
    <2>1. CASE q.active = None
      <3> DEFINE p == [q EXCEPT !.active = set]
      <3>1. p \in Queues
        BY DEF Queues
      <3>2. Push(q, set) = [p EXCEPT !.inFlight = FALSE]
        BY <2>1 DEF Push
      <3> HIDE DEF p
      <3> QED BY <3>1, <3>2, ZenonT(60) DEF Queues
    <2>2. CASE q.active # None
      BY <2>2 DEF Push, Queues
    <2> QED BY <2>1, <2>2
  <1>2. q.active # None => Push(q, set).active = q.active /\ Push(q, set).inFlight = q.inFlight
    BY DEF Push, Queues
  <1>3. Finish(q) \in Queues /\ Finish(q).pending = None
    BY DEF Finish, Queues
  <1>4. /\ [q EXCEPT !.inFlight = TRUE] \in Queues
        /\ [q EXCEPT !.inFlight = TRUE].active = q.active
        /\ [q EXCEPT !.inFlight = TRUE].inFlight
    BY ZenonT(60) DEF Queues
  <1> QED BY <1>1, <1>2, <1>3, <1>4

\* The worker's own steps take its claim and give it back.
LEMMA WorkerClaims ==
  ASSUME Inv, Claimed, Wake \/ IntervalElapsed \/ Take \/ Fetch \/ Cancel
  PROVE  Claimed'
  <1>1. queue \in Queues /\ book.subs \in SubscriptionSets
    BY DEF Claimed, Inv, StoreInv, Types, Generations
  <1>2. Free
    BY DEF Wake, IntervalElapsed, Take, Fetch, FetchFails, FetchDone, Cancel
  <1>3. phase' # "down" /\ phase = "active" /\ op = Idle
    BY <1>2 DEF Free, Wake, IntervalElapsed, Take, Fetch, FetchFails, FetchDone, Cancel, Transact,
           NotWorker
  <1>4. ASSUME op' = op, queue' = Finish(queue), worker'.at \in {"draining", "stopped"} PROVE Claimed'
    BY <1>1, <1>3, <1>4, QueueSteps, ZenonT(60) DEF Claimed
  <1>5. CASE Wake
    BY <1>1, <1>3, <1>5 DEF Wake, Steps, NotWorker, Claimed
  <1>6. CASE IntervalElapsed
    BY <1>1, <1>3, <1>6, QueueSteps, ZenonT(60) DEF IntervalElapsed, Steps, NotWorker, Claimed
  <1>7. CASE Take
    <2>1. op' = op
      BY <1>7 DEF Take, NotWorker
    <2>2. CASE Steps("waiting") /\ UNCHANGED queue
      BY <1>1, <1>3, <2>1, <2>2 DEF Steps, Claimed
    <2>3. CASE queue' = Finish(queue) /\ Steps("draining")
      BY <1>4, <2>1, <2>3 DEF Steps
    <2>4. CASE /\ queue.active # None /\ queue' = [queue EXCEPT !.inFlight = TRUE]
               /\ worker' = [at |-> "fetching", set |-> queue.active]
      <3>1. worker'.at = "fetching"
        BY <2>4
      <3>2. queue' \in Queues /\ queue'.active # None /\ queue'.inFlight
        BY <1>1, <2>4, QueueSteps, ZenonT(60)
      <3> QED BY <1>3, <2>1, <3>1, <3>2 DEF Claimed
    <2> QED BY <1>7, <2>2, <2>3, <2>4 DEF Take
  <1>8. CASE Fetch
    <2>1. worker.at = "fetching"
      BY <1>8 DEF Fetch
    <2>2. CASE queue' = Finish(queue) /\ Steps("draining") /\ UNCHANGED NotWorker
      BY <1>4, <2>2 DEF Steps, NotWorker
    <2>3. ASSUME NEW sources, Transact("fetch", Refreshed(book, sources)), Steps("committing")
          PROVE  Claimed'
      <3>1. UNCHANGED queue /\ worker'.at = "committing" /\ op'.for = "fetch"
        BY <2>3 DEF Transact, Begin, Steps
      <3> QED BY <1>1, <1>3, <2>1, <3>1, ZenonT(60) DEF Claimed
    <2> QED BY <1>8, <2>2, <2>3, ZenonT(60) DEF Fetch, FetchFails, FetchDone
  <1>9. CASE Cancel
    <2>1. worker'.at = "stopped" /\ op' = op /\ (queue' = queue \/ queue' = Finish(queue))
      BY <1>9, ZenonT(60) DEF Cancel, Steps, NotWorker
    <2>2. CASE queue' = queue
      BY <1>1, <1>3, <2>1, <2>2 DEF Claimed
    <2> QED BY <1>4, <2>1, <2>2, ZenonT(60)
  <1> QED BY <1>5, <1>6, <1>7, <1>8, <1>9, ZenonT(60)

\* The end of a transaction gives the claim of its fetch back, and a request during a
\* fetch leaves it alone.
LEMMA OthersClaim ==
  ASSUME Inv, Claimed, Activate \/ Crash \/ StoreStep \/ \E for, next : for # "fetch" /\ Operator(for, next)
  PROVE  Claimed'
  <1>1. queue \in Queues /\ book.subs \in SubscriptionSets
    BY DEF Claimed, Inv, StoreInv, Types, Generations
  <1>2. CASE Activate
    <2>1. /\ phase = "down" /\ op = Idle /\ phase' # "down" /\ UNCHANGED <<queue, worker>>
          /\ op' = Idle \/ op'.for = "activate"
      <3>1. phase = "down" /\ UNCHANGED <<queue, worker>>
        BY <1>2, ZenonT(60) DEF Activate, refresh
      <3>2. op = Idle
        BY <3>1, ZenonT(60) DEF Inv, StoreInv, Staged
      <3>3. phase' \in {"inactive", "starting", "active"}
        BY <1>2, ZenonT(60) DEF Activate, Deactivate
      <3>4. phase' # "down"
        BY ONLY <3>3, SMTT(30), Z3T(30)
      <3>5. op' = op \/ \E stage, old, prior :
                op' = [stage |-> stage, for |-> "activate", old |-> old, prior |-> prior]
        BY <1>2, ZenonT(60) DEF Activate, Deactivate, Begin
      <3>6. op' = op \/ op'.for = "activate"
        BY ONLY <3>5, SMTT(30), Z3T(30)
      <3> QED BY <3>1, <3>2, <3>4, <3>6, ZenonT(60)
    <2> QED BY <1>1, <2>1, ZenonT(60) DEF Claimed
  <1>3. CASE Crash
    <2>1. EmptyQueue \in Queues /\ Waiting.at = "waiting"
      BY DEF EmptyQueue, Queues, Waiting
    <2> QED BY <1>3, <2>1, ZenonT(60) DEF Crash, Claimed
  <1>4. CASE StoreStep
    <2>1. op.stage \in Stages
      BY <1>4 DEF StoreStep, WriteArtifact, Rotate, Install, SyncDirectory, Undo, Stages
    <2>2. op \in Operations /\ op # Idle /\ phase # "down"
      BY <2>1, StageOp, ZenonT(60) DEF Inv, StoreInv, Staged
    <2>3. IF op.for = "fetch" THEN worker.at = "committing"
          ELSE worker.at \in {"waiting", "stopped", "fetching"}
      BY <2>2, ZenonT(60) DEF Claimed
    <2>4. CASE Acknowledge
      <3>1. phase' = "active" /\ op' = Idle
        BY <2>4 DEF Acknowledge
      <3>2. CASE op.for = "subscribe"
        <4>1. queue' = Push(queue, book.subs) /\ UNCHANGED worker
          BY <2>4, <3>2 DEF Acknowledge
        <4> QED BY <1>1, <2>3, <3>1, <3>2, <4>1, QueueSteps, ZenonT(60) DEF Claimed
      <3>3. CASE op.for = "fetch"
        <4>1. queue' = Finish(queue) /\ worker' = [at |-> "draining"]
          BY <2>4, <3>3 DEF Acknowledge
        <4> QED BY <1>1, <3>1, <4>1, QueueSteps, ZenonT(60) DEF Claimed
      <3>4. CASE op.for \notin {"subscribe", "fetch"}
        <4>1. UNCHANGED <<queue, worker>>
          BY <2>4, <3>4 DEF Acknowledge, refresh
        <4> QED BY <1>1, <2>3, <3>1, <3>4, <4>1 DEF Claimed
      <3> QED BY <3>2, <3>3, <3>4
    <2>5. CASE Refuse
      <3>1. phase' # "down" /\ op' = Idle
        BY <2>2, <2>5 DEF Refuse
      <3>2. CASE op.for = "fetch"
        <4>1. queue' = Finish(queue) /\ worker' = [at |-> "draining"]
          BY <2>5, <3>2 DEF Refuse
        <4> QED BY <1>1, <3>1, <4>1, QueueSteps, ZenonT(60) DEF Claimed
      <3>3. CASE op.for # "fetch"
        <4>1. UNCHANGED <<queue, worker>>
          BY <2>5, <3>3 DEF Refuse
        <4> QED BY <1>1, <2>3, <3>1, <3>3, <4>1 DEF Claimed
      <3> QED BY <3>2, <3>3
    <2>6. CASE \E stage : Goto(stage)
      <3>1. op'.for = op.for /\ UNCHANGED <<phase, queue, worker>>
        BY <2>2, <2>6 DEF Goto, Operations
      <3> QED BY <1>1, <2>2, <2>3, <3>1 DEF Claimed
    <2> QED BY <1>4, <2>4, <2>5, <2>6
            DEF StoreStep, WriteArtifact, Rotate, Install, SyncDirectory, Undo
  <1>5. ASSUME NEW for, NEW next, for # "fetch", Operator(for, next) PROVE Claimed'
    <2>1. /\ phase = "active" /\ phase' = phase /\ worker.at \in {"waiting", "stopped", "fetching"}
          /\ op'.for = for /\ UNCHANGED <<queue, worker>>
      BY <1>5 DEF Operator, AtAwait, Transact, Begin
    <2> QED BY <1>1, <1>5, <2>1, ZenonT(60) DEF Claimed
  <1> QED BY <1>2, <1>3, <1>4, <1>5

\* Every step keeps the books sound and the worker's claim.
LEMMA KeptStep == Inv /\ KeptInv /\ [Next]_vars => KeptInv'
  <1> SUFFICES ASSUME Inv, KeptInv, [Next]_vars PROVE KeptInv'
    OBVIOUS
  <1>1. CASE \/ \E kind \in Edited, n \in Names : ApplyEntry(kind, n)
             \/ \E urls \in SubscriptionSets : ReplaceSubscriptions(urls)
             \/ \E publish \in BOOLEAN : ApplyConfig(publish)
    <2>1. \E for, next : for # "fetch" /\ Operator(for, next)
      BY <1>1 DEF ApplyEntry, ReplaceSubscriptions, ApplyConfig
    <2> QED BY <1>1, <2>1, RequestKept, OthersClaim DEF KeptInv
  <1>2. CASE Wake \/ IntervalElapsed \/ Take \/ Fetch \/ Cancel
    BY <1>2, WorkerKept, WorkerClaims DEF KeptInv
  <1>3. CASE Activate \/ Crash \/ StoreStep
    BY <1>3, ActivateKept, CrashKept, StoreStepKept, OthersClaim, ZenonT(60) DEF KeptInv
  <1>4. CASE UNCHANGED vars
    <2>1. UNCHANGED NotWorker
      BY <1>4, ZenonT(60) DEF vars, NotWorker
    <2> QED BY <1>4, <2>1, FrameKept, ZenonT(60) DEF vars, KeptInv, Claimed
  <1> QED BY <1>1, <1>2, <1>3, <1>4 DEF Next

\* Before the first activation there is nothing to hold.
LEMMA KeptInit == Init => KeptInv
  <1> SUFFICES ASSUME Init PROVE KeptInv
    OBVIOUS
  <1>1. Kept \subseteq {NewBook}
    BY DEF Init, Kept, Files
  <1>2. BooksSound /\ ArtifactLater
    BY <1>1, NewBookSound DEF Init, BooksSound, ArtifactLater
  <1>3. EmptyQueue \in Queues /\ Waiting.at = "waiting"
    BY DEF EmptyQueue, Queues, Waiting
  <1> QED BY <1>2, <1>3 DEF Init, KeptInv, Claimed

\* Every book in memory and on disk, and the worker's claim on the queue.
THEOREM KeptInvariant == Spec => []KeptInv
  BY InvInit, InvStep, KeptInit, KeptStep, PTL DEF Spec

\* Whatever set the operator configures while another one is fetched, and wherever the
\* process stops: no book in memory, in the snapshot or in a file holds a source of a URL
\* that is not configured in it, and a set that waits behind a fetch is never stranded.
THEOREM SourcesAreConfigured == Spec => []SourcesConfigured
  <1>1. ASSUME Inv, KeptInv PROVE SourcesConfigured
    <2>1. dir \in survivors
      BY <1>1 DEF Inv, StoreInv, Staged
    <2>2. ({book, shared, acked, stored, dir.current, dir.backup} \cup tried) \ {None} \subseteq Kept
      BY <2>1, KeptNow DEF Files
    <2>3. \A b \in ({book, shared, acked, stored, dir.current, dir.backup} \cup tried) \ {None} :
             IsBook(b)
      BY <1>1, <2>2 DEF KeptInv, BooksSound
    <2>4. {queue.active, queue.pending} \subseteq SubscriptionSets \cup {None}
      BY <1>1 DEF KeptInv, Claimed, Queues
    <2>5. queue.pending # None => queue.inFlight \/ worker.at \in {"waiting", "woken", "stopped"}
      BY <1>1 DEF KeptInv, Claimed
    <2> QED BY <2>1, <2>3, <2>4, <2>5, ZenonT(60) DEF SourcesConfigured
  <1> QED BY <1>1, BookInvariant, KeptInvariant, PTL
=============================================================================
