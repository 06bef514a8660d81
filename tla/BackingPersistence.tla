------------------------- MODULE BackingPersistence -------------------------
(***************************************************************************)
(* The FoundationDB backend of Effect's BackingPersistence, one named      *)
(* store: src/persistence/backing-persistence.ts.                          *)
(*                                                                         *)
(* An entry is a manifest [identity, expires] under its key; the value is  *)
(* stored in chunks under the identity.  A batch that fits one transaction *)
(* is published directly; a larger one first stages its chunks, behind a   *)
(* garbage marker, in several transactions that check the epoch of the     *)
(* store.  Values that are replaced, or whose publication never comes, are *)
(* collected through the garbage index.                                    *)
(*                                                                         *)
(* Transactions are strictly serializable: a body is applied in one step.  *)
(* A commit may be applied and answer commit_unknown_result; the runner    *)
(* then executes the body again, unless retryOnMaybeCommitted is false.    *)
(***************************************************************************)
EXTENDS Integers, Sequences, FiniteSets

CONSTANTS
  Key,               \* keys of the store
  Client,            \* callers of set, setMany and clear
  Staging,           \* clients whose batches exceed transactionByteBudget
  Retrying,          \* clients whose retryOnMaybeCommitted is not false
  None,              \* undefined, null
  Ttls,              \* times to live, None for an entry that never expires
  GarbageDelay,      \* stagingGarbageDelay, 24 hours in the code
  ChunkCount,        \* chunks of a value
  CleanupBatchSize,  \* cleanupBatchSize, 100 in the code
  MaxIdentity,       \* bound: identities ever prepared
  MaxEpoch,          \* bound: epochs told apart
  MaxTime            \* bound: last value of the wall clock

ASSUME PersistenceAssumption ==
  /\ IsFiniteSet(Key)
  /\ Staging \subseteq Client /\ Retrying \subseteq Client
  /\ Ttls \subseteq Nat \cup {None}
  /\ GarbageDelay \in Nat
  /\ ChunkCount \in Nat \ {0} /\ CleanupBatchSize \in Nat \ {0}
  /\ MaxIdentity \in Nat /\ MaxEpoch \in Nat /\ MaxTime \in Nat

VARIABLES
  store,  \* the rows of the store
  work,   \* work[c]: progress of the call of client c
  clock,  \* wall clock
  born    \* history: when each identity was prepared

vars == <<store, work, clock, born>>

Identity == 1 .. MaxIdentity
Chunk == 1 .. ChunkCount
Epoch == 0 .. MaxEpoch

Manifest == [identity : Identity, expires : Nat \cup {None}]

\* undefined is none of the values it stands beside.
ASSUME NoneAssumption == None \notin Int \cup Manifest

Store ==
  [entries : [Key -> Manifest \cup {None}],
   values  : [Identity -> SUBSET Chunk],
   expires : SUBSET [at : Nat, key : Key, identity : Identity],
   garbage : SUBSET [at : Nat, identity : Identity],
   epoch   : Epoch]

Phases == {"idle", "preparing", "staging", "publishing", "clearing"}

\* keys: the batch, in the order of latestEntries; entry n has the identity
\* first + n - 1.  Staging has committed `done` mutations; the transaction in
\* flight ends at mutation `upto`.
Work ==
  [phase : Phases, keys : Seq(Key), ttl : Nat \cup {None}, first : Nat,
   expires : Nat \cup {None}, garbageAt : Nat, done : Nat, upto : Nat,
   epoch : Epoch \cup {None}, replacedAt : Nat]

Idle == [phase |-> "idle", keys |-> <<>>, ttl |-> None, first |-> 0,
         expires |-> None, garbageAt |-> 0, done |-> 0, upto |-> 0,
         epoch |-> None, replacedAt |-> 0]

IdentityOf(w, n) == w.first + n - 1

-----------------------------------------------------------------------------
(* Transaction bodies                                                      *)

ClearValues(values, gone) == [i \in Identity |-> IF i \in gone THEN {} ELSE values[i]]

\* stagingMutations: for each entry its garbage marker, then its chunks.
MutationCount(w) == Len(w.keys) * (ChunkCount + 1)
\* Mutant: the marker is not counted among the mutations of an entry.
EntryAtLate(p) == p \div ChunkCount + 1
EntryAt(p) == (p - 1) \div (ChunkCount + 1) + 1
ChunkAt(p) == (p - 1) % (ChunkCount + 1)   \* 0 is the marker

\* Mutant: the chunks of an entry are staged before its marker.
StagedMarkerLast(db, w) ==
  LET batch == w.done + 1 .. w.upto
      at(p) == (ChunkAt(p) + 1) % (ChunkCount + 1)
  IN  [db EXCEPT
         !.garbage = @ \cup {[at |-> w.garbageAt, identity |-> IdentityOf(w, EntryAt(p))] :
                               p \in {q \in batch : at(q) = 0}},
         !.values = [i \in Identity |-> @[i] \cup
                       {at(p) : p \in {q \in batch : /\ at(q) # 0
                                                     /\ IdentityOf(w, EntryAt(q)) = i}}]]

Staged(db, w) ==
  LET batch == w.done + 1 .. w.upto
  IN  [db EXCEPT
         !.garbage = @ \cup {[at |-> w.garbageAt, identity |-> IdentityOf(w, EntryAt(p))] :
                               p \in {q \in batch : ChunkAt(q) = 0}},
         !.values = [i \in Identity |-> @[i] \cup
                       {ChunkAt(p) : p \in {q \in batch :
                                              /\ ChunkAt(q) # 0
                                              /\ IdentityOf(w, EntryAt(q)) = i}}]]

EpochChanged(db, w) == w.epoch # None /\ w.epoch # db.epoch

Marker(w, n) == [at |-> w.garbageAt, identity |-> IdentityOf(w, n)]

SameManifest(db, w, n) ==
  db.entries[w.keys[n]] = [identity |-> IdentityOf(w, n), expires |-> w.expires]

AlreadyPublished(db, w) == \A n \in DOMAIN w.keys : SameManifest(db, w, n)

\* Mutant: the publication does not look for its markers.
StaleUnchecked(db, w) == EpochChanged(db, w)

\* The staged chunks may be gone: the store was cleared, or the markers were.
Stale(db, w) ==
  \/ EpochChanged(db, w)
  \/ /\ w.epoch # None
     /\ ~AlreadyPublished(db, w)
     /\ \E n \in DOMAIN w.keys : Marker(w, n) \notin db.garbage

\* The entries of a batch, and what their keys held before it.
Written(w) == {w.keys[n] : n \in DOMAIN w.keys}
PlaceOf(w, k) == CHOOSE n \in DOMAIN w.keys : w.keys[n] = k
NewManifest(w, k) == [identity |-> IdentityOf(w, PlaceOf(w, k)), expires |-> w.expires]

\* Values that are no longer named once the batch is published.
Replaced(db, w) ==
  {[at |-> w.replacedAt, identity |-> db.entries[k].identity] :
     k \in {j \in Written(w) : /\ db.entries[j] # None
                               /\ db.entries[j].identity # NewManifest(w, j).identity}}

\* Mutant: a published entry keeps its staging marker.
MarkersKept(w) == {}

Markers(w) == IF w.epoch = None THEN {} ELSE {Marker(w, n) : n \in DOMAIN w.keys}

\* Mutant: the expiration rows of the replaced manifests stay.
ExpirationsKept(db, w) ==
  db.expires \cup
    (IF w.expires = None THEN {}
     ELSE {[at |-> w.expires, key |-> k, identity |-> NewManifest(w, k).identity] :
             k \in Written(w)})

\* An expiration row has the time and the key in its key and the identity in
\* its value.  Those of the old manifests are cleared, new ones are set.
Expirations(db, w) ==
  LET old(r) == \E k \in Written(w) :
                  r.key = k /\ db.entries[k] # None /\ r.at = db.entries[k].expires
      new(r) == r.key \in Written(w) /\ r.at = w.expires
  IN  {r \in db.expires : ~old(r) /\ ~new(r)} \cup
      (IF w.expires = None THEN {}
       ELSE {[at |-> w.expires, key |-> k, identity |-> NewManifest(w, k).identity] :
               k \in Written(w)})

WrittenValues(db, w) ==
  IF w.epoch # None THEN db.values
  ELSE [i \in Identity |-> IF \E n \in DOMAIN w.keys : IdentityOf(w, n) = i
                           THEN Chunk ELSE db.values[i]]

\* The body of publishEntries once it does not fail.
Published(db, w) ==
  IF w.epoch # None /\ AlreadyPublished(db, w)
  THEN [db EXCEPT !.garbage = @ \ Markers(w)]
  ELSE [db EXCEPT !.values = WrittenValues(db, w),
                  !.entries = [k \in Key |-> IF k \in Written(w) THEN NewManifest(w, k)
                                             ELSE @[k]],
                  !.expires = Expirations(db, w),
                  !.garbage = (@ \cup Replaced(db, w)) \ Markers(w)]

\* Mutant: off by one at the time of expiration.
ExpiredEarly(db, k, now) ==
  db.entries[k] # None /\ db.entries[k].expires # None /\ db.entries[k].expires <= now + 1

Expired(db, k, now) ==
  db.entries[k] # None /\ db.entries[k].expires # None /\ db.entries[k].expires <= now

\* The entries of `gone` removed with their expiration rows and their values.
Dropped(db, gone) ==
  [db EXCEPT
     !.entries = [k \in Key |-> IF k \in gone THEN None ELSE @[k]],
     !.expires = {r \in @ : ~\E k \in gone : r.key = k /\ r.at = db.entries[k].expires},
     !.values = ClearValues(@, {db.entries[k].identity : k \in gone})]

Removed(db, k) == IF db.entries[k] = None THEN db ELSE Dropped(db, {k})

Cleared(db, epoch) ==
  [entries |-> [k \in Key |-> None], values |-> [i \in Identity |-> {}],
   expires |-> {}, garbage |-> {}, epoch |-> epoch]

\* The batches a range read with a limit may return: the first due rows, in
\* the order of their times.
FirstRows(rows, now) ==
  LET due == {r \in rows : r.at <= now}
  IN  {batch \in SUBSET due :
         /\ Cardinality(batch) = IF Cardinality(due) < CleanupBatchSize
                                 THEN Cardinality(due) ELSE CleanupBatchSize
         /\ \A r \in batch, q \in due \ batch : r.at <= q.at}

\* cleanupBatch on the rows it read.
Cleaned(db, expired, garbage, now) ==
  LET gone == {r.key : r \in {q \in expired : /\ Expired(db, q.key, now)
                                             /\ db.entries[q.key].identity = q.identity}}
  IN  [db EXCEPT
         !.entries = [k \in Key |-> IF k \in gone THEN None ELSE @[k]],
         !.expires = @ \ expired,
         !.garbage = @ \ garbage,
         !.values = ClearValues(@, {db.entries[k].identity : k \in gone}
                                     \cup {r.identity : r \in garbage})]

-----------------------------------------------------------------------------
(* Calls                                                                   *)

Init ==
  /\ store = [entries |-> [k \in Key |-> None], values |-> [i \in Identity |-> {}],
              expires |-> {}, garbage |-> {}, epoch |-> 0]
  /\ work = [c \in Client |-> Idle]
  /\ clock = 0
  /\ born = <<>>

\* Batches of set and setMany: the keys are distinct (latestEntries).
Batches ==
  {keys \in UNION {[1 .. n -> Key] : n \in 1 .. Cardinality(Key)} :
     \A n, m \in DOMAIN keys : keys[n] = keys[m] => n = m}

WriteBegins(c) ==
  /\ work[c].phase = "idle"
  /\ \E keys \in Batches, ttl \in Ttls :
       work' = [work EXCEPT ![c] = [Idle EXCEPT !.phase = "preparing",
                                                !.keys = keys, !.ttl = ttl]]
  /\ UNCHANGED <<store, clock, born>>

ExpirationFor(ttl, now) == IF ttl = None THEN None ELSE now + ttl

\* prepareEntries: identities are drawn, times are read, and the size decides
\* between a direct and a staged publication.
Prepare(c) ==
  /\ work[c].phase = "preparing"
  /\ Len(born) + Len(work[c].keys) <= MaxIdentity
  /\ born' = born \o [n \in DOMAIN work[c].keys |-> clock]
  /\ \E upto \in 1 .. MutationCount(work[c]) :
       /\ c \notin Staging => upto = 1
       /\ work' = [work EXCEPT ![c] = [@ EXCEPT
            !.phase = IF c \in Staging THEN "staging" ELSE "publishing",
            !.first = Len(born) + 1,
            !.expires = ExpirationFor(work[c].ttl, clock),
            !.garbageAt = clock + GarbageDelay,
            !.done = 0,
            !.upto = upto,
            !.epoch = None,
            !.replacedAt = clock]]
  /\ UNCHANGED <<store, clock>>

\* StoreEpochChanged: writeEntries starts the batch again.
Again(w) == [Idle EXCEPT !.phase = "preparing", !.keys = w.keys, !.ttl = w.ttl]

\* A batch of mutations is committed; the first one observes the epoch, the
\* others check it.
Stage(c) ==
  /\ work[c].phase = "staging"
  /\ IF EpochChanged(store, work[c])
     THEN /\ work' = [work EXCEPT ![c] = Again(work[c])]
          /\ UNCHANGED store
     ELSE /\ store' = Staged(store, work[c])
          /\ IF work[c].upto = MutationCount(work[c])
             THEN work' = [work EXCEPT ![c].phase = "publishing",
                                       ![c].epoch = store.epoch,
                                       ![c].done = work[c].upto,
                                       ![c].replacedAt = clock]
             ELSE \E upto \in work[c].upto + 1 .. MutationCount(work[c]) :
                    work' = [work EXCEPT ![c].epoch = store.epoch,
                                         ![c].done = work[c].upto,
                                         ![c].upto = upto]
  /\ UNCHANGED <<clock, born>>

\* After an unknown result the runner executes the transaction again, or the
\* call fails.
Unknown(c) == work' = IF c \in Retrying THEN work ELSE [work EXCEPT ![c] = Idle]

StageUnknown(c) ==
  /\ work[c].phase = "staging"
  /\ ~EpochChanged(store, work[c])
  /\ store' = Staged(store, work[c])
  /\ Unknown(c)
  /\ UNCHANGED <<clock, born>>

Publish(c) ==
  /\ work[c].phase = "publishing"
  /\ IF Stale(store, work[c])
     THEN /\ work' = [work EXCEPT ![c] = Again(work[c])]
          /\ UNCHANGED store
     ELSE /\ store' = Published(store, work[c])
          /\ work' = [work EXCEPT ![c] = Idle]
  /\ UNCHANGED <<clock, born>>

PublishUnknown(c) ==
  /\ work[c].phase = "publishing"
  /\ ~Stale(store, work[c])
  /\ store' = Published(store, work[c])
  /\ Unknown(c)
  /\ UNCHANGED <<clock, born>>

\* clear draws the next epoch once, a random UUID: it is neither stored nor held
\* by any call.  A replay writes it again.
ClearBegins(c) ==
  /\ work[c].phase = "idle"
  /\ \E epoch \in Epoch \ ({store.epoch} \cup {work[d].epoch : d \in Client}) :
       /\ work' = [work EXCEPT ![c] = [Idle EXCEPT !.phase = "clearing", !.epoch = epoch]]
  /\ UNCHANGED <<store, clock, born>>

Clear(c) ==
  /\ work[c].phase = "clearing"
  /\ store' = Cleared(store, work[c].epoch)
  /\ work' = [work EXCEPT ![c] = Idle]
  /\ UNCHANGED <<clock, born>>

ClearUnknown(c) ==
  /\ work[c].phase = "clearing"
  /\ store' = Cleared(store, work[c].epoch)
  /\ Unknown(c)
  /\ UNCHANGED <<clock, born>>

\* The call is interrupted, its process crashes, or a transaction runs out of
\* time or retries; what was staged stays.
GiveUp(c) ==
  /\ work[c].phase # "idle"
  /\ work' = [work EXCEPT ![c] = Idle]
  /\ UNCHANGED <<store, clock, born>>

\* get and getMany remove the expired entries they meet.
Read(keys) ==
  /\ store' = Dropped(store, {k \in keys : Expired(store, k, clock)})
  /\ UNCHANGED <<work, clock, born>>

RemoveKey(k) ==
  /\ store' = Removed(store, k)
  /\ UNCHANGED <<work, clock, born>>

Cleanup ==
  /\ \E expired \in FirstRows(store.expires, clock),
        garbage \in FirstRows(store.garbage, clock) :
       store' = Cleaned(store, expired, garbage, clock)
  /\ UNCHANGED <<work, clock, born>>

Tick ==
  /\ clock < MaxTime
  /\ clock' = clock + 1
  /\ UNCHANGED <<store, work, born>>

ClientStep(c) ==
  \/ WriteBegins(c)
  \/ Prepare(c)
  \/ Stage(c)
  \/ StageUnknown(c)
  \/ Publish(c)
  \/ PublishUnknown(c)
  \/ ClearBegins(c)
  \/ Clear(c)
  \/ ClearUnknown(c)
  \/ GiveUp(c)

Next ==
  \/ \E c \in Client : ClientStep(c)
  \/ \E keys \in SUBSET Key : Read(keys)
  \/ \E k \in Key : RemoveKey(k)
  \/ Cleanup
  \/ Tick

Spec == Init /\ [][Next]_vars

-----------------------------------------------------------------------------
(* Properties                                                              *)

\* Every variable has its type.
TypeOK ==
  /\ store \in Store
  /\ \A c \in Client :
       /\ work[c].phase \in Phases /\ work[c].keys \in Seq(Key)
       /\ work[c].epoch \in Epoch \cup {None}
       /\ work[c].done <= work[c].upto
       /\ work[c].upto <= MutationCount(work[c])
  /\ clock \in Nat
  /\ Len(born) <= MaxIdentity

\* A manifest never stands before its value: whatever was cleared, collected,
\* replayed or abandoned, a reader that finds a manifest finds every chunk.
\* readStoredValue treats the contrary as an error, "Incomplete FoundationDB
\* persistence value" (backing-persistence.ts:316-319).
ManifestComplete ==
  \A k \in Key : store.entries[k] # None =>
    store.values[store.entries[k].identity] = Chunk

\* The garbage index names no value that is in use, so collecting it is safe
\* at any time (backing-persistence.ts:721-738 clears without a look at the
\* entries).
GarbageUnreferenced ==
  \A r \in store.garbage, k \in Key :
    store.entries[k] # None => store.entries[k].identity # r.identity

\* The expiration index is exactly the expirations of the manifests: an entry
\* that is not in it would stay for ever, a stale row would cost a scan.
ExpirationIndexExact ==
  store.expires =
    {[at |-> store.entries[k].expires, key |-> k, identity |-> store.entries[k].identity] :
       k \in {j \in Key : store.entries[j] # None /\ store.entries[j].expires # None}}

\* No value is lost to the collector: chunks belong to a manifest or to a row
\* of the garbage index, unless their staging outlived the marker's delay.
NothingLeaks ==
  \A i \in Identity : store.values[i] # {} =>
    \/ \E k \in Key : store.entries[k] # None /\ store.entries[k].identity = i
    \/ \E r \in store.garbage : r.identity = i
    \/ born[i] + GarbageDelay <= clock

\* Cleanup and reads remove nothing but what expired: an entry whose time has
\* not come leaves only by a remove, a clear or another write of its key.
LiveEntriesStay ==
  [][\A k \in Key :
       store.entries[k] # None /\ store'.entries[k] = None =>
         \/ store.entries[k].expires # None /\ store.entries[k].expires <= clock
         \/ store' = Removed(store, k)
         \/ \E c \in Client : work[c].phase = "clearing" /\ store' = Cleared(store, work[c].epoch)]_vars
=============================================================================
