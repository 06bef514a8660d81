# Specifications of foundationdb-effect

TLA+ models of `foundationdb-effect`, the FoundationDB backends of Effect
services: what the code does step by step, model-checked with TLC on small
instances, and theorems about it checked by TLAPS for every value of the
constants. Paths are relative to the repository; `mod.ts:47` names a line.

## 1. The system

The library runs Effect programs in FoundationDB transactions and builds
durable services on top.

| Component | Source | State | Operations |
|---|---|---|---|
| Transaction runner | `src/FoundationDb.ts` | per call: attempt number, `maybeCommitted`, futures of the attempt | `withTransaction`: body, commit, `on_error`, retry or failure |
| Native bridge | `src/lib.rs` | one per process: lifecycle with its owners, task table, executor thread; per handle: active, taken, failed | init, shutdown, open and close of handles, requests, cancel, take |
| FFI driver | `src/internal/ffi.ts` | per scope: `pending` requests, `closing`, the callback | `asyncResult`, interruption, drain, release |
| Directory | `src/directory/engine.ts` | a node tree per layer; partitions are nested layers | create, open, list, move, remove |
| Directory allocator | `src/directory/allocator.ts` | window counters, recent candidates | allocate a prefix |
| Tuple and subspace | `src/tuple/*` | none | order-preserving encoding |
| Persisted queue | `src/persisted-queue/*` | entries, ids, claims, four time-ordered indexes, a wake-up row | offer, take (claim, refresh, settle), cleanup |
| Backing persistence | `src/persistence/backing-persistence.ts` | manifests, chunks, expirations, garbage, epoch | set, setMany, get, getMany, remove, clear, cleanup |
| Rate limiter | `src/persistence/rate-limiter.ts` | windows, buckets | consume |
| Key-value store | `src/persistence/key-value-store.ts` | values, a size counter | get, set, modify, remove, clear, size |
| Message storage | `src/cluster/message-storage.ts`, `message-readiness.ts` | messages, request states, replies, ready and scheduled indexes | saveEnvelope, saveReply, clearReplies, unprocessedMessages, resets, clearAddress |
| Message order | `src/cluster/message-order.ts` | versionstamp of each message, pending ones of an attempt | insert, move in and out of the ready index, ordered visit |
| Runner storage | `src/cluster/runner-storage.ts` | registrations, shard leases | register, unregister, health, acquire, refresh, release |
| Event log | `src/eventlog/*` | journals, sequences, remotes | write, publish, read, synchronize |

How they interact: every service above the runner calls `withTransaction` and
keeps its state in subspaces of a directory; the runner calls the native bridge
through the driver, which answers by callbacks;
services of different processes meet only in the database, apart from the
queue, which also opens a process-local latch. Drivers of one process, in
different isolates too, share the bridge: its network thread, its executor and
its table of requests.

What is hard in each of them:

- **Ambiguous commits.** A commit can be applied and answer
  `commit_unknown_result`. The runner then executes the body again unless
  `retryOnMaybeCommitted` is false (`README.md:121-126`), so bodies must be
  idempotent or refuse. Every model here lets each commit answer that.
- **Time read outside.** The clock is read before a transaction or before its
  retries; what it decides may be stale at the commit.
- **Leases.** Queue claims, mailbox claims and shard leases expire under owners
  that are still working.
- **Crashes between transactions.** Takes, staged writes and calls stop
  anywhere; what they leave must be found again.
- **Interruption.** A fibre can be interrupted while a commit is in flight;
  the commit may be applied afterwards.
- **Derived rows.** Indexes are maintained by many operations and read by one.
- **Two threads and an event loop.** A native thread completes requests and
  enters a callback of the event loop, which may be releasing that callback.
- **Snapshot reads.** The directory layer gives up conflicts on purpose; what it
  reads so may change before the commit.

`PROJECT.json` lists the hazards with their lines and the properties that would
catch them going wrong, and every component with what is left out.

## 2. The abstraction

FoundationDB transactions are strictly serializable. A transaction body is an
operator from rows to rows, applied in the step that commits; the steps before
it choose what the body captured earlier (the clock, the claim identifier, a
cutoff), so a commit may use an old value. A commit that answers
`commit_unknown_result` is a step that applies the body and does not advance
the caller, who then runs it again. `TransactionRunner` models the loop that
justifies this, and `RunnerStorage` goes one level lower and models attempts
with what they read and the conflicts that abort them, because its properties
are about exactly that; so do `DirectoryAllocator`, which turns off most
conflicts, and `DirectoryLayer`, which walks a tree with some reads that conflict
and some that do not.

Names, payloads, JSON and key encodings are abstract. Times are small naturals.
History variables (`delivered`, `born`, `applied`) record what happened for the
properties and influence nothing.

## 3. Modules

| Module | Models |
|---|---|
| `PersistedQueue` | `repository.ts` transactions, `mod.ts` take loop |
| `AtLeastOnceQueue` | what a queue promises, element by element |
| `MCPersistedQueue` | symmetry, and the refinement mapping to `AtLeastOnceQueue` |
| `PersistedQueueProofs` | theorems about `PersistedQueue`: types, indexes, fencing; attempts, leases, settlement, wake-ups; that it implements `AtLeastOnceQueue` |
| `BackingPersistence`, `MCBackingPersistence` | `backing-persistence.ts` |
| `BackingPersistenceProofs` | theorems about `BackingPersistence` |
| `TransactionRunner` | `withTransactionResult`, handle states, `drain` |
| `TransactionRunnerProofs` | theorems about `TransactionRunner` |
| `RunnerStorage`, `MCRunnerStorage` | `runner-storage.ts` |
| `RunnerStorageProofs` | theorems about `RunnerStorage` |
| `MessageStorage`, `MCMessageStorage` | `message-storage.ts`, `message-readiness.ts` |
| `MessageStorageProofs` | theorems about `MessageStorage` |
| `DirectoryAllocator`, `MCDirectoryAllocator` | `directory/allocator.ts` |
| `DirectoryAllocatorProofs` | theorems about `DirectoryAllocator` |
| `NativeBridge`, `MCNativeBridge` | `ffi.ts` with the lifecycle, tasks and executor of `lib.rs` |
| `NativeBridgeProofs` | theorems about `NativeBridge` |
| `DirectoryLayer` | `directory/engine.ts` |
| `KeyValueStore`, `MCKeyValueStore` | `persistence/key-value-store.ts`, composed with `DirectoryLayer` |
| `KeyValueStoreProofs` | theorems about `KeyValueStore` and its `DirectoryLayer` |

Operators named with the comment "Mutant:" are faulty variants of the operator
after them. Nothing uses them; they document, with `PROJECT.json` "mutants",
which mistake in the code each property would detect.

### PersistedQueue

`store` is `QueueKeys`: `entries`, `ids`, `claims`, `counter`, the four indexes
as sets of `<<time, sequence>>`, and `watching`, the takes whose watch on the
signal row is armed. `call[t]` is the take with claim identifier `t`:
idle, looking, claiming, waiting, holding, settling, or abandoned (interrupted
with its commit in flight). `ClaimBody` is the transaction of `claim`: answer
an existing claim, recover lapsed locks, walk the due rows of `pending`, claim
one, or arm the watch. `Refreshed`, `Settled`, `Offered` and `Cleaned` are the
other bodies. Actions follow the loop of `take` and its exits: a claim commits
(`ClaimCommits`), is applied with an unknown result (`ClaimUnknown`), is
abandoned and lands later (`TakeAborts`, `AbandonedLands`); a holder refreshes,
settles, or dies.

Two runs share the module. `queue` (two takes, two identifiers, two attempts, an
index batch of one, clock 0..2, so that locks lapse, elements are retried, one
batch does not hold all due rows, and one identifier is offered again after
cleanup) checks that

- `IndexesConsistent`: rows, claims and ids are exactly what the entries say;
- `NoLostWakeup`: a watch that has not fired has no row its scan could have seen;
- `HoldsOnlyItsElement`: retries of a claim never take a second element;
- `QueuedHasAttemptsLeft`: attempts read at the claim still decide correctly
  when the element is settled;
- `OwnershipRespected`, `SettledIsFinal`: stale takes, late refreshes and
  replayed settlements change nothing of another take or of a settled element;
- `ImplementsPromise`: all this implements `AtLeastOnceQueue`.

`queue_live` adds fairness and checks `WaitingTakeFindsWork`: a waiting take
never sleeps beside work for ever. Assumed fair: a take that looks or claims
goes on (its fibre is scheduled and its transactions end), and a waiting take
wakes (`mod.ts:78` races the watch with `sleep(pollInterval)`). Nothing is
assumed of crashes, interruption, offers or other holders.

`queue_interrupt` is finding 1 below.

### BackingPersistence

`store` holds `entries` (key to manifest), `values` (identity to chunks), the
`expires` and `garbage` indexes, and `epoch`. `work[c]` is a call in progress:
preparing, staging (with how many mutations are committed and where the
transaction in flight ends), publishing, clearing. Clients in `Staging` write
batches beyond the byte budget; clients in `Retrying` use the default policy.
Publication and staging read the epoch and their garbage markers and start
again when these are gone (`StoreEpochChanged`).

`persistence` (two keys, a staging and a direct client, two chunks, three
identities, two epochs, clock 0..1, cleanup batches of one) checks
`ManifestComplete` (a published value has all its chunks),
`GarbageUnreferenced` (the garbage index names no published value),
`ExpirationIndexExact`, `NothingLeaks` (chunks of abandoned writes are listed as
garbage until the marker's delay passed) and `LiveEntriesStay` (only expiry, a
remove, a clear or another write ends an entry). In it only staging clients
replay; the replay of a direct publication is finding 2, run
`persistence_replay`. `NothingLeaks` depends on there being one such client: the
replay of another's clear writes the same epoch again, and a staging that observed
that epoch between the two goes on without its markers (`NothingLost`, section 5,
has this as its premise). What it leaves is never published, so the other
properties do not depend on it.

### TransactionRunner

`run[c]` is the attempt a call is in, `native[c]` the state of its handle in
`lib.rs`, `commit[c]` what became of its last commit, `futures[c]` the attempts
with a live watch or versionstamp. All bodies read and write one key, so calls
conflict. Every step may fail: a read, the commit (conflict, terminal,
unknown), the conflicting ranges, `on_error`; the fibre may be interrupted and
the driver closed at any time, and a commit in flight may land after either.

`runner` (two calls, three attempts each, one refusing ambiguous replays, one
reporting conflicts) checks

- `AnswersHoldUnlessCancelled`: a value, an error with or without
  `maybeCommitted`, and `transaction.maybeCommitted` in a body are true of the
  database;
- `RefusedAtMostOnce`: `retryOnMaybeCommitted: false` means at most one application;
- `FuturesOfLiveAttempt`: failed attempts cancel their futures;
- `HandleInStep`: `on_error` and the conflicting ranges find the stored failure;
- `EveryCallEnds`, under fairness of the body, of the answers to a commit and of
  the failure handling. The native retry limit is what makes it true; closing
  strands nobody.

Deadlock is not checked: all calls may have ended. `runner_closing` is finding 3.

### RunnerStorage

An attempt (`call[a]`) holds the rows it read, the clock it read and what it
will write; a commit makes attempts that read one of its rows stale, and stale
attempts begin again. A call may be lost with its commit in flight and that
commit land later (`Lose`, `LostLands`); a runner may restart. `held[a][s]` is
until when runner `a` was told it owns shard `s`. What the runner calls and when
comes from Effect Cluster, not from this repository: it acquires shards it does
not hold, refreshes those it does, and stops working on a shard before it
releases it.

`runner_storage` (two runners, one shard, two machine ids, one lost commit at a
time, clock 0..2) checks `MachineIdsUnique`, `LeaseBacksOwner` (who believes it
owns a shard does, to the last instant), `LeaseRespected` (a lease changes hands
only when expired or given back) and `RegistrationLasts` (identifiers are kept,
and late heartbeats revive nobody). Hosts share one clock: leases are compared
with the local clock, and a skew shortens or lengthens them by as much.

### MessageStorage

`meta` is the metadata of each message, `ready` and `scheduled` the polling
indexes, `before` the enqueue order, `state` and `replied` the request states
and replies. `Poll` promotes due timers, picks the oldest eligible messages and
claims them; the other operations rewrite the metadata and index rows of what
they touch. A row stands for the by-shard and the by-address row, which are
always written together. The scope of a poll or reset is any set of addresses,
which covers both selectors.

`message_storage` (a delayed request with a chunk and an exit, two
acknowledgements of that chunk, an interrupt on another shard of the entity, and
a second request under the same primary key; polls of at most two; clock 0..2
with claims of one) checks `IndexesMatchMeta` and `PollsHandOutWaiting`: a poll
answers exactly the oldest messages that wait, where waiting is defined from the
stored replies and acknowledgements and not from the flags the code keeps.
`TypeOK` includes that the count of unacknowledged chunks never goes below zero.
Each operation is one transaction here; several in one (`withTransaction`) are
left out (section 7).

### DirectoryAllocator

`db` holds the counters of the windows and the recent candidates. `txn[t]` is
an open transaction: the snapshot it reads, its uncommitted writes, its read and
write conflicts, the write conflicts committed since its read version, and
how often its calls returned each prefix. Snapshot reads leave no read
conflict, atomic operations and the two writes "without write conflict" leave
none that a reader of the allocator sees, so only equal candidates conflict.
`call[f]` is one `allocatePrefix`: `Locate` finds a window that is less than half
used, counting in each it passes and clearing what is older; `Seek` draws a
candidate and reads its row; `Claim` sets the row and returns, tries again, or
looks for a window again. The steps are split where the code waits for a read,
since several fibers may allocate in one transaction; the semaphore of
`allocator.ts:22-36` lets one of them in at a time. A call can be interrupted at
each of those reads, and its counts and rows remain in the transaction.

`allocator` (two fibers in one transaction and a third in the other, windows
0..2 and 3..7, counters up to two from interrupted searches) checks
`PrefixesUnique`; `RecentCoversWindow` (clears forget no row that can be drawn
again); `WindowHasRoom` (the loop at `allocator.ts:125` has a candidate to end
with, although rows are also set by calls that return nothing); and
`WindowsAdvance` (a transaction that read an older window does not bring it
back as the latest, whatever it commits late). The branch for a window that was
passed meanwhile (`currentStart > start`) is modelled and never taken: with the
semaphore the window a call found stays the latest of its transaction.

### NativeBridge

`lifecycle` and `release` are the process-wide `LIFECYCLE` and `OWNER_RELEASE`;
`driver[o]` is how far the scope of `ffiLayer` number `o` is: open, draining its
requests, waiting for `OWNER_RELEASE`, crossing the executor (`barrier`) or
stopping everything (`stopping`), released, closed. A request `r` has a fiber
(`fiber[r]`, waiting or interrupted), a kind (`call[r]`: a read, a commit or an
`on_error`) and a native task (`future[r]`). When the task is done the executor's
only thread enters the callback of the driver (`calling`); the event loop runs it
(`Handle`), which queues a microtask; then the thread leaves (`Return`, dropping
the `ActiveTask`) and the microtask takes the result and settles the fiber
(`Deliver`), in either order. `slot[o]` is the `TransactionState` behind the one
handle a driver has here: `commit` and `on_error` take it out and a failure puts
it back. Request ids are counted per isolate but looked up in a table of the
process, so that requests of two drivers may collide (`Registers`, `WithId`):
such a request is refused, and `async_cancel` by id reaches whatever has the id.

`native_bridge` (three drivers; o1 and o2 count their request ids from one, o3
asks for another API version; two requests of o1, one of o2) checks

- `HandlesOutliveFutures`: a fiber that left its request, by an answer or by
  interruption, left no running future, so the scope around it closes the handle
  safely; the interruption waits for the settlement (`ffi.ts:492-498`);
- `TransactionHeldOnce`: a transaction is in its slot or with one commit or
  `on_error`, so nobody uses the transaction of a commit in flight;
- `ReleasedCleanly`: the callback and the library of a driver are closed when no
  thread is in the callback or on its way to it, and no fiber waits for it.
  Draining is not enough: the last settled request may have left the thread in
  the callback, which is why a shared release crosses the executor;
- `NetworkRunsForOwners`: the count of owners is exact and the network runs while
  a driver holds it and outlives every future, whatever releases overlap;
- `ReleaseEnds`: a driver being released is closed at last, and an interrupted
  fiber ends, whether the network answers or not.

Fairness: the executor's thread handles cancellations and returns, the event
loop runs callbacks and microtasks, and the threads of nonblocking calls run.
None for the completion of an operation (the network may never answer), for
releases or for interruptions. The mutant of `LoopFree` shows why the shutdown
has to be nonblocking (`ffi.ts:20`): held by it, the event loop could not answer
the thread that the shutdown waits for. Deadlock is not checked since everything
ends once the drivers are closed. `CloseTransaction` waits for the requests of
its handle: `FoundationDb.ts` closes handles in a scope around the fibers that
use them.

### DirectoryLayer and KeyValueStore

`rows` is the database and `txn[c]` the transaction of a client that has run its
operation and not committed. Operations are operators on a transaction (its
view, read conflicts and mutations), composed as the code composes its effects:
`CreateOrOpen` finds the node, descends into partitions, creates parents, has a
prefix chosen (`ChoosePrefix`) and checked (`IsPrefixFree`, which for an
allocated prefix reads a snapshot and so leaves no conflict); `RemoveIn` walks
the subtree and clears content and metadata; `MoveIn` links the node at its new
place and unlinks it at the old. These operations call themselves for a parent or
inside a partition, each time with a shorter path; paths have two names at most
(`DirectoryAssumption`), so the call is nested once (`CreateOrOpenName`, `RemoveName`,
`MoveName`) instead of being recursive. `RemoveRecursive` is the set of nodes the walk
of the code meets, the least one that holds the top and the children of its nodes. A layer is named by the prefix of its partition.
Prefixes are sequences of tuple elements, which keeps the relations the code uses,
"starts with" and the order of keys. A manual prefix is any but an empty one and one
that runs into the node subspace of a layer (an element 0). The code refuses the empty
one, those in the node subspace of the root layer, and those of a partition as long as
it lives, since they lie inside its prefix. `Commit` applies the mutations and dooms the
open transactions that read one of the rows written. The allocator is abstract
here: it hands out any number that no other transaction holds (`Numbers`), as
`DirectoryAllocator` shows; which one of those left is up to `draw`, a function of
the constant `Draws`. Two allocations in one window that would conflict are two that
succeed. Names are numbers in the order of their encoding, since the lookup of a
manual prefix reads backwards to the last row before it and conflicts from that row
on only (`LastRows`, `LookupReads`).

`KeyValueStore` adds the store: each operation creates or opens its directory and
then reads the presence of the entry, writes it and adds to the size, without
reading that.

`directory_store` (two clients; directories /a, /b, /a/b, /b/a; partitions with
allocated prefixes; plain directories made by hand, and with allocated prefixes by
the store and as parents; the manual prefixes `<<2>>`, which is the one that the
allocator hands out second, and `<<2, 1>>`, which lies inside it; two allocations per
layer; a store at /a/b with one key) checks, over the steps of `MCSpec`,

- `TreeOK`: live nodes are those reached from the root, each by one path; no row
  remains of a removed node; nested layers exist in live partitions only. This is
  what concurrent moves (a cycle), or a creation below a directory being removed,
  would break;
- `RowsOwned`: no row of the store outlives its directory;
- `SizeExact`: the size is the number of entries, also in a directory that was
  moved or removed and created again;
- `NewPrefixesFree`: a directory never gets a prefix that overlaps another of its
  layer, with two exceptions that the code makes. The lookup for an allocated prefix
  is a snapshot read, so a manual directory created meanwhile is not seen. And the
  lookup for a prefix given by hand compares only the last node before it: where
  such an overlap already exists, with `<<2, 1>>` below `<<2>>`, a `<<2, 2>>` finds
  `<<2, 1>>` and is accepted inside `<<2>>`. The run lacks `<<2, 2>>`, so only the
  first happens there; with it TLC reaches the second.

`MCSpec` leaves out one step of the code. Where the first exception is an equality,
one client allocates a prefix, another gives the same to a directory by hand and
commits before it, and neither reads what the other writes
(`engine.ts:662-664,719,733-734`): two links then lead to one node. Any manual prefix
is accepted, and the model has that step: a transaction that waits to do it is
`Doubled`, and under `Spec` TLC finds that its commit violates `TreeOK`. No document
of the repository speaks about it, so it is no finding; what the properties say is
said of the behaviours in which no such transaction commits (`NoneTwice`, as a temporal
formula `PrefixesGivenOnce`). Those that wait, and everything else they race with,
remain.
Deadlock is not checked: a client may find nothing left to do.

## 4. Findings

1. **An interrupted take consumes an attempt** (`queue_interrupt`,
   `FailedWasDelivered`). `README.md:411` says interruptions release a claim
   without consuming an attempt, and `README.md:423` that delivery is at least
   once. A take interrupted after its claim was committed and before its answer
   arrived has registered no release; the lock lapses, recovery keeps the
   attempt, and with enough of them an element fails that no handler ever saw.
2. **A replayed direct publication publishes garbage** (`persistence_replay`,
   `ManifestComplete`). Applied, answered `commit_unknown_result`, overwritten by
   another client, replayed: the identity is published again while its garbage
   row stays, and cleanup removes the chunks. `get` then fails with "Incomplete
   FoundationDB persistence value" (`backing-persistence.ts:316-319`).
3. **Closing the driver hides an ambiguous commit** (`runner_closing`,
   `AnswersHold`). `drain` cancels a commit in flight and the call fails with
   `maybeCommitted` false though the commit may be applied.

## 5. What is proved

TLAPS proves, for any constants that satisfy the ASSUMEs of the modules:

`PersistedQueueProofs`: `TypeCorrect`, `IndexesStayConsistent`,
`TakesAreFenced`. The inductive invariant is
`IInv == TypeOK /\ IndexesConsistent /\ Fenced`. `TypeOK` alone is not
inductive, because a claim dereferences the entry a row names; nor is
`HoldsOnlyItsElement`, because a replayed or abandoned claim could take a second
element if the claims rows were wrong. `Fenced` says that the claims row of a
take at work is gone or names its element; with the claims rows being exactly
the ownerships, it owns no other. The
argument has one lemma per transaction body (`OfferedConsistent`,
`RecoveredConsistent`, `PassedConsistent`, `ClaimedConsistent`,
`RefreshedConsistent`, `SettledConsistent`, `CleanedConsistent`), each showing
that the body maps a consistent store to a consistent store. They reason row by
row (`RowByRow`, equivalent to the set equalities by `RowsPointwise`). That the
first due row exists (`FirstRow`) is by well-founded induction on numbers.

In the same module, about its steps: `AttemptsInvariance`, `QueuedCanBeTaken`, `LeasesLast`, `SettledStays`,
`WatchesFire`, `Implements`. What a take decides before its transaction rests on what
it read in an earlier one, so `QueuedHasAttemptsLeft` is not inductive even with
`IInv`. `AInv` adds that attempts in the store are bounded, that a take counts those
of the element it owns (`AttemptsAgree`), and that no clock read is ahead (`Timely`).
`StepChanges` lists, once for all the properties, what a step may make of an entry
(`Change`); in particular one take at most gets an entry it did not have, and
`ChangeCases` adds what the invariant knows. `WatchesFire` rests on `Quiet`: a
transaction adds a row to the pending index only when it fires every watch, since
the rows a claim moves go where their entries already say they are. `Implements` is
the refinement that `ImplementsPromise` states. The mapping takes an element to the
state, attempts and owner of the entry its identifier leads to. `ElementStep` shows
that each `Change` is a step or a stutter of the promise, and that an element comes
to an owner only by the one take that claims; that an owner has one element follows
from the claims rows (`OwnerOf`).

`TransactionRunnerProofs`: `TypeCorrect`, `AnswersAreTrue`,
`RefusedCallsApplyOnce`, `FuturesAreCancelled`, `HandlesStayInStep`. The
invariant relates, for each call, its phase, its handle, its last commit,
`maybe` and the attempts applied: an application nobody knows about has
`maybe` set or its commit still unanswered. The steps are argued per call;
`OthersKeep` says that a step of one call leaves the invariant of the others.

`DirectoryAllocatorProofs`: `TypeCorrect`, `PrefixesAreUnique`,
`NothingForgotten`, `WindowsOnlyAdvance`, `RoomRemains`, for any number of transactions, fibers
and windows of any sizes. `PrefixesUnique` is not inductive: a transaction may
already hold a prefix the database has given to another. The invariant `IInv`
adds, for each open transaction (`Sound`), that it puts a counter in place of
what it clears (`Anchored`), that prefixes given are behind its snapshot's window,
have their rows in it, or were claimed since (`SnapshotCovers`), and that what its
calls returned is covered by its conflicts and is new unless the commit is bound to
conflict (`GotFresh`); and, for the fibers, that one at a time is at work in a
transaction and what it read is still so (`Fibers`). That the latest window
exists (`GreatestStart`) is by well-founded induction. `RoomRemains` counts: calls
that are interrupted leave rows without a result, so that a window has room must
follow from its counter. `RInv` adds that the rows set in the latest window and
beyond are at most its counter (`RowsCounted`); that a transaction has counted every
row it set and did not find, and the one its call is about to set (`OwnCounted`);
that rows of its snapshot are there until their window is left (`SnapshotKept`); and
that the window a call chose is the latest and less than half used (`HalfUsed`). What
remains is cardinality: the rows the call can find set are at most those counted, less
than half the window. Windows do not overlap (`StartsApart`).

`NativeBridgeProofs`: `TypeCorrect`, `FuturesBounded`, `HeldOnce`, `ReleaseClean`,
`NetworkHeld`, for any number of drivers (finitely many) and requests. None of the
properties is inductive. `IInv` adds `FibersInStep` (a fiber waits exactly while
its request is listed), `DriversInStep` (requests are listed only until their
driver is drained, and a thread still in the callback keeps the driver from being
released), `SlotsInStep`, and `OwnersInStep`: the driver that crosses the executor
or stops holds `OWNER_RELEASE`, one that crosses leaves at least one other behind,
and one that stops is the only one left. The last is by cardinality: with one owner
counted, `Holding` is a singleton.

`RunnerStorageProofs`: `TypeCorrect`, `IdentifiersUnique`, `LeasesBack`,
`LeasesRespected`, `RegistrationsLast`, for any runners, shards and machine
identifiers, any expiration, and lost commits of any number of runners. Neither uniqueness nor
the backing of leases is inductive: an attempt may already hold an identifier or a
row that another commit has taken. `IInv` adds that every attempt that is not stale,
waited for or lost, is `Sound`: the identifier it will write is its caller's own, or
free with every registration among its reads (`IdentifierSound`); the leases it will
write are its caller's, or had expired at the time it read, and none of them outlasts
what it will write (`RowSound`); and a runner that gives a shard back has stopped
working on it (`Asks`). `OthersSound` says that a commit leaves sound what read none
of its writes, and `ConflictsKeep` that nothing else stays unstale; `QuietKeeps` and
`LandsKeeps` then cover the steps without and with a commit.

`MessageStorageProofs`: `TypeCorrect`, `IndexesMatch`, `PollsAnswerWaiting`, for any
messages, replies, delays, scopes and limits. None is inductive. `IInv` adds, to the
types, that a message is in exactly the index its polling state names, under its time
(`RowsMatch`); that any two stored messages are ordered (`OrderTotal`); that a primary
key leads to the stored message that has it (`KeysOwned`); that the state of a request
has its exit and counts its chunks without acknowledgement (`RepliesMatch`, which is
why the count stays above zero when a chunk is acknowledged twice); that a message is
processed exactly if its request has an exit (`ProcessedMatch`); that the state names
the last acknowledgement stored (`LatestMatch`); and that a polling state is the one
the metadata and the request's state give, or `Ready` after a promotion
(`PollingMatch`). Every operation is a sequence of the same three changes of messages,
and each has a lemma about the rows after it: messages move to another polling state
(`MovedTo`), their metadata are written again (`RewrittenTo`), or they go
(`RemovedTo`). For the answer of a poll, `BlockedIsNotWaiting`, `EligibleIsWaiting`
and `WaitingIsDue` show that the flags the code keeps agree with waiting as defined by
replies and acknowledgements, promoted timers included. `EntityAssumption` is used by
`clearAddress` only.

`BackingPersistenceProofs`: `TypeCorrect`, `IndexExact` and `LiveStays` for any keys,
clients, chunks, batch and cleanup sizes and any replays; `GarbageUnused` and
`ValuesComplete` under `NoDirectReplay`, that is, when only staged publications are
executed twice (finding 2 is what happens otherwise). The first three rest on `TInv`:
types, the counters of each call, and the index row by row. The other two need `GInv`,
which adds that an identity is in one entry or one garbage row (`Sound`), that
identities in use have been drawn (`Known`) and those of two calls are disjoint, and,
for each call, what it may rely on although collectors and clears run between its
transactions: while any row of the garbage index names an identity that is being
staged, the chunks staged before are there (`StagingSound`), and so is the whole value
once it is to be published (`PublishingSound`). This is why a publication that finds
its markers finds its chunks. That a marker precedes its chunks in the sequence of
mutations is arithmetic on positions (`Positions`, `PositionOf`). `KeepsOthers` says
what a transaction may do to identities that are not its own; each body has a lemma
that it keeps `Sound` and `KeepsOthers`, and `OthersSound` does the rest.
`NothingLost` proves `NothingLeaks` from `NoClearReplay`, that no clear is executed
twice; of writes and their replays nothing is assumed. Without the premise TLC finds
the chunks left behind when two clients retry. The invariant `LInv` adds to `TInv`
that calls write under identities of their own (`Apart`), that a batch has distinct
keys and its markers the time of its identities (`Batched`), that the epoch a clear
will write is neither stored nor held by another call (`EpochFresh`; the code draws a
UUID), and that while the epoch of a call that stages stands, so do the markers of
what it committed, unless their delay is over (`MarkersStand`). For the store,
`KeepsReach` says that a transaction keeps no chunk without what leads to it; each
body has a lemma that it does, except a staging, whose chunks are reached through
markers of earlier transactions (`MarkerBefore`, `StagedOwned`).

`KeyValueStoreProofs`: `StaysSound`, `TreeStaysOK`, `RowsKeptByOwners`,
`SizeStaysExact`, `NewPrefixesStayFree`, for any clients, names, manual prefixes,
numbers, draws and store keys, each from `Spec` and the premise `PrefixesGivenOnce`
of section 3: no commit gives a prefix to a second directory. A
transaction is evaluated on the rows at its read version and applied to those at its
commit, so the properties are not inductive. `IInv` says of the rows that every link
leads to a live node of its layer and no two to the same (`Linked`, `OneParent`), that
content lies below live nodes (`Owned`) and that sizes count the entries (`Sized`); and
of each open transaction that no other conflicts with what only it may write
(`Exclusive`: numbers of an allocator) and that it is `Sound`, unless it is rejected or
`Doubled`: its mutations, read against the rows as they are now, create nodes that are
not there yet, link only nodes it creates or detaches elsewhere,
clear the layer row of a node only with its content and its link, write content only
below a node that lives, and count what they write. The proof has two halves. That an
operation yields a sound transaction: `Building` is what creating makes of a
transaction, call by call and including the nested call; `Prepared` and `Ended` are
the same before and after a removal or a move; `Storing` follows the operations of the
store. A removal clears the least closed set of nodes (`NodesWalked`), which therefore
has no link left into it. That a commit keeps everything: whatever makes another
transaction sound is a row it read with a conflict range, so either the commit does
not write it or the other is rejected (`SoundKept`). One thing is not read so: that an
allocated prefix is still free. Two transactions hold no number together, and one that
gives the prefix by hand makes the other `Doubled`, which the premise keeps from
committing; where prefixes come from is `Drawn`, of the second invariant `CInv`, so the
two are proved together (`StaysSound`). And the rows after the commit are
in order (`AppliedLinks`, `AppliedOwned`, `AppliedSized`). `NoneAssumption` says only
that `None` is no prefix.

For `TreeOK` the invariant also has the shape of the tree. `Rooted`: a node without a
layer row has no links; `Nested`: a layer below the root has rows only while its
partition lives; `Reaching`: a set of nodes that holds the children of the root and
those of each of its nodes holds every live node, which is how the proofs say without
recursion that no node is cut off from the root. Of each open transaction it says that
it `Hangs`. `Nests`: it writes in a layer only if it read that its partition lives.
`Grafts`: a link it puts is in the root, or in a child of the root that it read or puts
itself, at a place it read as free; every new node comes with a link. `Uproots`: where
it clears a link, the node goes too or is linked elsewhere, it read and clears all
children of a node it removes, and removes the layer of a partition with it. A creation
hangs by `Building`, a removal because the walked set is closed, a move because its
target is free and it refuses to move a directory below itself. `HangsKept` carries this
over the commits of others, and `AppliedRooted`, `AppliedNested` and `AppliedReaching`
say what a commit makes of the rows. The last takes a closed set of the rows after the
commit, and adds to it every node that the commit removes: that set was closed before.

`CInv` says that every open transaction that no commit has rejected is `Chosen`, whence
`NewPrefixesFree` at the step that commits it. `Drawn`: a prefix it creates is one it
allocated, and it writes the row of that number, or one given by hand, whose layer row
it read. `Free`: a node it creates overlaps another of its layer only where that is
permitted. For an allocated prefix the other is among those made by hand since the
snapshot; for a manual one the other is either absent at a row the transaction read, or
hidden by a node of which it read a row, which lies inside the other and before the new
prefix. `LookedUp` derives this from what `isPrefixFree` looks up: the last row before
the prefix and the rows between, so that a node not looked up lies inside a directory
that hides it (`LastRow`, `BetweenInside`, `BeforeAntisymmetric`). `Allotted` follows the creations
of one call: before the last one a transaction created only what the allocator of one
layer gave it, so that they cannot overlap each other. `ChosenStands` carries the
invariant over the commits of others: a row that was read is as it was, and a new node
that overlaps an allocated prefix was made by hand, so it is counted as unseen.

The type invariants of `PersistedQueue`, `TransactionRunner`, `DirectoryAllocator`
and `NativeBridge` are left to these proofs and are not among the runs' invariants.

Only model-checked: liveness (`WaitingTakeFindsWork`, `EveryCallEnds`,
`ReleaseEnds`), which needs ENABLED. Every invariant and every action property of a
passing run is stated by a theorem, those of `directory_store` from the premise that
its run has too.

## 6. Bounds

The bounds are named in the modules and set in the `.cfg` files. `MaxTime`
(clocks of 0..1 or 0..2) leaves room for a claim, its expiry and what follows;
longer delays only add stuttering, since every comparison is between two times.
`MaxSeq`, `MaxIdentity` and `MaxEpoch` stop offers, writes and clears. Two
actors are the smallest number in which every interference listed under hazards
exists; a third can only repeat what the second does to the first. Batches of
one are the case in which an index does not fit a batch. `MaxLost` is one lost
commit at a time. `Starts`
lists the windows the allocator may enter (two, so that one is left),
`SmallWindow` and `LargeWindow` shrink 64 and 1024, `MaxCount` limits the counts
of interrupted searches, and `MaxGiven` the prefixes handed out before no
transaction begins, which is why that run does not check deadlock. `MaxNumber` is
how many prefixes an allocator of the directory layer hands out; a creation
beyond fails. The run has one draw, of the smallest number left, since nothing tells
numbers apart but the manual prefixes, which lie at the second and inside it; the
theorems have any draws. `Path` lists paths of at most two names, which suffice for a
parent, a child, and a move between two parents.
Symmetry is declared only over identifiers that the runs'
constants and properties do not tell apart, and not in runs with liveness.

Simplifications: one attempt limit for all takes; one time to live per batch of
a store; random identifiers are fresh when no row names them; the transaction
limit error of backing persistence and transaction timeouts (1031) are left out;
controls of a request are addressed to its entity (`EntityAssumption`), for
otherwise `clearAddress` leaves polling states behind that were computed from a
state it removes.

## 7. Not modelled, and what would come next

Not modelled:

- `MessageOrder`: several mailbox operations in one transaction
  (`withTransaction` of message storage), where a message waits for its
  versionstamp and the uncommitted tail is cleared and reissued
  (`message-order.ts:107-150`). It should implement the relation `before` of
  `MessageStorage`.
- Rate limiter: each operation is one transaction over the rows of one key that
  refuses ambiguous replays, so its concurrency is that of `TransactionRunner`; what
  remains is arithmetic on windows and tokens.
- Event log: sequence numbers, publication, and the journals of remote stores.
- Tuple and subspace encoding: pure functions on byte strings; their order
  preservation is assumed where a model orders keys.
- In the directory layer: two fibers that create directories in one transaction,
  handles of a partition used after its removal, versions written by other
  implementations, and damaged metadata. `open`, `exists` and `list` only read.
- In the key-value store: values, chunks, and the decoding of the size. An
  ambiguous commit that is replayed equals the operation done twice, which the
  model contains; `modify` refuses it (`key-value-store.ts:201`).
- In the bridge: buffers, results, range cursors and database handles; panics of
  a future, which complete it with an error.
- Examples: no part of the running system.

What is left to prove is liveness alone, out of this prover's reach. What the model
could still gain is listed above: the event log, and two fibers in one transaction of
the directory layer.

## 8. Running

```
tlc -workers 2 -config MCPersistedQueue.cfg MCPersistedQueue
tlapm PersistedQueueProofs.tla
```

| Run | States | Time |
|---|---|---|
| `queue` | 266,472 | 80 s |
| `queue_live` | 11,859 | 10 s |
| `persistence` | 1,374,372 | 110 s |
| `runner` | 210,167 | 35 s |
| `runner_storage` | 1,925,288 | 82 s |
| `message_storage` | 85,297 | 130 s |
| `allocator` | 1,645,187 | 100 s |
| `native_bridge` | 110,552 | 70 s |
| `directory_store` | 173,358 | 89 s |

The three `violation` runs stop within seconds at the behaviours of section 4.
