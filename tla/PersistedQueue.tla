--------------------------- MODULE PersistedQueue ---------------------------
(***************************************************************************)
(* The FoundationDB backend of Effect's PersistedQueue:                    *)
(* src/persisted-queue/repository.ts (the transactions) and                *)
(* src/persisted-queue/mod.ts (the take loop that drives them).            *)
(*                                                                         *)
(* One named queue is a record `store` of the subspaces it keeps in the    *)
(* database.  FoundationDB transactions are strictly serializable, so the  *)
(* body of each transaction is an operator from store to store, and the    *)
(* step that commits it applies that operator to the current store.  What  *)
(* serializability does not give the code is modelled explicitly:          *)
(*   - the clock is read before the transaction starts, so `now` may be    *)
(*     old when the transaction commits;                                   *)
(*   - a commit may be applied and still answer commit_unknown_result, in  *)
(*     which case the runner executes the same body again;                 *)
(*   - an interrupted take may leave a commit in flight.                   *)
(***************************************************************************)
EXTENDS Integers, FiniteSets

CONSTANTS
  Id,              \* element identifiers offered by producers
  Take,            \* claim identifiers: one crypto.randomUUID() per take call
  None,            \* null, undefined: no row, no owner, no time
  MaxAttempts,     \* takeOptions.maxAttempts
  LockExpiration,  \* options.lockExpiration
  TimeToLive,      \* cleanupOptions.timeToLive and failedTimeToLive
  RetryDelays,     \* the delays takeOptions.retryDelay may answer
  IndexBatchSize,  \* indexBatchSize, 100 in the code
  MaxSeq,          \* bound: sequences ever allocated
  MaxTime          \* bound: last value of the wall clock

ASSUME QueueAssumption ==
  /\ MaxAttempts \in Nat \ {0}
  /\ LockExpiration \in Nat \ {0}
  /\ TimeToLive \in Nat
  /\ RetryDelays \subseteq Nat
  /\ IndexBatchSize \in Nat \ {0}
  /\ MaxSeq \in Nat
  /\ MaxTime \in Nat
  /\ None \notin Id \cup Take \cup Int

VARIABLES
  store,      \* the queue's rows in FoundationDB
  call,       \* call[t]: progress of the take whose claim identifier is t
  clock,      \* wall clock
  delivered   \* history: sequences handed to a handler

vars == <<store, call, clock, delivered>>

Seqs == 0 .. MaxSeq - 1

States == {"pending", "processing", "completed", "failed"}

\* QueueEntryMetadata; a null acquiredAt or acquiredBy is None.
Entry == [id : Id, attempts : Nat, state : States, visibleAt : Nat,
          acquiredAt : Nat \cup {None}, acquiredBy : Take \cup {None},
          updatedAt : Nat]

NoEntry == None

\* null is none of the values it stands beside.
ASSUME NoneAssumption == None \notin Int \cup Id \cup Take \cup Entry

\* A row of a state index: its key is packed from a timestamp and a sequence,
\* its value is the sequence again.
Row == Nat \X Seqs

\* QueueKeys.  `watching` stands for the signal key: the takes whose watch was
\* armed on it by a committed transaction and has not fired since.
Store ==
  [entries   : [Seqs -> Entry \cup {NoEntry}],
   ids       : [Id -> Seqs \cup {None}],
   claims    : [Take -> Seqs \cup {None}],
   counter   : 0 .. MaxSeq,
   pending   : SUBSET Row,
   locks     : SUBSET Row,
   completed : SUBSET Row,
   failed    : SUBSET Row,
   watching  : SUBSET Take]

Phases == {"idle", "looking", "claiming", "abandoned", "waiting",
           "holding", "settling"}

Exits == {"success", "deadLetter", "interrupt", "failure"}

Call == [phase : Phases, now : Nat, seq : Seqs \cup {None}, attempts : Nat,
         exit : Exits \cup {None}, delay : Nat]

Idle == [phase |-> "idle", now |-> 0, seq |-> None, attempts |-> 0,
         exit |-> None, delay |-> 0]

-----------------------------------------------------------------------------
(* Reading an index                                                        *)

Earlier(r, q) == r[1] < q[1] \/ (r[1] = q[1] /\ r[2] < q[2])

\* Mutant: the end of the range is packed without the + 1n.
IndexBeforeExclusive(index, time) ==
  LET due == {r \in index : r[1] < time}
  IN  {r \in due : Cardinality({q \in due : Earlier(q, r)}) < IndexBatchSize}

\* The first IndexBatchSize rows of an index with a timestamp up to `time`.
IndexBefore(index, time) ==
  LET due == {r \in index : r[1] <= time}
  IN  {r \in due : Cardinality({q \in due : Earlier(q, r)}) < IndexBatchSize}

EntryIn(db, s, state) == db.entries[s] # NoEntry /\ db.entries[s].state = state

Owns(db, t, s) == EntryIn(db, s, "processing") /\ db.entries[s].acquiredBy = t

\* Mutant: finalizeClaim and refreshClaim trust the state alone.
HoldsAnybody(db, t, s) ==
  EntryIn(db, s, "processing") /\ db.entries[s].acquiredAt # None

\* The test that fences a take off an entry it no longer owns.
Holds(db, t, s) == Owns(db, t, s) /\ db.entries[s].acquiredAt # None

-----------------------------------------------------------------------------
(* Transaction bodies                                                      *)

NewEntry(i, now) ==
  [id |-> i, attempts |-> 0, state |-> "pending", visibleAt |-> now,
   acquiredAt |-> None, acquiredBy |-> None, updatedAt |-> now]

\* Mutant: no look-up of the identifier.
OfferedTwice(db, i, now) ==
  [db EXCEPT !.entries[db.counter] = NewEntry(i, now),
             !.ids[i] = db.counter,
             !.pending = @ \cup {<<now, db.counter>>},
             !.counter = @ + 1,
             !.watching = {}]

Offered(db, i, now) ==
  IF db.ids[i] # None
  THEN db
  ELSE [db EXCEPT !.entries[db.counter] = NewEntry(i, now),
                  !.ids[i] = db.counter,
                  !.pending = @ \cup {<<now, db.counter>>},
                  !.counter = @ + 1,
                  !.watching = {}]

\* Sequences whose expired lock row still describes their entry.
LapsedSeqs(db, now) ==
  {s \in Seqs :
     /\ \E r \in IndexBefore(db.locks, now - LockExpiration) : r[2] = s
     /\ EntryIn(db, s, "processing")
     /\ db.entries[s].acquiredAt # None
     /\ db.entries[s].acquiredAt <= now - LockExpiration}

Exhausted(db, s) == db.entries[s].attempts >= MaxAttempts

ReleasedEntry(e, now) ==
  IF e.attempts >= MaxAttempts
  THEN [e EXCEPT !.state = "failed", !.acquiredAt = None,
                 !.acquiredBy = None, !.updatedAt = now]
  ELSE [e EXCEPT !.state = "pending", !.visibleAt = now, !.acquiredAt = None,
                 !.acquiredBy = None, !.updatedAt = now]

\* First half of claim: expired locks are cleared, their entries released.
Recovered(db, now) ==
  LET lapsed == LapsedSeqs(db, now)
      spent  == {s \in lapsed : Exhausted(db, s)}
      again  == lapsed \ spent
  IN  [db EXCEPT
         !.locks = @ \ IndexBefore(@, now - LockExpiration),
         !.claims = [t \in Take |->
                       IF \E s \in lapsed : db.entries[s].acquiredBy = t
                       THEN None ELSE @[t]],
         !.entries = [s \in Seqs |-> IF s \in lapsed
                                     THEN ReleasedEntry(@[s], now)
                                     ELSE @[s]],
         !.failed = @ \cup {<<now, s>> : s \in spent},
         !.pending = @ \cup {<<now, s>> : s \in again},
         !.watching = IF again # {} THEN {} ELSE @]

Claimable(db, s, now) ==
  /\ EntryIn(db, s, "pending")
  /\ db.entries[s].visibleAt <= now
  /\ ~Exhausted(db, s)

ClaimableRows(db, now) ==
  {r \in IndexBefore(db.pending, now) : Claimable(db, r[2], now)}

\* Due rows the loop over `pending` passes before it claims one.
PassedRows(db, now) ==
  {r \in IndexBefore(db.pending, now) :
     /\ ~Claimable(db, r[2], now)
     /\ \A q \in ClaimableRows(db, now) : Earlier(r, q)}

GivenUp(e, now) == [e EXCEPT !.state = "failed", !.updatedAt = now]

\* Second half of claim: stale rows go, rows of entries that became visible
\* later move, exhausted entries fail.
Passed(db, now) ==
  LET rows  == PassedRows(db, now)
      alive == {s \in Seqs : EntryIn(db, s, "pending") /\ \E r \in rows : r[2] = s}
      late  == {s \in alive : db.entries[s].visibleAt > now}
      spent == alive \ late
  IN  [db EXCEPT
         !.pending = (@ \ rows) \cup {<<db.entries[s].visibleAt, s>> : s \in late},
         !.entries = [s \in Seqs |-> IF s \in spent
                                     THEN GivenUp(@[s], now)
                                     ELSE @[s]],
         !.failed = @ \cup {<<now, s>> : s \in spent}]

ClaimedEntry(e, t, now) ==
  [e EXCEPT !.attempts = @ + 1, !.state = "processing", !.acquiredAt = now,
            !.acquiredBy = t, !.updatedAt = now]

Claimed(db, t, row, now) ==
  [db EXCEPT !.pending = @ \ {row},
             !.entries[row[2]] = ClaimedEntry(@, t, now),
             !.locks = @ \cup {<<now, row[2]>>},
             !.claims[t] = row[2]]

First(rows) == CHOOSE r \in rows : \A q \in rows \ {r} : Earlier(r, q)

\* Mutant: a claim that does not look for the one it may have committed.
ClaimBodyForgetful(db, t, now) ==
  LET recovered  == Recovered([db EXCEPT !.claims[t] = None], now)
      passed     == Passed(recovered, now)
      rows       == ClaimableRows(recovered, now)
  IN  IF rows # {}
      THEN [db |-> Claimed(passed, t, First(rows), now),
            result |-> "held", seq |-> First(rows)[2]]
      ELSE [db |-> [passed EXCEPT !.watching = @ \cup {t}],
            result |-> "wait", seq |-> None]

\* The body of claim: the new store and what it answers, a sequence ("held"),
\* `true` ("again") or a ClaimWait ("wait").
ClaimBody(db, t, now) ==
  IF db.claims[t] # None /\ Owns(db, t, db.claims[t])
  THEN [db |-> db, result |-> "held", seq |-> db.claims[t]]
  ELSE LET recovered  == Recovered([db EXCEPT !.claims[t] = None], now)
           passed     == Passed(recovered, now)
           rows       == ClaimableRows(recovered, now)
           progressed == \/ IndexBefore(db.locks, now - LockExpiration) # {}
                         \/ IndexBefore(recovered.pending, now) # {}
       IN  CASE rows # {} ->
                  [db |-> Claimed(passed, t, First(rows), now),
                   result |-> "held", seq |-> First(rows)[2]]
             [] rows = {} /\ progressed ->
                  [db |-> passed, result |-> "again", seq |-> None]
             [] OTHER ->
                  [db |-> [passed EXCEPT !.watching = @ \cup {t}],
                   result |-> "wait", seq |-> None]

\* Mutant: the lock row of the previous lease stays.
RefreshedTwice(db, t, s, now) ==
  IF Holds(db, t, s)
  THEN [db EXCEPT !.locks = @ \cup {<<now, s>>}, !.entries[s].acquiredAt = now]
  ELSE db

Refreshed(db, t, s, now) ==
  IF Holds(db, t, s)
  THEN [db EXCEPT
          !.locks = (@ \ {<<db.entries[s].acquiredAt, s>>}) \cup {<<now, s>>},
          !.entries[s].acquiredAt = now]
  ELSE db

\* Mutant: off by one in the test of the last attempt.
SettledStateLate(c) ==
  CASE c.exit = "success"    -> "completed"
    [] c.exit = "deadLetter" -> "failed"
    [] c.exit = "interrupt"  -> "pending"
    [] OTHER -> IF c.attempts > MaxAttempts THEN "failed" ELSE "pending"

\* The state finalizeClaim gives the entry, decided before its transaction
\* from the exit and from the attempts read when the entry was claimed.
SettledState(c) ==
  CASE c.exit = "success"    -> "completed"
    [] c.exit = "deadLetter" -> "failed"
    [] c.exit = "interrupt"  -> "pending"
    [] OTHER -> IF c.attempts >= MaxAttempts THEN "failed" ELSE "pending"

SettledVisibleAt(c) ==
  IF c.exit = "failure" /\ c.attempts < MaxAttempts
  THEN c.now + c.delay ELSE c.now

SettledEntry(e, c) ==
  [e EXCEPT !.attempts = IF c.exit = "interrupt" /\ @ > 0 THEN @ - 1 ELSE @,
            !.state = SettledState(c), !.visibleAt = SettledVisibleAt(c),
            !.acquiredAt = None, !.acquiredBy = None, !.updatedAt = c.now]

\* Mutant: a requeued element does not increment the signal.
IndexedSilently(db, s, c) ==
  CASE SettledState(c) = "pending" ->
         [db EXCEPT !.pending = @ \cup {<<SettledVisibleAt(c), s>>}]
    [] SettledState(c) = "completed" ->
         [db EXCEPT !.completed = @ \cup {<<c.now, s>>}]
    [] SettledState(c) = "failed" ->
         [db EXCEPT !.failed = @ \cup {<<c.now, s>>}]

\* The row the settled entry gets, and the wake-up when it is requeued.
Indexed(db, s, c) ==
  CASE SettledState(c) = "pending" ->
         [db EXCEPT !.pending = @ \cup {<<SettledVisibleAt(c), s>>},
                    !.watching = {}]
    [] SettledState(c) = "completed" ->
         [db EXCEPT !.completed = @ \cup {<<c.now, s>>}]
    [] SettledState(c) = "failed" ->
         [db EXCEPT !.failed = @ \cup {<<c.now, s>>}]

Settled(db, t, c) ==
  IF Holds(db, t, c.seq)
  THEN Indexed([db EXCEPT !.locks = @ \ {<<db.entries[c.seq].acquiredAt, c.seq>>},
                          !.claims[t] = None,
                          !.entries[c.seq] = SettledEntry(@, c)],
               c.seq, c)
  ELSE db

IndexOf(db, state) == IF state = "completed" THEN db.completed ELSE db.failed

\* Mutant: the cutoff is ignored.
CleanedAtOnce(db, state, cutoff) ==
  LET gone == {s \in Seqs : EntryIn(db, s, state)}
  IN  [db EXCEPT
         !.entries = [s \in Seqs |-> IF s \in gone THEN NoEntry ELSE @[s]],
         !.ids = [i \in Id |-> IF \E s \in gone : db.entries[s].id = i
                               THEN None ELSE @[i]],
         !.completed = IF state = "completed" THEN {} ELSE @,
         !.failed = IF state = "failed" THEN {} ELSE @]

\* One batch of cleanupState.
Cleaned(db, state, cutoff) ==
  LET rows == IndexBefore(IndexOf(db, state), cutoff)
      gone == {s \in Seqs : /\ \E r \in rows : r[2] = s
                            /\ EntryIn(db, s, state)
                            /\ db.entries[s].updatedAt <= cutoff}
  IN  [db EXCEPT
         !.entries = [s \in Seqs |-> IF s \in gone THEN NoEntry ELSE @[s]],
         !.ids = [i \in Id |-> IF \E s \in gone : db.entries[s].id = i
                               THEN None ELSE @[i]],
         !.completed = IF state = "completed" THEN @ \ rows ELSE @,
         !.failed = IF state = "failed" THEN @ \ rows ELSE @]

-----------------------------------------------------------------------------
(* The take loop and its callers                                           *)

Init ==
  /\ store = [entries |-> [s \in Seqs |-> NoEntry], ids |-> [i \in Id |-> None],
              claims |-> [t \in Take |-> None], counter |-> 0,
              pending |-> {}, locks |-> {}, completed |-> {}, failed |-> {},
              watching |-> {}]
  /\ call = [t \in Take |-> Idle]
  /\ clock = 0
  /\ delivered = {}

\* Cancelling the future of a watch, or the future of an attempt that failed.
Unwatched(db, t) == [db EXCEPT !.watching = @ \ {t}]

\* An identifier stands for a fresh one once nothing in the store names it.
Fresh(t) == store.claims[t] = None /\ \A s \in Seqs : ~Owns(store, t, s)

\* offer commits; `now` was read when the call began.  A repeated offer, or
\* the retry of one that committed, finds the identifier and changes nothing.
Offer(i) ==
  \E now \in 0 .. clock :
    /\ store.counter < MaxSeq
    /\ store' = Offered(store, i, now)
    /\ UNCHANGED <<call, clock, delivered>>

TakeBegins(t) ==
  /\ call[t].phase = "idle"
  /\ Fresh(t)
  /\ call' = [call EXCEPT ![t].phase = "looking"]
  /\ UNCHANGED <<store, clock, delivered>>

\* claim reads the clock before its transaction.
ClaimBegins(t) ==
  /\ call[t].phase = "looking"
  /\ call' = [call EXCEPT ![t].phase = "claiming", ![t].now = clock]
  /\ UNCHANGED <<store, clock, delivered>>

NextPhase == [held |-> "holding", again |-> "looking", wait |-> "waiting"]

\* The claim transaction commits and the take sees its result.
ClaimCommits(t) ==
  /\ call[t].phase = "claiming"
  /\ LET r == ClaimBody(store, t, call[t].now)
     IN  /\ store' = r.db
         /\ call' = [call EXCEPT
                       ![t].phase = NextPhase[r.result], ![t].seq = r.seq,
                       ![t].attempts = IF r.result = "held"
                                       THEN r.db.entries[r.seq].attempts ELSE 0]
         /\ delivered' = delivered \cup {s \in Seqs : s = r.seq}
  /\ UNCHANGED clock

\* The claim transaction is applied but answers commit_unknown_result: its
\* watch is cancelled and the runner executes the body again, same `now`.
ClaimUnknown(t) ==
  /\ call[t].phase = "claiming"
  /\ store' = Unwatched(ClaimBody(store, t, call[t].now).db, t)
  /\ UNCHANGED <<call, clock, delivered>>

\* The take is interrupted, or its transaction gives up, before it holds an
\* element: acquireRelease has registered no release.  A commit may be in
\* flight.
TakeAborts(t) ==
  /\ call[t].phase \in {"looking", "claiming", "waiting"}
  /\ call' = [call EXCEPT ![t] =
                 IF call[t].phase = "claiming"
                 THEN [Idle EXCEPT !.phase = "abandoned", !.now = call[t].now]
                 ELSE Idle]
  /\ store' = Unwatched(store, t)
  /\ UNCHANGED <<clock, delivered>>

\* The commit in flight of an aborted take lands, or never does.
AbandonedLands(t) ==
  /\ call[t].phase = "abandoned"
  /\ store' = Unwatched(ClaimBody(store, t, call[t].now).db, t)
  /\ call' = [call EXCEPT ![t] = Idle]
  /\ UNCHANGED <<clock, delivered>>

AbandonedIsLost(t) ==
  /\ call[t].phase = "abandoned"
  /\ call' = [call EXCEPT ![t] = Idle]
  /\ UNCHANGED <<store, clock, delivered>>

\* The watch fired.
WatchWakes(t) ==
  /\ call[t].phase = "waiting"
  /\ t \notin store.watching
  /\ call' = [call EXCEPT ![t].phase = "looking"]
  /\ UNCHANGED <<store, clock, delivered>>

\* The process latch opened (any local offer or requeue opens it) or
\* pollInterval elapsed; the watch is cancelled.
LatchOrPollWakes(t) ==
  /\ call[t].phase = "waiting"
  /\ call' = [call EXCEPT ![t].phase = "looking"]
  /\ store' = Unwatched(store, t)
  /\ UNCHANGED <<clock, delivered>>

\* The forked refresh commits; it read the clock after the claim or after the
\* previous refresh, and may land while the take is being settled.
Refresh(t) ==
  /\ call[t].phase \in {"holding", "settling"}
  /\ \E now \in 0 .. clock :
       /\ Holds(store, t, call[t].seq)
          => store.entries[call[t].seq].acquiredAt <= now
       /\ store' = Refreshed(store, t, call[t].seq, now)
  /\ UNCHANGED <<call, clock, delivered>>

\* The scope of the take closes: finalizeClaim reads the clock and decides the
\* state from the exit.
SettleBegins(t) ==
  /\ call[t].phase = "holding"
  /\ \E exit \in Exits, delay \in RetryDelays :
       call' = [call EXCEPT ![t].phase = "settling", ![t].now = clock,
                            ![t].exit = exit,
                            ![t].delay = IF exit = "failure" THEN delay ELSE 0]
  /\ UNCHANGED <<store, clock, delivered>>

SettleCommits(t) ==
  /\ call[t].phase = "settling"
  /\ store' = Settled(store, t, call[t])
  /\ call' = [call EXCEPT ![t] = Idle]
  /\ UNCHANGED <<clock, delivered>>

\* Applied with an unknown result: the body runs again.
SettleUnknown(t) ==
  /\ call[t].phase = "settling"
  /\ store' = Settled(store, t, call[t])
  /\ UNCHANGED <<call, clock, delivered>>

\* finalizeClaim runs out of retries (Effect.orDie), or the process crashes
\* while it holds the element.
HolderDies(t) ==
  /\ call[t].phase \in {"holding", "settling"}
  /\ call' = [call EXCEPT ![t] = Idle]
  /\ UNCHANGED <<store, clock, delivered>>

\* One batch of cleanup; the cutoff was computed when cleanup began.
Cleanup(state) ==
  \E now \in 0 .. clock :
    /\ store' = Cleaned(store, state, now - TimeToLive)
    /\ UNCHANGED <<call, clock, delivered>>

Tick ==
  /\ clock < MaxTime
  /\ clock' = clock + 1
  /\ UNCHANGED <<store, call, delivered>>

TakeStep(t) ==
  \/ TakeBegins(t)
  \/ ClaimBegins(t)
  \/ ClaimCommits(t)
  \/ ClaimUnknown(t)
  \/ TakeAborts(t)
  \/ AbandonedLands(t)
  \/ AbandonedIsLost(t)
  \/ WatchWakes(t)
  \/ LatchOrPollWakes(t)
  \/ Refresh(t)
  \/ SettleBegins(t)
  \/ SettleCommits(t)
  \/ SettleUnknown(t)
  \/ HolderDies(t)

Next ==
  \/ \E i \in Id : Offer(i)
  \/ \E t \in Take : TakeStep(t)
  \/ \E state \in {"completed", "failed"} : Cleanup(state)
  \/ Tick

Spec == Init /\ [][Next]_vars

-----------------------------------------------------------------------------
(* Properties                                                              *)

\* Every variable has its type.
TypeOK ==
  /\ store \in Store
  /\ call \in [Take -> Call]
  /\ clock \in Nat
  /\ delivered \subseteq Seqs

\* The four ordered state indexes are exactly the images of the entries: an
\* entry has one row, in the index of its state, at the timestamp the entry
\* itself records.  A missing row would strand an element for ever, a row too
\* many would hand it out twice (repository.ts, every pack of a state index).
RowsMatchEntries(db) ==
  /\ db.pending = {<<db.entries[s].visibleAt, s>> :
                     s \in {u \in Seqs : EntryIn(db, u, "pending")}}
  /\ db.locks = {<<db.entries[s].acquiredAt, s>> :
                     s \in {u \in Seqs : EntryIn(db, u, "processing")}}
  /\ db.completed = {<<db.entries[s].updatedAt, s>> :
                     s \in {u \in Seqs : EntryIn(db, u, "completed")}}
  /\ db.failed = {<<db.entries[s].updatedAt, s>> :
                     s \in {u \in Seqs : EntryIn(db, u, "failed")}}

\* Owner and lease time are set exactly while an entry is processed, and the
\* claims rows, which make a repeated claim answer what the first one took,
\* are exactly the ownerships: in particular a take owns at most one entry.
ClaimsMatchEntries(db) ==
  /\ \A s \in Seqs : db.entries[s] # NoEntry =>
       IF db.entries[s].state = "processing"
       THEN db.entries[s].acquiredAt # None /\ db.entries[s].acquiredBy # None
       ELSE db.entries[s].acquiredAt = None /\ db.entries[s].acquiredBy = None
  /\ \A t \in Take, s \in Seqs : db.claims[t] = s <=> Owns(db, t, s)

\* ids is the inverse of the entries' id, so an identifier has at most one
\* live entry; sequences from the counter on are unused.
IdsMatchEntries(db) ==
  /\ \A i \in Id, s \in Seqs :
       db.ids[i] = s <=> db.entries[s] # NoEntry /\ db.entries[s].id = i
  /\ \A s \in Seqs : s >= db.counter => db.entries[s] = NoEntry

IndexesConsistent ==
  /\ RowsMatchEntries(store)
  /\ ClaimsMatchEntries(store)
  /\ IdsMatchEntries(store)

\* No missed notification: while the watch of a waiting take has not fired, no
\* row the take could have seen (due at the time of its empty scan) exists.
\* README: "The watch is armed transactionally with the empty queue scan".
NoLostWakeup ==
  \A t \in store.watching :
    call[t].phase = "waiting" =>
      \A r \in store.pending : r[1] > call[t].now

\* The element a take works on is the only one it can own, whatever retries
\* of its claim were applied before it saw an answer.
HoldsOnlyItsElement ==
  \A t \in Take, s \in Seqs :
    call[t].phase \in {"holding", "settling"} /\ Owns(store, t, s)
      => s = call[t].seq

\* A queued element always has an attempt left: exhaustion is decided from the
\* attempts read at claim time, which must still be those in the store.
QueuedHasAttemptsLeft ==
  \A s \in Seqs : EntryIn(store, s, "pending")
                    => store.entries[s].attempts < MaxAttempts

\* "Delivery is at least once" and "interruptions release a claim without
\* consuming an attempt" (README.md): an element that is given up was handed to
\* a handler at least once.  It does not hold: see the README.
FailedWasDelivered ==
  \A s \in Seqs : EntryIn(store, s, "failed") => s \in delivered

\* An owner loses an entry only by settling it itself or by letting its lease
\* expire: a stale take, a late refresh or a replayed finalizeClaim never takes
\* an entry from another take.
OwnershipRespected ==
  [][\A t \in Take, s \in Seqs :
       Owns(store, t, s) /\ ~Owns(store', t, s) =>
         \/ call[t].phase = "settling" /\ call[t].seq = s
         \/ store.entries[s].acquiredAt + LockExpiration <= clock]_vars

\* A settled entry is never touched again, until cleanup removes it after its
\* time to live.
SettledIsFinal ==
  [][\A s \in Seqs :
       EntryIn(store, s, "completed") \/ EntryIn(store, s, "failed") =>
         \/ store'.entries[s] = store.entries[s]
         \/ /\ store'.entries[s] = NoEntry
            /\ store.entries[s].updatedAt + TimeToLive <= clock]_vars

\* Fairness: a take that runs keeps running (the fibre is scheduled, its
\* transactions end), and its sleep(pollInterval) ends.
Fairness ==
  \A t \in Take :
    /\ WF_vars(ClaimBegins(t))
    /\ WF_vars(ClaimCommits(t))
    /\ WF_vars(WatchWakes(t) \/ LatchOrPollWakes(t))

FairSpec == Spec /\ Fairness

\* Work a claim could make progress on now.
WorkAvailable ==
  \E s \in Seqs :
    \/ EntryIn(store, s, "pending") /\ store.entries[s].visibleAt <= clock
    \/ /\ EntryIn(store, s, "processing")
       /\ store.entries[s].acquiredAt + LockExpiration <= clock

\* A waiting take never sleeps beside work for ever, be the work new, delayed
\* or abandoned by a crashed owner: it gets an element, or the work is taken,
\* or the take is aborted.
WaitingTakeFindsWork ==
  \A t \in Take :
    call[t].phase = "waiting" /\ WorkAvailable
      ~> call[t].phase \in {"holding", "idle", "abandoned"} \/ ~WorkAvailable
=============================================================================
