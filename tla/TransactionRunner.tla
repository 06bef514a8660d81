------------------------- MODULE TransactionRunner -------------------------
(***************************************************************************)
(* The transaction runner: withTransactionResult of src/FoundationDb.ts,   *)
(* with the states src/lib.rs keeps for a transaction handle and the       *)
(* closing of the driver in src/internal/ffi.ts.                           *)
(*                                                                         *)
(* Each call opens one native transaction and runs attempts on it: the     *)
(* body, a commit, and after a failure the native on_error, which resets   *)
(* the transaction or ends the call.  The bodies here read one key and     *)
(* write it, so concurrent calls conflict.  The cluster applies a commit,  *)
(* or loses it, between the moment it is sent and the moment it answers;   *)
(* it may also answer that it does not know.                               *)
(***************************************************************************)
EXTENDS Naturals, FiniteSets

CONSTANTS
  Call,        \* calls of withTransaction
  RetryLimit,  \* options.retryLimit, counted by the native transaction
  Refusing,    \* calls with retryOnMaybeCommitted: false
  Reporting,   \* calls with reportConflictingKeys: true
  None

ASSUME RunnerAssumption ==
  /\ RetryLimit \in Nat
  /\ Refusing \subseteq Call /\ Reporting \subseteq Call

VARIABLES
  run,      \* run[c]: the attempt the call is in
  native,   \* native[c]: state of its transaction handle
  commit,   \* commit[c]: what became of the commit sent last
  futures,  \* futures[c]: attempts with a live post-commit future
  version,  \* version of the key all bodies read and write
  closed,   \* the driver was closed
  applied   \* history: attempts of each call that were applied

vars == <<run, native, commit, futures, version, closed, applied>>

Attempt == 1 .. RetryLimit + 1

Phases == {"idle", "body", "committing", "failing", "ended"}

\* What an attempt fails with.  "retryable" and "terminal" come from the body
\* or, "terminal", from a rejected commit; "cancelled" is ASYNC_CANCELLED or
\* "native driver is closed".
Errors == {"retryable", "terminal", "conflict", "unknown", "cancelled"}

\* Exits of a call.  "error" and "ambiguous" are a FoundationDbError whose
\* maybeCommitted is false and true; "failure" is any other cause.
Outcomes == {"success", "error", "ambiguous", "failure", "interrupt"}

\* null is none of the values it stands beside.
ASSUME NoneAssumption == None \notin Nat \cup Errors \cup Outcomes

Run == [phase : Phases, attempt : Attempt, maybe : BOOLEAN,
        read : Nat \cup {None}, error : Errors \cup {None},
        commitFailed : BOOLEAN, outcome : Outcomes \cup {None}]

\* TransactionState; "taken" is the None that commit and on_error leave behind.
NativeStates == {"none", "active", "taken", "commitFailed", "closed"}

CommitStates == {"none", "sent", "applied"}

-----------------------------------------------------------------------------

NewRun == [phase |-> "idle", attempt |-> 1, maybe |-> FALSE, read |-> None,
           error |-> None, commitFailed |-> FALSE, outcome |-> None]

Init ==
  /\ run = [c \in Call |-> NewRun]
  /\ native = [c \in Call |-> "none"]
  /\ commit = [c \in Call |-> "none"]
  /\ futures = [c \in Call |-> {}]
  /\ version = 0
  /\ closed = FALSE
  /\ applied = [c \in Call |-> {}]

\* Mutant: only the last failure counts.
NextMaybeForgetful(r) == r.error = "unknown"

\* nextMaybeCommitted.
NextMaybe(r) == r.maybe \/ r.error = "unknown"

\* Mutant: retryOnMaybeCommitted is not looked at.
RefusesNever(c) == FALSE

Refuses(c) == run[c].error = "unknown" /\ c \in Refusing

\* Mutant: every attempt gets a transaction of its own, which starts to count
\* its retries again.
NextAttemptAnew(r) == 1

\* on_error counts the retries of its transaction.
NextAttempt(r) == r.attempt + 1

Retryable(r) ==
  /\ r.error \in {"retryable", "conflict", "unknown"}
  /\ r.attempt <= RetryLimit

\* Mutant: the futures of a failed commit are left to the caller.
CancelledUnlessCommitting(c) ==
  IF run[c].phase = "committing" THEN futures[c] ELSE {}

\* Post-commit futures left once the attempt has failed.
Cancelled(c) == {}

\* The call returns and its handle is closed.
Ends(c, outcome) ==
  /\ run' = [run EXCEPT ![c].phase = "ended", ![c].outcome = outcome]
  /\ native' = [native EXCEPT ![c] = "closed"]

\* The attempt fails with a FoundationDbError: its futures are cancelled.
Fails(c, error, commitFailed) ==
  /\ run' = [run EXCEPT ![c].phase = "failing", ![c].error = error,
                        ![c].commitFailed = commitFailed]
  /\ futures' = [futures EXCEPT ![c] = Cancelled(c)]

Open(c) ==
  /\ run[c].phase = "idle"
  /\ ~closed
  /\ run' = [run EXCEPT ![c].phase = "body"]
  /\ native' = [native EXCEPT ![c] = "active"]
  /\ UNCHANGED <<commit, futures, version, closed, applied>>

\* The body reads the key, at the read version of its attempt.
BodyReads(c) ==
  /\ run[c].phase = "body"
  /\ native[c] = "active"
  /\ ~closed
  /\ run[c].read = None
  /\ run' = [run EXCEPT ![c].read = version]
  /\ UNCHANGED <<native, commit, futures, version, closed, applied>>

\* The body starts a watch or asks for its versionstamp.
StartFuture(c) ==
  /\ run[c].phase = "body"
  /\ native[c] = "active"
  /\ ~closed
  /\ futures' = [futures EXCEPT ![c] = @ \cup {run[c].attempt}]
  /\ UNCHANGED <<run, native, commit, version, closed, applied>>

\* A read fails; once the driver is closed every one does.
BodyFails(c) ==
  /\ run[c].phase = "body"
  /\ \E error \in IF closed THEN {"cancelled"} ELSE {"retryable", "terminal"} :
       Fails(c, error, FALSE)
  /\ UNCHANGED <<native, commit, version, closed, applied>>

\* A domain failure, a defect or a composite cause is not retried.
BodyGivesUp(c) ==
  /\ run[c].phase = "body"
  /\ Ends(c, "failure")
  /\ futures' = [futures EXCEPT ![c] = Cancelled(c)]
  /\ UNCHANGED <<commit, version, closed, applied>>

CommitBegins(c) ==
  /\ run[c].phase = "body"
  /\ native[c] = "active"
  /\ run[c].read # None
  /\ ~closed
  /\ run' = [run EXCEPT ![c].phase = "committing"]
  /\ native' = [native EXCEPT ![c] = "taken"]
  /\ commit' = [commit EXCEPT ![c] = "sent"]
  /\ UNCHANGED <<futures, version, closed, applied>>

\* The driver was closed before the commit could begin: nothing is sent, the
\* native transaction stays active.
CommitRefused(c) ==
  /\ run[c].phase = "body"
  /\ closed
  /\ Fails(c, "cancelled", TRUE)
  /\ UNCHANGED <<native, commit, version, closed, applied>>

\* The cluster applies the commit, if nothing it read has changed.  The call
\* may already have ended, interrupted or closed under its commit.
Lands(c) ==
  /\ commit[c] = "sent"
  /\ run[c].read = version
  /\ version' = version + 1
  /\ commit' = [commit EXCEPT ![c] = "applied"]
  /\ applied' = [applied EXCEPT ![c] = @ \cup {run[c].attempt}]
  /\ UNCHANGED <<run, native, futures, closed>>

CommitSucceeds(c) ==
  /\ run[c].phase = "committing"
  /\ commit[c] = "applied"
  /\ ~closed
  /\ Ends(c, "success")
  /\ UNCHANGED <<commit, futures, version, closed, applied>>

\* The call is interrupted after its commit was answered and before its value
\* reached the caller: nothing is left to cancel its futures.
ResultIsLost(c) ==
  /\ run[c].phase = "committing"
  /\ commit[c] = "applied"
  /\ ~closed
  /\ Ends(c, "interrupt")
  /\ UNCHANGED <<commit, futures, version, closed, applied>>

\* Mutant: the error is not stored in the handle.
StoredTaken(c) == [native EXCEPT ![c] = "taken"]

\* A failed commit leaves its error in the handle, for on_error.
StoredError(c) == [native EXCEPT ![c] = "commitFailed"]

CommitFails(c) ==
  /\ run[c].phase = "committing"
  /\ ~closed
  /\ \/ commit[c] = "sent" /\ run[c].read # version /\ Fails(c, "conflict", TRUE)
     \/ commit[c] = "sent" /\ Fails(c, "terminal", TRUE)
     \/ commit[c] \in {"sent", "applied"} /\ Fails(c, "unknown", TRUE)
  /\ native' = StoredError(c)
  /\ commit' = [commit EXCEPT ![c] = "none"]
  /\ UNCHANGED <<version, closed, applied>>

\* Closing the driver cancels the native task of the commit.  The commit was
\* sent all the same.
CommitCancelled(c) ==
  /\ run[c].phase = "committing"
  /\ closed
  /\ Fails(c, "cancelled", TRUE)
  /\ UNCHANGED <<native, commit, version, closed, applied>>

\* retryOnMaybeCommitted is false: the ambiguous error is returned.
Refuse(c) ==
  /\ run[c].phase = "failing"
  /\ Refuses(c)
  /\ Ends(c, "ambiguous")
  /\ UNCHANGED <<commit, futures, version, closed, applied>>

WantsRanges(c) == run[c].commitFailed /\ c \in Reporting

\* getConflictingKeyRanges needs the stored error; its own failure is returned
\* as it is.
RangesUnavailable(c) ==
  /\ run[c].phase = "failing"
  /\ ~Refuses(c)
  /\ WantsRanges(c)
  /\ native[c] # "commitFailed"
  /\ Ends(c, "error")
  /\ UNCHANGED <<commit, futures, version, closed, applied>>

OnErrorReached(c) ==
  /\ run[c].phase = "failing"
  /\ ~Refuses(c)
  /\ WantsRanges(c) => native[c] = "commitFailed"

\* on_error resets the transaction for the next attempt.
OnErrorRetries(c) ==
  /\ OnErrorReached(c)
  /\ ~closed
  /\ native[c] \in {"active", "commitFailed"}
  /\ Retryable(run[c])
  /\ run' = [run EXCEPT ![c] = [NewRun EXCEPT !.phase = "body",
                                              !.attempt = NextAttempt(run[c]),
                                              !.maybe = NextMaybe(run[c])]]
  /\ native' = [native EXCEPT ![c] = "active"]
  /\ UNCHANGED <<commit, futures, version, closed, applied>>

\* on_error fails: the call returns its error, with what earlier attempts
\* know of their commits (preserveMaybeCommitted).
OnErrorFails(c) ==
  /\ OnErrorReached(c)
  /\ \/ closed
     \/ native[c] \notin {"active", "commitFailed"}
     \/ ~Retryable(run[c])
  /\ Ends(c, IF NextMaybe(run[c]) THEN "ambiguous" ELSE "error")
  /\ UNCHANGED <<commit, futures, version, closed, applied>>

\* The fibre of the call is interrupted.  A commit in flight may still land.
Interrupt(c) ==
  /\ run[c].phase \in {"body", "committing", "failing"}
  /\ Ends(c, "interrupt")
  /\ futures' = [futures EXCEPT ![c] = Cancelled(c)]
  /\ UNCHANGED <<commit, version, closed, applied>>

\* A future fires, fails or is cancelled by its owner.
FutureEnds(c) ==
  /\ \E a \in futures[c] : futures' = [futures EXCEPT ![c] = @ \ {a}]
  /\ UNCHANGED <<run, native, commit, version, closed, applied>>

\* drain: no operation starts any more, those in flight are cancelled.
CloseDriver ==
  /\ ~closed
  /\ closed' = TRUE
  /\ UNCHANGED <<run, native, commit, futures, version, applied>>

CallStep(c) ==
  \/ Open(c)
  \/ BodyReads(c)
  \/ StartFuture(c)
  \/ BodyFails(c)
  \/ BodyGivesUp(c)
  \/ CommitBegins(c)
  \/ CommitRefused(c)
  \/ Lands(c)
  \/ CommitSucceeds(c)
  \/ ResultIsLost(c)
  \/ CommitFails(c)
  \/ CommitCancelled(c)
  \/ Refuse(c)
  \/ RangesUnavailable(c)
  \/ OnErrorRetries(c)
  \/ OnErrorFails(c)
  \/ Interrupt(c)
  \/ FutureEnds(c)

Next == CloseDriver \/ \E c \in Call : CallStep(c)

Spec == Init /\ [][Next]_vars

-----------------------------------------------------------------------------
(* Properties                                                              *)

\* Every variable has its type.
TypeOK ==
  /\ run \in [Call -> Run]
  /\ native \in [Call -> NativeStates]
  /\ commit \in [Call -> CommitStates]
  /\ futures \in [Call -> SUBSET Attempt]
  /\ version \in Nat
  /\ closed \in BOOLEAN
  /\ applied \in [Call -> SUBSET Attempt]

\* What a call answers is true of the database, then and later: a value comes
\* from an attempt that was applied, and from the only one if no commit was
\* ambiguous; an error that is not maybeCommitted means that no attempt was or
\* will be applied; so does transaction.maybeCommitted = false to a body.
AnswerHolds(c) ==
  /\ run[c].outcome = "success" =>
       /\ run[c].attempt \in applied[c]
       /\ ~run[c].maybe => applied[c] = {run[c].attempt}
  /\ run[c].outcome = "error" => applied[c] = {}
  /\ run[c].phase = "body" /\ ~run[c].maybe => applied[c] = {}

\* The answers of the calls that the closing of the driver did not cancel,
\* whatever failed before and in any order (FoundationDb.ts:579-621, what
\* nextMaybeCommitted and preserveMaybeCommitted carry along).
AnswersHoldUnlessCancelled ==
  \A c \in Call : run[c].error # "cancelled" => AnswerHolds(c)

\* The answers of all calls: "retryOnMaybeCommitted: false for non-idempotent
\* state transitions that must return the ambiguous error" (README.md:123-126).
\* It does not hold of a call whose commit the closing of the driver cancels.
AnswersHold == \A c \in Call : AnswerHolds(c)

\* retryOnMaybeCommitted: false is for transitions that must not be applied
\* twice (README.md:123-126), and they are not, whatever fails and in any
\* order.
RefusedAtMostOnce == \A c \in Refusing : Cardinality(applied[c]) <= 1

\* A watch or versionstamp that lives belongs to the attempt in progress, or to
\* the one whose commit was answered: "Failed attempts cancel their futures
\* automatically" (README.md:165-166).
FuturesOfLiveAttempt ==
  \A c \in Call : \A a \in futures[c] :
    /\ a = run[c].attempt
    /\ \/ run[c].phase \in {"body", "committing"}
       \/ run[c].phase = "ended" /\ a \in applied[c]

\* The runner never uses a handle in a state lib.rs answers with
\* INVALID_TRANSACTION_STATE, unless the driver was closed under it.
HandleInStep ==
  \A c \in Call : ~closed =>
    /\ run[c].phase = "body" => native[c] = "active"
    /\ OnErrorReached(c) => native[c] \in {"active", "commitFailed"}
    /\ run[c].phase = "failing" /\ WantsRanges(c) => native[c] = "commitFailed"

\* Fairness: bodies run on, the cluster answers commits and on_error, and the
\* native executor completes cancelled tasks.
Fairness ==
  \A c \in Call :
    /\ WF_vars(BodyReads(c))
    /\ WF_vars(CommitBegins(c) \/ CommitRefused(c))
    /\ WF_vars(CommitSucceeds(c) \/ CommitFails(c) \/ CommitCancelled(c))
    /\ WF_vars(Refuse(c) \/ RangesUnavailable(c) \/ OnErrorRetries(c) \/ OnErrorFails(c))

FairSpec == Spec /\ Fairness

\* Every call returns: a native retry limit ends its attempts, and closing the
\* driver strands none of them.
EveryCallEnds == \A c \in Call : run[c].phase # "idle" ~> run[c].phase = "ended"
=============================================================================
