----------------------- MODULE TransactionRunnerProofs -----------------------
(***************************************************************************)
(* Proofs about TransactionRunner, for any number of calls and any retry   *)
(* limit.                                                                  *)
(*                                                                         *)
(* The argument: applied[c] can only hold what is explained by the commit  *)
(* of the attempt in progress or by an ambiguous failure, and an ambiguous *)
(* failure is remembered in `maybe` before the next attempt begins.        *)
(***************************************************************************)
EXTENDS TransactionRunner, FiniteSetTheorems, TLAPS

\* The handle and the commit are where the phase of the call says.
InStep(c) ==
  /\ run[c].phase = "idle" => native[c] = "none" /\ commit[c] = "none"
  /\ run[c].phase = "body" => native[c] = "active" /\ commit[c] = "none"
  /\ run[c].phase = "committing" => commit[c] \in {"sent", "applied"}
  /\ run[c].phase = "failing" /\ run[c].error # "cancelled" =>
       /\ commit[c] = "none"
       /\ native[c] = IF run[c].commitFailed THEN "commitFailed" ELSE "active"

\* Errors and outcomes appear when they should.
Reported(c) ==
  /\ run[c].phase \in {"idle", "body", "committing"} => run[c].error = None
  /\ run[c].phase = "failing" => run[c].error # None
  /\ run[c].phase # "ended" => run[c].outcome = None
  /\ run[c].error = "cancelled" => closed
  /\ run[c].error = "unknown" => commit[c] = "none"
  /\ run[c].outcome = "success" => commit[c] = "applied"
  /\ run[c].outcome = "error" =>
       \/ run[c].error = "cancelled"
       \/ commit[c] = "none" /\ run[c].error # "unknown" /\ ~run[c].maybe

\* What was applied is explained.
Explained(c) ==
  /\ commit[c] = "applied" => run[c].attempt \in applied[c]
  /\ ~run[c].maybe => applied[c] \subseteq {run[c].attempt}
  /\ ~run[c].maybe /\ applied[c] # {} =>
       commit[c] = "applied" \/ run[c].error = "unknown"
  /\ c \in Refusing => ~run[c].maybe

\* Live futures are those of the attempt in progress or of one that committed.
FuturesHeld(c) ==
  /\ futures[c] \subseteq {run[c].attempt}
  /\ run[c].phase \in {"idle", "failing"} => futures[c] = {}
  /\ run[c].phase = "ended" /\ futures[c] # {} => run[c].attempt \in applied[c]

CallInv(c) == InStep(c) /\ Reported(c) /\ Explained(c) /\ FuturesHeld(c)

\* The inductive invariant.
IInv ==
  /\ TypeOK
  /\ \A c \in Call : CallInv(c)

USE RunnerAssumption, NoneAssumption DEF Errors, Outcomes

-----------------------------------------------------------------------------

\* The invariant holds initially.
LEMMA IInvInit == Init => IInv
<1> SUFFICES ASSUME Init PROVE IInv
  OBVIOUS
<1>0. NewRun \in Run
  BY DEF NewRun, Run, Phases, Attempt
<1>1. TypeOK
  BY <1>0 DEF Init, TypeOK, NativeStates, CommitStates
<1>2. ASSUME NEW c \in Call PROVE CallInv(c)
  BY DEF Init, CallInv, InStep, Reported, Explained, FuturesHeld, NewRun
<1> QED
  BY <1>1, <1>2 DEF IInv, Init

\* A step of one call leaves the others, the driver and their invariant alone.
LEMMA OthersKeep ==
  ASSUME NEW c \in Call, NEW d \in Call, c # d, IInv, CallStep(c)
  PROVE  CallInv(d)'
<1>1. /\ run'[d] = run[d] /\ native'[d] = native[d] /\ commit'[d] = commit[d]
      /\ futures'[d] = futures[d] /\ applied'[d] = applied[d]
      /\ closed' = closed
  BY DEF IInv, TypeOK, CallStep, Open, BodyReads, StartFuture, BodyFails,
         BodyGivesUp, CommitBegins, CommitRefused, Lands, CommitSucceeds,
         ResultIsLost, CommitFails, CommitCancelled, Refuse, RangesUnavailable,
         OnErrorRetries, OnErrorFails, Interrupt, FutureEnds, Ends, Fails,
         StoredError
<1> QED
  BY <1>1 DEF IInv, CallInv, InStep, Reported, Explained, FuturesHeld

\* Types are kept by every step of a call.
LEMMA TypeKept ==
  ASSUME NEW c \in Call, IInv, CallStep(c)
  PROVE  TypeOK'
<1>0. /\ run \in [Call -> Run] /\ run[c] \in Run
      /\ native \in [Call -> NativeStates] /\ commit \in [Call -> CommitStates]
      /\ futures \in [Call -> SUBSET Attempt] /\ applied \in [Call -> SUBSET Attempt]
      /\ version \in Nat /\ closed \in BOOLEAN
  BY DEF IInv, TypeOK
<1>1. ASSUME NEW r \in Run, run' = [run EXCEPT ![c] = r] PROVE run' \in [Call -> Run]
  BY <1>0, <1>1
<1>2. CASE Open(c)
  <2>1. [run[c] EXCEPT !.phase = "body"] \in Run
    BY <1>0 DEF Run, Phases
  <2> QED
    BY <1>0, <1>1, <1>2, <2>1 DEF Open, TypeOK, NativeStates
<1>3. CASE BodyReads(c)
  <2>1. [run[c] EXCEPT !.read = version] \in Run
    BY <1>0 DEF Run
  <2> QED
    BY <1>0, <1>1, <1>3, <2>1 DEF BodyReads, TypeOK
<1>4. CASE CommitBegins(c)
  <2>1. [run[c] EXCEPT !.phase = "committing"] \in Run
    BY <1>0 DEF Run, Phases
  <2> QED
    BY <1>0, <1>1, <1>4, <2>1 DEF CommitBegins, TypeOK, NativeStates, CommitStates
<1>5. CASE StartFuture(c)
  <2>1. run[c].attempt \in Attempt
    BY <1>0 DEF Run
  <2> QED
    BY <1>0, <1>5, <2>1 DEF StartFuture, TypeOK
<1>6. CASE FutureEnds(c)
  BY <1>0, <1>6 DEF FutureEnds, TypeOK
<1>7. ASSUME NEW e \in Errors, NEW b \in BOOLEAN, Fails(c, e, b)
      PROVE  run' \in [Call -> Run] /\ futures' \in [Call -> SUBSET Attempt]
  <2>1. [run[c] EXCEPT !.phase = "failing", !.error = e, !.commitFailed = b] \in Run
    BY <1>0 DEF Run, Phases
  <2>2. run' = [run EXCEPT ![c] = [run[c] EXCEPT !.phase = "failing", !.error = e,
                                                !.commitFailed = b]]
    BY <1>7 DEF Fails
  <2> QED
    BY <1>0, <1>1, <1>7, <2>1, <2>2 DEF Fails, Cancelled
<1>8. CASE BodyFails(c) \/ CommitRefused(c) \/ CommitCancelled(c)
  BY <1>0, <1>7, <1>8 DEF BodyFails, CommitRefused, CommitCancelled, TypeOK
<1>9. CASE CommitFails(c)
  BY <1>0, <1>7, <1>9 DEF CommitFails, StoredError, TypeOK, NativeStates, CommitStates
<1>10. CASE Lands(c)
  <2>1. run[c].attempt \in Attempt
    BY <1>0 DEF Run
  <2> QED
    BY <1>0, <1>10, <2>1 DEF Lands, TypeOK, CommitStates
<1>11. ASSUME NEW o \in Outcomes, Ends(c, o)
       PROVE  run' \in [Call -> Run] /\ native' \in [Call -> NativeStates]
  <2>1. [run[c] EXCEPT !.phase = "ended", !.outcome = o] \in Run
    BY <1>0 DEF Run, Phases
  <2>2. run' = [run EXCEPT ![c] = [run[c] EXCEPT !.phase = "ended", !.outcome = o]]
    BY <1>11 DEF Ends
  <2> QED
    BY <1>0, <1>1, <1>11, <2>1, <2>2 DEF Ends, NativeStates
<1>12. CASE \/ CommitSucceeds(c) \/ ResultIsLost(c) \/ Refuse(c)
            \/ RangesUnavailable(c) \/ OnErrorFails(c)
  BY <1>0, <1>11, <1>12 DEF CommitSucceeds, ResultIsLost, Refuse,
     RangesUnavailable, OnErrorFails, TypeOK
<1>13. CASE BodyGivesUp(c) \/ Interrupt(c)
  BY <1>0, <1>11, <1>13 DEF BodyGivesUp, Interrupt, Cancelled, TypeOK
<1>14. CASE OnErrorRetries(c)
  <2>1. NextAttempt(run[c]) \in Attempt
    BY <1>0, <1>14 DEF OnErrorRetries, Retryable, NextAttempt, Run, Attempt
  <2>2. NextMaybe(run[c]) \in BOOLEAN
    BY <1>0 DEF NextMaybe, Run
  <2>3. [NewRun EXCEPT !.phase = "body", !.attempt = NextAttempt(run[c]),
                       !.maybe = NextMaybe(run[c])] \in Run
    BY <2>1, <2>2 DEF NewRun, Run, Phases
  <2> QED
    BY <1>0, <1>1, <1>14, <2>3 DEF OnErrorRetries, TypeOK, NativeStates
<1> QED
  BY <1>2, <1>3, <1>4, <1>5, <1>6, <1>8, <1>9, <1>10, <1>12, <1>13, <1>14 DEF CallStep

\* A call keeps its own invariant when its attempt fails.
LEMMA FailsKeep ==
  ASSUME NEW c \in Call, NEW e \in Errors, NEW b \in BOOLEAN, IInv,
         run[c].phase \in {"body", "committing"}, Fails(c, e, b),
         native'[c] \in NativeStates, commit'[c] \in {commit[c], "none"},
         e # "cancelled" =>
           /\ commit'[c] = "none"
           /\ native'[c] = IF b THEN "commitFailed" ELSE "active",
         e = "cancelled" => closed,
         commit[c] # commit'[c] /\ commit[c] = "applied" => e = "unknown",
         e = "unknown" => commit'[c] = "none",
         UNCHANGED <<closed, applied>>
  PROVE  CallInv(c)'
<1>0. /\ run[c] \in Run /\ CallInv(c)
      /\ run'[c] = [run[c] EXCEPT !.phase = "failing", !.error = e, !.commitFailed = b]
      /\ futures'[c] = {}
  BY DEF IInv, TypeOK, Fails, Cancelled
<1>1. InStep(c)'
  BY <1>0 DEF InStep, Run
<1>2. Reported(c)'
  BY <1>0 DEF CallInv, Reported, Run
<1>3. Explained(c)'
  BY <1>0 DEF CallInv, InStep, Reported, Explained, Run
<1> QED
  BY <1>0, <1>1, <1>2, <1>3 DEF CallInv, FuturesHeld, Run

\* And when it ends, with an outcome its state justifies.
LEMMA EndsKeep ==
  ASSUME NEW c \in Call, NEW o \in Outcomes, IInv, Ends(c, o),
         o = "success" => commit[c] = "applied",
         o = "error" => \/ run[c].error = "cancelled"
                        \/ commit[c] = "none" /\ run[c].error # "unknown" /\ ~run[c].maybe,
         \/ futures'[c] = {}
         \/ /\ futures'[c] = futures[c]
            /\ run[c].phase = "failing" \/ commit[c] = "applied",
         UNCHANGED <<commit, closed, applied>>
  PROVE  CallInv(c)'
<1>0. /\ run[c] \in Run /\ CallInv(c)
      /\ run'[c] = [run[c] EXCEPT !.phase = "ended", !.outcome = o]
  BY DEF IInv, TypeOK, Ends
<1>1. InStep(c)'
  BY <1>0 DEF InStep, Run
<1>2. Reported(c)'
  BY <1>0 DEF CallInv, Reported, Run
<1>3. Explained(c)'
  BY <1>0 DEF CallInv, Explained, Run
<1>4. FuturesHeld(c)'
  BY <1>0 DEF CallInv, Explained, FuturesHeld, Run
<1> QED
  BY <1>1, <1>2, <1>3, <1>4 DEF CallInv

\* Every step of a call keeps its invariant.
LEMMA CallKept ==
  ASSUME NEW c \in Call, IInv, CallStep(c)
  PROVE  CallInv(c)'
<1> USE DEF CallInv
<1>0. /\ run \in [Call -> Run] /\ run[c] \in Run
      /\ native \in [Call -> NativeStates] /\ commit \in [Call -> CommitStates]
      /\ futures \in [Call -> SUBSET Attempt] /\ applied \in [Call -> SUBSET Attempt]
      /\ version \in Nat /\ closed \in BOOLEAN /\ CallInv(c)
  BY DEF IInv, TypeOK
<1>1. CASE Open(c)
  BY <1>0, <1>1 DEF Open, InStep, Reported, Explained, FuturesHeld, Run
<1>2. CASE BodyReads(c)
  BY <1>0, <1>2 DEF BodyReads, InStep, Reported, Explained, FuturesHeld, Run
<1>3. CASE StartFuture(c)
  BY <1>0, <1>3 DEF StartFuture, InStep, Reported, Explained, FuturesHeld, Run
<1>4. CASE CommitBegins(c)
  BY <1>0, <1>4 DEF CommitBegins, InStep, Reported, Explained, FuturesHeld, Run
<1>5. CASE Lands(c)
  BY <1>0, <1>5 DEF Lands, InStep, Reported, Explained, FuturesHeld, Run
<1>6. CASE FutureEnds(c)
  BY <1>0, <1>6 DEF FutureEnds, InStep, Reported, Explained, FuturesHeld, Run
<1>7. CASE OnErrorRetries(c)
  BY <1>0, <1>7 DEF OnErrorRetries, OnErrorReached, Refuses, NextMaybe, NewRun,
                    InStep, Reported, Explained, FuturesHeld, Run
<1>8. CASE BodyFails(c)
  BY <1>0, <1>8, FailsKeep DEF BodyFails, InStep
<1>9. CASE CommitRefused(c)
  BY <1>0, <1>9, FailsKeep DEF CommitRefused, InStep
<1>10. CASE CommitCancelled(c)
  BY <1>0, <1>10, FailsKeep DEF CommitCancelled
<1>11. CASE CommitFails(c)
  BY <1>0, <1>11, FailsKeep DEF CommitFails, StoredError, NativeStates
<1>12. CASE BodyGivesUp(c) \/ Interrupt(c)
  BY <1>0, <1>12, EndsKeep DEF BodyGivesUp, Interrupt, Cancelled
<1>13. CASE CommitSucceeds(c) \/ ResultIsLost(c)
  BY <1>0, <1>13, EndsKeep DEF CommitSucceeds, ResultIsLost
<1>14. CASE Refuse(c)
  BY <1>0, <1>14, EndsKeep DEF Refuse, Ends
<1>15. CASE RangesUnavailable(c)
  <2>1. run[c].error = "cancelled"
    BY <1>0, <1>15 DEF RangesUnavailable, WantsRanges, InStep
  <2> QED
    BY <1>0, <1>15, <2>1, EndsKeep DEF RangesUnavailable
<1>16. CASE OnErrorFails(c)
  <2>1. ~NextMaybe(run[c]) => ~run[c].maybe /\ run[c].error # "unknown"
    BY <1>0 DEF NextMaybe
  <2>2. run[c].error # "cancelled" => commit[c] = "none"
    BY <1>0, <1>16 DEF OnErrorFails, OnErrorReached, InStep
  <2> QED
    BY <1>0, <1>16, <2>1, <2>2, EndsKeep DEF OnErrorFails, OnErrorReached
<1> QED
  BY <1>1, <1>2, <1>3, <1>4, <1>5, <1>6, <1>7, <1>8, <1>9, <1>10, <1>11, <1>12,
     <1>13, <1>14, <1>15, <1>16 DEF CallStep

\* The invariant is inductive.
LEMMA IInvNext == IInv /\ [Next]_vars => IInv'
<1> SUFFICES ASSUME IInv, [Next]_vars PROVE IInv'
  OBVIOUS
<1>1. CASE UNCHANGED vars
  BY <1>1 DEF vars, IInv, TypeOK, CallInv, InStep, Reported, Explained, FuturesHeld
<1>2. CASE CloseDriver
  BY <1>2 DEF CloseDriver, IInv, TypeOK, CallInv, InStep, Reported, Explained, FuturesHeld
<1>3. ASSUME NEW c \in Call, CallStep(c) PROVE IInv'
  <2>1. TypeOK'
    BY <1>3, TypeKept
  <2>2. closed' = closed
    BY <1>3 DEF CallStep, Open, BodyReads, StartFuture, BodyFails, BodyGivesUp,
       CommitBegins, CommitRefused, Lands, CommitSucceeds, ResultIsLost, CommitFails,
       CommitCancelled, Refuse, RangesUnavailable, OnErrorRetries, OnErrorFails,
       Interrupt, FutureEnds
  <2>3. \A d \in Call : CallInv(d)'
    BY <1>3, OthersKeep, CallKept
  <2> QED
    BY <2>1, <2>2, <2>3 DEF IInv
<1> QED
  BY <1>1, <1>2, <1>3 DEF Next

\* The inductive invariant, for the steps of every call in any order.
THEOREM Invariance == Spec => []IInv
  BY IInvInit, IInvNext, PTL DEF Spec

-----------------------------------------------------------------------------

\* Type correctness of the runner.
THEOREM TypeCorrect == Spec => []TypeOK
<1>1. IInv => TypeOK
  BY DEF IInv
<1> QED
  BY <1>1, Invariance, PTL

\* A call that refuses to replay ambiguous commits is applied at most once,
\* even if the driver is closed under it.
THEOREM RefusedCallsApplyOnce == Spec => []RefusedAtMostOnce
<1>1. IInv => RefusedAtMostOnce
  <2> SUFFICES ASSUME IInv, NEW c \in Refusing PROVE Cardinality(applied[c]) <= 1
    BY DEF RefusedAtMostOnce
  <2>1. applied[c] \subseteq {run[c].attempt}
    BY DEF IInv, CallInv, Explained
  <2>2. applied[c] = {} \/ applied[c] = {run[c].attempt}
    BY <2>1
  <2>3. Cardinality({}) = 0 /\ Cardinality({run[c].attempt}) = 1
    BY FS_EmptySet, FS_Singleton
  <2>4. CASE applied[c] = {}
    BY <2>3, <2>4
  <2>5. CASE applied[c] = {run[c].attempt}
    BY <2>3, <2>5
  <2> QED
    BY <2>2, <2>4, <2>5
<1> QED
  BY <1>1, Invariance, PTL

\* Failed attempts leave no live watch or versionstamp behind.
THEOREM FuturesAreCancelled == Spec => []FuturesOfLiveAttempt
<1>1. IInv => FuturesOfLiveAttempt
  BY DEF IInv, TypeOK, Run, Phases, CallInv, FuturesHeld, FuturesOfLiveAttempt
<1> QED
  BY <1>1, Invariance, PTL

\* The runner and the native handle agree on the state of the transaction.
THEOREM HandlesStayInStep == Spec => []HandleInStep
<1>1. IInv => HandleInStep
  BY DEF IInv, CallInv, InStep, Reported, HandleInStep, OnErrorReached, WantsRanges
<1> QED
  BY <1>1, Invariance, PTL

\* What a call answers about its commits is true, unless the closing of the
\* driver cancelled it (FoundationDb.ts:579-621).
THEOREM AnswersAreTrue == Spec => []AnswersHoldUnlessCancelled
<1>1. IInv => AnswersHoldUnlessCancelled
  <2> SUFFICES ASSUME IInv, NEW c \in Call, run[c].error # "cancelled"
               PROVE  AnswerHolds(c)
    BY DEF AnswersHoldUnlessCancelled
  <2>1. InStep(c) /\ Reported(c) /\ Explained(c)
    BY DEF IInv, CallInv
  <2>2. run[c].outcome = "success" =>
          /\ run[c].attempt \in applied[c]
          /\ ~run[c].maybe => applied[c] = {run[c].attempt}
    BY <2>1 DEF Reported, Explained
  <2>3. run[c].outcome = "error" => applied[c] = {}
    BY <2>1 DEF Reported, Explained
  <2>4. run[c].phase = "body" /\ ~run[c].maybe => applied[c] = {}
    BY <2>1 DEF InStep, Reported, Explained
  <2> QED
    BY <2>2, <2>3, <2>4 DEF AnswerHolds
<1> QED
  BY <1>1, Invariance, PTL
=============================================================================
