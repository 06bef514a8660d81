---------------------------- MODULE NativeBridge ----------------------------
(***************************************************************************)
(* The native bridge: makeDriver and ffiLayer of src/internal/ffi.ts over  *)
(* the process-wide lifecycle, task table and executor of src/lib.rs.      *)
(*                                                                         *)
(* Drivers are opened and released while fibers of theirs wait for native  *)
(* futures.  One executor thread polls every future; when one is done the  *)
(* thread stores its completion, calls the Deno callback of the driver and *)
(* stays inside it until the event loop has run it.  Releasing a           *)
(* driver drains its requests, crosses the executor (or, for the last      *)
(* driver, stops everything) and only then closes the callback.            *)
(*                                                                         *)
(* Each driver has one transaction handle here, shared by its requests.    *)
(***************************************************************************)
EXTENDS Naturals, FiniteSets

CONSTANTS
  Owner,       \* drivers: scopes of ffiLayer
  Request,     \* calls of asyncResult
  OwnerOf,     \* OwnerOf[r]: the driver of a request
  IdOf,        \* IdOf[r]: its nextRequestId, a counter of each isolate
  ApiVersion,  \* ApiVersion[o]: options.apiVersion
  None

ASSUME BridgeAssumption ==
  /\ IsFiniteSet(Owner) /\ None \notin Owner
  /\ OwnerOf \in [Request -> Owner]
  /\ \A r, q \in Request : OwnerOf[r] = OwnerOf[q] /\ IdOf[r] = IdOf[q] => r = q

VARIABLES
  lifecycle,  \* LIFECYCLE: its state, owners and version, and the network guard
  release,    \* OWNER_RELEASE: the driver that holds it
  driver,     \* driver[o]: how far the scope of the driver is
  slot,       \* slot[o]: TransactionState behind its handle
  fiber,      \* fiber[r]: the fiber that makes the request; "ended": it left it
  call,       \* call[r]: what the request asks of the transaction
  future,     \* future[r]: its native task
  cancelled   \* running tasks whose cancel channel is closed

vars == <<lifecycle, release, driver, slot, fiber, call, future, cancelled>>

Versions == {None} \cup {ApiVersion[o] : o \in Owner}

Kinds == {"read", "commit", "onError"}

DriverPhases == {"new", "open", "draining", "releasing", "barrier", "stopping",
                 "released", "closed"}

\* "taken" is the None that commit and on_error leave behind.
SlotStates == {"none", "active", "taken", "failed", "closed"}

FiberStates == {"idle", "waiting", "interrupting", "ended"}

\* "calling": the thread is inside the callback; "queued": the event loop ran it,
\* which queued a microtask; "returned": the thread left, before that microtask
\* ran; "handled": it ran before the thread left; "none": not started, or over.
FutureStates == {"none", "running", "calling", "queued", "returned", "handled"}

-----------------------------------------------------------------------------

Init ==
  /\ lifecycle = [state |-> "uninitialized", owners |-> 0, version |-> None,
                  network |-> FALSE]
  /\ release = None
  /\ driver = [o \in Owner |-> "new"]
  /\ slot = [o \in Owner |-> "none"]
  /\ fiber = [r \in Request |-> "idle"]
  /\ call = [r \in Request |-> None]
  /\ future = [r \in Request |-> "none"]
  /\ cancelled = {}

\* The map of makeDriver.
Pending(o) == {r \in Request : OwnerOf[r] = o /\ fiber[r] \in {"waiting", "interrupting"}}

\* The requests in ASYNC_TASKS: registered and not taken.
Listed == {r \in Request : future[r] \in {"running", "calling", "queued", "returned"}}

\* TaskActivityState.active.
Active == {r \in Request : future[r] \in {"running", "calling", "queued", "handled"}}

\* The executor's only thread is not inside a callback.
ThreadFree == \A r \in Request : future[r] \notin {"calling", "queued", "handled"}

\* Mutant: the drivers shut down by a blocking call, on the event loop.
LoopFreeBlocking == \A o \in Owner : driver[o] \notin {"barrier", "stopping"}

\* fdb_rs_shutdown is nonblocking: the event loop is never held by it.
LoopFree == TRUE

-----------------------------------------------------------------------------
(* Opening a driver: fdb_rs_init, after the callback was made.  A driver    *)
(* that is refused closes its callback and library at once.                 *)

Joins(o) == lifecycle.state = "running" /\ lifecycle.version = ApiVersion[o]

JoinBridge(o) ==
  /\ driver[o] = "new" /\ Joins(o)
  /\ lifecycle' = [lifecycle EXCEPT !.owners = @ + 1]
  /\ driver' = [driver EXCEPT ![o] = "open"]
  /\ UNCHANGED <<release, slot, fiber, call, future, cancelled>>

BootBridge(o) ==
  /\ driver[o] = "new" /\ lifecycle.state = "uninitialized"
  /\ lifecycle' = [state |-> "running", owners |-> 1, version |-> ApiVersion[o],
                   network |-> TRUE]
  /\ driver' = [driver EXCEPT ![o] = "open"]
  /\ UNCHANGED <<release, slot, fiber, call, future, cancelled>>

BootFails(o) ==
  /\ driver[o] = "new" /\ lifecycle.state = "uninitialized"
  /\ lifecycle' = [lifecycle EXCEPT !.state = "failed"]
  /\ driver' = [driver EXCEPT ![o] = "closed"]
  /\ UNCHANGED <<release, slot, fiber, call, future, cancelled>>

RefuseDriver(o) ==
  /\ driver[o] = "new" /\ lifecycle.state # "uninitialized" /\ ~Joins(o)
  /\ driver' = [driver EXCEPT ![o] = "closed"]
  /\ UNCHANGED <<lifecycle, release, slot, fiber, call, future, cancelled>>

-----------------------------------------------------------------------------
(* The transaction handle.                                                  *)

Usable(o) == driver[o] \notin {"new", "closed"} /\ lifecycle.state = "running"

OpenTransaction(o) ==
  /\ Usable(o) /\ slot[o] = "none"
  /\ slot' = [slot EXCEPT ![o] = "active"]
  /\ UNCHANGED <<lifecycle, release, driver, fiber, call, future, cancelled>>

\* The scope of the handle ends after the fibers that use it have.
CloseTransaction(o) ==
  /\ Usable(o) /\ slot[o] \notin {"none", "closed"} /\ Pending(o) = {}
  /\ slot' = [slot EXCEPT ![o] = "closed"]
  /\ UNCHANGED <<lifecycle, release, driver, fiber, call, future, cancelled>>

\* The states of the slot an operation accepts.
Accepts(kind, state) ==
  state = "active" \/ (kind = "onError" /\ state = "failed")

\* Mutant: a commit leaves the transaction in its slot while it runs.
SlotTakenSharing(kind, state) == IF kind = "onError" THEN "taken" ELSE state

\* commit and on_error take the transaction out of the slot first.
SlotTaken(kind, state) == IF kind = "read" THEN state ELSE "taken"

\* TaskActivity.register: the id is not in the table.
Registers(r) == \A q \in Listed : IdOf[q] # IdOf[r]

-----------------------------------------------------------------------------
(* A request: asyncResult over start_async.                                 *)

Submit(r, kind) ==
  LET o == OwnerOf[r]
  IN /\ fiber[r] = "idle" /\ driver[o] = "open" /\ lifecycle.state = "running"
     /\ Accepts(kind, slot[o]) /\ Registers(r)
     /\ slot' = [slot EXCEPT ![o] = SlotTaken(kind, @)]
     /\ fiber' = [fiber EXCEPT ![r] = "waiting"]
     /\ call' = [call EXCEPT ![r] = kind]
     /\ future' = [future EXCEPT ![r] = "running"]
     /\ UNCHANGED <<lifecycle, release, driver, cancelled>>

\* Answered at once with an error: the driver is closing, the handle is gone or
\* its transaction taken, or the id is in use by another isolate, in which case
\* the transaction was taken for nothing.
Refuse(r, kind) ==
  LET o == OwnerOf[r]
      starts == driver[o] = "open" /\ lifecycle.state = "running"
                  /\ Accepts(kind, slot[o])
  IN /\ fiber[r] = "idle" /\ driver[o] \notin {"new", "closed"}
     /\ ~(starts /\ Registers(r))
     /\ slot' = [slot EXCEPT ![o] = IF starts THEN SlotTaken(kind, @) ELSE @]
     /\ fiber' = [fiber EXCEPT ![r] = "ended"]
     /\ UNCHANGED <<lifecycle, release, driver, call, future, cancelled>>

\* fdb_rs_async_cancel: closing the channel of a completed task does nothing.
WithId(r) == {q \in Listed : IdOf[q] = IdOf[r] /\ future[q] = "running"}

\* Mutant: the fiber leaves as soon as the cancellation is requested.
InterruptDetached(r) ==
  /\ fiber[r] = "waiting"
  /\ fiber' = [fiber EXCEPT ![r] = "ended"]
  /\ cancelled' = cancelled \cup WithId(r)
  /\ UNCHANGED <<lifecycle, release, driver, slot, call, future>>

\* The fiber is interrupted: it cancels and waits for the settlement.
Interrupt(r) ==
  /\ fiber[r] = "waiting"
  /\ fiber' = [fiber EXCEPT ![r] = "interrupting"]
  /\ cancelled' = cancelled \cup WithId(r)
  /\ UNCHANGED <<lifecycle, release, driver, slot, call, future>>

\* What a completed future leaves in the slot of its handle; the slot of a
\* closed handle is out of reach.
SlotAfter(kind, ok, state) ==
  CASE state = "closed"          -> state
    [] kind = "commit" /\ ~ok    -> "failed"
    [] kind = "onError" /\ ok    -> "active"
    [] OTHER                     -> state

\* The completion is stored, the future gone, and the thread in the callback.
Completes(r) ==
  /\ future' = [future EXCEPT ![r] = "calling"]
  /\ call' = [call EXCEPT ![r] = None]
  /\ cancelled' = cancelled \ {r}

\* The operation of a task completes on the executor.
Complete(r, ok) ==
  /\ ThreadFree /\ future[r] = "running"
  /\ slot' = [slot EXCEPT ![OwnerOf[r]] = SlotAfter(call[r], ok, @)]
  /\ Completes(r)
  /\ UNCHANGED <<lifecycle, release, driver, fiber>>

\* The cancellation of a task wins: its future is dropped.
Cancel(r) ==
  /\ ThreadFree /\ future[r] = "running" /\ r \in cancelled
  /\ Completes(r)
  /\ UNCHANGED <<lifecycle, release, driver, slot, fiber>>

\* The event loop runs the callback, which only queues a microtask.
Handle(r) ==
  /\ LoopFree /\ future[r] = "calling"
  /\ future' = [future EXCEPT ![r] = "queued"]
  /\ UNCHANGED <<lifecycle, release, driver, slot, fiber, call, cancelled>>

\* The microtask, complete: async_take and finish, which resumes the fiber or
\* lets its interruption end.
Deliver(r) ==
  /\ LoopFree /\ future[r] \in {"queued", "returned"}
  /\ future' = [future EXCEPT ![r] = IF @ = "queued" THEN "handled" ELSE "none"]
  /\ fiber' = [fiber EXCEPT ![r] = "ended"]
  /\ UNCHANGED <<lifecycle, release, driver, slot, call, cancelled>>

\* The thread leaves the callback and drops the ActiveTask.
Return(r) ==
  /\ future[r] \in {"queued", "handled"}
  /\ future' = [future EXCEPT ![r] = IF @ = "queued" THEN "returned" ELSE "none"]
  /\ UNCHANGED <<lifecycle, release, driver, slot, fiber, call, cancelled>>

-----------------------------------------------------------------------------
(* Releasing a driver: drain, fdb_rs_shutdown, closing the callback.        *)

Drain(o) ==
  /\ driver[o] = "open"
  /\ driver' = [driver EXCEPT ![o] = "draining"]
  /\ cancelled' = cancelled \cup UNION {WithId(r) : r \in Pending(o)}
  /\ UNCHANGED <<lifecycle, release, slot, fiber, call, future>>

Drained(o) ==
  /\ driver[o] = "draining" /\ Pending(o) = {}
  /\ driver' = [driver EXCEPT ![o] = "releasing"]
  /\ UNCHANGED <<lifecycle, release, slot, fiber, call, future, cancelled>>

\* Mutant: releases of drivers are not serialized.
TakesReleaseUnlocked == TRUE

\* OWNER_RELEASE is free.
TakesRelease == release = None

\* Another driver remains.
BeginShared(o) ==
  /\ driver[o] = "releasing" /\ TakesRelease
  /\ lifecycle.state = "running" /\ lifecycle.owners > 1
  /\ release' = o
  /\ driver' = [driver EXCEPT ![o] = "barrier"]
  /\ UNCHANGED <<lifecycle, slot, fiber, call, future, cancelled>>

\* The last driver: Stopped, no task accepted, every task cancelled.
BeginFinal(o) ==
  /\ driver[o] = "releasing" /\ TakesRelease
  /\ lifecycle.state = "running" /\ lifecycle.owners <= 1
  /\ release' = o
  /\ lifecycle' = [lifecycle EXCEPT !.state = "stopped"]
  /\ cancelled' = cancelled \cup {r \in Listed : future[r] = "running"}
  /\ driver' = [driver EXCEPT ![o] = "stopping"]
  /\ UNCHANGED <<slot, fiber, call, future>>

\* Mutant: a shared release does not cross the executor.
BarrierPassesAtOnce(o) ==
  /\ driver[o] = "barrier"
  /\ lifecycle' = [lifecycle EXCEPT !.owners = IF @ <= 1 THEN @ ELSE @ - 1]
  /\ release' = None
  /\ driver' = [driver EXCEPT ![o] = "released"]
  /\ UNCHANGED <<slot, fiber, call, future, cancelled>>

\* The executor ran the barrier task; EXECUTOR_FAILURE leaves the count.
BarrierPasses(o) ==
  /\ driver[o] = "barrier" /\ ThreadFree
  /\ lifecycle' = [lifecycle EXCEPT !.owners = IF @ <= 1 THEN @ ELSE @ - 1]
  /\ release' = None
  /\ driver' = [driver EXCEPT ![o] = "released"]
  /\ UNCHANGED <<slot, fiber, call, future, cancelled>>

\* Every task is gone: handles are cleared, then the network and the executor
\* stop.
FinishStop(o) ==
  /\ driver[o] = "stopping" /\ Active = {}
  /\ slot' = [p \in Owner |-> IF slot[p] = "none" THEN "none" ELSE "closed"]
  /\ lifecycle' = [lifecycle EXCEPT !.owners = 0, !.network = FALSE]
  /\ release' = None
  /\ driver' = [driver EXCEPT ![o] = "released"]
  /\ UNCHANGED <<fiber, call, future, cancelled>>

\* completionCallback.close and library.close.
CloseDriver(o) ==
  /\ driver[o] = "released"
  /\ driver' = [driver EXCEPT ![o] = "closed"]
  /\ UNCHANGED <<lifecycle, release, slot, fiber, call, future, cancelled>>

-----------------------------------------------------------------------------

OwnerStep(o) ==
  \/ JoinBridge(o) \/ BootBridge(o) \/ BootFails(o) \/ RefuseDriver(o)
  \/ OpenTransaction(o) \/ CloseTransaction(o)
  \/ Drain(o) \/ Drained(o) \/ BeginShared(o) \/ BeginFinal(o)
  \/ BarrierPasses(o) \/ FinishStop(o) \/ CloseDriver(o)

RequestStep(r) ==
  \/ \E kind \in Kinds : Submit(r, kind) \/ Refuse(r, kind)
  \/ \E ok \in BOOLEAN : Complete(r, ok)
  \/ Interrupt(r) \/ Cancel(r) \/ Handle(r) \/ Deliver(r) \/ Return(r)

Next == (\E o \in Owner : OwnerStep(o)) \/ (\E r \in Request : RequestStep(r))

Spec == Init /\ [][Next]_vars

\* The thread, the event loop and the shutdown threads run; the network need
\* not answer, and nobody need release a driver.
Fairness ==
  /\ \A r \in Request :
       /\ WF_vars(Cancel(r)) /\ WF_vars(Handle(r))
       /\ WF_vars(Deliver(r)) /\ WF_vars(Return(r))
  /\ \A o \in Owner :
       /\ WF_vars(Drained(o)) /\ WF_vars(BeginShared(o) \/ BeginFinal(o))
       /\ WF_vars(BarrierPasses(o)) /\ WF_vars(FinishStop(o)) /\ WF_vars(CloseDriver(o))

FairSpec == Spec /\ Fairness

-----------------------------------------------------------------------------
(* Properties.                                                              *)

\* Types of the variables.
TypeOK ==
  /\ lifecycle \in [state : {"uninitialized", "running", "failed", "stopped"},
                    owners : Nat, version : Versions, network : BOOLEAN]
  /\ release \in Owner \cup {None}
  /\ driver \in [Owner -> DriverPhases]
  /\ slot \in [Owner -> SlotStates]
  /\ fiber \in [Request -> FiberStates]
  /\ call \in [Request -> Kinds \cup {None}]
  /\ future \in [Request -> FutureStates]
  /\ cancelled \subseteq Request

\* A fiber that left a request, answered or interrupted, left no native future
\* behind, so the scope that closes its transaction handle cannot close it
\* underneath one.
HandlesOutliveFutures ==
  /\ \A r \in Request : fiber[r] = "ended" => future[r] # "running"
  /\ \A o \in Owner : slot[o] = "closed"
                          => \A r \in Request : OwnerOf[r] = o => future[r] # "running"

\* The futures that hold the transaction of a driver outside its slot.
Holders(o) == {r \in Request : OwnerOf[r] = o /\ future[r] = "running"
                                 /\ call[r] \in {"commit", "onError"}}

\* However the fibers of a transaction race, it is in its slot or with a single
\* commit or on_error: a transaction being committed is not used by another.
TransactionHeldOnce ==
  \A o \in Owner :
    /\ \A r, q \in Holders(o) : r = q
    /\ slot[o] \in {"active", "failed"} => Holders(o) = {}

\* When the callback of a driver and its library are closed, no thread can be
\* inside the callback or enter it again, and no fiber waits for it.
ReleasedCleanly ==
  \A o \in Owner : driver[o] = "closed" =>
    /\ Pending(o) = {}
    /\ \A r \in Request : OwnerOf[r] = o => r \notin Active

\* Drivers counted by the lifecycle: initialized and not shut down.
Holding == {o \in Owner : driver[o] \in {"open", "draining", "releasing", "barrier", "stopping"}}

\* The network runs exactly as long as a driver needs it, counted right
\* through overlapping openings and releases, and outlives every future; a
\* driver other than the last never finds the bridge stopped.
NetworkRunsForOwners ==
  /\ lifecycle.owners = Cardinality(Holding)
  /\ lifecycle.network <=> Holding # {}
  /\ \A o \in Holding : driver[o] # "stopping" => lifecycle.state = "running"
  /\ Active # {} => lifecycle.network

\* Releasing a driver ends, whatever its fibers were waiting for, and so does
\* the interruption of a fiber.
ReleaseEnds ==
  /\ \A o \in Owner : driver[o] = "draining" ~> driver[o] = "closed"
  /\ \A r \in Request : fiber[r] = "interrupting" ~> fiber[r] = "ended"
=============================================================================
