------------------------- MODULE NativeBridgeProofs -------------------------
(* Proofs of the safety properties of NativeBridge for any number of        *)
(* drivers and requests.                                                    *)
EXTENDS NativeBridge, FiniteSetTheorems, TLAPS

-----------------------------------------------------------------------------
(* The inductive invariant.                                                 *)

\* A fiber waits exactly while its request is listed.
FibersInStep ==
  \A r \in Request :
    /\ fiber[r] = "idle" => future[r] = "none"
    /\ fiber[r] \in {"waiting", "interrupting"} => future[r] \in {"running", "calling", "queued", "returned"}
    /\ fiber[r] = "ended" => future[r] \in {"none", "handled"}
    /\ future[r] = "running" => call[r] \in Kinds

\* Requests live while their driver is open or drains; only the return of the
\* thread from a callback may come later, and not after the release.
DriversInStep ==
  \A r \in Request :
    /\ future[r] \in {"running", "calling", "queued", "returned"}
         => driver[OwnerOf[r]] \in {"open", "draining"}
    /\ future[r] = "handled" => driver[OwnerOf[r]] \notin {"new", "released", "closed"}

\* The slot of a running future is that of an open handle, and a transaction
\* out of its slot is with one future.
SlotsInStep ==
  /\ \A r \in Request : future[r] = "running"
                          => slot[OwnerOf[r]] \notin {"none", "closed"}
  /\ TransactionHeldOnce

\* The count of owners, with what the holder of OWNER_RELEASE relies on.
OwnersInStep ==
  /\ lifecycle.owners = Cardinality(Holding)
  /\ lifecycle.network <=> Holding # {}
  /\ lifecycle.state = "running" => lifecycle.network
  /\ \A o \in Holding : driver[o] # "stopping" => lifecycle.state = "running"
  /\ \A o \in Owner : driver[o] \in {"barrier", "stopping"} => release = o
  /\ \A o \in Owner : driver[o] = "barrier" => lifecycle.owners > 1
  /\ \A o \in Owner : driver[o] = "stopping"
                        => Holding = {o} /\ lifecycle.state = "stopped"

IInv == TypeOK /\ FibersInStep /\ DriversInStep /\ SlotsInStep /\ OwnersInStep

-----------------------------------------------------------------------------
(* The steps.                                                               *)

\* Every step keeps the types of the variables.
LEMMA TypeStep == TypeOK /\ [Next]_vars => TypeOK'
<1> SUFFICES ASSUME TypeOK, [Next]_vars PROVE TypeOK'
  OBVIOUS
<1> USE BridgeAssumption DEF TypeOK, Versions, Kinds, DriverPhases, SlotStates, FiberStates, FutureStates
<1>1. ASSUME NEW o \in Owner, JoinBridge(o) PROVE TypeOK'
  BY <1>1 DEF JoinBridge
<1>2. ASSUME NEW o \in Owner, BootBridge(o) PROVE TypeOK'
  BY <1>2 DEF BootBridge
<1>3. ASSUME NEW o \in Owner, BootFails(o) PROVE TypeOK'
  BY <1>3 DEF BootFails
<1>4. ASSUME NEW o \in Owner, RefuseDriver(o) PROVE TypeOK'
  BY <1>4 DEF RefuseDriver
<1>5. ASSUME NEW o \in Owner, OpenTransaction(o) PROVE TypeOK'
  BY <1>5 DEF OpenTransaction
<1>6. ASSUME NEW o \in Owner, CloseTransaction(o) PROVE TypeOK'
  BY <1>6 DEF CloseTransaction
<1>7. ASSUME NEW o \in Owner, Drain(o) PROVE TypeOK'
  BY <1>7 DEF Drain, WithId, Listed, Pending
<1>8. ASSUME NEW o \in Owner, Drained(o) PROVE TypeOK'
  BY <1>8 DEF Drained
<1>9. ASSUME NEW o \in Owner, BeginShared(o) PROVE TypeOK'
  BY <1>9 DEF BeginShared
<1>10. ASSUME NEW o \in Owner, BeginFinal(o) PROVE TypeOK'
  BY <1>10 DEF BeginFinal, Listed
<1>11. ASSUME NEW o \in Owner, BarrierPasses(o) PROVE TypeOK'
  BY <1>11 DEF BarrierPasses
<1>12. ASSUME NEW o \in Owner, FinishStop(o) PROVE TypeOK'
  BY <1>12 DEF FinishStop
<1>13. ASSUME NEW o \in Owner, CloseDriver(o) PROVE TypeOK'
  BY <1>13 DEF CloseDriver
<1>14. ASSUME NEW r \in Request, NEW kind \in Kinds, Submit(r, kind) PROVE TypeOK'
  BY <1>14 DEF Submit, SlotTaken
<1>15. ASSUME NEW r \in Request, NEW kind \in Kinds, Refuse(r, kind) PROVE TypeOK'
  BY <1>15 DEF Refuse, SlotTaken
<1>16. ASSUME NEW r \in Request, NEW ok \in BOOLEAN, Complete(r, ok) PROVE TypeOK'
  BY <1>16 DEF Complete, Completes, SlotAfter
<1>17. ASSUME NEW r \in Request, Interrupt(r) PROVE TypeOK'
  BY <1>17 DEF Interrupt, WithId, Listed
<1>18. ASSUME NEW r \in Request, Cancel(r) PROVE TypeOK'
  BY <1>18 DEF Cancel, Completes
<1>19. ASSUME NEW r \in Request, Handle(r) PROVE TypeOK'
  BY <1>19 DEF Handle
<1>20. ASSUME NEW r \in Request, Deliver(r) PROVE TypeOK'
  BY <1>20 DEF Deliver
<1>21. ASSUME NEW r \in Request, Return(r) PROVE TypeOK'
  BY <1>21 DEF Return
<1>22. CASE UNCHANGED vars
  BY <1>22 DEF vars
<1> QED
  BY <1>1, <1>2, <1>3, <1>4, <1>5, <1>6, <1>7, <1>8, <1>9, <1>10, <1>11, <1>12, <1>13, <1>14, <1>15, <1>16, <1>17, <1>18, <1>19, <1>20, <1>21, <1>22 DEF Next, OwnerStep, RequestStep

\* Every step keeps fibers and native futures in step.
LEMMA FibersStep == TypeOK /\ FibersInStep /\ [Next]_vars => FibersInStep'
<1> SUFFICES ASSUME TypeOK, FibersInStep, [Next]_vars PROVE FibersInStep'
  OBVIOUS
<1> USE BridgeAssumption DEF TypeOK, FibersInStep, FiberStates, FutureStates, Kinds
<1>1. ASSUME NEW o \in Owner, JoinBridge(o) PROVE FibersInStep'
  BY <1>1 DEF JoinBridge
<1>2. ASSUME NEW o \in Owner, BootBridge(o) PROVE FibersInStep'
  BY <1>2 DEF BootBridge
<1>3. ASSUME NEW o \in Owner, BootFails(o) PROVE FibersInStep'
  BY <1>3 DEF BootFails
<1>4. ASSUME NEW o \in Owner, RefuseDriver(o) PROVE FibersInStep'
  BY <1>4 DEF RefuseDriver
<1>5. ASSUME NEW o \in Owner, OpenTransaction(o) PROVE FibersInStep'
  BY <1>5 DEF OpenTransaction
<1>6. ASSUME NEW o \in Owner, CloseTransaction(o) PROVE FibersInStep'
  BY <1>6 DEF CloseTransaction
<1>7. ASSUME NEW o \in Owner, Drain(o) PROVE FibersInStep'
  BY <1>7 DEF Drain
<1>8. ASSUME NEW o \in Owner, Drained(o) PROVE FibersInStep'
  BY <1>8 DEF Drained
<1>9. ASSUME NEW o \in Owner, BeginShared(o) PROVE FibersInStep'
  BY <1>9 DEF BeginShared
<1>10. ASSUME NEW o \in Owner, BeginFinal(o) PROVE FibersInStep'
  BY <1>10 DEF BeginFinal
<1>11. ASSUME NEW o \in Owner, BarrierPasses(o) PROVE FibersInStep'
  BY <1>11 DEF BarrierPasses
<1>12. ASSUME NEW o \in Owner, FinishStop(o) PROVE FibersInStep'
  BY <1>12 DEF FinishStop
<1>13. ASSUME NEW o \in Owner, CloseDriver(o) PROVE FibersInStep'
  BY <1>13 DEF CloseDriver
<1>14. ASSUME NEW r \in Request, NEW kind \in Kinds, Submit(r, kind) PROVE FibersInStep'
  BY <1>14 DEF Submit
<1>15. ASSUME NEW r \in Request, NEW kind \in Kinds, Refuse(r, kind) PROVE FibersInStep'
  BY <1>15 DEF Refuse
<1>16. ASSUME NEW r \in Request, NEW ok \in BOOLEAN, Complete(r, ok) PROVE FibersInStep'
  BY <1>16 DEF Complete, Completes
<1>17. ASSUME NEW r \in Request, Interrupt(r) PROVE FibersInStep'
  BY <1>17 DEF Interrupt
<1>18. ASSUME NEW r \in Request, Cancel(r) PROVE FibersInStep'
  BY <1>18 DEF Cancel, Completes
<1>19. ASSUME NEW r \in Request, Handle(r) PROVE FibersInStep'
  BY <1>19 DEF Handle
<1>20. ASSUME NEW r \in Request, Deliver(r) PROVE FibersInStep'
  BY <1>20 DEF Deliver
<1>21. ASSUME NEW r \in Request, Return(r) PROVE FibersInStep'
  BY <1>21 DEF Return
<1>22. CASE UNCHANGED vars
  BY <1>22 DEF vars
<1> QED
  BY <1>1, <1>2, <1>3, <1>4, <1>5, <1>6, <1>7, <1>8, <1>9, <1>10, <1>11, <1>12, <1>13, <1>14, <1>15, <1>16, <1>17, <1>18, <1>19, <1>20, <1>21, <1>22 DEF Next, OwnerStep, RequestStep

\* Every step keeps the requests within the life of their drivers.
LEMMA DriversStep == TypeOK /\ FibersInStep /\ DriversInStep /\ [Next]_vars => DriversInStep'
<1> SUFFICES ASSUME TypeOK, FibersInStep, DriversInStep, [Next]_vars PROVE DriversInStep'
  OBVIOUS
<1> USE BridgeAssumption DEF TypeOK, FibersInStep, DriversInStep, DriverPhases, FiberStates, FutureStates
<1>1. ASSUME NEW o \in Owner, JoinBridge(o) PROVE DriversInStep'
  BY <1>1 DEF JoinBridge
<1>2. ASSUME NEW o \in Owner, BootBridge(o) PROVE DriversInStep'
  BY <1>2 DEF BootBridge
<1>3. ASSUME NEW o \in Owner, BootFails(o) PROVE DriversInStep'
  BY <1>3 DEF BootFails
<1>4. ASSUME NEW o \in Owner, RefuseDriver(o) PROVE DriversInStep'
  BY <1>4 DEF RefuseDriver
<1>5. ASSUME NEW o \in Owner, OpenTransaction(o) PROVE DriversInStep'
  BY <1>5 DEF OpenTransaction
<1>6. ASSUME NEW o \in Owner, CloseTransaction(o) PROVE DriversInStep'
  BY <1>6 DEF CloseTransaction
<1>7. ASSUME NEW o \in Owner, Drain(o) PROVE DriversInStep'
  BY <1>7 DEF Drain
<1>8. ASSUME NEW o \in Owner, Drained(o) PROVE DriversInStep'
  BY <1>8 DEF Drained, Pending
<1>9. ASSUME NEW o \in Owner, BeginShared(o) PROVE DriversInStep'
  BY <1>9 DEF BeginShared
<1>10. ASSUME NEW o \in Owner, BeginFinal(o) PROVE DriversInStep'
  BY <1>10 DEF BeginFinal
<1>11. ASSUME NEW o \in Owner, BarrierPasses(o) PROVE DriversInStep'
  BY <1>11 DEF BarrierPasses, ThreadFree
<1>12. ASSUME NEW o \in Owner, FinishStop(o) PROVE DriversInStep'
  BY <1>12 DEF FinishStop, Active
<1>13. ASSUME NEW o \in Owner, CloseDriver(o) PROVE DriversInStep'
  BY <1>13 DEF CloseDriver
<1>14. ASSUME NEW r \in Request, NEW kind \in Kinds, Submit(r, kind) PROVE DriversInStep'
  BY <1>14 DEF Submit
<1>15. ASSUME NEW r \in Request, NEW kind \in Kinds, Refuse(r, kind) PROVE DriversInStep'
  BY <1>15 DEF Refuse
<1>16. ASSUME NEW r \in Request, NEW ok \in BOOLEAN, Complete(r, ok) PROVE DriversInStep'
  BY <1>16 DEF Complete, Completes
<1>17. ASSUME NEW r \in Request, Interrupt(r) PROVE DriversInStep'
  BY <1>17 DEF Interrupt
<1>18. ASSUME NEW r \in Request, Cancel(r) PROVE DriversInStep'
  BY <1>18 DEF Cancel, Completes
<1>19. ASSUME NEW r \in Request, Handle(r) PROVE DriversInStep'
  BY <1>19 DEF Handle
<1>20. ASSUME NEW r \in Request, Deliver(r) PROVE DriversInStep'
  BY <1>20 DEF Deliver
<1>21. ASSUME NEW r \in Request, Return(r) PROVE DriversInStep'
  BY <1>21 DEF Return
<1>22. CASE UNCHANGED vars
  BY <1>22 DEF vars
<1> QED
  BY <1>1, <1>2, <1>3, <1>4, <1>5, <1>6, <1>7, <1>8, <1>9, <1>10, <1>11, <1>12, <1>13, <1>14, <1>15, <1>16, <1>17, <1>18, <1>19, <1>20, <1>21, <1>22 DEF Next, OwnerStep, RequestStep

\* Every step keeps each transaction in its slot or with one future.
LEMMA SlotsStep == TypeOK /\ FibersInStep /\ DriversInStep /\ SlotsInStep /\ [Next]_vars => SlotsInStep'
<1> SUFFICES ASSUME TypeOK, FibersInStep, DriversInStep, SlotsInStep, [Next]_vars PROVE SlotsInStep'
  OBVIOUS
<1> USE BridgeAssumption DEF TypeOK, FibersInStep, SlotsInStep, TransactionHeldOnce, Holders, SlotStates, FiberStates, FutureStates, Kinds
<1>1. ASSUME NEW o \in Owner, JoinBridge(o) PROVE SlotsInStep'
  BY <1>1 DEF JoinBridge
<1>2. ASSUME NEW o \in Owner, BootBridge(o) PROVE SlotsInStep'
  BY <1>2 DEF BootBridge
<1>3. ASSUME NEW o \in Owner, BootFails(o) PROVE SlotsInStep'
  BY <1>3 DEF BootFails
<1>4. ASSUME NEW o \in Owner, RefuseDriver(o) PROVE SlotsInStep'
  BY <1>4 DEF RefuseDriver
<1>5. ASSUME NEW o \in Owner, OpenTransaction(o) PROVE SlotsInStep'
  BY <1>5 DEF OpenTransaction
<1>6. ASSUME NEW o \in Owner, CloseTransaction(o) PROVE SlotsInStep'
  BY <1>6 DEF CloseTransaction, Pending
<1>7. ASSUME NEW o \in Owner, Drain(o) PROVE SlotsInStep'
  BY <1>7 DEF Drain
<1>8. ASSUME NEW o \in Owner, Drained(o) PROVE SlotsInStep'
  BY <1>8 DEF Drained
<1>9. ASSUME NEW o \in Owner, BeginShared(o) PROVE SlotsInStep'
  BY <1>9 DEF BeginShared
<1>10. ASSUME NEW o \in Owner, BeginFinal(o) PROVE SlotsInStep'
  BY <1>10 DEF BeginFinal
<1>11. ASSUME NEW o \in Owner, BarrierPasses(o) PROVE SlotsInStep'
  BY <1>11 DEF BarrierPasses
<1>12. ASSUME NEW o \in Owner, FinishStop(o) PROVE SlotsInStep'
  BY <1>12 DEF FinishStop, Active
<1>13. ASSUME NEW o \in Owner, CloseDriver(o) PROVE SlotsInStep'
  BY <1>13 DEF CloseDriver
<1>14. ASSUME NEW r \in Request, NEW kind \in Kinds, Submit(r, kind) PROVE SlotsInStep'
  BY <1>14 DEF Submit, Accepts, SlotTaken
<1>15. ASSUME NEW r \in Request, NEW kind \in Kinds, Refuse(r, kind) PROVE SlotsInStep'
  BY <1>15 DEF Refuse, Accepts, SlotTaken
<1>16. ASSUME NEW r \in Request, NEW ok \in BOOLEAN, Complete(r, ok) PROVE SlotsInStep'
  BY <1>16 DEF Complete, Completes, SlotAfter
<1>17. ASSUME NEW r \in Request, Interrupt(r) PROVE SlotsInStep'
  BY <1>17 DEF Interrupt
<1>18. ASSUME NEW r \in Request, Cancel(r) PROVE SlotsInStep'
  BY <1>18 DEF Cancel, Completes
<1>19. ASSUME NEW r \in Request, Handle(r) PROVE SlotsInStep'
  BY <1>19 DEF Handle
<1>20. ASSUME NEW r \in Request, Deliver(r) PROVE SlotsInStep'
  BY <1>20 DEF Deliver
<1>21. ASSUME NEW r \in Request, Return(r) PROVE SlotsInStep'
  BY <1>21 DEF Return
<1>22. CASE UNCHANGED vars
  BY <1>22 DEF vars
<1> QED
  BY <1>1, <1>2, <1>3, <1>4, <1>5, <1>6, <1>7, <1>8, <1>9, <1>10, <1>11, <1>12, <1>13, <1>14, <1>15, <1>16, <1>17, <1>18, <1>19, <1>20, <1>21, <1>22 DEF Next, OwnerStep, RequestStep

\* Finitely many drivers are counted.
LEMMA HoldingFinite == IsFiniteSet(Holding)
BY FS_Subset, BridgeAssumption DEF Holding

\* Every step keeps the count of owners exact.
LEMMA OwnersStep == TypeOK /\ OwnersInStep /\ [Next]_vars => OwnersInStep'
<1> SUFFICES ASSUME TypeOK, OwnersInStep, [Next]_vars PROVE OwnersInStep'
  OBVIOUS
<1> USE BridgeAssumption DEF TypeOK, OwnersInStep, DriverPhases
<1>1. ASSUME NEW o \in Owner, JoinBridge(o) PROVE OwnersInStep'
  <2>1. o \notin Holding /\ Holding' = Holding \cup {o}
    BY <1>1 DEF JoinBridge, Holding
  <2>2. Cardinality(Holding') = Cardinality(Holding) + 1
    BY ONLY <2>1, HoldingFinite, FS_AddElement
  <2> QED
    BY <1>1, <2>1, <2>2 DEF JoinBridge, Joins
<1>2. ASSUME NEW o \in Owner, BootBridge(o) PROVE OwnersInStep'
  <2>1. Holding = {}
    BY <1>2 DEF BootBridge, Holding
  <2>2. Holding' = {o}
    BY <1>2, <2>1 DEF BootBridge, Holding
  <2>3. Cardinality(Holding') = 1
    BY <2>2, FS_Singleton
  <2> QED
    BY <1>2, <2>1, <2>2, <2>3 DEF BootBridge, Holding
<1>3. ASSUME NEW o \in Owner, BootFails(o) PROVE OwnersInStep'
  <2>1. Holding = {}
    BY <1>3 DEF BootFails, Holding
  <2>2. Holding' = Holding
    BY <1>3, <2>1 DEF BootFails, Holding
  <2> QED
    BY <1>3, <2>1, <2>2 DEF BootFails
<1>4. ASSUME NEW o \in Owner, RefuseDriver(o) PROVE OwnersInStep'
  <2>1. o \notin Holding /\ Holding' = Holding
    BY <1>4 DEF RefuseDriver, Holding
  <2> QED
    BY <1>4, <2>1 DEF RefuseDriver
<1>5. ASSUME NEW o \in Owner, OpenTransaction(o) PROVE OwnersInStep'
  BY <1>5 DEF OpenTransaction, Holding
<1>6. ASSUME NEW o \in Owner, CloseTransaction(o) PROVE OwnersInStep'
  BY <1>6 DEF CloseTransaction, Holding
<1>7. ASSUME NEW o \in Owner, Drain(o) PROVE OwnersInStep'
  <2>1. o \in Holding /\ Holding' = Holding
    BY <1>7 DEF Drain, Holding
  <2> QED
    BY <1>7, <2>1 DEF Drain
<1>8. ASSUME NEW o \in Owner, Drained(o) PROVE OwnersInStep'
  <2>1. o \in Holding /\ Holding' = Holding
    BY <1>8 DEF Drained, Holding
  <2> QED
    BY <1>8, <2>1 DEF Drained
<1>9. ASSUME NEW o \in Owner, BeginShared(o) PROVE OwnersInStep'
  <2>1. o \in Holding /\ Holding' = Holding
    BY <1>9 DEF BeginShared, Holding
  <2> QED
    BY <1>9, <2>1 DEF BeginShared, TakesRelease
<1>10. ASSUME NEW o \in Owner, BeginFinal(o) PROVE OwnersInStep'
  <2>1. o \in Holding /\ Holding' = Holding
    BY <1>10 DEF BeginFinal, Holding
  <2>2. Holding = {o}
    <3>1. Cardinality(Holding) <= 1
      BY <1>10 DEF BeginFinal
    <3>2. /\ IsFiniteSet(Holding \ {o}) /\ Cardinality(Holding \ {o}) \in Nat
          /\ Cardinality(Holding \ {o}) = Cardinality(Holding) - 1
          /\ Cardinality(Holding) \in Nat
      BY ONLY <2>1, HoldingFinite, FS_RemoveElement, FS_CardinalityType
    <3>3. Cardinality(Holding \ {o}) = 0
      BY ONLY <3>1, <3>2
    <3>4. Holding \ {o} = {}
      BY ONLY <3>2, <3>3, FS_EmptySet
    <3> QED
      BY ONLY <2>1, <3>4
  <2> QED
    BY <1>10, <2>1, <2>2 DEF BeginFinal, TakesRelease
<1>11. ASSUME NEW o \in Owner, BarrierPasses(o) PROVE OwnersInStep'
  <2>1. o \in Holding /\ Holding' = Holding \ {o}
    BY <1>11 DEF BarrierPasses, Holding
  <2>2. Cardinality(Holding') = Cardinality(Holding) - 1
    BY ONLY <2>1, HoldingFinite, FS_RemoveElement
  <2>3. lifecycle.owners > 1 /\ lifecycle.owners' = lifecycle.owners - 1
    BY <1>11 DEF BarrierPasses
  <2>4. Holding' # {}
    <3>1. Cardinality(Holding) > 1 /\ Cardinality(Holding) \in Nat
      BY <2>3
    <3>2. Cardinality(Holding') # 0
      BY ONLY <2>2, <3>1
    <3> QED
      BY ONLY <3>2, FS_EmptySet
  <2> QED
    BY <1>11, <2>1, <2>2, <2>3, <2>4 DEF BarrierPasses
<1>12. ASSUME NEW o \in Owner, FinishStop(o) PROVE OwnersInStep'
  <2>1. Holding = {o} /\ Holding' = {}
    BY <1>12 DEF FinishStop, Holding
  <2>2. Cardinality(Holding') = 0
    BY <2>1, FS_EmptySet
  <2> QED
    BY <1>12, <2>1, <2>2 DEF FinishStop
<1>13. ASSUME NEW o \in Owner, CloseDriver(o) PROVE OwnersInStep'
  <2>1. o \notin Holding /\ Holding' = Holding
    BY <1>13 DEF CloseDriver, Holding
  <2> QED
    BY <1>13, <2>1 DEF CloseDriver
<1>14. ASSUME NEW r \in Request, NEW kind \in Kinds, Submit(r, kind) PROVE OwnersInStep'
  BY <1>14 DEF Submit, Holding
<1>15. ASSUME NEW r \in Request, NEW kind \in Kinds, Refuse(r, kind) PROVE OwnersInStep'
  BY <1>15 DEF Refuse, Holding
<1>16. ASSUME NEW r \in Request, NEW ok \in BOOLEAN, Complete(r, ok) PROVE OwnersInStep'
  BY <1>16 DEF Complete, Completes, Holding
<1>17. ASSUME NEW r \in Request, Interrupt(r) PROVE OwnersInStep'
  BY <1>17 DEF Interrupt, Holding
<1>18. ASSUME NEW r \in Request, Cancel(r) PROVE OwnersInStep'
  BY <1>18 DEF Cancel, Completes, Holding
<1>19. ASSUME NEW r \in Request, Handle(r) PROVE OwnersInStep'
  BY <1>19 DEF Handle, Holding
<1>20. ASSUME NEW r \in Request, Deliver(r) PROVE OwnersInStep'
  BY <1>20 DEF Deliver, Holding
<1>21. ASSUME NEW r \in Request, Return(r) PROVE OwnersInStep'
  BY <1>21 DEF Return, Holding
<1>22. CASE UNCHANGED vars
  BY <1>22 DEF vars, Holding
<1> QED
  BY <1>1, <1>2, <1>3, <1>4, <1>5, <1>6, <1>7, <1>8, <1>9, <1>10, <1>11, <1>12, <1>13, <1>14, <1>15, <1>16, <1>17, <1>18, <1>19, <1>20, <1>21, <1>22 DEF Next, OwnerStep, RequestStep

-----------------------------------------------------------------------------
(* The theorems.                                                            *)

\* The inductive invariant holds of every reachable state.
THEOREM Inductive == Spec => []IInv
<1>1. Init => IInv
  <2> SUFFICES ASSUME Init PROVE IInv
    OBVIOUS
  <2>1. Holding = {} /\ Cardinality(Holding) = 0
    BY FS_EmptySet DEF Init, Holding
  <2> QED
    BY <2>1, BridgeAssumption
    DEF Init, IInv, TypeOK, FibersInStep, DriversInStep, SlotsInStep, OwnersInStep,
        TransactionHeldOnce, Holders, Versions, DriverPhases, SlotStates,
        FiberStates, FutureStates
<1>2. IInv /\ [Next]_vars => IInv'
  BY TypeStep, FibersStep, DriversStep, SlotsStep, OwnersStep DEF IInv
<1> QED
  BY <1>1, <1>2, PTL DEF Spec

\* The variables keep their types.
THEOREM TypeCorrect == Spec => []TypeOK
<1>1. IInv => TypeOK
  BY DEF IInv
<1> QED
  BY <1>1, Inductive, PTL

\* A fiber that left asyncResult left no native future behind, nor does a
\* handle close underneath one.
THEOREM FuturesBounded == Spec => []HandlesOutliveFutures
<1>1. IInv => HandlesOutliveFutures
  BY DEF IInv, FibersInStep, SlotsInStep, HandlesOutliveFutures
<1> QED
  BY <1>1, Inductive, PTL

\* commit and on_error never share a transaction with another future.
THEOREM HeldOnce == Spec => []TransactionHeldOnce
<1>1. IInv => TransactionHeldOnce
  BY DEF IInv, SlotsInStep
<1> QED
  BY <1>1, Inductive, PTL

\* A driver is closed only when no thread can reach its callback.
THEOREM ReleaseClean == Spec => []ReleasedCleanly
<1>1. IInv => ReleasedCleanly
  BY DEF IInv, TypeOK, FibersInStep, DriversInStep, ReleasedCleanly, Pending, Active,
     FiberStates, FutureStates
<1> QED
  BY <1>1, Inductive, PTL

\* The network runs exactly while a driver holds it, and outlives the futures.
THEOREM NetworkHeld == Spec => []NetworkRunsForOwners
<1>1. IInv => NetworkRunsForOwners
  BY BridgeAssumption
  DEF IInv, TypeOK, DriversInStep, OwnersInStep, NetworkRunsForOwners, Active, Holding,
      DriverPhases
<1> QED
  BY <1>1, Inductive, PTL
=============================================================================
