------------------------- MODULE GpuOwnershipProofs -------------------------
(***************************************************************************)
(* Proofs about GpuOwnership, for any number of runs, workers and          *)
(* operators.  IInv is inductive whatever faults happen; WorkInv needs      *)
(* Fault = {}.  Each lemma <Part>Step takes one conjunct of them through    *)
(* every action; the theorems at the end of each part collect them.         *)
(***************************************************************************)
EXTENDS GpuOwnership, TLAPS

USE DEF run, mem, locks, rec, disk, device, docker, work, recovery, vars

-----------------------------------------------------------------------------
(* Part 1: no assumption on Fault.                                          *)

LEMMA TypeStep ==
  TypeOK /\ [Next]_vars => TypeOK'
<1> SUFFICES ASSUME TypeOK, [Next]_vars PROVE TypeOK'
  OBVIOUS
<1> USE DEF TypeOK, RunPC, WorkerPC, OperatorPC, Blocker, RecordState,
      Admission, Policy, Container
<1>1. ASSUME NEW p \in Lease, Enter(p) PROVE TypeOK'
  BY <1>1 DEF Enter, Start, Step, Goto, AcquireOwnership, OwnershipTimeout,
      PassGate, TakeExecution, ObserveInitial, Abandon
<1>2. ASSUME NEW p \in Lease, Publish(p) PROVE TypeOK'
  BY <1>2 DEF Publish, PublishHeld, Step, Goto, PublishRecord, Activated,
      RecordDue, PublishRecordFails
<1>3. ASSUME NEW p \in Lease, Activate(p) PROVE TypeOK'
  <2>1. CASE BeginActivation(p)
    BY <2>1 DEF BeginActivation, Step, Goto
  <2>2. CASE PeakVerified(p)
    BY <2>2 DEF PeakVerified, Step, Goto
  <2>3. CASE PeakFails(p)
    BY <2>3 DEF PeakFails, Step, Goto
  <2>4. CASE Supervise(p)
    <3>1. pc' \in [Lease -> RunPC]
      BY <2>4 DEF Supervise, Step, Goto
    <3>2. supervised' \in [Lease -> BOOLEAN]
      <4>1. supervised' = supervised \/ supervised' = [supervised EXCEPT ![p] = TRUE]
        BY <2>4 DEF Supervise
      <4>2. [supervised EXCEPT ![p] = TRUE] \in [Lease -> BOOLEAN]
        OBVIOUS
      <4> QED
        BY <4>1, <4>2
    <3>3. UNCHANGED << run, mem, locks, recState, recBlocker, adm, device, docker, work, recovery >>
      BY <2>4 DEF Supervise
    <3> QED
      BY <3>1, <3>2, <3>3
  <2>5. CASE Unwind(p)
    BY <2>5 DEF Unwind, Goto
  <2> QED
    BY <1>3, <2>1, <2>2, <2>3, <2>4, <2>5 DEF Activate
<1>4. ASSUME NEW p \in Lease, Body(p) PROVE TypeOK'
  <2>1. CASE StartClient(p)
    BY <2>1 DEF StartClient
  <2>2. CASE EndBody(p)
    BY <2>2 DEF EndBody, Step, Goto, KillWorkers
  <2>3. CASE RemoveContainer(p)
    BY <2>3 DEF RemoveContainer, Step, Goto, KillWorkers
  <2>4. CASE RemovalUnverified(p)
    BY <2>4 DEF RemovalUnverified, Step, Goto
  <2>5. CASE CidUnreadable(p)
    BY <2>5 DEF CidUnreadable, Step, Goto
  <2>6. CASE Synchronized(p)
    BY <2>6 DEF Synchronized, Step, Goto
  <2>7. CASE SynchronizeFails(p)
    BY <2>7 DEF SynchronizeFails, Step, Goto
  <2> QED
    BY <1>4, <2>1, <2>2, <2>3, <2>4, <2>5, <2>6, <2>7 DEF Body
<1>5. ASSUME NEW p \in Lease, Restore(p) PROVE TypeOK'
  <2>1. CASE BeginReset(p)
    BY <2>1 DEF BeginReset, Step, Goto
  <2>2. CASE ReleaseUnset(p)
    <3>1. pc' \in [Lease -> RunPC]
      BY <2>2 DEF ReleaseUnset, Step, Goto
    <3>2. released' \in [Lease -> BOOLEAN]
      <4>1. released' = released \/ released' = [released EXCEPT ![p] = TRUE]
        BY <2>2 DEF ReleaseUnset
      <4>2. [released EXCEPT ![p] = TRUE] \in [Lease -> BOOLEAN]
        OBVIOUS
      <4> QED
        BY <4>1, <4>2
    <3>3. UNCHANGED << run, blocker, locks, disk, device, docker, work, recovery >>
      BY <2>2 DEF ReleaseUnset
    <3> QED
      BY <3>1, <3>2, <3>3
  <2>3. CASE ResetVerified(p)
    BY <2>3 DEF ResetVerified, Step, Goto
  <2>4. CASE ResetFails(p)
    BY <2>4 DEF ResetFails, Step, Goto
  <2> QED
    BY <1>5, <2>1, <2>2, <2>3, <2>4 DEF Restore
<1>6. ASSUME NEW p \in Lease, Resolve(p) PROVE TypeOK'
  BY <1>6 DEF Resolve, WriteFinal, Step, Goto, FinalRecord, WriteFinalFails,
      ReleaseAdmission, PublishedReady, ReleaseAdmissionFails, ReadyFails
<1>7. ASSUME NEW p \in Lease, Unlock(p) PROVE TypeOK'
  BY <1>7 DEF Unlock, Step, Goto, FreeLocks
<1>8. ASSUME NEW p \in Lease, Crash(p) PROVE TypeOK'
  BY <1>8 DEF Crash, Goto, FreeLocks
<1>9. ASSUME NEW p \in Lease, WorldAction(p) PROVE TypeOK'
  <2>1. CASE SetterLands(p)
    BY <2>1 DEF SetterLands
  <2>2. CASE CreateContainer(p)
    BY <2>2 DEF CreateContainer
  <2>3. CASE RunContainer(p)
    BY <2>3 DEF RunContainer
  <2>4. CASE ContainerExits(p)
    BY <2>4 DEF ContainerExits, KillWorkers
  <2> QED
    BY <1>9, <2>1, <2>2, <2>3, <2>4 DEF WorldAction
<1>10. ASSUME NEW w \in Worker, WorkerAction(w) PROVE TypeOK'
  BY <1>10 DEF WorkerAction, Spawn, WorkerStep, ReadOwner, ProbeOwner,
      WorkerTakesExecution, EnterGpu, WorkerEnds, KillWorkers
<1>11. ASSUME NEW o \in Operator, OperatorAction(o) PROVE TypeOK'
  BY <1>11 DEF OperatorAction, BeginRecovery, OpStep, InspectOwner,
      InspectDevice, WriteRecovered, RecoverAdmission, PublishedReady,
      ReadyFails, EndRecovery
<1>12. ASSUME OperatorSetsAuto PROVE TypeOK'
  BY <1>12 DEF OperatorSetsAuto
<1>13. ASSUME NEW l \in Lease, OperatorRemovesContainer(l) PROVE TypeOK'
  BY <1>13 DEF OperatorRemovesContainer, KillWorkers
<1>14. CASE UNCHANGED vars
  BY <1>14
<1>15. QED
  BY <1>1, <1>2, <1>3, <1>4, <1>5, <1>6, <1>7, <1>8, <1>9, <1>10, <1>11,
      <1>12, <1>13, <1>14 DEF Next, RunAction

(* Every variable keeps its type: the durable records, the admission record   *)
(* and the locks only ever hold values the readers of the code know.          *)
THEOREM TypeCorrect == Spec => []TypeOK
<1>1. Init => TypeOK
  BY ConfigAssumption DEF Init, TypeOK, RunPC, WorkerPC, OperatorPC, Blocker,
      RecordState, Admission, Policy, Container
<1>2. QED
  BY <1>1, TypeStep, PTL DEF Spec

(* A run takes L1 before the gate and frees it last; so does the operator. *)
LEMMA OwnershipInvStep ==
  IInv /\ [Next]_vars => OwnershipInv'
<1> SUFFICES ASSUME IInv, [Next]_vars PROVE OwnershipInv'
  OBVIOUS
<1> USE ActorAssumption DEF TypeOK, IInv, OwnershipInv, HoldsL1
<1>1. ASSUME NEW p \in Lease, Enter(p) PROVE OwnershipInv'
  BY <1>1 DEF Enter, Start, Step, Goto, AcquireOwnership, OwnershipTimeout,
      PassGate, Unresolved, Visible, Ready, TakeExecution, ObserveInitial,
      Abandon
<1>2. ASSUME NEW p \in Lease, Publish(p) PROVE OwnershipInv'
  BY <1>2 DEF Publish, PublishHeld, Step, Goto, PublishRecord, Activated,
      RecordDue, PublishRecordFails
<1>3. ASSUME NEW p \in Lease, Activate(p) PROVE OwnershipInv'
  BY <1>3 DEF Activate, BeginActivation, Step, Goto, PeakVerified, PeakFails,
      Supervise, Unwind
<1>4. ASSUME NEW p \in Lease, Body(p) PROVE OwnershipInv'
  BY <1>4 DEF Body, StartClient, EndBody, Step, Goto, RemoveContainer,
      RemovalUnverified, CidUnreadable, Synchronized, SynchronizeFails
<1>5. ASSUME NEW p \in Lease, Restore(p) PROVE OwnershipInv'
  BY <1>5 DEF Restore, BeginReset, Step, Goto, ReleaseUnset, ResetVerified,
      ResetFails
<1>6. ASSUME NEW p \in Lease, Resolve(p) PROVE OwnershipInv'
  BY <1>6 DEF Resolve, WriteFinal, Step, Goto, FinalRecord, WriteFinalFails,
      ReleaseAdmission, OwnsAdmission, PublishedReady, ReleaseAdmissionFails,
      ReadyFails
<1>7. ASSUME NEW p \in Lease, Unlock(p) PROVE OwnershipInv'
  BY <1>7 DEF Unlock, Step, Goto, FreeLocks
<1>8. ASSUME NEW p \in Lease, Crash(p) PROVE OwnershipInv'
  BY <1>8 DEF Crash, Goto, FreeLocks, Alive
<1>9. ASSUME NEW p \in Lease, WorldAction(p) PROVE OwnershipInv'
  BY <1>9 DEF WorldAction, SetterLands, CreateContainer, RunContainer,
      ContainerExits
<1>10. ASSUME NEW w \in Worker, WorkerAction(w) PROVE OwnershipInv'
  BY <1>10 DEF WorkerAction, Spawn, WorkerStep, ReadOwner, ProbeOwner,
      WorkerTakesExecution, EnterGpu, WorkerEnds
<1>11. ASSUME NEW o \in Operator, OperatorAction(o) PROVE OwnershipInv'
  BY <1>11 DEF OperatorAction, BeginRecovery, OpStep, ManuallyStopped,
      InspectOwner, OwnsAdmission, InspectDevice, WriteRecovered,
      RecoverAdmission, PublishedReady, ReadyFails, EndRecovery
<1>12. ASSUME OperatorSetsAuto PROVE OwnershipInv'
  BY <1>12 DEF OperatorSetsAuto, Abandoned, Unresolved
<1>13. ASSUME NEW l \in Lease, OperatorRemovesContainer(l) PROVE OwnershipInv'
  BY <1>13 DEF OperatorRemovesContainer, Abandoned, Unresolved
<1>14. CASE UNCHANGED vars
  BY <1>14
<1>15. QED
  BY <1>1, <1>2, <1>3, <1>4, <1>5, <1>6, <1>7, <1>8, <1>9, <1>10, <1>11,
      <1>12, <1>13, <1>14 DEF Next, RunAction

(* The gate is passed under L1 with nothing unresolved in sight, and in sight
   is everything: either the records of all, or the admission record. *)
LEMMA GateInvStep ==
  IInv /\ [Next]_vars => GateInv'
<1> SUFFICES ASSUME IInv, [Next]_vars PROVE GateInv'
  OBVIOUS
<1> USE ActorAssumption, GateAssumption DEF TypeOK, IInv, OwnershipInv,
      HoldsL1, RunPC, GateInv, SoleResponsibility, Unresolved, Cleared,
      Responsible, AdmissionInv, OwnsAdmission
<1>1. ASSUME NEW p \in Lease, Enter(p) PROVE GateInv'
  BY <1>1 DEF Enter, Start, Step, Goto, AcquireOwnership, OwnershipTimeout,
      PassGate, Visible, Ready, TakeExecution, ObserveInitial, Abandon
<1>2. ASSUME NEW p \in Lease, Publish(p) PROVE GateInv'
  BY <1>2 DEF Publish, PublishHeld, Step, Goto, PublishRecord, Activated,
      RecordDue, PublishRecordFails
<1>3. ASSUME NEW p \in Lease, Activate(p) PROVE GateInv'
  BY <1>3 DEF Activate, BeginActivation, Step, Goto, PeakVerified, PeakFails,
      Supervise, Unwind
<1>4. ASSUME NEW p \in Lease, Body(p) PROVE GateInv'
  BY <1>4 DEF Body, StartClient, EndBody, Step, Goto, RemoveContainer,
      RemovalUnverified, CidUnreadable, Synchronized, SynchronizeFails
<1>5. ASSUME NEW p \in Lease, Restore(p) PROVE GateInv'
  BY <1>5 DEF Restore, BeginReset, Step, Goto, ReleaseUnset, ResetVerified,
      ResetFails
<1>6. ASSUME NEW p \in Lease, Resolve(p) PROVE GateInv'
  <2>1. CASE WriteFinal(p)
    BY <2>1 DEF WriteFinal, Step, Goto, FinalRecord
  <2>2. CASE WriteFinalFails(p)
    BY <2>2 DEF WriteFinalFails, Step, Goto, FinalRecord
  <2>3. CASE ReleaseAdmission(p)
    BY <2>3 DEF ReleaseAdmission, Step, Goto, PublishedReady
  <2>4. CASE ReleaseAdmissionFails(p)
    BY <2>4 DEF ReleaseAdmissionFails, Step, Goto, ReadyFails, PublishedReady
  <2> QED
    BY <1>6, <2>1, <2>2, <2>3, <2>4 DEF Resolve
<1>7. ASSUME NEW p \in Lease, Unlock(p) PROVE GateInv'
  BY <1>7 DEF Unlock, Step, Goto, FreeLocks
<1>8. ASSUME NEW p \in Lease, Crash(p) PROVE GateInv'
  BY <1>8 DEF Crash, Goto, FreeLocks, Alive
<1>9. ASSUME NEW p \in Lease, WorldAction(p) PROVE GateInv'
  BY <1>9 DEF WorldAction, SetterLands, CreateContainer, RunContainer,
      ContainerExits
<1>10. ASSUME NEW w \in Worker, WorkerAction(w) PROVE GateInv'
  BY <1>10 DEF WorkerAction, Spawn, WorkerStep, ReadOwner, ProbeOwner,
      WorkerTakesExecution, EnterGpu, WorkerEnds
<1>11. ASSUME NEW o \in Operator, OperatorAction(o) PROVE GateInv'
  <2>1. CASE \E l \in Lease : BeginRecovery(o, l)
    BY <2>1 DEF BeginRecovery, OpStep
  <2>2. CASE InspectOwner(o) \/ InspectDevice(o)
    BY <2>2 DEF InspectOwner, InspectDevice, OpStep
  <2>3. CASE WriteRecovered(o)
    BY <2>3 DEF WriteRecovered, OpStep
  <2>4. CASE RecoverAdmission(o)
    BY <2>4 DEF RecoverAdmission, OpStep, PublishedReady, ReadyFails
  <2>5. CASE EndRecovery(o)
    BY <2>5 DEF EndRecovery
  <2> QED
    BY <1>11, <2>1, <2>2, <2>3, <2>4, <2>5 DEF OperatorAction
<1>12. ASSUME OperatorSetsAuto PROVE GateInv'
  BY <1>12 DEF OperatorSetsAuto, Abandoned
<1>13. ASSUME NEW l \in Lease, OperatorRemovesContainer(l) PROVE GateInv'
  BY <1>13 DEF OperatorRemovesContainer, Abandoned
<1>14. CASE UNCHANGED vars
  BY <1>14
<1>15. QED
  BY <1>1, <1>2, <1>3, <1>4, <1>5, <1>6, <1>7, <1>8, <1>9, <1>10, <1>11,
      <1>12, <1>13, <1>14 DEF Next, RunAction

(* HELD is published before the record, and given back after it. *)
LEMMA AdmissionInvStep ==
  IInv /\ [Next]_vars => AdmissionInv'
<1> SUFFICES ASSUME IInv, [Next]_vars PROVE AdmissionInv'
  OBVIOUS
<1> USE ActorAssumption DEF TypeOK, IInv, OwnershipInv, HoldsL1, GateInv,
      Unresolved, Responsible, AdmissionInv, OwnsAdmission
<1>1. ASSUME NEW p \in Lease, Enter(p) PROVE AdmissionInv'
  BY <1>1 DEF Enter, Start, Step, Goto, AcquireOwnership, OwnershipTimeout,
      PassGate, Visible, Ready, TakeExecution, ObserveInitial, Abandon
<1>2. ASSUME NEW p \in Lease, Publish(p) PROVE AdmissionInv'
  BY <1>2 DEF Publish, PublishHeld, Step, Goto, PublishRecord, Activated,
      RecordDue, PublishRecordFails
<1>3. ASSUME NEW p \in Lease, Activate(p) PROVE AdmissionInv'
  BY <1>3 DEF Activate, BeginActivation, Step, Goto, PeakVerified, PeakFails,
      Supervise, Unwind
<1>4. ASSUME NEW p \in Lease, Body(p) PROVE AdmissionInv'
  BY <1>4 DEF Body, StartClient, EndBody, Step, Goto, RemoveContainer,
      RemovalUnverified, CidUnreadable, Synchronized, SynchronizeFails
<1>5. ASSUME NEW p \in Lease, Restore(p) PROVE AdmissionInv'
  BY <1>5 DEF Restore, BeginReset, Step, Goto, ReleaseUnset, ResetVerified,
      ResetFails
<1>6. ASSUME NEW p \in Lease, Resolve(p) PROVE AdmissionInv'
  BY <1>6 DEF Resolve, WriteFinal, Step, Goto, FinalRecord, WriteFinalFails,
      ReleaseAdmission, PublishedReady, ReleaseAdmissionFails, ReadyFails
<1>7. ASSUME NEW p \in Lease, Unlock(p) PROVE AdmissionInv'
  BY <1>7 DEF Unlock, Step, Goto, FreeLocks
<1>8. ASSUME NEW p \in Lease, Crash(p) PROVE AdmissionInv'
  BY <1>8 DEF Crash, Goto, FreeLocks, Alive
<1>9. ASSUME NEW p \in Lease, WorldAction(p) PROVE AdmissionInv'
  BY <1>9 DEF WorldAction, SetterLands, CreateContainer, RunContainer,
      ContainerExits
<1>10. ASSUME NEW w \in Worker, WorkerAction(w) PROVE AdmissionInv'
  BY <1>10 DEF WorkerAction, Spawn, WorkerStep, ReadOwner, ProbeOwner,
      WorkerTakesExecution, EnterGpu, WorkerEnds
<1>11. ASSUME NEW o \in Operator, OperatorAction(o) PROVE AdmissionInv'
  BY <1>11 DEF OperatorAction, BeginRecovery, OpStep, ManuallyStopped,
      InspectOwner, InspectDevice, WriteRecovered, RecoverAdmission,
      PublishedReady, ReadyFails, EndRecovery
<1>12. ASSUME OperatorSetsAuto PROVE AdmissionInv'
  BY <1>12 DEF OperatorSetsAuto, Abandoned
<1>13. ASSUME NEW l \in Lease, OperatorRemovesContainer(l) PROVE AdmissionInv'
  BY <1>13 DEF OperatorRemovesContainer, Abandoned
<1>14. CASE UNCHANGED vars
  BY <1>14
<1>15. QED
  BY <1>1, <1>2, <1>3, <1>4, <1>5, <1>6, <1>7, <1>8, <1>9, <1>10, <1>11,
      <1>12, <1>13, <1>14 DEF Next, RunAction

(* A clock command is in flight only under its run's unresolved record. *)
LEMMA SetterInvStep ==
  IInv /\ [Next]_vars => SetterInv'
<1> SUFFICES ASSUME IInv, [Next]_vars PROVE SetterInv'
  OBVIOUS
<1> USE ActorAssumption DEF TypeOK, IInv, OwnershipInv, HoldsL1, GateInv,
      Unresolved, Responsible, SetterInv
<1>1. ASSUME NEW p \in Lease, Enter(p) PROVE SetterInv'
  BY <1>1 DEF Enter, Start, Step, Goto, AcquireOwnership, OwnershipTimeout,
      PassGate, Visible, Ready, TakeExecution, ObserveInitial, Abandon
<1>2. ASSUME NEW p \in Lease, Publish(p) PROVE SetterInv'
  BY <1>2 DEF Publish, PublishHeld, Step, Goto, PublishRecord, Activated,
      RecordDue, PublishRecordFails
<1>3. ASSUME NEW p \in Lease, Activate(p) PROVE SetterInv'
  BY <1>3 DEF Activate, BeginActivation, Step, Goto, PeakVerified, PeakFails,
      Supervise, Unwind
<1>4. ASSUME NEW p \in Lease, Body(p) PROVE SetterInv'
  BY <1>4 DEF Body, StartClient, EndBody, Step, Goto, RemoveContainer,
      RemovalUnverified, CidUnreadable, Synchronized, SynchronizeFails
<1>5. ASSUME NEW p \in Lease, Restore(p) PROVE SetterInv'
  BY <1>5 DEF Restore, BeginReset, Step, Goto, ReleaseUnset, ResetVerified,
      ResetFails
<1>6. ASSUME NEW p \in Lease, Resolve(p) PROVE SetterInv'
  BY <1>6 DEF Resolve, WriteFinal, Step, Goto, FinalRecord, WriteFinalFails,
      ReleaseAdmission, OwnsAdmission, PublishedReady, ReleaseAdmissionFails,
      ReadyFails
<1>7. ASSUME NEW p \in Lease, Unlock(p) PROVE SetterInv'
  BY <1>7 DEF Unlock, Step, Goto, FreeLocks
<1>8. ASSUME NEW p \in Lease, Crash(p) PROVE SetterInv'
  BY <1>8 DEF Crash, Goto, FreeLocks, Alive
<1>9. ASSUME NEW p \in Lease, WorldAction(p) PROVE SetterInv'
  BY <1>9 DEF WorldAction, SetterLands, CreateContainer, RunContainer,
      ContainerExits
<1>10. ASSUME NEW w \in Worker, WorkerAction(w) PROVE SetterInv'
  BY <1>10 DEF WorkerAction, Spawn, WorkerStep, ReadOwner, ProbeOwner,
      WorkerTakesExecution, EnterGpu, WorkerEnds
<1>11. ASSUME NEW o \in Operator, OperatorAction(o) PROVE SetterInv'
  BY <1>11 DEF OperatorAction, BeginRecovery, OpStep, ManuallyStopped,
      InspectOwner, OwnsAdmission, InspectDevice, WriteRecovered,
      RecoverAdmission, PublishedReady, ReadyFails, EndRecovery
<1>12. ASSUME OperatorSetsAuto PROVE SetterInv'
  BY <1>12 DEF OperatorSetsAuto, Abandoned
<1>13. ASSUME NEW l \in Lease, OperatorRemovesContainer(l) PROVE SetterInv'
  BY <1>13 DEF OperatorRemovesContainer, Abandoned
<1>14. CASE UNCHANGED vars
  BY <1>14
<1>15. QED
  BY <1>1, <1>2, <1>3, <1>4, <1>5, <1>6, <1>7, <1>8, <1>9, <1>10, <1>11,
      <1>12, <1>13, <1>14 DEF Next, RunAction

(* A final AUTO, read back, stays true until the record says so. *)
LEMMA ClockInvStep ==
  IInv /\ [Next]_vars => ClockInv'
<1> SUFFICES ASSUME IInv, [Next]_vars PROVE ClockInv'
  OBVIOUS
<1> USE DEF TypeOK, IInv, OwnershipInv, GateInv, SoleResponsibility,
      Unresolved, Cleared, Responsible, SetterInv, ClockInv, ClockGate, Policy
<1>1. ASSUME NEW p \in Lease, Enter(p) PROVE ClockInv'
  BY <1>1 DEF Enter, Start, Step, Goto, AcquireOwnership, OwnershipTimeout,
      PassGate, Visible, Ready, TakeExecution, ObserveInitial, Abandon
<1>2. ASSUME NEW p \in Lease, Publish(p) PROVE ClockInv'
  BY <1>2 DEF Publish, PublishHeld, Step, Goto, PublishRecord, Activated,
      RecordDue, PublishRecordFails
<1>3. ASSUME NEW p \in Lease, Activate(p) PROVE ClockInv'
  BY <1>3 DEF Activate, BeginActivation, Step, Goto, PeakVerified, PeakFails,
      Supervise, Unwind
<1>4. ASSUME NEW p \in Lease, Body(p) PROVE ClockInv'
  BY <1>4 DEF Body, StartClient, EndBody, Step, Goto, RemoveContainer,
      RemovalUnverified, CidUnreadable, Synchronized, SynchronizeFails
<1>5. ASSUME NEW p \in Lease, Restore(p) PROVE ClockInv'
  BY <1>5 DEF Restore, BeginReset, Step, Goto, ReleaseUnset, ResetVerified,
      ResetFails
<1>6. ASSUME NEW p \in Lease, Resolve(p) PROVE ClockInv'
  BY <1>6 DEF Resolve, WriteFinal, Step, Goto, FinalRecord, WriteFinalFails,
      ReleaseAdmission, OwnsAdmission, PublishedReady, ReleaseAdmissionFails,
      ReadyFails
<1>7. ASSUME NEW p \in Lease, Unlock(p) PROVE ClockInv'
  BY <1>7 DEF Unlock, Step, Goto, FreeLocks
<1>8. ASSUME NEW p \in Lease, Crash(p) PROVE ClockInv'
  BY <1>8 DEF Crash, Goto, FreeLocks, Alive
<1>9. ASSUME NEW p \in Lease, WorldAction(p) PROVE ClockInv'
  BY <1>9 DEF WorldAction, SetterLands, CreateContainer, RunContainer,
      ContainerExits
<1>10. ASSUME NEW w \in Worker, WorkerAction(w) PROVE ClockInv'
  BY <1>10 DEF WorkerAction, Spawn, WorkerStep, ReadOwner, ProbeOwner,
      WorkerTakesExecution, EnterGpu, WorkerEnds
<1>11. ASSUME NEW o \in Operator, OperatorAction(o) PROVE ClockInv'
  BY <1>11 DEF OperatorAction, BeginRecovery, OpStep, ManuallyStopped,
      InspectOwner, OwnsAdmission, InspectDevice, WriteRecovered,
      RecoverAdmission, PublishedReady, ReadyFails, EndRecovery
<1>12. ASSUME OperatorSetsAuto PROVE ClockInv'
  BY <1>12 DEF OperatorSetsAuto, Abandoned
<1>13. ASSUME NEW l \in Lease, OperatorRemovesContainer(l) PROVE ClockInv'
  BY <1>13 DEF OperatorRemovesContainer, Abandoned
<1>14. CASE UNCHANGED vars
  BY <1>14
<1>15. QED
  BY <1>1, <1>2, <1>3, <1>4, <1>5, <1>6, <1>7, <1>8, <1>9, <1>10, <1>11,
      <1>12, <1>13, <1>14 DEF Next, RunAction

(* Nobody else's command can be in flight while a run measures. *)
LEMMA PeakInvStep ==
  IInv /\ [Next]_vars => PeakInv'
<1> SUFFICES ASSUME IInv, [Next]_vars PROVE PeakInv'
  OBVIOUS
<1> USE DEF TypeOK, IInv, GateInv, SoleResponsibility, Unresolved,
      Responsible, SetterInv, PeakInv
<1>1. ASSUME NEW p \in Lease, Enter(p) PROVE PeakInv'
  BY <1>1 DEF Enter, Start, Step, Goto, AcquireOwnership, OwnershipTimeout,
      PassGate, Visible, Ready, TakeExecution, ObserveInitial, Abandon
<1>2. ASSUME NEW p \in Lease, Publish(p) PROVE PeakInv'
  BY <1>2 DEF Publish, PublishHeld, Step, Goto, PublishRecord, Activated,
      RecordDue, PublishRecordFails
<1>3. ASSUME NEW p \in Lease, Activate(p) PROVE PeakInv'
  BY <1>3 DEF Activate, BeginActivation, Step, Goto, PeakVerified, PeakFails,
      Supervise, Unwind
<1>4. ASSUME NEW p \in Lease, Body(p) PROVE PeakInv'
  BY <1>4 DEF Body, StartClient, EndBody, Step, Goto, RemoveContainer,
      RemovalUnverified, CidUnreadable, Synchronized, SynchronizeFails
<1>5. ASSUME NEW p \in Lease, Restore(p) PROVE PeakInv'
  BY <1>5 DEF Restore, BeginReset, Step, Goto, ReleaseUnset, ResetVerified,
      ResetFails
<1>6. ASSUME NEW p \in Lease, Resolve(p) PROVE PeakInv'
  BY <1>6 DEF Resolve, WriteFinal, Step, Goto, FinalRecord, WriteFinalFails,
      ReleaseAdmission, OwnsAdmission, PublishedReady, ReleaseAdmissionFails,
      ReadyFails
<1>7. ASSUME NEW p \in Lease, Unlock(p) PROVE PeakInv'
  BY <1>7 DEF Unlock, Step, Goto, FreeLocks
<1>8. ASSUME NEW p \in Lease, Crash(p) PROVE PeakInv'
  BY <1>8 DEF Crash, Goto, FreeLocks, Alive
<1>9. ASSUME NEW p \in Lease, WorldAction(p) PROVE PeakInv'
  BY <1>9 DEF WorldAction, SetterLands, CreateContainer, RunContainer,
      ContainerExits
<1>10. ASSUME NEW w \in Worker, WorkerAction(w) PROVE PeakInv'
  BY <1>10 DEF WorkerAction, Spawn, WorkerStep, ReadOwner, ProbeOwner,
      WorkerTakesExecution, EnterGpu, WorkerEnds
<1>11. ASSUME NEW o \in Operator, OperatorAction(o) PROVE PeakInv'
  BY <1>11 DEF OperatorAction, BeginRecovery, OpStep, ManuallyStopped,
      InspectOwner, OwnsAdmission, InspectDevice, WriteRecovered,
      RecoverAdmission, PublishedReady, ReadyFails, EndRecovery
<1>12. ASSUME OperatorSetsAuto PROVE PeakInv'
  BY <1>12 DEF OperatorSetsAuto, Abandoned
<1>13. ASSUME NEW l \in Lease, OperatorRemovesContainer(l) PROVE PeakInv'
  BY <1>13 DEF OperatorRemovesContainer, Abandoned
<1>14. CASE UNCHANGED vars
  BY <1>14
<1>15. QED
  BY <1>1, <1>2, <1>3, <1>4, <1>5, <1>6, <1>7, <1>8, <1>9, <1>10, <1>11,
      <1>12, <1>13, <1>14 DEF Next, RunAction

(* A worker that runs names a lease. *)
LEMMA WorkerInvStep ==
  IInv /\ [Next]_vars => WorkerInv'
<1> SUFFICES ASSUME IInv, [Next]_vars PROVE WorkerInv'
  OBVIOUS
<1> USE DEF TypeOK, IInv, WorkerInv, WorkersOf
<1>1. ASSUME NEW p \in Lease, Enter(p) PROVE WorkerInv'
  BY <1>1 DEF Enter, Start, Step, Goto, AcquireOwnership, OwnershipTimeout,
      PassGate, Unresolved, Visible, Ready, TakeExecution, ObserveInitial,
      Abandon
<1>2. ASSUME NEW p \in Lease, Publish(p) PROVE WorkerInv'
  BY <1>2 DEF Publish, PublishHeld, Step, Goto, PublishRecord, Activated,
      RecordDue, PublishRecordFails
<1>3. ASSUME NEW p \in Lease, Activate(p) PROVE WorkerInv'
  BY <1>3 DEF Activate, BeginActivation, Step, Goto, PeakVerified, PeakFails,
      Supervise, Unwind
<1>4. ASSUME NEW p \in Lease, Body(p) PROVE WorkerInv'
  BY <1>4 DEF Body, StartClient, EndBody, Step, Goto, KillWorkers,
      RemoveContainer, RemovalUnverified, CidUnreadable, Synchronized,
      SynchronizeFails
<1>5. ASSUME NEW p \in Lease, Restore(p) PROVE WorkerInv'
  BY <1>5 DEF Restore, BeginReset, Step, Goto, ReleaseUnset, ResetVerified,
      ResetFails
<1>6. ASSUME NEW p \in Lease, Resolve(p) PROVE WorkerInv'
  BY <1>6 DEF Resolve, WriteFinal, Step, Goto, FinalRecord, WriteFinalFails,
      ReleaseAdmission, OwnsAdmission, PublishedReady, ReleaseAdmissionFails,
      ReadyFails
<1>7. ASSUME NEW p \in Lease, Unlock(p) PROVE WorkerInv'
  BY <1>7 DEF Unlock, Step, Goto, FreeLocks
<1>8. ASSUME NEW p \in Lease, Crash(p) PROVE WorkerInv'
  BY <1>8 DEF Crash, Goto, FreeLocks, Alive
<1>9. ASSUME NEW p \in Lease, WorldAction(p) PROVE WorkerInv'
  BY <1>9 DEF WorldAction, SetterLands, CreateContainer, RunContainer,
      ContainerExits, KillWorkers
<1>10. ASSUME NEW w \in Worker, WorkerAction(w) PROVE WorkerInv'
  BY <1>10 DEF WorkerAction, Spawn, WorkerStep, ReadOwner, ProbeOwner,
      WorkerTakesExecution, EnterGpu, WorkerEnds, KillWorkers
<1>11. ASSUME NEW o \in Operator, OperatorAction(o) PROVE WorkerInv'
  BY <1>11 DEF OperatorAction, BeginRecovery, OpStep, ManuallyStopped,
      InspectOwner, OwnsAdmission, InspectDevice, WriteRecovered,
      RecoverAdmission, PublishedReady, ReadyFails, EndRecovery
<1>12. ASSUME OperatorSetsAuto PROVE WorkerInv'
  BY <1>12 DEF OperatorSetsAuto, Abandoned, Unresolved
<1>13. ASSUME NEW l \in Lease, OperatorRemovesContainer(l) PROVE WorkerInv'
  BY <1>13 DEF OperatorRemovesContainer, KillWorkers, Abandoned, Unresolved
<1>14. CASE UNCHANGED vars
  BY <1>14
<1>15. QED
  BY <1>1, <1>2, <1>3, <1>4, <1>5, <1>6, <1>7, <1>8, <1>9, <1>10, <1>11,
      <1>12, <1>13, <1>14 DEF Next, RunAction

LEMMA InitIInv == Init => IInv
  BY ActorAssumption, ConfigAssumption DEF Init, IInv, TypeOK, RunPC, WorkerPC,
      OperatorPC, Blocker, RecordState, Admission, Policy, Container,
      OwnershipInv, HoldsL1, GateInv, SoleResponsibility, Unresolved, Cleared,
      Responsible, AdmissionInv, SetterInv, ClockInv, ClockGate, PeakInv, WorkerInv

(* Ownership, gate, admission, commands in flight and policy agree, whatever  *)
(* faults occur.                                                             *)
THEOREM Invariance == Spec => []IInv
<1>1. IInv /\ [Next]_vars => IInv'
  BY TypeStep, OwnershipInvStep, GateInvStep, AdmissionInvStep, SetterInvStep,
     ClockInvStep, PeakInvStep, WorkerInvStep DEF IInv
<1>2. QED
  BY <1>1, InitIInv, PTL DEF Spec

(* Whoever crashed, and whichever write failed, a device left off AUTO has a  *)
(* record that stops the next owner.                                        *)
THEOREM ClockGateHolds == Spec => []ClockGate
<1>1. IInv => ClockGate
  BY DEF IInv, ClockInv
<1>2. QED
  BY <1>1, Invariance, PTL

(* At most one run, dead or alive, is responsible for the device.            *)
THEOREM SoleResponsibilityHolds == Spec => []SoleResponsibility
<1>1. IInv => SoleResponsibility
  BY DEF IInv, GateInv
<1>2. QED
  BY <1>1, Invariance, PTL

(* The workers of a run that manages clocks measure at STABLE_PEAK.           *)
THEOREM MeasuredAtPeakHolds == Spec => []MeasuredAtPeak
<1>1. IInv => MeasuredAtPeak
  <2> SUFFICES ASSUME IInv, NEW w \in Worker, wpc[w] = "onGpu",
                      managed[wfor[w]], pc[wfor[w]] = "body"
               PROVE  clock = "PEAK"
    BY DEF MeasuredAtPeak
  <2>1. wfor[w] \in Lease
    BY DEF IInv, WorkerInv
  <2> QED
    BY <2>1 DEF IInv, PeakInv
<1>2. QED
  BY <1>1, Invariance, PTL

-----------------------------------------------------------------------------
(* Part 2: without the optional faults, cleanup and recovery really end the   *)
(* work they resolve.                                                       *)

(* Killing the processes in S takes them, and nothing else, from every lease. *)
LEMMA KilledWorkers ==
  ASSUME TypeOK, NEW S, KillWorkers(S), NEW l \in Lease
  PROVE  WorkersOf(l)' = WorkersOf(l) \ S
  BY ActorAssumption DEF TypeOK, KillWorkers, WorkersOf

(* A client or a container exists only for a supervised docker run. *)
LEMMA ContainerInvStep ==
  ASSUME Fault = {}
  PROVE  IInv /\ WorkInv /\ [Next]_vars => ContainerInv'
<1> SUFFICES ASSUME IInv, WorkInv, [Next]_vars PROVE ContainerInv'
  OBVIOUS
<1> USE ActorAssumption DEF TypeOK, IInv, WorkInv, ContainerInv, WorkersOf
<1>1. ASSUME NEW p \in Lease, Enter(p) PROVE ContainerInv'
  BY <1>1 DEF Enter, Start, Step, Goto, AcquireOwnership, OwnershipTimeout,
      PassGate, Unresolved, Visible, Ready, TakeExecution, ObserveInitial,
      Abandon
<1>2. ASSUME NEW p \in Lease, Publish(p) PROVE ContainerInv'
  BY <1>2 DEF Publish, PublishHeld, Step, Goto, PublishRecord, Activated,
      RecordDue, PublishRecordFails
<1>3. ASSUME NEW p \in Lease, Activate(p) PROVE ContainerInv'
  BY <1>3 DEF Activate, BeginActivation, Step, Goto, PeakVerified, PeakFails,
      Supervise, Unwind
<1>4. ASSUME NEW p \in Lease, Body(p) PROVE ContainerInv'
  BY <1>4 DEF Body, StartClient, EndBody, Step, Goto, KillWorkers,
      RemoveContainer, RemovalUnverified, CidUnreadable, Synchronized,
      SynchronizeFails
<1>5. ASSUME NEW p \in Lease, Restore(p) PROVE ContainerInv'
  BY <1>5 DEF Restore, BeginReset, Step, Goto, ReleaseUnset, ResetVerified,
      ResetFails
<1>6. ASSUME NEW p \in Lease, Resolve(p) PROVE ContainerInv'
  BY <1>6 DEF Resolve, WriteFinal, Step, Goto, FinalRecord, WriteFinalFails,
      ReleaseAdmission, OwnsAdmission, PublishedReady, ReleaseAdmissionFails,
      ReadyFails
<1>7. ASSUME NEW p \in Lease, Unlock(p) PROVE ContainerInv'
  BY <1>7 DEF Unlock, Step, Goto, FreeLocks
<1>8. ASSUME NEW p \in Lease, Crash(p) PROVE ContainerInv'
  BY <1>8 DEF Crash, Goto, FreeLocks, Alive
<1>9. ASSUME NEW p \in Lease, WorldAction(p) PROVE ContainerInv'
  BY <1>9 DEF WorldAction, SetterLands, CreateContainer, RunContainer,
      ContainerExits, KillWorkers
<1>10. ASSUME NEW w \in Worker, WorkerAction(w) PROVE ContainerInv'
  BY <1>10 DEF WorkerAction, Spawn, WorkerStep, ReadOwner, ProbeOwner,
      WorkerTakesExecution, EnterGpu, WorkerEnds, KillWorkers
<1>11. ASSUME NEW o \in Operator, OperatorAction(o) PROVE ContainerInv'
  BY <1>11 DEF OperatorAction, BeginRecovery, OpStep, ManuallyStopped,
      InspectOwner, OwnsAdmission, InspectDevice, WriteRecovered,
      RecoverAdmission, PublishedReady, ReadyFails, EndRecovery
<1>12. ASSUME OperatorSetsAuto PROVE ContainerInv'
  BY <1>12 DEF OperatorSetsAuto, Abandoned, Unresolved
<1>13. ASSUME NEW l \in Lease, OperatorRemovesContainer(l) PROVE ContainerInv'
  BY <1>13 DEF OperatorRemovesContainer, KillWorkers, Abandoned, Unresolved
<1>14. CASE UNCHANGED vars
  BY <1>14
<1>15. QED
  BY <1>1, <1>2, <1>3, <1>4, <1>5, <1>6, <1>7, <1>8, <1>9, <1>10, <1>11,
      <1>12, <1>13, <1>14 DEF Next, RunAction

(* A release is never claimed, nor a reset commanded, over a blocker. *)
LEMMA BlockerInvStep ==
  ASSUME Fault = {}
  PROVE  IInv /\ WorkInv /\ [Next]_vars => BlockerInv'
<1> SUFFICES ASSUME IInv, WorkInv, [Next]_vars PROVE BlockerInv'
  OBVIOUS
<1> USE DEF TypeOK, IInv, WorkInv, BlockerInv, ClockInv
<1>1. ASSUME NEW p \in Lease, Enter(p) PROVE BlockerInv'
  BY <1>1 DEF Enter, Start, Step, Goto, AcquireOwnership, OwnershipTimeout,
      PassGate, Unresolved, Visible, Ready, TakeExecution, ObserveInitial,
      Abandon
<1>2. ASSUME NEW p \in Lease, Publish(p) PROVE BlockerInv'
  BY <1>2 DEF Publish, PublishHeld, Step, Goto, PublishRecord, Activated,
      RecordDue, PublishRecordFails
<1>3. ASSUME NEW p \in Lease, Activate(p) PROVE BlockerInv'
  BY <1>3 DEF Activate, BeginActivation, Step, Goto, PeakVerified, PeakFails,
      Supervise, Unwind
<1>4. ASSUME NEW p \in Lease, Body(p) PROVE BlockerInv'
  BY <1>4 DEF Body, StartClient, EndBody, Step, Goto, RemoveContainer,
      RemovalUnverified, CidUnreadable, Synchronized, SynchronizeFails
<1>5. ASSUME NEW p \in Lease, Restore(p) PROVE BlockerInv'
  BY <1>5 DEF Restore, BeginReset, Step, Goto, ReleaseUnset, ResetVerified,
      ResetFails
<1>6. ASSUME NEW p \in Lease, Resolve(p) PROVE BlockerInv'
  BY <1>6 DEF Resolve, WriteFinal, Step, Goto, FinalRecord, WriteFinalFails,
      ReleaseAdmission, OwnsAdmission, PublishedReady, ReleaseAdmissionFails,
      ReadyFails
<1>7. ASSUME NEW p \in Lease, Unlock(p) PROVE BlockerInv'
  BY <1>7 DEF Unlock, Step, Goto, FreeLocks
<1>8. ASSUME NEW p \in Lease, Crash(p) PROVE BlockerInv'
  BY <1>8 DEF Crash, Goto, FreeLocks, Alive
<1>9. ASSUME NEW p \in Lease, WorldAction(p) PROVE BlockerInv'
  BY <1>9 DEF WorldAction, SetterLands, CreateContainer, RunContainer,
      ContainerExits
<1>10. ASSUME NEW w \in Worker, WorkerAction(w) PROVE BlockerInv'
  BY <1>10 DEF WorkerAction, Spawn, WorkerStep, ReadOwner, ProbeOwner,
      WorkerTakesExecution, EnterGpu, WorkerEnds
<1>11. ASSUME NEW o \in Operator, OperatorAction(o) PROVE BlockerInv'
  BY <1>11 DEF OperatorAction, BeginRecovery, OpStep, ManuallyStopped,
      InspectOwner, OwnsAdmission, InspectDevice, WriteRecovered,
      RecoverAdmission, PublishedReady, ReadyFails, EndRecovery
<1>12. ASSUME OperatorSetsAuto PROVE BlockerInv'
  BY <1>12 DEF OperatorSetsAuto, Abandoned, Unresolved
<1>13. ASSUME NEW l \in Lease, OperatorRemovesContainer(l) PROVE BlockerInv'
  BY <1>13 DEF OperatorRemovesContainer, Abandoned, Unresolved
<1>14. CASE UNCHANGED vars
  BY <1>14
<1>15. QED
  BY <1>1, <1>2, <1>3, <1>4, <1>5, <1>6, <1>7, <1>8, <1>9, <1>10, <1>11,
      <1>12, <1>13, <1>14 DEF Next, RunAction

(* Whatever can still reach the GPU is covered by a record. *)
LEMMA CoveredInvStep ==
  ASSUME Fault = {}
  PROVE  IInv /\ WorkInv /\ [Next]_vars => CoveredInv'
<1> SUFFICES ASSUME IInv, WorkInv, [Next]_vars PROVE CoveredInv'
  OBVIOUS
<1> USE ActorAssumption, Fault = {} DEF TypeOK, IInv, OwnershipInv, HoldsL1,
      RunPC, GateInv, SoleResponsibility, Unresolved, Cleared, Responsible,
      RecordState, WorkInv, CoveredInv, Live, NotYetAtWork, WorkersOf,
      Container, ContainerInv, BlockerInv, StoppedInv, ClockInv
<1>1. ASSUME NEW p \in Lease, Enter(p) PROVE CoveredInv'
  BY <1>1 DEF Enter, Start, Step, Goto, AcquireOwnership, OwnershipTimeout,
      PassGate, Visible, Ready, TakeExecution, ObserveInitial, Abandon
<1>2. ASSUME NEW p \in Lease, Publish(p) PROVE CoveredInv'
  BY <1>2 DEF Publish, PublishHeld, Step, Goto, PublishRecord, Activated,
      RecordDue, PublishRecordFails
<1>3. ASSUME NEW p \in Lease, Activate(p) PROVE CoveredInv'
  <2>1. CASE BeginActivation(p)
    BY <2>1 DEF BeginActivation, Step, Goto
  <2>2. CASE PeakVerified(p)
    BY <2>2 DEF PeakVerified, Step, Goto
  <2>3. CASE PeakFails(p)
    BY <2>3 DEF PeakFails, Step, Goto
  <2>4. CASE Supervise(p)
    BY <2>4 DEF Supervise, Step, Goto
  <2>5. CASE Unwind(p)
    BY <2>5 DEF Unwind, Goto
  <2> QED
    BY <1>3, <2>1, <2>2, <2>3, <2>4, <2>5 DEF Activate
<1>4. ASSUME NEW p \in Lease, Body(p) PROVE CoveredInv'
  <2> HIDE DEF WorkersOf
  <2>1. CASE StartClient(p)
    <3>1. \A l \in Lease : WorkersOf(l)' = WorkersOf(l)
      BY <2>1 DEF StartClient, WorkersOf
    <3> QED
      BY <2>1, <3>1 DEF StartClient
  <2>2. CASE EndBody(p)
    <3> PICK escaped \in SUBSET WorkersOf(p) :
          /\ escaped # {} => kind[p] = "docker" \/ "escape" \in Fault
          /\ KillWorkers(WorkersOf(p) \ escaped)
      BY <2>2 DEF EndBody
    <3>1. \A l \in Lease :
            WorkersOf(l)' = WorkersOf(l) \ (WorkersOf(p) \ escaped)
      BY KilledWorkers
    <3>2. \A l \in Lease : WorkersOf(l)' \subseteq WorkersOf(l)
      BY <3>1
    <3>3. kind[p] # "docker" => WorkersOf(p)' = {}
      BY <3>1
    <3>4. \A l \in Lease : Live(l)' => Live(l)
      BY <2>2, <3>2 DEF EndBody
    <3>5. kind[p] # "docker" => ~Live(p)'
      BY <2>2, <3>3 DEF EndBody
    <3> HIDE DEF Live
    <3> QED
      BY <2>2, <3>4, <3>5 DEF EndBody, Step, Goto
  <2>3. CASE RemoveContainer(p)
    <3>1. \A l \in Lease : WorkersOf(l)' = WorkersOf(l) \ WorkersOf(p)
      BY <2>3, KilledWorkers DEF RemoveContainer
    <3>2. \A l \in Lease : Live(l)' => Live(l)
      BY <2>3, <3>1 DEF RemoveContainer
    <3>3. ~Live(p)'
      BY <2>3, <3>1 DEF RemoveContainer
    <3> HIDE DEF Live
    <3> QED
      BY <2>3, <3>2, <3>3 DEF RemoveContainer, Step, Goto
  <2>4. ASSUME RemovalUnverified(p) \/ CidUnreadable(p) \/ Synchronized(p)
               \/ SynchronizeFails(p)
        PROVE  CoveredInv'
    <3>1. \A l \in Lease : Live(l)' <=> Live(l)
      BY <2>4 DEF RemovalUnverified, CidUnreadable, Synchronized,
          SynchronizeFails, WorkersOf
    <3> HIDE DEF Live
    <3> QED
      BY <2>4, <3>1 DEF RemovalUnverified, CidUnreadable, Synchronized,
          SynchronizeFails, Step, Goto
  <2> QED
    BY <1>4, <2>1, <2>2, <2>3, <2>4 DEF Body
<1>5. ASSUME NEW p \in Lease, Restore(p) PROVE CoveredInv'
  BY <1>5 DEF Restore, BeginReset, Step, Goto, ReleaseUnset, ResetVerified,
      ResetFails
<1>6. ASSUME NEW p \in Lease, Resolve(p) PROVE CoveredInv'
  BY <1>6 DEF Resolve, WriteFinal, Step, Goto, FinalRecord, WriteFinalFails,
      ReleaseAdmission, OwnsAdmission, PublishedReady, ReleaseAdmissionFails,
      ReadyFails
<1>7. ASSUME NEW p \in Lease, Unlock(p) PROVE CoveredInv'
  BY <1>7 DEF Unlock, Step, Goto, FreeLocks
<1>8. ASSUME NEW p \in Lease, Crash(p) PROVE CoveredInv'
  BY <1>8 DEF Crash, Goto, FreeLocks, Alive
<1>9. ASSUME NEW p \in Lease, WorldAction(p) PROVE CoveredInv'
  BY <1>9 DEF WorldAction, SetterLands, CreateContainer, RunContainer,
      ContainerExits, KillWorkers
<1>10. ASSUME NEW w \in Worker, WorkerAction(w) PROVE CoveredInv'
  BY <1>10 DEF WorkerAction, Spawn, WorkerStep, ReadOwner, ProbeOwner,
      WorkerTakesExecution, EnterGpu, WorkerEnds, KillWorkers
<1>11. ASSUME NEW o \in Operator, OperatorAction(o) PROVE CoveredInv'
  BY <1>11 DEF OperatorAction, BeginRecovery, OpStep, ManuallyStopped,
      InspectOwner, OwnsAdmission, InspectDevice, WriteRecovered,
      RecoverAdmission, PublishedReady, ReadyFails, EndRecovery
<1>12. ASSUME OperatorSetsAuto PROVE CoveredInv'
  BY <1>12 DEF OperatorSetsAuto, Abandoned
<1>13. ASSUME NEW l \in Lease, OperatorRemovesContainer(l) PROVE CoveredInv'
  BY <1>13 DEF OperatorRemovesContainer, KillWorkers, Abandoned
<1>14. CASE UNCHANGED vars
  BY <1>14
<1>15. QED
  BY <1>1, <1>2, <1>3, <1>4, <1>5, <1>6, <1>7, <1>8, <1>9, <1>10, <1>11,
      <1>12, <1>13, <1>14 DEF Next, RunAction

(* What recovery has confirmed stopped cannot start again. *)
LEMMA StoppedInvStep ==
  ASSUME Fault = {}
  PROVE  IInv /\ WorkInv /\ [Next]_vars => StoppedInv'
<1> SUFFICES ASSUME IInv, WorkInv, [Next]_vars PROVE StoppedInv'
  OBVIOUS
<1> USE ActorAssumption DEF TypeOK, IInv, WorkInv, StoppedInv, ContainerInv,
      Live, WorkersOf, OwnershipInv, HoldsL1, RunPC, Container
<1>1. ASSUME NEW p \in Lease, Enter(p) PROVE StoppedInv'
  BY <1>1 DEF Enter, Start, Step, Goto, AcquireOwnership, OwnershipTimeout,
      PassGate, Unresolved, Visible, Ready, TakeExecution, ObserveInitial,
      Abandon
<1>2. ASSUME NEW p \in Lease, Publish(p) PROVE StoppedInv'
  BY <1>2 DEF Publish, PublishHeld, Step, Goto, PublishRecord, Activated,
      RecordDue, PublishRecordFails
<1>3. ASSUME NEW p \in Lease, Activate(p) PROVE StoppedInv'
  <2>1. CASE BeginActivation(p)
    BY <2>1 DEF BeginActivation, Step, Goto
  <2>2. CASE PeakVerified(p)
    BY <2>2 DEF PeakVerified, Step, Goto
  <2>3. CASE PeakFails(p)
    BY <2>3 DEF PeakFails, Step, Goto
  <2>4. CASE Supervise(p)
    BY <2>4 DEF Supervise, Step, Goto
  <2>5. CASE Unwind(p)
    BY <2>5 DEF Unwind, Goto
  <2> QED
    BY <1>3, <2>1, <2>2, <2>3, <2>4, <2>5 DEF Activate
<1>4. ASSUME NEW p \in Lease, Body(p) PROVE StoppedInv'
  <2>1. CASE StartClient(p)
    BY <2>1 DEF StartClient
  <2>2. CASE EndBody(p)
    BY <2>2 DEF EndBody, Step, Goto, KillWorkers
  <2>3. CASE RemoveContainer(p)
    BY <2>3 DEF RemoveContainer, Step, Goto, KillWorkers
  <2>4. CASE RemovalUnverified(p)
    BY <2>4 DEF RemovalUnverified, Step, Goto
  <2>5. CASE CidUnreadable(p)
    BY <2>5 DEF CidUnreadable, Step, Goto
  <2>6. CASE Synchronized(p)
    BY <2>6 DEF Synchronized, Step, Goto
  <2>7. CASE SynchronizeFails(p)
    BY <2>7 DEF SynchronizeFails, Step, Goto
  <2> QED
    BY <1>4, <2>1, <2>2, <2>3, <2>4, <2>5, <2>6, <2>7 DEF Body
<1>5. ASSUME NEW p \in Lease, Restore(p) PROVE StoppedInv'
  BY <1>5 DEF Restore, BeginReset, Step, Goto, ReleaseUnset, ResetVerified,
      ResetFails
<1>6. ASSUME NEW p \in Lease, Resolve(p) PROVE StoppedInv'
  BY <1>6 DEF Resolve, WriteFinal, Step, Goto, FinalRecord, WriteFinalFails,
      ReleaseAdmission, OwnsAdmission, PublishedReady, ReleaseAdmissionFails,
      ReadyFails
<1>7. ASSUME NEW p \in Lease, Unlock(p) PROVE StoppedInv'
  BY <1>7 DEF Unlock, Step, Goto, FreeLocks
<1>8. ASSUME NEW p \in Lease, Crash(p) PROVE StoppedInv'
  BY <1>8 DEF Crash, Goto, FreeLocks, Alive
<1>9. ASSUME NEW p \in Lease, WorldAction(p) PROVE StoppedInv'
  BY <1>9 DEF WorldAction, SetterLands, CreateContainer, RunContainer,
      ContainerExits, KillWorkers
<1>10. ASSUME NEW w \in Worker, WorkerAction(w) PROVE StoppedInv'
  BY <1>10 DEF WorkerAction, Spawn, WorkerStep, ReadOwner, ProbeOwner,
      WorkerTakesExecution, EnterGpu, WorkerEnds, KillWorkers
<1>11. ASSUME NEW o \in Operator, OperatorAction(o) PROVE StoppedInv'
  BY <1>11 DEF OperatorAction, BeginRecovery, OpStep, ManuallyStopped,
      InspectOwner, OwnsAdmission, InspectDevice, WriteRecovered,
      RecoverAdmission, PublishedReady, ReadyFails, EndRecovery
<1>12. ASSUME OperatorSetsAuto PROVE StoppedInv'
  BY <1>12 DEF OperatorSetsAuto, Abandoned, Unresolved
<1>13. ASSUME NEW l \in Lease, OperatorRemovesContainer(l) PROVE StoppedInv'
  BY <1>13 DEF OperatorRemovesContainer, KillWorkers, Abandoned, Unresolved
<1>14. CASE UNCHANGED vars
  BY <1>14
<1>15. QED
  BY <1>1, <1>2, <1>3, <1>4, <1>5, <1>6, <1>7, <1>8, <1>9, <1>10, <1>11,
      <1>12, <1>13, <1>14 DEF Next, RunAction

LEMMA InitWorkInv == Init => WorkInv
<1> SUFFICES ASSUME Init PROVE WorkInv
  OBVIOUS
<1>1. \A l \in Lease : WorkersOf(l) = {}
  BY ActorAssumption DEF Init, WorkersOf
<1>2. \A l \in Lease : ~Live(l)
  BY <1>1 DEF Init, Live
<1>3. ContainerInv /\ CoveredInv /\ BlockerInv
  BY <1>1, <1>2 DEF Init, ContainerInv, CoveredInv, BlockerInv
<1>4. StoppedInv
  BY DEF Init, StoppedInv
<1> QED
  BY <1>3, <1>4 DEF WorkInv

(* Without the optional faults, whatever can still reach the GPU in the name *)
(* of a run is covered by that run's record.                                 *)
THEOREM WorkInvariance ==
  ASSUME Fault = {}
  PROVE  Spec => [](IInv /\ WorkInv)
<1>1. IInv /\ WorkInv /\ [Next]_vars => WorkInv'
  BY ContainerInvStep, CoveredInvStep, BlockerInvStep, StoppedInvStep DEF WorkInv
<1>2. QED
  BY <1>1, InitWorkInv, Invariance, PTL DEF Spec

LEMMA CoveredWork == IInv /\ WorkInv => WorkGated
<1> SUFFICES ASSUME IInv, WorkInv, NEW l \in Lease, AtWork(l) PROVE Unresolved(l)
  BY DEF WorkGated
<1>1. Live(l)
  BY DEF AtWork, Live, WorkersOf, IInv, TypeOK
<1> QED
  BY <1>1 DEF WorkInv, CoveredInv

(* GPU work runs only while the record of the run that started it stops the   *)
(* next owner.                                                              *)
THEOREM WorkGatedHolds ==
  ASSUME Fault = {}
  PROVE  Spec => []WorkGated
<1>1. QED
  BY CoveredWork, WorkInvariance, PTL

(* A READY admission record is only ever read over a free device.             *)
THEOREM ReadyMeansCleanHolds ==
  ASSUME Fault = {}
  PROVE  Spec => []ReadyMeansClean
<1>1. IInv /\ WorkInv => ReadyMeansClean
  <2> SUFFICES ASSUME IInv, WorkInv, Admitted, adm.state = "READY"
               PROVE  clock = "AUTO" /\ \A l \in Lease : ~Unresolved(l) /\ ~AtWork(l)
    BY DEF ReadyMeansClean
  <2>1. \A l \in Lease : ~Unresolved(l)
    BY DEF IInv, AdmissionInv, OwnsAdmission
  <2>2. clock = "AUTO"
    BY <2>1 DEF IInv, ClockInv, ClockGate, TypeOK, Policy
  <2>3. \A l \in Lease : ~AtWork(l)
    BY <2>1, CoveredWork DEF WorkGated
  <2> QED
    BY <2>1, <2>2, <2>3
<1>2. QED
  BY <1>1, WorkInvariance, PTL

(* No restoring command is issued under a running container.                 *)
THEOREM NoResetUnderContainerHolds ==
  ASSUME Fault = {}
  PROVE  Spec => NoResetUnderContainer
<1> DEFINE Rule == \A l \in Lease :
             setter'[l] = "AUTO" /\ setter[l] # "AUTO" => container[l] # "running"
<1>1. IInv /\ WorkInv /\ [Next]_vars => [Rule]_vars
  <2> SUFFICES ASSUME IInv, WorkInv, [Next]_vars, NEW l \in Lease,
                      setter'[l] = "AUTO", setter[l] # "AUTO"
               PROVE  container[l] # "running"
    OBVIOUS
  <2>1. BeginReset(l)
    <3>1. UNCHANGED setter \/ \E p \in Lease :
            \/ BeginReset(p) \/ BeginActivation(p) \/ SetterLands(p)
            \/ PeakFails(p) \/ ResetFails(p)
      <4>1. ASSUME NEW p \in Lease, Enter(p) \/ Unlock(p) \/ Crash(p) PROVE UNCHANGED setter
        BY <4>1 DEF Enter, Start, AcquireOwnership, OwnershipTimeout, PassGate, TakeExecution,
            ObserveInitial, Abandon, Unlock, Crash
      <4>2. ASSUME NEW p \in Lease, Publish(p) \/ Resolve(p) PROVE UNCHANGED setter
        BY <4>2 DEF Publish, PublishHeld, PublishRecord, PublishRecordFails, Resolve, WriteFinal,
            WriteFinalFails, ReleaseAdmission, ReleaseAdmissionFails
      <4>3. ASSUME NEW p \in Lease, Activate(p)
            PROVE  UNCHANGED setter \/ BeginActivation(p) \/ PeakFails(p)
        BY <4>3 DEF Activate, PeakVerified, Supervise, Unwind
      <4>4. ASSUME NEW p \in Lease, Body(p) PROVE UNCHANGED setter
        BY <4>4 DEF Body, StartClient, EndBody, RemoveContainer, RemovalUnverified,
            CidUnreadable, Synchronized, SynchronizeFails
      <4>5. ASSUME NEW p \in Lease, Restore(p)
            PROVE  UNCHANGED setter \/ BeginReset(p) \/ ResetFails(p)
        BY <4>5 DEF Restore, ReleaseUnset, ResetVerified
      <4>6. ASSUME NEW p \in Lease, WorldAction(p) PROVE UNCHANGED setter \/ SetterLands(p)
        BY <4>6 DEF WorldAction, CreateContainer, RunContainer, ContainerExits
      <4>7. ASSUME NEW w \in Worker, WorkerAction(w) PROVE UNCHANGED setter
        BY <4>7 DEF WorkerAction, Spawn, ReadOwner, ProbeOwner, WorkerTakesExecution, EnterGpu,
            WorkerEnds
      <4>8. ASSUME NEW o \in Operator, OperatorAction(o) PROVE UNCHANGED setter
        BY <4>8 DEF OperatorAction, BeginRecovery, InspectOwner, InspectDevice, WriteRecovered,
            RecoverAdmission, EndRecovery
      <4>9. ASSUME OperatorSetsAuto \/ \E k \in Lease : OperatorRemovesContainer(k)
            PROVE  UNCHANGED setter
        BY <4>9 DEF OperatorSetsAuto, OperatorRemovesContainer
      <4> QED
        BY <4>1, <4>2, <4>3, <4>4, <4>5, <4>6, <4>7, <4>8, <4>9 DEF Next, RunAction
    <3>2. PICK p \in Lease :
            \/ BeginReset(p) \/ BeginActivation(p) \/ SetterLands(p)
            \/ PeakFails(p) \/ ResetFails(p)
      BY <3>1
    <3> QED
      BY <3>2 DEF BeginReset, BeginActivation, SetterLands, PeakFails, ResetFails,
          IInv, TypeOK
  <2> QED
    BY <2>1 DEF BeginReset, Step, WorkInv, CoveredInv, Live
<1>2. QED
  BY <1>1, WorkInvariance, PTL DEF Spec, NoResetUnderContainer

-----------------------------------------------------------------------------
(* The refinement.  A step maps to the abstract action named by the lemma it  *)
(* cites, or leaves the three abstract variables alone.                      *)

LEMMA GatedStutter ==
  ASSUME \A l \in Lease : Unresolved(l)' <=> Unresolved(l),
         UNCHANGED <<clock, container, wpc, wfor>>
  PROVE  UNCHANGED Gated!vars
  BY DEF Gated!vars, Unresolved, AtWork

LEMMA WorkOfOne ==
  ASSUME NEW l \in Lease,
         UNCHANGED <<recState, clock>>,
         \A k \in Lease \ {l} : AtWork(k)' <=> AtWork(k),
         AtWork(l)' => Unresolved(l)
  PROVE  [Gated!Next]_(Gated!vars)
<1> DEFINE resp == {k \in Lease : Unresolved(k)}
           busy == {k \in Lease : AtWork(k)}
<1>1. resp' = resp /\ clock' = clock
  BY DEF Unresolved
<1>2. CASE AtWork(l)' /\ ~AtWork(l)
  <2>1. busy' = busy \cup {l} /\ l \in resp
    BY <1>2
  <2> QED
    BY <1>1, <2>1 DEF Gated!Next, Gated!BeginWork
<1>3. CASE ~AtWork(l)' /\ AtWork(l)
  <2>1. busy' = busy \ {l} /\ l \in busy
    BY <1>3
  <2> QED
    BY <1>1, <2>1 DEF Gated!Next, Gated!EndWork
<1>4. CASE AtWork(l)' <=> AtWork(l)
  <2>1. busy' = busy
    BY <1>4
  <2> QED
    BY <1>1, <2>1 DEF Gated!vars
<1> QED
  BY <1>2, <1>3, <1>4

LEMMA GiveBackStep ==
  ASSUME NEW l \in Lease, SoleResponsibility, Unresolved(l), ~AtWork(l), clock = "AUTO",
         UNCHANGED <<clock, container, wpc, wfor>>,
         recState \in [Lease -> RecordState],
         recState' = [recState EXCEPT ![l] = "restored"]
  PROVE  Gated!Next
<1>1. {k \in Lease : Unresolved(k)} = {l} /\ {k \in Lease : Unresolved(k)}' = {}
  BY DEF SoleResponsibility, Unresolved, RecordState
<1>2. UNCHANGED <<clock, {k \in Lease : AtWork(k)}>> /\ l \notin {k \in Lease : AtWork(k)}
  BY DEF AtWork
<1> QED
  BY <1>1, <1>2 DEF Gated!Next, Gated!GiveBack

LEMMA TakeStep ==
  ASSUME NEW p \in Lease, \A l \in Lease : ~Unresolved(l) /\ ~AtWork(l), clock = "AUTO",
         UNCHANGED <<clock, container, wpc, wfor>>,
         recState \in [Lease -> RecordState],
         recState' = [recState EXCEPT ![p] = "active"]
  PROVE  Gated!Next
<1>1. {k \in Lease : Unresolved(k)} = {} /\ {k \in Lease : Unresolved(k)}' = {p}
  BY DEF Unresolved, RecordState
<1>2. UNCHANGED <<clock, {k \in Lease : AtWork(k)}>> /\ {k \in Lease : AtWork(k)} = {}
  BY DEF AtWork
<1> QED
  BY <1>1, <1>2 DEF Gated!Next, Gated!Take

LEMMA PolicyStep ==
  ASSUME NEW l \in Lease, Unresolved(l), clock' \in Policy,
         UNCHANGED <<recState, container, wpc, wfor>>
  PROVE  Gated!Next
<1>1. UNCHANGED <<{k \in Lease : Unresolved(k)}, {k \in Lease : AtWork(k)}>>
       /\ {k \in Lease : Unresolved(k)} # {}
  BY DEF Unresolved, AtWork
<1> QED
  BY <1>1 DEF Gated!Next, Gated!SetPolicy

LEMMA ResolveStep ==
  ASSUME IInv, WorkInv, NEW l \in Lease, Unresolved(l), clock = "AUTO",
         ~Live(l) \/ recState'[l] # "restored",
         UNCHANGED <<clock, container, wpc, wfor>>,
         NEW s \in {"restored", "restore_failed"},
         recState' = [recState EXCEPT ![l] = s]
  PROVE  [Gated!Next]_(Gated!vars)
<1>1. CASE s = "restored"
  <2>1. ~AtWork(l)
    BY <1>1 DEF Live, AtWork, WorkersOf, IInv, TypeOK
  <2> QED
    BY <1>1, <2>1, GiveBackStep DEF IInv, TypeOK, GateInv
<1>2. CASE s = "restore_failed"
  BY <1>2, GatedStutter DEF IInv, TypeOK, Unresolved, RecordState
<1> QED
  BY <1>1, <1>2

LEMMA GatedStep ==
  ASSUME Fault = {}
  PROVE  IInv /\ WorkInv /\ [Next]_vars => [Gated!Next]_(Gated!vars)
<1> SUFFICES ASSUME IInv, WorkInv, [Next]_vars PROVE [Gated!Next]_(Gated!vars)
  OBVIOUS
<1> DEFINE Goal == [Gated!Next]_(Gated!vars)
<1>a. ASSUME NEW p \in Lease, Enter(p) PROVE Goal
  BY <1>a, GatedStutter DEF Enter, Start, AcquireOwnership, OwnershipTimeout, PassGate, TakeExecution, ObserveInitial, Abandon, Unresolved
<1>b. ASSUME NEW p \in Lease, Publish(p) PROVE Goal
  <2>1. CASE recState' = recState
    BY <1>b, <2>1, GatedStutter DEF Publish, PublishHeld, PublishRecord, PublishRecordFails, Unresolved
  <2>2. CASE recState' = [recState EXCEPT ![p] = "active"]
    <3>0. RecordDue(p) \/ recState' = recState
      BY <1>b DEF Publish, PublishHeld, PublishRecord, PublishRecordFails
    <3>1. RecordDue(p) => \A l \in Lease : ~Unresolved(l)
      BY DEF IInv, GateInv, Cleared, RecordDue
    <3>2. RecordDue(p) => \A l \in Lease : ~AtWork(l)
      BY <3>1 DEF WorkInv, CoveredInv, Live, AtWork, WorkersOf
    <3>3. RecordDue(p) => clock = "AUTO"
      BY <3>1 DEF IInv, ClockInv, ClockGate, TypeOK, Policy
    <3>4. UNCHANGED <<clock, container, wpc, wfor>>
      BY <1>b DEF Publish, PublishHeld, PublishRecord, PublishRecordFails
    <3> QED
      BY <2>1, <2>2, <3>0, <3>1, <3>2, <3>3, <3>4, TakeStep DEF IInv, TypeOK
  <2> QED
    BY <1>b, <2>1, <2>2 DEF Publish, PublishHeld, PublishRecord, PublishRecordFails, Activated
<1>c. ASSUME NEW p \in Lease, Activate(p) PROVE Goal
  BY <1>c, GatedStutter DEF Activate, BeginActivation, PeakVerified, PeakFails, Supervise, Unwind, Unresolved
<1>d. ASSUME NEW p \in Lease, Body(p) PROVE Goal
  <2>1. CASE EndBody(p) \/ RemoveContainer(p)
    <3>1. UNCHANGED <<recState, clock>> /\ (AtWork(p)' => Unresolved(p))
      BY <2>1 DEF EndBody, RemoveContainer, Step, IInv, GateInv, Responsible, Unresolved
    <3>2. \A k \in Lease \ {p} : AtWork(k)' <=> AtWork(k)
      BY <2>1 DEF EndBody, RemoveContainer, AtWork, KillWorkers, WorkersOf, IInv, TypeOK
    <3> QED
      BY <3>1, <3>2, WorkOfOne
  <2>2. CASE UNCHANGED <<recState, clock, container, wpc, wfor>>
    BY <2>2, GatedStutter DEF Unresolved
  <2> QED
    BY <1>d, <2>1, <2>2 DEF Body, StartClient, RemovalUnverified, CidUnreadable, Synchronized, SynchronizeFails
<1>e. ASSUME NEW p \in Lease, Restore(p) PROVE Goal
  BY <1>e, GatedStutter DEF Restore, BeginReset, ReleaseUnset, ResetVerified, ResetFails, Unresolved
<1>f. ASSUME NEW p \in Lease, Resolve(p) PROVE Goal
  <2>1. CASE recState' = recState
    BY <1>f, <2>1, GatedStutter DEF Resolve, WriteFinal, WriteFinalFails, ReleaseAdmission, ReleaseAdmissionFails, Unresolved
  <2>2. CASE (WriteFinal(p) \/ WriteFinalFails(p)) /\ FinalRecord(p)
    <3> DEFINE s == IF released[p] THEN "restored" ELSE "restore_failed"
    <3>1. pc[p] = "final" /\ UNCHANGED <<clock, container, wpc, wfor>>
          /\ recState' = [recState EXCEPT ![p] = s]
      BY <2>2 DEF WriteFinal, WriteFinalFails, FinalRecord, Step
    <3>2. Unresolved(p)
      BY <3>1 DEF IInv, GateInv, Responsible, Unresolved
    <3>3. CASE released[p]
      <4>1. clock = "AUTO" /\ ~Live(p)
        BY <3>1, <3>3 DEF IInv, ClockInv, WorkInv, BlockerInv, CoveredInv
      <4> QED
        BY <3>1, <3>2, <3>3, <4>1, ResolveStep
    <3>4. CASE ~released[p]
      BY <3>1, <3>2, <3>4, GatedStutter DEF Unresolved, IInv, TypeOK
    <3> QED
      BY <3>3, <3>4
  <2> QED
    BY <1>f, <2>1, <2>2 DEF Resolve, WriteFinal, WriteFinalFails, ReleaseAdmission, ReleaseAdmissionFails
<1>g. ASSUME NEW p \in Lease, Unlock(p) \/ Crash(p) PROVE Goal
  BY <1>g, GatedStutter DEF Unlock, Crash, Unresolved
<1>h. ASSUME NEW l \in Lease, WorldAction(l) PROVE Goal
  <2>1. CASE SetterLands(l)
    BY <2>1, PolicyStep DEF SetterLands, IInv, SetterInv, TypeOK
  <2>2. CASE CreateContainer(l) \/ RunContainer(l) \/ ContainerExits(l)
    <3>1. UNCHANGED <<recState, clock>> /\ Unresolved(l)
      BY <2>2 DEF CreateContainer, RunContainer, ContainerExits, WorkInv, CoveredInv, Live
    <3>2. \A k \in Lease \ {l} : AtWork(k)' <=> AtWork(k)
      BY <2>2 DEF CreateContainer, RunContainer, ContainerExits, AtWork, KillWorkers, WorkersOf, IInv, TypeOK
    <3> QED
      BY <3>1, <3>2, WorkOfOne
  <2> QED
    BY <1>h, <2>1, <2>2 DEF WorldAction
<1>i. ASSUME NEW w \in Worker, WorkerAction(w) PROVE Goal
  <2>1. CASE \E l \in Lease : Spawn(w, l)
    <3> PICK l \in Lease : Spawn(w, l)
      BY <2>1
    <3>1. UNCHANGED <<recState, clock>> /\ (AtWork(l)' => Unresolved(l))
      BY DEF Spawn, IInv, GateInv, Responsible, Unresolved, WorkInv, CoveredInv, Live
    <3>2. \A k \in Lease \ {l} : AtWork(k)' <=> AtWork(k)
      BY DEF Spawn, WorkerStep, AtWork, IInv, TypeOK
    <3> QED
      BY <3>1, <3>2, WorkOfOne
  <2>2. CASE ReadOwner(w) \/ ProbeOwner(w) \/ WorkerTakesExecution(w) \/ EnterGpu(w) \/ WorkerEnds(w)
    <3> DEFINE l == wfor[w]
    <3>0. wpc[w] # "off"
      BY <2>2 DEF ReadOwner, ProbeOwner, WorkerTakesExecution, EnterGpu, WorkerEnds, WorkerStep
    <3>1. l \in Lease /\ Unresolved(l)
      BY <3>0 DEF IInv, WorkerInv, WorkInv, CoveredInv, Live, WorkersOf
    <3>2. UNCHANGED <<recState, clock>>
      BY <2>2 DEF ReadOwner, ProbeOwner, WorkerTakesExecution, EnterGpu, WorkerEnds
    <3>3. \A k \in Lease \ {l} : AtWork(k)' <=> AtWork(k)
      BY <2>2 DEF ReadOwner, ProbeOwner, WorkerTakesExecution, EnterGpu, WorkerEnds, WorkerStep, KillWorkers, AtWork, IInv, TypeOK
    <3> QED
      BY <3>1, <3>2, <3>3, WorkOfOne
  <2> QED
    BY <1>i, <2>1, <2>2 DEF WorkerAction
<1>j. ASSUME NEW o \in Operator, OperatorAction(o) PROVE Goal
  <2>1. CASE WriteRecovered(o) /\ Unresolved(otgt[o])
    <3>1. otgt[o] \in Lease /\ clock = "AUTO" /\ ~Live(otgt[o])
      BY <2>1 DEF WriteRecovered, OpStep, IInv, OwnershipInv, ClockInv, WorkInv, StoppedInv
    <3> QED
      BY <2>1, <3>1, ResolveStep DEF WriteRecovered
  <2>2. CASE WriteRecovered(o) /\ ~Unresolved(otgt[o])
    BY <2>2, GatedStutter DEF WriteRecovered, Unresolved, IInv, TypeOK
  <2>3. CASE recState' = recState
    BY <1>j, <2>3, GatedStutter DEF OperatorAction, BeginRecovery, InspectOwner, InspectDevice, WriteRecovered, RecoverAdmission, EndRecovery, Unresolved
  <2> QED
    BY <1>j, <2>1, <2>2, <2>3 DEF OperatorAction, BeginRecovery, InspectOwner, InspectDevice, RecoverAdmission, EndRecovery
<1>k. CASE OperatorSetsAuto
  BY <1>k, PolicyStep DEF OperatorSetsAuto, Abandoned, Policy
<1>l. ASSUME NEW l \in Lease, OperatorRemovesContainer(l) PROVE Goal
  <2>1. UNCHANGED <<recState, clock>> /\ Unresolved(l)
    BY <1>l DEF OperatorRemovesContainer, Abandoned
  <2>2. \A k \in Lease \ {l} : AtWork(k)' <=> AtWork(k)
    BY <1>l DEF OperatorRemovesContainer, AtWork, KillWorkers, WorkersOf, IInv, TypeOK
  <2> QED
    BY <2>1, <2>2, WorkOfOne
<1>m. CASE UNCHANGED vars
  BY <1>m, GatedStutter DEF Unresolved
<1> QED
  BY <1>a, <1>b, <1>c, <1>d, <1>e, <1>f, <1>g, <1>h, <1>i, <1>j, <1>k, <1>l, <1>m DEF Next, RunAction

(* Every behaviour implements the gated device of GatedGpu.                  *)
THEOREM Refinement ==
  ASSUME Fault = {}
  PROVE  Spec => RefinesGated
<1>1. Init => Gated!Init
  BY DEF Init, Gated!Init, Unresolved, AtWork
<1>2. QED
  BY <1>1, GatedStep, WorkInvariance, PTL DEF Spec, RefinesGated, Gated!Spec

------------------------------------------------------------------------------
(* Part 3: the locks, the way of a run, and an admission nobody can give     *)
(* back.                                                                    *)

HoldsL2(p) == kind[p] = "native" /\ HoldsL1(p) /\ pc[p] \notin {"gate", "lockL2"}
AtL2 == {"holdsL2", "reread", "armed", "onGpu"}

(* Nobody who is dead, finished, or waiting for the same lock holds one.  A   *)
(* run takes L1, L2 and its own lock in that order, so who waits for L1 has   *)
(* nothing, and who holds L2 waits for no lock any more.                     *)
OwnershipHeld ==
  /\ \A p \in Lease : L1 = p <=> HoldsL1(p)
  /\ \A o \in Operator : L1 = o <=> opc[o] # "idle"
ExecutionHeld ==
  /\ \A p \in Lease : (L2 = p => HoldsL2(p)) /\ (HoldsL2(p) => L2 = p \/ pc[p] = "unlock")
  /\ \A p \in Lease : pc[p] = "lockL2" => kind[p] = "native"
  /\ \A w \in Worker : L2 = w => wpc[w] \in AtL2
  /\ \A w \in Worker : L2 = w \/ wpc[w] = "verified" => kind[wfor[w]] # "native"
OwnerLockHeld == \A l \in Lease :
  /\ Responsible(l) \/ pc[l] = "release" => ownerLock[l] = l
  /\ \A p \in Lease : ownerLock[l] = p =>
       p = l /\ (Responsible(l) \/ pc[l] \in {"release", "unlock"})
  /\ \A o \in Operator : ownerLock[l] = o <=> opc[o] # "idle" /\ otgt[o] = l
LocksHeld == OwnershipHeld /\ ExecutionHeld /\ OwnerLockHeld

(* L1 is freed with the run, or with the recovery command. *)
LEMMA OwnershipHeldStep ==
  IInv /\ OwnershipHeld /\ [Next]_vars => OwnershipHeld'
<1> SUFFICES ASSUME IInv, OwnershipHeld, [Next]_vars PROVE OwnershipHeld'
  OBVIOUS
<1> USE ActorAssumption DEF TypeOK, IInv, OwnershipInv, OwnershipHeld, HoldsL1, RunPC
<1>1. ASSUME NEW p \in Lease, Enter(p) PROVE OwnershipHeld'
  BY <1>1 DEF Enter, Start, Step, Goto, AcquireOwnership, OwnershipTimeout,
      PassGate, Unresolved, Visible, Ready, TakeExecution, ObserveInitial,
      Abandon
<1>2. ASSUME NEW p \in Lease, Publish(p) PROVE OwnershipHeld'
  BY <1>2 DEF Publish, PublishHeld, Step, Goto, PublishRecord, Activated,
      RecordDue, PublishRecordFails
<1>3. ASSUME NEW p \in Lease, Activate(p) PROVE OwnershipHeld'
  BY <1>3 DEF Activate, BeginActivation, Step, Goto, PeakVerified, PeakFails,
      Supervise, Unwind
<1>4. ASSUME NEW p \in Lease, Body(p) PROVE OwnershipHeld'
  BY <1>4 DEF Body, StartClient, EndBody, Step, Goto, RemoveContainer,
      RemovalUnverified, CidUnreadable, Synchronized, SynchronizeFails
<1>5. ASSUME NEW p \in Lease, Restore(p) PROVE OwnershipHeld'
  BY <1>5 DEF Restore, BeginReset, Step, Goto, ReleaseUnset, ResetVerified,
      ResetFails
<1>6. ASSUME NEW p \in Lease, Resolve(p) PROVE OwnershipHeld'
  BY <1>6 DEF Resolve, WriteFinal, Step, Goto, FinalRecord, WriteFinalFails,
      ReleaseAdmission, OwnsAdmission, PublishedReady, ReleaseAdmissionFails,
      ReadyFails
<1>7. ASSUME NEW p \in Lease, Unlock(p) PROVE OwnershipHeld'
  BY <1>7 DEF Unlock, Step, Goto, FreeLocks
<1>8. ASSUME NEW p \in Lease, Crash(p) PROVE OwnershipHeld'
  BY <1>8 DEF Crash, Goto, FreeLocks, Alive
<1>9. ASSUME NEW p \in Lease, WorldAction(p) PROVE OwnershipHeld'
  BY <1>9 DEF WorldAction, SetterLands, CreateContainer, RunContainer,
      ContainerExits
<1>10. ASSUME NEW w \in Worker, WorkerAction(w) PROVE OwnershipHeld'
  BY <1>10 DEF WorkerAction, Spawn, WorkerStep, ReadOwner, ProbeOwner,
      WorkerTakesExecution, EnterGpu, WorkerEnds
<1>11. ASSUME NEW o \in Operator, OperatorAction(o) PROVE OwnershipHeld'
  BY <1>11 DEF OperatorAction, BeginRecovery, OpStep, ManuallyStopped,
      InspectOwner, OwnsAdmission, InspectDevice, WriteRecovered,
      RecoverAdmission, PublishedReady, ReadyFails, EndRecovery
<1>12. ASSUME OperatorSetsAuto PROVE OwnershipHeld'
  BY <1>12 DEF OperatorSetsAuto, Abandoned, Unresolved
<1>13. ASSUME NEW l \in Lease, OperatorRemovesContainer(l) PROVE OwnershipHeld'
  BY <1>13 DEF OperatorRemovesContainer, Abandoned, Unresolved
<1>14. CASE UNCHANGED vars
  BY <1>14
<1>15. QED
  BY <1>1, <1>2, <1>3, <1>4, <1>5, <1>6, <1>7, <1>8, <1>9, <1>10, <1>11,
      <1>12, <1>13, <1>14 DEF Next, RunAction

(* L2 is freed with the native run, or with the worker. *)
LEMMA ExecutionHeldStep ==
  IInv /\ ExecutionHeld /\ [Next]_vars => ExecutionHeld'
<1> SUFFICES ASSUME IInv, ExecutionHeld, [Next]_vars PROVE ExecutionHeld'
  OBVIOUS
<1> USE ActorAssumption DEF TypeOK, IInv, OwnershipInv, WorkerInv, ExecutionHeld, HoldsL1,
      HoldsL2, AtL2, RunPC, WorkersOf
<1>1. ASSUME NEW p \in Lease, Enter(p) PROVE ExecutionHeld'
  <2>1. CASE Start(p) \/ AcquireOwnership(p) \/ OwnershipTimeout(p)
    BY <2>1 DEF Start, Step, Goto, AcquireOwnership, OwnershipTimeout
  <2>2. CASE PassGate(p)
    BY <2>2 DEF PassGate, Step, Goto
  <2>3. CASE TakeExecution(p)
    BY <2>3 DEF TakeExecution, Step, Goto
  <2>4. CASE ObserveInitial(p) \/ Abandon(p)
    BY <2>4 DEF ObserveInitial, Abandon, Step, Goto
  <2> QED
    BY <1>1, <2>1, <2>2, <2>3, <2>4 DEF Enter
<1>2. ASSUME NEW p \in Lease, Publish(p) PROVE ExecutionHeld'
  BY <1>2 DEF Publish, PublishHeld, Step, Goto, PublishRecord, Activated,
      RecordDue, PublishRecordFails
<1>3. ASSUME NEW p \in Lease, Activate(p) PROVE ExecutionHeld'
  BY <1>3 DEF Activate, BeginActivation, Step, Goto, PeakVerified, PeakFails,
      Supervise, Unwind
<1>4. ASSUME NEW p \in Lease, Body(p) PROVE ExecutionHeld'
  BY <1>4 DEF Body, StartClient, EndBody, Step, Goto, RemoveContainer,
      RemovalUnverified, CidUnreadable, Synchronized, SynchronizeFails, KillWorkers
<1>5. ASSUME NEW p \in Lease, Restore(p) PROVE ExecutionHeld'
  BY <1>5 DEF Restore, BeginReset, Step, Goto, ReleaseUnset, ResetVerified,
      ResetFails
<1>6. ASSUME NEW p \in Lease, Resolve(p) PROVE ExecutionHeld'
  BY <1>6 DEF Resolve, WriteFinal, Step, Goto, FinalRecord, WriteFinalFails,
      ReleaseAdmission, OwnsAdmission, PublishedReady, ReleaseAdmissionFails,
      ReadyFails
<1>7. ASSUME NEW p \in Lease, Unlock(p) PROVE ExecutionHeld'
  BY <1>7 DEF Unlock, Step, Goto, FreeLocks
<1>8. ASSUME NEW p \in Lease, Crash(p) PROVE ExecutionHeld'
  BY <1>8 DEF Crash, Goto, FreeLocks, Alive
<1>9. ASSUME NEW p \in Lease, WorldAction(p) PROVE ExecutionHeld'
  <2>1. CASE SetterLands(p) \/ CreateContainer(p) \/ RunContainer(p)
    BY <2>1 DEF SetterLands, CreateContainer, RunContainer
  <2>2. CASE ContainerExits(p)
    BY <2>2 DEF ContainerExits, KillWorkers
  <2> QED
    BY <1>9, <2>1, <2>2 DEF WorldAction
<1>10. ASSUME NEW w \in Worker, WorkerAction(w) PROVE ExecutionHeld'
  BY <1>10 DEF WorkerAction, Spawn, WorkerStep, ReadOwner, ProbeOwner,
      WorkerTakesExecution, EnterGpu, WorkerEnds, KillWorkers
<1>11. ASSUME NEW o \in Operator, OperatorAction(o) PROVE ExecutionHeld'
  BY <1>11 DEF OperatorAction, BeginRecovery, OpStep, ManuallyStopped,
      InspectOwner, OwnsAdmission, InspectDevice, WriteRecovered,
      RecoverAdmission, PublishedReady, ReadyFails, EndRecovery
<1>12. ASSUME OperatorSetsAuto PROVE ExecutionHeld'
  BY <1>12 DEF OperatorSetsAuto, Abandoned, Unresolved
<1>13. ASSUME NEW l \in Lease, OperatorRemovesContainer(l) PROVE ExecutionHeld'
  BY <1>13 DEF OperatorRemovesContainer, Abandoned, Unresolved, KillWorkers
<1>14. CASE UNCHANGED vars
  BY <1>14
<1>15. QED
  BY <1>1, <1>2, <1>3, <1>4, <1>5, <1>6, <1>7, <1>8, <1>9, <1>10, <1>11,
      <1>12, <1>13, <1>14 DEF Next, RunAction

(* The lock of a lease is its run's while the record is, then its recovery's. *)
LEMMA OwnerLockHeldStep ==
  IInv /\ OwnerLockHeld /\ [Next]_vars => OwnerLockHeld'
<1> SUFFICES ASSUME IInv, OwnerLockHeld, [Next]_vars PROVE OwnerLockHeld'
  OBVIOUS
<1> USE ActorAssumption DEF TypeOK, IInv, OwnershipInv, OwnerLockHeld, Responsible, HoldsL1, RunPC
<1>1. ASSUME NEW p \in Lease, Enter(p) PROVE OwnerLockHeld'
  BY <1>1 DEF Enter, Start, Step, Goto, AcquireOwnership, OwnershipTimeout,
      PassGate, Unresolved, Visible, Ready, TakeExecution, ObserveInitial,
      Abandon
<1>2. ASSUME NEW p \in Lease, Publish(p) PROVE OwnerLockHeld'
  BY <1>2 DEF Publish, PublishHeld, Step, Goto, PublishRecord, Activated,
      RecordDue, PublishRecordFails
<1>3. ASSUME NEW p \in Lease, Activate(p) PROVE OwnerLockHeld'
  BY <1>3 DEF Activate, BeginActivation, Step, Goto, PeakVerified, PeakFails,
      Supervise, Unwind
<1>4. ASSUME NEW p \in Lease, Body(p) PROVE OwnerLockHeld'
  BY <1>4 DEF Body, StartClient, EndBody, Step, Goto, RemoveContainer,
      RemovalUnverified, CidUnreadable, Synchronized, SynchronizeFails
<1>5. ASSUME NEW p \in Lease, Restore(p) PROVE OwnerLockHeld'
  BY <1>5 DEF Restore, BeginReset, Step, Goto, ReleaseUnset, ResetVerified,
      ResetFails
<1>6. ASSUME NEW p \in Lease, Resolve(p) PROVE OwnerLockHeld'
  BY <1>6 DEF Resolve, WriteFinal, Step, Goto, FinalRecord, WriteFinalFails,
      ReleaseAdmission, OwnsAdmission, PublishedReady, ReleaseAdmissionFails,
      ReadyFails
<1>7. ASSUME NEW p \in Lease, Unlock(p) PROVE OwnerLockHeld'
  BY <1>7 DEF Unlock, Step, Goto, FreeLocks
<1>8. ASSUME NEW p \in Lease, Crash(p) PROVE OwnerLockHeld'
  BY <1>8 DEF Crash, Goto, FreeLocks, Alive
<1>9. ASSUME NEW p \in Lease, WorldAction(p) PROVE OwnerLockHeld'
  BY <1>9 DEF WorldAction, SetterLands, CreateContainer, RunContainer,
      ContainerExits
<1>10. ASSUME NEW w \in Worker, WorkerAction(w) PROVE OwnerLockHeld'
  BY <1>10 DEF WorkerAction, Spawn, WorkerStep, ReadOwner, ProbeOwner,
      WorkerTakesExecution, EnterGpu, WorkerEnds
<1>11. ASSUME NEW o \in Operator, OperatorAction(o) PROVE OwnerLockHeld'
  BY <1>11 DEF OperatorAction, BeginRecovery, OpStep, ManuallyStopped,
      InspectOwner, OwnsAdmission, InspectDevice, WriteRecovered,
      RecoverAdmission, PublishedReady, ReadyFails, EndRecovery
<1>12. ASSUME OperatorSetsAuto PROVE OwnerLockHeld'
  BY <1>12 DEF OperatorSetsAuto, Abandoned, Unresolved
<1>13. ASSUME NEW l \in Lease, OperatorRemovesContainer(l) PROVE OwnerLockHeld'
  BY <1>13 DEF OperatorRemovesContainer, Abandoned, Unresolved
<1>14. CASE UNCHANGED vars
  BY <1>14
<1>15. QED
  BY <1>1, <1>2, <1>3, <1>4, <1>5, <1>6, <1>7, <1>8, <1>9, <1>10, <1>11,
      <1>12, <1>13, <1>14 DEF Next, RunAction

(* No flock outlives the step that holds it (gpu_lock.py, clock_ownership.py,  *)
(* clock_recovery.py): dead and finished runs hold none, and waiting for one   *)
(* never closes a circle.                                                    *)
THEOREM LocksAreHeld == Spec => []LocksHeld
<1>1. Init => LocksHeld
  BY ActorAssumption DEF Init, LocksHeld, OwnershipHeld, ExecutionHeld, OwnerLockHeld,
      HoldsL1, HoldsL2, Responsible
<1>2. IInv /\ LocksHeld /\ [Next]_vars => LocksHeld'
  BY OwnershipHeldStep, ExecutionHeldStep, OwnerLockHeldStep DEF LocksHeld
<1>3. QED
  BY <1>1, <1>2, Invariance, PTL DEF Spec

(* Where a run stands on its way through locks, record, clocks, work and back. *)
PlaceOf(s) ==
  CASE s = "idle" -> 0      [] s = "lockL1" -> 1    [] s = "gate" -> 2
    [] s = "lockL2" -> 3    [] s = "observe" -> 4   [] s = "publish" -> 5
    [] s = "record" -> 6    [] s = "activate" -> 7  [] s = "setting" -> 8
    [] s = "supervise" -> 9 [] s = "body" -> 10     [] s = "cleanup" -> 11
    [] s = "restore" -> 12  [] s = "resetting" -> 13 [] s = "final" -> 14
    [] s = "release" -> 15  [] s = "unlock" -> 16   [] s = "done" -> 17
    [] s = "dead" -> 18
Forward == \A p \in Lease : pc'[p] # pc[p] => PlaceOf(pc[p]) < PlaceOf(pc'[p])

(* The two steps that could find their door closed: a record follows a hold    *)
(* only where there are admissions, and an admission is given back by the run   *)
(* it still names, whatever others did with it in the meantime.              *)
GoesOn == \A p \in Lease :
  /\ pc[p] \in {"record", "release"} => Admitted
  /\ pc[p] = "release" => OwnsAdmission(p)

(* No step of a run goes back to one it has left. *)
LEMMA ForwardStep ==
  IInv /\ [Next]_vars => Forward
<1> SUFFICES ASSUME IInv, [Next]_vars PROVE Forward
  OBVIOUS
<1> USE DEF TypeOK, IInv, Forward, PlaceOf, RunPC
<1>1. ASSUME NEW p \in Lease, Enter(p) PROVE Forward
  BY <1>1 DEF Enter, Start, Step, Goto, AcquireOwnership, OwnershipTimeout,
      PassGate, Unresolved, Visible, Ready, TakeExecution, ObserveInitial,
      Abandon
<1>2. ASSUME NEW p \in Lease, Publish(p) PROVE Forward
  BY <1>2 DEF Publish, PublishHeld, Step, Goto, PublishRecord, Activated,
      RecordDue, PublishRecordFails
<1>3. ASSUME NEW p \in Lease, Activate(p) PROVE Forward
  BY <1>3 DEF Activate, BeginActivation, Step, Goto, PeakVerified, PeakFails,
      Supervise, Unwind
<1>4. ASSUME NEW p \in Lease, Body(p) PROVE Forward
  BY <1>4 DEF Body, StartClient, EndBody, Step, Goto, RemoveContainer,
      RemovalUnverified, CidUnreadable, Synchronized, SynchronizeFails
<1>5. ASSUME NEW p \in Lease, Restore(p) PROVE Forward
  BY <1>5 DEF Restore, BeginReset, Step, Goto, ReleaseUnset, ResetVerified,
      ResetFails
<1>6. ASSUME NEW p \in Lease, Resolve(p) PROVE Forward
  BY <1>6 DEF Resolve, WriteFinal, Step, Goto, FinalRecord, WriteFinalFails,
      ReleaseAdmission, OwnsAdmission, PublishedReady, ReleaseAdmissionFails,
      ReadyFails
<1>7. ASSUME NEW p \in Lease, Unlock(p) PROVE Forward
  BY <1>7 DEF Unlock, Step, Goto, FreeLocks
<1>8. ASSUME NEW p \in Lease, Crash(p) PROVE Forward
  BY <1>8 DEF Crash, Goto, FreeLocks, Alive
<1>9. ASSUME NEW p \in Lease, WorldAction(p) PROVE Forward
  BY <1>9 DEF WorldAction, SetterLands, CreateContainer, RunContainer,
      ContainerExits
<1>10. ASSUME NEW w \in Worker, WorkerAction(w) PROVE Forward
  BY <1>10 DEF WorkerAction, Spawn, WorkerStep, ReadOwner, ProbeOwner,
      WorkerTakesExecution, EnterGpu, WorkerEnds
<1>11. ASSUME NEW o \in Operator, OperatorAction(o) PROVE Forward
  BY <1>11 DEF OperatorAction, BeginRecovery, OpStep, ManuallyStopped,
      InspectOwner, OwnsAdmission, InspectDevice, WriteRecovered,
      RecoverAdmission, PublishedReady, ReadyFails, EndRecovery
<1>12. ASSUME OperatorSetsAuto PROVE Forward
  BY <1>12 DEF OperatorSetsAuto, Abandoned, Unresolved
<1>13. ASSUME NEW l \in Lease, OperatorRemovesContainer(l) PROVE Forward
  BY <1>13 DEF OperatorRemovesContainer, Abandoned, Unresolved
<1>14. CASE UNCHANGED vars
  BY <1>14
<1>15. QED
  BY <1>1, <1>2, <1>3, <1>4, <1>5, <1>6, <1>7, <1>8, <1>9, <1>10, <1>11,
      <1>12, <1>13, <1>14 DEF Next, RunAction

(* The admission of a run is touched by the run alone until it gave it back. *)
LEMMA GoesOnStep ==
  IInv /\ GoesOn /\ [Next]_vars => GoesOn'
<1> SUFFICES ASSUME IInv, GoesOn, [Next]_vars PROVE GoesOn'
  OBVIOUS
<1> USE ActorAssumption DEF TypeOK, IInv, OwnershipInv, HoldsL1, GateInv, Responsible,
      AdmissionInv, Unresolved, OwnsAdmission, RunPC, GoesOn
<1>1. ASSUME NEW p \in Lease, Enter(p) PROVE GoesOn'
  BY <1>1 DEF Enter, Start, Step, Goto, AcquireOwnership, OwnershipTimeout,
      PassGate, Unresolved, Visible, Ready, TakeExecution, ObserveInitial,
      Abandon
<1>2. ASSUME NEW p \in Lease, Publish(p) PROVE GoesOn'
  BY <1>2 DEF Publish, PublishHeld, Step, Goto, PublishRecord, Activated,
      RecordDue, PublishRecordFails
<1>3. ASSUME NEW p \in Lease, Activate(p) PROVE GoesOn'
  BY <1>3 DEF Activate, BeginActivation, Step, Goto, PeakVerified, PeakFails,
      Supervise, Unwind
<1>4. ASSUME NEW p \in Lease, Body(p) PROVE GoesOn'
  BY <1>4 DEF Body, StartClient, EndBody, Step, Goto, RemoveContainer,
      RemovalUnverified, CidUnreadable, Synchronized, SynchronizeFails
<1>5. ASSUME NEW p \in Lease, Restore(p) PROVE GoesOn'
  BY <1>5 DEF Restore, BeginReset, Step, Goto, ReleaseUnset, ResetVerified,
      ResetFails
<1>6. ASSUME NEW p \in Lease, Resolve(p) PROVE GoesOn'
  BY <1>6 DEF Resolve, WriteFinal, Step, Goto, FinalRecord, WriteFinalFails,
      ReleaseAdmission, OwnsAdmission, PublishedReady, ReleaseAdmissionFails,
      ReadyFails
<1>7. ASSUME NEW p \in Lease, Unlock(p) PROVE GoesOn'
  BY <1>7 DEF Unlock, Step, Goto, FreeLocks
<1>8. ASSUME NEW p \in Lease, Crash(p) PROVE GoesOn'
  BY <1>8 DEF Crash, Goto, FreeLocks, Alive
<1>9. ASSUME NEW p \in Lease, WorldAction(p) PROVE GoesOn'
  BY <1>9 DEF WorldAction, SetterLands, CreateContainer, RunContainer,
      ContainerExits
<1>10. ASSUME NEW w \in Worker, WorkerAction(w) PROVE GoesOn'
  BY <1>10 DEF WorkerAction, Spawn, WorkerStep, ReadOwner, ProbeOwner,
      WorkerTakesExecution, EnterGpu, WorkerEnds
<1>11. ASSUME NEW o \in Operator, OperatorAction(o) PROVE GoesOn'
  BY <1>11 DEF OperatorAction, BeginRecovery, OpStep, ManuallyStopped,
      InspectOwner, OwnsAdmission, InspectDevice, WriteRecovered,
      RecoverAdmission, PublishedReady, ReadyFails, EndRecovery
<1>12. ASSUME OperatorSetsAuto PROVE GoesOn'
  BY <1>12 DEF OperatorSetsAuto, Abandoned, Unresolved
<1>13. ASSUME NEW l \in Lease, OperatorRemovesContainer(l) PROVE GoesOn'
  BY <1>13 DEF OperatorRemovesContainer, Abandoned, Unresolved
<1>14. CASE UNCHANGED vars
  BY <1>14
<1>15. QED
  BY <1>1, <1>2, <1>3, <1>4, <1>5, <1>6, <1>7, <1>8, <1>9, <1>10, <1>11,
      <1>12, <1>13, <1>14 DEF Next, RunAction

(* The safety half of OwnershipIsReleased: a run passes each of its places     *)
(* once, the places that free the locks are the last, and none of its steps    *)
(* waits for a door that stays closed.                                        *)
THEOREM RunsGoForward == Spec => []GoesOn /\ [][Forward]_vars
<1>1. Init => GoesOn
  BY DEF Init, GoesOn
<1>2. IInv /\ GoesOn /\ [Next]_vars => GoesOn'
  BY GoesOnStep
<1>3. IInv /\ [Next]_vars => Forward
  BY ForwardStep
<1>4. QED
  BY <1>1, <1>2, <1>3, Invariance, PTL DEF Spec

(* A run that died between the hold and the record (clock_ownership.py:230),   *)
(* or failed to write the record: the admission names a lease without one.    *)
Orphaned(l) ==
  Admitted /\ OwnsAdmission(l) /\ recState[l] = "absent" /\ pc[l] \in {"unlock", "done", "dead"}

(* A recovery command has found the record it was started for.               *)
TargetInv == \A o \in Operator : opc[o] # "idle" => recState[otgt[o]] # "absent"

(* The device is free: what the admission still holds was never begun.        *)
OrphanIsHarmless == \A l \in Lease : Orphaned(l) =>
  clock = "AUTO" /\ \A k \in Lease : setter[k] = "none" /\ ~Unresolved(k) /\ ~AtWork(k)

(* It stays: no recovery resolves a lease without a record, and no run passes  *)
(* the gate any more.                                                        *)
OrphanStays == \A l \in Lease : Orphaned(l) =>
  Orphaned(l)' /\ \A p \in Lease : pc[p] = "gate" => pc'[p] \in {"gate", "unlock", "dead"}

(* Records do not go away. *)
LEMMA TargetInvStep ==
  IInv /\ TargetInv /\ [Next]_vars => TargetInv'
<1> SUFFICES ASSUME IInv, TargetInv, [Next]_vars PROVE TargetInv'
  OBVIOUS
<1> USE ActorAssumption DEF TypeOK, IInv, OwnershipInv, RecordState, TargetInv
<1>1. ASSUME NEW p \in Lease, Enter(p) PROVE TargetInv'
  BY <1>1 DEF Enter, Start, Step, Goto, AcquireOwnership, OwnershipTimeout,
      PassGate, Unresolved, Visible, Ready, TakeExecution, ObserveInitial,
      Abandon
<1>2. ASSUME NEW p \in Lease, Publish(p) PROVE TargetInv'
  BY <1>2 DEF Publish, PublishHeld, Step, Goto, PublishRecord, Activated,
      RecordDue, PublishRecordFails
<1>3. ASSUME NEW p \in Lease, Activate(p) PROVE TargetInv'
  BY <1>3 DEF Activate, BeginActivation, Step, Goto, PeakVerified, PeakFails,
      Supervise, Unwind
<1>4. ASSUME NEW p \in Lease, Body(p) PROVE TargetInv'
  BY <1>4 DEF Body, StartClient, EndBody, Step, Goto, RemoveContainer,
      RemovalUnverified, CidUnreadable, Synchronized, SynchronizeFails
<1>5. ASSUME NEW p \in Lease, Restore(p) PROVE TargetInv'
  BY <1>5 DEF Restore, BeginReset, Step, Goto, ReleaseUnset, ResetVerified,
      ResetFails
<1>6. ASSUME NEW p \in Lease, Resolve(p) PROVE TargetInv'
  BY <1>6 DEF Resolve, WriteFinal, Step, Goto, FinalRecord, WriteFinalFails,
      ReleaseAdmission, OwnsAdmission, PublishedReady, ReleaseAdmissionFails,
      ReadyFails
<1>7. ASSUME NEW p \in Lease, Unlock(p) PROVE TargetInv'
  BY <1>7 DEF Unlock, Step, Goto, FreeLocks
<1>8. ASSUME NEW p \in Lease, Crash(p) PROVE TargetInv'
  BY <1>8 DEF Crash, Goto, FreeLocks, Alive
<1>9. ASSUME NEW p \in Lease, WorldAction(p) PROVE TargetInv'
  BY <1>9 DEF WorldAction, SetterLands, CreateContainer, RunContainer,
      ContainerExits
<1>10. ASSUME NEW w \in Worker, WorkerAction(w) PROVE TargetInv'
  BY <1>10 DEF WorkerAction, Spawn, WorkerStep, ReadOwner, ProbeOwner,
      WorkerTakesExecution, EnterGpu, WorkerEnds
<1>11. ASSUME NEW o \in Operator, OperatorAction(o) PROVE TargetInv'
  BY <1>11 DEF OperatorAction, BeginRecovery, OpStep, ManuallyStopped,
      InspectOwner, OwnsAdmission, InspectDevice, WriteRecovered,
      RecoverAdmission, PublishedReady, ReadyFails, EndRecovery
<1>12. ASSUME OperatorSetsAuto PROVE TargetInv'
  BY <1>12 DEF OperatorSetsAuto, Abandoned, Unresolved
<1>13. ASSUME NEW l \in Lease, OperatorRemovesContainer(l) PROVE TargetInv'
  BY <1>13 DEF OperatorRemovesContainer, Abandoned, Unresolved
<1>14. CASE UNCHANGED vars
  BY <1>14
<1>15. QED
  BY <1>1, <1>2, <1>3, <1>4, <1>5, <1>6, <1>7, <1>8, <1>9, <1>10, <1>11,
      <1>12, <1>13, <1>14 DEF Next, RunAction

(* Only its run or its recovery can take an admission from a lease. *)
LEMMA OrphanStaysStep ==
  IInv /\ TargetInv /\ [Next]_vars => OrphanStays
<1> SUFFICES ASSUME IInv, TargetInv, [Next]_vars PROVE OrphanStays
  OBVIOUS
<1> USE ActorAssumption DEF TypeOK, IInv, OwnershipInv, HoldsL1, GateInv, Responsible,
      AdmissionInv, Unresolved, OwnsAdmission, RunPC, TargetInv, Orphaned, OrphanStays
<1>1. ASSUME NEW p \in Lease, Enter(p) PROVE OrphanStays
  BY <1>1 DEF Enter, Start, Step, Goto, AcquireOwnership, OwnershipTimeout,
      PassGate, Visible, Ready, TakeExecution, ObserveInitial,
      Abandon
<1>2. ASSUME NEW p \in Lease, Publish(p) PROVE OrphanStays
  BY <1>2 DEF Publish, PublishHeld, Step, Goto, PublishRecord, Activated,
      RecordDue, PublishRecordFails
<1>3. ASSUME NEW p \in Lease, Activate(p) PROVE OrphanStays
  BY <1>3 DEF Activate, BeginActivation, Step, Goto, PeakVerified, PeakFails,
      Supervise, Unwind
<1>4. ASSUME NEW p \in Lease, Body(p) PROVE OrphanStays
  BY <1>4 DEF Body, StartClient, EndBody, Step, Goto, RemoveContainer,
      RemovalUnverified, CidUnreadable, Synchronized, SynchronizeFails
<1>5. ASSUME NEW p \in Lease, Restore(p) PROVE OrphanStays
  BY <1>5 DEF Restore, BeginReset, Step, Goto, ReleaseUnset, ResetVerified,
      ResetFails
<1>6. ASSUME NEW p \in Lease, Resolve(p) PROVE OrphanStays
  BY <1>6 DEF Resolve, WriteFinal, Step, Goto, FinalRecord, WriteFinalFails,
      ReleaseAdmission, OwnsAdmission, PublishedReady, ReleaseAdmissionFails,
      ReadyFails
<1>7. ASSUME NEW p \in Lease, Unlock(p) PROVE OrphanStays
  BY <1>7 DEF Unlock, Step, Goto, FreeLocks
<1>8. ASSUME NEW p \in Lease, Crash(p) PROVE OrphanStays
  BY <1>8 DEF Crash, Goto, FreeLocks, Alive
<1>9. ASSUME NEW p \in Lease, WorldAction(p) PROVE OrphanStays
  BY <1>9 DEF WorldAction, SetterLands, CreateContainer, RunContainer,
      ContainerExits
<1>10. ASSUME NEW w \in Worker, WorkerAction(w) PROVE OrphanStays
  BY <1>10 DEF WorkerAction, Spawn, WorkerStep, ReadOwner, ProbeOwner,
      WorkerTakesExecution, EnterGpu, WorkerEnds
<1>11. ASSUME NEW o \in Operator, OperatorAction(o) PROVE OrphanStays
  BY <1>11 DEF OperatorAction, BeginRecovery, OpStep, ManuallyStopped,
      InspectOwner, OwnsAdmission, InspectDevice, WriteRecovered,
      RecoverAdmission, PublishedReady, ReadyFails, EndRecovery
<1>12. ASSUME OperatorSetsAuto PROVE OrphanStays
  BY <1>12 DEF OperatorSetsAuto, Abandoned, Unresolved
<1>13. ASSUME NEW l \in Lease, OperatorRemovesContainer(l) PROVE OrphanStays
  BY <1>13 DEF OperatorRemovesContainer, Abandoned, Unresolved
<1>14. CASE UNCHANGED vars
  BY <1>14
<1>15. QED
  BY <1>1, <1>2, <1>3, <1>4, <1>5, <1>6, <1>7, <1>8, <1>9, <1>10, <1>11,
      <1>12, <1>13, <1>14 DEF Next, RunAction

(* The hold that was published before the record was (clock_ownership.py:230)  *)
(* is safe, and final: the device is free, every later run is refused, and no   *)
(* run and no recovery command changes that, only a hand at the file.          *)
THEOREM OrphanedHoldIsFinal ==
  ASSUME Fault = {}
  PROVE  Spec => []OrphanIsHarmless /\ [][OrphanStays]_vars
<1>1. IInv /\ WorkInv => OrphanIsHarmless
  <2> SUFFICES ASSUME IInv, WorkInv, NEW l \in Lease, Orphaned(l)
               PROVE  clock = "AUTO" /\ \A k \in Lease :
                        setter[k] = "none" /\ ~Unresolved(k) /\ ~AtWork(k)
    BY DEF OrphanIsHarmless
  <2>1. \A k \in Lease : ~Unresolved(k)
    BY DEF Orphaned, OwnsAdmission, Unresolved, IInv, AdmissionInv
  <2>2. clock = "AUTO"
    BY <2>1 DEF IInv, TypeOK, Policy, ClockInv, ClockGate
  <2>3. \A k \in Lease : setter[k] = "none"
    BY <2>1 DEF IInv, SetterInv
  <2>4. \A k \in Lease : ~AtWork(k)
    BY <2>1, CoveredWork DEF WorkGated
  <2> QED
    BY <2>1, <2>2, <2>3, <2>4
<1>2. Init => TargetInv
  BY DEF Init, TargetInv
<1>3. IInv /\ TargetInv /\ [Next]_vars => TargetInv'
  BY TargetInvStep
<1>4. IInv /\ TargetInv /\ [Next]_vars => OrphanStays
  BY OrphanStaysStep
<1>5. QED
  BY <1>1, <1>2, <1>3, <1>4, Invariance, WorkInvariance, PTL DEF Spec
=============================================================================
