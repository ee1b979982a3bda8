---------------------------- MODULE GpuOwnership ----------------------------
(***************************************************************************)
(* Ownership of one GPU: the L1 ownership and L2 execution flocks, the     *)
(* durable owner record and the neutral admission record, the clock policy *)
(* the owner sets and must give back, the container or child processes it  *)
(* supervises, SIGKILL at any point, and the operator's verification-only  *)
(* recovery.  Locks and records of different UUIDs never meet, so one GPU  *)
(* is the whole state.  Code: core/bench/{gpu_lock, clock_ownership,       *)
(* clock_lock, clock_recovery, gpu_admission, host_clock_guard,            *)
(* gpu_execution}.py and tools/docker_process.py.                          *)
(***************************************************************************)
EXTENDS Naturals, FiniteSets

CONSTANTS
  Lease,      \* native owner runs; each draws a fresh uuid4 lease id, its name here
  Worker,     \* processes started under an owner: evaluators, container mains
  Operator,   \* people running the recovery command
  NoOne,      \* a free lock, or an admission record without an owner
  Kinds,      \* which native entries the instance uses, a subset of AllKinds
  Admitted,   \* SOL_EXECBENCH_ADMISSION_RECORD is configured
  StateDir,   \* the private record directory each run was configured with
  LegacyDir,  \* LEGACY_CLOCK_STATE_DIRECTORY, which every run also inspects
  Fault       \* faults beyond those always present, a subset of AllFaults

(* "docker": the host guard around `docker run`; "host": the host guard      *)
(* around another command; "native": native_gpu_execution in this process.  *)
AllKinds == {"docker", "host", "native"}
(* "cid_unreadable": reading an existing cidfile raises, which is not a     *)
(* ContainerCleanupError; "escape": a process of the work outlives the end   *)
(* of its leader: a descendant in a session of its own, which no drain       *)
(* reaches, or any descendant of a "host" command that is attached to a      *)
(* terminal, for which run_attached_process_group drains nothing.            *)
AllFaults == {"cid_unreadable", "escape"}

ASSUME ActorAssumption ==
  /\ NoOne \notin Lease \cup Worker \cup Operator
  /\ Lease \cap Worker = {} /\ Lease \cap Operator = {}
  /\ Worker \cap Operator = {}
ASSUME ConfigAssumption ==
  /\ Kinds \subseteq AllKinds
  /\ Admitted \in BOOLEAN
  /\ Fault \subseteq AllFaults
(* Without the shared admission record, only runs that inspect each other's  *)
(* private records gate each other (docs/user/CONFIGURATION.md, "generic      *)
(* native locking ... does not provide cross-project crash-state admission").  *)
ASSUME GateAssumption ==
  Admitted \/ \A p, q \in Lease : StateDir[q] \in {StateDir[p], LegacyDir}

VARIABLES
  pc, kind, managed,      \* each run: where it is, its entry, whether it sets clocks
  blocker, released,      \* each run's ClockLockLease: release_blocker, _released
  L1, L2, ownerLock,      \* flock holders; ownerLock[l] is l's <lease>.lock
  recState, supervised, recBlocker,   \* the durable owner record of each run
  adm,                    \* the admission record
  clock, setter,          \* the device's policy; the `amd-smi set` in flight for a run
  client, container, cid, \* docker run client, its container, the recorded id
  wpc, wfor,              \* each worker: where it is, the lease it was started under
  opc, otgt               \* each operator: where the recovery is, its lease

run == <<kind, managed>>
mem == <<blocker, released>>
locks == <<L1, L2, ownerLock>>
rec == <<recState, supervised, recBlocker>>
disk == <<rec, adm>>
device == <<clock, setter>>
docker == <<client, container, cid>>
work == <<wpc, wfor>>
recovery == <<opc, otgt>>
vars == <<pc, run, mem, locks, disk, device, docker, work, recovery>>

RunPC == {"idle", "lockL1", "gate", "lockL2", "observe", "publish", "record",
          "activate", "setting", "supervise", "body", "cleanup", "restore",
          "resetting", "final", "release", "unlock", "done", "dead"}
WorkerPC == {"off", "ready", "read", "verified", "holdsL2", "reread",
             "armed", "onGpu"}
OperatorPC == {"idle", "locked", "inspected", "confirmed", "ready", "unlock"}
Blocker == {"none", "container", "execution"}
RecordState == {"absent", "active", "restored", "restore_failed"}
Admission == [state : {"READY", "HELD", "BLOCKED"}, owner : Lease \cup {NoOne}]
Policy == {"AUTO", "PEAK"}
Container == {"none", "created", "running", "stopped", "gone"}

TypeOK ==
  /\ pc \in [Lease -> RunPC]
  /\ kind \in [Lease -> AllKinds] /\ managed \in [Lease -> BOOLEAN]
  /\ blocker \in [Lease -> Blocker] /\ released \in [Lease -> BOOLEAN]
  /\ L1 \in Lease \cup Operator \cup {NoOne}
  /\ L2 \in Lease \cup Worker \cup {NoOne}
  /\ ownerLock \in [Lease -> Lease \cup Operator \cup {NoOne}]
  /\ recState \in [Lease -> RecordState] /\ supervised \in [Lease -> BOOLEAN]
  /\ recBlocker \in [Lease -> Blocker] /\ adm \in Admission
  /\ clock \in Policy /\ setter \in [Lease -> Policy \cup {"none"}]
  /\ client \in [Lease -> BOOLEAN] /\ container \in [Lease -> Container]
  /\ cid \in [Lease -> BOOLEAN]
  /\ wpc \in [Worker -> WorkerPC] /\ wfor \in [Worker -> Lease \cup {NoOne}]
  /\ opc \in [Operator -> OperatorPC]
  /\ otgt \in [Operator -> Lease \cup {NoOne}]

-----------------------------------------------------------------------------
(* A record that makes require_no_clock_recovery refuse the next owner.     *)
Unresolved(l) == recState[l] \in {"active", "restore_failed"}
Alive(p) == pc[p] \notin {"idle", "done", "dead"}
WorkersOf(l) == {w \in Worker : wfor[w] = l}

Init ==
  /\ pc = [l \in Lease |-> "idle"]
  /\ kind \in [Lease -> Kinds] /\ managed \in [Lease -> BOOLEAN]
  /\ blocker = [l \in Lease |-> "none"] /\ released = [l \in Lease |-> FALSE]
  /\ L1 = NoOne /\ L2 = NoOne /\ ownerLock = [l \in Lease |-> NoOne]
  /\ recState = [l \in Lease |-> "absent"] /\ supervised = [l \in Lease |-> FALSE]
  /\ recBlocker = [l \in Lease |-> "none"]
  /\ adm = [state |-> "READY", owner |-> NoOne]
  /\ clock = "AUTO" /\ setter = [l \in Lease |-> "none"]
  /\ client = [l \in Lease |-> FALSE] /\ container = [l \in Lease |-> "none"]
  /\ cid = [l \in Lease |-> FALSE]
  /\ wpc = [w \in Worker |-> "off"] /\ wfor = [w \in Worker |-> NoOne]
  /\ opc = [o \in Operator |-> "idle"] /\ otgt = [o \in Operator |-> NoOne]

-----------------------------------------------------------------------------
(* What the actions are made of.                                            *)

Goto(p, to) == pc' = [pc EXCEPT ![p] = to]
Step(p, from, to) == pc[p] = from /\ Goto(p, to)
WorkerStep(w, from, to) == wpc[w] = from /\ wpc' = [wpc EXCEPT ![w] = to]
OpStep(o, from, to) == opc[o] = from /\ opc' = [opc EXCEPT ![o] = to]

Visible(p) == {l \in Lease : StateDir[l] \in {StateDir[p], LegacyDir}}
Ready == Admitted => adm.state = "READY"
Activated(p) ==
  /\ recState' = [recState EXCEPT ![p] = "active"]
  /\ UNCHANGED <<supervised, recBlocker>>
RecordDue(p) == pc[p] = IF Admitted THEN "record" ELSE "publish"

(* Processes die, and the kernel frees the flock one of them held.          *)
KillWorkers(S) ==
  /\ wpc' = [w \in Worker |-> IF w \in S THEN "off" ELSE wpc[w]]
  /\ wfor' = [w \in Worker |-> IF w \in S THEN NoOne ELSE wfor[w]]
  /\ L2' = IF L2 \in S THEN NoOne ELSE L2

FinalRecord(p) ==
  /\ recState' = [recState EXCEPT
                    ![p] = IF released[p] THEN "restored" ELSE "restore_failed"]
  /\ recBlocker' = [recBlocker EXCEPT ![p] = blocker[p]]
  /\ UNCHANGED supervised

OwnsAdmission(l) == adm.state # "READY" /\ adm.owner = l
(* Mutant of PublishedReady: a state the other readers do not know.          *)
BugPublishedReady == [state |-> "AVAILABLE", owner |-> NoOne]
PublishedReady == [state |-> "READY", owner |-> NoOne]

(* Mutant of FreeLocks: the ownership descriptor is leaked.                  *)
BugFreeLocks(p) ==
  /\ L2' = IF L2 = p THEN NoOne ELSE L2
  /\ ownerLock' = [ownerLock EXCEPT ![p] = IF @ = p THEN NoOne ELSE @]
  /\ UNCHANGED L1
(* Everything a run holds is freed: its context managers exit in the order   *)
(* owner lock, L2, L1, or the kernel closes its descriptors.                 *)
FreeLocks(p) ==
  /\ L1' = IF L1 = p THEN NoOne ELSE L1
  /\ L2' = IF L2 = p THEN NoOne ELSE L2
  /\ ownerLock' = [ownerLock EXCEPT ![p] = IF @ = p THEN NoOne ELSE @]

-----------------------------------------------------------------------------
(* Mutants: actions below as a plausible bug would have left them.  No        *)
(* behaviour of Spec uses them.                                              *)

(* The gate forgets to look for unresolved records.                         *)
BugPassGate(p) ==
  /\ Step(p, "gate", IF kind[p] = "native" THEN "lockL2" ELSE "observe")
  /\ Ready
  /\ UNCHANGED <<run, mem, locks, disk, device, docker, work, recovery>>

(* STABLE_PEAK is assumed, not read back.                                   *)
BugPeakVerified(p) ==
  /\ Step(p, "setting", "supervise")
  /\ UNCHANGED <<run, mem, locks, disk, device, docker, work, recovery>>

(* The blocker is ignored and the clocks are reset all the same.             *)
BugBeginReset(p) ==
  /\ Step(p, "restore", "resetting")
  /\ managed[p]
  /\ setter' = [setter EXCEPT ![p] = "AUTO"]
  /\ UNCHANGED <<run, mem, locks, disk, clock, docker, work, recovery>>

(* The reset command's exit status is trusted without a readback.            *)
BugResetVerified(p) ==
  /\ Step(p, "resetting", "final")
  /\ setter' = [setter EXCEPT ![p] = "none"]
  /\ released' = [released EXCEPT ![p] = TRUE]
  /\ UNCHANGED <<run, blocker, locks, disk, clock, docker, work, recovery>>

(* The admission is given back whatever the final record says.               *)
BugWriteFinal(p) ==
  /\ Step(p, "final", IF Admitted THEN "release" ELSE "unlock")
  /\ FinalRecord(p)
  /\ UNCHANGED <<run, mem, locks, adm, device, docker, work, recovery>>

(* Recovery does not ask docker about the container.                        *)
BugInspectOwnerBlind(o) ==
  /\ OpStep(o, "locked", "inspected")
  /\ Admitted => OwnsAdmission(otgt[o])
  /\ UNCHANGED <<pc, run, mem, locks, disk, device, docker, work, otgt>>

(* Recovery treats every release blocker as unresolved.                     *)
BugInspectOwnerStrict(o) == LET l == otgt[o] IN
  /\ OpStep(o, "locked", "inspected")
  /\ Admitted => OwnsAdmission(l)
  /\ supervised[l] => cid[l] /\ container[l] = "gone"
  /\ recBlocker[l] = "none"
  /\ UNCHANGED <<pc, run, mem, locks, disk, device, docker, work, otgt>>

(* Recovery checks that the device is idle, not that it reads AUTO.          *)
BugInspectDevice(o) ==
  /\ OpStep(o, "inspected", "confirmed")
  /\ \A w \in Worker : wpc[w] # "onGpu"
  /\ UNCHANGED <<pc, run, mem, locks, disk, device, docker, work, otgt>>

-----------------------------------------------------------------------------
(* Taking the locks and passing the gate.                                   *)

Start(p) ==
  /\ Step(p, "idle", "lockL1")
  /\ UNCHANGED <<run, mem, locks, disk, device, docker, work, recovery>>

AcquireOwnership(p) ==
  /\ Step(p, "lockL1", "gate")
  /\ L1 = NoOne /\ L1' = p
  /\ UNCHANGED <<run, mem, L2, ownerLock, disk, device, docker, work, recovery>>

(* The 50 ms LOCK_NB poll reached its deadline; the guard exits with 75.     *)
OwnershipTimeout(p) ==
  /\ Step(p, "lockL1", "done")
  /\ L1 # NoOne
  /\ UNCHANGED <<run, mem, locks, disk, device, docker, work, recovery>>

PassGate(p) ==
  /\ Step(p, "gate", IF kind[p] = "native" THEN "lockL2" ELSE "observe")
  /\ Ready
  /\ \A l \in Visible(p) : ~Unresolved(l)
  /\ UNCHANGED <<run, mem, locks, disk, device, docker, work, recovery>>

TakeExecution(p) ==
  /\ Step(p, "lockL2", "observe")
  /\ L2 = NoOne /\ L2' = p
  /\ UNCHANGED <<run, mem, L1, ownerLock, disk, device, docker, work, recovery>>

ObserveInitial(p) ==
  /\ Step(p, "observe", "publish")
  /\ clock = "AUTO"
  /\ (kind[p] # "native" \/ managed[p]) => Ready
  /\ UNCHANGED <<run, mem, locks, disk, device, docker, work, recovery>>

(* A refused gate, an L2 timeout, a failed observation or a termination     *)
(* signal before anything was published: the context managers unwind.       *)
Abandon(p) ==
  /\ pc[p] \in {"gate", "lockL2", "observe", "publish"}
  /\ Goto(p, "unlock")
  /\ UNCHANGED <<run, mem, locks, disk, device, docker, work, recovery>>

-----------------------------------------------------------------------------
(* Publishing responsibility, before any side effect on the device.         *)

(* Admission.hold; `durable` is FALSE when the directory sync after the      *)
(* rename failed: the record is there, and the owner unwinds.               *)
PublishHeld(p, durable) ==
  /\ Step(p, "publish", IF durable THEN "record" ELSE "unlock")
  /\ Admitted /\ adm.state = "READY"
  /\ adm' = [state |-> "HELD", owner |-> p]
  /\ UNCHANGED <<run, mem, locks, rec, device, docker, work, recovery>>

PublishRecord(p) ==
  /\ RecordDue(p)
  /\ Goto(p, "activate")
  /\ ownerLock' = [ownerLock EXCEPT ![p] = p]
  /\ Activated(p)
  /\ UNCHANGED <<run, mem, L1, L2, adm, device, docker, work, recovery>>

(* The write raised.  Only the durable writer can have renamed by then.      *)
PublishRecordFails(p) ==
  /\ RecordDue(p)
  /\ Goto(p, "unlock")
  /\ \/ UNCHANGED rec
     \/ Admitted /\ Activated(p)
  /\ UNCHANGED <<run, mem, locks, adm, device, docker, work, recovery>>

-----------------------------------------------------------------------------
(* Activation.  The `sudo amd-smi set` is a process of its own: it may take  *)
(* effect at any time until it is reaped, also after its caller was killed.  *)

BeginActivation(p) ==
  /\ Step(p, "activate", IF managed[p] THEN "setting" ELSE "supervise")
  /\ setter' = IF managed[p] THEN [setter EXCEPT ![p] = "PEAK"] ELSE setter
  /\ UNCHANGED <<run, mem, locks, disk, clock, docker, work, recovery>>

SetterLands(p) ==
  /\ setter[p] # "none"
  /\ clock' = setter[p] /\ setter' = [setter EXCEPT ![p] = "none"]
  /\ UNCHANGED <<pc, run, mem, locks, disk, docker, work, recovery>>

PeakVerified(p) ==
  /\ Step(p, "setting", "supervise")
  /\ setter[p] = "none" /\ clock = "PEAK"
  /\ UNCHANGED <<run, mem, locks, disk, device, docker, work, recovery>>

(* The command failed or timed out (and was killed), or the readback        *)
(* disagreed; whether the policy changed is whatever `clock` says.          *)
PeakFails(p) ==
  /\ Step(p, "setting", "restore")
  /\ setter' = [setter EXCEPT ![p] = "none"]
  /\ UNCHANGED <<run, mem, locks, disk, clock, docker, work, recovery>>

Supervise(p) ==
  /\ Step(p, "supervise", "body")
  /\ IF kind[p] = "docker" THEN supervised' = [supervised EXCEPT ![p] = TRUE]
                            ELSE UNCHANGED supervised
  /\ UNCHANGED <<run, mem, locks, recState, recBlocker, adm, device, docker, work, recovery>>

(* A termination signal, or the supervision write failing, before the body.  *)
Unwind(p) ==
  /\ pc[p] \in {"activate", "supervise"}
  /\ Goto(p, "restore")
  /\ UNCHANGED <<run, mem, locks, disk, device, docker, work, recovery>>

-----------------------------------------------------------------------------
(* The body: a docker client and its container, or child processes.         *)

StartClient(p) ==
  /\ pc[p] = "body" /\ kind[p] = "docker"
  /\ ~client[p] /\ container[p] = "none"
  /\ client' = [client EXCEPT ![p] = TRUE]
  /\ UNCHANGED <<pc, run, mem, locks, disk, device, container, cid, work, recovery>>

CreateContainer(p) ==
  /\ client[p] /\ container[p] = "none"
  /\ container' = [container EXCEPT ![p] = "created"]
  /\ UNCHANGED <<pc, run, mem, locks, disk, device, client, cid, work, recovery>>

(* The client writes the cidfile, then asks the daemon to start.            *)
RunContainer(p) ==
  /\ client[p] /\ container[p] = "created"
  /\ cid' = [cid EXCEPT ![p] = TRUE]
  /\ container' = [container EXCEPT ![p] = "running"]
  /\ UNCHANGED <<pc, run, mem, locks, disk, device, client, work, recovery>>

(* The main process exited: the container stays listed, or --rm deletes it.  *)
ContainerExits(p) ==
  /\ container[p] = "running"
  /\ \E next \in {"stopped", "gone"} :
       container' = [container EXCEPT ![p] = next]
  /\ KillWorkers(WorkersOf(p))
  /\ UNCHANGED <<pc, run, mem, L1, ownerLock, disk, device, client, cid, recovery>>

(* The body returned, raised, or was interrupted.  The docker client's       *)
(* group is gone, its container is not; other children are drained with     *)
(* their process group, except those that "escape" it.                       *)
EndBody(p) ==
  /\ Step(p, "body", "cleanup")
  /\ client' = [client EXCEPT ![p] = FALSE]
  /\ \E escaped \in SUBSET WorkersOf(p) :
       /\ escaped # {} => kind[p] = "docker" \/ "escape" \in Fault
       /\ kind[p] = "docker" => escaped = WorkersOf(p)
       /\ KillWorkers(WorkersOf(p) \ escaped)
  /\ UNCHANGED <<run, mem, L1, ownerLock, disk, device, container, cid, recovery>>

(* docker rm --force of the recorded id, or an absence a query confirms.     *)
RemoveContainer(p) ==
  /\ Step(p, "cleanup", "restore")
  /\ kind[p] = "docker" /\ cid[p]
  /\ container' = [container EXCEPT ![p] = "gone"]
  /\ KillWorkers(WorkersOf(p))
  /\ UNCHANGED <<run, mem, L1, ownerLock, disk, device, client, cid, recovery>>

(* ContainerCleanupError: no usable cidfile, or neither the removal nor the  *)
(* absence was confirmed.  It becomes the lease's release blocker.          *)
RemovalUnverified(p) ==
  /\ Step(p, "cleanup", "restore")
  /\ kind[p] = "docker"
  /\ blocker' = [blocker EXCEPT ![p] = "container"]
  /\ UNCHANGED <<run, released, locks, disk, device, docker, work, recovery>>

(* cidfile.read_text() raised OSError: no ContainerCleanupError, no blocker.  *)
CidUnreadable(p) ==
  /\ Step(p, "cleanup", "restore")
  /\ kind[p] = "docker" /\ cid[p] /\ "cid_unreadable" \in Fault
  /\ UNCHANGED <<run, mem, locks, disk, device, docker, work, recovery>>

(* The child's group is drained, or the device is synchronized.             *)
Synchronized(p) ==
  /\ Step(p, "cleanup", "restore")
  /\ kind[p] # "docker"
  /\ UNCHANGED <<run, mem, locks, disk, device, docker, work, recovery>>

SynchronizeFails(p) ==
  /\ Step(p, "cleanup", "restore")
  /\ kind[p] = "native"
  /\ blocker' = [blocker EXCEPT ![p] = "execution"]
  /\ UNCHANGED <<run, released, locks, disk, device, docker, work, recovery>>

-----------------------------------------------------------------------------
(* Teardown: ClockLockLease.release, the final record, admission, the locks.  *)

BeginReset(p) ==
  /\ Step(p, "restore", "resetting")
  /\ managed[p] /\ blocker[p] = "none"
  /\ setter' = [setter EXCEPT ![p] = "AUTO"]
  /\ UNCHANGED <<run, mem, locks, disk, clock, docker, work, recovery>>

(* Natural clocks are only observed; a blocker forbids any command.          *)
ReleaseUnset(p) ==
  /\ Step(p, "restore", "final")
  /\ ~managed[p] \/ blocker[p] # "none"
  /\ \/ UNCHANGED released
     \/ /\ blocker[p] = "none" /\ clock = "AUTO"
        /\ released' = [released EXCEPT ![p] = TRUE]
  /\ UNCHANGED <<run, blocker, locks, disk, device, docker, work, recovery>>

ResetVerified(p) ==
  /\ Step(p, "resetting", "final")
  /\ setter[p] = "none" /\ clock = "AUTO"
  /\ released' = [released EXCEPT ![p] = TRUE]
  /\ UNCHANGED <<run, blocker, locks, disk, device, docker, work, recovery>>

ResetFails(p) ==
  /\ Step(p, "resetting", "final")
  /\ setter' = [setter EXCEPT ![p] = "none"]
  /\ UNCHANGED <<run, mem, locks, disk, clock, docker, work, recovery>>

WriteFinal(p) ==
  /\ Step(p, "final", IF Admitted /\ released[p] THEN "release" ELSE "unlock")
  /\ FinalRecord(p)
  /\ UNCHANGED <<run, mem, locks, adm, device, docker, work, recovery>>

(* The write raised or a signal interrupted it: the admission is not         *)
(* released, and the durable writer may already have renamed.               *)
WriteFinalFails(p) ==
  /\ Step(p, "final", "unlock")
  /\ \/ UNCHANGED rec
     \/ Admitted /\ FinalRecord(p)
  /\ UNCHANGED <<run, mem, locks, adm, device, docker, work, recovery>>

ReleaseAdmission(p) ==
  /\ Step(p, "release", "unlock")
  /\ OwnsAdmission(p)
  /\ adm' = PublishedReady
  /\ UNCHANGED <<run, mem, locks, rec, device, docker, work, recovery>>

(* Publishing READY raised: a BLOCKED record replaces it, unless that write  *)
(* failed too and the old or the new record is what stayed on disk.          *)
ReadyFails(l) ==
  /\ OwnsAdmission(l)
  /\ adm' \in {adm, PublishedReady, [state |-> "BLOCKED", owner |-> l]}

ReleaseAdmissionFails(p) ==
  /\ Step(p, "release", "unlock")
  /\ ReadyFails(p)
  /\ UNCHANGED <<run, mem, locks, rec, device, docker, work, recovery>>

Unlock(p) ==
  /\ Step(p, "unlock", "done")
  /\ FreeLocks(p)
  /\ UNCHANGED <<run, mem, disk, device, docker, work, recovery>>

(* SIGKILL.  Files, device, docker objects and other processes remain.       *)
Crash(p) ==
  /\ Alive(p)
  /\ Goto(p, "dead")
  /\ FreeLocks(p)
  /\ UNCHANGED <<run, mem, disk, device, docker, work, recovery>>

-----------------------------------------------------------------------------
(* Workers: host-managed processes compete for L2 and verify the owner       *)
(* before and after taking it; a native owner's children verify once and     *)
(* rely on the L2 their parent holds.                                        *)

Spawn(w, l) ==
  /\ WorkerStep(w, "off", "ready")
  /\ IF kind[l] = "docker" THEN container[l] = "running" ELSE pc[l] = "body"
  /\ wfor' = [wfor EXCEPT ![w] = l]
  /\ UNCHANGED <<pc, run, mem, locks, disk, device, docker, recovery>>

(* verify_host_gpu_owner: L1 looks held and the record reads ACTIVE ...      *)
ReadOwner(w) ==
  /\ WorkerStep(w, wpc[w], IF wpc[w] = "ready" THEN "read" ELSE "reread")
  /\ wpc[w] \in {"ready", "holdsL2"}
  /\ L1 # NoOne /\ recState[wfor[w]] = "active"
  /\ UNCHANGED <<pc, run, mem, locks, disk, device, docker, wfor, recovery>>

(* ... then someone holds the lease's own lock.                              *)
ProbeOwner(w) ==
  /\ wpc[w] \in {"read", "reread"}
  /\ ownerLock[wfor[w]] # NoOne
  /\ IF kind[wfor[w]] = "native"
       THEN L2 # NoOne /\ WorkerStep(w, "read", "armed")
       ELSE WorkerStep(w, wpc[w], IF wpc[w] = "read" THEN "verified" ELSE "armed")
  /\ UNCHANGED <<pc, run, mem, locks, disk, device, docker, wfor, recovery>>

WorkerTakesExecution(w) ==
  /\ WorkerStep(w, "verified", "holdsL2")
  /\ L2 = NoOne /\ L2' = w
  /\ UNCHANGED <<pc, run, mem, L1, ownerLock, disk, device, docker, wfor, recovery>>

EnterGpu(w) ==
  /\ WorkerStep(w, "armed", "onGpu")
  /\ UNCHANGED <<pc, run, mem, locks, disk, device, docker, wfor, recovery>>

(* It finished, failed a verification, timed out on L2, or was killed.       *)
WorkerEnds(w) ==
  /\ wpc[w] # "off"
  /\ KillWorkers({w})
  /\ UNCHANGED <<pc, run, mem, L1, ownerLock, disk, device, docker, recovery>>

-----------------------------------------------------------------------------
(* The operator: restores by hand, then runs clock_recovery LEASE_ID.        *)

Abandoned(l) == pc[l] \in {"done", "dead"} /\ Unresolved(l)

OperatorSetsAuto ==
  /\ \E l \in Lease : Abandoned(l)
  /\ L1 = NoOne /\ clock' = "AUTO"
  /\ UNCHANGED <<pc, run, mem, locks, disk, setter, docker, work, recovery>>

OperatorRemovesContainer(l) ==
  /\ Abandoned(l) /\ container[l] \in {"created", "running", "stopped"}
  /\ container' = [container EXCEPT ![l] = "gone"]
  /\ client' = [client EXCEPT ![l] = FALSE]
  /\ KillWorkers(WorkersOf(l))
  /\ UNCHANGED <<pc, run, mem, L1, ownerLock, disk, device, cid, recovery>>

(* "After manually stopping an abandoned workload" (CONFIGURATION.md): what  *)
(* confirm_clock_recovery cannot see is stopped before it is run, namely a   *)
(* clock command still in flight and a process outside any container that   *)
(* has not opened the GPU yet.                                               *)
ManuallyStopped(l) ==
  /\ setter[l] = "none"
  /\ \A w \in WorkersOf(l) : kind[l] # "docker" => wpc[w] = "onGpu"

(* L1 without the gate, and the lease's own lock.                           *)
BeginRecovery(o, l) ==
  /\ OpStep(o, "idle", "locked")
  /\ otgt' = [otgt EXCEPT ![o] = l]
  /\ recState[l] # "absent" /\ ManuallyStopped(l)
  /\ L1 = NoOne /\ L1' = o
  /\ ownerLock[l] = NoOne /\ ownerLock' = [ownerLock EXCEPT ![l] = o]
  /\ UNCHANGED <<pc, run, mem, L2, disk, device, docker, work>>

InspectOwner(o) == LET l == otgt[o] IN
  /\ OpStep(o, "locked", "inspected")
  /\ Admitted => OwnsAdmission(l)
  /\ supervised[l] \/ recBlocker[l] = "container" =>
       cid[l] /\ container[l] = "gone"
  /\ UNCHANGED <<pc, run, mem, locks, disk, device, docker, work, otgt>>

(* The device runs no process and reads AUTO.                               *)
InspectDevice(o) ==
  /\ OpStep(o, "inspected", "confirmed")
  /\ \A w \in Worker : wpc[w] # "onGpu"
  /\ clock = "AUTO"
  /\ UNCHANGED <<pc, run, mem, locks, disk, device, docker, work, otgt>>

WriteRecovered(o) ==
  /\ OpStep(o, "confirmed", IF Admitted THEN "ready" ELSE "unlock")
  /\ recState' = [recState EXCEPT ![otgt[o]] = "restored"]
  /\ UNCHANGED <<pc, run, mem, locks, supervised, recBlocker, adm, device, docker, work, otgt>>

RecoverAdmission(o) ==
  /\ OpStep(o, "ready", "unlock")
  /\ \/ OwnsAdmission(otgt[o]) /\ adm' = PublishedReady
     \/ ReadyFails(otgt[o])
  /\ UNCHANGED <<pc, run, mem, locks, rec, device, docker, work, otgt>>

(* Normal exit from "unlock"; from anywhere else a refused check or a kill.  *)
EndRecovery(o) ==
  /\ opc[o] # "idle"
  /\ opc' = [opc EXCEPT ![o] = "idle"] /\ otgt' = [otgt EXCEPT ![o] = NoOne]
  /\ L1' = NoOne /\ ownerLock' = [ownerLock EXCEPT ![otgt[o]] = NoOne]
  /\ UNCHANGED <<pc, run, mem, L2, disk, device, docker, work>>

-----------------------------------------------------------------------------
Enter(p) ==
  \/ Start(p) \/ AcquireOwnership(p) \/ OwnershipTimeout(p) \/ PassGate(p)
  \/ TakeExecution(p) \/ ObserveInitial(p) \/ Abandon(p)
Publish(p) ==
  \/ \E durable \in BOOLEAN : PublishHeld(p, durable)
  \/ PublishRecord(p) \/ PublishRecordFails(p)
Activate(p) ==
  \/ BeginActivation(p) \/ PeakVerified(p) \/ PeakFails(p)
  \/ Supervise(p) \/ Unwind(p)
Body(p) ==
  \/ StartClient(p) \/ EndBody(p) \/ RemoveContainer(p)
  \/ RemovalUnverified(p) \/ CidUnreadable(p) \/ Synchronized(p)
  \/ SynchronizeFails(p)
Restore(p) ==
  \/ BeginReset(p) \/ ReleaseUnset(p) \/ ResetVerified(p) \/ ResetFails(p)
Resolve(p) ==
  \/ WriteFinal(p) \/ WriteFinalFails(p) \/ ReleaseAdmission(p)
  \/ ReleaseAdmissionFails(p)
RunAction(p) ==
  \/ Enter(p) \/ Publish(p) \/ Activate(p) \/ Body(p) \/ Restore(p)
  \/ Resolve(p) \/ Unlock(p) \/ Crash(p)
WorldAction(l) ==
  \/ SetterLands(l) \/ CreateContainer(l) \/ RunContainer(l) \/ ContainerExits(l)
WorkerAction(w) ==
  \/ \E l \in Lease : Spawn(w, l)
  \/ ReadOwner(w) \/ ProbeOwner(w) \/ WorkerTakesExecution(w)
  \/ EnterGpu(w) \/ WorkerEnds(w)
OperatorAction(o) ==
  \/ \E l \in Lease : BeginRecovery(o, l)
  \/ InspectOwner(o) \/ InspectDevice(o) \/ WriteRecovered(o)
  \/ RecoverAdmission(o) \/ EndRecovery(o)
Next ==
  \/ \E p \in Lease : RunAction(p) \/ WorldAction(p)
  \/ \E w \in Worker : WorkerAction(w)
  \/ \E o \in Operator : OperatorAction(o)
  \/ OperatorSetsAuto
  \/ \E l \in Lease : OperatorRemovesContainer(l)

Spec == Init /\ [][Next]_vars

-----------------------------------------------------------------------------
(* A device left at STABLE_PEAK always has a record that stops the next      *)
(* owner: responsibility is durable before activation and is resolved only   *)
(* after a verified AUTO, whoever crashed in between.                        *)
ClockGate == clock = "PEAK" => \E l \in Lease : Unresolved(l)

(* At most one run is responsible for the device, dead ones included: no     *)
(* owner is admitted over somebody else's unfinished business.               *)
SoleResponsibility ==
  \A p, q \in Lease : Unresolved(p) /\ Unresolved(q) => p = q

(* GPU work, contained or not, runs only while the record of the run that    *)
(* started it is unresolved: cleanup and recovery resolve a lease last.      *)
AtWork(l) ==
  \/ container[l] = "running"
  \/ \E w \in Worker : wfor[w] = l /\ wpc[w] = "onGpu"
WorkGated == \A l \in Lease : AtWork(l) => Unresolved(l)

(* While a run that manages clocks is in its body, its own workers measure   *)
(* at STABLE_PEAK: nobody else's teardown, recovery or late command changes   *)
(* the policy under them.                                                    *)
MeasuredAtPeak ==
  \A w \in Worker : LET l == wfor[w] IN
    wpc[w] = "onGpu" /\ managed[l] /\ pc[l] = "body" => clock = "PEAK"

(* The neutral record reads READY only over a device that is really free:    *)
(* AUTO, nothing unresolved, no work (Admission.release, "only after the     *)
(* caller durably confirmed native cleanup").                                *)
ReadyMeansClean ==
  Admitted /\ adm.state = "READY" =>
    /\ clock = "AUTO"
    /\ \A l \in Lease : ~Unresolved(l) /\ ~AtWork(l)

(* "Never change clocks under a possibly live container"                     *)
(* (host_clock_guard.py:239): a restoring command is never issued while the   *)
(* run's container is running.                                               *)
NoResetUnderContainer ==
  [][\A l \in Lease : setter'[l] = "AUTO" /\ setter[l] # "AUTO" =>
       container[l] # "running"]_vars

(* The refinement: whoever has an unresolved record is responsible.          *)
Gated == INSTANCE GatedGpu WITH
  Run <- Lease, Auto <- "AUTO", Policy <- Policy,
  responsible <- {l \in Lease : Unresolved(l)},
  policy <- clock,
  working <- {l \in Lease : AtWork(l)}
(* Every behaviour of the lock, record, admission, clock, container and      *)
(* recovery code is one of the gated device's.                               *)
RefinesGated == Gated!Spec

-----------------------------------------------------------------------------
(* The inductive invariant behind ClockGate, SoleResponsibility and the       *)
(* admission half of ReadyMeansClean.                                       *)

HoldsL1(p) == pc[p] \in RunPC \ {"idle", "lockL1", "done", "dead"}
(* Past the gate, nothing published yet.                                    *)
Cleared(p) == pc[p] \in {"lockL2", "observe", "publish", "record"}
(* The record is on disk and its final state is not.                        *)
Responsible(p) == pc[p] \in {"activate", "setting", "supervise", "body",
                             "cleanup", "restore", "resetting", "final"}

OwnershipInv ==
  /\ \A p \in Lease : HoldsL1(p) => L1 = p
  /\ \A o \in Operator : opc[o] # "idle" => L1 = o /\ otgt[o] \in Lease

GateInv ==
  /\ SoleResponsibility
  /\ \A p \in Lease : Cleared(p) => \A l \in Lease : ~Unresolved(l)
  /\ \A p \in Lease : Responsible(p) => recState[p] = "active"
  /\ \A p \in Lease : pc[p] = "release" => ~Unresolved(p)
  /\ \A o \in Operator : opc[o] = "ready" => ~Unresolved(otgt[o])

AdmissionInv == Admitted =>
  /\ \A l \in Lease : Unresolved(l) => OwnsAdmission(l)
  /\ \A p \in Lease : pc[p] = "record" => OwnsAdmission(p)

SetterInv ==
  /\ \A p \in Lease : setter[p] # "none" =>
       Unresolved(p) /\ pc[p] \in {"setting", "resetting", "dead"}
  /\ \A o \in Operator : opc[o] # "idle" => setter[otgt[o]] = "none"

ClockInv ==
  /\ ClockGate
  /\ \A p \in Lease : released[p] =>
       pc[p] \in {"final", "release", "unlock", "done", "dead"}
  /\ \A p \in Lease : pc[p] = "final" /\ released[p] => clock = "AUTO"
  /\ \A o \in Operator : opc[o] = "confirmed" /\ Unresolved(otgt[o]) => clock = "AUTO"

(* Behind MeasuredAtPeak: between the verified readback and the end of the    *)
(* body nothing else moves the policy.                                      *)
PeakInv == \A p \in Lease :
  managed[p] /\ pc[p] \in {"supervise", "body"} => clock = "PEAK"

WorkerInv == \A w \in Worker : wpc[w] # "off" => wfor[w] \in Lease

IInv == /\ TypeOK /\ OwnershipInv /\ GateInv /\ AdmissionInv
        /\ SetterInv /\ ClockInv /\ PeakInv /\ WorkerInv

(* Behind WorkGated, NoResetUnderContainer and the refinement, which need     *)
(* Fault = {}: what can still reach the GPU in the name of a run, now or by   *)
(* a later step of a client or a worker, is covered by its record.           *)
Live(l) ==
  \/ container[l] \in {"created", "running"}
  \/ client[l] /\ container[l] = "none"
  \/ WorkersOf(l) # {}
NotYetAtWork(p) == pc[p] \in {"idle", "lockL1", "gate", "activate", "setting",
                              "supervise"} \/ Cleared(p)

ContainerInv == \A l \in Lease :
  /\ client[l] \/ container[l] # "none" => kind[l] = "docker" /\ supervised[l]
  /\ kind[l] = "docker" /\ pc[l] = "body" => supervised[l]
  /\ client[l] => pc[l] \in {"body", "dead"}
  /\ cid[l] => container[l] # "none"
  /\ kind[l] = "docker" /\ WorkersOf(l) # {} => container[l] = "running"

CoveredInv == \A l \in Lease :
  /\ Live(l) => Unresolved(l)
  /\ NotYetAtWork(l) => ~Live(l)
  /\ pc[l] = "cleanup" /\ kind[l] # "docker" => ~Live(l)
  /\ pc[l] \in {"restore", "resetting", "final"} /\ blocker[l] = "none" => ~Live(l)
BlockerInv == \A p \in Lease :
  released[p] \/ pc[p] = "resetting" => blocker[p] = "none"
StoppedInv == \A o \in Operator : LET l == otgt[o] IN
  /\ opc[o] \in {"locked", "inspected"} /\ kind[l] # "docker" =>
       \A w \in WorkersOf(l) : wpc[w] = "onGpu"
  /\ opc[o] = "inspected" /\ kind[l] = "docker" => ~Live(l)
  /\ opc[o] = "confirmed" => ~Live(l)

WorkInv == ContainerInv /\ CoveredInv /\ BlockerInv /\ StoppedInv

-----------------------------------------------------------------------------
(* Fairness.  A run's own code and the context managers around it keep       *)
(* going: their commands have timeouts, their locks are polled up to a       *)
(* deadline.  A recovery command ends.  Start and Crash are left to chance.  *)

(* Where a run waits without a deadline, so that nothing may be assumed: for *)
(* the body, which is a docker client or a command that                      *)
(* run_attached_process_group is given no timeout for, or any native work,   *)
(* and for torch.cuda.synchronize in a native run's cleanup.                 *)
WaitsForWork(p) == pc[p] = "body" \/ (pc[p] = "cleanup" /\ kind[p] = "native")

Progress(p) ==
  /\ Alive(p) /\ ~WaitsForWork(p)
  /\ RunAction(p) /\ pc'[p] \notin {pc[p], "dead"}
FairRuns ==
  /\ \A p \in Lease : WF_vars(Progress(p))
  /\ \A o \in Operator : WF_vars(EndRecovery(o))
(* An operator who follows CONFIGURATION.md: stops what is left, restores     *)
(* AUTO, and repeats the recovery command until it succeeds.                 *)
FairOperators ==
  /\ \A w \in Worker : WF_vars(WorkerEnds(w))
  /\ \A l \in Lease : WF_vars(SetterLands(l)) /\ WF_vars(OperatorRemovesContainer(l))
  /\ SF_vars(OperatorSetsAuto)
  /\ \A o \in Operator, l \in Lease :
       /\ SF_vars(BeginRecovery(o, l) /\ Unresolved(l))
       /\ SF_vars(otgt[o] = l /\ InspectOwner(o))
       /\ SF_vars(otgt[o] = l /\ InspectDevice(o))
       /\ SF_vars(otgt[o] = l /\ WriteRecovered(o))
FairSpec == Spec /\ FairRuns
RecoverySpec == FairSpec /\ FairOperators

(* L1 is never kept: whatever failed before, in or after the work, its holder *)
(* frees it, unless the work itself never ends.                              *)
OwnershipIsReleased ==
  \A p \in Lease : L1 = p ~> L1 # p \/ []WaitsForWork(p)

(* Whatever step a run died in or failed at, its record can be resolved by    *)
(* the recovery command, as long as the identity recovery asks for is on     *)
(* disk: the admission names the lease, and a supervised container has a     *)
(* recorded id.                                                              *)
Identified(l) ==
  /\ Admitted => OwnsAdmission(l)
  /\ supervised[l] \/ recBlocker[l] = "container" => cid[l]
GateEventuallyClears ==
  \A l \in Lease : Abandoned(l) /\ Identified(l) ~> ~Unresolved(l)
============================================================================
