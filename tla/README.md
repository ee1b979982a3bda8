# Verification of SOL-ExecBench-ROCm

TLA+ modules for the parts of SOL-ExecBench-ROCm where processes, crashes and
durable records interact. Paths below are relative to `src/sol_execbench/core/bench/`
unless they say otherwise.

## 1. The system

SOL-ExecBench runs candidate GPU kernels, measures them at a pinned clock policy and
keeps evidence about the measurements. Its parts, as far as they keep state:

| part | state | operations | hard part |
|---|---|---|---|
| GPU ownership (`gpu_lock`, `clock_ownership`, `gpu_admission`, `gpu_execution`, `host_clock_guard`) | flocks L1 (ownership) and L2 (execution), one lock per lease, one owner record per lease, one admission record per GPU | acquire, gate, publish, activate, supervise, restore, resolve, release | SIGKILL anywhere, failed writes, several owners and workers |
| Clock policy (`clock_lock`, `clock_recovery`) | the device's performance level, a set command in flight | set STABLE_PEAK, reset AUTO, verify by readback, operator recovery | a command that outlives its caller |
| Owned containers (`tools/docker_process`) | docker client, container, cidfile | run, remove, confirm absence | the container outlives the client |
| Process groups (`core/process`) | the leader and its session, what `/proc` showed | start, wait, look, SIGTERM, SIGKILL, reap | members that fork, leave or ignore signals; ids that are used again |
| Native builds (`cli/evaluation/compilation`, `native_compile_cache`) | one cache entry per solution, one file lock | restore, compile, stage, publish | builders that meet, builders that are killed |
| Evaluation (`eval_*`, `timing`, `reference_service`, `reference_protocol`, `driver/templates`) | driver, reference worker, two pipes, the case the worker keeps, traces, evidence | correctness rounds, timed trials, validation, verdict | either process dies; answers do not say what they answer |
| Release qualification and release runs (`core/scoring`, `batch_gpu_qualification`) | three gates, their traces, environment record, one result per problem | qualify, verify, publish, run, resume | commands overlap and are killed |
| Diagnostic lifecycle (`performance_model/lifecycle`) | run state, attempts, receipts, manifests, blobs | run, resume, status, GC | crash between writes, stale plans |
| Scoring, datasets, performance model, SOLAR | mostly sequential data processing | | numerics, text |

Interaction: the host guard or a native entry *owns* the GPU (L1, record, clocks) and
starts workers (a container or child processes); the workers find the lease id in their
environment, verify the owner through the lock files and the record, and compete for L2.
The admission record is shared with other projects. Lifecycle stages adopt evidence that
was produced under such ownership, but exchange no state with it. An evaluation compiles
its solution through the shared cache, each compiler in a process group of its own, then
runs it in a driver beside a trusted reference worker; a qualifying command and a release
run evaluate one problem after the other, each under the GPU's lock, and leave a trace per
problem.

What makes each part correct:

- *ownership*: at most one run responsible; a device off AUTO always gated; work only
  under an unresolved record; READY only over a free device; locks freed when the work ends.
- *containers*: no clock command under a running container; nothing resolved while the
  container may run.
- *recovery*: resolves a record only when nothing of it can still run, and can
  eventually resolve every record whose identity reached the disk.
- *process groups*: no signal to a group that is not the call's own; nothing of the group
  left, but what was forked during the last look.
- *native builds*: an entry is whole whenever it can be taken for a hit, was compiled with
  success, and stays.
- *evaluation*: an answer is taken for its own question; a workload passes only when every
  timed call was validated; an accepted evaluation misses no workload; either process may
  die without the other waiting for ever.
- *releases*: nothing is measured before its configuration has passed all stages; a result
  is measured once; a run that reports success has all of them.
- *lifecycle*: a stage is VERIFIED only with receipt, inputs and outputs that verify;
  attempts never exceed the plan; a blob a receipt promises is never deleted.

## 2. The modules and how they fit

| module | what it is | kind |
|---|---|---|
| `GpuOwnership` | locks, records, clocks, container, workers and recovery of one GPU | detailed specification |
| `GatedGpu` | what ownership promises: one responsible run, work and policy changes only under it | abstract specification, refined by `GpuOwnership` |
| `LifecycleRun` | run, resume, attempts, receipts, manifests and ledger of one collection run | detailed specification |
| `GovernedChain` | what the lifecycle promises: a chain of evidence, withdrawn only with what was built on it | abstract specification, refined by `LifecycleRun` |
| `BlobGC` | the blob store, its writers and its collectors | detailed specification |
| `TimedEvaluation` | driver, reference worker, their pipes, the host | detailed specification |
| `JudgedEvaluation` | what an evaluation promises: judged in order, nothing passes unmeasured, nothing missing when accepted | abstract specification, refined by `TimedEvaluation` |
| `ProcessGroup` | a command in its own session, run and cleaned up after | component |
| `CompileCache` | the entry, the lock and the builders of one solution | component |
| `NativeBuild` | compilation through the cache: `CompileCache` and `ProcessGroup` composed | detailed specification |
| `Qualification` | the chain of gates and the commands that build it | component |
| `ReleaseRun` | release runs beside `Qualification` | detailed specification |
| `GatedRelease` | what qualification promises: stages in order, nothing measured before the last | abstract specification, refined by `ReleaseRun` |
| `MC...` | values of the constants for TLC | model checking |
| `GpuOwnershipProofs`, `LifecycleRunProofs`, `BlobGCProofs`, `TimedEvaluationProofs`, `NativeBuildProofs`, `ReleaseRunProofs` | what each detailed specification keeps, refines and bounds | proof |
| `TimedEvaluationEnds`, `LifecycleRunEnds` | why an evaluation and an invocation end; extend the proofs above | proof |

`LifecycleRun` and `BlobGC` look at the same engine from two sides. `LifecycleRun` has its
control (which stage, which attempt, what is re-verified, what a failure does) and treats
each registry write as one step. `BlobGC` has the store (every lock, every copy of a
registry file, the collectors) and keeps of the engine only the order of its writes.

### GpuOwnership

One action is one step another process can see: a flock taken, a file renamed, a command
started, its effect, its readback. `pc[p]` follows an owner through
`host_clock_guard.main` or `native_gpu_execution`: `lockL1` → `gate` → (`lockL2`) →
`observe` → `publish` → `record` → `activate` → `setting` → `supervise` → `body` →
`cleanup` → `restore` → `resetting` → `final` → `release` → `unlock`.

| state | code |
|---|---|
| `L1`, `L2`, `ownerLock` | the ownership and execution flocks of `gpu_lock`, `<lease>.lock` of `clock_ownership` |
| `recState`, `supervised`, `recBlocker` | the owner record: state, container supervision, release blocker |
| `adm` | the shared admission record (`gpu_admission`) |
| `clock`, `setter` | the policy of the device; a `sudo amd-smi set` that has not been reaped |
| `client`, `container`, `cid` | `docker run`, its container, the cidfile (`docker_process`) |
| `wpc`, `wfor` | a worker in `gpu_lock`'s worker path: verify, take L2, verify again, open the GPU |
| `opc`, `otgt` | `clock_recovery` as an operator runs it |

A lease lives in one process; SIGKILL (`Crash`) frees its flocks and leaves files, device,
container, workers and a clock command in flight as they are. A write that raises may or
may not have happened (`PublishHeld(p, FALSE)`, `PublishRecordFails`, `WriteFinalFails`,
`ReleaseAdmissionFails`): the durable writer renames before it syncs the directory.
`Fault` adds two circumstances that the code does not cover, so that what depends on them
can be told from what does not: `cid_unreadable` and `escape`.

### LifecycleRun

`pc` follows one invocation of `diagnostics lifecycle run` or `resume`: `next` →
`prepare` → `run` → `import` → `check` → `receipt` → `manifest` → `event` → `record`.
`run`, `receipt`, `manifest`, `event` and `out` are the files; `cur`, `todo`, `stage`,
`prepared`, `made` and `outcome` are the memory of the process, which a kill forgets. Each
of the four writes of an attempt is an action, so a kill falls between any two of them.
A receipt is told from that of another attempt by the invocation that wrote it (`by`, for
its timestamps) and its attempt number; an identity (`Id`) is what the canonical
identifiers depend on: the plan, or what a model build fitted.

### BlobGC

| state | code |
|---|---|
| `status`, `attempts`, `receipt`, `manifest`, `ledger` | the registry files that `_reachability` reads |
| `blob`, `leftover` | the blob directory: committed blobs, a staging file nobody owns |
| `lock` | `registry.lock`; the engine's writes hold it for one step, a collector for many |
| `pc`, `moving`, `after` | the engine: what it imports, and what follows the import |
| `gpc`, `plan` | a collector, and the plan file it made or was given |
| `struck` | history: outputs deleted between import and receipt |

The lock is never waited for: a busy lock raises `RuntimeError`, which the engine does not
catch (`LockBusy`).

Reductions: the copies of receipts are left out, because no registry object refers to
them; a plan reads the registry in one step (a plan from a torn read is refused at apply
time like any other that does not match); deletion goes in a fixed order; stages are
verified but never re-verified, which is `LifecycleRun`'s subject; an older collection run
appears only by what its manifest refers to, until a manifest of a successor supersedes
it; killing a collector matters only while it holds the lock.

### TimedEvaluation

| state | code |
|---|---|
| `dpc`, `row`, `trial`, `iter`, `asked` | where the driver is: workload (`evaluate_workloads`), trial and call (`bench_time_with_device_events`), what it waits for (`ReferenceClient`) |
| `traces`, `records`, `file`, `code` | the JSONL stream, `_timing_records`, `performance-timing-raw.jsonl`, the exit code (`eval_driver`) |
| `wpc`, `pending` | the worker's loop (`_serve_connection`), `_pending_timing_validation` |
| `up`, `down` | the two pipes, frame by frame |
| `hpc` | the host: waiting, or what it made of the evaluation (`run_evaluation_runtime`) |
| `validated`, `failed` | history: timed calls found right; workloads with a failure of their own |

A frame carries its operation and, which the real ones do not, the case it is about; no
action reads the case of an answer, only properties do. `Faulty` says for which workloads
the candidate, its inputs or the reference may fail at any point; `Mortal` lets the system
kill either process. Numbers, tensors and tolerances are left out: a check passes or it
does not. A trial makes its warmup calls and then at least one timed call; how many more is
decided by the clock, so it is a choice.

### ProcessGroup, CompileCache, NativeBuild

| state | code |
|---|---|
| `gpc`, `look`, `verdict` | the runner: `run_process_group`, `_cleanup_unreaped_process_group`, first or second look |
| `leader`, `status`, `kid` | the processes: a zombie leader keeps its id; a `deaf` member ignores SIGTERM, a `free` one has left the session |
| `listed`, `newborn` | what `/proc` listed and has not been read; what was forked since |
| `stranger`, `hurt` | the leader's id belongs to somebody else; history: who signalled such a group |
| `bpc`, `lock`, `entry`, `out` | a builder in `run_compile_phase`; the cache root's lock; the entry; build directories |
| `source`, `cut` | history: whose artifact the entry holds; which builders' removal of an old entry was cut short |

`NativeBuild` composes the two: a builder that misses launches a compiler, and takes its
artifact only when the call has returned. SIGKILL of a builder frees the lock and leaves
files and the compiler's processes as they are. An error or an interrupt in the cache's own
code (`Aborted`: a copy, an `rmtree` or a `flock` that raises) does the same to lock and
files, because the `finally` of `_locked_cache_root` unlocks and nothing undoes a half-done
removal. A supervised call may be interrupted at any place inside its `try`
(`Interrupted`), and once more while it cleans up after an error, a timeout or the first
interrupt (`Abandoned`): the exception then leaves the handler, and the call is over with
its leader unreaped and its members alone. `verdict` tells such a call (`abandoned`).

### Qualification, ReleaseRun

`pc` follows one command: `verify` and `hash` along the chain of gates up to `Target`, then
for a stage that has no gate `evaluate` → `running` → `writing` → `judge` → `cite` for every
problem and `publish`; for a release run `begin` (environment) → `next` → `evaluate` … →
`validate` for every problem. `aim` is the stage, 0 for the release run. Processes are used
for one command after the other, `given` numbers the commands, and a file is identified by
the number of the command that wrote it (0: missing, torn or not passing), because gates
carry times and traces measured values. `gpu` is the evaluation lock, which covers the
writing of the trace. What a gate is bound to and commands may disagree on (device, timeout)
is one value, `Conf`.

## 3. What the runs check

Sizes are distinct states.

| run | size | question |
|---|---|---|
| `gpu_faults` | 1.2 M | With SIGKILL anywhere and both faults: is a device off AUTO always gated (`ClockGate`), is one run responsible at a time (`SoleResponsibility`), do workers measure at their owner's policy (`MeasuredAtPeak`)? |
| `gpu_admitted` | 1.9 M | With private record directories that do not see each other: is work gated (`WorkGated`), is READY read only over a free device (`ReadyMeansClean`), is no reset issued under a container (`NoResetUnderContainer`), is this a gated GPU (`RefinesGated`)? |
| `gpu_progress` | 4 k | Does every failure path free L1, unless the work itself never ends (`OwnershipIsReleased`), and can an operator always clear the gate (`GateEventuallyClears`)? |
| `life_faults` | 272 k | Is a verified stage backed by its own attempt's files (`VerifiedIsBacked`), built from what its dependencies stand on (`LineageConsistent`), in a closed registry (`RegistryClosed`); is what is published accepted (`PublishedOnlyAccepted`); is no attempt given back (`NoAttemptRefunded`)? |
| `life_refines` | 236 k | While nobody else touches the files, is no work lost (`WorkIsKept`), and are the verified stages a governed chain (`ChainIsGoverned`)? |
| `life_ends` | 6 k | Does every invocation end (`InvocationEnds`), and a first one complete the chain or say what failed (`FirstRunDecides`)? |
| `gc_apply` | 853 k | Does a collection delete only what is out of reach at that moment (`OnlyUnreachableDeleted`), do promised outputs stay (`OutputsKept`), does garbage go (`GarbageGoes`)? |
| `eval_serves` | 155 k | With failures in every workload and either process killed anywhere: is every answer taken for its own question, and every output compared with its own expectation (`AnswersMatch`); is there evidence for exactly the workloads that passed (`EvidenceForPassed`); is this a judged evaluation (`EvaluationIsJudged`); does the host come to a conclusion without its timeout (`EvaluationEnds`)? |
| `native_build` | 1.1 M | Two builders, one compiler with descendants: what is left of a group when a call ends whose cleanup was not itself interrupted (`LeftIsNewborn`), whom signals reach (`NoStrangerSignalled`), whether only a removal cut short leaves half an entry (`EntryIsWhole`), whether entries are built (`PublishedIsBuilt`) and stay (`PublishedStays`), and whether builds end (`BuildsEnd`). |
| `release_gates` | 2.9 M | Two processes, five commands: does a successful run leave every result (`DoneIsComplete`), measured once (`ResultStays`); does a chain that verifies keep verifying (`QualifiedStaysQualified`); is every release gated (`ReleaseIsGated`)? |

All of them pass. `CHECK_DEADLOCK FALSE` where runs and invocations are finitely many and
the finished system stops; `BlobGC` never stops and is checked for deadlock.

Each property has a mutant: a version of one action with a bug the code might have had,
with which the same run fails. They stand in the modules as `Bug...` operators before the
definition they change; no specification uses them.

Two runs are expected to fail; each shows that the code does not do what a comment or the
documentation says:

- `life_resumes`: a kill between a stage's manifest and its verified entry makes the run
  impossible to complete: the retried attempt cannot reproduce an immutable manifest
  that embeds the first attempt's receipt.
- `eval_poisoned`: a candidate that raises inside a timed call leaves its case waiting in
  the worker, which refuses the first timed case of the next workload: that workload is
  given RUNTIME_ERROR, "Solution encountered a runtime error during execution", although
  nothing of its own went wrong. Verdicts get worse by it, never better: `EvaluationIsJudged`
  holds with the case waiting.

Other divergences were found while modelling, and have no run of their own:

- `verify_host_gpu_owner` (`gpu_lock.py:110`) promises a live owner; it accepts a dead
  owner's worker while the recovery command holds the locks it probes.
- A cidfile that cannot be read raises `OSError` (`tools/docker_process.py:63`), which is not
  a `ContainerCleanupError`, so AUTO is commanded under a container that may be running.
- A descendant in a session of its own outlives the drain that RESTORED stands for. A host
  command that is attached to a terminal stays in the caller's group and is not drained at
  all (`process/subprocesses.py:178-207`). Both are the `escape` of `Fault`, with which
  `WorkGated` does not hold.
- A supervised call that is interrupted while it cleans up after a timeout, an error or
  another interrupt (`process/subprocesses.py:258-268`, `367-378`) ends with members of its
  group alive and its leader unreaped. `LeftIsNewborn` excuses exactly such calls.
- `resume` does not start at the first incomplete stage if that one was interrupted in its
  last attempt (`engine.py:356`): it stays RUNNING and is passed over.
- Two release runs of one plan are not kept apart: both find no trace and measure, and the
  later result replaces the earlier one (`release_runner.py:206`). `ResultStays` and
  `DoneIsComplete` are stated for runs that do not overlap (`~ TwoRuns`) and fail without
  that condition.
- `docs/user/RELEASE-SCORING.md` asks for the same environment, "including the immutable
  container image". The environment is recorded once (`release_runner.py:165`) and a resumed
  run compares the source revision only, so results measured in two images can meet in one
  release.
- A trace left torn by a killed run stops every resumed run until somebody removes it. This
  fails closed and is an exception named in a property (`Accepts`).
- A cache entry of an older format whose removal is cut short - by a kill, by an `OSError` of
  `shutil.rmtree`, by an interrupt in it (`native_compile_cache.py:102`, `129`) - is left
  without its metadata, unlocked. Nothing repairs it, and every later build of that solution
  is refused. It fails closed too, and is the exception named in `EntryIsWhole`.
- Two commands that build the same stage at once can leave a chain that never verifies: the
  gate published last is not the one its child was built on. Again this fails closed, and
  `QualifiedStaysQualified` speaks of chains nobody is building.
Three comments say something else than the code. `run`'s docstring
(`engine.py:198-201`) asks for the immediate predecessor in the chain, while
`_validate_predecessor` (`engine.py:333`) asks for the dependencies. `resume`'s docstring
(`engine.py:247-248`) speaks of a fresh attempt budget, while `_execute_stage`
(`engine.py:355`) continues the recorded count. And `gc.py:7-9` retains what a lifecycle
object refers to, but the copy of a manifest is referred to only once a later stage's
receipt cites it: a collection between the two stages deletes it, and the receipt then
cites a digest that is not in the store (the manifest file is still in the registry).

Two facts about the store show as exceptions in properties that hold. An output that is
collected after its import and before its receipt is missing from the store although the
receipt promises it: `OutputsKept` excuses exactly that window (`struck`), and says that
there is no other. A staging file left by a killed import has a name no `GCEntry`
accepts, so every later plan fails: `GarbageGoes` excuses that state (`leftover`).

### Bounds

- *GPU.* Two leases suffice for an owner and a successor over its remains, the third in
  `gpu_admitted` for a successor of a recovered lease; two workers for one that waits for
  L2 behind another; one operator, since recovery holds L1. A lease runs once. Every entry
  (`docker`, `host`, `native`), managed or not, occurs in `gpu_faults`. `gpu_admitted` has
  container runs only, which are the ones that outlive their client; `WorkGatedHolds` and
  the other theorems of its properties are for all three kinds. `gpu_progress`
  has one lease: the fairness of a patient operator over two leases is out of reach, and
  what one lease needs to be released or recovered does not depend on a second, except
  through L1, which `OwnershipIsReleased` frees.
- *Lifecycle.* All eight stages and their real dependencies; two attempts per stage (one
  that fails and one that does not), three invocations (first, killed or failed, resumed),
  two fits of a model, one of them accepted. `Flaky`, `FragileOutput`, `FragileReceipt` and
  `CrashProne` say where failures, outside damage and kills may fall, chosen per run so
  that a failure in mid-chain meets dependants that were verified already.
- *Store.* Two stages, one built from the other, so that a receipt cites a manifest; two
  attempts of the second; outputs the older generation had delivered already, so that
  superseding it makes them garbage before they are promised again; one collector, which
  may come back; one kill, of either process. Two collectors exclude each other by the
  lock and add nothing the plan check does not see; the proofs hold for any number.
- *Evaluation.* Two workloads, because what one leaves behind shows in the next; two rounds
  and two trials, for the step from one to the next; one warmup and up to two timed calls,
  so that a trial may stop early. Both workloads may fail. The pipes need no bound: at most
  two frames wait while the driver lives, which the inductive invariant shows.
- *Builds.* Two builders, one of whose compilers forks; two descendants, so that one can be
  seen while another is forked; an entry in an older format first, which exercises removal;
  one kill. An id is used again at most once, which is all a signal can hit.
- *Releases.* Three stages as in the code, two problems (a first and a last), two processes
  that overlap in every way, two configurations, five commands: the shortest way to a release
  takes four, the fifth interferes or resumes. The run has the candidate's plan, whose
  results may be failures; the proofs have both roles and any numbers.

## 4. Environment and fairness

- flocks are freed by the kernel when a process dies; a rename is atomic; lease ids are
  fresh; a device's policy changes only by
  a project's command or by an operator who repairs what an abandoned run left.
- With the admission record unconfigured, runs that are to gate each other see each
  other's private records (`GateAssumption`), as `docs/user/CONFIGURATION.md` demands.
- The operator stops what recovery cannot see before running it (`ManuallyStopped`), again
  as that document demands.

Fairness is weak for every process that only executes code (`Progress`, `EngineStep`,
`Collect`): what they wait for are commands with a timeout and locks polled with a
deadline. A kill, an exception or a start of the command is never fair. Nor is a run's own
work: the docker client and the host command are run without a timeout
(`tools/docker_process.py:91`, `122`), the body of a native run is whatever its caller does,
and its cleanup waits for `torch.cuda.synchronize` (`gpu_execution.py:76`). `Progress`
leaves these places out (`WaitsForWork`), and `OwnershipIsReleased` says that L1 comes free
or the run stays in one of them for ever. Exceptions:
`GateEventuallyClears` needs an operator who repeats the command (`FairOperators`, with
strong fairness because L1 may be taken in between); `ResumeCompletes` needs someone who
resumes (`StartResume`); `BuildsEnd` needs every builder scheduled, with strong fairness
because a blocking `flock` is obtained by somebody each time it comes free, while compilers
and their descendants may run for ever (`FairSpec` asks nothing of `Command`); `EvaluationEnds`
needs driver, worker and the host's wait scheduled, a candidate and a reference that return,
and no timeout; `GarbageGoes` needs someone who applies a plan every so often
(strong fairness of `BeginApply`, because the engine and other collectors take the lock in
between).

## 5. What is proved

All theorems hold for every value of the constants that satisfies the named assumptions.
`TypeOK` of each module is among them. Theorems about `Spec` hold of `FairSpec`, which
implies it.

**GpuOwnershipProofs.** `Invariance` proves `IInv`, whatever the faults. None of the three
properties of `gpu_faults` is inductive: `ClockGate` needs to know that a command in flight
belongs to an unresolved record (`SetterInv`), that in turn that a record is active from
its publication to its final write (`GateInv`), and that nobody but the holder of L1 is in
those steps (`OwnershipInv`). With `Fault = {}`, `WorkInvariance` adds `WorkInv`: whatever
can still reach the GPU in the name of a run, now or by a later step of its docker client
or a worker (`Live`), is covered by that run's record. From it follow `WorkGatedHolds`,
`ReadyMeansCleanHolds`, `NoResetUnderContainerHolds` and `Refinement` (every step is a step
of `GatedGpu` or a stutter). The hypothesis is needed: the unreadable cidfile and the
descendant in its own session of section 3 are the counterexamples without it.
`LocksAreHeld` (any faults) places every flock between its taking and its release by a live
process; from the order L1, L2, own lock in which the places come, nobody waits in a
circle. `OrphanedHoldIsFinal` settles the crash at `clock_ownership.py:230`: the hold that
names a lease without a record covers no work, no container and no changed policy, every
later run is refused, and no step of the model removes it.

**LifecycleRunProofs.** `LifecycleInvariance` proves `IInv`: during an attempt, memory and
`run.json` agree, and otherwise memory claims no more than the file (`MemoryInv`); each
write of an attempt relies on the ones before it (`EvidenceInv`); prepared inputs are
still what the dependencies stand on (`LineageInv`) and are in the registry
(`RegistryInv`); a build and its evaluation on disk belong together (`PublicationInv`).
`WorkIsKept` needs `KeptInv` on top, which holds while outputs and receipts are not
touched from outside. `GovernedChainRefinement` needs receipts that are not removed: with
one gone, the chain has lost a link that `run.json` still calls verified until the next
resume.

**BlobGCProofs.** What a collector is about to delete was out of reach when it looked, under
the lock (`CollectorInv`), and nothing is written to the registry while it holds the lock
(lemma `LockedRegistry`); so it is out of reach when it is deleted
(`OnlyUnreachableDeletedHolds`). `ReachIsKept` says why a plan that has aged is safe: but for
the superseded generation nothing leaves the registry's reach. `OutputsKeptHolds` adds the order of the engine's writes
(`EngineInv`): what receipts and verified entries promise is reachable, and at the moment of
the receipt it is stored or was struck.

**TimedEvaluationProofs.** `AnswersMatch` is not inductive: which frames can be in the pipes
depends on where the driver is and on what the worker has read. `ChannelInv` says it for
each place: while the driver is not waiting the worker is in step, or has one header before
it whose outputs were given up; while it waits, its question (or its outputs) is the last
frame, or the only answer. `PlaceInv` bounds the counters, `EvidenceInv` keeps evidence with
traces, and `ValidatedInv` says that what has been validated of the current workload is all
calls up to the current one and none after. From these follow `AnswersAreOwn`,
`EvidenceIsForPassed` and the refinement `Judges`. The proof first regroups the driver's
actions (`DriverSteps`): a dozen ways lead to the same verdict.

**NativeBuildProofs.** `LeftIsNewborn` needs to know what each stage of the cleanup has
achieved (`GroupOK`: what is alive was listed or is new; after the last signal it is new),
`NoStrangerSignalled` that an id is used again only after the leader was reaped, from where
on nothing is signalled. `CacheInv` ties the lock to the steps that touch the entry;
`BuildInv` says what a builder has in hand when it comes to store. Holds for any number of
builders, descendants, kills, errors and interrupts, an interrupt of a cleanup among them:
`CallsCleanUp` is about calls that were not abandoned in that way, and `EntriesAreWhole`
allows an entry without metadata only from a removal under way or cut short, which a
publication never is.

**ReleaseRunProofs.** `PassedInv` follows a command along its walk: what it has behind it has
passed for its configuration, although gates may be replaced meanwhile - so a release is
gated (`Releases`) whatever overlaps. `ResultInv` says where a run stands among the results,
one run at a time: `ResultsStay` and `RunsComplete`. `QualifiedStays` needs only that a
command which finds a gate never writes one. `EvaluationsExclude` holds for overlapping
release runs too, where `ResultInv` does not.

**Progress.** TLAPS proves no liveness under fairness, but most of what a liveness argument
needs is safety, and that is proved:

| property | every step counts | somebody can go on |
|---|---|---|
| `EvaluationEnds` | `EveryStepCounts`: each step of driver, worker and host lowers `Rank`, a lexicographic order without infinite descent (lemma `NoInfiniteDescent`) | `TakesTurns` |
| `InvocationEnds` | `InvocationIsBounded`: at most 96 * MaxAttempts + 18 steps | not a theorem: the guards of the actions at each place are complementary, and the loop takes the least stage left |
| `FirstRunDecides` | the same | `FirstRunNeverEndsUndecided`: with nobody to kill it, the run stops complete or at a stage that failed for good |
| `BuildsEnd` | `BuildIsBounded`: at most 4 * \|Kid\| + 40 steps, for finitely many descendants | `BuildersTakeTurns`: a build that must wait waits for a holder that can step |
| `OwnershipIsReleased` (unless the work never ends) | `RunsGoForward`: no place of a run comes twice | `RunsGoForward` (`GoesOn`), `LocksAreHeld` |
| `GarbageGoes` | `CollectionsAreComplete`: one whole collection is enough | - |
| release commands (no run) | `CommandIsBounded`: at most 5 * Problems + 15 steps | - |

The bounds are for every size of the system, where TLC's runs have two or three of
everything. What is not proved is the last inference, from these facts and the fairness of
section 4 to "eventually": it needs `ENABLED` and induction over the rank. TLC checks it on
the instances of section 3. A disproof of a bound would be a loop in the code that some
failure drives for ever; the proofs found none.

Only model-checked: that the properties of liveness hold (`OwnershipIsReleased`, `GateEventuallyClears`,
`InvocationEnds`, `FirstRunDecides`, `GarbageGoes`, `EvaluationEnds`, `BuildsEnd`; `GateEventuallyClears`
and `GarbageGoes` also rest on someone outside who repeats a command), and the two
counterexamples. Temporal proofs of that kind are beyond the prover.

## 6. What is not modelled

In the modelled components: several invocations of the lifecycle at once, `status.json`,
`put_bytes` and the exposure receipts of the store, and the registration of diagnostic
releases, which writes the registry without the store lock; several GPUs (their locks and
records never meet); the polling inside a lock acquisition and the instant for which a probe
holds the lock it probes; the runner of `subprocesses.py` that is built on `communicate` and
has an escalation of its own; what a capture thread still reads after it was given up; the
verification of an intact cache entry against its inventory, which only damage from outside
can make fail; the selection of partitions and the contents of receipts and environments.

Smaller branches of modelled operations that are left out, none of which a property depends
on: an L1 that is inherited through `GPU_LOCK_FD` (`gpu_lock.py:86-107`,
`gpu_execution.py:122-152`), where a run works under its parent's lock; a kill inside the
release handler, which leaves part of `release.tar.zst` behind
(`release/packaging.py:190-198`; handlers are one step of `LifecycleRun`); the trees of
corpus snapshots and the blob of the plan among what a collection keeps
(`corpus_registry.py:143-171`, `gc.py:169`; `BlobGC` keeps receipts, manifests and outputs);
a profiled evaluation, which falls back to a plain one in the same staging directory, where
the failed attempt's timing file may still be (`cli/evaluation/runtime.py:257-266`;
`TimedEvaluation` is the unprofiled run, with a directory of its own); and an
exception of the source review or the snapshot itself (`eval_driver.py:128-155`, before the
`try`), which ends the driver without closing its client first: `Import` makes it the same
failure as one inside the `try`.

The remaining components are listed with their reasons in `PROJECT.json`. They are most of
the repository's lines: SOLAR, the performance model, the datasets, the data contracts and
the maintainer scripts compute a result from files in one sequential pass. What could be
wrong with them is numbers and text, which tests reach and a model checker does not; a
model of them would be a second program.

## 7. Plan

Done: ownership, lifecycle, store, evaluation, native builds, qualification and release
runs, the proofs of all their safety, and of the safety half of their liveness. What would come next, in this order:

1. A release writer in `BlobGC`: `packaging.py:453` beside a collector that has re-checked
   the registry. `OnlyUnreachableDeleted` is expected to fail there.
2. Two engine processes in `LifecycleRun` over one run, each with `run.json` in memory.
3. The probe of a lock as two steps in `GpuOwnership` (`gpu_lock.py:76`).
4. The `communicate` runner as a second runner of `ProcessGroup`.

The runs are to stay few: a new module gets one safety run, and liveness where it has any.
