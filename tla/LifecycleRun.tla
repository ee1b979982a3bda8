------------------------------ MODULE LifecycleRun ------------------------------
(***************************************************************************)
(* The diagnostic lifecycle engine: one collection run taken through the   *)
(* chain of evidence stages by a process that may be killed between any    *)
(* two writes and resumed later                                            *)
(* (core/bench/performance_model/lifecycle/engine.py and records.py).      *)
(*                                                                         *)
(* What survives the process is what it wrote: run.json (`run`), one       *)
(* receipt per stage (`receipt`, rewritten by every attempt), the registry *)
(* of immutable stage manifests (`manifest`, write once), the append-only  *)
(* attempt ledger (`event`) and the working output of each stage (`out`).  *)
(* Everything else is the memory of the current invocation.                *)
(*                                                                         *)
(* A digest is abstracted to what it identifies.  A stage identity is the  *)
(* content that determines it: PlanId for the stages whose identity the    *)
(* reviewed plan fixes, the content of the fitted model for the ones       *)
(* downstream of it.  The SHA-256 of a manifest, which embeds the receipt  *)
(* and its timestamps, is the identity plus the invocation and attempt     *)
(* that wrote it.                                                          *)
(***************************************************************************)
EXTENDS Naturals, Sequences, FiniteSets

CONSTANTS
  None,            \* "no value"
  PlanId,          \* the content the reviewed plan fixes
  Content,         \* what a model build may fit
  Accepted,        \* the builds whose held-out evaluation is accepted
  MaxAttempts,     \* plan.max_attempts
  MaxInvocations,  \* bound: how often the command is started
  CrashProne,      \* the invocations numbered up to this one may be killed
  Selections,      \* the stage selections `run` may be asked for
  Rerun,           \* may `run` be started again over a recorded run?
  Flaky,           \* stages whose handler or commit may raise
  FragileOutput,   \* stages whose working output may be damaged or removed
  FragileReceipt   \* stages whose receipt may be removed

CHAIN == << "design", "calibration", "collection_run", "corpus_snapshot",
            "model_build", "acceptance", "publication", "release" >>

Stage == { CHAIN[i] : i \in DOMAIN CHAIN }

CHAIN_INDEX == [ s \in Stage |-> CHOOSE i \in DOMAIN CHAIN : CHAIN[i] = s ]

DEPENDENCIES ==
  [ s \in Stage |->
      CASE s = "collection_run"  -> {"design"}
        [] s = "corpus_snapshot" -> {"collection_run"}
        [] s = "model_build"     -> {"calibration"}
        [] s = "acceptance"      -> {"model_build", "calibration", "corpus_snapshot"}
        [] s = "publication"     -> {"acceptance", "calibration", "model_build"}
        [] s = "release"         -> {"publication"}
        [] OTHER                 -> {} ]

\* The stages that adopt what the operator supplied under the plan, and the ones
\* whose output path must not exist yet when the handler runs.
Adopted    == {"calibration", "collection_run", "corpus_snapshot"}
CreateOnly == {"publication", "release"}

ASSUME LifecycleAssumption ==
  /\ MaxAttempts \in Nat \ {0}
  /\ MaxInvocations \in Nat
  /\ CrashProne \in Nat
  /\ Accepted \subseteq Content
  /\ PlanId \notin Content
  /\ None \notin Content /\ None # PlanId
  /\ "absent" \notin Content \cup {PlanId}
  /\ "damaged" \notin Content \cup {PlanId}
  /\ Selections \subseteq (SUBSET Stage) \ {{}}
  /\ Rerun \in BOOLEAN
  /\ Flaky \subseteq Stage
  /\ FragileOutput \subseteq Stage
  /\ FragileReceipt \subseteq Stage

Attempt == 1 .. MaxAttempts
Id      == Content \cup {PlanId}

\* A cited manifest: the stage, its identity, and the digest of the file.
Parent == [stage : Stage, id : Id, by : Nat, attempt : Nat]

Receipt == [id : Id, by : Nat, attempt : Nat, inputs : SUBSET Parent]

StageState ==
  [status : {"none", "running", "verified", "failed"}, attempts : 0 .. MaxAttempts]

Blank == [ s \in Stage |-> [status |-> "none", attempts |-> 0] ]

\* An entry of the attempt ledger.
Event == [status : {"verified", "failed"}, by : Nat]

ASSUME NoneAssumption == None \notin Receipt /\ None \notin Event

VARIABLES
  \* durable
  run,         \* run.json: [Stage -> StageState]
  receipt,     \* receipts/<stage>.json
  manifest,    \* the registry: [Stage -> [Id -> the receipt it embeds, or None]]
  event,       \* attempts/<stage>/<k>.json: [Stage -> [Attempt -> ...]]
  out,         \* working outputs on disk
  invocation,  \* how many times the command was started
  \* the current invocation's memory
  pc, mode, cur, todo, stage, prepared, made, outcome

durable  == << run, receipt, manifest, event, out, invocation >>
volatile == << pc, mode, cur, todo, stage, prepared, made, outcome >>
vars     == << run, receipt, manifest, event, out, invocation,
               pc, mode, cur, todo, stage, prepared, made, outcome >>

\* The design is registered before any run is planned.
Preregistered == [id |-> PlanId, by |-> 0, attempt |-> 0, inputs |-> {}]

Init ==
  /\ run = Blank
  /\ receipt = [ s \in Stage |-> None ]
  /\ manifest = [ s \in Stage |-> [ i \in Id |->
                    IF s = "design" /\ i = PlanId THEN Preregistered ELSE None ] ]
  /\ event = [ s \in Stage |-> [ k \in Attempt |-> None ] ]
  /\ out = [ s \in Stage |-> IF s \in Adopted \cup {"design"} THEN PlanId ELSE "absent" ]
  /\ invocation = 0
  /\ pc = "idle" /\ mode = "run" /\ cur = Blank /\ todo = {}
  /\ stage = "design" /\ prepared = {} /\ made = None /\ outcome = "none"

-----------------------------------------------------------------------------
(* Reading the records. *)

Verified(state) == { s \in Stage : state[s].status = "verified" }

Recorded == \E s \in Stage : run[s].status # "none"
Complete == Verified(run) = Stage

\* Mutant: what a receipt names is cited, whether or not its stage is verified.
BugCitable(state, d) == receipt[d] # None /\ manifest[d][receipt[d].id] # None

\* _parents_of finds a verified entry, its receipt, and the manifest it names.
Citable(state, d) ==
  /\ d \in Verified(state)
  /\ receipt[d] # None
  /\ manifest[d][receipt[d].id] # None

Cite(d, i) ==
  [stage |-> d, id |-> i, by |-> manifest[d][i].by, attempt |-> manifest[d][i].attempt]

ParentOf(d) == Cite(d, receipt[d].id)

Preparable(state, s) == \A d \in DEPENDENCIES[s] : Citable(state, d)
Parents(s)           == { ParentOf(d) : d \in DEPENDENCIES[s] }

\* handler.verify: publication and release check their own tree, not the receipt.
Verifies(s) ==
  IF s \in CreateOnly THEN out[s] \in Content ELSE out[s] = receipt[s].id

\* _reverify_past_stages: the largest set of recorded stages that still hold and
\* whose dependencies hold.
StillHolds(s) ==
  /\ receipt[s] # None
  /\ Preparable(run, s)
  /\ receipt[s].inputs = Parents(s)
  /\ Verifies(s)

\* Mutant: each stage is re-verified on its own, failures do not reach its dependants.
BugReverified == { s \in Verified(run) : receipt[s] # None /\ Verifies(s) }

Reverified ==
  UNION { V \in SUBSET Verified(run) :
            \A s \in V : DEPENDENCIES[s] \subseteq V /\ StillHolds(s) }

-----------------------------------------------------------------------------
(* Starting and leaving an invocation. *)

Forget ==
  /\ pc' = "idle" /\ mode' = "run" /\ cur' = Blank /\ todo' = {}
  /\ stage' = "design" /\ prepared' = {} /\ made' = None /\ outcome' = "none"

Start(m, state, stages) ==
  /\ pc = "idle"
  /\ invocation < MaxInvocations
  /\ invocation' = invocation + 1
  /\ pc' = "next" /\ mode' = m /\ cur' = state /\ todo' = stages
  /\ UNCHANGED << run, receipt, manifest, event, out, stage, prepared, made, outcome >>

\* Mutant: `run` continues from the recorded state.
BugStartRun ==
  /\ Recorded => Rerun
  /\ \E stages \in Selections : Start("run", run, stages)

\* run_diagnostic_lifecycle starts from an empty run state.
StartRun ==
  /\ Recorded => Rerun
  /\ \E stages \in Selections : Start("run", Blank, stages)

\* Mutant: what is re-executed gets a fresh budget.
BugStartResume ==
  /\ Recorded
  /\ Start("resume",
           [ s \in Stage |-> IF s \in Reverified
                             THEN run[s] ELSE [status |-> "failed", attempts |-> 0] ],
           Stage \ Reverified)

\* resume_diagnostic_lifecycle re-verifies in memory and skips what still holds.
StartResume ==
  /\ Recorded
  /\ Start("resume",
           [ s \in Stage |->
               IF s \in Verified(run) \ Reverified
               THEN [status |-> "failed", attempts |-> run[s].attempts]
               ELSE run[s] ],
           Stage \ Reverified)

\* The process is killed, or dies of the RuntimeError of a busy registry lock.
Crash ==
  /\ pc # "idle"
  /\ invocation <= CrashProne
  /\ Forget
  /\ UNCHANGED durable

-----------------------------------------------------------------------------
(* The loop over the stages. *)

IsNext(s) == s \in todo /\ \A t \in todo : CHAIN_INDEX[s] <= CHAIN_INDEX[t]

\* _validate_predecessor, which only `run` calls, before the first attempt.
Startable(s) == mode = "run" => DEPENDENCIES[s] \subseteq Verified(cur)

Refuse ==
  /\ pc = "next"
  /\ \E s \in todo : IsNext(s) /\ ~ Startable(s)
  /\ Forget
  /\ UNCHANGED durable

\* Mutant: the budget is compared one too far.
BugBegin ==
  /\ pc = "next"
  /\ \E s \in todo :
       /\ IsNext(s) /\ Startable(s)
       /\ cur[s].attempts <= MaxAttempts
       /\ cur' = [cur EXCEPT ![s] = [status |-> "running", attempts |-> @.attempts + 1]]
       /\ run' = cur'
       /\ stage' = s
  /\ pc' = "prepare"
  /\ UNCHANGED << receipt, manifest, event, out, invocation, mode, todo, prepared, made, outcome >>

\* One more attempt: run.json says RUNNING before anything else happens.
Begin ==
  /\ pc = "next"
  /\ \E s \in todo :
       /\ IsNext(s) /\ Startable(s)
       /\ cur[s].attempts < MaxAttempts
       /\ cur' = [cur EXCEPT ![s] = [status |-> "running", attempts |-> @.attempts + 1]]
       /\ run' = cur'
       /\ stage' = s
  /\ pc' = "prepare"
  /\ UNCHANGED << receipt, manifest, event, out, invocation, mode, todo, prepared, made, outcome >>

\* Mutant: the loop is not left when a stage has failed.
BugExhausted ==
  /\ pc = "next"
  /\ \E s \in todo :
       /\ IsNext(s) /\ Startable(s)
       /\ cur[s].attempts >= MaxAttempts
       /\ IF cur[s].status = "failed" THEN UNCHANGED todo ELSE todo' = todo \ {s}
  /\ UNCHANGED << run, receipt, manifest, event, out, invocation,
                  pc, mode, cur, stage, prepared, made, outcome >>

\* The budget is spent: a failed stage ends the loop, any other is passed over.
Exhausted ==
  /\ pc = "next"
  /\ \E s \in todo :
       /\ IsNext(s) /\ Startable(s)
       /\ cur[s].attempts >= MaxAttempts
       /\ \/ /\ cur[s].status = "failed"
             /\ pc' = "final" /\ UNCHANGED todo
          \/ /\ cur[s].status # "failed"
             /\ todo' = todo \ {s} /\ UNCHANGED pc
  /\ UNCHANGED << run, receipt, manifest, event, out, invocation,
                  mode, cur, stage, prepared, made, outcome >>

\* The run-state is written once more on the way out.
Finish ==
  /\ pc = "final" \/ (pc = "next" /\ todo = {})
  /\ run' = cur
  /\ Forget
  /\ UNCHANGED << receipt, manifest, event, out, invocation >>

-----------------------------------------------------------------------------
(* One attempt (_complete_stage_attempt). *)

\* _StageAttemptError: the attempt is over, and is recorded by WriteEvent.
Fail(o) == pc' = "event" /\ outcome' = o

PrepareInputs ==
  /\ pc = "prepare"
  /\ \/ /\ Preparable(cur, stage)
        /\ prepared' = Parents(stage)
        /\ pc' = "run"
        /\ UNCHANGED outcome
     \/ /\ ~ Preparable(cur, stage) \/ stage \in Flaky
        /\ Fail("failed")
        /\ UNCHANGED prepared
  /\ UNCHANGED << durable, mode, cur, todo, stage, made >>

\* Mutant: the publication handler does not read the verdict.
BugProduces(s) ==
  CASE s = "design" -> {PlanId}
    [] s \in Adopted -> {out[s]} \cap {PlanId}
    [] s = "model_build" -> Content
    [] s = "release" -> { c \in Content : c = out["publication"] /\ out[s] = "absent" }
    [] OTHER -> { c \in Content : c = out["model_build"] }

\* What handler.run may leave as the stage's working output; nothing if it raises.
Produces(s) ==
  CASE s = "design" -> {PlanId}
    [] s \in Adopted -> {out[s]} \cap {PlanId}
    [] s = "model_build" -> { c \in Content : out["calibration"] = PlanId }
    [] s = "acceptance" ->
         { c \in Content : /\ c = out["model_build"]
                           /\ out["calibration"] = PlanId
                           /\ out["corpus_snapshot"] = PlanId }
    [] s = "publication" ->
         { c \in Content : /\ c = out["model_build"]
                           /\ out["acceptance"] \in Accepted
                           /\ out["calibration"] = PlanId
                           /\ out[s] = "absent" }
    [] s = "release" ->
         { c \in Content : /\ c = out["publication"]
                           /\ manifest["publication"][c] # None
                           /\ out[s] = "absent" }

RunHandler ==
  /\ pc = "run"
  /\ \/ \E c \in Produces(stage) :
          /\ out' = [out EXCEPT ![stage] = c]
          /\ made' = c
          /\ pc' = "import"
          /\ UNCHANGED outcome
     \/ /\ Produces(stage) = {} \/ stage \in Flaky
        /\ Fail("failed")
        /\ UNCHANGED << out, made >>
     \/ /\ stage = "acceptance" /\ stage \in Flaky   \* AcceptancePreconditionError
        /\ Fail("terminal")
        /\ UNCHANGED << out, made >>
  /\ UNCHANGED << run, receipt, manifest, event, invocation,
                  mode, cur, todo, stage, prepared >>

NewReceipt ==
  [id |-> made, by |-> invocation, attempt |-> cur[stage].attempts, inputs |-> prepared]

ReleaseObject ==
  [id |-> made, by |-> invocation, attempt |-> cur[stage].attempts,
   inputs |-> {Cite("publication", made)}]

\* The outputs enter the blob store; the release handler also registers its
\* release object, which must not exist yet.
ImportOutputs ==
  /\ pc = "import"
  /\ \/ /\ stage = "release" => manifest["release"][made] = None
        /\ manifest' = IF stage = "release"
                       THEN [manifest EXCEPT ![stage][made] = ReleaseObject] ELSE manifest
        /\ pc' = "check"
        /\ UNCHANGED outcome
     \/ /\ stage \in Flaky \/ (stage = "release" /\ manifest["release"][made] # None)
        /\ Fail("failed")
        /\ UNCHANGED manifest
  /\ UNCHANGED << run, receipt, event, out, invocation,
                  mode, cur, todo, stage, prepared, made >>

\* The inputs are prepared again and compared, then the handler verifies its output.
Unchanged == Preparable(cur, stage) /\ Parents(stage) = prepared
Delivered == IF stage \in CreateOnly THEN out[stage] \in Content ELSE out[stage] = made

CheckAttempt ==
  /\ pc = "check"
  /\ \/ /\ Unchanged /\ Delivered
        /\ pc' = "receipt"
        /\ UNCHANGED outcome
     \/ /\ ~ (Unchanged /\ Delivered) \/ stage \in Flaky
        /\ Fail("failed")
  /\ UNCHANGED << durable, mode, cur, todo, stage, prepared, made >>

WriteReceipt ==
  /\ pc = "receipt"
  /\ \/ /\ receipt' = [receipt EXCEPT ![stage] = NewReceipt]
        /\ pc' = "manifest"
        /\ UNCHANGED outcome
     \/ /\ stage \in Flaky
        /\ Fail("failed")
        /\ UNCHANGED receipt
  /\ UNCHANGED << run, manifest, event, out, invocation,
                  mode, cur, todo, stage, prepared, made >>

\* The design was registered beforehand and the release by its handler: neither
\* stage commits a manifest here.  A manifest is written once; the one an earlier
\* attempt left under the same identity embeds another receipt and differs.
Commits(s) == s \notin {"design", "release"}

\* Mutant: a manifest already registered under the identity is replaced.
BugCommitManifest ==
  /\ pc = "manifest"
  /\ manifest' = IF Commits(stage)
                 THEN [manifest EXCEPT ![stage][made] = NewReceipt] ELSE manifest
  /\ pc' = "event" /\ outcome' = "verified"
  /\ UNCHANGED << run, receipt, event, out, invocation,
                  mode, cur, todo, stage, prepared, made >>

CommitManifest ==
  /\ pc = "manifest"
  /\ \/ /\ Commits(stage) => manifest[stage][made] = None
        /\ manifest' = IF Commits(stage)
                       THEN [manifest EXCEPT ![stage][made] = NewReceipt] ELSE manifest
        /\ \/ pc' = "event" /\ outcome' = "verified"
           \/ stage \in Flaky /\ Fail("failed")      \* the blob import after it raises
     \/ /\ stage \in Flaky \/ (Commits(stage) /\ manifest[stage][made] # None)
        /\ Fail("failed")
        /\ UNCHANGED manifest
  /\ UNCHANGED << run, receipt, event, out, invocation,
                  mode, cur, todo, stage, prepared, made >>

Entry ==
  [status |-> IF outcome = "verified" THEN "verified" ELSE "failed", by |-> invocation]

\* Mutant: an entry already in the ledger is left as it is and the engine goes on.
BugWriteEvent ==
  /\ pc = "event"
  /\ event' = [event EXCEPT ![stage][cur[stage].attempts] = IF @ # None THEN @ ELSE Entry]
  /\ pc' = "record"
  /\ UNCHANGED << run, receipt, manifest, out, invocation,
                  mode, cur, todo, stage, prepared, made, outcome >>

\* _write_attempt: the ledger is append-only, and an entry of an earlier `run`
\* under the same number raises out of the engine.
WriteEvent ==
  /\ pc = "event"
  /\ \/ /\ event[stage][cur[stage].attempts] = None
        /\ event' = [event EXCEPT ![stage][cur[stage].attempts] = Entry]
        /\ pc' = "record"
        /\ UNCHANGED << mode, cur, todo, stage, prepared, made, outcome >>
     \/ /\ event[stage][cur[stage].attempts] # None
        /\ Forget
        /\ UNCHANGED event
  /\ UNCHANGED << run, receipt, manifest, out, invocation >>

\* Mutant: the first failed attempt ends the run.
BugRecordOutcome ==
  /\ pc = "record"
  /\ cur' = [cur EXCEPT ![stage] = [status |-> Entry.status, attempts |-> @.attempts]]
  /\ run' = cur'
  /\ todo' = IF outcome = "verified" THEN todo \ {stage} ELSE todo
  /\ pc' = IF outcome = "verified" THEN "next" ELSE "final"
  /\ prepared' = {} /\ made' = None /\ outcome' = "none"
  /\ UNCHANGED << receipt, manifest, event, out, invocation, mode, stage >>

\* The outcome reaches run.json last.  A terminal failure is not retried here.
RecordOutcome ==
  /\ pc = "record"
  /\ cur' = [cur EXCEPT ![stage] = [status |-> Entry.status, attempts |-> @.attempts]]
  /\ run' = cur'
  /\ todo' = IF outcome = "verified" THEN todo \ {stage} ELSE todo
  /\ pc' = IF outcome = "terminal" THEN "final" ELSE "next"
  /\ prepared' = {} /\ made' = None /\ outcome' = "none"
  /\ UNCHANGED << receipt, manifest, event, out, invocation, mode, stage >>

-----------------------------------------------------------------------------
(* The environment. *)

\* An output is modified or removed behind the engine's back.  The frozen corpus
\* file lies inside the collection tree, so damaging it damages both.
DamageOutput ==
  /\ \E s \in FragileOutput, harm \in {"damaged", "absent"} :
       /\ out[s] \in Id
       /\ out' = [ t \in Stage |->
                     IF t = s \/ (s = "corpus_snapshot" /\ t = "collection_run")
                     THEN harm ELSE out[t] ]
  /\ UNCHANGED << run, receipt, manifest, event, invocation, volatile >>

LoseReceipt ==
  /\ \E s \in FragileReceipt :
       /\ receipt[s] # None
       /\ receipt' = [receipt EXCEPT ![s] = None]
  /\ UNCHANGED << run, manifest, event, out, invocation, volatile >>

-----------------------------------------------------------------------------
EngineStep ==
  \/ Refuse \/ Begin \/ Exhausted \/ Finish
  \/ PrepareInputs \/ RunHandler \/ ImportOutputs \/ CheckAttempt
  \/ WriteReceipt \/ CommitManifest \/ WriteEvent \/ RecordOutcome

Next ==
  \/ StartRun \/ StartResume \/ Crash
  \/ EngineStep
  \/ DamageOutput \/ LoseReceipt

Spec == Init /\ [][Next]_vars

\* A live process keeps executing, and an operator who finds the run incomplete
\* resumes it.
FairSpec == Spec /\ WF_vars(EngineStep) /\ WF_vars(StartResume)

-----------------------------------------------------------------------------
(* Properties. *)

PC == {"idle", "next", "prepare", "run", "import", "check", "receipt", "manifest",
       "event", "record", "final"}

\* Every record holds a value of its kind.
TypeOK ==
  /\ run \in [Stage -> StageState]
  /\ receipt \in [Stage -> Receipt \cup {None}]
  /\ manifest \in [Stage -> [Id -> Receipt \cup {None}]]
  /\ event \in [Stage -> [Attempt -> Event \cup {None}]]
  /\ out \in [Stage -> Id \cup {"absent", "damaged"}]
  /\ invocation \in Nat
  /\ pc \in PC /\ mode \in {"run", "resume"}
  /\ cur \in [Stage -> StageState]
  /\ todo \subseteq Stage /\ stage \in Stage
  /\ prepared \subseteq Parent
  /\ made \in Id \cup {None}
  /\ outcome \in {"none", "verified", "failed", "terminal"}

\* A stage that run.json calls verified is backed by the evidence of the attempt it
\* counts: the receipt of that attempt, the ledger entry of that attempt, and a
\* registered manifest that embeds exactly that receipt.
VerifiedIsBacked ==
  \A s \in Verified(run) :
    receipt[s] # None =>
      /\ receipt[s].attempt = run[s].attempts
      /\ event[s][receipt[s].attempt] = [status |-> "verified", by |-> receipt[s].by]
      /\ Commits(s) => manifest[s][receipt[s].id] = receipt[s]

\* The verified stages are closed under dependency, and each one was built from the
\* very manifests its dependencies are verified by now, never from those of an
\* attempt since replaced.
LineageConsistent ==
  \A s \in Verified(run) :
    /\ DEPENDENCIES[s] \subseteq Verified(run)
    /\ (\A t \in DEPENDENCIES[s] \cup {s} : receipt[t] # None)
         => receipt[s].inputs = Parents(s)

\* Every manifest of the registry cites manifests of the registry, by the digest
\* they have today, whatever was interrupted, retried or started over.
RegistryClosed ==
  \A s \in Stage, i \in Id :
    manifest[s][i] # None =>
      \A p \in manifest[s][i].inputs :
        /\ manifest[p.stage][p.id] # None
        /\ p = Cite(p.stage, p.id)

\* What is published was accepted: the publication of a build is registered only if
\* that build's held-out acceptance is registered and was positive.
PublishedOnlyAccepted ==
  \A c \in Content :
    manifest["publication"][c] # None =>
      /\ c \in Accepted
      /\ manifest["acceptance"][c] # None

\* A resumed run never gets attempts back: only starting `run` over does.
NoAttemptRefunded ==
  [][mode = "resume" => \A s \in Stage : run'[s].attempts >= run[s].attempts]_vars

\* Work is kept: while nothing outside the engine touches its files, a stage that
\* run.json calls verified re-verifies, so no crash, failure or new start makes a
\* resume repeat it.
WorkIsKept ==
  FragileOutput = {} /\ FragileReceipt = {} => \A s \in Verified(run) : StillHolds(s)

\* The receipt e cites the manifest that embeds the receipt f of stage d; the design's
\* was registered before the run.
CitesReceipt(e, d, f) ==
  [ stage   |-> d, id |-> f.id,
    by      |-> IF d = "design" THEN 0 ELSE f.by,
    attempt |-> IF d = "design" THEN 0 ELSE f.attempt ] \in e.inputs

VerifiedChain == [ s \in Stage |-> IF s \in Verified(run) THEN receipt[s] ELSE None ]

\* The verified stages, each with its receipt, are at all times a governed chain.
Chain == INSTANCE GovernedChain WITH Cites <- CitesReceipt, chain <- VerifiedChain

ChainIsGoverned == Chain!Spec

\* Every invocation ends.
InvocationEnds == (pc # "idle") ~> (pc = "idle")

\* A first run that is not killed completes the chain or ends with a stage that failed
\* for good: on its last attempt, or on an acceptance precondition.
FirstRunDecides ==
  (CrashProne = 0 /\ pc = "next" /\ invocation = 1 /\ todo = Stage)
    ~> (\/ Complete
        \/ \E s \in Stage : /\ run[s].status = "failed"
                            /\ run[s].attempts = MaxAttempts \/ s = "acceptance")

-----------------------------------------------------------------------------
(* The inductive invariant. *)

\* An attempt is under way; its inputs are prepared and it has not failed; its
\* handler has delivered; its manifest is in place.
Landed     == pc \in {"event", "record"} /\ outcome = "verified"
Delivering == pc \in {"import", "check", "receipt", "manifest"} \/ Landed
Working    == pc = "run" \/ Delivering
Busy       == pc \in {"prepare", "run", "import", "check", "receipt", "manifest",
                      "event", "record"}

\* What the process remembers against what it has written: during an attempt the two
\* agree, and otherwise the memory claims no more than run.json and is closed.
MemoryInv ==
  /\ Busy => /\ run = cur /\ stage \in todo
             /\ cur[stage].status = "running" /\ cur[stage].attempts \in Attempt
  /\ pc # "idle" =>
       /\ \A s \in Verified(cur) : DEPENDENCIES[s] \subseteq Verified(cur) /\ cur[s] = run[s]
       /\ todo \cap Verified(cur) = {}
       /\ mode = "resume" => \A s \in Stage : cur[s].attempts >= run[s].attempts
  /\ Working => DEPENDENCIES[stage] \subseteq Verified(cur)
  /\ Delivering => made \in Id /\ (stage = "design" => made = PlanId)

\* The writes of an attempt, in their order, up to the verified entry of run.json.
EvidenceInv ==
  /\ VerifiedIsBacked
  /\ \A s \in Verified(run) : run[s].attempts \in Attempt
  /\ manifest["design"][PlanId] = Preregistered
  /\ receipt["design"] # None => receipt["design"].id = PlanId
  /\ pc = "manifest" \/ Landed => receipt[stage] \in {NewReceipt, None}
  /\ Landed /\ Commits(stage) => manifest[stage][made] = NewReceipt
  /\ Landed /\ pc = "record" =>
       event[stage][cur[stage].attempts] = [status |-> "verified", by |-> invocation]

LineageInv ==
  /\ LineageConsistent
  /\ Working /\ (\A d \in DEPENDENCIES[stage] : receipt[d] # None)
       => prepared = Parents(stage)

RegistryInv ==
  /\ RegistryClosed
  /\ Working => \A p \in prepared : /\ manifest[p.stage][p.id] # None
                                    /\ p = Cite(p.stage, p.id)
  /\ pc = "import" /\ stage = "release" => manifest["publication"][made] # None

\* A build and its evaluation, as they lie on disk, belong together once the
\* acceptance is verified.
PublicationInv ==
  /\ PublishedOnlyAccepted
  /\ "acceptance" \in Verified(run) /\ {out["acceptance"], out["model_build"]} \subseteq Content =>
       /\ out["acceptance"] = out["model_build"]
       /\ manifest["acceptance"][out["acceptance"]] # None
  /\ Delivering /\ stage = "acceptance" =>
       \A s \in {"acceptance", "model_build"} : out[s] \in Content => out[s] = made
  /\ Delivering /\ stage = "publication" =>
       made \in Accepted /\ manifest["acceptance"][made] # None

IInv == TypeOK /\ MemoryInv /\ EvidenceInv /\ LineageInv /\ RegistryInv /\ PublicationInv

\* What a verified stage delivered is still there while nothing outside the engine
\* touches it, and so is its receipt.
KeptInv ==
  /\ FragileReceipt = {} =>
       /\ \A s \in Verified(run) : receipt[s] # None
       /\ pc = "manifest" \/ Landed => receipt[stage] # None
  /\ FragileOutput = {} =>
       /\ \A s \in Verified(run) : receipt[s] # None => Verifies(s)
       /\ pc \in {"receipt", "manifest"} \/ Landed => Delivered

-----------------------------------------------------------------------------
(* What the documentation says and the code does not do. *)

\* The user documentation: resume continues from the first incomplete stage while
\* the attempt budget remains.  With handlers that never fail and inputs that never
\* change, a run interrupted within its budget is then completed by resuming it.
ResumeCompletes ==
  (pc = "idle" /\ Recorded /\ \A s \in Stage : run[s].attempts < MaxAttempts) ~> Complete
=============================================================================
