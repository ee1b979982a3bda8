-------------------------------- MODULE BlobGC --------------------------------
(***************************************************************************)
(* The content-addressed blob store of the diagnostic lifecycle and its    *)
(* garbage collection (lifecycle/blob_store.py and lifecycle/gc.py): the   *)
(* engine writes registry objects and imports blobs, each under the store  *)
(* lock but not both under one; collectors decide from the registry alone  *)
(* which blobs to delete, in a plan that is reviewed and applied later.    *)
(*                                                                         *)
(* The engine is reduced to what it writes to the store, in the order it   *)
(* writes it; LifecycleRun has its control.  A blob is an output, or the   *)
(* copy of a registry file, which is named by what it contains: the stage  *)
(* and the attempt whose times it carries.                                 *)
(***************************************************************************)
EXTENDS Naturals, FiniteSets

CONSTANTS
  Stage,         \* the stages of the run, and the ones each is built from
  DEPENDENCIES,
  Output,        \* contents of working outputs
  Out,           \* what each stage delivers: [Stage -> Output]
  Old,           \* outputs only the manifest of an older collection run refers to
  Successor,     \* the stage whose manifest supersedes that generation
  Collector,     \* people running `gc plan` and `gc apply`, or run_gc
  NoOne,         \* a free lock
  MaxAttempts,   \* plan.max_attempts
  Flaky,         \* stages whose handler, imports or verification may fail
  MaxKills,      \* bound: how many processes are killed
  Overlap        \* may a collector work while the engine runs?

ASSUME StoreAssumption ==
  /\ DEPENDENCIES \in [Stage -> SUBSET Stage]
  /\ Out \in [Stage -> Output]
  /\ Old \subseteq Output
  /\ Successor \in Stage /\ Flaky \subseteq Stage
  /\ NoOne \notin Collector
  /\ MaxAttempts \in Nat \ {0} /\ MaxKills \in Nat
  /\ Overlap \in BOOLEAN

Attempt == 1 .. MaxAttempts

\* The blobs that are copies of registry files.
File == [kind : {"manifest", "attempt"}, stage : Stage, attempt : Attempt]
Blob == Output \cup File

ASSUME OutputAssumption == Output \cap File = {}

VARIABLES
  \* the registry; 0 stands for a file that does not exist
  status, attempts,   \* run.json
  receipt, manifest,  \* the attempt whose receipt, whose manifest is on disk
  ledger,             \* attempts/<stage>/<k>.json
  \* the blob directory
  blob,               \* committed blobs
  leftover,           \* does a staging file lie there that nobody owns?
  lock,               \* registry.lock
  \* the engine process
  pc, stage, moving, after, outcome,
  \* collectors
  gpc, plan,
  kills,              \* processes killed so far
  struck              \* history: outputs deleted between import and receipt

registry  == << status, attempts, receipt, manifest, ledger >>
store     == << blob, leftover >>
engine    == << pc, stage, moving, after, outcome >>
collector == << gpc, plan >>
vars == << status, attempts, receipt, manifest, ledger, blob, leftover, lock,
           pc, stage, moving, after, outcome, gpc, plan, kills, struck >>

\* A plan: the digests that were reachable, those that were stored, and the registry.
Plan(l, p, r) == [live |-> l, present |-> p, registry |-> r]
NoPlan        == Plan({}, {}, << >>)

Init ==
  /\ status = [ s \in Stage |-> "none" ] /\ attempts = [ s \in Stage |-> 0 ]
  /\ receipt = [ s \in Stage |-> 0 ] /\ manifest = [ s \in Stage |-> 0 ]
  /\ ledger = {}
  /\ blob = Old /\ leftover = FALSE /\ lock = NoOne
  /\ pc = "idle" /\ stage = Successor /\ moving = NoOne /\ after = "none" /\ outcome = "none"
  /\ gpc = [ g \in Collector |-> "idle" ] /\ plan = [ g \in Collector |-> NoPlan ]
  /\ kills = 0 /\ struck = {}

Free == lock = NoOne

\* The copies of a manifest and of a ledger entry.
CopyOf(kind, s, k) == [kind |-> kind, stage |-> s, attempt |-> k]

-----------------------------------------------------------------------------
(* The registry, as a collector reads it. *)

\* What the receipt and the manifest of a stage refer to: its output, and the
\* manifest of every stage it was built from.
Promised(s) == {Out[s]} \cup { CopyOf("manifest", d, manifest[d]) : d \in DEPENDENCIES[s] }

\* Mutant: receipts and run-states are not consulted.
BugLive ==
  (UNION { Promised(s) : s \in { t \in Stage : manifest[t] # 0 } })
    \cup { CopyOf("attempt", e[1], e[2]) : e \in ledger }
    \cup { o \in Old : manifest[Successor] = 0 }

\* _reachability: what live manifests, run-states, receipts and the attempt ledger
\* refer to.  The older generation counts until a registered one supersedes it.
Live ==
  (UNION { Promised(s) : s \in { t \in Stage : receipt[t] # 0 \/ manifest[t] # 0 } })
    \cup { Out[s] : s \in { t \in Stage : status[t] = "verified" } }
    \cup { CopyOf("attempt", e[1], e[2]) : e \in ledger }
    \cup { o \in Old : manifest[Successor] = 0 }

-----------------------------------------------------------------------------
(* The engine.  Every write below takes the store lock without waiting. *)

Locked == pc \in {"next", "commit", "receipt", "manifest", "ledger", "record"}

\* put_file: copy into a staging file, then commit it under the lock.
Put(b, then) == pc' = "copy" /\ moving' = b /\ after' = then

Fail == pc' = "ledger" /\ outcome' = "failed"
Exit == pc' = "idle" /\ moving' = NoOne /\ after' = "none" /\ outcome' = "none"

Start ==
  /\ pc = "idle"
  /\ Overlap \/ \A g \in Collector : gpc[g] \in {"idle", "planned"}
  /\ pc' = "next"
  /\ UNCHANGED << registry, store, lock, stage, moving, after, outcome,
                  collector, kills, struck >>

Leave ==
  /\ pc = "next"
  /\ Exit
  /\ UNCHANGED << registry, store, lock, stage, collector, kills, struck >>

\* Mutant: the budget is compared one too far.
BugBegin ==
  /\ pc = "next" /\ Free
  /\ \E s \in Stage :
       /\ status[s] # "verified" /\ attempts[s] <= MaxAttempts
       /\ \A d \in DEPENDENCIES[s] : status[d] = "verified"
       /\ status' = [status EXCEPT ![s] = "running"]
       /\ attempts' = [attempts EXCEPT ![s] = @ + 1]
       /\ stage' = s
  /\ pc' = "handler"
  /\ UNCHANGED << receipt, manifest, ledger, store, lock, moving, after, outcome,
                  collector, kills, struck >>

\* run.json says RUNNING, with the attempt counted.
Begin ==
  /\ pc = "next" /\ Free
  /\ \E s \in Stage :
       /\ status[s] # "verified" /\ attempts[s] < MaxAttempts
       /\ \A d \in DEPENDENCIES[s] : status[d] = "verified"
       /\ status' = [status EXCEPT ![s] = "running"]
       /\ attempts' = [attempts EXCEPT ![s] = @ + 1]
       /\ stage' = s
  /\ pc' = "handler"
  /\ UNCHANGED << receipt, manifest, ledger, store, lock, moving, after, outcome,
                  collector, kills, struck >>

\* The handler leaves an output, which _import_completion_outputs puts in the store.
Handle ==
  /\ pc = "handler"
  /\ \/ Put(Out[stage], "receipt") /\ UNCHANGED outcome
     \/ stage \in Flaky /\ Fail /\ UNCHANGED << moving, after >>
  /\ UNCHANGED << registry, store, lock, stage, collector, kills, struck >>

\* An import that fails removes its staging file; the attempt fails with it, except
\* that nobody catches what the import of the ledger entry raises.
Copy ==
  /\ pc = "copy"
  /\ \/ pc' = "commit" /\ UNCHANGED << moving, after, outcome >>
     \/ stage \in Flaky /\ after # "record" /\ Fail /\ UNCHANGED << moving, after >>
     \/ stage \in Flaky /\ after = "record" /\ Exit
  /\ UNCHANGED << registry, store, lock, stage, collector, kills, struck >>

\* A blob that exists already stays as it is.
Commit ==
  /\ pc = "commit" /\ Free
  /\ blob' = blob \cup {moving}
  /\ struck' = struck \ {moving}
  /\ pc' = after /\ moving' = NoOne /\ after' = "none"
  /\ UNCHANGED << registry, leftover, lock, stage, outcome, collector, kills >>

\* The inputs are compared and the output verified before the receipt is written.  The
\* copy of the receipt, to which nothing ever refers, is left out.
WriteReceipt ==
  /\ pc = "receipt"
  /\ \/ /\ Free
        /\ receipt' = [receipt EXCEPT ![stage] = attempts[stage]]
        /\ \/ pc' = "manifest" /\ UNCHANGED outcome
           \/ stage \in Flaky /\ Fail
     \/ stage \in Flaky /\ Fail /\ UNCHANGED receipt
  /\ UNCHANGED << status, attempts, manifest, ledger, store, lock, stage, moving, after,
                  collector, kills, struck >>

\* A manifest is written once; the one of an earlier attempt differs.
CommitManifest ==
  /\ pc = "manifest" /\ Free
  /\ \/ /\ manifest[stage] = 0
        /\ manifest' = [manifest EXCEPT ![stage] = attempts[stage]]
        /\ Put(CopyOf("manifest", stage, attempts[stage]), "ledger")
        /\ outcome' = "verified"
     \/ /\ manifest[stage] # 0
        /\ Fail /\ UNCHANGED << manifest, moving, after >>
  /\ UNCHANGED << status, attempts, receipt, ledger, store, lock, stage,
                  collector, kills, struck >>

WriteAttempt ==
  /\ pc = "ledger" /\ Free
  /\ ledger' = ledger \cup { << stage, attempts[stage] >> }
  /\ Put(CopyOf("attempt", stage, attempts[stage]), "record")
  /\ UNCHANGED << status, attempts, receipt, manifest, store, lock, stage, outcome,
                  collector, kills, struck >>

Record ==
  /\ pc = "record" /\ Free
  /\ status' = [status EXCEPT ![stage] = outcome]
  /\ pc' = "next" /\ outcome' = "none"
  /\ UNCHANGED << attempts, receipt, manifest, ledger, store, lock, stage, moving, after,
                  collector, kills, struck >>

\* The lock is taken: RuntimeError, which the engine does not catch, ends the process
\* (a staging file is removed on the way out).
LockBusy ==
  /\ Locked /\ ~ Free
  /\ Exit
  /\ UNCHANGED << registry, store, lock, stage, collector, kills, struck >>

Kill ==
  /\ pc # "idle" /\ kills < MaxKills
  /\ kills' = kills + 1
  /\ leftover' = (leftover \/ pc = "commit")
  /\ Exit
  /\ UNCHANGED << registry, blob, lock, stage, collector, struck >>

-----------------------------------------------------------------------------
(* Collectors. *)

Move(g, from, to) == gpc[g] = from /\ gpc' = [gpc EXCEPT ![g] = to]
MayWork           == Overlap \/ pc = "idle"

\* iter_digests also yields staging files, whose names are no digests: GCEntry rejects
\* them and the plan fails.
Listable == ~ leftover /\ pc # "commit"

\* plan_gc reads without the lock: first the registry, then the blob directory, and
\* the registry once more for its digest.
PlanReach(g) ==
  /\ MayWork
  /\ Move(g, "idle", "reached")
  /\ plan' = [plan EXCEPT ![g] = Plan(Live, {}, << >>)]
  /\ UNCHANGED << registry, store, lock, engine, kills, struck >>

PlanEntries(g) ==
  /\ MayWork
  /\ \/ /\ Listable
        /\ Move(g, "reached", "listed")
        /\ plan' = [plan EXCEPT ![g] = Plan(@.live \cap blob, blob, << >>)]
     \/ /\ ~ Listable
        /\ Move(g, "reached", "idle")
        /\ plan' = [plan EXCEPT ![g] = NoPlan]
  /\ UNCHANGED << registry, store, lock, engine, kills, struck >>

PlanSeal(g) ==
  /\ MayWork
  /\ Move(g, "listed", "planned")
  /\ plan' = [plan EXCEPT ![g] = Plan(@.live, @.present, registry)]
  /\ UNCHANGED << registry, store, lock, engine, kills, struck >>

\* The plan is not approved, or not applied within its 24 hours.
Discard(g) ==
  /\ Move(g, "planned", "idle")
  /\ plan' = [plan EXCEPT ![g] = NoPlan]
  /\ UNCHANGED << registry, store, lock, engine, kills, struck >>

BeginApply(g) ==
  /\ MayWork
  /\ Free
  /\ Move(g, "planned", "locked")
  /\ lock' = g
  /\ UNCHANGED << registry, store, engine, plan, kills, struck >>

\* The registry and every entry are what they were when the plan was made.
Current(g) ==
  /\ plan[g].registry = registry
  /\ Listable
  /\ plan[g].present = blob
  /\ plan[g].live = Live \cap blob

\* A refusal changes nothing.  Its operator makes another plan; a plan that is tried
\* again after a refusal is, to the store, one that was applied later.
Refuse(g) ==
  /\ gpc' = [gpc EXCEPT ![g] = "idle"]
  /\ plan' = [plan EXCEPT ![g] = NoPlan]

\* Mutant: the digest of the registry is taken for proof that the entries are right.
BugRecheck(g) ==
  /\ gpc[g] = "locked"
  /\ \/ /\ plan[g].registry = registry
        /\ gpc' = [gpc EXCEPT ![g] = "deleting"]
        /\ UNCHANGED << plan, lock >>
     \/ /\ plan[g].registry # registry
        /\ Refuse(g)
        /\ lock' = NoOne
  /\ UNCHANGED << registry, store, engine, kills, struck >>

\* Mutant: a refused plan leaves the lock behind.
BugRecheckLeaks(g) ==
  /\ gpc[g] = "locked"
  /\ \/ Current(g) /\ gpc' = [gpc EXCEPT ![g] = "deleting"] /\ UNCHANGED plan
     \/ ~ Current(g) /\ Refuse(g)
  /\ UNCHANGED << registry, store, lock, engine, kills, struck >>

Recheck(g) ==
  /\ gpc[g] = "locked"
  /\ \/ /\ Current(g)
        /\ gpc' = [gpc EXCEPT ![g] = "deleting"]
        /\ UNCHANGED << plan, lock >>
     \/ /\ ~ Current(g)
        /\ Refuse(g)
        /\ lock' = NoOne
  /\ UNCHANGED << registry, store, engine, kills, struck >>

\* run_gc(delete=True): planned and checked under the lock, without a review.
CollectNow(g) ==
  /\ MayWork
  /\ Free /\ Listable
  /\ Move(g, "idle", "deleting")
  /\ lock' = g
  /\ plan' = [plan EXCEPT ![g] = Plan(Live \cap blob, blob, << >>)]
  /\ UNCHANGED << registry, store, engine, kills, struck >>

Condemned(g) == (plan[g].present \ plan[g].live) \cap blob

\* Blobs go one after the other, in the order of their digests.
Delete(g) ==
  /\ gpc[g] = "deleting" /\ Condemned(g) # {}
  /\ LET b == CHOOSE c \in Condemned(g) : TRUE IN
       /\ blob' = blob \ {b}
       /\ struck' = IF pc = "receipt" /\ b = Out[stage] THEN struck \cup {b} ELSE struck
  /\ UNCHANGED << registry, leftover, lock, engine, collector, kills >>

EndApply(g) ==
  /\ Condemned(g) = {}
  /\ Move(g, "deleting", "idle")
  /\ plan' = [plan EXCEPT ![g] = NoPlan]
  /\ lock' = NoOne
  /\ UNCHANGED << registry, store, engine, kills, struck >>

\* A collector is killed under the lock.  A reviewed plan is still a file; the one that
\* run_gc made is gone.  (Killed while it makes a plan, a collector leaves nothing, as
\* one that discards it.)
KillCollector(g) ==
  /\ gpc[g] \in {"locked", "deleting"} /\ kills < MaxKills
  /\ kills' = kills + 1
  /\ \/ /\ plan[g].registry # << >>
        /\ gpc' = [gpc EXCEPT ![g] = "planned"]
        /\ UNCHANGED plan
     \/ /\ plan[g].registry = << >>
        /\ gpc' = [gpc EXCEPT ![g] = "idle"]
        /\ plan' = [plan EXCEPT ![g] = NoPlan]
  /\ lock' = NoOne
  /\ UNCHANGED << registry, store, engine, struck >>

-----------------------------------------------------------------------------
EngineStep ==
  \/ Begin \/ Handle \/ Copy \/ Commit \/ WriteReceipt \/ CommitManifest
  \/ WriteAttempt \/ Record \/ LockBusy

Collect(g) ==
  \/ PlanReach(g) \/ PlanEntries(g) \/ PlanSeal(g) \/ BeginApply(g)
  \/ Recheck(g) \/ Delete(g) \/ EndApply(g)

Next ==
  \/ Start \/ Leave \/ EngineStep \/ Kill
  \/ \E g \in Collector : Collect(g) \/ Discard(g) \/ CollectNow(g) \/ KillCollector(g)

Spec == Init /\ [][Next]_vars

\* A live process keeps executing, and somebody keeps planning and, every so often,
\* applies a plan.
FairSpec ==
  /\ Spec
  /\ WF_vars(EngineStep)
  /\ \A g \in Collector : WF_vars(Collect(g)) /\ SF_vars(BeginApply(g))

-----------------------------------------------------------------------------
(* Properties. *)

Status   == [Stage -> {"none", "running", "verified", "failed"}]
Attempts == [Stage -> 0 .. MaxAttempts]
Snapshot ==
  {<< >>} \cup (Status \X Attempts \X Attempts \X Attempts \X SUBSET (Stage \X Attempt))

TypeOK ==
  /\ status \in Status /\ attempts \in Attempts
  /\ receipt \in Attempts /\ manifest \in Attempts
  /\ ledger \subseteq Stage \X Attempt
  /\ blob \subseteq Blob /\ leftover \in BOOLEAN
  /\ lock \in Collector \cup {NoOne}
  /\ pc \in {"idle", "next", "handler", "copy", "commit", "receipt", "manifest",
             "ledger", "record"}
  /\ stage \in Stage /\ moving \in Blob \cup {NoOne}
  /\ after \in {"none", "receipt", "manifest", "ledger", "record"}
  /\ outcome \in {"none", "verified", "failed"}
  /\ gpc \in [Collector -> {"idle", "reached", "listed", "planned", "locked", "deleting"}]
  /\ plan \in [Collector ->
               [live : SUBSET Blob, present : SUBSET Blob, registry : Snapshot]]
  /\ kills \in 0 .. MaxKills /\ struck \subseteq Output

\* A collection never deletes what the registry reaches, however old the plan is and
\* whatever was registered while it was made, reviewed or applied.
OnlyUnreachableDeleted == [][ \A b \in blob \ blob' : b \notin Live ]_vars

\* An output that a receipt or a verified stage promises is in the store, through
\* kills, retries and failed attempts: the one way to lose it is a collection
\* between its import and its receipt.
OutputsKept ==
  \A s \in Stage :
    receipt[s] # 0 \/ status[s] = "verified" => Out[s] \in blob \cup struck

\* Collections make progress: unless a killed import has left its staging file, what
\* nothing refers to is eventually gone for good.
GarbageGoes == <>[](leftover \/ blob \subseteq Live)

-----------------------------------------------------------------------------
(* The inductive invariant. *)

\* A collector is at work on the blobs exactly while it holds the lock, and what it is
\* about to delete is out of the registry's reach for as long as it holds it.
CollectorInv ==
  \A g \in Collector :
    /\ gpc[g] \in {"locked", "deleting"} <=> lock = g
    /\ gpc[g] = "deleting" => (plan[g].present \ plan[g].live) \cap Live = {}

\* The order of the engine's writes: an attempt is counted, its output delivered, then
\* the receipt, the manifest and the verified entry written, after those of the stages
\* it is built from.
EngineInv ==
  /\ pc \notin {"idle", "next"} =>
       attempts[stage] \in Attempt /\ \A d \in DEPENDENCIES[stage] : manifest[d] # 0
  /\ pc \in {"copy", "commit"} =>
       /\ moving \in Blob
       /\ after \in {"receipt", "ledger", "record"}
       /\ after = "receipt" => moving = Out[stage]
  /\ pc = "receipt" => Out[stage] \in blob \cup struck
  /\ pc = "manifest" => receipt[stage] # 0
  /\ outcome = "verified" => receipt[stage] # 0 /\ manifest[stage] # 0
  /\ pc \in {"idle", "next"} => outcome = "none"
  /\ pc = "record" => after = "none"
  /\ pc \in {"ledger", "record"} \/ after \in {"ledger", "record"}
       => outcome \in {"verified", "failed"}
  /\ \A s \in Stage :
       /\ status[s] = "verified" => manifest[s] # 0
       /\ manifest[s] # 0 => receipt[s] # 0
       /\ receipt[s] # 0 => \A d \in DEPENDENCIES[s] : manifest[d] # 0

IInv == TypeOK /\ CollectorInv /\ EngineInv /\ OutputsKept
================================================================================
