----------------------------- MODULE Qualification -----------------------------
(***************************************************************************)
(* The three gates before a release (core/scoring/release_qualification,   *)
(* core/bench/batch_gpu_qualification): every command that qualifies a     *)
(* stage walks the chain of gates from the first, evaluates every problem  *)
(* when the stage has no gate yet, and publishes one.  Commands overlap    *)
(* and die; no lock keeps two of them apart but the GPU's.                 *)
(*                                                                         *)
(* A file is identified by the command that wrote it: gates carry the      *)
(* time, traces the measured values, so no two write the same bytes.       *)
(***************************************************************************)
EXTENDS Naturals

CONSTANTS
  Cmd,        \* processes of the command line, used for one command after the other
  NoCmd,
  Conf,       \* what commands may disagree on and a gate is bound to: device and timeout
  NoConf,
  Problems,   \* how many problems the plan has
  MaxCmds     \* bound: commands given

ASSUME QualificationAssumption ==
  /\ NoCmd \notin Cmd /\ NoConf \notin Conf
  /\ Problems \in Nat \ {0} /\ MaxCmds \in Nat

Static == 1
Canary == 2
Full   == 3
Stage    == Static .. Full
Measured == Canary .. Full
Problem  == 1 .. Problems

Id == 0 .. MaxCmds

\* A trace is the id of the command that wrote it; 0 when it is missing, torn or not passing,
\* which no check tells apart.
Gate == [by : Id, conf : Conf \cup {NoConf}, parent : Id, cites : [Problem -> Id]]
NoGate == [by |-> 0, conf |-> NoConf, parent |-> 0, cites |-> [p \in Problem |-> 0]]

VARIABLES
  gate,    \* the gate of each stage
  qtrace,  \* the trace of each problem, per stage
  gpu,     \* who holds the evaluation lock
  pc,      \* where each process is
  given,   \* how many commands were given
  id,      \* which of them the process runs
  aim,     \* the stage it qualifies; 0 for the release run
  conf,    \* the configuration it was given
  fresh,   \* it found no gate, and has not published one
  at,      \* the stage its walk has come to
  parent,  \* the hash it took of the gate before that
  prob,    \* the problem it has come to
  cites,   \* the receipts it has collected
  passed   \* history: the stages a gate was published for, and for what configuration

gates   == << gate, qtrace >>
walk    == << given, id, aim, conf, fresh, at, parent >>
quality == << gate, qtrace, gpu, pc, given, id, aim, conf, fresh, at, parent, prob, cites, passed >>

QualityInit ==
  /\ gate = [s \in Stage |-> NoGate]
  /\ qtrace = [s \in Measured |-> [p \in Problem |-> 0]]
  /\ gpu = NoCmd
  /\ pc = [c \in Cmd |-> "idle"]
  /\ given = 0
  /\ id = [c \in Cmd |-> 0]
  /\ aim = [c \in Cmd |-> 0]
  /\ conf = [c \in Cmd |-> NoConf]
  /\ fresh = [c \in Cmd |-> FALSE]
  /\ at = [c \in Cmd |-> Static]
  /\ parent = [c \in Cmd |-> 0]
  /\ prob = [c \in Cmd |-> 1]
  /\ cites = [c \in Cmd |-> [p \in Problem |-> 0]]
  /\ passed = {}

Goto(c, to) == pc' = [pc EXCEPT ![c] = to]

Ended == {"idle", "done", "failed"}
AtWork == { c \in Cmd : pc[c] \notin Ended }

-----------------------------------------------------------------------------
(* The walk along the chain. *)

Begin(c, s, v) ==
  /\ pc[c] = "idle" /\ given < MaxCmds
  /\ given' = given + 1
  /\ id' = [id EXCEPT ![c] = given + 1]
  /\ aim' = [aim EXCEPT ![c] = s]
  /\ conf' = [conf EXCEPT ![c] = v]

\* Mutant: a stage is qualified again although its gate is there.
BugQualify(c) == \E s \in Stage, v \in Conf :
  /\ Begin(c, s, v)
  /\ fresh' = [fresh EXCEPT ![c] = TRUE]
  /\ Goto(c, IF s = Static THEN "publish" ELSE "verify")
  /\ UNCHANGED << gates, gpu, at, parent, prob, cites, passed >>

\* run_release_qualification: a gate that is there is verified and never replaced.
Qualify(c) == \E s \in Stage, v \in Conf :
  /\ Begin(c, s, v)
  /\ fresh' = [fresh EXCEPT ![c] = gate[s] = NoGate]
  /\ Goto(c, IF gate[s] = NoGate /\ s = Static THEN "publish" ELSE "verify")
  /\ UNCHANGED << gates, gpu, at, parent, prob, cites, passed >>

\* Mutant: the configuration is not compared.
BugMatches(c, s) ==
  /\ gate[s] # NoGate /\ gate[s].parent = parent[c]
  /\ s \in Measured => \A p \in Problem :
       gate[s].cites[p] = qtrace[s][p] /\ qtrace[s][p] # 0

\* _verify_gate of one stage: what the gate is bound to, its parent, and its receipts, whose
\* traces are loaded again.
Matches(c, s) ==
  /\ gate[s] # NoGate /\ gate[s].conf = conf[c] /\ gate[s].parent = parent[c]
  /\ s \in Measured => \A p \in Problem :
       gate[s].cites[p] = qtrace[s][p] /\ qtrace[s][p] # 0

\* The stage the walk ends at.
Target(c) == IF aim[c] = 0 THEN Full ELSE IF fresh[c] THEN aim[c] - 1 ELSE aim[c]

Verify(c) ==
  /\ pc[c] = "verify"
  /\ Goto(c, IF ~ Matches(c, at[c]) THEN "failed"
             ELSE IF at[c] < Target(c) \/ fresh[c] THEN "hash"
             ELSE IF aim[c] = 0 THEN "begin" ELSE "done")
  /\ UNCHANGED << gates, gpu, walk, prob, cites, passed >>

\* The parent is hashed after it was verified, from whatever is on the disk by then.
Hash(c) ==
  /\ pc[c] = "hash"
  /\ parent' = [parent EXCEPT ![c] = gate[at[c]].by]
  /\ at' = [at EXCEPT ![c] = @ + 1]
  /\ Goto(c, IF at[c] < Target(c) THEN "verify" ELSE "evaluate")
  /\ UNCHANGED << gates, gpu, given, id, aim, conf, fresh, prob, cites, passed >>

-----------------------------------------------------------------------------
(* One evaluation, shared with the release run. *)

\* native_gpu_execution: the lock covers the trace's writing; who waits too long fails.
TakeGpu(c) ==
  /\ pc[c] = "evaluate" /\ gpu = NoCmd
  /\ gpu' = c /\ Goto(c, "running")
  /\ UNCHANGED << gates, walk, prob, cites, passed >>

GpuTimeout(c) ==
  /\ pc[c] = "evaluate" /\ gpu # NoCmd
  /\ Goto(c, "failed")
  /\ UNCHANGED << gates, gpu, walk, prob, cites, passed >>

PutTrace(c, n) == qtrace' = [qtrace EXCEPT ![aim[c]] = [@ EXCEPT ![prob[c]] = n]]

\* Compilation fails, no trace comes, the time is over: no trace is written.
Fails(c) ==
  /\ pc[c] = "running" /\ aim[c] # 0
  /\ gpu' = NoCmd /\ Goto(c, "failed")
  /\ UNCHANGED << gates, walk, prob, cites, passed >>

\* write_trace_output opens the file for writing, which empties it ...
OpenTrace(c) ==
  /\ pc[c] = "running" /\ aim[c] # 0
  /\ PutTrace(c, 0)
  /\ Goto(c, "writing")
  /\ UNCHANGED << gate, gpu, walk, prob, cites, passed >>

\* ... and fills it.  With every workload passed the exit code is 0; giving the GPU back may
\* fail.
CloseTrace(c) ==
  /\ pc[c] = "writing" /\ aim[c] # 0
  /\ \/ PutTrace(c, id[c]) /\ (Goto(c, "judge") \/ Goto(c, "failed"))
     \/ UNCHANGED qtrace /\ Goto(c, "failed")
  /\ gpu' = NoCmd
  /\ UNCHANGED << gate, walk, prob, cites, passed >>

\* _verify_trace loads the file, whoever wrote it last.
Judge(c) ==
  /\ pc[c] = "judge"
  /\ Goto(c, IF qtrace[aim[c]][prob[c]] # 0 THEN "cite" ELSE "failed")
  /\ UNCHANGED << gates, gpu, walk, prob, cites, passed >>

\* The receipt hashes the file once more.
Cite(c) ==
  /\ pc[c] = "cite"
  /\ cites' = [cites EXCEPT ![c] = [@ EXCEPT ![prob[c]] = qtrace[aim[c]][prob[c]]]]
  /\ IF prob[c] < Problems THEN prob' = [prob EXCEPT ![c] = @ + 1] /\ Goto(c, "evaluate")
                           ELSE UNCHANGED prob /\ Goto(c, "publish")
  /\ UNCHANGED << gates, gpu, walk, passed >>

\* The gate is written whole, over one that another command may have published meanwhile; then
\* the chain is walked from the start.
Publish(c) ==
  /\ pc[c] = "publish"
  /\ gate' = [gate EXCEPT ![aim[c]] = [by |-> id[c], conf |-> conf[c], parent |-> parent[c], cites |-> cites[c]]]
  /\ passed' = passed \cup {<< aim[c], conf[c] >>}
  /\ fresh' = [fresh EXCEPT ![c] = FALSE]
  /\ at' = [at EXCEPT ![c] = Static]
  /\ parent' = [parent EXCEPT ![c] = 0]
  /\ Goto(c, "verify")
  /\ UNCHANGED << qtrace, gpu, given, id, aim, conf, prob, cites >>

Forget(c) ==
  /\ Goto(c, "idle")
  /\ id' = [id EXCEPT ![c] = 0]
  /\ aim' = [aim EXCEPT ![c] = 0]
  /\ conf' = [conf EXCEPT ![c] = NoConf]
  /\ fresh' = [fresh EXCEPT ![c] = FALSE]
  /\ at' = [at EXCEPT ![c] = Static]
  /\ parent' = [parent EXCEPT ![c] = 0]
  /\ prob' = [prob EXCEPT ![c] = 1]
  /\ cites' = [cites EXCEPT ![c] = [p \in Problem |-> 0]]

Exit(c) ==
  /\ pc[c] \in {"done", "failed"}
  /\ Forget(c)
  /\ UNCHANGED << gates, gpu, given, passed >>

\* SIGKILL: the kernel frees the lock, files stay as they are.
Kill(c) ==
  /\ c \in AtWork
  /\ Forget(c)
  /\ gpu' = IF gpu = c THEN NoCmd ELSE gpu
  /\ UNCHANGED << gates, given, passed >>

QualifyStep(c) ==
  \/ Qualify(c) \/ Hash(c) \/ Fails(c) \/ OpenTrace(c) \/ CloseTrace(c)
  \/ Judge(c) \/ Cite(c) \/ Publish(c)

\* What a qualifying command and a release run have in common.
SharedStep(c) == Verify(c) \/ GpuTimeout(c)

CommandEnds(c) == Exit(c) \/ Kill(c)

-----------------------------------------------------------------------------

\* Who builds a gate.
Builders == { c \in AtWork : fresh[c] }

\* The chain on the disk verifies for a configuration.
ChainHolds(v) ==
  /\ \A s \in Stage : gate[s] # NoGate /\ gate[s].conf = v
  /\ gate[Static].parent = 0
  /\ \A s \in Measured :
       /\ gate[s].parent = gate[s - 1].by
       /\ \A p \in Problem : gate[s].cites[p] = qtrace[s][p] /\ qtrace[s][p] # 0

\* A chain that verifies, with no stage being built, verifies from then on: later commands
\* only look at it, whatever they are and wherever they are killed.
QualifiedStaysQualified ==
  [][\A v \in Conf : ChainHolds(v) /\ Builders = {} => ChainHolds(v)' /\ Builders' = {}]_quality
===============================================================================
