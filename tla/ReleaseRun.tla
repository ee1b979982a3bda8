------------------------------- MODULE ReleaseRun -------------------------------
(***************************************************************************)
(* Release runs of one plan (core/scoring/release_runner, the adapter in   *)
(* cli/commands/baseline, cli/evaluation/outputs) beside the commands that *)
(* qualify it.  A run verifies the chain, records its environment once,    *)
(* and leaves one trace per problem; a killed run is resumed by another.   *)
(***************************************************************************)
EXTENDS Qualification

CONSTANTS
  Role,       \* what the plan may be: a baseline must pass, a candidate may fail
  TwoRuns     \* whether two release runs of the plan may overlap; no lock prevents it

ASSUME ReleaseAssumption ==
  /\ TwoRuns \in BOOLEAN
  /\ Role \subseteq {"baseline", "candidate"} /\ Role # {}

Trace == [state : {"absent", "torn", "whole"}, passed : BOOLEAN]
NoTrace == [state |-> "absent", passed |-> FALSE]

VARIABLES
  role,      \* of the plan
  env,       \* whether the environment evidence has been written
  trace,     \* the trace of each problem
  resume,    \* whether a command was given --resume
  measured   \* history: the configurations a formal evaluation ran under

release == << role, env, trace, resume, measured >>
vars    == << quality, release >>

Init ==
  /\ QualityInit
  /\ role \in Role
  /\ env = FALSE
  /\ trace = [p \in Problem |-> NoTrace]
  /\ resume = [c \in Cmd |-> FALSE]
  /\ measured = {}

Running == { c \in AtWork : aim[c] = 0 }

ForgetRun(c) == resume' = [resume EXCEPT ![c] = FALSE]

\* A file a run accepts: complete, and without a failure when the plan is the baseline.
Accepts(t) == t.state = "whole" /\ (role = "baseline" => t.passed)

-----------------------------------------------------------------------------

\* execute_release_plan: the chain comes first.
Start(c) == \E v \in Conf, r \in BOOLEAN :
  /\ Begin(c, 0, v) /\ (TwoRuns \/ Running = {})
  /\ resume' = [resume EXCEPT ![c] = r]
  /\ Goto(c, "verify")
  /\ UNCHANGED << gates, gpu, fresh, at, parent, prob, cites, passed, role, env, trace, measured >>

\* _write_environment_evidence: written once, and checked by a resumed run for the source
\* revision only.  An environment that is not the validated one ends the run.
Environment(c) ==
  /\ pc[c] = "begin"
  /\ \/ ~ env /\ env' = TRUE /\ Goto(c, "next")
     \/ env /\ resume[c] /\ UNCHANGED env /\ Goto(c, "next")
     \/ ~ (env /\ resume[c]) /\ UNCHANGED env /\ Goto(c, "failed")
  /\ UNCHANGED << gates, gpu, walk, prob, cites, passed, role, trace, resume, measured >>

\* Mutant: the last problem is followed by another.
BugAdvance(c) == prob' = [prob EXCEPT ![c] = @ + 1] /\ Goto(c, IF prob[c] < Problems THEN "next" ELSE "done")

Advance(c) == IF prob[c] < Problems THEN prob' = [prob EXCEPT ![c] = @ + 1] /\ Goto(c, "next")
                                    ELSE UNCHANGED prob /\ Goto(c, "done")

\* Mutant: whatever is there is accepted as the result of an earlier run.
BugExisting(c) ==
  /\ pc[c] = "next" /\ trace[prob[c]] # NoTrace
  /\ IF resume[c] THEN Advance(c)
                  ELSE UNCHANGED prob /\ Goto(c, "failed")
  /\ UNCHANGED << gates, gpu, walk, cites, passed, release >>

\* _execute_problem: a trace that is there is validated, never measured again.
Existing(c) ==
  /\ pc[c] = "next" /\ trace[prob[c]] # NoTrace
  /\ IF resume[c] /\ Accepts(trace[prob[c]]) THEN Advance(c)
                                             ELSE UNCHANGED prob /\ Goto(c, "failed")
  /\ UNCHANGED << gates, gpu, walk, cites, passed, release >>

\* Mutant: a failure found by a resumed run is measured again.
BugMissing(c) ==
  /\ pc[c] = "next" /\ ~ trace[prob[c]].passed
  /\ Goto(c, "evaluate")
  /\ UNCHANGED << gates, gpu, walk, prob, cites, passed, release >>

Missing(c) ==
  /\ pc[c] = "next" /\ trace[prob[c]] = NoTrace
  /\ Goto(c, "evaluate")
  /\ UNCHANGED << gates, gpu, walk, prob, cites, passed, release >>

Measure(c) ==
  /\ aim[c] = 0
  /\ TakeGpu(c)
  /\ measured' = measured \cup {conf[c]}
  /\ UNCHANGED << role, env, trace, resume >>

PutResult(c, state, ok) ==
  trace' = [trace EXCEPT ![prob[c]] = [state |-> state, passed |-> ok]]

\* The evaluator ends without a trace: with a failure that counts as the candidate's (the
\* compiler's, the deadline's, no trace), or with one that ends the run.
EvaluatorFails(c) ==
  /\ pc[c] = "running" /\ aim[c] = 0
  /\ gpu' = NoCmd
  /\ \/ role = "candidate" /\ Goto(c, "record")
     \/ Goto(c, "failed")
  /\ UNCHANGED << gates, walk, prob, cites, passed, release >>

OpenResult(c) ==
  /\ pc[c] = "running" /\ aim[c] = 0
  /\ PutResult(c, "torn", FALSE)
  /\ Goto(c, "writing")
  /\ UNCHANGED << gates, gpu, walk, prob, cites, passed, role, env, resume, measured >>

\* The file is complete; restoring the clocks, which comes after, may fail.
CloseResult(c) ==
  /\ pc[c] = "writing" /\ aim[c] = 0
  /\ \E ok \in BOOLEAN : PutResult(c, "whole", ok)
  /\ gpu' = NoCmd
  /\ Goto(c, "validate") \/ Goto(c, "failed")
  /\ UNCHANGED << gates, walk, prob, cites, passed, role, env, resume, measured >>

\* _write_candidate_failure: a failure for every workload, in one replacement.
RecordFailure(c) ==
  /\ pc[c] = "record"
  /\ PutResult(c, "whole", FALSE)
  /\ Goto(c, "validate")
  /\ UNCHANGED << gates, gpu, walk, prob, cites, passed, role, env, resume, measured >>

Validate(c) ==
  /\ pc[c] = "validate"
  /\ IF Accepts(trace[prob[c]]) THEN Advance(c) ELSE UNCHANGED prob /\ Goto(c, "failed")
  /\ UNCHANGED << gates, gpu, walk, cites, passed, release >>

ReleaseStep(c) ==
  \/ Start(c) \/ Environment(c) \/ Existing(c) \/ Missing(c) \/ Measure(c)
  \/ EvaluatorFails(c) \/ OpenResult(c) \/ CloseResult(c) \/ RecordFailure(c) \/ Validate(c)

Next == \E c \in Cmd :
  \/ ReleaseStep(c)
  \/ CommandEnds(c) /\ ForgetRun(c) /\ UNCHANGED << role, env, trace, measured >>
  \/ (QualifyStep(c) \/ SharedStep(c) \/ (aim[c] # 0 /\ TakeGpu(c))) /\ UNCHANGED release

Spec == Init /\ [][Next]_vars

-----------------------------------------------------------------------------

PC == Ended \cup {"verify", "hash", "evaluate", "running", "writing", "judge", "cite", "publish",
                  "begin", "next", "record", "validate"}

\* What the files, the commands and the histories may hold.
TypeOK ==
  /\ gate \in [Stage -> Gate]
  /\ qtrace \in [Measured -> [Problem -> Id]]
  /\ gpu \in Cmd \cup {NoCmd}
  /\ pc \in [Cmd -> PC]
  /\ given \in Id /\ id \in [Cmd -> Id]
  /\ aim \in [Cmd -> 0 .. Full]
  /\ conf \in [Cmd -> Conf \cup {NoConf}]
  /\ fresh \in [Cmd -> BOOLEAN]
  /\ at \in [Cmd -> Stage]
  /\ parent \in [Cmd -> Id]
  /\ prob \in [Cmd -> Problem]
  /\ cites \in [Cmd -> [Problem -> Id]]
  /\ passed \subseteq Stage \X Conf
  /\ role \in Role
  /\ env \in BOOLEAN
  /\ trace \in [Problem -> Trace]
  /\ resume \in [Cmd -> BOOLEAN]
  /\ measured \subseteq Conf

\* A run that reports success leaves an acceptable trace of every problem on the disk,
\* whichever runs before it were killed at whatever point.
DoneIsComplete ==
  ~ TwoRuns => \A c \in Cmd : pc[c] = "done" /\ aim[c] = 0 => \A p \in Problem : Accepts(trace[p])

\* What was measured, passed or failed, is the result: no later run replaces it.
ResultStays ==
  [][~ TwoRuns => \A p \in Problem : trace[p].state = "whole" => trace'[p] = trace[p]]_vars

\* Nothing is measured but under a configuration every stage has passed for, in order.
Gated == INSTANCE GatedRelease WITH Stages <- Full
ReleaseIsGated == Gated!Spec
-----------------------------------------------------------------------------
(* The inductive invariant. *)

Walking    == {"verify", "hash"}
Evaluating == {"evaluate", "running", "writing"}

\* Where a command can be, by what it aims at.
WalkOK(c) ==
  /\ pc[c] = "idle" => aim[c] = 0 /\ at[c] = Static
  /\ pc[c] # "idle" => conf[c] \in Conf
  /\ aim[c] = 0 => ~ fresh[c] /\ (pc[c] \in Walking \cup {"idle", "begin"} => prob[c] = 1)
  /\ pc[c] \in Walking => at[c] <= Target(c) /\ (fresh[c] => aim[c] \in Measured)
  /\ pc[c] = "hash" => fresh[c] \/ at[c] < Target(c)
  /\ pc[c] \in {"begin", "next", "record", "validate"} => aim[c] = 0
  /\ pc[c] \in Evaluating => aim[c] = 0 \/ (fresh[c] /\ aim[c] \in Measured)
  /\ pc[c] \in {"judge", "cite"} => fresh[c] /\ aim[c] \in Measured
  /\ pc[c] = "publish" => fresh[c]
WalkInv == \A c \in Cmd : WalkOK(c)

\* The first n stages have passed for the configuration of a command.
PassedUpTo(c, n) == \A s \in Stage : s <= n => << s, conf[c] >> \in passed

\* What a command's walk has behind it has passed for the configuration it was given.
PassedOK(c) ==
  /\ pc[c] = "verify" => PassedUpTo(c, at[c] - 1)
  /\ pc[c] = "hash" => PassedUpTo(c, at[c])
  /\ pc[c] \in Evaluating \cup {"judge", "cite", "publish"} /\ aim[c] # 0 => PassedUpTo(c, aim[c] - 1)
  /\ pc[c] \in Evaluating \cup {"begin", "next", "record", "validate"} /\ aim[c] = 0 => PassedUpTo(c, Full)

\* And a gate stands for a stage that passed.
PassedInv ==
  /\ \A s \in Stage : gate[s] # NoGate => << s, gate[s].conf >> \in passed
  /\ \A c \in Cmd : PassedOK(c)

\* What a run is about to measure has no result, what it has behind it has one.
RunOK(c) ==
  /\ pc[c] \in {"evaluate", "running", "record"} => trace[prob[c]] = NoTrace
  /\ pc[c] = "writing" => trace[prob[c]].state = "torn"
  /\ \A p \in Problem : p < prob[c] => Accepts(trace[p])

\* One run at a time.
ResultInv == ~ TwoRuns =>
  /\ \A c, d \in Running : c = d
  /\ \A c \in Running : RunOK(c)
  /\ DoneIsComplete

IInv == TypeOK /\ WalkInv /\ PassedInv /\ ResultInv
===============================================================================
