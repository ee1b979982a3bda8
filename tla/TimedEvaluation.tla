---------------------------- MODULE TimedEvaluation ----------------------------
(***************************************************************************)
(* One evaluation in its two processes: the driver, which runs the         *)
(* candidate and judges one workload after the other (eval_driver.py,      *)
(* eval_workload_*.py, eval_correctness.py, eval_timing.py, timing.py),    *)
(* and the trusted worker, which makes inputs and expected outputs and     *)
(* keeps the latter of timed calls to itself (reference_service.py).  They *)
(* talk over two pipes (reference_protocol.py); the host that started them *)
(* counts the traces (cli/evaluation/runtime.py).                          *)
(*                                                                         *)
(* The driver takes an answer from its pipe without looking at what it     *)
(* answers, and asks the next workload over the same pipes, in whatever    *)
(* state the one before left them.                                         *)
(***************************************************************************)
EXTENDS Naturals, Sequences

CONSTANTS
  Rows,        \* workloads
  Rounds,      \* correctness rounds of a workload
  Trials, Warmup, Iterations,
  Faulty,      \* workloads where the candidate, its inputs or the reference may fail
  Mortal,      \* may a process be killed?
  Nothing      \* no case, no question

Row   == 1 .. Rows
Calls == Warmup + Iterations

\* A call of the candidate: a correctness round (trial 0) or an invocation of a trial.
Case == [row : Row, trial : 0 .. Trials, iter : 0 .. Rounds + Calls]

ASSUME EvaluationAssumption ==
  /\ Rows \in Nat \ {0} /\ Rounds \in Nat \ {0} /\ Trials \in Nat \ {0}
  /\ Warmup \in Nat /\ Iterations \in Nat \ {0}
  /\ Faulty \subseteq Row
  /\ Mortal \in BOOLEAN
  /\ Nothing \notin Case

VARIABLES
  \* the driver
  dpc, row, trial, iter,
  asked,       \* the operation it waits for
  code,        \* its exit code
  traces,      \* the JSONL stream on its standard output
  records,     \* workloads with timing evidence in memory
  file,        \* workloads in performance-timing-raw.jsonl
  \* the worker
  wpc,
  pending,     \* the timed case nobody has validated
  \* the pipes
  up, down,
  \* the host
  hpc,
  \* history
  validated,   \* timed cases the worker found right
  failed       \* workloads during which something of their own went wrong

place   == << row, trial, iter >>
result  == << code, traces, records, file >>
driver  == << dpc, row, trial, iter, asked, code, traces, records, file >>
worker  == << wpc, pending >>
history == << validated, failed >>
vars == << dpc, row, trial, iter, asked, code, traces, records, file, wpc, pending,
           up, down, hpc, validated, failed >>

Init ==
  /\ dpc = "boot" /\ row = 1 /\ trial = 0 /\ iter = 0
  /\ asked = "nothing" /\ code = 0
  /\ traces = << >> /\ records = {} /\ file = {}
  /\ wpc = "loading" /\ pending = Nothing
  /\ up = << >> /\ down = << >>
  /\ hpc = "running"
  /\ validated = {} /\ failed = {}

Here == [row |-> row, trial |-> trial, iter |-> iter]
MayFail == row \in Faulty

\* What travels: a question, the outputs that follow one, an answer.
Question(op)   == [op |-> op, case |-> Here, right |-> TRUE]
Outputs(right) == [op |-> "outputs", case |-> Here, right |-> right]
Answer(q, res) == [to |-> IF q.op = "outputs" THEN "validate" ELSE q.op,
                   case |-> q.case, result |-> res]

Asks == {"correctness", "timing", "iteration", "validate", "shutdown"}

PipesOpen == dpc \notin {"reap", "exited", "dead"}

-----------------------------------------------------------------------------
(* The worker. *)

Load ==
  /\ wpc = "loading" /\ PipesOpen
  /\ wpc' \in {"ready", "gone"}
  /\ UNCHANGED << driver, pending, up, down, hpc, history >>

\* It reads the next frame.
Reads(state, ops) ==
  /\ wpc = state /\ PipesOpen
  /\ up # << >> /\ Head(up).op \in ops
  /\ up' = Tail(up)

Reply(res) == down' = Append(down, Answer(Head(up), res))

\* The inputs or the reference fail.
Unable ==
  /\ Head(up).case.row \in Faulty
  /\ \E kind \in {"inputs", "reference"} : Reply(kind)
  /\ failed' = failed \cup {Head(up).case.row}
  /\ UNCHANGED wpc

\* A case that does not fit into a frame ends the worker.
Unsendable ==
  /\ Head(up).case.row \in Faulty
  /\ wpc' = "gone"
  /\ UNCHANGED << down, failed >>

\* handle: a correctness case or the timing case, with the expected outputs.
Produce ==
  /\ Reads("ready", {"correctness", "timing"})
  /\ \/ Reply("ok") /\ UNCHANGED << wpc, failed >>
     \/ Unable
     \/ Unsendable
  /\ UNCHANGED << driver, pending, hpc, validated >>

\* Mutant: the outputs expected first are kept when a second case is issued.
BugProduceTimed ==
  /\ Reads("ready", {"iteration"})
  /\ Reply("ok")
  /\ pending' = IF pending = Nothing THEN Head(up).case ELSE pending
  /\ UNCHANGED << driver, wpc, hpc, history >>

\* handle: one timed case at a time, without the outputs, which wait for those of the
\* candidate.  They wait already when the case cannot be encoded.
ProduceTimed ==
  /\ Reads("ready", {"iteration"})
  /\ \/ pending # Nothing /\ Reply("reference") /\ UNCHANGED << wpc, pending, failed >>
     \/ /\ pending = Nothing
        /\ \/ Reply("ok") /\ pending' = Head(up).case /\ UNCHANGED << wpc, failed >>
           \/ Unable /\ pending' \in {Nothing, Head(up).case}
           \/ Unsendable /\ UNCHANGED pending
  /\ UNCHANGED << driver, hpc, validated >>

\* The header of a validation: the outputs must be next.
ExpectOutputs ==
  /\ Reads("ready", {"validate"})
  /\ wpc' = "outputs"
  /\ UNCHANGED << driver, pending, down, hpc, history >>

\* validate_timing_outputs: whatever it finds, the case is used up.  Outputs that cannot
\* be put on the worker's device end it; a comparison that raises is a refusal.
Compare ==
  /\ Reads("outputs", {"outputs"})
  /\ \/ /\ pending # Nothing /\ Head(up).right
        /\ Reply("ok")
        /\ wpc' = "ready" /\ pending' = Nothing
        /\ validated' = validated \cup {pending}
     \/ /\ pending = Nothing \/ ~ Head(up).right \/ Head(up).case.row \in Faulty
        /\ Reply("reference")
        /\ wpc' = "ready" /\ pending' = Nothing
        /\ UNCHANGED validated
     \/ /\ Head(up).case.row \in Faulty
        /\ wpc' = "gone"
        /\ UNCHANGED << pending, down, validated >>
  /\ UNCHANGED << driver, hpc, failed >>

\* Mutant: the header is refused when no outputs follow it, and what follows is served.
BugOutOfStep ==
  /\ wpc = "outputs" /\ PipesOpen
  /\ up # << >> /\ Head(up).op \in Asks
  /\ down' = Append(down, Answer([op |-> "validate", case |-> Head(up).case], "reference"))
  /\ wpc' = "ready"
  /\ UNCHANGED << driver, pending, up, hpc, history >>

\* A question where outputs should be is a ReferenceProtocolError, which ends the worker.
OutOfStep ==
  /\ Reads("outputs", Asks)
  /\ wpc' = "gone"
  /\ UNCHANGED << driver, pending, down, hpc, history >>

Shutdown ==
  /\ Reads("ready", {"shutdown"})
  /\ Reply("ok")
  /\ wpc' = "gone"
  /\ UNCHANGED << driver, pending, hpc, history >>

\* The driver's ends of the pipes are closed.
Orphan ==
  /\ wpc # "gone" /\ ~ PipesOpen
  /\ wpc' = "gone"
  /\ UNCHANGED << driver, pending, up, down, hpc, history >>

-----------------------------------------------------------------------------
(* The driver. *)

\* The orchestrator starts the worker, waits for it and becomes the driver.
Boot ==
  /\ dpc = "boot" /\ wpc # "loading"
  /\ IF wpc = "gone" THEN dpc' = "exited" /\ code' = 1
                     ELSE dpc' = "import" /\ UNCHANGED code
  /\ UNCHANGED << place, asked, traces, records, file, worker, up, down, hpc, history >>

\* The sources are reviewed, the candidate is loaded, the clocks are looked at.
Import ==
  /\ dpc = "import"
  /\ \/ dpc' = "round" /\ UNCHANGED << code, failed >>
     \/ Faulty # {} /\ dpc' \in {"hacked", "unlocked"} /\ failed' = Row /\ UNCHANGED code
     \/ Faulty # {} /\ dpc' = "close" /\ code' = 1 /\ UNCHANGED failed
  /\ UNCHANGED << place, asked, traces, records, file, worker, up, down, hpc, validated >>

\* An exception nobody catches closes the client and ends the driver.
Uncaught ==
  /\ MayFail
  /\ dpc' = "close" /\ code' = 1
  /\ UNCHANGED << place, traces >>

\* The workload's trace is printed, and the next workload begins.
Say(status, after) ==
  /\ traces' = Append(traces, [row |-> row, status |-> status])
  /\ IF row = Rows THEN UNCHANGED place ELSE row' = row + 1 /\ trial' = 0 /\ iter' = 0
  /\ dpc' = IF row = Rows THEN after ELSE IF dpc \in {"hacked", "unlocked"} THEN dpc ELSE "round"
  /\ UNCHANGED code

\* A trace with a number JSON has no form for is not printed.
Verdict(status) ==
  /\ Say(status, "records") \/ Uncaught
  /\ asked' = "nothing"
  /\ UNCHANGED << file, worker, up, hpc, validated >>

Refuse ==
  /\ \/ dpc = "hacked" /\ Say("REWARD_HACK", "close")
     \/ dpc = "unlocked" /\ Say("RUNTIME_ERROR", "close")
  /\ UNCHANGED << asked, records, file, worker, up, down, hpc, history >>

\* _request: a closed pipe is noticed when it is written to.
Ask(op, then) ==
  \/ /\ wpc # "gone"
     /\ up' = Append(up, Question(op))
     /\ dpc' = then /\ asked' = op
     /\ UNCHANGED << place, result, worker, down, hpc, history >>
  \/ /\ wpc = "gone"
     /\ Verdict("RUNTIME_ERROR")
     /\ failed' = failed \cup {row}
     /\ UNCHANGED << records, down >>

AskRound     == dpc = "round" /\ Ask("correctness", "wait")
AskTiming    == dpc = "timing" /\ Ask("timing", "wait")
AskIteration == dpc = "provide" /\ Ask("iteration", "wait")

\* The next frame from the worker, whatever it answers, or the end of the pipe.
Receive(results) ==
  /\ dpc = "wait" /\ down # << >>
  /\ Head(down).result \in results
  /\ down' = Tail(down)

EndOfPipe == dpc = "wait" /\ down = << >> /\ wpc = "gone" /\ UNCHANGED down

Hung(op) ==
  /\ asked = op /\ EndOfPipe
  /\ Verdict("RUNTIME_ERROR")
  /\ failed' = failed \cup {row}
  /\ UNCHANGED records

\* Mutant: a validation that is not answered is waited for.
BugBroken == \E op \in {"correctness", "timing", "iteration"} : Hung(op)

Broken == \E op \in {"correctness", "timing", "iteration", "validate"} : Hung(op)

\* A case arrives; one that cannot be put on the device is a failure of the channel.
Continue(at) ==
  /\ dpc' = at /\ asked' = "nothing"
  /\ UNCHANGED << place, result, worker, up, hpc, history >>

Arrives ==
  /\ Receive({"ok"})
  /\ \/ asked = "correctness" /\ Continue("compare")
     \/ asked = "timing" /\ trial' = 1 /\ iter' = 0 /\ dpc' = "provide" /\ asked' = "nothing"
        /\ UNCHANGED << row, result, worker, up, hpc, history >>
     \/ asked = "iteration" /\ Continue("call")
     \/ /\ asked \in {"correctness", "timing", "iteration"} /\ MayFail
        /\ Verdict("RUNTIME_ERROR")
        /\ failed' = failed \cup {row}
        /\ UNCHANGED records

\* _load_reference_case, _load_timing_case, and the timer's except clauses.
Fails ==
  /\ \/ /\ Receive({"inputs"}) /\ asked \in {"correctness", "timing"}
        /\ Verdict("RUNTIME_ERROR")
     \/ /\ Receive({"reference"}) /\ asked \in {"correctness", "timing"}
        /\ Verdict("INVALID_REFERENCE")
     \/ /\ Receive({"inputs", "reference"}) /\ asked = "iteration"
        /\ Verdict("RUNTIME_ERROR")
  /\ UNCHANGED << records, failed >>

\* One correctness round: the candidate is called and its outputs are compared.
Round ==
  /\ dpc = "compare"
  /\ \/ /\ iter + 1 < Rounds
        /\ iter' = iter + 1 /\ dpc' = "round"
        /\ UNCHANGED << row, trial, asked, result, worker, up, hpc, history >>
     \/ /\ iter + 1 = Rounds
        /\ iter' = iter + 1 /\ dpc' = "timing"
        /\ UNCHANGED << row, trial, asked, result, worker, up, hpc, history >>
     \/ /\ MayFail
        /\ \E status \in {"RUNTIME_ERROR", "REWARD_HACK", "INCORRECT"} : Verdict(status)
        /\ failed' = failed \cup {row}
        /\ UNCHANGED records
  /\ UNCHANGED down

\* The candidate is called with the case and its integrity is checked.  Inputs seen
\* before are refused without a call; either way the worker goes on waiting.
Call ==
  /\ dpc = "call"
  /\ \/ Continue("offer")
     \/ /\ MayFail
        /\ \E status \in {"RUNTIME_ERROR", "REWARD_HACK"} : Verdict(status)
        /\ failed' = failed \cup {row}
        /\ UNCHANGED records
  /\ UNCHANGED down

\* validate_timing_outputs: first the header, then the outputs, which are encoded only now.
Offer == dpc = "offer" /\ Ask("validate", "payload")

Payload ==
  /\ dpc = "payload"
  /\ \/ /\ wpc # "gone"
        /\ \E right \in BOOLEAN : (right \/ MayFail) /\ up' = Append(up, Outputs(right))
        /\ dpc' = "wait"
        /\ UNCHANGED << place, asked, result, worker, down, hpc, history >>
     \/ /\ wpc = "gone" \/ MayFail
        /\ Verdict("RUNTIME_ERROR")
        /\ failed' = failed \cup {row}
        /\ UNCHANGED << records, down >>

\* Mutant: the calls are counted from zero, and one more is made.
BugAdvance ==
  \/ iter < Calls /\ iter' = iter + 1 /\ dpc' = "provide" /\ UNCHANGED trial
  \/ iter >= Warmup /\ trial < Trials /\ trial' = trial + 1 /\ iter' = 0 /\ dpc' = "provide"
  \/ iter >= Warmup /\ trial = Trials /\ dpc' = "judge" /\ UNCHANGED << trial, iter >>

\* The warmup calls, then timed ones until there are enough or their time is used up.
Advance ==
  \/ iter + 1 < Calls /\ iter' = iter + 1 /\ dpc' = "provide" /\ UNCHANGED trial
  \/ iter >= Warmup /\ trial < Trials /\ trial' = trial + 1 /\ iter' = 0 /\ dpc' = "provide"
  \/ iter >= Warmup /\ trial = Trials /\ dpc' = "judge" /\ UNCHANGED << trial, iter >>

\* Mutant: a validation that is answered has been passed.
BugValidated ==
  /\ asked = "validate" /\ Receive({"ok", "inputs", "reference"})
  /\ Advance /\ asked' = "nothing"
  /\ UNCHANGED << row, result, worker, up, hpc, history >>

Validated ==
  /\ asked = "validate"
  /\ \/ /\ Receive({"ok"})
        /\ Advance /\ asked' = "nothing"
        /\ UNCHANGED << row, result, worker, up, hpc, history >>
     \/ /\ Receive({"inputs", "reference"})
        /\ Verdict("REWARD_HACK")
        /\ UNCHANGED << records, failed >>

\* Mutant: the evidence is recorded before the last integrity checks.
BugJudge ==
  /\ dpc = "judge"
  /\ records' = records \cup {row}
  /\ \/ Verdict("PASSED") /\ UNCHANGED failed
     \/ MayFail /\ Verdict("REWARD_HACK") /\ failed' = failed \cup {row}
  /\ UNCHANGED down

\* The last integrity checks, the evidence, the verdict.
Judge ==
  /\ dpc = "judge"
  /\ \/ records' = records \cup {row} /\ Verdict("PASSED") /\ UNCHANGED failed
     \/ MayFail /\ Verdict("REWARD_HACK") /\ failed' = failed \cup {row} /\ UNCHANGED records
  /\ UNCHANGED down

\* The timing evidence of all workloads becomes one file, or none.
Write ==
  /\ dpc = "records"
  /\ \/ file' = records /\ UNCHANGED code
     \/ Faulty # {} /\ records # {} /\ code' = 1 /\ UNCHANGED file
  /\ dpc' = "close"
  /\ UNCHANGED << place, asked, traces, records, worker, up, down, hpc, history >>

Close ==
  /\ dpc = "close"
  /\ \/ wpc # "gone" /\ up' = Append(up, Question("shutdown"))
        /\ dpc' = "wait" /\ asked' = "shutdown"
     \/ wpc = "gone" /\ dpc' = "reap" /\ UNCHANGED << up, asked >>
  /\ UNCHANGED << place, result, worker, down, hpc, history >>

Closed ==
  /\ asked = "shutdown"
  /\ Receive({"ok", "inputs", "reference"}) \/ EndOfPipe
  /\ dpc' = "reap" /\ asked' = "nothing"
  /\ UNCHANGED << place, result, worker, up, hpc, history >>

Reap ==
  /\ dpc = "reap" /\ wpc = "gone"
  /\ dpc' = "exited"
  /\ UNCHANGED << place, asked, result, worker, up, down, hpc, history >>

-----------------------------------------------------------------------------
(* The host. *)

\* The driver is seen to exit, what is left of its process group is killed.
HostJudge ==
  /\ hpc = "running" /\ dpc \in {"exited", "dead"}
  /\ hpc' = IF dpc = "exited" /\ code = 0 /\ Len(traces) = Rows THEN "accepted" ELSE "rejected"
  /\ wpc' = "gone"
  /\ UNCHANGED << driver, pending, up, down, history >>

\* The whole process group is killed.
HostTimeout ==
  /\ Mortal /\ hpc = "running"
  /\ hpc' = "timeout"
  /\ dpc' = "dead" /\ wpc' = "gone"
  /\ UNCHANGED << place, asked, result, pending, up, down, history >>

DriverDies ==
  /\ Mortal /\ hpc = "running" /\ dpc \notin {"exited", "dead"}
  /\ dpc' = "dead"
  /\ UNCHANGED << place, asked, result, worker, up, down, hpc, history >>

WorkerDies ==
  /\ Mortal /\ hpc = "running" /\ wpc # "gone"
  /\ wpc' = "gone"
  /\ UNCHANGED << driver, pending, up, down, hpc, history >>

Driver ==
  \/ Boot \/ Import \/ Refuse
  \/ AskRound \/ AskTiming \/ AskIteration \/ Arrives \/ Fails \/ Broken
  \/ Round \/ Call \/ Offer \/ Payload \/ Validated \/ Judge
  \/ Write \/ Close \/ Closed \/ Reap

Worker ==
  \/ Load \/ Produce \/ ProduceTimed \/ ExpectOutputs \/ Compare \/ OutOfStep
  \/ Shutdown \/ Orphan

Next == Driver \/ Worker \/ HostJudge \/ HostTimeout \/ DriverDies \/ WorkerDies

Spec == Init /\ [][Next]_vars

\* A candidate and a reference that return, in processes that are scheduled; the host's
\* timeout is not needed.
FairSpec == Spec /\ WF_vars(Driver) /\ WF_vars(Worker) /\ WF_vars(HostJudge)

-----------------------------------------------------------------------------

Status == {"PASSED", "INVALID_REFERENCE", "INCORRECT", "RUNTIME_ERROR", "REWARD_HACK"}

UpFrame   == [op : Asks \cup {"outputs"}, case : Case, right : BOOLEAN]
DownFrame == [to : Asks, case : Case, result : {"ok", "inputs", "reference"}]

\* The program counters and counters keep their ranges: no invocation beyond the calls of
\* a trial is asked for, which _variation_index would refuse.
TypeOK ==
  /\ dpc \in {"boot", "import", "hacked", "unlocked", "round", "compare", "timing", "provide",
              "call", "offer", "payload", "wait", "judge", "records", "close", "reap",
              "exited", "dead"}
  /\ row \in Row /\ trial \in 0 .. Trials /\ iter \in 0 .. Rounds + Calls
  /\ trial > 0 => iter < Calls
  /\ asked \in Asks \cup {"nothing"}
  /\ code \in {0, 1}
  /\ traces \in Seq([row : Row, status : Status])
  /\ records \subseteq Row /\ file \subseteq Row
  /\ wpc \in {"loading", "ready", "outputs", "gone"}
  /\ pending \in Case \cup {Nothing}
  /\ up \in Seq(UpFrame) /\ down \in Seq(DownFrame)
  /\ hpc \in {"running", "accepted", "rejected", "timeout"}
  /\ validated \subseteq Case /\ failed \subseteq Row

\* Nothing in a frame says what it answers, only the order of the frames does.  What the
\* driver takes for an answer to its question is one (receive_case, _validate_success_header);
\* and the outputs of a timed call, which a validation does not name (validate_timing_outputs),
\* are compared with what was expected of that very call.
AnswersMatch ==
  /\ dpc = "wait" /\ down # << >> =>
       /\ Len(down) = 1
       /\ Head(down).to = asked
       /\ asked # "shutdown" => Head(down).case = Here
  /\ wpc = "outputs" /\ up # << >> /\ Head(up).op = "outputs" => pending = Head(up).case

PassedRows == { traces[i].row : i \in { j \in DOMAIN traces : traces[j].status = "PASSED" } }

\* An evaluation that is accepted has timing evidence for the workloads that passed and for
\* no other, though evidence and traces leave the driver by different ways.
EvidenceForPassed == hpc = "accepted" => file = PassedRows

\* The abstract specification: nothing passes unmeasured, and no workload is missing.
Abstract == INSTANCE JudgedEvaluation
EvaluationIsJudged == Abstract!Spec

\* Whatever of the two processes fails, the host comes to a conclusion without its timeout.
EvaluationEnds == <>(hpc # "running")

\* trace.py:202: RUNTIME_ERROR means "Solution encountered a runtime error during
\* execution"; a workload that is given it had some failure of its own.
RuntimeErrorIsOwn ==
  \A i \in DOMAIN traces : traces[i].status = "RUNTIME_ERROR" => traces[i].row \in failed
-----------------------------------------------------------------------------
(* The inductive invariant. *)

Waits(op) == dpc = "wait" /\ asked = op
Ending  == dpc \in {"close", "reap", "exited"} \/ Waits("shutdown")
Timing  == dpc \in {"provide", "call", "offer", "payload", "judge"} \/ Waits("iteration") \/ Waits("validate")
Judging ==
  \/ dpc \in {"boot", "import", "hacked", "unlocked", "round", "compare", "timing"}
  \/ Waits("correctness") \/ Waits("timing") \/ Timing

\* The worker has read all there is; or it expects outputs, which were given up.
InStep == wpc = "ready" /\ up = << >>
HeaderOnly ==
  \/ wpc = "ready" /\ Len(up) = 1 /\ up[1].op = "validate"
  \/ wpc = "outputs" /\ up = << >>

\* What the worker has yet to read while it is waited for.
QuestionComing ==
  \/ wpc \in {"ready", "outputs"} /\ Len(up) = 1 /\ up[1] = Question(asked)
  \/ wpc = "ready" /\ Len(up) = 2 /\ up[1].op = "validate" /\ up[2] = Question(asked)
OutputsComing ==
  /\ pending = Here
  /\ \/ wpc = "ready" /\ Len(up) = 2 /\ up[1].op = "validate" /\ up[2] \in {Outputs(TRUE), Outputs(FALSE)}
     \/ wpc = "outputs" /\ Len(up) = 1 /\ up[1] \in {Outputs(TRUE), Outputs(FALSE)}
Answered ==
  /\ Len(down) = 1 /\ down[1].to = asked /\ down[1].case = Here
  /\ wpc # "gone" => InStep /\ (asked = "iteration" /\ down[1].result = "ok" => pending = Here)

\* The pipes and the worker, by where the driver is.
ChannelInv ==
  /\ dpc \notin {"wait", "dead"} => down = << >>
  /\ dpc = "wait" => asked \in Asks
  /\ dpc = "payload" => asked = "validate"
  /\ dpc = "wait" /\ down # << >> => Answered
  /\ wpc = "loading" => dpc \in {"boot", "dead"}
  /\ dpc = "boot" => up = << >> /\ wpc # "outputs"
  /\ wpc # "gone" =>
       /\ dpc = "import" => InStep
       /\ dpc \in {"hacked", "unlocked", "round", "compare", "timing", "provide", "judge", "records", "close"}
            => InStep \/ HeaderOnly
       /\ dpc \in {"call", "offer"} => InStep /\ pending = Here
       /\ dpc = "payload" => HeaderOnly /\ pending = Here
       /\ dpc = "wait" /\ down = << >> => IF asked = "validate" THEN OutputsComing ELSE QuestionComing

\* Where the driver is among the calls of a workload.
PlaceInv ==
  /\ dpc \in {"boot", "import", "hacked", "unlocked", "timing"} \/ Waits("timing") => trial = 0
  /\ dpc \in {"round", "compare"} \/ Waits("correctness") => trial = 0 /\ iter < Rounds
  /\ dpc \in {"boot", "import", "hacked", "unlocked"} => iter = 0 /\ records = {}
  /\ Timing => trial \in 1 .. Trials
  /\ dpc = "judge" => trial = Trials /\ iter >= Warmup
  /\ Judging => row = Len(traces) + 1

EvidenceInv ==
  /\ code = 0 => records = PassedRows
  /\ Ending /\ code = 0 => file = records
  /\ ~ Ending /\ dpc # "dead" => code = 0 /\ file = {}
  /\ hpc # "running" => dpc \in {"exited", "dead"}
  /\ hpc = "accepted" => dpc = "exited" /\ code = 0

\* What has been validated of the workload being judged: all calls up to where the driver is.
HereValidated == dpc = "judge" \/ (Waits("validate") /\ down # << >> /\ down[1].result = "ok")
Invoked(t, i) == [row |-> row, trial |-> t, iter |-> i]
ValidatedInv ==
  /\ \A c \in validated : c.trial > 0
  /\ Judging =>
       /\ \A c \in validated : /\ c.row <= row
                               /\ c.row = row => c.trial <= trial
                               /\ c.row = row /\ c.trial = trial =>
                                    c.iter < iter \/ (c.iter = iter /\ HereValidated)
       /\ \A t \in 1 .. trial - 1 : \E n \in Warmup + 1 .. Calls : \A i \in 0 .. n - 1 : Invoked(t, i) \in validated
       /\ trial > 0 => \A i \in 0 .. iter - 1 : Invoked(trial, i) \in validated
       /\ HereValidated => Here \in validated

\* What the worker reads next, also when nobody waits any longer.
OutputsInv == wpc = "outputs" /\ up # << >> /\ up[1].op = "outputs" => pending = up[1].case

IInv == TypeOK /\ ChannelInv /\ OutputsInv /\ PlaceInv /\ EvidenceInv /\ ValidatedInv
===============================================================================
