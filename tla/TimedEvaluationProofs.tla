------------------------- MODULE TimedEvaluationProofs -------------------------
(***************************************************************************)
(* What holds of TimedEvaluation for any number of workloads, rounds,      *)
(* trials and calls, and whichever process fails.  The inductive invariant *)
(* is at the end of TimedEvaluation.  The driver's actions are first       *)
(* regrouped by what they do to the pipes (DriverSteps): many ways lead to *)
(* the same verdict.                                                       *)
(***************************************************************************)
EXTENDS TimedEvaluation, SequenceTheorems, TLAPS

USE EvaluationAssumption
USE DEF place, result, driver, worker, history, vars, Row, Calls, Asks

-----------------------------------------------------------------------------
(* What a step of the driver is. *)

Sends(op, then) ==
  /\ wpc # "gone"
  /\ up' = Append(up, Question(op))
  /\ dpc' = then /\ asked' = op
  /\ UNCHANGED << place, result, worker, down, hpc, history >>

SendRound     == dpc = "round" /\ Sends("correctness", "wait")
SendTiming    == dpc = "timing" /\ Sends("timing", "wait")
SendIteration == dpc = "provide" /\ Sends("iteration", "wait")
SendHeader    == dpc = "offer" /\ Sends("validate", "payload")

SendOutputs ==
  /\ dpc = "payload" /\ wpc # "gone"
  /\ \E right \in BOOLEAN : up' = Append(up, Outputs(right))
  /\ dpc' = "wait"
  /\ UNCHANGED << place, asked, result, worker, down, hpc, history >>

GetRound == Receive({"ok"}) /\ asked = "correctness" /\ Continue("compare")
GetTiming ==
  /\ Receive({"ok"}) /\ asked = "timing"
  /\ trial' = 1 /\ iter' = 0 /\ dpc' = "provide" /\ asked' = "nothing"
  /\ UNCHANGED << row, result, worker, up, hpc, history >>
GetCall == Receive({"ok"}) /\ asked = "iteration" /\ Continue("call")

RoundOn ==
  /\ dpc = "compare" /\ iter' = iter + 1
  /\ \/ iter + 1 < Rounds /\ dpc' = "round"
     \/ iter + 1 = Rounds /\ dpc' = "timing"
  /\ UNCHANGED << row, trial, asked, result, worker, up, down, hpc, history >>

CallOn == dpc = "call" /\ Continue("offer") /\ UNCHANGED down

NextCall ==
  /\ asked = "validate" /\ Receive({"ok"})
  /\ Advance /\ asked' = "nothing"
  /\ UNCHANGED << row, result, worker, up, hpc, history >>

\* The workload under way is judged.
Judgement(status) ==
  /\ Verdict(status)
  /\ Judging /\ dpc \notin {"boot", "import", "hacked", "unlocked"}
  /\ down' = << >> /\ (wpc = "gone" \/ InStep \/ HeaderOnly)
  /\ records' = IF status = "PASSED" THEN records \cup {row} ELSE records
  /\ status = "PASSED" => dpc = "judge"
  /\ failed' \subseteq failed \cup {row}

DriverStep ==
  \/ Boot \/ Import \/ Refuse
  \/ SendRound \/ SendTiming \/ SendIteration \/ SendHeader \/ SendOutputs
  \/ GetRound \/ GetTiming \/ GetCall \/ RoundOn \/ CallOn \/ NextCall
  \/ \E status \in Status : Judgement(status)
  \/ Write \/ Close \/ Closed \/ Reap

-----------------------------------------------------------------------------
(* The pipes. *)

\* An empty pipe and a pipe of length zero are the same.
LEMMA Empty ==
  ASSUME NEW S, NEW s \in Seq(S)
  PROVE  s = << >> <=> Len(s) = 0
BY EmptySeq

\* What is taken from a pipe is its first frame; the others move up.
LEMMA Taken ==
  ASSUME NEW S, NEW s \in Seq(S), s # << >>
  PROVE  /\ Head(s) = s[1] /\ s[1] \in S /\ Len(s) \in Nat \ {0}
         /\ Tail(s) \in Seq(S) /\ Len(Tail(s)) = Len(s) - 1
         /\ \A i \in 1 .. Len(s) - 1 : Tail(s)[i] = s[i + 1]
         /\ Len(s) = 1 => Tail(s) = << >>
BY HeadTailProperties, EmptySeq, ElementOfSeq

\* What is put into a pipe is its last frame.
LEMMA Put ==
  ASSUME NEW S, NEW s \in Seq(S), NEW x \in S
  PROVE  /\ Append(s, x) \in Seq(S) /\ Append(s, x) # << >>
         /\ Len(s) \in Nat /\ Len(Append(s, x)) = Len(s) + 1
         /\ \A i \in 1 .. Len(s) : Append(s, x)[i] = s[i]
         /\ Append(s, x)[Len(s) + 1] = x
BY AppendProperties

\* What the driver sends.
LEMMA Sent ==
  ASSUME TypeOK
  PROVE  /\ Here \in Case
         /\ \A op \in Asks : Question(op) \in UpFrame /\ Question(op).op = op
         /\ \A r \in BOOLEAN : Outputs(r) \in UpFrame /\ Outputs(r).op = "outputs" /\ Outputs(r).case = Here
BY DEF TypeOK, Here, Case, Question, Outputs, UpFrame

\* What it takes is the only answer there is, to its own question.
LEMMA Received ==
  ASSUME TypeOK, ChannelInv, NEW results, Receive(results)
  PROVE  /\ dpc = "wait" /\ down # << >> /\ Answered /\ down' = << >>
         /\ down[1].result \in results /\ (wpc = "gone" \/ InStep)
<1>1. dpc = "wait" /\ down # << >> /\ Answered /\ Head(down).result \in results /\ down' = Tail(down)
  BY DEF Receive, ChannelInv
<1>2. down \in Seq(DownFrame)
  BY DEF TypeOK
<1>3. Head(down) = down[1] /\ (Len(down) = 1 => Tail(down) = << >>)
  BY <1>1, <1>2, Taken
<1> QED
  BY <1>1, <1>3 DEF Answered

-----------------------------------------------------------------------------
(* Every step of the driver is one of these. *)

\* Every step of the driver sends, receives, goes on, or judges the workload (eval_driver.py,
\* eval_workload_runner.py): the ways to the same verdict become one.
LEMMA DriverSteps ==
  ASSUME TypeOK, ChannelInv, Driver
  PROVE  DriverStep
<1> USE DEF DriverStep
<1>a. ASSUME NEW status \in Status, Verdict(status), status # "PASSED",
             Judging, dpc \notin {"boot", "import", "hacked", "unlocked"},
             down' = << >>, wpc = "gone" \/ InStep \/ HeaderOnly,
             UNCHANGED records, failed' \subseteq failed \cup {row}
      PROVE  DriverStep
  BY <1>a DEF Judgement
<1>b. dpc # "wait" /\ dpc # "dead" => down = << >>
  BY DEF ChannelInv
<1>c. "RUNTIME_ERROR" \in Status /\ "RUNTIME_ERROR" # "PASSED"
  BY DEF Status
<1>1. CASE AskRound
  <2>1. CASE ~ SendRound
    <3>1. /\ Verdict("RUNTIME_ERROR") /\ failed' = failed \cup {row} /\ UNCHANGED << records, down >>
          /\ wpc = "gone" /\ dpc = "round"
      BY <1>1, <2>1 DEF AskRound, Ask, SendRound, Sends
    <3> QED
      BY <3>1, <1>a, <1>b, <1>c DEF Judging
  <2> QED
    BY <2>1
<1>2. CASE AskTiming
  <2>1. CASE ~ SendTiming
    <3>1. /\ Verdict("RUNTIME_ERROR") /\ failed' = failed \cup {row} /\ UNCHANGED << records, down >>
          /\ wpc = "gone" /\ dpc = "timing"
      BY <1>2, <2>1 DEF AskTiming, Ask, SendTiming, Sends
    <3> QED
      BY <3>1, <1>a, <1>b, <1>c DEF Judging
  <2> QED
    BY <2>1
<1>3. CASE AskIteration
  <2>1. CASE ~ SendIteration
    <3>1. /\ Verdict("RUNTIME_ERROR") /\ failed' = failed \cup {row} /\ UNCHANGED << records, down >>
          /\ wpc = "gone" /\ dpc = "provide"
      BY <1>3, <2>1 DEF AskIteration, Ask, SendIteration, Sends
    <3> QED
      BY <3>1, <1>a, <1>b, <1>c DEF Judging, Timing
  <2> QED
    BY <2>1
<1>4. CASE Offer
  <2>1. CASE ~ SendHeader
    <3>1. /\ Verdict("RUNTIME_ERROR") /\ failed' = failed \cup {row} /\ UNCHANGED << records, down >>
          /\ wpc = "gone" /\ dpc = "offer"
      BY <1>4, <2>1 DEF Offer, Ask, SendHeader, Sends
    <3> QED
      BY <3>1, <1>a, <1>b, <1>c DEF Judging, Timing
  <2> QED
    BY <2>1
<1>5. CASE Payload
  <2>1. CASE ~ SendOutputs
    <3>1. /\ Verdict("RUNTIME_ERROR") /\ failed' = failed \cup {row} /\ UNCHANGED << records, down >>
          /\ dpc = "payload"
      BY <1>5, <2>1 DEF Payload, SendOutputs
    <3>2. wpc = "gone" \/ HeaderOnly
      BY <3>1 DEF ChannelInv
    <3> QED
      BY <3>1, <3>2, <1>a, <1>b, <1>c DEF Judging, Timing
  <2> QED
    BY <2>1
<1>6. CASE Arrives
  <2>1. dpc = "wait" /\ down' = << >> /\ (wpc = "gone" \/ InStep)
    BY <1>6, Received DEF Arrives
  <2>2. CASE GetRound \/ GetTiming \/ GetCall
    BY <2>2
  <2>3. CASE ~ (GetRound \/ GetTiming \/ GetCall)
    <3>1. /\ Verdict("RUNTIME_ERROR") /\ failed' = failed \cup {row} /\ UNCHANGED records
          /\ asked \in {"correctness", "timing", "iteration"}
      BY <1>6, <2>3 DEF Arrives, GetRound, GetTiming, GetCall
    <3> QED
      BY <2>1, <3>1, <1>a, <1>c DEF Judging, Timing, Waits
  <2> QED
    BY <2>2, <2>3
<1>7. CASE Fails
  <2>1. dpc = "wait" /\ down' = << >> /\ (wpc = "gone" \/ InStep)
    BY <1>7, Received DEF Fails
  <2>2. asked \in {"correctness", "timing", "iteration"} /\ UNCHANGED << records, failed >>
    BY <1>7 DEF Fails
  <2>3. \E status \in {"RUNTIME_ERROR", "INVALID_REFERENCE"} : Verdict(status)
    BY <1>7 DEF Fails
  <2> QED
    BY <2>1, <2>2, <2>3, <1>a DEF Judging, Timing, Waits, Status
<1>8. CASE Broken
  <2>1. dpc = "wait" /\ down' = << >> /\ wpc = "gone" /\ asked \in {"correctness", "timing", "iteration", "validate"}
    BY <1>8 DEF Broken, Hung, EndOfPipe
  <2>2. Verdict("RUNTIME_ERROR") /\ failed' = failed \cup {row} /\ UNCHANGED records
    BY <1>8 DEF Broken, Hung
  <2> QED
    BY <2>1, <2>2, <1>a, <1>c DEF Judging, Timing, Waits
<1>9. CASE Round
  <2>1. CASE RoundOn
    BY <2>1
  <2>2. CASE ~ RoundOn
    <3>1. \E status \in {"RUNTIME_ERROR", "REWARD_HACK", "INCORRECT"} : Verdict(status)
      BY <1>9, <2>2 DEF Round, RoundOn
    <3>2. dpc = "compare" /\ failed' = failed \cup {row} /\ UNCHANGED << records, down >>
      BY <1>9, <2>2 DEF Round, RoundOn
    <3>3. wpc = "gone" \/ InStep \/ HeaderOnly
      BY <3>2 DEF ChannelInv
    <3> QED
      BY <3>1, <3>2, <3>3, <1>a, <1>b DEF Judging, Status
  <2> QED
    BY <2>1, <2>2
<1>10. CASE Call
  <2>1. CASE CallOn
    BY <2>1
  <2>2. CASE ~ CallOn
    <3>1. \E status \in {"RUNTIME_ERROR", "REWARD_HACK"} : Verdict(status)
      BY <1>10, <2>2 DEF Call, CallOn
    <3>2. dpc = "call" /\ failed' = failed \cup {row} /\ UNCHANGED << records, down >>
      BY <1>10, <2>2 DEF Call, CallOn
    <3>3. wpc = "gone" \/ InStep
      BY <3>2 DEF ChannelInv
    <3> QED
      BY <3>1, <3>2, <3>3, <1>a, <1>b DEF Judging, Timing, Status
  <2> QED
    BY <2>1, <2>2
<1>11. CASE Validated
  <2>1. CASE NextCall
    BY <2>1
  <2>2. CASE ~ NextCall
    <3>1. asked = "validate" /\ Receive({"inputs", "reference"}) /\ Verdict("REWARD_HACK") /\ UNCHANGED << records, failed >>
      BY <1>11, <2>2 DEF Validated, NextCall
    <3>2. dpc = "wait" /\ down' = << >> /\ (wpc = "gone" \/ InStep)
      BY <3>1, Received
    <3> QED
      BY <3>1, <3>2, <1>a DEF Judging, Timing, Waits, Status
  <2> QED
    BY <2>1, <2>2
<1>12. CASE Judge
  <2>1. dpc = "judge" /\ UNCHANGED down /\ failed' \subseteq failed \cup {row}
    BY <1>12 DEF Judge
  <2>2. wpc = "gone" \/ InStep \/ HeaderOnly
    BY <2>1 DEF ChannelInv
  <2>3. CASE records' = records \cup {row} /\ Verdict("PASSED")
    BY <2>1, <2>2, <2>3, <1>b DEF Judgement, Judging, Timing, Status
  <2>4. CASE Verdict("REWARD_HACK") /\ UNCHANGED records
    BY <2>1, <2>2, <2>4, <1>a, <1>b DEF Judging, Timing, Status
  <2> QED
    BY <1>12, <2>3, <2>4 DEF Judge
<1> QED
  BY <1>1, <1>2, <1>3, <1>4, <1>5, <1>6, <1>7, <1>8, <1>9, <1>10, <1>11, <1>12 DEF Driver

Record(status) == [row |-> row, status |-> status]

\* What saying a verdict does.
Said(status) ==
  /\ traces' = Append(traces, Record(status)) /\ UNCHANGED code
  /\ \/ row = Rows /\ dpc' = "records" /\ UNCHANGED place
     \/ row # Rows /\ dpc' = "round" /\ row' = row + 1 /\ trial' = 0 /\ iter' = 0

\* A verdict is printed and the next workload begins, or the driver gives up.
LEMMA Judged ==
  ASSUME NEW status, Judgement(status)
  PROVE  /\ \/ Said(status)
            \/ dpc' = "close" /\ code' = 1 /\ UNCHANGED << place, traces >>
         /\ asked' = "nothing"
         /\ UNCHANGED << file, worker, up, hpc, validated >>
BY DEF Judgement, Verdict, Say, Uncaught, Said, Record

-----------------------------------------------------------------------------
(* The worker reads and answers. *)

\* What the worker reads is the first frame; what is left is the rest.
LEMMA Reading ==
  ASSUME TypeOK, NEW state, NEW ops, Reads(state, ops)
  PROVE  /\ wpc = state /\ PipesOpen /\ up # << >> /\ Head(up) = up[1] /\ up[1] \in UpFrame
         /\ up[1].op \in ops /\ up' = Tail(up) /\ up' \in Seq(UpFrame)
         /\ Len(up) \in Nat \ {0} /\ Len(up') = Len(up) - 1
         /\ \A i \in 1 .. Len(up) - 1 : up'[i] = up[i + 1]
         /\ Len(up) = 1 => up' = << >>
<1>1. up \in Seq(UpFrame) /\ up # << >>
  BY DEF TypeOK, Reads
<1> QED
  BY <1>1, Taken DEF Reads

\* What the worker answers is the last frame of the pipe.
LEMMA Replying ==
  ASSUME TypeOK, up # << >>, NEW res \in {"ok", "inputs", "reference"}, Reply(res)
  PROVE  /\ down' \in Seq(DownFrame) /\ down' # << >> /\ Len(down) \in Nat /\ Len(down') = Len(down) + 1
         /\ Answer(up[1], res) \in DownFrame
         /\ down'[Len(down) + 1] = Answer(up[1], res)
<1>1. up \in Seq(UpFrame) /\ down \in Seq(DownFrame)
  BY DEF TypeOK
<1>2. Head(up) = up[1] /\ up[1] \in UpFrame
  BY <1>1, Taken
<1>3. Answer(up[1], res) \in DownFrame
  BY <1>2 DEF Answer, UpFrame, DownFrame
<1> QED
  BY <1>1, <1>2, <1>3, Put DEF Reply

-----------------------------------------------------------------------------
(* Types. *)

HostMoves   == HostJudge \/ HostTimeout \/ DriverDies \/ WorkerDies

\* A step is the driver's, the worker's, or something the host or the system does.
LEMMA Steps ==
  ASSUME TypeOK, ChannelInv, [Next]_vars
  PROVE  UNCHANGED vars \/ DriverStep \/ Worker \/ HostMoves
BY DriverSteps DEF Next, HostMoves

\* Every step keeps the types; the counters stay below their bounds because of the place.
LEMMA TypeStep ==
  ASSUME TypeOK, ChannelInv, PlaceInv, [Next]_vars
  PROVE  TypeOK'
<1>p. /\ up \in Seq(UpFrame) /\ down \in Seq(DownFrame)
      /\ traces \in Seq([row : Row, status : Status])
  BY DEF TypeOK
<1>1. CASE UNCHANGED vars
  BY <1>1 DEF TypeOK
<1>2. CASE Boot
  BY <1>2 DEF Boot, TypeOK
<1>3. CASE Import
  <2>1. /\ dpc' \in {"round", "hacked", "unlocked", "close"}
        /\ code' \in {code, 1} /\ failed' \in {failed, Row}
        /\ UNCHANGED << place, asked, traces, records, file, worker, up, down, hpc, validated >>
    BY <1>3 DEF Import
  <2>2. code' \in {0, 1} /\ failed' \subseteq Row
    BY <2>1 DEF TypeOK
  <2> QED
    BY <2>1, <2>2 DEF TypeOK
<1>4. CASE Refuse
  <2>1. \E status \in Status : traces' = Append(traces, Record(status))
    BY <1>4 DEF Refuse, Say, Record, Status
  <2>2. traces' \in Seq([row : Row, status : Status])
    BY <1>p, <2>1, Put DEF TypeOK, Record
  <2>3. row' \in Row /\ ((trial' = trial /\ iter' = iter) \/ (trial' = 0 /\ iter' = 0))
    <3>1. row \in Row
      BY DEF TypeOK
    <3>2. \/ row = Rows /\ UNCHANGED place
          \/ row # Rows /\ row' = row + 1 /\ trial' = 0 /\ iter' = 0
      BY <1>4 DEF Refuse, Say
    <3> QED
      BY <3>1, <3>2
  <2>4. /\ dpc' \in {dpc, "close"}
        /\ UNCHANGED << asked, code, records, file, worker, up, down, hpc, history >>
    BY <1>4 DEF Refuse, Say
  <2>5. /\ trial' \in 0 .. Trials /\ iter' \in 0 .. Rounds + Calls
        /\ trial' > 0 => iter' < Calls
    BY <2>3 DEF TypeOK, Calls
  <2> QED
    BY <2>2, <2>3, <2>4, <2>5 DEF TypeOK
<1>5. CASE SendRound
  <2>1. up' \in Seq(UpFrame)
    BY <1>5, <1>p, Sent, Put DEF SendRound, Sends
  <2> QED
    BY <1>5, <2>1 DEF SendRound, Sends, TypeOK
<1>6. CASE SendTiming
  <2>1. up' \in Seq(UpFrame)
    BY <1>6, <1>p, Sent, Put DEF SendTiming, Sends
  <2> QED
    BY <1>6, <2>1 DEF SendTiming, Sends, TypeOK
<1>7. CASE SendIteration
  <2>1. up' \in Seq(UpFrame)
    BY <1>7, <1>p, Sent, Put DEF SendIteration, Sends
  <2> QED
    BY <1>7, <2>1 DEF SendIteration, Sends, TypeOK
<1>8. CASE SendHeader
  <2>1. up' \in Seq(UpFrame)
    BY <1>8, <1>p, Sent, Put DEF SendHeader, Sends
  <2> QED
    BY <1>8, <2>1 DEF SendHeader, Sends, TypeOK
<1>9. CASE SendOutputs
  <2>1. up' \in Seq(UpFrame)
    BY <1>9, <1>p, Sent, Put DEF SendOutputs
  <2> QED
    BY <1>9, <2>1 DEF SendOutputs, TypeOK
<1>10. CASE GetRound
  <2>1. down' \in Seq(DownFrame)
    BY <1>10, Received, EmptySeq DEF GetRound
  <2> QED
    BY <1>10, <2>1 DEF GetRound, Continue, TypeOK
<1>11. CASE GetTiming
  <2>1. down' \in Seq(DownFrame)
    BY <1>11, Received, EmptySeq DEF GetTiming
  <2> QED
    BY <1>11, <2>1 DEF GetTiming, Continue, TypeOK
<1>12. CASE GetCall
  <2>1. down' \in Seq(DownFrame)
    BY <1>12, Received, EmptySeq DEF GetCall
  <2> QED
    BY <1>12, <2>1 DEF GetCall, Continue, TypeOK
<1>13. CASE RoundOn
  <2>1. trial = 0 /\ iter < Rounds
    BY <1>13 DEF RoundOn, PlaceInv
  <2> QED
    BY <1>13, <2>1 DEF RoundOn, TypeOK
<1>14. CASE CallOn
  BY <1>14 DEF CallOn, Continue, TypeOK
<1>15. CASE NextCall
  <2>1. down' = << >> /\ down' \in Seq(DownFrame)
    BY <1>15, Received, EmptySeq DEF NextCall
  <2>2. trial \in 1 .. Trials
    BY <1>15 DEF NextCall, Receive, PlaceInv, Timing, Waits
  <2> QED
    BY <1>15, <2>1, <2>2 DEF NextCall, Advance, TypeOK
<1>16. CASE Write
  <2>1. /\ dpc' = "close" /\ file' \in {file, records} /\ code' \in {code, 1}
        /\ UNCHANGED << place, asked, traces, records, worker, up, down, hpc, history >>
    BY <1>16 DEF Write
  <2>2. code' \in {0, 1} /\ file' \subseteq Row
    BY <2>1 DEF TypeOK
  <2> QED
    BY <2>1, <2>2 DEF TypeOK
<1>17. CASE Close
  <2>1. up' \in Seq(UpFrame)
    <3>1. up' = up \/ up' = Append(up, Question("shutdown"))
      BY <1>17 DEF Close
    <3>2. Question("shutdown") \in UpFrame
      BY Sent
    <3>3. Append(up, Question("shutdown")) \in Seq(UpFrame)
      BY <1>p, <3>2, Put
    <3> QED
      BY <3>1, <3>3, <1>p
  <2> QED
    BY <1>17, <2>1 DEF Close, TypeOK
<1>18. CASE Closed
  <2>1. down' \in Seq(DownFrame)
    BY <1>18, <1>p, Received, EmptySeq DEF Closed, EndOfPipe
  <2> QED
    BY <1>18, <2>1 DEF Closed, TypeOK
<1>19. CASE Reap
  BY <1>19 DEF Reap, TypeOK
<1>20. ASSUME NEW status \in Status, Judgement(status)
      PROVE  TypeOK'
  <2>1. Said(status) => traces' \in Seq([row : Row, status : Status])
    BY <1>p, Put DEF Said, Record, TypeOK
  <2>2. down' \in Seq(DownFrame)
    BY <1>20, EmptySeq DEF Judgement
  <2>3. row' \in Row /\ ((trial' = trial /\ iter' = iter) \/ (trial' = 0 /\ iter' = 0))
    <3>1. row \in Row
      BY DEF TypeOK
    <3>2. \/ UNCHANGED place
          \/ row # Rows /\ row' = row + 1 /\ trial' = 0 /\ iter' = 0
      BY <1>20, Judged DEF Said
    <3> QED
      BY <3>1, <3>2
  <2>4. records' \subseteq Row /\ failed' \subseteq Row
    BY <1>20 DEF Judgement, TypeOK
  <2>5. /\ asked' = "nothing" /\ UNCHANGED << file, worker, up, hpc, validated >>
        /\ code' \in {code, 1} /\ dpc' \in {"records", "round", "close"}
        /\ traces' \in Seq([row : Row, status : Status])
    BY <1>20, <1>p, <2>1, Judged DEF Said
  <2> QED
    BY <2>2, <2>3, <2>4, <2>5 DEF TypeOK
<1>21. CASE Load
  BY <1>21 DEF Load, TypeOK
<1>22. CASE Produce
  <2>1. up # << >> /\ up[1] \in UpFrame /\ Head(up) = up[1] /\ up' \in Seq(UpFrame)
    BY <1>22, Reading DEF Produce
  <2>2. down' \in Seq(DownFrame)
    BY <1>22, <1>p, <2>1, Replying DEF Produce, Unable, Unsendable
  <2>3. failed' \subseteq Row /\ up[1].case \in Case
    BY <1>22, <2>1 DEF Produce, Unable, Unsendable, TypeOK, UpFrame
  <2> QED
    BY <1>22, <2>1, <2>2, <2>3 DEF Produce, Unable, Unsendable, TypeOK
<1>23. CASE ProduceTimed
  <2>1. up # << >> /\ up[1] \in UpFrame /\ Head(up) = up[1] /\ up' \in Seq(UpFrame)
    BY <1>23, Reading DEF ProduceTimed
  <2>2. down' \in Seq(DownFrame)
    BY <1>23, <1>p, <2>1, Replying DEF ProduceTimed, Unable, Unsendable
  <2>3. failed' \subseteq Row /\ up[1].case \in Case
    BY <1>23, <2>1 DEF ProduceTimed, Unable, Unsendable, TypeOK, UpFrame
  <2> QED
    BY <1>23, <2>1, <2>2, <2>3 DEF ProduceTimed, Unable, Unsendable, TypeOK
<1>24. CASE ExpectOutputs
  <2>1. up # << >> /\ up[1] \in UpFrame /\ Head(up) = up[1] /\ up' \in Seq(UpFrame)
    BY <1>24, Reading DEF ExpectOutputs
  <2> QED
    BY <1>24, <2>1 DEF ExpectOutputs, TypeOK
<1>25. CASE Compare
  <2>1. up # << >> /\ up[1] \in UpFrame /\ Head(up) = up[1] /\ up' \in Seq(UpFrame)
    BY <1>25, Reading DEF Compare
  <2>2. down' \in Seq(DownFrame)
    BY <1>25, <1>p, <2>1, Replying DEF Compare, Unable, Unsendable
  <2>3. validated' \subseteq Case
    BY <1>25 DEF Compare, TypeOK
  <2> QED
    BY <1>25, <2>1, <2>2, <2>3 DEF Compare, Unable, Unsendable, TypeOK
<1>26. CASE OutOfStep
  <2>1. up # << >> /\ up[1] \in UpFrame /\ Head(up) = up[1] /\ up' \in Seq(UpFrame)
    BY <1>26, Reading DEF OutOfStep
  <2> QED
    BY <1>26, <2>1 DEF OutOfStep, TypeOK
<1>27. CASE Shutdown
  <2>1. up # << >> /\ up[1] \in UpFrame /\ Head(up) = up[1] /\ up' \in Seq(UpFrame)
    BY <1>27, Reading DEF Shutdown
  <2>2. down' \in Seq(DownFrame)
    BY <1>27, <1>p, <2>1, Replying DEF Shutdown, Unable, Unsendable
  <2> QED
    BY <1>27, <2>1, <2>2 DEF Shutdown, Unable, Unsendable, TypeOK
<1>28. CASE Orphan
  BY <1>28 DEF Orphan, TypeOK
<1>29. CASE HostJudge
  BY <1>29 DEF HostJudge, TypeOK
<1>30. CASE HostTimeout
  BY <1>30 DEF HostTimeout, TypeOK
<1>31. CASE DriverDies
  BY <1>31 DEF DriverDies, TypeOK
<1>32. CASE WorkerDies
  BY <1>32 DEF WorkerDies, TypeOK
<1> QED
  <2>1. DriverStep => TypeOK'
    BY <1>2, <1>3, <1>4, <1>5, <1>6, <1>7, <1>8, <1>9, <1>10, <1>11, <1>12, <1>13, <1>14, <1>15,
       <1>16, <1>17, <1>18, <1>19, <1>20 DEF DriverStep
  <2>2. Worker => TypeOK'
    BY <1>21, <1>22, <1>23, <1>24, <1>25, <1>26, <1>27, <1>28 DEF Worker
  <2>3. HostMoves => TypeOK'
    BY <1>29, <1>30, <1>31, <1>32 DEF HostMoves
  <2> QED
    BY <1>1, <2>1, <2>2, <2>3, Steps

-----------------------------------------------------------------------------
(* The channel. *)

\* What there is for the worker to read: a header the driver gave up or goes on from, or
\* what the driver waits for.
LEMMA ToRead ==
  ASSUME TypeOK, ChannelInv, wpc # "gone", PipesOpen, up # << >>
  PROVE  /\ wpc # "loading"
         /\ \/ dpc # "wait" /\ wpc = "ready" /\ Len(up) = 1 /\ up[1].op = "validate"
               /\ dpc \notin {"boot", "import", "call", "offer"}
            \/ dpc = "wait" /\ down = << >> /\ asked # "validate" /\ QuestionComing
            \/ dpc = "wait" /\ down = << >> /\ asked = "validate" /\ OutputsComing
BY DEF ChannelInv, TypeOK, PipesOpen, InStep, HeaderOnly, Answered

\* A question goes behind what the worker has not read yet.
LEMMA Questioned ==
  ASSUME TypeOK, InStep \/ HeaderOnly, NEW op \in Asks,
         up' = Append(up, Question(op)), asked' = op, UNCHANGED << place, wpc >>
  PROVE  QuestionComing'
<1>1. /\ Len(up') = Len(up) + 1 /\ Len(up) \in Nat
      /\ \A i \in 1 .. Len(up) : up'[i] = up[i]
      /\ up'[Len(up) + 1] = Question(op)
  BY Sent, Put DEF TypeOK
<1>2. Question(asked)' = Question(op)
  BY DEF Question, Here
<1>3. CASE InStep
  <2>1. Len(up') = 1 /\ up'[1] = Question(op) /\ wpc' = "ready"
    BY <1>1, <1>3, EmptySeq DEF InStep
  <2> QED
    BY <1>2, <2>1 DEF QuestionComing
<1>4. CASE wpc = "ready" /\ Len(up) = 1 /\ up[1].op = "validate"
  <2>1. Len(up') = 2 /\ up'[1] = up[1] /\ up'[2] = Question(op) /\ wpc' = "ready"
    BY <1>1, <1>4
  <2> QED
    BY <1>2, <1>4, <2>1 DEF QuestionComing
<1>5. CASE wpc = "outputs" /\ up = << >>
  <2>1. Len(up') = 1 /\ up'[1] = Question(op) /\ wpc' = "outputs"
    BY <1>1, <1>5, EmptySeq
  <2> QED
    BY <1>2, <2>1 DEF QuestionComing
<1> QED
  BY <1>3, <1>4, <1>5 DEF HeaderOnly

\* The driver asks only when what it asked before has been answered or given up
\* (reference_service.py, _request).
LEMMA DriverChannel ==
  ASSUME TypeOK, ChannelInv, DriverStep
  PROVE  ChannelInv'
<1>p. up \in Seq(UpFrame) /\ down \in Seq(DownFrame) /\ Here \in Case
  BY Sent DEF TypeOK
<1>1. CASE Boot
  BY <1>1 DEF Boot, ChannelInv, InStep, TypeOK
<1>2. CASE Import
  BY <1>2 DEF Import, ChannelInv, InStep, HeaderOnly, Here
<1>3. CASE Refuse
  <2>1. dpc \in {"hacked", "unlocked"} /\ dpc' \in {"hacked", "unlocked", "close"}
    BY <1>3 DEF Refuse, Say
  <2>2. UNCHANGED << worker, up, down >>
    BY <1>3 DEF Refuse
  <2> QED
    BY <2>1, <2>2 DEF ChannelInv, InStep, HeaderOnly
<1>4. CASE SendRound
  <2>1. down = << >> /\ UNCHANGED << down, worker >> /\ asked' = "correctness" /\ dpc' = "wait" /\ wpc # "gone"
    BY <1>4 DEF SendRound, Sends, ChannelInv
  <2>2. (InStep \/ HeaderOnly) /\ wpc # "loading"
    BY <1>4 DEF SendRound, Sends, ChannelInv, InStep, HeaderOnly
  <2>3. QuestionComing'
    BY <1>4, <2>2, Questioned DEF SendRound, Sends
  <2> QED
    BY <2>1, <2>2, <2>3 DEF ChannelInv
<1>5. CASE SendTiming
  <2>1. down = << >> /\ UNCHANGED << down, worker >> /\ asked' = "timing" /\ dpc' = "wait" /\ wpc # "gone"
    BY <1>5 DEF SendTiming, Sends, ChannelInv
  <2>2. (InStep \/ HeaderOnly) /\ wpc # "loading"
    BY <1>5 DEF SendTiming, Sends, ChannelInv, InStep, HeaderOnly
  <2>3. QuestionComing'
    BY <1>5, <2>2, Questioned DEF SendTiming, Sends
  <2> QED
    BY <2>1, <2>2, <2>3 DEF ChannelInv
<1>6. CASE SendIteration
  <2>1. down = << >> /\ UNCHANGED << down, worker >> /\ asked' = "iteration" /\ dpc' = "wait" /\ wpc # "gone"
    BY <1>6 DEF SendIteration, Sends, ChannelInv
  <2>2. (InStep \/ HeaderOnly) /\ wpc # "loading"
    BY <1>6 DEF SendIteration, Sends, ChannelInv, InStep, HeaderOnly
  <2>3. QuestionComing'
    BY <1>6, <2>2, Questioned DEF SendIteration, Sends
  <2> QED
    BY <2>1, <2>2, <2>3 DEF ChannelInv
<1>7. CASE SendHeader
  <2>1. InStep /\ pending = Here
    BY <1>7 DEF SendHeader, Sends, ChannelInv
  <2>2. down' = << >> /\ Len(up') = 1 /\ up'[1].op = "validate"
    BY <1>7, <1>p, <2>1, Sent, Put, EmptySeq DEF SendHeader, Sends, ChannelInv, InStep
  <2>3. HeaderOnly' /\ pending' = Here'
    BY <1>7, <2>1, <2>2 DEF SendHeader, Sends, InStep, HeaderOnly, Here
  <2> QED
    BY <1>7, <2>2, <2>3 DEF SendHeader, Sends, ChannelInv, InStep
<1>8. CASE SendOutputs
  <2>0. HeaderOnly /\ pending = Here /\ asked = "validate" /\ down = << >>
    BY <1>8 DEF SendOutputs, ChannelInv
  <2>1. PICK right \in BOOLEAN : up' = Append(up, Outputs(right))
    BY <1>8 DEF SendOutputs
  <2>2. /\ Len(up') = Len(up) + 1 /\ Len(up) \in Nat
        /\ \A i \in 1 .. Len(up) : up'[i] = up[i]
        /\ up'[Len(up) + 1] = Outputs(right)
    BY <1>p, <2>1, Sent, Put
  <2>3. Outputs(right) \in {Outputs(TRUE)', Outputs(FALSE)'} /\ pending' = Here'
    BY <1>8, <2>0 DEF SendOutputs, Outputs, Here
  <2>4. ASSUME wpc = "ready", Len(up) = 1, up[1].op = "validate"
        PROVE  OutputsComing'
    <3>1. Len(up') = 2 /\ up'[1] = up[1] /\ up'[2] = Outputs(right) /\ wpc' = "ready"
      BY <1>8, <2>2, <2>4 DEF SendOutputs
    <3> QED
      BY <2>3, <2>4, <3>1 DEF OutputsComing
  <2>5. ASSUME wpc = "outputs", up = << >>
        PROVE  OutputsComing'
    <3>1. Len(up') = 1 /\ up'[1] = Outputs(right) /\ wpc' = "outputs"
      BY <1>8, <1>p, <2>2, <2>5, EmptySeq DEF SendOutputs
    <3> QED
      BY <2>3, <3>1 DEF OutputsComing
  <2>6. OutputsComing'
    BY <2>0, <2>4, <2>5 DEF HeaderOnly
  <2> QED
    BY <1>8, <2>0, <2>6 DEF SendOutputs, ChannelInv, HeaderOnly
<1>9. CASE GetRound
  <2>1. dpc = "wait" /\ down' = << >> /\ (wpc = "gone" \/ InStep)
    BY <1>9, Received DEF GetRound
  <2> QED
    BY <1>9, <2>1 DEF GetRound, Continue, Advance, ChannelInv, InStep
<1>10. CASE GetTiming
  <2>1. dpc = "wait" /\ down' = << >> /\ (wpc = "gone" \/ InStep)
    BY <1>10, Received DEF GetTiming
  <2> QED
    BY <1>10, <2>1 DEF GetTiming, Continue, Advance, ChannelInv, InStep
<1>11. CASE GetCall
  <2>1. /\ dpc = "wait" /\ down' = << >> /\ (wpc = "gone" \/ InStep)
        /\ Answered /\ down[1].result \in {"ok"}
    BY <1>11, Received DEF GetCall
  <2>2. wpc # "gone" => pending' = Here'
    BY <1>11, <2>1 DEF GetCall, Continue, Answered, Here
  <2> QED
    BY <1>11, <2>1, <2>2 DEF GetCall, Continue, ChannelInv, InStep
<1>12. CASE RoundOn
  BY <1>12 DEF RoundOn, ChannelInv, InStep, HeaderOnly, Here
<1>13. CASE CallOn
  <2>1. Here' = Here /\ dpc = "call" /\ dpc' = "offer" /\ UNCHANGED << worker, up, down >>
    BY <1>13 DEF CallOn, Continue, Here
  <2> QED
    BY <2>1 DEF ChannelInv, InStep
<1>14. CASE NextCall
  <2>1. dpc = "wait" /\ down' = << >> /\ (wpc = "gone" \/ InStep)
    BY <1>14, Received DEF NextCall
  <2>2. dpc' \in {"provide", "judge"}
    BY <1>14 DEF NextCall, Advance
  <2> QED
    BY <1>14, <2>1, <2>2 DEF NextCall, ChannelInv, InStep
<1>15. CASE Write
  BY <1>15 DEF Write, ChannelInv, InStep, HeaderOnly, Here
<1>16. CASE Close
  <2>0. down = << >>
    BY <1>16 DEF Close, ChannelInv
  <2>a. CASE wpc = "gone"
    BY <1>16, <2>0, <2>a DEF Close, ChannelInv
  <2>b. CASE wpc # "gone"
    <3>1. /\ up' = Append(up, Question("shutdown")) /\ dpc' = "wait" /\ asked' = "shutdown"
          /\ UNCHANGED << place, worker, down >>
      BY <1>16, <2>b DEF Close
    <3>2. (InStep \/ HeaderOnly) /\ wpc # "loading"
      BY <1>16, <2>b DEF Close, ChannelInv, InStep, HeaderOnly
    <3>3. QuestionComing'
      BY <3>1, <3>2, Questioned
    <3> QED
      BY <2>0, <2>b, <3>1, <3>2, <3>3 DEF ChannelInv
  <2> QED
    BY <2>a, <2>b
<1>17. CASE Closed
  <2>1. dpc = "wait" /\ down' = << >> /\ dpc' = "reap" /\ (wpc = "loading" => dpc = "boot")
    BY <1>17, Received DEF Closed, EndOfPipe, ChannelInv
  <2> QED
    BY <1>17, <2>1 DEF Closed, ChannelInv
<1>18. CASE Reap
  BY <1>18 DEF Reap, ChannelInv, InStep, HeaderOnly, Here
<1>19. ASSUME NEW status \in Status, Judgement(status)
      PROVE  ChannelInv'
  <2>1. down' = << >> /\ (wpc = "gone" \/ InStep \/ HeaderOnly) /\ dpc' \in {"records", "round", "close"}
    BY <1>19, Judged DEF Judgement, Said
  <2>2. UNCHANGED << worker, up >> /\ wpc # "loading"
    BY <1>19, Judged DEF Judgement, Judging, Timing, Waits, ChannelInv, InStep, HeaderOnly
  <2> QED
    BY <2>1, <2>2 DEF ChannelInv, InStep, HeaderOnly
<1> QED
  BY <1>1, <1>2, <1>3, <1>4, <1>5, <1>6, <1>7, <1>8, <1>9, <1>10, <1>11, <1>12, <1>13, <1>14,
     <1>15, <1>16, <1>17, <1>18, <1>19 DEF DriverStep

\* A question that is served is the one the driver waits for, and the only one.
LEMMA Served ==
  ASSUME TypeOK, ChannelInv, NEW ops, Reads("ready", ops), "validate" \notin ops
  PROVE  /\ dpc = "wait" /\ down = << >> /\ asked \in ops /\ up # << >> /\ Head(up) = up[1]
         /\ up[1].op = asked /\ up[1].case = Here /\ up' = << >>
<1>1. /\ wpc = "ready" /\ PipesOpen /\ up # << >> /\ Head(up) = up[1] /\ up[1].op \in ops
      /\ Len(up) = 1 => up' = << >>
  BY Reading
<1>2. up[1].op # "validate"
  BY <1>1
<1>3. dpc = "wait" /\ down = << >> /\ asked # "validate" /\ QuestionComing
  BY <1>1, <1>2, ToRead DEF OutputsComing
<1>4. Len(up) = 1 /\ up[1] = Question(asked)
  BY <1>2, <1>3 DEF QuestionComing
<1> QED
  BY <1>1, <1>3, <1>4 DEF Question

\* A worker that is gone leaves the driver with what it has been sent.
LEMMA Gone ==
  ASSUME ChannelInv, UNCHANGED << driver, down >>, wpc' = "gone", up' = up \/ dpc # "boot"
  PROVE  ChannelInv'
BY DEF ChannelInv, Answered, Here

\* Its answer is the one the driver waits for.
LEMMA Replied ==
  ASSUME TypeOK, ChannelInv, dpc = "wait", down = << >>, up # << >>,
         NEW res \in {"ok", "inputs", "reference"}, Reply(res), Answer(up[1], res).to = asked,
         up[1].case = Here, up' = << >>, UNCHANGED driver,
         wpc' \in {"ready", "gone"}, asked = "iteration" /\ res = "ok" => pending' = Here
  PROVE  ChannelInv'
<1>1. /\ down' # << >> /\ Len(down') = 1 /\ down'[1] = Answer(up[1], res)
  BY Replying, EmptySeq
<1>2. /\ down'[1].to = asked' /\ down'[1].case = Here' /\ down'[1].result = res /\ Here' = Here
  BY <1>1 DEF Answer, Here
<1>3. Answered'
  BY <1>1, <1>2 DEF Answered, InStep
<1> QED
  BY <1>1, <1>3 DEF ChannelInv

\* The worker answers the one question that is waited for (reference_service.py, serve).
LEMMA WorkerChannel ==
  ASSUME TypeOK, ChannelInv, Worker
  PROVE  ChannelInv'
<1>1. CASE Load
  <2>1. dpc = "boot" /\ up = << >> /\ down = << >>
    BY <1>1 DEF Load, ChannelInv, PipesOpen
  <2> QED
    BY <1>1, <2>1 DEF Load, ChannelInv
<1>2. CASE Produce
  <2>1. /\ dpc = "wait" /\ down = << >> /\ asked \in {"correctness", "timing"} /\ up # << >>
        /\ Head(up) = up[1] /\ up[1].op = asked /\ up[1].case = Here /\ up' = << >>
    BY <1>2, Served DEF Produce
  <2>2. wpc' \in {"ready", "gone"} /\ UNCHANGED driver
    BY <1>2 DEF Produce, Reads, Unable, Unsendable
  <2>3. ASSUME NEW res \in {"ok", "inputs", "reference"}, Reply(res)
        PROVE  ChannelInv'
    <3>1. Answer(up[1], res).to = asked
      BY <2>1 DEF Answer
    <3> QED
      BY <2>1, <2>2, <2>3, <3>1, Replied
  <2>4. CASE wpc' = "gone" /\ UNCHANGED down
    BY <2>1, <2>2, <2>4, Gone
  <2> QED
    BY <1>2, <2>3, <2>4 DEF Produce, Unable, Unsendable
<1>3. CASE ProduceTimed
  <2>1. /\ dpc = "wait" /\ down = << >> /\ asked = "iteration" /\ up # << >>
        /\ Head(up) = up[1] /\ up[1].op = asked /\ up[1].case = Here /\ up' = << >>
    BY <1>3, Served DEF ProduceTimed
  <2>2. wpc' \in {"ready", "gone"} /\ UNCHANGED driver
    BY <1>3 DEF ProduceTimed, Reads, Unable, Unsendable
  <2>3. ASSUME NEW res \in {"ok", "inputs", "reference"}, Reply(res), res = "ok" => pending' = Here
        PROVE  ChannelInv'
    <3>1. Answer(up[1], res).to = asked
      BY <2>1 DEF Answer
    <3> QED
      BY <2>1, <2>2, <2>3, <3>1, Replied
  <2>4. CASE wpc' = "gone" /\ UNCHANGED down
    BY <2>1, <2>2, <2>4, Gone
  <2>5. \/ Reply("reference") \/ Reply("inputs") \/ (Reply("ok") /\ pending' = Here)
        \/ (wpc' = "gone" /\ UNCHANGED down)
    BY <1>3, <2>1 DEF ProduceTimed, Unable, Unsendable
  <2> QED
    BY <2>3, <2>4, <2>5
<1>4. CASE ExpectOutputs
  <2>1. /\ wpc = "ready" /\ PipesOpen /\ up # << >> /\ up[1] \in UpFrame /\ up[1].op = "validate"
        /\ Len(up) \in Nat \ {0} /\ Len(up') = Len(up) - 1 /\ up' \in Seq(UpFrame)
        /\ \A i \in 1 .. Len(up) - 1 : up'[i] = up[i + 1]
        /\ Len(up) = 1 => up' = << >>
    BY <1>4, Reading DEF ExpectOutputs
  <2>2. UNCHANGED << driver, pending, down >> /\ wpc' = "outputs" /\ Here' = Here
    BY <1>4 DEF ExpectOutputs, Here
  <2>3. CASE /\ dpc # "wait" /\ Len(up) = 1 /\ dpc \notin {"boot", "import", "call", "offer"}
    <3>1. HeaderOnly'
      BY <2>1, <2>2, <2>3 DEF HeaderOnly
    <3> QED
      BY <2>1, <2>2, <2>3, <3>1 DEF ChannelInv, PipesOpen
  <2>4. CASE dpc = "wait" /\ down = << >> /\ asked # "validate" /\ QuestionComing
    <3>1. Len(up) = 2 /\ up[2] = Question(asked)
      BY <2>1, <2>4 DEF QuestionComing, Question
    <3>2. Len(up') = 1 /\ up'[1] = up[2]
      BY <2>1, <3>1
    <3>3. Question(asked)' = Question(asked)
      BY <2>2 DEF Question
    <3>4. QuestionComing'
      BY <2>2, <3>1, <3>2, <3>3 DEF QuestionComing
    <3> QED
      BY <2>2, <2>4, <3>4 DEF ChannelInv
  <2>5. CASE dpc = "wait" /\ down = << >> /\ asked = "validate" /\ OutputsComing
    <3>1. Len(up) = 2 /\ up[2] \in {Outputs(TRUE), Outputs(FALSE)} /\ pending = Here
      BY <2>1, <2>5 DEF OutputsComing
    <3>2. Len(up') = 1 /\ up'[1] = up[2]
      BY <2>1, <3>1
    <3>3. Outputs(TRUE)' = Outputs(TRUE) /\ Outputs(FALSE)' = Outputs(FALSE)
      BY <2>2 DEF Outputs
    <3>4. OutputsComing'
      BY <2>2, <3>1, <3>2, <3>3 DEF OutputsComing
    <3> QED
      BY <2>2, <2>5, <3>4 DEF ChannelInv
  <2> QED
    BY <2>1, <2>3, <2>4, <2>5, ToRead
<1>5. CASE Compare
  <2>1. /\ wpc = "outputs" /\ PipesOpen /\ up # << >> /\ Head(up) = up[1] /\ up[1].op = "outputs"
        /\ Len(up) = 1 => up' = << >>
    BY <1>5, Reading DEF Compare
  <2>2. ~ QuestionComing
    BY <2>1 DEF QuestionComing, Question, ChannelInv, TypeOK
  <2>3. dpc = "wait" /\ down = << >> /\ asked = "validate" /\ OutputsComing
    BY <2>1, <2>2, ToRead
  <2>4. Len(up) = 1 /\ up[1].case = Here
    BY <2>1, <2>3 DEF OutputsComing, Outputs
  <2>5. wpc' \in {"ready", "gone"} /\ UNCHANGED driver
    BY <1>5 DEF Compare
  <2>6. ASSUME NEW res \in {"ok", "reference"}, Reply(res)
        PROVE  ChannelInv'
    <3>1. Answer(up[1], res).to = asked
      BY <2>1, <2>3 DEF Answer
    <3> QED
      BY <2>1, <2>3, <2>4, <2>5, <2>6, <3>1, Replied
  <2>7. CASE wpc' = "gone" /\ UNCHANGED down
    BY <2>3, <2>5, <2>7, Gone
  <2> QED
    BY <1>5, <2>6, <2>7 DEF Compare
<1>6. CASE OutOfStep
  <2>1. dpc # "boot"
    BY <1>6 DEF OutOfStep, Reads, ChannelInv
  <2> QED
    BY <1>6, <2>1, Gone DEF OutOfStep
<1>7. CASE Shutdown
  <2>1. /\ dpc = "wait" /\ down = << >> /\ asked = "shutdown" /\ up # << >>
        /\ up[1].op = asked /\ up[1].case = Here /\ up' = << >>
    BY <1>7, Served DEF Shutdown
  <2>2. Answer(up[1], "ok").to = asked
    BY <2>1 DEF Answer
  <2> QED
    BY <1>7, <2>1, <2>2, Replied DEF Shutdown
<1>8. CASE Orphan
  BY <1>8, Gone DEF Orphan
<1> QED
  BY <1>1, <1>2, <1>3, <1>4, <1>5, <1>6, <1>7, <1>8 DEF Worker

\* A process that dies leaves the other with what was sent.
LEMMA HostChannel ==
  ASSUME ChannelInv, HostMoves
  PROVE  ChannelInv'
<1>1. CASE HostJudge
  BY <1>1, Gone DEF HostJudge
<1>2. CASE HostTimeout
  BY <1>2 DEF HostTimeout, ChannelInv
<1>3. CASE DriverDies
  BY <1>3 DEF DriverDies, ChannelInv
<1>4. CASE WorkerDies
  BY <1>4, Gone DEF WorkerDies
<1> QED
  BY <1>1, <1>2, <1>3, <1>4 DEF HostMoves

\* Every step keeps the pipes in step.
LEMMA ChannelStep ==
  ASSUME TypeOK, ChannelInv, [Next]_vars
  PROVE  ChannelInv'
<1>1. CASE UNCHANGED vars
  BY <1>1 DEF ChannelInv, Answered, InStep, HeaderOnly, QuestionComing, OutputsComing, Question,
     Outputs, Here
<1> QED
  BY <1>1, Steps, DriverChannel, WorkerChannel, HostChannel


\* Only the driver's own steps change what it has, but for its death.
LEMMA Others ==
  ASSUME TypeOK, ChannelInv, [Next]_vars
  PROVE  \/ DriverStep \/ UNCHANGED driver
         \/ /\ dpc' = "dead" /\ hpc = "running" /\ (hpc' = "running" \/ hpc' = "timeout")
            /\ UNCHANGED << place, asked, result, pending, up, down, history >>
<1>1. Worker => UNCHANGED driver
  BY DEF Worker, Load, Produce, ProduceTimed, ExpectOutputs, Compare, OutOfStep, Shutdown, Orphan
<1>2. HostMoves => \/ UNCHANGED driver
                   \/ /\ dpc' = "dead" /\ hpc = "running" /\ (hpc' = "running" \/ hpc' = "timeout")
                      /\ UNCHANGED << place, asked, result, pending, up, down, history >>
  BY DEF HostMoves, HostJudge, HostTimeout, DriverDies, WorkerDies
<1> QED
  BY <1>1, <1>2, Steps

\* Outputs the worker can still read are those of the case it keeps.
LEMMA OutputsStep ==
  ASSUME TypeOK, ChannelInv, OutputsInv, TypeOK', ChannelInv', [Next]_vars
  PROVE  OutputsInv'
<1>1. CASE PipesOpen'
  <2> SUFFICES ASSUME wpc' = "outputs", up' # << >>, up'[1].op = "outputs"
               PROVE  pending' = up'[1].case
    BY DEF OutputsInv
  <2>1. ~ InStep' /\ ~ HeaderOnly'
    BY DEF InStep, HeaderOnly
  <2>2. dpc' = "wait" /\ down' = << >> /\ asked' \in Asks
    BY <1>1, <2>1 DEF TypeOK, ChannelInv, PipesOpen, Answered
  <2>3. CASE asked' = "validate"
    <3>1. OutputsComing'
      BY <2>2, <2>3 DEF ChannelInv
    <3> QED
      BY <3>1 DEF OutputsComing, Outputs
  <2>4. CASE asked' # "validate"
    <3>1. QuestionComing'
      BY <2>2, <2>4 DEF ChannelInv
    <3>2. up'[1].op = asked'
      BY <3>1 DEF QuestionComing, Question
    <3> QED
      BY <2>2, <3>2 DEF Asks
  <2> QED
    BY <2>3, <2>4
<1>2. CASE ~ PipesOpen'
  <2>1. DriverStep => wpc' = "gone" \/ UNCHANGED << wpc, up, pending >>
    BY <1>2, Judged DEF DriverStep, Boot, Import, Refuse, Say, SendRound, SendTiming,
       SendIteration, SendHeader,
       Sends, SendOutputs, GetRound, GetTiming, GetCall, Continue, RoundOn, CallOn, NextCall, Advance,
       Write, Close, Closed, Reap, PipesOpen
  <2>2. Worker => wpc' = "gone"
    BY <1>2 DEF Worker, Load, Produce, ProduceTimed, ExpectOutputs, Compare, OutOfStep,
       Shutdown, Orphan,
                Reads, PipesOpen
  <2>3. HostMoves => wpc' = "gone" \/ UNCHANGED << wpc, up, pending >>
    BY DEF HostMoves, HostJudge, HostTimeout, DriverDies, WorkerDies
  <2>4. wpc' = "gone" \/ UNCHANGED << wpc, up, pending >>
    BY <2>1, <2>2, <2>3, Steps
  <2> QED
    BY <2>4 DEF OutputsInv
<1> QED
  BY <1>1, <1>2

-----------------------------------------------------------------------------
(* Where the driver is. *)

\* Every step keeps the driver where its counters say it is.
LEMMA PlaceStep ==
  ASSUME TypeOK, ChannelInv, PlaceInv, [Next]_vars
  PROVE  PlaceInv'
<1>t. row \in Row /\ trial \in 0 .. Trials /\ iter \in Nat /\ traces \in Seq([row : Row, status : Status])
  BY DEF TypeOK
<1>u. ASSUME NEW status \in Status, traces' = Append(traces, Record(status))
      PROVE  Len(traces') = Len(traces) + 1
  BY <1>t, <1>u, Put DEF Record
<1>1. CASE Boot
  BY <1>1, <1>t DEF Boot, PlaceInv, Judging, Timing, Waits
<1>2. CASE Import
  BY <1>2, <1>t DEF Import, PlaceInv, Judging, Timing, Waits
<1>3. CASE Refuse
  <2>1. row = Len(traces) + 1 /\ trial = 0 /\ iter = 0 /\ records = {} /\ dpc \in {"hacked", "unlocked"}
    BY <1>3 DEF Refuse, PlaceInv, Judging
  <2>2. Len(traces') = Len(traces) + 1
    BY <1>3, <1>u DEF Refuse, Say, Record, Status
  <2>3. CASE row = Rows
    BY <1>3, <2>1, <2>3 DEF Refuse, Say, PlaceInv, Judging, Timing, Waits
  <2>4. CASE row # Rows
    BY <1>3, <1>t, <2>1, <2>2, <2>4 DEF Refuse, Say, PlaceInv, Judging, Timing, Waits
  <2> QED
    BY <2>3, <2>4
<1>4. CASE SendRound
  BY <1>4, <1>t DEF SendRound, Sends, PlaceInv, Judging, Timing, Waits
<1>5. CASE SendTiming
  BY <1>5, <1>t DEF SendTiming, Sends, PlaceInv, Judging, Timing, Waits
<1>6. CASE SendIteration
  BY <1>6, <1>t DEF SendIteration, Sends, PlaceInv, Judging, Timing, Waits
<1>7. CASE SendHeader
  BY <1>7, <1>t DEF SendHeader, Sends, PlaceInv, Judging, Timing, Waits
<1>8. CASE SendOutputs
  <2>1. asked = "validate"
    BY <1>8 DEF SendOutputs, ChannelInv
  <2> QED
    BY <1>8, <2>1 DEF SendOutputs, PlaceInv, Judging, Timing, Waits
<1>9. CASE GetRound
  BY <1>9, <1>t DEF GetRound, Receive, Continue, PlaceInv, Judging, Timing, Waits
<1>10. CASE GetTiming
  BY <1>10, <1>t DEF GetTiming, Receive, PlaceInv, Judging, Timing, Waits
<1>11. CASE GetCall
  BY <1>11, <1>t DEF GetCall, Receive, Continue, PlaceInv, Judging, Timing, Waits
<1>12. CASE RoundOn
  BY <1>12, <1>t DEF RoundOn, PlaceInv, Judging, Timing, Waits
<1>13. CASE CallOn
  BY <1>13, <1>t DEF CallOn, Continue, PlaceInv, Judging, Timing, Waits
<1>14. CASE NextCall
  BY <1>14, <1>t DEF NextCall, Receive, Advance, PlaceInv, Judging, Timing, Waits
<1>15. CASE Write
  BY <1>15, <1>t DEF Write, PlaceInv, Judging, Timing, Waits
<1>16. CASE Close
  BY <1>16, <1>t DEF Close, PlaceInv, Judging, Timing, Waits
<1>17. CASE Closed
  BY <1>17, <1>t DEF Closed, Receive, EndOfPipe, PlaceInv, Judging, Timing, Waits
<1>18. CASE Reap
  BY <1>18, <1>t DEF Reap, PlaceInv, Judging, Timing, Waits
<1>19. ASSUME NEW status \in Status, Judgement(status)
      PROVE  PlaceInv'
  <2>1. row = Len(traces) + 1
    BY <1>19 DEF Judgement, PlaceInv
  <2>2. CASE dpc' = "close"
    BY <2>2 DEF PlaceInv, Judging, Timing, Waits
  <2>3. CASE Said(status)
    <3>1. Len(traces') = Len(traces) + 1
      BY <2>3, <1>u DEF Said
    <3> QED
      BY <1>t, <2>1, <2>3, <3>1 DEF Said, PlaceInv, Judging, Timing, Waits
  <2> QED
    BY <1>19, <2>2, <2>3, Judged
<1>20. CASE UNCHANGED driver
  BY <1>20 DEF PlaceInv, Judging, Timing, Waits
<1>21. CASE dpc' = "dead"
  BY <1>21 DEF PlaceInv, Judging, Timing, Waits
<1> QED
  <2>1. DriverStep => PlaceInv'
    BY <1>1, <1>2, <1>3, <1>4, <1>5, <1>6, <1>7, <1>8, <1>9, <1>10, <1>11, <1>12, <1>13, <1>14,
       <1>15, <1>16, <1>17, <1>18, <1>19 DEF DriverStep
  <2> QED
    BY <1>20, <1>21, <2>1, Others

-----------------------------------------------------------------------------
(* The evidence. *)

\* A trace adds its workload to those that passed, when it says so.
LEMMA Passing ==
  ASSUME traces \in Seq([row : Row, status : Status]), NEW status \in Status, row \in Row,
         traces' = Append(traces, Record(status))
  PROVE  PassedRows' = IF status = "PASSED" THEN PassedRows \cup {row} ELSE PassedRows
<1>1. /\ Len(traces) \in Nat /\ Len(traces') = Len(traces) + 1
      /\ \A i \in 1 .. Len(traces) : traces'[i] = traces[i]
      /\ traces'[Len(traces) + 1] = Record(status)
      /\ traces' \in Seq([row : Row, status : Status])
  BY Put DEF Record
<1>2. DOMAIN traces = 1 .. Len(traces) /\ DOMAIN traces' = 1 .. (Len(traces) + 1)
  BY <1>1, LenProperties
<1>3. \A r : r \in PassedRows <=> \E i \in 1 .. Len(traces) : traces[i].status = "PASSED" /\ traces[i].row = r
  BY <1>2 DEF PassedRows
<1>4. \A r : r \in PassedRows' <=> \E i \in 1 .. (Len(traces) + 1) : traces'[i].status = "PASSED" /\ traces'[i].row = r
  BY <1>2 DEF PassedRows
<1>5. \A r : r \in PassedRows' <=> \/ \E i \in 1 .. Len(traces) : traces[i].status = "PASSED" /\ traces[i].row = r
                                   \/ status = "PASSED" /\ row = r
  BY <1>1, <1>4 DEF Record
<1> QED
  BY <1>3, <1>5

\* Every step keeps the evidence with the traces.
LEMMA EvidenceStep ==
  ASSUME TypeOK, ChannelInv, PlaceInv, EvidenceInv, [Next]_vars
  PROVE  EvidenceInv'
<1>t. row \in Row /\ code \in {0, 1} /\ traces \in Seq([row : Row, status : Status])
  BY DEF TypeOK
<1>u. UNCHANGED traces => PassedRows' = PassedRows
  BY DEF PassedRows
<1>h. DriverStep => hpc = "running" /\ hpc' = "running"
  <2>1. DriverStep => dpc \notin {"exited", "dead"} /\ UNCHANGED hpc
    BY Judged DEF DriverStep, Boot, Import, Refuse, Say, SendRound, SendTiming, SendIteration,
       SendHeader,
       Sends, SendOutputs, GetRound, GetTiming, GetCall, Receive, Continue, RoundOn, CallOn, NextCall, Advance,
       Write, Close, Closed, EndOfPipe, Reap, Judgement, Judging, Timing, Waits
  <2>2. hpc # "running" => dpc \in {"exited", "dead"}
    BY DEF EvidenceInv
  <2>3. DriverStep => hpc = "running"
    BY <2>1, <2>2
  <2> QED
    BY <2>1, <2>3
<1>1. CASE Boot
  BY <1>1, <1>t, <1>u, <1>h DEF DriverStep, Boot, EvidenceInv, Ending, Waits
<1>2. CASE Import
  BY <1>2, <1>t, <1>u, <1>h DEF DriverStep, Import, EvidenceInv, Ending, Waits
<1>3. CASE Refuse
  <2>1. records = {} /\ file = {} /\ code = 0 /\ dpc \in {"hacked", "unlocked"} /\ dpc' \in {"hacked", "unlocked", "close"}
    BY <1>3 DEF Refuse, Say, PlaceInv, EvidenceInv, Ending, Waits
  <2>2. PassedRows' = PassedRows
    BY <1>3, <1>t, Passing DEF Refuse, Say, Record, Status
  <2>3. UNCHANGED << code, records, file >>
    BY <1>3 DEF Refuse, Say
  <2> QED
    BY <1>3, <1>h, <2>1, <2>2, <2>3 DEF DriverStep, EvidenceInv, Ending, Waits
<1>4. CASE SendRound
  BY <1>4, <1>t, <1>u, <1>h DEF DriverStep, SendRound, Sends, EvidenceInv, Ending, Waits
<1>5. CASE SendTiming
  BY <1>5, <1>t, <1>u, <1>h DEF DriverStep, SendTiming, Sends, EvidenceInv, Ending, Waits
<1>6. CASE SendIteration
  BY <1>6, <1>t, <1>u, <1>h DEF DriverStep, SendIteration, Sends, EvidenceInv, Ending, Waits
<1>7. CASE SendHeader
  BY <1>7, <1>t, <1>u, <1>h DEF DriverStep, SendHeader, Sends, EvidenceInv, Ending, Waits
<1>8. CASE SendOutputs
  <2>1. asked = "validate"
    BY <1>8 DEF SendOutputs, ChannelInv
  <2> QED
    BY <1>8, <1>u, <1>h, <2>1 DEF DriverStep, SendOutputs, EvidenceInv, Ending, Waits
<1>9. CASE GetRound
  BY <1>9, <1>t, <1>u, <1>h DEF DriverStep, GetRound, Receive, Continue, EvidenceInv, Ending,
     Waits
<1>10. CASE GetTiming
  BY <1>10, <1>t, <1>u, <1>h DEF DriverStep, GetTiming, Receive, EvidenceInv, Ending, Waits
<1>11. CASE GetCall
  BY <1>11, <1>t, <1>u, <1>h DEF DriverStep, GetCall, Receive, Continue, EvidenceInv, Ending,
     Waits
<1>12. CASE RoundOn
  BY <1>12, <1>t, <1>u, <1>h DEF DriverStep, RoundOn, EvidenceInv, Ending, Waits
<1>13. CASE CallOn
  BY <1>13, <1>t, <1>u, <1>h DEF DriverStep, CallOn, Continue, EvidenceInv, Ending, Waits
<1>14. CASE NextCall
  BY <1>14, <1>t, <1>u, <1>h DEF DriverStep, NextCall, Receive, Advance, EvidenceInv, Ending,
     Waits
<1>15. CASE Write
  BY <1>15, <1>t, <1>u, <1>h DEF DriverStep, Write, EvidenceInv, Ending, Waits
<1>16. CASE Close
  BY <1>16, <1>t, <1>u, <1>h DEF DriverStep, Close, EvidenceInv, Ending, Waits
<1>17. CASE Closed
  BY <1>17, <1>t, <1>u, <1>h DEF DriverStep, Closed, Receive, EndOfPipe, EvidenceInv, Ending,
     Waits
<1>18. CASE Reap
  BY <1>18, <1>t, <1>u, <1>h DEF DriverStep, Reap, EvidenceInv, Ending, Waits
<1>19. ASSUME NEW status \in Status, Judgement(status)
      PROVE  EvidenceInv'
  <2>1. ~ Ending /\ dpc # "dead" /\ code = 0 /\ file = {} /\ records = PassedRows
    BY <1>19 DEF Judgement, Judging, Timing, Ending, Waits, EvidenceInv
  <2>2. /\ hpc = "running" /\ hpc' = "running" /\ UNCHANGED file
        /\ records' = IF status = "PASSED" THEN records \cup {row} ELSE records
    BY <1>19, <1>h, Judged DEF DriverStep, Judgement
  <2>3. CASE dpc' = "close" /\ code' = 1
    BY <2>2, <2>3 DEF EvidenceInv, Ending, Waits
  <2>4. CASE Said(status)
    <3>1. PassedRows' = records'
      BY <1>t, <2>1, <2>2, <2>4, Passing DEF Said
    <3>2. dpc' \in {"records", "round"} /\ UNCHANGED code
      BY <2>4 DEF Said
    <3> QED
      BY <2>1, <2>2, <3>1, <3>2 DEF EvidenceInv, Ending, Waits
  <2> QED
    BY <1>19, <2>3, <2>4, Judged
<1>20. ASSUME UNCHANGED driver, UNCHANGED hpc \/ HostJudge
      PROVE  EvidenceInv'
  BY <1>20, <1>u DEF EvidenceInv, Ending, Waits, HostJudge
<1>21. ASSUME dpc' = "dead", hpc = "running", hpc' = "running" \/ hpc' = "timeout", UNCHANGED result
      PROVE  EvidenceInv'
  BY <1>21, <1>u DEF EvidenceInv, Ending, Waits
<1> QED
  <2>1. DriverStep => EvidenceInv'
    BY <1>1, <1>2, <1>3, <1>4, <1>5, <1>6, <1>7, <1>8, <1>9, <1>10, <1>11, <1>12, <1>13, <1>14,
       <1>15, <1>16, <1>17, <1>18, <1>19 DEF DriverStep
  <2>2. Worker => UNCHANGED << driver, hpc >>
    BY DEF Worker, Load, Produce, ProduceTimed, ExpectOutputs, Compare, OutOfStep, Shutdown,
       Orphan
  <2>3. HostMoves => \/ UNCHANGED << driver, hpc >> \/ (UNCHANGED driver /\ HostJudge)
                     \/ /\ dpc' = "dead" /\ hpc = "running" /\ (hpc' = "running" \/ hpc' = "timeout")
                        /\ UNCHANGED result
    BY DEF HostMoves, HostJudge, HostTimeout, DriverDies, WorkerDies
  <2> QED
    BY <1>20, <1>21, <2>1, <2>2, <2>3, Steps


-----------------------------------------------------------------------------
(* What has been validated. *)

\* A step that keeps the place and validates nothing.
LEMMA Kept ==
  ASSUME ValidatedInv, UNCHANGED << place, validated >>,
         Judging' => Judging /\ (HereValidated' <=> HereValidated)
  PROVE  ValidatedInv'
BY DEF ValidatedInv, Invoked, Here

\* Nothing of the next workload has been validated yet.
LEMMA NextWorkload ==
  ASSUME TypeOK, ValidatedInv, Judging, row' = row + 1, trial' = 0, iter' = 0,
         UNCHANGED validated, ~ HereValidated'
  PROVE  ValidatedInv'
<1>1. \A c \in validated : c.row <= row /\ c.row \in Nat /\ c.trial > 0
  BY DEF TypeOK, ValidatedInv, Case
<1>2. row \in Nat
  BY DEF TypeOK
<1>3. \A c \in validated : c.row < row'
  BY <1>1, <1>2
<1> QED
  BY <1>1, <1>2, <1>3 DEF ValidatedInv

\* The driver goes on only from what has been validated.
LEMMA DriverValidated ==
  ASSUME TypeOK, ChannelInv, PlaceInv, ValidatedInv, DriverStep
  PROVE  ValidatedInv'
<1>t. /\ row \in Nat /\ trial \in Nat /\ iter \in Nat
      /\ \A c \in validated : c.row \in Nat /\ c.trial \in Nat /\ c.iter \in Nat
  BY DEF TypeOK, Case
<1>d. dpc \notin {"wait", "dead"} => down = << >>
  BY DEF ChannelInv
<1>1. CASE Boot
  BY <1>1, <1>d, Kept DEF Boot, HereValidated, Judging, Timing, Waits
<1>2. CASE Import
  BY <1>2, <1>d, Kept DEF Import, HereValidated, Judging, Timing, Waits
<1>3. CASE SendRound
  BY <1>3, <1>d, Kept DEF SendRound, Sends, HereValidated, Judging, Timing, Waits
<1>4. CASE SendTiming
  BY <1>4, <1>d, Kept DEF SendTiming, Sends, HereValidated, Judging, Timing, Waits
<1>5. CASE SendIteration
  BY <1>5, <1>d, Kept DEF SendIteration, Sends, HereValidated, Judging, Timing, Waits
<1>6. CASE SendHeader
  BY <1>6, <1>d, Kept DEF SendHeader, Sends, HereValidated, Judging, Timing, Waits
<1>7. CASE GetRound
  BY <1>7, <1>d, Kept DEF GetRound, Receive, Continue, HereValidated, Judging, Timing, Waits
<1>8. CASE GetCall
  BY <1>8, <1>d, Kept DEF GetCall, Receive, Continue, HereValidated, Judging, Timing, Waits
<1>9. CASE CallOn
  BY <1>9, <1>d, Kept DEF CallOn, Continue, HereValidated, Judging, Timing, Waits
<1>10. CASE Write
  BY <1>10, <1>d, Kept DEF Write, HereValidated, Judging, Timing, Waits
<1>11. CASE Close
  BY <1>11, <1>d, Kept DEF Close, HereValidated, Judging, Timing, Waits
<1>12. CASE Closed
  BY <1>12, <1>d, Kept DEF Closed, Receive, EndOfPipe, HereValidated, Judging, Timing, Waits
<1>13. CASE Reap
  BY <1>13, <1>d, Kept DEF Reap, HereValidated, Judging, Timing, Waits
<1>14. CASE SendOutputs
  <2>1. asked = "validate" /\ down = << >>
    BY <1>14 DEF SendOutputs, ChannelInv
  <2> QED
    BY <1>14, <2>1, Kept DEF SendOutputs, HereValidated, Judging, Timing, Waits
<1>15. CASE Refuse
  <2>1. dpc \in {"hacked", "unlocked"} /\ UNCHANGED validated
    BY <1>15 DEF Refuse
  <2>2. CASE row = Rows
    BY <1>15, <2>2, Kept DEF Refuse, Say, Judging, Timing, Waits
  <2>3. CASE row # Rows
    <3>1. dpc' = dpc /\ row' = row + 1 /\ trial' = 0 /\ iter' = 0
      BY <1>15, <2>3 DEF Refuse, Say
    <3> QED
      BY <2>1, <3>1, NextWorkload DEF Judging, HereValidated, Waits
  <2> QED
    BY <2>2, <2>3
<1>16. CASE RoundOn
  <2>1. /\ trial = 0 /\ trial' = 0 /\ row' = row /\ UNCHANGED validated /\ Judging
        /\ dpc' \in {"round", "timing"}
    BY <1>16 DEF RoundOn, PlaceInv, Judging
  <2> QED
    BY <1>t, <2>1 DEF ValidatedInv, HereValidated, Waits
<1>17. CASE GetTiming
  <2>1. /\ trial = 0 /\ trial' = 1 /\ iter' = 0 /\ row' = row /\ UNCHANGED validated /\ Judging
        /\ dpc' = "provide"
    BY <1>17 DEF GetTiming, Receive, PlaceInv, Judging, Waits
  <2>2. \A c \in validated : c.row # row
    BY <1>t, <2>1 DEF ValidatedInv
  <2> QED
    BY <1>t, <2>1, <2>2 DEF ValidatedInv, HereValidated, Waits
<1>18. CASE NextCall
  <2>1. /\ dpc = "wait" /\ down # << >> /\ down[1].result = "ok" /\ asked = "validate"
        /\ Advance /\ UNCHANGED << row, validated >>
    BY <1>18, Received DEF NextCall
  <2>2. HereValidated /\ Judging /\ trial \in 1 .. Trials /\ iter < Calls
    BY <2>1 DEF HereValidated, Judging, Timing, Waits, PlaceInv, TypeOK
  <2>3. Invoked(trial, iter) \in validated
    BY <2>2 DEF ValidatedInv, Here, Invoked
  <2>4. \A i \in 0 .. iter : Invoked(trial, i) \in validated
    <3>1. \A i \in 0 .. iter - 1 : Invoked(trial, i) \in validated
      BY <2>2 DEF ValidatedInv
    <3>2. \A i \in 0 .. iter : i = iter \/ i \in 0 .. iter - 1
      BY <1>t
    <3> QED
      BY <2>3, <3>1, <3>2
  <2>5. /\ \A c \in validated : /\ c.trial > 0 /\ c.row <= row
                                /\ c.row = row => c.trial <= trial
                                /\ c.row = row /\ c.trial = trial => c.iter <= iter
        /\ \A t \in 1 .. trial - 1 : \E n \in Warmup + 1 .. Calls :
             \A i \in 0 .. n - 1 : Invoked(t, i) \in validated
    BY <1>t, <2>2 DEF ValidatedInv
  <2>6. \A t, i : Invoked(t, i)' = Invoked(t, i)
    BY <2>1 DEF Invoked
  <2>7. CASE iter + 1 < Calls /\ iter' = iter + 1 /\ dpc' = "provide" /\ UNCHANGED trial
    <3>1. ~ HereValidated'
      BY <2>7 DEF HereValidated, Waits
    <3>2. (\A i \in 0 .. iter - 1 : Invoked(trial, i) \in validated)'
      <4>1. iter' - 1 = iter
        BY <1>t, <2>7
      <4> QED
        BY <2>1, <2>4, <2>7, <4>1 DEF Invoked
    <3>3. \A c \in validated' : c.row = row' /\ c.trial = trial' => c.iter < iter'
      BY <1>t, <2>1, <2>5, <2>7
    <3> QED
      BY <2>1, <2>5, <2>6, <2>7, <3>1, <3>2, <3>3 DEF ValidatedInv
  <2>8. CASE iter >= Warmup /\ trial < Trials /\ trial' = trial + 1 /\ iter' = 0 /\ dpc' = "provide"
    <3>1. ~ HereValidated'
      BY <2>8 DEF HereValidated, Waits
    <3>2. iter + 1 \in Warmup + 1 .. Calls /\ (iter + 1) - 1 = iter
      BY <1>t, <2>2, <2>8
    <3>3. \A t \in 1 .. trial : \E n \in Warmup + 1 .. Calls :
            \A i \in 0 .. n - 1 : Invoked(t, i) \in validated
      <4>1. \E n \in Warmup + 1 .. Calls : \A i \in 0 .. n - 1 : Invoked(trial, i) \in validated
        BY <2>4, <3>2
      <4>2. \A t \in 1 .. trial : t = trial \/ t \in 1 .. trial - 1
        BY <1>t
      <4> QED
        BY <2>5, <4>1, <4>2
    <3>4. \A c \in validated' : c.row = row' => c.trial < trial'
      BY <1>t, <2>1, <2>5, <2>8
    <3>5. trial' - 1 = trial /\ iter' - 1 = -1
      BY <1>t, <2>8
    <3>6. \A t \in 1 .. trial' - 1 : \E n \in Warmup + 1 .. Calls :
            \A i \in 0 .. n - 1 : Invoked(t, i)' \in validated'
      BY <2>1, <2>6, <3>3, <3>5
    <3>7. \A c \in validated' : /\ c.trial > 0 /\ c.row <= row'
                                /\ c.row = row' => c.trial <= trial' /\ c.trial # trial'
      BY <1>t, <2>1, <2>5, <3>4, <2>8
    <3>8. \A i \in 0 .. iter' - 1 : FALSE
      BY <3>5
    <3> QED
      BY <3>1, <3>6, <3>7, <3>8 DEF ValidatedInv
  <2>9. CASE iter >= Warmup /\ trial = Trials /\ dpc' = "judge" /\ UNCHANGED << trial, iter >>
    BY <2>1, <2>2, <2>9, Kept DEF HereValidated
  <2> QED
    BY <2>1, <2>7, <2>8, <2>9 DEF Advance
<1>19. ASSUME NEW status \in Status, Judgement(status)
      PROVE  ValidatedInv'
  <2>1. Judging /\ UNCHANGED validated
    BY <1>19, Judged DEF Judgement
  <2>2. CASE dpc' \in {"close", "records"} /\ UNCHANGED place
    BY <2>1, <2>2, Kept DEF Judging, Timing, Waits
  <2>3. CASE dpc' = "round" /\ row' = row + 1 /\ trial' = 0 /\ iter' = 0
    BY <2>1, <2>3, NextWorkload DEF HereValidated, Waits
  <2> QED
    BY <1>19, <2>2, <2>3, Judged DEF Said
<1> QED
  BY <1>1, <1>2, <1>3, <1>4, <1>5, <1>6, <1>7, <1>8, <1>9, <1>10, <1>11, <1>12, <1>13, <1>14,
     <1>15, <1>16, <1>17, <1>18, <1>19 DEF DriverStep


\* The worker finds outputs right: they are those of the call the driver waits for.
LEMMA Found ==
  ASSUME TypeOK, ChannelInv, Compare
  PROVE  /\ dpc = "wait" /\ asked = "validate" /\ down = << >> /\ pending = Here
         /\ UNCHANGED driver
         /\ \/ UNCHANGED validated /\ (down' = << >> \/ down'[1].result = "reference")
            \/ validated' = validated \cup {Here} /\ down' # << >> /\ down'[1].result = "ok"
<1>1. /\ wpc = "outputs" /\ PipesOpen /\ up # << >> /\ Head(up) = up[1] /\ up[1].op = "outputs"
  BY Reading DEF Compare
<1>2. ~ QuestionComing
  BY <1>1 DEF QuestionComing, Question, ChannelInv, TypeOK
<1>3. dpc = "wait" /\ down = << >> /\ asked = "validate" /\ OutputsComing
  BY <1>1, <1>2, ToRead
<1>4. pending = Here
  BY <1>3 DEF OutputsComing
<1>5. \A res \in {"ok", "reference"} : Reply(res) => down' # << >> /\ down'[1].result = res
  <2>1. ASSUME NEW res \in {"ok", "reference"}, Reply(res)
        PROVE  down' # << >> /\ down'[1] = Answer(up[1], res)
    BY <1>1, <1>3, <2>1, Replying, EmptySeq
  <2> QED
    BY <2>1 DEF Answer
<1> QED
  BY <1>3, <1>4, <1>5 DEF Compare

\* The worker validates nothing but the case the driver waits for.
LEMMA WorkerValidated ==
  ASSUME TypeOK, ChannelInv, PlaceInv, ValidatedInv, Worker
  PROVE  ValidatedInv'
<1>1. CASE Compare
  <2>1. /\ dpc = "wait" /\ asked = "validate" /\ Judging /\ trial \in 1 .. Trials /\ ~ HereValidated
        /\ UNCHANGED driver /\ Here' = Here
    BY <1>1, Found DEF Judging, Timing, Waits, PlaceInv, HereValidated, Here
  <2>2. CASE UNCHANGED validated /\ (down' = << >> \/ down'[1].result = "reference")
    <3>1. ~ HereValidated'
      BY <2>1, <2>2 DEF HereValidated, Waits
    <3> QED
      BY <2>1, <2>2, <3>1, Kept
  <2>3. CASE validated' = validated \cup {Here} /\ down' # << >> /\ down'[1].result = "ok"
    <3>1. HereValidated' /\ Here' \in validated'
      BY <2>1, <2>3 DEF HereValidated, Waits
    <3>2. \A t, i : Invoked(t, i)' = Invoked(t, i)
      BY <2>1 DEF Invoked
    <3>3. row \in Nat /\ trial \in Nat /\ iter \in Nat
      BY DEF TypeOK
    <3>4. \A c \in validated' : c.trial > 0
      BY <2>1, <2>3 DEF ValidatedInv, Here
    <3>5. \A c \in validated' : /\ c.row <= row'
                                /\ c.row = row' => c.trial <= trial'
                                /\ c.row = row' /\ c.trial = trial' => (c.iter < iter' \/ c.iter = iter')
      BY <2>1, <2>3, <3>3 DEF ValidatedInv, Here
    <3>6. (\A t \in 1 .. trial - 1 : \E n \in Warmup + 1 .. Calls :
             \A i \in 0 .. n - 1 : Invoked(t, i) \in validated)'
      <4>1. \A t \in 1 .. trial - 1 : \E n \in Warmup + 1 .. Calls :
              \A i \in 0 .. n - 1 : Invoked(t, i) \in validated
        BY <2>1 DEF ValidatedInv
      <4> QED
        BY <2>1, <2>3, <3>2, <4>1
    <3>7. (\A i \in 0 .. iter - 1 : Invoked(trial, i) \in validated)'
      <4>1. \A i \in 0 .. iter - 1 : Invoked(trial, i) \in validated
        BY <2>1, <3>3 DEF ValidatedInv
      <4> QED
        BY <2>1, <2>3, <4>1 DEF Invoked
    <3> QED
      BY <3>1, <3>4, <3>5, <3>6, <3>7 DEF ValidatedInv
  <2> QED
    BY <1>1, <2>2, <2>3, Found
<1>2. CASE Produce \/ ProduceTimed \/ Shutdown
  <2>1. dpc = "wait" /\ asked # "validate" /\ UNCHANGED << driver, validated >>
    BY <1>2, Served DEF Produce, ProduceTimed, Shutdown
  <2> QED
    BY <2>1, Kept DEF Judging, Timing, HereValidated, Waits
<1>3. CASE Load \/ ExpectOutputs \/ OutOfStep \/ Orphan
  <2>1. UNCHANGED << driver, down, validated >>
    BY <1>3 DEF Load, ExpectOutputs, OutOfStep, Orphan
  <2> QED
    BY <2>1, Kept DEF Judging, Timing, HereValidated, Waits
<1> QED
  BY <1>1, <1>2, <1>3 DEF Worker

\* Every step keeps what has been validated without a gap.
LEMMA ValidatedStep ==
  ASSUME TypeOK, ChannelInv, PlaceInv, ValidatedInv, [Next]_vars
  PROVE  ValidatedInv'
<1>1. ASSUME UNCHANGED << driver, down, validated >>
      PROVE  ValidatedInv'
  BY <1>1, Kept DEF Judging, Timing, HereValidated, Waits
<1>2. ASSUME dpc' = "dead", UNCHANGED << place, validated >>
      PROVE  ValidatedInv'
  BY <1>2, Kept DEF Judging, Timing, Waits
<1>3. HostMoves => \/ UNCHANGED << driver, down, validated >>
                   \/ dpc' = "dead" /\ UNCHANGED << place, validated >>
  BY DEF HostMoves, HostJudge, HostTimeout, DriverDies, WorkerDies
<1> QED
  BY <1>1, <1>2, <1>3, Steps, DriverValidated, WorkerValidated

-----------------------------------------------------------------------------
(* The theorems. *)

\* It holds at first.
LEMMA InitIInv ==
  ASSUME Init
  PROVE  IInv
<1>1. up \in Seq(UpFrame) /\ down \in Seq(DownFrame) /\ traces \in Seq([row : Row, status : Status])
  BY EmptySeq DEF Init
<1>2. TypeOK
  BY <1>1 DEF Init, TypeOK
<1>3. ChannelInv /\ OutputsInv
  BY EmptySeq DEF Init, ChannelInv, OutputsInv
<1>4. Len(traces) = 0 /\ DOMAIN traces = {}
  BY EmptySeq DEF Init
<1>5. PlaceInv
  BY <1>4 DEF Init, PlaceInv, Timing, Waits
<1>6. EvidenceInv
  BY <1>4 DEF Init, EvidenceInv, PassedRows, Ending, Waits
<1>7. ValidatedInv
  BY DEF Init, ValidatedInv, HereValidated, Waits
<1> QED
  BY <1>2, <1>3, <1>5, <1>6, <1>7 DEF IInv

\* It is kept by every step.
LEMMA StepIInv ==
  ASSUME IInv, [Next]_vars
  PROVE  IInv'
BY TypeStep, ChannelStep, OutputsStep, PlaceStep, EvidenceStep, ValidatedStep DEF IInv

\* What the proofs of all properties rest on.
THEOREM Inductive == Spec => []IInv
<1>1. Init => IInv
  BY InitIInv
<1>2. IInv /\ [Next]_vars => IInv'
  BY StepIInv
<1> QED
  BY <1>1, <1>2, PTL DEF Spec

\* The counters and program counters keep their ranges (_variation_index is never out of range).
THEOREM TypeCorrect == Spec => []TypeOK
<1>1. IInv => TypeOK
  BY DEF IInv
<1> QED
  BY <1>1, Inductive, PTL

\* What the driver takes for an answer answers its question, and the outputs of a timed call
\* are compared with what was expected of that call, whichever process dies and when.
THEOREM AnswersAreOwn == Spec => []AnswersMatch
<1>1. ASSUME IInv
      PROVE  AnswersMatch
  <2>1. up \in Seq(UpFrame) /\ down \in Seq(DownFrame) /\ ChannelInv /\ OutputsInv
    BY <1>1 DEF IInv, TypeOK
  <2>2. (down # << >> => Head(down) = down[1]) /\ (up # << >> => Head(up) = up[1])
    BY <2>1, Taken
  <2> QED
    BY <2>1, <2>2 DEF ChannelInv, Answered, OutputsInv, AnswersMatch
<1>2. IInv => AnswersMatch
  BY <1>1
<1> QED
  BY <1>2, Inductive, PTL

\* An accepted evaluation has timing evidence for the workloads that passed and no others.
THEOREM EvidenceIsForPassed == Spec => []EvidenceForPassed
<1>1. IInv => EvidenceForPassed
  BY DEF IInv, EvidenceInv, EvidenceForPassed, Ending
<1> QED
  BY <1>1, Inductive, PTL

\* The driver works while the host waits.
LEMMA Running ==
  ASSUME TypeOK, ChannelInv, PlaceInv, EvidenceInv
  PROVE  dpc \notin {"exited", "dead"} => hpc = "running"
BY DEF EvidenceInv

\* What is said of the workload under way.
LEMMA SaidIsJudged ==
  ASSUME TypeOK, PlaceInv, hpc = "running", UNCHANGED << hpc, validated >>, Judging, NEW status \in Status,
         traces' = Append(traces, Record(status)),
         status = "PASSED" => Abstract!Measured(row, validated)
  PROVE  Abstract!Next
<1>1. row = Len(traces) + 1 /\ row \in 1 .. Rows /\ Len(traces) \in Nat
  <2>1. traces \in Seq([row : Row, status : Status]) /\ row \in Row
    BY DEF TypeOK
  <2> QED
    BY <2>1, LenProperties DEF PlaceInv
<1>2. Len(traces) < Rows
  BY <1>1
<1>3. Abstract!Judge(status)
  BY <1>1, <1>2 DEF Abstract!Judge, Record
<1> QED
  BY <1>3 DEF Abstract!Next, Abstract!Status, Status

\* A workload that is about to pass has had every timed call validated (eval_timing.py).
LEMMA PassedIsMeasured ==
  ASSUME TypeOK, PlaceInv, ValidatedInv, dpc = "judge"
  PROVE  Abstract!Measured(row, validated)
<1>1. /\ Judging /\ HereValidated /\ trial = Trials /\ trial > 0 /\ iter >= Warmup /\ iter < Calls
      /\ trial \in Nat /\ iter \in Nat
  BY DEF Judging, Timing, HereValidated, PlaceInv, TypeOK
<1>2. \A t, i : Abstract!Invocation(row, t, i) = Invoked(t, i)
  BY DEF Abstract!Invocation, Invoked
<1>3. Invoked(trial, iter) \in validated
  BY <1>1 DEF ValidatedInv, Here, Invoked
<1>4. \A i \in 0 .. iter : Invoked(trial, i) \in validated
  <2>1. \A i \in 0 .. iter - 1 : Invoked(trial, i) \in validated
    BY <1>1 DEF ValidatedInv
  <2>2. \A i \in 0 .. iter : i = iter \/ i \in 0 .. iter - 1
    BY <1>1
  <2> QED
    BY <1>3, <2>1, <2>2
<1>5. \E n \in Warmup + 1 .. Calls : \A i \in 0 .. n - 1 : Invoked(trial, i) \in validated
  <2>1. iter + 1 \in Warmup + 1 .. Calls /\ (iter + 1) - 1 = iter
    BY <1>1
  <2> QED
    BY <1>4, <2>1
<1>6. \A t \in 1 .. trial - 1 : \E n \in Warmup + 1 .. Calls :
        \A i \in 0 .. n - 1 : Invoked(t, i) \in validated
  BY <1>1 DEF ValidatedInv
<1>7. \A t \in 1 .. Trials : t = trial \/ t \in 1 .. trial - 1
  BY <1>1
<1>8. \A t \in 1 .. Trials : \E n \in Warmup + 1 .. Calls :
        \A i \in 0 .. n - 1 : Invoked(t, i) \in validated
  BY <1>5, <1>6, <1>7
<1> QED
  BY <1>2, <1>8 DEF Abstract!Measured

\* Every step is one the abstract specification allows, or changes nothing it speaks of.
LEMMA StepIsJudged ==
  ASSUME IInv, [Next]_vars
  PROVE  [Abstract!Next]_<< traces, validated, hpc >>
<1>i. TypeOK /\ ChannelInv /\ PlaceInv /\ EvidenceInv /\ ValidatedInv
  BY DEF IInv
<1>1. CASE UNCHANGED << traces, validated, hpc >>
  BY <1>1
<1>2. CASE Refuse
  <2>1. /\ Judging /\ hpc = "running" /\ UNCHANGED << hpc, validated >>
    BY <1>2, <1>i, Running DEF Refuse, Judging
  <2>2. PICK status \in {"REWARD_HACK", "RUNTIME_ERROR"} : traces' = Append(traces, Record(status))
    BY <1>2 DEF Refuse, Say, Record
  <2>3. status \in Status /\ status # "PASSED"
    BY <2>2 DEF Status
  <2> QED
    BY <1>i, <2>1, <2>2, <2>3, SaidIsJudged
<1>3. ASSUME NEW status \in Status, Judgement(status)
      PROVE  [Abstract!Next]_<< traces, validated, hpc >>
  <2>1. /\ Judging /\ dpc \notin {"exited", "dead"} /\ UNCHANGED << hpc, validated >>
        /\ status = "PASSED" => dpc = "judge"
    BY <1>3, Judged DEF Judgement, Judging, Timing, Waits
  <2>2. hpc = "running"
    BY <1>i, <2>1, Running
  <2>3. CASE traces' = Append(traces, Record(status))
    BY <1>i, <2>1, <2>2, <2>3, SaidIsJudged, PassedIsMeasured
  <2>4. CASE UNCHANGED traces
    BY <2>1, <2>4
  <2> QED
    BY <1>3, <2>3, <2>4, Judged DEF Said
<1>4. CASE Compare
  <2>1. /\ dpc = "wait" /\ asked = "validate" /\ down = << >> /\ UNCHANGED << traces, hpc >>
        /\ UNCHANGED validated \/ validated' = validated \cup {Here}
    BY <1>4, <1>i, Found DEF Compare
  <2>2. CASE validated' = validated \cup {Here}
    <3>1. hpc = "running" /\ Judging /\ ~ HereValidated /\ trial \in 1 .. Trials
      BY <1>i, <2>1, Running DEF Judging, Timing, Waits, HereValidated, PlaceInv
    <3>2. row = Len(traces) + 1 /\ iter \in 0 .. Warmup + Iterations - 1 /\ row \in Nat
      BY <1>i, <3>1 DEF PlaceInv, TypeOK
    <3>3. Here \notin validated
      <4>1. \A c \in validated : c.row = row /\ c.trial = trial => c.iter < iter
        BY <1>i, <3>1 DEF ValidatedInv
      <4>2. Here.row = row /\ Here.trial = trial /\ Here.iter = iter
        BY DEF Here
      <4> QED
        BY <3>2, <4>1, <4>2
    <3>4. Here = Abstract!Invocation(Len(traces) + 1, trial, iter)
      BY <3>2 DEF Here, Abstract!Invocation
    <3>5. Abstract!Validate
      BY <2>1, <2>2, <3>1, <3>2, <3>3, <3>4 DEF Abstract!Validate
    <3> QED
      BY <3>5 DEF Abstract!Next
  <2> QED
    BY <2>1, <2>2
<1>5. CASE HostJudge
  <2>1. Abstract!Conclude(hpc')
    BY <1>5 DEF HostJudge, Abstract!Conclude
  <2> QED
    BY <1>5, <2>1 DEF HostJudge, Abstract!Next
<1>6. CASE HostTimeout
  <2>1. Abstract!Conclude("timeout")
    BY <1>6 DEF HostTimeout, Abstract!Conclude
  <2> QED
    BY <2>1 DEF Abstract!Next
<1> QED
  <2>1. DriverStep => \/ Refuse \/ \E status \in Status : Judgement(status)
                      \/ UNCHANGED << traces, validated, hpc >>
    BY DEF DriverStep, Boot, Import, SendRound, SendTiming, SendIteration, SendHeader, Sends,
       SendOutputs,
       GetRound, GetTiming, GetCall, Continue, RoundOn, CallOn, NextCall, Write, Close, Closed, Reap
  <2>2. Worker => Compare \/ UNCHANGED << traces, validated, hpc >>
    BY DEF Worker, Load, Produce, ProduceTimed, ExpectOutputs, OutOfStep, Shutdown, Orphan
  <2>3. HostMoves => HostJudge \/ HostTimeout \/ UNCHANGED << traces, validated, hpc >>
    BY DEF HostMoves, DriverDies, WorkerDies
  <2> QED
    BY <1>i, <1>1, <1>2, <1>3, <1>4, <1>5, <1>6, <2>1, <2>2, <2>3, Steps

\* The two processes implement the abstract specification: a workload passes only when every
\* invocation that was timed has been validated, each once, and none is missing when accepted.
THEOREM Judges == Spec => EvaluationIsJudged
<1>1. Init => Abstract!Init
  BY DEF Init, Abstract!Init
<1>2. IInv /\ [Next]_vars => [Abstract!Next]_<< traces, validated, hpc >>
  BY StepIsJudged
<1> QED
  BY <1>1, <1>2, Inductive, PTL DEF Spec, EvaluationIsJudged, Abstract!Spec

===============================================================================
