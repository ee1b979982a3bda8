-------------------------- MODULE TimedEvaluationEnds --------------------------
(***************************************************************************)
(* Why an evaluation ends, for any number of workloads, rounds and calls,  *)
(* whatever fails: the safety half of EvaluationEnds.  A rank in a         *)
(* well-founded order falls with every step of every process, so there are *)
(* finitely many steps; and while the host waits, somebody can go on.      *)
(***************************************************************************)
EXTENDS TimedEvaluationProofs, WellFoundedInduction

USE EvaluationAssumption
USE DEF place, result, driver, worker, history, vars, Row, Calls, Asks

-----------------------------------------------------------------------------
(* The rank. *)

HostLeft == IF hpc = "running" THEN 1 ELSE 0

\* How far the driver is with the whole evaluation.
PhaseLeft ==
  CASE dpc = "boot"   -> 4
    [] dpc = "import" -> 3
    [] dpc \in {"records", "close", "reap"} \/ Waits("shutdown") -> 1
    [] dpc \in {"exited", "dead"} -> 0
    [] OTHER -> 2

RowsLeft   == Rows - row
TrialsLeft == Trials - trial
CallsLeft  == (Rounds + Calls) - iter

\* How far it is with a round, a call, or its end.
StepsLeft ==
  CASE dpc = "provide" -> 9
    [] dpc = "round" \/ Waits("iteration") -> 8
    [] dpc = "call" \/ Waits("correctness") -> 7
    [] dpc \in {"compare", "offer"} -> 6
    [] dpc \in {"timing", "payload", "records"} -> 5
    [] dpc = "close" \/ Waits("timing") \/ Waits("validate") -> 4
    [] dpc = "judge" \/ Waits("shutdown") -> 3
    [] OTHER -> 2

\* What the worker has yet to do.
WorkerLeft == CASE wpc = "loading" -> 2 [] wpc = "gone" -> 0 [] OTHER -> 1

Rank  == << HostLeft, PhaseLeft, RowsLeft, TrialsLeft, CallsLeft, StepsLeft, Len(up) + WorkerLeft >>
Ranks == [1 .. 7 -> Nat]
Below == LexProductOrdering(OpToRel(<, Nat), Nat, 7)

\* The first part of the rank that changes falls: what follows it may grow.
CallFalls ==
  \/ CallsLeft' < CallsLeft
  \/ CallsLeft' = CallsLeft /\ StepsLeft' < StepsLeft
  \/ CallsLeft' = CallsLeft /\ StepsLeft' = StepsLeft /\ Len(up') + WorkerLeft' < Len(up) + WorkerLeft
RowFalls ==
  \/ RowsLeft' < RowsLeft
  \/ RowsLeft' = RowsLeft /\ TrialsLeft' < TrialsLeft
  \/ RowsLeft' = RowsLeft /\ TrialsLeft' = TrialsLeft /\ CallFalls
Falls ==
  \/ HostLeft' < HostLeft
  \/ HostLeft' = HostLeft /\ PhaseLeft' < PhaseLeft
  \/ HostLeft' = HostLeft /\ PhaseLeft' = PhaseLeft /\ RowFalls

\* The rank is made of natural numbers.
LEMMA RankType ==
  ASSUME TypeOK
  PROVE  /\ HostLeft \in Nat /\ PhaseLeft \in Nat /\ RowsLeft \in Nat /\ TrialsLeft \in Nat
         /\ CallsLeft \in Nat /\ StepsLeft \in Nat /\ Len(up) \in Nat /\ WorkerLeft \in Nat
         /\ Rank \in Ranks
<1>1. HostLeft \in Nat /\ PhaseLeft \in Nat /\ StepsLeft \in Nat /\ WorkerLeft \in Nat
  BY DEF HostLeft, PhaseLeft, StepsLeft, WorkerLeft
<1>2. RowsLeft \in Nat /\ TrialsLeft \in Nat /\ CallsLeft \in Nat
  BY DEF RowsLeft, TrialsLeft, CallsLeft, TypeOK
<1>3. Len(up) \in Nat
  BY LenProperties DEF TypeOK
<1>4. Len(up) + WorkerLeft \in Nat
  BY <1>1, <1>3
<1>5. Rank \in Ranks
  BY <1>1, <1>2, <1>4 DEF Rank, Ranks
<1> QED
  BY <1>1, <1>2, <1>3, <1>5

-----------------------------------------------------------------------------
(* Every step lowers the rank. *)

\* A verdict of any kind ends the workload, or the evaluation of workloads.
LEMMA VerdictFalls ==
  ASSUME TypeOK, PlaceInv, NEW status, Judgement(status)
  PROVE  Falls
<1>1. row \in Row /\ HostLeft' = HostLeft /\ PhaseLeft = 2
  BY Judged DEF TypeOK, HostLeft, PhaseLeft, Judgement, Judging, Timing, Waits
<1>2. CASE dpc' \in {"close", "records"}
  <2>1. PhaseLeft' = 1
    BY <1>2 DEF PhaseLeft
  <2> QED
    BY <1>1, <2>1 DEF Falls
<1>3. CASE dpc' = "round" /\ row' = row + 1
  <2>1. PhaseLeft' = 2 /\ RowsLeft' < RowsLeft
    BY <1>1, <1>3 DEF PhaseLeft, RowsLeft, Waits
  <2> QED
    BY <1>1, <2>1 DEF Falls, RowFalls
<1> QED
  BY <1>2, <1>3, Judged DEF Said

\* What the driver does otherwise.
LEMMA DriverFalls ==
  ASSUME TypeOK, ChannelInv, PlaceInv, DriverStep
  PROVE  Falls
<1>t. row \in Row /\ trial \in 0 .. Trials /\ iter \in 0 .. Rounds + Calls
  BY DEF TypeOK
<1> USE DEF Falls
<1>h. HostLeft' = HostLeft
  BY Judged DEF DriverStep, Boot, Import, Refuse, SendRound, SendTiming, SendIteration, SendHeader, Sends,
     SendOutputs, GetRound, GetTiming, GetCall, Continue, RoundOn, CallOn, NextCall, Write, Close, Closed,
     Reap, HostLeft
<1>a. ASSUME PhaseLeft' = PhaseLeft, UNCHANGED place, StepsLeft' < StepsLeft
      PROVE  Falls
  BY <1>h, <1>a DEF RowFalls, CallFalls, RowsLeft, TrialsLeft, CallsLeft
<1>1. CASE Boot
  <2>1. PhaseLeft' < PhaseLeft
    BY <1>1 DEF Boot, PhaseLeft, Waits
  <2> QED
    BY <1>h, <2>1
<1>2. CASE Import
  <2>1. PhaseLeft' < PhaseLeft
    BY <1>2 DEF Import, PhaseLeft, Waits
  <2> QED
    BY <1>h, <2>1
<1>3. CASE Refuse
  <2>1. CASE row = Rows
    <3>1. PhaseLeft' < PhaseLeft
      BY <1>3, <2>1 DEF Refuse, Say, PhaseLeft, Waits
    <3> QED
      BY <1>h, <3>1
  <2>2. CASE row # Rows
    <3>1. PhaseLeft' = PhaseLeft /\ RowsLeft' < RowsLeft
      BY <1>3, <1>t, <2>2 DEF Refuse, Say, PhaseLeft, Waits, RowsLeft
    <3> QED
      BY <1>h, <3>1 DEF RowFalls
  <2> QED
    BY <2>1, <2>2
<1>4. CASE SendRound
  <2>1. PhaseLeft' = PhaseLeft /\ StepsLeft' < StepsLeft
    BY <1>4 DEF SendRound, Sends, PhaseLeft, StepsLeft, Waits
  <2> QED
    BY <1>4, <1>a, <2>1 DEF SendRound, Sends
<1>5. CASE SendTiming
  <2>1. PhaseLeft' = PhaseLeft /\ StepsLeft' < StepsLeft
    BY <1>5 DEF SendTiming, Sends, PhaseLeft, StepsLeft, Waits
  <2> QED
    BY <1>5, <1>a, <2>1 DEF SendTiming, Sends
<1>6. CASE SendIteration
  <2>1. PhaseLeft' = PhaseLeft /\ StepsLeft' < StepsLeft
    BY <1>6 DEF SendIteration, Sends, PhaseLeft, StepsLeft, Waits
  <2> QED
    BY <1>6, <1>a, <2>1 DEF SendIteration, Sends
<1>7. CASE SendHeader
  <2>1. PhaseLeft' = PhaseLeft /\ StepsLeft' < StepsLeft
    BY <1>7 DEF SendHeader, Sends, PhaseLeft, StepsLeft, Waits
  <2> QED
    BY <1>7, <1>a, <2>1 DEF SendHeader, Sends
<1>8. CASE SendOutputs
  <2>1. asked = "validate"
    BY <1>8 DEF SendOutputs, ChannelInv
  <2>2. PhaseLeft' = PhaseLeft /\ StepsLeft' < StepsLeft
    BY <1>8, <2>1 DEF SendOutputs, PhaseLeft, StepsLeft, Waits
  <2> QED
    BY <1>8, <1>a, <2>2 DEF SendOutputs
<1>9. CASE GetRound
  <2>1. PhaseLeft' = PhaseLeft /\ StepsLeft' < StepsLeft
    BY <1>9 DEF GetRound, Receive, Continue, PhaseLeft, StepsLeft, Waits
  <2> QED
    BY <1>9, <1>a, <2>1 DEF GetRound, Continue
<1>10. CASE GetTiming
  <2>1. PhaseLeft' = PhaseLeft /\ trial = 0 /\ trial' = 1 /\ UNCHANGED row
    BY <1>10 DEF GetTiming, Receive, PhaseLeft, PlaceInv, Waits
  <2>2. RowsLeft' = RowsLeft /\ TrialsLeft' < TrialsLeft
    BY <2>1 DEF RowsLeft, TrialsLeft
  <2> QED
    BY <1>h, <2>1, <2>2 DEF RowFalls
<1>11. CASE GetCall
  <2>1. PhaseLeft' = PhaseLeft /\ StepsLeft' < StepsLeft
    BY <1>11 DEF GetCall, Receive, Continue, PhaseLeft, StepsLeft, Waits
  <2> QED
    BY <1>11, <1>a, <2>1 DEF GetCall, Continue
<1>12. CASE RoundOn
  <2>1. PhaseLeft' = PhaseLeft /\ RowsLeft' = RowsLeft /\ TrialsLeft' = TrialsLeft
    BY <1>12 DEF RoundOn, PhaseLeft, RowsLeft, TrialsLeft, Waits
  <2>2. CallsLeft' < CallsLeft
    BY <1>12, <1>t DEF RoundOn, CallsLeft
  <2> QED
    BY <1>h, <2>1, <2>2 DEF RowFalls, CallFalls
<1>13. CASE CallOn
  <2>1. PhaseLeft' = PhaseLeft /\ StepsLeft' < StepsLeft
    BY <1>13 DEF CallOn, Continue, PhaseLeft, StepsLeft, Waits
  <2> QED
    BY <1>13, <1>a, <2>1 DEF CallOn, Continue
<1>14. CASE NextCall
  <2>1. dpc = "wait" /\ asked = "validate" /\ Advance /\ UNCHANGED row
    BY <1>14 DEF NextCall, Receive
  <2>2. PhaseLeft' = PhaseLeft /\ RowsLeft' = RowsLeft
    BY <2>1 DEF Advance, PhaseLeft, RowsLeft, Waits
  <2>3. CASE iter' = iter + 1 /\ UNCHANGED trial
    <3>1. TrialsLeft' = TrialsLeft /\ CallsLeft' < CallsLeft
      BY <1>t, <2>3 DEF TrialsLeft, CallsLeft
    <3> QED
      BY <1>h, <2>2, <3>1 DEF RowFalls, CallFalls
  <2>4. CASE trial' = trial + 1
    <3>1. TrialsLeft' < TrialsLeft
      BY <1>t, <2>4 DEF TrialsLeft
    <3> QED
      BY <1>h, <2>2, <3>1 DEF RowFalls
  <2>5. CASE dpc' = "judge" /\ UNCHANGED place
    <3>1. StepsLeft' < StepsLeft
      BY <2>1, <2>5 DEF StepsLeft, Waits
    <3> QED
      BY <1>a, <2>2, <2>5, <3>1
  <2> QED
    BY <2>1, <2>3, <2>4, <2>5 DEF Advance
<1>15. CASE Write
  <2>1. PhaseLeft' = PhaseLeft /\ StepsLeft' < StepsLeft
    BY <1>15 DEF Write, PhaseLeft, StepsLeft, Waits
  <2> QED
    BY <1>15, <1>a, <2>1 DEF Write
<1>16. CASE Close
  <2>1. PhaseLeft' = PhaseLeft /\ StepsLeft' < StepsLeft
    BY <1>16 DEF Close, PhaseLeft, StepsLeft, Waits
  <2> QED
    BY <1>16, <1>a, <2>1 DEF Close
<1>17. CASE Closed
  <2>1. PhaseLeft' = PhaseLeft /\ StepsLeft' < StepsLeft
    BY <1>17 DEF Closed, Receive, EndOfPipe, PhaseLeft, StepsLeft, Waits
  <2> QED
    BY <1>17, <1>a, <2>1 DEF Closed
<1>18. CASE Reap
  <2>1. PhaseLeft' < PhaseLeft
    BY <1>18 DEF Reap, PhaseLeft, Waits
  <2> QED
    BY <1>h, <2>1
<1> QED
  BY <1>1, <1>2, <1>3, <1>4, <1>5, <1>6, <1>7, <1>8, <1>9, <1>10, <1>11, <1>12, <1>13, <1>14, <1>15,
     <1>16, <1>17, <1>18, VerdictFalls DEF DriverStep

\* The worker reads, or comes to its end.
LEMMA WorkerFalls ==
  ASSUME TypeOK, Worker
  PROVE  Falls
<1>1. UNCHANGED << driver, hpc >>
  BY DEF Worker, Load, Produce, ProduceTimed, ExpectOutputs, Compare, OutOfStep, Shutdown, Orphan
<1>2. /\ HostLeft' = HostLeft /\ PhaseLeft' = PhaseLeft /\ RowsLeft' = RowsLeft
      /\ TrialsLeft' = TrialsLeft /\ CallsLeft' = CallsLeft /\ StepsLeft' = StepsLeft
  BY <1>1 DEF HostLeft, PhaseLeft, RowsLeft, TrialsLeft, CallsLeft, StepsLeft, Waits
<1>l. Len(up) \in Nat
  BY RankType
<1>3. CASE Load \/ Orphan
  <2>1. up' = up /\ WorkerLeft' < WorkerLeft
    BY <1>3 DEF Load, Orphan, WorkerLeft, TypeOK
  <2>2. WorkerLeft \in Nat /\ WorkerLeft' \in Nat
    BY DEF WorkerLeft
  <2> QED
    BY <1>2, <1>l, <2>1, <2>2 DEF Falls, RowFalls, CallFalls
<1>4. CASE Produce \/ ProduceTimed \/ ExpectOutputs \/ Compare \/ OutOfStep \/ Shutdown
  <2>1. PICK state \in {"ready", "outputs"} : \E ops : Reads(state, ops)
    BY <1>4 DEF Produce, ProduceTimed, ExpectOutputs, Compare, OutOfStep, Shutdown
  <2>2. Len(up') = Len(up) - 1 /\ wpc = state
    BY <2>1, Reading
  <2>3. wpc' \in {"ready", "outputs", "gone"}
    BY <1>4, <2>1, <2>2 DEF Produce, ProduceTimed, Unable, Unsendable, ExpectOutputs, Compare, OutOfStep, Shutdown
  <2>4. WorkerLeft = 1 /\ WorkerLeft' \in {0, 1}
    BY <2>1, <2>2, <2>3 DEF WorkerLeft
  <2> QED
    BY <1>2, <1>l, <2>2, <2>4 DEF Falls, RowFalls, CallFalls
<1> QED
  BY <1>3, <1>4 DEF Worker

\* The host concludes once; what is killed does no more.
LEMMA HostFalls ==
  ASSUME TypeOK, HostMoves
  PROVE  Falls
<1>1. CASE HostJudge \/ HostTimeout
  <2>1. hpc = "running" /\ hpc' # "running"
    BY <1>1 DEF HostJudge, HostTimeout
  <2>2. HostLeft' < HostLeft
    BY <2>1 DEF HostLeft
  <2> QED
    BY <2>2 DEF Falls
<1>2. CASE DriverDies
  <2>1. HostLeft' = HostLeft /\ PhaseLeft' < PhaseLeft
    BY <1>2 DEF DriverDies, HostLeft, PhaseLeft, Waits
  <2> QED
    BY <2>1 DEF Falls
<1>3. CASE WorkerDies
  <2>1. UNCHANGED << driver, up, hpc >>
    BY <1>3 DEF WorkerDies
  <2>2. /\ HostLeft' = HostLeft /\ PhaseLeft' = PhaseLeft /\ RowsLeft' = RowsLeft
        /\ TrialsLeft' = TrialsLeft /\ CallsLeft' = CallsLeft /\ StepsLeft' = StepsLeft
    BY <2>1 DEF HostLeft, PhaseLeft, RowsLeft, TrialsLeft, CallsLeft, StepsLeft, Waits
  <2>3. WorkerLeft' = 0 /\ WorkerLeft \in {1, 2}
    BY <1>3 DEF WorkerDies, WorkerLeft
  <2>4. Len(up) \in Nat
    BY RankType
  <2> QED
    BY <2>1, <2>2, <2>3, <2>4 DEF Falls, RowFalls, CallFalls
<1> QED
  BY <1>1, <1>2, <1>3 DEF HostMoves

\* A fall of the parts is a fall of the rank.
LEMMA FallIsBelow ==
  ASSUME Rank \in Ranks, Rank' \in Ranks, Falls
  PROVE  << Rank', Rank >> \in Below
<1>1. ASSUME NEW j \in 1 .. 7, \A i \in 1 .. j - 1 : Rank'[i] = Rank[i], Rank'[j] < Rank[j]
      PROVE  << Rank', Rank >> \in Below
  <2>1. Rank'[j] \in Nat /\ Rank[j] \in Nat
    BY DEF Ranks
  <2>2. << Rank'[j], Rank[j] >> \in OpToRel(<, Nat)
    BY <1>1, <2>1 DEF OpToRel
  <2> QED
    BY <1>1, <2>2 DEF Below, LexProductOrdering, Ranks
<1>r. /\ Rank[1] = HostLeft /\ Rank[2] = PhaseLeft /\ Rank[3] = RowsLeft /\ Rank[4] = TrialsLeft
      /\ Rank[5] = CallsLeft /\ Rank[6] = StepsLeft /\ Rank[7] = Len(up) + WorkerLeft
      /\ Rank'[1] = HostLeft' /\ Rank'[2] = PhaseLeft' /\ Rank'[3] = RowsLeft' /\ Rank'[4] = TrialsLeft'
      /\ Rank'[5] = CallsLeft' /\ Rank'[6] = StepsLeft' /\ Rank'[7] = Len(up') + WorkerLeft'
  BY DEF Rank
<1>2. \E j \in 1 .. 7 : (\A i \in 1 .. j - 1 : Rank'[i] = Rank[i]) /\ Rank'[j] < Rank[j]
  BY <1>r DEF Falls, RowFalls, CallFalls
<1> QED
  BY <1>1, <1>2

Ranked == Rank \in Ranks

\* There is no infinite descent from any rank.
LEMMA NoInfiniteDescent == IsWellFoundedOn(Below, Ranks)
BY NatLessThanWellFounded, WFLexProductOrdering DEF Below, Ranks

\* A step that goes down in it.
Descends == << Rank', Rank >> \in Below

\* Every step of either process, of the host, and every crash lowers the rank: an evaluation
\* of any number of workloads, rounds, trials and calls has finitely many steps, whatever
\* fails in whichever order (eval_driver.py, reference_service.py, cli/evaluation/runtime.py).
THEOREM EveryStepCounts == Spec => []Ranked /\ [][Descends]_vars
<1>1. IInv => Ranked
  BY RankType DEF IInv, Ranked
<1>2. ASSUME IInv, Ranked, Ranked', Next
      PROVE  Descends
  <2>1. DriverStep \/ Worker \/ HostMoves
    BY <1>2, DriverSteps DEF Next, HostMoves, IInv
  <2>2. Falls
    BY <1>2, <2>1, DriverFalls, WorkerFalls, HostFalls DEF IInv
  <2> QED
    BY <1>2, <2>2, FallIsBelow DEF Ranked, Descends
<1> QED
  BY <1>1, <1>2, Inductive, PTL DEF Spec

-----------------------------------------------------------------------------
(* Somebody can go on. *)

\* The worker has something to read where it reads, or to end.
WorkersTurn ==
  \/ wpc = "loading" /\ PipesOpen
  \/ wpc = "ready" /\ PipesOpen /\ up # << >> /\ Head(up).op \in Asks
  \/ wpc = "outputs" /\ PipesOpen /\ up # << >>
  \/ wpc # "gone" /\ ~ PipesOpen

\* The driver does not wait, or what it waits for is there.
DriversTurn ==
  \/ dpc \notin {"boot", "wait", "reap", "exited", "dead"}
  \/ dpc = "boot" /\ wpc # "loading"
  \/ dpc = "wait" /\ (down # << >> \/ wpc = "gone")
  \/ dpc = "reap" /\ wpc = "gone"

HostsTurn == dpc \in {"exited", "dead"}

\* While the host waits, one of the three can go on: no answer is lost, no question is read
\* where outputs are expected while its asker waits, and nobody waits on the other for ever.
\* While the driver waits for an answer, it and the worker are never both to go on.
TurnInv ==
  /\ hpc = "running" => DriversTurn \/ WorkersTurn \/ HostsTurn
  /\ dpc = "wait" => ~ (DriversTurn /\ WorkersTurn)

\* An evaluation cannot come to a stop with the host still waiting, whichever process dies
\* and when (reference_service.py, eval_driver.py).
THEOREM TakesTurns == Spec => []TurnInv
<1>1. ASSUME IInv
      PROVE  TurnInv
  <2>i. TypeOK /\ ChannelInv
    BY <1>1 DEF IInv
  <2>u. up \in Seq(UpFrame)
    BY <2>i DEF TypeOK
  <2>1. CASE dpc = "wait" /\ down = << >> /\ wpc # "gone"
    <3>1. wpc # "loading" /\ PipesOpen
      BY <2>1, <2>i DEF ChannelInv, PipesOpen
    <3>2. up # << >> /\ (wpc = "ready" => up[1].op \in Asks)
      <4>1. CASE asked = "validate"
        <5>1. OutputsComing
          BY <2>1, <2>i, <4>1 DEF ChannelInv
        <5>2. Len(up) # 0 /\ (wpc = "ready" => up[1].op = "validate")
          BY <5>1 DEF OutputsComing, Outputs
        <5> QED
          BY <2>u, <5>2, EmptySeq
      <4>2. CASE asked # "validate"
        <5>1. QuestionComing /\ asked \in Asks
          BY <2>1, <2>i, <4>2 DEF ChannelInv
        <5>2. Question(asked).op = asked
          BY DEF Question
        <5> QED
          BY <2>u, <5>1, <5>2, Empty DEF QuestionComing
      <4> QED
        BY <4>1, <4>2
    <3>3. Head(up) = up[1]
      BY <2>u, <3>2, Taken
    <3>4. WorkersTurn
      BY <2>1, <2>i, <3>1, <3>2, <3>3 DEF WorkersTurn, TypeOK
    <3> QED
      BY <2>1, <3>4 DEF TurnInv, DriversTurn
  <2>2. CASE dpc = "wait" /\ (down # << >> \/ wpc = "gone")
    <3>1. wpc = "gone" \/ InStep
      BY <2>2, <2>i DEF ChannelInv, Answered
    <3>2. PipesOpen
      BY <2>2 DEF PipesOpen
    <3>3. ~ WorkersTurn
      BY <3>1, <3>2 DEF WorkersTurn, InStep
    <3> QED
      BY <2>2, <3>3 DEF TurnInv, DriversTurn
  <2>3. CASE dpc # "wait"
    BY <2>3, <2>i DEF TurnInv, DriversTurn, WorkersTurn, HostsTurn, PipesOpen, TypeOK
  <2> QED
    BY <2>1, <2>2, <2>3
<1> QED
  BY <1>1, Inductive, PTL
===============================================================================
