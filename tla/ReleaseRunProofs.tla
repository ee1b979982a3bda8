---------------------------- MODULE ReleaseRunProofs ----------------------------
(***************************************************************************)
(* Proofs about ReleaseRun, for any number of processes, configurations,   *)
(* problems and commands, and for both roles.                              *)
(*                                                                         *)
(* IInv is inductive.  A step moves one command and leaves the others      *)
(* where they are (OthersStay), so each conjunct that speaks of one        *)
(* command at a time is taken through the steps of that command alone      *)
(* (WalkMoves, PassedMoves, RunMoves).  What holds the stages in order is  *)
(* that a walk goes on only over gates for the command's own               *)
(* configuration, and that gates and the stages that passed only grow.     *)
(*                                                                         *)
(* The last part bounds what a command has left to do (Left).              *)
(***************************************************************************)
EXTENDS ReleaseRun, TLAPS

USE QualificationAssumption, ReleaseAssumption
USE DEF quality, gates, walk, release, vars, Goto, Stage, Measured, Static, Canary, Full,
        Problem, Id

-----------------------------------------------------------------------------
(* Types. *)

\* Every step keeps the types; the walk's place in the chain bounds what it counts.
LEMMA TypeStep ==
  ASSUME TypeOK, WalkInv, [Next]_vars
  PROVE  TypeOK'
<1> USE DEF PC, Ended
<1>a. gate \in [Stage -> Gate] /\ qtrace \in [Measured -> [Problem -> Id]]
  BY DEF TypeOK
<1>b. pc \in [Cmd -> PC] /\ aim \in [Cmd -> 0 .. Full] /\ at \in [Cmd -> Stage]
  BY DEF TypeOK
<1>c. given \in Id /\ id \in [Cmd -> Id] /\ parent \in [Cmd -> Id]
  BY DEF TypeOK
<1>d. conf \in [Cmd -> Conf \cup {NoConf}] /\ passed \subseteq Stage \X Conf
  BY DEF TypeOK
<1>e. prob \in [Cmd -> Problem] /\ cites \in [Cmd -> [Problem -> Id]]
  BY DEF TypeOK
<1>f. trace \in [Problem -> Trace] /\ fresh \in [Cmd -> BOOLEAN]
  BY DEF TypeOK
<1>1. CASE UNCHANGED vars
  BY <1>1 DEF TypeOK
<1>2. ASSUME NEW c \in Cmd, Qualify(c), UNCHANGED release
      PROVE  TypeOK'
  <2>1. PICK s \in Stage, v \in Conf :
          /\ given < MaxCmds /\ given' = given + 1
          /\ id' = [id EXCEPT ![c] = given + 1]
          /\ aim' = [aim EXCEPT ![c] = s]
          /\ conf' = [conf EXCEPT ![c] = v]
          /\ fresh' = [fresh EXCEPT ![c] = gate[s] = NoGate]
    BY <1>2 DEF Qualify, Begin
  <2>2. fresh' \in [Cmd -> BOOLEAN]
    BY <2>1 DEF TypeOK
  <2>3. given' \in Id /\ id' \in [Cmd -> Id]
    BY <2>1, <1>c
  <2>4. conf' \in [Cmd -> Conf \cup {NoConf}] /\ aim' \in [Cmd -> 0 .. Full]
    BY <2>1, <1>b, <1>d
  <2>5. pc' \in [Cmd -> PC]
    BY <1>2, <1>b DEF Qualify
  <2> QED
    BY <1>2, <2>2, <2>3, <2>4, <2>5 DEF Qualify, TypeOK
<1>3. ASSUME NEW c \in Cmd, Verify(c), UNCHANGED release
      PROVE  TypeOK'
  BY <1>3 DEF Verify, TypeOK
<1>4. ASSUME NEW c \in Cmd, Hash(c), UNCHANGED release
      PROVE  TypeOK'
  <2>1. at[c] \in Stage /\ at[c] + 1 \in Stage
    <3>1. pc[c] = "hash" /\ at[c] \in Stage /\ aim[c] \in 0 .. Full
      BY <1>4, <1>b DEF Hash
    <3>2. at[c] <= Target(c) /\ (fresh[c] \/ at[c] < Target(c)) /\ (aim[c] = 0 => ~ fresh[c])
      BY <3>1 DEF WalkInv, WalkOK, Walking
    <3>3. CASE fresh[c]
      BY <3>1, <3>2, <3>3 DEF Target
    <3>4. CASE ~ fresh[c]
      BY <3>1, <3>2, <3>4 DEF Target
    <3> QED
      BY <3>3, <3>4
  <2>2. at' \in [Cmd -> Stage]
    BY <1>4, <2>1, <1>b DEF Hash
  <2>3. gate[at[c]].by \in Id
    BY <2>1, <1>a DEF Gate
  <2>4. parent' \in [Cmd -> Id]
    BY <1>4, <2>3, <1>c DEF Hash
  <2>5. pc' \in [Cmd -> PC]
    BY <1>4, <1>b DEF Hash
  <2> QED
    BY <1>4, <2>2, <2>4, <2>5 DEF Hash, TypeOK
<1>5. ASSUME NEW c \in Cmd, TakeGpu(c), aim[c] # 0, UNCHANGED release
      PROVE  TypeOK'
  BY <1>5 DEF TakeGpu, TypeOK
<1>6. ASSUME NEW c \in Cmd, GpuTimeout(c) \/ Fails(c) \/ Judge(c), UNCHANGED release
      PROVE  TypeOK'
  BY <1>6 DEF GpuTimeout, Fails, Judge, TypeOK
<1>7. ASSUME NEW c \in Cmd, OpenTrace(c) \/ CloseTrace(c), UNCHANGED release
      PROVE  TypeOK'
  <2>1. ASSUME NEW n \in Id, PutTrace(c, n)
        PROVE  qtrace' \in [Measured -> [Problem -> Id]]
    <3> DEFINE row == [qtrace[aim[c]] EXCEPT ![prob[c]] = n]
    <3>1. aim[c] \in Measured
      BY <1>7 DEF OpenTrace, CloseTrace, WalkInv, WalkOK, Evaluating
    <3>2. row \in [Problem -> Id]
      BY <3>1, <1>a
    <3>3. qtrace' = [qtrace EXCEPT ![aim[c]] = row]
      BY <2>1, <3>1, <1>a DEF PutTrace
    <3> QED
      BY <3>2, <3>3, <1>a
  <2>2. 0 \in Id /\ id[c] \in Id
    BY <1>c
  <2>3. \/ PutTrace(c, 0) \/ PutTrace(c, id[c]) \/ qtrace' = qtrace
    BY <1>7 DEF OpenTrace, CloseTrace
  <2>4. qtrace' \in [Measured -> [Problem -> Id]]
    BY <2>1, <2>2, <2>3, <1>a
  <2>5. pc' \in [Cmd -> PC]
    BY <1>7, <1>b DEF OpenTrace, CloseTrace
  <2> QED
    BY <1>7, <2>4, <2>5 DEF OpenTrace, CloseTrace, TypeOK
<1>8. ASSUME NEW c \in Cmd, Cite(c), UNCHANGED release
      PROVE  TypeOK'
  <2> DEFINE row == [cites[c] EXCEPT ![prob[c]] = qtrace[aim[c]][prob[c]]]
  <2>a. aim[c] \in Measured
    BY <1>8 DEF Cite, WalkInv, WalkOK
  <2>1. row \in [Problem -> Id]
    BY <2>a, <1>a, <1>e
  <2>2. cites' = [cites EXCEPT ![c] = row]
    BY <1>8, <1>e DEF Cite
  <2>3. cites' \in [Cmd -> [Problem -> Id]]
    BY <2>1, <2>2, <1>e
  <2>4. prob' \in [Cmd -> Problem]
    <3>1. CASE prob[c] < Problems
      <4>1. prob[c] + 1 \in Problem
        BY <3>1, <1>e
      <4>2. prob' = [prob EXCEPT ![c] = prob[c] + 1]
        BY <1>8, <3>1 DEF Cite
      <4> QED
        BY <4>1, <4>2, <1>e
    <3>2. CASE ~ (prob[c] < Problems)
      BY <1>8, <3>2, <1>e DEF Cite
    <3> QED
      BY <3>1, <3>2
  <2>5. pc' \in [Cmd -> PC]
    BY <1>8, <1>b DEF Cite
  <2> QED
    BY <1>8, <2>3, <2>4, <2>5 DEF Cite, TypeOK
<1>9. ASSUME NEW c \in Cmd, Publish(c), UNCHANGED release
      PROVE  TypeOK'
  <2> DEFINE new == [by |-> id[c], conf |-> conf[c], parent |-> parent[c], cites |-> cites[c]]
  <2>a. aim[c] # 0 /\ conf[c] \in Conf
    BY <1>9 DEF Publish, WalkInv, WalkOK
  <2>1. new \in Gate /\ aim[c] \in Stage
    BY <2>a, <1>b, <1>c, <1>e DEF Gate
  <2>2. gate' = [gate EXCEPT ![aim[c]] = new]
    BY <1>9 DEF Publish
  <2>3. gate' \in [Stage -> Gate]
    BY <2>1, <2>2, <1>a
  <2>b. passed' = passed \cup {<< aim[c], conf[c] >>}
    BY <1>9 DEF Publish
  <2>4. passed' \subseteq Stage \X Conf
    BY <2>a, <2>1, <2>b, <1>d
  <2>5. fresh' \in [Cmd -> BOOLEAN]
    BY <1>9, <1>f DEF Publish
  <2>6. at' \in [Cmd -> Stage] /\ parent' \in [Cmd -> Id]
    BY <1>9, <1>b, <1>c DEF Publish
  <2>7. pc' \in [Cmd -> PC]
    BY <1>9, <1>b DEF Publish
  <2> QED
    BY <1>9, <2>3, <2>4, <2>5, <2>6, <2>7 DEF Publish, TypeOK
<1>10. ASSUME NEW c \in Cmd, Start(c)
       PROVE  TypeOK'
  <2>1. PICK v \in Conf, r \in BOOLEAN :
          /\ given < MaxCmds /\ given' = given + 1
          /\ id' = [id EXCEPT ![c] = given + 1]
          /\ aim' = [aim EXCEPT ![c] = 0]
          /\ conf' = [conf EXCEPT ![c] = v]
          /\ resume' = [resume EXCEPT ![c] = r]
    BY <1>10 DEF Start, Begin
  <2>2. resume' \in [Cmd -> BOOLEAN]
    BY <2>1 DEF TypeOK
  <2>3. given' \in Id /\ id' \in [Cmd -> Id]
    BY <2>1, <1>c
  <2>4. conf' \in [Cmd -> Conf \cup {NoConf}] /\ aim' \in [Cmd -> 0 .. Full]
    BY <2>1, <1>b, <1>d
  <2>5. pc' \in [Cmd -> PC]
    BY <1>10, <1>b DEF Start
  <2> QED
    BY <1>10, <2>2, <2>3, <2>4, <2>5 DEF Start, TypeOK
<1>11. ASSUME NEW c \in Cmd, Environment(c)
       PROVE  TypeOK'
  <2>1. env' \in BOOLEAN
    <3>1. env' = TRUE \/ env' = env
      BY <1>11 DEF Environment
    <3>2. env \in BOOLEAN
      BY DEF TypeOK
    <3> QED
      BY <3>1, <3>2
  <2>2. pc' \in [Cmd -> PC]
    <3>1. pc' = [pc EXCEPT ![c] = "next"] \/ pc' = [pc EXCEPT ![c] = "failed"]
      BY <1>11 DEF Environment
    <3> QED
      BY <3>1, <1>b
  <2>3. UNCHANGED << gates, gpu, walk, prob, cites, passed, role, trace, resume, measured >>
    BY <1>11 DEF Environment
  <2> QED
    BY <2>1, <2>2, <2>3 DEF TypeOK
<1>12. ASSUME NEW c \in Cmd, Existing(c) \/ Missing(c) \/ Validate(c)
       PROVE  TypeOK'
  <2>1. prob' \in [Cmd -> Problem]
    <3>1. CASE prob' = prob
      BY <3>1, <1>e
    <3>2. CASE prob[c] < Problems /\ prob' = [prob EXCEPT ![c] = prob[c] + 1]
      <4>1. prob[c] + 1 \in Problem
        BY <3>2, <1>e
      <4> QED
        BY <4>1, <3>2, <1>e
    <3> QED
      BY <1>12, <3>1, <3>2 DEF Existing, Missing, Validate, Advance
  <2>2. pc' \in [Cmd -> PC]
    BY <1>12, <1>b DEF Existing, Missing, Validate, Advance
  <2> QED
    BY <1>12, <2>1, <2>2 DEF Existing, Missing, Validate, TypeOK
<1>13. ASSUME NEW c \in Cmd, Measure(c) \/ EvaluatorFails(c)
       PROVE  TypeOK'
  <2>1. CASE Measure(c)
    <3>1. pc[c] = "evaluate" /\ pc' = [pc EXCEPT ![c] = "running"] /\ gpu' = c
          /\ measured' = measured \cup {conf[c]}
      BY <2>1 DEF Measure, TakeGpu
    <3>2. conf[c] \in Conf
      BY <3>1 DEF WalkInv, WalkOK
    <3>3. pc' \in [Cmd -> PC] /\ gpu' \in Cmd \cup {NoCmd} /\ measured' \subseteq Conf
      BY <3>1, <3>2, <1>b DEF TypeOK
    <3>4. UNCHANGED << gates, walk, prob, cites, passed, role, env, trace, resume >>
      BY <2>1 DEF Measure, TakeGpu
    <3> QED
      BY <3>3, <3>4 DEF TypeOK
  <2>2. CASE EvaluatorFails(c)
    <3>1. pc' \in [Cmd -> PC]
      BY <2>2, <1>b DEF EvaluatorFails
    <3>2. gpu' \in Cmd \cup {NoCmd} /\ UNCHANGED << gates, walk, prob, cites, passed, release >>
      BY <2>2 DEF EvaluatorFails
    <3> QED
      BY <3>1, <3>2 DEF TypeOK
  <2> QED
    BY <1>13, <2>1, <2>2
<1>14. ASSUME NEW c \in Cmd, OpenResult(c) \/ CloseResult(c) \/ RecordFailure(c)
       PROVE  TypeOK'
  <2>1. ASSUME NEW state \in {"torn", "whole"}, NEW ok \in BOOLEAN, PutResult(c, state, ok)
        PROVE  trace' \in [Problem -> Trace]
    BY <2>1 DEF PutResult, Trace, TypeOK
  <2>2. trace' \in [Problem -> Trace]
    BY <1>14, <2>1 DEF OpenResult, CloseResult, RecordFailure
  <2>3. pc' \in [Cmd -> PC]
    <3>1. \E to \in {"writing", "validate", "failed"} : pc' = [pc EXCEPT ![c] = to]
      BY <1>14 DEF OpenResult, CloseResult, RecordFailure
    <3> QED
      BY <3>1, <1>b
  <2>4. /\ gpu' \in {gpu, NoCmd}
        /\ UNCHANGED << gates, walk, prob, cites, passed, role, env, resume, measured >>
    BY <1>14 DEF OpenResult, CloseResult, RecordFailure
  <2> QED
    BY <2>2, <2>3, <2>4 DEF TypeOK
<1>15. ASSUME NEW c \in Cmd, CommandEnds(c), ForgetRun(c), UNCHANGED << role, env, trace, measured >>
       PROVE  TypeOK'
  <2>1. Forget(c) /\ UNCHANGED << gates, given, passed >> /\ gpu' \in {gpu, NoCmd}
    BY <1>15 DEF CommandEnds, Exit, Kill
  <2>2. resume' \in [Cmd -> BOOLEAN] /\ fresh' \in [Cmd -> BOOLEAN]
    BY <1>15, <2>1 DEF ForgetRun, Forget, TypeOK
  <2>3. pc' \in [Cmd -> PC] /\ aim' \in [Cmd -> 0 .. Full] /\ at' \in [Cmd -> Stage]
    BY <2>1, <1>b DEF Forget
  <2>4. id' \in [Cmd -> Id] /\ parent' \in [Cmd -> Id]
    BY <2>1, <1>c DEF Forget
  <2>5. conf' \in [Cmd -> Conf \cup {NoConf}] /\ prob' \in [Cmd -> Problem]
    BY <2>1, <1>d, <1>e DEF Forget
  <2>6. [p \in Problem |-> 0] \in [Problem -> Id]
    OBVIOUS
  <2>7. cites' \in [Cmd -> [Problem -> Id]]
    BY <2>1, <2>6, <1>e DEF Forget
  <2> QED
    BY <1>15, <2>1, <2>2, <2>3, <2>4, <2>5, <2>7 DEF Forget, TypeOK
<1> QED
  BY <1>1, <1>2, <1>3, <1>4, <1>5, <1>6, <1>7, <1>8, <1>9, <1>10, <1>11, <1>12, <1>13, <1>14,
     <1>15
     DEF Next, ReleaseStep, QualifyStep, SharedStep

-----------------------------------------------------------------------------
(* One command moves at a time. *)

Step(c) == ReleaseStep(c) \/ QualifyStep(c) \/ SharedStep(c) \/ TakeGpu(c) \/ CommandEnds(c)

Frame(d) ==
  /\ pc'[d] = pc[d] /\ aim'[d] = aim[d] /\ at'[d] = at[d] /\ fresh'[d] = fresh[d]
  /\ conf'[d] = conf[d] /\ prob'[d] = prob[d]

\* A step of one command leaves the others where they are.
LEMMA OthersStay ==
  ASSUME TypeOK, NEW c \in Cmd, Step(c)
  PROVE  \A d \in Cmd : d # c => Frame(d)
<1>1. CASE Qualify(c)
  BY <1>1 DEF Qualify, Begin, TypeOK, Frame
<1>2. CASE Verify(c)
  BY <1>2 DEF Verify, TypeOK, Frame
<1>3. CASE Hash(c)
  BY <1>3 DEF Hash, TypeOK, Frame
<1>4. CASE TakeGpu(c)
  BY <1>4 DEF TakeGpu, TypeOK, Frame
<1>5. CASE GpuTimeout(c)
  BY <1>5 DEF GpuTimeout, TypeOK, Frame
<1>6. CASE Fails(c)
  BY <1>6 DEF Fails, TypeOK, Frame
<1>7. CASE Judge(c)
  BY <1>7 DEF Judge, TypeOK, Frame
<1>8. CASE OpenTrace(c)
  BY <1>8 DEF OpenTrace, TypeOK, Frame
<1>9. CASE CloseTrace(c)
  BY <1>9 DEF CloseTrace, TypeOK, Frame
<1>10. CASE Cite(c)
  BY <1>10 DEF Cite, TypeOK, Frame
<1>11. CASE Publish(c)
  BY <1>11 DEF Publish, TypeOK, Frame
<1>12. CASE Start(c)
  BY <1>12 DEF Start, Begin, TypeOK, Frame
<1>13. CASE Environment(c)
  BY <1>13 DEF Environment, TypeOK, Frame
<1>14. CASE Existing(c)
  BY <1>14 DEF Existing, Advance, TypeOK, Frame
<1>15. CASE Missing(c)
  BY <1>15 DEF Missing, TypeOK, Frame
<1>16. CASE Validate(c)
  BY <1>16 DEF Validate, Advance, TypeOK, Frame
<1>17. CASE EvaluatorFails(c)
  BY <1>17 DEF EvaluatorFails, TypeOK, Frame
<1>18. CASE OpenResult(c)
  BY <1>18 DEF OpenResult, TypeOK, Frame
<1>19. CASE CloseResult(c)
  BY <1>19 DEF CloseResult, TypeOK, Frame
<1>20. CASE RecordFailure(c)
  BY <1>20 DEF RecordFailure, TypeOK, Frame
<1>21. CASE CommandEnds(c)
  BY <1>21 DEF CommandEnds, Exit, Kill, Forget, TypeOK, Frame
<1> QED
  BY <1>1, <1>2, <1>3, <1>4, <1>5, <1>6, <1>7, <1>8, <1>9, <1>10, <1>11, <1>12, <1>13, <1>14,
     <1>15, <1>16, <1>17, <1>18, <1>19, <1>20, <1>21
     DEF Step, ReleaseStep, QualifyStep, SharedStep, Measure

\* It keeps the moving command where its aim lets it be.
LEMMA WalkMoves ==
  ASSUME TypeOK, NEW c \in Cmd, WalkOK(c), Step(c)
  PROVE  WalkOK(c)'
<1>1. CASE Qualify(c)
  <2>1. PICK s \in Stage, v \in Conf :
          /\ pc[c] = "idle" /\ aim'[c] = s /\ conf'[c] = v
          /\ fresh' = [fresh EXCEPT ![c] = gate[s] = NoGate]
          /\ pc'[c] = IF gate[s] = NoGate /\ s = Static THEN "publish" ELSE "verify"
    <3>1. PICK s \in Stage, v \in Conf :
            /\ pc[c] = "idle" /\ aim' = [aim EXCEPT ![c] = s] /\ conf' = [conf EXCEPT ![c] = v]
            /\ fresh' = [fresh EXCEPT ![c] = gate[s] = NoGate]
            /\ pc' = [pc EXCEPT ![c] = IF gate[s] = NoGate /\ s = Static THEN "publish" ELSE "verify"]
      BY <1>1 DEF Qualify, Begin
    <3>2. /\ aim \in [Cmd -> 0 .. Full] /\ conf \in [Cmd -> Conf \cup {NoConf}] /\ pc \in [Cmd -> PC]
      BY DEF TypeOK
    <3> QED
      BY <3>1, <3>2
  <2>2. at'[c] = Static
    BY <1>1, <2>1 DEF Qualify, WalkOK
  <2>3. CASE gate[s] = NoGate
    <3>1. fresh'[c]
      BY <2>1, <2>3 DEF TypeOK
    <3>2. pc'[c] = IF s = Static THEN "publish" ELSE "verify"
      BY <2>1, <2>3
    <3> QED
      BY <2>1, <2>2, <3>1, <3>2 DEF WalkOK, Walking, Evaluating, Target, Ended
  <2>4. CASE gate[s] # NoGate
    <3>1. ~ fresh'[c]
      BY <2>1, <2>4 DEF TypeOK
    <3>2. pc'[c] = "verify"
      BY <2>1, <2>4
    <3> QED
      BY <2>1, <2>2, <3>1, <3>2 DEF WalkOK, Walking, Evaluating, Target, Ended
  <2> QED
    BY <2>3, <2>4
<1>2. CASE Verify(c)
  BY <1>2 DEF Verify, TypeOK, WalkOK, Walking, Evaluating, Target, Ended
<1>3. CASE Hash(c)
  <2>1. /\ pc[c] = "hash" /\ at[c] \in Stage /\ aim[c] \in 0 .. Full
        /\ at'[c] = at[c] + 1 /\ UNCHANGED << aim, conf, fresh, prob >>
        /\ pc'[c] = IF at[c] < Target(c) THEN "verify" ELSE "evaluate"
    BY <1>3 DEF Hash, TypeOK
  <2>2. CASE fresh[c]
    BY <2>1, <2>2 DEF WalkOK, Walking, Evaluating, Target, Ended
  <2>3. CASE ~ fresh[c]
    BY <2>1, <2>3 DEF WalkOK, Walking, Evaluating, Target, Ended
  <2> QED
    BY <2>2, <2>3
<1>4. CASE TakeGpu(c)
  BY <1>4 DEF TakeGpu, TypeOK, WalkOK, Walking, Evaluating, Target, Ended
<1>5. CASE GpuTimeout(c)
  BY <1>5 DEF GpuTimeout, TypeOK, WalkOK, Walking, Evaluating, Target, Ended
<1>6. CASE Fails(c)
  BY <1>6 DEF Fails, TypeOK, WalkOK, Walking, Evaluating, Target, Ended
<1>7. CASE Judge(c)
  BY <1>7 DEF Judge, TypeOK, WalkOK, Walking, Evaluating, Target, Ended
<1>8. CASE OpenTrace(c)
  BY <1>8 DEF OpenTrace, TypeOK, WalkOK, Walking, Evaluating, Target, Ended
<1>9. CASE CloseTrace(c)
  BY <1>9 DEF CloseTrace, TypeOK, WalkOK, Walking, Evaluating, Target, Ended
<1>10. CASE Cite(c)
  <2>1. /\ pc[c] = "cite" /\ fresh[c] /\ aim[c] \in Measured /\ conf[c] \in Conf
        /\ UNCHANGED << aim, conf, fresh, at >>
    BY <1>10 DEF Cite, WalkOK, Ended
  <2>2. pc'[c] \in {"evaluate", "publish"}
    BY <1>10 DEF Cite, TypeOK
  <2> QED
    BY <2>1, <2>2 DEF WalkOK, Walking, Evaluating
<1>11. CASE Publish(c)
  BY <1>11 DEF Publish, TypeOK, WalkOK, Walking, Evaluating, Target, Ended
<1>12. CASE Start(c)
  BY <1>12 DEF Start, Begin, TypeOK, WalkOK, Walking, Evaluating, Target, Ended
<1>13. CASE Environment(c)
  BY <1>13 DEF Environment, TypeOK, WalkOK, Walking, Evaluating, Target, Ended
<1>14. CASE Existing(c)
  BY <1>14 DEF Existing, Advance, TypeOK, WalkOK, Walking, Evaluating, Target, Ended
<1>15. CASE Missing(c)
  BY <1>15 DEF Missing, TypeOK, WalkOK, Walking, Evaluating, Target, Ended
<1>16. CASE Validate(c)
  BY <1>16 DEF Validate, Advance, TypeOK, WalkOK, Walking, Evaluating, Target, Ended
<1>17. CASE EvaluatorFails(c)
  BY <1>17 DEF EvaluatorFails, TypeOK, WalkOK, Walking, Evaluating, Target, Ended
<1>18. CASE OpenResult(c)
  BY <1>18 DEF OpenResult, TypeOK, WalkOK, Walking, Evaluating, Target, Ended
<1>19. CASE CloseResult(c)
  BY <1>19 DEF CloseResult, TypeOK, WalkOK, Walking, Evaluating, Target, Ended
<1>20. CASE RecordFailure(c)
  BY <1>20 DEF RecordFailure, TypeOK, WalkOK, Walking, Evaluating, Target, Ended
<1>21. CASE CommandEnds(c)
  BY <1>21 DEF CommandEnds, Exit, Kill, Forget, TypeOK, WalkOK, Walking, Evaluating, Target, Ended
<1> QED
  BY <1>1, <1>2, <1>3, <1>4, <1>5, <1>6, <1>7, <1>8, <1>9, <1>10, <1>11, <1>12, <1>13, <1>14,
     <1>15, <1>16, <1>17, <1>18, <1>19, <1>20, <1>21
     DEF Step, ReleaseStep, QualifyStep, SharedStep, Measure

\* Who moves, and what its step leaves alone.
LEMMA NextIsStep ==
  ASSUME [Next]_vars
  PROVE  \/ UNCHANGED vars
         \/ \E c \in Cmd :
              \/ ReleaseStep(c) \/ (QualifyStep(c) /\ UNCHANGED release)
              \/ (SharedStep(c) /\ UNCHANGED release)
              \/ (TakeGpu(c) /\ aim[c] # 0 /\ UNCHANGED release)
              \/ (CommandEnds(c) /\ UNCHANGED << role, env, trace, measured >>)
BY DEF Next

\* Where a command can be is kept by every step.
LEMMA WalkStep ==
  ASSUME TypeOK, WalkInv, [Next]_vars
  PROVE  WalkInv'
<1>1. CASE UNCHANGED vars
  BY <1>1 DEF WalkInv, WalkOK, Target
<1>2. ASSUME NEW c \in Cmd, Step(c)
      PROVE  WalkInv'
  <2>1. ASSUME NEW d \in Cmd, d # c
        PROVE  WalkOK(d)'
    <3>1. Frame(d) /\ WalkOK(d)
      BY <1>2, <2>1, OthersStay DEF WalkInv
    <3> QED
      BY <3>1 DEF Frame, WalkOK, Target
  <2>2. WalkOK(c)'
    BY <1>2, WalkMoves DEF WalkInv
  <2> QED
    BY <2>1, <2>2 DEF WalkInv
<1> QED
  BY <1>1, <1>2, NextIsStep DEF Step

-----------------------------------------------------------------------------
(* What has passed. *)

\* A stage that passed stays so.
LEMMA PassedGrows ==
  ASSUME NEW c \in Cmd, Step(c)
  PROVE  passed \subseteq passed'
BY DEF Step, ReleaseStep, QualifyStep, SharedStep, Measure, Qualify, Begin, Verify, Hash,
   TakeGpu, GpuTimeout, Fails, Judge, OpenTrace, CloseTrace, Cite, Publish, Start, Environment,
   Existing, Advance, Missing, Validate, EvaluatorFails, OpenResult, CloseResult, RecordFailure,
   CommandEnds, Exit, Kill, Forget

\* Gates are written by Publish and nothing else.
LEMMA GateStays ==
  ASSUME NEW c \in Cmd, Step(c)
  PROVE  gate' = gate \/ Publish(c)
BY DEF Step, ReleaseStep, QualifyStep, SharedStep, Measure, Qualify, Begin, Verify, Hash,
   TakeGpu, GpuTimeout, Fails, Judge, OpenTrace, CloseTrace, Cite, Start, Environment, Existing,
   Advance, Missing, Validate, EvaluatorFails, OpenResult, CloseResult, RecordFailure,
   CommandEnds, Exit, Kill, Forget

\* What a walk has behind it has passed, also after its next step.
LEMMA PassedMoves ==
  ASSUME TypeOK, PassedInv, NEW c \in Cmd, WalkOK(c), Step(c)
  PROVE  PassedOK(c)'
<1> USE DEF PassedOK, PassedUpTo, Walking, Evaluating, Ended, Target
<1>a. PassedOK(c)
  BY DEF PassedInv
<1>1. CASE Qualify(c)
  BY <1>1, <1>a DEF Qualify, Begin, TypeOK, WalkOK
<1>2. CASE Verify(c)
  <2>1. /\ at[c] \in Stage /\ aim[c] \in 0 .. Full /\ pc[c] = "verify"
        /\ UNCHANGED << aim, at, conf, passed >> /\ PassedUpTo(c, at[c] - 1)
        /\ at[c] <= Target(c)
    BY <1>2, <1>a DEF Verify, TypeOK, WalkOK
  <2>2. CASE ~ Matches(c, at[c])
    <3>1. pc'[c] = "failed"
      BY <1>2, <2>2 DEF Verify, TypeOK
    <3> QED
      BY <3>1
  <2>3. CASE Matches(c, at[c])
    <3>1. << at[c], conf[c] >> \in passed
      BY <2>1, <2>3 DEF Matches, PassedInv
    <3>2. \A s \in Stage : s <= at[c] => << s, conf'[c] >> \in passed'
      BY <2>1, <3>1
    <3>3. \/ pc'[c] \in {"hash", "done"}
          \/ pc'[c] = "begin" /\ aim[c] = 0 /\ ~ (at[c] < Target(c))
      BY <1>2, <2>3 DEF Verify, TypeOK
    <3>4. CASE pc'[c] \in {"hash", "done"}
      BY <2>1, <3>2, <3>4
    <3>5. CASE pc'[c] = "begin" /\ aim[c] = 0 /\ ~ (at[c] < Target(c))
      <4>1. at[c] = Full
        BY <2>1, <3>5
      <4> QED
        BY <2>1, <3>2, <3>5, <4>1
    <3> QED
      BY <3>3, <3>4, <3>5
  <2> QED
    BY <2>2, <2>3
<1>3. CASE Hash(c)
  BY <1>3, <1>a DEF Hash, TypeOK, WalkOK
<1>4. CASE TakeGpu(c)
  BY <1>4, <1>a DEF TakeGpu, TypeOK, WalkOK
<1>5. CASE GpuTimeout(c)
  BY <1>5, <1>a DEF GpuTimeout, TypeOK, WalkOK
<1>6. CASE Fails(c)
  BY <1>6, <1>a DEF Fails, TypeOK, WalkOK
<1>7. CASE Judge(c)
  BY <1>7, <1>a DEF Judge, TypeOK, WalkOK
<1>8. CASE OpenTrace(c)
  BY <1>8, <1>a DEF OpenTrace, TypeOK, WalkOK
<1>9. CASE CloseTrace(c)
  BY <1>9, <1>a DEF CloseTrace, TypeOK, WalkOK
<1>10. CASE Cite(c)
  BY <1>10, <1>a DEF Cite, TypeOK, WalkOK
<1>11. CASE Publish(c)
  BY <1>11, <1>a DEF Publish, TypeOK, WalkOK
<1>12. CASE Start(c)
  BY <1>12, <1>a DEF Start, Begin, TypeOK, WalkOK
<1>13. CASE Environment(c)
  BY <1>13, <1>a DEF Environment, TypeOK, WalkOK
<1>14. CASE Existing(c)
  BY <1>14, <1>a DEF Existing, Advance, TypeOK, WalkOK
<1>15. CASE Missing(c)
  BY <1>15, <1>a DEF Missing, TypeOK, WalkOK
<1>16. CASE Validate(c)
  BY <1>16, <1>a DEF Validate, Advance, TypeOK, WalkOK
<1>17. CASE EvaluatorFails(c)
  BY <1>17, <1>a DEF EvaluatorFails, TypeOK, WalkOK
<1>18. CASE OpenResult(c)
  BY <1>18, <1>a DEF OpenResult, TypeOK, WalkOK
<1>19. CASE CloseResult(c)
  BY <1>19, <1>a DEF CloseResult, TypeOK, WalkOK
<1>20. CASE RecordFailure(c)
  BY <1>20, <1>a DEF RecordFailure, TypeOK, WalkOK
<1>21. CASE CommandEnds(c)
  BY <1>21, <1>a DEF CommandEnds, Exit, Kill, Forget, TypeOK, WalkOK
<1> QED
  BY <1>1, <1>2, <1>3, <1>4, <1>5, <1>6, <1>7, <1>8, <1>9, <1>10, <1>11, <1>12, <1>13, <1>14,
     <1>15, <1>16, <1>17, <1>18, <1>19, <1>20, <1>21
     DEF Step, ReleaseStep, QualifyStep, SharedStep, Measure

\* And so it is after any step.
LEMMA PassedStep ==
  ASSUME TypeOK, WalkInv, PassedInv, [Next]_vars
  PROVE  PassedInv'
<1>1. CASE UNCHANGED vars
  BY <1>1 DEF PassedInv, PassedOK, PassedUpTo
<1>2. ASSUME NEW c \in Cmd, Step(c)
      PROVE  PassedInv'
  <2>0. passed \subseteq passed'
    BY <1>2, PassedGrows
  <2>1. ASSUME NEW d \in Cmd, d # c
        PROVE  PassedOK(d)'
    <3>1. Frame(d) /\ PassedOK(d)
      BY <1>2, <2>1, OthersStay DEF PassedInv
    <3> QED
      BY <3>1, <2>0 DEF Frame, PassedOK, PassedUpTo
  <2>2. PassedOK(c)'
    BY <1>2, PassedMoves DEF WalkInv
  <2>3. ASSUME NEW s \in Stage, gate'[s] # NoGate
        PROVE  << s, gate'[s].conf >> \in passed'
    <3>1. CASE gate' = gate
      BY <2>0, <2>3, <3>1 DEF PassedInv
    <3>2. CASE Publish(c) /\ s = aim[c]
      BY <3>2 DEF Publish, TypeOK
    <3>3. CASE Publish(c) /\ s # aim[c]
      <4>1. gate'[s] = gate[s]
        BY <3>3 DEF Publish, TypeOK
      <4> QED
        BY <4>1, <2>0, <2>3 DEF PassedInv
    <3> QED
      BY <1>2, <3>1, <3>2, <3>3, GateStays
  <2> QED
    BY <2>1, <2>2, <2>3 DEF PassedInv
<1> QED
  BY <1>1, <1>2, NextIsStep DEF Step

-----------------------------------------------------------------------------
(* The results of a run. *)

\* What a step of a command does to the results: nothing, or it writes the one the command
\* has come to.
LEMMA ResultMoves ==
  ASSUME TypeOK, WalkInv, NEW c \in Cmd,
         \/ ReleaseStep(c)
         \/ (QualifyStep(c) \/ SharedStep(c) \/ TakeGpu(c)) /\ trace' = trace
         \/ CommandEnds(c) /\ trace' = trace
  PROVE  \/ trace' = trace
         \/ /\ c \in Running /\ pc[c] \in {"running", "writing", "record"}
            /\ \A p \in Problem : p # prob[c] => trace'[p] = trace[p]
<1> USE DEF Running, AtWork, Ended, WalkInv, WalkOK, TypeOK
<1>1. CASE OpenResult(c)
  BY <1>1 DEF OpenResult, PutResult
<1>2. CASE CloseResult(c)
  BY <1>2 DEF CloseResult, PutResult
<1>3. CASE RecordFailure(c)
  BY <1>3 DEF RecordFailure, PutResult
<1>4. CASE ReleaseStep(c) /\ ~ OpenResult(c) /\ ~ CloseResult(c) /\ ~ RecordFailure(c)
  BY <1>4 DEF ReleaseStep, Start, Environment, Existing, Missing, Measure, EvaluatorFails,
     Validate
<1> QED
  BY <1>1, <1>2, <1>3, <1>4

\* A run starts only when there is none, so there is never more than one.
LEMMA OneRun ==
  ASSUME TypeOK, ~ TwoRuns, \A a, b \in Running : a = b, NEW c \in Cmd, Step(c)
  PROVE  /\ \A a, b \in Running' : a = b
         /\ Running' \subseteq Running \/ (Running = {} /\ Start(c))
<1>1. \A d \in Cmd : d # c => Frame(d)
  BY OthersStay
<1>2. \A d \in Cmd : d # c => (d \in Running' <=> d \in Running)
  BY <1>1 DEF Frame, Running, AtWork
<1>3. CASE Start(c)
  <2>1. Running = {}
    BY <1>3 DEF Start
  <2> QED
    BY <1>2, <1>3, <2>1 DEF Running, AtWork
<1>4. CASE ~ Start(c)
  <2>1. c \in Running' => c \in Running
    <3> USE DEF Running, AtWork, Ended, TypeOK
    <3>1. CASE Qualify(c)
      BY <3>1 DEF Qualify, Begin
    <3>2. CASE Verify(c)
      BY <3>2 DEF Verify
    <3>3. CASE Hash(c)
      BY <3>3 DEF Hash
    <3>4. CASE TakeGpu(c)
      BY <3>4 DEF TakeGpu
    <3>5. CASE GpuTimeout(c)
      BY <3>5 DEF GpuTimeout
    <3>6. CASE Fails(c)
      BY <3>6 DEF Fails
    <3>7. CASE Judge(c)
      BY <3>7 DEF Judge
    <3>8. CASE OpenTrace(c)
      BY <3>8 DEF OpenTrace
    <3>9. CASE CloseTrace(c)
      BY <3>9 DEF CloseTrace
    <3>10. CASE Cite(c)
      BY <3>10 DEF Cite
    <3>11. CASE Publish(c)
      BY <3>11 DEF Publish
    <3>12. CASE Environment(c)
      BY <3>12 DEF Environment
    <3>13. CASE Existing(c)
      BY <3>13 DEF Existing, Advance
    <3>14. CASE Missing(c)
      BY <3>14 DEF Missing
    <3>15. CASE Validate(c)
      BY <3>15 DEF Validate, Advance
    <3>16. CASE EvaluatorFails(c)
      BY <3>16 DEF EvaluatorFails
    <3>17. CASE OpenResult(c)
      BY <3>17 DEF OpenResult
    <3>18. CASE CloseResult(c)
      BY <3>18 DEF CloseResult
    <3>19. CASE RecordFailure(c)
      BY <3>19 DEF RecordFailure
    <3>20. CASE CommandEnds(c)
      BY <3>20 DEF CommandEnds, Exit, Kill, Forget
    <3> QED
      BY <1>4, <3>1, <3>2, <3>3, <3>4, <3>5, <3>6, <3>7, <3>8, <3>9, <3>10, <3>11, <3>12, <3>13,
         <3>14, <3>15, <3>16, <3>17, <3>18, <3>19, <3>20
         DEF Step, ReleaseStep, QualifyStep, SharedStep, Measure
  <2>2. Running' \subseteq Running
    BY <1>2, <2>1 DEF Running, AtWork
  <2> QED
    BY <2>2
<1> QED
  BY <1>3, <1>4

\* A step that is not the run's own: what it leaves of the results, and of the plan.
Aside(c) ==
  /\ (QualifyStep(c) \/ SharedStep(c) \/ TakeGpu(c) \/ CommandEnds(c))
  /\ trace' = trace /\ role' = role

\* Going on to the next problem leaves an accepted result behind.
LEMMA Advances ==
  ASSUME TypeOK, NEW c \in Cmd, RunOK(c), Accepts(trace[prob[c]]), Advance(c),
         UNCHANGED << aim, trace, role >>
  PROVE  /\ pc'[c] \in {"next", "done"} /\ RunOK(c)'
         /\ pc'[c] = "done" => \A p \in Problem : Accepts(trace[p])'
<1>1. prob[c] \in Problem /\ \A p \in Problem : p <= prob[c] => Accepts(trace[p])
  BY DEF RunOK, TypeOK
<1>2. \A p \in Problem : Accepts(trace[p]) => Accepts(trace[p])'
  BY DEF Accepts
<1>3. CASE prob[c] < Problems
  <2>1. prob'[c] = prob[c] + 1 /\ pc'[c] = "next"
    BY <1>3 DEF Advance, TypeOK
  <2> QED
    BY <1>1, <1>2, <2>1 DEF RunOK
<1>4. CASE ~ (prob[c] < Problems)
  <2>1. prob'[c] = prob[c] /\ pc'[c] = "done"
    BY <1>4 DEF Advance, TypeOK
  <2>2. \A p \in Problem : p <= prob[c]
    BY <1>1, <1>4
  <2> QED
    BY <1>1, <1>2, <2>1, <2>2 DEF RunOK
<1> QED
  BY <1>3, <1>4

\* A step of a run leaves an accepted result behind before it goes on.
LEMMA RunMoves ==
  ASSUME TypeOK, WalkInv, NEW c \in Cmd, c \in Running => RunOK(c), ReleaseStep(c) \/ Aside(c)
  PROVE  /\ c \in Running' => RunOK(c)'
         /\ pc'[c] = "done" /\ aim'[c] = 0 => \A p \in Problem : Accepts(trace[p])' 
<1> USE DEF Running, AtWork, Ended, RunOK, Accepts
<1>a. WalkOK(c)
  BY DEF WalkInv
<1>1. CASE Start(c)
  BY <1>1, <1>a DEF Start, Begin, TypeOK, WalkOK, Walking, Evaluating
<1>2. CASE Environment(c)
  BY <1>2, <1>a DEF Environment, TypeOK, WalkOK, Walking, Evaluating
<1>3. CASE Existing(c)
  <2>1. aim[c] = 0 /\ UNCHANGED << aim, trace, role >> /\ RunOK(c)
    BY <1>3, <1>a DEF Existing, WalkOK
  <2>2. CASE resume[c] /\ Accepts(trace[prob[c]])
    BY <1>3, <2>1, <2>2, Advances DEF Existing
  <2>3. CASE ~ (resume[c] /\ Accepts(trace[prob[c]]))
    BY <1>3, <2>3 DEF Existing, TypeOK
  <2> QED
    BY <2>2, <2>3
<1>4. CASE Missing(c)
  BY <1>4, <1>a DEF Missing, TypeOK, WalkOK, Walking, Evaluating
<1>5. CASE Measure(c)
  BY <1>5, <1>a DEF Measure, TakeGpu, TypeOK, WalkOK, Walking, Evaluating
<1>6. CASE EvaluatorFails(c)
  BY <1>6, <1>a DEF EvaluatorFails, TypeOK, WalkOK, Walking, Evaluating
<1>7. CASE OpenResult(c)
  BY <1>7, <1>a DEF OpenResult, PutResult, TypeOK, WalkOK, Walking, Evaluating
<1>8. CASE CloseResult(c)
  <2>1. /\ pc[c] = "writing" /\ aim[c] = 0 /\ c \in Running /\ prob[c] \in Problem
        /\ UNCHANGED << aim, prob, role >>
    BY <1>8 DEF CloseResult, TypeOK
  <2>2. pc'[c] \in {"validate", "failed"}
    BY <1>8 DEF CloseResult, TypeOK
  <2>3. \A p \in Problem : p # prob[c] => trace'[p] = trace[p]
    BY <1>8 DEF CloseResult, PutResult, TypeOK
  <2>4. \A p \in Problem : p < prob[c] => p # prob[c]
    BY <2>1
  <2> QED
    BY <2>1, <2>2, <2>3, <2>4
<1>9. CASE RecordFailure(c)
  BY <1>9, <1>a DEF RecordFailure, PutResult, TypeOK, WalkOK, Walking, Evaluating
<1>10. CASE Validate(c)
  <2>1. aim[c] = 0 /\ UNCHANGED << aim, trace, role >> /\ RunOK(c)
    BY <1>10, <1>a DEF Validate, WalkOK
  <2>2. CASE Accepts(trace[prob[c]])
    BY <1>10, <2>1, <2>2, Advances DEF Validate
  <2>3. CASE ~ (Accepts(trace[prob[c]]))
    BY <1>10, <2>3 DEF Validate, TypeOK
  <2> QED
    BY <2>2, <2>3
<1>11. CASE Qualify(c) /\ trace' = trace /\ role' = role
  BY <1>11, <1>a DEF Qualify, Begin, TypeOK, WalkOK, Walking, Evaluating, Target
<1>12. CASE Verify(c) /\ trace' = trace /\ role' = role
  BY <1>12, <1>a DEF Verify, TypeOK, WalkOK, Walking, Evaluating, Target
<1>13. CASE Hash(c) /\ trace' = trace /\ role' = role
  BY <1>13, <1>a DEF Hash, TypeOK, WalkOK, Walking, Evaluating, Target
<1>14. CASE TakeGpu(c) /\ trace' = trace /\ role' = role
  BY <1>14, <1>a DEF TakeGpu, TypeOK, WalkOK, Walking, Evaluating, Target
<1>15. CASE GpuTimeout(c) /\ trace' = trace /\ role' = role
  BY <1>15, <1>a DEF GpuTimeout, TypeOK, WalkOK, Walking, Evaluating, Target
<1>16. CASE Fails(c) /\ trace' = trace /\ role' = role
  BY <1>16, <1>a DEF Fails, TypeOK, WalkOK, Walking, Evaluating, Target
<1>17. CASE Judge(c) /\ trace' = trace /\ role' = role
  BY <1>17, <1>a DEF Judge, TypeOK, WalkOK, Walking, Evaluating, Target
<1>18. CASE OpenTrace(c) /\ trace' = trace /\ role' = role
  BY <1>18, <1>a DEF OpenTrace, TypeOK, WalkOK, Walking, Evaluating, Target
<1>19. CASE CloseTrace(c) /\ trace' = trace /\ role' = role
  BY <1>19, <1>a DEF CloseTrace, TypeOK, WalkOK, Walking, Evaluating, Target
<1>20. CASE Cite(c) /\ trace' = trace /\ role' = role
  BY <1>20, <1>a DEF Cite, TypeOK, WalkOK, Walking, Evaluating, Target
<1>21. CASE Publish(c) /\ trace' = trace /\ role' = role
  BY <1>21, <1>a DEF Publish, TypeOK, WalkOK, Walking, Evaluating, Target
<1>22. CASE CommandEnds(c) /\ trace' = trace /\ role' = role
  BY <1>22, <1>a DEF CommandEnds, Exit, Kill, Forget, TypeOK, WalkOK, Walking, Evaluating, Target
<1> QED
  BY <1>1, <1>2, <1>3, <1>4, <1>5, <1>6, <1>7, <1>8, <1>9, <1>10, <1>11, <1>12, <1>13, <1>14,
     <1>15, <1>16, <1>17, <1>18, <1>19, <1>20, <1>21, <1>22
     DEF Aside, ReleaseStep, QualifyStep, SharedStep

\* And so it is after any step.
LEMMA ResultStep ==
  ASSUME TypeOK, WalkInv, ResultInv, [Next]_vars
  PROVE  ResultInv'
<1>0. CASE TwoRuns
  BY <1>0 DEF ResultInv
<1>1. CASE UNCHANGED vars
  BY <1>1 DEF ResultInv, Running, AtWork, RunOK, Accepts, DoneIsComplete
<1>2. ASSUME ~ TwoRuns, NEW c \in Cmd, ReleaseStep(c) \/ Aside(c)
      PROVE  ResultInv'
  <2>0. /\ \A a, b \in Running : a = b
        /\ \A a \in Running : RunOK(a)
        /\ \A a \in Cmd : pc[a] = "done" /\ aim[a] = 0 => \A p \in Problem : Accepts(trace[p])
    BY <1>2 DEF ResultInv, DoneIsComplete
  <2>1. Step(c) /\ role' = role
    BY <1>2 DEF Step, Aside, ReleaseStep, Start, Environment, Existing, Missing, Measure,
                EvaluatorFails, OpenResult, CloseResult, RecordFailure, Validate, release
  <2>2. /\ \A a, b \in Running' : a = b
        /\ Running' \subseteq Running \/ (Running = {} /\ Start(c))
    BY <2>0, <2>1, <1>2, OneRun
  <2>3. /\ c \in Running' => RunOK(c)'
        /\ pc'[c] = "done" /\ aim'[c] = 0 => \A p \in Problem : Accepts(trace[p])'
    BY <2>0, <1>2, RunMoves
  <2>4. \/ trace' = trace
        \/ /\ c \in Running /\ pc[c] \in {"running", "writing", "record"}
           /\ \A p \in Problem : p # prob[c] => trace'[p] = trace[p]
    BY <1>2, ResultMoves DEF Aside
  <2>5. ASSUME NEW d \in Cmd, d # c, d \in Running'
        PROVE  RunOK(d)'
    <3>1. Frame(d)
      BY <2>1, <2>5, OthersStay
    <3>2. d \in Running
      BY <3>1, <2>5 DEF Frame, Running, AtWork
    <3>3. c \notin Running /\ trace' = trace
      BY <3>2, <2>5, <2>0, <2>4
    <3> QED
      BY <3>1, <3>2, <3>3, <2>0, <2>1 DEF Frame, RunOK, Accepts
  <2>6. ASSUME NEW d \in Cmd, d # c, pc'[d] = "done", aim'[d] = 0, NEW p \in Problem
        PROVE  Accepts(trace[p])'
    <3>1. Frame(d)
      BY <2>1, <2>6, OthersStay
    <3>2. \A q \in Problem : Accepts(trace[q])
      BY <3>1, <2>6, <2>0 DEF Frame
    <3>3. CASE trace' = trace
      BY <3>2, <3>3, <2>1 DEF Accepts
    <3>4. CASE c \in Running /\ pc[c] \in {"running", "writing", "record"}
      <4>1. RunOK(c) /\ prob[c] \in Problem
        BY <3>4, <2>0 DEF TypeOK
      <4>2. trace[prob[c]].state # "whole"
        BY <4>1, <3>4 DEF RunOK, NoTrace
      <4> QED
        BY <4>1, <4>2, <3>2 DEF Accepts
    <3> QED
      BY <3>3, <3>4, <2>4
  <2>7. \A d \in Running' : RunOK(d)'
    BY <2>3, <2>5 DEF Running, AtWork
  <2>8. DoneIsComplete'
    BY <2>3, <2>6 DEF DoneIsComplete
  <2> QED
    BY <2>2, <2>7, <2>8 DEF ResultInv
<1> QED
  BY <1>0, <1>1, <1>2, NextIsStep DEF Aside, Step

-----------------------------------------------------------------------------
(* Who builds gates, and who measures. *)

\* A command becomes a builder only by being given a stage to qualify.
LEMMA BuilderMoves ==
  ASSUME TypeOK, NEW c \in Cmd, WalkOK(c), Step(c), ~ Qualify(c), c \in Builders'
  PROVE  c \in Builders
<1> USE DEF Builders, AtWork, Ended, TypeOK
<1>1. CASE Verify(c)
  BY <1>1 DEF Verify
<1>2. CASE Hash(c)
  BY <1>2 DEF Hash
<1>3. CASE TakeGpu(c)
  BY <1>3 DEF TakeGpu
<1>4. CASE GpuTimeout(c)
  BY <1>4 DEF GpuTimeout
<1>5. CASE Fails(c)
  BY <1>5 DEF Fails
<1>6. CASE Judge(c)
  BY <1>6 DEF Judge
<1>7. CASE OpenTrace(c)
  BY <1>7 DEF OpenTrace
<1>8. CASE CloseTrace(c)
  BY <1>8 DEF CloseTrace
<1>9. CASE Cite(c)
  BY <1>9 DEF Cite
<1>10. CASE Publish(c)
  BY <1>10 DEF Publish
<1>11. CASE Start(c)
  BY <1>11 DEF Start, Begin, WalkOK
<1>12. CASE Environment(c)
  BY <1>12 DEF Environment
<1>13. CASE Existing(c)
  BY <1>13 DEF Existing, Advance
<1>14. CASE Missing(c)
  BY <1>14 DEF Missing
<1>15. CASE Validate(c)
  BY <1>15 DEF Validate, Advance
<1>16. CASE EvaluatorFails(c)
  BY <1>16 DEF EvaluatorFails
<1>17. CASE OpenResult(c)
  BY <1>17 DEF OpenResult
<1>18. CASE CloseResult(c)
  BY <1>18 DEF CloseResult
<1>19. CASE RecordFailure(c)
  BY <1>19 DEF RecordFailure
<1>20. CASE CommandEnds(c)
  BY <1>20 DEF CommandEnds, Exit, Kill, Forget
<1> QED
  BY <1>1, <1>2, <1>3, <1>4, <1>5, <1>6, <1>7, <1>8, <1>9, <1>10, <1>11, <1>12, <1>13, <1>14,
     <1>15, <1>16, <1>17, <1>18, <1>19, <1>20
     DEF Step, ReleaseStep, QualifyStep, SharedStep, Measure

\* Only builders write gates and the traces the gates cite.
LEMMA OnlyBuildersWrite ==
  ASSUME TypeOK, NEW c \in Cmd, WalkOK(c), Step(c), c \notin Builders
  PROVE  UNCHANGED gates
<1>1. ~ Publish(c) /\ ~ OpenTrace(c) /\ ~ CloseTrace(c)
  BY DEF Publish, OpenTrace, CloseTrace, Builders, AtWork, Ended, WalkOK, Evaluating, TypeOK
<1> QED
  BY <1>1 DEF Step, ReleaseStep, QualifyStep, SharedStep, Measure,
       Qualify, Verify, Hash, TakeGpu, GpuTimeout, Fails, Judge, Cite, Start, Environment,
          Existing, Advance, Missing, Validate, EvaluatorFails, OpenResult, CloseResult,
          RecordFailure, CommandEnds, Exit, Kill, Forget

\* What a step adds to the histories.
LEMMA HistoryMoves ==
  ASSUME NEW c \in Cmd,
         \/ ReleaseStep(c)
         \/ (QualifyStep(c) \/ SharedStep(c) \/ TakeGpu(c) \/ CommandEnds(c)) /\ measured' = measured
  PROVE  \/ UNCHANGED << passed, measured >>
         \/ Publish(c) /\ measured' = measured
         \/ Measure(c) /\ passed' = passed
BY DEF ReleaseStep, QualifyStep, SharedStep, Measure, Qualify, Verify, Hash, TakeGpu,
   GpuTimeout, Fails, Judge, OpenTrace, CloseTrace, Cite, Start, Environment, Existing, Advance,
   Missing, Validate, EvaluatorFails, OpenResult, CloseResult, RecordFailure, CommandEnds, Exit,
   Kill, Forget

-----------------------------------------------------------------------------
(* The theorems. *)

LEMMA InitIInv == Init => IInv
<1> SUFFICES ASSUME Init
             PROVE  IInv
  OBVIOUS
<1>1. TypeOK
  <2>1. NoGate \in Gate /\ NoTrace \in Trace /\ [p \in Problem |-> 0] \in [Problem -> Id]
    BY DEF NoGate, Gate, NoTrace, Trace
  <2>2. gate \in [Stage -> Gate] /\ trace \in [Problem -> Trace]
    BY <2>1 DEF Init, QualityInit
  <2>3. qtrace \in [Measured -> [Problem -> Id]] /\ cites \in [Cmd -> [Problem -> Id]]
    BY <2>1 DEF Init, QualityInit
  <2>4. pc \in [Cmd -> PC] /\ conf \in [Cmd -> Conf \cup {NoConf}] /\ prob \in [Cmd -> Problem]
    BY DEF Init, QualityInit, PC, Ended
  <2>5. /\ gpu \in Cmd \cup {NoCmd} /\ given \in Id /\ id \in [Cmd -> Id]
        /\ aim \in [Cmd -> 0 .. Full] /\ at \in [Cmd -> Stage] /\ parent \in [Cmd -> Id]
    BY DEF Init, QualityInit
  <2> QED
    BY <2>2, <2>3, <2>4, <2>5 DEF Init, QualityInit, TypeOK
<1>2. WalkInv
  BY DEF Init, QualityInit, WalkInv, WalkOK, Walking, Evaluating
<1>3. PassedInv
  BY DEF Init, QualityInit, PassedInv, PassedOK, Evaluating
<1>4. ResultInv
  BY DEF Init, QualityInit, ResultInv, Running, AtWork, Ended, DoneIsComplete
<1> QED
  BY <1>1, <1>2, <1>3, <1>4 DEF IInv

LEMMA StepIInv == IInv /\ [Next]_vars => IInv'
BY TypeStep, WalkStep, PassedStep, ResultStep DEF IInv

LEMMA AlwaysIInv == Spec => []IInv
BY InitIInv, StepIInv, PTL DEF Spec

\* The files, the commands and the histories hold what they may.
THEOREM TypeCorrect == Spec => []TypeOK
<1>1. IInv => TypeOK
  BY DEF IInv
<1> QED
  BY <1>1, AlwaysIInv, PTL

\* A release run that reports success leaves an acceptable trace of every problem.
THEOREM RunsComplete == Spec => []DoneIsComplete
<1>1. IInv => DoneIsComplete
  BY DEF IInv, ResultInv, DoneIsComplete
<1> QED
  BY <1>1, AlwaysIInv, PTL

\* No run replaces a result an earlier one left whole.
THEOREM ResultsStay == Spec => ResultStays
<1>1. ASSUME IInv, [Next]_vars, ~ TwoRuns, NEW p \in Problem, trace[p].state = "whole"
      PROVE  trace'[p] = trace[p]
  <2>1. CASE UNCHANGED vars
    BY <2>1
  <2>2. ASSUME NEW c \in Cmd, ReleaseStep(c) \/ Aside(c)
        PROVE  trace'[p] = trace[p]
    <3>1. \/ trace' = trace
          \/ /\ c \in Running /\ pc[c] \in {"running", "writing", "record"}
             /\ \A q \in Problem : q # prob[c] => trace'[q] = trace[q]
      BY <1>1, <2>2, ResultMoves DEF Aside, IInv
    <3>2. CASE c \in Running /\ pc[c] \in {"running", "writing", "record"}
      <4>1. RunOK(c)
        BY <1>1, <3>2 DEF IInv, ResultInv
      <4>2. trace[prob[c]].state # "whole"
        BY <4>1, <3>2 DEF RunOK, NoTrace
      <4> QED
        BY <1>1, <3>1, <4>2
    <3> QED
      BY <3>1, <3>2
  <2> QED
    BY <1>1, <2>1, <2>2, NextIsStep DEF Aside
<1>2. IInv /\ [Next]_vars
        => [~ TwoRuns => \A p \in Problem : trace[p].state = "whole" => trace'[p] = trace[p]]_vars
  BY <1>1
<1> QED
  BY <1>2, AlwaysIInv, PTL DEF Spec, ResultStays

\* Once the chain verifies and nobody builds a stage of it, every command leaves it so.
THEOREM QualifiedStays == Spec => QualifiedStaysQualified
<1>1. ASSUME TypeOK, WalkInv, [Next]_vars, NEW v \in Conf, ChainHolds(v), Builders = {}
      PROVE  ChainHolds(v)' /\ Builders' = {}
  <2>1. CASE UNCHANGED vars
    BY <1>1, <2>1 DEF ChainHolds, Builders, AtWork
  <2>2. ASSUME NEW c \in Cmd, Step(c)
        PROVE  ChainHolds(v)' /\ Builders' = {}
    <3>1. WalkOK(c)
      BY <1>1 DEF WalkInv
    <3>2. UNCHANGED gates
      BY <1>1, <2>2, <3>1, OnlyBuildersWrite
    <3>3. ChainHolds(v)'
      BY <1>1, <3>2 DEF ChainHolds
    <3>4. ASSUME NEW d \in Cmd, d # c
          PROVE  d \notin Builders'
      <4>1. Frame(d)
        BY <1>1, <2>2, <3>4, OthersStay
      <4> QED
        BY <1>1, <4>1 DEF Frame, Builders, AtWork
    <3>5. c \notin Builders'
      <4>1. CASE Qualify(c)
        <5>1. PICK s \in Stage : fresh' = [fresh EXCEPT ![c] = gate[s] = NoGate]
          BY <4>1 DEF Qualify
        <5>2. gate[s] # NoGate
          BY <1>1 DEF ChainHolds
        <5>3. ~ fresh'[c]
          BY <1>1, <5>1, <5>2 DEF TypeOK
        <5> QED
          BY <5>3 DEF Builders
      <4>2. CASE ~ Qualify(c)
        BY <1>1, <2>2, <3>1, <4>2, BuilderMoves
      <4> QED
        BY <4>1, <4>2
    <3>6. Builders' = {}
      BY <3>4, <3>5 DEF Builders, AtWork
    <3> QED
      BY <3>3, <3>6
  <2> QED
    BY <1>1, <2>1, <2>2, NextIsStep DEF Step
<1>2. IInv /\ [Next]_vars
        => [\A v \in Conf : ChainHolds(v) /\ Builders = {} => ChainHolds(v)' /\ Builders' = {}]_quality
  BY <1>1 DEF IInv
<1> QED
  BY <1>2, AlwaysIInv, PTL DEF Spec, QualifiedStaysQualified

\* The stages pass in order, and nothing is measured before the last has passed.
THEOREM Releases == Spec => ReleaseIsGated
<1>1. Init => Gated!Init
  BY DEF Init, QualityInit, Gated!Init
<1>2. ASSUME TypeOK, WalkInv, PassedInv, [Next]_vars
      PROVE  [Gated!Next]_<< passed, measured >>
  <2>1. CASE UNCHANGED vars
    BY <2>1
  <2>2. ASSUME NEW c \in Cmd,
               \/ ReleaseStep(c)
               \/ (QualifyStep(c) \/ SharedStep(c) \/ TakeGpu(c) \/ CommandEnds(c)) /\ measured' = measured
        PROVE  [Gated!Next]_<< passed, measured >>
    <3>1. CASE Publish(c) /\ measured' = measured
      <4>1. pc[c] = "publish" /\ passed' = passed \cup {<< aim[c], conf[c] >>}
        BY <3>1 DEF Publish
      <4>2. aim[c] \in 1 .. Full /\ conf[c] \in Conf
        BY <1>2, <4>1 DEF WalkInv, WalkOK, TypeOK
      <4>3. PassedUpTo(c, aim[c] - 1)
        BY <1>2, <4>1, <4>2 DEF PassedInv, PassedOK
      <4>4. aim[c] > 1 => << aim[c] - 1, conf[c] >> \in passed
        BY <4>2, <4>3 DEF PassedUpTo
      <4>5. Gated!Pass(aim[c], conf[c])
        BY <3>1, <4>1, <4>4 DEF Gated!Pass
      <4> QED
        BY <4>2, <4>5 DEF Gated!Next
    <3>2. CASE Measure(c) /\ passed' = passed
      <4>1. pc[c] = "evaluate" /\ aim[c] = 0 /\ measured' = measured \cup {conf[c]}
        BY <3>2 DEF Measure, TakeGpu
      <4>2. conf[c] \in Conf
        BY <1>2, <4>1 DEF WalkInv, WalkOK
      <4>3. << Full, conf[c] >> \in passed
        <5>1. PassedUpTo(c, Full)
          BY <1>2, <4>1 DEF PassedInv, PassedOK, Evaluating
        <5> QED
          BY <5>1 DEF PassedUpTo
      <4>4. Gated!Measure(conf[c])
        BY <3>2, <4>1, <4>3 DEF Gated!Measure
      <4> QED
        BY <4>2, <4>4 DEF Gated!Next
    <3> QED
      BY <2>2, <3>1, <3>2, HistoryMoves
  <2> QED
    BY <1>2, <2>1, <2>2, NextIsStep
<1>3. IInv /\ [Next]_vars => [Gated!Next]_<< passed, measured >>
  BY <1>2 DEF IInv
<1> QED
  BY <1>1, <1>3, AlwaysIInv, PTL DEF Spec, ReleaseIsGated, Gated!Spec

-----------------------------------------------------------------------------
(* The GPU, and the end of every command. *)

\* Who holds the evaluation lock is evaluating, and nobody else is.
OneEvaluation == \A c \in Cmd : gpu = c <=> pc[c] \in {"running", "writing"}

\* A step of a command takes, keeps or gives back the lock as the place it goes to says.
LEMMA LockFollows ==
  ASSUME TypeOK, OneEvaluation, NEW c \in Cmd, Step(c)
  PROVE  /\ gpu' = c <=> pc'[c] \in {"running", "writing"}
         /\ \A d \in Cmd : d # c => (gpu' = d <=> gpu = d)
<1> USE DEF Ended, AtWork
<1>a. /\ pc \in [Cmd -> PC] /\ gpu \in Cmd \cup {NoCmd}
      /\ gpu = c <=> pc[c] \in {"running", "writing"}
  BY DEF TypeOK, OneEvaluation
<1>1. CASE Qualify(c) \/ Start(c)
  BY <1>1, <1>a DEF Qualify, Start, Begin
<1>2. CASE Verify(c) \/ Hash(c)
  BY <1>2, <1>a DEF Verify, Hash
<1>3. CASE TakeGpu(c) \/ GpuTimeout(c)
  BY <1>3, <1>a DEF TakeGpu, GpuTimeout
<1>4. CASE Fails(c) \/ EvaluatorFails(c)
  BY <1>4, <1>a DEF Fails, EvaluatorFails
<1>5. CASE OpenTrace(c) \/ OpenResult(c)
  BY <1>5, <1>a DEF OpenTrace, OpenResult
<1>6. CASE CloseTrace(c) \/ CloseResult(c)
  <2>1. /\ gpu' = NoCmd /\ pc[c] = "writing"
        /\ \E to \in {"judge", "failed", "validate"} : pc' = [pc EXCEPT ![c] = to]
    BY <1>6 DEF CloseTrace, CloseResult
  <2> QED
    BY <2>1, <1>a
<1>7. CASE Judge(c) \/ Cite(c) \/ Publish(c)
  BY <1>7, <1>a DEF Judge, Cite, Publish
<1>8. CASE Environment(c) \/ Missing(c) \/ RecordFailure(c)
  BY <1>8, <1>a DEF Environment, Missing, RecordFailure
<1>9. CASE Existing(c) \/ Validate(c)
  BY <1>9, <1>a DEF Existing, Validate, Advance
<1>10. CASE CommandEnds(c)
  BY <1>10, <1>a DEF CommandEnds, Exit, Kill, Forget
<1> QED
  BY <1>1, <1>2, <1>3, <1>4, <1>5, <1>6, <1>7, <1>8, <1>9, <1>10
     DEF Step, ReleaseStep, QualifyStep, SharedStep, Measure

\* Evaluations exclude one another, those of qualifying commands, of a release run and of two
\* release runs that overlap; a command that ends or is killed holds no lock.
THEOREM EvaluationsExclude == Spec => []OneEvaluation
<1>1. Init => OneEvaluation
  BY DEF Init, QualityInit, OneEvaluation
<1>2. ASSUME TypeOK, OneEvaluation, [Next]_vars
      PROVE  OneEvaluation'
  <2>1. CASE UNCHANGED vars
    BY <1>2, <2>1 DEF OneEvaluation
  <2>2. ASSUME NEW c \in Cmd, Step(c)
        PROVE  OneEvaluation'
    <3>1. ASSUME NEW d \in Cmd, d # c
          PROVE  gpu' = d <=> pc'[d] \in {"running", "writing"}
      <4>1. pc'[d] = pc[d] /\ (gpu' = d <=> gpu = d)
        BY <1>2, <2>2, <3>1, OthersStay, LockFollows DEF Frame
      <4> QED
        BY <1>2, <4>1 DEF OneEvaluation
    <3>2. gpu' = c <=> pc'[c] \in {"running", "writing"}
      BY <1>2, <2>2, LockFollows
    <3> QED
      BY <3>1, <3>2 DEF OneEvaluation
  <2> QED
    BY <1>2, <2>1, <2>2, NextIsStep DEF Step
<1>3. IInv /\ OneEvaluation /\ [Next]_vars => OneEvaluation'
  BY <1>2 DEF IInv
<1> QED
  BY <1>1, <1>3, AlwaysIInv, PTL DEF Spec

\* What is left of a walk: two steps for each gate, and at the end of it the evaluations it
\* was for, the release it opens, or nothing.
WalkLeft(c) == 2 * (Full - at[c]) + (IF pc[c] = "verify" THEN 2 ELSE 1)
Beyond(c) ==
  IF fresh[c] THEN 5 * Problems + 9 ELSE IF aim[c] = 0 THEN 5 * Problems + 3 ELSE 1
Rest(c) == 5 * (Problems - prob[c])

\* How many steps a command has left: a qualifying command walks the chain once more when it
\* has published.
Left(c) ==
  CASE pc[c] \in Walking    -> WalkLeft(c) + Beyond(c)
    [] pc[c] = "begin"      -> 5 * Problems + 2
    [] pc[c] = "next"       -> Rest(c) + 6
    [] pc[c] = "evaluate"   -> Rest(c) + (IF aim[c] = 0 THEN 5 ELSE 13)
    [] pc[c] = "running"    -> Rest(c) + (IF aim[c] = 0 THEN 4 ELSE 12)
    [] pc[c] = "writing"    -> Rest(c) + (IF aim[c] = 0 THEN 3 ELSE 11)
    [] pc[c] = "record"     -> Rest(c) + 3
    [] pc[c] = "validate"   -> Rest(c) + 2
    [] pc[c] = "judge"      -> Rest(c) + 10
    [] pc[c] = "cite"       -> Rest(c) + 9
    [] pc[c] = "publish"    -> 8
    [] pc[c] \in {"done", "failed"} -> 1
    [] OTHER -> 0

LeftInv == \A c \in Cmd : Left(c) \in 0 .. 5 * Problems + 15

\* Every step of a command uses up what it has left, and no other command gives it more.
UsesUp == \A c \in Cmd : pc[c] # "idle" =>
  Left(c)' <= Left(c) /\ (Step(c) => Left(c)' < Left(c))

LEMMA LeftTyped ==
  ASSUME TypeOK, WalkInv, NEW c \in Cmd
  PROVE  Left(c) \in 0 .. 5 * Problems + 15
<1>1. /\ at[c] \in Stage /\ aim[c] \in 0 .. Full /\ prob[c] \in Problem /\ fresh[c] \in BOOLEAN
      /\ pc[c] \in PC /\ WalkOK(c)
  BY DEF TypeOK, WalkInv
<1>2. Rest(c) \in 0 .. 5 * Problems - 5
  BY <1>1 DEF Rest
<1>3. CASE pc[c] \in Walking
  <2>1. WalkLeft(c) \in 1 .. 6
    BY <1>1 DEF WalkLeft
  <2>2. Beyond(c) \in 1 .. 5 * Problems + 9
    BY DEF Beyond
  <2>3. Left(c) = WalkLeft(c) + Beyond(c)
    BY <1>3 DEF Left, Walking
  <2> QED
    BY <2>1, <2>2, <2>3
<1>4. CASE pc[c] \notin Walking
  <2>1. \/ Left(c) \in {0, 1, 8, 5 * Problems + 2}
        \/ \E n \in 2 .. 13 : Left(c) = Rest(c) + n
    BY <1>1, <1>4 DEF Left, Walking, PC, Ended
  <2> QED
    BY <1>2, <2>1
<1> QED
  BY <1>3, <1>4

\* The steps of the walk.
LEMMA WalkUsesUp ==
  ASSUME TypeOK, NEW c \in Cmd, WalkOK(c), Verify(c) \/ Hash(c)
  PROVE  Left(c)' \in Nat /\ Left(c)' < Left(c)
<1>1. /\ at[c] \in Stage /\ aim[c] \in 0 .. Full /\ prob[c] \in Problem /\ fresh[c] \in BOOLEAN
  BY DEF TypeOK
<1>2. CASE Verify(c)
  <2>1. /\ pc[c] = "verify" /\ aim'[c] = aim[c] /\ at'[c] = at[c] /\ fresh'[c] = fresh[c]
        /\ \/ pc'[c] = "failed"
           \/ pc'[c] = "hash"
           \/ pc'[c] = "begin" /\ aim[c] = 0 /\ ~ fresh[c]
           \/ pc'[c] = "done"
    BY <1>2 DEF Verify, TypeOK
  <2> QED
    BY <1>1, <2>1 DEF Left, WalkLeft, Beyond, Walking
<1>3. CASE Hash(c)
  <2>1. /\ pc[c] = "hash" /\ aim'[c] = aim[c] /\ at'[c] = at[c] + 1 /\ fresh'[c] = fresh[c]
        /\ prob'[c] = prob[c]
        /\ \/ pc'[c] = "verify" /\ at[c] < Target(c)
           \/ pc'[c] = "evaluate" /\ ~ (at[c] < Target(c))
    BY <1>3 DEF Hash, TypeOK
  <2>2. CASE pc'[c] = "verify"
    <3>1. at'[c] \in Stage
      BY <1>1, <2>1, <2>2 DEF Target
    <3> QED
      BY <1>1, <2>1, <2>2, <3>1 DEF Left, WalkLeft, Beyond, Walking
  <2>3. CASE pc'[c] = "evaluate"
    <3>1. fresh[c] /\ aim[c] # 0
      BY <2>1, <2>3 DEF WalkOK
    <3>2. Left(c) = 2 * (Full - at[c]) + 1 + (5 * Problems + 9)
      BY <2>1, <3>1 DEF Left, WalkLeft, Beyond, Walking
    <3>3. Left(c)' = 5 * (Problems - prob[c]) + 13
      BY <2>1, <2>3, <3>1 DEF Left, Rest, Walking
    <3> QED
      BY <1>1, <3>2, <3>3
  <2> QED
    BY <2>1, <2>2, <2>3
<1> QED
  BY <1>2, <1>3

\* The step from one problem to the next.
LEMMA AdvanceUsesUp ==
  ASSUME TypeOK, NEW c \in Cmd, WalkOK(c), Existing(c) \/ Validate(c)
  PROVE  Left(c)' \in Nat /\ Left(c)' < Left(c)
<1>1. pc[c] \in {"next", "validate"} /\ prob[c] \in Problem
  BY DEF Existing, Validate, TypeOK
<1>2. \/ pc'[c] = "next" /\ prob[c] < Problems /\ prob'[c] = prob[c] + 1
      \/ pc'[c] \in {"done", "failed"}
  BY DEF Existing, Validate, Advance, TypeOK
<1>3. Left(c) \in Nat /\ Left(c) >= Rest(c) + 2 /\ Rest(c) \in Nat
  BY <1>1 DEF Left, Rest, Walking
<1>4. CASE pc'[c] = "next" /\ prob[c] < Problems /\ prob'[c] = prob[c] + 1
  <2>1. Left(c)' = 5 * (Problems - (prob[c] + 1)) + 6
    BY <1>4 DEF Left, Rest, Walking
  <2> QED
    BY <1>1, <1>3, <1>4, <2>1 DEF Rest
<1>5. CASE pc'[c] \in {"done", "failed"}
  BY <1>3, <1>5 DEF Left, Walking
<1> QED
  BY <1>2, <1>4, <1>5

\* The steps of an evaluation and of what comes of it.
LEMMA EvaluationUsesUp ==
  ASSUME TypeOK, NEW c \in Cmd, WalkOK(c),
         \/ TakeGpu(c) \/ GpuTimeout(c) \/ Fails(c) \/ EvaluatorFails(c) \/ OpenTrace(c) \/ OpenResult(c)
         \/ CloseTrace(c) \/ CloseResult(c) \/ RecordFailure(c) \/ Judge(c)
  PROVE  Left(c)' \in Nat /\ Left(c)' < Left(c)
<1>0. prob[c] \in Problem
  BY DEF TypeOK
<1>1. Rest(c) \in Nat
  BY <1>0 DEF Rest
<1>2. aim'[c] = aim[c] /\ prob'[c] = prob[c]
  BY DEF TakeGpu, GpuTimeout, Fails, EvaluatorFails, OpenTrace, OpenResult, CloseTrace,
         CloseResult, RecordFailure, Judge
<1>3. Rest(c)' = Rest(c)
  BY <1>2 DEF Rest
<1>4. \/ pc[c] \in {"evaluate", "running", "writing", "judge"} /\ pc'[c] = "failed"
      \/ pc[c] = "evaluate" /\ pc'[c] = "running"
      \/ pc[c] = "running" /\ pc'[c] = "writing"
      \/ pc[c] = "running" /\ pc'[c] = "record" /\ aim[c] = 0
      \/ pc[c] = "writing" /\ pc'[c] = "validate" /\ aim[c] = 0
      \/ pc[c] = "writing" /\ pc'[c] = "judge" /\ aim[c] # 0
      \/ pc[c] = "record" /\ pc'[c] = "validate"
      \/ pc[c] = "judge" /\ pc'[c] = "cite"
  <2>1. CASE TakeGpu(c) \/ GpuTimeout(c) \/ Fails(c) \/ EvaluatorFails(c)
    BY <2>1 DEF TakeGpu, GpuTimeout, Fails, EvaluatorFails, TypeOK
  <2>2. CASE OpenTrace(c) \/ OpenResult(c) \/ RecordFailure(c) \/ Judge(c)
    BY <2>2 DEF OpenTrace, OpenResult, RecordFailure, Judge, TypeOK
  <2>3. CASE CloseTrace(c)
    BY <2>3 DEF CloseTrace, TypeOK
  <2>4. CASE CloseResult(c)
    BY <2>4 DEF CloseResult, TypeOK
  <2> QED
    BY <2>1, <2>2, <2>3, <2>4
<1> QED
  BY <1>1, <1>2, <1>3, <1>4 DEF Left, Walking

\* Citing, publishing, and the two steps a release run takes without measuring.
LEMMA OtherUsesUp ==
  ASSUME TypeOK, NEW c \in Cmd, WalkOK(c), Cite(c) \/ Publish(c) \/ Environment(c) \/ Missing(c)
  PROVE  Left(c)' \in Nat /\ Left(c)' < Left(c)
<1>1. prob[c] \in Problem /\ aim[c] \in 0 .. Full
  BY DEF TypeOK
<1>2. CASE Cite(c)
  <2>1. /\ pc[c] = "cite" /\ aim'[c] = aim[c] /\ aim[c] # 0
        /\ \/ pc'[c] = "evaluate" /\ prob[c] < Problems /\ prob'[c] = prob[c] + 1
           \/ pc'[c] = "publish"
    BY <1>2 DEF Cite, TypeOK, WalkOK
  <2>2. Left(c) = 5 * (Problems - prob[c]) + 9
    BY <2>1 DEF Left, Rest, Walking
  <2>3. CASE pc'[c] = "evaluate" /\ prob[c] < Problems /\ prob'[c] = prob[c] + 1
    <3>1. Left(c)' = 5 * (Problems - (prob[c] + 1)) + 13
      BY <2>1, <2>3 DEF Left, Rest, Walking
    <3> QED
      BY <1>1, <2>2, <2>3, <3>1
  <2>4. CASE pc'[c] = "publish"
    BY <1>1, <2>2, <2>4 DEF Left, Walking
  <2> QED
    BY <2>1, <2>3, <2>4
<1>3. CASE Publish(c)
  <2>1. /\ pc[c] = "publish" /\ pc'[c] = "verify" /\ at'[c] = Static /\ ~ fresh'[c]
        /\ aim'[c] = aim[c] /\ aim[c] # 0
    BY <1>3 DEF Publish, TypeOK, WalkOK
  <2> QED
    BY <2>1 DEF Left, WalkLeft, Beyond, Walking
<1>4. CASE Environment(c)
  <2>1. pc[c] = "begin" /\ prob[c] = 1 /\ prob'[c] = 1 /\ pc'[c] \in {"next", "failed"}
    BY <1>4 DEF Environment, TypeOK, WalkOK
  <2> QED
    BY <2>1 DEF Left, Rest, Walking
<1>5. CASE Missing(c)
  <2>1. pc[c] = "next" /\ aim[c] = 0 /\ aim'[c] = 0 /\ prob'[c] = prob[c] /\ pc'[c] = "evaluate"
    BY <1>5 DEF Missing, TypeOK, WalkOK
  <2> QED
    BY <1>1, <2>1 DEF Left, Rest, Walking
<1> QED
  BY <1>2, <1>3, <1>4, <1>5

\* Every step of a command that was given.
LEMMA StepUsesUp ==
  ASSUME TypeOK, WalkInv, NEW c \in Cmd, pc[c] # "idle", Step(c)
  PROVE  Left(c)' \in Nat /\ Left(c)' < Left(c)
<1>1. WalkOK(c)
  BY DEF WalkInv
<1>2. ~ Qualify(c) /\ ~ Start(c)
  BY DEF Qualify, Start, Begin
<1>3. CASE CommandEnds(c)
  <2>1. pc'[c] = "idle"
    BY <1>3 DEF CommandEnds, Exit, Kill, Forget, TypeOK
  <2>2. Left(c)' = 0
    BY <2>1 DEF Left, Walking
  <2>3. Left(c) \in Nat
    BY LeftTyped
  <2>4. pc[c] \in PC /\ at[c] \in Stage /\ aim[c] \in 0 .. Full /\ prob[c] \in Problem
        /\ fresh[c] \in BOOLEAN
    BY DEF TypeOK
  <2>5. Left(c) > 0
    <3>1. CASE pc[c] \in Walking
      BY <2>4, <3>1 DEF Left, WalkLeft, Beyond, Walking
    <3>2. CASE pc[c] \notin Walking
      <4>1. Rest(c) \in Nat
        BY <2>4 DEF Rest
      <4> QED
        BY <2>4, <3>2, <4>1 DEF Left, PC, Ended, Walking
    <3> QED
      BY <3>1, <3>2
  <2> QED
    BY <2>2, <2>3, <2>5
<1> QED
  BY <1>1, <1>2, <1>3, WalkUsesUp, AdvanceUsesUp, EvaluationUsesUp, OtherUsesUp
     DEF Step, ReleaseStep, QualifyStep, SharedStep, Measure

\* A command takes at most 5 * Problems + 15 steps from where it is, whichever stage it
\* qualifies or run it resumes and whatever the commands beside it do: with fairness it ends.
THEOREM CommandIsBounded == Spec => []LeftInv /\ [][UsesUp]_vars
<1>1. TypeOK /\ WalkInv => LeftInv
  BY LeftTyped DEF LeftInv
<1>2. ASSUME TypeOK, WalkInv, [Next]_vars
      PROVE  UsesUp
  <2>1. ASSUME NEW c \in Cmd, pc[c] # "idle"
        PROVE  Left(c)' <= Left(c) /\ (Step(c) => Left(c)' < Left(c))
    <3>1. Left(c) \in Nat
      BY <1>2, LeftTyped
    <3>2. CASE Step(c)
      <4>1. Left(c)' \in Nat /\ Left(c)' < Left(c)
        BY <1>2, <2>1, <3>2, StepUsesUp
      <4> QED
        BY <3>1, <4>1
    <3>3. CASE ~ Step(c)
      <4>1. UNCHANGED vars \/ Frame(c)
        <5>1. UNCHANGED vars \/ \E d \in Cmd : Step(d)
          BY <1>2, NextIsStep DEF Step
        <5> QED
          BY <1>2, <3>3, <5>1, OthersStay
      <4>2. Left(c)' = Left(c)
        BY <4>1 DEF Frame, Left, WalkLeft, Beyond, Rest
      <4> QED
        BY <3>1, <3>3, <4>2
    <3> QED
      BY <3>2, <3>3
  <2> QED
    BY <2>1 DEF UsesUp
<1>3. IInv => TypeOK /\ WalkInv
  BY DEF IInv
<1>4. IInv /\ [Next]_vars => [UsesUp]_vars
  BY <1>2, <1>3
<1>5. IInv => LeftInv
  BY <1>1, <1>3
<1> QED
  BY <1>4, <1>5, AlwaysIInv, PTL DEF Spec
===============================================================================
