---------------------------- MODULE LifecycleRunEnds ----------------------------
(***************************************************************************)
(* Why an invocation of the lifecycle engine ends, and what the first run  *)
(* of the whole chain ends with: the safety halves of InvocationEnds and   *)
(* FirstRunDecides, for any budget, content and failures.  Every step of   *)
(* the engine uses up work that is bounded when the invocation starts.     *)
(***************************************************************************)
EXTENDS LifecycleRunProofs, FiniteSetTheorems

USE LifecycleAssumption

-----------------------------------------------------------------------------
(* The work of an invocation. *)

Left(s) == MaxAttempts - cur[s].attempts

AttemptsLeft ==
  Left("design") + Left("calibration") + Left("collection_run") + Left("corpus_snapshot")
    + Left("model_build") + Left("acceptance") + Left("publication") + Left("release")

\* The steps of an attempt that are left, and those of the loop.
StepsLeft ==
  CASE pc = "prepare"  -> 10
    [] pc = "run"      -> 9
    [] pc = "import"   -> 8
    [] pc = "check"    -> 7
    [] pc = "receipt"  -> 6
    [] pc = "manifest" -> 5
    [] pc = "event"    -> 4
    [] pc = "record"   -> 3
    [] pc = "next"     -> 2
    [] OTHER           -> 1

Work  == IF pc = "idle" THEN 0 ELSE 12 * AttemptsLeft + Cardinality(todo) + StepsLeft
Bound == 96 * MaxAttempts + 18

\* An engine step uses up work; nothing but the start of an invocation adds any.
UsesUp ==
  /\ EngineStep => Work' < Work
  /\ pc # "idle" => Work' <= Work

-----------------------------------------------------------------------------
(* The first run of the whole chain. *)

\* A stage that failed on its last attempt, or on an acceptance precondition.
FailedForGood(state, s) ==
  state[s].status = "failed" /\ (state[s].attempts = MaxAttempts \/ s = "acceptance")

Decided == pc = "idle" /\ (Complete \/ \E s \in Stage : FailedForGood(run, s))

FirstRun == invocation = 1 /\ pc # "idle" /\ todo \cup Verified(cur) = Stage

\* Nothing is recorded before the first run.
BeforeInv ==
  invocation = 0 => /\ pc = "idle" /\ run = Blank /\ outcome = "none"
                    /\ \A s \in Stage, k \in Attempt : event[s][k] = None

\* In the first invocation a stage runs only while it is under way, the ledger has entries
\* of past attempts only, and the loop is left for a stage that failed for good.
FirstInv ==
  invocation = 1 /\ pc # "idle" =>
    /\ mode = "run"
    /\ \A s \in Stage : /\ cur[s].status = "none" => cur[s].attempts = 0
                        /\ cur[s].status = "running" => Busy /\ s = stage
    /\ \A s \in Stage, k \in Attempt : event[s][k] # None =>
         /\ k <= cur[s].attempts
         /\ Busy /\ pc # "record" /\ s = stage => k < cur[s].attempts
    /\ outcome = "terminal" => stage = "acceptance" /\ pc \in {"event", "record"}
    /\ pc = "final" => \E s \in Stage : FailedForGood(cur, s)

-----------------------------------------------------------------------------
(* The chain. *)

LEMMA OneMore ==
  ASSUME NEW S, NEW x, NEW n \in Nat, IsFiniteSet(S), Cardinality(S) <= n
  PROVE  IsFiniteSet(S \cup {x}) /\ Cardinality(S \cup {x}) <= n + 1
<1>1. IsFiniteSet(S \cup {x}) /\ Cardinality(S \cup {x}) = IF x \in S THEN Cardinality(S) ELSE Cardinality(S) + 1
  BY FS_AddElement
<1>2. Cardinality(S) \in Nat
  BY FS_CardinalityType
<1> QED
  BY <1>1, <1>2

\* There are eight stages.
LEMMA EightStages == IsFiniteSet(Stage) /\ Cardinality(Stage) <= 8
<1> DEFINE Fits(S, n) == IsFiniteSet(S) /\ Cardinality(S) <= n
           S2 == {"design", "calibration"}
           S4 == S2 \cup {"collection_run", "corpus_snapshot"}
           S6 == S4 \cup {"model_build", "acceptance"}
<1>1. \A S, x : \A n \in Nat : Fits(S, n) => Fits(S \cup {x}, n + 1)
  BY OneMore
<1>2. Fits({}, 0)
  BY FS_EmptySet
<1> HIDE DEF Fits
<1>3. \A S, x, y : \A n \in Nat : Fits(S, n) => Fits(S \cup {x, y}, n + 2)
  <2> SUFFICES ASSUME NEW S, NEW x, NEW y, NEW n \in Nat, Fits(S, n)
               PROVE  Fits(S \cup {x, y}, n + 2)
    OBVIOUS
  <2>0. n + 1 \in Nat
    OBVIOUS
  <2>1. Fits(S \cup {x}, n + 1)
    BY <1>1, Zenon
  <2> DEFINE T == S \cup {x}
  <2> HIDE DEF T
  <2>2. Fits(T, n + 1)
    BY <2>1 DEF T
  <2>3. Fits(T \cup {y}, (n + 1) + 1)
    BY <1>1, <2>0, <2>2
  <2>4. T \cup {y} = S \cup {x, y} /\ (n + 1) + 1 = n + 2
    BY DEF T
  <2> QED
    BY <2>3, <2>4
<1>4. Fits(S2, 2)
  <2>1. Fits({} \cup {"design", "calibration"}, 0 + 2)
    BY <1>2, <1>3
  <2>2. {} \cup {"design", "calibration"} = S2
    OBVIOUS
  <2> QED
    BY <2>1, <2>2
<1> HIDE DEF S2
<1>5. Fits(S4, 4)
  <2>1. Fits(S4, 2 + 2)
    BY <1>3, <1>4
  <2> QED
    BY <2>1
<1> HIDE DEF S4
<1>6. Fits(S6, 6)
  <2>1. Fits(S6, 4 + 2)
    BY <1>3, <1>5
  <2> QED
    BY <2>1
<1> HIDE DEF S6
<1>7. Fits(S6 \cup {"publication", "release"}, 8)
  <2>1. Fits(S6 \cup {"publication", "release"}, 6 + 2)
    BY <1>3, <1>6
  <2> QED
    BY <2>1
<1>8. Stage = S6 \cup {"publication", "release"}
  BY Stages DEF S6, S4, S2
<1> QED
  BY <1>7, <1>8 DEF Fits

\* A stage depends on earlier ones.
LEMMA ChainOrder ==
  \A s \in Stage : \A d \in DEPENDENCIES[s] : d \in Stage /\ CHAIN_INDEX[d] < CHAIN_INDEX[s]
<1>1. DOMAIN CHAIN = 1 .. 8
  BY DEF CHAIN
<1>2. /\ CHAIN_INDEX["design"] = 1 /\ CHAIN_INDEX["calibration"] = 2
      /\ CHAIN_INDEX["collection_run"] = 3 /\ CHAIN_INDEX["corpus_snapshot"] = 4
      /\ CHAIN_INDEX["model_build"] = 5 /\ CHAIN_INDEX["acceptance"] = 6
      /\ CHAIN_INDEX["publication"] = 7 /\ CHAIN_INDEX["release"] = 8
  <2>1. ASSUME NEW k \in 1 .. 8
        PROVE  CHAIN_INDEX[CHAIN[k]] = k
    <3>1. CHAIN[k] \in Stage
      BY <1>1 DEF Stage
    <3>2. \A i \in 1 .. 8 : CHAIN[i] = CHAIN[k] => i = k
      BY DEF CHAIN
    <3>3. CHAIN_INDEX[CHAIN[k]] = CHOOSE i \in 1 .. 8 : CHAIN[i] = CHAIN[k]
      BY <1>1, <3>1 DEF CHAIN_INDEX
    <3> QED
      BY <3>2, <3>3
  <2>2. /\ CHAIN[1] = "design" /\ CHAIN[2] = "calibration" /\ CHAIN[3] = "collection_run"
        /\ CHAIN[4] = "corpus_snapshot" /\ CHAIN[5] = "model_build" /\ CHAIN[6] = "acceptance"
        /\ CHAIN[7] = "publication" /\ CHAIN[8] = "release"
    BY DEF CHAIN
  <2> QED
    BY <2>1, <2>2
<1> QED
  BY <1>2, Stages DEF DEPENDENCIES

-----------------------------------------------------------------------------
(* Every step of the engine uses up work. *)

LEMMA WorkType ==
  ASSUME TypeOK
  PROVE  /\ AttemptsLeft \in 0 .. 8 * MaxAttempts
         /\ IsFiniteSet(todo) /\ Cardinality(todo) \in 0 .. 8
         /\ StepsLeft \in 1 .. 10 /\ Work \in 0 .. Bound
<1>1. \A s \in Stage : Left(s) \in 0 .. MaxAttempts
  BY DEF TypeOK, StageState, Left
<1>2. AttemptsLeft \in 0 .. 8 * MaxAttempts
  BY <1>1, Stages DEF AttemptsLeft
<1>3. IsFiniteSet(todo) /\ Cardinality(todo) \in 0 .. 8
  <2>1. todo \in SUBSET Stage
    BY DEF TypeOK
  <2>2. IsFiniteSet(todo) /\ Cardinality(todo) <= Cardinality(Stage)
    BY <2>1, EightStages, FS_Subset
  <2> QED
    BY <2>2, EightStages, FS_CardinalityType
<1>4. StepsLeft \in 1 .. 10
  BY DEF StepsLeft
<1>5. Work \in 0 .. Bound
  BY <1>2, <1>3, <1>4 DEF Work, Bound
<1> QED
  BY <1>2, <1>3, <1>4, <1>5

\* A stage that is taken from the list makes it shorter.
LEMMA Shorter ==
  ASSUME TypeOK, NEW s \in todo
  PROVE  Cardinality(todo \ {s}) = Cardinality(todo) - 1
BY WorkType, FS_RemoveElement

\* An attempt that begins uses up one of its stage's.
LEMMA OneAttemptLess ==
  ASSUME NEW s \in Stage, \A t \in Stage : cur[t].attempts \in Nat,
         cur'[s].attempts = cur[s].attempts + 1,
         \A t \in Stage \ {s} : cur'[t].attempts = cur[t].attempts
  PROVE  AttemptsLeft' = AttemptsLeft - 1
<1>1. \A t \in Stage : Left(t)' = IF t = s THEN Left(t) - 1 ELSE Left(t)
  BY DEF Left
<1>2. \A t \in Stage : Left(t) \in Int
  BY DEF Left
<1>3. /\ AttemptsLeft = Left("design") + Left("calibration") + Left("collection_run")
                          + Left("corpus_snapshot") + Left("model_build") + Left("acceptance")
                          + Left("publication") + Left("release")
      /\ AttemptsLeft' = Left("design")' + Left("calibration")' + Left("collection_run")'
                           + Left("corpus_snapshot")' + Left("model_build")' + Left("acceptance")'
                           + Left("publication")' + Left("release")'
  BY DEF AttemptsLeft
<1> HIDE DEF Left
<1> QED
  BY <1>1, <1>2, <1>3, Stages

\* A step that goes on with the attempt.
LEMMA NextStep ==
  ASSUME TypeOK, pc # "idle", pc' # "idle", UNCHANGED << cur, todo >>, StepsLeft' < StepsLeft
  PROVE  Work' < Work
<1>1. AttemptsLeft' = AttemptsLeft
  BY DEF AttemptsLeft, Left
<1>2. AttemptsLeft \in Nat /\ Cardinality(todo) \in Nat /\ StepsLeft \in Nat /\ StepsLeft' \in Nat
  BY WorkType DEF StepsLeft
<1> QED
  BY <1>1, <1>2 DEF Work

\* What is left of the attempts is the same when only the outcome of a stage changes.
LEMMA SameAttempts ==
  ASSUME \A s \in Stage : cur'[s].attempts = cur[s].attempts
  PROVE  AttemptsLeft' = AttemptsLeft
BY Stages DEF AttemptsLeft, Left

\* Every step of the engine (engine.py) uses up work.
LEMMA EngineWorks ==
  ASSUME IInv, EngineStep
  PROVE  Work' < Work
<1>t. TypeOK /\ MemoryInv
  BY DEF IInv
<1>w. /\ AttemptsLeft \in Nat /\ Cardinality(todo) \in Nat /\ StepsLeft \in 1 .. 10 /\ Work \in Nat
      /\ pc # "idle" => Work > 0
  BY <1>t, WorkType DEF Work
<1>1. CASE Refuse \/ Finish \/ (WriteEvent /\ pc' = "idle")
  <2>1. pc # "idle" /\ pc' = "idle"
    BY <1>1 DEF Refuse, Finish, WriteEvent, Forget
  <2>2. Work' = 0
    BY <2>1 DEF Work
  <2> QED
    BY <1>w, <2>1, <2>2
<1>2. CASE Begin
  <2>1. PICK s \in todo : /\ cur' = [cur EXCEPT ![s] = [status |-> "running", attempts |-> @.attempts + 1]]
                          /\ pc = "next" /\ pc' = "prepare" /\ UNCHANGED todo
    BY <1>2 DEF Begin
  <2>2. s \in Stage /\ cur \in [Stage -> StageState]
    BY <1>t DEF TypeOK
  <2>3. \A t \in Stage : cur[t].attempts \in Nat
    BY <2>2 DEF StageState
  <2>4. /\ cur'[s].attempts = cur[s].attempts + 1
        /\ \A t \in Stage \ {s} : cur'[t].attempts = cur[t].attempts
    BY <2>1, <2>2
  <2>5. AttemptsLeft' = AttemptsLeft - 1
    BY <2>2, <2>3, <2>4, OneAttemptLess
  <2>6. StepsLeft = 2 /\ StepsLeft' = 10
    BY <2>1 DEF StepsLeft
  <2>7. Work' < Work
    BY <1>w, <2>1, <2>5, <2>6 DEF Work
  <2> QED
    BY <2>7
<1>3. CASE Exhausted
  <2>1. pc = "next" /\ UNCHANGED cur
    BY <1>3 DEF Exhausted
  <2>2. AttemptsLeft' = AttemptsLeft /\ StepsLeft = 2
    BY <2>1 DEF AttemptsLeft, Left, StepsLeft
  <2>3. CASE pc' = "final" /\ UNCHANGED todo
    <3>1. StepsLeft' = 1
      BY <2>3 DEF StepsLeft
    <3>2. Work' < Work
      BY <1>w, <2>1, <2>2, <2>3, <3>1 DEF Work
    <3> QED
      BY <3>2
  <2>4. CASE UNCHANGED pc /\ \E s \in todo : todo' = todo \ {s}
    <3>1. Cardinality(todo') = Cardinality(todo) - 1
      BY <1>t, <2>4, Shorter
    <3>2. StepsLeft' = 2
      BY <2>1, <2>4 DEF StepsLeft
    <3>3. Work' < Work
      BY <1>w, <2>1, <2>2, <2>4, <3>1, <3>2 DEF Work
    <3> QED
      BY <3>3
  <2> QED
    BY <1>3, <2>3, <2>4 DEF Exhausted
<1>4. CASE \/ PrepareInputs \/ RunHandler \/ ImportOutputs \/ CheckAttempt
           \/ WriteReceipt \/ CommitManifest \/ (WriteEvent /\ pc' # "idle")
  <2>1. pc # "idle" /\ pc' # "idle" /\ UNCHANGED << cur, todo >>
    BY <1>4 DEF PrepareInputs, RunHandler, ImportOutputs, CheckAttempt, WriteReceipt, CommitManifest,
       WriteEvent, Fail, durable, Forget
  <2>2. StepsLeft' < StepsLeft
    BY <1>4 DEF PrepareInputs, RunHandler, ImportOutputs, CheckAttempt, WriteReceipt, CommitManifest,
       WriteEvent, Fail, Forget, StepsLeft
  <2> QED
    BY <1>t, <2>1, <2>2, NextStep
<1>5. CASE RecordOutcome
  <2>1. /\ pc = "record" /\ stage \in todo /\ stage \in Stage /\ cur \in [Stage -> StageState]
        /\ cur' = [cur EXCEPT ![stage] = [status |-> Entry.status, attempts |-> @.attempts]]
        /\ todo' \in {todo, todo \ {stage}} /\ pc' \in {"next", "final"}
    BY <1>5, <1>t DEF RecordOutcome, MemoryInv, Busy, TypeOK
  <2>2. AttemptsLeft' = AttemptsLeft
    BY <2>1, SameAttempts
  <2>3. Cardinality(todo') \in Nat /\ Cardinality(todo') <= Cardinality(todo)
    <3>1. Cardinality(todo \ {stage}) = Cardinality(todo) - 1 /\ Cardinality(todo) \in Nat \ {0}
      <4>1. IsFiniteSet(todo)
        BY <1>t, WorkType
      <4>2. Cardinality(todo) # 0
        BY <2>1, <4>1, FS_EmptySet
      <4> QED
        BY <1>t, <1>w, <2>1, <4>2, Shorter
    <3>2. CASE todo' = todo
      BY <1>w, <3>2
    <3>3. CASE todo' = todo \ {stage}
      BY <3>1, <3>3
    <3> QED
      BY <2>1, <3>2, <3>3
  <2>4. StepsLeft = 3 /\ StepsLeft' \in {1, 2}
    BY <2>1 DEF StepsLeft
  <2>5. Work' < Work
    BY <1>w, <2>1, <2>2, <2>3, <2>4 DEF Work
  <2> QED
    BY <2>5
<1> QED
  BY <1>1, <1>2, <1>3, <1>4, <1>5 DEF EngineStep

\* Nothing outside the engine adds any.
LEMMA WorkStep ==
  ASSUME IInv, Next, Work \in Nat, Work' \in Nat
  PROVE  UsesUp
<1>1. CASE EngineStep
  BY <1>1, EngineWorks DEF UsesUp
<1>2. CASE StartRun \/ StartResume
  BY <1>2, EngineWorks DEF StartRun, StartResume, Start, UsesUp
<1>3. CASE Crash
  <2>1. Work' = 0
    BY <1>3 DEF Crash, Forget, Work
  <2> QED
    BY <2>1, EngineWorks DEF UsesUp
<1>4. CASE DamageOutput \/ LoseReceipt
  <2>1. UNCHANGED volatile
    BY <1>4 DEF DamageOutput, LoseReceipt
  <2>2. Work' = Work
    BY <2>1 DEF volatile, Work, AttemptsLeft, Left, StepsLeft
  <2> QED
    BY <2>2, EngineWorks DEF UsesUp
<1> QED
  BY <1>1, <1>2, <1>3, <1>4 DEF Next

\* The work that is left is a number below a bound that only the budget sets.
WorkInv == Work \in 0 .. Bound

\* No invocation goes on for ever: the engine takes at most 96 * MaxAttempts + 18 steps,
\* whichever stages are selected, fail or find their inputs changed, and nobody outside it
\* can add to them (engine.py, _run_lifecycle_stages).
THEOREM InvocationIsBounded == Spec => []WorkInv /\ [][UsesUp]_vars
<1>1. IInv => WorkInv
  BY WorkType DEF IInv, WorkInv
<1>2. ASSUME IInv, WorkInv, WorkInv', Next
      PROVE  UsesUp
  BY <1>2, WorkStep DEF WorkInv
<1> QED
  BY <1>1, <1>2, LifecycleInvariance, PTL DEF Spec

-----------------------------------------------------------------------------
(* What the first run ends with. *)

LEMMA EngineIsLive ==
  ASSUME EngineStep
  PROVE  pc # "idle" /\ UNCHANGED invocation
BY DEF EngineStep, Refuse, Begin, Exhausted, Finish, PrepareInputs, RunHandler, ImportOutputs, CheckAttempt,
   WriteReceipt, CommitManifest, WriteEvent, RecordOutcome, durable

LEMMA BeforeStep ==
  ASSUME TypeOK, BeforeInv, [Next]_vars
  PROVE  BeforeInv'
<1>1. CASE EngineStep \/ Crash
  BY <1>1, EngineIsLive DEF BeforeInv, Crash, durable
<1>2. CASE StartRun \/ StartResume
  <2>1. invocation' = invocation + 1 /\ invocation \in Nat
    BY <1>2 DEF StartRun, StartResume, Start, TypeOK
  <2> QED
    BY <2>1 DEF BeforeInv
<1>3. CASE DamageOutput \/ LoseReceipt \/ UNCHANGED vars
  <2>1. UNCHANGED << invocation, pc, run, outcome, event >>
    BY <1>3 DEF DamageOutput, LoseReceipt, volatile, vars
  <2> QED
    BY <2>1 DEF BeforeInv
<1> QED
  BY <1>1, <1>2, <1>3 DEF Next

\* An attempt goes on or fails: nothing the first run is judged by changes but the verdict.
LEMMA AttemptGoesOn ==
  ASSUME PrepareInputs \/ RunHandler \/ ImportOutputs \/ CheckAttempt \/ WriteReceipt \/ CommitManifest
  PROVE  /\ Busy /\ Busy' /\ pc # "record" /\ pc' # "record" /\ pc' # "final"
         /\ UNCHANGED << invocation, mode, cur, todo, stage, event >>
         /\ pc \notin {"event", "record"}
         /\ outcome' = "terminal" => outcome = "terminal" \/ (stage = "acceptance" /\ pc' = "event")
BY DEF PrepareInputs, RunHandler, ImportOutputs, CheckAttempt, WriteReceipt, CommitManifest, Fail, Busy, durable

LEMMA FirstStep ==
  ASSUME TypeOK, MemoryInv, BeforeInv, FirstInv, [Next]_vars
  PROVE  FirstInv'
<1> SUFFICES ASSUME invocation' = 1, pc' # "idle" PROVE FirstInv'
  BY DEF FirstInv
<1>t. /\ cur \in [Stage -> StageState] /\ stage \in Stage /\ invocation \in Nat
      /\ event \in [Stage -> [Attempt -> Event \cup {None}]]
      /\ \A s \in Stage : cur[s].attempts \in 0 .. MaxAttempts
  BY DEF TypeOK, StageState
<1>1. CASE StartRun
  <2>1. invocation = 0 /\ pc' = "next" /\ mode' = "run" /\ cur' = Blank /\ UNCHANGED << event, outcome >>
    BY <1>1, <1>t DEF StartRun, Start
  <2> QED
    BY <2>1 DEF BeforeInv, FirstInv, Blank
<1>2. CASE StartResume
  <2>1. invocation = 0 /\ Recorded
    BY <1>2, <1>t DEF StartResume, Start
  <2> QED
    BY <2>1 DEF BeforeInv, Recorded, Blank
<1>3. CASE Refuse \/ Finish \/ Crash
  BY <1>3 DEF Refuse, Finish, Crash, Forget
<1>4. CASE Begin
  <2>1. PICK s \in todo : /\ cur' = [cur EXCEPT ![s] = [status |-> "running", attempts |-> @.attempts + 1]]
                          /\ stage' = s /\ pc = "next" /\ pc' = "prepare"
                          /\ UNCHANGED << invocation, mode, event, outcome >>
    BY <1>4 DEF Begin
  <2>2. s \in Stage
    BY DEF TypeOK
  <2>3. FirstInv /\ invocation = 1 /\ pc # "idle" /\ ~ Busy /\ Busy'
    BY <2>1 DEF Busy
  <2>4. /\ cur'[s].status = "running" /\ cur'[s].attempts = cur[s].attempts + 1
        /\ \A t \in Stage \ {s} : cur'[t] = cur[t]
    BY <1>t, <2>1, <2>2
  <2>5. \A t \in Stage : /\ cur'[t].status = "none" => cur'[t].attempts = 0
                         /\ cur'[t].status = "running" => t = s
    BY <2>3, <2>4 DEF FirstInv
  <2>6. \A t \in Stage, k \in Attempt : event'[t][k] # None =>
          k <= cur'[t].attempts /\ (t = s => k < cur'[t].attempts)
    <3> SUFFICES ASSUME NEW t \in Stage, NEW k \in Attempt, event[t][k] # None
                 PROVE  k <= cur'[t].attempts /\ (t = s => k < cur'[t].attempts)
      BY <2>1
    <3>1. k <= cur[t].attempts /\ k \in Nat /\ cur[t].attempts \in Nat
      BY <1>t, <2>3 DEF FirstInv, Attempt
    <3> QED
      BY <2>4, <3>1
  <2>7. mode' = "run" /\ outcome' # "terminal"
    BY <2>1, <2>3 DEF FirstInv
  <2> QED
    BY <2>1, <2>3, <2>5, <2>6, <2>7 DEF FirstInv
<1>5. CASE Exhausted
  <2>1. /\ pc = "next" /\ pc' \in {"next", "final"}
        /\ UNCHANGED << invocation, mode, cur, event, stage, outcome >>
        /\ pc' = "final" => \E s \in todo : cur[s].attempts >= MaxAttempts /\ cur[s].status = "failed"
    BY <1>5 DEF Exhausted
  <2>s. todo \subseteq Stage
    BY DEF TypeOK
  <2>2. FirstInv /\ invocation = 1 /\ pc # "idle" /\ ~ Busy
    BY <2>1 DEF Busy
  <2>3. pc' = "final" => \E s \in Stage : FailedForGood(cur, s)
    <3> SUFFICES ASSUME NEW s \in todo, cur[s].attempts >= MaxAttempts, cur[s].status = "failed"
                 PROVE  FailedForGood(cur, s) /\ s \in Stage
      BY <2>1
    <3>1. s \in Stage /\ cur[s].attempts \in 0 .. MaxAttempts
      BY <1>t, <2>s
    <3> QED
      BY <3>1 DEF FailedForGood
  <2>4. ~ Busy'
    BY <2>1 DEF Busy
  <2> QED
    BY <2>1, <2>2, <2>3, <2>4 DEF FirstInv, FailedForGood
<1>6. CASE PrepareInputs \/ RunHandler \/ ImportOutputs \/ CheckAttempt \/ WriteReceipt \/ CommitManifest
  BY <1>6, AttemptGoesOn DEF FirstInv, Busy
<1>7. CASE WriteEvent
  <2>1. /\ pc = "event" /\ pc' = "record" /\ UNCHANGED << invocation, mode, cur, stage, outcome >>
        /\ event' = [event EXCEPT ![stage][cur[stage].attempts] = Entry]
    BY <1>7 DEF WriteEvent, Forget
  <2>2. FirstInv /\ invocation = 1 /\ pc # "idle" /\ Busy /\ Busy' /\ cur[stage].attempts \in Attempt
    BY <2>1 DEF Busy, MemoryInv
  <2>3. \A t \in Stage, k \in Attempt : event'[t][k] # None => k <= cur[t].attempts
    <3> SUFFICES ASSUME NEW t \in Stage, NEW k \in Attempt, event'[t][k] # None
                 PROVE  k <= cur[t].attempts
      OBVIOUS
    <3>1. event'[t][k] = IF t = stage /\ k = cur[stage].attempts THEN Entry ELSE event[t][k]
      BY <1>t, <2>1, <2>2, OneEntry
    <3>2. CASE t = stage /\ k = cur[stage].attempts
      BY <1>t, <3>2
    <3>3. CASE ~ (t = stage /\ k = cur[stage].attempts)
      BY <2>2, <3>1, <3>3 DEF FirstInv
    <3> QED
      BY <3>2, <3>3
  <2> QED
    BY <2>1, <2>2, <2>3 DEF FirstInv
<1>8. CASE RecordOutcome
  <2>1. /\ pc = "record" /\ UNCHANGED << invocation, mode, stage, event >> /\ outcome' = "none"
        /\ cur' = [cur EXCEPT ![stage] = [status |-> Entry.status, attempts |-> @.attempts]]
        /\ pc' = IF outcome = "terminal" THEN "final" ELSE "next"
    BY <1>8 DEF RecordOutcome
  <2>2. FirstInv /\ invocation = 1 /\ pc # "idle" /\ Busy /\ ~ Busy'
    BY <2>1 DEF Busy
  <2>3. /\ cur'[stage].status = Entry.status /\ Entry.status \in {"verified", "failed"}
        /\ outcome = "terminal" => Entry.status = "failed"
        /\ \A t \in Stage : cur'[t].attempts = cur[t].attempts /\ (t # stage => cur'[t] = cur[t])
    BY <1>t, <2>1 DEF Entry
  <2>4. \A t \in Stage : /\ cur'[t].status = "none" => cur'[t].attempts = 0
                         /\ cur'[t].status # "running"
    BY <2>2, <2>3 DEF FirstInv
  <2>5. \A t \in Stage, k \in Attempt : event'[t][k] # None => k <= cur'[t].attempts
    BY <2>1, <2>2, <2>3 DEF FirstInv
  <2>6. pc' = "final" => FailedForGood(cur, stage)'
    BY <2>1, <2>2, <2>3 DEF FirstInv, FailedForGood
  <2> QED
    BY <1>t, <2>1, <2>2, <2>4, <2>5, <2>6 DEF FirstInv
<1>9. CASE DamageOutput \/ LoseReceipt \/ UNCHANGED vars
  <2>1. UNCHANGED << invocation, pc, mode, cur, stage, outcome, event >>
    BY <1>9 DEF DamageOutput, LoseReceipt, volatile, vars
  <2> QED
    BY <2>1 DEF FirstInv, Busy, FailedForGood
<1> QED
  BY <1>1, <1>2, <1>3, <1>4, <1>5, <1>6, <1>7, <1>8, <1>9 DEF Next, EngineStep

\* A first run of the whole chain that is not killed goes on, or has completed the chain or
\* stopped at a stage that failed for good.
LEMMA FirstRunStep ==
  ASSUME CrashProne = 0, TypeOK, MemoryInv, FirstInv, FirstRun, Next
  PROVE  FirstRun' \/ Decided'
<1>t. /\ cur \in [Stage -> StageState] /\ stage \in Stage /\ todo \subseteq Stage
      /\ event \in [Stage -> [Attempt -> Event \cup {None}]]
      /\ invocation = 1 /\ pc # "idle" /\ todo \cup Verified(cur) = Stage /\ todo \cap Verified(cur) = {}
  BY DEF TypeOK, FirstRun, MemoryInv
<1>f. FirstInv /\ invocation = 1 /\ pc # "idle"
  BY <1>t
<1>1. CASE StartRun \/ StartResume \/ Crash
  BY <1>1, <1>t DEF StartRun, StartResume, Start, Crash
<1>2. CASE Refuse
  <2>1. PICK s \in todo : IsNext(s) /\ ~ Startable(s)
    BY <1>2 DEF Refuse
  <2>2. PICK d \in DEPENDENCIES[s] : d \notin Verified(cur)
    BY <2>1 DEF Startable
  <2>3. d \in Stage /\ s \in Stage /\ CHAIN_INDEX[d] < CHAIN_INDEX[s]
    BY <1>t, <2>2, ChainOrder
  <2>4. d \in todo
    BY <1>t, <2>2, <2>3
  <2>5. CHAIN_INDEX[s] <= CHAIN_INDEX[d]
    BY <2>1, <2>4 DEF IsNext
  <2> QED
    BY <2>3, <2>5, Stages
<1>3. CASE Begin
  <2>1. PICK s \in todo : /\ cur' = [cur EXCEPT ![s] = [status |-> "running", attempts |-> @.attempts + 1]]
                          /\ pc' = "prepare" /\ UNCHANGED << invocation, todo >>
    BY <1>3 DEF Begin
  <2>2. \A t \in Verified(cur) : cur'[t] = cur[t]
    BY <1>t, <2>1 DEF Verified
  <2>3. \A t \in Stage : t \in todo' \/ t \in Verified(cur')
    BY <1>t, <2>1, <2>2 DEF Verified
  <2>4. todo' \cup Verified(cur') = Stage
    BY <1>t, <2>1, <2>3 DEF Verified
  <2> QED
    BY <1>t, <2>1, <2>4 DEF FirstRun
<1>4. CASE Exhausted
  <2>1. PICK s \in todo : /\ cur[s].attempts >= MaxAttempts /\ UNCHANGED << invocation, cur >> /\ pc = "next"
                          /\ \/ pc' = "final" /\ UNCHANGED todo
                             \/ cur[s].status # "failed"
    BY <1>4 DEF Exhausted
  <2>2. cur[s].status = "failed"
    <3>1. s \in Stage /\ cur[s].status \in {"none", "running", "verified", "failed"} /\ s \notin Verified(cur)
      BY <1>t DEF StageState
    <3>2. cur[s].status # "verified"
      BY <3>1 DEF Verified
    <3>3. cur[s].status # "none"
      BY <1>f, <2>1, <3>1 DEF FirstInv
    <3>4. cur[s].status # "running"
      BY <1>f, <2>1, <3>1 DEF FirstInv, Busy
    <3> QED
      BY <3>1, <3>2, <3>3, <3>4
  <2> QED
    BY <1>t, <2>1, <2>2 DEF FirstRun
<1>5. CASE Finish
  <2>1. run' = cur /\ pc' = "idle"
    BY <1>5 DEF Finish, Forget
  <2>2. CASE pc = "final"
    <3>1. \E s \in Stage : FailedForGood(cur, s)
      BY <1>f, <2>2 DEF FirstInv
    <3> QED
      BY <2>1, <3>1 DEF Decided
  <2>3. CASE todo = {}
    <3>1. Verified(run') = Stage
      BY <1>t, <2>1, <2>3
    <3> QED
      BY <2>1, <3>1 DEF Decided, Complete, Verified
  <2> QED
    BY <1>5, <2>2, <2>3 DEF Finish
<1>6. CASE PrepareInputs \/ RunHandler \/ ImportOutputs \/ CheckAttempt \/ WriteReceipt \/ CommitManifest
  <2>1. UNCHANGED << invocation, cur, todo >> /\ pc' # "idle"
    BY <1>6, AttemptGoesOn DEF Busy
  <2> QED
    BY <1>t, <2>1 DEF FirstRun
<1>7. CASE WriteEvent
  <2>1. pc = "event" /\ cur[stage].attempts \in Attempt
    BY <1>7 DEF WriteEvent, MemoryInv, Busy
  <2>2. event[stage][cur[stage].attempts] = None
    <3> SUFFICES ASSUME event[stage][cur[stage].attempts] # None
                 PROVE  FALSE
      OBVIOUS
    <3>1. cur[stage].attempts < cur[stage].attempts
      BY <1>f, <1>t, <2>1 DEF FirstInv, Busy
    <3> QED
      BY <2>1, <3>1 DEF Attempt
  <2>3. UNCHANGED << invocation, cur, todo >> /\ pc' = "record"
    BY <1>7, <2>2 DEF WriteEvent
  <2> QED
    BY <1>t, <2>3 DEF FirstRun
<1>8. CASE RecordOutcome
  <2>1. /\ cur' = [cur EXCEPT ![stage] = [status |-> Entry.status, attempts |-> @.attempts]]
        /\ pc' # "idle" /\ UNCHANGED invocation /\ stage \in todo
        /\ \/ todo' = todo
           \/ todo' = todo \ {stage} /\ Entry.status = "verified"
    BY <1>8 DEF RecordOutcome, MemoryInv, Busy, Entry
  <2>2. /\ cur'[stage].status = Entry.status
        /\ \A t \in Stage \ {stage} : cur'[t] = cur[t]
    BY <1>t, <2>1
  <2>3. \A t \in Stage : t \in todo' \/ t \in Verified(cur')
    BY <1>t, <2>1, <2>2 DEF Verified
  <2>4. todo' \cup Verified(cur') = Stage
    BY <1>t, <2>1, <2>3 DEF Verified
  <2> QED
    BY <1>t, <2>1, <2>4 DEF FirstRun
<1>9. CASE DamageOutput \/ LoseReceipt
  <2>1. UNCHANGED << invocation, pc, cur, todo >>
    BY <1>9 DEF DamageOutput, LoseReceipt, volatile
  <2> QED
    BY <1>t, <2>1 DEF FirstRun
<1> QED
  BY <1>1, <1>2, <1>3, <1>4, <1>5, <1>6, <1>7, <1>8, <1>9 DEF Next, EngineStep

\* A first run of the whole chain that nobody kills never ends undecided: with the work that
\* every step uses up, it completes the chain or stops at a stage that failed on its last
\* attempt or on an acceptance precondition (engine.py).
THEOREM FirstRunNeverEndsUndecided ==
  ASSUME CrashProne = 0
  PROVE  Spec => [][FirstRun => FirstRun' \/ Decided']_vars
<1>1. Init => BeforeInv /\ FirstInv
  BY DEF Init, BeforeInv, FirstInv
<1>2. IInv /\ BeforeInv /\ FirstInv /\ [Next]_vars => BeforeInv' /\ FirstInv'
  BY BeforeStep, FirstStep DEF IInv
<1>3. ASSUME IInv, FirstInv, Next
      PROVE  FirstRun => FirstRun' \/ Decided'
  BY <1>3, FirstRunStep DEF IInv
<1> QED
  BY <1>1, <1>2, <1>3, LifecycleInvariance, PTL DEF Spec
===============================================================================
