------------------------ MODULE LifecycleRunProofs ------------------------
(***************************************************************************)
(* Proofs about LifecycleRun, for any budget, number of invocations, set   *)
(* of builds, and choice of unreliable stages, outputs and receipts.       *)
(*                                                                         *)
(* IInv is inductive.  Each lemma <Part>Step takes one conjunct of it      *)
(* through every action.  The memory of an invocation agrees with run.json *)
(* during an attempt and claims no more than run.json otherwise            *)
(* (MemoryInv); so a write touches only the stage under way, which is not  *)
(* verified and, the verified stages being closed under DEPENDENCIES,      *)
(* supports no verified stage.                                             *)
(***************************************************************************)
EXTENDS LifecycleRun, TLAPS

-----------------------------------------------------------------------------
(* The constants. *)

LEMMA Stages ==
  /\ Stage = {"design", "calibration", "collection_run", "corpus_snapshot",
              "model_build", "acceptance", "publication", "release"}
  /\ CHAIN_INDEX \in [Stage -> Nat]
<1>1. DOMAIN CHAIN = 1 .. 8 /\ Stage = { CHAIN[i] : i \in 1 .. 8 }
  BY DEF Stage, CHAIN
<1>2. Stage = {"design", "calibration", "collection_run", "corpus_snapshot",
               "model_build", "acceptance", "publication", "release"}
  BY <1>1 DEF CHAIN
<1>3. \A s \in Stage : (CHOOSE i \in DOMAIN CHAIN : CHAIN[i] = s) \in Nat
  BY <1>1
<1> QED
  BY <1>2, <1>3 DEF CHAIN_INDEX

(* No stage depends on itself or on the release, and the design on nothing. *)
LEMMA Dependencies ==
  /\ DEPENDENCIES \in [Stage -> SUBSET Stage]
  /\ \A s \in Stage : s \notin DEPENDENCIES[s] /\ "release" \notin DEPENDENCIES[s]
  /\ "model_build" \in DEPENDENCIES["acceptance"]
  /\ {"acceptance", "model_build"} \subseteq DEPENDENCIES["publication"]
  /\ DEPENDENCIES["release"] = {"publication"}
BY Stages DEF DEPENDENCIES

-----------------------------------------------------------------------------
(* Types, and the memory of an invocation. *)

(* Writing one entry of a table of tables leaves the others as they are. *)
LEMMA OneEntry ==
  ASSUME NEW S, NEW I, NEW V, NEW table \in [S -> [I -> V]], NEW s \in S, NEW i \in I, NEW entry,
         NEW t \in S, NEW j \in I
  PROVE  [table EXCEPT ![s][i] = entry][t][j] = IF t = s /\ j = i THEN entry ELSE table[t][j]
OBVIOUS

(* It keeps the type of the table. *)
LEMMA OneEntryType ==
  ASSUME NEW S, NEW I, NEW V, NEW table \in [S -> [I -> V]], NEW s \in S, NEW i \in I, NEW entry \in V
  PROVE  [table EXCEPT ![s][i] = entry] \in [S -> [I -> V]]
OBVIOUS

LEMMA CitedParents ==
  ASSUME TypeOK, NEW s \in Stage, NEW state \in [Stage -> StageState], Preparable(state, s)
  PROVE  Parents(s) \subseteq Parent
<1> SUFFICES ASSUME NEW d \in DEPENDENCIES[s] PROVE ParentOf(d) \in Parent
  BY DEF Parents
<1>1. d \in Stage /\ receipt[d] \in Receipt /\ receipt[d].id \in Id
  BY Dependencies, NoneAssumption DEF Preparable, Citable, TypeOK, Receipt
<1>2. manifest[d][receipt[d].id] \in Receipt
  BY <1>1 DEF Preparable, Citable, TypeOK
<1> QED
  BY <1>1, <1>2 DEF ParentOf, Cite, Parent, Receipt

LEMMA ReceiptType ==
  ASSUME TypeOK, made \in Id
  PROVE  NewReceipt \in Receipt
BY DEF TypeOK, NewReceipt, Receipt, StageState

LEMMA ReverifiedStages ==
  /\ Reverified \subseteq Verified(run)
  /\ Reverified \subseteq Stage
  /\ \A s \in Reverified : DEPENDENCIES[s] \subseteq Reverified
BY DEF Reverified, Verified

LEMMA ProducedId ==
  ASSUME TypeOK, NEW s \in Stage
  PROVE  /\ Produces(s) \subseteq Id
         /\ s = "design" => Produces(s) = {PlanId}
         /\ s \in Stage \ (Adopted \cup {"design"}) => Produces(s) \subseteq Content
BY Stages DEF Produces, Id, TypeOK, Adopted

LEMMA TypeStep ==
  IInv /\ [Next]_vars => TypeOK'
<1> SUFFICES ASSUME TypeOK, MemoryInv, RegistryInv, [Next]_vars PROVE TypeOK'
  BY DEF IInv
<1> USE LifecycleAssumption, Stages
<1>0. "design" \in Stage /\ "release" \in Stage /\ Blank \in [Stage -> StageState]
  BY DEF Blank, StageState
<1>1. CASE StartRun
  BY <1>0, <1>1 DEF StartRun, Start, TypeOK, PC
<1>2. CASE StartResume
  <2>1. cur' \in [Stage -> StageState]
    BY <1>2 DEF StartResume, Start, TypeOK, StageState
  <2>2. todo' \subseteq Stage
    BY <1>2 DEF StartResume, Start
  <2> QED
    BY <1>2, <2>1, <2>2 DEF StartResume, Start, TypeOK, PC
<1>3. CASE Crash \/ Refuse
  BY <1>0, <1>3 DEF Crash, Refuse, Forget, durable, TypeOK, PC
<1>4. CASE Begin
  BY <1>4 DEF Begin, TypeOK, PC, StageState
<1>5. CASE Exhausted
  <2>1. todo' \subseteq Stage /\ pc' \in PC
    BY <1>5 DEF Exhausted, TypeOK, PC
  <2> QED
    BY <1>5, <2>1 DEF Exhausted, TypeOK
<1>6. CASE Finish
  BY <1>0, <1>6 DEF Finish, Forget, TypeOK, PC
<1>7. CASE PrepareInputs
  BY <1>7, CitedParents DEF PrepareInputs, Fail, durable, TypeOK, PC
<1>8. CASE RunHandler
  BY <1>8, ProducedId DEF RunHandler, Fail, TypeOK, PC
<1>9. CASE ImportOutputs
  <2>1. CASE pc' = "check" /\ stage = "release"
    <3>1. made \in Id /\ manifest["publication"][made] \in Receipt
      BY <1>9, <2>1 DEF ImportOutputs, MemoryInv, Delivering, RegistryInv, TypeOK
    <3>2. Cite("publication", made) \in Parent
      BY <3>1 DEF Cite, Parent, Receipt
    <3>3. ReleaseObject \in Receipt
      BY <3>1, <3>2 DEF ReleaseObject, Receipt, TypeOK, StageState
    <3> QED
      <4>1. manifest' \in [Stage -> [Id -> Receipt \cup {None}]]
        BY <1>9, <2>1, <3>1, <3>3 DEF ImportOutputs, TypeOK
      <4> QED
        BY <1>9, <2>1, <4>1 DEF ImportOutputs, Fail, TypeOK, PC
  <2> QED
    BY <1>9, <2>1 DEF ImportOutputs, Fail, TypeOK, PC
<1>10. CASE CheckAttempt
  BY <1>10 DEF CheckAttempt, Fail, durable, TypeOK, PC
<1>11. CASE WriteReceipt
  BY <1>11, ReceiptType DEF WriteReceipt, Fail, TypeOK, PC, MemoryInv, Delivering
<1>12. CASE CommitManifest
  <2>1. pc = "manifest" /\ made \in Id /\ stage \in Stage
    BY <1>12 DEF CommitManifest, TypeOK, MemoryInv, Delivering
  <2>2. NewReceipt \in Receipt
    BY <2>1, ReceiptType
  <2>3. manifest' \in {manifest, [manifest EXCEPT ![stage][made] = NewReceipt]}
    BY <1>12 DEF CommitManifest
  <2>4. manifest' \in [Stage -> [Id -> Receipt \cup {None}]]
    <3>1. manifest \in [Stage -> [Id -> Receipt \cup {None}]] /\ NewReceipt \in Receipt \cup {None}
      BY <2>2 DEF TypeOK
    <3>2. [manifest EXCEPT ![stage][made] = NewReceipt] \in [Stage -> [Id -> Receipt \cup {None}]]
      BY <2>1, <3>1, OneEntryType
    <3> QED
      BY <2>3, <3>1, <3>2
  <2>5. /\ pc' = "event" /\ outcome' \in {"verified", "failed"}
        /\ UNCHANGED << run, receipt, event, out, invocation, mode, cur, todo, stage, prepared, made >>
    BY <1>12 DEF CommitManifest, Fail
  <2> QED
    BY <2>4, <2>5 DEF TypeOK, PC
<1>13. CASE WriteEvent
  <2>1. Entry \in Event
    BY DEF Entry, Event, TypeOK
  <2>2. event' \in [Stage -> [Attempt -> Event \cup {None}]]
    <3>1. /\ event \in [Stage -> [Attempt -> Event \cup {None}]] /\ stage \in Stage
          /\ cur[stage].attempts \in Attempt
      BY <1>13 DEF WriteEvent, TypeOK, MemoryInv, Busy
    <3>2. [event EXCEPT ![stage][cur[stage].attempts] = Entry] \in [Stage -> [Attempt -> Event \cup {None}]]
      BY <2>1, <3>1, OneEntryType
    <3> QED
      BY <1>13, <3>1, <3>2 DEF WriteEvent
  <2>3. UNCHANGED << run, receipt, manifest, out, invocation >>
    BY <1>13 DEF WriteEvent
  <2>4. CASE Forget
    BY <1>0, <2>2, <2>3, <2>4 DEF Forget, TypeOK, PC
  <2>5. CASE pc' = "record" /\ UNCHANGED << mode, cur, todo, stage, prepared, made, outcome >>
    BY <2>2, <2>3, <2>5 DEF TypeOK, PC
  <2> QED
    BY <1>13, <2>4, <2>5 DEF WriteEvent
<1>14. CASE RecordOutcome
  BY <1>14 DEF RecordOutcome, Entry, TypeOK, PC, StageState
<1>15. CASE DamageOutput
  BY <1>15 DEF DamageOutput, volatile, TypeOK
<1>16. CASE LoseReceipt
  BY <1>16 DEF LoseReceipt, volatile, TypeOK
<1>17. CASE UNCHANGED vars
  BY <1>17 DEF vars, TypeOK
<1> QED
  BY <1>1, <1>2, <1>3, <1>4, <1>5, <1>6, <1>7, <1>8, <1>9, <1>10, <1>11,
     <1>12, <1>13, <1>14, <1>15, <1>16, <1>17 DEF Next, EngineStep

LEMMA MemoryStep ==
  IInv /\ [Next]_vars => MemoryInv'
<1> SUFFICES ASSUME TypeOK, MemoryInv, [Next]_vars PROVE MemoryInv'
  BY DEF IInv
<1> USE DEF Verified
<1>1. CASE StartRun
  <2>1. cur' = Blank /\ pc' = "next" /\ mode' = "run"
    BY <1>1 DEF StartRun, Start
  <2> QED
    BY <2>1 DEF MemoryInv, Busy, Working, Delivering, Landed, Blank
<1>2. CASE StartResume
  <2>1. /\ pc' = "next" /\ mode' = "resume" /\ todo' = Stage \ Reverified /\ run' = run
        /\ \A s \in Stage : cur'[s] = IF s \in Verified(run) \ Reverified
                                      THEN [status |-> "failed", attempts |-> run[s].attempts]
                                      ELSE run[s]
    BY <1>2 DEF StartResume, Start
  <2>a. ASSUME NEW s \in Stage
        PROVE  /\ cur'[s].status = "verified" <=> s \in Reverified
               /\ cur'[s].attempts = run[s].attempts
    <3>1. CASE s \in Verified(run) \ Reverified
      <4>1. cur'[s] = [status |-> "failed", attempts |-> run[s].attempts]
        BY <2>1, <3>1
      <4> QED
        BY <3>1, <4>1
    <3>2. CASE s \notin Verified(run) \ Reverified
      <4>1. cur'[s] = run[s]
        BY <2>1, <3>2
      <4> QED
        BY <3>2, <4>1, ReverifiedStages
    <3> QED
      BY <3>1, <3>2
  <2>2. \A s \in Stage : cur'[s].status = "verified" <=> s \in Reverified
    BY <2>a
  <2>3. \A s \in Stage : cur'[s].attempts >= run[s].attempts
    BY <2>a DEF TypeOK, StageState
  <2>4. \A s \in Reverified : cur'[s] = run'[s]
    BY <2>1, ReverifiedStages
  <2>5. pc' # "idle" => /\ \A s \in Verified(cur)' : /\ DEPENDENCIES[s] \subseteq Verified(cur)'
                                                      /\ cur'[s] = run'[s]
                        /\ todo' \cap Verified(cur)' = {}
    BY <2>1, <2>2, <2>4, ReverifiedStages
  <2> QED
    BY <2>1, <2>3, <2>5 DEF MemoryInv, Busy, Working, Delivering, Landed
<1>3. CASE Crash \/ Refuse
  BY <1>3 DEF Crash, Refuse, Forget, MemoryInv, Busy, Working, Delivering, Landed
<1>4. CASE Begin
  <2> PICK s \in todo : /\ cur[s].attempts < MaxAttempts
                        /\ cur' = [cur EXCEPT ![s] = [status |-> "running",
                                                      attempts |-> @.attempts + 1]]
                        /\ run' = cur' /\ stage' = s
    BY <1>4 DEF Begin
  <2>1. s \in Stage /\ cur[s].attempts \in 0 .. MaxAttempts /\ pc' = "prepare" /\ todo' = todo
    BY <1>4 DEF Begin, TypeOK, StageState
  <2>2. /\ cur'[s] = [status |-> "running", attempts |-> cur[s].attempts + 1]
        /\ \A t \in Stage \ {s} : cur'[t] = cur[t]
    BY <2>1 DEF TypeOK
  <2>3. Verified(cur)' = Verified(cur)
    BY <1>4, <2>1, <2>2 DEF Begin, MemoryInv
  <2>4. /\ pc' # "idle" => /\ \A t \in Verified(cur)' : DEPENDENCIES[t] \subseteq Verified(cur)'
                           /\ todo' \cap Verified(cur)' = {}
    BY <1>4, <2>1, <2>3 DEF Begin, MemoryInv
  <2>5. \A t \in Stage : cur'[t].attempts >= run'[t].attempts
    BY <1>4, TypeStep, <2>1, <2>2 DEF TypeOK, StageState
  <2>6. cur'[s].attempts \in Attempt
    BY <2>1, <2>2, LifecycleAssumption DEF Attempt
  <2> QED
    BY <2>1, <2>2, <2>4, <2>5, <2>6 DEF MemoryInv, Busy, Working, Delivering, Landed
<1>5. CASE Exhausted
  BY <1>5 DEF Exhausted, MemoryInv, Busy, Working, Delivering, Landed
<1>6. CASE Finish
  BY <1>6 DEF Finish, Forget, MemoryInv, Busy, Working, Delivering, Landed
<1>7. CASE PrepareInputs
  BY <1>7, Dependencies DEF PrepareInputs, Fail, durable, Preparable, Citable, TypeOK,
     MemoryInv, Busy, Working, Delivering, Landed
<1>8. CASE RunHandler
  BY <1>8, ProducedId DEF RunHandler, Fail, TypeOK, MemoryInv, Busy, Working, Delivering, Landed
<1>9. CASE ImportOutputs
  BY <1>9 DEF ImportOutputs, Fail, MemoryInv, Busy, Working, Delivering, Landed
<1>10. CASE CheckAttempt
  BY <1>10 DEF CheckAttempt, Fail, durable, MemoryInv, Busy, Working, Delivering, Landed
<1>11. CASE WriteReceipt
  BY <1>11 DEF WriteReceipt, Fail, MemoryInv, Busy, Working, Delivering, Landed
<1>12. CASE CommitManifest
  BY <1>12 DEF CommitManifest, Fail, MemoryInv, Busy, Working, Delivering, Landed
<1>13. CASE WriteEvent
  BY <1>13 DEF WriteEvent, Forget, MemoryInv, Busy, Working, Delivering, Landed
<1>14. CASE RecordOutcome
  <2>1. /\ cur'[stage] = [status |-> Entry.status, attempts |-> cur[stage].attempts]
        /\ \A t \in Stage \ {stage} : cur'[t] = cur[t]
        /\ run' = cur' /\ pc' \in {"next", "final"}
        /\ todo' = IF outcome = "verified" THEN todo \ {stage} ELSE todo
    BY <1>14 DEF RecordOutcome, TypeOK
  <2>2. stage \in Stage /\ stage \notin Verified(cur) /\ cur[stage].status = "running"
    BY <1>14 DEF RecordOutcome, TypeOK, MemoryInv, Busy
  <2>3. Verified(cur)' = IF outcome = "verified" THEN Verified(cur) \cup {stage} ELSE Verified(cur)
    BY <2>1, <2>2 DEF Entry
  <2>4. outcome = "verified" => DEPENDENCIES[stage] \subseteq Verified(cur)
    BY <1>14 DEF RecordOutcome, MemoryInv, Working, Delivering, Landed
  <2>5. /\ \A t \in Verified(cur)' : DEPENDENCIES[t] \subseteq Verified(cur)'
        /\ todo' \cap Verified(cur)' = {}
    BY <1>14, <2>1, <2>3, <2>4 DEF RecordOutcome, MemoryInv
  <2>6. \A t \in Stage : cur'[t].attempts >= run'[t].attempts
    BY <1>14, <2>1 DEF RecordOutcome, TypeOK, StageState
  <2> QED
    BY <2>1, <2>5, <2>6 DEF MemoryInv, Busy, Working, Delivering, Landed
<1>15. CASE DamageOutput
  BY <1>15 DEF DamageOutput, volatile, MemoryInv, Busy, Working, Delivering, Landed
<1>16. CASE LoseReceipt
  BY <1>16 DEF LoseReceipt, volatile, MemoryInv, Busy, Working, Delivering, Landed
<1>17. CASE UNCHANGED vars
  BY <1>17 DEF vars, MemoryInv, Busy, Working, Delivering, Landed
<1> QED
  BY <1>1, <1>2, <1>3, <1>4, <1>5, <1>6, <1>7, <1>8, <1>9, <1>10, <1>11,
     <1>12, <1>13, <1>14, <1>15, <1>16, <1>17 DEF Next, EngineStep

-----------------------------------------------------------------------------
(* What a step leaves alone. *)

(* The stage under way is not verified, and no verified stage rests on it. *)
LEMMA StageUnderWay ==
  ASSUME IInv, Busy
  PROVE  /\ stage \in Stage /\ run = cur /\ stage \notin Verified(run)
         /\ \A s \in Verified(run) : s # stage /\ stage \notin DEPENDENCIES[s]
BY DEF IInv, TypeOK, MemoryInv, Busy, Verified

(* What a step may write into the registry: the manifest of the stage under way, or the
   release object that the release handler registers. *)
LEMMA Registers ==
  ASSUME IInv, ImportOutputs \/ CommitManifest, NEW s \in Stage, NEW i \in Id,
         manifest'[s][i] # manifest[s][i]
  PROVE  /\ s = stage /\ i = made /\ manifest[s][i] = None
         /\ \/ ImportOutputs /\ stage = "release" /\ manifest'[s][i] = ReleaseObject
            \/ CommitManifest /\ Commits(stage) /\ manifest'[s][i] = NewReceipt
<1>1. manifest \in [Stage -> [Id -> Receipt \cup {None}]] /\ stage \in Stage /\ made \in Id
  BY DEF IInv, TypeOK, MemoryInv, Delivering, ImportOutputs, CommitManifest
<1>2. CASE ImportOutputs
  <2>1. /\ stage = "release" /\ manifest["release"][made] = None
        /\ manifest' = [manifest EXCEPT ![stage][made] = ReleaseObject]
    BY <1>2 DEF ImportOutputs
  <2>2. manifest'[s][i] = IF s = stage /\ i = made THEN ReleaseObject ELSE manifest[s][i]
    BY <1>1, <2>1, OneEntry
  <2> QED
    BY <1>2, <2>1, <2>2
<1>3. CASE CommitManifest
  <2>1. /\ Commits(stage) /\ manifest[stage][made] = None
        /\ manifest' = [manifest EXCEPT ![stage][made] = NewReceipt]
    BY <1>3 DEF CommitManifest
  <2>2. manifest'[s][i] = IF s = stage /\ i = made THEN NewReceipt ELSE manifest[s][i]
    BY <1>1, <2>1, OneEntry
  <2> QED
    BY <1>3, <2>1, <2>2
<1> QED
  BY <1>2, <1>3

(* The registry is append-only. *)
LEMMA RegistryKept ==
  ASSUME IInv, [Next]_vars, NEW s \in Stage, NEW i \in Id, manifest[s][i] # None
  PROVE  manifest'[s][i] = manifest[s][i]
<1>1. CASE ImportOutputs \/ CommitManifest
  BY <1>1, Registers
<1>2. CASE manifest' = manifest
  BY <1>2
<1> QED
  BY <1>1, <1>2 DEF Next, EngineStep, vars, durable, volatile, StartRun, StartResume,
     Start, Crash, Refuse, Begin, Exhausted, Finish, PrepareInputs, RunHandler, CheckAttempt,
     WriteReceipt, WriteEvent, RecordOutcome, DamageOutput, LoseReceipt

(* So is the ledger. *)
LEMMA LedgerKept ==
  ASSUME IInv, [Next]_vars, NEW s \in Stage, NEW k \in Attempt, event[s][k] # None
  PROVE  event'[s][k] = event[s][k]
<1>1. CASE WriteEvent
  <2>1. /\ event \in [Stage -> [Attempt -> Event \cup {None}]] /\ stage \in Stage
        /\ cur[stage].attempts \in Attempt
    BY <1>1 DEF WriteEvent, IInv, TypeOK, MemoryInv, Busy
  <2>2. CASE event' = event
    BY <2>2
  <2>3. CASE /\ event[stage][cur[stage].attempts] = None
             /\ event' = [event EXCEPT ![stage][cur[stage].attempts] = Entry]
    <3>1. event'[s][k] = IF s = stage /\ k = cur[stage].attempts THEN Entry ELSE event[s][k]
      BY <2>1, <2>3, OneEntry
    <3> QED
      BY <2>3, <3>1
  <2> QED
    BY <1>1, <2>2, <2>3 DEF WriteEvent
<1>2. CASE event' = event
  BY <1>2
<1> QED
  BY <1>1, <1>2 DEF Next, EngineStep, vars, durable, volatile, StartRun, StartResume,
     Start, Crash, Refuse, Begin, Exhausted, Finish, PrepareInputs, RunHandler, ImportOutputs,
     CheckAttempt, WriteReceipt, CommitManifest, RecordOutcome, DamageOutput, LoseReceipt

(* The receipt of a verified stage is not rewritten. *)
LEMMA ReceiptKept ==
  ASSUME IInv, [Next]_vars, NEW s \in Verified(run)
  PROVE  receipt'[s] \in {receipt[s], None}
<1> USE DEF IInv, TypeOK
<1>0. s \in Stage
  BY DEF Verified
<1>1. CASE WriteReceipt
  BY <1>0, <1>1, StageUnderWay DEF WriteReceipt, Busy
<1>2. CASE LoseReceipt
  BY <1>0, <1>2 DEF LoseReceipt
<1>3. CASE receipt' = receipt
  BY <1>3
<1> QED
  BY <1>1, <1>2, <1>3 DEF Next, EngineStep, vars, durable, volatile, StartRun, StartResume,
     Start, Crash, Refuse, Begin, Exhausted, Finish, PrepareInputs, RunHandler, ImportOutputs,
     CheckAttempt, CommitManifest, WriteEvent, RecordOutcome, DamageOutput

(* Only a landed attempt adds a stage to the verified ones. *)
LEMMA Claims ==
  ASSUME IInv, [Next]_vars, NEW s \in Verified(run)'
  PROVE  \/ s \in Verified(run) /\ run'[s] = run[s]
         \/ /\ RecordOutcome /\ Landed /\ s = stage
            /\ run'[s].attempts = cur[s].attempts
<1> USE DEF Verified
<1>1. CASE Begin
  <2> PICK t \in todo : /\ cur[t].attempts < MaxAttempts
                        /\ cur' = [cur EXCEPT ![t] = [status |-> "running",
                                                      attempts |-> @.attempts + 1]]
                        /\ run' = cur'
    BY <1>1 DEF Begin
  <2>1. s # t /\ cur'[s] = cur[s]
    BY DEF IInv, TypeOK
  <2> QED
    BY <1>1, <2>1 DEF Begin, IInv, MemoryInv
<1>2. CASE Finish
  BY <1>2 DEF Finish, IInv, MemoryInv
<1>3. CASE RecordOutcome
  <2>1. CASE s = stage
    <3>1. run'[s] = [status |-> Entry.status, attempts |-> cur[s].attempts]
      BY <1>3, <2>1 DEF RecordOutcome, IInv, TypeOK
    <3> QED
      BY <1>3, <2>1, <3>1 DEF RecordOutcome, Landed, Entry
  <2>2. CASE s # stage
    BY <1>3, <2>2, StageUnderWay DEF RecordOutcome, Busy, IInv, TypeOK
  <2> QED
    BY <2>1, <2>2
<1>4. CASE run' = run
  BY <1>4
<1> QED
  BY <1>1, <1>2, <1>3, <1>4 DEF Next, EngineStep, vars, durable, volatile, StartRun,
     StartResume, Start, Crash, Refuse, Exhausted, PrepareInputs, RunHandler, ImportOutputs,
     CheckAttempt, WriteReceipt, CommitManifest, WriteEvent, DamageOutput, LoseReceipt

(* What cites a verified stage goes on citing it. *)
LEMMA ParentKept ==
  ASSUME IInv, [Next]_vars, NEW d \in Verified(run), d # "release", receipt'[d] # None
  PROVE  /\ receipt[d] # None /\ receipt'[d] = receipt[d]
         /\ manifest[d][receipt[d].id] # None
         /\ ParentOf(d)' = ParentOf(d)
<1>1. d \in Stage /\ receipt[d] # None /\ receipt'[d] = receipt[d]
  BY ReceiptKept DEF Verified
<1>2. receipt[d].id \in Id
  BY <1>1 DEF IInv, TypeOK, Receipt
<1>3. manifest[d][receipt[d].id] # None
  <2>1. CASE d = "design"
    <3>1. Preregistered \in Receipt
      BY DEF Preregistered, Receipt, Id
    <3> QED
      BY <1>1, <2>1, <3>1, NoneAssumption DEF IInv, EvidenceInv
  <2>2. CASE d # "design"
    BY <1>1, <2>2 DEF IInv, EvidenceInv, VerifiedIsBacked, Commits
  <2> QED
    BY <2>1, <2>2
<1>4. manifest'[d][receipt[d].id] = manifest[d][receipt[d].id]
  BY <1>1, <1>2, <1>3, RegistryKept
<1> QED
  BY <1>1, <1>3, <1>4 DEF ParentOf, Cite

-----------------------------------------------------------------------------
(* Evidence, lineage, registry and publication. *)

LEMMA EvidenceStep ==
  IInv /\ [Next]_vars => EvidenceInv'
<1> SUFFICES ASSUME IInv, [Next]_vars PROVE EvidenceInv'
  OBVIOUS
<1>0. TypeOK /\ MemoryInv /\ EvidenceInv /\ TypeOK' /\ MemoryInv'
  BY TypeStep, MemoryStep DEF IInv
<1>1. VerifiedIsBacked'
  <2> SUFFICES ASSUME NEW s \in Verified(run)', receipt'[s] # None
               PROVE  /\ receipt'[s].attempt = run'[s].attempts
                      /\ event'[s][receipt'[s].attempt]
                           = [status |-> "verified", by |-> receipt'[s].by]
                      /\ Commits(s) => manifest'[s][receipt'[s].id] = receipt'[s]
    BY DEF VerifiedIsBacked
  <2>1. CASE s \in Verified(run) /\ run'[s] = run[s]
    <3>1. s \in Stage /\ receipt'[s] = receipt[s] /\ receipt[s] \in Receipt
      BY <1>0, <2>1, ReceiptKept DEF Verified, TypeOK
    <3>2. /\ receipt[s].attempt = run[s].attempts
          /\ event[s][receipt[s].attempt] = [status |-> "verified", by |-> receipt[s].by]
          /\ Commits(s) => manifest[s][receipt[s].id] = receipt[s]
      BY <1>0, <2>1, <3>1 DEF EvidenceInv, VerifiedIsBacked
    <3>3. receipt[s].by \in Nat /\ receipt[s].id \in Id /\ receipt[s].attempt \in Nat
      BY <3>1 DEF Receipt
    <3>4. receipt[s].attempt \in Attempt
      BY <1>0, <2>1, <3>2 DEF EvidenceInv
    <3>5. event'[s][receipt[s].attempt] = event[s][receipt[s].attempt]
      BY <3>1, <3>2, <3>3, <3>4, LedgerKept, NoneAssumption DEF Event
    <3>6. Commits(s) => manifest'[s][receipt[s].id] = receipt[s]
      BY <3>1, <3>2, <3>3, RegistryKept
    <3> QED
      BY <2>1, <3>1, <3>2, <3>5, <3>6
  <2>2. CASE RecordOutcome /\ Landed /\ s = stage /\ run'[s].attempts = cur[s].attempts
    <3>1. receipt'[s] = NewReceipt /\ manifest' = manifest /\ event' = event /\ pc = "record"
      BY <1>0, <2>2 DEF RecordOutcome, EvidenceInv
    <3>2. event[s][cur[s].attempts] = [status |-> "verified", by |-> invocation]
      BY <1>0, <2>2, <3>1 DEF EvidenceInv
    <3>3. Commits(s) => manifest[s][made] = NewReceipt
      BY <1>0, <2>2 DEF EvidenceInv
    <3> QED
      BY <2>2, <3>1, <3>2, <3>3 DEF NewReceipt
  <2> QED
    BY <2>1, <2>2, Claims
<1>2. manifest'["design"][PlanId] = Preregistered
  <2>1. Preregistered \in Receipt /\ "design" \in Stage /\ PlanId \in Id
    BY Stages DEF Preregistered, Receipt, Id
  <2> QED
    BY <1>0, <2>1, RegistryKept, NoneAssumption DEF EvidenceInv
<1>3. \A s \in Verified(run)' : run'[s].attempts \in Attempt
  BY <1>0, Claims DEF EvidenceInv, MemoryInv, Busy, RecordOutcome
<1>4. receipt'["design"] # None => receipt'["design"].id = PlanId
  <2>1. CASE WriteReceipt /\ stage = "design" /\ receipt' # receipt
    BY <1>0, <2>1 DEF WriteReceipt, TypeOK, MemoryInv, Delivering, NewReceipt
  <2>2. CASE WriteReceipt /\ stage # "design"
    BY <1>0, <2>2, Stages DEF WriteReceipt, Fail, TypeOK, EvidenceInv
  <2>3. CASE LoseReceipt
    BY <1>0, <2>3 DEF LoseReceipt, TypeOK, EvidenceInv
  <2>4. CASE receipt' = receipt
    BY <1>0, <2>4 DEF EvidenceInv
  <2> QED
    BY <2>1, <2>2, <2>3, <2>4 DEF Next, EngineStep, vars, durable, volatile, StartRun,
       StartResume, Start, Crash, Refuse, Begin, Exhausted, Finish, PrepareInputs, RunHandler,
       ImportOutputs, CheckAttempt, CommitManifest, WriteEvent, RecordOutcome, DamageOutput
<1>5. /\ (pc = "manifest" \/ Landed => receipt[stage] \in {NewReceipt, None})'
      /\ (Landed /\ Commits(stage) => manifest[stage][made] = NewReceipt)'
      /\ (Landed /\ pc = "record" =>
            event[stage][cur[stage].attempts] = [status |-> "verified", by |-> invocation])'
  <2> USE DEF Landed, NewReceipt
  <2>1. CASE WriteReceipt
    BY <1>0, <2>1 DEF WriteReceipt, Fail, TypeOK
  <2>2. CASE CommitManifest
    BY <1>0, <2>2 DEF CommitManifest, Fail, TypeOK, EvidenceInv, MemoryInv, Delivering
  <2>3. CASE WriteEvent
    BY <1>0, <2>3 DEF WriteEvent, Forget, Entry, TypeOK, EvidenceInv, MemoryInv, Busy
  <2>4. CASE LoseReceipt
    BY <1>0, <2>4 DEF LoseReceipt, volatile, TypeOK, EvidenceInv
  <2>5. CASE DamageOutput \/ UNCHANGED vars
    BY <1>0, <2>5 DEF DamageOutput, volatile, vars, EvidenceInv
  <2>6. CASE ~(pc' = "manifest" \/ Landed')
    BY <2>6
  <2>7. CASE ImportOutputs
    BY <2>7 DEF ImportOutputs, Fail
  <2> QED
    BY <2>1, <2>2, <2>3, <2>4, <2>5, <2>6, <2>7 DEF Next, EngineStep, durable, StartRun,
       StartResume, Start, Crash, Refuse, Forget, Begin, Exhausted, Finish, PrepareInputs, Fail,
       RunHandler, CheckAttempt, RecordOutcome
<1> QED
  BY <1>1, <1>2, <1>3, <1>4, <1>5 DEF EvidenceInv

LEMMA LineageStep ==
  IInv /\ [Next]_vars => LineageInv'
<1> SUFFICES ASSUME IInv, [Next]_vars PROVE LineageInv'
  OBVIOUS
<1>0. TypeOK /\ MemoryInv /\ EvidenceInv /\ LineageConsistent /\ TypeOK' /\ MemoryInv'
  BY TypeStep, MemoryStep DEF IInv, LineageInv
<1>1. \A s \in Verified(run)' : DEPENDENCIES[s] \subseteq Verified(run)'
  <2>1. CASE Begin \/ RecordOutcome
    BY <1>0, <2>1 DEF Begin, RecordOutcome, MemoryInv, Verified
  <2>2. CASE Finish
    BY <1>0, <2>2 DEF Finish, MemoryInv, Verified
  <2>3. CASE run' = run
    BY <1>0, <2>3 DEF LineageConsistent, Verified
  <2> QED
    BY <2>1, <2>2, <2>3 DEF Next, EngineStep, vars, durable, volatile, StartRun, StartResume,
       Start, Crash, Refuse, Exhausted, PrepareInputs, RunHandler, ImportOutputs, CheckAttempt,
       WriteReceipt, CommitManifest, WriteEvent, DamageOutput, LoseReceipt
<1>2. ASSUME NEW s \in Stage, DEPENDENCIES[s] \subseteq Verified(run),
             \A d \in DEPENDENCIES[s] : receipt'[d] # None
      PROVE  /\ Parents(s)' = Parents(s)
             /\ \A d \in DEPENDENCIES[s] : receipt[d] # None
  <2>1. \A d \in DEPENDENCIES[s] : d # "release"
    BY Dependencies
  <2>2. \A d \in DEPENDENCIES[s] : ParentOf(d)' = ParentOf(d) /\ receipt[d] # None
    BY <1>2, <2>1, ParentKept
  <2> QED
    BY <2>2 DEF Parents
<1>3. LineageConsistent'
  <2> SUFFICES ASSUME NEW s \in Verified(run)',
                      \A t \in DEPENDENCIES[s] \cup {s} : receipt'[t] # None
               PROVE  receipt'[s].inputs = Parents(s)'
    BY <1>1 DEF LineageConsistent
  <2>1. CASE s \in Verified(run)
    <3>1. s \in Stage /\ receipt'[s] = receipt[s] /\ DEPENDENCIES[s] \subseteq Verified(run)
      BY <1>0, <2>1, ReceiptKept DEF Verified, LineageConsistent
    <3> QED
      BY <1>0, <1>2, <2>1, <3>1 DEF LineageConsistent
  <2>2. CASE RecordOutcome /\ Landed /\ s = stage
    <3>1. s \in Stage /\ receipt'[s] = NewReceipt /\ receipt' = receipt
      BY <1>0, <2>2 DEF RecordOutcome, EvidenceInv, TypeOK
    <3>2. DEPENDENCIES[s] \subseteq Verified(run)
      BY <1>0, <2>2 DEF RecordOutcome, MemoryInv, Busy, Working, Delivering
    <3>3. prepared = Parents(s)
      BY <2>2, <3>1 DEF IInv, LineageInv, Working, Delivering
    <3> QED
      BY <1>2, <3>1, <3>2, <3>3 DEF NewReceipt
  <2> QED
    BY <2>1, <2>2, Claims
<1>4. (Working /\ (\A d \in DEPENDENCIES[stage] : receipt[d] # None)
         => prepared = Parents(stage))'
  <2> SUFFICES ASSUME Working', \A d \in DEPENDENCIES[stage'] : receipt'[d] # None
               PROVE  prepared' = Parents(stage)'
    OBVIOUS
  <2>1. CASE PrepareInputs
    BY <2>1 DEF PrepareInputs, durable, Fail, Working, Delivering, Landed, Parents, ParentOf, Cite
  <2>2. CASE Working /\ stage' = stage /\ prepared' = prepared
    <3>1. stage \in Stage /\ DEPENDENCIES[stage] \subseteq Verified(run)
      BY <1>0, <2>2 DEF TypeOK, MemoryInv, Working, Delivering, Landed, Busy
    <3>2. PICK s \in Stage : s = stage
      BY <3>1
    <3>3. Parents(s)' = Parents(s) /\ prepared = Parents(s)
      BY <1>2, <2>2, <3>1, <3>2 DEF IInv, LineageInv
    <3>4. Parents(stage)' = Parents(s)'
      BY <2>2, <3>2 DEF Parents
    <3> QED
      BY <2>2, <3>3, <3>4
  <2> QED
    BY <2>1, <2>2 DEF Next, EngineStep, vars, durable, volatile, StartRun, StartResume,
       Start, Crash, Refuse, Forget, Begin, Exhausted, Finish, RunHandler, ImportOutputs,
       CheckAttempt, WriteReceipt, CommitManifest, WriteEvent, RecordOutcome, DamageOutput,
       LoseReceipt, Fail, Working, Delivering, Landed
<1> QED
  BY <1>3, <1>4 DEF LineageInv

(* A manifest that is registered is cited by the same digest ever after. *)
LEMMA CitationKept ==
  ASSUME IInv, [Next]_vars, NEW p \in Parent,
         manifest[p.stage][p.id] # None, p = Cite(p.stage, p.id)
  PROVE  /\ manifest'[p.stage][p.id] # None
         /\ p = Cite(p.stage, p.id)'
<1>1. p.stage \in Stage /\ p.id \in Id
  BY DEF Parent
<1>2. manifest'[p.stage][p.id] = manifest[p.stage][p.id]
  BY <1>1, RegistryKept
<1> QED
  BY <1>2 DEF Cite

LEMMA RegistryStep ==
  IInv /\ [Next]_vars => RegistryInv'
<1> SUFFICES ASSUME IInv, [Next]_vars PROVE RegistryInv'
  OBVIOUS
<1>0. TypeOK /\ MemoryInv /\ RegistryInv /\ TypeOK'
  BY TypeStep DEF IInv
<1>1. ASSUME NEW s \in Stage, NEW i \in Id, manifest'[s][i] # None,
             NEW p \in manifest'[s][i].inputs
      PROVE  p \in Parent /\ manifest[p.stage][p.id] # None /\ p = Cite(p.stage, p.id)
  <2>1. CASE manifest[s][i] # None
    <3>1. manifest'[s][i] = manifest[s][i] /\ manifest[s][i] \in Receipt
      BY <1>0, <2>1, RegistryKept DEF TypeOK
    <3> QED
      BY <1>0, <1>1, <2>1, <3>1 DEF RegistryInv, RegistryClosed, Receipt
  <2>2. CASE CommitManifest /\ manifest[s][i] = None
    <3>1. manifest'[s][i] = NewReceipt
      BY <1>1, <2>2, Registers DEF ImportOutputs, CommitManifest
    <3>2. p \in prepared /\ pc = "manifest"
      BY <1>1, <2>2, <3>1 DEF CommitManifest, NewReceipt
    <3> QED
      BY <1>0, <3>2 DEF TypeOK, RegistryInv, Working, Delivering
  <2>3. CASE ImportOutputs /\ manifest[s][i] = None
    <3>1. manifest'[s][i] = ReleaseObject /\ stage = "release" /\ pc = "import"
      BY <1>1, <2>3, Registers DEF ImportOutputs, CommitManifest
    <3>2. p = Cite("publication", made) /\ manifest["publication"][made] # None
      BY <1>0, <1>1, <3>1 DEF ReleaseObject, RegistryInv
    <3>3. made \in Id /\ manifest["publication"][made] \in Receipt
      BY <1>0, <3>1, <3>2, Stages DEF TypeOK, MemoryInv, Delivering
    <3> QED
      BY <3>2, <3>3, Stages DEF Cite, Parent, Receipt
  <2>4. CASE manifest' = manifest
    BY <1>1, <2>1, <2>4
  <2> QED
    BY <2>1, <2>2, <2>3, <2>4 DEF Next, EngineStep, vars, durable, volatile, StartRun,
       StartResume, Start, Crash, Refuse, Begin, Exhausted, Finish, PrepareInputs, RunHandler,
       CheckAttempt, WriteReceipt, WriteEvent, RecordOutcome, DamageOutput, LoseReceipt
<1>2. RegistryClosed'
  BY <1>1, CitationKept DEF RegistryClosed
<1>3. (Working => \A p \in prepared : /\ manifest[p.stage][p.id] # None
                                      /\ p = Cite(p.stage, p.id))'
  <2> SUFFICES ASSUME Working', NEW p \in prepared'
               PROVE  manifest'[p.stage][p.id] # None /\ p = Cite(p.stage, p.id)'
    OBVIOUS
  <2>1. CASE PrepareInputs
    <3>1. p \in Parents(stage) /\ Preparable(cur, stage)
      BY <2>1 DEF PrepareInputs, Fail, Working, Delivering, Landed
    <3>2. PICK d \in DEPENDENCIES[stage] : p = ParentOf(d) /\ Citable(cur, d)
      BY <3>1 DEF Parents, Preparable
    <3>3. p.stage = d /\ p.id = receipt[d].id
      BY <3>2 DEF ParentOf, Cite
    <3> QED
      BY <2>1, <3>2, <3>3 DEF PrepareInputs, durable, ParentOf, Cite, Citable
  <2>2. CASE Working /\ prepared' = prepared
    BY <1>0, <2>2, CitationKept DEF TypeOK, RegistryInv
  <2> QED
    BY <2>1, <2>2 DEF Next, EngineStep, vars, durable, volatile, StartRun, StartResume,
       Start, Crash, Refuse, Forget, Begin, Exhausted, Finish, RunHandler, ImportOutputs,
       CheckAttempt, WriteReceipt, CommitManifest, WriteEvent, RecordOutcome, DamageOutput,
       LoseReceipt, Fail, Working, Delivering, Landed
<1>4. (pc = "import" /\ stage = "release" => manifest["publication"][made] # None)'
  <2>1. CASE RunHandler
    BY <2>1 DEF RunHandler, Fail, Produces, Adopted
  <2>2. CASE pc' = "import" /\ stage' = stage /\ made' = made /\ manifest' = manifest /\ pc = "import"
    BY <1>0, <2>2 DEF RegistryInv
  <2>3. CASE pc' # "import"
    BY <2>3
  <2> QED
    BY <2>1, <2>2, <2>3 DEF Next, EngineStep, vars, durable, volatile, StartRun, StartResume,
       Start, Crash, Refuse, Forget, Begin, Exhausted, Finish, PrepareInputs, ImportOutputs,
       CheckAttempt, WriteReceipt, CommitManifest, WriteEvent, RecordOutcome, DamageOutput,
       LoseReceipt, Fail
<1> QED
  BY <1>2, <1>3, <1>4 DEF RegistryInv

(* An output that is a build is one a handler delivered: damage leaves none. *)
LEMMA OutputKept ==
  ASSUME IInv, [Next]_vars, NEW s \in Stage, out'[s] \in Content, ~ RunHandler
  PROVE  out'[s] = out[s]
<1>1. CASE DamageOutput
  BY <1>1, LifecycleAssumption DEF DamageOutput
<1>2. CASE out' = out
  BY <1>2
<1> QED
  BY <1>1, <1>2 DEF Next, EngineStep, vars, durable, volatile, StartRun, StartResume, Start,
     Crash, Refuse, Begin, Exhausted, Finish, PrepareInputs, ImportOutputs, CheckAttempt,
     WriteReceipt, CommitManifest, WriteEvent, RecordOutcome, LoseReceipt

LEMMA PublicationStep ==
  IInv /\ [Next]_vars => PublicationInv'
<1> SUFFICES ASSUME IInv, [Next]_vars PROVE PublicationInv'
  OBVIOUS
<1>0. TypeOK /\ MemoryInv /\ EvidenceInv /\ PublicationInv
  BY DEF IInv
<1>a. /\ {"acceptance", "publication", "model_build"} \subseteq Stage
      /\ Content \subseteq Id
  BY Stages DEF Id
<1>1. PublishedOnlyAccepted'
  <2> SUFFICES ASSUME NEW c \in Content, manifest'["publication"][c] # None
               PROVE  c \in Accepted /\ manifest'["acceptance"][c] # None
    BY DEF PublishedOnlyAccepted
  <2>1. c \in Accepted /\ manifest["acceptance"][c] # None
    <3>1. CASE manifest["publication"][c] # None
      BY <1>0, <3>1 DEF PublicationInv, PublishedOnlyAccepted
    <3>2. CASE CommitManifest /\ manifest["publication"][c] = None
      <4>1. stage = "publication" /\ made = c
        BY <1>0, <1>a, <3>2 DEF CommitManifest, TypeOK, MemoryInv, Delivering
      <4> QED
        BY <1>0, <3>2, <4>1 DEF CommitManifest, PublicationInv, Delivering
    <3>3. CASE ImportOutputs
      BY <1>0, <1>a, <3>1, <3>3 DEF ImportOutputs, TypeOK
    <3>4. CASE manifest' = manifest
      BY <3>1, <3>4
    <3> QED
      BY <3>1, <3>2, <3>3, <3>4 DEF Next, EngineStep, vars, durable, volatile, StartRun,
         StartResume, Start, Crash, Refuse, Begin, Exhausted, Finish, PrepareInputs, RunHandler,
         CheckAttempt, WriteReceipt, WriteEvent, RecordOutcome, DamageOutput, LoseReceipt
  <2> QED
    BY <1>a, <2>1, RegistryKept
<1>2. ASSUME "acceptance" \in Verified(run)', {out'["acceptance"], out'["model_build"]} \subseteq Content
      PROVE  /\ out'["acceptance"] = out'["model_build"]
             /\ manifest'["acceptance"][out'["acceptance"]] # None
  <2>1. /\ out["acceptance"] = out["model_build"]
        /\ manifest["acceptance"][out["acceptance"]] # None
        /\ out'["acceptance"] = out["acceptance"] /\ out'["model_build"] = out["model_build"]
    <3>1. CASE "acceptance" \in Verified(run)
      <4>1. RunHandler => stage \notin {"acceptance", "model_build"}
        BY <3>1, StageUnderWay, Dependencies DEF RunHandler, Busy
      <4>2. out'["acceptance"] = out["acceptance"] /\ out'["model_build"] = out["model_build"]
        <5>1. CASE RunHandler
          BY <1>0, <1>a, <4>1, <5>1 DEF RunHandler, TypeOK
        <5>2. CASE ~ RunHandler
          BY <1>2, <1>a, <5>2, OutputKept
        <5> QED
          BY <5>1, <5>2
      <4> QED
        BY <1>0, <1>2, <3>1, <4>2 DEF PublicationInv
    <3>2. CASE RecordOutcome /\ Landed /\ stage = "acceptance"
      <4>1. out' = out
        BY <3>2 DEF RecordOutcome
      <4>2. out["acceptance"] = made /\ out["model_build"] = made
        BY <1>0, <1>2, <3>2, <4>1 DEF PublicationInv, Delivering
      <4>3. manifest["acceptance"][made] = NewReceipt /\ NewReceipt \in Receipt
        BY <1>0, <3>2, ReceiptType DEF EvidenceInv, Commits, MemoryInv, Delivering
      <4> QED
        BY <4>1, <4>2, <4>3, NoneAssumption
    <3> QED
      BY <1>2, <3>1, <3>2, Claims
  <2> QED
    BY <1>2, <1>a, <2>1, RegistryKept
<1>3. ASSUME Delivering', stage' = "acceptance",
             NEW s \in {"acceptance", "model_build"}, out'[s] \in Content
      PROVE  out'[s] = made'
  <2>1. CASE RunHandler
    BY <1>0, <1>a, <1>3, <2>1 DEF RunHandler, Fail, Delivering, Landed, Produces, Adopted, TypeOK
  <2>2. CASE Delivering /\ stage' = stage /\ made' = made /\ ~ RunHandler
    BY <1>0, <1>a, <1>3, <2>2, OutputKept DEF PublicationInv
  <2> QED
    BY <1>3, <2>1, <2>2 DEF Next, EngineStep, vars, durable, volatile, StartRun, StartResume,
       Start, Crash, Refuse, Forget, Begin, Exhausted, Finish, PrepareInputs, RunHandler,
       ImportOutputs, CheckAttempt, WriteReceipt, CommitManifest, WriteEvent, RecordOutcome,
       DamageOutput, LoseReceipt, Fail, Delivering, Landed
<1>4. ASSUME Delivering', stage' = "publication"
      PROVE  made' \in Accepted /\ manifest'["acceptance"][made'] # None
  <2>1. CASE RunHandler
    <3>1. /\ made' \in Content /\ made' = out["model_build"] /\ out["acceptance"] \in Accepted
          /\ stage = "publication" /\ pc = "run" /\ manifest' = manifest
      BY <1>4, <2>1 DEF RunHandler, Fail, Delivering, Landed, Produces, Adopted
    <3>2. "acceptance" \in Verified(run)
      BY <1>0, <3>1, Dependencies DEF MemoryInv, Busy, Working
    <3> QED
      BY <1>0, <3>1, <3>2, LifecycleAssumption DEF PublicationInv
  <2>2. CASE Delivering /\ stage' = stage /\ made' = made
    <3>1. made \in Accepted /\ manifest["acceptance"][made] # None
      BY <1>0, <1>4, <2>2 DEF PublicationInv
    <3> QED
      BY <1>a, <2>2, <3>1, LifecycleAssumption, RegistryKept
  <2> QED
    BY <1>4, <2>1, <2>2 DEF Next, EngineStep, vars, durable, volatile, StartRun, StartResume,
       Start, Crash, Refuse, Forget, Begin, Exhausted, Finish, PrepareInputs, RunHandler,
       ImportOutputs, CheckAttempt, WriteReceipt, CommitManifest, WriteEvent, RecordOutcome,
       DamageOutput, LoseReceipt, Fail, Delivering, Landed
<1> QED
  BY <1>1, <1>2, <1>3, <1>4 DEF PublicationInv

-----------------------------------------------------------------------------
(* The results. *)

LEMMA InitIInv == Init => IInv
<1> SUFFICES ASSUME Init PROVE IInv
  OBVIOUS
<1> USE LifecycleAssumption, Stages DEF Init
<1>1. Preregistered \in Receipt
  BY DEF Preregistered, Receipt, Id
<1>2. TypeOK
  BY <1>1 DEF TypeOK, Blank, StageState, Id, PC, Adopted
<1>3. Verified(run) = {} /\ Verified(cur) = {} /\ pc = "idle"
  BY DEF Verified, Blank
<1>4. MemoryInv
  BY <1>3 DEF MemoryInv, Busy, Working, Delivering, Landed
<1>5. EvidenceInv
  BY <1>3 DEF EvidenceInv, VerifiedIsBacked, Landed, Id
<1>6. LineageInv
  BY <1>3 DEF LineageInv, LineageConsistent, Working, Delivering, Landed
<1>7. RegistryInv
  BY <1>3, NoneAssumption DEF RegistryInv, RegistryClosed, Preregistered, Working, Delivering, Landed
<1>8. PublicationInv
  BY <1>3 DEF PublicationInv, PublishedOnlyAccepted, Delivering, Landed, Id
<1> QED
  BY <1>2, <1>4, <1>5, <1>6, <1>7, <1>8 DEF IInv

(* The invariant that says what the engine relies on between its writes holds  *)
(* in every reachable state.                                                   *)
THEOREM LifecycleInvariance == Spec => []IInv
<1>1. IInv /\ [Next]_vars => IInv'
  BY TypeStep, MemoryStep, EvidenceStep, LineageStep, RegistryStep, PublicationStep DEF IInv
<1> QED
  BY InitIInv, <1>1, PTL DEF Spec

(* Every record keeps its type, attempts within the plan's budget included.    *)
THEOREM LifecycleTypeCorrect == Spec => []TypeOK
BY LifecycleInvariance, PTL DEF IInv

(* A stage that run.json calls verified is backed by receipt, ledger entry and *)
(* manifest of the attempt it counts, wherever the engine was killed.          *)
THEOREM VerifiedIsBackedHolds == Spec => []VerifiedIsBacked
<1>1. IInv => VerifiedIsBacked
  BY DEF IInv, EvidenceInv
<1> QED
  BY LifecycleInvariance, <1>1, PTL

(* Verified stages are closed under dependency and cite what their             *)
(* dependencies are verified by now.                                           *)
THEOREM LineageConsistentHolds == Spec => []LineageConsistent
<1>1. IInv => LineageConsistent
  BY DEF IInv, LineageInv
<1> QED
  BY LifecycleInvariance, <1>1, PTL

(* The registry cites only what it holds, by the digest it has.                *)
THEOREM RegistryClosedHolds == Spec => []RegistryClosed
<1>1. IInv => RegistryClosed
  BY DEF IInv, RegistryInv
<1> QED
  BY LifecycleInvariance, <1>1, PTL

(* Only builds whose acceptance is registered and positive are published.      *)
THEOREM PublishedOnlyAcceptedHolds == Spec => []PublishedOnlyAccepted
<1>1. IInv => PublishedOnlyAccepted
  BY DEF IInv, PublicationInv
<1> QED
  BY LifecycleInvariance, <1>1, PTL

(* Nothing a resumed invocation writes to run.json lowers an attempt count.    *)
THEOREM NoAttemptRefundedHolds == Spec => NoAttemptRefunded
<1> DEFINE Kept == mode = "resume" => \A s \in Stage : run'[s].attempts >= run[s].attempts
<1>1. ASSUME IInv, [Next]_vars PROVE [Kept]_vars
  <2> SUFFICES ASSUME mode = "resume", NEW s \in Stage, Next
               PROVE  run'[s].attempts >= run[s].attempts
    BY <1>1
  <2>0. run[s].attempts \in Nat /\ cur[s].attempts \in Nat
    BY <1>1 DEF IInv, TypeOK, StageState
  <2>1. CASE Begin
    <3> PICK t \in todo : /\ cur' = [cur EXCEPT ![t] = [status |-> "running",
                                                        attempts |-> @.attempts + 1]]
                          /\ run' = cur'
      BY <2>1 DEF Begin
    <3>1. cur'[s].attempts >= cur[s].attempts
      BY <2>0, <1>1 DEF IInv, TypeOK
    <3>2. cur[s].attempts >= run[s].attempts
      BY <1>1, <2>1 DEF Begin, IInv, MemoryInv
    <3> QED
      BY <2>0, <3>1, <3>2, <1>1, TypeStep DEF TypeOK, StageState
  <2>2. CASE Finish
    BY <1>1, <2>2 DEF Finish, IInv, MemoryInv
  <2>3. CASE RecordOutcome
    <3>1. run = cur /\ run'[s].attempts = cur[s].attempts
      BY <1>1, <2>3, StageUnderWay DEF RecordOutcome, Busy, IInv, TypeOK
    <3> QED
      BY <2>0, <3>1
  <2>4. CASE run' = run
    BY <2>0, <2>4
  <2> QED
    BY <2>1, <2>2, <2>3, <2>4 DEF Next, EngineStep, durable, volatile, StartRun,
       StartResume, Start, Crash, Refuse, Exhausted, PrepareInputs, RunHandler, ImportOutputs,
       CheckAttempt, WriteReceipt, CommitManifest, WriteEvent, DamageOutput, LoseReceipt
<1> QED
  BY LifecycleInvariance, <1>1, PTL DEF Spec, NoAttemptRefunded

-----------------------------------------------------------------------------
(* Work is kept.                                                             *)

LEMMA KeptStep ==
  ASSUME IInv, KeptInv, [Next]_vars
  PROVE  KeptInv'
<1> USE LifecycleAssumption
<1>1. ASSUME FragileReceipt = {}
      PROVE  /\ \A s \in Verified(run)' : receipt'[s] # None
             /\ (pc = "manifest" \/ Landed)' => receipt'[stage'] # None
  <2>1. \A s \in Verified(run) : receipt'[s] = receipt[s]
    <3> SUFFICES ASSUME NEW s \in Verified(run) PROVE receipt'[s] = receipt[s]
      OBVIOUS
    <3>1. CASE WriteReceipt
      BY <3>1, StageUnderWay DEF WriteReceipt, Busy, IInv, TypeOK, Verified
    <3>2. CASE receipt' = receipt
      BY <3>2
    <3> QED
      BY <1>1, <3>1, <3>2 DEF Next, EngineStep, vars, durable, volatile, StartRun, StartResume,
         Start, Crash, Refuse, Begin, Exhausted, Finish, PrepareInputs, RunHandler,
         ImportOutputs, CheckAttempt, CommitManifest, WriteEvent, RecordOutcome, DamageOutput,
         LoseReceipt
  <2>2. \A s \in Verified(run)' : receipt'[s] # None
    <3> SUFFICES ASSUME NEW s \in Verified(run)' PROVE receipt'[s] # None
      OBVIOUS
    <3>1. CASE s \in Verified(run)
      BY <1>1, <2>1, <3>1 DEF KeptInv
    <3>2. CASE RecordOutcome /\ Landed /\ s = stage
      BY <1>1, <3>2 DEF KeptInv, RecordOutcome
    <3> QED
      BY <3>1, <3>2, Claims
  <2>3. (pc = "manifest" \/ Landed)' => receipt'[stage'] # None
    <3>1. CASE WriteReceipt /\ pc' = "manifest"
      <4>1. NewReceipt # None
        BY <3>1, ReceiptType, NoneAssumption DEF WriteReceipt, IInv, MemoryInv, Delivering
      <4>2. stage' = stage /\ receipt'[stage] = NewReceipt
        BY <3>1 DEF WriteReceipt, IInv, TypeOK, Fail
      <4> QED
        BY <4>1, <4>2
    <3>2. CASE WriteReceipt /\ pc' # "manifest"
      BY <3>2 DEF WriteReceipt, Fail, Landed
    <3>3. CASE ~ WriteReceipt
      BY <1>1, <3>3 DEF KeptInv, Next, EngineStep, vars, durable, volatile, StartRun,
         StartResume, Start, Crash, Refuse, Forget, Begin, Exhausted, Finish, PrepareInputs,
         RunHandler, ImportOutputs, CheckAttempt, CommitManifest, WriteEvent, RecordOutcome,
         DamageOutput, LoseReceipt, Fail, Landed
    <3> QED
      BY <3>1, <3>2, <3>3
  <2> QED
    BY <2>2, <2>3
<1>2. ASSUME FragileOutput = {}
      PROVE  /\ \A s \in Verified(run)' : receipt'[s] # None => Verifies(s)'
             /\ (pc \in {"receipt", "manifest"} \/ Landed)' => Delivered'
  <2>1. \A s \in Verified(run) : out'[s] = out[s]
    <3> SUFFICES ASSUME NEW s \in Verified(run) PROVE out'[s] = out[s]
      OBVIOUS
    <3>1. CASE RunHandler
      BY <3>1, StageUnderWay DEF RunHandler, Busy, IInv, TypeOK, Verified
    <3>2. CASE out' = out
      BY <3>2
    <3> QED
      BY <1>2, <3>1, <3>2 DEF Next, EngineStep, vars, durable, volatile, StartRun, StartResume,
         Start, Crash, Refuse, Begin, Exhausted, Finish, PrepareInputs, WriteReceipt,
         ImportOutputs, CheckAttempt, CommitManifest, WriteEvent, RecordOutcome, DamageOutput,
         LoseReceipt
  <2>2. \A s \in Verified(run)' : receipt'[s] # None => Verifies(s)'
    <3> SUFFICES ASSUME NEW s \in Verified(run)', receipt'[s] # None PROVE Verifies(s)'
      OBVIOUS
    <3>1. CASE s \in Verified(run)
      BY <1>2, <2>1, <3>1, ReceiptKept DEF KeptInv, Verifies
    <3>2. CASE RecordOutcome /\ Landed /\ s = stage
      <4>1. receipt[s] = NewReceipt /\ receipt' = receipt /\ out' = out
        BY <3>2 DEF RecordOutcome, IInv, EvidenceInv
      <4>2. Delivered /\ NewReceipt.id = made
        BY <1>2, <3>2 DEF KeptInv, NewReceipt
      <4> QED
        BY <3>2, <4>1, <4>2 DEF Verifies, Delivered
    <3> QED
      BY <3>1, <3>2, Claims
  <2>3. (pc \in {"receipt", "manifest"} \/ Landed)' => Delivered'
    <3>1. CASE CheckAttempt
      BY <3>1 DEF CheckAttempt, Fail, durable, Landed, Delivered
    <3>2. CASE ~ CheckAttempt
      BY <1>2, <3>2 DEF KeptInv, Next, EngineStep, vars, durable, volatile, StartRun,
         StartResume, Start, Crash, Refuse, Forget, Begin, Exhausted, Finish, PrepareInputs,
         RunHandler, ImportOutputs, WriteReceipt, CommitManifest, WriteEvent, RecordOutcome,
         DamageOutput, LoseReceipt, Fail, Landed, Delivered
    <3> QED
      BY <3>1, <3>2
  <2> QED
    BY <2>2, <2>3
<1> QED
  BY <1>1, <1>2 DEF KeptInv

LEMMA KeptInvariance == Spec => [](IInv /\ KeptInv)
<1>1. Init => KeptInv
  BY Stages DEF Init, KeptInv, Verified, Blank, Landed
<1>2. IInv /\ KeptInv /\ [Next]_vars => KeptInv'
  BY KeptStep
<1> QED
  BY LifecycleInvariance, <1>1, <1>2, PTL DEF Spec

(* A verified stage that has its receipt can be cited. *)
LEMMA CitableWhenVerified ==
  ASSUME IInv, NEW d \in Verified(run), d # "release", receipt[d] # None
  PROVE  Citable(run, d)
<1>1. d \in Stage /\ receipt[d] \in Receipt
  BY DEF Verified, IInv, TypeOK
<1>2. CASE d = "design"
  <2>1. Preregistered \in Receipt
    BY DEF Preregistered, Receipt, Id
  <2> QED
    BY <1>2, <2>1, NoneAssumption DEF IInv, EvidenceInv, Citable
<1>3. CASE d # "design"
  BY <1>1, <1>3 DEF IInv, EvidenceInv, VerifiedIsBacked, Commits, Citable
<1> QED
  BY <1>2, <1>3

(* What is verified re-verifies: no crash makes a resume repeat finished work. *)
THEOREM WorkIsKeptHolds == Spec => []WorkIsKept
<1>1. ASSUME IInv, KeptInv PROVE WorkIsKept
  <2> SUFFICES ASSUME FragileOutput = {}, FragileReceipt = {}, NEW s \in Verified(run)
               PROVE  StillHolds(s)
    BY DEF WorkIsKept
  <2>1. s \in Stage /\ receipt[s] # None /\ Verifies(s)
    BY <1>1 DEF KeptInv, Verified
  <2>2. \A d \in DEPENDENCIES[s] : d \in Verified(run) /\ receipt[d] # None
    BY <1>1 DEF IInv, LineageInv, LineageConsistent, KeptInv
  <2>3. Preparable(run, s)
    BY <1>1, <2>1, <2>2, CitableWhenVerified, Dependencies DEF Preparable
  <2>4. receipt[s].inputs = Parents(s)
    BY <1>1, <2>1, <2>2 DEF IInv, LineageInv, LineageConsistent
  <2> QED
    BY <2>1, <2>3, <2>4 DEF StillHolds
<1> QED
  BY KeptInvariance, <1>1, PTL

-----------------------------------------------------------------------------
(* The verified stages implement the governed chain.                         *)

LEMMA ChainStep ==
  ASSUME FragileReceipt = {}, IInv, KeptInv, [Next]_vars
  PROVE  [Chain!Next]_VerifiedChain
<1>0. KeptInv'
  BY KeptStep
<1>1. Chain!Joined = Verified(run)
  BY DEF Chain!Joined, VerifiedChain, KeptInv, Verified
<1>2. \A s \in Verified(run) : s \in Verified(run)' => VerifiedChain'[s] = VerifiedChain[s]
  BY <1>0, ReceiptKept DEF VerifiedChain, KeptInv, Verified
<1>3. CASE RecordOutcome /\ Landed
  <2>1. /\ stage \in Stage /\ stage \notin Verified(run) /\ run = cur
        /\ DEPENDENCIES[stage] \subseteq Verified(run)
    BY <1>3, StageUnderWay DEF Busy, Landed, IInv, MemoryInv, Working, Delivering
  <2>2. Verified(run)' = Verified(run) \cup {stage} /\ receipt' = receipt
    <3>1. /\ run'[stage].status = "verified"
          /\ \A t \in Stage \ {stage} : run'[t] = run[t]
      BY <1>3, <2>1 DEF RecordOutcome, Landed, Entry, IInv, TypeOK
    <3> QED
      BY <1>3, <2>1, <3>1 DEF Verified, RecordOutcome
  <2>3. receipt[stage] = NewReceipt
    BY <1>3 DEF IInv, EvidenceInv, KeptInv
  <2>4. \A d \in DEPENDENCIES[stage] : receipt[d] # None
    BY <2>1 DEF KeptInv
  <2>5. NewReceipt.inputs = Parents(stage)
    BY <1>3, <2>4 DEF IInv, LineageInv, Working, Delivering, NewReceipt
  <2>6. ASSUME NEW d \in DEPENDENCIES[stage]
        PROVE  CitesReceipt(receipt[stage], d, receipt[d])
    <3>1. d \in Verified(run) /\ d \in Stage /\ d # "release" /\ receipt[d] # None
      BY <2>1, <2>4, Dependencies
    <3>2. CASE d = "design"
      BY <2>3, <2>5, <3>1, <3>2 DEF CitesReceipt, Parents, ParentOf, Cite, Preregistered,
         IInv, EvidenceInv
    <3>3. CASE d # "design"
      BY <2>3, <2>5, <3>1, <3>3 DEF CitesReceipt, Parents, ParentOf, Cite, Commits,
         IInv, EvidenceInv, VerifiedIsBacked
    <3> QED
      BY <3>2, <3>3
  <2>7. VerifiedChain[stage] = None /\ VerifiedChain'[stage] = receipt[stage]
        /\ receipt[stage] # None
    BY <1>3, <2>1, <2>2 DEF VerifiedChain, KeptInv
  <2>8. \A d \in DEPENDENCIES[stage] : CitesReceipt(VerifiedChain'[stage], d, VerifiedChain[d])
    BY <1>1, <2>1, <2>6, <2>7 DEF VerifiedChain, Verified
  <2>9. VerifiedChain' = [VerifiedChain EXCEPT ![stage] = VerifiedChain'[stage]]
    BY <2>1, <2>2, <2>7 DEF VerifiedChain
  <2> QED
    BY <1>1, <2>1, <2>7, <2>8, <2>9 DEF Chain!Next, Chain!Join
<1>4. CASE ~ (RecordOutcome /\ Landed)
  <2>1. Verified(run)' \subseteq Verified(run)
    BY <1>4, Claims
  <2>2. \A s \in Verified(run)' : DEPENDENCIES[s] \subseteq Verified(run)'
    BY LineageStep DEF LineageInv, LineageConsistent
  <2>3. VerifiedChain' = [ s \in Stage |-> IF s \in Verified(run)'
                                           THEN VerifiedChain[s] ELSE None ]
    BY <1>2, <2>1 DEF VerifiedChain, Verified
  <2> QED
    BY <1>1, <2>1, <2>2, <2>3 DEF Chain!Next, Chain!Withdraw
<1> QED
  BY <1>3, <1>4

(* Every behaviour of the engine in which receipts are not removed from outside *)
(* is one of the governed chain, whatever is killed, fails or is damaged.       *)
THEOREM GovernedChainRefinement ==
  ASSUME FragileReceipt = {}
  PROVE  Spec => ChainIsGoverned
<1>1. Init => Chain!Init
  BY DEF Init, Chain!Init, VerifiedChain, Verified, Blank
<1>2. IInv /\ KeptInv /\ [Next]_vars => [Chain!Next]_VerifiedChain
  BY ChainStep
<1> QED
  BY KeptInvariance, <1>1, <1>2, PTL DEF Spec, ChainIsGoverned, Chain!Spec
=============================================================================
