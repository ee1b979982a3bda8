----------------------------- MODULE BlobGCProofs -----------------------------
(***************************************************************************)
(* Proofs about BlobGC, for any run, number of collectors, budget and      *)
(* number of killed processes.                                             *)
(*                                                                         *)
(* What a collector condemned was out of reach when it looked, under the   *)
(* lock (CollectorInv); nothing that extends the registry is written while *)
(* it holds the lock, so it is still out of reach when it is deleted.      *)
(***************************************************************************)
EXTENDS BlobGC, TLAPS

-----------------------------------------------------------------------------
(* Types. *)

(* What the registry refers to are blobs. *)
LEMMA LiveBlobs ==
  ASSUME TypeOK, EngineInv
  PROVE  Live \subseteq Blob
<1> USE StoreAssumption
<1>1. ASSUME NEW s \in Stage, receipt[s] # 0 PROVE Promised(s) \subseteq Blob
  <2>1. \A d \in DEPENDENCIES[s] : d \in Stage /\ manifest[d] \in Attempt
    BY <1>1 DEF EngineInv, TypeOK, Attempts, Attempt
  <2>2. \A d \in DEPENDENCIES[s] : CopyOf("manifest", d, manifest[d]) \in File
    BY <2>1 DEF CopyOf, File
  <2> QED
    BY <2>2 DEF Promised, Blob
<1>2. \A s \in Stage : receipt[s] # 0 \/ manifest[s] # 0 => Promised(s) \subseteq Blob
  BY <1>1 DEF EngineInv
<1>3. \A e \in ledger : CopyOf("attempt", e[1], e[2]) \in File
  BY DEF TypeOK, CopyOf, File
<1>4. \A s \in Stage : Out[s] \in Blob
  BY DEF Blob
<1>5. UNION { Promised(s) : s \in { t \in Stage : receipt[t] # 0 \/ manifest[t] # 0 } } \subseteq Blob
  BY <1>2
<1>6. { Out[s] : s \in { t \in Stage : status[t] = "verified" } } \subseteq Blob
  BY <1>4
<1>7. { CopyOf("attempt", e[1], e[2]) : e \in ledger } \subseteq Blob
  BY <1>3 DEF Blob
<1>8. { o \in Old : manifest[Successor] = 0 } \subseteq Blob
  BY DEF Blob
<1> QED
  BY <1>5, <1>6, <1>7, <1>8 DEF Live

LEMMA TypeStep ==
  ASSUME TypeOK, EngineInv, [Next]_vars
  PROVE  TypeOK'
<1> USE StoreAssumption
<1>1. CASE Start \/ Leave
  BY <1>1 DEF Start, Leave, Exit, registry, store, collector, TypeOK
<1>2. CASE Begin
  <2>1. status' \in Status /\ attempts' \in Attempts /\ stage' \in Stage
    BY <1>2 DEF Begin, TypeOK, Status, Attempts
  <2> QED
    BY <1>2, <2>1 DEF Begin, store, collector, TypeOK
<1>3. CASE Handle
  BY <1>3 DEF Handle, Put, Fail, registry, store, collector, TypeOK, Blob
<1>4. CASE Copy
  BY <1>4 DEF Copy, Exit, Fail, registry, store, collector, TypeOK
<1>5. CASE Commit
  BY <1>5 DEF Commit, registry, collector, TypeOK, EngineInv
<1>6. CASE WriteReceipt
  BY <1>6 DEF WriteReceipt, Fail, store, collector, TypeOK, Attempts
<1>7. CASE CommitManifest
  <2>1. CopyOf("manifest", stage, attempts[stage]) \in Blob
    BY <1>7 DEF CommitManifest, CopyOf, Blob, File, EngineInv, TypeOK
  <2> QED
    BY <1>7, <2>1 DEF CommitManifest, Put, Fail, store, collector, TypeOK, Attempts
<1>8. CASE WriteAttempt
  <2>1. attempts[stage] \in Attempt
    BY <1>8 DEF WriteAttempt, EngineInv
  <2>2. CopyOf("attempt", stage, attempts[stage]) \in Blob
    BY <2>1 DEF CopyOf, Blob, File, TypeOK
  <2> QED
    BY <1>8, <2>1, <2>2 DEF WriteAttempt, Put, store, collector, TypeOK
<1>9. CASE Record
  BY <1>9 DEF Record, store, collector, TypeOK, EngineInv, Status
<1>10. CASE LockBusy \/ Kill
  <2>1. kills' \in 0 .. MaxKills
    BY <1>10 DEF LockBusy, Kill, TypeOK
  <2>2. leftover' \in BOOLEAN
    BY <1>10 DEF LockBusy, Kill, store, TypeOK
  <2> QED
    BY <1>10, <2>1, <2>2 DEF LockBusy, Kill, Exit, registry, store, collector, TypeOK
<1>11. ASSUME NEW g \in Collector, PlanReach(g) \/ PlanEntries(g) \/ PlanSeal(g) \/ Discard(g)
       PROVE  TypeOK'
  <2>1. gpc' \in [Collector -> {"idle", "reached", "listed", "planned", "locked", "deleting"}]
    BY <1>11 DEF PlanReach, PlanEntries, PlanSeal, Discard, Move, TypeOK
  <2>2. registry \in Snapshot
    BY DEF registry, Snapshot, TypeOK
  <2>3. PICK p : plan' = [plan EXCEPT ![g] = p] /\
                 \/ p = NoPlan \/ p = Plan(Live, {}, << >>)
                 \/ p = Plan(plan[g].live \cap blob, blob, << >>)
                 \/ p = Plan(plan[g].live, plan[g].present, registry)
    BY <1>11 DEF PlanReach, PlanEntries, PlanSeal, Discard, TypeOK
  <2>4. p \in [live : SUBSET Blob, present : SUBSET Blob, registry : Snapshot]
    BY <2>2, <2>3, LiveBlobs DEF Plan, NoPlan, Snapshot, TypeOK
  <2>5. plan' \in [Collector -> [live : SUBSET Blob, present : SUBSET Blob, registry : Snapshot]]
    BY <2>3, <2>4 DEF TypeOK
  <2> QED
    BY <1>11, <2>1, <2>5
       DEF PlanReach, PlanEntries, PlanSeal, Discard, registry, store, engine, TypeOK
<1>12. ASSUME NEW g \in Collector, BeginApply(g) \/ Recheck(g) \/ CollectNow(g)
                                   \/ EndApply(g) \/ KillCollector(g)
       PROVE  TypeOK'
  <2>1. gpc' \in [Collector -> {"idle", "reached", "listed", "planned", "locked", "deleting"}]
    BY <1>12 DEF BeginApply, Recheck, Refuse, CollectNow, EndApply, KillCollector, Move, TypeOK
  <2>2. plan' \in [Collector -> [live : SUBSET Blob, present : SUBSET Blob, registry : Snapshot]]
    BY <1>12 DEF BeginApply, Recheck, Refuse, CollectNow, EndApply, KillCollector, Plan, NoPlan,
       Snapshot, TypeOK
  <2> QED
    BY <1>12, <2>1, <2>2 DEF BeginApply, Recheck, Refuse, CollectNow, EndApply, KillCollector,
       registry, store, engine, TypeOK
<1>13. ASSUME NEW g \in Collector, Delete(g) PROVE TypeOK'
  <2>1. blob' \subseteq blob /\ struck' \subseteq struck \cup {Out[stage]}
    BY <1>13 DEF Delete
  <2> QED
    BY <1>13, <2>1 DEF Delete, registry, engine, collector, TypeOK
<1>14. CASE UNCHANGED vars
  BY <1>14 DEF vars, TypeOK
<1> QED
  BY <1>1, <1>2, <1>3, <1>4, <1>5, <1>6, <1>7, <1>8, <1>9, <1>10, <1>11, <1>12, <1>13, <1>14
     DEF Next, EngineStep, Collect

-----------------------------------------------------------------------------
(* The engine. *)

LEMMA EngineInvStep ==
  ASSUME TypeOK, EngineInv, [Next]_vars
  PROVE  EngineInv'
<1> USE StoreAssumption
<1>1. CASE Start \/ Leave
  BY <1>1 DEF Start, Leave, Exit, registry, store, TypeOK, EngineInv
<1>2. CASE Begin
  <2> PICK s \in Stage : /\ status[s] # "verified" /\ attempts[s] < MaxAttempts
                         /\ \A d \in DEPENDENCIES[s] : status[d] = "verified"
                         /\ status' = [status EXCEPT ![s] = "running"]
                         /\ attempts' = [attempts EXCEPT ![s] = @ + 1]
                         /\ stage' = s
    BY <1>2 DEF Begin
  <2>1. attempts'[s] \in Attempt
    BY DEF TypeOK, Attempts, Attempt
  <2>2. \A d \in DEPENDENCIES[s] : manifest[d] # 0
    BY DEF EngineInv
  <2>3. \A t \in Stage : status'[t] = "verified" => status[t] = "verified"
    BY DEF TypeOK, Status
  <2> QED
    BY <1>2, <2>1, <2>2, <2>3 DEF Begin, store, EngineInv
<1>3. CASE Handle
  BY <1>3 DEF Handle, Put, Fail, registry, store, EngineInv, Blob, TypeOK
<1>4. CASE Copy
  BY <1>4 DEF Copy, Exit, Fail, registry, store, EngineInv
<1>5. CASE Commit
  BY <1>5 DEF Commit, registry, EngineInv
<1>6. CASE WriteReceipt
  BY <1>6 DEF WriteReceipt, Fail, store, EngineInv, TypeOK, Attempts, Attempt
<1>7. CASE CommitManifest
  <2>1. CopyOf("manifest", stage, attempts[stage]) \in Blob
    BY <1>7 DEF CommitManifest, CopyOf, Blob, File, EngineInv, TypeOK
  <2> QED
    BY <1>7, <2>1 DEF CommitManifest, Put, Fail, store, EngineInv, TypeOK, Attempts, Attempt
<1>8. CASE WriteAttempt
  <2>1. CopyOf("attempt", stage, attempts[stage]) \in Blob
    BY <1>8 DEF WriteAttempt, CopyOf, Blob, File, EngineInv, TypeOK
  <2> QED
    BY <1>8, <2>1 DEF WriteAttempt, Put, store, EngineInv
<1>9. CASE Record
  BY <1>9 DEF Record, store, EngineInv, TypeOK, Status
<1>10. CASE LockBusy \/ Kill
  BY <1>10 DEF LockBusy, Kill, Exit, registry, store, EngineInv
<1>11. ASSUME NEW g \in Collector, Delete(g) PROVE EngineInv'
  <2>1. pc = "receipt" => Out[stage] \in blob' \cup struck'
    BY <1>11 DEF Delete, EngineInv
  <2> QED
    BY <1>11, <2>1 DEF Delete, registry, engine, EngineInv
<1>12. CASE UNCHANGED << registry, engine, blob, struck >>
  BY <1>12 DEF registry, engine, EngineInv
<1> QED
  BY <1>1, <1>2, <1>3, <1>4, <1>5, <1>6, <1>7, <1>8, <1>9, <1>10, <1>11, <1>12
     DEF Next, EngineStep, Collect, vars, registry, store, engine, PlanReach, PlanEntries,
     PlanSeal, Discard, BeginApply, Recheck, Refuse, CollectNow, EndApply, KillCollector

-----------------------------------------------------------------------------
(* The collectors. *)

(* Whoever holds the lock finds the registry as it was. *)
LEMMA LockedRegistry ==
  ASSUME TypeOK, EngineInv, [Next]_vars, lock # NoOne
  PROVE  UNCHANGED registry /\ UNCHANGED Live
<1>1. UNCHANGED registry
  BY DEF Next, EngineStep, Collect, vars, registry, store, engine, Free, Start, Leave, Begin,
     Handle, Copy, Commit, WriteReceipt, CommitManifest, WriteAttempt, Record, LockBusy, Kill,
     PlanReach, PlanEntries, PlanSeal, Discard, BeginApply, Recheck, Refuse, CollectNow, Delete,
     EndApply, KillCollector
<1> QED
  BY <1>1 DEF registry, Live, Promised

LEMMA CollectorInvStep ==
  ASSUME TypeOK, EngineInv, CollectorInv, [Next]_vars
  PROVE  CollectorInv'
<1> USE StoreAssumption
<1>1. \A h \in Collector : gpc[h] = "deleting" => lock = h
  BY DEF CollectorInv
<1>2. ASSUME NEW g \in Collector, Recheck(g) PROVE CollectorInv'
  <2>1. UNCHANGED Live
    BY <1>2 DEF Recheck, Refuse, registry, Live, Promised
  <2>2. Current(g) => (plan[g].present \ plan[g].live) \cap Live = {}
    BY DEF Current
  <2> QED
    BY <1>1, <1>2, <2>1, <2>2 DEF Recheck, Refuse, CollectorInv, TypeOK
<1>3. ASSUME NEW g \in Collector, CollectNow(g) PROVE CollectorInv'
  <2>1. UNCHANGED Live
    BY <1>3 DEF CollectNow, registry, Live, Promised
  <2>2. plan'[g].present = blob /\ plan'[g].live = Live \cap blob
    BY <1>3 DEF CollectNow, Plan, TypeOK
  <2>3. \A h \in Collector \ {g} : plan'[h] = plan[h] /\ gpc'[h] = gpc[h]
    BY <1>3 DEF CollectNow, Move, TypeOK
  <2> QED
    BY <1>1, <1>3, <2>1, <2>2, <2>3 DEF CollectNow, Move, Free, CollectorInv, TypeOK
<1>4. ASSUME NEW g \in Collector,
             \/ PlanReach(g) \/ PlanEntries(g) \/ PlanSeal(g) \/ BeginApply(g) \/ Delete(g)
             \/ EndApply(g) \/ Discard(g) \/ KillCollector(g)
      PROVE  CollectorInv'
  <2>1. UNCHANGED Live
    BY <1>4 DEF PlanReach, PlanEntries, PlanSeal, BeginApply, Delete, EndApply, Discard,
       KillCollector, registry, Live, Promised
  <2>2. \A h \in Collector : gpc'[h] \in {"locked", "deleting"} <=> lock' = h
    BY <1>4 DEF PlanReach, PlanEntries, PlanSeal, BeginApply, Delete, EndApply, Discard,
       KillCollector, Move, Free, collector, CollectorInv, TypeOK
  <2>3. \A h \in Collector : gpc'[h] = "deleting" => gpc[h] = "deleting" /\ plan'[h] = plan[h]
    BY <1>4 DEF PlanReach, PlanEntries, PlanSeal, BeginApply, Delete, EndApply, Discard,
       KillCollector, Move, collector, TypeOK
  <2> QED
    BY <2>1, <2>2, <2>3 DEF CollectorInv
<1>5. CASE UNCHANGED << lock, collector >>
  <2>1. \A h \in Collector : gpc[h] = "deleting" => UNCHANGED Live
    BY <1>1, LockedRegistry
  <2> QED
    BY <1>5, <2>1 DEF CollectorInv, collector
<1> QED
  BY <1>2, <1>3, <1>4, <1>5 DEF Next, EngineStep, Collect, vars, collector, Start, Leave, Begin,
     Handle, Copy, Commit, WriteReceipt, CommitManifest, WriteAttempt, Record, LockBusy, Kill

(* What a step takes out of the store, the registry does not refer to. *)
LEMMA Unreachable ==
  ASSUME TypeOK, CollectorInv, [Next]_vars, NEW b \in blob \ blob'
  PROVE  /\ b \notin Live
         /\ UNCHANGED << registry, engine >>
         /\ pc = "receipt" /\ b = Out[stage] => b \in struck'
<1>1. PICK g \in Collector : Delete(g) /\ b \in Condemned(g)
  BY DEF Next, EngineStep, Collect, vars, registry, store, engine, Start, Leave, Begin,
     Handle, Copy, Commit, WriteReceipt, CommitManifest, WriteAttempt, Record, LockBusy, Kill,
     PlanReach, PlanEntries, PlanSeal, Discard, BeginApply, Recheck, Refuse, CollectNow, Delete,
     EndApply, KillCollector
<1> QED
  BY <1>1 DEF Delete, Condemned, CollectorInv

-----------------------------------------------------------------------------
(* The outputs. *)

LEMMA OutputsKeptStep ==
  ASSUME TypeOK, EngineInv, CollectorInv, OutputsKept, [Next]_vars
  PROVE  OutputsKept'
<1> USE StoreAssumption
<1>1. \A s \in Stage : receipt[s] # 0 \/ status[s] = "verified" => Out[s] \in Live
  BY DEF Live, Promised
<1>2. \A s \in Stage : receipt[s] # 0 \/ status[s] = "verified" => Out[s] \in blob' \cup struck'
  <2>1. struck \ struck' \subseteq blob'
    BY DEF Next, EngineStep, Collect, vars, registry, store, engine, Start, Leave, Begin,
       Handle, Copy, Commit, WriteReceipt, CommitManifest, WriteAttempt, Record, LockBusy, Kill,
       PlanReach, PlanEntries, PlanSeal, Discard, BeginApply, Recheck, Refuse, CollectNow, Delete,
       EndApply, KillCollector
  <2> QED
    BY <1>1, <2>1, Unreachable DEF OutputsKept
<1>3. ASSUME NEW s \in Stage, receipt'[s] # 0 \/ status'[s] = "verified",
             receipt[s] = 0, status[s] # "verified"
      PROVE  Out[s] \in blob' \cup struck'
  <2>1. CASE WriteReceipt
    BY <1>3, <2>1 DEF WriteReceipt, store, EngineInv, TypeOK, Attempts
  <2>2. CASE Record
    BY <1>3, <2>2 DEF Record, store, EngineInv, TypeOK, Status
  <2>3. CASE Begin
    BY <1>3, <2>3 DEF Begin, TypeOK, Status
  <2> QED
    BY <1>3, <2>1, <2>2, <2>3 DEF Next, EngineStep, Collect, vars, registry, store, engine,
       Start, Leave, Handle, Copy, Commit, CommitManifest, WriteAttempt, LockBusy,
       Kill, PlanReach, PlanEntries, PlanSeal, Discard, BeginApply, Recheck, Refuse, CollectNow, Delete,
       EndApply, KillCollector
<1> QED
  BY <1>2, <1>3 DEF OutputsKept

-----------------------------------------------------------------------------
(* The theorems. *)

(* The invariant: types, the order of the engine's writes, and what a collector that holds *)
(* the lock may count on.                                                                  *)
THEOREM BlobGCInvariance == Spec => []IInv
<1> USE StoreAssumption
<1>1. ASSUME Init PROVE IInv
  <2>1. NoPlan \in [live : SUBSET Blob, present : SUBSET Blob, registry : Snapshot]
    BY DEF NoPlan, Plan, Snapshot
  <2>2. /\ status \in Status /\ attempts \in Attempts
        /\ receipt \in Attempts /\ manifest \in Attempts
    BY <1>1 DEF Init, Status, Attempts
  <2>3. /\ gpc \in [Collector -> {"idle", "reached", "listed", "planned", "locked", "deleting"}]
        /\ plan \in [Collector ->
                     [live : SUBSET Blob, present : SUBSET Blob, registry : Snapshot]]
    BY <1>1, <2>1 DEF Init
  <2>4. /\ ledger \subseteq Stage \X Attempt /\ blob \subseteq Blob
        /\ leftover \in BOOLEAN /\ lock \in Collector \cup {NoOne}
    BY <1>1 DEF Init, Blob
  <2>5. /\ stage \in Stage /\ moving \in Blob \cup {NoOne}
        /\ kills \in 0 .. MaxKills /\ struck \subseteq Output
    BY <1>1 DEF Init
  <2>6. TypeOK
    BY <1>1, <2>2, <2>3, <2>4, <2>5 DEF Init, TypeOK
  <2> QED
    BY <1>1, <2>6 DEF Init, IInv, CollectorInv, EngineInv, OutputsKept
<1>2. IInv /\ [Next]_vars => IInv'
  BY TypeStep, EngineInvStep, CollectorInvStep, OutputsKeptStep DEF IInv
<1> QED
  BY <1>1, <1>2, PTL DEF Spec

(* The store, the registry and the plans hold what they are supposed to hold: no attempt  *)
(* beyond the budget, no blob that is not an output or a copy of a registry file.          *)
THEOREM StoreTypeCorrect == Spec => []TypeOK
<1>1. IInv => TypeOK
  BY DEF IInv
<1> QED
  BY <1>1, BlobGCInvariance, PTL

(* No output that a receipt or a verified entry of run.json promises is missing, unless a  *)
(* collection took it between its import and its receipt.                                  *)
THEOREM OutputsKeptHolds == Spec => []OutputsKept
<1>1. IInv => OutputsKept
  BY DEF IInv
<1> QED
  BY <1>1, BlobGCInvariance, PTL

(* apply_gc_plan and run_gc delete no blob that the registry refers to at that moment,     *)
(* whatever was registered since the plan was made and whoever was killed.                 *)
THEOREM OnlyUnreachableDeletedHolds == Spec => OnlyUnreachableDeleted
<1>1. IInv /\ [Next]_vars => [ \A b \in blob \ blob' : b \notin Live ]_vars
  BY Unreachable DEF IInv
<1> QED
  BY <1>1, BlobGCInvariance, PTL DEF Spec, OnlyUnreachableDeleted

-----------------------------------------------------------------------------
(* What stays within reach, and what a collection leaves. *)

(* Once written, a registry object stays: a receipt is replaced by another one, a manifest *)
(* and an entry of the ledger by nothing.                                                  *)
LEMMA RegistryGrows ==
  ASSUME TypeOK, EngineInv, [Next]_vars
  PROVE  /\ \A s \in Stage : receipt[s] # 0 => receipt'[s] # 0
         /\ \A s \in Stage : manifest[s] # 0 => manifest'[s] = manifest[s]
         /\ ledger \subseteq ledger'
<1> USE StoreAssumption
<1>1. CASE WriteReceipt
  <2>1. attempts[stage] \in Attempt /\ 0 \notin Attempt
    BY <1>1 DEF WriteReceipt, EngineInv, Attempt
  <2>2. \A s \in Stage : receipt[s] # 0 => receipt'[s] # 0
    BY <1>1, <2>1 DEF WriteReceipt, TypeOK, Attempts
  <2> QED
    BY <1>1, <2>2 DEF WriteReceipt
<1>2. CASE CommitManifest
  BY <1>2 DEF CommitManifest, TypeOK, Attempts
<1>3. CASE WriteAttempt
  BY <1>3 DEF WriteAttempt
<1>4. CASE UNCHANGED << receipt, manifest, ledger >>
  BY <1>4
<1> QED
  BY <1>1, <1>2, <1>3, <1>4 DEF Next, EngineStep, Collect, vars, registry, Start, Leave, Begin,
     Handle, Copy, Commit, Record, LockBusy, Kill, PlanReach, PlanEntries, PlanSeal, Discard,
     BeginApply, Recheck, Refuse, CollectNow, Delete, EndApply, KillCollector

(* Nothing leaves the registry's reach but the older generation, when the manifest that    *)
(* supersedes it is written.                                                               *)
ReachKept ==
  \A b \in Live \ Live' : b \in Old /\ manifest[Successor] = 0 /\ manifest'[Successor] # 0

LEMMA ReachStep ==
  ASSUME TypeOK, EngineInv, [Next]_vars
  PROVE  ReachKept
<1> USE StoreAssumption
<1>1. ASSUME NEW s \in Stage, receipt[s] # 0
      PROVE  Promised(s) \subseteq Live'
  <2>1. receipt'[s] # 0 /\ \A d \in DEPENDENCIES[s] : manifest'[d] = manifest[d]
    BY <1>1, RegistryGrows DEF EngineInv
  <2>2. Promised(s)' = Promised(s)
    BY <2>1 DEF Promised
  <2>3. Promised(s)' \subseteq Live'
    BY <2>1 DEF Live
  <2> QED
    BY <2>2, <2>3
<1>2. ASSUME NEW s \in Stage, receipt[s] # 0 \/ manifest[s] # 0 \/ status[s] = "verified"
      PROVE  Promised(s) \subseteq Live'
  BY <1>1, <1>2 DEF EngineInv
<1>3. ASSUME NEW s \in Stage, status[s] = "verified"
      PROVE  Out[s] \in Live'
  BY <1>2, <1>3 DEF Promised
<1>4. ASSUME NEW e \in ledger
      PROVE  CopyOf("attempt", e[1], e[2]) \in Live'
  <2>1. e \in ledger'
    BY RegistryGrows
  <2> QED
    BY <2>1 DEF Live
<1>5. ASSUME NEW b \in Live, b \notin Live'
      PROVE  b \in Old /\ manifest[Successor] = 0 /\ manifest'[Successor] # 0
  <2>1. b \in { o \in Old : manifest[Successor] = 0 }
    BY <1>2, <1>3, <1>4, <1>5 DEF Live
  <2>2. manifest'[Successor] # 0
    BY <1>5, <2>1 DEF Live
  <2> QED
    BY <2>1, <2>2
<1> QED
  BY <1>5 DEF ReachKept

(* What a collector that deletes decided, it decided about all that is stored, and about   *)
(* what the registry refers to now.                                                        *)
TakenInv == \A g \in Collector : gpc[g] = "deleting" =>
  blob \subseteq plan[g].present /\ plan[g].live = Live \cap plan[g].present

LEMMA TakenStep ==
  ASSUME TypeOK, EngineInv, CollectorInv, TakenInv, [Next]_vars
  PROVE  TakenInv'
<1> USE StoreAssumption
<1>1. \A h \in Collector : gpc[h] = "deleting" => lock = h
  BY DEF CollectorInv
<1>2. ASSUME NEW g \in Collector, Recheck(g) PROVE TakenInv'
  <2>1. UNCHANGED Live /\ UNCHANGED blob
    BY <1>2 DEF Recheck, Refuse, registry, store, Live, Promised
  <2>2. Current(g) => plan[g].present = blob /\ plan[g].live = Live \cap blob
    BY DEF Current
  <2> QED
    BY <1>1, <1>2, <2>1, <2>2 DEF Recheck, Refuse, TakenInv, TypeOK
<1>3. ASSUME NEW g \in Collector, CollectNow(g) PROVE TakenInv'
  <2>1. UNCHANGED Live /\ UNCHANGED blob
    BY <1>3 DEF CollectNow, registry, store, Live, Promised
  <2>2. plan'[g].present = blob /\ plan'[g].live = Live \cap blob
    BY <1>3 DEF CollectNow, Plan, TypeOK
  <2>3. \A h \in Collector \ {g} : plan'[h] = plan[h] /\ gpc'[h] = gpc[h]
    BY <1>3 DEF CollectNow, Move, TypeOK
  <2> QED
    BY <2>1, <2>2, <2>3 DEF TakenInv
<1>4. ASSUME NEW g \in Collector,
             \/ PlanReach(g) \/ PlanEntries(g) \/ PlanSeal(g) \/ BeginApply(g) \/ Delete(g)
             \/ EndApply(g) \/ Discard(g) \/ KillCollector(g)
      PROVE  TakenInv'
  <2>1. UNCHANGED Live
    BY <1>4 DEF PlanReach, PlanEntries, PlanSeal, BeginApply, Delete, EndApply, Discard,
       KillCollector, registry, Live, Promised
  <2>2. blob' \subseteq blob
    BY <1>4 DEF PlanReach, PlanEntries, PlanSeal, BeginApply, Delete, EndApply, Discard,
       KillCollector, store
  <2>3. \A h \in Collector : gpc'[h] = "deleting" => gpc[h] = "deleting" /\ plan'[h] = plan[h]
    BY <1>4 DEF PlanReach, PlanEntries, PlanSeal, BeginApply, Delete, EndApply, Discard,
       KillCollector, Move, collector, TypeOK
  <2> QED
    BY <2>1, <2>2, <2>3 DEF TakenInv
<1>5. CASE UNCHANGED << lock, collector >> /\ (lock = NoOne \/ UNCHANGED blob)
  <2>1. \A h \in Collector : gpc[h] = "deleting" => UNCHANGED Live /\ UNCHANGED blob
    BY <1>1, <1>5, LockedRegistry
  <2> QED
    BY <1>5, <2>1 DEF TakenInv, collector
<1> QED
  BY <1>2, <1>3, <1>4, <1>5 DEF Next, EngineStep, Collect, vars, collector, store, Free, Start,
     Leave, Begin, Handle, Copy, Commit, WriteReceipt, CommitManifest, WriteAttempt, Record,
     LockBusy, Kill

(* Reachability only grows, but for the generation that was superseded (gc.py,             *)
(* _reachability): a blob that a collector found within reach without holding the lock is  *)
(* within reach when it deletes, whatever was registered, retried or killed in between.    *)
THEOREM ReachIsKept == Spec => [][ReachKept]_vars
<1>1. IInv /\ [Next]_vars => ReachKept
  BY ReachStep DEF IInv
<1> QED
  BY <1>1, BlobGCInvariance, PTL DEF Spec

(* The step GarbageGoes rests on: a collection that is not killed ends with nothing in the *)
(* store that the registry does not refer to.                                              *)
LeavesNoGarbage == \A g \in Collector : EndApply(g) => blob' \subseteq Live'

(* A collection that nobody kills leaves no garbage behind (gc.py, apply_gc_plan).         *)
THEOREM CollectionsAreComplete == Spec => [][LeavesNoGarbage]_vars
<1>1. Init => TakenInv
  BY DEF Init, TakenInv
<1>2. IInv /\ TakenInv /\ [Next]_vars => TakenInv'
  BY TakenStep DEF IInv
<1>3. ASSUME TakenInv, NEW g \in Collector, EndApply(g)
      PROVE  blob' \subseteq Live'
  <2>1. gpc[g] = "deleting" /\ (plan[g].present \ plan[g].live) \cap blob = {}
    BY <1>3 DEF EndApply, Move, Condemned
  <2>2. blob \subseteq Live
    BY <1>3, <2>1 DEF TakenInv
  <2>3. UNCHANGED Live /\ UNCHANGED blob
    BY <1>3 DEF EndApply, registry, store, Live, Promised
  <2> QED
    BY <2>2, <2>3
<1>4. TakenInv => LeavesNoGarbage
  BY <1>3 DEF LeavesNoGarbage
<1> QED
  BY <1>1, <1>2, <1>4, BlobGCInvariance, PTL DEF Spec
===============================================================================
