---------------------------- MODULE NativeBuildProofs ----------------------------
(***************************************************************************)
(* Proofs about NativeBuild and the two components it is made of, for any  *)
(* number of builders, of processes of their compilers and of deaths.      *)
(*                                                                         *)
(* IInv is inductive.  Calls do not touch one another (CallsApart), and an *)
(* entry is touched only under the lock (LockMoves), so each half is taken *)
(* through its own steps; the halves meet where a builder starts its       *)
(* compiler, takes the call's answer, or dies (NextIsMove).                *)
(***************************************************************************)
EXTENDS NativeBuild, FiniteSetTheorems, TLAPS

-----------------------------------------------------------------------------
(* The processes of one call. *)

KidState == {"none", "live", "deaf", "free", "gone"}

\* SIGTERM and SIGKILL reach the group of one call; after SIGKILL nobody in it is alive.
LEMMA Signals ==
  ASSUME kid \in [Caller -> [Kid -> KidState]], NEW c \in Caller
  PROVE  /\ Terminated(c) \in [Caller -> [Kid -> KidState]]
         /\ Killed(c) \in [Caller -> [Kid -> KidState]]
         /\ \A d \in Caller : d # c => Terminated(c)[d] = kid[d] /\ Killed(c)[d] = kid[d]
         /\ \A k \in Kid : /\ Terminated(c)[c][k] \in {"live", "deaf"} => kid[c][k] \in {"live", "deaf"}
                           /\ Killed(c)[c][k] \notin {"live", "deaf"}
<1> DEFINE row(S) == [k \in Kid |-> IF kid[c][k] \in S THEN "gone" ELSE kid[c][k]]
<1>1. row({"live"}) \in [Kid -> KidState] /\ row({"live", "deaf"}) \in [Kid -> KidState]
  BY DEF KidState
<1>2. /\ Terminated(c) = [kid EXCEPT ![c] = row({"live"})]
      /\ Killed(c) = [kid EXCEPT ![c] = row({"live", "deaf"})]
  BY DEF Terminated, Killed
<1>3. Terminated(c)[c] = row({"live"}) /\ Killed(c)[c] = row({"live", "deaf"})
  BY <1>2
<1> QED
  BY <1>1, <1>2, <1>3

\* A process changes its state within its call.
LEMMA Becoming ==
  ASSUME kid \in [Caller -> [Kid -> KidState]], NEW c \in Caller, NEW k \in Kid,
         NEW state \in KidState, Become(c, k, state)
  PROVE  kid' \in [Caller -> [Kid -> KidState]]
<1> DEFINE row == [kid[c] EXCEPT ![k] = state]
<1>1. row \in [Kid -> KidState]
  OBVIOUS
<1>2. kid' = [kid EXCEPT ![c] = row]
  BY DEF Become
<1> QED
  BY <1>1, <1>2

\* SIGKILL ends the runner.
Dies(c) ==
  /\ Goto(c, "dead")
  /\ UNCHANGED << leader, status, kid, listed, look, verdict, stranger, hurt, newborn >>

CallStep(c) == Runner(c) \/ Command(c) \/ Interrupted(c) \/ Abandoned(c) \/ Launch(c) \/ Dies(c)

\* Every step of a call keeps the types.
LEMMA GroupTypes ==
  ASSUME GroupTypeOK, NEW c \in Caller, CallStep(c)
  PROVE  GroupTypeOK'
<1>1. CASE LeaderExits(c)
  BY <1>1 DEF LeaderExits, Goto, GroupTypeOK, InGroup
<1>2. CASE IdReused(c)
  BY <1>2 DEF IdReused, Goto, GroupTypeOK, InGroup
<1>3. CASE Launch(c)
  BY <1>3 DEF Launch, Goto, GroupTypeOK, InGroup
<1>4. CASE Exited(c)
  BY <1>4 DEF Exited, Goto, GroupTypeOK, InGroup
<1>5. CASE Drained(c)
  BY <1>5 DEF Drained, Goto, GroupTypeOK, InGroup
<1>6. CASE TimesOut(c)
  BY <1>6 DEF TimesOut, Goto, GroupTypeOK, InGroup
<1>7. CASE Interrupted(c) \/ Abandoned(c)
  BY <1>7 DEF Interrupted, Abandoned, Goto, GroupTypeOK, InGroup
<1>8. CASE Term(c)
  <2>1. kid' \in [Caller -> [Kid -> KidState]]
    BY <1>8, Signals DEF Term, SignalGroup, GroupTypeOK, KidState
  <2>2. hurt' \subseteq Caller
    BY <1>8 DEF Term, SignalGroup, GroupTypeOK
  <2>3. leader' \in [Caller -> {"none", "running", "zombie", "reaped"}]
    BY <1>8 DEF Term, GroupTypeOK
  <2> QED
    BY <1>8, <2>1, <2>2, <2>3 DEF Term, Goto, GroupTypeOK, KidState
<1>9. CASE Await(c)
  <2>1. kid' \in [Caller -> [Kid -> KidState]]
    BY <1>9, Signals DEF Await, SignalGroup, GroupTypeOK, KidState
  <2>2. hurt' \subseteq Caller
    BY <1>9 DEF Await, SignalGroup, GroupTypeOK
  <2>3. leader' \in [Caller -> {"none", "running", "zombie", "reaped"}] /\ look' \in [Caller -> {1, 2}]
    BY <1>9 DEF Await, GroupTypeOK
  <2>4. \E to \in {"list", "returned"} : Goto(c, to)
    BY <1>9 DEF Await
  <2> QED
    BY <1>9, <2>1, <2>2, <2>3, <2>4 DEF Await, Goto, GroupTypeOK, KidState
<1>10. CASE List(c)
  BY <1>10 DEF List, Goto, GroupTypeOK, InGroup
<1>11. CASE Read(c)
  <2>1. listed' \in [Caller -> SUBSET Kid]
    BY <1>11 DEF Read, GroupTypeOK
  <2>2. gpc' = gpc \/ Goto(c, "signal")
    BY <1>11 DEF Read
  <2> QED
    BY <1>11, <2>1, <2>2 DEF Read, Goto, GroupTypeOK
<1>12. CASE NobodySeen(c)
  BY <1>12 DEF NobodySeen, Goto, GroupTypeOK, InGroup
<1>13. CASE Signal(c)
  BY <1>13, Signals DEF Signal, SignalGroup, Goto, GroupTypeOK, KidState
<1>14. CASE Settle(c)
  BY <1>14 DEF Settle, Goto, GroupTypeOK, InGroup
<1>15. CASE StopCapture(c)
  BY <1>15 DEF StopCapture, Goto, GroupTypeOK, InGroup
<1>16. CASE Reap(c)
  BY <1>16 DEF Reap, Goto, GroupTypeOK, InGroup
<1>17. CASE Complete(c)
  BY <1>17 DEF Complete, Goto, GroupTypeOK, InGroup
<1>18. CASE Dies(c)
  BY <1>18 DEF Dies, Goto, GroupTypeOK, InGroup
<1>19. ASSUME NEW k \in Kid, Fork(c, k)
      PROVE  GroupTypeOK'
  <2>1. kid' \in [Caller -> [Kid -> KidState]]
    BY <1>19, Becoming DEF Fork, GroupTypeOK, KidState
  <2>2. newborn' \in [Caller -> SUBSET Kid]
    BY <1>19 DEF Fork, GroupTypeOK
  <2> QED
    BY <1>19, <2>1, <2>2 DEF Fork, GroupTypeOK, KidState
<1>20. ASSUME NEW k \in Kid, KidLeaves(c, k)
      PROVE  GroupTypeOK'
  <2>1. kid' \in [Caller -> [Kid -> KidState]]
    BY <1>20, Becoming DEF KidLeaves, GroupTypeOK, KidState
  <2> QED
    BY <1>20, <2>1 DEF KidLeaves, GroupTypeOK, KidState
<1> QED
  BY <1>1, <1>2, <1>3, <1>4, <1>5, <1>6, <1>7, <1>8, <1>9, <1>10, <1>11, <1>12, <1>13, <1>14,
     <1>15, <1>16, <1>17, <1>18, <1>19, <1>20
     DEF CallStep, Runner, Command

Apart(d) ==
  /\ gpc'[d] = gpc[d] /\ leader'[d] = leader[d] /\ status'[d] = status[d] /\ kid'[d] = kid[d]
  /\ listed'[d] = listed[d] /\ look'[d] = look[d] /\ stranger'[d] = stranger[d]
  /\ newborn'[d] = newborn[d] /\ verdict'[d] = verdict[d]

\* Calls do not touch one another.
LEMMA CallsApart ==
  ASSUME GroupTypeOK, NEW c \in Caller, CallStep(c)
  PROVE  \A d \in Caller : d # c => Apart(d)
<1>1. CASE LeaderExits(c)
  BY <1>1 DEF LeaderExits, Goto, GroupTypeOK, Apart
<1>2. CASE IdReused(c)
  BY <1>2 DEF IdReused, Goto, GroupTypeOK, Apart
<1>3. CASE Launch(c)
  BY <1>3 DEF Launch, Goto, GroupTypeOK, Apart
<1>4. CASE Exited(c)
  BY <1>4 DEF Exited, Goto, GroupTypeOK, Apart
<1>5. CASE Drained(c)
  BY <1>5 DEF Drained, Goto, GroupTypeOK, Apart
<1>6. CASE TimesOut(c)
  BY <1>6 DEF TimesOut, Goto, GroupTypeOK, Apart
<1>7. CASE Interrupted(c) \/ Abandoned(c)
  BY <1>7 DEF Interrupted, Abandoned, Goto, GroupTypeOK, Apart
<1>8. CASE Term(c)
  BY <1>8, Signals DEF Term, SignalGroup, Goto, GroupTypeOK, KidState, Apart
<1>9. CASE Await(c)
  BY <1>9, Signals DEF Await, SignalGroup, Goto, GroupTypeOK, KidState, Apart
<1>10. CASE List(c)
  BY <1>10 DEF List, Goto, GroupTypeOK, Apart
<1>11. CASE Read(c)
  BY <1>11 DEF Read, Goto, GroupTypeOK, Apart
<1>12. CASE NobodySeen(c)
  BY <1>12 DEF NobodySeen, Goto, GroupTypeOK, Apart
<1>13. CASE Signal(c)
  BY <1>13, Signals DEF Signal, SignalGroup, Goto, GroupTypeOK, KidState, Apart
<1>14. CASE Settle(c)
  BY <1>14 DEF Settle, Goto, GroupTypeOK, Apart
<1>15. CASE StopCapture(c)
  BY <1>15 DEF StopCapture, Goto, GroupTypeOK, Apart
<1>16. CASE Reap(c)
  BY <1>16 DEF Reap, Goto, GroupTypeOK, Apart
<1>17. CASE Complete(c)
  BY <1>17 DEF Complete, Goto, GroupTypeOK, Apart
<1>18. CASE Dies(c)
  BY <1>18 DEF Dies, Goto, GroupTypeOK, Apart
<1>19. ASSUME NEW k \in Kid, Fork(c, k)
      PROVE  \A d \in Caller : d # c => Apart(d)
  BY <1>19 DEF Fork, Become, Goto, GroupTypeOK, Apart
<1>20. ASSUME NEW k \in Kid, KidLeaves(c, k)
      PROVE  \A d \in Caller : d # c => Apart(d)
  BY <1>20 DEF KidLeaves, Become, Goto, GroupTypeOK, Apart
<1> QED
  BY <1>1, <1>2, <1>3, <1>4, <1>5, <1>6, <1>7, <1>8, <1>9, <1>10, <1>11, <1>12, <1>13, <1>14,
     <1>15, <1>16, <1>17, <1>18, <1>19, <1>20
     DEF CallStep, Runner, Command

\* Every step of a call keeps what is known of its group: who is alive was listed by the
\* look under way, or was born since.
LEMMA GroupMoves ==
  ASSUME GroupTypeOK, NEW c \in Caller, GroupOK(c), CallStep(c)
  PROVE  GroupOK(c)'
<1>1. CASE LeaderExits(c)
  BY <1>1 DEF LeaderExits, Goto, GroupTypeOK, GroupOK, InGroup
<1>2. CASE IdReused(c)
  BY <1>2 DEF IdReused, Goto, GroupTypeOK, GroupOK, InGroup
<1>3. CASE Launch(c)
  BY <1>3 DEF Launch, Goto, GroupTypeOK, GroupOK, InGroup
<1>4. CASE Exited(c)
  BY <1>4 DEF Exited, Goto, GroupTypeOK, GroupOK, InGroup
<1>5. CASE Drained(c)
  BY <1>5 DEF Drained, Goto, GroupTypeOK, GroupOK, InGroup
<1>6. CASE TimesOut(c)
  BY <1>6 DEF TimesOut, Goto, GroupTypeOK, GroupOK, InGroup
<1>7. CASE Interrupted(c) \/ Abandoned(c)
  BY <1>7 DEF Interrupted, Abandoned, Goto, GroupTypeOK, GroupOK, InGroup
<1>8. CASE Term(c)
  BY <1>8, Signals DEF Term, SignalGroup, Goto, GroupTypeOK, KidState, GroupOK, InGroup
<1>9. CASE Await(c)
  BY <1>9, Signals DEF Await, SignalGroup, Goto, GroupTypeOK, KidState, GroupOK, InGroup
<1>10. CASE List(c)
  BY <1>10 DEF List, Goto, GroupTypeOK, GroupOK, InGroup
<1>11. CASE Read(c)
  BY <1>11 DEF Read, Goto, GroupTypeOK, GroupOK, InGroup
<1>12. CASE NobodySeen(c)
  BY <1>12 DEF NobodySeen, Goto, GroupTypeOK, GroupOK, InGroup
<1>13. CASE Signal(c)
  BY <1>13, Signals DEF Signal, SignalGroup, Goto, GroupTypeOK, KidState, GroupOK, InGroup
<1>14. CASE Settle(c)
  BY <1>14 DEF Settle, Goto, GroupTypeOK, GroupOK, InGroup
<1>15. CASE StopCapture(c)
  BY <1>15 DEF StopCapture, Goto, GroupTypeOK, GroupOK, InGroup
<1>16. CASE Reap(c)
  BY <1>16 DEF Reap, Goto, GroupTypeOK, GroupOK, InGroup
<1>17. CASE Complete(c)
  BY <1>17 DEF Complete, Goto, GroupTypeOK, GroupOK, InGroup
<1>18. CASE Dies(c)
  BY <1>18 DEF Dies, Goto, GroupTypeOK, GroupOK, InGroup
<1>19. ASSUME NEW k \in Kid, Fork(c, k)
      PROVE  GroupOK(c)'
  BY <1>19 DEF Fork, Become, Goto, GroupTypeOK, GroupOK, InGroup
<1>20. ASSUME NEW k \in Kid, KidLeaves(c, k)
      PROVE  GroupOK(c)'
  BY <1>20 DEF KidLeaves, Become, Goto, GroupTypeOK, GroupOK, InGroup
<1> QED
  BY <1>1, <1>2, <1>3, <1>4, <1>5, <1>6, <1>7, <1>8, <1>9, <1>10, <1>11, <1>12, <1>13, <1>14,
     <1>15, <1>16, <1>17, <1>18, <1>19, <1>20
     DEF CallStep, Runner, Command

\* As long as its leader is not reaped, nobody else can have a call's id.
LEMMA NobodyHurt ==
  ASSUME GroupTypeOK, NEW c \in Caller, GroupOK(c), hurt = {}, CallStep(c)
  PROVE  hurt' = {}
<1>1. CASE LeaderExits(c)
  BY <1>1 DEF LeaderExits, GroupTypeOK
<1>2. CASE IdReused(c)
  BY <1>2 DEF IdReused, GroupTypeOK
<1>3. CASE Launch(c)
  BY <1>3 DEF Launch, GroupTypeOK
<1>4. CASE Exited(c)
  BY <1>4 DEF Exited, GroupTypeOK
<1>5. CASE Drained(c)
  BY <1>5 DEF Drained, GroupTypeOK
<1>6. CASE TimesOut(c)
  BY <1>6 DEF TimesOut, GroupTypeOK
<1>7. CASE Interrupted(c) \/ Abandoned(c)
  BY <1>7 DEF Interrupted, Abandoned, GroupTypeOK
<1>8. CASE Term(c)
  BY <1>8, Signals DEF Term, SignalGroup, GroupOK
<1>9. CASE Await(c)
  BY <1>9, Signals DEF Await, SignalGroup, GroupOK
<1>10. CASE List(c)
  BY <1>10 DEF List, GroupTypeOK
<1>11. CASE Read(c)
  BY <1>11 DEF Read, GroupTypeOK
<1>12. CASE NobodySeen(c)
  BY <1>12 DEF NobodySeen, GroupTypeOK
<1>13. CASE Signal(c)
  BY <1>13, Signals DEF Signal, SignalGroup, GroupOK
<1>14. CASE Settle(c)
  BY <1>14 DEF Settle, GroupTypeOK
<1>15. CASE StopCapture(c)
  BY <1>15 DEF StopCapture, GroupTypeOK
<1>16. CASE Reap(c)
  BY <1>16 DEF Reap, GroupTypeOK
<1>17. CASE Complete(c)
  BY <1>17 DEF Complete, GroupTypeOK
<1>18. CASE Dies(c)
  BY <1>18 DEF Dies, GroupTypeOK
<1>19. ASSUME NEW k \in Kid, Fork(c, k)
      PROVE  hurt' = {}
  BY <1>19 DEF Fork, Become, GroupTypeOK
<1>20. ASSUME NEW k \in Kid, KidLeaves(c, k)
      PROVE  hurt' = {}
  BY <1>20 DEF KidLeaves, Become, GroupTypeOK
<1> QED
  BY <1>1, <1>2, <1>3, <1>4, <1>5, <1>6, <1>7, <1>8, <1>9, <1>10, <1>11, <1>12, <1>13, <1>14,
     <1>15, <1>16, <1>17, <1>18, <1>19, <1>20
     DEF CallStep, Runner, Command

-----------------------------------------------------------------------------
(* The cache. *)

Starts(b) ==
  /\ bpc[b] = "compile" /\ To(b, "compiling")
  /\ UNCHANGED << lock, entry, out, source, cut, kills >>

CacheMove(b) ==
  CacheStep(b) \/ Aborted(b) \/ BuilderKilled(b) \/ Starts(b) \/ \E s \in BOOLEAN : Compiled(b, s)

\* Every step of a builder keeps the types.
LEMMA CacheTypes ==
  ASSUME CacheTypeOK, NEW b \in Builder, CacheMove(b)
  PROVE  CacheTypeOK'
<1> USE CacheAssumption
<1>1. CASE BeginRestore(b)
  BY <1>1 DEF BeginRestore, Lock, To, CacheTypeOK
<1>2. CASE Miss(b)
  BY <1>2 DEF Miss, Unlock, To, CacheTypeOK
<1>3. CASE Hit(b)
  BY <1>3 DEF Hit, To, CacheTypeOK
<1>4. CASE Restored(b)
  BY <1>4 DEF Restored, Unlock, To, CacheTypeOK
<1>5. CASE Refuse(b)
  BY <1>5 DEF Refuse, Unlock, To, CacheTypeOK
<1>6. CASE BeginRemove(b)
  BY <1>6 DEF BeginRemove, To, CacheTypeOK
<1>7. CASE Removed(b)
  BY <1>7 DEF Removed, Unlock, To, CacheTypeOK
<1>8. CASE BeginStore(b)
  BY <1>8 DEF BeginStore, Lock, To, CacheTypeOK
<1>9. CASE Keep(b)
  BY <1>9 DEF Keep, Unlock, To, CacheTypeOK
<1>10. CASE Stage(b)
  BY <1>10 DEF Stage, To, CacheTypeOK
<1>11. CASE Publish(b)
  BY <1>11 DEF Publish, Unlock, To, CacheTypeOK
<1>12. CASE BuilderKilled(b) \/ Aborted(b)
  BY <1>12 DEF BuilderKilled, Aborted, CutShort, To, CacheTypeOK
<1>13. CASE Starts(b)
  BY <1>13 DEF Starts, To, CacheTypeOK
<1>14. ASSUME NEW s \in BOOLEAN, Compiled(b, s)
      PROVE  CacheTypeOK'
  BY <1>14 DEF Compiled, To, CacheTypeOK
<1> QED
  BY <1>1, <1>2, <1>3, <1>4, <1>5, <1>6, <1>7, <1>8, <1>9, <1>10, <1>11, <1>12, <1>13, <1>14
     DEF CacheMove, CacheStep

\* Who holds the lock is alone with the entry.
LEMMA LockMoves ==
  ASSUME CacheTypeOK, NEW b \in Builder, \A d \in Builder : CacheOK(d), CacheMove(b)
  PROVE  \A d \in Builder : CacheOK(d)'
<1> USE CacheAssumption
<1>1. CASE BeginRestore(b)
  BY <1>1 DEF BeginRestore, Lock, To, CacheTypeOK, CacheOK, Locked
<1>2. CASE Miss(b)
  BY <1>2 DEF Miss, Unlock, To, CacheTypeOK, CacheOK, Locked
<1>3. CASE Hit(b)
  BY <1>3 DEF Hit, To, CacheTypeOK, CacheOK, Locked
<1>4. CASE Restored(b)
  BY <1>4 DEF Restored, Unlock, To, CacheTypeOK, CacheOK, Locked
<1>5. CASE Refuse(b)
  BY <1>5 DEF Refuse, Unlock, To, CacheTypeOK, CacheOK, Locked
<1>6. CASE BeginRemove(b)
  BY <1>6 DEF BeginRemove, To, CacheTypeOK, CacheOK, Locked
<1>7. CASE Removed(b)
  BY <1>7 DEF Removed, Unlock, To, CacheTypeOK, CacheOK, Locked
<1>8. CASE BeginStore(b)
  BY <1>8 DEF BeginStore, Lock, To, CacheTypeOK, CacheOK, Locked
<1>9. CASE Keep(b)
  BY <1>9 DEF Keep, Unlock, To, CacheTypeOK, CacheOK, Locked
<1>10. CASE Stage(b)
  BY <1>10 DEF Stage, To, CacheTypeOK, CacheOK, Locked
<1>11. CASE Publish(b)
  BY <1>11 DEF Publish, Unlock, To, CacheTypeOK, CacheOK, Locked
<1>12. CASE BuilderKilled(b) \/ Aborted(b)
  BY <1>12 DEF BuilderKilled, Aborted, CutShort, To, CacheTypeOK, CacheOK, Locked
<1>13. CASE Starts(b)
  BY <1>13 DEF Starts, To, CacheTypeOK, CacheOK, Locked
<1>14. ASSUME NEW s \in BOOLEAN, Compiled(b, s)
      PROVE  \A d \in Builder : CacheOK(d)'
  BY <1>14 DEF Compiled, To, CacheTypeOK, CacheOK, Locked
<1> QED
  BY <1>1, <1>2, <1>3, <1>4, <1>5, <1>6, <1>7, <1>8, <1>9, <1>10, <1>11, <1>12, <1>13, <1>14
     DEF CacheMove, CacheStep

\* There is an old entry only when there was one at first.
LEMMA EntryMoves ==
  ASSUME CacheTypeOK, NEW b \in Builder, CacheInv, CacheMove(b)
  PROVE  EntryOK'
<1> USE CacheAssumption
<1>1. CASE BeginRestore(b)
  BY <1>1 DEF BeginRestore, Lock, To, CacheTypeOK, CacheOK, Locked, CacheInv, EntryOK
<1>2. CASE Miss(b)
  BY <1>2 DEF Miss, Unlock, To, CacheTypeOK, CacheOK, Locked, CacheInv, EntryOK
<1>3. CASE Hit(b)
  BY <1>3 DEF Hit, To, CacheTypeOK, CacheOK, Locked, CacheInv, EntryOK
<1>4. CASE Restored(b)
  BY <1>4 DEF Restored, Unlock, To, CacheTypeOK, CacheOK, Locked, CacheInv, EntryOK
<1>5. CASE Refuse(b)
  BY <1>5 DEF Refuse, Unlock, To, CacheTypeOK, CacheOK, Locked, CacheInv, EntryOK
<1>6. CASE BeginRemove(b)
  BY <1>6 DEF BeginRemove, To, CacheTypeOK, CacheOK, Locked, CacheInv, EntryOK
<1>7. CASE Removed(b)
  BY <1>7 DEF Removed, Unlock, To, CacheTypeOK, CacheOK, Locked, CacheInv, EntryOK
<1>8. CASE BeginStore(b)
  BY <1>8 DEF BeginStore, Lock, To, CacheTypeOK, CacheOK, Locked, CacheInv, EntryOK
<1>9. CASE Keep(b)
  BY <1>9 DEF Keep, Unlock, To, CacheTypeOK, CacheOK, Locked, CacheInv, EntryOK
<1>10. CASE Stage(b)
  BY <1>10 DEF Stage, To, CacheTypeOK, CacheOK, Locked, CacheInv, EntryOK
<1>11. CASE Publish(b)
  BY <1>11 DEF Publish, Unlock, To, CacheTypeOK, CacheOK, Locked, CacheInv, EntryOK
<1>12. CASE BuilderKilled(b) \/ Aborted(b)
  BY <1>12 DEF BuilderKilled, Aborted, CutShort, To, CacheTypeOK, CacheOK, Locked, CacheInv, EntryOK
<1>13. CASE Starts(b)
  BY <1>13 DEF Starts, To, CacheTypeOK, CacheOK, Locked, CacheInv, EntryOK
<1>14. ASSUME NEW s \in BOOLEAN, Compiled(b, s)
      PROVE  EntryOK'
  BY <1>14 DEF Compiled, To, CacheTypeOK, CacheOK, Locked, CacheInv, EntryOK
<1> QED
  BY <1>1, <1>2, <1>3, <1>4, <1>5, <1>6, <1>7, <1>8, <1>9, <1>10, <1>11, <1>12, <1>13, <1>14
     DEF CacheMove, CacheStep

\* What is copied is complete, and an entry becomes broken only while an old one is removed
\* under the lock; it stays so when the removal is cut short.
LEMMA WholeMoves ==
  ASSUME CacheTypeOK, NEW b \in Builder, CacheInv, CacheMove(b)
  PROVE  EntryIsWhole'
<1> USE CacheAssumption
<1>1. CASE BeginRestore(b)
  BY <1>1 DEF BeginRestore, Lock, To, CacheTypeOK, CacheOK, Locked, CacheInv, EntryOK, EntryIsWhole
<1>2. CASE Miss(b)
  BY <1>2 DEF Miss, Unlock, To, CacheTypeOK, CacheOK, Locked, CacheInv, EntryOK, EntryIsWhole
<1>3. CASE Hit(b)
  BY <1>3 DEF Hit, To, CacheTypeOK, CacheOK, Locked, CacheInv, EntryOK, EntryIsWhole
<1>4. CASE Restored(b)
  BY <1>4 DEF Restored, Unlock, To, CacheTypeOK, CacheOK, Locked, CacheInv, EntryOK, EntryIsWhole
<1>5. CASE Refuse(b)
  BY <1>5 DEF Refuse, Unlock, To, CacheTypeOK, CacheOK, Locked, CacheInv, EntryOK, EntryIsWhole
<1>6. CASE BeginRemove(b)
  BY <1>6 DEF BeginRemove, To, CacheTypeOK, CacheOK, Locked, CacheInv, EntryOK, EntryIsWhole
<1>7. CASE Removed(b)
  BY <1>7 DEF Removed, Unlock, To, CacheTypeOK, CacheOK, Locked, CacheInv, EntryOK, EntryIsWhole
<1>8. CASE BeginStore(b)
  BY <1>8 DEF BeginStore, Lock, To, CacheTypeOK, CacheOK, Locked, CacheInv, EntryOK, EntryIsWhole
<1>9. CASE Keep(b)
  BY <1>9 DEF Keep, Unlock, To, CacheTypeOK, CacheOK, Locked, CacheInv, EntryOK, EntryIsWhole
<1>10. CASE Stage(b)
  BY <1>10 DEF Stage, To, CacheTypeOK, CacheOK, Locked, CacheInv, EntryOK, EntryIsWhole
<1>11. CASE Publish(b)
  BY <1>11 DEF Publish, Unlock, To, CacheTypeOK, CacheOK, Locked, CacheInv, EntryOK, EntryIsWhole
<1>12. CASE BuilderKilled(b) \/ Aborted(b)
  BY <1>12 DEF BuilderKilled, Aborted, CutShort, To, CacheTypeOK, CacheOK, Locked, CacheInv, EntryOK, EntryIsWhole
<1>13. CASE Starts(b)
  BY <1>13 DEF Starts, To, CacheTypeOK, CacheOK, Locked, CacheInv, EntryOK, EntryIsWhole
<1>14. ASSUME NEW s \in BOOLEAN, Compiled(b, s)
      PROVE  EntryIsWhole'
  BY <1>14 DEF Compiled, To, CacheTypeOK, CacheOK, Locked, CacheInv, EntryOK, EntryIsWhole
<1> QED
  BY <1>1, <1>2, <1>3, <1>4, <1>5, <1>6, <1>7, <1>8, <1>9, <1>10, <1>11, <1>12, <1>13, <1>14
     DEF CacheMove, CacheStep

\* Nobody who holds the lock of a complete entry touches it.
LEMMA EntryStays ==
  ASSUME CacheTypeOK, NEW b \in Builder, CacheInv, entry = "good", CacheMove(b)
  PROVE  entry' = "good" /\ source' = source
<1> USE CacheAssumption
<1>1. CASE BeginRestore(b)
  BY <1>1 DEF BeginRestore, Lock, CacheOK, CacheInv
<1>2. CASE Miss(b)
  BY <1>2 DEF Miss, Unlock, CacheOK, CacheInv
<1>3. CASE Hit(b)
  BY <1>3 DEF Hit, CacheOK, CacheInv
<1>4. CASE Restored(b)
  BY <1>4 DEF Restored, Unlock, CacheOK, CacheInv
<1>5. CASE Refuse(b)
  BY <1>5 DEF Refuse, Unlock, CacheOK, CacheInv
<1>6. CASE BeginRemove(b)
  BY <1>6 DEF BeginRemove, CacheOK, CacheInv
<1>7. CASE Removed(b)
  BY <1>7 DEF Removed, Unlock, CacheOK, CacheInv
<1>8. CASE BeginStore(b)
  BY <1>8 DEF BeginStore, Lock, CacheOK, CacheInv
<1>9. CASE Keep(b)
  BY <1>9 DEF Keep, Unlock, CacheOK, CacheInv
<1>10. CASE Stage(b)
  BY <1>10 DEF Stage, CacheOK, CacheInv
<1>11. CASE Publish(b)
  BY <1>11 DEF Publish, Unlock, CacheOK, CacheInv
<1>12. CASE BuilderKilled(b) \/ Aborted(b)
  BY <1>12 DEF BuilderKilled, Aborted, CutShort, CacheOK, CacheInv
<1>13. CASE Starts(b)
  BY <1>13 DEF Starts, CacheOK, CacheInv
<1>14. ASSUME NEW s \in BOOLEAN, Compiled(b, s)
      PROVE  entry' = "good" /\ source' = source
  BY <1>14 DEF Compiled, CacheOK, CacheInv
<1> QED
  BY <1>1, <1>2, <1>3, <1>4, <1>5, <1>6, <1>7, <1>8, <1>9, <1>10, <1>11, <1>12, <1>13, <1>14
     DEF CacheMove, CacheStep

-----------------------------------------------------------------------------
(* The composition. *)

\* A step is one of a call, of the cache, or of both where they meet.
Move(b) ==
  \/ CallStep(b) /\ UNCHANGED cache
  \/ CacheMove(b) /\ UNCHANGED group
  \/ CallStep(b) /\ Starts(b)
  \/ Dies(b) /\ BuilderKilled(b)

LEMMA NextIsMove ==
  ASSUME [Next]_vars
  PROVE  UNCHANGED vars \/ \E b \in Builder : Move(b)
<1>1. CASE UNCHANGED vars
  BY <1>1
<1>2. ASSUME NEW b \in Builder, BeginCompile(b)
      PROVE  CallStep(b) /\ Starts(b)
  BY <1>2 DEF BeginCompile, CallStep, Starts
<1>3. ASSUME NEW b \in Builder, EndCompile(b)
      PROVE  CacheMove(b) /\ UNCHANGED group
  <2>1. (verdict[b] = "completed" /\ status[b] = 0) \in BOOLEAN
    OBVIOUS
  <2> QED
    BY <1>3, <2>1 DEF EndCompile, CacheMove
<1>4. ASSUME NEW b \in Builder, Kill(b)
      PROVE  Dies(b) /\ BuilderKilled(b)
  BY <1>4 DEF Kill, Dies
<1>5. ASSUME NEW b \in Builder, CacheStep(b) \/ Aborted(b), UNCHANGED group
      PROVE  CacheMove(b)
  BY <1>5 DEF CacheMove
<1>6. ASSUME NEW b \in Builder, Runner(b) \/ Interrupted(b) \/ Abandoned(b) \/ Command(b), UNCHANGED cache
      PROVE  CallStep(b)
  BY <1>6 DEF CallStep
<1>7. ASSUME Next
      PROVE  \E b \in Builder : Move(b)
  <2>1. PICK b \in Builder : \/ Build(b)
                             \/ (Interrupted(b) \/ Abandoned(b) \/ Command(b)) /\ UNCHANGED cache
                             \/ Aborted(b) /\ UNCHANGED group
                             \/ Kill(b)
    BY <1>7 DEF Next
  <2>2. Move(b)
    BY <2>1, <1>2, <1>3, <1>4, <1>5, <1>6 DEF Build, Move
  <2> QED
    BY <2>1, <2>2
<1> QED
  BY <1>1, <1>7

\* The types, through any step.
LEMMA TypeStep ==
  ASSUME TypeOK, [Next]_vars
  PROVE  TypeOK'
<1> USE SameCallers
<1>1. CASE UNCHANGED vars
  BY <1>1 DEF vars, cache, group, TypeOK, CacheTypeOK, GroupTypeOK
<1>2. ASSUME NEW b \in Builder, CallStep(b)
      PROVE  GroupTypeOK'
  BY <1>2, GroupTypes DEF TypeOK
<1>3. ASSUME NEW b \in Builder, CacheMove(b)
      PROVE  CacheTypeOK'
  BY <1>3, CacheTypes DEF TypeOK
<1>4. UNCHANGED cache => CacheTypeOK'
  BY DEF cache, TypeOK, CacheTypeOK
<1>5. UNCHANGED group => GroupTypeOK'
  BY DEF group, TypeOK, GroupTypeOK
<1> QED
  BY <1>1, <1>2, <1>3, <1>4, <1>5, NextIsMove DEF Move, TypeOK, CallStep, CacheMove

\* The groups, through any step.
LEMMA GroupStep ==
  ASSUME TypeOK, GroupInv, [Next]_vars
  PROVE  GroupInv'
<1> USE SameCallers
<1>1. CASE UNCHANGED group
  BY <1>1 DEF group, GroupInv, GroupOK, InGroup, NoStrangerSignalled
<1>2. ASSUME NEW c \in Caller, CallStep(c)
      PROVE  GroupInv'
  <2>1. ASSUME NEW d \in Caller, d # c
        PROVE  GroupOK(d)'
    <3>1. Apart(d) /\ GroupOK(d)
      BY <1>2, <2>1, CallsApart DEF GroupInv, TypeOK
    <3> QED
      BY <3>1 DEF Apart, GroupOK, InGroup
  <2>2. GroupOK(c)'
    BY <1>2, GroupMoves DEF GroupInv, TypeOK
  <2>3. hurt' = {}
    BY <1>2, NobodyHurt DEF GroupInv, TypeOK, NoStrangerSignalled
  <2> QED
    BY <2>1, <2>2, <2>3 DEF GroupInv, NoStrangerSignalled
<1> QED
  BY <1>1, <1>2, NextIsMove DEF Move, vars, CallStep

\* The cache, through any step.
LEMMA CacheInvStep ==
  ASSUME TypeOK, CacheInv, [Next]_vars
  PROVE  CacheInv'
<1>1. CASE UNCHANGED cache
  BY <1>1 DEF cache, CacheInv, CacheOK, EntryOK, EntryIsWhole
<1>2. ASSUME NEW b \in Builder, CacheMove(b)
      PROVE  CacheInv'
  <2>1. (\A d \in Builder : CacheOK(d)') /\ EntryOK'
    BY <1>2, LockMoves, EntryMoves DEF TypeOK, CacheInv
  <2>2. EntryIsWhole'
    BY <1>2, WholeMoves DEF TypeOK
  <2> QED
    BY <2>1, <2>2 DEF CacheInv
<1> QED
  BY <1>1, <1>2, NextIsMove DEF Move, vars, CacheMove

\* What a call has settled for good: that its leader is reaped, and the leader's status.
LEMMA SettledStays ==
  ASSUME TypeOK, GroupInv, [Next]_vars, NEW d \in Builder, leader[d] = "reaped"
  PROVE  leader'[d] = "reaped" /\ status'[d] = status[d]
<1> USE SameCallers
<1>1. CASE UNCHANGED group
  BY <1>1 DEF group
<1>2. ASSUME NEW c \in Caller, CallStep(c), c # d
      PROVE  Apart(d)
  BY <1>2, CallsApart DEF TypeOK
<1>3. CASE CallStep(d)
  <2>0. gpc[d] \in {"reaped", "term", "await", "returned", "dead"}
    BY DEF GroupInv, GroupOK
  <2> USE DEF Goto, TypeOK, GroupTypeOK
  <2>1. CASE LeaderExits(d)
    BY <2>0, <2>1 DEF LeaderExits
  <2>2. CASE IdReused(d)
    BY <2>0, <2>2 DEF IdReused
  <2>3. CASE Launch(d)
    BY <2>0, <2>3 DEF Launch
  <2>4. CASE Exited(d)
    BY <2>0, <2>4 DEF Exited
  <2>5. CASE Drained(d)
    BY <2>0, <2>5 DEF Drained
  <2>6. CASE TimesOut(d)
    BY <2>0, <2>6 DEF TimesOut
  <2>7. CASE Interrupted(d) \/ Abandoned(d)
    BY <2>0, <2>7 DEF Interrupted, Abandoned
  <2>8. CASE Term(d)
    BY <2>0, <2>8 DEF Term
  <2>9. CASE Await(d)
    BY <2>0, <2>9 DEF Await
  <2>10. CASE List(d)
    BY <2>0, <2>10 DEF List
  <2>11. CASE Read(d)
    BY <2>0, <2>11 DEF Read
  <2>12. CASE NobodySeen(d)
    BY <2>0, <2>12 DEF NobodySeen
  <2>13. CASE Signal(d)
    BY <2>0, <2>13 DEF Signal
  <2>14. CASE Settle(d)
    BY <2>0, <2>14 DEF Settle
  <2>15. CASE StopCapture(d)
    BY <2>0, <2>15 DEF StopCapture
  <2>16. CASE Reap(d)
    BY <2>0, <2>16 DEF Reap
  <2>17. CASE Complete(d)
    BY <2>0, <2>17 DEF Complete
  <2>18. CASE Dies(d)
    BY <2>0, <2>18 DEF Dies
  <2>19. ASSUME NEW k \in Kid, Fork(d, k)
        PROVE  leader'[d] = "reaped" /\ status'[d] = status[d]
    BY <2>0, <2>19 DEF Fork
  <2>20. ASSUME NEW k \in Kid, KidLeaves(d, k)
        PROVE  leader'[d] = "reaped" /\ status'[d] = status[d]
    BY <2>0, <2>20 DEF KidLeaves
  <2> QED
    BY <1>3, <2>1, <2>2, <2>3, <2>4, <2>5, <2>6, <2>7, <2>8, <2>9, <2>10, <2>11, <2>12, <2>13,
       <2>14, <2>15, <2>16, <2>17, <2>18, <2>19, <2>20
       DEF CallStep, Runner, Command
<1> QED
  BY <1>1, <1>2, <1>3, NextIsMove DEF Move, vars, CallStep, Apart

\* What is about to be stored was built by its own builder, through any step.
LEMMA BuildStep ==
  ASSUME TypeOK, GroupInv, CacheInv, BuildInv, [Next]_vars
  PROVE  BuildInv'
<1> USE SameCallers, CacheAssumption
<1>1. ASSUME NEW d \in Builder, Built(d)
      PROVE  Built(d)'
  BY <1>1, SettledStays DEF Built
<1>2. source # NoOne => source \in Builder
  BY DEF TypeOK, CacheTypeOK
<1>3. CASE UNCHANGED cache
  BY <1>1, <1>2, <1>3 DEF cache, BuildInv
<1>4. ASSUME NEW b \in Builder, CacheMove(b), BeginCompile(b) \/ EndCompile(b) \/ Kill(b) \/ Aborted(b) \/ CacheStep(b)
      PROVE  BuildInv'
  <2>1. entry = "good" => entry' = "good" /\ source' = source
    BY <1>4, EntryStays DEF TypeOK
  <2> DEFINE Storing == {"store", "storing", "replacing", "staging"}
  <2>2. ASSUME NEW d \in Builder, d # b
        PROVE  bpc'[d] = bpc[d]
    BY <1>4, <2>2 DEF CacheMove, CacheStep, BeginRestore, Miss, Hit, Restored, Refuse,
       BeginRemove,
       Removed, BeginStore, Keep, Stage, Publish, BuilderKilled, Aborted, CutShort, Starts, Compiled, To, TypeOK, CacheTypeOK
  <2>3. bpc'[b] \in Storing => bpc[b] \in Storing \/ entry = "good" \/ Built(b)
    <3>1. CASE EndCompile(b)
      BY <3>1 DEF EndCompile, Compiled, To, TypeOK, CacheTypeOK, GroupInv, GroupOK, Built
    <3>2. CASE BeginCompile(b) \/ Kill(b) \/ Aborted(b)
      BY <3>2 DEF BeginCompile, Kill, BuilderKilled, Aborted, CutShort, To, TypeOK, CacheTypeOK
    <3>3. CASE CacheStep(b)
      BY <3>3 DEF CacheStep, Aborted, CutShort, BeginRestore, Miss, Hit, Restored, Refuse, BeginRemove, Removed,
         BeginStore,
         Keep, Stage, Publish, To, TypeOK, CacheTypeOK, CacheInv, CacheOK, EntryIsWhole
    <3> QED
      BY <1>4, <3>1, <3>2, <3>3
  <2>4. source' = source \/ (source' = b /\ bpc[b] = "staging" /\ entry = "none")
    BY <1>4 DEF CacheMove, CacheStep, BeginRestore, Miss, Hit, Restored, Refuse, BeginRemove,
       Removed, BeginStore, Keep, Stage, Publish, BuilderKilled, Aborted, CutShort, Starts, Compiled, CacheInv, CacheOK
  <2>5. ASSUME NEW d \in Builder, bpc'[d] \in Storing
        PROVE  entry' = "good" \/ Built(d)'
    <3>1. entry = "good" \/ Built(d)
      BY <2>2, <2>3, <2>5 DEF BuildInv
    <3> QED
      BY <3>1, <2>1, <1>1
  <2>6. source' # NoOne => Built(source)'
    <3>1. CASE source' = source
      <4>1. source # NoOne => Built(source) /\ source \in Builder
        BY <1>2 DEF BuildInv
      <4>2. source # NoOne => leader'[source] = "reaped" /\ status'[source] = 0
        BY <4>1, <1>1 DEF Built
      <4> QED
        BY <3>1, <4>2 DEF Built
    <3>2. CASE source' = b /\ bpc[b] = "staging" /\ entry = "none"
      <4>1. Built(b)
        BY <3>2 DEF BuildInv
      <4>2. leader'[b] = "reaped" /\ status'[b] = 0
        BY <4>1, <1>1 DEF Built
      <4> QED
        BY <3>2, <4>2 DEF Built
    <3> QED
      BY <2>4, <3>1, <3>2
  <2> QED
    BY <2>5, <2>6 DEF BuildInv
<1>5. ASSUME Next, ~ UNCHANGED cache
      PROVE  \E b \in Builder : CacheMove(b) /\ (BeginCompile(b) \/ EndCompile(b) \/ Kill(b) \/ Aborted(b) \/ CacheStep(b))
  <2>1. PICK b \in Builder : BeginCompile(b) \/ EndCompile(b) \/ Kill(b) \/ Aborted(b) \/ CacheStep(b)
    BY <1>5 DEF Next, Build
  <2>2. (verdict[b] = "completed" /\ status[b] = 0) \in BOOLEAN
    OBVIOUS
  <2>3. CacheMove(b)
    BY <2>1, <2>2 DEF CacheMove, BeginCompile, EndCompile, Kill, Starts
  <2> QED
    BY <2>1, <2>3
<1> QED
  BY <1>3, <1>4, <1>5 DEF vars, cache

-----------------------------------------------------------------------------
(* The theorems. *)

LEMMA InitIInv == Init => IInv
<1> USE CacheAssumption
<1>1. Init => TypeOK
  BY DEF Init, CacheInit, GroupInit, TypeOK, CacheTypeOK, GroupTypeOK
<1>2. Init => GroupInv
  BY DEF Init, GroupInit, GroupInv, GroupOK, NoStrangerSignalled
<1>3. Init => CacheInv
  BY DEF Init, CacheInit, CacheInv, CacheOK, Locked, EntryOK, EntryIsWhole
<1>4. Init => BuildInv
  BY DEF Init, CacheInit, BuildInv
<1> QED
  BY <1>1, <1>2, <1>3, <1>4 DEF IInv

LEMMA StepIInv == IInv /\ [Next]_vars => IInv'
BY TypeStep, GroupStep, CacheInvStep, BuildStep DEF IInv

LEMMA AlwaysIInv == Spec => []IInv
BY InitIInv, StepIInv, PTL DEF Spec

\* The variables of the cache and of the runners hold what they may.
THEOREM TypeCorrect == Spec => []TypeOK
<1>1. IInv => TypeOK
  BY DEF IInv
<1> QED
  BY <1>1, AlwaysIInv, PTL

\* A call whose cleanup is not interrupted, however it ends, leaves nothing of its group but
\* what was forked under its last look.
THEOREM CallsCleanUp == Spec => []LeftIsNewborn
<1>1. IInv => LeftIsNewborn
  BY DEF IInv, GroupInv, GroupOK, LeftIsNewborn
<1> QED
  BY <1>1, AlwaysIInv, PTL

\* No signal reaches a group that took over the id of a reaped leader.
THEOREM StrangersAreSafe == Spec => []NoStrangerSignalled
<1>1. IInv => NoStrangerSignalled
  BY DEF IInv, GroupInv
<1> QED
  BY <1>1, AlwaysIInv, PTL

\* What is copied is complete to the end, and an entry without metadata is the work of a
\* removal, under way or cut short by an error, an interrupt or a kill.
THEOREM EntriesAreWhole == Spec => []EntryIsWhole
<1>1. IInv => EntryIsWhole
  BY DEF IInv, CacheInv
<1> QED
  BY <1>1, AlwaysIInv, PTL

\* What is published was compiled with success by a call that had cleaned up.
THEOREM PublishedAreBuilt == Spec => []PublishedIsBuilt
<1>1. ASSUME IInv, source # NoOne
      PROVE  InGroup(source) \subseteq newborn[source] /\ Built(source)
  <2>1. source \in Caller
    BY <1>1, SameCallers DEF IInv, TypeOK, CacheTypeOK
  <2>2. Built(source)
    BY <1>1 DEF IInv, BuildInv
  <2> QED
    BY <1>1, <2>1, <2>2 DEF IInv, GroupInv, GroupOK, Built
<1>2. IInv => PublishedIsBuilt
  BY <1>1 DEF PublishedIsBuilt, Built
<1> QED
  BY <1>2, AlwaysIInv, PTL

\* No builder that comes late removes or replaces what another published.
THEOREM PublishedStay == Spec => PublishedStays
<1>1. ASSUME IInv, [Next]_vars, entry = "good"
      PROVE  entry' = "good" /\ source' = source
  <2>1. CASE UNCHANGED cache
    BY <1>1, <2>1 DEF cache
  <2>2. ASSUME NEW b \in Builder, CacheMove(b)
        PROVE  entry' = "good" /\ source' = source
    BY <1>1, <2>2, EntryStays DEF IInv, TypeOK
  <2> QED
    BY <1>1, <2>1, <2>2, NextIsMove DEF Move, vars, CacheMove
<1>2. IInv /\ [Next]_vars => [entry = "good" => entry' = "good" /\ source' = source]_cache
  BY <1>1
<1> QED
  BY <1>2, AlwaysIInv, PTL DEF Spec, PublishedStays

-----------------------------------------------------------------------------
(* Where a call is, beside where its builder is. *)

Seen == {"drain", "list", "read", "signal", "settle", "stop", "reap"}

\* A runner is at work for a builder that is compiling, and for no other; once the exit of
\* its leader was seen, or forced, the leader is a zombie until the runner reaps it.
Placed(b) ==
  /\ gpc[b] \notin {"idle", "returned", "dead"} => bpc[b] = "compiling" /\ leader[b] # "none"
  /\ gpc[b] = "idle" => bpc[b] # "compiling"
  /\ gpc[b] = "dead" => bpc[b] = "killed"
  /\ bpc[b] \in {"start", "restore", "removing", "compile"} => gpc[b] = "idle"
  /\ gpc[b] \in Seen => leader[b] = "zombie"
PlacedInv == \A b \in Builder : Placed(b)


\* One step of the system is one of somebody's.
StepOf(b) ==
  \/ Build(b)
  \/ (Interrupted(b) \/ Abandoned(b) \/ Command(b)) /\ UNCHANGED cache
  \/ Aborted(b) /\ UNCHANGED group
  \/ Kill(b)

LEMMA StepIsMove ==
  ASSUME NEW b \in Builder, StepOf(b)
  PROVE  Move(b)
<1>1. ASSUME BeginCompile(b)
      PROVE  CallStep(b) /\ Starts(b)
  BY <1>1 DEF BeginCompile, CallStep, Starts
<1>2. ASSUME EndCompile(b)
      PROVE  CacheMove(b) /\ UNCHANGED group
  <2>1. (verdict[b] = "completed" /\ status[b] = 0) \in BOOLEAN
    OBVIOUS
  <2> QED
    BY <1>2, <2>1 DEF EndCompile, CacheMove
<1>3. ASSUME Kill(b)
      PROVE  Dies(b) /\ BuilderKilled(b)
  BY <1>3 DEF Kill, Dies
<1>4. ASSUME CacheStep(b) \/ Aborted(b)
      PROVE  CacheMove(b)
  BY <1>4 DEF CacheMove
<1>5. ASSUME Runner(b) \/ Interrupted(b) \/ Abandoned(b) \/ Command(b)
      PROVE  CallStep(b)
  BY <1>5 DEF CallStep
<1> QED
  BY <1>1, <1>2, <1>3, <1>4, <1>5 DEF StepOf, Build, Move

\* A step of one builder leaves the call of another alone, and its place in the build.
LEMMA PlacesApart ==
  ASSUME TypeOK, NEW b \in Builder, Move(b), NEW d \in Builder, d # b
  PROVE  Apart(d) /\ bpc'[d] = bpc[d]
<1> USE SameCallers
<1>1. ASSUME CallStep(b)
      PROVE  Apart(d)
  BY <1>1, CallsApart DEF TypeOK
<1>2. ASSUME CacheMove(b)
      PROVE  bpc'[d] = bpc[d]
  BY <1>2 DEF CacheMove, CacheStep, BuilderKilled, Aborted, CutShort, Starts, Compiled, BeginRestore, Miss, Hit,
              Restored, Refuse, BeginRemove, Removed, BeginStore, Keep, Stage, Publish, To,
              TypeOK, CacheTypeOK
<1>3. UNCHANGED group => Apart(d)
  BY DEF group, Apart
<1>4. UNCHANGED cache => bpc'[d] = bpc[d]
  BY DEF cache
<1> QED
  BY <1>1, <1>2, <1>3, <1>4 DEF Move, CallStep, CacheMove

\* A runner's own steps, and those of its command.
LEMMA RunnerPlaces ==
  ASSUME TypeOK, NEW b \in Builder, Placed(b), Runner(b) \/ Command(b) \/ Interrupted(b) \/ Abandoned(b),
         UNCHANGED cache
  PROVE  Placed(b)'
<1> USE SameCallers DEF cache, TypeOK, GroupTypeOK, Placed, Seen, Goto
<1>1. CASE LeaderExits(b) \/ IdReused(b) \/ \E k \in Kid : Fork(b, k) \/ KidLeaves(b, k)
  BY <1>1 DEF LeaderExits, IdReused, Fork, KidLeaves
<1>2. CASE Exited(b) \/ Drained(b) \/ TimesOut(b) \/ Interrupted(b) \/ Abandoned(b)
  BY <1>2 DEF Exited, Drained, TimesOut, Interrupted, Abandoned
<1>3. CASE Term(b)
  BY <1>3 DEF Term
<1>4. CASE Await(b)
  BY <1>4 DEF Await
<1>5. CASE List(b) \/ Read(b) \/ NobodySeen(b)
  BY <1>5 DEF List, Read, NobodySeen
<1>6. CASE Signal(b) \/ Settle(b) \/ StopCapture(b)
  BY <1>6 DEF Signal, Settle, StopCapture
<1>7. CASE Reap(b) \/ Complete(b)
  BY <1>7 DEF Reap, Complete
<1> QED
  BY <1>1, <1>2, <1>3, <1>4, <1>5, <1>6, <1>7 DEF Runner, Command

\* A builder's own steps.
LEMMA BuilderPlaces ==
  ASSUME TypeOK, NEW b \in Builder, Placed(b),
         BeginCompile(b) \/ EndCompile(b) \/ Kill(b) \/ ((CacheStep(b) \/ Aborted(b)) /\ UNCHANGED group)
  PROVE  Placed(b)'
<1> USE SameCallers DEF TypeOK, GroupTypeOK, CacheTypeOK, Placed, Seen, Goto, To
<1>1. CASE BeginCompile(b)
  BY <1>1 DEF BeginCompile, Launch
<1>2. CASE EndCompile(b)
  BY <1>2 DEF EndCompile, Compiled, group
<1>3. CASE Kill(b)
  BY <1>3 DEF Kill, BuilderKilled, Aborted, CutShort
<1>4. CASE (CacheStep(b) \/ Aborted(b)) /\ UNCHANGED group
  BY <1>4 DEF CacheStep, Aborted, CutShort, BeginRestore, Miss, Hit, Restored, Refuse, BeginRemove, Removed,
              BeginStore, Keep, Stage, Publish, group
<1> QED
  BY <1>1, <1>2, <1>3, <1>4

LEMMA PlacedStep ==
  ASSUME TypeOK, PlacedInv, [Next]_vars
  PROVE  PlacedInv'
<1>1. CASE UNCHANGED vars
  BY <1>1 DEF vars, cache, group, PlacedInv, Placed
<1>2. ASSUME NEW b \in Builder, StepOf(b)
      PROVE  PlacedInv'
  <2>1. Placed(b)'
    <3>1. Placed(b)
      BY DEF PlacedInv
    <3>2. CASE (Runner(b) \/ Command(b) \/ Interrupted(b) \/ Abandoned(b)) /\ UNCHANGED cache
      BY <3>1, <3>2, RunnerPlaces
    <3>3. CASE BeginCompile(b) \/ EndCompile(b) \/ Kill(b) \/ ((CacheStep(b) \/ Aborted(b)) /\ UNCHANGED group)
      BY <3>1, <3>3, BuilderPlaces
    <3>4. \/ (Runner(b) \/ Command(b) \/ Interrupted(b) \/ Abandoned(b)) /\ UNCHANGED cache
          \/ BeginCompile(b) \/ EndCompile(b) \/ Kill(b) \/ ((CacheStep(b) \/ Aborted(b)) /\ UNCHANGED group)
      BY <1>2 DEF StepOf, Build
    <3> QED
      BY <3>2, <3>3, <3>4
  <2>2. ASSUME NEW d \in Builder, d # b
        PROVE  Placed(d)'
    BY <1>2, <2>2, StepIsMove, PlacesApart DEF PlacedInv, Placed, Apart
  <2> QED
    BY <2>1, <2>2 DEF PlacedInv
<1> QED
  BY <1>1, <1>2 DEF Next, StepOf

LEMMA AlwaysPlaced == Spec => []PlacedInv
<1>1. Init => PlacedInv
  BY SameCallers DEF Init, CacheInit, GroupInit, PlacedInv, Placed, Seen
<1>2. TypeOK /\ PlacedInv /\ [Next]_vars => PlacedInv'
  BY PlacedStep
<1> QED
  BY <1>1, <1>2, TypeCorrect, PTL DEF Spec

-----------------------------------------------------------------------------
(* Nobody waits for ever but for the lock, and its holder does not wait. *)

Ended == {"done", "failed", "killed"}

\* The guards of the steps of a build.
Turn(b) ==
  \/ bpc[b] \in {"start", "store"} /\ lock = NoOne
  \/ bpc[b] \in {"restore", "storing"} /\ entry \in {"none", "old", "broken", "good"}
  \/ bpc[b] \in {"copying", "removing", "replacing", "staging"}
  \/ bpc[b] = "compile" /\ gpc[b] = "idle"
  \/ /\ bpc[b] = "compiling"
     /\ \/ gpc[b] \in {"wait", "drain", "term", "list", "read", "signal", "settle", "stop",
                       "reaped", "returned"}
        \/ gpc[b] = "await" /\ leader[b] \in {"running", "zombie", "reaped"}
        \/ gpc[b] = "reap" /\ leader[b] = "zombie"

\* A build that has not ended takes a step, or waits for a lock whose holder takes one:
\* compiling happens outside the lock, and inside it nothing is waited for.
TurnInv ==
  \A b \in Builder :
    bpc[b] \notin Ended =>
      \/ Turn(b)
      \/ /\ bpc[b] \in {"start", "store"} /\ lock \in Builder \ {b}
         /\ Turn(lock) /\ gpc[lock] \notin Seen \cup {"wait", "term", "await"}

\* Builds cannot come to a stop with one of them unfinished, whoever is killed and whatever
\* the compilers do (compilation.py, native_compile_cache.py, subprocesses.py).
THEOREM BuildersTakeTurns == Spec => []TurnInv
<1> USE SameCallers
<1>1. ASSUME TypeOK, CacheInv, PlacedInv
      PROVE  TurnInv
  <2>1. ASSUME NEW b \in Builder, bpc[b] \in Locked
        PROVE  Turn(b) /\ gpc[b] \notin Seen \cup {"wait", "term", "await"}
    BY <1>1, <2>1 DEF Locked, Turn, TypeOK, CacheTypeOK, PlacedInv, Placed, Seen
  <2>2. ASSUME NEW b \in Builder, bpc[b] \in {"compile", "compiling"}
        PROVE  Turn(b)
    BY <1>1, <2>2 DEF Turn, TypeOK, CacheTypeOK, GroupTypeOK, PlacedInv, Placed, Seen
  <2>3. ASSUME NEW b \in Builder, bpc[b] \in {"start", "store"}, lock # NoOne
        PROVE  lock \in Builder \ {b} /\ bpc[lock] \in Locked
    <3>1. lock \in Builder
      BY <1>1, <2>3 DEF TypeOK, CacheTypeOK
    <3>2. bpc[lock] \in Locked /\ bpc[b] \notin Locked
      BY <1>1, <2>3, <3>1 DEF CacheInv, CacheOK, Locked
    <3> QED
      BY <3>1, <3>2
  <2>4. ASSUME NEW b \in Builder, bpc[b] \notin Ended
        PROVE  bpc[b] \in Locked \cup {"compile", "compiling", "start", "store"}
    BY <1>1, <2>4 DEF TypeOK, CacheTypeOK, Ended, Locked
  <2>5. ASSUME NEW b \in Builder, bpc[b] \in {"start", "store"}, lock = NoOne
        PROVE  Turn(b)
    BY <2>5 DEF Turn
  <2> QED
    BY <2>1, <2>2, <2>3, <2>4, <2>5 DEF TurnInv
<1>2. IInv => TypeOK /\ CacheInv
  BY DEF IInv
<1> QED
  BY <1>1, <1>2, AlwaysIInv, AlwaysPlaced, PTL

-----------------------------------------------------------------------------
(* The steps a build has left. *)

\* A look: /proc is listed, every process on the list is read, a member is signalled, and
\* the group settles.
PerLook == Cardinality(Kid) + 4

\* The steps of the runner, if nobody interrupts it any more.
LookLeft(b) ==
  LET again == IF look[b] = 1 THEN PerLook ELSE 0
  IN  CASE gpc[b] = "wait"             -> 2 * PerLook + 7
        [] gpc[b] = "term"             -> 2 * PerLook + 6
        [] gpc[b] \in {"drain", "await"} -> 2 * PerLook + 5
        [] gpc[b] = "list"             -> again + PerLook + 4
        [] gpc[b] = "read"             -> again + Cardinality(listed[b]) + 7
        [] gpc[b] = "signal"           -> again + 6
        [] gpc[b] = "settle"           -> again + 5
        [] gpc[b] = "stop"             -> 3
        [] gpc[b] = "reap"             -> 2
        [] gpc[b] = "reaped"           -> 1
        [] OTHER                       -> 0

\* A call that has no verdict can be interrupted, or run into its deadline, and starts again
\* at the termination of its group.
CallLeft(b) == LookLeft(b) + (IF verdict[b] = "none" THEN 2 * PerLook + 7 ELSE 0)

BuildLeft(b) ==
  CASE bpc[b] = "start"     -> 4 * PerLook + 24
    [] bpc[b] = "restore"   -> 4 * PerLook + 23
    [] bpc[b] \in {"copying", "removing"} -> 4 * PerLook + 22
    [] bpc[b] = "compile"   -> 4 * PerLook + 21
    [] bpc[b] = "compiling" -> CallLeft(b) + 6
    [] bpc[b] = "store"     -> 5
    [] bpc[b] = "storing"   -> IF entry = "old" THEN 4 ELSE 2
    [] bpc[b] = "replacing" -> 3
    [] bpc[b] = "staging"   -> 1
    [] OTHER                -> 0

BoundInv == \A b \in Builder : BuildLeft(b) \in 0 .. 4 * Cardinality(Kid) + 40

\* No step of anybody adds to what a build has left, an interruption included; every step of
\* its own takes something away.
UsesUp ==
  \A b \in Builder :
    /\ BuildLeft(b)' <= BuildLeft(b)
    /\ Build(b) => BuildLeft(b)' < BuildLeft(b)

\* What a look has on its list is no more than there are processes.
LEMMA Listed ==
  ASSUME IsFiniteSet(Kid), TypeOK, NEW b \in Builder
  PROVE  /\ PerLook \in Nat /\ PerLook >= 4
         /\ Cardinality(listed[b]) \in Nat
         /\ Cardinality(listed[b]) + 4 <= PerLook
         /\ listed[b] = {} => Cardinality(listed[b]) = 0
         /\ \A k \in listed[b] : /\ Cardinality(listed[b] \ {k}) = Cardinality(listed[b]) - 1
                                 /\ Cardinality(listed[b]) >= 1
<1>1. listed[b] \subseteq Kid
  BY SameCallers DEF TypeOK, GroupTypeOK
<1>2. IsFiniteSet(listed[b]) /\ Cardinality(listed[b]) <= Cardinality(Kid)
  BY <1>1, FS_Subset
<1>3. Cardinality(Kid) \in Nat /\ Cardinality(listed[b]) \in Nat
  BY <1>2, FS_CardinalityType
<1>4. listed[b] = {} => Cardinality(listed[b]) = 0
  BY FS_EmptySet
<1>5. ASSUME NEW k \in listed[b]
      PROVE  /\ Cardinality(listed[b] \ {k}) = Cardinality(listed[b]) - 1
             /\ Cardinality(listed[b]) >= 1
  <2>1. Cardinality(listed[b] \ {k}) = Cardinality(listed[b]) - 1
    BY <1>2, FS_RemoveElement
  <2>2. Cardinality(listed[b]) # 0
    BY <1>2, FS_EmptySet
  <2> QED
    BY <2>1, <2>2, <1>3
<1> QED
  BY <1>2, <1>3, <1>4, <1>5 DEF PerLook

\* What is left of a call is a number.
LEMMA LeftTypes ==
  ASSUME IsFiniteSet(Kid), TypeOK, NEW b \in Builder
  PROVE  /\ LookLeft(b) \in 0 .. 2 * PerLook + 7
         /\ CallLeft(b) \in 0 .. 4 * PerLook + 14
         /\ BuildLeft(b) \in 0 .. 4 * PerLook + 24
<1>1. LookLeft(b) \in 0 .. 2 * PerLook + 7
  BY Listed, SameCallers DEF LookLeft, TypeOK, GroupTypeOK
<1>2. CallLeft(b) \in 0 .. 4 * PerLook + 14
  BY <1>1, Listed DEF CallLeft
<1>3. BuildLeft(b) \in 0 .. 4 * PerLook + 24
  BY <1>2, Listed DEF BuildLeft, TypeOK, CacheTypeOK
<1> QED
  BY <1>1, <1>2, <1>3

\* Every step of a runner, and an interruption, takes something away from the call.
LEMMA RunnerUses ==
  ASSUME IsFiniteSet(Kid), TypeOK, NEW b \in Builder, Runner(b) \/ Interrupted(b) \/ Abandoned(b)
  PROVE  CallLeft(b)' \in Nat /\ CallLeft(b)' < CallLeft(b)
<1> USE SameCallers DEF TypeOK, GroupTypeOK, Goto, CallLeft, LookLeft
<1>0. /\ PerLook \in Nat /\ PerLook >= 4
      /\ Cardinality(listed[b]) \in Nat
      /\ Cardinality(listed[b]) + 4 <= PerLook
      /\ PerLook' = PerLook
  BY Listed DEF PerLook
<1>1. CASE Exited(b)
  BY <1>0, <1>1 DEF Exited
<1>2. CASE Drained(b)
  BY <1>0, <1>2 DEF Drained
<1>3. CASE TimesOut(b)
  BY <1>0, <1>3 DEF TimesOut
<1>4. CASE Interrupted(b) \/ Abandoned(b)
  BY <1>0, <1>4 DEF Interrupted, Abandoned
<1>5. CASE Term(b)
  BY <1>0, <1>5 DEF Term
<1>6. CASE Await(b)
  BY <1>0, <1>6 DEF Await
<1>7. CASE List(b)
  <2>1. InGroup(b) \subseteq Kid
    BY DEF InGroup
  <2>2. Cardinality(InGroup(b)) \in Nat /\ Cardinality(InGroup(b)) + 4 <= PerLook
    BY <2>1, FS_Subset, FS_CardinalityType DEF PerLook
  <2>3. listed'[b] = InGroup(b)
    BY <1>7 DEF List
  <2> QED
    BY <1>0, <1>7, <2>2, <2>3 DEF List
<1>8. CASE Read(b)
  <2>1. PICK k \in listed[b] :
          \/ Goto(b, "signal") /\ UNCHANGED listed
          \/ listed' = [listed EXCEPT ![b] = @ \ {k}] /\ UNCHANGED gpc
    BY <1>8 DEF Read
  <2>2. /\ Cardinality(listed[b] \ {k}) = Cardinality(listed[b]) - 1
        /\ Cardinality(listed[b]) >= 1
    BY Listed
  <2>3. CASE Goto(b, "signal") /\ UNCHANGED listed
    BY <1>0, <1>8, <2>3 DEF Read
  <2>4. CASE listed' = [listed EXCEPT ![b] = @ \ {k}] /\ UNCHANGED gpc
    <3>1. listed'[b] = listed[b] \ {k}
      BY <2>4
    <3> QED
      BY <1>0, <1>8, <2>2, <2>4, <3>1 DEF Read
  <2> QED
    BY <2>1, <2>3, <2>4
<1>9. CASE NobodySeen(b)
  BY <1>0, <1>9 DEF NobodySeen
<1>10. CASE Signal(b)
  BY <1>0, <1>10 DEF Signal
<1>11. CASE Settle(b)
  BY <1>0, <1>11 DEF Settle
<1>12. CASE StopCapture(b) \/ Reap(b) \/ Complete(b)
  BY <1>0, <1>12 DEF StopCapture, Reap, Complete
<1> QED
  BY <1>1, <1>2, <1>3, <1>4, <1>5, <1>6, <1>7, <1>8, <1>9, <1>10, <1>11, <1>12 DEF Runner

\* What the compiler's processes do adds nothing to the call.
LEMMA CommandUses ==
  ASSUME NEW b \in Builder, Command(b)
  PROVE  CallLeft(b)' = CallLeft(b)
<1>1. gpc' = gpc /\ listed' = listed /\ look' = look /\ verdict' = verdict
  BY DEF Command, LeaderExits, IdReused, Fork, KidLeaves
<1> QED
  BY <1>1 DEF CallLeft, LookLeft, PerLook

\* Every step of the cache, the start of the compiler and its end take something away.
LEMMA BuilderUses ==
  ASSUME IsFiniteSet(Kid), TypeOK, NEW b \in Builder,
         BeginCompile(b) \/ EndCompile(b) \/ Kill(b) \/ ((CacheStep(b) \/ Aborted(b)) /\ UNCHANGED group)
  PROVE  BuildLeft(b)' \in Nat /\ BuildLeft(b)' < BuildLeft(b)
<1> USE SameCallers DEF TypeOK, CacheTypeOK, To
<1>0. PerLook \in Nat /\ PerLook >= 4 /\ PerLook' = PerLook
  BY Listed DEF PerLook
<1>1. CASE BeginCompile(b)
  <2>1. gpc'[b] = "wait" /\ verdict'[b] = verdict[b] /\ bpc'[b] = "compiling"
    BY <1>1 DEF BeginCompile, Launch, Goto, GroupTypeOK
  <2>2. CallLeft(b)' \in 0 .. 4 * PerLook + 14
    BY <1>0, <2>1 DEF CallLeft, LookLeft
  <2> QED
    BY <1>0, <1>1, <2>1, <2>2 DEF BeginCompile, BuildLeft
<1>2. CASE EndCompile(b)
  <2>1. CallLeft(b) \in 0 .. 4 * PerLook + 14
    BY LeftTypes
  <2> QED
    BY <1>0, <1>2, <2>1 DEF EndCompile, Compiled, BuildLeft
<1>3. CASE Kill(b)
  <2>1. CallLeft(b) \in 0 .. 4 * PerLook + 14
    BY LeftTypes
  <2> QED
    BY <1>0, <1>3, <2>1 DEF Kill, BuilderKilled, Aborted, CutShort, BuildLeft
<1>4. CASE (CacheStep(b) \/ Aborted(b)) /\ UNCHANGED group
  BY <1>0, <1>4 DEF CacheStep, Aborted, CutShort, BeginRestore, Miss, Hit, Restored, Refuse, BeginRemove, Removed,
              BeginStore, Keep, Stage, Publish, BuildLeft
<1> QED
  BY <1>1, <1>2, <1>3, <1>4

\* The entry is touched only by who holds the lock.
LEMMA EntryIsLocked ==
  ASSUME TypeOK, CacheInv, NEW b \in Builder, Move(b), NEW d \in Builder, d # b,
         bpc[d] = "storing"
  PROVE  entry' = entry
<1>1. lock # b /\ bpc[b] \notin Locked
  BY DEF CacheInv, CacheOK, Locked
<1>2. ASSUME CacheMove(b)
      PROVE  entry' = entry
  BY <1>1, <1>2 DEF CacheMove, CacheStep, BuilderKilled, Aborted, CutShort, Starts, Compiled, BeginRestore, Miss,
       Hit, Restored, Refuse, BeginRemove, Removed, BeginStore, Keep, Stage, Publish, Locked
<1>3. UNCHANGED cache => entry' = entry
  BY DEF cache
<1> QED
  BY <1>2, <1>3 DEF Move, CacheMove

\* What a build's own step takes away.
LEMMA OwnUses ==
  ASSUME IsFiniteSet(Kid), TypeOK, NEW b \in Builder, Placed(b),
         Build(b) \/ Kill(b) \/ (Aborted(b) /\ UNCHANGED group)
           \/ ((Interrupted(b) \/ Abandoned(b)) /\ UNCHANGED cache)
  PROVE  BuildLeft(b)' \in Nat /\ BuildLeft(b)' < BuildLeft(b)
<1>1. CASE (Runner(b) \/ Interrupted(b) \/ Abandoned(b)) /\ UNCHANGED cache
  <2>1. gpc[b] \notin {"idle", "returned", "dead"}
    BY <1>1 DEF Runner, Interrupted, Abandoned, Exited, Drained, TimesOut, Term, Await, List, Read,
                NobodySeen, Signal, Settle, StopCapture, Reap, Complete
  <2>2. bpc[b] = "compiling" /\ bpc'[b] = "compiling"
    BY <1>1, <2>1 DEF Placed, cache
  <2>3. CallLeft(b)' \in Nat /\ CallLeft(b)' < CallLeft(b)
    BY <1>1, RunnerUses
  <2>4. BuildLeft(b) = CallLeft(b) + 6 /\ BuildLeft(b)' = CallLeft(b)' + 6
    BY <2>2 DEF BuildLeft
  <2>5. CallLeft(b) \in Nat
    BY LeftTypes, Listed
  <2> QED
    BY <2>3, <2>4, <2>5
<1>2. CASE BeginCompile(b) \/ EndCompile(b) \/ Kill(b) \/ ((CacheStep(b) \/ Aborted(b)) /\ UNCHANGED group)
  BY <1>2, BuilderUses
<1> QED
  BY <1>1, <1>2 DEF Build

\* One step of the system.
LEMMA StepUses ==
  ASSUME IsFiniteSet(Kid), TypeOK, CacheInv, PlacedInv, [Next]_vars
  PROVE  UsesUp
<1> USE SameCallers
<1>1. ASSUME NEW d \in Builder
      PROVE  BuildLeft(d) \in Nat /\ Placed(d)
  BY LeftTypes, Listed DEF PlacedInv
<1>2. ASSUME NEW d \in Builder, Build(d) \/ Kill(d)
      PROVE  BuildLeft(d)' < BuildLeft(d)
  BY <1>1, <1>2, OwnUses
<1>3. ASSUME NEW d \in Builder, UNCHANGED vars
      PROVE  BuildLeft(d)' = BuildLeft(d)
  BY <1>3 DEF vars, cache, group, BuildLeft, CallLeft, LookLeft, PerLook
<1>4. ASSUME NEW b \in Builder, StepOf(b), NEW d \in Builder, d # b
      PROVE  BuildLeft(d)' = BuildLeft(d)
  <2>1. Apart(d) /\ bpc'[d] = bpc[d]
    BY <1>4, StepIsMove, PlacesApart
  <2>2. bpc[d] = "storing" => entry' = entry
    BY <1>4, StepIsMove, EntryIsLocked
  <2> QED
    BY <2>1, <2>2 DEF Apart, BuildLeft, CallLeft, LookLeft, PerLook
<1>5. ASSUME NEW b \in Builder, StepOf(b)
      PROVE  BuildLeft(b)' <= BuildLeft(b)
  <2>1. CASE Build(b) \/ Kill(b) \/ (Aborted(b) /\ UNCHANGED group)
           \/ ((Interrupted(b) \/ Abandoned(b)) /\ UNCHANGED cache)
    BY <1>1, <2>1, OwnUses
  <2>2. CASE Command(b) /\ UNCHANGED cache
    <3>1. BuildLeft(b)' = BuildLeft(b)
      BY <2>2, CommandUses DEF cache, BuildLeft, PerLook
    <3> QED
      BY <1>1, <3>1
  <2> QED
    BY <1>5, <2>1, <2>2 DEF StepOf
<1>6. ASSUME NEW d \in Builder
      PROVE  BuildLeft(d)' <= BuildLeft(d)
  BY <1>1, <1>3, <1>4, <1>5 DEF Next, StepOf
<1> QED
  BY <1>2, <1>6 DEF UsesUp

\* The safety half of BuildsEnd (compilation.py, subprocesses.py): whatever the compilers
\* fork, however often builders meet at the entry and whoever is killed, a build takes at
\* most four steps per process of its command, and forty; with BuildersTakeTurns, it ends
\* if it is scheduled and the lock is handed on.
THEOREM BuildIsBounded ==
  ASSUME IsFiniteSet(Kid)
  PROVE  Spec => []BoundInv /\ [][UsesUp]_vars
<1>1. TypeOK => BoundInv
  <2>1. ASSUME TypeOK, NEW b \in Builder
        PROVE  BuildLeft(b) \in 0 .. 4 * Cardinality(Kid) + 40
    BY <2>1, LeftTypes, FS_CardinalityType DEF PerLook
  <2> QED
    BY <2>1 DEF BoundInv
<1>2. TypeOK /\ CacheInv /\ PlacedInv /\ [Next]_vars => UsesUp
  BY StepUses
<1>3. IInv => TypeOK /\ CacheInv
  BY DEF IInv
<1> QED
  BY <1>1, <1>2, <1>3, AlwaysIInv, AlwaysPlaced, PTL DEF Spec
===============================================================================
