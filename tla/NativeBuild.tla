------------------------------ MODULE NativeBuild ------------------------------
(***************************************************************************)
(* run_compile_phase (cli/evaluation/compilation.py): evaluations build    *)
(* the same solution at the same time, each with a compiler in a process   *)
(* group of its own (ProcessGroup), and share the result (CompileCache).   *)
(***************************************************************************)
EXTENDS CompileCache, ProcessGroup

ASSUME SameCallers == Caller = Builder

vars == << cache, group >>

Init == CacheInit /\ GroupInit

BeginCompile(b) ==
  /\ bpc[b] = "compile"
  /\ To(b, "compiling") /\ Launch(b)
  /\ UNCHANGED << lock, entry, out, source, cut, kills >>

\* Mutant: the artifact is stored as soon as the compiler is seen to have exited.
BugEndCompile(b) ==
  /\ gpc[b] \in {"drain", "list", "read", "signal", "settle"} /\ verdict[b] = "none"
  /\ Compiled(b, status[b] = 0)
  /\ UNCHANGED group

\* The artifact is stored after the call returned, when the compiler exited with 0.
EndCompile(b) ==
  /\ gpc[b] = "returned"
  /\ Compiled(b, verdict[b] = "completed" /\ status[b] = 0)
  /\ UNCHANGED group

\* SIGKILL ends the builder; the compiler's processes go on.
Kill(b) ==
  /\ BuilderKilled(b)
  /\ Goto(b, "dead")
  /\ UNCHANGED << leader, status, kid, listed, look, verdict, stranger, hurt, newborn >>

Build(b) ==
  \/ BeginCompile(b) \/ EndCompile(b)
  \/ CacheStep(b) /\ UNCHANGED group
  \/ Runner(b) /\ UNCHANGED cache

Next == \E b \in Builder :
  \/ Build(b)
  \/ (Interrupted(b) \/ Abandoned(b) \/ Command(b)) /\ UNCHANGED cache
  \/ Aborted(b) /\ UNCHANGED group
  \/ Kill(b)

Spec == Init /\ [][Next]_vars

\* Every builder is scheduled, and a lock that comes free again and again is obtained.  The
\* compiler and its processes may do nothing for ever: the call has a timeout.
FairSpec == Spec /\ \A b \in Builder : SF_vars(Build(b))

-----------------------------------------------------------------------------

\* The variables of the cache and of the runners hold what they may.
TypeOK == CacheTypeOK /\ GroupTypeOK

\* What is published was compiled with success by a call that had returned, so nothing of
\* the compiler's group was still at work on it but a process no look could see.
PublishedIsBuilt ==
  source # NoOne =>
    /\ status[source] = 0 /\ leader[source] = "reaped"
    /\ InGroup(source) \subseteq newborn[source]

\* Every build comes to its end, however long the compiler runs and whoever is killed.
BuildsEnd == \A b \in Builder : <>(bpc[b] \in {"done", "failed", "killed"})
-----------------------------------------------------------------------------
(* The inductive invariant. *)

\* What a builder is about to store was compiled by its own call, unless the entry is there.
Built(b) == leader[b] = "reaped" /\ status[b] = 0
BuildInv ==
  /\ \A b \in Builder : bpc[b] \in {"store", "storing", "replacing", "staging"}
                          => entry = "good" \/ Built(b)
  /\ source # NoOne => Built(source)

IInv == TypeOK /\ GroupInv /\ CacheInv /\ BuildInv
===============================================================================
