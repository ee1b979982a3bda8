----------------------------- MODULE CompileCache -----------------------------
(***************************************************************************)
(* The native build of one solution through the shared cache               *)
(* (cli/evaluation/compilation.py, native_compile_cache.py): evaluations   *)
(* with the same build inputs meet at one entry, under one file lock.      *)
(* Compiling itself happens outside the lock, in NativeBuild.              *)
(***************************************************************************)
EXTENDS Naturals, FiniteSets

CONSTANTS
  Builder,    \* evaluations that build the same solution
  NoOne,
  FirstEntry, \* what the cache holds at first: "none", or an "old" format
  MaxKills    \* bound: builders that are killed

ASSUME CacheAssumption ==
  /\ NoOne \notin Builder
  /\ FirstEntry \in {"none", "old"}
  /\ MaxKills \in Nat

VARIABLES
  bpc,     \* where each builder is
  lock,    \* who holds the cache root's lock
  entry,   \* the entry of the key; "broken": a directory without metadata
  out,     \* the build directory of each builder
  source,  \* history: who compiled what the entry holds
  cut,     \* history: builders whose removal of an old entry was cut short
  kills

cache == << bpc, lock, entry, out, source, cut, kills >>

CacheInit ==
  /\ bpc = [b \in Builder |-> "start"]
  /\ lock = NoOne
  /\ entry = FirstEntry
  /\ out = [b \in Builder |-> "none"]
  /\ source = NoOne
  /\ cut = {}
  /\ kills = 0

To(b, pc) == bpc' = [bpc EXCEPT ![b] = pc]

\* _locked_cache_root: taken by blocking, given back however the block ends.
Lock(b)   == lock = NoOne /\ lock' = b
Unlock(b) == lock' = NoOne

\* restore
BeginRestore(b) ==
  /\ bpc[b] = "start"
  /\ Lock(b) /\ To(b, "restore")
  /\ UNCHANGED << entry, out, source, cut, kills >>

\* Mutant: the lock is kept for the compilation that follows.
BugMiss(b) ==
  /\ bpc[b] = "restore" /\ entry = "none"
  /\ To(b, "compile")
  /\ UNCHANGED << lock, entry, out, source, cut, kills >>

Miss(b) ==
  /\ bpc[b] = "restore" /\ entry = "none"
  /\ Unlock(b) /\ To(b, "compile")
  /\ UNCHANGED << entry, out, source, cut, kills >>

\* An entry is copied file by file; it is copied back by store's verification only.
Hit(b) ==
  /\ bpc[b] = "restore" /\ entry = "good"
  /\ To(b, "copying")
  /\ out' = [out EXCEPT ![b] = "partial"]
  /\ UNCHANGED << lock, entry, source, cut, kills >>

Restored(b) ==
  /\ bpc[b] = "copying"
  /\ out' = [out EXCEPT ![b] = "whole"]
  /\ Unlock(b) /\ To(b, "store")
  /\ UNCHANGED << entry, source, cut, kills >>

\* Metadata that cannot be read is an error, here and in store.
Refuse(b) ==
  /\ bpc[b] \in {"restore", "storing"} /\ entry = "broken"
  /\ Unlock(b) /\ To(b, "failed")
  /\ UNCHANGED << entry, out, source, cut, kills >>

\* rmtree of an entry in an older format: the metadata may go before the directory does.
BeginRemove(b) ==
  /\ bpc[b] \in {"restore", "storing"} /\ entry = "old"
  /\ To(b, IF bpc[b] = "restore" THEN "removing" ELSE "replacing")
  /\ entry' \in {"old", "broken"}
  /\ UNCHANGED << lock, out, source, cut, kills >>

Removed(b) ==
  /\ bpc[b] \in {"removing", "replacing"}
  /\ entry' = "none"
  /\ IF bpc[b] = "removing" THEN Unlock(b) /\ To(b, "compile")
                            ELSE UNCHANGED lock /\ To(b, "storing")
  /\ UNCHANGED << out, source, cut, kills >>

\* The compiler has run.
Compiled(b, succeeded) ==
  /\ bpc[b] = "compiling"
  /\ IF succeeded THEN To(b, "store") /\ out' = [out EXCEPT ![b] = "whole"]
                  ELSE To(b, "failed") /\ UNCHANGED out
  /\ UNCHANGED << lock, entry, source, cut, kills >>

\* store, after a build and after a hit
BeginStore(b) ==
  /\ bpc[b] = "store"
  /\ Lock(b) /\ To(b, "storing")
  /\ UNCHANGED << entry, out, source, cut, kills >>

\* Mutant: an entry that is there is replaced.
BugKeep(b) ==
  /\ bpc[b] = "storing" /\ entry = "good"
  /\ entry' = "none"
  /\ UNCHANGED << bpc, lock, out, source, cut, kills >>

\* Who was first stays.
Keep(b) ==
  /\ bpc[b] = "storing" /\ entry = "good"
  /\ Unlock(b) /\ To(b, "done")
  /\ UNCHANGED << entry, out, source, cut, kills >>

\* Mutant: the files are copied into the entry's own directory.
BugStage(b) ==
  /\ bpc[b] = "storing" /\ entry = "none"
  /\ entry' = "broken" /\ To(b, "staging")
  /\ UNCHANGED << lock, out, source, cut, kills >>

\* Into a temporary directory of its own, which nobody else looks at.
Stage(b) ==
  /\ bpc[b] = "storing" /\ entry = "none"
  /\ To(b, "staging")
  /\ UNCHANGED << lock, entry, out, source, cut, kills >>

\* The rename; an interrupt after it fails the build and leaves the entry.
Publish(b) ==
  /\ bpc[b] = "staging"
  /\ entry' = "good" /\ source' = b
  /\ Unlock(b)
  /\ To(b, "done") \/ To(b, "failed")
  /\ UNCHANGED << out, cut, kills >>

\* The lock is given back, by the `finally` or the kernel; files stay as they are.
CutShort(b) ==
  /\ lock' = IF lock = b THEN NoOne ELSE lock
  /\ cut' = IF bpc[b] \in {"removing", "replacing"} THEN cut \cup {b} ELSE cut
  /\ UNCHANGED << entry, out, source >>

\* An error or an interrupt outside the compiler's call: no handler undoes a half-done rmtree.
Aborted(b) ==
  /\ bpc[b] \notin {"compiling", "done", "failed", "killed"}
  /\ CutShort(b) /\ To(b, "failed")
  /\ UNCHANGED kills

BuilderKilled(b) ==
  /\ kills < MaxKills /\ bpc[b] \notin {"done", "failed", "killed"}
  /\ kills' = kills + 1
  /\ CutShort(b) /\ To(b, "killed")

CacheStep(b) ==
  \/ BeginRestore(b) \/ Miss(b) \/ Hit(b) \/ Restored(b) \/ Refuse(b)
  \/ BeginRemove(b) \/ Removed(b) \/ BeginStore(b) \/ Keep(b) \/ Stage(b) \/ Publish(b)

-----------------------------------------------------------------------------

\* What the variables of the cache may hold.
CacheTypeOK ==
  /\ bpc \in [Builder -> {"start", "restore", "copying", "removing", "compile", "compiling",
                          "store", "storing", "replacing", "staging", "done", "failed", "killed"}]
  /\ lock \in Builder \cup {NoOne}
  /\ entry \in {"none", "old", "broken", "good"}
  /\ out \in [Builder -> {"none", "partial", "whole"}]
  /\ source \in Builder \cup {NoOne}
  /\ cut \subseteq Builder
  /\ kills \in 0 .. MaxKills

\* What is copied stays complete until it has been copied; and no publication leaves a
\* directory without metadata: only the removal of an old entry can, while it is under way or
\* when an error, an interrupt or a kill has cut it short.
EntryIsWhole ==
  /\ \A b \in Builder : bpc[b] = "copying" => entry = "good"
  /\ entry = "broken" =>
       /\ FirstEntry = "old"
       /\ cut # {} \/ \E b \in Builder : lock = b /\ bpc[b] \in {"removing", "replacing"}

\* An entry that was published is never removed or replaced, by whichever builder comes late.
PublishedStays == [][entry = "good" => entry' = "good" /\ source' = source]_cache
-----------------------------------------------------------------------------
(* The inductive invariant of the cache. *)

Locked == {"restore", "copying", "removing", "storing", "replacing", "staging"}

\* Who is at work on the entry holds the lock, and nobody else does; it removes or fills what
\* was there when it took the lock.
CacheOK(b) ==
  /\ bpc[b] \in Locked <=> lock = b
  /\ bpc[b] \in {"removing", "replacing"} => entry \in {"old", "broken"}
  /\ bpc[b] = "staging" => entry = "none"
EntryOK == entry = "old" => FirstEntry = "old"

CacheInv == (\A b \in Builder : CacheOK(b)) /\ EntryOK /\ EntryIsWhole
===============================================================================
