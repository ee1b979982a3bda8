----------------------------- MODULE ProcessGroup -----------------------------
(***************************************************************************)
(* A command in a session of its own, run to its end or to its deadline    *)
(* and cleaned up after (core/process/subprocesses.py,                     *)
(* process_observation.py): the runners that observe the leader's exit     *)
(* without reaping it, so that its identity stays theirs to signal.        *)
(*                                                                         *)
(* Nobody stops the members from forking, leaving or ignoring SIGTERM in   *)
(* the meantime, and a look at the group reads /proc one process at a      *)
(* time.  Pipes are left out: the capture threads are joined for a bounded *)
(* time and given up afterwards.                                           *)
(***************************************************************************)
EXTENDS Naturals, FiniteSets

CONSTANTS
  Caller,    \* who runs a command, each its own
  Kid,       \* the processes a command can start besides its leader
  Forker     \* the callers whose commands start any

ASSUME GroupAssumption == Forker \subseteq Caller

VARIABLES
  gpc,       \* where the runner is
  leader,    \* the process it started
  status,    \* the exit status of the leader
  kid,       \* what became of every other process of the command
  listed,    \* the processes /proc listed that have not been read
  look,      \* the first look or the second
  verdict,   \* how the call ends
  stranger,  \* the leader's id belongs to somebody else's group
  hurt,      \* history: calls that signalled a stranger
  newborn    \* history: processes forked since /proc was last listed

group == << gpc, leader, status, kid, listed, look, verdict, stranger, hurt, newborn >>

GroupInit ==
  /\ gpc = [c \in Caller |-> "idle"]
  /\ leader = [c \in Caller |-> "none"]
  /\ status = [c \in Caller |-> 0]
  /\ kid = [c \in Caller |-> [k \in Kid |-> "none"]]
  /\ listed = [c \in Caller |-> {}]
  /\ look = [c \in Caller |-> 1]
  /\ verdict = [c \in Caller |-> "none"]
  /\ stranger = [c \in Caller |-> FALSE]
  /\ hurt = {}
  /\ newborn = [c \in Caller |-> {}]

\* The live members of the session besides its leader; a "deaf" one ignores SIGTERM.
InGroup(c) == { k \in Kid : kid[c][k] \in {"live", "deaf"} }

Goto(c, to) == gpc' = [gpc EXCEPT ![c] = to]

-----------------------------------------------------------------------------
(* The command's processes. *)

LeaderExits(c) ==
  /\ leader[c] = "running"
  /\ leader' = [leader EXCEPT ![c] = "zombie"]
  /\ \E s \in {0, 1} : status' = [status EXCEPT ![c] = s]
  /\ UNCHANGED << gpc, kid, listed, look, verdict, stranger, hurt, newborn >>

Become(c, k, state) == kid' = [kid EXCEPT ![c] = [@ EXCEPT ![k] = state]]

Fork(c, k) ==
  /\ c \in Forker
  /\ kid[c][k] = "none"
  /\ leader[c] = "running" \/ InGroup(c) # {}
  /\ Become(c, k, "live") \/ Become(c, k, "deaf")
  /\ newborn' = [newborn EXCEPT ![c] = @ \cup {k}]
  /\ UNCHANGED << gpc, leader, status, listed, look, verdict, stranger, hurt >>

\* It opens a session of its own, or exits.
KidLeaves(c, k) ==
  /\ k \in InGroup(c)
  /\ Become(c, k, "free") \/ Become(c, k, "gone")
  /\ UNCHANGED << gpc, leader, status, listed, look, verdict, stranger, hurt, newborn >>

\* A process id is free once the leader is reaped and its group is empty.
IdReused(c) ==
  /\ leader[c] = "reaped" /\ InGroup(c) = {} /\ ~ stranger[c]
  /\ stranger' = [stranger EXCEPT ![c] = TRUE]
  /\ UNCHANGED << gpc, leader, status, kid, listed, look, verdict, hurt, newborn >>

-----------------------------------------------------------------------------
(* The runner. *)

Launch(c) ==
  /\ gpc[c] = "idle"
  /\ leader' = [leader EXCEPT ![c] = "running"]
  /\ Goto(c, "wait")
  /\ UNCHANGED << status, kid, listed, look, verdict, stranger, hurt, newborn >>

\* wait_for_exit_without_reaping sees the exit; then the output may drain.
Exited(c) ==
  /\ gpc[c] = "wait" /\ leader[c] = "zombie"
  /\ Goto(c, "drain")
  /\ UNCHANGED << leader, status, kid, listed, look, verdict, stranger, hurt, newborn >>

Drained(c) ==
  /\ gpc[c] = "drain"
  /\ Goto(c, "list")
  /\ UNCHANGED << leader, status, kid, listed, look, verdict, stranger, hurt, newborn >>

\* The deadline passes, or the batch is cancelled.
TimesOut(c) ==
  /\ gpc[c] = "wait"
  /\ Goto(c, "term")
  /\ verdict' = [verdict EXCEPT ![c] = "failed"]
  /\ UNCHANGED << leader, status, kid, listed, look, stranger, hurt, newborn >>

\* SIGINT or SIGTERM anywhere inside the try: also between wait()'s return and its end.
Interrupted(c) ==
  /\ gpc[c] \in {"wait", "drain", "list", "read", "signal", "settle", "stop", "reap", "reaped"}
  /\ verdict[c] = "none"
  /\ Goto(c, "term")
  /\ verdict' = [verdict EXCEPT ![c] = "failed"]
  /\ UNCHANGED << leader, status, kid, listed, look, stranger, hurt, newborn >>

\* An interrupt before the try, or in a handler that is cleaning up already: the exception
\* leaves the call at once, the leader is not waited for and the members are left alone.
Abandoned(c) ==
  /\ \/ gpc[c] = "wait"
     \/ verdict[c] = "failed" /\ gpc[c] \notin {"idle", "returned", "dead"}
  /\ Goto(c, "returned")
  /\ verdict' = [verdict EXCEPT ![c] = "abandoned"]
  /\ UNCHANGED << leader, status, kid, listed, look, stranger, hurt, newborn >>

Terminated(c) == [kid EXCEPT ![c] = [k \in Kid |-> IF @[k] = "live" THEN "gone" ELSE @[k]]]
Killed(c)     == [kid EXCEPT ![c] = [k \in Kid |-> IF @[k] \in {"live", "deaf"} THEN "gone" ELSE @[k]]]

\* Mutant: the id is signalled whether or not the leader still anchors it.
BugSignalGroup(c, after) ==
  /\ kid' = after
  /\ hurt' = IF stranger[c] THEN hurt \cup {c} ELSE hurt

\* _signal_unreaped_process_group: nothing once the leader has been reaped.
SignalGroup(c, after) ==
  IF leader[c] = "reaped" THEN UNCHANGED << kid, hurt >>
  ELSE /\ kid' = after
       /\ hurt' = IF stranger[c] THEN hurt \cup {c} ELSE hurt

\* _terminate_unreaped_process_group: SIGTERM, which the leader may ignore.
Term(c) ==
  /\ gpc[c] = "term"
  /\ SignalGroup(c, Terminated(c))
  /\ \/ UNCHANGED leader
     \/ leader[c] = "running" /\ leader' = [leader EXCEPT ![c] = "zombie"]
  /\ Goto(c, "await")
  /\ UNCHANGED << status, listed, look, verdict, stranger, newborn >>

\* It exits within the grace period, or is killed with its group.  When it was reaped
\* already, there is no child to wait for, and the error ends the call.
Await(c) ==
  /\ gpc[c] = "await"
  /\ \/ /\ leader[c] = "zombie" /\ Goto(c, "list")
        /\ look' = [look EXCEPT ![c] = 1]
        /\ UNCHANGED << leader, kid, hurt >>
     \/ /\ leader[c] = "running" /\ Goto(c, "list")
        /\ SignalGroup(c, Killed(c))
        /\ leader' = [leader EXCEPT ![c] = "zombie"]
        /\ look' = [look EXCEPT ![c] = 1]
     \/ leader[c] = "reaped" /\ Goto(c, "returned") /\ UNCHANGED << leader, kid, hurt, look >>
  /\ UNCHANGED << status, listed, verdict, stranger, newborn >>

\* process_group_has_live_members: the names in /proc, then one process after the other.
List(c) ==
  /\ gpc[c] = "list"
  /\ listed' = [listed EXCEPT ![c] = InGroup(c)]
  /\ newborn' = [newborn EXCEPT ![c] = {}]
  /\ Goto(c, "read")
  /\ UNCHANGED << leader, status, kid, look, verdict, stranger, hurt >>

Read(c) ==
  /\ gpc[c] = "read"
  /\ \E k \in listed[c] :
       \/ k \in InGroup(c) /\ Goto(c, "signal") /\ UNCHANGED listed
       \/ /\ k \notin InGroup(c)
          /\ listed' = [listed EXCEPT ![c] = @ \ {k}]
          /\ UNCHANGED gpc
  /\ UNCHANGED << leader, status, kid, look, verdict, stranger, hurt, newborn >>

\* _cleanup_unreaped_process_group: whatever the first look finds, there is a second.
NobodySeen(c) ==
  /\ gpc[c] = "read" /\ listed[c] = {}
  /\ IF look[c] = 1 THEN look' = [look EXCEPT ![c] = 2] /\ Goto(c, "list")
                    ELSE UNCHANGED look /\ Goto(c, "stop")
  /\ UNCHANGED << leader, status, kid, listed, verdict, stranger, hurt, newborn >>

\* Mutant: the second signal is as polite as the first.
BugSignal(c) ==
  /\ gpc[c] = "signal"
  /\ SignalGroup(c, Terminated(c))
  /\ Goto(c, "settle")
  /\ UNCHANGED << leader, status, listed, look, verdict, stranger, newborn >>

Signal(c) ==
  /\ gpc[c] = "signal"
  /\ SignalGroup(c, IF look[c] = 1 THEN Terminated(c) ELSE Killed(c))
  /\ Goto(c, "settle")
  /\ UNCHANGED << leader, status, listed, look, verdict, stranger, newborn >>

\* Up to a second is spent waiting for the members to go; how it ends is not looked at.
Settle(c) ==
  /\ gpc[c] = "settle"
  /\ IF look[c] = 1 THEN look' = [look EXCEPT ![c] = 2] /\ Goto(c, "list")
                    ELSE UNCHANGED look /\ Goto(c, "stop")
  /\ UNCHANGED << leader, status, kid, listed, verdict, stranger, hurt, newborn >>

StopCapture(c) ==
  /\ gpc[c] = "stop"
  /\ Goto(c, "reap")
  /\ UNCHANGED << leader, status, kid, listed, look, verdict, stranger, hurt, newborn >>

Reap(c) ==
  /\ gpc[c] = "reap" /\ leader[c] = "zombie"
  /\ leader' = [leader EXCEPT ![c] = "reaped"]
  /\ Goto(c, IF verdict[c] = "none" THEN "reaped" ELSE "returned")
  /\ UNCHANGED << status, kid, listed, look, verdict, stranger, hurt, newborn >>

Complete(c) ==
  /\ gpc[c] = "reaped"
  /\ verdict' = [verdict EXCEPT ![c] = "completed"]
  /\ Goto(c, "returned")
  /\ UNCHANGED << leader, status, kid, listed, look, stranger, hurt, newborn >>

Runner(c) ==
  \/ Exited(c) \/ Drained(c) \/ TimesOut(c) \/ Term(c) \/ Await(c)
  \/ List(c) \/ Read(c) \/ NobodySeen(c) \/ Signal(c) \/ Settle(c)
  \/ StopCapture(c) \/ Reap(c) \/ Complete(c)

Command(c) ==
  \/ LeaderExits(c) \/ IdReused(c)
  \/ \E k \in Kid : Fork(c, k) \/ KidLeaves(c, k)

-----------------------------------------------------------------------------

\* What the variables of the runners may hold; a process that was signalled or exited does
\* not come back, and a leader that is not reaped keeps its id.
GroupTypeOK ==
  /\ gpc \in [Caller -> {"idle", "wait", "drain", "term", "await", "list", "read", "signal",
                         "settle", "stop", "reap", "reaped", "returned", "dead"}]
  /\ leader \in [Caller -> {"none", "running", "zombie", "reaped"}]
  /\ status \in [Caller -> {0, 1}]
  /\ kid \in [Caller -> [Kid -> {"none", "live", "deaf", "free", "gone"}]]
  /\ listed \in [Caller -> SUBSET Kid]
  /\ look \in [Caller -> {1, 2}]
  /\ verdict \in [Caller -> {"none", "completed", "failed", "abandoned"}]
  /\ stranger \in [Caller -> BOOLEAN]
  /\ hurt \subseteq Caller
  /\ newborn \in [Caller -> SUBSET Kid]

\* When a call ends, by success, error, timeout or interrupt, nothing of its group is alive
\* but what was forked while the last look was under way: every member /proc listed has been
\* seen to be gone or been killed.  Only an interrupt of the cleanup itself leaves more.
LeftIsNewborn == \A c \in Caller :
  gpc[c] = "returned" /\ verdict[c] # "abandoned" => InGroup(c) \subseteq newborn[c]

\* No signal reaches a group that took over the id of a leader that was reaped, not even
\* when an interrupt arrives between the reaping and the end of the call.
NoStrangerSignalled == hurt = {}
-----------------------------------------------------------------------------
(* The inductive invariant of the runners. *)

GroupOK(c) ==
  /\ stranger[c] => leader[c] = "reaped"
  /\ leader[c] = "reaped" => gpc[c] \in {"reaped", "term", "await", "returned", "dead"}
  /\ gpc[c] = "reaped" \/ (gpc[c] = "returned" /\ verdict[c] # "abandoned")
       => leader[c] = "reaped"
  /\ gpc[c] = "read" => InGroup(c) \subseteq listed[c] \cup newborn[c]
  /\ \/ leader[c] = "reaped"
     \/ gpc[c] \in {"stop", "reap"}
     \/ gpc[c] = "settle" /\ look[c] = 2
     => InGroup(c) \subseteq newborn[c]
GroupInv == (\A c \in Caller : GroupOK(c)) /\ NoStrangerSignalled
===============================================================================
