------------------------------ MODULE GovernedChain ------------------------------
(***************************************************************************)
(* What the lifecycle promises of one collection run, whatever happens to  *)
(* the processes that work on it: at every moment the verified stages form *)
(* a chain of evidence in which each stage cites exactly the evidence its  *)
(* dependencies stand on.  A stage joins once its dependencies have joined *)
(* and cites them as they are; evidence is withdrawn only together with    *)
(* everything that was built on it.                                        *)
(***************************************************************************)
CONSTANTS Stage, DEPENDENCIES, None, Cites(_, _, _)
  \* Cites(e, d, f): evidence e cites evidence f of stage d.

VARIABLE chain

Init == chain = [ s \in Stage |-> None ]

Joined == { s \in Stage : chain[s] # None }

\* The evidence a stage joins with is the implementation's to choose.
Join(s) ==
  /\ chain[s] = None /\ chain'[s] # None
  /\ DEPENDENCIES[s] \subseteq Joined
  /\ \A d \in DEPENDENCIES[s] : Cites(chain'[s], d, chain[d])
  /\ chain' = [chain EXCEPT ![s] = chain'[s]]

Withdraw(kept) ==
  /\ \A s \in kept : DEPENDENCIES[s] \subseteq kept
  /\ chain' = [ s \in Stage |-> IF s \in kept THEN chain[s] ELSE None ]

Next ==
  \/ \E s \in Stage : Join(s)
  \/ \E kept \in SUBSET Joined : Withdraw(kept)

Spec == Init /\ [][Next]_chain
==================================================================================
