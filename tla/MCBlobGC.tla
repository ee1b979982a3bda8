------------------------------- MODULE MCBlobGC -------------------------------
(* BlobGC over two stages of the chain, one built from the other.  They deliver *)
(* what the generation they supersede had delivered already.                   *)
EXTENDS BlobGC

CONSTANTS tree, corpus

TwoStages == {"collection_run", "corpus_snapshot"}
TwoDependencies ==
  [ s \in TwoStages |-> IF s = "corpus_snapshot" THEN {"collection_run"} ELSE {} ]
TwoOutputs == [ s \in TwoStages |-> IF s = "collection_run" THEN tree ELSE corpus ]
===============================================================================
