CONSTANTS
  tree = tree
  corpus = corpus
  NoOne = NoOne
  Stage <- TwoStages
  DEPENDENCIES <- TwoDependencies
  Output = {tree, corpus}
  Out <- TwoOutputs
  Old = {tree, corpus}
  Successor = "collection_run"
  Collector = {g1}
  MaxAttempts = 2
  Flaky = {"corpus_snapshot"}
  MaxKills = 1
  Overlap = TRUE
SPECIFICATION FairSpec
INVARIANT TypeOK
INVARIANT OutputsKept
PROPERTY OnlyUnreachableDeleted
PROPERTY GarbageGoes
