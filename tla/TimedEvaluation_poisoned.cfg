CONSTANTS
  Rows = 2
  Rounds = 1
  Trials = 1
  Warmup = 1
  Iterations = 1
  Faulty <- FirstRow
  Mortal = FALSE
  Nothing = Nothing
SPECIFICATION Spec
INVARIANT RuntimeErrorIsOwn
\* An evaluation ends.
CHECK_DEADLOCK FALSE
