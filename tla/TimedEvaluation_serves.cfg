CONSTANTS
  Rows = 2
  Rounds = 2
  Trials = 2
  Warmup = 1
  Iterations = 2
  Faulty <- AllRows
  Mortal = TRUE
  Nothing = Nothing
SPECIFICATION FairSpec
INVARIANT TypeOK
INVARIANT AnswersMatch
INVARIANT EvidenceForPassed
PROPERTY EvaluationIsJudged
PROPERTY EvaluationEnds
\* An evaluation ends.
CHECK_DEADLOCK FALSE
