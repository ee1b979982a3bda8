CONSTANTS
  c1 = c1
  c2 = c2
  v1 = v1
  v2 = v2
  NoCmd = NoCmd
  NoConf = NoConf
  Cmd = {c1, c2}
  Conf = {v1, v2}
  Problems = 2
  MaxCmds = 5
  Role = {"candidate"}
  TwoRuns = FALSE
SPECIFICATION Spec
SYMMETRY Alike
INVARIANT TypeOK
INVARIANT DoneIsComplete
PROPERTY ResultStays
PROPERTY QualifiedStaysQualified
PROPERTY ReleaseIsGated
\* Every command ends, and no more are given.
CHECK_DEADLOCK FALSE
