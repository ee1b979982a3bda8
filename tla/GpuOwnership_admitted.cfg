CONSTANTS
  Lease = {p1, p2, p3}
  Worker = {w1, w2}
  Operator = {o1}
  NoOne = NoOne
  Kinds = {"docker"}
  Admitted = TRUE
  Fault = {}
  StateDir <- OwnDirs
  LegacyDir = "legacy"
SPECIFICATION Spec
SYMMETRY Symmetry
INVARIANT TypeOK
INVARIANT WorkGated
INVARIANT ReadyMeansClean
PROPERTY RefinesGated
PROPERTY NoResetUnderContainer
\* Every run ends and a finished system stops.
CHECK_DEADLOCK FALSE
