CONSTANTS
  Lease = {p1, p2}
  Worker = {w1, w2}
  Operator = {o1}
  NoOne = NoOne
  Kinds = {"docker", "host", "native"}
  Admitted = FALSE
  Fault = {"cid_unreadable", "escape"}
  StateDir <- SharedDir
  LegacyDir = "legacy"
SPECIFICATION Spec
SYMMETRY Symmetry
INVARIANT ClockGate
INVARIANT SoleResponsibility
INVARIANT MeasuredAtPeak
\* Every run ends and a finished system stops.
CHECK_DEADLOCK FALSE
