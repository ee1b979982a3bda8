CONSTANTS
  Lease = {p1}
  Worker = {w1, w2}
  Operator = {o1}
  NoOne = NoOne
  Kinds = {"docker", "host", "native"}
  Admitted = TRUE
  Fault = {}
  StateDir <- SharedDir
  LegacyDir = "legacy"
SPECIFICATION RecoverySpec
PROPERTY OwnershipIsReleased
PROPERTY GateEventuallyClears
\* Every run ends and a finished system stops.
CHECK_DEADLOCK FALSE
