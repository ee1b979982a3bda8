CONSTANTS
  None = None
  PlanId = PlanId
  Content = {m1, m2}
  Accepted = {m1}
  MaxAttempts = 2
  MaxInvocations = 2
  CrashProne = 0
  Selections <- SomeStages
  Rerun = FALSE
  Flaky = {"calibration", "acceptance", "publication", "release"}
  FragileOutput = {}
  FragileReceipt = {}
SPECIFICATION FairSpec
PROPERTY InvocationEnds
PROPERTY FirstRunDecides
\* The command is started finitely often, so the system stops.
CHECK_DEADLOCK FALSE
