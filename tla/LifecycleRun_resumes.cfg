CONSTANTS
  None = None
  PlanId = PlanId
  Content = {m1}
  Accepted = {m1}
  MaxAttempts = 2
  MaxInvocations = 3
  CrashProne = 1
  Selections <- WholeChain
  Rerun = FALSE
  Flaky = {}
  FragileOutput = {}
  FragileReceipt = {}
SPECIFICATION FairSpec
PROPERTY ResumeCompletes
\* The command is started finitely often, so the system stops.
CHECK_DEADLOCK FALSE
