CONSTANTS
  None = None
  PlanId = PlanId
  Content = {m1, m2}
  Accepted = {m1}
  MaxAttempts = 2
  MaxInvocations = 3
  CrashProne = 2
  Selections <- WholeChain
  Rerun = TRUE
  Flaky = {"model_build", "acceptance"}
  FragileOutput = {}
  FragileReceipt = {}
SPECIFICATION Spec
INVARIANT WorkIsKept
PROPERTY ChainIsGoverned
\* The command is started finitely often, so the system stops.
CHECK_DEADLOCK FALSE
