CONSTANTS
  None = None
  PlanId = PlanId
  Content = {m1, m2}
  Accepted = {m1}
  MaxAttempts = 2
  MaxInvocations = 3
  CrashProne = 1
  Selections <- WholeChain
  Rerun = TRUE
  Flaky = {"model_build"}
  FragileOutput = {"model_build"}
  FragileReceipt = {"calibration"}
SPECIFICATION Spec
INVARIANT TypeOK
INVARIANT VerifiedIsBacked
INVARIANT LineageConsistent
INVARIANT RegistryClosed
INVARIANT PublishedOnlyAccepted
PROPERTY NoAttemptRefunded
\* The command is started finitely often, so the system stops.
CHECK_DEADLOCK FALSE
