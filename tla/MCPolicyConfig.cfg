SPECIFICATION Spec
CONSTANTS
  Objs = {o1}
  VerifyModes <- MCVerifyModes
  Bounds <- MCBounds
  Forbids <- MCForbids
  Suites <- MCSuites
  Careful = TRUE
  None = None
INVARIANTS TypeOK ObjectKeepsMode ObjectKeepsVerification ObjectCanNegotiate NoNullSslCtx
CHECK_DEADLOCK FALSE
