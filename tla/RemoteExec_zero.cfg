\* The same command, against the documented meaning of exit code 0.
SPECIFICATION Spec
CONSTANTS
  Platform = "darwin"
  Call = {c1}
  Codes <- ExitCodes
INVARIANT ZeroIsSuccess
