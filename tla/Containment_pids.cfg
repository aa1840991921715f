\* Three processes, one after the other or side by side, over two pids.
SPECIFICATION Spec
CONSTANTS
  Platform = "linux"
  Deployment <- Pairs
  Pid = {n1, n2}
  NoPid = NoPid
  Handler = {h1, h2}
  MaxBorn = 3
SYMMETRY Symmetry
CHECK_DEADLOCK FALSE
INVARIANTS TypeOK OneProgram FrozenUntilSigned
PROPERTIES ContinuesItsOwn HookSparesOthers RevokedVerifiersEnd PkillSparesCommands
