\* Three commands by two processes, no two on one file at once, each of which may be killed.
SPECIFICATION Spec
CONSTANTS
  Cli = {u1, u2}
  Inode = {i1, i2}
  NoInode = NoInode
  NoDoc = NoDoc
  NoCmd = NoCmd
  MaxBegun = 3
  Serial = TRUE
  Alias = {a1, a2}
  Host = {h1, h2}
  Cred = {k1, k2}
  NoTarget = NoTarget
  Spelling = {"a", "A", "b"}
  Aaguid = {"a", "b"}
  LowerOf <- SmallLetters
  Key = {p1, p2}
  Platform = "darwin"
  Model <- Models
  Synced = {k2}
  EarlierTables <- OldForm
  EarlierPolicies <- Capitals
SYMMETRY Symmetry
CHECK_DEADLOCK FALSE
INVARIANTS TypeOK FileWhole KeysSurvive
PROPERTIES ChangeSaved WholeCommands PolicyWhole RegisteredWasAllowed PublishedPrivate
