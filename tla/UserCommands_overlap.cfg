\* Two commands at once, against the documented promise of the stores.
SPECIFICATION Spec
CONSTANTS
  Cli = {u1, u2}
  Inode = {i1, i2, i3, i4}
  NoInode = NoInode
  NoDoc = NoDoc
  NoCmd = NoCmd
  MaxBegun = 2
  Serial = FALSE
  Alias = {a1, a2}
  Host = {h1, h2}
  Cred = {k1, k2}
  NoTarget = NoTarget
  Spelling = {"a", "A", "b"}
  Aaguid = {"a", "b"}
  LowerOf <- SmallLetters
  Key = {}
  Platform = "darwin"
  Model <- Models
  Synced = {k2}
  EarlierTables <- OldForm
  EarlierPolicies <- Capitals
SYMMETRY Symmetry
CHECK_DEADLOCK FALSE
INVARIANT FileWhole
