\* Two commands, against what uon register says it did.
SPECIFICATION Spec
CONSTANTS
  Cli = {u1}
  Inode = {i1, i2}
  NoInode = NoInode
  NoDoc = NoDoc
  NoCmd = NoCmd
  MaxBegun = 2
  Serial = TRUE
  Alias = {a1, a2}
  Host = {h1, h2}
  Cred = {k1, k2}
  NoTarget = NoTarget
  Spelling = {"a", "A", "b"}
  Aaguid = {"a", "b"}
  LowerOf <- SmallLetters
  Key = {p1, p2}
  Platform = "darwin"
  Model <- Models
  Synced = {k2}
  EarlierTables <- OldForm
  EarlierPolicies <- Capitals
SYMMETRY Symmetry
CHECK_DEADLOCK FALSE
PROPERTY CredentialSaved
