\* Two processes and three checks over one file, with every failure and kill.
SPECIFICATION Spec
CONSTANTS
  Proc = {p1, p2}
  Host = {h1, h2}
  Key = {k1}
  None = None
  Garbled = Garbled
  Space = Space
  MaxSessions = 3
  MaxTick = 1
SYMMETRY Symmetry
CHECK_DEADLOCK FALSE
INVARIANTS TypeOK NoSecondFirstUse
PROPERTIES StaysRecorded
