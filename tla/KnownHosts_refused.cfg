\* One process at a time is enough: a save that is cut short.
SPECIFICATION Spec
CONSTANTS
  Proc = {p1}
  Host = {h1}
  Key = {k1}
  None = None
  Garbled = Garbled
  Space = Space
  MaxSessions = 3
  MaxTick = 1
CHECK_DEADLOCK FALSE
INVARIANT RefusedOnlyIfChanged
