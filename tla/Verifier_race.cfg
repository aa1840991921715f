\* Three verifiers race for one or two session ids; any clock.
SPECIFICATION Spec
CONSTANTS
  Proc = {p1, p2, p3}
  NoProc = NoProc
  Session = {s1, s2}
  Key = {k1}
  Envelopes <- RaceEnvelopes
  TTL = 1
  MaxTime = 3
  Never = Never
SYMMETRY Symmetry
INVARIANTS TypeOK OneTransaction Remembered
PROPERTIES ReuseOnlyAfterWindow Implements
