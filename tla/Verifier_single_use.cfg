\* Two verifiers and one session id, against the documented single use of a session id.
SPECIFICATION Spec
CONSTANTS
  Proc = {p1, p2}
  NoProc = NoProc
  Session = {s1}
  Key = {k1}
  Envelopes <- RaceEnvelopes
  TTL = 1
  MaxTime = 2
  Never = Never
INVARIANT AcceptedOnce
