\* Two verifiers and the broker: faulty envelopes, keys file rewritten, kills.
SPECIFICATION FairHostSpec
CONSTANTS
  Proc = {p1, p2}
  Call = {p1, p2}
  NoProc = NoProc
  Session = {s1, s2}
  Key = {k1}
  Envelopes <- FaultEnvelopes
  TTL = 0
  MaxTime = 0
  Never = Never
  Codes = {0}
INVARIANT OnlyVerifiedRun
PROPERTIES HostImplements VerifierEnds
