-------------------------------- MODULE Amdns --------------------------------
(***************************************************************************)
(* uon_core/amdns_core.rs: the 30-second windows of a discovery beacon.    *)
(* The message is the alias and a window, so a beacon that was made with   *)
(* the secret at second b is accepted at second t exactly if the window of *)
(* b is one of the three that verify_discovery_beacon tries.               *)
(***************************************************************************)
EXTENDS Integers, TLAPS

\* u64, and the last second an i64 can hold.
Word == 18446744073709551616
LastSecond == 9223372036854775807

\* compute_amdns_hmac.
Window(s) == s \div 30

AsU64(s) == s % Word

\* verify_discovery_beacon, for a tolerance of d seconds.
Offsets(d) == {0, -d, d}
Windows(t, d) == {Window(AsU64(t + o)) : o \in Offsets(d)}
Accepts(t, d, b) == Window(b) \in Windows(t, d)

\* The clock and the tolerance, where nothing overflows or is negative.
InRange(t, d) == d <= t /\ t + d <= LastSecond

LEMMA WindowsInRange ==
  ASSUME NEW t \in Nat, NEW d \in Nat, InRange(t, d)
  PROVE  Windows(t, d) = {Window(t), Window(t - d), Window(t + d)}
<1>1. AsU64(t + 0) = t /\ AsU64(t + -d) = t - d /\ AsU64(t + d) = t + d
  BY DEF AsU64, Word, LastSecond, InRange
<1> QED BY <1>1 DEF Windows, Offsets

\* With the default tolerance of 30 s, or less, a beacon within the tolerance is accepted:
\* the three windows leave no gap (time_tolerance_seconds).
THEOREM DriftTolerated ==
  ASSUME NEW t \in Nat, NEW d \in Nat, NEW b \in Nat, InRange(t, d),
         d <= 30, t - d <= b, b <= t + d
  PROVE  Accepts(t, d, b)
<1>1. Window(b) = Window(t) \/ Window(b) = Window(t - d) \/ Window(b) = Window(t + d)
  BY DEF Window, InRange
<1> QED BY <1>1, WindowsInRange DEF Accepts

\* What is accepted is never a whole window older or newer than the tolerance says.
THEOREM DriftBounded ==
  ASSUME NEW t \in Nat, NEW d \in Nat, NEW b \in Nat, InRange(t, d), Accepts(t, d, b)
  PROVE  t - d - 30 < b /\ b < t + d + 30
<1>1. Window(b) = Window(t) \/ Window(b) = Window(t - d) \/ Window(b) = Window(t + d)
  BY WindowsInRange DEF Accepts
<1> QED BY <1>1 DEF Window, InRange

\* A wider tolerance leaves gaps: at the start of a window, 60 s refuse a beacon that is 30 s
\* old, although time_tolerance_seconds is called the accepted clock drift.
THEOREM WideToleranceHasGaps ==
  ASSUME NEW k \in Nat, k >= 2, InRange(30 * k, 60)
  PROVE  ~Accepts(30 * k, 60, 30 * k - 30)
<1>1. /\ Window(30 * k - 30) = k - 1 /\ Window(30 * k) = k
      /\ Window(30 * k - 60) = k - 2 /\ Window(30 * k + 60) = k + 2
  BY DEF Window
<1>2. Windows(30 * k, 60) = {k, k - 2, k + 2}
  BY <1>1, WindowsInRange
<1> QED BY <1>1, <1>2 DEF Accepts
=============================================================================
