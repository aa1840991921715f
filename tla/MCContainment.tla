---------------------------- MODULE MCContainment ----------------------------
(* Instances of Containment for TLC. *)
EXTENDS Containment, TLC

\* Any two of the three tools together.
Pairs == {{"hook", "caep"}, {"hook", "ssf"}, {"caep", "ssf"}}
Symmetry == Permutations(Pid) \cup Permutations(Handler)
=============================================================================
