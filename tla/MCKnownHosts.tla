---------------------------- MODULE MCKnownHosts ----------------------------
(* Instances of KnownHosts for TLC. *)
EXTENDS KnownHosts, TLC

Symmetry == Permutations(Proc) \cup Permutations(Host) \cup Permutations(Key)
=============================================================================
