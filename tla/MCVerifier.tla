----------------------------- MODULE MCVerifier -----------------------------
(* Instances of Verifier for TLC. *)
EXTENDS Verifier, TLC

\* Race: sound envelopes, which reach the table, and some that are refused before it.
RaceEnvelopes == [session : Session, key : Key, defects : {{}, {"envelope"}}]

Symmetry == Permutations(Proc) \cup Permutations(Session)
=============================================================================
