---------------------------- MODULE MCTargetHost ----------------------------
(* An instance of TargetHost for TLC. *)
EXTENDS TargetHost, TLC

\* A sound envelope for each session, and one that fails before the table and one after it.
FaultEnvelopes ==
  {e \in [session : Session, key : Key, defects : {{}} \cup {{"envelope"}, {"presence"}}] :
     e.defects # {} => e.session = CHOOSE s \in Session : TRUE}
=============================================================================
