---------------------------- MODULE MCRemoteExec ----------------------------
(* An instance of RemoteExec for TLC. *)
EXTENDS RemoteExec, TLC

ExitCodes == {0, 3}
=============================================================================
