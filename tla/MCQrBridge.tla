----------------------------- MODULE MCQrBridge -----------------------------
(* Instances of QrBridge for TLC. *)
EXTENDS QrBridge, TLC
=============================================================================
