---------------------------- MODULE Authenticator ----------------------------
(***************************************************************************)
(* auth/fido_local.py: which authenticator the controller finds, and how   *)
(* registering, signing and the step-up of CAEP may end.  The devices, the *)
(* fido2 library and the person are the environment: what a call finds     *)
(* plugged in and working is any set of devices.                           *)
(***************************************************************************)
CONSTANT Platform

ASSUME PlatformAssumption == Platform \in {"darwin", "win32", "linux"}

\* The platform's own authenticator, if it has one; "busError" stands for a USB bus that
\* cannot be listed.
OwnDevice == [darwin |-> {"touchid"}, win32 |-> {"hello"}, linux |-> {}]
Found == SUBSET {"touchid", "hello", "hid", "busError"}

\* _discover_client: any failure of the platform's own authenticator leads to the USB keys, a
\* failure to list those is raised.
Discover(found) ==
  IF OwnDevice[Platform] \cap found # {} THEN "client"
  ELSE IF "busError" \in found THEN "error"
  ELSE IF "hid" \in found THEN "client"
  ELSE "none"

\* register: a synced passkey is made, and then refused.
Registration(found, synced) ==
  CASE Discover(found) = "none" -> {"none"}
    [] Discover(found) = "error" -> {"error"}
    [] OTHER -> {"error"} \cup IF synced THEN {} ELSE {"credential"}

\* authenticate.
Authentication(found) ==
  CASE Discover(found) = "none" -> {"none"}
    [] Discover(found) = "error" -> {"error"}
    [] OTHER -> {"error", "assertion"}

\* prompt_fido2_step_up: only a failure to list the USB bus is raised.
StepUp(found) ==
  CASE Discover(found) = "none" -> {"none"}
    [] Discover(found) = "error" -> {"error"}
    [] OTHER -> {"none", "assertion"}
=============================================================================
