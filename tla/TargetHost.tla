----------------------------- MODULE TargetHost -----------------------------
(***************************************************************************)
(* One target: the verifiers of Verifier.tla and the broker of Broker.tla. *)
(* A verifier that has checked everything calls the broker (the            *)
(* spawn_zsp_process of verify_and_execute) and ends with what the call    *)
(* returns; a verifier that is killed leaves its call and its command      *)
(* behind.                                                                 *)
(***************************************************************************)
EXTENDS Verifier, Broker

ASSUME OneCallEach == Call = Proc

hostvars == <<vars, bvars>>

HostInit == Init /\ BInit

\* Mutant: the command runs before its session is committed.
InsideWith(p) == pc[p] \in InTransaction \cup {"spawned"}
AfterChecks(p) == pc[p] = "spawned"

CallBroker(p) ==
  /\ AfterChecks(p)
  /\ CallerStep(p)
  /\ UNCHANGED vars

\* sys.exit, with the code of the call or with 1 when it raised.
CallOver(p) ==
  /\ client[p] \in {"answered", "failed"}
  /\ Return(p)
  /\ UNCHANGED bvars

KillVerifier(p) ==
  /\ Kill(p)
  /\ IF client[p] = "open" THEN Die(p) ELSE UNCHANGED bvars

ProcStep(p) == (Check(p) /\ UNCHANGED bvars) \/ CallBroker(p) \/ CallOver(p)

HostNext ==
  \/ World /\ UNCHANGED bvars
  \/ ServiceNext /\ UNCHANGED vars
  \/ \E p \in Proc : ProcStep(p) \/ KillVerifier(p)

HostSpec == HostInit /\ [][HostNext]_hostvars

\* Each verifier is scheduled, and its wait for the lock ends by SQLite's busy timeout; its
\* wait for the broker has no time-out and ends by the broker's own steps only.
FairHostSpec ==
  /\ HostSpec
  /\ ServiceFairness
  /\ \A p \in Proc : WF_hostvars(ProcStep(p))

-----------------------------------------------------------------------------
\* The requests whose command was started.
Ran == {p \in Proc : cmd[p] \in {"running"} \cup Finished}

\* Whatever dies between the check and the command, and however requests and the keys file are
\* interleaved with it: a command runs on the target only for a request whose session was
\* committed, whose assertion was sound, and whose key was once enrolled, and never for one
\* that its verifier refused (verify_and_execute, handle_connection).
OnlyVerifiedRun ==
  \A p \in Ran :
    /\ \E a \in accepted : a.request = p /\ a.session = env[p].session
    /\ env[p].defects = {} /\ env[p].key \in enrolled
    /\ pc[p] # "refused"

H == INSTANCE SessionWindow WITH Request <- Proc, granted <- Ran
\* The target as a whole keeps the promise of SessionWindow about the commands that run, not
\* only about those the broker is asked for: each acceptance runs at most one, and none runs
\* before its session is committed.
HostImplements == H!Spec
=============================================================================
