------------------------------ MODULE RemoteExec ------------------------------
(***************************************************************************)
(* One `uon <target> <command>` from end to end: the controller            *)
(* (_run_command, execute_session), the SSH channel, the verifier process  *)
(* sshd starts, and the broker of Broker.tla.  Verifier.tla details what   *)
(* the verifier checks: here it refuses or asks the broker.  What matters  *)
(* here is what the controller learns of the command.                      *)
(***************************************************************************)
EXTENDS Broker, Authenticator

VARIABLES
  ctl,      \* the controller of each call
  status,   \* execute_session's exit_status
  exitCode, \* the code the controller's process ended with
  ver,      \* the verifier process of each call
  verCode,  \* the code it exited with
  chan,     \* the SSH channel of each call: what wait() has next, if anything
  learnt    \* history: the ExitStatus message was received

rvars == <<ctl, status, exitCode, ver, verCode, chan, learnt>>
vars == <<bvars, rvars>>

VerifierLive == {"checking", "asking"}

TypeOK ==
  /\ BTypeOK
  /\ ctl \in [Call -> {"idle", "signing", "bridging", "connecting", "waiting", "done"}]
  /\ status \in [Call -> Codes \cup {0, 1}]
  /\ exitCode \in [Call -> Codes \cup {0, 1, NoCode}]
  /\ ver \in [Call -> {"none", "exited", "signalled"} \cup VerifierLive]
  /\ verCode \in [Call -> Codes \cup {1, NoCode}]
  /\ chan \in [Call -> {"none", "open", "refused", "status", "signal", "closed", "lost", "silent"}]
  /\ learnt \subseteq Call

Init ==
  /\ BInit
  /\ ctl = [c \in Call |-> "idle"]
  /\ status = [c \in Call |-> 0]
  /\ exitCode = [c \in Call |-> NoCode]
  /\ ver = [c \in Call |-> "none"]
  /\ verCode = [c \in Call |-> NoCode]
  /\ chan = [c \in Call |-> "none"]
  /\ learnt = {}

(***************************************************************************)
(* The controller.                                                         *)
(***************************************************************************)
Finish(c, k) ==
  /\ ctl' = [ctl EXCEPT ![c] = "done"]
  /\ exitCode' = [exitCode EXCEPT ![c] = k]

\* The target is looked up in the store: unknown, or without credentials, ends with 1.
Lookup(c) ==
  /\ ctl[c] = "idle"
  /\ \/ ctl' = [ctl EXCEPT ![c] = "signing"] /\ UNCHANGED exitCode
     \/ Finish(c, 1)
  /\ UNCHANGED <<bvars, status, ver, verCode, chan, learnt>>

\* Tier 1 of _resolve_signature: a local authenticator signs the challenge, or whatever it
\* raises leads to tier 2.  It waits for a person.
SignLocally(c) ==
  /\ ctl[c] = "signing"
  /\ \E found \in Found : "assertion" \in Authentication(found)
  /\ ctl' = [ctl EXCEPT ![c] = "connecting"]
  /\ UNCHANGED <<bvars, status, exitCode, ver, verCode, chan, learnt>>

LocalFails(c) ==
  /\ ctl[c] = "signing"
  /\ \E found \in Found : Authentication(found) \ {"assertion"} # {}
  /\ ctl' = [ctl EXCEPT ![c] = "bridging"]
  /\ UNCHANGED <<bvars, status, exitCode, ver, verCode, chan, learnt>>

\* Tier 2: the QR bridge, which QrBridge.tla details, returns an assertion or raises.
SignByPhone(c) ==
  /\ ctl[c] = "bridging"
  /\ ctl' = [ctl EXCEPT ![c] = "connecting"]
  /\ UNCHANGED <<bvars, status, exitCode, ver, verCode, chan, learnt>>

BridgeFails(c) ==
  /\ ctl[c] = "bridging"
  /\ Finish(c, 1)
  /\ UNCHANGED <<bvars, status, ver, verCode, chan, learnt>>

\* Connecting, authenticating, opening the channel or exec fails: SystemExit(1).
SessionFails(c) ==
  /\ ctl[c] = "connecting"
  /\ Finish(c, 1)
  /\ UNCHANGED <<bvars, status, ver, verCode, chan, learnt>>

\* exec reaches the target and ForceCommand starts the verifier.
Exec(c) ==
  /\ ctl[c] = "connecting"
  /\ ctl' = [ctl EXCEPT ![c] = "waiting"]
  /\ ver' = [ver EXCEPT ![c] = "checking"]
  /\ chan' = [chan EXCEPT ![c] = "open"]
  /\ UNCHANGED <<bvars, status, exitCode, verCode, learnt>>

\* The server answers exec with ChannelMsg::Failure, which the loop ignores: nothing is
\* started, and nobody closes the channel.
ExecRefused(c) ==
  /\ ctl[c] = "connecting"
  /\ ctl' = [ctl EXCEPT ![c] = "waiting"]
  /\ chan' = [chan EXCEPT ![c] = "refused"]
  /\ UNCHANGED <<bvars, status, exitCode, ver, verCode, learnt>>

\* exec is sent, and the connection is lost before the target starts anything.
ExecLost(c) ==
  /\ ctl[c] = "connecting"
  /\ ctl' = [ctl EXCEPT ![c] = "waiting"]
  /\ \E end \in {"lost", "silent"} : chan' = [chan EXCEPT ![c] = end]
  /\ UNCHANGED <<bvars, status, exitCode, ver, verCode, learnt>>

ReceiveStatus(c) ==
  /\ ctl[c] = "waiting"
  /\ chan[c] = "status"
  /\ status' = [status EXCEPT ![c] = verCode[c]]
  /\ learnt' = learnt \cup {c}
  /\ chan' = [chan EXCEPT ![c] = "closed"]
  /\ UNCHANGED <<bvars, ctl, exitCode, ver, verCode>>

\* ExitSignal is one of the messages the loop ignores.
ReceiveSignal(c) ==
  /\ ctl[c] = "waiting"
  /\ chan[c] = "signal"
  /\ chan' = [chan EXCEPT ![c] = "closed"]
  /\ UNCHANGED <<bvars, ctl, status, exitCode, ver, verCode, learnt>>

\* Mutant: a lost connection leaves wait() pending.
ClosedInOrder(c) == chan[c] = "closed"
\* wait() gives None: the channel was closed, or the connection was lost.
ChannelOver(c) == chan[c] \in {"closed", "lost"}

LoopEnds(c) ==
  /\ ctl[c] = "waiting"
  /\ ChannelOver(c)
  /\ Finish(c, status[c])
  /\ UNCHANGED <<bvars, status, ver, verCode, chan, learnt>>

(***************************************************************************)
(* The target: the verifier process and sshd.                              *)
(***************************************************************************)
VerifierExits(c, k) ==
  /\ ver' = [ver EXCEPT ![c] = "exited"]
  /\ verCode' = [verCode EXCEPT ![c] = k]

Refuse(c) ==
  /\ ver[c] = "checking"
  /\ VerifierExits(c, 1)
  /\ UNCHANGED <<bvars, ctl, status, exitCode, chan, learnt>>

Ask(c) ==
  /\ ver[c] = "checking"
  /\ ver' = [ver EXCEPT ![c] = "asking"]
  /\ UNCHANGED <<bvars, ctl, status, exitCode, verCode, chan, learnt>>

\* Mutants: the verifier swallows the failure of the broker, or ends with no code at all.
UncheckedAnswer(c) == answer[c]
FailureAsSuccess(c) == IF client[c] = "answered" THEN answer[c] ELSE 0
\* sys.exit(exit_code), or 1 when spawn_zsp_process raised.
SpawnResult(c) == IF client[c] = "answered" THEN answer[c] ELSE 1

Answered(c) ==
  /\ ver[c] = "asking"
  /\ client[c] \in {"answered", "failed"}
  /\ VerifierExits(c, SpawnResult(c))
  /\ UNCHANGED <<bvars, ctl, status, exitCode, chan, learnt>>

\* The verifier is killed; a call it is in dies with it.
KillVerifier(c) ==
  /\ ver[c] \in VerifierLive
  /\ ver' = [ver EXCEPT ![c] = "signalled"]
  /\ IF client[c] = "open" THEN Die(c) ELSE UNCHANGED bvars
  /\ UNCHANGED <<ctl, status, exitCode, verCode, chan, learnt>>

ReportEnd(c) == chan' = [chan EXCEPT ![c] = IF ver[c] = "exited" THEN "status" ELSE "signal"]

\* sshd sends exit-status or exit-signal, and closes the channel after it.
SshdReports(c) ==
  /\ chan[c] = "open"
  /\ ver[c] \in {"exited", "signalled"}
  /\ ReportEnd(c)
  /\ UNCHANGED <<bvars, ctl, status, exitCode, ver, verCode, learnt>>

\* The connection is reset or closed under the session: wait() gives None.  What is under way
\* on the target goes on.
ConnectionLost(c) ==
  /\ ctl[c] = "waiting" /\ chan[c] # "lost"
  /\ chan' = [chan EXCEPT ![c] = "lost"]
  /\ UNCHANGED <<bvars, ctl, status, exitCode, ver, verCode, learnt>>

\* The peer or the network goes away without a word: the session sends nothing while it waits,
\* and Config::default() has no keepalive and no inactivity time-out.
Silence(c) ==
  /\ ctl[c] = "waiting" /\ chan[c] \notin {"lost", "silent"}
  /\ chan' = [chan EXCEPT ![c] = "silent"]
  /\ UNCHANGED <<bvars, ctl, status, exitCode, ver, verCode, learnt>>

Network(c) == ConnectionLost(c) \/ Silence(c)

Sign(c) == Lookup(c) \/ SignLocally(c) \/ LocalFails(c)

Start(c) ==
  \/ SignByPhone(c) \/ BridgeFails(c)
  \/ SessionFails(c) \/ Exec(c) \/ ExecRefused(c) \/ ExecLost(c)

SessionStep(c) == ReceiveStatus(c) \/ ReceiveSignal(c) \/ LoopEnds(c)

TargetStep(c) ==
  \/ Refuse(c) \/ Ask(c) \/ Answered(c) \/ SshdReports(c)
  \/ ver[c] = "asking" /\ CallerStep(c) /\ UNCHANGED rvars

Service == ServiceNext /\ UNCHANGED rvars

Next ==
  \/ Service
  \/ \E c \in Call :
       \/ Sign(c) \/ Start(c) \/ SessionStep(c)
       \/ TargetStep(c) \/ KillVerifier(c) \/ Network(c)

Spec == Init /\ [][Next]_vars

\* Nothing is assumed of the person who signs, of a server that accepts a connection and then
\* says nothing (connecting and authenticating have no time-out), or of a lost connection
\* being noticed: only what has arrived is read, and the target's processes run.
FairSpec ==
  /\ Spec
  /\ ServiceFairness
  /\ \A c \in Call : WF_vars(SessionStep(c)) /\ WF_vars(TargetStep(c))

-----------------------------------------------------------------------------
\* A code that neither the verifier nor the controller makes up is the remote command's own,
\* whatever was killed, restarted or lost on the way (_run_command, execute_session).
OtherCodesAreTheCommands ==
  \A c \in Call : exitCode[c] \notin {NoCode, 0, 1} =>
    cmd[c] = "exited" /\ code[c] = exitCode[c]

\* An exit status of 0 that the controller received is the remote command's success.
ReceivedZeroIsSuccess ==
  \A c \in Call : c \in learnt /\ status[c] = 0 => cmd[c] = "exited" /\ code[c] = 0

\* Once exec is sent the controller ends, whatever is killed or restarted on the target and
\* although wait() has no time-out: only an exec that the server refused, or a connection that
\* went silent, keeps it waiting for ever (execute_session).
ControllerEnds ==
  \A c \in Call :
    ctl[c] = "waiting" ~> \/ ctl[c] = "done"
                          \/ [](ctl[c] = "waiting" /\ chan[c] \in {"refused", "silent"})

\* Claimed by the CLI ("with the remote process's exit code") and by the README: the
\* controller ends with 0 only if the remote command did.
ZeroIsSuccess ==
  \A c \in Call : exitCode[c] = 0 => cmd[c] = "exited" /\ code[c] = 0
=============================================================================
