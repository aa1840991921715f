# uon: a TLA+ development

`uon` runs one shell command on a remote machine after a FIDO2 authenticator has
signed for it. A controller (Python CLI over a Rust core) finds the target in a local
store, obtains an assertion from a local authenticator or from a phone (QR bridge),
and sends a sealed envelope over SSH. On the target, sshd's forced command starts a
verifier, which takes the session id once, checks the assertion, and hands the command
to a broker that runs it with fewer privileges. This directory models those parts,
checks them with TLC and proves the most important properties with TLAPS.

All paths below are relative to the repository root.

## 1. Inventory

| Component | Code | State | Operations | Hard behaviour |
|---|---|---|---|---|
| Verifier | `scripts/uon_verifier.py` | SQLite table of used sessions; reads `authorized_passkeys.json` | `_check_replay`, `load_authorized_keys`, `verify_and_execute` | one process per SSH command, races on the table, busy timeouts, death inside a transaction, a wall clock that may be set, a keys file that is being copied |
| ZSP broker | `src/uon_core/zsp_broker.rs` | the socket, one thread per connection | `prepare_socket`, `handle_connection`, `run_command`, `write_response` | death at any point, a socket that exists before it may be used, half-read requests |
| ZSP client | `src/uon_core/zsp_core.rs` | one connection | `execute_via_broker` | half-read responses, no time-out |
| SSH session | `src/uon_core/ssh_core.rs` | channel, exit status | `execute_session`, `generate_challenge` | a lost connection, one that goes silent, a refused exec, exit by signal |
| Known hosts | `src/uon_core/ssh_core.rs` | `known_hosts`, a cache per process | `check_server_key`, `load_known_hosts`, `save_host_key` | concurrent first contacts, torn appends, a stale cache |
| Target store | `src/uon/utils/config.py` and `add`, `list`, `remove`, `register` of `src/uon/cli.py` | `targets.json`, `targets.tmp`, a copy in memory | load, add, remove, save | kills within a save, two commands at once, an aliased object |
| Policy store | `src/uon/utils/policy.py` and `policy` of `src/uon/cli.py` | `allowed_aaguids.json`, `.tmp`, a copy in memory | load, add, remove, clear, check | as the target store; changed while `register` waits for a person |
| QR bridge | `src/uon/auth/qr_bridge.py` | `QrBridgeResult`, its event, the uvicorn thread, the page's button | `/sign`, `/callback`, `request_signature_via_qr` | two threads, several posts, lost answers, a time-out that races with an answer, posts that do not decode |
| Tiered signing | `src/uon/auth/fido_local.py`, `_resolve_signature` | none | local authenticator, else QR bridge | fall-back order, which failures are raised |
| Key enrolment | `scripts/setup_uon.py` | `authorized_passkeys.json` | append a key | a rewrite in place |
| CAEP intervention | `src/uon/ux/intervention.py`, `src/uon_core/caep_intervention.rs` | stopped processes | freeze, step up, resume | pids that end or are used again while a person decides, two prompts for one pid |
| eBPF monitor | `src/uon_ebpf/ebpf_monitor.py` | a counter per pid, in a hash that may be full | attach, `monitor_pid`, the fork and execve hooks | entries are never removed, pids are used again, thread ids beside process ids, an attach that fails half-way |
| SSF receiver | `src/uon/auth/ssf_receiver.py`, `src/uon_core/ssf_core.rs` | none | kill the verifiers of a subject | `pkill` looks, then signals; its pattern is searched for in whole command lines; a failed `pkill` is accepted |
| AmDNS | `src/uon_core/amdns_core.rs`, `src/uon/transport/amdns.py` | none | beacon, verify | window arithmetic at boundaries |
| Scripts | `scripts/install_target.sh`, `scripts/harden_target.sh` | `authorized_keys`, `sshd_config` | hook keys, set directives, roll back | interruption, repeated runs |
| PQC wrapper, DTOs, screens, stubs | `src/uon/transport/pqc.py`, `src/uon/contracts`, `src/uon/ux`, `wasm_bridge.rs`, `macos_es.rs` | none shared | pure functions and views | none |

**How they interact.** The controller reads the target store, calls an authenticator or
the QR bridge, and calls `execute_session`. sshd starts a verifier and reports how it
ended. The verifier and the broker share a Unix socket; the verifiers of one account
share a SQLite file and the keys file; all commands of one user share `targets.json`,
`allowed_aaguids.json` and `known_hosts`, and `uon register` reads two of them. The
execve hook, the CAEP handlers and the SSF receiver act on the processes of one target by
nothing but pids. There is no other shared state.

**What makes each of them correct.** The target accepts a session id at most once per
window and runs nothing that was not verified. A call of the broker returns the truth
about its own command and always returns, and one that failed unsent may be repeated. The
controller's exit code says what it knows. The stores stay whole, private, and lose no
change; a credential is registered only if a policy that stood after the prompt allows it.
The bridge ends, returns what was posted, and a page that says "Signed!" tells the truth. A
host key, once pinned, is the only one accepted. A frozen process runs again only after a
step-up, and a tool that acts on a pid meets the process it meant.

## 2. Modules

| Module | Models |
|---|---|
| `SessionWindow` | abstract: acceptance at most once per window, execution at most once per acceptance |
| `Verifier` | verifier processes, the table with its lock and transactions, the clock, the keys file |
| `Broker` | callers, connections, broker threads and commands |
| `BrokerProofs` | theorems about `Broker` |
| `TargetHost` | the verifiers and the broker of one target, composed |
| `TargetHostProofs` | theorems about `Verifier` and `TargetHost`, among them that both implement `SessionWindow` |
| `Authenticator` | operators: the devices found, and how registering, signing and the step-up may end |
| `RemoteExec` | extends `Broker` and `Authenticator` with the controller, the SSH channel, sshd and a coarse verifier |
| `RemoteExecProofs` | theorems about `RemoteExec`, over those of `BrokerProofs` |
| `ConfigDir` | the processes of the `uon` commands, the files as inodes with names, `_save` |
| `TargetStore` | extends `ConfigDir` with `targets.json` and its commands |
| `PolicyStore` | extends `ConfigDir` with `allowed_aaguids.json` and its commands |
| `KeyEnrolment` | extends `ConfigDir` with `authorized_passkeys.json` and `setup_uon.py` |
| `UserCommands` | composes the three and `Authenticator`; adds `register`, which joins the stores |
| `TargetTable`, `PolicyList` | abstract: a table, and an allowlist, changed by one whole command at a time |
| `UserCommandsProofs` | theorems about `UserCommands`, among them that it implements both |
| `QrBridge`, `QrBridgeProofs` | main thread, uvicorn thread, posts, pages; theorems |
| `KnownHosts`, `KnownHostsProofs` | controllers that check host keys over one `known_hosts` file; theorems |
| `Containment`, `ContainmentProofs` | processes over pids that are used again, under the execve hook, the CAEP handlers and the SSF receiver; theorems |
| `Amdns` | operators and theorems: the windows a beacon is compared with; there is no state |
| `MCVerifier`, `MCTargetHost`, `MCRemoteExec`, `MCUserCommands`, `MCQrBridge`, `MCKnownHosts`, `MCContainment` | envelopes, codes, files, deployments and symmetry sets for TLC |

**Verifier.** `pc[p]` is the place of a process in `verify_and_execute`. A statement of
the `with` block of `_check_replay` is an action (`Purge`, `ReplayDetected` or `Insert`,
`Commit`), because a process may be killed between them. `Purge` opens Python's
implicit transaction, so it waits for `lock`; the transaction's rows are in `work` until
`Commit`. Leaving the block by `sys.exit`, by an error or by death rolls back. The clock
is read (`ReadClock`) before the lock is taken, as in the code, and may be set to
anything at any time. Cryptography is abstracted to `defects`, the checks an envelope
fails, and `key`, the passkey that signed it. `Checks` lists the tests in their order;
the three early ones precede the table. `accepted`, `asked`, `latest` and `enrolled` are
history variables. The read of the keys file sees it missing, torn or complete;
a process serves one command, so its cache of the keys is never read.

**Broker.** `req` and `resp` say how much of a line has been written: the JSON and its
newline are two writes, and a process that dies within the first leaves a part of it.
`read_line` returns a line, or what there is at the end of the stream, so a JSON without
newline still parses and a part does not. `NoCode` marks a code that is not there yet.
A command is a process of its own and may outlive the broker. Parsing the command and
dropping privileges are abstracted to whether the program starts.

**TargetHost.** The two halves of a target, each in full. `Verifier` alone leaves a call of
the broker open until it returns, in any way; here a verifier at that place (`"spawned"`)
takes the caller's steps of `Broker` (`CallBroker`) and ends when the call has an answer or
an error (`CallOver`). A process makes at most one call, so a call is named by its verifier
(`OneCallEach`). A kill of the verifier (`KillVerifier`) closes its end of the connection;
a command that has started survives it. `World` is the clock and the keys file.

**Authenticator.** What is plugged in and works is any set of devices, chosen anew at each
call. `Discover` is the order in which `_discover_client` tries them and which failure it
raises; `Registration`, `Authentication` and `StepUp` are the ways the three ceremonies may
end in the code, an exception included.

**RemoteExec.** A controller looks its target up, signs (a local authenticator, then the QR
bridge) and connects. `Exec` starts a verifier; it refuses (any of the checks of `Verifier`)
or calls the broker with the actions of `Broker`. `chan` is what the server end of the
channel reported and the controller may still read. A server that refuses the request
(`ExecRefused`) leaves the channel open and the loop of `execute_session` ignores its answer;
a connection is lost in a way that `wait()` sees (`ConnectionLost`, `ExecLost`) or without a
word (`Silence`), since no keepalive is configured. The transports and authentication methods
of `execute_session` are one step that may fail.

**ConfigDir.** A command is a process that loads a document into `mem`, changes it and saves
it. An inode has a text: a whole document and its size, or no document, and whether it is
private. `open` with "w" truncates the inode that has the name or makes a new one; a write
at offset 0 over a longer text leaves its tail (`Over`); `chmod` and `rename` go by name.
Writes that fail for lack of space, and a kill within one write, leave what a kill before it
leaves. `Serial` says whether two commands may save the same file at once.

**TargetStore, PolicyStore, KeyEnrolment.** Each has its loads, its changes and its save.
`targets.json` may be in the older form (`FromDict`). The allowlist may hold any spelling of
a model (`LowerOf`). `SaveTargets` and `SavePolicy` are `_save`; `setup_uon.py` opens its
file in place, so a kill between open and write empties it (`KillSetup`).

**UserCommands.** `Init` holds any file an earlier release or an editor may have left.
`register` is three steps, for other processes act between them: `Enroll` is the prompt, which
may take minutes, `ReadPolicy` loads the policy as it is by then, `Register` asks that copy
and keeps the aliasing of the code: the object changed is the object compared. From
`check_credential` to its exit the process touches nothing shared, so that is one step. The
history `seen` collects what the policy file has held since the prompt of a process was
answered; `Note` writes it along with every step.

**QrBridge.** `set_assertion` is two steps and the four look-ups of the result are four
steps: the interpreter may switch threads between any two. The handlers run on one event
loop, so they interleave only at `await request.json()`. The server sees `should_exit`
some time after it is set and finishes the requests it has. `page` is what a browser shows:
its button is disabled from the tap until the answer, or its loss, gives it back; `sender`
is the page of a post and `word` whether its answer was heard. A post of another program has
no page; the handler checks that its fields are there, not that they are base64, so
`Decodes` lets `b64decode` raise on one (`"raised"`) and never on what `btoa` of the page made.
Whether uvicorn accepts the `ssl` argument `_ServerThread` gives it is a matter of
that library; the model starts where the thread exists, as the tests do.

**KnownHosts.** `pinned` is what the ended lines of the file say, `tail` the line not ended
yet, piece by piece: `writeln!` on a `File` is one write for each piece. `Known` parses
them as `parse_known_hosts` does (trim, first blank, last line wins); a line whose effect
can no longer change is not extended (`Settled`). `modified` is the file's time in ticks of
`clock`, several writes to a tick; the cache of a process is used while its time is the
file's. Reading the time, the look-up in the cache and the verdict are one step, since
nothing shared is touched between them; reading the file is another, since other processes
may write in between. `End` is the end of a process or its death: the next process in its
place has an empty cache. `before`, `first`, `readAt` and `shown` are history variables.

**Containment.** `proc` is the process that has each pid, with an identity no other process
ever has; the three tools see the pid only. `Deployment` says which of them a host may use.
The hook's counts are none, zero or counted; `full` says that entries of other pids have
taken the room. `Attach` may fail after the fork hook (`hooks = "fork"`). The fork tracepoint
has the ids of threads and the execve hook those of processes: `Fork` takes the entry of
whichever thread forks, which is its process's or, for another thread, any; `Thread` is the
same tracepoint for a new thread. `Execveat` starts a program past the hook. The kind of a
process is what `pkill -f` can tell of its command line: a verifier, one that mentions
`uon_verifier.py`, one that never did, and one that did before; it changes with the program
(`Recast`). Command lines are all alike where `pkill` is not in use (`Told`). `Matches` is what
a pattern may match: all of the first two kinds for an empty subject; for a plain subject any
that mention the script, of which no verifier, whose command line has no subject; anything
for a subject with operators of a regular expression, which `shlex.quote` leaves in. `since`
says what became of the process that a handler froze, `signed[h]` which handlers had frozen
that process when the signature of `h` was given, and `stale[h]` which prompts for the pid
were there before the freeze of `h` and are not about it, or were answered before it; these,
`frozen`, `due` and the fields `watched`, `dropped`, `starts`, `missed` and `heir` of a process
are history. `Scan` and `KillListed` are the two halves of `pkill`. An event is what
`parse_ssf_event` makes of it.

## 3. Runs

| Run | Instance | Shows |
|---|---|---|
| `Verifier_race` | 3 processes, 2 sessions, envelopes that reach the table and some that do not, TTL 1, clock 0..3 | `OneTransaction`, `Remembered`, `ReuseOnlyAfterWindow`, `Implements` |
| `TargetHost_faults` | 2 verifiers and the broker, 2 sessions, a sound envelope for each, one that fails before the table and one that fails after it, TTL 0 | `OnlyVerifiedRun`, `HostImplements`, `VerifierEnds` |
| `Verifier_single_use` | 2 processes, 1 session | counterexample to `AcceptedOnce` |
| `RemoteExec_end` | 1 call, exit codes 0 and 3 | `AnswerIsTheCommands`, `UnsentNeverRuns`, `OtherCodesAreTheCommands`, `ReceivedZeroIsSuccess`, `CallReturns`, `ControllerEnds` |
| `RemoteExec_zero` | 1 call | counterexample to `ZeroIsSuccess` |
| `UserCommands_serial` | 2 processes, 3 commands of any kind, no two on one file at once; 2 aliases, 2 hosts, 2 credentials, 2 models, 2 keys | `FileWhole`, `KeysSurvive`, `ChangeSaved`, `WholeCommands`, `PolicyWhole`, `RegisteredWasAllowed`, `PublishedPrivate` |
| `UserCommands_overlap` | 2 commands at once | counterexample to `FileWhole` |
| `UserCommands_register` | 1 process, 2 commands | counterexample to `CredentialSaved` |
| `QrBridge_posts` | 1 page, 3 posts of it or of other programs | `WokenFindsAssertion`, `OnlyWellFormedReturned`, `MixedOnlyByTwo`, `BridgeEnds`, `SignedIsReturned` |
| `Containment_pids` | 2 pids, 3 processes ever, 2 handlers, any two of the three tools | `OneProgram`, `HookSparesOthers`, `FrozenUntilSigned`, `ContinuesItsOwn`, `RevokedVerifiersEnd`, `PkillSparesCommands` |
| `KnownHosts_shared` | 2 processes, 2 hosts, 3 checks, 2 ticks | `StaysRecorded`, `NoSecondFirstUse` |
| `KnownHosts_refused` | 1 process, 1 host, 3 checks | counterexample to `RefusedOnlyIfChanged` |

The runs of `Verifier`, `RemoteExec`, `UserCommands`, `QrBridge`, `KnownHosts` and
`Containment` also check the type invariant; `TargetHost` has those of its two parts.

**Bounds and why they are enough.** Three verifiers are one in the transaction, one that
waits with an old stamp and one that has committed: the proof never needs a fourth. With
TTL 1 a clock of 0..3 reaches before, at and after the threshold twice. In `TargetHost_faults`
one clock reading suffices, for windows are the business of `Verifier_race`; one check before
the table and one after it stand for the others, which lead to the same two places; two
verifiers are one that holds the lock or a session and one that wants it. Broker calls share
nothing but the broker's death, so one call meets every order of deaths; `BrokerProofs` and
`RemoteExecProofs` cover any number of them.

`MaxBegun` is 3 in `UserCommands_serial`: three commands one after the other leave a
temporary file, reuse it and read the result, or change the policy while a `register` waits.
A file then has at most two inodes, its own and the temporary one. Two hosts let an `add`
that keeps the old target show; two spellings of one model and another model let a
comparison show that is not by small letters; one of the credentials is synced. The
overlapping run has four inodes, for two processes may each have one open.

Three posts are one that wakes the main thread, one that replaces its assertion, one after
the server has gone. `MaxBorn` is 3 over two pids: a process, the one that gets its pid, and
one beside them; two handlers are enough for two prompts about one pid. The three tools
share no state but the processes, and two are enough for one of them to act on what another
has stopped or ended; all three at once multiply the states without a new case. Three births
are enough for a fork by a thread with a stale entry, for a pid that is used again between
`Scan` and `KillListed`, and for a prompt that asks about an earlier process.
`ContainmentProofs` covers any deployment.

Three checks of host keys are one that fills a cache, one that records a host under it, and
one that should notice; one fingerprint is enough there, since the properties of that run ask
whether a host is known and not by which key. Symmetry is used for safety and action
properties only, never in a run with liveness. Every safety and action property of a passing
run is also proved, without these bounds (section 5).

**Deadlock.** TLC checks it in every run but those of `UserCommands`, `QrBridge`,
`Containment` and `KnownHosts`, whose processes end or whose bound is used up. In `Verifier`
and `TargetHost` the clock and the keys file never stop, and in `TargetHost` and `RemoteExec`
the broker restarts, so there the check says little; `VerifierEnds`, `CallReturns`,
`ControllerEnds` and the theorems `NeverStuck` and `VerifierNeverStuck` say what matters.

**Fairness.** Each process or thread that can take a step takes one: the operating system
schedules it. A verifier's wait for the lock ends by SQLite's busy timeout; its wait for the
broker has no time-out, so `FairHostSpec` lets it end only by the broker's own steps.
Commands end, and so do those they have started that hold their pipes, for `output()` reads to
the end of both. Of the controller only what follows `exec` is fair, and there only that it
reads what has arrived: connecting and authenticating have no time-out, a person signs, and
that a lost connection is noticed is not assumed. `ControllerEnds` says what this leaves: the
wait ends, or lasts for ever with an exec that was refused or a connection that went silent.
The main thread's `wait` and `join` have time-outs. Nothing is assumed of the
clock, of kills, of the keys file, of broker restarts (systemd gives up after repeated
failures), of the page, the phone or the server thread: `BridgeEnds` and `SignedIsReturned`
follow from the main thread alone. `UserCommands`, `KnownHosts` and `Containment` state no
fairness and no liveness: each of their waits is a person's, or a step of the kernel.

## 4. What the counterexamples say

1. *A session id can be accepted twice.* `_check_replay` purges rows older than 300 s and
   the envelope carries no time of its own. The README and `docs/SECURITY_AND_PQC.md` say
   that reuse is rejected; what holds, and is proved, is `ReuseOnlyAfterWindow`.
2. *Exit code 0 need not be success.* `execute_session` starts from 0 and ignores
   exit-signal and a lost connection. What holds is `ReceivedZeroIsSuccess`, and,
   as `ZeroOnlyMadeUp` proves, a false 0 comes from nothing but an exit status that never
   arrived.
3. *`uon register` saves nothing.* It changes the object that the store holds and then asks
   the store to save a change the store cannot see. `ChangeSaved` holds of every other
   command, and `NothingRegistered` proves that a `register` that ends well has changed no
   file, whatever else runs.
4. *Two commands at once can leave a half-written `targets.json`.* They share `targets.tmp`.
   What holds is `FileWhole` while no two commands save one file at once. The allowlist has
   the same fault; `OverlapNeverOpens` bounds the harm: without `distrust` or `clear`, no
   overlap and no kill turns an allowlist that restricts into one that allows any model.
5. *A host whose key never changed can be refused for good.* A save that is cut short leaves
   half a line; the next save continues it, and the host is recorded with a text that is no
   fingerprint. What holds is `StaysRecorded` and, with the exceptions it names (a file that
   cannot be read, a cache filled in the tick of the last write), `NoSecondFirstUse`.
   `RefusedRightly` proves that saves cut short or overlapping are the only causes: otherwise
   only a host that showed another key is refused. Two saves that overlap can
   also join their pieces into a line of one host with the other's key; without that, no key is
   ever recorded for a host that has not presented it (`RecordsItsOwn`).

The exceptions that other properties name are behaviours of the code, too:

- `MixedOnlyByTwo`: a returned assertion may be made of two, when a second accepted post
  replaces the result while its fields are read. It takes two parties, or a page that lost
  an answer and signed again.
- `SignedIsReturned`: a second post, of another program that has the token, may replace the
  assertion of a page that was told "Signed!" and fail to decode. The bridge then ends with an
  exception that `_resolve_signature` does not catch (`BridgeFails`).
- `ControllerEnds`: a refused exec and a connection that goes silent keep `wait()` for ever.
- `RegisteredWasAllowed`: a policy that is published after `register` has read the file does not
  stop it; one that was published while the prompt was open does.
- `RevokedVerifiersEnd` is about events with an empty subject. `kill_uon_sessions` says that
  it kills the verifiers that run for a subject; its pattern is the script followed by the
  subject, and the forced command has no argument, so a named subject matches no verifier.
- `PkillSparesCommands`: what mentions the script, as an editor or a shell may, is ended with
  the verifiers; a subject with operators of a regular expression may match any process; and
  a pid may be another's between the look and the signal.
- `OneProgram` and `HookSparesOthers`: the hook is attached to `execve`, so a program started by
  `execveat` (or `fexecve`) is not counted; a fork by a thread other than the first hands on
  that thread's entry, which may be missing or stale, so the child is not watched or starts
  with a count that is not its parent's; a fork into a full hash is not watched; entries of
  ended pids stay, so a process with a used pid may be ended at its first program; a call of
  execve for a file that is not there counts, as a search along `PATH` makes; an attach that
  failed at execve watches nothing.
- `FrozenUntilSigned`: a prompt for the pid that was signed before a second handler's freeze
  continues the process after it, and so may one that asked about an earlier process with the
  pid. `OnePromptSuffices` proves that it takes two prompts for one pid.
- `ContinuesItsOwn`: two handlers may prompt for one pid. The first signature continues the
  process; if it ends, the second one's continues, or fails to continue, another.

## 5. Theorems

TLAPS checks these for every value of the constants.

| Theorem | States |
|---|---|
| `TargetHostProofs!TypeCorrect` | `TypeOK` |
| `TargetHostProofs!LockDiscipline` | `OneTransaction` |
| `TargetHostProofs!NeverForgotten` | `Remembered` |
| `TargetHostProofs!SingleUse` | `ReuseOnlyAfterWindow` |
| `TargetHostProofs!OnlyVerified` | `OnlyVerifiedAsked` |
| `TargetHostProofs!Refinement` | `Implements`: every step is a step of `SessionWindow` or none |
| `TargetHostProofs!EndReleasesLock` | `VerifierEnds` implies `LockReleased`: a lock that is taken is released |
| `TargetHostProofs!VerifierWithin` | every step of the target is a step of `Verifier` or none |
| `TargetHostProofs!BrokerWithin` | every step of the target is a step of `Broker` or none |
| `TargetHostProofs!OnlyVerifiedRuns` | `OnlyVerifiedRun` |
| `TargetHostProofs!HostRefinement` | `HostImplements`: the commands that run are executions of `SessionWindow` |
| `BrokerProofs!BrokerTypes` | `BTypeOK` |
| `BrokerProofs!AnswersAreTrue` | `AnswerIsTheCommands` |
| `BrokerProofs!UnsentRunsNothing` | `UnsentNeverRuns` |
| `BrokerProofs!NeverStuck` | `NobodyIsStuck`: a call that waits is one that somebody can move on |
| `RemoteExecProofs!ImplementsBroker` | every step of the composition is a step of `BSpec` or none |
| `RemoteExecProofs!ExecTypes` | `TypeOK` |
| `RemoteExecProofs!CodesAreTrue` | `OtherCodesAreTheCommands` |
| `RemoteExecProofs!ReceivedZeroIsTrue` | `ReceivedZeroIsSuccess` |
| `RemoteExecProofs!ZeroOnlyMadeUp` | `ZeroMadeUp`: exit code 0 contradicts the command only if no exit status was received |
| `RemoteExecProofs!AnswersReachTheVerifier` | `AnswerIsTheCommands` and `UnsentNeverRuns`, in the composition |
| `RemoteExecProofs!VerifierNeverStuck` | `NobodyIsStuck`, in the composition |
| `UserCommandsProofs!CommandTypes` | `TypeOK`, overlapping commands included |
| `UserCommandsProofs!AllowedWhenRegistered` | `RegisteredWasAllowed`, overlapping commands included |
| `UserCommandsProofs!NothingRegistered` | `RegisterSavesNothing`, overlapping commands included |
| `UserCommandsProofs!OverlapNeverOpens` | `StaysClosed` while no `distrust` or `clear` runs, overlapping commands included |
| `UserCommandsProofs!FilesWhole` | `FileWhole`, if `Serial` |
| `UserCommandsProofs!EnrolledKeysSurvive` | `KeysSurvive`, if `Serial` |
| `UserCommandsProofs!PublishedIsPrivate` | `PublishedPrivate`, if `Serial` |
| `UserCommandsProofs!ChangesAreSaved` | `ChangeSaved`, if `Serial` |
| `UserCommandsProofs!TargetsImplement` | `WholeCommands`, if `Serial`: `targets.json` implements `TargetTable` |
| `UserCommandsProofs!PolicyImplements` | `PolicyWhole`, if `Serial`: `allowed_aaguids.json` implements `PolicyList` |
| `QrBridgeProofs!BridgeTypes` | `TypeOK` |
| `QrBridgeProofs!WokenFinds` | `WokenFindsAssertion` |
| `QrBridgeProofs!SoundReturned` | `OnlyWellFormedReturned` |
| `QrBridgeProofs!OnePhoneNeverMixes` | `MixedOnlyByTwo` |
| `QrBridgeProofs!SignedThenReturned` | `BridgeEnds` implies `SignedIsReturned` |
| `KnownHostsProofs!HostTypes` | `TypeOK` |
| `KnownHostsProofs!RecordedForGood` | `StaysRecorded` |
| `KnownHostsProofs!FirstUseOnce` | `NoSecondFirstUse` |
| `KnownHostsProofs!RecordsItsOwn` | `RecordedWasShown`, if no two saves overlap |
| `KnownHostsProofs!RefusedRightly` | `RefusedOnlyIfChanged`, if no two saves overlap and none is cut short |
| `ContainmentProofs!ContainmentTypes` | `TypeOK` |
| `ContainmentProofs!SleepsUntilSigned` | `FrozenUntilSigned` |
| `ContainmentProofs!OnePromptSuffices` | `SignedAfterFreeze`, the property without its exception, if no pid ever has two prompts |
| `ContainmentProofs!ResumesItsOwn` | `ContinuesItsOwn` |
| `ContainmentProofs!OneProgramEach` | `OneProgram` |
| `ContainmentProofs!HookSpares` | `HookSparesOthers` |
| `ContainmentProofs!RevokedEnd` | `RevokedVerifiersEnd` |
| `ContainmentProofs!PkillSpares` | `PkillSparesCommands` |
| `Amdns!DriftTolerated` | with a tolerance of at most 30 s, every beacon within it is accepted |
| `Amdns!DriftBounded` | no beacon a whole window outside the tolerance is accepted |
| `Amdns!WideToleranceHasGaps` | with 60 s, a beacon that is 30 s old can be refused |

The conditions that some theorems name are part of their statements: `Serial`, `NoOpeners`,
`OneSaver`, `NoneCutShort` and `OnePrompt` restrict the behaviours, and `VerifierEnds` and
`BridgeEnds` are properties that TLC checks under fairness.

Assumptions, all of them named in the modules that declare the constants: the markers
(`NoProc`, `NoInode`, `NoPost`, `NoPage`, `NoPid`, `NoDoc`, `None`, `Garbled`, `Space`) are
none of the things they stand beside (`Garbled` is no fingerprint either, and no fingerprint is
a host), `Never` is no integer, TTL and the bounds are natural
numbers, envelopes have their type, exit codes are integers, each
verifier of `TargetHost` has one call, the aliases, credentials,
spellings and keys are finite sets, and lower-casing twice is lower-casing once. The theorems
of `Amdns` assume a clock and a tolerance within an `i64` (`InRange`); outside it the cast
wraps.

**The argument for the verifier.** `Remembered` is not inductive: a commit replaces the
whole table by the owner's copy, so one must know what that copy may lack. `IInv` adds
`WorkIsUsed` (the copy lacks only rows that had expired at the owner's stamp, and has
the owner's own row), `InsertedWasFree` (that row replaced no live one) and `StampsRead`
(no stamp is ahead of the highest clock reading, so a row expired at a stamp is past its
window at that reading). `OneTransaction` makes the copy's owner unique. At a commit,
`CommitOutsideWindow` gives the window between two acceptances, which is both `SingleUse`
and the guard of `SessionWindow!Accept`. `Progress` says what each place in
`verify_and_execute` has established.

**The argument for the broker.** `CallInv` relates the two ends of one connection and the
command: what is written of a response is the truth about the command, a part of a
request has a dead writer, and a dead writer reads no answer. For `UnsentNeverRuns` it also
says that a command needs the end of a line or of the stream: the thread of a caller that is
alive and has not written its newline still waits, and with a broker's death it is gone.

`Attended` says of each place a call can be in who is there to go on, the broker thread or the
command or the caller, and `NeverStuck` follows; that whoever can go on does is fairness.

**The argument for the whole target.** Each step of `TargetHost` is a step of `Verifier` and one
of `Broker`, or leaves the variables of one alone, so both invariants carry over. `CallLink`
ties them: a call is begun only at `"spawned"`, so what ran was asked for. `OnlyVerifiedAsked`
then says what was checked, and `granted` of `SessionWindow` is mapped to the requests whose
command was started. `LockReleased` needs only that verifiers end, for one that has ended holds
no lock: `EndReleasesLock` proves the step from `VerifierEnds` to it.

**The argument for the controller.** Each step of `RemoteExec` is a step of `Broker` or
leaves its variables alone, so the broker's invariant carries over. `Link` says
of each call that a code other than 1 is the one its command exited with (`Own`), for the
verifier's code, for the status the controller has learnt and for its exit code in turn. It
lasts because how a command ended is known for good (`EndKnown`, `EndIsFinal`).

**The argument for the user commands.** A step concerns one process and the files it saves,
so most of the invariant is untouched by a step of another process. `TypeInv` holds in every
behaviour. `SerialInv` needs `Serial`, since `UserCommands_overlap` refutes `FileWhole`
without it: `Alone` (no two processes in a save of one file) makes what a save has written
its own. `SaveInv` says how far that save got: the temporary file is empty after the open,
the document in memory after the write, and private after the `chmod`. `Progress` says that
the document in memory is the file's with the change of the command, so the rename is one
step of `TargetTable` or `PolicyList`, and the end of a command is `ChangeSaved`.
`RegisteredWasAllowed` needs none of this: `SeenInv` says that the policy a process judges by is
one that the file has held since its prompt was answered (`Judges`). Nor does
`NothingRegistered`, since the comparison sees the object it changed. `OverlapNeverOpens` is
about every interleaving: `ClosedInv` says that no document on its way to a save, and no file
that a rename could still publish, is an empty list, which would allow any model.

**The argument for the bridge.** The event is set only after something is stored, and
nothing is ever taken away again; what is stored was checked before. `MixedOnlyByTwo` needs
`OneAnswerOpen` (a page waits for one answer at a time, so of two posts of one page, neither
answer lost, one was refused) and `StaysAccepted` (what is stored or read while the main
thread goes on was accepted): two fields of one page are then of one post. A page that says
"Signed!" means that the event is set (`Announced`); the main thread, if it still waits then, is
woken by it, finds an assertion and returns it or is stopped by another program's field
(`RaisedByOther`; `Answered`, which lasts), provided it ends at all: that is `BridgeEnds`.

**The argument for the known hosts.** `ExtendKeeps`: no piece written after a line gives a host
takes the host from it. `NoSecondFirstUse` needs to know what a cache may lack:
`CachesComplete` says that one filled in a later tick than the last write lacks nothing,
`Times` that no reading of a clock is ahead of it, so a cache that bears the file's time
was filled in that tick or a later one, and `Origins` that nothing is cached before a read.
`StillRecorded`, which `RecordedStays` preserves, carries the start of a check to its read.
With one saver at a time the piece written next belongs to the host and key of the line it
continues (`Honest`, `LineOf`), which gives `RecordsItsOwn`; if none is cut short, every line
is whole before the next one starts (`Clean`), and what is read is what was recorded.

**The argument for the containment.** `Numbered`: no two pids have one process, and none is
younger than the last born. `Asleep`: a process that a handler froze is stopped under the
handler's pid, was killed or was continued, and `since` says which; with it the pid of a
sleeper can be nobody else's. `Signatures`: an open prompt for a frozen process was there
before the freeze (`stale`), asks about the same process, or was signed after the freeze, so
whoever is continued was signed for or is the exception; with one prompt per pid `stale` stays
empty (`NoneStrays`), and that gives `OnePromptSuffices`. `Listing`: the verifiers that are due
are ended or still listed. `Watched`: the entry of a watched process is there, and counted once it has
started a program by execve, unless it was lost at a fork.

Only checked by TLC: `VerifierEnds`, `CallReturns`, `ControllerEnds` and `BridgeEnds`, since
liveness under fairness is out of the prover's reach. `LockReleased` and `SignedIsReturned` are
proved from `VerifierEnds` and `BridgeEnds`; TLC also checks the latter.

## 6. Plan

Done, in the order in which they were built:

1. `SessionWindow`, `Verifier` and its theorems.
2. `Broker`, `BrokerProofs`, `RemoteExec`, `RemoteExecProofs`.
3. `TargetTable`, `TargetStore`; then `ConfigDir`, `PolicyStore`, `PolicyList`, `KeyEnrolment`
   and `UserCommands`, which composes them; `UserCommandsProofs`.
4. `QrBridge`, `QrBridgeProofs`.
5. `KnownHosts`, `KnownHostsProofs`.
6. `Authenticator`, `Containment`, `ContainmentProofs`.
7. `Amdns`.
8. `TargetHost`, `TargetHostProofs`.

What is left: when `targets.tmp` gets a name of its own per process, `Serial` can go from
`FileWhole` and its theorem, and `WholeCommands` will show the lost updates that remain; when
`register` saves its change, `CredentialSaved` joins the passing run. The connection phase of
`execute_session` (transports, authentication methods) is one step; it is worth more only
when it retries.

## 7. Not modelled

The installer and hardening scripts are run once by an administrator; their steps are calls
of `grep`, `sed`, `cat` and `sshd -t`, and what those do to a file is not in this repository.
The two hazards they have (an `authorized_keys` rewritten by `cat`, a roll-back after
`sshd -t` failed) are listed with the others. The screens
(`src/uon/ux/blast_radius.py`, `telemetry.py`) are views that the command path does not
call. The PQC wrapper is a pure function; its failure is the "envelope" check of
`Verifier`. The DTOs, `wasm_bridge.rs`, `macos_es.rs` and the benchmark keep no state.

Left out of what is modelled: the TLS of the bridge and uvicorn's own threads; the drawing of
screens and codes; the ceremonies of the fido2 library; host certificates, which are always
refused; output streams, since only exit codes travel in `Broker` and `RemoteExec`; the
permissions `pkill` may lack for single processes; which regular expression a subject is,
beyond whether it has operators. A hook of the kernel is one step: two
processors that run it at once for one pid are not distinguished.
