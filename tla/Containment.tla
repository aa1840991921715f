----------------------------- MODULE Containment -----------------------------
(***************************************************************************)
(* What acts on processes that run already, by nothing but their pids: the *)
(* execve hook of uon_ebpf/ebpf_monitor.py, the freeze and resume of       *)
(* ux/intervention.py, and the pkill of auth/ssf_receiver.py.  Pids are    *)
(* used again, and none of the three knows whose a pid was.                *)
(***************************************************************************)
EXTENDS Naturals, Authenticator

CONSTANTS
  Deployment, \* the tools a host may have in use, each a subset of Tools
  Pid,
  NoPid,
  Handler,   \* calls of handle_caep_anomaly
  MaxBorn    \* bound: processes that ever start

Tools == {"hook", "caep", "ssf"}

ASSUME DeploymentAssumption == Deployment \subseteq SUBSET Tools
ASSUME NoPidAssumption == NoPid \notin Pid
ASSUME MaxBornAssumption == MaxBorn \in Nat \ {0}

VARIABLES
  tools,     \* those in use here
  proc,      \* the process that has each pid
  born,      \* processes started so far: the identity of the last one
  hooks,     \* what KernelMonitor.attach has put in place
  table,     \* authorized_pids, for the pids of the model
  full,      \* entries of other pids have taken all the room there is
  handler,   \* where each handler is
  subject,   \* the pid it was called with
  frozen,    \* whom it stopped, until it continues somebody (history)
  signed,    \* the handlers whose freeze of that process its signature came after (history)
  stale,     \* the prompts whose signature is not for its freeze (history)
  since,     \* what has become of that process (history)
  revoker,   \* the SSF receiver: what pkill is doing
  revokes,   \* the subject of its event
  listed,    \* pids pkill is still to signal, each with whom it found there (history)
  due        \* verifiers that ran when the event came (history)

kernel == <<proc, born, hooks, table, full>>
caep == <<handler, subject, frozen, signed, stale, since>>
ssf == <<revoker, revokes, listed, due>>
vars == <<tools, kernel, caep, ssf>>

\* By its command line: a verifier, another that mentions uon_verifier.py, one that never
\* did, and one that did before it started its present program.
Kind == {"verifier", "mention", "command", "former"}
Entry == {"none", "zero", "counted"}

(***************************************************************************)
(* A process.  watched, dropped, starts, missed and heir are history:      *)
(* whether monitor_pid was asked to watch it or one it descends from, and  *)
(* a fork since then did not copy the count; what it and those it descends *)
(* from have started by execve since; whether its entry was another's.     *)
(***************************************************************************)
Process == [id : 1..MaxBorn, kind : Kind, stopped : BOOLEAN, watched : BOOLEAN,
            dropped : BOOLEAN, starts : 0..2, missed : BOOLEAN, heir : BOOLEAN]
Nobody == [id |-> 0]

Alive(p) == proc[p] # Nobody
Running(p) == Alive(p) /\ ~proc[p].stopped

TypeOK ==
  /\ tools \in Deployment
  /\ proc \in [Pid -> Process \cup {Nobody}]
  /\ born \in 0..MaxBorn
  /\ hooks \in {"none", "fork", "all"}
  /\ full \in BOOLEAN
  /\ table \in [Pid -> Entry]
  /\ handler \in [Handler -> {"idle", "asking", "cleared", "true", "false", "raised"}]
  /\ subject \in [Handler -> Pid \cup {NoPid}]
  /\ frozen \in [Handler -> 0..born]
  /\ signed \in [Handler -> SUBSET Handler]
  /\ stale \in [Handler -> SUBSET Handler]
  /\ since \in [Handler -> {"asleep", "killed", "thawed", "strayed"}]
  /\ revoker \in {"idle", "called", "signalling", "failed"}
  /\ revokes \in {"none", "plain", "operators", "empty"}
  /\ listed \in SUBSET (Pid \X (1..born))
  /\ due \in SUBSET (1..born)

Init ==
  /\ tools \in Deployment
  /\ proc = [p \in Pid |-> Nobody]
  /\ born = 0
  /\ hooks = "none"
  /\ table = [p \in Pid |-> "none"]
  /\ full = FALSE
  /\ handler = [h \in Handler |-> "idle"]
  /\ subject = [h \in Handler |-> NoPid]
  /\ frozen = [h \in Handler |-> 0]
  /\ signed = [h \in Handler |-> {}]
  /\ stale = [h \in Handler |-> {}]
  /\ since = [h \in Handler |-> "asleep"]
  /\ revoker = "idle"
  /\ revokes = "none"
  /\ listed = {}
  /\ due = {}

(***************************************************************************)
(* Processes, and the hooks the kernel runs for them.                      *)
(***************************************************************************)
Unwatched(process) == [process EXCEPT !.watched = FALSE, !.dropped = FALSE, !.starts = 0,
                                      !.missed = FALSE, !.heir = FALSE]

Starts(p, process) ==
  /\ ~Alive(p) /\ born < MaxBorn
  /\ proc' = [proc EXCEPT ![p] = process]
  /\ born' = born + 1

\* Nothing but pkill looks at command lines: where it is not in use they are all alike.
Told == IF "ssf" \in tools THEN Kind \ {"former"} ELSE {"command"}

\* sshd or the broker starts a verifier or a command, and any other service a process.
Spawn(p, k) ==
  /\ k \in Told
  /\ Starts(p, [id |-> born + 1, kind |-> k, stopped |-> FALSE, watched |-> FALSE,
                dropped |-> FALSE, starts |-> 0, missed |-> FALSE, heir |-> table[p] # "none"])
  /\ UNCHANGED <<hooks, table, full, caep, ssf>>

\* BPF_HASH: an entry that is there is overwritten, a new one needs room.
HasRoom(p) == table[p] # "none" \/ ~full

\* No entry is ever removed, and other processes are watched, too.
Fill ==
  /\ hooks # "none" /\ ~full
  /\ full' = TRUE
  /\ UNCHANGED <<proc, born, hooks, table, caep, ssf>>

\* Mutant: the child starts with a count of its own.
FromZero(e) == "zero"
Inherited(e) == e

\* sched_process_fork has the id of the thread that forks: the pid, when it is the first one.
\* Any other may have an entry of its own: the one of the thread that made it, whatever a
\* former owner of its id has left, or none when it is older than the call of monitor_pid.
\* The update of a full hash fails without a word.
Fork(p, c, e) ==
  LET copied == e # "none" /\ HasRoom(c)
      own == copied /\ e = table[p] IN
  /\ Running(p) /\ (hooks = "none" => e = "none")
  /\ Starts(c, [proc[p] EXCEPT !.id = born + 1,
                  !.dropped = proc[p].watched /\ (proc[p].dropped \/ ~own),
                  !.heir = IF own THEN proc[p].heir ELSE copied \/ table[c] # "none"])
  /\ table' = IF copied THEN [table EXCEPT ![c] = Inherited(e)] ELSE table
  /\ UNCHANGED <<hooks, full, caep, ssf>>

\* The tracepoint runs for a new thread, too, whose id has the entry even after its end.
Thread(p, c, e) ==
  /\ Running(p) /\ ~Alive(c)
  /\ hooks # "none" /\ e # "none" /\ HasRoom(c)
  /\ table' = [table EXCEPT ![c] = e]
  /\ UNCHANGED <<proc, born, hooks, full, caep, ssf>>

Counts(p) == hooks = "all" /\ table[p] # "none"
\* Mutant: no comparison with 0.
AnyCount(p) == Counts(p)
KilledAtExec(p) == Counts(p) /\ table[p] = "counted"

\* History is kept for those the monitor has promised to watch.
OnRecord(p) == hooks = "all" /\ proc[p].watched /\ ~proc[p].dropped

\* What a process with a command line of kind k may have after the start of a program: an
\* editor or a shell may be given the script's path.  A verifier starts no other program.
Recast(k) ==
  CASE k = "verifier" -> {"verifier"}
    [] k = "command" -> {"command", "mention"} \cap Told
    [] OTHER -> {"mention", "former"}

Started(p, k) ==
  [proc[p] EXCEPT !.kind = k, !.starts = IF OnRecord(p) /\ @ < 2 THEN @ + 1 ELSE @]
NotFound(p) == [proc[p] EXCEPT !.missed = @ \/ OnRecord(p)]

\* restrict_execve runs on entry to execve: it counts a file that is not there, too.
Exec(p) ==
  /\ Running(p)
  /\ table' = IF Counts(p) THEN [table EXCEPT ![p] = "counted"] ELSE table
  /\ IF KilledAtExec(p) THEN proc' = [proc EXCEPT ![p] = Nobody]
     ELSE \/ \E k \in Recast(proc[p].kind) : proc' = [proc EXCEPT ![p] = Started(p, k)]
          \/ proc' = [proc EXCEPT ![p] = NotFound(p)]
  /\ UNCHANGED <<born, hooks, full, caep, ssf>>

\* execveat, and fexecve by it: attach has hooked the system call execve alone.
Execveat(p) ==
  /\ Running(p)
  /\ \E k \in Recast(proc[p].kind) : proc' = [proc EXCEPT ![p].kind = k]
  /\ UNCHANGED <<born, hooks, table, full, caep, ssf>>

\* Its entry stays.
Exit(p) ==
  /\ Running(p)
  /\ proc' = [proc EXCEPT ![p] = Nobody]
  /\ UNCHANGED <<born, hooks, table, full, caep, ssf>>

\* The handlers whose process has this pid.
Holding(p) == {h \in Handler : Alive(p) /\ frozen[h] = proc[p].id}

Sigkill(p) ==
  /\ proc' = [proc EXCEPT ![p] = Nobody]
  /\ since' = [h \in Handler |->
                 IF h \in Holding(p) /\ proc[p].stopped THEN "killed" ELSE since[h]]
  /\ UNCHANGED <<handler, subject, frozen, signed, stale>>

\* By the operator or the kernel; a running process may as well exit.
Kill(p) == Alive(p) /\ proc[p].stopped /\ Sigkill(p) /\ UNCHANGED <<born, hooks, table, full, ssf>>

(***************************************************************************)
(* KernelMonitor.                                                          *)
(***************************************************************************)
\* attach: self.bpf is there, and its tracepoint, before the look-up and the hook of execve,
\* and stays when these fail; nothing is there when the compilation fails.
Attach ==
  /\ "hook" \in tools
  /\ hooks = "none"
  /\ hooks' \in {"fork", "all"}
  /\ UNCHANGED <<proc, born, table, full, caep, ssf>>

\* monitor_pid; it raises when the hash has no room.
MonitorPid(p) ==
  /\ hooks # "none" /\ HasRoom(p)
  /\ table' = [table EXCEPT ![p] = "zero"]
  /\ proc' = IF Alive(p)
             THEN [proc EXCEPT ![p] = [Unwatched(@) EXCEPT !.watched = TRUE]]
             ELSE proc
  /\ UNCHANGED <<born, hooks, full, caep, ssf>>

\* The kernel takes the hooks and the hash away with the process that holds them.
MonitorEnds ==
  /\ hooks # "none"
  /\ hooks' = "none"
  /\ table' = [p \in Pid |-> "none"]
  /\ full' = FALSE
  /\ proc' = [p \in Pid |-> IF Alive(p) THEN Unwatched(proc[p]) ELSE Nobody]
  /\ UNCHANGED <<born, caep, ssf>>

(***************************************************************************)
(* handle_caep_anomaly.                                                    *)
(***************************************************************************)
Goto(h, s) == handler' = [handler EXCEPT ![h] = s]

\* The prompts for this pid that were answered by now, or ask about an earlier owner.
Prior(p) ==
  {g \in Handler :
     /\ subject[g] = p
     /\ handler[g] = "cleared" \/ (handler[g] = "asking" /\ frozen[g] # proc[p].id)}

Freeze(h, p) ==
  /\ "caep" \in tools /\ handler[h] = "idle" /\ Alive(p)
  /\ Goto(h, "asking")
  /\ subject' = [subject EXCEPT ![h] = p]
  /\ frozen' = [frozen EXCEPT ![h] = proc[p].id]
  /\ stale' = [stale EXCEPT ![h] = Prior(p)]
  /\ proc' = [proc EXCEPT ![p].stopped = TRUE]
  /\ UNCHANGED <<born, hooks, table, full, signed, since, ssf>>

\* Mutants: the failure is logged only; a bare return.
Undeterred == "asking"
Bare == "none"
OnFreezeFailure == "false"

\* ESRCH, or EPERM: the error is logged and the handler returns False.
FreezeFails(h, p) ==
  /\ "caep" \in tools /\ handler[h] = "idle"
  /\ Goto(h, OnFreezeFailure)
  /\ subject' = [subject EXCEPT ![h] = p]
  /\ UNCHANGED <<kernel, frozen, signed, stale, since, ssf>>

\* Mutant: an error of the prompt counts as an answer.
Answered(r) == r # "none"
Cleared(r) == r = "assertion"

Ends(h, value) == Goto(h, value) /\ subject' = [subject EXCEPT ![h] = NoPid]

\* on_button_pressed: an error or no assertion dismisses the screen with False.
Press(h) ==
  /\ handler[h] = "asking"
  /\ \E found \in Found : \E r \in StepUp(found) :
       /\ IF Cleared(r) THEN Goto(h, "cleared") /\ UNCHANGED subject ELSE Ends(h, "false")
       /\ signed' = [signed EXCEPT ![h] =
                       IF r = "assertion" THEN {g \in Handler : frozen[g] = frozen[h]} ELSE {}]
  /\ UNCHANGED <<kernel, frozen, stale, since, ssf>>

\* app.run() gives None: the application is closed without an answer.
Quit(h) ==
  /\ handler[h] = "asking"
  /\ Ends(h, "false")
  /\ UNCHANGED <<kernel, frozen, signed, stale, since, ssf>>

\* What the end of a handler whose prompt was signed does to its own history.
Forget(h) ==
  /\ frozen' = [frozen EXCEPT ![h] = IF h \in signed[h] THEN 0 ELSE @]
  /\ signed' = [signed EXCEPT ![h] = {}]
  /\ stale' = [stale EXCEPT ![h] = {}]

\* The others that have frozen this process see it run: on a signature that came after their
\* own freeze, or on one that was not for it.
SeenToRun(h, p) ==
  since' = [g \in Handler |->
              IF g = h THEN IF h \in signed[h] THEN "asleep" ELSE since[h]
              ELSE IF g \notin Holding(p) THEN since[g]
              ELSE IF g \in signed[h] THEN "thawed"
              ELSE IF h \in stale[g] /\ h \in signed[h] THEN "strayed"
              ELSE since[g]]

Resume(h) ==
  LET p == subject[h] IN
  /\ handler[h] = "cleared" /\ Alive(p)
  /\ Ends(h, "true")
  /\ proc' = [proc EXCEPT ![p].stopped = FALSE]
  /\ SeenToRun(h, p)
  /\ Forget(h)
  /\ UNCHANGED <<born, hooks, table, full, ssf>>

\* ESRCH, or EPERM when the pid is another's by now: nothing catches it.
ResumeRaises(h) ==
  /\ handler[h] = "cleared" /\ proc[subject[h]].id # frozen[h]
  /\ Ends(h, "raised")
  /\ since' = [since EXCEPT ![h] = "asleep"]
  /\ Forget(h)
  /\ UNCHANGED <<kernel, ssf>>

(***************************************************************************)
(* receive_ssf_event and kill_uon_sessions, one event at a time: the event *)
(* loop waits for pkill.                                                   *)
(***************************************************************************)
\* parse_ssf_event: malformed JSON, another event, no subject, a subject whose sub or email
\* has no operators of a regular expression, or has some, one with neither ("unknown"), one
\* whose sub or email is the empty string.
Event == {"malformed", "other", "noSubject", "plain", "operators", "bare", "empty"}
Identifier(e) ==
  CASE e \in {"plain", "bare"} -> "plain"
    [] e \in {"operators", "empty"} -> e
    [] OTHER -> "none"

Verifiers == {p \in Pid : Alive(p) /\ proc[p].kind = "verifier"}

\* An event with a valid bearer token; without one, or with no identifier, the answer is 401,
\* 400 or "ignored", and nothing is done.
Receive(e) ==
  /\ "ssf" \in tools /\ revoker = "idle" /\ Identifier(e) # "none"
  /\ revoker' = "called"
  /\ revokes' = Identifier(e)
  /\ due' = IF e = "empty" THEN {proc[p].id : p \in Verifiers} ELSE {}
  /\ UNCHANGED <<kernel, caep, listed>>

Mentions == {p \in Pid : Alive(p) /\ proc[p].kind = "mention"}

\* Mutant: the pattern is the subject alone.
SubjectAlone ==
  CASE revokes = "empty" -> {Verifiers \cup Mentions}
    [] OTHER -> SUBSET {p \in Pid : Alive(p)}
\* What pkill -f may match: whole command lines are searched for the script's name, and for
\* the subject after it.  The forced command has no argument, so no verifier has a subject
\* there, but other processes may.  shlex.quote leaves the operators of a regular expression
\* in the subject, and an alternation matches whatever has one of its branches.
Matches ==
  CASE revokes = "empty" -> {Verifiers \cup Mentions}
    [] revokes = "plain" -> SUBSET Mentions
    [] OTHER -> SUBSET {p \in Pid : Alive(p)}

\* pkill reads all of /proc, and then signals what it found.
Scan ==
  /\ revoker = "called"
  /\ revoker' = "signalling"
  /\ \E found \in Matches : listed' = {<<p, proc[p].id>> : p \in found}
  /\ UNCHANGED <<kernel, caep, revokes, due>>

\* pkill cannot be started: the error is logged and the event is accepted all the same.
PkillFails ==
  /\ revoker = "called"
  /\ revoker' = "failed"
  /\ UNCHANGED <<kernel, caep, revokes, listed, due>>

\* Mutant: without -9, which a stopped process does not get before it is continued.
Sigterm(p) == IF Running(p) THEN Sigkill(p) ELSE UNCHANGED <<proc, caep>>
Signal9(p) == Sigkill(p)

KillListed(x) ==
  /\ revoker = "signalling" /\ x \in listed
  /\ Signal9(x[1])
  /\ listed' = listed \ {x}
  /\ UNCHANGED <<born, hooks, table, full, revoker, revokes, due>>

\* {"status": "accepted"}
Accepted ==
  /\ revoker \in {"signalling", "failed"} /\ listed = {}
  /\ revoker' = "idle"
  /\ revokes' = "none"
  /\ due' = {}
  /\ UNCHANGED <<kernel, caep, listed>>

KernelStep ==
  \/ \E p \in Pid : \/ \E k \in Kind : Spawn(p, k)
                    \/ \E c \in Pid, e \in Entry : Fork(p, c, e) \/ Thread(p, c, e)
                    \/ Exec(p) \/ Execveat(p) \/ Exit(p) \/ Kill(p) \/ MonitorPid(p)
  \/ Fill \/ Attach \/ MonitorEnds

CaepStep ==
  \E h \in Handler : \/ \E p \in Pid : Freeze(h, p) \/ FreezeFails(h, p)
                     \/ Press(h) \/ Quit(h) \/ Resume(h) \/ ResumeRaises(h)

SsfStep ==
  \/ \E e \in Event : Receive(e)
  \/ Scan \/ PkillFails \/ Accepted
  \/ \E x \in listed : KillListed(x)

Next == (KernelStep \/ CaepStep \/ SsfStep) /\ UNCHANGED tools

Spec == Init /\ [][Next]_vars

-----------------------------------------------------------------------------
\* From the call of monitor_pid on, a process and those it forks start one program by execve
\* along each line of descent, and no fork gets a fresh count (_BPF_TEXT).  Not so when
\* execve could not be hooked, when the hash had no room for the child, or when the thread
\* that forked has not the entry of its process; and execveat is not seen at all.
OneProgram ==
  \A p \in Pid : Alive(p) /\ proc[p].watched /\ hooks = "all" =>
    proc[p].starts <= 1 \/ proc[p].dropped

\* A process that the execve hook ends was watched and had called execve before, for a
\* program or for a file that is not there, or its entry was not made for it: it has the pid
\* of one that was watched, or its count is that of a thread.
HookSparesOthers ==
  [][\A p \in Pid : Exec(p) /\ proc'[p] = Nobody =>
       \/ proc[p].watched /\ (proc[p].starts > 0 \/ proc[p].missed)
       \/ proc[p].heir]_vars

\* A process that was frozen runs again only if somebody signed for it after that freeze,
\* whatever other prompts are open for its pid (handle_caep_anomaly).  The exception: another
\* prompt for the pid was signed before the freeze and continues the process after it, or
\* was asked about an earlier process that had the pid.
FrozenUntilSigned ==
  \A h \in Handler, p \in Pid :
    frozen[h] # 0 /\ proc[p].id = frozen[h] /\ Running(p) => since[h] \in {"thawed", "strayed"}

\* A handler continues the process it froze, unless that one was killed in its sleep, or ran
\* on another handler's signature and ended: only then can its pid be another's.
ContinuesItsOwn ==
  [][\A h \in Handler : Resume(h) =>
       proc[subject[h]].id = frozen[h] \/ since[h] # "asleep"]_vars

\* When the receiver answers an event without a name, each verifier that ran when it came has
\* ended, a frozen one too, unless pkill could not be started (kill_uon_sessions).
RevokedVerifiersEnd ==
  [][Accepted /\ revoker # "failed" => \A p \in Pid : proc[p].id \notin due]_vars

\* pkill ends no process that never had the verifier's name in its command line, unless that
\* one got the pid of another between its look and its signal, or the subject of the event
\* has operators of a regular expression (kill_uon_sessions).
PkillSparesCommands ==
  [][\A x \in listed : KillListed(x) /\ Alive(x[1]) =>
       \/ proc[x[1]].kind # "command"
       \/ proc[x[1]].id # x[2]
       \/ revokes = "operators"]_vars
=============================================================================
