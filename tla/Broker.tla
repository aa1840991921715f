-------------------------------- MODULE Broker --------------------------------
(***************************************************************************)
(* A verifier's call of spawn_zsp_process (zsp_core.rs) and the broker     *)
(* that serves it (zsp_broker.rs): one Unix-socket connection and one      *)
(* thread per call.  The caller writes its request in two writes and reads *)
(* one line; the thread reads one line, runs the command and answers in    *)
(* two writes.  The caller or the broker may die between any two of them.  *)
(***************************************************************************)
EXTENDS Integers

CONSTANTS
  Call,    \* calls of spawn_zsp_process, each with a connection of its own
  Codes    \* exit codes a command may end with

ASSUME CodesAssumption == Codes \subseteq Int

VARIABLES
  broker,   \* the broker process: down, bound (socket not yet chowned), up
  client,   \* where each call is
  req,      \* how much of the request line has been written
  conn,     \* where the thread that serves each call is
  resp,     \* how much of the response line has been written
  reply,    \* the exit_code of that response
  cmd,      \* the command each call asked for
  code,     \* the exit code of a command that exited
  answer    \* the exit code spawn_zsp_process returned

bvars == <<broker, client, req, conn, resp, reply, cmd, code, answer>>

\* Stands for a code that is not there yet.
NoCode == -1

ClientEnded == {"answered", "failed", "killed"}
Served == {"queued", "reading", "running", "replying", "ending"}
Finished == {"exited", "signalled"}

BTypeOK ==
  /\ broker \in {"down", "bound", "up"}
  /\ client \in [Call -> {"idle", "open"} \cup ClientEnded]
  /\ req \in [Call -> {"none", "part", "json", "line"}]
  /\ conn \in [Call -> {"none", "closed"} \cup Served]
  /\ resp \in [Call -> {"none", "part", "payload", "line"}]
  /\ reply \in [Call -> Codes \cup {1, NoCode}]
  /\ cmd \in [Call -> {"none", "unstarted", "running"} \cup Finished]
  /\ code \in [Call -> Codes \cup {NoCode}]
  /\ answer \in [Call -> Codes \cup {1, NoCode}]

BInit ==
  /\ broker = "down"
  /\ client = [c \in Call |-> "idle"]
  /\ req = [c \in Call |-> "none"]
  /\ conn = [c \in Call |-> "none"]
  /\ resp = [c \in Call |-> "none"]
  /\ reply = [c \in Call |-> NoCode]
  /\ cmd = [c \in Call |-> "none"]
  /\ code = [c \in Call |-> NoCode]
  /\ answer = [c \in Call |-> NoCode]

(***************************************************************************)
(* The caller: execute_via_broker.                                         *)
(***************************************************************************)
Connect(c) ==
  /\ client[c] = "idle"
  /\ broker # "down"
  /\ client' = [client EXCEPT ![c] = "open"]
  /\ conn' = [conn EXCEPT ![c] = "queued"]
  /\ UNCHANGED <<broker, req, resp, reply, cmd, code, answer>>

\* No listener, or a socket the caller has no permission on yet.
ConnectFails(c) ==
  /\ client[c] = "idle"
  /\ broker # "up"
  /\ client' = [client EXCEPT ![c] = "failed"]
  /\ UNCHANGED <<broker, req, conn, resp, reply, cmd, code, answer>>

Write(c) ==
  /\ client[c] = "open"
  /\ conn[c] # "closed"
  /\ \/ req[c] = "none" /\ req' = [req EXCEPT ![c] = "json"]
     \/ req[c] = "json" /\ req' = [req EXCEPT ![c] = "line"]
  /\ UNCHANGED <<broker, client, conn, resp, reply, cmd, code, answer>>

WriteFails(c) ==
  /\ client[c] = "open"
  /\ conn[c] = "closed"
  /\ req[c] # "line"
  /\ client' = [client EXCEPT ![c] = "failed"]
  /\ UNCHANGED <<broker, req, conn, resp, reply, cmd, code, answer>>

\* read_line returns at a newline or at the end of the stream; the line must parse.
HasResponse(c) == resp[c] = "line" \/ (resp[c] = "payload" /\ conn[c] = "closed")

ReadAnswer(c) ==
  /\ client[c] = "open"
  /\ req[c] = "line"
  /\ HasResponse(c)
  /\ \/ client' = [client EXCEPT ![c] = "answered"] /\ answer' = [answer EXCEPT ![c] = reply[c]]
     \/ client' = [client EXCEPT ![c] = "failed"] /\ UNCHANGED answer    \* emit_stream fails
  /\ UNCHANGED <<broker, req, conn, resp, reply, cmd, code>>

ReadFails(c) ==
  /\ client[c] = "open"
  /\ req[c] = "line"
  /\ conn[c] = "closed"
  /\ ~HasResponse(c)
  /\ client' = [client EXCEPT ![c] = "failed"]
  /\ UNCHANGED <<broker, req, conn, resp, reply, cmd, code, answer>>

\* The calling verifier is killed, perhaps within a write of its request.
Die(c) ==
  /\ client[c] = "open"
  /\ client' = [client EXCEPT ![c] = "killed"]
  /\ \/ UNCHANGED req
     \/ req[c] = "none" /\ req' = [req EXCEPT ![c] = "part"]
  /\ UNCHANGED <<broker, conn, resp, reply, cmd, code, answer>>

(***************************************************************************)
(* The broker process.                                                     *)
(***************************************************************************)
\* prepare_socket up to bind: the directory is made, a stale socket removed.
Bind ==
  /\ broker = "down"
  /\ broker' = "bound"
  /\ UNCHANGED <<client, req, conn, resp, reply, cmd, code, answer>>

\* prepare_socket after bind: chown and chmod.
Open ==
  /\ broker = "bound"
  /\ broker' = "up"
  /\ UNCHANGED <<client, req, conn, resp, reply, cmd, code, answer>>

\* Mutant: the connections outlive the process that served them.
ConnKept(c) == conn[c]
ConnClosed(c) == IF conn[c] \in Served THEN "closed" ELSE conn[c]

\* prepare_socket or accept fails, or the process is killed: all its threads end with it and
\* their connections close, one of them perhaps within a write of its response.
BrokerDies ==
  /\ broker # "down"
  /\ broker' = "down"
  /\ conn' = [c \in Call |-> ConnClosed(c)]
  /\ \/ UNCHANGED resp
     \/ \E c \in Call : conn[c] = "replying" /\ resp' = [resp EXCEPT ![c] = "part"]
  /\ UNCHANGED <<client, req, reply, cmd, code, answer>>

Accept(c) ==
  /\ broker = "up"
  /\ conn[c] = "queued"
  /\ conn' = [conn EXCEPT ![c] = "reading"]
  /\ UNCHANGED <<broker, client, req, resp, reply, cmd, code, answer>>

(***************************************************************************)
(* The thread of a connection: handle_connection.                          *)
(***************************************************************************)
\* read_line returns at a newline, or at what there is when the caller has gone.
Gone(c) == client[c] \in ClientEnded
\* Mutant: the thread does not wait for the end of the line.
TextRead(c) == req[c] \in {"json", "line"} \/ Gone(c)
LineRead(c) == req[c] = "line" \/ Gone(c)

Parses(c) == req[c] \in {"json", "line"}

Reply(c, k) ==
  /\ conn' = [conn EXCEPT ![c] = "replying"]
  /\ reply' = [reply EXCEPT ![c] = k]

Hangup(c) ==
  /\ conn[c] = "reading"
  /\ LineRead(c) /\ req[c] = "none"
  /\ conn' = [conn EXCEPT ![c] = "closed"]
  /\ UNCHANGED <<broker, client, req, resp, reply, cmd, code, answer>>

BadRequest(c) ==
  /\ conn[c] = "reading"
  /\ LineRead(c) /\ req[c] # "none" /\ ~Parses(c)
  /\ Reply(c, 1)
  /\ UNCHANGED <<broker, client, req, resp, cmd, code, answer>>

RunCommand(c) ==
  /\ conn[c] = "reading"
  /\ LineRead(c) /\ Parses(c)
  /\ \/ /\ cmd' = [cmd EXCEPT ![c] = "running"]
        /\ conn' = [conn EXCEPT ![c] = "running"]
        /\ UNCHANGED reply
     \/ /\ cmd' = [cmd EXCEPT ![c] = "unstarted"]    \* no identity to drop to, or no program
        /\ Reply(c, 1)
  /\ UNCHANGED <<broker, client, req, resp, code, answer>>

\* Mutants: the raw wait status; a command ended by a signal reads as a success.
RawStatus(c) == IF cmd[c] = "exited" THEN 256 * code[c] ELSE 9
CodeOrZero(c) == IF cmd[c] = "exited" THEN code[c] ELSE 0
CodeOrOne(c) == IF cmd[c] = "exited" THEN code[c] ELSE 1

Collect(c) ==
  /\ conn[c] = "running"
  /\ cmd[c] \in Finished
  /\ Reply(c, CodeOrOne(c))
  /\ UNCHANGED <<broker, client, req, resp, cmd, code, answer>>

WritePayload(c) ==
  /\ conn[c] = "replying"
  /\ IF Gone(c)
       THEN conn' = [conn EXCEPT ![c] = "closed"] /\ UNCHANGED resp
       ELSE conn' = [conn EXCEPT ![c] = "ending"] /\ resp' = [resp EXCEPT ![c] = "payload"]
  /\ UNCHANGED <<broker, client, req, reply, cmd, code, answer>>

WriteEnd(c) ==
  /\ conn[c] = "ending"
  /\ conn' = [conn EXCEPT ![c] = "closed"]
  /\ resp' = IF Gone(c) THEN resp ELSE [resp EXCEPT ![c] = "line"]
  /\ UNCHANGED <<broker, client, req, reply, cmd, code, answer>>

(***************************************************************************)
(* The command, a process of its own: it may outlive the broker.           *)
(***************************************************************************)
CommandExits(c, k) ==
  /\ cmd[c] = "running"
  /\ cmd' = [cmd EXCEPT ![c] = "exited"]
  /\ code' = [code EXCEPT ![c] = k]
  /\ UNCHANGED <<broker, client, req, conn, resp, reply, answer>>

CommandSignalled(c) ==
  /\ cmd[c] = "running"
  /\ cmd' = [cmd EXCEPT ![c] = "signalled"]
  /\ UNCHANGED <<broker, client, req, conn, resp, reply, code, answer>>

CommandEnds(c) == CommandSignalled(c) \/ \E k \in Codes : CommandExits(c, k)

CallerStep(c) ==
  Connect(c) \/ ConnectFails(c) \/ Write(c) \/ WriteFails(c) \/ ReadAnswer(c) \/ ReadFails(c)

ThreadStep(c) ==
  Hangup(c) \/ BadRequest(c) \/ RunCommand(c) \/ Collect(c) \/ WritePayload(c) \/ WriteEnd(c)

BrokerStep == Open \/ \E c \in Call : Accept(c)

ServiceNext ==
  \/ Bind \/ BrokerDies \/ BrokerStep
  \/ \E c \in Call : ThreadStep(c) \/ CommandEnds(c)

BNext == ServiceNext \/ \E c \in Call : CallerStep(c) \/ Die(c)

BSpec == BInit /\ [][BNext]_bvars

\* The broker's accept loop and its threads are scheduled, and every command ends.
\* Nothing is assumed of restarts: systemd gives up after repeated failures.
ServiceFairness ==
  /\ WF_bvars(Open)
  /\ \A c \in Call :
       WF_bvars(Accept(c)) /\ WF_bvars(ThreadStep(c)) /\ WF_bvars(CommandEnds(c))

FairBSpec ==
  /\ BSpec
  /\ ServiceFairness
  /\ \A c \in Call : WF_bvars(CallerStep(c))

-----------------------------------------------------------------------------
\* What a call returns is what became of its own command, wherever the broker died and
\* whatever was left of the response: its exit code, or 1 if a signal ended it or it could
\* not be started (run_command, execute_via_broker).
AnswerIsTheCommands ==
  \A c \in Call : client[c] = "answered" =>
    \/ cmd[c] = "exited" /\ answer[c] = code[c]
    \/ cmd[c] \in {"signalled", "unstarted"} /\ answer[c] = 1

\* A call that fails before its request line is written whole has run nothing and never will:
\* the thread that holds part of the line cannot outlive the broker whose death failed the
\* write, so such a command may be asked for again.  After the line is written a failure says
\* nothing of the command (execute_via_broker, handle_connection).
UnsentNeverRuns ==
  \A c \in Call : client[c] = "failed" /\ req[c] # "line" => cmd[c] = "none"

\* No call waits for ever, although read_line has no time-out: the broker answers, or its
\* death closes the connection.
CallReturns == \A c \in Call : client[c] = "open" ~> client[c] \in ClientEnded
=============================================================================
