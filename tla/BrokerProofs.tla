---------------------------- MODULE BrokerProofs ----------------------------
(***************************************************************************)
(* Broker.tla, for any number of calls and any exit codes.                 *)
(***************************************************************************)
EXTENDS Broker, TLAPS

LEMMA BTypeInit == BInit => BTypeOK
  BY DEF BInit, BTypeOK

LEMMA BTypeStep == ASSUME BTypeOK, [BNext]_bvars PROVE BTypeOK'
<1> USE DEF BTypeOK, ClientEnded, Served, Finished, NoCode, Reply
<1>1. ASSUME NEW c \in Call, CallerStep(c) PROVE BTypeOK'
  BY <1>1 DEF CallerStep, Connect, ConnectFails, Write, WriteFails, ReadAnswer, ReadFails
<1>2. ASSUME NEW c \in Call, Die(c) PROVE BTypeOK'
  BY <1>2 DEF Die
<1>3. CASE Bind \/ Open
  BY <1>3 DEF Bind, Open
<1>4. CASE BrokerDies
  BY <1>4 DEF BrokerDies, ConnClosed
<1>5. ASSUME NEW c \in Call, Accept(c) PROVE BTypeOK'
  BY <1>5 DEF Accept
<1>6. ASSUME NEW c \in Call, ThreadStep(c) PROVE BTypeOK'
  <2>1. CASE Hangup(c) \/ BadRequest(c)
    BY <2>1 DEF Hangup, BadRequest
  <2>2. CASE RunCommand(c)
    BY <2>2 DEF RunCommand
  <2>3. CASE Collect(c)
    BY <2>3 DEF Collect, CodeOrOne
  <2>4. CASE WritePayload(c) \/ WriteEnd(c)
    BY <2>4 DEF WritePayload, WriteEnd
  <2>5. QED
    BY <1>6, <2>1, <2>2, <2>3, <2>4 DEF ThreadStep
<1>7. ASSUME NEW c \in Call, CommandEnds(c) PROVE BTypeOK'
  BY <1>7 DEF CommandEnds, CommandExits, CommandSignalled
<1>8. CASE UNCHANGED bvars
  BY <1>8 DEF bvars
<1>9. QED
  BY <1>1, <1>2, <1>3, <1>4, <1>5, <1>6, <1>7, <1>8 DEF BNext, ServiceNext, BrokerStep

\* Every variable of the broker keeps its type.
THEOREM BrokerTypes == BSpec => []BTypeOK
  BY BTypeInit, BTypeStep, PTL DEF BSpec

-----------------------------------------------------------------------------
\* The reply of a call is what became of its command.
ReplyTrue(c) ==
  \/ cmd[c] = "exited" /\ reply[c] = code[c]
  \/ cmd[c] \in {"signalled", "unstarted"} /\ reply[c] = 1

\* What each end of one call's connection implies about the other and about the command.
CallInv(c) ==
  /\ client[c] = "idle" => conn[c] = "none" /\ req[c] = "none"
  /\ conn[c] \in {"none", "queued", "reading"} => cmd[c] = "none" /\ resp[c] = "none"
  /\ conn[c] = "running" => resp[c] = "none" /\ cmd[c] # "none"
  /\ conn[c] = "replying" => resp[c] = "none" /\ (ReplyTrue(c) \/ req[c] = "part")
  /\ conn[c] = "ending" => ReplyTrue(c)
  /\ resp[c] \in {"payload", "line"} => ReplyTrue(c)
  /\ req[c] = "part" => Gone(c)
  /\ cmd[c] # "none" => req[c] \in {"json", "line"}
  /\ client[c] \in {"open", "failed"} /\ req[c] # "line" =>
       cmd[c] = "none" /\ conn[c] \notin {"running", "replying", "ending"}
  /\ client[c] = "failed" /\ req[c] # "line" => conn[c] \in {"none", "closed"}
  /\ client[c] = "answered" => ReplyTrue(c) /\ answer[c] = reply[c] /\ conn[c] \in {"ending", "closed"}

BInv == BTypeOK /\ \A c \in Call : CallInv(c)

\* A step that leaves every variable of a call alone keeps what it implies.
LEMMA OtherCalls ==
  ASSUME NEW c \in Call, CallInv(c),
         client'[c] = client[c], req'[c] = req[c], conn'[c] = conn[c], resp'[c] = resp[c],
         reply'[c] = reply[c], cmd'[c] = cmd[c], code'[c] = code[c], answer'[c] = answer[c]
  PROVE  CallInv(c)'
  BY DEF CallInv, ReplyTrue, Gone

LEMMA BInvStep == ASSUME BInv, [BNext]_bvars PROVE BInv'
<1>1. BTypeOK'
  BY BTypeStep DEF BInv
<1> SUFFICES ASSUME NEW d \in Call PROVE CallInv(d)'
  BY <1>1 DEF BInv
<1> CallInv(d) /\ BTypeOK
  BY DEF BInv
<1> USE DEF BTypeOK, CallInv, ReplyTrue, Gone, ClientEnded
<1>2. ASSUME NEW c \in Call, CallerStep(c) PROVE CallInv(d)'
  <2>1. CASE Connect(c)
    BY <2>1, OtherCalls DEF Connect
  <2>2. CASE ConnectFails(c)
    BY <2>2, OtherCalls DEF ConnectFails
  <2>3. CASE Write(c)
    BY <2>3, OtherCalls DEF Write
  <2>4. CASE WriteFails(c)
    BY <2>4, OtherCalls DEF WriteFails
  <2>5. CASE ReadAnswer(c)
    <3>1. CASE c = d
      <4>1. req[d] = "line" /\ resp[d] \in {"payload", "line"} /\ conn[d] \in {"ending", "closed"}
        BY <2>5, <3>1 DEF ReadAnswer, HasResponse, Served
      <4>2. UNCHANGED <<req, conn, resp, reply, cmd, code>>
        BY <2>5 DEF ReadAnswer
      <4>3. \/ client'[d] = "answered" /\ answer'[d] = reply[d]
            \/ client'[d] = "failed"
        BY <2>5, <3>1 DEF ReadAnswer
      <4>4. req'[d] = "line"
        BY <4>1, <4>2
      <4>5. ReplyTrue(d) /\ ReplyTrue(d)'
        BY <4>1, <4>2
      <4>6. CASE client'[d] = "answered" /\ answer'[d] = reply[d]
        BY <4>1, <4>2, <4>4, <4>5, <4>6
      <4>7. CASE client'[d] = "failed"
        BY <4>1, <4>2, <4>4, <4>5, <4>7
      <4>8. QED
        BY <4>3, <4>6, <4>7
    <3>2. CASE c # d
      BY <2>5, <3>2, OtherCalls DEF ReadAnswer
    <3>3. QED
      BY <3>1, <3>2
  <2>6. CASE ReadFails(c)
    BY <2>6, OtherCalls DEF ReadFails
  <2>7. QED
    BY <1>2, <2>1, <2>2, <2>3, <2>4, <2>5, <2>6 DEF CallerStep
<1>3. ASSUME NEW c \in Call, Die(c) PROVE CallInv(d)'
  BY <1>3, OtherCalls DEF Die
<1>4. CASE Bind \/ Open
  BY <1>4, OtherCalls DEF Bind, Open
<1>5. CASE BrokerDies
  BY <1>5 DEF BrokerDies, ConnClosed, Served
<1>6. ASSUME NEW c \in Call, Accept(c) PROVE CallInv(d)'
  BY <1>6, OtherCalls DEF Accept
<1>7. ASSUME NEW c \in Call, ThreadStep(c) PROVE CallInv(d)'
  <2>1. CASE Hangup(c)
    BY <1>7, <2>1, OtherCalls DEF Hangup
  <2>2. CASE BadRequest(c)
    BY <2>2, OtherCalls DEF BadRequest, LineRead, Parses, Reply
  <2>3. CASE RunCommand(c)
    BY <2>3, OtherCalls DEF RunCommand, LineRead, Parses, Reply
  <2>4. CASE Collect(c)
    BY <2>4, OtherCalls DEF Collect, CodeOrOne, Finished, Reply
  <2>5. CASE WritePayload(c)
    BY <2>5, OtherCalls DEF WritePayload
  <2>6. CASE WriteEnd(c)
    BY <2>6, OtherCalls DEF WriteEnd
  <2>7. QED
    BY <1>7, <2>1, <2>2, <2>3, <2>4, <2>5, <2>6 DEF ThreadStep
<1>8. ASSUME NEW c \in Call, CommandEnds(c) PROVE CallInv(d)'
  BY <1>8, OtherCalls DEF CommandEnds, CommandExits, CommandSignalled
<1>9. CASE UNCHANGED bvars
  BY <1>9, OtherCalls DEF bvars
<1>10. QED
  BY <1>2, <1>3, <1>4, <1>5, <1>6, <1>7, <1>8, <1>9 DEF BNext, ServiceNext, BrokerStep

LEMMA BrokerInvariant == BSpec => []BInv
<1>1. BInit => BInv
  BY BTypeInit DEF BInit, BInv, CallInv, ReplyTrue
<1>2. QED
  BY <1>1, BInvStep, PTL DEF BSpec

\* A call returns its own command's exit code, or 1 when a signal ended it or it could not be
\* started, for any number of calls and any order of deaths (execute_via_broker).
THEOREM AnswersAreTrue == BSpec => []AnswerIsTheCommands
<1>1. BInv => AnswerIsTheCommands
  BY DEF BInv, CallInv, ReplyTrue, AnswerIsTheCommands
<1>2. QED
  BY <1>1, BrokerInvariant, PTL

\* A call that fails before its request line is whole has run nothing and never will, for any
\* number of calls and wherever callers and broker die (execute_via_broker).
THEOREM UnsentRunsNothing == BSpec => []UnsentNeverRuns
<1>1. BInv => UnsentNeverRuns
  BY DEF BInv, CallInv, UnsentNeverRuns
<1>2. QED
  BY <1>1, BrokerInvariant, PTL

-----------------------------------------------------------------------------
\* What the next step for a call in spawn_zsp_process waits for: the broker that has its
\* connection, the caller that still writes, the command, the thread, or nothing, once the
\* connection is closed.  A restart of the broker is none of them.
CanGoOn(c) ==
  \/ conn[c] = "queued" /\ broker \in {"bound", "up"}
  \/ conn[c] = "reading" /\ (LineRead(c) \/ req[c] \in {"none", "json"})
  \/ conn[c] = "running" /\ cmd[c] \in {"running"} \cup Finished
  \/ conn[c] \in {"replying", "ending", "closed"}

NobodyIsStuck == \A c \in Call : client[c] = "open" => CanGoOn(c)

\* A connection that is served has a broker, a thread that runs a command has one.
Attended(c) ==
  /\ client[c] = "open" => conn[c] # "none"
  /\ conn[c] \in Served => broker # "down"
  /\ conn[c] = "running" => cmd[c] \in {"running"} \cup Finished

LEMMA AttendedStep ==
  ASSUME BInv, \A d \in Call : Attended(d), [BNext]_bvars, NEW d \in Call PROVE Attended(d)'
<1> USE DEF Attended, BTypeOK, CallInv, Served, Finished, ClientEnded
<1> BTypeOK /\ CallInv(d) /\ Attended(d)
  BY DEF BInv
<1>1. ASSUME NEW c \in Call, CallerStep(c) \/ Die(c) PROVE Attended(d)'
  BY <1>1 DEF CallerStep, Connect, ConnectFails, Write, WriteFails, ReadAnswer, ReadFails, Die
<1>2. CASE Bind \/ Open
  BY <1>2 DEF Bind, Open
<1>3. CASE BrokerDies
  BY <1>3 DEF BrokerDies, ConnClosed
<1>4. ASSUME NEW c \in Call, Accept(c) PROVE Attended(d)'
  BY <1>4 DEF Accept
<1>5. ASSUME NEW c \in Call, ThreadStep(c) PROVE Attended(d)'
  <2>1. CASE Hangup(c) \/ BadRequest(c) \/ Collect(c)
    BY <2>1 DEF Hangup, BadRequest, Collect, Reply
  <2>2. CASE RunCommand(c)
    BY <2>2 DEF RunCommand, Reply
  <2>3. CASE WritePayload(c) \/ WriteEnd(c)
    BY <2>3 DEF WritePayload, WriteEnd
  <2> QED
    BY <1>5, <2>1, <2>2, <2>3 DEF ThreadStep
<1>6. ASSUME NEW c \in Call, CommandEnds(c) PROVE Attended(d)'
  BY <1>6 DEF CommandEnds, CommandExits, CommandSignalled
<1>7. CASE UNCHANGED bvars
  BY <1>7 DEF bvars
<1> QED
  BY <1>1, <1>2, <1>3, <1>4, <1>5, <1>6, <1>7 DEF BNext, ServiceNext, BrokerStep

\* No caller waits on a broker that is gone, nor the two ends of a connection on each other,
\* although neither read_line has a time-out (handle_connection, execute_via_broker).
THEOREM NeverStuck == BSpec => []NobodyIsStuck
<1> DEFINE AllAttended == \A d \in Call : Attended(d)
<1>1. BInit => AllAttended
  BY DEF BInit, Attended, Served
<1>2. BInv /\ AllAttended /\ [BNext]_bvars => AllAttended'
  BY AttendedStep
<1>3. BInv /\ AllAttended => NobodyIsStuck
  <2> SUFFICES ASSUME BInv, AllAttended, NEW c \in Call, client[c] = "open" PROVE CanGoOn(c)
    BY DEF NobodyIsStuck
  <2>1. BTypeOK /\ CallInv(c) /\ Attended(c)
    BY DEF BInv
  <2>2. req[c] # "part"
    BY <2>1 DEF CallInv, Gone, ClientEnded
  <2> QED
    BY <2>1, <2>2 DEF CanGoOn, Attended, BTypeOK, Served, LineRead
<1> HIDE DEF AllAttended
<1> QED
  BY <1>1, <1>2, <1>3, BrokerInvariant, PTL DEF BSpec
=============================================================================
