--------------------------- MODULE RemoteExecProofs ---------------------------
(***************************************************************************)
(* RemoteExec.tla, for any number of calls and any exit codes.  Its steps  *)
(* are steps of Broker.tla or leave the broker alone, so what BrokerProofs *)
(* shows of the broker holds here, and is carried up to the controller.    *)
(***************************************************************************)
EXTENDS RemoteExec, BrokerProofs

LEMMA IsBrokerStep == [Next]_vars => [BNext]_bvars
<1> SUFFICES ASSUME [Next]_vars PROVE [BNext]_bvars
  OBVIOUS
<1>1. CASE Service
  BY <1>1 DEF Service, BNext
<1>2. ASSUME NEW c \in Call, Sign(c) PROVE [BNext]_bvars
  BY <1>2 DEF Sign, Lookup, SignLocally, LocalFails
<1>3. ASSUME NEW c \in Call, Start(c) \/ SessionStep(c) PROVE [BNext]_bvars
  BY <1>3 DEF Start, SignByPhone, BridgeFails, SessionFails, Exec, ExecRefused, ExecLost,
              SessionStep, ReceiveStatus, ReceiveSignal, LoopEnds
<1>4. ASSUME NEW c \in Call, TargetStep(c) PROVE [BNext]_bvars
  BY <1>4 DEF TargetStep, Refuse, Ask, Answered, SshdReports, BNext
<1>5. ASSUME NEW c \in Call, KillVerifier(c) PROVE [BNext]_bvars
  BY <1>5 DEF KillVerifier, BNext
<1>6. ASSUME NEW c \in Call, Network(c) PROVE [BNext]_bvars
  BY <1>6 DEF Network, ConnectionLost, Silence
<1>7. CASE UNCHANGED vars
  BY <1>7 DEF vars
<1> QED
  BY <1>1, <1>2, <1>3, <1>4, <1>5, <1>6, <1>7 DEF Next

\* Whatever controllers, sshd and verifiers do, what they do to the broker and its
\* connections is what Broker.tla allows.
THEOREM ImplementsBroker == Spec => BSpec
<1>1. Init => BInit
  BY DEF Init
<1> QED
  BY <1>1, IsBrokerStep, PTL DEF Spec, BSpec

\* How a command ended is known for good.
EndKnown(c) == cmd[c] = "exited" => code[c] \in Codes

LEMMA EndIsFinal ==
  ASSUME BInv, [BNext]_bvars, NEW c \in Call, EndKnown(c)
  PROVE  /\ EndKnown(c)'
         /\ cmd[c] = "exited" => cmd'[c] = "exited" /\ code'[c] = code[c]
<1> USE DEF EndKnown, BTypeOK
<1>1. BTypeOK /\ CallInv(c)
  BY DEF BInv
<1>2. ASSUME cmd' = cmd, code' = code
      PROVE  /\ EndKnown(c)'
             /\ cmd[c] = "exited" => cmd'[c] = "exited" /\ code'[c] = code[c]
  BY <1>2
<1>3. ASSUME NEW d \in Call, CallerStep(d) \/ Die(d) PROVE cmd' = cmd /\ code' = code
  BY <1>3 DEF CallerStep, Connect, ConnectFails, Write, WriteFails, ReadAnswer, ReadFails, Die
<1>4. CASE Bind \/ BrokerDies \/ BrokerStep \/ UNCHANGED bvars
  BY <1>2, <1>4 DEF Bind, BrokerDies, BrokerStep, Open, Accept, bvars
<1>5. ASSUME NEW d \in Call, ThreadStep(d)
      PROVE  /\ EndKnown(c)'
             /\ cmd[c] = "exited" => cmd'[c] = "exited" /\ code'[c] = code[c]
  <2>1. CASE RunCommand(d)
    BY <1>1, <2>1 DEF RunCommand, CallInv
  <2>2. CASE Hangup(d) \/ BadRequest(d) \/ Collect(d) \/ WritePayload(d) \/ WriteEnd(d)
    BY <1>2, <2>2 DEF Hangup, BadRequest, Collect, WritePayload, WriteEnd
  <2> QED
    BY <1>5, <2>1, <2>2 DEF ThreadStep
<1>6. ASSUME NEW d \in Call, CommandEnds(d)
      PROVE  /\ EndKnown(c)'
             /\ cmd[c] = "exited" => cmd'[c] = "exited" /\ code'[c] = code[c]
  BY <1>1, <1>6 DEF CommandEnds, CommandExits, CommandSignalled
<1> QED
  BY <1>2, <1>3, <1>4, <1>5, <1>6 DEF BNext, ServiceNext

\* A code that is not 1 is the one the call's command exited with.
Own(c, k) == k # 1 => cmd[c] = "exited" /\ code[c] = k

\* Each link passes on what the one before it knows.
Link(c) ==
  /\ EndKnown(c)
  /\ ver[c] = "exited" => Own(c, verCode[c])
  /\ chan[c] = "status" => ver[c] = "exited"
  /\ IF c \in learnt THEN Own(c, status[c]) ELSE status[c] = 0
  /\ exitCode[c] \notin {NoCode, 0} => Own(c, exitCode[c])

LEMMA OwnIsFinal ==
  ASSUME BInv, [BNext]_bvars, NEW c \in Call, EndKnown(c), NEW k, Own(c, k)
  PROVE  Own(c, k)'
BY EndIsFinal DEF Own

\* The inductive invariant.
IInv == TypeOK /\ BInv /\ \A c \in Call : Link(c)

LEMMA InitInv == Init => IInv
<1> SUFFICES ASSUME Init PROVE IInv
  OBVIOUS
<1>1. BInv
  BY BTypeInit DEF Init, BInit, BInv, CallInv, ReplyTrue
<1>2. TypeOK
  BY BTypeInit DEF Init, TypeOK, VerifierLive
<1>3. ASSUME NEW c \in Call PROVE Link(c)
  BY DEF Init, BInit, Link, EndKnown
<1> QED
  BY <1>1, <1>2, <1>3 DEF IInv

LEMMA TypeStep == ASSUME IInv, [Next]_vars PROVE TypeOK'
<1>1. BTypeOK'
  BY IsBrokerStep, BTypeStep DEF IInv, BInv
<1> USE <1>1 DEF TypeOK, VerifierLive, NoCode, Finish
<1>2. TypeOK /\ BInv /\ \A c \in Call : Link(c)
  BY DEF IInv
<1>3. CASE Service
  BY <1>2, <1>3 DEF Service, rvars
<1>4. ASSUME NEW c \in Call, Sign(c) PROVE TypeOK'
  BY <1>2, <1>4 DEF Sign, Lookup, SignLocally, LocalFails
<1>5. ASSUME NEW c \in Call, Start(c) \/ SessionStep(c) PROVE TypeOK'
  <2>1. CASE SignByPhone(c) \/ BridgeFails(c) \/ SessionFails(c)
    BY <1>2, <2>1 DEF SignByPhone, BridgeFails, SessionFails
  <2>2. CASE Exec(c) \/ ExecRefused(c) \/ ExecLost(c)
    BY <1>2, <2>2 DEF Exec, ExecRefused, ExecLost
  <2>3. CASE ReceiveStatus(c)
    <3>1. verCode[c] \in Codes \cup {0, 1}
      BY <1>2, <2>3 DEF ReceiveStatus, Link, Own, EndKnown
    <3> QED
      BY <1>2, <2>3, <3>1 DEF ReceiveStatus
  <2>4. CASE ReceiveSignal(c) \/ LoopEnds(c)
    BY <1>2, <2>4 DEF ReceiveSignal, LoopEnds
  <2> QED
    BY <1>5, <2>1, <2>2, <2>3, <2>4 DEF Start, SessionStep
<1>6. ASSUME NEW c \in Call, TargetStep(c) PROVE TypeOK'
  <2>1. CASE Refuse(c) \/ Ask(c) \/ SshdReports(c)
    BY <1>2, <2>1 DEF Refuse, Ask, SshdReports, VerifierExits, ReportEnd
  <2>2. CASE Answered(c)
    <3>1. SpawnResult(c) \in Codes \cup {1, -1}
      BY <1>2 DEF SpawnResult, BInv, BTypeOK
    <3> QED
      BY <1>2, <2>2, <3>1 DEF Answered, VerifierExits
  <2>3. CASE UNCHANGED rvars
    BY <1>2, <2>3 DEF rvars
  <2> QED
    BY <1>6, <2>1, <2>2, <2>3 DEF TargetStep
<1>7. ASSUME NEW c \in Call, KillVerifier(c) \/ Network(c) PROVE TypeOK'
  BY <1>2, <1>7 DEF KillVerifier, Network, ConnectionLost, Silence
<1>8. CASE UNCHANGED vars
  BY <1>2, <1>8 DEF vars, rvars
<1> QED
  BY <1>3, <1>4, <1>5, <1>6, <1>7, <1>8 DEF Next

\* A step that leaves a call's verifier, channel and controller alone.
LEMMA LinkKept ==
  ASSUME BInv, [BNext]_bvars, NEW c \in Call, Link(c),
         ver'[c] = ver[c], verCode'[c] = verCode[c], chan'[c] = chan[c],
         status'[c] = status[c], exitCode'[c] = exitCode[c], c \in learnt' <=> c \in learnt
  PROVE  Link(c)'
<1>1. EndKnown(c)'
  BY EndIsFinal DEF Link
<1>2. \A k : Own(c, k) => (cmd'[c] = "exited" /\ code'[c] = k) \/ k = 1
  BY EndIsFinal DEF Link, Own
<1> QED
  BY <1>1, <1>2 DEF Link, Own

LEMMA LinkStep == ASSUME IInv, [Next]_vars, NEW d \in Call PROVE Link(d)'
<1> DEFINE Later(k) == k # 1 => cmd'[d] = "exited" /\ code'[d] = k
<1>1. BInv /\ [BNext]_bvars /\ Link(d) /\ TypeOK
  BY IsBrokerStep DEF IInv
<1>2. EndKnown(d)' /\ \A k : Own(d, k) => Later(k)
  BY <1>1, EndIsFinal DEF Link, Own
<1>3. ASSUME UNCHANGED rvars PROVE Link(d)'
  BY <1>1, <1>3, LinkKept DEF rvars
<1>4. ASSUME NEW c \in Call, c # d,
             UNCHANGED status \/ \E k : status' = [status EXCEPT ![c] = k],
             UNCHANGED exitCode \/ \E k : exitCode' = [exitCode EXCEPT ![c] = k],
             UNCHANGED ver \/ \E k : ver' = [ver EXCEPT ![c] = k],
             UNCHANGED verCode \/ \E k : verCode' = [verCode EXCEPT ![c] = k],
             UNCHANGED chan \/ \E k : chan' = [chan EXCEPT ![c] = k],
             learnt' \in {learnt, learnt \cup {c}}
      PROVE  Link(d)'
  <2>1. status'[d] = status[d] /\ exitCode'[d] = exitCode[d] /\ ver'[d] = ver[d]
        /\ verCode'[d] = verCode[d] /\ chan'[d] = chan[d] /\ (d \in learnt' <=> d \in learnt)
    BY <1>1, <1>4 DEF TypeOK
  <2> QED
    BY <1>1, <2>1, LinkKept
<1>5. ASSUME NEW c \in Call, Sign(c) PROVE Link(d)'
  <2>1. CASE UNCHANGED exitCode
    BY <1>1, <1>5, <2>1, LinkKept DEF Sign, Lookup, SignLocally, LocalFails
  <2>2. CASE Finish(c, 1) /\ UNCHANGED <<bvars, status, ver, verCode, chan, learnt>>
    <3>1. CASE c = d
      <4>1. exitCode'[d] = 1
        BY <1>1, <2>2, <3>1 DEF Finish, TypeOK
      <4> QED
        BY <1>1, <1>2, <2>2, <4>1 DEF Link, Own
    <3> QED
      BY <1>4, <2>2, <3>1 DEF Finish
  <2> QED
    BY <1>5, <2>1, <2>2 DEF Sign, Lookup, SignLocally, LocalFails
<1>6. ASSUME NEW c \in Call, Start(c) \/ SessionStep(c) PROVE Link(d)'
  <2>1. CASE SignByPhone(c)
    BY <1>1, <2>1, LinkKept DEF SignByPhone
  <2>2. CASE BridgeFails(c) \/ SessionFails(c)
    <3>1. CASE c = d
      <4>1. exitCode'[d] = 1
        BY <1>1, <2>2, <3>1 DEF BridgeFails, SessionFails, Finish, TypeOK
      <4> QED
        BY <1>1, <1>2, <2>2, <4>1 DEF BridgeFails, SessionFails, Link, Own
    <3> QED
      BY <1>4, <2>2, <3>1 DEF BridgeFails, SessionFails, Finish
  <2>3. CASE Exec(c)
    <3>1. CASE c = d
      <4>1. /\ chan'[d] = "open" /\ ver'[d] = "checking"
            /\ UNCHANGED <<status, exitCode, verCode, learnt>>
        BY <1>1, <2>3, <3>1 DEF Exec, TypeOK
      <4> QED
        BY <1>1, <1>2, <4>1 DEF Link, Own
    <3> QED
      BY <1>4, <2>3, <3>1 DEF Exec
  <2>7. CASE ExecRefused(c) \/ ExecLost(c)
    <3>1. CASE c = d
      <4>1. chan'[d] # "status" /\ UNCHANGED <<status, exitCode, ver, verCode, learnt>>
        BY <1>1, <2>7, <3>1 DEF ExecRefused, ExecLost, TypeOK
      <4> QED
        BY <1>1, <1>2, <4>1 DEF Link, Own
    <3> QED
      BY <1>4, <2>7, <3>1 DEF ExecRefused, ExecLost
  <2>4. CASE ReceiveStatus(c)
    <3>1. CASE c = d
      <4>1. /\ ver[d] = "exited" /\ chan'[d] = "closed" /\ status'[d] = verCode[d] /\ d \in learnt'
            /\ exitCode' = exitCode /\ ver' = ver /\ verCode' = verCode
        BY <1>1, <2>4, <3>1 DEF ReceiveStatus, TypeOK, Link
      <4> QED
        BY <1>1, <1>2, <4>1 DEF Link, Own
    <3> QED
      BY <1>4, <2>4, <3>1 DEF ReceiveStatus
  <2>5. CASE ReceiveSignal(c)
    <3>1. CASE c = d
      <4>1. chan'[d] = "closed" /\ UNCHANGED <<status, exitCode, ver, verCode, learnt>>
        BY <1>1, <2>5, <3>1 DEF ReceiveSignal, TypeOK
      <4> QED
        BY <1>1, <1>2, <4>1 DEF Link, Own
    <3> QED
      BY <1>4, <2>5, <3>1 DEF ReceiveSignal
  <2>6. CASE LoopEnds(c)
    <3>1. CASE c = d
      <4>1. exitCode'[d] = status[d] /\ UNCHANGED <<status, ver, verCode, chan, learnt>>
        BY <1>1, <2>6, <3>1 DEF LoopEnds, Finish, TypeOK
      <4> QED
        BY <1>1, <1>2, <4>1 DEF Link, Own
    <3> QED
      BY <1>4, <2>6, <3>1 DEF LoopEnds, Finish
  <2> QED
    BY <1>6, <2>1, <2>2, <2>3, <2>7, <2>4, <2>5, <2>6 DEF Start, SessionStep
<1>7. ASSUME NEW c \in Call, TargetStep(c) PROVE Link(d)'
  <2>1. CASE Refuse(c)
    <3>1. CASE c = d
      <4>1. /\ ver'[d] = "exited" /\ verCode'[d] = 1
            /\ UNCHANGED <<status, exitCode, chan, learnt>>
        BY <1>1, <2>1, <3>1 DEF Refuse, VerifierExits, TypeOK
      <4> QED
        BY <1>1, <1>2, <4>1 DEF Link, Own
    <3> QED
      BY <1>4, <2>1, <3>1 DEF Refuse, VerifierExits
  <2>2. CASE Ask(c)
    <3>1. CASE c = d
      <4>1. /\ ver[d] # "exited" /\ ver'[d] # "exited"
            /\ UNCHANGED <<status, exitCode, verCode, chan, learnt>>
        BY <1>1, <2>2, <3>1 DEF Ask, TypeOK
      <4> QED
        BY <1>1, <1>2, <4>1 DEF Link, Own
    <3> QED
      BY <1>4, <2>2, <3>1 DEF Ask
  <2>3. CASE Answered(c)
    <3>1. CASE c = d
      <4>1. /\ ver'[d] = "exited" /\ verCode'[d] = SpawnResult(d)
            /\ UNCHANGED <<bvars, status, exitCode, chan, learnt>>
        BY <1>1, <2>3, <3>1 DEF Answered, VerifierExits, TypeOK
      <4>2. Own(d, SpawnResult(d))
        BY <1>1 DEF SpawnResult, Own, BInv, CallInv, ReplyTrue
      <4> QED
        BY <1>1, <1>2, <4>1, <4>2 DEF Link, Own
    <3> QED
      BY <1>4, <2>3, <3>1 DEF Answered, VerifierExits
  <2>4. CASE SshdReports(c)
    <3>1. CASE c = d
      <4>1. /\ chan'[d] = "status" => ver[d] = "exited"
            /\ UNCHANGED <<status, exitCode, ver, verCode, learnt>>
        BY <1>1, <2>4, <3>1 DEF SshdReports, ReportEnd, TypeOK
      <4> QED
        BY <1>1, <1>2, <4>1 DEF Link, Own
    <3> QED
      BY <1>4, <2>4, <3>1 DEF SshdReports, ReportEnd
  <2> QED
    BY <1>3, <1>7, <2>1, <2>2, <2>3, <2>4 DEF TargetStep
<1>8. ASSUME NEW c \in Call, KillVerifier(c) PROVE Link(d)'
  <2>1. CASE c = d
    <3>1. /\ ver[d] # "exited" /\ ver'[d] = "signalled"
          /\ UNCHANGED <<status, exitCode, verCode, chan, learnt>>
      BY <1>1, <1>8, <2>1 DEF KillVerifier, VerifierLive, TypeOK
    <3> QED
      BY <1>1, <1>2, <3>1 DEF Link, Own
  <2> QED
    BY <1>4, <1>8, <2>1 DEF KillVerifier
<1>9. ASSUME NEW c \in Call, Network(c) PROVE Link(d)'
  <2>1. CASE c = d
    <3>1. chan'[d] # "status" /\ UNCHANGED <<status, exitCode, ver, verCode, learnt>>
      BY <1>1, <1>9, <2>1 DEF Network, ConnectionLost, Silence, TypeOK
    <3> QED
      BY <1>1, <1>2, <3>1 DEF Link, Own
  <2> QED
    BY <1>4, <1>9, <2>1 DEF Network, ConnectionLost, Silence
<1>10. CASE UNCHANGED vars
  BY <1>3, <1>10 DEF vars
<1> QED
  BY <1>3, <1>5, <1>6, <1>7, <1>8, <1>9, <1>10 DEF Next, Service

LEMMA StepInv == IInv /\ [Next]_vars => IInv'
<1> SUFFICES ASSUME IInv, [Next]_vars PROVE IInv'
  OBVIOUS
<1>1. BInv'
  BY IsBrokerStep, BInvStep DEF IInv
<1>2. TypeOK' /\ \A c \in Call : Link(c)'
  BY TypeStep, LinkStep
<1> QED
  BY <1>1, <1>2 DEF IInv

LEMMA Invariant == Spec => []IInv
BY InitInv, StepInv, PTL DEF Spec

\* Every variable of the composition keeps its type; a status that is received is a code.
THEOREM ExecTypes == Spec => []TypeOK
BY Invariant, PTL DEF IInv

\* Any exit code of the controller but 0 and 1 is the one the call's own command exited with,
\* for any number of calls and whatever dies, restarts or is lost between the two.
THEOREM CodesAreTrue == Spec => []OtherCodesAreTheCommands
<1>1. IInv => OtherCodesAreTheCommands
  BY DEF IInv, Link, Own, OtherCodesAreTheCommands
<1> QED
  BY Invariant, <1>1, PTL

\* A 0 that execute_session received is the command's own: the verifier, sshd and the broker
\* never make one up.
THEOREM ReceivedZeroIsTrue == Spec => []ReceivedZeroIsSuccess
<1>1. IInv => ReceivedZeroIsSuccess
  BY DEF IInv, Link, Own, ReceivedZeroIsSuccess
<1> QED
  BY Invariant, <1>1, PTL

\* An exit code of 0 that is not the command's own comes from one place only: a channel that
\* ended before any exit status was received leaves execute_session's initial 0.
ZeroMadeUp ==
  \A c \in Call : exitCode[c] = 0 => (cmd[c] = "exited" /\ code[c] = 0) \/ c \notin learnt

EndedOnce(c) ==
  /\ ctl[c] # "done" => exitCode[c] = NoCode
  /\ exitCode[c] = 0 => Own(c, 0) \/ c \notin learnt

LEMMA EndedOnceStep ==
  ASSUME IInv, [Next]_vars, NEW d \in Call, EndedOnce(d) PROVE EndedOnce(d)'
<1>1. BInv /\ [BNext]_bvars /\ Link(d) /\ TypeOK /\ NoCode # 0
  BY IsBrokerStep DEF IInv, NoCode
<1>2. Own(d, 0) => Own(d, 0)'
  BY <1>1, OwnIsFinal DEF Link
<1>3. ASSUME UNCHANGED <<ctl, exitCode, learnt>> PROVE EndedOnce(d)'
  BY <1>2, <1>3 DEF EndedOnce
<1>4. ASSUME NEW c \in Call, ctl[c] # "done", learnt' = learnt,
             (ctl' = [ctl EXCEPT ![c] = ctl'[c]] /\ exitCode' = exitCode) \/ Finish(c, 1)
      PROVE  EndedOnce(d)'
  <2>1. CASE c = d
    BY <1>1, <1>4, <2>1 DEF EndedOnce, Finish, TypeOK
  <2>2. CASE c # d
    <3>1. ctl'[d] = ctl[d] /\ exitCode'[d] = exitCode[d]
      BY <1>1, <1>4, <2>2 DEF Finish, TypeOK
    <3> QED
      BY <1>2, <1>4, <3>1 DEF EndedOnce
  <2> QED
    BY <2>1, <2>2
<1>5. ASSUME NEW c \in Call, Sign(c) PROVE EndedOnce(d)'
  BY <1>1, <1>4, <1>5 DEF Sign, Lookup, SignLocally, LocalFails, TypeOK
<1>6. ASSUME NEW c \in Call, Start(c) \/ SessionStep(c) PROVE EndedOnce(d)'
  <2>1. CASE Start(c)
    BY <1>1, <1>4, <2>1 DEF Start, SignByPhone, BridgeFails, SessionFails, Exec, ExecRefused,
                            ExecLost, TypeOK
  <2>2. CASE ReceiveStatus(c)
    <3>1. ctl[c] # "done" /\ UNCHANGED <<ctl, exitCode>> /\ learnt' = learnt \cup {c}
      BY <2>2 DEF ReceiveStatus
    <3>2. c = d => exitCode'[d] # 0
      BY <1>1, <3>1 DEF EndedOnce
    <3> QED
      BY <1>2, <3>1, <3>2 DEF EndedOnce
  <2>3. CASE ReceiveSignal(c)
    BY <1>3, <2>3 DEF ReceiveSignal
  <2>4. CASE LoopEnds(c)
    <3>1. Finish(c, status[c]) /\ learnt' = learnt
      BY <2>4 DEF LoopEnds
    <3>2. CASE c = d
      <4>1. ctl'[d] = "done" /\ exitCode'[d] = status[d]
        BY <1>1, <3>1, <3>2 DEF Finish, TypeOK
      <4> QED
        BY <1>1, <1>2, <3>1, <4>1 DEF EndedOnce, Link
    <3>3. CASE c # d
      <4>1. ctl'[d] = ctl[d] /\ exitCode'[d] = exitCode[d]
        BY <1>1, <3>1, <3>3 DEF Finish, TypeOK
      <4> QED
        BY <1>2, <3>1, <4>1 DEF EndedOnce
    <3> QED
      BY <3>2, <3>3
  <2> QED
    BY <1>6, <2>1, <2>2, <2>3, <2>4 DEF SessionStep
<1>7. ASSUME NEW c \in Call, TargetStep(c) \/ KillVerifier(c) \/ Network(c)
      PROVE  EndedOnce(d)'
  BY <1>3, <1>7 DEF TargetStep, Refuse, Ask, Answered, SshdReports, KillVerifier,
                    Network, ConnectionLost, Silence, rvars
<1>8. CASE Service \/ UNCHANGED vars
  BY <1>3, <1>8 DEF Service, vars, rvars
<1> QED
  BY <1>5, <1>6, <1>7, <1>8 DEF Next

\* The code that the controller ends with contradicts the remote command only where no exit
\* status was received: the one way in which ZeroIsSuccess fails (_run_command).
THEOREM ZeroOnlyMadeUp == Spec => []ZeroMadeUp
<1> DEFINE AllEnded == \A c \in Call : EndedOnce(c)
<1>1. Init => AllEnded
  BY DEF Init, EndedOnce, NoCode
<1>2. IInv /\ AllEnded /\ [Next]_vars => AllEnded'
  BY EndedOnceStep
<1>3. AllEnded => ZeroMadeUp
  BY DEF EndedOnce, Own, ZeroMadeUp
<1> HIDE DEF AllEnded
<1> QED
  BY <1>1, <1>2, <1>3, Invariant, PTL DEF Spec

\* Of a call from end to end: what the verifier is told is what became of the command, and a
\* call that failed before its request was sent runs nothing.
THEOREM AnswersReachTheVerifier == Spec => []AnswerIsTheCommands /\ []UnsentNeverRuns
BY ImplementsBroker, AnswersAreTrue, UnsentRunsNothing, PTL

\* Nor is a verifier that asked the broker ever stuck.
THEOREM VerifierNeverStuck == Spec => []NobodyIsStuck
BY ImplementsBroker, NeverStuck, PTL
===============================================================================
