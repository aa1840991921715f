-------------------------- MODULE TargetHostProofs --------------------------
(***************************************************************************)
(* What Verifier.tla promises for every number of processes, sessions,     *)
(* passkeys and envelopes, every TTL and every clock; and, in the last     *)
(* part, what TargetHost.tla promises of the commands that run.            *)
(***************************************************************************)
EXTENDS TargetHost, BrokerProofs, TLAPS

\* The inductive invariant: the properties of the table, and what they rest on.
IInv ==
  /\ TypeOK
  /\ OneTransaction
  /\ WorkIsUsed
  /\ InsertedWasFree
  /\ StampsRead
  /\ Remembered

\* The owner of a transaction is a process, and the only one inside a transaction.
LEMMA Owner ==
  ASSUME TypeOK, OneTransaction, NEW p \in Proc, pc[p] \in InTransaction
  PROVE  /\ lock = p
         /\ lock # NoProc
         /\ \A q \in Proc : q # p => pc[q] \notin InTransaction
  BY ProcAssumption DEF TypeOK, OneTransaction

\* The initial values are of their types.
LEMMA TypeInit == Init => TypeOK
  BY TTLAssumption, EnvelopeAssumption
  DEF Init, TypeOK, Status, Time, Rows, NoRows

\* Every step keeps every variable in its type.
LEMMA TypeStep == ASSUME TypeOK, [Next]_vars PROVE TypeOK'
<1> USE DEF TypeOK, Status, InTransaction, Ended, Goto, database, history
<1>1. ASSUME NEW p \in Proc, Start(p) PROVE TypeOK'
  BY <1>1 DEF Start
<1>2. ASSUME NEW p \in Proc, Kill(p) PROVE TypeOK'
  BY <1>2 DEF Kill, ReleasedByDeath, Rollback, NoRows, Rows
<1>3. ASSUME NEW t \in Time, SetClock(t) PROVE TypeOK'
  BY <1>3 DEF SetClock
<1>4. CASE BeginKeysCopy
  BY <1>4 DEF BeginKeysCopy
<1>5. ASSUME NEW ks \in SUBSET Key, EndKeysCopy(ks) PROVE TypeOK'
  BY <1>5 DEF EndKeysCopy
<1>6. ASSUME NEW p \in Proc, RejectEarly(p) PROVE TypeOK'
  BY <1>6 DEF RejectEarly
<1>7. ASSUME NEW p \in Proc, ReadClock(p) PROVE TypeOK'
  BY <1>7 DEF ReadClock, Stamp
<1>8. ASSUME NEW p \in Proc, Purge(p) PROVE TypeOK'
  BY <1>8 DEF Purge, Purged, Rows
<1>9. ASSUME NEW p \in Proc, ReplayDetected(p) PROVE TypeOK'
  BY <1>9 DEF ReplayDetected, RejectReplay, Rollback, NoRows, Rows
<1>10. ASSUME NEW p \in Proc, Insert(p) PROVE TypeOK'
  BY <1>10 DEF Insert, Rows, EnvelopeType
<1>11. ASSUME NEW p \in Proc, Commit(p) PROVE TypeOK'
  BY <1>11 DEF Commit, NoRows, Rows, EnvelopeType
<1>12. ASSUME NEW p \in Proc, CacheUnavailable(p) PROVE TypeOK'
  BY <1>12 DEF CacheUnavailable, Rollback, NoRows, Rows
<1>13. ASSUME NEW p \in Proc, Verify(p) PROVE TypeOK'
  BY <1>13 DEF Verify
<1>14. ASSUME NEW p \in Proc, RejectAssertion(p) PROVE TypeOK'
  BY <1>14 DEF RejectAssertion
<1>15. ASSUME NEW p \in Proc, Spawn(p) PROVE TypeOK'
  BY <1>15 DEF Spawn
<1>16. ASSUME NEW p \in Proc, Return(p) PROVE TypeOK'
  BY <1>16 DEF Return
<1>17. CASE UNCHANGED vars
  BY <1>17 DEF vars
<1>18. QED
  BY <1>1, <1>2, <1>3, <1>4, <1>5, <1>6, <1>7, <1>8, <1>9, <1>10, <1>11, <1>12,
     <1>13, <1>14, <1>15, <1>16, <1>17
  DEF Next, Environment, World, Step, Check

\* Stamps are clock readings, rows are stamps and only a process holds the lock.
THEOREM TypeCorrect == Spec => []TypeOK
  BY TypeInit, TypeStep, PTL DEF Spec

\* A step that leaves the table, the stamps and the acceptances alone, and moves no process
\* into or out of a transaction, keeps the invariant.
LEMMA Elsewhere ==
  ASSUME IInv, TypeOK',
         UNCHANGED <<env, stamp, used, lock, work, accepted, latest>>,
         \A q \in Proc : /\ pc'[q] \in InTransaction <=> pc[q] \in InTransaction
                         /\ pc'[q] = "inserted" <=> pc[q] = "inserted"
  PROVE  IInv'
<1>1. OneTransaction'
  BY DEF IInv, OneTransaction, InTransaction
<1>2. WorkIsUsed'
  <2>1. lock # NoProc => lock \in Proc
    BY DEF IInv, TypeOK
  <2>2. QED
    BY <2>1 DEF IInv, WorkIsUsed, Expired
<1>3. InsertedWasFree'
  BY DEF IInv, InsertedWasFree, Expired
<1>4. StampsRead' /\ Remembered'
  BY DEF IInv, StampsRead, Remembered
<1>5. QED
  BY <1>1, <1>2, <1>3, <1>4 DEF IInv

\* A process that rolls back, or holds nothing, and leaves keeps the invariant.
LEMMA Leaving ==
  ASSUME IInv, TypeOK', NEW p \in Proc, Rollback(p),
         UNCHANGED <<env, stamp, accepted, latest>>,
         NEW s, Goto(p, s), s \notin InTransaction
  PROVE  IInv'
<1>1. \A q \in Proc : pc'[q] = IF q = p THEN s ELSE pc[q]
  BY DEF IInv, TypeOK, Goto
<1>2. used' = used
  BY DEF Rollback, database
<1>3. lock' = (IF lock = p THEN NoProc ELSE lock)
  BY DEF Rollback, database
<1>4. OneTransaction'
  BY <1>1, <1>3, ProcAssumption DEF IInv, OneTransaction
<1>5. WorkIsUsed'
  <2>1. CASE lock = p
    BY <1>3, <2>1 DEF WorkIsUsed
  <2>2. CASE lock # p
    <3>1. work' = work /\ lock' = lock
      BY <2>2 DEF Rollback, database
    <3>2. lock # NoProc => lock \in Proc /\ pc'[lock] = pc[lock]
      BY <1>1, <2>2 DEF IInv, TypeOK
    <3>3. QED
      BY <1>2, <3>1, <3>2 DEF IInv, WorkIsUsed, Expired
  <2>3. QED
    BY <2>1, <2>2
<1>6. InsertedWasFree'
  <2> SUFFICES ASSUME NEW q \in Proc, pc'[q] = "inserted"
               PROVE  /\ work'[env[q].session] = stamp[q]
                      /\ \/ used[env[q].session] = Never
                         \/ Expired(used[env[q].session], stamp[q])
    BY <1>2 DEF InsertedWasFree, Expired
  <2>1. q # p /\ pc[q] = "inserted"
    BY <1>1 DEF InTransaction
  <2>2. lock # p
    BY <2>1 DEF IInv, OneTransaction, InTransaction
  <2>3. work' = work
    BY <2>2 DEF Rollback, database
  <2>4. QED
    BY <2>1, <2>3 DEF IInv, InsertedWasFree
<1>7. StampsRead' /\ Remembered'
  BY <1>2 DEF IInv, StampsRead, Remembered
<1>8. QED
  BY <1>4, <1>5, <1>6, <1>7 DEF IInv

LEMMA InvariantInit == Init => IInv
<1> SUFFICES ASSUME Init PROVE IInv
  OBVIOUS
<1>1. TypeOK
  BY TypeInit
<1>2. OneTransaction
  BY ProcAssumption DEF Init, OneTransaction, InTransaction
<1>3. WorkIsUsed /\ InsertedWasFree /\ StampsRead /\ Remembered
  BY DEF Init, WorkIsUsed, InsertedWasFree, StampsRead, Remembered
<1>4. QED
  BY <1>1, <1>2, <1>3 DEF IInv

\* Reading the clock before the transaction: only the reader's stamp and latest change.
LEMMA ReadClockKeeps ==
  ASSUME IInv, TypeOK', NEW p \in Proc, ReadClock(p)
  PROVE  IInv'
<1> USE DEF IInv, ReadClock, Goto, database
<1>1. \A q \in Proc : /\ pc'[q] = IF q = p THEN "stamped" ELSE pc[q]
                      /\ q # p => stamp'[q] = stamp[q]
  BY DEF TypeOK
<1>2. latest <= latest' /\ stamp'[p] = now /\ now <= latest'
  BY DEF TypeOK, Stamp, Time
<1>3. OneTransaction'
  BY <1>1 DEF OneTransaction, InTransaction
<1>4. WorkIsUsed'
  <2>1. lock # NoProc => lock \in Proc /\ lock # p
    BY DEF TypeOK, OneTransaction, InTransaction
  <2>2. QED
    BY <1>1, <2>1 DEF WorkIsUsed, Expired
<1>5. InsertedWasFree'
  BY <1>1 DEF InsertedWasFree, Expired
<1>6. StampsRead'
  BY <1>1, <1>2 DEF StampsRead, TypeOK, Time
<1>7. Remembered'
  BY <1>2, TTLAssumption DEF Remembered, TypeOK, Time
<1>8. QED
  BY <1>3, <1>4, <1>5, <1>6, <1>7

\* Opening the transaction: the copy is the committed table without its expired rows.
LEMMA PurgeKeeps ==
  ASSUME IInv, TypeOK', NEW p \in Proc, Purge(p)
  PROVE  IInv'
<1> USE DEF IInv, Purge, Goto, history
<1>1. \A q \in Proc : pc'[q] = IF q = p THEN "purged" ELSE pc[q]
  BY DEF TypeOK
<1>2. OneTransaction'
  BY <1>1, ProcAssumption DEF OneTransaction, InTransaction, Unlocked
<1>3. WorkIsUsed'
  <2>1. \A s \in Session :
          \/ work'[s] = used[s]
          \/ work'[s] = Never /\ used[s] # Never /\ used[s] < stamp[p] - TTL
    BY DEF Purged, Expired
  <2>2. used' = used /\ stamp'[lock'] = stamp[p]
    OBVIOUS
  <2>3. QED
    BY <2>1, <2>2 DEF WorkIsUsed, Expired
<1>4. InsertedWasFree'
  <2>1. \A q \in Proc : pc[q] # "inserted"
    BY ProcAssumption DEF OneTransaction, InTransaction, Unlocked
  <2>2. \A q \in Proc : pc'[q] # "inserted"
    BY <1>1, <2>1
  <2>3. QED
    BY <2>2 DEF InsertedWasFree
<1>5. StampsRead' /\ Remembered'
  BY DEF StampsRead, Remembered
<1>6. QED
  BY <1>2, <1>3, <1>4, <1>5

\* Inserting: the session had no row left in the copy, so its committed row, if any, expired.
LEMMA InsertKeeps ==
  ASSUME IInv, TypeOK', NEW p \in Proc, Insert(p)
  PROVE  IInv'
<1> USE DEF IInv, Insert, Goto, history
<1>1. lock = p /\ lock # NoProc /\ \A q \in Proc : q # p => pc[q] \notin InTransaction
  BY Owner DEF InTransaction
<1>2. \A q \in Proc : pc'[q] = IF q = p THEN "inserted" ELSE pc[q]
  BY DEF TypeOK
<1>3. env[p].session \in Session
  BY DEF TypeOK, EnvelopeType
<1>4. \A s \in Session : work'[s] = IF s = env[p].session THEN stamp[p] ELSE work[s]
  BY DEF TypeOK, Rows
<1>5. OneTransaction'
  BY <1>1, <1>2 DEF OneTransaction, InTransaction
<1>6. WorkIsUsed'
  BY <1>1, <1>2, <1>4 DEF WorkIsUsed, Expired
<1>7. InsertedWasFree'
  <2>1. \/ used[env[p].session] = Never
        \/ Expired(used[env[p].session], stamp[p])
    BY <1>1, <1>3 DEF WorkIsUsed
  <2>2. QED
    BY <1>1, <1>2, <1>3, <1>4, <2>1 DEF InsertedWasFree, Expired, InTransaction
<1>8. StampsRead' /\ Remembered'
  BY DEF StampsRead, Remembered
<1>9. QED
  BY <1>5, <1>6, <1>7, <1>8

\* What a committing process may assume about earlier acceptances of its session.
LEMMA CommitOutsideWindow ==
  ASSUME IInv, NEW p \in Proc, pc[p] = "inserted",
         NEW a \in accepted, a.session = env[p].session
  PROVE  latest > a.at + TTL
<1> USE DEF IInv
<1>1. a.at \in Time /\ stamp[p] \in Time /\ latest \in Time /\ stamp[p] <= latest
  BY DEF TypeOK, StampsRead
<1>2. CASE used[a.session] = a.at
  <2>1. used[a.session] # Never
    BY <1>1, <1>2, NeverAssumption DEF Time
  <2>2. Expired(used[a.session], stamp[p])
    BY <2>1 DEF InsertedWasFree
  <2>3. QED
    BY <1>1, <1>2, <2>2, TTLAssumption DEF Expired, Time
<1>3. QED
  BY <1>2 DEF Remembered

\* Committing: the purged rows had expired at the committer's stamp, which was read.
LEMMA CommitKeeps ==
  ASSUME IInv, TypeOK', NEW p \in Proc, Commit(p)
  PROVE  IInv'
<1> USE DEF IInv, Commit, Goto
<1>1. lock = p /\ lock # NoProc /\ \A q \in Proc : q # p => pc[q] \notin InTransaction
  BY Owner DEF InTransaction
<1>2. \A q \in Proc : pc'[q] = IF q = p THEN "recorded" ELSE pc[q]
  BY DEF TypeOK
<1>3. OneTransaction'
  BY <1>1, <1>2, ProcAssumption DEF OneTransaction, InTransaction
<1>4. WorkIsUsed' /\ StampsRead'
  BY DEF WorkIsUsed, StampsRead
<1>5. InsertedWasFree'
  BY <1>1, <1>2 DEF InsertedWasFree, InTransaction
<1>6. Remembered'
  <2> SUFFICES ASSUME NEW a \in accepted'
               PROVE  work[a.session] = a.at \/ latest > a.at + TTL
    BY DEF Remembered
  <2>1. CASE a \notin accepted
    BY <2>1 DEF InsertedWasFree
  <2>2. CASE a \in accepted /\ a.session = env[p].session
    BY <2>2, CommitOutsideWindow
  <2>3. CASE a \in accepted /\ a.session # env[p].session
    <3>1. /\ a.session \in Session /\ a.at \in Time /\ latest \in Time
          /\ stamp[p] \in Time /\ stamp[p] <= latest
      BY <2>3 DEF TypeOK, StampsRead
    <3>2. used[a.session] = a.at \/ latest > a.at + TTL
      BY <2>3 DEF Remembered
    <3>3. \/ work[a.session] = used[a.session]
          \/ Expired(used[a.session], stamp[p])
      BY <1>1, <2>3, <3>1 DEF WorkIsUsed
    <3>4. QED
      BY <3>1, <3>2, <3>3, TTLAssumption DEF Expired, Time
  <2>4. QED
    BY <2>1, <2>2, <2>3
<1>7. QED
  BY <1>3, <1>4, <1>5, <1>6

LEMMA InvariantStep == ASSUME IInv, [Next]_vars PROVE IInv'
<1>1. TypeOK'
  BY TypeStep DEF IInv
<1> USE DEF database, history
<1>2. ASSUME NEW p \in Proc, Start(p) PROVE IInv'
  BY <1>1, <1>2, Elsewhere DEF Start, Goto, InTransaction, IInv, TypeOK
<1>3. ASSUME NEW p \in Proc, Kill(p) PROVE IInv'
  BY <1>1, <1>3, Leaving DEF Kill, ReleasedByDeath, InTransaction
<1>4. ASSUME NEW t \in Time, SetClock(t) PROVE IInv'
  BY <1>1, <1>4, Elsewhere DEF SetClock
<1>5. CASE BeginKeysCopy
  BY <1>1, <1>5, Elsewhere DEF BeginKeysCopy
<1>6. ASSUME NEW ks \in SUBSET Key, EndKeysCopy(ks) PROVE IInv'
  BY <1>1, <1>6, Elsewhere DEF EndKeysCopy
<1>7. ASSUME NEW p \in Proc, RejectEarly(p) PROVE IInv'
  BY <1>1, <1>7, Elsewhere DEF RejectEarly, Goto, InTransaction, IInv, TypeOK
<1>8. ASSUME NEW p \in Proc, ReadClock(p) PROVE IInv'
  BY <1>1, <1>8, ReadClockKeeps
<1>9. ASSUME NEW p \in Proc, Purge(p) PROVE IInv'
  BY <1>1, <1>9, PurgeKeeps
<1>10. ASSUME NEW p \in Proc, ReplayDetected(p) PROVE IInv'
  BY <1>1, <1>10, Leaving DEF ReplayDetected, RejectReplay, InTransaction
<1>11. ASSUME NEW p \in Proc, Insert(p) PROVE IInv'
  BY <1>1, <1>11, InsertKeeps
<1>12. ASSUME NEW p \in Proc, Commit(p) PROVE IInv'
  BY <1>1, <1>12, CommitKeeps
<1>13. ASSUME NEW p \in Proc, CacheUnavailable(p) PROVE IInv'
  BY <1>1, <1>13, Leaving DEF CacheUnavailable, InTransaction
<1>14. ASSUME NEW p \in Proc, Verify(p) PROVE IInv'
  BY <1>1, <1>14, Elsewhere DEF Verify, Goto, InTransaction, IInv, TypeOK
<1>15. ASSUME NEW p \in Proc, RejectAssertion(p) PROVE IInv'
  BY <1>1, <1>15, Elsewhere DEF RejectAssertion, Goto, InTransaction, IInv, TypeOK
<1>16. ASSUME NEW p \in Proc, Spawn(p) PROVE IInv'
  BY <1>1, <1>16, Elsewhere DEF Spawn, Goto, InTransaction, IInv, TypeOK
<1>17. ASSUME NEW p \in Proc, Return(p) PROVE IInv'
  BY <1>1, <1>17, Elsewhere DEF Return, Goto, InTransaction, IInv, TypeOK
<1>18. CASE UNCHANGED vars
  BY <1>1, <1>18, Elsewhere DEF vars
<1>19. QED
  BY <1>2, <1>3, <1>4, <1>5, <1>6, <1>7, <1>8, <1>9, <1>10, <1>11, <1>12, <1>13,
     <1>14, <1>15, <1>16, <1>17, <1>18
  DEF Next, Environment, World, Step, Check

\* The table's own invariant holds in every reachable state.
THEOREM Invariant == Spec => []IInv
  BY InvariantInit, InvariantStep, PTL DEF Spec

\* The database lock is held by exactly the process inside its transaction, whoever
\* finds a replay, meets a database error or is killed (_check_replay).
THEOREM LockDiscipline == Spec => []OneTransaction
  BY Invariant, PTL DEF IInv

\* No accepted session is forgotten within its window (_check_replay).
THEOREM NeverForgotten == Spec => []Remembered
  BY Invariant, PTL DEF IInv

\* Two acceptances of one session id are separated by a clock reading past the first one's
\* window, for any number of verifiers and any clock (_check_replay).
THEOREM SingleUse == Spec => ReuseOnlyAfterWindow
<1> DEFINE Fresh == \A b \in accepted' \ accepted : \A a \in accepted :
                      a.session = b.session => latest > a.at + TTL
<1>1. IInv /\ [Next]_vars => [Fresh]_vars
  <2> SUFFICES ASSUME IInv, Next PROVE Fresh
    OBVIOUS
  <2>1. ASSUME NEW p \in Proc, Commit(p) PROVE Fresh
    <3>1. \A b \in accepted' \ accepted : b.session = env[p].session
      BY <2>1 DEF Commit
    <3>2. pc[p] = "inserted"
      BY <2>1 DEF Commit
    <3>3. QED
      BY <3>1, <3>2, CommitOutsideWindow
  <2>2. ASSUME ~\E p \in Proc : Commit(p) PROVE accepted' = accepted
    BY <2>2
    DEF Next, Environment, World, Step, Check, history, Start, Kill, SetClock, BeginKeysCopy, EndKeysCopy,
        RejectEarly, ReadClock, Purge, ReplayDetected, Insert, CacheUnavailable,
        Verify, RejectAssertion, Spawn, Return
  <2>3. QED
    BY <2>1, <2>2
<1>2. QED
  BY <1>1, Invariant, PTL DEF Spec, ReuseOnlyAfterWindow

-----------------------------------------------------------------------------
\* Where a process has not committed its session yet.
Uncommitted == {"idle", "started", "stamped"} \cup InTransaction

\* What each step of verify_and_execute has established about its process.
Progress ==
  /\ keysFile.keys \subseteq enrolled
  /\ \A p \in Proc :
       /\ pc[p] \in Uncommitted => \A a \in accepted : a.request # p
       /\ pc[p] \in {"recorded", "verified"} =>
            \E a \in accepted : a.request = p /\ a.session = env[p].session
       /\ pc[p] = "verified" => env[p].defects = {} /\ env[p].key \in enrolled
       /\ p \in asked => pc[p] \in {"spawned"} \cup Ended
  /\ OnlyVerifiedAsked

LEMMA ProgressInit == Init => Progress
  BY DEF Init, Progress, OnlyVerifiedAsked, Uncommitted

LEMMA ProgressStep == ASSUME TypeOK, Progress, [Next]_vars PROVE Progress'
<1> USE DEF Progress, TypeOK, Goto, Uncommitted, InTransaction, Ended, OnlyVerifiedAsked, history
<1>1. ASSUME NEW p \in Proc, Start(p) PROVE Progress'
  BY <1>1 DEF Start
<1>2. ASSUME NEW p \in Proc, Kill(p) PROVE Progress'
  BY <1>2 DEF Kill
<1>3. ASSUME NEW t \in Time, SetClock(t) PROVE Progress'
  BY <1>3 DEF SetClock
<1>4. CASE BeginKeysCopy
  BY <1>4 DEF BeginKeysCopy
<1>5. ASSUME NEW ks \in SUBSET Key, EndKeysCopy(ks) PROVE Progress'
  BY <1>5 DEF EndKeysCopy
<1>6. ASSUME NEW p \in Proc, RejectEarly(p) PROVE Progress'
  BY <1>6 DEF RejectEarly
<1>7. ASSUME NEW p \in Proc, ReadClock(p) PROVE Progress'
  BY <1>7 DEF ReadClock
<1>8. ASSUME NEW p \in Proc, Purge(p) PROVE Progress'
  BY <1>8 DEF Purge
<1>9. ASSUME NEW p \in Proc, ReplayDetected(p) PROVE Progress'
  BY <1>9 DEF ReplayDetected, RejectReplay
<1>10. ASSUME NEW p \in Proc, Insert(p) PROVE Progress'
  BY <1>10 DEF Insert
<1>11. ASSUME NEW p \in Proc, Commit(p) PROVE Progress'
  <2> DEFINE new == [request |-> p, session |-> env[p].session, at |-> stamp[p]]
  <2>1. accepted' = accepted \cup {new} /\ new.request = p /\ new.session = env[p].session
    BY <1>11 DEF Commit
  <2>2. \A q \in Proc : pc'[q] = IF q = p THEN "recorded" ELSE pc[q]
    BY <1>11 DEF Commit
  <2>3. UNCHANGED <<env, keysFile, enrolled, asked>> /\ pc[p] = "inserted" /\ p \notin asked
    BY <1>11 DEF Commit
  <2> HIDE DEF new
  <2>4. QED
    BY <2>1, <2>2, <2>3
<1>12. ASSUME NEW p \in Proc, CacheUnavailable(p) PROVE Progress'
  BY <1>12 DEF CacheUnavailable
<1>13. ASSUME NEW p \in Proc, Verify(p) PROVE Progress'
  BY <1>13 DEF Verify, AssertionSound, SignatureVerifies
<1>14. ASSUME NEW p \in Proc, RejectAssertion(p) PROVE Progress'
  BY <1>14 DEF RejectAssertion
<1>15. ASSUME NEW p \in Proc, Spawn(p) PROVE Progress'
  BY <1>15 DEF Spawn
<1>16. ASSUME NEW p \in Proc, Return(p) PROVE Progress'
  BY <1>16 DEF Return
<1>17. CASE UNCHANGED vars
  BY <1>17 DEF vars
<1>18. QED
  BY <1>1, <1>2, <1>3, <1>4, <1>5, <1>6, <1>7, <1>8, <1>9, <1>10, <1>11, <1>12, <1>13,
     <1>14, <1>15, <1>16, <1>17
  DEF Next, Environment, World, Step, Check

\* A command reaches the broker only from a process whose session was committed first and
\* whose sound assertion was signed by a key that was once enrolled (verify_and_execute).
THEOREM OnlyVerified == Spec => []OnlyVerifiedAsked
<1>1. Spec => []Progress
  BY ProgressInit, ProgressStep, TypeCorrect, PTL DEF Spec
<1>2. QED
  BY <1>1, PTL DEF Progress

-----------------------------------------------------------------------------
\* A verifier's step is a step of the promise, or changes nothing the promise mentions.
LEMMA StepImplements ==
  ASSUME IInv, Progress, [Next]_vars
  PROVE  [A!Next]_(A!avars)
<1> USE DEF A!avars
<1>1. ASSUME NEW p \in Proc, ReadClock(p) PROVE A!Observe \/ UNCHANGED A!avars
  BY <1>1 DEF ReadClock, A!Observe, IInv, TypeOK, Time
<1>2. ASSUME NEW p \in Proc, Commit(p) PROVE A!Accept(p, env[p].session)
  <2>1. A!WindowPassed(env[p].session)
    BY <1>2, CommitOutsideWindow DEF Commit, A!WindowPassed
  <2>2. \A a \in accepted : a.request # p
    BY <1>2 DEF Commit, Progress, Uncommitted, InTransaction
  <2>3. stamp[p] \in 0..latest
    BY DEF IInv, TypeOK, StampsRead, Time
  <2>4. QED
    BY <1>2, <2>1, <2>2, <2>3 DEF Commit, A!Accept
<1>3. ASSUME NEW p \in Proc, Spawn(p) PROVE A!Grant(p)
  BY <1>3 DEF Spawn, A!Grant, Progress, Ended
<1>4. ASSUME ~\E p \in Proc : ReadClock(p) \/ Commit(p) \/ Spawn(p)
      PROVE  UNCHANGED A!avars
  BY <1>4
  DEF Next, Environment, World, Step, Check, vars, history, Start, Kill, SetClock, BeginKeysCopy,
      EndKeysCopy, RejectEarly, Purge, ReplayDetected, Insert, CacheUnavailable,
      Verify, RejectAssertion, Return
<1>5. \A p \in Proc : env[p].session \in Session
  BY DEF IInv, TypeOK, EnvelopeType
<1>6. QED
  BY <1>1, <1>2, <1>3, <1>4, <1>5 DEF A!Next

\* The verifier implements the abstract promise of the target.
THEOREM Refinement == Spec => Implements
<1>1. Init => A!Init
  BY DEF Init, A!Init
<1>2. Spec => []Progress
  BY ProgressInit, ProgressStep, TypeCorrect, PTL DEF Spec
<1>3. QED
  BY <1>1, <1>2, Invariant, StepImplements, PTL DEF Spec, Implements, A!Spec

\* Once started, a verifier leaves its places only for others of its own, and an ended one
\* stays ended.
LEMMA PlaceStep ==
  ASSUME TypeOK, NEW p \in Proc, [Next]_vars
  PROVE  /\ pc[p] = "idle" => pc'[p] \in {"idle", "started"}
         /\ pc[p] \in Ended => pc'[p] \in Ended
  BY DEF TypeOK, Ended, InTransaction, Next, Environment, World, Step, Check, vars, Goto, Start, Kill,
     SetClock, BeginKeysCopy, EndKeysCopy, RejectEarly, ReadClock, Purge, ReplayDetected, RejectReplay,
     Insert, Commit, CacheUnavailable, Verify, RejectAssertion, Spawn, Return

\* If every verifier ends, the write lock is always released: no lock outlives its verifier's
\* transaction, so nothing but the end of verifiers has to be assumed of the scheduling.
THEOREM EndReleasesLock == Spec /\ VerifierEnds => LockReleased
<1>1. ASSUME NEW p \in Proc
      PROVE  Spec /\ (pc[p] = "started" ~> pc[p] \in Ended) => (lock = p ~> lock # p)
  <2>1. Init => pc[p] = "idle"
    BY <1>1 DEF Init
  <2>2. TypeOK /\ [Next]_vars =>
          /\ pc[p] = "idle" => (pc[p] = "idle")' \/ (pc[p] = "started")'
          /\ pc[p] \in Ended => (pc[p] \in Ended)'
    BY <1>1, PlaceStep
  <2>3. IInv => TypeOK /\ (pc[p] = "idle" => lock # p) /\ (pc[p] \in Ended => lock # p)
    BY <1>1 DEF IInv, OneTransaction, InTransaction, Ended
  <2> QED
    BY <2>1, <2>2, <2>3, Invariant, PTL DEF Spec
<1> QED
  BY <1>1 DEF VerifierEnds, LockReleased

-----------------------------------------------------------------------------
(***************************************************************************)
(* The whole target.                                                       *)
(***************************************************************************)
\* Each step of the target is one of its verifiers', of the broker's, or of both.
LEMMA HostSteps ==
  ASSUME [HostNext]_hostvars
  PROVE  [Next]_vars /\ [BNext]_bvars
<1>1. CASE World /\ UNCHANGED bvars
  BY <1>1 DEF Next, Environment
<1>2. CASE ServiceNext /\ UNCHANGED vars
  BY <1>2 DEF BNext
<1>3. ASSUME NEW p \in Proc, ProcStep(p) PROVE [Next]_vars /\ [BNext]_bvars
  <2>1. CASE Check(p) /\ UNCHANGED bvars
    BY <2>1 DEF Next, Step
  <2>2. CASE CallBroker(p)
    BY <2>2, OneCallEach DEF CallBroker, BNext
  <2>3. CASE CallOver(p)
    BY <2>3 DEF CallOver, Next, Step
  <2> QED BY <1>3, <2>1, <2>2, <2>3 DEF ProcStep
<1>4. ASSUME NEW p \in Proc, KillVerifier(p) PROVE [Next]_vars /\ [BNext]_bvars
  BY <1>4, OneCallEach DEF KillVerifier, Next, Environment, BNext
<1>5. CASE UNCHANGED hostvars
  BY <1>5 DEF hostvars
<1> QED
  BY <1>1, <1>2, <1>3, <1>4, <1>5 DEF HostNext

\* The verifiers of a target behave as Verifier.tla says, whatever the broker does.
THEOREM VerifierWithin == HostSpec => Spec
<1>1. HostInit => Init
  BY DEF HostInit
<1>2. [HostNext]_hostvars => [Next]_vars
  BY HostSteps
<1> QED
  BY <1>1, <1>2, PTL DEF HostSpec, Spec

\* The broker of a target behaves as Broker.tla says, whoever calls it and dies.
THEOREM BrokerWithin == HostSpec => BSpec
<1>1. HostInit => BInit
  BY DEF HostInit
<1>2. [HostNext]_hostvars => [BNext]_bvars
  BY HostSteps
<1> QED
  BY <1>1, <1>2, PTL DEF HostSpec, BSpec

\* Only a verifier that has asked has a call, and only one that has checked everything asks.
CallLink ==
  \A p \in Proc :
    /\ client[p] # "idle" => p \in asked
    /\ pc[p] = "spawned" => p \in asked
    /\ p \in asked => pc[p] \in {"spawned", "returned", "killed"}

LEMMA LinkInit == HostInit => CallLink
  BY OneCallEach DEF HostInit, Init, BInit, CallLink

LEMMA LinkStep ==
  ASSUME TypeOK, BTypeOK, CallLink, [HostNext]_hostvars
  PROVE  CallLink'
<1> USE OneCallEach DEF CallLink, TypeOK, BTypeOK, Goto
<1>1. CASE World /\ UNCHANGED bvars
  BY <1>1 DEF World, Start, SetClock, BeginKeysCopy, EndKeysCopy, bvars, history
<1>2. ASSUME ServiceNext, UNCHANGED vars PROVE CallLink'
  <2>1. client' = client
    BY <1>2 DEF ServiceNext, Bind, BrokerDies, BrokerStep, Open, Accept, ThreadStep, Hangup, BadRequest,
       RunCommand, Collect, WritePayload, WriteEnd, CommandEnds, CommandExits, CommandSignalled
  <2> QED BY <1>2, <2>1 DEF vars
<1>3. ASSUME NEW p \in Proc, Check(p), UNCHANGED bvars PROVE CallLink'
  <2>1. CASE Spawn(p)
    BY <1>3, <2>1 DEF Spawn, bvars
  <2>2. CASE ~Spawn(p)
    BY <1>3, <2>2
    DEF Check, RejectEarly, ReadClock, Purge, ReplayDetected, RejectReplay, Insert, Commit,
        CacheUnavailable, Verify, RejectAssertion, bvars, history, InTransaction
  <2> QED BY <2>1, <2>2
<1>4. ASSUME NEW p \in Proc, CallBroker(p) PROVE CallLink'
  <2>1. p \in asked /\ pc' = pc /\ asked' = asked
    BY <1>4 DEF CallBroker, AfterChecks, vars
  <2>2. \A q \in Proc : q # p => client'[q] = client[q]
    BY <1>4 DEF CallBroker, CallerStep, Connect, ConnectFails, Write, WriteFails, ReadAnswer, ReadFails
  <2> QED BY <2>1, <2>2
<1>5. ASSUME NEW p \in Proc, CallOver(p) PROVE CallLink'
  BY <1>5 DEF CallOver, Return, bvars, history
<1>6. ASSUME NEW p \in Proc, KillVerifier(p) PROVE CallLink'
  BY <1>6 DEF KillVerifier, Kill, Die, bvars, history
<1>7. CASE UNCHANGED hostvars
  BY <1>7 DEF hostvars, vars, bvars
<1> QED
  BY <1>1, <1>2, <1>3, <1>4, <1>5, <1>6, <1>7 DEF HostNext, ProcStep

\* What the verifiers, the broker and their link know together.
HostInv == IInv /\ Progress /\ BInv /\ CallLink

LEMMA HostInvariant == HostSpec => []HostInv
<1>1. Spec => []Progress
  BY ProgressInit, ProgressStep, TypeCorrect, PTL DEF Spec
<1>2. HostSpec => [](IInv /\ Progress /\ BInv)
  BY <1>1, VerifierWithin, BrokerWithin, Invariant, BrokerInvariant, PTL
<1>3. IInv /\ BInv => TypeOK /\ BTypeOK
  BY DEF IInv, BInv
<1>4. TypeOK /\ BTypeOK /\ CallLink /\ [HostNext]_hostvars => CallLink'
  BY LinkStep
<1>5. HostSpec => []CallLink
  BY <1>2, <1>3, <1>4, LinkInit, PTL DEF HostSpec
<1> QED
  BY <1>2, <1>5, PTL DEF HostInv

\* A command that was started is one its verifier asked for.
LEMMA RanIsAsked == HostInv => Ran \subseteq asked
  BY OneCallEach DEF HostInv, BInv, CallInv, CallLink, Ran, Finished

\* A command runs only for a verified request, over all deaths of verifiers and broker
\* (verify_and_execute, handle_connection).
THEOREM OnlyVerifiedRuns == HostSpec => []OnlyVerifiedRun
<1>1. HostInv => OnlyVerifiedRun
  BY RanIsAsked DEF HostInv, Progress, OnlyVerifiedAsked, OnlyVerifiedRun, CallLink, Ran
<1> QED
  BY <1>1, HostInvariant, PTL

\* Which commands run changes only when the broker starts one.
LEMMA RanStep ==
  ASSUME HostInv, [HostNext]_hostvars
  PROVE  \/ Ran' = Ran
         \/ UNCHANGED vars /\ \E p \in Proc : p \notin Ran /\ p \in asked /\ Ran' = Ran \cup {p}
<1> USE OneCallEach DEF HostInv, BInv, BTypeOK, CallInv, Ran, Finished
<1>1. CASE cmd' = cmd
  BY <1>1
<1>2. ASSUME NEW p \in Proc, RunCommand(p), UNCHANGED vars
      PROVE  \/ Ran' = Ran
             \/ p \notin Ran /\ p \in asked /\ Ran' = Ran \cup {p}
  <2>1. p \in asked
    BY <1>2 DEF RunCommand, Parses, CallLink
  <2>2. CASE cmd' = [cmd EXCEPT ![p] = "running"]
    BY <1>2, <2>1, <2>2 DEF RunCommand
  <2>3. CASE cmd' = [cmd EXCEPT ![p] = "unstarted"]
    BY <1>2, <2>3 DEF RunCommand
  <2> QED BY <1>2, <2>2, <2>3 DEF RunCommand
<1>3. ASSUME NEW p \in Proc, CommandEnds(p) PROVE Ran' = Ran
  BY <1>3 DEF CommandEnds, CommandExits, CommandSignalled
<1>4. CASE ServiceNext /\ UNCHANGED vars
  <2>1. \/ cmd' = cmd \/ \E p \in Proc : RunCommand(p) \/ CommandEnds(p)
    BY <1>4 DEF ServiceNext, Bind, BrokerDies, BrokerStep, Open, Accept, ThreadStep, Hangup,
       BadRequest, Collect, WritePayload, WriteEnd
  <2> QED BY <1>1, <1>2, <1>3, <1>4, <2>1
<1>5. ASSUME NEW p \in Proc, ProcStep(p) \/ KillVerifier(p) PROVE cmd' = cmd
  BY <1>5 DEF ProcStep, KillVerifier, CallBroker, CallOver, CallerStep, Connect, ConnectFails, Write,
     WriteFails, ReadAnswer, ReadFails, Die, bvars
<1> QED
  BY <1>1, <1>4, <1>5 DEF HostNext, hostvars, bvars

LEMMA HostStepImplements ==
  ASSUME HostInv, [HostNext]_hostvars
  PROVE  [H!Next]_(H!avars)
<1> USE DEF H!avars
<1>1. CASE Ran' = Ran
  <2>1. [A!Next]_(A!avars)
    BY HostSteps, StepImplements DEF HostInv
  <2>2. ASSUME A!Observe PROVE H!Observe
    BY <1>1, <2>2 DEF A!Observe, H!Observe
  <2>3. ASSUME NEW p \in Proc, NEW s \in Session, A!Accept(p, s) PROVE H!Accept(p, s)
    BY <1>1, <2>3 DEF A!Accept, H!Accept, A!WindowPassed, H!WindowPassed
  <2>4. ASSUME NEW p \in Proc, A!Grant(p) PROVE UNCHANGED H!avars
    BY <1>1, <2>4 DEF A!Grant
  <2>5. CASE UNCHANGED A!avars
    BY <1>1, <2>5 DEF A!avars
  <2> QED
    BY <2>1, <2>2, <2>3, <2>4, <2>5 DEF A!Next, H!Next
<1>2. ASSUME UNCHANGED vars, NEW p \in Proc, p \notin Ran, p \in asked, Ran' = Ran \cup {p}
      PROVE  H!Grant(p)
  BY <1>2 DEF H!Grant, HostInv, Progress, OnlyVerifiedAsked, vars
<1> QED
  BY <1>1, <1>2, RanStep DEF H!Next

\* The target as a whole implements SessionWindow with the commands that run: at most one for
\* each acceptance, and none before its session is committed.
THEOREM HostRefinement == HostSpec => HostImplements
<1>1. HostInit => H!Init
  BY OneCallEach DEF HostInit, Init, BInit, H!Init, Ran, Finished
<1>2. HostInv /\ [HostNext]_hostvars => [H!Next]_(H!avars)
  BY HostStepImplements
<1> QED
  BY <1>1, <1>2, HostInvariant, PTL DEF HostSpec, HostImplements, H!Spec
=============================================================================
