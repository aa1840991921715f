------------------------------- MODULE Verifier -------------------------------
(***************************************************************************)
(* scripts/uon_verifier.py on one target.  sshd starts a verifier process  *)
(* for every command (ForceCommand); the processes share two files: the    *)
(* SQLite table of used sessions and authorized_passkeys.json.  A process  *)
(* rejects a malformed envelope, takes its session id once (a transaction  *)
(* that purges, looks up, inserts and commits), checks the assertion, asks *)
(* the broker to run the command, and exits.  It may be killed anywhere.   *)
(***************************************************************************)
EXTENDS Integers, FiniteSets

CONSTANTS
  Proc,       \* verifier processes, each serving one SSH command
  NoProc,     \* nobody holds the database lock
  Session,    \* session ids
  Key,        \* passkeys
  Envelopes,  \* what may be delivered: see EnvelopeType
  TTL,        \* SESSION_TTL_SECONDS, in clock units
  MaxTime,    \* bound on the wall clock
  Never       \* no row for a session

\* What verify_and_execute tests, in the order it tests it.
Checks == {"prefix", "envelope", "session", "assertion", "rp_id", "presence"}
EarlyChecks == {"prefix", "envelope", "session"}

\* defects: the checks the envelope fails; key: the passkey that signed it.
EnvelopeType == [session : Session, key : Key, defects : SUBSET Checks]

ASSUME ProcAssumption == NoProc \notin Proc
ASSUME TTLAssumption == TTL \in Nat /\ MaxTime \in Nat
ASSUME NeverAssumption == Never \notin Int
ASSUME EnvelopeAssumption == Envelopes \subseteq EnvelopeType

VARIABLES
  pc,         \* where each process is in verify_and_execute
  env,        \* the envelope each process was given
  stamp,      \* _check_replay's now, read before the database is locked
  used,       \* committed rows: session -> used_at
  lock,       \* the process whose transaction holds SQLite's write lock
  work,       \* that transaction's uncommitted copy of the rows
  now,        \* time.time()
  keysFile,   \* authorized_passkeys.json: missing, torn or complete, and its keys
  accepted,   \* history: every session committed, by whom, with its stamp
  asked,      \* history: processes that called spawn_zsp_process
  latest,     \* history: the highest value time.time() returned
  enrolled    \* history: keys that were ever in authorized_passkeys.json

vars == <<pc, env, stamp, used, lock, work, now, keysFile,
          accepted, asked, latest, enrolled>>
history == <<accepted, asked, latest, enrolled>>
database == <<used, lock, work>>

Time == 0..MaxTime
Rows == [Session -> Time \cup {Never}]
NoRows == [s \in Session |-> Never]

InTransaction == {"purged", "inserted"}
Ended == {"refused", "returned", "killed"}
Status == {"idle", "started", "stamped", "recorded", "verified", "spawned"}
            \cup InTransaction \cup Ended

TypeOK ==
  /\ pc \in [Proc -> Status]
  /\ env \in [Proc -> EnvelopeType]
  /\ stamp \in [Proc -> Time]
  /\ used \in Rows /\ work \in Rows
  /\ lock \in Proc \cup {NoProc}
  /\ now \in Time /\ latest \in Time
  /\ keysFile \in [state : {"missing", "torn", "complete"}, keys : SUBSET Key]
  /\ enrolled \subseteq Key
  /\ accepted \subseteq [request : Proc, session : Session, at : Time]
  /\ asked \subseteq Proc

Init ==
  /\ pc = [p \in Proc |-> "idle"]
  /\ env \in [Proc -> Envelopes]
  /\ stamp = [p \in Proc |-> 0]
  /\ used = NoRows
  /\ lock = NoProc
  /\ work = NoRows
  /\ now = 0
  /\ keysFile = [state |-> "missing", keys |-> {}]
  /\ accepted = {}
  /\ asked = {}
  /\ latest = 0
  /\ enrolled = {}

Goto(p, s) == pc' = [pc EXCEPT ![p] = s]

(***************************************************************************)
(* Parsing: nothing is written before the three early checks have passed.  *)
(***************************************************************************)
Start(p) ==
  /\ pc[p] = "idle"
  /\ Goto(p, "started")
  /\ UNCHANGED <<env, stamp, now, keysFile, database, history>>

RejectEarly(p) ==
  /\ pc[p] = "started"
  /\ env[p].defects \cap EarlyChecks # {}
  /\ Goto(p, "refused")
  /\ UNCHANGED <<env, stamp, now, keysFile, database, history>>

(***************************************************************************)
(* _check_replay.                                                          *)
(***************************************************************************)
\* Mutant: the row would carry its expiry threshold, not its time of use.
StampExpiry(t) == t - TTL
Stamp(t) == t

ReadClock(p) ==
  /\ pc[p] = "started"
  /\ env[p].defects \cap EarlyChecks = {}
  /\ stamp' = [stamp EXCEPT ![p] = Stamp(now)]
  /\ latest' = IF now > latest THEN now ELSE latest
  /\ Goto(p, "stamped")
  /\ UNCHANGED <<env, now, keysFile, database, accepted, asked, enrolled>>

\* Mutant: the threshold is one unit early.
ExpiredAtTTL(at, t) == at <= t - TTL
Expired(at, t) == at < t - TTL

Purged(rows, t) ==
  [s \in Session |->
     IF rows[s] # Never /\ Expired(rows[s], t) THEN Never ELSE rows[s]]

\* Mutant: the look-up runs outside the transaction.
AnyTime == TRUE
Unlocked == lock = NoProc

\* DELETE opens the transaction and takes the write lock.
Purge(p) ==
  /\ pc[p] = "stamped"
  /\ Unlocked
  /\ lock' = p
  /\ work' = Purged(used, stamp[p])
  /\ Goto(p, "purged")
  /\ UNCHANGED <<env, stamp, used, now, keysFile, history>>

\* Leaving the with block by an exception, or dying in it, undoes the purge.
Rollback(p) ==
  IF lock = p
    THEN lock' = NoProc /\ work' = NoRows /\ UNCHANGED used
    ELSE UNCHANGED database

\* Mutant: the process goes on after it has printed "Replay detected".
ReplayGoesOn(p) ==
  /\ Rollback(p)
  /\ Goto(p, "recorded")
RejectReplay(p) ==
  /\ Rollback(p)
  /\ Goto(p, "refused")

ReplayDetected(p) ==
  /\ pc[p] = "purged"
  /\ work[env[p].session] # Never
  /\ RejectReplay(p)
  /\ UNCHANGED <<env, stamp, now, keysFile, history>>

Insert(p) ==
  /\ pc[p] = "purged"
  /\ work[env[p].session] = Never
  /\ work' = [work EXCEPT ![env[p].session] = stamp[p]]
  /\ Goto(p, "inserted")
  /\ UNCHANGED <<env, stamp, used, lock, now, keysFile, history>>

Commit(p) ==
  /\ pc[p] = "inserted"
  /\ used' = work
  /\ lock' = NoProc
  /\ work' = NoRows
  /\ accepted' = accepted \cup
       {[request |-> p, session |-> env[p].session, at |-> stamp[p]]}
  /\ Goto(p, "recorded")
  /\ UNCHANGED <<env, stamp, now, keysFile, asked, latest, enrolled>>

\* sqlite3.DatabaseError: the busy timeout of a process that waits for the lock,
\* or a failing statement or commit of the one that has it.
CacheUnavailable(p) ==
  /\ pc[p] \in {"stamped"} \cup InTransaction
  /\ Rollback(p)
  /\ Goto(p, "refused")
  /\ UNCHANGED <<env, stamp, now, keysFile, history>>

(***************************************************************************)
(* The assertion.  The session is spent whatever comes of these checks.    *)
(***************************************************************************)
\* Mutant: the user-present flag is not looked at.
AssertionWithoutTouch(p) == env[p].defects \subseteq {"presence"}
AssertionSound(p) == env[p].defects = {}

\* load_authorized_keys and the loop over its keys.
SignatureVerifies(p) ==
  /\ keysFile.state = "complete"
  /\ env[p].key \in keysFile.keys

Verify(p) ==
  /\ pc[p] = "recorded"
  /\ AssertionSound(p)
  /\ SignatureVerifies(p)
  /\ Goto(p, "verified")
  /\ UNCHANGED <<env, stamp, now, keysFile, database, history>>

\* Mutant: a torn keys file is read again and again.
RejectUnlessTorn(p) == AssertionSound(p) => keysFile.state # "torn" /\ ~SignatureVerifies(p)
RejectNow(p) == ~(AssertionSound(p) /\ SignatureVerifies(p))

RejectAssertion(p) ==
  /\ pc[p] = "recorded"
  /\ RejectNow(p)
  /\ Goto(p, "refused")
  /\ UNCHANGED <<env, stamp, now, keysFile, database, history>>

(***************************************************************************)
(* Execution by the broker (Broker.tla), exit, and the process's death.    *)
(***************************************************************************)
Spawn(p) ==
  /\ pc[p] = "verified"
  /\ asked' = asked \cup {p}
  /\ Goto(p, "spawned")
  /\ UNCHANGED <<env, stamp, now, keysFile, database, accepted, latest, enrolled>>

Return(p) ==
  /\ pc[p] = "spawned"
  /\ Goto(p, "returned")
  /\ UNCHANGED <<env, stamp, now, keysFile, database, history>>

\* Mutant: SQLite's lock outlives its owner.
LockSurvives(p) == UNCHANGED database
ReleasedByDeath(p) == Rollback(p)

Kill(p) ==
  /\ pc[p] \notin {"idle"} \cup Ended
  /\ ReleasedByDeath(p)
  /\ Goto(p, "killed")
  /\ UNCHANGED <<env, stamp, now, keysFile, history>>

(***************************************************************************)
(* The wall clock may be set; the keys file is copied in by an operator.   *)
(***************************************************************************)
SetClock(t) ==
  /\ t # now
  /\ now' = t
  /\ UNCHANGED <<pc, env, stamp, keysFile, database, history>>

BeginKeysCopy ==
  /\ keysFile.state # "torn"
  /\ keysFile' = [state |-> "torn", keys |-> {}]
  /\ UNCHANGED <<pc, env, stamp, now, database, history>>

EndKeysCopy(ks) ==
  /\ keysFile.state = "torn"
  /\ keysFile' = [state |-> "complete", keys |-> ks]
  /\ enrolled' = enrolled \cup ks
  /\ UNCHANGED <<pc, env, stamp, now, database, accepted, asked, latest>>

Check(p) ==
  \/ RejectEarly(p) \/ ReadClock(p)
  \/ Purge(p) \/ ReplayDetected(p) \/ Insert(p) \/ Commit(p) \/ CacheUnavailable(p)
  \/ Verify(p) \/ RejectAssertion(p)
  \/ Spawn(p)

Step(p) == Check(p) \/ Return(p)

World ==
  \/ \E p \in Proc : Start(p)
  \/ \E t \in Time : SetClock(t)
  \/ BeginKeysCopy
  \/ \E ks \in SUBSET Key : EndKeysCopy(ks)

Environment == World \/ \E p \in Proc : Kill(p)

Next == Environment \/ \E p \in Proc : Step(p)

Spec == Init /\ [][Next]_vars

-----------------------------------------------------------------------------
\* The write lock is held by exactly the process that is inside its transaction, through
\* replays, database errors and kills: a lost release would make the target refuse everything.
OneTransaction == \A p \in Proc : lock = p <=> pc[p] \in InTransaction

\* A transaction's copy differs from the committed rows only by purged rows, all expired at
\* its owner's stamp, and by the owner's own row once inserted.
WorkIsUsed ==
  lock # NoProc =>
    \A s \in Session :
      \/ pc[lock] = "inserted" /\ s = env[lock].session /\ work[s] = stamp[lock]
      \/ work[s] = used[s]
      \/ work[s] = Never /\ used[s] # Never /\ Expired(used[s], stamp[lock])

\* The row the owner inserts replaces nothing but an expired row.
InsertedWasFree ==
  \A p \in Proc : pc[p] = "inserted" =>
    /\ work[env[p].session] = stamp[p]
    /\ \/ used[env[p].session] = Never
       \/ Expired(used[env[p].session], stamp[p])

\* No stamp is ahead of the highest clock reading.
StampsRead == \A p \in Proc : stamp[p] <= latest

\* Every session ever accepted still has its row, or a clock reading has gone past its
\* window: no crash, rollback, clock change or concurrent purge loses a row early
\* (_check_replay, scripts/uon_verifier.py:97).
Remembered ==
  \A a \in accepted :
    \/ used[a.session] = a.at
    \/ latest > a.at + TTL

\* Whoever was handed to the broker had its session committed first and presented a sound
\* assertion signed by a passkey that was once in authorized_passkeys.json, however the
\* keys file was being rewritten and whoever died meanwhile (verify_and_execute).
OnlyVerifiedAsked ==
  \A p \in asked :
    /\ \E a \in accepted : a.request = p /\ a.session = env[p].session
    /\ env[p].defects = {}
    /\ env[p].key \in enrolled

\* A session id is accepted again only once a clock reading has gone more than TTL past the
\* stamp of each earlier acceptance: two verifiers racing on one id never both pass.
ReuseOnlyAfterWindow ==
  [][\A b \in accepted' \ accepted : \A a \in accepted :
       a.session = b.session => latest > a.at + TTL]_vars

\* Claimed by the README and docs/SECURITY_AND_PQC.md ("tracks used session_id values and
\* rejects reuse"): a session id is accepted once.
AcceptedOnce == \A a, b \in accepted : a.session = b.session => a = b

\* The write lock is always released: no sequence of replays, errors and kills leaves later
\* verifiers to time out on it.
LockReleased == \A p \in Proc : lock = p ~> lock # p

\* Every verifier that sshd starts exits, however many wait for the lock.
VerifierEnds == \A p \in Proc : pc[p] = "started" ~> pc[p] \in Ended

A == INSTANCE SessionWindow WITH Request <- Proc, granted <- asked
\* The verifier implements the abstract promise of the target.
Implements == A!Spec
=============================================================================
