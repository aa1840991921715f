-------------------------- MODULE ContainmentProofs --------------------------
(***************************************************************************)
(* Theorems about Containment, for any number of pids, handlers and        *)
(* processes, and for all three tools together.                            *)
(***************************************************************************)
EXTENDS Containment, TLAPS

USE DeploymentAssumption, NoPidAssumption, MaxBornAssumption

LEMMA NobodyHasNoId == Nobody.id = 0 /\ Nobody \notin Process
BY DEF Nobody, Process

(***************************************************************************)
(* Records of Process: a change of some fields leaves the others alone.    *)
(***************************************************************************)
LEMMA Flags ==
  ASSUME NEW r \in Process, NEW b \in BOOLEAN
  PROVE  /\ [r EXCEPT !.stopped = b] \in Process
         /\ [r EXCEPT !.watched = b] \in Process
         /\ [r EXCEPT !.dropped = b] \in Process
         /\ [r EXCEPT !.missed = b] \in Process
         /\ [r EXCEPT !.heir = b] \in Process
<1>1. [r EXCEPT !.stopped = b] \in Process BY DEF Process
<1>2. [r EXCEPT !.watched = b] \in Process BY DEF Process
<1>3. [r EXCEPT !.dropped = b] \in Process BY DEF Process
<1>4. [r EXCEPT !.missed = b] \in Process BY DEF Process
<1>5. [r EXCEPT !.heir = b] \in Process BY DEF Process
<1> QED BY <1>1, <1>2, <1>3, <1>4, <1>5

LEMMA Counter == ASSUME NEW r \in Process, NEW n \in 0..2 PROVE [r EXCEPT !.starts = n] \in Process
BY DEF Process

LEMMA Identity ==
  ASSUME NEW r \in Process, NEW i \in 1..MaxBorn PROVE [r EXCEPT !.id = i] \in Process
BY DEF Process

LEMMA Starting ==
  ASSUME NEW r \in Process
  PROVE  [r EXCEPT !.starts = IF @ < 2 THEN @ + 1 ELSE @] \in Process
<1>1. (IF r.starts < 2 THEN r.starts + 1 ELSE r.starts) \in 0..2 BY DEF Process
<1> QED BY <1>1, Counter

LEMMA Kinds ==
  ASSUME NEW r \in Process, NEW k \in Kind
  PROVE  /\ [r EXCEPT !.kind = k] \in Process
         /\ [r EXCEPT !.kind = k].id = r.id /\ [r EXCEPT !.kind = k].kind = k
         /\ [r EXCEPT !.kind = k].stopped = r.stopped /\ [r EXCEPT !.kind = k].heir = r.heir
         /\ [r EXCEPT !.kind = k].watched = r.watched
         /\ [r EXCEPT !.kind = k].dropped = r.dropped
         /\ [r EXCEPT !.kind = k].starts = r.starts /\ [r EXCEPT !.kind = k].missed = r.missed
BY DEF Process

LEMMA Forking ==
  ASSUME NEW r \in Process, NEW i \in 1..MaxBorn, NEW d \in BOOLEAN, NEW e \in BOOLEAN
  PROVE  [r EXCEPT !.id = i, !.dropped = d, !.heir = e] \in Process
<1> DEFINE r1 == [r EXCEPT !.id = i]
           r2 == [r1 EXCEPT !.dropped = d]
           r3 == [r2 EXCEPT !.heir = e]
<1>1. r1 \in Process BY Identity
<1> HIDE DEF r1
<1>2. r2 \in Process BY <1>1, Flags
<1> HIDE DEF r2
<1>3. r3 \in Process BY <1>2, Flags
<1>4. r3 = [r EXCEPT !.id = i, !.dropped = d, !.heir = e] BY DEF r1, r2
<1> QED BY <1>3, <1>4

LEMMA Unwatching ==
  ASSUME NEW r \in Process
  PROVE  Unwatched(r) \in Process /\ [Unwatched(r) EXCEPT !.watched = TRUE] \in Process
<1> DEFINE r1 == [r EXCEPT !.watched = FALSE]
           r2 == [r1 EXCEPT !.dropped = FALSE]
           r3 == [r2 EXCEPT !.starts = 0]
           r4 == [r3 EXCEPT !.missed = FALSE]
           r5 == [r4 EXCEPT !.heir = FALSE]
<1>1. r1 \in Process BY Flags
<1> HIDE DEF r1
<1>2. r2 \in Process BY <1>1, Flags
<1> HIDE DEF r2
<1>3. r3 \in Process
  <2>1. 0 \in 0..2 OBVIOUS
  <2> HIDE DEF r3
  <2>2. [r2 EXCEPT !.starts = 0] \in Process BY <1>2, <2>1, Counter
  <2> QED BY <2>2 DEF r3
<1> HIDE DEF r3
<1>4. r4 \in Process BY <1>3, Flags
<1> HIDE DEF r4
<1>5. r5 \in Process BY <1>4, Flags
<1>6. Unwatched(r) = r5
  <2>1. Unwatched(r) =
          [[[[[r EXCEPT !.watched = FALSE] EXCEPT !.dropped = FALSE] EXCEPT !.starts = 0]
              EXCEPT !.missed = FALSE] EXCEPT !.heir = FALSE]
    BY Zenon DEF Unwatched
  <2> QED BY <2>1, Zenon DEF r1, r2, r3, r4
<1>7. Unwatched(r) \in Process BY <1>5, <1>6
<1> QED BY <1>7, Flags

\* Each process that runs has a number of its own, and none has the next one.
Numbered ==
  /\ \A p \in Pid : Alive(p) => proc[p].id <= born
  /\ \A p, q \in Pid : Alive(p) /\ Alive(q) /\ proc[p].id = proc[q].id => p = q

\* A handler that waits for its answer, or has it, knows a pid.
Aimed == \A h \in Handler : handler[h] \in {"asking", "cleared"} => subject[h] \in Pid

\* It knows whom it froze; that one sleeps there until it is killed or a handler goes on.
Asleep ==
  /\ Aimed
  /\ \A h \in Handler : handler[h] \in {"asking", "cleared"} =>
       /\ frozen[h] # 0
       /\ since[h] = "asleep" => proc[subject[h]].id = frozen[h] /\ proc[subject[h]].stopped
  /\ \A h \in Handler : handler[h] = "cleared" => h \in signed[h]

\* Whom another prompt for the process of h is open: its signature came after the freeze of
\* h, or will come after it, or it was there before that freeze.
Signatures ==
  \A g, h \in Handler :
    handler[g] \in {"asking", "cleared"} /\ g # h /\ frozen[h] # 0
      /\ proc[subject[g]].id = frozen[h] =>
        \/ g \in stale[h]
        \/ handler[g] = "cleared" /\ h \in signed[g]
        \/ handler[g] = "asking" /\ frozen[g] = frozen[h]

LEMMA TypeInit == Init => TypeOK
<1> SUFFICES ASSUME Init PROVE TypeOK
  OBVIOUS
<1>1. table \in [Pid -> {"none"}] /\ handler \in [Handler -> {"idle"}]
  BY DEF Init
<1>2. subject \in [Handler -> {NoPid}] /\ signed \in [Handler -> {{}}]
      /\ stale \in [Handler -> {{}}]
  BY DEF Init
<1> USE MaxBornAssumption
<1>3. since \in [Handler -> {"asleep"}] /\ frozen \in [Handler -> 0..born]
  BY DEF Init
<1>4. proc \in [Pid -> {Nobody}]
  BY DEF Init
<1>5. born \in 0..MaxBorn /\ listed \in SUBSET (Pid \X (1..born)) /\ due \in SUBSET (1..born)
  BY DEF Init
<1>6. /\ tools \in Deployment /\ hooks \in {"none"} /\ full \in BOOLEAN
      /\ revoker \in {"idle"} /\ revokes \in {"none"}
  BY DEF Init
<1> QED
  BY <1>1, <1>2, <1>3, <1>4, <1>5, <1>6 DEF TypeOK, Entry

\* The process that a fork makes.
Copied(c, e) == e # "none" /\ HasRoom(c)
Own(p, c, e) == Copied(c, e) /\ e = table[p]

LEMMA Child ==
  ASSUME TypeOK, NEW p \in Pid, NEW c \in Pid, NEW e \in Entry, Fork(p, c, e)
  PROVE  /\ proc[p] \in Process /\ proc[c] = Nobody
         /\ proc' \in [Pid -> Process \cup {Nobody}] /\ proc'[c] \in Process
         /\ table' \in [Pid -> Entry]
         /\ \A q \in Pid : q # c => proc'[q] = proc[q]
         /\ born' = born + 1 /\ born' \in 1..MaxBorn
         /\ proc'[c].id = born + 1 /\ proc'[c].kind = proc[p].kind /\ proc'[c].stopped = FALSE
         /\ proc'[c].watched = proc[p].watched
         /\ proc'[c].starts = proc[p].starts /\ proc'[c].missed = proc[p].missed
         /\ proc'[c].dropped = (proc[p].watched /\ (proc[p].dropped \/ ~Own(p, c, e)))
         /\ proc'[c].heir = IF Own(p, c, e) THEN proc[p].heir ELSE Copied(c, e) \/ table[c] # "none"
         /\ table' = IF Copied(c, e) THEN [table EXCEPT ![c] = e] ELSE table
<1> DEFINE D == proc[p].watched /\ (proc[p].dropped \/ ~Own(p, c, e))
           H == IF Own(p, c, e) THEN proc[p].heir ELSE Copied(c, e) \/ table[c] # "none"
<1>1. proc[p] \in Process /\ born + 1 \in 1..MaxBorn
  BY DEF TypeOK, Fork, Starts, Running, Alive
<1>2. D \in BOOLEAN /\ H \in BOOLEAN
  BY <1>1 DEF Process
<1>3. PICK d \in BOOLEAN, b \in BOOLEAN : d = D /\ b = H
  BY <1>2
<1>4. /\ proc' = [proc EXCEPT ![c] = [proc[p] EXCEPT !.id = born + 1, !.dropped = D, !.heir = H]]
      /\ born' = born + 1 /\ proc[c] = Nobody
      /\ table' = IF Copied(c, e) THEN [table EXCEPT ![c] = e] ELSE table
  BY DEF Fork, Starts, Copied, Own, Alive, Inherited
<1>5. PICK s : s = [proc[p] EXCEPT !.id = born + 1, !.dropped = d, !.heir = b]
  OBVIOUS
<1>6. s \in Process
  BY <1>1, <1>5, Forking
<1>7. proc'[c] = s
  BY <1>3, <1>4, <1>5 DEF TypeOK
<1>8. /\ s.id = born + 1 /\ s.dropped = d /\ s.heir = b
      /\ s.kind = proc[p].kind /\ s.stopped = proc[p].stopped /\ s.watched = proc[p].watched
      /\ s.starts = proc[p].starts /\ s.missed = proc[p].missed
  BY <1>1, <1>5 DEF Process
<1>9. /\ proc' \in [Pid -> Process \cup {Nobody}] /\ \A q \in Pid : q # c => proc'[q] = proc[q]
      /\ table' \in [Pid -> Entry]
  BY <1>3, <1>4, <1>5, <1>6 DEF TypeOK
<1>10. proc[p].stopped = FALSE
  BY <1>1 DEF Fork, Running, Process
<1> QED
  BY <1>1, <1>3, <1>4, <1>6, <1>7, <1>8, <1>9, <1>10

\* A verifier stays one, and a command line that had the verifier's name is never one that
\* had not.
KindKept(p) ==
  /\ proc[p].kind = "verifier" => proc'[p].kind = "verifier"
  /\ proc[p].kind # "command" => proc'[p].kind # "command"

LEMMA Recasting ==
  ASSUME NEW j \in Kind, NEW k \in Recast(j)
  PROVE  k \in Kind /\ (j = "verifier" => k = "verifier") /\ (j # "command" => k # "command")
BY DEF Recast, Kind

\* What a call of execve does to its process, when the hook lets it be.
LEMMA Executing ==
  ASSUME NEW p \in Pid, proc[p] \in Process, TypeOK, Exec(p)
  PROVE  /\ \A q \in Pid : q # p => proc'[q] = proc[q]
         /\ \/ KilledAtExec(p) /\ proc'[p] = Nobody
            \/ /\ ~KilledAtExec(p) /\ proc'[p] \in Process /\ KindKept(p)
               /\ proc'[p].id = proc[p].id /\ proc'[p].stopped = proc[p].stopped
               /\ proc'[p].heir = proc[p].heir /\ proc'[p].watched = proc[p].watched
               /\ proc'[p].dropped = proc[p].dropped
               /\ ~OnRecord(p) =>
                    proc'[p].missed = proc[p].missed /\ proc'[p].starts = proc[p].starts
               /\ OnRecord(p) =>
                    \/ /\ proc'[p].missed = proc[p].missed
                       /\ proc[p].starts = 0 => proc'[p].starts = 1
                    \/ proc'[p].missed /\ proc'[p].starts = proc[p].starts
<1>1. CASE KilledAtExec(p)
  BY <1>1 DEF Exec, TypeOK
<1>2. CASE ~KilledAtExec(p) /\ \E k \in Recast(proc[p].kind) : proc' = [proc EXCEPT ![p] = Started(p, k)]
  <2>1. PICK k \in Recast(proc[p].kind) : proc' = [proc EXCEPT ![p] = Started(p, k)]
    BY <1>2
  <2>2. k \in Kind /\ (proc[p].kind = "verifier" => k = "verifier")
        /\ (proc[p].kind # "command" => k # "command")
    BY Recasting DEF Process
  <2>3. PICK n : n = IF OnRecord(p) /\ proc[p].starts < 2 THEN proc[p].starts + 1 ELSE proc[p].starts
    OBVIOUS
  <2>4. n \in 0..2
    BY <2>3 DEF Process
  <2>5. Started(p, k) = [[proc[p] EXCEPT !.kind = k] EXCEPT !.starts = n]
    BY <2>3 DEF Started, Process
  <2>6. PICK r \in Process : r = [proc[p] EXCEPT !.kind = k]
    BY <2>2, Kinds
  <2>7. /\ r.id = proc[p].id /\ r.kind = k
        /\ r.stopped = proc[p].stopped /\ r.heir = proc[p].heir
        /\ r.watched = proc[p].watched /\ r.dropped = proc[p].dropped
        /\ r.missed = proc[p].missed
    BY <2>2, <2>6, Kinds
  <2>8. PICK s \in Process : s = [r EXCEPT !.starts = n]
    BY <2>4, <2>6, Counter
  <2>9. /\ s.id = r.id /\ s.kind = k /\ s.stopped = r.stopped /\ s.heir = r.heir
        /\ s.watched = r.watched /\ s.dropped = r.dropped /\ s.missed = r.missed /\ s.starts = n
    BY <2>7, <2>8 DEF Process
  <2>10. proc'[p] = s /\ \A q \in Pid : q # p => proc'[q] = proc[q]
    BY <2>1, <2>5, <2>6, <2>8 DEF TypeOK
  <2> QED
    BY <1>2, <2>2, <2>3, <2>7, <2>9, <2>10 DEF KindKept
<1>3. CASE ~KilledAtExec(p) /\ proc' = [proc EXCEPT ![p] = NotFound(p)]
  <2>1. PICK m \in BOOLEAN : m = (proc[p].missed \/ OnRecord(p))
    BY DEF Process
  <2>2. NotFound(p) = [proc[p] EXCEPT !.missed = m]
    BY <2>1 DEF NotFound
  <2>3. PICK s \in Process : s = [proc[p] EXCEPT !.missed = m]
    BY <2>1, Flags
  <2>4. /\ s.id = proc[p].id /\ s.kind = proc[p].kind /\ s.stopped = proc[p].stopped
        /\ s.heir = proc[p].heir /\ s.watched = proc[p].watched /\ s.dropped = proc[p].dropped
        /\ s.missed = m /\ s.starts = proc[p].starts
    BY <2>3 DEF Process
  <2>5. proc'[p] = s /\ \A q \in Pid : q # p => proc'[q] = proc[q]
    BY <1>3, <2>2, <2>3 DEF TypeOK
  <2>6. /\ OnRecord(p) => m = TRUE
        /\ ~OnRecord(p) => m = proc[p].missed
    <3>1. proc[p].missed \in BOOLEAN
      BY DEF Process
    <3>2. CASE OnRecord(p)
      BY <2>1, <3>2
    <3>3. CASE ~OnRecord(p)
      BY <2>1, <3>1, <3>3
    <3> QED
      BY <3>2, <3>3
  <2> QED
    BY <1>3, <2>4, <2>5, <2>6 DEF KindKept
<1> QED
  BY <1>1, <1>2, <1>3 DEF Exec

\* Whom pkill finds: processes that are there, all verifiers for the empty subject, and none
\* that never had the verifier's name but for a subject with operators.
LEMMA Matched ==
  \A found \in Matches :
    /\ \A p \in found : p \in Pid /\ Alive(p)
    /\ revokes = "empty" => Verifiers \subseteq found
    /\ revokes \in {"plain", "empty"} => \A p \in found : proc[p].kind # "command"
<1>1. CASE revokes = "empty"
  BY <1>1 DEF Matches, Verifiers, Mentions
<1>2. CASE revokes = "plain"
  BY <1>2 DEF Matches, Mentions
<1>3. CASE revokes \notin {"plain", "empty"}
  BY <1>3 DEF Matches
<1> QED
  BY <1>1, <1>2, <1>3

LEMMA TypeStep == TypeOK /\ Numbered /\ Aimed /\ [Next]_vars => TypeOK'
<1> SUFFICES ASSUME TypeOK, Numbered, Aimed, [Next]_vars PROVE TypeOK'
  OBVIOUS
<1> USE NobodyHasNoId DEF TypeOK, kernel, caep, ssf, Alive, Running
<1>1. ASSUME NEW p \in Pid, NEW k \in Kind, Spawn(p, k), UNCHANGED tools PROVE TypeOK'
  BY <1>1 DEF Spawn, Starts, Process, Kind
<1>2. ASSUME NEW p \in Pid, NEW c \in Pid, NEW e \in Entry, Fork(p, c, e), UNCHANGED tools
      PROVE  TypeOK'
  <2> HIDE DEF TypeOK
  <2>1. /\ proc' \in [Pid -> Process \cup {Nobody}]
        /\ table' \in [Pid -> Entry]
        /\ born' = born + 1 /\ born' \in 1..MaxBorn
    BY <1>2, Child
  <2> QED
    BY <1>2, <2>1 DEF TypeOK, Fork
<1>3. ASSUME NEW p \in Pid, Exec(p), UNCHANGED tools PROVE TypeOK'
  <2> HIDE DEF TypeOK
  <2>1. proc[p] \in Process
    BY <1>3 DEF Exec, TypeOK
  <2>2. proc'[p] \in Process \cup {Nobody} /\ \A q \in Pid : q # p => proc'[q] = proc[q]
    BY <1>3, <2>1, Executing
  <2>3. DOMAIN proc' = Pid /\ proc' = [q \in Pid |-> proc'[q]]
    BY <1>3 DEF Exec, TypeOK
  <2>4. proc' \in [Pid -> Process \cup {Nobody}]
    BY <2>2, <2>3 DEF TypeOK
  <2>5. table' \in [Pid -> Entry]
    BY <1>3 DEF Exec, TypeOK, Entry
  <2> QED
    BY <1>3, <2>4, <2>5 DEF Exec, TypeOK
<1>3a. ASSUME NEW p \in Pid, Execveat(p), UNCHANGED tools PROVE TypeOK'
  <2>1. proc[p] \in Process
    BY <1>3a DEF Execveat
  <2>2. PICK k \in Recast(proc[p].kind) : proc' = [proc EXCEPT ![p].kind = k]
    BY <1>3a DEF Execveat
  <2>3. k \in Kind
    BY <2>1, Recasting DEF Process
  <2>4. [proc[p] EXCEPT !.kind = k] \in Process
    BY <2>1, <2>3, Kinds
  <2>5. proc' \in [Pid -> Process \cup {Nobody}]
    BY <2>2, <2>4
  <2> QED
    BY <1>3a, <2>5 DEF Execveat
<1>3b. ASSUME NEW p \in Pid, NEW c \in Pid, NEW e \in Entry, Thread(p, c, e), UNCHANGED tools
       PROVE  TypeOK'
  BY <1>3b DEF Thread
<1>4. ASSUME NEW p \in Pid, Exit(p), UNCHANGED tools PROVE TypeOK'
  BY <1>4 DEF Exit
<1>5. ASSUME NEW p \in Pid, Kill(p), UNCHANGED tools PROVE TypeOK'
  BY <1>5 DEF Kill, Sigkill
<1>6. ASSUME NEW p \in Pid, MonitorPid(p), UNCHANGED tools PROVE TypeOK'
  <2>1. proc[p] # Nobody => [Unwatched(proc[p]) EXCEPT !.watched = TRUE] \in Process
    BY Unwatching
  <2>2. proc' \in [Pid -> Process \cup {Nobody}]
    BY <1>6, <2>1 DEF MonitorPid
  <2> QED
    BY <1>6, <2>2 DEF MonitorPid, Entry
<1>7. CASE (Fill \/ Attach) /\ UNCHANGED tools
  BY <1>7 DEF Fill, Attach
<1>8. CASE MonitorEnds /\ UNCHANGED tools
  <2>1. \A p \in Pid : proc[p] # Nobody => Unwatched(proc[p]) \in Process
    BY Unwatching
  <2>2. proc' \in [Pid -> Process \cup {Nobody}]
    BY <1>8, <2>1 DEF MonitorEnds
  <2> QED
    BY <1>8, <2>2 DEF MonitorEnds, Entry
<1>9. ASSUME NEW h \in Handler, NEW p \in Pid, Freeze(h, p), UNCHANGED tools PROVE TypeOK'
  <2>1. proc[p] \in Process /\ [proc[p] EXCEPT !.stopped = TRUE] \in Process
    BY <1>9, Flags DEF Freeze
  <2>2. proc' \in [Pid -> Process \cup {Nobody}]
    BY <1>9, <2>1 DEF Freeze
  <2>3. frozen' \in [Handler -> 0..born]
    <3>1. proc[p].id \in 0..born
      BY <1>9, <2>1 DEF Freeze, Process, Numbered
    <3> QED
      BY <1>9, <3>1 DEF Freeze
  <2>4. stale' \in [Handler -> SUBSET Handler]
    BY <1>9 DEF Freeze, Prior
  <2> QED
    BY <1>9, <2>2, <2>3, <2>4 DEF Freeze, Goto
<1>10. ASSUME NEW h \in Handler, NEW p \in Pid, FreezeFails(h, p), UNCHANGED tools PROVE TypeOK'
  BY <1>10 DEF FreezeFails, OnFreezeFailure, Goto
<1>11. ASSUME NEW h \in Handler, Press(h) \/ Quit(h), UNCHANGED tools PROVE TypeOK'
  <2>1. CASE Press(h)
    <3>1. PICK r :
            /\ IF Cleared(r) THEN Goto(h, "cleared") /\ UNCHANGED subject ELSE Ends(h, "false")
            /\ signed' = [signed EXCEPT ![h] =
                            IF r = "assertion" THEN {g \in Handler : frozen[g] = frozen[h]} ELSE {}]
      BY <2>1 DEF Press
    <3>2. signed' \in [Handler -> SUBSET Handler]
      BY <3>1
    <3>3. /\ handler' \in [Handler -> {"idle", "asking", "cleared", "true", "false", "raised"}]
          /\ subject' \in [Handler -> Pid \cup {NoPid}]
      BY <3>1 DEF Ends, Goto
    <3> QED
      BY <1>11, <2>1, <3>2, <3>3 DEF Press
  <2>2. CASE Quit(h)
    BY <1>11, <2>2 DEF Quit, Ends, Goto
  <2> QED
    BY <1>11, <2>1, <2>2
<1>12. ASSUME NEW h \in Handler, Resume(h), UNCHANGED tools PROVE TypeOK'
  <2>1. PICK p \in Pid : p = subject[h] /\ Alive(p)
    BY <1>12 DEF Resume, Aimed
  <2>2. proc' \in [Pid -> Process \cup {Nobody}]
    BY <1>12, <2>1, Flags DEF Resume
  <2>3. since' \in [Handler -> {"asleep", "killed", "thawed", "strayed"}]
    BY <1>12 DEF Resume, SeenToRun
  <2>4. /\ frozen' \in [Handler -> 0..born] /\ signed' \in [Handler -> SUBSET Handler]
        /\ stale' \in [Handler -> SUBSET Handler]
    BY <1>12 DEF Resume, Forget
  <2> QED
    BY <1>12, <2>2, <2>3, <2>4 DEF Resume, Ends, Goto
<1>13. ASSUME NEW h \in Handler, ResumeRaises(h), UNCHANGED tools PROVE TypeOK'
  BY <1>13 DEF ResumeRaises, Forget, Ends, Goto
<1>14. ASSUME NEW e \in Event, Receive(e), UNCHANGED tools PROVE TypeOK'
  <2>1. Identifier(e) \in {"none", "plain", "operators", "empty"}
    BY DEF Identifier
  <2>2. due' \in SUBSET (1..born)
    BY <1>14 DEF Receive, Verifiers, Process, Numbered
  <2> QED
    BY <1>14, <2>1, <2>2 DEF Receive
<1>15. CASE (Scan \/ PkillFails \/ Accepted) /\ UNCHANGED tools
  <2>1. ASSUME NEW p \in Pid, Alive(p) PROVE <<p, proc[p].id>> \in Pid \X (1..born)
    BY <2>1 DEF Process, Numbered
  <2>2. CASE Scan
    <3>1. PICK found \in Matches : listed' = {<<p, proc[p].id>> : p \in found}
      BY <2>2 DEF Scan
    <3>2. \A p \in found : p \in Pid /\ Alive(p)
      BY Matched
    <3>3. listed' \in SUBSET (Pid \X (1..born))
      BY <2>1, <3>1, <3>2
    <3> QED
      BY <1>15, <2>2, <3>3 DEF Scan
  <2> QED
    BY <1>15, <2>2 DEF PkillFails, Accepted
<1>16. ASSUME NEW x \in listed, KillListed(x), UNCHANGED tools PROVE TypeOK'
  BY <1>16 DEF KillListed, Signal9, Sigkill
<1>17. CASE UNCHANGED vars
  BY <1>17 DEF vars
<1> HIDE DEF TypeOK, kernel, caep, ssf, Alive, Running
<1>18. CASE KernelStep /\ UNCHANGED tools
  BY <1>1, <1>2, <1>3, <1>3a, <1>3b, <1>4, <1>5, <1>6, <1>7, <1>8, <1>18 DEF KernelStep
<1>19. CASE CaepStep /\ UNCHANGED tools
  BY <1>9, <1>10, <1>11, <1>12, <1>13, <1>19 DEF CaepStep
<1>20. CASE SsfStep /\ UNCHANGED tools
  BY <1>14, <1>15, <1>16, <1>20 DEF SsfStep
<1> QED
  BY <1>17, <1>18, <1>19, <1>20 DEF Next

(***************************************************************************)
(* What a step does to the processes, as far as their numbers go.          *)
(***************************************************************************)
Same(p) ==
  /\ Alive(p) <=> proc'[p] # Nobody
  /\ proc'[p].id = proc[p].id
  /\ Alive(p) => KindKept(p) /\ proc'[p].stopped = proc[p].stopped
Ended(p) == Running(p) /\ proc'[p] = Nobody
Begun(p) ==
  /\ ~Alive(p) /\ proc'[p] # Nobody
  /\ proc'[p].id = born + 1 /\ proc'[p].stopped = FALSE /\ born' = born + 1
  /\ \A q \in Pid : q # p => proc'[q] = proc[q]

Quiet ==
  /\ UNCHANGED caep
  /\ born' \in {born, born + 1}
  /\ \A p \in Pid : Same(p) \/ Ended(p) \/ Begun(p)

LEMMA QuietHistory ==
  ASSUME NEW r \in Process
  PROVE  /\ Unwatched(r).id = r.id /\ Unwatched(r).kind = r.kind /\ Unwatched(r).stopped = r.stopped
         /\ Unwatched(r) # Nobody
<1>1. /\ Unwatched(r).id = r.id /\ Unwatched(r).kind = r.kind /\ Unwatched(r).stopped = r.stopped
  BY DEF Unwatched, Process
<1> QED
  BY <1>1, Unwatching, NobodyHasNoId

LEMMA FreshHistory ==
  ASSUME NEW r \in Process
  PROVE  /\ Unwatched(r).dropped = FALSE /\ Unwatched(r).starts = 0
         /\ Unwatched(r).missed = FALSE
BY DEF Unwatched, Process

\* These steps stop, continue and signal nobody.
LEMMA QuietSteps ==
  ASSUME TypeOK, TypeOK',
         \/ \E p \in Pid : \/ \E k \in Kind : Spawn(p, k)
                           \/ \E c \in Pid, e \in Entry : Fork(p, c, e) \/ Thread(p, c, e)
                           \/ Exec(p) \/ Execveat(p) \/ Exit(p) \/ MonitorPid(p)
         \/ Fill \/ Attach \/ MonitorEnds
         \/ \E e \in Event : Receive(e)
         \/ Scan \/ PkillFails \/ Accepted
         \/ UNCHANGED vars
  PROVE  Quiet
<1> USE NobodyHasNoId
<1>1. ASSUME NEW c \in Pid, NEW k \in Kind, Spawn(c, k) PROVE Quiet
  <2>1. Begun(c) /\ \A p \in Pid : p # c => Same(p)
    BY <1>1 DEF Spawn, Starts, Begun, Same, KindKept, Alive, TypeOK
  <2> QED
    BY <1>1, <2>1 DEF Spawn, Starts, Quiet
<1>2. ASSUME NEW p \in Pid, NEW c \in Pid, NEW e \in Entry, Fork(p, c, e) PROVE Quiet
  <2>1. proc'[c] # Nobody /\ \A q \in Pid : q # c => proc'[q] = proc[q]
    BY <1>2, Child
  <2>2. Begun(c) /\ \A q \in Pid : q # c => Same(q)
    BY <1>2, <2>1, Child DEF Begun, Same, KindKept, Alive
  <2> QED
    BY <1>2, <2>2 DEF Fork, Starts, Quiet
<1>3. ASSUME NEW p \in Pid, Exec(p) PROVE Quiet
  <2>1. proc[p] \in Process /\ Running(p)
    BY <1>3 DEF Exec, Running, Alive, TypeOK
  <2>2. (Same(p) \/ Ended(p)) /\ \A q \in Pid : q # p => proc'[q] = proc[q]
    BY <1>3, <2>1, Executing DEF Same, Ended, Running
  <2> QED
    BY <1>3, <2>2 DEF Exec, Quiet, Same, KindKept, Alive
<1>3a. ASSUME NEW p \in Pid, Execveat(p) PROVE Quiet
  <2>1. proc[p] \in Process /\ Running(p)
    BY <1>3a DEF Execveat, Running, Alive, TypeOK
  <2>2. PICK k \in Recast(proc[p].kind) : proc' = [proc EXCEPT ![p].kind = k]
    BY <1>3a DEF Execveat
  <2>3. k \in Kind /\ (proc[p].kind = "verifier" => k = "verifier")
        /\ (proc[p].kind # "command" => k # "command")
    BY <2>1, Recasting DEF Process
  <2>4. proc'[p] = [proc[p] EXCEPT !.kind = k] /\ \A q \in Pid : q # p => proc'[q] = proc[q]
    BY <2>2 DEF TypeOK
  <2>5. Same(p)
    BY <2>1, <2>3, <2>4, Kinds DEF Same, KindKept, Running
  <2> QED
    BY <1>3a, <2>4, <2>5 DEF Execveat, Quiet, Same, KindKept, Alive
<1>4. ASSUME NEW p \in Pid, Exit(p) PROVE Quiet
  BY <1>4 DEF Exit, Quiet, Same, KindKept, Ended, Alive, TypeOK
<1>5. ASSUME NEW p \in Pid, MonitorPid(p) PROVE Quiet
  <2>1. CASE Alive(p)
    <3>1. proc[p] \in Process
      BY <2>1 DEF TypeOK, Alive
    <3>2. Unwatched(proc[p]) \in Process
      BY <3>1, Unwatching
    <3>3. proc'[p] = [Unwatched(proc[p]) EXCEPT !.watched = TRUE]
          /\ \A q \in Pid : q # p => proc'[q] = proc[q]
      BY <1>5, <2>1 DEF MonitorPid, TypeOK
    <3>4. /\ proc'[p].id = Unwatched(proc[p]).id /\ proc'[p].kind = Unwatched(proc[p]).kind
          /\ proc'[p].stopped = Unwatched(proc[p]).stopped
      BY <3>2, <3>3 DEF Process
    <3>5. Same(p)
      <4>1. proc'[p].id \in 1..MaxBorn
        BY <3>1, <3>4, QuietHistory DEF Process
      <4> QED
        BY <2>1, <3>1, <3>4, <4>1, QuietHistory DEF Same, KindKept
    <3> QED
      BY <1>5, <3>3, <3>5 DEF MonitorPid, Quiet, Same, KindKept, Alive
  <2>2. CASE ~Alive(p)
    BY <1>5, <2>2 DEF MonitorPid, Quiet, Same, KindKept, Alive
  <2> QED
    BY <2>1, <2>2
<1>6. CASE MonitorEnds
  <2>1. ASSUME NEW p \in Pid PROVE Same(p)
    <3>1. CASE Alive(p)
      <4>1. proc[p] \in Process /\ proc'[p] = Unwatched(proc[p])
        BY <1>6, <3>1 DEF MonitorEnds, Alive, TypeOK
      <4> QED
        BY <3>1, <4>1, QuietHistory DEF Same, KindKept
    <3>2. CASE ~Alive(p)
      BY <1>6, <3>2 DEF MonitorEnds, Same, Alive
    <3> QED
      BY <3>1, <3>2
  <2> QED
    BY <1>6, <2>1 DEF MonitorEnds, Quiet
<1>7. ASSUME UNCHANGED <<proc, born, caep>> PROVE Quiet
  BY <1>7 DEF Quiet, Same, KindKept, Alive
<1>8. ASSUME NEW e \in Event, Receive(e) PROVE Quiet
  BY <1>7, <1>8 DEF Receive, kernel
<1>8a. ASSUME NEW p \in Pid, NEW c \in Pid, NEW e \in Entry, Thread(p, c, e) PROVE Quiet
  BY <1>7, <1>8a DEF Thread
<1>9. CASE Fill \/ Attach \/ Scan \/ PkillFails \/ Accepted \/ UNCHANGED vars
  BY <1>7, <1>9 DEF Fill, Attach, Scan, PkillFails, Accepted, vars, kernel
<1> QED
  BY <1>1, <1>2, <1>3, <1>3a, <1>4, <1>5, <1>6, <1>8, <1>8a, <1>9

\* A SIGKILL ends one process, and tells the handlers that had stopped it.
LEMMA SigkillOne ==
  ASSUME TypeOK, NEW p \in Pid, Sigkill(p)
  PROVE  /\ proc'[p] = Nobody /\ \A q \in Pid : q # p => proc'[q] = proc[q]
         /\ UNCHANGED <<handler, subject, frozen, signed, stale>>
         /\ \A g \in Handler :
              since'[g] = IF Running(p) \/ ~Alive(p) \/ frozen[g] # proc[p].id THEN since[g]
                          ELSE "killed"
<1>1. /\ proc'[p] = Nobody /\ \A q \in Pid : q # p => proc'[q] = proc[q]
      /\ UNCHANGED <<handler, subject, frozen, signed, stale>>
  BY DEF Sigkill, TypeOK
<1>2. ASSUME NEW g \in Handler
      PROVE  since'[g] = IF Running(p) \/ ~Alive(p) \/ frozen[g] # proc[p].id THEN since[g]
                         ELSE "killed"
  <2>1. since'[g] = IF Alive(p) /\ frozen[g] = proc[p].id /\ proc[p].stopped
                    THEN "killed" ELSE since[g]
    BY DEF Sigkill, Holding
  <2>2. Alive(p) => proc[p].stopped \in BOOLEAN
    BY DEF Alive, TypeOK, Process
  <2> QED
    BY <2>1, <2>2 DEF Running
<1> QED
  BY <1>1, <1>2

\* A handler goes on: the others that had frozen the process see it run.
LEMMA ResumeOne ==
  ASSUME TypeOK, Asleep, NEW h \in Handler, Resume(h)
  PROVE  /\ subject[h] \in Pid /\ proc[subject[h]] \in Process
         /\ proc' = [proc EXCEPT ![subject[h]].stopped = FALSE]
         /\ frozen' = [frozen EXCEPT ![h] = 0]
         /\ handler' = [handler EXCEPT ![h] = "true"]
         /\ \A g \in Handler : g # h =>
              /\ subject'[g] = subject[g] /\ signed'[g] = signed[g] /\ stale'[g] = stale[g]
              /\ frozen[g] # proc[subject[h]].id => since'[g] = since[g]
              /\ frozen[g] = proc[subject[h]].id /\ (g \in signed[h] \/ h \in stale[g]) =>
                   since'[g] \in {"thawed", "strayed"}
         /\ born' = born
<1>1. subject[h] \in Pid /\ h \in signed[h]
  BY DEF Asleep, Aimed, Resume
<1>2. proc[subject[h]] \in Process
  BY <1>1 DEF Resume, Alive, TypeOK
<1>3. /\ proc' = [proc EXCEPT ![subject[h]].stopped = FALSE] /\ born' = born
      /\ frozen' = [frozen EXCEPT ![h] = 0] /\ handler' = [handler EXCEPT ![h] = "true"]
      /\ \A g \in Handler : g # h =>
           subject'[g] = subject[g] /\ signed'[g] = signed[g] /\ stale'[g] = stale[g]
  BY <1>1 DEF Resume, Ends, Goto, Forget, TypeOK
<1>4. ASSUME NEW g \in Handler, g # h
      PROVE  /\ frozen[g] # proc[subject[h]].id => since'[g] = since[g]
             /\ frozen[g] = proc[subject[h]].id /\ (g \in signed[h] \/ h \in stale[g]) =>
                  since'[g] \in {"thawed", "strayed"}
  BY <1>1, <1>4 DEF Resume, SeenToRun, Holding
<1> QED
  BY <1>1, <1>2, <1>3, <1>4

\* The step of a handler or a signal changes no number; a pid may lose its process.
Survives(p) ==
  /\ Alive(p) /\ proc'[p] # Nobody
  /\ proc'[p].id = proc[p].id /\ KindKept(p)

\* A step gives a number to one process at most, and takes none from one that goes on.
LEMMA Identities ==
  ASSUME TypeOK, TypeOK', Asleep, [Next]_vars
  PROVE  /\ born' \in {born, born + 1}
         /\ \A p \in Pid : proc'[p] = Nobody \/ Survives(p) \/ Begun(p)
<1> USE NobodyHasNoId
<1>1. ASSUME Quiet
      PROVE  /\ born' \in {born, born + 1}
             /\ \A p \in Pid : proc'[p] = Nobody \/ Survives(p) \/ Begun(p)
  BY <1>1 DEF Quiet, Same, Ended, Survives
<1> DEFINE Goal == /\ born' = born
                   /\ \A p \in Pid : proc'[p] = Nobody \/ Survives(p)
<1>2. ASSUME proc' = proc, born' = born PROVE Goal
  BY <1>2 DEF Survives, KindKept, Alive
<1>3. ASSUME NEW p \in Pid, Kill(p) PROVE Goal
  BY <1>3, SigkillOne DEF Kill, Survives, KindKept, Alive
<1>4. ASSUME NEW x \in listed, KillListed(x) PROVE Goal
  <2>1. x[1] \in Pid /\ Sigkill(x[1]) /\ born' = born
    BY <1>4 DEF TypeOK, KillListed, Signal9
  <2> QED
    BY <2>1, SigkillOne DEF Survives, KindKept, Alive
<1>5. ASSUME NEW h \in Handler, NEW p \in Pid, Freeze(h, p) PROVE Goal
  <2>1. proc[p] \in Process /\ proc' = [proc EXCEPT ![p].stopped = TRUE] /\ born' = born
    BY <1>5 DEF Freeze, Alive, TypeOK
  <2>2. proc'[p].id = proc[p].id /\ proc'[p].kind = proc[p].kind
        /\ \A q \in Pid : q # p => proc'[q] = proc[q]
    BY <2>1 DEF TypeOK, Process
  <2>3. proc'[p].id # 0
    BY <2>1, <2>2 DEF Process
  <2> QED
    BY <1>5, <2>1, <2>2, <2>3 DEF Freeze, Survives, KindKept, Alive
<1>6. ASSUME NEW h \in Handler, Resume(h) PROVE Goal
  <2> DEFINE p == subject[h]
  <2>1. p \in Pid /\ proc[p] \in Process /\ proc' = [proc EXCEPT ![p].stopped = FALSE]
        /\ born' = born
    BY <1>6, ResumeOne
  <2> HIDE DEF p
  <2>2. proc'[p].id = proc[p].id /\ proc'[p].kind = proc[p].kind
        /\ \A q \in Pid : q # p => proc'[q] = proc[q]
    BY <2>1 DEF TypeOK, Process
  <2>3. proc'[p].id # 0
    BY <2>1, <2>2 DEF Process
  <2> QED
    BY <2>1, <2>2, <2>3 DEF Survives, KindKept, Alive
<1>7. ASSUME NEW h \in Handler, NEW p \in Pid, FreezeFails(h, p) PROVE Goal
  BY <1>2, <1>7 DEF FreezeFails, kernel
<1>8. ASSUME NEW h \in Handler, Press(h) \/ Quit(h) \/ ResumeRaises(h) PROVE Goal
  BY <1>2, <1>8 DEF Press, Quit, ResumeRaises, kernel
<1> HIDE DEF Goal
<1>9. CASE KernelStep
  BY <1>1, <1>3, <1>9, QuietSteps DEF KernelStep, Goal
<1>10. CASE CaepStep
  BY <1>5, <1>6, <1>7, <1>8, <1>10 DEF CaepStep, Goal
<1>11. CASE SsfStep
  BY <1>1, <1>4, <1>11, QuietSteps DEF SsfStep, Goal
<1>12. CASE UNCHANGED vars
  BY <1>1, <1>12, QuietSteps
<1> QED
  BY <1>9, <1>10, <1>11, <1>12 DEF Next

LEMMA NumberedStep == TypeOK /\ TypeOK' /\ Asleep /\ Numbered /\ [Next]_vars => Numbered'
<1> SUFFICES ASSUME TypeOK, TypeOK', Asleep, Numbered, [Next]_vars PROVE Numbered'
  OBVIOUS
<1>1. born' \in {born, born + 1} /\ born \in Nat
      /\ \A p \in Pid : proc'[p] = Nobody \/ Survives(p) \/ Begun(p)
  BY Identities, MaxBornAssumption DEF TypeOK
<1>2. \A p \in Pid : Alive(p) => proc[p].id \in Nat /\ proc[p].id <= born
  BY DEF TypeOK, Numbered, Alive, Process
<1>3. ASSUME NEW p \in Pid, proc'[p] # Nobody PROVE proc'[p].id <= born'
  BY <1>1, <1>2, <1>3 DEF Survives, Begun
<1>4. ASSUME NEW p \in Pid, NEW q \in Pid, proc'[p] # Nobody, proc'[q] # Nobody,
             proc'[p].id = proc'[q].id, p # q
      PROVE  FALSE
  <2>1. CASE Begun(p) /\ Survives(q)
    <3>1. proc'[p].id = born + 1
      BY <2>1 DEF Begun
    <3>2. proc'[q].id \in Nat /\ proc'[q].id <= born
      BY <1>2, <2>1 DEF Survives
    <3> QED
      BY <1>1, <1>4, <3>1, <3>2
  <2>2. CASE Begun(q) /\ Survives(p)
    <3>1. proc'[q].id = born + 1
      BY <2>2 DEF Begun
    <3>2. proc'[p].id \in Nat /\ proc'[p].id <= born
      BY <1>2, <2>2 DEF Survives
    <3> QED
      BY <1>1, <1>4, <3>1, <3>2
  <2>3. CASE Begun(p) /\ Begun(q)
    BY <1>4, <2>3 DEF Begun, Alive
  <2>4. CASE Survives(p) /\ Survives(q)
    BY <1>4, <2>4 DEF Survives, Numbered
  <2> QED
    BY <1>1, <1>4, <2>1, <2>2, <2>3, <2>4
<1> QED
  BY <1>3, <1>4 DEF Numbered, Alive

(***************************************************************************)
(* The handlers.                                                           *)
(***************************************************************************)
LEMMA FreezeStops ==
  ASSUME TypeOK, NEW h \in Handler, NEW p \in Pid, Freeze(h, p)
  PROVE  /\ proc[p].id # 0 /\ proc'[p].id = proc[p].id /\ proc'[p].stopped = TRUE
         /\ \A q \in Pid : q # p => proc'[q] = proc[q]
<1>1. proc[p] \in Process /\ proc' = [proc EXCEPT ![p].stopped = TRUE]
  BY DEF Freeze, Alive, TypeOK
<1>2. proc[p].id # 0
  BY <1>1 DEF Process
<1> QED
  BY <1>1, <1>2 DEF TypeOK, Process

LEMMA FreezeHandler ==
  ASSUME TypeOK, NEW h \in Handler, NEW p \in Pid, Freeze(h, p)
  PROVE  /\ handler'[h] = "asking" /\ subject'[h] = p /\ frozen'[h] = proc[p].id
         /\ \A g \in Handler : g # h =>
              handler'[g] = handler[g] /\ subject'[g] = subject[g] /\ frozen'[g] = frozen[g]
BY DEF Freeze, Goto, TypeOK

LEMMA AsleepStep == TypeOK /\ TypeOK' /\ Asleep /\ Signatures /\ [Next]_vars => Asleep'
<1> SUFFICES ASSUME TypeOK, TypeOK', Asleep, Signatures, [Next]_vars PROVE Asleep'
  OBVIOUS
<1> USE NobodyHasNoId
<1>1. ASSUME Quiet PROVE Asleep'
  <2>1. UNCHANGED <<handler, subject, frozen, signed, since>>
    BY <1>1 DEF Quiet, caep
  <2>2. ASSUME NEW h \in Handler, handler[h] \in {"asking", "cleared"}, since[h] = "asleep"
        PROVE  proc'[subject[h]].id = frozen[h] /\ proc'[subject[h]].stopped
    <3>1. subject[h] \in Pid /\ frozen[h] # 0
          /\ proc[subject[h]].id = frozen[h] /\ proc[subject[h]].stopped
      BY <2>2 DEF Asleep, Aimed
    <3>2. Alive(subject[h])
      BY <3>1 DEF Alive
    <3>3. Same(subject[h])
      BY <1>1, <3>1, <3>2 DEF Quiet, Ended, Begun, Running
    <3> QED
      BY <3>1, <3>2, <3>3 DEF Same
  <2> QED
    BY <2>1, <2>2 DEF Asleep, Aimed
<1>2. ASSUME NEW p \in Pid, Sigkill(p) PROVE Asleep'
  <2>1. UNCHANGED <<handler, subject, frozen, signed>>
    BY <1>2, SigkillOne
  <2>2. ASSUME NEW h \in Handler, handler[h] \in {"asking", "cleared"}, since'[h] = "asleep"
        PROVE  proc'[subject[h]].id = frozen[h] /\ proc'[subject[h]].stopped
    <3>1. since[h] = "asleep"
      BY <1>2, <2>2, SigkillOne
    <3>2. subject[h] \in Pid /\ frozen[h] # 0
          /\ proc[subject[h]].id = frozen[h] /\ proc[subject[h]].stopped
      BY <2>2, <3>1 DEF Asleep, Aimed
    <3>3. Alive(subject[h]) /\ ~Running(subject[h])
      BY <3>2 DEF Alive, Running
    <3>4. subject[h] # p
      BY <1>2, <2>2, <3>2, <3>3, SigkillOne
    <3>5. proc'[subject[h]] = proc[subject[h]]
      BY <1>2, <3>2, <3>4, SigkillOne
    <3> QED
      BY <3>2, <3>5
  <2> QED
    BY <2>1, <2>2 DEF Asleep, Aimed
<1>3. ASSUME NEW h \in Handler, NEW p \in Pid, Freeze(h, p) PROVE Asleep'
  <2>1. \A g \in Handler : g # h => handler'[g] = handler[g] /\ subject'[g] = subject[g]
                                    /\ frozen'[g] = frozen[g] /\ signed'[g] = signed[g]
    BY <1>3, FreezeHandler DEF Freeze
  <2>2. handler'[h] = "asking" /\ subject'[h] = p /\ frozen'[h] = proc'[p].id
        /\ frozen'[h] # 0 /\ proc'[p].stopped
    <3>1. handler'[h] = "asking" /\ subject'[h] = p /\ frozen'[h] = proc[p].id
      BY <1>3, FreezeHandler
    <3>2. proc[p].id # 0 /\ proc'[p].id = proc[p].id /\ proc'[p].stopped = TRUE
      BY <1>3, FreezeStops
    <3> QED
      BY <3>1, <3>2
  <2>3. \A q \in Pid : proc'[q].id = proc[q].id /\ (proc[q].stopped => proc'[q].stopped)
    BY <1>3, FreezeStops
  <2>4. since' = since
    BY <1>3 DEF Freeze
  <2>5. \A g \in Handler : g # h /\ handler[g] \in {"asking", "cleared"} => subject[g] \in Pid
    BY DEF Asleep, Aimed
  <2> QED
    BY <2>1, <2>2, <2>3, <2>4, <2>5 DEF Asleep, Aimed
<1>4. ASSUME NEW h \in Handler, Resume(h) PROVE Asleep'
  <2>1. handler'[h] = "true"
    BY <1>4, ResumeOne DEF TypeOK
  <2>2. \A g \in Handler : g # h => handler'[g] = handler[g] /\ subject'[g] = subject[g]
                                    /\ frozen'[g] = frozen[g] /\ signed'[g] = signed[g]
    BY <1>4, ResumeOne DEF TypeOK
  <2>3. ASSUME NEW g \in Handler, g # h, handler[g] \in {"asking", "cleared"}, since'[g] = "asleep"
        PROVE  proc'[subject[g]].id = frozen[g] /\ proc'[subject[g]].stopped
    <3>0. frozen[g] # proc[subject[h]].id
      <4>1. SUFFICES ASSUME frozen[g] = proc[subject[h]].id PROVE FALSE
        OBVIOUS
      <4>2. frozen[g] # 0
        BY <2>3 DEF Asleep
      <4>3. handler[h] = "cleared" /\ subject[h] \in Pid
        BY <1>4 DEF Resume, Asleep, Aimed
      <4>4. h \in stale[g] \/ g \in signed[h]
        BY <2>3, <4>1, <4>2, <4>3 DEF Signatures
      <4> QED
        BY <1>4, <2>3, <4>1, <4>4, ResumeOne
    <3>1. since[g] = "asleep" /\ frozen[g] # proc[subject[h]].id
      BY <1>4, <2>3, <3>0, ResumeOne
    <3>2. subject[g] \in Pid
          /\ proc[subject[g]].id = frozen[g] /\ proc[subject[g]].stopped
      BY <2>3, <3>1 DEF Asleep, Aimed
    <3>3. proc'[subject[g]] = proc[subject[g]]
      BY <1>4, <3>1, <3>2, ResumeOne DEF TypeOK
    <3> QED
      BY <3>2, <3>3
  <2> QED
    BY <2>1, <2>2, <2>3 DEF Asleep, Aimed
<1>5. ASSUME NEW h \in Handler, NEW p \in Pid, FreezeFails(h, p) PROVE Asleep'
  BY <1>5 DEF FreezeFails, OnFreezeFailure, Goto, kernel, Asleep, Aimed, TypeOK
<1>6. ASSUME NEW h \in Handler, Press(h) PROVE Asleep'
  <2>1. UNCHANGED <<proc, born, frozen, since>>
    BY <1>6 DEF Press, kernel
  <2>2. PICK r :
          /\ IF r = "assertion"
             THEN handler' = [handler EXCEPT ![h] = "cleared"] /\ UNCHANGED subject
             ELSE /\ handler' = [handler EXCEPT ![h] = "false"]
                  /\ subject' = [subject EXCEPT ![h] = NoPid]
          /\ signed' = [signed EXCEPT ![h] =
                          IF r = "assertion" THEN {g \in Handler : frozen[g] = frozen[h]} ELSE {}]
    BY <1>6 DEF Press, Cleared, Ends, Goto
  <2>3. handler[h] = "asking"
    BY <1>6 DEF Press
  <2>4. CASE r = "assertion"
    <3>1. /\ handler'[h] = "cleared" /\ subject' = subject
          /\ \A g \in Handler : g # h => handler'[g] = handler[g]
      BY <2>2, <2>4 DEF TypeOK
    <3>2. h \in signed'[h]
      BY <2>2, <2>4 DEF TypeOK
    <3>3. \A g \in Handler : g # h => signed'[g] = signed[g]
      BY <2>2, Zenon DEF TypeOK
    <3> QED
      BY <2>1, <2>3, <3>1, <3>2, <3>3 DEF Asleep, Aimed
  <2>5. CASE r # "assertion"
    BY <2>1, <2>2, <2>3, <2>5 DEF Asleep, Aimed, TypeOK
  <2> QED
    BY <2>4, <2>5
<1>7. ASSUME NEW h \in Handler, Quit(h) PROVE Asleep'
  BY <1>7 DEF Quit, Ends, Goto, kernel, Asleep, Aimed, TypeOK
<1>8. ASSUME NEW h \in Handler, ResumeRaises(h) PROVE Asleep'
  BY <1>8 DEF ResumeRaises, Forget, Ends, Goto, kernel, Asleep, Aimed, TypeOK
<1>9. ASSUME NEW x \in listed, KillListed(x) PROVE Asleep'
  BY <1>2, <1>9 DEF KillListed, Signal9, TypeOK
<1>10. CASE KernelStep
  BY <1>1, <1>2, <1>10, QuietSteps DEF KernelStep, Kill
<1>11. CASE CaepStep
  BY <1>3, <1>4, <1>5, <1>6, <1>7, <1>8, <1>11 DEF CaepStep
<1>12. CASE SsfStep
  BY <1>1, <1>9, <1>12, QuietSteps DEF SsfStep
<1>13. CASE UNCHANGED vars
  BY <1>1, <1>13, QuietSteps
<1> QED
  BY <1>10, <1>11, <1>12, <1>13 DEF Next

LEMMA SignaturesStep ==
  TypeOK /\ TypeOK' /\ Numbered /\ Asleep /\ Signatures /\ [Next]_vars => Signatures'
<1> SUFFICES ASSUME TypeOK, TypeOK', Numbered, Asleep, Signatures, [Next]_vars,
                    NEW g \in Handler, NEW h \in Handler, g # h,
                    handler'[g] \in {"asking", "cleared"}, frozen'[h] # 0,
                    proc'[subject'[g]].id = frozen'[h]
             PROVE  \/ g \in stale'[h]
                    \/ handler'[g] = "cleared" /\ h \in signed'[g]
                    \/ handler'[g] = "asking" /\ frozen'[g] = frozen'[h]
  BY DEF Signatures
<1> USE NobodyHasNoId
<1> DEFINE Goal == \/ g \in stale'[h]
                   \/ handler'[g] = "cleared" /\ h \in signed'[g]
                   \/ handler'[g] = "asking" /\ frozen'[g] = frozen'[h]
<1>1. /\ frozen[h] \in 0..born /\ born \in Nat
      /\ \A p \in Pid : proc'[p] = Nobody \/ Survives(p) \/ Begun(p)
  BY Identities, MaxBornAssumption DEF TypeOK
<1>2. ASSUME handler'[g] = handler[g], subject'[g] = subject[g], frozen'[h] = frozen[h]
      PROVE  /\ handler[g] \in {"asking", "cleared"} /\ frozen[h] # 0
             /\ subject[g] \in Pid /\ proc[subject[g]].id = frozen[h]
             /\ \/ g \in stale[h]
                \/ handler[g] = "cleared" /\ h \in signed[g]
                \/ handler[g] = "asking" /\ frozen[g] = frozen[h]
  <2>1. subject[g] \in Pid
    BY <1>2 DEF Asleep, Aimed
  <2>2. ~Begun(subject[g])
    BY <1>1, <1>2, <2>1 DEF Begun
  <2>3. Survives(subject[g])
    BY <1>1, <1>2, <2>1, <2>2
  <2>4. proc[subject[g]].id = frozen[h]
    BY <1>2, <2>3 DEF Survives
  <2> QED
    BY <1>2, <2>1, <2>4 DEF Signatures
<1>3. ASSUME UNCHANGED <<handler, subject, frozen, signed, stale>> PROVE Goal
  BY <1>2, <1>3
<1>4. CASE KernelStep
  <2>1. UNCHANGED <<handler, subject, frozen, signed, stale>>
    BY <1>4 DEF KernelStep, Spawn, Fork, Thread, Exec, Execveat, Exit, Kill, Sigkill, MonitorPid,
       Fill, Attach, MonitorEnds, caep
  <2> QED
    BY <1>3, <2>1
<1>5. CASE SsfStep
  <2>1. UNCHANGED <<handler, subject, frozen, signed, stale>>
    BY <1>5 DEF SsfStep, Receive, Scan, PkillFails, Accepted, KillListed, Signal9, Sigkill, caep
  <2> QED
    BY <1>3, <2>1
<1>6. ASSUME NEW f \in Handler, NEW p \in Pid, Freeze(f, p) PROVE Goal
  <2>1. /\ handler'[f] = "asking" /\ subject'[f] = p /\ frozen'[f] = proc[p].id
        /\ \A k \in Handler : k # f =>
             handler'[k] = handler[k] /\ subject'[k] = subject[k] /\ frozen'[k] = frozen[k]
    BY <1>6, FreezeHandler
  <2>2. /\ stale'[f] = Prior(p) /\ \A k \in Handler : k # f => stale'[k] = stale[k]
        /\ signed' = signed /\ Alive(p)
    BY <1>6 DEF Freeze, TypeOK
  <2>3. proc'[p].id = proc[p].id /\ \A q \in Pid : q # p => proc'[q] = proc[q]
    BY <1>6, FreezeStops
  <2>4. CASE g = f
    BY <2>1, <2>3, <2>4
  <2>5. CASE h = f
    <3>1. handler[g] \in {"asking", "cleared"} /\ subject'[g] = subject[g] /\ subject[g] \in Pid
      BY <2>1, <2>5 DEF Asleep, Aimed
    <3>2. proc[subject[g]].id = proc[p].id /\ proc[p].id # 0
      BY <2>1, <2>3, <2>5, <3>1
    <3>3. subject[g] = p
      BY <2>2, <3>1, <3>2 DEF Numbered, Alive
    <3>4. g \in Prior(p) \/ (handler[g] = "asking" /\ frozen[g] = proc[p].id)
      BY <3>1, <3>3 DEF Prior
    <3> QED
      BY <2>1, <2>2, <2>5, <3>4
  <2>6. CASE g # f /\ h # f
    BY <1>2, <2>1, <2>2, <2>6
  <2> QED
    BY <2>4, <2>5, <2>6
<1>7. ASSUME NEW f \in Handler, NEW p \in Pid, FreezeFails(f, p) PROVE Goal
  <2>1. /\ handler'[f] = "false" /\ UNCHANGED <<frozen, signed, stale>>
        /\ \A k \in Handler : k # f => handler'[k] = handler[k] /\ subject'[k] = subject[k]
    BY <1>7 DEF FreezeFails, OnFreezeFailure, Goto, TypeOK
  <2> QED
    BY <1>2, <2>1
<1>8. ASSUME NEW f \in Handler, Press(f) PROVE Goal
  <2>1. PICK r :
          /\ IF r = "assertion"
             THEN handler' = [handler EXCEPT ![f] = "cleared"] /\ UNCHANGED subject
             ELSE /\ handler' = [handler EXCEPT ![f] = "false"]
                  /\ subject' = [subject EXCEPT ![f] = NoPid]
          /\ signed' = [signed EXCEPT ![f] =
                          IF r = "assertion" THEN {k \in Handler : frozen[k] = frozen[f]} ELSE {}]
    BY <1>8 DEF Press, Cleared, Ends, Goto
  <2>2. UNCHANGED <<frozen, stale, proc>> /\ handler[f] = "asking"
    BY <1>8 DEF Press, kernel
  <2>3. CASE g # f
    <3>1. handler'[g] = handler[g] /\ subject'[g] = subject[g] /\ signed'[g] = signed[g]
      <4>1. CASE r = "assertion"
        BY <2>1, <2>3, <4>1 DEF TypeOK
      <4>2. CASE r # "assertion"
        BY <2>1, <2>3, <4>2 DEF TypeOK
      <4> QED
        BY <4>1, <4>2
    <3> QED
      BY <1>2, <2>2, <3>1
  <2>4. CASE g = f
    <3>1. r = "assertion"
      BY <2>1, <2>4 DEF TypeOK
    <3>2. handler'[g] = "cleared" /\ subject' = subject
          /\ signed'[g] = {k \in Handler : frozen[k] = frozen[g]}
      BY <2>1, <2>4, <3>1 DEF TypeOK
    <3>3. g \in stale[h] \/ frozen[g] = frozen[h]
      BY <2>2, <2>4, <3>2 DEF Signatures
    <3> QED
      BY <2>2, <3>2, <3>3
  <2> QED
    BY <2>3, <2>4
<1>9. ASSUME NEW f \in Handler, Quit(f) PROVE Goal
  <2>1. /\ handler'[f] = "false" /\ UNCHANGED <<frozen, signed, stale>>
        /\ \A k \in Handler : k # f => handler'[k] = handler[k] /\ subject'[k] = subject[k]
    BY <1>9 DEF Quit, Ends, Goto, TypeOK
  <2> QED
    BY <1>2, <2>1
<1>10. ASSUME NEW f \in Handler, Resume(f) \/ ResumeRaises(f) PROVE Goal
  <2>1. f \in signed[f]
    BY <1>10 DEF Resume, ResumeRaises, Asleep
  <2>2. /\ handler'[f] \in {"true", "raised"} /\ frozen'[f] = 0
        /\ \A k \in Handler : k # f =>
             /\ handler'[k] = handler[k] /\ subject'[k] = subject[k] /\ frozen'[k] = frozen[k]
             /\ signed'[k] = signed[k] /\ stale'[k] = stale[k]
    BY <1>10, <2>1 DEF Resume, ResumeRaises, Ends, Goto, Forget, TypeOK
  <2>3. g # f /\ h # f
    BY <2>2
  <2> QED
    BY <1>2, <2>2, <2>3
<1> HIDE DEF Goal
<1>11. CASE CaepStep
  BY <1>6, <1>7, <1>8, <1>9, <1>10, <1>11 DEF CaepStep, Goal
<1>12. CASE UNCHANGED vars
  BY <1>3, <1>12 DEF vars, caep, Goal
<1> QED
  BY <1>4, <1>5, <1>11, <1>12 DEF Next, Goal

LEMMA FrozenStep ==
  TypeOK /\ TypeOK' /\ Numbered /\ Asleep /\ Signatures /\ FrozenUntilSigned /\ [Next]_vars
    => FrozenUntilSigned'
<1> SUFFICES ASSUME TypeOK, TypeOK', Numbered, Asleep, Signatures, FrozenUntilSigned, [Next]_vars,
                    NEW g \in Handler, NEW q \in Pid,
                    frozen'[g] # 0, proc'[q].id = frozen'[g], proc'[q] # Nobody, ~proc'[q].stopped
             PROVE  since'[g] \in {"thawed", "strayed"}
  BY DEF FrozenUntilSigned, Running, Alive
<1> USE NobodyHasNoId
<1> DEFINE Goal == since'[g] \in {"thawed", "strayed"}
<1>0. frozen[g] \in Nat /\ frozen[g] <= born /\ born \in Nat
  BY MaxBornAssumption DEF TypeOK
<1>1. ASSUME frozen[g] # 0, proc[q].id = frozen[g], Alive(q), ~proc[q].stopped
      PROVE  since[g] \in {"thawed", "strayed"}
  BY <1>1 DEF FrozenUntilSigned, Running
<1>2. ASSUME Quiet PROVE Goal
  <2>1. frozen' = frozen /\ since' = since
    BY <1>2 DEF Quiet, caep
  <2>2. ~Ended(q) /\ ~Begun(q)
    BY <1>0, <2>1 DEF Ended, Begun
  <2>3. Same(q)
    BY <1>2, <2>2 DEF Quiet
  <2> QED
    BY <1>1, <2>1, <2>3 DEF Same
<1>3. ASSUME NEW p \in Pid, Sigkill(p) PROVE Goal
  <2>1. q # p /\ proc'[q] = proc[q] /\ frozen' = frozen
    BY <1>3, SigkillOne DEF Sigkill
  <2>2. since[g] \in {"thawed", "strayed"}
    BY <1>1, <2>1 DEF Alive
  <2>3. Alive(p) => frozen[g] # proc[p].id
    BY <2>1 DEF Numbered, Alive
  <2> QED
    BY <1>3, <2>2, <2>3, SigkillOne
<1>4. ASSUME NEW h \in Handler, NEW p \in Pid, Freeze(h, p) PROVE Goal
  <2>0. /\ proc'[p].stopped = TRUE /\ \A r \in Pid : r # p => proc'[r] = proc[r]
        /\ frozen'[h] = proc[p].id /\ \A k \in Handler : k # h => frozen'[k] = frozen[k]
    <3>1. proc'[p].stopped = TRUE /\ \A r \in Pid : r # p => proc'[r] = proc[r]
      BY <1>4, FreezeStops
    <3>2. frozen'[h] = proc[p].id /\ \A k \in Handler : k # h => frozen'[k] = frozen[k]
      BY <1>4, FreezeHandler
    <3> QED
      BY <3>1, <3>2
  <2>1. q # p /\ proc'[q] = proc[q]
    BY <2>0
  <2>2. g # h
    <3>1. ASSUME g = h PROVE frozen'[g] = proc[p].id /\ Alive(p)
      BY <1>4, <2>0, <3>1 DEF Freeze
    <3> QED
      BY <2>1, <3>1 DEF Numbered, Alive
  <2>3. frozen'[g] = frozen[g]
    BY <2>0, <2>2
  <2>4. since' = since
    BY <1>4 DEF Freeze
  <2> QED
    BY <1>1, <2>1, <2>3, <2>4 DEF Alive
<1>5. ASSUME NEW h \in Handler, Resume(h) PROVE Goal
  <2>1. g # h /\ frozen'[g] = frozen[g]
    <3>1. frozen' = [frozen EXCEPT ![h] = 0]
      BY <1>5, ResumeOne
    <3> QED
      BY <3>1 DEF TypeOK
  <2>2. subject[h] \in Pid /\ Alive(subject[h]) /\ handler[h] = "cleared"
    BY <1>5, ResumeOne DEF Resume
  <2>3. CASE q = subject[h]
    <3>0. proc[q] \in Process /\ proc' = [proc EXCEPT ![q].stopped = FALSE]
      BY <1>5, <2>3, ResumeOne
    <3>1. proc'[q].id = proc[q].id
      BY <3>0 DEF TypeOK, Process
    <3>2. frozen[g] # 0 /\ frozen[g] = proc[subject[h]].id
      BY <2>1, <2>3, <3>1
    <3>3. h \in stale[g] \/ g \in signed[h]
      BY <2>1, <2>2, <3>2 DEF Signatures
    <3> QED
      BY <1>5, <2>1, <3>2, <3>3, ResumeOne
  <2>4. CASE q # subject[h]
    <3>1. proc'[q] = proc[q]
      BY <1>5, <2>4, ResumeOne DEF TypeOK
    <3>2. Alive(q) /\ proc[q].id = frozen[g]
      BY <2>1, <3>1 DEF Alive
    <3>3. frozen[g] # proc[subject[h]].id
      BY <2>2, <2>4, <3>2 DEF Numbered
    <3>4. since'[g] = since[g]
      BY <1>5, <2>1, <3>3, ResumeOne
    <3> QED
      BY <1>1, <2>1, <3>1, <3>2, <3>4
  <2> QED
    BY <2>3, <2>4
<1>6. ASSUME UNCHANGED <<proc, frozen, since>> PROVE Goal
  BY <1>1, <1>6 DEF Alive
<1>7. ASSUME NEW h \in Handler, NEW p \in Pid, FreezeFails(h, p) PROVE Goal
  BY <1>6, <1>7 DEF FreezeFails, kernel
<1>8. ASSUME NEW h \in Handler, Press(h) \/ Quit(h) PROVE Goal
  BY <1>6, <1>8 DEF Press, Quit, kernel
<1>9. ASSUME NEW h \in Handler, ResumeRaises(h) PROVE Goal
  <2>1. g # h /\ frozen'[g] = frozen[g] /\ since'[g] = since[g] /\ proc' = proc
    <3>1. h \in signed[h]
      BY <1>9 DEF ResumeRaises, Asleep
    <3> QED
      BY <1>9, <3>1 DEF ResumeRaises, Forget, kernel, TypeOK
  <2> QED
    BY <1>1, <2>1 DEF Alive
<1>10. ASSUME NEW x \in listed, KillListed(x) PROVE Goal
  BY <1>3, <1>10 DEF KillListed, Signal9, TypeOK
<1> HIDE DEF Goal
<1>11. CASE KernelStep
  BY <1>2, <1>3, <1>11, QuietSteps DEF KernelStep, Kill, Goal
<1>12. CASE CaepStep
  BY <1>4, <1>5, <1>7, <1>8, <1>9, <1>12 DEF CaepStep, Goal
<1>13. CASE SsfStep
  BY <1>2, <1>10, <1>13, QuietSteps DEF SsfStep, Goal
<1>14. CASE UNCHANGED vars
  BY <1>2, <1>14, QuietSteps DEF Goal
<1> QED
  BY <1>11, <1>12, <1>13, <1>14 DEF Next, Goal

(***************************************************************************)
(* pkill.                                                                  *)
(***************************************************************************)
\* Whom the event is about is found by the look at /proc, and is listed until it is signalled.
Listing ==
  /\ revoker = "called" =>
       \A p \in Pid : proc[p].id \in due => proc[p].kind = "verifier" /\ revokes = "empty"
  /\ revoker = "signalling" => \A p \in Pid : proc[p].id \in due => <<p, proc[p].id>> \in listed
  /\ revoker = "called" => revokes # "none"
  /\ revoker # "signalling" => listed = {}
  /\ \A p \in Pid : Alive(p) /\ <<p, proc[p].id>> \in listed =>
       proc[p].kind # "command" \/ revokes = "operators"

LEMMA ListingStep == TypeOK /\ TypeOK' /\ Numbered /\ Asleep /\ Listing /\ [Next]_vars => Listing'
<1> SUFFICES ASSUME TypeOK, TypeOK', Numbered, Asleep, Listing, [Next]_vars PROVE Listing'
  OBVIOUS
<1> USE NobodyHasNoId
<1>1. \A p \in Pid : proc'[p] = Nobody \/ Survives(p) \/ Begun(p)
  BY Identities
<1>2. 0 \notin due /\ born + 1 \notin due /\ born \in Nat
      /\ \A p \in Pid : <<p, born + 1>> \notin listed
  BY MaxBornAssumption DEF TypeOK
<1>3. ASSUME NEW p \in Pid, proc'[p].id \in due PROVE Survives(p)
  BY <1>1, <1>2, <1>3 DEF Begun
<1>4. ASSUME NEW p \in Pid, proc'[p] # Nobody, <<p, proc'[p].id>> \in listed PROVE Survives(p)
  BY <1>1, <1>2, <1>4 DEF Begun
<1>5. ASSUME UNCHANGED ssf PROVE Listing'
  <2>1. revoker' = revoker /\ revokes' = revokes /\ listed' = listed /\ due' = due
    BY <1>5 DEF ssf
  <2>2. ASSUME NEW p \in Pid, revoker = "called", proc'[p].id \in due
        PROVE  proc'[p].kind = "verifier" /\ revokes = "empty"
    BY <1>3, <2>2 DEF Listing, Survives, KindKept
  <2>3. ASSUME NEW p \in Pid, revoker = "signalling", proc'[p].id \in due
        PROVE  <<p, proc'[p].id>> \in listed
    BY <1>3, <2>3 DEF Listing, Survives
  <2>4. ASSUME NEW p \in Pid, proc'[p] # Nobody, <<p, proc'[p].id>> \in listed
        PROVE  proc'[p].kind # "command" \/ revokes = "operators"
    BY <1>4, <2>4 DEF Listing, Survives, KindKept
  <2> QED
    BY <2>1, <2>2, <2>3, <2>4 DEF Listing, Alive
<1>6. ASSUME NEW e \in Event, Receive(e) PROVE Listing'
  <2>1. proc' = proc /\ listed' = listed /\ revoker' = "called" /\ revokes' = Identifier(e)
        /\ due' = (IF e = "empty" THEN {proc[p].id : p \in Verifiers} ELSE {})
        /\ revokes' # "none" /\ listed = {}
    BY <1>6 DEF Receive, Listing, kernel
  <2>2. ASSUME NEW p \in Pid, proc[p].id \in due'
        PROVE  proc[p].kind = "verifier" /\ revokes' = "empty"
    <3>1. e = "empty" /\ Identifier(e) = "empty"
      BY <2>1, <2>2 DEF Identifier
    <3>2. PICK q \in Verifiers : proc[p].id = proc[q].id
      BY <2>1, <2>2, <3>1
    <3>3. Alive(p)
      BY <3>2 DEF Verifiers, Alive, TypeOK, Process
    <3>4. p \in Verifiers
      BY <3>2, <3>3 DEF Numbered, Verifiers
    <3> QED
      BY <2>1, <3>1, <3>4 DEF Verifiers
  <2> QED
    BY <2>1, <2>2 DEF Listing, Alive
<1>7. CASE Scan
  <2>1. /\ proc' = proc /\ due' = due /\ revokes' = revokes
        /\ revoker = "called" /\ revoker' = "signalling"
    BY <1>7 DEF Scan, kernel
  <2>2. PICK found \in Matches : listed' = {<<p, proc[p].id>> : p \in found}
    BY <1>7 DEF Scan
  <2>3. ASSUME NEW p \in Pid, proc[p].id \in due PROVE <<p, proc[p].id>> \in listed'
    <3>1. proc[p].kind = "verifier" /\ revokes = "empty" /\ Alive(p)
      BY <1>2, <2>1, <2>3 DEF Listing, Alive
    <3>2. p \in found
      BY <3>1, Matched DEF Verifiers
    <3> QED
      BY <2>2, <3>2
  <2>4. ASSUME NEW p \in Pid, <<p, proc[p].id>> \in listed'
        PROVE  proc[p].kind # "command" \/ revokes = "operators"
    <3>1. p \in found
      BY <2>2, <2>4
    <3>2. revokes \in {"plain", "operators", "empty"}
      BY <2>1 DEF Listing, TypeOK
    <3> QED
      BY <3>1, <3>2, Matched
  <2> QED
    BY <2>1, <2>3, <2>4 DEF Listing
<1>8. CASE PkillFails \/ Accepted
  BY <1>8 DEF PkillFails, Accepted, kernel, Listing, Alive
<1>9. ASSUME NEW x \in listed, KillListed(x) PROVE Listing'
  <2>1. x[1] \in Pid /\ x = <<x[1], x[2]>> /\ Sigkill(x[1])
        /\ revoker' = "signalling" /\ listed' = listed \ {x} /\ due' = due /\ revokes' = revokes
    BY <1>9 DEF TypeOK, KillListed, Signal9
  <2>2. proc'[x[1]] = Nobody
    BY <2>1, SigkillOne
  <2>3. ASSUME NEW p \in Pid, proc'[p].id \in due PROVE <<p, proc'[p].id>> \in listed'
    <3>1. p # x[1]
      BY <1>2, <2>2, <2>3
    <3>2. <<p, proc'[p].id>> \in listed
      BY <1>3, <1>9, <2>3 DEF Listing, Survives, KillListed
    <3> QED
      BY <2>1, <3>1, <3>2
  <2>4. ASSUME NEW p \in Pid, proc'[p] # Nobody, <<p, proc'[p].id>> \in listed'
        PROVE  proc'[p].kind # "command" \/ revokes = "operators"
    BY <1>4, <2>1, <2>4 DEF Listing, Survives, KindKept
  <2> QED
    BY <2>1, <2>3, <2>4 DEF Listing, Alive
<1>10. CASE KernelStep
  BY <1>5, <1>10
     DEF KernelStep, Spawn, Fork, Thread, Exec, Execveat, Exit, Kill, MonitorPid, Fill, Attach, MonitorEnds
<1>11. CASE CaepStep
  BY <1>5, <1>11 DEF CaepStep, Freeze, FreezeFails, Press, Quit, Resume, ResumeRaises
<1>12. CASE SsfStep
  BY <1>6, <1>7, <1>8, <1>9, <1>12 DEF SsfStep
<1>13. CASE UNCHANGED vars
  BY <1>5, <1>13 DEF vars
<1> QED
  BY <1>10, <1>11, <1>12, <1>13 DEF Next

(***************************************************************************)
(* The execve hook.                                                        *)
(***************************************************************************)
\* An entry that is no stale one is of a watched process and knows whether it called execve;
\* a watched process that was not dropped has such an entry, and has executed one program
\* at most.
WatchedOne(p) ==
  /\ ~proc[p].heir /\ table[p] # "none" =>
       /\ proc[p].watched /\ ~proc[p].dropped
       /\ table[p] = "counted" => proc[p].starts > 0 \/ proc[p].missed
  /\ proc[p].watched /\ ~proc[p].dropped /\ hooks = "all" =>
       /\ table[p] # "none" /\ proc[p].starts <= 1
       /\ table[p] = "zero" => proc[p].starts = 0 /\ ~proc[p].missed
  /\ hooks = "none" => ~proc[p].watched

Watched ==
  /\ \A p \in Pid : Alive(p) => WatchedOne(p)
  /\ hooks = "none" => \A p \in Pid : table[p] = "none"

\* A process whose history, entry and hooks are as they were.
SameWatch(p) ==
  /\ proc'[p].heir = proc[p].heir /\ proc'[p].watched = proc[p].watched
  /\ proc'[p].dropped = proc[p].dropped /\ proc'[p].starts = proc[p].starts
  /\ proc'[p].missed = proc[p].missed
  /\ table'[p] = table[p]

LEMMA WatchKept ==
  ASSUME Watched, hooks' = hooks,
         \A p \in Pid : proc'[p] # Nobody => WatchedOne(p)' \/ (Alive(p) /\ SameWatch(p)),
         hooks = "none" => \A p \in Pid : table'[p] = table[p]
  PROVE  Watched'
<1>1. ASSUME NEW p \in Pid, Alive(p), SameWatch(p) PROVE WatchedOne(p)'
  BY <1>1 DEF Watched, WatchedOne, SameWatch
<1> QED
  BY <1>1 DEF Watched, Alive

LEMMA WatchStep == TypeOK /\ TypeOK' /\ Asleep /\ Watched /\ [Next]_vars => Watched'
<1> SUFFICES ASSUME TypeOK, TypeOK', Asleep, Watched, [Next]_vars PROVE Watched'
  OBVIOUS
<1> USE NobodyHasNoId
<1>1. ASSUME NEW p \in Pid, NEW k \in Kind, Spawn(p, k) PROVE Watched'
  <2>1. table' = table /\ hooks' = hooks /\ \A q \in Pid : q # p => proc'[q] = proc[q]
    BY <1>1 DEF Spawn, Starts, TypeOK
  <2>2. proc'[p] = [id |-> born + 1, kind |-> k, stopped |-> FALSE, watched |-> FALSE,
                    dropped |-> FALSE, starts |-> 0, missed |-> FALSE, heir |-> table[p] # "none"]
    BY <1>1 DEF Spawn, Starts, TypeOK
  <2>3. WatchedOne(p)'
    <3>1. proc'[p].watched = FALSE /\ proc'[p].heir = (table[p] # "none")
      BY <2>2
    <3> QED
      BY <2>1, <3>1 DEF WatchedOne
  <2> QED
    BY <2>1, <2>3, WatchKept DEF SameWatch, Alive
<1>2. ASSUME NEW p \in Pid, NEW c \in Pid, NEW e \in Entry, Fork(p, c, e) PROVE Watched'
  <2>1. hooks' = hooks /\ Alive(p) /\ (hooks = "none" => e = "none")
    BY <1>2 DEF Fork, Running
  <2>2. /\ proc[p] \in Process /\ proc[c] = Nobody
        /\ \A q \in Pid : q # c => proc'[q] = proc[q]
    BY <1>2, Child
  <2>3. /\ proc'[c].watched = proc[p].watched
        /\ proc'[c].starts = proc[p].starts /\ proc'[c].missed = proc[p].missed
        /\ proc'[c].dropped = (proc[p].watched /\ (proc[p].dropped \/ ~Own(p, c, e)))
        /\ proc'[c].heir = IF Own(p, c, e) THEN proc[p].heir ELSE Copied(c, e) \/ table[c] # "none"
    BY <1>2, Child
  <2>4. table' = IF Copied(c, e) THEN [table EXCEPT ![c] = e] ELSE table
    BY <1>2, Child
  <2>5. /\ table'[c] = IF Copied(c, e) THEN e ELSE table[c]
        /\ \A q \in Pid : q # c => table'[q] = table[q]
        /\ ~Copied(c, e) => table' = table
    BY <2>4 DEF TypeOK
  <2>6. WatchedOne(p)
    BY <2>1 DEF Watched
  <2>7. WatchedOne(c)'
    <3>1. CASE Own(p, c, e)
      BY <2>1, <2>2, <2>3, <2>5, <2>6, <3>1 DEF WatchedOne, Own, Process
    <3>2. CASE ~Own(p, c, e) /\ Copied(c, e)
      BY <2>1, <2>2, <2>3, <2>5, <2>6, <3>2 DEF WatchedOne, Process
    <3>3. CASE ~Own(p, c, e) /\ ~Copied(c, e)
      BY <2>1, <2>2, <2>3, <2>5, <2>6, <3>3 DEF WatchedOne, Process
    <3> QED
      BY <3>1, <3>2, <3>3
  <2>8. hooks = "none" => table' = table
    BY <2>1, <2>5 DEF Copied
  <2> QED
    BY <2>1, <2>2, <2>5, <2>7, <2>8, WatchKept DEF SameWatch, Alive
<1>2a. ASSUME NEW p \in Pid, NEW c \in Pid, NEW e \in Entry, Thread(p, c, e) PROVE Watched'
  <2>1. /\ proc' = proc /\ hooks' = hooks /\ hooks # "none" /\ ~Alive(c)
        /\ \A q \in Pid : q # c => table'[q] = table[q]
    BY <1>2a DEF Thread, TypeOK
  <2> QED
    BY <2>1, WatchKept DEF SameWatch, Alive
<1>3. ASSUME NEW p \in Pid, Exec(p) PROVE Watched'
  <2>1. Alive(p) /\ proc[p] \in Process /\ WatchedOne(p) /\ hooks' = hooks
    BY <1>3 DEF Exec, Running, Alive, Watched, TypeOK
  <2>2. /\ table'[p] = IF Counts(p) THEN "counted" ELSE table[p]
        /\ \A q \in Pid : q # p => table'[q] = table[q]
        /\ ~Counts(p) => table' = table
    BY <1>3 DEF Exec, TypeOK
  <2>3. \A q \in Pid : q # p => proc'[q] = proc[q]
    BY <1>3, <2>1, Executing
  <2>4. CASE proc'[p] = Nobody
    BY <2>1, <2>2, <2>3, <2>4, WatchKept DEF SameWatch, Alive, Counts
  <2>5. CASE proc'[p] # Nobody
    <3>1. /\ ~KilledAtExec(p) /\ proc'[p].heir = proc[p].heir
          /\ proc'[p].watched = proc[p].watched /\ proc'[p].dropped = proc[p].dropped
          /\ ~OnRecord(p) =>
               proc'[p].missed = proc[p].missed /\ proc'[p].starts = proc[p].starts
          /\ OnRecord(p) =>
               \/ /\ proc'[p].missed = proc[p].missed
                  /\ proc[p].starts = 0 => proc'[p].starts = 1
               \/ proc'[p].missed /\ proc'[p].starts = proc[p].starts
      BY <1>3, <2>1, <2>5, Executing
    <3>2. CASE ~OnRecord(p)
      <4>2. /\ proc'[p].missed = proc[p].missed /\ proc'[p].starts = proc[p].starts
        BY <3>1, <3>2
      <4>3. WatchedOne(p)'
        BY <2>1, <2>2, <3>1, <3>2, <4>2 DEF WatchedOne, OnRecord, Counts, Process
      <4> QED
        BY <2>1, <2>2, <2>3, <4>3, WatchKept DEF SameWatch, Alive, Counts
    <3>3. CASE OnRecord(p)
      <4>1. table[p] = "zero" /\ Counts(p) /\ proc[p].starts = 0 /\ ~proc[p].missed
        BY <2>1, <3>1, <3>3 DEF KilledAtExec, Counts, OnRecord, WatchedOne, TypeOK, Entry
      <4>2. /\ proc'[p].watched /\ ~proc'[p].dropped /\ table'[p] = "counted" /\ hooks' # "none"
        BY <2>1, <2>2, <3>1, <3>3, <4>1 DEF OnRecord
      <4>3. \/ proc'[p].starts = 1
            \/ proc'[p].starts = 0 /\ proc'[p].missed
        BY <3>1, <3>3, <4>1
      <4>4. WatchedOne(p)'
        BY <4>2, <4>3 DEF WatchedOne
      <4> QED
        BY <2>1, <2>2, <2>3, <4>4, WatchKept DEF SameWatch, Alive, Counts
    <3> QED
      BY <3>2, <3>3
  <2> QED
    BY <2>4, <2>5
<1>3a. ASSUME NEW p \in Pid, Execveat(p) PROVE Watched'
  <2>1. proc[p] \in Process /\ UNCHANGED <<hooks, table>>
    BY <1>3a DEF Execveat, Running, Alive, TypeOK
  <2>2. PICK k \in Recast(proc[p].kind) : proc' = [proc EXCEPT ![p].kind = k]
    BY <1>3a DEF Execveat
  <2>3. k \in Kind
    BY <2>1, Recasting DEF Process
  <2>4. proc'[p] = [proc[p] EXCEPT !.kind = k] /\ \A q \in Pid : q # p => proc'[q] = proc[q]
    BY <2>2 DEF TypeOK
  <2>5. Alive(p) /\ SameWatch(p)
    BY <1>3a, <2>1, <2>3, <2>4, Kinds DEF SameWatch, Execveat, Running
  <2> QED
    BY <2>1, <2>4, <2>5, WatchKept DEF SameWatch, Alive
<1>4. ASSUME NEW p \in Pid, MonitorPid(p) PROVE Watched'
  <2>1. hooks # "none" /\ hooks' = hooks /\ table'[p] = "zero"
        /\ \A q \in Pid : q # p => table'[q] = table[q] /\ proc'[q] = proc[q]
    BY <1>4 DEF MonitorPid, TypeOK
  <2>2. CASE Alive(p)
    <3>1. proc[p] \in Process /\ proc'[p] = [Unwatched(proc[p]) EXCEPT !.watched = TRUE]
      BY <1>4, <2>2 DEF MonitorPid, Alive, TypeOK
    <3>2. /\ Unwatched(proc[p]) \in Process /\ Unwatched(proc[p]).starts = 0
          /\ Unwatched(proc[p]).dropped = FALSE /\ Unwatched(proc[p]).missed = FALSE
      BY <3>1, Unwatching, FreshHistory
    <3>3. /\ proc'[p].watched = TRUE /\ proc'[p].starts = 0
          /\ proc'[p].dropped = FALSE /\ proc'[p].missed = FALSE
      BY <3>1, <3>2 DEF Process
    <3>4. WatchedOne(p)'
      BY <2>1, <3>3 DEF WatchedOne
    <3> QED
      BY <2>1, <3>4, WatchKept DEF SameWatch, Alive
  <2>3. CASE ~Alive(p)
    <3>1. proc' = proc
      BY <1>4, <2>3 DEF MonitorPid
    <3> QED
      BY <2>1, <2>3, <3>1, WatchKept DEF SameWatch, Alive
  <2> QED
    BY <2>2, <2>3
<1>5. CASE MonitorEnds
  <2>1. hooks' = "none" /\ \A p \in Pid : table'[p] = "none"
    BY <1>5 DEF MonitorEnds
  <2>2. ASSUME NEW p \in Pid, proc'[p] # Nobody PROVE proc'[p].watched = FALSE
    <3>1. proc[p] \in Process /\ proc'[p] = Unwatched(proc[p])
      BY <1>5, <2>2 DEF MonitorEnds, Alive, TypeOK
    <3> QED
      BY <3>1 DEF Unwatched, Process
  <2> QED
    BY <2>1, <2>2 DEF Watched, WatchedOne, Alive
<1>6. CASE Attach
  <2>1. hooks = "none" /\ hooks' # "none" /\ proc' = proc /\ table' = table
    BY <1>6 DEF Attach
  <2> QED
    BY <2>1 DEF Watched, WatchedOne, Alive
<1>7. ASSUME UNCHANGED <<hooks, table>>,
             \A p \in Pid : proc'[p] # Nobody => Alive(p) /\ SameWatch(p)
      PROVE  Watched'
  BY <1>7, WatchKept
<1>8. ASSUME UNCHANGED <<hooks, table>>, NEW p \in Pid, NEW b \in BOOLEAN, Alive(p),
             proc' = [proc EXCEPT ![p].stopped = b]
      PROVE  Watched'
  <2>1. proc[p] \in Process /\ \A q \in Pid : q # p => proc'[q] = proc[q]
    BY <1>8 DEF TypeOK, Alive
  <2>2. SameWatch(p)
    BY <1>8, <2>1 DEF SameWatch, Process, TypeOK
  <2> QED
    BY <1>7, <1>8, <2>1, <2>2 DEF SameWatch, Alive
<1>9. ASSUME UNCHANGED <<hooks, table>>, NEW p \in Pid, proc' = [proc EXCEPT ![p] = Nobody]
      PROVE  Watched'
  BY <1>7, <1>9 DEF SameWatch, Alive, TypeOK
<1>10. ASSUME UNCHANGED <<proc, hooks, table>> PROVE Watched'
  BY <1>7, <1>10 DEF SameWatch, Alive
<1>11. CASE KernelStep
  <2>1. ASSUME NEW p \in Pid, Exit(p) \/ Kill(p) PROVE Watched'
    BY <1>9, <2>1 DEF Exit, Kill, Sigkill
  <2>2. CASE Fill
    BY <1>10, <2>2 DEF Fill
  <2> QED
    BY <1>1, <1>2, <1>2a, <1>3, <1>3a, <1>4, <1>5, <1>6, <1>11, <2>1, <2>2 DEF KernelStep
<1>12. CASE CaepStep
  <2>1. ASSUME NEW h \in Handler, NEW p \in Pid, Freeze(h, p) PROVE Watched'
    BY <1>8, <2>1 DEF Freeze
  <2>2. ASSUME NEW h \in Handler, Resume(h) PROVE Watched'
    <3>1. subject[h] \in Pid /\ Alive(subject[h]) /\ UNCHANGED <<hooks, table>>
          /\ proc' = [proc EXCEPT ![subject[h]].stopped = FALSE]
      BY <2>2 DEF Resume, Asleep, Aimed
    <3> QED
      BY <1>8, <3>1
  <2>3. ASSUME NEW h \in Handler, NEW p \in Pid, FreezeFails(h, p) PROVE Watched'
    BY <1>10, <2>3 DEF FreezeFails, kernel
  <2>4. ASSUME NEW h \in Handler, Press(h) \/ Quit(h) \/ ResumeRaises(h) PROVE Watched'
    BY <1>10, <2>4 DEF Press, Quit, ResumeRaises, kernel
  <2> QED
    BY <1>12, <2>1, <2>2, <2>3, <2>4 DEF CaepStep
<1>13. CASE SsfStep
  <2>1. ASSUME NEW x \in listed, KillListed(x) PROVE Watched'
    BY <1>9, <2>1 DEF KillListed, Signal9, Sigkill, TypeOK
  <2>2. ASSUME NEW e \in Event, Receive(e) PROVE Watched'
    BY <1>10, <2>2 DEF Receive, kernel
  <2>3. CASE Scan \/ PkillFails \/ Accepted
    BY <1>10, <2>3 DEF Scan, PkillFails, Accepted, kernel
  <2> QED
    BY <1>13, <2>1, <2>2, <2>3 DEF SsfStep
<1>14. CASE UNCHANGED vars
  BY <1>10, <1>14 DEF vars, kernel
<1> QED
  BY <1>11, <1>12, <1>13, <1>14 DEF Next

\* The inductive invariant.
IInv ==
  TypeOK /\ Numbered /\ Asleep /\ Signatures /\ FrozenUntilSigned /\ Listing /\ Watched

LEMMA InitInv == Init => IInv
<1> SUFFICES ASSUME Init PROVE IInv
  OBVIOUS
<1>1. TypeOK
  BY TypeInit
<1>2. \A p \in Pid : proc[p] = Nobody /\ table[p] = "none"
  BY DEF Init
<1>3. \A h \in Handler : handler[h] = "idle" /\ frozen[h] = 0
  BY DEF Init
<1>4. revoker = "idle" /\ listed = {}
  BY DEF Init
<1>5. Numbered /\ Asleep /\ Signatures /\ FrozenUntilSigned /\ Listing /\ Watched
  BY <1>2, <1>3, <1>4, NobodyHasNoId
     DEF Numbered, Asleep, Aimed, Signatures, FrozenUntilSigned, Running, Listing, Watched, Alive, Init
<1> QED
  BY <1>1, <1>5 DEF IInv

LEMMA StepInv == IInv /\ [Next]_vars => IInv'
<1> SUFFICES ASSUME IInv, [Next]_vars PROVE IInv'
  OBVIOUS
<1>1. TypeOK'
  BY TypeStep DEF IInv, Asleep
<1> QED
  BY <1>1, NumberedStep, AsleepStep, SignaturesStep, FrozenStep, ListingStep, WatchStep DEF IInv

LEMMA Invariant == Spec => []IInv
BY InitInv, StepInv, PTL DEF Spec

\* Every variable keeps its type: no number is given twice past the bound, and handlers and
\* pkill know only numbers that were given.
THEOREM ContainmentTypes == Spec => []TypeOK
BY Invariant, PTL DEF IInv

\* A frozen process runs again only on a signature for it that came after the freeze, or on
\* one of a prompt that was there before it, for any number of handlers with prompts open
\* for one pid and however often that pid is used again (handle_caep_anomaly).
THEOREM SleepsUntilSigned == Spec => []FrozenUntilSigned
BY Invariant, PTL DEF IInv

\* No two prompts are open for one pid.
Prompting(h) == handler[h] \in {"asking", "cleared"}
OnePrompt == \A g, h \in Handler : Prompting(g) /\ Prompting(h) /\ subject[g] = subject[h] => g = h

SignedAfterFreeze ==
  \A h \in Handler, p \in Pid :
    frozen[h] # 0 /\ proc[p].id = frozen[h] /\ Running(p) => since[h] = "thawed"

\* Then no signature is older than a freeze it undoes, nor for an earlier process.
NoneStrays == \A h \in Handler : stale[h] = {} /\ since[h] # "strayed"

LEMMA NoneStraysStep == TypeOK /\ NoneStrays /\ [Next]_vars /\ OnePrompt' => NoneStrays'
<1> SUFFICES ASSUME TypeOK, NoneStrays, [Next]_vars, OnePrompt' PROVE NoneStrays'
  OBVIOUS
<1>1. ASSUME UNCHANGED <<stale, since>> PROVE NoneStrays'
  BY <1>1 DEF NoneStrays
<1>2. ASSUME NEW p \in Pid, Sigkill(p) PROVE NoneStrays'
  BY <1>2, SigkillOne DEF NoneStrays
<1>3. ASSUME NEW h \in Handler, NEW p \in Pid, Freeze(h, p) PROVE NoneStrays'
  <2>1. /\ handler[h] = "idle" /\ handler'[h] = "asking" /\ subject'[h] = p
        /\ \A g \in Handler : g # h => handler'[g] = handler[g] /\ subject'[g] = subject[g]
    BY <1>3, FreezeHandler DEF Freeze
  <2>2. Prior(p) = {}
    BY <2>1 DEF Prior, OnePrompt, Prompting
  <2>3. since' = since /\ stale' = [stale EXCEPT ![h] = {}]
    BY <1>3, <2>2 DEF Freeze
  <2> QED
    BY <2>3 DEF NoneStrays, TypeOK
<1>4. ASSUME NEW h \in Handler, Resume(h) PROVE NoneStrays'
  BY <1>4 DEF Resume, SeenToRun, Forget, NoneStrays, TypeOK
<1>5. ASSUME NEW h \in Handler, ResumeRaises(h) PROVE NoneStrays'
  BY <1>5 DEF ResumeRaises, Forget, NoneStrays, TypeOK
<1>6. CASE KernelStep
  <2>1. ASSUME NEW p \in Pid, Kill(p) PROVE NoneStrays'
    BY <1>2, <2>1 DEF Kill
  <2>2. CASE UNCHANGED caep
    BY <1>1, <2>2 DEF caep
  <2> QED
    BY <1>6, <2>1, <2>2 DEF KernelStep, Spawn, Fork, Thread, Exec, Execveat, Exit, MonitorPid,
       Fill, Attach, MonitorEnds
<1>7. CASE CaepStep
  <2>1. ASSUME NEW h \in Handler, Press(h) \/ Quit(h) \/ \E p \in Pid : FreezeFails(h, p)
        PROVE  NoneStrays'
    BY <1>1, <2>1 DEF Press, Quit, FreezeFails
  <2> QED
    BY <1>3, <1>4, <1>5, <1>7, <2>1 DEF CaepStep
<1>8. CASE SsfStep
  <2>1. ASSUME NEW x \in listed, KillListed(x) PROVE NoneStrays'
    BY <1>2, <2>1 DEF KillListed, Signal9, TypeOK
  <2>2. CASE UNCHANGED caep
    BY <1>1, <2>2 DEF caep
  <2> QED
    BY <1>8, <2>1, <2>2 DEF SsfStep, Receive, Scan, PkillFails, Accepted
<1>9. CASE UNCHANGED vars
  BY <1>1, <1>9 DEF vars, caep
<1> QED
  BY <1>6, <1>7, <1>8, <1>9 DEF Next

\* As long as no two prompts are open for one pid there is no exception: whatever a handler
\* froze runs again only on a signature that came after that freeze, also when it was frozen
\* before by handlers that got no answer (handle_caep_anomaly).
THEOREM OnePromptSuffices == Spec /\ []OnePrompt => []SignedAfterFreeze
<1>1. Init => NoneStrays
  BY DEF Init, NoneStrays
<1>2. IInv /\ NoneStrays /\ [Next]_vars /\ OnePrompt' => NoneStrays'
  BY NoneStraysStep DEF IInv
<1>3. IInv /\ NoneStrays => SignedAfterFreeze
  BY DEF IInv, NoneStrays, FrozenUntilSigned, SignedAfterFreeze
<1> QED
  BY Invariant, <1>1, <1>2, <1>3, PTL DEF Spec

\* resume_execution continues the process its handler froze, or that one was killed in its
\* sleep or ran on another handler's signature: there is no third way to miss it.
THEOREM ResumesItsOwn == Spec => ContinuesItsOwn
<1>1. IInv => [\A h \in Handler : Resume(h) =>
                 proc[subject[h]].id = frozen[h] \/ since[h] # "asleep"]_vars
  BY DEF IInv, Asleep, Resume
<1> QED
  BY Invariant, <1>1, PTL DEF ContinuesItsOwn

\* A watched process and those it forks start one program by execve along each line of
\* descent, for any sequence of forks, failed calls, attachments and stale entries, unless the
\* count was lost: the hash was full, or the thread that forked had not its process's entry.
THEOREM OneProgramEach == Spec => []OneProgram
<1>1. ASSUME IInv, NEW p \in Pid, Alive(p), proc[p].watched, hooks = "all", ~proc[p].dropped
      PROVE  proc[p].starts <= 1
  BY <1>1 DEF IInv, Watched, WatchedOne
<1>2. IInv => OneProgram
  BY <1>1 DEF OneProgram
<1> QED
  BY Invariant, <1>2, PTL

\* Whom restrict_execve ends has called execve since it was watched, or has a stale entry.
THEOREM HookSpares == Spec => HookSparesOthers
<1>1. ASSUME IInv, TypeOK', NEW p \in Pid, Exec(p), proc'[p] = Nobody
      PROVE  \/ proc[p].watched /\ (proc[p].starts > 0 \/ proc[p].missed)
             \/ proc[p].heir
  <2>1. proc[p] \in Process /\ WatchedOne(p)
    BY <1>1 DEF IInv, Watched, Exec, Running, Alive, TypeOK
  <2>2. KilledAtExec(p)
    <3>1. SUFFICES ASSUME ~KilledAtExec(p) PROVE FALSE
      OBVIOUS
    <3> QED
      BY <1>1, <2>1, <3>1, Executing, NobodyHasNoId DEF IInv
  <2>3. table[p] = "counted"
    BY <2>2 DEF KilledAtExec
  <2> QED
    BY <2>1, <2>3 DEF WatchedOne
<1>2. IInv /\ TypeOK' => [\A p \in Pid : Exec(p) /\ proc'[p] = Nobody =>
                 \/ proc[p].watched /\ (proc[p].starts > 0 \/ proc[p].missed)
                 \/ proc[p].heir]_vars
  BY <1>1
<1>3. IInv => TypeOK
  BY DEF IInv
<1> QED
  BY Invariant, <1>2, <1>3, PTL DEF HookSparesOthers

\* Once an event without a name is answered, none of the verifiers that ran when it came is
\* left, for any number of them and whoever starts or gets their pids meanwhile.
THEOREM RevokedEnd == Spec => RevokedVerifiersEnd
<1>1. ASSUME IInv, Accepted, revoker # "failed", NEW p \in Pid PROVE proc[p].id \notin due
  BY <1>1 DEF IInv, Listing, Accepted
<1>2. IInv => [Accepted /\ revoker # "failed" => \A p \in Pid : proc[p].id \notin due]_vars
  BY <1>1
<1> QED
  BY Invariant, <1>2, PTL DEF RevokedVerifiersEnd

\* Whatever starts, ends and gets a pid between the look at /proc and the signals, and however
\* often a process changes its command line meanwhile: pkill ends none that never mentioned
\* the verifier, but for a pid that was used again or a subject that is a regular expression.
THEOREM PkillSpares == Spec => PkillSparesCommands
<1>1. ASSUME IInv, NEW x \in listed, Alive(x[1]), proc[x[1]].id = x[2]
      PROVE  proc[x[1]].kind # "command" \/ revokes = "operators"
  <2>1. x[1] \in Pid /\ x = <<x[1], x[2]>>
    BY <1>1 DEF IInv, TypeOK
  <2> QED
    BY <1>1, <2>1 DEF IInv, Listing
<1>2. IInv => [\A x \in listed : KillListed(x) /\ Alive(x[1]) =>
                 \/ proc[x[1]].kind # "command"
                 \/ proc[x[1]].id # x[2]
                 \/ revokes = "operators"]_vars
  BY <1>1
<1> QED
  BY Invariant, <1>2, PTL DEF PkillSparesCommands
==============================================================================
