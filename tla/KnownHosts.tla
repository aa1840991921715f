------------------------------ MODULE KnownHosts ------------------------------
(***************************************************************************)
(* Trust on first use (check_server_key in ssh_core.rs): the controllers   *)
(* of one user share the file known_hosts.  save_host_key appends a line   *)
(* with writeln! on an unbuffered file, which is one write for each piece  *)
(* of the line; each process caches the parsed file under its modification *)
(* time.  Processes overlap, and are killed anywhere.                      *)
(*                                                                         *)
(* A piece is written whole or not at all; hosts present whatever key they *)
(* like.  The user's own edits of the file are left out.                   *)
(***************************************************************************)
EXTENDS Integers, Sequences

CONSTANTS
  Proc,        \* controller processes
  Host,        \* host ids, "[host]:port"
  Key,         \* fingerprints of host keys
  None,        \* no host, no key
  Garbled,     \* a text that is no fingerprint
  Space,       \* the blank that separates a host from its fingerprint
  MaxSessions, \* bound: checks of a server key
  MaxTick      \* bound: ticks of the clock that stamps files

ASSUME NoneAssumption == None \notin Key /\ None # Garbled /\ Garbled \notin Key
\* A host id begins with a bracket, a fingerprint with SHA256.
ASSUME SpaceAssumption == Space \notin Host /\ Host \cap Key = {}
ASSUME BoundsAssumption == MaxSessions \in Nat /\ MaxTick \in Nat

VARIABLES
  pinned,    \* known_hosts, its ended lines: the last text each host has in them
  tail,      \* its last line, not ended yet: a sequence of pieces
  modified,  \* its modification time, NoTime while there is no file
  clock,     \* the file system's clock
  cache,     \* KNOWN_HOSTS_CACHE of each process
  pc,        \* where each process is in check_server_key
  host, key, \* the host id and the fingerprint it checks
  seen,      \* modified_at of load_known_hosts
  sessions,  \* checks begun so far
  shown,     \* history: the keys each host has presented
  before,    \* history: the processes whose host was recorded when their check began
  first,     \* history: the processes in their first check
  readAt     \* history: when each process last read the file

vars == <<pinned, tail, modified, clock, cache, pc, host, key, seen, sessions, shown, before, first,
          readAt>>
fvars == <<pinned, tail, modified>>
hvars == <<shown, before, first, readAt>>

NoTime == -1
Unreadable == -2
Tick == 0..MaxTick

\* The writes of writeln!("{} {}"), one for each piece.
Saving == {"host", "blank", "key", "end"}
After == [host |-> "blank", blank |-> "key", key |-> "end", end |-> "accepted"]
Over == {"accepted", "refused"}

-----------------------------------------------------------------------------
\* parse_known_hosts: a line is trimmed and split at its first blank, the last line of a host
\* wins.  No line is kept with a blank before it (Extend).
Gives(l) ==
  /\ Len(l) > 2
  /\ l[1] \in Host /\ l[2] = Space
  /\ \E i \in 3..Len(l) : l[i] # Space

\* Mutant: the fingerprint is the second word, whatever follows it.
SecondWord(l) == l[3]
Text(l) == IF l[3] \in Key /\ \A i \in 4..Len(l) : l[i] = Space THEN l[3] ELSE Garbled

\* What a line adds to what earlier lines say.
WithLine(m, l) == IF Gives(l) THEN [m EXCEPT ![l[1]] = Text(l)] ELSE m

Known == WithLine(pinned, tail)
Nothing == [h \in Host |-> None]

\* What follows changes nothing that a settled line says: it gives no host, or a garbled text.
Settled(l) ==
  \/ Len(l) > 0 /\ l[1] \notin Host
  \/ Len(l) > 1 /\ l[2] # Space
  \/ \E i \in 4..Len(l) : l[i] # Space

Extend(l, x) == IF Settled(l) \/ (l = <<>> /\ x = Space) THEN l ELSE Append(l, x)

-----------------------------------------------------------------------------
Entries == [Host -> Key \cup {Garbled, None}]

TypeOK ==
  /\ pinned \in Entries /\ tail \in Seq(Host \cup Key \cup {Space})
  /\ modified \in Tick \cup {NoTime}
  /\ clock \in Tick
  /\ cache \in [Proc -> [modified : Tick \cup {NoTime}, entries : Entries]]
  /\ pc \in [Proc -> {"idle", "read", "open"} \cup Saving \cup Over]
  /\ host \in [Proc -> Host \cup {None}] /\ key \in [Proc -> Key \cup {None}]
  /\ seen \in [Proc -> Tick \cup {NoTime}]
  /\ sessions \in 0..MaxSessions
  /\ shown \in [Host -> SUBSET Key] /\ before \subseteq Proc /\ first \subseteq Proc
  /\ readAt \in [Proc -> Tick \cup {NoTime, Unreadable}]

Empty == [modified |-> NoTime, entries |-> Nothing]

Init ==
  /\ pinned = Nothing /\ tail = <<>> /\ modified = NoTime /\ clock = 0
  /\ cache = [p \in Proc |-> Empty]
  /\ pc = [p \in Proc |-> "idle"]
  /\ host = [p \in Proc |-> None] /\ key = [p \in Proc |-> None]
  /\ seen = [p \in Proc |-> NoTime]
  /\ sessions = 0
  /\ shown = [h \in Host |-> {}] /\ before = {} /\ first = {}
  /\ readAt = [p \in Proc |-> NoTime]

Goto(p, l) == pc' = [pc EXCEPT ![p] = l]

\* check_server_key from what load_known_hosts returned: the host is known, or to be saved.
Verdict(p, h, k, entries) ==
  Goto(p, IF entries[h] = None THEN "open" ELSE IF entries[h] = k THEN "accepted" ELSE "refused")

\* Mutant: what has been read once is never read again.
CacheWarm(p) == cache[p].modified # NoTime \/ modified = NoTime
CacheHit(p) == cache[p].modified = modified

\* The host presents a plain key: load_known_hosts takes the file's modification time, and the
\* cached entries if they bear it.
CheckServerKey(p, h, k) ==
  /\ pc[p] \in {"idle"} \cup Over
  /\ sessions < MaxSessions
  /\ sessions' = sessions + 1
  /\ host' = [host EXCEPT ![p] = h]
  /\ key' = [key EXCEPT ![p] = k]
  /\ seen' = [seen EXCEPT ![p] = modified]
  /\ IF CacheHit(p) THEN Verdict(p, h, k, cache[p].entries) ELSE Goto(p, "read")
  /\ shown' = [shown EXCEPT ![h] = @ \cup {k}]
  /\ before' = IF Known[h] # None THEN before \cup {p} ELSE before \ {p}
  /\ first' = IF pc[p] = "idle" THEN first \cup {p} ELSE first \ {p}
  /\ UNCHANGED <<fvars, clock, cache, readAt>>

Load(p, entries, at) ==
  /\ pc[p] = "read"
  /\ cache' = [cache EXCEPT ![p] = [modified |-> seen[p], entries |-> entries]]
  /\ readAt' = [readAt EXCEPT ![p] = at]
  /\ Verdict(p, host[p], key[p], entries)
  /\ UNCHANGED <<fvars, clock, host, key, seen, sessions, shown, before, first>>

Read(p) == Load(p, Known, clock)

\* read_to_string fails: unwrap_or_default reads as an empty file.
ReadFails(p) == Load(p, Nothing, Unreadable)

\* Mutant: opened to be written anew.
OpenAnew == pinned' = Nothing /\ tail' = <<>>
OpenToAppend == UNCHANGED <<pinned, tail>>

\* save_host_key: open (create, append), then the pieces.
Open(p) ==
  /\ pc[p] = "open"
  /\ modified' = IF modified = NoTime THEN clock ELSE modified
  /\ OpenToAppend
  /\ Goto(p, "host")
  /\ UNCHANGED <<clock, cache, host, key, seen, sessions, hvars>>

Piece(p) == [host |-> host[p], blank |-> Space, key |-> key[p]][pc[p]]

Write(p) ==
  /\ pc[p] \in Saving
  /\ IF pc[p] = "end" THEN pinned' = Known /\ tail' = <<>>
     ELSE tail' = Extend(tail, Piece(p)) /\ UNCHANGED pinned
  /\ modified' = clock
  /\ Goto(p, After[pc[p]])
  /\ UNCHANGED <<clock, cache, host, key, seen, sessions, hvars>>

\* The open or a write fails: a warning, and the host is accepted.
SaveFails(p) ==
  /\ pc[p] \in {"open"} \cup Saving
  /\ Goto(p, "accepted")
  /\ UNCHANGED <<fvars, clock, cache, host, key, seen, sessions, hvars>>

\* The process ends or is killed; the next one starts with an empty cache.
End(p) ==
  /\ pc[p] # "idle"
  /\ Goto(p, "idle")
  /\ cache' = [cache EXCEPT ![p] = Empty]
  /\ host' = [host EXCEPT ![p] = None] /\ key' = [key EXCEPT ![p] = None]
  /\ seen' = [seen EXCEPT ![p] = NoTime]
  /\ readAt' = [readAt EXCEPT ![p] = NoTime]
  /\ before' = before \ {p} /\ first' = first \ {p}
  /\ UNCHANGED <<fvars, clock, sessions, shown>>

TickOver ==
  /\ clock < MaxTick
  /\ clock' = clock + 1
  /\ UNCHANGED <<fvars, cache, pc, host, key, seen, sessions, hvars>>

Next ==
  \/ TickOver
  \/ \E p \in Proc :
       \/ \E h \in Host, k \in Key : CheckServerKey(p, h, k)
       \/ Read(p) \/ ReadFails(p)
       \/ Open(p) \/ Write(p) \/ SaveFails(p) \/ End(p)

Spec == Init /\ [][Next]_vars

-----------------------------------------------------------------------------
\* A host that some line records stays recorded, however the writes of several processes run
\* into one another and wherever one is killed (save_host_key appends, parse_known_hosts).
StaysRecorded ==
  [][\A h \in Host : Known[h] # None => Known'[h] # None]_vars

\* A check that begins when the host is recorded never trusts it on first use again: in the
\* first check of a process (every one of the CLI) always, in a later one unless the process
\* read the file in the very tick the file was last written in, which the modification time
\* cannot tell from a read after it.  A file that cannot be read is the other exception
\* (load_known_hosts).
NoSecondFirstUse ==
  \A p \in Proc : p \in before /\ pc[p] \in {"open"} \cup Saving =>
    \/ readAt[p] = Unreadable
    \/ p \notin first /\ readAt[p] = seen[p]

\* Claimed by the warning of check_server_key ("Host key for {} has changed!"): a host is
\* refused only if it has presented another key before.
RefusedOnlyIfChanged ==
  \A p \in Proc : pc[p] = "refused" => shown[host[p]] # {key[p]}
=============================================================================
