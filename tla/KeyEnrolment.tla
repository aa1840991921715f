---------------------------- MODULE KeyEnrolment ----------------------------
(***************************************************************************)
(* scripts/setup_uon.py: authorized_passkeys.json, the public keys that    *)
(* the user copies to the targets.  The file is rewritten in place.        *)
(***************************************************************************)
EXTENDS ConfigDir

CONSTANT Key   \* what an authenticator makes, a new one each time

ASSUME KeyAssumption == IsFiniteSet(Key) /\ \A ks \in SUBSET Key : ks # NoDoc

VARIABLE enrolled  \* history: keys whose setup ended well since the file was last cut short

SetupCommand == [op : {"setup"}, key : Key]

\* The person touches the authenticator before the script reads anything: no device, or no
\* touch, ends it.
LoadKeys(c, k) ==
  /\ k.key \notin enrolled
  /\ \A d \in Cli : cmd[d] = NoCmd \/ cmd[d] # k
  /\ Start(c, k, {}, NoDoc)
  /\ UNCHANGED enrolled

NoDevice(c) ==
  /\ pc[c] = "loaded" /\ cmd[c].op = "setup"
  /\ End(c, "idle")
  /\ UNCHANGED <<disk, enrolled>>

\* Mutant: the list starts empty.
Anew(d) == {}
\* A text that is not JSON counts as an empty list.
KeyList(d) == IF d = NoDoc THEN {} ELSE d

\* The keys in the file, and the new one.
AppendKey(c) ==
  /\ pc[c] = "loaded" /\ cmd[c].op = "setup"
  /\ mem' = [mem EXCEPT ![c].keys = KeyList(Read("keys", {})) \cup {cmd[c].key}]
  /\ Goto(c, "saving")
  /\ UNCHANGED <<disk, cmd, loaded, fd, enrolled>>

\* open(export_path, "w"): the file is cut to nothing before it is written.
OpenKeys(c) ==
  /\ pc[c] = "saving"
  /\ \E i \in IF file.keys # NoInode THEN {file.keys} ELSE Free("keys") :
       file' = [file EXCEPT !.keys = i] /\ Opened(c, "keys", i)
  /\ UNCHANGED <<tmp, enrolled>>

WriteKeys(c) ==
  /\ pc[c] = "opened"
  /\ text' = [text EXCEPT !.keys[fd[c]] = Over(@, mem[c].keys, 1 + Cardinality(mem[c].keys))]
  /\ enrolled' = enrolled \cup {cmd[c].key}
  /\ End(c, "done")
  /\ UNCHANGED <<file, tmp>>

\* A setup that is killed here leaves an empty file: the keys in it are lost.
KillSetup(c) ==
  /\ pc[c] \in Running /\ StoreOf(cmd[c]) = "keys"
  /\ Kill(c)
  /\ enrolled' = IF pc[c] = "opened" THEN {} ELSE enrolled

SaveKeys(c) ==
  /\ pc[c] \in Running /\ StoreOf(cmd[c]) = "keys"
  /\ OpenKeys(c) \/ WriteKeys(c)
=============================================================================
