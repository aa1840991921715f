------------------------------ MODULE ConfigDir ------------------------------
(***************************************************************************)
(* uon's config directory and the processes that change it.  Each command  *)
(* is a process that loads a JSON file into memory, changes the copy and   *)
(* saves it.  The files are inodes with names, so that two processes may   *)
(* have one open and a rename may take a file another process still        *)
(* writes.  TargetStore, PolicyStore and KeyEnrolment hold the commands of *)
(* each file, UserCommands puts them together.                             *)
(***************************************************************************)
EXTENDS Integers, FiniteSets

CONSTANTS
  Cli,      \* processes, each running one command after another
  Inode,    \* as many for a file as there can be names and open descriptors of it
  NoInode,  \* the name does not exist
  NoDoc,    \* a text that is not a whole JSON document, or nothing in memory
  NoCmd,    \* a process that runs no command
  MaxBegun, \* bound on the commands of a behaviour
  Serial    \* TRUE: no two commands that save the same file at once

ASSUME SerialAssumption == Serial \in BOOLEAN
ASSUME MaxBegunAssumption == MaxBegun \in Nat
ASSUME NoInodeAssumption == NoInode \notin Inode

\* targets.json, allowed_aaguids.json, authorized_passkeys.json.
Store == {"targets", "policy", "keys"}

VARIABLES
  file,    \* store -> the inode that has the file's name
  tmp,     \* store -> the inode named <file>.tmp
  text,    \* store -> inode -> [doc, size, private], its content and mode
  pc,      \* where each process is
  cmd,     \* its command
  mem,     \* store -> the document the process holds
  loaded,  \* TargetStore._serialized_payload
  fd,      \* the inode it has open for writing
  begun    \* how many commands began

disk == <<file, tmp, text>>

\* An inode made by open("w") has the umask's mode until it is given another.
Text(d, n) == [doc |-> d, size |-> n, private |-> FALSE]
Truncated == Text(NoDoc, 0)

\* What json.load makes of a file, `none` standing for no file.
Read(s, none) == IF file[s] = NoInode THEN none ELSE text[s][file[s]].doc

Nothing == [s \in Store |-> NoDoc]
Running == {"loaded", "enrolled", "judging", "saving", "opened", "written", "restricted"}
Ended == {"idle", "done"}      \* done: the last command ended well

StoreOf(k) ==
  CASE k.op \in {"add", "remove", "list", "register"} -> "targets"
    [] k.op \in {"trust", "distrust", "clear", "show"} -> "policy"
    [] k.op = "setup" -> "keys"

Goto(c, s) == pc' = [pc EXCEPT ![c] = s]

\* A process that ends loses its memory and its descriptor; `how` tells whether it ended well.
End(c, how) ==
  /\ Goto(c, how)
  /\ cmd' = [cmd EXCEPT ![c] = NoCmd]
  /\ mem' = [mem EXCEPT ![c] = Nothing]
  /\ loaded' = [loaded EXCEPT ![c] = NoDoc]
  /\ fd' = [fd EXCEPT ![c] = NoInode]

\* Another command that saves the file of `k` runs.
Busy(k) == \E d \in Cli : pc[d] \in Running /\ StoreOf(cmd[d]) = StoreOf(k)

\* The shell starts a command, which loads `doc`, read from the text `payload`, or fails on
\* half a document.
Start(c, k, doc, payload) ==
  /\ pc[c] \in Ended
  /\ Serial => ~Busy(k)
  /\ begun < MaxBegun /\ begun' = begun + 1
  /\ IF doc = NoDoc
       THEN End(c, "idle")      \* JSONDecodeError
       ELSE /\ Goto(c, "loaded")
            /\ cmd' = [cmd EXCEPT ![c] = k]
            /\ mem' = [mem EXCEPT ![c][StoreOf(k)] = doc]
            /\ loaded' = [loaded EXCEPT ![c] = payload]
            /\ UNCHANGED fd
  /\ UNCHANGED disk

(***************************************************************************)
(* _save of TargetStore and of PolicyStore: the temporary file is written, *)
(* made private and renamed.                                               *)
(***************************************************************************)
Free(s) ==
  {i \in Inode : i \notin {file[s], tmp[s]} /\ \A d \in Cli : fd[d] = i => StoreOf(cmd[d]) # s}

\* open(name, "w"): the file that has the name is truncated and keeps its mode, or is made.
Opened(c, s, name) ==
  /\ fd' = [fd EXCEPT ![c] = name]
  /\ text' = [text EXCEPT ![s][name] = [Truncated EXCEPT !.private = text[s][name].private]]
  /\ Goto(c, "opened")
  /\ UNCHANGED <<cmd, mem, loaded>>

\* Mutant: the file itself is opened for writing.
InPlace(s) == file[s]
WrittenName(s) == tmp[s]

OpenTmp(c, s) ==
  /\ pc[c] = "saving"
  /\ \E i \in IF WrittenName(s) # NoInode THEN {WrittenName(s)} ELSE Free(s) :
       tmp' = [tmp EXCEPT ![s] = i] /\ Opened(c, s, i)
  /\ UNCHANGED file

\* A write at offset 0 over a text: the tail of a longer one stays.
Over(old, doc, n) ==
  IF old.size > n THEN [old EXCEPT !.doc = NoDoc] ELSE [old EXCEPT !.doc = doc, !.size = n]

\* The document in memory, n long, is written and the file is closed.
Written(c, s, n) ==
  /\ text' = [text EXCEPT ![s][fd[c]] = Over(@, mem[c][s], n)]
  /\ fd' = [fd EXCEPT ![c] = NoInode]
  /\ Goto(c, "written")
  /\ UNCHANGED <<file, tmp, cmd, mem, loaded>>

WriteTmp(c, s, n) == pc[c] = "opened" /\ Written(c, s, n)

\* Mutant: the mode is left as it is.
Unrestricted(i) == i
Restricted(i) == [i EXCEPT !.private = TRUE]

\* chmod goes by name: another process may have renamed the file away.
Chmod(c, s) ==
  /\ pc[c] = "written"
  /\ IF tmp[s] = NoInode
       THEN End(c, "idle") /\ UNCHANGED text
       ELSE /\ text' = [text EXCEPT ![s][tmp[s]] = Restricted(@)]
            /\ Goto(c, "restricted")
            /\ UNCHANGED <<cmd, mem, loaded, fd>>
  /\ UNCHANGED <<file, tmp>>

\* The rename; what the old file held is gone once nothing has it open.
Replace(c, s) ==
  /\ pc[c] = "restricted"
  /\ IF tmp[s] = NoInode
       THEN End(c, "idle") /\ UNCHANGED disk
       ELSE /\ file' = [file EXCEPT ![s] = tmp[s]]
            /\ tmp' = [tmp EXCEPT ![s] = NoInode]
            /\ text' = [text EXCEPT ![s] =
                 [i \in Inode |-> IF i = file[s] THEN Truncated ELSE @[i]]]
            /\ End(c, "done")

Kill(c) ==
  /\ pc[c] \in Running
  /\ End(c, "idle")
  /\ UNCHANGED disk
=============================================================================
