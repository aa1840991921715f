---------------------------- MODULE UserCommands ----------------------------
(***************************************************************************)
(* What a user runs on the controller besides remote commands: `uon add`,  *)
(* `remove`, `list`, `register`, `uon policy` and setup_uon.py, in any     *)
(* number and order, each of which may be killed.  `uon register` joins    *)
(* the stores: it holds targets.json, waits for a person, then reads the   *)
(* policy, and judges and records the credential in memory, while other    *)
(* processes go on.                                                        *)
(***************************************************************************)
EXTENDS TargetStore, PolicyStore, KeyEnrolment, Authenticator

CONSTANTS
  Model,    \* credential -> the model of its authenticator
  Synced,   \* credentials that are synced passkeys
  EarlierTables, EarlierPolicies   \* what the files may hold at first

ASSUME CredAssumption == Model \in [Cred -> Aaguid] /\ Synced \subseteq Cred
ASSUME EarlierAssumption ==
  EarlierTables \subseteq Table \cup OldTable /\ EarlierPolicies \subseteq SUBSET Spelling

VARIABLE seen   \* history: process -> the policy documents the file held since its prompt was answered

vars == <<disk, pc, cmd, mem, loaded, fd, enrolled, begun, seen>>

RegisterCommand == [op : {"register"}, alias : Alias, cred : Cred]
Command == TargetCommand \cup RegisterCommand \cup PolicyCommand \cup SetupCommand

Doc(s) ==
  CASE s = "targets" -> Table \cup OldTable
    [] s = "policy" -> SUBSET (Spelling \cup Aaguid)
    [] s = "keys" -> SUBSET Key

TypeOK ==
  /\ file \in [Store -> Inode \cup {NoInode}]
  /\ tmp \in [Store -> Inode \cup {NoInode}]
  /\ DOMAIN text = Store
  /\ \A s \in Store :
       text[s] \in [Inode -> [doc : Doc(s) \cup {NoDoc}, size : Nat, private : BOOLEAN]]
  /\ pc \in [Cli -> Running \cup Ended]
  /\ \A c \in Cli : IF pc[c] \in Running THEN cmd[c] \in Command ELSE cmd[c] = NoCmd
  /\ \A c \in Cli, s \in Store : mem[c][s] \in Doc(s) \cup {NoDoc}
  /\ loaded \in [Cli -> Doc("targets") \cup {NoDoc}]
  /\ fd \in [Cli -> Inode \cup {NoInode}]
  /\ enrolled \subseteq Key /\ begun \in 0..MaxBegun
  /\ seen \in [Cli -> SUBSET (Doc("policy") \cup {NoDoc})]

\* The files that an earlier release, or the user's editor, left.
Init ==
  /\ tmp = [s \in Store |-> NoInode]
  /\ file \in [Store -> Inode \cup {NoInode}]
  /\ file.keys = NoInode
  /\ \E t \in EarlierTables, p \in EarlierPolicies :
       text = [s \in Store |-> [i \in Inode |->
                 IF i # file[s] THEN Truncated
                 ELSE IF s = "targets" THEN Text(t, TableSize(Parsed(t)))
                 ELSE Text(p, 1 + Cardinality(p))]]
  /\ pc = [c \in Cli |-> "idle"]
  /\ cmd = [c \in Cli |-> NoCmd]
  /\ mem = [c \in Cli |-> Nothing]
  /\ loaded = [c \in Cli |-> NoDoc]
  /\ fd = [c \in Cli |-> NoInode]
  /\ enrolled = {} /\ begun = 0
  /\ seen = [c \in Cli |-> {}]

(***************************************************************************)
(* uon register.                                                           *)
(***************************************************************************)
\* The prompt: it may take minutes, and ends with a credential, an exception or no device.
Prompt(c, next) ==
  /\ pc[c] = "loaded" /\ cmd[c].op = "register"
  /\ \E found \in Found : \E result \in Registration(found, cmd[c].cred \in Synced) :
       IF mem[c].targets[cmd[c].alias] # NoTarget /\ result = "credential"
         THEN Goto(c, next) /\ UNCHANGED <<cmd, mem, loaded, fd>>
         ELSE End(c, "idle")
  /\ UNCHANGED disk

\* PolicyStore() loads the file as it is by now, or raises on half a document.
LoadAllowed(c, next) ==
  /\ IF Policy = NoDoc
       THEN End(c, "idle")
       ELSE Goto(c, next) /\ mem' = [mem EXCEPT ![c].policy = Policy] /\ UNCHANGED <<cmd, loaded, fd>>
  /\ UNCHANGED disk

\* Mutant: the policy is read before the prompt.
LoadedBefore(c) ==
  IF pc[c] = "loaded" /\ cmd[c].op = "register" /\ mem[c].policy = NoDoc
    THEN LoadAllowed(c, "loaded")
    ELSE Prompt(c, "judging")
Enroll(c) == Prompt(c, "enrolled")

ReadPolicy(c) == pc[c] = "enrolled" /\ LoadAllowed(c, "judging")

\* From check_credential to the exit the process touches its own memory only, so no other
\* process can tell these apart: the policy it holds is asked, target.credentials.append
\* changes the object that _targets holds, and store.add compares that object with itself.
Register(c) ==
  /\ pc[c] = "judging"
  /\ LET k == cmd[c].cred
         a == cmd[c].alias
         target == [mem[c].targets[a] EXCEPT !.creds = @ \cup {k}]
         held == [mem[c].targets EXCEPT ![a] = target]
     IN  IF ~CredentialPasses(mem[c].policy, Model[k], k \in Synced)
           THEN End(c, "idle") /\ UNCHANGED disk
         ELSE IF Already(held, a, target)
           THEN End(c, "done") /\ UNCHANGED disk
         ELSE SetTable(c, held)

-----------------------------------------------------------------------------
Begin(c) ==
  \/ \E k \in TargetCommand \cup RegisterCommand : LoadTargets(c, k) /\ UNCHANGED enrolled
  \/ \E k \in PolicyCommand : LoadPolicy(c, k) /\ UNCHANGED enrolled
  \/ \E k \in SetupCommand : LoadKeys(c, k)

TargetStep(c) ==
  \/ List(c) \/ Add(c) \/ Remove(c) \/ Enroll(c) \/ ReadPolicy(c) \/ Register(c)
  \/ SaveTargets(c)
PolicyStep(c) == Show(c) \/ Trust(c) \/ Distrust(c) \/ Clear(c) \/ SavePolicy(c)
SetupStep(c) == NoDevice(c) \/ AppendKey(c) \/ SaveKeys(c)
KillCommand(c) == pc[c] \in Running /\ StoreOf(cmd[c]) # "keys" /\ Kill(c)

Step ==
  \E c \in Cli :
    \/ Begin(c)
    \/ (TargetStep(c) \/ PolicyStep(c) \/ KillCommand(c)) /\ UNCHANGED <<enrolled, begun>>
    \/ (SetupStep(c) \/ KillSetup(c)) /\ UNCHANGED begun

\* The history changes nothing else: a process notes the policy file from the answer on.
Answered == {"enrolled", "judging"}
Note ==
  seen' = [c \in Cli |->
    IF pc'[c] \notin Answered THEN {}
    ELSE {Read("policy", {})'} \cup (IF pc[c] \in Answered THEN seen[c] ELSE {})]

Next == Step /\ Note

Spec == Init /\ [][Next]_vars

-----------------------------------------------------------------------------
\* Neither targets.json nor allowed_aaguids.json is ever half-written, whenever a command is
\* killed (the docstrings of TargetStore and PolicyStore).
FileWhole == Targets # NoDoc /\ Policy # NoDoc

\* A key whose setup ended well stays in authorized_passkeys.json through every later setup,
\* until one is killed between opening and writing the file (register_and_extract).
KeysSurvive ==
  (\A c \in Cli : pc[c] = "opened" => cmd[c].op # "setup")
    => enrolled \subseteq KeyList(Read("keys", {}))

\* What a command that ends well said it did is in its file.
SavedTargets(k, t) ==
  CASE k.op = "add" -> t[k.alias] = [host |-> k.host, creds |-> {}]
    [] k.op = "remove" -> t[k.alias] = NoTarget
    [] k.op = "register" -> t[k.alias] # NoTarget /\ k.cred \in t[k.alias].creds
    [] OTHER -> TRUE
SavedPolicy(k, p) ==
  CASE k.op = "trust" -> LowerOf[k.aaguid] \in p
    [] k.op = "distrust" -> LowerOf[k.aaguid] \notin p
    [] k.op = "clear" -> p = {}
    [] OTHER -> TRUE

Succeeds(c) == pc[c] \in Running /\ pc'[c] = "done"

\* A command on the targets or on the policy that ends well has changed the file as it says,
\* whatever ran, failed or was killed before it and runs beside it on the other files.
ChangeSaved ==
  [][\A c \in Cli : Succeeds(c) /\ cmd[c].op # "register" =>
       SavedTargets(cmd[c], Targets') /\ SavedPolicy(cmd[c], Policy')]_vars

\* A register that ends well has its credential in targets.json.
CredentialSaved ==
  [][\A c \in Cli : Succeeds(c) /\ cmd[c].op = "register" =>
       SavedTargets(cmd[c], Targets')]_vars

\* A register that ends well made its credential on hardware that the policy file, at some
\* moment after the person answered and however it spelt its models, allowed: a policy
\* command that ended while the prompt was open decides, one that is published after the
\* process has read the file need not (register).
RegisteredWasAllowed ==
  [][\A c \in Cli : Succeeds(c) /\ cmd[c].op = "register" =>
       /\ cmd[c].cred \notin Synced
       /\ \E named \in seen[c] \ {NoDoc} :
            named # {} => \E s \in named : LowerOf[s] = Model[cmd[c].cred]]_vars

\* A file that takes the place of targets.json or allowed_aaguids.json can be read by its
\* owner only, whatever left the temporary file it was (_save).
PublishedPrivate ==
  [][\A s \in {"targets", "policy"} : file'[s] # file[s] => text'[s][file'[s]].private]_vars

T == INSTANCE TargetTable WITH table <- Targets
\* Every change of targets.json is one whole command applied to what it held: nothing is
\* lost between a load and a save, nothing is applied in part, whatever is killed.
WholeCommands == T!Spec

P == INSTANCE PolicyList WITH allowed <- Policy
\* The same of the allowlist: it opens, or closes, only by a command that says so.
PolicyWhole == P!Spec
=============================================================================
