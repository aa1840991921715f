-------------------------- MODULE UserCommandsProofs --------------------------
(***************************************************************************)
(* UserCommands.tla, for any number of commands, processes, targets,       *)
(* credentials, models and keys, and a kill anywhere.  The types hold even *)
(* when commands overlap; the rest when no two save the same file at once. *)
(***************************************************************************)
EXTENDS UserCommands, FiniteSetTheorems, TLAPS

USE MaxBegunAssumption, NoInodeAssumption

-----------------------------------------------------------------------------
(***************************************************************************)
(* Commands and documents.                                                 *)
(***************************************************************************)
LEMMA TargetOps ==
  ASSUME NEW k \in TargetCommand \cup RegisterCommand
  PROVE  /\ k \in Command /\ StoreOf(k) = "targets"
         /\ k.op \in {"add", "remove", "list", "register"}
         /\ k.op # "list" => k.alias \in Alias
         /\ k.op = "add" => k.host \in Host
         /\ k.op = "register" => k.cred \in Cred
BY DEF Command, TargetCommand, RegisterCommand, StoreOf

LEMMA PolicyOps ==
  ASSUME NEW k \in PolicyCommand
  PROVE  /\ k \in Command /\ StoreOf(k) = "policy"
         /\ k.op \in {"trust", "distrust", "clear", "show"}
         /\ k.op \in {"trust", "distrust"} => k.aaguid \in Spelling
BY DEF Command, PolicyCommand, StoreOf

LEMMA SetupOps ==
  ASSUME NEW k \in SetupCommand
  PROVE  k \in Command /\ StoreOf(k) = "keys" /\ k.op = "setup" /\ k.key \in Key
BY DEF Command, SetupCommand, StoreOf

LEMMA Commands ==
  ASSUME NEW k \in Command
  PROVE  /\ StoreOf(k) \in Store
         /\ StoreOf(k) = "targets" <=> k \in TargetCommand \cup RegisterCommand
         /\ StoreOf(k) = "policy" <=> k \in PolicyCommand
         /\ StoreOf(k) = "keys" <=> k \in SetupCommand
BY TargetOps, PolicyOps, SetupOps DEF Command, Store

\* What a command holds in memory of the file it changes; a table is never in the old form.
Held(s) == IF s = "targets" THEN Table ELSE Doc(s)

LEMMA Docs ==
  /\ Doc("targets") = Table \cup OldTable
  /\ Doc("policy") = SUBSET (Spelling \cup Aaguid)
  /\ Doc("keys") = SUBSET Key
  /\ Held("targets") = Table /\ Held("policy") = Doc("policy") /\ Held("keys") = Doc("keys")
BY DEF Doc, Held

LEMMA NoDocIsNone == \A s \in Store : NoDoc \notin Doc(s) /\ Held(s) \subseteq Doc(s)
BY Docs, NoDocIsNoTable, NoDocIsNoPolicy, KeyAssumption DEF Store

LEMMA ParsedType ==
  /\ \A t \in Doc("targets") : Parsed(t) \in Table
  /\ \A t \in Table : Parsed(t) = t
  /\ Parsed(NoDoc) = NoDoc
<1>1. ASSUME NEW t \in Doc("targets") PROVE Parsed(t) \in Table
  <2>1. t # NoDoc
    BY NoDocIsNone DEF Store
  <2>2. ASSUME NEW a \in Alias, t[a] # NoTarget PROVE FromDict(t[a]) \in Target
    <3>1. t[a] \in Target \/ t[a] \in Legacy
      BY <2>2, Docs DEF Table, OldTable
    <3>2. CASE t[a] \in Target
      <4>1. DOMAIN t[a] = {"host", "creds"}
        BY <3>2 DEF Target
      <4> QED BY <3>2, <4>1 DEF FromDict
    <3>3. CASE t[a] \in Legacy
      <4>1. DOMAIN t[a] = {"host", "ids"}
        BY <3>3 DEF Legacy
      <4> QED BY <3>3, <4>1 DEF FromDict, Legacy, Target
    <3> QED BY <3>1, <3>2, <3>3
  <2> QED BY <2>1, <2>2 DEF Parsed, Table
<1>2. ASSUME NEW t \in Table PROVE Parsed(t) = t
  <2>1. t # NoDoc
    BY NoDocIsNoTable
  <2>2. ASSUME NEW a \in Alias, t[a] # NoTarget PROVE FromDict(t[a]) = t[a]
    <3>1. t[a] \in Target
      BY <2>2 DEF Table
    <3>2. DOMAIN t[a] = {"host", "creds"}
      BY <3>1 DEF Target
    <3> QED BY <3>2 DEF FromDict
  <2> QED BY <2>1, <2>2 DEF Parsed, Table
<1> QED BY <1>1, <1>2 DEF Parsed

LEMMA LowerType ==
  /\ \A s \in Spelling \cup Aaguid : Lower(s) \in Spelling \cup Aaguid /\ Lower(Lower(s)) = Lower(s)
  /\ \A a \in Aaguid : Lower(a) = a
BY LowerAssumption DEF Lower

LEMMA TableSizeType == \A t \in Table \cup OldTable : TableSize(t) \in Nat \ {0}
<1> SUFFICES ASSUME NEW t \in Table \cup OldTable PROVE TableSize(t) \in Nat \ {0}
  OBVIOUS
<1> DEFINE A == {a \in Alias : t[a] # NoTarget}
           B == {ak \in Alias \X Cred : t[ak[1]] # NoTarget /\ ak[2] \in t[ak[1]].creds}
<1>1. IsFiniteSet(A)
  BY FiniteTables, FS_Subset
<1>2. IsFiniteSet(B)
  BY FiniteTables, FS_Product, FS_Subset
<1>3. Cardinality(A) \in Nat /\ Cardinality(B) \in Nat
  BY <1>1, <1>2, FS_CardinalityType
<1> HIDE DEF A, B
<1>4. 1 + Cardinality(A) + Cardinality(B) \in Nat \ {0}
  BY <1>3
<1> QED BY <1>4 DEF TableSize, A, B

LEMMA OtherSizes ==
  /\ \A p \in Doc("policy") : 1 + Cardinality(p) \in Nat \ {0}
  /\ \A d \in Doc("keys") : 1 + Cardinality(d) \in Nat \ {0}
<1>1. ASSUME NEW p \in Doc("policy") PROVE Cardinality(p) \in Nat
  BY FinitePolicies, Docs, FS_Subset, FS_CardinalityType
<1>2. ASSUME NEW d \in Doc("keys") PROVE Cardinality(d) \in Nat
  BY KeyAssumption, Docs, FS_Subset, FS_CardinalityType
<1> QED BY <1>1, <1>2

-----------------------------------------------------------------------------
(***************************************************************************)
(* Types.                                                                  *)
(***************************************************************************)
AnyDoc == Doc("targets") \cup Doc("policy") \cup Doc("keys") \cup {NoDoc}
TextOf(s) == [doc : Doc(s) \cup {NoDoc}, size : Nat, private : BOOLEAN]
AnyText == [doc : AnyDoc, size : Nat, private : BOOLEAN]

Files ==
  /\ file \in [Store -> Inode \cup {NoInode}] /\ tmp \in [Store -> Inode \cup {NoInode}]
  /\ text \in [Store -> [Inode -> AnyText]]
  /\ \A s \in Store, i \in Inode : text[s][i] \in TextOf(s)

Procs ==
  /\ pc \in [Cli -> Running \cup Ended]
  /\ cmd \in [Cli -> Command \cup {NoCmd}]
  /\ mem \in [Cli -> [Store -> AnyDoc]]
  /\ loaded \in [Cli -> Doc("targets") \cup {NoDoc}]
  /\ fd \in [Cli -> Inode \cup {NoInode}]

\* How far a command gets: a register never saves, a list or show changes nothing.
Thinking == {"loaded", "enrolled", "judging"}
USE DEF Thinking

InStage(p, k) ==
  /\ k.op = "register" => p \in Thinking
  /\ p \in {"enrolled", "judging"} => k.op = "register"
  /\ k.op \in {"list", "show"} => p = "loaded"
  /\ k.op = "setup" => p \in {"loaded", "saving", "opened"}
  /\ k.op = "trust" => Lower(k.aaguid) \in Aaguid

ProcType(c) ==
  /\ IF pc[c] \in Running
       THEN /\ cmd[c] \in Command /\ InStage(pc[c], cmd[c])
            /\ mem[c][StoreOf(cmd[c])] \in Held(StoreOf(cmd[c]))
       ELSE cmd[c] = NoCmd
  /\ \A s \in Store : mem[c][s] \in Doc(s) \cup {NoDoc}
  /\ pc[c] = "opened" <=> fd[c] # NoInode

TypeInv ==
  /\ Files /\ Procs
  /\ \A c \in Cli : ProcType(c)
  /\ enrolled \subseteq Key /\ begun \in 0..MaxBegun

SeenType == seen \in [Cli -> SUBSET (Doc("policy") \cup {NoDoc})]

LEMMA TypeInvTypes == TypeInv /\ SeenType => TypeOK
<1> SUFFICES ASSUME TypeInv, SeenType PROVE TypeOK
  OBVIOUS
<1>1. \A s \in Store :
        text[s] \in [Inode -> [doc : Doc(s) \cup {NoDoc}, size : Nat, private : BOOLEAN]]
  BY DEF TypeInv, Files, TextOf
<1>2. DOMAIN text = Store
  BY DEF TypeInv, Files
<1> QED BY <1>1, <1>2 DEF TypeOK, TypeInv, SeenType, Files, Procs, ProcType

\* What a step makes of process c; the others it leaves alone.
Is(c, p, k, m, l, f) ==
  /\ pc'[c] = p /\ cmd'[c] = k /\ mem'[c] = m /\ loaded'[c] = l /\ fd'[c] = f

Same(d) == Is(d, pc[d], cmd[d], mem[d], loaded[d], fd[d])
Others(c) == \A d \in Cli \ {c} : Same(d)

LEMMA EndIs ==
  ASSUME Procs, NEW c \in Cli, NEW how \in Ended, End(c, how)
  PROVE  Procs' /\ Is(c, how, NoCmd, Nothing, NoDoc, NoInode) /\ Others(c)
<1>1. Nothing \in [Store -> AnyDoc]
  BY DEF Nothing, AnyDoc
<1> QED BY <1>1 DEF Procs, End, Goto, Is, Same, Others

LEMMA EndedType ==
  ASSUME NEW c \in Cli, NEW how \in Ended, Is(c, how, NoCmd, Nothing, NoDoc, NoInode)
  PROVE  ProcType(c)'
BY DEF ProcType, Is, Ended, Running, Nothing

LEMMA SameType == ASSUME NEW d \in Cli, ProcType(d), Same(d) PROVE ProcType(d)'
BY DEF ProcType, Same, Is

LEMMA EndTypes ==
  ASSUME TypeInv, NEW c \in Cli, NEW how \in Ended, End(c, how)
  PROVE  Procs' /\ \A d \in Cli : ProcType(d)'
BY EndIs, EndedType, SameType DEF TypeInv, Others

LEMMA DiskKept == ASSUME Files, UNCHANGED disk PROVE Files'
BY DEF Files, disk

LEMMA StoreDocs ==
  ASSUME NEW s \in Store, NEW d \in Doc(s) \cup {NoDoc} PROVE d \in AnyDoc
BY DEF AnyDoc, Store

LEMMA StartIs ==
  ASSUME Procs, NEW c \in Cli, NEW k \in Command, NEW doc \in Doc(StoreOf(k)),
         NEW payload \in Doc("targets") \cup {NoDoc}, Start(c, k, doc, payload)
  PROVE  /\ Procs' /\ Others(c)
         /\ Is(c, "loaded", k, [mem[c] EXCEPT ![StoreOf(k)] = doc], payload, fd[c])
<1>1. StoreOf(k) \in Store /\ doc # NoDoc /\ doc \in AnyDoc
  BY Commands, NoDocIsNone, StoreDocs
<1>2. /\ pc' = [pc EXCEPT ![c] = "loaded"] /\ cmd' = [cmd EXCEPT ![c] = k]
      /\ mem' = [mem EXCEPT ![c][StoreOf(k)] = doc] /\ loaded' = [loaded EXCEPT ![c] = payload]
      /\ fd' = fd
  BY <1>1 DEF Start, Goto
<1>3. mem[c] \in [Store -> AnyDoc]
  BY DEF Procs
<1>4. mem' = [mem EXCEPT ![c] = [mem[c] EXCEPT ![StoreOf(k)] = doc]]
  BY <1>2
<1>5. [mem[c] EXCEPT ![StoreOf(k)] = doc] \in [Store -> AnyDoc]
  BY <1>1, <1>3
<1> HIDE DEF disk
<1>6. Procs'
  BY <1>2, <1>4, <1>5 DEF Procs, Running
<1>7. Others(c) /\ Is(c, "loaded", k, [mem[c] EXCEPT ![StoreOf(k)] = doc], payload, fd[c])
  BY <1>2, <1>4 DEF Procs, Others, Same, Is
<1> QED BY <1>6, <1>7

LEMMA StartTypes ==
  ASSUME TypeInv, NEW c \in Cli, NEW k \in Command, InStage("loaded", k),
         NEW doc \in Held(StoreOf(k)) \cup {NoDoc},
         NEW payload \in Doc("targets") \cup {NoDoc}, Start(c, k, doc, payload)
  PROVE  Files' /\ Procs' /\ (\A d \in Cli : ProcType(d)') /\ begun' \in 0..MaxBegun
<1>1. Files' /\ begun' \in 0..MaxBegun
  BY DiskKept DEF Start, TypeInv
<1>2. CASE doc = NoDoc
  BY <1>1, <1>2, EndTypes DEF Start, Ended
<1>3. CASE doc # NoDoc
  <2>1. StoreOf(k) \in Store /\ doc \in Doc(StoreOf(k)) /\ doc \in Held(StoreOf(k))
    BY <1>3, Commands, NoDocIsNone
  <2> DEFINE m == [mem[c] EXCEPT ![StoreOf(k)] = doc]
  <2>2. Procs' /\ Others(c) /\ Is(c, "loaded", k, m, payload, fd[c])
    BY <2>1, StartIs DEF TypeInv
  <2>3. pc[c] \in Ended /\ ProcType(c) /\ mem[c] \in [Store -> AnyDoc]
    BY DEF Start, TypeInv, Procs
  <2>4. fd[c] = NoInode
    BY <2>3 DEF ProcType, Ended
  <2>5. m[StoreOf(k)] = doc /\ \A s \in Store : m[s] \in Doc(s) \cup {NoDoc}
    BY <2>1, <2>3 DEF ProcType
  <2> HIDE DEF m
  <2>6. ProcType(c)'
    BY <2>1, <2>2, <2>4, <2>5 DEF ProcType, Is, Running
  <2> QED BY <1>1, <2>2, <2>6, SameType DEF TypeInv, Others
<1> QED BY <1>2, <1>3

\* The command's new document, and the save that follows.
LEMMA ThinkIs ==
  ASSUME TypeInv, NEW c \in Cli, pc[c] \in Running, NEW s \in Store, s = StoreOf(cmd[c]),
         NEW d \in Held(s), Goto(c, "saving"),
         mem' = [mem EXCEPT ![c][s] = d], UNCHANGED <<cmd, loaded, fd>>
  PROVE  /\ Procs' /\ Others(c)
         /\ Is(c, "saving", cmd[c], [mem[c] EXCEPT ![s] = d], loaded[c], fd[c])
<1>1. d \in AnyDoc /\ mem[c] \in [Store -> AnyDoc]
  BY NoDocIsNone, StoreDocs DEF TypeInv, Procs
<1>2. mem' = [mem EXCEPT ![c] = [mem[c] EXCEPT ![s] = d]] /\ pc' = [pc EXCEPT ![c] = "saving"]
  BY DEF Goto
<1>3. [mem[c] EXCEPT ![s] = d] \in [Store -> AnyDoc]
  BY <1>1
<1> QED BY <1>2, <1>3 DEF TypeInv, Procs, Others, Same, Is, Running

LEMMA ThinkTypes ==
  ASSUME TypeInv, NEW c \in Cli, pc[c] \in Running, NEW s \in Store, s = StoreOf(cmd[c]),
         pc[c] # "opened", InStage("saving", cmd[c]),
         NEW d \in Held(s), Goto(c, "saving"),
         mem' = [mem EXCEPT ![c][s] = d], UNCHANGED <<disk, cmd, loaded, fd>>
  PROVE  Files' /\ Procs' /\ \A e \in Cli : ProcType(e)'
<1> DEFINE m == [mem[c] EXCEPT ![s] = d]
<1>1. Procs' /\ Others(c) /\ Is(c, "saving", cmd[c], m, loaded[c], fd[c])
  BY ThinkIs
<1>2. ProcType(c) /\ mem[c] \in [Store -> AnyDoc] /\ d \in Doc(s)
  BY NoDocIsNone DEF TypeInv, Procs
<1>3. m[s] = d /\ \A r \in Store : m[r] \in Doc(r) \cup {NoDoc}
  BY <1>2 DEF ProcType
<1> HIDE DEF m
<1>4. ProcType(c)'
  BY <1>1, <1>2, <1>3 DEF ProcType, Is, Running
<1> QED BY <1>1, <1>4, SameType, DiskKept DEF TypeInv, Others

\* What is in the files, as the stores load it.
LEMMA Loads ==
  ASSUME TypeInv
  PROVE  /\ Targets \in Table \cup {NoDoc} /\ Policy \in Doc("policy") \cup {NoDoc}
         /\ Read("targets", NoDoc) \in Doc("targets") \cup {NoDoc}
         /\ Read("policy", {}) \in Doc("policy") \cup {NoDoc}
         /\ KeyList(Read("keys", {})) \in Doc("keys")
<1>1. \A s \in Store : \A none : Read(s, none) \in Doc(s) \cup {NoDoc, none}
  BY DEF Read, TypeInv, Files, TextOf
<1>2. "targets" \in Store /\ "policy" \in Store /\ "keys" \in Store
  BY DEF Store
<1>3. EmptyTable \in Table
  BY DEF EmptyTable, Table
<1>4. Targets \in Table \cup {NoDoc}
  BY <1>1, <1>2, <1>3, ParsedType, Docs DEF Targets
<1>5. {} \in Doc("policy") /\ {} \in Doc("keys")
  BY Docs
<1>6. Policy \in Doc("policy") \cup {NoDoc}
  BY <1>1, <1>2, <1>5, Docs, LowerType DEF Policy
<1> QED BY <1>1, <1>2, <1>4, <1>5, <1>6 DEF KeyList

LEMMA BeginTypes == ASSUME TypeInv, NEW c \in Cli, Begin(c) PROVE TypeInv'
<1>1. ASSUME NEW k \in TargetCommand \cup RegisterCommand, LoadTargets(c, k), UNCHANGED enrolled
      PROVE  TypeInv'
  <2>1. k \in Command /\ StoreOf(k) = "targets" /\ InStage("loaded", k)
    BY TargetOps DEF InStage
  <2>2. Targets \in Held("targets") \cup {NoDoc}
    BY Loads, Docs
  <2>3. Files' /\ Procs' /\ (\A d \in Cli : ProcType(d)') /\ begun' \in 0..MaxBegun
    BY <1>1, <2>1, <2>2, Loads, StartTypes DEF LoadTargets
  <2> QED BY <1>1, <2>3 DEF TypeInv
<1>2. ASSUME NEW k \in PolicyCommand, LoadPolicy(c, k), UNCHANGED enrolled PROVE TypeInv'
  <2>1. k \in Command /\ StoreOf(k) = "policy"
    BY PolicyOps
  <2>2. Policy \in Held("policy") \cup {NoDoc}
    BY Loads, Docs
  <2>3. CASE k.op = "trust" /\ ~IsValidAaguid(k.aaguid)
    <3>1. End(c, "idle") /\ begun < MaxBegun /\ begun' = begun + 1 /\ UNCHANGED disk
      BY <1>2, <2>3 DEF LoadPolicy, Start
    <3>2. Procs' /\ \A d \in Cli : ProcType(d)'
      BY <3>1, EndTypes DEF Ended
    <3> QED BY <1>2, <3>1, <3>2, DiskKept DEF TypeInv
  <2>4. CASE ~(k.op = "trust" /\ ~IsValidAaguid(k.aaguid))
    <3>1. InStage("loaded", k)
      BY <2>4, PolicyOps DEF InStage, IsValidAaguid, Lower
    <3>2. Files' /\ Procs' /\ (\A d \in Cli : ProcType(d)') /\ begun' \in 0..MaxBegun
      BY <1>2, <2>1, <2>2, <2>4, <3>1, StartTypes DEF LoadPolicy
    <3> QED BY <1>2, <3>2 DEF TypeInv
  <2> QED BY <2>3, <2>4
<1>3. ASSUME NEW k \in SetupCommand, LoadKeys(c, k) PROVE TypeInv'
  <2>1. k \in Command /\ StoreOf(k) = "keys" /\ InStage("loaded", k)
    BY SetupOps DEF InStage
  <2>2. {} \in Held("keys") \cup {NoDoc}
    BY Docs
  <2>3. Files' /\ Procs' /\ (\A d \in Cli : ProcType(d)') /\ begun' \in 0..MaxBegun
    BY <1>3, <2>1, <2>2, StartTypes DEF LoadKeys
  <2> QED BY <1>3, <2>3 DEF LoadKeys, TypeInv
<1> QED BY <1>1, <1>2, <1>3 DEF Begin

\* A step that ends the command, or sets its document, and leaves the files alone.
Quits(c) == (\E how \in Ended : End(c, how)) /\ UNCHANGED disk
Sets(c, s, d) ==
  /\ Goto(c, "saving") /\ mem' = [mem EXCEPT ![c][s] = d]
  /\ UNCHANGED <<disk, cmd, loaded, fd>>

LEMMA QuitTypes ==
  ASSUME TypeInv, NEW c \in Cli, Quits(c) PROVE Files' /\ Procs' /\ \A d \in Cli : ProcType(d)'
BY EndTypes, DiskKept DEF Quits, TypeInv

LEMMA SetTypes ==
  ASSUME TypeInv, NEW c \in Cli, pc[c] = "loaded", NEW s \in Store, s = StoreOf(cmd[c]),
         InStage("saving", cmd[c]), NEW d \in Held(s), Sets(c, s, d)
  PROVE  Files' /\ Procs' /\ \A e \in Cli : ProcType(e)'
BY ThinkTypes DEF Sets, Running

\* The command of a running process, what it holds and how it began.
LEMMA Current ==
  ASSUME TypeInv, NEW c \in Cli, pc[c] \in Running
  PROVE  /\ cmd[c] \in Command /\ InStage(pc[c], cmd[c])
         /\ StoreOf(cmd[c]) \in Store
         /\ mem[c][StoreOf(cmd[c])] \in Held(StoreOf(cmd[c]))
BY Commands DEF TypeInv, ProcType

LEMMA OpOf ==
  ASSUME NEW k \in Command
  PROVE  /\ k.op \in {"add", "remove", "list", "register"} =>
              k \in TargetCommand \cup RegisterCommand /\ StoreOf(k) = "targets"
         /\ k.op \in {"trust", "distrust", "clear", "show"} =>
              k \in PolicyCommand /\ StoreOf(k) = "policy"
         /\ k.op = "setup" => k \in SetupCommand /\ StoreOf(k) = "keys"
BY TargetOps, PolicyOps, SetupOps DEF Command

\* The commands on targets.json, up to the save.
LEMMA AddDoes ==
  ASSUME TypeInv, NEW c \in Cli, Add(c)
  PROVE  /\ cmd[c] \in TargetCommand /\ mem[c].targets \in Table
         /\ \/ End(c, "done") /\ UNCHANGED disk
               /\ mem[c].targets[cmd[c].alias] = [host |-> cmd[c].host, creds |-> {}]
            \/ Sets(c, "targets",
                 [mem[c].targets EXCEPT ![cmd[c].alias] = [host |-> cmd[c].host, creds |-> {}]])
<1>1. pc[c] \in Running /\ cmd[c].op = "add"
  BY DEF Add, Running
<1>2. cmd[c] \in TargetCommand /\ mem[c].targets \in Table
  BY <1>1, Current, OpOf, Docs DEF RegisterCommand
<1> QED BY <1>2 DEF Add, Sets, SetTable, NewTarget, Already

LEMMA RemoveDoes ==
  ASSUME TypeInv, NEW c \in Cli, Remove(c)
  PROVE  /\ cmd[c] \in TargetCommand /\ mem[c].targets \in Table
         /\ \/ End(c, "idle") /\ UNCHANGED disk
            \/ Sets(c, "targets", [mem[c].targets EXCEPT ![cmd[c].alias] = NoTarget])
<1>1. pc[c] \in Running /\ cmd[c].op = "remove"
  BY DEF Remove, Running
<1>2. cmd[c] \in TargetCommand /\ mem[c].targets \in Table
  BY <1>1, Current, OpOf, Docs DEF RegisterCommand
<1> QED BY <1>2 DEF Remove, Sets, SetTable

\* The prompt and the policy: the command waits, or ends.
Waits(c, m) ==
  \E p \in {"enrolled", "judging"} : Is(c, p, cmd[c], m, loaded[c], fd[c]) /\ Others(c)

LEMMA EnrollDoes ==
  ASSUME TypeInv, NEW c \in Cli, Enroll(c)
  PROVE  /\ UNCHANGED disk /\ pc[c] = "loaded" /\ cmd[c].op = "register"
         /\ \/ End(c, "idle")
            \/ Goto(c, "enrolled") /\ UNCHANGED <<cmd, mem, loaded, fd>> /\ Waits(c, mem[c])
<1>1. ASSUME Goto(c, "enrolled"), UNCHANGED <<cmd, mem, loaded, fd>> PROVE Waits(c, mem[c])
  BY <1>1 DEF Waits, Goto, TypeInv, Procs, Others, Same, Is
<1>2. /\ UNCHANGED disk /\ pc[c] = "loaded" /\ cmd[c].op = "register"
      /\ End(c, "idle") \/ (Goto(c, "enrolled") /\ UNCHANGED <<cmd, mem, loaded, fd>>)
  BY DEF Enroll, Prompt
<1> QED BY <1>1, <1>2

LEMMA ReadPolicyDoes ==
  ASSUME TypeInv, NEW c \in Cli, ReadPolicy(c)
  PROVE  /\ UNCHANGED disk /\ pc[c] = "enrolled" /\ cmd[c].op = "register"
         /\ \/ End(c, "idle")
            \/ /\ Goto(c, "judging") /\ UNCHANGED <<cmd, loaded, fd>> /\ Policy # NoDoc
               /\ mem' = [mem EXCEPT ![c] = [mem[c] EXCEPT !["policy"] = Policy]]
               /\ Waits(c, [mem[c] EXCEPT !["policy"] = Policy])
<1>1. /\ UNCHANGED disk /\ pc[c] = "enrolled" /\ pc[c] \in Running
      /\ \/ End(c, "idle")
         \/ /\ Goto(c, "judging") /\ UNCHANGED <<cmd, loaded, fd>> /\ Policy # NoDoc
            /\ mem' = [mem EXCEPT ![c] = [mem[c] EXCEPT !["policy"] = Policy]]
  BY DEF ReadPolicy, LoadAllowed, Running
<1>2. cmd[c].op = "register"
  BY <1>1, Current DEF InStage
<1>3. ASSUME Goto(c, "judging"), UNCHANGED <<cmd, loaded, fd>>,
             mem' = [mem EXCEPT ![c] = [mem[c] EXCEPT !["policy"] = Policy]]
      PROVE  Waits(c, [mem[c] EXCEPT !["policy"] = Policy])
  BY <1>3 DEF Waits, Goto, TypeInv, Procs, Others, Same, Is
<1> QED BY <1>1, <1>2, <1>3

\* A command that waits keeps its type.
LEMMA WaitTypes ==
  ASSUME TypeInv, NEW c \in Cli, pc[c] \in {"loaded", "enrolled"}, cmd[c].op = "register",
         NEW m, m = mem[c] \/ (Policy # NoDoc /\ m = [mem[c] EXCEPT !["policy"] = Policy]),
         Waits(c, m), UNCHANGED disk, Procs'
  PROVE  Files' /\ \A d \in Cli : ProcType(d)'
<1>1. ProcType(c) /\ cmd[c] \in Command /\ StoreOf(cmd[c]) = "targets"
  BY Current, OpOf DEF TypeInv, Running
<1>2. /\ mem[c] \in [Store -> AnyDoc] /\ "policy" \in Store /\ "targets" \in Store
      /\ Policy \in Doc("policy") \cup {NoDoc}
  BY Loads DEF TypeInv, Procs, Store
<1>3. m["targets"] = mem[c]["targets"] /\ \A s \in Store : m[s] \in Doc(s) \cup {NoDoc}
  BY <1>1, <1>2 DEF ProcType
<1>4. \A p \in {"enrolled", "judging"} : InStage(p, cmd[c]) /\ p \in Running
  BY <1>1 DEF InStage, Thinking, Running
<1>5. ProcType(c)'
  BY <1>1, <1>3, <1>4 DEF ProcType, Waits, Is, Running
<1> QED BY <1>5, SameType, DiskKept DEF TypeInv, Waits, Others

\* register compares the object with itself: it never saves.
LEMMA RegisterDoes ==
  ASSUME TypeInv, NEW c \in Cli, Register(c)
  PROVE  /\ UNCHANGED disk /\ pc[c] = "judging"
         /\ \/ End(c, "idle")
            \/ /\ End(c, "done")
               /\ CredentialPasses(mem[c].policy, Model[cmd[c].cred], cmd[c].cred \in Synced)
<1> DEFINE k == cmd[c].cred
           a == cmd[c].alias
           target == [mem[c].targets[a] EXCEPT !.creds = @ \cup {k}]
           held == [mem[c].targets EXCEPT ![a] = target]
<1>1. pc[c] = "judging" /\ pc[c] \in Running /\ cmd[c].op = "register"
  <2>1. pc[c] = "judging" /\ pc[c] \in Running
    BY DEF Register, Running
  <2> QED BY <2>1, Current DEF InStage
<1>2. mem[c].targets \in Table /\ a \in Alias
  BY <1>1, Current, OpOf, TargetOps, Docs
<1>3. Already(held, a, target)
  BY <1>2 DEF Already, Table
<1> HIDE DEF target, held
<1>4. IF ~CredentialPasses(mem[c].policy, Model[k], k \in Synced)
        THEN End(c, "idle") /\ UNCHANGED disk
      ELSE IF Already(held, a, target)
        THEN End(c, "done") /\ UNCHANGED disk
      ELSE SetTable(c, held)
  BY DEF Register, target, held
<1> QED BY <1>1, <1>3, <1>4

LEMMA TableWith ==
  ASSUME NEW t \in Table, NEW a \in Alias, NEW x \in Target \cup {NoTarget}
  PROVE  [t EXCEPT ![a] = x] \in Table
BY DEF Table

LEMMA ThinkTargets ==
  ASSUME TypeInv, NEW c \in Cli,
         List(c) \/ Add(c) \/ Remove(c) \/ Enroll(c) \/ ReadPolicy(c) \/ Register(c)
  PROVE  Files' /\ Procs' /\ \A d \in Cli : ProcType(d)'
<1>1. CASE Quits(c)
  BY <1>1, QuitTypes
<1>2. CASE List(c)
  BY <1>1, <1>2 DEF List, Quits, Ended
<1>3. CASE Register(c)
  BY <1>1, <1>3, RegisterDoes DEF Quits, Ended
<1>4. CASE Add(c)
  <2> DEFINE t == [mem[c].targets EXCEPT ![cmd[c].alias] = [host |-> cmd[c].host, creds |-> {}]]
  <2>1. /\ pc[c] = "loaded" /\ pc[c] \in Running /\ cmd[c].op = "add"
        /\ cmd[c] \in TargetCommand /\ mem[c].targets \in Table
    BY <1>4, AddDoes DEF Add, Running
  <2>2. /\ StoreOf(cmd[c]) = "targets" /\ InStage("saving", cmd[c])
        /\ cmd[c].alias \in Alias /\ cmd[c].host \in Host
    BY <2>1, TargetOps DEF InStage
  <2>3. [host |-> cmd[c].host, creds |-> {}] \in Target
    BY <2>2 DEF Target
  <2>4. t \in Held("targets") /\ "targets" \in Store
    BY <2>1, <2>2, <2>3, TableWith, Docs DEF Store
  <2>5. Quits(c) \/ Sets(c, "targets", t)
    BY <1>4, AddDoes DEF Quits, Ended
  <2> HIDE DEF t
  <2> QED BY <1>1, <2>1, <2>2, <2>4, <2>5, SetTypes
<1>5. CASE Remove(c)
  <2> DEFINE t == [mem[c].targets EXCEPT ![cmd[c].alias] = NoTarget]
  <2>1. /\ pc[c] = "loaded" /\ cmd[c].op = "remove"
        /\ cmd[c] \in TargetCommand /\ mem[c].targets \in Table
    BY <1>5, RemoveDoes DEF Remove
  <2>2. StoreOf(cmd[c]) = "targets" /\ InStage("saving", cmd[c]) /\ cmd[c].alias \in Alias
    BY <2>1, TargetOps DEF InStage
  <2>3. t \in Held("targets") /\ "targets" \in Store
    BY <2>1, <2>2, TableWith, Docs DEF Store
  <2>4. Quits(c) \/ Sets(c, "targets", t)
    BY <1>5, RemoveDoes DEF Quits, Ended
  <2> HIDE DEF t
  <2> QED BY <1>1, <2>1, <2>2, <2>3, <2>4, SetTypes
<1>6. CASE Enroll(c)
  <2>1. ASSUME Goto(c, "enrolled"), UNCHANGED <<cmd, mem, loaded, fd>> PROVE Procs'
    BY <2>1 DEF Goto, TypeInv, Procs, Running
  <2> QED BY <1>1, <1>6, <2>1, EnrollDoes, WaitTypes DEF Quits, Ended
<1>7. CASE ReadPolicy(c)
  <2>1. [mem[c] EXCEPT !["policy"] = Policy] \in [Store -> AnyDoc]
    BY Loads, StoreDocs DEF TypeInv, Procs, Store
  <2>2. ASSUME Goto(c, "judging"), UNCHANGED <<cmd, loaded, fd>>,
               mem' = [mem EXCEPT ![c] = [mem[c] EXCEPT !["policy"] = Policy]]
        PROVE  Procs'
    BY <2>1, <2>2 DEF Goto, TypeInv, Procs, Running
  <2> QED BY <1>1, <1>7, <2>2, ReadPolicyDoes, WaitTypes DEF Quits, Ended
<1> QED BY <1>2, <1>3, <1>4, <1>5, <1>6, <1>7

\* The commands on allowed_aaguids.json, up to the save.
LEMMA PolicyDoes ==
  ASSUME TypeInv, NEW c \in Cli, Trust(c) \/ Distrust(c) \/ Clear(c)
  PROVE  /\ pc[c] = "loaded" /\ cmd[c] \in PolicyCommand /\ cmd[c].op # "show"
         /\ mem[c].policy \in Doc("policy")
         /\ \/ Quits(c)
            \/ Trust(c) /\ Sets(c, "policy", mem[c].policy \cup {Lower(cmd[c].aaguid)})
            \/ Distrust(c) /\ Sets(c, "policy", mem[c].policy \ {Lower(cmd[c].aaguid)})
            \/ Clear(c) /\ Sets(c, "policy", {})
<1>1. pc[c] \in Running /\ pc[c] = "loaded" /\ cmd[c].op \in {"trust", "distrust", "clear"}
  BY DEF Trust, Distrust, Clear, Running
<1>2. cmd[c] \in PolicyCommand /\ mem[c].policy \in Doc("policy")
  BY <1>1, Current, OpOf, Docs
<1> QED
  BY <1>1, <1>2 DEF Trust, Distrust, Clear, Sets, SetPolicy, Quits, Ended

LEMMA ThinkPolicy ==
  ASSUME TypeInv, NEW c \in Cli, Show(c) \/ Trust(c) \/ Distrust(c) \/ Clear(c)
  PROVE  Files' /\ Procs' /\ \A d \in Cli : ProcType(d)'
<1>1. CASE Quits(c)
  BY <1>1, QuitTypes
<1>2. CASE Show(c)
  BY <1>1, <1>2 DEF Show, Quits, Ended
<1>3. CASE Trust(c) \/ Distrust(c) \/ Clear(c)
  <2>1. /\ pc[c] = "loaded" /\ pc[c] \in Running /\ cmd[c] \in PolicyCommand
        /\ cmd[c].op # "show" /\ mem[c].policy \in Doc("policy")
    BY <1>3, PolicyDoes DEF Running
  <2>2. StoreOf(cmd[c]) = "policy" /\ InStage("saving", cmd[c]) /\ "policy" \in Store
    BY <2>1, Current, PolicyOps DEF InStage, Store
  <2>3. Trust(c) \/ Distrust(c) => Lower(cmd[c].aaguid) \in Spelling \cup Aaguid
    BY <2>1, PolicyOps, LowerType DEF Trust, Distrust
  <2>4. /\ Trust(c) => mem[c].policy \cup {Lower(cmd[c].aaguid)} \in Held("policy")
        /\ Distrust(c) => mem[c].policy \ {Lower(cmd[c].aaguid)} \in Held("policy")
        /\ {} \in Held("policy")
    BY <2>1, <2>3, Docs
  <2>5. Quits(c) \/ \E d \in Held("policy") : Sets(c, "policy", d)
    BY <1>3, <2>4, PolicyDoes
  <2> QED BY <1>1, <2>1, <2>2, <2>5, SetTypes
<1> QED BY <1>2, <1>3

LEMMA SetupDoes ==
  ASSUME TypeInv, NEW c \in Cli, AppendKey(c)
  PROVE  /\ pc[c] = "loaded" /\ cmd[c] \in SetupCommand
         /\ Sets(c, "keys", KeyList(Read("keys", {})) \cup {cmd[c].key})
         /\ KeyList(Read("keys", {})) \cup {cmd[c].key} \in Held("keys")
<1>1. pc[c] \in Running /\ pc[c] = "loaded" /\ cmd[c].op = "setup"
  BY DEF AppendKey, Running
<1>2. cmd[c] \in SetupCommand
  BY <1>1, Current, OpOf
<1>3. KeyList(Read("keys", {})) \cup {cmd[c].key} \in Held("keys")
  BY <1>2, SetupOps, Loads, Docs
<1> QED BY <1>1, <1>2, <1>3 DEF AppendKey, Sets

LEMMA ThinkSetup ==
  ASSUME TypeInv, NEW c \in Cli, NoDevice(c) \/ AppendKey(c)
  PROVE  Files' /\ Procs' /\ \A d \in Cli : ProcType(d)'
<1>1. CASE NoDevice(c)
  BY <1>1, QuitTypes DEF NoDevice, Quits, Ended
<1>2. CASE AppendKey(c)
  <2>1. pc[c] = "loaded" /\ cmd[c] \in SetupCommand /\ "keys" \in Store
    BY <1>2, SetupDoes DEF Store
  <2>2. StoreOf(cmd[c]) = "keys" /\ InStage("saving", cmd[c])
    BY <2>1, SetupOps DEF InStage
  <2> QED BY <1>2, <2>1, <2>2, SetupDoes, SetTypes
<1> QED BY <1>1, <1>2

\* The steps of a save, each of which changes one inode of one file.
Rewrites(s, i, x) == text' = [text EXCEPT ![s][i] = x]

LEMMA RewriteTypes ==
  ASSUME Files, NEW s \in Store, NEW i \in Inode, NEW x \in TextOf(s), Rewrites(s, i, x),
         file' \in [Store -> Inode \cup {NoInode}], tmp' \in [Store -> Inode \cup {NoInode}]
  PROVE  /\ Files'
         /\ text'[s][i] = x
         /\ \A j \in Inode \ {i} : text'[s][j] = text[s][j]
         /\ \A r \in Store \ {s} : text'[r] = text[r]
<1>1. text[s] \in [Inode -> AnyText] /\ x \in AnyText
  BY StoreDocs DEF Files, TextOf, AnyText
<1>2. text' = [text EXCEPT ![s] = [text[s] EXCEPT ![i] = x]]
  BY DEF Rewrites
<1> DEFINE y == [text[s] EXCEPT ![i] = x]
<1>3. y \in [Inode -> AnyText] /\ y[i] = x /\ \A j \in Inode \ {i} : y[j] = text[s][j]
  BY <1>1
<1> HIDE DEF y
<1>4. text' \in [Store -> [Inode -> AnyText]] /\ text'[s] = y
      /\ \A r \in Store \ {s} : text'[r] = text[r]
  BY <1>2, <1>3 DEF Files, y
<1>5. \A r \in Store, j \in Inode : text'[r][j] \in TextOf(r)
  BY <1>3, <1>4 DEF Files
<1> QED BY <1>3, <1>4, <1>5 DEF Files

LEMMA TextFields ==
  ASSUME NEW s \in Store, NEW x \in TextOf(s)
  PROVE  /\ [Truncated EXCEPT !.private = x.private] \in TextOf(s)
         /\ [Truncated EXCEPT !.private = x.private].size = 0
         /\ Restricted(x) \in TextOf(s) /\ Restricted(x).private
         /\ Restricted(x).doc = x.doc
         /\ Truncated \in TextOf(s)
<1>1. Truncated = [doc |-> NoDoc, size |-> 0, private |-> FALSE]
  BY DEF Truncated, Text
<1>2. [Truncated EXCEPT !.private = x.private] = [doc |-> NoDoc, size |-> 0, private |-> x.private]
  BY <1>1
<1>3. Restricted(x) \in TextOf(s) /\ Restricted(x).private /\ Restricted(x).doc = x.doc
  BY DEF Restricted, TextOf
<1>4. x.private \in BOOLEAN
  BY DEF TextOf
<1>5. [doc |-> NoDoc, size |-> 0, private |-> x.private] \in TextOf(s)
  BY <1>4 DEF TextOf
<1>6. [doc |-> NoDoc, size |-> 0, private |-> FALSE] \in TextOf(s)
  BY DEF TextOf
<1> QED BY <1>1, <1>2, <1>3, <1>5, <1>6

LEMMA OverText ==
  ASSUME NEW s \in Store, NEW x \in TextOf(s), NEW d \in Doc(s), NEW n \in Nat
  PROVE  Over(x, d, n) \in TextOf(s) /\ (x.size = 0 => Over(x, d, n).doc = d)
<1>1. [x EXCEPT !.doc = NoDoc] \in TextOf(s)
  BY DEF TextOf
<1>2. [x EXCEPT !.doc = d, !.size = n] \in TextOf(s) /\ [x EXCEPT !.doc = d, !.size = n].doc = d
  BY DEF TextOf
<1>3. x.size = 0 => ~(x.size > n)
  OBVIOUS
<1> QED BY <1>1, <1>2, <1>3 DEF Over

\* A name is opened for writing.
LEMMA OpenDoes ==
  ASSUME TypeInv, NEW c \in Cli, pc[c] = "saving", NEW s \in Store, s = StoreOf(cmd[c]),
         InStage("opened", cmd[c]), NEW i \in Inode, Opened(c, s, i),
         file' \in [Store -> Inode \cup {NoInode}], tmp' \in [Store -> Inode \cup {NoInode}]
  PROVE  /\ Files' /\ Procs' /\ \A d \in Cli : ProcType(d)'
         /\ Others(c) /\ Is(c, "opened", cmd[c], mem[c], loaded[c], i)
         /\ text'[s][i].size = 0
         /\ \A j \in Inode \ {i} : text'[s][j] = text[s][j]
         /\ \A r \in Store \ {s} : text'[r] = text[r]
<1> DEFINE x == [Truncated EXCEPT !.private = text[s][i].private]
<1>1. x \in TextOf(s) /\ x.size = 0 /\ Rewrites(s, i, x)
  BY TextFields DEF TypeInv, Files, Opened, Rewrites
<1> HIDE DEF x
<1>2. /\ Files' /\ text'[s][i].size = 0
      /\ \A j \in Inode \ {i} : text'[s][j] = text[s][j]
      /\ \A r \in Store \ {s} : text'[r] = text[r]
  BY <1>1, RewriteTypes DEF TypeInv
<1>3. pc[c] \in Running /\ cmd[c] \in Command /\ mem[c][s] \in Held(s) /\ ProcType(c)
  BY Current DEF Running, TypeInv
<1>4. Procs' /\ Others(c) /\ Is(c, "opened", cmd[c], mem[c], loaded[c], i)
  BY DEF TypeInv, Procs, Opened, Goto, Others, Same, Is, Running
<1>5. ProcType(c)'
  BY <1>3, <1>4 DEF ProcType, Is, Running
<1> QED BY <1>2, <1>4, <1>5, SameType DEF TypeInv, Others

\* The document is written to what is open, and its descriptor is closed.
LEMMA WriteDoes ==
  ASSUME TypeInv, NEW c \in Cli, pc[c] = "opened", NEW s \in Store, s = StoreOf(cmd[c]),
         InStage("written", cmd[c]), NEW n \in Nat, Written(c, s, n)
  PROVE  /\ Files' /\ Procs' /\ \A d \in Cli : ProcType(d)'
         /\ Others(c) /\ Is(c, "written", cmd[c], mem[c], loaded[c], NoInode)
         /\ fd[c] \in Inode /\ UNCHANGED <<file, tmp>>
         /\ text[s][fd[c]].size = 0 => text'[s][fd[c]].doc = mem[c][s]
         /\ \A j \in Inode \ {fd[c]} : text'[s][j] = text[s][j]
         /\ \A r \in Store \ {s} : text'[r] = text[r]
<1>1. pc[c] \in Running /\ cmd[c] \in Command /\ mem[c][s] \in Held(s) /\ ProcType(c)
  BY Current DEF Running, TypeInv
<1>2. fd[c] \in Inode /\ mem[c][s] \in Doc(s)
  BY <1>1, NoDocIsNone DEF ProcType, TypeInv, Procs
<1> DEFINE x == Over(text[s][fd[c]], mem[c][s], n)
<1>3. x \in TextOf(s) /\ (text[s][fd[c]].size = 0 => x.doc = mem[c][s])
  <2>1. text[s][fd[c]] \in TextOf(s)
    BY <1>2 DEF TypeInv, Files
  <2> QED BY <1>2, <2>1, OverText
<1>4. Rewrites(s, fd[c], x)
  BY <1>2 DEF Written, Rewrites, TypeInv, Files
<1> HIDE DEF x
<1>5. /\ Files' /\ text'[s][fd[c]] = x /\ UNCHANGED <<file, tmp>>
      /\ \A j \in Inode \ {fd[c]} : text'[s][j] = text[s][j]
      /\ \A r \in Store \ {s} : text'[r] = text[r]
  <2>1. UNCHANGED <<file, tmp>> /\ Files
    BY DEF TypeInv, Written
  <2> QED BY <1>2, <1>3, <1>4, <2>1, RewriteTypes DEF Files
<1>6. Procs' /\ Others(c) /\ Is(c, "written", cmd[c], mem[c], loaded[c], NoInode)
  BY DEF TypeInv, Procs, Written, Goto, Others, Same, Is, Running
<1>7. ProcType(c)'
  BY <1>1, <1>6 DEF ProcType, Is, Running
<1> QED BY <1>2, <1>3, <1>5, <1>6, <1>7, SameType DEF TypeInv, Others

LEMMA ChmodDoes ==
  ASSUME TypeInv, NEW c \in Cli, NEW s \in Store, s = StoreOf(cmd[c]),
         InStage("restricted", cmd[c]), Chmod(c, s), tmp[s] # NoInode
  PROVE  /\ Files' /\ Procs' /\ \A d \in Cli : ProcType(d)'
         /\ Others(c) /\ Is(c, "restricted", cmd[c], mem[c], loaded[c], fd[c])
         /\ tmp[s] \in Inode /\ UNCHANGED <<file, tmp>>
         /\ text'[s][tmp[s]].private /\ text'[s][tmp[s]].doc = text[s][tmp[s]].doc
         /\ \A j \in Inode \ {tmp[s]} : text'[s][j] = text[s][j]
         /\ \A r \in Store \ {s} : text'[r] = text[r]
<1>1. pc[c] = "written" /\ pc[c] \in Running
  BY DEF Chmod, Running
<1>2. cmd[c] \in Command /\ mem[c][s] \in Held(s) /\ ProcType(c) /\ tmp[s] \in Inode
  BY <1>1, Current DEF TypeInv, Files
<1> DEFINE x == Restricted(text[s][tmp[s]])
<1>3. x \in TextOf(s) /\ x.private /\ x.doc = text[s][tmp[s]].doc
  BY <1>2, TextFields DEF TypeInv, Files
<1>4. Rewrites(s, tmp[s], x)
  BY <1>2 DEF Chmod, Rewrites, TypeInv, Files
<1> HIDE DEF x
<1>5. /\ Files' /\ text'[s][tmp[s]] = x /\ UNCHANGED <<file, tmp>>
      /\ \A j \in Inode \ {tmp[s]} : text'[s][j] = text[s][j]
      /\ \A r \in Store \ {s} : text'[r] = text[r]
  BY <1>2, <1>3, <1>4, RewriteTypes DEF TypeInv, Files, Chmod
<1>6. Procs' /\ Others(c) /\ Is(c, "restricted", cmd[c], mem[c], loaded[c], fd[c])
  BY DEF TypeInv, Procs, Chmod, Goto, Others, Same, Is, Running
<1>7. ProcType(c)'
  BY <1>1, <1>2, <1>6 DEF ProcType, Is, Running
<1> QED BY <1>2, <1>3, <1>5, <1>6, <1>7, SameType DEF TypeInv, Others

LEMMA ReplaceDoes ==
  ASSUME TypeInv, NEW c \in Cli, NEW s \in Store, Replace(c, s), tmp[s] # NoInode
  PROVE  /\ Files' /\ Procs' /\ \A d \in Cli : ProcType(d)'
         /\ Others(c) /\ Is(c, "done", NoCmd, Nothing, NoDoc, NoInode)
         /\ file'[s] = tmp[s] /\ tmp'[s] = NoInode
         /\ \A j \in Inode \ {file[s]} : text'[s][j] = text[s][j]
         /\ \A r \in Store \ {s} : text'[r] = text[r] /\ file'[r] = file[r] /\ tmp'[r] = tmp[r]
<1>1. /\ file' = [file EXCEPT ![s] = tmp[s]] /\ tmp' = [tmp EXCEPT ![s] = NoInode]
      /\ text' = [text EXCEPT ![s] =
                     [i \in Inode |-> IF i = file[s] THEN Truncated ELSE text[s][i]]]
      /\ End(c, "done")
  BY DEF Replace
<1> DEFINE y == [i \in Inode |-> IF i = file[s] THEN Truncated ELSE text[s][i]]
<1>2. \A i \in Inode : y[i] \in TextOf(s) /\ y[i] \in AnyText
  <2>1. \A i \in Inode : text[s][i] \in TextOf(s)
    BY DEF TypeInv, Files
  <2>2. \A i \in Inode : y[i] \in TextOf(s)
    BY <2>1, TextFields
  <2>3. TextOf(s) \subseteq AnyText
    BY StoreDocs DEF TextOf, AnyText
  <2> QED BY <2>2, <2>3
<1>3. y \in [Inode -> AnyText] /\ \A j \in Inode \ {file[s]} : y[j] = text[s][j]
  BY <1>2
<1> HIDE DEF y
<1>4. text' \in [Store -> [Inode -> AnyText]] /\ text'[s] = y
      /\ \A r \in Store \ {s} : text'[r] = text[r]
  BY <1>1, <1>3 DEF TypeInv, Files, y
<1>5. Files'
  BY <1>1, <1>2, <1>4 DEF TypeInv, Files
<1>6. Procs' /\ (\A d \in Cli : ProcType(d)') /\ Others(c)
      /\ Is(c, "done", NoCmd, Nothing, NoDoc, NoInode)
  BY <1>1, EndTypes, EndIs DEF TypeInv, Ended
<1> QED BY <1>1, <1>3, <1>4, <1>5, <1>6 DEF TypeInv, Files

LEMMA NextStage ==
  ASSUME TypeInv, NEW c \in Cli, pc[c] \in {"saving", "opened", "written"},
         NEW p \in {"opened", "written", "restricted"},
         p = "opened" \/ StoreOf(cmd[c]) # "keys"
  PROVE  InStage(p, cmd[c])
<1>1. cmd[c] \in Command /\ InStage(pc[c], cmd[c])
      /\ (StoreOf(cmd[c]) # "keys" => cmd[c].op # "setup")
  BY Current, OpOf DEF Running
<1> QED BY <1>1 DEF InStage

\* The file that is opened, a temporary one or the keys, by an inode that no other name has.
LEMMA OpenTmpDoes ==
  ASSUME TypeInv, NEW c \in Cli, NEW s \in {"targets", "policy"}, s = StoreOf(cmd[c]), OpenTmp(c, s)
  PROVE  /\ Files' /\ Procs' /\ \A d \in Cli : ProcType(d)'
         /\ Others(c) /\ \E i \in Inode :
              /\ i = tmp[s] \/ (tmp[s] = NoInode /\ i \in Free(s))
              /\ Is(c, "opened", cmd[c], mem[c], loaded[c], i)
              /\ tmp'[s] = i /\ file' = file
              /\ text'[s][i].size = 0
              /\ \A j \in Inode \ {i} : text'[s][j] = text[s][j]
         /\ \A r \in Store \ {s} : text'[r] = text[r] /\ tmp'[r] = tmp[r]
<1>1. s \in Store /\ pc[c] = "saving" /\ InStage("opened", cmd[c]) /\ Files
  BY NextStage DEF Store, OpenTmp, TypeInv
<1>2. PICK i \in IF WrittenName(s) # NoInode THEN {WrittenName(s)} ELSE Free(s) :
        tmp' = [tmp EXCEPT ![s] = i] /\ Opened(c, s, i)
  BY DEF OpenTmp
<1>3. i \in Inode /\ (i = tmp[s] \/ (tmp[s] = NoInode /\ i \in Free(s)))
  BY <1>1, <1>2 DEF WrittenName, Free, Files
<1>4. /\ tmp' \in [Store -> Inode \cup {NoInode}] /\ tmp'[s] = i
      /\ \A r \in Store \ {s} : tmp'[r] = tmp[r]
      /\ file' = file /\ file' \in [Store -> Inode \cup {NoInode}]
  BY <1>1, <1>2, <1>3 DEF Files, OpenTmp
<1>5. /\ Files' /\ Procs' /\ \A d \in Cli : ProcType(d)'
      /\ Others(c) /\ Is(c, "opened", cmd[c], mem[c], loaded[c], i)
      /\ text'[s][i].size = 0
      /\ \A j \in Inode \ {i} : text'[s][j] = text[s][j]
      /\ \A r \in Store \ {s} : text'[r] = text[r]
  BY <1>1, <1>2, <1>3, <1>4, OpenDoes
<1> QED BY <1>3, <1>4, <1>5

LEMMA OpenKeysDoes ==
  ASSUME TypeInv, NEW c \in Cli, StoreOf(cmd[c]) = "keys", OpenKeys(c)
  PROVE  /\ Files' /\ Procs' /\ \A d \in Cli : ProcType(d)'
         /\ Others(c) /\ enrolled' = enrolled
         /\ Is(c, "opened", cmd[c], mem[c], loaded[c], file'["keys"])
         /\ file'["keys"] \in Inode /\ text'["keys"][file'["keys"]].size = 0
         /\ \A r \in Store \ {"keys"} : text'[r] = text[r] /\ file'[r] = file[r] /\ tmp'[r] = tmp[r]
<1> DEFINE s == "keys"
<1>1. s \in Store /\ s = StoreOf(cmd[c]) /\ pc[c] = "saving" /\ InStage("opened", cmd[c]) /\ Files
  BY NextStage DEF Store, OpenKeys, TypeInv
<1>2. PICK i \in IF file[s] # NoInode THEN {file[s]} ELSE Free(s) :
        file' = [file EXCEPT ![s] = i] /\ Opened(c, s, i)
  BY DEF OpenKeys
<1>3. i \in Inode
  BY <1>1, <1>2 DEF Free, Files
<1>4. /\ file' \in [Store -> Inode \cup {NoInode}] /\ file'[s] = i
      /\ \A r \in Store \ {s} : file'[r] = file[r]
      /\ tmp' = tmp /\ tmp' \in [Store -> Inode \cup {NoInode}] /\ enrolled' = enrolled
  BY <1>1, <1>2, <1>3 DEF Files, OpenKeys
<1> HIDE DEF s
<1>5. /\ Files' /\ Procs' /\ \A d \in Cli : ProcType(d)'
      /\ Others(c) /\ Is(c, "opened", cmd[c], mem[c], loaded[c], i)
      /\ text'[s][i].size = 0
      /\ \A r \in Store \ {s} : text'[r] = text[r]
  BY <1>1, <1>2, <1>3, <1>4, OpenDoes
<1> QED BY <1>3, <1>4, <1>5 DEF s

LEMMA WriteKeysDoes ==
  ASSUME TypeInv, NEW c \in Cli, StoreOf(cmd[c]) = "keys", WriteKeys(c)
  PROVE  /\ Files' /\ Procs' /\ \A d \in Cli : ProcType(d)'
         /\ Others(c) /\ Is(c, "done", NoCmd, Nothing, NoDoc, NoInode)
         /\ cmd[c].key \in Key /\ enrolled' = enrolled \cup {cmd[c].key}
         /\ fd[c] \in Inode /\ UNCHANGED <<file, tmp>>
         /\ text["keys"][fd[c]].size = 0 => text'["keys"][fd[c]].doc = mem[c]["keys"]
         /\ \A r \in Store \ {"keys"} : text'[r] = text[r]
<1> DEFINE s == "keys"
<1>1. pc[c] = "opened" /\ pc[c] \in Running /\ s \in Store /\ Files
  BY DEF WriteKeys, Running, Store, TypeInv
<1>2. cmd[c] \in SetupCommand /\ mem[c][s] \in Doc(s) /\ fd[c] \in Inode
  BY <1>1, Current, Commands, Docs DEF TypeInv, ProcType, Procs
<1> DEFINE n == 1 + Cardinality(mem[c][s])
           x == Over(text[s][fd[c]], mem[c][s], n)
<1>3. n \in Nat
  BY <1>2, OtherSizes
<1>4. text[s][fd[c]] \in TextOf(s)
  BY <1>1, <1>2 DEF Files
<1>5. /\ Rewrites(s, fd[c], x) /\ End(c, "done") /\ UNCHANGED <<file, tmp>>
      /\ enrolled' = enrolled \cup {cmd[c].key}
  BY <1>1, <1>2 DEF WriteKeys, Rewrites, Files
<1> HIDE DEF s, n
<1>6. x \in TextOf(s) /\ (text[s][fd[c]].size = 0 => x.doc = mem[c][s])
  BY <1>1, <1>2, <1>3, <1>4, OverText
<1> HIDE DEF x
<1>7. Files' /\ text'[s][fd[c]] = x /\ \A r \in Store \ {s} : text'[r] = text[r]
  BY <1>1, <1>2, <1>5, <1>6, RewriteTypes DEF Files
<1>8. Procs' /\ (\A d \in Cli : ProcType(d)') /\ Others(c)
      /\ Is(c, "done", NoCmd, Nothing, NoDoc, NoInode)
  BY <1>5, EndTypes, EndIs DEF TypeInv, Ended
<1> QED BY <1>2, <1>5, <1>6, <1>7, <1>8, SetupOps DEF s

\* Each way a save of targets.json or allowed_aaguids.json goes on.
SaveStep(c, s) ==
  \/ OpenTmp(c, s)
  \/ \E n \in Nat : WriteTmp(c, s, n)
  \/ Chmod(c, s) /\ tmp[s] # NoInode
  \/ Replace(c, s) /\ tmp[s] # NoInode

LEMMA SaveTypes ==
  ASSUME TypeInv, NEW c \in Cli, NEW s \in {"targets", "policy"}, s = StoreOf(cmd[c]),
         SaveStep(c, s)
  PROVE  Files' /\ Procs' /\ \A d \in Cli : ProcType(d)'
<1>1. s \in Store
  BY DEF Store
<1>2. CASE OpenTmp(c, s)
  BY <1>2, OpenTmpDoes
<1>3. ASSUME NEW n \in Nat, WriteTmp(c, s, n) PROVE Files' /\ Procs' /\ \A d \in Cli : ProcType(d)'
  <2>1. pc[c] = "opened" /\ Written(c, s, n)
    BY <1>3 DEF WriteTmp
  <2>2. InStage("written", cmd[c])
    BY <2>1, NextStage
  <2> QED BY <1>1, <2>1, <2>2, WriteDoes
<1>4. CASE Chmod(c, s) /\ tmp[s] # NoInode
  <2>1. pc[c] = "written"
    BY <1>4 DEF Chmod
  <2>2. InStage("restricted", cmd[c])
    BY <2>1, NextStage
  <2> QED BY <1>1, <1>4, <2>2, ChmodDoes
<1>5. CASE Replace(c, s) /\ tmp[s] # NoInode
  BY <1>1, <1>5, ReplaceDoes
<1> QED BY <1>2, <1>3, <1>4, <1>5 DEF SaveStep

LEMMA SaveTargetsDoes ==
  ASSUME TypeInv, NEW c \in Cli, SaveTargets(c)
  PROVE  /\ pc[c] \in Running /\ StoreOf(cmd[c]) = "targets"
         /\ \/ SaveUnchanged(c)
            \/ SaveStep(c, "targets")
            \/ (Chmod(c, "targets") \/ Replace(c, "targets")) /\ tmp["targets"] = NoInode
<1>1. pc[c] \in Running /\ StoreOf(cmd[c]) = "targets"
  BY DEF SaveTargets
<1>2. mem[c]["targets"] \in Table
  BY <1>1, Current, Docs
<1>3. TableSize(mem[c]["targets"]) \in Nat
  BY <1>2, TableSizeType
<1> QED BY <1>1, <1>3 DEF SaveTargets, SaveStep

LEMMA SavePolicyDoes ==
  ASSUME TypeInv, NEW c \in Cli, SavePolicy(c)
  PROVE  /\ pc[c] \in Running /\ StoreOf(cmd[c]) = "policy"
         /\ \/ SaveStep(c, "policy")
            \/ (Chmod(c, "policy") \/ Replace(c, "policy")) /\ tmp["policy"] = NoInode
<1>1. pc[c] \in Running /\ StoreOf(cmd[c]) = "policy"
  BY DEF SavePolicy
<1>2. mem[c]["policy"] \in Doc("policy")
  BY <1>1, Current, Docs
<1>3. 1 + Cardinality(mem[c]["policy"]) \in Nat
  BY <1>2, OtherSizes
<1> QED BY <1>1, <1>3 DEF SavePolicy, SaveStep

LEMMA NoTmpQuits ==
  ASSUME NEW c \in Cli, NEW s \in Store, (Chmod(c, s) \/ Replace(c, s)) /\ tmp[s] = NoInode
  PROVE  Quits(c)
BY DEF Chmod, Replace, Quits, Ended, disk

-----------------------------------------------------------------------------
(***************************************************************************)
(* The steps of Next, as later proofs take them apart.                     *)
(***************************************************************************)
ThinkTarget(c) ==
  List(c) \/ Add(c) \/ Remove(c) \/ Enroll(c) \/ ReadPolicy(c) \/ Register(c)
ThinkList(c) == Show(c) \/ Trust(c) \/ Distrust(c) \/ Clear(c)
Saves(c) ==
  pc[c] \in Running /\ \E s \in {"targets", "policy"} : StoreOf(cmd[c]) = s /\ SaveStep(c, s)
Stops(c) ==
  /\ pc[c] \in Running /\ StoreOf(cmd[c]) # "keys"
  /\ \/ SaveUnchanged(c) /\ StoreOf(cmd[c]) = "targets"
     \/ KillCommand(c)
     \/ \E s \in Store : (Chmod(c, s) \/ Replace(c, s)) /\ tmp[s] = NoInode

LEMMA Steps ==
  ASSUME TypeInv, [Next]_vars
  PROVE  \/ UNCHANGED vars
         \/ \E c \in Cli :
              \/ Begin(c)
              \/ (ThinkTarget(c) \/ ThinkList(c) \/ Saves(c) \/ Stops(c))
                 /\ UNCHANGED <<enrolled, begun>>
              \/ (SetupStep(c) \/ KillSetup(c)) /\ UNCHANGED begun
<1>1. ASSUME NEW c \in Cli, TargetStep(c) PROVE ThinkTarget(c) \/ Saves(c) \/ Stops(c)
  <2>1. CASE SaveTargets(c)
    BY <2>1, SaveTargetsDoes DEF Saves, Stops, Store
  <2> QED BY <1>1, <2>1 DEF TargetStep, ThinkTarget
<1>2. ASSUME NEW c \in Cli, PolicyStep(c) PROVE ThinkList(c) \/ Saves(c) \/ Stops(c)
  <2>1. CASE SavePolicy(c)
    BY <2>1, SavePolicyDoes DEF Saves, Stops, Store
  <2> QED BY <1>2, <2>1 DEF PolicyStep, ThinkList
<1>3. ASSUME NEW c \in Cli, KillCommand(c) PROVE Stops(c)
  BY <1>3 DEF KillCommand, Stops
<1> QED BY <1>1, <1>2, <1>3 DEF Next, Step

LEMMA StopQuits == ASSUME NEW c \in Cli, Stops(c) PROVE Quits(c)
BY NoTmpQuits DEF Stops, SaveUnchanged, KillCommand, Kill, Quits, Ended

LEMMA SetupTypes ==
  ASSUME TypeInv, NEW c \in Cli, SetupStep(c) \/ KillSetup(c), UNCHANGED begun PROVE TypeInv'
<1>1. CASE NoDevice(c) \/ AppendKey(c)
  BY <1>1, ThinkSetup DEF NoDevice, AppendKey, TypeInv
<1>2. CASE SaveKeys(c)
  <2>1. StoreOf(cmd[c]) = "keys"
    BY <1>2 DEF SaveKeys
  <2>2. CASE OpenKeys(c)
    BY <2>1, <2>2, OpenKeysDoes DEF TypeInv
  <2>3. CASE WriteKeys(c)
    BY <2>1, <2>3, WriteKeysDoes DEF TypeInv
  <2> QED BY <1>2, <2>2, <2>3 DEF SaveKeys
<1>3. CASE KillSetup(c)
  <2>1. Quits(c) /\ (enrolled' = {} \/ enrolled' = enrolled)
    BY <1>3 DEF KillSetup, Kill, Quits, Ended
  <2>2. Files' /\ Procs' /\ \A d \in Cli : ProcType(d)'
    BY <2>1, QuitTypes
  <2> QED BY <2>1, <2>2 DEF TypeInv
<1> QED BY <1>1, <1>2, <1>3 DEF SetupStep

LEMMA TypeStep == TypeInv /\ [Next]_vars => TypeInv'
<1> SUFFICES ASSUME TypeInv, [Next]_vars PROVE TypeInv'
  OBVIOUS
<1>1. CASE UNCHANGED vars
  <2>1. Files' /\ Procs'
    BY <1>1 DEF TypeInv, Files, Procs, vars, disk
  <2>2. \A d \in Cli : ProcType(d)'
    BY <1>1, SameType DEF TypeInv, vars, Same, Is
  <2> QED BY <1>1, <2>1, <2>2 DEF TypeInv, vars
<1>2. ASSUME NEW c \in Cli, ThinkTarget(c) \/ ThinkList(c) \/ Saves(c) \/ Stops(c),
             UNCHANGED <<enrolled, begun>>
      PROVE  TypeInv'
  <2>1. Files' /\ Procs' /\ \A d \in Cli : ProcType(d)'
    BY <1>2, ThinkTargets, ThinkPolicy, SaveTypes, StopQuits, QuitTypes
       DEF ThinkTarget, ThinkList, Saves
  <2> QED BY <1>2, <2>1 DEF TypeInv
<1> QED BY <1>1, <1>2, Steps, BeginTypes, SetupTypes

LEMMA InitTypes == Init => TypeInv
<1> SUFFICES ASSUME Init PROVE TypeInv
  OBVIOUS
<1>1. Procs
  <2>1. Nothing \in [Store -> AnyDoc]
    BY DEF Nothing, AnyDoc
  <2> QED BY <2>1 DEF Init, Procs, Ended
<1>2. ASSUME NEW c \in Cli PROVE ProcType(c)
  BY <1>2 DEF Init, ProcType, Running, Nothing
<1>3. PICK t \in EarlierTables, p \in EarlierPolicies :
        text = [s \in Store |-> [i \in Inode |->
                  IF i # file[s] THEN Truncated
                  ELSE IF s = "targets" THEN Text(t, TableSize(Parsed(t)))
                  ELSE Text(p, 1 + Cardinality(p))]]
  BY DEF Init
<1>4. t \in Doc("targets") /\ p \in Doc("policy")
  BY EarlierAssumption, Docs
<1>5. TableSize(Parsed(t)) \in Nat /\ 1 + Cardinality(p) \in Nat
  BY <1>4, ParsedType, TableSizeType, OtherSizes
<1>6. ASSUME NEW s \in Store, NEW i \in Inode
      PROVE  text[s][i] \in TextOf(s) /\ text[s][i] \in AnyText
  <2>1. Truncated \in TextOf(s)
    BY DEF Truncated, Text, TextOf
  <2>2. /\ Text(t, TableSize(Parsed(t))) \in TextOf("targets")
        /\ Text(p, 1 + Cardinality(p)) \in TextOf("policy")
    BY <1>4, <1>5 DEF Text, TextOf
  <2>3. file["keys"] = NoInode
    BY DEF Init
  <2>4. text[s][i] \in TextOf(s)
    BY <1>3, <2>1, <2>2, <2>3 DEF Store
  <2>5. TextOf(s) \subseteq AnyText
    BY StoreDocs DEF TextOf, AnyText
  <2> QED BY <2>4, <2>5
<1>7. Files
  <2>1. text \in [Store -> [Inode -> AnyText]]
    BY <1>3, <1>6
  <2> QED BY <1>6, <2>1 DEF Files, Init
<1> QED BY <1>1, <1>2, <1>7 DEF TypeInv, Init


-----------------------------------------------------------------------------
(***************************************************************************)
(* A step concerns one process and the file of its command.                *)
(***************************************************************************)
AtRest(r) == file'[r] = file[r] /\ tmp'[r] = tmp[r] /\ text'[r] = text[r]
Apart(c) == Others(c) /\ \A r \in Store : r # StoreOf(cmd[c]) => AtRest(r)

LEMMA DiskAtRest == ASSUME UNCHANGED disk PROVE \A r \in Store : AtRest(r)
BY DEF disk, AtRest

\* The document that a command loads, and what _load keeps of the text.
LoadedDoc(k) == CASE StoreOf(k) = "targets" -> Targets
                  [] StoreOf(k) = "policy" -> Policy
                  [] StoreOf(k) = "keys" -> {}
Payload(k) == IF StoreOf(k) = "targets" THEN Read("targets", NoDoc) ELSE NoDoc

Loaded(c, k) ==
  Is(c, "loaded", k, [mem[c] EXCEPT ![StoreOf(k)] = LoadedDoc(k)], Payload(k), fd[c])

LEMMA BeginDoes ==
  ASSUME TypeInv, NEW c \in Cli, Begin(c)
  PROVE  /\ pc[c] \in Ended /\ UNCHANGED <<disk, enrolled>> /\ Others(c)
         /\ \/ End(c, "idle")
            \/ \E k \in Command : (Serial => ~Busy(k)) /\ Loaded(c, k)
<1>1. PICK k \in Command :
        /\ UNCHANGED enrolled
        /\ Start(c, k, NoDoc, NoDoc) \/ Start(c, k, LoadedDoc(k), Payload(k))
  <2>1. ASSUME NEW k \in TargetCommand \cup RegisterCommand, LoadTargets(c, k), UNCHANGED enrolled
        PROVE  k \in Command /\ Start(c, k, LoadedDoc(k), Payload(k))
    BY <2>1, TargetOps DEF LoadTargets, LoadedDoc, Payload
  <2>2. ASSUME NEW k \in PolicyCommand, LoadPolicy(c, k), UNCHANGED enrolled
        PROVE  /\ k \in Command
               /\ Start(c, k, NoDoc, NoDoc) \/ Start(c, k, LoadedDoc(k), Payload(k))
    BY <2>2, PolicyOps DEF LoadPolicy, LoadedDoc, Payload
  <2>3. ASSUME NEW k \in SetupCommand, LoadKeys(c, k)
        PROVE  k \in Command /\ UNCHANGED enrolled /\ Start(c, k, LoadedDoc(k), Payload(k))
    BY <2>3, SetupOps DEF LoadKeys, LoadedDoc, Payload
  <2> QED BY <2>1, <2>2, <2>3 DEF Begin
<1>2. pc[c] \in Ended /\ UNCHANGED <<disk, enrolled>> /\ (Serial => ~Busy(k))
  BY <1>1 DEF Start
<1>3. LoadedDoc(k) \in Doc(StoreOf(k)) \cup {NoDoc} /\ Payload(k) \in Doc("targets") \cup {NoDoc}
  <2>1. {} \in Doc("keys")
    BY Docs
  <2>2. StoreOf(k) \in {"targets", "policy", "keys"}
    BY Commands DEF Store
  <2>3. Targets \in Doc("targets") \cup {NoDoc} /\ Policy \in Doc("policy") \cup {NoDoc}
    BY Loads, Docs
  <2> QED BY <2>1, <2>2, <2>3, Loads DEF LoadedDoc, Payload
<1>4. CASE End(c, "idle")
  BY <1>2, <1>4, EndIs DEF TypeInv, Ended
<1>5. CASE Start(c, k, LoadedDoc(k), Payload(k)) /\ LoadedDoc(k) # NoDoc
  BY <1>2, <1>3, <1>5, StartIs DEF TypeInv, Loaded
<1> QED BY <1>1, <1>4, <1>5 DEF Start

LEMMA SetsApart ==
  ASSUME TypeInv, NEW c \in Cli, pc[c] \in Running, NEW d \in Held(StoreOf(cmd[c])),
         Sets(c, StoreOf(cmd[c]), d)
  PROVE  /\ UNCHANGED disk /\ Apart(c)
         /\ Is(c, "saving", cmd[c], [mem[c] EXCEPT ![StoreOf(cmd[c])] = d], loaded[c], fd[c])
BY Current, ThinkIs, DiskAtRest DEF Sets, Apart

LEMMA QuitsApart ==
  ASSUME TypeInv, NEW c \in Cli, Quits(c)
  PROVE  /\ UNCHANGED disk /\ Apart(c)
         /\ \E how \in Ended : Is(c, how, NoCmd, Nothing, NoDoc, NoInode)
BY EndIs, DiskAtRest DEF Quits, TypeInv, Apart

\* Whatever a command does before it saves, it ends, waits for a person or sets its document.
After(k, t) ==
  IF k.op = "add" THEN [t EXCEPT ![k.alias] = [host |-> k.host, creds |-> {}]]
  ELSE [t EXCEPT ![k.alias] = NoTarget]
AfterPolicy(k, p) ==
  IF k.op = "trust" THEN p \cup {Lower(k.aaguid)}
  ELSE IF k.op = "distrust" THEN p \ {Lower(k.aaguid)}
  ELSE {}

LEMMA TargetThinks ==
  ASSUME TypeInv, NEW c \in Cli, ThinkTarget(c)
  PROVE  /\ pc[c] \in Thinking /\ StoreOf(cmd[c]) = "targets"
         /\ UNCHANGED disk /\ Apart(c)
         /\ \/ Quits(c)
            \/ \E m : Waits(c, m) /\ m["targets"] = mem[c]["targets"]
            \/ /\ cmd[c].op \in {"add", "remove"} /\ pc[c] = "loaded"
               /\ Is(c, "saving", cmd[c],
                    [mem[c] EXCEPT !["targets"] = After(cmd[c], mem[c]["targets"])],
                    loaded[c], fd[c])
<1>1. CASE Quits(c) /\ pc[c] \in Thinking /\ StoreOf(cmd[c]) = "targets"
  BY <1>1, QuitsApart
<1>2. pc[c] \in Thinking /\ StoreOf(cmd[c]) = "targets"
  <2>1. pc[c] \in Thinking /\ pc[c] \in Running
    BY DEF ThinkTarget, List, Add, Remove, Enroll, Prompt, ReadPolicy, Register, Thinking, Running
  <2>2. cmd[c].op \in {"add", "remove", "list", "register"}
    BY <2>1, Current DEF ThinkTarget, List, Add, Remove, Enroll, Prompt, ReadPolicy, Register, InStage
  <2> QED BY <2>1, <2>2, Current, OpOf
<1>3. CASE List(c) \/ Register(c)
  BY <1>1, <1>2, <1>3, RegisterDoes DEF List, Quits, Ended
<1>4. CASE Add(c) \/ Remove(c)
  <2>1. /\ cmd[c] \in TargetCommand /\ cmd[c].op \in {"add", "remove"} /\ pc[c] = "loaded"
        /\ mem[c].targets \in Table /\ pc[c] \in Running
    BY <1>4, AddDoes, RemoveDoes DEF Add, Remove, Running
  <2> DEFINE t == After(cmd[c], mem[c].targets)
  <2>2. Quits(c) \/ Sets(c, "targets", t)
    BY <1>4, AddDoes, RemoveDoes DEF Add, Remove, Quits, Ended, After
  <2>3. t \in Held("targets")
    <3>1. cmd[c].alias \in Alias /\ (cmd[c].op = "add" => cmd[c].host \in Host)
      BY <2>1, TargetOps
    <3>2. cmd[c].op = "add" => [host |-> cmd[c].host, creds |-> {}] \in Target \cup {NoTarget}
      BY <3>1 DEF Target
    <3> QED BY <2>1, <3>1, <3>2, TableWith, Docs DEF After
  <2> HIDE DEF t
  <2>4. CASE Sets(c, "targets", t)
    <3>1. /\ UNCHANGED disk /\ Apart(c)
          /\ Is(c, "saving", cmd[c], [mem[c] EXCEPT !["targets"] = t], loaded[c], fd[c])
      BY <1>2, <2>1, <2>3, <2>4, SetsApart
    <3> QED BY <1>2, <2>1, <3>1 DEF t
  <2> QED BY <1>1, <1>2, <2>2, <2>4
<1>5. CASE Enroll(c) \/ ReadPolicy(c)
  <2>1. [mem[c] EXCEPT !["policy"] = Policy]["targets"] = mem[c]["targets"]
    BY DEF TypeInv, Procs, Store
  <2>2. /\ UNCHANGED disk
        /\ End(c, "idle") \/ \E m : Waits(c, m) /\ m["targets"] = mem[c]["targets"]
    BY <1>5, <2>1, EnrollDoes, ReadPolicyDoes
  <2>3. CASE End(c, "idle")
    BY <1>1, <1>2, <2>2, <2>3 DEF Quits, Ended
  <2>4. ASSUME NEW m, Waits(c, m) PROVE Apart(c)
    BY <2>2, <2>4, DiskAtRest DEF Waits, Apart
  <2> QED BY <1>2, <2>2, <2>3, <2>4
<1> QED BY <1>3, <1>4, <1>5 DEF ThinkTarget

LEMMA PolicyThinks ==
  ASSUME TypeInv, NEW c \in Cli, ThinkList(c)
  PROVE  /\ pc[c] = "loaded" /\ StoreOf(cmd[c]) = "policy"
         /\ UNCHANGED disk /\ Apart(c)
         /\ \/ Quits(c)
            \/ Is(c, "saving", cmd[c],
                 [mem[c] EXCEPT !["policy"] = AfterPolicy(cmd[c], mem[c]["policy"])],
                 loaded[c], fd[c])
<1>1. /\ pc[c] = "loaded" /\ pc[c] \in Running
      /\ StoreOf(cmd[c]) = "policy" /\ cmd[c] \in PolicyCommand
  <2>1. /\ pc[c] = "loaded" /\ pc[c] \in Running
        /\ cmd[c].op \in {"trust", "distrust", "clear", "show"}
    BY DEF ThinkList, Show, Trust, Distrust, Clear, Running
  <2> QED BY <2>1, Current, OpOf
<1>2. CASE Quits(c)
  BY <1>1, <1>2, QuitsApart
<1>3. CASE Show(c)
  BY <1>2, <1>3 DEF Show, Quits, Ended
<1>4. CASE Trust(c) \/ Distrust(c) \/ Clear(c)
  <2> DEFINE p == AfterPolicy(cmd[c], mem[c]["policy"])
  <2>1. Quits(c) \/ Sets(c, "policy", p)
    BY <1>4, PolicyDoes DEF Trust, Distrust, Clear, AfterPolicy
  <2>2. p \in Held("policy")
    <3>1. mem[c]["policy"] \in Doc("policy")
      BY <1>4, PolicyDoes
    <3>2. cmd[c].op \in {"trust", "distrust"} => Lower(cmd[c].aaguid) \in Spelling \cup Aaguid
      BY <1>1, PolicyOps, LowerType
    <3> QED BY <3>1, <3>2, Docs DEF AfterPolicy
  <2> HIDE DEF p
  <2>3. CASE Sets(c, "policy", p)
    <3>1. /\ UNCHANGED disk /\ Apart(c)
          /\ Is(c, "saving", cmd[c], [mem[c] EXCEPT !["policy"] = p], loaded[c], fd[c])
      BY <1>1, <2>2, <2>3, SetsApart
    <3> QED BY <1>1, <3>1 DEF p
  <2> QED BY <1>2, <2>1, <2>3
<1> QED BY <1>3, <1>4 DEF ThinkList

LEMMA SaveApart ==
  ASSUME TypeInv, NEW c \in Cli, Saves(c)
  PROVE  Apart(c) /\ StoreOf(cmd[c]) \in {"targets", "policy"} /\ pc[c] \in Running
<1>1. PICK s \in {"targets", "policy"} : StoreOf(cmd[c]) = s /\ SaveStep(c, s) /\ pc[c] \in Running
  BY DEF Saves
<1>2. s \in Store
  BY DEF Store
<1>3. Apart(c)
  <2>1. CASE OpenTmp(c, s)
    BY <1>1, <1>2, <2>1, OpenTmpDoes DEF Apart, AtRest
  <2>2. ASSUME NEW n \in Nat, WriteTmp(c, s, n) PROVE Apart(c)
    <3>1. pc[c] = "opened" /\ Written(c, s, n)
      BY <2>2 DEF WriteTmp
    <3>2. InStage("written", cmd[c])
      BY <1>1, <3>1, NextStage
    <3> QED BY <1>1, <1>2, <3>1, <3>2, WriteDoes DEF Apart, AtRest
  <2>3. CASE Chmod(c, s) /\ tmp[s] # NoInode
    <3>1. pc[c] = "written"
      BY <2>3 DEF Chmod
    <3>2. InStage("restricted", cmd[c])
      BY <1>1, <3>1, NextStage
    <3> QED BY <1>1, <1>2, <2>3, <3>2, ChmodDoes DEF Apart, AtRest
  <2>4. CASE Replace(c, s) /\ tmp[s] # NoInode
    BY <1>1, <1>2, <2>4, ReplaceDoes DEF Apart, AtRest
  <2> QED BY <1>1, <2>1, <2>2, <2>3, <2>4 DEF SaveStep
<1> QED BY <1>1, <1>3

LEMMA SetupApart ==
  ASSUME TypeInv, NEW c \in Cli, SetupStep(c) \/ KillSetup(c)
  PROVE  Apart(c) /\ StoreOf(cmd[c]) = "keys" /\ pc[c] \in Running
<1>1. CASE AppendKey(c)
  <2>1. pc[c] \in Running /\ StoreOf(cmd[c]) = "keys"
    BY <1>1, SetupDoes, SetupOps DEF Running
  <2> QED BY <1>1, <2>1, SetupDoes, SetsApart
<1>2. CASE NoDevice(c)
  <2>1. pc[c] \in Running /\ cmd[c].op = "setup" /\ Quits(c)
    BY <1>2 DEF NoDevice, Quits, Ended, Running
  <2> QED BY <2>1, Current, OpOf, QuitsApart
<1>3. CASE SaveKeys(c)
  <2>1. pc[c] \in Running /\ StoreOf(cmd[c]) = "keys"
    BY <1>3 DEF SaveKeys
  <2>2. CASE OpenKeys(c)
    BY <2>1, <2>2, OpenKeysDoes DEF Apart, AtRest
  <2>3. CASE WriteKeys(c)
    <3>1. Others(c) /\ UNCHANGED <<file, tmp>> /\ \A r \in Store \ {"keys"} : text'[r] = text[r]
      BY <2>1, <2>3, WriteKeysDoes
    <3> QED BY <2>1, <3>1 DEF Apart, AtRest
  <2> QED BY <1>3, <2>2, <2>3 DEF SaveKeys
<1>4. CASE KillSetup(c)
  <2>1. pc[c] \in Running /\ StoreOf(cmd[c]) = "keys" /\ Quits(c)
    BY <1>4 DEF KillSetup, Kill, Quits, Ended
  <2> QED BY <2>1, QuitsApart
<1> QED BY <1>1, <1>2, <1>3, <1>4 DEF SetupStep

\* Any step of a running command.
Works(c) ==
  \/ (ThinkTarget(c) \/ ThinkList(c) \/ Saves(c) \/ Stops(c)) /\ UNCHANGED enrolled
  \/ SetupStep(c) \/ KillSetup(c)

LEMMA WorkApart ==
  ASSUME TypeInv, NEW c \in Cli, Works(c)
  PROVE  /\ pc[c] \in Running /\ Apart(c)
         /\ StoreOf(cmd[c]) # "keys" => enrolled' = enrolled
<1>1. CASE ThinkTarget(c) \/ ThinkList(c)
  BY <1>1, TargetThinks, PolicyThinks, SetupApart DEF Works, Running
<1>2. CASE Saves(c)
  BY <1>2, SaveApart, SetupApart DEF Works
<1>3. CASE Stops(c)
  <2>1. pc[c] \in Running /\ StoreOf(cmd[c]) # "keys"
    BY <1>3 DEF Stops
  <2> QED BY <1>3, <2>1, StopQuits, QuitsApart, SetupApart DEF Works
<1> QED BY <1>1, <1>2, <1>3, SetupApart DEF Works

LEMMA Actors ==
  ASSUME TypeInv, [Next]_vars
  PROVE  UNCHANGED vars \/ \E c \in Cli : Begin(c) \/ Works(c)
BY Steps DEF Works

-----------------------------------------------------------------------------
(***************************************************************************)
(* A register that ends well.                                              *)
(***************************************************************************)
LEMMA NobodyElseSucceeds ==
  ASSUME TypeInv, [Next]_vars, NEW c \in Cli, Succeeds(c)
  PROVE  Works(c)
<1>1. pc[c] \in Running /\ pc'[c] = "done" /\ "done" \notin Running
  BY DEF Succeeds, Running
<1>2. ASSUME NEW d \in Cli, Begin(d) \/ Works(d) PROVE d = c
  <2>1. Others(d)
    BY <1>2, BeginDoes, WorkApart DEF Apart
  <2> QED BY <1>1, <2>1 DEF Others, Same, Is
<1>3. ~Begin(c)
  BY <1>1, BeginDoes DEF Ended, Running
<1> QED BY <1>1, <1>2, <1>3, Actors DEF vars

LEMMA RegisterEnds ==
  ASSUME TypeInv, [Next]_vars, NEW c \in Cli, Succeeds(c), cmd[c].op = "register"
  PROVE  Register(c)
<1>1. Works(c) /\ pc[c] \in Running /\ pc'[c] = "done"
  BY NobodyElseSucceeds DEF Succeeds
<1>2. StoreOf(cmd[c]) = "targets" /\ pc[c] \in Thinking
  BY <1>1, Current, OpOf DEF InStage
<1>3. ~Saves(c) /\ ~SetupStep(c) /\ ~KillSetup(c) /\ ~ThinkList(c)
  <2>1. ~Saves(c)
    BY <1>2 DEF Saves, SaveStep, OpenTmp, WriteTmp, Chmod, Replace, Thinking
  <2> QED BY <1>2, <2>1, SetupApart, PolicyThinks
<1>4. ~Stops(c)
  <2>1. ASSUME KillCommand(c) PROVE FALSE
    BY <1>1, <2>1 DEF KillCommand, Kill, End, Goto, TypeInv, Procs
  <2> QED BY <1>2, <2>1 DEF Stops, SaveUnchanged, Chmod, Replace, Thinking
<1>5. ~Enroll(c) /\ ~ReadPolicy(c)
  <2>1. ASSUME Enroll(c) \/ ReadPolicy(c) PROVE pc'[c] # "done"
    BY <2>1, EnrollDoes, ReadPolicyDoes DEF End, Goto, TypeInv, Procs
  <2> QED BY <1>1, <2>1
<1> QED BY <1>1, <1>3, <1>4, <1>5 DEF Works, ThinkTarget, List, Add, Remove

\* What a process judges by is a policy that the file held since its prompt was answered.
Judges(c) ==
  pc[c] = "judging" =>
    \E named \in seen[c] \ {NoDoc} : mem[c].policy = {Lower(s) : s \in named}

SeenInv == SeenType /\ \A c \in Cli : Judges(c)

LEMMA JudgingFrom ==
  ASSUME TypeInv, NEW c \in Cli, Works(c), pc'[c] = "judging" PROVE ReadPolicy(c)
<1>1. ASSUME NEW p, Goto(c, p) PROVE p = "judging"
  BY <1>1 DEF Goto, TypeInv, Procs
<1>2. ASSUME NEW how, End(c, how) PROVE how = "judging"
  BY <1>1, <1>2 DEF End
<1>3. ~Quits(c)
  BY <1>2 DEF Quits, Ended
<1>4. CASE ThinkTarget(c)
  BY <1>1, <1>2, <1>3, <1>4, AddDoes, RemoveDoes, EnrollDoes, RegisterDoes
     DEF ThinkTarget, List, Sets
<1>5. ~ThinkList(c)
  BY <1>3, PolicyThinks DEF Is
<1>6. ~Saves(c) /\ ~Stops(c)
  BY <1>1, <1>2, <1>3, StopQuits
     DEF Saves, SaveStep, OpenTmp, Opened, WriteTmp, Written, Chmod, Replace
<1>7. ~SetupStep(c) /\ ~KillSetup(c)
  BY <1>1, <1>2 DEF SetupStep, NoDevice, AppendKey, SaveKeys, OpenKeys, WriteKeys, KillSetup, Kill,
                    Opened
<1> QED BY <1>4, <1>5, <1>6, <1>7 DEF Works

LEMMA SeenStep == TypeInv /\ SeenInv /\ [Next]_vars => SeenInv'
<1> SUFFICES ASSUME TypeInv, SeenInv, [Next]_vars PROVE SeenInv'
  OBVIOUS
<1>1. CASE UNCHANGED vars
  BY <1>1 DEF SeenInv, SeenType, Judges, vars
<1>2. CASE Next
  <2>1. Note
    BY <1>2 DEF Next
  <2>2. Read("policy", {})' \in Doc("policy") \cup {NoDoc}
    <3>1. Files' /\ "policy" \in Store /\ {} \in Doc("policy")
      BY TypeStep, Docs DEF TypeInv, Store
    <3> QED BY <3>1 DEF Read, Files, TextOf
  <2>3. SeenType'
    BY <2>1, <2>2 DEF SeenInv, SeenType, Note
  <2>4. ASSUME NEW d \in Cli, pc'[d] = "judging", Same(d) PROVE Judges(d)'
    BY <2>1, <2>4 DEF SeenInv, Judges, Note, Answered, Same, Is
  <2>5. ASSUME NEW d \in Cli, pc'[d] = "judging", ReadPolicy(d) PROVE Judges(d)'
    <3>1. UNCHANGED disk /\ Policy # NoDoc /\ mem'[d].policy = Policy
      <4>1. ~End(d, "idle")
        BY <2>5 DEF End, Goto, TypeInv, Procs
      <4>2. mem[d] \in [Store -> AnyDoc] /\ "policy" \in Store /\ mem \in [Cli -> [Store -> AnyDoc]]
        BY DEF TypeInv, Procs, Store
      <4>3. /\ UNCHANGED disk /\ Policy # NoDoc
            /\ mem' = [mem EXCEPT ![d] = [mem[d] EXCEPT !["policy"] = Policy]]
        BY <2>5, <4>1, ReadPolicyDoes
      <4> QED BY <4>2, <4>3
    <3>2. Read("policy", {})' = Read("policy", {})
      BY <3>1 DEF Read, disk
    <3>3. Read("policy", {}) \in seen'[d]
      BY <2>1, <2>5, <3>2 DEF Note, Answered
    <3> QED BY <3>1, <3>3 DEF Judges, Policy
  <2>6. ASSUME NEW d \in Cli, pc'[d] = "judging" PROVE Judges(d)'
    <3>1. CASE UNCHANGED vars
      BY <1>1, <3>1 DEF SeenInv
    <3>2. ASSUME NEW c \in Cli, Begin(c) PROVE Judges(d)'
      <4>1. Others(c) /\ pc'[c] # "judging"
        BY <3>2, BeginDoes, EndIs DEF Loaded, Is, Ended, TypeInv
      <4> QED BY <2>4, <2>6, <4>1 DEF Others
    <3>3. ASSUME NEW c \in Cli, Works(c) PROVE Judges(d)'
      <4>1. Others(c)
        BY <3>3, WorkApart DEF Apart
      <4>2. c = d => ReadPolicy(d)
        BY <2>6, <3>3, JudgingFrom
      <4> QED BY <2>4, <2>5, <2>6, <4>1, <4>2 DEF Others
    <3> QED BY <3>1, <3>2, <3>3, Actors
  <2> QED BY <2>3, <2>6 DEF SeenInv, Judges
<1> QED BY <1>1, <1>2

LEMMA Noted == Spec => []SeenInv
<1>1. Init => SeenInv
  BY DEF Init, SeenInv, SeenType, Judges
<1> QED BY <1>1, InitTypes, TypeStep, SeenStep, PTL DEF Spec

\* Every variable keeps its type, for any documents and whether or not commands overlap.
THEOREM CommandTypes == Spec => []TypeOK
<1>1. TypeInv /\ SeenInv => TypeOK
  BY TypeInvTypes DEF SeenInv
<1> QED BY <1>1, InitTypes, TypeStep, Noted, PTL DEF Spec

\* A register that ends well was judged by the policy file as it was at some moment after the
\* person answered, whatever other commands did to that file meanwhile.
THEOREM AllowedWhenRegistered == Spec => RegisteredWasAllowed
<1> DEFINE Allowed(c) ==
      /\ cmd[c].cred \notin Synced
      /\ \E named \in seen[c] \ {NoDoc} :
           named # {} => \E s \in named : LowerOf[s] = Model[cmd[c].cred]
<1>1. ASSUME TypeInv, SeenInv, [Next]_vars, NEW c \in Cli, Succeeds(c), cmd[c].op = "register"
      PROVE  Allowed(c)
  <2>1. Register(c) /\ pc[c] \in Running /\ pc'[c] = "done"
    BY <1>1, RegisterEnds DEF Succeeds
  <2>2. ~End(c, "idle")
    BY <1>1, <2>1 DEF End, Goto, TypeInv, Procs
  <2>3. /\ pc[c] = "judging"
        /\ CredentialPasses(mem[c].policy, Model[cmd[c].cred], cmd[c].cred \in Synced)
    BY <1>1, <2>1, <2>2, RegisterDoes
  <2>4. Model[cmd[c].cred] \in Aaguid
    BY <1>1, <2>1, Current, OpOf, TargetOps, CredAssumption
  <2>5. PICK named \in seen[c] \ {NoDoc} : mem[c].policy = {Lower(s) : s \in named}
    BY <1>1, <2>3 DEF SeenInv, Judges
  <2>6. named # {} => \E s \in named : LowerOf[s] = Model[cmd[c].cred]
    BY <2>3, <2>4, <2>5, LowerType DEF CredentialPasses, Enforcing, Lower
  <2> QED BY <2>3, <2>6 DEF CredentialPasses
<1>2. TypeInv /\ SeenInv /\ [Next]_vars =>
        [\A c \in Cli : Succeeds(c) /\ cmd[c].op = "register" => Allowed(c)]_vars
  BY <1>1
<1> QED BY <1>2, InitTypes, TypeStep, Noted, PTL DEF Spec, RegisteredWasAllowed

\* A register that ends well has changed no file: the target that TargetStore.add is given is
\* the one it holds already, so the credential is in memory only, however commands overlap.
RegisterSavesNothing ==
  [][\A c \in Cli : Succeeds(c) /\ cmd[c].op = "register" => UNCHANGED disk]_vars

THEOREM NothingRegistered == Spec => RegisterSavesNothing
<1>1. ASSUME TypeInv, [Next]_vars, NEW c \in Cli, Succeeds(c), cmd[c].op = "register"
      PROVE  UNCHANGED disk
  BY <1>1, RegisterEnds, RegisterDoes
<1>2. TypeInv /\ [Next]_vars =>
        [\A c \in Cli : Succeeds(c) /\ cmd[c].op = "register" => UNCHANGED disk]_vars
  BY <1>1
<1> QED BY <1>2, InitTypes, TypeStep, PTL DEF Spec, RegisterSavesNothing

-----------------------------------------------------------------------------
(***************************************************************************)
(* No two commands that save the same file at once.                        *)
(***************************************************************************)
Alone ==
  \A c, d \in Cli : c # d /\ pc[c] \in Running /\ pc[d] \in Running =>
    StoreOf(cmd[c]) # StoreOf(cmd[d])

\* A file is whole, and is not its temporary file.
StoreInv(s) ==
  s # "keys" =>
    /\ tmp[s] # NoInode => tmp[s] # file[s]
    /\ file[s] # NoInode => text[s][file[s]].doc # NoDoc

\* How far a save has got.
SaveInv(c) ==
  LET s == StoreOf(cmd[c]) IN
  pc[c] \in Running =>
    IF s = "keys"
      THEN pc[c] = "opened" => fd[c] = file[s] /\ text[s][fd[c]].size = 0
      ELSE /\ pc[c] = "opened" => fd[c] = tmp[s] /\ text[s][fd[c]].size = 0
           /\ pc[c] \in {"written", "restricted"} =>
                tmp[s] # NoInode /\ text[s][tmp[s]].doc = mem[c][s]
           /\ pc[c] = "restricted" => text[s][tmp[s]].private

\* What a command holds is what its file holds, with its own change once it is made.
Progress(c) ==
  LET s == StoreOf(cmd[c]) IN
  pc[c] \in Running =>
    /\ s = "targets" =>
         /\ loaded[c] = Read(s, NoDoc)
         /\ mem[c][s] = IF pc[c] \in Thinking THEN Targets ELSE After(cmd[c], Targets)
    /\ s = "policy" =>
         mem[c][s] = IF pc[c] = "loaded" THEN Policy ELSE AfterPolicy(cmd[c], Policy)
    /\ s = "keys" /\ pc[c] # "loaded" => enrolled \cup {cmd[c].key} \subseteq mem[c][s]

SerialInv ==
  /\ Alone
  /\ \A s \in Store : StoreInv(s)
  /\ \A c \in Cli : SaveInv(c) /\ Progress(c)
  /\ KeysSurvive

LEMMA Whole == ASSUME TypeInv, \A s \in Store : StoreInv(s) PROVE Targets # NoDoc /\ Policy # NoDoc
<1>1. Read("targets", EmptyTable) # NoDoc /\ Read("policy", {}) # NoDoc
  <2>1. EmptyTable # NoDoc /\ {} # NoDoc
    BY NoDocIsNoTable, NoDocIsNoPolicy DEF EmptyTable, Table
  <2> QED BY <2>1 DEF Read, StoreInv, Store
<1>2. Read("targets", EmptyTable) \in Doc("targets")
  <2>1. EmptyTable \in Doc("targets")
    BY Docs DEF EmptyTable, Table
  <2>2. Read("targets", EmptyTable) \in Doc("targets") \cup {NoDoc}
    BY <2>1 DEF Read, TypeInv, Files, TextOf, Store
  <2> QED BY <1>1, <2>2
<1>3. Targets \in Table
  BY <1>2, ParsedType DEF Targets
<1>4. Policy = {Lower(s) : s \in Read("policy", {})} /\ Policy \in Doc("policy")
  <2>1. Policy = {Lower(s) : s \in Read("policy", {})}
    BY <1>1 DEF Policy
  <2>2. Read("policy", {}) \in Doc("policy")
    BY <1>1, Loads
  <2> QED BY <2>1, <2>2, Docs, LowerType
<1> QED BY <1>3, <1>4, NoDocIsNoTable, NoDocIsNone DEF Store

LEMMA ReadKept ==
  ASSUME NEW s \in Store, file'[s] = file[s],
         file[s] # NoInode => text'[s][file[s]].doc = text[s][file[s]].doc
  PROVE  \A none : Read(s, none)' = Read(s, none)
BY DEF Read

LEMMA ContentsKept ==
  ASSUME NEW s \in Store, \A none : Read(s, none)' = Read(s, none)
  PROVE  /\ s = "targets" => Targets' = Targets
         /\ s = "policy" => Policy' = Policy
BY DEF Targets, Policy

LEMMA RestKept ==
  ASSUME NEW s \in Store, AtRest(s)
  PROVE  /\ \A none : Read(s, none)' = Read(s, none)
         /\ s = "targets" => Targets' = Targets
         /\ s = "policy" => Policy' = Policy
BY ReadKept, ContentsKept DEF AtRest

LEMMA StoreKept == ASSUME NEW s \in Store, StoreInv(s), AtRest(s) PROVE StoreInv(s)'
BY DEF StoreInv, AtRest

LEMMA ProcKept ==
  ASSUME TypeInv, NEW d \in Cli, SaveInv(d), Progress(d), Same(d),
         pc[d] \in Running => AtRest(StoreOf(cmd[d])),
         pc[d] \in Running /\ StoreOf(cmd[d]) = "keys" => enrolled' = enrolled
  PROVE  SaveInv(d)' /\ Progress(d)'
<1>1. CASE pc[d] \notin Running
  BY <1>1 DEF Same, Is, SaveInv, Progress
<1>2. CASE pc[d] \in Running
  <2>1. StoreOf(cmd[d]) \in Store /\ AtRest(StoreOf(cmd[d]))
    BY <1>2, Current
  <2>2. StoreOf(cmd'[d]) = StoreOf(cmd[d])
    BY DEF Same, Is
  <2>3. SaveInv(d)'
    BY <1>2, <2>1, <2>2 DEF SaveInv, Same, Is, AtRest
  <2>4. Progress(d)'
    BY <1>2, <2>1, <2>2, RestKept DEF Progress, Same, Is
  <2> QED BY <2>3, <2>4
<1> QED BY <1>1, <1>2

\* The other commands, and the other files, do not notice a step.
LEMMA ElseKept ==
  ASSUME TypeInv, SerialInv, NEW c \in Cli, Works(c)
  PROVE  /\ \A d \in Cli \ {c} : SaveInv(d)' /\ Progress(d)'
         /\ \A s \in Store \ {StoreOf(cmd[c])} : StoreInv(s)'
<1>1. /\ pc[c] \in Running /\ Apart(c)
      /\ StoreOf(cmd[c]) # "keys" => enrolled' = enrolled
  BY WorkApart
<1>2. ASSUME NEW d \in Cli \ {c} PROVE SaveInv(d)' /\ Progress(d)'
  <2>1. SaveInv(d) /\ Progress(d) /\ Same(d)
    BY <1>1 DEF SerialInv, Apart, Others
  <2>2. pc[d] \in Running => StoreOf(cmd[d]) # StoreOf(cmd[c]) /\ StoreOf(cmd[d]) \in Store
    BY <1>1, Current DEF SerialInv, Alone
  <2>3. pc[d] \in Running => AtRest(StoreOf(cmd[d]))
    BY <1>1, <2>2 DEF Apart
  <2>4. pc[d] \in Running /\ StoreOf(cmd[d]) = "keys" => enrolled' = enrolled
    BY <1>1, <2>2
  <2> QED BY <2>1, <2>3, <2>4, ProcKept
<1>3. \A s \in Store \ {StoreOf(cmd[c])} : StoreInv(s)'
  BY <1>1, StoreKept DEF SerialInv, Apart
<1> QED BY <1>2, <1>3

\* No step of a running command turns it into another.
LEMMA AloneKept ==
  ASSUME TypeInv, SerialInv, NEW c \in Cli, Works(c), pc'[c] \in Running => cmd'[c] = cmd[c]
  PROVE  Alone'
<1>1. Others(c) /\ pc[c] \in Running
  BY WorkApart DEF Apart
<1>2. \A d \in Cli : pc'[d] \in Running => pc[d] \in Running /\ cmd'[d] = cmd[d]
  BY <1>1 DEF Others, Same, Is
<1> QED BY <1>2 DEF SerialInv, Alone

LEMMA EndedInv ==
  ASSUME NEW c \in Cli, pc'[c] \notin Running PROVE SaveInv(c)' /\ Progress(c)'
BY DEF SaveInv, Progress

LEMMA KeysKept ==
  ASSUME TypeInv, SerialInv, NEW c \in Cli, Works(c), StoreOf(cmd[c]) # "keys"
  PROVE  KeysSurvive'
<1>1. Apart(c) /\ pc[c] \in Running /\ enrolled' = enrolled
  BY WorkApart
<1>2. cmd[c].op # "setup"
  BY <1>1, Current, OpOf
<1>3. (\A d \in Cli : pc'[d] = "opened" => cmd'[d].op # "setup")
        => \A d \in Cli : pc[d] = "opened" => cmd[d].op # "setup"
  BY <1>1, <1>2 DEF Apart, Others, Same, Is
<1>4. Read("keys", {})' = Read("keys", {})
  BY <1>1, RestKept DEF Apart, Store
<1> QED BY <1>1, <1>3, <1>4 DEF SerialInv, KeysSurvive

\* The command ends and leaves its file as it is.
LEMMA QuitSerial ==
  ASSUME TypeInv, SerialInv, NEW c \in Cli, Works(c), Quits(c), StoreOf(cmd[c]) # "keys"
  PROVE  SerialInv'
<1>1. pc'[c] \notin Running /\ UNCHANGED disk
  BY QuitsApart DEF Is, Ended, Running
<1>2. SaveInv(c)' /\ Progress(c)' /\ Alone'
  BY <1>1, EndedInv, AloneKept
<1>3. \A s \in Store : StoreInv(s)'
  BY <1>1, DiskAtRest, StoreKept DEF SerialInv
<1> QED BY <1>2, <1>3, ElseKept, KeysKept DEF SerialInv

LEMMA TargetThinkSerial ==
  ASSUME TypeInv, SerialInv, NEW c \in Cli, Works(c), ThinkTarget(c) PROVE SerialInv'
<1>1. /\ pc[c] \in Thinking /\ pc[c] \in Running
      /\ StoreOf(cmd[c]) = "targets" /\ UNCHANGED disk
  BY TargetThinks DEF Thinking, Running
<1>2. CASE Quits(c)
  BY <1>1, <1>2, QuitSerial
<1>3. /\ loaded[c] = Read("targets", NoDoc) /\ mem[c]["targets"] = Targets
      /\ mem[c] \in [Store -> AnyDoc] /\ "targets" \in Store
  BY <1>1 DEF SerialInv, Progress, TypeInv, Procs, Store
<1>4. Read("targets", NoDoc)' = Read("targets", NoDoc) /\ Targets' = Targets
  BY <1>1, <1>3, DiskAtRest, RestKept
<1>5. ASSUME (\E m : Waits(c, m) /\ m["targets"] = mem[c]["targets"])
             \/ /\ cmd[c].op \in {"add", "remove"} /\ pc[c] = "loaded"
                /\ Is(c, "saving", cmd[c],
                     [mem[c] EXCEPT !["targets"] = After(cmd[c], mem[c]["targets"])],
                     loaded[c], fd[c])
      PROVE  SerialInv'
  <2>1. cmd'[c] = cmd[c] /\ pc'[c] \in {"enrolled", "judging", "saving"}
        /\ loaded'[c] = loaded[c]
    BY <1>5 DEF Waits, Is
  <2>2. mem'[c]["targets"] = IF pc'[c] \in Thinking THEN Targets ELSE After(cmd[c], Targets)
    BY <1>3, <1>5 DEF Waits, Is, Thinking
  <2>3. Progress(c)'
    BY <1>1, <1>3, <1>4, <2>1, <2>2 DEF Progress
  <2>4. SaveInv(c)'
    BY <1>1, <2>1 DEF SaveInv
  <2>5. Alone' /\ KeysSurvive'
    BY <1>1, <2>1, AloneKept, KeysKept
  <2>6. \A s \in Store : StoreInv(s)'
    BY <1>1, DiskAtRest, StoreKept DEF SerialInv
  <2> QED BY <2>3, <2>4, <2>5, <2>6, ElseKept DEF SerialInv
<1> QED BY <1>2, <1>5, TargetThinks

LEMMA PolicyThinkSerial ==
  ASSUME TypeInv, SerialInv, NEW c \in Cli, Works(c), ThinkList(c) PROVE SerialInv'
<1>1. /\ pc[c] = "loaded" /\ pc[c] \in Running /\ StoreOf(cmd[c]) = "policy" /\ UNCHANGED disk
  BY PolicyThinks DEF Running
<1>2. CASE Quits(c)
  BY <1>1, <1>2, QuitSerial
<1>3. mem[c]["policy"] = Policy /\ mem[c] \in [Store -> AnyDoc] /\ "policy" \in Store
  BY <1>1 DEF SerialInv, Progress, TypeInv, Procs, Store
<1>4. Policy' = Policy
  BY <1>1, <1>3, DiskAtRest, RestKept
<1>5. ASSUME Is(c, "saving", cmd[c],
                [mem[c] EXCEPT !["policy"] = AfterPolicy(cmd[c], mem[c]["policy"])],
                loaded[c], fd[c])
      PROVE  SerialInv'
  <2>1. cmd'[c] = cmd[c] /\ pc'[c] = "saving" /\ mem'[c]["policy"] = AfterPolicy(cmd[c], Policy)
    BY <1>3, <1>5 DEF Is
  <2>2. Progress(c)'
    BY <1>1, <1>4, <2>1 DEF Progress
  <2>3. SaveInv(c)'
    BY <1>1, <2>1 DEF SaveInv
  <2>4. Alone' /\ KeysSurvive'
    BY <1>1, <2>1, AloneKept, KeysKept
  <2>5. \A s \in Store : StoreInv(s)'
    BY <1>1, DiskAtRest, StoreKept DEF SerialInv
  <2> QED BY <2>2, <2>3, <2>4, <2>5, ElseKept DEF SerialInv
<1> QED BY <1>2, <1>5, PolicyThinks

\* A step of a save before the last: the temporary file changes, or gets its name.
TmpStep(c, s, p, f) ==
  /\ pc[c] \notin Thinking
  /\ Is(c, p, cmd[c], mem[c], loaded[c], f)
  /\ file' = file /\ tmp'[s] # NoInode /\ tmp'[s] # file[s]
  /\ file[s] # NoInode => text'[s][file[s]].doc = text[s][file[s]].doc
  /\ p = "opened" => f = tmp'[s] /\ text'[s][f].size = 0
  /\ p # "opened" => text'[s][tmp'[s]].doc = mem[c][s]
  /\ p = "restricted" => text'[s][tmp'[s]].private

LEMMA TmpStepReads ==
  ASSUME NEW c \in Cli, NEW s \in {"targets", "policy"}, NEW p, NEW f, TmpStep(c, s, p, f)
  PROVE  file' = file /\ \A none : Read(s, none)' = Read(s, none)
<1>1. s \in Store
  BY DEF Store
<1> QED BY <1>1, ReadKept DEF TmpStep

LEMMA TmpStepSerial ==
  ASSUME TypeInv, SerialInv, NEW c \in Cli, Works(c),
         NEW s \in {"targets", "policy"}, StoreOf(cmd[c]) = s,
         NEW p \in {"opened", "written", "restricted"}, NEW f, TmpStep(c, s, p, f)
  PROVE  SerialInv'
<1>1. s \in Store /\ s # "keys" /\ pc[c] \in Running
  BY WorkApart DEF Store
<1>2. (\A none : Read(s, none)' = Read(s, none))
      /\ (s = "targets" => Targets' = Targets) /\ (s = "policy" => Policy' = Policy)
  BY <1>1, TmpStepReads, ContentsKept
<1>3. StoreInv(s)'
  BY <1>1 DEF SerialInv, StoreInv, TmpStep
<1>4. SaveInv(c)'
  BY <1>1 DEF SaveInv, Is, TmpStep
<1>5. Progress(c)'
  BY <1>1, <1>2 DEF SerialInv, Progress, Is, TmpStep
<1>6. Alone' /\ KeysSurvive'
  BY <1>1, AloneKept, KeysKept DEF Is, TmpStep
<1> QED BY <1>3, <1>4, <1>5, <1>6, ElseKept DEF SerialInv

\* The temporary file takes the file's name.
LEMMA ReplaceSerial ==
  ASSUME TypeInv, SerialInv, NEW c \in Cli, Works(c),
         NEW s \in {"targets", "policy"}, StoreOf(cmd[c]) = s, Replace(c, s), tmp[s] # NoInode
  PROVE  /\ SerialInv'
         /\ text'[s][file'[s]].private /\ text'[s][file'[s]].doc = mem[c][s]
         /\ file'[s] # NoInode
<1>1. s \in Store /\ s # "keys" /\ pc[c] \in Running /\ pc[c] = "restricted"
  BY WorkApart DEF Store, Replace
<1>2. /\ file'[s] = tmp[s] /\ tmp'[s] = NoInode /\ pc'[c] = "done"
      /\ \A j \in Inode \ {file[s]} : text'[s][j] = text[s][j]
  BY <1>1, ReplaceDoes DEF Is
<1>3. tmp[s] \in Inode \ {file[s]} /\ text[s][tmp[s]].doc = mem[c][s] /\ text[s][tmp[s]].private
  BY <1>1 DEF SerialInv, StoreInv, SaveInv, TypeInv, Files
<1>4. mem[c][s] # NoDoc
  BY <1>1, Current, NoDocIsNone
<1>5. text'[s][file'[s]].private /\ text'[s][file'[s]].doc = mem[c][s] /\ file'[s] # NoInode
  BY <1>2, <1>3
<1>6. StoreInv(s)'
  BY <1>2, <1>4, <1>5 DEF StoreInv
<1>7. SaveInv(c)' /\ Progress(c)' /\ Alone' /\ KeysSurvive'
  BY <1>1, <1>2, EndedInv, AloneKept, KeysKept DEF Running
<1> QED BY <1>5, <1>6, <1>7, ElseKept DEF SerialInv

LEMMA SaveDoes ==
  ASSUME TypeInv, SerialInv, NEW c \in Cli, Saves(c)
  PROVE  \E s \in {"targets", "policy"} :
           /\ StoreOf(cmd[c]) = s /\ pc[c] \in Running
           /\ \/ \E p \in {"opened", "written", "restricted"} : \E f : TmpStep(c, s, p, f)
              \/ Replace(c, s) /\ tmp[s] # NoInode
<1>1. PICK s \in {"targets", "policy"} : StoreOf(cmd[c]) = s /\ SaveStep(c, s) /\ pc[c] \in Running
  BY DEF Saves
<1> DEFINE Goes == \E p \in {"opened", "written", "restricted"} : \E f : TmpStep(c, s, p, f)
<1>2. s \in Store /\ s # "keys" /\ StoreInv(s) /\ SaveInv(c) /\ Files
  BY DEF Store, SerialInv, TypeInv
<1>3. ASSUME OpenTmp(c, s) PROVE Goes
  <2>1. PICK i \in Inode :
          /\ i = tmp[s] \/ (tmp[s] = NoInode /\ i \in Free(s))
          /\ Is(c, "opened", cmd[c], mem[c], loaded[c], i)
          /\ tmp'[s] = i /\ file' = file /\ text'[s][i].size = 0
          /\ \A j \in Inode \ {i} : text'[s][j] = text[s][j]
    BY <1>1, <1>3, OpenTmpDoes
  <2>2. i # file[s] /\ i # NoInode
    BY <1>2, <2>1 DEF StoreInv, Free
  <2>3. file[s] # NoInode => text'[s][file[s]].doc = text[s][file[s]].doc
    BY <1>2, <2>1, <2>2 DEF Files
  <2>4. pc[c] = "saving"
    BY <1>3 DEF OpenTmp
  <2> QED BY <2>1, <2>2, <2>3, <2>4 DEF TmpStep
<1>4. ASSUME NEW n \in Nat, WriteTmp(c, s, n) PROVE Goes
  <2>1. pc[c] = "opened" /\ Written(c, s, n)
    BY <1>4 DEF WriteTmp
  <2>2. InStage("written", cmd[c])
    BY <1>1, <2>1, NextStage
  <2>3. fd[c] = tmp[s] /\ text[s][fd[c]].size = 0
    BY <1>1, <1>2, <2>1 DEF SaveInv
  <2>4. /\ Is(c, "written", cmd[c], mem[c], loaded[c], NoInode)
        /\ fd[c] \in Inode /\ file' = file /\ tmp' = tmp
        /\ text'[s][fd[c]].doc = mem[c][s]
        /\ \A j \in Inode \ {fd[c]} : text'[s][j] = text[s][j]
    BY <1>1, <1>2, <2>1, <2>2, <2>3, WriteDoes
  <2>5. tmp[s] # NoInode /\ tmp[s] # file[s]
    BY <1>2, <2>3, <2>4 DEF StoreInv
  <2>6. file[s] # NoInode => text'[s][file[s]].doc = text[s][file[s]].doc
    BY <1>2, <2>3, <2>4, <2>5 DEF Files
  <2> QED BY <2>1, <2>3, <2>4, <2>5, <2>6 DEF TmpStep
<1>5. ASSUME Chmod(c, s), tmp[s] # NoInode PROVE Goes
  <2>1. pc[c] = "written"
    BY <1>5 DEF Chmod
  <2>2. InStage("restricted", cmd[c])
    BY <1>1, <2>1, NextStage
  <2>3. /\ Is(c, "restricted", cmd[c], mem[c], loaded[c], fd[c])
        /\ tmp[s] \in Inode /\ file' = file /\ tmp' = tmp
        /\ text'[s][tmp[s]].private /\ text'[s][tmp[s]].doc = text[s][tmp[s]].doc
        /\ \A j \in Inode \ {tmp[s]} : text'[s][j] = text[s][j]
    BY <1>1, <1>2, <1>5, <2>2, ChmodDoes
  <2>4. text[s][tmp[s]].doc = mem[c][s] /\ tmp[s] # file[s]
    BY <1>1, <1>2, <1>5, <2>1 DEF SaveInv, StoreInv
  <2>5. file[s] # NoInode => text'[s][file[s]].doc = text[s][file[s]].doc
    BY <1>2, <2>3, <2>4 DEF Files
  <2> QED BY <1>5, <2>1, <2>3, <2>4, <2>5 DEF TmpStep
<1> QED BY <1>1, <1>3, <1>4, <1>5 DEF SaveStep

LEMMA SaveSerial ==
  ASSUME TypeInv, SerialInv, NEW c \in Cli, Works(c), Saves(c) PROVE SerialInv'
BY SaveDoes, TmpStepSerial, ReplaceSerial

\* Only the setup that has the keys open may leave them incomplete.
LEMMA NoneOpen ==
  ASSUME TypeInv, SerialInv, NEW c \in Cli, pc[c] \in Running, StoreOf(cmd[c]) = "keys",
         pc[c] # "opened"
  PROVE  enrolled \subseteq KeyList(Read("keys", {}))
<1>1. ASSUME NEW d \in Cli, pc[d] = "opened", cmd[d].op = "setup" PROVE FALSE
  <2>1. d # c /\ pc[d] \in Running /\ StoreOf(cmd[d]) = "keys"
    BY <1>1, Current, OpOf DEF Running
  <2> QED BY <2>1 DEF SerialInv, Alone
<1> QED BY <1>1 DEF SerialInv, KeysSurvive

LEMMA SetupSerial ==
  ASSUME TypeInv, SerialInv, NEW c \in Cli, SetupStep(c) \/ KillSetup(c) PROVE SerialInv'
<1>1. Works(c) /\ Apart(c) /\ StoreOf(cmd[c]) = "keys" /\ pc[c] \in Running /\ "keys" \in Store
  BY SetupApart DEF Works, Store
<1>2. StoreInv("keys")'
  BY DEF StoreInv
<1>3. CASE NoDevice(c) \/ KillSetup(c)
  <2>1. /\ Quits(c) /\ pc'[c] \notin Running /\ UNCHANGED disk
        /\ enrolled' = {} \/ (pc[c] # "opened" /\ enrolled' = enrolled)
    <3>1. /\ Quits(c)
          /\ enrolled' = {} \/ (pc[c] # "opened" /\ enrolled' = enrolled)
      BY <1>3 DEF NoDevice, KillSetup, Kill, Quits, Ended
    <3> QED BY <3>1, QuitsApart DEF Is, Ended, Running
  <2>2. SaveInv(c)' /\ Progress(c)' /\ Alone'
    BY <1>1, <2>1, EndedInv, AloneKept
  <2>3. Read("keys", {})' = Read("keys", {})
    BY <1>1, <2>1, DiskAtRest, RestKept
  <2>4. KeysSurvive'
    BY <1>1, <2>1, <2>3, NoneOpen DEF KeysSurvive, KeyList
  <2> QED BY <1>1, <1>2, <2>2, <2>4, ElseKept DEF SerialInv
<1>4. CASE AppendKey(c)
  <2> DEFINE ks == KeyList(Read("keys", {})) \cup {cmd[c].key}
  <2>1. pc[c] = "loaded" /\ Sets(c, "keys", ks) /\ ks \in Held("keys") /\ enrolled' = enrolled
    BY <1>4, SetupDoes DEF AppendKey
  <2>2. enrolled \cup {cmd[c].key} \subseteq ks
    BY <1>1, <2>1, NoneOpen
  <2>3. enrolled \subseteq KeyList(Read("keys", {}))
    BY <1>1, <2>1, NoneOpen
  <2> HIDE DEF ks
  <2>4. UNCHANGED disk /\ Is(c, "saving", cmd[c], [mem[c] EXCEPT !["keys"] = ks], loaded[c], fd[c])
    BY <1>1, <2>1, SetsApart
  <2>5. cmd'[c] = cmd[c] /\ pc'[c] = "saving" /\ mem'[c]["keys"] = ks
    BY <1>1, <2>4 DEF Is, TypeInv, Procs
  <2>6. SaveInv(c)' /\ Progress(c)'
    BY <1>1, <2>1, <2>2, <2>5 DEF SaveInv, Progress
  <2>7. Read("keys", {})' = Read("keys", {})
    BY <1>1, <2>4, DiskAtRest, RestKept
  <2>8. KeysSurvive'
    BY <2>1, <2>3, <2>7 DEF KeysSurvive, KeyList
  <2>9. Alone'
    BY <1>1, <2>5, AloneKept
  <2> QED BY <1>1, <1>2, <2>6, <2>8, <2>9, ElseKept DEF SerialInv
<1>5. CASE OpenKeys(c)
  <2>1. /\ enrolled' = enrolled /\ Is(c, "opened", cmd[c], mem[c], loaded[c], file'["keys"])
        /\ file'["keys"] \in Inode /\ text'["keys"][file'["keys"]].size = 0
    BY <1>1, <1>5, OpenKeysDoes
  <2>2. pc[c] = "saving" /\ cmd[c].op = "setup"
    BY <1>1, <1>5, Current, Commands, SetupOps DEF OpenKeys
  <2>3. SaveInv(c)'
    BY <1>1, <2>1 DEF SaveInv, Is
  <2>4. Progress(c)'
    BY <1>1, <2>1, <2>2 DEF SerialInv, Progress, Is
  <2>5. KeysSurvive'
    BY <2>1, <2>2 DEF KeysSurvive, Is
  <2>6. Alone'
    BY <1>1, <2>1, AloneKept DEF Is
  <2> QED BY <1>1, <1>2, <2>3, <2>4, <2>5, <2>6, ElseKept DEF SerialInv
<1>6. CASE WriteKeys(c)
  <2>1. pc[c] = "opened" /\ fd[c] = file["keys"] /\ text["keys"][fd[c]].size = 0
    BY <1>1, <1>6 DEF WriteKeys, SerialInv, SaveInv
  <2>2. /\ Is(c, "done", NoCmd, Nothing, NoDoc, NoInode) /\ fd[c] \in Inode
        /\ enrolled' = enrolled \cup {cmd[c].key} /\ file' = file
        /\ text'["keys"][fd[c]].doc = mem[c]["keys"]
    BY <1>1, <1>6, <2>1, WriteKeysDoes
  <2>3. enrolled \cup {cmd[c].key} \subseteq mem[c]["keys"] /\ mem[c]["keys"] # NoDoc
    BY <1>1, <2>1, Current, NoDocIsNone DEF SerialInv, Progress
  <2>4. Read("keys", {})' = mem[c]["keys"]
    BY <2>1, <2>2 DEF Read
  <2>5. KeysSurvive'
    BY <2>2, <2>3, <2>4 DEF KeysSurvive, KeyList
  <2>6. SaveInv(c)' /\ Progress(c)' /\ Alone'
    BY <1>1, <2>2, EndedInv, AloneKept DEF Is, Running
  <2> QED BY <1>1, <1>2, <2>5, <2>6, ElseKept DEF SerialInv
<1> QED BY <1>3, <1>4, <1>5, <1>6 DEF SetupStep, SaveKeys

LEMMA BeginSerial ==
  ASSUME Serial, TypeInv, SerialInv, NEW c \in Cli, Begin(c) PROVE SerialInv'
<1>1. pc[c] \in Ended /\ pc[c] \notin Running /\ UNCHANGED disk /\ enrolled' = enrolled /\ Others(c)
  BY BeginDoes DEF Ended, Running
<1>2. \A s \in Store : AtRest(s) /\ StoreInv(s)'
  BY <1>1, DiskAtRest, StoreKept DEF SerialInv
<1>3. \A d \in Cli \ {c} : SaveInv(d)' /\ Progress(d)'
  <2> SUFFICES ASSUME NEW d \in Cli \ {c} PROVE SaveInv(d)' /\ Progress(d)'
    OBVIOUS
  <2>1. SaveInv(d) /\ Progress(d) /\ Same(d) /\ (pc[d] \in Running => StoreOf(cmd[d]) \in Store)
    BY <1>1, Current DEF SerialInv, Others
  <2> QED BY <1>1, <1>2, <2>1, ProcKept
<1>4. KeysSurvive'
  <2>1. Read("keys", {})' = Read("keys", {})
    BY <1>2, RestKept DEF Store
  <2>2. (\A d \in Cli : pc'[d] = "opened" => cmd'[d].op # "setup")
          => \A d \in Cli : pc[d] = "opened" => cmd[d].op # "setup"
    BY <1>1 DEF Others, Same, Is, Running
  <2> QED BY <1>1, <2>1, <2>2 DEF SerialInv, KeysSurvive
<1>5. CASE End(c, "idle")
  <2>1. pc'[c] \notin Running
    BY <1>5, EndIs DEF TypeInv, Is, Ended, Running
  <2>2. \A d \in Cli : pc'[d] \in Running => pc[d] \in Running /\ cmd'[d] = cmd[d]
    BY <1>1, <2>1 DEF Others, Same, Is
  <2>3. Alone'
    BY <2>2 DEF SerialInv, Alone
  <2> QED BY <1>2, <1>3, <1>4, <2>1, <2>3, EndedInv DEF SerialInv
<1>6. ASSUME NEW k \in Command, ~Busy(k), Loaded(c, k) PROVE SerialInv'
  <2>1. pc'[c] = "loaded" /\ cmd'[c] = k /\ loaded'[c] = Payload(k) /\ StoreOf(k) \in Store
    BY <1>6, Commands DEF Loaded, Is
  <2>2. mem'[c][StoreOf(k)] = LoadedDoc(k)
    BY <1>6, <2>1 DEF Loaded, Is, TypeInv, Procs
  <2>3. Alone'
    <3>1. \A d \in Cli \ {c} : pc'[d] \in Running => pc[d] \in Running /\ cmd'[d] = cmd[d]
      BY <1>1 DEF Others, Same, Is
    <3>2. \A d \in Cli : pc[d] \in Running => StoreOf(cmd[d]) # StoreOf(k)
      BY <1>6 DEF Busy
    <3> QED BY <2>1, <3>1, <3>2 DEF SerialInv, Alone
  <2>4. SaveInv(c)'
    BY <2>1 DEF SaveInv
  <2>5. /\ Read("targets", NoDoc)' = Read("targets", NoDoc)
        /\ Targets' = Targets /\ Policy' = Policy
    BY <1>2, RestKept DEF Store
  <2>6. Progress(c)'
    BY <2>1, <2>2, <2>5 DEF Progress, LoadedDoc, Payload
  <2> QED BY <1>2, <1>3, <1>4, <2>3, <2>4, <2>6 DEF SerialInv
<1> QED BY <1>5, <1>6, BeginDoes

LEMMA SerialStep == ASSUME Serial PROVE TypeInv /\ SerialInv /\ [Next]_vars => SerialInv'
<1> SUFFICES ASSUME TypeInv, SerialInv, [Next]_vars PROVE SerialInv'
  OBVIOUS
<1>1. CASE UNCHANGED vars
  <2>1. \A s \in Store : AtRest(s) /\ StoreInv(s)'
    BY <1>1, DiskAtRest, StoreKept DEF SerialInv, vars
  <2>2. \A d \in Cli : Same(d) /\ (pc[d] \in Running => StoreOf(cmd[d]) \in Store)
    BY <1>1, Current DEF vars, Same, Is
  <2>3. \A d \in Cli : SaveInv(d)' /\ Progress(d)'
    BY <1>1, <2>1, <2>2, ProcKept DEF SerialInv, vars
  <2>4. Alone' /\ KeysSurvive'
    BY <1>1 DEF SerialInv, Alone, KeysSurvive, KeyList, Read, vars, disk
  <2> QED BY <2>1, <2>3, <2>4 DEF SerialInv
<1>2. ASSUME NEW c \in Cli, Works(c) PROVE SerialInv'
  <2>1. CASE Stops(c)
    <3>1. Quits(c) /\ StoreOf(cmd[c]) # "keys"
      BY <2>1, StopQuits DEF Stops
    <3> QED BY <1>2, <3>1, QuitSerial
  <2> QED BY <1>2, <2>1, TargetThinkSerial, PolicyThinkSerial, SaveSerial, SetupSerial DEF Works
<1> QED BY <1>1, <1>2, BeginSerial, Actors

LEMMA SerialInit == Init => SerialInv
<1> SUFFICES ASSUME Init PROVE SerialInv
  OBVIOUS
<1>1. \A c \in Cli : pc[c] \notin Running
  BY DEF Init, Running
<1>2. TypeInv
  BY InitTypes
<1>3. ASSUME NEW s \in Store, s # "keys", file[s] # NoInode PROVE text[s][file[s]].doc # NoDoc
  <2>1. PICK t \in EarlierTables, p \in EarlierPolicies :
          text = [r \in Store |-> [i \in Inode |->
                    IF i # file[r] THEN Truncated
                    ELSE IF r = "targets" THEN Text(t, TableSize(Parsed(t)))
                    ELSE Text(p, 1 + Cardinality(p))]]
    BY DEF Init
  <2>2. t # NoDoc /\ p # NoDoc
    BY EarlierAssumption, NoDocIsNoTable, NoDocIsNoPolicy
  <2>3. file[s] \in Inode /\ s \in {"targets", "policy"}
    BY <1>2, <1>3 DEF TypeInv, Files, Store
  <2>4. CASE s = "targets"
    <3>1. text[s][file[s]] = Text(t, TableSize(Parsed(t)))
      BY <2>1, <2>3, <2>4
    <3> QED BY <2>2, <3>1 DEF Text
  <2>5. CASE s = "policy"
    <3>1. text[s][file[s]] = Text(p, 1 + Cardinality(p))
      BY <2>1, <2>3, <2>5
    <3> QED BY <2>2, <3>1 DEF Text
  <2> QED BY <2>3, <2>4, <2>5
<1>4. \A s \in Store : StoreInv(s)
  BY <1>3 DEF StoreInv, Init
<1> QED BY <1>1, <1>4 DEF SerialInv, Alone, SaveInv, Progress, KeysSurvive, Init

-----------------------------------------------------------------------------
(***************************************************************************)
(* What a change of a file is.                                             *)
(***************************************************************************)
Published(c, s) ==
  Works(c) /\ pc[c] \in Running /\ StoreOf(cmd[c]) = s /\ Replace(c, s) /\ tmp[s] # NoInode

LEMMA OnlyReplace ==
  ASSUME TypeInv, SerialInv, [Next]_vars, NEW s \in {"targets", "policy"}
  PROVE  \/ file'[s] = file[s] /\ \A none : Read(s, none)' = Read(s, none)
         \/ \E c \in Cli : Published(c, s)
<1> DEFINE Stays == file'[s] = file[s] /\ \A none : Read(s, none)' = Read(s, none)
<1>1. s \in Store /\ s # "keys"
  BY DEF Store
<1>2. ASSUME UNCHANGED disk PROVE Stays
  BY <1>1, <1>2, DiskAtRest, RestKept DEF AtRest
<1>3. ASSUME NEW c \in Cli, Works(c) PROVE Stays \/ Published(c, s)
  <2>1. Apart(c) /\ pc[c] \in Running
    BY <1>3, WorkApart
  <2>2. CASE StoreOf(cmd[c]) # s
    BY <1>1, <2>1, <2>2, RestKept DEF Apart, AtRest
  <2>3. CASE StoreOf(cmd[c]) = s
    <3>1. ~SetupStep(c) /\ ~KillSetup(c)
      BY <1>1, <2>3, SetupApart
    <3>2. ThinkTarget(c) \/ ThinkList(c) \/ Stops(c) => UNCHANGED disk
      BY TargetThinks, PolicyThinks, StopQuits DEF Quits
    <3>3. ASSUME Saves(c) PROVE Stays \/ Published(c, s)
      BY <1>3, <2>1, <2>3, <3>3, SaveDoes, TmpStepReads DEF Published
    <3> QED BY <1>2, <1>3, <3>1, <3>2, <3>3 DEF Works
  <2> QED BY <2>2, <2>3
<1>4. UNCHANGED vars => UNCHANGED disk
  BY DEF vars
<1> QED BY <1>2, <1>3, <1>4, Actors, BeginDoes

LEMMA PublishedTargets ==
  ASSUME TypeInv, SerialInv, NEW c \in Cli, Published(c, "targets")
  PROVE  /\ Targets' = After(cmd[c], Targets) /\ Targets \in Table
         /\ cmd[c] \in TargetCommand /\ cmd[c].op \in {"add", "remove"}
<1>1. /\ text'["targets"][file'["targets"]].doc = mem[c]["targets"] /\ file'["targets"] # NoInode
      /\ pc[c] = "restricted" /\ pc[c] \in Running /\ StoreOf(cmd[c]) = "targets"
  BY ReplaceSerial DEF Published, Replace
<1>2. mem[c]["targets"] \in Table /\ mem[c]["targets"] = After(cmd[c], Targets)
  BY <1>1, Current, Docs DEF SerialInv, Progress
<1>3. Read("targets", EmptyTable)' = mem[c]["targets"]
  BY <1>1 DEF Read
<1>4. Targets' = Parsed(mem[c]["targets"])
  BY <1>3 DEF Targets
<1>5. Targets \in Table
  BY Whole, Loads DEF SerialInv
<1>6. cmd[c] \in TargetCommand \cup RegisterCommand /\ InStage("restricted", cmd[c])
  BY <1>1, Current, Commands
<1>7. cmd[c].op \in {"add", "remove"} /\ cmd[c].op # "register"
  BY <1>6, TargetOps DEF InStage
<1> QED BY <1>2, <1>4, <1>5, <1>6, <1>7, ParsedType DEF RegisterCommand

LEMMA PublishedPolicy ==
  ASSUME TypeInv, SerialInv, NEW c \in Cli, Published(c, "policy")
  PROVE  /\ Policy' = AfterPolicy(cmd[c], Policy) /\ Policy \in Doc("policy")
         /\ cmd[c] \in PolicyCommand /\ cmd[c].op \in {"trust", "distrust", "clear"}
         /\ cmd[c].op = "trust" => Lower(cmd[c].aaguid) \in Aaguid
<1>1. /\ text'["policy"][file'["policy"]].doc = mem[c]["policy"] /\ file'["policy"] # NoInode
      /\ pc[c] = "restricted" /\ pc[c] \in Running /\ StoreOf(cmd[c]) = "policy"
  BY ReplaceSerial DEF Published, Replace
<1>2. mem[c]["policy"] \in Doc("policy") /\ mem[c]["policy"] = AfterPolicy(cmd[c], Policy)
  BY <1>1, Current, Docs DEF SerialInv, Progress
<1>3. Read("policy", {})' = mem[c]["policy"] /\ mem[c]["policy"] # NoDoc
  BY <1>1, <1>2, NoDocIsNone DEF Read, Store
<1>4. Policy' = {Lower(x) : x \in mem[c]["policy"]}
  BY <1>3 DEF Policy
<1>5. Policy \in Doc("policy") /\ Read("policy", {}) \in Doc("policy")
      /\ Policy = {Lower(x) : x \in Read("policy", {})}
  <2>1. Policy # NoDoc /\ Read("policy", {}) # NoDoc
    BY Whole DEF SerialInv, Policy
  <2> QED BY <2>1, Loads DEF Policy
<1>6. cmd[c] \in PolicyCommand /\ InStage("restricted", cmd[c])
  BY <1>1, Current, Commands
<1>7. cmd[c].op \in {"trust", "distrust", "clear"}
  BY <1>6, PolicyOps DEF InStage
<1>8. \A x \in mem[c]["policy"] : Lower(x) = x
  <2>1. \A x \in Policy : Lower(x) = x
    BY <1>5, Docs, LowerType
  <2>2. cmd[c].op \in {"trust", "distrust"} => Lower(Lower(cmd[c].aaguid)) = Lower(cmd[c].aaguid)
    BY <1>6, PolicyOps, LowerType
  <2> QED BY <1>2, <1>7, <2>1, <2>2 DEF AfterPolicy
<1>9. Policy' = mem[c]["policy"]
  BY <1>4, <1>8
<1> QED BY <1>2, <1>5, <1>6, <1>7, <1>9 DEF InStage

LEMMA BothInv == ASSUME Serial PROVE Spec => [](TypeInv /\ SerialInv)
<1>1. Init => TypeInv /\ SerialInv
  BY InitTypes, SerialInit
<1>2. TypeInv /\ SerialInv /\ [Next]_vars => (TypeInv /\ SerialInv)'
  BY TypeStep, SerialStep
<1> QED BY <1>1, <1>2, PTL DEF Spec

\* While no two commands save one file at once, targets.json and allowed_aaguids.json are
\* whole at every moment, whatever is killed.
THEOREM FilesWhole == ASSUME Serial PROVE Spec => []FileWhole
<1>1. TypeInv /\ SerialInv => FileWhole
  BY Whole DEF SerialInv, FileWhole
<1> QED BY <1>1, BothInv, PTL

\* A key whose setup ended well is not lost by any number of later setups, but by a kill
\* between the opening and the writing.
THEOREM EnrolledKeysSurvive == ASSUME Serial PROVE Spec => []KeysSurvive
<1>1. SerialInv => KeysSurvive
  BY DEF SerialInv
<1> QED BY <1>1, BothInv, PTL

\* What gets the name of targets.json or allowed_aaguids.json is private, also when the
\* temporary file was left by a command that was killed before its chmod.
THEOREM PublishedIsPrivate == ASSUME Serial PROVE Spec => PublishedPrivate
<1>1. ASSUME TypeInv, SerialInv, [Next]_vars, NEW s \in {"targets", "policy"}, file'[s] # file[s]
      PROVE  text'[s][file'[s]].private
  BY <1>1, OnlyReplace, ReplaceSerial DEF Published
<1>2. TypeInv /\ SerialInv /\ [Next]_vars =>
        [\A s \in {"targets", "policy"} : file'[s] # file[s] => text'[s][file'[s]].private]_vars
  BY <1>1
<1> QED BY <1>2, BothInv, PTL DEF Spec, PublishedPrivate

\* targets.json implements TargetTable: every change is one whole command applied to what the
\* file held when it was replaced.
THEOREM TargetsImplement == ASSUME Serial PROVE Spec => WholeCommands
<1>1. TypeInv /\ SerialInv => T!Init
  BY Whole, Loads DEF SerialInv, T!Init, T!Target, Target, Table
<1>2. ASSUME TypeInv, SerialInv, [Next]_vars PROVE [T!Next]_Targets
  <2>1. CASE \A none : Read("targets", none)' = Read("targets", none)
    BY <2>1, ContentsKept DEF Store
  <2>2. ASSUME NEW c \in Cli, Published(c, "targets") PROVE T!Next
    <3>1. /\ Targets' = After(cmd[c], Targets) /\ cmd[c] \in TargetCommand
          /\ cmd[c].op \in {"add", "remove"}
      BY <1>2, <2>2, PublishedTargets
    <3>2. cmd[c].alias \in Alias /\ (cmd[c].op = "add" => cmd[c].host \in Host)
      BY <3>1, TargetOps
    <3>3. CASE cmd[c].op = "add"
      BY <3>1, <3>2, <3>3 DEF After, T!Add, T!Next
    <3>4. CASE cmd[c].op = "remove"
      BY <3>1, <3>2, <3>4 DEF After, T!Remove, T!Next
    <3> QED BY <3>1, <3>3, <3>4
  <2> QED BY <1>2, <2>1, <2>2, OnlyReplace
<1> QED BY <1>1, <1>2, BothInv, PTL DEF Spec, WholeCommands, T!Spec

\* allowed_aaguids.json implements PolicyList: it opens or closes by a whole command only.
THEOREM PolicyImplements == ASSUME Serial PROVE Spec => PolicyWhole
<1>1. TypeInv /\ SerialInv => P!Init
  BY Whole, Loads, Docs DEF SerialInv, P!Init
<1>2. ASSUME TypeInv, SerialInv, [Next]_vars PROVE [P!Next]_Policy
  <2>1. CASE \A none : Read("policy", none)' = Read("policy", none)
    BY <2>1, ContentsKept DEF Store
  <2>2. ASSUME NEW c \in Cli, Published(c, "policy") PROVE P!Next
    <3>1. /\ Policy' = AfterPolicy(cmd[c], Policy) /\ cmd[c] \in PolicyCommand
          /\ cmd[c].op \in {"trust", "distrust", "clear"}
          /\ cmd[c].op = "trust" => Lower(cmd[c].aaguid) \in Aaguid
      BY <1>2, <2>2, PublishedPolicy
    <3>2. cmd[c].op = "distrust" => Lower(cmd[c].aaguid) \in Spelling \cup Aaguid
      BY <3>1, PolicyOps, LowerType
    <3> QED BY <3>1, <3>2 DEF AfterPolicy, P!Next, P!Trust, P!Distrust, P!Clear
  <2> QED BY <1>2, <2>1, <2>2, OnlyReplace
<1> QED BY <1>1, <1>2, BothInv, PTL DEF Spec, PolicyWhole, P!Spec

\* What a command that ends well said it did is in its file, whatever was killed before it
\* and whatever runs beside it on the other files.
THEOREM ChangesAreSaved == ASSUME Serial PROVE Spec => ChangeSaved
<1>1. ASSUME TypeInv, SerialInv, [Next]_vars, NEW c \in Cli, Succeeds(c), cmd[c].op # "register"
      PROVE  SavedTargets(cmd[c], Targets') /\ SavedPolicy(cmd[c], Policy')
  <2>1. /\ Works(c) /\ pc[c] \in Running /\ pc'[c] = "done"
        /\ cmd[c] \in Command /\ SaveInv(c) /\ Progress(c)
    BY <1>1, NobodyElseSucceeds, Current DEF Succeeds, SerialInv
  <2>2. ~End(c, "idle")
    BY <1>1, <2>1 DEF End, Goto, TypeInv, Procs
  <2>3. CASE StoreOf(cmd[c]) = "keys"
    <3>1. cmd[c].op = "setup"
      BY <2>1, <2>3, Commands, SetupOps
    <3> QED BY <3>1 DEF SavedTargets, SavedPolicy
  <2>4. CASE StoreOf(cmd[c]) = "targets"
    <3>1. cmd[c] \in TargetCommand /\ cmd[c].op \in {"add", "remove", "list"}
      BY <1>1, <2>1, <2>4, Commands, TargetOps DEF RegisterCommand
    <3>2. mem[c]["targets"] \in Table /\ (cmd[c].op # "list" => cmd[c].alias \in Alias)
      <4>1. mem[c]["targets"] \in Table
        BY <1>1, <2>1, <2>4, Current, Docs
      <4>2. cmd[c].op # "list" => cmd[c].alias \in Alias
        BY <3>1, TargetOps
      <4> QED BY <4>1, <4>2
    <3>3. SavedPolicy(cmd[c], Policy')
      BY <3>1 DEF SavedPolicy
    <3>4. CASE cmd[c].op = "list"
      BY <3>3, <3>4 DEF SavedTargets
    <3>5. ASSUME NEW t \in Table, Targets' = After(cmd[c], t), cmd[c].op # "list"
          PROVE  SavedTargets(cmd[c], Targets')
      <4>1. CASE cmd[c].op = "add"
        <5>1. Targets'[cmd[c].alias] = [host |-> cmd[c].host, creds |-> {}]
          BY <3>2, <3>5, <4>1 DEF After, Table
        <5> QED BY <4>1, <5>1 DEF SavedTargets
      <4>2. CASE cmd[c].op = "remove"
        <5>1. Targets'[cmd[c].alias] = NoTarget
          BY <3>2, <3>5, <4>2 DEF After, Table
        <5> QED BY <4>2, <5>1 DEF SavedTargets
      <4> QED BY <3>1, <3>5, <4>1, <4>2
    <3>6. CASE cmd[c].op # "list" /\ Saves(c)
      <4>1. Published(c, "targets")
        BY <1>1, <2>1, <2>4, <3>6, SaveDoes DEF TmpStep, Is, Published
      <4> QED BY <1>1, <3>3, <3>5, <3>6, <4>1, PublishedTargets
    <3>7. CASE cmd[c].op # "list" /\ ThinkTarget(c)
      <4>1. Add(c)
        <5>1. ~List(c) /\ ~Enroll(c)
          BY <3>1, <3>7 DEF List, Enroll, Prompt
        <5>2. ~ReadPolicy(c) /\ ~Register(c)
          BY <1>1, <2>1, <3>1, Current DEF ReadPolicy, Register, InStage
        <5>3. ~Remove(c)
          BY <1>1, <2>1, <2>2, RemoveDoes DEF Sets, Goto, TypeInv, Procs
        <5> QED BY <3>7, <5>1, <5>2, <5>3 DEF ThinkTarget
      <4>2. UNCHANGED disk /\ mem[c].targets[cmd[c].alias] = [host |-> cmd[c].host, creds |-> {}]
        BY <1>1, <2>1, <4>1, AddDoes DEF Sets, Goto, TypeInv, Procs
      <4>3. Targets' = mem[c].targets
        <5>1. Targets' = Targets
          BY <4>2, DiskAtRest, RestKept DEF Store
        <5> QED BY <2>1, <2>4, <4>1, <5>1 DEF Progress, Add
      <4> QED BY <3>3, <4>1, <4>2, <4>3 DEF SavedTargets, Add
    <3>8. CASE cmd[c].op # "list" /\ Stops(c)
      <4>1. SaveUnchanged(c)
        BY <2>2, <3>8 DEF Stops, KillCommand, Kill, Chmod, Replace
      <4>2. /\ mem[c]["targets"] = loaded[c] /\ UNCHANGED disk /\ loaded[c] = Read("targets", NoDoc)
            /\ mem[c]["targets"] = After(cmd[c], Targets)
        BY <2>1, <2>4, <4>1 DEF SaveUnchanged, Progress
      <4>3. Read("targets", EmptyTable) = mem[c]["targets"]
        <5>1. Read("targets", NoDoc) # NoDoc
          BY <3>2, <4>2, NoDocIsNoTable
        <5>2. file["targets"] # NoInode
          BY <5>1 DEF Read
        <5>3. Read("targets", EmptyTable) = Read("targets", NoDoc)
          BY <5>2 DEF Read
        <5> QED BY <4>2, <5>3
      <4>4. Targets = After(cmd[c], Targets) /\ Targets \in Table
        <5>1. Targets = mem[c]["targets"]
          BY <3>2, <4>3, ParsedType DEF Targets
        <5> QED BY <3>2, <4>2, <5>1
      <4>5. Targets' = Targets
        BY <4>2, DiskAtRest, RestKept DEF Store
      <4> QED BY <3>3, <3>5, <3>8, <4>4, <4>5
    <3> QED BY <1>1, <2>1, <2>4, <3>4, <3>6, <3>7, <3>8, PolicyThinks, SetupApart DEF Works
  <2>5. CASE StoreOf(cmd[c]) = "policy"
    <3>1. cmd[c] \in PolicyCommand /\ cmd[c].op \in {"trust", "distrust", "clear", "show"}
      BY <2>1, <2>5, Commands, PolicyOps
    <3>2. SavedTargets(cmd[c], Targets')
      BY <3>1 DEF SavedTargets
    <3>3. CASE Saves(c)
      <4>1. Published(c, "policy")
        BY <1>1, <2>1, <2>5, <3>3, SaveDoes DEF TmpStep, Is, Published
      <4>2. Policy' = AfterPolicy(cmd[c], Policy) /\ cmd[c].op # "show"
        BY <1>1, <4>1, PublishedPolicy
      <4> QED BY <3>1, <3>2, <4>2 DEF SavedPolicy, AfterPolicy, Lower
    <3>4. CASE ThinkList(c)
      <4>1. UNCHANGED disk /\ pc[c] = "loaded"
        BY <1>1, <3>4, PolicyThinks
      <4>2. Policy' = mem[c].policy
        <5>1. Policy' = Policy
          BY <4>1, DiskAtRest, RestKept DEF Store
        <5> QED BY <2>1, <2>5, <4>1, <5>1 DEF Progress
      <4>3. cmd[c].op = "show" \/ (cmd[c].op = "trust" /\ Lower(cmd[c].aaguid) \in mem[c].policy)
        BY <1>1, <2>1, <2>2, <3>4
           DEF ThinkList, Show, Trust, Distrust, Clear, SetPolicy, Goto, TypeInv, Procs
      <4> QED BY <3>2, <4>2, <4>3 DEF SavedPolicy, Lower
    <3>5. ~Stops(c)
      BY <2>2, <2>5 DEF Stops, SaveUnchanged, KillCommand, Kill, Chmod, Replace
    <3> QED BY <1>1, <2>1, <2>5, <3>3, <3>4, <3>5, TargetThinks, SetupApart DEF Works
  <2> QED BY <2>1, <2>3, <2>4, <2>5, Commands DEF Store
<1>2. TypeInv /\ SerialInv /\ [Next]_vars =>
        [\A c \in Cli : Succeeds(c) /\ cmd[c].op # "register" =>
           SavedTargets(cmd[c], Targets') /\ SavedPolicy(cmd[c], Policy')]_vars
  BY <1>1
<1> QED BY <1>2, BothInv, PTL DEF Spec, ChangeSaved

-----------------------------------------------------------------------------
(***************************************************************************)
(* Commands that overlap may lose each other's changes and leave half a    *)
(* document.  What they cannot do is open the allowlist.                   *)
(***************************************************************************)
\* Only these may leave the allowlist without a model, and an empty one allows any hardware.
NoOpeners == \A c \in Cli : pc[c] \in Running => cmd[c].op \notin {"distrust", "clear"}
StaysClosed == Policy # {} => Policy' # {}

\* No text that may become the file, and nothing that will be written to one, is empty.
ClosedInv ==
  /\ tmp["policy"] # NoInode => tmp["policy"] # file["policy"]
  /\ \A i \in Inode : i # file["policy"] => text["policy"][i].doc # {}
  /\ \A c \in Cli : pc[c] \in {"saving", "opened"} /\ StoreOf(cmd[c]) = "policy" =>
       mem[c]["policy"] # {}

LEMMA NoDocIsNotOpen == NoDoc # {}
BY NoDocIsNoPolicy

LEMMA OpenMeans == Policy = {} <=> Read("policy", {}) = {}
BY NoDocIsNotOpen DEF Policy

LEMMA WorkKeepsCommand ==
  ASSUME TypeInv, NEW c \in Cli, Works(c)
  PROVE  pc'[c] \in Running => cmd'[c] = cmd[c]
<1>1. ASSUME Quits(c) PROVE pc'[c] \notin Running
  BY <1>1, QuitsApart DEF Is, Ended, Running
<1>2. CASE ThinkTarget(c) \/ ThinkList(c)
  BY <1>1, <1>2, TargetThinks, PolicyThinks DEF Waits, Is
<1>3. CASE Stops(c)
  BY <1>1, <1>3, StopQuits
<1>4. ASSUME NEW how \in Ended, End(c, how) PROVE pc'[c] \notin Running
  BY <1>4, EndIs DEF TypeInv, Is, Ended, Running
<1>5. CASE Saves(c)
  <2>1. PICK s \in {"targets", "policy"} : SaveStep(c, s)
    BY <1>5 DEF Saves
  <2>2. (\E how \in Ended : End(c, how)) \/ cmd' = cmd
    BY <2>1 DEF SaveStep, OpenTmp, Opened, WriteTmp, Written, Chmod, Replace, Ended
  <2> QED BY <1>4, <2>2
<1>6. CASE SetupStep(c) \/ KillSetup(c)
  <2>1. (\E how \in Ended : End(c, how)) \/ cmd' = cmd
    BY <1>6 DEF SetupStep, NoDevice, AppendKey, SaveKeys, OpenKeys, WriteKeys, KillSetup, Kill,
                Opened, Ended
  <2> QED BY <1>4, <2>1
<1> QED BY <1>2, <1>3, <1>5, <1>6 DEF Works

\* What a step leaves to show, once it is known what it makes of the file and its actor.
LEMMA ClosedByActor ==
  ASSUME ClosedInv, NEW c \in Cli, Others(c),
         pc'[c] \in {"saving", "opened"} /\ StoreOf(cmd'[c]) = "policy" => mem'[c]["policy"] # {},
         tmp'["policy"] # NoInode => tmp'["policy"] # file'["policy"],
         \A i \in Inode : i # file'["policy"] => text'["policy"][i].doc # {}
  PROVE  ClosedInv'
BY DEF ClosedInv, Others, Same, Is

LEMMA ClosedAtRest ==
  ASSUME ClosedInv, NEW c \in Cli, Others(c), AtRest("policy"),
         pc'[c] \in {"saving", "opened"} /\ StoreOf(cmd'[c]) = "policy" => mem'[c]["policy"] # {}
  PROVE  ClosedInv' /\ StaysClosed
<1>1. Policy' = Policy
  BY RestKept DEF Store
<1> QED BY <1>1, ClosedByActor DEF AtRest, ClosedInv, StaysClosed

\* The save of the allowlist, whoever else has its files open.
LEMMA ClosedSave ==
  ASSUME TypeInv, ClosedInv, NEW c \in Cli, SaveStep(c, "policy"), StoreOf(cmd[c]) = "policy",
         pc[c] \in Running
  PROVE  ClosedInv' /\ StaysClosed
<1>1. "policy" \in Store /\ mem[c]["policy"] \in Doc("policy")
  BY Current, Docs DEF Store
<1>2. CASE OpenTmp(c, "policy")
  <2>1. pc[c] = "saving" /\ mem[c]["policy"] # {}
    BY <1>2 DEF OpenTmp, ClosedInv
  <2>2. PICK i \in Inode :
          /\ i = tmp["policy"] \/ (tmp["policy"] = NoInode /\ i \in Free("policy"))
          /\ Is(c, "opened", cmd[c], mem[c], loaded[c], i)
          /\ tmp'["policy"] = i /\ file' = file
          /\ \A j \in Inode \ {i} : text'["policy"][j] = text["policy"][j]
    BY <1>2, OpenTmpDoes
  <2>3. Others(c)
    BY <1>2, OpenTmpDoes
  <2>4. i # file["policy"]
    BY <2>2 DEF Free, ClosedInv
  <2>5. text'["policy"][i].doc = NoDoc
    <3>1. text' = [text EXCEPT !["policy"][i] =
                     [Truncated EXCEPT !.private = text["policy"][i].private]]
      BY <1>2, <2>2, <1>1 DEF OpenTmp, Opened, TypeInv, Files
    <3> QED BY <1>1, <3>1 DEF TypeInv, Files, Truncated, Text
  <2>6. ClosedInv'
    <3>1. \A j \in Inode : j # file'["policy"] => text'["policy"][j].doc # {}
      BY <2>2, <2>5, NoDocIsNotOpen DEF ClosedInv
    <3> QED BY <2>1, <2>2, <2>3, <2>4, <3>1, ClosedByActor DEF Is
  <2>7. \A none : Read("policy", none)' = Read("policy", none)
    BY <1>1, <2>2, <2>4, ReadKept DEF TypeInv, Files
  <2> QED BY <1>1, <2>6, <2>7, ContentsKept DEF StaysClosed
<1>3. ASSUME NEW n \in Nat, WriteTmp(c, "policy", n) PROVE ClosedInv' /\ StaysClosed
  <2>1. pc[c] = "opened" /\ Written(c, "policy", n) /\ mem[c]["policy"] # {}
    BY <1>3 DEF WriteTmp, ClosedInv
  <2>2. InStage("written", cmd[c])
    BY <2>1, NextStage
  <2>3. /\ Others(c) /\ Is(c, "written", cmd[c], mem[c], loaded[c], NoInode)
        /\ fd[c] \in Inode /\ UNCHANGED <<file, tmp>>
        /\ \A j \in Inode \ {fd[c]} : text'["policy"][j] = text["policy"][j]
    BY <1>1, <2>1, <2>2, WriteDoes
  <2>4. text'["policy"][fd[c]].doc # {}
    <3>1. text'["policy"][fd[c]] = Over(text["policy"][fd[c]], mem[c]["policy"], n)
      BY <1>1, <2>1, <2>3 DEF Written, TypeInv, Files
    <3>2. text["policy"][fd[c]] \in TextOf("policy")
      BY <1>1, <2>3 DEF TypeInv, Files
    <3> QED BY <2>1, <3>1, <3>2, NoDocIsNotOpen DEF Over, TextOf
  <2>5. ClosedInv'
    BY <2>3, <2>4, ClosedByActor DEF ClosedInv, Is
  <2>6. Read("policy", {}) # {} => Read("policy", {})' # {}
    BY <2>3, <2>4, <1>1 DEF Read, TypeInv, Files
  <2> QED BY <2>5, <2>6, OpenMeans DEF StaysClosed, Policy
<1>4. CASE Chmod(c, "policy") /\ tmp["policy"] # NoInode
  <2>1. pc[c] = "written"
    BY <1>4 DEF Chmod
  <2>2. InStage("restricted", cmd[c])
    BY <2>1, NextStage
  <2>3. /\ Others(c) /\ Is(c, "restricted", cmd[c], mem[c], loaded[c], fd[c])
        /\ UNCHANGED <<file, tmp>>
        /\ \A j \in Inode : text'["policy"][j].doc = text["policy"][j].doc
    BY <1>1, <1>4, <2>2, ChmodDoes
  <2>4. ClosedInv'
    BY <2>3, ClosedByActor DEF ClosedInv, Is
  <2>5. \A none : Read("policy", none)' = Read("policy", none)
    BY <1>1, <2>3, ReadKept DEF TypeInv, Files
  <2> QED BY <1>1, <2>4, <2>5, ContentsKept DEF StaysClosed
<1>5. CASE Replace(c, "policy") /\ tmp["policy"] # NoInode
  <2>1. /\ Others(c) /\ Is(c, "done", NoCmd, Nothing, NoDoc, NoInode)
        /\ file'["policy"] = tmp["policy"] /\ tmp'["policy"] = NoInode
        /\ \A j \in Inode \ {file["policy"]} : text'["policy"][j] = text["policy"][j]
    BY <1>1, <1>5, ReplaceDoes
  <2>2. tmp["policy"] \in Inode \ {file["policy"]}
    BY <1>1, <1>5 DEF ClosedInv, TypeInv, Files
  <2>3. ASSUME NEW j \in Inode PROVE text'["policy"][j].doc # {}
    <3>1. text' = [text EXCEPT !["policy"] =
                     [i \in Inode |-> IF i = file["policy"] THEN Truncated ELSE text["policy"][i]]]
      BY <1>5 DEF Replace
    <3>2. j = file["policy"] => text'["policy"][j] = Truncated
      BY <1>1, <3>1 DEF TypeInv, Files
    <3> QED BY <2>1, <3>2, NoDocIsNotOpen DEF ClosedInv, Truncated, Text
  <2>4. ClosedInv'
    BY <2>1, <2>3, ClosedByActor DEF ClosedInv, Is
  <2>5. Read("policy", {})' # {}
    BY <2>1, <2>2, <2>3 DEF Read
  <2> QED BY <2>4, <2>5, OpenMeans DEF StaysClosed, Policy
<1> QED BY <1>2, <1>3, <1>4, <1>5 DEF SaveStep

LEMMA ClosedStep ==
  ASSUME TypeInv, ClosedInv, NoOpeners, [Next]_vars PROVE ClosedInv' /\ StaysClosed
<1>1. CASE UNCHANGED vars
  BY <1>1 DEF vars, disk, ClosedInv, StaysClosed, Policy, Read
<1>2. ASSUME NEW c \in Cli, Begin(c) PROVE ClosedInv' /\ StaysClosed
  <2>1. pc'[c] \notin {"saving", "opened"}
    BY <1>2, BeginDoes, EndIs DEF Loaded, Is, TypeInv, Ended
  <2> QED BY <1>2, <2>1, BeginDoes, DiskAtRest, ClosedAtRest DEF Store
<1>3. ASSUME NEW c \in Cli, Works(c) PROVE ClosedInv' /\ StaysClosed
  <2>1. Apart(c) /\ pc[c] \in Running
    BY <1>3, WorkApart
  <2>2. pc'[c] \in Running => cmd'[c] = cmd[c]
    BY <1>3, WorkKeepsCommand
  <2>3. CASE StoreOf(cmd[c]) # "policy"
    BY <2>1, <2>2, <2>3, ClosedAtRest DEF Apart, Running, Store
  <2>4. CASE StoreOf(cmd[c]) = "policy"
    <3>1. ~SetupStep(c) /\ ~KillSetup(c) /\ ~ThinkTarget(c)
      BY <2>4, SetupApart, TargetThinks
    <3>2. CASE Stops(c)
      <4>1. pc'[c] \notin {"saving", "opened"} /\ UNCHANGED disk
        BY <3>2, StopQuits, QuitsApart DEF Is, Ended
      <4> QED BY <2>1, <4>1, DiskAtRest, ClosedAtRest DEF Apart, Store
    <3>3. CASE Saves(c)
      <4>1. SaveStep(c, "policy")
        BY <2>4, <3>3 DEF Saves
      <4> QED BY <2>1, <2>4, <4>1, ClosedSave
    <3>4. CASE ThinkList(c)
      <4>1. UNCHANGED disk
        BY <3>4, PolicyThinks
      <4>2. CASE Quits(c)
        <5>1. pc'[c] \notin {"saving", "opened"}
          BY <4>2, QuitsApart DEF Is, Ended
        <5> QED BY <2>1, <4>1, <5>1, DiskAtRest, ClosedAtRest DEF Apart, Store
      <4>3. CASE Is(c, "saving", cmd[c],
                    [mem[c] EXCEPT !["policy"] = AfterPolicy(cmd[c], mem[c]["policy"])],
                    loaded[c], fd[c])
        <5>1. cmd[c] \in PolicyCommand
          BY <2>1, <2>4, Current, Commands
        <5>2. cmd[c].op # "show"
          BY <4>3, TypeStep, <2>1, <2>2 DEF TypeInv, ProcType, InStage, Is, Running
        <5>3. cmd[c].op = "trust"
          BY <2>1, <5>1, <5>2, PolicyOps DEF NoOpeners
        <5>4. mem'[c]["policy"] # {}
          BY <4>3, <5>3 DEF Is, AfterPolicy, TypeInv, Procs, Store
        <5> QED BY <2>1, <4>1, <5>4, DiskAtRest, ClosedAtRest DEF Apart, Store
      <4> QED BY <3>4, <4>2, <4>3, PolicyThinks
    <3> QED BY <1>3, <3>1, <3>2, <3>3, <3>4 DEF Works
  <2> QED BY <2>3, <2>4
<1> QED BY <1>1, <1>2, <1>3, Actors

LEMMA ClosedInit == Init => ClosedInv
<1> SUFFICES ASSUME Init PROVE ClosedInv
  OBVIOUS
<1>1. tmp["policy"] = NoInode
  BY DEF Init, Store
<1>2. \A i \in Inode : i # file["policy"] => text["policy"][i] = Truncated
  <2>1. PICK t \in EarlierTables, p \in EarlierPolicies :
          text = [s \in Store |-> [i \in Inode |->
                    IF i # file[s] THEN Truncated
                    ELSE IF s = "targets" THEN Text(t, TableSize(Parsed(t)))
                    ELSE Text(p, 1 + Cardinality(p))]]
    BY DEF Init
  <2> QED BY <2>1 DEF Store
<1>3. \A c \in Cli : pc[c] = "idle"
  BY DEF Init
<1> QED BY <1>1, <1>2, <1>3, NoDocIsNotOpen DEF ClosedInv, Truncated, Text

\* While no distrust or clear runs, an allowlist that names a model, or is half-written, never
\* comes to allow any hardware: not by commands that overlap, share a temporary file or write
\* to one that was renamed away, and not by a kill (PolicyStore._save and _load).
THEOREM OverlapNeverOpens == Spec /\ []NoOpeners => [][StaysClosed]_vars
<1>1. TypeInv /\ ClosedInv /\ NoOpeners /\ [Next]_vars => ClosedInv' /\ [StaysClosed]_vars
  BY ClosedStep
<1> QED BY <1>1, InitTypes, TypeStep, ClosedInit, PTL DEF Spec
===============================================================================
