----------------------------- MODULE TargetStore -----------------------------
(***************************************************************************)
(* utils/config.py: targets.json, and the commands of cli.py that change   *)
(* it.  `uon register`, which also asks the policy, is in UserCommands.    *)
(***************************************************************************)
EXTENDS ConfigDir

CONSTANTS
  Alias, Host, Cred,
  NoTarget   \* no target under that alias

Target == [host : Host, creds : SUBSET Cred]
\* An entry that an earlier release wrote, with a list of bare credential ids.
Legacy == [host : Host, ids : SUBSET Cred]
Table == [Alias -> Target \cup {NoTarget}]
OldTable == [Alias -> Legacy \cup {NoTarget}]
EmptyTable == [a \in Alias |-> NoTarget]

ASSUME FiniteTables == IsFiniteSet(Alias) /\ IsFiniteSet(Cred)
ASSUME NoDocIsNoTable == \A t \in Table \cup OldTable : t # NoDoc

TargetCommand ==
  [op : {"add"}, alias : Alias, host : Host] \cup [op : {"remove"}, alias : Alias]
    \cup [op : {"list"}]

\* The length of a JSON text grows with the entries in it.
TableSize(t) ==
  1 + Cardinality({a \in Alias : t[a] # NoTarget})
    + Cardinality({ak \in Alias \X Cred : t[ak[1]] # NoTarget /\ ak[2] \in t[ak[1]].creds})

\* Target.from_dict: the old list of ids becomes a list of credentials.
FromDict(entry) ==
  IF "ids" \in DOMAIN entry THEN [host |-> entry.host, creds |-> entry.ids] ELSE entry

Parsed(t) == IF t = NoDoc THEN NoDoc
             ELSE [a \in Alias |-> IF t[a] = NoTarget THEN NoTarget ELSE FromDict(t[a])]
\* What _load makes of targets.json.
Targets == Parsed(Read("targets", EmptyTable))

LoadTargets(c, k) == Start(c, k, Targets, Read("targets", NoDoc))

List(c) ==
  /\ pc[c] = "loaded" /\ cmd[c].op = "list"
  /\ End(c, "done")
  /\ UNCHANGED disk

\* The command changes the table in memory, and _save follows.
SetTable(c, t) ==
  /\ mem' = [mem EXCEPT ![c].targets = t]
  /\ Goto(c, "saving")
  /\ UNCHANGED <<disk, cmd, loaded, fd>>

\* Mutants: a record without its credentials; the credentials of the old target kept.
BareTarget(t, a, h) == [host |-> h]
KeptTarget(t, a, h) ==
  [host |-> h, creds |-> IF t[a] = NoTarget THEN {} ELSE t[a].creds]
NewTarget(t, a, h) == [host |-> h, creds |-> {}]

\* Mutant: any target of that alias will do.
AliasKnown(t, a, target) == t[a] # NoTarget
\* TargetStore.add returns at once.
Already(t, a, target) == t[a] = target

Add(c) ==
  /\ pc[c] = "loaded" /\ cmd[c].op = "add"
  /\ LET t == mem[c].targets
         a == cmd[c].alias
         target == NewTarget(t, a, cmd[c].host)
     IN  IF Already(t, a, target)
           THEN End(c, "done") /\ UNCHANGED disk
           ELSE SetTable(c, [t EXCEPT ![a] = target])

Remove(c) ==
  /\ pc[c] = "loaded" /\ cmd[c].op = "remove"
  /\ IF mem[c].targets[cmd[c].alias] = NoTarget
       THEN End(c, "idle") /\ UNCHANGED disk
       ELSE SetTable(c, [mem[c].targets EXCEPT ![cmd[c].alias] = NoTarget])

\* _save returns at once when the payload is the text that was loaded.
SaveUnchanged(c) ==
  /\ pc[c] = "saving"
  /\ mem[c].targets = loaded[c]
  /\ End(c, "done")
  /\ UNCHANGED disk

SaveTargets(c) ==
  /\ pc[c] \in Running /\ StoreOf(cmd[c]) = "targets"
  /\ \/ SaveUnchanged(c)
     \/ mem[c].targets # loaded[c] /\ OpenTmp(c, "targets")
     \/ WriteTmp(c, "targets", TableSize(mem[c].targets))
     \/ Chmod(c, "targets")
     \/ Replace(c, "targets")
=============================================================================
