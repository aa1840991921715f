----------------------------- MODULE TargetTable -----------------------------
(***************************************************************************)
(* What a user of `uon add`, `uon remove` and `uon register` may expect of *)
(* the saved targets: a table, changed by one whole command at a time.     *)
(* TargetStore.tla implements it when commands run one at a time.          *)
(***************************************************************************)
CONSTANTS
  Alias, Host, Cred,  \* names, machines, credentials
  NoTarget            \* no target of that name

VARIABLE table

Target == [host : Host, creds : SUBSET Cred]

Init == table \in [Alias -> Target \cup {NoTarget}]

\* A target is added, or replaced by one without credentials.
Add(a, h) == table' = [table EXCEPT ![a] = [host |-> h, creds |-> {}]]

Remove(a) == table' = [table EXCEPT ![a] = NoTarget]

Enroll(a, k) ==
  /\ table[a] # NoTarget
  /\ table' = [table EXCEPT ![a].creds = @ \cup {k}]

Next ==
  \/ \E a \in Alias, h \in Host : Add(a, h)
  \/ \E a \in Alias : Remove(a)
  \/ \E a \in Alias, k \in Cred : Enroll(a, k)

Spec == Init /\ [][Next]_table
=============================================================================
