----------------------------- MODULE PolicyStore -----------------------------
(***************************************************************************)
(* utils/policy.py: allowed_aaguids.json, the authenticator models that    *)
(* `uon register` accepts, and the `uon policy` commands of cli.py.  The   *)
(* file may hold any spelling of a model; the store compares small letters.*)
(***************************************************************************)
EXTENDS ConfigDir

CONSTANTS
  Aaguid,    \* models, each its own spelling in small letters
  Spelling,  \* texts that a user gives for a model, or writes into the file
  LowerOf    \* spelling -> the model it names, or itself if it names none

ASSUME LowerAssumption ==
  /\ LowerOf \in [Spelling \cup Aaguid -> Spelling \cup Aaguid]
  /\ \A a \in Aaguid : LowerOf[a] = a
  /\ \A s \in Spelling \cup Aaguid : LowerOf[LowerOf[s]] = LowerOf[s]
ASSUME FinitePolicies == IsFiniteSet(Spelling \cup Aaguid)
ASSUME NoDocIsNoPolicy == \A p \in SUBSET (Spelling \cup Aaguid) : p # NoDoc

Lower(s) == LowerOf[s]
IsValidAaguid(s) == LowerOf[s] \in Aaguid

PolicyCommand == [op : {"trust", "distrust"}, aaguid : Spelling] \cup [op : {"clear", "show"}]

\* What _load makes of allowed_aaguids.json.
Policy == LET d == Read("policy", {}) IN IF d = NoDoc THEN NoDoc ELSE {Lower(s) : s \in d}

Enforcing(p) == p # {}

\* Mutant: the list is not asked.
AnyHardware(p, aaguid, synced) == ~synced
\* check_credential gives no reason to reject the credential.
CredentialPasses(p, aaguid, synced) ==
  /\ ~synced
  /\ Enforcing(p) => Lower(aaguid) \in p

\* Mutant: the store starts empty.
LoadNothing(c, k) == Start(c, k, {}, NoDoc)
\* `uon policy add` checks the format before anything is loaded.
LoadPolicy(c, k) ==
  IF k.op = "trust" /\ ~IsValidAaguid(k.aaguid)
    THEN Start(c, k, NoDoc, NoDoc)
    ELSE Start(c, k, Policy, NoDoc)

Show(c) ==
  /\ pc[c] = "loaded" /\ cmd[c].op = "show"
  /\ End(c, "done")
  /\ UNCHANGED disk

\* The set changes in memory, and _save follows.
SetPolicy(c, p) ==
  /\ mem' = [mem EXCEPT ![c].policy = p]
  /\ Goto(c, "saving")
  /\ UNCHANGED <<disk, cmd, loaded, fd>>

\* `uon policy add`.
Trust(c) ==
  /\ pc[c] = "loaded" /\ cmd[c].op = "trust"
  /\ LET a == Lower(cmd[c].aaguid) IN
       IF a \in mem[c].policy
         THEN End(c, "done") /\ UNCHANGED disk
         ELSE SetPolicy(c, mem[c].policy \cup {a})

\* `uon policy remove`.
Distrust(c) ==
  /\ pc[c] = "loaded" /\ cmd[c].op = "distrust"
  /\ LET a == Lower(cmd[c].aaguid) IN
       IF a \notin mem[c].policy
         THEN End(c, "idle") /\ UNCHANGED disk
         ELSE SetPolicy(c, mem[c].policy \ {a})

\* `uon policy clear` saves even an empty set.
Clear(c) ==
  /\ pc[c] = "loaded" /\ cmd[c].op = "clear"
  /\ SetPolicy(c, {})

SavePolicy(c) ==
  /\ pc[c] \in Running /\ StoreOf(cmd[c]) = "policy"
  /\ \/ OpenTmp(c, "policy")
     \/ WriteTmp(c, "policy", 1 + Cardinality(mem[c].policy))
     \/ Chmod(c, "policy")
     \/ Replace(c, "policy")
=============================================================================
