--------------------------- MODULE MCUserCommands ---------------------------
(* Instances of UserCommands for TLC. *)
EXTENDS UserCommands, TLC

\* Two spellings of one model, and another model.
SmallLetters == [s \in Spelling \cup Aaguid |-> IF s = "A" THEN "a" ELSE s]
Models == [k \in Cred |-> "a"]

\* One target with a credential, in the old form; a policy in capitals.
OldForm ==
  LET h == CHOOSE x \in Host : TRUE
  IN  {[a \in Alias |-> IF a = b THEN [host |-> h, ids |-> Cred] ELSE NoTarget] : b \in Alias}
Capitals == {{"A"}}

Symmetry == Permutations(Cli) \cup Permutations(Alias) \cup Permutations(Inode) \cup Permutations(Key)
=============================================================================
