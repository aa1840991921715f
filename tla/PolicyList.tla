----------------------------- MODULE PolicyList -----------------------------
(***************************************************************************)
(* What a user of `uon policy` may expect of the allowlist: a set of       *)
(* models, changed by one whole command at a time.                         *)
(***************************************************************************)
CONSTANTS Spelling, Aaguid

VARIABLE allowed

Init == allowed \subseteq Spelling \cup Aaguid

Trust(a) == allowed' = allowed \cup {a}
Distrust(a) == allowed' = allowed \ {a}
Clear == allowed' = {}

Next ==
  \/ \E a \in Aaguid : Trust(a)
  \/ \E a \in Spelling \cup Aaguid : Distrust(a)
  \/ Clear

Spec == Init /\ [][Next]_allowed
=============================================================================
