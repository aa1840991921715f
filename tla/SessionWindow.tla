---------------------------- MODULE SessionWindow ----------------------------
(***************************************************************************)
(* What the target promises about a session id, without files, locks or    *)
(* processes: a request is accepted at most once per window of TTL clock   *)
(* units, and a command is handed over for execution at most once per      *)
(* acceptance.  Verifier.tla implements this specification.                *)
(***************************************************************************)
EXTENDS Integers

CONSTANTS
  Request,   \* requests the target may receive
  Session,   \* session ids
  TTL        \* the window, in clock units

VARIABLES
  accepted,  \* [request, session, at]: acceptances so far, at is their time stamp
  granted,   \* requests whose command was handed over for execution
  latest     \* the highest clock reading made so far

avars == <<accepted, granted, latest>>

Init ==
  /\ accepted = {}
  /\ granted = {}
  /\ latest = 0

\* A clock reading is made; an earlier one (a clock set back) changes nothing.
Observe ==
  /\ latest' \in Nat
  /\ latest' > latest
  /\ UNCHANGED <<accepted, granted>>

\* The window of every earlier acceptance of s has been seen to pass.
WindowPassed(s) ==
  \A a \in accepted : a.session = s => latest > a.at + TTL

Accept(r, s) ==
  /\ WindowPassed(s)
  /\ \A a \in accepted : a.request # r
  /\ \E t \in 0..latest : accepted' = accepted \cup {[request |-> r, session |-> s, at |-> t]}
  /\ UNCHANGED <<granted, latest>>

Grant(r) ==
  /\ r \notin granted
  /\ \E a \in accepted : a.request = r
  /\ granted' = granted \cup {r}
  /\ UNCHANGED <<accepted, latest>>

Next ==
  \/ Observe
  \/ \E r \in Request, s \in Session : Accept(r, s)
  \/ \E r \in Request : Grant(r)

Spec == Init /\ [][Next]_avars
=============================================================================
