----------------------------- MODULE TestPromise -----------------------------
(***************************************************************************)
(* What the test subsystem promises of every test, whatever its processes  *)
(* do to each other: a test runs from a fixed start; it gets a verdict     *)
(* only after the whole of its programme, due[t], has gone by; it can be   *)
(* aborted at any time; once it has stopped running it never runs again;   *)
(* and only a test that is not running can be deleted.  A verdict may      *)
(* still be revised, from one verdict to another and between a verdict and *)
(* an abort: that is as much as the code guarantees.                       *)
(***************************************************************************)
EXTENDS Naturals

CONSTANT Tests

VARIABLES
  now,    \* the clock
  life,   \* "none", "running", "verdict", "aborted" or "deleted"
  due     \* when the programme of the test is over

vars == <<now, life, due>>

Life == {"none", "running", "verdict", "aborted", "deleted"}

TypeOK ==
  /\ now \in Nat
  /\ life \in [Tests -> Life]
  /\ due \in [Tests -> Nat]

Init ==
  /\ now = 0
  /\ life = [t \in Tests |-> "none"]
  /\ due = [t \in Tests |-> 0]

Advance ==
  /\ now' = now + 1
  /\ UNCHANGED <<life, due>>

Become(t, l) == life' = [life EXCEPT ![t] = l]

Start(t) ==
  /\ life[t] = "none"
  /\ Become(t, "running")
  /\ due' \in [Tests -> Nat]
  /\ \A u \in Tests \ {t} : due'[u] = due[u]
  /\ UNCHANGED now

Judge(t) ==
  /\ life[t] \in {"running", "verdict", "aborted"}
  /\ now >= due[t]
  /\ Become(t, "verdict")
  /\ UNCHANGED <<now, due>>

Abort(t) ==
  /\ life[t] \in {"running", "verdict", "aborted"}
  /\ Become(t, "aborted")
  /\ UNCHANGED <<now, due>>

Delete(t) ==
  /\ life[t] \in {"verdict", "aborted", "deleted"}
  /\ Become(t, "deleted")
  /\ due' = [due EXCEPT ![t] = 0]
  /\ UNCHANGED now

Next ==
  \/ Advance
  \/ \E t \in Tests : Start(t) \/ Judge(t) \/ Abort(t) \/ Delete(t)

Spec == Init /\ [][Next]_vars
=============================================================================
