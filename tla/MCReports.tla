------------------------------- MODULE MCReports -------------------------------
(* Constants for the model checker: a process that makes pages and files, and one that *)
(* evaluates; a shared parameter with limits in two phases.  The sample of START is one  *)
(* that a sync has stored from long before the start; the average of the two of STOP is  *)
(* above the limit and half-way between it and what comes next; the late one is from the *)
(* planned end itself.                                                                   *)
EXTENDS Reports

Shared == <<"shared">>
InTwoPhases ==
  {<<[start |-> [minOn |-> FALSE, min |-> NotSet, maxOn |-> TRUE, max |-> 1],
      stop |-> [minOn |-> TRUE, min |-> 1, maxOn |-> TRUE, max |-> 2]]>>}

Took(n, at, phase, v) == [seq |-> n, at |-> at, phase |-> phase, value |-> v, valid |-> {1}]
SomeSamples == {Took(1, -2, "START", <<2>>), Took(2, 3, "STOP", <<1>>)}
OneLate == {Took(3, 4, "STOP", <<4>>)}
=============================================================================
