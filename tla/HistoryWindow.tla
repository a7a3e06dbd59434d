---------------------------- MODULE HistoryWindow ----------------------------
(***************************************************************************)
(* What the PLC promises a reader of its history: the samples are numbered *)
(* 1, 2, 3, ... without gaps, and the last Capacity of them, or all of     *)
(* them while there are fewer, can be read.  A restart forgets everything. *)
(***************************************************************************)
EXTENDS Integers

CONSTANT Capacity

VARIABLES
  last,     \* number of the newest sample, 0 if there is none
  kept      \* numbers of the samples that can be read

\* The newest Capacity of the numbers 1 .. n.
Newest(n) == {i \in 1 .. n : i > n - Capacity}

Init ==
  /\ last = 0
  /\ kept = {}

Sample ==
  /\ last' = last + 1
  /\ kept' = Newest(last + 1)

Restart ==
  /\ last' = 0
  /\ kept' = {}

Next == Sample \/ Restart

Spec == Init /\ [][Next]_<<last, kept>>
=============================================================================
