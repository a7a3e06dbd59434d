------------------------------- MODULE MCPoller -------------------------------
(* Constants for the model checker.                                        *)
EXTENDS Poller

ShortRecipe == [start |-> 1, stable |-> 1, stop |-> 1]
=============================================================================
