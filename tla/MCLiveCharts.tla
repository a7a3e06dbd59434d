----------------------------- MODULE MCLiveCharts -----------------------------
(* Constants for the model checker.                                        *)
EXTENDS LiveCharts

ShortRecipe == [start |-> 1, stable |-> 1, stop |-> 1]

\* The compressor stops and starts again.
StopAndGo == {{0, 2}}
=============================================================================
