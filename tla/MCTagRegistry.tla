----------------------------- MODULE MCTagRegistry -----------------------------
(* Constants for the model checker.                                        *)
EXTENDS TagRegistry, TLC

CONSTANTS page, task

Homes == page :> Web @@ task :> "child"
AsksOf == page :> {"layout"} @@ task :> {"tags"}
Alike == Permutations(Sessions)
=============================================================================
