--------------------------- MODULE MCTestLifecycle ---------------------------
(***************************************************************************)
(* Constants for the model checker, and a sliding clock for the liveness   *)
(* run: at the bound, instead of stopping, the window moves on by one and  *)
(* every time stamp gets one tick older, down to zero.  Only differences   *)
(* of times matter, and each of them is compared with a duration below the *)
(* bound, so a stamp at zero is simply "long ago".                         *)
(***************************************************************************)
EXTENDS TestLifecycle, TLC

OneRecipe == {[start |-> 1, stable |-> 1, stop |-> 1]}
ShortRecipe == {[start |-> 1, stable |-> 1, stop |-> 0]}

WorkerSymmetry == Permutations(Supervisors)

Older(x) == IF x > 0 THEN x - 1 ELSE x
Aged(row) == [row EXCEPT !.started = Older(@), !.stable = Older(@), !.stop = Older(@),
                         !.ended = Older(@)]

Slide ==
  /\ now = MaxTime
  /\ lossSince' = Older(lossSince)
  /\ db' = [t \in TestIds |-> Aged(db[t])]
  /\ mem' = [p \in Procs |-> Aged(mem[p])]
  /\ UNCHANGED <<now, fault, lastId, pc, tid, command, queued, aborts, crashes>>

SlidingSpec == Init /\ [][Next \/ Slide]_vars /\ WF_vars(Slide) /\ Fairness
=============================================================================
