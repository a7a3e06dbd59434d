----------------------------- MODULE MCPlcServer -----------------------------
(* Constants for the model checker: the writes of a client that follows    *)
(* the documented protocol.                                                *)
EXTENDS PlcServer, TLC

TestCommand(circuit, start, stop, abort, phase, active) ==
  0 :> circuit @@ 1 :> start @@ 2 :> stop @@ 3 :> abort @@ 4 :> phase @@ 5 :> active

StartTest == TestCommand(1, 1, 0, 0, 1, 1)
StableTest == TestCommand(3, 0, 0, 0, 2, 1)
AbortTest == TestCommand(1, 0, 0, 1, 5, 0)
SyncTime == 10 :> 1 @@ 11 :> 0 @@ 12 :> 2

AllWrites == {StartTest, StableTest, AbortTest, SyncTime}
JustStart == {StartTest}
=============================================================================
