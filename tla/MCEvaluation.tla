----------------------------- MODULE MCEvaluation -----------------------------
(* Constants for the model checker: parameter 1 is shared, 2 belongs to    *)
(* circuit 1.                                                              *)
EXTENDS Evaluation, TLC

EvaluatorSymmetry == Permutations(Evaluators)

TwoScopes == <<"shared", "circuit1">>

Between(low, high) == [minOn |-> TRUE, min |-> low, maxOn |-> TRUE, max |-> high]
OnlyMax(high) == [minOn |-> FALSE, min |-> NotSet, maxOn |-> TRUE, max |-> high]
Legacy == Between(1, 2)   \* from before there were phases
Phased == [start |-> OnlyMax(1), stop |-> Between(1, 2)]
SomeSnapshots == {<<Legacy, Phased>>, <<Phased, Legacy>>, <<Phased, << >>>>}

Took(n, phase, v, q) == [seq |-> n, phase |-> phase, value |-> v, valid |-> q]
SomeSamples == {Took(1, "START", <<1, 2>>, {1, 2}), Took(2, "STABLE", <<3, NotSet>>, {1, 2})}
OneLate == {Took(3, "STABLE", <<2, 4>>, {1})}
=============================================================================
