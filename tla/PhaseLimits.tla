----------------------------- MODULE PhaseLimits -----------------------------
(***************************************************************************)
(* The limits of a parameter as a recipe holds them and a test copies      *)
(* them.  A payload maps keys to values, as the JSON does: either it has a *)
(* limit for some of the phases, or it is a limit itself, from recipes     *)
(* that had no phases; it may be empty.                                    *)
(***************************************************************************)
EXTENDS Integers

NotSet == -1
Slugs == {"start", "stable", "stop"}
EmptyLimit == [minOn |-> FALSE, min |-> NotSet, maxOn |-> FALSE, max |-> NotSet]

Normalize(raw) ==
  IF DOMAIN raw \cap Slugs # {}
  THEN [s \in Slugs |-> IF s \in DOMAIN raw THEN raw[s] ELSE EmptyLimit]
  ELSE [s \in Slugs |-> IF s = "stable" /\ DOMAIN raw # {} THEN raw ELSE EmptyLimit]

\* Every phase that is neither START nor STOP counts as STABLE.
SlugOf(phase) ==
  CASE phase = "START" -> "start" [] phase = "STOP" -> "stop" [] OTHER -> "stable"

PhaseLimit(raw, phase) == Normalize(raw)[SlugOf(phase)]

HasActiveLimit(raw, phase) == PhaseLimit(raw, phase).minOn \/ PhaseLimit(raw, phase).maxOn
=============================================================================
