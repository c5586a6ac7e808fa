------------------------------- MODULE MCGates -------------------------------
(***************************************************************************)
(* An instance of Gates for TLC: one scored dimension, one evaluator, two  *)
(* cases of which one is tagged.                                           *)
(***************************************************************************)
EXTENDS Gates

CONSTANTS c1, t1

MCCaseTags == [c \in Case |-> IF c = c1 THEN {t1} ELSE {}]
=============================================================================
