------------------------ MODULE MCEvaluationPipeline ------------------------
(***************************************************************************)
(* Instances of EvaluationPipeline for TLC.                                *)
(***************************************************************************)
EXTENDS EvaluationPipeline

CONSTANTS v1, v2, g1, e1, e2, w1, w2

\* Every grant row belongs to the first version, every run too unless there
\* are two versions, in which case the last run evaluates the second one.
MCGrantVersion == [g \in Grant |-> v1]

MCRequiredEvaluator == [p \in 1..MaxPolicy |-> IF p = 1 THEN e1 ELSE e2]

MCTwoRuns == 1..2

MCThreeRuns == 1..3

MCRunVersion == [r \in Run |-> IF r = 3 THEN v2 ELSE v1]

MCNoSeed == {}
=============================================================================
