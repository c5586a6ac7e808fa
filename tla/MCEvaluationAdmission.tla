----------------------- MODULE MCEvaluationAdmission -----------------------
(***************************************************************************)
(* An instance of EvaluationAdmission for TLC: four requests, two for each *)
(* of two versions.  The first and the third carry one key; the first and  *)
(* the fourth come from one user of the demo, the second from another, the *)
(* third from a user who is not of the demo.                               *)
(***************************************************************************)
EXTENDS EvaluationAdmission, TLC

CONSTANTS v1, v2, a1, a2, a3, k1

MCRun == 1..4

MCRunVersion == [r \in Run |-> IF r \in {1, 3} THEN v1 ELSE v2]

MCRequestKey == [r \in Run |-> IF r \in {1, 3} THEN k1 ELSE NoKey]

MCRequestedBy ==
    [r \in Run |-> CASE r \in {1, 4} -> a1 [] r = 2 -> a2 [] r = 3 -> a3]

MCGrantVersion == <<>>

MCRequiredEvaluator == [p \in 1..MaxPolicy |-> CHOOSE e \in EvaluatorVersion : TRUE]

MCNoSeed == {}
=============================================================================
