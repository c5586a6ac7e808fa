-------------------------- MODULE MCPromotionReview --------------------------
(***************************************************************************)
(* Instances of PromotionReview for TLC: one agent, its versions either    *)
(* evaluated from the start (seeded) or evaluated while they are reviewed. *)
(***************************************************************************)
EXTENDS Dashboard, TLC

CONSTANTS v1, v2, g1, e1, e2, w1, a1, u1, u2, p1, p2, p3, c1, c2

MCGrantVersion == [g \in Grant |-> v1]

MCRequiredEvaluator == [p \in 1..MaxPolicy |-> IF p = 1 THEN e1 ELSE e2]

MCNoRuns == {}

MCTwoRuns == {1, 2}

MCThreeRuns == {1, 2, 3}

MCSecondRun == {2}

\* Run 2 and request p2 are about the second version where there is one,
\* every other run and request about the first.
MCRunVersion == [r \in Run |-> IF r = 2 /\ v2 \in Version THEN v2 ELSE v1]

MCVersionAgent == [v \in Version |-> a1]

MCPromoVersion ==
    [p \in Promo |-> IF p = p2 /\ v2 \in Version THEN v2 ELSE v1]

MCPromoRequester == [p \in Promo |-> IF p = p2 THEN u2 ELSE u1]

MCSymmetry == Permutations(Call)
=============================================================================
