---------------------------- MODULE MCPublicDemo ----------------------------
(***************************************************************************)
(* An instance of PublicDemo for TLC: the demo agent, a version evaluated  *)
(* before and one while they are reviewed, requests of two visitors.       *)
(***************************************************************************)
EXTENDS PublicDemo, TLC

CONSTANTS v1, v2, e1, w1, a1, u1, u2, u3, p1, p2, p3, c1, c2, c3, c4, d1,
          s1, s2

MCGrantVersion == [g \in Grant |-> v1]

MCRequiredEvaluator == [p \in 1..MaxPolicy |-> e1]

MCTwoRuns == {1, 2}

MCFirstRun == {1}

MCRunVersion == [r \in Run |-> IF r = 2 THEN v2 ELSE v1]

MCVersionAgent == [v \in Version |-> a1]

MCPromoVersion == [p \in Promo |-> IF p = p2 THEN v2 ELSE v1]

MCPromoRequester == [p \in Promo |-> IF p = p2 THEN u2 ELSE u1]

MCResetCall == [s \in Reset |-> IF s = s1 THEN c3 ELSE c4]

MCSymmetry == Permutations({c1, c2})
=============================================================================
