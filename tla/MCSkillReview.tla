---------------------------- MODULE MCSkillReview ----------------------------
(***************************************************************************)
(* Instances of SkillReview for TLC: one skill, two of its versions, the   *)
(* reviews of the first filed by one user and of the second by another.    *)
(***************************************************************************)
EXTENDS SkillReview, TLC

CONSTANTS v1, v2, s1, u1, u2, r1, r2, r3, r4, c1, c2

MCVersionSkill == [v \in Version |-> s1]

MCReviewVersion == [r \in Review |-> IF r \in {r2, r4} THEN v2 ELSE v1]

MCReviewRequester == [r \in Review |-> IF r \in {r2, r4} THEN u2 ELSE u1]

\* Calls are interchangeable.
MCSymmetry == Permutations(Call)
=============================================================================
