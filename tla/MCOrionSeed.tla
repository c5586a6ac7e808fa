----------------------------- MODULE MCOrionSeed -----------------------------
(***************************************************************************)
(* Instances of OrionSeed for TLC: the shared skill of the story, with one *)
(* version the script creates and one that people publish.                 *)
(***************************************************************************)
EXTENDS OrionSeed

CONSTANTS v13, v14, s1, u1, u2, r1, r2, r3, c1, c2, c3,
          run1, run2, org, risk, investigator

MCVersionSkill == [v \in Version |-> s1]

\* r1 and r2 are filed by the script.
MCReviewVersion == [r \in Review |-> IF r = r3 THEN v14 ELSE v13]

MCReviewRequester == [r \in Review |-> u1]

MCScript == <<org, v13, risk, investigator>>

MCRunReview == [r \in Run |-> IF r = run1 THEN r1 ELSE r2]

MCRunCall == [r \in Run |-> IF r = run1 THEN c1 ELSE c2]

MCManifest == {{v13}}
=============================================================================
