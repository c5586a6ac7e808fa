----------------------------- MODULE MCRegistry -----------------------------
(***************************************************************************)
(* An instance of CapabilityGrants, on the versions of Publication.        *)
(***************************************************************************)
EXTENDS CapabilityGrants, TLC

CONSTANTS p1, p2, p3, p4, p5, l1, l2, l3, l4, c1, c2, s1, t1, g1, g2, r1, r2

\* Two publications of a commit under one label, two of another commit under
\* two labels, and a version made by hand.
MCAttemptLabel ==
    (p1 :> l1) @@ (p2 :> l1) @@ (p3 :> l2) @@ (p4 :> l3) @@ (p5 :> l4)

MCAttemptCommit ==
    (p1 :> c1) @@ (p2 :> c1) @@ (p3 :> c2) @@ (p4 :> c2) @@ (p5 :> NoCommit)

MCAttemptRefs == [p \in Attempt |-> IF p = p5 THEN {t1} ELSE {s1}]

\* Two requests for the same tool of the same version.
MCGrantVersion == [g \in Grant |-> p1]

MCGrantTool == [g \in Grant |-> t1]

MCSymmetry == Permutations(Revocation)
=============================================================================
