\* A commit published twice under one label, another under two, a version made
\* by hand, two requests for one grant, two revocations.
SPECIFICATION RegistrySpec
CONSTANTS
    p1 = p1
    p2 = p2
    p3 = p3
    p4 = p4
    p5 = p5
    l1 = l1
    l2 = l2
    l3 = l3
    l4 = l4
    c1 = c1
    c2 = c2
    s1 = s1
    t1 = t1
    g1 = g1
    g2 = g2
    r1 = r1
    r2 = r2
    NoCommit = NoCommit
    NoAttempt = NoAttempt
    NoRevocation = NoRevocation
    NoGrant = NoGrant
    Attempt = {p1, p2, p3, p4, p5}
    Label = {l1, l2, l3, l4}
    AttemptLabel <- MCAttemptLabel
    Commit = {c1, c2}
    AttemptCommit <- MCAttemptCommit
    SkillVersion = {s1}
    Tool = {t1}
    AttemptRefs <- MCAttemptRefs
    CiOnly = FALSE
    Grant = {g1, g2}
    GrantVersion <- MCGrantVersion
    GrantTool <- MCGrantTool
    Revocation = {r1, r2}
SYMMETRY MCSymmetry
INVARIANTS
    RegistryTypeOK
    RetriesAgree
    OneActiveGrant
    ReferencesResolve
    RevocationIsAudited
PROPERTIES
    ImplementsEvidence
CHECK_DEADLOCK FALSE
