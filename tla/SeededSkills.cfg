\* Two runs of the script, which may overlap or die, beside people who publish
\* versions and review the skill.
SPECIFICATION SeedSpec
CONSTANTS
    v13 = v13
    v14 = v14
    s1 = s1
    u1 = u1
    u2 = u2
    r1 = r1
    r2 = r2
    r3 = r3
    c1 = c1
    c2 = c2
    c3 = c3
    run1 = run1
    run2 = run2
    org = org
    risk = risk
    investigator = investigator
    NoCall = NoCall
    NoReview = NoReview
    NoVersion = NoVersion
    Skill = {s1}
    Version = {v13, v14}
    VersionSkill <- MCVersionSkill
    User = {u1, u2}
    Reviewer = {u2}
    Review = {r1, r2, r3}
    ReviewVersion <- MCReviewVersion
    ReviewRequester <- MCReviewRequester
    Call = {c1, c2, c3}
    Agent = {risk, investigator}
    MaxConsumers = 2
    Run = {run1, run2}
    Script <- MCScript
    Organization = org
    Reviewed = v13
    ReleaseRisk = risk
    Investigator = investigator
    CiLocked = FALSE
    RunReview <- MCRunReview
    RunCall <- MCRunCall
    Overlapping = TRUE
    Manifest <- MCManifest
INVARIANTS
    SeedTypeOK
    OneRecommended
    DecidedOnce
    DeprecatedWasApproved
    SeedIsComplete
PROPERTY NoSilentUpgrade
CHECK_DEADLOCK FALSE
