\* One run of the script after another: the second one fails if the first died
\* before its approval.
SPECIFICATION SeedSpec
CONSTANTS
    v13 = v13
    v14 = v14
    s1 = s1
    u1 = u1
    u2 = u2
    r1 = r1
    r2 = r2
    r3 = r3
    c1 = c1
    c2 = c2
    c3 = c3
    run1 = run1
    run2 = run2
    org = org
    risk = risk
    investigator = investigator
    NoCall = NoCall
    NoReview = NoReview
    NoVersion = NoVersion
    Skill = {s1}
    Version = {v13, v14}
    VersionSkill <- MCVersionSkill
    User = {u1, u2}
    Reviewer = {u2}
    Review = {r1, r2}
    ReviewVersion <- MCReviewVersion
    ReviewRequester <- MCReviewRequester
    Call = {c1, c2}
    Agent = {risk, investigator}
    MaxConsumers = 2
    Run = {run1, run2}
    Script <- MCScript
    Organization = org
    Reviewed = v13
    ReleaseRisk = risk
    Investigator = investigator
    CiLocked = TRUE
    RunReview <- MCRunReview
    RunCall <- MCRunCall
    Overlapping = FALSE
    Manifest = {}
INVARIANT RerunSucceeds
CHECK_DEADLOCK FALSE
