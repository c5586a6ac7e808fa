\* Two requests for one version filed at the same time are both accepted.
SPECIFICATION SkillSpec
CONSTANTS
    v1 = v1
    v2 = v2
    s1 = s1
    u1 = u1
    u2 = u2
    r1 = r1
    r2 = r2
    r3 = r3
    r4 = r4
    c1 = c1
    c2 = c2
    NoCall = NoCall
    NoReview = NoReview
    NoVersion = NoVersion
    Skill = {s1}
    Version = {v1, v2}
    VersionSkill <- MCVersionSkill
    User = {u1, u2}
    Reviewer = {u1, u2}
    Review = {r1, r3}
    ReviewVersion <- MCReviewVersion
    ReviewRequester <- MCReviewRequester
    Call = {c1, c2}
INVARIANT OnePendingReview
CHECK_DEADLOCK FALSE
