\* A second run that settles after the promotion takes the version out of
\* recommended.
SPECIFICATION ReviewSpec
CONSTANTS
    v1 = v1
    v2 = v2
    g1 = g1
    e1 = e1
    e2 = e2
    w1 = w1
    a1 = a1
    u1 = u1
    u2 = u2
    p1 = p1
    p2 = p2
    p3 = p3
    c1 = c1
    c2 = c2
    NoRun = NoRun
    NoDataset = NoDataset
    NoCall = NoCall
    NoPromo = NoPromo
    NoVersion = NoVersion
    Version = {v1}
    Grant = {}
    GrantVersion <- MCGrantVersion
    MaxPolicy = 1
    EvaluatorVersion = {e1}
    RequiredEvaluator <- MCRequiredEvaluator
    DatasetVersion = {d1}
    Run <- MCTwoRuns
    RunVersion <- MCRunVersion
    SeededRun <- MCNoRuns
    Worker = {w1}
    Agent = {a1}
    VersionAgent <- MCVersionAgent
    User = {u1, u2}
    Reviewer = {u1, u2}
    Promo = {p1}
    PromoVersion <- MCPromoVersion
    PromoRequester <- MCPromoRequester
    Call = {c1}
PROPERTY RecommendedLeavesOnlyBySupersession
CHECK_DEADLOCK FALSE
