\* Two versions of the demo agent, one of them evaluated while the other one is
\* reviewed, three requests, two decisions of visitors beside two resets.
SPECIFICATION DemoSpec
CONSTANTS
    v1 = v1
    v2 = v2
    e1 = e1
    w1 = w1
    a1 = a1
    u1 = u1
    u2 = u2
    u3 = u3
    p1 = p1
    p2 = p2
    p3 = p3
    c1 = c1
    c2 = c2
    c3 = c3
    c4 = c4
    d1 = d1
    s1 = s1
    s2 = s2
    NoRun = NoRun
    NoDataset = NoDataset
    NoCall = NoCall
    NoPromo = NoPromo
    NoVersion = NoVersion
    Version = {v1, v2}
    Grant = {}
    GrantVersion <- MCGrantVersion
    MaxPolicy = 1
    EvaluatorVersion = {e1}
    RequiredEvaluator <- MCRequiredEvaluator
    DatasetVersion = {d1}
    Run <- MCTwoRuns
    RunVersion <- MCRunVersion
    SeededRun <- MCFirstRun
    Worker = {w1}
    Agent = {a1}
    VersionAgent <- MCVersionAgent
    User = {u1, u2, u3}
    Reviewer = {u1, u2, u3}
    Promo = {p1, p2, p3}
    PromoVersion <- MCPromoVersion
    PromoRequester <- MCPromoRequester
    Call = {c1, c2, c3, c4}
    DemoAgent = a1
    System = u3
    Reset = {s1, s2}
    ResetCall <- MCResetCall
SYMMETRY MCSymmetry
INVARIANTS
    DemoTypeOK
    OneRecommended
    DecidedOnce
    OnePendingPerVersion
    RollbackOfApproved
    ResetAnswerIsTrue
PROPERTY ImplementsSlot
CHECK_DEADLOCK FALSE
