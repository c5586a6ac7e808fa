\* Every policy and every answer over one dimension, one evaluator, two cases.
SPECIFICATION GatesSpec
CONSTANTS
    c1 = c1
    t1 = t1
    None = None
    Unset = Unset
    Dimension = {d1}
    MaxScore = 1
    Evaluator = {e1}
    EvaluatorVersion = {x1, x2}
    Case = {c1, c2}
    Tag = {t1}
    MaxTags = 2
    CaseTags <- MCCaseTags
    RateScale = 2
    MaxRegressions = 1
INVARIANTS
    OneGatePerCriterion
    EmptyEvidenceNeverPasses
PROPERTY BetterRunStillPasses
