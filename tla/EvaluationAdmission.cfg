\* Four requests, a cap of one, two requests at a time; the evaluator may be
\* replaced while a request is checked against the catalog.
SPECIFICATION AdmissionSpec
CONSTANTS
    v1 = v1
    v2 = v2
    a1 = a1
    a2 = a2
    a3 = a3
    k1 = k1
    NoRun = NoRun
    NoDataset = NoDataset
    NoKey = NoKey
    Version = {v1, v2}
    Grant = {}
    GrantVersion <- MCGrantVersion
    MaxPolicy = 1
    EvaluatorVersion = {x1, x2}
    RequiredEvaluator <- MCRequiredEvaluator
    DatasetVersion = {d1}
    Run <- MCRun
    RunVersion <- MCRunVersion
    SeededRun <- MCNoSeed
    Worker = {w1}
    Key = {k1}
    RequestKey <- MCRequestKey
    Actor = {a1, a2, a3}
    RequestedBy <- MCRequestedBy
    DemoActor = {a1, a2}
    Cap = 1
    MaxHandlers = 2
INVARIANTS
    AdmissionTypeOK
    OneRunPerKey
    KeyHasOneAnswer
    DemoLoadIsBounded
CHECK_DEADLOCK FALSE
