\* One version evaluated twice concurrently, two deliveries at a time, every
\* kind of evidence drifting.  No symmetry: one property is a liveness one.
SPECIFICATION FairPipelineSpec
CONSTANTS
    v1 = v1
    v2 = v2
    g1 = g1
    e1 = e1
    e2 = e2
    w1 = w1
    w2 = w2
    NoRun = NoRun
    NoDataset = NoDataset
    Version = {v1}
    Grant = {g1}
    GrantVersion <- MCGrantVersion
    MaxPolicy = 2
    EvaluatorVersion = {e1, e2}
    RequiredEvaluator <- MCRequiredEvaluator
    DatasetVersion = {d1, d2}
    Run <- MCTwoRuns
    RunVersion <- MCRunVersion
    SeededRun <- MCNoSeed
    Worker = {w1, w2}
INVARIANTS
    PipelineTypeOK
    OneWorkerPerRun
    EvaluatedHasPassingRun
    EvaluatingIsExplained
PROPERTIES
    RunRecordIsPinned
    QueuedRunSettles
CHECK_DEADLOCK FALSE
