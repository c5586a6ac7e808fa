---------------------- MODULE EvaluationPipeline_proofs ----------------------
(***************************************************************************)
(* Proofs about EvaluationPipeline, for any number of versions, runs,      *)
(* deliveries, grants and policies.                                        *)
(*                                                                         *)
(* PipelineInv is the inductive invariant.  Beside the types it says who   *)
(* owns a reference at every moment: its handler until it is inserted      *)
(* (HandlerOwnsAbsentRun), the delivery that claimed it while it is        *)
(* dispatched (WorkerHoldsDispatchedRun, OneWorkerPerRun), nobody once it  *)
(* is settled; and that only a completed run has gate rows                 *)
(* (GatesOnlyWhenCompleted), so that no step can take a passing run away.  *)
(***************************************************************************)
EXTENDS EvaluationPipeline, TLAPS

\* Evidence drifts within its types.
LEMMA EvidenceTypeStep ==
    ASSUME EvidenceTypeOK, EvidenceNext
    PROVE  EvidenceTypeOK'
BY EvidenceAssumption
   DEF EvidenceTypeOK, EvidenceNext, GrantCapability, RevokeCapability,
       CreateEvaluationPolicy, EvaluatorVersionChanges, DatasetChanges,
       Policy, GrantState

\* A capability snapshot is a set of grant rows.
LEMMA SnapshotType == \A v : Snapshot(v) \in SUBSET Grant
BY DEF Snapshot

\* The first policy exists.
LEMMA FirstPolicy == 1 \in Policy
BY EvidenceAssumption DEF Policy

\* A run that is not requested is a reference.
LEMMA AbsentRunType == AbsentRun \in RunReference
BY FirstPolicy DEF AbsentRun, RunReference, RunStatus

\* A handler without local state is well typed.
LEMMA HandlerAtType ==
    \A pc \in {"idle", "reading", "committed", "done"} : HandlerAt(pc) \in Handler
BY FirstPolicy DEF HandlerAt, Handler, Stage

\* An idle worker is well typed.
LEMMA IdleWorkerType == IdleWorker \in WorkerState
BY DEF IdleWorker, WorkerState

-----------------------------------------------------------------------------
(* Type correctness *)

\* Changing the status of a run, which may be that of an idle worker, keeps it
\* a reference.
LEMMA StatusChangeType ==
    ASSUME run \in [Run -> RunReference], NEW r, NEW s \in RunStatus
    PROVE  [run EXCEPT ![r].status = s] \in [Run -> RunReference]
<1>1. CASE r \in Run
  <2>1. run[r] \in RunReference
    BY <1>1
  <2>2. [run[r] EXCEPT !.status = s] \in RunReference
    BY <2>1 DEF RunReference
  <2> QED
    BY <1>1, <2>2
<1>2. CASE r \notin Run
  BY <1>2
<1> QED
  BY <1>1, <1>2

\* The actions that write a run or a stage.
LEMMA RunWriters ==
    ASSUME [PipelineNext]_vars
    PROVE  \/ UNCHANGED <<stage, run>>
           \/ \E r \in Run : CommitRequest(r)
           \/ \E w \in Worker, r \in Run : ClaimJob(w, r)
           \/ \E w \in Worker : MarkFailed(w) \/ PersistFails(w)
           \/ \E w \in Worker, clean \in BOOLEAN : PersistSuccess(w, clean)
<1>1. ASSUME NEW r \in Run, HandlerStep(r)
      PROVE  UNCHANGED <<stage, run>> \/ CommitRequest(r)
  BY <1>1 DEF HandlerStep, BeginRequest, RefuseRequest, DispatchJob, LoseDispatch
<1>2. ASSUME NEW r \in Run, AcknowledgeTask(r) PROVE UNCHANGED <<stage, run>>
  BY <1>2 DEF AcknowledgeTask
<1>3. ASSUME NEW w \in Worker, WorkerStep(w)
      PROVE  \/ UNCHANGED <<stage, run>>
             \/ MarkFailed(w) \/ PersistFails(w)
             \/ \E clean \in BOOLEAN : PersistSuccess(w, clean)
  BY <1>3 DEF WorkerStep, AgentEvalReturns
<1>4. ASSUME NEW w \in Worker, WorkerCrashes(w) PROVE UNCHANGED <<stage, run>>
  BY <1>4 DEF WorkerCrashes
<1>5. CASE UNCHANGED pipelineVars
  BY <1>5 DEF pipelineVars
<1>6. CASE UNCHANGED vars
  BY <1>6 DEF vars, pipelineVars
<1> QED
  BY <1>1, <1>2, <1>3, <1>4, <1>5, <1>6 DEF PipelineNext

\* The initial states are well typed.
LEMMA InitType == PipelineInit => PipelineTypeOK
<1> SUFFICES ASSUME PipelineInit PROVE PipelineTypeOK
  OBVIOUS
<1>1. EvidenceTypeOK
  BY EvidenceAssumption, FirstPolicy
     DEF PipelineInit, EvidenceInit, EvidenceTypeOK, GrantState, Policy
<1>2. stage \in [Version -> Stage]
  BY DEF PipelineInit, Stage
<1>3. run \in [Run -> RunReference]
  <2>1. \A r \in Run :
          [AbsentRun EXCEPT !.status = "COMPLETED", !.dataset = dataset,
                            !.gates = "passed", !.external = TRUE]
             \in RunReference
    BY <1>1, AbsentRunType DEF AbsentRun, RunReference, RunStatus, EvidenceTypeOK
  <2> QED
    BY <2>1, AbsentRunType DEF PipelineInit
<1>4. handler \in [Run -> Handler]
  BY HandlerAtType DEF PipelineInit
<1>5. queue \subseteq Run /\ worker \in [Worker -> WorkerState]
  BY IdleWorkerType DEF PipelineInit
<1> QED
  BY <1>1, <1>2, <1>3, <1>4, <1>5 DEF PipelineTypeOK

\* Every step keeps the types, action by action.
LEMMA StepType == PipelineTypeOK /\ [PipelineNext]_vars => PipelineTypeOK'
<1> SUFFICES ASSUME PipelineTypeOK, [PipelineNext]_vars PROVE PipelineTypeOK'
  OBVIOUS
<1> USE DEF PipelineTypeOK
<1>1. ASSUME NEW r \in Run, BeginRequest(r) PROVE PipelineTypeOK'
  BY <1>1, PipelineAssumption
     DEF BeginRequest, evidenceVars, EvidenceTypeOK, Handler
<1>2. ASSUME NEW r \in Run, RefuseRequest(r) PROVE PipelineTypeOK'
  BY <1>2, HandlerAtType DEF RefuseRequest, evidenceVars, EvidenceTypeOK
<1>3. ASSUME NEW r \in Run, CommitRequest(r) PROVE PipelineTypeOK'
  <2>1. run' \in [Run -> RunReference]
    BY <1>3, AbsentRunType, SnapshotType
       DEF CommitRequest, RunReference, AbsentRun, RunStatus, Handler
  <2>2. stage' \in [Version -> Stage]
    BY <1>3, PipelineAssumption DEF CommitRequest, Stage
  <2> QED
    BY <1>3, <2>1, <2>2, HandlerAtType
       DEF CommitRequest, evidenceVars, EvidenceTypeOK
<1>4. ASSUME NEW r \in Run, DispatchJob(r) \/ LoseDispatch(r) PROVE PipelineTypeOK'
  BY <1>4, HandlerAtType
     DEF DispatchJob, LoseDispatch, evidenceVars, EvidenceTypeOK
<1>5. ASSUME NEW r \in Run, AcknowledgeTask(r) PROVE PipelineTypeOK'
  BY <1>5 DEF AcknowledgeTask, evidenceVars, EvidenceTypeOK
<1>6. ASSUME NEW w \in Worker, NEW r \in Run, ClaimJob(w, r) PROVE PipelineTypeOK'
  <2>1. run' \in [Run -> RunReference]
    BY <1>6, StatusChangeType DEF ClaimJob, RunStatus
  <2>2. worker' \in [Worker -> WorkerState]
    BY <1>6 DEF ClaimJob, WorkerOn, WorkerState
  <2> QED
    BY <1>6, <2>1, <2>2 DEF ClaimJob, evidenceVars, EvidenceTypeOK
<1>7. ASSUME NEW w \in Worker, MarkFailed(w) PROVE PipelineTypeOK'
  <2>1. run' \in [Run -> RunReference]
    BY <1>7, StatusChangeType DEF MarkFailed, RunStatus
  <2>2. stage' \in [Version -> Stage]
    BY <1>7 DEF MarkFailed, Stage
  <2> QED
    BY <1>7, <2>1, <2>2, IdleWorkerType
       DEF MarkFailed, evidenceVars, EvidenceTypeOK
<1>8. ASSUME NEW w \in Worker, AgentEvalReturns(w) PROVE PipelineTypeOK'
  <2>1. [pc |-> "returned", run |-> worker[w].run,
         grants |-> Snapshot(RunVersion[worker[w].run]),
         dataset |-> dataset] \in WorkerState
    BY <1>8, SnapshotType DEF AgentEvalReturns, WorkerState, EvidenceTypeOK
  <2> QED
    BY <1>8, <2>1 DEF AgentEvalReturns, evidenceVars, EvidenceTypeOK
<1>9. ASSUME NEW w \in Worker, NEW clean \in BOOLEAN, PersistSuccess(w, clean)
      PROVE  PipelineTypeOK'
  <2>1. run' \in [Run -> RunReference]
    BY <1>9 DEF PersistSuccess, Completed, RunReference, RunStatus,
                WorkerState, EvidenceTypeOK
  <2>2. stage' \in [Version -> Stage]
    BY <1>9 DEF PersistSuccess, Stage
  <2> QED
    BY <1>9, <2>1, <2>2, IdleWorkerType
       DEF PersistSuccess, evidenceVars, EvidenceTypeOK
<1>10. ASSUME NEW w \in Worker, PersistFails(w) PROVE PipelineTypeOK'
  <2>1. run' \in [Run -> RunReference]
    BY <1>10 DEF PersistFails, FailedWithResult, RunReference, RunStatus
  <2> QED
    BY <1>10, <2>1, IdleWorkerType DEF PersistFails, evidenceVars, EvidenceTypeOK
<1>11. ASSUME NEW w \in Worker, WorkerCrashes(w) PROVE PipelineTypeOK'
  BY <1>11, IdleWorkerType DEF WorkerCrashes, evidenceVars, EvidenceTypeOK
<1>12. ASSUME EvidenceNext, UNCHANGED pipelineVars PROVE PipelineTypeOK'
  BY <1>12, EvidenceTypeStep DEF pipelineVars
<1>13. CASE UNCHANGED vars
  BY <1>13 DEF vars, evidenceVars, pipelineVars, EvidenceTypeOK
<1> QED
  BY <1>1, <1>2, <1>3, <1>4, <1>5, <1>6, <1>7, <1>8, <1>9, <1>10, <1>11,
     <1>12, <1>13
     DEF PipelineNext, HandlerStep, WorkerStep

\* Every variable of the pipeline keeps its type (EvaluationPipeline).
THEOREM TypeCorrect == PipelineSpec => []PipelineTypeOK
BY InitType, StepType, PTL DEF PipelineSpec

-----------------------------------------------------------------------------
(* The inductive invariant *)

\* A reference is inserted by the handler of its request, once.
HandlerOwnsAbsentRun ==
    \A r \in Run :
        handler[r].pc \in {"idle", "reading"} => run[r].status = "absent"

\* Gate rows come with the completion, in one transaction.
GatesOnlyWhenCompleted ==
    \A r \in Run : run[r].gates # "none" => run[r].status = "COMPLETED"

IdleWorkerHasNoRun ==
    \A w \in Worker : worker[w].pc = "idle" <=> worker[w].run = NoRun

PipelineInv ==
    /\ PipelineTypeOK
    /\ HandlerOwnsAbsentRun
    /\ GatesOnlyWhenCompleted
    /\ IdleWorkerHasNoRun
    /\ WorkerHoldsDispatchedRun
    /\ OneWorkerPerRun
    /\ EvaluatedHasPassingRun
    /\ EvaluatingIsExplained

\* The inductive invariant holds at the start.
LEMMA InitInv == PipelineInit => PipelineInv
<1> SUFFICES ASSUME PipelineInit PROVE PipelineInv
  OBVIOUS
<1>1. PipelineTypeOK
  BY InitType
<1>2. HandlerOwnsAbsentRun
  BY DEF PipelineInit, HandlerOwnsAbsentRun, HandlerAt, AbsentRun
<1>3. GatesOnlyWhenCompleted
  BY DEF PipelineInit, GatesOnlyWhenCompleted, AbsentRun
<1>4. IdleWorkerHasNoRun /\ WorkerHoldsDispatchedRun /\ OneWorkerPerRun
  BY DEF PipelineInit, IdleWorkerHasNoRun, WorkerHoldsDispatchedRun,
         OneWorkerPerRun, IdleWorker
<1>5. EvaluatedHasPassingRun
  <2> SUFFICES ASSUME NEW v \in Version, stage[v] = "EVALUATED"
               PROVE  PassingRuns(v) # {}
    BY DEF EvaluatedHasPassingRun, PipelineInit
  <2>1. PICK r \in SeededRun : RunVersion[r] = v
    BY DEF PipelineInit, SeededVersions
  <2>2. r \in PassingRuns(v)
    BY <2>1, PipelineAssumption DEF PipelineInit, PassingRuns, RunsOf, AbsentRun
  <2> QED
    BY <2>2
<1>6. EvaluatingIsExplained
  BY DEF PipelineInit, EvaluatingIsExplained
<1> QED
  BY <1>1, <1>2, <1>3, <1>4, <1>5, <1>6 DEF PipelineInv

\* Every step keeps the ownership of runs: what a handler or a worker holds.
LEMMA ProofOfOwnership ==
    ASSUME PipelineInv, [PipelineNext]_vars
    PROVE  /\ HandlerOwnsAbsentRun'
           /\ GatesOnlyWhenCompleted'
           /\ IdleWorkerHasNoRun'
           /\ WorkerHoldsDispatchedRun'
           /\ OneWorkerPerRun'
<1> DEFINE Owned == /\ HandlerOwnsAbsentRun'
                    /\ GatesOnlyWhenCompleted'
                    /\ IdleWorkerHasNoRun'
                    /\ WorkerHoldsDispatchedRun'
                    /\ OneWorkerPerRun'
<1> USE PipelineAssumption
    DEF PipelineInv, PipelineTypeOK, RunReference, WorkerState, Handler,
        HandlerOwnsAbsentRun, GatesOnlyWhenCompleted, IdleWorkerHasNoRun,
        WorkerHoldsDispatchedRun, OneWorkerPerRun
<1>1. ASSUME NEW r \in Run, BeginRequest(r) PROVE Owned
  BY <1>1 DEF BeginRequest
<1>2. ASSUME NEW r \in Run, RefuseRequest(r) PROVE Owned
  BY <1>2 DEF RefuseRequest, HandlerAt
<1>3. ASSUME NEW r \in Run, CommitRequest(r) PROVE Owned
  BY <1>3 DEF CommitRequest, HandlerAt, AbsentRun
<1>4. ASSUME NEW r \in Run, DispatchJob(r) \/ LoseDispatch(r) PROVE Owned
  <2>1. ASSUME DispatchJob(r) PROVE Owned
    BY <2>1 DEF DispatchJob, HandlerAt
  <2>2. ASSUME LoseDispatch(r) PROVE Owned
    BY <2>2 DEF LoseDispatch, HandlerAt
  <2> QED
    BY <1>4, <2>1, <2>2
<1>5. ASSUME NEW r \in Run, AcknowledgeTask(r) PROVE Owned
  BY <1>5 DEF AcknowledgeTask
<1>6. ASSUME NEW w \in Worker, NEW r \in Run, ClaimJob(w, r) PROVE Owned
  BY <1>6 DEF ClaimJob, WorkerOn
<1>7. ASSUME NEW w \in Worker, MarkFailed(w) PROVE Owned
  BY <1>7 DEF MarkFailed, IdleWorker
<1>8. ASSUME NEW w \in Worker, AgentEvalReturns(w) PROVE Owned
  BY <1>8 DEF AgentEvalReturns
<1>9. ASSUME NEW w \in Worker, NEW clean \in BOOLEAN, PersistSuccess(w, clean)
      PROVE  Owned
  BY <1>9 DEF PersistSuccess, Completed, IdleWorker
<1>10. ASSUME NEW w \in Worker, PersistFails(w) PROVE Owned
  BY <1>10 DEF PersistFails, FailedWithResult, IdleWorker
<1>11. ASSUME NEW w \in Worker, WorkerCrashes(w) PROVE Owned
  BY <1>11 DEF WorkerCrashes, IdleWorker
<1>12. ASSUME EvidenceNext, UNCHANGED pipelineVars PROVE Owned
  BY <1>12 DEF pipelineVars
<1>13. CASE UNCHANGED vars
  BY <1>13 DEF vars, pipelineVars
<1> HIDE DEF PipelineInv, PipelineTypeOK, RunReference, WorkerState, Handler,
             HandlerOwnsAbsentRun, GatesOnlyWhenCompleted, IdleWorkerHasNoRun,
             WorkerHoldsDispatchedRun, OneWorkerPerRun
<1> QED
  BY <1>1, <1>2, <1>3, <1>4, <1>5, <1>6, <1>7, <1>8, <1>9, <1>10, <1>11,
     <1>12, <1>13
     DEF PipelineNext, HandlerStep, WorkerStep

\* Every step keeps the conjuncts about the stage of a version.
LEMMA ProofOfStages ==
    ASSUME PipelineInv, [PipelineNext]_vars
    PROVE  EvaluatedHasPassingRun' /\ EvaluatingIsExplained'
<1> DEFINE Explained == EvaluatedHasPassingRun' /\ EvaluatingIsExplained'
<1>1. \/ UNCHANGED <<stage, run>>
      \/ \E r \in Run : CommitRequest(r)
      \/ \E w \in Worker, r \in Run : ClaimJob(w, r)
      \/ \E w \in Worker : MarkFailed(w) \/ PersistFails(w)
      \/ \E w \in Worker, clean \in BOOLEAN : PersistSuccess(w, clean)
  BY RunWriters
<1> USE PipelineAssumption
    DEF PipelineInv, PipelineTypeOK, RunReference, WorkerState, Handler,
        HandlerOwnsAbsentRun, GatesOnlyWhenCompleted, WorkerHoldsDispatchedRun,
        EvaluatedHasPassingRun, EvaluatingIsExplained, PassingRuns, RunsOf,
        InFlight
<1>2. CASE UNCHANGED <<stage, run>>
  BY <1>2
<1>3. ASSUME NEW r \in Run, CommitRequest(r) PROVE Explained
  BY <1>3 DEF CommitRequest, AbsentRun
<1>4. ASSUME NEW w \in Worker, NEW r \in Run, ClaimJob(w, r) PROVE Explained
  BY <1>4 DEF ClaimJob, WorkerOn
<1>5. ASSUME NEW w \in Worker, MarkFailed(w) PROVE Explained
  BY <1>5 DEF MarkFailed
<1>6. ASSUME NEW w \in Worker, NEW clean \in BOOLEAN, PersistSuccess(w, clean)
      PROVE  Explained
  BY <1>6 DEF PersistSuccess, Completed
<1>7. ASSUME NEW w \in Worker, PersistFails(w) PROVE Explained
  BY <1>7 DEF PersistFails, FailedWithResult
<1> QED
  BY <1>1, <1>2, <1>3, <1>4, <1>5, <1>6, <1>7

\* The invariant is inductive.
LEMMA StepInv == PipelineInv /\ [PipelineNext]_vars => PipelineInv'
BY StepType, ProofOfOwnership, ProofOfStages DEF PipelineInv

\* The inductive invariant holds in every behaviour.
LEMMA Invariance == PipelineSpec => []PipelineInv
BY InitInv, StepInv, PTL DEF PipelineSpec

-----------------------------------------------------------------------------
(* What follows from it *)

\* However often tasks are delivered and deliveries die, no two of them work on
\* the same run (the conditional claim of process_evaluation_job).
THEOREM ClaimIsExclusive == PipelineSpec => []OneWorkerPerRun
BY Invariance, PTL DEF PipelineInv

\* A delivery only ever writes the verdict of a run that is still dispatched.
THEOREM ClaimIsKept == PipelineSpec => []WorkerHoldsDispatchedRun
BY Invariance, PTL DEF PipelineInv

\* No version is past evaluation without a run of its own that passed every
\* gate (_persist_success is the only writer of evaluated).
THEOREM VerdictIsBacked == PipelineSpec => []EvaluatedHasPassingRun
BY Invariance, PTL DEF PipelineInv

\* The only way to stay in evaluating without a run in flight is the recovery
\* path of the worker, which keeps the external run id.
THEOREM StuckOnlyByRecovery == PipelineSpec => []EvaluatingIsExplained
BY Invariance, PTL DEF PipelineInv

\* A step from an invariant state keeps what a run recorded.
LEMMA PinnedStep ==
    ASSUME PipelineInv, [PipelineNext]_vars, NEW r \in Run
    PROVE  RecordKept(r)
<1>1. \/ UNCHANGED <<stage, run>>
      \/ \E q \in Run : CommitRequest(q)
      \/ \E w \in Worker, q \in Run : ClaimJob(w, q)
      \/ \E w \in Worker : MarkFailed(w) \/ PersistFails(w)
      \/ \E w \in Worker, clean \in BOOLEAN : PersistSuccess(w, clean)
  BY RunWriters
<1> USE DEF PipelineInv, PipelineTypeOK, RunReference, WorkerState,
            WorkerHoldsDispatchedRun, RecordKept, Settled
<1>2. CASE UNCHANGED <<stage, run>>
  BY <1>2
<1>3. ASSUME NEW q \in Run, CommitRequest(q) PROVE RecordKept(r)
  BY <1>3 DEF CommitRequest, AbsentRun, HandlerOwnsAbsentRun
<1>4. ASSUME NEW w \in Worker, NEW q \in Run, ClaimJob(w, q) PROVE RecordKept(r)
  BY <1>4 DEF ClaimJob, WorkerOn
<1>5. ASSUME NEW w \in Worker, MarkFailed(w) PROVE RecordKept(r)
  BY <1>5 DEF MarkFailed
<1>6. ASSUME NEW w \in Worker, NEW clean \in BOOLEAN, PersistSuccess(w, clean)
      PROVE  RecordKept(r)
  BY <1>6 DEF PersistSuccess, Completed
<1>7. ASSUME NEW w \in Worker, PersistFails(w) PROVE RecordKept(r)
  BY <1>7 DEF PersistFails, FailedWithResult
<1> QED
  BY <1>1, <1>2, <1>3, <1>4, <1>5, <1>6, <1>7

\* A run is judged by the policy and the grants pinned when it was requested,
\* and nothing that happens after it settled changes its record.
THEOREM RecordIsPinned == PipelineSpec => RunRecordIsPinned
<1>1. PipelineInv /\ [PipelineNext]_vars => [\A r \in Run : RecordKept(r)]_vars
  BY PinnedStep
<1> QED
  BY <1>1, Invariance, PTL DEF PipelineSpec, RunRecordIsPinned

-----------------------------------------------------------------------------
(* What the liveness of the pipeline rests on *)

\* The statuses a run may take next.
Later(s) ==
    CASE s = "absent" -> {"absent", "REQUESTED"}
      [] s = "REQUESTED" -> {"REQUESTED", "DISPATCHED"}
      [] s = "DISPATCHED" -> {"DISPATCHED", "COMPLETED", "FAILED"}
      [] OTHER -> {s}

\* Waiting to be claimed: requested, its task still delivered.
Queued(r) == r \in queue /\ run[r].status = "REQUESTED"

\* A run that waits is claimed or goes on waiting, and a run whose delivery died
\* is never touched again.
Progress(r) ==
    /\ run'[r].status \in Later(run[r].status)
    /\ Queued(r) => Queued(r)' \/ run'[r].status = "DISPATCHED"
    /\ Abandoned(r) => Abandoned(r)'

\* No task is queued for a run that is not recorded.
QueuedIsRecorded == \A r \in queue : handler[r].pc = "done" /\ run[r].status # "absent"

\* A handler past its commit has recorded its run.
CommittedIsRecorded ==
    \A r \in Run : handler[r].pc = "committed" => run[r].status # "absent"

\* Every step moves a run forward, whatever it does to the others.
LEMMA ProgressStep ==
    ASSUME PipelineInv, [PipelineNext]_vars, NEW q \in Run
    PROVE  Progress(q)
<1> USE DEF PipelineInv, PipelineTypeOK, RunReference, RunStatus, WorkerState,
            HandlerOwnsAbsentRun, WorkerHoldsDispatchedRun, OneWorkerPerRun,
            Progress, Later, Queued, Abandoned
<1>1. ASSUME NEW r \in Run, BeginRequest(r) \/ RefuseRequest(r) PROVE Progress(q)
  BY <1>1 DEF BeginRequest, RefuseRequest
<1>2. ASSUME NEW r \in Run, CommitRequest(r) PROVE Progress(q)
  BY <1>2 DEF CommitRequest, AbsentRun
<1>3. ASSUME NEW r \in Run, DispatchJob(r) \/ LoseDispatch(r) PROVE Progress(q)
  BY <1>3 DEF DispatchJob, LoseDispatch
<1>4. ASSUME NEW r \in Run, AcknowledgeTask(r) PROVE Progress(q)
  BY <1>4 DEF AcknowledgeTask
<1>5. ASSUME NEW w \in Worker, NEW r \in Run, ClaimJob(w, r) PROVE Progress(q)
  BY <1>5 DEF ClaimJob, WorkerOn
<1>6. ASSUME NEW w \in Worker, MarkFailed(w) PROVE Progress(q)
  BY <1>6, PipelineAssumption DEF MarkFailed, IdleWorker
<1>7. ASSUME NEW w \in Worker, AgentEvalReturns(w) PROVE Progress(q)
  BY <1>7 DEF AgentEvalReturns
<1>8. ASSUME NEW w \in Worker, NEW clean \in BOOLEAN, PersistSuccess(w, clean)
      PROVE  Progress(q)
  BY <1>8, PipelineAssumption DEF PersistSuccess, Completed, IdleWorker
<1>9. ASSUME NEW w \in Worker, PersistFails(w) PROVE Progress(q)
  BY <1>9, PipelineAssumption DEF PersistFails, FailedWithResult, IdleWorker
<1>10. ASSUME NEW w \in Worker, WorkerCrashes(w) PROVE Progress(q)
  BY <1>10, PipelineAssumption DEF WorkerCrashes, IdleWorker
<1>11. CASE UNCHANGED pipelineVars
  BY <1>11 DEF pipelineVars
<1>12. CASE UNCHANGED vars
  BY <1>12 DEF vars, pipelineVars
<1> QED
  BY <1>1, <1>2, <1>3, <1>4, <1>5, <1>6, <1>7, <1>8, <1>9, <1>10, <1>11, <1>12
     DEF PipelineNext, HandlerStep, WorkerStep

\* A run only moves forward, it waits in the queue until it is claimed, and the
\* claim of a delivery that died is never taken over (process_evaluation_job):
\* the steps the liveness of the pipeline is made of.
THEOREM RunsMoveForward == PipelineSpec => [][\A r \in Run : Progress(r)]_vars
<1>1. PipelineInv /\ [PipelineNext]_vars => [\A r \in Run : Progress(r)]_vars
  BY ProgressStep
<1> QED
  BY <1>1, Invariance, PTL DEF PipelineSpec

\* The two outcomes of a queued run are final and exclude one another: a settled
\* run stays settled, an abandoned one is never settled nor claimed again.
THEOREM OutcomeIsFinal ==
    \A r \in Run :
        PipelineSpec => /\ [](Settled(r) => []Settled(r))
                        /\ [](Abandoned(r) => [](Abandoned(r) /\ ~Settled(r)))
<1> TAKE r \in Run
<1>1. PipelineInv /\ [PipelineNext]_vars /\ Settled(r) => Settled(r)'
  BY PinnedStep DEF RecordKept, Settled
<1>2. PipelineInv /\ [PipelineNext]_vars /\ Abandoned(r) => Abandoned(r)'
  BY ProgressStep DEF Progress
<1>3. Abandoned(r) => ~Settled(r)
  BY DEF Abandoned, Settled
<1> QED
  BY <1>1, <1>2, <1>3, Invariance, PTL DEF PipelineSpec

\* What stands in the queue is recorded, and its handler is through.
LEMMA QueueStep ==
    ASSUME PipelineInv, QueuedIsRecorded, CommittedIsRecorded, [PipelineNext]_vars
    PROVE  QueuedIsRecorded' /\ CommittedIsRecorded'
<1> DEFINE Recorded == QueuedIsRecorded' /\ CommittedIsRecorded'
<1> USE DEF PipelineInv, PipelineTypeOK, RunReference, WorkerState, Handler,
            QueuedIsRecorded, CommittedIsRecorded, HandlerAt
<1>1. ASSUME NEW r \in Run, BeginRequest(r) \/ RefuseRequest(r) PROVE Recorded
  BY <1>1 DEF BeginRequest, RefuseRequest
<1>2. ASSUME NEW r \in Run, CommitRequest(r) PROVE Recorded
  BY <1>2 DEF CommitRequest, AbsentRun
<1>3. ASSUME NEW r \in Run, DispatchJob(r) \/ LoseDispatch(r) PROVE Recorded
  <2>1. /\ queue' \subseteq queue \cup {r} /\ run' = run
        /\ handler'[r].pc = "done" /\ run[r].status # "absent"
        /\ \A q \in Run \ {r} : handler'[q] = handler[q]
    BY <1>3 DEF DispatchJob, LoseDispatch
  <2> QED
    BY <2>1
<1>4. ASSUME NEW r \in Run, AcknowledgeTask(r) PROVE Recorded
  BY <1>4 DEF AcknowledgeTask
<1>5. ASSUME NEW w \in Worker, NEW r \in Run, ClaimJob(w, r) PROVE Recorded
  BY <1>5 DEF ClaimJob, WorkerOn
<1>6. ASSUME NEW w \in Worker, WorkerStep(w) \/ WorkerCrashes(w) PROVE Recorded
  <2>1. UNCHANGED <<handler, queue>>
    BY <1>6 DEF WorkerStep, WorkerCrashes, MarkFailed, AgentEvalReturns,
                PersistSuccess, PersistFails
  <2>2. \A q \in Run : run[q].status # "absent" => run'[q].status # "absent"
    BY ProgressStep DEF Progress, Later, RunStatus
  <2> QED
    BY <2>1, <2>2
<1>7. CASE UNCHANGED pipelineVars
  BY <1>7 DEF pipelineVars
<1>8. CASE UNCHANGED vars
  BY <1>8 DEF vars, pipelineVars
<1> QED
  BY <1>1, <1>2, <1>3, <1>4, <1>5, <1>6, <1>7, <1>8 DEF PipelineNext, HandlerStep

\* A task is created after the commit of its run (services/evaluations.py), so no
\* delivery ever looks for a run that is not there.
THEOREM QueueFollowsCommit == PipelineSpec => []QueuedIsRecorded
<1>1. PipelineInit => QueuedIsRecorded /\ CommittedIsRecorded
  BY DEF PipelineInit, QueuedIsRecorded, CommittedIsRecorded, HandlerAt
<1>2. PipelineInv /\ QueuedIsRecorded /\ CommittedIsRecorded /\ [PipelineNext]_vars
         => QueuedIsRecorded' /\ CommittedIsRecorded'
  BY QueueStep
<1> QED
  BY <1>1, <1>2, Invariance, PTL DEF PipelineSpec

-----------------------------------------------------------------------------
(* Runs that nobody will finish *)

\* The process died between the commit and the task, or with the claim.
Stranded(r) ==
    \/ run[r].status = "REQUESTED" /\ handler[r].pc = "done" /\ r \notin queue
    \/ Abandoned(r)

\* Somebody goes on with the run: its handler, its task or a delivery.
Attended(r) ==
    \/ handler[r].pc = "committed"
    \/ Queued(r)
    \/ \E w \in Worker : worker[w].run = r

\* A run in flight is attended to or stranded.
LEMMA InFlightIsAccountedFor ==
    ASSUME PipelineInv, NEW r \in Run, InFlight(r)
    PROVE  Attended(r) \/ Stranded(r)
<1>1. handler[r].pc \in {"committed", "done"}
  BY DEF PipelineInv, PipelineTypeOK, HandlerOwnsAbsentRun, InFlight, Handler
<1> QED
  BY <1>1 DEF Attended, Stranded, Queued, Abandoned, InFlight

\* No step comes back to a stranded run: no request with another id, no
\* redelivery, no other worker.
LEMMA StrandedStep ==
    ASSUME PipelineInv, [PipelineNext]_vars, NEW q \in Run, Stranded(q)
    PROVE  Stranded(q)'
<1>1. CASE Abandoned(q)
  BY <1>1, ProgressStep DEF Progress, Stranded, Abandoned
<1>2. ASSUME run[q].status = "REQUESTED", handler[q].pc = "done", q \notin queue
      PROVE  /\ run'[q].status = "REQUESTED"
             /\ handler'[q].pc = "done"
             /\ q \notin queue'
  <2> USE DEF PipelineInv, PipelineTypeOK, RunReference, WorkerState, Handler,
              WorkerHoldsDispatchedRun
  <2>1. ASSUME NEW r \in Run, HandlerStep(r)
        PROVE  run'[q] = run[q] /\ handler'[q] = handler[q] /\ q \notin queue'
    <3>1. CASE BeginRequest(r) \/ RefuseRequest(r)
      BY <1>2, <3>1 DEF BeginRequest, RefuseRequest
    <3>2. CASE CommitRequest(r)
      BY <1>2, <3>2 DEF CommitRequest
    <3>3. CASE DispatchJob(r) \/ LoseDispatch(r)
      BY <1>2, <3>3 DEF DispatchJob, LoseDispatch
    <3> QED
      BY <2>1, <3>1, <3>2, <3>3 DEF HandlerStep
  <2>2. ASSUME NEW r \in Run, AcknowledgeTask(r)
        PROVE  UNCHANGED <<run, handler>> /\ q \notin queue'
    BY <1>2, <2>2 DEF AcknowledgeTask
  <2>3. ASSUME NEW w \in Worker, NEW r \in Run, ClaimJob(w, r)
        PROVE  run'[q] = run[q] /\ UNCHANGED <<handler, queue>>
    BY <1>2, <2>3 DEF ClaimJob, WorkerOn
  <2>4. ASSUME NEW w \in Worker, WorkerStep(w) \/ WorkerCrashes(w)
        PROVE  run'[q] = run[q] /\ UNCHANGED <<handler, queue>>
    BY <1>2, <2>4 DEF WorkerStep, WorkerCrashes, MarkFailed, AgentEvalReturns,
                      PersistSuccess, PersistFails
  <2>5. CASE UNCHANGED vars \/ UNCHANGED pipelineVars
    BY <1>2, <2>5 DEF vars, pipelineVars
  <2> QED
    BY <1>2, <2>1, <2>2, <2>3, <2>4, <2>5 DEF PipelineNext
<1> QED
  BY <1>1, <1>2 DEF Stranded

\* A run in flight always has somebody who goes on with it, or it is stranded
\* and stays in flight for good: there is no sweep over the references, neither
\* for a task that was never created nor for a claim whose delivery died.
THEOREM StrandedForGood ==
    \A r \in Run :
        PipelineSpec => /\ [](InFlight(r) => Attended(r) \/ Stranded(r))
                        /\ [](Stranded(r) => [](Stranded(r) /\ InFlight(r)))
<1> TAKE r \in Run
<1>1. PipelineInv => (InFlight(r) => Attended(r) \/ Stranded(r))
  BY InFlightIsAccountedFor
<1>2. PipelineInv /\ [PipelineNext]_vars /\ Stranded(r) => Stranded(r)'
  BY StrandedStep
<1>3. Stranded(r) => InFlight(r)
  BY DEF Stranded, Abandoned, InFlight
<1> QED
  BY <1>1, <1>2, <1>3, Invariance, PTL DEF PipelineSpec
=============================================================================
