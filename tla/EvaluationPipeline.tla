-------------------------- MODULE EvaluationPipeline --------------------------
(***************************************************************************)
(* How a version of an agent is evaluated: request_evaluation              *)
(* (services/evaluations.py), the dispatch of the job through Cloud Tasks  *)
(* (services/job_dispatch.py, api/tasks.py) and the worker that calls      *)
(* agent-eval and persists its verdict (services/evaluation_worker.py,     *)
(* services/gates.py).                                                     *)
(*                                                                         *)
(* A handler is cut into steps where it awaits agent-eval or commits:      *)
(* what it read before is kept in its local record and may be stale when   *)
(* it writes.  No step of this pipeline takes the promotion lock, and      *)
(* every UPDATE of a lifecycle row is keyed on the version alone, so a     *)
(* write of the stage is blind.                                            *)
(*                                                                         *)
(* The evaluation requests are the elements of Run, numbered in the order  *)
(* their transactions start (the order of requested_at), and RunVersion    *)
(* says which version each one is for.                                     *)
(***************************************************************************)
EXTENDS Evidence

CONSTANTS
    Run,          \* evaluation requests, an initial segment of the naturals
    RunVersion,   \* the version each request evaluates
    SeededRun,    \* requests that completed, passing, before the model starts
    Worker,       \* concurrent deliveries of evaluation tasks
    NoRun,        \* a worker without a job
    NoDataset     \* no fingerprint recorded

ASSUME PipelineAssumption ==
    /\ Run \subseteq Nat
    /\ RunVersion \in [Run -> Version]
    /\ SeededRun \subseteq Run
    /\ \A r \in SeededRun, q \in Run :
          q < r /\ RunVersion[q] = RunVersion[r] => q \in SeededRun
    /\ NoRun \notin Run
    /\ NoDataset \notin DatasetVersion

VARIABLES
    stage,    \* stage[v]: agent_version_lifecycle.stage
    run,      \* run[r]: the evaluation_run_references row of a request
    handler,  \* handler[r]: the API handler serving the request
    queue,    \* tasks held by Cloud Tasks, delivered until acknowledged
    worker    \* worker[w]: a delivery being processed

pipelineVars == <<stage, run, handler, queue, worker>>

vars == <<evidenceVars, pipelineVars>>

-----------------------------------------------------------------------------
Stage == {"DRAFT", "EVALUATING", "EVALUATED", "RECOMMENDED", "DEPRECATED"}

RequestableStages == {"DRAFT", "EVALUATING"}

\* "absent" stands for a row that is not inserted.
RunStatus == {"absent", "REQUESTED", "DISPATCHED", "COMPLETED", "FAILED"}

\* gates: whether every gate row of the run passed; external: external_run_id
\* is recorded.
RunReference ==
    [status   : RunStatus,
     policy   : Policy,
     grants   : SUBSET Grant,
     dataset  : DatasetVersion \cup {NoDataset},
     gates    : {"none", "passed", "failed"},
     external : BOOLEAN]

AbsentRun ==
    [status |-> "absent", policy |-> 1, grants |-> {}, dataset |-> NoDataset,
     gates |-> "none", external |-> FALSE]

Handler ==
    [pc : {"idle", "reading", "committed", "done"}, saw : Stage, policy : Policy]

HandlerAt(pc) == [pc |-> pc, saw |-> "DRAFT", policy |-> 1]

\* grants, dataset: the completion snapshot and the case set it read.
WorkerState ==
    [pc : {"idle", "claimed", "returned"}, run : Run \cup {NoRun},
     grants : SUBSET Grant, dataset : DatasetVersion \cup {NoDataset}]

IdleWorker ==
    [pc |-> "idle", run |-> NoRun, grants |-> {}, dataset |-> NoDataset]

WorkerOn(r) ==
    [pc |-> "claimed", run |-> r, grants |-> {}, dataset |-> NoDataset]

PipelineTypeOK ==
    /\ EvidenceTypeOK
    /\ stage \in [Version -> Stage]
    /\ run \in [Run -> RunReference]
    /\ handler \in [Run -> Handler]
    /\ queue \subseteq Run
    /\ worker \in [Worker -> WorkerState]

-----------------------------------------------------------------------------
InFlight(r) == run[r].status \in {"REQUESTED", "DISPATCHED"}

Settled(r) == run[r].status \in {"COMPLETED", "FAILED"}

RunsOf(v) == {r \in Run : RunVersion[r] = v}

PassingRuns(v) == {r \in RunsOf(v) : run[r].gates = "passed"}

SeededVersions == {RunVersion[r] : r \in SeededRun}

PipelineInit ==
    /\ EvidenceInit
    /\ stage = [v \in Version |->
                  IF v \in SeededVersions THEN "EVALUATED" ELSE "DRAFT"]
    /\ run = [r \in Run |->
                IF r \in SeededRun
                THEN [AbsentRun EXCEPT !.status = "COMPLETED",
                                       !.dataset = dataset,
                                       !.gates = "passed",
                                       !.external = TRUE]
                ELSE AbsentRun]
    /\ handler = [r \in Run |->
                    HandlerAt(IF r \in SeededRun THEN "done" ELSE "idle")]
    /\ queue = {}
    /\ worker = [w \in Worker |-> IdleWorker]

-----------------------------------------------------------------------------
(* request_evaluation *)

\* Up to the first call of agent-eval: the stage is read and guarded, the
\* current policy is read and pinned.
BeginRequest(r) ==
    LET v == RunVersion[r] IN
    /\ handler[r].pc = "idle"
    /\ \A q \in RunsOf(v) : q < r => handler[q].pc # "idle"
    /\ stage[v] \in RequestableStages
    /\ handler' = [handler EXCEPT
                     ![r] = [pc |-> "reading", saw |-> stage[v],
                             policy |-> policy]]
    /\ UNCHANGED <<evidenceVars, stage, run, queue, worker>>

\* agent-eval is down, lacks the dataset or runs another evaluator version, or
\* the handler dies: nothing has been written.
RefuseRequest(r) ==
    /\ handler[r].pc = "reading"
    /\ handler' = [handler EXCEPT ![r] = HandlerAt("done")]
    /\ UNCHANGED <<evidenceVars, stage, run, queue, worker>>

\* The catalog matched.  The reference and the stage are committed together;
\* whether the stage is written depends on the stage read before the calls.
CommitRequest(r) ==
    LET v == RunVersion[r] IN
    /\ handler[r].pc = "reading"
    /\ evaluator = RequiredEvaluator[handler[r].policy]
    /\ run' = [run EXCEPT
                 ![r] = [AbsentRun EXCEPT !.status = "REQUESTED",
                                          !.policy = handler[r].policy,
                                          !.grants = Snapshot(v)]]
    /\ stage' = IF handler[r].saw # "EVALUATING"
                THEN [stage EXCEPT ![v] = "EVALUATING"]
                ELSE stage
    /\ handler' = [handler EXCEPT ![r] = HandlerAt("committed")]
    /\ UNCHANGED <<evidenceVars, queue, worker>>

\* The task is created after the commit.
DispatchJob(r) ==
    /\ handler[r].pc = "committed"
    /\ handler' = [handler EXCEPT ![r] = HandlerAt("done")]
    /\ queue' = queue \cup {r}
    /\ UNCHANGED <<evidenceVars, stage, run, worker>>

\* The process dies, or Cloud Tasks refuses the task, between the two.
LoseDispatch(r) ==
    /\ handler[r].pc = "committed"
    /\ handler' = [handler EXCEPT ![r] = HandlerAt("done")]
    /\ UNCHANGED <<evidenceVars, stage, run, queue, worker>>

-----------------------------------------------------------------------------
(* process_evaluation_job *)

\* Mutant: the claim is a plain UPDATE, so every delivery gets the job.
ClaimJobUnconditionally(w, r) ==
    /\ r \in queue
    /\ worker[w].pc = "idle"
    /\ run' = [run EXCEPT ![r].status = "DISPATCHED"]
    /\ worker' = [worker EXCEPT ![w] = WorkerOn(r)]
    /\ UNCHANGED <<evidenceVars, stage, handler, queue>>

\* The conditional UPDATE that claims the reference, committed on its own.
ClaimJob(w, r) ==
    /\ r \in queue
    /\ worker[w].pc = "idle"
    /\ run[r].status = "REQUESTED"
    /\ run' = [run EXCEPT ![r].status = "DISPATCHED"]
    /\ worker' = [worker EXCEPT ![w] = WorkerOn(r)]
    /\ UNCHANGED <<evidenceVars, stage, handler, queue>>

\* Mutant: the task is acknowledged on receipt, before the job is claimed.
AcknowledgeOnReceipt(r) ==
    /\ r \in queue
    /\ queue' = queue \ {r}
    /\ UNCHANGED <<evidenceVars, stage, run, handler, worker>>

\* A delivery answered with 204: the task is finished with, or a duplicate.
AcknowledgeTask(r) ==
    /\ r \in queue
    /\ run[r].status # "REQUESTED"
    /\ queue' = queue \ {r}
    /\ UNCHANGED <<evidenceVars, stage, run, handler, worker>>

\* Mutant: the run fails but the version is not sent back to draft.
MarkFailedLeavingStage(w) ==
    LET r == worker[w].run IN
    /\ worker[w].pc = "claimed"
    /\ run' = [run EXCEPT ![r].status = "FAILED"]
    /\ worker' = [worker EXCEPT ![w] = IdleWorker]
    /\ UNCHANGED <<evidenceVars, stage, handler, queue>>

\* Mutant: the status of the run is written where the stage goes.
MarkFailedInStage(w) ==
    LET r == worker[w].run IN
    /\ worker[w].pc = "claimed"
    /\ stage' = [stage EXCEPT ![RunVersion[r]] = "FAILED"]
    /\ worker' = [worker EXCEPT ![w] = IdleWorker]
    /\ UNCHANGED <<evidenceVars, run, handler, queue>>

\* trigger_run times out, is refused or answers garbage (_mark_failed).
MarkFailed(w) ==
    LET r == worker[w].run IN
    /\ worker[w].pc = "claimed"
    /\ run' = [run EXCEPT ![r].status = "FAILED"]
    /\ stage' = [stage EXCEPT ![RunVersion[r]] = "DRAFT"]
    /\ worker' = [worker EXCEPT ![w] = IdleWorker]
    /\ UNCHANGED <<evidenceVars, handler, queue>>

\* trigger_run answers; _persist_success takes the completion snapshot, reads
\* the dataset and goes on calling agent-eval.
AgentEvalReturns(w) ==
    /\ worker[w].pc = "claimed"
    /\ worker' = [worker EXCEPT
                    ![w] = [pc |-> "returned", run |-> worker[w].run,
                            grants |-> Snapshot(RunVersion[worker[w].run]),
                            dataset |-> dataset]]
    /\ UNCHANGED <<evidenceVars, stage, run, handler, queue>>

\* What _persist_success makes of a reference, gate rows included; the case
\* set is the one read when agent-eval had answered.
Completed(ref, cases, passed) ==
    [status |-> "COMPLETED", policy |-> ref.policy, grants |-> ref.grants,
     dataset |-> cases, gates |-> IF passed THEN "passed" ELSE "failed",
     external |-> TRUE]

\* What the recovery session makes of it.
FailedWithResult(ref) ==
    [status |-> "FAILED", policy |-> ref.policy, grants |-> ref.grants,
     dataset |-> ref.dataset, gates |-> ref.gates, external |-> TRUE]

\* Mutant: the stage ignores the capability gate, whose row is still written.
PersistSuccessUngated(w, clean) ==
    LET r == worker[w].run
        passed == clean /\ worker[w].grants = run[r].grants
    IN
    /\ worker[w].pc = "returned"
    /\ run' = [run EXCEPT ![r] = Completed(run[r], worker[w].dataset, passed)]
    /\ stage' = [stage EXCEPT ![RunVersion[r]] =
                   IF clean THEN "EVALUATED" ELSE "DRAFT"]
    /\ worker' = [worker EXCEPT ![w] = IdleWorker]
    /\ UNCHANGED <<evidenceVars, handler, queue>>

\* Mutant: the run is judged by, and filed under, the policy current now.
PersistSuccessRepinned(w, clean) ==
    LET r == worker[w].run
        passed == clean /\ worker[w].grants = run[r].grants
    IN
    /\ worker[w].pc = "returned"
    /\ run' = [run EXCEPT
                 ![r] = [Completed(run[r], worker[w].dataset, passed)
                           EXCEPT !.policy = policy]]
    /\ stage' = [stage EXCEPT ![RunVersion[r]] =
                   IF passed THEN "EVALUATED" ELSE "DRAFT"]
    /\ worker' = [worker EXCEPT ![w] = IdleWorker]
    /\ UNCHANGED <<evidenceVars, handler, queue>>

\* The rest of _persist_success.  "clean" stands for the gates that only look
\* at agent-eval's answers; the capability gate compares the two snapshots.
PersistSuccess(w, clean) ==
    LET r == worker[w].run
        passed == clean /\ worker[w].grants = run[r].grants
    IN
    /\ worker[w].pc = "returned"
    /\ run' = [run EXCEPT ![r] = Completed(run[r], worker[w].dataset, passed)]
    /\ stage' = [stage EXCEPT ![RunVersion[r]] =
                   IF passed THEN "EVALUATED" ELSE "DRAFT"]
    /\ worker' = [worker EXCEPT ![w] = IdleWorker]
    /\ UNCHANGED <<evidenceVars, handler, queue>>

\* _persist_success raises: its transaction is rolled back and a second
\* session fails the reference, keeping the external id, leaving the stage.
PersistFails(w) ==
    LET r == worker[w].run IN
    /\ worker[w].pc = "returned"
    /\ run' = [run EXCEPT ![r] = FailedWithResult(run[r])]
    /\ worker' = [worker EXCEPT ![w] = IdleWorker]
    /\ UNCHANGED <<evidenceVars, stage, handler, queue>>

\* The instance dies, or an exception nobody catches ends the delivery.
WorkerCrashes(w) ==
    /\ worker[w].pc # "idle"
    /\ worker' = [worker EXCEPT ![w] = IdleWorker]
    /\ UNCHANGED <<evidenceVars, stage, run, handler, queue>>

-----------------------------------------------------------------------------
HandlerStep(r) ==
    \/ BeginRequest(r)
    \/ RefuseRequest(r)
    \/ CommitRequest(r)
    \/ DispatchJob(r)
    \/ LoseDispatch(r)

WorkerStep(w) ==
    \/ MarkFailed(w)
    \/ AgentEvalReturns(w)
    \/ \E clean \in BOOLEAN : PersistSuccess(w, clean)
    \/ PersistFails(w)

PipelineNext ==
    \/ \E r \in Run : HandlerStep(r) \/ AcknowledgeTask(r)
    \/ \E w \in Worker, r \in Run : ClaimJob(w, r)
    \/ \E w \in Worker : WorkerStep(w) \/ WorkerCrashes(w)
    \/ EvidenceNext /\ UNCHANGED pipelineVars

PipelineSpec == PipelineInit /\ [][PipelineNext]_vars

\* Cloud Tasks redelivers a task until it is acknowledged, and a delivery that
\* does not crash ends: trigger_run has a client timeout and every other call
\* of agent-eval the client's default one.  Nothing forces a user to ask, the
\* API process to reach the dispatch, or evidence to drift.
PipelineFairness ==
    /\ \A r \in Run : WF_vars(\E w \in Worker : ClaimJob(w, r))
    /\ \A w \in Worker : WF_vars(WorkerStep(w))

FairPipelineSpec == PipelineSpec /\ PipelineFairness

-----------------------------------------------------------------------------
(* Properties *)

\* The conditional claim makes a job exclusive: however often a task is
\* delivered, no two deliveries work on one run (process_evaluation_job).
OneWorkerPerRun ==
    \A w1, w2 \in Worker :
        worker[w1].run = worker[w2].run /\ worker[w1].run # NoRun => w1 = w2

\* A worker holds a run only while that run is dispatched: a reference is
\* never settled behind the back of the delivery that claimed it.
WorkerHoldsDispatchedRun ==
    \A w \in Worker :
        worker[w].pc # "idle" => /\ worker[w].run \in Run
                                /\ run[worker[w].run].status = "DISPATCHED"

\* A version is past evaluation only on the strength of a run of its own whose
\* gates all passed, whatever runs settled before or after that one.
EvaluatedHasPassingRun ==
    \A v \in Version :
        stage[v] \in {"EVALUATED", "RECOMMENDED", "DEPRECATED"}
            => PassingRuns(v) # {}

\* A version shown as evaluating has a run in flight, or lost its verdict to a
\* persistence failure that left the external run id behind to reconcile it.
EvaluatingIsExplained ==
    \A v \in Version :
        stage[v] = "EVALUATING"
            => \E r \in RunsOf(v) :
                  InFlight(r) \/ (run[r].status = "FAILED" /\ run[r].external)

RecordKept(r) ==
    /\ run[r].status # "absent" => /\ run'[r].policy = run[r].policy
                                   /\ run'[r].grants = run[r].grants
    /\ Settled(r) => run'[r] = run[r]

\* The policy and the grants pinned when a run is requested are the ones it is
\* judged by, and a settled run is never reprocessed: a duplicate delivery or
\* a late worker changes nothing about it.
RunRecordIsPinned == [][\A r \in Run : RecordKept(r)]_vars

\* The delivery that claimed the run died: the claim bars every redelivery.
Abandoned(r) ==
    run[r].status = "DISPATCHED" /\ \A w \in Worker : worker[w].run # r

\* A run whose task reached Cloud Tasks settles, unless the delivery that
\* claimed it dies.
QueuedRunSettles ==
    \A r \in Run : r \in queue ~> Settled(r) \/ Abandoned(r)
=============================================================================
