---------------------- MODULE EvaluationAdmission_proofs ----------------------
(***************************************************************************)
(* The idempotency key and the guardrails of the demo, for any number of   *)
(* requests, keys, users and deliveries.                                   *)
(*                                                                         *)
(* Every step of the admission but AnswerExisting is a step of the         *)
(* pipeline, so that the invariant of the pipeline carries over; beside it *)
(* the invariant says what the answer given to a caller is.                *)
(***************************************************************************)
EXTENDS EvaluationAdmission, EvaluationPipeline_proofs, FiniteSetTheorems

\* A caller is told of an existing reference with the key it sent.
AnswerCarriesKey ==
    \A r \in Run :
        answer[r] # NoRun => /\ answer[r] \in Run
                             /\ run[answer[r]].status # "absent"
                             /\ RequestKey[answer[r]] = RequestKey[r]

AdmissionInv ==
    /\ PipelineInv
    /\ AdmissionTypeOK
    /\ OneRunPerKey
    /\ AnswerCarriesKey
    /\ DemoLoadIsBounded

-----------------------------------------------------------------------------
(* What the steps do to rows and handlers *)

\* Past the admission no reference appears, and none comes back in flight.
LEMMA UnadmittedRows ==
    ASSUME PipelineInv, Unadmitted, NEW q \in Run
    PROVE  /\ run'[q].status # "absent" <=> run[q].status # "absent"
           /\ InFlight(q)' => InFlight(q)
           /\ handler'[q].pc = "reading" => handler[q].pc = "reading"
<1> DEFINE Kept == /\ run'[q].status # "absent" <=> run[q].status # "absent"
                   /\ InFlight(q)' => InFlight(q)
                   /\ handler'[q].pc = "reading" => handler[q].pc = "reading"
<1> USE DEF PipelineInv, PipelineTypeOK, RunReference, WorkerState, Handler,
            WorkerHoldsDispatchedRun, InFlight
<1>1. ASSUME NEW r \in Run, RefuseRequest(r) \/ DispatchJob(r) \/ LoseDispatch(r)
      PROVE  Kept
    BY <1>1 DEF RefuseRequest, DispatchJob, LoseDispatch, HandlerAt
<1>2. ASSUME NEW r \in Run, AcknowledgeTask(r) PROVE Kept
    BY <1>2 DEF AcknowledgeTask
<1>3. ASSUME NEW w \in Worker, NEW r \in Run, ClaimJob(w, r) PROVE Kept
    BY <1>3 DEF ClaimJob, WorkerOn
<1>4. ASSUME NEW w \in Worker, MarkFailed(w) PROVE Kept
    BY <1>4 DEF MarkFailed
<1>5. ASSUME NEW w \in Worker, AgentEvalReturns(w) PROVE Kept
    BY <1>5 DEF AgentEvalReturns
<1>6. ASSUME NEW w \in Worker, NEW clean \in BOOLEAN, PersistSuccess(w, clean)
      PROVE  Kept
    BY <1>6 DEF PersistSuccess, Completed
<1>7. ASSUME NEW w \in Worker, PersistFails(w) PROVE Kept
    BY <1>7 DEF PersistFails, FailedWithResult
<1>8. ASSUME NEW w \in Worker, WorkerCrashes(w) PROVE Kept
    BY <1>8 DEF WorkerCrashes
<1>9. CASE UNCHANGED pipelineVars
    BY <1>9 DEF pipelineVars
<1> HIDE DEF PipelineInv
<1> QED
    BY <1>1, <1>2, <1>3, <1>4, <1>5, <1>6, <1>7, <1>8, <1>9
       DEF Unadmitted, WorkerStep

\* Every step is one of the pipeline, or answers a retry.
LEMMA PipelineOrAnswer ==
    ASSUME [AdmissionNext]_allVars
    PROVE  [PipelineNext]_vars \/ \E r \in Run : AnswerExisting(r)
<1>1. ASSUME NEW r \in Run, Admit(r) PROVE PipelineNext
    BY <1>1 DEF Admit, PipelineNext, HandlerStep
<1>2. ASSUME NEW r \in Run, CommitAdmitted(r) PROVE PipelineNext
    BY <1>2 DEF CommitAdmitted, PipelineNext, HandlerStep
<1>3. ASSUME NEW r \in Run, CooldownPasses(r) PROVE UNCHANGED vars
    BY <1>3 DEF CooldownPasses
<1>4. CASE Unadmitted
    BY <1>4 DEF Unadmitted, PipelineNext, HandlerStep
<1>5. CASE UNCHANGED allVars
    BY <1>5 DEF allVars
<1> QED
    BY <1>1, <1>2, <1>3, <1>4, <1>5 DEF AdmissionNext

\* Answering a retry changes nothing but its handler, which becomes done.
LEMMA AnswerKeepsPipeline ==
    ASSUME PipelineInv, NEW r \in Run, AnswerExisting(r)
    PROVE  PipelineInv'
<1> USE DEF PipelineInv, AnswerExisting, pipelineVars, evidenceVars
<1>1. PipelineTypeOK'
    BY HandlerAtType DEF PipelineTypeOK, EvidenceTypeOK
<1>2. HandlerOwnsAbsentRun'
    BY DEF HandlerOwnsAbsentRun, HandlerAt, PipelineTypeOK
<1>3. GatesOnlyWhenCompleted' /\ IdleWorkerHasNoRun' /\ WorkerHoldsDispatchedRun'
    BY DEF GatesOnlyWhenCompleted, IdleWorkerHasNoRun, WorkerHoldsDispatchedRun
<1>4. OneWorkerPerRun' /\ EvaluatedHasPassingRun' /\ EvaluatingIsExplained'
    BY DEF OneWorkerPerRun, EvaluatedHasPassingRun, EvaluatingIsExplained,
           PassingRuns, RunsOf, InFlight
<1> QED
    BY <1>1, <1>2, <1>3, <1>4

\* The pipeline's invariant is kept by every step of the admission.
LEMMA PipelineStep ==
    ASSUME PipelineInv, [AdmissionNext]_allVars PROVE PipelineInv'
BY PipelineOrAnswer, AnswerKeepsPipeline, StepInv

-----------------------------------------------------------------------------
(* The load of the demo *)

\* A set of requests is finite, and no larger than one that contains it.
LEMMA RequestsAreFinite ==
    ASSUME NEW S \in SUBSET Run, NEW T \in SUBSET S
    PROVE  /\ IsFiniteSet(S)
           /\ Cardinality(S) \in Nat
           /\ Cardinality(T) \in Nat
           /\ Cardinality(T) <= Cardinality(S)
BY AdmissionAssumption, FS_Subset, FS_CardinalityType

\* A load that does not grow stays within the bound.
LEMMA LoadShrinks ==
    ASSUME DemoLoadIsBounded, DemoLoad' \subseteq DemoLoad
    PROVE  DemoLoadIsBounded'
<1>1. DemoLoad \in SUBSET Run /\ DemoLoad' \in SUBSET DemoLoad
    BY DEF DemoLoad
<1>2. /\ Cardinality(DemoLoad') <= Cardinality(DemoLoad)
      /\ Cardinality(DemoLoad') \in Nat /\ Cardinality(DemoLoad) \in Nat
    BY <1>1, RequestsAreFinite
<1> QED
    BY <1>2, AdmissionAssumption DEF DemoLoadIsBounded

\* An admitted request finds less than the cap in flight and less than the
\* possible number of handlers between check and commit.
LEMMA AdmitLoad ==
    ASSUME PipelineInv, DemoLoadIsBounded, NEW r \in Run, Admit(r)
    PROVE  DemoLoadIsBounded'
<1>1. /\ run' = run
      /\ handler' = [handler EXCEPT
                       ![r] = [pc |-> "reading", saw |-> stage[RunVersion[r]],
                               policy |-> policy]]
      /\ handler \in [Run -> Handler]
    BY DEF Admit, BeginRequest, PipelineInv, PipelineTypeOK
<1>2. CASE ~DemoRequest(r)
    <2>1. DemoLoad' \subseteq DemoLoad
        BY <1>1, <1>2 DEF DemoLoad, DemoRequest, InFlight, Reading
    <2> QED
        BY <2>1, LoadShrinks
<1>3. CASE DemoRequest(r)
    <2>1. Cardinality(InFlightRuns) < Cap /\ Cardinality(Reading) < MaxHandlers
        BY <1>3 DEF Admit, Guardrails
    <2>2. DemoLoad' \subseteq InFlightRuns \cup (Reading \cup {r})
        BY <1>1 DEF DemoLoad, InFlightRuns, InFlight, Reading
    <2>3. /\ InFlightRuns \in SUBSET Run /\ Reading \in SUBSET Run
          /\ Reading \cup {r} \in SUBSET Run
          /\ InFlightRuns \cup (Reading \cup {r}) \in SUBSET Run
        BY DEF InFlightRuns, Reading
    <2>4. /\ IsFiniteSet(InFlightRuns) /\ IsFiniteSet(Reading)
          /\ IsFiniteSet(Reading \cup {r})
          /\ Cardinality(InFlightRuns) \in Nat /\ Cardinality(Reading) \in Nat
          /\ Cardinality(Reading \cup {r}) \in Nat
        BY <2>3, RequestsAreFinite
    <2>5. Cardinality(Reading \cup {r}) <= Cardinality(Reading) + 1
        BY <2>4, FS_AddElement
    <2>6. Cardinality(InFlightRuns \cup (Reading \cup {r}))
             = Cardinality(InFlightRuns) + Cardinality(Reading \cup {r})
                 - Cardinality(InFlightRuns \cap (Reading \cup {r}))
        BY <2>4, FS_Union
    <2>7. Cardinality(InFlightRuns \cap (Reading \cup {r})) \in Nat
        BY <2>3, RequestsAreFinite
    <2>8. /\ Cardinality(DemoLoad') <= Cardinality(InFlightRuns \cup (Reading \cup {r}))
          /\ Cardinality(DemoLoad') \in Nat
          /\ Cardinality(InFlightRuns \cup (Reading \cup {r})) \in Nat
        BY <2>2, <2>3, RequestsAreFinite
    <2> QED
        BY <2>1, <2>4, <2>5, <2>6, <2>7, <2>8, AdmissionAssumption
           DEF DemoLoadIsBounded
<1> QED
    BY <1>2, <1>3

-----------------------------------------------------------------------------
(* The inductive invariant *)

\* The invariant holds at the start: seeded references carry no key.
LEMMA AdmissionInitInv == AdmissionInit => AdmissionInv
<1> SUFFICES ASSUME AdmissionInit PROVE AdmissionInv
    OBVIOUS
<1>1. PipelineInv
    BY InitInv DEF AdmissionInit
<1>2. AdmissionTypeOK
    BY InitType DEF AdmissionInit, AdmissionTypeOK
<1>3. \A r \in Run :
          /\ run[r].status # "absent" => RequestKey[r] = NoKey
          /\ ~InFlight(r)
          /\ handler[r].pc # "reading"
    BY AdmissionAssumption
       DEF AdmissionInit, PipelineInit, AbsentRun, HandlerAt, InFlight
<1>4. OneRunPerKey /\ AnswerCarriesKey
    BY <1>3 DEF AdmissionInit, OneRunPerKey, AnswerCarriesKey
<1>5. DemoLoad = {}
    BY <1>3 DEF DemoLoad, Reading
<1>6. DemoLoadIsBounded
    BY <1>5, FS_EmptySet, AdmissionAssumption DEF DemoLoadIsBounded
<1> QED
    BY <1>1, <1>2, <1>4, <1>6 DEF AdmissionInv

\* Every step keeps the conjuncts about keys, answers and load.
LEMMA AdmissionStepInv ==
    AdmissionInv /\ [AdmissionNext]_allVars => AdmissionInv'
<1> SUFFICES ASSUME AdmissionInv, [AdmissionNext]_allVars PROVE AdmissionInv'
    OBVIOUS
<1> DEFINE Rest == /\ recent' \subseteq Run
                   /\ answer' \in [Run -> Run \cup {NoRun}]
                   /\ OneRunPerKey'
                   /\ AnswerCarriesKey'
                   /\ DemoLoadIsBounded'
<1> USE DEF AdmissionInv, AdmissionTypeOK
<1>1. PipelineInv'
    BY PipelineStep
<1>2. ASSUME NEW r \in Run, Admit(r) PROVE Rest
    <2>1. UNCHANGED <<run, recent, answer>>
        BY <1>2 DEF Admit, BeginRequest, admissionVars
    <2>2. OneRunPerKey' /\ AnswerCarriesKey'
        BY <2>1 DEF OneRunPerKey, AnswerCarriesKey
    <2>3. DemoLoadIsBounded'
        BY <1>2, AdmitLoad
    <2> QED
        BY <2>1, <2>2, <2>3
<1>3. ASSUME NEW r \in Run, AnswerExisting(r) PROVE Rest
    <2>1. PICK q \in SameKey(r) : answer' = [answer EXCEPT ![r] = q]
        BY <1>3 DEF AnswerExisting
    <2>2. /\ q \in Run /\ run[q].status # "absent"
          /\ RequestKey[q] = RequestKey[r]
        BY DEF SameKey
    <2>3. /\ UNCHANGED <<run, recent>>
          /\ handler' = [handler EXCEPT ![r] = HandlerAt("done")]
          /\ handler \in [Run -> Handler]
        BY <1>3 DEF AnswerExisting, PipelineInv, PipelineTypeOK
    <2>4. OneRunPerKey' /\ AnswerCarriesKey'
        BY <2>1, <2>2, <2>3 DEF OneRunPerKey, AnswerCarriesKey
    <2>5. DemoLoad' \subseteq DemoLoad
        BY <2>3 DEF DemoLoad, DemoRequest, InFlight, Reading, HandlerAt
    <2> QED
        BY <2>1, <2>2, <2>3, <2>4, <2>5, LoadShrinks
<1>4. ASSUME NEW r \in Run, CommitAdmitted(r) PROVE Rest
    <2>1. /\ SameKey(r) = {}
          /\ handler[r].pc = "reading"
          /\ answer' = [answer EXCEPT ![r] = r]
          /\ recent' \in {recent, recent \cup {r}}
          /\ handler' = [handler EXCEPT ![r] = HandlerAt("committed")]
        BY <1>4 DEF CommitAdmitted, CommitRequest
    <2>2. run \in [Run -> RunReference] /\ handler \in [Run -> Handler]
        BY DEF PipelineInv, PipelineTypeOK
    <2>3. /\ run'[r].status = "REQUESTED"
          /\ \A q \in Run : q # r => run'[q] = run[q]
        BY <1>4, <2>2 DEF CommitAdmitted, CommitRequest, AbsentRun
    <2>4. OneRunPerKey'
        BY <2>1, <2>3 DEF OneRunPerKey, SameKey
    <2>5. AnswerCarriesKey'
        BY <2>1, <2>3 DEF AnswerCarriesKey
    <2>6. DemoLoad' \subseteq DemoLoad
        BY <2>1, <2>2, <2>3 DEF DemoLoad, DemoRequest, InFlight, Reading, HandlerAt
    <2> QED
        BY <2>1, <2>4, <2>5, <2>6, LoadShrinks
<1>5. ASSUME NEW r \in Run, CooldownPasses(r) PROVE Rest
    <2>1. UNCHANGED <<run, handler, answer>> /\ recent' \subseteq recent
        BY <1>5 DEF CooldownPasses, vars, pipelineVars
    <2>2. DemoLoad' = DemoLoad
        BY <2>1 DEF DemoLoad, DemoRequest, InFlight, Reading
    <2> QED
        BY <2>1, <2>2, LoadShrinks DEF OneRunPerKey, AnswerCarriesKey
<1>6. ASSUME Unadmitted PROVE Rest
    <2>1. UNCHANGED <<recent, answer>>
        BY <1>6 DEF Unadmitted, admissionVars
    <2>2. \A q \in Run :
             /\ run'[q].status # "absent" <=> run[q].status # "absent"
             /\ InFlight(q)' => InFlight(q)
             /\ handler'[q].pc = "reading" => handler[q].pc = "reading"
        BY <1>6, UnadmittedRows
    <2>3. OneRunPerKey'
        BY <2>2 DEF OneRunPerKey
    <2>4. AnswerCarriesKey'
        BY <2>1, <2>2 DEF AnswerCarriesKey
    <2>5. DemoLoad' \subseteq DemoLoad
        BY <2>2 DEF DemoLoad, DemoRequest, Reading
    <2>6. DemoLoadIsBounded'
        BY <2>5, LoadShrinks
    <2>7. recent' \subseteq Run /\ answer' \in [Run -> Run \cup {NoRun}]
        BY <2>1
    <2> QED
        BY <2>3, <2>4, <2>6, <2>7
<1>7. ASSUME UNCHANGED allVars PROVE Rest
    <2>1. UNCHANGED <<run, handler, recent, answer>>
        BY <1>7 DEF allVars, vars, pipelineVars, admissionVars
    <2>2. DemoLoad' = DemoLoad
        BY <2>1 DEF DemoLoad, DemoRequest, InFlight, Reading
    <2>3. DemoLoadIsBounded'
        BY <2>2, LoadShrinks
    <2>4. OneRunPerKey' /\ AnswerCarriesKey'
        BY <2>1 DEF OneRunPerKey, AnswerCarriesKey
    <2>5. recent' \subseteq Run /\ answer' \in [Run -> Run \cup {NoRun}]
        BY <2>1
    <2> QED
        BY <2>3, <2>4, <2>5
<1>8. Rest
    BY <1>2, <1>3, <1>4, <1>5, <1>6, <1>7 DEF AdmissionNext
<1> QED
    BY <1>1, <1>8 DEF PipelineInv

\* The inductive invariant holds in every behaviour.
LEMMA AdmissionInvariance == AdmissionSpec => []AdmissionInv
BY AdmissionInitInv, AdmissionStepInv, PTL DEF AdmissionSpec

-----------------------------------------------------------------------------
\* The answers of request_evaluation, and all of the pipeline, keep their types.
THEOREM AdmissionTypeCorrect == AdmissionSpec => []AdmissionTypeOK
<1>1. AdmissionInv => AdmissionTypeOK
    BY DEF AdmissionInv
<1> QED
    BY <1>1, AdmissionInvariance, PTL

(* What follows from it *)

\* An idempotency key belongs to one reference, however its retries overlap
\* (the lookup of request_evaluation and the unique index).
THEOREM KeyIsUnique == AdmissionSpec => []OneRunPerKey
<1>1. AdmissionInv => OneRunPerKey
    BY DEF AdmissionInv
<1> QED
    BY <1>1, AdmissionInvariance, PTL

\* All who send one key and are answered are told of one run.
THEOREM AnswersAgree == AdmissionSpec => []KeyHasOneAnswer
<1>1. AdmissionInv => KeyHasOneAnswer
    BY AdmissionAssumption
       DEF AdmissionInv, OneRunPerKey, AnswerCarriesKey, KeyHasOneAnswer
<1> QED
    BY <1>1, AdmissionInvariance, PTL

\* Overlapping requests push the load of the demo past its cap by less than
\* their number, whatever else the pipeline does.
THEOREM DemoOverrunIsBounded == AdmissionSpec => []DemoLoadIsBounded
<1>1. AdmissionInv => DemoLoadIsBounded
    BY DEF AdmissionInv
<1> QED
    BY <1>1, AdmissionInvariance, PTL

-----------------------------------------------------------------------------
(* The pipeline under its admission *)

\* Answering a retry leaves the runs, their tasks and their deliveries alone.
LEMMA AnswerIsQuiet ==
    ASSUME PipelineInv, NEW r \in Run, AnswerExisting(r)
    PROVE  /\ UNCHANGED <<stage, run, queue, worker>>
           /\ \A q \in Run : handler[q].pc # "idle" => handler'[q] = handler[q]
BY DEF AnswerExisting, PipelineInv, PipelineTypeOK

\* What a step does to a run is what it does in the pipeline.
LEMMA AdmissionMovesRuns ==
    ASSUME PipelineInv, [AdmissionNext]_allVars, NEW q \in Run
    PROVE  /\ RecordKept(q) /\ Progress(q)
           /\ Stranded(q) => Stranded(q)'
<1>1. CASE [PipelineNext]_vars
    BY <1>1, PinnedStep, ProgressStep, StrandedStep
<1>2. ASSUME NEW r \in Run, AnswerExisting(r)
      PROVE  /\ RecordKept(q) /\ Progress(q)
             /\ Stranded(q) => Stranded(q)'
    <2>1. UNCHANGED <<run, queue, worker>>
        BY <1>2, AnswerIsQuiet
    <2>2. handler[q].pc = "done" => handler'[q].pc = "done"
        BY <1>2, AnswerIsQuiet
    <2>3. run[q].status \in Later(run[q].status)
        BY DEF PipelineInv, PipelineTypeOK, RunReference, RunStatus, Later
    <2> QED
        BY <2>1, <2>2, <2>3
           DEF RecordKept, Progress, Queued, Abandoned, Stranded
<1> QED
    BY <1>1, <1>2, PipelineOrAnswer

\* The admission takes nothing from what the pipeline guarantees: claims are
\* exclusive, verdicts are backed and no version is stuck but by the recovery
\* path, whichever requests are refused, admitted or answered with an old run.
THEOREM PipelineHoldsUnderAdmission ==
    AdmissionSpec =>
        [](/\ OneWorkerPerRun /\ WorkerHoldsDispatchedRun
           /\ EvaluatedHasPassingRun /\ EvaluatingIsExplained)
<1>1. AdmissionInv =>
          /\ OneWorkerPerRun /\ WorkerHoldsDispatchedRun
          /\ EvaluatedHasPassingRun /\ EvaluatingIsExplained
    BY DEF AdmissionInv, PipelineInv
<1> QED
    BY <1>1, AdmissionInvariance, PTL

\* A retry that is answered with the run of its first attempt neither rewrites
\* that run nor sends it back.
THEOREM RecordIsPinnedUnderAdmission ==
    AdmissionSpec => RunRecordIsPinned /\ [][\A r \in Run : Progress(r)]_vars
<1>1. AdmissionInv /\ [AdmissionNext]_allVars
          => [\A r \in Run : RecordKept(r)]_vars /\ [\A r \in Run : Progress(r)]_vars
    BY AdmissionMovesRuns DEF AdmissionInv
<1> QED
    BY <1>1, AdmissionInvariance, PTL DEF AdmissionSpec, RunRecordIsPinned

-----------------------------------------------------------------------------
(* The demo closed for good *)

StrandedRuns == {r \in Run : Stranded(r)}

\* As many runs are stranded as may be in flight.
Exhausted == Cardinality(StrandedRuns) >= Cap

\* A request of the demo that has not been let in.
NotAdmitted(r) == DemoRequest(r) /\ handler[r].pc = "idle"

\* Runs that are stranded stay so.
LEMMA ExhaustedStays ==
    ASSUME PipelineInv, Exhausted, [AdmissionNext]_allVars
    PROVE  Exhausted'
<1>1. StrandedRuns \subseteq StrandedRuns'
    BY AdmissionMovesRuns DEF StrandedRuns
<1>2. StrandedRuns' \in SUBSET Run /\ StrandedRuns \in SUBSET StrandedRuns'
    BY <1>1 DEF StrandedRuns
<1>3. /\ Cardinality(StrandedRuns) \in Nat
      /\ Cardinality(StrandedRuns') \in Nat
      /\ Cardinality(StrandedRuns) <= Cardinality(StrandedRuns')
    BY <1>2, RequestsAreFinite
<1> QED
    BY <1>3, AdmissionAssumption DEF Exhausted

\* Stranded runs are in flight, and so fill the cap.
LEMMA ExhaustedRefuses ==
    ASSUME Exhausted, NEW r \in Run, DemoRequest(r)
    PROVE  ~Guardrails(r)
<1>1. InFlightRuns \in SUBSET Run /\ StrandedRuns \in SUBSET InFlightRuns
    BY DEF StrandedRuns, InFlightRuns, Stranded, Abandoned, InFlight
<1>2. /\ Cardinality(InFlightRuns) \in Nat
      /\ Cardinality(StrandedRuns) \in Nat
      /\ Cardinality(StrandedRuns) <= Cardinality(InFlightRuns)
    BY <1>1, RequestsAreFinite
<1>3. Cardinality(InFlightRuns) >= Cap
    BY <1>2, AdmissionAssumption DEF Exhausted
<1> QED
    BY <1>2, <1>3, AdmissionAssumption DEF Guardrails

\* Only the guardrails let a request of the demo in.
LEMMA NotAdmittedStays ==
    ASSUME PipelineInv, Exhausted, [AdmissionNext]_allVars,
           NEW q \in Run, NotAdmitted(q)
    PROVE  NotAdmitted(q)'
<1> SUFFICES handler'[q].pc = "idle"
    BY DEF NotAdmitted, DemoRequest
<1> USE DEF NotAdmitted, PipelineInv, PipelineTypeOK
<1>1. ASSUME NEW r \in Run, Admit(r) \/ AnswerExisting(r)
      PROVE  handler'[q].pc = "idle"
    <2>1. ~DemoRequest(r)
        BY <1>1, ExhaustedRefuses DEF Admit, AnswerExisting
    <2>2. \A p \in Run \ {r} : handler'[p] = handler[p]
        BY <1>1 DEF Admit, BeginRequest, AnswerExisting
    <2> QED
        BY <2>1, <2>2
<1>2. ASSUME NEW r \in Run, CommitAdmitted(r) PROVE handler'[q].pc = "idle"
    BY <1>2 DEF CommitAdmitted, CommitRequest
<1>3. ASSUME NEW r \in Run,
             RefuseRequest(r) \/ DispatchJob(r) \/ LoseDispatch(r)
      PROVE  handler'[q].pc = "idle"
    BY <1>3 DEF RefuseRequest, DispatchJob, LoseDispatch
<1>4. UNCHANGED handler
        \/ (\E r \in Run : Admit(r) \/ AnswerExisting(r) \/ CommitAdmitted(r))
        \/ \E r \in Run : RefuseRequest(r) \/ DispatchJob(r) \/ LoseDispatch(r)
    BY DEF AdmissionNext, Unadmitted, CooldownPasses, AcknowledgeTask, ClaimJob,
           WorkerStep, WorkerCrashes, MarkFailed, AgentEvalReturns, PersistSuccess,
           PersistFails, allVars, vars, pipelineVars
<1> QED
    BY <1>1, <1>2, <1>3, <1>4

\* Runs that crashed between two of their steps count against the cap of the
\* demo for ever (_enforce_demo_evaluation_guardrails): once there are as many
\* as the cap, no request of a user of the demo is let in again, not even a
\* retry that has its run already.
THEOREM DemoClosesForGood ==
    \A r \in Run :
        AdmissionSpec => /\ [](Stranded(r) => [](Stranded(r) /\ r \in InFlightRuns))
                         /\ [](Exhausted => []Exhausted)
                         /\ [](Exhausted /\ NotAdmitted(r) => []NotAdmitted(r))
<1> TAKE r \in Run
<1>1. AdmissionInv /\ [AdmissionNext]_allVars /\ Stranded(r) => Stranded(r)'
    BY AdmissionMovesRuns DEF AdmissionInv
<1>2. Stranded(r) => r \in InFlightRuns
    BY DEF Stranded, Abandoned, InFlight, InFlightRuns
<1>3. AdmissionInv /\ [AdmissionNext]_allVars /\ Exhausted => Exhausted'
    BY ExhaustedStays DEF AdmissionInv
<1>4. AdmissionInv /\ [AdmissionNext]_allVars /\ Exhausted /\ NotAdmitted(r)
          => NotAdmitted(r)'
    BY NotAdmittedStays DEF AdmissionInv
<1> QED
    BY <1>1, <1>2, <1>3, <1>4, AdmissionInvariance, PTL DEF AdmissionSpec
=============================================================================
