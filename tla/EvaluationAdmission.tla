------------------------- MODULE EvaluationAdmission -------------------------
(***************************************************************************)
(* What request_evaluation (services/evaluations.py) checks before the     *)
(* stage of the version, on top of the pipeline: the guardrails of the     *)
(* public demo, which count rows, and the idempotency key, which is looked *)
(* up first and guarded by a unique index when the row is inserted.  Both  *)
(* are read before the calls of agent-eval and nothing locks what they     *)
(* read.                                                                   *)
(*                                                                         *)
(* Every version here belongs to an agent of the demo team, whose runs the *)
(* concurrency cap counts, whoever requested them.                         *)
(***************************************************************************)
EXTENDS EvaluationPipeline

CONSTANTS
    Key,          \* idempotency keys
    NoKey,        \* a request without one
    RequestKey,   \* the key each request carries
    Actor,        \* users who request
    RequestedBy,  \* the user of each request
    DemoActor,    \* users of the public demo
    Cap,          \* demo_eval_concurrency_cap
    MaxHandlers   \* bound: requests between their checks and their commit

ASSUME AdmissionAssumption ==
    /\ IsFiniteSet(Run)
    /\ NoKey \notin Key
    /\ RequestKey \in [Run -> Key \cup {NoKey}]
    /\ \A r \in SeededRun : RequestKey[r] = NoKey
    /\ RequestedBy \in [Run -> Actor]
    /\ Cap \in Nat \ {0}
    /\ MaxHandlers \in Nat \ {0}

VARIABLES
    recent,  \* requests whose requested_at is within the cooldown
    answer   \* the reference the caller of a request was given

admissionVars == <<recent, answer>>

allVars == <<vars, admissionVars>>

-----------------------------------------------------------------------------
AdmissionTypeOK ==
    /\ PipelineTypeOK
    /\ recent \subseteq Run
    /\ answer \in [Run -> Run \cup {NoRun}]

AdmissionInit ==
    /\ PipelineInit
    /\ recent = {}
    /\ answer = [r \in Run |-> NoRun]

DemoRequest(r) == RequestedBy[r] \in DemoActor

InFlightRuns == {q \in Run : InFlight(q)}

Reading == {q \in Run : handler[q].pc = "reading"}

\* The references that carry the key of a request.
SameKey(r) ==
    {q \in Run : /\ run[q].status # "absent"
                 /\ RequestKey[q] = RequestKey[r]
                 /\ RequestKey[r] # NoKey}

\* Mutant: only runs no worker has claimed yet count against the cap.
GuardrailsOnRequested(r) ==
    DemoRequest(r) =>
        /\ \A q \in recent : RequestedBy[q] # RequestedBy[r]
        /\ Cardinality({q \in Run : run[q].status = "REQUESTED"}) < Cap

\* _enforce_demo_evaluation_guardrails: the cooldown, then the cap.
Guardrails(r) ==
    DemoRequest(r) =>
        /\ \A q \in recent : RequestedBy[q] # RequestedBy[r]
        /\ Cardinality(InFlightRuns) < Cap

-----------------------------------------------------------------------------
\* The request passes every check and goes on to the stage of the version.
Admit(r) ==
    /\ Guardrails(r)
    /\ SameKey(r) = {}
    /\ Cardinality(Reading) < MaxHandlers
    /\ BeginRequest(r)
    /\ UNCHANGED admissionVars

\* Mutant: the caller is handed the key it sent.
AnswerWithKey(r) ==
    /\ handler[r].pc = "idle"
    /\ Guardrails(r)
    /\ SameKey(r) # {}
    /\ answer' = [answer EXCEPT ![r] = RequestKey[r]]
    /\ handler' = [handler EXCEPT ![r] = HandlerAt("done")]
    /\ UNCHANGED <<evidenceVars, stage, run, queue, worker, recent>>

\* A retry is answered with the reference it asked for before; neither the
\* stage of the version nor the dispatch of the job is looked at again.
AnswerExisting(r) ==
    /\ handler[r].pc = "idle"
    /\ Guardrails(r)
    /\ \E q \in SameKey(r) : answer' = [answer EXCEPT ![r] = q]
    /\ handler' = [handler EXCEPT ![r] = HandlerAt("done")]
    /\ UNCHANGED <<evidenceVars, stage, run, queue, worker, recent>>

\* Mutant: without the unique index a second row with the key is inserted.
CommitUnindexed(r) ==
    /\ CommitRequest(r)
    /\ answer' = [answer EXCEPT ![r] = r]
    /\ recent' \in {recent, recent \cup {r}}

\* requested_at is the start of the transaction, so the cooldown may have
\* passed by the time the row is there.  If a row with the key got there
\* first, the insert raises (RefuseRequest).
CommitAdmitted(r) ==
    /\ SameKey(r) = {}
    /\ CommitRequest(r)
    /\ answer' = [answer EXCEPT ![r] = r]
    /\ recent' \in {recent, recent \cup {r}}

CooldownPasses(r) ==
    /\ r \in recent
    /\ recent' = recent \ {r}
    /\ UNCHANGED <<vars, answer>>

\* What goes on as in the pipeline.
Unadmitted ==
    /\ \/ \E r \in Run : RefuseRequest(r) \/ DispatchJob(r) \/ LoseDispatch(r)
       \/ \E r \in Run : AcknowledgeTask(r)
       \/ \E w \in Worker, r \in Run : ClaimJob(w, r)
       \/ \E w \in Worker : WorkerStep(w) \/ WorkerCrashes(w)
       \/ EvidenceNext /\ UNCHANGED pipelineVars
    /\ UNCHANGED admissionVars

AdmissionNext ==
    \/ \E r \in Run : Admit(r)
    \/ \E r \in Run : AnswerExisting(r)
    \/ \E r \in Run : CommitAdmitted(r)
    \/ \E r \in Run : CooldownPasses(r)
    \/ Unadmitted

AdmissionSpec == AdmissionInit /\ [][AdmissionNext]_allVars

-----------------------------------------------------------------------------
(* Properties *)

\* One reference per idempotency key, however the retries of a request overlap
\* (uq_evaluation_run_reference_idempotency_key).
OneRunPerKey ==
    \A r, q \in Run :
        /\ run[r].status # "absent" /\ run[q].status # "absent"
        /\ RequestKey[r] = RequestKey[q] /\ RequestKey[r] # NoKey
        => r = q

\* A retry that is answered is answered with the run its first attempt
\* created: no caller of a key is told of a run another caller of that key
\* is not told of.
KeyHasOneAnswer ==
    \A r, q \in Run :
        /\ RequestKey[r] = RequestKey[q] /\ RequestKey[r] # NoKey
        /\ answer[r] # NoRun /\ answer[q] # NoRun
        => answer[r] = answer[q]

DemoLoad == {r \in Run : DemoRequest(r) /\ (InFlight(r) \/ r \in Reading)}

\* Requests that overlap may exceed the cap of the demo, but only by one less
\* than the number of them: what counts against the cap and what is on its way
\* to count is bounded (_enforce_demo_evaluation_guardrails).
DemoLoadIsBounded == Cardinality(DemoLoad) <= Cap - 1 + MaxHandlers
=============================================================================
