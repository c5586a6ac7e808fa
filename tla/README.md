# A TLA+ model of the agent developer platform

This directory is a verification project for the platform in `src/`: modules
that model its lifecycle logic, TLC configurations that model-check them on
small instances, and TLAPS proofs of the properties that matter most. Paths
below are relative to `src/`; the services are under `backend/app/services/`.

1. [The system](#1-the-system)
2. [The modules](#2-the-modules)
3. [How the code was abstracted](#3-how-the-code-was-abstracted)
4. [What the runs check](#4-what-the-runs-check)
5. [Fairness](#5-fairness)
6. [What is proved](#6-what-is-proved)
7. [Where the code and its documents disagree](#7-where-the-code-and-its-documents-disagree)
8. [What is not modelled](#8-what-is-not-modelled)
9. [What could follow](#9-what-could-follow)
10. [Running it](#10-running-it)

## 1. The system

The platform is a FastAPI backend over PostgreSQL (`backend/app`), with a
Next.js frontend. Teams register agents and publish immutable versions of
them. A version is evaluated by an external service, agent-eval; an evaluation
policy turns what agent-eval measured into gates; a version whose gates all
pass may be reviewed by a human and become the one *recommended* version of its
agent. Skills have a shorter lifecycle of the same shape. Approvals emit
events through an outbox.

### Components

**Evaluation requests** (`evaluations.py`).
State: `evaluation_run_references`, `agent_version_lifecycle.stage`.
`request_evaluation` checks the guardrails of the public demo and the
idempotency key, reads and guards the stage, pins the current policy, *awaits
agent-eval twice* to check the dataset and the evaluators, takes the capability
snapshot, commits the reference and the stage together, and then creates a
Cloud Tasks task. Correct when: a key has one run; the demo does not load
agent-eval without bound; a run is created with the evidence it will be judged
by.
Hard: the stage is guarded before the awaits and written after them; the
process may die between commit and dispatch.

**Evaluation worker** (`evaluation_worker.py`, `job_dispatch.py`,
`api/tasks.py`). State: the status of the reference, gate rows, the stage.
`process_evaluation_job` claims a reference with a conditional `UPDATE`
committed on its own, awaits agent-eval, and either fails the reference and
sends the version back to draft, or persists results, gates and stage. If that
persistence fails, a second session fails the reference only. Correct when: a
run is worked on by one delivery however often its task is delivered, a settled
run never changes, and no version is evaluated without a run whose gates passed.
Hard: at-least-once delivery, a crash after the claim, blind writes of the
stage by runs that overlap each other and the reviews.

**Gates** (`gates.py`). A function of the pinned policy and agent-eval's
answer: one row per criterion. Correct when no criterion is skipped, a policy
with a threshold or a positive completion rate is never met by an answer that
measured nothing, and doing better never costs the verdict.
Hard: missing scores, empty runs, entries without a threshold, no baseline.

**Evidence** (`capability_grants.py`, `evaluation_policies.py`,
`evidence_snapshot.py`, `freshness.py`). State: grant rows, policies; and, in
agent-eval, the evaluator versions and the dataset. All of it may drift between
an evaluation and the decision that relies on it.

**Promotion reviews** (`promotions.py`). State: `promotion_requests`,
`promotion_decisions`, the stage, outbox rows. `request_promotion` takes no
lock and relies on a partial unique index; `approve_promotion` and
`reject_promotion` hold a PostgreSQL advisory lock of the agent. Correct when:
one version of an agent is recommended, a request is decided once, one request
of a version is pending, a decision never rests on older evidence than the
request, and the approvals of an agent never fall back to an older policy. Hard:
decisions race each other, requests, evaluations and drift, and
the lock excludes only the first of these.

**Skill reviews** (`skill_reviews.py`, `skills.py`). The same protocol without
evidence, without agent-eval, and without the partial unique index.

**Outbox** (`event_publisher.py`). State: `outbox_events`. The
approval commits an event row and afterwards tries to publish it; a sweep
called by a scheduler retries the oldest unpublished rows. Correct when: no
event is sent that is not committed, none is given up as sent that was not, and
each one is sent in the end. Hard: crashes between send and record, answers
that get lost, overlapping sweeps, events that can never be sent.

**Permissions** (`permissions.py`, mirrored by `frontend/lib/permissions.ts`):
pure predicates over role, team and requester.

**Agents and manifests** (`agents.py`, `manifest.py`, `api/ci_publish.py`).
State: `agent_versions` with their pins. A version is created by a person or by
the agent's CI from a manifest that must resolve to registered skill versions
and tools; a CI retry is answered with the version of its commit. Correct when
retries agree and no version refers to what is not there. Hard: the commit and
the label are looked up long before the insert, and only the label is unique.

**Capability grants** (`capability_grants.py`). A grant is checked for and then
inserted, a revocation checked for and then written; only a partial unique
index stands behind the first. Correct when a tool is granted once at a time,
and every revocation is in the audit trail.

**Skill impact** (`skills.py`, `get_skill_impact`). No state of its own: from
the pins of agent versions, the order they were created in and their stages it
computes at every call which agents are behind on a skill. Correct when nothing
done on the side of the skill makes it forget an agent.

**Public demo** (`demo.py`). A reset, called by a scheduler or by an admin,
looks for stale pending requests of the demo agent, rejects them one transaction
at a time through `reject_promotion`, and creates a fresh draft. Correct when
what it answers with is what it did, and a reset that failed half way leaves no
fresh draft. Hard: visitors decide the same requests
meanwhile, resets overlap, agent-eval fails half way.

**Seed script** (`scripts/seed_orion_commerce.py`). Creates the sample
organization row by row through the services, looking first, and has one skill
version reviewed. Correct when it can be run again after anything that happened
to an earlier run. Hard: a commit after every row, and a session that never
reads a row twice: the review services it calls act on the lifecycle row the
script loaded before.

**Dashboard** (`dashboard.py`): shows pending requests as blocked and evaluated
versions as stale, by its own calls of `check_freshness`.

**MCP registry** (`mcp.py`): tools registered by admins, connections, health
checks that await the server.

**Audit trail**, **authentication**, **agent-eval client**, **frontend**: see
section 8.

### How they interact

    user --request--> evaluations --commit--> database <--commit-- promotions <-- reviewer
                         | task                   ^                    |  | advisory lock
                         v                        | commit             |  v after commit
                    Cloud Tasks --deliver--> worker                    | outbox --> Pub/Sub
                                               |                       |    ^ sweep <-- scheduler
                                               v HTTP                  v HTTP
                                            agent-eval <---------------'

The components share nothing but the database. `stage` is the crossing: the
evaluation handlers, the worker and the approvals all write it, each with an
`UPDATE` keyed on the version alone, and only approvals take a lock. Sessions
run at READ COMMITTED and keep loaded objects across commits
(`expire_on_commit=False`), so what a handler read before an await is what it
acts on after it.

## 2. The modules

| module | models | state |
|---|---|---|
| `Evidence` | what a verdict depends on, and its drift | `grant`, `policy`, `evaluator`, `dataset` |
| `EvaluationPipeline` (EXTENDS `Evidence`) | request, dispatch, worker | `stage`, `run`, `handler`, `queue`, `worker` |
| `EvaluationAdmission` (EXTENDS `EvaluationPipeline`) | demo guardrails and idempotency in front of it | adds `recent`, `answer` |
| `PromotionReview` (EXTENDS `EvaluationPipeline`) | filing and deciding a promotion, beside the pipeline | adds `promo`, `filing`, `call`, `lock`, `decisions`, `outbox` |
| `SkillReview` | versions of skills and their reviews | `stage`, `status`, `filing`, `call`, `lock`, `decisions` |
| `RecommendedSlot` | abstract: what either review promises | `slot`, `status` |
| `PublicDemo` (EXTENDS `PromotionReview`) | resets of the demo beside the reviews | adds `reset`, `draft` |
| `Dashboard` (EXTENDS `PromotionReview`) | what the overview shows, against what the handlers decide | none |
| `SkillImpact` (EXTENDS `SkillReview`) | pins, and who is behind on a skill | adds `created`, `consumers`, `retired` |
| `OrionSeed` (EXTENDS `SkillImpact`) | runs of the seed script beside people | adds `rows`, `pc`, `entry` |
| `Gates` | the verdict, criterion by criterion | `policy`, `result`, `gates` |
| `Outbox` | event rows, their publication, the sweep | `created`, `published`, `topic`, `todo`, `reply`, `aborts` |
| `Publication` | versions published by people and CI, manifests resolved | `registered`, `version`, `attempt`, `answer` |
| `CapabilityGrants` (EXTENDS `Publication`, implements `Evidence`) | grants and revocations handler by handler | adds `row`, `revoked`, `granting`, `revoking`, `audited` |

`MC*` modules give the constants of a module their values for TLC; `*_proofs`
modules hold the theorems. `Outbox` needs no `MC` module.

### EvaluationPipeline

One action per stretch of a handler between two points where other processes
get a turn: an await of agent-eval or a commit.

| action | code |
|---|---|
| `BeginRequest` | `request_evaluation` up to the first call of agent-eval |
| `RefuseRequest` | any of its exceptions after that, or the death of the process |
| `CommitRequest` | snapshot, insert, stage, commit; uses the stage *read by* `BeginRequest` |
| `DispatchJob`, `LoseDispatch` | `dispatch_job` after the commit, or its failure |
| `ClaimJob` | the conditional `UPDATE` and its commit |
| `AcknowledgeTask` | a delivery that ends without a claim, or after the work |
| `AgentEvalReturns` | `trigger_run` answered; the completion snapshot is taken and the dataset read |
| `MarkFailed` | `trigger_run` raised: `_mark_failed` |
| `PersistSuccess(w, clean)` | the rest of `_persist_success`; `clean` is the verdict of the gates that only read agent-eval's answers |
| `PersistFails` | `_persist_success` raised: rollback, then the recovery session |
| `WorkerCrashes` | the delivery dies between any two of these |

`run[r]` is the reference row together with one bit for its gate rows. Runs are
numbered in the order their transactions start, which is the order of
`requested_at`, the column the latest passing run is chosen by.

### PromotionReview

`BeginFiling` / `CommitFiling` / `RefuseFiling` are `request_promotion` before
and after `check_freshness` awaits agent-eval. `BeginApproval`,
`CheckApproval`, `CommitApproval` are `approve_promotion`: under the lock up to
the await; from the answer to the read of the current recommended version; the
writes and the commit. `BeginRejection` / `CommitRejection` are
`reject_promotion`, cut at the same await: the run a decision records is the
latest passing one when it took the lock. `AbandonCall` is every way a decision ends without one, the
`approval_blocked_stale` path (which commits an audit row alone) included.
`CommitApproval` writes what the code writes: the version it read as
recommended becomes deprecated, its own becomes recommended, whatever has
happened to either meanwhile. The partial unique index on recommended versions
(migration 0002) is *not* a guard of the model; `SlotReadIsCurrent`
(theorem `SlotReadHolds`) says it is never needed, the advisory lock being enough.

### RecommendedSlot

The promise to a consumer: an owner has one slot, only an approval of a pending
request of *another* version changes it, and it never empties. `SkillReview`
implements it without qualification, which is proved (`SkillsImplementSlot`).
`PromotionReview`, with the resets of the demo beside it, implements it where no
version is evaluated twice (`SlotKeptWhenEvaluatedOnce`, `SlotKeptInDemo`); with
a second run it does not (section 7), which is why the refinement is checked in
`PublicDemo` and not in `ReviewWithLateRun`. `SlotIsThePromise` says exactly
which behaviours keep it: those in which a version leaves `recommended` by
supersession only. `OrionSeed` does not implement it either: a script whose run
meets another reviewer may approve a version that is recommended already. What
remains there is proved as `SlotMovesOnlyByApproval` and `SkillSlotNeverEmpties`.

### PublicDemo

`BeginReset` is `reset_demo_environment` up to the loop: the requests it selects
are any of the pending ones, as any may be older than two hours.
`BeginClosing` and `FinishClosing` are one turn of the loop, a whole
`reject_promotion` with its lock and its call of agent-eval; `FailOnDecided` is
the `ConflictError` of a request decided meanwhile and `FailReset` every other
end, neither of which the loop catches. `CreateDraft` is the version created
in the end. A reset makes its rejections through a call of its own
(`ResetCall`), so that each of its steps is one of a reviewer: `PublicDemo`
implements `PromotionReview`, which is proved (`DemoImplementsReview`).

### Dashboard

Operators on the state of `PromotionReview` and no step. `Eligible` and
`HasStaleFindings` are the two answers of `check_freshness`, `StaleEvaluated`
and `BlockedReviews` the two lists made from them. `ApprovalPasses` and
`FilingPasses` are the guards of the handlers, taken at one moment.

### SkillImpact and OrionSeed

`created` and `consumers` are the rows in the order of `created_at`; `retired`
are the agent versions whose stage is deprecated, which reviews of agents set
and take back at any time. `CurrentImpact` follows `get_skill_impact` query by
query.

`Script` is what the script sees to, in its order: the organization in one
commit, then skill versions, tools and agent versions. For each entry there is
a look (`SkipEntry`, `MissEntry`) and then the service (`CreateEntry`,
`TolerateConflict`, `FailOnConflict`). What an entry looks for is not always what
its service refuses (`Present`, `Taken`): the script looks for any version of
release-risk-agent, and for any version of incident-investigator with the
pin, while the service refuses the label. The end of
`seed_shared_skill_story` is one look at the stage (`WantReview`) and four
steps of the review. These use `StartFiling` and `StartApproval` of
`SkillReview`, the handlers without their guard on the stage: the services find
the lifecycle row in the session as the script loaded it, and so see the stage
the script saw. `Crash` ends a run anywhere. People (`PeopleStep`) file and
decide other reviews, decide the script's own, publish versions of skills and
agents and have them deprecated.

### Gates

`ComputeGates` is `_evaluate_gates`, a set of rows with one operator per
criterion. The tags of a policy are a list, as in the code: a tag named twice has
two rows. `Thresholded` are the dimensions whose entry has a `min_mean`; the code
skips the other entries. `submitted` is what the request checked at its
start: a run is queued only with each required evaluator submitted at the
required version, so its gate tells nothing about what agent-eval
measured. A step judges another answer that differs from the last one in one
respect, so that the verdicts of two answers can be compared by an action
property.

### Outbox

A publisher is the handler of an approval (it publishes its own row) or a
sweep. `Sweep` selects the oldest `Limit` unpublished rows once;
`SendAccepted` / `SendFailed` are `send_message`, which may fail with the
message accepted; `RecordPublished` / `RecordError` are the two commits after
it; `Abort` is a death at any point.

### EvaluationAdmission

Every step other than the answer to a retried request is a step of the
pipeline; `Admit` adds the guards that precede `BeginRequest`, and
`CommitAdmitted` the unique index on the key. All its versions belong to agents
of the demo team, the ones the cap counts.

### Publication and CapabilityGrants

`ResolveManifest` is `create_agent_version` up to the insert: who may publish,
the look-up of the commit, the label, every reference of the manifest.
`CreateVersion` is the insert and the commit, behind the unique constraint on
the label alone; `AnswerPublished` is the retry that finds its commit. Two
publications of one commit may carry different labels, as the test of the code
has it. `BeginGrant` / `CommitGrant` and `BeginRevocation` / `CommitRevocation`
split the two handlers between their reads and their writes. `Evidence` takes
each handler as one step: `ImplementsEvidence` says that it may, as the state
of a row changes in single steps even though two revocations can overwrite
each other's name.

## 3. How the code was abstracted

- **Steps.** Code between two awaits of agent-eval or commits is one step.
  Database round trips inside such a stretch are atomic with it. Where a lock
  is held or a conditional `UPDATE` decides, that is exact; for the unlocked
  reads of one handler it merges reads some milliseconds apart, while every
  read whose value is *used after* an await is kept as a separate, stale copy
  (`handler[r].saw`, `handler[r].policy`, `worker[w].grants`,
  `worker[w].dataset`, `filing[p].saw`, `filing[p].run`, `call[c].run`,
  `call[c].prod`).
- **Evidence over HTTP.** What `check_freshness` reads from agent-eval and the
  grants it reads after that are read in one instant; so are the grants and the
  dataset that `_persist_success` reads one after the other.
- **Decisions** are sets of rows: two equal decisions of one request would be one
  element. Both decision tables are unique in the request, so the database
  refuses the second row in any case; and a request is read again under the lock
  before it is decided, so that none is ever refused.
- **Hashes** are the values that are hashed: a capability snapshot is the set
  of active grant rows, a dataset fingerprint the case set. Collisions are not
  modelled.
- **Refusals before any change of state** (404, 403, an illegal stage on
  entry) are not steps: they would be stutters.
- **Audit rows** share the commit of the step that writes them. The one a
  property is about, `promotion.rollback`, is the `rollback` field of a
  decision.
- **The age of a request**, two hours for a reset of the demo, is left open: any
  pending request may be stale.
- **Time.** `created_at` of outbox rows may be any distinct time: it is the
  start of a transaction, and transactions do not commit in the order they
  start. The demo cooldown ends at any time after it began.
- **Users** matter only as requester and reviewer: a decision needs some
  reviewer other than the requester (`can_decide_promotion`,
  `can_decide_skill_review`).

## 4. What the runs check

| run | instance | shows |
|---|---|---|
| `EvaluationPipeline` | 1 version, 2 runs, 2 deliveries at a time, 1 grant, 2 policies, 2 evaluator and 2 dataset versions | the claim is exclusive (`OneWorkerPerRun`), verdicts are backed (`EvaluatedHasPassingRun`), `EVALUATING` is explained by a run in flight or by the recovery path (`EvaluatingIsExplained`), pinned and settled data never change (`RunRecordIsPinned`), and `QueuedRunSettles` under the fairness of section 5 |
| `EvaluationAdmission` | 4 requests of 3 users on 2 versions, one key used twice, cap 1, 2 handlers at a time | one run and one answer per key, and the demo cap overrun by at most `MaxHandlers - 1` |
| `Gates` | every policy and answer over 1 dimension, 1 evaluator, 2 cases, 1 tag named up to twice | one row per criterion (`OneGatePerCriterion`); no pass on an answer without score and case where the policy has a threshold or a positive rate (`EmptyEvidenceNeverPasses`); and `BetterRunStillPasses` |
| `PublicDemo` | 2 versions of the demo agent, one evaluated before and one meanwhile, 3 requests, 2 decisions of visitors, 2 resets | one recommended version, one decision per request, one pending request per version, rollbacks only of promoted versions, the refinement `ImplementsSlot`, all with resets among the reviewers; and `ResetAnswerIsTrue`, which also says that no fresh draft is there unless its reset closed all it found |
| `ReviewWithLateRun` | 2 versions, 3 runs (one of them completed before), 2 requests, 2 calls, evidence drifting | decisions rest on the cited run or a later one (`CitedRunStillPasses`, `DecisionEvidenceNotOlder`), a later approval of an agent never on an older policy than an earlier one (`PolicyNeverFallsBack`), and `DashboardAgrees` after every drift, promotion and late run |
| `SeededSkills` | 2 overlapping runs of the script, 4 entries, 2 versions of a skill, 3 reviews, 3 calls, 2 agent versions | one recommended skill version, one decision per review, deprecated only after recommended, although the script approves on a stage it read before; `SeedIsComplete` and `NoSilentUpgrade` |
| `Outbox` | 3 events of which 1 is never accepted, 1 sweep of at most 2 rows, 1 abort | `PublishedWasAccepted`, `AcceptedWasCommitted`, `EventIsPublished` |
| `Registry` | 5 publications: 2 of one commit under one label, 2 of another under two, 1 by hand; 2 requests for one grant, 2 revocations | `RetriesAgree`, `OneActiveGrant`, `ReferencesResolve`, `RevocationIsAudited`, and the refinement `ImplementsEvidence` |
| `LateRunAfterPromotion`, `SkillReviewTwoPending`, `CommitPublishedTwice`, `SeedRerun` | the smallest instance that shows it | the four disagreements of section 7 |

**Bounds, and why they are enough.** The races are races of two: two deliveries
of one task, two decisions under one lock, two requests for one version, two
runs of one version, two resets, two runs of the script. Each instance has two
of whatever races and one more of what they race over where the order of three
matters (three requests let a version be promoted, superseded and rolled back).
`MaxPolicy` and the versions of evaluator and dataset are two, current and
changed. In `Gates`, a score has two values and a rate three (0, 1/2, 1), which
puts every threshold below, at and above a measured value. In `Registry`, each
lookup that may be overtaken has one competitor, and each way two labels of a
commit may relate is there once. In `SeededSkills`, the entries are one of each
kind the script treats differently: the organization, a skill version, the agent
that needs any version and the one that needs the pin; a third review lets
people supersede the reviewed version. `MaxConsumers` is two, so that an agent
version may be succeeded by another. In `PublicDemo` evidence does not drift and
one of the two versions is evaluated from the start: `ReviewWithLateRun` has the
drift, and the reset looks at no evidence. In `Outbox`, `Limit` exceeds the
poison events by one, the least for which the property can hold, and the single
abort lets the handler or the sweep die at any one point. In
`ReviewWithLateRun`, one run is seeded as completed so that the bound is spent
on the late run and not on reaching the first verdict. Everything the runs check
except what section 6 lists as model-checked only is also proved without bounds.

`CHECK_DEADLOCK FALSE` is set where every finite supply (runs, requests,
grants, policies) may be used up and the system simply stops. `MaxPolicy`,
`MaxHandlers`, `MaxAborts`, `MaxScore`, `MaxRegressions`, `MaxTags` and
`MaxConsumers` are the bounds on what is unbounded in the code.

Each property of a passing run is paired in `PROJECT.json` with a mutant of the
model, a plausible bug at a mapped place, that breaks it. Some mutated forms are
kept in the modules as operators, each introduced by "Mutant:"; none of them
is used by a specification.

## 5. Fairness

`PipelineFairness` has weak fairness of `ClaimJob` for each run and of
`WorkerStep` for each worker. The first holds because Cloud Tasks redelivers a
task until it is acknowledged, and `AcknowledgeTask` requires a run that is no
longer requested; the second because a delivery that does not crash ends:
every call of agent-eval has a client timeout. No fairness is assumed of users, of the
API process reaching its dispatch, of drift, or against crashes. So
`QueuedRunSettles` starts at the queue, not at the request, and ends in
settled *or abandoned by the delivery that claimed it*: nothing in the code
recovers a run from either loss.

`OutboxFairness` has weak fairness of each sweep (the scheduler calls again and
again) and of each publisher (a loop that runs goes on), and strong fairness
of `SendAccepted` for each publisher (Pub/Sub does not fail for ever). Poison
events are exempt from it: they are the payloads Pub/Sub refuses whenever asked.
`EventIsPublished` then needs fewer of them than `Limit`; the sweep always
takes the oldest rows, so as many poison rows as the limit starve all others.

The other specifications state safety only.

## 6. What is proved

TLAPS checks these for every value of the constants allowed by the
assumptions.

| module | theorems |
|---|---|
| `EvaluationPipeline_proofs` | `TypeCorrect`, `ClaimIsExclusive`, `ClaimIsKept`, `VerdictIsBacked`, `StuckOnlyByRecovery`, `RecordIsPinned`, `QueueFollowsCommit`, `RunsMoveForward`, `OutcomeIsFinal`, `StrandedForGood` |
| `EvaluationAdmission_proofs` | `AdmissionTypeCorrect`, `KeyIsUnique`, `AnswersAgree`, `DemoOverrunIsBounded`, `PipelineHoldsUnderAdmission`, `RecordIsPinnedUnderAdmission`, `DemoClosesForGood` |
| `PromotionReview_proofs` | `ReviewTypeCorrect`, `RecommendedIsUnique`, `SlotReadHolds`, `DecisionIsUnique`, `PendingIsUnique`, `CitedRunHolds`, `EvidenceMovesForward`, `RollbackIsOfApproved`, `PipelineHoldsUnderReview`, `RecordIsPinnedUnderReview`, `WayOutIsKnown`, `SlotIsThePromise`, `SlotKeptWithoutLateRuns`, `SlotKeptWhenEvaluatedOnce`, `SlotNeverEmpties`, `StageMovesAreExplained`, `LifecycleIsTheTable`, `DecisionsAreFinal`, `RecommendationIsAnnounced`, `PolicyOfApprovalsMovesForward` |
| `Gates_proofs` | `EveryCriterionIsJudged`, `NoFreePass`, `EmptyAnswerVerdict`, `BetterNeverFails`, `VerdictIsTheCriteria`, `StricterNeverPassesMore` |
| `PublicDemo_proofs` | `DemoImplementsReview`, `DemoTypeCorrect`, `ResetsAnswerTruly`, `OverviewAgrees`, `SlotKeptInDemo`, `DemoTakesNothingBack`, `ResetAnswerStays` |
| `OrionSeed_proofs` | `SkillsImplementSlot`, `SeedTypeCorrect`, `RecommendedSkillIsUnique`, `SkillDecisionIsUnique`, `DeprecationIsOfApproved`, `SeedCompletes`, `NoAgentUpgradesSilently`, `SlotMovesOnlyByApproval`, `SkillSlotNeverEmpties`, `SkillDecisionsAreFinal` |
| `Outbox_proofs` | `OutboxTypeCorrect`, `NoEventIsGivenUp`, `OnlyCommittedIsSent`, `EventsAreKept`, `EventIsDueOrAccepted` |
| `CapabilityGrants_proofs` | `RegistryTypeCorrect`, `RetriesAreAnsweredAlike`, `ActiveGrantIsUnique`, `ReferencesAreResolved`, `RevocationsAreAudited`, `GrantsImplementEvidence`, `SecondVersionHasOtherLabel`, `CommitIsPublishedOnce`, `RegistryOnlyGrows` |

**Assumptions.** `EvidenceAssumption`, `PipelineAssumption`,
`AdmissionAssumption`, `ReviewAssumption`, `DemoAssumption`, `SkillAssumption`,
`ImpactAssumption`, `SeedAssumption`, `GatesAssumption`, `OutboxAssumption`,
`PublicationAssumption`, `GrantsAssumption` give constants their types and say
that null values are none of the values they stand beside. Some say more: seeded
runs precede the others of their version (they completed earlier); the set of
events, and for admission the set of runs, is finite; any set of runs has a
latest one (`LatestAssumption`, for the dashboard); the system actor is a reviewer
who requests nothing, and two resets, or two runs of the script, share neither
call nor request; the entries of the script are of the kinds it knows. TLC
evaluates all of them.

Two hypotheses stand in theorems and not in the modules, as the code does not
guarantee them: `EvaluatedOnce`, no version has a second run, and
`OneLabelPerCommit`, retries of a commit keep its label. The instances of
`LateRunAfterPromotion` and `CommitPublishedTwice` drop them and show that they
are needed; that of `PublicDemo` satisfies the first.

**The arguments.** An invariant that fails to be inductive is strengthened with
what the handlers rely on:

- `PipelineInv` adds that a reference not yet inserted still has its handler
  (`HandlerOwnsAbsentRun`), that gates exist only on completed runs
  (`GatesOnlyWhenCompleted`) and that an idle worker holds no run. Without the
  first, `CommitRequest` might overwrite a run; without the second,
  `EvaluatedHasPassingRun` is not preserved when a run fails. The claim is
  exclusive because a held run is dispatched and a claim needs a requested one.
  A stale `PersistSuccess` cannot break `EvaluatedHasPassingRun`, as the
  stage it writes is backed by the row it writes in the same commit.
- `ProgressStep` is the step of the liveness argument: statuses go forward only,
  a queued run goes on waiting or is claimed, an abandoned one is left alone. That
  the two outcomes of `QueuedRunSettles` are final and exclude one another
  (`OutcomeIsFinal`) follows, and so does its complement: a run in flight with no
  handler, task or delivery behind it is never attended to again
  (`StrandedForGood`). `RecordIsPinnedUnderReview` and its like carry all of it
  over to the modules that extend the pipeline, whose steps either are steps of
  it or leave its runs alone.
- `AdmissionInv` carries `PipelineInv` over, every step but the answer to a
  retry being a pipeline step. Runs that are stranded stay in the count, so the
  guard of `Admit` stays closed once they are as many as the cap. The bound of
  the demo is a counting argument: a request is admitted below the cap, and what
  is being read about, other requests included, is at most `MaxHandlers`.
- `ReviewInv` adds what a call knows: it holds the lock of its agent
  (`CallHoldsLock`), its request is pending and its run passed
  (`CallEvidence`), what a filing handler read is still true where it must be
  (`FilingInv`), and where stages come from (`PromotedWasApproved`,
  `RollbackWasApproved`). `SlotReadIsCurrent` is the heart of
  `RecommendedIsUnique`: between the read and the commit only the holder of the
  lock can make a version recommended, and every other write of the stage
  removes candidates and never adds one.
- The stage has three blind writers. What an approval does to the slot
  (`ApprovalMovesSlot`) needs `SlotInv`: the version under approval is not
  recommended already, and the one it is going to deprecate is of its agent. Then
  `WayOutIsKnown` follows from the list of the writers, and `SlotIsThePromise`
  is a refinement in both directions: if no version leaves `recommended` but by
  supersession every step is one of the slot, and a step of the slot takes a
  version out by another approval only. `OneRunIsNotLate` gives the case without
  a second run: a version past evaluation has used its only run up.
- `StageMovesAreExplained` holds whatever runs overlap; the table of transitions
  does not, and `LifecycleIsTheTable` needs `OnceInv`, what each writer relies on
  and does not read again: a handler under way saw a draft, a version with a run
  in flight is evaluating, a version under approval is still promotable and the
  one to be deprecated still recommended. `PassedIsQuiet` and the lock make it
  inductive.
- Decisions are final since a handler inserts its request once and a call decides
  a pending one; `RecommendationIsAnnounced` puts `PromotedWasApproved`,
  `DecidedOnce` and the equality of events and approvals together.
- `PolicyOfApprovalsMovesForward` needs that nothing is pinned to a policy ahead
  of the current one (`PolicyNotAhead`), that decisions rest on passing runs,
  whose policy is pinned (`DecidedOnPassingRun`), and that an approval under way
  is not behind those its agent has had (`ApprovalNotBehind`): at its
  begin its policy is the current one, and from there to its commit the lock
  keeps other approvals of the agent out.
- For the demo there is nothing to prove again about reviews: each step of a
  reset is a step of a reviewer or a stutter (`DemoStepIsReviewStep`), so
  `DemoImplementsReview` carries the theorems over. That a reset answers
  truly, and puts up its draft only then, rests on a rejection never being taken back and on the lock, which
  lets one call at a time decide a request.
- The dashboard agrees with the handlers because of `CitedRunStillPasses`: the
  handler looks at the gates of the cited run and the dashboard does not, which
  makes no difference only as long as those gates pass.
- `SkillInv` is an invariant of the reviews *without* their look at the stage
  (`LooseStep`), of which both the service and the script are instances: one
  recommended version, one decision, the origin of deprecated versions, and that
  the slot moves by approvals and never empties, rest on the lock alone. The
  refinement of the slot needs the look and is proved of `SkillSpec`. `SeedInv`
  adds what a run has seen to (`Present` is stable but for the pin, which people
  can take the label of) and what its own review has come to, at each of its
  steps.
- `NoFreePass` is one gate for each premise: the score gate of a threshold fails
  without a score, the completion gate of a positive rate without a case.
  `EmptyAnswerVerdict` says what remains, for a run the platform did queue: an empty
  answer passes exactly when the policy has neither, the grants did not change and
  the regressions, if a baseline yields any, are within the limit.
- The gates form a function, so `GatesInv` says `gates` is its value;
  monotonicity is shown per criterion. The completion gate needs that the
  successes of the better run include those of the other, and the cardinality
  theorems. `VerdictIsTheCriteria` states the verdict without the rows
  (`Meets`), from which monotonicity in the policy follows.
- `OutboxInv` adds that times differ, so the row a publisher works on is
  unique; that a selected row is committed; and that an accepted answer is
  about a message Pub/Sub has. A row leaves the pending ones only as accepted, so
  a committed event is always due or accepted, which is the safety half of
  `EventIsPublished`.
- `RegistryInv` adds that a caller is answered with a version of its commit
  (`AnswerIsOfCommit`), that what a handler found is still there when it writes,
  nothing being deleted (`HandlersResolve`), and that a row is inserted once and
  before it is revoked (`RowsAreInserted`). The last is what the refinement
  needs: a grant request maps to a step of `Evidence` from "none", the first
  revocation of a row to one from "active", a second one to a stutter. That the
  labels of an agent are unique is all that stands behind a commit: two versions
  of one bear two labels (`SecondVersionHasOtherLabel`), so one label means one
  version and one answer.

**Only model-checked.** `QueuedRunSettles` and `EventIsPublished` are liveness
under fairness, which the prover does not reach (nor `ENABLED`); the steps they
are made of are proved (`RunsMoveForward`, `EventsAreKept`). Every other property
of a passing run is proved, `ImplementsSlot` under `EvaluatedOnce`, which its
instance satisfies and without which it does not hold. Nothing here is defined by
recursion, so no proof needs induction over data, which would be out of reach
too.

## 7. Where the code and its documents disagree

Each has a run whose single property states the document and fails.

- `LateRunAfterPromotion`: the second of two runs of a version settles after
  the version was recommended and takes it out of `recommended`, leaving the
  agent without a recommended version (`evaluation_worker.py:226`);
  `docs/evaluation-and-promotion.md:133` knows supersession as the only way. It is
  the only other way: a run of that very version must be late (`WayOutIsKnown`).
- `SkillReviewTwoPending`: `skill_reviews.py:103` guards against an
  `IntegrityError` no index raises (migration 0019 has none on pending
  reviews), so two pending reviews of a version are accepted.
- `CommitPublishedTwice`: two overlapping CI publications of one commit under
  two labels both insert (`agents.py:141`), although the comment there and
  `docs/phase-notes/phase-8.md:25` promise one version per commit "even if the
  manifest content differs on retry". Every later retry then finds two rows
  and fails. Under one label there is one version (`RetriesAgree`,
  `CommitIsPublishedOnce`), the slower call getting an unhandled constraint error.

- `SeedRerun`: a run of the seed script that dies between its request for a
  review and the approval leaves the request pending, and every later run fails
  at `scripts/seed_orion_commerce.py:338` with the `ConflictError` of that
  request, although the script calls itself "Idempotent throughout" (line 9) and
  `backend/tests/test_seed.py:3` has it that "re-running it is a no-op".
  `SeedIsComplete` is what remains: a run that does end well leaves nothing out.

Four more that follow from the modelled steps and have no run of their own: a
request whose stage was guarded before its awaits commits after a verdict was
given and takes the version back to `evaluating` (`evaluations.py:216`, the
stale `handler[r].saw` of `CommitRequest`), although
`docs/evaluation-and-promotion.md:136` excludes a new evaluation then; after
a failed persistence the recovery session leaves the stage in
`evaluating` (`evaluation_worker.py:124`), where
`docs/evaluation-and-promotion.md:131` sends a failed evaluation back to draft
(what does hold is proved as `StuckOnlyByRecovery`, and `evaluating` is a
requestable stage); two overlapping revocations of a grant both succeed, where
`docs/api-reference.md:87` has a `409` for the second; and the cap of the demo
is exceeded by overlapping requests, by as much as `DemoLoadIsBounded` says.

Two about policies. An entry of `thresholds` without `min_mean` is accepted and
gets no gate (`gates.py:53`), where `docs/evaluation-and-promotion.md:69` has one
gate per entry. And a policy of required evaluators alone, or of such entries,
with a completion rate of zero is met by an answer that measured nothing: the
evaluator gate looks at what the platform itself submitted. `EmptyAnswerVerdict`
says exactly when an empty answer passes.

And two that are proved of the code as it is. A run whose dispatch was lost or
whose delivery died stays in flight for good (`StrandedForGood`); nothing counts
it out of the cap of the demo, which as many such runs as the cap close for good
(`DemoClosesForGood`). The transitions of the stage are those of the table in
`docs/evaluation-and-promotion.md` only while versions are evaluated once
(`LifecycleIsTheTable`); `evaluating` is a requestable stage, so a second run is
legal, and then only the causes remain (`StageMovesAreExplained`).

## 8. What is not modelled

- *Authentication*: token verification with an external provider.
- *Counts and feeds of the dashboard*, the catalogue and the other reads: they
  change nothing and nothing depends on them.
- *The limits of the dashboard*: a freshness check that fails is swallowed
  (`dashboard.py:66-69`), so that a blocked review is not shown as blocked while
  agent-eval does not answer, and at most one hundred requests are listed.
  `DashboardAgrees` speaks of what is listed while agent-eval answers.
- *Frontend*: renders and proxies; it keeps no state of the lifecycle.
- *Application shell*: wiring, settings, logging, error mapping.
- *Parsing and HTTP of the agent-eval client*: its outcomes are modelled (an
  answer, a timeout or refusal, an unreadable answer).
- *Development fallbacks*: `LocalSyncDispatcher` and `LocalNoopPublisher`.
- *The baseline of the regression gate*: its value is nondeterministic, which
  recommended version it came from is not tracked, so nothing here would notice
  a promotion that exchanges it while a run is in progress.
- *Evidence that drifts and comes back*: a grant given and revoked during a run
  leaves both snapshots equal, and the code compares nothing else. An evaluator
  or a dataset that is changed back is likewise as it was for the code.
- *The registration of an agent-eval target* by a CI publication: best-effort,
  before the publication, and nothing reads it back but the version's
  provenance.
- *MCP connections and health checks*: a check awaits the server and then
  writes its answer over whatever was written meanwhile. The last write wins,
  the next check repairs it, and the status gates nothing: no property would be
  worth its run.
- *The full permission table*: decisions and publications have the part of it
  they rest on (a reviewer other than the requester, CI or a person); the rest
  are pure predicates without state.
- *The sandbox's seed script* (`scripts/seed_demo_sandbox.py`) has the shape of
  the modelled one and no review.
- *The audit trail* as a component: see section 3.

## 9. What could follow

The modules were written in this order, the most important behaviour first: the
pipeline and its evidence; the promotion reviews on top of it; the abstract slot
and the skill reviews; the gates; the outbox; the admission of requests;
publications and grants; the resets of the demo and the dashboard; the skill
impact and the seed script; proofs with each.

What is left is small: the permission predicates against a reference table
together with the frontend's copy of them, the cache of signing keys
(`auth/jwks.py`) under rotation, and the agent-eval client's mapping of answers
to the outcomes the worker tells apart. If the code came to recover abandoned
runs, or to sweep for lost dispatches, `QueuedRunSettles` should be strengthened
to start at the request and to end in settled alone; `StrandedForGood` and
`DemoClosesForGood` are the theorems that would have to fail then.

## 10. Running it

    tlc -workers 2 -config PublicDemo.cfg MCPublicDemo
    tlapm PublicDemo_proofs.tla

The longest runs, `ReviewWithLateRun` (856 thousand states), `SeededSkills` (615
thousand), `EvaluationAdmission` (468 thousand) and `EvaluationPipeline` (229
thousand, with a liveness property), take one to three minutes; the others take
from a second to a minute. `PROJECT.json` lists components, runs, mutants, the
map from definitions to source lines, findings, hazards and theorems.
